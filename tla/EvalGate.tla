--------------------------------- MODULE EvalGate ---------------------------------
(***************************************************************************)
(* The evaluation harness (packages/eval): a run scores the cases of its   *)
(* mode one by one and sums them up in a report.  A plain run writes the   *)
(* report as the baseline of the mode, whatever it says; a gate run        *)
(* compares it with that baseline and lets the revision be promoted, or    *)
(* not.  A metric of a report is the number of cases that meet it: the     *)
(* rates of the code are that number over the cases of the mode.           *)
(***************************************************************************)
EXTENDS Naturals, FiniteSets

CONSTANTS
    Cases,          \* how many cases of the golden set a mode scores
    Misses,         \* what a case may miss: sets of metrics
    PerTolerance,   \* 1 / _RATE_TOL: one case in so many may be lost
    MaxRuns         \* bound: runs of the harness

ASSUME EvalGateAssumption ==
    /\ Cases \in [{"fixtures", "corpus"} -> Nat \ {0}]
    /\ PerTolerance \in Nat \ {0} /\ MaxRuns \in Nat

VARIABLES
    baseline,       \* per mode: the baseline file
    evaluation,     \* the run under way
    promoted,       \* per mode: the report of the last revision the gate let pass
    committed,      \* ghost, per mode: the last report a plain run wrote in full
    runs            \* runs so far

evalVars == <<baseline, evaluation, promoted, committed, runs>>

Modes == {"fixtures", "corpus"}
Floors == {"success", "under budget", "honest"}
Compared == {"grounded", "coverage"}
Judged == {"faithful"}     \* relevance is treated the same way
Metrics == Floors \cup Compared \cup Judged

NoReport == [kind |-> "absent"]
Torn == [kind |-> "torn"]
Report(mode, judged, met) == [kind |-> "report", n |-> Cases[mode], judged |-> judged, met |-> met]
NoEvaluation == [at |-> "idle"]
Begun(mode, gate, judge) == [at |-> "cases", mode |-> mode, gate |-> gate, judge |-> judge,
                             scored |-> 0, met |-> [m \in Metrics |-> 0]]

EvalInit ==
    /\ baseline = [mode \in Modes |-> NoReport]
    /\ evaluation = NoEvaluation
    /\ promoted = [mode \in Modes |-> NoReport]
    /\ committed = [mode \in Modes |-> NoReport]
    /\ runs = 0

\* main: --retrieve, --gate and --judge.
Evaluate(mode, gate, judge) ==
    /\ evaluation.at = "idle" /\ runs < MaxRuns
    /\ runs' = runs + 1
    /\ evaluation' = Begun(mode, gate, judge)
    /\ UNCHANGED <<baseline, promoted, committed>>

\* score_trajectory and the judge: a case meets a metric, or misses it.
Scored(met, missed) == [m \in Metrics |-> IF m \in missed THEN met[m] ELSE met[m] + 1]

\* One case of run_eval: retrieved, composed, scored and judged.
ScoreCase(missed) ==
    /\ evaluation.at = "cases" /\ evaluation.scored < Cases[evaluation.mode]
    /\ evaluation' =
        [evaluation EXCEPT !.scored = @ + 1, !.met = Scored(@, missed)]
    /\ UNCHANGED <<baseline, promoted, committed, runs>>

\* The retriever, the gateway or the judge raises: there is no report, and the exit
\* code is not 0.
CaseRaises ==
    /\ evaluation.at = "cases" /\ evaluation.scored < Cases[evaluation.mode]
    /\ evaluation' = NoEvaluation
    /\ UNCHANGED <<baseline, promoted, committed, runs>>

Aggregate == Report(evaluation.mode, evaluation.judge,
                    [m \in Metrics |-> IF m \in Judged /\ ~evaluation.judge THEN 0
                                       ELSE evaluation.met[m]])

\* evaluate_gate, against the baseline if there is one.
Tolerated(n) == n \div PerTolerance
Regressed(metric, report, base) == report.met[metric] + Tolerated(report.n) < base.met[metric]

Comparable(report, base) ==
    Compared \cup IF report.judged /\ base.judged THEN Judged ELSE {}

EvaluateGate(report, base) ==
    /\ \A metric \in Floors : report.met[metric] = report.n
    /\ base.kind = "report" =>
        \A metric \in Comparable(report, base) : ~Regressed(metric, report, base)

Finished == evaluation.at = "cases" /\ evaluation.scored = Cases[evaluation.mode]

\* Mutant: a revision that passes becomes the next baseline.
GateRunMovesBar ==
    /\ Finished /\ evaluation.gate
    /\ LET mode == evaluation.mode
           passes == baseline[mode] # Torn /\ EvaluateGate(Aggregate, baseline[mode])
       IN /\ promoted' = IF passes THEN [promoted EXCEPT ![mode] = Aggregate] ELSE promoted
          /\ baseline' = IF passes THEN [baseline EXCEPT ![mode] = Aggregate] ELSE baseline
    /\ evaluation' = NoEvaluation
    /\ UNCHANGED <<committed, runs>>

\* A baseline that does not parse raises: exit code 1, like a gate that fails.
GateRun ==
    /\ Finished /\ evaluation.gate
    /\ LET mode == evaluation.mode
       IN IF baseline[mode] # Torn /\ EvaluateGate(Aggregate, baseline[mode])
          THEN promoted' = [promoted EXCEPT ![mode] = Aggregate]
          ELSE UNCHANGED promoted
    /\ evaluation' = NoEvaluation
    /\ UNCHANGED <<baseline, committed, runs>>

\* write_text truncates the file of the mode, and fills it.
OpenBaseline ==
    /\ Finished /\ ~evaluation.gate
    /\ baseline' = [baseline EXCEPT ![evaluation.mode] = Torn]
    /\ evaluation' = [evaluation EXCEPT !.at = "writing"]
    /\ UNCHANGED <<promoted, committed, runs>>

WriteBaseline ==
    /\ evaluation.at = "writing"
    /\ baseline' = [baseline EXCEPT ![evaluation.mode] = Aggregate]
    /\ committed' = [committed EXCEPT ![evaluation.mode] = Aggregate]
    /\ evaluation' = NoEvaluation
    /\ UNCHANGED <<promoted, runs>>

\* --out writes elsewhere; a run that is stopped while it writes leaves what is there.
EndElsewhere ==
    /\ (Finished /\ ~evaluation.gate) \/ evaluation.at = "writing"
    /\ evaluation' = NoEvaluation
    /\ UNCHANGED <<baseline, promoted, committed, runs>>

EvalNext ==
    \/ \E mode \in Modes, gate, judge \in BOOLEAN : Evaluate(mode, gate, judge)
    \/ \E missed \in Misses : ScoreCase(missed)
    \/ CaseRaises \/ GateRun \/ OpenBaseline \/ WriteBaseline \/ EndElsewhere

EvalSpec == EvalInit /\ [][EvalNext]_evalVars

-----------------------------------------------------------------------------
(* However many revisions pass one after the other, the bar stays where a    *)
(* plain run has put it: what the gate lets pass meets every floor on every  *)
(* case of its mode, and is within one tolerance, and not one per revision,  *)
(* of the last report written in that mode, in all that both have measured.  *)
BarHolds ==
    [][\A mode \in Modes : promoted'[mode] # promoted[mode] =>
        LET new == promoted'[mode]
            bar == committed[mode]
        IN /\ \A metric \in Floors : new.met[metric] = Cases[mode]
           /\ bar.kind = "report" =>
                \A metric \in Metrics \ Floors :
                    metric \notin Judged \/ (new.judged /\ bar.judged)
                        => new.met[metric] + (Cases[mode] \div PerTolerance) >= bar.met[metric]
      ]_evalVars
=============================================================================
