------------------------------ MODULE Operations_proofs ------------------------------
(***************************************************************************)
(* What holds of the programs that operators and the delivery pipeline     *)
(* run, the gate of the evaluation and the drills, for every value of the  *)
(* constants.                                                              *)
(***************************************************************************)
EXTENDS EvalGate, Drills, Integers, TLAPS, SequenceTheorems

-----------------------------------------------------------------------------
(* The gate.  The bar does not sink: whatever baseline a gate can read is    *)
(* the last report a plain run wrote in full.                                *)

Reports == [kind : {"report"}, n : Nat, judged : BOOLEAN, met : [Metrics -> Nat]]

\* A run under way.
Counts == [Metrics -> Nat]
Places == {"cases", "writing"}
Evaluations == [at : Places, mode : Modes, gate : BOOLEAN, judge : BOOLEAN,
                scored : Nat, met : Counts]

Typed ==
    /\ evaluation \in {NoEvaluation} \cup Evaluations
    /\ baseline \in [Modes -> {NoReport, Torn} \cup Reports]
    /\ promoted \in [Modes -> {NoReport} \cup Reports]
    /\ committed \in [Modes -> {NoReport} \cup Reports]

\* What can be read is what a plain run has left there.
BaselineCommitted == \A mode \in Modes : baseline[mode] \in {Torn, committed[mode]}

BarInv == Typed /\ BaselineCommitted

-----------------------------------------------------------------------------
\* A missing, a torn and a whole report are different things.
LEMMA KindsDiffer ==
  /\ NoReport.kind = "absent" /\ Torn.kind = "torn"
  /\ NoReport # Torn /\ NoReport \notin Reports /\ Torn \notin Reports
  /\ \A r \in Reports : r.kind = "report" /\ r.n \in Nat /\ r.judged \in BOOLEAN
                        /\ r.met \in [Metrics -> Nat]
<1>1. NoReport.kind = "absent" /\ Torn.kind = "torn"
  BY DEF NoReport, Torn
<1>2. \A r \in Reports : r.kind = "report" /\ r.n \in Nat /\ r.judged \in BOOLEAN
                         /\ r.met \in [Metrics -> Nat]
  BY DEF Reports
<1>3. QED  BY <1>1, <1>2

\* What a finished run reports.
LEMMA AggregateIsAReport ==
  ASSUME evaluation \in Evaluations
  PROVE  /\ Aggregate \in Reports /\ Aggregate.kind = "report"
         /\ Aggregate.n = Cases[evaluation.mode] /\ Aggregate.judged = evaluation.judge
         /\ Cases[evaluation.mode] \in Nat
<1> DEFINE met == [m \in Metrics |-> IF m \in Judged /\ ~evaluation.judge THEN 0
                                     ELSE evaluation.met[m]]
<1>1. met \in [Metrics -> Nat]
  BY DEF Evaluations, Counts
<1>2. Cases[evaluation.mode] \in Nat
  BY EvalGateAssumption DEF Evaluations, Modes
<1>3. Aggregate = [kind |-> "report", n |-> Cases[evaluation.mode],
                   judged |-> evaluation.judge, met |-> met]
  BY DEF Aggregate, Report
<1> HIDE DEF met
<1>4. QED  BY <1>1, <1>2, <1>3 DEF Reports, Evaluations

\* A run that is idle, and one that is under way.
LEMMA IdleOrUnderWay ==
  ASSUME Typed
  PROVE  /\ evaluation.at # "idle" => evaluation \in Evaluations
         /\ NoEvaluation.at = "idle"
         /\ \A e \in Evaluations : e.at # "idle" /\ e.mode \in Modes
<1>1. NoEvaluation.at = "idle"
  BY DEF NoEvaluation
<1>2. \A e \in Evaluations : e.at # "idle" /\ e.mode \in Modes
  BY DEF Evaluations, Places
<1>3. QED  BY <1>1, <1>2 DEF Typed

\* Setting where an evaluation is.
LEMMA AtSet ==
  ASSUME NEW e \in Evaluations, NEW at \in Places
  PROVE  [e EXCEPT !.at = at] \in Evaluations
  BY Zenon DEF Evaluations

\* Setting how many cases it has scored.
LEMMA ScoredSet ==
  ASSUME NEW e \in Evaluations, NEW n \in Nat
  PROVE  [e EXCEPT !.scored = n] \in Evaluations /\ [e EXCEPT !.scored = n].met = e.met
  BY Zenon DEF Evaluations

\* Setting what they met.
LEMMA MetSet ==
  ASSUME NEW e \in Evaluations, NEW met \in Counts
  PROVE  [e EXCEPT !.met = met] \in Evaluations
  BY Zenon DEF Evaluations

\* One more case.
LEMMA CaseCounts ==
  ASSUME NEW e \in Evaluations, NEW missed
  PROVE  [e EXCEPT !.scored = @ + 1, !.met = Scored(@, missed)] \in Evaluations
<1> DEFINE n == e.scored + 1
           met == Scored(e.met, missed)
           q == [e EXCEPT !.scored = n]
           r == [q EXCEPT !.met = met]
<1>1. n \in Nat /\ met \in Counts
  BY DEF Evaluations, Counts, Scored
<1>2. [e EXCEPT !.scored = @ + 1, !.met = Scored(@, missed)] = r
  BY Zenon
<1> HIDE DEF n, met
<1>3. q \in Evaluations
  BY <1>1, ScoredSet
<1> HIDE DEF q
<1>4. r \in Evaluations
  BY <1>1, <1>3, MetSet
<1> HIDE DEF r
<1>5. QED  BY <1>2, <1>4

\* A run that begins.
LEMMA BegunIsUnderWay ==
  ASSUME NEW mode \in Modes, NEW gate \in BOOLEAN, NEW judge \in BOOLEAN
  PROVE  Begun(mode, gate, judge) \in Evaluations
  BY DEF Begun, Evaluations, Places, Counts

-----------------------------------------------------------------------------
(* What is on file changes in three ways: a revision is promoted, the       *)
(* baseline is truncated, the baseline is written.                          *)

\* A step that leaves the files.
LEMMA NothingOnFile ==
  ASSUME BarInv, evaluation' \in {NoEvaluation} \cup Evaluations,
         UNCHANGED <<baseline, promoted, committed>>
  PROVE  BarInv'
  BY DEF BarInv, Typed, BaselineCommitted

\* The gate run.
LEMMA Promoting ==
  ASSUME BarInv, GateRun
  PROVE  BarInv'
<1>1. evaluation \in Evaluations /\ evaluation.mode \in Modes
  BY IdleOrUnderWay DEF BarInv, GateRun, Finished
<1>2. Aggregate \in Reports
  BY <1>1, AggregateIsAReport
<1>3. promoted' = promoted \/ promoted' = [promoted EXCEPT ![evaluation.mode] = Aggregate]
  BY DEF GateRun
<1>4. promoted' \in [Modes -> {NoReport} \cup Reports]
  BY <1>1, <1>2, <1>3 DEF BarInv, Typed
<1>5. evaluation' = NoEvaluation /\ baseline' = baseline /\ committed' = committed
  BY DEF GateRun
<1>6. QED  BY <1>4, <1>5 DEF BarInv, Typed, BaselineCommitted

\* The baseline is opened for writing.
LEMMA Truncating ==
  ASSUME BarInv, OpenBaseline
  PROVE  BarInv'
<1>1. evaluation \in Evaluations /\ evaluation.mode \in Modes
  BY IdleOrUnderWay DEF BarInv, OpenBaseline, Finished
<1>2. /\ baseline' = [baseline EXCEPT ![evaluation.mode] = Torn]
      /\ evaluation' = [evaluation EXCEPT !.at = "writing"]
      /\ promoted' = promoted /\ committed' = committed
  BY DEF OpenBaseline
<1>3. evaluation' \in Evaluations
  BY <1>1, <1>2, AtSet DEF Places
<1>4. baseline' \in [Modes -> {NoReport, Torn} \cup Reports]
  BY <1>1, <1>2 DEF BarInv, Typed
<1>5. BaselineCommitted'
  <2> SUFFICES ASSUME NEW mode \in Modes
               PROVE  baseline'[mode] \in {Torn, committed'[mode]}
    BY DEF BaselineCommitted
  <2>1. baseline'[mode] = IF mode = evaluation.mode THEN Torn ELSE baseline[mode]
    BY <1>2 DEF BarInv, Typed
  <2>2. QED  BY <1>2, <2>1 DEF BarInv, BaselineCommitted
<1>6. QED  BY <1>2, <1>3, <1>4, <1>5 DEF BarInv, Typed

\* The baseline is written.
LEMMA Writing ==
  ASSUME BarInv, WriteBaseline
  PROVE  BarInv'
<1>1. evaluation \in Evaluations /\ evaluation.mode \in Modes
  BY IdleOrUnderWay DEF BarInv, WriteBaseline
<1>2. Aggregate \in Reports
  BY <1>1, AggregateIsAReport
<1>3. /\ baseline' = [baseline EXCEPT ![evaluation.mode] = Aggregate]
      /\ committed' = [committed EXCEPT ![evaluation.mode] = Aggregate]
      /\ promoted' = promoted /\ evaluation' = NoEvaluation
  BY DEF WriteBaseline
<1>4. /\ baseline' \in [Modes -> {NoReport, Torn} \cup Reports]
      /\ committed' \in [Modes -> {NoReport} \cup Reports]
  BY <1>1, <1>2, <1>3 DEF BarInv, Typed
<1>5. BaselineCommitted'
  <2> SUFFICES ASSUME NEW mode \in Modes
               PROVE  baseline'[mode] \in {Torn, committed'[mode]}
    BY DEF BaselineCommitted
  <2>1. CASE mode = evaluation.mode
    BY <1>3, <2>1 DEF BarInv, Typed
  <2>2. CASE mode # evaluation.mode
    <3>1. baseline'[mode] = baseline[mode] /\ committed'[mode] = committed[mode]
      BY <1>3, <2>2 DEF BarInv, Typed
    <3>2. QED  BY <3>1 DEF BarInv, BaselineCommitted
  <2>3. QED  BY <2>1, <2>2
<1>6. QED  BY <1>3, <1>4, <1>5 DEF BarInv, Typed

\* The invariant.
THEOREM BarIsInvariant == EvalSpec => []BarInv
<1>1. EvalInit => BarInv
  BY DEF EvalInit, BarInv, Typed, BaselineCommitted
<1>2. BarInv /\ [EvalNext]_evalVars => BarInv'
  <2> SUFFICES ASSUME BarInv, [EvalNext]_evalVars PROVE BarInv'
    OBVIOUS
  <2>0. evaluation \in {NoEvaluation} \cup Evaluations
    BY DEF BarInv, Typed
  <2>1. ASSUME NEW mode \in Modes, NEW gate \in BOOLEAN, NEW judge \in BOOLEAN,
               Evaluate(mode, gate, judge)
        PROVE  BarInv'
    <3>1. evaluation' \in Evaluations /\ UNCHANGED <<baseline, promoted, committed>>
      BY <2>1, BegunIsUnderWay DEF Evaluate
    <3>2. QED  BY <3>1, NothingOnFile
  <2>2. ASSUME NEW missed \in Misses, ScoreCase(missed)
        PROVE  BarInv'
    <3>1. evaluation \in Evaluations
      BY <2>2, IdleOrUnderWay DEF BarInv, ScoreCase
    <3>2. evaluation' \in Evaluations /\ UNCHANGED <<baseline, promoted, committed>>
      BY <2>2, <3>1, CaseCounts DEF ScoreCase
    <3>3. QED  BY <3>2, NothingOnFile
  <2>3. CASE CaseRaises
    BY <2>3, NothingOnFile DEF CaseRaises
  <2>4. CASE GateRun
    BY <2>4, Promoting
  <2>5. CASE OpenBaseline
    BY <2>5, Truncating
  <2>6. CASE WriteBaseline
    BY <2>6, Writing
  <2>7. CASE EndElsewhere
    BY <2>7, NothingOnFile DEF EndElsewhere
  <2>8. CASE UNCHANGED evalVars
    BY <2>0, <2>8, NothingOnFile DEF evalVars
  <2>9. QED
    BY <2>1, <2>2, <2>3, <2>4, <2>5, <2>6, <2>7, <2>8 DEF EvalNext
<1>3. QED  BY <1>1, <1>2, PTL DEF EvalSpec

-----------------------------------------------------------------------------
\* What one step may promote in one mode.
WithinTheBar(mode) ==
    LET new == promoted'[mode]
        bar == committed[mode]
    IN /\ \A metric \in Floors : new.met[metric] = Cases[mode]
       /\ bar.kind = "report" =>
            \A metric \in Metrics \ Floors :
                metric \notin Judged \/ (new.judged /\ bar.judged)
                    => new.met[metric] + (Cases[mode] \div PerTolerance) >= bar.met[metric]

\* What the gate lets through is within a tolerance of the last report.
LEMMA GateKeepsTheBar ==
  ASSUME BarInv, GateRun, NEW mode \in Modes, promoted'[mode] # promoted[mode]
  PROVE  WithinTheBar(mode)
<1>1. evaluation \in Evaluations /\ evaluation.mode \in Modes
  BY IdleOrUnderWay DEF BarInv, GateRun, Finished
<1>2. /\ mode = evaluation.mode
      /\ baseline[mode] # Torn /\ EvaluateGate(Aggregate, baseline[mode])
      /\ promoted'[mode] = Aggregate
  BY <1>1 DEF GateRun, BarInv, Typed
<1>3. /\ Aggregate \in Reports /\ Aggregate.n = Cases[mode] /\ Cases[mode] \in Nat
      /\ Aggregate.met \in [Metrics -> Nat]
  BY <1>1, <1>2, AggregateIsAReport, KindsDiffer
<1>4. baseline[mode] = committed[mode]
  BY <1>2 DEF BarInv, BaselineCommitted
<1>5. \A metric \in Floors : Aggregate.met[metric] = Cases[mode]
  BY <1>2, <1>3 DEF EvaluateGate
<1>6. ASSUME committed[mode].kind = "report", NEW metric \in Metrics \ Floors,
             metric \notin Judged \/ (Aggregate.judged /\ committed[mode].judged)
      PROVE  Aggregate.met[metric] + (Cases[mode] \div PerTolerance)
                >= committed[mode].met[metric]
  <2>1. metric \in Comparable(Aggregate, committed[mode])
    BY <1>6 DEF Comparable, Metrics
  <2>2. ~Regressed(metric, Aggregate, committed[mode])
    BY <1>2, <1>4, <1>6, <2>1 DEF EvaluateGate
  <2>3. committed[mode] \in Reports
    BY <1>6, KindsDiffer DEF BarInv, Typed
  <2>4. Aggregate.met[metric] \in Nat /\ committed[mode].met[metric] \in Nat
    BY <1>3, <2>3, KindsDiffer
  <2>5. Cases[mode] \div PerTolerance \in Nat
    BY <1>3, EvalGateAssumption
  <2>6. ~(Aggregate.met[metric] + (Cases[mode] \div PerTolerance) < committed[mode].met[metric])
    BY <2>2, <1>3 DEF Regressed, Tolerated
  <2>7. QED  BY <2>4, <2>5, <2>6
<1>7. QED  BY <1>2, <1>5, <1>6 DEF WithinTheBar

\* What the gate promotes is measured against the last report written in its mode: the
\* bar does not sink by one tolerance per revision (gate.py, evaluate_gate; run.py, main).
THEOREM BarStays == EvalSpec => BarHolds
<1>1. EvalSpec => []BarInv
  BY BarIsInvariant
<1>2. BarInv /\ [EvalNext]_evalVars =>
        [\A mode \in Modes : promoted'[mode] # promoted[mode] => WithinTheBar(mode)]_evalVars
  <2> SUFFICES ASSUME BarInv, EvalNext, NEW mode \in Modes, promoted'[mode] # promoted[mode]
               PROVE  WithinTheBar(mode)
    OBVIOUS
  <2>1. GateRun
    BY DEF EvalNext, Evaluate, ScoreCase, CaseRaises, OpenBaseline, WriteBaseline, EndElsewhere
  <2>2. QED  BY <2>1, GateKeepsTheBar
<1>3. EvalSpec =>
        [][\A mode \in Modes : promoted'[mode] # promoted[mode] => WithinTheBar(mode)]_evalVars
  BY <1>1, <1>2, PTL DEF EvalSpec
<1>4. QED  BY <1>3 DEF BarHolds, WithinTheBar

-----------------------------------------------------------------------------
(* The drills.  Whatever is broken has been named, or a drill is under way   *)
(* that mends it or judges it.  First, which commands a drill may give: the  *)
(* steps of its blocks and of its last finally, written out.                 *)

Kinds == {"infra", "costctl", "inspect", "backup"}
Ladder == {"blackhole engine", "blackhole groq", "blackhole openai", "unblackhole"}

\* What a drill does in its blocks.
OwnSteps(kind) ==
    CASE kind = "infra" -> {"stop redis", "start redis", "judge redis",
                            "stop db", "start db", "judge db"}
      [] kind = "costctl" -> {"floor", "switch on", "clear switch", "seed spend", "limit",
                              "lower spend", "restore spend", "recreate", "judge floor",
                              "judge limit"}
      [] kind = "inspect" -> {"switch off", "clear switch", "judge planning"} \cup Ladder
      [] kind = "backup" -> {"dump", "create database", "snapshot", "recover collection",
                             "drop snapshot"}

\* The failover ladder is a list of its steps.
LEMMA LadderSteps ==
  /\ failover_ladder \in Seq(Ladder) /\ Len(failover_ladder) \in Nat
  /\ \A j \in 1..Len(failover_ladder) : failover_ladder[j] \in Ladder
<1>1. /\ <<"unblackhole">> \in Seq(Ladder)
      /\ <<"blackhole engine">> \in Seq(Ladder)
      /\ <<"blackhole engine", "blackhole groq">> \in Seq(Ladder)
      /\ <<"blackhole engine", "blackhole groq", "blackhole openai">> \in Seq(Ladder)
  BY DEF Ladder
<1>2. \A s \in Seq(Ladder), t \in Seq(Ladder) : s \o t \in Seq(Ladder)
  BY ConcatProperties
<1>3. \A s \in Seq(Ladder) : Rung(s) \in Seq(Ladder)
  BY <1>1, <1>2 DEF Rung
<1>4. PICK r1 : r1 = Rung(<<"blackhole engine">>)
  OBVIOUS
<1>5. PICK r2 : r2 = Rung(<<"blackhole engine", "blackhole groq">>)
  OBVIOUS
<1>6. PICK r3 : r3 = Rung(<<"blackhole engine", "blackhole groq", "blackhole openai">>)
  OBVIOUS
<1>7. r1 \in Seq(Ladder) /\ r2 \in Seq(Ladder) /\ r3 \in Seq(Ladder)
  BY <1>1, <1>3, <1>4, <1>5, <1>6
<1>8. failover_ladder = r1 \o r2 \o r3
  BY <1>4, <1>5, <1>6 DEF failover_ladder
<1>9. failover_ladder \in Seq(Ladder)
  BY <1>2, <1>7, <1>8
<1> QED BY <1>9, LenProperties, ElementOfSeq

\* What the inspection's try block does.
LEMMA InspectSteps ==
  LET body == Blocks("inspect")[1].body IN
  /\ Len(Blocks("inspect")) = 1
  /\ Len(Blocks("inspect")[1].cleanup) = 0
  /\ Len(body) \in Nat /\ Len(body) >= 3
  /\ body[1] = "switch off" /\ body[2] = "clear switch" /\ body[3] = "judge planning"
  /\ \A i \in 1..Len(body) : i > 3 => body[i] \in Ladder
<1> DEFINE All == OwnSteps("inspect")
<1>1. PICK c : c = check_kill_switch
  OBVIOUS
<1>2. PICK l : l = failover_ladder
  OBVIOUS
<1>3. /\ Len(c) = 3 /\ c[1] = "switch off" /\ c[2] = "clear switch" /\ c[3] = "judge planning"
      /\ c \in Seq(All)
  <2>1. "switch off" \in All /\ "clear switch" \in All /\ "judge planning" \in All
    BY DEF OwnSteps
  <2> HIDE DEF All
  <2>2. \A x \in All, y \in All, z \in All : <<x, y, z>> \in Seq(All)
    OBVIOUS
  <2>3. c = <<"switch off", "clear switch", "judge planning">>
    BY <1>1 DEF check_kill_switch
  <2>4. c \in Seq(All)
    BY <2>1, <2>2, <2>3
  <2> QED BY <2>3, <2>4
<1>4. l \in Seq(All) /\ Len(l) \in Nat /\ \A j \in 1..Len(l) : l[j] \in Ladder
  <2>1. Ladder \subseteq All
    BY DEF OwnSteps, Ladder
  <2>2. l \in Seq(Ladder) /\ Len(l) \in Nat /\ \A j \in 1..Len(l) : l[j] \in Ladder
    BY <1>2, LadderSteps
  <2> HIDE DEF All
  <2>3. l \in Seq(All)
    BY <2>1, <2>2
  <2> QED BY <2>2, <2>3
<1> HIDE DEF All
<1>5. PICK s : s = c \o l
  OBVIOUS
<1>6. /\ Len(s) = Len(c) + Len(l)
      /\ \A i \in 1 .. Len(c) + Len(l) : s[i] = IF i <= Len(c) THEN c[i] ELSE l[i - Len(c)]
  BY <1>3, <1>4, <1>5, ConcatProperties
<1>7. PICK m \in Nat : m = Len(l)
  BY <1>4
<1>8. Len(s) = 3 + m /\ \A i \in 1 .. 3 + m : s[i] = IF i <= 3 THEN c[i] ELSE l[i - 3]
  BY <1>3, <1>6, <1>7
<1>11. s[1] = c[1] /\ s[2] = c[2] /\ s[3] = c[3]
  BY <1>8
<1>12. Len(s) \in Nat /\ Len(s) >= 3
  BY <1>8
<1>13. ASSUME NEW i \in 1 .. 3 + m, i > 3
       PROVE  s[i] \in Ladder
  <2>1. s[i] = l[i - 3] /\ i - 3 \in 1..m
    BY <1>8, <1>13
  <2> QED BY <2>1, <1>4, <1>7
<1>14. \A i \in 1..Len(s) : i > 3 => s[i] \in Ladder
  BY <1>8, <1>13
<1>9. /\ Len(Blocks("inspect")) = 1 /\ Len(Blocks("inspect")[1].cleanup) = 0
      /\ Blocks("inspect")[1].body = check_kill_switch \o failover_ladder
  BY DEF Blocks, Block
<1>10. Blocks("inspect")[1].body = s
  BY <1>1, <1>2, <1>5, <1>9
<1> QED BY <1>3, <1>9, <1>10, <1>11, <1>12, <1>14

\* What the drill of the datastores does.
LEMMA InfraSteps ==
  /\ Len(Blocks("infra")) = 2
  /\ LET body == Blocks("infra")[1].body
         cleanup == Blocks("infra")[1].cleanup
     IN /\ Len(body) = 1 /\ body[1] = "stop redis"
        /\ Len(cleanup) = 2 /\ cleanup[1] = "start redis" /\ cleanup[2] = "judge redis"
  /\ LET body == Blocks("infra")[2].body
         cleanup == Blocks("infra")[2].cleanup
     IN /\ Len(body) = 1 /\ body[1] = "stop db"
        /\ Len(cleanup) = 2 /\ cleanup[1] = "start db" /\ cleanup[2] = "judge db"
BY DEF Blocks, Block, q15_redis_down, q16_postgres_down

\* What the drill of the cost controls does.
LEMMA CostctlSteps ==
  /\ Len(Blocks("costctl")) = 2
  /\ LET body == Blocks("costctl")[1].body
         cleanup == Blocks("costctl")[1].cleanup
     IN /\ Len(body) = 3 /\ body[1] = "floor" /\ body[2] = "switch on" /\ body[3] = "clear switch"
        /\ Len(cleanup) = 2 /\ cleanup[1] = "recreate" /\ cleanup[2] = "judge floor"
  /\ LET body == Blocks("costctl")[2].body
         cleanup == Blocks("costctl")[2].cleanup
     IN /\ Len(body) = 3 /\ body[1] = "seed spend" /\ body[2] = "limit"
        /\ body[3] = "lower spend"
        /\ Len(cleanup) = 3 /\ cleanup[1] = "restore spend" /\ cleanup[2] = "recreate"
        /\ cleanup[3] = "judge limit"
BY DEF Blocks, Block, q8_static_floor, q10_spend_breaker

\* What the drill of the backups does.
LEMMA BackupSteps ==
  /\ Len(Blocks("backup")) = 2
  /\ LET body == Blocks("backup")[1].body
     IN /\ Len(body) = 2 /\ body[1] = "dump" /\ body[2] = "create database"
        /\ Len(Blocks("backup")[1].cleanup) = 0
  /\ LET body == Blocks("backup")[2].body
     IN /\ Len(body) = 3 /\ body[1] = "snapshot" /\ body[2] = "recover collection"
        /\ body[3] = "drop snapshot"
        /\ Len(Blocks("backup")[2].cleanup) = 0
BY DEF Blocks, Block, postgres_drill, qdrant_drill

\* The steps of a block are its drill's.
LEMMA StepsOfBlock ==
  ASSUME NEW kind \in Kinds, NEW b \in 1..Len(Blocks(kind)), NEW at \in {"body", "cleanup"},
         NEW i \in 1..Len(Blocks(kind)[b][at])
  PROVE  /\ Blocks(kind)[b][at][i] \in OwnSteps(kind)
         /\ kind = "inspect" =>
               /\ at = "body"
               /\ i = 1 => Blocks(kind)[b][at][i] = "switch off"
               /\ i = 2 => Blocks(kind)[b][at][i] = "clear switch"
               /\ i = 3 => Blocks(kind)[b][at][i] = "judge planning"
               /\ i > 3 => Blocks(kind)[b][at][i] \in Ladder
<1>1. CASE kind = "infra"
  <2>1. Len(Blocks(kind)) = 2
    BY <1>1, InfraSteps
  <2>2. b = 1 \/ b = 2
    BY <2>1
  <2>3. PICK s : s = Blocks(kind)[b][at]
    OBVIOUS
  <2>4. CASE b = 1 /\ at = "body"
    <3>1. Len(s) = 1 /\ s[1] = "stop redis"
      BY <1>1, <2>3, <2>4, InfraSteps
    <3>2. i \in 1..1
      BY <2>3, <3>1
    <3>3. i \in {1}
      BY <3>2
    <3>4. s[i] \in OwnSteps(kind)
      BY <1>1, <2>3, <3>1, <3>3 DEF OwnSteps
    <3> QED BY <1>1, <2>3, <3>1, <3>4
  <2>5. CASE b = 1 /\ at = "cleanup"
    <3>1. Len(s) = 2 /\ s[1] = "start redis" /\ s[2] = "judge redis"
      BY <1>1, <2>3, <2>5, InfraSteps
    <3>2. i \in 1..2
      BY <2>3, <3>1
    <3>3. i \in {1, 2}
      BY <3>2
    <3>4. s[i] \in OwnSteps(kind)
      BY <1>1, <2>3, <3>1, <3>3 DEF OwnSteps
    <3> QED BY <1>1, <2>3, <3>1, <3>4
  <2>6. CASE b = 2 /\ at = "body"
    <3>1. Len(s) = 1 /\ s[1] = "stop db"
      BY <1>1, <2>3, <2>6, InfraSteps
    <3>2. i \in 1..1
      BY <2>3, <3>1
    <3>3. i \in {1}
      BY <3>2
    <3>4. s[i] \in OwnSteps(kind)
      BY <1>1, <2>3, <3>1, <3>3 DEF OwnSteps
    <3> QED BY <1>1, <2>3, <3>1, <3>4
  <2>7. CASE b = 2 /\ at = "cleanup"
    <3>1. Len(s) = 2 /\ s[1] = "start db" /\ s[2] = "judge db"
      BY <1>1, <2>3, <2>7, InfraSteps
    <3>2. i \in 1..2
      BY <2>3, <3>1
    <3>3. i \in {1, 2}
      BY <3>2
    <3>4. s[i] \in OwnSteps(kind)
      BY <1>1, <2>3, <3>1, <3>3 DEF OwnSteps
    <3> QED BY <1>1, <2>3, <3>1, <3>4
  <2> QED BY <1>1, <2>2, <2>4, <2>5, <2>6, <2>7
<1>2. CASE kind = "costctl"
  <2>1. Len(Blocks(kind)) = 2
    BY <1>2, CostctlSteps
  <2>2. b = 1 \/ b = 2
    BY <2>1
  <2>3. PICK s : s = Blocks(kind)[b][at]
    OBVIOUS
  <2>4. CASE b = 1 /\ at = "body"
    <3>1. Len(s) = 3 /\ s[1] = "floor" /\ s[2] = "switch on" /\ s[3] = "clear switch"
      BY <1>2, <2>3, <2>4, CostctlSteps
    <3>2. i \in 1..3
      BY <2>3, <3>1
    <3>3. i = 1 \/ i = 2 \/ i = 3
      BY <3>2
    <3>4. s[i] \in OwnSteps(kind)
      BY <1>2, <2>3, <3>1, <3>3 DEF OwnSteps
    <3> QED BY <1>2, <2>3, <3>1, <3>4
  <2>5. CASE b = 1 /\ at = "cleanup"
    <3>1. Len(s) = 2 /\ s[1] = "recreate" /\ s[2] = "judge floor"
      BY <1>2, <2>3, <2>5, CostctlSteps
    <3>2. i \in 1..2
      BY <2>3, <3>1
    <3>3. i \in {1, 2}
      BY <3>2
    <3>4. s[i] \in OwnSteps(kind)
      BY <1>2, <2>3, <3>1, <3>3 DEF OwnSteps
    <3> QED BY <1>2, <2>3, <3>1, <3>4
  <2>6. CASE b = 2 /\ at = "body"
    <3>1. Len(s) = 3 /\ s[1] = "seed spend" /\ s[2] = "limit" /\ s[3] = "lower spend"
      BY <1>2, <2>3, <2>6, CostctlSteps
    <3>2. i \in 1..3
      BY <2>3, <3>1
    <3>3. i = 1 \/ i = 2 \/ i = 3
      BY <3>2
    <3>4. s[i] \in OwnSteps(kind)
      BY <1>2, <2>3, <3>1, <3>3 DEF OwnSteps
    <3> QED BY <1>2, <2>3, <3>1, <3>4
  <2>7. CASE b = 2 /\ at = "cleanup"
    <3>1. Len(s) = 3 /\ s[1] = "restore spend" /\ s[2] = "recreate" /\ s[3] = "judge limit"
      BY <1>2, <2>3, <2>7, CostctlSteps
    <3>2. i \in 1..3
      BY <2>3, <3>1
    <3>3. i = 1 \/ i = 2 \/ i = 3
      BY <3>2
    <3>4. s[i] \in OwnSteps(kind)
      BY <1>2, <2>3, <3>1, <3>3 DEF OwnSteps
    <3> QED BY <1>2, <2>3, <3>1, <3>4
  <2> QED BY <1>2, <2>2, <2>4, <2>5, <2>6, <2>7
<1>3. CASE kind = "inspect"
  <2>1. Len(Blocks(kind)) = 1
    BY <1>3, InspectSteps
  <2>2. b = 1
    BY <2>1
  <2>3. CASE at = "cleanup"
    <3>1. Len(Blocks(kind)[b][at]) = 0
      BY <1>3, <2>2, <2>3, InspectSteps
    <3>2. i \in 1..0
      BY <3>1
    <3>3. FALSE
      BY <3>2
    <3> QED BY <3>3
  <2>4. CASE at = "body"
    <3>1. PICK s : s = Blocks("inspect")[1].body
      OBVIOUS
    <3>2. Blocks(kind)[b][at] = s
      BY <1>3, <2>2, <2>4, <3>1
    <3>3. PICK n : n = Len(s)
      OBVIOUS
    <3>4. i \in 1..n
      BY <3>2, <3>3
    <3>5. /\ n \in Nat /\ n >= 3
          /\ s[1] = "switch off" /\ s[2] = "clear switch" /\ s[3] = "judge planning"
          /\ \A j \in 1..n : j > 3 => s[j] \in Ladder
      BY <3>1, <3>3, InspectSteps
    <3>6. i = 1 \/ i = 2 \/ i = 3 \/ i > 3
      <4>1. n \in Nat
        BY <3>5
      <4> QED BY <3>4, <4>1
    <3>7. i > 3 => s[i] \in Ladder
      BY <3>4, <3>5
    <3>8. s[i] \in {"switch off", "clear switch", "judge planning"} \cup Ladder
      BY <3>5, <3>6, <3>7
    <3>9. s[i] \in OwnSteps(kind)
      BY <1>3, <3>8 DEF OwnSteps
    <3> QED BY <2>4, <3>2, <3>5, <3>7, <3>9
  <2> QED BY <2>3, <2>4
<1>4. CASE kind = "backup"
  <2>1. Len(Blocks(kind)) = 2
    BY <1>4, BackupSteps
  <2>2. b = 1 \/ b = 2
    BY <2>1
  <2>3. PICK s : s = Blocks(kind)[b][at]
    OBVIOUS
  <2>4. CASE b = 1 /\ at = "body"
    <3>1. Len(s) = 2 /\ s[1] = "dump" /\ s[2] = "create database"
      BY <1>4, <2>3, <2>4, BackupSteps
    <3>2. i \in 1..2
      BY <2>3, <3>1
    <3>3. i \in {1, 2}
      BY <3>2
    <3>4. s[i] \in OwnSteps(kind)
      BY <1>4, <2>3, <3>1, <3>3 DEF OwnSteps
    <3> QED BY <1>4, <2>3, <3>1, <3>4
  <2>5. CASE b = 1 /\ at = "cleanup"
    <3>1. Len(s) = 0
      BY <1>4, <2>3, <2>5, BackupSteps
    <3>2. i \in 1..0
      BY <2>3, <3>1
    <3>3. FALSE
      BY <3>2
    <3> QED BY <3>3
  <2>6. CASE b = 2 /\ at = "body"
    <3>1. Len(s) = 3 /\ s[1] = "snapshot" /\ s[2] = "recover collection" /\ s[3] = "drop snapshot"
      BY <1>4, <2>3, <2>6, BackupSteps
    <3>2. i \in 1..3
      BY <2>3, <3>1
    <3>3. i = 1 \/ i = 2 \/ i = 3
      BY <3>2
    <3>4. s[i] \in OwnSteps(kind)
      BY <1>4, <2>3, <3>1, <3>3 DEF OwnSteps
    <3> QED BY <1>4, <2>3, <3>1, <3>4
  <2>7. CASE b = 2 /\ at = "cleanup"
    <3>1. Len(s) = 0
      BY <1>4, <2>3, <2>7, BackupSteps
    <3>2. i \in 1..0
      BY <2>3, <3>1
    <3>3. FALSE
      BY <3>2
    <3> QED BY <3>3
  <2> QED BY <1>4, <2>2, <2>4, <2>5, <2>6, <2>7
<1> QED BY <1>1, <1>2, <1>3, <1>4 DEF Kinds

\* What each drill does in its last finally.
LEMMA StepsOfFinal ==
  /\ Len(Final("infra")) = 2 /\ Final("infra")[1] = "judge redis" /\ Final("infra")[2] = "judge db"
  /\ Len(Final("costctl")) = 1 /\ Final("costctl")[1] = "judge planning"
  /\ Len(Final("inspect")) = 3 /\ Final("inspect")[1] = "unblackhole"
  /\ Final("inspect")[2] = "judge hosts" /\ Final("inspect")[3] = "clear switch"
  /\ Len(Final("backup")) = 2 /\ Final("backup")[1] = "drop scratch"
  /\ Final("backup")[2] = "judge scratch"
BY DEF Final

-----------------------------------------------------------------------------
(* What a drill's record may be, and how a step moves it.                    *)

DrillPlaces == {"idle", "open", "write", "stale", "reopen", "ready", "body", "cleanup",
                "final", "release", "over"}
DrillRecord == [at: DrillPlaces, kind: Kinds \cup {"none"}, block: Nat, pc: Nat, raised: BOOLEAN]
StackType == [redis: BOOLEAN, db: BOOLEAN, api: {".env", "floor", "limit", "down"},
              spend: {"over", "under"},
              switch: {"unset", "0", "1"},
              hosts: SUBSET {"engine", "groq", "openai"},
              scratch: SUBSET {"dump", "database", "snapshot", "collection"}]

DrillTyped ==
    /\ stack \in StackType
    /\ drill \in [Operators -> DrillRecord]
    /\ \A o \in Operators : drill[o].at # "idle" =>
          /\ drill[o].kind \in Kinds /\ drill[o].pc > 0
          /\ drill[o].block \in 1..Len(Blocks(drill[o].kind))
    /\ failures \in Nat /\ interrupts \in Nat /\ kills \in Nat

\* The move of one drill, field by field.
Turns(o, place, i, b) ==
    /\ drill' \in [Operators -> DrillRecord]
    /\ \A p \in Operators \ {o} : drill'[p] = drill[p]
    /\ drill'[o].at = place /\ drill'[o].pc = i
    /\ drill'[o].kind = drill[o].kind /\ drill'[o].block = b

\* Every move of a drill is a turn to a place.
LEMMA DrillTurns ==
  ASSUME drill \in [Operators -> DrillRecord], NEW o \in Operators, NEW place \in DrillPlaces
  PROVE  /\ Moves(o, place) => Turns(o, place, drill[o].pc, drill[o].block)
         /\ GoTo(o, place) => Turns(o, place, 1, drill[o].block)
         /\ Raise(o, place) => Turns(o, place, 1, drill[o].block)
         /\ Onward(o) => Turns(o, drill[o].at, drill[o].pc + 1, drill[o].block)
         /\ drill' = [drill EXCEPT ![o] = [@ EXCEPT !.at = "body", !.pc = 1, !.block = drill[o].block + 1]]
               => Turns(o, "body", 1, drill[o].block + 1)
<1>1. PICK d \in DrillRecord : d = drill[o]
  OBVIOUS
<1>2. ASSUME NEW e \in DrillRecord, drill' = [drill EXCEPT ![o] = e]
      PROVE  /\ drill' \in [Operators -> DrillRecord]
             /\ \A p \in Operators \ {o} : drill'[p] = drill[p]
             /\ drill'[o] = e
  BY <1>2
<1>3. ASSUME Moves(o, place) PROVE Turns(o, place, drill[o].pc, drill[o].block)
  <2>1. PICK e : e = [d EXCEPT !.at = place]
    OBVIOUS
  <2>2. e \in DrillRecord /\ e.at = place /\ e.pc = d.pc /\ e.kind = d.kind /\ e.block = d.block
    BY <2>1 DEF DrillRecord
  <2>3. drill' = [drill EXCEPT ![o] = e]
    BY <1>1, <1>3, <2>1 DEF Moves
  <2> QED BY <1>1, <1>2, <2>2, <2>3 DEF Turns
<1>4. ASSUME GoTo(o, place) PROVE Turns(o, place, 1, drill[o].block)
  <2>1. PICK e : e = [d EXCEPT !.at = place, !.pc = 1]
    OBVIOUS
  <2>2. e \in DrillRecord /\ e.at = place /\ e.pc = 1 /\ e.kind = d.kind /\ e.block = d.block
    BY <2>1 DEF DrillRecord
  <2>3. drill' = [drill EXCEPT ![o] = e]
    BY <1>1, <1>4, <2>1 DEF GoTo
  <2> QED BY <1>1, <1>2, <2>2, <2>3 DEF Turns
<1>5. ASSUME Raise(o, place) PROVE Turns(o, place, 1, drill[o].block)
  <2>1. PICK e : e = [d EXCEPT !.at = place, !.pc = 1, !.raised = TRUE]
    OBVIOUS
  <2>2. e \in DrillRecord /\ e.at = place /\ e.pc = 1 /\ e.kind = d.kind /\ e.block = d.block
    BY <2>1 DEF DrillRecord
  <2>3. drill' = [drill EXCEPT ![o] = e]
    BY <1>1, <1>5, <2>1 DEF Raise
  <2> QED BY <1>1, <1>2, <2>2, <2>3 DEF Turns
<1>6. ASSUME Onward(o) PROVE Turns(o, drill[o].at, drill[o].pc + 1, drill[o].block)
  <2>1. PICK e : e = [d EXCEPT !.pc = d.pc + 1]
    OBVIOUS
  <2>2. e \in DrillRecord /\ e.at = d.at /\ e.pc = d.pc + 1 /\ e.kind = d.kind /\ e.block = d.block
    BY <2>1 DEF DrillRecord
  <2>3. drill' = [drill EXCEPT ![o] = e]
    BY <1>1, <1>6, <2>1 DEF Onward
  <2> QED BY <1>1, <1>2, <2>2, <2>3 DEF Turns
<1>7. ASSUME drill' = [drill EXCEPT ![o] = [@ EXCEPT !.at = "body", !.pc = 1, !.block = drill[o].block + 1]]
      PROVE  Turns(o, "body", 1, drill[o].block + 1)
  <2>1. PICK n \in Nat : n = d.block + 1
    BY DEF DrillRecord
  <2>2. PICK e : e = [d EXCEPT !.at = "body", !.pc = 1, !.block = n]
    OBVIOUS
  <2>3. "body" \in DrillPlaces
    BY DEF DrillPlaces
  <2>4. e \in DrillRecord /\ e.at = "body" /\ e.pc = 1 /\ e.kind = d.kind /\ e.block = n
    BY <2>2, <2>3 DEF DrillRecord
  <2>5. drill' = [drill EXCEPT ![o] = [d EXCEPT !.at = "body", !.pc = 1, !.block = d.block + 1]]
    BY <1>1, <1>7
  <2>6. drill' = [drill EXCEPT ![o] = e]
    BY <2>1, <2>2, <2>5
  <2> QED BY <1>1, <1>2, <2>1, <2>4, <2>6 DEF Turns
<1> QED BY <1>3, <1>4, <1>5, <1>6, <1>7

-----------------------------------------------------------------------------
\* What drills break, when it is broken, and the commands that break it.
Parts == {"redis", "db", "api", "limit", "scratch", "hosts", "switch"}

Broken(part, s) ==
    CASE part = "redis" -> ~s.redis
      [] part = "db" -> ~s.db
      [] part = "api" -> s.api \in {"floor", "down"}
      [] part = "limit" -> s.api = "limit"
      [] part = "scratch" -> ScratchLeft(s)
      [] part = "hosts" -> s.hosts # {}
      [] part = "switch" -> s.switch = "0"

Breaking(part) ==
    CASE part = "redis" -> {"stop redis"}
      [] part = "db" -> {"stop db"}
      [] part = "api" -> {"floor", "limit", "recreate"}
      [] part = "limit" -> {"limit"}
      [] part = "scratch" -> {"create database", "recover collection"}
      [] part = "hosts" -> Raises
      [] part = "switch" -> {"switch off"}

\* A command leaves a stack.
LEMMA EffectTyped ==
  ASSUME NEW s \in StackType, NEW step
  PROVE  Effect(step, s) \in StackType
<1>1. CASE step \in {"stop redis", "start redis", "stop db", "start db", "floor", "limit", "recreate"}
  BY <1>1 DEF StackType, Effect
<1>2. CASE step \in {"seed spend", "lower spend", "switch on", "switch off", "clear switch"}
  BY <1>2 DEF StackType, Effect
<1>3. CASE step \in {"blackhole engine", "blackhole groq", "blackhole openai", "unblackhole"}
  BY <1>3 DEF StackType, Effect, unblackhole_all
<1>4. CASE step \in {"dump", "create database", "snapshot", "recover collection",
                     "drop snapshot", "drop scratch"}
  BY <1>4 DEF StackType, Effect, drop_scratch
<1>5. CASE step \notin {"stop redis", "start redis", "stop db", "start db", "floor", "limit",
                        "recreate", "seed spend", "lower spend", "switch on", "switch off",
                        "clear switch", "blackhole engine", "blackhole groq",
                        "blackhole openai", "unblackhole", "dump", "create database",
                        "snapshot", "recover collection", "drop snapshot", "drop scratch"}
  BY <1>5 DEF Effect
<1> QED BY <1>1, <1>2, <1>3, <1>4, <1>5

\* Only the breaking commands break a part.
LEMMA EffectBreaks ==
  ASSUME NEW s \in StackType, NEW step, NEW part \in Parts, Broken(part, Effect(step, s))
  PROVE  Broken(part, s) \/ step \in Breaking(part)
<1> DEFINE e == Effect(step, s)
<1>1. CASE part = "redis"
  BY <1>1 DEF StackType, Effect, unblackhole_all, drop_scratch, Broken, Breaking
<1>2. CASE part = "db"
  BY <1>2 DEF StackType, Effect, unblackhole_all, drop_scratch, Broken, Breaking
<1>3. CASE part = "api"
  <2>1. CASE step \in {"floor", "limit", "recreate"}
    BY <1>3, <2>1 DEF Breaking
  <2>2. ASSUME step \notin {"floor", "limit", "recreate"}
        PROVE  e.api = s.api
    BY <2>2 DEF StackType, Effect, unblackhole_all, drop_scratch
  <2> QED BY <1>3, <2>1, <2>2 DEF Broken
<1>4. CASE part = "scratch"
  <2>1. ASSUME step \notin {"dump", "create database", "snapshot", "recover collection",
                            "drop snapshot", "drop scratch"}
        PROVE  e.scratch = s.scratch
    BY <2>1 DEF StackType, Effect, unblackhole_all
  <2>2. CASE step = "dump"
    <3>1. e.scratch = s.scratch \cup {"dump"}
      BY <2>2 DEF StackType, Effect
    <3> QED BY <1>4, <3>1 DEF Broken, ScratchLeft
  <2>3. CASE step = "snapshot"
    <3>1. e.scratch = s.scratch \cup {"snapshot"}
      BY <2>3 DEF StackType, Effect
    <3> QED BY <1>4, <3>1 DEF Broken, ScratchLeft
  <2>4. CASE step = "drop snapshot"
    <3>1. e.scratch = s.scratch \ {"snapshot"}
      BY <2>4 DEF StackType, Effect
    <3> QED BY <1>4, <3>1 DEF Broken, ScratchLeft
  <2>5. CASE step = "drop scratch"
    <3>1. e.scratch = s.scratch \cap {"snapshot"}
      BY <2>5 DEF StackType, Effect, drop_scratch
    <3> QED BY <1>4, <3>1 DEF Broken, ScratchLeft
  <2>6. CASE step \in {"create database", "recover collection"}
    BY <1>4, <2>6 DEF Breaking
  <2> QED BY <1>4, <2>1, <2>2, <2>3, <2>4, <2>5, <2>6 DEF Broken, ScratchLeft
<1>5. CASE part = "hosts"
  BY <1>5 DEF StackType, Effect, unblackhole_all, drop_scratch, Broken, Breaking, Raises
<1>7. CASE part = "limit"
  <2>1. CASE step = "limit"
    BY <1>7, <2>1 DEF Breaking
  <2>2. CASE step = "floor"
    <3>1. e.api = "floor"
      BY <2>2 DEF StackType, Effect
    <3> QED BY <1>7, <3>1 DEF Broken
  <2>3. CASE step = "recreate"
    <3>1. e.api = ".env"
      BY <2>3 DEF StackType, Effect
    <3> QED BY <1>7, <3>1 DEF Broken
  <2>4. ASSUME step \notin {"floor", "limit", "recreate"}
        PROVE  e.api = s.api
    BY <2>4 DEF StackType, Effect, unblackhole_all, drop_scratch
  <2> QED BY <1>7, <2>1, <2>2, <2>3, <2>4 DEF Broken
<1>6. CASE part = "switch"
  <2>1. CASE step = "switch off"
    BY <1>6, <2>1 DEF Breaking
  <2>2. CASE step = "switch on"
    <3>1. e.switch = "1"
      BY <2>2 DEF StackType, Effect
    <3> QED BY <1>6, <3>1 DEF Broken
  <2>3. CASE step = "clear switch"
    <3>1. e.switch = "unset"
      BY <2>3 DEF StackType, Effect
    <3> QED BY <1>6, <3>1 DEF Broken
  <2>4. ASSUME step \notin {"switch off", "switch on", "clear switch"}
        PROVE  e.switch = s.switch
    BY <2>4 DEF StackType, Effect, unblackhole_all, drop_scratch
  <2> QED BY <1>6, <2>1, <2>2, <2>3, <2>4 DEF Broken
<1> QED BY <1>1, <1>2, <1>3, <1>4, <1>5, <1>6, <1>7 DEF Parts

\* An outcome is the command's effect, but that of putting the spend back, which breaks
\* nothing.
LEMMA OutcomeBreaks ==
  ASSUME NEW s \in StackType, NEW step, NEW t \in Outcomes(step, s)
  PROVE  /\ t \in StackType
         /\ step # "restore spend" => t = Effect(step, s)
         /\ \A part \in Parts : Broken(part, t) => Broken(part, s) \/ step \in Breaking(part)
<1>1. CASE step = "restore spend"
  <2>1. PICK read \in {"over", "under"} : t = [s EXCEPT !.spend = read]
    BY <1>1 DEF Outcomes
  <2>2. /\ t \in StackType /\ t.redis = s.redis /\ t.db = s.db /\ t.api = s.api
        /\ t.switch = s.switch /\ t.hosts = s.hosts /\ t.scratch = s.scratch
    BY <2>1 DEF StackType
  <2>3. \A part \in Parts : Broken(part, t) => Broken(part, s)
    BY <2>2 DEF Parts, Broken, ScratchLeft
  <2> QED BY <1>1, <2>2, <2>3
<1>2. CASE step # "restore spend"
  <2>1. t = Effect(step, s)
    BY <1>2 DEF Outcomes
  <2> QED BY <2>1, EffectTyped, EffectBreaks
<1> QED BY <1>1, <1>2

\* The mending commands mend theirs.
LEMMA EffectMends ==
  ASSUME NEW s \in StackType
  PROVE  ~Broken("hosts", Effect("unblackhole", s)) /\ ~Broken("switch", Effect("clear switch", s))
BY DEF StackType, Effect, unblackhole_all, Broken
-----------------------------------------------------------------------------
\* Blocks have lengths.
LEMMA LenOfBlock ==
  ASSUME NEW kind \in Kinds, NEW b \in 1..Len(Blocks(kind)), NEW at \in {"body", "cleanup"}
  PROVE  Len(Blocks(kind)) \in Nat /\ Len(Blocks(kind)[b][at]) \in Nat
<1>1. CASE kind = "infra"
  <2>1. Len(Blocks(kind)) = 2
    BY <1>1, InfraSteps
  <2>2. b = 1 \/ b = 2
    BY <2>1
  <2>3. ASSUME b = 1 PROVE Len(Blocks(kind)[b].body) \in Nat /\ Len(Blocks(kind)[b].cleanup) \in Nat
    <3>1. PICK m, n : m = Len(Blocks(kind)[b].body) /\ n = Len(Blocks(kind)[b].cleanup)
      OBVIOUS
    <3>2. m = 1 /\ n = 2
      BY <1>1, <2>3, <3>1, InfraSteps
    <3>3. m \in Nat /\ n \in Nat
      BY <3>2
    <3> QED BY <3>1, <3>3
  <2>4. ASSUME b = 2 PROVE Len(Blocks(kind)[b].body) \in Nat /\ Len(Blocks(kind)[b].cleanup) \in Nat
    <3>1. PICK m, n : m = Len(Blocks(kind)[b].body) /\ n = Len(Blocks(kind)[b].cleanup)
      OBVIOUS
    <3>2. m = 1 /\ n = 2
      BY <1>1, <2>4, <3>1, InfraSteps
    <3>3. m \in Nat /\ n \in Nat
      BY <3>2
    <3> QED BY <3>1, <3>3
  <2>5. Len(Blocks(kind)[b].body) \in Nat /\ Len(Blocks(kind)[b].cleanup) \in Nat
    BY <2>2, <2>3, <2>4
  <2>6. Len(Blocks(kind)) \in Nat
    BY <2>1
  <2> QED BY <2>5, <2>6
<1>2. CASE kind = "costctl"
  <2>1. Len(Blocks(kind)) = 2
    BY <1>2, CostctlSteps
  <2>2. b = 1 \/ b = 2
    BY <2>1
  <2>3. ASSUME b = 1 PROVE Len(Blocks(kind)[b].body) \in Nat /\ Len(Blocks(kind)[b].cleanup) \in Nat
    <3>1. PICK m, n : m = Len(Blocks(kind)[b].body) /\ n = Len(Blocks(kind)[b].cleanup)
      OBVIOUS
    <3>2. m = 3 /\ n = 2
      BY <1>2, <2>3, <3>1, CostctlSteps
    <3>3. m \in Nat /\ n \in Nat
      BY <3>2
    <3> QED BY <3>1, <3>3
  <2>4. ASSUME b = 2 PROVE Len(Blocks(kind)[b].body) \in Nat /\ Len(Blocks(kind)[b].cleanup) \in Nat
    <3>1. PICK m, n : m = Len(Blocks(kind)[b].body) /\ n = Len(Blocks(kind)[b].cleanup)
      OBVIOUS
    <3>2. m = 3 /\ n = 3
      BY <1>2, <2>4, <3>1, CostctlSteps
    <3>3. m \in Nat /\ n \in Nat
      BY <3>2
    <3> QED BY <3>1, <3>3
  <2>5. Len(Blocks(kind)[b].body) \in Nat /\ Len(Blocks(kind)[b].cleanup) \in Nat
    BY <2>2, <2>3, <2>4
  <2>6. Len(Blocks(kind)) \in Nat
    BY <2>1
  <2> QED BY <2>5, <2>6
<1>3. CASE kind = "inspect"
  <2>1. Len(Blocks(kind)) = 1
    BY <1>3, InspectSteps
  <2>2. b = 1
    BY <2>1
  <2>3. ASSUME b = 1 PROVE Len(Blocks(kind)[b].body) \in Nat /\ Len(Blocks(kind)[b].cleanup) \in Nat
    <3>1. PICK m, n : m = Len(Blocks(kind)[b].body) /\ n = Len(Blocks(kind)[b].cleanup)
      OBVIOUS
    <3>2. m \in Nat /\ n = 0
      BY <1>3, <2>3, <3>1, InspectSteps
    <3>3. m \in Nat /\ n \in Nat
      BY <3>2
    <3> QED BY <3>1, <3>3
  <2>5. Len(Blocks(kind)[b].body) \in Nat /\ Len(Blocks(kind)[b].cleanup) \in Nat
    BY <2>2, <2>3
  <2>6. Len(Blocks(kind)) \in Nat
    BY <2>1
  <2> QED BY <2>5, <2>6
<1>4. CASE kind = "backup"
  <2>1. Len(Blocks(kind)) = 2
    BY <1>4, BackupSteps
  <2>2. b = 1 \/ b = 2
    BY <2>1
  <2>3. ASSUME b = 1 PROVE Len(Blocks(kind)[b].body) \in Nat /\ Len(Blocks(kind)[b].cleanup) \in Nat
    <3>1. PICK m, n : m = Len(Blocks(kind)[b].body) /\ n = Len(Blocks(kind)[b].cleanup)
      OBVIOUS
    <3>2. m = 2 /\ n = 0
      BY <1>4, <2>3, <3>1, BackupSteps
    <3>3. m \in Nat /\ n \in Nat
      BY <3>2
    <3> QED BY <3>1, <3>3
  <2>4. ASSUME b = 2 PROVE Len(Blocks(kind)[b].body) \in Nat /\ Len(Blocks(kind)[b].cleanup) \in Nat
    <3>1. PICK m, n : m = Len(Blocks(kind)[b].body) /\ n = Len(Blocks(kind)[b].cleanup)
      OBVIOUS
    <3>2. m = 3 /\ n = 0
      BY <1>4, <2>4, <3>1, BackupSteps
    <3>3. m \in Nat /\ n \in Nat
      BY <3>2
    <3> QED BY <3>1, <3>3
  <2>5. Len(Blocks(kind)[b].body) \in Nat /\ Len(Blocks(kind)[b].cleanup) \in Nat
    BY <2>2, <2>3, <2>4
  <2>6. Len(Blocks(kind)) \in Nat
    BY <2>1
  <2> QED BY <2>5, <2>6
<1> QED BY <1>1, <1>2, <1>3, <1>4 DEF Kinds

\* The step a drill is at in a block.
LEMMA StepOfBlock ==
  ASSUME DrillTyped, NEW o \in Operators, drill[o].at \in {"body", "cleanup"}, HasStep(o)
  PROVE  /\ Step(o) \in OwnSteps(drill[o].kind)
         /\ drill[o].kind = "inspect" =>
               /\ drill[o].at = "body"
               /\ drill[o].pc = 1 => Step(o) = "switch off"
               /\ drill[o].pc = 2 => Step(o) = "clear switch"
               /\ drill[o].pc = 3 => Step(o) = "judge planning"
               /\ drill[o].pc > 3 => Step(o) \in Ladder
<1>1. PICK kind, b, at, i : kind = drill[o].kind /\ b = drill[o].block /\ at = drill[o].at
                            /\ i = drill[o].pc
  OBVIOUS
<1>2. kind \in Kinds /\ b \in 1..Len(Blocks(kind)) /\ at \in {"body", "cleanup"} /\ i \in Nat /\ i > 0
  BY <1>1 DEF DrillTyped, DrillRecord
<1>3. PICK s : s = Blocks(kind)[b][at]
  OBVIOUS
<1>4. Steps(o) = s
  BY <1>1, <1>2, <1>3 DEF Steps
<1>5. Step(o) = s[i] /\ i <= Len(s)
  BY <1>1, <1>4 DEF Step, HasStep
<1>6. PICK n : n = Len(s)
  OBVIOUS
<1>7. n \in Nat
  BY <1>2, <1>3, <1>6, LenOfBlock
<1>8. i \in 1..n
  BY <1>2, <1>5, <1>6, <1>7
<1>9. i \in 1..Len(Blocks(kind)[b][at])
  BY <1>3, <1>6, <1>8
<1>10. /\ s[i] \in OwnSteps(kind)
       /\ kind = "inspect" =>
               /\ at = "body"
               /\ i = 1 => s[i] = "switch off"
               /\ i = 2 => s[i] = "clear switch"
               /\ i = 3 => s[i] = "judge planning"
               /\ i > 3 => s[i] \in Ladder
  BY <1>2, <1>3, <1>9, StepsOfBlock, ZenonT(60)
<1> QED BY <1>1, <1>5, <1>10

\* Q10's steps: the limit is set in its body only, and judged last in its finally.
LEMMA StepOfSpend ==
  ASSUME DrillTyped, NEW o \in Operators, drill[o].at \in {"body", "cleanup"}, HasStep(o),
         drill[o].kind = "costctl"
  PROVE  /\ Step(o) = "limit" => drill[o].block = 2 /\ drill[o].at = "body"
         /\ drill[o].block = 2 /\ drill[o].at = "cleanup" =>
               /\ Step(o) \in {"restore spend", "recreate", "judge limit"}
               /\ drill[o].pc = 3 => Step(o) = "judge limit"
<1>1. PICK b, at, i : b = drill[o].block /\ at = drill[o].at /\ i = drill[o].pc
  OBVIOUS
<1>2. b \in 1..Len(Blocks("costctl")) /\ at \in {"body", "cleanup"} /\ i \in Nat /\ i > 0
  BY <1>1 DEF DrillTyped, DrillRecord
<1>3. b = 1 \/ b = 2
  <2>1. Len(Blocks("costctl")) = 2
    BY CostctlSteps
  <2>2. b \in 1..2
    BY <1>2, <2>1
  <2> QED BY <2>2
<1>4. PICK s : s = Blocks("costctl")[b][at]
  OBVIOUS
<1>5. PICK n : n = Len(s)
  OBVIOUS
<1>6. Step(o) = s[i] /\ i <= n
  BY <1>1, <1>2, <1>4, <1>5 DEF Steps, Step, HasStep
<1>7. CASE b = 1 /\ at = "body"
  <2>1. n = 3 /\ s[1] = "floor" /\ s[2] = "switch on" /\ s[3] = "clear switch"
    BY <1>4, <1>5, <1>7, CostctlSteps
  <2>2. n = 3
    BY <2>1
  <2>3. i = 1 \/ i = 2 \/ i = 3
    BY <1>2, <1>6, <2>2
  <2>4. s[i] # "limit"
    BY <2>1, <2>3
  <2> QED BY <1>1, <1>6, <1>7, <2>4
<1>8. CASE b = 1 /\ at = "cleanup"
  <2>1. n = 2 /\ s[1] = "recreate" /\ s[2] = "judge floor"
    BY <1>4, <1>5, <1>8, CostctlSteps
  <2>2. n = 2
    BY <2>1
  <2>3. i = 1 \/ i = 2
    BY <1>2, <1>6, <2>2
  <2>4. s[i] # "limit" /\ b # 2
    BY <1>8, <2>1, <2>3
  <2> QED BY <1>1, <1>6, <2>4
<1>9. CASE b = 2 /\ at = "body"
  BY <1>1, <1>9
<1>10. CASE b = 2 /\ at = "cleanup"
  <2>1. n = 3 /\ s[1] = "restore spend" /\ s[2] = "recreate" /\ s[3] = "judge limit"
    BY <1>4, <1>5, <1>10, CostctlSteps
  <2>2. n = 3
    BY <2>1
  <2>3. i = 1 \/ i = 2 \/ i = 3
    BY <1>2, <1>6, <2>2
  <2>4. s[i] \in {"restore spend", "recreate", "judge limit"} /\ (i = 3 => s[i] = "judge limit")
    BY <2>1, <2>3
  <2>5. Step(o) # "limit"
    BY <1>6, <2>4
  <2> QED BY <1>1, <1>6, <2>4, <2>5
<1> QED BY <1>2, <1>3, <1>7, <1>8, <1>9, <1>10

\* The step it is at in its last finally.
LEMMA StepOfFinal ==
  ASSUME DrillTyped, NEW o \in Operators, drill[o].at = "final"
  PROVE  LET i == drill[o].pc IN
         /\ drill[o].kind \in Kinds
         /\ drill[o].kind = "infra" =>
               /\ HasStep(o) <=> (i = 1 \/ i = 2)
               /\ i = 1 => Step(o) = "judge redis"
               /\ i = 2 => Step(o) = "judge db"
         /\ drill[o].kind = "costctl" =>
               /\ HasStep(o) <=> i = 1
               /\ i = 1 => Step(o) = "judge planning"
         /\ drill[o].kind = "inspect" =>
               /\ HasStep(o) <=> (i = 1 \/ i = 2 \/ i = 3)
               /\ i = 1 => Step(o) = "unblackhole"
               /\ i = 2 => Step(o) = "judge hosts"
               /\ i = 3 => Step(o) = "clear switch"
         /\ drill[o].kind = "backup" =>
               /\ HasStep(o) <=> (i = 1 \/ i = 2)
               /\ i = 1 => Step(o) = "drop scratch"
               /\ i = 2 => Step(o) = "judge scratch"
<1>1. PICK kind, i : kind = drill[o].kind /\ i = drill[o].pc
  OBVIOUS
<1>2. i \in Nat /\ i > 0
  BY <1>1 DEF DrillTyped, DrillRecord
<1>11. kind \in Kinds
  BY <1>1 DEF DrillTyped
<1>3. PICK s : s = Final(kind)
  OBVIOUS
<1>4. Steps(o) = s
  BY <1>1, <1>3 DEF Steps
<1>5. Step(o) = s[i] /\ (HasStep(o) <=> i <= Len(s))
  BY <1>1, <1>4 DEF Step, HasStep, Underway
<1>6. PICK n : n = Len(s)
  OBVIOUS
<1>7. ASSUME kind = "infra"
      PROVE  /\ HasStep(o) <=> (i = 1 \/ i = 2)
             /\ i = 1 => Step(o) = "judge redis"
             /\ i = 2 => Step(o) = "judge db"
  <2>1. n = 2 /\ s[1] = "judge redis" /\ s[2] = "judge db"
    BY <1>3, <1>6, <1>7, StepsOfFinal
  <2>2. n = 2
    BY <2>1
  <2>3. i <= n <=> (i = 1 \/ i = 2)
    BY <1>2, <2>2
  <2> QED BY <1>5, <1>6, <2>1, <2>3
<1>8. ASSUME kind = "costctl"
      PROVE  /\ HasStep(o) <=> i = 1
             /\ i = 1 => Step(o) = "judge planning"
  <2>1. n = 1 /\ s[1] = "judge planning"
    BY <1>3, <1>6, <1>8, StepsOfFinal
  <2>2. n = 1
    BY <2>1
  <2>3. i <= n <=> i = 1
    BY <1>2, <2>2
  <2> QED BY <1>5, <1>6, <2>1, <2>3
<1>9. ASSUME kind = "inspect"
      PROVE  /\ HasStep(o) <=> (i = 1 \/ i = 2 \/ i = 3)
             /\ i = 1 => Step(o) = "unblackhole"
             /\ i = 2 => Step(o) = "judge hosts"
             /\ i = 3 => Step(o) = "clear switch"
  <2>1. n = 3 /\ s[1] = "unblackhole" /\ s[2] = "judge hosts" /\ s[3] = "clear switch"
    BY <1>3, <1>6, <1>9, StepsOfFinal
  <2>2. n = 3
    BY <2>1
  <2>3. i <= n <=> (i = 1 \/ i = 2 \/ i = 3)
    BY <1>2, <2>2
  <2> QED BY <1>5, <1>6, <2>1, <2>3
<1>10. ASSUME kind = "backup"
       PROVE  /\ HasStep(o) <=> (i = 1 \/ i = 2)
              /\ i = 1 => Step(o) = "drop scratch"
              /\ i = 2 => Step(o) = "judge scratch"
  <2>1. n = 2 /\ s[1] = "drop scratch" /\ s[2] = "judge scratch"
    BY <1>3, <1>6, <1>10, StepsOfFinal
  <2>2. n = 2
    BY <2>1
  <2>3. i <= n <=> (i = 1 \/ i = 2)
    BY <1>2, <2>2
  <2> QED BY <1>5, <1>6, <2>1, <2>3
<1> QED BY <1>1, <1>7, <1>8, <1>9, <1>10, <1>11

-----------------------------------------------------------------------------
(* What is broken has been named, or somebody is still to mend or name it.   *)

KindOf(part) ==
    CASE part \in {"redis", "db"} -> "infra" [] part \in {"api", "limit"} -> "costctl"
      [] part = "scratch" -> "backup" [] part \in {"hosts", "switch"} -> "inspect"
JudgeAt(part) == IF part \in {"redis", "api"} THEN 1 ELSE 2
Named(part) ==
    CASE part = "api" -> {"api", "planning"} [] part = "limit" -> {"api"}
      [] part = "switch" -> {"planning"} [] OTHER -> {part}

Watches(o, part) ==
    /\ drill[o].kind = KindOf(part)
    /\ CASE part = "switch" -> drill[o].at = "body" /\ (drill[o].pc = 2 \/ drill[o].pc = 3)
         [] part = "limit" ->
              /\ drill[o].block = 2
              /\ drill[o].at = "body" \/ (drill[o].at = "cleanup" /\ drill[o].pc <= 3)
         [] part = "hosts" ->
              \/ drill[o].at \in {"body", "cleanup"}
              \/ drill[o].at = "final" /\ drill[o].pc = 1
              \/ drill[o].at = "final" /\ drill[o].pc = 2 /\ failures > 0
         [] OTHER -> \/ drill[o].at \in {"body", "cleanup"}
                     \/ drill[o].at = "final" /\ drill[o].pc <= JudgeAt(part)

Settled(part) ==
    \/ Named(part) \cap said # {} \/ "cut short" \in said
    \/ (part = "hosts" /\ failures > 1) \/ (part \in {"switch", "limit"} /\ interrupts > 0)

Kept(part) ==
    kills = 0 /\ Broken(part, stack) => Settled(part) \/ \E o \in Operators : Watches(o, part)

DrillInv == DrillTyped /\ \A part \in Parts : Kept(part)

\* A watch ends with a verdict only.
LEMMA WatchKept ==
  ASSUME NEW part \in Parts, NEW o \in Operators, Kept(part),
         \A p \in Operators \ {o} : drill'[p] = drill[p], said \subseteq said',
         failures \in Nat, failures' \in Nat, failures <= failures',
         interrupts \in Nat, interrupts' \in Nat, interrupts <= interrupts',
         kills \in Nat, kills' \in Nat, kills <= kills',
         Broken(part, stack') /\ kills' = 0 =>
            Broken(part, stack) \/ Watches(o, part)' \/ Settled(part)',
         Watches(o, part) /\ Broken(part, stack') /\ kills' = 0 =>
            Watches(o, part)' \/ Settled(part)'
  PROVE  Kept(part)'
<1> SUFFICES ASSUME kills' = 0, Broken(part, stack')
             PROVE  Settled(part)' \/ \E p \in Operators : Watches(p, part)'
  BY DEF Kept
<1>1. kills = 0
  OBVIOUS
<1>2. CASE Settled(part)
  <2>1. failures > 1 => failures' > 1
    OBVIOUS
  <2>2. interrupts > 0 => interrupts' > 0
    OBVIOUS
  <2> QED BY <1>2, <2>1, <2>2 DEF Settled
<1>3. ASSUME NEW p \in Operators \ {o}, Watches(p, part) PROVE Watches(p, part)'
  <2>1. failures > 0 => failures' > 0
    OBVIOUS
  <2>2. drill'[p] = drill[p]
    OBVIOUS
  <2> QED BY <1>3, <2>1, <2>2 DEF Watches
<1>4. CASE Broken(part, stack) /\ ~Settled(part)
  <2>1. PICK p \in Operators : Watches(p, part)
    BY <1>1, <1>4 DEF Kept
  <2>2. CASE p = o
    BY <1>1, <2>1, <2>2
  <2>3. CASE p # o
    BY <1>3, <2>1, <2>3
  <2> QED BY <2>2, <2>3
<1>5. CASE ~Broken(part, stack)
  BY <1>5
<1> QED BY <1>2, <1>4, <1>5

\* Only the drills of its kind break a part, and in their blocks.
LEMMA BreaksInBlock ==
  ASSUME DrillTyped, NEW o \in Operators, HasStep(o), NEW part \in Parts, Step(o) \in Breaking(part)
  PROVE  /\ drill[o].at \in {"body", "cleanup"} /\ drill[o].kind = KindOf(part)
         /\ part = "switch" => drill[o].at = "body" /\ drill[o].pc = 1
         /\ part = "limit" => drill[o].at = "body" /\ drill[o].block = 2
<1>1. drill[o].at \in {"body", "cleanup", "final"} /\ drill[o].kind \in Kinds
  BY DEF HasStep, Underway, DrillTyped
<1>2. drill[o].pc \in Nat /\ drill[o].pc > 0
  BY <1>1 DEF DrillTyped, DrillRecord
<1>3. PICK step : step = Step(o)
  OBVIOUS
<1>4. drill[o].at # "final"
  <2>1. SUFFICES ASSUME drill[o].at = "final" PROVE FALSE
    OBVIOUS
  <2>2. step \in {"judge redis", "judge db", "judge planning", "unblackhole", "judge hosts",
                  "clear switch", "drop scratch", "judge scratch"}
    BY <1>3, <2>1, StepOfFinal DEF Kinds
  <2> QED BY <1>3, <2>2 DEF Breaking, Parts, Raises
<1>5. step \in OwnSteps(drill[o].kind)
  BY <1>1, <1>3, <1>4, StepOfBlock
<1>6. drill[o].kind = KindOf(part)
  <2>1. CASE drill[o].kind = "infra"
    <3>1. step \in {"stop redis", "start redis", "judge redis", "stop db", "start db", "judge db"}
      BY <1>5, <2>1 DEF OwnSteps
    <3>2. part \in {"redis", "db"}
      BY <1>3, <3>1 DEF Breaking, Parts, Raises
    <3> QED BY <2>1, <3>2 DEF KindOf
  <2>2. CASE drill[o].kind = "costctl"
    <3>1. step \in {"floor", "switch on", "clear switch", "seed spend", "limit", "lower spend",
                    "restore spend", "recreate", "judge floor", "judge limit"}
      BY <1>5, <2>2 DEF OwnSteps
    <3>2. part \in {"api", "limit"}
      BY <1>3, <3>1 DEF Breaking, Parts, Raises
    <3> QED BY <2>2, <3>2 DEF KindOf
  <2>3. CASE drill[o].kind = "inspect"
    <3>1. step \in {"switch off", "clear switch", "judge planning", "blackhole engine",
                    "blackhole groq", "blackhole openai", "unblackhole"}
      BY <1>5, <2>3 DEF OwnSteps, Ladder
    <3>2. part \in {"hosts", "switch"}
      BY <1>3, <3>1 DEF Breaking, Parts, Raises
    <3> QED BY <2>3, <3>2 DEF KindOf
  <2>4. CASE drill[o].kind = "backup"
    <3>1. step \in {"dump", "create database", "snapshot", "recover collection", "drop snapshot"}
      BY <1>5, <2>4 DEF OwnSteps
    <3>2. part = "scratch"
      BY <1>3, <3>1 DEF Breaking, Parts, Raises
    <3> QED BY <2>4, <3>2 DEF KindOf
  <2> QED BY <1>1, <2>1, <2>2, <2>3, <2>4 DEF Kinds
<1>7. ASSUME part = "switch" PROVE drill[o].at = "body" /\ drill[o].pc = 1
  <2>1. drill[o].kind = "inspect" /\ step = "switch off"
    BY <1>3, <1>6, <1>7 DEF KindOf, Breaking
  <2>2. /\ drill[o].at = "body"
        /\ drill[o].pc = 2 => step = "clear switch"
        /\ drill[o].pc = 3 => step = "judge planning"
        /\ drill[o].pc > 3 => step \in Ladder
    BY <1>1, <1>3, <1>4, <2>1, StepOfBlock
  <2>3. drill[o].pc # 2 /\ drill[o].pc # 3 /\ ~(drill[o].pc > 3)
    BY <2>1, <2>2 DEF Ladder
  <2>4. drill[o].pc = 1
    BY <1>2, <2>3
  <2> QED BY <2>2, <2>4
<1>8. ASSUME part = "limit" PROVE drill[o].at = "body" /\ drill[o].block = 2
  <2>1. drill[o].kind = "costctl" /\ step = "limit"
    BY <1>3, <1>6, <1>8 DEF KindOf, Breaking
  <2> QED BY <1>1, <1>3, <1>4, <2>1, StepOfSpend
<1> QED BY <1>1, <1>4, <1>6, <1>7, <1>8

\* The last finally of a drill judges each part it may have broken.
LEMMA FinalJudges ==
  ASSUME DrillTyped, NEW o \in Operators, drill[o].at = "final",
         NEW part \in {"redis", "db", "api", "scratch"}, Watches(o, part)
  PROVE  /\ HasStep(o) /\ Step(o) \notin Raises \cup ReturnsEarly
         /\ drill[o].pc < JudgeAt(part) \/ drill[o].pc = JudgeAt(part)
         /\ drill[o].pc = JudgeAt(part) =>
               /\ \A s : Broken(part, s) => Wrong(Step(o), s) \cap Named(part) # {}
               /\ Unjudged(Step(o)) \cap Named(part) # {}
<1>1. drill[o].kind = KindOf(part) /\ drill[o].pc <= JudgeAt(part)
  BY DEF Watches
<1>6. drill[o].pc \in Nat /\ drill[o].pc > 0
  BY DEF DrillTyped, DrillRecord
<1>7. drill[o].pc < JudgeAt(part) \/ drill[o].pc = JudgeAt(part)
  <2>1. JudgeAt(part) \in Nat
    BY DEF JudgeAt
  <2>2. drill[o].pc <= JudgeAt(part)
    BY <1>1
  <2> QED BY <1>6, <2>1, <2>2
<1>2. CASE part = "redis"
  <2>1. drill[o].kind = "infra" /\ JudgeAt(part) = 1
    BY <1>1, <1>2 DEF KindOf, JudgeAt
  <2>2. drill[o].pc = 1
    <3>1. drill[o].pc <= 1
      BY <1>1, <2>1
    <3> QED BY <1>6, <3>1
  <2>3. HasStep(o) /\ Step(o) = "judge redis"
    BY <2>1, <2>2, StepOfFinal
  <2>4. Step(o) \notin Raises \cup ReturnsEarly
    BY <2>3 DEF Raises, ReturnsEarly
  <2>5. /\ \A s : Broken(part, s) => Wrong(Step(o), s) \cap Named(part) # {}
        /\ Unjudged(Step(o)) \cap Named(part) # {}
    BY <1>2, <2>3 DEF Broken, Wrong, Unjudged, Named
  <2> QED BY <1>7, <2>1, <2>2, <2>3, <2>4, <2>5
<1>3. CASE part = "db"
  <2>1. drill[o].kind = "infra" /\ JudgeAt(part) = 2
    BY <1>1, <1>3 DEF KindOf, JudgeAt
  <2>2. drill[o].pc = 1 \/ drill[o].pc = 2
    <3>1. drill[o].pc <= 2
      BY <1>1, <2>1
    <3> QED BY <1>6, <3>1
  <2>3. /\ HasStep(o) /\ (drill[o].pc = 1 => Step(o) = "judge redis")
        /\ drill[o].pc = 2 => Step(o) = "judge db"
    BY <2>1, <2>2, StepOfFinal
  <2>4. Step(o) \notin Raises \cup ReturnsEarly
    BY <2>2, <2>3 DEF Raises, ReturnsEarly
  <2>5. drill[o].pc = 2 =>
           /\ \A s : Broken(part, s) => Wrong(Step(o), s) \cap Named(part) # {}
           /\ Unjudged(Step(o)) \cap Named(part) # {}
    BY <1>3, <2>3 DEF Broken, Wrong, Unjudged, Named
  <2> QED BY <1>7, <2>1, <2>2, <2>3, <2>4, <2>5
<1>4. CASE part = "api"
  <2>1. drill[o].kind = "costctl" /\ JudgeAt(part) = 1
    BY <1>1, <1>4 DEF KindOf, JudgeAt
  <2>2. drill[o].pc = 1
    <3>1. drill[o].pc <= 1
      BY <1>1, <2>1
    <3> QED BY <1>6, <3>1
  <2>3. HasStep(o) /\ Step(o) = "judge planning"
    BY <2>1, <2>2, StepOfFinal
  <2>4. Step(o) \notin Raises \cup ReturnsEarly
    BY <2>3 DEF Raises, ReturnsEarly
  <2>5. /\ \A s : Broken(part, s) => Wrong(Step(o), s) \cap Named(part) # {}
        /\ Unjudged(Step(o)) \cap Named(part) # {}
    <3>1. \A s : Broken(part, s) => ~Planning(s)
      BY <1>4 DEF Broken, Planning
    <3>2. \A s : ~Planning(s) => Wrong(Step(o), s) = {"planning"}
      BY <2>3 DEF Wrong
    <3>3. Named(part) = {"api", "planning"} /\ Unjudged(Step(o)) = {"planning"}
      BY <1>4, <2>3 DEF Named, Unjudged
    <3> QED BY <3>1, <3>2, <3>3
  <2> QED BY <1>7, <2>1, <2>2, <2>3, <2>4, <2>5
<1>5. CASE part = "scratch"
  <2>1. drill[o].kind = "backup" /\ JudgeAt(part) = 2
    BY <1>1, <1>5 DEF KindOf, JudgeAt
  <2>2. drill[o].pc = 1 \/ drill[o].pc = 2
    <3>1. drill[o].pc <= 2
      BY <1>1, <2>1
    <3> QED BY <1>6, <3>1
  <2>3. /\ HasStep(o) /\ (drill[o].pc = 1 => Step(o) = "drop scratch")
        /\ drill[o].pc = 2 => Step(o) = "judge scratch"
    BY <2>1, <2>2, StepOfFinal
  <2>4. Step(o) \notin Raises \cup ReturnsEarly
    BY <2>2, <2>3 DEF Raises, ReturnsEarly
  <2>5. drill[o].pc = 2 =>
           /\ \A s : Broken(part, s) => Wrong(Step(o), s) \cap Named(part) # {}
           /\ Unjudged(Step(o)) \cap Named(part) # {}
    BY <1>5, <2>3 DEF Broken, Wrong, Unjudged, Named
  <2> QED BY <1>7, <2>1, <2>2, <2>3, <2>4, <2>5
<1> QED BY <1>2, <1>3, <1>4, <1>5

\* A drill has one block or two.
LEMMA SomeBlocks ==
  ASSUME NEW kind \in Kinds
  PROVE  Len(Blocks(kind)) = 1 \/ Len(Blocks(kind)) = 2
BY InfraSteps, CostctlSteps, InspectSteps, BackupSteps DEF Kinds

\* A turn keeps the types.
LEMMA TurnsTyped ==
  ASSUME DrillTyped, NEW o \in Operators, drill[o].at # "idle",
         NEW place, NEW i \in Nat, i > 0, NEW b, Turns(o, place, i, b),
         b \in 1..Len(Blocks(drill[o].kind)),
         stack' \in StackType, failures' \in Nat, interrupts' \in Nat, kills' \in Nat
  PROVE  DrillTyped'
<1>1. drill' \in [Operators -> DrillRecord]
  BY DEF Turns
<1>2. /\ drill'[o].kind \in Kinds /\ drill'[o].pc > 0
      /\ drill'[o].block \in 1..Len(Blocks(drill'[o].kind))
  BY DEF Turns, DrillTyped
<1>3. ASSUME NEW p \in Operators, drill'[p].at # "idle"
      PROVE  /\ drill'[p].kind \in Kinds /\ drill'[p].pc > 0
             /\ drill'[p].block \in 1..Len(Blocks(drill'[p].kind))
  <2>1. CASE p = o
    BY <1>2, <2>1
  <2>2. CASE p # o
    <3>1. drill'[p] = drill[p]
      BY <2>2 DEF Turns
    <3> QED BY <1>3, <3>1 DEF DrillTyped
  <2> QED BY <2>1, <2>2
<1> QED BY <1>1, <1>3 DEF DrillTyped

\* Who watches a part is under way.
LEMMA NotUnderway ==
  ASSUME NEW o \in Operators, NEW part \in Parts, Watches(o, part)
  PROVE  Underway(o)
BY DEF Watches, Underway

\* A drill that is still in its blocks, or has its last finally before it, watches.
LEMMA StillAhead ==
  ASSUME NEW o \in Operators, NEW part \in Parts \ {"switch", "limit"}, drill'[o].kind = KindOf(part),
         \/ drill'[o].at \in {"body", "cleanup"}
         \/ drill'[o].at = "final" /\ drill'[o].pc = 1
  PROVE  Watches(o, part)'
<1>1. drill'[o].pc = 1 => drill'[o].pc <= JudgeAt(part)
  BY DEF JudgeAt
<1> QED BY <1>1 DEF Watches

\* Steps that leave the stack alone, of a drill that watches nothing.
LEMMA QuietStep ==
  ASSUME DrillInv, NEW o \in Operators, DrillTyped', \A p \in Operators \ {o} : drill'[p] = drill[p],
         ~Underway(o), said \subseteq said', UNCHANGED <<stack, failures, interrupts, kills>>
  PROVE  DrillInv'
<1>1. ASSUME NEW part \in Parts PROVE Kept(part)'
  <2>1. Kept(part)
    BY DEF DrillInv
  <2>2. ~Watches(o, part)
    BY NotUnderway
  <2>3. Broken(part, stack') => Broken(part, stack)
    OBVIOUS
  <2>4. /\ failures \in Nat /\ failures' = failures /\ interrupts \in Nat /\ interrupts' = interrupts
        /\ kills \in Nat /\ kills' = kills
    BY DEF DrillInv, DrillTyped
  <2>5. failures' <= failures' /\ interrupts' <= interrupts' /\ kills' <= kills'
    BY <2>4
  <2> QED BY <2>1, <2>2, <2>3, <2>4, <2>5, WatchKept
<1> QED BY <1>1 DEF DrillInv

\* A drill that starts.
LEMMA StartKeeps ==
  ASSUME DrillInv, NEW o \in Operators, NEW kind \in Kinds, StartDrill(o, kind)
  PROVE  DrillInv'
<1>1. PICK e : e = [NoDrill EXCEPT !.at = "open", !.kind = kind]
  OBVIOUS
<1>2. e.at = "open" /\ e.kind = kind /\ e.block = 1 /\ e.pc = 1
  BY <1>1 DEF NoDrill
<1>3. e \in DrillRecord
  BY <1>1 DEF NoDrill, DrillRecord, DrillPlaces
<1>4. drill' = [drill EXCEPT ![o] = e] /\ drill \in [Operators -> DrillRecord]
  BY <1>1 DEF StartDrill, DrillInv, DrillTyped
<1>5. /\ drill' \in [Operators -> DrillRecord] /\ drill'[o] = e
      /\ \A p \in Operators \ {o} : drill'[p] = drill[p]
  BY <1>3, <1>4
<1>6. UNCHANGED <<stack, failures, interrupts, kills>> /\ ~Underway(o)
  BY DEF StartDrill, Underway
<1>7. DrillTyped'
  <2>1. 1 \in 1..Len(Blocks(kind))
    BY SomeBlocks
  <2>2. drill'[o].kind \in Kinds /\ drill'[o].block \in 1..Len(Blocks(drill'[o].kind))
    BY <1>2, <1>5, <2>1
  <2>3. drill'[o].pc > 0
    BY <1>2, <1>5
  <2>4. ASSUME NEW p \in Operators, drill'[p].at # "idle"
        PROVE  /\ drill'[p].kind \in Kinds /\ drill'[p].pc > 0
               /\ drill'[p].block \in 1..Len(Blocks(drill'[p].kind))
    <3>1. CASE p = o
      BY <2>2, <2>3, <3>1
    <3>2. CASE p # o
      <4>1. drill'[p] = drill[p]
        BY <1>5, <3>2
      <4> QED BY <2>4, <4>1 DEF DrillInv, DrillTyped
    <3> QED BY <3>1, <3>2
  <2> QED BY <1>5, <1>6, <2>4 DEF DrillInv, DrillTyped
<1>8. CASE said' = said
  BY <1>5, <1>6, <1>7, <1>8, QuietStep
<1>9. CASE stack \in Intact
  <2>1. ASSUME NEW part \in Parts PROVE Kept(part)'
    <3>1. ~Broken(part, stack')
      BY <1>6, <1>9 DEF Intact, Broken, ScratchLeft, Parts
    <3> QED BY <3>1 DEF Kept
  <2> QED BY <1>7, <2>1 DEF DrillInv
<1> QED BY <1>8, <1>9 DEF StartDrill

\* The steps of the lock.
LEMMA LockKeeps ==
  ASSUME DrillInv, NEW o \in Operators,
         OpenLock(o) \/ UnlinkStale(o) \/ Reopen(o) \/ WriteLock(o) \/ Ready(o)
  PROVE  DrillInv'
<1>1. /\ drill \in [Operators -> DrillRecord] /\ drill[o].at # "idle" /\ ~Underway(o)
      /\ UNCHANGED <<stack, failures, interrupts, kills>>
      /\ said \subseteq said'
  BY DEF OpenLock, UnlinkStale, Reopen, WriteLock, Ready, Underway, DrillInv, DrillTyped
<1>2. \/ \E place \in DrillPlaces : Moves(o, place) \/ GoTo(o, place)
      \/ drill' = drill
  BY DEF OpenLock, UnlinkStale, Reopen, WriteLock, Ready, DrillPlaces
<1>3. PICK i, b : i = drill[o].pc /\ b = drill[o].block
  OBVIOUS
<1>4. i \in Nat /\ i > 0
  BY <1>1, <1>3 DEF DrillInv, DrillTyped, DrillRecord
<1>5. b \in 1..Len(Blocks(drill[o].kind))
  BY <1>1, <1>3 DEF DrillInv, DrillTyped
<1>6. stack' \in StackType /\ failures' \in Nat /\ interrupts' \in Nat /\ kills' \in Nat
  BY <1>1 DEF DrillInv, DrillTyped
<1>7. CASE drill' = drill
  <2>1. DrillTyped'
    BY <1>1, <1>7 DEF DrillInv, DrillTyped
  <2> QED BY <1>1, <1>7, <2>1, QuietStep
<1>8. ASSUME NEW place \in DrillPlaces, Moves(o, place) PROVE DrillInv'
  <2>1. Turns(o, place, i, b)
    BY <1>1, <1>3, <1>8, DrillTurns
  <2>2. DrillTyped'
    BY <1>1, <1>4, <1>5, <1>6, <2>1, TurnsTyped DEF DrillInv
  <2> QED BY <1>1, <2>1, <2>2, QuietStep DEF Turns
<1>9. ASSUME NEW place \in DrillPlaces, GoTo(o, place) PROVE DrillInv'
  <2>1. Turns(o, place, 1, b)
    BY <1>1, <1>3, <1>9, DrillTurns
  <2>2. DrillTyped'
    BY <1>1, <1>5, <1>6, <2>1, TurnsTyped DEF DrillInv
  <2> QED BY <1>1, <2>1, <2>2, QuietStep DEF Turns
<1> QED BY <1>2, <1>7, <1>8, <1>9

\* What a command may do to the stack, well or not.
LEMMA BotchedBreaks ==
  ASSUME NEW s \in StackType, NEW step, NEW t \in Botched(step, s)
  PROVE  /\ t \in StackType
         /\ \A part \in Parts : Broken(part, t) =>
               Broken(part, s) \/ (part = "api" /\ step \in Breaking(part))
<1>1. CASE t = s
  BY <1>1
<1>2. CASE t # s
  <2>1. t = [s EXCEPT !.api = "down"] /\ step \in {"floor", "limit", "recreate"}
    BY <1>2 DEF Botched
  <2>2. /\ t \in StackType /\ t.redis = s.redis /\ t.db = s.db /\ t.switch = s.switch
        /\ t.hosts = s.hosts /\ t.scratch = s.scratch /\ t.api = "down"
    BY <2>1 DEF StackType
  <2> QED BY <2>1, <2>2 DEF Broken, Breaking, ScratchLeft, Parts
<1> QED BY <1>1, <1>2

\* What holds of a command about to be given, and after a step that keeps counters typed.
LEMMA AtStep ==
  ASSUME DrillInv, NEW o \in Operators, HasStep(o)
  PROVE  /\ DrillTyped /\ drill \in [Operators -> DrillRecord] /\ stack \in StackType
         /\ drill[o].at \in {"body", "cleanup", "final"} /\ drill[o].at \in DrillPlaces
         /\ drill[o].kind \in Kinds /\ drill[o].pc \in Nat /\ drill[o].pc > 0
         /\ drill[o].block \in 1..Len(Blocks(drill[o].kind))
         /\ failures \in Nat /\ interrupts \in Nat /\ kills \in Nat
<1>1. DrillTyped /\ drill[o].at \in {"body", "cleanup", "final"}
  BY DEF DrillInv, HasStep, Underway
<1>2. drill[o].at # "idle"
  BY <1>1
<1> QED BY <1>1, <1>2 DEF DrillTyped, DrillRecord, DrillPlaces

\* The inspection's watch on the switch, in its body: it clears it, and then judges.
LEMMA SwitchWatched ==
  ASSUME DrillTyped, NEW o \in Operators, Watches(o, "switch")
  PROVE  /\ HasStep(o) /\ drill[o].at = "body" /\ drill[o].kind = "inspect"
         /\ drill[o].pc = 2 \/ drill[o].pc = 3
         /\ drill[o].pc = 2 => Step(o) = "clear switch"
         /\ drill[o].pc = 3 => Step(o) = "judge planning"
<1>1. drill[o].at = "body" /\ drill[o].kind = "inspect" /\ (drill[o].pc = 2 \/ drill[o].pc = 3)
  BY DEF Watches, KindOf
<1>2. HasStep(o)
  <2>1. drill[o].block \in 1..Len(Blocks("inspect"))
    BY <1>1 DEF DrillTyped
  <2>2. Len(Blocks("inspect")) = 1
    BY InspectSteps
  <2>3. drill[o].block \in 1..1
    BY <2>1, <2>2
  <2>4. drill[o].block = 1
    BY <2>3
  <2>5. PICK n : n = Len(Blocks("inspect")[1].body)
    OBVIOUS
  <2>6. n \in Nat /\ n >= 3
    BY <2>5, InspectSteps
  <2>7. drill[o].pc <= n
    <3>1. drill[o].pc = 2 \/ drill[o].pc = 3
      BY <1>1
    <3> QED BY <2>6, <3>1
  <2>8. Len(Steps(o)) = n
    BY <1>1, <2>4, <2>5 DEF Steps
  <2> QED BY <1>1, <2>7, <2>8 DEF HasStep, Underway
<1>3. /\ drill[o].pc = 2 => Step(o) = "clear switch"
      /\ drill[o].pc = 3 => Step(o) = "judge planning"
  BY <1>1, <1>2, StepOfBlock
<1> QED BY <1>1, <1>2, <1>3

\* Where the inspection is when it still watches the host names.
LEMMA HostsWatched ==
  ASSUME DrillTyped, NEW o \in Operators, Watches(o, "hosts"), drill[o].at = "final"
  PROVE  /\ HasStep(o) /\ drill[o].kind = "inspect"
         /\ drill[o].pc = 1 \/ (drill[o].pc = 2 /\ failures > 0)
         /\ drill[o].pc = 1 => Step(o) = "unblackhole"
         /\ drill[o].pc = 2 => Step(o) = "judge hosts"
<1>1. drill[o].kind = "inspect" /\ (drill[o].pc = 1 \/ (drill[o].pc = 2 /\ failures > 0))
  BY DEF Watches, KindOf
<1> QED BY <1>1, StepOfFinal

\* Q10's watch on its limit: from its body to the judgement in its finally.
LEMMA LimitWatched ==
  ASSUME DrillTyped, NEW o \in Operators, Watches(o, "limit")
  PROVE  /\ drill[o].kind = "costctl" /\ drill[o].block = 2 /\ drill[o].at \in {"body", "cleanup"}
         /\ drill[o].at = "cleanup" =>
               /\ HasStep(o) /\ Step(o) \notin Raises \cup ReturnsEarly
               /\ drill[o].pc < 3 \/ drill[o].pc = 3
               /\ drill[o].pc = 3 => Step(o) = "judge limit"
         /\ HasStep(o) => Step(o) \notin Raises
<1>1. /\ drill[o].kind = "costctl" /\ drill[o].block = 2
      /\ drill[o].at = "body" \/ (drill[o].at = "cleanup" /\ drill[o].pc <= 3)
  BY DEF Watches, KindOf
<1>2. drill[o].pc \in Nat
  BY DEF DrillTyped, DrillRecord
<1>3. ASSUME drill[o].at = "cleanup"
      PROVE  /\ HasStep(o) /\ Step(o) \notin Raises \cup ReturnsEarly
             /\ drill[o].pc < 3 \/ drill[o].pc = 3
             /\ drill[o].pc = 3 => Step(o) = "judge limit"
  <2>1. PICK n : n = Len(Blocks("costctl")[2].cleanup)
    OBVIOUS
  <2>2. n = 3
    BY <2>1, CostctlSteps
  <2>3. Len(Steps(o)) = n
    BY <1>1, <1>3, <2>1 DEF Steps
  <2>4. drill[o].pc <= n /\ (drill[o].pc < 3 \/ drill[o].pc = 3)
    BY <1>1, <1>2, <1>3, <2>2
  <2>5. HasStep(o)
    BY <1>3, <2>3, <2>4 DEF HasStep, Underway
  <2>6. /\ Step(o) \in {"restore spend", "recreate", "judge limit"}
        /\ drill[o].pc = 3 => Step(o) = "judge limit"
    BY <1>1, <1>3, <2>5, StepOfSpend
  <2>7. Step(o) \notin Raises \cup ReturnsEarly
    BY <2>6 DEF Raises, ReturnsEarly
  <2> QED BY <2>4, <2>5, <2>6, <2>7
<1>4. ASSUME HasStep(o) PROVE Step(o) \notin Raises
  <2>1. Step(o) \in OwnSteps("costctl")
    BY <1>1, <1>4, StepOfBlock
  <2> QED BY <2>1 DEF OwnSteps, Raises
<1> QED BY <1>1, <1>3, <1>4

\* In a block, a watch on anything but the switch and the limit goes on wherever the drill turns.
LEMMA BlockWatches ==
  ASSUME NEW o \in Operators, NEW part \in Parts \ {"switch", "limit"}, drill[o].kind = KindOf(part),
         drill'[o].kind = drill[o].kind,
         \/ drill'[o].at \in {"body", "cleanup"}
         \/ drill'[o].at = "final" /\ drill'[o].pc = 1
  PROVE  Watches(o, part)'
BY StillAhead

\* A command that works.
LEMMA PerformKeeps ==
  ASSUME DrillInv, NEW o \in Operators, Perform(o)
  PROVE  DrillInv'
<1>1. HasStep(o) /\ DrillTyped
  BY DEF Perform, DrillInv
<1>2. PICK step : step = Step(o)
  OBVIOUS
<1>3. /\ stack' \in Outcomes(step, stack) /\ said' = said \cup Wrong(step, stack) /\ Onward(o)
      /\ failures' = failures /\ interrupts' = interrupts /\ kills' = kills
  BY <1>2 DEF Perform
<1>4. PICK i, j, b : i = drill[o].pc /\ j = drill[o].pc + 1 /\ b = drill[o].block
  OBVIOUS
<1>5. i \in Nat /\ i > 0
  BY <1>1, <1>4, AtStep
<1>6. j \in Nat /\ j > 0 /\ j = i + 1
  BY <1>4, <1>5
<1>7. Turns(o, drill[o].at, j, b)
  BY <1>1, <1>3, <1>4, AtStep, DrillTurns
<1>13. /\ stack' \in StackType
       /\ step # "restore spend" => stack' = Effect(step, stack)
       /\ \A part \in Parts : Broken(part, stack') => Broken(part, stack) \/ step \in Breaking(part)
  BY <1>1, <1>3, AtStep, OutcomeBreaks
<1>8. stack' \in StackType /\ failures' \in Nat /\ interrupts' \in Nat /\ kills' \in Nat
  BY <1>1, <1>3, <1>13, AtStep
<1>9. b \in 1..Len(Blocks(drill[o].kind)) /\ drill[o].at # "idle"
  BY <1>1, <1>4, AtStep
<1>10. DrillTyped'
  BY <1>1, <1>6, <1>7, <1>8, <1>9, TurnsTyped
<1>11. /\ drill'[o].at = drill[o].at /\ drill'[o].kind = drill[o].kind /\ drill'[o].pc = j
       /\ drill'[o].block = b
       /\ \A p \in Operators \ {o} : drill'[p] = drill[p]
  BY <1>7 DEF Turns
<1>12. ASSUME NEW part \in Parts PROVE Kept(part)'
  <2>1. ASSUME Broken(part, stack')
        PROVE  Broken(part, stack) \/ Watches(o, part)'
    <3>1. CASE step \in Breaking(part)
      <4>1. /\ drill[o].at \in {"body", "cleanup"} /\ drill[o].kind = KindOf(part)
            /\ part = "switch" => drill[o].at = "body" /\ i = 1
            /\ part = "limit" => drill[o].at = "body" /\ b = 2
        BY <1>1, <1>2, <1>4, <3>1, BreaksInBlock
      <4>2. CASE part = "switch"
        <5>1. i = 1
          BY <4>1, <4>2
        <5>2. j = 2
          BY <1>6, <5>1
        <5> QED BY <1>11, <4>1, <4>2, <5>2 DEF Watches
      <4>4. CASE part = "limit"
        BY <1>11, <4>1, <4>4 DEF Watches
      <4>3. CASE part \notin {"switch", "limit"}
        BY <1>11, <4>1, <4>3, BlockWatches
      <4> QED BY <4>2, <4>3, <4>4
    <3>2. CASE step \notin Breaking(part)
      BY <1>13, <2>1, <3>2
    <3> QED BY <3>1, <3>2
  <2>2. ASSUME Watches(o, part), Broken(part, stack')
        PROVE  Watches(o, part)' \/ Settled(part)'
    <3>1. drill[o].kind = KindOf(part) /\ drill[o].at \in {"body", "cleanup", "final"}
      BY <1>1, <2>2, AtStep DEF Watches
    <3>2. CASE part = "switch"
      <4>1. i = 2 \/ i = 3
        BY <1>1, <1>4, <2>2, <3>2, SwitchWatched
      <4>2. i # 2
        <5>1. SUFFICES ASSUME i = 2 PROVE FALSE
          OBVIOUS
        <5>2. step = "clear switch"
          BY <1>1, <1>2, <1>4, <2>2, <3>2, <5>1, SwitchWatched
        <5>3. stack \in StackType
          BY <1>1, AtStep
        <5> QED BY <1>13, <2>2, <3>2, <5>2, <5>3, EffectMends
      <4>3. step = "judge planning"
        BY <1>1, <1>2, <1>4, <2>2, <3>2, <4>1, <4>2, SwitchWatched
      <4>4. stack' = stack
        BY <1>13, <4>3 DEF Effect
      <4>5. ~Planning(stack)
        BY <2>2, <3>2, <4>4 DEF Broken, Planning
      <4>6. "planning" \in said'
        BY <1>3, <4>3, <4>5 DEF Wrong
      <4> QED BY <3>2, <4>6 DEF Settled, Named
    <3>3. CASE part \notin {"switch", "limit"} /\ drill[o].at \in {"body", "cleanup"}
      BY <1>11, <3>1, <3>3, BlockWatches
    <3>5. CASE part = "limit"
      <4>1. b = 2 /\ drill[o].at \in {"body", "cleanup"} /\ drill[o].kind = KindOf(part)
        BY <1>1, <1>4, <2>2, <3>5, LimitWatched DEF KindOf
      <4>2. CASE drill[o].at = "body"
        BY <1>11, <3>5, <4>1, <4>2 DEF Watches
      <4>3. CASE drill[o].at = "cleanup" /\ i < 3
        <5>1. j <= 3
          BY <1>5, <1>6, <4>3
        <5> QED BY <1>11, <3>5, <4>1, <4>3, <5>1 DEF Watches
      <4>4. CASE drill[o].at = "cleanup" /\ i = 3
        <5>1. step = "judge limit"
          BY <1>1, <1>2, <1>4, <2>2, <3>5, <4>4, LimitWatched
        <5>2. stack' = stack
          BY <1>13, <5>1 DEF Effect
        <5>3. stack.api = "limit"
          BY <2>2, <3>5, <5>2 DEF Broken
        <5>4. "api" \in said'
          BY <1>3, <5>1, <5>3 DEF Wrong
        <5> QED BY <3>5, <5>4 DEF Settled, Named
      <4> QED BY <1>1, <1>4, <2>2, <3>5, <4>1, <4>2, <4>3, <4>4, LimitWatched
    <3>4. CASE drill[o].at = "final" /\ part \notin {"switch", "limit"}
      <4>1. Broken(part, stack)
        <5>1. step \notin Breaking(part)
          BY <1>1, <1>2, <3>4, BreaksInBlock
        <5> QED BY <1>13, <2>2, <5>1
      <4>2. CASE part = "hosts"
        <5>1. i # 1
          <6>1. SUFFICES ASSUME i = 1 PROVE FALSE
            OBVIOUS
          <6>2. step = "unblackhole"
            BY <1>1, <1>2, <1>4, <2>2, <3>4, <4>2, <6>1, HostsWatched
          <6>3. stack \in StackType
            BY <1>1, AtStep
          <6> QED BY <1>13, <2>2, <4>2, <6>2, <6>3, EffectMends
        <5>2. step = "judge hosts"
          BY <1>1, <1>2, <1>4, <2>2, <3>4, <4>2, <5>1, HostsWatched
        <5>3. "hosts" \in said'
          BY <1>3, <4>1, <4>2, <5>2 DEF Wrong, Broken
        <5> QED BY <4>2, <5>3 DEF Settled, Named
      <4>3. CASE part # "hosts"
        <5>1. part \in {"redis", "db", "api", "scratch"}
          BY <3>4, <4>3 DEF Parts
        <5>2. CASE i < JudgeAt(part)
          <6>1. JudgeAt(part) \in Nat
            BY DEF JudgeAt
          <6>2. j <= JudgeAt(part)
            BY <1>5, <1>6, <5>2, <6>1
          <6> QED BY <1>11, <3>1, <3>4, <4>3, <6>2 DEF Watches
        <5>3. CASE i = JudgeAt(part)
          <6>1. Wrong(step, stack) \cap Named(part) # {}
            BY <1>1, <1>2, <1>4, <2>2, <3>4, <4>1, <5>1, <5>3, FinalJudges
          <6>2. Named(part)' = Named(part)
            OBVIOUS
          <6> QED BY <1>3, <6>1 DEF Settled
        <5> QED BY <1>1, <1>4, <2>2, <3>4, <5>1, <5>2, <5>3, FinalJudges
      <4> QED BY <4>2, <4>3
    <3> QED BY <3>1, <3>2, <3>3, <3>4, <3>5
  <2>3. Kept(part) /\ said \subseteq said'
    BY <1>3 DEF DrillInv
  <2>4. failures \in Nat /\ interrupts \in Nat /\ kills \in Nat
    BY <1>1, AtStep
  <2>5. failures <= failures' /\ interrupts <= interrupts' /\ kills <= kills'
    BY <1>3, <2>4
  <2> QED BY <1>8, <1>11, <2>1, <2>2, <2>3, <2>4, <2>5, WatchKept
<1> QED BY <1>10, <1>12 DEF DrillInv


\* A command that fails.
LEMMA FailKeeps ==
  ASSUME DrillInv, NEW o \in Operators, FailStep(o)
  PROVE  DrillInv'
<1>1. HasStep(o) /\ DrillTyped
  BY DEF FailStep, DrillInv
<1>2. PICK step : step = Step(o)
  OBVIOUS
<1>3. /\ stack' \in Botched(step, stack) /\ said' = said \cup Unjudged(step)
      /\ failures' = failures + 1 /\ interrupts' = interrupts /\ kills' = kills
      /\ IF step \in Raises THEN Raise(o, "final")
         ELSE IF step \in ReturnsEarly THEN GoTo(o, "cleanup") ELSE Onward(o)
  BY <1>2 DEF FailStep
<1>4. PICK i, j, b : i = drill[o].pc /\ j = drill[o].pc + 1 /\ b = drill[o].block
  OBVIOUS
<1>5. i \in Nat /\ i > 0
  BY <1>1, <1>4, AtStep
<1>6. j \in Nat /\ j > 0 /\ j = i + 1
  BY <1>4, <1>5
<1>7. /\ step \in Raises => Turns(o, "final", 1, b)
      /\ step \in ReturnsEarly => Turns(o, "cleanup", 1, b)
      /\ step \notin Raises \cup ReturnsEarly => Turns(o, drill[o].at, j, b)
  <2>1. "final" \in DrillPlaces /\ "cleanup" \in DrillPlaces /\ Raises \cap ReturnsEarly = {}
    BY DEF DrillPlaces, Raises, ReturnsEarly
  <2>2. drill[o].at \in DrillPlaces /\ drill \in [Operators -> DrillRecord]
    BY <1>1, AtStep
  <2>3. ASSUME step \in Raises PROVE Turns(o, "final", 1, b)
    BY <1>3, <1>4, <2>1, <2>2, <2>3, DrillTurns
  <2>4. ASSUME step \in ReturnsEarly PROVE Turns(o, "cleanup", 1, b)
    BY <1>3, <1>4, <2>1, <2>2, <2>4, DrillTurns
  <2>5. ASSUME step \notin Raises \cup ReturnsEarly PROVE Turns(o, drill[o].at, j, b)
    BY <1>3, <1>4, <2>2, <2>5, DrillTurns
  <2> QED BY <2>3, <2>4, <2>5
<1>8. PICK place, k : /\ Turns(o, place, k, b) /\ k \in Nat /\ k > 0
                      /\ step \in Raises => place = "final" /\ k = 1
                      /\ step \in ReturnsEarly => place = "cleanup" /\ k = 1
                      /\ step \notin Raises \cup ReturnsEarly => place = drill[o].at /\ k = j
  <2>1. 1 \in Nat /\ 1 > 0 /\ Raises \cap ReturnsEarly = {}
    BY DEF Raises, ReturnsEarly
  <2>2. CASE step \in Raises
    BY <1>7, <2>1, <2>2
  <2>3. CASE step \in ReturnsEarly
    BY <1>7, <2>1, <2>3
  <2>4. CASE step \notin Raises \cup ReturnsEarly
    BY <1>6, <1>7, <2>4
  <2> QED BY <2>2, <2>3, <2>4
<1>9. stack' \in StackType /\ failures \in Nat /\ interrupts \in Nat /\ kills \in Nat
  BY <1>1, <1>3, AtStep, BotchedBreaks
<1>10. failures' \in Nat /\ interrupts' \in Nat /\ kills' \in Nat
  BY <1>3, <1>9
<1>11. b \in 1..Len(Blocks(drill[o].kind)) /\ drill[o].at # "idle"
  BY <1>1, <1>4, AtStep
<1>12. DrillTyped'
  BY <1>1, <1>8, <1>9, <1>10, <1>11, TurnsTyped
<1>13. /\ drill'[o].at = place /\ drill'[o].kind = drill[o].kind /\ drill'[o].pc = k
       /\ drill'[o].block = b
       /\ \A p \in Operators \ {o} : drill'[p] = drill[p]
  BY <1>8 DEF Turns
<1>14. ASSUME NEW part \in Parts \ {"switch", "limit"}, drill[o].at \in {"body", "cleanup"},
              drill[o].kind = KindOf(part)
       PROVE  Watches(o, part)'
  <2>1. place \in {"body", "cleanup"} \/ (place = "final" /\ k = 1)
    BY <1>8, <1>14
  <2> QED BY <1>13, <1>14, <2>1, BlockWatches
<1>15. ASSUME NEW part \in Parts PROVE Kept(part)'
  <2>1. ASSUME Broken(part, stack')
        PROVE  Broken(part, stack) \/ Watches(o, part)'
    <3>1. stack \in StackType
      BY <1>1, AtStep
    <3>2. Broken(part, stack) \/ (part = "api" /\ step \in Breaking(part))
      BY <1>3, <2>1, <3>1, BotchedBreaks
    <3>3. CASE part = "api" /\ step \in Breaking(part)
      <4>1. drill[o].at \in {"body", "cleanup"} /\ drill[o].kind = KindOf(part)
        BY <1>1, <1>2, <3>3, BreaksInBlock
      <4> QED BY <1>14, <3>3, <4>1
    <3> QED BY <3>2, <3>3
  <2>2. ASSUME Watches(o, part), Broken(part, stack')
        PROVE  Watches(o, part)' \/ Settled(part)'
    <3>1. drill[o].kind = KindOf(part) /\ drill[o].at \in {"body", "cleanup", "final"}
      BY <1>1, <2>2, AtStep DEF Watches
    <3>2. CASE part = "switch"
      <4>1. (i = 2 \/ i = 3) /\ drill[o].at = "body" /\ drill[o].kind = "inspect"
        BY <1>1, <1>4, <2>2, <3>2, SwitchWatched
      <4>2. CASE i = 2
        <5>1. step = "clear switch"
          BY <1>1, <1>2, <1>4, <2>2, <3>2, <4>2, SwitchWatched
        <5>2. place = "body" /\ k = j
          BY <1>8, <4>1, <5>1 DEF Raises, ReturnsEarly
        <5>3. k = 3
          BY <1>6, <4>2, <5>2
        <5> QED BY <1>13, <3>1, <3>2, <5>2, <5>3 DEF Watches
      <4>3. CASE i = 3
        <5>1. step = "judge planning"
          BY <1>1, <1>2, <1>4, <2>2, <3>2, <4>3, SwitchWatched
        <5>2. "planning" \in said'
          BY <1>3, <5>1 DEF Unjudged
        <5> QED BY <3>2, <5>2 DEF Settled, Named
      <4> QED BY <4>1, <4>2, <4>3
    <3>3. CASE part \notin {"switch", "limit"} /\ drill[o].at \in {"body", "cleanup"}
      BY <1>14, <3>1, <3>3
    <3>6. CASE part = "limit"
      <4>1. b = 2 /\ drill[o].at \in {"body", "cleanup"} /\ step \notin Raises
        BY <1>1, <1>2, <1>4, <2>2, <3>6, LimitWatched
      <4>2. CASE step \in ReturnsEarly
        <5>1. place = "cleanup" /\ k = 1 /\ k <= 3
          BY <1>8, <4>2
        <5> QED BY <1>13, <3>1, <3>6, <4>1, <5>1 DEF Watches
      <4>3. CASE step \notin ReturnsEarly /\ drill[o].at = "body"
        <5>1. place = "body"
          BY <1>8, <4>1, <4>3
        <5> QED BY <1>13, <3>1, <3>6, <4>1, <5>1 DEF Watches
      <4>4. CASE step \notin ReturnsEarly /\ drill[o].at = "cleanup" /\ i < 3
        <5>1. place = "cleanup" /\ k = j
          BY <1>8, <4>1, <4>4
        <5>2. k <= 3
          BY <1>5, <1>6, <4>4, <5>1
        <5> QED BY <1>13, <3>1, <3>6, <4>1, <5>1, <5>2 DEF Watches
      <4>5. CASE drill[o].at = "cleanup" /\ i = 3
        <5>1. step = "judge limit"
          BY <1>1, <1>2, <1>4, <2>2, <3>6, <4>5, LimitWatched
        <5>2. "api" \in said'
          BY <1>3, <5>1 DEF Unjudged
        <5> QED BY <3>6, <5>2 DEF Settled, Named
      <4> QED BY <1>1, <1>4, <2>2, <3>6, <4>1, <4>2, <4>3, <4>4, <4>5, LimitWatched
    <3>4. CASE drill[o].at = "final" /\ part = "hosts"
      <4>1. /\ i = 1 \/ (i = 2 /\ failures > 0)
            /\ i = 1 => step = "unblackhole"
            /\ i = 2 => step = "judge hosts"
        BY <1>1, <1>2, <1>4, <2>2, <3>4, HostsWatched
      <4>2. CASE i = 1
        <5>1. place = "final" /\ k = j
          BY <1>8, <3>4, <4>1, <4>2 DEF Raises, ReturnsEarly
        <5>2. k = 2
          BY <1>6, <4>2, <5>1
        <5>3. failures' > 0
          BY <1>3, <1>9
        <5> QED BY <1>13, <3>1, <3>4, <5>1, <5>2, <5>3 DEF Watches
      <4>3. CASE failures > 0
        <5>1. failures' > 1
          BY <1>3, <1>9, <4>3
        <5> QED BY <3>4, <5>1 DEF Settled
      <4> QED BY <4>1, <4>2, <4>3
    <3>5. CASE drill[o].at = "final" /\ part \notin {"hosts", "switch", "limit"}
      <4>1. part \in {"redis", "db", "api", "scratch"}
        BY <3>5 DEF Parts
      <4>2. step \notin Raises \cup ReturnsEarly /\ (i < JudgeAt(part) \/ i = JudgeAt(part))
        BY <1>1, <1>2, <1>4, <2>2, <3>5, <4>1, FinalJudges
      <4>3. place = "final" /\ k = j
        BY <1>8, <3>5, <4>2
      <4>4. CASE i < JudgeAt(part)
        <5>1. JudgeAt(part) \in Nat
          BY DEF JudgeAt
        <5>2. k <= JudgeAt(part)
          BY <1>5, <1>6, <4>3, <4>4, <5>1
        <5> QED BY <1>13, <3>1, <3>5, <4>3, <5>2 DEF Watches
      <4>5. CASE i = JudgeAt(part)
        <5>1. Unjudged(step) \cap Named(part) # {}
          BY <1>1, <1>2, <1>4, <2>2, <3>5, <4>1, <4>5, FinalJudges
        <5> QED BY <1>3, <5>1 DEF Settled
      <4> QED BY <4>2, <4>4, <4>5
    <3> QED BY <3>1, <3>2, <3>3, <3>4, <3>5, <3>6
  <2>3. Kept(part) /\ said \subseteq said'
    BY <1>3 DEF DrillInv
  <2>4. failures <= failures' /\ interrupts <= interrupts' /\ kills <= kills'
    BY <1>3, <1>9
  <2> QED BY <1>9, <1>10, <1>13, <2>1, <2>2, <2>3, <2>4, WatchKept
<1> QED BY <1>12, <1>15 DEF DrillInv

\* Ctrl-C.
LEMMA InterruptKeeps ==
  ASSUME DrillInv, NEW o \in Operators, Interrupt(o)
  PROVE  DrillInv'
<1>1. HasStep(o) /\ DrillTyped
  BY DEF Interrupt, DrillInv
<1>2. PICK step : step = Step(o)
  OBVIOUS
<1>3. /\ stack' \in Outcomes(step, stack) \cup Botched(step, stack)
      /\ said' = IF drill[o].at = "final" THEN said \cup {"cut short"} ELSE said
      /\ failures' = failures + 1 /\ interrupts' = interrupts + 1 /\ kills' = kills
  BY <1>2 DEF Interrupt
<1>4. PICK b : b = drill[o].block
  OBVIOUS
<1>5. PICK place \in {"release", "cleanup", "final"} :
         Raise(o, place) /\ (place = "release" <=> drill[o].at = "final")
  BY DEF Interrupt
<1>6. Turns(o, place, 1, b)
  <2>1. place \in DrillPlaces
    BY DEF DrillPlaces
  <2> QED BY <1>1, <1>4, <1>5, <2>1, AtStep, DrillTurns
<1>15. /\ stack' \in StackType
       /\ \A part \in Parts : Broken(part, stack') => Broken(part, stack) \/ step \in Breaking(part)
  <2>1. stack \in StackType
    BY <1>1, AtStep
  <2>2. CASE stack' \in Outcomes(step, stack)
    BY <2>1, <2>2, OutcomeBreaks
  <2>3. CASE stack' \in Botched(step, stack)
    BY <2>1, <2>3, BotchedBreaks
  <2> QED BY <1>3, <2>2, <2>3
<1>7. stack' \in StackType /\ failures \in Nat /\ interrupts \in Nat /\ kills \in Nat
  BY <1>1, <1>15, AtStep
<1>14. /\ failures' = failures + 1 /\ interrupts' = interrupts + 1 /\ kills' = kills
       /\ failures \in Nat /\ interrupts \in Nat /\ kills \in Nat
  BY <1>3, <1>7
<1>8. failures' \in Nat /\ interrupts' \in Nat /\ kills' \in Nat /\ interrupts' > 0
  BY <1>14
<1>9. b \in 1..Len(Blocks(drill[o].kind)) /\ drill[o].at # "idle"
  BY <1>1, <1>4, AtStep
<1>10. DrillTyped'
  <2>1. 1 \in Nat /\ 1 > 0
    OBVIOUS
  <2> QED BY <1>1, <1>6, <1>7, <1>8, <1>9, <2>1, TurnsTyped
<1>11. /\ drill'[o].at = place /\ drill'[o].kind = drill[o].kind /\ drill'[o].pc = 1
       /\ \A p \in Operators \ {o} : drill'[p] = drill[p]
  BY <1>6 DEF Turns
<1>12. ASSUME NEW part \in Parts, drill[o].kind = KindOf(part)
       PROVE  Watches(o, part)' \/ Settled(part)'
  <2>1. CASE part \in {"switch", "limit"}
    BY <1>8, <2>1 DEF Settled
  <2>2. CASE drill[o].at = "final"
    BY <1>3, <2>2 DEF Settled
  <2>3. CASE drill[o].at # "final" /\ part \notin {"switch", "limit"}
    <3>1. place \in {"body", "cleanup"} \/ place = "final"
      BY <1>5, <2>3
    <3> QED BY <1>11, <1>12, <2>3, <3>1, BlockWatches
  <2> QED BY <2>1, <2>2, <2>3
<1>13. ASSUME NEW part \in Parts PROVE Kept(part)'
  <2>1. ASSUME Broken(part, stack')
        PROVE  Broken(part, stack) \/ Watches(o, part)' \/ Settled(part)'
    <3>1. CASE step \in Breaking(part)
      <4>1. drill[o].kind = KindOf(part)
        BY <1>1, <1>2, <3>1, BreaksInBlock
      <4> QED BY <1>12, <4>1
    <3>2. CASE step \notin Breaking(part)
      BY <1>15, <2>1, <3>2
    <3> QED BY <3>1, <3>2
  <2>2. ASSUME Watches(o, part)
        PROVE  Watches(o, part)' \/ Settled(part)'
    <3>1. drill[o].kind = KindOf(part)
      BY <2>2 DEF Watches
    <3> QED BY <1>12, <3>1
  <2>3. Kept(part) /\ said \subseteq said'
    BY <1>3 DEF DrillInv
  <2>4. failures <= failures' /\ interrupts <= interrupts' /\ kills <= kills'
    BY <1>14
  <2> QED BY <1>7, <1>8, <1>11, <2>1, <2>2, <2>3, <2>4, WatchKept
<1> QED BY <1>10, <1>13 DEF DrillInv

\* A drill that goes on to its next part.
LEMMA NextPartKeeps ==
  ASSUME DrillInv, NEW o \in Operators, NextPart(o)
  PROVE  DrillInv'
<1>1. /\ DrillTyped /\ drill[o].at \in {"body", "cleanup"} /\ ~HasStep(o)
      /\ UNCHANGED <<stack, said, failures, interrupts, kills>>
  BY DEF NextPart, DrillInv
<1>2. PICK b : b = drill[o].block
  OBVIOUS
<1>3. PICK kind \in Kinds : kind = drill[o].kind
  BY <1>1 DEF DrillTyped
<1>4. drill \in [Operators -> DrillRecord] /\ b \in 1..Len(Blocks(kind)) /\ drill[o].at # "idle"
  BY <1>1, <1>2, <1>3 DEF DrillTyped
<1>5. PICK c, place : /\ Turns(o, place, 1, c) /\ c \in 1..Len(Blocks(kind))
                      /\ place \in {"body", "cleanup", "final"}
                      /\ drill[o].at = "body" => place = "cleanup" /\ c = b
  <2>1. "body" \in DrillPlaces /\ "cleanup" \in DrillPlaces /\ "final" \in DrillPlaces
    BY DEF DrillPlaces
  <2>2. CASE GoTo(o, "cleanup")
    <3>1. Turns(o, "cleanup", 1, b)
      BY <1>2, <1>4, <2>1, <2>2, DrillTurns
    <3> QED BY <1>4, <3>1
  <2>3. CASE GoTo(o, "final") /\ drill[o].at # "body"
    <3>1. Turns(o, "final", 1, b)
      BY <1>2, <1>4, <2>1, <2>3, DrillTurns
    <3> QED BY <1>4, <2>3, <3>1
  <2>4. CASE /\ b # Len(Blocks(kind)) /\ drill[o].at # "body"
             /\ drill' = [drill EXCEPT ![o] = [@ EXCEPT !.at = "body", !.pc = 1,
                                                        !.block = drill[o].block + 1]]
    <3>1. PICK n : n = Len(Blocks(kind))
      OBVIOUS
    <3>2. n \in Nat
      <4>1. n = 1 \/ n = 2
        BY <3>1, SomeBlocks
      <4> QED BY <4>1
    <3>3. b \in 1..n /\ b # n
      BY <1>4, <2>4, <3>1
    <3>4. b + 1 \in 1..n
      BY <3>2, <3>3
    <3>5. drill' = [drill EXCEPT ![o] = [@ EXCEPT !.at = "body", !.pc = 1,
                                                        !.block = drill[o].block + 1]]
      BY <2>4
    <3>6. Turns(o, "body", 1, drill[o].block + 1)
      BY <1>4, <2>1, <3>5, DrillTurns
    <3>7. Turns(o, "body", 1, b + 1)
      BY <1>2, <3>6
    <3> QED BY <2>4, <3>1, <3>4, <3>7
  <2> QED BY <1>2, <1>3, <2>2, <2>3, <2>4 DEF NextPart
<1>6. /\ stack' \in StackType /\ failures \in Nat /\ interrupts \in Nat /\ kills \in Nat
      /\ failures' = failures /\ interrupts' = interrupts /\ kills' = kills
  BY <1>1 DEF DrillTyped
<1>7. DrillTyped'
  <2>1. 1 \in Nat /\ 1 > 0
    OBVIOUS
  <2>2. c \in 1..Len(Blocks(drill[o].kind))
    BY <1>3, <1>5
  <2> QED BY <1>1, <1>4, <1>5, <1>6, <2>1, <2>2, TurnsTyped
<1>8. /\ drill'[o].at = place /\ drill'[o].kind = drill[o].kind /\ drill'[o].pc = 1
      /\ drill'[o].block = c
      /\ \A p \in Operators \ {o} : drill'[p] = drill[p]
  BY <1>5 DEF Turns
<1>9. ASSUME NEW part \in Parts PROVE Kept(part)'
  <2>1. Broken(part, stack') => Broken(part, stack)
    BY <1>1
  <2>2. ASSUME Watches(o, part) PROVE Watches(o, part)'
    <3>1. part # "switch"
      BY <1>1, <2>2, SwitchWatched
    <3>2. drill[o].kind = KindOf(part)
      BY <2>2 DEF Watches
    <3>3. CASE part = "limit"
      <4>1. b = 2 /\ drill[o].at # "cleanup"
        BY <1>1, <1>2, <2>2, <3>3, LimitWatched
      <4>2. place = "cleanup" /\ c = 2
        BY <1>1, <1>5, <4>1
      <4>3. drill'[o].pc <= 3
        BY <1>8
      <4> QED BY <1>8, <3>2, <3>3, <4>2, <4>3 DEF Watches
    <3>4. CASE part # "limit"
      BY <1>5, <1>8, <3>1, <3>2, <3>4, BlockWatches
    <3> QED BY <3>3, <3>4
  <2>3. Kept(part) /\ said \subseteq said'
    BY <1>1 DEF DrillInv
  <2>4. failures <= failures' /\ interrupts <= interrupts' /\ kills <= kills'
    BY <1>6
  <2> QED BY <1>6, <1>8, <2>1, <2>2, <2>3, <2>4, WatchKept
<1> QED BY <1>7, <1>9 DEF DrillInv

\* A drill that ends or is killed.
LEMMA EndKeeps ==
  ASSUME DrillInv, NEW o \in Operators, Release(o) \/ Kill(o)
  PROVE  DrillInv'
<1>1. DrillTyped /\ drill \in [Operators -> DrillRecord] /\ drill[o].at # "idle" /\ Moves(o, "over")
  BY DEF Release, Kill, Busy, DrillInv, DrillTyped
<1>2. PICK i, b : i = drill[o].pc /\ b = drill[o].block
  OBVIOUS
<1>3. i \in Nat /\ i > 0
  BY <1>1, <1>2 DEF DrillTyped, DrillRecord
<1>4. b \in 1..Len(Blocks(drill[o].kind))
  BY <1>1, <1>2 DEF DrillTyped
<1>5. Turns(o, "over", i, b)
  <2>1. "over" \in DrillPlaces
    BY DEF DrillPlaces
  <2> QED BY <1>1, <1>2, <2>1, DrillTurns
<1>6. /\ stack' \in StackType /\ said' = said /\ stack' = stack
      /\ failures \in Nat /\ interrupts \in Nat /\ kills \in Nat
      /\ failures' = failures /\ interrupts' = interrupts
      /\ (Release(o) /\ kills' = kills) \/ kills' = kills + 1
  BY <1>1 DEF Release, Kill, DrillTyped
<1>7. failures' \in Nat /\ interrupts' \in Nat /\ kills' \in Nat /\ kills <= kills'
  BY <1>6
<1>8. DrillTyped'
  BY <1>1, <1>3, <1>4, <1>5, <1>6, <1>7, TurnsTyped
<1>9. \A p \in Operators \ {o} : drill'[p] = drill[p]
  BY <1>5 DEF Turns
<1>10. ASSUME NEW part \in Parts PROVE Kept(part)'
  <2>1. Broken(part, stack') => Broken(part, stack)
    BY <1>6
  <2>2. ASSUME Watches(o, part), kills' = 0 PROVE FALSE
    <3>1. kills' # kills + 1
      BY <1>6, <2>2
    <3>2. drill[o].at = "release" \/ (drill[o].at = "final" /\ ~HasStep(o))
      BY <1>6, <3>1 DEF Release
    <3>3. drill[o].at = "final" /\ ~HasStep(o)
      BY <2>2, <3>2, NotUnderway DEF Underway
    <3>4. part # "switch"
      BY <1>1, <2>2, <3>3, SwitchWatched
    <3>5. part # "hosts"
      BY <1>1, <2>2, <3>3, HostsWatched
    <3>7. part # "limit"
      BY <1>1, <2>2, <3>3, LimitWatched
    <3>6. part \in {"redis", "db", "api", "scratch"}
      BY <3>4, <3>5, <3>7 DEF Parts
    <3> QED BY <1>1, <2>2, <3>3, <3>6, FinalJudges
  <2>3. Kept(part) /\ said \subseteq said'
    BY <1>6 DEF DrillInv
  <2>4. failures <= failures' /\ interrupts <= interrupts'
    BY <1>6
  <2> QED BY <1>6, <1>7, <1>9, <2>1, <2>2, <2>3, <2>4, WatchKept
<1> QED BY <1>8, <1>10 DEF DrillInv

\* Nothing is broken at first.
LEMMA DrillsBegin ==
  ASSUME DrillsInit
  PROVE  DrillInv
<1>1. stack \in StackType /\ drill \in [Operators -> DrillRecord]
  BY DEF DrillsInit, Intact, NoDrill, StackType, DrillRecord, DrillPlaces
<1>2. \A o \in Operators : drill[o].at = "idle"
  BY DEF DrillsInit, NoDrill
<1>3. failures \in Nat /\ interrupts \in Nat /\ kills \in Nat
  BY DEF DrillsInit
<1>4. ASSUME NEW part \in Parts PROVE ~Broken(part, stack)
  BY DEF DrillsInit, Intact, Broken, ScratchLeft, Parts
<1> QED BY <1>1, <1>2, <1>3, <1>4 DEF DrillInv, DrillTyped, Kept

\* Every step keeps the invariant.
LEMMA DrillsGoOn ==
  ASSUME DrillInv, [DrillNext]_drillVars
  PROVE  DrillInv'
<1>1. CASE UNCHANGED <<stack, drill, said, failures, interrupts, kills>>
  <2>1. ASSUME NEW part \in Parts PROVE Kept(part)'
    <3>1. Kept(part)
      BY DEF DrillInv
    <3> QED BY <1>1, <3>1 DEF Kept, Settled, Watches
  <2>2. DrillTyped'
    BY <1>1 DEF DrillInv, DrillTyped
  <2> QED BY <2>1, <2>2 DEF DrillInv
<1>2. ASSUME NEW o \in Operators, NEW kind \in {"infra", "costctl", "inspect", "backup"},
             StartDrill(o, kind)
      PROVE  DrillInv'
  BY <1>2, StartKeeps DEF Kinds
<1>3. ASSUME NEW o \in Operators, OpenLock(o) \/ UnlinkStale(o) \/ Reopen(o) \/ WriteLock(o) \/ Ready(o)
      PROVE  DrillInv'
  BY <1>3, LockKeeps
<1>4. ASSUME NEW o \in Operators, Perform(o) PROVE DrillInv'
  BY <1>4, PerformKeeps
<1>5. ASSUME NEW o \in Operators, FailStep(o) PROVE DrillInv'
  BY <1>5, FailKeeps
<1>6. ASSUME NEW o \in Operators, Interrupt(o) PROVE DrillInv'
  BY <1>6, InterruptKeeps
<1>7. ASSUME NEW o \in Operators, NextPart(o) PROVE DrillInv'
  BY <1>7, NextPartKeeps
<1>8. ASSUME NEW o \in Operators, Release(o) \/ Kill(o) PROVE DrillInv'
  BY <1>8, EndKeeps
<1>9. CASE LockAges
  BY <1>1, <1>9 DEF LockAges
<1>10. CASE UNCHANGED drillVars
  BY <1>1, <1>10 DEF drillVars
<1> QED BY <1>2, <1>3, <1>4, <1>5, <1>6, <1>7, <1>8, <1>9, <1>10 DEF DrillNext

\* Once no drill of scripts/ runs any more, and none was killed, whatever they broke of the
\* stack is mended or a report names it: for any number of operators whose drills overlap in
\* spite of the lock, and any commands that fail or are interrupted.  The property itself
\* names the exceptions: Ctrl-C in a last finally, which the report shows as cut short; two
\* failures for the host names; an interrupt for the kill switch and for Q10's spend limit,
\* under which /plan goes on answering 202 once the spend key is back.
THEOREM DrillsRestoreOrReport == DrillSpec => []RestoredOrReported
<1>1. DrillInv => RestoredOrReported
  <2>1. SUFFICES ASSUME DrillInv, kills = 0, \A o \in Operators : ~Busy(o), "cut short" \notin said
                 PROVE  /\ ~stack.redis => "redis" \in said
                        /\ ~stack.db => "db" \in said
                        /\ stack.api \in {"floor", "down"} => {"api", "planning"} \cap said # {}
                        /\ stack.api = "limit" => "api" \in said \/ interrupts > 0
                        /\ stack.hosts # {} => "hosts" \in said \/ failures > 1
                        /\ stack.switch = "0" => "planning" \in said \/ interrupts > 0
                        /\ ScratchLeft(stack) => "scratch" \in said
    BY DEF RestoredOrReported
  <2>2. ASSUME NEW part \in Parts, Broken(part, stack) PROVE Settled(part)
    <3>1. \A o \in Operators : ~Watches(o, part)
      BY <2>1, NotUnderway DEF Underway, Busy
    <3> QED BY <2>1, <2>2, <3>1 DEF DrillInv, Kept
  <2>3. ~stack.redis => "redis" \in said
    BY <2>1, <2>2 DEF Parts, Broken, Settled, Named
  <2>4. ~stack.db => "db" \in said
    BY <2>1, <2>2 DEF Parts, Broken, Settled, Named
  <2>5. stack.api \in {"floor", "down"} => {"api", "planning"} \cap said # {}
    BY <2>1, <2>2 DEF Parts, Broken, Settled, Named
  <2>9. stack.api = "limit" => "api" \in said \/ interrupts > 0
    BY <2>1, <2>2 DEF Parts, Broken, Settled, Named
  <2>6. stack.hosts # {} => "hosts" \in said \/ failures > 1
    BY <2>1, <2>2 DEF Parts, Broken, Settled, Named
  <2>7. stack.switch = "0" => "planning" \in said \/ interrupts > 0
    BY <2>1, <2>2 DEF Parts, Broken, Settled, Named
  <2>8. ScratchLeft(stack) => "scratch" \in said
    BY <2>1, <2>2 DEF Parts, Broken, Settled, Named
  <2> QED BY <2>3, <2>4, <2>5, <2>6, <2>7, <2>8, <2>9
<1>2. DrillsInit => DrillInv
  BY DrillsBegin
<1>3. DrillInv /\ [DrillNext]_drillVars => DrillInv'
  BY DrillsGoOn
<1> QED BY <1>1, <1>2, <1>3, PTL DEF DrillSpec
=============================================================================
