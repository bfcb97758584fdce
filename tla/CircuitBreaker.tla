---------------------------- MODULE CircuitBreaker ----------------------------
(***************************************************************************)
(* One leg of tp_core.llm.circuit.CircuitBreaker: what state() reports,    *)
(* what allows() grants and takes, what the two record_ calls leave.  The  *)
(* clock appears only as whether cooldown_s has passed since opened_at.    *)
(***************************************************************************)
EXTENDS Naturals

CONSTANT Threshold  \* CircuitBreaker.threshold

ASSUME ThresholdAssumption == Threshold \in Nat \ {0}

\* `failures` is only ever compared with the threshold, so it is counted up to it.
Leg == [failures: 0..Threshold, opened: {"no", "cooling", "cooled"}, probing: BOOLEAN]

NewLeg == [failures |-> 0, opened |-> "no", probing |-> FALSE]

State(leg) ==
    CASE leg.opened = "no"      -> "closed"
      [] leg.opened = "cooling" -> "open"
      [] leg.opened = "cooled"  -> "half_open"

\* Mutant: the probe is granted to whoever asks.
AllowsAll(leg) == State(leg) # "open"

Allows(leg) == State(leg) = "closed" \/ (State(leg) = "half_open" /\ ~leg.probing)

\* What a granted allows() leaves behind: in half-open it takes the probe.
Claimed(leg) == [leg EXCEPT !.probing = @ \/ State(leg) = "half_open"]

RecordSuccess == NewLeg

\* Mutant: the outcome of a probe that fails does not hand the probe back.
FailureKeepsProbe(leg) ==
    LET failures == IF leg.failures < Threshold THEN leg.failures + 1 ELSE Threshold
    IN [failures |-> failures,
        opened |-> IF failures >= Threshold THEN "cooling" ELSE leg.opened,
        probing |-> leg.probing]

\* Mutant: the leg opens at the failure after the threshold.
OpensLate(leg) ==
    LET failures == IF leg.failures < Threshold THEN leg.failures + 1 ELSE Threshold
    IN [failures |-> failures,
        opened |-> IF leg.failures >= Threshold THEN "cooling" ELSE leg.opened,
        probing |-> FALSE]

RecordFailure(leg) ==
    LET failures == IF leg.failures < Threshold THEN leg.failures + 1 ELSE Threshold
    IN [failures |-> failures,
        opened |-> IF failures >= Threshold THEN "cooling" ELSE leg.opened,
        probing |-> FALSE]

Cooled(leg) == [leg EXCEPT !.opened = "cooled"]
=============================================================================
