-------------------------- MODULE CircuitBreaker_proofs --------------------------
(***************************************************************************)
(* What holds of the breaker's two uses, for any threshold: one shared     *)
(* leg under any number of callers (InfraBreaker), and a chain of legs     *)
(* walked by any number of requests (VenueChain).                          *)
(***************************************************************************)
EXTENDS InfraBreaker, VenueChain, FiniteSetTheorems, TLAPS

\* Every call reports an outcome: no record_spend, and cancellations only of lookups.
AllReport == \A c \in Callers : Site[c] # "spend" /\ (Site[c] = "lookup" \/ c \notin Cancellable)

-----------------------------------------------------------------------------
(* What the operators on one leg return. *)

\* Every operator of a leg yields a leg.
LEMMA LegTyped ==
    /\ NewLeg \in Leg
    /\ RecordSuccess \in Leg
    /\ \A l \in Leg : Claimed(l) \in Leg /\ RecordFailure(l) \in Leg /\ Cooled(l) \in Leg
<1>1. NewLeg \in Leg /\ RecordSuccess \in Leg
  BY ThresholdAssumption DEF NewLeg, RecordSuccess, Leg
<1>2. ASSUME NEW l \in Leg PROVE RecordFailure(l) \in Leg
  BY ThresholdAssumption, SMT DEF RecordFailure, Leg
<1>3. ASSUME NEW l \in Leg PROVE Claimed(l) \in Leg /\ Cooled(l) \in Leg
  BY DEF Claimed, Cooled, Leg, State
<1> QED BY <1>1, <1>2, <1>3

\* The probe bit of a leg after each of them.
LEMMA LegProbing ==
    /\ NewLeg.probing = FALSE
    /\ RecordSuccess.probing = FALSE
    /\ \A l \in Leg : /\ RecordFailure(l).probing = FALSE
                      /\ Cooled(l).probing = l.probing
                      /\ Claimed(l).probing = (l.probing \/ State(l) = "half_open")
<1>1. NewLeg.probing = FALSE /\ RecordSuccess.probing = FALSE
  BY DEF NewLeg, RecordSuccess
<1>2. ASSUME NEW l \in Leg PROVE RecordFailure(l).probing = FALSE
  BY DEF RecordFailure
<1>3. ASSUME NEW l \in Leg PROVE Cooled(l).probing = l.probing
  BY DEF Cooled, Leg
<1>4. ASSUME NEW l \in Leg PROVE Claimed(l).probing = (l.probing \/ State(l) = "half_open")
  BY DEF Claimed, Leg
<1> QED BY <1>1, <1>2, <1>3, <1>4

\* A leg that is not half-open grants without taking anything.
LEMMA ClaimedElsewhere == ASSUME NEW l \in Leg, State(l) # "half_open" PROVE Claimed(l) = l
BY DEF Claimed, Leg

\* A report changes the leg of the caller's breaker and no other.
LEMMA ReportEffect ==
    ASSUME TypeOK, NEW c \in Callers, NEW new, Report(c, new)
    PROVE  /\ BreakerOf(c) \in Breakers
           /\ leg'[BreakerOf(c)] = new
           /\ \A b \in Breakers \ {BreakerOf(c)} : leg'[b] = leg[b]
           /\ new \in Leg => leg' \in [Breakers -> Leg]
<1>1. BreakerOf(c) \in Breakers
  BY UsersAssumption DEF BreakerOf, Breakers, Sites
<1> HIDE DEF BreakerOf, Breakers
<1> QED BY <1>1 DEF Report, TypeOK

\* Every caller asks a breaker that has a leg.
LEMMA LegOfTyped == ASSUME TypeOK, NEW c \in Callers PROVE BreakerOf(c) \in Breakers /\ LegOf(c) \in Leg
<1>1. BreakerOf(c) \in Breakers
  BY UsersAssumption DEF BreakerOf, Breakers, Sites
<1> QED BY <1>1 DEF LegOf, TypeOK

-----------------------------------------------------------------------------
(* Type correctness. *)

\* The processes start with closed legs and idle callers.
LEMMA TypeInit == Init => TypeOK
<1> SUFFICES ASSUME Init PROVE TypeOK
  OBVIOUS
<1>1. leg \in [Breakers -> Leg]
  BY LegTyped DEF Init
<1>2. caller \in [Callers -> [at: {"idle", "waiting", "calling"}, probe: BOOLEAN, up: BOOLEAN]]
  BY DEF Init, Idle
<1>3. up \subseteq Breakers
  BY DEF Init
<1>4. cancels \in 0..MaxCancels
  BY UsersAssumption, SMT DEF Init
<1> QED BY <1>1, <1>2, <1>3, <1>4 DEF TypeOK

\* Every step keeps the types.
LEMMA TypeStep == TypeOK /\ [Next]_vars => TypeOK'
<1> SUFFICES ASSUME TypeOK, [Next]_vars PROVE TypeOK'
  OBVIOUS
<1> DEFINE Shape == [at: {"idle", "waiting", "calling"}, probe: BOOLEAN, up: BOOLEAN]
<1> USE DEF TypeOK
<1>1. ASSUME NEW c \in Callers, Begin(c), UNCHANGED <<up, cancels>> PROVE TypeOK'
  <2>1. leg' \in [Breakers -> Leg]
    BY <1>1, LegOfTyped, LegTyped, ReportEffect DEF Begin
  <2>2. caller' \in [Callers -> Shape]
    BY <1>1 DEF Begin
  <2> QED BY <1>1, <2>1, <2>2
<1>2. ASSUME NEW c \in Callers, Return(c), NEW new \in Leg, Report(c, new), cancels' \in 0..MaxCancels
      PROVE TypeOK'
  <2>1. leg' \in [Breakers -> Leg]
    BY <1>2, ReportEffect
  <2>2. caller' \in [Callers -> Shape]
    BY <1>2 DEF Return, Idle
  <2> QED BY <1>2, <2>1, <2>2 DEF Return
<1>3. ASSUME NEW c \in Callers, AwaitSlot(c) \/ LeaveSlot(c) \/ (TakeSlot(c) /\ ~Begin(c))
      PROVE TypeOK'
  <2>1. caller' = [caller EXCEPT ![c] = Idle] \/ caller' = [caller EXCEPT ![c] = Waiting]
    BY <1>3 DEF AwaitSlot, LeaveSlot, TakeSlot
  <2>2. Idle \in Shape /\ Waiting \in Shape
    BY DEF Idle, Waiting
  <2>3. caller' \in [Callers -> Shape]
    BY <2>1, <2>2
  <2> QED BY <1>3, <2>3 DEF AwaitSlot, LeaveSlot, TakeSlot
<1>4. ASSUME NEW c \in Callers, Call(c) \/ TakeSlot(c) PROVE TypeOK'
  BY <1>1, <1>3, <1>4 DEF Call, TakeSlot
<1>5. ASSUME NEW c \in Callers, Succeed(c) PROVE TypeOK'
  BY <1>2, <1>5, LegOfTyped, LegTyped DEF Succeed
<1>6. ASSUME NEW c \in Callers, Fail(c) PROVE TypeOK'
  BY <1>2, <1>6, LegOfTyped, LegTyped DEF Fail
<1>7. ASSUME NEW c \in Callers, Invalid(c) PROVE TypeOK'
  BY <1>2, <1>7, LegOfTyped, LegTyped DEF Invalid
<1>8. ASSUME NEW c \in Callers, Cancel(c) PROVE TypeOK'
  <2>1. cancels' \in 0..MaxCancels
    BY <1>8, UsersAssumption DEF Cancel
  <2> QED BY <1>2, <1>8, <2>1, LegOfTyped, LegTyped DEF Cancel
<1>9. ASSUME NEW b \in Breakers, CooldownPasses(b) PROVE TypeOK'
  BY <1>9, LegTyped DEF CooldownPasses
<1>10. ASSUME NEW b \in Breakers, Recover(b) PROVE TypeOK'
  BY <1>10 DEF Recover
<1>11. CASE UNCHANGED vars \/ \E c \in Callers : GoWithout(c)
  BY <1>11 DEF vars, GoWithout
<1> QED
  BY <1>3, <1>4, <1>5, <1>6, <1>7, <1>8, <1>9, <1>10, <1>11, LegOfTyped DEF Next

\* The legs and the callers keep their shapes, whatever order calls, outcomes,
\* cancellations and cooldowns come in; `failures` never passes the threshold.
THEOREM TypeCorrect == Spec => []TypeOK
<1>1. Init => TypeOK BY TypeInit
<1>2. TypeOK /\ [Next]_vars => TypeOK' BY TypeStep
<1> QED BY <1>1, <1>2, PTL DEF Spec

-----------------------------------------------------------------------------
(* What one step does to the callers, told apart as the invariants need it. *)

\* A grant: the caller that asked is now in a call, as the probe iff half-open.
LEMMA BeginEffect ==
    ASSUME TypeOK, NEW c \in Callers, Begin(c)
    PROVE  /\ InCall(c)'
           /\ caller'[c].probe = (State(LegOf(c)) = "half_open")
           /\ \A d \in Callers \ {c} : caller'[d] = caller[d]
BY DEF TypeOK, Begin, InCall

\* A return: the caller is in no call any more, the others are where they were.
LEMMA ReturnEffect ==
    ASSUME TypeOK, NEW c \in Callers, Return(c)
    PROVE  /\ ~InCall(c)'
           /\ \A d \in Callers \ {c} : caller'[d] = caller[d]
BY DEF TypeOK, Return, InCall, Idle

\* Waiting for a slot, and leaving it, is no call.
LEMMA SlotEffect ==
    ASSUME TypeOK, NEW c \in Callers, AwaitSlot(c) \/ LeaveSlot(c) \/ (TakeSlot(c) /\ ~Begin(c))
    PROVE  /\ UNCHANGED leg
           /\ ~InCall(c) /\ ~InCall(c)'
           /\ \A d \in Callers \ {c} : caller'[d] = caller[d]
<1>1. CASE AwaitSlot(c)
  BY <1>1 DEF TypeOK, AwaitSlot, InCall, Waiting
<1>2. CASE LeaveSlot(c)
  BY <1>2 DEF TypeOK, LeaveSlot, InCall, Idle
<1>3. CASE TakeSlot(c) /\ ~Begin(c)
  BY <1>3 DEF TypeOK, TakeSlot, InCall, Idle
<1> QED BY <1>1, <1>2, <1>3

-----------------------------------------------------------------------------
(* A claimed probe is in flight, or was lost by a call that reports nothing. *)

\* A claim that somebody holds passes to nobody but with a report, or in silence.
LEMMA ProbeStep ==
    ASSUME TypeOK, [Next]_vars, NEW b \in Breakers, leg'[b].probing,
           leg[b].probing => \E c \in Callers : Probing(c, b)
    PROVE  \/ \E d \in Callers : Probing(d, b)'
           \/ \E c \in Callers : Probing(c, b) /\ Unreported(c)
<1>1. ASSUME NEW c \in Callers, caller[c].at # "calling", Begin(c)
      PROVE  \E d \in Callers : Probing(d, b)'
  <2>1. CASE BreakerOf(c) = b /\ State(LegOf(c)) = "half_open"
    BY <1>1, <2>1, BeginEffect DEF Probing, BreakerOf
  <2>2. CASE ~(BreakerOf(c) = b /\ State(LegOf(c)) = "half_open")
    <3>1. leg[b].probing
      <4>1. CASE BreakerOf(c) # b
        BY <1>1, <4>1, ReportEffect DEF Begin
      <4>2. CASE BreakerOf(c) = b
        <5>1. leg'[b] = Claimed(leg[b])
          BY <1>1, <4>2, ReportEffect DEF Begin, LegOf
        <5>2. State(leg[b]) # "half_open"
          BY <2>2, <4>2 DEF LegOf
        <5>3. leg'[b] = leg[b]
          BY <5>1, <5>2, ClaimedElsewhere DEF TypeOK
        <5> QED BY <5>3
      <4> QED BY <4>1, <4>2
    <3>2. PICK d \in Callers : Probing(d, b)
      BY <3>1
    <3>3. d # c
      BY <1>1, <3>2 DEF Probing, InCall
    <3> QED BY <1>1, <3>2, <3>3, BeginEffect DEF Probing, InCall, BreakerOf
  <2> QED BY <2>1, <2>2
<1>2. ASSUME NEW c \in Callers, AwaitSlot(c) \/ LeaveSlot(c) \/ (TakeSlot(c) /\ ~Begin(c))
      PROVE  \E d \in Callers : Probing(d, b)'
  BY <1>2, SlotEffect DEF Probing, InCall, BreakerOf
<1>3. ASSUME NEW c \in Callers, Succeed(c) \/ Fail(c) \/ Invalid(c) \/ Cancel(c)
      PROVE  (\E d \in Callers : Probing(d, b)') \/ (Probing(c, b) /\ Unreported(c))
  <2>1. Return(c)
    BY <1>3 DEF Succeed, Fail, Invalid, Cancel
  <2>2. ASSUME leg'[b] = leg[b], Unreported(c) \/ BreakerOf(c) # b
        PROVE  (\E d \in Callers : Probing(d, b)') \/ (Probing(c, b) /\ Unreported(c))
    <3>1. PICK d \in Callers : Probing(d, b)
      BY <2>2
    <3>2. CASE d = c
      BY <2>2, <3>1, <3>2 DEF Probing
    <3>3. CASE d # c
      BY <2>1, <3>1, <3>3, ReturnEffect DEF Probing, InCall, BreakerOf
    <3> QED BY <3>2, <3>3
  <2>3. CASE Unreported(c)
    <3>1. Report(c, LegOf(c))
      BY <1>3, <2>3, Zenon DEF Unreported, Succeed, Fail, Cancel
    <3>2. leg'[b] = leg[b]
      BY <3>1, ReportEffect DEF LegOf
    <3> QED BY <2>2, <2>3, <3>2
  <2>4. CASE ~Unreported(c)
    <3>1. \/ Report(c, RecordSuccess)
          \/ Report(c, RecordFailure(LegOf(c)))
          \/ Report(c, RecordFailure(RecordSuccess))
      BY <1>3, <2>4 DEF Unreported, Succeed, Fail, Invalid, Cancel
    <3>2. leg'[BreakerOf(c)].probing = FALSE
      <4>1. CASE Report(c, RecordSuccess)
        BY <4>1, ReportEffect, LegProbing
      <4>2. CASE Report(c, RecordFailure(LegOf(c)))
        BY <4>2, ReportEffect, LegOfTyped, LegProbing
      <4>3. CASE Report(c, RecordFailure(RecordSuccess))
        <5>1. RecordFailure(RecordSuccess).probing = FALSE
          BY LegTyped, LegProbing, Zenon
        <5> QED BY <4>3, <5>1, ReportEffect, Zenon
      <4> QED BY <3>1, <4>1, <4>2, <4>3
    <3>3. b # BreakerOf(c) /\ leg'[b] = leg[b]
      BY <3>1, <3>2, ReportEffect
    <3> QED BY <2>2, <3>3
  <2> QED BY <2>3, <2>4
<1>4. ASSUME NEW a \in Breakers, CooldownPasses(a) PROVE \E d \in Callers : Probing(d, b)'
  <2>1. leg'[b].probing = leg[b].probing
    BY <1>4, LegProbing DEF CooldownPasses, TypeOK
  <2>2. caller' = caller
    BY <1>4 DEF CooldownPasses
  <2> QED BY <2>1, <2>2 DEF Probing, InCall, BreakerOf
<1>5. CASE UNCHANGED vars \/ (\E a \in Breakers : Recover(a)) \/ \E c \in Callers : GoWithout(c)
  BY <1>5 DEF Recover, GoWithout, vars, Probing, InCall, BreakerOf
<1>6. ASSUME NEW c \in Callers, Call(c) \/ TakeSlot(c)
      PROVE  \E d \in Callers : Probing(d, b)'
  BY <1>1, <1>2, <1>6 DEF Call, TakeSlot
<1> QED BY <1>2, <1>3, <1>4, <1>5, <1>6, LegOfTyped DEF Next

\* At every call site, a probe that somebody holds is lost by a call that returns
\* without a report and in no other way: no success, failure, invalid value, late
\* report, slot that is left or cooldown loses it.  Where nobody is silent, none is.
THEOREM ProbeReports == Spec => OnlySilenceWedges /\ (AllReport => []ProbeInFlight)
<1>1. TypeOK /\ [Next]_vars =>
        [\A b \in Breakers : Wedged(b)' =>
            Wedged(b) \/ \E c \in Callers : Probing(c, b) /\ Unreported(c)]_vars
  <2> SUFFICES ASSUME TypeOK, [Next]_vars, NEW b \in Breakers, Wedged(b)', ~Wedged(b)
               PROVE  \E c \in Callers : Probing(c, b) /\ Unreported(c)
    OBVIOUS
  <2>1. leg'[b].probing /\ \A d \in Callers : ~Probing(d, b)'
    BY DEF Wedged
  <2>2. leg[b].probing => \E c \in Callers : Probing(c, b)
    BY DEF Wedged
  <2> QED BY <2>1, <2>2, ProbeStep
<1>2. Spec => OnlySilenceWedges
  BY <1>1, TypeCorrect, PTL DEF Spec, OnlySilenceWedges
<1>3. AllReport => (Spec => []ProbeInFlight)
  <2> SUFFICES ASSUME AllReport PROVE Spec => []ProbeInFlight
    OBVIOUS
  <2>1. Init => ProbeInFlight
    BY LegProbing DEF Init, ProbeInFlight
  <2>2. TypeOK /\ ProbeInFlight /\ [Next]_vars => ProbeInFlight'
    <3> SUFFICES ASSUME TypeOK, ProbeInFlight, [Next]_vars, NEW b \in Breakers, leg'[b].probing
                 PROVE  \E d \in Callers : Probing(d, b)'
      BY DEF ProbeInFlight
    <3>1. \A c \in Callers : ~Unreported(c)
      BY DEF AllReport, Unreported, Cancel
    <3> QED BY <3>1, ProbeStep DEF ProbeInFlight
  <2> QED BY <2>1, <2>2, TypeCorrect, PTL DEF Spec
<1> QED BY <1>2, <1>3, PTL

-----------------------------------------------------------------------------
(* One probe at a time, where no call outlasts the cooldown.                *)

\* The invariant that is inductive, for one breaker: a half-open leg's calls in flight
\* are probes, a probe in flight holds the leg's claim, and there is one.
AdmissionOf(b) ==
    /\ leg[b].opened # "no" => leg[b].failures = Threshold
    /\ \A c \in Callers : Probing(c, b) => leg[b].probing /\ leg[b].opened = "cooled"
    /\ leg[b].opened = "cooled" =>
          \A c \in Callers : BreakerOf(c) = b /\ InCall(c) => caller[c].probe
    /\ \A c, d \in Callers : Probing(c, b) /\ Probing(d, b) => c = d

Admission == \A b \in Breakers \ Slow : AdmissionOf(b)

\* A leg that is open, or half-open, opens again on any failure.
LEMMA FailureLeaves ==
    ASSUME NEW l \in Leg, l.opened # "no" => l.failures = Threshold
    PROVE  /\ RecordFailure(l).opened \in {"no", "cooling"}
           /\ RecordFailure(l).opened # "no" => RecordFailure(l).failures = Threshold
BY ThresholdAssumption, SMT DEF RecordFailure, Leg

\* What a step leaves alone of one breaker it leaves admitted as it was.
LEMMA AdmissionFrame ==
    ASSUME TypeOK, NEW b \in Breakers, AdmissionOf(b),
           leg'[b].probing = leg[b].probing, leg'[b].opened = leg[b].opened,
           leg'[b].failures = leg[b].failures,
           \A c \in Callers : BreakerOf(c) = b /\ InCall(c)' => InCall(c) /\ caller'[c] = caller[c]
    PROVE  AdmissionOf(b)'
BY DEF AdmissionOf, Probing, BreakerOf

\* A breaker without a probe in flight, whose leg is not half-open, admits as it should.
LEMMA AdmissionFresh ==
    ASSUME NEW b \in Breakers, leg'[b].opened \in {"no", "cooling"},
           leg'[b].opened # "no" => leg'[b].failures = Threshold,
           \A c \in Callers : ~Probing(c, b)'
    PROVE  AdmissionOf(b)'
BY DEF AdmissionOf

\* Every step keeps what is said of the calls out in each state of a leg.
LEMMA AdmissionStep ==
    ASSUME TypeOK, Admission, [Next]_vars
    PROVE  Admission'
<1> SUFFICES ASSUME NEW b \in Breakers \ Slow PROVE AdmissionOf(b)'
  BY DEF Admission
<1>0. AdmissionOf(b) /\ leg[b] \in Leg
  BY DEF Admission, TypeOK
<1>1. ASSUME NEW c \in Callers, caller[c].at # "calling", Begin(c) PROVE AdmissionOf(b)'
  <2>1. CASE BreakerOf(c) # b
    BY <1>0, <1>1, <2>1, BeginEffect, ReportEffect, AdmissionFrame DEF Begin, InCall
  <2>2. CASE BreakerOf(c) = b /\ State(leg[b]) # "half_open"
    <3>1. leg[b].opened = "no"
      BY <1>0, <1>1, <2>2 DEF Begin, LegOf, Allows, State, Leg
    <3>2. leg'[b] = leg[b]
      BY <1>0, <1>1, <2>2, ReportEffect, ClaimedElsewhere DEF Begin, LegOf
    <3>3. \A d \in Callers : ~Probing(d, b)'
      BY <1>0, <1>1, <2>2, <3>1, BeginEffect DEF AdmissionOf, Probing, InCall, LegOf, BreakerOf
    <3> QED BY <3>1, <3>2, <3>3, AdmissionFresh
  <2>3. CASE BreakerOf(c) = b /\ State(leg[b]) = "half_open"
    <3>1. leg[b].opened = "cooled" /\ ~leg[b].probing
      BY <1>0, <1>1, <2>3 DEF Begin, LegOf, Allows, State, Leg
    <3>2. \A d \in Callers : BreakerOf(d) = b => ~InCall(d)
      BY <1>0, <3>1 DEF AdmissionOf, Probing
    <3>3. leg'[b] = Claimed(leg[b])
      BY <1>1, <2>3, ReportEffect DEF Begin, LegOf
    <3>4. leg'[b].probing /\ leg'[b].opened = leg[b].opened /\ leg'[b].failures = leg[b].failures
      BY <1>0, <2>3, <3>3 DEF Claimed, Leg
    <3>5. \A d \in Callers : BreakerOf(d) = b /\ InCall(d)' => d = c
      BY <1>1, <3>2, BeginEffect DEF InCall
    <3>6. caller'[c].probe
      BY <1>1, <2>3, BeginEffect DEF LegOf
    <3> QED BY <1>0, <3>1, <3>4, <3>5, <3>6 DEF AdmissionOf, Probing, BreakerOf
  <2> QED BY <2>1, <2>2, <2>3
<1>2. ASSUME NEW c \in Callers, AwaitSlot(c) \/ LeaveSlot(c) \/ (TakeSlot(c) /\ ~Begin(c))
      PROVE AdmissionOf(b)'
  <2>1. \A d \in Callers : InCall(d)' => InCall(d) /\ caller'[d] = caller[d]
    BY <1>2, SlotEffect DEF InCall
  <2> QED BY <1>0, <1>2, <2>1, SlotEffect, AdmissionFrame
<1>3. ASSUME NEW c \in Callers, Return(c), InCall(c),
             NEW new \in Leg, Report(c, new),
             \/ new = LegOf(c) \/ new = RecordSuccess
             \/ new = RecordFailure(LegOf(c)) \/ new = RecordFailure(RecordSuccess)
      PROVE AdmissionOf(b)'
  <2>1. \A d \in Callers : InCall(d)' => d # c /\ InCall(d) /\ caller'[d] = caller[d]
    BY <1>3, ReturnEffect DEF InCall
  <2>2. CASE leg'[b] = leg[b]
    BY <1>0, <2>1, <2>2, AdmissionFrame
  <2>3. CASE leg'[b] # leg[b]
    <3>1. BreakerOf(c) = b /\ leg'[b] = new /\ LegOf(c) = leg[b] /\ new # leg[b]
      BY <1>3, <2>3, ReportEffect DEF LegOf
    <3>2. /\ leg'[b].opened \in {"no", "cooling"}
          /\ leg'[b].opened # "no" => leg'[b].failures = Threshold
      BY <1>0, <1>3, <3>1, LegTyped, FailureLeaves DEF AdmissionOf, RecordSuccess, NewLeg
    <3>3. \A d \in Callers : ~Probing(d, b)'
      BY <1>0, <1>3, <2>1, <3>1 DEF AdmissionOf, Probing, BreakerOf
    <3> QED BY <3>2, <3>3, AdmissionFresh
  <2> QED BY <2>2, <2>3
<1>4. ASSUME NEW c \in Callers, Succeed(c) \/ Fail(c) \/ Invalid(c) \/ Cancel(c)
      PROVE AdmissionOf(b)'
  <2>1. Return(c) /\ InCall(c)
    BY <1>4 DEF Succeed, Fail, Invalid, Cancel, Return
  <2>2. \/ Report(c, LegOf(c)) \/ Report(c, RecordSuccess)
        \/ Report(c, RecordFailure(LegOf(c))) \/ Report(c, RecordFailure(RecordSuccess))
    BY <1>4 DEF Succeed, Fail, Invalid, Cancel
  <2> QED BY <1>3, <2>1, <2>2, LegOfTyped, LegTyped
<1>5. ASSUME NEW a \in Breakers, CooldownPasses(a) PROVE AdmissionOf(b)'
  <2>1. caller' = caller
    BY <1>5 DEF CooldownPasses
  <2>2. CASE a # b
    <3>1. leg'[b] = leg[b]
      BY <1>5, <2>2 DEF CooldownPasses, TypeOK
    <3> QED BY <1>0, <2>1, <3>1, AdmissionFrame DEF InCall
  <2>3. CASE a = b
    <3>1. leg'[b] = Cooled(leg[b]) /\ leg[b].opened = "cooling"
      BY <1>5, <2>3 DEF CooldownPasses, TypeOK
    <3>2. \A c \in Callers : BreakerOf(c) = b => ~InCall(c)
      BY <1>5, <2>3 DEF CooldownPasses
    <3>3. leg'[b].failures = Threshold
      BY <1>0, <3>1 DEF Cooled, Leg, AdmissionOf
    <3> QED BY <2>1, <3>2, <3>3 DEF AdmissionOf, Probing, InCall, BreakerOf
  <2> QED BY <2>2, <2>3
<1>6. CASE UNCHANGED vars \/ (\E a \in Breakers : Recover(a)) \/ \E c \in Callers : GoWithout(c)
  <2>1. leg' = leg /\ caller' = caller
    BY <1>6 DEF Recover, GoWithout, vars
  <2> QED BY <1>0, <2>1, AdmissionFrame DEF InCall
<1>7. ASSUME NEW c \in Callers, Call(c) \/ TakeSlot(c) PROVE AdmissionOf(b)'
  BY <1>1, <1>2, <1>7 DEF Call, TakeSlot
<1> QED BY <1>2, <1>4, <1>5, <1>6, <1>7, LegOfTyped DEF Next

\* allows(): half-open lets one caller through until it reports, for every number of
\* callers and every threshold, where no call outlasts the cooldown.
THEOREM ProbesOnce == Spec => []OneProbe
<1>1. Init => Admission
  BY DEF Init, Idle, InCall, NewLeg, Admission, AdmissionOf, Probing
<1>2. TypeOK /\ Admission /\ [Next]_vars => Admission'
  BY AdmissionStep
<1>3. Admission => OneProbe
  BY DEF Admission, AdmissionOf, OneProbe
<1> QED BY <1>1, <1>2, <1>3, TypeCorrect, PTL DEF Spec

-----------------------------------------------------------------------------
(* The chain of venues: type correctness. *)

Outcome == {"new", "answered", "exhausted", "refused"}
Walks == [Walkers -> [at: Outcome \cup {"calling"}, rung: Nat, probe: BOOLEAN]]
History == [Venues -> [calls: Nat, coolings: Nat]]

ChainTypeOK ==
    /\ circuit \in [Venues -> Leg]
    /\ walk \in Walks
    /\ since \in History
    /\ \A r \in Walkers : AtVenue(r) => walk[r].rung \in Rungs

\* A leg of the chain is a venue, and no venue is on it twice.
LEMMA RungTyped ==
    /\ \A k \in Rungs : k \in Nat \ {0} /\ Legs[k] \in Venues
    /\ \A k, l \in Rungs : Legs[k] = Legs[l] => k = l
<1>1. Legs \in Seq(Venues) /\ \A i, j \in DOMAIN Legs : Legs[i] = Legs[j] => i = j
  BY ChainAssumption
<1>2. QED
  BY <1>1 DEF Rungs

\* Ending a request changes that request only.
LEMMA EndEffect ==
    ASSUME ChainTypeOK, NEW r \in Walkers, NEW outcome \in Outcome, EndWalk(r, outcome)
    PROVE  /\ ~AtVenue(r)' /\ walk'[r].at = outcome
           /\ \A q \in Walkers : q # r => walk'[q] = walk[q]
           /\ walk' \in Walks
<1>1. walk'[r] = [at |-> outcome, rung |-> 0, probe |-> FALSE]
  BY DEF EndWalk, ChainTypeOK, Walks
<1>2. QED
  BY <1>1 DEF EndWalk, ChainTypeOK, AtVenue, Outcome, Walks

\* One call more is begun at a venue.
LEMMA CountedCall ==
    ASSUME since \in History, NEW u \in Venues,
           since' = [since EXCEPT ![u].calls = @ + 1]
    PROVE  /\ since' \in History
           /\ since'[u].calls = since[u].calls + 1
           /\ since'[u].coolings = since[u].coolings
           /\ \A v \in Venues : v # u => since'[v] = since[v]
  BY DEF History

\* Going on to a leg changes that city's walk, and claims that leg as it was granted.
LEMMA WalkEffect ==
    ASSUME ChainTypeOK, NEW r \in Walkers, NEW legs \in [Venues -> Leg], NEW i \in Nat,
           WalkFrom(r, legs, i)
    PROVE  /\ \A q \in Walkers : q # r => walk'[q] = walk[q]
           /\ walk' \in Walks /\ since' \in History
           /\ circuit' \in [Venues -> Leg]
           /\ \/ circuit' = legs /\ ~AtVenue(r)' /\ since' = since
              \/ \E k \in Rungs :
                    /\ k >= i /\ Allows(legs[Legs[k]])
                    /\ AtVenue(r)' /\ walk'[r].rung = k
                    /\ walk'[r].probe = (State(legs[Legs[k]]) = "half_open")
                    /\ circuit' = [legs EXCEPT ![Legs[k]] = Claimed(legs[Legs[k]])]
                    /\ since' = [since EXCEPT ![Legs[k]].calls = @ + 1]
<1>1. CASE circuit' = legs /\ EndWalk(r, "exhausted") /\ since' = since
  BY <1>1, EndEffect DEF Outcome, ChainTypeOK
<1>2. ASSUME NEW k \in Rungs, k >= i, Allows(legs[Legs[k]]),
             circuit' = [legs EXCEPT ![Legs[k]] = Claimed(legs[Legs[k]])],
             walk' = [walk EXCEPT ![r] =
                [at |-> "calling", rung |-> k, probe |-> State(legs[Legs[k]]) = "half_open"]],
             since' = [since EXCEPT ![Legs[k]].calls = @ + 1]
      PROVE  /\ \A q \in Walkers : q # r => walk'[q] = walk[q]
             /\ walk' \in Walks /\ since' \in History
             /\ circuit' \in [Venues -> Leg]
             /\ AtVenue(r)' /\ walk'[r].rung = k
             /\ walk'[r].probe = (State(legs[Legs[k]]) = "half_open")
  <2>1. walk'[r] = [at |-> "calling", rung |-> k,
                    probe |-> State(legs[Legs[k]]) = "half_open"]
    BY <1>2 DEF ChainTypeOK, Walks
  <2>2. k \in Nat /\ Legs[k] \in Venues /\ Claimed(legs[Legs[k]]) \in Leg
    BY RungTyped, LegTyped
  <2>3. circuit' \in [Venues -> Leg] /\ since' \in History
    BY <1>2, <2>2, CountedCall DEF ChainTypeOK
  <2>4. QED
    BY <1>2, <2>1, <2>2, <2>3 DEF ChainTypeOK, AtVenue, Walks
<1>3. QED
  BY <1>1, <1>2 DEF WalkFrom

\* What a request's report leaves of the legs.
LEMMA VenueOfTyped ==
    ASSUME ChainTypeOK, NEW r \in Walkers, AtVenue(r)
    PROVE  /\ VenueOf(r) \in Venues /\ walk[r].rung \in Rungs
           /\ circuit[VenueOf(r)] \in Leg
           /\ [circuit EXCEPT ![VenueOf(r)] = RecordFailure(circuit[VenueOf(r)])]
                 \in [Venues -> Leg]
<1>1. walk[r].rung \in Rungs /\ VenueOf(r) \in Venues
  BY RungTyped DEF ChainTypeOK, VenueOf
<1>2. QED
  BY <1>1, LegTyped DEF ChainTypeOK

\* Every step of the gateway keeps the types.
LEMMA ChainTypeStep == ASSUME ChainTypeOK, [ChainNext]_chainVars PROVE ChainTypeOK'
<1>1. ASSUME NEW r \in Walkers, walk' \in Walks, circuit' \in [Venues -> Leg],
             since' \in History,
             \A q \in Walkers : q # r => walk'[q] = walk[q],
             AtVenue(r)' => walk'[r].rung \in Rungs
      PROVE  ChainTypeOK'
  BY <1>1 DEF ChainTypeOK, AtVenue
<1>2. ASSUME NEW r \in Walkers, NEW legs \in [Venues -> Leg], NEW i \in Nat,
             WalkFrom(r, legs, i)
      PROVE  ChainTypeOK'
  <2>1. AtVenue(r)' => walk'[r].rung \in Rungs
    BY <1>2, WalkEffect, ZenonT(60)
  <2>2. /\ walk' \in Walks /\ circuit' \in [Venues -> Leg] /\ since' \in History
        /\ \A q \in Walkers : q # r => walk'[q] = walk[q]
    BY <1>2, WalkEffect, ZenonT(60)
  <2>3. QED
    BY <1>1, <2>1, <2>2
<1>3. ASSUME NEW r \in Walkers, StartWalk(r) PROVE ChainTypeOK'
  BY <1>2, <1>3 DEF StartWalk, ChainTypeOK
<1>4. ASSUME NEW r \in Walkers, Answer(r) PROVE ChainTypeOK'
  <2>1. circuit' \in [Venues -> Leg] /\ since' \in History
    BY <1>4, VenueOfTyped, LegTyped DEF Answer, ChainTypeOK, History, Unasked
  <2>2. QED
    BY <1>1, <1>4, <2>1, EndEffect DEF Answer, Outcome
<1>5. ASSUME NEW r \in Walkers, FallBack(r) PROVE ChainTypeOK'
  <2>1. walk[r].rung + 1 \in Nat
    BY <1>5, VenueOfTyped, RungTyped DEF FallBack
  <2>2. QED
    BY <1>2, <1>5, <2>1, VenueOfTyped DEF FallBack
<1>6. ASSUME NEW r \in Walkers, Refuse(r) PROVE ChainTypeOK'
  BY <1>1, <1>6, EndEffect DEF Refuse, Outcome, ChainTypeOK
<1>7. ASSUME NEW v \in Venues, VenueCools(v) PROVE ChainTypeOK'
  <2>1. since' \in History
    BY <1>7 DEF VenueCools, ChainTypeOK, History
  <2>2. QED
    BY <1>7, <2>1, LegTyped DEF VenueCools, ChainTypeOK, AtVenue
<1>8. CASE UNCHANGED chainVars
  BY <1>8 DEF chainVars, ChainTypeOK, AtVenue
<1>9. QED
  BY <1>3, <1>4, <1>5, <1>6, <1>7, <1>8 DEF ChainNext

\* The legs, the walks and the counts keep their shapes, and a city in a call is on a
\* configured leg of the chain.
THEOREM ChainTypeCorrect == ChainSpec => []ChainTypeOK
<1>1. ChainInit => ChainTypeOK
  BY LegTyped DEF ChainInit, ChainTypeOK, AtVenue, Outcome, Walks, History, Unasked
<1>2. ChainTypeOK /\ [ChainNext]_chainVars => ChainTypeOK'
  BY ChainTypeStep
<1>3. QED
  BY <1>1, <1>2, PTL DEF ChainSpec

-----------------------------------------------------------------------------
(* What one step does to one venue: nothing, a report, a grant, or time.    *)

Visits(r, v) == AtVenue(r) /\ VenueOf(r) = v

\* Whoever is at the venue after the step, r apart, was there before, and stays.
OthersStay(r, v) ==
    \A q \in Walkers : q # r => walk'[q] = walk[q] /\ (Visits(q, v)' <=> Visits(q, v))

\* A city elsewhere, or one whose call here is refused or cancelled.
QuietFor(r, v) ==
    /\ circuit'[v] = circuit[v]
    /\ since'[v] = since[v]
    /\ OthersStay(r, v)
    /\ ~Visits(r, v)' /\ walk[r].at # "refused"
    /\ Visits(r, v) => Refuse(r) /\ walk'[r].at = "refused"

ReportBy(r, v) ==
    /\ \/ circuit'[v] = RecordSuccess /\ since'[v] = Unasked
       \/ circuit'[v] = RecordFailure(circuit[v]) /\ since'[v] = since[v]
    /\ OthersStay(r, v)
    /\ Visits(r, v) /\ ~Visits(r, v)'

GrantTo(r, v) ==
    /\ Allows(circuit[v])
    /\ circuit'[v] = Claimed(circuit[v])
    /\ since'[v].calls = since[v].calls + 1 /\ since'[v].coolings = since[v].coolings
    /\ OthersStay(r, v)
    /\ ~Visits(r, v) /\ Visits(r, v)' /\ walk[r].at # "refused"
    /\ walk'[r].probe = (State(circuit[v]) = "half_open")

\* Requests that do not move stay where they are.
LEMMA StandStill ==
    ASSUME NEW r, NEW v, \A q \in Walkers : q # r => walk'[q] = walk[q]
    PROVE  OthersStay(r, v)
  BY DEF OthersStay, Visits, AtVenue, VenueOf

\* One step of a request, seen from one venue.
LEMMA WalkMoves ==
    ASSUME ChainTypeOK, NEW v \in Venues, NEW r \in Walkers,
           StartWalk(r) \/ Answer(r) \/ FallBack(r) \/ Refuse(r)
    PROVE  QuietFor(r, v) \/ ReportBy(r, v) \/ GrantTo(r, v)
<1>1. CASE Answer(r)
  <2>1. ~AtVenue(r)' /\ OthersStay(r, v)
    BY <1>1, EndEffect, StandStill DEF Answer, Outcome
  <2>2. /\ circuit'[v] = IF v = VenueOf(r) THEN RecordSuccess ELSE circuit[v]
        /\ since'[v] = IF v = VenueOf(r) THEN Unasked ELSE since[v]
    BY <1>1 DEF Answer, ChainTypeOK, History
  <2>3. QED
    BY <1>1, <2>1, <2>2 DEF Answer, QuietFor, ReportBy, Visits, AtVenue
<1>2. CASE Refuse(r)
  <2>1. /\ ~AtVenue(r)' /\ OthersStay(r, v) /\ walk'[r].at = "refused"
        /\ circuit' = circuit /\ since' = since
    BY <1>2, EndEffect, StandStill DEF Refuse, Outcome
  <2>2. AtVenue(r)
    BY <1>2 DEF Refuse
  <2>3. QED
    BY <1>2, <2>1, <2>2 DEF QuietFor, Visits, AtVenue
<1>3. CASE StartWalk(r)
  <2>0. /\ ~AtVenue(r) /\ walk[r].at # "refused"
        /\ WalkFrom(r, circuit, 1) /\ circuit \in [Venues -> Leg]
    BY <1>3 DEF StartWalk, ChainTypeOK, AtVenue
  <2>1. ~AtVenue(r) /\ walk[r].at # "refused" /\ OthersStay(r, v)
    <3>1. \A q \in Walkers : q # r => walk'[q] = walk[q]
      BY <2>0, WalkEffect
    <3>2. QED
      BY <2>0, <3>1, StandStill
  <2>2. CASE circuit' = circuit /\ ~AtVenue(r)' /\ since' = since
    BY <2>1, <2>2 DEF QuietFor, Visits
  <2>3. ASSUME NEW k \in Rungs, Allows(circuit[Legs[k]]), AtVenue(r)', walk'[r].rung = k,
               walk'[r].probe = (State(circuit[Legs[k]]) = "half_open"),
               circuit' = [circuit EXCEPT ![Legs[k]] = Claimed(circuit[Legs[k]])],
               since' = [since EXCEPT ![Legs[k]].calls = @ + 1]
        PROVE  QuietFor(r, v) \/ GrantTo(r, v)
    <3>1. VenueOf(r)' = Legs[k] /\ Legs[k] \in Venues
      BY <2>3, RungTyped DEF VenueOf
    <3>2. circuit'[v] = IF v = Legs[k] THEN Claimed(circuit[v]) ELSE circuit[v]
      BY <2>3, <3>1 DEF ChainTypeOK
    <3>3. IF v = Legs[k] THEN /\ since'[v].calls = since[v].calls + 1
                              /\ since'[v].coolings = since[v].coolings
                         ELSE since'[v] = since[v]
      BY <2>3, <3>1, CountedCall DEF ChainTypeOK
    <3>4. QED
      BY <2>1, <2>3, <3>1, <3>2, <3>3 DEF QuietFor, GrantTo, Visits
  <2>4. QED
    BY <2>0, <2>2, <2>3, WalkEffect
<1>4. CASE FallBack(r)
  <2> DEFINE v0 == VenueOf(r)
             legs == [circuit EXCEPT ![v0] = RecordFailure(circuit[v0])]
  <2>1. /\ AtVenue(r) /\ v0 \in Venues /\ walk[r].rung \in Rungs /\ legs \in [Venues -> Leg]
        /\ WalkFrom(r, legs, walk[r].rung + 1)
    BY <1>4, VenueOfTyped DEF FallBack
  <2>0. walk[r].at # "refused"
    BY <2>1 DEF AtVenue
  <2>2. walk[r].rung \in Nat /\ walk[r].rung + 1 \in Nat
    BY <2>1, RungTyped
  <2>3. OthersStay(r, v)
    <3> HIDE DEF legs, v0
    <3>1. \A q \in Walkers : q # r => walk'[q] = walk[q]
      BY <2>1, <2>2, WalkEffect
    <3>2. QED
      BY <3>1, StandStill
  <2>4. \A u \in Venues : legs[u] = IF u = v0 THEN RecordFailure(circuit[u]) ELSE circuit[u]
    BY <2>1 DEF ChainTypeOK
  <2>5. v0 = Legs[walk[r].rung]
    BY DEF VenueOf
  <2>6. Visits(r, v) <=> v = v0
    BY <2>1 DEF Visits
  <2> HIDE DEF legs, v0
  <2>7. CASE circuit' = legs /\ ~AtVenue(r)' /\ since' = since
    BY <2>0, <2>3, <2>4, <2>6, <2>7 DEF QuietFor, ReportBy, Visits
  <2>8. ASSUME NEW k \in Rungs, k >= walk[r].rung + 1, Allows(legs[Legs[k]]),
               AtVenue(r)', walk'[r].rung = k,
               walk'[r].probe = (State(legs[Legs[k]]) = "half_open"),
               circuit' = [legs EXCEPT ![Legs[k]] = Claimed(legs[Legs[k]])],
               since' = [since EXCEPT ![Legs[k]].calls = @ + 1]
        PROVE  QuietFor(r, v) \/ ReportBy(r, v) \/ GrantTo(r, v)
    <3>1. k # walk[r].rung /\ Legs[k] # v0 /\ Legs[k] \in Venues
      BY <2>1, <2>2, <2>5, <2>8, RungTyped
    <3>2. Visits(r, v)' <=> v = Legs[k]
      BY <2>8 DEF Visits, VenueOf
    <3>3. circuit'[v] = IF v = Legs[k] THEN Claimed(legs[v]) ELSE legs[v]
      BY <2>1, <2>8, <3>1
    <3>4. IF v = Legs[k] THEN /\ since'[v].calls = since[v].calls + 1
                              /\ since'[v].coolings = since[v].coolings
                         ELSE since'[v] = since[v]
      BY <2>8, <3>1, CountedCall DEF ChainTypeOK
    <3>5. CASE v = Legs[k]
      BY <2>0, <2>3, <2>4, <2>6, <2>8, <3>1, <3>2, <3>3, <3>4, <3>5 DEF GrantTo
    <3>6. CASE v # Legs[k]
      BY <2>0, <2>3, <2>4, <2>6, <3>2, <3>3, <3>4, <3>6 DEF QuietFor, ReportBy
    <3>7. QED
      BY <3>5, <3>6
  <2>9. QED
    BY <2>1, <2>2, <2>7, <2>8, WalkEffect
<1>5. QED
  BY <1>1, <1>2, <1>3, <1>4

-----------------------------------------------------------------------------
(* The chain: a venue's probe is in flight or was refused, and there is one. *)

\* A claim that some city holds ends with its call, reported or refused.
LEMMA VenueProbeStep ==
    ASSUME ChainTypeOK, [ChainNext]_chainVars, NEW v \in Venues,
           circuit'[v].probing, ~Orphaned(v)
    PROVE  \/ \E q \in Walkers : ProbesVenue(q, v)'
           \/ \E r \in Walkers : ProbesVenue(r, v) /\ Refuse(r)
<1>0. circuit[v] \in Leg
  BY DEF ChainTypeOK
<1>1. ASSUME circuit[v].probing, NEW r, OthersStay(r, v), \A q \in Walkers : ProbesVenue(q, v) => q # r
      PROVE  \E q \in Walkers : ProbesVenue(q, v)'
  <2>1. PICK q \in Walkers : ProbesVenue(q, v)
    BY <1>1 DEF Orphaned
  <2>2. q # r
    BY <1>1, <2>1
  <2>3. QED
    BY <1>1, <2>1, <2>2 DEF OthersStay, ProbesVenue, Visits
<1>2. ASSUME NEW r \in Walkers, StartWalk(r) \/ Answer(r) \/ FallBack(r) \/ Refuse(r)
      PROVE  (\E q \in Walkers : ProbesVenue(q, v)') \/ (ProbesVenue(r, v) /\ Refuse(r))
  <2>1. CASE QuietFor(r, v)
    <3>1. CASE ProbesVenue(r, v)
      BY <2>1, <3>1 DEF QuietFor, ProbesVenue, Visits
    <3>2. CASE ~ProbesVenue(r, v)
      BY <1>1, <2>1, <3>2 DEF QuietFor
    <3>3. QED
      BY <3>1, <3>2
  <2>2. CASE ReportBy(r, v)
    BY <1>0, <2>2, LegProbing DEF ReportBy
  <2>3. CASE GrantTo(r, v)
    <3>1. CASE State(circuit[v]) = "half_open"
      BY <2>3, <3>1 DEF GrantTo, ProbesVenue, Visits
    <3>2. CASE State(circuit[v]) # "half_open"
      <4>1. circuit'[v] = circuit[v]
        BY <1>0, <2>3, <3>2, ClaimedElsewhere DEF GrantTo
      <4>2. QED
        BY <1>1, <2>3, <4>1 DEF GrantTo, ProbesVenue, Visits
    <3>3. QED
      BY <3>1, <3>2
  <2>4. QED
    BY <1>2, <2>1, <2>2, <2>3, WalkMoves
<1>3. ASSUME UNCHANGED walk, circuit'[v].probing = circuit[v].probing
      PROVE  \E q \in Walkers : ProbesVenue(q, v)'
  BY <1>3 DEF Orphaned, ProbesVenue, AtVenue, VenueOf
<1>4. ASSUME NEW u \in Venues, VenueCools(u) PROVE \E q \in Walkers : ProbesVenue(q, v)'
  <2>1. circuit'[v].probing = circuit[v].probing
    BY <1>4, LegProbing DEF VenueCools, ChainTypeOK
  <2>2. QED
    BY <1>3, <1>4, <2>1 DEF VenueCools
<1>5. CASE UNCHANGED chainVars
  BY <1>3, <1>5 DEF chainVars
<1>6. QED
  BY <1>2, <1>4, <1>5 DEF ChainNext

\* Whatever the chain, the threshold and the number of cities, a venue whose probe some
\* city holds loses it in one way: that city's call is refused or cancelled.
THEOREM VenueProbeReports == ChainSpec => OnlyRefusalOrphans
<1>1. ChainTypeOK /\ [ChainNext]_chainVars =>
        [\A v \in Venues : Orphaned(v)' =>
            Orphaned(v) \/ \E r \in Walkers : ProbesVenue(r, v) /\ Refuse(r)]_chainVars
  <2> SUFFICES ASSUME ChainTypeOK, [ChainNext]_chainVars, NEW v \in Venues,
                      Orphaned(v)', ~Orphaned(v)
               PROVE  \E r \in Walkers : ProbesVenue(r, v) /\ Refuse(r)
    OBVIOUS
  <2>1. circuit'[v].probing /\ \A q \in Walkers : ~ProbesVenue(q, v)'
    BY DEF Orphaned
  <2>2. QED
    BY <2>1, VenueProbeStep
<1>2. QED
  BY <1>1, ChainTypeCorrect, PTL DEF ChainSpec, OnlyRefusalOrphans

\* The inductive invariant for one venue, as AdmissionOf is for one shared breaker.
VenueAdmits(v) ==
    /\ circuit[v].opened # "no" => circuit[v].failures = Threshold
    /\ \A r \in Walkers : ProbesVenue(r, v) => circuit[v].probing /\ circuit[v].opened = "cooled"
    /\ circuit[v].opened = "cooled" => \A r \in Walkers : Visits(r, v) => walk[r].probe
    /\ \A r, q \in Walkers : ProbesVenue(r, v) /\ ProbesVenue(q, v) => r = q

ChainAdmits == \A v \in Venues \ SlowVenues : VenueAdmits(v)

\* A venue whose leg is not half-open and where nobody probes admits as it should.
LEMMA VenueFresh ==
    ASSUME NEW v, circuit'[v].opened \in {"no", "cooling"},
           circuit'[v].opened # "no" => circuit'[v].failures = Threshold,
           \A r \in Walkers : ~ProbesVenue(r, v)'
    PROVE  VenueAdmits(v)'
  BY DEF VenueAdmits

\* A venue left alone, one request perhaps gone from it, admits as before.
LEMMA VenueFrame ==
    ASSUME NEW v, VenueAdmits(v), circuit'[v] = circuit[v],
           \A q \in Walkers : Visits(q, v)' => Visits(q, v) /\ walk'[q] = walk[q]
    PROVE  VenueAdmits(v)'
  BY DEF VenueAdmits, ProbesVenue, Visits

\* Every step keeps what is said of the calls out to a venue.
LEMMA VenueAdmitsStep ==
    ASSUME ChainTypeOK, ChainAdmits, [ChainNext]_chainVars
    PROVE  ChainAdmits'
<1> SUFFICES ASSUME NEW v \in Venues \ SlowVenues PROVE VenueAdmits(v)'
  BY DEF ChainAdmits
<1>0. VenueAdmits(v) /\ circuit[v] \in Leg
  BY DEF ChainAdmits, ChainTypeOK
<1>1. ASSUME NEW r \in Walkers, StartWalk(r) \/ Answer(r) \/ FallBack(r) \/ Refuse(r)
      PROVE  VenueAdmits(v)'
  <2>1. CASE QuietFor(r, v)
    BY <1>0, <2>1, VenueFrame DEF QuietFor, OthersStay
  <2>2. CASE ReportBy(r, v)
    <3>1. /\ circuit'[v].opened \in {"no", "cooling"}
          /\ circuit'[v].opened # "no" => circuit'[v].failures = Threshold
      BY <1>0, <2>2, FailureLeaves DEF ReportBy, VenueAdmits, RecordSuccess, NewLeg
    <3>2. ASSUME NEW q \in Walkers, ProbesVenue(q, v)' PROVE FALSE
      <4>1. q # r /\ ProbesVenue(q, v)
        BY <2>2, <3>2 DEF ReportBy, OthersStay, ProbesVenue, Visits
      <4>2. ProbesVenue(r, v)
        BY <1>0, <2>2, <4>1 DEF ReportBy, VenueAdmits, ProbesVenue, Visits
      <4>3. QED
        BY <1>0, <1>1, <4>1, <4>2 DEF VenueAdmits
    <3>3. QED
      BY <3>1, <3>2, VenueFresh
  <2>3. CASE GrantTo(r, v) /\ State(circuit[v]) # "half_open"
    <3>1. circuit[v].opened = "no"
      BY <1>0, <2>3 DEF GrantTo, Allows, State, Leg
    <3>2. circuit'[v] = circuit[v]
      BY <1>0, <2>3, ClaimedElsewhere DEF GrantTo
    <3>3. ~walk'[r].probe
      BY <2>3 DEF GrantTo
    <3>4. \A q \in Walkers : ~ProbesVenue(q, v)
      BY <1>0, <3>1 DEF VenueAdmits
    <3>5. \A q \in Walkers : ~ProbesVenue(q, v)'
      BY <2>3, <3>3, <3>4 DEF GrantTo, OthersStay, ProbesVenue, Visits
    <3>6. QED
      BY <3>1, <3>2, <3>5, VenueFresh
  <2>4. CASE GrantTo(r, v) /\ State(circuit[v]) = "half_open"
    <3>1. circuit[v].opened = "cooled" /\ ~circuit[v].probing
      BY <1>0, <2>4 DEF GrantTo, Allows, State, Leg
    <3>2. \A q \in Walkers : ~Visits(q, v)
      BY <1>0, <3>1 DEF VenueAdmits, ProbesVenue, Visits
    <3>3. \A q \in Walkers : Visits(q, v)' => q = r
      BY <2>4, <3>2 DEF GrantTo, OthersStay
    <3>4. walk'[r].probe
      BY <2>4 DEF GrantTo
    <3>5. /\ circuit'[v].probing /\ circuit'[v].opened = circuit[v].opened
          /\ circuit'[v].failures = circuit[v].failures
      BY <1>0, <2>4 DEF GrantTo, Claimed, Leg
    <3>6. QED
      BY <1>0, <3>1, <3>3, <3>4, <3>5 DEF VenueAdmits, ProbesVenue, Visits
  <2>5. QED
    BY <1>1, <2>1, <2>2, <2>3, <2>4, WalkMoves
<1>2. ASSUME NEW u \in Venues, VenueCools(u) PROVE VenueAdmits(v)'
  <2>1. walk' = walk
    BY <1>2 DEF VenueCools
  <2>2. CASE u # v
    <3>1. circuit'[v] = circuit[v]
      BY <1>2, <2>2 DEF VenueCools, ChainTypeOK
    <3>2. QED
      BY <1>0, <2>1, <3>1, VenueFrame DEF Visits, AtVenue, VenueOf
  <2>3. CASE u = v
    <3>1. circuit'[v] = Cooled(circuit[v]) /\ circuit[v].opened = "cooling"
      BY <1>2, <2>3 DEF VenueCools, ChainTypeOK
    <3>2. \A q \in Walkers : ~Visits(q, v)'
      BY <1>2, <2>1, <2>3 DEF VenueCools, Visits, AtVenue, VenueOf
    <3>3. circuit'[v].failures = Threshold
      BY <1>0, <3>1 DEF Cooled, Leg, VenueAdmits
    <3>4. QED
      BY <3>2, <3>3 DEF VenueAdmits, ProbesVenue, Visits
  <2>4. QED
    BY <2>2, <2>3
<1>3. CASE UNCHANGED chainVars
  <2>1. UNCHANGED <<circuit, walk>>
    BY <1>3 DEF chainVars
  <2>2. QED
    BY <1>0, <2>1, VenueFrame DEF Visits, AtVenue, VenueOf
<1>4. QED
  BY <1>1, <1>2, <1>3 DEF ChainNext

\* "HALF_OPEN admits exactly ONE caller": so it is of every venue whose calls end
\* within the cooldown, for any chain, threshold and number of requests.
THEOREM VenueProbesOnce == ChainSpec => []OneProbePerVenue
<1>1. ChainInit => ChainAdmits
  BY DEF ChainInit, ChainAdmits, VenueAdmits, NewLeg, ProbesVenue, Visits, AtVenue
<1>2. ChainTypeOK /\ ChainAdmits /\ [ChainNext]_chainVars => ChainAdmits'
  BY VenueAdmitsStep
<1>3. ChainAdmits => OneProbePerVenue
  BY DEF ChainAdmits, VenueAdmits, OneProbePerVenue
<1>4. QED
  BY <1>1, <1>2, <1>3, ChainTypeCorrect, PTL DEF ChainSpec

-----------------------------------------------------------------------------
(* What a run pays to a venue that answers nobody.                          *)

\* The cities whose call at v is under way, and those that call nobody any more.
Spent(v) == {r \in Walkers : Visits(r, v) \/ walk[r].at = "refused"}

\* The inductive invariant for one venue.  While its leg is closed, the calls begun
\* since its last answer were counted as failures, or are the spent cities' own; once
\* it has opened, each further call costs a cooldown, and a granted probe has used it.
CheapAt(v) ==
    /\ circuit[v].opened = "no" =>
          /\ circuit[v].failures < Threshold
          /\ since[v].calls <= circuit[v].failures + Cardinality(Spent(v))
    /\ circuit[v].opened # "no" =>
          /\ circuit[v].failures = Threshold
          /\ since[v].calls < Threshold + Cardinality(Walkers) + since[v].coolings
          /\ circuit[v].opened = "cooled" /\ ~circuit[v].probing =>
                since[v].calls + 1 < Threshold + Cardinality(Walkers) + since[v].coolings

Cheap == \A v \in Venues : CheapAt(v)

\* There are finitely many cities, and no more of them are spent.
LEMMA SpentFinite ==
    /\ IsFiniteSet(Walkers) /\ Cardinality(Walkers) \in Nat
    /\ \A v : /\ IsFiniteSet(Spent(v)) /\ Cardinality(Spent(v)) \in Nat
              /\ Cardinality(Spent(v)) <= Cardinality(Walkers)
<1>1. IsFiniteSet(Walkers) /\ Cardinality(Walkers) \in Nat
  BY ChainAssumption, FS_CardinalityType
<1>2. \A v : Spent(v) \in SUBSET Walkers
  BY DEF Spent
<1>3. QED
  BY <1>1, <1>2, FS_Subset, FS_CardinalityType

\* The same in the next state.
LEMMA SpentFiniteNext ==
    \A v : /\ IsFiniteSet(Spent(v)') /\ Cardinality(Spent(v)') \in Nat
          /\ Cardinality(Spent(v)') <= Cardinality(Walkers)
<1>1. \A v : Spent(v)' \in SUBSET Walkers
  BY DEF Spent
<1>2. QED
  BY <1>1, SpentFinite, FS_Subset, FS_CardinalityType

\* A city that leaves a venue takes at most itself from the spent ones, one that is
\* refused stays among them, and one that begins a call is added.
LEMMA SpentMoves ==
    ASSUME NEW v \in Venues, NEW r \in Walkers
    PROVE  /\ QuietFor(r, v) => Cardinality(Spent(v)) <= Cardinality(Spent(v)')
           /\ ReportBy(r, v) => Cardinality(Spent(v)) <= Cardinality(Spent(v)') + 1
           /\ GrantTo(r, v) => Cardinality(Spent(v)) + 1 <= Cardinality(Spent(v)')
<1>1. ASSUME QuietFor(r, v) PROVE Cardinality(Spent(v)) <= Cardinality(Spent(v)')
  <2>1. Spent(v) \in SUBSET (Spent(v)')
    BY <1>1 DEF QuietFor, OthersStay, Spent
  <2>2. QED
    BY <2>1, SpentFiniteNext, FS_Subset
<1>2. ASSUME ReportBy(r, v) PROVE Cardinality(Spent(v)) <= Cardinality(Spent(v)') + 1
  <2>1. Spent(v) \ {r} \in SUBSET (Spent(v)')
    BY <1>2 DEF ReportBy, OthersStay, Spent
  <2>2. Cardinality(Spent(v) \ {r}) <= Cardinality(Spent(v)')
    BY <2>1, SpentFiniteNext, FS_Subset
  <2>3. Cardinality(Spent(v) \ {r}) = IF r \in Spent(v) THEN Cardinality(Spent(v)) - 1
                                                        ELSE Cardinality(Spent(v))
    BY SpentFinite, FS_RemoveElement
  <2>4. QED
    BY <2>2, <2>3, SpentFinite, SpentFiniteNext
<1>3. ASSUME GrantTo(r, v) PROVE Cardinality(Spent(v)) + 1 <= Cardinality(Spent(v)')
  <2>1. Spent(v) \cup {r} \in SUBSET (Spent(v)') /\ r \notin Spent(v)
    BY <1>3 DEF GrantTo, OthersStay, Spent
  <2>2. Cardinality(Spent(v) \cup {r}) <= Cardinality(Spent(v)')
    BY <2>1, SpentFiniteNext, FS_Subset
  <2>3. Cardinality(Spent(v) \cup {r}) = Cardinality(Spent(v)) + 1
    BY <2>1, SpentFinite, FS_AddElement
  <2>4. QED
    BY <2>2, <2>3
<1>4. QED
  BY <1>1, <1>2, <1>3

\* A failure opens the leg, or is counted.
LEMMA FailureCounts ==
    ASSUME NEW l \in Leg
    PROVE  /\ RecordFailure(l).opened \in {"cooling", l.opened}
           /\ RecordFailure(l).opened = "cooling" \/ l.failures + 1 < Threshold
           /\ l.failures + 1 < Threshold =>
                 RecordFailure(l).failures = l.failures + 1 /\ RecordFailure(l).opened = l.opened
           /\ l.failures + 1 >= Threshold => RecordFailure(l).failures = Threshold
  BY ThresholdAssumption, SMT DEF RecordFailure, Leg

\* Every step keeps the price of every venue.
LEMMA CheapStep == ASSUME ChainTypeOK, Cheap, [ChainNext]_chainVars PROVE Cheap'
<1> SUFFICES ASSUME NEW v \in Venues PROVE CheapAt(v)'
  BY DEF Cheap
<1> DEFINE T == Threshold
           N == Cardinality(Walkers)
           S == Cardinality(Spent(v))
           Z == Cardinality(Spent(v)')
<1>0. CheapAt(v) /\ circuit[v] \in Leg /\ since[v] \in [calls: Nat, coolings: Nat]
  BY DEF Cheap, ChainTypeOK, History
<1>1. /\ S \in Nat /\ Z \in Nat /\ N \in Nat /\ S <= N /\ T \in Nat \ {0}
      /\ circuit[v].failures \in Nat /\ since[v].calls \in Nat /\ since[v].coolings \in Nat
  BY <1>0, SpentFinite, SpentFiniteNext, ThresholdAssumption DEF Leg
<1>2. ASSUME NEW r \in Walkers, StartWalk(r) \/ Answer(r) \/ FallBack(r) \/ Refuse(r)
      PROVE  CheapAt(v)'
  <2>1. CASE QuietFor(r, v)
    <3>1. circuit'[v] = circuit[v] /\ since'[v] = since[v] /\ S <= Z
      BY <2>1, SpentMoves DEF QuietFor
    <3>2. QED
      BY <1>0, <1>1, <3>1 DEF CheapAt
  <2>2. CASE ReportBy(r, v) /\ circuit'[v] = RecordSuccess /\ since'[v] = Unasked
    BY <1>1, <2>2 DEF CheapAt, RecordSuccess, NewLeg, Unasked
  <2>3. CASE ReportBy(r, v) /\ circuit'[v] = RecordFailure(circuit[v]) /\ since'[v] = since[v]
    <3>1. S <= Z + 1
      BY <2>3, SpentMoves
    <3>2. CASE circuit[v].failures + 1 < T
      <4>1. circuit'[v].opened = "no" /\ circuit'[v].failures = circuit[v].failures + 1
        BY <1>0, <1>1, <2>3, <3>2, FailureCounts DEF CheapAt
      <4>2. since'[v].calls <= circuit[v].failures + 1 + Z
        BY <1>0, <1>1, <2>3, <3>1, <4>1, <3>2, FailureCounts DEF CheapAt
      <4>3. QED
        BY <3>2, <4>1, <4>2 DEF CheapAt
    <3>3. CASE circuit[v].failures + 1 >= T
      <4>1. circuit'[v].opened = "cooling" /\ circuit'[v].failures = T
        BY <1>0, <1>1, <2>3, <3>3, FailureCounts
      <4>2. since[v].calls < T + N + since[v].coolings
        BY <1>0, <1>1 DEF CheapAt
      <4>3. QED
        BY <2>3, <4>1, <4>2 DEF CheapAt
    <3>4. QED
      BY <1>1, <3>2, <3>3
  <2>4. CASE GrantTo(r, v)
    <3>1. /\ S + 1 <= Z /\ circuit'[v] = Claimed(circuit[v]) /\ Allows(circuit[v])
          /\ since'[v].calls = since[v].calls + 1 /\ since'[v].coolings = since[v].coolings
      BY <2>4, SpentMoves DEF GrantTo
    <3>2. CASE circuit[v].opened = "no"
      <4>1. circuit'[v] = circuit[v]
        BY <1>0, <3>1, <3>2, ClaimedElsewhere DEF State
      <4>2. QED
        BY <1>0, <1>1, <3>1, <3>2, <4>1 DEF CheapAt
    <3>3. CASE circuit[v].opened # "no"
      <4>1. circuit[v].opened = "cooled" /\ ~circuit[v].probing
        BY <1>0, <3>1, <3>3 DEF Allows, State, Leg
      <4>2. /\ circuit'[v].probing /\ circuit'[v].opened = circuit[v].opened
            /\ circuit'[v].failures = circuit[v].failures
        BY <1>0, <3>1, <4>1 DEF Claimed, State, Leg
      <4>3. QED
        BY <1>0, <1>1, <3>1, <4>1, <4>2 DEF CheapAt
    <3>4. QED
      BY <3>2, <3>3
  <2>5. QED
    BY <1>2, <2>1, <2>2, <2>3, <2>4, WalkMoves DEF ReportBy
<1>3. ASSUME UNCHANGED walk, circuit'[v] = circuit[v], since'[v] = since[v] PROVE CheapAt(v)'
  <2>1. Spent(v)' = Spent(v)
    BY <1>3 DEF Spent, Visits, AtVenue, VenueOf
  <2>2. QED
    BY <1>0, <1>3, <2>1 DEF CheapAt
<1>4. ASSUME NEW u \in Venues, VenueCools(u) PROVE CheapAt(v)'
  <2>1. CASE u # v
    BY <1>3, <1>4, <2>1 DEF VenueCools, ChainTypeOK, History
  <2>2. CASE u = v
    <3>1. /\ circuit'[v] = Cooled(circuit[v]) /\ circuit[v].opened = "cooling"
          /\ since'[v].calls = since[v].calls /\ since'[v].coolings = since[v].coolings + 1
      BY <1>4, <2>2 DEF VenueCools, ChainTypeOK, History
    <3>2. circuit'[v].opened = "cooled" /\ circuit'[v].failures = circuit[v].failures
      BY <1>0, <3>1 DEF Cooled, Leg
    <3>3. QED
      BY <1>0, <1>1, <3>1, <3>2 DEF CheapAt
  <2>3. QED
    BY <2>1, <2>2
<1>5. CASE UNCHANGED chainVars
  BY <1>3, <1>5 DEF chainVars
<1>6. QED
  BY <1>2, <1>4, <1>5 DEF ChainNext

\* For any chain, threshold and number of cities: until a venue answers again, a run
\* begins at most the threshold's calls there, one for each other city whose call was
\* on its way when the leg opened, and one per cooldown that has passed.
THEOREM DeadVenuesAreCheap == ChainSpec => []DeadVenueIsCheap
<1>1. ChainInit => Cheap
  <2> SUFFICES ASSUME ChainInit, NEW v \in Venues PROVE CheapAt(v)
    BY DEF Cheap
  <2>1. circuit[v] = NewLeg /\ since[v] = Unasked
    BY DEF ChainInit
  <2>2. QED
    BY <2>1, SpentFinite, ThresholdAssumption DEF CheapAt, NewLeg, Unasked
<1>2. ChainTypeOK /\ Cheap /\ [ChainNext]_chainVars => Cheap'
  BY CheapStep
<1>3. ChainTypeOK /\ Cheap => DeadVenueIsCheap
  <2> SUFFICES ASSUME ChainTypeOK, Cheap, NEW v \in Venues
               PROVE  since[v].calls <= Threshold + Cardinality(Walkers) - 1 + since[v].coolings
    BY DEF DeadVenueIsCheap
  <2>1. /\ CheapAt(v) /\ circuit[v].failures \in Nat
        /\ since[v].calls \in Nat /\ since[v].coolings \in Nat
    BY DEF Cheap, ChainTypeOK, History, Leg
  <2>2. QED
    BY <2>1, SpentFinite, ThresholdAssumption DEF CheapAt
<1>4. QED
  BY <1>1, <1>2, <1>3, ChainTypeCorrect, PTL DEF ChainSpec

=============================================================================
