------------------------- MODULE RunLifecycle_proofs --------------------------
(***************************************************************************)
(* Proofs about RunLifecycle for any runs, deliveries and retry budget.    *)
(***************************************************************************)
EXTENDS RunLifecycle, TLAPS

\* What the assumption says of the bounds and the null message.
LEMMA Bounds == MaxRetries \in Nat /\ MaxCrashes \in Nat /\ NoMsg \notin Msg
  BY LifecycleAssumption

\* The first attempt and the first crash are within the bounds.
LEMMA FirstAttempt == 0 \in 0..MaxRetries /\ 0 \in 0..MaxCrashes
  BY Bounds

\* An attempt that is not the last leaves room for another.
LEMMA NextAttempt ==
    ASSUME NEW n \in 0..MaxRetries, n # MaxRetries
    PROVE  n < MaxRetries /\ n + 1 \in 0..MaxRetries
  BY Bounds

\* So does a crash.
LEMMA NextCrash ==
    ASSUME NEW n \in 0..MaxCrashes, n < MaxCrashes
    PROVE  n + 1 \in 0..MaxCrashes
  BY Bounds

-----------------------------------------------------------------------------
(* Type correctness, under every fault. *)

\* Moving a busy delivery to another program point keeps the slots well typed.
LEMMA MoveType ==
    ASSUME TypeOK, NEW s \in Slots, Busy(s), NEW pc \in SlotPC \ {"idle"},
           NEW seen \in Status, Move(s, pc, seen)
    PROVE  /\ slot' \in [Slots -> Slot]
           /\ \A t \in Slots : slot'[t].pc # "idle" <=> slot'[t].msg \in Msg
<1>1. /\ slot \in [Slots -> Slot]
      /\ \A t \in Slots : slot[t].pc # "idle" <=> slot[t].msg \in Msg
      /\ slot[s].msg \in Msg
  BY DEF TypeOK, Busy
<1>2. [pc |-> pc, msg |-> slot[s].msg, seen |-> seen] \in Slot
  BY <1>1 DEF Slot
<1>3. QED
  BY <1>1, <1>2 DEF Move

\* ... and changes nothing but that delivery's program point and what it read.
LEMMA MoveEffect ==
    ASSUME TypeOK, NEW s \in Slots, NEW pc, NEW seen, Move(s, pc, seen), NEW t \in Slots
    PROVE  /\ slot'[t].msg = slot[t].msg
           /\ slot'[t].pc = IF t = s THEN pc ELSE slot[t].pc
  BY DEF TypeOK, Move

\* Emptying a slot, or filling it with a message, keeps the slots well typed.
LEMMA FillType ==
    ASSUME TypeOK, NEW s \in Slots, NEW new \in Slot,
           new.pc # "idle" <=> new.msg \in Msg,
           slot' = [slot EXCEPT ![s] = new]
    PROVE  /\ slot' \in [Slots -> Slot]
           /\ \A t \in Slots : slot'[t].pc # "idle" <=> slot'[t].msg \in Msg
  BY DEF TypeOK, Busy

\* The final attempt is never retried: what keeps a published retry a message.
RetryBudget ==
    \A s \in Slots : slot[s].pc = "retrying" => slot[s].msg.retries < MaxRetries

\* The message a retry publishes is one: its attempt is within the budget.
LEMMA RetryMsg ==
    ASSUME TypeOK, RetryBudget, NEW s \in Slots, slot[s].pc = "retrying", NEW c \in Copies
    PROVE  [run |-> RunOf(s), retries |-> slot[s].msg.retries + 1, copy |-> c] \in Msg
<1>1. slot[s].msg \in Msg
  BY DEF TypeOK, Busy
<1>2. slot[s].msg.retries \in 0..MaxRetries /\ slot[s].msg.retries < MaxRetries
  BY <1>1 DEF RetryBudget, Msg
<1>3. slot[s].msg.retries + 1 \in 0..MaxRetries
  BY <1>2, Bounds
<1>4. QED
  BY <1>1, <1>3 DEF Msg, RunOf

\* A busy delivery holds a message, and so names a run.
LEMMA BusyRun ==
    ASSUME TypeOK, NEW s \in Slots, Busy(s)
    PROVE  slot[s].msg \in Msg /\ RunOf(s) \in Runs /\ slot[s] \in Slot
  BY DEF TypeOK, Busy, RunOf, Msg

\* An idle slot is a slot and holds no message.
LEMMA IdleSlotType == IdleSlot \in Slot /\ IdleSlot.msg \notin Msg /\ IdleSlot.pc = "idle"
  BY Bounds DEF IdleSlot, Slot, SlotPC, Status

\* An UPDATE, attempted or not, leaves rows well typed.
LEMMA UpdateType ==
    ASSUME TypeOK, NEW r \in Runs, NEW seen \in Status, NEW status \in Status,
           NEW error \in {"none", "dispatch", "run", "orphan"}, NEW result \in BOOLEAN,
           \/ Update(r, seen, status, error, result)
           \/ StaleUpdate(r, seen, status, error, result)
           \/ FailedUpdate(r, seen, status, error, result)
    PROVE  row' \in [Runs -> Row] /\ aged' \in SUBSET Runs
<1>1. CASE UNCHANGED <<row, aged>>
  BY <1>1 DEF TypeOK
<1>2. CASE Update(r, seen, status, error, result)
  <2>1. row[r] \in Row
    BY DEF TypeOK
  <2>2. Written(r, seen, status, error, result) \in Row
    BY <2>1 DEF Written, Row
  <2>3. QED
    BY <1>2, <2>2 DEF Update, TypeOK
<1>3. QED
  BY <1>1, <1>2 DEF StaleUpdate, FailedUpdate

\* The steps of the API keep the state well typed.
LEMMA ApiType == ASSUME TypeOK, NEW r \in Runs, Api(r) PROVE TypeOK'
<1> USE DEF TypeOK, Busy
<1>0. ASSUME NEW pc \in ApiPC, NEW seen \in Status, ApiGoto(r, pc, seen)
      PROVE  api' \in [Runs -> [pc: ApiPC, seen: Status]]
  BY <1>0 DEF ApiGoto
<1>01. \A pc \in {"dispatching", "gaveup", "closing", "over"} : pc \in ApiPC
  BY DEF ApiPC
<1>02. "absent" \in Status
  BY DEF Status
<1>1. CASE CreateRun(r)
  <2>1. [status |-> "queued", error |-> "none", result |-> FALSE] \in Row
    BY DEF Row, Status, Open
  <2>2. row' \in [Runs -> Row]
    BY <1>1, <2>1 DEF CreateRun
  <2>3. api' \in [Runs -> [pc: ApiPC, seen: Status]]
    BY <1>1, <1>0, <1>01, <1>02 DEF CreateRun
  <2>4. QED
    BY <1>1, <2>2, <2>3 DEF CreateRun
<1>2. CASE SendLands(r)
  <2>2. \A c \in Copies : [run |-> r, retries |-> 0, copy |-> c] \in Msg
    BY FirstAttempt DEF Msg
  <2>3. queued' \in SUBSET Msg
    BY <1>2, <2>2 DEF SendLands
  <2>4. QED
    BY <1>2, <2>3 DEF SendLands
<1>3. CASE SendFails(r)
  BY <1>3 DEF SendFails
<1>4. CASE DispatchReturns(r)
  BY <1>4, <1>0, <1>01, <1>02 DEF DispatchReturns
<1>5. CASE DispatchGivesUp(r)
  BY <1>5, <1>0, <1>01, <1>02 DEF DispatchGivesUp
<1>6. CASE DispatchLoads(r)
  <2>1. row[r].status \in Status
    BY DEF Row
  <2>2. QED
    BY <1>6, <2>1, <1>0, <1>01, <1>02 DEF DispatchLoads
<1>7. CASE DispatchMarksFailed(r)
  <2>1. api[r].seen \in Status /\ "failed" \in Status
    BY DEF Status, Terminal
  <2>2. row' \in [Runs -> Row] /\ aged' \in SUBSET Runs
    BY <1>7, <2>1, UpdateType DEF DispatchMarksFailed
  <2>3. QED
    BY <1>7, <2>2, <1>0, <1>01, <1>02 DEF DispatchMarksFailed
<1>8. CASE ApiCrash(r)
  <2>1. sender' \in [Runs -> {"none", "sending", "landed", "failed"}]
    BY <1>8 DEF ApiCrash
  <2>2. api' \in [Runs -> [pc: ApiPC, seen: Status]]
    BY <1>8, <1>0, <1>01, <1>02 DEF ApiCrash
  <2>3. QED
    BY <1>8, <2>1, <2>2 DEF ApiCrash
<1>9. QED
  BY <1>1, <1>2, <1>3, <1>4, <1>5, <1>6, <1>7, <1>8 DEF Api

\* A task's own steps keep the state well typed.
LEMMA TaskType ==
    ASSUME TypeOK, RetryBudget, NEW s \in Slots, TaskStep(s) \/ Abandon(s)
    PROVE  TypeOK'
<1>1. Busy(s)
  BY DEF TaskStep, Abandon, Busy, ClaimPC, SavedPC, Receive, GetRun, LoadToMarkRunning,
         MarkRunning, Execute, LoadToMarkSucceeded, MarkSucceeded, Announce,
         LoadToMarkFailed, MarkFailed, PublishRetry, Ack
<1>2. RunOf(s) \in Runs /\ slot[s] \in Slot /\ slot[s].msg \in Msg
  BY <1>1, BusyRun
<1>3. row[RunOf(s)].status \in Status /\ slot[s].seen \in Status
  BY <1>2 DEF TypeOK, Row, Slot
<1> DEFINE PC == SlotPC \ {"idle"}
           SlotsOK == /\ slot' \in [Slots -> Slot]
                      /\ \A t \in Slots : slot'[t].pc # "idle" <=> slot'[t].msg \in Msg
<1>4. ASSUME NEW pc \in PC, Goto(s, pc) PROVE SlotsOK
  BY <1>1, <1>4, MoveType DEF Goto, Status
<1>5. ASSUME NEW pc \in PC, Loaded(s, pc) PROVE SlotsOK
  BY <1>1, <1>3, <1>5, MoveType DEF Loaded
<1>6. ASSUME Escapes(s) PROVE SlotsOK
  BY <1>4, <1>6 DEF Escapes, SlotPC
<1>7. ASSUME Caught(s) PROVE SlotsOK
  BY <1>4, <1>7 DEF Caught, SlotPC, ClaimPC, SavedPC
<1>8. ASSUME SlotsOK, row' \in [Runs -> Row], aged' \in SUBSET Runs, UNCHANGED taskFrame
      PROVE  TypeOK'
  BY <1>8 DEF TypeOK, Busy, taskFrame
<1>9. ASSUME SlotsOK, UNCHANGED <<row, aged, taskFrame>> PROVE TypeOK'
  BY <1>8, <1>9 DEF TypeOK
<1>10. CASE GetRun(s)
  <2>1. SlotsOK
    BY <1>10, <1>4, <1>6 DEF GetRun, SlotPC, ClaimPC, SavedPC
  <2>2. QED
    BY <1>10, <2>1, <1>9 DEF GetRun
<1>11. CASE LoadToMarkRunning(s)
  <2>1. SlotsOK
    BY <1>11, <1>5, <1>6 DEF LoadToMarkRunning, SlotPC, ClaimPC, SavedPC
  <2>2. QED
    BY <1>11, <2>1, <1>9 DEF LoadToMarkRunning
<1>12. CASE MarkRunning(s)
  <2>1. SlotsOK
    BY <1>12, <1>4, <1>6 DEF MarkRunning, SlotPC, ClaimPC, SavedPC
  <2>2. row' \in [Runs -> Row] /\ aged' \in SUBSET Runs
    BY <1>12, <1>2, <1>3, UpdateType DEF MarkRunning, Status, Open
  <2>3. QED
    BY <1>12, <2>1, <2>2, <1>8 DEF MarkRunning
<1>13. CASE Execute(s)
  <2>1. SlotsOK
    BY <1>13, <1>4, <1>7 DEF Execute, SlotPC, ClaimPC, SavedPC
  <2>2. QED
    BY <1>13, <2>1, <1>9 DEF Execute
<1>14. CASE Abandon(s)
  <2>1. SlotsOK
    BY <1>14, <1>4 DEF Abandon, SlotPC
  <2>2. QED
    BY <1>14, <2>1, <1>9 DEF Abandon
<1>15. CASE LoadToMarkSucceeded(s)
  <2>1. SlotsOK
    BY <1>15, <1>4, <1>5, <1>7 DEF LoadToMarkSucceeded, SlotPC, ClaimPC, SavedPC
  <2>2. QED
    BY <1>15, <2>1, <1>9 DEF LoadToMarkSucceeded
<1>16. CASE MarkSucceeded(s)
  <2>1. SlotsOK
    BY <1>16, <1>4, <1>7, Zenon DEF MarkSucceeded, SlotPC, ClaimPC, SavedPC
  <2>2. row' \in [Runs -> Row] /\ aged' \in SUBSET Runs
    BY <1>16, <1>2, <1>3, UpdateType DEF MarkSucceeded, Status, Terminal
  <2>3. QED
    BY <1>16, <2>1, <2>2, <1>8 DEF MarkSucceeded
<1>17. CASE LoadToMarkFailed(s)
  <2>1. SlotsOK
    BY <1>17, <1>5, <1>6 DEF LoadToMarkFailed, SlotPC, ClaimPC, SavedPC
  <2>2. QED
    BY <1>17, <2>1, <1>9 DEF LoadToMarkFailed
<1>18. CASE MarkFailed(s)
  <2>1. SlotsOK
    BY <1>18, <1>4, <1>6 DEF MarkFailed, SlotPC, ClaimPC, SavedPC
  <2>2. row' \in [Runs -> Row] /\ aged' \in SUBSET Runs
    BY <1>18, <1>2, <1>3, UpdateType DEF MarkFailed, Status, Terminal
  <2>3. QED
    BY <1>18, <2>1, <2>2, <1>8 DEF MarkFailed
<1>19. CASE PublishRetry(s)
  <2>1. SlotsOK
    BY <1>19, <1>4 DEF PublishRetry, SlotPC
  <2>2. queued' \in SUBSET Msg
    <3>1. queued \in SUBSET Msg
      BY DEF TypeOK
    <3>2. \A c \in Copies :
             [run |-> RunOf(s), retries |-> slot[s].msg.retries + 1, copy |-> c] \in Msg
      BY <1>19, RetryMsg DEF PublishRetry
    <3>3. \/ queued' = queued
          \/ \E c \in Copies :
                queued' = queued \cup {[run |-> RunOf(s),
                                       retries |-> slot[s].msg.retries + 1, copy |-> c]}
      BY <1>19, Zenon DEF PublishRetry
    <3>4. QED
      BY <3>1, <3>2, <3>3
  <2>3. QED
    BY <1>19, <2>1, <2>2 DEF PublishRetry, TypeOK, Busy
<1>20. CASE Ack(s)
  <2>1. SlotsOK
    BY <1>20, FillType, IdleSlotType DEF Ack
  <2>2. QED
    BY <1>20, <2>1 DEF Ack, TypeOK, Busy
<1>21. CASE Receive(s)
  <2>1. slot' = [slot EXCEPT ![s] = [slot[s] EXCEPT !.pc = "fetched"]]
    BY <1>21 DEF Receive, TypeOK
  <2>2. /\ [slot[s] EXCEPT !.pc = "fetched"] \in Slot
        /\ [slot[s] EXCEPT !.pc = "fetched"].pc = "fetched"
        /\ [slot[s] EXCEPT !.pc = "fetched"].msg = slot[s].msg
    BY <1>2 DEF Slot, SlotPC
  <2>3. SlotsOK
    BY <1>2, <2>1, <2>2, FillType
  <2>4. QED
    BY <1>2, <1>21, <2>3 DEF Receive, TypeOK, Busy
<1>22. CASE Announce(s)
  <2>1. SlotsOK
    BY <1>22, <1>4 DEF Announce, SlotPC, ClaimPC, SavedPC
  <2>2. QED
    BY <1>22, <2>1, <1>9 DEF Announce
<1>23. QED
  BY <1>10, <1>11, <1>12, <1>13, <1>14, <1>15, <1>16, <1>17, <1>18, <1>19, <1>20, <1>21,
     <1>22 DEF TaskStep

\* Only an attempt that is not the final one heads for a retry.
LEMMA BudgetStep == ASSUME TypeOK, RetryBudget, [Next]_vars PROVE RetryBudget'
<1>1. SUFFICES ASSUME NEW t \in Slots, slot'[t].pc = "retrying"
               PROVE  slot'[t].msg.retries < MaxRetries
  BY DEF RetryBudget
<1>2. CASE slot'[t] = slot[t]
  BY <1>1, <1>2 DEF RetryBudget
<1>3. ASSUME NEW s \in Slots, Busy(s), Escapes(s) \/ Caught(s)
      PROVE  slot'[t].msg.retries < MaxRetries
  <2>1. slot[s].msg.retries # MaxRetries => slot[s].msg.retries < MaxRetries
    BY <1>3, BusyRun, NextAttempt DEF Msg
  <2>2. CASE Final(s)
    <3>1. Goto(s, "acking") \/ Goto(s, "failing")
      BY <1>3, <2>2 DEF Escapes, Caught
    <3>2. QED
      BY <1>1, <3>1, MoveEffect DEF Goto, RetryBudget
  <2>3. CASE ~Final(s)
    <3>1. Goto(s, "retrying")
      BY <1>3, <2>3 DEF Escapes, Caught
    <3>2. QED
      BY <1>1, <2>1, <2>3, <3>1, MoveEffect DEF Goto, RetryBudget, Final
  <2>4. QED
    BY <2>2, <2>3
<1>4. ASSUME NEW s \in Slots, NEW new \in Slot, new.pc # "retrying",
             slot' = [slot EXCEPT ![s] = new]
      PROVE  slot'[t].msg.retries < MaxRetries
  BY <1>1, <1>2, <1>4 DEF TypeOK
<1>5. ASSUME NEW s \in Slots, NEW pc \in SlotPC \ {"retrying"}, Goto(s, pc) \/ Loaded(s, pc)
      PROVE  slot'[t].msg.retries < MaxRetries
  BY <1>1, <1>5, MoveEffect DEF Goto, Loaded, RetryBudget
<1>6. CASE UNCHANGED slot
  BY <1>2, <1>6
<1>7. ASSUME NEW s \in Slots, TaskStep(s) \/ Abandon(s)
      PROVE  slot'[t].msg.retries < MaxRetries
  <2>1. CASE GetRun(s) \/ LoadToMarkRunning(s) \/ MarkRunning(s)
    BY <2>1, <1>3, <1>5 DEF GetRun, LoadToMarkRunning, MarkRunning, Busy, SlotPC, ClaimPC, SavedPC
  <2>2. CASE Execute(s) \/ LoadToMarkSucceeded(s) \/ MarkSucceeded(s)
    BY <2>2, <1>3, <1>5 DEF Execute, LoadToMarkSucceeded, MarkSucceeded, Busy, SlotPC, ClaimPC, SavedPC
  <2>3. CASE LoadToMarkFailed(s) \/ MarkFailed(s) \/ Abandon(s)
    BY <2>3, <1>3, <1>5 DEF LoadToMarkFailed, MarkFailed, Abandon, Busy, SlotPC, ClaimPC, SavedPC
  <2>4. CASE PublishRetry(s)
    BY <2>4, <1>5 DEF PublishRetry, SlotPC
  <2>5. CASE Ack(s)
    BY <2>5, <1>4, IdleSlotType DEF Ack
  <2>6. CASE Receive(s)
    <3>1. slot'[t] = slot[t] \/ slot'[t].pc = "fetched"
      BY <2>6 DEF Receive, TypeOK, Slot
    <3>2. QED
      BY <1>1, <1>2, <3>1
  <2>7. CASE Announce(s)
    <3>1. CASE ~Final(s) /\ Goto(s, "retrying")
      <4>1. Escapes(s)
        BY <3>1 DEF Escapes
      <4>2. QED
        BY <1>3, <2>7, <4>1 DEF Announce, Busy
    <3>2. CASE Goto(s, "acking") \/ Goto(s, "interrupted")
      BY <3>2, <1>5 DEF SlotPC, ClaimPC, SavedPC
    <3>3. QED
      BY <2>7, <3>1, <3>2 DEF Announce
  <2>8. QED
    BY <1>7, <2>1, <2>2, <2>3, <2>4, <2>5, <2>6, <2>7 DEF TaskStep
<1>8. ASSUME NEW s \in Slots, WorkerCrash(s) \/ \E m \in Msg : Pop(s, m)
      PROVE  slot'[t].msg.retries < MaxRetries
  <2>1. \A m \in Msg : [pc |-> "popped", msg |-> m, seen |-> "absent"] \in Slot
    BY DEF Slot, SlotPC, Status
  <2>2. QED
    BY <1>8, <1>4, <2>1, IdleSlotType DEF WorkerCrash, Pop
<1>9. CASE UNCHANGED vars \/ Reconcile \/ \E r \in Runs : Api(r) \/ Age(r)
  BY <1>9, <1>6 DEF vars, Reconcile, ReadQueue, ReadUnacked, CloseOrphans, PassEnds,
     reconcilerFrame, Age, Api, CreateRun, SendLands, SendFails, DispatchReturns,
     DispatchGivesUp, DispatchLoads, DispatchMarksFailed, ApiCrash
<1>10. CASE \/ \E u \in Tenants : EraseTenant(u)
            \/ \E m \in Msg : Restore(m) \/ RestoreEarly(m)
  BY <1>10, <1>6 DEF EraseTenant, Restore, RestoreEarly
<1>11. QED
  BY <1>7, <1>8, <1>9, <1>10 DEF Next

\* Every step keeps the state well typed.
LEMMA TypeStep == ASSUME TypeOK, RetryBudget, [Next]_vars PROVE TypeOK'
<1>1. CASE UNCHANGED vars
  BY <1>1 DEF vars, TypeOK, Busy
<1>2. ASSUME NEW s \in Slots, TaskStep(s) \/ Abandon(s) PROVE TypeOK'
  BY <1>2, TaskType
<1>3. ASSUME NEW s \in Slots, NEW m \in Msg, Pop(s, m) PROVE TypeOK'
  <2>1. [pc |-> "popped", msg |-> m, seen |-> "absent"] \in Slot
    BY DEF Slot, SlotPC, Status
  <2>2. /\ slot' \in [Slots -> Slot]
        /\ \A t \in Slots : slot'[t].pc # "idle" <=> slot'[t].msg \in Msg
    BY <1>3, <2>1, FillType DEF Pop
  <2>3. QED
    BY <1>3, <2>2 DEF Pop, TypeOK, Busy
<1>4. ASSUME NEW s \in Slots, WorkerCrash(s) PROVE TypeOK'
  <2>1. /\ slot' \in [Slots -> Slot]
        /\ \A t \in Slots : slot'[t].pc # "idle" <=> slot'[t].msg \in Msg
    BY <1>4, IdleSlotType, FillType DEF WorkerCrash
  <2>2. crashes' \in 0..MaxCrashes
    BY <1>4, NextCrash DEF WorkerCrash, TypeOK
  <2>3. QED
    BY <1>4, <2>1, <2>2 DEF WorkerCrash, TypeOK, Busy
<1>5. ASSUME NEW m \in Msg, Restore(m) \/ RestoreEarly(m) PROVE TypeOK'
  <2>1. crashes' \in 0..MaxCrashes
    BY <1>5, NextCrash DEF Restore, RestoreEarly, TypeOK
  <2>2. QED
    BY <1>5, <2>1 DEF Restore, RestoreEarly, TypeOK, Busy
<1>6. ASSUME NEW u \in Tenants, EraseTenant(u) PROVE TypeOK'
  <2>1. NoRow \in Row
    BY DEF NoRow, Row, Status
  <2>2. QED
    BY <1>6, <2>1 DEF EraseTenant, TypeOK, Busy
<1>7. ASSUME NEW r \in Runs, Age(r) PROVE TypeOK'
  BY <1>7 DEF Age, reconcilerFrame, TypeOK, Busy
<1>8. CASE Reconcile
  <2>1. CASE CloseOrphans
    <3>1. \A r \in Runs :
             [status |-> "failed", error |-> "orphan", result |-> row[r].result] \in Row
      BY DEF TypeOK, Row, Status, Terminal
    <3>2. row' \in [Runs -> Row]
      BY <2>1, <3>1 DEF CloseOrphans, TypeOK
    <3>3. QED
      BY <2>1, <3>2 DEF CloseOrphans, reconcilerFrame, TypeOK, Busy
  <2>2. CASE ReadQueue \/ ReadUnacked \/ PassEnds
    BY <2>2 DEF ReadQueue, ReadUnacked, PassEnds, reconcilerFrame, TypeOK, Busy
  <2>3. QED
    BY <1>8, <2>1, <2>2 DEF Reconcile
<1>9. QED
  BY <1>1, <1>2, <1>3, <1>4, <1>5, <1>6, <1>7, <1>8, ApiType DEF Next

\* Type correctness: rows, requests, queues and deliveries keep their types, and no
\* retry goes beyond _MAX_INFRA_RETRIES, whatever faults the environment produces.
THEOREM TypeCorrect == Spec => [](TypeOK /\ RetryBudget)
<1>1. Init => TypeOK /\ RetryBudget
  BY IdleSlotType, FirstAttempt
     DEF Init, TypeOK, RetryBudget, NoRow, Row, Status, ApiPC, IdleSlot, Busy
<1>2. TypeOK /\ RetryBudget /\ [Next]_vars => (TypeOK /\ RetryBudget)'
  BY TypeStep, BudgetStep
<1>3. QED
  BY <1>1, <1>2, PTL DEF Spec

-----------------------------------------------------------------------------
(* One execution at a time, and a result that stays, without the four faults. *)

\* What the store of a popped message does to the slots.
LEMMA ReceiveMoves ==
    ASSUME TypeOK, NEW s \in Slots, Receive(s)
    PROVE  /\ slot[s].pc = "popped" /\ slot'[s].pc = "fetched"
           /\ \A t \in Slots : slot'[t].msg = slot[t].msg
           /\ \A t \in Slots : t # s => slot'[t] = slot[t]
           /\ \A t \in Slots : Busy(t)' <=> Busy(t)
           /\ unacked' = unacked \cup {slot[s].msg}
           /\ UNCHANGED <<row, aged, api, sender, queued, reconciler, crashes>>
<1>1. slot' = [slot EXCEPT ![s] = [slot[s] EXCEPT !.pc = "fetched"]] /\ slot[s] \in Slot
  BY DEF Receive, TypeOK
<1>2. \A t \in Slots : slot'[t] = IF t = s THEN [slot[s] EXCEPT !.pc = "fetched"]
                                  ELSE slot[t]
  BY <1>1 DEF TypeOK
<1>3. /\ [slot[s] EXCEPT !.pc = "fetched"].pc = "fetched"
      /\ [slot[s] EXCEPT !.pc = "fetched"].msg = slot[s].msg
  BY <1>1 DEF Slot
<1>4. slot[s].pc = "popped"
  BY DEF Receive
<1>5. \A t \in Slots : Busy(t)' <=> Busy(t)
  BY <1>2, <1>3, <1>4 DEF Busy
<1>6. QED
  BY <1>2, <1>3, <1>4, <1>5 DEF Receive

\* A task's step moves the one delivery it is about.
LEMMA OthersStand ==
    ASSUME TypeOK, NEW s \in Slots, TaskStep(s) \/ Abandon(s), NEW t \in Slots, t # s
    PROVE  slot'[t] = slot[t]
<1>1. ASSUME NEW new, slot' = [slot EXCEPT ![s] = new] PROVE slot'[t] = slot[t]
  BY <1>1 DEF TypeOK
<1>2. ASSUME NEW pc, Goto(s, pc) \/ Loaded(s, pc) PROVE slot'[t] = slot[t]
  BY <1>2, <1>1 DEF Goto, Loaded, Move
<1>3. ASSUME Escapes(s) \/ Caught(s) PROVE slot'[t] = slot[t]
  BY <1>3, <1>2 DEF Escapes, Caught
<1>4. CASE GetRun(s) \/ LoadToMarkRunning(s) \/ MarkRunning(s) \/ Execute(s) \/ Abandon(s)
  BY <1>4, <1>2, <1>3 DEF GetRun, LoadToMarkRunning, MarkRunning, Execute, Abandon
<1>5. CASE \/ LoadToMarkSucceeded(s) \/ MarkSucceeded(s) \/ Announce(s)
           \/ LoadToMarkFailed(s) \/ MarkFailed(s)
  BY <1>5, <1>2, <1>3 DEF LoadToMarkSucceeded, MarkSucceeded, Announce, LoadToMarkFailed,
                          MarkFailed
<1>6. CASE PublishRetry(s) \/ Ack(s)
  BY <1>6, <1>1, <1>2 DEF PublishRetry, Ack
<1>7. CASE Receive(s)
  BY <1>7, ReceiveMoves
<1>8. QED
  BY <1>4, <1>5, <1>6, <1>7 DEF TaskStep

\* A message in play is one.
LEMMA InPlayMsg == ASSUME TypeOK PROVE InPlay \subseteq Msg
<1>1. Held \subseteq Msg
  BY DEF TypeOK, Held, Busy
<1>2. QED
  BY <1>1 DEF InPlay, TypeOK

\* While no slot changes what it holds, what is held stays.
LEMMA HeldStays ==
    ASSUME \A t \in Slots : slot'[t].msg = slot[t].msg,
           \A t \in Slots : Busy(t)' <=> Busy(t)
    PROVE  Held' = Held
  BY DEF Held

Unsaved == ClaimPC \ SavedPC

\* The steps of a task that neither touch the queue nor the hash: a move of one
\* delivery, which claims its run only if it did already or found it open.
LEMMA TaskMoves ==
    ASSUME TypeOK, NEW s \in Slots, TaskStep(s) \/ Abandon(s),
           ~Receive(s), ~PublishRetry(s), ~Ack(s)
    PROVE  /\ slot[s].pc \notin {"idle", "popped", "requeued"}
           /\ slot'[s].pc \notin {"idle", "popped", "requeued"}
           /\ \A t \in Slots : slot'[t].msg = slot[t].msg
           /\ \A t \in Slots : t # s => slot'[t].pc = slot[t].pc
           /\ slot'[s].pc \in ClaimPC => \/ slot[s].pc \in ClaimPC
                                         \/ row[RunOf(s)].status \in Open
           /\ slot'[s].pc \in Unsaved => \/ slot[s].pc \in Unsaved
                                         \/ row[RunOf(s)].status \in Open
           /\ UNCHANGED taskFrame
<1> USE DEF SavedPC, Unsaved
<1> DEFINE Moved == /\ slot'[s].pc \notin {"idle", "popped", "requeued"}
                    /\ \A t \in Slots : slot'[t].msg = slot[t].msg
                    /\ \A t \in Slots : t # s => slot'[t].pc = slot[t].pc
<1>1. ASSUME NEW pc \in SlotPC \ {"idle", "popped", "requeued"}, Goto(s, pc) \/ Loaded(s, pc)
      PROVE  Moved /\ slot'[s].pc = pc
  BY <1>1, MoveEffect DEF Goto, Loaded
<1>2. ASSUME Escapes(s) PROVE Moved /\ slot'[s].pc \notin ClaimPC
  <2>1. Goto(s, "acking") \/ Goto(s, "retrying")
    BY <1>2 DEF Escapes
  <2>2. QED
    BY <2>1, <1>1 DEF SlotPC, ClaimPC
<1>3. ASSUME Caught(s) PROVE Moved
  <2>1. Goto(s, "failing") \/ Goto(s, "retrying")
    BY <1>3 DEF Caught
  <2>2. QED
    BY <2>1, <1>1 DEF SlotPC, ClaimPC
<1>4. CASE GetRun(s)
  BY <1>4, <1>1, <1>2 DEF GetRun, SlotPC, ClaimPC
<1>5. CASE LoadToMarkRunning(s) \/ MarkRunning(s)
  BY <1>5, <1>1, <1>2 DEF LoadToMarkRunning, MarkRunning, SlotPC, ClaimPC
<1>6. CASE Execute(s) \/ LoadToMarkSucceeded(s)
  BY <1>6, <1>1, <1>3 DEF Execute, LoadToMarkSucceeded, SlotPC, ClaimPC
<1>7. CASE MarkSucceeded(s)
  <2>1. Goto(s, "saved") \/ Goto(s, "failing") \/ Caught(s)
    BY <1>7, Zenon DEF MarkSucceeded
  <2>2. QED
    BY <1>7, <2>1, <1>1, <1>3 DEF MarkSucceeded, SlotPC, ClaimPC
<1>8. CASE LoadToMarkFailed(s)
  <2>1. \/ Goto(s, "acking") \/ Escapes(s) \/ Loaded(s, "acking")
        \/ Loaded(s, "closing") /\ slot[s].pc = "failing"
        \/ Loaded(s, "undoing") /\ slot[s].pc = "interrupted"
    BY <1>8 DEF LoadToMarkFailed
  <2>2. QED
    BY <1>8, <2>1, <1>1, <1>2 DEF LoadToMarkFailed, SlotPC, ClaimPC
<1>9. CASE MarkFailed(s)
  <2>1. Goto(s, "acking") \/ Escapes(s)
    BY <1>9, Zenon DEF MarkFailed
  <2>2. QED
    BY <1>9, <2>1, <1>1, <1>2 DEF MarkFailed, SlotPC, ClaimPC
<1>10. CASE Announce(s)
  BY <1>10, <1>1 DEF Announce, SlotPC, ClaimPC
<1>11. CASE Abandon(s)
  BY <1>11, <1>1 DEF Abandon, SlotPC, ClaimPC
<1>12. QED
  BY <1>4, <1>5, <1>6, <1>7, <1>8, <1>9, <1>10, <1>11 DEF TaskStep

\* What a task does to the table, whatever the faults: it writes its own row only,
\* and only while it claims it.
LEMMA TaskWritesOwn ==
    ASSUME TypeOK, NEW s \in Slots, TaskStep(s) \/ Abandon(s), NEW r \in Runs,
           row'[r] # row[r]
    PROVE  r = RunOf(s) /\ slot[s].pc \in ClaimPC
<1>1. CASE UNCHANGED row
  BY <1>1
<1>2. ASSUME NEW seen, NEW status, NEW error, NEW result,
             \/ Update(RunOf(s), seen, status, error, result)
             \/ StaleUpdate(RunOf(s), seen, status, error, result)
             \/ FailedUpdate(RunOf(s), seen, status, error, result)
      PROVE  r = RunOf(s)
  <2>1. \/ UNCHANGED row
        \/ row' = [row EXCEPT ![RunOf(s)] = Written(RunOf(s), seen, status, error, result)]
    BY <1>2 DEF Update, StaleUpdate, FailedUpdate
  <2>2. QED
    BY <1>1, <2>1 DEF TypeOK
<1>3. CASE MarkRunning(s)
  BY <1>2, <1>3 DEF MarkRunning, ClaimPC
<1>4. CASE MarkSucceeded(s)
  BY <1>2, <1>4 DEF MarkSucceeded, ClaimPC
<1>5. CASE MarkFailed(s)
  BY <1>2, <1>5 DEF MarkFailed, ClaimPC, SavedPC
<1>6. CASE \/ Receive(s) \/ GetRun(s) \/ LoadToMarkRunning(s) \/ Execute(s) \/ Abandon(s)
           \/ LoadToMarkSucceeded(s) \/ Announce(s) \/ LoadToMarkFailed(s)
           \/ PublishRetry(s) \/ Ack(s)
  BY <1>6, <1>1 DEF Receive, GetRun, LoadToMarkRunning, Execute, Abandon,
                    LoadToMarkSucceeded, Announce, LoadToMarkFailed, PublishRetry, Ack
<1>7. QED
  BY <1>3, <1>4, <1>5, <1>6 DEF TaskStep

\* Without faults, it is past its COMMIT once it has written `succeeded`.
LEMMA TaskSucceeds ==
    ASSUME TypeOK, Faults = {}, NEW s \in Slots, TaskStep(s) \/ Abandon(s), NEW r \in Runs,
           row[r].status # "succeeded", row'[r].status = "succeeded"
    PROVE  MarkSucceeded(s) /\ slot'[s].pc = "saved"
<1>1. ASSUME NEW seen, NEW status, NEW error, NEW result, status # "succeeded"
      PROVE  ~Update(RunOf(s), seen, status, error, result)
  <2>1. SUFFICES ASSUME Update(RunOf(s), seen, status, error, result),
                        row' = [row EXCEPT ![RunOf(s)] =
                                   Written(RunOf(s), seen, status, error, result)]
                 PROVE  FALSE
    BY DEF Update
  <2>2. Written(RunOf(s), seen, status, error, result).status \in {row[RunOf(s)].status, status}
    BY DEF Written
  <2>3. QED
    BY <1>1, <2>1, <2>2 DEF TypeOK
<1>2. ASSUME NEW seen, NEW status, NEW error, NEW result
      PROVE  /\ ~StaleUpdate(RunOf(s), seen, status, error, result)
             /\ ~FailedUpdate(RunOf(s), seen, status, error, result)
  BY DEF StaleUpdate, FailedUpdate
<1>3. ~MarkRunning(s) /\ ~MarkFailed(s)
  BY <1>1, <1>2 DEF MarkRunning, MarkFailed
<1>4. ~(\/ Receive(s) \/ GetRun(s) \/ LoadToMarkRunning(s) \/ Execute(s) \/ Abandon(s)
        \/ LoadToMarkSucceeded(s) \/ Announce(s) \/ LoadToMarkFailed(s)
        \/ PublishRetry(s) \/ Ack(s))
  BY DEF Receive, GetRun, LoadToMarkRunning, Execute, Abandon, LoadToMarkSucceeded, Announce,
         LoadToMarkFailed, PublishRetry, Ack
<1>5. MarkSucceeded(s)
  BY <1>3, <1>4 DEF TaskStep
<1>6. Goto(s, "saved")
  BY <1>2, <1>5 DEF MarkSucceeded
<1>7. QED
  BY <1>5, <1>6, MoveEffect DEF Goto

\* What is held after a slot is filled or emptied.
LEMMA HeldMoves ==
    ASSUME TypeOK, NEW s \in Slots, \A t \in Slots : t # s => slot'[t] = slot[t]
    PROVE  /\ Busy(s)' => Held' \subseteq Held \cup {slot'[s].msg}
           /\ ~Busy(s)' => Held' \subseteq Held
           /\ Held \subseteq Held' \cup {slot[s].msg}
           /\ ~Busy(s) => Held \subseteq Held'
  BY DEF Held, Busy

\* One live message per run, preserved by a task's own steps.
LEMMA TaskKeepsOneLive ==
    ASSUME TypeOK, RetryBudget, OneLiveMessage, NEW s \in Slots, TaskStep(s) \/ Abandon(s)
    PROVE  OneLiveMessage'
<1>1. ASSUME \A t \in Slots : slot'[t].msg = slot[t].msg,
             \A t \in Slots : /\ slot'[t].pc # "idle" <=> slot[t].pc # "idle"
                              /\ slot'[t].pc = "popped" <=> slot[t].pc = "popped"
                              /\ slot'[t].pc = "requeued" <=> slot[t].pc = "requeued",
             UNCHANGED <<queued, unacked, sender>>
      PROVE  OneLiveMessage'
  <2>1. Held' = Held /\ \A t \in Slots : Busy(t)' <=> Busy(t)
    BY <1>1, HeldStays DEF Busy
  <2>2. \A m : Spent(m)' <=> Spent(m)
    BY <1>1 DEF Spent
  <2>3. QED
    BY <1>1, <2>1, <2>2 DEF OneLiveMessage, InPlay
<1>2. CASE ~Receive(s) /\ ~PublishRetry(s) /\ ~Ack(s)
  <2>1. /\ slot[s].pc \notin {"idle", "popped", "requeued"}
        /\ slot'[s].pc \notin {"idle", "popped", "requeued"}
        /\ \A t \in Slots : slot'[t].msg = slot[t].msg
        /\ \A t \in Slots : t # s => slot'[t].pc = slot[t].pc
        /\ UNCHANGED <<queued, unacked, sender>>
    BY <1>2, TaskMoves DEF taskFrame
  <2>2. QED
    BY <1>1, <2>1
<1>3. CASE Receive(s)
  <2>1. /\ slot[s].pc = "popped" /\ slot'[s].pc = "fetched"
        /\ \A t \in Slots : slot'[t].msg = slot[t].msg
        /\ \A t \in Slots : t # s => slot'[t] = slot[t]
        /\ \A t \in Slots : Busy(t)' <=> Busy(t)
        /\ unacked' = unacked \cup {slot[s].msg}
        /\ UNCHANGED <<sender, queued>>
    BY <1>3, ReceiveMoves
  <2>2. Held' = Held /\ slot[s].msg \in Held
    BY <2>1, HeldStays DEF Held, Busy
  <2>3. \A m : Spent(m)' <=> Spent(m)
    BY <2>1 DEF Spent
  <2>4. ASSUME NEW t \in Slots, Busy(t)'
        PROVE  slot'[t].msg \in unacked' <=> slot'[t].pc # "popped"
    <3>1. CASE t = s
      BY <2>1, <3>1
    <3>2. CASE t # s
      <4>1. slot[t].msg # slot[s].msg
        BY <2>1, <2>4, <3>2 DEF OneLiveMessage, Busy
      <4>2. QED
        BY <2>1, <2>4, <3>2, <4>1 DEF OneLiveMessage
    <3>3. QED
      BY <3>1, <3>2
  <2>5. queued' \cap (unacked' \cup Held') = {} /\ InPlay' = InPlay
    BY <2>1, <2>2 DEF OneLiveMessage, InPlay
  <2>6. QED
    BY <2>1, <2>3, <2>4, <2>5 DEF OneLiveMessage
<1>4. CASE PublishRetry(s)
  <2>1. CASE Goto(s, "acking") /\ UNCHANGED <<queued, unacked, sender>>
    <3>1. slot[s].pc = "retrying"
      BY <1>4 DEF PublishRetry
    <3>2. /\ \A t \in Slots : slot'[t].msg = slot[t].msg
          /\ \A t \in Slots : slot'[t].pc = IF t = s THEN "acking" ELSE slot[t].pc
      BY <2>1, MoveEffect DEF Goto
    <3>3. QED
      BY <1>1, <2>1, <3>1, <3>2
  <2>2. ASSUME NEW c \in Copies,
               [run |-> RunOf(s), retries |-> slot[s].msg.retries + 1, copy |-> c]
                  \notin queued \cup unacked \cup Held,
               queued' = queued \cup
                  {[run |-> RunOf(s), retries |-> slot[s].msg.retries + 1, copy |-> c]},
               Goto(s, "requeued")
        PROVE  OneLiveMessage'
    <3> DEFINE m1 == [run |-> RunOf(s), retries |-> slot[s].msg.retries + 1, copy |-> c]
    <3> HIDE DEF m1
    <3>1. m1 \notin InPlay /\ queued' = queued \cup {m1} /\ m1.run = RunOf(s)
      BY <2>2 DEF m1, InPlay
    <3>2. unacked' = unacked /\ sender' = sender /\ slot[s].pc = "retrying"
      BY <1>4 DEF PublishRetry
    <3>3. /\ \A t \in Slots : slot'[t].msg = slot[t].msg
          /\ \A t \in Slots : slot'[t].pc = IF t = s THEN "requeued" ELSE slot[t].pc
      BY <2>2, MoveEffect DEF Goto
    <3>4. \A t \in Slots : Busy(t)' <=> Busy(t)
      BY <3>2, <3>3 DEF Busy
    <3>5. Held' = Held /\ InPlay' = InPlay \cup {m1}
      BY <3>1, <3>2, <3>3, <3>4, HeldStays DEF InPlay
    <3>6. slot[s].msg \in InPlay /\ ~Spent(slot[s].msg)
      BY <3>2 DEF OneLiveMessage, Busy, Spent, InPlay, Held
    <3>7. \A m : Spent(m)' <=> Spent(m) \/ m = slot[s].msg
      BY <3>2, <3>3 DEF Spent
    <3>8. \A m \in InPlay : m.run = RunOf(s) => Spent(m)'
      BY <3>6, <3>7 DEF OneLiveMessage, RunOf
    <3>9. \A m, n \in InPlay' : m.run = n.run /\ ~Spent(m)' /\ ~Spent(n)' => m = n
      BY <3>1, <3>5, <3>7, <3>8 DEF OneLiveMessage
    <3>10. \A m \in InPlay' : sender'[m.run] = "landed"
      BY <3>1, <3>2, <3>5, <3>6 DEF OneLiveMessage, RunOf
    <3>11. queued' \cap (unacked' \cup Held') = {}
      BY <3>1, <3>2, <3>5 DEF OneLiveMessage, InPlay
    <3>12. \A t \in Slots : Busy(t)' => (slot'[t].msg \in unacked' <=> slot'[t].pc # "popped")
      BY <3>2, <3>3, <3>4 DEF OneLiveMessage
    <3>13. \A t, u \in Slots : Busy(t)' /\ Busy(u)' /\ slot'[t].msg = slot'[u].msg => t = u
      BY <3>3, <3>4 DEF OneLiveMessage
    <3>14. QED
      BY <3>9, <3>10, <3>11, <3>12, <3>13 DEF OneLiveMessage
  <2>3. QED
    BY <1>4, <2>1, <2>2 DEF PublishRetry
<1>5. CASE Ack(s)
  <2>1. /\ unacked' = unacked \ {slot[s].msg}
        /\ queued' = queued /\ sender' = sender
        /\ slot[s].pc \in {"requeued", "acking"}
    BY <1>5 DEF Ack
  <2>2. /\ \A t \in Slots : t # s => slot'[t] = slot[t]
        /\ slot'[s].pc = "idle"
    BY <1>5 DEF Ack, TypeOK, IdleSlot
  <2>3. \A t \in Slots : Busy(t)' <=> Busy(t) /\ t # s
    BY <2>1, <2>2 DEF Busy
  <2>4. Held' \subseteq Held /\ slot[s].msg \notin Held' /\ InPlay' \subseteq InPlay
    <3>1. Held' \subseteq Held
      BY <2>2, <2>3, HeldMoves
    <3>2. \A t \in Slots : t # s /\ Busy(t) => slot[t].msg # slot[s].msg
      BY <2>1 DEF OneLiveMessage, Busy
    <3>3. slot[s].msg \notin Held'
      BY <2>2, <2>3, <3>2 DEF Held
    <3>4. QED
      BY <2>1, <3>1, <3>3 DEF InPlay
  <2>5. slot[s].msg \notin InPlay'
    BY <2>1, <2>4 DEF InPlay, OneLiveMessage, Held, Busy
  <2>6. \A m \in InPlay' : Spent(m)' <=> Spent(m)
    BY <2>2, <2>5 DEF Spent
  <2>7. \A t \in Slots : Busy(t)' => (slot'[t].msg \in unacked' <=> slot'[t].pc # "popped")
    BY <2>1, <2>2, <2>3 DEF OneLiveMessage, Busy
  <2>8. \A t, u \in Slots : Busy(t)' /\ Busy(u)' /\ slot'[t].msg = slot'[u].msg => t = u
    BY <2>2, <2>3 DEF OneLiveMessage
  <2>9. queued' \cap (unacked' \cup Held') = {}
    BY <2>1, <2>4 DEF OneLiveMessage
  <2>10. QED
    BY <2>1, <2>4, <2>6, <2>7, <2>8, <2>9 DEF OneLiveMessage
<1>6. QED
  BY <1>2, <1>3, <1>4, <1>5

\* One live message per run, preserved by every step when no fault is possible.
LEMMA OneLiveStep ==
    ASSUME TypeOK, RetryBudget, OneLiveMessage, WritersFindItOpen, Faults = {}, [Next]_vars
    PROVE  OneLiveMessage'
<1>1. CASE UNCHANGED <<queued, unacked, sender, slot>>
  <2>1. Held' = Held /\ InPlay' = InPlay
    BY <1>1 DEF Held, Busy, InPlay
  <2>2. QED
    BY <1>1, <2>1 DEF OneLiveMessage, Spent, Busy
<1>2. ASSUME NEW s \in Slots, TaskStep(s) \/ Abandon(s) PROVE OneLiveMessage'
  BY <1>2, TaskKeepsOneLive
<1>3. ASSUME NEW s \in Slots, NEW m \in Msg, Pop(s, m) PROVE OneLiveMessage'
  <2>1. /\ m \in queued
        /\ queued' = queued \ {m} /\ unacked' = unacked /\ sender' = sender
        /\ ~Busy(s)
    BY <1>3 DEF Pop
  <2>2. \A t \in Slots : IF t = s THEN slot'[t].pc = "popped" /\ slot'[t].msg = m
                                  ELSE slot'[t] = slot[t]
    BY <1>3 DEF Pop, TypeOK
  <2>3. \A n : Spent(n)' <=> Spent(n)
    BY <2>1, <2>2 DEF Spent, Busy
  <2>4. \A t \in Slots : Busy(t)' <=> Busy(t) \/ t = s
    BY <2>1, <2>2 DEF Busy
  <2>5. Held' = Held \cup {m}
    BY <2>1, <2>2, <2>4 DEF Held
  <2>6. m \notin unacked /\ m \notin Held /\ InPlay' = InPlay
    BY <2>1, <2>5 DEF OneLiveMessage, InPlay
  <2>7. \A t \in Slots : Busy(t) => slot[t].msg # m
    BY <2>6 DEF Held
  <2>8. /\ \A t \in Slots : Busy(t)' => (slot'[t].msg \in unacked' <=> slot'[t].pc # "popped")
        /\ \A t, u \in Slots : Busy(t)' /\ Busy(u)' /\ slot'[t].msg = slot'[u].msg => t = u
    BY <2>1, <2>2, <2>4, <2>6, <2>7 DEF OneLiveMessage
  <2>9. queued' \cap (unacked' \cup Held') = {}
    BY <2>1, <2>5, <2>6 DEF OneLiveMessage
  <2>10. QED
    BY <2>1, <2>3, <2>6, <2>8, <2>9 DEF OneLiveMessage
<1>4. ASSUME NEW s \in Slots, WorkerCrash(s) PROVE OneLiveMessage'
  <2>1. /\ UNCHANGED <<queued, unacked, sender>>
        /\ slot[s].pc \notin {"idle", "requeued"}
    BY <1>4 DEF WorkerCrash, Busy
  <2>2. \A t \in Slots : IF t = s THEN slot'[t].pc = "idle" ELSE slot'[t] = slot[t]
    BY <1>4 DEF WorkerCrash, TypeOK, IdleSlot
  <2>3. \A n : Spent(n)' <=> Spent(n)
    BY <2>1, <2>2 DEF Spent
  <2>4. \A t \in Slots : Busy(t)' <=> Busy(t) /\ t # s
    BY <2>1, <2>2 DEF Busy
  <2>5. Held' \subseteq Held /\ InPlay' \subseteq InPlay
    BY <2>1, <2>2, <2>4, HeldMoves DEF InPlay
  <2>6. QED
    BY <2>1, <2>2, <2>3, <2>4, <2>5 DEF OneLiveMessage
<1>5. ASSUME NEW m \in Msg, Restore(m) PROVE OneLiveMessage'
  <2>1. /\ m \in unacked /\ m \notin Held
        /\ unacked' = unacked \ {m} /\ queued' = queued \cup {m}
        /\ UNCHANGED <<sender, slot>>
    BY <1>5 DEF Restore
  <2>2. \A s \in Slots : Busy(s) => slot[s].msg # m
    BY <2>1 DEF Held
  <2>3. Held' = Held
    BY <2>1 DEF Held, Busy
  <2>4. queued' \cap (unacked' \cup Held') = {} /\ InPlay' = InPlay
    BY <2>1, <2>3 DEF OneLiveMessage, InPlay
  <2>5. QED
    BY <2>1, <2>2, <2>4 DEF OneLiveMessage, Spent, Busy
<1>6. ASSUME NEW r \in Runs, SendLands(r) PROVE OneLiveMessage'
  <2>1. PICK c \in Copies : queued' = queued \cup {[run |-> r, retries |-> 0, copy |-> c]}
    BY <1>6 DEF SendLands
  <2> DEFINE m1 == [run |-> r, retries |-> 0, copy |-> c]
  <2>2. m1.run = r /\ queued' = queued \cup {m1}
    BY <2>1
  <2> HIDE DEF m1
  <2>3. /\ UNCHANGED <<unacked, slot>>
        /\ sender[r] # "landed" /\ sender' = [sender EXCEPT ![r] = "landed"]
    BY <1>6 DEF SendLands
  <2>4. \A m \in InPlay : m.run # r /\ m \in Msg
    BY <2>3, InPlayMsg DEF OneLiveMessage
  <2>5. Held' = Held
    BY <2>3 DEF Held, Busy
  <2>6. InPlay' = InPlay \cup {m1} /\ m1 \notin InPlay
    BY <2>2, <2>3, <2>4, <2>5 DEF InPlay
  <2>7. \A m \in InPlay' : sender'[m.run] = "landed"
    <3>1. \A m \in InPlay : m.run \in Runs /\ sender[m.run] = "landed"
      BY <2>4 DEF OneLiveMessage, Msg
    <3>2. QED
      BY <2>2, <2>3, <2>6, <3>1 DEF TypeOK
  <2>8. queued' \cap (unacked' \cup Held') = {}
    BY <2>2, <2>3, <2>5, <2>6 DEF OneLiveMessage, InPlay
  <2>9. \A n : Spent(n)' <=> Spent(n)
    BY <2>3 DEF Spent
  <2>10. \A m, n \in InPlay' : m.run = n.run /\ ~Spent(m)' /\ ~Spent(n)' => m = n
    BY <2>2, <2>4, <2>6, <2>9 DEF OneLiveMessage
  <2>11. QED
    BY <2>3, <2>7, <2>8, <2>10 DEF OneLiveMessage, Busy
<1>7. ASSUME NEW r \in Runs, CreateRun(r) \/ SendFails(r) \/ ApiCrash(r) PROVE OneLiveMessage'
  <2>1. UNCHANGED <<queued, unacked, slot>>
    BY <1>7 DEF CreateRun, SendFails, ApiCrash
  <2>2. \A q \in Runs : sender[q] = "landed" => sender'[q] = "landed"
    BY <1>7 DEF CreateRun, SendFails, ApiCrash, WritersFindItOpen, TypeOK
  <2>3. \A m \in InPlay : m.run \in Runs
    BY InPlayMsg DEF Msg
  <2>4. InPlay' = InPlay /\ Held' = Held
    BY <2>1 DEF InPlay, Held, Busy
  <2>5. QED
    BY <2>1, <2>2, <2>3, <2>4 DEF OneLiveMessage, Spent, Busy
<1>8. ASSUME NEW r \in Runs, \/ DispatchReturns(r) \/ DispatchGivesUp(r) \/ DispatchLoads(r)
                             \/ DispatchMarksFailed(r) \/ Age(r)
      PROVE  OneLiveMessage'
  BY <1>8, <1>1 DEF DispatchReturns, DispatchGivesUp, DispatchLoads, DispatchMarksFailed,
                    Age, reconcilerFrame
<1>9. CASE Reconcile \/ \E t \in Tenants : EraseTenant(t)
  BY <1>9, <1>1 DEF Reconcile, ReadQueue, ReadUnacked, CloseOrphans, PassEnds,
                    reconcilerFrame, EraseTenant
<1>10. ASSUME NEW m \in Msg PROVE ~RestoreEarly(m)
  BY DEF RestoreEarly
<1>11. QED
  BY <1>1, <1>2, <1>3, <1>4, <1>5, <1>6, <1>7, <1>8, <1>9, <1>10 DEF Next, Api, vars

\* What a request handler may do: it never stores a result, and gives up only on
\* a send that failed.
LEMMA ApiGotoEffect ==
    ASSUME TypeOK, NEW r \in Runs, NEW pc, NEW seen, ApiGoto(r, pc, seen), NEW q \in Runs
    PROVE  api'[q].pc = IF q = r THEN pc ELSE api[q].pc
  BY DEF TypeOK, ApiGoto

\* The API never writes `succeeded`.
LEMMA ApiWrites ==
    ASSUME TypeOK, NEW r \in Runs, Api(r), NEW q \in Runs, row'[q].status = "succeeded"
    PROVE  row[q].status = "succeeded"
<1>1. CASE CreateRun(r)
  BY <1>1 DEF CreateRun, TypeOK
<1>2. CASE DispatchMarksFailed(r)
  <2>1. \/ UNCHANGED row
        \/ row' = [row EXCEPT ![r] = Written(r, api[r].seen, "failed", "dispatch", FALSE)]
    BY <1>2 DEF DispatchMarksFailed, Update, FailedUpdate
  <2>2. Written(r, api[r].seen, "failed", "dispatch", FALSE).status
            \in {row[r].status, "failed"}
    BY DEF Written
  <2>3. QED
    BY <2>1, <2>2 DEF TypeOK
<1>3. CASE UNCHANGED row
  BY <1>3
<1>4. QED
  BY <1>1, <1>2, <1>3 DEF Api, SendLands, SendFails, DispatchReturns, DispatchGivesUp,
                          DispatchLoads, ApiCrash

\* How a request's handler and its sender go together after a step of the API.
LEMMA ApiMoves ==
    ASSUME TypeOK, WritersFindItOpen, Faults = {}, NEW r \in Runs, Api(r), NEW q \in Runs
    PROVE  /\ sender'[q] # "landed" => sender[q] # "landed"
           /\ api'[q].pc = "idle" => sender'[q] = "none"
           /\ api'[q].pc \in {"gaveup", "closing"} => sender'[q] = "failed"
<1> USE DEF WritersFindItOpen
<1>1. CASE CreateRun(r)
  <2>1. ApiGoto(r, "dispatching", "absent") /\ sender' = [sender EXCEPT ![r] = "sending"]
    BY <1>1 DEF CreateRun
  <2>2. sender[r] = "none" /\ sender'[q] = IF q = r THEN "sending" ELSE sender[q]
    BY <1>1, <2>1 DEF CreateRun, TypeOK
  <2>3. QED
    BY <2>1, <2>2, ApiGotoEffect
<1>2. CASE SendLands(r) \/ SendFails(r)
  <2>1. api' = api /\ sender[r] = "sending"
    BY <1>2 DEF SendLands, SendFails
  <2>2. q # r => sender'[q] = sender[q]
    BY <1>2 DEF SendLands, SendFails, TypeOK
  <2>3. QED
    BY <2>1, <2>2
<1>3. CASE DispatchReturns(r) \/ DispatchGivesUp(r) \/ DispatchLoads(r)
           \/ DispatchMarksFailed(r)
  <2>1. /\ sender' = sender
        /\ \E pc \in {"over", "gaveup", "closing"}, seen \in {"absent", row[r].status} :
              /\ ApiGoto(r, pc, seen)
              /\ pc # "over" => sender[r] = "failed"
    BY <1>3 DEF DispatchReturns, DispatchGivesUp, DispatchLoads, DispatchMarksFailed
  <2>2. QED
    BY <2>1, ApiGotoEffect
<1>4. CASE ApiCrash(r)
  <2>1. ApiGoto(r, "over", "absent") /\ (q # r => sender'[q] = sender[q])
    BY <1>4 DEF ApiCrash, TypeOK
  <2>2. sender'[r] # "landed" => sender[r] # "landed"
    BY <1>4 DEF ApiCrash, TypeOK
  <2>3. QED
    BY <2>1, <2>2, ApiGotoEffect
<1>5. QED
  BY <1>1, <1>2, <1>3, <1>4 DEF Api

\* A run is claimed by its one delivery past the gate.
LEMMA ClaimedByOne ==
    ASSUME TypeOK, OneLiveMessage, NEW s \in Slots, slot[s].pc \notin {"idle", "requeued"},
           NEW t \in Slots, t # s, slot[t].pc \in ClaimPC
    PROVE  RunOf(t) # RunOf(s)
<1>1. slot[s].msg \in InPlay /\ slot[t].msg \in InPlay /\ Busy(s) /\ Busy(t)
  BY DEF InPlay, Held, Busy, ClaimPC, SavedPC
<1>2. ~Spent(slot[s].msg) /\ ~Spent(slot[t].msg)
  BY <1>1 DEF OneLiveMessage, Spent, Busy, ClaimPC, SavedPC
<1>3. QED
  BY <1>1, <1>2 DEF OneLiveMessage, RunOf

\* What a task leaves to others.
LEMMA TaskFrame ==
    ASSUME NEW s \in Slots, TaskStep(s) \/ Abandon(s)
    PROVE  UNCHANGED <<api, sender, reconciler, crashes>>
  BY DEF TaskStep, Abandon, taskFrame, Receive, GetRun, LoadToMarkRunning, MarkRunning,
         Execute, LoadToMarkSucceeded, MarkSucceeded, Announce, LoadToMarkFailed, MarkFailed,
         PublishRetry, Ack

\* A crash empties a slot and a pop fills one: neither claims.
LEMMA SlotLeaves ==
    ASSUME TypeOK, NEW s \in Slots, WorkerCrash(s) \/ \E m \in Msg : Pop(s, m)
    PROVE  slot'[s].pc \in {"idle", "popped"}
<1>1. CASE WorkerCrash(s)
  BY <1>1, IdleSlotType DEF WorkerCrash, TypeOK
<1>2. ASSUME NEW m \in Msg, Pop(s, m) PROVE slot'[s].pc = "popped"
  BY <1>2 DEF Pop, TypeOK
<1>3. QED
  BY <1>1, <1>2

\* No writer ever finds the run succeeded, preserved by every step.
LEMMA WritersStep ==
    ASSUME TypeOK, RetryBudget, OneLiveMessage, WritersFindItOpen, Faults = {}, [Next]_vars
    PROVE  WritersFindItOpen'
<1>1. CASE UNCHANGED <<row, sender, api, slot>>
  BY <1>1 DEF WritersFindItOpen, RunOf
<1>2. ASSUME NEW s \in Slots, TaskStep(s) \/ Abandon(s) PROVE WritersFindItOpen'
  <2>1. UNCHANGED <<api, sender>>
    BY <1>2, TaskFrame
  <2>2. /\ \A r \in Runs : row'[r] # row[r] => r = RunOf(s) /\ slot[s].pc \in ClaimPC
        /\ \A r \in Runs : row[r].status # "succeeded" /\ row'[r].status = "succeeded"
               => slot'[s].pc \notin Unsaved
    BY <1>2, TaskWritesOwn, TaskSucceeds DEF Unsaved, SavedPC
  <2>3. slot[s].pc \in ClaimPC => sender[RunOf(s)] = "landed" /\ RunOf(s) \in Runs
    BY BusyRun DEF OneLiveMessage, InPlay, Held, Busy, RunOf, ClaimPC, SavedPC
  <2>4. \A t \in Slots : slot[t].pc \in ClaimPC /\ slot[s].pc \in ClaimPC /\ t # s
                            => RunOf(t) # RunOf(s)
    BY ClaimedByOne DEF ClaimPC, SavedPC
  <2>5. \A t \in Slots : t # s => slot'[t] = slot[t]
    BY <1>2, OthersStand
  <2>6. slot'[s].pc \in Unsaved => /\ slot'[s].msg = slot[s].msg /\ slot[s].pc # "idle"
                                   /\ \/ slot[s].pc \in Unsaved
                                      \/ row[RunOf(s)].status \in Open
    <3>1. CASE ~Receive(s) /\ ~PublishRetry(s) /\ ~Ack(s)
      BY <1>2, <3>1, TaskMoves
    <3>2. CASE PublishRetry(s)
      <4>1. Goto(s, "requeued") \/ Goto(s, "acking")
        BY <3>2 DEF PublishRetry
      <4>2. QED
        BY <4>1, MoveEffect DEF Goto, Unsaved, ClaimPC, SavedPC
    <3>3. CASE Ack(s)
      BY <3>3 DEF Ack, TypeOK, IdleSlot, Unsaved, ClaimPC, SavedPC
    <3>4. CASE Receive(s)
      BY <3>4, ReceiveMoves DEF Unsaved, ClaimPC, SavedPC
    <3>5. QED
      BY <3>1, <3>2, <3>3, <3>4
  <2>7. ASSUME NEW t \in Slots, slot'[t].pc \in Unsaved
        PROVE  row'[RunOf(t)'].status # "succeeded"
    <3>1. CASE t = s
      <4>1. RunOf(s)' = RunOf(s) /\ RunOf(s) \in Runs
        BY <2>6, <2>7, <3>1, BusyRun DEF RunOf, Busy
      <4>2. row[RunOf(s)].status # "succeeded"
        BY <2>6, <2>7, <3>1 DEF WritersFindItOpen, Open, Unsaved
      <4>3. QED
        BY <2>2, <2>7, <3>1, <4>1, <4>2
    <3>2. CASE t # s
      <4>1. slot'[t] = slot[t] /\ RunOf(t)' = RunOf(t) /\ slot[t].pc \in Unsaved
        BY <2>5, <2>7, <3>2 DEF RunOf
      <4>2. row[RunOf(t)].status # "succeeded" /\ slot[t].pc \in ClaimPC
        BY <4>1 DEF WritersFindItOpen, Unsaved
      <4>3. RunOf(t) \in Runs
        BY <4>2, BusyRun DEF Busy, ClaimPC, SavedPC
      <4>4. row'[RunOf(t)] = row[RunOf(t)]
        BY <2>2, <2>4, <3>2, <4>2, <4>3
      <4>5. QED
        BY <4>1, <4>2, <4>4
    <3>3. QED
      BY <3>1, <3>2
  <2>8. \A r \in Runs : sender[r] # "landed" => row'[r].status # "succeeded"
    BY <2>2, <2>3 DEF WritersFindItOpen
  <2>9. QED
    BY <2>1, <2>7, <2>8 DEF WritersFindItOpen, Unsaved
<1>3. ASSUME NEW s \in Slots, WorkerCrash(s) \/ \E m \in Msg : Pop(s, m)
      PROVE  WritersFindItOpen'
  <2>1. UNCHANGED <<row, api, sender>>
    BY <1>3 DEF WorkerCrash, Pop
  <2>2. \A t \in Slots : t # s => slot'[t] = slot[t]
    BY <1>3 DEF WorkerCrash, Pop, TypeOK
  <2>3. slot'[s].pc \in {"idle", "popped"}
    BY <1>3, SlotLeaves
  <2>4. QED
    BY <2>1, <2>2, <2>3 DEF WritersFindItOpen, RunOf, ClaimPC, SavedPC
<1>4. ASSUME NEW r \in Runs, Api(r) PROVE WritersFindItOpen'
  <2>1. slot' = slot
    BY <1>4 DEF Api, CreateRun, SendLands, SendFails, DispatchReturns, DispatchGivesUp,
                DispatchLoads, DispatchMarksFailed, ApiCrash
  <2>2. \A s \in Slots : slot[s].pc \in ClaimPC => RunOf(s) \in Runs
    BY BusyRun DEF Busy, ClaimPC, SavedPC
  <2>3. QED
    BY <1>4, <2>1, <2>2, ApiWrites, ApiMoves DEF WritersFindItOpen, RunOf
<1>7. CASE CloseOrphans \/ \E t \in Tenants : EraseTenant(t)
  <2>1. UNCHANGED <<slot, sender, api>>
    BY <1>7 DEF CloseOrphans, EraseTenant, reconcilerFrame
  <2>2. \A q \in Runs : row'[q].status = "succeeded" => row[q].status = "succeeded"
    BY <1>7 DEF CloseOrphans, EraseTenant, NoRow
  <2>3. \A s \in Slots : slot[s].pc \in ClaimPC => RunOf(s) \in Runs
    BY BusyRun DEF Busy, ClaimPC, SavedPC
  <2>4. QED
    BY <2>1, <2>2, <2>3 DEF WritersFindItOpen, RunOf
<1>8. CASE \/ ReadQueue \/ ReadUnacked \/ PassEnds \/ UNCHANGED vars
           \/ (\E r \in Runs : Age(r))
           \/ (\E m \in Msg : Restore(m) \/ RestoreEarly(m))
  BY <1>8, <1>1 DEF ReadQueue, ReadUnacked, PassEnds, reconcilerFrame, Age, Restore,
                    RestoreEarly, vars
<1>9. QED
  BY <1>2, <1>3, <1>4, <1>7, <1>8 DEF Next, Reconcile

\* A task about to write has just read its row, which was there, and wrote nothing
\* in that step.
LEMMA TaskLoads ==
    ASSUME TypeOK, NEW s \in Slots, TaskStep(s) \/ Abandon(s),
           slot'[s].pc \in {"marking", "saving", "closing", "undoing"}
    PROVE  /\ slot[s].pc \in ClaimPC
           /\ slot'[s].pc = "undoing" <=> slot[s].pc = "interrupted"
           /\ slot'[s].pc # "undoing" => slot[s].pc \in Unsaved
           /\ slot'[s].seen = row[RunOf(s)].status
           /\ slot'[s].seen # "absent"
           /\ slot'[s].msg = slot[s].msg
           /\ UNCHANGED row
<1> USE DEF SavedPC, Unsaved
<1> DEFINE Reading == {"marking", "saving", "closing", "undoing"}
<1>1. ASSUME NEW pc, Goto(s, pc) PROVE pc \in Reading
  BY <1>1, MoveEffect DEF Goto
<1>2. ASSUME NEW pc, NEW q, Loaded(s, IF row[RunOf(s)].status = "absent" THEN q ELSE pc),
             q \notin Reading
      PROVE  /\ slot'[s].pc = pc
             /\ slot'[s].seen = row[RunOf(s)].status
             /\ slot'[s].seen # "absent"
             /\ slot'[s].msg = slot[s].msg
  BY <1>2 DEF Loaded, Move, TypeOK
<1>3. ~Escapes(s) /\ ~Caught(s)
  BY <1>1 DEF Escapes, Caught
<1>4. CASE LoadToMarkRunning(s)
  BY <1>4, <1>2, <1>3 DEF LoadToMarkRunning, ClaimPC
<1>5. CASE LoadToMarkSucceeded(s)
  <2>1. ~Goto(s, "failing")
    BY <1>1
  <2>2. QED
    BY <1>5, <1>2, <1>3, <2>1 DEF LoadToMarkSucceeded, ClaimPC
<1>6. CASE LoadToMarkFailed(s)
  <2> DEFINE pc == IF slot[s].pc = "failing" THEN "closing" ELSE "undoing"
  <2>1. Loaded(s, IF row[RunOf(s)].status = "absent" THEN "acking" ELSE pc)
    BY <1>6, <1>3 DEF LoadToMarkFailed
  <2>2. slot'[s].pc = pc
    BY <2>1, <1>2
  <2>3. QED
    BY <1>6, <2>1, <2>2, <1>2 DEF LoadToMarkFailed, ClaimPC
<1>7. ~GetRun(s) /\ ~Execute(s) /\ ~Announce(s) /\ ~Abandon(s) /\ ~PublishRetry(s)
  BY <1>1, <1>3 DEF GetRun, Execute, Announce, Abandon, PublishRetry
<1>8. ~MarkRunning(s) /\ ~MarkSucceeded(s) /\ ~MarkFailed(s)
  <2>1. ~Goto(s, "executing") /\ ~Goto(s, "acking") /\ ~Goto(s, "failing") /\ ~Goto(s, "saved")
    BY <1>1
  <2>2. QED
    BY <2>1, <1>3, Zenon DEF MarkRunning, MarkSucceeded, MarkFailed
<1>9. ~Ack(s) /\ ~Receive(s)
  <2>1. ASSUME Ack(s) PROVE slot'[s].pc = "idle"
    BY <2>1, IdleSlotType DEF Ack, TypeOK
  <2>2. QED
    BY <2>1, ReceiveMoves
<1>10. QED
  BY <1>4, <1>5, <1>6, <1>7, <1>8, <1>9 DEF TaskStep

\* A task past the COMMIT of its result has just made it, found the row gone, or was
\* there already, having read the row at the most.
LEMMA TaskSaves ==
    ASSUME TypeOK, Faults = {}, NEW s \in Slots, TaskStep(s) \/ Abandon(s),
           slot'[s].pc \in SavedPC
    PROVE  /\ slot[s].pc \in ClaimPC
           /\ slot'[s].msg = slot[s].msg
           /\ \/ UNCHANGED row /\ (slot[s].pc \in SavedPC \/ row[RunOf(s)].status = "absent")
              \/ /\ slot[s].pc = "saving"
                 /\ Update(RunOf(s), slot[s].seen, "succeeded", "none", TRUE)
<1> USE DEF SavedPC
<1>1. ASSUME NEW pc, Goto(s, pc) \/ Loaded(s, pc)
      PROVE  pc \in SavedPC /\ slot'[s].msg = slot[s].msg
  BY <1>1, MoveEffect DEF Goto, Loaded
<1>2. ~Escapes(s) /\ ~Caught(s)
  BY <1>1 DEF Escapes, Caught
<1>3. CASE LoadToMarkSucceeded(s)
  <2>1. ~Goto(s, "failing")
    BY <1>1
  <2>2. Loaded(s, IF row[RunOf(s)].status = "absent" THEN "saved" ELSE "saving")
    BY <1>2, <1>3, <2>1 DEF LoadToMarkSucceeded
  <2>3. QED
    BY <1>1, <1>3, <2>2 DEF LoadToMarkSucceeded, ClaimPC
<1>4. CASE MarkSucceeded(s)
  <2>1. ~Goto(s, "failing")
    BY <1>1
  <2>2. /\ Update(RunOf(s), slot[s].seen, "succeeded", "none", TRUE) /\ Goto(s, "saved")
        /\ slot[s].pc = "saving"
    BY <1>2, <1>4, <2>1, Zenon DEF MarkSucceeded
  <2>3. QED
    BY <1>1, <2>2 DEF ClaimPC
<1>5. CASE Announce(s)
  BY <1>1, <1>5 DEF Announce, ClaimPC
<1>6. CASE LoadToMarkFailed(s)
  <2>1. /\ slot[s].pc \in {"failing", "interrupted"} /\ UNCHANGED row
        /\ Loaded(s, IF row[RunOf(s)].status = "absent" THEN "acking"
                     ELSE IF slot[s].pc = "failing" THEN "closing" ELSE "undoing")
    BY <1>2, <1>6 DEF LoadToMarkFailed
  <2>2. slot[s].pc = "interrupted" /\ slot'[s].msg = slot[s].msg
    BY <1>1, <2>1
  <2>3. QED
    BY <2>1, <2>2 DEF ClaimPC
<1>7. ~GetRun(s) /\ ~Execute(s) /\ ~Abandon(s) /\ ~PublishRetry(s) /\ ~LoadToMarkRunning(s)
  <2>1. \A pc \in {"gated", "acking", "planned", "failing", "requeued", "executing", "marking"} :
           ~Goto(s, pc) /\ ~Loaded(s, pc)
    BY <1>1
  <2>2. QED
    BY <2>1, <1>2 DEF GetRun, Execute, Abandon, PublishRetry, LoadToMarkRunning
<1>8. ~MarkRunning(s) /\ ~MarkFailed(s)
  <2>1. ~Goto(s, "executing") /\ ~Goto(s, "acking")
    BY <1>1
  <2>2. QED
    BY <2>1, <1>2, Zenon DEF MarkRunning, MarkFailed
<1>9. ~Ack(s) /\ ~Receive(s)
  <2>1. ASSUME Ack(s) PROVE slot'[s].pc = "idle"
    BY <2>1, IdleSlotType DEF Ack, TypeOK
  <2>2. QED
    BY <2>1, ReceiveMoves
<1>10. QED
  BY <1>3, <1>4, <1>5, <1>6, <1>7, <1>8, <1>9 DEF TaskStep

\* A task never writes the API's words, nor makes a row look old.
LEMMA TaskSays ==
    ASSUME TypeOK, NEW s \in Slots, TaskStep(s) \/ Abandon(s)
    PROVE  /\ \A r \in Runs : row'[r].error = "dispatch" => row[r].error = "dispatch"
           /\ aged' \subseteq aged
<1>1. CASE UNCHANGED <<row, aged>>
  BY <1>1
<1>2. ASSUME NEW seen, NEW status, NEW error, NEW result, error # "dispatch",
             \/ Update(RunOf(s), seen, status, error, result)
             \/ StaleUpdate(RunOf(s), seen, status, error, result)
             \/ FailedUpdate(RunOf(s), seen, status, error, result)
      PROVE  /\ \A r \in Runs : row'[r].error = "dispatch" => row[r].error = "dispatch"
             /\ aged' \subseteq aged
  <2>1. CASE row' = [row EXCEPT ![RunOf(s)] = Written(RunOf(s), seen, status, error, result)]
             /\ aged' = aged \ {RunOf(s)}
    <3>1. Written(RunOf(s), seen, status, error, result).error \in {row[RunOf(s)].error, error}
      BY DEF Written
    <3> DEFINE new == Written(RunOf(s), seen, status, error, result)
    <3> HIDE DEF new
    <3>2. \A r \in Runs : row'[r] = IF r = RunOf(s) THEN new ELSE row[r]
      BY <2>1 DEF new, TypeOK
    <3>3. new.error \in {row[RunOf(s)].error, error}
      BY <3>1 DEF new
    <3>4. QED
      BY <1>2, <2>1, <3>2, <3>3
  <2>2. QED
    BY <1>1, <1>2, <2>1 DEF Update, StaleUpdate, FailedUpdate
<1>3. CASE MarkRunning(s) \/ MarkSucceeded(s) \/ MarkFailed(s)
  BY <1>3, <1>2 DEF MarkRunning, MarkSucceeded, MarkFailed
<1>4. CASE \/ Receive(s) \/ GetRun(s) \/ LoadToMarkRunning(s) \/ Execute(s) \/ Abandon(s)
           \/ LoadToMarkSucceeded(s) \/ Announce(s) \/ LoadToMarkFailed(s)
           \/ PublishRetry(s) \/ Ack(s)
  BY <1>4, <1>1 DEF Receive, GetRun, LoadToMarkRunning, Execute, Abandon,
                    LoadToMarkSucceeded, Announce, LoadToMarkFailed, PublishRetry, Ack
<1>5. QED
  BY <1>3, <1>4 DEF TaskStep

\* The API writes the row of a run that was never sent.
LEMMA ApiWritesUnsent ==
    ASSUME TypeOK, WritersFindItOpen, NEW r \in Runs, Api(r), NEW q \in Runs,
           row'[q] # row[q]
    PROVE  q = r /\ sender[r] # "landed"
<1>1. CASE CreateRun(r)
  BY <1>1 DEF CreateRun, TypeOK, WritersFindItOpen
<1>2. CASE DispatchMarksFailed(r)
  BY <1>2 DEF DispatchMarksFailed, Update, FailedUpdate, TypeOK, WritersFindItOpen
<1>3. QED
  BY <1>1, <1>2 DEF Api, SendLands, SendFails, DispatchReturns, DispatchGivesUp,
                    DispatchLoads, ApiCrash

\* What a move of one handler leaves of all handlers.
LEMMA ApiGotoWhole ==
    ASSUME TypeOK, NEW r \in Runs, NEW pc, NEW seen, ApiGoto(r, pc, seen), NEW q \in Runs
    PROVE  /\ q # r => api'[q] = api[q]
           /\ q = r => api'[q].pc = pc /\ api'[q].seen = seen
  BY DEF TypeOK, ApiGoto

\* What a step of a task may put in play.
LEMMA TaskPlays ==
    ASSUME TypeOK, NEW s \in Slots, TaskStep(s) \/ Abandon(s), NEW m \in InPlay'
    PROVE  m \in InPlay \/ (Busy(s) /\ m.run = RunOf(s))
<1>1. CASE ~Receive(s) /\ ~PublishRetry(s) /\ ~Ack(s)
  <2>1. /\ \A t \in Slots : slot'[t].msg = slot[t].msg
        /\ \A t \in Slots : Busy(t)' <=> Busy(t)
        /\ UNCHANGED <<queued, unacked>>
    BY <1>1, TaskMoves DEF taskFrame, Busy
  <2>2. QED
    BY <2>1, HeldStays DEF InPlay
<1>2. CASE Receive(s)
  <2>1. /\ Busy(s) /\ Held' = Held /\ queued' = queued
        /\ unacked' = unacked \cup {slot[s].msg}
    BY <1>2, ReceiveMoves, HeldStays DEF Busy
  <2>2. QED
    BY <2>1 DEF InPlay, RunOf
<1>3. CASE PublishRetry(s)
  <2>1. slot[s].pc = "retrying" /\ UNCHANGED unacked /\ (Goto(s, "requeued") \/ Goto(s, "acking"))
    BY <1>3 DEF PublishRetry
  <2>2. /\ \A t \in Slots : slot'[t].msg = slot[t].msg
        /\ \A t \in Slots : Busy(t)' <=> Busy(t)
    BY <2>1, MoveEffect DEF Goto, Busy
  <2>3. \A n \in queued' : n \in queued \/ n.run = RunOf(s)
    <3>1. \/ queued' = queued
          \/ \E c \in Copies :
                queued' = queued \cup {[run |-> RunOf(s),
                                       retries |-> slot[s].msg.retries + 1, copy |-> c]}
      BY <1>3, Zenon DEF PublishRetry
    <3>2. QED
      BY <3>1
  <2>4. QED
    BY <2>1, <2>2, <2>3, HeldStays DEF InPlay, Busy
<1>4. CASE Ack(s)
  <2>1. queued' = queued /\ unacked' \subseteq unacked
    BY <1>4 DEF Ack
  <2>2. ~Busy(s)'
    BY <1>4, IdleSlotType DEF Ack, TypeOK, Busy
  <2>3. Held' \subseteq Held
    BY <2>2, OthersStand, HeldMoves
  <2>4. QED
    BY <2>1, <2>3 DEF InPlay
<1>5. QED
  BY <1>1, <1>2, <1>3, <1>4

\* What is so whatever the faults: a message in play was sent; a row whose send has
\* not landed is still queued while its request is being handled, and closed once the
\* request was refused; and without late enqueues no refused request is ever sent.
Unsent ==
    /\ \A m \in InPlay : sender[m.run] = "landed"
    /\ \A r \in Runs : api[r].pc = "idle" => /\ row[r].status = "absent" /\ r \notin aged
                                             /\ sender[r] = "none"
    /\ \A r \in Runs : api[r].pc \in {"dispatching", "gaveup", "closing"}
                           /\ sender[r] # "landed" =>
          row[r].status \in {"queued", "absent"} /\ r \notin aged
    /\ \A r \in Runs : api[r].pc = "closing" /\ sender[r] # "landed" => api[r].seen = "queued"
    /\ \A r \in Runs : row[r].error = "dispatch" /\ sender[r] # "landed"
                           => row[r].status = "failed"
    /\ "late_send" \notin Faults => \A r \in Runs :
          /\ api[r].pc \in {"gaveup", "closing"} => sender[r] = "failed"
          /\ row[r].error = "dispatch" => sender[r] = "failed"

\* A request handler keeps it.
LEMMA ApiKeepsUnsent ==
    ASSUME TypeOK, Unsent, NEW r \in Runs, Api(r)
    PROVE  Unsent'
<1>0. \A m \in InPlay : m.run \in Runs
  BY InPlayMsg DEF Msg
<1>01. slot' = slot /\ unacked' = unacked /\ (queued' = queued => InPlay' = InPlay)
  <2>1. slot' = slot /\ unacked' = unacked
    BY DEF Api, CreateRun, SendLands, SendFails, DispatchReturns, DispatchGivesUp,
           DispatchLoads, DispatchMarksFailed, ApiCrash
  <2>2. QED
    BY <2>1 DEF InPlay, Held, Busy
<1>1. CASE CreateRun(r)
  <2>1. PICK pc \in {"dispatching", "over"}, sent \in {"sending", "failed"} :
           ApiGoto(r, pc, "absent") /\ sender' = [sender EXCEPT ![r] = sent]
    BY <1>1 DEF CreateRun
  <2>2. /\ api[r].pc = "idle" /\ aged' = aged /\ queued' = queued
        /\ row' = [row EXCEPT ![r] = [status |-> "queued", error |-> "none",
                                      result |-> FALSE]]
    BY <1>1 DEF CreateRun
  <2>3. \A q \in Runs : /\ q # r => row'[q] = row[q] /\ api'[q] = api[q]
                                      /\ sender'[q] = sender[q]
                        /\ q = r => /\ row'[q].status = "queued" /\ row'[q].error = "none"
                                    /\ api'[q].pc \in {"dispatching", "over"}
                                    /\ q \notin aged'
    BY <2>1, <2>2 DEF ApiGoto, Unsent, TypeOK
  <2>4. \A m \in InPlay : m.run # r
    BY <2>2, <1>0 DEF Unsent
  <2>5. QED
    BY <2>2, <2>3, <2>4, <1>0, <1>01 DEF Unsent
<1>2. CASE SendLands(r)
  <2>1. /\ UNCHANGED <<row, aged, api>> /\ sender[r] = "sending"
        /\ \A q \in Runs : sender'[q] = IF q = r THEN "landed" ELSE sender[q]
    BY <1>2 DEF SendLands, TypeOK
  <2>2. \A m \in queued' : m \in queued \/ m.run = r
    BY <1>2 DEF SendLands
  <2>3. \A m \in InPlay' : m \in InPlay \/ m.run = r
    BY <1>01, <2>2 DEF InPlay, Held, Busy
  <2>4. \A m \in InPlay' : sender'[m.run] = "landed"
    BY <1>0, <2>1, <2>3 DEF Unsent
  <2>5. QED
    BY <2>1, <2>4 DEF Unsent
<1>3. CASE SendFails(r)
  <2>1. /\ UNCHANGED <<row, aged, api, queued>> /\ sender[r] = "sending"
        /\ \A q \in Runs : sender'[q] = IF q = r THEN "failed" ELSE sender[q]
    BY <1>3 DEF SendFails, TypeOK
  <2>2. QED
    BY <2>1, <1>0, <1>01 DEF Unsent
<1>4. CASE DispatchReturns(r) \/ DispatchGivesUp(r)
  <2>1. /\ UNCHANGED <<row, aged, sender, queued>> /\ api[r].pc = "dispatching"
        /\ \/ ApiGoto(r, "over", "absent")
           \/ /\ ApiGoto(r, "gaveup", "absent")
              /\ sender[r] = "failed" \/ "late_send" \in Faults
    BY <1>4 DEF DispatchReturns, DispatchGivesUp
  <2>2. \A q \in Runs : /\ q # r => api'[q] = api[q]
                        /\ q = r => \/ api'[q].pc = "over"
                                    \/ /\ api'[q].pc = "gaveup"
                                       /\ sender[q] = "failed" \/ "late_send" \in Faults
    <3>1. CASE ApiGoto(r, "over", "absent")
      BY <3>1, ApiGotoWhole
    <3>2. CASE /\ ApiGoto(r, "gaveup", "absent")
               /\ sender[r] = "failed" \/ "late_send" \in Faults
      BY <3>2, ApiGotoWhole
    <3>3. QED
      BY <2>1, <3>1, <3>2
  <2>3. QED
    BY <2>1, <2>2, <1>01 DEF Unsent
<1>5. CASE DispatchLoads(r)
  <2>1. /\ UNCHANGED <<row, aged, sender, queued>> /\ api[r].pc = "gaveup"
        /\ \/ ApiGoto(r, "closing", row[r].status) /\ row[r].status # "absent"
           \/ ApiGoto(r, "over", "absent")
    BY <1>5 DEF DispatchLoads
  <2>2. \A q \in Runs : /\ q # r => api'[q] = api[q]
                        /\ q = r => \/ api'[q].pc = "over"
                                    \/ /\ api'[q].pc = "closing"
                                       /\ api'[q].seen = row[q].status
                                       /\ row[q].status # "absent"
    <3>1. CASE ApiGoto(r, "over", "absent")
      BY <3>1, ApiGotoWhole
    <3>2. CASE ApiGoto(r, "closing", row[r].status) /\ row[r].status # "absent"
      BY <3>2, ApiGotoWhole
    <3>3. QED
      BY <2>1, <3>1, <3>2
  <2>3. QED
    BY <2>1, <2>2, <1>01 DEF Unsent
<1>6. CASE DispatchMarksFailed(r)
  <2>1. /\ sender' = sender /\ queued' = queued /\ api[r].pc = "closing"
        /\ ApiGoto(r, "over", "absent")
    BY <1>6 DEF DispatchMarksFailed
  <2>2. \A q \in Runs : /\ q # r => api'[q] = api[q]
                        /\ q = r => api'[q].pc = "over"
    BY <2>1, ApiGotoWhole
  <2> DEFINE new == Written(r, api[r].seen, "failed", "dispatch", FALSE)
  <2>3. \/ UNCHANGED <<row, aged>>
        \/ aged' = aged \ {r} /\ row' = [row EXCEPT ![r] = new]
    BY <1>6 DEF DispatchMarksFailed, Update, FailedUpdate
  <2>4. sender[r] # "landed" => new.status = "failed"
    BY <2>1 DEF Written, Unsent
  <2>5. "late_send" \notin Faults => sender[r] = "failed"
    BY <2>1 DEF Unsent
  <2> HIDE DEF new
  <2>6. /\ aged' \subseteq aged
        /\ \A q \in Runs : row'[q] = row[q] \/ (q = r /\ row'[q] = new)
    BY <2>3 DEF TypeOK
  <2>7. QED
    BY <2>1, <2>2, <2>4, <2>5, <2>6, <1>01 DEF Unsent
<1>7. CASE ApiCrash(r)
  <2>1. /\ UNCHANGED <<row, aged, queued>> /\ api[r].pc # "idle"
        /\ \A q \in Runs : /\ q # r => api'[q] = api[q] /\ sender'[q] = sender[q]
                           /\ q = r => api'[q].pc = "over"
                           /\ \/ sender'[q] = sender[q]
                              \/ sender[q] = "sending" /\ sender'[q] = "failed"
    BY <1>7 DEF ApiCrash, ApiGoto, TypeOK
  <2>2. QED
    BY <2>1, <1>0, <1>01 DEF Unsent
<1>8. QED
  BY <1>1, <1>2, <1>3, <1>4, <1>5, <1>6, <1>7 DEF Api

\* Every other step keeps it too.
LEMMA UnsentStep == ASSUME TypeOK, Unsent, [Next]_vars PROVE Unsent'
<1>0. \A m \in InPlay : m.run \in Runs
  BY InPlayMsg DEF Msg
<1>1. ASSUME UNCHANGED <<api, sender>>, InPlay' \subseteq InPlay, aged' \subseteq aged,
             \A r \in Runs : \/ row'[r] = row[r]
                             \/ sender[r] = "landed" /\ row'[r].error # "dispatch"
                             \/ sender[r] = "landed" /\ row[r].error = "dispatch"
                             \/ row'[r].status = "absent" /\ row'[r].error # "dispatch"
                             \/ /\ row'[r].status = "failed" /\ row'[r].error # "dispatch"
                                /\ r \in aged
      PROVE  Unsent'
  BY <1>1 DEF Unsent
<1>2. ASSUME NEW s \in Slots, TaskStep(s) \/ Abandon(s) PROVE Unsent'
  <2>1. UNCHANGED <<api, sender>>
    BY <1>2, TaskFrame
  <2>2. Busy(s) => RunOf(s) \in Runs /\ sender[RunOf(s)] = "landed"
    BY BusyRun DEF Unsent, InPlay, Held, RunOf
  <2>3. \A m \in InPlay' : sender'[m.run] = "landed"
    BY <1>2, <2>1, <2>2, TaskPlays DEF Unsent
  <2>4. \A r \in Runs : row'[r] # row[r] => sender[r] = "landed"
    BY <1>2, <2>2, TaskWritesOwn DEF Busy, ClaimPC, SavedPC
  <2>5. /\ \A r \in Runs : row'[r].error = "dispatch" => row[r].error = "dispatch"
        /\ aged' \subseteq aged
    BY <1>2, TaskSays
  <2>6. QED
    BY <2>1, <2>3, <2>4, <2>5 DEF Unsent
<1>3. ASSUME NEW s \in Slots, WorkerCrash(s) \/ \E m \in Msg : Pop(s, m) PROVE Unsent'
  <2>1. UNCHANGED <<row, aged, api, sender, unacked>>
    BY <1>3 DEF WorkerCrash, Pop
  <2>2. \A t \in Slots : t # s => slot'[t] = slot[t]
    BY <1>3 DEF WorkerCrash, Pop, TypeOK
  <2>3. InPlay' \subseteq InPlay
    <3>1. CASE WorkerCrash(s)
      <4>1. ~Busy(s)' /\ queued' = queued
        BY <3>1, IdleSlotType DEF WorkerCrash, TypeOK, Busy
      <4>2. QED
        BY <2>1, <2>2, <4>1, HeldMoves DEF InPlay
    <3>2. ASSUME NEW m \in Msg, Pop(s, m) PROVE InPlay' \subseteq InPlay
      <4>1. /\ m \in queued /\ queued' = queued \ {m} /\ ~Busy(s)
            /\ slot'[s].msg = m /\ slot'[s].pc = "popped"
        BY <3>2 DEF Pop, TypeOK
      <4>2. Held' \subseteq Held \cup {m}
        BY <2>2, <4>1, HeldMoves DEF Busy
      <4>3. QED
        BY <2>1, <4>1, <4>2 DEF InPlay
    <3>3. QED
      BY <1>3, <3>1, <3>2
  <2>4. QED
    BY <1>1, <2>1, <2>3
<1>4. ASSUME NEW m \in Msg, Restore(m) \/ RestoreEarly(m) PROVE Unsent'
  <2>1. /\ UNCHANGED <<row, aged, api, sender, slot>> /\ m \in unacked
        /\ unacked' = unacked \ {m} /\ queued' = queued \cup {m}
    BY <1>4 DEF Restore, RestoreEarly
  <2>2. InPlay' = InPlay
    BY <2>1 DEF InPlay, Held, Busy
  <2>3. QED
    BY <1>1, <2>1, <2>2
<1>5. ASSUME UNCHANGED <<queued, unacked, slot>> PROVE InPlay' = InPlay
  BY <1>5 DEF InPlay, Held, Busy
<1>6. ASSUME NEW u \in Tenants, EraseTenant(u) PROVE Unsent'
  <2>1. /\ UNCHANGED <<api, sender, queued, unacked, slot>> /\ aged' \subseteq aged
        /\ \A r \in Runs : \/ row'[r] = row[r]
                           \/ row'[r].status = "absent" /\ row'[r].error = "none"
    BY <1>6 DEF EraseTenant, NoRow
  <2>2. QED
    BY <1>1, <1>5, <2>1
<1>7. CASE CloseOrphans
  <2>1. /\ UNCHANGED <<api, sender, queued, unacked, slot>> /\ aged' \subseteq aged
        /\ \A r \in Runs : \/ row'[r] = row[r]
                           \/ /\ row'[r].status = "failed" /\ row'[r].error = "orphan"
                              /\ r \in aged
    BY <1>7 DEF CloseOrphans, reconcilerFrame, Orphans
  <2>2. QED
    BY <1>1, <1>5, <2>1
<1>8. ASSUME NEW r \in Runs, Age(r) PROVE Unsent'
  <2>1. /\ UNCHANGED <<row, api, sender, queued, unacked, slot>> /\ aged' = aged \cup {r}
        /\ api[r].pc = "over"
    BY <1>8 DEF Age, reconcilerFrame
  <2>2. QED
    BY <1>5, <2>1 DEF Unsent
<1>9. CASE ReadQueue \/ ReadUnacked \/ PassEnds \/ UNCHANGED vars
  <2>1. UNCHANGED <<row, aged, api, sender, queued, unacked, slot>>
    BY <1>9 DEF ReadQueue, ReadUnacked, PassEnds, reconcilerFrame, vars
  <2>2. QED
    BY <1>1, <1>5, <2>1
<1>10. QED
  BY <1>2, <1>3, <1>4, <1>6, <1>7, <1>8, <1>9, ApiKeepsUnsent DEF Next, Reconcile

\* A message in play was sent, whatever the faults.
LEMMA SentFirst == Spec => []Unsent
<1>1. Init => Unsent
  BY DEF Init, Unsent, InPlay, Held, Busy, IdleSlot, NoRow
<1>2. TypeOK /\ Unsent /\ [Next]_vars => Unsent'
  BY UnsentStep
<1>3. QED
  BY <1>1, <1>2, TypeCorrect, PTL DEF Spec

\* What a delivery knows of its row between a read and the write, or past its COMMIT.
TaskReads ==
    /\ \A s \in Slots : slot[s].pc \in {"marking", "saving", "closing"} =>
          /\ slot[s].seen \notin {"absent", "succeeded"}
          /\ row[RunOf(s)].status \in {slot[s].seen, "failed", "absent"}
    /\ \A s \in Slots : slot[s].pc \in SavedPC =>
          /\ row[RunOf(s)].status \in {"succeeded", "absent"}
          /\ slot[s].pc = "undoing" => slot[s].seen = "succeeded"

\* Nobody but the task itself, the reconciler and an erasure comes between.
LEMMA TaskReadsFrame ==
    ASSUME TypeOK, TaskReads, NEW s \in Slots, slot'[s] = slot[s],
           \/ row'[RunOf(s)] = row[RunOf(s)]
           \/ row'[RunOf(s)].status = "absent"
           \/ row'[RunOf(s)].status = "failed" /\ row[RunOf(s)].status \in Open
    PROVE  /\ slot'[s].pc \in {"marking", "saving", "closing"} =>
                 /\ slot'[s].seen \notin {"absent", "succeeded"}
                 /\ row'[RunOf(s)'].status \in {slot'[s].seen, "failed", "absent"}
           /\ slot'[s].pc \in SavedPC =>
                 /\ row'[RunOf(s)'].status \in {"succeeded", "absent"}
                 /\ slot'[s].pc = "undoing" => slot'[s].seen = "succeeded"
  BY DEF TaskReads, RunOf, Open

\* What a process read still says something true when it writes, after every step.
LEMMA ReadsStep ==
    ASSUME TypeOK, OneLiveMessage, WritersFindItOpen, TaskReads, Faults = {}, [Next]_vars
    PROVE  TaskReads'
<1>1. \A s \in Slots : slot[s].pc \in ClaimPC => RunOf(s) \in Runs /\ sender[RunOf(s)] = "landed"
  BY BusyRun DEF OneLiveMessage, InPlay, Held, Busy, RunOf, ClaimPC, SavedPC
<1> DEFINE Reading == {"marking", "saving", "closing"}
           Knows(t) == /\ slot[t].pc \in Reading =>
                             /\ slot[t].seen \notin {"absent", "succeeded"}
                             /\ row[RunOf(t)].status \in {slot[t].seen, "failed", "absent"}
                       /\ slot[t].pc \in SavedPC =>
                             /\ row[RunOf(t)].status \in {"succeeded", "absent"}
                             /\ slot[t].pc = "undoing" => slot[t].seen = "succeeded"
<1>2. SUFFICES ASSUME NEW t \in Slots, slot'[t].pc \in Reading \cup SavedPC PROVE Knows(t)'
  BY DEF TaskReads
<1>3. Reading \cup SavedPC \subseteq ClaimPC /\ Reading \cap SavedPC = {}
  BY DEF ClaimPC, SavedPC
<1>4. ASSUME slot'[t] = slot[t],
             \/ row'[RunOf(t)] = row[RunOf(t)]
             \/ row'[RunOf(t)].status = "absent"
             \/ row'[RunOf(t)].status = "failed" /\ row[RunOf(t)].status \in Open
      PROVE  Knows(t)'
  BY <1>4, TaskReadsFrame
<1>5. ASSUME NEW s \in Slots, TaskStep(s) \/ Abandon(s) PROVE Knows(t)'
  <2>1. CASE t # s
    <3>1. slot'[t] = slot[t] /\ slot[t].pc \in ClaimPC /\ RunOf(t) \in Runs
      BY <1>1, <1>2, <1>3, <1>5, <2>1, OthersStand
    <3>2. slot[s].pc \in ClaimPC => RunOf(t) # RunOf(s)
      BY <2>1, <3>1, ClaimedByOne DEF ClaimPC, SavedPC
    <3>3. row'[RunOf(t)] = row[RunOf(t)]
      BY <1>5, <3>1, <3>2, TaskWritesOwn
    <3>4. QED
      BY <1>4, <3>1, <3>3
  <2>2. CASE t = s /\ slot'[s].pc \in Reading
    <3>1. /\ slot[s].pc \in Unsaved /\ slot'[s].seen = row[RunOf(s)].status
          /\ slot'[s].seen # "absent" /\ RunOf(s)' = RunOf(s) /\ UNCHANGED row
      BY <1>5, <2>2, TaskLoads DEF RunOf
    <3>2. row[RunOf(s)].status # "succeeded"
      BY <3>1 DEF WritersFindItOpen, Unsaved
    <3>3. QED
      BY <1>3, <2>2, <3>1, <3>2
  <2>3. CASE t = s /\ slot'[s].pc \in SavedPC
    <3>1. /\ slot[s].pc \in ClaimPC /\ RunOf(s)' = RunOf(s) /\ RunOf(s) \in Runs
          /\ \/ UNCHANGED row /\ (slot[s].pc \in SavedPC \/ row[RunOf(s)].status = "absent")
             \/ /\ slot[s].pc = "saving"
                /\ Update(RunOf(s), slot[s].seen, "succeeded", "none", TRUE)
      BY <1>1, <1>5, <2>3, TaskSaves DEF RunOf
    <3>2. row'[RunOf(s)].status \in {"succeeded", "absent"}
      <4>1. CASE UNCHANGED row /\ (slot[s].pc \in SavedPC \/ row[RunOf(s)].status = "absent")
        BY <4>1 DEF TaskReads
      <4>2. CASE /\ slot[s].pc = "saving"
                 /\ Update(RunOf(s), slot[s].seen, "succeeded", "none", TRUE)
        <5>1. slot[s].seen # "succeeded"
          BY <4>2 DEF TaskReads
        <5>2. Written(RunOf(s), slot[s].seen, "succeeded", "none", TRUE).status = "succeeded"
          BY <5>1 DEF Written
        <5>3. row' = [row EXCEPT ![RunOf(s)] =
                         Written(RunOf(s), slot[s].seen, "succeeded", "none", TRUE)]
          BY <4>2 DEF Update, NothingToWrite
        <5>4. QED
          BY <3>1, <5>2, <5>3 DEF TypeOK
      <4>3. QED
        BY <3>1, <4>1, <4>2
    <3>3. slot'[s].pc = "undoing" => slot'[s].seen = "succeeded"
      <4>1. SUFFICES ASSUME slot'[s].pc = "undoing" PROVE slot'[s].seen = "succeeded"
        OBVIOUS
      <4>2. /\ slot[s].pc = "interrupted" /\ slot'[s].seen = row[RunOf(s)].status
            /\ slot'[s].seen # "absent"
        BY <1>5, <4>1, TaskLoads
      <4>3. QED
        BY <4>2 DEF TaskReads, SavedPC
    <3>4. QED
      BY <1>3, <2>3, <3>1, <3>2, <3>3
  <2>4. QED
    BY <1>2, <2>1, <2>2, <2>3
<1>6. ASSUME NEW r \in Runs, Api(r) PROVE Knows(t)'
  <2>1. slot' = slot
    BY <1>6 DEF Api, CreateRun, SendLands, SendFails, DispatchReturns, DispatchGivesUp,
                DispatchLoads, DispatchMarksFailed, ApiCrash
  <2>2. RunOf(t) \in Runs /\ sender[RunOf(t)] = "landed"
    BY <1>1, <1>2, <1>3, <2>1
  <2>3. row'[RunOf(t)] = row[RunOf(t)]
    BY <1>6, <2>2, ApiWritesUnsent
  <2>4. QED
    BY <1>4, <2>1, <2>3
<1>7. ASSUME slot' = slot PROVE RunOf(t) \in Runs
  BY <1>1, <1>2, <1>3, <1>7
<1>8. ASSUME NEW u \in Tenants, EraseTenant(u) PROVE Knows(t)'
  <2>1. slot' = slot /\ \A r \in Runs : row'[r] = row[r] \/ row'[r].status = "absent"
    BY <1>8 DEF EraseTenant, NoRow
  <2>2. QED
    BY <1>4, <1>7, <2>1
<1>9. CASE CloseOrphans
  <2>1. slot' = slot /\ \A r \in Runs : \/ row'[r] = row[r]
                                        \/ row'[r].status = "failed" /\ row[r].status \in Open
    BY <1>9 DEF CloseOrphans, reconcilerFrame, Orphans
  <2>2. QED
    BY <1>4, <1>7, <2>1
<1>10. ASSUME NEW s \in Slots, WorkerCrash(s) \/ \E m \in Msg : Pop(s, m) PROVE Knows(t)'
  <2>1. UNCHANGED row /\ \A u \in Slots : u # s => slot'[u] = slot[u]
    BY <1>10 DEF WorkerCrash, Pop, TypeOK
  <2>2. slot'[s].pc \in {"idle", "popped"}
    BY <1>10, SlotLeaves
  <2>3. t # s
    BY <1>2, <2>2 DEF SavedPC
  <2>4. QED
    BY <1>4, <2>1, <2>3
<1>11. CASE \/ ReadQueue \/ ReadUnacked \/ PassEnds \/ UNCHANGED vars
            \/ (\E r \in Runs : Age(r))
            \/ (\E m \in Msg : Restore(m) \/ RestoreEarly(m))
  <2>1. UNCHANGED <<row, slot>>
    BY <1>11 DEF ReadQueue, ReadUnacked, PassEnds, reconcilerFrame, Age, Restore,
                 RestoreEarly, vars
  <2>2. QED
    BY <1>4, <2>1
<1>12. QED
  BY <1>5, <1>6, <1>8, <1>9, <1>10, <1>11 DEF Next, Reconcile

\* The lifecycle invariant: without lost acknowledgements, early redeliveries,
\* ambiguous commits and late enqueues, the message in play is the run's only one,
\* no writer but the task that saved it finds the run succeeded, and what a writer
\* read holds when it writes.
THEOREM LifecycleInvariant == ASSUME Faults = {} PROVE Spec => []LifecycleInv
<1>1. Init => OneLiveMessage /\ WritersFindItOpen /\ TaskReads
  BY DEF Init, OneLiveMessage, WritersFindItOpen, TaskReads, InPlay, Held, Busy, IdleSlot,
         NoRow, ClaimPC, SavedPC
<1>2. (OneLiveMessage /\ WritersFindItOpen /\ TaskReads)
      /\ TypeOK /\ RetryBudget /\ [Next]_vars
        => (OneLiveMessage /\ WritersFindItOpen /\ TaskReads)'
  BY OneLiveStep, WritersStep, ReadsStep
<1>3. OneLiveMessage /\ WritersFindItOpen /\ TaskReads /\ Unsent => LifecycleInv
  BY DEF LifecycleInv, ReadsHold, TaskReads, Unsent, WritersFindItOpen
<1>4. QED
  BY <1>1, <1>2, <1>3, TypeCorrect, SentFirst, PTL DEF Spec

\* The steps that write the table.
LEMMA RowWriters ==
    ASSUME [Next]_vars
    PROVE  \/ UNCHANGED row
           \/ \E r \in Runs : CreateRun(r) \/ DispatchMarksFailed(r)
           \/ \E s \in Slots : MarkRunning(s) \/ MarkSucceeded(s) \/ MarkFailed(s)
           \/ CloseOrphans
           \/ \E t \in Tenants : EraseTenant(t)
<1>1. ASSUME NEW s \in Slots, \/ Receive(s) \/ GetRun(s) \/ LoadToMarkRunning(s)
                              \/ Execute(s) \/ Abandon(s) \/ LoadToMarkSucceeded(s)
                              \/ Announce(s) \/ LoadToMarkFailed(s)
                              \/ PublishRetry(s) \/ Ack(s) \/ WorkerCrash(s)
      PROVE  UNCHANGED row
  BY <1>1 DEF Receive, GetRun, LoadToMarkRunning, Execute, Abandon, LoadToMarkSucceeded,
              Announce, LoadToMarkFailed, PublishRetry, Ack, WorkerCrash
<1>2. ASSUME NEW r \in Runs, \/ SendLands(r) \/ SendFails(r) \/ DispatchReturns(r)
                             \/ DispatchGivesUp(r) \/ DispatchLoads(r) \/ ApiCrash(r) \/ Age(r)
      PROVE  UNCHANGED row
  BY <1>2 DEF SendLands, SendFails, DispatchReturns, DispatchGivesUp, DispatchLoads,
              ApiCrash, Age
<1>3. ASSUME NEW m \in Msg, \/ Restore(m) \/ RestoreEarly(m)
                            \/ \E s \in Slots : Pop(s, m)
      PROVE  UNCHANGED row
  BY <1>3 DEF Restore, RestoreEarly, Pop
<1>4. CASE ReadQueue \/ ReadUnacked \/ PassEnds \/ UNCHANGED vars
  BY <1>4 DEF ReadQueue, ReadUnacked, PassEnds, vars
<1>5. QED
  BY <1>1, <1>2, <1>3, <1>4 DEF Next, Api, TaskStep, Reconcile

\* Two deliveries of one run are never past the gate at the same time: nothing
\* "runs (and bills) twice" (celery.py).
THEOREM ExecutesOnce == ASSUME Faults = {} PROVE Spec => []SingleExecution
<1>1. ASSUME TypeOK, LifecycleInv, NEW s \in Slots, NEW t \in Slots, s # t, Busy(s), Busy(t),
             Claims(s, RunOf(s)), Claims(t, RunOf(s))
      PROVE  FALSE
  BY <1>1, ClaimedByOne DEF LifecycleInv, Claims, ClaimPC, SavedPC
<1>2. TypeOK /\ LifecycleInv => SingleExecution
  BY <1>1 DEF SingleExecution
<1>3. QED
  BY <1>2, TypeCorrect, LifecycleInvariant, PTL

\* A saved itinerary is taken back by nobody but the task that saved it, when it is cut
\* short between its COMMIT and the end of its try: of all the other writers of a run's
\* row, only an erasure may change one that has succeeded.
THEOREM ResultStays == ASSUME Faults = {} PROVE Spec => SucceededIsFinal
<1> DEFINE Undone(r) == \E s \in Slots : slot[s].pc = "undoing" /\ RunOf(s) = r /\ MarkFailed(s)
<1>1. ASSUME TypeOK, LifecycleInv, Next, NEW r \in Runs, row[r].status = "succeeded"
      PROVE  row'[r].status \in {"succeeded", "absent"} \/ Undone(r)
  <2>1. ASSUME NEW s \in Slots, MarkRunning(s) \/ MarkSucceeded(s) \/ MarkFailed(s)
        PROVE  row'[r] = row[r] \/ Undone(r)
    <3>1. SUFFICES ASSUME row'[r] # row[r] PROVE Undone(r)
      OBVIOUS
    <3>2. r = RunOf(s) /\ slot[s].pc \in ClaimPC
      BY <1>1, <2>1, <3>1, TaskWritesOwn DEF TaskStep
    <3>3. slot[s].pc \in SavedPC
      BY <1>1, <3>2 DEF LifecycleInv, WritersFindItOpen
    <3>4. MarkFailed(s) /\ slot[s].pc = "undoing"
      BY <2>1, <3>3 DEF MarkRunning, MarkSucceeded, MarkFailed, SavedPC
    <3>5. QED
      BY <3>2, <3>4
  <2>2. ASSUME NEW q \in Runs, CreateRun(q) \/ DispatchMarksFailed(q) PROVE row'[r] = row[r]
    <3>1. sender[q] # "landed"
      BY <1>1, <2>2 DEF CreateRun, DispatchMarksFailed, LifecycleInv, WritersFindItOpen
    <3>2. q # r
      BY <1>1, <3>1 DEF LifecycleInv, WritersFindItOpen
    <3>3. QED
      BY <1>1, <2>2, <3>2 DEF CreateRun, DispatchMarksFailed, Update, FailedUpdate, TypeOK
  <2>3. CASE CloseOrphans \/ \E t \in Tenants : EraseTenant(t)
    BY <1>1, <2>3 DEF CloseOrphans, Orphans, Open, EraseTenant, NoRow
  <2>4. CASE UNCHANGED row
    BY <1>1, <2>4
  <2>5. QED
    BY <1>1, <2>1, <2>2, <2>3, <2>4, RowWriters
<1>2. TypeOK /\ LifecycleInv /\ [Next]_vars
        => [\A r \in Runs : row[r].status = "succeeded" =>
               \/ row'[r].status \in {"succeeded", "absent"}
               \/ \E s \in Slots : slot[s].pc = "undoing" /\ RunOf(s) = r /\ MarkFailed(s)]_vars
  BY <1>1
<1>3. QED
  BY <1>2, TypeCorrect, LifecycleInvariant, PTL DEF Spec, SucceededIsFinal

\* Whatever the faults: a succeeded run carries a result, a failed one an error.
THEOREM Explained == Spec => []TerminalExplained
<1>1. Init => TerminalExplained
  BY DEF Init, TerminalExplained, NoRow
<1>2. ASSUME TypeOK, TerminalExplained, [Next]_vars PROVE TerminalExplained'
  <2>1. CASE UNCHANGED row
    BY <1>2, <2>1 DEF TerminalExplained
  <2>2. ASSUME NEW q \in Runs, NEW new, UNCHANGED row \/ row' = [row EXCEPT ![q] = new],
               new.status = "succeeded" => new.result,
               new.status = "failed" => new.error # "none"
        PROVE  TerminalExplained'
    <3>1. CASE row' = [row EXCEPT ![q] = new]
      <4>1. \A r \in Runs : row'[r] = IF r = q THEN new ELSE row[r]
        BY <1>2, <3>1 DEF TypeOK
      <4>2. QED
        BY <1>2, <2>2, <4>1 DEF TerminalExplained
    <3>2. QED
      BY <2>1, <2>2, <3>1
  <2>3. ASSUME NEW s \in Slots, MarkRunning(s) \/ MarkSucceeded(s) \/ MarkFailed(s)
        PROVE  TerminalExplained'
    <3>1. RunOf(s) \in Runs
      BY <1>2, <2>3, BusyRun DEF MarkRunning, MarkSucceeded, MarkFailed, Busy
    <3>2. CASE MarkRunning(s)
      <4> DEFINE new == Written(RunOf(s), slot[s].seen, "running", "none", FALSE)
      <4>1. UNCHANGED row \/ row' = [row EXCEPT ![RunOf(s)] = new]
        BY <3>2 DEF MarkRunning, Update, StaleUpdate, FailedUpdate
      <4>2. row[RunOf(s)].result \in BOOLEAN
        BY <1>2, <3>1 DEF TypeOK, Row
      <4>3. new.status = "succeeded" => new.result
        BY <1>2, <3>1, <4>2 DEF Written, TerminalExplained
      <4>4. new.status = "failed" => new.error # "none"
        BY <1>2, <3>1 DEF Written, TerminalExplained
      <4> HIDE DEF new
      <4>5. QED
        BY <2>2, <3>1, <4>1, <4>3, <4>4
    <3>3. CASE MarkSucceeded(s)
      <4> DEFINE new == Written(RunOf(s), slot[s].seen, "succeeded", "none", TRUE)
      <4>1. UNCHANGED row \/ row' = [row EXCEPT ![RunOf(s)] = new]
        BY <3>3 DEF MarkSucceeded, Update, StaleUpdate, FailedUpdate
      <4>2. row[RunOf(s)].result \in BOOLEAN
        BY <1>2, <3>1 DEF TypeOK, Row
      <4>3. new.status = "succeeded" => new.result
        BY <1>2, <3>1, <4>2 DEF Written, TerminalExplained
      <4>4. new.status = "failed" => new.error # "none"
        BY <1>2, <3>1 DEF Written, TerminalExplained
      <4> HIDE DEF new
      <4>5. QED
        BY <2>2, <3>1, <4>1, <4>3, <4>4
    <3>4. CASE MarkFailed(s)
      <4> DEFINE new == Written(RunOf(s), slot[s].seen, "failed", "run", FALSE)
      <4>1. UNCHANGED row \/ row' = [row EXCEPT ![RunOf(s)] = new]
        BY <3>4 DEF MarkFailed, Update, StaleUpdate, FailedUpdate
      <4>2. row[RunOf(s)].result \in BOOLEAN
        BY <1>2, <3>1 DEF TypeOK, Row
      <4>3. new.status = "succeeded" => new.result
        BY <1>2, <3>1, <4>2 DEF Written, TerminalExplained
      <4>4. new.status = "failed" => new.error # "none"
        BY <1>2, <3>1 DEF Written, TerminalExplained
      <4> HIDE DEF new
      <4>5. QED
        BY <2>2, <3>1, <4>1, <4>3, <4>4
    <3>5. QED
      BY <2>3, <3>2, <3>3, <3>4
  <2>4. ASSUME NEW q \in Runs, DispatchMarksFailed(q) PROVE TerminalExplained'
    <3> DEFINE new == Written(q, api[q].seen, "failed", "dispatch", FALSE)
    <3>1. UNCHANGED row \/ row' = [row EXCEPT ![q] = new]
      BY <2>4 DEF DispatchMarksFailed, Update, FailedUpdate
    <3>2. row[q].result \in BOOLEAN
      BY <1>2 DEF TypeOK, Row
    <3>3. new.status = "succeeded" => new.result
      BY <1>2, <3>2 DEF Written, TerminalExplained
    <3>4. new.status = "failed" => new.error # "none"
      BY <1>2 DEF Written, TerminalExplained
    <3> HIDE DEF new
    <3>5. QED
      BY <2>2, <3>1, <3>3, <3>4
  <2>5. ASSUME NEW q \in Runs, CreateRun(q) PROVE TerminalExplained'
    BY <1>2, <2>5 DEF CreateRun, TerminalExplained, TypeOK
  <2>6. CASE CloseOrphans \/ \E t \in Tenants : EraseTenant(t)
    BY <1>2, <2>6 DEF CloseOrphans, EraseTenant, NoRow, TerminalExplained
  <2>7. QED
    BY <1>2, <2>1, <2>3, <2>4, <2>5, <2>6, RowWriters
<1>3. QED
  BY <1>1, <1>2, TypeCorrect, PTL DEF Spec

\* Under every fault: a run the API refused is closed and no worker executes it unless
\* its send landed after all, and that takes a wait_for that gave up on a send.
THEOREM RefusedRuns ==
    Spec => [](/\ \A r \in Runs : row[r].error = "dispatch" /\ sender[r] # "landed" =>
                     /\ row[r].status = "failed"
                     /\ \A s \in Slots : Busy(s) => ~Claims(s, r)
               /\ "late_send" \notin Faults => RefusedNeverRuns)
<1>1. ASSUME Unsent, NEW r \in Runs, sender[r] # "landed", NEW s \in Slots, Busy(s)
      PROVE  ~Claims(s, r)
  BY <1>1 DEF Unsent, InPlay, Held, Claims, RunOf
<1>2. Unsent => \A r \in Runs : row[r].error = "dispatch" /\ sender[r] # "landed" =>
                   /\ row[r].status = "failed"
                   /\ \A s \in Slots : Busy(s) => ~Claims(s, r)
  BY <1>1 DEF Unsent
<1>3. Unsent => ("late_send" \notin Faults => RefusedNeverRuns)
  <2>1. SUFFICES ASSUME Unsent, "late_send" \notin Faults, NEW r \in Runs,
                        row[r].error = "dispatch"
                 PROVE  /\ row[r].status = "failed"
                        /\ \A s \in Slots : Busy(s) => ~Claims(s, r)
    BY DEF RefusedNeverRuns
  <2>2. sender[r] # "landed"
    BY <2>1 DEF Unsent
  <2>3. QED
    BY <1>2, <2>1, <2>2
<1>4. QED
  BY <1>2, <1>3, SentFirst, PTL

\* The right to be forgotten, under every fault: once a run exists, a row that is
\* gone stays gone, whoever was still about to write it.
THEOREM ErasureLasts == Spec => ErasedStaysErased
<1>1. ASSUME TypeOK, Next, NEW r \in Runs, api[r].pc # "idle", row[r].status = "absent"
      PROVE  row'[r].status = "absent"
  <2>1. ASSUME NEW q \in Runs, NEW seen, NEW status, NEW error, NEW result,
               \/ Update(q, seen, status, error, result)
               \/ StaleUpdate(q, seen, status, error, result)
               \/ FailedUpdate(q, seen, status, error, result)
        PROVE  row'[r] = row[r]
    BY <1>1, <2>1 DEF Update, StaleUpdate, FailedUpdate, TypeOK
  <2>2. ASSUME NEW s \in Slots, MarkRunning(s) \/ MarkSucceeded(s) \/ MarkFailed(s)
        PROVE  row'[r] = row[r]
    <3>1. RunOf(s) \in Runs
      BY <1>1, <2>2, BusyRun DEF MarkRunning, MarkSucceeded, MarkFailed, Busy
    <3>2. QED
      BY <2>1, <2>2, <3>1 DEF MarkRunning, MarkSucceeded, MarkFailed
  <2>3. ASSUME NEW q \in Runs, CreateRun(q) \/ DispatchMarksFailed(q) PROVE row'[r] = row[r]
    <3>1. CASE CreateRun(q)
      BY <1>1, <3>1 DEF CreateRun, TypeOK
    <3>2. CASE DispatchMarksFailed(q)
      BY <2>1, <3>2 DEF DispatchMarksFailed
    <3>3. QED
      BY <2>3, <3>1, <3>2
  <2>4. CASE CloseOrphans \/ \E t \in Tenants : EraseTenant(t)
    BY <1>1, <2>4 DEF CloseOrphans, Orphans, Open, EraseTenant, NoRow
  <2>5. QED
    BY <1>1, <2>2, <2>3, <2>4, RowWriters
<1>2. TypeOK /\ [Next]_vars
        => [\A r \in Runs : api[r].pc # "idle" /\ row[r].status = "absent"
                               => row'[r].status = "absent"]_vars
  BY <1>1
<1>3. QED
  BY <1>2, TypeCorrect, PTL DEF Spec, ErasedStaysErased

-----------------------------------------------------------------------------
(* What the two reads of a reconciler pass see, under every fault. *)

\* While nobody has crashed, an unacknowledged message is in somebody's hands, what is
\* held has left the list, and all of it but what was just popped is in the hash.
AllHeld ==
    /\ \A m \in unacked : \E s \in Slots : Busy(s) /\ slot[s].msg = m
    /\ \A s \in Slots : Busy(s) /\ slot[s].pc # "popped" => slot[s].msg \in unacked
    /\ \A s \in Slots : Busy(s) => slot[s].msg \notin queued
    /\ \A s, t \in Slots : Busy(s) /\ Busy(t) /\ slot[s].msg = slot[t].msg => s = t

\* An old row is one whose request is over and whose send is decided, so no first
\* delivery of its run can appear behind the back of a pass.
OldIsSettled == \A r \in aged : sender[r] # "sending" /\ api[r].pc # "idle"

NoFirst(Q) == \A m \in Q : m.run \in aged => m.retries > 0

PassSees ==
    /\ crashes = 0 => AllHeld
    /\ OldIsSettled
    /\ crashes = 0 /\ reconciler # "idle" => NoFirst(queued)

\* Rows only stop being old, and the messages stay where they are.
LEMMA PassSeesFrame ==
    ASSUME PassSees, aged' \subseteq aged, UNCHANGED <<queued, crashes>>,
           reconciler' \in {"idle", reconciler}, AllHeld => AllHeld',
           \A r \in aged : sender'[r] # "sending" /\ api'[r].pc # "idle"
    PROVE  PassSees'
  BY DEF PassSees, OldIsSettled, NoFirst

\* A step of a task puts no first delivery back in the list.
LEMMA TaskKeepsPass ==
    ASSUME TypeOK, PassSees, NEW s \in Slots, TaskStep(s) \/ Abandon(s)
    PROVE  PassSees'
<1>1. aged' \subseteq aged
  BY TaskSays
<1>2. CASE ~Receive(s) /\ ~PublishRetry(s) /\ ~Ack(s)
  <2>1. /\ UNCHANGED taskFrame
        /\ \A t \in Slots : slot'[t].msg = slot[t].msg
        /\ \A t \in Slots : Busy(t)' <=> Busy(t)
        /\ \A t \in Slots : slot'[t].pc = "popped" <=> slot[t].pc = "popped"
    BY <1>2, TaskMoves DEF Busy
  <2>2. AllHeld => AllHeld'
    BY <2>1 DEF AllHeld, taskFrame
  <2>3. QED
    BY <1>1, <2>1, <2>2, PassSeesFrame DEF taskFrame, PassSees, OldIsSettled
<1>3. CASE Receive(s)
  <2>1. /\ slot[s].pc = "popped"
        /\ \A t \in Slots : slot'[t].msg = slot[t].msg
        /\ \A t \in Slots : t # s => slot'[t] = slot[t]
        /\ \A t \in Slots : Busy(t)' <=> Busy(t)
        /\ unacked' = unacked \cup {slot[s].msg}
        /\ UNCHANGED <<queued, aged, api, sender, reconciler, crashes>>
    BY <1>3, ReceiveMoves
  <2>2. AllHeld => AllHeld'
    BY <2>1 DEF AllHeld, Busy
  <2>3. QED
    BY <2>1, <2>2, PassSeesFrame DEF PassSees, OldIsSettled
<1>4. CASE PublishRetry(s)
  <2>1. /\ UNCHANGED <<aged, api, sender, unacked, reconciler, crashes>>
        /\ slot[s].pc = "retrying"
    BY <1>4 DEF PublishRetry
  <2>2. Goto(s, "requeued") \/ Goto(s, "acking")
    BY <1>4 DEF PublishRetry
  <2>3. /\ \A t \in Slots : slot'[t].msg = slot[t].msg
        /\ \A t \in Slots : Busy(t)' <=> Busy(t)
        /\ \A t \in Slots : slot'[t].pc = "popped" <=> slot[t].pc = "popped"
    BY <2>1, <2>2, MoveEffect DEF Goto, Busy
  <2>4. \/ queued' = queued
        \/ \E c \in Copies :
              /\ [run |-> RunOf(s), retries |-> slot[s].msg.retries + 1, copy |-> c] \notin Held
              /\ queued' = queued \cup {[run |-> RunOf(s),
                                         retries |-> slot[s].msg.retries + 1, copy |-> c]}
    BY <1>4, Zenon DEF PublishRetry
  <2>5. \A m \in queued' : m \in queued \/ m \notin Held
    BY <2>4
  <2>6. AllHeld => AllHeld'
    BY <2>1, <2>3, <2>5 DEF AllHeld, Held
  <2>7. slot[s].msg.retries + 1 > 0
    <3>1. slot[s].msg.retries \in 0..MaxRetries
      BY <2>1, BusyRun DEF Busy, Msg
    <3>2. QED
      BY <3>1, Bounds
  <2>8. \A m \in queued' : m \in queued \/ m.retries > 0
    <3>1. \A m \in queued' : m \in queued \/ m.retries = slot[s].msg.retries + 1
      <4>1. CASE queued' = queued
        BY <4>1
      <4>2. ASSUME NEW c \in Copies,
                   queued' = queued \cup {[run |-> RunOf(s),
                                           retries |-> slot[s].msg.retries + 1, copy |-> c]}
            PROVE  \A m \in queued' : m \in queued \/ m.retries = slot[s].msg.retries + 1
        <5> DEFINE n == slot[s].msg.retries + 1
        <5>1. queued' = queued \cup {[run |-> RunOf(s), retries |-> n, copy |-> c]}
          BY <4>2
        <5> HIDE DEF n
        <5>2. \A m \in queued' : m \in queued \/ m.retries = n
          BY <5>1
        <5>3. QED
          BY <5>2 DEF n
      <4>3. QED
        BY <2>4, <4>1, <4>2, Zenon
    <3>2. QED
      BY <2>7, <3>1
  <2>9. QED
    BY <2>1, <2>6, <2>8 DEF PassSees, OldIsSettled, NoFirst
<1>5. CASE Ack(s)
  <2>1. /\ UNCHANGED <<aged, api, sender, queued, reconciler, crashes>>
        /\ unacked' = unacked \ {slot[s].msg} /\ Busy(s)
        /\ \A t \in Slots : t # s => slot'[t] = slot[t]
    BY <1>5 DEF Ack, TypeOK, Busy
  <2>2. ~Busy(s)'
    BY <1>5, IdleSlotType DEF Ack, TypeOK, Busy
  <2>3. AllHeld => AllHeld'
    <3>1. SUFFICES ASSUME AllHeld PROVE AllHeld'
      OBVIOUS
    <3>2. \A t \in Slots : t # s /\ Busy(t) => slot[t].msg # slot[s].msg
      BY <2>1, <3>1 DEF AllHeld
    <3>3. \A m \in unacked' : \E t \in Slots : Busy(t)' /\ slot'[t].msg = m
      <4>1. SUFFICES ASSUME NEW m \in unacked' PROVE \E t \in Slots : Busy(t)' /\ slot'[t].msg = m
        OBVIOUS
      <4>2. PICK t \in Slots : Busy(t) /\ slot[t].msg = m
        BY <2>1, <3>1 DEF AllHeld
      <4>3. t # s
        BY <2>1, <4>2
      <4>4. QED
        BY <2>1, <4>2, <4>3 DEF Busy
    <3>4. \A t \in Slots : Busy(t)' => t # s /\ Busy(t) /\ slot'[t] = slot[t]
      BY <2>1, <2>2 DEF Busy
    <3>5. QED
      BY <2>1, <3>1, <3>2, <3>3, <3>4 DEF AllHeld
  <2>4. QED
    BY <2>1, <2>3 DEF PassSees, OldIsSettled, NoFirst
<1>6. QED
  BY <1>2, <1>3, <1>4, <1>5

\* Nor does a step of the API.
LEMMA ApiKeepsPass ==
    ASSUME TypeOK, PassSees, Unsent, NEW r \in Runs, Api(r)
    PROVE  PassSees'
<1>1. UNCHANGED <<slot, unacked, reconciler, crashes>> /\ (queued' = queued => (AllHeld => AllHeld'))
  <2>1. UNCHANGED <<slot, unacked, reconciler, crashes>>
    BY DEF Api, CreateRun, SendLands, SendFails, DispatchReturns, DispatchGivesUp,
           DispatchLoads, DispatchMarksFailed, ApiCrash
  <2>2. QED
    BY <2>1 DEF AllHeld, Busy
<1>2. ASSUME NEW pc \in {"dispatching", "gaveup", "closing", "over"}, NEW seen,
             ApiGoto(r, pc, seen), NEW q \in aged
      PROVE  api'[q].pc # "idle"
  <2>1. q \in Runs /\ api[q].pc # "idle"
    BY DEF PassSees, OldIsSettled, TypeOK
  <2>2. QED
    BY <1>2, <2>1, ApiGotoWhole
<1>3. CASE CreateRun(r)
  <2>1. /\ UNCHANGED <<aged, queued>> /\ r \notin aged
        /\ \A q \in Runs : q # r => sender'[q] = sender[q]
        /\ \A q \in Runs : q # r => api'[q] = api[q]
    <3>1. UNCHANGED <<aged, queued>> /\ api[r].pc = "idle"
      BY <1>3 DEF CreateRun
    <3>2. \E pc \in {"dispatching", "over"} : ApiGoto(r, pc, "absent")
      BY <1>3 DEF CreateRun
    <3>3. \A q \in Runs : q # r => api'[q] = api[q]
      BY <3>2, ApiGotoWhole
    <3>4. \E sent \in {"sending", "failed"} : sender' = [sender EXCEPT ![r] = sent]
      BY <1>3 DEF CreateRun
    <3>5. \A q \in Runs : q # r => sender'[q] = sender[q]
      BY <3>4 DEF TypeOK
    <3>6. QED
      BY <3>1, <3>3, <3>5 DEF PassSees, OldIsSettled
  <2>2. \A q \in aged : sender'[q] # "sending" /\ api'[q].pc # "idle"
    BY <2>1 DEF PassSees, OldIsSettled, TypeOK
  <2>3. QED
    BY <1>1, <2>1, <2>2, PassSeesFrame
<1>4. CASE SendLands(r)
  <2>1. /\ UNCHANGED <<aged, api>> /\ sender[r] = "sending" /\ r \notin aged
        /\ \A q \in Runs : q # r => sender'[q] = sender[q]
    BY <1>4 DEF SendLands, PassSees, OldIsSettled, TypeOK
  <2>2. PICK c \in Copies : queued' = queued \cup {[run |-> r, retries |-> 0, copy |-> c]}
    BY <1>4 DEF SendLands
  <2>3. \A m \in queued' : m \in queued \/ m.run = r
    BY <2>2
  <2>4. \A q \in aged : sender'[q] # "sending" /\ api'[q].pc # "idle"
    BY <2>1 DEF PassSees, OldIsSettled, TypeOK
  <2>5. AllHeld => AllHeld'
    <3>1. \A t \in Slots : Busy(t) => slot[t].msg.run # r
      BY <2>1 DEF Unsent, InPlay, Held
    <3>2. QED
      BY <1>1, <2>3, <3>1 DEF AllHeld, Busy
  <2>6. QED
    BY <1>1, <2>1, <2>3, <2>4, <2>5 DEF PassSees, OldIsSettled, NoFirst
<1>5. CASE SendFails(r)
  <2>1. /\ UNCHANGED <<aged, api, queued>>
        /\ \A q \in Runs : sender'[q] \in {"failed", sender[q]}
    BY <1>5 DEF SendFails, TypeOK
  <2>2. \A q \in aged : sender'[q] # "sending" /\ api'[q].pc # "idle"
    BY <2>1 DEF PassSees, OldIsSettled, TypeOK
  <2>3. QED
    BY <1>1, <2>1, <2>2, PassSeesFrame
<1>6. CASE DispatchReturns(r) \/ DispatchGivesUp(r) \/ DispatchLoads(r)
  <2>1. /\ UNCHANGED <<aged, sender, queued>>
        /\ \E pc \in {"dispatching", "gaveup", "closing", "over"},
              seen \in {"absent", row[r].status} : ApiGoto(r, pc, seen)
    BY <1>6 DEF DispatchReturns, DispatchGivesUp, DispatchLoads
  <2>2. \A q \in aged : sender'[q] # "sending" /\ api'[q].pc # "idle"
    BY <1>2, <2>1 DEF PassSees, OldIsSettled
  <2>3. QED
    BY <1>1, <2>1, <2>2, PassSeesFrame
<1>7. CASE DispatchMarksFailed(r)
  <2>1. /\ UNCHANGED <<sender, queued>> /\ aged' \subseteq aged
        /\ ApiGoto(r, "over", "absent")
    BY <1>7 DEF DispatchMarksFailed, Update, FailedUpdate
  <2>2. \A q \in aged : sender'[q] # "sending" /\ api'[q].pc # "idle"
    BY <1>2, <2>1 DEF PassSees, OldIsSettled
  <2>3. QED
    BY <1>1, <2>1, <2>2, PassSeesFrame
<1>8. CASE ApiCrash(r)
  <2>1. /\ UNCHANGED <<aged, queued>> /\ ApiGoto(r, "over", "absent")
        /\ \A q \in Runs : sender'[q] \in {"failed", sender[q]}
    BY <1>8 DEF ApiCrash, TypeOK
  <2>2. \A q \in aged : sender'[q] # "sending" /\ api'[q].pc # "idle"
    BY <1>2, <2>1 DEF PassSees, OldIsSettled, TypeOK
  <2>3. QED
    BY <1>1, <2>1, <2>2, PassSeesFrame
<1>9. QED
  BY <1>3, <1>4, <1>5, <1>6, <1>7, <1>8 DEF Api

\* Nor does any other step: the invariant of FirstDeliverySpared.
LEMMA PassSeesStep == ASSUME TypeOK, PassSees, Unsent, [Next]_vars PROVE PassSees'
<1> USE DEF PassSees, OldIsSettled
<1>1. ASSUME NEW s \in Slots, TaskStep(s) \/ Abandon(s) PROVE PassSees'
  BY <1>1, TaskKeepsPass
<1>2. ASSUME NEW r \in Runs, Api(r) PROVE PassSees'
  BY <1>2, ApiKeepsPass
<1>3. ASSUME crashes' = crashes + 1, UNCHANGED <<aged, api, sender>> PROVE PassSees'
  <2>1. crashes' # 0
    <3>1. crashes \in 0..MaxCrashes
      BY DEF TypeOK
    <3>2. QED
      BY <1>3, <3>1, Bounds
  <2>2. QED
    BY <1>3, <2>1
<1>4. ASSUME NEW s \in Slots, WorkerCrash(s) PROVE PassSees'
  BY <1>3, <1>4 DEF WorkerCrash
<1>5. ASSUME NEW m \in Msg, Restore(m) \/ RestoreEarly(m) PROVE PassSees'
  <2>1. CASE Restore(m)
    <3>1. m \in unacked /\ m \notin Held /\ UNCHANGED <<aged, api, sender, crashes>>
      BY <2>1 DEF Restore
    <3>2. ~AllHeld
      BY <3>1 DEF AllHeld, Held
    <3>3. QED
      BY <3>1, <3>2
  <2>2. QED
    BY <1>3, <1>5, <2>1 DEF RestoreEarly
<1>6. ASSUME NEW s \in Slots, NEW m \in Msg, Pop(s, m) PROVE PassSees'
  <2>1. /\ m \in queued /\ queued' = queued \ {m}
        /\ UNCHANGED <<aged, api, sender, unacked, reconciler, crashes>> /\ ~Busy(s)
    BY <1>6 DEF Pop
  <2>2. \A t \in Slots : IF t = s THEN slot'[t].pc = "popped" /\ slot'[t].msg = m
                                  ELSE slot'[t] = slot[t]
    BY <1>6 DEF Pop, TypeOK
  <2>3. \A t \in Slots : Busy(t)' <=> Busy(t) \/ t = s
    BY <2>1, <2>2 DEF Busy
  <2>4. AllHeld => AllHeld'
    <3>1. SUFFICES ASSUME AllHeld PROVE AllHeld'
      OBVIOUS
    <3>2. \A t \in Slots : Busy(t) => t # s /\ slot[t].msg # m
      BY <2>1, <3>1 DEF AllHeld
    <3>3. \A n \in unacked' : \E t \in Slots : Busy(t)' /\ slot'[t].msg = n
      BY <2>1, <2>2, <2>3, <3>1, <3>2 DEF AllHeld
    <3>4. \A t \in Slots : Busy(t)' => slot'[t].msg \notin queued'
      BY <2>1, <2>2, <2>3, <3>1 DEF AllHeld
    <3>5. \A t \in Slots : Busy(t)' /\ slot'[t].pc # "popped" => slot'[t].msg \in unacked'
      BY <2>1, <2>2, <2>3, <3>1 DEF AllHeld
    <3>6. \A t, u \in Slots : Busy(t)' /\ Busy(u)' /\ slot'[t].msg = slot'[u].msg => t = u
      BY <2>2, <2>3, <3>1, <3>2 DEF AllHeld
    <3>7. QED
      BY <3>3, <3>4, <3>5, <3>6 DEF AllHeld
  <2>5. QED
    BY <2>1, <2>4 DEF NoFirst
<1>7. ASSUME UNCHANGED <<slot, queued, unacked>> PROVE AllHeld => AllHeld'
  BY <1>7 DEF AllHeld, Busy
<1>8. ASSUME NEW r \in Runs, Age(r) PROVE PassSees'
  <2>1. /\ aged' = aged \cup {r} /\ sender[r] # "sending" /\ api[r].pc # "idle"
        /\ reconciler = "idle"
        /\ UNCHANGED <<slot, api, sender, queued, unacked, reconciler, crashes>>
    BY <1>8 DEF Age, reconcilerFrame
  <2>2. QED
    BY <1>7, <2>1
<1>9. CASE CloseOrphans \/ PassEnds \/ \E u \in Tenants : EraseTenant(u)
  <2>1. /\ aged' \subseteq aged /\ reconciler' \in {"idle", reconciler}
        /\ UNCHANGED <<slot, api, sender, queued, unacked, crashes>>
    BY <1>9 DEF CloseOrphans, PassEnds, EraseTenant, reconcilerFrame
  <2>2. QED
    BY <1>7, <2>1, PassSeesFrame
<1>10. CASE ReadQueue \/ ReadUnacked
  <2>1. /\ UNCHANGED <<slot, api, sender, queued, unacked, crashes, aged>>
        /\ queued = {} \/ reconciler = "queue empty"
    BY <1>10 DEF ReadQueue, ReadUnacked, reconcilerFrame
  <2>2. QED
    BY <1>7, <2>1 DEF NoFirst
<1>11. CASE UNCHANGED vars
  <2>1. UNCHANGED <<slot, api, sender, queued, unacked, crashes, aged, reconciler>>
    BY <1>11 DEF vars
  <2>2. QED
    BY <1>7, <2>1, PassSeesFrame
<1>12. QED
  BY <1>1, <1>2, <1>4, <1>5, <1>6, <1>8, <1>9, <1>10, <1>11 DEF Next, Reconcile

\* The reconciler finds nothing in flight only if, of the old runs' first deliveries,
\* none is on its way but one a worker had popped and not stored yet: as long as nobody
\* has crashed, a first delivery moves from the list to the worker and on to the hash,
\* in the order the pass reads the two.
THEOREM FirstDeliveryKept == Spec => FirstDeliverySpared
<1>1. Init => PassSees
  BY DEF Init, PassSees, AllHeld, OldIsSettled, Busy, IdleSlot
<1>2. TypeOK /\ PassSees /\ Unsent /\ [Next]_vars => PassSees'
  BY PassSeesStep
<1>3. ASSUME PassSees, Next, reconciler # "clear", reconciler' = "clear", crashes = 0,
             NEW m \in InPlay, m.run \in Orphans
      PROVE  m.retries > 0 \/ m \in Popped
  <2>1. ReadUnacked
    <3>1. ~Reconcile => reconciler' = reconciler
      <4>1. ASSUME NEW s \in Slots, TaskStep(s) \/ Abandon(s) PROVE reconciler' = reconciler
        BY <4>1, TaskFrame
      <4>2. ASSUME NEW s \in Slots, WorkerCrash(s) \/ \E n \in Msg : Pop(s, n)
            PROVE  reconciler' = reconciler
        BY <4>2 DEF WorkerCrash, Pop
      <4>3. ASSUME NEW r \in Runs, Api(r) \/ Age(r) PROVE reconciler' = reconciler
        BY <4>3 DEF Api, CreateRun, SendLands, SendFails, DispatchReturns, DispatchGivesUp,
                    DispatchLoads, DispatchMarksFailed, ApiCrash, Age
      <4>4. ASSUME NEW n \in Msg, Restore(n) \/ RestoreEarly(n) PROVE reconciler' = reconciler
        BY <4>4 DEF Restore, RestoreEarly
      <4>5. ASSUME NEW u \in Tenants, EraseTenant(u) PROVE reconciler' = reconciler
        BY <4>5 DEF EraseTenant
      <4>6. QED
        BY <1>3, <4>1, <4>2, <4>3, <4>4, <4>5 DEF Next
    <3>2. ~ReadQueue /\ ~CloseOrphans /\ ~PassEnds
      BY <1>3 DEF ReadQueue, CloseOrphans, PassEnds
    <3>3. QED
      BY <1>3, <3>1, <3>2 DEF Reconcile
  <2>2. unacked = {} /\ reconciler # "idle"
    BY <2>1 DEF ReadUnacked
  <2>3. NoFirst(queued) /\ AllHeld
    BY <1>3, <2>2 DEF PassSees
  <2>4. CASE m \in queued
    BY <1>3, <2>3, <2>4 DEF NoFirst, Orphans
  <2>5. CASE m \in Held
    <3>1. PICK s \in Slots : Busy(s) /\ slot[s].msg = m
      BY <2>5 DEF Held
    <3>2. slot[s].pc = "popped"
      BY <2>2, <2>3, <3>1 DEF AllHeld
    <3>3. QED
      BY <3>1, <3>2 DEF Popped
  <2>6. QED
    BY <1>3, <2>2, <2>4, <2>5 DEF InPlay
<1>4. PassSees /\ [Next]_vars
        => [reconciler # "clear" /\ reconciler' = "clear" /\ crashes = 0 =>
               \A m \in InPlay : m.run \in Orphans => m.retries > 0 \/ m \in Popped]_vars
  BY <1>3
<1>5. QED
  BY <1>1, <1>2, <1>4, TypeCorrect, SentFirst, PTL DEF Spec, FirstDeliverySpared

-----------------------------------------------------------------------------
(* The lifecycle implements its contract, without the four faults. *)

\* How the abstract state follows the concrete one.
LEMMA SameStatus ==
    ASSUME UNCHANGED row, \A r \in Runs : api'[r].pc = "idle" <=> api[r].pc = "idle"
    PROVE  runStatus' = runStatus
  BY DEF runStatus

\* A row that is written changes the contract's status of its run alone.
LEMMA StatusWritten ==
    ASSUME TypeOK, NEW r \in Runs, NEW new, row' = [row EXCEPT ![r] = new],
           new.status # "absent", api'[r].pc # "idle",
           \A q \in Runs : q # r => (api'[q].pc = "idle" <=> api[q].pc = "idle")
    PROVE  runStatus' = [runStatus EXCEPT ![r] = new.status]
<1>1. \A q \in Runs : row'[q] = IF q = r THEN new ELSE row[q]
  BY DEF TypeOK
<1>2. \A q \in Runs : runStatus'[q] = IF q = r THEN new.status ELSE runStatus[q]
  BY <1>1 DEF runStatus
<1>3. /\ runStatus = [q \in Runs |-> runStatus[q]]
      /\ runStatus' = [q \in Runs |-> runStatus'[q]]
  BY DEF runStatus
<1>4. QED
  BY <1>2, <1>3

\* Slots that do not pass the gate, nor come back from behind it, claim nothing.
LEMMA SameClaims ==
    ASSUME \A s \in Slots : \/ slot'[s] = slot[s]
                            \/ slot[s].pc \notin ClaimPC /\ slot'[s].pc \notin ClaimPC
    PROVE  claimedRuns' = claimedRuns
<1>1. ASSUME NEW s \in Slots, NEW r \in Runs
      PROVE  (Busy(s) /\ Claims(s, r))' <=> Busy(s) /\ Claims(s, r)
  BY DEF Busy, Claims, RunOf
<1>2. QED
  BY <1>1 DEF claimedRuns

\* What a slot's move makes of the contract's claims.
LEMMA ClaimMoves ==
    ASSUME TypeOK, OneLiveMessage, NEW s \in Slots, slot[s].pc # "idle",
           \A t \in Slots : t # s => slot'[t] = slot[t],
           slot'[s].pc \in ClaimPC => slot'[s].msg = slot[s].msg /\ slot[s].pc # "requeued"
    PROVE  /\ RunOf(s) \in Runs
           /\ slot[s].pc \in ClaimPC => RunOf(s) \in claimedRuns
           /\ (slot[s].pc \in ClaimPC <=> slot'[s].pc \in ClaimPC) => claimedRuns' = claimedRuns
           /\ slot[s].pc \in ClaimPC /\ slot'[s].pc \notin ClaimPC =>
                 claimedRuns' = claimedRuns \ {RunOf(s)}
           /\ slot[s].pc \notin ClaimPC /\ slot'[s].pc \in ClaimPC =>
                 RunOf(s) \notin claimedRuns /\ claimedRuns' = claimedRuns \cup {RunOf(s)}
<1> DEFINE P(t, r) == slot[t].pc \in ClaimPC /\ RunOf(t) = r
           Q(t, r) == slot'[t].pc \in ClaimPC /\ RunOf(t)' = r
           r0 == RunOf(s)
<1>1. r0 \in Runs
  BY BusyRun DEF Busy
<1>2. \A r \in Runs : r \in claimedRuns <=> \E t \in Slots : P(t, r)
  BY DEF claimedRuns, Busy, Claims, ClaimPC, SavedPC
<1>3. \A r \in Runs : r \in claimedRuns' <=> \E t \in Slots : Q(t, r)
  BY DEF claimedRuns, Busy, Claims, ClaimPC, SavedPC
<1>4. \A t \in Slots : t # s => \A r \in Runs : P(t, r) <=> Q(t, r)
  BY DEF RunOf
<1>5. \A r \in Runs : /\ P(s, r) <=> slot[s].pc \in ClaimPC /\ r = r0
                      /\ Q(s, r) <=> slot'[s].pc \in ClaimPC /\ r = r0
  BY DEF RunOf
<1>6. \/ slot[s].pc \in ClaimPC \/ slot'[s].pc \in ClaimPC
      => \A t \in Slots : t # s => ~P(t, r0) /\ ~Q(t, r0)
  BY <1>1, <1>4, ClaimedByOne DEF ClaimPC, SavedPC
<1>7. claimedRuns \subseteq Runs /\ claimedRuns' \subseteq Runs
  BY DEF claimedRuns
<1> HIDE DEF P, Q, r0
<1>8. slot[s].pc \in ClaimPC => r0 \in claimedRuns
  BY <1>1, <1>2, <1>5
<1>9. ASSUME NEW r \in Runs, r # r0 PROVE r \in claimedRuns' <=> r \in claimedRuns
  BY <1>2, <1>3, <1>4, <1>5, <1>9
<1>10. /\ slot'[s].pc \in ClaimPC => r0 \in claimedRuns'
       /\ slot[s].pc \in ClaimPC /\ slot'[s].pc \notin ClaimPC => r0 \notin claimedRuns'
       /\ slot[s].pc \notin ClaimPC /\ slot'[s].pc \in ClaimPC => r0 \notin claimedRuns
       /\ slot[s].pc \notin ClaimPC /\ slot'[s].pc \notin ClaimPC =>
             (r0 \in claimedRuns' <=> r0 \in claimedRuns)
  BY <1>1, <1>2, <1>3, <1>4, <1>5, <1>6
<1>11. QED
  BY <1>1, <1>7, <1>8, <1>9, <1>10 DEF r0

\* A task that writes no row claims its run, gives it up, or does nothing visible.
LEMMA TaskContract ==
    ASSUME TypeOK, LifecycleInv, NEW s \in Slots, TaskStep(s) \/ Abandon(s), UNCHANGED row
    PROVE  [Contract!Next]_Contract!vars
<1>1. api' = api /\ \A t \in Slots : t # s => slot'[t] = slot[t]
  BY OthersStand, TaskFrame
<1>2. runStatus' = runStatus
  BY <1>1, SameStatus
<1>3. /\ slot[s].pc # "idle"
      /\ slot'[s].pc \in ClaimPC => /\ slot'[s].msg = slot[s].msg
                                    /\ slot[s].pc # "requeued"
                                    /\ \/ slot[s].pc \in ClaimPC
                                       \/ row[RunOf(s)].status \in Open
  <2>1. CASE ~Receive(s) /\ ~PublishRetry(s) /\ ~Ack(s)
    BY <2>1, TaskMoves
  <2>2. CASE PublishRetry(s)
    <3>1. Goto(s, "requeued") \/ Goto(s, "acking")
      BY <2>2 DEF PublishRetry
    <3>2. QED
      BY <2>2, <3>1, MoveEffect DEF PublishRetry, Goto, ClaimPC, SavedPC
  <2>3. CASE Ack(s)
    <3>1. slot'[s].pc = "idle"
      BY <2>3, IdleSlotType DEF Ack, TypeOK
    <3>2. QED
      BY <2>3, <3>1 DEF Ack, ClaimPC, SavedPC
  <2>4. CASE Receive(s)
    BY <2>4, ReceiveMoves DEF ClaimPC, SavedPC
  <2>5. QED
    BY <2>1, <2>2, <2>3, <2>4
<1>4. OneLiveMessage
  BY DEF LifecycleInv
<1>5. CASE slot[s].pc \in ClaimPC /\ slot'[s].pc \notin ClaimPC
  <2>1. Contract!Release(RunOf(s)) /\ RunOf(s) \in Runs
    BY <1>1, <1>2, <1>3, <1>4, <1>5, ClaimMoves DEF Contract!Release
  <2>2. QED
    BY <2>1 DEF Contract!Next
<1>6. CASE slot[s].pc \notin ClaimPC /\ slot'[s].pc \in ClaimPC
  <2>1. /\ RunOf(s) \in Runs /\ RunOf(s) \notin claimedRuns
        /\ claimedRuns' = claimedRuns \cup {RunOf(s)}
    BY <1>1, <1>3, <1>4, <1>6, ClaimMoves
  <2>2. row[RunOf(s)].status \in Open /\ sender[RunOf(s)] = "landed"
    BY <1>3, <1>4, <1>6 DEF OneLiveMessage, InPlay, Held, Busy, RunOf
  <2>3. api[RunOf(s)].pc # "idle"
    BY <2>1, <2>2 DEF LifecycleInv, WritersFindItOpen
  <2>4. runStatus[RunOf(s)] \in Open
    BY <2>1, <2>2, <2>3 DEF runStatus, Open
  <2>5. Contract!Claim(RunOf(s))
    BY <1>2, <2>1, <2>4 DEF Contract!Claim, Contract!Open, Open
  <2>6. QED
    BY <2>1, <2>5 DEF Contract!Next
<1>7. CASE slot[s].pc \in ClaimPC <=> slot'[s].pc \in ClaimPC
  <2>1. claimedRuns' = claimedRuns
    BY <1>1, <1>3, <1>4, <1>7, ClaimMoves
  <2>2. QED
    BY <1>2, <2>1 DEF Contract!vars
<1>8. QED
  BY <1>5, <1>6, <1>7

\* A task that writes its row starts the run, saves its result, or ends its claim with
\* a failure.
LEMMA WriteContract ==
    ASSUME TypeOK, LifecycleInv, Faults = {}, NEW s \in Slots,
           MarkRunning(s) \/ MarkSucceeded(s) \/ MarkFailed(s), row' # row
    PROVE  Contract!Next
<1> DEFINE r0 == RunOf(s)
<1>1. /\ slot[s].pc \in {"marking", "saving", "closing", "undoing"} /\ slot[s].pc \in ClaimPC
      /\ slot[s].pc # "idle" /\ api' = api
  BY DEF MarkRunning, MarkSucceeded, MarkFailed, taskFrame, ClaimPC, SavedPC
<1>2. \A t \in Slots : t # s => slot'[t] = slot[t]
  BY OthersStand DEF TaskStep
<1>3. r0 \in Runs /\ sender[r0] = "landed" /\ api[r0].pc # "idle"
  <2>1. r0 \in Runs
    BY <1>1, BusyRun DEF Busy
  <2>2. sender[r0] = "landed"
    BY <1>1 DEF LifecycleInv, OneLiveMessage, InPlay, Held, Busy, RunOf
  <2>3. QED
    BY <2>1, <2>2 DEF LifecycleInv, WritersFindItOpen
<1>4. slot[s].pc # "undoing" => /\ slot[s].seen \notin {"absent", "succeeded"}
                                /\ row[r0].status \in {slot[s].seen, "failed", "absent"}
                                /\ row[r0].status # "succeeded"
  BY <1>1 DEF LifecycleInv, ReadsHold, WritersFindItOpen, SavedPC
<1>5. slot[s].pc = "undoing" => /\ slot[s].seen = "succeeded"
                                /\ row[r0].status \in {"succeeded", "absent"}
  BY DEF LifecycleInv, ReadsHold, SavedPC
<1>6. ASSUME NEW status, NEW error, NEW result,
             Update(r0, slot[s].seen, status, error, result)
      PROVE  /\ row[r0].status # "absent" /\ ~NothingToWrite(slot[s].seen, status, error, result)
             /\ row' = [row EXCEPT ![r0] = Written(r0, slot[s].seen, status, error, result)]
  BY <1>6 DEF Update
<1>7. row[r0].status # "absent" => /\ runStatus[r0] = row[r0].status
                                   /\ row[r0].status \in Open \cup {"succeeded", "failed"}
  <2>1. row[r0].status \in Status
    BY <1>3 DEF TypeOK, Row
  <2>2. QED
    BY <1>3, <2>1 DEF runStatus, Status, Terminal
<1>8. ASSUME NEW status, NEW error, NEW result, status # "absent",
             Update(r0, slot[s].seen, status, error, result),
             Written(r0, slot[s].seen, status, error, result).status = status
      PROVE  runStatus' = [runStatus EXCEPT ![r0] = status]
  <2> DEFINE new == Written(r0, slot[s].seen, status, error, result)
  <2>1. row' = [row EXCEPT ![r0] = new] /\ new.status = status
    BY <1>6, <1>8
  <2> HIDE DEF new
  <2>2. QED
    BY <1>1, <1>3, <1>8, <2>1, StatusWritten
<1>9. /\ r0 \in claimedRuns
      /\ slot'[s].pc \in {"executing", "saved"} /\ slot'[s].msg = slot[s].msg
            => claimedRuns' = claimedRuns
      /\ slot'[s].pc = "acking" => claimedRuns' = claimedRuns \ {r0}
  <2>1. r0 \in claimedRuns
    BY <1>1, <1>3 DEF claimedRuns, Busy, Claims
  <2>2. /\ OneLiveMessage /\ "executing" \in ClaimPC /\ "saved" \in ClaimPC
        /\ "acking" \notin ClaimPC /\ slot[s].pc # "requeued"
    BY <1>1 DEF LifecycleInv, ClaimPC, SavedPC
  <2>3. QED
    BY <1>1, <1>2, <2>1, <2>2, ClaimMoves
<1>10. ASSUME NEW seen, NEW status, NEW error, NEW result
       PROVE  ~StaleUpdate(r0, seen, status, error, result)
              /\ ~FailedUpdate(r0, seen, status, error, result)
  BY DEF StaleUpdate, FailedUpdate
<1>11. CASE MarkRunning(s)
  <2>1. /\ Update(r0, slot[s].seen, "running", "none", FALSE) /\ Goto(s, "executing")
        /\ slot[s].pc = "marking"
    BY <1>10, <1>11 DEF MarkRunning
  <2>2. Written(r0, slot[s].seen, "running", "none", FALSE).status = "running"
    BY <1>6, <2>1 DEF NothingToWrite, Written
  <2>3. runStatus' = [runStatus EXCEPT ![r0] = "running"]
    BY <1>6, <1>8, <2>1, <2>2
  <2>4. claimedRuns' = claimedRuns
    BY <1>9, <2>1, MoveEffect DEF Goto
  <2>5. runStatus[r0] \in Open \cup {"failed"}
    BY <1>4, <1>6, <1>7, <2>1
  <2>6. Contract!Start(r0)
    BY <1>9, <2>3, <2>4, <2>5 DEF Contract!Start, Contract!Become, Contract!Open, Open
  <2>7. QED
    BY <1>3, <2>6 DEF Contract!Next
<1>12. CASE MarkSucceeded(s)
  <2>1. /\ Update(r0, slot[s].seen, "succeeded", "none", TRUE) /\ Goto(s, "saved")
        /\ slot[s].pc = "saving"
    BY <1>10, <1>12, Zenon DEF MarkSucceeded
  <2>2. Written(r0, slot[s].seen, "succeeded", "none", TRUE).status = "succeeded"
    BY <1>4, <2>1 DEF Written
  <2>3. runStatus' = [runStatus EXCEPT ![r0] = "succeeded"]
    BY <1>6, <1>8, <2>1, <2>2
  <2>4. claimedRuns' = claimedRuns
    BY <1>9, <2>1, MoveEffect DEF Goto
  <2>5. runStatus[r0] \in Open \cup {"failed"}
    BY <1>4, <1>6, <1>7, <2>1
  <2>6. Contract!Succeed(r0)
    BY <1>9, <2>3, <2>4, <2>5 DEF Contract!Succeed, Contract!Become, Contract!Open, Open
  <2>7. QED
    BY <1>3, <2>6 DEF Contract!Next
<1>13. CASE MarkFailed(s)
  <2>1. /\ Update(r0, slot[s].seen, "failed", "run", FALSE) /\ Goto(s, "acking")
        /\ slot[s].pc \in {"closing", "undoing"}
    BY <1>10, <1>13 DEF MarkFailed
  <2>2. Written(r0, slot[s].seen, "failed", "run", FALSE).status = "failed"
    BY <1>4, <1>5, <1>6, <2>1 DEF Written
  <2>3. runStatus' = [runStatus EXCEPT ![r0] = "failed"]
    BY <1>6, <1>8, <2>1, <2>2
  <2>4. claimedRuns' = claimedRuns \ {r0}
    BY <1>9, <2>1, MoveEffect DEF Goto
  <2>5. runStatus[r0] \in Open \cup {"succeeded", "failed"}
    BY <1>6, <1>7, <2>1
  <2>6. Contract!Fail(r0)
    BY <1>9, <2>3, <2>4, <2>5 DEF Contract!Fail, Contract!Become, Contract!Open, Open
  <2>7. QED
    BY <1>3, <2>6 DEF Contract!Next
<1>14. QED
  BY <1>11, <1>12, <1>13

\* A request handler creates its run, or closes it as refused.
LEMMA ApiContract ==
    ASSUME TypeOK, LifecycleInv, Faults = {}, NEW r \in Runs, Api(r)
    PROVE  [Contract!Next]_Contract!vars
<1>1. claimedRuns' = claimedRuns
  <2>1. slot' = slot
    BY DEF Api, CreateRun, SendLands, SendFails, DispatchReturns, DispatchGivesUp,
           DispatchLoads, DispatchMarksFailed, ApiCrash
  <2>2. QED
    BY <2>1, SameClaims
<1>2. ASSUME NEW pc, pc # "idle", NEW seen, ApiGoto(r, pc, seen)
      PROVE  /\ api'[r].pc # "idle"
             /\ \A q \in Runs : q # r => (api'[q].pc = "idle" <=> api[q].pc = "idle")
  BY <1>2, ApiGotoEffect
<1>3. CASE CreateRun(r)
  <2> DEFINE new == [status |-> "queued", error |-> "none", result |-> FALSE]
  <2>1. /\ api[r].pc = "idle" /\ row' = [row EXCEPT ![r] = new]
        /\ ApiGoto(r, "dispatching", "absent") \/ ApiGoto(r, "over", "absent")
    BY <1>3 DEF CreateRun
  <2>2. new.status = "queued"
    OBVIOUS
  <2> HIDE DEF new
  <2>3. runStatus' = [runStatus EXCEPT ![r] = "queued"]
    BY <1>2, <2>1, <2>2, StatusWritten, ZenonT(60)
  <2>4. runStatus[r] = "none"
    BY <2>1 DEF runStatus
  <2>5. Contract!Create(r)
    BY <1>1, <2>3, <2>4 DEF Contract!Create, Contract!Become
  <2>6. QED
    BY <2>5 DEF Contract!Next
<1>4. CASE DispatchMarksFailed(r)
  <2>1. /\ api[r].pc = "closing" /\ api[r].seen = "queued" /\ sender[r] = "failed"
        /\ ApiGoto(r, "over", "absent")
    BY <1>4 DEF DispatchMarksFailed, LifecycleInv, WritersFindItOpen, ReadsHold
  <2>2. row[r].status \in {"queued", "absent"}
    BY <2>1 DEF LifecycleInv, ReadsHold
  <2>3. /\ api'[r].pc # "idle"
        /\ \A q \in Runs : api'[q].pc = "idle" <=> api[q].pc = "idle"
    BY <1>2, <2>1
  <2>4. CASE UNCHANGED row
    BY <1>1, <2>3, <2>4, SameStatus DEF Contract!vars
  <2>5. CASE row' # row
    <3> DEFINE new == Written(r, "queued", "failed", "dispatch", FALSE)
    <3>1. row[r].status = "queued" /\ row' = [row EXCEPT ![r] = new]
      BY <1>4, <2>1, <2>2, <2>5 DEF DispatchMarksFailed, Update, FailedUpdate
    <3>2. new.status = "failed"
      BY DEF Written
    <3> HIDE DEF new
    <3>3. runStatus' = [runStatus EXCEPT ![r] = "failed"]
      <4>1. runStatus' = [runStatus EXCEPT ![r] = new.status]
        BY <2>3, <3>1, <3>2, StatusWritten
      <4>2. QED
        BY <3>2, <4>1
    <3>4. runStatus[r] = "queued"
      BY <2>1, <3>1 DEF runStatus
    <3>5. runStatus' = [q \in Runs |-> IF q \in {r} THEN "failed" ELSE runStatus[q]]
      BY <3>3 DEF runStatus
    <3>6. Contract!Close({r})
      BY <1>1, <3>4, <3>5 DEF Contract!Close, Contract!Open
    <3>7. QED
      BY <3>6 DEF Contract!Next
  <2>6. QED
    BY <2>4, <2>5
<1>5. CASE SendLands(r) \/ SendFails(r)
  BY <1>1, <1>5, SameStatus DEF SendLands, SendFails, Contract!vars
<1>6. CASE DispatchReturns(r) \/ DispatchGivesUp(r) \/ DispatchLoads(r) \/ ApiCrash(r)
  <2>1. /\ row' = row /\ api[r].pc # "idle"
        /\ \E pc \in {"gaveup", "closing", "over"},
              seen \in {"absent", row[r].status} : ApiGoto(r, pc, seen)
    BY <1>6 DEF DispatchReturns, DispatchGivesUp, DispatchLoads, ApiCrash
  <2>2. \A q \in Runs : api'[q].pc = "idle" <=> api[q].pc = "idle"
    BY <1>2, <2>1
  <2>3. QED
    BY <1>1, <2>1, <2>2, SameStatus DEF Contract!vars
<1>7. QED
  BY <1>3, <1>4, <1>5, <1>6 DEF Api

\* An erasure and a reconciler pass are one step of the contract each.
LEMMA SweepContract ==
    ASSUME TypeOK, LifecycleInv, CloseOrphans \/ \E t \in Tenants : EraseTenant(t)
    PROVE  Contract!Next
<1>1. claimedRuns' = claimedRuns /\ api' = api
  BY SameClaims DEF CloseOrphans, EraseTenant, reconcilerFrame
<1>2. CASE CloseOrphans
  <2>1. Orphans \subseteq Runs /\ \A r \in Orphans : runStatus[r] \in Open
    BY DEF TypeOK, LifecycleInv, ReadsHold, Orphans, Open, runStatus
  <2>2. \A r \in Runs : runStatus'[r] = IF r \in Orphans THEN "failed" ELSE runStatus[r]
    BY <1>1, <1>2, <2>1 DEF CloseOrphans, runStatus, Open
  <2>3. runStatus' = [r \in Runs |-> runStatus'[r]]
    BY DEF runStatus
  <2>4. Contract!Close(Orphans)
    BY <1>1, <2>1, <2>2, <2>3 DEF Contract!Close, Contract!Open, Open
  <2>5. QED
    BY <2>1, <2>4 DEF Contract!Next
<1>3. ASSUME NEW t \in Tenants, EraseTenant(t) PROVE Contract!Next
  <2> DEFINE S == {r \in Runs : Owner[r] = t /\ api[r].pc # "idle"}
  <2>1. \A r \in S : runStatus[r] # "none"
    <3>1. \A r \in Runs : row[r].status \in Status
      BY DEF TypeOK, Row
    <3>2. QED
      BY <3>1 DEF runStatus, Status, Open, Terminal
  <2>2. \A r \in Runs : runStatus'[r] = IF r \in S THEN "erased" ELSE runStatus[r]
    BY <1>1, <1>3 DEF EraseTenant, runStatus, NoRow
  <2>3. runStatus' = [r \in Runs |-> runStatus'[r]]
    BY DEF runStatus
  <2> HIDE DEF S
  <2>4. Contract!Erase(S)
    BY <1>1, <2>1, <2>2, <2>3 DEF Contract!Erase
  <2>5. S \in SUBSET Runs
    BY DEF S
  <2>6. QED
    BY <2>4, <2>5 DEF Contract!Next
<1>4. QED
  BY <1>2, <1>3

\* Every step of the lifecycle is a step of the contract, or invisible to it.
LEMMA ContractStep ==
    ASSUME TypeOK, LifecycleInv, Faults = {}, [Next]_vars
    PROVE  [Contract!Next]_Contract!vars
<1>1. ASSUME NEW s \in Slots, TaskStep(s) \/ Abandon(s)
      PROVE  [Contract!Next]_Contract!vars
  <2>1. CASE UNCHANGED row
    BY <1>1, <2>1, TaskContract
  <2>2. CASE row' # row
    <3>1. MarkRunning(s) \/ MarkSucceeded(s) \/ MarkFailed(s)
      BY <1>1, <2>2 DEF TaskStep, Receive, GetRun, LoadToMarkRunning, Execute, Abandon,
         LoadToMarkSucceeded, Announce, LoadToMarkFailed, PublishRetry, Ack
    <3>2. QED
      BY <2>2, <3>1, WriteContract
  <2>3. QED
    BY <2>1, <2>2
<1>2. ASSUME NEW s \in Slots, WorkerCrash(s) PROVE [Contract!Next]_Contract!vars
  <2>1. /\ UNCHANGED <<row, api>> /\ slot[s].pc # "idle"
        /\ \A t \in Slots : t # s => slot'[t] = slot[t]
        /\ slot'[s].pc \notin ClaimPC
    BY <1>2, IdleSlotType DEF WorkerCrash, Busy, TypeOK, ClaimPC, SavedPC
  <2>2. runStatus' = runStatus
    BY <2>1, SameStatus
  <2>3. CASE slot[s].pc \in ClaimPC
    <3>1. Contract!Release(RunOf(s)) /\ RunOf(s) \in Runs
      BY <2>1, <2>2, <2>3, ClaimMoves DEF LifecycleInv, Contract!Release
    <3>2. QED
      BY <3>1 DEF Contract!Next
  <2>4. CASE slot[s].pc \notin ClaimPC
    BY <2>1, <2>2, <2>4, SameClaims DEF Contract!vars
  <2>5. QED
    BY <2>3, <2>4
<1>3. ASSUME NEW s \in Slots, NEW m \in Msg, Pop(s, m)
      PROVE  [Contract!Next]_Contract!vars
  <2>1. UNCHANGED <<row, api>> /\ slot[s].pc = "idle"
    BY <1>3 DEF Pop, Busy
  <2>2. \A t \in Slots : slot'[t] = slot[t] \/ (t = s /\ slot'[t].pc = "popped")
    BY <1>3 DEF Pop, TypeOK
  <2>3. claimedRuns' = claimedRuns
    BY <2>1, <2>2, SameClaims DEF ClaimPC, SavedPC
  <2>4. QED
    BY <2>1, <2>3, SameStatus DEF Contract!vars
<1>4. ASSUME UNCHANGED <<row, api, slot>> PROVE UNCHANGED Contract!vars
  BY <1>4, SameStatus, SameClaims DEF Contract!vars
<1>5. CASE \/ ReadQueue \/ ReadUnacked \/ PassEnds \/ UNCHANGED vars
           \/ (\E r \in Runs : Age(r))
           \/ (\E m \in Msg : Restore(m) \/ RestoreEarly(m))
  BY <1>4, <1>5 DEF ReadQueue, ReadUnacked, PassEnds, reconcilerFrame, Age, Restore,
                    RestoreEarly, vars
<1>6. QED
  BY <1>1, <1>2, <1>3, <1>5, ApiContract, SweepContract DEF Next, Reconcile

\* The API, the workers and the reconciler implement the contract: a run is executed
\* by one claim at a time, only an open run is claimed, only the claim may say
\* `succeeded`, and once it has ended that is the last word.
THEOREM LifecycleImplementsContract == ASSUME Faults = {} PROVE Spec => ImplementsContract
<1>1. Init => Contract!Init
  BY DEF Init, Contract!Init, runStatus, claimedRuns, Busy, IdleSlot
<1>2. TypeOK /\ LifecycleInv /\ [Next]_vars => [Contract!Next]_Contract!vars
  BY ContractStep
<1>3. QED
  BY <1>1, <1>2, TypeCorrect, LifecycleInvariant, PTL
     DEF Spec, ImplementsContract, Contract!Spec

=============================================================================
