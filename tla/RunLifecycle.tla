----------------------------- MODULE RunLifecycle -----------------------------
(***************************************************************************)
(* The life of a planning run: the API writes the row and hands its id to  *)
(* the Celery queue (apps/api main.py), a worker executes the task and     *)
(* closes the row (apps/worker tasks.py), the reconciler closes what       *)
(* nobody will (packages/core runs.py).  Every session_scope() transaction *)
(* and every broker operation is a step of its own, so steps of different  *)
(* processes interleave.  An ORM update is two steps, the SELECT of        *)
(* session.get and the UPDATE flushed at commit, because SQLAlchemy writes *)
(* only the columns that differ from what it READ.                         *)
(***************************************************************************)
EXTENDS Naturals, FiniteSets

CONSTANTS
    Runs,        \* the run ids create_run may hand out
    Tenants,     \* the tenants that own them
    Owner,       \* [Runs -> Tenants]
    Slots,       \* deliveries the workers can hold at a time, waiting or executing
    MaxRetries,  \* _MAX_INFRA_RETRIES
    Copies,      \* bound: messages of one run and attempt alive at a time
    NoMsg,       \* what an idle slot holds
    MaxCrashes,  \* bound: worker crashes and early redeliveries
    Faults       \* which of FaultKinds the environment may produce

FaultKinds == {
    "late_send",         \* wait_for gives up on a send_task that lands all the same
    "lost_ack",          \* a worker dies after publishing a retry, before acking
    "ambiguous_commit",  \* a COMMIT takes effect but its reply is lost
    "early_redelivery"}  \* a held retry outlives the visibility timeout

Msg == [run: Runs, retries: 0..MaxRetries, copy: Copies]

ASSUME LifecycleAssumption ==
    /\ NoMsg \notin Msg
    /\ Owner \in [Runs -> Tenants]
    /\ MaxRetries \in Nat
    /\ MaxCrashes \in Nat
    /\ Faults \subseteq FaultKinds

VARIABLES
    row,       \* Postgres: the runs table
    aged,      \* runs whose updated_at is older than ORPHAN_AFTER_S
    api,       \* per run: the request handler that created it
    sender,    \* per run: the to_thread(send_task) call
    queued,    \* Redis: messages in the queue lists
    unacked,   \* Redis: the "unacked" hash
    slot,      \* per delivery held: where its task stands
    reconciler,\* where a reconcile_orphans pass stands
    crashes    \* worker crashes so far

vars == <<row, aged, api, sender, queued, unacked, slot, reconciler, crashes>>

-----------------------------------------------------------------------------
(* Rows.  "absent" is both a row never written and one erased since. *)

Open == {"queued", "running"}
Terminal == {"succeeded", "failed"}
Status == Open \cup Terminal \cup {"absent"}
Row == [status: Status, error: {"none", "dispatch", "run", "orphan"}, result: BOOLEAN]
NoRow == [status |-> "absent", error |-> "none", result |-> FALSE]

\* Program points of a task.  A slot claims its run from the moment get_run
\* answered "open" until the task stops touching the row.  In the last three it is
\* past the COMMIT of its result and not yet out of the try, or back in the except.
SavedPC == {"saved", "interrupted", "undoing"}
ClaimPC == {"gated", "marking", "executing", "planned", "saving", "failing", "closing"}
               \cup SavedPC
SlotPC == ClaimPC \cup {"idle", "popped", "fetched", "retrying", "requeued", "acking"}
Slot == [pc: SlotPC, msg: Msg \cup {NoMsg}, seen: Status]
IdleSlot == [pc |-> "idle", msg |-> NoMsg, seen |-> "absent"]

ApiPC == {"idle", "dispatching", "gaveup", "closing", "over"}

Busy(s) == slot[s].pc # "idle"
RunOf(s) == slot[s].msg.run
Claims(s, r) == slot[s].pc \in ClaimPC /\ RunOf(s) = r
Held == {slot[s].msg : s \in {t \in Slots : Busy(t)}}

Init ==
    /\ row = [r \in Runs |-> NoRow]
    /\ aged = {}
    /\ api = [r \in Runs |-> [pc |-> "idle", seen |-> "absent"]]
    /\ sender = [r \in Runs |-> "none"]
    /\ queued = {}
    /\ unacked = {}
    /\ slot = [s \in Slots |-> IdleSlot]
    /\ reconciler = "idle"
    /\ crashes = 0

-----------------------------------------------------------------------------
(* runs._update: the UPDATE of a row read as `seen`.  An attribute equal to *)
(* the value read is not written; a session with nothing to write issues no *)
(* UPDATE, so updated_at stays; an UPDATE of a row erased since the read    *)
(* matches nothing and raises StaleDataError.                               *)

\* Mutant: every column is assigned, as if one call described the whole row.
WrittenWhole(r, seen, status, error, result) ==
    [status |-> IF seen = status THEN row[r].status ELSE status,
     error  |-> error,
     result |-> result]

Written(r, seen, status, error, result) ==
    [status |-> IF seen = status THEN row[r].status ELSE status,
     error  |-> IF error = "none" THEN row[r].error ELSE error,
     result |-> row[r].result \/ result]

NothingToWrite(seen, status, error, result) ==
    seen = status /\ error = "none" /\ ~result

\* Mutant: an INSERT ... ON CONFLICT DO UPDATE.
Upsert(r, seen, status, error, result) ==
    /\ row' = [row EXCEPT ![r] = Written(r, seen, status, error, result)]
    /\ aged' = aged \ {r}

Update(r, seen, status, error, result) ==
    IF NothingToWrite(seen, status, error, result)
    THEN UNCHANGED <<row, aged>>
    ELSE /\ row[r].status # "absent"
         /\ row' = [row EXCEPT ![r] = Written(r, seen, status, error, result)]
         /\ aged' = aged \ {r}

StaleUpdate(r, seen, status, error, result) ==
    /\ ~NothingToWrite(seen, status, error, result)
    /\ row[r].status = "absent"
    /\ UNCHANGED <<row, aged>>

\* The connection failed during the UPDATE or the COMMIT: nothing was written,
\* or everything was and only the answer is missing.
FailedUpdate(r, seen, status, error, result) ==
    \/ UNCHANGED <<row, aged>>
    \/ /\ "ambiguous_commit" \in Faults
       /\ Update(r, seen, status, error, result)

-----------------------------------------------------------------------------
(* The API: create_plan / create_trip and _dispatch.                        *)

ApiGoto(r, pc, seen) == api' = [api EXCEPT ![r] = [pc |-> pc, seen |-> seen]]

CreateRun(r) ==
    /\ api[r].pc = "idle"
    /\ row' = [row EXCEPT ![r] = [status |-> "queued", error |-> "none", result |-> FALSE]]
    /\ \/ /\ ApiGoto(r, "dispatching", "absent")
          /\ sender' = [sender EXCEPT ![r] = "sending"]
       \* the INSERT committed but _database answered 503: a row nobody sends
       \/ /\ "ambiguous_commit" \in Faults
          /\ ApiGoto(r, "over", "absent")
          /\ sender' = [sender EXCEPT ![r] = "failed"]
    /\ UNCHANGED <<aged, queued, unacked, slot, reconciler, crashes>>

SendLands(r) ==
    /\ sender[r] = "sending"
    /\ sender' = [sender EXCEPT ![r] = "landed"]
    /\ \E c \in Copies : queued' = queued \cup {[run |-> r, retries |-> 0, copy |-> c]}
    /\ UNCHANGED <<row, aged, api, unacked, slot, reconciler, crashes>>

SendFails(r) ==
    /\ sender[r] = "sending"
    /\ sender' = [sender EXCEPT ![r] = "failed"]
    /\ UNCHANGED <<row, aged, api, queued, unacked, slot, reconciler, crashes>>

DispatchReturns(r) ==
    /\ api[r].pc = "dispatching"
    /\ sender[r] = "landed"
    /\ ApiGoto(r, "over", "absent")
    /\ UNCHANGED <<row, aged, sender, queued, unacked, slot, reconciler, crashes>>

\* Mutant: the compensation does not wait to know that the send failed.
DispatchGivesUpEarly(r) ==
    /\ api[r].pc = "dispatching"
    /\ ApiGoto(r, "gaveup", "absent")
    /\ UNCHANGED <<row, aged, sender, queued, unacked, slot, reconciler, crashes>>

\* send_task raised, or wait_for gave up while the thread goes on.
DispatchGivesUp(r) ==
    /\ api[r].pc = "dispatching"
    /\ sender[r] = "failed" \/ "late_send" \in Faults
    /\ ApiGoto(r, "gaveup", "absent")
    /\ UNCHANGED <<row, aged, sender, queued, unacked, slot, reconciler, crashes>>

\* suppress(Exception): mark_failed, its SELECT and then its UPDATE, or neither.
DispatchLoads(r) ==
    /\ api[r].pc = "gaveup"
    /\ \/ /\ row[r].status # "absent"
          /\ ApiGoto(r, "closing", row[r].status)
       \/ ApiGoto(r, "over", "absent")
    /\ UNCHANGED <<row, aged, sender, queued, unacked, slot, reconciler, crashes>>

DispatchMarksFailed(r) ==
    /\ api[r].pc = "closing"
    /\ LET seen == api[r].seen IN
       \/ Update(r, seen, "failed", "dispatch", FALSE)
       \/ FailedUpdate(r, seen, "failed", "dispatch", FALSE)
    /\ ApiGoto(r, "over", "absent")
    /\ UNCHANGED <<sender, queued, unacked, slot, reconciler, crashes>>

\* The API process dies in the middle of a request, and its threads with it.
ApiCrash(r) ==
    /\ api[r].pc \in {"dispatching", "gaveup", "closing"}
    /\ ApiGoto(r, "over", "absent")
    /\ sender' = [sender EXCEPT ![r] = IF @ = "sending" THEN "failed" ELSE @]
    /\ UNCHANGED <<row, aged, queued, unacked, slot, reconciler, crashes>>

\* delete_my_data: one DELETE for every run of the caller's tenant.
EraseTenant(t) ==
    /\ \E r \in Runs : Owner[r] = t /\ row[r].status # "absent"
    /\ row' = [r \in Runs |-> IF Owner[r] = t THEN NoRow ELSE row[r]]
    /\ aged' = {r \in aged : Owner[r] # t}
    /\ UNCHANGED <<api, sender, queued, unacked, slot, reconciler, crashes>>

Api(r) ==
    \/ CreateRun(r) \/ SendLands(r) \/ SendFails(r) \/ DispatchReturns(r)
    \/ DispatchGivesUp(r) \/ DispatchLoads(r) \/ DispatchMarksFailed(r)
    \/ ApiCrash(r)

-----------------------------------------------------------------------------
(* The broker, as celery.py configures it: acks_late, one visibility timeout *)

\* BRPOP: the message leaves the list and is, for a moment, in the worker only.
Pop(s, m) ==
    /\ ~Busy(s)
    /\ m \in queued
    /\ queued' = queued \ {m}
    /\ slot' = [slot EXCEPT ![s] = [pc |-> "popped", msg |-> m, seen |-> "absent"]]
    /\ UNCHANGED <<row, aged, api, sender, unacked, reconciler, crashes>>

\* Mutant: task_acks_late is off.
ReceiveAndAck(s) ==
    /\ slot[s].pc = "popped"
    /\ slot' = [slot EXCEPT ![s].pc = "fetched"]
    /\ UNCHANGED <<row, aged, api, sender, queued, unacked, reconciler, crashes>>

\* The command after it, the HSET of "unacked".
Receive(s) ==
    /\ slot[s].pc = "popped"
    /\ unacked' = unacked \cup {slot[s].msg}
    /\ slot' = [slot EXCEPT ![s].pc = "fetched"]
    /\ UNCHANGED <<row, aged, api, sender, queued, reconciler, crashes>>

\* Mutant: a visibility timeout below the longest a task can run.
RestoreAny(m) ==
    /\ m \in unacked
    /\ unacked' = unacked \ {m}
    /\ queued' = queued \cup {m}
    /\ UNCHANGED <<row, aged, api, sender, slot, reconciler, crashes>>

\* The visibility timeout of a message whose holder is gone.
Restore(m) ==
    /\ m \in unacked \ Held
    /\ unacked' = unacked \ {m}
    /\ queued' = queued \cup {m}
    /\ UNCHANGED <<row, aged, api, sender, slot, reconciler, crashes>>

\* The same timeout while its holder still waits or executes: the module
\* VisibilityTimeout shows that a retry, reserved with a countdown, gets there.
RestoreEarly(m) ==
    /\ "early_redelivery" \in Faults
    /\ crashes < MaxCrashes
    /\ m \in unacked \cap Held
    /\ m.retries > 0
    /\ crashes' = crashes + 1
    /\ unacked' = unacked \ {m}
    /\ queued' = queued \cup {m}
    /\ UNCHANGED <<row, aged, api, sender, slot, reconciler>>

\* The worker dies; what it held stays unacknowledged, what it had popped is lost.
WorkerCrash(s) ==
    /\ Busy(s)
    /\ crashes < MaxCrashes
    /\ slot[s].pc = "requeued" => "lost_ack" \in Faults
    /\ crashes' = crashes + 1
    /\ slot' = [slot EXCEPT ![s] = IdleSlot]
    /\ UNCHANGED <<row, aged, api, sender, queued, unacked, reconciler>>

-----------------------------------------------------------------------------
(* One task: _execute around _run_plan / _run_trip.                         *)

\* The task's next program point; `seen` is what session.get returned, if anything.
Move(s, pc, seen) ==
    slot' = [slot EXCEPT ![s] = [pc |-> pc, msg |-> slot[s].msg, seen |-> seen]]
Goto(s, pc) == Move(s, pc, "absent")
Loaded(s, pc) == Move(s, pc, row[RunOf(s)].status)
\* Mutant: `>` for `>=`.
FinalTooLate(s) == slot[s].msg.retries > MaxRetries
Final(s) == slot[s].msg.retries = MaxRetries

\* A transient error that escapes the runner: _execute retries or gives up.
Escapes(s) == Goto(s, IF Final(s) THEN "acking" ELSE "retrying")
\* A transient error inside the runner's try: _will_retry re-raises it, the
\* final attempt records the failure.
Caught(s) == Goto(s, IF Final(s) THEN "failing" ELSE "retrying")

taskFrame == <<api, sender, queued, unacked, reconciler, crashes>>

\* Mutants: no gate, and a gate that forgets one of the terminal statuses.
GetRunUngated(s) ==
    /\ slot[s].pc = "fetched"
    /\ Goto(s, IF row[RunOf(s)].status # "absent" THEN "gated" ELSE "acking") \/ Escapes(s)
    /\ UNCHANGED <<row, aged, taskFrame>>
GetRunSkipsSucceeded(s) ==
    /\ slot[s].pc = "fetched"
    /\ \/ Goto(s, IF row[RunOf(s)].status \in Open \cup {"failed"} THEN "gated" ELSE "acking")
       \/ Escapes(s)
    /\ UNCHANGED <<row, aged, taskFrame>>

\* get_run, then the gate: an unknown or finished run is skipped.
GetRun(s) ==
    /\ slot[s].pc = "fetched"
    /\ \/ Goto(s, IF row[RunOf(s)].status \in Open THEN "gated" ELSE "acking")
       \/ Escapes(s)
    /\ UNCHANGED <<row, aged, taskFrame>>

\* mark_running, the SELECT: a row that is gone is left alone.
LoadToMarkRunning(s) ==
    /\ slot[s].pc = "gated"
    /\ \/ Loaded(s, IF row[RunOf(s)].status = "absent" THEN "executing" ELSE "marking")
       \/ Escapes(s)
    /\ UNCHANGED <<row, aged, taskFrame>>

\* mark_running, the UPDATE: it stands outside the try, so a stale row kills the task.
MarkRunning(s) ==
    /\ slot[s].pc = "marking"
    /\ LET r == RunOf(s)
           seen == slot[s].seen
       IN \/ Update(r, seen, "running", "none", FALSE) /\ Goto(s, "executing")
          \/ StaleUpdate(r, seen, "running", "none", FALSE) /\ Goto(s, "acking")
          \/ FailedUpdate(r, seen, "running", "none", FALSE) /\ Escapes(s)
    /\ UNCHANGED taskFrame

\* plan / plan_trip returns, raises a transient error, or raises another one.
Execute(s) ==
    /\ slot[s].pc = "executing"
    /\ Goto(s, "planned") \/ Caught(s) \/ Goto(s, "failing")
    /\ UNCHANGED <<row, aged, taskFrame>>

\* The soft limit fires outside the coroutine, or the hard limit kills the
\* process: no except clause runs, the task is acknowledged, the row stays open.
Abandon(s) ==
    /\ slot[s].pc \in ClaimPC \cup {"fetched"}
    /\ Goto(s, "acking")
    /\ UNCHANGED <<row, aged, taskFrame>>

LoadToMarkSucceeded(s) ==
    /\ slot[s].pc = "planned"
    /\ \/ Loaded(s, IF row[RunOf(s)].status = "absent" THEN "saved" ELSE "saving")
       \/ Caught(s) \/ Goto(s, "failing")
    /\ UNCHANGED <<row, aged, taskFrame>>

\* mark_succeeded, the UPDATE: a stale row is one more exception of the try.
MarkSucceeded(s) ==
    /\ slot[s].pc = "saving"
    /\ LET r == RunOf(s)
           seen == slot[s].seen
       IN \/ Update(r, seen, "succeeded", "none", TRUE) /\ Goto(s, "saved")
          \/ StaleUpdate(r, seen, "succeeded", "none", TRUE) /\ Goto(s, "failing")
          \/ FailedUpdate(r, seen, "succeeded", "none", TRUE)
             /\ (Caught(s) \/ Goto(s, "failing"))
    /\ UNCHANGED taskFrame

\* The rest of the try: the session is closed, record_run, emit("done").  What is
\* raised there, the soft time limit above all, meets the same except clause.
Announce(s) ==
    /\ slot[s].pc = "saved"
    /\ \/ Goto(s, "acking")
       \/ ~Final(s) /\ Goto(s, "retrying")
       \/ Goto(s, "interrupted")
    /\ UNCHANGED <<row, aged, taskFrame>>

\* mark_failed, the SELECT; after "interrupted", of the row this task has just saved.
LoadToMarkFailed(s) ==
    /\ slot[s].pc \in {"failing", "interrupted"}
    /\ \/ Loaded(s, IF row[RunOf(s)].status = "absent" THEN "acking"
                    ELSE IF slot[s].pc = "failing" THEN "closing" ELSE "undoing")
       \/ Escapes(s)
    /\ UNCHANGED <<row, aged, taskFrame>>

\* mark_failed in the except clause: a transient error of its own escapes and is retried.
MarkFailed(s) ==
    /\ slot[s].pc \in {"closing", "undoing"}
    /\ LET r == RunOf(s)
           seen == slot[s].seen
       IN \/ Update(r, seen, "failed", "run", FALSE) /\ Goto(s, "acking")
          \/ StaleUpdate(r, seen, "failed", "run", FALSE) /\ Goto(s, "acking")
          \/ FailedUpdate(r, seen, "failed", "run", FALSE) /\ Escapes(s)
    /\ UNCHANGED taskFrame

\* task.retry: publish the next attempt.  A publish that fails is a Reject
\* without requeue: the message is acknowledged and the run is nobody's.
PublishRetry(s) ==
    /\ slot[s].pc = "retrying"
    /\ \/ /\ \E c \in Copies :
                LET m == [run |-> RunOf(s), retries |-> slot[s].msg.retries + 1, copy |-> c]
                IN /\ m \notin queued \cup unacked \cup Held
                   /\ queued' = queued \cup {m}
          /\ Goto(s, "requeued")
       \/ Goto(s, "acking") /\ UNCHANGED queued
    /\ UNCHANGED <<row, aged, api, sender, unacked, reconciler, crashes>>

\* acks_late: the message goes only when the task is over.
Ack(s) ==
    /\ slot[s].pc \in {"requeued", "acking"}
    /\ unacked' = unacked \ {slot[s].msg}
    /\ slot' = [slot EXCEPT ![s] = IdleSlot]
    /\ UNCHANGED <<row, aged, api, sender, queued, reconciler, crashes>>

TaskStep(s) ==
    \/ Receive(s) \/ GetRun(s) \/ LoadToMarkRunning(s) \/ MarkRunning(s) \/ Execute(s)
    \/ LoadToMarkSucceeded(s) \/ MarkSucceeded(s) \/ Announce(s)
    \/ LoadToMarkFailed(s) \/ MarkFailed(s) \/ PublishRetry(s) \/ Ack(s)

-----------------------------------------------------------------------------
(* The reconciler: _nothing_in_flight reads the queue lists and then the   *)
(* unacked hash, reconcile_orphans then closes every old open row.         *)

reconcilerFrame == <<api, sender, queued, unacked, slot, crashes>>

\* ORPHAN_AFTER_S passes without an UPDATE.  It is 900 s, so it does not pass
\* within a request, within a reconciler pass, or within one attempt (300 s).
Age(r) ==
    /\ row[r].status \in Open
    /\ r \notin aged
    /\ api[r].pc = "over"
    /\ sender[r] # "sending"
    /\ reconciler = "idle"
    /\ \A s \in Slots : ~Claims(s, r)
    /\ aged' = aged \cup {r}
    /\ UNCHANGED <<row, reconciler, reconcilerFrame>>

ReadQueue ==
    /\ reconciler = "idle"
    /\ queued = {}
    /\ reconciler' = "queue empty"
    /\ UNCHANGED <<row, aged, reconcilerFrame>>

\* Mutant: only the queue lists are looked at.
SkipUnacked ==
    /\ reconciler = "queue empty"
    /\ reconciler' = "clear"
    /\ UNCHANGED <<row, aged, reconcilerFrame>>

ReadUnacked ==
    /\ reconciler = "queue empty"
    /\ unacked = {}
    /\ reconciler' = "clear"
    /\ UNCHANGED <<row, aged, reconcilerFrame>>

\* Mutant: `queued` is not among the statuses an orphan may have.
RunningOrphans == {r \in aged : row[r].status = "running"}
Orphans == {r \in aged : row[r].status \in Open}

CloseOrphans ==
    /\ reconciler = "clear"
    /\ row' = [r \in Runs |-> IF r \in Orphans
                              THEN [status |-> "failed", error |-> "orphan",
                                    result |-> row[r].result]
                              ELSE row[r]]
    /\ aged' = aged \ Orphans
    /\ reconciler' = "idle"
    /\ UNCHANGED reconcilerFrame

\* A task was unacked, or Redis or Postgres could not answer: _nothing_in_flight
\* is False, or _reconcile_forever logs the error; the next pass starts over.
PassEnds ==
    /\ reconciler # "idle"
    /\ reconciler' = "idle"
    /\ UNCHANGED <<row, aged, reconcilerFrame>>

Reconcile == ReadQueue \/ ReadUnacked \/ CloseOrphans \/ PassEnds

-----------------------------------------------------------------------------
Next ==
    \/ \E r \in Runs : Api(r) \/ Age(r)
    \/ \E t \in Tenants : EraseTenant(t)
    \/ \E m \in Msg : Restore(m) \/ RestoreEarly(m)
    \/ \E s \in Slots : TaskStep(s) \/ Abandon(s) \/ WorkerCrash(s)
    \/ \E s \in Slots, m \in Msg : Pop(s, m)
    \/ Reconcile

Spec == Init /\ [][Next]_vars

\* Fairness: threads, requests and tasks go on; a lost message is restored; time
\* passes.  A pass may fail again and again, but not for ever (Redis and
\* Postgres come back), hence SF on its steps, and on Age, which waits for a pass.
Fairness ==
    /\ \A r \in Runs :
          /\ WF_vars(SendLands(r) \/ SendFails(r))
          /\ WF_vars(DispatchReturns(r) \/ DispatchGivesUp(r) \/ DispatchLoads(r)
                        \/ DispatchMarksFailed(r))
          /\ SF_vars(Age(r))
    /\ \A m \in Msg : WF_vars(Restore(m))
    /\ WF_vars(\E s \in Slots, m \in Msg : Pop(s, m))
    /\ \A s \in Slots : WF_vars(TaskStep(s))
    /\ WF_vars(Reconcile)
    /\ SF_vars(ReadUnacked)
    /\ SF_vars(CloseOrphans)

FairSpec == Spec /\ Fairness

-----------------------------------------------------------------------------
(* What must hold.                                                         *)

TypeOK ==
    /\ row \in [Runs -> Row]
    /\ aged \in SUBSET Runs
    /\ api \in [Runs -> [pc: ApiPC, seen: Status]]
    /\ sender \in [Runs -> {"none", "sending", "landed", "failed"}]
    /\ queued \in SUBSET Msg
    /\ unacked \in SUBSET Msg
    /\ slot \in [Slots -> Slot]
    /\ \A s \in Slots : Busy(s) <=> slot[s].msg \in Msg
    /\ reconciler \in {"idle", "queue empty", "clear"}
    /\ crashes \in 0..MaxCrashes

\* Whatever order the writers of a row commit in, and whatever they had read, a
\* succeeded run carries its itinerary and a failed run says why (RunRecord is
\* all a polling client ever sees).
TerminalExplained ==
    \A r \in Runs :
        /\ row[r].status = "succeeded" => row[r].result
        /\ row[r].status = "failed" => row[r].error # "none"

\* The right to be forgotten: an erased run is not resurrected by a worker, a
\* dispatch or a reconciler that was still writing to it (_update's `run is None`).
ErasedStaysErased ==
    [][\A r \in Runs : api[r].pc # "idle" /\ row[r].status = "absent"
                            => row'[r].status = "absent"]_vars

\* No two deliveries execute one run at the same time (celery.py, "runs (and
\* bills) twice").
SingleExecution ==
    \A s, t \in Slots : s # t /\ Busy(s) /\ Busy(t) =>
        ~(Claims(s, RunOf(s)) /\ Claims(t, RunOf(s)))

\* A result once saved is taken back by nobody but the task that saved it, cut short
\* before it left its try: no retry, redelivery, late API compensation or reconciler
\* pass moves a succeeded run to another status.
SucceededIsFinal ==
    [][\A r \in Runs : row[r].status = "succeeded" =>
          \/ row'[r].status \in {"succeeded", "absent"}
          \/ \E s \in Slots : slot[s].pc = "undoing" /\ RunOf(s) = r /\ MarkFailed(s)]_vars

\* A run the API refused ("nothing was run") is closed and no worker executes it.
RefusedNeverRuns ==
    \A r \in Runs : row[r].error = "dispatch" =>
        /\ row[r].status = "failed"
        /\ \A s \in Slots : Busy(s) => ~Claims(s, r)

\* What tasks.py says of its gate: a run that is over is never executed again.
TerminalNeverExecuted ==
    [][\A s \in Slots : slot[s].pc # "executing" /\ slot'[s].pc = "executing"
                            => row[RunOf(s)].status \notin Terminal]_vars

InPlay == queued \cup unacked \cup Held
Popped == {slot[s].msg : s \in {t \in Slots : slot[t].pc = "popped"}}

\* What the two reads of _nothing_in_flight see.  A first attempt, never redelivered,
\* goes from the list to the worker and on to the hash: a pass that finds nothing in
\* flight has missed of the old runs' first attempts only what a worker had popped
\* and not stored yet (of the retries, also what was published between the reads).
FirstDeliverySpared ==
    [][reconciler # "clear" /\ reconciler' = "clear" /\ crashes = 0 =>
          \A m \in InPlay : m.run \in Orphans => m.retries > 0 \/ m \in Popped]_vars

\* Every run a client was given an id for ends up closed or erased, and stays so:
\* neither a lost message, a dead worker nor an outage leaves it open for ever.
EventuallyClosed ==
    \A r \in Runs : <>[](row[r].status \notin Open)

-----------------------------------------------------------------------------
(* Why SingleExecution and SucceededIsFinal hold without the four faults.  *)

\* A delivery whose retry is already published only waits for its ack.
Spent(m) == \E s \in Slots : slot[s].pc = "requeued" /\ slot[s].msg = m

\* There is one live message per run, and only of a run that was sent; what a worker
\* holds and has stored is unacknowledged (acks_late), so no crash loses it.
OneLiveMessage ==
    /\ queued \cap (unacked \cup Held) = {}
    /\ \A s \in Slots : Busy(s) =>
          (slot[s].msg \in unacked <=> slot[s].pc # "popped")
    /\ \A s, t \in Slots : Busy(s) /\ Busy(t) /\ slot[s].msg = slot[t].msg => s = t
    /\ \A m, n \in InPlay :
          m.run = n.run /\ ~Spent(m) /\ ~Spent(n) => m = n
    /\ \A m \in InPlay : sender[m.run] = "landed"

\* Whoever may still write a row writes one that has not succeeded, but for the task
\* that made it succeed.
WritersFindItOpen ==
    /\ \A s \in Slots : slot[s].pc \in ClaimPC \ SavedPC
                            => row[RunOf(s)].status # "succeeded"
    /\ \A r \in Runs : sender[r] # "landed" => row[r].status # "succeeded"
    /\ \A r \in Runs : api[r].pc = "idle" => sender[r] = "none"
    /\ \A r \in Runs : api[r].pc \in {"gaveup", "closing"} => sender[r] = "failed"

\* What a process read before its UPDATE still says something true at the UPDATE,
\* and what the API said of a dispatch stays so: a row read for an update is then
\* as it was read, closed by the reconciler, or erased; a row whose send has not
\* landed is still queued, and one refused is closed and was never sent.
ReadsHold ==
    /\ \A s \in Slots : slot[s].pc \in {"marking", "saving", "closing"} =>
          /\ slot[s].seen \notin {"absent", "succeeded"}
          /\ row[RunOf(s)].status \in {slot[s].seen, "failed", "absent"}
    /\ \A s \in Slots : slot[s].pc \in SavedPC =>
          /\ row[RunOf(s)].status \in {"succeeded", "absent"}
          /\ slot[s].pc = "undoing" => slot[s].seen = "succeeded"
    /\ \A r \in Runs : api[r].pc = "idle" => row[r].status = "absent" /\ r \notin aged
    /\ \A r \in Runs : api[r].pc \in {"dispatching", "gaveup", "closing"}
                            /\ sender[r] # "landed" =>
          row[r].status \in {"queued", "absent"} /\ r \notin aged
    /\ \A r \in Runs : api[r].pc = "closing" => api[r].seen = "queued"
    /\ \A r \in Runs : row[r].error = "dispatch" =>
          row[r].status = "failed" /\ sender[r] = "failed"

\* The inductive invariant: a message in play is the run's only one, so the
\* delivery that holds it is the only writer of the row besides the reconciler.
LifecycleInv == OneLiveMessage /\ WritersFindItOpen /\ ReadsHold

-----------------------------------------------------------------------------
(* The contract it implements.                                             *)

\* The refinement mapping: a run not created yet is "none", one created and gone
\* is "erased", and it is claimed while some delivery is past the gate.
runStatus == [r \in Runs |-> IF api[r].pc = "idle" THEN "none"
                             ELSE IF row[r].status = "absent" THEN "erased"
                             ELSE row[r].status]
claimedRuns == {r \in Runs : \E s \in Slots : Busy(s) /\ Claims(s, r)}

Contract == INSTANCE RunContract WITH status <- runStatus, claimed <- claimedRuns

\* Without lost acknowledgements, early redeliveries, ambiguous commits and late
\* enqueues, the queue, worker and reconciler implement the contract.
ImplementsContract == Contract!Spec

=============================================================================
