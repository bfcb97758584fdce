--------------------------- MODULE VisibilityTimeout ---------------------------
(***************************************************************************)
(* How long one worker may hold a message unacknowledged.  celery.py sets  *)
(* the visibility timeout (360 s) above the hard time limit of a task      *)
(* (300 s); tasks.py publishes retries with a countdown (5, 15, 30 s).  A  *)
(* worker receives such a retry at once, holds it for the rest of the      *)
(* countdown, and holds it further while its processes are busy.  Time is  *)
(* counted in a unit the instance chooses.                                 *)
(***************************************************************************)
EXTENDS Naturals, Sequences, FiniteSets

CONSTANTS
    Tasks,       \* the tasks sent to this worker
    Processes,   \* worker concurrency; worker_prefetch_multiplier is 1
    TimeLimit,   \* task_time_limit
    Visibility,  \* broker_transport_options.visibility_timeout
    Countdowns   \* _INFRA_RETRY_COUNTDOWNS_S

ASSUME VisibilityAssumption ==
    /\ Processes \in Nat \ {0}
    /\ TimeLimit \in Nat \ {0}
    /\ Visibility \in Nat
    /\ Countdowns \in Seq(Nat \ {0})
    /\ IsFiniteSet(Tasks)

VARIABLES
    task,    \* per task: where its message is, its attempt, and in units of time what is
             \* left of its countdown, how long it has been held and how long it ran
    backlog  \* the pool's own queue: tasks ready to start, in order

visibilityVars == <<task, backlog>>

MaxRetries == Len(Countdowns)

In(where) == {t \in Tasks : task[t].at \in where}
Unacked == In({"delayed", "ready", "running"})

VisibilityInit ==
    /\ task = [t \in Tasks |-> [at |-> "nowhere", attempt |-> 0, left |-> 0,
                                held |-> 0, ran |-> 0]]
    /\ backlog = <<>>

Send(t) ==
    /\ task[t].at = "nowhere"
    /\ task' = [task EXCEPT ![t].at = "queue"]
    /\ UNCHANGED backlog

\* Mutant: a prefetch of one message more than there are processes.
GreedyCanConsume == Cardinality(Unacked) <= Processes + Cardinality(In({"delayed"}))

\* A message held for its countdown does not count against the prefetch limit.
CanConsume == Cardinality(Unacked) < Processes + Cardinality(In({"delayed"}))

Receive(t) ==
    /\ task[t].at = "queue"
    /\ CanConsume
    /\ LET at == IF task[t].left > 0 THEN "delayed" ELSE "ready"
       IN /\ task' = [task EXCEPT ![t].at = at, ![t].held = 0]
          /\ backlog' = IF at = "ready" THEN Append(backlog, t) ELSE backlog

CountdownEnds(t) ==
    /\ task[t].at = "delayed"
    /\ task[t].left = 0
    /\ task' = [task EXCEPT ![t].at = "ready"]
    /\ backlog' = Append(backlog, t)

CanStart == backlog # <<>> /\ Cardinality(In({"running"})) < Processes

StartTask ==
    /\ CanStart
    /\ task' = [task EXCEPT ![Head(backlog)].at = "running", ![Head(backlog)].ran = 0]
    /\ backlog' = Tail(backlog)

Finish(t) ==
    /\ task[t].at = "running"
    /\ task' = [task EXCEPT ![t].at = "over"]
    /\ UNCHANGED backlog

\* _execute: the next attempt is published with its countdown, this one acked.
Retry(t) ==
    /\ task[t].at = "running"
    /\ task[t].attempt < MaxRetries
    /\ task' = [task EXCEPT ![t] = [at |-> "queue", attempt |-> @.attempt + 1,
                                    left |-> Countdowns[@.attempt + 1], held |-> 0, ran |-> 0]]
    /\ UNCHANGED backlog

\* Mutant: no hard limit ends a task (the solo pool of make_celery has none).
NoTimeLimit(t) == task[t].at = "running"

MayGoOn(t) == task[t].at = "running" /\ task[t].ran < TimeLimit

\* A unit of time passes; a task that reached its hard limit does not live through
\* it, and neither a countdown that has ended nor a free process waits it out.
TimePasses ==
    /\ \A t \in In({"running"}) : MayGoOn(t)
    /\ \A t \in In({"delayed"}) : task[t].left > 0
    /\ ~CanStart
    /\ task' = [t \in Tasks |->
         [task[t] EXCEPT !.left = IF @ > 0 THEN @ - 1 ELSE 0,
                         !.held = IF t \in Unacked THEN @ + 1 ELSE @,
                         !.ran = IF task[t].at = "running" THEN @ + 1 ELSE @]]
    /\ UNCHANGED backlog

Over == In({"over"}) = Tasks /\ UNCHANGED visibilityVars

VisibilityNext ==
    \/ \E t \in Tasks : Send(t) \/ Receive(t) \/ CountdownEnds(t) \/ Finish(t) \/ Retry(t)
    \/ StartTask
    \/ In({"over"}) # Tasks /\ TimePasses
    \/ Over

VisibilitySpec == VisibilityInit /\ [][VisibilityNext]_visibilityVars

-----------------------------------------------------------------------------
\* A first attempt starts the moment it is received, so the time limit alone
\* bounds how long its message stays unacknowledged.
FirstAttemptFits ==
    \A t \in Unacked : task[t].attempt = 0 => task[t].held <= TimeLimit

\* What a held retry may wait for: the countdown of its attempt, and every other task
\* this worker may put before it, each up to the time limit.
CountdownOf(attempt) == IF attempt = 0 THEN 0 ELSE Countdowns[attempt]
RetryHeldAtMost ==
    \A t \in Unacked :
        task[t].held <= CountdownOf(task[t].attempt) + Cardinality(Tasks) * TimeLimit

\* What celery.py asks of the timeout: it does not expire while a task executes.
TimeoutClearsRuns ==
    \A t \in In({"running"}) : task[t].held < Visibility
=============================================================================
