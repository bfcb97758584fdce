------------------------------- MODULE RunStream -------------------------------
(***************************************************************************)
(* How one open page follows one run.  The worker publishes an event per   *)
(* completed node and one at the end on the run's Redis channel (events.py *)
(* and tasks.py); stream_run (main.py) reads the row, then subscribes and  *)
(* forwards; the browser's EventSource and useRunStream fold the events    *)
(* and fetch the record when told the run ended (use-run-stream.ts).  The  *)
(* row is written first and published second, and read first and           *)
(* subscribed to second: between those steps anything may happen.          *)
(***************************************************************************)
EXTENDS Naturals, Sequences

CONSTANTS
    Cities,      \* what the worker plans concurrently (a plan: one; a trip: several)
    MaxCompose,  \* _MAX_COMPOSE_ATTEMPTS
    MaxLosses,   \* bound: attempts, events, connections and answers lost to faults
    MaxWire      \* bound: events on their way to the page when a node completes

ASSUME StreamAssumption ==
    MaxCompose \in Nat \ {0} /\ MaxLosses \in Nat /\ MaxWire \in Nat

VARIABLES
    status,    \* the run's row, "absent" once erased
    worker,    \* where the worker stands with the run
    steps,     \* per city: how many nodes of its graph have completed
    graph,     \* per city: whether its graph still runs
    server,    \* the SSE response the API is producing for the page
    wire,      \* events sent to the page and not yet dispatched there
    page,      \* the EventSource and the React state of useRunStream
    losses     \* faults so far

vars == <<status, worker, steps, graph, server, wire, page, losses>>

-----------------------------------------------------------------------------
Open == {"queued", "running"}
Terminal == {"succeeded", "failed"}
Status == Open \cup Terminal \cup {"absent"}

AgentNodes == <<"geocode", "gather", "compose", "critic">>
Nodes == {AgentNodes[i] : i \in DOMAIN AgentNodes}
MaxSteps == 2 + 2 * MaxCompose

\* The node a city completes as its n-th: compose and critic alternate at the end.
NodeAt(n) == IF n <= 4 THEN AgentNodes[n] ELSE AgentNodes[IF n % 2 = 1 THEN 3 ELSE 4]

MayRevise(n) == NodeAt(n) = "critic" /\ n < MaxSteps

Event(type, of) == [type |-> type, of |-> of]
Events == [type: {"status", "node", "done", "failed", "succeeded", "error"},
           of: Nodes \cup Status \cup {"none"}]

\* source: "closed" by finalize, "refused" by the browser (not a 200 event stream).
\* fetching: the status finalize falls back on while its fetch is out.
Page == [source: {"connecting", "open", "closed", "refused"},
         fetching: {"no", "answered"} \cup Terminal,
         status: Open \cup Terminal \cup {"connecting"},
         record: {"none", "refusal"} \cup Open \cup Terminal,
         nodes: [Nodes -> {"pending", "running", "done"}]]

Init ==
    /\ status = "queued"
    /\ worker = "waiting"
    /\ steps = [c \in Cities |-> 0]
    /\ graph = [c \in Cities |-> "planning"]
    /\ server = "none"
    /\ wire = <<>>
    /\ page = [source |-> "connecting", fetching |-> "no", status |-> "connecting",
               record |-> "none",
               nodes |-> [n \in Nodes |-> IF n = "geocode" THEN "running" ELSE "pending"]]
    /\ losses = 0

Lose == losses < MaxLosses /\ losses' = losses + 1

-----------------------------------------------------------------------------
(* The bus: PUBLISH reaches whoever is subscribed at that moment, or nobody; *)
(* emit swallows the failure of a publish.  A final event ends the response. *)

Publish(e) ==
    \/ /\ UNCHANGED losses
       /\ IF server = "listening"
          THEN /\ wire' = Append(wire, e)
               /\ server' = IF e.type = "node" THEN server ELSE "ended"
          ELSE UNCHANGED <<server, wire>>
    \/ Lose /\ UNCHANGED <<server, wire>>

-----------------------------------------------------------------------------
(* The worker. *)

StartRun ==
    /\ worker = "waiting" /\ status \in Open
    /\ worker' = "running"
    /\ status' = "running"
    /\ UNCHANGED <<steps, graph, server, wire, page, losses>>

\* on_event: a city's graph completed a node; after the critic it may end.
CompleteNode(c) ==
    /\ worker = "running" /\ graph[c] = "planning"
    /\ Len(wire) <= MaxWire
    /\ steps' = [steps EXCEPT ![c] = @ + 1]
    /\ Publish(Event("node", NodeAt(steps[c] + 1)))
    /\ \/ NodeAt(steps[c] + 1) # "critic" /\ UNCHANGED graph
       \/ MayRevise(steps[c] + 1) /\ UNCHANGED graph
       \/ NodeAt(steps[c] + 1) = "critic" /\ graph' = [graph EXCEPT ![c] = "ended"]
    /\ UNCHANGED <<status, worker, page>>

\* A city that raises publishes nothing; the trip goes on without it.
CityFails(c) ==
    /\ worker = "running" /\ graph[c] = "planning"
    /\ graph' = [graph EXCEPT ![c] = "failed"]
    /\ UNCHANGED <<status, worker, steps, server, wire, page, losses>>

\* The attempt ends and leaves the row open: a transient error to be retried, or
\* a death.  A node whose checkpoint was not yet written is executed again.
Interrupt ==
    /\ worker = "running" /\ Lose
    /\ worker' = "waiting"
    /\ steps' \in [Cities -> 0..MaxSteps]
    /\ \A c \in Cities : steps'[c] \in {steps[c], steps[c] - 1}
    /\ graph' = [c \in Cities |-> IF graph[c] = "ended" /\ steps'[c] = steps[c]
                                  THEN "ended" ELSE "planning"]
    /\ UNCHANGED <<status, server, wire, page>>

\* Mutant: emit("done") comes before mark_succeeded.
SaveLate(outcome) ==
    /\ worker = "running"
    /\ outcome = "succeeded" => \A c \in Cities : graph[c] # "planning"
    /\ worker' = outcome
    /\ UNCHANGED <<status, steps, graph, server, wire, page, losses>>

\* mark_succeeded, mark_failed: nothing is written to a row erased meanwhile.
Save(outcome) ==
    /\ worker = "running"
    /\ outcome = "succeeded" => \A c \in Cities : graph[c] # "planning"
    /\ worker' = outcome
    /\ status' = IF status = "absent" THEN "absent" ELSE outcome
    /\ UNCHANGED <<steps, graph, server, wire, page, losses>>

Announce ==
    /\ worker \in Terminal
    /\ Publish(Event(IF worker = "succeeded" THEN "done" ELSE "failed", "none"))
    /\ worker' = "gone"
    /\ UNCHANGED <<status, steps, graph, page>>

\* The reconciler, or _dispatch's compensation: neither has an emit.  Assumed: neither
\* closes a run a worker is past its gate with (RunLifecycle shows the races where one does).
CloseUnannounced ==
    /\ worker = "waiting" /\ status \in Open
    /\ status' = "failed"
    /\ UNCHANGED <<worker, steps, graph, server, wire, page, losses>>

Erase ==
    /\ status # "absent"
    /\ status' = "absent"
    /\ UNCHANGED <<worker, steps, graph, server, wire, page, losses>>

-----------------------------------------------------------------------------
(* stream_run, behind the BFF's pass-through route. *)

\* The BFF answers 200 and an event stream whatever the API did.
Connect ==
    /\ page.source = "connecting"
    /\ page' = [page EXCEPT !.source = "open"]
    /\ \/ server' = "reading" /\ UNCHANGED <<wire, losses>>
       \/ Lose /\ server' = "ended" /\ wire' = <<Event("error", "none")>>
    /\ UNCHANGED <<status, worker, steps, graph>>

\* Mutant: a run that has ended is waited for like any other.
ReadRunThenWait ==
    /\ server = "reading"
    /\ IF status = "absent"
       THEN wire' = Append(wire, Event("error", "none")) /\ server' = "ended"
       ELSE wire' = Append(wire, Event("status", status)) /\ server' = "subscribing"
    /\ UNCHANGED <<status, worker, steps, graph, page, losses>>

\* get_run, then the status and, for a run that has ended, its last event.
ReadRun ==
    /\ server = "reading"
    /\ CASE status = "absent" -> /\ wire' = Append(wire, Event("error", "none"))
                                 /\ server' = "ended"
         [] status \in Terminal -> /\ wire' = wire \o <<Event("status", status), Event(status, "none")>>
                                   /\ server' = "ended"
         [] status \in Open -> /\ wire' = Append(wire, Event("status", status))
                               /\ server' = "subscribing"
    /\ UNCHANGED <<status, worker, steps, graph, page, losses>>

Subscribe ==
    /\ server = "subscribing"
    /\ server' = "listening"
    /\ UNCHANGED <<status, worker, steps, graph, wire, page, losses>>

\* Postgres or Redis fails the generator, or the API restarts.
ResponseBreaks ==
    /\ server \in {"reading", "subscribing", "listening"}
    /\ Lose
    /\ server' = "ended"
    /\ UNCHANGED <<status, worker, steps, graph, wire, page>>

-----------------------------------------------------------------------------
(* The browser: an EventSource reconnects after the end or the loss of a     *)
(* response, and gives up on one that is not a 200 event stream.             *)

Reconnect ==
    /\ page' = [page EXCEPT !.source = "connecting"]
    /\ server' = "none"
    /\ wire' = <<>>
    /\ UNCHANGED <<status, worker, steps, graph>>

EndOfStream ==
    /\ page.source = "open" /\ server = "ended" /\ wire = <<>>
    /\ Reconnect /\ UNCHANGED losses

ConnectionLost ==
    /\ page.source = "open"
    /\ Lose /\ Reconnect

\* The BFF's fetch abandons a body that is silent for its body timeout.
IdleCut ==
    /\ page.source = "open" /\ server = "listening" /\ wire = <<>>
    /\ Reconnect /\ UNCHANGED losses

\* onerror with readyState CLOSED: finalize("failed").
Refused ==
    /\ page.source = "connecting"
    /\ Lose
    /\ page' = [page EXCEPT !.source = "refused", !.fetching = "failed"]
    /\ UNCHANGED <<status, worker, steps, graph, server, wire>>

-----------------------------------------------------------------------------
(* useRunStream. *)

\* Mutant: the node after a completed one always starts running.
AdvanceAlways(nodes, completed) ==
    [n \in Nodes |->
        IF n = completed THEN "done"
        ELSE IF \E i \in 1..3 : AgentNodes[i] = completed /\ AgentNodes[i + 1] = n
        THEN "running" ELSE nodes[n]]

Advance(nodes, completed) ==
    [n \in Nodes |->
        IF n = completed THEN "done"
        ELSE IF /\ nodes[n] = "pending"
                /\ \E i \in 1..3 : AgentNodes[i] = completed /\ AgentNodes[i + 1] = n
        THEN "running" ELSE nodes[n]]

Finalized(fallback) ==
    [page EXCEPT !.source = "closed", !.fetching = fallback]

\* onmessage.  A closed EventSource dispatches nothing more, and its request is
\* aborted, so the response and what it carries are gone.
Receive ==
    /\ page.source = "open" /\ wire # <<>>
    /\ LET e == Head(wire) IN
       CASE e.type = "status" -> /\ page' = [page EXCEPT !.status = e.of]
                                 /\ wire' = Tail(wire) /\ UNCHANGED server
         [] e.type = "node" -> /\ page' = [page EXCEPT !.status = "running",
                                                       !.nodes = Advance(@, e.of)]
                               /\ wire' = Tail(wire) /\ UNCHANGED server
         [] e.type = "error" -> UNCHANGED <<page, server>> /\ wire' = Tail(wire)
         [] e.type \in {"done", "succeeded"} -> /\ page' = Finalized("succeeded")
                                                /\ wire' = <<>> /\ server' = "none"
         [] e.type = "failed" -> /\ page' = Finalized("failed")
                                 /\ wire' = <<>> /\ server' = "none"
    /\ UNCHANGED <<status, worker, steps, graph, losses>>

\* The one-shot fetch of the record.  Its answer is used whatever its HTTP status:
\* a refusal is a body with no status, and the page falls back on what it was told.
FetchAnswers ==
    /\ page.fetching \in Terminal
    /\ LET fallback == page.fetching
           Shown(record, state) ==
               [page EXCEPT !.fetching = "answered", !.record = record, !.status = state,
                            !.nodes = [n \in Nodes |-> "done"]]
       IN \/ /\ status # "absent"
             /\ page' = Shown(status, status) /\ UNCHANGED losses
          \/ /\ status = "absent"
             /\ page' = Shown("refusal", fallback) /\ UNCHANGED losses
          \/ /\ Lose
             /\ \/ page' = Shown("refusal", fallback)
                \/ page' = [page EXCEPT !.fetching = "answered", !.status = fallback]
    /\ UNCHANGED <<status, worker, steps, graph, server, wire>>

-----------------------------------------------------------------------------
Worker ==
    \/ StartRun \/ Interrupt \/ Announce \/ CloseUnannounced \/ Erase
    \/ \E o \in Terminal : Save(o)
    \/ \E c \in Cities : CompleteNode(c) \/ CityFails(c)

Api == Connect \/ ReadRun \/ Subscribe \/ ResponseBreaks
Browser == EndOfStream \/ ConnectionLost \/ IdleCut \/ Refused \/ Receive \/ FetchAnswers

\* The page has what it will ever have.
Settled == page.fetching = "answered"

Next == Worker \/ Api \/ Browser

Spec == Init /\ [][Next]_vars

\* The request is served, what was sent arrives, the browser reconnects, the fetch is
\* answered, and the BFF's fetch abandons a silent body.  Nothing of the worker.
Fairness ==
    /\ WF_vars(Connect) /\ WF_vars(ReadRun) /\ WF_vars(Subscribe)
    /\ WF_vars(Receive) /\ WF_vars(EndOfStream) /\ WF_vars(IdleCut)
    /\ WF_vars(FetchAnswers)

FairSpec == Spec /\ Fairness

-----------------------------------------------------------------------------
TypeOK ==
    /\ status \in Status
    /\ worker \in {"waiting", "running", "gone"} \cup Terminal
    /\ steps \in [Cities -> 0..MaxSteps]
    /\ graph \in [Cities -> {"planning", "ended", "failed"}]
    /\ server \in {"none", "reading", "subscribing", "listening", "ended"}
    /\ wire \in Seq(Events)
    /\ page \in Page
    /\ losses \in 0..MaxLosses

\* What the page was told is true: told of the end by an event, the run has ended and
\* the record it fetches then is final; and it shows success only of a run that
\* succeeded.  Rests on the worker saving before it announces (tasks.py:151-155).
ToldTheTruth ==
    /\ page.source = "closed" => status \notin Open /\ page.record \notin Open
    /\ page.status = "succeeded" => status \in {"succeeded", "absent"}

\* No phase of the timeline goes back, although the cities of a trip interleave, the
\* critic sends a draft back and an interrupted attempt repeats nodes
\* (use-run-stream.ts:21-28).
PhasesForward ==
    [][\A n \in Nodes : /\ page.nodes[n] = "done" => page'.nodes[n] = "done"
                        /\ page.nodes[n] = "running" => page'.nodes[n] # "pending"]_vars

\* Once the run has ended the page settles, unless the run is erased: an end that was
\* published between stream_run's read and its subscription, lost on the bus or never
\* published at all is found by the next connection (main.py:312-320).
PageFinishes == (status \in Terminal) ~> (Settled \/ status = "absent")
=============================================================================
