------------------------------ MODULE TripPlanner ------------------------------
(***************************************************************************)
(* The planning of one run: per city the graph geocode -> gather ->        *)
(* compose -> critic with its capped, budgeted corrective loop (graph.py,  *)
(* nodes.py, critic.py), checkpointed by thread so that a new attempt      *)
(* resumes (checkpoint.py, run_graph, stream_graph), the cities of a trip  *)
(* planned concurrently and merged (coordinator.py), and the cost stamped  *)
(* on the result (tasks.py).  What a node writes is abstracted to what     *)
(* routes the graph, what is paid and what the caller is told it cost.     *)
(***************************************************************************)
EXTENDS Naturals, Sequences, FiniteSets, Functions

CONSTANTS
    Cities,       \* the names a request may hold
    MaxCities,    \* max_length of TripRequest.cities
    Requests,     \* request.cities: a plan's has one
    MaxAttempts,  \* _MAX_COMPOSE_ATTEMPTS
    MaxCost,      \* DEFAULT_MAX_COST_USD, in units of cost
    Prices,       \* what one LLM call may cost: 0 on a self-hosted venue
    MaxPrice,     \* the dearest of them
    EmbedPrice,   \* what a corpus query costs: its embedding and reranking
    MaxCrashes    \* bound: attempts of the run cut short

ASSUME PlannerAssumption ==
    /\ MaxCities \in Nat
    /\ \A r \in Requests : r \in Seq(Cities) /\ Len(r) \in 1..MaxCities
    /\ MaxAttempts \in Nat \ {0}
    /\ MaxCost \in Nat
    /\ MaxPrice \in Nat /\ Prices \subseteq 0..MaxPrice
    /\ EmbedPrice \in Nat
    /\ MaxCrashes \in Nat

VARIABLES
    kind,     \* "plan" or "trip"
    request,  \* request.cities
    task,     \* per position: where its run_city stands
    live,     \* per position: the graph state it holds in memory
    saved,    \* per city: the last checkpoint of its thread
    tally,    \* _RUN_SPEND: what this attempt has paid
    spent,    \* what the run has paid in all its attempts
    crashes,  \* attempts cut short
    report    \* the outcome written to the run's row

vars == <<kind, request, task, live, saved, tally, spent, crashes, report>>

-----------------------------------------------------------------------------
(* A graph state: the node due next and the channels that decide.           *)

Blank == [next |-> "geocode", geo |-> FALSE, pois |-> FALSE, attempts |-> 0,
          issues |-> FALSE, drafted |-> FALSE, cost |-> 0]
NoCheckpoint == [Blank EXCEPT !.next = "none"]

GraphCosts == 0..(4 * MaxAttempts * MaxPrice)
GraphState == [next: {"none", "geocode", "gather", "compose", "critic", "end"},
               geo: BOOLEAN, pois: BOOLEAN, attempts: 0..(2 * MaxAttempts),
               issues: BOOLEAN, drafted: BOOLEAN, cost: GraphCosts]

Tasks == DOMAIN request
Alone(t) == \A u \in Tasks : request[u] = request[t] => u = t

Init ==
    /\ kind \in {"plan", "trip"}
    /\ request \in Requests
    /\ kind = "plan" => Len(request) = 1
    /\ task = [t \in Tasks |-> "idle"]
    /\ live = [t \in Tasks |-> Blank]
    /\ saved = [c \in Cities |-> NoCheckpoint]
    /\ tally = 0
    /\ spent = 0
    /\ crashes = 0
    /\ report = [state |-> "open", cost |-> 0]

-----------------------------------------------------------------------------
(* Entering the graph: resume with no input iff the thread has a checkpoint. *)
(* The look and the run are two operations, and the thread is named by the   *)
(* city: a request that names one city twice runs two tasks on one thread.   *)

\* Mutant: run_graph always passes the initial state.
LookAndForget(t) ==
    /\ task[t] = "idle"
    /\ task' = [task EXCEPT ![t] = "fresh"]
    /\ UNCHANGED <<kind, request, live, saved, tally, spent, crashes, report>>

Look(t) ==
    /\ task[t] = "idle"
    /\ task' = [task EXCEPT ![t] = IF saved[request[t]] = NoCheckpoint
                                   THEN "fresh" ELSE "resuming"]
    /\ UNCHANGED <<kind, request, live, saved, tally, spent, crashes, report>>

\* The initial input sets no compose_attempts, itinerary or verdict: over a thread
\* that has a checkpoint by now, those stay.
Enter(t) ==
    /\ task[t] \in {"fresh", "resuming"}
    /\ live' = [live EXCEPT ![t] =
                  IF task[t] = "resuming" THEN saved[request[t]]
                  ELSE [saved[request[t]] EXCEPT !.next = "geocode"]]
    /\ task' = [task EXCEPT ![t] = IF @ = "resuming" THEN "saved" ELSE "unsaved"]
    /\ UNCHANGED <<kind, request, saved, tally, spent, crashes, report>>

-----------------------------------------------------------------------------
(* The nodes.  A task whose graph runs is "unsaved" until its last state is  *)
(* checkpointed: that happens while the next node runs, which may have paid, *)
(* before it completes.                                                      *)

Runs(t, node) == task[t] = "saved" /\ live[t].next = node

Becomes(t, state) ==
    /\ live' = [live EXCEPT ![t] = state]
    /\ task' = [task EXCEPT ![t] = "unsaved"]
    /\ UNCHANGED <<kind, request, saved, crashes, report>>

Pay(price) == tally' = tally + price /\ spent' = spent + price
Free == UNCHANGED <<tally, spent>>

\* geocode_node: a place, or none (unknown, or the service failed).
Geocode(t) ==
    /\ Runs(t, "geocode")
    /\ \E found \in BOOLEAN :
          Becomes(t, [live[t] EXCEPT !.next = "gather", !.geo = found])
    /\ Free

\* gather_node: the corpus (a paid embedding and reranking), else live places, else none.
Gather(t) ==
    /\ Runs(t, "gather")
    /\ IF live[t].geo
       THEN /\ \E some \in BOOLEAN :
                  Becomes(t, [live[t] EXCEPT !.next = "compose", !.pois = some])
            /\ Pay(EmbedPrice)
       ELSE /\ Becomes(t, [live[t] EXCEPT !.next = "compose", !.pois = FALSE])
            /\ Free

\* compose_node's delta: a re-compose adds to the cost of the draft it replaces.
Composed(state, price) ==
    [state EXCEPT !.next = "critic", !.drafted = TRUE, !.attempts = @ + 1,
                  !.cost = IF ~state.geo THEN 0
                           ELSE IF state.attempts > 0 /\ state.drafted THEN @ + price ELSE price]

Compose(t) ==
    /\ Runs(t, "compose")
    /\ IF live[t].geo
       THEN \E price \in Prices : Becomes(t, Composed(live[t], price)) /\ Pay(price)
       ELSE Becomes(t, Composed(live[t], 0)) /\ Free

\* Mutant: the budget does not pre-empt the critic.
ShouldReviseAtAnyCost(state) ==
    IF state.issues /\ state.attempts < MaxAttempts THEN "compose" ELSE "end"

\* _should_revise, on the state the critic leaves.
ShouldRevise(state) ==
    IF state.cost < MaxCost /\ state.issues /\ state.attempts < MaxAttempts
    THEN "compose" ELSE "end"

Routed(state) == [state EXCEPT !.next = ShouldRevise(state)]

\* Mutant: the critic's own call is left out of the itinerary's cost.
CriticUncharged(t) ==
    /\ Runs(t, "critic")
    /\ IF live[t].drafted /\ live[t].pois
       THEN \E price \in Prices, issues \in BOOLEAN :
               /\ Becomes(t, Routed([live[t] EXCEPT !.issues = issues]))
               /\ UNCHANGED tally /\ spent' = spent + price
       ELSE Becomes(t, Routed([live[t] EXCEPT !.issues = FALSE])) /\ Free

\* critic_node: nothing to ground against passes unread; an unparseable verdict
\* passes too, but is paid for.
Critic(t) ==
    /\ Runs(t, "critic")
    /\ IF live[t].drafted /\ live[t].pois
       THEN \E price \in Prices, issues \in BOOLEAN :
               /\ Becomes(t, Routed([live[t] EXCEPT !.issues = issues, !.cost = @ + price]))
               /\ Pay(price)
       ELSE Becomes(t, Routed([live[t] EXCEPT !.issues = FALSE])) /\ Free

Checkpoint(t) ==
    /\ task[t] = "unsaved"
    /\ saved' = [saved EXCEPT ![request[t]] = live[t]]
    /\ task' = [task EXCEPT ![t] = "saved"]
    /\ UNCHANGED <<kind, request, live, tally, spent, crashes, report>>

\* aget_state reads the thread, not the graph: final["itinerary"] of a thread that
\* another task has moved on from may be missing.
Return(t) ==
    /\ task[t] = "saved" /\ live[t].next = "end"
    /\ live' = [live EXCEPT ![t] = saved[request[t]]]
    /\ task' = [task EXCEPT ![t] = IF saved[request[t]].drafted THEN "planned" ELSE "failed"]
    /\ UNCHANGED <<kind, request, saved, tally, spent, crashes, report>>

\* Every venue refused, a node raised, a checkpoint could not be read or written.
Raise(t) ==
    /\ task[t] \in {"fresh", "resuming", "unsaved", "saved"}
    /\ task' = [task EXCEPT ![t] = "failed"]
    /\ live' = [live EXCEPT ![t] = Blank]
    /\ UNCHANGED <<kind, request, saved, tally, spent, crashes, report>>

-----------------------------------------------------------------------------
(* The run. *)

\* Mutant: gather without return_exceptions, the failed city never made up for.
AllPlanned == \A t \in Tasks : task[t] = "planned"

\* asyncio.gather: the last city is planned or has failed.
AllOver == \A t \in Tasks : task[t] \in {"planned", "failed"}
Planned == {t \in Tasks : task[t] = "planned"}
GraphCost == [t \in Tasks |-> live[t].cost]

\* _with_true_cost.
TrueCost(graphCost) == IF graphCost >= tally THEN graphCost ELSE tally

\* A trip succeeds whatever its cities did; a plan is its one city.
Succeed ==
    /\ report.state = "open" /\ AllOver
    /\ kind = "plan" => Planned # {}
    /\ report' = [state |-> "succeeded",
                  cost |-> TrueCost(SumFunctionOnSet(GraphCost, Planned))]
    /\ UNCHANGED <<kind, request, task, live, saved, tally, spent, crashes>>

Fail ==
    /\ report.state = "open" /\ AllOver
    /\ kind = "plan" /\ Planned = {}
    /\ report' = [state |-> "failed", cost |-> tally]
    /\ UNCHANGED <<kind, request, task, live, saved, tally, spent, crashes>>

\* The dearest call of a node.
NodePrice == IF MaxPrice >= EmbedPrice THEN MaxPrice ELSE EmbedPrice

\* The cities whose next node may have paid before their last one is checkpointed.
Paying == {t \in Tasks : /\ task[t] = "unsaved" /\ live[t].geo
                         /\ live[t].next \in {"gather", "compose", "critic"}}

\* The attempt ends without a result: the worker dies, or a transient error of a plan
\* is retried.  The next one starts the cities and the tally anew, and pays again for
\* what no checkpoint holds.
Crash ==
    /\ report.state = "open" /\ crashes < MaxCrashes
    /\ crashes' = crashes + 1
    /\ \E cut \in 0..(NodePrice * Cardinality(Paying)) : spent' = spent + cut
    /\ task' = [t \in Tasks |-> "idle"]
    /\ live' = [t \in Tasks |-> Blank]
    /\ tally' = 0
    /\ UNCHANGED <<kind, request, saved, report>>

Node(t) == Geocode(t) \/ Gather(t) \/ Compose(t) \/ Critic(t)
Step(t) == Look(t) \/ Enter(t) \/ Node(t) \/ Checkpoint(t) \/ Return(t)
Next == Succeed \/ Fail \/ Crash \/ \E t \in Tasks : Step(t) \/ Raise(t)

Spec == Init /\ [][Next]_vars

\* The worker drives its tasks, and the result is written.
Fairness ==
    /\ WF_vars(Succeed \/ Fail)
    /\ \A t \in 1..MaxCities : WF_vars(t \in Tasks /\ Step(t))

FairSpec == Spec /\ Fairness

-----------------------------------------------------------------------------
TypeOK ==
    /\ kind \in {"plan", "trip"}
    /\ request \in Requests
    /\ task \in [Tasks -> {"idle", "fresh", "resuming", "unsaved", "saved", "planned", "failed"}]
    /\ live \in [Tasks -> GraphState]
    /\ saved \in [Cities -> GraphState]
    /\ tally \in 0..spent
    /\ crashes \in 0..MaxCrashes
    /\ report.state \in {"open", "succeeded", "failed"}

\* What one city may cost: a draft and its reading, decided on while still below the
\* ceiling or done for the first time, and one query of the corpus.
CityBudget == EmbedPrice + 2 * MaxPrice + (IF MaxCost = 0 THEN 0 ELSE MaxCost - 1)

\* What is paid, embeddings and calls made twice included: a run whose cities are named
\* once pays for no city more than its ceiling, the two calls it may overshoot by and the
\* query, and each attempt cut short adds to that two nodes of each city at most, the one
\* not yet checkpointed and the one running (graph.py:49-61, critic.py:48-52, graph.py:137).
BudgetHolds ==
    (\A t \in Tasks : Alone(t)) =>
        spent <= Len(request) * CityBudget + crashes * (Len(request) * (2 * NodePrice))

\* The cost on the row of a run that never crashed is all it spent, its failed cities
\* and its embeddings included; of one that crashed, never more than it spent
\* (tasks.py _with_true_cost).
ReportedCost ==
    report.state # "open" /\ (\A t \in Tasks : Alone(t)) =>
        /\ crashes = 0 => report.cost = spent
        /\ report.cost <= spent

\* A city whose finished graph is checkpointed is not planned or paid for again by a
\* later attempt (coordinator.py:97-99: "a finished city resumes from END").
FinishedIsFree ==
    [][\A t \in Tasks : Alone(t) /\ saved[request[t]].next = "end"
          => saved'[request[t]] = saved[request[t]] /\ ~Node(t)]_vars

\* The corrective loop is no loop without end: the run gets its result.
RunEnds == <>(report.state # "open")
=============================================================================
