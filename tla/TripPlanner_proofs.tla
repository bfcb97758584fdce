-------------------------- MODULE TripPlanner_proofs --------------------------
(***************************************************************************)
(* What holds of planning, for any requests, prices, budgets, caps and     *)
(* number of crashes: what is paid for a city named once stays within its  *)
(* budget but for what each crash repeats, and it is not planned again     *)
(* once its finished graph is checkpointed; the row reports what was       *)
(* spent; whatever sources answer, the merged trip says what it lacks; and *)
(* whatever places are found, the days are the best of them, evenly        *)
(* filled.  The argument for the first two: only its own task writes its   *)
(* thread, so what the thread holds is what the task held at its last      *)
(* checkpoint, and before each node the cost is bounded.                   *)
(***************************************************************************)
EXTENDS TripPlanner, Sources, DayPlan, Integers, Sums, TLAPS, SequenceTheorems,
        FiniteSetTheorems, WellFoundedInduction

TaskStates == {"idle", "fresh", "resuming", "unsaved", "saved", "planned", "failed"}
GraphNodes == {"none", "geocode", "gather", "compose", "critic", "end"}

\* The graph states, without the bounds a city named twice does not keep.
States == [next: GraphNodes, geo: BOOLEAN, pois: BOOLEAN, attempts: Nat,
           issues: BOOLEAN, drafted: BOOLEAN, cost: Nat]

ThreadsTyped ==
    /\ request \in Seq(Cities)
    /\ task \in [Tasks -> TaskStates]
    /\ live \in [Tasks -> States]
    /\ saved \in [Cities -> States]

\* What a graph state has been paid: its calls and, once it has gathered, its query.
Worth(s) ==
    s.cost + (IF s.geo /\ s.next \in {"compose", "critic", "end"} THEN EmbedPrice ELSE 0)

\* The cost a graph may have reached before the node that is due, and what a cost tells
\* of the state: calls are made for a place that was found, and added up from a draft on.
Within(s) ==
    /\ s.cost > 0 => s.geo /\ s.drafted /\ s.attempts > 0
    /\ s.next \in {"compose", "critic"} /\ s.pois => s.geo
    /\ s.next = "critic" => s.attempts > 0
    /\ s.next \in {"none", "geocode", "gather"} => s.cost = 0
    /\ s.next = "compose" => s.cost = 0 \/ s.cost < MaxCost
    /\ s.next = "critic" => s.cost <= MaxPrice \/ s.cost < MaxCost + MaxPrice
    /\ s.cost <= 2 * MaxPrice \/ s.cost < MaxCost + 2 * MaxPrice

\* What a task knows of its thread, as nobody else writes it.
InStep(t) ==
    /\ task[t] = "fresh" => saved[request[t]] = NoCheckpoint
    /\ task[t] = "unsaved" => /\ saved[request[t]].next # "end"
                              /\ Worth(live[t]) <= Worth(saved[request[t]]) + NodePrice
    /\ task[t] = "saved" => live[t] = saved[request[t]]

ThreadInv ==
    /\ ThreadsTyped
    /\ \A t \in Tasks : Alone(t) =>
          Within(live[t]) /\ Within(saved[request[t]]) /\ InStep(t)

-----------------------------------------------------------------------------
(* What each node makes of a graph state. *)

\* Prices are within the highest.
LEMMA Bounds ==
  /\ MaxPrice \in Nat /\ MaxCost \in Nat /\ \A p \in Prices : p \in Nat /\ p <= MaxPrice
  /\ EmbedPrice \in Nat /\ NodePrice \in Nat /\ MaxPrice <= NodePrice /\ EmbedPrice <= NodePrice
BY PlannerAssumption DEF NodePrice

\* The states without a city's work.
LEMMA BlankState ==
  /\ Blank \in States /\ Blank.next = "geocode" /\ Blank.cost = 0 /\ ~Blank.geo /\ ~Blank.pois
  /\ NoCheckpoint \in States /\ NoCheckpoint.next = "none" /\ NoCheckpoint.cost = 0
  /\ ~NoCheckpoint.geo /\ ~NoCheckpoint.pois
<1>1. Blank \in States /\ Blank.next = "geocode" /\ Blank.cost = 0 /\ ~Blank.geo /\ ~Blank.pois
  BY DEF Blank, States, GraphNodes
<1>2. ASSUME NEW s \in States PROVE LET n == [s EXCEPT !.next = "none"]
                                    IN /\ n \in States /\ n.next = "none" /\ n.cost = s.cost
                                       /\ n.geo = s.geo /\ n.pois = s.pois
  BY Zenon DEF States, GraphNodes
<1> QED BY <1>1, <1>2 DEF NoCheckpoint

\* Entering the graph.
LEMMA Entered ==
  ASSUME NEW s \in States
  PROVE  LET n == [s EXCEPT !.next = "geocode"]
         IN n \in States /\ n.next = "geocode" /\ n.cost = s.cost /\ n.pois = s.pois
BY Zenon DEF States, GraphNodes

\* After geocode.
LEMMA PlaceFound ==
  ASSUME NEW s \in States, NEW found \in BOOLEAN
  PROVE  LET n == [s EXCEPT !.next = "gather", !.geo = found]
         IN n \in States /\ n.next = "gather" /\ n.cost = s.cost
BY Zenon DEF States, GraphNodes

\* After gather.
LEMMA Gathered ==
  ASSUME NEW s \in States, NEW some \in BOOLEAN
  PROVE  LET n == [s EXCEPT !.next = "compose", !.pois = some]
         IN n \in States /\ n.next = "compose" /\ n.cost = s.cost /\ n.geo = s.geo /\ n.pois = some
BY Zenon DEF States, GraphNodes

\* After compose: it adds its price to what an earlier draft has cost, if there is one.
LEMMA DraftMade ==
  ASSUME NEW s \in States, NEW price \in Nat
  PROVE  LET n == Composed(s, price)
         IN /\ n \in States /\ n.next = "critic" /\ n.geo = s.geo /\ n.pois = s.pois
            /\ n.drafted /\ n.attempts > 0 /\ n.cost <= s.cost + price
            /\ ~s.geo => n.cost = 0
            /\ s.geo /\ (s.cost > 0 => s.drafted /\ s.attempts > 0) => n.cost = s.cost + price
<1> DEFINE cost == IF ~s.geo THEN 0
                   ELSE IF s.attempts > 0 /\ s.drafted THEN s.cost + price ELSE price
           tries == s.attempts + 1
<1>1. s.cost \in Nat /\ s.attempts \in Nat /\ s.geo \in BOOLEAN /\ s.drafted \in BOOLEAN
  BY DEF States
<1>2. tries \in Nat /\ tries > 0
  BY <1>1
<1>3. /\ cost \in Nat /\ cost <= s.cost + price
      /\ ~s.geo => cost = 0
      /\ s.geo /\ (s.cost > 0 => s.drafted /\ s.attempts > 0) => cost = s.cost + price
  <2>1. CASE ~s.geo
    BY <1>1, <2>1
  <2>2. CASE s.geo /\ s.attempts > 0 /\ s.drafted
    BY <1>1, <2>2
  <2>3. CASE s.geo /\ ~(s.attempts > 0 /\ s.drafted)
    BY <1>1, <2>3
  <2> QED BY <2>1, <2>2, <2>3, <1>1
<1>4. ASSUME NEW a \in Nat, NEW c \in Nat
      PROVE  LET n == [s EXCEPT !.next = "critic", !.drafted = TRUE, !.attempts = a, !.cost = c]
             IN /\ n \in States /\ n.next = "critic" /\ n.cost = c /\ n.attempts = a
                /\ n.drafted /\ n.geo = s.geo /\ n.pois = s.pois
  BY Zenon DEF States, GraphNodes
<1>5. Composed(s, price) =
        [s EXCEPT !.next = "critic", !.drafted = TRUE, !.attempts = tries, !.cost = cost]
  BY Zenon DEF Composed
<1> HIDE DEF cost, tries
<1>6. LET n == [s EXCEPT !.next = "critic", !.drafted = TRUE, !.attempts = tries, !.cost = cost]
      IN /\ n \in States /\ n.next = "critic" /\ n.cost = cost /\ n.attempts = tries
         /\ n.drafted /\ n.geo = s.geo /\ n.pois = s.pois
  BY <1>2, <1>3, <1>4, Zenon
<1>7. LET n == Composed(s, price)
      IN /\ n \in States /\ n.next = "critic" /\ n.cost = cost /\ n.attempts = tries
         /\ n.drafted /\ n.geo = s.geo /\ n.pois = s.pois
  BY <1>5, <1>6, Zenon
<1> QED BY <1>2, <1>3, <1>7

\* What the critic leaves as it was.
Unread(n, s) == /\ n.geo = s.geo /\ n.pois = s.pois
                /\ n.drafted = s.drafted /\ n.attempts = s.attempts

\* After critic.
LEMMA Judged ==
  ASSUME NEW s \in States, NEW issues \in BOOLEAN, NEW cost \in Nat,
         NEW n, n = [s EXCEPT !.issues = issues, !.cost = cost]
  PROVE  n \in States /\ n.cost = cost /\ Unread(n, s)
BY Zenon DEF States, GraphNodes, Unread

\* After a critic that had nothing to read.
LEMMA Passed ==
  ASSUME NEW s \in States
  PROVE  LET n == [s EXCEPT !.issues = FALSE]
         IN n \in States /\ n.cost = s.cost /\ Unread(n, s)
BY Zenon DEF States, GraphNodes, Unread

\* The critic's edge: another draft only while the budget lasts.
LEMMA RoutedState ==
  ASSUME NEW s \in States
  PROVE  LET n == Routed(s)
         IN /\ n \in States /\ n.cost = s.cost /\ Unread(n, s)
            /\ n.next = "end" \/ (n.next = "compose" /\ s.cost < MaxCost)
<1> DEFINE to == ShouldRevise(s)
<1>1. to = "end" \/ (to = "compose" /\ s.cost < MaxCost)
  BY DEF ShouldRevise
<1>2. ASSUME NEW x \in GraphNodes
      PROVE  LET n == [s EXCEPT !.next = x]
             IN n \in States /\ n.cost = s.cost /\ n.next = x /\ Unread(n, s)
  BY Zenon DEF States, GraphNodes, Unread
<1>3. to \in GraphNodes
  BY <1>1 DEF GraphNodes
<1>4. Routed(s) = [s EXCEPT !.next = to]
  BY DEF Routed
<1> HIDE DEF to
<1> QED BY <1>1, <1>2, <1>3, <1>4

-----------------------------------------------------------------------------
(* One task moves: it changes its state in memory, not the thread. *)

\* A task has a city.
LEMMA CityOf == ASSUME ThreadsTyped, NEW t \in Tasks PROVE request[t] \in Cities
BY DEF ThreadsTyped, Tasks

\* What is charged for a node.
Charge(price) == Pay(price) \/ (price = 0 /\ Free)

\* Of a node: the state it leaves is as bounded as the state it found, and is worth
\* as much more as it was charged.
LEMMA NodeMakes ==
  ASSUME ThreadsTyped, NEW t \in Tasks, Node(t)
  PROVE  /\ task[t] = "saved" /\ live[t].next # "end" /\ UNCHANGED <<request, saved>>
         /\ \E n \in States, price \in 0..NodePrice :
               /\ live' = [live EXCEPT ![t] = n]
               /\ task' = [task EXCEPT ![t] = "unsaved"]
               /\ Charge(price) /\ n.cost <= live[t].cost + price
               /\ Within(live[t]) => Within(n) /\ Worth(n) = Worth(live[t]) + price
<1> DEFINE s == live[t]
           Sound(n, price) == Within(s) => Within(n) /\ Worth(n) = Worth(s) + price
           Makes(n, price) == /\ n \in States /\ price \in 0..NodePrice
                              /\ live' = [live EXCEPT ![t] = n]
                              /\ task' = [task EXCEPT ![t] = "unsaved"]
                              /\ Charge(price) /\ n.cost <= s.cost + price
                              /\ Sound(n, price)
<1>1. s \in States /\ s.cost \in Nat /\ s.geo \in BOOLEAN /\ s.pois \in BOOLEAN
  BY DEF ThreadsTyped, States
<1>2. /\ task[t] = "saved" /\ live[t].next # "end" /\ UNCHANGED <<request, saved>>
  BY DEF Node, Geocode, Gather, Compose, Critic, Runs, Becomes
<1> SUFFICES \E n, price : Makes(n, price)
  BY <1>2
<1>3. CASE Geocode(t)
  <2>1. PICK found \in BOOLEAN :
           Becomes(t, [s EXCEPT !.next = "gather", !.geo = found]) /\ s.next = "geocode" /\ Free
    BY <1>3 DEF Geocode, Runs
  <2> DEFINE n == [s EXCEPT !.next = "gather", !.geo = found]
  <2>2. n \in States /\ n.next = "gather" /\ n.cost = s.cost
    BY <1>1, PlaceFound
  <2>3. live' = [live EXCEPT ![t] = n] /\ task' = [task EXCEPT ![t] = "unsaved"]
    BY <2>1 DEF Becomes
  <2> HIDE DEF n
  <2>4. Sound(n, 0)
    BY <1>1, <2>1, <2>2, Bounds DEF Within, Worth
  <2>5. Charge(0) /\ n.cost <= s.cost + 0 /\ 0 \in 0..NodePrice
    BY <1>1, <2>1, <2>2, Bounds DEF Charge
  <2> QED BY <2>2, <2>3, <2>4, <2>5
<1>4. CASE Gather(t)
  <2>1. PICK some \in BOOLEAN, price \in {0, EmbedPrice} :
           /\ Becomes(t, [s EXCEPT !.next = "compose", !.pois = some]) /\ s.next = "gather"
           /\ Charge(price)
           /\ (s.geo /\ price = EmbedPrice) \/ (~s.geo /\ ~some /\ price = 0)
    <3>1. CASE s.geo
      BY <1>4, <3>1 DEF Gather, Runs, Charge
    <3>2. CASE ~s.geo
      BY <1>4, <3>2 DEF Gather, Runs, Charge
    <3> QED BY <3>1, <3>2
  <2> DEFINE n == [s EXCEPT !.next = "compose", !.pois = some]
  <2>2. n \in States /\ n.next = "compose" /\ n.cost = s.cost /\ n.geo = s.geo /\ n.pois = some
    BY <1>1, Gathered, ZenonT(60)
  <2>3. live' = [live EXCEPT ![t] = n] /\ task' = [task EXCEPT ![t] = "unsaved"]
    BY <2>1 DEF Becomes
  <2> HIDE DEF n
  <2>4. price \in 0..NodePrice /\ n.cost <= s.cost + price
    BY <1>1, <2>1, <2>2, Bounds
  <2>5. Sound(n, price)
    BY <1>1, <2>1, <2>2, Bounds DEF Within, Worth
  <2> QED BY <2>1, <2>2, <2>3, <2>4, <2>5
<1>5. CASE Compose(t)
  <2>1. PICK price \in 0..MaxPrice :
           /\ Becomes(t, Composed(s, price)) /\ s.next = "compose"
           /\ Charge(price) /\ (~s.geo => price = 0)
    <3>1. CASE s.geo
      BY <1>5, <3>1, Bounds DEF Compose, Runs, Charge
    <3>2. CASE ~s.geo
      BY <1>5, <3>2, Bounds DEF Compose, Runs, Charge
    <3> QED BY <3>1, <3>2
  <2> DEFINE n == Composed(s, price)
  <2>2. /\ n \in States /\ n.next = "critic" /\ n.geo = s.geo /\ n.pois = s.pois
        /\ n.drafted /\ n.attempts > 0 /\ n.cost <= s.cost + price
        /\ ~s.geo => n.cost = 0
        /\ s.geo /\ (s.cost > 0 => s.drafted /\ s.attempts > 0) => n.cost = s.cost + price
    <3>1. price \in Nat
      BY Bounds
    <3> QED BY <1>1, <3>1, DraftMade
  <2>3. live' = [live EXCEPT ![t] = n] /\ task' = [task EXCEPT ![t] = "unsaved"]
    BY <2>1 DEF Becomes
  <2> HIDE DEF n
  <2>4. n.cost \in Nat /\ price \in Nat /\ price \in 0..NodePrice
    BY <2>2, Bounds DEF States
  <2>5. ASSUME Within(s) PROVE Within(n) /\ Worth(n) = Worth(s) + price
    <3>1. n.cost = s.cost + price /\ (n.cost > 0 => n.geo)
      BY <1>1, <2>1, <2>2, <2>4, <2>5 DEF Within
    <3>2. n.cost <= MaxPrice \/ n.cost < MaxCost + MaxPrice
      BY <1>1, <2>1, <2>4, <2>5, <3>1, Bounds DEF Within
    <3>3. Within(n)
      BY <2>2, <2>4, <2>5, <3>1, <3>2, <2>1, Bounds DEF Within
    <3>4. Worth(n) = Worth(s) + price
      BY <1>1, <2>1, <2>2, <2>4, <3>1, Bounds DEF Worth
    <3> QED BY <3>3, <3>4
  <2> QED BY <2>1, <2>2, <2>3, <2>4, <2>5
<1>6. CASE Critic(t)
  <2>1. ASSUME NEW m \in States, NEW price \in 0..MaxPrice,
               m.cost = s.cost + price, Unread(m, s), s.next = "critic",
               Becomes(t, Routed(m)), Charge(price),
               price = 0 \/ (s.drafted /\ s.pois)
        PROVE  Makes(Routed(m), price)
    <3> DEFINE n == Routed(m)
    <3>1. /\ n \in States /\ n.cost = m.cost /\ Unread(n, m)
          /\ n.next = "end" \/ (n.next = "compose" /\ m.cost < MaxCost)
      BY RoutedState
    <3>2. live' = [live EXCEPT ![t] = n] /\ task' = [task EXCEPT ![t] = "unsaved"]
      BY <2>1 DEF Becomes
    <3> HIDE DEF n
    <3>3. Unread(n, s) /\ n.cost = s.cost + price /\ price \in Nat /\ price \in 0..NodePrice
      BY <2>1, <3>1, Bounds DEF Unread
    <3>4. s.attempts \in Nat
      BY <1>1 DEF States
    <3>5. ASSUME Within(s) PROVE Within(n) /\ Worth(n) = Worth(s) + price
      <4>1. n.cost <= 2 * MaxPrice \/ n.cost < MaxCost + 2 * MaxPrice
        BY <1>1, <2>1, <3>3, <3>5, Bounds DEF Within
      <4>2. n.cost > 0 => n.geo /\ n.drafted /\ n.attempts > 0
        <5>1. CASE s.cost > 0
          BY <5>1, <3>3, <3>5 DEF Within, Unread
        <5>2. CASE s.cost = 0 /\ price > 0
          <6>1. s.drafted /\ s.geo /\ s.attempts > 0
            <7>1. price # 0
              BY <5>2, Bounds
            <7>2. s.drafted /\ s.pois
              BY <2>1, <7>1
            <7> QED BY <2>1, <3>5, <7>2 DEF Within
          <6> QED BY <6>1, <3>3 DEF Unread
        <5>3. CASE s.cost = 0 /\ price = 0
          BY <5>3, <3>3
        <5> QED BY <1>1, <3>3, <5>1, <5>2, <5>3
      <4>3. n.next \in {"compose", "critic"} /\ n.pois => n.geo
        BY <2>1, <3>3, <3>5 DEF Within, Unread
      <4>4. Within(n)
        BY <2>1, <3>1, <3>3, <4>1, <4>2, <4>3, Bounds DEF Within
      <4>5. Worth(n) = Worth(s) + price
        BY <1>1, <2>1, <3>1, <3>3, Bounds DEF Worth, Unread
      <4> QED BY <4>4, <4>5
    <3>6. n.cost <= s.cost + price
      BY <1>1, <3>3
    <3> QED BY <2>1, <3>1, <3>2, <3>3, <3>5, <3>6 DEF n
  <2>2. CASE live[t].drafted /\ live[t].pois
    <3>1. PICK price \in Prices, issues \in BOOLEAN :
             /\ Becomes(t, Routed([s EXCEPT !.issues = issues, !.cost = s.cost + price]))
             /\ Charge(price)
      BY <1>6, <2>2 DEF Critic, Charge
    <3> DEFINE total == s.cost + price
               m == [s EXCEPT !.issues = issues, !.cost = total]
    <3>2. price \in 0..MaxPrice /\ total \in Nat
      BY <1>1, Bounds
    <3>3. s.next = "critic" /\ Becomes(t, Routed(m))
      BY <1>6, <3>1 DEF Critic, Runs
    <3> HIDE DEF total
    <3>4. m = [s EXCEPT !.issues = issues, !.cost = total]
      OBVIOUS
    <3> HIDE DEF m
    <3>5. m \in States /\ m.cost = total /\ Unread(m, s)
      <4>1. s \in States /\ total \in Nat /\ issues \in BOOLEAN
        BY <1>1, <3>2
      <4> HIDE DEF s
      <4> QED BY <3>4, <4>1, Judged
    <3>6. m.cost = s.cost + price
      BY <3>5 DEF total
    <3>7. Makes(Routed(m), price)
      BY <2>1, <2>2, <3>1, <3>2, <3>3, <3>5, <3>6
    <3> QED BY <3>7
  <2>3. CASE ~(live[t].drafted /\ live[t].pois)
    <3> DEFINE m == [s EXCEPT !.issues = FALSE]
    <3>1. s.next = "critic" /\ Becomes(t, Routed(m)) /\ Charge(0)
      BY <1>6, <2>3 DEF Critic, Runs, Charge
    <3>2. m \in States /\ m.cost = s.cost /\ Unread(m, s)
      BY <1>1, Passed
    <3> HIDE DEF m
    <3>3. m.cost = s.cost + 0 /\ 0 \in 0..MaxPrice
      BY <1>1, <3>2, Bounds
    <3>4. Makes(Routed(m), 0)
      BY <2>1, <3>1, <3>2, <3>3
    <3> QED BY <3>4
  <2> QED BY <2>2, <2>3
<1> QED BY <1>3, <1>4, <1>5, <1>6 DEF Node

\* What a task's move has to keep of its own thread.
LEMMA TaskMoves ==
  ASSUME ThreadInv, NEW t \in Tasks, NEW n \in States, NEW at \in TaskStates,
         live' = [live EXCEPT ![t] = n], task' = [task EXCEPT ![t] = at],
         UNCHANGED <<request, saved>>,
         Alone(t) => /\ Within(n)
                     /\ at = "fresh" => saved[request[t]] = NoCheckpoint
                     /\ at = "unsaved" => /\ saved[request[t]].next # "end"
                                          /\ Worth(n) <= Worth(saved[request[t]]) + NodePrice
                     /\ at = "saved" => n = saved[request[t]]
  PROVE  ThreadInv'
<1>1. ThreadsTyped'
  BY DEF ThreadInv, ThreadsTyped, Tasks
<1>2. ASSUME NEW u \in Tasks', Alone(u)'
      PROVE  (Within(live[u]) /\ Within(saved[request[u]]) /\ InStep(u))'
  <2>1. u \in Tasks /\ Alone(u)
    BY <1>2 DEF Tasks, Alone
  <2>2. Within(live[u]) /\ Within(saved[request[u]]) /\ InStep(u)
    BY <2>1 DEF ThreadInv
  <2>3. CASE u = t
    <3>1. live'[u] = n /\ task'[u] = at
      BY <2>3 DEF ThreadInv, ThreadsTyped
    <3> QED BY <2>1, <2>2, <2>3, <3>1 DEF Within, Worth, InStep
  <2>4. CASE u # t
    <3>1. live'[u] = live[u] /\ task'[u] = task[u]
      BY <2>1, <2>4 DEF ThreadInv, ThreadsTyped
    <3> QED BY <2>2, <3>1 DEF Within, Worth, InStep
  <2> QED BY <2>3, <2>4
<1> QED BY <1>1, <1>2 DEF ThreadInv

-----------------------------------------------------------------------------
(* The invariant. *)

\* What a state is worth is a number.
LEMMA WorthIsNat == \A s \in States : Worth(s) \in Nat
BY Bounds DEF States, Worth

\* A state without work is within every bound.
LEMMA BlankWithin == Within(Blank) /\ Within(NoCheckpoint)
BY BlankState, Bounds DEF Within

\* No thread exists at first.
LEMMA ThreadInit == Init => ThreadInv
<1> SUFFICES ASSUME Init PROVE ThreadInv
  OBVIOUS
<1>1. request \in Seq(Cities)
  BY PlannerAssumption DEF Init
<1>2. ThreadsTyped
  BY <1>1, BlankState DEF Init, ThreadsTyped, TaskStates
<1>3. \A t \in Tasks : /\ task[t] = "idle" /\ live[t] = Blank
                       /\ saved[request[t]] = NoCheckpoint
  BY <1>2, CityOf DEF Init
<1> QED BY <1>2, <1>3, BlankWithin DEF ThreadInv, InStep

\* A checkpoint is written.
LEMMA CheckpointStep ==
  ASSUME ThreadInv, NEW t \in Tasks, Checkpoint(t)
  PROVE  ThreadInv'
<1>1. /\ task[t] = "unsaved" /\ UNCHANGED <<request, live>>
      /\ saved' = [saved EXCEPT ![request[t]] = live[t]]
      /\ task' = [task EXCEPT ![t] = "saved"]
  BY DEF Checkpoint
<1>2. ThreadsTyped /\ request[t] \in Cities /\ live[t] \in States
  BY CityOf DEF ThreadInv, ThreadsTyped
<1>3. ThreadsTyped'
  BY <1>1, <1>2 DEF ThreadsTyped, Tasks, TaskStates
<1>4. ASSUME NEW u \in Tasks', Alone(u)'
      PROVE  (Within(live[u]) /\ Within(saved[request[u]]) /\ InStep(u))'
  <2>1. u \in Tasks /\ Alone(u)
    BY <1>1, <1>4 DEF Tasks, Alone
  <2>2. Within(live[u]) /\ Within(saved[request[u]]) /\ InStep(u)
    BY <2>1 DEF ThreadInv
  <2>3. CASE u = t
    <3>1. saved'[request'[u]] = live[u] /\ live'[u] = live[u] /\ task'[u] = "saved"
      BY <1>1, <1>2, <2>1, <2>3 DEF ThreadsTyped
    <3> QED BY <2>2, <3>1 DEF Within, Worth, InStep
  <2>4. CASE u # t
    <3>1. request[u] # request[t]
      BY <2>1, <2>4 DEF Alone
    <3>2. saved'[request'[u]] = saved[request[u]] /\ live'[u] = live[u] /\ task'[u] = task[u]
      BY <1>1, <1>2, <2>1, <2>4, <3>1, CityOf DEF ThreadsTyped
    <3> QED BY <1>1, <2>2, <3>2 DEF Within, Worth, InStep
  <2> QED BY <2>3, <2>4
<1> QED BY <1>3, <1>4 DEF ThreadInv

\* A node, or an error.
LEMMA StepOfTask ==
  ASSUME ThreadInv, NEW t \in Tasks, Step(t) \/ Raise(t)
  PROVE  ThreadInv'
<1> DEFINE thread == saved[request[t]]
<1>1. ThreadsTyped /\ request[t] \in Cities /\ live[t] \in States /\ thread \in States
  BY CityOf DEF ThreadInv, ThreadsTyped
<1>2. Alone(t) => Within(live[t]) /\ Within(thread) /\ InStep(t)
  BY DEF ThreadInv
<1>3. CASE Look(t)
  <2> DEFINE at == IF thread = NoCheckpoint THEN "fresh" ELSE "resuming"
  <2>1. at \in TaskStates /\ task' = [task EXCEPT ![t] = at] /\ UNCHANGED <<request, saved, live>>
    BY <1>3 DEF Look, TaskStates
  <2>2. live' = [live EXCEPT ![t] = live[t]]
    BY <1>1, <2>1 DEF ThreadsTyped
  <2>3. at \notin {"unsaved", "saved"} /\ (at = "fresh" => thread = NoCheckpoint)
    OBVIOUS
  <2> HIDE DEF at
  <2> QED BY <1>1, <1>2, <2>1, <2>2, <2>3, TaskMoves
<1>4. CASE Enter(t)
  <2>1. UNCHANGED <<request, saved>>
    BY <1>4 DEF Enter
  <2>2. CASE task[t] = "resuming"
    <3>1. live' = [live EXCEPT ![t] = thread] /\ task' = [task EXCEPT ![t] = "saved"]
      BY <1>4, <2>2 DEF Enter
    <3>2. "saved" \in TaskStates
      BY DEF TaskStates
    <3> QED BY <1>1, <1>2, <2>1, <3>1, <3>2, TaskMoves
  <2>3. CASE task[t] = "fresh"
    <3> DEFINE n == [thread EXCEPT !.next = "geocode"]
    <3>1. live' = [live EXCEPT ![t] = n] /\ task' = [task EXCEPT ![t] = "unsaved"]
      BY <1>4, <2>3 DEF Enter
    <3>2. n \in States /\ n.next = "geocode" /\ n.cost = thread.cost /\ n.pois = thread.pois
      BY <1>1, Entered
    <3> HIDE DEF n
    <3>3. Alone(t) => thread.next = "none" /\ thread.cost = 0 /\ ~thread.pois
      BY <1>2, <2>3, BlankState DEF InStep
    <3>4. Alone(t) => Within(n) /\ Worth(n) <= Worth(thread) + NodePrice
      BY <3>2, <3>3, Bounds DEF Within, Worth
    <3>5. "unsaved" \in TaskStates
      BY DEF TaskStates
    <3> QED BY <1>1, <2>1, <3>1, <3>2, <3>3, <3>4, <3>5, TaskMoves
  <2> QED BY <1>4, <2>2, <2>3 DEF Enter
<1>5. CASE Node(t)
  <2>1. task[t] = "saved" /\ live[t].next # "end" /\ UNCHANGED <<request, saved>>
    BY <1>1, <1>5, NodeMakes
  <2>2. Alone(t) => thread.next # "end" /\ live[t] = thread
    BY <1>2, <2>1 DEF InStep
  <2>3. "unsaved" \in TaskStates
    BY DEF TaskStates
  <2>4. PICK n \in States, price \in 0..NodePrice :
           /\ live' = [live EXCEPT ![t] = n]
           /\ task' = [task EXCEPT ![t] = "unsaved"]
           /\ Within(live[t]) => Within(n) /\ Worth(n) = Worth(live[t]) + price
    BY <1>1, <1>5, NodeMakes
  <2>5. Alone(t) => Within(n) /\ Worth(n) <= Worth(thread) + NodePrice
    BY <1>1, <1>2, <2>2, <2>4, Bounds, WorthIsNat
  <2> QED BY <2>1, <2>2, <2>3, <2>4, <2>5, TaskMoves
<1>6. CASE Checkpoint(t)
  BY <1>6, CheckpointStep
<1>7. CASE Return(t)
  <2> DEFINE at == IF thread.drafted THEN "planned" ELSE "failed"
  <2>1. /\ live' = [live EXCEPT ![t] = thread] /\ task' = [task EXCEPT ![t] = at]
        /\ UNCHANGED <<request, saved>> /\ at \in TaskStates
    BY <1>7 DEF Return, TaskStates
  <2>2. at \notin {"fresh", "unsaved", "saved"}
    OBVIOUS
  <2> HIDE DEF at
  <2> QED BY <1>1, <1>2, <2>1, <2>2, TaskMoves
<1>8. CASE Raise(t)
  <2>1. /\ live' = [live EXCEPT ![t] = Blank] /\ task' = [task EXCEPT ![t] = "failed"]
        /\ UNCHANGED <<request, saved>> /\ "failed" \in TaskStates
    BY <1>8 DEF Raise, TaskStates
  <2> QED BY <2>1, BlankState, BlankWithin, TaskMoves
<1> QED BY <1>3, <1>4, <1>5, <1>6, <1>7, <1>8 DEF Step

\* Every step keeps the invariant.
LEMMA ThreadNext == ThreadInv /\ [Next]_vars => ThreadInv'
<1> SUFFICES ASSUME ThreadInv, [Next]_vars PROVE ThreadInv'
  OBVIOUS
<1>1. CASE \E t \in Tasks : Step(t) \/ Raise(t)
  BY <1>1, StepOfTask
<1>2. CASE Succeed \/ Fail \/ UNCHANGED vars
  <2>1. UNCHANGED <<request, task, live, saved>>
    BY <1>2 DEF Succeed, Fail, vars
  <2> QED BY <2>1 DEF ThreadInv, ThreadsTyped, Tasks, Alone, Within, Worth, InStep
<1>3. CASE Crash
  <2>1. /\ UNCHANGED <<request, saved>>
        /\ task' = [t \in Tasks |-> "idle"] /\ live' = [t \in Tasks |-> Blank]
    BY <1>3 DEF Crash
  <2>2. ThreadsTyped'
    BY <2>1, BlankState DEF ThreadInv, ThreadsTyped, Tasks, TaskStates
  <2>3. ASSUME NEW t \in Tasks', Alone(t)'
        PROVE  (Within(live[t]) /\ Within(saved[request[t]]) /\ InStep(t))'
    <3>1. t \in Tasks /\ Alone(t) /\ live'[t] = Blank /\ task'[t] = "idle"
      BY <2>1, <2>3 DEF Tasks, Alone
    <3>2. Within(saved[request[t]])
      BY <3>1 DEF ThreadInv
    <3> QED BY <2>1, <3>1, <3>2, BlankWithin DEF Within, Worth, InStep
  <2> QED BY <2>2, <2>3 DEF ThreadInv
<1> QED BY <1>1, <1>2, <1>3 DEF Next

-----------------------------------------------------------------------------
\* A city whose finished graph is checkpointed is not planned again, nor its
\* checkpoint overwritten, by whatever attempt follows (graph.py run_graph).
THEOREM FinishedStays == Spec => FinishedIsFree
<1> DEFINE LeftAlone(t) == Alone(t) /\ saved[request[t]].next = "end"
                         => saved'[request[t]] = saved[request[t]] /\ ~Node(t)
<1>1. ASSUME ThreadInv, Next PROVE \A t \in Tasks : LeftAlone(t)
  <2>1. SUFFICES ASSUME NEW t \in Tasks, Alone(t), saved[request[t]].next = "end"
                 PROVE  saved'[request[t]] = saved[request[t]] /\ ~Node(t)
    OBVIOUS
  <2>2. ThreadsTyped /\ InStep(t)
    BY <1>1, <2>1 DEF ThreadInv
  <2>3. ~Node(t)
    BY <2>1, <2>2, NodeMakes DEF InStep
  <2>4. CASE UNCHANGED saved
    BY <2>3, <2>4
  <2>5. CASE \E u \in Tasks : Checkpoint(u)
    <3>1. PICK u \in Tasks : Checkpoint(u)
      BY <2>5
    <3>2. task[u] = "unsaved" /\ saved' = [saved EXCEPT ![request[u]] = live[u]]
      BY <3>1 DEF Checkpoint
    <3>3. u # t
      BY <2>1, <2>2, <3>2 DEF InStep
    <3>4. request[u] # request[t]
      BY <2>1, <3>3 DEF Alone
    <3> QED BY <2>2, <2>3, <3>2, <3>4, CityOf DEF ThreadsTyped
  <2>6. UNCHANGED saved \/ \E u \in Tasks : Checkpoint(u)
    <3>1. ASSUME NEW u \in Tasks, Node(u) PROVE UNCHANGED saved
      BY <2>2, <3>1, NodeMakes
    <3> QED BY <1>1, <3>1 DEF Next, Step, Look, Enter, Return, Raise, Succeed, Fail, Crash
  <2> QED BY <2>4, <2>5, <2>6
<1>2. ThreadInv /\ [Next]_vars => [\A t \in Tasks : LeftAlone(t)]_vars
  BY <1>1
<1> QED BY <1>2, ThreadInit, ThreadNext, PTL DEF Spec, FinishedIsFree
-----------------------------------------------------------------------------
(* What the row says the run cost.  The argument: while its cities are named  *)
(* once, what the graph of a city has counted, in memory or in its thread,    *)
(* has been paid for it; and without a crash the tally is all that was paid.  *)

Apart == \A t \in Tasks : Alone(t)

\* The most that city t is counted at, in memory and in its thread.
Highest == [t \in Tasks |-> IF live[t].cost >= saved[request[t]].cost
                            THEN live[t].cost ELSE saved[request[t]].cost]

CostInv ==
    /\ ThreadInv
    /\ tally \in Nat /\ spent \in Nat /\ tally <= spent /\ crashes \in Nat
    /\ crashes = 0 => tally = spent
    /\ report.state # "open" => AllOver
    /\ Apart => SumFunctionOnSet(Highest, Tasks) <= spent
    /\ ReportedCost

\* The highest cost of a task is its live or its saved one.
LEMMA HighestCost ==
  ASSUME ThreadsTyped
  PROVE  /\ IsFiniteSet(Tasks)
         /\ \A t \in Tasks :
               /\ Highest[t] \in Nat /\ live[t].cost \in Nat /\ saved[request[t]].cost \in Nat
               /\ live[t].cost <= Highest[t] /\ saved[request[t]].cost <= Highest[t]
               /\ Highest[t] \in {live[t].cost, saved[request[t]].cost}
<1>1. Tasks = 1..Len(request) /\ Len(request) \in Nat
  BY DEF ThreadsTyped, Tasks
<1>2. IsFiniteSet(Tasks)
  BY <1>1, FS_Interval
<1>3. \A t \in Tasks : live[t].cost \in Nat /\ saved[request[t]].cost \in Nat
  BY CityOf DEF ThreadsTyped, States
<1> QED BY <1>2, <1>3 DEF Highest

\* The same of the next state.
LEMMA HighestCostNext ==
  ASSUME ThreadsTyped'
  PROVE  \A t \in Tasks' :
               /\ Highest'[t] \in Nat /\ live'[t].cost \in Nat /\ saved'[request'[t]].cost \in Nat
               /\ live'[t].cost <= Highest'[t] /\ saved'[request'[t]].cost <= Highest'[t]
               /\ Highest'[t] \in {live'[t].cost, saved'[request'[t]].cost}
<1>1. \A t \in Tasks' : live'[t].cost \in Nat /\ saved'[request'[t]].cost \in Nat
  BY DEF ThreadsTyped, States, Tasks
<1> QED BY <1>1 DEF Highest

\* A node pays at least what it adds to the cost of its city.
LEMMA NodePays ==
  ASSUME ThreadsTyped, tally \in Nat, spent \in Nat, NEW t \in Tasks, Node(t)
  PROVE  \E n \in States, price \in Nat :
            /\ live' = [live EXCEPT ![t] = n] /\ n.cost <= live[t].cost + price
            /\ tally' = tally + price /\ spent' = spent + price
<1>1. PICK n \in States, price \in 0..NodePrice :
         live' = [live EXCEPT ![t] = n] /\ Charge(price) /\ n.cost <= live[t].cost + price
  BY NodeMakes
<1>2. price \in Nat /\ tally' = tally + price /\ spent' = spent + price
  BY <1>1, Bounds DEF Charge, Pay, Free
<1> QED BY <1>1, <1>2

\* A task pays `price` and adds no more than that to the highest cost of its city.
LEMMA CostGrows ==
  ASSUME CostInv, ThreadInv', NEW t \in Tasks, task[t] \notin {"planned", "failed"},
         UNCHANGED <<request, crashes, report>>,
         NEW price \in Nat, tally' = tally + price, spent' = spent + price,
         Apart => /\ Highest'[t] <= Highest[t] + price
                  /\ \A u \in Tasks : u # t => Highest'[u] <= Highest[u]
  PROVE  CostInv'
<1>1. report.state = "open"
  BY DEF CostInv, AllOver
<1>2. Tasks' = Tasks /\ (Apart <=> Apart')
  BY DEF Tasks, Apart, Alone
<1>3. ThreadsTyped /\ ThreadsTyped'
  BY DEF CostInv, ThreadInv
<1>4. /\ IsFiniteSet(Tasks)
      /\ \A u \in Tasks : Highest[u] \in Nat /\ Highest'[u] \in Nat
  BY <1>2, <1>3, HighestCost, HighestCostNext
<1>5. tally \in Nat /\ spent \in Nat /\ tally <= spent /\ crashes \in Nat
  BY DEF CostInv
<1>6. ASSUME Apart PROVE SumFunctionOnSet(Highest', Tasks) <= spent'
  <2>1. SumFunctionOnSet(Highest', Tasks) <= SumFunctionOnSet(Highest, Tasks) + price
    BY <1>4, <1>6, SumGrows
  <2>2. SumFunctionOnSet(Highest, Tasks) \in Nat /\ SumFunctionOnSet(Highest', Tasks) \in Nat
    BY <1>4, SumIsNat
  <2>3. SumFunctionOnSet(Highest, Tasks) <= spent
    BY <1>6 DEF CostInv
  <2> QED BY <1>5, <2>1, <2>2, <2>3
<1>7. tally' \in Nat /\ spent' \in Nat /\ tally' <= spent' /\ crashes' \in Nat
  BY <1>5
<1>8. crashes' = 0 => tally' = spent'
  BY DEF CostInv
<1>9. report'.state = "open" /\ ReportedCost'
  BY <1>1 DEF ReportedCost
<1> QED BY <1>2, <1>6, <1>7, <1>8, <1>9 DEF CostInv

\* A task that pays nothing: it takes over its thread's state, or leaves its own there.
LEMMA CostStays ==
  ASSUME CostInv, ThreadInv', NEW t \in Tasks, task[t] \notin {"planned", "failed"},
         UNCHANGED <<request, crashes, report, tally, spent>>,
         Apart => /\ live'[t].cost <= Highest[t] /\ saved'[request[t]].cost <= Highest[t]
                  /\ \A u \in Tasks : u # t => /\ live'[u] = live[u]
                                               /\ saved'[request[u]] = saved[request[u]]
  PROVE  CostInv'
<1>1. tally' = tally + 0 /\ spent' = spent + 0
  BY DEF CostInv
<1>2. ThreadsTyped /\ ThreadsTyped' /\ Tasks' = Tasks
  BY DEF CostInv, ThreadInv, Tasks
<1>3. ASSUME Apart
      PROVE  /\ Highest'[t] <= Highest[t] + 0
             /\ \A u \in Tasks : u # t => Highest'[u] <= Highest[u]
  <2>1. Highest'[t] \in {live'[t].cost, saved'[request[t]].cost}
    BY <1>2, HighestCostNext
  <2>2. Highest[t] \in Nat /\ Highest'[t] <= Highest[t]
    BY <1>2, <1>3, <2>1, HighestCost
  <2>3. ASSUME NEW u \in Tasks, u # t PROVE Highest'[u] <= Highest[u]
    <3>1. Highest'[u] = Highest[u]
      BY <1>2, <1>3, <2>3 DEF Highest
    <3>2. Highest[u] \in Nat
      BY <1>2, HighestCost
    <3> QED BY <3>1, <3>2
  <2> QED BY <2>2, <2>3
<1> QED BY <1>1, <1>3, CostGrows

\* A node costs what the run is charged.
LEMMA CostOfNode ==
  ASSUME CostInv, ThreadInv', NEW t \in Tasks, Node(t)
  PROVE  CostInv'
<1>1. ThreadsTyped /\ ThreadsTyped' /\ tally \in Nat /\ spent \in Nat
  BY DEF CostInv, ThreadInv
<1>2. task[t] = "saved" /\ UNCHANGED <<request, saved, crashes, report>>
  BY DEF Node, Geocode, Gather, Compose, Critic, Runs, Becomes
<1>3. PICK n \in States, price \in Nat :
         /\ live' = [live EXCEPT ![t] = n] /\ n.cost <= live[t].cost + price
         /\ tally' = tally + price /\ spent' = spent + price
  BY <1>1, NodePays
<1>4. live'[t] = n /\ \A u \in Tasks : u # t => live'[u] = live[u]
  BY <1>1, <1>3 DEF ThreadsTyped
<1>5. Tasks' = Tasks
  BY <1>2 DEF Tasks
<1>6. Highest'[t] <= Highest[t] + price
  <2>1. Highest'[t] \in {n.cost, saved[request[t]].cost} /\ n.cost \in Nat
    BY <1>1, <1>2, <1>4, <1>5, HighestCostNext
  <2>2. /\ Highest[t] \in Nat /\ live[t].cost \in Nat /\ saved[request[t]].cost \in Nat
        /\ live[t].cost <= Highest[t] /\ saved[request[t]].cost <= Highest[t]
    BY <1>1, HighestCost
  <2> QED BY <1>3, <2>1, <2>2
<1>7. ASSUME NEW u \in Tasks, u # t PROVE Highest'[u] <= Highest[u]
  <2>1. Highest'[u] = Highest[u]
    BY <1>2, <1>4, <1>5, <1>7 DEF Highest
  <2>2. Highest[u] \in Nat
    BY <1>1, HighestCost
  <2> QED BY <2>1, <2>2
<1>8. task[t] \notin {"planned", "failed"}
  BY <1>2
<1> QED BY <1>2, <1>3, <1>6, <1>7, <1>8, CostGrows

\* So does every step of a task.
LEMMA CostOfTask ==
  ASSUME CostInv, ThreadInv', NEW t \in Tasks, Step(t) \/ Raise(t)
  PROVE  CostInv'
<1> DEFINE thread == saved[request[t]]
<1>1. ThreadsTyped /\ request[t] \in Cities /\ live[t] \in States /\ thread \in States
  BY CityOf DEF CostInv, ThreadInv, ThreadsTyped
<1>2. /\ Highest[t] \in Nat /\ live[t].cost \in Nat /\ thread.cost \in Nat
      /\ live[t].cost <= Highest[t] /\ thread.cost <= Highest[t]
  BY <1>1, HighestCost

\* Only the memory of the task changes, and to a state that costs no more.
<1>3. ASSUME NEW s, live' = [live EXCEPT ![t] = s], s.cost <= Highest[t],
             UNCHANGED <<saved, request, crashes, report, tally, spent>>,
             task[t] \notin {"planned", "failed"}
      PROVE  CostInv'
  <2>1. live'[t] = s /\ \A u \in Tasks : u # t => live'[u] = live[u]
    BY <1>1, <1>3 DEF ThreadsTyped
  <2>2. /\ live'[t].cost <= Highest[t] /\ saved'[request[t]].cost <= Highest[t]
        /\ \A u \in Tasks : u # t => /\ live'[u] = live[u]
                                     /\ saved'[request[u]] = saved[request[u]]
    BY <1>2, <1>3, <2>1
  <2> QED BY <1>3, <2>2, CostStays
<1>4. CASE Look(t)
  <2>1. /\ UNCHANGED <<saved, request, crashes, report, tally, spent, live>>
        /\ task[t] \notin {"planned", "failed"}
    BY <1>4 DEF Look
  <2>2. live' = [live EXCEPT ![t] = live[t]]
    BY <1>1, <2>1 DEF ThreadsTyped
  <2> QED BY <1>2, <1>3, <2>1, <2>2
<1>5. CASE Enter(t)
  <2>1. /\ UNCHANGED <<saved, request, crashes, report, tally, spent>>
        /\ task[t] \notin {"planned", "failed"}
    BY <1>5 DEF Enter
  <2>2. CASE task[t] = "resuming"
    <3>1. live' = [live EXCEPT ![t] = thread]
      BY <1>5, <2>2 DEF Enter
    <3> QED BY <1>2, <1>3, <2>1, <3>1
  <2>3. CASE task[t] = "fresh"
    <3> DEFINE n == [thread EXCEPT !.next = "geocode"]
    <3>1. live' = [live EXCEPT ![t] = n]
      BY <1>5, <2>3 DEF Enter
    <3>2. n.cost = thread.cost
      BY <1>1, Entered
    <3> HIDE DEF n
    <3> QED BY <1>2, <1>3, <2>1, <3>1, <3>2
  <2> QED BY <1>5, <2>2, <2>3 DEF Enter
<1>6. CASE Node(t)
  BY <1>6, CostOfNode
<1>7. CASE Checkpoint(t)
  <2>1. /\ UNCHANGED <<live, request, crashes, report, tally, spent>>
        /\ saved' = [saved EXCEPT ![request[t]] = live[t]]
        /\ task[t] \notin {"planned", "failed"}
    BY <1>7 DEF Checkpoint
  <2>2. saved'[request[t]] = live[t]
    BY <1>1, <2>1 DEF ThreadsTyped
  <2>3. Apart => \A u \in Tasks : u # t => saved'[request[u]] = saved[request[u]]
    <3>1. SUFFICES ASSUME Apart, NEW u \in Tasks, u # t
                   PROVE  saved'[request[u]] = saved[request[u]]
      OBVIOUS
    <3>2. request[u] # request[t] /\ request[u] \in Cities
      BY <1>1, <3>1, CityOf DEF Apart, Alone
    <3> QED BY <1>1, <2>1, <3>2 DEF ThreadsTyped
  <2> QED BY <1>2, <2>1, <2>2, <2>3, CostStays
<1>8. CASE Return(t)
  <2>1. /\ UNCHANGED <<saved, request, crashes, report, tally, spent>>
        /\ live' = [live EXCEPT ![t] = thread]
        /\ task[t] \notin {"planned", "failed"}
    BY <1>8 DEF Return
  <2> QED BY <1>2, <1>3, <2>1
<1>9. CASE Raise(t)
  <2>1. /\ UNCHANGED <<saved, request, crashes, report, tally, spent>>
        /\ live' = [live EXCEPT ![t] = Blank]
        /\ task[t] \notin {"planned", "failed"}
    BY <1>9 DEF Raise
  <2>2. Blank.cost <= Highest[t]
    BY <1>2, BlankState
  <2> QED BY <1>3, <2>1, <2>2
<1> QED BY <1>4, <1>5, <1>6, <1>7, <1>8, <1>9 DEF Step

\* The row gets the larger of the tally and what the planned graphs counted.
LEMMA CostOfEnd ==
  ASSUME CostInv, ThreadInv', Succeed \/ Fail
  PROVE  CostInv'
<1>1. UNCHANGED <<request, task, live, saved, tally, spent, crashes>> /\ AllOver
  BY DEF Succeed, Fail
<1>2. ThreadsTyped
  BY DEF CostInv, ThreadInv
<1>3. /\ tally \in Nat /\ spent \in Nat /\ tally <= spent /\ crashes \in Nat
      /\ crashes = 0 => tally = spent
  BY DEF CostInv
<1>4. ASSUME Apart PROVE /\ report'.cost <= spent
                         /\ crashes = 0 => report'.cost = spent
  <2>1. Planned \in SUBSET Tasks /\ IsFiniteSet(Planned)
    BY <1>2, HighestCost, FS_Subset DEF Planned
  <2>2. \A t \in Tasks : GraphCost[t] \in Nat /\ Highest[t] \in Nat /\ GraphCost[t] <= Highest[t]
    BY <1>2, HighestCost DEF GraphCost
  <2>3. SumFunctionOnSet(GraphCost, Planned) <= SumFunctionOnSet(GraphCost, Tasks)
    BY <1>2, <2>1, <2>2, HighestCost, SumOfPart
  <2>4. SumFunctionOnSet(GraphCost, Tasks) <= SumFunctionOnSet(Highest, Tasks)
    BY <1>2, <2>2, HighestCost, SumAtMost
  <2>5. SumFunctionOnSet(Highest, Tasks) <= spent
    BY <1>4 DEF CostInv
  <2>6. SumFunctionOnSet(GraphCost, Planned) \in Nat
    <3>1. \A t \in Planned : GraphCost[t] \in Nat
      BY <2>1, <2>2
    <3> QED BY <2>1, <3>1, SumIsNat
  <2>7. SumFunctionOnSet(GraphCost, Tasks) \in Nat /\ SumFunctionOnSet(Highest, Tasks) \in Nat
    BY <1>2, <2>2, HighestCost, SumIsNat
  <2>8. PICK counted \in Nat : counted = SumFunctionOnSet(GraphCost, Planned) /\ counted <= spent
    BY <1>3, <2>3, <2>4, <2>5, <2>6, <2>7
  <2>9. CASE Succeed
    <3>1. report'.cost = TrueCost(counted)
      BY <2>8, <2>9 DEF Succeed
    <3> QED BY <1>3, <2>8, <3>1 DEF TrueCost
  <2>10. CASE Fail
    <3>1. report'.cost = tally
      BY <2>10 DEF Fail
    <3> QED BY <1>3, <3>1
  <2> QED BY <2>9, <2>10
<1>5. Tasks' = Tasks /\ (Apart <=> Apart') /\ AllOver' /\ Highest' = Highest
  BY <1>1 DEF Tasks, Apart, Alone, AllOver, Highest
<1>6. ReportedCost'
  BY <1>1, <1>4, <1>5 DEF ReportedCost, Apart
<1> QED BY <1>1, <1>3, <1>5, <1>6 DEF CostInv

\* A crash forgets the tally and what is in memory, not what was paid.
LEMMA CostOfCrash ==
  ASSUME CostInv, ThreadInv', Crash
  PROVE  CostInv'
<1>8. PICK cut \in 0..(NodePrice * Cardinality(Paying)) : spent' = spent + cut
  BY DEF Crash
<1>1. /\ report.state = "open" /\ crashes' = crashes + 1 /\ tally' = 0
      /\ live' = [t \in Tasks |-> Blank] /\ UNCHANGED <<request, saved, report>>
  BY DEF Crash
<1>2. ThreadsTyped /\ ThreadsTyped' /\ Tasks' = Tasks /\ (Apart <=> Apart')
  BY <1>1 DEF CostInv, ThreadInv, Tasks, Apart, Alone
<1>3. /\ IsFiniteSet(Tasks)
      /\ \A t \in Tasks : Highest[t] \in Nat /\ Highest'[t] \in Nat /\ Highest'[t] <= Highest[t]
  <2>1. ASSUME NEW t \in Tasks PROVE Highest'[t] \in Nat /\ Highest'[t] <= Highest[t]
    <3>1. live'[t].cost = 0
      BY <1>1, BlankState
    <3>2. Highest'[t] \in {0, saved[request[t]].cost} /\ Highest'[t] \in Nat
      BY <1>1, <1>2, <3>1, HighestCostNext
    <3> QED BY <1>2, <3>2, HighestCost
  <2> QED BY <1>2, <2>1, HighestCost
<1>4. spent \in Nat /\ crashes \in Nat /\ spent' \in Nat /\ spent <= spent'
  <2>1. NodePrice * Cardinality(Paying) \in Nat
    <3>1. Cardinality(Paying) \in Nat
      BY <1>2, HighestCost, FS_Subset, FS_CardinalityType DEF Paying
    <3> QED BY <3>1, Bounds
  <2> QED BY <1>8, <2>1 DEF CostInv
<1>5. Apart => SumFunctionOnSet(Highest', Tasks) <= spent'
  <2>1. SumFunctionOnSet(Highest', Tasks) <= SumFunctionOnSet(Highest, Tasks)
    BY <1>3, SumAtMost
  <2>2. SumFunctionOnSet(Highest, Tasks) \in Nat /\ SumFunctionOnSet(Highest', Tasks) \in Nat
    BY <1>3, SumIsNat
  <2> QED BY <1>4, <2>1, <2>2 DEF CostInv
<1>6. tally' \in Nat /\ tally' <= spent' /\ crashes' \in Nat /\ crashes' # 0
  BY <1>1, <1>4
<1>7. report'.state = "open" /\ ReportedCost'
  BY <1>1 DEF ReportedCost
<1> QED BY <1>1, <1>2, <1>4, <1>5, <1>6, <1>7 DEF CostInv

\* Nothing is spent at first.
LEMMA CostInit == Init => CostInv
<1> SUFFICES ASSUME Init PROVE CostInv
  OBVIOUS
<1>1. ThreadInv /\ ThreadsTyped
  BY ThreadInit DEF ThreadInv
<1>2. \A t \in Tasks : live[t] = Blank /\ saved[request[t]] = NoCheckpoint
  BY <1>1, CityOf DEF Init
<1>3. \A t \in Tasks : Highest[t] = 0
  BY <1>2, BlankState DEF Highest
<1>4. SumFunctionOnSet(Highest, Tasks) = 0
  BY <1>1, <1>3, HighestCost, SumOfZeros
<1>5. tally = 0 /\ spent = 0 /\ crashes = 0 /\ report.state = "open"
  BY DEF Init
<1> QED BY <1>1, <1>4, <1>5 DEF CostInv, ReportedCost

\* Every step keeps the invariant.
LEMMA CostNext == CostInv /\ [Next]_vars => CostInv'
<1> SUFFICES ASSUME CostInv, [Next]_vars PROVE CostInv'
  OBVIOUS
<1>1. ThreadInv'
  BY ThreadNext DEF CostInv
<1>2. CASE \E t \in Tasks : Step(t) \/ Raise(t)
  BY <1>1, <1>2, CostOfTask
<1>3. CASE Succeed \/ Fail
  BY <1>1, <1>3, CostOfEnd
<1>4. CASE Crash
  BY <1>1, <1>4, CostOfCrash
<1>5. CASE UNCHANGED vars
  <2>1. UNCHANGED <<request, task, live, saved, tally, spent, crashes, report>>
    BY <1>5 DEF vars
  <2>2. Tasks' = Tasks /\ (Apart <=> Apart') /\ (AllOver <=> AllOver') /\ Highest' = Highest
    BY <2>1 DEF Tasks, Apart, Alone, AllOver, Highest
  <2>3. ReportedCost'
    BY <2>1, <2>2 DEF CostInv, ReportedCost, Apart
  <2> QED BY <1>1, <2>1, <2>2, <2>3 DEF CostInv
<1> QED BY <1>2, <1>3, <1>4, <1>5 DEF Next

\* Whatever a run was asked for and however its nodes fail: the cost on its row is all it
\* spent if it never crashed, and never more than it spent (tasks.py _with_true_cost).
THEOREM CostIsReported == Spec => []ReportedCost
<1>1. CostInv => ReportedCost
  BY DEF CostInv
<1> QED BY <1>1, CostInit, CostNext, PTL DEF Spec

-----------------------------------------------------------------------------
(* What a run pays.  The argument: a node is charged what it adds to the      *)
(* worth of its city's graph, and a crash takes back no more of that than one *)
(* node, and has paid for no more than one that nobody counted.               *)

\* The most that can be paid for a city before its thread is resumed: a city that failed
\* may have lost its last node.
Paid == [t \in Tasks |->
           LET thread == Worth(saved[request[t]]) IN
           IF task[t] = "unsaved" THEN Worth(live[t])
           ELSE IF task[t] # "failed" THEN thread
           ELSE IF thread + NodePrice <= CityBudget THEN thread + NodePrice ELSE CityBudget]

Repeated == Len(request) * (2 * NodePrice)

PaidInv ==
    /\ ThreadInv
    /\ spent \in Nat /\ crashes \in Nat
    /\ Apart => spent <= SumFunctionOnSet(Paid, Tasks) + crashes * Repeated

\* A graph within its bounds is worth no more than its city's budget.
LEMMA WorthIsBounded == \A s \in States : Within(s) => Worth(s) <= CityBudget
<1>1. SUFFICES ASSUME NEW s \in States, Within(s) PROVE Worth(s) <= CityBudget
  OBVIOUS
<1>2. s.cost \in Nat
  BY DEF States
<1>3. s.cost <= 2 * MaxPrice + (IF MaxCost = 0 THEN 0 ELSE MaxCost - 1)
  <2>1. CASE MaxCost = 0
    BY <1>1, <1>2, <2>1, Bounds DEF Within
  <2>2. CASE MaxCost # 0
    BY <1>1, <1>2, <2>2, Bounds DEF Within
  <2> QED BY <2>1, <2>2
<1> QED BY <1>2, <1>3, Bounds DEF Worth, CityBudget

\* There are as many tasks as cities asked for.
LEMMA TaskCount ==
  ASSUME ThreadsTyped
  PROVE  IsFiniteSet(Tasks) /\ Cardinality(Tasks) = Len(request) /\ Len(request) \in Nat
<1>1. Tasks = 1..Len(request) /\ Len(request) \in Nat
  BY DEF ThreadsTyped, Tasks
<1> QED BY <1>1, FS_Interval

\* What is paid for a city: a number, no more than its budget, and no less than its thread
\* is worth nor more than one node beyond that.
LEMMA PaidForCity ==
  ASSUME ThreadInv, Apart, NEW t \in Tasks
  PROVE  /\ Paid[t] \in Nat /\ Paid[t] <= CityBudget
         /\ Worth(saved[request[t]]) \in Nat
         /\ task[t] # "unsaved" => Worth(saved[request[t]]) <= Paid[t]
         /\ Paid[t] <= Worth(saved[request[t]]) + NodePrice
<1> DEFINE thread == Worth(saved[request[t]])
           here == Worth(live[t])
<1>1. live[t] \in States /\ saved[request[t]] \in States
  BY CityOf DEF ThreadInv, ThreadsTyped
<1>2. Within(live[t]) /\ Within(saved[request[t]]) /\ InStep(t)
  BY DEF ThreadInv, Apart
<1>3. thread \in Nat /\ here \in Nat /\ thread <= CityBudget /\ here <= CityBudget
  BY <1>1, <1>2, WorthIsNat, WorthIsBounded
<1>4. task[t] = "unsaved" => here <= thread + NodePrice
  BY <1>2 DEF InStep
<1>5. Paid[t] = IF task[t] = "unsaved" THEN here
                ELSE IF task[t] # "failed" THEN thread
                ELSE IF thread + NodePrice <= CityBudget THEN thread + NodePrice ELSE CityBudget
  BY DEF Paid
<1>6. NodePrice \in Nat /\ CityBudget \in Nat
  <2>1. MaxCost # 0 => MaxCost - 1 \in Nat
    BY Bounds
  <2> QED BY <2>1, Bounds DEF CityBudget
<1> HIDE DEF thread, here
<1>7. CASE task[t] = "unsaved"
  BY <1>3, <1>4, <1>5, <1>6, <1>7 DEF thread
<1>8. CASE task[t] # "unsaved"
  BY <1>3, <1>5, <1>6, <1>8 DEF thread
<1> QED BY <1>7, <1>8

\* One task moves: what is paid for its city grows by what is charged at least.
LEMMA PaidGrows ==
  ASSUME PaidInv, ThreadInv', NEW t \in Tasks, UNCHANGED <<request, crashes>>,
         NEW price \in Nat, spent' = spent + price,
         Apart => /\ Paid'[t] \in Nat /\ Paid[t] + price <= Paid'[t]
                  /\ \A u \in Tasks : u # t => Paid'[u] = Paid[u]
  PROVE  PaidInv'
<1>1. Tasks' = Tasks /\ (Apart <=> Apart') /\ Repeated' = Repeated
  BY DEF Tasks, Apart, Alone, Repeated
<1>2. spent \in Nat /\ crashes \in Nat /\ spent' \in Nat /\ crashes' \in Nat
  BY DEF PaidInv
<1>3. ASSUME Apart PROVE spent' <= SumFunctionOnSet(Paid', Tasks) + crashes * Repeated
  <2>1. IsFiniteSet(Tasks) /\ Len(request) \in Nat
    BY TaskCount DEF PaidInv, ThreadInv
  <2>2. \A u \in Tasks : Paid[u] \in Nat /\ Paid'[u] \in Nat
    <3>1. \A u \in Tasks : Paid[u] \in Nat
      BY <1>3, PaidForCity DEF PaidInv
    <3> QED BY <1>2, <1>3, <3>1
  <2>3. SumFunctionOnSet(Paid', Tasks) + Paid[t] = SumFunctionOnSet(Paid, Tasks) + Paid'[t]
    BY <1>3, <2>1, <2>2, SumChanges
  <2>4. SumFunctionOnSet(Paid', Tasks) \in Nat /\ SumFunctionOnSet(Paid, Tasks) \in Nat
    BY <2>1, <2>2, SumIsNat
  <2>5. PICK lost : lost = crashes * Repeated /\ lost \in Nat
    BY <1>2, <2>1, Bounds DEF Repeated
  <2>6. spent <= SumFunctionOnSet(Paid, Tasks) + lost /\ Paid[t] + price <= Paid'[t]
    BY <1>3, <2>5 DEF PaidInv
  <2>7. spent' <= SumFunctionOnSet(Paid', Tasks) + lost
    BY <1>2, <2>2, <2>3, <2>4, <2>5, <2>6
  <2> QED BY <2>5, <2>7
<1> QED BY <1>1, <1>2, <1>3 DEF PaidInv

\* Every step of a task is paid for.
LEMMA PaidByTask ==
  ASSUME PaidInv, ThreadInv', NEW t \in Tasks, Step(t) \/ Raise(t)
  PROVE  PaidInv'
<1> DEFINE thread == saved[request[t]]
<1>1. ThreadsTyped /\ ThreadsTyped' /\ request[t] \in Cities /\ live[t] \in States
  BY CityOf DEF PaidInv, ThreadInv, ThreadsTyped
<1>2. UNCHANGED <<request, crashes>> /\ Tasks' = Tasks
  <2>1. ASSUME Node(t) PROVE UNCHANGED <<request, crashes>>
    BY <2>1 DEF Node, Geocode, Gather, Compose, Critic, Becomes
  <2> QED BY <2>1 DEF Step, Look, Enter, Checkpoint, Return, Raise, Tasks
<1>3. Apart' <=> Apart
  BY <1>2 DEF Apart, Alone
<1>4. Apart => Paid[t] \in Nat /\ Paid'[t] \in Nat
  <2>1. ASSUME Apart PROVE Paid[t] \in Nat
    BY <2>1, PaidForCity DEF PaidInv
  <2>2. ASSUME Apart PROVE Paid'[t] \in Nat
    <3>1. Worth(live'[t]) \in Nat /\ Worth(saved'[request[t]]) \in Nat
      <4>1. live'[t] \in States /\ saved'[request[t]] \in States
        BY <1>1, <1>2 DEF ThreadsTyped
      <4> QED BY <4>1, WorthIsNat
    <3>2. NodePrice \in Nat /\ CityBudget \in Nat
      <4>1. MaxCost # 0 => MaxCost - 1 \in Nat
        BY Bounds
      <4> QED BY <4>1, Bounds DEF CityBudget
    <3> QED BY <1>2, <3>1, <3>2 DEF Paid, Worth
  <2> QED BY <2>1, <2>2

\* The others' cities are left alone.
<1>5. Apart => \A u \in Tasks : u # t => Paid'[u] = Paid[u]
  <2>1. SUFFICES ASSUME Apart, NEW u \in Tasks, u # t PROVE Paid'[u] = Paid[u]
    OBVIOUS
  <2>2. request[u] # request[t] /\ request[u] \in Cities
    BY <1>1, <2>1, CityOf DEF Apart, Alone
  <2>3. live'[u] = live[u] /\ task'[u] = task[u] /\ saved'[request[u]] = saved[request[u]]
    <3>1. CASE Node(t)
      <4>1. PICK n : live' = [live EXCEPT ![t] = n] /\ task' = [task EXCEPT ![t] = "unsaved"]
                     /\ UNCHANGED saved
        BY <1>1, <3>1, NodeMakes
      <4> QED BY <1>1, <2>1, <4>1 DEF ThreadsTyped
    <3>2. CASE Checkpoint(t)
      BY <1>1, <2>1, <2>2, <3>2 DEF Checkpoint, ThreadsTyped
    <3>3. CASE Look(t) \/ Enter(t) \/ Return(t) \/ Raise(t)
      BY <1>1, <2>1, <3>3 DEF Look, Enter, Return, Raise, ThreadsTyped
    <3> QED BY <3>1, <3>2, <3>3 DEF Step
  <2> QED BY <1>2, <2>1, <2>3 DEF Paid, Worth

\* A step that pays nothing, and does not make the city look cheaper.
<1>6. ASSUME UNCHANGED spent, Apart => Paid[t] <= Paid'[t] PROVE PaidInv'
  <2>1. spent' = spent + 0 /\ (Apart => Paid[t] + 0 <= Paid'[t])
    BY <1>4, <1>6 DEF PaidInv
  <2> QED BY <1>2, <1>4, <1>5, <2>1, PaidGrows
<1>7. Apart => Within(live[t]) /\ Within(thread) /\ InStep(t)
  BY DEF PaidInv, ThreadInv, Apart
<1>8. /\ task[t] \notin {"unsaved", "failed"} => Paid[t] = Worth(thread)
      /\ task[t] = "unsaved" => Paid[t] = Worth(live[t])
  BY DEF Paid
<1>9. /\ task'[t] \notin {"unsaved", "failed"} => Paid'[t] = Worth(saved'[request[t]])
      /\ task'[t] = "unsaved" => Paid'[t] = Worth(live'[t])
  BY <1>2 DEF Paid, Worth
<1>10. CASE Node(t)
  <2>1. PICK n \in States, price \in 0..NodePrice :
           /\ live' = [live EXCEPT ![t] = n]
           /\ task' = [task EXCEPT ![t] = "unsaved"]
           /\ Charge(price)
           /\ Within(live[t]) => Within(n) /\ Worth(n) = Worth(live[t]) + price
    BY <1>1, <1>10, NodeMakes
  <2>2. task[t] = "saved" /\ live'[t] = n /\ task'[t] = "unsaved"
    BY <1>1, <1>10, <2>1, NodeMakes DEF ThreadsTyped
  <2>3. price \in Nat /\ spent' = spent + price
    BY <2>1, Bounds DEF Charge, Pay, Free, PaidInv
  <2>4. ASSUME Apart PROVE Paid[t] + price <= Paid'[t]
    <3>1. Paid'[t] = Worth(n) /\ Paid[t] = Worth(live[t])
      BY <1>7, <1>8, <1>9, <2>2, <2>4 DEF InStep
    <3>2. Paid'[t] = Paid[t] + price
      BY <1>7, <2>1, <2>4, <3>1
    <3> QED BY <1>4, <2>3, <2>4, <3>2
  <2> QED BY <1>2, <1>4, <1>5, <2>3, <2>4, PaidGrows
<1>11. CASE Look(t)
  <2>1. UNCHANGED <<spent, saved>> /\ task[t] = "idle" /\ task'[t] \in {"fresh", "resuming"}
    BY <1>1, <1>11 DEF Look, ThreadsTyped
  <2>2. Paid'[t] = Paid[t]
    BY <1>8, <1>9, <2>1
  <2> QED BY <1>4, <1>6, <2>1, <2>2
<1>12. CASE Enter(t)
  <2>1. UNCHANGED <<spent, saved>> /\ task[t] \in {"fresh", "resuming"} /\ Paid[t] = Worth(thread)
    BY <1>8, <1>12 DEF Enter
  <2>2. CASE task[t] = "resuming"
    <3>1. task'[t] = "saved"
      BY <1>1, <1>12, <2>2 DEF Enter, ThreadsTyped
    <3>2. Paid'[t] = Paid[t]
      BY <1>9, <2>1, <3>1
    <3> QED BY <1>4, <1>6, <2>1, <3>2
  <2>3. CASE task[t] = "fresh"
    <3> DEFINE n == [thread EXCEPT !.next = "geocode"]
    <3>1. live'[t] = n /\ task'[t] = "unsaved"
      BY <1>1, <1>12, <2>3 DEF Enter, ThreadsTyped
    <3>2. thread \in States /\ n \in States /\ n.next = "geocode" /\ n.cost = thread.cost
      BY <1>1, Entered DEF ThreadsTyped
    <3> HIDE DEF n
    <3>3. ASSUME Apart PROVE Paid[t] <= Paid'[t]
      <4>1. thread.next = "none"
        BY <1>7, <2>3, <3>3, BlankState DEF InStep
      <4>2. Worth(n) = Worth(thread)
        BY <3>2, <4>1 DEF Worth
      <4>3. Paid'[t] = Paid[t]
        BY <1>9, <2>1, <3>1, <4>2
      <4> QED BY <1>4, <3>3, <4>3
    <3> QED BY <1>6, <2>1, <3>3
  <2> QED BY <2>1, <2>2, <2>3
<1>13. CASE Checkpoint(t)
  <2>1. /\ UNCHANGED spent /\ task[t] = "unsaved" /\ task'[t] = "saved"
        /\ saved'[request[t]] = live[t]
    BY <1>1, <1>13 DEF Checkpoint, ThreadsTyped
  <2>2. Paid'[t] = Paid[t]
    BY <1>8, <1>9, <2>1
  <2> QED BY <1>4, <1>6, <2>1, <2>2
<1>14. CASE Return(t) \/ Raise(t)
  <2>1. /\ UNCHANGED <<spent, saved>> /\ task'[t] \in {"planned", "failed"}
        /\ task[t] \in {"fresh", "resuming", "unsaved", "saved"}
    BY <1>1, <1>14 DEF Return, Raise, ThreadsTyped
  <2>2. task[t] = "unsaved" => task'[t] = "failed"
    BY <1>1, <1>14 DEF Return, Raise, ThreadsTyped
  <2>3. ASSUME Apart PROVE Paid[t] <= Paid'[t]
    <3>1. /\ Paid[t] \in Nat /\ Paid[t] <= CityBudget
          /\ Worth(thread) \in Nat /\ Paid[t] <= Worth(thread) + NodePrice
      BY <2>3, PaidForCity DEF PaidInv
    <3>2. CASE task'[t] = "planned"
      BY <1>8, <1>9, <2>1, <2>2, <3>1, <3>2
    <3>3. CASE task'[t] = "failed"
      <4>1. Paid'[t] = IF Worth(thread) + NodePrice <= CityBudget
                       THEN Worth(thread) + NodePrice ELSE CityBudget
        BY <1>2, <2>1, <3>3 DEF Paid, Worth
      <4> QED BY <3>1, <4>1
    <3> QED BY <2>1, <3>2, <3>3
  <2> QED BY <1>6, <2>1, <2>3
<1> QED BY <1>10, <1>11, <1>12, <1>13, <1>14 DEF Step

\* A crash repeats what was in no checkpoint, and what was under way.
LEMMA PaidAgain ==
  ASSUME PaidInv, ThreadInv', Crash
  PROVE  PaidInv'
<1>1. PICK cut \in 0..(NodePrice * Cardinality(Paying)) : spent' = spent + cut
  BY DEF Crash
<1>2. crashes' = crashes + 1 /\ UNCHANGED <<request, saved>> /\ task' = [t \in Tasks |-> "idle"]
  BY DEF Crash
<1>3. Tasks' = Tasks /\ (Apart' <=> Apart) /\ Repeated' = Repeated
  BY <1>2 DEF Tasks, Apart, Alone, Repeated
<1>4. PICK n \in Nat : n = Len(request) /\ Cardinality(Tasks) = n /\ IsFiniteSet(Tasks)
  BY TaskCount DEF PaidInv, ThreadInv
<1>5. Cardinality(Paying) \in Nat /\ Cardinality(Paying) <= n
  BY <1>4, FS_Subset, FS_CardinalityType DEF Paying
<1>6. PICK p \in Nat : p = NodePrice
  BY Bounds
<1>7. p * Cardinality(Paying) \in Nat /\ p * Cardinality(Paying) <= n * p
  <2>1. \A a, b, c \in Nat : a <= b => c * a \in Nat /\ c * a <= b * c
    BY SMT
  <2> QED BY <1>5, <2>1
<1>8. PICK m \in Nat : m = n * p
  OBVIOUS
<1>9. cut \in Nat /\ cut <= m
  BY <1>1, <1>6, <1>7, <1>8
<1>10. spent \in Nat /\ crashes \in Nat /\ spent' \in Nat /\ crashes' \in Nat
  BY <1>1, <1>2, <1>9 DEF PaidInv
<1>11. Repeated = 2 * m
  <2>1. n * (2 * p) = 2 * (n * p)
    OBVIOUS
  <2> QED BY <1>4, <1>6, <1>8, <2>1 DEF Repeated
<1>12. PICK lost \in Nat : lost = crashes * Repeated /\ crashes' * Repeated = lost + 2 * m
  <2>1. \A c, k \in Nat : c * k \in Nat /\ (c + 1) * k = c * k + k
    BY SMT
  <2> QED BY <1>2, <1>8, <1>10, <1>11, <2>1
<1>13. ASSUME Apart
       PROVE  spent' <= SumFunctionOnSet(Paid', Tasks) + crashes' * Repeated
  <2>1. \A t \in Tasks : Paid[t] \in Nat /\ Paid'[t] \in Nat /\ Paid[t] <= Paid'[t] + p
    <3>1. SUFFICES ASSUME NEW t \in Tasks
                   PROVE  Paid[t] \in Nat /\ Paid'[t] \in Nat /\ Paid[t] <= Paid'[t] + p
      OBVIOUS
    <3>2. /\ Paid[t] \in Nat /\ Worth(saved[request[t]]) \in Nat
          /\ Paid[t] <= Worth(saved[request[t]]) + p
      BY <1>6, <1>13, PaidForCity DEF PaidInv
    <3>3. task'[t] = "idle"
      BY <1>2
    <3>4. Paid'[t] = Worth(saved[request[t]])
      BY <1>2, <1>3, <3>3 DEF Paid, Worth
    <3> QED BY <3>2, <3>4
  <2>2. SumFunctionOnSet(Paid, Tasks) <= SumFunctionOnSet(Paid', Tasks) + Cardinality(Tasks) * p
    BY <1>4, <2>1, SumShifts
  <2>3. SumFunctionOnSet(Paid, Tasks) \in Nat /\ SumFunctionOnSet(Paid', Tasks) \in Nat
    BY <1>4, <2>1, SumIsNat
  <2>4. spent <= SumFunctionOnSet(Paid, Tasks) + lost
    BY <1>12, <1>13 DEF PaidInv
  <2>5. SumFunctionOnSet(Paid, Tasks) <= SumFunctionOnSet(Paid', Tasks) + m
    BY <1>4, <1>8, <2>2
  <2>6. spent' <= SumFunctionOnSet(Paid', Tasks) + (lost + 2 * m)
    BY <1>1, <1>9, <1>10, <2>3, <2>4, <2>5
  <2> QED BY <1>12, <2>6
<1> QED BY <1>3, <1>10, <1>13 DEF PaidInv

\* Nothing is paid at first.
LEMMA PaidInit == Init => PaidInv
<1> SUFFICES ASSUME Init PROVE PaidInv
  OBVIOUS
<1>1. ThreadInv /\ ThreadsTyped /\ spent = 0 /\ crashes = 0
  BY ThreadInit DEF ThreadInv, Init
<1>2. ASSUME Apart PROVE 0 <= SumFunctionOnSet(Paid, Tasks) + 0 * Repeated
  <2>1. \A t \in Tasks : Paid[t] \in Nat
    BY <1>1, <1>2, PaidForCity
  <2>2. SumFunctionOnSet(Paid, Tasks) \in Nat
    BY <1>1, <2>1, TaskCount, SumIsNat
  <2>3. Repeated \in Nat
    BY <1>1, TaskCount, Bounds DEF Repeated
  <2> QED BY <2>2, <2>3
<1> QED BY <1>1, <1>2 DEF PaidInv

\* Every step keeps the invariant.
LEMMA PaidNext == PaidInv /\ [Next]_vars => PaidInv'
<1> SUFFICES ASSUME PaidInv, [Next]_vars PROVE PaidInv'
  OBVIOUS
<1>1. ThreadInv'
  BY ThreadNext DEF PaidInv
<1>2. CASE \E t \in Tasks : Step(t) \/ Raise(t)
  BY <1>1, <1>2, PaidByTask
<1>3. CASE Crash
  BY <1>1, <1>3, PaidAgain
<1>4. CASE Succeed \/ Fail \/ UNCHANGED vars
  <2>1. UNCHANGED <<request, task, live, saved, spent, crashes>>
    BY <1>4 DEF Succeed, Fail, vars
  <2>2. Tasks' = Tasks /\ (Apart <=> Apart') /\ Repeated' = Repeated
    BY <2>1 DEF Tasks, Apart, Alone, Repeated
  <2>3. Paid' = Paid
    BY <2>1, <2>2 DEF Paid, Worth
  <2> QED BY <1>1, <2>1, <2>2, <2>3 DEF PaidInv
<1> QED BY <1>2, <1>3, <1>4 DEF Next

\* Whatever a run was asked for and however its nodes fail and its attempts are cut short:
\* what it pays is within its cities' budgets but for the nodes that crashes repeat
\* (graph.py _should_revise over the checkpoints of checkpoint.py).
THEOREM BudgetKept == Spec => []BudgetHolds
<1>1. PaidInv => BudgetHolds
  <2>1. SUFFICES ASSUME PaidInv, Apart
                 PROVE  spent <= Len(request) * CityBudget + crashes * Repeated
    BY DEF BudgetHolds, Apart, Repeated
  <2>2. PICK n \in Nat : n = Len(request) /\ Cardinality(Tasks) = n /\ IsFiniteSet(Tasks)
    BY <2>1, TaskCount DEF PaidInv, ThreadInv
  <2>3. CityBudget \in Nat
    <3>1. MaxCost # 0 => MaxCost - 1 \in Nat
      BY Bounds
    <3> QED BY <3>1, Bounds DEF CityBudget
  <2> DEFINE none == [t \in Tasks |-> 0]
  <2>4. \A t \in Tasks : none[t] = 0
    OBVIOUS
  <2> HIDE DEF none
  <2>5. \A t \in Tasks : Paid[t] \in Nat /\ Paid[t] <= CityBudget
    BY <2>1, PaidForCity DEF PaidInv
  <2>6. \A t \in Tasks : /\ Paid[t] \in Nat /\ none[t] \in Nat /\ none[t] = 0
                         /\ Paid[t] <= none[t] + CityBudget
    BY <2>3, <2>4, <2>5
  <2>7. SumFunctionOnSet(Paid, Tasks) <= SumFunctionOnSet(none, Tasks) + Cardinality(Tasks) * CityBudget
    BY <2>2, <2>3, <2>6, SumShifts
  <2>8. SumFunctionOnSet(none, Tasks) = 0 /\ SumFunctionOnSet(Paid, Tasks) \in Nat
    BY <2>2, <2>6, SumOfZeros, SumIsNat
  <2>9. PICK all \in Nat : all = n * CityBudget
    BY <2>2, <2>3
  <2>10. SumFunctionOnSet(Paid, Tasks) <= all
    BY <2>2, <2>7, <2>8, <2>9
  <2>11. PICK lost \in Nat : lost = crashes * Repeated
    BY <2>1, <2>2, Bounds DEF PaidInv, Repeated
  <2>12. spent <= SumFunctionOnSet(Paid, Tasks) + lost /\ spent \in Nat
    BY <2>1, <2>11 DEF PaidInv
  <2>13. spent <= all + lost
    BY <2>8, <2>10, <2>12
  <2> QED BY <2>2, <2>9, <2>11, <2>13
<1> QED BY <1>1, PaidInit, PaidNext, PTL DEF Spec

-----------------------------------------------------------------------------
(* What the sources failed to say, the merged trip does.  The argument: the  *)
(* warnings a city has when it is composed name exactly the sources that     *)
(* broke for it, and a city without a place on the map says why.             *)

SourceNames == {"geocoder", "weather", "corpus"} \cup Interests

CityPlans == [anchor: Classes \cup {"none"}, grounded: BOOLEAN,
              warnings: SUBSET (SourceNames \cup Notes), failed: BOOLEAN]

SourcesTyped ==
    /\ doing \in 1..(NumCities + 1)
    /\ step \in {"geocode", "weather", "corpus", "live", "compose", "merged"}
    /\ step \in {"weather", "corpus", "live", "compose"} => doing \in CityNumbers
    /\ plan \in [CityNumbers -> CityPlans]
    /\ broke \in [CityNumbers -> SUBSET SourceNames]
    /\ waiting \subseteq Interests

\* What is told of a city is what happened to it.
Honest(told, broken) ==
    /\ told.anchor # "infrastructure"
    /\ ~told.failed =>
          /\ told.warnings \cap SourceNames = broken
          /\ told.anchor = "none" =>
                "unknown place" \in told.warnings \/ "geocoder" \in told.warnings

Begun(c) == c < doing \/ (c = doing /\ step # "geocode")

CitiesKnown ==
    \A c \in CityNumbers :
        IF Begun(c) THEN Honest(plan[c], broke[c]) ELSE plan[c] = NoPlan /\ broke[c] = {}

SourcesInv == SourcesTyped /\ CitiesKnown /\ GapsAreSaid /\ NoSilentHop

\* A node of the city that is being planned.
LEMMA CityLearns ==
    ASSUME SourcesTyped, CitiesKnown, doing \in CityNumbers,
           NEW new \in CityPlans, NEW broken \in SUBSET SourceNames,
           Learns(new), broke' = [broke EXCEPT ![doing] = broken], Honest(new, broken),
           waiting' \subseteq Interests,
           \/ doing' = doing /\ step' \in {"weather", "corpus", "live", "compose"}
           \/ doing' = doing + 1 /\ step' = "geocode"
    PROVE  SourcesInv'
<1>1. NumCities \in Nat
  BY SourcesAssumption
<1>2. SourcesTyped'
  BY <1>1 DEF SourcesTyped, Learns, CityNumbers
<1>3. \A c \in CityNumbers : c # doing => plan'[c] = plan[c] /\ broke'[c] = broke[c]
  BY DEF SourcesTyped, Learns
<1>4. plan'[doing] = new /\ broke'[doing] = broken
  BY DEF SourcesTyped, Learns
<1>5. \A c \in CityNumbers : c # doing => (Begun(c)' <=> Begun(c))
  BY <1>1 DEF SourcesTyped, Begun, CityNumbers
<1>6. \A c \in CityNumbers : c = doing => Begun(c)'
  BY <1>1 DEF SourcesTyped, Begun, CityNumbers
<1>7. CitiesKnown'
  <2>1. SUFFICES ASSUME NEW c \in CityNumbers
                 PROVE  IF Begun(c)' THEN Honest(plan'[c], broke'[c])
                                     ELSE plan'[c] = NoPlan /\ broke'[c] = {}
    BY DEF CitiesKnown
  <2>2. CASE c = doing
    BY <1>4, <1>6, <2>2
  <2>3. CASE c # doing
    BY <1>3, <1>5, <2>1, <2>3 DEF CitiesKnown
  <2>4. QED
    BY <2>2, <2>3
<1>8. QED
  BY <1>2, <1>7 DEF SourcesInv, GapsAreSaid, NoSilentHop

\* The first of the candidates that could be a destination is one of them.
LEMMA ChosenIsDestination ==
    ASSUME NEW results \in Seq(Classes)
    PROVE  Chosen(results) \in {"place", "admin", "other", "none"}
<1>1. Destinations(results) \subseteq Nat
  BY DEF Destinations
<1>2. CASE Destinations(results) = {}
  BY <1>2 DEF Chosen
<1>3. CASE Destinations(results) # {}
  <2>1. Min(Destinations(results)) \in Destinations(results)
    BY <1>1, <1>3, SmallestNumber
  <2>2. results[Min(Destinations(results))] \in {"place", "admin", "other"}
    BY <2>1 DEF Destinations, Classes
  <2>3. QED
    BY <2>2 DEF Chosen
<1>4. QED
  BY <1>2, <1>3

\* What a reply may be.
LEMMA Replies ==
    ASSUME NEW bodies, NEW reply \in Reply(bodies)
    PROVE  /\ reply.status \in {"ok", "tool_error", "unreadable"}
           /\ reply.status = "ok" => reply.items \in bodies
           /\ reply.status # "ok" => reply.items = <<>>
  BY DEF Reply, Body, ToolError, Unreadable

\* What a call that failed adds to what broke.
LEMMA CallBreaks ==
    ASSUME SourcesTyped, doing \in CityNumbers, NEW what \in SourceNames,
           NEW reply, Breaks(what, reply)
    PROVE  broke' = [broke EXCEPT ![doing] =
                        broke[doing] \cup IF reply.status = "ok" THEN {} ELSE {what}]
  BY DEF SourcesTyped, Breaks

\* The name of a source is none of the coordinator's notes.
LEMMA Disjoint == SourceNames \cap Notes = {}
  BY SourcesAssumption DEF SourceNames, Notes

\* Nothing is said at first.
LEMMA SourcesBegin == SourcesInit => SourcesInv
<1>1. SUFFICES ASSUME SourcesInit PROVE SourcesInv
  OBVIOUS
<1>2. NumCities \in Nat /\ NumCities >= 1
  BY SourcesAssumption
<1>3. NoPlan \in CityPlans
  BY DEF NoPlan, CityPlans
<1>4. SourcesTyped
  BY <1>1, <1>2, <1>3 DEF SourcesInit, SourcesTyped, CityNumbers
<1>5. \A c \in CityNumbers : ~Begun(c)
  BY <1>1, <1>2 DEF SourcesInit, Begun, CityNumbers
<1>6. QED
  BY <1>1, <1>4, <1>5 DEF SourcesInit, SourcesInv, CitiesKnown, GapsAreSaid, NoSilentHop

\* run_city raised.
LEMMA CityRaised ==
    ASSUME SourcesTyped, CitiesKnown, doing \in CityNumbers, Raised,
           plan[doing].anchor # "infrastructure",
           NEW broken \in SUBSET SourceNames, broke' = [broke EXCEPT ![doing] = broken]
    PROVE  SourcesInv'
<1>1. plan[doing] \in CityPlans
  BY DEF SourcesTyped
<1> DEFINE new == [plan[doing] EXCEPT !.failed = TRUE]
<1>2. new \in CityPlans /\ new.failed /\ new.anchor = plan[doing].anchor
  BY <1>1, Zenon DEF CityPlans
<1>3. Learns(new) /\ doing' = doing + 1 /\ step' = "geocode" /\ waiting' = {}
  BY DEF Raised, Current
<1> HIDE DEF new
<1>4. Honest(new, broken)
  BY <1>2 DEF Honest
<1>5. QED
  BY <1>2, <1>3, <1>4, CityLearns

\* A city that is geocoded, or is not.
LEMMA GeocodeSays ==
    ASSUME SourcesInv, GeocodeCity
    PROVE  SourcesInv'
<1>1. SourcesTyped /\ CitiesKnown
  BY DEF SourcesInv
<1>2. doing \in CityNumbers
  BY <1>1, SourcesAssumption DEF GeocodeCity, SourcesTyped, CityNumbers
<1>3. plan[doing] = NoPlan /\ broke[doing] = {}
  BY <1>1, <1>2 DEF GeocodeCity, CitiesKnown, Begun, SourcesTyped, CityNumbers
<1>4. PICK reply \in Reply(Candidates), obscure \in BOOLEAN :
        /\ Breaks("geocoder", reply)
        /\ IF reply.status = "unreadable" THEN Raised
           ELSE LET anchor == Chosen(reply.items)
                    said == IF anchor = "none"
                            THEN {IF reply.status = "ok" THEN "unknown place" ELSE "geocoder"}
                            ELSE IF obscure THEN {"obscure place"} ELSE {}
                IN  /\ Learns([Current EXCEPT !.anchor = anchor, !.warnings = said])
                    /\ step' = IF anchor = "none" THEN "compose" ELSE "weather"
                    /\ UNCHANGED <<doing, waiting, merged>>
  BY DEF GeocodeCity
<1> DEFINE broken == IF reply.status = "ok" THEN {} ELSE {"geocoder"}
<1>5. broken \in SUBSET SourceNames /\ "geocoder" \in SourceNames
  BY DEF SourceNames
<1>6. broke' = [broke EXCEPT ![doing] = broken]
  BY <1>1, <1>2, <1>3, <1>4, <1>5, CallBreaks
<1>7. CASE reply.status = "unreadable"
  <2>1. Raised
    BY <1>4, <1>7
  <2>2. plan[doing].anchor # "infrastructure"
    BY <1>3 DEF NoPlan
  <2>3. QED
    BY <1>1, <1>2, <1>5, <1>6, <2>1, <2>2, CityRaised
<1>8. CASE reply.status # "unreadable"
  <2> DEFINE anchor == Chosen(reply.items)
             said == IF anchor = "none"
                     THEN {IF reply.status = "ok" THEN "unknown place" ELSE "geocoder"}
                     ELSE IF obscure THEN {"obscure place"} ELSE {}
             new == [plan[doing] EXCEPT !.anchor = anchor, !.warnings = said]
  <2>1. Learns(new) /\ doing' = doing /\ waiting' = waiting
        /\ step' \in {"weather", "corpus", "live", "compose"}
    BY <1>4, <1>8 DEF Current
  <2>2. reply.items \in Seq(Classes)
    <3>1. CASE reply.items \in Candidates
      BY <3>1, SourcesAssumption
    <3>2. CASE reply.items = <<>>
      BY <3>2
    <3>3. QED
      BY <3>1, <3>2, Replies
  <2>3. anchor \in {"place", "admin", "other", "none"}
    BY <2>2, ChosenIsDestination
  <2>4. reply.status # "ok" => anchor = "none"
    BY Replies DEF Chosen, Match, Destinations
  <2> HIDE DEF anchor
  <2>5. said \in SUBSET (SourceNames \cup Notes)
    BY DEF SourceNames, Notes
  <2>6. said \cap SourceNames = broken
    BY <2>4, Disjoint DEF SourceNames, Notes
  <2>7. anchor = "none" => "unknown place" \in said \/ "geocoder" \in said
    OBVIOUS
  <2> HIDE DEF said
  <2>8. new \in CityPlans /\ new.anchor = anchor /\ new.warnings = said
    <3>1. plan[doing] \in CityPlans
      BY <1>1, <1>2 DEF SourcesTyped
    <3>2. anchor \in Classes \cup {"none"}
      BY <2>3 DEF Classes
    <3>3. QED
      BY <2>5, <3>1, <3>2, Zenon DEF CityPlans
  <2> HIDE DEF new
  <2>9. Honest(new, broken)
    BY <2>3, <2>6, <2>7, <2>8 DEF Honest
  <2>10. waiting' \subseteq Interests
    BY <1>1, <2>1 DEF SourcesTyped
  <2>11. QED
    BY <1>1, <1>2, <1>5, <1>6, <2>1, <2>8, <2>9, <2>10, CityLearns
<1>9. QED
  BY <1>7, <1>8

\* What a node adds to the warnings of its city is what broke in it.
LEMMA WarningAdded ==
    ASSUME SourcesTyped, CitiesKnown, doing \in CityNumbers, Begun(doing),
           NEW news \in SUBSET SourceNames, NEW grounded \in BOOLEAN,
           NEW new, \/ new = [plan[doing] EXCEPT !.warnings = plan[doing].warnings \cup news]
                    \/ new = [plan[doing] EXCEPT !.grounded = grounded,
                                            !.warnings = plan[doing].warnings \cup news],
           Learns(new), broke' = [broke EXCEPT ![doing] = broke[doing] \cup news],
           waiting' \subseteq Interests, doing' = doing,
           step' \in {"weather", "corpus", "live", "compose"}
    PROVE  SourcesInv'
<1>1. plan[doing] \in CityPlans /\ broke[doing] \in SUBSET SourceNames
  BY DEF SourcesTyped
<1>2. Honest(plan[doing], broke[doing])
  BY DEF CitiesKnown
<1> DEFINE said == plan[doing].warnings \cup news
<1>3. said \in SUBSET (SourceNames \cup Notes)
  BY <1>1 DEF CityPlans
<1>4. ~plan[doing].failed => said \cap SourceNames = broke[doing] \cup news
  BY <1>2 DEF Honest
<1>5. ~plan[doing].failed /\ plan[doing].anchor = "none" => "unknown place" \in said \/ "geocoder" \in said
  BY <1>2 DEF Honest
<1> HIDE DEF said
<1>6. /\ new \in CityPlans /\ new.anchor = plan[doing].anchor
      /\ new.warnings = said /\ new.failed = plan[doing].failed
  <2>1. CASE new = [plan[doing] EXCEPT !.warnings = said]
    BY <1>1, <1>3, <2>1, Zenon DEF CityPlans
  <2>2. CASE new = [plan[doing] EXCEPT !.grounded = grounded, !.warnings = said]
    BY <1>1, <1>3, <2>2, Zenon DEF CityPlans
  <2>3. QED
    BY <2>1, <2>2 DEF said
<1>7. Honest(new, broke[doing] \cup news)
  BY <1>2, <1>4, <1>5, <1>6 DEF Honest
<1>8. broke[doing] \cup news \in SUBSET SourceNames
  BY <1>1
<1>9. QED
  BY <1>6, <1>7, <1>8, CityLearns

\* A forecast, or its warning.
LEMMA ForecastSays ==
    ASSUME SourcesInv, Forecast
    PROVE  SourcesInv'
<1>1. SourcesTyped /\ CitiesKnown
  BY DEF SourcesInv
<1>2. doing \in CityNumbers /\ Begun(doing)
  BY <1>1 DEF Forecast, SourcesTyped, Begun
<1>3. PICK reply \in Reply({<<>>}) :
        /\ Breaks("weather", reply)
        /\ IF reply.status = "unreadable" THEN Raised
           ELSE /\ Learns([Current EXCEPT
                      !.warnings = IF reply.status = "ok" THEN @ ELSE @ \cup {"weather"}])
                /\ step' = "corpus"
                /\ UNCHANGED <<doing, waiting, merged>>
  BY DEF Forecast
<1> DEFINE news == IF reply.status = "ok" THEN {} ELSE {"weather"}
<1>4. news \in SUBSET SourceNames /\ "weather" \in SourceNames
  BY DEF SourceNames
<1>5. broke' = [broke EXCEPT ![doing] = broke[doing] \cup news]
  BY <1>1, <1>2, <1>3, <1>4, CallBreaks
<1>6. plan[doing] \in CityPlans /\ broke[doing] \in SUBSET SourceNames
      /\ waiting \subseteq Interests
  BY <1>1, <1>2 DEF SourcesTyped
<1>7. CASE reply.status = "unreadable"
  <2>1. Raised
    BY <1>3, <1>7
  <2>2. plan[doing].anchor # "infrastructure"
    BY <1>1, <1>2 DEF CitiesKnown, Honest
  <2>3. broke[doing] \cup news \in SUBSET SourceNames
    BY <1>4, <1>6
  <2>4. QED
    BY <1>1, <1>2, <1>5, <2>1, <2>2, <2>3, CityRaised
<1>8. CASE reply.status # "unreadable"
  <2> DEFINE new == [plan[doing] EXCEPT !.warnings = plan[doing].warnings \cup news]
  <2>1. plan[doing].warnings \cup news =
          IF reply.status = "ok" THEN plan[doing].warnings
          ELSE plan[doing].warnings \cup {"weather"}
    OBVIOUS
  <2>2. Learns(new) /\ step' = "corpus" /\ doing' = doing /\ waiting' = waiting
    BY <1>3, <1>8, <2>1 DEF Current
  <2> HIDE DEF news
  <2>3. QED
    BY <1>1, <1>2, <1>4, <1>5, <1>6, <2>2, WarningAdded
<1>9. QED
  BY <1>7, <1>8

\* A corpus search, or its warning.
LEMMA CorpusSays ==
    ASSUME SourcesInv, SearchCorpus
    PROVE  SourcesInv'
<1>1. SourcesTyped /\ CitiesKnown
  BY DEF SourcesInv
<1>2. doing \in CityNumbers /\ Begun(doing)
  BY <1>1 DEF SearchCorpus, SourcesTyped, Begun
<1>3. PICK asked \in BOOLEAN, found \in BOOLEAN :
        /\ broke' = IF asked THEN [broke EXCEPT ![doing] = @ \cup {"corpus"}] ELSE broke
        /\ Learns([Current EXCEPT !.grounded = found,
                               !.warnings = IF asked THEN @ \cup {"corpus"} ELSE @])
        /\ step' = IF found THEN "compose" ELSE "live"
        /\ waiting' = IF found THEN {} ELSE Interests
        /\ doing' = doing
  <2>1. PICK reply \in Reply({<<>>, <<"poi">>}), retriever \in BOOLEAN :
          LET asked == retriever /\ reply.status # "ok"
              found == retriever /\ reply.items # <<>>
          IN  /\ broke' = IF asked THEN [broke EXCEPT ![doing] = @ \cup {"corpus"}] ELSE broke
              /\ Learns([Current EXCEPT !.grounded = found,
                                     !.warnings = IF asked THEN @ \cup {"corpus"} ELSE @])
              /\ step' = IF found THEN "compose" ELSE "live"
              /\ waiting' = IF found THEN {} ELSE Interests
              /\ UNCHANGED <<doing, merged>>
    BY DEF SearchCorpus
  <2>2. (retriever /\ reply.status # "ok") \in BOOLEAN
        /\ (retriever /\ reply.items # <<>>) \in BOOLEAN
    OBVIOUS
  <2>3. QED
    BY <2>1, <2>2
<1> DEFINE news == IF asked THEN {"corpus"} ELSE {}
           new == [plan[doing] EXCEPT !.grounded = found,
                                !.warnings = plan[doing].warnings \cup news]
<1>4. news \in SUBSET SourceNames
  BY DEF SourceNames
<1>5. broke' = [broke EXCEPT ![doing] = broke[doing] \cup news]
  BY <1>1, <1>2, <1>3 DEF SourcesTyped
<1>6. plan[doing].warnings \cup news =
        IF asked THEN plan[doing].warnings \cup {"corpus"} ELSE plan[doing].warnings
  OBVIOUS
<1>7. Learns(new)
  BY <1>3, <1>6 DEF Current
<1>8. waiting' \subseteq Interests /\ doing' = doing /\ step' \in {"compose", "live"}
  BY <1>3
<1> HIDE DEF news
<1>9. QED
  BY <1>1, <1>2, <1>4, <1>5, <1>7, <1>8, WarningAdded

\* An interest is said to have failed exactly if nothing was found and a call failed.
LEMMA LookUpSays ==
    ASSUME SourcesInv, NEW i \in Interests, LookUp(i)
    PROVE  SourcesInv'
<1>1. SourcesTyped /\ CitiesKnown
  BY DEF SourcesInv
<1>2. doing \in CityNumbers /\ Begun(doing)
  BY <1>1 DEF LookUp, SourcesTyped, Begun
<1>3. PICK news \in SUBSET {i}, grounded \in BOOLEAN :
        /\ broke' = [broke EXCEPT ![doing] = broke[doing] \cup news]
        /\ Learns([plan[doing] EXCEPT !.grounded = grounded,
                                 !.warnings = plan[doing].warnings \cup news])
  <2>1. PICK first \in Reply(Overpass) \cup {NoEndpoint} :
          LET usable == Usable(first.items)
              asks == ~usable /\ first.status # "unreadable"
          IN \E fallback \in IF asks THEN Reply(Articles) ELSE {NotAsked} :
              LET found == IF usable THEN "places"
                           ELSE IF asks THEN Outcome(first, fallback) ELSE "raised"
                  failed == {first.status, fallback.status} \cap {"tool_error", "unreadable"} # {}
              IN  /\ broke' = IF failed /\ ~usable /\ ~Sights(fallback.items)
                              THEN [broke EXCEPT ![doing] = @ \cup {i}] ELSE broke
                  /\ Learns([Current EXCEPT
                        !.grounded = @ \/ found = "places",
                        !.warnings = IF found = "raised" THEN @ \cup {i} ELSE @])
    BY DEF LookUp
  <2> DEFINE usable == Usable(first.items)
             asks == ~usable /\ first.status # "unreadable"
  <2>2. PICK fallback \in IF asks THEN Reply(Articles) ELSE {NotAsked} :
          LET found == IF usable THEN "places"
                       ELSE IF asks THEN Outcome(first, fallback) ELSE "raised"
              failed == {first.status, fallback.status} \cap {"tool_error", "unreadable"} # {}
          IN  /\ broke' = IF failed /\ ~usable /\ ~Sights(fallback.items)
                          THEN [broke EXCEPT ![doing] = @ \cup {i}] ELSE broke
              /\ Learns([Current EXCEPT
                    !.grounded = @ \/ found = "places",
                    !.warnings = IF found = "raised" THEN @ \cup {i} ELSE @])
    BY <2>1
  <2> DEFINE found == IF usable THEN "places"
                      ELSE IF asks THEN Outcome(first, fallback) ELSE "raised"
             failed == {first.status, fallback.status} \cap {"tool_error", "unreadable"} # {}
             bad == failed /\ ~usable /\ ~Sights(fallback.items)
             news == IF bad THEN {i} ELSE {}
             good == plan[doing].grounded \/ found = "places"
  <2>3. found = "raised" <=> bad
    <3>1. CASE usable
      BY <3>1
    <3>2. CASE ~usable /\ first.status = "unreadable"
      <4>1. fallback = NotAsked
        BY <3>2
      <4>2. ~Sights(fallback.items)
        <5>1. fallback.items = <<>>
          BY <4>1 DEF NotAsked
        <5>2. ~Sights(<<>>)
          BY DEF Sights
        <5>3. QED
          BY <5>1, <5>2
      <4>3. QED
        BY <3>2, <4>2
    <3>3. CASE asks
      <4>1. fallback.status \in {"ok", "tool_error", "unreadable"}
        BY <3>3, Replies
      <4>2. first.status \in {"ok", "tool_error", "unset"}
        BY <3>3, Replies DEF NoEndpoint
      <4>3. QED
        BY <3>3, <4>1, <4>2 DEF Outcome
    <3>4. QED
      BY <3>1, <3>2, <3>3
  <2>4. broke' = IF bad THEN [broke EXCEPT ![doing] = broke[doing] \cup {i}] ELSE broke
    BY <2>2
  <2>5. Learns([plan[doing] EXCEPT
           !.grounded = good,
           !.warnings = IF found = "raised" THEN plan[doing].warnings \cup {i}
                        ELSE plan[doing].warnings])
    BY <2>2 DEF Current
  <2>6. good \in BOOLEAN
    BY <1>1, <1>2 DEF SourcesTyped, CityPlans
  <2> HIDE DEF bad, found, good
  <2>7. plan[doing].warnings \cup news =
          IF found = "raised" THEN plan[doing].warnings \cup {i} ELSE plan[doing].warnings
    BY <2>3
  <2>8. broke' = [broke EXCEPT ![doing] = broke[doing] \cup news]
    BY <1>1, <1>2, <2>4 DEF SourcesTyped
  <2>9. news \in SUBSET {i}
    OBVIOUS
  <2> HIDE DEF news
  <2>10. Learns([plan[doing] EXCEPT !.grounded = good,
                              !.warnings = plan[doing].warnings \cup news])
    BY <2>5, <2>7
  <2>11. QED
    BY <2>6, <2>8, <2>9, <2>10
<1>4. news \in SUBSET SourceNames
  BY <1>3 DEF SourceNames
<1>5. waiting' \subseteq Interests /\ doing' = doing /\ step' = "live"
  BY <1>1 DEF LookUp, SourcesTyped
<1>6. QED
  BY <1>1, <1>2, <1>3, <1>4, <1>5, WarningAdded

\* A city composed, or left out.
LEMMA ComposeSays ==
    ASSUME SourcesInv, ComposeCity
    PROVE  SourcesInv'
<1>1. SourcesTyped /\ CitiesKnown
  BY DEF SourcesInv
<1>2. doing \in CityNumbers /\ Begun(doing)
  BY <1>1 DEF ComposeCity, SourcesTyped, Begun
<1> DEFINE notes == IF plan[doing].anchor # "none" /\ ~plan[doing].grounded
                    THEN {"no places"} ELSE {}
           said == plan[doing].warnings \cup notes
           new == [plan[doing] EXCEPT !.warnings = said]
<1>3. Learns(new) /\ doing' = doing + 1 /\ step' = "geocode" /\ waiting' = waiting /\ broke' = broke
  BY DEF ComposeCity, Current
<1>4. plan[doing] \in CityPlans /\ broke[doing] \in SUBSET SourceNames
      /\ waiting \subseteq Interests
  BY <1>1, <1>2 DEF SourcesTyped
<1>5. notes \subseteq Notes
  BY DEF Notes
<1> HIDE DEF notes
<1>6. said \in SUBSET (SourceNames \cup Notes)
  BY <1>4, <1>5 DEF CityPlans
<1>7. said \cap SourceNames = plan[doing].warnings \cap SourceNames
  BY <1>5, Disjoint
<1>8. Honest(plan[doing], broke[doing])
  BY <1>1, <1>2 DEF CitiesKnown
<1>9. plan[doing].warnings \subseteq said
  OBVIOUS
<1> HIDE DEF said
<1>10. /\ new \in CityPlans /\ new.anchor = plan[doing].anchor
       /\ new.warnings = said /\ new.failed = plan[doing].failed
  BY <1>4, <1>6, Zenon DEF CityPlans
<1> HIDE DEF new
<1>11. Honest(new, broke[doing])
  BY <1>7, <1>8, <1>9, <1>10 DEF Honest
<1>12. broke' = [broke EXCEPT ![doing] = broke[doing]]
  BY <1>1, <1>2, <1>3 DEF SourcesTyped
<1>13. waiting' \subseteq Interests
  BY <1>3, <1>4
<1>14. QED
  BY <1>1, <1>2, <1>3, <1>4, <1>10, <1>11, <1>12, <1>13, CityLearns

\* Cities are numbered from one.
LEMMA CitiesFromOne == \A c \in CityNumbers : c # 0
  BY SourcesAssumption DEF CityNumbers

\* The warnings of the trip are those of its cities, and one that is nobody's.
LEMMA MergeSays ==
    ASSUME SourcesInv, MergeTrip
    PROVE  SourcesInv'
<1>1. SourcesTyped /\ CitiesKnown
  BY DEF SourcesInv
<1>2. NumCities \in Nat /\ doing = NumCities + 1 /\ step' = "merged"
      /\ UNCHANGED <<doing, plan, waiting, broke>>
  BY SourcesAssumption DEF MergeTrip
<1>3. \A c \in CityNumbers : Begun(c) /\ Begun(c)'
  BY <1>2 DEF Begun, CityNumbers
<1>4. \A c \in CityNumbers : Honest(plan[c], broke[c])
  BY <1>1, <1>3 DEF CitiesKnown
<1>5. SourcesTyped' /\ CitiesKnown'
  <2>1. SourcesTyped'
    BY <1>1, <1>2 DEF SourcesTyped
  <2>2. QED
    BY <1>2, <1>3, <1>4, <2>1 DEF CitiesKnown
<1>6. PICK answer \in {"legs", "no legs", "fails"} :
        LET legs == InterCityLegs(answer)
            unrouted == SomethingBetween /\ legs = {}
        IN  merged' = [failed |-> {c \in CityNumbers : plan[c].failed},
                       warnings |-> (UNION {OfCity(c) : c \in CityNumbers})
                                    \cup IF unrouted THEN {<<0, "no travel legs">>} ELSE {},
                       legs |-> legs, hops |-> Hops(legs)]
  BY DEF MergeTrip
<1> DEFINE legs == InterCityLegs(answer)
           unrouted == SomethingBetween /\ legs = {}
           ofCities == UNION {OfCity(c) : c \in CityNumbers}
           trips == IF unrouted THEN {<<0, "no travel legs">>} ELSE {}
<1>7. /\ merged'.failed = {c \in CityNumbers : plan[c].failed}
      /\ merged'.warnings = ofCities \cup trips
      /\ merged'.hops = Hops(legs)
  BY <1>6
<1>8. \A w : w \in merged'.warnings <=>
                (\E d \in CityNumbers : w \in OfCity(d)) \/ w \in trips
  <2>1. \A w : w \in ofCities <=> \E d \in CityNumbers : w \in OfCity(d)
    OBVIOUS
  <2> HIDE DEF ofCities, trips
  <2>2. \A w : w \in merged'.warnings <=> w \in ofCities \/ w \in trips
    BY <1>7, Zenon
  <2>3. QED
    BY <2>1, <2>2, Zenon
<1>9. \A c \in CityNumbers : \A what :
        <<c, what>> \in merged'.warnings <=> <<c, what>> \in OfCity(c)
  <2>1. SUFFICES ASSUME NEW c \in CityNumbers, NEW what
                 PROVE  <<c, what>> \in merged'.warnings <=> <<c, what>> \in OfCity(c)
    OBVIOUS
  <2>2. c # 0
    BY CitiesFromOne
  <2>3. \A d \in CityNumbers : <<c, what>> \in OfCity(d) => d = c
    BY DEF OfCity
  <2>4. <<c, what>> \notin trips
    BY <2>2
  <2> HIDE DEF trips
  <2>5. QED
    BY <1>8, <2>3, <2>4, Zenon
<1>10. GapsAreSaid'
  <2>1. SUFFICES ASSUME NEW c \in CityNumbers
                 PROVE  IF plan[c].failed
                        THEN c \in merged'.failed /\ <<c, "left out">> \in OfCity(c)
                        ELSE /\ \A what \in SourceNames :
                                    <<c, what>> \in OfCity(c) <=> what \in broke[c]
                             /\ ~plan[c].grounded => <<c, "limited plan">> \in OfCity(c)
                             /\ plan[c].anchor # "infrastructure"
    <3>1. SourceNames = {"geocoder", "weather", "corpus"} \cup Interests
      BY DEF SourceNames
    <3>2. QED
      BY <1>2, <1>9, <3>1 DEF GapsAreSaid, Says
  <2>2. CASE plan[c].failed
    BY <1>7, <2>2 DEF OfCity
  <2>3. CASE ~plan[c].failed
    <3>1. plan[c].anchor # "infrastructure" /\ plan[c].warnings \cap SourceNames = broke[c]
      BY <1>4, <2>3 DEF Honest
    <3>2. \A what : <<c, what>> \in OfCity(c) <=>
                      \/ what \in plan[c].warnings
                      \/ ~plan[c].grounded /\ what = "limited plan"
      BY <2>3 DEF OfCity
    <3>3. \A what \in SourceNames : what # "limited plan"
      BY Disjoint DEF Notes
    <3>4. broke[c] \subseteq SourceNames
      BY <1>1 DEF SourcesTyped
    <3>5. QED
      BY <2>3, <3>1, <3>2, <3>3, <3>4
  <2>4. QED
    BY <2>2, <2>3
<1>11. NoSilentHop'
  <2>1. Kept' = Kept /\ Neighbours(Kept)' = Neighbours(Kept)
    BY <1>2 DEF Kept, Neighbours, CityNumbers
  <2>2. SUFFICES ASSUME NEW pair \in Neighbours(Kept)
                 PROVE  \/ pair \in merged'.hops
                        \/ <<0, "no travel legs">> \in merged'.warnings
                        \/ \E c \in {pair[1], pair[2]} :
                              \/ <<c, "unknown place">> \in merged'.warnings
                              \/ <<c, "geocoder">> \in merged'.warnings
    BY <2>1 DEF NoSilentHop, Says
  <2>3. /\ pair[1] \in Kept /\ pair[2] \in Kept /\ pair[1] < pair[2]
        /\ pair \in Kept \X Kept
        /\ ~\E c \in Kept : pair[1] < c /\ c < pair[2]
    BY DEF Neighbours
  <2>4. pair[1] # pair[2]
    BY <1>2, <2>3 DEF Kept, CityNumbers
  <2>5. CASE pair[1] \in Located /\ pair[2] \in Located
    <3>1. SomethingBetween
      BY <2>4, <2>5 DEF SomethingBetween
    <3>2. pair \in Located \X Located
      BY <2>3, <2>5
    <3>3. pair \in Legs(Located)
      BY <2>3, <3>2 DEF Legs, Neighbours, Located
    <3>4. CASE answer = "legs"
      BY <1>7, <3>1, <3>3, <3>4 DEF InterCityLegs, Hops
    <3>5. CASE answer # "legs"
      <4>1. legs = {}
        BY <3>5 DEF InterCityLegs
      <4>2. unrouted
        BY <3>1, <4>1
      <4>3. <<0, "no travel legs">> \in trips
        BY <4>2
      <4>4. QED
        BY <1>8, <4>3, Zenon
    <3>6. QED
      BY <3>4, <3>5
  <2>6. ASSUME NEW c \in {pair[1], pair[2]}, c \notin Located
        PROVE  <<c, "unknown place">> \in OfCity(c) \/ <<c, "geocoder">> \in OfCity(c)
    <3>1. c \in CityNumbers /\ ~plan[c].failed /\ plan[c].anchor = "none"
      BY <2>3, <2>6 DEF Kept, Located
    <3>2. "unknown place" \in plan[c].warnings \/ "geocoder" \in plan[c].warnings
      BY <1>4, <3>1 DEF Honest
    <3>3. QED
      BY <3>1, <3>2 DEF OfCity
  <2>7. \A c \in {pair[1], pair[2]} : c \in CityNumbers
    BY <2>3 DEF Kept
  <2>8. QED
    BY <1>9, <2>5, <2>6, <2>7
<1>12. QED
  BY <1>5, <1>10, <1>11 DEF SourcesInv

\* Every step keeps the invariant.
LEMMA SourcesStep == SourcesInv /\ [SourcesNext]_sourcesVars => SourcesInv'
<1>1. SUFFICES ASSUME SourcesInv, [SourcesNext]_sourcesVars PROVE SourcesInv'
  OBVIOUS
<1>2. CASE SourcesNext
  BY <1>1, <1>2, GeocodeSays, ForecastSays, CorpusSays, LookUpSays, ComposeSays, MergeSays
     DEF SourcesNext
<1>3. CASE UNCHANGED sourcesVars
  BY <1>1, <1>3 DEF sourcesVars, SourcesInv, SourcesTyped, CitiesKnown, Begun, GapsAreSaid,
     NoSilentHop, Says, Kept, Neighbours
<1>4. QED
  BY <1>1, <1>2, <1>3

\* The trip says of each city what it lacks and blames no source that answered
\* (coordinator.py:155-183, nodes.py:141-163), for any cities, interests and answers.
THEOREM GapsSaid == SourcesSpec => []GapsAreSaid
<1>1. SourcesInv => GapsAreSaid
  BY DEF SourcesInv
<1>2. QED
  BY <1>1, SourcesBegin, SourcesStep, PTL DEF SourcesSpec

\* A hop that the summary does not show between neighbours is explained by a warning
\* (coordinator.py:38-100), for any cities, interests and answers.
THEOREM HopsExplained == SourcesSpec => []NoSilentHop
<1>1. SourcesInv => NoSilentHop
  BY DEF SourcesInv
<1>2. QED
  BY <1>1, SourcesBegin, SourcesStep, PTL DEF SourcesSpec

-----------------------------------------------------------------------------
(* The days of a city.  The argument: the split is a division with its       *)
(* remainder, one more for each of the first days.                           *)

\* Quotient and remainder.
LEMMA Division ==
    ASSUME NEW a \in Nat, NEW b \in Nat \ {0}
    PROVE  a \div b \in Nat /\ a % b \in 0..(b - 1) /\ a = b * (a \div b) + (a % b)
<1>1. a % b \in 0..(b - 1)
  OBVIOUS
<1>2. a \div b \in Nat
  OBVIOUS
<1>3. a = b * (a \div b) + (a % b)
  OBVIOUS
<1>4. QED
  BY <1>1, <1>2, <1>3

\* FlattenSeq is a recursive function: it is the one that adds the sequences in order.
LEMMA FlattenIs ==
    ASSUME NEW seqs, Len(seqs) \in Nat \ {0}, NEW g,
           g = [i \in 1..Len(seqs) |-> g[i]], g[1] = seqs[1],
           \A i \in 2..Len(seqs) : g[i] = g[i - 1] \o seqs[i]
    PROVE  FlattenSeq(seqs) = g[Len(seqs)]
<1> DEFINE Flattens(f) == f = [i \in 1..Len(seqs) |-> IF i = 1 THEN seqs[i] ELSE f[i - 1] \o seqs[i]]
           f == CHOOSE f : Flattens(f)
<1>1. FlattenSeq(seqs) = f[Len(seqs)]
  BY DEF FlattenSeq
<1>2. Flattens(g)
  <2>1. ASSUME NEW i \in 1..Len(seqs)
        PROVE  g[i] = IF i = 1 THEN seqs[i] ELSE g[i - 1] \o seqs[i]
    <3>1. i = 1 \/ i \in 2..Len(seqs)
      OBVIOUS
    <3>2. i \in 2..Len(seqs) => g[i] = g[i - 1] \o seqs[i]
      BY Zenon
    <3>3. i \in 2..Len(seqs) => i # 1
      OBVIOUS
    <3>4. QED
      BY <3>1, <3>2, <3>3, Zenon
  <2>2. QED
    BY <2>1
<1>3. Flattens(f)
  BY <1>2
<1> HIDE DEF f
<1> DEFINE Bad == {i \in 1..Len(seqs) : f[i] # g[i]}
<1>4. Bad = {}
  <2>1. SUFFICES ASSUME Bad # {} PROVE FALSE
    OBVIOUS
  <2>2. PICK i \in Bad : \A j \in Bad : i <= j
    <3>1. Bad \in SUBSET Nat
      OBVIOUS
    <3> HIDE DEF Bad
    <3>2. QED
      BY <2>1, <3>1, SmallestNumber
  <2>3. i \in 1..Len(seqs) /\ f[i] # g[i]
    BY <2>2
  <2>4. f[i] = IF i = 1 THEN seqs[i] ELSE f[i - 1] \o seqs[i]
    BY <1>3, <2>3
  <2>5. i # 1
    BY <2>3, <2>4
  <2>6. i - 1 \in 1..Len(seqs) /\ i - 1 \notin Bad
    BY <2>2, <2>3, <2>5
  <2>7. f[i - 1] = g[i - 1]
    BY <2>6
  <2>8. i \in 2..Len(seqs)
    BY <2>3, <2>5
  <2>9. f[i] = f[i - 1] \o seqs[i] /\ g[i] = g[i - 1] \o seqs[i]
    BY <2>4, <2>5, <2>8, Zenon
  <2>10. QED
    BY <2>3, <2>7, <2>9, Zenon
<1>5. QED
  BY <1>1, <1>4

\* n days' worth of `places`: how many days, what each has at least, and how many have one more.
DayCount(places, n) == Least(n, Len(places))
Base(places, n) == Len(places) \div DayCount(places, n)
Extra(places, n) == Len(places) % DayCount(places, n)
Before(places, n, d) == (d - 1) * Base(places, n) + Least(d - 1, Extra(places, n))

\* The days get the same number of places, and some of them one more.
LEMMA SplitNumbers ==
    ASSUME NEW S, NEW places \in Seq(S), places # <<>>, NEW n \in Nat \ {0}
    PROVE  LET count == DayCount(places, n)  base == Base(places, n)  extra == Extra(places, n)
           IN  /\ count \in 1..Len(places) /\ count <= n
               /\ base \in Nat \ {0} /\ extra \in 0..(count - 1)
               /\ count * base \in Nat
               /\ Len(places) = count * base + extra
<1> DEFINE count == DayCount(places, n)
           base == Base(places, n)
           extra == Extra(places, n)
<1>1. Len(places) \in Nat \ {0}
  OBVIOUS
<1>2. count \in 1..Len(places) /\ count <= n
  BY <1>1 DEF DayCount, Least
<1>3. base \in Nat /\ extra \in 0..(count - 1) /\ Len(places) = count * base + extra
  <2>1. PICK l \in Nat, c \in Nat \ {0} : l = Len(places) /\ c = count
    BY <1>1, <1>2
  <2>2. base = l \div c /\ extra = l % c
    BY <2>1 DEF Base, Extra
  <2> HIDE DEF base, extra, count
  <2>3. l \div c \in Nat /\ l % c \in 0..(c - 1) /\ l = c * (l \div c) + (l % c)
    BY Division
  <2>4. QED
    BY <2>1, <2>2, <2>3, Zenon
<1>4. \A i, j \in Nat : i * j \in Nat
  OBVIOUS
<1>5. base # 0
  <2>1. SUFFICES ASSUME base = 0 PROVE FALSE
    OBVIOUS
  <2>2. count * 0 = 0
    BY <1>2
  <2>3. Len(places) = extra
    BY <1>3, <2>1, <2>2
  <2>4. QED
    BY <1>1, <1>2, <1>3, <2>3
<1>6. QED
  BY <1>2, <1>3, <1>4, <1>5

\* Where a day begins: where the one before ends.
LEMMA BeforeGrows ==
    ASSUME NEW S, NEW places \in Seq(S), places # <<>>, NEW n \in Nat \ {0},
           NEW d \in 1..DayCount(places, n)
    PROVE  /\ Before(places, n, 1) = 0
           /\ Before(places, n, d) \in Nat /\ Before(places, n, d + 1) \in Nat
           /\ Before(places, n, d + 1) =
                Before(places, n, d) + Base(places, n) + (IF d <= Extra(places, n) THEN 1 ELSE 0)
           /\ Before(places, n, d + 1) <= Len(places)
           /\ Before(places, n, DayCount(places, n) + 1) = Len(places)
<1> DEFINE count == DayCount(places, n)
           base == Base(places, n)
           extra == Extra(places, n)
<1>1. /\ count \in 1..Len(places) /\ base \in Nat \ {0} /\ extra \in 0..(count - 1)
      /\ count * base \in Nat /\ Len(places) = count * base + extra
  BY SplitNumbers
<1>2. d \in Nat \ {0} /\ d <= count /\ count \in Nat
  BY <1>1
<1> HIDE DEF count, base, extra
<1>3. \A i, j \in Nat : i * j \in Nat /\ (i + 1) * j = i * j + j
  OBVIOUS
<1>4. d - 1 \in Nat /\ (d - 1) + 1 = d
  BY <1>2
<1>5. (d - 1) * base \in Nat /\ d * base = (d - 1) * base + base /\ d * base \in Nat
  BY <1>1, <1>3, <1>4
<1>6. d * base <= count * base
  <2>1. PICK k \in Nat : count = d + k
    <3>1. count - d \in Nat /\ count = d + (count - d)
      BY <1>2
    <3>2. QED
      BY <3>1
  <2>2. \A i, j, l \in Nat : (i + j) * l = i * l + j * l
    OBVIOUS
  <2>3. count * base = d * base + k * base /\ k * base \in Nat
    BY <1>1, <1>2, <1>3, <2>1, <2>2
  <2>4. QED
    BY <1>5, <2>3
<1>7. Before(places, n, d) = (d - 1) * base + Least(d - 1, extra)
  BY DEF Before, base, extra
<1>8. Before(places, n, d + 1) = d * base + Least(d, extra)
  <2>1. (d + 1) - 1 = d
    BY <1>2
  <2>2. QED
    BY <2>1 DEF Before, base, extra
<1>9. Before(places, n, count + 1) = count * base + extra
  <2>1. (count + 1) - 1 = count /\ Least(count, extra) = extra
    BY <1>1, <1>2 DEF Least
  <2>2. QED
    BY <2>1 DEF Before, base, extra
<1>10. Before(places, n, 1) = 0
  <2>1. 1 - 1 = 0 /\ 0 * base = 0 /\ Least(0, extra) = 0
    BY <1>1, <1>2 DEF Least
  <2>2. QED
    BY <2>1 DEF Before, base, extra
<1>11. PICK below \in Nat, upto \in Nat : below = (d - 1) * base /\ upto = d * base
  BY <1>5
<1>12. /\ Before(places, n, d) \in Nat /\ Before(places, n, d + 1) \in Nat
       /\ Before(places, n, d + 1) = Before(places, n, d) + base + (IF d <= extra THEN 1 ELSE 0)
  <2>1. upto = below + base
    BY <1>5, <1>11
  <2>2. CASE d <= extra
    BY <1>1, <1>2, <1>4, <1>7, <1>8, <1>11, <2>1, <2>2 DEF Least
  <2>3. CASE ~(d <= extra)
    BY <1>1, <1>2, <1>4, <1>7, <1>8, <1>11, <2>1, <2>3 DEF Least
  <2>4. QED
    BY <2>2, <2>3
<1>13. Before(places, n, d + 1) <= Len(places)
  BY <1>1, <1>2, <1>6, <1>8, <1>11 DEF Least
<1>14. QED
  BY <1>1, <1>9, <1>10, <1>12, <1>13 DEF count, base, extra

\* The days are the places in their order, each day its share.
LEMMA SplitTiles ==
    ASSUME NEW S, NEW places \in Seq(S), places # <<>>, NEW n \in Nat \ {0}
    PROVE  /\ Split(places, n) \in Seq(Seq(S))
           /\ Len(Split(places, n)) = DayCount(places, n)
           /\ FlattenSeq(Split(places, n)) = places
           /\ \A d \in DOMAIN Split(places, n) :
                 Len(Split(places, n)[d]) =
                    Base(places, n) + (IF d <= Extra(places, n) THEN 1 ELSE 0)
<1> DEFINE count == DayCount(places, n)
           days_ == Split(places, n)
           before(d) == Before(places, n, d)
           upto == [d \in 1..count |-> SubSeq(places, 1, before(d + 1))]
<1>1. count \in 1..Len(places) /\ count \in Nat \ {0}
  <2>1. count \in 1..Len(places)
    BY SplitNumbers
  <2> HIDE DEF count
  <2>2. QED
    BY <2>1
<1>2. days_ = [d \in 1..count |-> SubSeq(places, before(d) + 1, before(d + 1))]
  BY DEF Split, DayCount, Base, Extra, Before
<1> HIDE DEF days_, count, before
<1>3. ASSUME NEW d \in 1..count
      PROVE  /\ before(1) = 0 /\ before(d) \in Nat /\ before(d + 1) \in Nat
             /\ before(d + 1) = before(d) + Base(places, n) + (IF d <= Extra(places, n) THEN 1 ELSE 0)
             /\ before(d + 1) <= Len(places) /\ before(count + 1) = Len(places)
             /\ Base(places, n) \in Nat
  BY SplitNumbers, BeforeGrows DEF before, count
<1>4. ASSUME NEW d \in 1..count
      PROVE  /\ days_[d] \in Seq(S)
             /\ Len(days_[d]) = Base(places, n) + (IF d <= Extra(places, n) THEN 1 ELSE 0)
  <2>1. PICK a \in Nat, b \in Nat : a = before(d) /\ b = before(d + 1)
    BY <1>3
  <2>2. b <= Len(places)
    BY <1>3, <2>1
  <2>3. days_[d] = SubSeq(places, a + 1, b)
    BY <1>2, <2>1
  <2>4. \A i \in (a + 1)..b : places[i] \in S
    BY <2>2
  <2>5. SubSeq(places, a + 1, b) \in Seq(S)
        /\ Len(SubSeq(places, a + 1, b)) = IF a + 1 <= b THEN b - (a + 1) + 1 ELSE 0
    BY <2>4, SubSeqProperties
  <2>6. PICK m \in Nat : m = Base(places, n) + (IF d <= Extra(places, n) THEN 1 ELSE 0)
    BY <1>3
  <2>7. b = a + m
    BY <1>3, <2>1, <2>6
  <2>8. (IF a + 1 <= b THEN b - (a + 1) + 1 ELSE 0) = m
    BY <2>7
  <2>9. QED
    BY <2>3, <2>5, <2>6, <2>8
<1>5. days_ \in Seq(Seq(S)) /\ Len(days_) = count /\ DOMAIN days_ = 1..count
  BY <1>1, <1>2, <1>4
<1>6. FlattenSeq(days_) = upto[count]
  <2>1. upto = [d \in 1..Len(days_) |-> upto[d]]
    BY <1>5
  <2>2. upto[1] = days_[1]
    <3>1. 1 \in 1..count
      BY <1>1
    <3>2. 0 + 1 = 1 /\ before(1) = 0
      BY <1>3, <3>1
    <3>3. QED
      BY <1>2, <3>1, <3>2
  <2>3. ASSUME NEW d \in 2..count PROVE upto[d] = upto[d - 1] \o days_[d]
    <3>1. d \in 1..count /\ d - 1 \in 1..count /\ (d - 1) + 1 = d
      BY <1>1
    <3>2. PICK a \in Nat, b \in Nat : a = before(d) /\ b = before(d + 1) /\ a <= b /\ b <= Len(places)
      <4>1. /\ before(d) \in Nat /\ before(d + 1) \in Nat /\ before(d + 1) <= Len(places)
            /\ before(d + 1) = before(d) + Base(places, n) + (IF d <= Extra(places, n) THEN 1 ELSE 0)
            /\ Base(places, n) \in Nat
        BY <1>3, <3>1
      <4>2. before(d) <= before(d + 1)
        BY <4>1
      <4>3. QED
        BY <4>1, <4>2
    <3>3. SubSeq(places, 1, a) \o SubSeq(places, a + 1, b) = SubSeq(places, 1, b)
      <4>1. 1 \in 1..(Len(places) + 1) /\ a \in (1 - 1)..Len(places) /\ b \in a..Len(places)
        BY <3>2
      <4>2. QED
        BY <4>1, ConcatAdjacentSubSeq
    <3>4. upto[d] = SubSeq(places, 1, b) /\ upto[d - 1] = SubSeq(places, 1, a)
      BY <3>1, <3>2
    <3>5. days_[d] = SubSeq(places, a + 1, b)
      BY <1>2, <3>1, <3>2
    <3>6. QED
      BY <3>3, <3>4, <3>5
  <2> HIDE DEF upto
  <2>4. Len(days_) \in Nat \ {0}
    BY <1>1, <1>5
  <2>5. QED
    BY <1>5, <2>1, <2>2, <2>3, <2>4, FlattenIs
<1>7. upto[count] = places
  <2>1. count \in 1..count /\ before(count + 1) = Len(places)
    BY <1>1, <1>3
  <2>2. QED
    BY <2>1, SubSeqFull
<1>8. QED
  BY <1>4, <1>5, <1>6, <1>7 DEF days_, count

\* Multiples.
LEMMA Times ==
    ASSUME NEW c \in Nat, NEW i \in Nat, NEW j \in Nat
    PROVE  /\ c * i \in Nat /\ c * (i + 1) = c * i + c
           /\ i <= j => c * i <= c * j
<1>1. \A a, b \in Nat : a * b \in Nat
  OBVIOUS
<1>2. \A a, b, d \in Nat : a * (b + d) = a * b + a * d
  OBVIOUS
<1>3. c * (i + 1) = c * i + c
  OBVIOUS
<1>4. ASSUME i <= j PROVE c * i <= c * j
  <2>1. PICK k \in Nat : j = i + k
    <3>1. j - i \in Nat /\ j = i + (j - i)
      BY <1>4
    <3>2. QED
      BY <3>1
  <2>2. c * j = c * i + c * k
    BY <1>2, <2>1
  <2>3. PICK a \in Nat, b \in Nat : a = c * i /\ b = c * k
    BY <1>1
  <2>4. QED
    BY <2>2, <2>3
<1>5. QED
  BY <1>1, <1>3, <1>4

\* A load that is cut to its days fills them, and no day is overfull.
LEMMA LoadFits ==
    ASSUME NEW count \in Nat \ {0}, NEW base \in Nat, NEW extra \in 0..(count - 1),
           NEW perDay \in Nat, count * base + extra <= count * perDay
    PROVE  /\ base + (IF extra > 0 THEN 1 ELSE 0) <= perDay
           /\ count * base + extra = count * perDay => base = perDay /\ extra = 0
<1>1. PICK whole \in Nat, load \in Nat : whole = count * perDay /\ load = count * base
  BY Times
<1>2. base <= perDay
  <2>1. SUFFICES ASSUME perDay + 1 <= base PROVE FALSE
    OBVIOUS
  <2>2. count * (perDay + 1) <= count * base /\ count * (perDay + 1) = count * perDay + count
    BY <2>1, Times
  <2>3. whole + count <= load /\ load + extra <= whole
    BY <1>1, <2>2
  <2>4. QED
    BY <1>1, <2>3
<1>3. base = perDay => extra = 0
  <2>1. SUFFICES ASSUME base = perDay PROVE extra = 0
    OBVIOUS
  <2>2. whole + extra <= whole
    BY <1>1, <2>1
  <2>3. QED
    BY <1>1, <2>2
<1>4. ASSUME load + extra = whole PROVE base = perDay
  <2>1. SUFFICES ASSUME base + 1 <= perDay PROVE FALSE
    BY <1>2
  <2>2. count * (base + 1) <= count * perDay /\ count * (base + 1) = count * base + count
    BY <2>1, Times
  <2>3. load + count <= whole
    BY <1>1, <2>2
  <2>4. QED
    BY <1>1, <1>4, <2>3
<1>5. QED
  BY <1>1, <1>2, <1>3, <1>4

\* What a draft of n days makes of the places.
LEMMA DraftTiles ==
    ASSUME NEW S, pois \in Seq(S), NEW n \in 1..MaxDays, days = Split(PlanPois(n), n)
    PROVE  /\ days \in Seq(Seq(S))
           /\ FlattenSeq(days) = SubSeq(pois, 1, Len(FlattenSeq(days)))
           /\ Len(FlattenSeq(days)) \in 0..Len(pois)
           /\ \A d, e \in DOMAIN days :
                 /\ Len(days[d]) \in 1..PerDay
                 /\ d < e => Len(days[d]) - Len(days[e]) \in {0, 1}
           /\ Len(FlattenSeq(days)) < Len(pois) => \A d \in DOMAIN days : Len(days[d]) = PerDay
           /\ pois # <<>> => days # <<>>
<1>1. n \in Nat \ {0} /\ PerDay \in Nat \ {0} /\ Len(pois) \in Nat
  BY DayPlanAssumption
<1>2. CASE pois = <<>>
  <2>1. Least(Len(pois), Least(n, Len(pois)) * PerDay) = 0
    <3>1. Len(pois) = 0 /\ Least(n, 0) = 0 /\ 0 * PerDay = 0
      BY <1>1, <1>2 DEF Least
    <3>2. QED
      BY <3>1 DEF Least
  <2>2. PlanPois(n) = <<>>
    BY <1>2, <2>1 DEF PlanPois
  <2>3. Least(n, Len(PlanPois(n))) = 0
    BY <1>1, <2>2 DEF Least
  <2>4. days = <<>>
    <3>1. 1..0 = {}
      OBVIOUS
    <3>2. QED
      BY <2>3, <3>1 DEF Split
  <2>5. FlattenSeq(days) = <<>>
    BY <2>4 DEF FlattenSeq
  <2>6. Len(<<>>) = 0 /\ SubSeq(pois, 1, 0) = <<>>
    <3>1. SubSeq(<<>>, 1, 0) = <<>>
      BY SubSeqEmpty
    <3>2. QED
      BY <1>2, <3>1
  <2>7. DOMAIN days = {}
    BY <2>4
  <2>8. <<>> \in Seq(Seq(S))
    OBVIOUS
  <2>9. Len(FlattenSeq(days)) = 0 /\ Len(pois) = 0
    BY <1>2, <2>5, <2>6
  <2>10. FlattenSeq(days) = SubSeq(pois, 1, Len(FlattenSeq(days)))
    BY <2>5, <2>6, <2>9, Zenon
  <2>11. QED
    BY <1>2, <2>4, <2>7, <2>8, <2>9, <2>10
<1>3. CASE pois # <<>>
  <2> DEFINE l == Len(pois)
             c == Least(n, l)
             cut == Least(l, c * PerDay)
             places == SubSeq(pois, 1, cut)
  <2>1. l \in Nat \ {0} /\ c \in Nat \ {0} /\ c <= l /\ c <= n
    BY <1>1, <1>3 DEF Least
  <2>2. c * PerDay \in Nat /\ c <= c * PerDay
    <3>1. c * 1 <= c * PerDay /\ c * 1 = c
      BY <1>1, <2>1, Times
    <3>2. QED
      BY <1>1, <2>1, <3>1, Times
  <2>3. cut \in Nat /\ c <= cut /\ cut <= l /\ cut <= c * PerDay /\ (cut < l => cut = c * PerDay)
    <3>1. PICK m : m = c * PerDay
      OBVIOUS
    <3> HIDE DEF c, l
    <3>2. QED
      BY <2>1, <2>2, <3>1 DEF Least
  <2>4. c = n \/ c = l
    BY DEF Least
  <2> HIDE DEF c
  <2>5. Least(n, cut) = c
    BY <1>1, <2>1, <2>3, <2>4 DEF Least
  <2> HIDE DEF cut, l
  <2>6. places \in Seq(S) /\ Len(places) = cut
    BY <2>1, <2>3 DEF l
  <2>7. PlanPois(n) = places
    BY DEF PlanPois, cut, c, l
  <2>8. places # <<>>
    <3>1. cut # 0
      BY <2>1, <2>3
    <3>2. Len(<<>>) = 0
      OBVIOUS
    <3>3. QED
      BY <2>6, <3>1, <3>2
  <2>9. DayCount(places, n) = c
    BY <2>5, <2>6 DEF DayCount
  <2> DEFINE base == Base(places, n)
             extra == Extra(places, n)
  <2> HIDE DEF places
  <2>10. base \in Nat \ {0} /\ extra \in 0..(c - 1) /\ cut = c * base + extra
    BY <1>1, <2>6, <2>8, <2>9, SplitNumbers
  <2>11. /\ days \in Seq(Seq(S)) /\ Len(days) = c /\ FlattenSeq(days) = places
         /\ \A d \in DOMAIN days : Len(days[d]) = base + (IF d <= extra THEN 1 ELSE 0)
    BY <1>1, <2>6, <2>7, <2>8, <2>9, SplitTiles
  <2> HIDE DEF base, extra
  <2>12. /\ base + (IF extra > 0 THEN 1 ELSE 0) <= PerDay
         /\ cut = c * PerDay => base = PerDay /\ extra = 0
    BY <1>1, <2>1, <2>3, <2>10, LoadFits
  <2>13. DOMAIN days = 1..c
    BY <2>11
  <2>14. ASSUME NEW d \in DOMAIN days, NEW e \in DOMAIN days
         PROVE  /\ Len(days[d]) \in 1..PerDay
                /\ d < e => Len(days[d]) - Len(days[e]) \in {0, 1}
    <3>1. d \in 1..c /\ e \in 1..c
      BY <2>13
    <3>2. PICK a, b : a = Len(days[d]) /\ b = Len(days[e])
      OBVIOUS
    <3>3. /\ a = base + (IF d <= extra THEN 1 ELSE 0)
          /\ b = base + (IF e <= extra THEN 1 ELSE 0)
      BY <2>11, <3>2
    <3>4. a \in 1..PerDay
      BY <1>1, <2>1, <2>10, <2>12, <3>1, <3>3
    <3>5. d < e => a - b \in {0, 1}
      BY <2>1, <2>10, <3>1, <3>3
    <3>6. QED
      BY <3>2, <3>4, <3>5
  <2>15. places = SubSeq(pois, 1, Len(places))
    BY <2>6 DEF places
  <2>16. Len(places) < Len(pois) => \A d \in DOMAIN days : Len(days[d]) = PerDay
    <3>1. SUFFICES ASSUME Len(places) < Len(pois), NEW d \in DOMAIN days PROVE Len(days[d]) = PerDay
      OBVIOUS
    <3>2. base = PerDay /\ extra = 0
      BY <2>3, <2>6, <2>12, <3>1 DEF l
    <3>3. d \in Nat /\ d > 0
      BY <2>1, <2>13
    <3>4. Len(days[d]) = base + 0
      BY <2>11, <3>2, <3>3
    <3>5. QED
      BY <1>1, <3>2, <3>4
  <2>17. days # <<>>
    BY <2>1, <2>11
  <2>18. Len(places) \in 0..Len(pois)
    BY <2>3, <2>6 DEF l
  <2>19. QED
    BY <2>11, <2>14, <2>15, <2>16, <2>17, <2>18
<1>4. QED
  BY <1>2, <1>3

-----------------------------------------------------------------------------
(* The merge, slot by slot.                                                  *)

\* Quotient and remainder are the only ones.
LEMMA DivisionOnce ==
    ASSUME NEW b \in Nat \ {0}, NEW q \in Nat, NEW r \in 0..(b - 1)
    PROVE  (b * q + r) \div b = q /\ (b * q + r) % b = r
<1>1. PICK a \in Nat, load \in Nat : load = b * q /\ a = load + r
  BY Times
<1>2. PICK p \in Nat, m \in 0..(b - 1) : p = a \div b /\ m = a % b /\ a = b * p + m
  BY Division
<1>3. PICK whole \in Nat : whole = b * p
  BY Times
<1>4. load + r = whole + m
  BY <1>1, <1>2, <1>3
<1>5. ASSUME p + 1 <= q PROVE FALSE
  <2>1. b * (p + 1) <= b * q /\ b * (p + 1) = b * p + b
    BY <1>5, Times
  <2>2. whole + b <= load
    BY <1>1, <1>3, <2>1
  <2>3. QED
    BY <1>4, <2>2
<1>6. ASSUME q + 1 <= p PROVE FALSE
  <2>1. b * (q + 1) <= b * p /\ b * (q + 1) = b * q + b
    BY <1>6, Times
  <2>2. load + b <= whole
    BY <1>1, <1>3, <2>1
  <2>3. QED
    BY <1>4, <2>2
<1>7. p = q
  BY <1>5, <1>6
<1>8. m = r
  BY <1>1, <1>3, <1>4, <1>7
<1>9. QED
  BY <1>1, <1>2, <1>7, <1>8

\* No bucket is longer than the rounds are many.
LEMMA RoundsEnough ==
    ASSUME buckets \in Seq(Seq(Places))
    PROVE  /\ Rounds \in Nat /\ Slots \in Nat
           /\ \A i \in 1..Len(buckets) : Len(buckets[i]) <= Rounds
<1> DEFINE size == [i \in 1..Len(buckets) |-> Len(buckets[i])]
           lengths == {size[i] : i \in 1..Len(buckets)}
<1>1. Rounds = Max(lengths \cup {0})
  <2>1. DOMAIN buckets = 1..Len(buckets)
    OBVIOUS
  <2>2. {Len(buckets[i]) : i \in DOMAIN buckets} = lengths
    BY <2>1
  <2>3. QED
    BY <2>2 DEF Rounds
<1>2. \A i \in 1..Len(buckets) : size[i] \in Nat
  OBVIOUS
<1>3. Len(buckets) \in Nat
  OBVIOUS
<1>4. \A i \in 1..Len(buckets) : size[i] = Len(buckets[i])
  OBVIOUS
<1>13. size = [i \in 1..Len(buckets) |-> size[i]]
  OBVIOUS
<1> HIDE DEF size
<1>5. IsFiniteSet(lengths)
  <2>1. IsFiniteSet(1..Len(buckets))
    BY <1>3, FS_Interval
  <2>2. size \in Surjection(1..Len(buckets), lengths)
    BY <1>13 DEF Surjection
  <2>3. QED
    BY <2>1, <2>2, FS_Surjection
<1>6. IsFiniteSet(lengths \cup {0})
  BY <1>5, FS_AddElement
<1>7. lengths \cup {0} \in SUBSET Nat
  BY <1>2
<1>8. \A i \in 1..Len(buckets) : size[i] \in lengths
  OBVIOUS
<1> HIDE DEF lengths
<1>9. Rounds \in lengths \cup {0} /\ \A y \in lengths \cup {0} : y <= Rounds
  BY <1>1, <1>6, <1>7, FiniteMax
<1>10. Rounds \in Nat
  BY <1>7, <1>9
<1>11. Slots \in Nat
  BY <1>3, <1>10, Times DEF Slots
<1>12. QED
  BY <1>4, <1>8, <1>9, <1>10, <1>11

\* Every slot asks a bucket, and every place of every bucket has its slot.
LEMMA SlotAsks ==
    ASSUME buckets \in Seq(Seq(Places)), NEW slot \in 1..Slots
    PROVE  /\ Round(slot) \in Nat \ {0}
           /\ \E i \in 1..Len(buckets) : Bucket(slot) = buckets[i]
<1>1. Len(buckets) \in Nat /\ slot - 1 \in Nat /\ Slots \in Nat /\ Rounds \in Nat
  BY RoundsEnough
<1>2. Len(buckets) # 0
  <2>1. SUFFICES ASSUME Len(buckets) = 0 PROVE FALSE
    OBVIOUS
  <2>2. Rounds * 0 = 0
    BY <1>1
  <2>3. Slots = 0
    BY <2>1, <2>2 DEF Slots
  <2>4. QED
    BY <2>3
<1>3. PICK b \in Nat \ {0}, a \in Nat : b = Len(buckets) /\ a = slot - 1
  BY <1>1, <1>2
<1>4. a \div b \in Nat /\ a % b \in 0..(b - 1)
  BY Division
<1>5. PICK q \in Nat, r \in 0..(b - 1) : q = a \div b /\ r = a % b
  BY <1>4
<1>6. Round(slot) = q + 1 /\ Bucket(slot) = buckets[r + 1]
  BY <1>3, <1>5 DEF Round, Bucket
<1>7. r + 1 \in 1..Len(buckets)
  BY <1>3
<1>8. QED
  BY <1>6, <1>7

\* Every place of every interest has a slot.
LEMMA PlaceHasSlot ==
    ASSUME buckets \in Seq(Seq(Places)), NEW i \in 1..Len(buckets),
           NEW k \in 1..Len(buckets[i])
    PROVE  \E slot \in 1..Slots :
              Round(slot) = k /\ Bucket(slot) = buckets[i] /\ (k = 1 => slot = i)
<1>1. PICK b \in Nat \ {0} : b = Len(buckets)
  OBVIOUS
<1>2. Rounds \in Nat /\ Slots \in Nat /\ Len(buckets[i]) \in Nat /\ Len(buckets[i]) <= Rounds
  BY RoundsEnough
<1>3. k \in Nat \ {0} /\ k <= Rounds /\ i - 1 \in 0..(b - 1) /\ k - 1 \in Nat
  BY <1>1, <1>2
<1>4. PICK q \in Nat, r \in 0..(b - 1) : q = k - 1 /\ r = i - 1
  BY <1>3
<1>13. PICK load \in Nat : load = b * q
  BY Times
<1>5. PICK slot \in Nat : slot = load + r + 1
  OBVIOUS
<1>6. (b * q + r) \div b = q /\ (b * q + r) % b = r
  BY DivisionOnce
<1>7. slot - 1 = b * q + r
  BY <1>5, <1>13
<1>8. Round(slot) = q + 1 /\ Bucket(slot) = buckets[r + 1]
  BY <1>1, <1>6, <1>7 DEF Round, Bucket
<1>9. slot \in 1..Slots
  <2>1. q + 1 <= Rounds
    BY <1>3, <1>4
  <2>2. b * (q + 1) <= b * Rounds /\ b * (q + 1) = b * q + b
    BY <1>2, <2>1, Times
  <2>3. Slots = b * Rounds
    <3>1. \A m, n \in Nat : m * n = n * m
      OBVIOUS
    <3>2. QED
      BY <1>1, <1>2, <3>1 DEF Slots
  <2>4. load + b <= Slots
    BY <1>13, <2>2, <2>3
  <2>5. PICK most \in Nat : most = Slots
    BY <1>2
  <2>6. slot <= most /\ 1 <= slot
    BY <1>5, <2>4, <2>5
  <2>7. QED
    BY <2>5, <2>6
<1>10. q + 1 = k /\ r + 1 = i
  BY <1>3, <1>4
<1>11. k = 1 => slot = i
  <2>1. SUFFICES ASSUME k = 1 PROVE slot = i
    OBVIOUS
  <2>2. q = 0 /\ b * 0 = 0
    BY <1>4, <2>1
  <2>3. load = 0
    BY <1>13, <2>2
  <2>4. QED
    BY <1>5, <1>10, <2>3
<1>12. QED
  BY <1>8, <1>9, <1>10, <1>11

\* The list is filled slot by slot, as its recursive function says.
Fills(filled, n) ==
    filled = [slot \in 0..n |-> IF slot = 0 THEN <<>> ELSE Filled(filled[slot - 1], slot)]

\* The merge is defined up to every slot.
LEMMA FillsExist == \A n \in Nat : \E filled : Fills(filled, n)
<1> DEFINE Bad == {n \in Nat : ~\E filled : Fills(filled, n)}
<1>1. SUFFICES ASSUME Bad # {} PROVE FALSE
  OBVIOUS
<1>2. PICK n \in Bad : \A m \in Bad : n <= m
  <2>1. Bad \in SUBSET Nat
    OBVIOUS
  <2> HIDE DEF Bad
  <2>2. QED
    BY <1>1, <2>1, SmallestNumber
<1>3. n \in Nat /\ ~\E filled : Fills(filled, n)
  BY <1>2
<1>4. CASE n = 0
  <2> DEFINE none == [slot \in 0..0 |-> <<>>]
  <2>1. \A slot \in 0..0 : slot = 0
    OBVIOUS
  <2>2. Fills(none, 0)
    BY <2>1 DEF Fills
  <2>3. QED
    BY <1>3, <1>4, <2>2
<1>5. CASE n # 0
  <2>1. n - 1 \in Nat /\ ~(n <= n - 1)
    BY <1>3, <1>5
  <2>2. n - 1 \notin Bad
    BY <1>2, <2>1
  <2>3. PICK f : Fills(f, n - 1)
    BY <2>1, <2>2
  <2> DEFINE g == [slot \in 0..n |-> IF slot = n THEN Filled(f[n - 1], n) ELSE f[slot]]
  <2>4. ASSUME NEW slot \in 0..n
        PROVE  g[slot] = IF slot = 0 THEN <<>> ELSE Filled(g[slot - 1], slot)
    <3>1. CASE slot = n
      <4>1. n - 1 \in 0..n /\ n - 1 # n
        BY <2>1
      <4>2. g[n - 1] = f[n - 1]
        BY <4>1
      <4>3. g[slot] = Filled(f[n - 1], n)
        BY <3>1
      <4>4. QED
        BY <1>5, <3>1, <4>2, <4>3
    <3>2. CASE slot # n
      <4>1. slot \in 0..(n - 1)
        BY <2>1, <3>2
      <4>2. g[slot] = f[slot]
        BY <3>2
      <4>3. f[slot] = IF slot = 0 THEN <<>> ELSE Filled(f[slot - 1], slot)
        BY <2>3, <4>1 DEF Fills
      <4>4. slot # 0 => g[slot - 1] = f[slot - 1]
        <5>1. SUFFICES ASSUME slot # 0 PROVE g[slot - 1] = f[slot - 1]
          OBVIOUS
        <5>2. slot - 1 \in 0..n /\ slot - 1 # n
          BY <1>3, <4>1, <5>1
        <5>3. QED
          BY <5>2
      <4>5. QED
        BY <4>2, <4>3, <4>4, Zenon
    <3>3. QED
      BY <3>1, <3>2
  <2>5. Fills(g, n)
    <3>1. g = [slot \in 0..n |-> g[slot]]
      OBVIOUS
    <3> HIDE DEF g
    <3>2. QED
      BY <2>4, <3>1 DEF Fills
  <2>6. QED
    BY <1>3, <2>5
<1>6. QED
  BY <1>4, <1>5

\* Merged is what the slots have filled.
LEMMA MergedFills ==
    ASSUME buckets \in Seq(Seq(Places))
    PROVE  \E filled : Fills(filled, Slots) /\ Merged = filled[Slots]
<1> DEFINE filled == CHOOSE filled : Fills(filled, Slots)
<1>1. Merged = filled[Slots]
  BY DEF Merged, Fills
<1>2. \E f : Fills(f, Slots)
  BY RoundsEnough, FillsExist
<1>3. Fills(filled, Slots)
  BY <1>2
<1>4. QED
  BY <1>1, <1>3

\* What the slots up to this one have asked for and got.
Asked(n) == {slot \in 1..n : Round(slot) <= Len(Bucket(slot))}
Got(n) == {Bucket(slot)[Round(slot)] : slot \in Asked(n)}

\* The list after a slot: what was got, each place once, and the best of the buckets that
\* were asked no later than their turn.
FairUpTo(list, n) ==
    /\ list \in Seq(Places) /\ Len(list) <= n /\ IsInjective(list)
    /\ ToSet(list) = Got(n)
    /\ \A i \in 1..Len(buckets) :
          buckets[i] # <<>> /\ i <= n => \E p \in DOMAIN list : p <= i /\ list[p] = buckets[i][1]

\* A place is added at the end unless the list has it.
LEMMA UnseenAdds ==
    ASSUME NEW list \in Seq(Places), IsInjective(list), NEW place \in Places
    PROVE  LET longer == Unseen(list, place)
           IN  /\ longer \in Seq(Places) /\ Len(longer) \in {Len(list), Len(list) + 1}
               /\ IsInjective(longer)
               /\ ToSet(longer) = ToSet(list) \cup {place}
               /\ \A p \in DOMAIN list : p \in DOMAIN longer /\ longer[p] = list[p]
               /\ \E p \in DOMAIN longer : p <= Len(list) + 1 /\ longer[p] = place
<1> DEFINE longer == Unseen(list, place)
<1>1. DOMAIN list = 1..Len(list) /\ Len(list) \in Nat
  OBVIOUS
<1>2. CASE Contains(list, place)
  <2>1. longer = list
    BY <1>2 DEF Unseen
  <2>2. PICK p \in 1..Len(list) : list[p] = place
    BY <1>2 DEF Contains
  <2>3. place \in ToSet(list)
    BY <1>1, <2>2 DEF ToSet
  <2> HIDE DEF longer
  <2>4. p \in DOMAIN longer /\ p <= Len(list) + 1 /\ longer[p] = place
    BY <1>1, <2>1, <2>2
  <2>5. QED
    BY <2>1, <2>3, <2>4 DEF longer
<1>3. CASE ~Contains(list, place)
  <2>1. longer = Append(list, place)
    BY <1>3 DEF Unseen
  <2> HIDE DEF longer
  <2>2. longer \in Seq(Places) /\ Len(longer) = Len(list) + 1 /\ DOMAIN longer = 1..(Len(list) + 1)
    BY <2>1
  <2>3. \A p \in 1..Len(list) : longer[p] = list[p]
    BY <2>1
  <2>4. longer[Len(list) + 1] = place
    BY <2>1
  <2>5. \A p \in 1..Len(list) : list[p] # place
    BY <1>3 DEF Contains
  <2>6. \A p \in 1..(Len(list) + 1) : p \in 1..Len(list) \/ p = Len(list) + 1
    BY <1>1
  <2>7. IsInjective(longer)
    <3>1. SUFFICES ASSUME NEW p \in DOMAIN longer, NEW q \in DOMAIN longer, longer[p] = longer[q]
                   PROVE p = q
      BY DEF IsInjective
    <3>2. /\ p \in 1..Len(list) \/ p = Len(list) + 1
          /\ q \in 1..Len(list) \/ q = Len(list) + 1
      BY <2>2, <2>6, <3>1
    <3>3. CASE p \in 1..Len(list) /\ q \in 1..Len(list)
      BY <1>1, <2>3, <3>1, <3>3 DEF IsInjective
    <3>4. QED
      BY <2>3, <2>4, <2>5, <3>1, <3>2, <3>3
  <2>8. ToSet(longer) = ToSet(list) \cup {place}
    <3>1. Len(list) + 1 \in DOMAIN longer /\ \A p \in DOMAIN list : p \in DOMAIN longer
      BY <1>1, <2>2
    <3>2. ASSUME NEW x \in ToSet(longer) PROVE x \in ToSet(list) \cup {place}
      <4>1. PICK p \in DOMAIN longer : x = longer[p]
        BY <3>2 DEF ToSet
      <4>2. QED
        BY <1>1, <2>2, <2>3, <2>4, <2>6, <4>1 DEF ToSet
    <3>3. ASSUME NEW x \in ToSet(list) PROVE x \in ToSet(longer)
      <4>1. PICK p \in DOMAIN list : x = list[p]
        BY <3>3 DEF ToSet
      <4>2. longer[p] = x /\ p \in DOMAIN longer
        BY <1>1, <2>3, <3>1, <4>1
      <4>3. QED
        BY <4>2 DEF ToSet
    <3>4. place \in ToSet(longer)
      BY <2>4, <3>1 DEF ToSet
    <3>5. QED
      BY <3>2, <3>3, <3>4
  <2>9. \A p \in DOMAIN list : p \in DOMAIN longer /\ longer[p] = list[p]
    BY <1>1, <2>2, <2>3
  <2>10. Len(list) + 1 \in DOMAIN longer /\ Len(list) + 1 <= Len(list) + 1
    BY <1>1, <2>2
  <2>11. QED
    BY <2>2, <2>4, <2>7, <2>8, <2>9, <2>10 DEF longer
<1>4. QED
  BY <1>2, <1>3

\* One more slot.
LEMMA SlotFills ==
    ASSUME buckets \in Seq(Seq(Places)), NEW n \in 1..Slots, NEW list, FairUpTo(list, n - 1)
    PROVE  FairUpTo(Filled(list, n), n)
<1> DEFINE k == Round(n)
           finds == Bucket(n)
           longer == Filled(list, n)
<1>1. n \in Nat \ {0} /\ n - 1 \in Nat
  BY RoundsEnough
<1>2. k \in Nat \ {0} /\ finds \in Seq(Places)
  <2>1. k \in Nat \ {0} /\ \E i \in 1..Len(buckets) : finds = buckets[i]
    BY SlotAsks
  <2> HIDE DEF k, finds
  <2>2. QED
    BY <2>1
<1>3. Asked(n) = Asked(n - 1) \cup (IF k <= Len(finds) THEN {n} ELSE {})
  <2>1. 1..n = (1..(n - 1)) \cup {n}
    BY <1>1
  <2>2. QED
    BY <2>1 DEF Asked
<1>4. Got(n) = Got(n - 1) \cup (IF k <= Len(finds) THEN {finds[k]} ELSE {})
  BY <1>3 DEF Got
<1>5. \A i \in 1..Len(buckets) : buckets[i] # <<>> /\ i = n => k = 1 /\ finds = buckets[i]
  <2>1. SUFFICES ASSUME NEW i \in 1..Len(buckets), buckets[i] # <<>>, i = n
                 PROVE  k = 1 /\ finds = buckets[i]
    OBVIOUS
  <2>2. 1 \in 1..Len(buckets[i])
    BY <2>1
  <2>3. PICK slot \in 1..Slots : Round(slot) = 1 /\ Bucket(slot) = buckets[i] /\ slot = i
    BY <2>2, PlaceHasSlot
  <2>4. QED
    BY <2>1, <2>3
<1>6. /\ list \in Seq(Places) /\ Len(list) <= n - 1 /\ IsInjective(list)
      /\ ToSet(list) = Got(n - 1)
      /\ \A i \in 1..Len(buckets) :
            buckets[i] # <<>> /\ i <= n - 1 => \E p \in DOMAIN list : p <= i /\ list[p] = buckets[i][1]
  BY DEF FairUpTo
<1>7. CASE ~(k <= Len(finds))
  <2>1. longer = list /\ Got(n) = Got(n - 1)
    BY <1>4, <1>7 DEF Filled
  <2>2. \A i \in 1..Len(buckets) : buckets[i] # <<>> /\ i = n => FALSE
    <3>1. SUFFICES ASSUME NEW i \in 1..Len(buckets), buckets[i] # <<>>, i = n PROVE FALSE
      OBVIOUS
    <3>2. k = 1 /\ finds = buckets[i]
      BY <1>5, <3>1
    <3> HIDE DEF k, finds
    <3>3. Len(finds) \in Nat /\ Len(finds) # 0
      BY <1>2, <3>1, <3>2
    <3>4. QED
      BY <1>7, <3>2, <3>3
  <2>3. \A i \in 1..Len(buckets) : buckets[i] # <<>> /\ i <= n => i <= n - 1
    BY <1>1, <2>2
  <2>4. Len(list) <= n
    BY <1>1, <1>6
  <2> HIDE DEF longer
  <2>5. QED
    BY <1>6, <2>1, <2>3, <2>4 DEF FairUpTo, longer
<1>8. CASE k <= Len(finds)
  <2>1. finds[k] \in Places
    <3> HIDE DEF k, finds
    <3>1. QED
      BY <1>2, <1>8
  <2>2. longer = Unseen(list, finds[k]) /\ Got(n) = Got(n - 1) \cup {finds[k]}
    BY <1>4, <1>8 DEF Filled
  <2> HIDE DEF longer, k, finds
  <2>3. /\ longer \in Seq(Places) /\ Len(longer) \in {Len(list), Len(list) + 1}
        /\ IsInjective(longer)
        /\ ToSet(longer) = ToSet(list) \cup {finds[k]}
        /\ \A p \in DOMAIN list : p \in DOMAIN longer /\ longer[p] = list[p]
        /\ \E p \in DOMAIN longer : p <= Len(list) + 1 /\ longer[p] = finds[k]
    BY <1>6, <2>1, <2>2, UnseenAdds
  <2>4. Len(list) \in Nat
    BY <1>6
  <2>5. Len(longer) <= n
    BY <1>1, <1>6, <2>3, <2>4
  <2>6. ToSet(longer) = Got(n)
    BY <1>6, <2>2, <2>3
  <2>7. ASSUME NEW i \in 1..Len(buckets), buckets[i] # <<>>, i <= n
        PROVE  \E p \in DOMAIN longer : p <= i /\ longer[p] = buckets[i][1]
    <3>1. CASE i = n
      <4>1. k = 1 /\ finds = buckets[i]
        BY <1>5, <2>7, <3>1
      <4>2. PICK p \in DOMAIN longer : p <= Len(list) + 1 /\ longer[p] = finds[k]
        BY <2>3
      <4>3. p \in Nat
        BY <2>3, <4>2
      <4>4. p <= i
        BY <1>1, <1>6, <2>4, <3>1, <4>2, <4>3
      <4>5. QED
        BY <4>1, <4>2, <4>4
    <3>2. CASE i # n
      <4>1. i <= n - 1
        BY <1>1, <2>7, <3>2
      <4>2. PICK p \in DOMAIN list : p <= i /\ list[p] = buckets[i][1]
        BY <1>6, <2>7, <4>1
      <4>3. QED
        BY <2>3, <4>2
    <3>3. QED
      BY <3>1, <3>2
  <2>8. FairUpTo(longer, n)
    BY <2>3, <2>5, <2>6, <2>7 DEF FairUpTo
  <2>9. QED
    BY <2>8 DEF longer
<1>9. QED
  BY <1>7, <1>8

\* The merge is fair up to its last slot.
LEMMA MergedFair ==
    ASSUME buckets \in Seq(Seq(Places))
    PROVE  FairUpTo(Merged, Slots)
<1>1. PICK filled : Fills(filled, Slots) /\ Merged = filled[Slots]
  BY MergedFills
<1>2. Slots \in Nat
  BY RoundsEnough
<1> DEFINE Bad == {n \in 0..Slots : ~FairUpTo(filled[n], n)}
<1>3. Bad = {}
  <2>1. SUFFICES ASSUME Bad # {} PROVE FALSE
    OBVIOUS
  <2>2. PICK n \in Bad : \A m \in Bad : n <= m
    <3>1. Bad \in SUBSET Nat
      BY <1>2
    <3> HIDE DEF Bad
    <3>2. QED
      BY <2>1, <3>1, SmallestNumber
  <2>3. n \in 0..Slots /\ ~FairUpTo(filled[n], n)
    BY <2>2
  <2>4. filled[n] = IF n = 0 THEN <<>> ELSE Filled(filled[n - 1], n)
    BY <1>1, <2>3 DEF Fills
  <2>5. CASE n = 0
    <3>1. filled[n] = <<>>
      BY <2>4, <2>5
    <3>2. Asked(0) = {}
      <4>1. 1..0 = {}
        OBVIOUS
      <4>2. QED
        BY <4>1 DEF Asked
    <3>3. Got(0) = {}
      BY <3>2 DEF Got
    <3>4. <<>> \in Seq(Places) /\ Len(<<>>) = 0 /\ IsInjective(<<>>) /\ ToSet(<<>>) = {}
      BY DEF IsInjective, ToSet
    <3>5. \A i \in 1..Len(buckets) : ~(i <= 0)
      OBVIOUS
    <3>6. 0 <= 0
      OBVIOUS
    <3>7. FairUpTo(<<>>, 0)
      BY <3>3, <3>4, <3>5, <3>6 DEF FairUpTo
    <3>8. QED
      BY <2>3, <2>5, <3>1, <3>7
  <2>6. CASE n # 0
    <3>1. n \in 1..Slots /\ n - 1 \in 0..Slots /\ ~(n <= n - 1)
      BY <1>2, <2>3, <2>6
    <3>2. n - 1 \notin Bad
      BY <2>2, <3>1
    <3>3. FairUpTo(filled[n - 1], n - 1)
      BY <3>1, <3>2
    <3>4. FairUpTo(Filled(filled[n - 1], n), n)
      BY <3>1, <3>3, SlotFills
    <3>5. QED
      BY <2>3, <2>4, <2>6, <3>4
  <2>7. QED
    BY <2>5, <2>6
<1>4. Slots \in 0..Slots
  BY <1>2
<1>5. FairUpTo(filled[Slots], Slots)
  BY <1>3, <1>4
<1>6. QED
  BY <1>1, <1>5

\* The whole list.
LEMMA MergedIsFair ==
    ASSUME buckets \in Seq(Seq(Places))
    PROVE  /\ Merged \in Seq(Places) /\ IsInjective(Merged)
           /\ ToSet(Merged) = UNION {ToSet(buckets[i]) : i \in DOMAIN buckets}
           /\ \A i \in DOMAIN buckets :
                 buckets[i] # <<>> => \E p \in DOMAIN Merged : p <= i /\ Merged[p] = buckets[i][1]
<1>1. FairUpTo(Merged, Slots)
  BY MergedFair
<1>2. DOMAIN buckets = 1..Len(buckets)
  OBVIOUS
<1>3. ASSUME NEW slot \in Asked(Slots)
      PROVE  \E i \in DOMAIN buckets : Bucket(slot)[Round(slot)] \in ToSet(buckets[i])
  <2>1. slot \in 1..Slots /\ Round(slot) <= Len(Bucket(slot))
    BY <1>3 DEF Asked
  <2>2. Round(slot) \in Nat \ {0}
    BY <2>1, SlotAsks
  <2>3. PICK i \in 1..Len(buckets) : Bucket(slot) = buckets[i]
    BY <2>1, SlotAsks
  <2>4. buckets[i] \in Seq(Places)
    OBVIOUS
  <2>5. Round(slot) \in DOMAIN buckets[i]
    BY <2>1, <2>2, <2>3, <2>4
  <2>6. QED
    BY <1>2, <2>3, <2>5 DEF ToSet
<1>4. ASSUME NEW i \in DOMAIN buckets, NEW x \in ToSet(buckets[i])
      PROVE  x \in Got(Slots)
  <2>1. buckets[i] \in Seq(Places) /\ i \in 1..Len(buckets)
    BY <1>2
  <2>2. PICK k \in DOMAIN buckets[i] : x = buckets[i][k]
    BY <1>4 DEF ToSet
  <2>3. k \in 1..Len(buckets[i])
    BY <2>1, <2>2
  <2>4. PICK slot \in 1..Slots : Round(slot) = k /\ Bucket(slot) = buckets[i]
    BY <2>1, <2>3, PlaceHasSlot
  <2>5. k <= Len(buckets[i])
    BY <2>1, <2>3
  <2>6. slot \in Asked(Slots)
    BY <2>4, <2>5 DEF Asked
  <2>7. QED
    BY <2>2, <2>4, <2>6 DEF Got
<1>5. Got(Slots) = UNION {ToSet(buckets[i]) : i \in DOMAIN buckets}
  BY <1>3, <1>4 DEF Got
<1>6. ASSUME NEW i \in DOMAIN buckets, buckets[i] # <<>> PROVE i <= Slots
  <2>1. buckets[i] \in Seq(Places) /\ i \in 1..Len(buckets)
    BY <1>2
  <2>2. 1 \in 1..Len(buckets[i])
    BY <1>6, <2>1
  <2>3. PICK slot \in 1..Slots : slot = i
    BY <2>1, <2>2, PlaceHasSlot
  <2>4. Slots \in Nat
    BY RoundsEnough
  <2>5. QED
    BY <2>3, <2>4
<1>7. QED
  BY <1>1, <1>2, <1>5, <1>6 DEF FairUpTo

-----------------------------------------------------------------------------
(* The city's itinerary, step by step.                                       *)

\* What the live search leaves: its list and the buckets it is made of.
MergedFairly ==
    /\ pois \in Seq(Places) /\ IsInjective(pois)
    /\ ToSet(pois) = UNION {ToSet(buckets[i]) : i \in DOMAIN buckets}
    /\ \A i \in DOMAIN buckets :
          buckets[i] # <<>> => \E p \in DOMAIN pois : p <= i /\ pois[p] = buckets[i][1]

DayInv ==
    /\ hits \in Seq(Places) /\ buckets \in Seq(Seq(Places))
    /\ pois \in Seq(ToSet(pois))
    /\ stage \in {"from_live", "live_drafted"} => MergedFairly
    /\ Drafted => \E n \in 1..MaxDays : days = Split(PlanPois(n), n)

\* A list is one of its elements.
LEMMA Listed == \A S : \A list \in Seq(S) : list \in Seq(ToSet(list))
<1>1. SUFFICES ASSUME NEW S, NEW list \in Seq(S) PROVE list \in Seq(ToSet(list))
  OBVIOUS
<1>2. DOMAIN list = 1..Len(list) /\ Len(list) \in Nat /\ list = [i \in 1..Len(list) |-> list[i]]
  OBVIOUS
<1>3. \A i \in 1..Len(list) : list[i] \in ToSet(list)
  BY <1>2 DEF ToSet
<1>4. QED
  BY <1>2, <1>3

\* Whatever the model answers, what is kept of the hits is a list.
LEMMA RerankedListed ==
    ASSUME hits \in Seq(Places), NEW answer
    PROVE  Reranked(answer) \in Seq(ToSet(Reranked(answer)))
<1> DEFINE order == Parsed(answer, Len(hits))
           ranked == [i \in DOMAIN order |-> hits[order[i]]]
           all == ranked \o SelectSeq(hits, LAMBDA p : ~Contains(ranked, p))
           first == SubSeq(all, 1, TopN)
<1>1. Reranked(answer) = IF Len(hits) <= TopN THEN hits ELSE first
  BY DEF Reranked
<1> HIDE DEF all
<1>2. first \in Seq(ToSet(first))
  <2>1. TopN \in Nat
    BY DayPlanAssumption
  <2>2. first = [i \in 1..TopN |-> all[i]]
    BY <2>1
  <2> HIDE DEF first
  <2>3. first \in Seq({all[i] : i \in 1..TopN})
    BY <2>1, <2>2
  <2>4. QED
    BY <2>3, Listed
<1>3. hits \in Seq(ToSet(hits))
  BY Listed
<1> HIDE DEF first
<1>4. QED
  BY <1>1, <1>2, <1>3

\* Nothing is planned at first.
LEMMA DayAtFirst == PlanInit => DayInv
<1>1. SUFFICES ASSUME PlanInit PROVE DayInv
  OBVIOUS
<1>2. stage = "retrieving" /\ hits \in Hits /\ buckets \in Buckets /\ pois = <<>>
  BY <1>1 DEF PlanInit
<1>3. hits \in Seq(Places) /\ buckets \in Seq(Seq(Places))
  BY <1>2, DayPlanAssumption
<1>4. pois \in Seq(Places)
  BY <1>2
<1>5. pois \in Seq(ToSet(pois))
  BY <1>4, Listed
<1>6. stage \notin {"from_live", "live_drafted"} /\ ~Drafted
  BY <1>2 DEF Drafted
<1>7. QED
  BY <1>3, <1>5, <1>6 DEF DayInv

\* Every step keeps the invariant.
LEMMA DayStep == DayInv /\ [PlanNext]_planVars => DayInv'
<1>1. SUFFICES ASSUME DayInv, [PlanNext]_planVars PROVE DayInv'
  OBVIOUS
<1>2. /\ hits \in Seq(Places) /\ buckets \in Seq(Seq(Places)) /\ pois \in Seq(ToSet(pois))
      /\ stage \in {"from_live", "live_drafted"} => MergedFairly
      /\ Drafted => \E n \in 1..MaxDays : days = Split(PlanPois(n), n)
  BY <1>1 DEF DayInv
<1>3. CASE Retrieve
  <2>1. hits' = hits /\ buckets' = buckets
    BY <1>3 DEF Retrieve
  <2>2. stage' \in {"from_corpus", "searching"}
    BY <1>3 DEF Retrieve
  <2>3. stage' \notin {"from_live", "live_drafted"} /\ ~Drafted'
    BY <2>2 DEF Drafted
  <2>4. pois' = pois \/ \E answer \in Answers : pois' = Reranked(answer)
    BY <1>3 DEF Retrieve
  <2>5. pois' \in Seq(ToSet(pois'))
    BY <1>2, <2>4, RerankedListed
  <2>6. QED
    BY <1>2, <2>1, <2>3, <2>5 DEF DayInv
<1>4. CASE SearchLive
  <2>1. pois' = Merged /\ hits' = hits /\ buckets' = buckets /\ stage' = "from_live"
    BY <1>4 DEF SearchLive
  <2>2. MergedFairly'
    BY <1>2, <2>1, MergedIsFair DEF MergedFairly
  <2>3. pois' \in Seq(Places)
    BY <2>2 DEF MergedFairly
  <2>4. pois' \in Seq(ToSet(pois'))
    BY <2>3, Listed
  <2>5. ~Drafted'
    BY <2>1 DEF Drafted
  <2>6. QED
    BY <1>2, <2>1, <2>2, <2>4, <2>5 DEF DayInv
<1>5. CASE Draft
  <2>1. hits' = hits /\ buckets' = buckets /\ pois' = pois
    BY <1>5 DEF Draft
  <2>2. PICK n \in 1..MaxDays : days' = Split(PlanPois(n), n)
    BY <1>5 DEF Draft
  <2>3. days' = Split(PlanPois(n), n)'
    BY <2>1, <2>2 DEF PlanPois, Split
  <2>4. stage' \in {"from_live", "live_drafted"} => stage \in {"from_live", "live_drafted"}
    BY <1>5 DEF Draft
  <2>5. stage' \in {"from_live", "live_drafted"} => MergedFairly'
    BY <1>2, <2>1, <2>4 DEF MergedFairly
  <2>6. Drafted' => \E m \in 1..MaxDays : days' = Split(PlanPois(m), m)'
    BY <2>3
  <2>7. QED
    BY <1>2, <2>1, <2>5, <2>6 DEF DayInv
<1>6. CASE UNCHANGED planVars
  <2>1. stage' = stage /\ hits' = hits /\ buckets' = buckets /\ pois' = pois /\ days' = days
    BY <1>6 DEF planVars
  <2>2. MergedFairly' = MergedFairly
    BY <2>1 DEF MergedFairly
  <2>3. Drafted' = Drafted
    BY <2>1 DEF Drafted
  <2>4. \A n : PlanPois(n)' = PlanPois(n)
    BY <2>1 DEF PlanPois
  <2>5. \A n : Split(PlanPois(n), n)' = Split(PlanPois(n), n)
    BY <2>4 DEF Split
  <2>6. Drafted' => \E n \in 1..MaxDays : days' = Split(PlanPois(n), n)'
    BY <1>2, <2>1, <2>3, <2>5
  <2>7. QED
    BY <1>2, <2>1, <2>2, <2>6 DEF DayInv
<1>7. QED
  BY <1>1, <1>3, <1>4, <1>5, <1>6 DEF PlanNext

\* So it is an invariant.
LEMMA DayAlways == PlanSpec => []DayInv
BY DayAtFirst, DayStep, PTL DEF PlanSpec

\* Whatever was found and however many days are asked for, the days of a draft are the most
\* relevant places in their order, none empty, none overfull, their loads at most one apart
\* (nodes.py:174-217).
THEOREM DaysAreTiled == PlanSpec => []DaysTile
<1>1. DayInv => DaysTile
  <2>1. SUFFICES ASSUME DayInv, Drafted PROVE DaysTile
    BY DEF DaysTile
  <2>2. PICK n \in 1..MaxDays : days = Split(PlanPois(n), n)
    BY <2>1 DEF DayInv
  <2>3. pois \in Seq(ToSet(pois))
    BY <2>1 DEF DayInv
  <2>4. QED
    BY <2>2, <2>3, DraftTiles DEF DaysTile
<1>2. QED
  BY <1>1, DayAlways, PTL

\* Whatever the interests found, the merged list has each of their places once, and the days
\* cut from it keep the best of as many interests as they have stops (nodes.py:99-122).
THEOREM MergeKeepsInterests == PlanSpec => []MergeIsFair
<1>1. DayInv => MergeIsFair
  <2>1. SUFFICES ASSUME DayInv PROVE MergeIsFair
    OBVIOUS
  <2>2. stage = "from_live" =>
          /\ ToSet(pois) = UNION {ToSet(buckets[i]) : i \in DOMAIN buckets}
          /\ IsInjective(pois)
    BY <2>1 DEF DayInv, MergedFairly
  <2>3. ASSUME stage = "live_drafted", NEW i \in DOMAIN buckets, buckets[i] # <<>>,
               i <= Len(FlattenSeq(days))
        PROVE  Contains(FlattenSeq(days), buckets[i][1])
    <3>1. MergedFairly /\ Drafted
      BY <2>1, <2>3 DEF DayInv, Drafted
    <3>2. PICK n \in 1..MaxDays : days = Split(PlanPois(n), n)
      BY <2>1, <3>1 DEF DayInv
    <3>3. pois \in Seq(Places)
      BY <3>1 DEF MergedFairly
    <3>4. /\ FlattenSeq(days) = SubSeq(pois, 1, Len(FlattenSeq(days)))
          /\ Len(FlattenSeq(days)) \in 0..Len(pois)
      BY <3>2, <3>3, DraftTiles
    <3>5. PICK p \in DOMAIN pois : p <= i /\ pois[p] = buckets[i][1]
      BY <2>3, <3>1 DEF MergedFairly
    <3>6. i \in Nat
      <4>1. buckets \in Seq(Seq(Places))
        BY <2>1 DEF DayInv
      <4>2. QED
        BY <2>3, <4>1
    <3>7. PICK k \in Nat : k = Len(FlattenSeq(days)) /\ k <= Len(pois)
      <4>1. \A k \in 0..Len(pois) : k \in Nat /\ k <= Len(pois)
        BY <3>3
      <4>2. QED
        BY <3>4, <4>1, Zenon
    <3>8. p \in 1..k
      BY <2>3, <3>3, <3>5, <3>6, <3>7
    <3>9. FlattenSeq(days) = SubSeq(pois, 1, k)
      BY <3>4, <3>7, Zenon
    <3>10. FlattenSeq(days)[p] = pois[p]
      BY <3>3, <3>7, <3>8, <3>9
    <3>11. QED
      BY <3>5, <3>7, <3>8, <3>10 DEF Contains
  <2>4. QED
    BY <2>2, <2>3 DEF MergeIsFair
<1>2. QED
  BY <1>1, DayAlways, PTL
=============================================================================
