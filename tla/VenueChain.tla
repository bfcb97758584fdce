------------------------------ MODULE VenueChain ------------------------------
(***************************************************************************)
(* LLMGateway.complete: the cities of one run walk a chain of venues, each *)
(* venue behind a leg of the circuit breaker of the run's gateway, which   *)
(* plan and plan_trip build anew.  Between two awaits nothing else runs,   *)
(* so skipping open legs up to the next call is one step with the outcome  *)
(* that led to it.                                                         *)
(***************************************************************************)
EXTENDS CircuitBreaker, FiniteSets, Sequences

CONSTANTS
    Venues,
    Legs,        \* the venues of the chain, in order (parse_chain), for every tier
    Configured,  \* the venues an adapter was built for
    Walkers,     \* the cities of the run, planned at once
    MaxCalls,    \* bound: the calls of complete a city makes
    SlowVenues   \* the venues whose calls (60 s) may outlast cooldown_s (30 s)

ASSUME ChainAssumption ==
    /\ Legs \in Seq(Venues)
    /\ \A i, j \in DOMAIN Legs : Legs[i] = Legs[j] => i = j
    /\ Configured \subseteq Venues
    /\ IsFiniteSet(Walkers)
    /\ MaxCalls \in Nat
    /\ SlowVenues \subseteq Venues

\* _resolve_chain: a leg whose adapter is missing is skipped, the others keep their order.
Rungs == {k \in DOMAIN Legs : Legs[k] \in Configured}

VARIABLES
    circuit,  \* [Venues -> Leg]: CircuitBreaker._legs
    walk,     \* per city: outcome so far, leg being called, whether that is its probe
    made,     \* per city: the calls of complete so far
    since     \* history, per venue: calls begun and cooldowns over since its last answer

chainVars == <<circuit, walk, made, since>>

AtVenue(r) == walk[r].at = "calling"
VenueOf(r) == Legs[walk[r].rung]

Unasked == [calls |-> 0, coolings |-> 0]

ChainInit ==
    /\ circuit = [v \in Venues |-> NewLeg]
    /\ walk = [r \in Walkers |-> [at |-> "new", rung |-> 0, probe |-> FALSE]]
    /\ made = [r \in Walkers |-> 0]
    /\ since = [v \in Venues |-> Unasked]

EndWalk(r, outcome) ==
    walk' = [walk EXCEPT ![r] = [at |-> outcome, rung |-> 0, probe |-> FALSE]]

\* The loop from rung i on, over the legs as they now are: the first one that
\* allows a call gets it; without one the request is exhausted.
WalkFrom(r, legs, i) ==
    LET willing == {k \in Rungs : k >= i /\ Allows(legs[Legs[k]])} IN
    \/ willing = {} /\ circuit' = legs /\ EndWalk(r, "exhausted") /\ UNCHANGED since
    \/ \E k \in willing :
          /\ \A l \in willing : k <= l
          /\ circuit' = [legs EXCEPT ![Legs[k]] = Claimed(legs[Legs[k]])]
          /\ walk' = [walk EXCEPT ![r] =
                [at |-> "calling", rung |-> k, probe |-> State(legs[Legs[k]]) = "half_open"]]
          /\ since' = [since EXCEPT ![Legs[k]].calls = @ + 1]

\* compose_node or critic_node asks for a completion: the first time, or after an
\* answer (what complete raises, the node raises, and the city is over).
StartWalk(r) ==
    /\ walk[r].at \in {"new", "answered"}
    /\ made[r] < MaxCalls
    /\ made' = [made EXCEPT ![r] = @ + 1]
    /\ WalkFrom(r, circuit, 1)

Answer(r) ==
    /\ AtVenue(r)
    /\ circuit' = [circuit EXCEPT ![VenueOf(r)] = RecordSuccess]
    /\ since' = [since EXCEPT ![VenueOf(r)] = Unasked]
    /\ EndWalk(r, "answered")
    /\ UNCHANGED made

\* RetryableProviderError or TimeoutError: the failure is counted and the next leg tried.
FallBack(r) ==
    /\ AtVenue(r)
    /\ WalkFrom(r, [circuit EXCEPT ![VenueOf(r)] = RecordFailure(circuit[VenueOf(r)])],
            walk[r].rung + 1)
    /\ UNCHANGED made

\* NonRetryableProviderError (a 400, a 401, a 404), or a CancelledError when the task
\* meets its soft time limit: complete raises, and the breaker hears nothing.
Refuse(r) ==
    /\ AtVenue(r)
    /\ EndWalk(r, "refused")
    /\ UNCHANGED <<circuit, made, since>>

VenueCools(v) ==
    /\ circuit[v].opened = "cooling"
    /\ v \in SlowVenues \/ \A r \in Walkers : ~(AtVenue(r) /\ VenueOf(r) = v)
    /\ circuit' = [circuit EXCEPT ![v] = Cooled(circuit[v])]
    /\ since' = [since EXCEPT ![v].coolings = @ + 1]
    /\ UNCHANGED <<walk, made>>

ChainNext ==
    \/ \E r \in Walkers : StartWalk(r) \/ Answer(r) \/ FallBack(r) \/ Refuse(r)
    \/ \E v \in Venues : VenueCools(v)

ChainSpec == ChainInit /\ [][ChainNext]_chainVars

-----------------------------------------------------------------------------
ProbesVenue(r, v) == AtVenue(r) /\ walk[r].probe /\ VenueOf(r) = v

\* A probe that was taken and that nobody is going to report: the venue is not called
\* again in this run, unless a call that began before the leg opened reports.
Orphaned(v) == circuit[v].probing /\ \A r \in Walkers : ~ProbesVenue(r, v)

\* A venue loses its probe in one way only, and any venue can: the probe itself is
\* refused or cancelled, which complete does not tell the breaker.  No failure, no
\* answer, no late report of another call and no walk past the leg loses it.
OnlyRefusalOrphans ==
    [][\A v \in Venues : Orphaned(v)' =>
          Orphaned(v) \/ \E r \in Walkers : ProbesVenue(r, v) /\ Refuse(r)]_chainVars

\* "HALF_OPEN admits exactly ONE caller: the first one flips `probing`, and everyone
\* else is refused until that probe reports back" (circuit.py): so it is for a venue
\* whose calls end within the cooldown.
OneProbePerVenue ==
    \A v \in Venues \ SlowVenues : \A r, q \in Walkers : ProbesVenue(r, v) /\ ProbesVenue(q, v) => r = q

\* "The breaker converts `down` from a per-request cost into a one-off cost paid once
\* per cooldown window" (circuit.py): while a venue answers nobody, a run pays for
\* the calls that open its leg, those already on their way, and one per cooldown.
DeadVenueIsCheap ==
    \A v \in Venues :
        since[v].calls <= Threshold + Cardinality(Walkers) - 1 + since[v].coolings
=============================================================================
