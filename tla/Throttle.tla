-------------------------------- MODULE Throttle --------------------------------
(***************************************************************************)
(* Lookups of a place at the public geocoder (geocode.py), spaced by       *)
(* acquire_slot (throttle.py): a Redis key set with NX and an expiry, or,  *)
(* when Redis does not answer, a clock of the process alone.  The slot is  *)
(* asked for once per lookup; request_json (_http.py) may then try three   *)
(* times.  Time passes in ticks of half a second.                          *)
(***************************************************************************)
EXTENDS Naturals, FiniteSets

CONSTANTS
    Lookups,       \* lookups that may be under way at a time
    Workers,       \* worker processes
    WorkerOf,      \* [Lookups -> Workers]
    Interval,      \* interval_s, in ticks
    MaxWait,       \* max_wait_s, in ticks
    Attempts,      \* stop_after_attempt
    Outages        \* may commands of Redis fail?

ASSUME ThrottleAssumption ==
    /\ IsFiniteSet(Lookups)
    /\ WorkerOf \in [Lookups -> Workers] /\ "redis" \notin Workers
    /\ Interval \in Nat \ {0} /\ MaxWait \in Nat /\ Attempts \in Nat \ {0}
    /\ Outages \in BOOLEAN

VARIABLES
    slot,          \* ticks until throttle:{name} expires, 0 when it is not set
    next,          \* per process: ticks until _LOCAL_NEXT
    lookup,        \* per lookup: where it is, its sleep, its wait so far, its attempt
    granted        \* per source of slots: ticks since it last granted one, an interval at most

throttleVars == <<slot, next, lookup, granted>>

-----------------------------------------------------------------------------
Shared == "redis"
Sources == {Shared} \cup Workers
Away == [pc |-> "idle", sleep |-> 0, waited |-> 0, attempt |-> 0]

ThrottleInit ==
    /\ slot = 0 /\ next = [w \in Workers |-> 0]
    /\ lookup = [l \in Lookups |-> Away]
    /\ granted = [s \in Sources |-> Interval]

Doing(l, pc) == lookup[l].pc = pc
Does(l, pc) == lookup' = [lookup EXCEPT ![l].pc = pc]
Ends(l) == lookup' = [lookup EXCEPT ![l] = Away]
Least(a, b) == IF a < b THEN a ELSE b
AtLeast(a, b) == IF a > b THEN a ELSE b
Quarter == AtLeast(1, Interval \div 4)

Granted(l, by) ==
    /\ lookup' = [lookup EXCEPT ![l].pc = "granted", ![l].waited = 0]
    /\ granted' = [granted EXCEPT ![by] = 0]

\* The breaker was closed when asked; the deadline starts here.
Seek(l) ==
    /\ Doing(l, "idle") /\ Does(l, "asking")
    /\ UNCHANGED <<slot, next, granted>>

\* SET NX PX.
Grab(l) ==
    /\ Doing(l, "asking") /\ slot = 0
    /\ slot' = Interval /\ Granted(l, Shared)
    /\ UNCHANGED next

Taken(l) ==
    /\ Doing(l, "asking") /\ slot > 0
    /\ Does(l, "taken")
    /\ UNCHANGED <<slot, next, granted>>

\* Mutant: a waiter sleeps as long as the slot is held, whatever is left of its budget.
WaitOutSlot(l) ==
    /\ Doing(l, "taken")
    /\ lookup' = [lookup EXCEPT ![l].pc = "waiting", ![l].sleep = AtLeast(slot, Quarter)]
    /\ UNCHANGED <<slot, next, granted>>

\* PTTL, a command of its own: the key may have expired since, or another hold it.
WaitForSlot(l) ==
    /\ Doing(l, "taken")
    /\ IF lookup[l].waited >= MaxWait THEN Ends(l)       \* ThrottledError
       ELSE lookup' = [lookup EXCEPT ![l].pc = "waiting",
                ![l].sleep = Least(MaxWait - lookup[l].waited, IF slot > 0 THEN slot ELSE Quarter)]
    /\ UNCHANGED <<slot, next, granted>>

Wake(l) ==
    /\ Doing(l, "waiting") /\ lookup[l].sleep = 0
    /\ Does(l, "asking")
    /\ UNCHANGED <<slot, next, granted>>

-----------------------------------------------------------------------------
\* _local_slot: the next free time of this process, however far away.
Queues(l) ==
    LET w == WorkerOf[l] IN
    /\ lookup' = [lookup EXCEPT ![l].pc = "local", ![l].sleep = next[w]]
    /\ next' = [next EXCEPT ![w] = @ + Interval]

\* Mutant: the time of the next local call is not moved on by one that must wait.
FallBackUnqueued(l) ==
    /\ Outages /\ Doing(l, "asking")
    /\ lookup' = [lookup EXCEPT ![l].pc = "local", ![l].sleep = next[WorkerOf[l]]]
    /\ next' = [next EXCEPT ![WorkerOf[l]] = AtLeast(@, Interval)]
    /\ UNCHANGED <<slot, granted>>

FallBack(l) ==
    /\ Outages /\ lookup[l].pc \in {"asking", "taken"}
    /\ Queues(l)
    /\ UNCHANGED <<slot, granted>>

\* SET took the slot, and its reply was lost.
SetUnanswered(l) ==
    /\ Outages /\ Doing(l, "asking") /\ slot = 0
    /\ slot' = Interval
    /\ Queues(l)
    /\ UNCHANGED granted

LocalTurn(l) ==
    /\ Doing(l, "local") /\ lookup[l].sleep = 0
    /\ Granted(l, WorkerOf[l])
    /\ UNCHANGED <<slot, next>>

-----------------------------------------------------------------------------
\* request_json: a call, and up to Attempts of them with a backoff that doubles.

CallUpstream(l) ==
    /\ Doing(l, "granted") \/ (Doing(l, "backoff") /\ lookup[l].sleep = 0)
    /\ Does(l, "calling")
    /\ UNCHANGED <<slot, next, granted>>

\* Another caller is probing the breaker: the slot goes unused.
NotTheProbe(l) ==
    /\ Doing(l, "granted") /\ Ends(l)
    /\ UNCHANGED <<slot, next, granted>>

\* An answer, a 429, an error that is not retried.
Concluded(l) ==
    /\ Doing(l, "calling") /\ Ends(l)
    /\ UNCHANGED <<slot, next, granted>>

\* A timeout or a status that is: after the last attempt it is raised (Concluded).
Transient(l) ==
    /\ Doing(l, "calling") /\ lookup[l].attempt + 1 < Attempts
    /\ lookup' = [lookup EXCEPT ![l].pc = "backoff", ![l].attempt = @ + 1,
                                ![l].sleep = 2 ^ lookup[l].attempt]
    /\ UNCHANGED <<slot, next, granted>>

-----------------------------------------------------------------------------
Less(n) == IF n = 0 THEN 0 ELSE n - 1
More(n) == Least(n + 1, Interval)

\* A sleeper wakes when its sleep is over, and no await of Redis lasts a tick.
Due(l) == \/ lookup[l].pc \in {"asking", "taken", "granted"}
          \/ lookup[l].pc \in {"waiting", "local", "backoff"} /\ lookup[l].sleep = 0

OneTickLater(c) ==
    [c EXCEPT !.sleep = Less(@),
              !.waited = IF c.pc \in {"waiting", "local"} THEN @ + 1 ELSE @]

ThrottleTick ==
    /\ \A l \in Lookups : ~Due(l)
    /\ slot' = Less(slot) /\ next' = [w \in Workers |-> Less(next[w])]
    /\ lookup' = [l \in Lookups |-> OneTickLater(lookup[l])]
    /\ granted' = [s \in Sources |-> More(granted[s])]

SlotStep(l) == \/ Seek(l) \/ Grab(l) \/ Taken(l) \/ WaitForSlot(l) \/ Wake(l)
               \/ FallBack(l) \/ SetUnanswered(l) \/ LocalTurn(l)
CallStep(l) == CallUpstream(l) \/ NotTheProbe(l) \/ Concluded(l) \/ Transient(l)

ThrottleNext == \/ \E l \in Lookups : SlotStep(l) \/ CallStep(l)
                \/ ThrottleTick

ThrottleSpec == ThrottleInit /\ [][ThrottleNext]_throttleVars

-----------------------------------------------------------------------------
GrantBy(l) == IF Doing(l, "local") THEN WorkerOf[l] ELSE Shared

(* However Redis comes and goes, the shared slot and each process's own are  *)
(* granted no sooner than an interval after the last time.                   *)
SlotsSpaced ==
    [][\A l \in Lookups : ~Doing(l, "granted") /\ Doing(l, "granted")'
                             => granted[GrantBy(l)] >= Interval]_throttleVars

(* A lookup that waits on the shared slot gives up within its budget; one    *)
(* that fell back waits for those of its process that did so before it.      *)
WaitsBounded ==
    \A l \in Lookups :
        /\ lookup[l].pc \in {"asking", "taken", "waiting"} => lookup[l].waited <= MaxWait
        /\ lookup[l].waited <= MaxWait + Interval * Cardinality(Lookups)
=============================================================================
