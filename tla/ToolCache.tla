-------------------------------- MODULE ToolCache --------------------------------
(***************************************************************************)
(* cache_aside (cache.py) as the tools use it: a read of a versioned key,  *)
(* the upstream call on a miss, and a store whose failure is ignored, with *)
(* an await at each and other callers of the same key in between.          *)
(***************************************************************************)
EXTENDS Naturals, FiniteSets

CONSTANTS
    Tools,         \* one key of each
    Callers,
    Answers,       \* what the upstream may say, Empty among them
    Empty,
    Ttl,           \* [Tools -> ticks]
    EmptyTtl,      \* [Tools -> ticks], empty_ttl where cache_empty is set, 0 where it is not
    LastVersion    \* bound on the bumps of the version prefix

ASSUME CacheAssumption ==
    /\ Empty \in Answers
    /\ Ttl \in [Tools -> Nat \ {0}] /\ EmptyTtl \in [Tools -> Nat]
    /\ LastVersion \in Nat

VARIABLES
    truth,         \* per tool: what its upstream says now
    version,       \* cache_version()
    store,         \* per version and tool: the entry in Redis
    caller         \* per caller: where it is, its key, its answer and the answer's age

cacheVars == <<truth, version, store, caller>>

-----------------------------------------------------------------------------
Versions == 0..LastVersion
CacheKeys == Versions \X Tools
NotStored == [value |-> "nothing", age |-> 0, left |-> 0]
NoCaller == [pc |-> "idle", key |-> <<>>, cached |-> FALSE, value |-> Empty, age |-> 0]

CacheInit ==
    /\ truth = [t \in Tools |-> Empty] /\ version = 0
    /\ store = [k \in CacheKeys |-> NotStored]
    /\ caller = [c \in Callers |-> NoCaller]

Stands(c, pc) == caller[c].pc = pc
ToolOf(c) == caller[c].key[2]
CallerGoes(c, pc) == caller' = [caller EXCEPT ![c].pc = pc]

\* The caller has a value that was the upstream's answer age ticks ago.
HasAnswer(c, pc, value, age) ==
    caller' = [caller EXCEPT ![c] = [pc |-> pc, key |-> @.key, cached |-> @.cached,
                                     value |-> value, age |-> age]]

-----------------------------------------------------------------------------
\* The breaker lets the caller try Redis, or not: then nothing is stored either.
Call(c, t) ==
    /\ Stands(c, "idle")
    /\ \E tries \in BOOLEAN :
        caller' = [caller EXCEPT ![c] = [pc |-> IF tries THEN "reading" ELSE "computing",
                                         key |-> <<version, t>>, cached |-> tries,
                                         value |-> Empty, age |-> 0]]
    /\ UNCHANGED <<truth, version, store>>

\* A hit that validates; an empty answer that is stored is one.
CacheHit(c) ==
    LET entry == store[caller[c].key] IN
    /\ Stands(c, "reading") /\ entry.value \in Answers
    /\ HasAnswer(c, "answered", entry.value, entry.age)
    /\ UNCHANGED <<truth, version, store>>

\* A miss, an entry that does not validate, an error: the client stays, to store.
MissOrError(c) ==
    /\ Stands(c, "reading")
    /\ CallerGoes(c, "computing")
    /\ UNCHANGED <<truth, version, store>>

\* The factory answers; an empty answer is stored only where the tool asked for it.
Compute(c) ==
    LET value == truth[ToolOf(c)]
        stores == caller[c].cached /\ (value # Empty \/ EmptyTtl[ToolOf(c)] > 0)
    IN  /\ Stands(c, "computing")
        /\ HasAnswer(c, IF stores THEN "storing" ELSE "answered", value, 0)
        /\ UNCHANGED <<truth, version, store>>

\* It raises: nothing is stored, and the caller raises.
ComputeRaises(c) ==
    /\ Stands(c, "computing") /\ caller' = [caller EXCEPT ![c] = NoCaller]
    /\ UNCHANGED <<truth, version, store>>

\* Mutant: an empty answer lives as long as any other.
LifeOfAny(t, value) == Ttl[t]

LifeOf(t, value) == IF value = Empty THEN EmptyTtl[t] ELSE Ttl[t]

\* SET EX, which overwrites; its failure is suppressed.
Store(c) ==
    /\ Stands(c, "storing")
    /\ \/ store' = [store EXCEPT ![caller[c].key] =
                        [value |-> caller[c].value, age |-> caller[c].age,
                         left |-> LifeOf(ToolOf(c), caller[c].value)]]
       \/ UNCHANGED store
    /\ CallerGoes(c, "answered")
    /\ UNCHANGED <<truth, version>>

Leave(c) ==
    /\ Stands(c, "answered") /\ caller' = [caller EXCEPT ![c] = NoCaller]
    /\ UNCHANGED <<truth, version, store>>

-----------------------------------------------------------------------------
\* The world: the upstream learns or forgets a place, an entry no
\* longer validates (it is read as none is, until it is overwritten) or is evicted, a
\* version is bumped.
TruthChanges(t) ==
    /\ truth' \in [Tools -> Answers] /\ truth' # truth /\ \A u \in Tools \ {t} : truth'[u] = truth[u]
    /\ UNCHANGED <<version, store, caller>>

FormChanges(k) ==
    /\ store[k].value \in Answers
    /\ store' = [store EXCEPT ![k] = NotStored]
    /\ UNCHANGED <<truth, version, caller>>

Bump ==
    /\ version < LastVersion /\ version' = version + 1
    /\ UNCHANGED <<truth, store, caller>>

Aged(entry) == IF entry.left <= 1 THEN NotStored
               ELSE [entry EXCEPT !.age = @ + 1, !.left = @ - 1]

\* No await of Redis lasts a tick; a factory may.
CacheTick ==
    /\ \A c \in Callers : caller[c].pc \in {"idle", "computing"}
    /\ store' = [k \in CacheKeys |-> Aged(store[k])]
    /\ UNCHANGED <<truth, version, caller>>

CallerStep(c) == \/ \E t \in Tools : Call(c, t)
                 \/ CacheHit(c) \/ MissOrError(c) \/ Compute(c) \/ ComputeRaises(c) \/ Store(c) \/ Leave(c)

CacheNext == \/ \E c \in Callers : CallerStep(c)
             \/ \E t \in Tools : TruthChanges(t)
             \/ \E k \in CacheKeys : FormChanges(k)
             \/ Bump \/ CacheTick

CacheSpec == CacheInit /\ [][CacheNext]_cacheVars

-----------------------------------------------------------------------------
(* Whoever fills the cache when, an answer is never older than its kind may  *)
(* be: "no such place" a day where a place is a month, and an empty answer   *)
(* of a tool that does not cache them is never older than the call.          *)
AnswersFresh ==
    \A c \in Callers : Stands(c, "answered") /\ caller[c].age > 0
        => caller[c].age < IF caller[c].value = Empty THEN EmptyTtl[ToolOf(c)] ELSE Ttl[ToolOf(c)]
=============================================================================
