------------------------------- MODULE RateLimit -------------------------------
(***************************************************************************)
(* Admission of one caller's requests (ratelimit.py, main.py): a request   *)
(* passes every scope's fixed window in turn.  A window is a Redis counter *)
(* whose TTL is set by a second command after the first INCR, or, when     *)
(* Redis fails, a counter of the API process.  Time passes in ticks, also  *)
(* between the two commands.                                               *)
(***************************************************************************)
EXTENDS Naturals, Sequences, FiniteSets

CONSTANTS
    Requests,     \* request handlers of the caller under way at a time
    Procs,        \* API processes
    ProcOf,       \* [Requests -> Procs]
    Checks,       \* the scopes in the order _enforce_rate_limit tries them
    Limit,        \* [scope -> its limit], 0 to disable it
    Window,       \* [scope -> its window, in ticks]
    LocalMax,     \* _LOCAL_MAX_KEYS
    Faults        \* which commands may fail: "incr", "lost_reply", "expire"

Scopes == {Checks[i] : i \in DOMAIN Checks}

ASSUME RateLimitAssumption ==
    /\ ProcOf \in [Requests -> Procs] /\ "redis" \notin Procs
    /\ Checks \in Seq(Scopes) /\ Checks # <<>>
    /\ Limit \in [Scopes -> Nat] /\ Window \in [Scopes -> Nat \ {0}]
    /\ LocalMax \in Nat
    /\ Faults \subseteq {"incr", "lost_reply", "expire"}

VARIABLES
    key,       \* per scope: the Redis counter and its TTL
    local,     \* per process and scope: an entry of _LOCAL
    request    \* per handler: where it stands, and how it passed each scope

vars == <<key, local, request>>

-----------------------------------------------------------------------------
(* ttl: ticks left, or Forever for a key that does not expire: INCR of a     *)
(* missing key makes one.  A local window's age stops at its length.         *)

Forever == 0
NoKey == [count |-> 0, ttl |-> Forever]
NoEntry == [count |-> 0, age |-> 0]
Ended(s) == [count |-> 0, age |-> Window[s]]
LongAgo(s) == [by |-> "nobody", age |-> Window[s]]

Idle == [pc |-> "idle", check |-> 1, passed |-> [s \in Scopes |-> LongAgo(s)]]

Init ==
    /\ key = [s \in Scopes |-> NoKey]
    /\ local = [p \in Procs |-> [s \in Scopes |-> NoEntry]]
    /\ request = [q \in Requests |-> Idle]

At(q, pc) == request[q].pc = pc
ScopeOf(q) == Checks[request[q].check]
Goto(q, pc, check) == [pc |-> pc, check |-> check, passed |-> request[q].passed]

-----------------------------------------------------------------------------
\* Whether the count is within the limit; the pass is remembered with its time.
Verdict(q, count, by) ==
    LET s == ScopeOf(q) IN
    request' = [request EXCEPT ![q] =
        IF count > Limit[s] THEN Goto(q, "refused", @.check)
        ELSE [pc |-> "passed", check |-> @.check,
              passed |-> [@.passed EXCEPT ![s] = [by |-> by, age |-> 0]]]]

Arrive(q) ==
    /\ At(q, "idle")
    /\ request' = [request EXCEPT ![q] = Goto(q, "counting", 1)]
    /\ UNCHANGED <<key, local>>

\* A limit of 0 disables the check.
SkipDisabled(q) ==
    /\ At(q, "counting") /\ Limit[ScopeOf(q)] = 0
    /\ request' = [request EXCEPT ![q] = Goto(q, "passed", @.check)]
    /\ UNCHANGED <<key, local>>

\* Bound: a count beyond the limit stands for every larger one.
Capped(s, count) == IF count > Limit[s] THEN Limit[s] + 1 ELSE count

\* Mutant: windows are forgotten whether or not they have ended.
PrunedAll(entries) == [s \in Scopes |-> NoEntry]

\* Too many keys: the windows that have ended are forgotten.
Pruned(entries) ==
    IF Cardinality({s \in Scopes : entries[s] # NoEntry}) > LocalMax
    THEN [s \in Scopes |-> IF entries[s].age >= Window[s] THEN NoEntry ELSE entries[s]]
    ELSE entries

\* _local_incr: an ended window starts over.
CountLocally(q) ==
    LET s == ScopeOf(q)
        p == ProcOf[q]
        kept == Pruned(local[p])
        entry == IF kept[s].age >= Window[s] THEN NoEntry ELSE kept[s]
        count == Capped(s, entry.count + 1)
    IN  /\ local' = [local EXCEPT ![p] = [kept EXCEPT ![s] = [count |-> count, age |-> entry.age]]]
        /\ Verdict(q, count, p)

Counting(q) == At(q, "counting") /\ Limit[ScopeOf(q)] > 0

Counted(s) == Capped(s, key[s].count + 1)
Hit(s) == key' = [key EXCEPT ![s] = [count |-> Counted(s), ttl |-> @.ttl]]

\* Mutant: every hit sets the TTL again.
IncrRenewing(q) ==
    LET s == ScopeOf(q) IN
    /\ Counting(q)
    /\ key' = [key EXCEPT ![s] = [count |-> Counted(s), ttl |-> Window[s]]]
    /\ Verdict(q, Counted(s), "redis")
    /\ UNCHANGED local

\* INCR; the first hit of a window goes on to set its TTL.
Incr(q) ==
    LET s == ScopeOf(q) IN
    /\ Counting(q)
    /\ Hit(s)
    /\ IF key[s].count = 0
       THEN request' = [request EXCEPT ![q] = Goto(q, "expiring", @.check)]
       ELSE Verdict(q, Counted(s), "redis")
    /\ UNCHANGED local

Expire(q) ==
    LET s == ScopeOf(q) IN
    /\ At(q, "expiring")
    /\ key' = [key EXCEPT ![s] = IF @ = NoKey THEN @
                                    ELSE [count |-> @.count, ttl |-> Window[s]]]
    /\ Verdict(q, 1, "redis")
    /\ UNCHANGED local

\* Redis cannot be reached, or its reply cannot.
IncrFails(q) ==
    /\ Counting(q)
    /\ \/ "incr" \in Faults /\ UNCHANGED key
       \/ "lost_reply" \in Faults /\ Hit(ScopeOf(q))
    /\ CountLocally(q)

ExpireFails(q) ==
    /\ At(q, "expiring") /\ "expire" \in Faults
    /\ CountLocally(q)
    /\ UNCHANGED key

\* The next scope, or the run is created.
Proceed(q) ==
    /\ At(q, "passed")
    /\ request' = [request EXCEPT ![q] =
          IF @.check < Len(Checks) THEN Goto(q, "counting", @.check + 1)
          ELSE Goto(q, "admitted", @.check)]
    /\ UNCHANGED <<key, local>>

\* The handler answers.  Bound: it stands for no other request before the windows it
\* passed are behind it.
Answer(q) ==
    /\ request[q].pc \in {"admitted", "refused"}
    /\ \A s \in Scopes : request[q].passed[s].age = Window[s]
    /\ request' = [request EXCEPT ![q] = Idle]
    /\ UNCHANGED <<key, local>>

-----------------------------------------------------------------------------
\* One tick later.  What has ended is remembered only as having ended.
LaterKey(k) ==
    IF k.ttl = Forever THEN k
    ELSE IF k.ttl = 1 THEN NoKey ELSE [count |-> k.count, ttl |-> k.ttl - 1]
LaterEntry(s, e) ==
    IF e = NoEntry THEN NoEntry
    ELSE IF e.age + 1 >= Window[s] THEN Ended(s) ELSE [count |-> e.count, age |-> e.age + 1]
LaterPass(s, p) ==
    IF p.age + 1 >= Window[s] THEN LongAgo(s) ELSE [by |-> p.by, age |-> p.age + 1]

Tick ==
    /\ key' = [s \in Scopes |-> LaterKey(key[s])]
    /\ local' = [p \in Procs |-> [s \in Scopes |-> LaterEntry(s, local[p][s])]]
    /\ request' = [q \in Requests |->
                     [pc |-> request[q].pc, check |-> request[q].check,
                      passed |-> [s \in Scopes |-> LaterPass(s, request[q].passed[s])]]]

Handler(q) ==
    \/ Arrive(q) \/ SkipDisabled(q) \/ Incr(q) \/ Expire(q) \/ IncrFails(q) \/ ExpireFails(q)
    \/ Proceed(q) \/ Answer(q)

Next == Tick \/ \E q \in Requests : Handler(q)

Spec == Init /\ [][Next]_vars

\* Time passes and a handler that set a window on its way finishes.
FairSpec == Spec /\ WF_vars(Tick) /\ \A q \in Requests : WF_vars(Expire(q))

-----------------------------------------------------------------------------
TypeOK ==
    /\ \A s \in Scopes : /\ key[s].count \in 0..(Limit[s] + 1)
                         /\ key[s].ttl \in {Forever} \cup 1..Window[s]
    /\ \A p \in Procs, s \in Scopes : /\ local[p][s].age \in 0..Window[s]
                                      /\ local[p][s].count \in 0..(Limit[s] + 1)
    /\ \A q \in Requests :
          /\ request[q].pc \in {"idle", "counting", "expiring", "passed", "admitted", "refused"}
          /\ request[q].check \in DOMAIN Checks

\* Those who passed scope s within the last Window[s] ticks, counted by `by`.
Lately(s, by) ==
    {q \in Requests : request[q].passed[s].by = by /\ request[q].passed[s].age < Window[s]}

\* In no stretch of one window's length do more than two windows' worth of requests
\* pass a scope by the same counter, Redis or one process, whatever fails in between
\* and however the two are mixed (ratelimit.py:75-121).
BurstBounded ==
    \A s \in Scopes : Limit[s] > 0 =>
        \A by \in {"redis"} \cup Procs : Cardinality(Lately(s, by)) <= 2 * Limit[s]

\* A window is fixed: once it has its TTL no request, admitted or refused, delayed
\* between its two commands or counted in another process, prolongs it; a caller that
\* keeps trying is let in again when it ends (ratelimit.py:78-80).
WindowFixed ==
    [][\A s \in Scopes : key[s].ttl # Forever =>
          key'[s] = NoKey \/ key'[s].ttl \in 1..key[s].ttl]_vars

\* "A Redis error never becomes a service outage" (ratelimit.py:19): a caller refused
\* by a window is not refused by it for good.
RefusalsEnd == \A s \in Scopes : (key[s].count > Limit[s]) ~> (key[s].count <= Limit[s])
=============================================================================
