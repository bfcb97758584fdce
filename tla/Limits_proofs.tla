------------------------------ MODULE Limits_proofs ------------------------------
(***************************************************************************)
(* What the two limiters promise, for any of their constants and failures. *)
(* A request limiter's window is fixed, and no more than two windows'      *)
(* worth pass in any stretch of one window's length: INCR and EXPIRE are   *)
(* two commands, but only the INCR that made the key goes on to EXPIRE, so *)
(* the key it comes back to is still its own, without a TTL.               *)
(*                                                                         *)
(* The throttle's slots are spaced and its waits are bounded: the          *)
(* invariant of the first says how far away the next grant of each source  *)
(* is: the shared one's as long as its key lives, a process's as long as   *)
(* its first sleeper sleeps; and that the sleepers of one process are an   *)
(* interval apart.  That of the second says that they are no further.      *)
(***************************************************************************)
EXTENDS RateLimit, Throttle, Integers, FiniteSetTheorems, TLAPS

-----------------------------------------------------------------------------
(* The request limiter (RateLimit).                                        *)

Stages == {"idle", "counting", "expiring", "passed", "admitted", "refused"}
Pass == [by: {"nobody", "redis"} \cup Procs, age: Nat]
RequestType == [pc: Stages, check: DOMAIN Checks, passed: [Scopes -> Pass]]

TypeInv ==
    /\ key \in [Scopes -> [count: Nat, ttl: Nat]]
    /\ local \in [Procs -> [Scopes -> [count: Nat, age: Nat]]]
    /\ request \in [Requests -> RequestType]
    /\ TypeOK

\* Whoever is about to set a TTL finds a key that has none and is nobody else's to set;
\* and a key that does not exist has no TTL.
SetterInv ==
    /\ \A q \in Requests : At(q, "expiring") =>
          key[ScopeOf(q)].count > 0 /\ key[ScopeOf(q)].ttl = Forever
    /\ \A q, r \in Requests : At(q, "expiring") /\ At(r, "expiring") /\ q # r =>
          ScopeOf(q) # ScopeOf(r)
    /\ \A s \in Scopes : key[s].count = 0 => key[s].ttl = Forever

WindowInv == TypeInv /\ SetterInv

-----------------------------------------------------------------------------
(* The data. *)

\* A handler is at a check of some scope.
LEMMA CheckOfScope ==
  ASSUME TypeInv, NEW q \in Requests
  PROVE  ScopeOf(q) \in Scopes /\ request[q].check \in DOMAIN Checks
BY DEF TypeInv, RequestType, ScopeOf, Scopes

\* A capped count is positive and exceeds the limit by one at most.
LEMMA CappedCount ==
  ASSUME NEW s \in Scopes, NEW count \in Nat
  PROVE  /\ Capped(s, count + 1) \in Nat /\ Capped(s, count + 1) > 0
         /\ Capped(s, count + 1) <= Limit[s] + 1
BY RateLimitAssumption DEF Capped

\* What the handler of one request does to the requests.
HandlerMoves(q) ==
    /\ request' \in [Requests -> RequestType]
    /\ \A r \in Requests \ {q} : request'[r] = request[r]

\* A handler that goes on changes nothing but its place.
LEMMA GotoMoves ==
  ASSUME TypeInv, NEW q \in Requests, NEW pc \in Stages, NEW check \in DOMAIN Checks,
         request' = [request EXCEPT ![q] = Goto(q, pc, check)]
  PROVE  HandlerMoves(q) /\ request'[q].pc = pc /\ request'[q].check = check
<1>1. Goto(q, pc, check) \in RequestType
  BY DEF Goto, RequestType, TypeInv
<1> QED BY <1>1 DEF HandlerMoves, TypeInv, Goto

\* A handler that is judged is refused or has passed.
LEMMA VerdictMoves ==
  ASSUME TypeInv, NEW q \in Requests, NEW count, NEW by \in {"redis"} \cup Procs,
         Verdict(q, count, by)
  PROVE  HandlerMoves(q) /\ request'[q].pc \in {"refused", "passed"}
<1> DEFINE s == ScopeOf(q)
           new == [pc |-> "passed", check |-> request[q].check,
                   passed |-> [request[q].passed EXCEPT ![s] = [by |-> by, age |-> 0]]]
<1>1. CASE request' = [request EXCEPT ![q] = Goto(q, "refused", request[q].check)]
  BY <1>1, CheckOfScope, GotoMoves DEF Stages
<1>2. CASE request' = [request EXCEPT ![q] = new]
  <2>1. new \in RequestType
    BY CheckOfScope DEF RequestType, TypeInv, Stages, Pass
  <2> QED BY <1>2, <2>1 DEF HandlerMoves, TypeInv
<1> QED BY <1>1, <1>2 DEF Verdict

KeyType ==
    /\ key \in [Scopes -> [count: Nat, ttl: Nat]]
    /\ \A s \in Scopes : /\ key[s].count \in 0..(Limit[s] + 1)
                         /\ key[s].ttl \in {Forever} \cup 1..Window[s]

LocalType ==
    /\ local \in [Procs -> [Scopes -> [count: Nat, age: Nat]]]
    /\ \A p \in Procs, s \in Scopes : /\ local[p][s].age \in 0..Window[s]
                                      /\ local[p][s].count \in 0..(Limit[s] + 1)

\* TypeInv by the variables.
LEMMA Typed == TypeInv <=> KeyType /\ LocalType /\ request \in [Requests -> RequestType]
BY DEF TypeInv, KeyType, LocalType, TypeOK, RequestType, Stages

\* The same of the next state, which is what the steps show.
LEMMA TypedNext == KeyType' /\ LocalType' /\ request' \in [Requests -> RequestType] => TypeInv'
BY DEF TypeInv, KeyType, LocalType, TypeOK, RequestType, Stages

\* A hit raises one counter and leaves its TTL.
LEMMA HitCounts ==
  ASSUME TypeInv, NEW s \in Scopes, Hit(s)
  PROVE  /\ KeyType'
         /\ key'[s].count > 0 /\ key'[s].ttl = key[s].ttl
         /\ \A t \in Scopes \ {s} : key'[t] = key[t]
<1> DEFINE new == [count |-> Counted(s), ttl |-> key[s].ttl]
<1>1. KeyType
  BY Typed
<1>2. Counted(s) \in Nat /\ Counted(s) > 0 /\ Counted(s) <= Limit[s] + 1
  BY <1>1, CappedCount DEF Counted, KeyType
<1>3. key' = [key EXCEPT ![s] = new]
  BY DEF Hit
<1>4. Limit[s] \in Nat
  BY RateLimitAssumption
<1> QED BY <1>1, <1>2, <1>3, <1>4, SMT DEF KeyType

\* Counting locally judges the handler and touches no key.
LEMMA LocalCounts ==
  ASSUME TypeInv, NEW q \in Requests, CountLocally(q)
  PROVE  LocalType' /\ HandlerMoves(q) /\ request'[q].pc \in {"refused", "passed"}
<1> DEFINE s == ScopeOf(q)
           p == ProcOf[q]
           kept == Pruned(local[p])
           entry == IF kept[s].age >= Window[s] THEN NoEntry ELSE kept[s]
           count == Capped(s, entry.count + 1)
<1>1. s \in Scopes /\ p \in Procs
  BY CheckOfScope, RateLimitAssumption
<1>2. LocalType
  BY Typed
<1>3. Limit \in [Scopes -> Nat] /\ Window \in [Scopes -> Nat \ {0}]
  BY RateLimitAssumption
<1>4. /\ kept \in [Scopes -> [count: Nat, age: Nat]]
      /\ \A t \in Scopes : kept[t].age \in 0..Window[t] /\ kept[t].count \in 0..(Limit[t] + 1)
  <2>1. NoEntry \in [count: Nat, age: Nat] /\ NoEntry.age = 0 /\ NoEntry.count = 0
    BY DEF NoEntry
  <2>2. \A t \in Scopes : kept[t] \in {NoEntry, local[p][t]}
    BY <1>1, <1>2 DEF Pruned, LocalType
  <2>3. kept = [t \in Scopes |-> kept[t]]
    BY <1>1, <1>2 DEF Pruned, LocalType
  <2> HIDE DEF kept
  <2>4. \A t \in Scopes : kept[t] \in [count: Nat, age: Nat]
    BY <2>1, <2>2, <1>1, <1>2 DEF LocalType
  <2>5. ASSUME NEW t \in Scopes
        PROVE  kept[t].age \in 0..Window[t] /\ kept[t].count \in 0..(Limit[t] + 1)
    BY <2>1, <2>2, <2>5, <1>1, <1>2, <1>3, SMT DEF LocalType
  <2> QED BY <2>3, <2>4, <2>5
<1>5. entry \in [count: Nat, age: Nat] /\ entry.age \in 0..Window[s]
  BY <1>1, <1>3, <1>4, SMT DEF NoEntry
<1>6. count \in Nat /\ count <= Limit[s] + 1
  BY <1>1, <1>5, CappedCount
<1> DEFINE new == [kept EXCEPT ![s] = [count |-> count, age |-> entry.age]]
<1>7. local' = [local EXCEPT ![p] = new] /\ Verdict(q, count, p)
  BY DEF CountLocally
<1>8. LocalType'
  <2> HIDE DEF kept, entry, count
  <2>1. new \in [Scopes -> [count: Nat, age: Nat]]
    BY <1>1, <1>4, <1>5, <1>6
  <2>2. \A t \in Scopes : new[t].age \in 0..Window[t] /\ new[t].count \in 0..(Limit[t] + 1)
    BY <1>1, <1>3, <1>4, <1>5, <1>6, SMT
  <2> HIDE DEF new
  <2> QED BY <1>1, <1>2, <1>7, <2>1, <2>2 DEF LocalType
<1> QED BY <1>1, <1>7, <1>8, VerdictMoves

-----------------------------------------------------------------------------
(* The steps.  A handler that does not end up about to set a TTL takes no    *)
(* part in SetterInv, and the others need only find their keys as they were. *)

\* Each key is as it was, or was hit: counted once more under the same TTL.
KeysKept ==
    \A s \in Scopes : key'[s].ttl = key[s].ttl /\ (key[s].count > 0 => key'[s].count > 0)

\* Those about to set a TTL still may while no key gets one.
LEMMA SettersStay ==
  ASSUME WindowInv, NEW q \in Requests, HandlerMoves(q), request'[q].pc # "expiring",
         KeysKept, KeyType'
  PROVE  SetterInv'
<1>1. \A r \in Requests : At(r, "expiring")' =>
          r # q /\ At(r, "expiring") /\ ScopeOf(r)' = ScopeOf(r) /\ ScopeOf(r) \in Scopes
  BY CheckOfScope DEF HandlerMoves, At, ScopeOf, WindowInv
<1>2. \A s \in Scopes : key'[s].count = 0 => key'[s].ttl = Forever
  BY Typed DEF WindowInv, SetterInv, KeysKept, KeyType
<1>3. \A r \in Requests : At(r, "expiring")' =>
          key'[ScopeOf(r)'].count > 0 /\ key'[ScopeOf(r)'].ttl = Forever
  BY <1>1 DEF WindowInv, SetterInv, KeysKept
<1> QED BY <1>1, <1>2, <1>3 DEF WindowInv, SetterInv

\* Keys that nobody touches.
LEMMA Unhit ==
  ASSUME TypeInv, key' = key
  PROVE  KeysKept /\ KeyType'
BY Typed DEF KeysKept, KeyType

\* The handlers that leave the counters alone.
LEMMA OthersMove ==
  ASSUME TypeInv, NEW q \in Requests,
         Arrive(q) \/ SkipDisabled(q) \/ Proceed(q) \/ Answer(q)
  PROVE  HandlerMoves(q) /\ request'[q].pc # "expiring"
<1>1. CASE Arrive(q)
  <2>1. 1 \in DOMAIN Checks
    BY RateLimitAssumption
  <2> QED BY <1>1, <2>1, GotoMoves DEF Arrive, Stages
<1>2. CASE SkipDisabled(q)
  BY <1>2, CheckOfScope, GotoMoves DEF SkipDisabled, Stages
<1>3. CASE Proceed(q)
  <2> DEFINE following == request[q].check + 1
  <2>1. CASE request[q].check < Len(Checks)
    <3>1. following \in DOMAIN Checks
      BY <2>1, CheckOfScope, RateLimitAssumption
    <3>2. request' = [request EXCEPT ![q] = Goto(q, "counting", following)]
      BY <1>3, <2>1 DEF Proceed
    <3> QED BY <3>1, <3>2, GotoMoves DEF Stages
  <2>2. CASE ~(request[q].check < Len(Checks))
    <3>1. request' = [request EXCEPT ![q] = Goto(q, "admitted", request[q].check)]
      BY <1>3, <2>2 DEF Proceed
    <3> QED BY <3>1, CheckOfScope, GotoMoves DEF Stages
  <2> QED BY <2>1, <2>2
<1>4. CASE Answer(q)
  <2>1. Idle \in RequestType /\ Idle.pc = "idle"
    <3>1. 1 \in DOMAIN Checks
      BY RateLimitAssumption
    <3>2. \A s \in Scopes : LongAgo(s) \in Pass
      BY RateLimitAssumption DEF LongAgo, Pass
    <3> QED BY <3>1, <3>2 DEF Idle, RequestType, Stages
  <2> QED BY <1>4, <2>1 DEF Answer, HandlerMoves, TypeInv
<1> QED BY <1>1, <1>2, <1>3, <1>4

\* The steps that only move a handler.
LEMMA HandlerSteps ==
  ASSUME WindowInv, NEW q \in Requests,
         Arrive(q) \/ SkipDisabled(q) \/ Proceed(q) \/ Answer(q)
  PROVE  WindowInv' /\ KeysKept
<1>1. key' = key /\ local' = local
  BY DEF Arrive, SkipDisabled, Proceed, Answer
<1>2. TypeInv
  BY DEF WindowInv
<1>3. HandlerMoves(q) /\ request'[q].pc # "expiring"
  BY <1>2, OthersMove
<1>4. TypeInv'
  <2>1. LocalType'
    BY <1>1, <1>2, Typed DEF LocalType
  <2> QED BY <1>1, <1>2, <1>3, <2>1, TypedNext, Unhit DEF HandlerMoves
<1> QED BY <1>1, <1>2, <1>3, <1>4, Unhit, SettersStay DEF WindowInv

\* The steps that fall back.
LEMMA LocalSteps ==
  ASSUME WindowInv, NEW q \in Requests, IncrFails(q) \/ ExpireFails(q)
  PROVE  WindowInv' /\ KeysKept
<1>1. TypeInv
  BY DEF WindowInv
<1>2. LocalType' /\ HandlerMoves(q) /\ request'[q].pc # "expiring"
  BY <1>1, LocalCounts DEF IncrFails, ExpireFails
<1>3. KeysKept /\ KeyType'
  <2>1. CASE key' = key
    BY <2>1, <1>1, Unhit
  <2>2. CASE Hit(ScopeOf(q))
    BY <2>2, <1>1, CheckOfScope, HitCounts DEF KeysKept
  <2> QED BY <2>1, <2>2 DEF IncrFails, ExpireFails
<1> QED BY <1>2, <1>3, TypedNext, SettersStay DEF WindowInv, HandlerMoves

\* INCR makes its handler the setter if it made the key.
LEMMA IncrStep ==
  ASSUME WindowInv, NEW q \in Requests, Incr(q)
  PROVE  WindowInv' /\ KeysKept
<1> DEFINE s == ScopeOf(q)
<1>1. TypeInv /\ s \in Scopes
  BY CheckOfScope DEF WindowInv
<1>2. /\ KeyType' /\ KeysKept
      /\ key'[s].count > 0 /\ key'[s].ttl = key[s].ttl
  BY <1>1, HitCounts DEF Incr, KeysKept
<1>3. local' = local /\ LocalType'
  BY <1>1, Typed DEF Incr, LocalType
<1>4. CASE key[s].count = 0
  <2>1. /\ HandlerMoves(q)
        /\ request'[q].pc = "expiring" /\ request'[q].check = request[q].check
    BY <1>1, <1>4, CheckOfScope, GotoMoves DEF Incr, Stages
  <2>2. \A r \in Requests \ {q} : At(r, "expiring")' =>
            At(r, "expiring") /\ ScopeOf(r)' = ScopeOf(r) /\ ScopeOf(r) \in Scopes
    BY <2>1, <1>1, CheckOfScope DEF HandlerMoves, At, ScopeOf
  <2>3. ScopeOf(q)' = s
    BY <2>1 DEF ScopeOf
  <2>4. \A r \in Requests : At(r, "expiring") => ScopeOf(r) # s
    BY <1>4 DEF WindowInv, SetterInv
  <2>5. key'[s].ttl = Forever
    BY <1>1, <1>2, <1>4 DEF WindowInv, SetterInv
  <2>6. \A t \in Scopes : key'[t].count = 0 => key'[t].ttl = Forever
    BY <1>1, <1>2, Typed DEF WindowInv, SetterInv, KeysKept, KeyType
  <2>7. \A r \in Requests : At(r, "expiring")' =>
            key'[ScopeOf(r)'].count > 0 /\ key'[ScopeOf(r)'].ttl = Forever
    <3>1. ASSUME NEW r \in Requests \ {q}, At(r, "expiring")'
          PROVE  key'[ScopeOf(r)'].count > 0 /\ key'[ScopeOf(r)'].ttl = Forever
      BY <3>1, <2>2, <1>2 DEF WindowInv, SetterInv, KeysKept
    <3> QED BY <3>1, <2>3, <2>5, <1>2
  <2>8. SetterInv'
    BY <2>2, <2>3, <2>4, <2>6, <2>7 DEF WindowInv, SetterInv
  <2> QED BY <2>1, <2>8, <1>2, <1>3, TypedNext DEF WindowInv, HandlerMoves
<1>5. CASE key[s].count # 0
  <2>1. Verdict(q, Counted(s), "redis")
    BY <1>5 DEF Incr
  <2>2. HandlerMoves(q) /\ request'[q].pc # "expiring"
    BY <1>1, <2>1, VerdictMoves
  <2> QED BY <2>2, <1>2, <1>3, TypedNext, SettersStay DEF WindowInv, HandlerMoves
<1> QED BY <1>4, <1>5

\* Only this step gives a key a TTL, and the key had none.
LEMMA ExpireStep ==
  ASSUME WindowInv, NEW q \in Requests, Expire(q)
  PROVE  /\ WindowInv'
         /\ \A s \in Scopes : key[s].ttl # Forever => key'[s] = key[s]
<1> DEFINE s == ScopeOf(q)
           new == [count |-> key[s].count, ttl |-> Window[s]]
<1>1. TypeInv /\ s \in Scopes /\ KeyType /\ LocalType
  BY CheckOfScope, Typed DEF WindowInv
<1>2. key[s].count > 0 /\ key[s].ttl = Forever
  BY DEF WindowInv, SetterInv, Expire
<1>3. Window[s] \in Nat \ {0}
  BY <1>1, RateLimitAssumption
<1>4. key' = [key EXCEPT ![s] = new]
  <2>1. key[s] # NoKey
    BY <1>2 DEF NoKey
  <2> QED BY <2>1 DEF Expire
<1>5. HandlerMoves(q) /\ request'[q].pc # "expiring"
  BY <1>1, VerdictMoves DEF Expire
<1>6. KeyType'
  BY <1>1, <1>3, <1>4, SMT DEF KeyType
<1>7. TypeInv'
  BY <1>1, <1>5, <1>6, TypedNext DEF HandlerMoves, LocalType, Expire
<1>8. \A r \in Requests : At(r, "expiring")' =>
          /\ r # q /\ At(r, "expiring") /\ ScopeOf(r)' = ScopeOf(r)
          /\ ScopeOf(r) \in Scopes \ {s}
  <2>1. \A r \in Requests \ {q} : At(r, "expiring") => ScopeOf(r) # s
    BY DEF WindowInv, SetterInv, Expire
  <2> QED BY <1>1, <1>5, <2>1, CheckOfScope DEF HandlerMoves, At, ScopeOf
<1>9. \A t \in Scopes \ {s} : key'[t] = key[t]
  BY <1>1, <1>4 DEF KeyType
<1>10. \A t \in Scopes : key'[t].count = 0 => key'[t].ttl = Forever
  <2>1. key'[s].count > 0
    BY <1>1, <1>2, <1>4 DEF KeyType
  <2> QED BY <2>1, <1>9 DEF WindowInv, SetterInv
<1>11. SetterInv'
  BY <1>8, <1>9, <1>10 DEF WindowInv, SetterInv
<1> QED BY <1>2, <1>7, <1>9, <1>11 DEF WindowInv

\* Time shortens a TTL and ends it.
LEMMA TickStep ==
  ASSUME WindowInv, Tick
  PROVE  /\ WindowInv'
         /\ \A s \in Scopes : key[s].ttl # Forever =>
               key'[s] = NoKey \/ key'[s].ttl \in 1..key[s].ttl
<1>1. TypeInv /\ KeyType /\ LocalType
  BY Typed DEF WindowInv
<1>2. Limit \in [Scopes -> Nat] /\ Window \in [Scopes -> Nat \ {0}]
  BY RateLimitAssumption
<1>3. ASSUME NEW s \in Scopes
      PROVE  /\ key'[s] = LaterKey(key[s])
             /\ key'[s] \in [count: Nat, ttl: Nat]
             /\ key'[s].count \in 0..(Limit[s] + 1) /\ key'[s].ttl \in {Forever} \cup 1..Window[s]
             /\ key[s].ttl = Forever => key'[s] = key[s]
             /\ key'[s].count = 0 => key'[s].ttl = Forever
             /\ key[s].ttl # Forever => key'[s] = NoKey \/ key'[s].ttl \in 1..key[s].ttl
  <2>1. key'[s] = LaterKey(key[s])
    BY DEF Tick
  <2>2. key[s].count = 0 => key[s].ttl = Forever
    BY DEF WindowInv, SetterInv
  <2>3. /\ key[s] \in [count: Nat, ttl: Nat]
        /\ key[s].count \in 0..(Limit[s] + 1) /\ key[s].ttl \in {Forever} \cup 1..Window[s]
    BY <1>1 DEF KeyType
  <2> QED BY <2>1, <2>2, <2>3, <1>2, SMT DEF LaterKey, NoKey, Forever
<1>4. KeyType'
  BY <1>3 DEF KeyType, Tick
<1>5. LocalType'
  <2>1. ASSUME NEW p \in Procs, NEW s \in Scopes
        PROVE  /\ local'[p][s] \in [count: Nat, age: Nat]
               /\ local'[p][s].age \in 0..Window[s] /\ local'[p][s].count \in 0..(Limit[s] + 1)
    <3>1. local'[p][s] = LaterEntry(s, local[p][s])
      BY DEF Tick
    <3>2. /\ local[p][s] \in [count: Nat, age: Nat]
          /\ local[p][s].age \in 0..Window[s] /\ local[p][s].count \in 0..(Limit[s] + 1)
      BY <1>1 DEF LocalType
    <3> QED BY <3>1, <3>2, <1>2, SMT DEF LaterEntry, NoEntry, Ended
  <2> QED BY <2>1 DEF LocalType, Tick
<1>6. /\ request' \in [Requests -> RequestType]
      /\ \A q \in Requests : request'[q].pc = request[q].pc /\ request'[q].check = request[q].check
  <2>1. ASSUME NEW q \in Requests, NEW s \in Scopes
        PROVE  LaterPass(s, request[q].passed[s]) \in Pass
    <3>1. request[q].passed[s] \in Pass
      BY <1>1 DEF TypeInv, RequestType
    <3> QED BY <3>1, <1>2 DEF LaterPass, LongAgo, Pass
  <2>2. \A q \in Requests : request[q].pc \in Stages /\ request[q].check \in DOMAIN Checks
    BY <1>1 DEF TypeInv, RequestType
  <2> QED BY <2>1, <2>2 DEF Tick, RequestType
<1>7. \A q \in Requests : /\ At(q, "expiring")' <=> At(q, "expiring")
                          /\ ScopeOf(q)' = ScopeOf(q) /\ ScopeOf(q) \in Scopes
  BY <1>1, <1>6, CheckOfScope DEF At, ScopeOf
<1>8. SetterInv'
  BY <1>3, <1>7 DEF WindowInv, SetterInv
<1> QED BY <1>3, <1>4, <1>5, <1>6, <1>8, TypedNext DEF WindowInv

-----------------------------------------------------------------------------
\* No key exists at first.
LEMMA WindowInit == Init => WindowInv
<1> SUFFICES ASSUME Init PROVE WindowInv
  OBVIOUS
<1>1. Limit \in [Scopes -> Nat] /\ Window \in [Scopes -> Nat \ {0}]
  BY RateLimitAssumption
<1>2. KeyType
  BY <1>1 DEF Init, KeyType, NoKey, Forever
<1>3. LocalType
  BY <1>1 DEF Init, LocalType, NoEntry
<1>4. request \in [Requests -> RequestType]
  <2>1. \A s \in Scopes : LongAgo(s) \in Pass
    BY <1>1 DEF LongAgo, Pass
  <2>2. 1 \in DOMAIN Checks
    BY RateLimitAssumption
  <2> QED BY <2>1, <2>2 DEF Init, Idle, RequestType, Stages
<1>5. SetterInv
  BY DEF Init, SetterInv, At, Idle, NoKey
<1> QED BY <1>2, <1>3, <1>4, <1>5, Typed DEF WindowInv

\* What a step does to a window that has its TTL.
WindowKept ==
    \A s \in Scopes : key[s].ttl # Forever => key'[s] = NoKey \/ key'[s].ttl \in 1..key[s].ttl

\* Every step keeps the invariant and every window with a TTL.
LEMMA WindowNext == WindowInv /\ [Next]_vars => WindowInv' /\ WindowKept
<1> SUFFICES ASSUME WindowInv, [Next]_vars PROVE WindowInv' /\ WindowKept
  OBVIOUS
<1>1. KeyType
  BY Typed DEF WindowInv
<1>2. KeysKept => WindowKept
  BY <1>1, SMT DEF KeysKept, WindowKept, KeyType, Forever
<1>3. CASE Tick
  BY <1>3, TickStep DEF WindowKept
<1>4. ASSUME NEW q \in Requests, Expire(q) PROVE WindowInv' /\ WindowKept
  <2>1. \A s \in Scopes : key[s].ttl # Forever => key[s].ttl \in 1..key[s].ttl
    BY <1>1, SMT DEF KeyType, Forever
  <2> QED BY <1>4, <2>1, ExpireStep DEF WindowKept
<1>5. ASSUME NEW q \in Requests, Handler(q), ~Expire(q) PROVE WindowInv' /\ WindowKept
  BY <1>2, <1>5, HandlerSteps, LocalSteps, IncrStep DEF Handler
<1>6. CASE UNCHANGED vars
  <2>1. key' = key /\ local' = local /\ request' = request
    BY <1>6 DEF vars
  <2>2. KeysKept
    BY <2>1 DEF KeysKept
  <2>3. WindowInv'
    BY <2>1 DEF WindowInv, TypeInv, TypeOK, SetterInv, At, ScopeOf
  <2> QED BY <1>2, <2>2, <2>3
<1> QED BY <1>3, <1>4, <1>5, <1>6 DEF Next

\* Counters, TTLs, local windows and handlers keep their types, the counters within the
\* limit and one, for any scopes, limits, windows and processes.
THEOREM TypeCorrect == Spec => []TypeOK
<1>1. WindowInv => TypeOK
  BY DEF WindowInv, TypeInv
<1>2. WindowInv /\ [Next]_vars => WindowInv'
  BY WindowNext
<1> QED BY <1>1, <1>2, WindowInit, PTL DEF Spec

\* No request prolongs a window, whatever is delayed or fails between INCR and EXPIRE
\* (WindowFixed: ratelimit.py:75-81).
THEOREM WindowsAreFixed == Spec => WindowFixed
<1>1. WindowInv /\ [Next]_vars => WindowInv'
  BY WindowNext
<1>2. WindowInv /\ [Next]_vars
        => [\A s \in Scopes : key[s].ttl # Forever =>
               key'[s] = NoKey \/ key'[s].ttl \in 1..key[s].ttl]_vars
  BY WindowNext DEF WindowKept
<1> QED BY <1>1, <1>2, WindowInit, PTL DEF Spec, WindowFixed

-----------------------------------------------------------------------------
(* Two windows' worth.  Of those who passed by one counter in the last        *)
(* window's length, the ones of a window that has ended are a limit at most,  *)
(* and as old as the window under way; of this window, no more than it        *)
(* counted.                                                                   *)

AgeOf(q, s) == request[q].passed[s].age

\* Of those who passed s lately by one counter, some did so in a window before, at least
\* `since` ticks ago and no more than its limit; at most n in the window under way.
Passes(s, by, n, since) ==
    \E before \in SUBSET Lately(s, by) :
        /\ IsFiniteSet(before) /\ Cardinality(before) <= Limit[s]
        /\ IsFiniteSet(Lately(s, by) \ before) /\ Cardinality(Lately(s, by) \ before) <= n
        /\ \A q \in before : AgeOf(q, s) >= since

UpTo(s, count) == IF count > Limit[s] THEN Limit[s] ELSE count

\* One who is about to set the TTL has been counted, and has not passed yet.
Setting(s) == \E q \in Requests : At(q, "expiring") /\ ScopeOf(q) = s
KeyPasses(s) == UpTo(s, key[s].count) - (IF Setting(s) THEN 1 ELSE 0)
KeySince(s) == IF key[s].ttl = Forever THEN 0 ELSE Window[s] - key[s].ttl

Live(s, e) == e.age < Window[s]
EntryPasses(s, e) == IF Live(s, e) THEN UpTo(s, e.count) ELSE 0
EntrySince(s, e) == IF Live(s, e) THEN e.age ELSE 0

BurstInv ==
    \A s \in Scopes : Limit[s] > 0 =>
        /\ Passes(s, "redis", KeyPasses(s), KeySince(s))
        /\ \A p \in Procs : Passes(s, p, EntryPasses(s, local[p][s]), EntrySince(s, local[p][s]))

-----------------------------------------------------------------------------
(* What a step does to those who passed s by one counter.                    *)

\* The age of a pass is a number.
LEMMA PassTyped ==
  ASSUME TypeInv, NEW q \in Requests, NEW s \in Scopes
  PROVE  AgeOf(q, s) \in Nat
BY DEF TypeInv, RequestType, Pass, AgeOf

\* No more of them: they grew older, by at most as much as their windows did.
LEMMA PassesKept ==
  ASSUME NEW s \in Scopes, NEW by, NEW n \in Int, NEW since \in Nat, NEW m \in Int, NEW later \in Nat,
         NEW d \in Nat,
         Passes(s, by, n, since), n <= m, later <= since + d,
         Lately(s, by)' \subseteq Lately(s, by),
         \A q \in Lately(s, by)' : AgeOf(q, s) \in Nat /\ AgeOf(q, s)' \in Nat /\ AgeOf(q, s)' >= AgeOf(q, s) + d
  PROVE  Passes(s, by, m, later)'
<1>1. PICK before \in SUBSET Lately(s, by) :
          /\ IsFiniteSet(before) /\ Cardinality(before) <= Limit[s]
          /\ IsFiniteSet(Lately(s, by) \ before) /\ Cardinality(Lately(s, by) \ before) <= n
          /\ \A q \in before : AgeOf(q, s) >= since
  BY DEF Passes
<1>2. PICK kept : kept = before \cap Lately(s, by)'
  OBVIOUS
<1>3. kept \subseteq before /\ kept \subseteq Lately(s, by)'
  BY <1>2
<1>4. (Lately(s, by)' \ kept) \subseteq (Lately(s, by) \ before)
  BY <1>2
<1>5. IsFiniteSet(kept) /\ Cardinality(kept) <= Limit[s]
  <2>1. /\ IsFiniteSet(kept) /\ Cardinality(kept) <= Cardinality(before)
        /\ Cardinality(kept) \in Nat /\ Cardinality(before) \in Nat
    BY <1>1, <1>3, FS_Subset, FS_CardinalityType
  <2> QED BY <1>1, <2>1, RateLimitAssumption
<1>6. /\ IsFiniteSet(Lately(s, by)' \ kept)
      /\ Cardinality(Lately(s, by)' \ kept) <= m
  <2>1. PICK rest : rest = Lately(s, by) \ before
    OBVIOUS
  <2>2. PICK now : now = Lately(s, by)' \ kept
    OBVIOUS
  <2>3. IsFiniteSet(rest) /\ Cardinality(rest) <= n /\ now \in SUBSET rest
    BY <1>1, <1>4, <2>1, <2>2
  <2>4. /\ IsFiniteSet(now) /\ Cardinality(now) <= Cardinality(rest)
        /\ Cardinality(now) \in Nat /\ Cardinality(rest) \in Nat
    BY <2>3, FS_Subset, FS_CardinalityType
  <2>5. Cardinality(now) <= m
    BY <2>3, <2>4
  <2> QED BY <2>2, <2>4, <2>5
<1>7. \A q \in kept : AgeOf(q, s)' >= later
  <2>1. ASSUME NEW q \in kept PROVE AgeOf(q, s)' >= later
    <3>1. AgeOf(q, s) >= since /\ AgeOf(q, s) \in Nat /\ AgeOf(q, s)' \in Nat /\ AgeOf(q, s)' >= AgeOf(q, s) + d
      BY <1>1, <1>3
    <3> QED BY <3>1
  <2> QED BY <2>1
<1> QED BY <1>3, <1>5, <1>6, <1>7 DEF Passes

\* One more: q passes, now.
LEMMA PassesMore ==
  ASSUME NEW s \in Scopes, NEW by, NEW n \in Int, NEW since \in Nat, NEW m \in Int, NEW later \in Nat,
         NEW q \in Requests,
         Passes(s, by, n, since), n + 1 <= m, later <= since,
         Lately(s, by)' \subseteq Lately(s, by) \cup {q},
         \A r \in Lately(s, by)' \ {q} : AgeOf(r, s)' = AgeOf(r, s) /\ AgeOf(r, s) \in Nat
  PROVE  Passes(s, by, m, later)'
<1>1. PICK before \in SUBSET Lately(s, by) :
          /\ IsFiniteSet(before) /\ Cardinality(before) <= Limit[s]
          /\ IsFiniteSet(Lately(s, by) \ before) /\ Cardinality(Lately(s, by) \ before) <= n
          /\ \A r \in before : AgeOf(r, s) >= since
  BY DEF Passes
<1>2. PICK kept : kept = (before \cap Lately(s, by)') \ {q}
  OBVIOUS
<1>3. kept \subseteq before /\ kept \subseteq Lately(s, by)' \ {q}
  BY <1>2
<1>4. (Lately(s, by)' \ kept) \subseteq (Lately(s, by) \ before) \cup {q}
  BY <1>2
<1>5. IsFiniteSet(kept) /\ Cardinality(kept) <= Limit[s]
  <2>1. /\ IsFiniteSet(kept) /\ Cardinality(kept) <= Cardinality(before)
        /\ Cardinality(kept) \in Nat /\ Cardinality(before) \in Nat
    BY <1>1, <1>3, FS_Subset, FS_CardinalityType
  <2> QED BY <1>1, <2>1, RateLimitAssumption
<1>6. /\ IsFiniteSet(Lately(s, by)' \ kept)
      /\ Cardinality(Lately(s, by)' \ kept) <= m
  <2>1. PICK rest : rest = Lately(s, by) \ before
    OBVIOUS
  <2>2. PICK now : now = Lately(s, by)' \ kept
    OBVIOUS
  <2>3. IsFiniteSet(rest) /\ Cardinality(rest) <= n /\ now \in SUBSET (rest \cup {q})
    BY <1>1, <1>4, <2>1, <2>2
  <2>4. /\ IsFiniteSet(rest \cup {q}) /\ Cardinality(rest) \in Nat
        /\ Cardinality(rest \cup {q}) <= Cardinality(rest) + 1
    <3>1. IsFiniteSet(rest) /\ Cardinality(rest) \in Nat
      BY <2>3, FS_CardinalityType
    <3>2. /\ IsFiniteSet(rest \cup {q})
          /\ Cardinality(rest \cup {q}) = IF q \in rest THEN Cardinality(rest) ELSE Cardinality(rest) + 1
      BY <3>1, FS_AddElement
    <3> QED BY <3>1, <3>2
  <2>5. /\ IsFiniteSet(now) /\ Cardinality(now) <= Cardinality(rest \cup {q})
        /\ Cardinality(now) \in Nat /\ Cardinality(rest \cup {q}) \in Nat
    BY <2>3, <2>4, FS_Subset, FS_CardinalityType
  <2>6. Cardinality(now) <= m
    BY <2>3, <2>4, <2>5
  <2> QED BY <2>2, <2>5, <2>6
<1>7. \A r \in kept : AgeOf(r, s)' >= later
  <2>1. ASSUME NEW r \in kept PROVE AgeOf(r, s)' >= later
    <3>1. AgeOf(r, s) >= since /\ AgeOf(r, s)' = AgeOf(r, s) /\ AgeOf(r, s) \in Nat
      BY <1>1, <1>3
    <3> QED BY <3>1
  <2> QED BY <2>1
<1> QED BY <1>3, <1>5, <1>6, <1>7 DEF Passes

\* The window ends: those of the one before are behind it, and it is the one before now.
LEMMA PassesOver ==
  ASSUME NEW s \in Scopes, NEW by, NEW n \in Int, NEW since \in Nat, NEW m \in Nat,
         Passes(s, by, n, since), n <= Limit[s],
         Lately(s, by)' \subseteq {q \in Lately(s, by) : ~(AgeOf(q, s) >= since)},
         \A q \in Lately(s, by)' : AgeOf(q, s)' \in Nat
  PROVE  Passes(s, by, m, 0)'
<1>1. PICK before \in SUBSET Lately(s, by) :
          /\ IsFiniteSet(Lately(s, by) \ before) /\ Cardinality(Lately(s, by) \ before) <= n
          /\ \A q \in before : AgeOf(q, s) >= since
  BY DEF Passes
<1>2. PICK rest : rest = Lately(s, by) \ before
  OBVIOUS
<1>3. PICK now : now = Lately(s, by)'
  OBVIOUS
<1>4. now \in SUBSET rest
  BY <1>1, <1>2, <1>3
<1>5. /\ IsFiniteSet(now) /\ Cardinality(now) <= Limit[s]
  <2>1. IsFiniteSet(rest) /\ Cardinality(rest) <= n
    BY <1>1, <1>2
  <2>2. /\ IsFiniteSet(now) /\ Cardinality(now) <= Cardinality(rest)
        /\ Cardinality(now) \in Nat /\ Cardinality(rest) \in Nat
    BY <1>4, <2>1, FS_Subset, FS_CardinalityType
  <2> QED BY <2>1, <2>2, RateLimitAssumption
<1>6. IsFiniteSet(now \ now) /\ Cardinality(now \ now) <= m
  <2>1. now \ now = {}
    OBVIOUS
  <2> QED BY <2>1, FS_EmptySet
<1>7. \A q \in now : AgeOf(q, s)' >= 0
  BY <1>3
<1> QED BY <1>3, <1>5, <1>6, <1>7 DEF Passes

-----------------------------------------------------------------------------
\* How many of the first `m` that count may pass.
LEMMA UpToCounts ==
  ASSUME NEW s \in Scopes, NEW m \in Nat
  PROVE  /\ UpTo(s, m) \in Nat /\ UpTo(s, m) <= Limit[s] /\ UpTo(s, m) <= m
         /\ \A n \in Nat : m <= n => UpTo(s, m) <= UpTo(s, n)
         /\ UpTo(s, m) <= UpTo(s, Capped(s, m + 1))
         /\ Capped(s, m + 1) <= Limit[s] => UpTo(s, m) + 1 <= UpTo(s, Capped(s, m + 1))
BY RateLimitAssumption DEF UpTo, Capped

\* Nobody passes s by this counter in this step.
NonePasses(s, by) ==
    /\ Lately(s, by)' \subseteq Lately(s, by)
    /\ \A q \in Lately(s, by)' : AgeOf(q, s)' = AgeOf(q, s) /\ AgeOf(q, s) \in Nat

\* Nobody but q does.
OnlyPasses(q, s, by) ==
    /\ Lately(s, by)' \subseteq Lately(s, by) \cup {q}
    /\ \A r \in Lately(s, by)' \ {q} : AgeOf(r, s)' = AgeOf(r, s) /\ AgeOf(r, s) \in Nat

\* A handler that passes nothing adds nobody.
LEMMA SamePasses ==
  ASSUME TypeInv, NEW q \in Requests, NEW s \in Scopes, NEW by, HandlerMoves(q),
         \/ AgeOf(q, s)' = Window[s]
         \/ request'[q].passed[s] = request[q].passed[s]
  PROVE  NonePasses(s, by)
<1>1. \A r \in Requests : AgeOf(r, s) \in Nat
  BY PassTyped
<1>2. \A r \in Lately(s, by)' : r \in Requests /\ request'[r].passed[s] = request[r].passed[s]
  BY RateLimitAssumption, SMTT(30) DEF HandlerMoves, Lately, AgeOf
<1> QED BY <1>1, <1>2 DEF NonePasses, Lately, AgeOf

\* A verdict is a pass of one scope by one counter, if the count is within the limit.
LEMMA VerdictPasses ==
  ASSUME TypeInv, NEW q \in Requests, NEW count \in Nat, NEW via \in {"redis"} \cup Procs,
         Verdict(q, count, via), NEW s \in Scopes, NEW by
  PROVE  /\ OnlyPasses(q, s, by)
         /\ s # ScopeOf(q) \/ by # via \/ count > Limit[s] => NonePasses(s, by)
<1> DEFINE t == ScopeOf(q)
           new == [pc |-> "passed", check |-> request[q].check,
                   passed |-> [request[q].passed EXCEPT ![t] = [by |-> via, age |-> 0]]]
<1>1. \A r \in Requests : AgeOf(r, s) \in Nat /\ request[r] \in RequestType
  BY PassTyped DEF TypeInv
<1>2. t \in Scopes
  BY CheckOfScope
<1>3. CASE count > Limit[t]
  <2>1. request' = [request EXCEPT ![q] = Goto(q, "refused", request[q].check)]
    BY <1>3 DEF Verdict
  <2>2. \A r \in Requests : request'[r].passed = request[r].passed
    BY <2>1 DEF Goto, TypeInv
  <2> QED BY <1>1, <2>2 DEF OnlyPasses, NonePasses, Lately, AgeOf
<1>4. CASE ~(count > Limit[t])
  <2>1. request' = [request EXCEPT ![q] = new]
    BY <1>4 DEF Verdict
  <2>2. /\ \A r \in Requests \ {q} : request'[r] = request[r]
        /\ request'[q].passed[t] = [by |-> via, age |-> 0]
        /\ s # t => request'[q].passed[s] = request[q].passed[s]
    BY <1>1, <1>2, <2>1 DEF TypeInv, RequestType
  <2>3. OnlyPasses(q, s, by)
    BY <1>1, <2>2 DEF OnlyPasses, Lately, AgeOf
  <2>4. ASSUME s # t \/ by # via PROVE NonePasses(s, by)
    <3>1. \A r \in Lately(s, by)' : r \in Requests /\ request'[r].passed[s] = request[r].passed[s]
      BY <2>2, <2>4 DEF Lately
    <3> QED BY <1>1, <3>1 DEF NonePasses, Lately, AgeOf
  <2> QED BY <1>4, <2>3, <2>4
<1> QED BY <1>3, <1>4

-----------------------------------------------------------------------------
KeyBurst(s) == Passes(s, "redis", KeyPasses(s), KeySince(s))

\* What is said of a key is said of numbers.
LEMMA KeyData ==
  ASSUME NEW s \in Scopes, KeyType
  PROVE  KeyPasses(s) \in Int /\ KeyPasses(s) <= Limit[s] /\ KeySince(s) \in Nat
<1>1. key[s].count \in Nat /\ key[s].ttl \in {Forever} \cup 1..Window[s] /\ Window[s] \in Nat
  BY RateLimitAssumption DEF KeyType
<1>2. UpTo(s, key[s].count) \in Nat /\ UpTo(s, key[s].count) <= Limit[s] /\ Limit[s] \in Nat
  BY <1>1, UpToCounts, RateLimitAssumption
<1> QED BY <1>1, <1>2 DEF KeyPasses, KeySince, Forever

\* The same of the next state.
LEMMA KeyDataNext ==
  ASSUME NEW s \in Scopes, KeyType'
  PROVE  KeyPasses(s)' \in Int /\ KeySince(s)' \in Nat
<1>1. key'[s].count \in Nat /\ key'[s].ttl \in {Forever} \cup 1..Window[s] /\ Window[s] \in Nat
  BY RateLimitAssumption DEF KeyType
<1>2. UpTo(s, key'[s].count) \in Nat
  BY <1>1, UpToCounts
<1> QED BY <1>1, <1>2 DEF KeyPasses, KeySince, Forever

\* A key whose count and window grow keeps its account, if nobody passes.
LEMMA KeyBurstKept ==
  ASSUME KeyType, KeyType', NEW s \in Scopes, KeyBurst(s),
         key'[s].count >= key[s].count, KeySince(s)' <= KeySince(s),
         Setting(s)' => Setting(s) \/ (key'[s].count > key[s].count /\ key'[s].count <= Limit[s]),
         NonePasses(s, "redis")
  PROVE  KeyBurst(s)'
<1>1. PICK m \in Int, later \in Nat : m = KeyPasses(s)' /\ later = KeySince(s)'
  BY KeyDataNext
<1>2. KeyPasses(s) \in Int /\ KeySince(s) \in Nat
  BY KeyData
<1>3. KeyPasses(s) <= m
  <2>1. key[s].count \in Nat /\ key'[s].count \in Nat
    BY DEF KeyType
  <2>2. /\ UpTo(s, key[s].count) \in Nat /\ UpTo(s, key'[s].count) \in Nat
        /\ UpTo(s, key[s].count) <= UpTo(s, key'[s].count)
        /\ UpTo(s, key[s].count) <= key[s].count
    BY <2>1, UpToCounts
  <2>3. key'[s].count <= Limit[s] => UpTo(s, key'[s].count) = key'[s].count
    BY <2>1, RateLimitAssumption DEF UpTo
  <2> QED BY <1>1, <2>1, <2>2, <2>3 DEF KeyPasses
<1>4. Passes(s, "redis", m, later)'
  <2>1. \A q \in Lately(s, "redis")' :
            AgeOf(q, s) \in Nat /\ AgeOf(q, s)' \in Nat /\ AgeOf(q, s)' >= AgeOf(q, s) + 0
    BY DEF NonePasses
  <2>2. Passes(s, "redis", KeyPasses(s), KeySince(s))
    BY DEF KeyBurst
  <2>3. later <= KeySince(s) + 0
    BY <1>1, <1>2
  <2> QED BY <1>2, <1>3, <2>1, <2>2, <2>3, PassesKept DEF NonePasses
<1> QED BY <1>1, <1>4 DEF KeyBurst, Passes

\* An account may only grow more generous.
LEMMA NoneKept ==
  ASSUME NEW s \in Scopes, NEW by, NEW n \in Int, NEW since \in Nat, NEW m \in Int, NEW later \in Nat,
         Passes(s, by, n, since), NonePasses(s, by), n <= m, later <= since
  PROVE  Passes(s, by, m, later)'
<1>1. \A q \in Lately(s, by)' :
          AgeOf(q, s) \in Nat /\ AgeOf(q, s)' \in Nat /\ AgeOf(q, s)' >= AgeOf(q, s) + 0
  BY DEF NonePasses
<1>2. later <= since + 0 /\ Lately(s, by)' \subseteq Lately(s, by)
  BY DEF NonePasses
<1> QED BY <1>1, <1>2, PassesKept

\* One who passes is counted where the count grows by one.
LEMMA OneMore ==
  ASSUME NEW s \in Scopes, NEW by, NEW n \in Int, NEW since \in Nat, NEW m \in Int, NEW later \in Nat,
         NEW q \in Requests,
         Passes(s, by, n, since), OnlyPasses(q, s, by), n + 1 <= m, later <= since
  PROVE  Passes(s, by, m, later)'
<1>1. /\ Lately(s, by)' \subseteq Lately(s, by) \cup {q}
      /\ \A r \in Lately(s, by)' \ {q} : AgeOf(r, s)' = AgeOf(r, s) /\ AgeOf(r, s) \in Nat
  BY DEF OnlyPasses
<1> QED BY <1>1, PassesMore

\* A tick makes those who stay a tick older.
LEMMA TickAges ==
  ASSUME TypeInv, Tick, NEW s \in Scopes, NEW by
  PROVE  /\ Lately(s, by)' \subseteq Lately(s, by)
         /\ \A q \in Lately(s, by)' :
               /\ AgeOf(q, s) \in Nat /\ AgeOf(q, s)' = AgeOf(q, s) + 1
               /\ AgeOf(q, s) + 1 < Window[s]
<1>1. Window[s] \in Nat \ {0}
  BY RateLimitAssumption
<1>2. ASSUME NEW q \in Lately(s, by)'
      PROVE  /\ q \in Lately(s, by)
             /\ AgeOf(q, s) \in Nat /\ AgeOf(q, s)' = AgeOf(q, s) + 1
             /\ AgeOf(q, s) + 1 < Window[s]
  <2>1. q \in Requests /\ request'[q].passed[s].by = by /\ request'[q].passed[s].age < Window[s]
    BY <1>2 DEF Lately
  <2>2. request'[q].passed[s] = LaterPass(s, request[q].passed[s])
    BY <2>1 DEF Tick
  <2>3. AgeOf(q, s) \in Nat
    BY <2>1, PassTyped
  <2>4. ~(AgeOf(q, s) + 1 >= Window[s])
    BY <2>1, <2>2, <1>1 DEF LaterPass, LongAgo, AgeOf
  <2>5. /\ request'[q].passed[s].age = request[q].passed[s].age + 1
        /\ request'[q].passed[s].by = request[q].passed[s].by
    BY <2>2, <2>4 DEF LaterPass, AgeOf
  <2>6. AgeOf(q, s) + 1 < Window[s] /\ AgeOf(q, s) < Window[s]
    BY <2>3, <2>4, <1>1
  <2> QED BY <2>1, <2>3, <2>5, <2>6 DEF Lately, AgeOf
<1> QED BY <1>2

-----------------------------------------------------------------------------
(* The Redis counter. *)

\* WindowInv speaks of typed keys.
LEMMA WindowTyped ==
  ASSUME WindowInv, WindowInv'
  PROVE  TypeInv /\ KeyType /\ KeyType'
<1>1. TypeInv /\ KeyType
  BY Typed DEF WindowInv
<1>2. KeyType'
  BY DEF WindowInv, TypeInv, TypeOK, KeyType
<1> QED BY <1>1, <1>2

\* Time passes for a key, and its window may end.
LEMMA KeyBurstTick ==
  ASSUME WindowInv, WindowInv', Tick, NEW s \in Scopes, KeyBurst(s)
  PROVE  KeyBurst(s)'
<1>1. TypeInv /\ KeyType /\ KeyType'
  BY WindowTyped
<1>2. PICK m \in Int, later \in Nat : m = KeyPasses(s)' /\ later = KeySince(s)'
  BY <1>1, KeyDataNext
<1>3. KeyPasses(s) \in Int /\ KeySince(s) \in Nat /\ KeyPasses(s) <= Limit[s]
  BY <1>1, KeyData
<1>4. key[s].ttl \in {Forever} \cup 1..Window[s] /\ key[s].count \in Nat /\ Window[s] \in Nat \ {0}
  BY <1>1, RateLimitAssumption DEF KeyType
<1>5. key'[s] = LaterKey(key[s])
  BY DEF Tick
<1>6. Setting(s)' <=> Setting(s)
  BY DEF Tick, Setting, At, ScopeOf
<1>7. /\ Lately(s, "redis")' \subseteq Lately(s, "redis")
      /\ \A q \in Lately(s, "redis")' :
            /\ AgeOf(q, s) \in Nat /\ AgeOf(q, s)' = AgeOf(q, s) + 1 /\ AgeOf(q, s) + 1 < Window[s]
  BY <1>1, TickAges
<1>8. Passes(s, "redis", KeyPasses(s), KeySince(s))
  BY DEF KeyBurst
<1>9. CASE key[s].ttl = 1
  <2>1. key'[s] = NoKey
    BY <1>5, <1>9 DEF LaterKey, Forever
  <2>2. ~Setting(s)
    BY <1>9 DEF WindowInv, SetterInv, Setting, Forever
  <2>3. m = 0 /\ later = 0
    BY <1>2, <1>6, <2>1, <2>2, RateLimitAssumption DEF KeyPasses, KeySince, NoKey, UpTo
  <2>4. KeySince(s) = Window[s] - 1
    BY <1>9 DEF KeySince, Forever
  <2>5. /\ Lately(s, "redis")' \subseteq {q \in Lately(s, "redis") : ~(AgeOf(q, s) >= KeySince(s))}
        /\ \A q \in Lately(s, "redis")' : AgeOf(q, s)' \in Nat
    BY <1>4, <1>7, <2>4
  <2>6. Passes(s, "redis", 0, 0)'
    BY <1>3, <1>8, <2>5, PassesOver
  <2> QED BY <1>2, <2>3, <2>6 DEF KeyBurst, Passes
<1>10. CASE key[s].ttl # 1
  <2>1. m = KeyPasses(s) /\ later <= KeySince(s) + 1
    <3>1. CASE key[s].ttl = Forever
      <4>1. key'[s] = key[s]
        BY <1>5, <3>1 DEF LaterKey
      <4> QED BY <1>2, <1>3, <1>6, <3>1, <4>1 DEF KeyPasses, KeySince
    <3>2. CASE key[s].ttl # Forever
      <4>1. key'[s].count = key[s].count /\ key'[s].ttl = key[s].ttl - 1
        BY <1>5, <1>10, <3>2 DEF LaterKey
      <4>2. key[s].ttl \in 2..Window[s]
        BY <1>4, <1>10, <3>2 DEF Forever
      <4>3. later = KeySince(s) + 1
        BY <1>2, <1>4, <4>1, <4>2, <3>2 DEF KeySince, Forever
      <4>4. m = KeyPasses(s)
        BY <1>2, <1>6, <4>1 DEF KeyPasses
      <4> QED BY <4>3, <4>4, <1>3
    <3> QED BY <3>1, <3>2
  <2>2. \A q \in Lately(s, "redis")' :
            AgeOf(q, s) \in Nat /\ AgeOf(q, s)' \in Nat /\ AgeOf(q, s)' >= AgeOf(q, s) + 1
    BY <1>7
  <2>3. Passes(s, "redis", m, later)'
    BY <1>2, <1>3, <1>7, <1>8, <2>1, <2>2, PassesKept
  <2> QED BY <1>2, <2>3 DEF KeyBurst, Passes
<1> QED BY <1>9, <1>10

\* Who is about to set a TTL after a step of a handler that is not: the same as before.
LEMMA SettersAfter ==
  ASSUME TypeInv, NEW q \in Requests, HandlerMoves(q), request'[q].pc # "expiring", NEW s \in Scopes
  PROVE  Setting(s)' => \E r \in Requests \ {q} : At(r, "expiring") /\ ScopeOf(r) = s
BY DEF HandlerMoves, Setting, At, ScopeOf

\* A step after which the key stands as before.
LEMMA KeyBurstUnhit ==
  ASSUME WindowInv, WindowInv', NEW q \in Requests, HandlerMoves(q), request'[q].pc # "expiring",
         NEW s \in Scopes, KeyBurst(s), NonePasses(s, "redis"),
         key'[s].ttl = key[s].ttl, key'[s].count >= key[s].count
  PROVE  KeyBurst(s)'
<1>1. TypeInv /\ KeyType /\ KeyType'
  BY WindowTyped
<1>2. Setting(s)' => Setting(s) \/ (key'[s].count > key[s].count /\ key'[s].count <= Limit[s])
  BY <1>1, SettersAfter DEF Setting
<1>3. KeySince(s)' <= KeySince(s)
  <2>1. KeySince(s) \in Nat
    BY <1>1, KeyData
  <2> QED BY <2>1 DEF KeySince
<1> QED BY <1>1, <1>2, <1>3, KeyBurstKept

\* A hit counts one more, up to one beyond the limit.
LEMMA HitMore ==
  ASSUME TypeInv, NEW s \in Scopes, Hit(s)
  PROVE  /\ key'[s].count = Counted(s) /\ key'[s].ttl = key[s].ttl /\ key'[s].count >= key[s].count
         /\ Counted(s) \in Nat
         /\ key[s].count = 0 /\ Limit[s] > 0 => Counted(s) = 1
         /\ \A t \in Scopes \ {s} : key'[t] = key[t]
<1>1. KeyType /\ Limit[s] \in Nat
  BY Typed, RateLimitAssumption
<1>2. /\ \A t \in Scopes \ {s} : key'[t] = key[t]
      /\ key'[s].count = Counted(s) /\ key'[s].ttl = key[s].ttl
  BY <1>1 DEF Hit, KeyType
<1>3. key[s].count \in 0..(Limit[s] + 1)
  BY <1>1 DEF KeyType
<1>4. /\ Counted(s) \in Nat /\ Counted(s) >= key[s].count
      /\ key[s].count = 0 /\ Limit[s] > 0 => Counted(s) = 1
  BY <1>1, <1>3 DEF Counted, Capped
<1> QED BY <1>2, <1>4

\* What a process makes of its own counter is a verdict by that process.
LEMMA LocalVerdict ==
  ASSUME TypeInv, NEW q \in Requests, CountLocally(q)
  PROVE  \E count \in Nat : Verdict(q, count, ProcOf[q])
<1> DEFINE s == ScopeOf(q)
           p == ProcOf[q]
           kept == Pruned(local[p])
           entry == IF kept[s].age >= Window[s] THEN NoEntry ELSE kept[s]
<1>1. s \in Scopes /\ p \in Procs
  BY CheckOfScope, RateLimitAssumption
<1>2. kept[s] \in {NoEntry, local[p][s]} /\ local[p][s].count \in Nat
  BY <1>1 DEF Pruned, TypeInv
<1>3. entry.count \in Nat
  BY <1>2 DEF NoEntry
<1>4. Capped(s, entry.count + 1) \in Nat
  BY <1>1, <1>3, CappedCount
<1>5. Verdict(q, Capped(s, entry.count + 1), p)
  BY DEF CountLocally
<1> QED BY <1>4, <1>5

\* Falling back does not touch a key.
LEMMA KeyBurstLocal ==
  ASSUME WindowInv, WindowInv', NEW q \in Requests, IncrFails(q) \/ ExpireFails(q),
         NEW s \in Scopes, KeyBurst(s)
  PROVE  KeyBurst(s)'
<1>1. TypeInv /\ KeyType /\ ScopeOf(q) \in Scopes /\ ProcOf[q] \in Procs /\ ProcOf[q] # "redis"
  BY WindowTyped, CheckOfScope, RateLimitAssumption
<1>2. CountLocally(q) /\ HandlerMoves(q) /\ request'[q].pc # "expiring"
  BY <1>1, LocalCounts DEF IncrFails, ExpireFails
<1>3. NonePasses(s, "redis")
  <2>1. PICK count \in Nat : Verdict(q, count, ProcOf[q])
    BY <1>1, <1>2, LocalVerdict
  <2>2. PICK via \in {"redis"} \cup Procs : via = ProcOf[q]
    BY <1>1
  <2>3. Verdict(q, count, via) /\ "redis" # via
    BY <1>1, <2>1, <2>2
  <2> QED BY <1>1, <2>3, VerdictPasses
<1>4. key'[s].ttl = key[s].ttl /\ key'[s].count >= key[s].count
  <2>1. key[s].count \in Nat
    BY <1>1 DEF KeyType
  <2>2. CASE key' = key
    BY <2>1, <2>2
  <2>3. CASE Hit(ScopeOf(q))
    <3>1. /\ key'[ScopeOf(q)].ttl = key[ScopeOf(q)].ttl
          /\ key'[ScopeOf(q)].count >= key[ScopeOf(q)].count
          /\ \A t \in Scopes \ {ScopeOf(q)} : key'[t] = key[t]
      BY <1>1, <2>3, HitMore
    <3> QED BY <2>1, <3>1
  <2> QED BY <2>2, <2>3 DEF IncrFails, ExpireFails
<1> QED BY <1>2, <1>3, <1>4, KeyBurstUnhit

\* By those who neither count nor set a TTL no scope is passed.
LEMMA OthersPass ==
  ASSUME TypeInv, NEW q \in Requests,
         Arrive(q) \/ SkipDisabled(q) \/ Proceed(q) \/ Answer(q) \/ (Incr(q) /\ key[ScopeOf(q)].count = 0),
         HandlerMoves(q), NEW s \in Scopes, NEW by
  PROVE  NonePasses(s, by)
<1>1. \/ AgeOf(q, s)' = Window[s]
      \/ request'[q].passed[s] = request[q].passed[s]
  <2>1. CASE Answer(q)
    <3>1. request'[q] = Idle
      BY <2>1 DEF Answer, TypeInv
    <3> QED BY <3>1 DEF Idle, LongAgo, AgeOf
  <2>2. CASE Arrive(q)
    BY <2>2 DEF Arrive, Goto, TypeInv
  <2>3. CASE SkipDisabled(q)
    BY <2>3 DEF SkipDisabled, Goto, TypeInv
  <2>4. CASE Proceed(q)
    BY <2>4 DEF Proceed, Goto, TypeInv
  <2>5. CASE Incr(q) /\ key[ScopeOf(q)].count = 0
    BY <2>5 DEF Incr, Goto, TypeInv
  <2> QED BY <2>1, <2>2, <2>3, <2>4, <2>5
<1> QED BY <1>1, SamePasses

\* Nor do the steps that only move a handler.
LEMMA KeyBurstOthers ==
  ASSUME WindowInv, WindowInv', NEW q \in Requests,
         Arrive(q) \/ SkipDisabled(q) \/ Proceed(q) \/ Answer(q),
         HandlerMoves(q), request'[q].pc # "expiring",
         NEW s \in Scopes, KeyBurst(s)
  PROVE  KeyBurst(s)'
<1>1. TypeInv /\ KeyType
  BY WindowTyped
<1>2. NonePasses(s, "redis")
  BY <1>1, OthersPass
<1>3. key' = key /\ key[s].count \in Nat
  BY <1>1 DEF Arrive, SkipDisabled, Proceed, Answer, KeyType
<1>4. key'[s].ttl = key[s].ttl /\ key'[s].count >= key[s].count
  BY <1>3
<1> QED BY <1>2, <1>4, KeyBurstUnhit

\* An INCR that counts lets one more pass while the count is within the limit.
LEMMA KeyBurstIncr ==
  ASSUME WindowInv, WindowInv', NEW q \in Requests, Incr(q), HandlerMoves(q),
         NEW s \in Scopes, Limit[s] > 0, KeyBurst(s)
  PROVE  KeyBurst(s)'
<1> DEFINE t == ScopeOf(q)
<1>1. TypeInv /\ KeyType /\ KeyType' /\ t \in Scopes
  BY WindowTyped, CheckOfScope
<1>2. /\ key'[t].count = Counted(t) /\ key'[t].ttl = key[t].ttl /\ key'[t].count >= key[t].count
      /\ Counted(t) \in Nat
      /\ key[t].count = 0 /\ Limit[t] > 0 => Counted(t) = 1
      /\ \A u \in Scopes \ {t} : key'[u] = key[u]
  BY <1>1, HitMore DEF Incr
<1>3. key[s].count \in Nat /\ key[s].count <= Limit[s] + 1 /\ Limit[s] \in Nat
  BY <1>1, RateLimitAssumption DEF KeyType
<1>4. key'[s].ttl = key[s].ttl /\ key'[s].count >= key[s].count
  BY <1>2, <1>3
<1>5. CASE key[t].count = 0
  <2>1. NonePasses(s, "redis")
    BY <1>1, <1>5, OthersPass
  <2>2. KeySince(s)' <= KeySince(s)
    <3>1. KeySince(s) \in Nat
      BY <1>1, KeyData
    <3> QED BY <3>1, <1>4 DEF KeySince
  <2>3. Setting(s)' => Setting(s) \/ (key'[s].count > key[s].count /\ key'[s].count <= Limit[s])
    <3>1. CASE s = t
      BY <3>1, <1>2, <1>3, <1>5
    <3>2. CASE s # t
      <4>1. request'[q].check = request[q].check
        BY <1>1, <1>5 DEF Incr, Goto, TypeInv
      <4>2. ScopeOf(q)' # s
        BY <4>1, <3>2 DEF ScopeOf
      <4> QED BY <4>2 DEF Setting, HandlerMoves, At, ScopeOf
    <3> QED BY <3>1, <3>2
  <2> QED BY <1>1, <1>4, <2>1, <2>2, <2>3, KeyBurstKept
<1>6. CASE key[t].count # 0
  <2>1. Verdict(q, Counted(t), "redis")
    BY <1>6 DEF Incr
  <2>2. request'[q].pc # "expiring"
    BY <1>1, <2>1, VerdictMoves
  <2>3. CASE NonePasses(s, "redis")
    BY <1>4, <2>2, <2>3, KeyBurstUnhit
  <2>4. CASE ~NonePasses(s, "redis")
    <3>1. OnlyPasses(q, s, "redis") /\ s = t /\ Counted(t) <= Limit[t]
      <4>1. /\ OnlyPasses(q, s, "redis")
            /\ s # ScopeOf(q) \/ "redis" # "redis" \/ Counted(t) > Limit[ScopeOf(q)] => NonePasses(s, "redis")
        BY <1>1, <1>2, <2>1, VerdictPasses
      <4> QED BY <4>1, <2>4, <1>2, <1>3
    <3>2. PICK m \in Int, later \in Nat : m = KeyPasses(s)' /\ later = KeySince(s)'
      BY <1>1, KeyDataNext
    <3>3. KeyPasses(s) \in Int /\ KeySince(s) \in Nat
      BY <1>1, KeyData
    <3>4. KeyPasses(s) + 1 <= m
      <4>1. Setting(s)' => Setting(s)
        BY <1>1, <2>2, SettersAfter DEF Setting
      <4>2. /\ UpTo(s, key[s].count) \in Nat /\ UpTo(s, Counted(s)) \in Nat
            /\ UpTo(s, key[s].count) + 1 <= UpTo(s, Counted(s))
        BY <1>2, <1>3, <3>1, UpToCounts DEF Counted
      <4>3. m = UpTo(s, Counted(s)) - (IF Setting(s)' THEN 1 ELSE 0)
        BY <1>2, <3>1, <3>2 DEF KeyPasses, UpTo
      <4>4. KeyPasses(s) = UpTo(s, key[s].count) - (IF Setting(s) THEN 1 ELSE 0)
        BY DEF KeyPasses
      <4> QED BY <3>2, <4>1, <4>2, <4>3, <4>4
    <3>5. later <= KeySince(s)
      BY <1>4, <3>2, <3>3 DEF KeySince
    <3>6. Passes(s, "redis", m, later)'
      BY <3>1, <3>2, <3>3, <3>4, <3>5, OneMore DEF KeyBurst
    <3> QED BY <3>2, <3>6 DEF KeyBurst, Passes
  <2> QED BY <2>3, <2>4
<1> QED BY <1>5, <1>6

\* The EXPIRE of the setter starts the window of its key.
LEMMA KeyBurstExpire ==
  ASSUME WindowInv, WindowInv', NEW q \in Requests, Expire(q), HandlerMoves(q),
         NEW s \in Scopes, KeyBurst(s)
  PROVE  KeyBurst(s)'
<1> DEFINE t == ScopeOf(q)
<1>1. TypeInv /\ KeyType /\ KeyType' /\ t \in Scopes
  BY WindowTyped, CheckOfScope
<1>2. key[t].count \in Nat /\ key[t].count > 0 /\ key[t].ttl = Forever /\ key[t] # NoKey
  BY <1>1 DEF WindowInv, SetterInv, Expire, KeyType, NoKey
<1>3. Verdict(q, 1, "redis") /\ At(q, "expiring")
  BY DEF Expire
<1>4. request'[q].pc # "expiring"
  BY <1>1, <1>3, VerdictMoves
<1>5. CASE s # t
  <2>1. NonePasses(s, "redis")
    BY <1>1, <1>3, <1>5, VerdictPasses
  <2>2. key'[s] = key[s] /\ key[s].count \in Nat
    BY <1>1, <1>5 DEF Expire, KeyType
  <2>3. key'[s].ttl = key[s].ttl /\ key'[s].count >= key[s].count
    BY <2>2
  <2> QED BY <1>4, <2>1, <2>3, KeyBurstUnhit
<1>6. CASE s = t
  <2>1. OnlyPasses(q, s, "redis")
    BY <1>1, <1>3, VerdictPasses
  <2>2. key'[s] = [count |-> key[s].count, ttl |-> Window[s]]
    BY <1>1, <1>2, <1>6 DEF Expire, KeyType
  <2>3. Window[s] \in Nat \ {0}
    BY RateLimitAssumption
  <2>4. Setting(s) /\ ~Setting(s)'
    <3>1. Setting(s)' => \E r \in Requests \ {q} : At(r, "expiring") /\ ScopeOf(r) = s
      BY <1>1, <1>4, SettersAfter
    <3>2. \A r \in Requests \ {q} : At(r, "expiring") => ScopeOf(r) # s
      BY <1>3, <1>6 DEF WindowInv, SetterInv
    <3> QED BY <1>3, <1>6, <3>1, <3>2 DEF Setting
  <2>5. PICK m \in Int, later \in Nat : m = KeyPasses(s)' /\ later = KeySince(s)'
    BY <1>1, KeyDataNext
  <2>6. KeyPasses(s) \in Int /\ KeySince(s) \in Nat
    BY <1>1, KeyData
  <2>7. KeyPasses(s) + 1 <= m
    <3>1. UpTo(s, key[s].count) \in Nat
      BY <1>2, <1>6, UpToCounts
    <3>2. m = UpTo(s, key[s].count)
      BY <2>2, <2>4, <2>5, <3>1 DEF KeyPasses, UpTo
    <3> QED BY <2>4, <3>1, <3>2 DEF KeyPasses
  <2>8. later <= KeySince(s)
    <3>1. later = 0
      BY <2>2, <2>3, <2>5 DEF KeySince, Forever
    <3> QED BY <3>1, <2>6
  <2>9. Passes(s, "redis", m, later)'
    BY <2>1, <2>5, <2>6, <2>7, <2>8, OneMore DEF KeyBurst
  <2> QED BY <2>5, <2>9 DEF KeyBurst, Passes
<1> QED BY <1>5, <1>6

\* Only INCR leaves a handler about to set a TTL.
LEMMA HandlersMove ==
  ASSUME TypeInv, NEW q \in Requests, Handler(q)
  PROVE  HandlerMoves(q) /\ (~Incr(q) => request'[q].pc # "expiring")
<1>1. CASE Incr(q)
  <2>1. CASE key[ScopeOf(q)].count = 0
    <3>1. request' = [request EXCEPT ![q] = Goto(q, "expiring", request[q].check)]
      BY <1>1, <2>1 DEF Incr
    <3> QED BY <1>1, <3>1, CheckOfScope, GotoMoves DEF Stages
  <2>2. CASE key[ScopeOf(q)].count # 0
    BY <1>1, <2>2, VerdictMoves DEF Incr
  <2> QED BY <1>1, <2>1, <2>2
<1>2. CASE Expire(q)
  BY <1>2, VerdictMoves DEF Expire
<1>3. CASE IncrFails(q) \/ ExpireFails(q)
  BY <1>3, LocalCounts DEF IncrFails, ExpireFails
<1>4. CASE Arrive(q) \/ SkipDisabled(q) \/ Proceed(q) \/ Answer(q)
  BY <1>4, OthersMove
<1> QED BY <1>1, <1>2, <1>3, <1>4 DEF Handler

\* Every step keeps a key's account.
LEMMA KeyBurstStep ==
  ASSUME WindowInv, [Next]_vars, NEW s \in Scopes, Limit[s] > 0, KeyBurst(s)
  PROVE  KeyBurst(s)'
<1>1. WindowInv'
  BY WindowNext
<1>2. TypeInv
  BY DEF WindowInv
<1>3. CASE Tick
  BY <1>1, <1>3, KeyBurstTick
<1>4. ASSUME NEW q \in Requests, Handler(q) PROVE KeyBurst(s)'
  <2>1. HandlerMoves(q) /\ (~Incr(q) => request'[q].pc # "expiring")
    BY <1>2, <1>4, HandlersMove
  <2>2. CASE Incr(q)
    BY <1>1, <2>1, <2>2, KeyBurstIncr
  <2>3. CASE Expire(q)
    BY <1>1, <2>1, <2>3, KeyBurstExpire
  <2>4. CASE IncrFails(q) \/ ExpireFails(q)
    BY <1>1, <2>4, KeyBurstLocal
  <2>5. CASE (Arrive(q) \/ SkipDisabled(q) \/ Proceed(q) \/ Answer(q)) /\ ~Incr(q)
    BY <1>1, <2>1, <2>5, KeyBurstOthers
  <2> QED BY <1>4, <2>2, <2>3, <2>4, <2>5 DEF Handler
<1>5. CASE UNCHANGED vars
  BY <1>5 DEF vars, KeyBurst, Passes, Lately, AgeOf, KeyPasses, KeySince, Setting, UpTo, At, ScopeOf
<1> QED BY <1>3, <1>4, <1>5 DEF Next

-----------------------------------------------------------------------------
(* The counter of a process. *)

EntryBurst(s, p) == Passes(s, p, EntryPasses(s, local[p][s]), EntrySince(s, local[p][s]))

\* What is said of a local window is said of numbers.
LEMMA EntryData ==
  ASSUME NEW s \in Scopes, NEW e, e.count \in Nat, e.age \in Nat
  PROVE  /\ EntryPasses(s, e) \in Nat /\ EntryPasses(s, e) <= Limit[s] /\ EntrySince(s, e) \in Nat
<1>1. UpTo(s, e.count) \in Nat /\ UpTo(s, e.count) <= Limit[s]
  BY UpToCounts
<1>2. Limit[s] \in Nat
  BY RateLimitAssumption
<1> QED BY <1>1, <1>2 DEF EntryPasses, EntrySince

\* What does not count and does not grow older is as it was.
LEMMA EntryKept ==
  ASSUME NEW s \in Scopes, NEW p \in Procs, NEW e, NEW f,
         e.count \in Nat, e.age \in Nat, f.count \in Nat, f.age \in Nat,
         local[p][s] = e, local'[p][s] = f, EntryBurst(s, p), NonePasses(s, p),
         EntryPasses(s, e) <= EntryPasses(s, f), EntrySince(s, f) <= EntrySince(s, e)
  PROVE  EntryBurst(s, p)'
<1>1. PICK m \in Int, later \in Nat : m = EntryPasses(s, f) /\ later = EntrySince(s, f)
  BY EntryData
<1>2. EntryPasses(s, e) \in Int /\ EntrySince(s, e) \in Nat
  BY EntryData
<1>3. Passes(s, p, EntryPasses(s, e), EntrySince(s, e))
  BY DEF EntryBurst
<1>4. Passes(s, p, m, later)'
  BY <1>1, <1>2, <1>3, NoneKept
<1> QED BY <1>1, <1>4 DEF EntryBurst, Passes, EntryPasses, EntrySince, Live, UpTo

\* Time passes for a local window.
LEMMA EntryBurstTick ==
  ASSUME WindowInv, Tick, NEW s \in Scopes, NEW p \in Procs, EntryBurst(s, p)
  PROVE  EntryBurst(s, p)'
<1>1. TypeInv /\ LocalType
  BY Typed DEF WindowInv
<1>2. PICK e : e = local[p][s]
  OBVIOUS
<1>3. e.count \in Nat /\ e.age \in Nat /\ Window[s] \in Nat \ {0}
  BY <1>1, <1>2, RateLimitAssumption DEF LocalType
<1>4. PICK f : f = LaterEntry(s, e)
  OBVIOUS
<1>5. local'[p][s] = f
  BY <1>2, <1>4 DEF Tick
<1>6. f.count \in Nat /\ f.age \in Nat
  BY <1>3, <1>4 DEF LaterEntry, NoEntry, Ended
<1>7. PICK m \in Nat, later \in Nat : m = EntryPasses(s, f) /\ later = EntrySince(s, f)
  BY <1>6, EntryData
<1>8. PICK n \in Nat, since \in Nat : n = EntryPasses(s, e) /\ since = EntrySince(s, e) /\ n <= Limit[s]
  BY <1>3, EntryData
<1>9. Passes(s, p, n, since)
  BY <1>2, <1>8 DEF EntryBurst
<1>10. /\ Lately(s, p)' \subseteq Lately(s, p)
       /\ \A q \in Lately(s, p)' :
             /\ AgeOf(q, s) \in Nat /\ AgeOf(q, s)' = AgeOf(q, s) + 1 /\ AgeOf(q, s) + 1 < Window[s]
  BY <1>1, TickAges
<1>11. UpTo(s, 0) = 0
  BY UpToCounts
<1>12. CASE e # NoEntry /\ Live(s, e) /\ e.age + 1 >= Window[s]
  <2>1. m = 0 /\ later = 0
    BY <1>3, <1>4, <1>7, <1>12 DEF LaterEntry, EntryPasses, EntrySince, Live, Ended
  <2>2. since = e.age
    BY <1>8, <1>12 DEF EntrySince
  <2>3. /\ Lately(s, p)' \subseteq {q \in Lately(s, p) : ~(AgeOf(q, s) >= since)}
        /\ \A q \in Lately(s, p)' : AgeOf(q, s)' \in Nat
    BY <1>3, <1>10, <1>12, <2>2
  <2>4. Passes(s, p, 0, 0)'
    BY <1>8, <1>9, <2>3, PassesOver
  <2>5. Passes(s, p, m, later)'
    BY <2>1, <2>4
  <2> QED BY <1>5, <1>7, <2>5 DEF EntryBurst, Passes, EntryPasses, EntrySince, Live, UpTo
<1>13. CASE ~(e # NoEntry /\ Live(s, e) /\ e.age + 1 >= Window[s])
  <2>1. n <= m /\ later <= since + 1
    <3>1. CASE e = NoEntry
      <4>1. f = NoEntry
        BY <1>4, <3>1 DEF LaterEntry
      <4> QED BY <1>7, <1>8, <3>1, <4>1
    <3>2. CASE e # NoEntry /\ ~Live(s, e)
      <4>1. n = 0
        BY <1>8, <3>2 DEF EntryPasses
      <4>2. e.age + 1 >= Window[s]
        BY <1>3, <3>2 DEF Live
      <4>3. later = 0
        BY <1>4, <1>7, <3>2, <4>2 DEF LaterEntry, Ended, EntrySince, Live
      <4> QED BY <4>1, <4>3
    <3>3. CASE e # NoEntry /\ Live(s, e) /\ ~(e.age + 1 >= Window[s])
      <4>1. f = [count |-> e.count, age |-> e.age + 1]
        BY <1>4, <3>3 DEF LaterEntry
      <4>2. Live(s, f) /\ f.count = e.count /\ f.age = e.age + 1
        BY <1>3, <3>3, <4>1 DEF Live
      <4> QED BY <1>7, <1>8, <3>3, <4>2 DEF EntryPasses, EntrySince
    <3> QED BY <1>13, <3>1, <3>2, <3>3
  <2>2. \A q \in Lately(s, p)' :
            AgeOf(q, s) \in Nat /\ AgeOf(q, s)' \in Nat /\ AgeOf(q, s)' >= AgeOf(q, s) + 1
    BY <1>10
  <2>3. Passes(s, p, m, later)'
    BY <1>9, <1>10, <2>1, <2>2, PassesKept
  <2> QED BY <1>5, <1>7, <2>3 DEF EntryBurst, Passes, EntryPasses, EntrySince, Live, UpTo
<1> QED BY <1>12, <1>13

\* Pruning forgets only what lets nobody pass.
LEMMA PrunedKeeps ==
  ASSUME TypeInv, NEW p \in Procs, NEW s \in Scopes
  PROVE  \E e \in {NoEntry, local[p][s]} :
             /\ Pruned(local[p])[s] = e /\ e.count \in Nat /\ e.age \in Nat
             /\ EntryPasses(s, e) = EntryPasses(s, local[p][s])
             /\ EntrySince(s, e) = EntrySince(s, local[p][s])
<1>1. local[p][s].count \in Nat /\ local[p][s].age \in Nat /\ Window[s] \in Nat \ {0}
  BY RateLimitAssumption, SMTT(30) DEF TypeInv
<1>2. NoEntry.count = 0 /\ NoEntry.age = 0 /\ UpTo(s, 0) = 0
  BY UpToCounts DEF NoEntry
<1>3. EntryPasses(s, NoEntry) = 0 /\ EntrySince(s, NoEntry) = 0
  BY <1>2 DEF EntryPasses, EntrySince
<1>4. CASE Pruned(local[p])[s] = local[p][s]
  BY <1>1, <1>4
<1>5. CASE Pruned(local[p])[s] # local[p][s]
  <2>1. Pruned(local[p])[s] = NoEntry /\ local[p][s].age >= Window[s]
    BY <1>5 DEF Pruned, TypeInv
  <2>2. EntryPasses(s, local[p][s]) = 0 /\ EntrySince(s, local[p][s]) = 0
    BY <1>1, <2>1 DEF EntryPasses, EntrySince, Live
  <2> QED BY <1>2, <1>3, <2>1, <2>2
<1> QED BY <1>4, <1>5

\* Counting locally lets one more pass while the count is within the limit.
LEMMA EntryBurstLocal ==
  ASSUME WindowInv, NEW q \in Requests, CountLocally(q), HandlerMoves(q),
         NEW s \in Scopes, NEW p \in Procs, EntryBurst(s, p)
  PROVE  EntryBurst(s, p)'
<1> DEFINE t == ScopeOf(q)
           mine == ProcOf[q]
           kept == Pruned(local[mine])
           entry == IF kept[t].age >= Window[t] THEN NoEntry ELSE kept[t]
           count == Capped(t, entry.count + 1)
           new == [count |-> count, age |-> entry.age]
<1>1. TypeInv /\ t \in Scopes /\ mine \in Procs /\ mine \in {"redis"} \cup Procs
  BY CheckOfScope, RateLimitAssumption DEF WindowInv
<1>2. local' = [local EXCEPT ![mine] = [kept EXCEPT ![t] = new]] /\ Verdict(q, count, mine)
  BY DEF CountLocally
<1>3. local[p][s].count \in Nat /\ local[p][s].age \in Nat
  BY <1>1 DEF TypeInv
<1>4. kept = [u \in Scopes |-> kept[u]]
  BY <1>1 DEF Pruned, TypeInv
<1>5. PICK e \in {NoEntry, local[mine][t]} :
          /\ kept[t] = e /\ e.count \in Nat /\ e.age \in Nat
          /\ EntryPasses(t, e) = EntryPasses(t, local[mine][t])
          /\ EntrySince(t, e) = EntrySince(t, local[mine][t])
  BY <1>1, PrunedKeeps
<1>6. /\ entry.count \in Nat /\ entry.age \in Nat /\ Live(t, entry)
      /\ EntryPasses(t, entry) = EntryPasses(t, e) /\ EntrySince(t, entry) = EntrySince(t, e)
  <2>1. NoEntry.count = 0 /\ NoEntry.age = 0 /\ UpTo(t, 0) = 0 /\ Window[t] \in Nat \ {0}
    <3>1. UpTo(t, 0) = 0
      BY <1>1, RateLimitAssumption DEF UpTo
    <3>2. Window[t] \in Nat \ {0}
      BY <1>1, RateLimitAssumption
    <3> QED BY <3>1, <3>2 DEF NoEntry
  <2>2. CASE e.age >= Window[t]
    <3>1. entry = NoEntry
      BY <1>5, <2>2
    <3>2. ~Live(t, e) /\ Live(t, NoEntry)
      BY <1>5, <2>1, <2>2 DEF Live
    <3> QED BY <2>1, <3>1, <3>2 DEF EntryPasses, EntrySince
  <2>3. CASE ~(e.age >= Window[t])
    <3>1. entry = e
      BY <1>5, <2>3
    <3>2. Live(t, e)
      BY <1>5, <2>1, <2>3 DEF Live
    <3> QED BY <1>5, <3>1, <3>2
  <2> QED BY <2>2, <2>3
<1> HIDE DEF kept, entry
<1>7. count \in Nat
  BY <1>1, <1>6, CappedCount
<1>8. CASE p # mine
  <2>1. local'[p][s] = local[p][s]
    BY <1>1, <1>2, <1>8 DEF TypeInv
  <2>2. NonePasses(s, p)
    BY <1>1, <1>2, <1>7, <1>8, VerdictPasses
  <2>3. /\ EntryPasses(s, local[p][s]) <= EntryPasses(s, local[p][s])
        /\ EntrySince(s, local[p][s]) <= EntrySince(s, local[p][s])
    BY <1>3, EntryData
  <2> QED BY <1>3, <2>1, <2>2, <2>3, EntryKept
<1>9. CASE p = mine /\ s # t
  <2>1. PICK f \in {NoEntry, local[p][s]} :
            /\ Pruned(local[p])[s] = f /\ f.count \in Nat /\ f.age \in Nat
            /\ EntryPasses(s, f) = EntryPasses(s, local[p][s])
            /\ EntrySince(s, f) = EntrySince(s, local[p][s])
    BY <1>1, PrunedKeeps
  <2>2. local'[p][s] = f
    <3>1. local'[p] = [kept EXCEPT ![t] = new]
      BY <1>1, <1>2, <1>9 DEF TypeInv
    <3>2. local'[p][s] = kept[s]
      BY <1>4, <1>9, <3>1
    <3> QED BY <2>1, <3>2, <1>9 DEF kept
  <2>3. NonePasses(s, p)
    BY <1>1, <1>2, <1>7, <1>9, VerdictPasses
  <2>4. EntryPasses(s, local[p][s]) <= EntryPasses(s, f) /\ EntrySince(s, f) <= EntrySince(s, local[p][s])
    BY <1>3, <2>1, EntryData
  <2> QED BY <1>3, <2>1, <2>2, <2>3, <2>4, EntryKept
<1>10. CASE p = mine /\ s = t
  <2>1. local'[p][s] = new
    <3>1. local'[p] = [kept EXCEPT ![t] = new]
      BY <1>1, <1>2, <1>10 DEF TypeInv
    <3> QED BY <1>1, <1>4, <1>10, <3>1
  <2>2. Live(s, new) /\ new.count = count /\ new.age = entry.age
    BY <1>6, <1>10 DEF Live
  <2>3. EntryPasses(s, new) = UpTo(s, count) /\ EntrySince(s, new) = entry.age
    BY <2>2 DEF EntryPasses, EntrySince
  <2>4. /\ EntryPasses(s, local[p][s]) = UpTo(s, entry.count)
        /\ EntrySince(s, local[p][s]) = entry.age
    BY <1>5, <1>6, <1>10 DEF EntryPasses, EntrySince
  <2>5. /\ UpTo(s, entry.count) \in Nat /\ UpTo(s, count) \in Nat
        /\ UpTo(s, entry.count) <= UpTo(s, count)
        /\ count <= Limit[s] => UpTo(s, entry.count) + 1 <= UpTo(s, count)
    BY <1>6, <1>7, <1>10, UpToCounts
  <2>6. CASE NonePasses(s, p)
    <3>1. EntryPasses(s, local[p][s]) <= EntryPasses(s, new) /\ EntrySince(s, new) <= EntrySince(s, local[p][s])
      BY <1>6, <2>3, <2>4, <2>5
    <3>2. new.count \in Nat /\ new.age \in Nat
      BY <1>6, <1>7
    <3> HIDE DEF new
    <3> QED BY <1>3, <2>1, <2>6, <3>1, <3>2, EntryKept
  <2>7. CASE ~NonePasses(s, p)
    <3>1. OnlyPasses(q, s, p) /\ (count > Limit[s] => NonePasses(s, p))
      BY <1>1, <1>2, <1>7, <1>10, VerdictPasses
    <3>2. Limit[s] \in Nat
      BY RateLimitAssumption
    <3>3. count <= Limit[s]
      BY <1>7, <2>7, <3>1, <3>2
    <3>4. PICK n \in Nat, m \in Nat, since \in Nat :
              n = UpTo(s, entry.count) /\ m = UpTo(s, count) /\ since = entry.age
      BY <1>6, <2>5
    <3>5. n + 1 <= m /\ Passes(s, p, n, since)
      BY <2>4, <2>5, <3>3, <3>4 DEF EntryBurst
    <3>6. Passes(s, p, m, since)'
      BY <3>1, <3>4, <3>5, OneMore
    <3>7. EntryPasses(s, local'[p][s]) = m /\ EntrySince(s, local'[p][s]) = since
      BY <2>1, <2>3, <3>4
    <3> QED BY <3>6, <3>7 DEF EntryBurst, Passes, EntryPasses, EntrySince, Live, UpTo
  <2> QED BY <2>6, <2>7
<1> QED BY <1>8, <1>9, <1>10

\* Every step keeps a local window's account.
LEMMA EntryBurstStep ==
  ASSUME WindowInv, [Next]_vars, NEW s \in Scopes, NEW p \in Procs, EntryBurst(s, p)
  PROVE  EntryBurst(s, p)'
<1>1. TypeInv /\ p # "redis"
  BY RateLimitAssumption DEF WindowInv
<1>2. CASE Tick
  BY <1>2, EntryBurstTick
<1>3. ASSUME NEW q \in Requests, Handler(q) PROVE EntryBurst(s, p)'
  <2>1. HandlerMoves(q)
    BY <1>1, <1>3, HandlersMove
  <2>2. CASE CountLocally(q)
    BY <2>1, <2>2, EntryBurstLocal
  <2>3. CASE ~CountLocally(q)
    <3>1. local' = local
      BY <1>3, <2>3 DEF Handler, Arrive, SkipDisabled, Incr, Expire, IncrFails, ExpireFails, Proceed, Answer
    <3>2. NonePasses(s, p)
      <4>1. CASE \/ Arrive(q) \/ SkipDisabled(q) \/ Proceed(q) \/ Answer(q)
                 \/ (Incr(q) /\ key[ScopeOf(q)].count = 0)
        BY <1>1, <2>1, <4>1, OthersPass
      <4>2. CASE Incr(q) /\ key[ScopeOf(q)].count # 0
        <5>1. Verdict(q, Counted(ScopeOf(q)), "redis")
          BY <4>2 DEF Incr
        <5>2. Counted(ScopeOf(q)) \in Nat
          BY <1>1, <4>2, CheckOfScope, HitMore DEF Incr
        <5> QED BY <1>1, <5>1, <5>2, VerdictPasses
      <4>3. CASE Expire(q)
        <5>1. Verdict(q, 1, "redis")
          BY <4>3 DEF Expire
        <5> QED BY <1>1, <5>1, VerdictPasses
      <4> QED BY <1>3, <2>3, <4>1, <4>2, <4>3 DEF Handler, IncrFails, ExpireFails
    <3>3. local[p][s].count \in Nat /\ local[p][s].age \in Nat
      BY <1>1 DEF TypeInv
    <3>4. /\ EntryPasses(s, local[p][s]) <= EntryPasses(s, local[p][s])
          /\ EntrySince(s, local[p][s]) <= EntrySince(s, local[p][s])
      BY <3>3, EntryData
    <3> QED BY <3>1, <3>2, <3>3, <3>4, EntryKept
  <2> QED BY <2>2, <2>3
<1>4. CASE UNCHANGED vars
  BY <1>4 DEF vars, EntryBurst, Passes, Lately, AgeOf, EntryPasses, EntrySince, Live, UpTo
<1> QED BY <1>2, <1>3, <1>4 DEF Next

-----------------------------------------------------------------------------
\* Nobody has passed at first.
LEMMA BurstInit == Init => BurstInv
<1> SUFFICES ASSUME Init PROVE BurstInv
  OBVIOUS
<1>1. ASSUME NEW s \in Scopes, NEW by PROVE Passes(s, by, 0, 0)
  <2>1. Lately(s, by) = {}
    BY RateLimitAssumption DEF Init, Idle, LongAgo, Lately
  <2>2. Limit[s] \in Nat
    BY RateLimitAssumption
  <2>3. IsFiniteSet({}) /\ Cardinality({}) = 0
    BY FS_EmptySet
  <2>4. Lately(s, by) \ {} = {}
    BY <2>1
  <2> QED BY <2>2, <2>3, <2>4 DEF Passes
<1>2. ASSUME NEW s \in Scopes PROVE KeyPasses(s) = 0 /\ KeySince(s) = 0
  <2>1. ~Setting(s)
    BY DEF Init, Setting, At, Idle
  <2>2. key[s].count = 0 /\ key[s].ttl = Forever
    BY DEF Init, NoKey
  <2>3. UpTo(s, 0) = 0
    BY RateLimitAssumption DEF UpTo
  <2> QED BY <2>1, <2>2, <2>3 DEF KeyPasses, KeySince
<1>3. ASSUME NEW s \in Scopes, NEW p \in Procs
      PROVE  EntryPasses(s, local[p][s]) = 0 /\ EntrySince(s, local[p][s]) = 0
  <2>1. local[p][s].count = 0 /\ local[p][s].age = 0
    BY DEF Init, NoEntry
  <2>2. UpTo(s, 0) = 0
    BY RateLimitAssumption DEF UpTo
  <2> QED BY <2>1, <2>2 DEF EntryPasses, EntrySince
<1> QED BY <1>1, <1>2, <1>3 DEF BurstInv

\* Every step keeps all accounts.
LEMMA BurstNext == WindowInv /\ BurstInv /\ [Next]_vars => BurstInv'
<1> SUFFICES ASSUME WindowInv, BurstInv, [Next]_vars, NEW s \in Scopes, Limit[s] > 0
             PROVE  KeyBurst(s)' /\ \A p \in Procs : EntryBurst(s, p)'
  BY DEF BurstInv, KeyBurst, EntryBurst
<1>1. KeyBurst(s) /\ \A p \in Procs : EntryBurst(s, p)
  BY DEF BurstInv, KeyBurst, EntryBurst
<1> QED BY <1>1, KeyBurstStep, EntryBurstStep

\* Two windows are all that one window's length can touch.
LEMMA TwoWindows ==
  ASSUME NEW s \in Scopes, NEW by, NEW n \in Int, NEW since \in Nat, n <= Limit[s],
         Passes(s, by, n, since)
  PROVE  Cardinality(Lately(s, by)) <= 2 * Limit[s]
<1>1. PICK before \in SUBSET Lately(s, by) :
          /\ IsFiniteSet(before) /\ Cardinality(before) <= Limit[s]
          /\ IsFiniteSet(Lately(s, by) \ before) /\ Cardinality(Lately(s, by) \ before) <= n
  BY DEF Passes
<1>2. PICK rest : rest = Lately(s, by) \ before
  OBVIOUS
<1>3. IsFiniteSet(rest) /\ Cardinality(rest) <= n /\ before \cup rest = Lately(s, by)
  BY <1>1, <1>2
<1>4. before \cap rest = {}
  BY <1>2
<1>5. /\ Cardinality(before) \in Nat /\ Cardinality(rest) \in Nat
      /\ Cardinality(before \cup rest)
           = Cardinality(before) + Cardinality(rest) - Cardinality(before \cap rest)
  BY <1>1, <1>3, FS_Union, FS_CardinalityType
<1>6. Cardinality(before \cap rest) = 0
  BY <1>4, FS_EmptySet
<1>7. Limit[s] \in Nat
  BY RateLimitAssumption
<1>8. Cardinality(before \cup rest) <= 2 * Limit[s]
  BY <1>1, <1>3, <1>5, <1>6, <1>7
<1> QED BY <1>3, <1>8

\* Two windows' worth is all that any stretch of one window's length lets pass by one
\* counter, for any limits, windows, handlers and processes, whichever commands fail and
\* however many processes count on their own (BurstBounded: ratelimit.py:75-121).
THEOREM BurstsAreBounded == Spec => []BurstBounded
<1>1. WindowInv /\ [Next]_vars => WindowInv'
  BY WindowNext
<1>2. WindowInv /\ BurstInv => BurstBounded
  <2> SUFFICES ASSUME WindowInv, BurstInv, NEW s \in Scopes, Limit[s] > 0,
                      NEW by \in {"redis"} \cup Procs
               PROVE  Cardinality(Lately(s, by)) <= 2 * Limit[s]
    BY DEF BurstBounded
  <2>1. TypeInv /\ KeyType
    BY Typed DEF WindowInv
  <2>2. CASE by = "redis"
    <3>1. KeyPasses(s) \in Int /\ KeyPasses(s) <= Limit[s] /\ KeySince(s) \in Nat
      BY <2>1, KeyData
    <3>2. Passes(s, "redis", KeyPasses(s), KeySince(s))
      BY DEF BurstInv
    <3> QED BY <2>2, <3>1, <3>2, TwoWindows
  <2>3. CASE by \in Procs
    <3>1. local[by][s].count \in Nat /\ local[by][s].age \in Nat
      BY <2>1, <2>3 DEF TypeInv
    <3>2. /\ EntryPasses(s, local[by][s]) \in Int /\ EntryPasses(s, local[by][s]) <= Limit[s]
          /\ EntrySince(s, local[by][s]) \in Nat
      BY <3>1, EntryData
    <3>3. Passes(s, by, EntryPasses(s, local[by][s]), EntrySince(s, local[by][s]))
      BY <2>3 DEF BurstInv
    <3> QED BY <3>2, <3>3, TwoWindows
  <2> QED BY <2>2, <2>3
<1> QED BY <1>1, <1>2, WindowInit, BurstInit, BurstNext, PTL DEF Spec

-----------------------------------------------------------------------------
(* The throttle (Throttle).                                                *)

Places == {"idle", "asking", "taken", "waiting", "local", "granted", "calling", "backoff"}
Stage == [pc : Places, sleep : Int, waited : Int, attempt : Nat]

ThrottleTyped ==
    /\ slot \in Nat
    /\ next \in [Workers -> Nat]
    /\ granted \in [Sources -> Nat]
    /\ lookup \in [Lookups -> Stage]

\* The key outlives the interval of its last grant.
SharedHeld == granted[Shared] + slot >= Interval

\* So does the local clock, of its process.
ClockAhead == \A w \in Workers : granted[w] + next[w] >= Interval

\* A local sleeper's turn comes an interval after the last grant, and before the clock.
SleeperDue(l) ==
    /\ lookup[l].sleep >= 0
    /\ granted[WorkerOf[l]] + lookup[l].sleep >= Interval
    /\ lookup[l].sleep + Interval <= next[WorkerOf[l]]
SleepersDue == \A l \in Lookups : Doing(l, "local") => SleeperDue(l)

\* Two sleepers of a process are an interval apart.
Apart(l, m) ==
    \/ lookup[l].sleep + Interval <= lookup[m].sleep
    \/ lookup[m].sleep + Interval <= lookup[l].sleep
SleepersApart ==
    \A l, m \in Lookups :
        l # m /\ Doing(l, "local") /\ Doing(m, "local") /\ WorkerOf[l] = WorkerOf[m] => Apart(l, m)

Spaced == ThrottleTyped /\ SharedHeld /\ ClockAhead /\ SleepersDue /\ SleepersApart

-----------------------------------------------------------------------------
(* What one lookup's step does to the others: nothing; and to its own stage. *)

\* Only lookup l has moved, to a stage r with this place and this sleep.
Moved(f, g, l, pc, sleep) ==
    /\ g \in [Lookups -> Stage]
    /\ g[l].pc = pc /\ g[l].sleep = sleep
    /\ \A m \in Lookups : m # l => g[m] = f[m]

\* Replacing the stage of one lookup.
LEMMA Placed ==
  ASSUME NEW f \in [Lookups -> Stage], NEW l \in Lookups, NEW r \in Stage,
         NEW g, g = [f EXCEPT ![l] = r]
  PROVE  Moved(f, g, l, r.pc, r.sleep) /\ g[l] = r
  BY DEF Moved

\* The fields a step sets.
LEMMA PcSet ==
  ASSUME NEW r \in Stage, NEW pc \in Places
  PROVE  /\ [r EXCEPT !.pc = pc] \in Stage
         /\ [r EXCEPT !.pc = pc].pc = pc /\ [r EXCEPT !.pc = pc].sleep = r.sleep
         /\ [r EXCEPT !.pc = pc].waited = r.waited
  BY Zenon DEF Stage

\* Setting what a lookup has waited.
LEMMA WaitedSet ==
  ASSUME NEW r \in Stage, NEW n \in Int
  PROVE  /\ [r EXCEPT !.waited = n] \in Stage
         /\ [r EXCEPT !.waited = n].pc = r.pc /\ [r EXCEPT !.waited = n].sleep = r.sleep
         /\ [r EXCEPT !.waited = n].waited = n
  BY Zenon DEF Stage

\* Setting when a sleeper is due.
LEMMA SleepSet ==
  ASSUME NEW r \in Stage, NEW n \in Int
  PROVE  /\ [r EXCEPT !.sleep = n] \in Stage
         /\ [r EXCEPT !.sleep = n].pc = r.pc /\ [r EXCEPT !.sleep = n].sleep = n
         /\ [r EXCEPT !.sleep = n].waited = r.waited
  BY Zenon DEF Stage

\* Setting the attempt.
LEMMA AttemptSet ==
  ASSUME NEW r \in Stage, NEW n \in Nat
  PROVE  /\ [r EXCEPT !.attempt = n] \in Stage
         /\ [r EXCEPT !.attempt = n].pc = r.pc /\ [r EXCEPT !.attempt = n].sleep = r.sleep
         /\ [r EXCEPT !.attempt = n].waited = r.waited
  BY Zenon DEF Stage

\* A backoff is an integer.
LEMMA PowersAreIntegers == ASSUME NEW n \in Nat PROVE 2 ^ n \in Int
  OBVIOUS

\* A lookup that is away.
LEMMA AwayIsAStage == Away \in Stage /\ Away.pc = "idle" /\ Away.waited = 0
  BY DEF Away, Stage, Places

\* The ways in which an action writes a stage.
LEMMA DoesMoves ==
  ASSUME lookup \in [Lookups -> Stage], NEW l \in Lookups, NEW pc \in Places, Does(l, pc)
  PROVE  Moved(lookup, lookup', l, pc, lookup[l].sleep) /\ lookup'[l].waited = lookup[l].waited
<1> DEFINE r == [lookup[l] EXCEPT !.pc = pc]
<1>1. lookup' = [lookup EXCEPT ![l] = r]
  BY Zenon DEF Does
<1>2. r \in Stage /\ r.pc = pc /\ r.sleep = lookup[l].sleep /\ r.waited = lookup[l].waited
  <2>1. lookup[l] \in Stage  OBVIOUS
  <2>2. QED  BY <2>1, PcSet
<1> HIDE DEF r
<1>3. Moved(lookup, lookup', l, r.pc, r.sleep) /\ lookup'[l] = r
  BY <1>1, <1>2, Placed
<1>4. QED  BY <1>2, <1>3

\* A lookup that ends.
LEMMA EndsMoves ==
  ASSUME lookup \in [Lookups -> Stage], NEW l \in Lookups, Ends(l)
  PROVE  Moved(lookup, lookup', l, "idle", Away.sleep) /\ lookup'[l].waited = 0
<1>1. Moved(lookup, lookup', l, Away.pc, Away.sleep) /\ lookup'[l] = Away
  BY AwayIsAStage, Placed DEF Ends
<1>2. QED  BY <1>1, AwayIsAStage

\* A lookup that is granted a slot.
LEMMA GrantedMoves ==
  ASSUME lookup \in [Lookups -> Stage], NEW l \in Lookups, NEW s, Granted(l, s)
  PROVE  Moved(lookup, lookup', l, "granted", lookup[l].sleep) /\ lookup'[l].waited = 0
<1> DEFINE q == [lookup[l] EXCEPT !.pc = "granted"]
           r == [q EXCEPT !.waited = 0]
<1>1. lookup' = [lookup EXCEPT ![l] = r]
  <2>1. lookup' = [lookup EXCEPT ![l].pc = "granted", ![l].waited = 0]
    BY DEF Granted
  <2>2. QED  BY <2>1, Zenon
<1>2. q \in Stage /\ q.pc = "granted" /\ q.sleep = lookup[l].sleep
  <2>1. lookup[l] \in Stage /\ "granted" \in Places  BY DEF Places
  <2>2. QED  BY <2>1, PcSet
<1> HIDE DEF q
<1>3. r \in Stage /\ r.pc = "granted" /\ r.sleep = lookup[l].sleep /\ r.waited = 0
  BY <1>2, WaitedSet
<1> HIDE DEF r
<1>4. Moved(lookup, lookup', l, r.pc, r.sleep) /\ lookup'[l] = r
  BY <1>1, <1>3, Placed
<1>5. QED  BY <1>3, <1>4

\* A lookup that goes to sleep.
LEMMA SleepMoves ==
  ASSUME lookup \in [Lookups -> Stage], NEW l \in Lookups, NEW pc \in Places, NEW n \in Int,
         lookup' = [lookup EXCEPT ![l].pc = pc, ![l].sleep = n]
  PROVE  Moved(lookup, lookup', l, pc, n) /\ lookup'[l].waited = lookup[l].waited
<1> DEFINE q == [lookup[l] EXCEPT !.pc = pc]
           r == [q EXCEPT !.sleep = n]
<1>1. lookup' = [lookup EXCEPT ![l] = r]
  BY Zenon
<1>2. q \in Stage /\ q.pc = pc /\ q.waited = lookup[l].waited
  <2>1. lookup[l] \in Stage  OBVIOUS
  <2>2. QED  BY <2>1, PcSet
<1> HIDE DEF q
<1>3. r \in Stage /\ r.pc = pc /\ r.sleep = n /\ r.waited = lookup[l].waited
  BY <1>2, SleepSet
<1> HIDE DEF r
<1>4. Moved(lookup, lookup', l, r.pc, r.sleep) /\ lookup'[l] = r
  BY <1>1, <1>3, Placed
<1>5. QED  BY <1>3, <1>4

\* A lookup that books the next local slot.
LEMMA QueuesMoves ==
  ASSUME ThrottleTyped, NEW l \in Lookups, Queues(l)
  PROVE  /\ Moved(lookup, lookup', l, "local", next[WorkerOf[l]]) /\ lookup'[l].waited = lookup[l].waited
         /\ next' = [next EXCEPT ![WorkerOf[l]] = @ + Interval]
<1> DEFINE w == WorkerOf[l]
<1>1. /\ lookup' = [lookup EXCEPT ![l].pc = "local", ![l].sleep = next[w]]
      /\ next' = [next EXCEPT ![w] = @ + Interval]
  BY DEF Queues
<1>2. lookup \in [Lookups -> Stage] /\ "local" \in Places /\ next[w] \in Int
  BY ThrottleAssumption DEF ThrottleTyped, Places
<1> HIDE DEF w
<1>3. Moved(lookup, lookup', l, "local", next[w]) /\ lookup'[l].waited = lookup[l].waited
  BY <1>1, <1>2, SleepMoves
<1>4. QED  BY <1>1, <1>3 DEF w

\* A lookup that waits for the key within its budget, or gives up.
LEMMA WaitMoves ==
  ASSUME ThrottleTyped, NEW l \in Lookups, WaitForSlot(l)
  PROVE  \E pc \in {"idle", "waiting"}, n \in Int :
             /\ Moved(lookup, lookup', l, pc, n)
             /\ pc = "idle" => lookup'[l].waited = 0
             /\ pc = "waiting" => /\ lookup'[l].waited = lookup[l].waited
                                 /\ lookup[l].waited + n <= MaxWait /\ n >= 0
<1> DEFINE n == Least(MaxWait - lookup[l].waited, IF slot > 0 THEN slot ELSE Quarter)
<1>1. CASE lookup[l].waited >= MaxWait
  <2>1. Moved(lookup, lookup', l, "idle", Away.sleep) /\ lookup'[l].waited = 0
    BY <1>1, EndsMoves DEF WaitForSlot, ThrottleTyped
  <2>2. Away.sleep \in Int
    BY DEF Away
  <2>3. QED  BY <2>1, <2>2
<1>2. CASE ~(lookup[l].waited >= MaxWait)
  <2>1. lookup' = [lookup EXCEPT ![l].pc = "waiting", ![l].sleep = n]
    BY <1>2 DEF WaitForSlot
  <2>2. n \in Int /\ n >= 0 /\ lookup[l].waited + n <= MaxWait
    <3>1. lookup[l].waited \in Int /\ slot \in Int /\ MaxWait \in Int
      BY ThrottleAssumption DEF ThrottleTyped, Stage
    <3>2. Quarter \in Int /\ Quarter >= 0
      BY ThrottleAssumption DEF Quarter, AtLeast
    <3>3. QED  BY <1>2, <3>1, <3>2 DEF Least
  <2>3. lookup \in [Lookups -> Stage] /\ "waiting" \in Places
    BY DEF ThrottleTyped, Places
  <2> HIDE DEF n
  <2>4. Moved(lookup, lookup', l, "waiting", n) /\ lookup'[l].waited = lookup[l].waited
    BY <2>1, <2>2, <2>3, SleepMoves
  <2>5. QED  BY <2>2, <2>4
<1>3. QED  BY <1>1, <1>2

\* A lookup whose call failed backs off.
LEMMA TransientMoves ==
  ASSUME ThrottleTyped, NEW l \in Lookups, Transient(l)
  PROVE  \E n \in Int :
             Moved(lookup, lookup', l, "backoff", n) /\ lookup'[l].waited = lookup[l].waited
<1> DEFINE k == lookup[l].attempt + 1
           n == 2 ^ lookup[l].attempt
           p == [lookup[l] EXCEPT !.pc = "backoff"]
           q == [p EXCEPT !.attempt = k]
           r == [q EXCEPT !.sleep = n]
<1>1. lookup' = [lookup EXCEPT ![l] = r]
  <2>1. lookup' = [lookup EXCEPT ![l].pc = "backoff", ![l].attempt = @ + 1,
                                 ![l].sleep = 2 ^ lookup[l].attempt]
    BY DEF Transient
  <2>2. QED  BY <2>1, Zenon
<1>2. lookup[l] \in Stage /\ lookup \in [Lookups -> Stage] /\ "backoff" \in Places
  BY DEF ThrottleTyped, Places
<1>3. k \in Nat /\ n \in Int
  <2>1. lookup[l].attempt \in Nat
    BY <1>2 DEF Stage
  <2>2. QED  BY <2>1, PowersAreIntegers
<1> HIDE DEF k, n
<1>4. p \in Stage /\ p.pc = "backoff" /\ p.waited = lookup[l].waited
  BY <1>2, PcSet
<1> HIDE DEF p
<1>5. q \in Stage /\ q.pc = "backoff" /\ q.waited = lookup[l].waited
  BY <1>3, <1>4, AttemptSet
<1> HIDE DEF q
<1>6. r \in Stage /\ r.pc = "backoff" /\ r.sleep = n /\ r.waited = lookup[l].waited
  BY <1>3, <1>5, SleepSet
<1> HIDE DEF r
<1>7. Moved(lookup, lookup', l, "backoff", n) /\ lookup'[l].waited = lookup[l].waited
  <2>1. Moved(lookup, lookup', l, r.pc, r.sleep) /\ lookup'[l] = r
    BY <1>1, <1>2, <1>6, Placed
  <2>2. QED  BY <1>6, <2>1
<1>8. QED  BY <1>3, <1>7


-----------------------------------------------------------------------------
(* The steps.                                                                *)

GrantsSpaced ==
    \A l \in Lookups : ~Doing(l, "granted") /\ Doing(l, "granted")'
                           => granted[GrantBy(l)] >= Interval

\* A step that neither takes a place in a queue nor grants one.
LEMMA QuietStep ==
  ASSUME Spaced, NEW l \in Lookups, NEW pc \in Places \ {"local", "granted"}, NEW n \in Int,
         Moved(lookup, lookup', l, pc, n), UNCHANGED <<slot, next, granted>>
  PROVE  Spaced' /\ GrantsSpaced
<1>1. ThrottleTyped' /\ SharedHeld' /\ ClockAhead'
  BY DEF Spaced, ThrottleTyped, SharedHeld, ClockAhead, Moved
<1>2. \A m \in Lookups : Doing(m, "local")' => m # l /\ Doing(m, "local") /\ lookup'[m] = lookup[m]
  BY DEF Moved, Doing
<1>3. SleepersDue'
  BY <1>2 DEF Spaced, SleepersDue, SleeperDue
<1>4. SleepersApart'
  BY <1>2 DEF Spaced, SleepersApart, Apart
<1>5. GrantsSpaced
  BY DEF GrantsSpaced, Moved, Doing
<1>6. QED  BY <1>1, <1>3, <1>4, <1>5 DEF Spaced

\* The steps that grant nothing.
LEMMA QuietSteps ==
  ASSUME Spaced, NEW l \in Lookups,
         \/ Seek(l) \/ Taken(l) \/ WaitForSlot(l) \/ Wake(l) \/ CallStep(l)
  PROVE  Spaced' /\ GrantsSpaced
<1>0. ThrottleTyped /\ lookup \in [Lookups -> Stage]
  BY DEF Spaced, ThrottleTyped
<1>1. lookup[l].sleep \in Int /\ Away.sleep \in Int
  BY <1>0 DEF Stage, Away
<1>2. UNCHANGED <<slot, next, granted>>
  BY DEF Seek, Taken, WaitForSlot, Wake, CallStep, CallUpstream, NotTheProbe, Concluded, Transient
<1>3. CASE \E pc \in {"asking", "taken", "calling"} : Does(l, pc)
  <2>1. PICK pc \in {"asking", "taken", "calling"} : Does(l, pc)
    BY <1>3
  <2>2. pc \in Places \ {"local", "granted"} /\ pc \in Places
    BY DEF Places
  <2>3. Moved(lookup, lookup', l, pc, lookup[l].sleep)
    BY <1>0, <2>1, <2>2, DoesMoves
  <2>4. QED  BY <1>1, <1>2, <2>2, <2>3, QuietStep
<1>4. CASE Ends(l)
  <2>1. Moved(lookup, lookup', l, "idle", Away.sleep)
    BY <1>0, <1>4, EndsMoves
  <2>2. "idle" \in Places \ {"local", "granted"}
    BY DEF Places
  <2>3. QED  BY <1>1, <1>2, <2>1, <2>2, QuietStep
<1>5. CASE WaitForSlot(l)
  <2>1. PICK pc \in {"idle", "waiting"}, n \in Int : Moved(lookup, lookup', l, pc, n)
    BY <1>0, <1>5, WaitMoves
  <2>2. pc \in Places \ {"local", "granted"}
    BY DEF Places
  <2>3. QED  BY <1>2, <2>1, <2>2, QuietStep
<1>6. CASE Transient(l)
  <2>1. PICK n \in Int : Moved(lookup, lookup', l, "backoff", n)
    BY <1>0, <1>6, TransientMoves
  <2>2. "backoff" \in Places \ {"local", "granted"}
    BY DEF Places
  <2>3. QED  BY <1>2, <2>1, <2>2, QuietStep
<1>7. QED
  BY <1>3, <1>4, <1>5, <1>6
     DEF Seek, Taken, Wake, CallStep, CallUpstream, NotTheProbe, Concluded

\* The key was free, so its last grant is an interval ago; now it is set for another.
LEMMA GrabStep ==
  ASSUME Spaced, NEW l \in Lookups, Grab(l)
  PROVE  Spaced' /\ GrantsSpaced
<1>0. /\ ThrottleTyped /\ lookup \in [Lookups -> Stage]
      /\ Shared \in Sources /\ Workers \subseteq Sources /\ Shared \notin Workers
      /\ Interval \in Nat /\ WorkerOf \in [Lookups -> Workers]
  BY ThrottleAssumption DEF Spaced, ThrottleTyped, Sources, Shared
<1>1. Moved(lookup, lookup', l, "granted", lookup[l].sleep)
  BY <1>0, GrantedMoves DEF Grab
<1>2. /\ slot = 0 /\ slot' = Interval /\ next' = next /\ Doing(l, "asking")
      /\ granted' = [granted EXCEPT ![Shared] = 0]
  BY DEF Grab, Granted
<1>3. ThrottleTyped'
  BY <1>0, <1>1, <1>2 DEF ThrottleTyped, Moved
<1>4. SharedHeld' /\ ClockAhead'
  BY <1>0, <1>2 DEF Spaced, ThrottleTyped, SharedHeld, ClockAhead
<1>5. \A m \in Lookups : Doing(m, "local")' => m # l /\ Doing(m, "local") /\ lookup'[m] = lookup[m]
  BY <1>1 DEF Moved, Doing
<1>6. SleepersDue'
  BY <1>0, <1>2, <1>5 DEF Spaced, ThrottleTyped, SleepersDue, SleeperDue
<1>7. SleepersApart'
  BY <1>5 DEF Spaced, SleepersApart, Apart
<1>8. GrantsSpaced
  <2>1. granted[Shared] >= Interval
    BY <1>0, <1>2 DEF Spaced, ThrottleTyped, SharedHeld
  <2>2. GrantBy(l) = Shared
    BY <1>2 DEF GrantBy, Doing
  <2>3. QED  BY <1>1, <2>1, <2>2 DEF GrantsSpaced, Moved, Doing
<1>9. QED  BY <1>3, <1>4, <1>6, <1>7, <1>8 DEF Spaced

\* A caller joins the queue of its process at the end; the key may have been set all the same.
LEMMA QueueStep ==
  ASSUME Spaced, NEW l \in Lookups, FallBack(l) \/ SetUnanswered(l)
  PROVE  Spaced' /\ GrantsSpaced
<1> DEFINE w == WorkerOf[l]
<1>0. /\ ThrottleTyped /\ lookup \in [Lookups -> Stage] /\ w \in Workers
      /\ Interval \in Nat /\ WorkerOf \in [Lookups -> Workers]
      /\ Shared \in Sources /\ Workers \subseteq Sources
      /\ \A m \in Lookups : lookup[m].sleep \in Int
  BY ThrottleAssumption DEF Spaced, ThrottleTyped, Stage, Sources, Shared
<1>1. Moved(lookup, lookup', l, "local", next[w]) /\ next' = [next EXCEPT ![w] = @ + Interval]
  BY <1>0, QueuesMoves DEF FallBack, SetUnanswered
<1>2. /\ granted' = granted /\ slot' \in {slot, Interval} /\ slot' >= slot
      /\ ~Doing(l, "local")
  BY <1>0 DEF FallBack, SetUnanswered, Doing, ThrottleTyped
<1> HIDE DEF w
<1>3. ThrottleTyped'
  BY <1>0, <1>1, <1>2 DEF ThrottleTyped, Moved
<1>4. SharedHeld'
  BY <1>0, <1>2 DEF Spaced, ThrottleTyped, SharedHeld
<1>5. /\ \A v \in Workers : next'[v] = IF v = w THEN next[v] + Interval ELSE next[v]
      /\ \A v \in Workers : next[v] \in Nat /\ granted[v] \in Nat
  BY <1>0, <1>1 DEF ThrottleTyped
<1>6. ClockAhead'
  BY <1>0, <1>2, <1>5 DEF Spaced, ClockAhead
<1>7. /\ lookup'[l].sleep = next[w]
      /\ \A m \in Lookups \ {l} : lookup'[m] = lookup[m]
  BY <1>1 DEF Moved
<1>8. SleeperDue(l)'
  <2>1. next[w] + granted[w] >= Interval /\ next[w] >= 0
    BY <1>0, <1>5 DEF Spaced, ClockAhead
  <2>2. next'[w] = next[w] + Interval
    BY <1>0, <1>5
  <2>3. QED  BY <1>0, <1>2, <1>5, <1>7, <2>1, <2>2 DEF SleeperDue, w
<1>9. ASSUME NEW m \in Lookups \ {l}, Doing(m, "local")'
      PROVE  SleeperDue(m)' /\ Doing(m, "local") /\ SleeperDue(m)
  <2>1. Doing(m, "local") /\ SleeperDue(m)
    BY <1>7, <1>9 DEF Doing, Spaced, SleepersDue
  <2>2. WorkerOf[m] \in Workers /\ lookup[m].sleep \in Int
    BY <1>0
  <2>3. QED  BY <1>0, <1>2, <1>5, <1>7, <2>1, <2>2 DEF SleeperDue
<1>10. SleepersDue'
  BY <1>8, <1>9 DEF SleepersDue
<1>11. SleepersApart'
  <2> SUFFICES ASSUME NEW m \in Lookups, NEW k \in Lookups, m # k,
                      Doing(m, "local")', Doing(k, "local")', WorkerOf[m] = WorkerOf[k]
               PROVE  Apart(m, k)'
    BY DEF SleepersApart
  <2>1. CASE m = l
    <3>1. SleeperDue(k) /\ lookup'[k] = lookup[k]
      BY <1>7, <1>9, <2>1
    <3>2. QED  BY <1>7, <2>1, <3>1 DEF SleeperDue, Apart, w
  <2>2. CASE k = l
    <3>1. SleeperDue(m) /\ lookup'[m] = lookup[m]
      BY <1>7, <1>9, <2>2
    <3>2. QED  BY <1>7, <2>2, <3>1 DEF SleeperDue, Apart, w
  <2>3. CASE m # l /\ k # l
    BY <1>7, <1>9, <2>3 DEF Spaced, SleepersApart, Apart
  <2>4. QED  BY <2>1, <2>2, <2>3
<1>12. GrantsSpaced
  BY <1>1 DEF GrantsSpaced, Moved, Doing
<1>13. QED  BY <1>3, <1>4, <1>6, <1>10, <1>11, <1>12 DEF Spaced

\* The first sleeper of a process is served; the others are an interval behind it.
LEMMA LocalTurnStep ==
  ASSUME Spaced, NEW l \in Lookups, LocalTurn(l)
  PROVE  Spaced' /\ GrantsSpaced
<1> DEFINE w == WorkerOf[l]
<1>0. /\ ThrottleTyped /\ lookup \in [Lookups -> Stage] /\ w \in Workers
      /\ Interval \in Nat /\ WorkerOf \in [Lookups -> Workers]
      /\ Shared \in Sources /\ Shared \notin Workers /\ Workers \subseteq Sources
      /\ \A m \in Lookups : lookup[m].sleep \in Int
  BY ThrottleAssumption DEF Spaced, ThrottleTyped, Stage, Sources, Shared
<1>1. Moved(lookup, lookup', l, "granted", lookup[l].sleep)
  BY <1>0, GrantedMoves DEF LocalTurn
<1>2. /\ lookup[l].sleep = 0 /\ Doing(l, "local") /\ slot' = slot /\ next' = next
      /\ granted' = [granted EXCEPT ![w] = 0]
  BY DEF LocalTurn, Granted
<1> HIDE DEF w
<1>3. ThrottleTyped'
  BY <1>0, <1>1, <1>2 DEF ThrottleTyped, Moved
<1>4. SharedHeld'
  BY <1>0, <1>2 DEF Spaced, ThrottleTyped, SharedHeld
<1>5. /\ \A v \in Workers : granted'[v] = IF v = w THEN 0 ELSE granted[v]
      /\ \A v \in Workers : next[v] \in Nat /\ granted[v] \in Nat
  BY <1>0, <1>2 DEF ThrottleTyped
<1>6. SleeperDue(l)
  BY <1>2 DEF Spaced, SleepersDue
<1>7. ClockAhead'
  <2>1. next[w] >= Interval
    BY <1>0, <1>2, <1>6 DEF SleeperDue, w
  <2>2. QED  BY <1>0, <1>2, <1>5, <2>1 DEF Spaced, ClockAhead
<1>8. ASSUME NEW m \in Lookups, Doing(m, "local")'
      PROVE  m # l /\ Doing(m, "local") /\ lookup'[m] = lookup[m] /\ SleeperDue(m)
  <2>1. m # l
    BY <1>1, <1>8 DEF Moved, Doing
  <2>2. lookup'[m] = lookup[m]
    BY <1>1, <2>1 DEF Moved
  <2>3. QED  BY <1>8, <2>1, <2>2 DEF Doing, Spaced, SleepersDue
<1>9. SleepersDue'
  <2> SUFFICES ASSUME NEW m \in Lookups, Doing(m, "local")'
               PROVE  SleeperDue(m)'
    BY DEF SleepersDue
  <2>1. m # l /\ Doing(m, "local") /\ lookup'[m] = lookup[m] /\ SleeperDue(m)
    BY <1>8
  <2>2. WorkerOf[m] = w => lookup[m].sleep >= Interval
    <3>1. WorkerOf[m] = w => Apart(l, m)
      BY <1>2, <2>1 DEF Spaced, SleepersApart, w
    <3>2. QED  BY <1>0, <1>2, <2>1, <3>1 DEF Apart, SleeperDue
  <2>3. WorkerOf[m] \in Workers /\ lookup[m].sleep \in Int
    BY <1>0
  <2>4. QED  BY <1>0, <1>2, <1>5, <2>1, <2>2, <2>3 DEF SleeperDue
<1>10. SleepersApart'
  BY <1>8 DEF Spaced, SleepersApart, Apart
<1>11. GrantsSpaced
  <2>1. granted[w] >= Interval
    BY <1>0, <1>2, <1>5, <1>6 DEF SleeperDue, w
  <2>2. GrantBy(l) = w
    BY <1>2 DEF GrantBy, w
  <2>3. QED  BY <1>1, <2>1, <2>2 DEF GrantsSpaced, Moved, Doing
<1>12. QED  BY <1>3, <1>4, <1>7, <1>9, <1>10, <1>11 DEF Spaced

\* Later a tick, on a stage.
LEMMA LaterStage ==
  ASSUME NEW r \in Stage
  PROVE  /\ OneTickLater(r) \in Stage
         /\ OneTickLater(r).pc = r.pc /\ OneTickLater(r).sleep = Less(r.sleep)
         /\ OneTickLater(r).waited = IF r.pc \in {"waiting", "local"} THEN r.waited + 1 ELSE r.waited
<1> DEFINE n == Less(r.sleep)
           k == IF r.pc \in {"waiting", "local"} THEN r.waited + 1 ELSE r.waited
           q == [r EXCEPT !.sleep = n]
<1>1. OneTickLater(r) = [q EXCEPT !.waited = k]
  <2>1. OneTickLater(r) = [r EXCEPT !.sleep = n,
            !.waited = IF r.pc \in {"waiting", "local"} THEN @ + 1 ELSE @]
    BY DEF OneTickLater
  <2>2. QED  BY <2>1, Zenon
<1>2. n \in Int /\ k \in Int
  BY DEF Stage, Less
<1>3. q \in Stage /\ q.pc = r.pc /\ q.sleep = n
  <2> HIDE DEF n
  <2>1. QED  BY <1>2, SleepSet
<1> HIDE DEF q
<1>4. /\ [q EXCEPT !.waited = k] \in Stage /\ [q EXCEPT !.waited = k].pc = q.pc
      /\ [q EXCEPT !.waited = k].sleep = q.sleep /\ [q EXCEPT !.waited = k].waited = k
  <2> HIDE DEF k
  <2>1. QED  BY <1>2, <1>3, WaitedSet
<1>5. QED  BY <1>1, <1>3, <1>4

\* No sleeper is due when time passes, so each comes a tick nearer to its turn while
\* what it is measured against does the same.
LEMMA ThrottleTickStep ==
  ASSUME Spaced, ThrottleTick
  PROVE  Spaced' /\ GrantsSpaced
<1>0. /\ ThrottleTyped /\ lookup \in [Lookups -> Stage]
      /\ Interval \in Nat \ {0} /\ WorkerOf \in [Lookups -> Workers]
      /\ Shared \in Sources /\ Workers \subseteq Sources
      /\ \A m \in Lookups : lookup[m].sleep \in Int
      /\ slot \in Nat
      /\ \A s \in Sources : granted[s] \in Nat
      /\ \A w \in Workers : next[w] \in Nat
  BY ThrottleAssumption DEF Spaced, ThrottleTyped, Stage, Sources, Shared
<1>1. /\ slot' = Less(slot) /\ next' = [w \in Workers |-> Less(next[w])]
      /\ lookup' = [l \in Lookups |-> OneTickLater(lookup[l])]
      /\ granted' = [s \in Sources |-> More(granted[s])]
  BY DEF ThrottleTick
<1>2. /\ lookup' \in [Lookups -> Stage]
      /\ \A l \in Lookups : lookup'[l].pc = lookup[l].pc /\ lookup'[l].sleep = Less(lookup[l].sleep)
  BY <1>0, <1>1, LaterStage
<1>3. ThrottleTyped'
  <2>1. \A n \in Nat : Less(n) \in Nat /\ More(n) \in Nat
    BY <1>0 DEF Less, More, Least
  <2>2. QED  BY <1>0, <1>1, <1>2, <2>1 DEF ThrottleTyped
<1>4. SharedHeld'
  <2>1. granted'[Shared] = More(granted[Shared])
    BY <1>0, <1>1
  <2>2. QED  BY <1>0, <1>1, <2>1 DEF Spaced, SharedHeld, More, Less, Least
<1>5. ASSUME NEW w \in Workers
      PROVE  /\ granted'[w] = More(granted[w]) /\ next'[w] = Less(next[w])
             /\ granted[w] \in Nat /\ next[w] \in Nat
  BY <1>0, <1>1
<1>6. ClockAhead'
  <2> SUFFICES ASSUME NEW w \in Workers PROVE granted'[w] + next'[w] >= Interval
    BY DEF ClockAhead
  <2>1. granted[w] + next[w] >= Interval
    BY DEF Spaced, ClockAhead
  <2>2. QED  BY <1>0, <1>5, <2>1 DEF More, Less, Least
<1>7. ASSUME NEW l \in Lookups, Doing(l, "local")'
      PROVE  /\ Doing(l, "local") /\ SleeperDue(l)
             /\ lookup[l].sleep >= 1 /\ lookup'[l].sleep = lookup[l].sleep - 1
  <2>1. Doing(l, "local") /\ SleeperDue(l)
    BY <1>2, <1>7 DEF Doing, Spaced, SleepersDue
  <2>2. lookup[l].sleep # 0
    BY <2>1 DEF ThrottleTick, Due, Doing
  <2>3. QED  BY <1>0, <1>2, <2>1, <2>2 DEF SleeperDue, Less
<1>8. SleepersDue'
  <2> SUFFICES ASSUME NEW l \in Lookups, Doing(l, "local")' PROVE SleeperDue(l)'
    BY DEF SleepersDue
  <2>1. /\ SleeperDue(l) /\ lookup[l].sleep >= 1 /\ lookup'[l].sleep = lookup[l].sleep - 1
    BY <1>7
  <2>2. WorkerOf[l] \in Workers /\ lookup[l].sleep \in Int
    BY <1>0
  <2>3. /\ granted'[WorkerOf[l]] = More(granted[WorkerOf[l]])
        /\ next'[WorkerOf[l]] = Less(next[WorkerOf[l]])
        /\ granted[WorkerOf[l]] \in Nat /\ next[WorkerOf[l]] \in Nat
    BY <1>5, <2>2
  <2>4. QED  BY <1>0, <2>1, <2>2, <2>3 DEF SleeperDue, More, Less, Least
<1>9. SleepersApart'
  <2> SUFFICES ASSUME NEW l \in Lookups, NEW m \in Lookups, l # m,
                      Doing(l, "local")', Doing(m, "local")', WorkerOf[l] = WorkerOf[m]
               PROVE  Apart(l, m)'
    BY DEF SleepersApart
  <2>1. Apart(l, m)
    BY <1>7 DEF Spaced, SleepersApart
  <2>2. lookup'[l].sleep = lookup[l].sleep - 1 /\ lookup'[m].sleep = lookup[m].sleep - 1
    BY <1>7
  <2>3. QED  BY <1>0, <2>1, <2>2 DEF Apart
<1>10. GrantsSpaced
  BY <1>2 DEF GrantsSpaced, Doing
<1>11. QED  BY <1>3, <1>4, <1>6, <1>8, <1>9, <1>10 DEF Spaced

-----------------------------------------------------------------------------
\* Nothing was granted at first.
LEMMA SpacedAtFirst == ThrottleInit => Spaced
<1> SUFFICES ASSUME ThrottleInit PROVE Spaced
  OBVIOUS
<1>1. ThrottleTyped
  BY ThrottleAssumption, AwayIsAStage DEF ThrottleInit, ThrottleTyped
<1>2. SharedHeld /\ ClockAhead
  BY ThrottleAssumption DEF ThrottleInit, SharedHeld, ClockAhead, Sources
<1>3. \A l \in Lookups : ~Doing(l, "local")
  BY AwayIsAStage DEF ThrottleInit, Doing
<1>4. QED  BY <1>1, <1>2, <1>3 DEF Spaced, SleepersDue, SleepersApart

\* Every step keeps the invariant, and grants apart.
LEMMA SpacedStep == Spaced /\ [ThrottleNext]_throttleVars => Spaced' /\ [GrantsSpaced]_throttleVars
<1> SUFFICES ASSUME Spaced, [ThrottleNext]_throttleVars
             PROVE  Spaced' /\ [GrantsSpaced]_throttleVars
  OBVIOUS
<1>1. CASE ThrottleTick
  BY <1>1, ThrottleTickStep
<1>2. CASE \E l \in Lookups : SlotStep(l) \/ CallStep(l)
  <2>1. PICK l \in Lookups : SlotStep(l) \/ CallStep(l)
    BY <1>2
  <2>2. CASE \/ Seek(l) \/ Taken(l) \/ WaitForSlot(l) \/ Wake(l) \/ CallStep(l)
    BY <2>2, QuietSteps
  <2>3. CASE Grab(l)
    BY <2>3, GrabStep
  <2>4. CASE FallBack(l) \/ SetUnanswered(l)
    BY <2>4, QueueStep
  <2>5. CASE LocalTurn(l)
    BY <2>5, LocalTurnStep
  <2>6. QED  BY <2>1, <2>2, <2>3, <2>4, <2>5 DEF SlotStep
<1>3. CASE UNCHANGED throttleVars
  BY <1>3 DEF throttleVars, Spaced, ThrottleTyped, SharedHeld, ClockAhead, SleepersDue, SleeperDue,
              SleepersApart, Apart, Doing
<1>4. QED  BY <1>1, <1>2, <1>3 DEF ThrottleNext

(* SlotsSpaced, for every set of lookups and workers, every interval, budget *)
(* and number of attempts, whether Redis fails or not: acquire_slot never    *)
(* grants the shared slot, or a process its own, sooner than an interval     *)
(* after the last time.                                                      *)
THEOREM SlotsAreSpaced == ThrottleSpec => SlotsSpaced
<1>1. ThrottleSpec => []Spaced
  BY SpacedAtFirst, SpacedStep, PTL DEF ThrottleSpec
<1>2. Spaced /\ [ThrottleNext]_throttleVars => [GrantsSpaced]_throttleVars
  BY SpacedStep
<1>3. ThrottleSpec => [][GrantsSpaced]_throttleVars
  BY <1>1, <1>2, PTL DEF ThrottleSpec
<1>4. QED  BY <1>3 DEF SlotsSpaced, GrantsSpaced

-----------------------------------------------------------------------------
(* The waits.  The turns of one process's queue follow each other without    *)
(* gaps, so a lookup that joins it is never further back than the queue is   *)
(* long; and what a sleeper has waited and has left to sleep stays the same  *)
(* as time passes.                                                           *)

\* Those who wait for the clock of a process; of them, those whose turn is not before l's.
Queued(w) == {l \in Lookups : Doing(l, "local") /\ WorkerOf[l] = w}
NotBefore(l) == {m \in Queued(WorkerOf[l]) : lookup[m].sleep >= lookup[l].sleep}

\* Turns follow each other without gaps, so that the clock is no further than the queue is long.
NoGaps ==
    /\ \A l \in Lookups : Doing(l, "local") =>
          next[WorkerOf[l]] <= lookup[l].sleep + Interval * Cardinality(NotBefore(l))
    /\ \A w \in Workers : next[w] <= Interval * (Cardinality(Queued(w)) + 1)

Longest == MaxWait + Interval * Cardinality(Lookups)

\* How long a lookup has waited, and will.
Patient(l) ==
    /\ lookup[l].pc \in {"idle", "granted", "calling", "backoff"} => lookup[l].waited = 0
    /\ lookup[l].pc \in {"asking", "taken"} => lookup[l].waited <= MaxWait
    /\ lookup[l].pc = "waiting" => lookup[l].sleep >= 0 /\ lookup[l].waited + lookup[l].sleep <= MaxWait
    /\ lookup[l].pc = "local" => lookup[l].waited + lookup[l].sleep <= Longest

WaitInv == Spaced /\ NoGaps /\ \A l \in Lookups : Patient(l)

-----------------------------------------------------------------------------
\* Queues are finite and not longer than all lookups.
LEMMA QueuesAreFinite ==
  ASSUME NEW S \in SUBSET Lookups
  PROVE  IsFiniteSet(S) /\ Cardinality(S) \in Nat /\ Cardinality(S) <= Cardinality(Lookups)
<1>1. IsFiniteSet(Lookups)
  BY ThrottleAssumption
<1>2. IsFiniteSet(S) /\ Cardinality(S) <= Cardinality(Lookups)
  BY <1>1, FS_Subset
<1>3. QED  BY <1>2, FS_CardinalityType

\* How many intervals make which time.
LEMMA IntervalsOf ==
  ASSUME NEW c \in Nat, NEW d \in Nat
  PROVE  /\ Interval * c \in Nat /\ Interval * (c + 1) = Interval * c + Interval
         /\ c <= d => Interval * c <= Interval * d
         /\ c > 0 => Interval <= Interval * c
<1>1. Interval \in Nat
  BY ThrottleAssumption
<1>2. Interval * c \in Nat /\ Interval * (c + 1) = Interval * c + Interval
  BY <1>1
<1>3. ASSUME c <= d PROVE Interval * c <= Interval * d
  <2>1. PICK e \in Nat : d = c + e
    BY <1>3
  <2>2. Interval * d = Interval * c + Interval * e /\ Interval * e \in Nat
    BY <1>1, <2>1
  <2>3. QED  BY <1>2, <2>2
<1>4. ASSUME c > 0 PROVE Interval <= Interval * c
  <2>1. PICK e \in Nat : c = e + 1
    BY <1>4
  <2>2. Interval * c = Interval * e + Interval /\ Interval * e \in Nat
    BY <1>1, <2>1
  <2>3. QED  BY <1>1, <2>2
<1>5. QED  BY <1>2, <1>3, <1>4

\* The longest wait is a number, and the budget is within it.
LEMMA LongestWait == Longest \in Nat /\ MaxWait <= Longest
<1>1. Cardinality(Lookups) \in Nat
  BY QueuesAreFinite
<1>2. Interval * Cardinality(Lookups) \in Nat
  BY <1>1, IntervalsOf
<1>3. QED  BY <1>2, ThrottleAssumption DEF Longest

\* A step of a lookup that was not in a queue, and is in none.
LEMMA QueuesSame ==
  ASSUME NoGaps, NEW l \in Lookups, NEW pc, NEW n, Moved(lookup, lookup', l, pc, n),
         ~Doing(l, "local"), pc # "local", next' = next
  PROVE  NoGaps'
<1>1. \A m \in Lookups : /\ Doing(m, "local")' <=> Doing(m, "local")
                         /\ Doing(m, "local") => lookup'[m] = lookup[m]
  BY DEF Moved, Doing
<1>2. \A w \in Workers : Queued(w)' = Queued(w)
  BY <1>1 DEF Queued
<1>3. \A m \in Lookups : Doing(m, "local") => NotBefore(m)' = NotBefore(m)
  <2>1. \A m \in Lookups : WorkerOf[m] \in Workers
    BY ThrottleAssumption
  <2>2. QED  BY <1>1, <1>2, <2>1 DEF NotBefore, Queued
<1>4. QED  BY <1>1, <1>2, <1>3 DEF NoGaps

\* A lookup that moves leaves the patience of the others.
LEMMA OthersPatient ==
  ASSUME \A m \in Lookups : Patient(m), NEW l \in Lookups, NEW pc, NEW n,
         Moved(lookup, lookup', l, pc, n), Patient(l)'
  PROVE  \A m \in Lookups : Patient(m)'
BY DEF Moved, Patient

\* The steps that leave the local queues.
LEMMA QuietWaits ==
  ASSUME WaitInv, NEW l \in Lookups,
         \/ Seek(l) \/ Taken(l) \/ WaitForSlot(l) \/ Wake(l) \/ CallStep(l) \/ Grab(l)
  PROVE  NoGaps' /\ \A m \in Lookups : Patient(m)'
<1>0. /\ ThrottleTyped /\ NoGaps /\ lookup \in [Lookups -> Stage] /\ \A m \in Lookups : Patient(m)
      /\ lookup[l].waited \in Int /\ lookup[l].sleep \in Int /\ MaxWait \in Nat /\ Longest \in Nat
  BY LongestWait, ThrottleAssumption DEF WaitInv, Spaced, ThrottleTyped, Stage
<1>1. next' = next /\ ~Doing(l, "local")
  BY DEF Seek, Taken, WaitForSlot, Wake, CallStep, CallUpstream, NotTheProbe, Concluded,
         Transient, Grab, Granted, Doing
<1>2. SUFFICES \E pc \in Places \ {"local"}, n \in Int :
                  Moved(lookup, lookup', l, pc, n) /\ Patient(l)'
  <2>1. PICK pc \in Places \ {"local"}, n \in Int : Moved(lookup, lookup', l, pc, n) /\ Patient(l)'
    BY <1>2
  <2>2. QED  BY <1>0, <1>1, <2>1, QueuesSame, OthersPatient
<1>3. CASE Seek(l) \/ Taken(l) \/ Wake(l)
  <2>1. PICK pc \in {"asking", "taken"} : Does(l, pc)
    BY <1>3 DEF Seek, Taken, Wake
  <2>2. pc \in Places /\ pc # "local"
    BY DEF Places
  <2>3. Moved(lookup, lookup', l, pc, lookup[l].sleep) /\ lookup'[l].waited = lookup[l].waited
    BY <1>0, <2>1, <2>2, DoesMoves
  <2>4. lookup[l].waited <= MaxWait
    BY <1>0, <1>3 DEF Seek, Taken, Wake, Doing, Patient
  <2>5. Patient(l)'
    BY <2>3, <2>4 DEF Patient, Moved
  <2>6. QED  BY <1>0, <2>2, <2>3, <2>5
<1>4. CASE CallUpstream(l)
  <2>1. Does(l, "calling") /\ "calling" \in Places
    BY <1>4 DEF CallUpstream, Places
  <2>2. Moved(lookup, lookup', l, "calling", lookup[l].sleep) /\ lookup'[l].waited = lookup[l].waited
    BY <1>0, <2>1, DoesMoves
  <2>3. lookup[l].waited = 0
    BY <1>0, <1>4 DEF CallUpstream, Doing, Patient
  <2>4. Patient(l)'
    BY <2>2, <2>3 DEF Patient, Moved
  <2>5. QED  BY <1>0, <2>1, <2>2, <2>4
<1>5. CASE Ends(l)
  <2>1. Moved(lookup, lookup', l, "idle", Away.sleep) /\ lookup'[l].waited = 0
    BY <1>0, <1>5, EndsMoves
  <2>2. Patient(l)' /\ "idle" \in Places /\ Away.sleep \in Int
    BY <2>1 DEF Patient, Moved, Places, Away
  <2>3. QED  BY <2>1, <2>2
<1>6. CASE WaitForSlot(l)
  <2>1. PICK pc \in {"idle", "waiting"}, n \in Int :
            /\ Moved(lookup, lookup', l, pc, n)
            /\ pc = "idle" => lookup'[l].waited = 0
            /\ pc = "waiting" => /\ lookup'[l].waited = lookup[l].waited
                                /\ lookup[l].waited + n <= MaxWait /\ n >= 0
    BY <1>0, <1>6, WaitMoves
  <2>2. Patient(l)' /\ pc \in Places
    BY <1>0, <2>1 DEF Patient, Moved, Places
  <2>3. QED  BY <2>1, <2>2
<1>7. CASE Transient(l)
  <2>1. PICK n \in Int : Moved(lookup, lookup', l, "backoff", n) /\ lookup'[l].waited = lookup[l].waited
    BY <1>0, <1>7, TransientMoves
  <2>2. lookup[l].waited = 0
    BY <1>0, <1>7 DEF Transient, Doing, Patient
  <2>3. Patient(l)' /\ "backoff" \in Places
    BY <2>1, <2>2 DEF Patient, Moved, Places
  <2>4. QED  BY <2>1, <2>3
<1>8. CASE Grab(l)
  <2>1. Moved(lookup, lookup', l, "granted", lookup[l].sleep) /\ lookup'[l].waited = 0
    BY <1>0, <1>8, GrantedMoves DEF Grab
  <2>2. Patient(l)' /\ "granted" \in Places
    BY <2>1 DEF Patient, Moved, Places
  <2>3. QED  BY <1>0, <2>1, <2>2
<1>9. QED
  BY <1>3, <1>4, <1>5, <1>6, <1>7, <1>8 DEF CallStep, NotTheProbe, Concluded

\* One more at the end of the queue.
LEMMA QueueWaits ==
  ASSUME WaitInv, NEW l \in Lookups, FallBack(l) \/ SetUnanswered(l)
  PROVE  NoGaps' /\ \A m \in Lookups : Patient(m)'
<1> DEFINE w == WorkerOf[l]
<1>0. /\ Spaced /\ ThrottleTyped /\ NoGaps /\ lookup \in [Lookups -> Stage] /\ \A m \in Lookups : Patient(m)
      /\ w \in Workers /\ WorkerOf \in [Lookups -> Workers]
      /\ \A m \in Lookups : lookup[m].waited \in Int /\ lookup[m].sleep \in Int
      /\ \A v \in Workers : next[v] \in Nat
      /\ MaxWait \in Nat /\ Longest \in Nat /\ Interval \in Nat
  BY LongestWait, ThrottleAssumption DEF WaitInv, Spaced, ThrottleTyped, Stage
<1>1. /\ Moved(lookup, lookup', l, "local", next[w]) /\ lookup'[l].waited = lookup[l].waited
      /\ next' = [next EXCEPT ![w] = @ + Interval]
  BY <1>0, QueuesMoves DEF FallBack, SetUnanswered
<1>2. ~Doing(l, "local") /\ lookup[l].waited <= MaxWait
  BY <1>0 DEF FallBack, SetUnanswered, Doing, Patient
<1> HIDE DEF w
<1>3. next'[w] = next[w] + Interval /\ \A v \in Workers \ {w} : next'[v] = next[v]
  BY <1>0, <1>1 DEF ThrottleTyped
<1>4. /\ Doing(l, "local")' /\ lookup'[l].sleep = next[w]
      /\ \A m \in Lookups \ {l} : lookup'[m] = lookup[m] /\ (Doing(m, "local")' <=> Doing(m, "local"))
  BY <1>1 DEF Moved, Doing
<1>5. /\ l \notin Queued(w) /\ Queued(w)' = Queued(w) \cup {l}
      /\ \A v \in Workers \ {w} : Queued(v)' = Queued(v)
  BY <1>2, <1>4 DEF Queued, w
<1>6. /\ Cardinality(Queued(w)) \in Nat /\ Cardinality(Queued(w)') = Cardinality(Queued(w)) + 1
      /\ Cardinality(Queued(w)') <= Cardinality(Lookups) /\ Cardinality(Lookups) \in Nat
  <2>1. IsFiniteSet(Queued(w)) /\ Cardinality(Queued(w)) \in Nat
    BY QueuesAreFinite DEF Queued
  <2>2. Cardinality(Queued(w) \cup {l}) = Cardinality(Queued(w)) + 1
    BY <1>5, <2>1, FS_AddElement
  <2>3. Cardinality(Queued(w)') <= Cardinality(Lookups) /\ Cardinality(Lookups) \in Nat
    <3>1. Queued(w)' \in SUBSET Lookups /\ Lookups \in SUBSET Lookups
      BY DEF Queued
    <3>2. QED  BY <3>1, QueuesAreFinite
  <2>4. QED  BY <1>5, <2>1, <2>2, <2>3
<1>7. next[w] <= Interval * (Cardinality(Queued(w)) + 1)
  BY <1>0 DEF NoGaps
<1>8. \A v \in Workers : next'[v] <= Interval * (Cardinality(Queued(v)') + 1)
  <2>1. next'[w] <= Interval * (Cardinality(Queued(w)') + 1)
    <3>1. PICK c \in Nat : c = Cardinality(Queued(w)) + 1
      BY <1>6
    <3>2. Interval * (c + 1) = Interval * c + Interval /\ Interval * c \in Nat
      BY <3>1, IntervalsOf
    <3>3. next'[w] <= Interval * (c + 1)
      BY <1>0, <1>3, <1>7, <3>1, <3>2
    <3>4. QED  BY <1>6, <3>1, <3>3
  <2>2. ASSUME NEW v \in Workers, v # w PROVE next'[v] <= Interval * (Cardinality(Queued(v)') + 1)
    <3>1. next'[v] = next[v] /\ Queued(v)' = Queued(v)
      BY <1>3, <1>5, <2>2
    <3>2. next[v] <= Interval * (Cardinality(Queued(v)) + 1)
      BY <1>0 DEF NoGaps
    <3>3. QED  BY <3>1, <3>2
  <2>3. QED  BY <2>1, <2>2
<1>9. ASSUME NEW m \in Lookups, Doing(m, "local")'
      PROVE  next'[WorkerOf[m]] <= lookup'[m].sleep + Interval * Cardinality(NotBefore(m)')
  <2>1. CASE m = l
    <3>1. l \in NotBefore(l)' /\ NotBefore(l)' \in SUBSET Lookups
      BY <1>0, <1>4, <1>5 DEF NotBefore, Queued, w
    <3>2. Cardinality(NotBefore(l)') \in Nat /\ Cardinality(NotBefore(l)') > 0
      <4>1. IsFiniteSet(NotBefore(l)') /\ Cardinality(NotBefore(l)') \in Nat
        BY <3>1, QueuesAreFinite
      <4>2. Cardinality(NotBefore(l)') # 0
        BY <3>1, <4>1, FS_EmptySet
      <4>3. QED  BY <4>1, <4>2
    <3>3. Interval <= Interval * Cardinality(NotBefore(l)') /\ Interval * Cardinality(NotBefore(l)') \in Nat
      BY <3>2, IntervalsOf
    <3>4. QED  BY <1>0, <1>3, <1>4, <2>1, <3>3 DEF w
  <2>2. CASE m # l /\ WorkerOf[m] = w
    <3>1. Doing(m, "local") /\ lookup'[m] = lookup[m]
      BY <1>4, <1>9, <2>2
    <3>2. lookup[m].sleep + Interval <= next[w]
      BY <1>0, <2>2, <3>1 DEF Spaced, SleepersDue, SleeperDue
    <3>3. l \notin NotBefore(m) /\ NotBefore(m) \in SUBSET Lookups /\ NotBefore(m)' = NotBefore(m) \cup {l}
      <4>1. lookup'[l].sleep >= lookup'[m].sleep
        BY <1>0, <1>4, <3>1, <3>2
      <4>2. QED  BY <1>4, <1>5, <2>2, <3>1, <4>1 DEF NotBefore, Queued
    <3>4. PICK c \in Nat : c = Cardinality(NotBefore(m))
      BY <3>3, QueuesAreFinite
    <3>5. Cardinality(NotBefore(m)') = c + 1
      <4>1. IsFiniteSet(NotBefore(m))
        BY <3>3, QueuesAreFinite
      <4>2. Cardinality(NotBefore(m) \cup {l}) = c + 1
        BY <3>3, <3>4, <4>1, FS_AddElement
      <4>3. QED  BY <3>3, <4>2
    <3>6. Interval * (c + 1) = Interval * c + Interval /\ Interval * c \in Nat
      BY IntervalsOf
    <3>7. next[w] <= lookup[m].sleep + Interval * c
      BY <1>0, <2>2, <3>1, <3>4 DEF NoGaps
    <3>8. next'[w] <= lookup[m].sleep + Interval * (c + 1)
      BY <1>0, <1>3, <3>6, <3>7
    <3>9. QED  BY <2>2, <3>1, <3>5, <3>8
  <2>3. CASE WorkerOf[m] # w
    <3>1. m # l /\ WorkerOf[m] \in Workers \ {w}
      BY <1>0, <2>3 DEF w
    <3>2. Doing(m, "local") /\ lookup'[m] = lookup[m] /\ next'[WorkerOf[m]] = next[WorkerOf[m]]
      BY <1>3, <1>4, <1>9, <3>1
    <3>3. NotBefore(m)' = NotBefore(m)
      BY <1>4, <1>5, <3>1, <3>2 DEF NotBefore, Queued, w
    <3>4. QED  BY <1>0, <3>2, <3>3 DEF NoGaps
  <2>4. QED  BY <2>1, <2>2, <2>3
<1>10. Patient(l)'
  <2>1. PICK c \in Nat : c = Cardinality(Queued(w)) + 1
    BY <1>6
  <2>2. Interval * c <= Interval * Cardinality(Lookups) /\ Interval * c \in Nat
        /\ Interval * Cardinality(Lookups) \in Nat
    BY <1>6, <2>1, IntervalsOf
  <2>3. lookup'[l].waited + lookup'[l].sleep <= Longest
    BY <1>0, <1>1, <1>2, <1>4, <1>7, <2>1, <2>2 DEF Longest
  <2>4. QED  BY <1>1, <2>3 DEF Patient, Moved
<1>11. \A m \in Lookups : Patient(m)'
  BY <1>0, <1>1, <1>10, OthersPatient
<1>12. QED  BY <1>8, <1>9, <1>11 DEF NoGaps

\* The first of a queue leaves it, and the clock is as far away as the queue was long.
LEMMA TurnWaits ==
  ASSUME WaitInv, NEW l \in Lookups, LocalTurn(l)
  PROVE  NoGaps' /\ \A m \in Lookups : Patient(m)'
<1> DEFINE w == WorkerOf[l]
<1>0. /\ Spaced /\ ThrottleTyped /\ NoGaps /\ lookup \in [Lookups -> Stage] /\ \A m \in Lookups : Patient(m)
      /\ w \in Workers /\ WorkerOf \in [Lookups -> Workers]
      /\ \A m \in Lookups : lookup[m].sleep \in Int
      /\ \A v \in Workers : next[v] \in Nat
      /\ Interval \in Nat \ {0}
  BY ThrottleAssumption DEF WaitInv, Spaced, ThrottleTyped, Stage
<1>1. Moved(lookup, lookup', l, "granted", lookup[l].sleep) /\ lookup'[l].waited = 0
  BY <1>0, GrantedMoves DEF LocalTurn
<1>2. Doing(l, "local") /\ lookup[l].sleep = 0 /\ next' = next
  BY DEF LocalTurn
<1> HIDE DEF w
<1>3. /\ ~Doing(l, "local")'
      /\ \A m \in Lookups \ {l} : lookup'[m] = lookup[m] /\ (Doing(m, "local")' <=> Doing(m, "local"))
  BY <1>1 DEF Moved, Doing
<1>4. /\ Queued(w)' = Queued(w) \ {l} /\ l \in Queued(w)
      /\ \A v \in Workers \ {w} : Queued(v)' = Queued(v)
  BY <1>2, <1>3 DEF Queued, w
<1>5. next'[w] <= Interval * (Cardinality(Queued(w)') + 1)
  <2>1. IsFiniteSet(Queued(w)) /\ Queued(w) \in SUBSET Lookups /\ NotBefore(l) \in SUBSET Queued(w)
    <3>1. Queued(w) \in SUBSET Lookups
      BY DEF Queued
    <3>2. NotBefore(l) \in SUBSET Queued(w)
      BY DEF NotBefore, w
    <3>3. QED  BY <3>1, <3>2, QueuesAreFinite
  <2>2. PICK c \in Nat : c = Cardinality(NotBefore(l)) /\ c <= Cardinality(Queued(w))
    BY <2>1, FS_Subset, FS_CardinalityType
  <2>3. PICK d \in Nat : d = Cardinality(Queued(w)) /\ d = Cardinality(Queued(w)') + 1
    <3>1. /\ Cardinality(Queued(w)) \in Nat /\ Cardinality(Queued(w) \ {l}) \in Nat
          /\ Cardinality(Queued(w) \ {l}) = Cardinality(Queued(w)) - 1
      <4>1. Cardinality(Queued(w) \ {l}) = Cardinality(Queued(w)) - 1 /\ IsFiniteSet(Queued(w) \ {l})
        BY <1>4, <2>1, FS_RemoveElement
      <4>2. QED  BY <2>1, <4>1, FS_CardinalityType
    <3>2. QED  BY <1>4, <3>1
  <2>4. Interval * c <= Interval * d /\ Interval * c \in Nat /\ Interval * d \in Nat
    BY <2>2, <2>3, IntervalsOf
  <2>5. next[w] <= Interval * c
    <3>1. next[w] <= lookup[l].sleep + Interval * Cardinality(NotBefore(l))
      BY <1>0, <1>2 DEF NoGaps, w
    <3>2. QED  BY <1>0, <1>2, <2>2, <2>4, <3>1
  <2>6. next'[w] <= Interval * d
    BY <1>0, <1>2, <2>4, <2>5
  <2>7. QED  BY <2>3, <2>6
<1>6. \A v \in Workers : next'[v] <= Interval * (Cardinality(Queued(v)') + 1)
  BY <1>0, <1>2, <1>4, <1>5 DEF NoGaps
<1>7. ASSUME NEW m \in Lookups, Doing(m, "local")'
      PROVE  next'[WorkerOf[m]] <= lookup'[m].sleep + Interval * Cardinality(NotBefore(m)')
  <2>1. m # l /\ Doing(m, "local") /\ lookup'[m] = lookup[m] /\ WorkerOf[m] \in Workers
    BY <1>0, <1>3, <1>7
  <2>2. NotBefore(m)' = NotBefore(m)
    <3>1. CASE WorkerOf[m] # w
      BY <1>3, <1>4, <2>1, <3>1 DEF NotBefore, Queued, w
    <3>2. CASE WorkerOf[m] = w
      <4>1. Apart(l, m) /\ lookup[m].sleep >= 0
        BY <1>0, <1>2, <2>1, <3>2 DEF Spaced, SleepersApart, SleepersDue, SleeperDue, w
      <4>2. ~(lookup[l].sleep >= lookup[m].sleep)
        BY <1>0, <1>2, <4>1 DEF Apart
      <4>3. QED  BY <1>3, <1>4, <2>1, <3>2, <4>2 DEF NotBefore, Queued
    <3>3. QED  BY <3>1, <3>2
  <2>3. QED  BY <1>0, <1>2, <2>1, <2>2 DEF NoGaps
<1>8. Patient(l)'
  BY <1>1 DEF Patient, Moved
<1>9. \A m \in Lookups : Patient(m)'
  BY <1>0, <1>1, <1>8, OthersPatient
<1>10. QED  BY <1>6, <1>7, <1>9 DEF NoGaps

\* Whoever waits a tick longer sleeps a tick less.
LEMMA TickWaits ==
  ASSUME WaitInv, ThrottleTick
  PROVE  NoGaps' /\ \A m \in Lookups : Patient(m)'
<1>0. /\ Spaced /\ ThrottleTyped /\ NoGaps /\ lookup \in [Lookups -> Stage] /\ \A m \in Lookups : Patient(m)
      /\ WorkerOf \in [Lookups -> Workers]
      /\ \A m \in Lookups : lookup[m].sleep \in Int /\ lookup[m].waited \in Int
      /\ \A v \in Workers : next[v] \in Nat
      /\ Interval \in Nat \ {0} /\ MaxWait \in Nat /\ Longest \in Nat
  BY LongestWait, ThrottleAssumption DEF WaitInv, Spaced, ThrottleTyped, Stage
<1>1. \A v \in Workers : next'[v] = Less(next[v])
  BY DEF ThrottleTick
<1>2. \A m \in Lookups :
          /\ lookup'[m].pc = lookup[m].pc /\ lookup'[m].sleep = Less(lookup[m].sleep)
          /\ lookup'[m].waited = IF lookup[m].pc \in {"waiting", "local"} THEN lookup[m].waited + 1
                                 ELSE lookup[m].waited
  BY <1>0, LaterStage DEF ThrottleTick
<1>3. \A m \in Lookups : Doing(m, "local")' <=> Doing(m, "local")
  BY <1>2 DEF Doing
<1>4. \A m \in Lookups : Doing(m, "local") =>
          lookup[m].sleep >= 1 /\ lookup'[m].sleep = lookup[m].sleep - 1
  <2> SUFFICES ASSUME NEW m \in Lookups, Doing(m, "local")
               PROVE  lookup[m].sleep >= 1 /\ lookup'[m].sleep = lookup[m].sleep - 1
    OBVIOUS
  <2>1. lookup[m].sleep >= 0
    BY <1>0 DEF Spaced, SleepersDue, SleeperDue
  <2>2. lookup[m].sleep # 0
    BY DEF ThrottleTick, Due, Doing
  <2>3. QED  BY <1>0, <1>2, <2>1, <2>2 DEF Less
<1>5. \A v \in Workers : Queued(v)' = Queued(v)
  BY <1>3 DEF Queued
<1>6. \A v \in Workers : next'[v] <= Interval * (Cardinality(Queued(v)') + 1)
  <2> SUFFICES ASSUME NEW v \in Workers PROVE next'[v] <= Interval * (Cardinality(Queued(v)) + 1)
    BY <1>5
  <2>1. Cardinality(Queued(v)) \in Nat
    BY QueuesAreFinite DEF Queued
  <2>2. PICK c \in Nat : c = Cardinality(Queued(v)) + 1
    BY <2>1
  <2>3. next[v] <= Interval * c
    BY <1>0, <2>2 DEF NoGaps
  <2>4. Interval * c \in Nat
    BY <2>2, IntervalsOf
  <2>5. next'[v] <= Interval * c
    BY <1>0, <1>1, <2>3, <2>4 DEF Less
  <2>6. QED  BY <2>2, <2>5
<1>7. ASSUME NEW m \in Lookups, Doing(m, "local")
      PROVE  next'[WorkerOf[m]] <= lookup'[m].sleep + Interval * Cardinality(NotBefore(m)')
  <2> DEFINE w == WorkerOf[m]
  <2>1. w \in Workers
    BY <1>0
  <2>2. NotBefore(m)' = NotBefore(m)
    <3>1. \A k \in Queued(w) : lookup'[k].sleep >= lookup'[m].sleep <=> lookup[k].sleep >= lookup[m].sleep
      BY <1>0, <1>4, <1>7 DEF Queued
    <3>2. QED  BY <1>5, <2>1, <3>1 DEF NotBefore
  <2>3. next[w] >= 1
    BY <1>0, <1>4, <1>7, <2>1 DEF Spaced, SleepersDue, SleeperDue
  <2>4. next'[w] = next[w] - 1
    BY <1>0, <1>1, <2>1, <2>3 DEF Less
  <2>5. next[w] <= lookup[m].sleep + Interval * Cardinality(NotBefore(m))
    BY <1>0, <1>7 DEF NoGaps
  <2>6. PICK c \in Nat : c = Interval * Cardinality(NotBefore(m))
    <3>1. Cardinality(NotBefore(m)) \in Nat
      BY QueuesAreFinite DEF NotBefore, Queued
    <3>2. QED  BY <3>1, IntervalsOf
  <2> HIDE DEF w
  <2>7. next'[w] <= lookup'[m].sleep + c
    BY <1>0, <1>4, <1>7, <2>1, <2>4, <2>5, <2>6
  <2>8. QED  BY <2>2, <2>6, <2>7 DEF w
<1>8. ASSUME NEW m \in Lookups PROVE Patient(m)'
  <2>1. Patient(m) /\ lookup[m].sleep \in Int /\ lookup[m].waited \in Int
    BY <1>0
  <2>2. CASE lookup[m].pc = "local"
    <3>1. lookup'[m].waited + lookup'[m].sleep = lookup[m].waited + lookup[m].sleep
      BY <1>2, <1>4, <2>1, <2>2 DEF Doing
    <3>2. QED  BY <1>2, <2>1, <2>2, <3>1 DEF Patient
  <2>3. CASE lookup[m].pc = "waiting"
    <3>1. lookup[m].sleep # 0 /\ lookup[m].sleep >= 0
      BY <2>1, <2>3 DEF ThrottleTick, Due, Patient
    <3>2. /\ lookup'[m].sleep = lookup[m].sleep - 1 /\ lookup'[m].waited = lookup[m].waited + 1
          /\ lookup'[m].pc = "waiting"
      BY <1>2, <2>1, <2>3, <3>1 DEF Less
    <3>3. lookup'[m].sleep >= 0 /\ lookup'[m].waited + lookup'[m].sleep <= MaxWait
      BY <1>0, <2>1, <2>3, <3>1, <3>2 DEF Patient
    <3>4. QED  BY <3>2, <3>3 DEF Patient
  <2>4. CASE lookup[m].pc \notin {"local", "waiting"}
    BY <1>2, <2>1, <2>4 DEF Patient
  <2>5. QED  BY <2>2, <2>3, <2>4
<1>9. QED  BY <1>3, <1>6, <1>7, <1>8 DEF NoGaps

\* Nobody waits at first.
LEMMA WaitsAtFirst == ThrottleInit => WaitInv
<1> SUFFICES ASSUME ThrottleInit PROVE WaitInv
  OBVIOUS
<1>1. \A l \in Lookups : lookup[l] = Away
  BY DEF ThrottleInit
<1>2. \A l \in Lookups : ~Doing(l, "local") /\ Patient(l)
  BY <1>1, AwayIsAStage DEF Doing, Patient
<1>3. ASSUME NEW w \in Workers PROVE next[w] <= Interval * (Cardinality(Queued(w)) + 1)
  <2>1. PICK c \in Nat : c = Cardinality(Queued(w)) + 1
    <3>1. Cardinality(Queued(w)) \in Nat
      BY QueuesAreFinite DEF Queued
    <3>2. QED  BY <3>1
  <2>2. Interval * c \in Nat
    BY IntervalsOf
  <2>3. next[w] = 0
    BY DEF ThrottleInit
  <2>4. QED  BY <2>1, <2>2, <2>3
<1>4. QED  BY <1>2, <1>3, SpacedAtFirst DEF WaitInv, NoGaps

\* Every step keeps the invariant.
LEMMA WaitStep == WaitInv /\ [ThrottleNext]_throttleVars => WaitInv'
<1> SUFFICES ASSUME WaitInv, [ThrottleNext]_throttleVars PROVE WaitInv'
  OBVIOUS
<1>1. Spaced'
  BY SpacedStep DEF WaitInv
<1>2. CASE ThrottleTick
  BY <1>1, <1>2, TickWaits DEF WaitInv
<1>3. CASE \E l \in Lookups : SlotStep(l) \/ CallStep(l)
  <2>1. PICK l \in Lookups : SlotStep(l) \/ CallStep(l)
    BY <1>3
  <2>2. NoGaps' /\ \A m \in Lookups : Patient(m)'
    BY <2>1, QuietWaits, QueueWaits, TurnWaits DEF SlotStep
  <2>3. QED  BY <1>1, <2>2 DEF WaitInv
<1>4. CASE UNCHANGED throttleVars
  BY <1>1, <1>4 DEF throttleVars, WaitInv, NoGaps, NotBefore, Queued, Patient, Doing
<1>5. QED  BY <1>2, <1>3, <1>4 DEF ThrottleNext

(* WaitsBounded, for any lookups, workers, interval, budget and attempts,    *)
(* whether Redis fails or not: a waiter on the shared slot keeps within its  *)
(* budget, and one that fell back waits an interval at most for each lookup  *)
(* under way.                                                                *)
THEOREM WaitsAreBounded == ThrottleSpec => []WaitsBounded
<1>1. WaitInv => WaitsBounded
  <2> SUFFICES ASSUME WaitInv, NEW l \in Lookups
               PROVE  /\ lookup[l].pc \in {"asking", "taken", "waiting"} => lookup[l].waited <= MaxWait
                      /\ lookup[l].waited <= Longest
    BY DEF WaitsBounded, Longest
  <2>1. /\ Patient(l) /\ lookup[l].pc \in Places
        /\ lookup[l].waited \in Int /\ lookup[l].sleep \in Int
    BY DEF WaitInv, Spaced, ThrottleTyped, Stage
  <2>2. Longest \in Nat /\ MaxWait \in Nat /\ MaxWait <= Longest
    BY LongestWait, ThrottleAssumption
  <2>3. lookup[l].pc = "local" => lookup[l].sleep >= 0
    BY DEF WaitInv, Spaced, SleepersDue, SleeperDue, Doing
  <2>4. QED  BY <2>1, <2>2, <2>3 DEF Patient, Places
<1>2. QED  BY <1>1, WaitsAtFirst, WaitStep, PTL DEF ThrottleSpec
=============================================================================
