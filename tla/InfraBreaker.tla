----------------------------- MODULE InfraBreaker -----------------------------
(***************************************************************************)
(* The infra_breaker()s of a process and the coroutines that share them.   *)
(* A caller is a call site with its own way of reporting back:             *)
(*   "session" session_scope: the "postgres" breaker         (db.py)        *)
(*   "cache"   the GET of cache_aside: the "redis" breaker   (cache.py)     *)
(*   "spend"   record_spend: the same "redis" breaker        (control.py)   *)
(*   "lookup"  geocode: the "nominatim" breaker              (geocode.py)   *)
(* asyncio switches coroutines at the awaits only, so between two of them  *)
(* a caller's reads and writes of a leg are one step.                      *)
(***************************************************************************)
EXTENDS CircuitBreaker

CONSTANTS
    Callers,
    Site,         \* [Callers -> Sites]
    Slow,         \* the dependencies whose calls may outlast cooldown_s
    Cancellable,  \* the callers whose task may be cancelled (soft limit, client gone)
    MaxCancels    \* bound: cancellations

Sites == {"session", "cache", "spend", "lookup"}
Breakers == {"postgres", "redis", "nominatim"}

ASSUME UsersAssumption ==
    /\ Site \in [Callers -> Sites]
    /\ Slow \subseteq Breakers
    /\ Cancellable \subseteq Callers
    /\ MaxCancels \in Nat

\* The breaker a call site asks.
BreakerOf(c) ==
    CASE Site[c] = "session" -> "postgres"
      [] Site[c] = "lookup"  -> "nominatim"
      [] OTHER               -> "redis"

VARIABLES
    leg,      \* per breaker: its _Leg
    caller,   \* per caller: where it is, whether it is the probe, and whether
              \* the dependency was up when its call began
    up,       \* the dependencies that are up, and stay so
    cancels   \* cancellations so far

vars == <<leg, caller, up, cancels>>

Idle == [at |-> "idle", probe |-> FALSE, up |-> FALSE]
Waiting == [at |-> "waiting", probe |-> FALSE, up |-> FALSE]

InCall(c) == caller[c].at = "calling"
LegOf(c) == leg[BreakerOf(c)]
Report(c, new) == leg' = [leg EXCEPT ![BreakerOf(c)] = new]

Init ==
    /\ leg = [b \in Breakers |-> NewLeg]
    /\ caller = [c \in Callers |-> Idle]
    /\ up = {}
    /\ cancels = 0

\* allows() grants the call, and the call begins.
Begin(c) ==
    /\ Allows(LegOf(c))
    /\ caller' = [caller EXCEPT ![c] = [at |-> "calling",
                                        probe |-> State(LegOf(c)) = "half_open",
                                        up |-> BreakerOf(c) \in up]]
    /\ Report(c, Claimed(LegOf(c)))

\* session, cache, spend: the breaker is asked, and the call follows at once.
Call(c) ==
    /\ caller[c].at = "idle"
    /\ Site[c] # "lookup"
    /\ Begin(c)
    /\ UNCHANGED <<up, cancels>>

\* A caller that is refused goes on without the dependency, or raises.
GoWithout(c) ==
    /\ caller[c].at = "idle"
    /\ IF Site[c] = "lookup" THEN State(LegOf(c)) = "open" ELSE ~Allows(LegOf(c))
    /\ UNCHANGED vars

\* geocode reads the state, waits for its slot, and only then asks.
AwaitSlot(c) ==
    /\ caller[c].at = "idle"
    /\ Site[c] = "lookup"
    /\ State(LegOf(c)) # "open"
    /\ caller' = [caller EXCEPT ![c] = Waiting]
    /\ UNCHANGED <<leg, up, cancels>>

\* The slot came: geocode calls, or gives way to another caller's probe.
TakeSlot(c) ==
    /\ caller[c].at = "waiting"
    /\ \/ Begin(c)
       \/ ~Allows(LegOf(c)) /\ caller' = [caller EXCEPT ![c] = Idle] /\ UNCHANGED leg
    /\ UNCHANGED <<up, cancels>>

\* No slot within the wait budget, or cancelled while waiting: nothing was claimed.
LeaveSlot(c) ==
    /\ caller[c].at = "waiting"
    /\ caller' = [caller EXCEPT ![c] = Idle]
    /\ UNCHANGED <<leg, up, cancels>>

Return(c) == InCall(c) /\ caller' = [caller EXCEPT ![c] = Idle] /\ UNCHANGED up

\* The call succeeds.  Only record_spend does not say so.
Succeed(c) ==
    /\ Return(c)
    /\ Report(c, IF Site[c] = "spend" THEN LegOf(c) ELSE RecordSuccess)
    /\ UNCHANGED cancels

\* The call fails, as one that began before the recovery still may.
Fail(c) ==
    /\ Return(c)
    /\ ~caller[c].up
    /\ Report(c, IF Site[c] = "spend" THEN LegOf(c) ELSE RecordFailure(LegOf(c)))
    /\ UNCHANGED cancels

\* A cached value that no longer validates: record_success, then record_failure.
Invalid(c) ==
    /\ Return(c)
    /\ Site[c] = "cache"
    /\ Report(c, RecordFailure(RecordSuccess))
    /\ UNCHANGED cancels

\* Mutant: only an Exception is reported, as session_scope and cache_aside do.
CancelUnheard(c) ==
    /\ Return(c)
    /\ c \in Cancellable
    /\ cancels < MaxCancels
    /\ cancels' = cancels + 1
    /\ Report(c, LegOf(c))

\* CancelledError is no Exception: only geocode, whose report is in a finally, is
\* told of it.
Cancel(c) ==
    /\ Return(c)
    /\ c \in Cancellable
    /\ cancels < MaxCancels
    /\ cancels' = cancels + 1
    /\ Report(c, IF Site[c] = "lookup" THEN RecordFailure(LegOf(c)) ELSE LegOf(c))

\* cooldown_s has passed since opened_at; a call that is not slow ended before.
CooldownPasses(b) ==
    /\ leg[b].opened = "cooling"
    /\ b \in Slow \/ \A c \in Callers : BreakerOf(c) = b => ~InCall(c)
    /\ leg' = [leg EXCEPT ![b] = Cooled(leg[b])]
    /\ UNCHANGED <<caller, up, cancels>>

Recover(b) ==
    /\ b \notin up
    /\ up' = up \cup {b}
    /\ UNCHANGED <<leg, caller, cancels>>

Next ==
    \/ \E c \in Callers :
          \/ Call(c) \/ GoWithout(c) \/ AwaitSlot(c) \/ TakeSlot(c) \/ LeaveSlot(c)
          \/ Succeed(c) \/ Fail(c) \/ Invalid(c) \/ Cancel(c)
    \/ \E b \in {BreakerOf(c) : c \in Callers} : CooldownPasses(b) \/ Recover(b)

Spec == Init /\ [][Next]_vars

\* Callers keep coming, every call ends (each has a timeout), and time passes.  A
\* caller that keeps asking asks at some moment the breaker lets it through: SF.
Fairness ==
    /\ \A c \in Callers :
          /\ SF_vars(Call(c) \/ AwaitSlot(c))
          /\ SF_vars(TakeSlot(c))
          /\ WF_vars(Succeed(c) \/ Fail(c))
    /\ \A b \in Breakers : WF_vars(CooldownPasses(b))

FairSpec == Spec /\ Fairness

-----------------------------------------------------------------------------
TypeOK ==
    /\ leg \in [Breakers -> Leg]
    /\ caller \in [Callers -> [at: {"idle", "waiting", "calling"}, probe: BOOLEAN, up: BOOLEAN]]
    /\ up \subseteq Breakers
    /\ cancels \in 0..MaxCancels

Probing(c, b) == BreakerOf(c) = b /\ InCall(c) /\ caller[c].probe

\* A claimed probe is always somebody's call in flight, so its outcome is still to
\* come: "a probe claimed and then abandoned would wedge it" (geocode.py).
ProbeInFlight ==
    \A b \in Breakers : leg[b].probing => \E c \in Callers : Probing(c, b)

\* The calls whose outcome the breaker is not told.
Unreported(c) ==
    \/ Site[c] = "spend" /\ (Succeed(c) \/ Fail(c))
    \/ Site[c] # "lookup" /\ Cancel(c)

Wedged(b) == leg[b].probing /\ \A c \in Callers : ~Probing(c, b)

\* A claimed probe becomes nobody's in two ways only: record_spend was the probe, or
\* a session, a cache read or a record_spend was, and is cancelled.
OnlySilenceWedges ==
    [][\A b \in Breakers : Wedged(b)' =>
          Wedged(b) \/ \E c \in Callers : Probing(c, b) /\ Unreported(c)]_vars

\* "HALF_OPEN admits exactly ONE caller", "until that probe reports back"
\* (circuit.py), where no call outlasts the cooldown.
OneProbe ==
    \A b \in Breakers \ Slow : \A c, d \in Callers : Probing(c, b) /\ Probing(d, b) => c = d

\* "A probe that succeeds closes the breaker" (circuit.py): a dependency that is up
\* for good is not refused for ever.
Recovers == \A b \in {BreakerOf(c) : c \in Callers} : b \in up ~> State(leg[b]) = "closed"
=============================================================================
