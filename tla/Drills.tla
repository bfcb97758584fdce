---------------------------------- MODULE Drills ----------------------------------
(***************************************************************************)
(* The drills of scripts/: each takes the lock of the checkout, breaks the *)
(* running stack on purpose, watches it, and restores it in a finally.  A  *)
(* drill is a list of try blocks and a last finally; the model keeps the   *)
(* steps that change the stack or judge its state, and not what a drill    *)
(* measures in between.  Any command may fail (docker, redis-cli, curl     *)
(* answer with a code most callers ignore), an operator may press Ctrl-C,  *)
(* and a process may be killed.                                            *)
(***************************************************************************)
EXTENDS Naturals, Sequences

CONSTANTS
    Operators,      \* who starts drills, each one after the other
    MaxDrills,      \* bound: drills started
    MaxFailures,    \* bound: commands that fail or are interrupted
    MaxInterrupts,  \* bound: interrupts
    MaxKills        \* bound: drills killed

ASSUME DrillsAssumption ==
    {MaxDrills, MaxFailures, MaxInterrupts, MaxKills} \subseteq Nat

VARIABLES
    stack,          \* what drills change: datastores, the API's environment, ...
    lock,           \* .inspect.lock
    drill,          \* per operator: where its drill is
    said,           \* what reports have named as not restored
    started, failures, interrupts, kills     \* counters for the bounds

drillVars == <<stack, lock, drill, said, started, failures, interrupts, kills>>

\* Nothing of a drill left in it, whatever the day's spend key says: more than the $1.00
\* that Q10 sets for a limit, or less.
Intact == [redis : {TRUE}, db : {TRUE}, api : {".env"}, spend : {"over", "under"},
           switch : {"unset"}, hosts : {{}}, scratch : {{}}]
NoLock == [file |-> "absent", old |-> FALSE]
NoDrill == [at |-> "idle", kind |-> "none", block |-> 1, pc |-> 1, raised |-> FALSE]

DrillsInit ==
    /\ stack \in Intact /\ lock = NoLock
    /\ drill = [o \in Operators |-> NoDrill]
    /\ said = {}
    /\ started = 0 /\ failures = 0 /\ interrupts = 0 /\ kills = 0

-----------------------------------------------------------------------------
(* exclusive_run.                                                            *)

Moves(o, place) == drill' = [drill EXCEPT ![o].at = place]
Unlock == lock' = NoLock

StartDrill(o, kind) ==
    /\ drill[o].at \in {"idle", "over"} /\ started < MaxDrills
    /\ started' = started + 1
    /\ drill' = [drill EXCEPT ![o] = [NoDrill EXCEPT !.at = "open", !.kind = kind]]
    /\ said' = IF stack \in Intact THEN {} ELSE said
    /\ UNCHANGED <<stack, lock, failures, interrupts, kills>>

\* O_CREAT | O_EXCL.  A file that cannot be read counts as one of 1970.
OpenLock(o) ==
    /\ drill[o].at = "open"
    /\ \/ lock.file = "absent" /\ lock' = [NoLock EXCEPT !.file = "empty"] /\ Moves(o, "write")
       \/ lock.file = "empty" /\ Moves(o, "stale") /\ UNCHANGED lock
       \/ lock.file = "written" /\ Moves(o, IF lock.old THEN "stale" ELSE "over") /\ UNCHANGED lock
    /\ UNCHANGED <<stack, said, started, failures, interrupts, kills>>

\* The file is removed, whoever's it is by now; the second open may find one again.
UnlinkStale(o) ==
    /\ drill[o].at = "stale"
    /\ Unlock /\ Moves(o, "reopen")
    /\ UNCHANGED <<stack, said, started, failures, interrupts, kills>>

Reopen(o) ==
    /\ drill[o].at = "reopen"
    /\ IF lock.file = "absent" THEN lock' = [NoLock EXCEPT !.file = "empty"] /\ Moves(o, "write")
       ELSE Moves(o, "over") /\ UNCHANGED lock
    /\ UNCHANGED <<stack, said, started, failures, interrupts, kills>>

WriteLock(o) ==
    /\ drill[o].at = "write"
    /\ lock' = IF lock.file = "empty" THEN [lock EXCEPT !.file = "written"] ELSE lock
    /\ Moves(o, "ready")
    /\ UNCHANGED <<stack, said, started, failures, interrupts, kills>>

Underway(o) == drill[o].at \in {"body", "cleanup", "final"}
Busy(o) == drill[o].at \notin {"idle", "over"}

\* 45 minutes, longer than any drill: only a dead one's lock gets as old.
LockAges ==
    /\ lock.file # "absent" /\ ~lock.old /\ \A o \in Operators : ~Underway(o)
    /\ lock' = [lock EXCEPT !.old = TRUE]
    /\ UNCHANGED <<stack, drill, said, started, failures, interrupts, kills>>

-----------------------------------------------------------------------------
(* The drills.  Of a block: its body, what its finally does, and after how   *)
(* many steps of the body that finally does anything (infra's "stopped").    *)

Block(body, cleanup, after) == [body |-> body, cleanup |-> cleanup, after |-> after]

q15_redis_down == Block(<<"stop redis">>, <<"start redis", "judge redis">>, 1)
q16_postgres_down == Block(<<"stop db">>, <<"start db", "judge db">>, 1)
q8_static_floor ==
    Block(<<"floor", "switch on", "clear switch">>, <<"recreate", "judge floor">>, 0)
q10_spend_breaker ==
    Block(<<"seed spend", "limit", "lower spend">>,
          <<"restore spend", "recreate", "judge limit">>, 0)
postgres_drill == Block(<<"dump", "create database">>, <<>>, 0)
qdrant_drill == Block(<<"snapshot", "recover collection", "drop snapshot">>, <<>>, 0)
check_kill_switch == <<"switch off", "clear switch", "judge planning">>

\* Each rung breaks one more of the legs and mends them all.
Rung(legs) == legs \o <<"unblackhole">>
failover_ladder == Rung(<<"blackhole engine">>)
                   \o Rung(<<"blackhole engine", "blackhole groq">>)
                   \o Rung(<<"blackhole engine", "blackhole groq", "blackhole openai">>)

Blocks(kind) ==
    CASE kind = "infra" -> <<q15_redis_down, q16_postgres_down>>
      [] kind = "costctl" -> <<q8_static_floor, q10_spend_breaker>>
      [] kind = "inspect" -> <<Block(check_kill_switch \o failover_ladder, <<>>, 0)>>
      [] kind = "backup" -> <<postgres_drill, qdrant_drill>>

\* Mutant: the inspection restores on its way, and not in its finally.
FinalOnTheWay(kind) ==
    CASE kind = "infra" -> <<"judge redis", "judge db">>
      [] kind = "costctl" -> <<"judge planning">>
      [] kind = "inspect" -> <<"clear switch">>
      [] kind = "backup" -> <<"drop scratch", "judge scratch">>

\* The finally of each main.
Final(kind) ==
    CASE kind = "infra" -> <<"judge redis", "judge db">>
      [] kind = "costctl" -> <<"judge planning">>
      [] kind = "inspect" -> <<"unblackhole", "judge hosts", "clear switch">>
      [] kind = "backup" -> <<"drop scratch", "judge scratch">>

Steps(o) == IF drill[o].at = "final" THEN Final(drill[o].kind)
            ELSE Blocks(drill[o].kind)[drill[o].block][drill[o].at]
Step(o) == Steps(o)[drill[o].pc]
HasStep(o) == Underway(o) /\ drill[o].pc <= Len(Steps(o))

unblackhole_all(s) == [s EXCEPT !.hosts = {}]
drop_scratch(s) == [s EXCEPT !.scratch = @ \cap {"snapshot"}]

\* What a command does to the stack, when it does it.
Effect(step, s) ==
    CASE step = "stop redis" -> [s EXCEPT !.redis = FALSE]
      [] step = "start redis" -> [s EXCEPT !.redis = TRUE]
      [] step = "stop db" -> [s EXCEPT !.db = FALSE]
      [] step = "start db" -> [s EXCEPT !.db = TRUE]
      [] step \in {"floor", "limit"} -> [s EXCEPT !.api = step]
      [] step = "recreate" -> [s EXCEPT !.api = ".env"]
      [] step = "seed spend" -> [s EXCEPT !.spend = "over"]
      [] step = "lower spend" -> [s EXCEPT !.spend = "under"]
      [] step = "switch on" -> [s EXCEPT !.switch = "1"]
      [] step = "switch off" -> [s EXCEPT !.switch = "0"]
      [] step = "clear switch" -> [s EXCEPT !.switch = "unset"]
      [] step = "blackhole engine" -> [s EXCEPT !.hosts = @ \cup {"engine"}]
      [] step = "blackhole groq" -> [s EXCEPT !.hosts = @ \cup {"groq"}]
      [] step = "blackhole openai" -> [s EXCEPT !.hosts = @ \cup {"openai"}]
      [] step = "unblackhole" -> unblackhole_all(s)
      [] step = "dump" -> [s EXCEPT !.scratch = @ \cup {"dump"}]
      [] step = "create database" -> [s EXCEPT !.scratch = @ \cup {"database"}]
      [] step = "snapshot" -> [s EXCEPT !.scratch = @ \cup {"snapshot"}]
      [] step = "recover collection" -> [s EXCEPT !.scratch = @ \cup {"collection"}]
      [] step = "drop snapshot" -> [s EXCEPT !.scratch = @ \ {"snapshot"}]
      [] step = "drop scratch" -> drop_scratch(s)
      [] OTHER -> s

\* Q10 puts back what it had read of the day's spend, before anything else.
Outcomes(step, s) ==
    IF step = "restore spend" THEN {[s EXCEPT !.spend = read] : read \in {"over", "under"}}
    ELSE {Effect(step, s)}

\* What the end of main looks for.  That /plan answers 202 does not say under which limit.
ScratchLeft(s) == s.scratch \cap {"database", "collection"} # {}
Planning(s) == /\ s.redis /\ s.db /\ s.switch # "0"
               /\ s.api = ".env" \/ (s.api = "limit" /\ s.spend = "under")

\* What a judgement finds wrong.
Wrong(step, s) ==
    CASE step = "judge redis" -> IF s.redis THEN {} ELSE {"redis"}
      [] step = "judge db" -> IF s.db THEN {} ELSE {"db"}
      [] step = "judge floor" -> IF s.api \in {"floor", "down"} THEN {"api"} ELSE {}
      [] step = "judge limit" -> IF s.api \in {"limit", "down"} THEN {"api"} ELSE {}
      [] step = "judge planning" -> IF Planning(s) THEN {} ELSE {"planning"}
      [] step = "judge hosts" -> IF s.hosts = {} THEN {} ELSE {"hosts"}
      [] step = "judge scratch" ->
           IF ScratchLeft(s) THEN {"scratch"} ELSE {}
      [] OTHER -> {}

\* A judgement that cannot be made is a failure, but for that of the hosts: a failed
\* exec of injection_landed reads as an injection that is gone.
Unjudged(step) ==
    CASE step = "judge redis" -> {"redis"} [] step = "judge db" -> {"db"}
      [] step \in {"judge floor", "judge limit"} -> {"api"}
      [] step = "judge planning" -> {"planning"}
      [] step = "judge scratch" -> {"scratch"} [] OTHER -> {}

GoTo(o, place) == drill' = [drill EXCEPT ![o] = [@ EXCEPT !.at = place, !.pc = 1]]
Onward(o) == drill' = [drill EXCEPT ![o].pc = @ + 1]

\* stack_ready: infra_drill does not start on a stack that is not up.
Ready(o) ==
    /\ drill[o].at = "ready"
    /\ IF drill[o].kind = "infra" /\ ~(stack.redis /\ stack.db)
       THEN said' = said \cup Wrong("judge redis", stack) \cup Wrong("judge db", stack)
            /\ GoTo(o, "release")
       ELSE GoTo(o, "body") /\ UNCHANGED said
    /\ UNCHANGED <<stack, lock, started, failures, interrupts, kills>>

Perform(o) ==
    /\ HasStep(o)
    /\ stack' \in Outcomes(Step(o), stack)
    /\ said' = said \cup Wrong(Step(o), stack)
    /\ Onward(o)
    /\ UNCHANGED <<lock, started, failures, interrupts, kills>>

Raise(o, place) ==
    drill' = [drill EXCEPT ![o] = [@ EXCEPT !.at = place, !.pc = 1, !.raised = TRUE]]

\* What a command that fails ends: a step of a drill that returns early, or (blackhole)
\* the drill.  The code of every other one is ignored.
ReturnsEarly == {"floor", "limit", "dump", "create database", "snapshot", "recover collection"}
Raises == {"blackhole engine", "blackhole groq", "blackhole openai"}

\* A recreation may fail once the old container is gone.
Botched(step, s) ==
    IF step \in {"floor", "limit", "recreate"} THEN {s, [s EXCEPT !.api = "down"]} ELSE {s}

FailStep(o) ==
    /\ HasStep(o) /\ failures < MaxFailures
    /\ failures' = failures + 1
    /\ stack' \in Botched(Step(o), stack)
    /\ said' = said \cup Unjudged(Step(o))
    /\ IF Step(o) \in Raises THEN Raise(o, "final")
       ELSE IF Step(o) \in ReturnsEarly THEN GoTo(o, "cleanup") ELSE Onward(o)
    /\ UNCHANGED <<lock, started, interrupts, kills>>

\* KeyboardInterrupt, in the middle of a command that does its work all the same, or a part
\* of it, or none.
Interrupt(o) ==
    /\ HasStep(o) /\ failures < MaxFailures /\ interrupts < MaxInterrupts
    /\ failures' = failures + 1 /\ interrupts' = interrupts + 1
    /\ stack' \in Outcomes(Step(o), stack) \cup Botched(Step(o), stack)
    /\ said' = IF drill[o].at = "final" THEN said \cup {"cut short"} ELSE said
    /\ LET needed == Blocks(drill[o].kind)[drill[o].block].after
       IN Raise(o, IF drill[o].at = "final" THEN "release"
                   ELSE IF drill[o].at = "body" /\ drill[o].pc > needed THEN "cleanup"
                   ELSE "final")
    /\ UNCHANGED <<lock, started, kills>>

\* The end of a body, of a finally, and of the block: a raised exception skips the rest.
NextPart(o) ==
    /\ drill[o].at \in {"body", "cleanup"} /\ ~HasStep(o)
    /\ IF drill[o].at = "body" THEN GoTo(o, "cleanup")
       ELSE IF drill[o].raised \/ drill[o].block = Len(Blocks(drill[o].kind)) THEN GoTo(o, "final")
       ELSE drill' = [drill EXCEPT ![o] = [@ EXCEPT !.at = "body", !.pc = 1,
                                               !.block = drill[o].block + 1]]
    /\ UNCHANGED <<stack, lock, said, started, failures, interrupts, kills>>

\* exclusive_run's finally: the lock is removed, whoever's it is.
Release(o) ==
    /\ drill[o].at = "release" \/ (drill[o].at = "final" /\ ~HasStep(o))
    /\ Unlock /\ Moves(o, "over")
    /\ UNCHANGED <<stack, said, started, failures, interrupts, kills>>

\* No finally runs.
Kill(o) ==
    /\ Busy(o) /\ kills < MaxKills
    /\ kills' = kills + 1
    /\ Moves(o, "over")
    /\ UNCHANGED <<stack, lock, said, started, failures, interrupts>>

DrillNext ==
    \/ LockAges
    \/ \E o \in Operators :
        \/ \E kind \in {"infra", "costctl", "inspect", "backup"} : StartDrill(o, kind)
        \/ OpenLock(o) \/ UnlinkStale(o) \/ Reopen(o) \/ WriteLock(o) \/ Ready(o)
        \/ Perform(o) \/ FailStep(o) \/ Interrupt(o) \/ NextPart(o) \/ Release(o) \/ Kill(o)

DrillSpec == DrillsInit /\ [][DrillNext]_drillVars

-----------------------------------------------------------------------------
(* Whatever fails, and wherever the operator presses Ctrl-C before its last  *)
(* finally, a drill that ends leaves the stack as it found it or says which  *)
(* part it left broken: datastores, the environment of the API, poisoned     *)
(* host names, the kill switch, scratch databases.  Of the host names this   *)
(* is so unless two commands fail, the one that mends them and the look at   *)
(* them, which then finds nothing.  Of two things it is so without an        *)
(* interrupt only: the switch, which the inspection's finally clears without *)
(* looking whether it did, and Q10's spend limit.  Ctrl-C in Q10's finally,  *)
(* with the spend key back and the API not yet, leaves that limit on an API  *)
(* whose /plan answers 202, and that is all the end of main asks.  The spend *)
(* key and the worker's environment no drill looks at, and nothing is        *)
(* claimed of them.                                                          *)
RestoredOrReported ==
    kills = 0 /\ (\A o \in Operators : ~Busy(o)) /\ "cut short" \notin said =>
        /\ ~stack.redis => "redis" \in said
        /\ ~stack.db => "db" \in said
        /\ stack.api \in {"floor", "down"} => {"api", "planning"} \cap said # {}
        /\ stack.api = "limit" => "api" \in said \/ interrupts > 0
        /\ stack.hosts # {} => "hosts" \in said \/ failures > 1
        /\ stack.switch = "0" => "planning" \in said \/ interrupts > 0
        /\ ScratchLeft(stack) => "scratch" \in said
=============================================================================
