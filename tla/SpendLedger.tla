------------------------------ MODULE SpendLedger ------------------------------
(***************************************************************************)
(* The daily spend breaker (control.py): a request is admitted by the      *)
(* configured floor, the runtime switch and today's ledger, in that order, *)
(* and an admitted run adds what each paid call cost to the ledger of the  *)
(* day on which it records it.  The ledger is read at admission only.      *)
(***************************************************************************)
EXTENDS Naturals, FiniteSets, FiniteSetsExt, Functions

CONSTANTS
    Runs,          \* requests, each a run once admitted
    DailyLimit,    \* DAILY_SPEND_LIMIT_USD, 0 for no limit
    Costs,         \* what one paid call may cost
    MaxCalls,      \* bound on the paid calls of a run
    LastDay,       \* bound on the days
    SpendFaults    \* "read", "skip", "lost_reply", "expire": what Redis may fail at

ASSUME SpendAssumption ==
    /\ DailyLimit \in Nat /\ MaxCalls \in Nat /\ LastDay \in Nat
    /\ Costs \subseteq Nat /\ IsFiniteSet(Costs) /\ Costs # {} /\ IsFiniteSet(Runs)

VARIABLES
    llmEnabled,    \* LLM_ENABLED
    switch,        \* the key planning:enabled
    today,
    ledger,        \* per day: the key spend:usd:{day} and its TTL in days
    run,           \* per run: where it is, the day of its next command, its tally
    exposed,       \* runs that may still spend on what the breaker has let pass
    lost           \* what was spent and is in no ledger

spendVars == <<llmEnabled, switch, today, ledger, run, exposed, lost>>

-----------------------------------------------------------------------------
Days == 0..LastDay
NoExpiry == 0
NoLedger == [usd |-> 0, ttl |-> NoExpiry]
LedgerDays == 2     \* _SPEND_TTL

Asked == [pc |-> "idle", on |-> 0, calls |-> 0, owes |-> 0, tally |-> 0]

SpendInit ==
    /\ llmEnabled \in BOOLEAN /\ switch = "unset" /\ today = 0
    /\ ledger = [d \in Days |-> NoLedger]
    /\ run = [r \in Runs |-> Asked]
    /\ exposed = {} /\ lost = 0

IsAt(r, pc) == run[r].pc = pc
MovesOn(r, pc) == run' = [run EXCEPT ![r].pc = pc]
Running == {r \in Runs : run[r].pc \in {"passed", "recording", "expiring"}}

\* Mutant: a day that has just reached its limit is not yet breached.
SpendStateLate(usd) ==
    IF DailyLimit > 0 /\ usd > DailyLimit THEN "breached" ELSE "ok"

\* soft_alert, from four fifths of the limit, only colours a gauge.
SpendState(usd) ==
    IF DailyLimit = 0 THEN "ok"
    ELSE IF usd >= DailyLimit THEN "breached"
    ELSE IF 5 * usd >= 4 * DailyLimit THEN "soft_alert" ELSE "ok"

-----------------------------------------------------------------------------
\* Admission: planning_enabled, with an await at each read.

Ask(r) ==
    /\ IsAt(r, "idle")
    /\ MovesOn(r, IF llmEnabled THEN "switch" ELSE "refused")
    /\ UNCHANGED <<llmEnabled, switch, today, ledger, exposed, lost>>

\* The run passes: whatever is running now may add to the ledger it was judged by.
Pass(r, measured) ==
    /\ MovesOn(r, "passed")
    /\ exposed' = {r} \cup (IF measured THEN Running ELSE exposed)

\* Without a limit the ledger is not read; with one, the key is that of today.
LookAtSpend(r) ==
    IF DailyLimit = 0 THEN Pass(r, FALSE)
    ELSE run' = [run EXCEPT ![r].pc = "spend", ![r].on = today] /\ UNCHANGED exposed

ReadSwitch(r) ==
    /\ IsAt(r, "switch")
    /\ IF switch = "off" THEN MovesOn(r, "refused") /\ UNCHANGED exposed ELSE LookAtSpend(r)
    /\ UNCHANGED <<llmEnabled, switch, today, ledger, lost>>

SwitchUnreadable(r) ==
    /\ IsAt(r, "switch") /\ "read" \in SpendFaults
    /\ LookAtSpend(r)
    /\ UNCHANGED <<llmEnabled, switch, today, ledger, lost>>

ReadSpend(r) ==
    /\ IsAt(r, "spend")
    /\ IF SpendState(ledger[run[r].on].usd) = "breached"
       THEN MovesOn(r, "refused") /\ UNCHANGED exposed
       ELSE Pass(r, run[r].on = today)
    /\ UNCHANGED <<llmEnabled, switch, today, ledger, lost>>

\* spend_today answers 0.0.
SpendUnreadable(r) ==
    /\ IsAt(r, "spend") /\ "read" \in SpendFaults
    /\ Pass(r, FALSE)
    /\ UNCHANGED <<llmEnabled, switch, today, ledger, lost>>

-----------------------------------------------------------------------------
\* record_spend: the run's tally, then two commands on the key of that moment's day.

Pay(r, usd) ==
    /\ IsAt(r, "passed") /\ run[r].calls < MaxCalls
    /\ run' = [run EXCEPT ![r] = [pc |-> "recording", on |-> today, calls |-> @.calls + 1,
                                  owes |-> usd, tally |-> @.tally + usd]]
    /\ UNCHANGED <<llmEnabled, switch, today, ledger, exposed, lost>>

Added(r) == [ledger EXCEPT ![run[r].on].usd = @ + run[r].owes]
Settles(r, pc) == run' = [run EXCEPT ![r].pc = pc, ![r].owes = 0]

AddToTotal(r) ==
    /\ IsAt(r, "recording")
    /\ ledger' = Added(r) /\ Settles(r, "expiring")
    /\ UNCHANGED <<llmEnabled, switch, today, exposed, lost>>

\* Mutant: a command whose reply is lost is sent again.
IncrAgain(r) ==
    /\ IsAt(r, "recording") /\ "lost_reply" \in SpendFaults
    /\ ledger' = Added(r)
    /\ UNCHANGED <<llmEnabled, switch, today, run, exposed, lost>>

\* The reply is lost: counted, and left as it is.
IncrUnanswered(r) ==
    /\ IsAt(r, "recording") /\ "lost_reply" \in SpendFaults
    /\ ledger' = Added(r) /\ Settles(r, "passed")
    /\ UNCHANGED <<llmEnabled, switch, today, exposed, lost>>

\* The breaker skips Redis, or the command fails.
SpendUnrecorded(r) ==
    /\ IsAt(r, "recording") /\ "skip" \in SpendFaults
    /\ Settles(r, "passed") /\ lost' = lost + run[r].owes
    /\ UNCHANGED <<llmEnabled, switch, today, ledger, exposed>>

ExpireLedger(r) ==
    /\ IsAt(r, "expiring")
    /\ ledger' = [ledger EXCEPT ![run[r].on].ttl = LedgerDays] /\ MovesOn(r, "passed")
    /\ UNCHANGED <<llmEnabled, switch, today, exposed, lost>>

ExpireLedgerFails(r) ==
    /\ IsAt(r, "expiring") /\ "expire" \in SpendFaults
    /\ MovesOn(r, "passed")
    /\ UNCHANGED <<llmEnabled, switch, today, ledger, exposed, lost>>

\* The run ends, or its request was refused further on.
EndRun(r) ==
    /\ IsAt(r, "passed") /\ MovesOn(r, "over")
    /\ UNCHANGED <<llmEnabled, switch, today, ledger, exposed, lost>>

-----------------------------------------------------------------------------
FlipSwitch ==
    /\ switch' = IF switch = "off" THEN "on" ELSE "off"
    /\ UNCHANGED <<llmEnabled, today, ledger, run, exposed, lost>>

Recorded == [d \in Days |-> ledger[d].usd]
Reaped == {d \in Days : ledger[d].ttl = 1}
DayOlder(key) == IF key.ttl = NoExpiry THEN key ELSE [key EXCEPT !.ttl = @ - 1]

Midnight ==
    /\ today < LastDay /\ today' = today + 1
    /\ ledger' = [d \in Days |-> IF d \in Reaped THEN NoLedger ELSE DayOlder(ledger[d])]
    /\ lost' = lost + SumFunctionOnSet(Recorded, Reaped)
    /\ exposed' = Running
    /\ UNCHANGED <<llmEnabled, switch, run>>

Admission(r) == \/ Ask(r) \/ ReadSwitch(r) \/ SwitchUnreadable(r) \/ ReadSpend(r) \/ SpendUnreadable(r)
Recording(r) == \/ \E usd \in Costs : Pay(r, usd)
                \/ AddToTotal(r) \/ IncrUnanswered(r) \/ SpendUnrecorded(r)
                \/ ExpireLedger(r) \/ ExpireLedgerFails(r) \/ EndRun(r)

SpendNext == \/ \E r \in Runs : Admission(r) \/ Recording(r)
             \/ FlipSwitch \/ Midnight

SpendSpec == SpendInit /\ [][SpendNext]_spendVars

-----------------------------------------------------------------------------
RunCost == MaxCalls * Max(Costs)
Tallies == [r \in Runs |-> run[r].tally]
Debts == [r \in Runs |-> run[r].owes]

(* However the reads of planning_enabled, the records and midnight fall, a   *)
(* day exceeds its limit by no more than what the runs under way at the last *)
(* measured admission, and those let in unmeasured since, may cost.          *)
OvershootBounded ==
    DailyLimit > 0 => ledger[today].usd < DailyLimit + RunCost * Cardinality(exposed)

(* record_spend neither loses nor doubles money: what the runs have spent is *)
(* in a day's ledger, on its way there, or lost to a failure it counted.     *)
SpendAccounted ==
    SumFunctionOnSet(Tallies, Runs)
        = SumFunctionOnSet(Recorded, Days) + SumFunctionOnSet(Debts, Runs) + lost
=============================================================================
