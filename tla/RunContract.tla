----------------------------- MODULE RunContract ------------------------------
(***************************************************************************)
(* What the API, the worker and the reconciler together promise of a run,  *)
(* with the queue, the transactions and the crashes left out: a run is     *)
(* executed by one claim at a time, only an open run is claimed, only the  *)
(* claim may say `succeeded`, and once it has ended that is the last word. *)
(***************************************************************************)
CONSTANT Runs

VARIABLES status, claimed

vars == <<status, claimed>>

Open == {"queued", "running"}
Status == {"none", "queued", "running", "succeeded", "failed", "erased"}

TypeOK ==
    /\ status \in [Runs -> Status]
    /\ claimed \in SUBSET Runs

Init ==
    /\ status = [r \in Runs |-> "none"]
    /\ claimed = {}

Become(r, s) == status' = [status EXCEPT ![r] = s]

Create(r) ==
    /\ status[r] = "none"
    /\ Become(r, "queued")
    /\ UNCHANGED claimed

Claim(r) ==
    /\ status[r] \in Open
    /\ r \notin claimed
    /\ claimed' = claimed \cup {r}
    /\ UNCHANGED status

\* A claim may reopen a run the reconciler closed while it was at work.
Start(r) ==
    /\ r \in claimed
    /\ status[r] \in Open \cup {"failed"}
    /\ Become(r, "running")
    /\ UNCHANGED claimed

Succeed(r) ==
    /\ r \in claimed
    /\ status[r] \in Open \cup {"failed"}
    /\ Become(r, "succeeded")
    /\ UNCHANGED claimed

\* The claim fails the run and ends, be it after it had succeeded.
Fail(r) ==
    /\ r \in claimed
    /\ status[r] \in Open \cup {"succeeded", "failed"}
    /\ Become(r, "failed")
    /\ claimed' = claimed \ {r}

\* A claim ends: its result is announced, or nothing came of it (a retry, a crash,
\* a time limit).
Release(r) ==
    /\ r \in claimed
    /\ claimed' = claimed \ {r}
    /\ UNCHANGED status

\* A refused dispatch, or a reconciler pass, closes runs nobody will.
Close(S) ==
    /\ \A r \in S : status[r] \in Open
    /\ status' = [r \in Runs |-> IF r \in S THEN "failed" ELSE status[r]]
    /\ UNCHANGED claimed

Erase(S) ==
    /\ \A r \in S : status[r] # "none"
    /\ status' = [r \in Runs |-> IF r \in S THEN "erased" ELSE status[r]]
    /\ UNCHANGED claimed

Next ==
    \/ \E r \in Runs : Create(r) \/ Claim(r) \/ Start(r) \/ Succeed(r) \/ Fail(r)
                       \/ Release(r)
    \/ \E S \in SUBSET Runs : Close(S) \/ Erase(S)

Spec == Init /\ [][Next]_vars
=============================================================================
