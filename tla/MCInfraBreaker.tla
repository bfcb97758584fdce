---------------------------- MODULE MCInfraBreaker ----------------------------
(* The breakers of a process, and the call sites that share them.          *)
EXTENDS InfraBreaker

CONSTANTS c1, c2, c3, c4, c5

\* Two lookups, two cache reads and a session.
Reporting == [c \in Callers |-> CASE c \in {c1, c2} -> "lookup"
                                  [] c \in {c3, c4} -> "cache"
                                  [] c = c5 -> "session"]
\* A cache read and a record_spend.
Spending == [c \in Callers |-> IF c = c1 THEN "spend" ELSE "cache"]
=============================================================================
