------------------------------ MODULE MCRateLimit ------------------------------
(* Small instances of RateLimit.                                           *)
EXTENDS RateLimit, TLC

CONSTANTS q1, q2, q3, p1

MCProcOf == [q \in Requests |-> p1]
MCChecks == <<"tenant_min", "tenant_day", "ip_min">>
MCLimit == [s \in {"tenant_min", "tenant_day", "ip_min"} |-> IF s = "tenant_day" THEN 0 ELSE 1]
MCWindow == [s \in {"tenant_min", "tenant_day", "ip_min"} |-> IF s = "tenant_min" THEN 2 ELSE 1]
MCSymmetry == Permutations(Requests)
=============================================================================
