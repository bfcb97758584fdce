SPECIFICATION Spec
CONSTANTS
    q1 = q1  q2 = q2  q3 = q3  p1 = p1
    Requests = {q1, q2, q3}
    Procs = {p1}
    ProcOf <- MCProcOf
    Checks <- MCChecks
    Limit <- MCLimit
    Window <- MCWindow
    LocalMax = 1
    Faults = {"incr", "lost_reply", "expire"}
SYMMETRY MCSymmetry
INVARIANTS BurstBounded
PROPERTIES WindowFixed
