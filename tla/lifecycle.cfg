SPECIFICATION Spec
CONSTANTS
    r1 = r1  r2 = r2  t1 = t1  s1 = s1  s2 = s2
    Runs = {r1, r2}
    Tenants = {t1}
    NoMsg = NoMsg
    Owner <- MCOwner
    Slots = {s1, s2}
    MaxRetries = 1
    Copies = {1}
    MaxCrashes = 1
    Faults <- NoFaults
SYMMETRY MCSymmetry
INVARIANTS TypeOK SingleExecution RefusedNeverRuns LifecycleInv
PROPERTIES FirstDeliverySpared SucceededIsFinal ImplementsContract
