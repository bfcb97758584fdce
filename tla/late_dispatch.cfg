SPECIFICATION Spec
CONSTANTS
    r1 = r1  r2 = r2  t1 = t1  s1 = s1  s2 = s2
    Runs = {r1}
    Tenants = {t1}
    NoMsg = NoMsg
    Owner <- MCOwner
    Slots = {s1}
    MaxRetries = 0
    Copies = {1}
    MaxCrashes = 0
    Faults <- LateSend
PROPERTIES TerminalNeverExecuted
