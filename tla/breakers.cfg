SPECIFICATION FairSpec
CONSTANTS
    c1 = c1  c2 = c2  c3 = c3  c4 = c4  c5 = c5
    Callers = {c1, c2, c3, c4}
    Site <- Reporting
    Threshold = 2
    Slow = {"nominatim"}
    Cancellable = {c1}
    MaxCancels = 1
INVARIANTS ProbeInFlight OneProbe
PROPERTIES Recovers
