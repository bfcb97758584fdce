SPECIFICATION FairSpec
CONSTANTS
    c1 = c1  c2 = c2  c3 = c3  c4 = c4  c5 = c5
    Callers = {c1, c2}
    Site <- Spending
    Threshold = 1
    Slow = {}
    Cancellable = {}
    MaxCancels = 0
PROPERTIES Recovers
