SPECIFICATION VisibilitySpec
CONSTANTS
    a = a  b = b  c = c
    Tasks = {a, b}
    Processes = 1
    TimeLimit = 20
    Visibility = 24
    Countdowns <- MCCountdowns
INVARIANTS TimeoutClearsRuns
