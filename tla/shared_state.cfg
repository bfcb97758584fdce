SPECIFICATION MCSpec
CONSTANTS
    a = a  b = b  c = c  r1 = r1  r2 = r2
    l1 = l1  l2 = l2  l3 = l3  w1 = w1  w2 = w2  c1 = c1  c2 = c2  o1 = o1  o2 = o2
    Scenes = {"visibility", "spend", "throttle", "cache", "index", "gate",
              "sign-in", "drills"}
    Tasks = {a, b, c}
    Processes = 1
    TimeLimit = 2
    Visibility = 3
    Countdowns <- MCCountdowns
    Runs = {r1, r2}
    DailyLimit = 1
    Costs = {0, 1}
    MaxCalls = 2
    LastDay = 2
    SpendFaults = {"read", "skip", "lost_reply", "expire"}
    Lookups = {l1, l2, l3}
    Workers = {w1, w2}
    WorkerOf <- MCWorkerOf
    Interval = 2
    MaxWait = 2
    Attempts = 2
    Outages = TRUE
    Tools = {"geo", "pois"}
    Callers = {c1, c2}
    Answers = {"none", "here"}
    Empty = "none"
    Ttl <- MCTtl
    EmptyTtl <- MCEmptyTtl
    LastVersion = 1
    Places = {"sensoji", "ueno", "gion"}
    CityOf <- MCCityOf
    Models = {"voyage", "openai"}
    Searchers = {w1}
    TopN = 1
    MaxIngests = 2
    MaxEdits = 1
    Cases <- MCCases
    Misses = {{}, {"grounded"}, {"faithful", "coverage"}, {"success", "grounded", "coverage"}}
    PerTolerance = 2
    MaxRuns = 3
    Emails = {"ann@x.io", "bob@x.io"}
    MaxSignUps = 3
    MaxCrashes = 1
    DemoPassword = TRUE
    Operators = {o1, o2}
    MaxDrills = 2
    MaxFailures = 1
    MaxInterrupts = 1
    MaxKills = 1
SYMMETRY MCSymmetry
INVARIANTS FirstAttemptFits RetryHeldAtMost OvershootBounded SpendAccounted
INVARIANTS WaitsBounded AnswersFresh AccountsKept RestoredOrReported
PROPERTIES SlotsSpaced RankedInOneSpace BarHolds
