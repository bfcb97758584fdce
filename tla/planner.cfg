SPECIFICATION MCSpec
CONSTANTS
    kyoto = kyoto  osaka = osaka  p1 = p1  p2 = p2  p3 = p3
    MaxCities = 2
    Requests <- MCRequests
    Cities = {kyoto, osaka}
    MaxAttempts = 2
    MaxCost = 2
    Prices = {0, 1}
    MaxPrice = 1
    EmbedPrice = 1
    MaxCrashes = 1
    Places <- MCPlaces
    Hits <- MCHits
    Answers <- MCAnswers
    Buckets <- MCBuckets
    TopN = 2
    MaxDays = 10
    PerDay = 2
    NumCities = 3
    Interests = {"food"}
    Candidates <- MCCandidates
    Overpass <- MCOverpass
    Articles <- MCArticles
INVARIANTS BudgetHolds ReportedCost DaysTile MergeIsFair GapsAreSaid NoSilentHop
PROPERTIES FinishedIsFree RunEnds
CHECK_DEADLOCK FALSE
