SPECIFICATION FairSpec
CONSTANTS
    kyoto = kyoto  osaka = osaka
    Cities = {kyoto, osaka}
    MaxCompose = 2
    MaxLosses = 1
    MaxWire = 1
INVARIANTS ToldTheTruth
PROPERTIES PhasesForward PageFinishes
CHECK_DEADLOCK FALSE
