SPECIFICATION ChainSpec
CONSTANTS
    local = local  groq = groq  openai = openai
    q1 = q1  q2 = q2  q3 = q3
    Venues = {local, groq, openai}
    Legs <- MCLegs
    Configured = {local, openai}
    Walkers = {q1, q2, q3}
    MaxCalls = 4
    Threshold = 2
    SlowVenues = {openai}
INVARIANTS OneProbePerVenue DeadVenueIsCheap
PROPERTIES OnlyRefusalOrphans
CHECK_DEADLOCK FALSE
