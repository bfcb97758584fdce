----------------------------- MODULE MCTripPlanner -----------------------------
(* Small instances of TripPlanner, DayPlan and Sources, checked side by      *)
(* side: a behaviour plans a run, or draws up the days of one city, or asks  *)
(* the sources of a trip; the other two are at rest.                         *)
EXTENDS TripPlanner, DayPlan, Sources

CONSTANTS kyoto, osaka, p1, p2, p3

\* One city, two cities, one city named twice.
MCRequests == {<<kyoto>>, <<kyoto, osaka>>, <<kyoto, kyoto>>}

MCPlaces == {p1, p2, p3} \cup 1..24

\* Up to four hits, and answers that repeat, leave out and exceed their indices.
MCHits == {[i \in 1..n |-> i] : n \in 0..4}
MCAnswers == BoundedSeq(0..5, 3)

\* Every find of up to three interests with up to two of three places each; and, to fill
\* the days, one interest with up to 24 places.
MCBuckets == UNION {[1..k -> BoundedSeq({p1, p2, p3}, 2)] : k \in 0..3}
             \cup {<<[i \in 1..n |-> i]>> : n \in 0..24}

\* The corpus's hits, or what the live search finds if it has none or fails: every one of
\* either, not of both at once.
AnsweredOrFound == hits = <<>> \/ Len(buckets) <= 1

\* A run that failed before its first node.
NoRun ==
    /\ kind = "plan" /\ request = <<kyoto>>
    /\ task = <<"failed">> /\ live = <<Blank>>
    /\ saved = [c \in Cities |-> NoCheckpoint]
    /\ tally = 0 /\ spent = 0 /\ crashes = 0
    /\ report = [state |-> "failed", cost |-> 0]

MCCandidates == {<<>>, <<"infrastructure">>, <<"infrastructure", "admin", "place">>}
MCOverpass == {<<>>, <<"unnamed", "named and placed">>}
MCArticles == {<<"event">>, <<"event", "sight">>}

\* A trip whose cities all failed, merged.
SourcesDone ==
    /\ doing = NumCities + 1 /\ step = "merged" /\ waiting = {}
    /\ plan = [c \in CityNumbers |-> [NoPlan EXCEPT !.failed = TRUE]]
    /\ broke = [c \in CityNumbers |-> {"geocoder"}]
    /\ merged = [failed |-> CityNumbers, warnings |-> CityNumbers \X {"left out"},
                 legs |-> {}, hops |-> {}]

MCInit ==
    \/ Init /\ NothingPlanned /\ SourcesDone
    \/ NoRun /\ PlanInit /\ AnsweredOrFound /\ SourcesDone
    \/ NoRun /\ NothingPlanned /\ SourcesInit

MCNext ==
    \/ Next /\ UNCHANGED <<planVars, sourcesVars>>
    \/ PlanNext /\ UNCHANGED <<vars, sourcesVars>>
    \/ SourcesNext /\ UNCHANGED <<vars, planVars>>

MCSpec == MCInit /\ [][MCNext]_<<vars, planVars, sourcesVars>> /\ Fairness
=============================================================================
