--------------------------------- MODULE Sources ---------------------------------
(***************************************************************************)
(* What a trip is planned from, and what it says it was not: geocoding,    *)
(* the forecast, the corpus, the place search with its fallback (tp_tools),*)
(* the nodes that swallow their failures (nodes.py) and the trip that      *)
(* merges the cities (coordinator.py).  The cities share nothing, so the   *)
(* model takes one after the other, and so it does with the interests.     *)
(***************************************************************************)
EXTENDS Naturals, Sequences, FiniteSetsExt

CONSTANTS
    NumCities,      \* len(request.cities)
    Interests,      \* request.interests
    Candidates,     \* bound: what Nominatim may answer, sequences of classes
    Overpass,       \* bound: what OVERPASS_URL may answer, sequences of kinds of element
    Articles        \* bound: what Wikipedia may

Classes == {"place", "admin", "infrastructure", "other"}

\* What a warning may say that is not the name of a source.
Notes == {"unknown place", "obscure place", "no places", "limited plan", "left out"}

ASSUME SourcesAssumption ==
    /\ NumCities \in Nat \ {0}
    /\ \A results \in Candidates : results \in Seq(Classes)
    /\ Interests \cap Notes = {}

VARIABLES
    doing,          \* the city being planned, NumCities + 1 when the trip is merged
    step,           \* what is done for it next
    plan,           \* per city: what its itinerary has and says
    waiting,        \* interests still to look up for this city
    broke,          \* what failed, whoever noticed: per city a set of sources
    merged          \* the trip: cities left out, warnings, legs

sourcesVars == <<doing, step, plan, waiting, broke, merged>>

-----------------------------------------------------------------------------
CityNumbers == 1..NumCities

\* What request_json, its attempts over, hands back: a body, a ToolError, or (a body that
\* is not JSON, or not of the expected shape) an exception of another class.
Body(items) == [status |-> "ok", items |-> items]
ToolError == [status |-> "tool_error", items |-> <<>>]
Unreadable == [status |-> "unreadable", items |-> <<>>]
Reply(bodies) == {Body(b) : b \in bodies} \cup {ToolError, Unreadable}

NoPlan == [anchor |-> "none", grounded |-> FALSE, warnings |-> {}, failed |-> FALSE]
NoTrip == [failed |-> {}, warnings |-> {}, legs |-> {}, hops |-> {}]

SourcesInit ==
    /\ doing = 1 /\ step = "geocode"
    /\ plan = [c \in CityNumbers |-> NoPlan]
    /\ waiting = {}
    /\ broke = [c \in CityNumbers |-> {}]
    /\ merged = NoTrip

Current == plan[doing]
Learns(new) == plan' = [plan EXCEPT ![doing] = new]
Breaks(what, reply) ==
    broke' = IF reply.status = "ok" THEN broke ELSE [broke EXCEPT ![doing] = @ \cup {what}]

\* run_city raised: gather returns the exception, and the next city is taken.
Raised ==
    /\ Learns([Current EXCEPT !.failed = TRUE])
    /\ doing' = doing + 1 /\ step' = "geocode" /\ waiting' = {}
    /\ UNCHANGED merged

-----------------------------------------------------------------------------
(* geocode_node.                                                             *)

Match(results, class) == \E i \in DOMAIN results : results[i] = class
Destinations(results) == {i \in DOMAIN results : results[i] # "infrastructure"}

\* _prefers_settlement.
Chosen(results) ==
    IF Match(results, "place") THEN "place"
    ELSE IF Match(results, "admin") THEN "admin"
    ELSE IF Destinations(results) = {} THEN "none" ELSE results[Min(Destinations(results))]

\* An obscure match is planned for, and named.
GeocodeCity ==
    /\ step = "geocode" /\ doing <= NumCities
    /\ \E reply \in Reply(Candidates), obscure \in BOOLEAN :
        /\ Breaks("geocoder", reply)
        /\ IF reply.status = "unreadable" THEN Raised
           ELSE LET anchor == Chosen(reply.items)
                    said == IF anchor = "none"
                            THEN {IF reply.status = "ok" THEN "unknown place" ELSE "geocoder"}
                            ELSE IF obscure THEN {"obscure place"} ELSE {}
                IN  /\ Learns([Current EXCEPT !.anchor = anchor, !.warnings = said])
                    /\ step' = IF anchor = "none" THEN "compose" ELSE "weather"
                    /\ UNCHANGED <<doing, waiting, merged>>

(* gather_node.                                                              *)

\* A forecast without a row is a forecast; only a failed one is a warning.
Forecast ==
    /\ step = "weather"
    /\ \E reply \in Reply({<<>>}) :
        /\ Breaks("weather", reply)
        /\ IF reply.status = "unreadable" THEN Raised
           ELSE /\ Learns([Current EXCEPT
                      !.warnings = IF reply.status = "ok" THEN @ ELSE @ \cup {"weather"}])
                /\ step' = "corpus"
                /\ UNCHANGED <<doing, waiting, merged>>

\* The corpus first, if there is a retriever; any failure of it is survived.
SearchCorpus ==
    /\ step = "corpus"
    /\ \E reply \in Reply({<<>>, <<"poi">>}), retriever \in BOOLEAN :
        LET asked == retriever /\ reply.status # "ok"
            hits == retriever /\ reply.items # <<>>
        IN  /\ broke' = IF asked THEN [broke EXCEPT ![doing] = @ \cup {"corpus"}] ELSE broke
            /\ Learns([Current EXCEPT !.grounded = hits,
                                   !.warnings = IF asked THEN @ \cup {"corpus"} ELSE @])
            /\ step' = IF hits THEN "compose" ELSE "live"
            /\ waiting' = IF hits THEN {} ELSE Interests
            /\ UNCHANGED <<doing, merged>>

(* find_pois, once per interest.                                             *)

Usable(elements) == \E i \in DOMAIN elements : elements[i] = "named and placed"
Sights(articles) == \E i \in DOMAIN articles : articles[i] = "sight"
NoEndpoint == [status |-> "unset", items |-> <<>>]
NotAsked == [status |-> "not asked", items |-> <<>>]

\* Mutant: a fallback that finds nothing hides the error of the mirror before it.
OutcomeOfFallback(first, fallback) ==
    IF Sights(fallback.items) THEN "places"
    ELSE IF fallback.status = "ok" THEN "none" ELSE "raised"

\* The fallback is asked when the first failed, was unset, or found nothing it could use.
Outcome(first, fallback) ==
    IF Sights(fallback.items) THEN "places"
    ELSE IF "tool_error" = first.status \/ fallback.status # "ok" THEN "raised" ELSE "none"

\* An unreadable body of the first is not caught: the fallback is not asked then.
LookUp(i) ==
    /\ step = "live" /\ i \in waiting
    /\ \E first \in Reply(Overpass) \cup {NoEndpoint} :
        LET usable == Usable(first.items)
            asks == ~usable /\ first.status # "unreadable"
        IN \E fallback \in IF asks THEN Reply(Articles) ELSE {NotAsked} :
            LET found == IF usable THEN "places"
                         ELSE IF asks THEN Outcome(first, fallback) ELSE "raised"
                failed == {first.status, fallback.status} \cap {"tool_error", "unreadable"} # {}
            IN  /\ broke' = IF failed /\ ~usable /\ ~Sights(fallback.items)
                            THEN [broke EXCEPT ![doing] = @ \cup {i}] ELSE broke
                /\ Learns([Current EXCEPT
                      !.grounded = @ \/ found = "places",
                      !.warnings = IF found = "raised" THEN @ \cup {i} ELSE @])
    /\ waiting' = waiting \ {i}
    /\ UNCHANGED <<doing, step, merged>>

(* compose_node: what it is built on is said wherever it runs.                *)
ComposeCity ==
    /\ step = "compose" \/ (step = "live" /\ waiting = {})
    /\ Learns([Current EXCEPT !.warnings =
                  @ \cup IF Current.anchor # "none" /\ ~Current.grounded THEN {"no places"} ELSE {}])
    /\ doing' = doing + 1 /\ step' = "geocode"
    /\ UNCHANGED <<waiting, broke, merged>>

-----------------------------------------------------------------------------
(* plan_trip, once every city has been planned or has failed.                *)

Kept == {c \in CityNumbers : ~plan[c].failed}
Located == {c \in Kept : plan[c].anchor # "none"}

\* The pairs of cities that follow each other among some of the trip's.
Neighbours(some) ==
    {pair \in some \X some :
        pair[1] < pair[2] /\ ~\E c \in some : pair[1] < c /\ c < pair[2]}

\* Mutant: legs are named after positions, not after the cities that have one.
LegsByIndex(points) == {<<i, i + 1>> : i \in 1..(Cardinality(points) - 1)}

\* route: a leg per pair of neighbours among the cities that are on the map.
Legs(points) == Neighbours(points)

\* _merge_summary prints a hop between neighbours that have a leg of their own.
Hops(legs) == Neighbours(Kept) \cap legs

OfCity(c) ==
    IF plan[c].failed THEN {<<c, "left out">>}
    ELSE {<<c, w>> : w \in plan[c].warnings}
         \cup IF plan[c].grounded THEN {} ELSE {<<c, "limited plan">>}

\* _inter_city_legs: only two places on the map or more have anything between them.
SomethingBetween == \E a, b \in Located : a # b
InterCityLegs(answer) ==
    IF SomethingBetween /\ answer = "legs" THEN Legs(Located) ELSE {}

\* Routing is best-effort, any exception included, but never silent.
MergeTrip ==
    /\ doing = NumCities + 1 /\ step = "geocode"
    /\ \E answer \in {"legs", "no legs", "fails"} :
        LET legs == InterCityLegs(answer)
            unrouted == SomethingBetween /\ legs = {}
        IN  merged' = [failed |-> {c \in CityNumbers : plan[c].failed},
                       warnings |-> (UNION {OfCity(c) : c \in CityNumbers})
                                    \cup IF unrouted THEN {<<0, "no travel legs">>} ELSE {},
                       legs |-> legs, hops |-> Hops(legs)]
    /\ step' = "merged"
    /\ UNCHANGED <<doing, plan, waiting, broke>>

SourcesNext == \/ GeocodeCity \/ Forecast \/ SearchCorpus \/ \E i \in Interests : LookUp(i)
               \/ ComposeCity \/ MergeTrip

SourcesSpec == SourcesInit /\ [][SourcesNext]_sourcesVars

-----------------------------------------------------------------------------
Says(c, what) == <<c, what>> \in merged.warnings

(* However many sources fail, and whichever, the merged trip says of each    *)
(* city what it lacks: that it was left out, that a source it needed failed, *)
(* that it has no places; it blames no source that answered, and it is never *)
(* planned around something that is no destination.                          *)
GapsAreSaid ==
    step = "merged" =>
        \A c \in CityNumbers :
            IF plan[c].failed THEN c \in merged.failed /\ Says(c, "left out")
            ELSE /\ \A what \in {"geocoder", "weather", "corpus"} \cup Interests :
                        Says(c, what) <=> what \in broke[c]
                 /\ ~plan[c].grounded => Says(c, "limited plan")
                 /\ plan[c].anchor # "infrastructure"

(* Neighbours in the summary without a hop between them are explained: by    *)
(* the routing, or by one of the two having no place on the map.             *)
NoSilentHop ==
    step = "merged" =>
        \A pair \in Neighbours(Kept) :
            \/ pair \in merged.hops
            \/ <<0, "no travel legs">> \in merged.warnings
            \/ \E c \in {pair[1], pair[2]} : Says(c, "unknown place") \/ Says(c, "geocoder")
=============================================================================
