-------------------------------- MODULE DayPlan --------------------------------
(***************************************************************************)
(* Where the stops of a city's itinerary come from: the corpus hits in the *)
(* order the reranker's answer gives (retrieve.py, rerank.py), or else the *)
(* places found live per interest, merged (nodes.py), cut to a realistic   *)
(* load and split into days.  A place is its fingerprint, name and rounded *)
(* position.                                                               *)
(***************************************************************************)
EXTENDS Naturals, Sequences, SequencesExt

CONSTANTS
    Places,     \* what can be visited
    Hits,       \* bound: what the corpus may answer, sequences of distinct places
    Answers,    \* bound: the index lists a model may answer with, in range or not
    Buckets,    \* bound: what the live search may find, a sequence per interest it answered
    TopN,       \* rerank_top_k
    MaxDays,    \* PlanRequest.days is at most this
    PerDay      \* _MAX_POIS_PER_DAY

ASSUME DayPlanAssumption ==
    /\ \A found \in Hits : found \in Seq(Places) /\ IsInjective(found)
    /\ \A finds \in Buckets : finds \in Seq(Seq(Places))
    /\ TopN \in Nat \ {0} /\ MaxDays \in Nat \ {0} /\ PerDay \in Nat \ {0}

VARIABLES
    stage,     \* how far the city's nodes are
    hits,      \* the corpus's answer, empty without a retriever
    buckets,   \* the live search's
    pois,      \* state["pois"], in order of relevance
    days       \* the stops of each day of the draft

planVars == <<stage, hits, buckets, pois, days>>

NothingPlanned ==
    stage = "none" /\ hits = <<>> /\ buckets = <<>> /\ pois = <<>> /\ days = <<>>

PlanInit ==
    /\ stage = "retrieving"
    /\ hits \in Hits /\ buckets \in Buckets
    /\ pois = <<>> /\ days = <<>>

-----------------------------------------------------------------------------
(* The reranker.  Indices count from 1 here.                                *)

\* _parse_indices: what is out of range or repeated is dropped.
Parsed(answer, n) ==
    FoldLeft(LAMBDA out, i : IF i \in 1..n /\ ~Contains(out, i) THEN Append(out, i) ELSE out,
             <<>>, answer)

Reranked(answer) ==
    LET order == Parsed(answer, Len(hits))
        ranked == [i \in DOMAIN order |-> hits[order[i]]]
        others == SelectSeq(hits, LAMBDA p : ~Contains(ranked, p))
    IN  IF Len(hits) <= TopN THEN hits ELSE SubSeq(ranked \o others, 1, TopN)

\* Any failure, of the embedding, the store or the reranker, leaves it to the live search.
Retrieve ==
    /\ stage = "retrieving"
    /\ \/ /\ hits # <<>>
          /\ \E answer \in Answers : pois' = Reranked(answer)
          /\ stage' = "from_corpus"
       \/ stage' = "searching" /\ UNCHANGED pois
    /\ UNCHANGED <<hits, buckets, days>>

-----------------------------------------------------------------------------
(* The live search: round k takes the k-th place of each interest that has   *)
(* one and keeps those not seen before.                                      *)

\* zip_longest(*buckets) asks every bucket once in each round.
Rounds == Max({Len(buckets[i]) : i \in DOMAIN buckets} \cup {0})
Slots == Rounds * Len(buckets)
Round(slot) == ((slot - 1) \div Len(buckets)) + 1
Bucket(slot) == buckets[((slot - 1) % Len(buckets)) + 1]

Unseen(merged, place) ==
    IF Contains(merged, place) THEN merged ELSE Append(merged, place)

\* Mutant: the interests one after the other.
Concatenated == FoldLeft(Unseen, <<>>, FlattenSeq(buckets))

\* A bucket that is used up answers None.
Filled(merged, slot) ==
    IF Round(slot) <= Len(Bucket(slot)) THEN Unseen(merged, Bucket(slot)[Round(slot)]) ELSE merged

\* _merge_interest_buckets.
Merged ==
    LET merged[slot \in 0..Slots] ==
            IF slot = 0 THEN <<>> ELSE Filled(merged[slot - 1], slot)
    IN  merged[Slots]

SearchLive ==
    /\ stage = "searching"
    /\ pois' = Merged
    /\ stage' = "from_live"
    /\ UNCHANGED <<hits, buckets, days>>

-----------------------------------------------------------------------------
(* compose_node: _plan_pois and _build_days, for a request of n days.        *)

Least(a, b) == IF a <= b THEN a ELSE b

\* Mutant: nothing is cut.
PlanPoisUncut(n) == pois

PlanPois(n) == SubSeq(pois, 1, Least(Len(pois), Least(n, Len(pois)) * PerDay))

\* divmod, the remainder front-loaded: the first day takes a share of what is left,
\* rounded up, and so does each day after it.
Split(places, n) ==
    LET count == Least(n, Len(places))
        base == Len(places) \div count
        extra == Len(places) % count
        start(d) == (d - 1) * base + Least(d - 1, extra)
    IN  [d \in 1..count |-> SubSeq(places, start(d) + 1, start(d + 1))]

Draft ==
    /\ stage \in {"from_corpus", "from_live"}
    /\ \E n \in 1..MaxDays : days' = Split(PlanPois(n), n)
    /\ stage' = IF stage = "from_corpus" THEN "corpus_drafted" ELSE "live_drafted"
    /\ UNCHANGED <<hits, buckets, pois>>

PlanNext == Retrieve \/ SearchLive \/ Draft

PlanSpec == PlanInit /\ [][PlanNext]_planVars

-----------------------------------------------------------------------------
Drafted == stage \in {"corpus_drafted", "live_drafted"}

\* The days take the most relevant places in their order, each once, and every day is
\* one a traveller can follow: none empty however few the places, none overfull however
\* many, no two more than a stop apart, and no fewer days or stops than there could be
\* (nodes.py:174-217).
DaysTile ==
    Drafted =>
        /\ FlattenSeq(days) = SubSeq(pois, 1, Len(FlattenSeq(days)))
        /\ \A d, e \in DOMAIN days :
              /\ Len(days[d]) \in 1..PerDay
              /\ d < e => Len(days[d]) - Len(days[e]) \in {0, 1}
        /\ Len(FlattenSeq(days)) < Len(pois) => \A d \in DOMAIN days : Len(days[d]) = PerDay
        /\ pois # <<>> => days # <<>>

\* The live search loses no place and repeats none, and a plan of k stops has the best
\* place of each of the first k interests that found any: cutting the list cannot leave
\* only the first interest's (nodes.py:99-122).
MergeIsFair ==
    /\ stage = "from_live" =>
          /\ ToSet(pois) = UNION {ToSet(buckets[i]) : i \in DOMAIN buckets}
          /\ IsInjective(pois)
    /\ stage = "live_drafted" =>
          \A i \in DOMAIN buckets :
             buckets[i] # <<>> /\ i <= Len(FlattenSeq(days))
                => Contains(FlattenSeq(days), buckets[i][1])
=============================================================================
