-------------------------------- MODULE PlaceIndex --------------------------------
(***************************************************************************)
(* The vector index of curated places (tp_retrieval): the ingestion script *)
(* that fills it and stamps it with the model that embedded it, and the    *)
(* worker processes that search it, each with a retriever it builds once   *)
(* and checks once against that stamp.  The two models emit vectors of one *)
(* dimension, so nothing but the stamp tells an index of one from an index *)
(* of the other.  A worker embeds its query with the model its settings    *)
(* choose (get_embedder); spelling is normalised away (city_key).          *)
(***************************************************************************)
EXTENDS Naturals, FiniteSets, FiniteSetsExt

CONSTANTS
    Places,         \* documents of the corpus: uuid5 of city and name tells them apart
    CityOf,         \* [Places -> city key]
    Models,         \* embedding models
    Searchers,      \* worker processes
    TopN,           \* rerank_top_k
    MaxIngests,     \* bound: runs of the script
    MaxEdits        \* bound: versions of the corpus file

ASSUME PlaceIndexAssumption ==
    /\ IsFiniteSet(Places) /\ "none" \notin Models
    /\ TopN \in Nat /\ MaxIngests \in Nat /\ MaxEdits \in Nat

VARIABLES
    corpus,         \* the documents of pois.jsonl
    collection,     \* whether Qdrant has the collection
    index,          \* per place: the model of its vector, or "none"
    stamp,          \* embedder_model of META_POINT_ID, or "none"
    script,         \* the ingestion: its next stage, its model, the documents it loaded
    searcher,       \* per worker: the model of its retriever, what its check said
    answer,         \* the last answer of retrieve
    ingests, edits, \* counters for the bounds
    torn,           \* ghost: vectors were written after the stamp
    current         \* ghost: what the last ingestion to write vectors had loaded

indexVars == <<corpus, collection, index, stamp, script, searcher, answer,
               ingests, edits, torn, current>>

Unbuilt == [model |-> "none", verdict |-> "none", sure |-> FALSE]
NoScript == [stage |-> "idle", model |-> "none", docs |-> {}]
NoAnswer == [by |-> "nobody", places |-> {}]

IndexInit ==
    /\ corpus = Places
    /\ collection = FALSE
    /\ index = [p \in Places |-> "none"]
    /\ stamp = "none"
    /\ script = NoScript
    /\ searcher = [w \in Searchers |-> Unbuilt]
    /\ answer = NoAnswer
    /\ ingests = 0 /\ edits = 0
    /\ torn = FALSE /\ current = {}

-----------------------------------------------------------------------------
(* The script.                                                               *)

EditCorpus ==
    /\ edits < MaxEdits
    /\ edits' = edits + 1
    /\ corpus' \in (SUBSET Places) \ {{}}
    /\ UNCHANGED <<collection, index, stamp, script, searcher, answer, ingests, torn, current>>

\* load_corpus reads the file as it is now.
StartIngest(m) ==
    /\ script.stage = "idle" /\ ingests < MaxIngests
    /\ ingests' = ingests + 1
    /\ script' = [stage |-> "collection", model |-> m, docs |-> corpus]
    /\ UNCHANGED <<corpus, collection, index, stamp, searcher, answer, edits, torn, current>>

\* Mutant: the index is stamped before it is written.
AfterStampFirst(stage) ==
    CASE stage = "collection" -> "embed" [] stage = "embed" -> "stamp"
      [] stage = "stamp" -> "upsert" [] OTHER -> "idle"

\* The order of ingest.
After(stage) ==
    CASE stage = "collection" -> "embed" [] stage = "embed" -> "upsert"
      [] stage = "upsert" -> "stamp" [] OTHER -> "idle"

Advance == script' = [script EXCEPT !.stage = After(@)]

EnsureCollection ==
    /\ script.stage = "collection"
    /\ collection' = TRUE
    /\ Advance
    /\ UNCHANGED <<corpus, index, stamp, searcher, answer, ingests, edits, torn, current>>

\* One call for the whole corpus, attempted four times; a failure of it is an Abort.
EmbedCorpus ==
    /\ script.stage = "embed"
    /\ Advance
    /\ UNCHANGED <<corpus, collection, index, stamp, searcher, answer, ingests, edits, torn, current>>

\* The request may be applied in part and fail.  Nothing is ever deleted.
Upsert ==
    /\ script.stage = "upsert"
    /\ \E written \in SUBSET script.docs :
        /\ index' = [p \in Places |-> IF p \in written THEN script.model ELSE index[p]]
        /\ IF written = script.docs THEN Advance ELSE script' = NoScript
    /\ torn' = TRUE /\ current' = script.docs
    \* A check made before is a check of another index.
    /\ searcher' = [w \in Searchers |-> [searcher[w] EXCEPT !.sure = FALSE]]
    /\ UNCHANGED <<corpus, collection, stamp, answer, ingests, edits>>

WriteMeta ==
    /\ script.stage = "stamp"
    /\ stamp' = script.model
    /\ torn' = FALSE
    /\ Advance
    /\ UNCHANGED <<corpus, collection, index, searcher, answer, ingests, edits, current>>

\* An exception, or the end of the process, at any point.
Abort ==
    /\ script.stage # "idle"
    /\ script' = NoScript
    /\ UNCHANGED <<corpus, collection, index, stamp, searcher, answer, ingests, edits, torn, current>>

-----------------------------------------------------------------------------
(* The workers.                                                              *)

\* get_retriever, on the first run of the process; the check is scheduled on its loop.
BuildRetriever(w, m) ==
    /\ searcher[w] = Unbuilt
    /\ searcher' = [searcher EXCEPT ![w] = [Unbuilt EXCEPT !.model = m, !.verdict = "scheduled"]]
    /\ UNCHANGED <<corpus, collection, index, stamp, script, answer, ingests, edits, torn, current>>

\* _check_embedder, once: a stamp that is absent or cannot be read is no mismatch.
CheckEmbedder(w) ==
    /\ searcher[w].verdict = "scheduled"
    /\ \E meta \in {stamp, "none"} :
        searcher' = [searcher EXCEPT
            ![w].verdict = IF meta = "none" THEN "skipped"
                           ELSE IF meta = searcher[w].model THEN "ok" ELSE "mismatch",
            ![w].sure = ~torn]
    /\ UNCHANGED <<corpus, collection, index, stamp, script, answer, ingests, edits, torn, current>>

\* search: the filter is on the city's key.
Search(city) == {p \in Places : index[p] # "none" /\ CityOf[p] = city}

\* retrieve: the places of the city, the best of them, whatever the check has said.
Retrieve(w, city) ==
    /\ searcher[w] # Unbuilt /\ collection
    /\ LET hits == Search(city)
       IN \E best \in kSubset(IF Cardinality(hits) < TopN THEN Cardinality(hits) ELSE TopN, hits) :
            answer' = [by |-> w, places |-> best]
    /\ UNCHANGED <<corpus, collection, index, stamp, script, searcher, ingests, edits, torn, current>>

\* A worker process is replaced: a new retriever, and a new check.
Replace(w) ==
    /\ searcher[w] # Unbuilt
    /\ searcher' = [searcher EXCEPT ![w] = Unbuilt]
    /\ UNCHANGED <<corpus, collection, index, stamp, script, answer, ingests, edits, torn, current>>

IndexNext ==
    \/ EditCorpus \/ EnsureCollection \/ EmbedCorpus \/ Upsert \/ WriteMeta \/ Abort
    \/ \E m \in Models : StartIngest(m)
    \/ \E w \in Searchers :
        \/ CheckEmbedder(w) \/ Replace(w)
        \/ \E m \in Models : BuildRetriever(w, m)
        \/ \E city \in {CityOf[p] : p \in Places} : Retrieve(w, city)

IndexSpec == IndexInit /\ [][IndexNext]_indexVars

-----------------------------------------------------------------------------
(* A worker whose check said ok ranks vectors of its own model only: however *)
(* the script was interrupted, repeated with another model or over another   *)
(* corpus before.  Two exceptions are the code's: a check between the upsert *)
(* and the stamp, or before a later upsert, is of another index; and a place *)
(* the corpus has dropped is never deleted, nor embedded again.              *)
RankedInOneSpace ==
    [][\A w \in Searchers :
        answer' # answer /\ answer'.by = w /\ searcher[w].verdict = "ok" /\ searcher[w].sure
            => \A p \in answer'.places \cap current : index[p] = searcher[w].model]_indexVars
=============================================================================
