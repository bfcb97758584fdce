--------------------------- MODULE RunStream_proofs ---------------------------
(***************************************************************************)
(* The page is told the truth, for any cities and any number of faults.    *)
(* The argument: a row only moves forward, so what was true of it when an  *)
(* event was sent is true when the event is read; the worker writes the    *)
(* row before it announces; and the page fetches after it was told.        *)
(***************************************************************************)
EXTENDS RunStream, SequenceTheorems, TLAPS

\* The run ended this way, as far as the row still tells.
Over(outcome) == status \in {outcome, "absent"}

\* What an event says of the row.
Told(e) ==
    /\ e.type \in {"done", "succeeded"} => Over("succeeded")
    /\ e.type = "failed" => Over("failed")
    /\ e.type = "status" => /\ e.of \in Open \cup Terminal
                            /\ e.of = "succeeded" => Over("succeeded")

Honest == {e \in Events : Told(e)}

WorkerInv ==
    /\ worker \in {"waiting", "running", "gone"} \cup Terminal
    /\ worker = "running" => Over("running")
    /\ worker \in Terminal => Over(worker)
    /\ worker = "gone" => status \notin Open

WireInv == wire \in Seq(Honest)

PageInv ==
    /\ page \in Page
    /\ page.source \in {"connecting", "open"} => page.fetching = "no" /\ page.record = "none"
    /\ page.source = "closed" => status \notin Open /\ page.record \notin Open
    /\ "succeeded" \in {page.status, page.fetching} => Over("succeeded")

\* Inductive: each part of ToldTheTruth rests on an earlier stage of the way the news
\* of an outcome takes, from the worker over the wire to the page.
TruthInv ==
    /\ status \in Status
    /\ steps \in [Cities -> Nat]
    /\ WorkerInv /\ WireInv /\ PageInv

-----------------------------------------------------------------------------
\* What an open run may become, and a closed one no more.
RowForward ==
    /\ status' \in Status
    /\ status \notin Open => status' \notin Open
    /\ \A outcome \in Terminal : Over(outcome) => Over(outcome)'

\* What is on the wire stays true as the row moves forward.
LEMMA HonestOnWire ==
  ASSUME WireInv, RowForward, wire' = wire
  PROVE  WireInv'
<1>1. Honest \subseteq Honest'
  BY DEF Honest, Told, RowForward, Terminal
<1>2. wire \in Seq(Honest')
  BY <1>1, SeqMonotonic DEF WireInv
<1> QED BY <1>2 DEF WireInv

\* So does what the page was told.
LEMMA TruthOnPage ==
  ASSUME PageInv, RowForward, page' = page
  PROVE  PageInv'
BY DEF PageInv, RowForward, Terminal

\* While the row stays as it is, so does what is honest to say of it.
LEMMA SameRow ==
  ASSUME status' = status
  PROVE  Honest' = Honest /\ (status \in Status => RowForward)
BY DEF Honest, Told, Over, RowForward

\* An honest event may be sent.
LEMMA Sent ==
  ASSUME WireInv, NEW e \in Honest, status' = status, wire' = Append(wire, e)
  PROVE  WireInv'
<1>1. Append(wire, e) \in Seq(Honest)
  BY AppendProperties DEF WireInv
<1> QED BY <1>1, SameRow DEF WireInv

\* Publishing reaches the wire or nobody.
LEMMA Published ==
  ASSUME status \in Status, WireInv, NEW e \in Honest, status' = status, Publish(e)
  PROVE  WireInv'
<1>1. CASE wire' = Append(wire, e)
  BY <1>1, Sent
<1>2. CASE wire' = wire
  BY <1>2, SameRow, HonestOnWire
<1> QED BY <1>1, <1>2 DEF Publish

\* A connection that is cut carries nothing.
LEMMA Cleared ==
  ASSUME wire' = <<>>
  PROVE  WireInv'
BY EmptySeq DEF WireInv

-----------------------------------------------------------------------------
(* The steps of the worker and of those who close or erase a row. *)

\* The steps that write the row.
LEMMA RowSteps ==
  ASSUME TruthInv,
         \/ StartRun \/ CloseUnannounced \/ Erase
         \/ \E o \in Terminal : Save(o)
  PROVE  TruthInv'
<1>1. RowForward /\ WorkerInv'
  <2>1. CASE StartRun
    BY <2>1 DEF StartRun, TruthInv, WorkerInv, RowForward, Over, Status, Open, Terminal
  <2>2. CASE CloseUnannounced
    BY <2>2 DEF CloseUnannounced, TruthInv, WorkerInv, RowForward, Over, Status, Open, Terminal
  <2>3. CASE Erase
    BY <2>3 DEF Erase, TruthInv, WorkerInv, RowForward, Over, Status, Open, Terminal
  <2>4. ASSUME NEW o \in Terminal, Save(o) PROVE RowForward /\ WorkerInv'
    BY <2>4 DEF Save, TruthInv, WorkerInv, RowForward, Over, Status, Open, Terminal
  <2> QED BY <2>1, <2>2, <2>3, <2>4
<1>2. wire' = wire /\ page' = page /\ steps' = steps
  BY DEF StartRun, CloseUnannounced, Erase, Save
<1> QED BY <1>1, <1>2, HonestOnWire, TruthOnPage DEF TruthInv, RowForward

\* Every step of a city completes a node.
LEMMA NodeNamed ==
  ASSUME NEW n \in Nat \ {0}
  PROVE  NodeAt(n) \in Nodes
<1>1. DOMAIN AgentNodes = 1..4
  BY DEF AgentNodes
<1>2. CASE n <= 4
  BY <1>1, <1>2 DEF NodeAt, Nodes
<1>3. CASE ~(n <= 4)
  BY <1>1, <1>3 DEF NodeAt, Nodes
<1> QED BY <1>2, <1>3

\* The steps of the worker that publish.
LEMMA WorkerSteps ==
  ASSUME TruthInv,
         \/ Interrupt \/ Announce
         \/ \E c \in Cities : CompleteNode(c) \/ CityFails(c)
  PROVE  TruthInv'
<1>1. status' = status /\ page' = page
  BY DEF Interrupt, Announce, CompleteNode, CityFails
<1>2. WorkerInv'
  BY <1>1 DEF Interrupt, Announce, CompleteNode, CityFails, TruthInv, WorkerInv, Over, Open, Terminal
<1>3. WireInv'
  <2>1. CASE wire' = wire
    BY <2>1, <1>1, SameRow, HonestOnWire DEF TruthInv
  <2>2. CASE Announce
    <3> DEFINE last == Event(IF worker = "succeeded" THEN "done" ELSE "failed", "none")
    <3>1. last \in Honest
      BY <2>2 DEF Announce, Event, Events, Honest, Told, TruthInv, WorkerInv, Terminal
    <3> QED BY <2>2, <3>1, <1>1, Published DEF Announce, TruthInv
  <2>3. ASSUME NEW c \in Cities, CompleteNode(c) PROVE WireInv'
    <3>1. \A n \in Nodes : Event("node", n) \in Honest
      BY DEF Event, Events, Honest, Told
    <3>2. PICK n : Publish(Event("node", n)) /\ n = NodeAt(steps[c] + 1)
      BY <2>3 DEF CompleteNode
    <3>3. n \in Nodes
      BY <3>2, NodeNamed DEF TruthInv
    <3> QED BY <3>1, <3>2, <3>3, <1>1, Published DEF TruthInv
  <2> QED BY <2>1, <2>2, <2>3 DEF Interrupt, CityFails
<1>4. steps' \in [Cities -> Nat]
  <2>1. CASE Interrupt
    <3>1. MaxSteps \in Nat
      BY StreamAssumption DEF MaxSteps
    <3> QED BY <2>1, <3>1, SMT DEF Interrupt
  <2>2. CASE Announce
    BY <2>2 DEF Announce, TruthInv
  <2>3. ASSUME NEW c \in Cities, CompleteNode(c) \/ CityFails(c)
        PROVE  steps' \in [Cities -> Nat]
    BY <2>3 DEF CompleteNode, CityFails, TruthInv
  <2> QED BY <2>1, <2>2, <2>3
<1> QED BY <1>1, <1>2, <1>3, <1>4, SameRow, TruthOnPage DEF TruthInv

-----------------------------------------------------------------------------
(* The steps of the API: nothing of the row, and of the page only that it is *)
(* connected.                                                                *)

\* The steps of stream_run.
LEMMA ApiSteps ==
  ASSUME TruthInv, Api
  PROVE  TruthInv'
<1>1. status' = status /\ worker' = worker /\ steps' = steps
  BY DEF Api, Connect, ReadRun, Subscribe, ResponseBreaks
<1>2. RowForward
  BY <1>1, SameRow DEF TruthInv
<1>3. WorkerInv'
  BY <1>1 DEF WorkerInv, TruthInv, Over
<1>4. PageInv'
  <2>1. CASE Connect
    BY <2>1, <1>1 DEF Connect, TruthInv, PageInv, Page, Over
  <2>2. CASE page' = page
    BY <2>2, <1>2, TruthOnPage DEF TruthInv
  <2> QED BY <2>1, <2>2 DEF Api, ReadRun, Subscribe, ResponseBreaks
<1>5. WireInv'
  <2>1. CASE wire' = wire
    BY <2>1, <1>2, HonestOnWire DEF TruthInv
  <2> DEFINE error == Event("error", "none")
  <2>2. error \in Honest
    BY DEF Event, Events, Honest, Told
  <2>3. CASE Connect
    <3>1. CASE wire' = <<error>>
      <4>1. <<error>> \in Seq(Honest)
        BY <2>2
      <4> QED BY <4>1, <3>1, <1>1, SameRow DEF WireInv
    <3> QED BY <2>1, <2>3, <3>1 DEF Connect
  <2>4. CASE ReadRun
    <3> DEFINE now == Event("status", status)
               last == Event(status, "none")
    <3>1. status \in Open \cup Terminal => now \in Honest
      BY DEF Event, Events, Honest, Told, Over, Status, Open, Terminal
    <3>2. status \in Terminal => last \in Honest
      BY DEF Event, Events, Honest, Told, Over, Status, Open, Terminal
    <3>3. CASE status = "absent"
      BY <2>2, <2>4, <3>3, <1>1, Sent DEF ReadRun, TruthInv, Open, Terminal
    <3>4. CASE status \in Terminal
      <4>1. <<now, last>> \in Seq(Honest)
        BY <3>1, <3>2, <3>4
      <4>2. wire' = wire \o <<now, last>>
        BY <2>4, <3>4 DEF ReadRun, Open, Terminal
      <4>3. wire' \in Seq(Honest)
        BY <4>1, <4>2, ConcatProperties DEF TruthInv, WireInv
      <4> QED BY <4>3, <1>1, SameRow DEF WireInv
    <3>5. CASE status \in Open
      BY <2>4, <3>1, <3>5, <1>1, Sent DEF ReadRun, TruthInv, Open, Terminal
    <3> QED BY <3>3, <3>4, <3>5 DEF TruthInv, Status
  <2> QED BY <2>1, <2>3, <2>4 DEF Api, Subscribe, ResponseBreaks
<1> QED BY <1>1, <1>2, <1>3, <1>4, <1>5 DEF TruthInv

-----------------------------------------------------------------------------
(* The steps of the browser. *)

\* The EventSource that reconnects keeps what the page knows.
LEMMA Reconnects ==
  ASSUME TruthInv, Reconnect, page.source = "open"
  PROVE  WireInv' /\ PageInv'
<1>1. WireInv'
  BY Cleared DEF Reconnect
<1>2. PageInv'
  BY DEF Reconnect, TruthInv, PageInv, Page, Over
<1> QED BY <1>1, <1>2

\* A page that is told the outcome the row has knows the truth.
LEMMA ToldAnOutcome ==
  ASSUME TruthInv, NEW outcome \in Terminal, Over(outcome), status' = status,
         page.source = "open", page' = Finalized(outcome)
  PROVE  PageInv'
BY DEF Finalized, TruthInv, PageInv, Page, Over, Status, Open, Terminal

\* An event that arrives.
LEMMA Receives ==
  ASSUME TruthInv, Receive
  PROVE  WireInv' /\ PageInv'
<1> DEFINE e == Head(wire)
<1>1. status' = status
  BY DEF Receive
<1>2. e \in Honest /\ Tail(wire) \in Seq(Honest)
  BY HeadTailProperties DEF Receive, TruthInv, WireInv
<1>3. WireInv'
  <2>1. CASE wire' = Tail(wire)
    BY <1>1, <1>2, <2>1, SameRow DEF WireInv
  <2> QED BY <2>1, Cleared, <1>2 DEF Receive, Honest, Events
<1>4. PageInv'
  <2>1. CASE e.type = "status"
    BY <1>1, <1>2, <2>1 DEF Receive, Honest, Told, TruthInv, PageInv, Page, Over, Open, Terminal
  <2>2. CASE e.type = "node"
    <3>1. Advance(page.nodes, e.of) \in [Nodes -> {"pending", "running", "done"}]
      BY DEF Advance, TruthInv, PageInv, Page
    <3> QED BY <1>1, <2>2, <3>1 DEF Receive, TruthInv, PageInv, Page, Over, Open, Terminal
  <2>3. CASE e.type = "error"
    BY <1>1, <2>3, SameRow, TruthOnPage DEF Receive, TruthInv
  <2>4. CASE e.type \in {"done", "succeeded"}
    BY <1>1, <1>2, <2>4, ToldAnOutcome DEF Receive, Honest, Told, Terminal
  <2>5. CASE e.type = "failed"
    BY <1>1, <1>2, <2>5, ToldAnOutcome DEF Receive, Honest, Told, Terminal
  <2> QED BY <1>2, <2>1, <2>2, <2>3, <2>4, <2>5 DEF Honest, Events
<1> QED BY <1>3, <1>4

\* A record that arrives.
LEMMA Fetches ==
  ASSUME TruthInv, FetchAnswers
  PROVE  PageInv'
<1>1. status' = status
  BY DEF FetchAnswers
<1>2. page.source \in {"closed", "refused"}
  BY DEF FetchAnswers, TruthInv, PageInv, Page, Terminal
<1>3. [n \in Nodes |-> "done"] \in [Nodes -> {"pending", "running", "done"}]
  OBVIOUS
<1> QED BY <1>1, <1>2, <1>3, ZenonT(60) DEF FetchAnswers, TruthInv, PageInv, Page, Over, Status, Open, Terminal

\* The steps of the browser.
LEMMA BrowserSteps ==
  ASSUME TruthInv, Browser
  PROVE  TruthInv'
<1>1. status' = status /\ worker' = worker /\ steps' = steps
  BY DEF Browser, EndOfStream, ConnectionLost, IdleCut, Reconnect, Refused, Receive, FetchAnswers
<1>2. WorkerInv'
  BY <1>1 DEF WorkerInv, TruthInv, Over
<1>3. WireInv' /\ PageInv'
  <2>1. CASE EndOfStream \/ ConnectionLost \/ IdleCut
    BY <2>1, Reconnects DEF EndOfStream, ConnectionLost, IdleCut
  <2>2. CASE Refused
    <3>1. WireInv'
      BY <2>2, <1>1, SameRow, HonestOnWire DEF Refused, TruthInv
    <3>2. PageInv'
      BY <2>2, <1>1 DEF Refused, TruthInv, PageInv, Page, Over, Terminal
    <3> QED BY <3>1, <3>2
  <2>3. CASE Receive
    BY <2>3, Receives
  <2>4. CASE FetchAnswers
    <3>1. WireInv'
      BY <2>4, <1>1, SameRow, HonestOnWire DEF FetchAnswers, TruthInv
    <3> QED BY <3>1, <2>4, Fetches
  <2> QED BY <2>1, <2>2, <2>3, <2>4 DEF Browser
<1> QED BY <1>1, <1>2, <1>3 DEF TruthInv

-----------------------------------------------------------------------------
\* Nothing has been told at first.
LEMMA TruthInit == Init => TruthInv
<1> SUFFICES ASSUME Init PROVE TruthInv
  OBVIOUS
<1>1. WireInv
  BY EmptySeq DEF Init, WireInv
<1>2. PageInv
  <2>1. page.nodes \in [Nodes -> {"pending", "running", "done"}]
    BY DEF Init
  <2> QED BY <2>1 DEF Init, PageInv, Page, Open, Terminal
<1> QED BY <1>1, <1>2 DEF Init, TruthInv, WorkerInv, Status, Open, Terminal

\* Every step keeps the invariant.
LEMMA TruthNext == TruthInv /\ [Next]_vars => TruthInv'
<1> SUFFICES ASSUME TruthInv, [Next]_vars PROVE TruthInv'
  OBVIOUS
<1>1. CASE Worker
  BY <1>1, RowSteps, WorkerSteps DEF Worker
<1>2. CASE Api
  BY <1>2, ApiSteps
<1>3. CASE Browser
  BY <1>3, BrowserSteps
<1>4. CASE UNCHANGED vars
  <2>1. status' = status /\ worker' = worker /\ steps' = steps /\ wire' = wire /\ page' = page
    BY <1>4 DEF vars
  <2> QED BY <2>1, SameRow, HonestOnWire, TruthOnPage DEF TruthInv, WorkerInv, Over
<1> QED BY <1>1, <1>2, <1>3, <1>4 DEF Next

\* What the page was told is true, however the run, the API, the bus, the connection
\* and the fetch interleave and fail (ToldTheTruth: tasks.py:151-155, main.py:312-319,
\* use-run-stream.ts:47-93).
THEOREM TruthIsTold == Spec => []ToldTheTruth
<1>1. TruthInv => ToldTheTruth
  BY DEF TruthInv, PageInv, ToldTheTruth, Over
<1> QED BY <1>1, TruthInit, TruthNext, PTL DEF Spec

-----------------------------------------------------------------------------
(* The timeline of the page. *)

Forward(n) ==
    /\ page.nodes[n] = "done" => page'.nodes[n] = "done"
    /\ page.nodes[n] = "running" => page'.nodes[n] # "pending"

\* A page that keeps its phases moves none back.
LEMMA SamePhases ==
  ASSUME page'.nodes = page.nodes, NEW n \in Nodes
  PROVE  Forward(n)
BY DEF Forward

\* An event raises the phase it names and no other.
LEMMA ReceivedPhases ==
  ASSUME TruthInv, Receive, NEW n \in Nodes
  PROVE  Forward(n)
<1>1. PICK e : e = Head(wire)
  OBVIOUS
<1>2. page \in Page
  BY DEF TruthInv, PageInv
<1>3. CASE e.type = "node"
  <2>1. page' = [page EXCEPT !.status = "running", !.nodes = Advance(page.nodes, e.of)]
    BY <1>1, <1>3 DEF Receive
  <2>2. page'.nodes = Advance(page.nodes, e.of)
    BY <1>2, <2>1 DEF Page
  <2> QED BY <2>2 DEF Advance, Forward
<1>4. CASE e.type # "node"
  <2>1. page'.nodes = page.nodes
    <3>1. wire \in Seq(Honest) /\ wire # <<>>
      BY DEF TruthInv, WireInv, Receive
    <3>2. e \in Events
      BY <1>1, <3>1, HeadTailProperties DEF Honest
    <3>3. \/ \E s : page' = [page EXCEPT !.status = s]
          \/ page' = page
          \/ \E s : page' = [page EXCEPT !.source = "closed", !.fetching = s]
      BY <1>1, <1>4, <3>2 DEF Receive, Finalized, Events
    <3> QED BY <1>2, <3>3 DEF Page
  <2> QED BY <2>1, SamePhases
<1> QED BY <1>3, <1>4

\* No step moves a phase back.
LEMMA PhaseSteps ==
  ASSUME TruthInv, [Next]_vars, NEW n \in Nodes
  PROVE  Forward(n)
<1>1. page \in Page
  BY DEF TruthInv, PageInv
<1>2. CASE page' = page
  BY <1>2, SamePhases
<1>3. CASE Connect \/ EndOfStream \/ ConnectionLost \/ IdleCut \/ Refused
  <2>1. \/ \E s : page' = [page EXCEPT !.source = s]
        \/ \E s, f : page' = [page EXCEPT !.source = s, !.fetching = f]
    BY <1>3 DEF Connect, EndOfStream, ConnectionLost, IdleCut, Reconnect, Refused
  <2>2. page'.nodes = page.nodes
    BY <1>1, <2>1 DEF Page
  <2> QED BY <2>2, SamePhases
<1>4. CASE Receive
  BY <1>4, ReceivedPhases
<1>5. CASE FetchAnswers
  <2>1. page'.nodes = page.nodes \/ page'.nodes = [m \in Nodes |-> "done"]
    BY <1>1, <1>5 DEF FetchAnswers, Page
  <2> QED BY <2>1 DEF Forward
<1> QED BY <1>2, <1>3, <1>4, <1>5
        DEF Next, vars, Worker, Api, Browser, StartRun, Interrupt, Announce, CloseUnannounced, Erase,
            Save, CompleteNode, CityFails, ReadRun, Subscribe, ResponseBreaks

\* No phase of the page's timeline goes back, in whatever order the events of interleaved
\* cities, redrafts and repeated attempts reach it (PhasesForward: use-run-stream.ts:21-28).
THEOREM PhasesOnlyAdvance == Spec => PhasesForward
<1>1. TruthInv /\ [Next]_vars =>
        [\A n \in Nodes : /\ page.nodes[n] = "done" => page'.nodes[n] = "done"
                          /\ page.nodes[n] = "running" => page'.nodes[n] # "pending"]_vars
  BY PhaseSteps DEF Forward
<1> QED BY <1>1, TruthInit, TruthNext, PTL DEF Spec, PhasesForward
=============================================================================
