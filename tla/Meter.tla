------------------------------- MODULE Meter -------------------------------
(***************************************************************************)
(* The count budget's meter (count-budget.ts): a phase is the test's       *)
(* action between two waits for the page to go still, and its counts are   *)
(* what the page did between the two.                                      *)
(*                                                                         *)
(* The page acts when it likes, and what it does is heard in the order it  *)
(* happened, a round's answer included.  The meter answers nothing it      *)
(* hears, so to hear late is to ask late, and each event is heard as it    *)
(* happens.  Bodies are read apart, and take as long as they take.         *)
(*                                                                         *)
(* Commits and mutations are counted alike and are one here, "marks".      *)
(***************************************************************************)
EXTENDS Integers, Sequences, FiniteSetsExt

CONSTANTS
  STILL,        \* the idle rounds in a row nothing may move in
  ROUNDS,       \* the rounds a page has to go still in
  Barren,       \* whether a navigation may end and leave the document
  MaxDocument,  \* bounds on what the page does
  MaxMarks,
  MaxRequests

ASSUME MeterAssumption == STILL \in Nat \ {0} /\ ROUNDS \in Nat /\ MaxDocument \in Nat

(* Document 0 is the about:blank a page starts on, with no instrument.     *)
Document == 0..MaxDocument
Blank == 0

VARIABLES
  document,     \* the page's current one
  marks,        \* per document, what it has done
  renderers,    \* the documents that hold a React renderer
  sent,         \* the requests, in order
  documents,    \* the meter: per document that reported, its state
  requests,     \*   how many requests it has counted
  bytes,        \*   the requests whose bodies it has counted
  pending,      \*   the requests it waits for, each with its epoch
  reading,      \*   the requests whose bodies it is reading
  epoch,        \*   how many navigations have started
  lastDocument, \*   the document of its last round
  refused,      \*   whether it owes a refusal
  pc,           \* the test
  start,        \*   the snapshot its phase began with, if any
  end,          \*   the one it ended with
  last,         \*   in a wait: the snapshot before, if any
  quiet,        \*   the rounds in a row nothing has moved in
  round         \*   the rounds so far

page == <<document, marks, renderers, sent>>
network == <<requests, bytes, pending, reading, epoch>>
waiting == <<start, end, last, quiet, round>>
vars == <<page, documents, network, lastDocument, refused, pc, waiting>>

-----------------------------------------------------------------------------
(* Mistakes: what a definition below is easily got wrong as.  No behaviour *)
(* uses them; each is refuted by the property that watches it.             *)

(* What a document that was replaced had done is forgotten. *)
ReportedAlone(s) == [d \in {s.document} |-> [marks |-> s.marks, renderer |-> s.renderer]]

(* The newest navigation's own requests are left behind with the others. *)
LeftBehindAll == {q \in DOMAIN pending : sent[q].kind # "worker" /\ pending[q] <= epoch}

(* A renderer counts only in a document one of the two snapshots is of. *)
HasReactAtEnds(from, to) == from.renderer \/ to.renderer

-----------------------------------------------------------------------------
(* What the meter hears. *)

Over == {"passed", "failed"}
Sent == DOMAIN sent
Drop(f, Q) == [q \in DOMAIN f \ Q |-> f[q]]

(* #reported: a document's counts only grow. *)
Reported(s) ==
  [d \in DOMAIN documents \cup {s.document} |->
     IF d # s.document THEN documents[d]
     ELSE IF d \notin DOMAIN documents THEN [marks |-> s.marks, renderer |-> s.renderer]
     ELSE [marks |-> Max({s.marks, documents[d].marks}),
           renderer |-> s.renderer \/ documents[d].renderer]]

(* page.on("request"), and the context's for a service worker's own; those *)
(* in ended have failed.                                                   *)
Requested(q, kind, ended) ==
  /\ epoch' = IF kind = "nav" THEN epoch + 1 ELSE epoch
  /\ requests' = IF kind = "worker" THEN requests ELSE requests + 1
  /\ pending' = [p \in (DOMAIN pending \ ended) \cup {q} |-> IF p = q THEN epoch' ELSE pending[p]]

(* #failed *)
Failed(Q) ==
  /\ pending' = Drop(pending, Q)
  /\ refused' = (refused \/ \E q \in Q : sent[q].kind = "foreign")

(* #finished: the body is read and counted, or was not to be read; an      *)
(* origin the test does not serve is noticed.                              *)
ReadBody ==
  /\ pc \notin Over
  /\ \E q \in reading, read \in BOOLEAN :
       /\ bytes' = IF read /\ sent[q].kind # "worker" THEN bytes \cup {q} ELSE bytes
       /\ refused' = (refused \/ ~read \/ sent[q].kind = "foreign")
       /\ reading' = reading \ {q}
       /\ pending' = Drop(pending, {q})
  /\ UNCHANGED <<page, documents, requests, epoch, lastDocument, pc, waiting>>

(* A round the page was busy for, or left in. *)
RoundLost ==
  /\ pc' = IF refused THEN "failed" ELSE "still"
  /\ quiet' = 0

-----------------------------------------------------------------------------
(* The page, and the browser around it. *)

Total(m) == MapThenSumSet(LAMBDA d : m[d], DOMAIN m)
Becomes(Q, is) == [q \in Sent |-> IF q \in Q THEN [sent[q] EXCEPT !.is = is] ELSE sent[q]]
State == [document |-> document, marks |-> marks[document], renderer |-> document \in renderers]

(* A navigation on its way, and what goes when its document comes. *)
Navigating == {q \in Sent : sent[q].kind = "nav" /\ sent[q].is = "open"}
OnTheirWay == {q \in Sent : sent[q].kind # "worker" /\ sent[q].is \in {"open", "body"}}

(* A task changes the document, or attaches a renderer, and its end        *)
(* reports.                                                                *)
Work ==
  /\ pc \notin Over
  /\ document # Blank /\ Total(marks) < MaxMarks
  /\ marks' = [marks EXCEPT ![document] = @ + 1]
  /\ renderers' \in {renderers, renderers \cup {document}}
  /\ UNCHANGED <<document, sent>>
  /\ documents' = Reported(State')
  /\ UNCHANGED <<network, lastDocument, refused, pc, waiting>>

(* A fetch the test answers, one it does not, or a service worker's own.   *)
Fetch ==
  /\ pc \notin Over
  /\ document # Blank /\ Len(sent) < MaxRequests
  /\ \E kind \in {"fetch", "foreign", "worker"} :
       /\ sent' = Append(sent, [kind |-> kind, by |-> document, is |-> "open"])
       /\ Requested(Len(sent'), kind, {})
  /\ UNCHANGED <<document, marks, renderers, documents, bytes, reading, lastDocument, refused, pc, waiting>>

(* The page, or the test, sends the page elsewhere, and no longer where it *)
(* was being sent.                                                         *)
Navigate ==
  /\ pc \notin Over
  /\ Len(sent) < MaxRequests /\ document < MaxDocument
  /\ sent' = Append(Becomes(Navigating, "gone"), [kind |-> "nav", by |-> document, is |-> "open"])
  /\ Requested(Len(sent'), "nav", Navigating)
  /\ UNCHANGED <<document, marks, renderers, documents, bytes, reading, lastDocument, refused, pc, waiting>>

(* The document a navigation brings.  What the old one had on its way is   *)
(* aborted, or goes on unheard of; a round asked of the old one ends.      *)
Commit ==
  /\ pc \notin Over
  /\ \E n \in Navigating :
       \E unheard \in SUBSET (OnTheirWay \ {n}) :
         LET gone == Becomes(OnTheirWay, "gone")
         IN  /\ sent' = [gone EXCEPT ![n] = [kind |-> "nav", by |-> document + 1, is |-> "body"]]
             /\ Failed(OnTheirWay \ (unheard \cup {n}))
  /\ document' = document + 1
  /\ IF pc = "round" THEN RoundLost ELSE UNCHANGED <<pc, quiet>>
  /\ UNCHANGED <<marks, renderers, documents, requests, bytes, reading, epoch, lastDocument,
                 start, end, last, round>>

Reply ==
  /\ pc \notin Over
  /\ \E q \in Sent :
       /\ sent[q].is = IF sent[q].kind = "nav" THEN "body" ELSE "open"
       /\ sent' = Becomes({q}, "answered")
       /\ reading' = reading \cup {q}
  /\ UNCHANGED <<document, marks, renderers, documents, requests, bytes, pending, epoch, lastDocument,
                 refused, pc, waiting>>

(* A request that ends with no answer, or a navigation with no document.   *)
Fail ==
  /\ pc \notin Over
  /\ \E q \in Sent :
       /\ sent[q].is = "open" /\ (sent[q].kind = "nav" => Barren)
       /\ sent' = Becomes({q}, "gone")
       /\ Failed({q})
  /\ UNCHANGED <<document, marks, renderers, documents, requests, bytes, reading, epoch, lastDocument,
                 pc, waiting>>

-----------------------------------------------------------------------------
(* still *)

Ask ==
  /\ pc = "still" /\ round < ROUNDS
  /\ pc' = "round" /\ round' = round + 1
  /\ UNCHANGED <<page, documents, network, lastDocument, refused, start, end, last, quiet>>

GiveUp ==
  /\ pc = "still" /\ round = ROUNDS
  /\ pc' = "failed"
  /\ UNCHANGED <<page, documents, network, lastDocument, refused, waiting>>

Busy ==
  /\ pc = "round"
  /\ RoundLost
  /\ UNCHANGED <<page, documents, network, lastDocument, refused, start, end, last, round>>

(* The round is answered: the meter has heard the document's state. *)
Documents == IF document = Blank THEN documents ELSE Reported(State)

Snapshot ==
  [document |-> document,
   renderer |-> document # Blank /\ Documents[document].renderer,
   reactDocuments |-> Cardinality({d \in DOMAIN Documents : Documents[d].renderer}),
   marks |-> Total([d \in Document |-> IF d \in DOMAIN Documents THEN Documents[d].marks ELSE 0]),
   requests |-> requests,
   bytes |-> bytes]

Moved(from, to) ==
  \/ from.marks # to.marks \/ from.requests # to.requests \/ from.bytes # to.bytes
  \/ from.document # to.document

(* #orphan: what an earlier navigation than the newest had sent. *)
LeftBehind == {q \in DOMAIN pending : sent[q].kind # "worker" /\ pending[q] < epoch}
StillPending == IF document = lastDocument THEN pending ELSE Drop(pending, LeftBehind)

QuietNow ==
  IF last # <<>> /\ ~Moved(Head(last), Snapshot) /\ DOMAIN StillPending = {} THEN quiet + 1 ELSE 0

Read ==
  /\ pc = "round" /\ ~refused
  /\ documents' = Documents
  /\ pending' = StillPending
  /\ lastDocument' = document
  /\ quiet' = QuietNow
  /\ \/ /\ quiet' < STILL
        /\ pc' = "still" /\ last' = <<Snapshot>>
        /\ UNCHANGED <<start, end>>
     \/ /\ quiet' = STILL /\ start = <<>>
        /\ pc' = "action" /\ start' = <<Snapshot>> /\ last' = <<>>
        /\ UNCHANGED end
     \/ /\ quiet' = STILL /\ start # <<>>
        /\ pc' = "measured" /\ end' = <<Snapshot>> /\ last' = <<>>
        /\ UNCHANGED start
  /\ UNCHANGED <<page, requests, bytes, reading, epoch, refused, round>>

Refuse ==
  /\ pc = "round" /\ refused
  /\ documents' = Documents
  /\ pc' = "failed"
  /\ UNCHANGED <<page, network, lastDocument, refused, waiting>>

(* The action is over, whatever it set off. *)
Act ==
  /\ pc = "action"
  /\ pc' = "still" /\ quiet' = 0 /\ round' = 0
  /\ UNCHANGED <<page, documents, network, lastDocument, refused, start, end, last>>

Conclude ==
  /\ pc = "measured"
  /\ pc' = IF refused THEN "failed" ELSE "passed"
  /\ UNCHANGED <<page, documents, network, lastDocument, refused, waiting>>

(* phaseCounts: whether reactCommits is there. *)
HasReact(from, to) == from.renderer \/ to.renderer \/ to.reactDocuments > from.reactDocuments

-----------------------------------------------------------------------------

Init ==
  /\ document = Blank /\ marks = [d \in Document |-> 0] /\ renderers = {}
  /\ sent = <<>>
  /\ documents = <<>> /\ requests = 0 /\ bytes = {} /\ pending = <<>> /\ reading = {}
  /\ epoch = 0 /\ lastDocument = Blank /\ refused = FALSE
  /\ pc = "still" /\ start = <<>> /\ end = <<>> /\ last = <<>> /\ quiet = 0 /\ round = 0

Finished == pc \in Over /\ UNCHANGED vars

Next ==
  \/ Work \/ Fetch \/ Navigate \/ Commit \/ Reply \/ Fail
  \/ ReadBody
  \/ Ask \/ GiveUp \/ Busy \/ Read \/ Refuse \/ Act \/ Conclude
  \/ Finished

Spec == Init /\ [][Next]_vars

-----------------------------------------------------------------------------
(* What a phase's counts are worth. *)

TypeOK ==
  /\ document \in Document /\ renderers \subseteq Document \ {Blank}
  /\ DOMAIN documents \subseteq Document \ {Blank}
  /\ bytes \cup reading \cup DOMAIN pending \subseteq Sent
  /\ lastDocument \in 0..document /\ epoch \in 0..Len(sent) /\ requests \in 0..Len(sent)
  /\ pc \in {"still", "round", "action", "measured"} \cup Over
  /\ quiet \in 0..STILL /\ round \in 0..ROUNDS

(* A wait ends, and its snapshot is what a phase is measured by. *)
WaitEnds == pc = "round" /\ pc' \in {"action", "measured"}
Taken == Head(IF pc' = "action" THEN start' ELSE end')

(* "A phase that navigates is charged with what the page it left did, as   *)
(* well as with the page it arrived on": a snapshot counts all there has   *)
(* been, in every document.                                                *)
CountsAreWhole ==
  [][WaitEnds =>
       /\ Taken.marks = Total(marks)
       /\ Taken.requests = Cardinality({q \in Sent : sent[q].kind # "worker"})]_vars

(* "No request in flight": none of the document's own, the one that        *)
(* brought it, or a service worker's; what was answered is counted, and by *)
(* an origin the test answers for.                                         *)
Matters(q) == sent[q].kind = "worker" \/ sent[q].by = document
StillIsAnswered ==
  [][WaitEnds =>
       \A q \in Sent : Matters(q) =>
         /\ sent[q].is \in {"answered", "gone"}
         /\ sent[q].is = "answered" =>
              sent[q].kind # "foreign" /\ (sent[q].kind # "worker" => q \in Taken.bytes)]_vars

(* reactCommits is "present exactly when the phase ran in a document       *)
(* holding a React renderer: the one current when it began, the one        *)
(* current when it ended, or one that attached a renderer while it ran".   *)
(* Those are the documents from the one it began in to the one it ended    *)
(* in, and what they hold by then.                                         *)
ReactWhereItRan ==
  [][pc = "round" /\ pc' = "measured" =>
       (HasReact(Head(start), Head(end'))
          <=> renderers \cap (Head(start).document .. document) # {})]_vars
=============================================================================
