----------------------------- MODULE MeterProofs -----------------------------
(***************************************************************************)
(* What the count budget's meter counts, proved: of the page and all its   *)
(* documents, of a wait that ends, and of the renderers a phase ran in.     *)
(***************************************************************************)
EXTENDS Meter, FiniteSetTheorems, TLAPS

USE MeterAssumption DEF MeterAssumption

-----------------------------------------------------------------------------
(* The invariant. *)

Request == [kind : {"nav", "fetch", "foreign", "worker"}, by : Document, is : {"open", "body", "answered", "gone"}]
Heard == [marks : Nat, renderer : BOOLEAN]
Counted == {q \in Sent : sent[q].kind # "worker"}

Typed ==
  /\ document \in Document /\ marks \in [Document -> Nat] /\ renderers \subseteq 1..document
  /\ sent \in Seq(Request)
  /\ documents \in [DOMAIN documents -> Heard] /\ DOMAIN documents \subseteq Document \ {Blank}
  /\ bytes \subseteq Sent /\ reading \subseteq Sent
  /\ pending \in [DOMAIN pending -> Nat] /\ DOMAIN pending \subseteq Sent
  /\ lastDocument \in 0..document /\ refused \in BOOLEAN
  /\ epoch \in 0..Len(sent) /\ requests \in 0..Len(sent)
  /\ pc \in {"still", "round", "action", "measured"} \cup Over
  /\ quiet \in 0..STILL /\ round \in 0..ROUNDS
  /\ Navigating # {} => document < MaxDocument

(* The meter has heard all that each document has done, by the end of the   *)
(* task that did it; and it counts what it hears.                          *)
HearsAll ==
  \A d \in Document :
    IF d \in DOMAIN documents
    THEN documents[d].marks = marks[d] /\ (documents[d].renderer <=> d \in renderers)
    ELSE marks[d] = 0 /\ d \notin renderers
CountsAll == IsFiniteSet(Counted) /\ requests = Cardinality(Counted)

(* What has not been settled is waited for: a service worker's own always,  *)
(* the document's own under the newest epoch, but for a navigation on its   *)
(* way, which is itself waited for.                                        *)
Unsettled(q) == sent[q].is \in {"open", "body"} \/ q \in reading
WaitsForAll ==
  /\ \A n \in Navigating : n \in DOMAIN pending /\ pending[n] = epoch
  /\ \A q \in Sent : Unsettled(q) /\ sent[q].kind = "worker" => q \in DOMAIN pending
  /\ \A q \in Sent : Unsettled(q) /\ sent[q].kind # "worker" /\ sent[q].by = document =>
       Navigating # {} \/ (q \in DOMAIN pending /\ pending[q] = epoch)
SettlesAll ==
  /\ \A q \in reading : sent[q].is = "answered"
  /\ \A q \in Sent : sent[q].is = "answered" =>
       \/ q \in reading \/ refused
       \/ sent[q].kind # "foreign" /\ (sent[q].kind # "worker" => q \in bytes)
  /\ \A q \in Sent : sent[q].by <= document

(* The documents that held a renderer when the phase began are as many as   *)
(* its first snapshot says, and who has attached one since was the page's.  *)
Began(from) ==
  \E held \in SUBSET renderers :
    /\ from.document \in 0..document /\ held \subseteq 0..from.document
    /\ Cardinality(held) = from.reactDocuments
    /\ from.renderer <=> from.document \in held
    /\ renderers \ held \subseteq from.document..document
BeganWhereItSays == start # <<>> => Began(Head(start))

Inv == Typed /\ HearsAll /\ CountsAll /\ BeganWhereItSays

-----------------------------------------------------------------------------
(* What is heard, and what becomes of requests. *)

LEMMA LargerOf ==
  ASSUME NEW a \in Nat, NEW b \in Nat, b <= a
  PROVE  Max({a, b}) = a
  <1>1. \A x \in {a, b} : (\A y \in {a, b} : x >= y) => x = a
    OBVIOUS
  <1>2. a \in {a, b} /\ \A y \in {a, b} : a >= y
    OBVIOUS
  <1> QED
    BY <1>1, <1>2 DEF Max

(* A report of a document replaces what was heard of it, and of no other. *)
LEMMA Hears ==
  ASSUME Typed, NEW d \in Document \ {Blank}, NEW m \in Nat, NEW r \in BOOLEAN,
         d \in DOMAIN documents => documents[d].marks <= m /\ (documents[d].renderer => r),
         NEW s, s = [document |-> d, marks |-> m, renderer |-> r]
  PROVE  /\ DOMAIN Reported(s) = DOMAIN documents \cup {d}
         /\ Reported(s) \in [DOMAIN documents \cup {d} -> Heard]
         /\ Reported(s)[d].marks = m /\ (Reported(s)[d].renderer <=> r)
         /\ \A e \in DOMAIN documents : e # d => Reported(s)[e] = documents[e]
  <1>1. s.document = d /\ s.marks = m /\ s.renderer = r
    OBVIOUS
  <1>2. DOMAIN Reported(s) = DOMAIN documents \cup {d}
    BY <1>1 DEF Reported
  <1>3. \A e \in DOMAIN documents : e # d => Reported(s)[e] = documents[e]
    BY <1>1 DEF Reported
  <1>4. CASE d \notin DOMAIN documents
    <2>1. Reported(s)[d] = [marks |-> m, renderer |-> r]
      BY <1>1, <1>4 DEF Reported
    <2>2. Reported(s)[d] \in Heard
      BY <2>1 DEF Heard
    <2>3. QED
      BY <1>2, <1>3, <2>1, <2>2 DEF Typed, Reported
  <1>5. CASE d \in DOMAIN documents
    <2>1. documents[d].marks \in Nat /\ documents[d].renderer \in BOOLEAN
      BY <1>5 DEF Typed, Heard
    <2>2. Max({s.marks, documents[d].marks}) = m
      BY <1>1, <1>5, <2>1, LargerOf
    <2>3. Reported(s)[d] = [marks |-> m, renderer |-> r \/ documents[d].renderer]
      BY <1>1, <1>5, <2>2 DEF Reported
    <2>4. Reported(s)[d].marks = m /\ (Reported(s)[d].renderer <=> r)
      BY <1>5, <2>1, <2>3
    <2>5. Reported(s)[d] \in Heard
      BY <2>1, <2>3 DEF Heard
    <2>6. QED
      BY <1>2, <1>3, <2>4, <2>5 DEF Typed, Reported
  <1> QED
    BY <1>4, <1>5

(* What requests become changes nothing else about them. *)
LEMMA BecomeWhat ==
  ASSUME sent \in Seq(Request), NEW Q, NEW is \in {"open", "body", "answered", "gone"}
  PROVE  /\ Becomes(Q, is) \in Seq(Request) /\ Len(Becomes(Q, is)) = Len(sent)
         /\ DOMAIN Becomes(Q, is) = Sent
         /\ \A q \in Sent : /\ Becomes(Q, is)[q].kind = sent[q].kind
                            /\ Becomes(Q, is)[q].by = sent[q].by
                            /\ Becomes(Q, is)[q].is = IF q \in Q THEN is ELSE sent[q].is
  <1>1. Sent = 1..Len(sent) /\ Len(sent) \in Nat /\ \A q \in Sent : sent[q] \in Request
    BY DEF Sent
  <1>2. DOMAIN Becomes(Q, is) = Sent
    BY DEF Becomes
  <1>3. ASSUME NEW q \in Sent
        PROVE  /\ Becomes(Q, is)[q] \in Request
               /\ Becomes(Q, is)[q].kind = sent[q].kind
               /\ Becomes(Q, is)[q].by = sent[q].by
               /\ Becomes(Q, is)[q].is = IF q \in Q THEN is ELSE sent[q].is
    <2>1. sent[q] \in Request
      BY <1>1
    <2>2. Becomes(Q, is)[q] = IF q \in Q THEN [sent[q] EXCEPT !.is = is] ELSE sent[q]
      BY DEF Becomes
    <2>3. QED
      BY <2>1, <2>2 DEF Request
  <1>4. Becomes(Q, is) \in [1..Len(sent) -> Request]
    BY <1>1, <1>2, <1>3 DEF Becomes
  <1>5. Becomes(Q, is) \in Seq(Request) /\ Len(Becomes(Q, is)) = Len(sent)
    BY <1>1, <1>4
  <1> QED
    BY <1>2, <1>3, <1>5

(* Another request is counted, if it is to be. *)
LEMMA SentAnother ==
  ASSUME CountsAll, NEW before \in Seq(Request), NEW r \in Request, sent' = Append(before, r),
         sent \in Seq(Request), Len(before) = Len(sent), \A q \in Sent : before[q].kind = sent[q].kind,
         requests \in Nat, requests' = IF r.kind = "worker" THEN requests ELSE requests + 1
  PROVE  /\ sent' \in Seq(Request) /\ Len(sent') = Len(sent) + 1
         /\ Sent' = Sent \cup {Len(sent')} /\ Len(sent') \notin Sent
         /\ \A q \in Sent : sent'[q] = before[q]
         /\ sent'[Len(sent')] = r
         /\ CountsAll'
  <1>1. /\ sent' \in Seq(Request) /\ Len(sent') = Len(sent) + 1 /\ Len(sent) \in Nat
        /\ Sent = 1..Len(sent) /\ Sent' = 1..(Len(sent) + 1)
        /\ sent'[Len(sent) + 1] = r
        /\ \A q \in Sent : sent'[q] = before[q]
    BY DEF Sent
  <1>2. Sent' = Sent \cup {Len(sent')} /\ Len(sent') \notin Sent
    BY <1>1
  <1>3. Counted' = IF r.kind = "worker" THEN Counted ELSE Counted \cup {Len(sent')}
    BY <1>1, <1>2 DEF Counted
  <1>4. Len(sent') \notin Counted
    BY <1>2 DEF Counted
  <1>5. CountsAll'
    <2>1. CASE r.kind = "worker"
      BY <1>3, <2>1 DEF CountsAll
    <2>2. CASE r.kind # "worker"
      <3>1. /\ IsFiniteSet(Counted \cup {Len(sent')})
            /\ Cardinality(Counted \cup {Len(sent')}) = Cardinality(Counted) + 1
        BY <1>4, FS_AddElement DEF CountsAll
      <3>2. QED
        BY <1>3, <2>2, <3>1 DEF CountsAll
    <2>3. QED
      BY <2>1, <2>2
  <1> QED
    BY <1>1, <1>2, <1>5

LEMMA SameKinds ==
  ASSUME CountsAll, requests' = requests, Sent' = Sent, \A q \in Sent : sent'[q].kind = sent[q].kind
  PROVE  CountsAll'
  <1>1. Counted' = Counted
    BY DEF Counted
  <1> QED
    BY <1>1 DEF CountsAll

(* A round's snapshot is of all there has been. *)
LEMMA SnapshotIsWhole ==
  ASSUME Typed, HearsAll
  PROVE  /\ Snapshot.marks = Total(marks)
         /\ Snapshot.document = document /\ Snapshot.requests = requests /\ Snapshot.bytes = bytes
         /\ Snapshot.renderer <=> document \in renderers
         /\ Snapshot.reactDocuments = Cardinality(renderers)
         /\ Documents \in [DOMAIN Documents -> Heard] /\ DOMAIN Documents \subseteq Document \ {Blank}
         /\ \A d \in Document :
              IF d \in DOMAIN Documents
              THEN Documents[d].marks = marks[d] /\ (Documents[d].renderer <=> d \in renderers)
              ELSE marks[d] = 0 /\ d \notin renderers
  <1>1. /\ Documents \in [DOMAIN Documents -> Heard] /\ DOMAIN Documents \subseteq Document \ {Blank}
        /\ \A d \in Document :
              IF d \in DOMAIN Documents
              THEN Documents[d].marks = marks[d] /\ (Documents[d].renderer <=> d \in renderers)
              ELSE marks[d] = 0 /\ d \notin renderers
        /\ document # Blank => document \in DOMAIN Documents
    <2>1. CASE document = Blank
      BY <2>1 DEF Documents, Typed, HearsAll
    <2>2. CASE document # Blank
      <3>1. document \in Document \ {Blank} /\ marks[document] \in Nat
            /\ (document \in renderers) \in BOOLEAN
        BY <2>2 DEF Typed
      <3>2. document \in DOMAIN documents =>
              documents[document].marks <= marks[document]
                /\ (documents[document].renderer => document \in renderers)
        BY <3>1 DEF HearsAll
      <3>3. /\ DOMAIN Reported(State) = DOMAIN documents \cup {document}
            /\ Reported(State) \in [DOMAIN documents \cup {document} -> Heard]
            /\ Reported(State)[document].marks = marks[document]
            /\ Reported(State)[document].renderer <=> document \in renderers
            /\ \A e \in DOMAIN documents : e # document => Reported(State)[e] = documents[e]
        <4>1. PICK d, m, r, s : d = document /\ m = marks[document] /\ r = (document \in renderers)
              /\ s = State
          OBVIOUS
        <4>2. s = [document |-> d, marks |-> m, renderer |-> r]
          BY <4>1 DEF State
        <4>3. d \in Document \ {Blank} /\ m \in Nat /\ r \in BOOLEAN
          BY <3>1, <4>1
        <4>4. d \in DOMAIN documents => documents[d].marks <= m /\ (documents[d].renderer => r)
          BY <3>2, <4>1
        <4>5. /\ DOMAIN Reported(s) = DOMAIN documents \cup {d}
              /\ Reported(s) \in [DOMAIN documents \cup {d} -> Heard]
              /\ Reported(s)[d].marks = m /\ (Reported(s)[d].renderer <=> r)
              /\ \A e \in DOMAIN documents : e # d => Reported(s)[e] = documents[e]
          BY <4>2, <4>3, <4>4, Hears
        <4>6. QED
          BY <4>1, <4>5
      <3>4. Documents = Reported(State)
        BY <2>2 DEF Documents
      <3>5. DOMAIN Documents \subseteq Document \ {Blank}
        BY <3>1, <3>3, <3>4 DEF Typed
      <3>6. QED
        BY <3>3, <3>4, <3>5 DEF HearsAll
    <2>3. QED
      BY <2>1, <2>2
  <1>2. [d \in Document |-> IF d \in DOMAIN Documents THEN Documents[d].marks ELSE 0] = marks
    BY <1>1 DEF Typed
  <1>3. {d \in DOMAIN Documents : Documents[d].renderer} = renderers
    BY <1>1 DEF Typed, Document
  <1>4. /\ Snapshot.document = document /\ Snapshot.requests = requests /\ Snapshot.bytes = bytes
        /\ Snapshot.marks = Total([d \in Document |-> IF d \in DOMAIN Documents THEN Documents[d].marks ELSE 0])
        /\ Snapshot.reactDocuments = Cardinality({d \in DOMAIN Documents : Documents[d].renderer})
        /\ Snapshot.renderer = (document # Blank /\ Documents[document].renderer)
    BY DEF Snapshot
  <1>5. Snapshot.renderer <=> document \in renderers
    <2>1. Blank \notin renderers /\ document \in Document
      BY DEF Typed, Blank
    <2>2. QED
      BY <1>1, <1>4, <2>1
  <1>6. Snapshot.marks = Total(marks)
    BY <1>2, <1>4
  <1>7. Snapshot.reactDocuments = Cardinality(renderers)
    BY <1>3, <1>4
  <1> QED
    BY <1>1, <1>4, <1>5, <1>6, <1>7

-----------------------------------------------------------------------------
(* The page's steps keep the invariant. *)

LEMMA BeganStays ==
  ASSUME Typed, BeganWhereItSays, start' = start, document' \in {document, document + 1},
         renderers \subseteq renderers', renderers' \subseteq renderers \cup {document}
  PROVE  BeganWhereItSays'
  <1>1. SUFFICES ASSUME start # <<>> PROVE Began(Head(start))'
    BY DEF BeganWhereItSays
  <1>2. PICK from : from = Head(start) /\ from = Head(start')
    OBVIOUS
  <1>3. Began(from)
    BY <1>1, <1>2 DEF BeganWhereItSays
  <1>4. PICK held \in SUBSET renderers :
          /\ from.document \in 0..document /\ held \subseteq 0..from.document
          /\ Cardinality(held) = from.reactDocuments
          /\ from.renderer <=> from.document \in held
          /\ renderers \ held \subseteq from.document..document
    BY <1>3 DEF Began
  <1>5. document \in Nat /\ document' \in Nat /\ document <= document'
    BY DEF Typed, Document
  <1>6. /\ held \in SUBSET renderers' /\ from.document \in 0..document'
        /\ renderers' \ held \subseteq from.document..document'
    BY <1>4, <1>5
  <1>7. \E h \in SUBSET renderers' :
          /\ from.document \in 0..document' /\ h \subseteq 0..from.document
          /\ Cardinality(h) = from.reactDocuments
          /\ from.renderer <=> from.document \in h
          /\ renderers' \ h \subseteq from.document..document'
    BY <1>4, <1>6
  <1> QED
    BY <1>2, <1>7 DEF Began

LEMMA WorkKeeps ==
  ASSUME Inv, Work
  PROVE  Inv'
  <1>1. Typed /\ HearsAll /\ CountsAll /\ BeganWhereItSays
    BY DEF Inv
  <1>2. /\ document # Blank /\ marks' = [marks EXCEPT ![document] = @ + 1]
        /\ renderers \subseteq renderers' /\ renderers' \subseteq renderers \cup {document}
        /\ document' = document /\ sent' = sent /\ documents' = Reported(State')
        /\ UNCHANGED <<requests, bytes, pending, reading, epoch, lastDocument, refused, pc>>
        /\ UNCHANGED <<start, end, last, quiet, round>>
    BY DEF Work, network, waiting
  <1>3. /\ document \in Document \ {Blank} /\ marks[document] \in Nat
        /\ marks' \in [Document -> Nat] /\ marks'[document] = marks[document] + 1
        /\ \A d \in Document : d # document => marks'[d] = marks[d]
        /\ \A d \in Document : d # document => (d \in renderers' <=> d \in renderers)
    BY <1>1, <1>2 DEF Typed
  <1>4. PICK m, r, s : m = marks'[document'] /\ r = (document' \in renderers') /\ s = State'
    OBVIOUS
  <1>5. s = [document |-> document, marks |-> m, renderer |-> r]
    BY <1>2, <1>4 DEF State
  <1>6. m \in Nat /\ m = marks[document] + 1 /\ r \in BOOLEAN /\ (r <=> document \in renderers')
    <2>1. m \in Nat /\ m = marks[document] + 1
      BY <1>2, <1>3, <1>4
    <2>2. (document' \in renderers') \in BOOLEAN
      OBVIOUS
    <2>3. r \in BOOLEAN
      BY <1>4, <2>2
    <2>4. r <=> document \in renderers'
      BY <1>2, <1>4, <2>3
    <2>5. QED
      BY <2>1, <2>3, <2>4
  <1>7. document \in DOMAIN documents => documents[document].marks <= m
        /\ (documents[document].renderer => r)
    BY <1>1, <1>2, <1>3, <1>6 DEF HearsAll
  <1>8. documents' = Reported(s)
    BY <1>2, <1>4
  <1>9. /\ DOMAIN Reported(s) = DOMAIN documents \cup {document}
        /\ Reported(s) \in [DOMAIN documents \cup {document} -> Heard]
        /\ Reported(s)[document].marks = m /\ (Reported(s)[document].renderer <=> r)
        /\ \A e \in DOMAIN documents : e # document => Reported(s)[e] = documents[e]
    BY <1>1, <1>3, <1>5, <1>6, <1>7, Hears
  <1>10. HearsAll'
    BY <1>1, <1>3, <1>6, <1>8, <1>9 DEF HearsAll
  <1>11. Typed'
    <2>1. documents' \in [DOMAIN documents' -> Heard] /\ DOMAIN documents' \subseteq Document \ {Blank}
      BY <1>1, <1>3, <1>8, <1>9 DEF Typed
    <2>2. renderers' \subseteq 1..document'
      BY <1>1, <1>2, <1>3 DEF Typed, Document, Blank
    <2>3. Navigating' = Navigating
      BY <1>2 DEF Navigating, Sent
    <2>4. QED
      BY <1>1, <1>2, <1>3, <2>1, <2>2, <2>3 DEF Typed, Sent
  <1>12. CountsAll'
    BY <1>1, <1>2, SameKinds DEF Sent
  <1>13. BeganWhereItSays'
    BY <1>1, <1>2, BeganStays
  <1> QED
    BY <1>10, <1>11, <1>12, <1>13 DEF Inv

LEMMA FetchKeeps ==
  ASSUME Inv, Fetch
  PROVE  Inv'
  <1>1. Typed /\ HearsAll /\ CountsAll /\ BeganWhereItSays
    BY DEF Inv
  <1>2. PICK kind \in {"fetch", "foreign", "worker"} :
          /\ sent' = Append(sent, [kind |-> kind, by |-> document, is |-> "open"])
          /\ Requested(Len(sent'), kind, {})
    BY DEF Fetch
  <1>3. UNCHANGED <<document, marks, renderers, documents, bytes, reading, lastDocument, refused, pc, waiting>>
    BY DEF Fetch
  <1>4. PICK r \in Request : r = [kind |-> kind, by |-> document, is |-> "open"]
    BY <1>1 DEF Typed, Request
  <1>5. /\ sent' = Append(sent, r) /\ sent \in Seq(Request) /\ requests \in Nat
        /\ requests' = IF r.kind = "worker" THEN requests ELSE requests + 1
        /\ epoch' = epoch
        /\ pending' = [p \in DOMAIN pending \cup {Len(sent')} |-> IF p = Len(sent') THEN epoch' ELSE pending[p]]
    BY <1>1, <1>2, <1>4 DEF Typed, Requested
  <1>6. /\ sent' \in Seq(Request) /\ Len(sent') = Len(sent) + 1
        /\ Sent' = Sent \cup {Len(sent')} /\ Len(sent') \notin Sent
        /\ \A q \in Sent : sent'[q] = sent[q]
        /\ sent'[Len(sent')] = r
        /\ CountsAll'
    BY <1>1, <1>5, SentAnother
  <1>7. Navigating' = Navigating
    BY <1>4, <1>6 DEF Navigating
  <1>8. Typed'
    <2>1. pending' \in [DOMAIN pending' -> Nat] /\ DOMAIN pending' \subseteq Sent'
      BY <1>1, <1>5, <1>6 DEF Typed
    <2>2. Len(sent) \in Nat /\ epoch' \in 0..Len(sent') /\ requests' \in 0..Len(sent')
      BY <1>1, <1>5, <1>6 DEF Typed
    <2>3. bytes' \subseteq Sent' /\ reading' \subseteq Sent'
      BY <1>1, <1>3, <1>6 DEF Typed
    <2>4. QED
      BY <1>1, <1>3, <1>6, <1>7, <2>1, <2>2, <2>3 DEF Typed, waiting
  <1>9. HearsAll'
    BY <1>1, <1>3 DEF HearsAll
  <1>10. BeganWhereItSays'
    BY <1>1, <1>3, BeganStays DEF waiting
  <1> QED
    BY <1>6, <1>8, <1>9, <1>10 DEF Inv

LEMMA NavigateKeeps ==
  ASSUME Inv, Navigate
  PROVE  Inv'
  <1>1. Typed /\ HearsAll /\ CountsAll /\ BeganWhereItSays
    BY DEF Inv
  <1>2. /\ sent' = Append(Becomes(Navigating, "gone"), [kind |-> "nav", by |-> document, is |-> "open"])
        /\ Requested(Len(sent'), "nav", Navigating) /\ document < MaxDocument
        /\ UNCHANGED <<document, marks, renderers, documents, bytes, reading, lastDocument, refused, pc, waiting>>
    BY DEF Navigate
  <1>3. PICK r \in Request : r = [kind |-> "nav", by |-> document, is |-> "open"]
    BY <1>1 DEF Typed, Request
  <1>4. PICK before : before = Becomes(Navigating, "gone")
    OBVIOUS
  <1>5. /\ sent' = Append(before, r) /\ sent \in Seq(Request) /\ requests \in Nat
        /\ requests' = IF r.kind = "worker" THEN requests ELSE requests + 1
        /\ epoch' = epoch + 1
        /\ pending' = [p \in (DOMAIN pending \ Navigating) \cup {Len(sent')} |->
                         IF p = Len(sent') THEN epoch' ELSE pending[p]]
    BY <1>1, <1>2, <1>3, <1>4 DEF Typed, Requested
  <1>6. before \in Seq(Request) /\ Len(before) = Len(sent)
        /\ \A q \in Sent : before[q].kind = sent[q].kind
    BY <1>4, <1>5, BecomeWhat
  <1>7. /\ sent' \in Seq(Request) /\ Len(sent') = Len(sent) + 1
        /\ Sent' = Sent \cup {Len(sent')}
        /\ CountsAll'
    BY <1>1, <1>5, <1>6, SentAnother
  <1>8. Typed'
    <2>1. pending' \in [DOMAIN pending' -> Nat] /\ DOMAIN pending' \subseteq Sent'
      BY <1>1, <1>5, <1>7 DEF Typed
    <2>2. Len(sent) \in Nat /\ epoch' \in 0..Len(sent') /\ requests' \in 0..Len(sent')
      BY <1>1, <1>3, <1>5, <1>7 DEF Typed
    <2>3. bytes' \subseteq Sent' /\ reading' \subseteq Sent'
      BY <1>1, <1>2, <1>7 DEF Typed
    <2>4. QED
      BY <1>1, <1>2, <1>7, <2>1, <2>2, <2>3 DEF Typed, waiting
  <1>9. HearsAll'
    BY <1>1, <1>2 DEF HearsAll
  <1>10. BeganWhereItSays'
    BY <1>1, <1>2, BeganStays DEF waiting
  <1> QED
    BY <1>7, <1>8, <1>9, <1>10 DEF Inv

LEMMA CommitKeeps ==
  ASSUME Inv, Commit
  PROVE  Inv'
  <1>1. Typed /\ HearsAll /\ CountsAll /\ BeganWhereItSays
    BY DEF Inv
  <1>2. PICK n \in Navigating : \E unheard \in SUBSET (OnTheirWay \ {n}) :
          /\ sent' = [Becomes(OnTheirWay, "gone") EXCEPT ![n] = [kind |-> "nav", by |-> document + 1, is |-> "body"]]
          /\ Failed(OnTheirWay \ (unheard \cup {n}))
    BY DEF Commit
  <1>3. /\ document' = document + 1
        /\ UNCHANGED <<marks, renderers, documents, requests, bytes, reading, epoch, lastDocument, start, end, last, round>>
        /\ (pc' \in {pc, "failed", "still"}) /\ quiet' \in {quiet, 0}
    BY DEF Commit, RoundLost
  <1>4. PICK Q : Failed(Q)
    BY <1>2
  <1>5. pending' = Drop(pending, Q) /\ refused' \in BOOLEAN
    BY <1>1, <1>4 DEF Failed, Typed
  <1>6. document \in Nat /\ document + 1 \in Document /\ document < MaxDocument /\ n \in Sent
    BY <1>1, <1>2 DEF Typed, Document, Navigating
  <1>7. PICK before : before = Becomes(OnTheirWay, "gone")
    OBVIOUS
  <1>8. /\ before \in Seq(Request) /\ Len(before) = Len(sent) /\ DOMAIN before = Sent
        /\ \A q \in Sent : /\ before[q].kind = sent[q].kind
                           /\ before[q].is = IF q \in OnTheirWay THEN "gone" ELSE sent[q].is
    BY <1>1, <1>7, BecomeWhat DEF Typed
  <1>9. PICK r \in Request : r = [kind |-> "nav", by |-> document + 1, is |-> "body"]
    BY <1>6 DEF Request
  <1>10. sent' = [before EXCEPT ![n] = r]
    BY <1>2, <1>7, <1>9
  <1>11. /\ sent' \in Seq(Request) /\ Len(sent') = Len(sent) /\ Sent' = Sent
         /\ \A q \in Sent : sent'[q] = IF q = n THEN r ELSE before[q]
    <2>1. Len(sent) \in Nat /\ Sent = 1..Len(sent) /\ Sent' = DOMAIN sent'
      BY <1>1 DEF Typed, Sent
    <2>2. before \in [1..Len(sent) -> Request]
      BY <1>8, <2>1
    <2>3. sent' \in [1..Len(sent) -> Request]
          /\ \A q \in Sent : sent'[q] = IF q = n THEN r ELSE before[q]
      BY <1>10, <2>1, <2>2
    <2>4. sent' \in Seq(Request) /\ Len(sent') = Len(sent)
      BY <2>1, <2>3
    <2>5. QED
      BY <2>1, <2>3, <2>4
  <1>12. \A q \in Sent : sent'[q].kind = sent[q].kind
    BY <1>2, <1>8, <1>9, <1>11 DEF Navigating
  <1>13. Navigating' = {}
    BY <1>8, <1>9, <1>11 DEF Navigating, OnTheirWay
  <1>14. Typed'
    <2>1. pending' \in [DOMAIN pending' -> Nat] /\ DOMAIN pending' \subseteq Sent'
      BY <1>1, <1>5, <1>11 DEF Typed, Drop
    <2>2. renderers' \subseteq 1..document' /\ lastDocument' \in 0..document' /\ document' \in Document
      BY <1>1, <1>3, <1>6 DEF Typed
    <2>3. epoch' \in 0..Len(sent') /\ requests' \in 0..Len(sent') /\ bytes' \subseteq Sent'
          /\ reading' \subseteq Sent'
      BY <1>1, <1>3, <1>11 DEF Typed
    <2>4. pc' \in {"still", "round", "action", "measured"} \cup Over /\ quiet' \in 0..STILL
      BY <1>1, <1>3 DEF Typed, Over
    <2>5. QED
      BY <1>1, <1>3, <1>5, <1>11, <1>13, <2>1, <2>2, <2>3, <2>4 DEF Typed
  <1>15. HearsAll'
    BY <1>1, <1>3 DEF HearsAll
  <1>16. CountsAll'
    BY <1>1, <1>3, <1>11, <1>12, SameKinds
  <1>17. BeganWhereItSays'
    BY <1>1, <1>3, BeganStays
  <1> QED
    BY <1>14, <1>15, <1>16, <1>17 DEF Inv

LEMMA BecomeGone ==
  ASSUME Typed, CountsAll, NEW Q, NEW is \in {"body", "answered", "gone"}, sent' = Becomes(Q, is),
    requests' = requests
  PROVE  /\ sent' \in Seq(Request) /\ Len(sent') = Len(sent) /\ Sent' = Sent
         /\ Navigating' \subseteq Navigating
         /\ CountsAll'
  <1>1. /\ sent' \in Seq(Request) /\ Len(sent') = Len(sent) /\ Sent' = Sent
        /\ \A q \in Sent : /\ sent'[q].kind = sent[q].kind
                           /\ sent'[q].is = IF q \in Q THEN is ELSE sent[q].is
    BY BecomeWhat DEF Typed, Sent
  <1>2. Navigating' \subseteq Navigating
    BY <1>1 DEF Navigating
  <1>3. CountsAll'
    BY <1>1, SameKinds
  <1> QED
    BY <1>1, <1>2, <1>3

LEMMA ReplyKeeps ==
  ASSUME Inv, Reply
  PROVE  Inv'
  <1>1. Typed /\ HearsAll /\ CountsAll /\ BeganWhereItSays
    BY DEF Inv
  <1>2. PICK q \in Sent : sent' = Becomes({q}, "answered") /\ reading' = reading \cup {q}
    BY DEF Reply
  <1>3. UNCHANGED <<document, marks, renderers, documents, requests, bytes, pending, epoch, lastDocument,
                    refused, pc, waiting>>
    BY DEF Reply
  <1>4. sent' \in Seq(Request) /\ Len(sent') = Len(sent) /\ Sent' = Sent
        /\ Navigating' \subseteq Navigating /\ CountsAll'
    BY <1>1, <1>2, <1>3, BecomeGone
  <1>5. Typed'
    BY <1>1, <1>2, <1>3, <1>4 DEF Typed, waiting
  <1>6. HearsAll'
    BY <1>1, <1>3 DEF HearsAll
  <1>7. BeganWhereItSays'
    BY <1>1, <1>3, BeganStays DEF waiting
  <1> QED
    BY <1>4, <1>5, <1>6, <1>7 DEF Inv

LEMMA FailKeeps ==
  ASSUME Inv, Fail
  PROVE  Inv'
  <1>1. Typed /\ HearsAll /\ CountsAll /\ BeganWhereItSays
    BY DEF Inv
  <1>2. PICK q \in Sent : sent' = Becomes({q}, "gone") /\ Failed({q})
    BY DEF Fail
  <1>3. UNCHANGED <<document, marks, renderers, documents, requests, bytes, reading, epoch, lastDocument, pc, waiting>>
    BY DEF Fail
  <1>4. sent' \in Seq(Request) /\ Len(sent') = Len(sent) /\ Sent' = Sent
        /\ Navigating' \subseteq Navigating /\ CountsAll'
    BY <1>1, <1>2, <1>3, BecomeGone
  <1>5. pending' \in [DOMAIN pending' -> Nat] /\ DOMAIN pending' \subseteq Sent /\ refused' \in BOOLEAN
    BY <1>1, <1>2 DEF Typed, Failed, Drop
  <1>6. Typed'
    BY <1>1, <1>3, <1>4, <1>5 DEF Typed, waiting
  <1>7. HearsAll'
    BY <1>1, <1>3 DEF HearsAll
  <1>8. BeganWhereItSays'
    BY <1>1, <1>3, BeganStays DEF waiting
  <1> QED
    BY <1>4, <1>6, <1>7, <1>8 DEF Inv

LEMMA ReadBodyKeeps ==
  ASSUME Inv, ReadBody
  PROVE  Inv'
  <1>1. Typed /\ HearsAll /\ CountsAll /\ BeganWhereItSays
    BY DEF Inv
  <1>2. UNCHANGED <<page, documents, requests, epoch, lastDocument, pc, waiting>>
    BY DEF ReadBody
  <1>3. PICK q \in reading, read \in BOOLEAN :
          /\ bytes' \in {bytes, bytes \cup {q}}
          /\ refused' = (refused \/ ~read \/ sent[q].kind = "foreign")
          /\ reading' = reading \ {q} /\ pending' = Drop(pending, {q})
    BY DEF ReadBody
  <1>4. Sent' = Sent /\ Navigating' = Navigating
    BY <1>2 DEF page, Sent, Navigating
  <1>5. pending' \in [DOMAIN pending' -> Nat] /\ DOMAIN pending' \subseteq Sent
    BY <1>1, <1>3 DEF Typed, Drop
  <1>6. bytes' \subseteq Sent /\ reading' \subseteq Sent /\ refused' \in BOOLEAN
    BY <1>1, <1>3 DEF Typed
  <1>7. Typed'
    BY <1>1, <1>2, <1>4, <1>5, <1>6 DEF Typed, page, waiting
  <1>8. HearsAll'
    BY <1>1, <1>2 DEF HearsAll, page
  <1>9. CountsAll'
    BY <1>1, <1>2, <1>4, SameKinds DEF page
  <1>10. BeganWhereItSays'
    BY <1>1, <1>2, BeganStays DEF page, waiting
  <1> QED
    BY <1>7, <1>8, <1>9, <1>10 DEF Inv

-----------------------------------------------------------------------------
(* The test's steps keep it too. *)

LEMMA TestKeeps ==
  ASSUME Inv, Ask \/ GiveUp \/ Busy \/ Act \/ Conclude \/ Finished
  PROVE  Inv'
  <1>1. Typed /\ HearsAll /\ CountsAll /\ BeganWhereItSays
    BY DEF Inv
  <1>2. /\ UNCHANGED <<page, documents, network, lastDocument, refused, start>>
        /\ pc' \in {"still", "round", "action", "measured"} \cup Over
        /\ quiet' \in 0..STILL /\ round' \in 0..ROUNDS
    <2>1. CASE Ask
      BY <1>1, <2>1 DEF Ask, Typed
    <2>2. CASE GiveUp
      BY <1>1, <2>2 DEF GiveUp, Typed, waiting, Over
    <2>3. CASE Busy
      BY <1>1, <2>3 DEF Busy, Typed, RoundLost, Over
    <2>4. CASE Act
      BY <1>1, <2>4 DEF Act, Typed
    <2>5. CASE Conclude
      BY <1>1, <2>5 DEF Conclude, Typed, waiting, Over
    <2>6. CASE Finished
      BY <1>1, <2>6 DEF Finished, vars, waiting, Typed
    <2>7. QED
      BY <2>1, <2>2, <2>3, <2>4, <2>5, <2>6
  <1>3. Sent' = Sent /\ Navigating' = Navigating
    BY <1>2 DEF page, Sent, Navigating
  <1>4. Typed'
    BY <1>1, <1>2, <1>3 DEF Typed, page, network
  <1>5. HearsAll'
    BY <1>1, <1>2 DEF HearsAll, page
  <1>6. CountsAll'
    BY <1>1, <1>2, <1>3, SameKinds DEF page, network
  <1>7. BeganWhereItSays'
    BY <1>1, <1>2, BeganStays DEF page
  <1> QED
    BY <1>4, <1>5, <1>6, <1>7 DEF Inv

(* A round read: what is heard stands, and a phase begins with what there is. *)
LEMMA ReadKeeps ==
  ASSUME Inv, Read \/ Refuse
  PROVE  Inv'
  <1>1. Typed /\ HearsAll /\ CountsAll /\ BeganWhereItSays
    BY DEF Inv
  <1>2. /\ UNCHANGED <<page, requests, bytes, reading, epoch, refused, round>>
        /\ documents' = Documents
        /\ pending' \in {pending, Drop(pending, LeftBehind)}
        /\ lastDocument' \in {lastDocument, document}
        /\ pc' \in {"still", "action", "measured", "failed"}
        /\ quiet' \in {quiet, quiet + 1, 0} /\ (quiet' = quiet \/ quiet' <= STILL)
        /\ start' \in {start, <<Snapshot>>}
    <2>1. CASE Read
      BY <1>1, <2>1 DEF Read, StillPending, QuietNow, Typed
    <2>2. CASE Refuse
      BY <2>2 DEF Refuse, network, waiting
    <2>3. QED
      BY <2>1, <2>2
  <1>3. /\ Snapshot.document = document
        /\ Snapshot.renderer <=> document \in renderers
        /\ Snapshot.reactDocuments = Cardinality(renderers)
        /\ Documents \in [DOMAIN Documents -> Heard] /\ DOMAIN Documents \subseteq Document \ {Blank}
        /\ \A d \in Document :
              IF d \in DOMAIN Documents
              THEN Documents[d].marks = marks[d] /\ (Documents[d].renderer <=> d \in renderers)
              ELSE marks[d] = 0 /\ d \notin renderers
    BY <1>1, SnapshotIsWhole
  <1>4. Sent' = Sent /\ Navigating' = Navigating
    BY <1>2 DEF page, Sent, Navigating
  <1>5. Typed'
    <2>1. pending' \in [DOMAIN pending' -> Nat] /\ DOMAIN pending' \subseteq Sent
      BY <1>1, <1>2 DEF Typed, Drop
    <2>2. quiet' \in 0..STILL
      BY <1>1, <1>2 DEF Typed
    <2>3. lastDocument' \in 0..document
      BY <1>1, <1>2 DEF Typed, Document
    <2>4. QED
      BY <1>1, <1>2, <1>3, <1>4, <2>1, <2>2, <2>3 DEF Typed, page, Over
  <1>6. HearsAll'
    BY <1>2, <1>3 DEF HearsAll, page
  <1>7. CountsAll'
    BY <1>1, <1>2, <1>4, SameKinds DEF page
  <1>8. CASE start' = start
    BY <1>1, <1>2, <1>5, <1>6, <1>7, <1>8, BeganStays DEF page, Inv
  <1>9. CASE start' = <<Snapshot>>
    <2>1. PICK from : from = Snapshot /\ from = Head(start')
      BY <1>9
    <2>2. document \in Nat /\ renderers \subseteq 1..document
      BY <1>1 DEF Typed, Document
    <2>3. /\ from.document = document /\ from.reactDocuments = Cardinality(renderers)
          /\ (from.renderer <=> document \in renderers)
      BY <1>3, <2>1
    <2>4. /\ renderers' = renderers /\ document' = document
      BY <1>2 DEF page
    <2>5. \E held \in SUBSET renderers' :
            /\ from.document \in 0..document' /\ held \subseteq 0..from.document
            /\ Cardinality(held) = from.reactDocuments
            /\ from.renderer <=> from.document \in held
            /\ renderers' \ held \subseteq from.document..document'
      <3>1. renderers \in SUBSET renderers' /\ from.document \in 0..document'
            /\ renderers \subseteq 0..from.document
        BY <2>2, <2>3, <2>4
      <3>2. renderers' \ renderers \subseteq from.document..document'
        BY <2>4
      <3>3. QED
        BY <2>3, <3>1, <3>2
    <2>6. BeganWhereItSays'
      BY <2>1, <2>5 DEF BeganWhereItSays, Began
    <2>7. QED
      BY <1>5, <1>6, <1>7, <2>6 DEF Inv
  <1> QED
    BY <1>2, <1>8, <1>9

LEMMA InvHolds == Spec => []Inv
  <1>1. Init => Inv
    <2>1. SUFFICES ASSUME Init PROVE Inv
      OBVIOUS
    <2>2. Typed
      <3>1. sent \in Seq(Request) /\ Sent = {} /\ Len(sent) = 0
        BY <2>1 DEF Init, Sent
      <3>2. Navigating = {}
        BY <3>1 DEF Navigating
      <3>3. QED
        BY <2>1, <3>1, <3>2 DEF Init, Typed, Document, Blank
    <2>3. HearsAll
      BY <2>1 DEF Init, HearsAll
    <2>4. CountsAll
      <3>1. Counted = {}
        BY <2>1 DEF Init, Counted, Sent
      <3>2. QED
        BY <2>1, <3>1, FS_EmptySet DEF Init, CountsAll
    <2>5. BeganWhereItSays
      BY <2>1 DEF Init, BeganWhereItSays
    <2>6. QED
      BY <2>2, <2>3, <2>4, <2>5 DEF Inv
  <1>2. ASSUME Inv, [Next]_vars PROVE Inv'
    <2>1. CASE UNCHANGED vars
      BY <1>2, <2>1
      DEF vars, page, network, waiting, Inv, Typed, HearsAll, CountsAll, BeganWhereItSays, Began,
         Navigating, Counted, Sent
    <2>2. CASE Next
      BY <1>2, <2>2, WorkKeeps, FetchKeeps, NavigateKeeps, CommitKeeps, ReplyKeeps, FailKeeps,
         ReadBodyKeeps,
         TestKeeps, ReadKeeps DEF Next
    <2>3. QED
      BY <1>2, <2>1, <2>2
  <1> QED
    BY <1>1, <1>2, PTL DEF Spec

-----------------------------------------------------------------------------
(* What the meter takes at the end of a wait. *)

(* Nothing else than a round read while nothing moved ends a wait.         *)
LEMMA EndsByReading ==
  ASSUME Inv, [Next]_vars, WaitEnds
  PROVE  /\ Read /\ ~refused /\ DOMAIN StillPending = {}
         /\ Taken.document = document /\ Taken.marks = Total(marks)
         /\ Taken.requests = requests /\ Taken.bytes = bytes
         /\ Taken.renderer <=> document \in renderers
         /\ Taken.reactDocuments = Cardinality(renderers)
         /\ pc' = "measured" => start # <<>> /\ Taken = Head(end')
  <1>1. pc = "round" /\ pc' \in {"action", "measured"}
    BY DEF WaitEnds
  <1>2. Read
    <2>1. ~(UNCHANGED vars) /\ Next
      BY <1>1 DEF vars
    <2>2. ~Work /\ ~Fetch /\ ~Navigate /\ ~Reply /\ ~Fail /\ ~ReadBody
      BY <1>1 DEF Work, Fetch, Navigate, Reply, Fail, ReadBody
    <2>3. ~Commit /\ ~Busy
      BY <1>1 DEF Commit, Busy, RoundLost
    <2>4. ~Ask /\ ~GiveUp /\ ~Refuse /\ ~Act /\ ~Conclude /\ ~Finished
      BY <1>1 DEF Ask, GiveUp, Refuse, Act, Conclude, Finished, Over
    <2>5. QED
      BY <2>1, <2>2, <2>3, <2>4 DEF Next
  <1>3. ~refused /\ quiet' = QuietNow /\ quiet' = STILL
    BY <1>1, <1>2 DEF Read
  <1>4. DOMAIN StillPending = {}
    BY <1>3 DEF QuietNow
  <1>5. Taken = Snapshot /\ (pc' = "measured" => start # <<>> /\ Taken = Head(end'))
    <2>1. CASE pc' = "action"
      <3>1. start' = <<Snapshot>>
        BY <1>1, <1>2, <2>1 DEF Read
      <3>2. Taken = Head(start')
        BY <2>1 DEF Taken
      <3>3. QED
        BY <2>1, <3>1, <3>2
    <2>2. CASE pc' = "measured"
      <3>1. end' = <<Snapshot>> /\ start # <<>>
        BY <1>1, <1>2, <2>2 DEF Read
      <3>2. Taken = Head(end')
        BY <2>2 DEF Taken
      <3>3. QED
        BY <2>2, <3>1, <3>2
    <2>3. QED
      BY <1>1, <2>1, <2>2
  <1>6. Typed /\ HearsAll
    BY DEF Inv
  <1> QED
    BY <1>2, <1>3, <1>4, <1>5, <1>6, SnapshotIsWhole

(* What is held now and was not when the phase began is more than was held. *)
LEMMA MoreAreHeld ==
  ASSUME NEW S, NEW held \in SUBSET S, IsFiniteSet(S)
  PROVE  Cardinality(S) > Cardinality(held) <=> S \ held # {}
  <1>1. IsFiniteSet(held) /\ Cardinality(held) <= Cardinality(S)
        /\ (Cardinality(held) = Cardinality(S) => held = S)
    BY FS_Subset
  <1>2. Cardinality(held) \in Nat /\ Cardinality(S) \in Nat
    BY <1>1, FS_CardinalityType
  <1>3. CASE S \ held = {}
    <2>1. held = S
      BY <1>3
    <2>2. QED
      BY <1>2, <1>3, <2>1
  <1>4. CASE S \ held # {}
    BY <1>1, <1>2, <1>4
  <1> QED
    BY <1>3, <1>4

LEMMA ReactStep ==
  ASSUME Inv, [Next]_vars, pc = "round", pc' = "measured"
  PROVE  HasReact(Head(start), Head(end')) <=> renderers \cap (Head(start).document .. document) # {}
  <1>1. WaitEnds
    BY DEF WaitEnds
  <1>2. /\ Taken.renderer <=> document \in renderers
        /\ Taken.reactDocuments = Cardinality(renderers)
        /\ start # <<>> /\ Taken = Head(end')
    BY <1>1, EndsByReading
  <1>3. PICK from : from = Head(start)
    OBVIOUS
  <1>4. Began(from)
    BY <1>2, <1>3 DEF Inv, BeganWhereItSays
  <1>5. PICK held \in SUBSET renderers :
          /\ from.document \in 0..document /\ held \subseteq 0..from.document
          /\ Cardinality(held) = from.reactDocuments
          /\ from.renderer <=> from.document \in held
          /\ renderers \ held \subseteq from.document..document
    BY <1>4 DEF Began
  <1>6. document \in Nat /\ renderers \subseteq 1..document /\ IsFiniteSet(renderers)
    <2>1. document \in Nat /\ renderers \subseteq 1..document
      BY DEF Inv, Typed, Document
    <2>2. IsFiniteSet(1..document)
      BY <2>1, FS_Interval
    <2>3. QED
      BY <2>1, <2>2, FS_Subset
  <1>7. Cardinality(renderers) > Cardinality(held) <=> renderers \ held # {}
    BY <1>6, MoreAreHeld
  <1>8. HasReact(from, Head(end')) <=>
          from.document \in held \/ document \in renderers \/ renderers \ held # {}
    BY <1>2, <1>5, <1>7 DEF HasReact
  <1>9. (from.document \in held \/ document \in renderers \/ renderers \ held # {})
          <=> renderers \cap (from.document .. document) # {}
    <2>1. ASSUME from.document \in held \/ document \in renderers \/ renderers \ held # {}
          PROVE  renderers \cap (from.document .. document) # {}
      <3>1. from.document \in Nat /\ from.document <= document
        BY <1>5, <1>6
      <3>2. CASE from.document \in held
        BY <3>1, <3>2, <1>6
      <3>3. CASE document \in renderers
        BY <3>1, <3>3, <1>6
      <3>4. CASE renderers \ held # {}
        BY <1>5, <3>4
      <3>5. QED
        BY <2>1, <3>2, <3>3, <3>4
    <2>2. ASSUME NEW d \in renderers \cap (from.document .. document), d \in held
          PROVE  from.document \in held
      BY <1>5, <1>6, <2>2
    <2>3. QED
      BY <2>1, <2>2
  <1> QED
    BY <1>3, <1>8, <1>9

-----------------------------------------------------------------------------
(* What the counts are worth. *)

(* The page and the meter, the test and the snapshots it takes keep to      *)
(* their types (count-budget.ts:246-482).                                  *)
THEOREM TypesHold == Spec => []TypeOK
  <1>1. Inv => TypeOK
    BY DEF Inv, Typed, TypeOK, Document, Blank
  <1> QED
    BY <1>1, InvHolds, PTL

(* A document that was replaced keeps its counts: what a phase is measured  *)
(* by counts all that was done in every document there has been, and every *)
(* request but a service worker's (count-budget.ts:296-307, 354-365).       *)
THEOREM CountsAllThereIs == Spec => CountsAreWhole
  <1>1. ASSUME Inv, [Next]_vars, WaitEnds
        PROVE  Taken.marks = Total(marks)
               /\ Taken.requests = Cardinality({q \in Sent : sent[q].kind # "worker"})
    <2>1. Taken.marks = Total(marks) /\ Taken.requests = requests
      BY <1>1, EndsByReading
    <2>2. requests = Cardinality(Counted)
      BY <1>1 DEF Inv, CountsAll
    <2>3. QED
      BY <2>1, <2>2 DEF Counted
  <1>2. Inv /\ [Next]_vars =>
          [WaitEnds => /\ Taken.marks = Total(marks)
                       /\ Taken.requests = Cardinality({q \in Sent : sent[q].kind # "worker"})]_vars
    BY <1>1
  <1> QED
    BY <1>2, InvHolds, PTL DEF Spec, CountsAreWhole

(* reactCommits is there exactly when the phase ran in a document that      *)
(* holds a renderer, told by two snapshots alone: each one's own, and how  *)
(* many documents hold one (count-budget.ts:354-365, 472-482).              *)
THEOREM TellsReact == Spec => ReactWhereItRan
  <1>1. Inv /\ [Next]_vars =>
          [pc = "round" /\ pc' = "measured" =>
             (HasReact(Head(start), Head(end'))
                <=> renderers \cap (Head(start).document .. document) # {})]_vars
    BY ReactStep
  <1> QED
    BY <1>1, InvHolds, PTL DEF Spec, ReactWhereItRan

-----------------------------------------------------------------------------
(* What has not been settled is waited for, where no navigation ends        *)
(* without a document.                                                     *)

Waits == WaitsForAll /\ SettlesAll

LEMMA FetchWaits ==
  ASSUME Inv, Waits, Fetch
  PROVE  Waits'
  <1>1. PICK kind \in {"fetch", "foreign", "worker"} :
          /\ sent' = Append(sent, [kind |-> kind, by |-> document, is |-> "open"])
          /\ Requested(Len(sent'), kind, {})
    BY DEF Fetch
  <1>2. UNCHANGED <<document, bytes, reading, refused>>
    BY DEF Fetch
  <1>3. PICK r : r = [kind |-> kind, by |-> document, is |-> "open"]
    OBVIOUS
  <1>4. r.kind = kind /\ r.by = document /\ r.is = "open"
    BY <1>3
  <1>5. /\ Sent' = Sent \cup {Len(sent')} /\ Len(sent') \notin Sent
        /\ sent'[Len(sent')] = r
        /\ \A q \in Sent : sent'[q] = sent[q]
    BY <1>1, <1>3 DEF Inv, Typed, Sent
  <1>6. /\ epoch' = epoch
        /\ DOMAIN pending' = DOMAIN pending \cup {Len(sent')}
        /\ pending'[Len(sent')] = epoch
        /\ \A p \in DOMAIN pending : p # Len(sent') => pending'[p] = pending[p]
    BY <1>1 DEF Requested
  <1>7. DOMAIN pending \subseteq Sent /\ reading \subseteq Sent /\ document \in Nat
    BY DEF Inv, Typed, Document
  <1>8. Navigating' = Navigating
    BY <1>1, <1>4, <1>5 DEF Navigating
  <1>9. WaitsForAll'
    <2>1. \A n \in Navigating' : n \in DOMAIN pending' /\ pending'[n] = epoch'
      BY <1>5, <1>6, <1>7, <1>8 DEF Waits, WaitsForAll
    <2>2. \A q \in Sent : Unsettled(q)' <=> Unsettled(q)
      BY <1>2, <1>5 DEF Unsettled
    <2>3. \A q \in Sent' : Unsettled(q)' /\ sent'[q].kind = "worker" => q \in DOMAIN pending'
      BY <1>5, <1>6, <2>2 DEF Waits, WaitsForAll
    <2>4. \A q \in Sent' : Unsettled(q)' /\ sent'[q].kind # "worker" /\ sent'[q].by = document' =>
            Navigating' # {} \/ (q \in DOMAIN pending' /\ pending'[q] = epoch')
      BY <1>2, <1>5, <1>6, <1>8, <2>2 DEF Waits, WaitsForAll
    <2>5. QED
      BY <2>1, <2>3, <2>4 DEF WaitsForAll
  <1>10. SettlesAll'
    BY <1>2, <1>4, <1>5, <1>7 DEF Waits, SettlesAll
  <1> QED
    BY <1>9, <1>10 DEF Waits

LEMMA NavigateWaits ==
  ASSUME Inv, Waits, Navigate
  PROVE  Waits'
  <1>1. /\ sent' = Append(Becomes(Navigating, "gone"), [kind |-> "nav", by |-> document, is |-> "open"])
        /\ Requested(Len(sent'), "nav", Navigating)
        /\ UNCHANGED <<document, bytes, reading, refused>>
    BY DEF Navigate
  <1>2. PICK r : r = [kind |-> "nav", by |-> document, is |-> "open"]
    OBVIOUS
  <1>3. r.kind = "nav" /\ r.by = document /\ r.is = "open"
    BY <1>2
  <1>4. PICK before : before = Becomes(Navigating, "gone")
    OBVIOUS
  <1>5. /\ before \in Seq(Request) /\ Len(before) = Len(sent) /\ DOMAIN before = Sent
        /\ \A q \in Sent : /\ before[q].kind = sent[q].kind /\ before[q].by = sent[q].by
                           /\ before[q].is = IF q \in Navigating THEN "gone" ELSE sent[q].is
    BY <1>4, BecomeWhat DEF Inv, Typed
  <1>6. /\ Sent' = Sent \cup {Len(sent')} /\ Len(sent') \notin Sent
        /\ sent'[Len(sent')] = r
        /\ \A q \in Sent : sent'[q] = before[q]
    BY <1>1, <1>2, <1>4, <1>5 DEF Sent
  <1>7. /\ epoch' = epoch + 1
        /\ DOMAIN pending' = (DOMAIN pending \ Navigating) \cup {Len(sent')}
        /\ pending'[Len(sent')] = epoch'
    BY <1>1 DEF Requested
  <1>8. DOMAIN pending \subseteq Sent /\ reading \subseteq Sent /\ document \in Nat
    BY DEF Inv, Typed, Document
  <1>9. Navigating' = {Len(sent')}
    BY <1>3, <1>5, <1>6 DEF Navigating
  <1>10. WaitsForAll'
    <2>1. \A n \in Navigating' : n \in DOMAIN pending' /\ pending'[n] = epoch'
      BY <1>7, <1>9
    <2>2. \A q \in Sent : (Unsettled(q)' => Unsettled(q))
          /\ (sent[q].kind = "worker" => q \notin Navigating)
      BY <1>1, <1>5, <1>6 DEF Unsettled, Navigating
    <2>3. \A q \in Sent' : Unsettled(q)' /\ sent'[q].kind = "worker" => q \in DOMAIN pending'
      BY <1>5, <1>6, <1>7, <2>2 DEF Waits, WaitsForAll
    <2>4. QED
      BY <1>9, <2>1, <2>3 DEF WaitsForAll
  <1>11. SettlesAll'
    <2>1. \A q \in reading' : sent'[q].is = "answered"
      BY <1>1, <1>5, <1>6, <1>8 DEF Waits, SettlesAll, Navigating
    <2>2. \A q \in Sent' : sent'[q].is = "answered" =>
            q \in Sent /\ sent[q].is = "answered" /\ sent'[q].kind = sent[q].kind
      BY <1>3, <1>5, <1>6
    <2>3. \A q \in Sent' : sent'[q].by <= document'
      <3>1. document' = document /\ document <= document
        BY <1>1, <1>8
      <3>2. \A q \in Sent : sent'[q].by = sent[q].by /\ sent[q].by <= document
        BY <1>5, <1>6 DEF Waits, SettlesAll
      <3>3. sent'[Len(sent')].by = document
        BY <1>3, <1>6
      <3>4. QED
        BY <1>6, <3>1, <3>2, <3>3
    <2>4. QED
      BY <1>1, <2>1, <2>2, <2>3 DEF Waits, SettlesAll
  <1> QED
    BY <1>10, <1>11 DEF Waits

LEMMA CommitWaits ==
  ASSUME Inv, Waits, Commit
  PROVE  Waits'
  <1>1. PICK n \in Navigating : \E unheard \in SUBSET (OnTheirWay \ {n}) :
          /\ sent' = [Becomes(OnTheirWay, "gone") EXCEPT ![n] = [kind |-> "nav", by |-> document + 1, is |-> "body"]]
          /\ Failed(OnTheirWay \ (unheard \cup {n}))
    BY DEF Commit
  <1>2. PICK Q \in SUBSET (OnTheirWay \ {n}) : Failed(Q)
    BY <1>1
  <1>3. document' = document + 1 /\ UNCHANGED <<bytes, reading, epoch>> /\ document \in Nat
    BY DEF Commit, Inv, Typed, Document
  <1>4. /\ DOMAIN pending' = DOMAIN pending \ Q /\ \A q \in DOMAIN pending' : pending'[q] = pending[q]
        /\ (refused => refused')
    BY <1>2 DEF Failed, Drop
  <1>5. PICK before : before = Becomes(OnTheirWay, "gone")
    OBVIOUS
  <1>6. /\ DOMAIN before = Sent
        /\ \A q \in Sent : /\ before[q].kind = sent[q].kind /\ before[q].by = sent[q].by
                           /\ before[q].is = IF q \in OnTheirWay THEN "gone" ELSE sent[q].is
    BY <1>5, BecomeWhat DEF Inv, Typed
  <1>7. PICK r : r = [kind |-> "nav", by |-> document + 1, is |-> "body"]
    OBVIOUS
  <1>8. r.kind = "nav" /\ r.by = document + 1 /\ r.is = "body"
    BY <1>7
  <1>9. n \in Sent /\ sent[n].kind = "nav" /\ sent[n].is = "open" /\ n \in DOMAIN pending
        /\ pending[n] = epoch
    BY DEF Navigating, Waits, WaitsForAll
  <1>10. /\ Sent' = Sent /\ sent'[n] = r
         /\ \A q \in Sent : q # n => sent'[q] = before[q]
    BY <1>1, <1>5, <1>6, <1>7, <1>9 DEF Sent
  <1>11. \A q \in Sent : q # n =>
           /\ sent'[q].kind = sent[q].kind /\ sent'[q].by = sent[q].by
           /\ sent'[q].is = IF q \in OnTheirWay THEN "gone" ELSE sent[q].is
    BY <1>6, <1>10
  <1>12. \A q \in Sent : sent[q].by \in Nat /\ sent[q].by < document'
    <2>1. \A q \in Sent : sent[q] \in Request /\ sent[q].by <= document
      BY DEF Inv, Typed, Sent, Waits, SettlesAll
    <2>2. QED
      BY <1>3, <2>1 DEF Request, Document
  <1>13. WaitsForAll'
    <2>1. Navigating' = {}
      BY <1>8, <1>10, <1>11 DEF Navigating, OnTheirWay
    <2>2. \A q \in Sent' : Unsettled(q)' /\ sent'[q].kind = "worker" => q \in DOMAIN pending'
      <3>1. SUFFICES ASSUME NEW q \in Sent, Unsettled(q)', sent'[q].kind = "worker"
                     PROVE  q \in DOMAIN pending'
        BY <1>10
      <3>2. q # n
        BY <1>8, <1>10, <3>1
      <3>3. sent[q].kind = "worker" /\ q \notin OnTheirWay /\ sent'[q].is = sent[q].is
        BY <1>11, <3>1, <3>2 DEF OnTheirWay
      <3>4. Unsettled(q)
        BY <1>3, <3>1, <3>3 DEF Unsettled
      <3>5. QED
        BY <1>2, <1>4, <3>3, <3>4 DEF Waits, WaitsForAll
    <2>3. \A q \in Sent' : sent'[q].by = document' => q = n
      BY <1>10, <1>11, <1>12
    <2>4. n \in DOMAIN pending' /\ pending'[n] = epoch'
      BY <1>2, <1>3, <1>4, <1>9
    <2>5. QED
      BY <2>1, <2>2, <2>3, <2>4 DEF WaitsForAll
  <1>14. SettlesAll'
    <2>1. \A q \in reading' : sent'[q].is = "answered"
      <3>1. \A q \in reading : q \in Sent /\ sent[q].is = "answered"
        BY DEF Inv, Typed, Waits, SettlesAll
      <3>2. \A q \in reading : q # n /\ q \notin OnTheirWay
        BY <1>9, <3>1 DEF OnTheirWay
      <3>3. QED
        BY <1>3, <1>11, <3>1, <3>2
    <2>2. \A q \in Sent' : sent'[q].is = "answered" => q \in Sent /\ sent[q].is = "answered"
          /\ sent'[q].kind = sent[q].kind
      BY <1>8, <1>10, <1>11
    <2>3. \A q \in Sent' : sent'[q].by <= document'
      BY <1>3, <1>8, <1>10, <1>11, <1>12
    <2>4. QED
      BY <1>3, <1>4, <2>1, <2>2, <2>3 DEF Waits, SettlesAll
  <1> QED
    BY <1>13, <1>14 DEF Waits

LEMMA ReplyWaits ==
  ASSUME Inv, Waits, Reply
  PROVE  Waits'
  <1>1. PICK q \in Sent :
          /\ sent[q].is = IF sent[q].kind = "nav" THEN "body" ELSE "open"
          /\ sent' = Becomes({q}, "answered") /\ reading' = reading \cup {q}
    BY DEF Reply
  <1>2. UNCHANGED <<document, bytes, pending, epoch, refused>>
    BY DEF Reply
  <1>3. /\ Sent' = Sent
        /\ \A p \in Sent : /\ sent'[p].kind = sent[p].kind /\ sent'[p].by = sent[p].by
                           /\ sent'[p].is = IF p = q THEN "answered" ELSE sent[p].is
    BY <1>1, BecomeWhat DEF Inv, Typed, Sent
  <1>4. Navigating' = Navigating
    BY <1>1, <1>3 DEF Navigating
  <1>5. \A p \in Sent : Unsettled(p)' => Unsettled(p)
    BY <1>1, <1>3 DEF Unsettled
  <1>6. WaitsForAll'
    BY <1>2, <1>3, <1>4, <1>5 DEF Waits, WaitsForAll
  <1>7. reading \subseteq Sent
    BY DEF Inv, Typed
  <1>8. SettlesAll'
    BY <1>1, <1>2, <1>3, <1>7 DEF Waits, SettlesAll
  <1> QED
    BY <1>6, <1>8 DEF Waits

LEMMA FailWaits ==
  ASSUME Inv, Waits, Fail, Barren = FALSE
  PROVE  Waits'
  <1>1. PICK q \in Sent :
          sent[q].is = "open" /\ sent[q].kind # "nav" /\ sent' = Becomes({q}, "gone") /\ Failed({q})
    BY DEF Fail
  <1>2. UNCHANGED <<document, bytes, reading, epoch>>
    BY DEF Fail
  <1>3. /\ Sent' = Sent
        /\ \A p \in Sent : /\ sent'[p].kind = sent[p].kind /\ sent'[p].by = sent[p].by
                           /\ sent'[p].is = IF p = q THEN "gone" ELSE sent[p].is
    BY <1>1, BecomeWhat DEF Inv, Typed, Sent
  <1>4. /\ DOMAIN pending' = DOMAIN pending \ {q} /\ \A p \in DOMAIN pending' : pending'[p] = pending[p]
        /\ (refused => refused')
    BY <1>1 DEF Failed, Drop
  <1>5. Navigating' = Navigating /\ q \notin Navigating
    BY <1>1, <1>3 DEF Navigating
  <1>6. reading \subseteq Sent /\ q \notin reading
    BY <1>1 DEF Inv, Typed, Waits, SettlesAll
  <1>7. \A p \in Sent : Unsettled(p)' => Unsettled(p) /\ p # q
    BY <1>2, <1>3, <1>6 DEF Unsettled
  <1>8. WaitsForAll'
    BY <1>2, <1>3, <1>4, <1>5, <1>7 DEF Waits, WaitsForAll
  <1>9. SettlesAll'
    BY <1>1, <1>2, <1>3, <1>4, <1>6 DEF Waits, SettlesAll
  <1> QED
    BY <1>8, <1>9 DEF Waits

LEMMA ReadBodyWaits ==
  ASSUME Inv, Waits, ReadBody
  PROVE  Waits'
  <1>1. PICK q \in reading, read \in BOOLEAN :
          /\ bytes' = IF read /\ sent[q].kind # "worker" THEN bytes \cup {q} ELSE bytes
          /\ refused' = (refused \/ ~read \/ sent[q].kind = "foreign")
          /\ reading' = reading \ {q} /\ pending' = Drop(pending, {q})
    BY DEF ReadBody
  <1>2. document' = document /\ sent' = sent /\ epoch' = epoch
    BY DEF ReadBody, page
  <1>3. DOMAIN pending' = DOMAIN pending \ {q} /\ \A p \in DOMAIN pending' : pending'[p] = pending[p]
    BY <1>1 DEF Drop
  <1>4. Sent' = Sent /\ Navigating' = Navigating
    BY <1>2 DEF Sent, Navigating
  <1>5. sent[q].is = "answered" /\ q \in Sent
    BY DEF Waits, SettlesAll, Inv, Typed
  <1>6. q \notin Navigating /\ \A p \in Sent : Unsettled(p)' => Unsettled(p) /\ p # q
    BY <1>1, <1>2, <1>5 DEF Unsettled, Navigating
  <1>7. WaitsForAll'
    BY <1>2, <1>3, <1>4, <1>6 DEF Waits, WaitsForAll
  <1>8. SettlesAll'
    BY <1>1, <1>2, <1>4 DEF Waits, SettlesAll
  <1> QED
    BY <1>7, <1>8 DEF Waits

(* A round read may leave behind what an earlier navigation's document had  *)
(* sent, and that is not waited for by any of the above.                   *)
LEMMA OthersWait ==
  ASSUME Inv, Waits, Work \/ Ask \/ GiveUp \/ Busy \/ Read \/ Refuse \/ Act \/ Conclude \/ Finished
  PROVE  Waits'
  <1>1. UNCHANGED <<document, sent, reading, epoch, bytes, refused>>
    <2>1. CASE Work
      BY <2>1 DEF Work, network
    <2>2. CASE Ask \/ GiveUp \/ Busy \/ Refuse \/ Act \/ Conclude
      BY <2>2 DEF Ask, GiveUp, Busy, Refuse, Act, Conclude, page, network
    <2>3. CASE Read
      BY <2>3 DEF Read, page
    <2>4. CASE Finished
      BY <2>4 DEF Finished, vars, page, network
    <2>5. QED
      BY <2>1, <2>2, <2>3, <2>4
  <1>2. pending' \in {pending, Drop(pending, LeftBehind)}
    <2>1. CASE Work
      BY <2>1 DEF Work, network
    <2>2. CASE Ask \/ GiveUp \/ Busy \/ Refuse \/ Act \/ Conclude
      BY <2>2 DEF Ask, GiveUp, Busy, Refuse, Act, Conclude, network
    <2>3. CASE Read
      BY <2>3 DEF Read, StillPending
    <2>4. CASE Finished
      BY <2>4 DEF Finished, vars, network
    <2>5. QED
      BY <2>1, <2>2, <2>3, <2>4
  <1>3. \A q \in DOMAIN pending : sent[q].kind = "worker" \/ pending[q] = epoch =>
          q \in DOMAIN pending' /\ pending'[q] = pending[q]
    <2>1. \A q \in DOMAIN pending : sent[q].kind = "worker" \/ pending[q] = epoch => q \notin LeftBehind
      BY DEF LeftBehind, Inv, Typed
    <2>2. QED
      BY <1>2, <2>1 DEF Drop
  <1>4. Sent' = Sent /\ Navigating' = Navigating /\ \A q \in Sent : Unsettled(q)' <=> Unsettled(q)
    BY <1>1 DEF Sent, Navigating, Unsettled
  <1>5. WaitsForAll'
    BY <1>1, <1>3, <1>4 DEF Waits, WaitsForAll
  <1>6. SettlesAll'
    BY <1>1, <1>4 DEF Waits, SettlesAll
  <1> QED
    BY <1>5, <1>6 DEF Waits

(* What is waited for is settled once nothing is pending.                  *)
LEMMA SettledByThen ==
  ASSUME Inv, Waits, [Next]_vars, WaitEnds, NEW q \in Sent, Matters(q)
  PROVE  /\ sent[q].is \in {"answered", "gone"}
         /\ sent[q].is = "answered" => sent[q].kind # "foreign"
            /\ (sent[q].kind # "worker" => q \in Taken.bytes)
  <1>1. ~refused /\ DOMAIN StillPending = {} /\ Taken.bytes = bytes
    BY EndsByReading
  <1>2. \A p \in DOMAIN pending : sent[p].kind # "worker" /\ pending[p] # epoch
    <2>1. DOMAIN StillPending = DOMAIN pending \/ DOMAIN StillPending = DOMAIN pending \ LeftBehind
      BY DEF StillPending, Drop
    <2>2. \A p \in DOMAIN pending : p \in LeftBehind
      BY <1>1, <2>1
    <2>3. QED
      BY <2>2 DEF LeftBehind, Inv, Typed
  <1>3. Navigating = {}
    BY <1>2 DEF Waits, WaitsForAll
  <1>4. ~Unsettled(q)
    BY <1>2, <1>3 DEF Waits, WaitsForAll, Matters
  <1>5. sent[q] \in Request
    BY DEF Inv, Typed, Sent
  <1>6. sent[q].is \in {"answered", "gone"} /\ q \notin reading
    BY <1>4, <1>5 DEF Unsettled, Request
  <1> QED
    BY <1>1, <1>6 DEF Waits, SettlesAll

(* Still means answered: at the end of a wait no request of the document's *)
(* own is in flight, nor the one that brought it, nor a service worker's,  *)
(* and what was answered is counted; in a run in which every navigation    *)
(* brings a document (count-budget.ts:296-352, 387-459).                    *)
THEOREM StillMeansAnswered ==
  ASSUME Barren = FALSE
  PROVE  Spec => StillIsAnswered
  <1>1. Init => Waits
    <2>1. SUFFICES ASSUME Init PROVE Waits
      OBVIOUS
    <2>2. Sent = {} /\ Navigating = {} /\ reading = {}
      BY <2>1 DEF Init, Sent, Navigating
    <2>3. QED
      BY <2>2 DEF Waits, WaitsForAll, SettlesAll
  <1>2. Inv /\ Waits /\ [Next]_vars => Waits'
    <2>1. SUFFICES ASSUME Inv, Waits, [Next]_vars PROVE Waits'
      OBVIOUS
    <2>2. CASE UNCHANGED vars
      BY <2>1, <2>2 DEF vars, page, network, Waits, WaitsForAll, SettlesAll, Unsettled, Navigating, Sent
    <2>3. CASE Next
      BY <2>1, <2>3, FetchWaits, NavigateWaits, CommitWaits, ReplyWaits, FailWaits, ReadBodyWaits,
         OthersWait DEF Next
    <2>4. QED
      BY <2>1, <2>2, <2>3
  <1>3. Inv /\ Waits /\ [Next]_vars =>
          [WaitEnds =>
             \A q \in Sent : Matters(q) =>
               /\ sent[q].is \in {"answered", "gone"}
               /\ sent[q].is = "answered" =>
                    sent[q].kind # "foreign" /\ (sent[q].kind # "worker" => q \in Taken.bytes)]_vars
    BY SettledByThen
  <1> QED
    BY <1>1, <1>2, <1>3, InvHolds, PTL DEF Spec, StillIsAnswered
=============================================================================
