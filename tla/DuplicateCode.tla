--------------------------- MODULE DuplicateCode ----------------------------
(***************************************************************************)
(* The duplicate-code gate (duplicate-code.ts): a run of WINDOW lines, one  *)
(* of them written by the branch, that stands somewhere else too.  Every    *)
(* window of every file is looked up; a match is grown to the longest run   *)
(* both places share, marked as covered, and kept or refused.               *)
(*                                                                         *)
(* A file is its physical lines: a text each, or a directive that keeps the *)
(* block below it, in a comment of its own.                                 *)
(***************************************************************************)
EXTENDS ChangeSet

CONSTANTS
  Text,
  Keep,       \* the line that holds a directive
  Trees,      \* what the files may hold
  Generated,  \* the files the commit marks as generated
  WINDOW

ASSUME ClonesAssumption ==
  /\ Trees \subseteq [File -> Seq(Text \cup {Keep})]
  /\ WINDOW \in Nat \ {0}

VARIABLES
  tree,       \* per file, its physical lines
  pending,    \* the changed files still to be graded
  here,       \* the one being graded
  start,      \* its window to look up next
  covers,     \* per file matched against, the entries of `here` reported already
  judged      \* what was found, in order

clones == <<tree, pending, here, start, covers, judged>>

-----------------------------------------------------------------------------
(* readSources *)

Written(f) == IF f \in DOMAIN changed THEN changed[f] ELSE {}

(* directiveFor: on the line above, a comment of its own that the branch    *)
(* wrote.  One that trails a line of the block itself is left out.          *)
Marked(f, l) == l > 1 /\ tree[f][l - 1] = Keep /\ l - 1 \in Written(f)

(* A file's entries: its lines, and before a kept block a mark that no      *)
(* other entry anywhere equals.                                             *)
EntriesOf(f, l) ==
  IF tree[f][l] = Keep THEN <<>>
  ELSE (IF Marked(f, l) THEN <<[id |-> <<f, l>>, at |-> l - 1]>> ELSE <<>>)
       \o <<[id |-> <<tree[f][l], 0>>, at |-> l]>>
Entries(f) == FlattenSeq([l \in DOMAIN tree[f] |-> EntriesOf(f, l)])
Same(f, i, g, j) == Entries(f)[i].id = Entries(g)[j].id
Own(f, i) == Entries(f)[i].at \in Written(f)
Source == {f \in DOMAIN tree : f \notin Generated}

(* kept: a mark stands right before the entry. *)
KeptAt(f, i) == i > 1 /\ Entries(f)[i - 1].id[1] \in File

(* windowIndex *)
Starts_(f) == 1..(Len(Entries(f)) - WINDOW + 1)
SameWindow(f, i, g, j) == \A k \in 0..(WINDOW - 1) : Same(f, i + k, g, j + k)
Holding(f, i, g) == {j \in Starts_(g) : SameWindow(f, i, g, j)}

Apart(i, j) == IF i < j THEN j - i ELSE i - j

-----------------------------------------------------------------------------
(* extended *)

Place(f, i) == [file |-> f, start |-> i]
Clone(a, b, n) == [here |-> a, there |-> b, length |-> n]

Extended(f, i, g, j) ==
  LET back == Max({0} \cup {k \in 1..(Min({i, j}) - 1) : \A m \in 1..k : Same(f, i - m, g, j - m)})
      room == Min({Len(Entries(f)) - i, Len(Entries(g)) - j}) + 1
      on == Max({n \in WINDOW..room : \A m \in 0..(n - 1) : Same(f, i + m, g, j + m)})
  IN  Clone(Place(f, i - back), Place(g, j - back), back + on)

Span(i, n) == i..(i + n - 1)

(* reportedAs, what the report covers: both ranges in one file.             *)
Covered(run) ==
  IF run.here.file # run.there.file THEN Span(run.here.start, run.length)
  ELSE Span(run.here.start, run.length) \cup Span(run.there.start, run.length)

Period(run) == Apart(run.there.start, run.here.start)
Overlaps(run) == run.here.file = run.there.file /\ run.length > Period(run)

-----------------------------------------------------------------------------
(* Mistakes: what a definition below is easily got wrong as. *)

(* An overlapping run is reported from its first period. *)
FirstPeriod(run) ==
  LET from == Min({run.here.start, run.there.start})
      f == run.here.file
  IN  Clone(Place(f, from), Place(f, from + Period(run)), Period(run))

(* A window is the branch's where it starts on a line the branch wrote.     *)
OwnFirst(f, i) == Own(f, i)

-----------------------------------------------------------------------------

(* reportedAs, an overlapping run: the two neighbouring periods of the      *)
(* stretch that hold the first line in it the branch wrote.                 *)
Neighbours(run) ==
  LET f == run.here.file
      from == Min({run.here.start, run.there.start})
      end == from + Period(run) + run.length
      written == Min({i \in from..(end - 1) : Own(f, i)})
      row == from + Period(run) * ((written - from) \div Period(run))
      first == IF row + 2 * Period(run) <= end THEN row
               ELSE IF row + Period(run) <= end THEN row - Period(run)
               ELSE end - 2 * Period(run)
  IN  IF written < first + Period(run)
      THEN Clone(Place(f, first), Place(f, first + Period(run)), Period(run))
      ELSE Clone(Place(f, first + Period(run)), Place(f, first), Period(run))
ReportedAs(run) == IF Overlaps(run) THEN Neighbours(run) ELSE run

(* allowance: one of its places starts right after a mark. *)
Allowed(run) == KeptAt(run.here.file, run.here.start) \/ KeptAt(run.there.file, run.there.start)

OwnWindow(f, i) == \E k \in Span(i, WINDOW) : Own(f, k)
Settled(g, i) == i \in covers[g]

(* clonesIn, one window against one file.  Two places in one file are two   *)
(* only where they do not overlap, and neither is covered.                  *)
Elsewhere(f, i, g) ==
  {j \in Holding(f, i, g) : g # f \/ (Apart(i, j) >= WINDOW /\ ~Settled(g, j))}
Found(f, i) == {g \in Source : ~Settled(g, i) /\ Elsewhere(f, i, g) # {}}
RunAt(f, i, g) == Extended(f, i, g, Min(Elsewhere(f, i, g)))
Judged(run) == [clone |-> ReportedAs(run), run |-> run, kept |-> Allowed(run)]

-----------------------------------------------------------------------------

(* duplicateCode: what the diff says changed, less what is generated. *)
Open ==
  /\ stage = "changed" /\ here = Nowhere /\ pending = {} /\ start = 0
  /\ pending' = DOMAIN changed \ Generated
  /\ start' = 1
  /\ UNCHANGED <<tree, here, covers, judged>>

Grade(f) ==
  /\ here = Nowhere /\ f \in pending
  /\ here' = f /\ pending' = pending \ {f} /\ start' = 1
  /\ covers' = [g \in File |-> {}]
  /\ UNCHANGED <<tree, judged>>

Window ==
  /\ here # Nowhere /\ start \in Starts_(here)
  /\ IF OwnWindow(here, start)
     THEN /\ judged' = judged \o [n \in DOMAIN SetToSeq(Found(here, start)) |->
                                    Judged(RunAt(here, start, SetToSeq(Found(here, start))[n]))]
          /\ covers' = [g \in File |-> IF g \in Found(here, start)
                                       THEN covers[g] \cup Covered(RunAt(here, start, g))
                                       ELSE covers[g]]
     ELSE UNCHANGED <<judged, covers>>
  /\ start' = start + 1
  /\ UNCHANGED <<tree, pending, here>>

Graded_ ==
  /\ here # Nowhere /\ start \notin Starts_(here)
  /\ here' = Nowhere
  /\ UNCHANGED <<tree, pending, start, covers, judged>>

ClonesInit ==
  /\ tree \in Trees
  /\ pending = {} /\ here = Nowhere /\ start = 0
  /\ covers = [g \in File |-> {}] /\ judged = <<>>

Look == Open \/ (\E f \in File : Grade(f)) \/ Window \/ Graded_

-----------------------------------------------------------------------------

Over == stage = "changed" /\ start > 0 /\ pending = {} /\ here = Nowhere
(* uniquePairs: the first report of each pair of places.                   *)
Pair(n) == {judged[n].clone.here, judged[n].clone.there}
Reported == {judged[n] : n \in {m \in DOMAIN judged : \A k \in 1..(m - 1) : Pair(k) # Pair(m)}}
Refused == {x \in Reported : ~x.kept}

(* A clone: a window of a file that is graded, holding a line the branch    *)
(* wrote, that stands somewhere else too, not overlapping itself.           *)
Wrote(f, i) == Entries(f)[i].at \in branch.wrote[f]
IsClone(f, i, g, j) ==
  /\ i \in Starts_(f) /\ j \in Starts_(g) /\ SameWindow(f, i, g, j)
  /\ \E k \in Span(i, WINDOW) : Wrote(f, k)
  /\ f # g \/ Apart(i, j) >= WINDOW
Clean ==
  \/ Over /\ Refused = {}
  \/ stage = "settled" /\ branch.base = "named" /\ problems = 0

(* A clean verdict over a base means that nothing the branch wrote stands   *)
(* somewhere else too, but where a directive the branch wrote keeps a clone *)
(* of the same two files that takes the window in; whatever of git's answer *)
(* had to be read for it (changeSet, 121-161; duplicateCode, 99-107;        *)
(* clonesIn, 288-297).                                                      *)
CleanMeansNone ==
  Clean =>
    \A f \in Graded \cap Source, g \in Source : \A i \in Starts_(f), j \in Starts_(g) :
      IsClone(f, i, g, j) =>
        \E x \in ToSet(judged) :
          /\ {x.run.here.file, x.run.there.file} = {f, g}
          /\ i \in Covered(x.run) \/ j \in Covered(x.run)

(* What is reported is one: two places that hold the same lines and do not  *)
(* overlap, long enough, with a line the branch wrote in the first          *)
(* (Clone's comment, 86, and reportedAs, 360-369).                          *)
EachReportHolds ==
  \A x \in Reported :
    LET c == x.clone
    IN  /\ c.length >= WINDOW
        /\ \A k \in 0..(c.length - 1) : Same(c.here.file, c.here.start + k, c.there.file, c.there.start + k)
        /\ c.here.file = c.there.file => Apart(c.here.start, c.there.start) >= c.length
        /\ \E k \in Span(c.here.start, c.length) : Own(c.here.file, k)
=============================================================================
