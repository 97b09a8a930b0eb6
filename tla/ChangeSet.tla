----------------------------- MODULE ChangeSet ------------------------------
(***************************************************************************)
(* What "this branch" means to a gate that holds it to its own lines        *)
(* (_lib/change-set.ts): the base is named or refused, one diff against it  *)
(* is read line by line, and the gate gets, per file it grades, the lines   *)
(* the branch wrote, or the verdict it answers with instead.                *)
(*                                                                         *)
(* A branch is what it wrote: the lines of each file, the files whose names *)
(* git cannot print plainly, and those it touched without writing a line.   *)
(***************************************************************************)
EXTENDS Integers, Sequences, FiniteSets, FiniteSetsExt, SequencesExt, Functions

CONSTANTS
  File,
  Nowhere,    \* no file
  Branches,   \* what may have been written
  Graded      \* keeps: the files the gate grades

ASSUME ChangeAssumption ==
  /\ IsFiniteSet(File) /\ Graded \subseteq File /\ Nowhere \notin File
  /\ \A b \in Branches :
       /\ b.base \in {"named", "refused", "none"}
       /\ \A f \in File : b.wrote[f] \subseteq Nat \ {0} /\ IsFiniteSet(b.wrote[f])

VARIABLES
  branch,     \* [base, wrote, cut, quoted, moved]
  diff,       \* the lines of git's answer still to be read
  unnamed,    \* a section was opened whose file is not named yet
  lines,      \* the file whose lines are being collected
  changed,    \* changeSet's answer: per graded file, the lines written
  problems,   \* how many sections could not be named
  stage       \* "base", "reading", "changed" or "settled"

change == <<branch, diff, unnamed, lines, changed, problems, stage>>

-----------------------------------------------------------------------------
(* The diff, as git prints it: unified by 0, renames found, deletions left  *)
(* out, every path relative to the project.                                 *)

Opens == [is |-> "opens"]
Names(f) == [is |-> "names", file |-> f]
Hunk(from, count) == [is |-> "hunk", from |-> from, count |-> count]
Body == [is |-> "body"]

Touched(b) == {f \in File : b.wrote[f] # {} \/ f \in b.cut \/ f \in b.moved}
Starts(ls) == {l \in ls : l - 1 \notin ls}
RunFrom(l, ls) == Max({m \in ls : l..m \subseteq ls}) - l + 1

(* An added line that reads `++ b/x` is printed as a header is.             *)
HunkAt(b, f, l) ==
  IF l \in Starts(b.wrote[f]) THEN <<Hunk(l, RunFrom(l, b.wrote[f])), Names(b.looks), Body>> ELSE <<>>
Hunks(b, f) ==
  (IF f \in b.cut THEN <<Hunk(0, 0), Body>> ELSE <<>>)
    \o FlattenSeq([l \in 1..Max(b.wrote[f] \cup {0}) |-> HunkAt(b, f, l)])
Section(b, f) ==
  <<Opens>> \o (IF Hunks(b, f) = <<>> THEN <<>> ELSE IF f \in b.quoted THEN <<Body>> ELSE <<Names(f)>>)
            \o Hunks(b, f)
Printed(b) ==
  LET order == SetToSeq(Touched(b))
  IN  FlattenSeq([n \in DOMAIN order |-> Section(b, order[n])])

-----------------------------------------------------------------------------
(* Mistakes: what a step below is easily got wrong as. *)

(* A line that reads as a header is one wherever it stands. *)
NamedAnywhere(line) == line.is = "names"

(* What could not be named is passed over. *)
Passed == problems' = problems

-----------------------------------------------------------------------------
(* baseRevision, as branchChange reads it: refused, no earlier commit, or a *)
(* revision the diff is taken against.                                      *)
Base ==
  /\ stage = "base"
  /\ IF branch.base = "named" THEN stage' = "reading" /\ diff' = Printed(branch)
                              ELSE stage' = "settled" /\ UNCHANGED diff
  /\ UNCHANGED <<branch, unnamed, lines, changed, problems>>

Named(line) == unnamed /\ line.is = "names"
Unread == problems' = problems + 1

(* changeSet, one line of the diff: it opens a section, names the section's  *)
(* file, or is a hunk's header; every other line is passed over.            *)
Line == Head(diff)
Reading == stage = "reading" /\ diff # <<>> /\ diff' = Tail(diff) /\ UNCHANGED <<branch, stage>>

OpenSection ==
  /\ Reading /\ Line.is = "opens"
  /\ unnamed' = TRUE /\ lines' = Nowhere
  /\ UNCHANGED <<changed, problems>>

NameFile ==
  /\ Reading /\ Named(Line)
  /\ unnamed' = FALSE
  /\ IF Line.file \in Graded
     THEN /\ lines' = Line.file
          /\ changed' = [f \in DOMAIN changed \cup {Line.file} |-> IF f = Line.file THEN {} ELSE changed[f]]
     ELSE UNCHANGED <<lines, changed>>
  /\ UNCHANGED problems

RefuseUnnamed ==
  /\ Reading /\ Line.is = "hunk" /\ unnamed
  /\ Unread /\ unnamed' = FALSE
  /\ UNCHANGED <<lines, changed>>

CollectHunk ==
  /\ Reading /\ Line.is = "hunk" /\ ~unnamed
  /\ changed' = IF lines = Nowhere THEN changed
                ELSE [changed EXCEPT ![lines] = @ \cup Line.from..(Line.from + Line.count - 1)]
  /\ UNCHANGED <<unnamed, lines, problems>>

PassOver ==
  /\ Reading /\ Line.is \notin {"opens", "hunk"} /\ ~Named(Line)
  /\ UNCHANGED <<unnamed, lines, changed, problems>>

(* branchChange, once the diff is read. *)
Settle ==
  /\ stage = "reading" /\ diff = <<>>
  /\ stage' = IF problems > 0 \/ DOMAIN changed = {} THEN "settled" ELSE "changed"
  /\ UNCHANGED <<branch, diff, unnamed, lines, changed, problems>>

ChangeInit ==
  /\ branch \in Branches
  /\ diff = <<>> /\ unnamed = FALSE /\ lines = Nowhere
  /\ changed = <<>> /\ problems = 0 /\ stage = "base"

Read == Base \/ OpenSection \/ NameFile \/ RefuseUnnamed \/ CollectHunk \/ PassOver \/ Settle

=============================================================================
