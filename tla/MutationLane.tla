---------------------------- MODULE MutationLane ----------------------------
(***************************************************************************)
(* The mutation lane (mutation-lane.ts): what the branch changed in the     *)
(* repository's pure domain is mutated, and the branch fails on a mutant    *)
(* its own lines left undetected, on a score under the floor, and on a run  *)
(* nothing read off can mean anything.                                      *)
(*                                                                         *)
(* A file crosses from git's answer to the runner's patterns and back in a  *)
(* report, and a file nobody mutated reads as one with nothing wrong.       *)
(***************************************************************************)
EXTENDS ChangeSet

CONSTANTS
  Domains,    \* what the configuration may declare: per pattern, what it reaches
  Expressible, \* the files whose names a pattern can express, having no { } or !
  Runs,       \* how the runner may end: [status, dirty, resolves]
  Mutants,    \* what a report may hold of a file: [from, to, status, static]
  MaxMutants, \* how many mutants a report holds
  Floors      \* the floors, in percent, and NoFloor
NoFloor == -1

(* A pattern of one file resolves to it or to nothing, where it can be      *)
(* expressed; where it cannot (literal, 433), to whatever it matches.       *)
ASSUME LaneAssumption ==
  /\ Expressible \subseteq File
  /\ \A run \in Runs, f \in Expressible : run.resolves[f] \subseteq {f}

VARIABLES
  domain, installed, floor,
  ran,        \* how the runner ended
  report,     \* the mutants it reports, in order
  verdict     \* what the lane answers: "none" until it does

lane == <<domain, installed, floor, ran, report, verdict>>

-----------------------------------------------------------------------------
(* WORTH, and the statuses that say there was no verdict. *)

Detected == {"Killed", "Timeout"}
Undetected == {"Survived", "NoCoverage"}
NO_VERDICT == {"RuntimeError", "Pending"}

(* inTheChange: every line the mutant spans is one the branch wrote.        *)
InTheChange(m) == m.from..m.to \subseteq changed[m.file]

-----------------------------------------------------------------------------
(* Mistakes: what a definition below is easily got wrong as. *)

(* What a directive disables is out of the ratio wherever it stands. *)
WorthAnywhere(status, own) ==
  IF status \in Detected THEN "detected" ELSE IF status \in Undetected THEN "undetected" ELSE "outside"

(* Nothing looks for the patterns the runner did not resolve. *)
ResolvedAll == {}

-----------------------------------------------------------------------------
(* worthOf: a mutant disabled on a line the branch wrote counts as missed.  *)
WorthOf(status, own) ==
  IF status \in Detected THEN "detected"
  ELSE IF status \in Undetected \/ (status = "Ignored" /\ own) THEN "undetected"
  ELSE "outside"

(* literal, and what the runner resolved: the files it could not find.      *)
UnresolvedIn == {f \in DOMAIN changed : ran.resolves[f] = {}}
Mutated == UNION {ran.resolves[f] : f \in DOMAIN changed}

(* verdict: the report as its mutants graded. *)
GradedAs(ms) == [n \in DOMAIN ms |-> [own |-> InTheChange(ms[n]), worth |-> WorthOf(ms[n].status, InTheChange(ms[n]))]]
Having(ms, worth) == {n \in DOMAIN ms : GradedAs(ms)[n].worth = worth}
Ungraded(ms) == {n \in DOMAIN ms : ms[n].status \in NO_VERDICT /\ ~ms[n].static}
Surviving(ms) == {n \in Having(ms, "undetected") : GradedAs(ms)[n].own}

(* tally, against the floor. *)
UnderFloor(ms) ==
  LET detected == Cardinality(Having(ms, "detected"))
      counted == detected + Cardinality(Having(ms, "undetected"))
  IN  floor # NoFloor /\ 100 * detected < floor * counted

Verdict(ms) ==
  IF Ungraded(ms) # {} THEN "ungraded"
  ELSE IF Having(ms, "detected") \cup Having(ms, "undetected") = {} THEN "held nothing"
  ELSE IF Surviving(ms) # {} \/ UnderFloor(ms) THEN "missed"
  ELSE "clean"

-----------------------------------------------------------------------------

(* domainGlobs, before the base is asked for. *)
Reaches(kind) == \E n \in DOMAIN domain : domain[n] = kind
Declare ==
  /\ verdict = "none" /\ stage = "base"
  /\ verdict' = IF domain = <<>> \/ Reaches("a file") \/ ~Reaches("a folder") THEN "no domain" ELSE "declared"
  /\ UNCHANGED <<domain, installed, floor, ran, report>>

(* branchChange answered. *)
Answered_ ==
  /\ verdict = "declared" /\ stage \in {"settled", "changed"}
  /\ verdict' = IF stage = "changed" THEN (IF installed THEN "running" ELSE "not installed")
                ELSE IF branch.base = "refused" \/ problems > 0 THEN "refused" ELSE "nothing to mutate"
  /\ UNCHANGED <<domain, installed, floor, ran, report>>

(* The runner ends, and what it wrote is read before how it exited.         *)
Run ==
  /\ verdict = "running" /\ ran.status = -1
  /\ ran' \in Runs
  /\ UNCHANGED <<domain, installed, floor, report, verdict>>

Refuse ==
  /\ verdict = "running" /\ ran.status # -1
  /\ \/ UnresolvedIn # {} /\ verdict' = "never reached"
     \/ UnresolvedIn = {} /\ ran.dirty /\ verdict' = "fails unmutated"
     \/ UnresolvedIn = {} /\ ~ran.dirty /\ ran.status # 0 /\ verdict' = "did not finish"
  /\ UNCHANGED <<domain, installed, floor, ran, report>>

(* linesOf refuses a report that names a file the lane did not ask for.     *)
Reports == UNION {[1..n -> {[file |-> f, from |-> m.from, to |-> m.to, status |-> m.status, static |-> m.static] :
                              f \in File, m \in Mutants}] : n \in 0..MaxMutants}
Judge ==
  /\ verdict = "running" /\ ran.status = 0
  /\ UnresolvedIn = {} /\ ~ran.dirty
  /\ \E ms \in Reports :
       /\ report' = ms
       /\ verdict' = IF \E n \in DOMAIN ms : ms[n].file \notin DOMAIN changed THEN "not this run's" ELSE Verdict(ms)
  /\ UNCHANGED <<domain, installed, floor, ran>>

LaneInit ==
  /\ domain \in Domains /\ installed \in BOOLEAN /\ floor \in Floors
  /\ ran = [status |-> -1, dirty |-> FALSE, resolves |-> [f \in File |-> {}]]
  /\ report = <<>> /\ verdict = "none"

Mutate == Declare \/ Answered_ \/ Run \/ Refuse \/ Judge

-----------------------------------------------------------------------------

(* A green verdict means that the pattern of every file the branch wrote in *)
(* reached a file, and that file itself if a pattern can express its name,  *)
(* by a suite that passes unmutated, and that of the mutants on its own     *)
(* lines each that was tried was caught, and none disabled; and where there *)
(* was nothing to mutate, that it wrote nothing (mutationLane's comment,    *)
(* 492-499, worthOf, 94-108, and verdict, 650-664).                         *)
Written_ == {f \in Graded : branch.wrote[f] # {} \/ f \in branch.cut}
GreenMeansGraded ==
  /\ verdict \in {"clean", "held nothing"} =>
       /\ \A f \in Written_ : ran.resolves[f] # {}
       /\ Written_ \cap Expressible \subseteq Mutated
       /\ ~ran.dirty /\ ran.status = 0
       /\ \A n \in DOMAIN report :
            LET m == report[n]
            IN  /\ m.file \in Written_
                /\ m.from..m.to \subseteq branch.wrote[m.file] => m.status \notin Undetected \cup {"Ignored"}
                /\ m.status \in NO_VERDICT => m.static
  /\ verdict = "nothing to mutate" => (branch.base = "none" \/ Written_ = {})
=============================================================================
