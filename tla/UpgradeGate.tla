---------------------------- MODULE UpgradeGate ----------------------------
(***************************************************************************)
(* The database gate's replay of a migration history (replay.ts), with the *)
(* rollback of the author's own files it takes (base-lineage.ts), the      *)
(* databases it makes and drops (database.ts), the fixtures that ride on   *)
(* it (semantic-fixtures.ts), and the backfill check beside it             *)
(* (backfill.ts).  One checkout, one server that outlives the run: a run   *)
(* may be killed anywhere, and the next meets what it left.                *)
(***************************************************************************)
EXTENDS Lineages

CONSTANTS
  Histories,   \* the pairs of a base ref's tree and a branch's
  MaxRuns,     \* how many runs there are
  MaxKills     \* how many of them are killed

(* A tree has so many directories, each with its migrations. *)
IsTree(t) == IsFiniteSet(DOMAIN t) /\ t = [d \in DOMAIN t |-> t[d]]

ASSUME UpgradeAssumption ==
  /\ \A h \in Histories : IsTree(h[1]) /\ IsTree(h[2])
  /\ MaxRuns \in Nat /\ MaxKills \in Nat

VARIABLES
  base,        \* the base ref's tree
  head,        \* the branch's, as committed
  named,       \* the directories the branch's db:migrate names
  tree,        \* what the checkout holds
  found,       \* what it held when the run began
  databases,   \* the databases on the server, by purpose
  pc,
  asks,        \* what the run is asked to prove
  open,        \* the scratch databases it has in hand, inner last
  left,        \* those a run could not drop, and said so, or was killed with
  saved,       \* the copy of the branch's own lineages
  tasks,       \* per lineage, how its replacement goes
  restores,    \* and how its restoring goes
  late,        \* the lineages still being replaced when the restoring began
  outcome,     \* whether what was run on the base lineage failed
  verdict,
  runs,
  kills

params == <<base, head, named>>
files == <<tree, saved, tasks, restores, late>>
run == <<found, asks, open, left, outcome, verdict, runs, kills>>
vars == <<params, files, run, databases, pc>>

Lineage == DOMAIN base
Declared == "declared"

(* What a run is asked for: the replay, with the upgrade path, with the    *)
(* fixtures too, or the fixtures alone, which is half of a pair.           *)
Asks == {"replay", "upgrade", "fixtures", "half"}
Purposes == [replay |-> <<>>, upgrade |-> <<"upgrade">>,
             fixtures |-> <<"upgrade", "fixtures">>, half |-> <<>>, backfill |-> <<"backfill">>]

-----------------------------------------------------------------------------
(* Mistakes: what a step below is easily got wrong as. *)

(* A lineage is put back over what is there. *)
RestoreOver(d) ==
  /\ pc = "restore" /\ restores[d] = "todo"
  /\ restores' = [restores EXCEPT ![d] = "removed"]
  /\ UNCHANGED <<params, tree, saved, tasks, late, run, databases, pc>>

(* The name is taken to be free. *)
DropNothing ==
  /\ pc = "drop"
  /\ open' = Append(open, Purposes[asks][Len(open) + 1])
  /\ pc' = "create"
  /\ UNCHANGED <<params, files, found, asks, left, outcome, verdict, runs, kills, databases>>

-----------------------------------------------------------------------------
(* The steps that are the same wherever they are taken. *)

GoTo(to) == pc' = to /\ UNCHANGED verdict
Say(v) == verdict' = v /\ pc' = "unwind"
Throw == Say("failed")

(* db:migrate against one database, or all of some. *)
MigrateAll(P, to) ==
  IF \A p \in P : p \in DOMAIN databases /\ Applies(databases[p], tree, named)
  THEN /\ databases' = [p \in DOMAIN databases |->
                          IF p \in P THEN Migrated(databases[p], tree, named) ELSE databases[p]]
       /\ GoTo(to)
  ELSE Throw /\ UNCHANGED databases

-----------------------------------------------------------------------------
(* replayGate, up to the base ref's lineages.  The database the job        *)
(* declares is empty when its first step runs.                             *)

Start ==
  /\ pc = "idle" /\ runs < MaxRuns
  /\ runs' = runs + 1
  /\ asks' \in Asks
  /\ found' = tree /\ open' = <<>> /\ outcome' = "none" /\ saved' = <<>> /\ late' = {}
  /\ databases' = With(databases, Declared, Empty)
  /\ IF asks' = "half" THEN pc' = "unwind" /\ verdict' = "refused"
                       ELSE pc' = "fresh" /\ verdict' = "none"
  /\ UNCHANGED <<params, tree, tasks, restores, left, kills>>

(* A directory of fixtures that nobody can grade is refused first. *)
Unreadable ==
  /\ pc = "fresh" /\ asks = "fixtures"
  /\ Say("refused")
  /\ UNCHANGED <<params, files, found, asks, open, left, outcome, runs, kills, databases>>

Fresh ==
  /\ pc = "fresh"
  /\ MigrateAll({Declared}, "again")
  /\ UNCHANGED <<params, files, found, asks, open, left, outcome, runs, kills>>

Again ==
  /\ pc = "again"
  /\ IF Differ(Migrated(databases[Declared], tree, named), databases[Declared]) THEN Say("refused")
     ELSE IF asks = "replay" THEN Say("replayed") ELSE GoTo("base")
  /\ UNCHANGED <<params, files, found, asks, open, left, outcome, runs, kills, databases>>

Base ==
  /\ pc = "base"
  /\ \E rev \in {BaseRevision(co) : co \in Checkout} :
       CASE rev = "refused" -> Throw
         [] rev = "first" -> Say("unproved")
         [] OTHER -> GoTo("lineages")
  /\ UNCHANGED <<params, files, found, asks, open, left, outcome, runs, kills, databases>>

(* baseLineages; a project that was elsewhere at the base ref is refused.  *)
BaseLineages ==
  /\ pc = "lineages"
  /\ \/ Lineage = {} /\ (Say("unproved") \/ Say("refused"))
     \/ Lineage # {} /\ (Unreplayable(base, tree) \/ Moved(base, tree)) /\ Say("refused")
     \/ Lineage # {} /\ ~Unreplayable(base, tree) /\ ~Moved(base, tree) /\ GoTo("drop")
  /\ UNCHANGED <<params, files, found, asks, open, left, outcome, runs, kills, databases>>

-----------------------------------------------------------------------------
(* inScratchDatabase, once or nested. *)

Drop ==
  /\ pc = "drop"
  /\ LET p == Purposes[asks][Len(open) + 1]
     IN  open' = Append(open, p) /\ databases' = Without(databases, {p}) /\ left' = left \ {p}
  /\ pc' = "create"
  /\ UNCHANGED <<params, files, found, asks, outcome, verdict, runs, kills>>

Create ==
  /\ pc = "create"
  /\ IF Last(open) \in DOMAIN databases THEN Say("exists") /\ UNCHANGED databases
     ELSE /\ databases' = With(databases, Last(open), Empty)
          /\ GoTo(IF Len(open) < Len(Purposes[asks]) THEN "drop"
                  ELSE IF asks = "backfill" THEN "build" ELSE "save")
  /\ UNCHANGED <<params, files, found, asks, open, left, outcome, runs, kills>>

(* The server goes away under a statement or a command of the repository's *)
(* own fails.                                                              *)
Fail ==
  /\ pc \in {"fresh", "again", "drop", "create", "save", "upgrade", "grade", "assert",
            "build", "seed", "first", "second"}
  /\ Throw
  /\ open' = IF pc = "drop" THEN Append(open, Purposes[asks][Len(open) + 1]) ELSE open
  /\ UNCHANGED <<params, files, found, asks, left, outcome, runs, kills, databases>>

(* discard, whichever way it went: a drop that fails is a notice. *)
Discard ==
  /\ pc = "unwind" /\ open # <<>>
  /\ databases' \in {databases, Without(databases, {Last(open)})}
  /\ open' = Front(open)
  /\ left' = IF Last(open) \in DOMAIN databases' THEN left \cup {Last(open)} ELSE left
  /\ UNCHANGED <<params, files, found, asks, outcome, verdict, runs, kills, pc>>

-----------------------------------------------------------------------------
(* onTheBaseLineage: every lineage is saved before any is touched; each is *)
(* then replaced, all at once; and each is put back.                       *)

Save ==
  /\ pc = "save"
  /\ saved' = Keep(tree, UNION {Within(d) : d \in Lineage})
  /\ tasks' = [d \in Lineage |-> "todo"] /\ restores' = <<>>
  /\ GoTo("replace")
  /\ UNCHANGED <<params, tree, late, found, asks, open, left, outcome, runs, kills, databases>>

Delete(d) ==
  /\ tasks[d] = "todo"
  /\ tree' = Without(tree, Within(d))
  /\ tasks' = [tasks EXCEPT ![d] = "removed"]
  /\ UNCHANGED <<params, saved, restores, late, run, databases, pc>>

Write(d) ==
  /\ tasks[d] = "removed"
  /\ tree' = With(tree, d, base[d] \cup IF d \in DOMAIN tree THEN tree[d] ELSE {})
  /\ tasks' = [tasks EXCEPT ![d] = "done"]
  /\ UNCHANGED <<params, saved, restores, late, run, databases, pc>>

Breaks(d) ==
  /\ tasks[d] \in {"todo", "removed"}
  /\ tasks' = [tasks EXCEPT ![d] = "failed"]
  /\ UNCHANGED <<params, tree, saved, restores, late, run, databases, pc>>

(* Promise.all throws at the first failure, and waits for no other: what   *)
(* is still under way goes on, beside the restoring and after it.          *)
Replaced ==
  /\ pc = "replace"
  /\ \/ (\E d \in Lineage : tasks[d] = "failed") /\ outcome' = "failed" /\ pc' = "restore"
     \/ (\A d \in Lineage : tasks[d] = "done") /\ outcome' = "none" /\ pc' = "body"
  /\ restores' = [d \in Lineage |-> "todo"]
  /\ late' = {d \in Lineage : tasks[d] \in {"todo", "removed"}}
  /\ UNCHANGED <<params, tree, saved, tasks, found, asks, open, left, verdict, runs, kills, databases>>

(* bothHalves, on the base lineage: into each database in hand. *)
Body ==
  /\ pc = "body"
  /\ \/ /\ \A p \in ToSet(open) : Applies(databases[p], tree, named)
        /\ databases' = [p \in DOMAIN databases |->
                           IF p \in ToSet(open) THEN Migrated(databases[p], tree, named) ELSE databases[p]]
        /\ outcome' = "ran"
     \/ outcome' = "failed" /\ UNCHANGED databases
  /\ pc' = "restore"
  /\ UNCHANGED <<params, files, found, asks, open, left, verdict, runs, kills>>

RestoreDelete(d) ==
  /\ pc = "restore" /\ restores[d] = "todo"
  /\ tree' = Without(tree, Within(d))
  /\ restores' = [restores EXCEPT ![d] = "removed"]
  /\ UNCHANGED <<params, saved, tasks, late, run, databases, pc>>

RestoreCopy(d) ==
  /\ pc = "restore" /\ restores[d] = "removed"
  /\ tree' = [e \in DOMAIN tree \cup (DOMAIN saved \cap Within(d)) |->
                (IF e \in DOMAIN tree THEN tree[e] ELSE {}) \cup
                (IF e \in DOMAIN saved \cap Within(d) THEN saved[e] ELSE {})]
  /\ restores' = [restores EXCEPT ![d] = "done"]
  /\ UNCHANGED <<params, saved, tasks, late, run, databases, pc>>

RestoreFails(d) ==
  /\ pc = "restore" /\ restores[d] \in {"todo", "removed"}
  /\ restores' = [restores EXCEPT ![d] = "failed"]
  /\ UNCHANGED <<params, tree, saved, tasks, late, run, databases, pc>>

(* A lineage that could not be put back keeps the copy, and is said first. *)
Restored ==
  /\ pc = "restore"
  /\ \A d \in Lineage : restores[d] \in {"done", "failed"}
  /\ IF \E d \in Lineage : restores[d] = "failed" THEN Say("unrestored") /\ UNCHANGED saved
     ELSE /\ saved' = <<>>
          /\ IF outcome = "failed" THEN Throw ELSE GoTo("judge")
  /\ UNCHANGED <<params, tree, tasks, restores, late, found, asks, open, left, outcome, runs, kills, databases>>

-----------------------------------------------------------------------------
(* The rest of replayGate: what the base phase applied is read back, and   *)
(* the branch's migrations go over it.                                     *)

Judge ==
  /\ pc = "judge"
  /\ LET journals == databases["upgrade"].journals
     IN  \E asked \in SetToSeqs(Lineage), order \in SetToSeqs(DOMAIN journals) :
           IF UnaccountedFor(<<asked, base>>, journals, order) # {} THEN Say("refused") ELSE GoTo("upgrade")
  /\ UNCHANGED <<params, files, found, asks, open, left, outcome, runs, kills, databases>>

Upgrade ==
  /\ pc = "upgrade"
  /\ MigrateAll({"upgrade"}, IF asks = "fixtures" THEN "grade" ELSE "compare")
  /\ UNCHANGED <<params, files, found, asks, open, left, outcome, runs, kills>>

(* gradeFixtures: the fixtures' rows go in, in order, until one does not    *)
(* apply or wrote nothing; the branch's migrations go over them; and every *)
(* assertion is asked, read-only.  Whatever is wrong is its verdict, which *)
(* goes beside the other.                                                  *)
Beside(v) == outcome' = v /\ GoTo("compare") /\ UNCHANGED databases

WriteRows ==
  /\ pc = "grade"
  /\ \/ /\ databases' = [databases EXCEPT !["fixtures"].rows = TRUE]
        /\ UNCHANGED outcome /\ GoTo("over")
     \/ Beside("violated")
  /\ UNCHANGED <<params, files, found, asks, open, left, runs, kills>>

MigrateRows ==
  /\ pc = "over"
  /\ \/ /\ Applies(databases["fixtures"], tree, named)
        /\ databases' = [databases EXCEPT !["fixtures"] = Migrated(@, tree, named)]
        /\ UNCHANGED outcome /\ GoTo("assert")
     \/ Beside("violated")
  /\ UNCHANGED <<params, files, found, asks, open, left, runs, kills>>

Graded ==
  /\ pc = "assert"
  /\ Beside("graded") \/ Beside("violated")
  /\ UNCHANGED <<params, files, found, asks, open, left, runs, kills>>

Compare ==
  /\ pc = "compare"
  /\ Say(IF ~Differ(databases["upgrade"], databases[Declared]) /\ outcome # "violated"
         THEN "passed" ELSE "refused")
  /\ UNCHANGED <<params, files, found, asks, open, left, outcome, runs, kills, databases>>

-----------------------------------------------------------------------------
(* The step ends, or the backfill check follows one that passed.  Writes   *)
(* that were under way go on until they have ended.                        *)

Settled == \A d \in DOMAIN tasks : tasks[d] \in {"done", "failed"}

End ==
  /\ pc = "unwind" /\ open = <<>> /\ Settled
  /\ \/ pc' = "idle" /\ UNCHANGED <<asks, outcome>>
     \/ /\ verdict \in {"replayed", "unproved", "passed"} /\ asks # "backfill"
        /\ asks' = "backfill" /\ outcome' = "none" /\ pc' = "drop"
  /\ UNCHANGED <<params, files, found, open, left, verdict, runs, kills, databases>>

Build ==
  /\ pc = "build"
  /\ MigrateAll({"backfill"}, "seed")
  /\ UNCHANGED <<params, files, found, asks, open, left, outcome, runs, kills>>

Seed ==
  /\ pc = "seed"
  /\ \/ databases' = [databases EXCEPT !["backfill"].rows = TRUE] /\ GoTo("first")
     \/ Say("refused") /\ UNCHANGED databases
  /\ UNCHANGED <<params, files, found, asks, open, left, outcome, runs, kills>>

Backfill ==
  /\ pc \in {"first", "second"}
  /\ \/ pc = "first" /\ GoTo("second")
     \/ pc = "second" /\ (Say("passed") \/ Say("refused"))
  /\ UNCHANGED <<params, files, found, asks, open, left, outcome, runs, kills, databases>>

-----------------------------------------------------------------------------
(* Around the runs. *)

Kill ==
  /\ pc # "idle" /\ kills < MaxKills
  /\ kills' = kills + 1
  /\ pc' = "idle" /\ verdict' = "killed" /\ open' = <<>> /\ outcome' = "none" /\ saved' = <<>>
  /\ tasks' = <<>> /\ restores' = <<>> /\ late' = {}
  /\ left' = DOMAIN databases \ {Declared}
  /\ UNCHANGED <<params, tree, found, asks, runs, databases>>

(* The author puts the branch's own files back. *)
CheckOut ==
  /\ pc = "idle" /\ tree # head
  /\ tree' = head
  /\ verdict' = "none"
  /\ UNCHANGED <<params, saved, tasks, restores, late, found, asks, open, left, outcome, runs, kills, databases, pc>>

Init ==
  /\ \E h \in Histories : base = h[1] /\ head = h[2] /\ named \in SUBSET DOMAIN h[2] /\ named # {}
  /\ tree = head /\ found = head
  /\ databases = <<>>
  /\ pc = "idle" /\ asks = "replay" /\ open = <<>> /\ left = {} /\ saved = <<>> /\ tasks = <<>> /\ restores = <<>>
  /\ late = {} /\ outcome = "none" /\ verdict = "none" /\ runs = 0 /\ kills = 0

Finished == pc = "idle" /\ runs = MaxRuns /\ UNCHANGED vars

Replace == \E d \in DOMAIN tasks : Delete(d) \/ Write(d) \/ Breaks(d)
Restore == \E d \in DOMAIN restores : RestoreDelete(d) \/ RestoreCopy(d) \/ RestoreFails(d)

Next ==
  \/ Start \/ Unreadable \/ Fresh \/ Again \/ Base \/ BaseLineages
  \/ Drop \/ Create \/ Fail \/ Discard
  \/ Save \/ Replace \/ Replaced \/ Body \/ Restore \/ Restored
  \/ Judge \/ Upgrade \/ WriteRows \/ MigrateRows \/ Graded \/ Compare
  \/ End \/ Build \/ Seed \/ Backfill
  \/ Kill \/ CheckOut \/ Finished

Spec == Init /\ [][Next]_vars

-----------------------------------------------------------------------------
(* What the gate is for, and what it may not cost. *)

TypeOK ==
  /\ DOMAIN databases \subseteq {Declared, "upgrade", "fixtures", "backfill"}
  /\ ToSet(open) \cup left \subseteq {"upgrade", "fixtures", "backfill"}
  /\ DOMAIN tasks \in {{}, Lineage} /\ DOMAIN restores \in {{}, Lineage}
  /\ asks \in Asks \cup {"backfill"} /\ outcome \in {"none", "ran", "failed", "graded", "violated"}

(* The tree is "exactly as it found it afterwards" (base-lineage.ts), for  *)
(* whatever reason the run ends, but for two: a lineage that could not be  *)
(* put back, which is said, and of which the copy stays; and, where a      *)
(* replacement failed, one of another lineage that was still under way,    *)
(* which may go on to write over what was put back.                        *)
AsFound(d) ==
  /\ d \in DOMAIN tree <=> d \in DOMAIN found
  /\ d \in DOMAIN found => tree[d] = found[d]
Overtaken == UNION {Within(d) : d \in late}
TreeComesBack ==
  pc = "idle" /\ verdict \notin {"killed", "none"} =>
    IF verdict = "unrestored"
    THEN \A d \in DOMAIN found : AsFound(d) \/ (d \in DOMAIN saved /\ saved[d] = found[d])
    ELSE \A d \in DOMAIN tree \cup DOMAIN found :
           AsFound(d) \/ (verdict = "failed" /\ d \in Overtaken)

(* "A deployed database reaches this schema" (replay.ts): where the gate   *)
(* says so, a database the base ref's lineages built takes the branch's    *)
(* migrations, and has the schema the branch builds from empty.            *)
Deployed == Migrated(Empty, base, Lineage)
PassConverges ==
  /\ pc = "unwind" /\ asks \in {"upgrade", "fixtures"} /\ verdict = "passed"
  /\ Applies(Empty, base, Lineage)
  => /\ Applies(Deployed, tree, named)
     /\ Migrated(Deployed, tree, named).schema = Migrated(Empty, tree, named).schema

(* "Reclaimed rather than leaked" (database.ts): a run is never refused    *)
(* the name of a database an earlier one left, and what is left when one   *)
(* ends is what it said it could not drop, or a killed run had.            *)
ScratchIsReclaimed ==
  /\ verdict # "exists"
  /\ pc = "idle" => DOMAIN databases \ {Declared} \subseteq left
=============================================================================
