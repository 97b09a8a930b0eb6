------------------------------ MODULE Lineages ------------------------------
(***************************************************************************)
(* What the upgrade gate of .github/actions/db-gate computes: a project's  *)
(* migrations, what the repository's migrator makes of them on a database, *)
(* and which of them a database's journals can account for.                *)
(*                                                                         *)
(* A migration is when it was written, which is what the migrator keys it  *)
(* on, and what it does, which the schema has afterwards; a lineage is the *)
(* set of its migrations, and a tree holds a lineage per directory.  A     *)
(* database holds a schema and a journal table per lineage.                *)
(***************************************************************************)
EXTENDS Integers, Sequences, FiniteSets, FiniteSetsExt, SequencesExt

CONSTANTS
  Inside       \* which directory is inside which, as pairs

(* The directories of a tree, and what goes when one is deleted. *)
Within(d) == {d} \cup {i \in {p[1] : p \in Inside} : <<i, d>> \in Inside}
Keep(tree, D) == [d \in DOMAIN tree \cap D |-> tree[d]]
Without(tree, D) == [d \in DOMAIN tree \ D |-> tree[d]]
With(tree, d, is) == [e \in DOMAIN tree \cup {d} |-> IF e = d THEN is ELSE tree[e]]

Empty == [schema |-> {}, journals |-> <<>>, rows |-> FALSE]
Clocks(lineage) == {m.when : m \in lineage}

-----------------------------------------------------------------------------
(* The repository's migrator: what is newer than all a journal records is  *)
(* run, and recorded.  What is done already cannot be done again, and a    *)
(* directory it names has to be there.                                     *)

Journal(db, d) == IF d \in DOMAIN db.journals THEN db.journals[d] ELSE {}
Due(db, tree, d) == {m \in tree[d] : \A clock \in Journal(db, d) : m.when > clock}

Applies(db, tree, named) ==
  /\ named \subseteq DOMAIN tree
  /\ LET due == UNION {{<<d, m>> : m \in Due(db, tree, d)} : d \in named}
     IN  \A p, q \in due : p[2].what \notin db.schema /\ (p[2].what = q[2].what => p = q)

Migrated(db, tree, named) ==
  [db EXCEPT !.schema = @ \cup UNION {{m.what : m \in Due(db, tree, d)} : d \in named},
             !.journals = [d \in DOMAIN @ \cup named |->
                             IF d \in named THEN Journal(db, d) \cup Clocks(Due(db, tree, d)) ELSE @[d]]]

(* The schemas pg_dump reports, compared; every line of a dump counts, and  *)
(* its order.                                                              *)
SchemaOf(db) == db.schema
Differ(one, other) == SchemaOf(one) # SchemaOf(other)

-----------------------------------------------------------------------------
(* Mistakes: what a definition below is easily got wrong as. *)

(* One set of all the journals' clocks answers for every lineage. *)
UnaccountedForMerged(asked, journals, order) ==
  {d \in ToSet(asked[1]) : ~(Clocks(asked[2][d]) \subseteq UNION {journals[t] : t \in DOMAIN journals})}

-----------------------------------------------------------------------------

(* The lineages no journal can account for.  A journal is spent on one     *)
(* lineage, the first it is exactly the record of, or else contains.       *)
UnaccountedFor(asked, journals, order) ==
  LET carried == SelectSeq(asked[1], LAMBDA d : asked[2][d] # {})
      Spend(spent, d, exactly) ==
        LET clocks == Clocks(asked[2][d])
            fits == {i \in DOMAIN order :
                       /\ \A e \in DOMAIN spent : spent[e] # i
                       /\ clocks \subseteq journals[order[i]]
                       /\ exactly => clocks = journals[order[i]]}
        IN  IF d \in DOMAIN spent \/ fits = {} THEN spent ELSE With(spent, d, Min(fits))
      exact == FoldLeft(LAMBDA spent, d : Spend(spent, d, TRUE), <<>>, carried)
      all == FoldLeft(LAMBDA spent, d : Spend(spent, d, FALSE), exact, carried)
  IN  ToSet(carried) \ DOMAIN all

(* The shapes the gate does not replay: a lineage inside another, of which *)
(* one is the base ref's.                                                  *)
Unreplayable(base, tree) ==
  \E p \in Inside :
    /\ {p[1], p[2]} \subseteq DOMAIN base \cup DOMAIN tree
    /\ {p[1], p[2]} \cap DOMAIN base # {}

(* A lineage the base ref carries has to be where it was. *)
Moved(base, tree) == DOMAIN base \ DOMAIN tree # {}

(* baseRevision: the commit a branch is compared with, if the checkout can *)
(* say.  A ref is named and there, named and not, or not named.            *)
Checkout == [readable : BOOLEAN, shallow : BOOLEAN,
             baseRef : {"named", "missing", "none"}, before : {"named", "missing", "none"},
             parent : BOOLEAN]

BaseRevision(co) ==
  IF ~co.readable \/ co.shallow THEN "refused"
  ELSE IF co.baseRef # "none" THEN IF co.baseRef = "named" THEN "mergeBase" ELSE "refused"
  ELSE IF co.before = "named" THEN "before"
  ELSE IF co.parent THEN "parent" ELSE "first"
=============================================================================
