-------------------------- MODULE UpgradeGateProofs --------------------------
(***************************************************************************)
(* Theorems about the database gate's replay: the types of its state, that *)
(* no scratch database is leaked, and that the checkout comes back as it   *)
(* was found.                                                              *)
(***************************************************************************)
EXTENDS UpgradeGate, FiniteSetTheorems, TLAPS

(* The databases a run makes for itself, and the sequence of those in hand. *)
Scratch == {"upgrade", "fixtures", "backfill"}

LEMMA Appended ==
  ASSUME NEW S, NEW s \in Seq(S), NEW x \in S
  PROVE  /\ Append(s, x) \in Seq(S)
         /\ ToSet(Append(s, x)) = ToSet(s) \cup {x}
         /\ Append(s, x) # <<>> /\ Last(Append(s, x)) = x
<1>1. Append(s, x) \in Seq(S) /\ Len(Append(s, x)) = Len(s) + 1 /\ Len(s) \in Nat
  OBVIOUS
<1>2. DOMAIN Append(s, x) = 1 .. (Len(s) + 1) /\ DOMAIN s = 1 .. Len(s)
  BY <1>1
<1>3. Append(s, x)[Len(s) + 1] = x /\ \A i \in DOMAIN s : Append(s, x)[i] = s[i]
  BY <1>2
<1>4. Len(s) + 1 \in DOMAIN Append(s, x) /\ DOMAIN s \subseteq DOMAIN Append(s, x)
      /\ \A i \in DOMAIN Append(s, x) : i = Len(s) + 1 \/ i \in DOMAIN s
  BY <1>1, <1>2
<1>5. ToSet(Append(s, x)) = ToSet(s) \cup {x}
  BY <1>3, <1>4 DEF ToSet
<1>6. Last(Append(s, x)) = x /\ Append(s, x) # <<>>
  BY <1>1, <1>3 DEF Last
<1>7. QED
  BY <1>1, <1>5, <1>6

LEMMA FrontLast ==
  ASSUME NEW S, NEW s \in Seq(S), s # <<>>
  PROVE  /\ Front(s) \in Seq(S) /\ Last(s) \in S
         /\ ToSet(s) = ToSet(Front(s)) \cup {Last(s)}
<1>1. Len(s) \in Nat /\ Len(s) > 0 /\ DOMAIN s = 1 .. Len(s)
  OBVIOUS
<1>2. Front(s) = [i \in 1 .. (Len(s) - 1) |-> s[i]]
  BY <1>1 DEF Front
<1>3. Front(s) \in Seq(S)
  BY <1>1, <1>2
<1>4. DOMAIN Front(s) = 1 .. (Len(s) - 1)
  BY <1>2
<1>5. Last(s) = s[Len(s)]
  BY DEF Last
<1>6. Last(s) \in S
  BY <1>1, <1>5
<1>7. \A i \in DOMAIN s : i = Len(s) \/ (i \in DOMAIN Front(s) /\ Front(s)[i] = s[i])
  BY <1>1, <1>2, <1>4
<1>8. \A i \in DOMAIN Front(s) : i \in DOMAIN s /\ Front(s)[i] = s[i]
  BY <1>1, <1>2, <1>4
<1>9. Len(s) \in DOMAIN s
  BY <1>1
<1>10. QED
  BY <1>3, <1>5, <1>6, <1>7, <1>8, <1>9 DEF ToSet

LEMMA NothingInHand == ToSet(<<>>) = {} /\ \A S : <<>> \in Seq(S)
  BY DEF ToSet

HandIsTyped == open \in Seq(Scratch)
HandHoldsThem == DOMAIN databases \ {Declared} \subseteq left \cup ToSet(open)
HandIsEmpty == pc \in {"idle", "fresh", "again", "base", "lineages"} => open = <<>>
NameIsFree == pc = "create" => open # <<>> /\ Last(open) \notin DOMAIN databases
NeverRefused == verdict # "exists"
AsksSoFar ==
  /\ pc \in {"fresh", "again"} => asks \in {"replay", "upgrade", "fixtures"}
  /\ pc \in {"base", "lineages"} => asks \in {"upgrade", "fixtures"}
  /\ pc \in {"drop", "create"} => asks \in {"upgrade", "fixtures", "backfill"}
MoreToOpen == pc = "drop" => Len(open) < Len(Purposes[asks])

InHand ==
  /\ TypeOK
  /\ HandIsTyped /\ HandHoldsThem /\ HandIsEmpty /\ NameIsFree /\ NeverRefused /\ AsksSoFar
     /\ MoreToOpen

LEMMA InHandInit == Init => InHand
<1> SUFFICES ASSUME Init PROVE InHand
  OBVIOUS
<1>1. databases = <<>> /\ open = <<>> /\ left = {} /\ tasks = <<>> /\ restores = <<>>
      /\ pc = "idle" /\ verdict = "none" /\ asks = "replay" /\ outcome = "none"
  BY DEF Init
<1>2. DOMAIN databases = {} /\ DOMAIN tasks = {} /\ DOMAIN restores = {} /\ ToSet(open) = {}
  BY <1>1, NothingInHand
<1>3. TypeOK
  BY <1>1, <1>2 DEF TypeOK, Asks
<1>4. HandIsTyped
  BY <1>1, NothingInHand DEF HandIsTyped
<1>5. QED
  BY <1>1, <1>2, <1>3, <1>4
  DEF InHand, HandHoldsThem, HandIsEmpty, NameIsFree, NeverRefused, AsksSoFar, MoreToOpen

(* The parts of a step that keep what is in hand. *)
LEMMA Retyped ==
  ASSUME TypeOK,
         DOMAIN databases' \subseteq {Declared} \cup Scratch, ToSet(open') \cup left' \subseteq Scratch,
         DOMAIN tasks' \in {{}, Lineage}, DOMAIN restores' \in {{}, Lineage},
         asks' \in Asks \cup {"backfill"}, outcome' \in {"none", "ran", "failed", "graded", "violated"},
         UNCHANGED base
  PROVE  TypeOK'
  BY DEF TypeOK, Scratch, Lineage

(* A step that opens nothing and makes and drops no database. *)
LEMMA HandKept ==
  ASSUME InHand, UNCHANGED <<open, left, asks, base>>, DOMAIN databases' = DOMAIN databases,
         DOMAIN tasks' \in {{}, Lineage}, DOMAIN restores' \in {{}, Lineage},
         outcome' \in {"none", "ran", "failed", "graded", "violated"},
         verdict' # "exists",
         pc' \notin {"idle", "fresh", "again", "base", "lineages", "drop", "create"}
  PROVE  InHand'
<1>1. TypeOK'
  BY Retyped DEF InHand, TypeOK, Scratch
<1>2. QED
  BY <1>1
  DEF InHand, HandIsTyped, HandHoldsThem, HandIsEmpty, NameIsFree, NeverRefused, AsksSoFar, MoreToOpen

LEMMA MigratesOnly ==
  ASSUME NEW P, NEW to, MigrateAll(P, to)
  PROVE  /\ DOMAIN databases' = DOMAIN databases
         /\ (pc' = to /\ verdict' = verdict) \/ (pc' = "unwind" /\ verdict' = "failed")
  BY DEF MigrateAll, GoTo, Throw, Say

LEMMA InHandNext == InHand /\ [Next]_vars => InHand'
<1> SUFFICES ASSUME InHand, [Next]_vars PROVE InHand'
  OBVIOUS
<1>o. /\ TypeOK /\ open \in Seq(Scratch)
      /\ DOMAIN tasks \in {{}, Lineage} /\ DOMAIN restores \in {{}, Lineage}
      /\ outcome \in {"none", "ran", "failed", "graded", "violated"}
      /\ asks \in Asks \cup {"backfill"}
      /\ DOMAIN databases \subseteq {Declared} \cup Scratch
      /\ ToSet(open) \cup left \subseteq Scratch
  BY DEF InHand, TypeOK, HandIsTyped, Scratch
<1>i. /\ DOMAIN databases \ {Declared} \subseteq left \cup ToSet(open)
      /\ pc \in {"idle", "fresh", "again", "base", "lineages"} => open = <<>>
      /\ pc = "create" => open # <<>> /\ Last(open) \notin DOMAIN databases
      /\ verdict # "exists"
      /\ pc \in {"fresh", "again"} => asks \in {"replay", "upgrade", "fixtures"}
      /\ pc \in {"base", "lineages"} => asks \in {"upgrade", "fixtures"}
      /\ pc \in {"drop", "create"} => asks \in {"upgrade", "fixtures", "backfill"}
      /\ pc = "drop" => Len(open) < Len(Purposes[asks])
  BY DEF InHand, HandHoldsThem, HandIsEmpty, NameIsFree, NeverRefused, AsksSoFar, MoreToOpen
<1>e. ToSet(<<>>) = {} /\ <<>> \in Seq(Scratch) /\ Len(<<>>) = 0
  BY NothingInHand
<1>w. \A d : DOMAIN With(databases, d, Empty) = DOMAIN databases \cup {d}
  BY DEF With
<1>wo. \A D : DOMAIN Without(databases, D) = DOMAIN databases \ D
  BY DEF Without
<1>p. /\ \A q \in {"upgrade", "fixtures", "backfill"} : 0 < Len(Purposes[q])
      /\ \A q \in {"upgrade", "fixtures", "backfill"} : \A i \in 1 .. Len(Purposes[q]) : Purposes[q][i] \in Scratch
  BY DEF Purposes, Scratch
<1>q. pc = "drop" =>
        /\ Purposes[asks][Len(open) + 1] \in Scratch
  <2>1. Len(open) \in Nat
    BY <1>o
  <2>2. pc = "drop" => Len(open) + 1 \in 1 .. Len(Purposes[asks])
    BY <2>1, <1>i, <1>p
  <2>3. QED
    BY <2>2, <1>i, <1>p
<1>1. CASE Start
  <2>1. UNCHANGED <<base, tasks, restores, left>> /\ open' = <<>> /\ outcome' = "none" /\ asks' \in Asks
        /\ databases' = With(databases, Declared, Empty) /\ pc = "idle"
        /\ ((pc' = "unwind" /\ verdict' = "refused") \/ (asks' # "half" /\ pc' = "fresh" /\ verdict' = "none"))
    BY <1>1 DEF Start, params
  <2>2. DOMAIN databases' = DOMAIN databases \cup {Declared}
    BY <2>1, <1>w
  <2>3. TypeOK'
    BY <2>1, <2>2, <1>o, <1>e, Retyped
  <2>4. QED
    BY <2>1, <2>2, <2>3, <1>i, <1>e DEF InHand, HandIsTyped, HandHoldsThem, HandIsEmpty, NameIsFree,
       NeverRefused, AsksSoFar, MoreToOpen, Asks
<1>2. CASE Unreadable
  BY <1>2, <1>o, HandKept DEF Unreadable, Say, params, files
<1>3. CASE Fresh
  <2>1. UNCHANGED <<base, tasks, restores, left, open, asks, outcome>> /\ pc = "fresh"
        /\ MigrateAll({Declared}, "again")
    BY <1>3 DEF Fresh, params, files
  <2>2. DOMAIN databases' = DOMAIN databases /\ pc' \in {"again", "unwind"} /\ verdict' # "exists"
    BY <2>1, <1>i, MigratesOnly
  <2>3. TypeOK'
    BY <2>1, <2>2, <1>o, <1>e, Retyped
  <2>4. QED
    BY <2>1, <2>2, <2>3, <1>i, <1>o
    DEF InHand, HandIsTyped, HandHoldsThem, HandIsEmpty, NameIsFree, NeverRefused, AsksSoFar, MoreToOpen
<1>4. CASE Again
  <2>1. UNCHANGED <<base, tasks, restores, left, open, asks, outcome, databases>> /\ pc = "again"
    BY <1>4 DEF Again, params, files
  <2>2. pc' = "unwind" \/ (pc' = "base" /\ asks # "replay")
    BY <1>4 DEF Again, Say, GoTo
  <2>3. verdict' # "exists"
    BY <1>4, <1>i DEF Again, Say, GoTo
  <2>4. TypeOK'
    BY <2>1, <1>o, <1>e, Retyped
  <2>5. QED
    BY <2>1, <2>2, <2>3, <2>4, <1>i, <1>o
    DEF InHand, HandIsTyped, HandHoldsThem, HandIsEmpty, NameIsFree, NeverRefused, AsksSoFar, MoreToOpen
<1>5. CASE Base \/ BaseLineages
  <2>1. UNCHANGED <<base, tasks, restores, left, open, asks, outcome, databases>>
        /\ pc \in {"base", "lineages"}
    BY <1>5 DEF Base, BaseLineages, params, files
  <2>2. pc' \in {"unwind", "lineages", "drop"} /\ verdict' # "exists" /\ open = <<>>
        /\ asks \in {"upgrade", "fixtures"}
    BY <1>5, <1>i DEF Base, BaseLineages, Say, GoTo, Throw
  <2>3. TypeOK'
    BY <2>1, <1>o, <1>e, Retyped
  <2>4. QED
    BY <2>1, <2>2, <2>3, <1>i, <1>o, <1>e, <1>p
    DEF InHand, HandIsTyped, HandHoldsThem, HandIsEmpty, NameIsFree, NeverRefused, AsksSoFar, MoreToOpen
<1>6. CASE Drop
  <2> DEFINE p == Purposes[asks][Len(open) + 1]
  <2>1. UNCHANGED <<base, tasks, restores, asks, outcome, verdict>> /\ pc = "drop" /\ pc' = "create"
        /\ open' = Append(open, p) /\ databases' = Without(databases, {p}) /\ left' = left \ {p}
    BY <1>6 DEF Drop, params, files
  <2>2. p \in Scratch
    BY <2>1, <1>q
  <2> HIDE DEF p
  <2>3. /\ Append(open, p) \in Seq(Scratch)
        /\ ToSet(Append(open, p)) = ToSet(open) \cup {p}
        /\ Append(open, p) # <<>> /\ Last(Append(open, p)) = p
    BY <2>2, <1>o, Appended
  <2>4. DOMAIN databases' = DOMAIN databases \ {p}
    BY <2>1, <1>wo
  <2>5. TypeOK'
    BY <2>1, <2>2, <2>3, <2>4, <1>o, Retyped
  <2>6. QED
    BY <2>1, <2>3, <2>4, <2>5, <1>i
    DEF InHand, HandIsTyped, HandHoldsThem, HandIsEmpty, NameIsFree, NeverRefused, AsksSoFar, MoreToOpen
<1>7. CASE Create
  <2>1. UNCHANGED <<base, tasks, restores, asks, outcome, left, open>> /\ pc = "create"
    BY <1>7 DEF Create, params, files
  <2>2. Last(open) \notin DOMAIN databases /\ open # <<>>
    BY <2>1, <1>i
  <2>3. /\ databases' = With(databases, Last(open), Empty) /\ verdict' = verdict
        /\ pc' = IF Len(open) < Len(Purposes[asks]) THEN "drop" ELSE IF asks = "backfill" THEN "build" ELSE "save"
    BY <1>7, <2>2 DEF Create, GoTo
  <2>4. DOMAIN databases' = DOMAIN databases \cup {Last(open)}
    BY <2>3, <1>w
  <2>5. Last(open) \in Scratch /\ Last(open) \in ToSet(open)
    BY <2>2, <1>o, FrontLast
  <2>6. TypeOK'
    BY <2>1, <2>4, <2>5, <1>o, Retyped
  <2>7. QED
    BY <2>1, <2>3, <2>4, <2>5, <2>6, <1>i, <1>o
    DEF InHand, HandIsTyped, HandHoldsThem, HandIsEmpty, NameIsFree, NeverRefused, AsksSoFar, MoreToOpen
<1>8. CASE Fail
  <2>1. UNCHANGED <<base, tasks, restores, asks, outcome, left, databases>> /\ pc' = "unwind"
        /\ verdict' = "failed"
        /\ open' = IF pc = "drop" THEN Append(open, Purposes[asks][Len(open) + 1]) ELSE open
    BY <1>8 DEF Fail, params, files, Throw, Say
  <2>2. /\ open' \in Seq(Scratch)
        /\ ToSet(open) \subseteq ToSet(open') /\ ToSet(open') \subseteq ToSet(open) \cup Scratch
    BY <2>1, <1>q, <1>o, Appended
  <2>3. TypeOK'
    BY <2>1, <2>2, <1>o, Retyped
  <2>4. QED
    BY <2>1, <2>2, <2>3, <1>i
    DEF InHand, HandIsTyped, HandHoldsThem, HandIsEmpty, NameIsFree, NeverRefused, AsksSoFar, MoreToOpen
<1>9. CASE Discard
  <2>1. UNCHANGED <<base, tasks, restores, asks, outcome, verdict, pc>> /\ pc = "unwind" /\ open # <<>>
        /\ databases' \in {databases, Without(databases, {Last(open)})}
        /\ open' = Front(open)
        /\ left' = IF Last(open) \in DOMAIN databases' THEN left \cup {Last(open)} ELSE left
    BY <1>9 DEF Discard, params, files
  <2>2. /\ Front(open) \in Seq(Scratch) /\ Last(open) \in Scratch
        /\ ToSet(open) = ToSet(Front(open)) \cup {Last(open)}
    BY <2>1, <1>o, FrontLast
  <2>3. DOMAIN databases' \in {DOMAIN databases, DOMAIN databases \ {Last(open)}}
    BY <2>1, <1>wo
  <2>4. TypeOK'
    BY <2>1, <2>2, <2>3, <1>o, Retyped
  <2>5. HandHoldsThem'
    BY <2>1, <2>2, <2>3, <1>i DEF HandHoldsThem
  <2>6. QED
    BY <2>1, <2>2, <2>4, <2>5, <1>i
    DEF InHand, HandIsTyped, HandIsEmpty, NameIsFree, NeverRefused, AsksSoFar, MoreToOpen
<1>10. CASE Save
  <2>1. DOMAIN tasks' = Lineage /\ DOMAIN restores' = {} 
    BY <1>10 DEF Save
  <2>2. QED
    BY <1>10, <2>1, <1>o, <1>i, HandKept DEF Save, params, GoTo
<1>11. CASE Replace \/ Restore
  <2>1. DOMAIN tasks' = DOMAIN tasks /\ DOMAIN restores' = DOMAIN restores
    BY <1>11 DEF Replace, Restore, Delete, Write, Breaks, RestoreDelete, RestoreCopy, RestoreFails
  <2>2. UNCHANGED <<open, left, asks, base, databases, outcome, verdict, pc>>
    BY <1>11
    DEF Replace, Restore, Delete, Write, Breaks, RestoreDelete, RestoreCopy, RestoreFails, params, run
  <2>3. TypeOK'
    BY <2>1, <2>2, <1>o, Retyped
  <2>4. QED
    BY <2>2, <2>3, <1>o, <1>i
    DEF InHand, HandIsTyped, HandHoldsThem, HandIsEmpty, NameIsFree, NeverRefused, AsksSoFar, MoreToOpen
<1>12. CASE Replaced
  <2>1. DOMAIN restores' = Lineage
    BY <1>12 DEF Replaced
  <2>2. QED
    BY <1>12, <2>1, <1>o, <1>i, HandKept DEF Replaced, params
<1>13. CASE Body
  <2>1. DOMAIN databases' = DOMAIN databases
    BY <1>13 DEF Body
  <2>2. QED
    BY <1>13, <2>1, <1>o, <1>i, HandKept DEF Body, params, files
<1>14. CASE Restored
  BY <1>14, <1>o, <1>i, HandKept DEF Restored, params, Say, Throw, GoTo
<1>15. CASE Judge
  BY <1>15, <1>o, <1>i, HandKept DEF Judge, params, files, Say, GoTo
<1>16. CASE Upgrade
  <2>1. UNCHANGED <<base, tasks, restores, left, open, asks, outcome>>
        /\ MigrateAll({"upgrade"}, IF asks = "fixtures" THEN "grade" ELSE "compare")
    BY <1>16 DEF Upgrade, params, files
  <2>2. DOMAIN databases' = DOMAIN databases /\ pc' \in {"grade", "compare", "unwind"}
        /\ verdict' # "exists"
    BY <2>1, <1>i, MigratesOnly
  <2>3. QED
    BY <2>1, <2>2, <1>o, HandKept
<1>17. CASE WriteRows \/ MigrateRows \/ Graded
  <2>1. DOMAIN databases' = DOMAIN databases
    BY <1>17 DEF WriteRows, MigrateRows, Graded, Beside, GoTo
  <2>2. UNCHANGED <<base, tasks, restores, left, open, asks, verdict>>
        /\ pc' \in {"over", "assert", "compare"}
        /\ outcome' \in {outcome, "violated", "graded"}
    BY <1>17 DEF WriteRows, MigrateRows, Graded, Beside, GoTo, params, files
  <2>3. QED
    BY <2>1, <2>2, <1>o, <1>i, HandKept
<1>18. CASE Compare
  BY <1>18, <1>o, HandKept DEF Compare, params, files, Say
<1>19. CASE End
  <2>1. UNCHANGED <<base, tasks, restores, left, open, verdict, databases>> /\ open = <<>>
        /\ ((pc' = "idle" /\ UNCHANGED <<asks, outcome>>) \/ (asks' = "backfill" /\ outcome' = "none" /\ pc' = "drop"))
    BY <1>19 DEF End, params, files
  <2>2. TypeOK'
    BY <2>1, <1>o, Retyped
  <2>3. QED
    BY <2>1, <2>2, <1>i, <1>o, <1>e, <1>p
    DEF InHand, HandIsTyped, HandHoldsThem, HandIsEmpty, NameIsFree, NeverRefused, AsksSoFar, MoreToOpen
<1>20. CASE Build
  <2>1. UNCHANGED <<base, tasks, restores, left, open, asks, outcome>>
        /\ MigrateAll({"backfill"}, "seed")
    BY <1>20 DEF Build, params, files
  <2>2. DOMAIN databases' = DOMAIN databases /\ pc' \in {"seed", "unwind"} /\ verdict' # "exists"
    BY <2>1, <1>i, MigratesOnly
  <2>3. QED
    BY <2>1, <2>2, <1>o, HandKept
<1>21. CASE Seed
  <2>1. DOMAIN databases' = DOMAIN databases
    BY <1>21 DEF Seed
  <2>2. QED
    BY <1>21, <2>1, <1>o, <1>i, HandKept DEF Seed, params, files, Say, GoTo
<1>22. CASE Backfill
  BY <1>22, <1>o, <1>i, HandKept DEF Backfill, params, files, Say, GoTo
<1>23. CASE Kill
  <2>1. UNCHANGED <<base, asks, databases>> /\ tasks' = <<>> /\ restores' = <<>> /\ pc' = "idle"
        /\ verdict' = "killed" /\ open' = <<>> /\ outcome' = "none"
           /\ left' = DOMAIN databases \ {Declared}
    BY <1>23 DEF Kill, params
  <2>2. DOMAIN tasks' = {} /\ DOMAIN restores' = {}
    BY <2>1
  <2>3. TypeOK'
    BY <2>1, <2>2, <1>o, <1>e, Retyped
  <2>4. QED
    BY <2>1, <2>3, <1>e
    DEF InHand, HandIsTyped, HandHoldsThem, HandIsEmpty, NameIsFree, NeverRefused, AsksSoFar, MoreToOpen
<1>24. CASE CheckOut
  <2>1. UNCHANGED <<base, tasks, restores, asks, outcome, left, open, databases, pc>>
        /\ verdict' = "none"
    BY <1>24 DEF CheckOut, params
  <2>2. TypeOK'
    BY <2>1, <1>o, Retyped
  <2>3. QED
    BY <2>1, <2>2, <1>i, <1>o
    DEF InHand, HandIsTyped, HandHoldsThem, HandIsEmpty, NameIsFree, NeverRefused, AsksSoFar, MoreToOpen
<1>25. CASE UNCHANGED vars
  <2>1. UNCHANGED <<base, tasks, restores, asks, outcome, left, open, databases, pc, verdict>>
    BY <1>25 DEF vars, params, files, run
  <2>2. TypeOK'
    BY <2>1, <1>o, Retyped
  <2>3. QED
    BY <2>1, <2>2, <1>i, <1>o
    DEF InHand, HandIsTyped, HandHoldsThem, HandIsEmpty, NameIsFree, NeverRefused, AsksSoFar, MoreToOpen
<1>26. QED
  BY <1>1, <1>2, <1>3, <1>4, <1>5, <1>6, <1>7, <1>8, <1>9, <1>10, <1>11, <1>12, <1>13, <1>14, <1>15, <1>16,
     <1>17, <1>18, <1>19, <1>20, <1>21, <1>22, <1>23, <1>24, <1>25 DEF Next, Finished

(* The shape of the model's state: no property of a run. *)
THEOREM TypesHold == Spec => []TypeOK
<1>1. InHand => TypeOK
  BY DEF InHand
<1>2. QED
  BY <1>1, InHandInit, InHandNext, PTL DEF Spec

(* No run is refused the name of a database an earlier one left, and what   *)
(* is left when one ends is what it said it could not drop, or what a kill  *)
(* cut it off with (inScratchDatabase and discard, database.ts): whatever   *)
(* the histories, the kills and the order of what fails.                    *)
THEOREM ReclaimsScratch == Spec => []ScratchIsReclaimed
<1>1. InHand => ScratchIsReclaimed
  <2> SUFFICES ASSUME InHand PROVE ScratchIsReclaimed
    OBVIOUS
  <2>1. pc = "idle" => ToSet(open) = {}
    BY NothingInHand DEF InHand, HandIsEmpty
  <2>2. QED
    BY <2>1 DEF InHand, HandHoldsThem, NeverRefused, ScratchIsReclaimed
<1>2. QED
  BY <1>1, InHandInit, InHandNext, PTL DEF Spec

-----------------------------------------------------------------------------
(* What the lineages reach. *)
Reach == UNION {Within(d) : d \in Lineage}
Replacing == pc \in {"replace", "body", "restore"}

TreesAreTrees ==
  /\ IsFiniteSet(Lineage)
  /\ tree = [d \in DOMAIN tree |-> tree[d]]
  /\ found = [d \in DOMAIN found |-> found[d]]
  /\ head = [d \in DOMAIN head |-> head[d]]
TasksAreTheirs ==
  /\ DOMAIN tasks \in {{}, Lineage} /\ (Replacing => DOMAIN tasks = Lineage)
  /\ pc \in {"body", "restore"} => DOMAIN restores = Lineage
  /\ late \subseteq Lineage
(* Only of a run that fails is anything still written once restoring began. *)
WritesHaveEnded ==
  pc # "replace" => \A d \in DOMAIN tasks :
    tasks[d] \notin {"todo", "removed"} \/ (d \in late /\ pc \in {"restore", "unwind"})
LateOnesFail ==
  late # {} => \/ pc = "restore" /\ outcome = "failed"
               \/ pc = "unwind" /\ verdict \in {"failed", "unrestored"}
               \/ pc = "idle" /\ verdict \in {"failed", "unrestored", "none"}
BackAsItWas ==
  ~Replacing /\ verdict # "unrestored" /\ (pc # "idle" \/ verdict \notin {"killed", "none"})
    => \A x : AsFound(x) \/ x \in Overtaken
CopyIsKept ==
  verdict = "unrestored" =>
    /\ pc \in {"unwind", "idle"}
    /\ \A d \in DOMAIN found :
         \/ AsFound(d) /\ d \notin Overtaken
         \/ d \in DOMAIN saved /\ saved[d] = found[d]
CopyIsWhole ==
  Replacing =>
    /\ saved = Keep(found, Reach)
    /\ \A x : x \notin Reach => AsFound(x)
NoneIsBack == pc = "body" => \A d \in Lineage : restores[d] = "todo"
PutBack ==
  pc = "restore" =>
    /\ \A d \in Lineage : restores[d] = "removed" =>
         \A x \in Within(d) : x \notin DOMAIN tree \/ AsFound(x) \/ x \in Overtaken
    /\ \A x \in Reach : \/ AsFound(x) \/ x \in Overtaken
                        \/ \E d \in Lineage : x \in Within(d) /\ restores[d] # "done"

Whole ==
  /\ TreesAreTrees /\ TasksAreTheirs /\ WritesHaveEnded /\ LateOnesFail /\ BackAsItWas
  /\ CopyIsKept /\ CopyIsWhole /\ NoneIsBack /\ PutBack

(* Where nothing was overtaken, the tree is the one that was found. *)
LEMMA NothingOvertaken ==
  ASSUME TreesAreTrees, \A x : AsFound(x)
  PROVE  tree = found
<1>1. DOMAIN tree = DOMAIN found /\ \A x \in DOMAIN found : tree[x] = found[x]
  BY DEF AsFound
<1>2. tree = [x \in DOMAIN tree |-> tree[x]] /\ found = [x \in DOMAIN found |-> found[x]]
  BY DEF TreesAreTrees
<1>3. QED
  BY <1>1, <1>2

LEMMA WholeInit == Init => Whole
<1> SUFFICES ASSUME Init PROVE Whole
  OBVIOUS
<1>1. PICK h \in Histories : base = h[1] /\ head = h[2]
  BY DEF Init
<1>2. tree = head /\ found = head /\ pc = "idle" /\ verdict = "none" /\ DOMAIN tasks = {}
      /\ DOMAIN restores = {} /\ late = {}
  BY DEF Init
<1>3. IsTree(base) /\ IsTree(head)
  BY <1>1, UpgradeAssumption
<1>4. TreesAreTrees
  BY <1>2, <1>3 DEF TreesAreTrees, IsTree, Lineage
<1>5. QED
  BY <1>2, <1>4
  DEF Whole, TasksAreTheirs, WritesHaveEnded, LateOnesFail, BackAsItWas, CopyIsKept,
    CopyIsWhole, NoneIsBack, PutBack, Replacing

(* A step that leaves the files alone, and takes no part in replacing.     *)
LEMMA Calm ==
  ASSUME Whole, UNCHANGED <<base, head, tree, found, saved, tasks, restores, late>>,
         ~Replacing, pc # "idle", pc' \notin {"replace", "body", "restore"},
         verdict' = "unrestored" => verdict = "unrestored" /\ pc' \in {"unwind", "idle"},
         verdict = "unrestored" => verdict' = "unrestored",
         late # {} => UNCHANGED verdict /\ (pc' = pc \/ (pc' = "idle" /\ Settled))
  PROVE  Whole'
<1>1. TreesAreTrees'
  BY DEF Whole, TreesAreTrees, Lineage
<1>2. ~Replacing'
  BY DEF Replacing
<1>3. TasksAreTheirs'
  BY <1>2 DEF Whole, TasksAreTheirs, Lineage, Replacing
<1>4. WritesHaveEnded'
  BY <1>2 DEF Whole, WritesHaveEnded, Settled, Replacing
<1>5. LateOnesFail'
  BY <1>2 DEF Whole, LateOnesFail, Replacing
<1>6. Overtaken' = Overtaken /\ \A x : AsFound(x)' <=> AsFound(x)
  BY DEF Overtaken, AsFound
<1>7. BackAsItWas'
  BY <1>2, <1>6 DEF Whole, BackAsItWas
<1>8. CopyIsKept'
  BY <1>6 DEF Whole, CopyIsKept
<1>9. QED
  BY <1>1, <1>2, <1>3, <1>4, <1>5, <1>7, <1>8 DEF Whole, CopyIsWhole, NoneIsBack, PutBack, Replacing

LEMMA WithinReach == \A d \in Lineage : Within(d) \subseteq Reach /\ d \in Within(d)
  BY DEF Reach, Within

LEMMA StartWhole == Whole /\ Start => Whole'
<1> SUFFICES ASSUME Whole, Start PROVE Whole'
  OBVIOUS
<1>1. /\ UNCHANGED <<base, head, tree, tasks, restores>> /\ pc = "idle"
      /\ found' = tree /\ late' = {}
      /\ (pc' = "unwind" /\ verdict' = "refused") \/ (pc' = "fresh" /\ verdict' = "none")
  BY DEF Start, params
<1>2. TreesAreTrees'
  BY <1>1 DEF Whole, TreesAreTrees, Lineage
<1>3. ~Replacing' /\ ~Replacing
  BY <1>1 DEF Replacing
<1>4. TasksAreTheirs'
  BY <1>1, <1>3 DEF Whole, TasksAreTheirs, Lineage, Replacing
<1>5. WritesHaveEnded' /\ LateOnesFail'
  BY <1>1 DEF Whole, WritesHaveEnded, LateOnesFail
<1>6. BackAsItWas' /\ CopyIsKept'
  BY <1>1 DEF BackAsItWas, CopyIsKept, AsFound
<1>7. QED
  BY <1>2, <1>3, <1>4, <1>5, <1>6 DEF Whole, CopyIsWhole, NoneIsBack, PutBack, Replacing

LEMMA SaveWhole == Whole /\ Save => Whole'
<1> SUFFICES ASSUME Whole, Save PROVE Whole'
  OBVIOUS
<1>1. /\ UNCHANGED <<base, head, tree, found, verdict, late>> /\ pc = "save" /\ pc' = "replace"
      /\ saved' = Keep(tree, Reach)
      /\ tasks' = [d \in Lineage |-> "todo"] /\ restores' = <<>>
  BY DEF Save, params, GoTo, Reach
<1>2. late = {} /\ verdict # "unrestored"
  BY <1>1 DEF Whole, LateOnesFail, CopyIsKept
<1>3. \A x : AsFound(x)
  BY <1>1, <1>2 DEF Whole, BackAsItWas, Replacing, Overtaken
<1>4. tree = found
  BY <1>3, NothingOvertaken DEF Whole
<1>5. Lineage' = Lineage /\ Reach' = Reach
  BY <1>1 DEF Lineage, Reach
<1>6. TreesAreTrees'
  BY <1>1, <1>5 DEF Whole, TreesAreTrees
<1>7. CopyIsWhole'
  BY <1>1, <1>4, <1>5 DEF CopyIsWhole, AsFound
<1>8. QED
  BY <1>1, <1>2, <1>5, <1>6, <1>7 DEF Whole, TasksAreTheirs, WritesHaveEnded, LateOnesFail, BackAsItWas,
    CopyIsKept, NoneIsBack, PutBack, Replacing

(* What a step inside the lineages leaves: all the rest of the tree.       *)
LEMMA RestAgrees ==
  ASSUME Whole, Replacing, UNCHANGED <<base, found, saved, pc>>,
         NEW d \in Lineage,
         \A x : x \notin Within(d) => (x \in DOMAIN tree <=> x \in DOMAIN tree')
           /\ (x \in DOMAIN tree => tree'[x] = tree[x])
  PROVE  /\ CopyIsWhole'
         /\ \A x : x \notin Within(d) /\ AsFound(x) => AsFound(x)'
<1>1. \A x : x \notin Within(d) /\ AsFound(x) => AsFound(x)'
  BY DEF AsFound
<1>2. Within(d) \subseteq Reach /\ Reach' = Reach
  BY WithinReach DEF Reach, Lineage
<1>3. QED
  BY <1>1, <1>2 DEF Whole, CopyIsWhole, Replacing

LEMMA ReplaceWhole == Whole /\ Replace => Whole'
<1> SUFFICES ASSUME Whole, Replace PROVE Whole'
  OBVIOUS
<1>1. PICK d \in DOMAIN tasks : Delete(d) \/ Write(d) \/ Breaks(d)
  BY DEF Replace
<1>2. /\ UNCHANGED <<base, head, found, saved, restores, late, verdict, outcome, pc>>
      /\ tasks[d] \in {"todo", "removed"}
      /\ DOMAIN tasks' = DOMAIN tasks
      /\ \A e \in DOMAIN tasks : e # d => tasks'[e] = tasks[e]
  BY <1>1 DEF Delete, Write, Breaks, params, run
<1>3. pc = "replace" \/ (d \in late /\ pc \in {"restore", "unwind"})
  BY <1>2 DEF Whole, WritesHaveEnded
<1>4. /\ d \in Lineage /\ Lineage' = Lineage /\ Reach' = Reach /\ Overtaken' = Overtaken
      /\ Overtaken \subseteq Reach
  BY <1>2 DEF Whole, TasksAreTheirs, Lineage, Reach, Overtaken
<1>5. /\ tree' = [e \in DOMAIN tree' |-> tree'[e]]
      /\ \A x : x \notin Within(d) => (x \in DOMAIN tree <=> x \in DOMAIN tree')
         /\ (x \in DOMAIN tree => tree'[x] = tree[x])
  <2>1. CASE Delete(d)
    BY <2>1 DEF Delete, Without
  <2>2. CASE Write(d)
    <3>1. d \in Within(d)
      BY DEF Within
    <3>2. QED
      BY <2>2, <3>1 DEF Write, With
  <2>3. CASE Breaks(d)
    BY <2>3 DEF Breaks, Whole, TreesAreTrees
  <2>4. QED
    BY <1>1, <2>1, <2>2, <2>3
<1>6. TreesAreTrees'
  BY <1>2, <1>5 DEF Whole, TreesAreTrees, Lineage
<1>7. CopyIsWhole'
  <2>1. CASE Replacing
    BY <2>1, <1>2, <1>4, <1>5, RestAgrees
  <2>2. CASE ~Replacing
    BY <2>2, <1>2 DEF CopyIsWhole, Replacing
  <2>3. QED
    BY <2>1, <2>2
<1>8. TasksAreTheirs'
  BY <1>2, <1>4 DEF Whole, TasksAreTheirs, Replacing
<1>9. WritesHaveEnded'
  BY <1>2, <1>3 DEF Whole, WritesHaveEnded
<1>10. LateOnesFail' /\ NoneIsBack'
  BY <1>2, <1>4 DEF Whole, LateOnesFail, NoneIsBack
<1>11. CASE pc = "replace"
  <2>1. verdict # "unrestored"
    BY <1>11 DEF Whole, CopyIsKept
  <2>2. QED
    BY <1>2, <1>6, <1>7, <1>8, <1>9, <1>10, <1>11, <2>1
    DEF Whole, BackAsItWas, CopyIsKept, PutBack, Replacing
<1>12. CASE d \in late /\ pc \in {"restore", "unwind"}
  <2>1. Within(d) \subseteq Overtaken
    BY <1>12 DEF Overtaken
  <2>2. \A x : x \notin Overtaken /\ AsFound(x) => AsFound(x)'
    BY <2>1, <1>2, <1>5 DEF AsFound
  <2>3. \A x : x \notin Overtaken => (x \in DOMAIN tree <=> x \in DOMAIN tree')
    BY <2>1, <1>5
  <2>4. BackAsItWas'
    BY <2>2, <1>2, <1>4 DEF Whole, BackAsItWas, Replacing
  <2>5. CopyIsKept'
    BY <2>2, <1>2, <1>4 DEF Whole, CopyIsKept
  <2>6. PutBack'
    BY <2>2, <2>3, <1>2, <1>4 DEF Whole, PutBack
  <2>7. QED
    BY <2>4, <2>5, <2>6, <1>6, <1>7, <1>8, <1>9, <1>10 DEF Whole
<1>13. QED
  BY <1>3, <1>11, <1>12

LEMMA ReplacedWhole == Whole /\ Replaced => Whole'
<1> SUFFICES ASSUME Whole, Replaced PROVE Whole'
  OBVIOUS
<1>1. /\ UNCHANGED <<base, head, tree, found, saved, tasks, verdict>> /\ pc = "replace"
      /\ restores' = [d \in Lineage |-> "todo"]
      /\ late' = {d \in Lineage : tasks[d] \in {"todo", "removed"}}
      /\ \/ (\E d \in Lineage : tasks[d] = "failed") /\ outcome' = "failed" /\ pc' = "restore"
         \/ (\A d \in Lineage : tasks[d] = "done") /\ pc' = "body"
  BY DEF Replaced, params
<1>2. DOMAIN tasks = Lineage /\ Replacing /\ Lineage' = Lineage /\ Reach' = Reach
  BY <1>1 DEF Whole, TasksAreTheirs, Replacing, Lineage, Reach
<1>3. TreesAreTrees'
  BY <1>1, <1>2 DEF Whole, TreesAreTrees
<1>4. WritesHaveEnded' /\ LateOnesFail'
  BY <1>1, <1>2 DEF WritesHaveEnded, LateOnesFail
<1>5. \A x : AsFound(x)' <=> AsFound(x)
  BY <1>1 DEF AsFound
<1>6. CopyIsWhole'
  BY <1>1, <1>2, <1>5 DEF Whole, CopyIsWhole, Replacing
<1>7. PutBack'
  <2>1. \A d \in Lineage : restores'[d] = "todo"
    BY <1>1
  <2>2. \A x \in Reach : \E d \in Lineage : x \in Within(d)
    BY DEF Reach
  <2>3. QED
    BY <2>1, <2>2, <1>2 DEF PutBack
<1>8. verdict # "unrestored"
  BY <1>1 DEF Whole, CopyIsKept
<1>9. TasksAreTheirs'
  BY <1>1, <1>2 DEF Whole, TasksAreTheirs, Replacing
<1>10. QED
  BY <1>1, <1>2, <1>3, <1>4, <1>6, <1>7, <1>8, <1>9
  DEF Whole, BackAsItWas, CopyIsKept, NoneIsBack, Replacing

LEMMA BodyWhole == Whole /\ Body => Whole'
<1> SUFFICES ASSUME Whole, Body PROVE Whole'
  OBVIOUS
<1>1. UNCHANGED <<base, head, tree, found, saved, tasks, restores, late, verdict>> /\ pc = "body"
      /\ pc' = "restore"
  BY DEF Body, params, files
<1>2. Lineage' = Lineage /\ Reach' = Reach /\ Replacing
  BY <1>1 DEF Lineage, Reach, Replacing
<1>3. \A x : AsFound(x)' <=> AsFound(x)
  BY <1>1 DEF AsFound
<1>4. CopyIsWhole'
  BY <1>1, <1>2, <1>3 DEF Whole, CopyIsWhole, Replacing
<1>5. PutBack'
  <2>1. \A d \in Lineage : restores'[d] = "todo"
    BY <1>1 DEF Whole, NoneIsBack
  <2>2. \A x \in Reach : \E d \in Lineage : x \in Within(d)
    BY DEF Reach
  <2>3. QED
    BY <2>1, <2>2, <1>2 DEF PutBack
<1>6. verdict # "unrestored"
  BY <1>1 DEF Whole, CopyIsKept
<1>7. TreesAreTrees'
  BY <1>1, <1>2 DEF Whole, TreesAreTrees
<1>8. WritesHaveEnded' /\ LateOnesFail'
  BY <1>1 DEF Whole, WritesHaveEnded, LateOnesFail
<1>9. TasksAreTheirs'
  BY <1>1, <1>2 DEF Whole, TasksAreTheirs, Replacing
<1>10. QED
  BY <1>1, <1>2, <1>4, <1>5, <1>6, <1>7, <1>8, <1>9
  DEF Whole, BackAsItWas, CopyIsKept, NoneIsBack, Replacing

LEMMA RestoreWhole == Whole /\ Restore => Whole'
<1> SUFFICES ASSUME Whole, Restore PROVE Whole'
  OBVIOUS
<1>1. PICK d \in DOMAIN restores : RestoreDelete(d) \/ RestoreCopy(d) \/ RestoreFails(d)
  BY DEF Restore
<1>2. /\ UNCHANGED <<base, head, found, saved, tasks, late, outcome, verdict, pc>> /\ pc = "restore"
      /\ DOMAIN restores' = DOMAIN restores
      /\ \A e \in DOMAIN restores : e # d => restores'[e] = restores[e]
  BY <1>1 DEF RestoreDelete, RestoreCopy, RestoreFails, params, run
<1>3. DOMAIN restores = Lineage /\ d \in Lineage /\ Replacing /\ Lineage' = Lineage /\ Reach' = Reach
      /\ Overtaken' = Overtaken
  BY <1>2 DEF Whole, TasksAreTheirs, Replacing, Lineage, Reach, Overtaken
<1>4. /\ saved = Keep(found, Reach) /\ Within(d) \subseteq Reach
      /\ \A e \in Lineage : restores[e] = "removed" =>
           \A x \in Within(e) : x \notin DOMAIN tree \/ AsFound(x) \/ x \in Overtaken
      /\ \A x \in Reach : AsFound(x) \/ x \in Overtaken \/ \E e \in Lineage : x \in Within(e) /\ restores[e] # "done"
      /\ tree = [e \in DOMAIN tree |-> tree[e]]
  BY <1>2, <1>3, WithinReach DEF Whole, CopyIsWhole, PutBack, TreesAreTrees
<1>5. /\ tree' = [e \in DOMAIN tree' |-> tree'[e]]
      /\ \A x : x \notin Within(d) => (x \in DOMAIN tree <=> x \in DOMAIN tree')
         /\ (x \in DOMAIN tree => tree'[x] = tree[x])
  <2>1. CASE RestoreDelete(d)
    BY <2>1 DEF RestoreDelete, Without
  <2>2. CASE RestoreCopy(d)
    <3>1. DOMAIN tree' = DOMAIN tree \cup (DOMAIN saved \cap Within(d))
      BY <2>2 DEF RestoreCopy
    <3>2. tree' = [e \in DOMAIN tree' |-> tree'[e]]
      BY <2>2, <3>1 DEF RestoreCopy
    <3>3. ASSUME NEW x \in DOMAIN tree, x \notin Within(d)
          PROVE  tree'[x] = tree[x]
      <4>1. tree'[x] = tree[x] \cup {}
        BY <2>2, <3>3 DEF RestoreCopy
      <4>2. QED
        BY <4>1
    <3>4. QED
      BY <3>1, <3>2, <3>3
  <2>3. CASE RestoreFails(d)
    BY <2>3, <1>4 DEF RestoreFails
  <2>4. QED
    BY <1>1, <2>1, <2>2, <2>3
<1>6. TreesAreTrees'
  BY <1>2, <1>3, <1>5 DEF Whole, TreesAreTrees
<1>7. CopyIsWhole' /\ \A x : x \notin Within(d) /\ AsFound(x) => AsFound(x)'
  BY <1>2, <1>3, <1>5, RestAgrees
<1>8. verdict # "unrestored"
  BY <1>2 DEF Whole, CopyIsKept
<1>9. PutBack'
  <2>1. CASE RestoreDelete(d)
    <3>1. restores'[d] = "removed" /\ \A x \in Within(d) : x \notin DOMAIN tree'
      BY <2>1, <1>2 DEF RestoreDelete, Without
    <3>2. ASSUME NEW e \in Lineage, restores'[e] = "removed", NEW x \in Within(e)
          PROVE  x \notin DOMAIN tree' \/ AsFound(x)' \/ x \in Overtaken
      <4>1. CASE x \in Within(d)
        BY <4>1, <3>1
      <4>2. CASE x \notin Within(d)
        BY <4>2, <3>1, <3>2, <1>2, <1>3, <1>4, <1>5, <1>7
      <4>3. QED
        BY <4>1, <4>2
    <3>3. ASSUME NEW x \in Reach
          PROVE  AsFound(x)' \/ x \in Overtaken \/ \E e \in Lineage : x \in Within(e) /\ restores'[e] # "done"
      BY <3>1, <3>3, <1>2, <1>3, <1>4, <1>7
    <3>4. QED
      BY <3>2, <3>3, <1>3 DEF PutBack
  <2>2. CASE RestoreCopy(d)
    <3>1. restores[d] = "removed" /\ restores'[d] = "done"
          /\ DOMAIN tree' = DOMAIN tree \cup (DOMAIN saved \cap Within(d))
      BY <2>2, <1>2 DEF RestoreCopy
    <3>2. ASSUME NEW x \in Within(d)
          PROVE  AsFound(x)' \/ x \in Overtaken
      <4>1. DOMAIN saved = DOMAIN found \cap Reach /\ \A y \in DOMAIN saved : saved[y] = found[y]
        BY <1>4 DEF Keep
      <4> SUFFICES ASSUME x \notin Overtaken PROVE AsFound(x)'
        OBVIOUS
      <4>2. x \in Reach /\ (x \notin DOMAIN tree \/ AsFound(x))
        BY <3>1, <1>3, <1>4
      <4>3. x \in DOMAIN tree' <=> x \in DOMAIN found
        BY <3>1, <4>1, <4>2 DEF AsFound
      <4>4. ASSUME x \in DOMAIN found
            PROVE  tree'[x] = found[x]
        <5>1. x \in DOMAIN saved /\ x \in DOMAIN tree' /\ saved[x] = found[x]
          BY <4>1, <4>2, <4>3, <4>4
        <5>2. tree'[x] = (IF x \in DOMAIN tree THEN tree[x] ELSE {}) \cup saved[x]
          BY <2>2, <5>1, <3>1 DEF RestoreCopy
        <5>3. CASE x \in DOMAIN tree
          <6>1. tree[x] = found[x]
            BY <5>3, <4>2, <4>4 DEF AsFound
          <6>2. tree'[x] = found[x] \cup found[x]
            BY <5>1, <5>2, <5>3, <6>1
          <6>3. QED
            BY <6>2
        <5>4. CASE x \notin DOMAIN tree
          <6>1. tree'[x] = {} \cup found[x]
            BY <5>1, <5>2, <5>4
          <6>2. QED
            BY <6>1
        <5>5. QED
          BY <5>3, <5>4
      <4>5. QED
        BY <4>3, <4>4, <1>2 DEF AsFound
    <3>3. ASSUME NEW e \in Lineage, restores'[e] = "removed", NEW x \in Within(e)
          PROVE  x \notin DOMAIN tree' \/ AsFound(x)' \/ x \in Overtaken
      <4>1. CASE x \in Within(d)
        BY <4>1, <3>2
      <4>2. CASE x \notin Within(d)
        BY <4>2, <3>1, <3>3, <1>2, <1>3, <1>4, <1>5, <1>7
      <4>3. QED
        BY <4>1, <4>2
    <3>4. ASSUME NEW x \in Reach
          PROVE  AsFound(x)' \/ x \in Overtaken \/ \E e \in Lineage : x \in Within(e) /\ restores'[e] # "done"
      <4>1. CASE x \in Within(d)
        BY <4>1, <3>2
      <4>2. CASE x \notin Within(d)
        BY <4>2, <3>4, <1>2, <1>3, <1>4, <1>7
      <4>3. QED
        BY <4>1, <4>2
    <3>5. QED
      BY <3>3, <3>4, <1>3 DEF PutBack
  <2>3. CASE RestoreFails(d)
    <3>1. restores'[d] = "failed" /\ tree' = tree
      BY <2>3, <1>2 DEF RestoreFails
    <3>2. \A x : AsFound(x)' <=> AsFound(x)
      BY <3>1, <1>2 DEF AsFound
    <3>3. \A e \in Lineage : restores'[e] = "removed" => restores[e] = "removed"
      BY <3>1, <1>2, <1>3
    <3>4. \A e \in Lineage : restores[e] # "done" => restores'[e] # "done"
      BY <3>1, <1>2, <1>3
    <3>5. QED
      BY <3>1, <3>2, <3>3, <3>4, <1>3, <1>4 DEF PutBack
  <2>4. QED
    BY <1>1, <2>1, <2>2, <2>3
<1>10. QED
  BY <1>2, <1>3, <1>6, <1>7, <1>8, <1>9
  DEF Whole, TasksAreTheirs, WritesHaveEnded, LateOnesFail, BackAsItWas,
    CopyIsKept, NoneIsBack, Replacing

LEMMA RestoredWhole == Whole /\ Restored => Whole'
<1> SUFFICES ASSUME Whole, Restored PROVE Whole'
  OBVIOUS
<1>1. /\ UNCHANGED <<base, head, tree, found, tasks, restores, late, outcome>> /\ pc = "restore"
      /\ \A d \in Lineage : restores[d] \in {"done", "failed"}
  BY DEF Restored, params
<1>2. DOMAIN restores = Lineage /\ Replacing /\ Lineage' = Lineage /\ Overtaken' = Overtaken
      /\ Overtaken \subseteq Reach /\ \A x : AsFound(x)' <=> AsFound(x)
  BY <1>1 DEF Whole, TasksAreTheirs, Replacing, Lineage, Overtaken, Reach, AsFound
<1>3. /\ saved = Keep(found, Reach)
      /\ \A x : x \notin Reach => AsFound(x)
      /\ \A x \in Reach : AsFound(x) \/ x \in Overtaken \/ \E e \in Lineage : x \in Within(e) /\ restores[e] # "done"
  BY <1>1, <1>2 DEF Whole, CopyIsWhole, PutBack
<1>4. TreesAreTrees'
  BY <1>1, <1>2 DEF Whole, TreesAreTrees
<1>5. verdict # "unrestored"
  BY <1>1 DEF Whole, CopyIsKept
<1>6. CASE \E d \in Lineage : restores[d] = "failed"
  <2>1. verdict' = "unrestored" /\ pc' = "unwind" /\ saved' = saved
    BY <1>6 DEF Restored, Say
  <2>2. ASSUME NEW d \in DOMAIN found
        PROVE  (AsFound(d) /\ d \notin Overtaken) \/ (d \in DOMAIN saved /\ saved[d] = found[d])
    <3>1. CASE d \in Reach
      BY <3>1, <2>2, <1>3 DEF Keep
    <3>2. CASE d \notin Reach
      BY <3>2, <1>2, <1>3
    <3>3. QED
      BY <3>1, <3>2
  <2>3. CopyIsKept'
    BY <1>1, <1>2, <2>1, <2>2 DEF CopyIsKept
  <2>4. QED
    BY <1>1, <1>2, <1>4, <2>1, <2>3
    DEF Whole, TasksAreTheirs, WritesHaveEnded, LateOnesFail, BackAsItWas,
      CopyIsWhole, NoneIsBack, PutBack, Replacing
<1>7. CASE ~ \E d \in Lineage : restores[d] = "failed"
  <2>1. \/ outcome = "failed" /\ verdict' = "failed" /\ pc' = "unwind"
        \/ outcome # "failed" /\ verdict' = verdict /\ pc' = "judge"
    BY <1>7 DEF Restored, Throw, Say, GoTo
  <2>2. \A x : AsFound(x) \/ x \in Overtaken
    BY <1>1, <1>3, <1>7
  <2>3. late # {} => outcome = "failed"
    BY <1>1 DEF Whole, LateOnesFail
  <2>4. BackAsItWas' /\ CopyIsKept'
    BY <1>1, <1>2, <1>5, <2>1, <2>2 DEF BackAsItWas, CopyIsKept
  <2>5. WritesHaveEnded' /\ LateOnesFail'
    BY <1>1, <2>1, <2>3 DEF Whole, WritesHaveEnded, LateOnesFail
  <2>6. QED
    BY <1>1, <1>2, <1>4, <2>1, <2>4, <2>5 DEF Whole, TasksAreTheirs, CopyIsWhole, NoneIsBack, PutBack, Replacing
<1>8. QED
  BY <1>6, <1>7

LEMMA KillWhole == Whole /\ Kill => Whole'
<1> SUFFICES ASSUME Whole, Kill PROVE Whole'
  OBVIOUS
<1>1. /\ UNCHANGED <<base, head, tree, found>> /\ pc' = "idle" /\ verdict' = "killed"
      /\ tasks' = <<>> /\ restores' = <<>> /\ late' = {}
  BY DEF Kill, params
<1>2. DOMAIN tasks' = {} /\ DOMAIN restores' = {}
  BY <1>1
<1>3. TreesAreTrees'
  BY <1>1 DEF Whole, TreesAreTrees, Lineage
<1>4. QED
  BY <1>1, <1>2, <1>3 DEF Whole, TasksAreTheirs, WritesHaveEnded, LateOnesFail, BackAsItWas,
    CopyIsKept, CopyIsWhole, NoneIsBack, PutBack, Replacing

LEMMA CheckOutWhole == Whole /\ CheckOut => Whole'
<1> SUFFICES ASSUME Whole, CheckOut PROVE Whole'
  OBVIOUS
<1>1. /\ UNCHANGED <<base, head, found, saved, tasks, restores, late, pc>> /\ tree' = head /\ pc = "idle"
         /\ verdict' = "none"
  BY DEF CheckOut, params
<1>2. TreesAreTrees'
  BY <1>1 DEF Whole, TreesAreTrees, Lineage
<1>3. QED
  BY <1>1, <1>2 DEF Whole, TasksAreTheirs, WritesHaveEnded, LateOnesFail, BackAsItWas,
    CopyIsKept, CopyIsWhole, NoneIsBack, PutBack, Replacing, Lineage

LEMMA WholeNext ==
  ASSUME Whole, [Next]_vars
  PROVE  Whole'
<1>r. CASE Replace \/ Replaced \/ Body \/ Restore \/ Restored \/ Save \/ Start \/ Kill \/ CheckOut
  BY <1>r, ReplaceWhole, ReplacedWhole, BodyWhole, RestoreWhole, RestoredWhole, SaveWhole, StartWhole,
     KillWhole,
     CheckOutWhole
<1>1. CASE Unreadable \/ Again \/ Base \/ BaseLineages \/ Judge \/ Compare \/ Backfill \/ Drop \/ Create
  <2>1. UNCHANGED <<base, head, tree, found, saved, tasks, restores, late>>
    BY <1>1 DEF Unreadable, Again, Base, BaseLineages, Judge, Compare, Backfill, Drop, Create, params, files
  <2>2. pc \in {"fresh", "again", "base", "lineages", "judge", "compare", "first", "second", "drop", "create"}
    BY <1>1 DEF Unreadable, Again, Base, BaseLineages, Judge, Compare, Backfill, Drop, Create
  <2>3. /\ verdict' # "unrestored" \/ verdict' = verdict
        /\ pc' \in {"unwind", "base", "lineages", "drop", "upgrade", "second", "create", "build", "save"}
    BY <1>1
    DEF Unreadable, Again, Base, BaseLineages, Judge, Compare, Backfill, Drop, Create, Say, GoTo, Throw
  <2>4. verdict # "unrestored" /\ late = {}
    BY <2>2 DEF Whole, CopyIsKept, LateOnesFail
  <2>5. QED
    BY <2>1, <2>2, <2>3, <2>4, Calm DEF Replacing
<1>2. CASE Fresh \/ Upgrade \/ Build \/ WriteRows \/ MigrateRows \/ Graded \/ Seed \/ Fail
  <2>1. UNCHANGED <<base, head, tree, found, saved, tasks, restores, late>>
    BY <1>2 DEF Fresh, Upgrade, Build, WriteRows, MigrateRows, Graded, Seed, Fail, params, files
  <2>2. pc \in {"fresh", "again", "drop", "create", "save", "upgrade", "grade", "over", "assert",
                "build", "seed", "first", "second"}
    BY <1>2 DEF Fresh, Upgrade, Build, WriteRows, MigrateRows, Graded, Seed, Fail
  <2>3. /\ verdict' # "unrestored" \/ verdict' = verdict
        /\ pc' \in {"again", "unwind", "grade", "compare", "seed", "over", "assert", "first"}
    <3>1. CASE Fresh \/ Upgrade \/ Build
      BY <3>1 DEF Fresh, Upgrade, Build, MigrateAll, GoTo, Throw, Say
    <3>2. CASE WriteRows \/ MigrateRows \/ Graded \/ Seed \/ Fail
      BY <3>2 DEF WriteRows, MigrateRows, Graded, Seed, Fail, Beside, GoTo, Throw, Say
    <3>3. QED
      BY <1>2, <3>1, <3>2
  <2>4. verdict # "unrestored" /\ late = {}
    BY <2>2 DEF Whole, CopyIsKept, LateOnesFail
  <2>5. QED
    BY <2>1, <2>2, <2>3, <2>4, Calm DEF Replacing
<1>3. CASE Discard \/ End
  <2>1. UNCHANGED <<base, head, tree, found, saved, tasks, restores, late, verdict>>
    BY <1>3 DEF Discard, End, params, files
  <2>2. pc = "unwind" /\ (verdict = "unrestored" => pc' \in {"unwind", "idle"})
        /\ pc' \in {"unwind", "idle", "drop"}
    BY <1>3 DEF Discard, End
  <2>3. late # {} => verdict \in {"failed", "unrestored"}
    BY <2>2 DEF Whole, LateOnesFail
  <2>4. late # {} => pc' = pc \/ (pc' = "idle" /\ Settled)
    BY <1>3, <2>3 DEF Discard, End
  <2>5. QED
    BY <2>1, <2>2, <2>4, Calm DEF Replacing
<1>4. CASE UNCHANGED vars
  BY <1>4 DEF vars, params, files, run, Whole, TreesAreTrees, TasksAreTheirs, WritesHaveEnded,
     LateOnesFail,
    BackAsItWas, CopyIsKept, CopyIsWhole, NoneIsBack, PutBack, Replacing, Lineage, AsFound, Reach, Overtaken
<1>5. QED
  BY <1>r, <1>1, <1>2, <1>3, <1>4 DEF Next, Finished

(* A run that ends by itself leaves the checkout as it found it, or says    *)
(* that it could not and keeps the copy (onTheBaseLineage, base-lineage.ts): *)
(* whatever the histories, however many lineages there are, and wherever it *)
(* fails.  The one exception is of the code's own: where one replacement    *)
(* fails, the lineages whose own were still under way may be written over   *)
(* after they were put back; no other directory is, and the run has failed. *)
THEOREM PutsTheTreeBack == Spec => []TreeComesBack
<1>1. Whole => TreeComesBack
  <2> SUFFICES ASSUME Whole, pc = "idle", verdict \notin {"killed", "none"}
               PROVE  TreeComesBack
    BY DEF TreeComesBack
  <2>1. CASE verdict = "unrestored"
    BY <2>1 DEF Whole, CopyIsKept, TreeComesBack
  <2>2. CASE verdict # "unrestored"
    <3>1. \A x : AsFound(x) \/ x \in Overtaken
      BY <2>2 DEF Whole, BackAsItWas, Replacing
    <3>2. Overtaken # {} => verdict = "failed"
      BY <2>2 DEF Whole, LateOnesFail, Overtaken
    <3>3. QED
      BY <2>2, <3>1, <3>2 DEF TreeComesBack
  <2>3. QED
    BY <2>1, <2>2
<1>2. Whole /\ [Next]_vars => Whole'
  BY WholeNext
<1>3. QED
  BY <1>1, <1>2, WholeInit, PTL DEF Spec
==============================================================================
