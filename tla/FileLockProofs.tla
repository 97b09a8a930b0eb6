--------------------------- MODULE FileLockProofs ---------------------------
(***************************************************************************)
(* What FileLock promises for any number of processes, callers, dead       *)
(* holders and kills, any patience and any nesting of claims, and what is  *)
(* left of it when somebody removes a lock by hand.                        *)
(***************************************************************************)
EXTENDS FileLockByHand, SequenceTheorems, FiniteSetTheorems, TLAPS

-----------------------------------------------------------------------------
(* Paths as sequences: what taking a lock over does to them. *)

LEMMA LenZero ==
  ASSUME NEW S, NEW s \in Seq(S)
  PROVE  Len(s) \in Nat /\ (Len(s) = 0 <=> s = <<>>) /\ Len(<<>>) = 0
  OBVIOUS

LEMMA FrontFacts ==
  ASSUME NEW S, NEW s \in Seq(S), s # <<>>
  PROVE  /\ Front(s) \in Seq(S)
         /\ Len(Front(s)) = Len(s) - 1
         /\ \A i \in 1 .. Len(s) - 1 : Front(s)[i] = s[i]
         /\ Len(s) \in Nat \ {0}
         /\ s[Len(s)] \in S
  <1>1. Len(s) \in Nat \ {0}
    OBVIOUS
  <1>2. \A i \in 1 .. Len(s) : s[i] \in S
    OBVIOUS
  <1>3. /\ Front(s) \in Seq(S)
        /\ Len(Front(s)) = IF 1 <= Len(s) - 1 THEN Len(s) - 1 - 1 + 1 ELSE 0
        /\ \A i \in 1 .. Len(s) - 1 - 1 + 1 : Front(s)[i] = s[1 + i - 1]
    <2>1. 1 \in Int /\ Len(s) - 1 \in Int /\ \A i \in 1 .. Len(s) - 1 : s[i] \in S
      BY <1>1, <1>2
    <2>2. QED
      BY <2>1, SubSeqProperties DEF Front
  <1>4. Len(Front(s)) = Len(s) - 1
    <2> DEFINE n == Len(s)
    <2>1. n \in Nat /\ n # 0 /\ Len(Front(s)) = IF 1 <= n - 1 THEN n - 1 - 1 + 1 ELSE 0
      BY <1>1, <1>3
    <2> HIDE DEF n
    <2>2. Len(Front(s)) = n - 1
      BY <2>1
    <2>3. QED
      BY <2>2 DEF n
  <1>5. \A i \in 1 .. Len(s) - 1 : Front(s)[i] = s[i]
    BY <1>1, <1>3
  <1>6. QED
    BY <1>1, <1>2, <1>3, <1>4, <1>5

LEMMA AppendFacts ==
  ASSUME NEW S, NEW s \in Seq(S), NEW e \in S
  PROVE  /\ Append(s, e) \in Seq(S)
         /\ Append(s, e) # <<>>
         /\ Len(Append(s, e)) = Len(s) + 1
         /\ \A i \in 1 .. Len(s) : Append(s, e)[i] = s[i]
         /\ Append(s, e)[Len(s) + 1] = e
  OBVIOUS

(* A claim's path is the path it is about and the text it is named after.  *)
LEMMA SamePath ==
  ASSUME NEW S, NEW s \in Seq(S), NEW t \in Seq(S), s # <<>>, t # <<>>,
         Front(s) = Front(t), s[Len(s)] = t[Len(t)]
  PROVE  s = t
  <1>1. Len(s) = Len(t)
    BY FrontFacts
  <1>2. \A i \in 1 .. Len(s) - 1 : s[i] = t[i]
    BY <1>1, FrontFacts
  <1>3. \A i \in 1 .. Len(s) : s[i] = t[i]
    BY <1>1, <1>2, FrontFacts
  <1>4. QED
    BY <1>1, <1>3, SeqEqual

(* The files after a link and after a removal. *)
LEMMA LinkedFacts ==
  ASSUME NEW p, NEW t
  PROVE  /\ DOMAIN Linked(p, t) = DOMAIN at \cup {p}
         /\ Linked(p, t)[p] = t
         /\ \A q \in DOMAIN at : q # p => Linked(p, t)[q] = at[q]
  BY DEF Linked

LEMMA RemovedFacts ==
  ASSUME NEW p
  PROVE  /\ DOMAIN Removed(p) = DOMAIN at \ {p}
         /\ \A q \in DOMAIN at : q # p => Removed(p)[q] = at[q]
  BY DEF Removed

LEMMA LinkedTyped ==
  ASSUME DOMAIN at \subseteq Path, \A q \in DOMAIN at : at[q] \in Text,
         NEW p \in Path, NEW t \in Text
  PROVE  /\ DOMAIN Linked(p, t) \subseteq Path
         /\ \A q \in DOMAIN Linked(p, t) : Linked(p, t)[q] \in Text
  <1>1. DOMAIN Linked(p, t) \subseteq Path
    BY DEF Linked
  <1>2. ASSUME NEW q \in DOMAIN Linked(p, t) PROVE Linked(p, t)[q] \in Text
    BY DEF Linked
  <1>3. QED
    BY <1>1, <1>2

LEMMA RemovedTyped ==
  ASSUME DOMAIN at \subseteq Path, \A q \in DOMAIN at : at[q] \in Text, NEW p
  PROVE  /\ DOMAIN Removed(p) \subseteq Path
         /\ \A q \in DOMAIN Removed(p) : Removed(p)[q] \in Text
  BY RemovedFacts

-----------------------------------------------------------------------------
(* Every variable keeps its type. *)

LEMMA LeftoversFacts ==
  ASSUME NEW f \in Leftovers
  PROVE  /\ DOMAIN f \subseteq Path
         /\ \A p \in DOMAIN f : f[p] \in Gone
  <1>1. Main \in Path /\ \A d \in Gone : <<d>> \in Path /\ <<d>> # Main
    BY DEF Path, Main, Text, Gone
  <1>2. \A c \in DeadClaims : c[1] \in Gone /\ c[2] \in Gone
    BY DEF DeadClaims, Gone
  <1>3. CASE f = [p \in {} |-> Junk]
    BY <1>3
  <1>4. CASE f \in {[p \in {Main} |-> d] : d \in Gone}
    BY <1>1, <1>4
  <1>5. CASE f \in {[p \in {Main, <<c[1]>>} |-> IF p = Main THEN c[1] ELSE c[2]] : c \in DeadClaims}
    <2>1. PICK c \in DeadClaims : f = [p \in {Main, <<c[1]>>} |-> IF p = Main THEN c[1] ELSE c[2]]
      BY <1>5
    <2>2. QED
      BY <1>1, <1>2, <2>1
  <1>6. CASE f \in {[p \in {<<c[1]>>} |-> c[2]] : c \in DeadClaims}
    <2>1. PICK c \in DeadClaims : f = [p \in {<<c[1]>>} |-> c[2]]
      BY <1>6
    <2>2. QED
      BY <1>1, <1>2, <2>1
  <1>7. QED
    BY <1>3, <1>4, <1>5, <1>6 DEF Leftovers

LEMMA TypeInit == Init => TypeOK
  <1> SUFFICES ASSUME Init PROVE TypeOK
    OBVIOUS
  <1>1. DOMAIN at \subseteq Path /\ \A p \in DOMAIN at : at[p] \in Text
    BY LeftoversFacts DEF Init, Text, Gone
  <1>2. <<0>> \in Seq(Nat) /\ Main \in Path
    BY DEF Main, Path
  <1>3. QED
    BY <1>1, <1>2 DEF Init, TypeOK, PC, Fault

LEMMA TypeStep ==
  ASSUME TypeOK, \A w \in Waiter : Nested(w), [Next]_vars
  PROVE  TypeOK'
  <1> USE FileLockAssumption DEF TypeOK, Path, Goto, PC, Fault
  <1>1. ASSUME NEW w \in Waiter, CreateMine(w) PROVE TypeOK'
    BY <1>1 DEF CreateMine, Text
  <1>2. ASSUME NEW w \in Waiter, FillMine(w) PROVE TypeOK'
    BY <1>2 DEF FillMine, MyText, Text
  <1>3. ASSUME NEW w \in Waiter, LinkTakes(w) PROVE TypeOK'
    <2>1. MyText(w) \in Text
      BY DEF MyText, Text
    <2>2. waited[w] # <<>> /\ Front(waited[w]) \in Seq(Nat)
      BY <1>3, FrontFacts DEF LinkTakes, Nested, Acquiring
    <2>3. DOMAIN at' \subseteq Seq(Text) /\ \A p \in DOMAIN at' : at'[p] \in Text
      <3>1. at' = Linked(path[w], MyText(w)) /\ path[w] \in Path
        BY <1>3 DEF LinkTakes
      <3>2. QED
        BY <2>1, <3>1, LinkedTyped
    <2>4. QED
      BY <1>3, <2>2, <2>3 DEF LinkTakes
  <1>4. ASSUME NEW w \in Waiter, LinkFails(w) PROVE TypeOK'
    BY <1>4 DEF LinkFails
  <1>5. ASSUME NEW w \in Waiter, DropMine(w) PROVE TypeOK'
    BY <1>5 DEF DropMine
  <1>6. ASSUME NEW w \in Waiter, ReadLock(w) PROVE TypeOK'
    BY <1>6 DEF ReadLock, TextAt
  <1>7. ASSUME NEW w \in Waiter, JudgeGone(w) PROVE TypeOK'
    BY <1>7 DEF JudgeGone
  <1>8. ASSUME NEW w \in Waiter, JudgeLive(w) PROVE TypeOK'
    BY <1>8 DEF JudgeLive
  <1>9. ASSUME NEW w \in Waiter, GiveUp(w) PROVE TypeOK'
    BY <1>9 DEF GiveUp, Unwind, Main
  <1>10. ASSUME NEW w \in Waiter, Wait(w) PROVE TypeOK'
    <2>1. waited[w] # <<>> /\ Front(waited[w]) \in Seq(Nat) /\ waited[w][Len(waited[w])] \in Nat
      BY <1>10, FrontFacts DEF Wait, Nested, Acquiring
    <2>2. Append(Front(waited[w]), waited[w][Len(waited[w])] + 1) \in Seq(Nat)
      BY <2>1
    <2>3. QED
      BY <1>10, <2>2 DEF Wait
  <1>11. ASSUME NEW w \in Waiter, Take(w) PROVE TypeOK'
    <2>1. Append(path[w], found[w]) \in Seq(Text)
      BY <1>11 DEF Take, Nested
    <2>2. Append(waited[w], 0) \in Seq(Nat)
      OBVIOUS
    <2>3. QED
      BY <1>11, <2>1, <2>2 DEF Take
  <1>12. ASSUME NEW w \in Waiter, Recheck(w) PROVE TypeOK'
    BY <1>12 DEF Recheck
  <1>13. ASSUME NEW w \in Waiter, Move(w) PROVE TypeOK'
    <2>1. DOMAIN at' \subseteq Seq(Text) /\ \A p \in DOMAIN at' : at'[p] \in Text
      <3>1. at' = at \/ at' = Removed(Target(w))
        BY <1>13 DEF Move
      <3>2. QED
        BY <3>1, RemovedTyped
    <2>2. aside' \in [Waiter -> Text \cup {None}]
      BY <1>13 DEF Move
    <2>3. QED
      BY <1>13, <2>1, <2>2 DEF Move
  <1>14. ASSUME NEW w \in Waiter, Confirm(w) PROVE TypeOK'
    BY <1>14 DEF Confirm
  <1>15. ASSUME NEW w \in Waiter, PutBack(w) PROVE TypeOK'
    <2>1. Target(w) \in Path
      BY <1>15, FrontFacts DEF PutBack, Nested, Main, Target
    <2>2. DOMAIN at' \subseteq Seq(Text) /\ \A p \in DOMAIN at' : at'[p] \in Text
      <3>1. at' = at \/ (at' = Linked(Target(w), aside[w]) /\ aside[w] \in Text)
        BY <1>15 DEF PutBack
      <3>2. QED
        BY <2>1, <3>1, LinkedTyped
    <2>3. fault' \in [Waiter -> Fault]
      BY <1>15 DEF PutBack
    <2>4. QED
      BY <1>15, <2>2, <2>3 DEF PutBack
  <1>16. ASSUME NEW w \in Waiter, Discard(w) PROVE TypeOK'
    BY <1>16 DEF Discard
  <1>17. ASSUME NEW w \in Waiter, ReleaseClaim(w) PROVE TypeOK'
    <2>1. DOMAIN at' \subseteq Seq(Text) /\ \A p \in DOMAIN at' : at'[p] \in Text
      <3>1. at' = Removed(path[w])
        BY <1>17 DEF ReleaseClaim
      <3>2. QED
        BY <3>1, RemovedTyped
    <2>2. Front(path[w]) \in Seq(Text) /\ Main \in Seq(Text)
      BY <1>17, FrontFacts DEF ReleaseClaim, Main
    <2>3. CASE fault[w] # "none"
      <3>1. Unwind(w, fault[w]) /\ UNCHANGED <<alive, aside>>
        BY <1>17, <2>3 DEF ReleaseClaim
      <3>2. QED
        BY <2>1, <3>1 DEF Unwind, Main
    <2>4. CASE fault[w] = "none" /\ Len(path[w]) = bottom[w]
      <3>1. /\ path' = [path EXCEPT ![w] = Main]
            /\ bottom' = [bottom EXCEPT ![w] = 0]
            /\ pc' = [pc EXCEPT ![w] = "sweep"]
            /\ UNCHANGED <<mine, found, waited, todo, fault, alive, aside>>
        BY <1>17, <2>4 DEF ReleaseClaim
      <3>2. QED
        BY <2>1, <2>2, <3>1
    <2>5. CASE fault[w] = "none" /\ Len(path[w]) # bottom[w]
      <3>1. /\ path' = [path EXCEPT ![w] = Front(path[w])]
            /\ pc' = [pc EXCEPT ![w] = "link"]
            /\ UNCHANGED <<mine, bottom, found, waited, todo, fault, alive, aside>>
        BY <1>17, <2>5 DEF ReleaseClaim
      <3>2. QED
        BY <2>1, <2>2, <3>1
    <2>6. QED
      BY <2>3, <2>4, <2>5
  <1>18. ASSUME NEW w \in Waiter, List(w) PROVE TypeOK'
    <2>1. Beside \subseteq Entry
      BY DEF Beside, Entry, Main
    <2>2. QED
      BY <1>18, <2>1 DEF List
  <1>19. ASSUME NEW w \in Waiter, SweepFile(w) PROVE TypeOK'
    <2>1. /\ todo' \in [Waiter -> SUBSET Entry]
          /\ mine' \subseteq mine
      BY <1>19 DEF SweepFile
    <2>a. aside' \in [Waiter -> Text \cup {None}]
      <3>1. PICK e \in todo[w] :
               aside' \in {aside, [aside EXCEPT ![e.by] = None]}
        BY <1>19 DEF SweepFile
      <3>2. QED
        BY <3>1
    <2>2. UNCHANGED <<alive, at, pc, path, bottom, found, waited, fault>>
      BY <1>19 DEF SweepFile
    <2>3. QED
      BY <2>1, <2>a, <2>2
  <1>20. ASSUME NEW w \in Waiter, SweepClaim(w) PROVE TypeOK'
    <2>1. PICK e \in todo[w] :
            /\ e.kind = "claim"
            /\ todo' = [todo EXCEPT ![w] = @ \ {e}]
            /\ IF TextAt(e.path) \in {None, Junk}
               THEN UNCHANGED <<pc, path, bottom, found>>
               ELSE /\ path' = [path EXCEPT ![w] = e.path]
                    /\ bottom' = [bottom EXCEPT ![w] = Len(e.path) + 1]
                    /\ found' = [found EXCEPT ![w] = at[e.path]]
                    /\ Goto(w, "weigh")
      BY <1>20 DEF SweepClaim
    <2>2. e.path \in Seq(Text) /\ Len(e.path) + 1 \in Nat
      BY <2>1 DEF Entry
    <2>3. CASE TextAt(e.path) \in {None, Junk}
      BY <1>20, <2>1, <2>3 DEF SweepClaim
    <2>4. CASE TextAt(e.path) \notin {None, Junk}
      <3>1. at[e.path] \in Text
        BY <2>4 DEF TextAt
      <3>2. /\ path' = [path EXCEPT ![w] = e.path]
            /\ bottom' = [bottom EXCEPT ![w] = Len(e.path) + 1]
            /\ found' = [found EXCEPT ![w] = at[e.path]]
            /\ pc' = [pc EXCEPT ![w] = "weigh"]
        BY <2>1, <2>4
      <3>3. /\ todo' = [todo EXCEPT ![w] = @ \ {e}]
            /\ UNCHANGED <<alive, at, mine, aside, waited, fault>>
        BY <1>20, <2>1 DEF SweepClaim
      <3>4. todo[w] \ {e} \in SUBSET Entry
        OBVIOUS
      <3>5. QED
        BY <2>2, <3>1, <3>2, <3>3, <3>4
    <2>5. QED
      BY <2>3, <2>4
  <1>21. ASSUME NEW w \in Waiter, Weigh(w) PROVE TypeOK'
    <2>1. Append(path[w], found[w]) \in Seq(Text) /\ Main \in Seq(Text)
      BY <1>21 DEF Weigh, Nested, Main
    <2>2. <<0>> \in Seq(Nat)
      OBVIOUS
    <2>3. CASE Live(found[w])
      <3>1. /\ path' = [path EXCEPT ![w] = Main]
            /\ bottom' = [bottom EXCEPT ![w] = 0]
            /\ pc' = [pc EXCEPT ![w] = "sweep"]
            /\ found' = [found EXCEPT ![w] = None]
            /\ UNCHANGED <<waited, alive, at, mine, aside, todo, fault>>
        BY <1>21, <2>3 DEF Weigh
      <3>2. QED
        BY <2>1, <3>1
    <2>4. CASE ~Live(found[w])
      <3>1. /\ path' = [path EXCEPT ![w] = Append(path[w], found[w])]
            /\ waited' = [waited EXCEPT ![w] = <<0>>]
            /\ pc' = [pc EXCEPT ![w] = "write"]
            /\ found' = [found EXCEPT ![w] = None]
            /\ UNCHANGED <<bottom, alive, at, mine, aside, todo, fault>>
        BY <1>21, <2>4 DEF Weigh
      <3>2. QED
        BY <2>1, <2>2, <3>1
    <2>5. QED
      BY <2>3, <2>4
  <1>22. ASSUME NEW w \in Waiter, SweepThrows(w) PROVE TypeOK'
    BY <1>22 DEF SweepThrows
  <1>23. ASSUME NEW w \in Waiter, SweepDone(w) PROVE TypeOK'
    BY <1>23 DEF SweepDone
  <1>24. ASSUME NEW w \in Waiter, Dispose(w) PROVE TypeOK'
    BY <1>24 DEF Dispose
  <1>25. ASSUME NEW w \in Waiter, ReleaseLock(w) PROVE TypeOK'
    BY <1>25 DEF ReleaseLock, Removed
  <1>26. ASSUME NEW p \in Proc, Kill(p) PROVE TypeOK'
    BY <1>26 DEF Kill, Main
  <1>27. CASE UNCHANGED vars
    BY <1>27 DEF vars
  <1>28. QED
    BY <1>1, <1>2, <1>3, <1>4, <1>5, <1>6, <1>7, <1>8, <1>9, <1>10, <1>11, <1>12, <1>13, <1>14, <1>15,
       <1>16, <1>17, <1>18, <1>19, <1>20, <1>21, <1>22, <1>23, <1>24, <1>25, <1>26, <1>27 DEF Next, Step,
       Finished

-----------------------------------------------------------------------------
(* A step is one caller's: the others stand where they stood. *)

LEMMA OthersStand ==
  ASSUME TypeOK, NEW w \in Waiter, Step(w), NEW v \in Waiter, v # w
  PROVE  /\ pc'[v] = pc[v] /\ path'[v] = path[v] /\ bottom'[v] = bottom[v]
         /\ found'[v] = found[v] /\ waited'[v] = waited[v] /\ fault'[v] = fault[v]
         /\ alive' = alive
  <1> USE DEF TypeOK, Goto
  <1>1. CASE CreateMine(w)
    BY <1>1 DEF CreateMine
  <1>2. CASE FillMine(w)
    BY <1>2 DEF FillMine
  <1>3. CASE LinkTakes(w)
    BY <1>3 DEF LinkTakes
  <1>4. CASE LinkFails(w)
    BY <1>4 DEF LinkFails
  <1>5. CASE DropMine(w)
    BY <1>5 DEF DropMine
  <1>6. CASE ReadLock(w)
    BY <1>6 DEF ReadLock
  <1>7. CASE JudgeGone(w)
    BY <1>7 DEF JudgeGone
  <1>8. CASE JudgeLive(w)
    BY <1>8 DEF JudgeLive
  <1>9. CASE GiveUp(w)
    BY <1>9 DEF GiveUp, Unwind
  <1>10. CASE Wait(w)
    BY <1>10 DEF Wait
  <1>11. CASE Take(w)
    BY <1>11 DEF Take
  <1>12. CASE Recheck(w)
    BY <1>12 DEF Recheck
  <1>13. CASE Move(w)
    BY <1>13 DEF Move
  <1>14. CASE Confirm(w)
    BY <1>14 DEF Confirm
  <1>15. CASE PutBack(w)
    BY <1>15 DEF PutBack
  <1>16. CASE Discard(w)
    BY <1>16 DEF Discard
  <1>17. CASE ReleaseClaim(w)
    BY <1>17 DEF ReleaseClaim, Unwind
  <1>18. CASE List(w)
    BY <1>18 DEF List
  <1>19. CASE SweepFile(w)
    BY <1>19 DEF SweepFile
  <1>20. CASE SweepClaim(w)
    BY <1>20 DEF SweepClaim
  <1>21. CASE Weigh(w)
    BY <1>21 DEF Weigh
  <1>22. CASE SweepThrows(w)
    BY <1>22 DEF SweepThrows
  <1>23. CASE SweepDone(w)
    BY <1>23 DEF SweepDone
  <1>24. CASE Dispose(w)
    BY <1>24 DEF Dispose
  <1>25. CASE ReleaseLock(w)
    BY <1>25 DEF ReleaseLock
  <1>26. QED
    BY <1>1, <1>2, <1>3, <1>4, <1>5, <1>6, <1>7, <1>8, <1>9, <1>10, <1>11, <1>12, <1>13, <1>14, <1>15,
       <1>16, <1>17, <1>18, <1>19, <1>20, <1>21, <1>22, <1>23, <1>24, <1>25 DEF Step

LEMMA NestedStep ==
  ASSUME TypeOK, NEW w \in Waiter, Nested(w), Step(w)
  PROVE  Nested(w)'
  <1> USE FileLockAssumption DEF TypeOK, Goto, Nested, Acquiring, UnderClaim, Path, Over, Main
  <1>0. TypeOK /\ Nested(w)
    OBVIOUS
  <1>l. /\ Len(path[w]) \in Nat /\ (Len(path[w]) = 0 <=> path[w] = Main)
        /\ Len(waited[w]) \in Nat /\ (Len(waited[w]) = 0 <=> waited[w] = <<>>)
        /\ Len(Main) = 0 /\ Len(<<>>) = 0
    BY <1>0, LenZero
  <1>1. CASE CreateMine(w)
    BY <1>0, <1>l, <1>1 DEF CreateMine
  <1>2. CASE FillMine(w)
    BY <1>0, <1>l, <1>2 DEF FillMine
  <1>3. CASE LinkTakes(w)
    <2>1. waited[w] # <<>>
      BY <1>0, <1>l, <1>3 DEF LinkTakes
    <2>2. Len(waited'[w]) = Len(waited[w]) - 1
      BY <1>0, <1>3, <2>1, FrontFacts DEF LinkTakes
    <2>3. QED
      BY <1>0, <1>l, <1>3, <2>2 DEF LinkTakes
  <1>4. CASE LinkFails(w)
    BY <1>0, <1>l, <1>4 DEF LinkFails
  <1>5. CASE DropMine(w)
    BY <1>0, <1>l, <1>5 DEF DropMine
  <1>6. CASE ReadLock(w)
    BY <1>0, <1>l, <1>6 DEF ReadLock
  <1>7. CASE JudgeGone(w)
    BY <1>0, <1>l, <1>7 DEF JudgeGone
  <1>8. CASE JudgeLive(w)
    BY <1>0, <1>l, <1>8 DEF JudgeLive
  <1>9. CASE GiveUp(w)
    BY <1>0, <1>l, <1>9 DEF GiveUp, Unwind
  <1>10. CASE Wait(w)
    <2>1. waited[w] # <<>> /\ Front(waited[w]) \in Seq(Nat) /\ waited[w][Len(waited[w])] \in Nat
      BY <1>0, <1>l, <1>10, FrontFacts DEF Wait
    <2>2. Len(Append(Front(waited[w]), waited[w][Len(waited[w])] + 1)) = Len(waited[w])
      BY <1>0, <2>1, FrontFacts
    <2>3. Len(waited'[w]) = Len(waited[w])
      BY <1>0, <1>10, <2>2 DEF Wait
    <2>4. QED
      BY <1>0, <1>l, <1>10, <2>3 DEF Wait
  <1>11. CASE Take(w)
    <2>1. /\ Len(path'[w]) = Len(path[w]) + 1
          /\ Len(waited'[w]) = Len(waited[w]) + 1
          /\ path'[w] # <<>>
      <3>1. found[w] \in Text /\ path[w] \in Seq(Text) /\ waited[w] \in Seq(Nat) /\ 0 \in Nat
        BY <1>0, <1>11 DEF Take
      <3>2. path'[w] = Append(path[w], found[w]) /\ waited'[w] = Append(waited[w], 0)
        BY <1>0, <1>11 DEF Take
      <3>3. Append(path[w], found[w]) # <<>> /\ Len(Append(path[w], found[w])) = Len(path[w]) + 1
        BY ONLY <3>1, AppendFacts
      <3>4. Len(Append(waited[w], 0)) = Len(waited[w]) + 1
        BY ONLY <3>1, AppendFacts
      <3>5. QED
        BY <3>2, <3>3, <3>4
    <2>2. QED
      BY <1>0, <1>l, <1>11, <2>1 DEF Take
  <1>12. CASE Recheck(w)
    BY <1>0, <1>l, <1>12 DEF Recheck
  <1>13. CASE Move(w)
    BY <1>0, <1>l, <1>13 DEF Move
  <1>14. CASE Confirm(w)
    BY <1>0, <1>l, <1>14 DEF Confirm
  <1>15. CASE PutBack(w)
    BY <1>0, <1>l, <1>15 DEF PutBack
  <1>16. CASE Discard(w)
    BY <1>0, <1>l, <1>16 DEF Discard
  <1>17. CASE ReleaseClaim(w)
    <2>1. CASE fault[w] # "none"
      <3>1. Unwind(w, fault[w]) /\ UNCHANGED alive
        BY <1>17, <2>1 DEF ReleaseClaim
      <3>2. QED
        BY <1>0, <1>l, <1>17, <3>1 DEF Unwind, ReleaseClaim
    <2>2. CASE fault[w] = "none" /\ Len(path[w]) = bottom[w]
      BY <1>0, <1>l, <1>17, <2>2 DEF ReleaseClaim
    <2>3. CASE fault[w] = "none" /\ Len(path[w]) # bottom[w]
      <3>1. Len(path'[w]) = Len(path[w]) - 1
        BY <1>0, <1>17, <2>3, FrontFacts DEF ReleaseClaim
      <3>2. QED
        BY <1>0, <1>l, <1>17, <2>3, <3>1 DEF ReleaseClaim
    <2>4. QED
      BY <2>1, <2>2, <2>3
  <1>18. CASE List(w)
    BY <1>0, <1>l, <1>18 DEF List
  <1>19. CASE SweepFile(w)
    BY <1>0, <1>l, <1>19 DEF SweepFile
  <1>20. CASE SweepClaim(w)
    <2>1. PICK e \in todo[w] :
            /\ e.kind = "claim"
            /\ IF TextAt(e.path) \in {None, Junk}
               THEN UNCHANGED <<pc, path, bottom, found>>
               ELSE /\ path' = [path EXCEPT ![w] = e.path]
                    /\ bottom' = [bottom EXCEPT ![w] = Len(e.path) + 1]
                    /\ found' = [found EXCEPT ![w] = at[e.path]]
                    /\ Goto(w, "weigh")
      BY <1>20 DEF SweepClaim
    <2>2. CASE TextAt(e.path) \in {None, Junk}
      BY <1>0, <1>20, <2>1, <2>2 DEF SweepClaim
    <2>3. CASE TextAt(e.path) \notin {None, Junk}
      <3>1. e \in Entry /\ e.kind = "claim"
        BY <1>0, <2>1
      <3>2. e.path # <<>>
        BY <3>1 DEF Entry
      <3>3. at[e.path] # None
        BY <2>3 DEF TextAt
      <3>4. /\ path'[w] = e.path /\ bottom'[w] = Len(e.path) + 1 /\ found'[w] = at[e.path]
            /\ pc'[w] = "weigh" /\ pc[w] = "sweep" /\ waited'[w] = waited[w] /\ alive' = alive
        BY <1>0, <1>20, <2>1, <2>3 DEF SweepClaim
      <3>5. QED
        BY <1>0, <3>2, <3>3, <3>4
    <2>4. QED
      BY <2>2, <2>3
  <1>21. CASE Weigh(w)
    <2>1. CASE Live(found[w])
      BY <1>0, <1>l, <1>21, <2>1 DEF Weigh
    <2>2. CASE ~Live(found[w])
      <3>1. Len(path'[w]) = Len(path[w]) + 1 /\ path'[w] # <<>> /\ Len(waited'[w]) = 1
        BY <1>0, <1>21, <2>2 DEF Weigh
      <3>2. QED
        BY <1>0, <1>l, <1>21, <2>2, <3>1 DEF Weigh
    <2>3. QED
      BY <2>1, <2>2
  <1>22. CASE SweepThrows(w)
    BY <1>0, <1>l, <1>22 DEF SweepThrows
  <1>23. CASE SweepDone(w)
    BY <1>0, <1>l, <1>23 DEF SweepDone
  <1>24. CASE Dispose(w)
    BY <1>0, <1>l, <1>24 DEF Dispose
  <1>25. CASE ReleaseLock(w)
    BY <1>0, <1>l, <1>25 DEF ReleaseLock
  <1>26. QED
    BY <1>1, <1>2, <1>3, <1>4, <1>5, <1>6, <1>7, <1>8, <1>9, <1>10, <1>11, <1>12, <1>13, <1>14, <1>15,
       <1>16, <1>17, <1>18, <1>19, <1>20, <1>21, <1>22, <1>23, <1>24, <1>25 DEF Step

LEMMA JudgedStep ==
  ASSUME TypeOK, NEW w \in Waiter, Nested(w), JudgedDead(w), Step(w)
  PROVE  JudgedDead(w)'
  <1> USE FileLockAssumption DEF TypeOK, Goto, JudgedDead, Path, Live, Main
  <1>0. TypeOK /\ Nested(w) /\ JudgedDead(w)
    OBVIOUS
  <1>l. /\ Len(path[w]) \in Nat /\ (Len(path[w]) = 0 <=> path[w] = Main)
        /\ Len(waited[w]) \in Nat /\ (Len(waited[w]) = 0 <=> waited[w] = <<>>)
        /\ Len(Main) = 0 /\ Len(<<>>) = 0
    BY <1>0, LenZero
  <1>1. CASE CreateMine(w)
    BY <1>0, <1>l, <1>1 DEF CreateMine
  <1>2. CASE FillMine(w)
    BY <1>0, <1>l, <1>2 DEF FillMine
  <1>3. CASE LinkTakes(w)
    BY <1>0, <1>l, <1>3 DEF LinkTakes
  <1>4. CASE LinkFails(w)
    BY <1>0, <1>l, <1>4 DEF LinkFails
  <1>5. CASE DropMine(w)
    BY <1>0, <1>l, <1>5 DEF DropMine
  <1>6. CASE ReadLock(w)
    BY <1>0, <1>l, <1>6 DEF ReadLock
  <1>7. CASE JudgeGone(w)
    BY <1>0, <1>l, <1>7 DEF JudgeGone
  <1>8. CASE JudgeLive(w)
    BY <1>0, <1>l, <1>8 DEF JudgeLive
  <1>9. CASE GiveUp(w)
    BY <1>0, <1>l, <1>9 DEF GiveUp, Unwind
  <1>10. CASE Wait(w)
    BY <1>0, <1>l, <1>10 DEF Wait
  <1>11. CASE Take(w)
    BY <1>0, <1>l, <1>11 DEF Take
  <1>12. CASE Recheck(w)
    BY <1>0, <1>l, <1>12 DEF Recheck
  <1>13. CASE Move(w)
    BY <1>0, <1>l, <1>13 DEF Move
  <1>14. CASE Confirm(w)
    BY <1>0, <1>l, <1>14 DEF Confirm
  <1>15. CASE PutBack(w)
    BY <1>0, <1>l, <1>15 DEF PutBack
  <1>16. CASE Discard(w)
    BY <1>0, <1>l, <1>16 DEF Discard
  <1>17. CASE ReleaseClaim(w)
    <2>1. CASE fault[w] # "none"
      <3>1. Len(path'[w]) = 0 /\ pc'[w] # "take"
        BY <1>0, <1>l, <1>17, <2>1 DEF ReleaseClaim, Unwind
      <3>2. QED
        BY <3>1
    <2>2. CASE fault[w] = "none" /\ Len(path[w]) = bottom[w]
      BY <1>0, <1>l, <1>17, <2>2 DEF ReleaseClaim
    <2>3. CASE fault[w] = "none" /\ Len(path[w]) # bottom[w]
      <3>1. /\ path'[w] = Front(path[w]) /\ bottom'[w] = bottom[w] /\ alive' = alive
            /\ pc'[w] # "take" /\ path[w] # <<>>
        BY <1>0, <1>17, <2>3 DEF ReleaseClaim
      <3>2. Len(path'[w]) = Len(path[w]) - 1 /\ \A i \in 1 .. Len(path[w]) - 1 : path'[w][i] = path[w][i]
        BY <1>0, <3>1, FrontFacts
      <3>3. ASSUME NEW i \in 1 .. Len(path'[w]), bottom'[w] <= i PROVE path'[w][i] \notin alive'
        <4>1. i \in 1 .. Len(path[w]) - 1 /\ i \in 1 .. Len(path[w]) /\ bottom[w] <= i
          BY <1>l, <3>1, <3>2, <3>3
        <4>2. path[w][i] \notin alive
          BY <1>0, <4>1
        <4>3. path'[w][i] = path[w][i]
          BY <3>2, <4>1
        <4>4. QED
          BY <3>1, <4>2, <4>3
      <3>4. QED
        BY <3>1, <3>3
    <2>4. QED
      BY <2>1, <2>2, <2>3
  <1>18. CASE List(w)
    BY <1>0, <1>l, <1>18 DEF List
  <1>19. CASE SweepFile(w)
    BY <1>0, <1>l, <1>19 DEF SweepFile
  <1>20. CASE SweepClaim(w)
    BY <1>0, <1>l, <1>20 DEF SweepClaim
  <1>21. CASE Weigh(w)
    <2>1. CASE Live(found[w])
      BY <1>0, <1>l, <1>21, <2>1 DEF Weigh
    <2>2. CASE ~Live(found[w])
      <3>1. /\ path'[w] = Append(path[w], found[w]) /\ bottom'[w] = Len(path[w]) + 1
            /\ found[w] \in Text /\ alive' = alive /\ pc'[w] # "take"
        BY <1>0, <1>21, <2>2 DEF Weigh, Nested
      <3>2. Len(path'[w]) = Len(path[w]) + 1 /\ path'[w][Len(path[w]) + 1] = found[w]
        BY <1>0, <3>1, AppendFacts
      <3>3. QED
        BY <1>l, <2>2, <3>1, <3>2
    <2>3. QED
      BY <2>1, <2>2
  <1>22. CASE SweepThrows(w)
    BY <1>0, <1>l, <1>22 DEF SweepThrows
  <1>23. CASE SweepDone(w)
    BY <1>0, <1>l, <1>23 DEF SweepDone
  <1>24. CASE Dispose(w)
    BY <1>0, <1>l, <1>24 DEF Dispose
  <1>25. CASE ReleaseLock(w)
    BY <1>0, <1>l, <1>25 DEF ReleaseLock
  <1>26. QED
    BY <1>1, <1>2, <1>3, <1>4, <1>5, <1>6, <1>7, <1>8, <1>9, <1>10, <1>11, <1>12, <1>13, <1>14, <1>15,
       <1>16, <1>17, <1>18, <1>19, <1>20, <1>21, <1>22, <1>23, <1>24, <1>25 DEF Step

LEMMA MovesStep ==
  ASSUME IInv, NEW w \in Waiter, Step(w)
  PROVE  MovesTheDead(w)'
  <1> USE FileLockAssumption DEF TypeOK, Goto, MovesTheDead, Path, Main
  <1>0. TypeOK /\ Nested(w) /\ JudgedDead(w) /\ MovesTheDead(w)
    BY DEF IInv
  <1>l. /\ Len(path[w]) \in Nat /\ (Len(path[w]) = 0 <=> path[w] = Main)
        /\ Len(waited[w]) \in Nat /\ (Len(waited[w]) = 0 <=> waited[w] = <<>>)
        /\ Len(Main) = 0 /\ Len(<<>>) = 0
    BY <1>0, LenZero
  <1>1. CASE CreateMine(w)
    BY <1>0, <1>l, <1>1 DEF CreateMine
  <1>2. CASE FillMine(w)
    BY <1>0, <1>l, <1>2 DEF FillMine
  <1>3. CASE LinkTakes(w)
    BY <1>0, <1>l, <1>3 DEF LinkTakes
  <1>4. CASE LinkFails(w)
    BY <1>0, <1>l, <1>4 DEF LinkFails
  <1>5. CASE DropMine(w)
    BY <1>0, <1>l, <1>5 DEF DropMine
  <1>6. CASE ReadLock(w)
    BY <1>0, <1>l, <1>6 DEF ReadLock
  <1>7. CASE JudgeGone(w)
    BY <1>0, <1>l, <1>7 DEF JudgeGone
  <1>8. CASE JudgeLive(w)
    BY <1>0, <1>l, <1>8 DEF JudgeLive
  <1>9. CASE GiveUp(w)
    BY <1>0, <1>l, <1>9 DEF GiveUp, Unwind
  <1>10. CASE Wait(w)
    BY <1>0, <1>l, <1>10 DEF Wait
  <1>11. CASE Take(w)
    BY <1>0, <1>l, <1>11 DEF Take
  <1>12. CASE Recheck(w)
    BY <1>0, <1>l, <1>12 DEF Recheck, TextAt, Nested, Target, Dead
  <1>13. CASE Move(w)
    BY <1>0, <1>l, <1>13 DEF Move, Target, Dead
  <1>14. CASE Confirm(w)
    BY <1>0, <1>l, <1>14 DEF Confirm
  <1>15. CASE PutBack(w)
    BY <1>0, <1>l, <1>15 DEF PutBack
  <1>16. CASE Discard(w)
    BY <1>0, <1>l, <1>16 DEF Discard
  <1>17. CASE ReleaseClaim(w)
    BY <1>0, <1>l, <1>17 DEF ReleaseClaim, Unwind
  <1>18. CASE List(w)
    BY <1>0, <1>l, <1>18 DEF List
  <1>19. CASE SweepFile(w)
    BY <1>0, <1>l, <1>19 DEF SweepFile
  <1>20. CASE SweepClaim(w)
    BY <1>0, <1>l, <1>20 DEF SweepClaim
  <1>21. CASE Weigh(w)
    BY <1>0, <1>l, <1>21 DEF Weigh
  <1>22. CASE SweepThrows(w)
    BY <1>0, <1>l, <1>22 DEF SweepThrows
  <1>23. CASE SweepDone(w)
    BY <1>0, <1>l, <1>23 DEF SweepDone
  <1>24. CASE Dispose(w)
    BY <1>0, <1>l, <1>24 DEF Dispose
  <1>25. CASE ReleaseLock(w)
    BY <1>0, <1>l, <1>25 DEF ReleaseLock
  <1>26. QED
    BY <1>1, <1>2, <1>3, <1>4, <1>5, <1>6, <1>7, <1>8, <1>9, <1>10, <1>11, <1>12, <1>13, <1>14, <1>15,
       <1>16, <1>17, <1>18, <1>19, <1>20, <1>21, <1>22, <1>23, <1>24, <1>25 DEF Step

-----------------------------------------------------------------------------
(* Who owns what across a step. *)

(* A path's file goes only by the move of one who rechecked it, or by the  *)
(* release of the one whose path it is.                                    *)
LEMMA FileKept ==
  ASSUME NEW w \in Waiter, Step(w), NEW p \in DOMAIN at
  PROVE  \/ p \in DOMAIN at' /\ at'[p] = at[p]
         \/ pc[w] = "move" /\ p = Target(w)
         \/ pc[w] = "release" /\ p = path[w]
  <1>1. CASE LinkTakes(w)
    BY <1>1 DEF LinkTakes, Linked
  <1>2. CASE Move(w)
    BY <1>2, RemovedFacts DEF Move
  <1>3. CASE PutBack(w)
    BY <1>3 DEF PutBack, Linked, Target
  <1>4. CASE ReleaseClaim(w)
    BY <1>4, RemovedFacts DEF ReleaseClaim
  <1>5. CASE ReleaseLock(w)
    BY <1>5, RemovedFacts DEF ReleaseLock
  <1>6. CASE UNCHANGED at
    BY <1>6
  <1>7. QED
    BY <1>1, <1>2, <1>3, <1>4, <1>5, <1>6
    DEF Step, CreateMine, FillMine, LinkFails, DropMine, ReadLock, JudgeGone, JudgeLive, GiveUp, Wait,
        Take, Recheck, Confirm, Discard, List, SweepFile, SweepClaim, Weigh, SweepThrows, SweepDone, Dispose

(* What is moved names nobody alive. *)
LEMMA MovedIsDead ==
  ASSUME IInv, NEW w \in Waiter, pc[w] = "move"
  PROVE  Target(w) \in DOMAIN at /\ at[Target(w)] = Dead(w) /\ ~Live(Dead(w))
  <1>1. /\ TypeOK /\ Nested(w) /\ JudgedDead(w) /\ MovesTheDead(w)
    BY DEF IInv
  <1>2. path[w] \in Seq(Text) /\ path[w] # <<>> /\ bottom[w] <= Len(path[w])
    BY <1>1 DEF TypeOK, Path, Nested, UnderClaim, Main
  <1>3. Len(path[w]) \in 1 .. Len(path[w])
    BY <1>2, FrontFacts
  <1>4. QED
    BY <1>1, <1>2, <1>3 DEF JudgedDead, MovesTheDead, Dead

(* An owner's file names it, and it is alive. *)
LEMMA OwnerIsAlive ==
  ASSUME IInv, NEW w \in Waiter
  PROVE  /\ Holds(w) => Main \in DOMAIN at /\ at[Main] = MyText(w) /\ Live(MyText(w))
         /\ HoldsClaim(w) => /\ path[w] \in DOMAIN at
                            /\ at[path[w]] = MyText(w)
                            /\ Live(MyText(w))
  <1>1. Nested(w) /\ NamesItsOwner /\ TypeOK
    BY DEF IInv
  <1>2. Holds(w) \/ HoldsClaim(w) => ~Over(w)
    BY <1>1 DEF Nested, Holds, HoldsClaim, UnderClaim, Over, TypeOK
  <1>3. QED
    BY <1>1, <1>2 DEF Nested, NamesItsOwner, MyText, Live

(* Nobody comes to own a path but by a link that takes it. *)
LEMMA OwnsByLink ==
  ASSUME TypeOK, NEW w \in Waiter, Nested(w), Step(w)
  PROVE  /\ Holds(w)' =>
              \/ Holds(w) /\ ~(pc[w] = "release" /\ path[w] = Main)
              \/ LinkTakes(w) /\ path[w] = Main
         /\ HoldsClaim(w)' =>
              /\ path'[w] = path[w]
              /\ (HoldsClaim(w) /\ pc[w] # "release") \/ LinkTakes(w)
  <1> USE DEF TypeOK, Goto, Holds, HoldsClaim, UnderClaim
  <1>0. TypeOK /\ Nested(w) /\ Main = <<>>
    BY DEF Main
  <1>1. CASE CreateMine(w)
    BY <1>0, <1>1 DEF CreateMine
  <1>2. CASE FillMine(w)
    BY <1>0, <1>2 DEF FillMine
  <1>3. CASE LinkTakes(w)
    BY <1>0, <1>3 DEF LinkTakes
  <1>4. CASE LinkFails(w)
    BY <1>0, <1>4 DEF LinkFails
  <1>5. CASE DropMine(w)
    BY <1>0, <1>5 DEF DropMine
  <1>6. CASE ReadLock(w)
    BY <1>0, <1>6 DEF ReadLock
  <1>7. CASE JudgeGone(w)
    BY <1>0, <1>7 DEF JudgeGone
  <1>8. CASE JudgeLive(w)
    BY <1>0, <1>8 DEF JudgeLive
  <1>9. CASE GiveUp(w)
    BY <1>0, <1>9 DEF GiveUp, Unwind
  <1>10. CASE Wait(w)
    BY <1>0, <1>10 DEF Wait
  <1>11. CASE Take(w)
    BY <1>0, <1>11 DEF Take
  <1>12. CASE Recheck(w)
    BY <1>0, <1>12 DEF Recheck, Nested
  <1>13. CASE Move(w)
    BY <1>0, <1>13 DEF Move, Nested
  <1>14. CASE Confirm(w)
    BY <1>0, <1>14 DEF Confirm
  <1>15. CASE PutBack(w)
    BY <1>0, <1>15 DEF PutBack
  <1>16. CASE Discard(w)
    BY <1>0, <1>16 DEF Discard, Nested
  <1>17. CASE ReleaseClaim(w)
    BY <1>0, <1>17 DEF ReleaseClaim, Unwind, Nested
  <1>18. CASE List(w)
    BY <1>0, <1>18 DEF List
  <1>19. CASE SweepFile(w)
    BY <1>0, <1>19 DEF SweepFile
  <1>20. CASE SweepClaim(w)
    BY <1>0, <1>20 DEF SweepClaim
  <1>21. CASE Weigh(w)
    BY <1>0, <1>21 DEF Weigh
  <1>22. CASE SweepThrows(w)
    BY <1>0, <1>22 DEF SweepThrows, Nested
  <1>23. CASE SweepDone(w)
    BY <1>0, <1>23 DEF SweepDone
  <1>24. CASE Dispose(w)
    BY <1>0, <1>24 DEF Dispose, Nested
  <1>25. CASE ReleaseLock(w)
    BY <1>0, <1>25 DEF ReleaseLock, Nested
  <1>26. QED
    BY <1>1, <1>2, <1>3, <1>4, <1>5, <1>6, <1>7, <1>8, <1>9, <1>10, <1>11, <1>12, <1>13, <1>14, <1>15,
       <1>16, <1>17, <1>18, <1>19, <1>20, <1>21, <1>22, <1>23, <1>24, <1>25 DEF Step

(* The owners' files stay theirs, and no path comes to have two owners.    *)
LEMMA OwnersStep ==
  ASSUME IInv, NEW w \in Waiter, Step(w)
  PROVE  NamesItsOwner' /\ OneOwner'
  <1>0. TypeOK /\ NamesItsOwner /\ OneOwner /\ \A v \in Waiter : Nested(v)
    BY DEF IInv
  <1>1. \A v \in Waiter : v # w =>
          /\ pc'[v] = pc[v] /\ path'[v] = path[v] /\ bottom'[v] = bottom[v]
          /\ Holds(v)' <=> Holds(v)
          /\ HoldsClaim(v)' <=> HoldsClaim(v)
    BY <1>0, OthersStand DEF Holds, HoldsClaim
  (* The file of an owner that is not giving it up now is not disturbed.   *)
  <1>2. ASSUME NEW v \in Waiter, Holds(v), ~(v = w /\ pc[w] = "release" /\ path[w] = Main)
        PROVE  Main \in DOMAIN at' /\ at'[Main] = MyText(v)
    <2>1. Main \in DOMAIN at /\ at[Main] = MyText(v) /\ Live(at[Main])
      BY <1>2, OwnerIsAlive
    <2>2. CASE pc[w] = "move" /\ Main = Target(w)
      BY <2>1, <2>2, MovedIsDead
    <2>3. CASE pc[w] = "release" /\ Main = path[w]
      <3>1. Holds(w)
        BY <2>3 DEF Holds
      <3>2. QED
        BY <1>0, <1>2, <2>3, <3>1 DEF OneOwner, Exclusive
    <2>4. QED
      BY <2>1, <2>2, <2>3, FileKept
  <1>3. ASSUME NEW v \in Waiter, HoldsClaim(v), ~(v = w /\ pc[w] = "release")
        PROVE  path[v] \in DOMAIN at' /\ at'[path[v]] = MyText(v)
    <2>1. path[v] \in DOMAIN at /\ at[path[v]] = MyText(v) /\ Live(at[path[v]])
      BY <1>3, OwnerIsAlive
    <2>2. CASE pc[w] = "move" /\ path[v] = Target(w)
      BY <2>1, <2>2, MovedIsDead
    <2>3. CASE pc[w] = "release" /\ path[v] = path[w]
      <3>1. HoldsClaim(w)
        BY <1>3, <2>3 DEF HoldsClaim, UnderClaim
      <3>2. QED
        BY <1>0, <1>3, <2>3, <3>1 DEF OneOwner
    <2>4. QED
      BY <2>1, <2>2, <2>3, FileKept
  <1>4. ASSUME LinkTakes(w)
        PROVE  path[w] \notin DOMAIN at /\ path[w] \in DOMAIN at' /\ at'[path[w]] = MyText(w)
    BY <1>4 DEF LinkTakes, Linked
  <1>5. NamesItsOwner'
    <2>1. ASSUME NEW v \in Waiter, Holds(v)' PROVE Main \in DOMAIN at' /\ at'[Main] = MyText(v)
      BY <1>0, <1>1, <1>2, <1>4, <2>1, OwnsByLink
    <2>2. ASSUME NEW v \in Waiter, HoldsClaim(v)'
          PROVE  path'[v] \in DOMAIN at' /\ at'[path'[v]] = MyText(v)
      <3>1. CASE v # w
        BY <1>1, <1>3, <2>2, <3>1
      <3>2. CASE v = w
        BY <1>0, <1>3, <1>4, <2>2, <3>2, OwnsByLink
      <3>3. QED
        BY <3>1, <3>2
    <2>3. QED
      BY <2>1, <2>2 DEF NamesItsOwner, MyText
  <1>6. Exclusive'
    <2>1. ASSUME NEW v \in Waiter, v # w, Holds(v)', Holds(w)' PROVE FALSE
      <3>1. Holds(v) /\ Main \in DOMAIN at
        BY <1>1, <2>1, OwnerIsAlive
      <3>2. Holds(w)
        BY <1>0, <1>4, <2>1, <3>1, OwnsByLink
      <3>3. QED
        BY <1>0, <2>1, <3>1, <3>2 DEF OneOwner, Exclusive
    <2>2. ASSUME NEW u \in Waiter, NEW v \in Waiter, Holds(u)', Holds(v)' PROVE u = v
      <3>1. CASE u # w /\ v # w
        BY <1>0, <1>1, <2>2, <3>1 DEF OneOwner, Exclusive
      <3>2. QED
        BY <2>1, <2>2, <3>1
    <2>3. QED
      BY <2>2 DEF Exclusive
  <1>7. ASSUME NEW u \in Waiter, NEW v \in Waiter,
               HoldsClaim(u)', HoldsClaim(v)', path'[u] = path'[v]
        PROVE  u = v
    <2>1. ASSUME NEW x \in Waiter, x # w, HoldsClaim(x)', HoldsClaim(w)', path'[x] = path'[w]
          PROVE  FALSE
      <3>1. HoldsClaim(x) /\ path[x] \in DOMAIN at /\ path'[x] = path[x]
        BY <1>1, <2>1, OwnerIsAlive
      <3>2. HoldsClaim(w) /\ path[x] = path[w]
        BY <1>0, <1>4, <2>1, <3>1, OwnsByLink
      <3>3. QED
        BY <1>0, <2>1, <3>1, <3>2 DEF OneOwner
    <2>2. CASE u # w /\ v # w
      BY <1>0, <1>1, <1>7, <2>2 DEF OneOwner
    <2>3. QED
      BY <1>7, <2>1, <2>2
  <1>8. QED
    BY <1>5, <1>6, <1>7 DEF OneOwner

(* What a caller rechecked stays until it moves it: only an owner's file   *)
(* goes by a release, and only one caller has the claim to move it.        *)
LEMMA OthersMove ==
  ASSUME IInv, NEW w \in Waiter, Step(w), NEW v \in Waiter, v # w
  PROVE  MovesTheDead(v)'
  <1>0. /\ TypeOK /\ MovesTheDead(v) /\ OneOwner /\ Nested(v) /\ Nested(w)
        /\ pc'[v] = pc[v] /\ path'[v] = path[v] /\ fault'[v] = fault[v]
    BY OthersStand DEF IInv
  <1>1. ASSUME pc[v] = "move" PROVE Target(v) \in DOMAIN at' /\ at'[Target(v)] = Dead(v)
    <2>1. Target(v) \in DOMAIN at /\ at[Target(v)] = Dead(v) /\ ~Live(Dead(v))
      BY <1>1, MovedIsDead
    <2>2. CASE pc[w] = "move" /\ Target(v) = Target(w)
      <3>1. Dead(v) = Dead(w)
        BY <2>1, <2>2, MovedIsDead
      <3>2. /\ path[v] \in Seq(Text) /\ path[w] \in Seq(Text)
            /\ path[v] # <<>> /\ path[w] # <<>>
        BY <1>0, <1>1, <2>2 DEF TypeOK, Path, Nested, Main
      <3>3. path[v] = path[w]
        BY <2>2, <3>1, <3>2, SamePath DEF Target, Dead
      <3>4. HoldsClaim(v) /\ HoldsClaim(w)
        BY <1>1, <2>2, <3>2 DEF HoldsClaim, UnderClaim, Main
      <3>5. QED
        BY <1>0, <3>3, <3>4 DEF OneOwner
    <2>3. CASE pc[w] = "release" /\ Target(v) = path[w]
      <3>1. CASE path[w] = Main
        <4>1. Holds(w)
          BY <2>3, <3>1 DEF Holds
        <4>2. QED
          BY <2>1, <2>3, <3>1, <4>1, OwnerIsAlive
      <3>2. CASE path[w] # Main
        <4>1. HoldsClaim(w)
          BY <2>3, <3>2 DEF HoldsClaim, UnderClaim
        <4>2. QED
          BY <2>1, <2>3, <4>1, OwnerIsAlive
      <3>3. QED
        BY <3>1, <3>2
    <2>4. QED
      BY <2>1, <2>2, <2>3, FileKept
  <1>2. ASSUME pc[v] = "confirm" PROVE aside'[v] \in {None, Dead(v)}
    <2>1. aside'[v] \in {None, aside[v]}
      <3>1. CASE SweepFile(w)
        BY <1>0, <3>1 DEF SweepFile, TypeOK
      <3>2. CASE Move(w) \/ Discard(w)
        BY <1>0, <3>2 DEF Move, Discard, TypeOK
      <3>3. CASE UNCHANGED aside
        BY <3>3
      <3>4. QED
        BY <3>1, <3>2, <3>3
        DEF Step, CreateMine, FillMine, LinkTakes, LinkFails, DropMine, ReadLock, JudgeGone,
            JudgeLive, GiveUp, Wait, Take, Recheck, Confirm, PutBack, ReleaseClaim, List,
            SweepClaim, Weigh, SweepThrows, SweepDone, Dispose, ReleaseLock
    <2>2. QED
      BY <1>0, <1>2, <2>1 DEF MovesTheDead
  <1>3. QED
    BY <1>0, <1>1, <1>2 DEF MovesTheDead, Target, Dead

-----------------------------------------------------------------------------
(* The inductive invariant. *)

LEMMA StepKeeps ==
  ASSUME IInv, NEW w \in Waiter, Step(w)
  PROVE  IInv'
  <1>1. TypeOK'
    BY TypeStep DEF Next, IInv
  <1>2. NamesItsOwner' /\ OneOwner'
    BY OwnersStep
  <1>3. ASSUME NEW v \in Waiter PROVE (Nested(v) /\ JudgedDead(v) /\ MovesTheDead(v))'
    <2>1. CASE v = w
      BY <2>1, NestedStep, JudgedStep, MovesStep DEF IInv
    <2>2. CASE v # w
      <3>1. /\ pc'[v] = pc[v] /\ path'[v] = path[v] /\ bottom'[v] = bottom[v]
            /\ found'[v] = found[v] /\ waited'[v] = waited[v] /\ alive' = alive
        BY <2>2, OthersStand DEF IInv
      <3>2. Nested(v) /\ JudgedDead(v)
        BY DEF IInv
      <3>3. (Nested(v) /\ JudgedDead(v))'
        BY <3>1, <3>2 DEF Nested, JudgedDead, Over, Live
      <3>4. QED
        BY <2>2, <3>3, OthersMove
    <2>3. QED
      BY <2>1, <2>2
  <1>4. QED
    BY <1>1, <1>2, <1>3 DEF IInv

LEMMA KillKeeps ==
  ASSUME IInv, NEW p \in Proc, Kill(p)
  PROVE  IInv'
  <1>0. TypeOK /\ NamesItsOwner /\ OneOwner
        /\ \A v \in Waiter : Nested(v) /\ JudgedDead(v) /\ MovesTheDead(v)
    BY DEF IInv
  <1>1. TypeOK'
    BY <1>0, TypeStep DEF Next
  <1>2. alive' = alive \ {p} /\ at' = at /\ aside' = aside /\ fault' = fault
    BY DEF Kill
  <1>3. ASSUME NEW v \in Waiter, ProcOf[v] # p
        PROVE  /\ pc'[v] = pc[v] /\ path'[v] = path[v] /\ bottom'[v] = bottom[v]
               /\ found'[v] = found[v] /\ waited'[v] = waited[v]
    BY <1>3 DEF Kill
  <1>4. ASSUME NEW v \in Waiter, ProcOf[v] = p
        PROVE  /\ pc'[v] \in {"done", "failed", "dead"} /\ path'[v] = Main
               /\ bottom'[v] = 0 /\ waited'[v] = <<>>
    BY <1>0, <1>4 DEF Kill, TypeOK
  <1>5. ASSUME NEW v \in Waiter PROVE (Nested(v) /\ JudgedDead(v) /\ MovesTheDead(v))'
    <2>1. CASE ProcOf[v] = p
      <3>1. Len(path'[v]) = 0
        BY <1>4, <2>1 DEF Main
      <3>2. Nested(v)'
        BY <1>4, <2>1 DEF Nested, Acquiring, UnderClaim, Over
      <3>3. JudgedDead(v)' /\ MovesTheDead(v)'
        BY <1>0, <1>2, <1>4, <2>1, <3>1 DEF JudgedDead, MovesTheDead
      <3>4. QED
        BY <3>2, <3>3
    <2>2. CASE ProcOf[v] # p
      <3>1. Nested(v)'
        BY <1>0, <1>2, <1>3, <2>2 DEF Nested, Over
      <3>2. JudgedDead(v)' /\ MovesTheDead(v)'
        BY <1>0, <1>2, <1>3, <2>2 DEF JudgedDead, MovesTheDead, Live, Target, Dead
      <3>3. QED
        BY <3>1, <3>2
    <2>3. QED
      BY <2>1, <2>2
  <1>6. ASSUME NEW v \in Waiter
        PROVE  /\ Holds(v)' => Holds(v)
               /\ HoldsClaim(v)' => HoldsClaim(v) /\ path'[v] = path[v]
    <2>1. CASE ProcOf[v] = p
      BY <1>4, <2>1 DEF Holds, HoldsClaim
    <2>2. CASE ProcOf[v] # p
      BY <1>3, <2>2 DEF Holds, HoldsClaim
    <2>3. QED
      BY <2>1, <2>2
  <1>7. NamesItsOwner'
    BY <1>0, <1>2, <1>6 DEF NamesItsOwner, MyText
  <1>8. OneOwner'
    BY <1>0, <1>6 DEF OneOwner, Exclusive
  <1>9. QED
    BY <1>1, <1>5, <1>7, <1>8 DEF IInv

LEMMA InitHolds == Init => IInv
  <1> SUFFICES ASSUME Init PROVE IInv
    OBVIOUS
  <1>1. TypeOK
    BY TypeInit
  <1>2. ASSUME NEW w \in Waiter
        PROVE  /\ pc[w] = "write" /\ path[w] = <<>> /\ bottom[w] = 0 /\ waited[w] = <<0>>
               /\ fault[w] = "none" /\ ProcOf[w] \in alive
    BY FileLockAssumption DEF Init, Main
  <1>3. ASSUME NEW w \in Waiter PROVE Nested(w) /\ JudgedDead(w) /\ MovesTheDead(w)
    <2>1. Len(path[w]) = 0 /\ Len(waited[w]) = 1
      <3>1. Len(<<>>) = 0 /\ Len(<<0>>) = 1
        OBVIOUS
      <3>2. QED
        BY <1>2, <3>1
    <2>2. Nested(w)
      BY <1>2, <2>1 DEF Nested, UnderClaim
    <2>3. JudgedDead(w) /\ MovesTheDead(w)
      BY <1>2, <2>1 DEF JudgedDead, MovesTheDead
    <2>4. QED
      BY <2>2, <2>3
  <1>4. \A w \in Waiter : ~Holds(w) /\ ~HoldsClaim(w)
    BY <1>2 DEF Holds, HoldsClaim, UnderClaim
  <1>5. QED
    BY <1>1, <1>3, <1>4 DEF IInv, NamesItsOwner, OneOwner, Exclusive

LEMMA NextKeeps == IInv /\ [Next]_vars => IInv'
  <1> SUFFICES ASSUME IInv, [Next]_vars PROVE IInv'
    OBVIOUS
  <1>1. ASSUME NEW w \in Waiter, Step(w) PROVE IInv'
    BY <1>1, StepKeeps
  <1>2. ASSUME NEW p \in Proc, Kill(p) PROVE IInv'
    BY <1>2, KillKeeps
  <1>3. CASE UNCHANGED vars
    BY <1>3 DEF vars, IInv, TypeOK, Nested, JudgedDead, MovesTheDead, NamesItsOwner, OneOwner,
                Exclusive, Holds, HoldsClaim, Over, Live, Target, Dead
  <1>4. QED
    BY <1>1, <1>2, <1>3 DEF Next, Finished

(* The inductive invariant holds of every reachable state.                 *)
THEOREM Inductive == Spec => []IInv
  BY InitHolds, NextKeeps, PTL DEF Spec

-----------------------------------------------------------------------------
(* What it comes to. *)

(* Every variable keeps its type.                                          *)
THEOREM TypeCorrect == Spec => []TypeOK
  <1>1. IInv => TypeOK
    BY DEF IInv
  <1>2. QED
    BY <1>1, Inductive, PTL

(* At most one caller holds the lock, whatever runs and whatever dies.     *)
THEOREM MutualExclusion == Spec => []Exclusive
  <1>1. IInv => Exclusive
    BY DEF IInv, OneOwner
  <1>2. QED
    BY <1>1, Inductive, PTL

(* Nor do two callers hold the claim on one dead holder's lock.            *)
THEOREM ClaimExclusion == Spec => []OneOwner
  <1>1. IInv => OneOwner
    BY DEF IInv
  <1>2. QED
    BY <1>1, Inductive, PTL

(* A holder's file says who it is for as long as it holds.                 *)
THEOREM OwnerIsNamed == Spec => []NamesItsOwner
  <1>1. IInv => NamesItsOwner
    BY DEF IInv
  <1>2. QED
    BY <1>1, Inductive, PTL

(* No caller ever has a lock to put back, so none is told that two may     *)
(* hold it, unless a hand replaces a lock: FileLockByHand.                 *)
THEOREM NothingToPutBack == Spec => []NeverReplaced
  <1>1. IInv => NeverReplaced
    BY DEF IInv, MovesTheDead, NeverReplaced
  <1>2. QED
    BY <1>1, Inductive, PTL

(* A live process's lock or claim goes only by its own release.            *)
THEOREM LiveLocksStay == Spec => LiveLockStays
  <1> DEFINE Stays(p) == \/ p \in DOMAIN at' /\ at'[p] = at[p]
                         \/ \E w \in Waiter : /\ MyText(w) = at[p]
                                              /\ pc[w] = "release"
                                              /\ path[w] = p
  <1>1. ASSUME IInv, NEW w \in Waiter, Step(w), NEW p \in DOMAIN at, Live(at[p])
        PROVE  Stays(p)
    <2>1. CASE pc[w] = "move" /\ p = Target(w)
      BY <1>1, <2>1, MovedIsDead
    <2>2. CASE pc[w] = "release" /\ p = path[w]
      <3>1. (Holds(w) /\ p = Main) \/ HoldsClaim(w)
        BY <2>2 DEF Holds, HoldsClaim, UnderClaim
      <3>2. at[p] = MyText(w)
        BY <1>1, <2>2, <3>1, OwnerIsAlive
      <3>3. QED
        BY <2>2, <3>2
    <2>3. QED
      BY <1>1, <2>1, <2>2, FileKept
  <1>2. ASSUME UNCHANGED at, NEW p \in DOMAIN at PROVE Stays(p)
    BY <1>2
  <1>3. IInv /\ [Next]_vars => [\A p \in DOMAIN at : Live(at[p]) => Stays(p)]_vars
    BY <1>1, <1>2 DEF Next, Kill, Finished, vars
  <1>4. QED
    BY <1>3, Inductive, PTL DEF Spec, LiveLockStays

(* A caller whose call is over takes no step, and one that holds the lock  *)
(* goes on holding it until its call is over.                              *)
LEMMA OverIsOver ==
  ASSUME TypeOK, NEW w \in Waiter, Step(w)
  PROVE  ~Over(w)
  BY DEF Over, Step, CreateMine, FillMine, LinkTakes, LinkFails, DropMine, ReadLock, JudgeGone, JudgeLive,
     GiveUp, Wait, Take, Recheck, Move, Confirm, PutBack, Discard, ReleaseClaim, List, SweepFile,
     SweepClaim, Weigh, SweepThrows, SweepDone, Dispose, ReleaseLock

LEMMA HeldUntilOver ==
  ASSUME IInv, NEW w \in Waiter, Step(w), Holds(w)
  PROVE  Holds(w)' \/ Over(w)'
  <1> USE DEF TypeOK, Goto, Holds, Over
  <1>0. TypeOK /\ Nested(w) /\ MovesTheDead(w)
    BY DEF IInv
  <1>l. /\ Len(path[w]) \in Nat /\ (Len(path[w]) = 0 <=> path[w] = Main)
    BY <1>0, LenZero DEF Main, Path
  <1>1. CASE CreateMine(w)
    BY <1>0, <1>l, <1>1 DEF CreateMine, Nested
  <1>2. CASE FillMine(w)
    BY <1>0, <1>l, <1>2 DEF FillMine, Nested
  <1>3. CASE LinkTakes(w)
    BY <1>0, <1>l, <1>3 DEF LinkTakes, Nested
  <1>4. CASE LinkFails(w)
    BY <1>0, <1>l, <1>4 DEF LinkFails, Nested
  <1>5. CASE DropMine(w)
    BY <1>0, <1>l, <1>5 DEF DropMine, Nested
  <1>6. CASE ReadLock(w)
    BY <1>0, <1>l, <1>6 DEF ReadLock, Nested
  <1>7. CASE JudgeGone(w)
    BY <1>0, <1>l, <1>7 DEF JudgeGone, Nested
  <1>8. CASE JudgeLive(w)
    BY <1>0, <1>l, <1>8 DEF JudgeLive, Nested
  <1>9. CASE GiveUp(w)
    BY <1>0, <1>l, <1>9 DEF GiveUp, Unwind, Nested, Acquiring
  <1>10. CASE Wait(w)
    BY <1>0, <1>l, <1>10 DEF Wait, Nested
  <1>11. CASE Take(w)
    BY <1>0, <1>l, <1>11 DEF Take, Nested
  <1>12. CASE Recheck(w)
    BY <1>0, <1>l, <1>12 DEF Recheck, Nested
  <1>13. CASE Move(w)
    BY <1>0, <1>l, <1>13 DEF Move, Nested
  <1>14. CASE Confirm(w)
    BY <1>0, <1>l, <1>14 DEF Confirm, Nested
  <1>15. CASE PutBack(w)
    BY <1>0, <1>l, <1>15 DEF PutBack, MovesTheDead
  <1>16. CASE Discard(w)
    BY <1>0, <1>l, <1>16 DEF Discard, Nested
  <1>17. CASE ReleaseClaim(w)
    BY <1>0, <1>l, <1>17 DEF ReleaseClaim, Unwind, Nested
  <1>18. CASE List(w)
    BY <1>0, <1>l, <1>18 DEF List, Nested
  <1>19. CASE SweepFile(w)
    BY <1>0, <1>l, <1>19 DEF SweepFile, Nested
  <1>20. CASE SweepClaim(w)
    BY <1>0, <1>l, <1>20 DEF SweepClaim, Nested
  <1>21. CASE Weigh(w)
    BY <1>0, <1>l, <1>21 DEF Weigh, Nested
  <1>22. CASE SweepThrows(w)
    BY <1>0, <1>l, <1>22 DEF SweepThrows, Nested
  <1>23. CASE SweepDone(w)
    BY <1>0, <1>l, <1>23 DEF SweepDone, Nested
  <1>24. CASE Dispose(w)
    BY <1>0, <1>l, <1>24 DEF Dispose, Nested
  <1>25. CASE ReleaseLock(w)
    BY <1>0, <1>l, <1>25 DEF ReleaseLock, Nested
  <1>26. QED
    BY <1>1, <1>2, <1>3, <1>4, <1>5, <1>6, <1>7, <1>8, <1>9, <1>10, <1>11, <1>12, <1>13, <1>14, <1>15,
       <1>16, <1>17, <1>18, <1>19, <1>20, <1>21, <1>22, <1>23, <1>24, <1>25 DEF Step

(* The lock's files implement the lock its callers are promised.           *)
THEOREM Implementation == Spec => ImplementsMutex
  <1>1. Init => Promise!Init
    <2> SUFFICES ASSUME Init PROVE Promise!Init
      OBVIOUS
    <2>1. \A w \in Waiter : pc[w] = "write" /\ bottom[w] = 0
      BY DEF Init
    <2>2. \A w \in Waiter : Standing(w) = "waiting"
      BY <2>1 DEF Standing, Over, Holds
    <2>3. QED
      BY <2>2 DEF Promise!Init
  <1>2. IInv /\ [Next]_vars => [Promise!Next]_([w \in Waiter |-> Standing(w)])
    <2> SUFFICES ASSUME IInv, [Next]_vars
                 PROVE  \/ Promise!Next
                        \/ UNCHANGED [w \in Waiter |-> Standing(w)]
      OBVIOUS
    <2>1. ASSUME NEW w \in Waiter, Step(w)
          PROVE  \/ Promise!Enter(w) \/ Promise!Leave(w) \/ Promise!GiveUp(w)
                 \/ UNCHANGED [v \in Waiter |-> Standing(v)]
      <3>1. \A v \in Waiter : v # w => Standing(v)' = Standing(v)
        BY <2>1, OthersStand DEF IInv, Standing, Over, Holds
      <3>2. [v \in Waiter |-> Standing(v)]' =
              [[v \in Waiter |-> Standing(v)] EXCEPT ![w] = Standing(w)']
        BY <3>1
      <3>3. CASE Standing(w)' = Standing(w)
        BY <3>1, <3>3
      <3>4. CASE LinkTakes(w) /\ path[w] = Main
        <4>1. Main \notin DOMAIN at /\ pc[w] = "link"
          BY <3>4 DEF LinkTakes
        <4>2. \A v \in Waiter : ~Holds(v)
          BY <4>1, OwnerIsAlive
        <4>3. Standing(w) = "waiting" /\ \A v \in Waiter : Standing(v) # "holding"
          BY <4>1, <4>2 DEF Standing, Over
        <4>4. Standing(w)' = "holding"
          BY <3>4 DEF LinkTakes, Standing, Over, Holds, Goto, IInv, TypeOK
        <4>5. QED
          BY <3>2, <4>3, <4>4 DEF Promise!Enter
      <3>5. ASSUME ~(LinkTakes(w) /\ path[w] = Main), Standing(w)' # Standing(w)
            PROVE  Standing(w) # "gone" /\ Standing(w)' = "gone"
        <4>1. ~Over(w)
          BY <2>1, OverIsOver DEF IInv
        <4>2. Holds(w)' => Holds(w)
          BY <2>1, <3>5, OwnsByLink DEF IInv
        <4>3. CASE Holds(w) /\ ~Holds(w)' /\ ~Over(w)'
          BY <2>1, <4>3, HeldUntilOver
        <4>4. QED
          BY <3>5, <4>1, <4>2, <4>3 DEF Standing
      <3>6. QED
        BY <3>2, <3>3, <3>4, <3>5 DEF Promise!Leave, Promise!GiveUp, Standing
    <2>2. ASSUME NEW p \in Proc, Kill(p) PROVE Promise!Crash(p)
      <3>1. \A w \in Waiter : Standing(w)' = IF ProcOf[w] = p THEN "gone" ELSE Standing(w)
        BY <2>2 DEF Kill, Standing, Over, Holds, IInv, TypeOK
      <3>2. QED
        BY <3>1 DEF Promise!Crash
    <2>3. CASE UNCHANGED vars
      BY <2>3 DEF vars, Standing, Over, Holds
    <2>4. QED
      BY <2>1, <2>2, <2>3 DEF Next, Finished, Promise!Next
  <1>3. QED
    BY <1>1, <1>2, Inductive, PTL DEF Spec, ImplementsMutex, Promise!Spec

-----------------------------------------------------------------------------
(* What a call leaves behind. *)

(* A holder file is of an acquire its caller is still in: its path is a    *)
(* beginning of the caller's, and the innermost acquire's is there only    *)
(* between its write and its `finally`.                                    *)
FilesNested(w) ==
  pc[w] # "dead" =>
    \A m \in HolderFiles(w) :
      /\ bottom[w] <= Len(m.path)
      /\ Len(m.path) <= Len(path[w])
      /\ \A i \in 1 .. Len(m.path) : m.path[i] = path[w][i]
      /\ Len(m.path) = Len(path[w]) =>
           pc[w] \in {"fill", "link", "read", "judge", "wait", "take", "drop"}

(* A lock is aside only while the caller that moved it is at it. *)
AsideInHand(w) ==
  pc[w] # "dead" /\ aside[w] # None => pc[w] \in {"confirm", "putback", "discard"}

(* A lock or claim that names a live process is some caller's of it. *)
LiveIsOwned ==
  \A p \in DOMAIN at : Live(at[p]) => \E v \in Waiter : MyText(v) = at[p] /\ Owns(v, p)

(* What a sweep has yet to do about a claim: it is listed, or the caller   *)
(* weighs it, or is taking it over and has not moved it.                   *)
AmidClaim(w, p) ==
  \/ pc[w] = "weigh" /\ path[w] = p /\ found[w] = at[p]
  \/ /\ pc[w] # "weigh" /\ bottom[w] > 0
     /\ Len(p) + 1 = bottom[w] /\ bottom[w] <= Len(path[w])
     /\ \A i \in 1 .. Len(p) : path[w][i] = p[i]
     /\ path[w][bottom[w]] = at[p]
     /\ Len(path[w]) = bottom[w] => pc[w] \notin {"confirm", "discard", "release"}

Sweeping(w) == pc[w] \in {"sweep", "weigh", "held"} \/ bottom[w] > 0

(* No stale claim is out of a sweeper's sight, and a holder has looked at  *)
(* all it listed.                                                          *)
SweepMissesNone(w) ==
  /\ pc[w] = "held" => todo[w] = {}
  /\ Sweeping(w) =>
       \A p \in DOMAIN at :
         at[p] \in Stale => [kind |-> "claim", path |-> p] \in todo[w] \/ AmidClaim(w, p)

(* The inductive invariant of what is left behind, on top of the lock's.   *)
Tidy ==
  /\ IInv
  /\ LiveIsOwned
  /\ \A w \in Waiter : FilesNested(w) /\ AsideInHand(w) /\ SweepMissesNone(w)

(* A file comes to a path only by a link, and says who linked it. *)
LEMMA FileNew ==
  ASSUME IInv, NEW w \in Waiter, Step(w), NEW p \in DOMAIN at'
  PROVE  \/ p \in DOMAIN at /\ at'[p] = at[p]
         \/ LinkTakes(w) /\ p = path[w] /\ at'[p] = MyText(w)
  <1>1. CASE LinkTakes(w)
    BY <1>1 DEF LinkTakes, Linked
  <1>2. CASE Move(w)
    BY <1>2, RemovedFacts DEF Move
  <1>3. CASE PutBack(w)
    BY <1>3 DEF PutBack, IInv, MovesTheDead
  <1>4. CASE ReleaseClaim(w)
    BY <1>4, RemovedFacts DEF ReleaseClaim
  <1>5. CASE ReleaseLock(w)
    BY <1>5, RemovedFacts DEF ReleaseLock
  <1>6. CASE UNCHANGED at
    BY <1>6
  <1>7. QED
    BY <1>1, <1>2, <1>3, <1>4, <1>5, <1>6
    DEF Step, CreateMine, FillMine, LinkFails, DropMine, ReadLock, JudgeGone, JudgeLive,
        GiveUp, Wait, Take, Recheck, Confirm, Discard, List, SweepFile, SweepClaim, Weigh,
        SweepThrows, SweepDone, Dispose

(* What a caller owns it owns until it releases it. *)
LEMMA OwnsKept ==
  ASSUME IInv, NEW w \in Waiter, Step(w)
  PROVE  /\ Holds(w) /\ ~(pc[w] = "release" /\ path[w] = Main) => Holds(w)'
         /\ HoldsClaim(w) /\ pc[w] # "release" => HoldsClaim(w)' /\ path'[w] = path[w]
  <1> USE DEF TypeOK, Goto, Holds, HoldsClaim, UnderClaim, Nested
  <1>0. TypeOK /\ Nested(w) /\ MovesTheDead(w)
    BY DEF IInv
  <1>l. Len(path[w]) \in Nat /\ (Len(path[w]) = 0 <=> path[w] = Main)
    BY <1>0, LenZero DEF Main, Path

  <1>1. CASE CreateMine(w)
    BY <1>0, <1>l, <1>1 DEF CreateMine
  <1>2. CASE FillMine(w)
    BY <1>0, <1>l, <1>2 DEF FillMine
  <1>3. CASE LinkTakes(w)
    BY <1>0, <1>l, <1>3 DEF LinkTakes
  <1>4. CASE LinkFails(w)
    BY <1>0, <1>l, <1>4 DEF LinkFails
  <1>5. CASE DropMine(w)
    BY <1>0, <1>l, <1>5 DEF DropMine
  <1>6. CASE ReadLock(w)
    BY <1>0, <1>l, <1>6 DEF ReadLock
  <1>7. CASE JudgeGone(w)
    BY <1>0, <1>l, <1>7 DEF JudgeGone
  <1>8. CASE JudgeLive(w)
    BY <1>0, <1>l, <1>8 DEF JudgeLive
  <1>9. CASE GiveUp(w)
    BY <1>0, <1>l, <1>9 DEF GiveUp, Unwind, Acquiring
  <1>10. CASE Wait(w)
    BY <1>0, <1>l, <1>10 DEF Wait
  <1>11. CASE Take(w)
    BY <1>0, <1>l, <1>11 DEF Take
  <1>12. CASE Recheck(w)
    BY <1>0, <1>l, <1>12 DEF Recheck
  <1>13. CASE Move(w)
    BY <1>0, <1>l, <1>13 DEF Move
  <1>14. CASE Confirm(w)
    BY <1>0, <1>l, <1>14 DEF Confirm
  <1>15. CASE PutBack(w)
    BY <1>0, <1>l, <1>15 DEF PutBack, MovesTheDead
  <1>16. CASE Discard(w)
    BY <1>0, <1>l, <1>16 DEF Discard
  <1>17. CASE ReleaseClaim(w)
    BY <1>0, <1>l, <1>17 DEF ReleaseClaim, Unwind
  <1>18. CASE List(w)
    BY <1>0, <1>l, <1>18 DEF List
  <1>19. CASE SweepFile(w)
    BY <1>0, <1>l, <1>19 DEF SweepFile
  <1>20. CASE SweepClaim(w)
    BY <1>0, <1>l, <1>20 DEF SweepClaim
  <1>21. CASE Weigh(w)
    <2>1. CASE Live(found[w])
      BY <1>0, <1>l, <1>21, <2>1 DEF Weigh
    <2>2. CASE ~Live(found[w])
      BY <1>0, <1>l, <1>21, <2>2 DEF Weigh
    <2>3. QED
      BY <2>1, <2>2
  <1>22. CASE SweepThrows(w)
    BY <1>0, <1>l, <1>22 DEF SweepThrows
  <1>23. CASE SweepDone(w)
    BY <1>0, <1>l, <1>23 DEF SweepDone
  <1>24. CASE Dispose(w)
    BY <1>0, <1>l, <1>24 DEF Dispose
  <1>25. CASE ReleaseLock(w)
    BY <1>0, <1>l, <1>25 DEF ReleaseLock
  <1>26. QED
    BY <1>1, <1>2, <1>3, <1>4, <1>5, <1>6, <1>7, <1>8, <1>9, <1>10, <1>11, <1>12, <1>13, <1>14, <1>15,
       <1>16, <1>17, <1>18, <1>19, <1>20, <1>21, <1>22, <1>23, <1>24, <1>25 DEF Step

(* A live process's file has its owner after every step. *)
LEMMA OwnedStep ==
  ASSUME IInv, LiveIsOwned, NEW w \in Waiter, Step(w)
  PROVE  LiveIsOwned'
  <1>0. TypeOK /\ Nested(w) /\ TypeOK'
    BY TypeStep DEF IInv, Next
  <1>1. \A v \in Waiter : v # w =>
          /\ alive' = alive /\ (Holds(v)' <=> Holds(v))
          /\ path'[v] = path[v] /\ (HoldsClaim(v)' <=> HoldsClaim(v))
    BY <1>0, OthersStand DEF Holds, HoldsClaim
  <1>a. alive' = alive
    BY DEF Step, CreateMine, FillMine, LinkTakes, LinkFails, DropMine, ReadLock, JudgeGone,
           JudgeLive, GiveUp, Wait, Take, Recheck, Move, Confirm, PutBack, Discard,
           ReleaseClaim, List, SweepFile, SweepClaim, Weigh, SweepThrows, SweepDone, Dispose,
           ReleaseLock
  <1>2. ASSUME NEW p \in DOMAIN at', at'[p] \in alive'
        PROVE  \E v \in Waiter : MyText(v) = at'[p] /\ Owns(v, p)'
    <2>1. CASE LinkTakes(w) /\ p = path[w] /\ at'[p] = MyText(w)
      <3>1. pc'[w] = "drop" /\ path'[w] = path[w]
        BY <1>0, <2>1 DEF LinkTakes, Goto, TypeOK
      <3>2. Owns(w, p)'
        BY <2>1, <3>1 DEF Owns, Holds, HoldsClaim, UnderClaim
      <3>3. QED
        BY <2>1, <3>2
    <2>2. CASE p \in DOMAIN at /\ at'[p] = at[p]
      <3>1. PICK v \in Waiter : MyText(v) = at[p] /\ Owns(v, p)
        BY <1>a, <1>2, <2>2 DEF LiveIsOwned, Live
      <3>2. CASE v # w
        BY <1>1, <2>2, <3>1, <3>2 DEF Owns
      <3>3. CASE v = w /\ ~(pc[w] = "release" /\ p = path[w])
        BY <2>2, <3>1, <3>3, OwnsKept DEF Owns
      <3>4. CASE v = w /\ pc[w] = "release" /\ p = path[w]
        <4>1. p \notin DOMAIN at'
          <5>1. ReleaseClaim(w) \/ ReleaseLock(w)
            BY <3>4 DEF Step, CreateMine, FillMine, LinkTakes, LinkFails, DropMine, ReadLock,
              JudgeGone, JudgeLive, GiveUp, Wait, Take, Recheck, Move, Confirm, PutBack,
              Discard, List, SweepFile, SweepClaim, Weigh, SweepThrows, SweepDone, Dispose
          <5>2. at' = Removed(p)
            BY <3>4, <5>1 DEF ReleaseClaim, ReleaseLock
          <5>3. QED
            BY <5>2, RemovedFacts
        <4>2. QED
          BY <1>2, <4>1
      <3>5. QED
        BY <3>2, <3>3, <3>4
    <2>3. QED
      BY <2>1, <2>2, FileNew
  <1>3. QED
    BY <1>2 DEF LiveIsOwned, MyText, Live

(* Where a caller is bears on its own holder files alone. *)
LEMMA OthersFiles ==
  ASSUME IInv, NEW w \in Waiter, Step(w), NEW v \in Waiter, v # w
  PROVE  HolderFiles(v)' \subseteq HolderFiles(v) /\ aside'[v] \in {None, aside[v]}
  <1> USE DEF HolderFiles
  <1>0. TypeOK
    BY DEF IInv
  <1>1. mine' \subseteq mine \cup [by : {w}, path : Path, text : Text]
    <2>1. MyText(w) \in Text /\ Junk \in Text /\ path[w] \in Path
      BY <1>0, FileLockAssumption DEF MyText, Text, TypeOK
    <2>2. CASE CreateMine(w)
      BY <2>1, <2>2 DEF CreateMine
    <2>3. CASE FillMine(w)
      BY <2>1, <2>3 DEF FillMine
    <2>4. QED
      BY <2>2, <2>3
      DEF Step, LinkTakes, LinkFails, DropMine, ReadLock, JudgeGone, JudgeLive, GiveUp, Wait,
          Take, Recheck, Move, Confirm, PutBack, Discard, ReleaseClaim, List, SweepFile,
          SweepClaim, Weigh, SweepThrows, SweepDone, Dispose, ReleaseLock, Unwind
  <1>2. aside'[v] \in {None, aside[v]}
    <2>1. CASE SweepFile(w)
      BY <1>0, <2>1 DEF SweepFile, TypeOK
    <2>2. CASE Move(w) \/ Discard(w)
      BY <1>0, <2>2 DEF Move, Discard, TypeOK
    <2>3. QED
      BY <2>1, <2>2
      DEF Step, CreateMine, FillMine, LinkTakes, LinkFails, DropMine, ReadLock, JudgeGone,
          JudgeLive, GiveUp, Wait, Take, Recheck, Confirm, PutBack, ReleaseClaim, List,
          SweepClaim, Weigh, SweepThrows, SweepDone, Dispose, ReleaseLock, Unwind
  <1>3. QED
    BY <1>1, <1>2

(* A holder file's path, when it is as long as its caller's, is the same.  *)
LEMMA InnermostFile ==
  ASSUME TypeOK, NEW w \in Waiter, FilesNested(w), pc[w] # "dead",
         NEW m \in HolderFiles(w), Len(m.path) = Len(path[w])
  PROVE  m.path = path[w]
  <1>1. m.path \in Seq(Text) /\ path[w] \in Seq(Text)
    BY DEF TypeOK, HolderFiles, Path
  <1>2. \A i \in 1 .. Len(m.path) : m.path[i] = path[w][i]
    BY DEF FilesNested
  <1>3. QED
    BY <1>1, <1>2, SeqEqual

(* A caller that is between acquires has no holder file. *)
(* It is between acquires, or done with the one its sweep began. *)
Idle(w) ==
  \/ pc[w] \in {"list", "sweep", "weigh", "held", "done", "failed"}
  \/ pc[w] = "release" /\ (path[w] = Main \/ Len(path[w]) = bottom[w])

LEMMA NoFiles ==
  ASSUME TypeOK, NEW w \in Waiter, FilesNested(w), Nested(w),
         Idle(w)
  PROVE  HolderFiles(w) = {}
  <1>1. ASSUME NEW m \in HolderFiles(w) PROVE FALSE
    <2>1. /\ Len(m.path) \in Nat /\ Len(path[w]) \in Nat /\ bottom[w] \in Nat
          /\ Len(Main) = 0
      BY DEF TypeOK, HolderFiles, Path, Main
    <2>2. /\ bottom[w] <= Len(m.path) /\ Len(m.path) <= Len(path[w])
          /\ Len(m.path) = Len(path[w]) =>
               pc[w] \in {"fill", "link", "read", "judge", "wait", "take", "drop"}
      BY DEF FilesNested, Idle
    <2>3. QED
      BY <2>1, <2>2 DEF Nested, Idle
  <1>2. QED
    BY <1>1

(* A step of its own keeps a caller's files those of the acquires it is in. *)
LEMMA FilesStep ==
  ASSUME IInv, NEW w \in Waiter, FilesNested(w), Step(w)
  PROVE  FilesNested(w)'
  <1> USE DEF Goto
  <1>0. TypeOK /\ Nested(w) /\ MovesTheDead(w)
    BY DEF IInv
  <1>l. /\ Len(path[w]) \in Nat /\ bottom[w] \in Nat /\ path[w] \in Path
        /\ pc[w] \in PC /\ pc \in [Waiter -> PC] /\ path \in [Waiter -> Path]
        /\ bottom \in [Waiter -> Nat]
        /\ \A m \in HolderFiles(w) : m.path \in Path /\ Len(m.path) \in Nat
    BY <1>0 DEF TypeOK, Path, HolderFiles
  <1>d. pc[w] # "dead"
    BY <1>0, OverIsOver DEF Over
  <1>f. \A m \in HolderFiles(w) :
          /\ bottom[w] <= Len(m.path)
          /\ Len(m.path) <= Len(path[w])
          /\ \A i \in 1 .. Len(m.path) : m.path[i] = path[w][i]
          /\ Len(m.path) = Len(path[w]) =>
               pc[w] \in {"fill", "link", "read", "judge", "wait", "take", "drop"}
    BY <1>d DEF FilesNested
  (* Steps that write no holder file and leave the caller where it was.     *)
  <1>k. ASSUME HolderFiles(w)' \subseteq HolderFiles(w),
               path'[w] = path[w], bottom'[w] = bottom[w],
               \/ pc'[w] \in {"fill", "link", "read", "judge", "wait", "take", "drop"}
               \/ pc[w] \notin {"fill", "link", "read", "judge", "wait", "take", "drop"}
        PROVE  FilesNested(w)'
    BY <1>f, <1>k DEF FilesNested
  (* Steps that leave it no holder file at all.                             *)
  <1>n. ASSUME HolderFiles(w)' = {} PROVE FilesNested(w)'
    BY <1>n DEF FilesNested

  <1>1. CASE CreateMine(w)
    <2>1. /\ pc'[w] = "fill" /\ path'[w] = path[w] /\ bottom'[w] = bottom[w]
          /\ \A m \in HolderFiles(w)' : m \in HolderFiles(w) \/ m.path = path[w]
      BY <1>l, <1>1 DEF CreateMine, HolderFiles
    <2>2. bottom[w] <= Len(path[w])
      BY <1>0, <1>1 DEF CreateMine, Nested, Acquiring
    <2>3. QED
      BY <1>f, <1>l, <2>1, <2>2 DEF FilesNested
  <1>2. CASE FillMine(w)
    <2>1. /\ pc'[w] = "link" /\ path'[w] = path[w] /\ bottom'[w] = bottom[w]
          /\ \A m \in HolderFiles(w)' : m \in HolderFiles(w) \/ m.path = path[w]
      BY <1>l, <1>2 DEF FillMine, HolderFiles
    <2>2. bottom[w] <= Len(path[w])
      BY <1>0, <1>2 DEF FillMine, Nested, Acquiring
    <2>3. QED
      BY <1>f, <1>l, <2>1, <2>2 DEF FilesNested
  <1>3. CASE LinkTakes(w)
    <2>1. HolderFiles(w)' \subseteq HolderFiles(w) /\ path'[w] = path[w] /\ bottom'[w] = bottom[w]
      BY <1>0, <1>l, <1>3 DEF LinkTakes, HolderFiles
    <2>2. QED
      BY <1>k, <1>l, <2>1, <1>3 DEF LinkTakes
  <1>4. CASE LinkFails(w)
    <2>1. HolderFiles(w)' \subseteq HolderFiles(w) /\ path'[w] = path[w] /\ bottom'[w] = bottom[w]
      BY <1>0, <1>l, <1>4 DEF LinkFails, HolderFiles
    <2>2. QED
      BY <1>k, <1>l, <2>1, <1>4 DEF LinkFails
  <1>5. CASE DropMine(w)
    <2>1. /\ path'[w] = path[w] /\ bottom'[w] = bottom[w]
          /\ \A m \in HolderFiles(w)' : m \in HolderFiles(w) /\ m.path # path[w]
      BY <1>l, <1>5 DEF DropMine, HolderFiles
    <2>2. \A m \in HolderFiles(w)' : Len(m.path) # Len(path[w])
      BY <1>0, <1>d, <2>1, InnermostFile
    <2>3. QED
      BY <1>f, <1>l, <2>1, <2>2 DEF FilesNested
  <1>6. CASE ReadLock(w)
    <2>1. HolderFiles(w)' \subseteq HolderFiles(w) /\ path'[w] = path[w] /\ bottom'[w] = bottom[w]
      BY <1>0, <1>l, <1>6 DEF ReadLock, HolderFiles
    <2>2. QED
      BY <1>k, <1>l, <2>1, <1>6 DEF ReadLock
  <1>7. CASE JudgeGone(w)
    <2>1. HolderFiles(w)' \subseteq HolderFiles(w) /\ path'[w] = path[w] /\ bottom'[w] = bottom[w]
      BY <1>0, <1>l, <1>7 DEF JudgeGone, HolderFiles
    <2>2. QED
      BY <1>k, <1>l, <2>1, <1>7 DEF JudgeGone
  <1>8. CASE JudgeLive(w)
    <2>1. HolderFiles(w)' \subseteq HolderFiles(w) /\ path'[w] = path[w] /\ bottom'[w] = bottom[w]
      BY <1>0, <1>l, <1>8 DEF JudgeLive, HolderFiles
    <2>2. QED
      BY <1>k, <1>l, <2>1, <1>8 DEF JudgeLive
  <1>9. CASE GiveUp(w)
    BY <1>n, <1>9 DEF GiveUp, Unwind, HolderFiles
  <1>10. CASE Wait(w)
    <2>1. HolderFiles(w)' \subseteq HolderFiles(w) /\ path'[w] = path[w] /\ bottom'[w] = bottom[w]
      BY <1>0, <1>l, <1>10 DEF Wait, HolderFiles
    <2>2. QED
      BY <1>k, <1>l, <2>1, <1>10 DEF Wait
  <1>11. CASE Take(w)
    <2>1. found[w] \in Text
      BY <1>0, <1>11 DEF Take, Nested, TypeOK
    <2>2. /\ path'[w] = Append(path[w], found[w]) /\ bottom'[w] = bottom[w]
          /\ HolderFiles(w)' = HolderFiles(w)
      BY <1>l, <1>11 DEF Take, HolderFiles
    <2>3. /\ Len(path'[w]) = Len(path[w]) + 1
          /\ \A i \in 1 .. Len(path[w]) : path'[w][i] = path[w][i]
      BY <1>l, <2>1, <2>2, AppendFacts DEF Path
    <2>4. QED
      BY <1>f, <1>l, <2>2, <2>3 DEF FilesNested
  <1>12. CASE Recheck(w)
    <2>1. HolderFiles(w)' \subseteq HolderFiles(w) /\ path'[w] = path[w] /\ bottom'[w] = bottom[w]
      BY <1>0, <1>l, <1>12 DEF Recheck, HolderFiles
    <2>2. QED
      BY <1>k, <1>l, <2>1, <1>12 DEF Recheck
  <1>13. CASE Move(w)
    <2>1. HolderFiles(w)' = HolderFiles(w) /\ path'[w] = path[w] /\ bottom'[w] = bottom[w]
      BY <1>13 DEF Move, HolderFiles
    <2>2. QED
      BY <1>k, <2>1, <1>13 DEF Move
  <1>14. CASE Confirm(w)
    <2>1. HolderFiles(w)' \subseteq HolderFiles(w) /\ path'[w] = path[w] /\ bottom'[w] = bottom[w]
      BY <1>0, <1>l, <1>14 DEF Confirm, HolderFiles
    <2>2. QED
      BY <1>k, <1>l, <2>1, <1>14 DEF Confirm
  <1>15. CASE PutBack(w)
    <2>1. HolderFiles(w)' \subseteq HolderFiles(w) /\ path'[w] = path[w] /\ bottom'[w] = bottom[w]
      BY <1>0, <1>l, <1>15 DEF PutBack, HolderFiles
    <2>2. QED
      BY <1>k, <1>l, <2>1, <1>15 DEF PutBack
  <1>16. CASE Discard(w)
    <2>1. HolderFiles(w)' \subseteq HolderFiles(w) /\ path'[w] = path[w] /\ bottom'[w] = bottom[w]
      BY <1>0, <1>l, <1>16 DEF Discard, HolderFiles
    <2>2. QED
      BY <1>k, <1>l, <2>1, <1>16 DEF Discard
  <1>17. CASE ReleaseClaim(w)
    <2>1. CASE fault[w] # "none"
      BY <1>n, <1>17, <2>1 DEF ReleaseClaim, Unwind, HolderFiles
    <2>2. CASE fault[w] = "none" /\ Len(path[w]) = bottom[w]
      <3>0. Idle(w)
        BY <1>17, <2>2 DEF Idle, ReleaseClaim
      <3>1. HolderFiles(w) = {}
        BY <1>0, <3>0, NoFiles
      <3>2. HolderFiles(w)' = HolderFiles(w)
        BY <1>17, <2>2 DEF ReleaseClaim, HolderFiles
      <3>3. QED
        BY <1>n, <3>1, <3>2
    <2>3. CASE fault[w] = "none" /\ Len(path[w]) # bottom[w]
      <3>1. /\ path[w] # <<>> /\ path'[w] = Front(path[w]) /\ bottom'[w] = bottom[w]
            /\ HolderFiles(w)' = HolderFiles(w) /\ pc'[w] = "link" /\ pc[w] = "release"
        BY <1>l, <1>17, <2>3 DEF ReleaseClaim, HolderFiles, Main
      <3>2. /\ Len(path'[w]) = Len(path[w]) - 1
            /\ \A i \in 1 .. Len(path[w]) - 1 : path'[w][i] = path[w][i]
        BY <1>l, <3>1, FrontFacts DEF Path
      <3>3. \A m \in HolderFiles(w) : Len(m.path) <= Len(path[w]) - 1
        BY <1>f, <1>l, <3>1
      <3>4. QED
        BY <1>f, <1>l, <3>1, <3>2, <3>3 DEF FilesNested
    <2>4. QED
      BY <2>1, <2>2, <2>3
  <1>18. CASE List(w)
    <2>0. Idle(w)
      BY <1>18 DEF Idle, List
    <2>1. HolderFiles(w) = {}
      BY <1>0, <2>0, NoFiles
    <2>2. HolderFiles(w)' \subseteq HolderFiles(w)
      BY <1>18 DEF List, HolderFiles
    <2>3. QED
      BY <1>n, <2>1, <2>2
  <1>19. CASE SweepFile(w)
    <2>0. Idle(w)
      BY <1>19 DEF Idle, SweepFile
    <2>1. HolderFiles(w) = {}
      BY <1>0, <2>0, NoFiles
    <2>2. HolderFiles(w)' \subseteq HolderFiles(w)
      BY <1>19 DEF SweepFile, HolderFiles
    <2>3. QED
      BY <1>n, <2>1, <2>2
  <1>20. CASE SweepClaim(w)
    <2>0. Idle(w)
      BY <1>20 DEF Idle, SweepClaim
    <2>1. HolderFiles(w) = {}
      BY <1>0, <2>0, NoFiles
    <2>2. HolderFiles(w)' \subseteq HolderFiles(w)
      BY <1>20 DEF SweepClaim, HolderFiles
    <2>3. QED
      BY <1>n, <2>1, <2>2
  <1>21. CASE Weigh(w)
    <2>0. Idle(w)
      BY <1>21 DEF Idle, Weigh
    <2>1. HolderFiles(w) = {}
      BY <1>0, <2>0, NoFiles
    <2>2. HolderFiles(w)' \subseteq HolderFiles(w)
      BY <1>21 DEF Weigh, HolderFiles
    <2>3. QED
      BY <1>n, <2>1, <2>2
  <1>22. CASE SweepThrows(w)
    <2>0. Idle(w)
      BY <1>22 DEF Idle, SweepThrows
    <2>1. HolderFiles(w) = {}
      BY <1>0, <2>0, NoFiles
    <2>2. HolderFiles(w)' \subseteq HolderFiles(w)
      BY <1>22 DEF SweepThrows, HolderFiles
    <2>3. QED
      BY <1>n, <2>1, <2>2
  <1>23. CASE SweepDone(w)
    <2>0. Idle(w)
      BY <1>23 DEF Idle, SweepDone
    <2>1. HolderFiles(w) = {}
      BY <1>0, <2>0, NoFiles
    <2>2. HolderFiles(w)' \subseteq HolderFiles(w)
      BY <1>23 DEF SweepDone, HolderFiles
    <2>3. QED
      BY <1>n, <2>1, <2>2
  <1>24. CASE Dispose(w)
    <2>0. Idle(w)
      BY <1>24 DEF Idle, Dispose
    <2>1. HolderFiles(w) = {}
      BY <1>0, <2>0, NoFiles
    <2>2. HolderFiles(w)' \subseteq HolderFiles(w)
      BY <1>24 DEF Dispose, HolderFiles
    <2>3. QED
      BY <1>n, <2>1, <2>2
  <1>25. CASE ReleaseLock(w)
    <2>0. Idle(w)
      BY <1>25 DEF Idle, ReleaseLock
    <2>1. HolderFiles(w) = {}
      BY <1>0, <2>0, NoFiles
    <2>2. HolderFiles(w)' \subseteq HolderFiles(w)
      BY <1>25 DEF ReleaseLock, HolderFiles
    <2>3. QED
      BY <1>n, <2>1, <2>2
  <1>26. QED
    BY <1>1, <1>2, <1>3, <1>4, <1>5, <1>6, <1>7, <1>8, <1>9, <1>10, <1>11, <1>12, <1>13, <1>14, <1>15,
       <1>16, <1>17, <1>18, <1>19, <1>20, <1>21, <1>22, <1>23, <1>24, <1>25 DEF Step

(* What a caller moved aside it disposes of before it releases its claim.  *)
LEMMA AsideStep ==
  ASSUME IInv, NEW w \in Waiter, AsideInHand(w), Step(w)
  PROVE  AsideInHand(w)'
  <1> USE DEF Goto, AsideInHand
  <1>0. TypeOK /\ pc[w] # "dead"
    BY OverIsOver DEF IInv, Over
  <1>1. pc \in [Waiter -> PC] /\ aside \in [Waiter -> Text \cup {None}]
    BY <1>0 DEF TypeOK
  <1>2. CASE Move(w)
    BY <1>1, <1>2 DEF Move
  <1>3. CASE Confirm(w) \/ PutBack(w) \/ Discard(w)
    BY <1>1, <1>3 DEF Confirm, PutBack, Discard
  <1>4. CASE SweepFile(w)
    <2>1. pc'[w] = "sweep" /\ pc[w] = "sweep"
      BY <1>4 DEF SweepFile
    <2>2. aside'[w] \in {None, aside[w]}
      BY <1>1, <1>4 DEF SweepFile
    <2>3. QED
      BY <1>0, <2>1, <2>2
  <1>5. CASE aside' = aside /\ pc[w] \notin {"confirm", "putback", "discard"}
    BY <1>0, <1>5
  <1>6. QED
    BY <1>2, <1>3, <1>4, <1>5
    DEF Step, CreateMine, FillMine, LinkTakes, LinkFails, DropMine, ReadLock, JudgeGone,
        JudgeLive, GiveUp, Wait, Take, Recheck, ReleaseClaim, List, SweepClaim, Weigh,
        SweepThrows, SweepDone, Dispose, ReleaseLock

(* A stale text is nobody's who lives, and no file comes to say one. *)
LEMMA StaleOnlyGoes ==
  ASSUME IInv, NEW w \in Waiter, Step(w), NEW p \in DOMAIN at', at'[p] \in Stale
  PROVE  p \in DOMAIN at /\ at[p] = at'[p] /\ ~Live(at[p]) /\ at[p] # Junk /\ at[p] # None
  <1>1. MyText(w) \notin Stale /\ alive \subseteq Proc
    BY FileLockAssumption DEF MyText, IInv, TypeOK
  <1>2. p \in DOMAIN at /\ at'[p] = at[p]
    BY <1>1, FileNew
  <1>3. QED
    BY <1>1, <1>2, FileLockAssumption DEF Live, Text

(* A caller's listing is its own. *)
LEMMA OthersTodo ==
  ASSUME TypeOK, NEW w \in Waiter, Step(w), NEW v \in Waiter, v # w
  PROVE  todo'[v] = todo[v]
  BY DEF TypeOK, Step, CreateMine, FillMine, LinkTakes, LinkFails, DropMine, ReadLock,
         JudgeGone, JudgeLive, GiveUp, Unwind, Wait, Take, Recheck, Move, Confirm, PutBack,
         Discard, ReleaseClaim, List, SweepFile, SweepClaim, Weigh, SweepThrows, SweepDone,
         Dispose, ReleaseLock

(* A sweep misses no claim another caller's step leaves. *)
LEMMA OthersSweep ==
  ASSUME IInv, NEW w \in Waiter, Step(w), NEW v \in Waiter, v # w, SweepMissesNone(v)
  PROVE  SweepMissesNone(v)'
  <1>0. TypeOK
    BY DEF IInv
  <1>1. /\ pc'[v] = pc[v] /\ path'[v] = path[v] /\ bottom'[v] = bottom[v]
        /\ found'[v] = found[v] /\ todo'[v] = todo[v]
    BY <1>0, OthersStand, OthersTodo
  <1>2. ASSUME NEW p \in DOMAIN at', at'[p] \in Stale
        PROVE  p \in DOMAIN at /\ at[p] = at'[p]
    BY <1>2, StaleOnlyGoes
  <1>3. ASSUME NEW p \in DOMAIN at, at[p] = at'[p], AmidClaim(v, p)
        PROVE  AmidClaim(v, p)'
    BY <1>1, <1>3 DEF AmidClaim
  <1>4. QED
    BY <1>1, <1>2, <1>3 DEF SweepMissesNone, Sweeping

(* The claim a sweep is taking over, until it has moved it, is the target  *)
(* of the takeover at the bottom of its calls.                             *)
LEMMA AmidsTarget ==
  ASSUME NEW w, NEW p \in Seq(Text), path[w] \in Seq(Text), path[w] # <<>>,
         AmidClaim(w, p), pc[w] # "weigh", Len(path[w]) = bottom[w]
  PROVE  p = Target(w) /\ at[p] = Dead(w)
  <1>1. /\ Len(p) + 1 = Len(path[w]) /\ at[p] = Dead(w)
        /\ \A i \in 1 .. Len(p) : path[w][i] = p[i]
    BY DEF AmidClaim, Dead
  <1>2. /\ Target(w) \in Seq(Text) /\ Len(Target(w)) = Len(path[w]) - 1
        /\ \A i \in 1 .. Len(path[w]) - 1 : Target(w)[i] = path[w][i]
    BY FrontFacts DEF Target
  <1>3. Len(p) \in Nat /\ Len(path[w]) \in Nat
    OBVIOUS
  <1>4. Len(Target(w)) = Len(p) /\ \A i \in 1 .. Len(p) : Target(w)[i] = p[i]
    BY <1>1, <1>2, <1>3
  <1>5. QED
    BY <1>1, <1>2, <1>4, SeqEqual

(* Nor one its own step leaves: it goes from the listing to the caller's   *)
(* hands, and leaves them only by the move that removes it.                *)
LEMMA SweepStep ==
  ASSUME IInv, NEW w \in Waiter, Step(w), SweepMissesNone(w)
  PROVE  SweepMissesNone(w)'
  <1> USE DEF Goto
  <1>0. TypeOK /\ Nested(w) /\ MovesTheDead(w) /\ NamesItsOwner
    BY DEF IInv
  <1>t. /\ pc \in [Waiter -> PC] /\ path \in [Waiter -> Path] /\ bottom \in [Waiter -> Nat]
        /\ todo \in [Waiter -> SUBSET Entry] /\ found \in [Waiter -> Text \cup {None}]
        /\ path[w] \in Path /\ Len(path[w]) \in Nat /\ bottom[w] \in Nat
        /\ (Len(path[w]) = 0 <=> path[w] = Main)
        /\ DOMAIN at \subseteq Path /\ \A p \in DOMAIN at : Len(p) \in Nat
    BY <1>0, LenZero DEF TypeOK, Path, Main
  <1>g. \A p \in DOMAIN at' : at'[p] \in Stale =>
          /\ p \in DOMAIN at /\ at[p] = at'[p] /\ at[p] \in Stale
          /\ ~Live(at[p]) /\ at[p] # Junk /\ at[p] # None
    BY StaleOnlyGoes
  <1>m. Sweeping(w) =>
          \A p \in DOMAIN at :
            at[p] \in Stale => [kind |-> "claim", path |-> p] \in todo[w] \/ AmidClaim(w, p)
    BY DEF SweepMissesNone
  (* Not sweeping, or no more.                                              *)
  <1>x. ASSUME ~Sweeping(w)' PROVE SweepMissesNone(w)'
    BY <1>x DEF SweepMissesNone, Sweeping
  (* Elsewhere in the same takeover.                                        *)
  <1>k. ASSUME pc'[w] \notin {"weigh", "held"}, pc[w] # "weigh", Sweeping(w)' => Sweeping(w),
               path'[w] = path[w], bottom'[w] = bottom[w], todo'[w] = todo[w],
               \/ pc'[w] \notin {"confirm", "discard", "release"}
               \/ pc[w] \in {"confirm", "discard", "release"}
        PROVE  SweepMissesNone(w)'
    <2>1. ASSUME NEW p \in DOMAIN at, at[p] = at'[p], AmidClaim(w, p)
          PROVE  AmidClaim(w, p)'
      BY <1>k, <2>1 DEF AmidClaim
    <2>2. QED
      BY <1>k, <1>g, <1>m, <2>1 DEF SweepMissesNone

  <1>1. CASE CreateMine(w)
    <2>1. /\ path'[w] = path[w] /\ bottom'[w] = bottom[w] /\ todo'[w] = todo[w]
          /\ Sweeping(w)' => Sweeping(w)
      BY <1>0, <1>t, <1>1 DEF CreateMine, Sweeping
    <2>2. QED
      BY <1>k, <1>t, <2>1, <1>1 DEF CreateMine
  <1>2. CASE FillMine(w)
    <2>1. /\ path'[w] = path[w] /\ bottom'[w] = bottom[w] /\ todo'[w] = todo[w]
          /\ Sweeping(w)' => Sweeping(w)
      BY <1>0, <1>t, <1>2 DEF FillMine, Sweeping
    <2>2. QED
      BY <1>k, <1>t, <2>1, <1>2 DEF FillMine
  <1>3. CASE LinkTakes(w)
    <2>1. /\ path'[w] = path[w] /\ bottom'[w] = bottom[w] /\ todo'[w] = todo[w]
          /\ Sweeping(w)' => Sweeping(w)
      BY <1>0, <1>t, <1>3 DEF LinkTakes, Sweeping
    <2>2. QED
      BY <1>k, <1>t, <2>1, <1>3 DEF LinkTakes
  <1>4. CASE LinkFails(w)
    <2>1. /\ path'[w] = path[w] /\ bottom'[w] = bottom[w] /\ todo'[w] = todo[w]
          /\ Sweeping(w)' => Sweeping(w)
      BY <1>0, <1>t, <1>4 DEF LinkFails, Sweeping
    <2>2. QED
      BY <1>k, <1>t, <2>1, <1>4 DEF LinkFails
  <1>5. CASE DropMine(w)
    <2>1. /\ path'[w] = path[w] /\ bottom'[w] = bottom[w] /\ todo'[w] = todo[w]
          /\ Sweeping(w)' => Sweeping(w)
      BY <1>0, <1>t, <1>5 DEF DropMine, Sweeping
    <2>2. QED
      BY <1>k, <1>t, <2>1, <1>5 DEF DropMine
  <1>6. CASE ReadLock(w)
    <2>1. /\ path'[w] = path[w] /\ bottom'[w] = bottom[w] /\ todo'[w] = todo[w]
          /\ Sweeping(w)' => Sweeping(w)
      BY <1>0, <1>t, <1>6 DEF ReadLock, Sweeping
    <2>2. QED
      BY <1>k, <1>t, <2>1, <1>6 DEF ReadLock
  <1>7. CASE JudgeGone(w)
    <2>1. /\ path'[w] = path[w] /\ bottom'[w] = bottom[w] /\ todo'[w] = todo[w]
          /\ Sweeping(w)' => Sweeping(w)
      BY <1>0, <1>t, <1>7 DEF JudgeGone, Sweeping
    <2>2. QED
      BY <1>k, <1>t, <2>1, <1>7 DEF JudgeGone
  <1>8. CASE JudgeLive(w)
    <2>1. /\ path'[w] = path[w] /\ bottom'[w] = bottom[w] /\ todo'[w] = todo[w]
          /\ Sweeping(w)' => Sweeping(w)
      BY <1>0, <1>t, <1>8 DEF JudgeLive, Sweeping
    <2>2. QED
      BY <1>k, <1>t, <2>1, <1>8 DEF JudgeLive
  <1>9. CASE GiveUp(w)
    <2>1. pc'[w] \in {"failed", "release"} /\ bottom'[w] = 0
      BY <1>t, <1>9 DEF GiveUp, Unwind
    <2>2. QED
      BY <1>x, <2>1 DEF Sweeping
  <1>10. CASE Wait(w)
    <2>1. /\ path'[w] = path[w] /\ bottom'[w] = bottom[w] /\ todo'[w] = todo[w]
          /\ Sweeping(w)' => Sweeping(w)
      BY <1>0, <1>t, <1>10 DEF Wait, Sweeping
    <2>2. QED
      BY <1>k, <1>t, <2>1, <1>10 DEF Wait
  <1>11. CASE Take(w)
    <2>1. found[w] \in Text
      BY <1>0, <1>t, <1>11 DEF Take, Nested
    <2>2. /\ path'[w] = Append(path[w], found[w]) /\ bottom'[w] = bottom[w]
          /\ todo'[w] = todo[w] /\ pc[w] = "take" /\ pc'[w] = "write"
          /\ bottom[w] <= Len(path[w])
      BY <1>0, <1>t, <1>11 DEF Take, Nested, Acquiring
    <2>3. /\ Len(path'[w]) = Len(path[w]) + 1
          /\ \A i \in 1 .. Len(path[w]) : path'[w][i] = path[w][i]
      BY <1>t, <2>1, <2>2, AppendFacts DEF Path
    <2>4. ASSUME NEW p \in DOMAIN at, at[p] = at'[p], AmidClaim(w, p)
          PROVE  AmidClaim(w, p)'
      <3>1. /\ bottom[w] > 0 /\ Len(p) + 1 = bottom[w] /\ bottom[w] <= Len(path[w])
            /\ \A i \in 1 .. Len(p) : path[w][i] = p[i]
            /\ path[w][bottom[w]] = at[p]
        BY <2>2, <2>4 DEF AmidClaim
      <3>2. /\ bottom[w] \in 1 .. Len(path[w])
            /\ \A i \in 1 .. Len(p) : i \in 1 .. Len(path[w])
        BY <1>t, <3>1
      <3>3. /\ path'[w][bottom[w]] = at[p]
            /\ \A i \in 1 .. Len(p) : path'[w][i] = p[i]
        BY <2>3, <3>1, <3>2
      <3>4. QED
        BY <1>t, <2>2, <2>3, <2>4, <3>1, <3>3 DEF AmidClaim
    <2>5. QED
      BY <1>g, <1>m, <2>2, <2>4 DEF SweepMissesNone, Sweeping
  <1>12. CASE Recheck(w)
    <2>1. /\ path'[w] = path[w] /\ bottom'[w] = bottom[w] /\ todo'[w] = todo[w]
          /\ at' = at /\ pc[w] = "recheck" /\ path[w] # Main
          /\ pc'[w] = IF TextAt(Target(w)) = Dead(w) THEN "move" ELSE "release"
      BY <1>0, <1>t, <1>12 DEF Recheck, Nested
    <2>2. ASSUME NEW p \in DOMAIN at, at[p] = at'[p], AmidClaim(w, p)
          PROVE  AmidClaim(w, p)'
      <3>1. CASE Len(path[w]) = bottom[w]
        <4>1. p = Target(w) /\ at[p] = Dead(w)
          BY <1>t, <2>1, <2>2, <3>1, AmidsTarget DEF Path
        <4>2. pc'[w] = "move"
          BY <2>1, <4>1 DEF TextAt
        <4>3. QED
          BY <2>1, <2>2, <4>2 DEF AmidClaim
      <3>2. CASE Len(path[w]) # bottom[w]
        BY <2>1, <2>2, <3>2 DEF AmidClaim
      <3>3. QED
        BY <3>1, <3>2
    <2>3. QED
      BY <1>g, <1>m, <2>1, <2>2 DEF SweepMissesNone, Sweeping
  <1>13. CASE Move(w)
    <2>1. /\ path'[w] = path[w] /\ bottom'[w] = bottom[w] /\ todo'[w] = todo[w]
          /\ pc[w] = "move" /\ path[w] # Main /\ pc'[w] = "confirm"
          /\ at' = Removed(Target(w))
      BY <1>0, <1>t, <1>13 DEF Move, Nested, MovesTheDead
    <2>2. ASSUME NEW p \in DOMAIN at', at[p] = at'[p], p \in DOMAIN at, AmidClaim(w, p)
          PROVE  AmidClaim(w, p)'
      <3>1. CASE Len(path[w]) = bottom[w]
        <4>1. p = Target(w)
          BY <1>t, <2>1, <2>2, <3>1, AmidsTarget DEF Path
        <4>2. QED
          BY <2>1, <2>2, <4>1, RemovedFacts
      <3>2. CASE Len(path[w]) # bottom[w]
        BY <2>1, <2>2, <3>2 DEF AmidClaim
      <3>3. QED
        BY <3>1, <3>2
    <2>3. QED
      BY <1>g, <1>m, <2>1, <2>2 DEF SweepMissesNone, Sweeping
  <1>14. CASE Confirm(w)
    <2>1. /\ path'[w] = path[w] /\ bottom'[w] = bottom[w] /\ todo'[w] = todo[w]
          /\ Sweeping(w)' => Sweeping(w)
      BY <1>0, <1>t, <1>14 DEF Confirm, Sweeping
    <2>2. QED
      BY <1>k, <1>t, <2>1, <1>14 DEF Confirm
  <1>15. CASE PutBack(w)
    BY <1>0, <1>15 DEF PutBack, MovesTheDead
  <1>16. CASE Discard(w)
    <2>1. /\ path'[w] = path[w] /\ bottom'[w] = bottom[w] /\ todo'[w] = todo[w]
          /\ Sweeping(w)' => Sweeping(w)
      BY <1>0, <1>t, <1>16 DEF Discard, Sweeping
    <2>2. QED
      BY <1>k, <1>t, <2>1, <1>16 DEF Discard
  <1>17. CASE ReleaseClaim(w)
    <2>1. CASE fault[w] # "none"
      <3>1. pc'[w] \in {"failed", "release"} /\ bottom'[w] = 0
        BY <1>t, <1>17, <2>1 DEF ReleaseClaim, Unwind
      <3>2. QED
        BY <1>x, <3>1 DEF Sweeping
    <2>2. CASE fault[w] = "none" /\ Len(path[w]) = bottom[w]
      <3>1. /\ bottom[w] > 0 /\ pc[w] = "release" /\ pc'[w] = "sweep"
            /\ bottom'[w] = 0 /\ todo'[w] = todo[w]
        BY <1>t, <1>17, <2>2 DEF ReleaseClaim
      <3>2. \A p \in DOMAIN at : ~AmidClaim(w, p)
        BY <2>2, <3>1 DEF AmidClaim
      <3>3. QED
        BY <1>g, <1>m, <3>1, <3>2 DEF SweepMissesNone, Sweeping
    <2>3. CASE fault[w] = "none" /\ Len(path[w]) # bottom[w]
      <3>1. /\ path[w] # <<>> /\ path'[w] = Front(path[w]) /\ bottom'[w] = bottom[w]
            /\ todo'[w] = todo[w] /\ pc'[w] = "link" /\ pc[w] = "release"
            /\ bottom[w] <= Len(path[w])
        BY <1>0, <1>t, <1>17, <2>3 DEF ReleaseClaim, Nested, UnderClaim, Main
      <3>2. /\ Len(path'[w]) = Len(path[w]) - 1
            /\ \A i \in 1 .. Len(path[w]) - 1 : path'[w][i] = path[w][i]
        BY <1>t, <3>1, FrontFacts DEF Path
      <3>3. ASSUME NEW p \in DOMAIN at, at[p] = at'[p], AmidClaim(w, p)
            PROVE  AmidClaim(w, p)'
        <4>1. /\ bottom[w] > 0 /\ Len(p) + 1 = bottom[w] /\ bottom[w] <= Len(path[w])
              /\ \A i \in 1 .. Len(p) : path[w][i] = p[i]
              /\ path[w][bottom[w]] = at[p]
          BY <3>1, <3>3 DEF AmidClaim
        <4>2. /\ bottom[w] \in 1 .. Len(path[w]) - 1
              /\ \A i \in 1 .. Len(p) : i \in 1 .. Len(path[w]) - 1
          BY <1>t, <2>3, <4>1
        <4>3. /\ path'[w][bottom[w]] = at[p]
              /\ \A i \in 1 .. Len(p) : path'[w][i] = p[i]
          BY <3>2, <4>1, <4>2
        <4>4. QED
          BY <1>t, <3>1, <3>2, <3>3, <4>1, <4>2, <4>3 DEF AmidClaim
      <3>4. QED
        BY <1>g, <1>m, <3>1, <3>3 DEF SweepMissesNone, Sweeping
    <2>4. QED
      BY <2>1, <2>2, <2>3
  <1>18. CASE List(w)
    <2>1. at' = at /\ todo'[w] = Beside /\ pc'[w] = "sweep" /\ pc[w] = "list"
      BY <1>t, <1>18 DEF List
    <2>2. Main \in DOMAIN at /\ at[Main] = MyText(w)
      BY <1>0, <2>1 DEF NamesItsOwner, Holds
    <2>3. MyText(w) \notin Stale
      BY FileLockAssumption DEF MyText
    <2>4. \A p \in DOMAIN at : p # Main => [kind |-> "claim", path |-> p] \in Beside
      BY DEF Beside
    <2>5. QED
      BY <2>1, <2>2, <2>3, <2>4 DEF SweepMissesNone
  <1>19. CASE SweepFile(w)
    <2>1. PICK e \in todo[w] : e.kind # "claim" /\ todo' = [todo EXCEPT ![w] = @ \ {e}]
      BY <1>19 DEF SweepFile
    <2>2. /\ pc[w] = "sweep" /\ pc'[w] = "sweep" /\ path'[w] = path[w] /\ bottom'[w] = bottom[w]
          /\ todo'[w] = todo[w] \ {e} /\ at' = at
      BY <1>t, <1>19, <2>1 DEF SweepFile
    <2>3. bottom[w] = 0
      BY <1>0, <2>2 DEF Nested
    <2>4. \A p \in DOMAIN at : ~AmidClaim(w, p)
      BY <2>2, <2>3 DEF AmidClaim
    <2>5. \A p \in DOMAIN at : [kind |-> "claim", path |-> p] # e
      BY <2>1
    <2>6. QED
      BY <1>g, <1>m, <2>2, <2>4, <2>5 DEF SweepMissesNone, Sweeping
  <1>20. CASE SweepClaim(w)
    <2>1. PICK e \in todo[w] :
            /\ e.kind = "claim"
            /\ todo' = [todo EXCEPT ![w] = @ \ {e}]
            /\ IF TextAt(e.path) \in {None, Junk}
               THEN UNCHANGED <<pc, path, bottom, found>>
               ELSE /\ path' = [path EXCEPT ![w] = e.path]
                    /\ bottom' = [bottom EXCEPT ![w] = Len(e.path) + 1]
                    /\ found' = [found EXCEPT ![w] = at[e.path]]
                    /\ Goto(w, "weigh")
      BY <1>20 DEF SweepClaim
    <2>2. pc[w] = "sweep" /\ bottom[w] = 0 /\ todo'[w] = todo[w] \ {e} /\ at' = at
      BY <1>0, <1>t, <1>20, <2>1 DEF SweepClaim, Nested
    <2>3. \A p \in DOMAIN at : ~AmidClaim(w, p)
      BY <2>2 DEF AmidClaim
    <2>4. \A p \in DOMAIN at : [kind |-> "claim", path |-> p] = e => p = e.path
      OBVIOUS
    <2>5. CASE TextAt(e.path) \in {None, Junk}
      <3>1. pc'[w] = "sweep" /\ bottom'[w] = 0
        BY <2>1, <2>2, <2>5
      <3>2. \A p \in DOMAIN at : at[p] \in Stale /\ at[p] \notin {None, Junk} => p # e.path
        BY <2>5 DEF TextAt
      <3>3. QED
        BY <1>g, <1>m, <2>2, <2>3, <2>4, <3>1, <3>2 DEF SweepMissesNone, Sweeping
    <2>6. CASE TextAt(e.path) \notin {None, Junk}
      <3>1. /\ pc'[w] = "weigh" /\ path'[w] = e.path /\ found'[w] = at[e.path]
        BY <1>t, <2>1, <2>6
      <3>2. \A p \in DOMAIN at : p = e.path => AmidClaim(w, p)'
        BY <2>2, <3>1 DEF AmidClaim
      <3>3. QED
        BY <1>g, <1>m, <2>2, <2>3, <2>4, <3>1, <3>2 DEF SweepMissesNone, Sweeping
    <2>7. QED
      BY <2>5, <2>6
  <1>21. CASE Weigh(w)
    <2>1. /\ pc[w] = "weigh" /\ bottom[w] = Len(path[w]) + 1 /\ found[w] \in Text
          /\ at' = at /\ todo'[w] = todo[w]
      BY <1>0, <1>t, <1>21 DEF Weigh, Nested
    <2>2. \A p \in DOMAIN at : AmidClaim(w, p) => p = path[w] /\ found[w] = at[p]
      BY <2>1 DEF AmidClaim
    <2>3. CASE Live(found[w])
      <3>1. pc'[w] = "sweep"
        BY <1>t, <1>21, <2>3 DEF Weigh
      <3>2. \A p \in DOMAIN at : ~Live(at[p]) => ~AmidClaim(w, p)
        BY <2>2, <2>3
      <3>3. QED
        BY <1>g, <1>m, <2>1, <3>1, <3>2 DEF SweepMissesNone, Sweeping
    <2>4. CASE ~Live(found[w])
      <3>1. /\ pc'[w] = "write" /\ path'[w] = Append(path[w], found[w]) /\ bottom'[w] = bottom[w]
        BY <1>t, <1>21, <2>4 DEF Weigh
      <3>2. /\ Len(path'[w]) = Len(path[w]) + 1
            /\ path'[w][Len(path[w]) + 1] = found[w]
            /\ \A i \in 1 .. Len(path[w]) : path'[w][i] = path[w][i]
        BY <1>t, <2>1, <3>1, AppendFacts DEF Path
      <3>3. ASSUME NEW p \in DOMAIN at, AmidClaim(w, p) PROVE AmidClaim(w, p)'
        <4>1. p = path[w] /\ found[w] = at[p]
          BY <2>2, <3>3
        <4>2. /\ pc'[w] # "weigh" /\ bottom'[w] > 0 /\ Len(p) + 1 = bottom'[w]
              /\ bottom'[w] <= Len(path'[w]) /\ path'[w][bottom'[w]] = at'[p]
          BY <1>t, <2>1, <3>1, <3>2, <4>1
        <4>3. \A i \in 1 .. Len(p) : path'[w][i] = p[i]
          BY <3>2, <4>1
        <4>4. QED
          BY <3>1, <4>2, <4>3 DEF AmidClaim
      <3>4. QED
        BY <1>g, <1>m, <2>1, <3>1, <3>3 DEF SweepMissesNone, Sweeping
    <2>5. QED
      BY <2>3, <2>4
  <1>22. CASE SweepThrows(w)
    <2>1. pc'[w] = "release" /\ bottom'[w] = 0
      BY <1>0, <1>t, <1>22 DEF SweepThrows, Nested
    <2>2. QED
      BY <1>x, <2>1 DEF Sweeping
  <1>23. CASE SweepDone(w)
    <2>1. /\ pc[w] = "sweep" /\ bottom[w] = 0 /\ todo[w] = {} /\ at' = at /\ todo'[w] = {}
      BY <1>0, <1>23 DEF SweepDone, Nested
    <2>2. \A p \in DOMAIN at : at[p] \notin Stale
      BY <1>m, <2>1 DEF Sweeping, AmidClaim
    <2>3. QED
      BY <2>1, <2>2 DEF SweepMissesNone
  <1>24. CASE Dispose(w)
    <2>1. pc'[w] \in {"release", "done", "failed"} /\ bottom'[w] = 0
      BY <1>0, <1>t, <1>24 DEF Dispose, Nested
    <2>2. QED
      BY <1>x, <2>1 DEF Sweeping
  <1>25. CASE ReleaseLock(w)
    <2>1. pc'[w] \in {"release", "done", "failed"} /\ bottom'[w] = 0
      BY <1>0, <1>t, <1>25 DEF ReleaseLock, Nested
    <2>2. QED
      BY <1>x, <2>1 DEF Sweeping
  <1>26. QED
    BY <1>1, <1>2, <1>3, <1>4, <1>5, <1>6, <1>7, <1>8, <1>9, <1>10, <1>11, <1>12, <1>13, <1>14, <1>15,
       <1>16, <1>17, <1>18, <1>19, <1>20, <1>21, <1>22, <1>23, <1>24, <1>25 DEF Step

(* Nobody has written, moved or listed anything yet. *)
LEMMA TidyInit == Init => Tidy
  <1> SUFFICES ASSUME Init PROVE Tidy
    OBVIOUS
  <1>1. IInv
    BY InitHolds
  <1>2. LiveIsOwned
    <2>1. \A p \in DOMAIN at : at[p] \in Gone
      BY LeftoversFacts DEF Init
    <2>2. \A t \in Gone : ~Live(t)
      BY FileLockAssumption DEF Init, Gone, Live
    <2>3. QED
      BY <2>1, <2>2 DEF LiveIsOwned
  <1>3. ASSUME NEW w \in Waiter PROVE FilesNested(w) /\ AsideInHand(w) /\ SweepMissesNone(w)
    <2>1. HolderFiles(w) = {} /\ aside[w] = None /\ ~Sweeping(w) /\ pc[w] # "held"
      BY DEF Init, HolderFiles, Sweeping
    <2>2. QED
      BY <2>1 DEF FilesNested, AsideInHand, SweepMissesNone
  <1>4. QED
    BY <1>1, <1>2, <1>3 DEF Tidy

(* The killed call's files are a sweep's to clear; the others' stand. *)
LEMMA TidyKill ==
  ASSUME Tidy, NEW p \in Proc, Kill(p)
  PROVE  Tidy'
  <1>0. IInv /\ TypeOK /\ LiveIsOwned /\ \A v \in Waiter : Nested(v)
    BY DEF Tidy, IInv
  <1>1. IInv'
    BY <1>0, KillKeeps
  <1>2. alive' = alive \ {p} /\ at' = at /\ aside' = aside /\ mine' = mine
    BY DEF Kill
  <1>3. ASSUME NEW v \in Waiter, ProcOf[v] # p
        PROVE  /\ pc'[v] = pc[v] /\ path'[v] = path[v] /\ bottom'[v] = bottom[v]
               /\ found'[v] = found[v] /\ todo'[v] = todo[v]
    BY <1>3 DEF Kill
  <1>4. ASSUME NEW v \in Waiter, ProcOf[v] = p
        PROVE  /\ bottom'[v] = 0
               /\ \/ pc'[v] = "dead"
                  \/ pc'[v] = pc[v] /\ pc[v] \in {"done", "failed"}
    BY <1>4 DEF Kill
  <1>5. LiveIsOwned'
    <2>1. ASSUME NEW q \in DOMAIN at, at[q] \in alive \ {p}
          PROVE  \E v \in Waiter : MyText(v) = at[q] /\ Owns(v, q)'
      <3>1. PICK v \in Waiter : MyText(v) = at[q] /\ Owns(v, q)
        BY <1>0, <2>1 DEF LiveIsOwned, Live
      <3>2. ProcOf[v] # p
        BY <2>1, <3>1 DEF MyText
      <3>3. Owns(v, q)'
        BY <1>3, <3>1, <3>2 DEF Owns, Holds, HoldsClaim
      <3>4. QED
        BY <3>1, <3>3
    <2>2. QED
      BY <1>2, <2>1 DEF LiveIsOwned, Live, MyText
  <1>6. ASSUME NEW v \in Waiter PROVE (FilesNested(v) /\ AsideInHand(v) /\ SweepMissesNone(v))'
    <2>0. FilesNested(v) /\ AsideInHand(v) /\ SweepMissesNone(v)
      BY DEF Tidy
    <2>1. CASE ProcOf[v] # p
      BY <1>2, <1>3, <2>0, <2>1
      DEF FilesNested, HolderFiles, AsideInHand, SweepMissesNone, Sweeping, AmidClaim
    <2>2. CASE ProcOf[v] = p /\ pc'[v] = "dead"
      BY <1>4, <2>2 DEF FilesNested, AsideInHand, SweepMissesNone, Sweeping
    <2>3. CASE ProcOf[v] = p /\ pc'[v] = pc[v] /\ pc[v] \in {"done", "failed"}
      <3>1. HolderFiles(v) = {}
        BY <1>0, <2>0, <2>3, NoFiles DEF Idle
      <3>2. HolderFiles(v)' = {} /\ aside'[v] = None
        BY <1>2, <2>0, <2>3, <3>1 DEF HolderFiles, AsideInHand
      <3>3. QED
        BY <1>4, <2>3, <3>2 DEF FilesNested, AsideInHand, SweepMissesNone, Sweeping
    <2>4. QED
      BY <1>4, <2>1, <2>2, <2>3
  <1>7. QED
    BY <1>1, <1>5, <1>6 DEF Tidy

(* Every step keeps it, whoever takes it. *)
LEMMA TidyNext == Tidy /\ [Next]_vars => Tidy'
  <1> SUFFICES ASSUME Tidy, [Next]_vars PROVE Tidy'
    OBVIOUS
  <1>1. ASSUME NEW w \in Waiter, Step(w) PROVE Tidy'
    <2>0. IInv /\ TypeOK /\ LiveIsOwned
      BY DEF Tidy, IInv
    <2>1. IInv' /\ LiveIsOwned'
      BY <1>1, <2>0, StepKeeps, OwnedStep
    <2>2. ASSUME NEW v \in Waiter PROVE (FilesNested(v) /\ AsideInHand(v) /\ SweepMissesNone(v))'
      <3>0. FilesNested(v) /\ AsideInHand(v) /\ SweepMissesNone(v)
        BY DEF Tidy
      <3>1. CASE v = w
        BY <1>1, <2>0, <3>0, <3>1, FilesStep, AsideStep, SweepStep
      <3>2. CASE v # w
        <4>1. /\ pc'[v] = pc[v] /\ path'[v] = path[v] /\ bottom'[v] = bottom[v]
              /\ HolderFiles(v)' \subseteq HolderFiles(v) /\ aside'[v] \in {None, aside[v]}
          BY <1>1, <2>0, <3>2, OthersStand, OthersFiles
        <4>2. FilesNested(v)' /\ AsideInHand(v)'
          BY <3>0, <4>1 DEF FilesNested, AsideInHand
        <4>3. QED
          BY <1>1, <2>0, <3>0, <3>2, <4>2, OthersSweep
      <3>3. QED
        BY <3>1, <3>2
    <2>3. QED
      BY <2>1, <2>2 DEF Tidy
  <1>2. ASSUME NEW p \in Proc, Kill(p) PROVE Tidy'
    BY <1>2, TidyKill
  <1>3. CASE UNCHANGED vars
    <2>1. IInv'
      BY <1>3, NextKeeps DEF Tidy
    <2>2. LiveIsOwned'
      BY <1>3 DEF vars, Tidy, LiveIsOwned, Live, MyText, Owns, Holds, HoldsClaim
    <2>3. \A w \in Waiter : (FilesNested(w) /\ AsideInHand(w) /\ SweepMissesNone(w))'
      BY <1>3 DEF vars, Tidy, FilesNested, HolderFiles, AsideInHand, SweepMissesNone, Sweeping,
                  AmidClaim
    <2>4. QED
      BY <2>1, <2>2, <2>3 DEF Tidy
  <1>4. QED
    BY <1>1, <1>2, <1>3 DEF Next, Finished

(* Nothing is ever left about that is nobody's to clear. *)
LEMMA AlwaysTidy == Spec => []Tidy
  BY TidyInit, TidyNext, PTL DEF Spec

(* A call that is over has left nothing of its own: every file it wrote    *)
(* was of an acquire it was still in, and what names its process at a path *)
(* is a call's of that process which holds it.                             *)
THEOREM NothingLeftOver == Spec => []EndedHoldsNothing
  <1>1. Tidy => EndedHoldsNothing
    <2> SUFFICES ASSUME Tidy, NEW w \in Waiter, pc[w] \in {"done", "failed"}
                 PROVE  /\ HolderFiles(w) = {}
                        /\ aside[w] = None
                        /\ \A p \in DOMAIN at : at[p] = MyText(w) /\ Live(at[p]) =>
                             \E v \in Waiter : v # w /\ MyText(v) = MyText(w) /\ Owns(v, p)
      BY DEF EndedHoldsNothing
    <2>0. TypeOK /\ Nested(w) /\ FilesNested(w) /\ AsideInHand(w) /\ LiveIsOwned
      BY DEF Tidy, IInv
    <2>1. HolderFiles(w) = {}
      BY <2>0, NoFiles DEF Idle
    <2>2. aside[w] = None
      BY <2>0 DEF AsideInHand
    <2>3. \A p : ~Owns(w, p)
      BY <2>0 DEF Owns, Holds, HoldsClaim, UnderClaim, Nested, TypeOK
    <2>4. QED
      BY <2>0, <2>1, <2>2, <2>3 DEF LiveIsOwned
  <1>2. QED
    BY <1>1, AlwaysTidy, PTL

(* A holder whose sweep is done has cleared every claim of a holder gone   *)
(* before anybody began, however deep the claims it found lay.             *)
THEOREM SweepsClear == Spec => []StaleClaimsCleared
  <1>1. Tidy => StaleClaimsCleared
    <2> SUFFICES ASSUME Tidy, NEW w \in Waiter, pc[w] = "held", NEW p \in DOMAIN at
                 PROVE  at[p] \notin Stale
      BY DEF StaleClaimsCleared
    <2>1. SweepMissesNone(w) /\ Nested(w) /\ TypeOK
      BY DEF Tidy, IInv
    <2>2. bottom[w] = 0 /\ todo[w] = {}
      BY <2>1 DEF Nested, SweepMissesNone
    <2>3. ~AmidClaim(w, p)
      BY <2>2 DEF AmidClaim
    <2>4. QED
      BY <2>1, <2>2, <2>3 DEF SweepMissesNone, Sweeping
  <1>2. QED
    BY <1>1, AlwaysTidy, PTL

-----------------------------------------------------------------------------
(* With a hand at the lock: the claims. *)

LEMMA ClaimsOfIInv == IInv => CInv
  BY DEF IInv, CInv, MovesTheDead, MovesDeadClaims, NamesItsOwner, ClaimsNameTheirOwners, OneOwner,
         ClaimsExclusive

(* A caller at a claim was told that the text it is named after is dead.   *)
LEMMA NamedAfterTheDead ==
  ASSUME TypeOK, NEW w \in Waiter, Nested(w), JudgedDead(w),
         pc[w] \in {"recheck", "move", "confirm", "putback", "discard"}
  PROVE  /\ path[w] \in Seq(Text) /\ path[w] # <<>>
         /\ Dead(w) \in Text /\ Dead(w) # None /\ ~Live(Dead(w))
         /\ HoldsClaim(w)
  <1>1. path[w] \in Seq(Text) /\ path[w] # <<>> /\ bottom[w] <= Len(path[w])
    BY DEF TypeOK, Path, Nested, UnderClaim, Main
  <1>2. Len(path[w]) \in 1 .. Len(path[w]) /\ path[w][Len(path[w])] \in Text
    BY <1>1, FrontFacts
  <1>3. ~Live(Dead(w)) /\ Dead(w) \in Text
    BY <1>1, <1>2 DEF JudgedDead, Dead
  <1>4. HoldsClaim(w)
    BY <1>1 DEF HoldsClaim, UnderClaim, Main
  <1>5. QED
    BY <1>1, <1>3, <1>4, FileLockAssumption

(* A claim's file names its owner, and the owner is alive. *)
LEMMA ClaimantIsAlive ==
  ASSUME CInv, NEW w \in Waiter, HoldsClaim(w)
  PROVE  path[w] \in DOMAIN at /\ at[path[w]] = MyText(w) /\ Live(MyText(w))
  <1>1. Nested(w) /\ TypeOK /\ ClaimsNameTheirOwners
    BY DEF CInv
  <1>2. ~Over(w)
    BY <1>1 DEF HoldsClaim, UnderClaim, Over
  <1>3. QED
    BY <1>1, <1>2 DEF Nested, ClaimsNameTheirOwners, MyText, Live

(* Two who would move the same text from the same path are one. *)
LEMMA OneMover ==
  ASSUME CInv, NEW v \in Waiter, NEW w \in Waiter,
         pc[v] \in {"recheck", "move", "confirm", "putback", "discard"},
         pc[w] \in {"recheck", "move", "confirm", "putback", "discard"},
         Target(v) = Target(w), Dead(v) = Dead(w)
  PROVE  v = w
  <1>1. /\ TypeOK /\ Nested(v) /\ JudgedDead(v) /\ Nested(w) /\ JudgedDead(w) /\ ClaimsExclusive
    BY DEF CInv
  <1>2. /\ path[v] \in Seq(Text) /\ path[v] # <<>> /\ HoldsClaim(v)
        /\ path[w] \in Seq(Text) /\ path[w] # <<>> /\ HoldsClaim(w)
    BY <1>1, NamedAfterTheDead
  <1>3. path[v] = path[w]
    BY <1>2, SamePath DEF Target, Dead
  <1>4. QED
    BY <1>1, <1>2, <1>3 DEF ClaimsExclusive

LEMMA AliveStands ==
  ASSUME NEW w \in Waiter, Step(w)
  PROVE  alive' = alive
  BY DEF Step, CreateMine, FillMine, LinkTakes, LinkFails, DropMine, ReadLock, JudgeGone, JudgeLive,
     GiveUp, Wait, Take, Recheck, Move, Confirm, PutBack, Discard, ReleaseClaim, List, SweepFile,
     SweepClaim, Weigh, SweepThrows, SweepDone, Dispose, ReleaseLock

(* What a caller moved aside is its own, but that a sweep clears the dead. *)
LEMMA AsideKept ==
  ASSUME TypeOK, NEW w \in Waiter, Step(w), NEW v \in Waiter, v # w
  PROVE  aside'[v] = aside[v] \/ (aside'[v] = None /\ ~Live(aside[v]))
  <1>1. CASE SweepFile(w)
    BY <1>1 DEF SweepFile, TypeOK
  <1>2. CASE Move(w) \/ Discard(w)
    BY <1>2 DEF Move, Discard, TypeOK
  <1>3. CASE UNCHANGED aside
    BY <1>3
  <1>4. QED
    BY <1>1, <1>2, <1>3
    DEF Step, CreateMine, FillMine, LinkTakes, LinkFails, DropMine, ReadLock, JudgeGone,
        JudgeLive, GiveUp, Wait, Take, Recheck, Confirm, PutBack, ReleaseClaim, List,
        SweepClaim, Weigh, SweepThrows, SweepDone, Dispose, ReleaseLock

(* A caller is at moving a lock by the recheck that sent it there and the  *)
(* steps that follow it, and by nothing else.                              *)
LEMMA MovesByRecheck ==
  ASSUME TypeOK, NEW w \in Waiter, Nested(w), JudgedDead(w), Step(w),
         pc'[w] \in {"move", "confirm", "putback", "discard"}
  PROVE  /\ path'[w] = path[w]
         /\ \/ /\ pc[w] = "recheck" /\ pc'[w] = "move" /\ at' = at
               /\ Target(w) \in DOMAIN at /\ at[Target(w)] = Dead(w)
            \/ /\ pc[w] = "move" /\ pc'[w] = "confirm" /\ Target(w) \in DOMAIN at
               /\ aside'[w] = at[Target(w)] /\ at' = Removed(Target(w))
            \/ /\ pc[w] = "confirm" /\ at' = at /\ aside' = aside
               /\ pc'[w] = IF aside[w] \in {None, Dead(w)} THEN "discard" ELSE "putback"
            \/ pc[w] = "putback" /\ pc'[w] = "discard" /\ aside' = aside
  <1> USE DEF TypeOK, Goto
  <1>1. CASE Recheck(w)
    <2>1. Dead(w) # None
      BY <1>1, NamedAfterTheDead DEF Recheck
    <2>2. QED
      BY <1>1, <2>1 DEF Recheck, TextAt
  <1>2. CASE Move(w)
    BY <1>2 DEF Move
  <1>3. CASE Confirm(w)
    BY <1>3 DEF Confirm
  <1>4. CASE PutBack(w)
    BY <1>4 DEF PutBack
  <1>5. CASE CreateMine(w) \/ FillMine(w) \/ LinkTakes(w) \/ LinkFails(w) \/ DropMine(w)
    BY <1>5 DEF CreateMine, FillMine, LinkTakes, LinkFails, DropMine
  <1>6. CASE ReadLock(w) \/ JudgeGone(w) \/ JudgeLive(w) \/ GiveUp(w) \/ Wait(w)
    BY <1>6 DEF ReadLock, JudgeGone, JudgeLive, GiveUp, Wait, Unwind
  <1>7. CASE Take(w) \/ Discard(w) \/ ReleaseClaim(w) \/ List(w) \/ SweepFile(w)
    BY <1>7 DEF Take, Discard, ReleaseClaim, List, SweepFile, Unwind
  <1>8. CASE SweepClaim(w) \/ Weigh(w) \/ SweepThrows(w)
    BY <1>8 DEF SweepClaim, Weigh, SweepThrows
  <1>9. CASE SweepDone(w) \/ Dispose(w) \/ ReleaseLock(w)
    BY <1>9 DEF SweepDone, Dispose, ReleaseLock
  <1>10. QED
    BY <1>1, <1>2, <1>3, <1>4, <1>5, <1>6, <1>7, <1>8, <1>9 DEF Step

(* A claim's taker moves the dead: its own steps, and the others'. *)
LEMMA ClaimMoverStep ==
  ASSUME CInv, NEW w \in Waiter, Step(w)
  PROVE  MovesDeadClaims(w)'
  <1>0. TypeOK /\ Nested(w) /\ JudgedDead(w) /\ MovesDeadClaims(w)
    BY DEF CInv
  <1>1. CASE pc'[w] \notin {"move", "confirm", "putback", "discard"}
    BY <1>1 DEF MovesDeadClaims
  <1>2. CASE pc'[w] \in {"move", "confirm", "putback", "discard"}
    <2>1. Target(w)' = Target(w) /\ Dead(w)' = Dead(w)
      BY <1>0, <1>2, MovesByRecheck DEF Target, Dead
    <2>2. QED
      BY <1>0, <1>2, <2>1, MovesByRecheck DEF MovesDeadClaims
  <1>3. QED
    BY <1>1, <1>2

LEMMA OthersClaims ==
  ASSUME CInv, NEW w \in Waiter, Step(w), NEW v \in Waiter, v # w
  PROVE  MovesDeadClaims(v)'
  <1>0. /\ TypeOK /\ MovesDeadClaims(v) /\ MovesDeadClaims(w) /\ Nested(v) /\ JudgedDead(v)
        /\ pc'[v] = pc[v] /\ path'[v] = path[v]
    BY OthersStand DEF CInv
  <1>1. ASSUME Target(v) # Main, pc[v] = "move"
        PROVE  Target(v) \in DOMAIN at' /\ at'[Target(v)] = Dead(v)
    <2>1. Target(v) \in DOMAIN at /\ at[Target(v)] = Dead(v) /\ ~Live(Dead(v))
      BY <1>0, <1>1, NamedAfterTheDead DEF MovesDeadClaims
    <2>2. CASE pc[w] = "move" /\ Target(v) = Target(w)
      BY <1>0, <1>1, <2>1, <2>2, OneMover DEF MovesDeadClaims
    <2>3. CASE pc[w] = "release" /\ Target(v) = path[w]
      <3>1. HoldsClaim(w)
        BY <1>1, <2>3 DEF HoldsClaim, UnderClaim
      <3>2. QED
        BY <2>1, <2>3, <3>1, ClaimantIsAlive
    <2>4. QED
      BY <2>1, <2>2, <2>3, FileKept
  <1>2. ASSUME Target(v) # Main, pc[v] = "confirm" PROVE aside'[v] \in {None, Dead(v)}
    BY <1>0, <1>2, AsideKept DEF MovesDeadClaims
  <1>3. QED
    BY <1>0, <1>1, <1>2 DEF MovesDeadClaims, Target, Dead

(* The owners of claims keep their files, and no claim has two. *)
LEMMA ClaimantsStep ==
  ASSUME CInv, NEW w \in Waiter, Step(w)
  PROVE  ClaimsNameTheirOwners' /\ ClaimsExclusive'
  <1>0. /\ TypeOK /\ ClaimsExclusive /\ Nested(w) /\ JudgedDead(w) /\ MovesDeadClaims(w)
    BY DEF CInv
  <1>1. \A v \in Waiter : v # w =>
          pc'[v] = pc[v] /\ path'[v] = path[v] /\ (HoldsClaim(v)' <=> HoldsClaim(v))
    BY <1>0, OthersStand DEF HoldsClaim
  <1>2. ASSUME NEW v \in Waiter, HoldsClaim(v), ~(v = w /\ pc[w] = "release")
        PROVE  path[v] \in DOMAIN at' /\ at'[path[v]] = MyText(v)
    <2>1. path[v] \in DOMAIN at /\ at[path[v]] = MyText(v) /\ Live(at[path[v]]) /\ path[v] # Main
      BY <1>2, ClaimantIsAlive DEF HoldsClaim
    <2>2. CASE pc[w] = "move" /\ path[v] = Target(w)
      BY <1>0, <2>1, <2>2, NamedAfterTheDead DEF MovesDeadClaims
    <2>3. CASE pc[w] = "release" /\ path[v] = path[w]
      <3>1. HoldsClaim(w)
        BY <2>1, <2>3 DEF HoldsClaim, UnderClaim
      <3>2. QED
        BY <1>0, <1>2, <2>3, <3>1 DEF ClaimsExclusive
    <2>4. QED
      BY <2>1, <2>2, <2>3, FileKept
  <1>3. ASSUME LinkTakes(w)
        PROVE  path[w] \notin DOMAIN at /\ path[w] \in DOMAIN at' /\ at'[path[w]] = MyText(w)
    BY <1>3 DEF LinkTakes, Linked
  <1>4. ASSUME NEW v \in Waiter, HoldsClaim(v)'
        PROVE  path'[v] \in DOMAIN at' /\ at'[path'[v]] = MyText(v)
    <2>1. CASE v # w
      BY <1>1, <1>2, <1>4, <2>1
    <2>2. CASE v = w
      BY <1>0, <1>2, <1>3, <1>4, <2>2, OwnsByLink
    <2>3. QED
      BY <2>1, <2>2
  <1>5. ASSUME NEW u \in Waiter, NEW v \in Waiter,
               HoldsClaim(u)', HoldsClaim(v)', path'[u] = path'[v]
        PROVE  u = v
    <2>1. ASSUME NEW x \in Waiter, x # w, HoldsClaim(x)', HoldsClaim(w)', path'[x] = path'[w]
          PROVE  FALSE
      <3>1. HoldsClaim(x) /\ path[x] \in DOMAIN at /\ path'[x] = path[x]
        BY <1>1, <2>1, ClaimantIsAlive
      <3>2. HoldsClaim(w) /\ path[x] = path[w]
        BY <1>0, <1>3, <2>1, <3>1, OwnsByLink
      <3>3. QED
        BY <1>0, <2>1, <3>1, <3>2 DEF ClaimsExclusive
    <2>2. CASE u # w /\ v # w
      BY <1>0, <1>1, <1>5, <2>2 DEF ClaimsExclusive
    <2>3. QED
      BY <1>5, <2>1, <2>2
  <1>6. QED
    BY <1>4, <1>5 DEF ClaimsNameTheirOwners, ClaimsExclusive, MyText

LEMMA ClaimsStep ==
  ASSUME CInv, NEW w \in Waiter, Step(w)
  PROVE  CInv'
  <1>0. TypeOK /\ \A v \in Waiter : Nested(v) /\ JudgedDead(v)
    BY DEF CInv
  <1>1. TypeOK'
    BY <1>0, TypeStep DEF Next
  <1>2. ASSUME NEW v \in Waiter PROVE (Nested(v) /\ JudgedDead(v) /\ MovesDeadClaims(v))'
    <2>1. CASE v = w
      BY <1>0, <2>1, NestedStep, JudgedStep, ClaimMoverStep
    <2>2. CASE v # w
      <3>1. /\ pc'[v] = pc[v] /\ path'[v] = path[v] /\ bottom'[v] = bottom[v]
            /\ found'[v] = found[v] /\ waited'[v] = waited[v] /\ alive' = alive
        BY <1>0, <2>2, OthersStand
      <3>2. (Nested(v) /\ JudgedDead(v))'
        BY <1>0, <3>1 DEF Nested, JudgedDead, Over, Live
      <3>3. QED
        BY <2>2, <3>2, OthersClaims
    <2>3. QED
      BY <2>1, <2>2
  <1>3. QED
    BY <1>1, <1>2, ClaimantsStep DEF CInv

LEMMA ClaimsKill ==
  ASSUME CInv, NEW p \in Proc, Kill(p)
  PROVE  CInv'
  <1>0. TypeOK /\ ClaimsNameTheirOwners /\ ClaimsExclusive
        /\ \A v \in Waiter : Nested(v) /\ JudgedDead(v) /\ MovesDeadClaims(v)
    BY DEF CInv
  <1>1. TypeOK'
    BY <1>0, TypeStep DEF Next
  <1>2. alive' = alive \ {p} /\ at' = at /\ aside' = aside
    BY DEF Kill
  <1>3. ASSUME NEW v \in Waiter, ProcOf[v] # p
        PROVE  /\ pc'[v] = pc[v] /\ path'[v] = path[v] /\ bottom'[v] = bottom[v]
               /\ found'[v] = found[v] /\ waited'[v] = waited[v]
    BY <1>3 DEF Kill
  <1>4. ASSUME NEW v \in Waiter, ProcOf[v] = p
        PROVE  /\ pc'[v] \in {"done", "failed", "dead"} /\ path'[v] = Main
               /\ bottom'[v] = 0 /\ waited'[v] = <<>>
    BY <1>0, <1>4 DEF Kill, TypeOK
  <1>5. ASSUME NEW v \in Waiter PROVE (Nested(v) /\ JudgedDead(v) /\ MovesDeadClaims(v))'
    <2>1. CASE ProcOf[v] = p
      <3>1. Len(path'[v]) = 0
        BY <1>4, <2>1 DEF Main
      <3>2. Nested(v)'
        BY <1>4, <2>1 DEF Nested, Acquiring, UnderClaim, Over
      <3>3. JudgedDead(v)' /\ MovesDeadClaims(v)'
        BY <1>0, <1>2, <1>4, <2>1, <3>1 DEF JudgedDead, MovesDeadClaims
      <3>4. QED
        BY <3>2, <3>3
    <2>2. CASE ProcOf[v] # p
      <3>1. Nested(v)'
        BY <1>0, <1>2, <1>3, <2>2 DEF Nested, Over
      <3>2. JudgedDead(v)' /\ MovesDeadClaims(v)'
        BY <1>0, <1>2, <1>3, <2>2 DEF JudgedDead, MovesDeadClaims, Live, Target, Dead
      <3>3. QED
        BY <3>1, <3>2
    <2>3. QED
      BY <2>1, <2>2
  <1>6. ASSUME NEW v \in Waiter PROVE HoldsClaim(v)' => HoldsClaim(v) /\ path'[v] = path[v]
    <2>1. CASE ProcOf[v] = p
      BY <1>4, <2>1 DEF HoldsClaim
    <2>2. CASE ProcOf[v] # p
      BY <1>3, <2>2 DEF HoldsClaim
    <2>3. QED
      BY <2>1, <2>2
  <1>7. ClaimsNameTheirOwners' /\ ClaimsExclusive'
    BY <1>0, <1>2, <1>6 DEF ClaimsNameTheirOwners, ClaimsExclusive, MyText
  <1>8. QED
    BY <1>1, <1>5, <1>7 DEF CInv

(* The hand is at the lock, not at a claim. *)
LEMMA ClaimsHand ==
  ASSUME CInv, HandRemove
  PROVE  CInv'
  <1>0. /\ TypeOK /\ ClaimsNameTheirOwners /\ ClaimsExclusive
        /\ \A v \in Waiter : Nested(v) /\ JudgedDead(v) /\ MovesDeadClaims(v)
    BY DEF CInv
  <1>1. /\ at' = Removed(Main)
        /\ UNCHANGED <<alive, mine, aside, pc, path, bottom, found, waited, todo, fault>>
    BY DEF HandRemove
  <1>2. \A p \in DOMAIN at : p # Main => p \in DOMAIN at' /\ at'[p] = at[p]
    BY <1>1, RemovedFacts
  <1>3. TypeOK'
    <2>1. DOMAIN at' \subseteq Path /\ \A q \in DOMAIN at' : at'[q] \in Text
      BY <1>0, <1>1, RemovedTyped DEF TypeOK
    <2>2. QED
      BY <1>0, <1>1, <2>1 DEF TypeOK
  <1>4. ASSUME NEW v \in Waiter PROVE (Nested(v) /\ JudgedDead(v) /\ MovesDeadClaims(v))'
    BY <1>0, <1>1, <1>2 DEF Nested, JudgedDead, MovesDeadClaims, Over, Live, Target, Dead
  <1>5. ClaimsNameTheirOwners'
    BY <1>0, <1>1, <1>2 DEF ClaimsNameTheirOwners, HoldsClaim, MyText
  <1>6. ClaimsExclusive'
    BY <1>0, <1>1 DEF ClaimsExclusive, HoldsClaim
  <1>7. QED
    BY <1>3, <1>4, <1>5, <1>6 DEF CInv

LEMMA ClaimsNext == CInv /\ [HandNext]_vars => CInv'
  <1> SUFFICES ASSUME CInv, [HandNext]_vars PROVE CInv'
    OBVIOUS
  <1>1. CASE UNCHANGED vars
    BY <1>1 DEF vars, CInv, TypeOK, Nested, JudgedDead, MovesDeadClaims, ClaimsNameTheirOwners,
                ClaimsExclusive, HoldsClaim, Over, Live, Target, Dead
  <1>2. QED
    BY <1>1, ClaimsStep, ClaimsKill, ClaimsHand DEF HandNext, Next, Finished

(* takeOver's "only one waiter at a time does this for a given dead        *)
(* holder" needs nothing of the lock's own file: the claims stay exclusive *)
(* and name who has them though a hand removes the lock under any of them, *)
(* and whoever is killed.                                                  *)
THEOREM ClaimsOutlastTheHand == HandSpec => [](ClaimsExclusive /\ ClaimsNameTheirOwners)
  <1>1. Init => CInv
    BY InitHolds, ClaimsOfIInv
  <1>2. CInv => ClaimsExclusive /\ ClaimsNameTheirOwners
    BY DEF CInv
  <1>3. QED
    BY <1>1, <1>2, ClaimsNext, PTL DEF HandSpec

-----------------------------------------------------------------------------
(* With a hand at the lock: the lock. *)

(* Who put a thing at the lock's path, or took it away. *)
LEMMA LockFileStep ==
  ASSUME TypeOK, NEW w \in Waiter, Step(w)
  PROVE  \/ /\ Main \in DOMAIN at' <=> Main \in DOMAIN at
            /\ Main \in DOMAIN at => at'[Main] = at[Main]
         \/ /\ LinkTakes(w) /\ path[w] = Main
            /\ Main \notin DOMAIN at /\ Main \in DOMAIN at' /\ at'[Main] = MyText(w)
         \/ /\ Move(w) /\ Target(w) = Main
            /\ Main \in DOMAIN at /\ Main \notin DOMAIN at' /\ aside'[w] = at[Main]
            /\ pc'[w] = "confirm"
         \/ /\ PutBack(w) /\ Target(w) = Main
            /\ Main \notin DOMAIN at /\ Main \in DOMAIN at' /\ at'[Main] = aside[w]
         \/ ReleaseLock(w) /\ Main \notin DOMAIN at'
  <1>1. CASE LinkTakes(w)
    <2>1. path[w] \notin DOMAIN at /\ at' = Linked(path[w], MyText(w))
      BY <1>1 DEF LinkTakes
    <2>2. CASE path[w] = Main
      BY <1>1, <2>1, <2>2 DEF Linked
    <2>3. CASE path[w] # Main
      <3>1. Main \in DOMAIN at' <=> Main \in DOMAIN at
        BY <2>1, <2>3 DEF Linked
      <3>2. Main \in DOMAIN at => at'[Main] = at[Main]
        BY <2>1, <2>3 DEF Linked
      <3>3. QED
        BY <3>1, <3>2
    <2>4. QED
      BY <2>2, <2>3
  <1>2. CASE Move(w)
    <2>1. CASE Target(w) \notin DOMAIN at
      BY <1>2, <2>1 DEF Move
    <2>2. CASE Target(w) \in DOMAIN at
      <3>1. /\ at' = Removed(Target(w)) /\ aside'[w] = at[Target(w)] /\ pc'[w] = "confirm"
        BY <1>2, <2>2 DEF Move, TypeOK, Goto
      <3>2. CASE Target(w) = Main
        BY <1>2, <2>2, <3>1, <3>2 DEF Removed
      <3>3. CASE Target(w) # Main
        <4>1. Main \in DOMAIN at' <=> Main \in DOMAIN at
          BY <3>1, <3>3 DEF Removed
        <4>2. Main \in DOMAIN at => at'[Main] = at[Main]
          BY <3>1, <3>3 DEF Removed
        <4>3. QED
          BY <4>1, <4>2
      <3>4. QED
        BY <3>2, <3>3
    <2>3. QED
      BY <2>1, <2>2
  <1>3. CASE PutBack(w)
    <2>1. CASE at' = at
      BY <2>1
    <2>2. CASE at' # at
      <3>1. Target(w) \notin DOMAIN at /\ at' = Linked(Target(w), aside[w])
        BY <1>3, <2>2 DEF PutBack
      <3>2. CASE Target(w) = Main
        BY <1>3, <3>1, <3>2 DEF Linked
      <3>3. CASE Target(w) # Main
        <4>1. Main \in DOMAIN at' <=> Main \in DOMAIN at
          BY <3>1, <3>3 DEF Linked
        <4>2. Main \in DOMAIN at => at'[Main] = at[Main]
          BY <3>1, <3>3 DEF Linked
        <4>3. QED
          BY <4>1, <4>2
      <3>4. QED
        BY <3>2, <3>3
    <2>3. QED
      BY <2>1, <2>2
  <1>4. CASE ReleaseClaim(w)
    BY <1>4, RemovedFacts DEF ReleaseClaim
  <1>5. CASE ReleaseLock(w)
    BY <1>5, RemovedFacts DEF ReleaseLock
  <1>6. CASE UNCHANGED at
    BY <1>6
  <1>7. QED
    BY <1>1, <1>2, <1>3, <1>4, <1>5, <1>6
    DEF Step, CreateMine, FillMine, LinkFails, DropMine, ReadLock, JudgeGone, JudgeLive, GiveUp, Wait,
        Take, Recheck, Confirm, Discard, List, SweepFile, SweepClaim, Weigh, SweepThrows, SweepDone,
        Dispose

(* A caller that found it cannot put a lock back throws that it cannot.    *)
LEMMA ReplacedStep ==
  ASSUME TypeOK, NEW w \in Waiter, Step(w),
         fault[w] = "replaced" => pc[w] \in {"discard", "release", "failed"}
  PROVE  /\ fault[w] = "replaced" => fault'[w] = "replaced"
         /\ fault'[w] = "replaced" => pc'[w] \in {"discard", "release", "failed"}
  <1> USE DEF TypeOK, Goto
  <1>1. CASE PutBack(w)
    BY <1>1 DEF PutBack
  <1>2. CASE Discard(w)
    BY <1>2 DEF Discard
  <1>3. CASE ReleaseClaim(w)
    BY <1>3 DEF ReleaseClaim, Unwind
  <1>4. CASE ReleaseLock(w)
    BY <1>4 DEF ReleaseLock
  <1>5. CASE GiveUp(w)
    BY <1>5 DEF GiveUp, Unwind
  <1>6. CASE SweepThrows(w)
    BY <1>6 DEF SweepThrows
  <1>7. CASE fault' = fault /\ pc[w] \notin {"discard", "release", "failed"}
    BY <1>7
  <1>8. QED
    BY <1>1, <1>2, <1>3, <1>4, <1>5, <1>6, <1>7
    DEF Step, CreateMine, FillMine, LinkTakes, LinkFails, DropMine, ReadLock, JudgeGone, JudgeLive, Wait,
        Take, Recheck, Move, Confirm, List, SweepFile, SweepClaim, Weigh, SweepDone, Dispose

(* A caller that has a live lock to put back confirms it, and puts it back *)
(* or finds it cannot.                                                     *)
LEMMA RestoringStep ==
  ASSUME TypeOK, NEW w \in Waiter, Nested(w), JudgedDead(w), Step(w), Restores(w)
  PROVE  Restores(w)' \/ PutBack(w)
  <1>1. ~Live(Dead(w)) /\ ~Live(None)
    BY NamedAfterTheDead, FileLockAssumption DEF Restores, Live, TypeOK, Text
  <1>2. CASE pc[w] = "putback"
    BY <1>2 DEF Step, CreateMine, FillMine, LinkTakes, LinkFails, DropMine, ReadLock, JudgeGone,
                JudgeLive, GiveUp, Wait, Take, Recheck, Move, Confirm, Discard, ReleaseClaim, List,
                SweepFile, SweepClaim, Weigh, SweepThrows, SweepDone, Dispose, ReleaseLock
  <1>3. CASE pc[w] = "confirm"
    <2>1. Confirm(w)
      BY <1>3 DEF Step, CreateMine, FillMine, LinkTakes, LinkFails, DropMine, ReadLock, JudgeGone,
                  JudgeLive, GiveUp, Wait, Take, Recheck, Move, PutBack, Discard, ReleaseClaim, List,
                  SweepFile, SweepClaim, Weigh, SweepThrows, SweepDone, Dispose, ReleaseLock
    <2>2. aside[w] \notin {None, Dead(w)}
      BY <1>1 DEF Restores
    <2>3. /\ pc'[w] = "putback" /\ path' = path /\ aside' = aside /\ alive' = alive
      BY <2>1, <2>2 DEF Confirm, Goto, TypeOK
    <2>4. QED
      BY <2>3 DEF Restores, Moves, Live, Target
  <1>4. QED
    BY <1>2, <1>3 DEF Restores

(* Every step keeps what there is of the lock while nobody gave up on it.  *)
LEMMA LockStep ==
  ASSUME CInv, LockInv, NEW w \in Waiter, Step(w), fault'[w] # "replaced"
  PROVE  LockInv'
  <1>0. /\ TypeOK /\ Nested(w) /\ JudgedDead(w)
        /\ \A v \in Waiter : Nested(v) /\ JudgedDead(v) /\ InHand(v)
        /\ \A u, v \in Waiter : Moves(u) /\ Moves(v) => u = v
        /\ HoldersCounted
    BY DEF CInv, LockInv
  <1>a. alive' = alive /\ Live(MyText(w)) /\ ~Live(None)
    <2>1. ~Over(w)
      BY <1>0, OverIsOver
    <2>2. QED
      BY <1>0, <2>1, AliveStands, FileLockAssumption DEF Nested, Live, MyText, TypeOK, Text
  <1>o. ASSUME NEW v \in Waiter, v # w
        PROVE  /\ pc'[v] = pc[v] /\ Target(v)' = Target(v) /\ Dead(v)' = Dead(v)
               /\ (Moves(v)' <=> Moves(v)) /\ (Holds(v)' <=> Holds(v))
               /\ aside'[v] = aside[v] \/ (aside'[v] = None /\ ~Live(aside[v]))
               /\ (Restores(v)' <=> Restores(v))
    <2>1. pc'[v] = pc[v] /\ path'[v] = path[v] /\ bottom'[v] = bottom[v]
      BY <1>0, <1>o, OthersStand
    <2>2. aside'[v] = aside[v] \/ (aside'[v] = None /\ ~Live(aside[v]))
      BY <1>0, <1>o, AsideKept
    <2>3. Target(v)' = Target(v) /\ Dead(v)' = Dead(v) /\ (Moves(v)' <=> Moves(v))
      BY <2>1 DEF Target, Dead, Moves
    <2>4. Live(aside[v])' <=> Live(aside[v])
      BY <1>a, <2>2 DEF Live
    <2>5. QED
      BY <2>1, <2>2, <2>3, <2>4 DEF Holds, Restores
  <1>h. ASSUME NEW v \in Waiter, Holds(v)'
        PROVE  \/ Holds(v) /\ ~(v = w /\ ReleaseLock(w))
               \/ v = w /\ LinkTakes(w) /\ path[w] = Main
    BY <1>0, <1>h, <1>o, OwnsByLink DEF ReleaseLock, LinkTakes
  <1>m. LockNamesLive' \/ (/\ Main \in DOMAIN at' <=> Main \in DOMAIN at
                           /\ Main \in DOMAIN at => at'[Main] = at[Main])
    <2>1. CASE PutBack(w) /\ Target(w) = Main /\ Main \in DOMAIN at' /\ at'[Main] = aside[w]
      <3>1. Moves(w) /\ pc[w] = "putback"
        BY <2>1 DEF PutBack, Moves
      <3>2. Live(aside[w])
        BY <1>0, <3>1 DEF InHand
      <3>3. QED
        BY <1>a, <2>1, <3>2 DEF LockNamesLive, Live
    <2>2. QED
      BY <1>0, <1>a, <2>1, LockFileStep DEF LockNamesLive, Live
  <1>1. ASSUME NEW v \in Waiter PROVE InHand(v)'
    <2> SUFFICES ASSUME Moves(v)' PROVE InHand(v)'
      BY DEF InHand
    <2>1. CASE v # w
      <3>1. InHand(v) /\ Moves(v)
        BY <1>0, <1>o, <2>1
      <3>2. LockNamesLive' \/ (pc'[v] = "move" /\ at'[Main] = Dead(v)')
        BY <1>a, <1>m, <1>o, <2>1, <3>1 DEF InHand, LockNamesLive, Live
      <3>3. /\ pc'[v] \in {"confirm", "putback", "discard"} =>
                 aside'[v] \in {None, Dead(v)'} \/ Live(aside[v])'
            /\ pc'[v] = "putback" => Live(aside[v])'
        BY <1>a, <1>o, <2>1, <3>1 DEF InHand, Live
      <3>4. QED
        BY <3>2, <3>3 DEF InHand
    <2>2. CASE v = w
      <3>0. pc'[w] \in {"move", "confirm", "putback", "discard"}
        BY <2>2 DEF Moves
      <3>1. path'[w] = path[w] /\ Target(w)' = Target(w) /\ Dead(w)' = Dead(w) /\ Target(w) = Main
        BY <1>0, <2>2, <3>0, MovesByRecheck DEF Moves, Target, Dead
      <3>2. CASE pc'[w] = "move" /\ at' = at /\ Main \in DOMAIN at /\ at[Main] = Dead(w)
        BY <2>2, <3>1, <3>2 DEF InHand
      <3>3. CASE /\ pc[w] = "move" /\ pc'[w] = "confirm" /\ Main \in DOMAIN at
                 /\ aside'[w] = at[Main] /\ at' = Removed(Main)
        <4>1. Main \notin DOMAIN at'
          BY <3>3, RemovedFacts
        <4>2. Live(at[Main]) \/ at[Main] = Dead(w)
          BY <1>0, <3>1, <3>3 DEF InHand, Moves, LockNamesLive
        <4>3. QED
          BY <1>a, <2>2, <3>1, <3>3, <4>1, <4>2 DEF InHand, LockNamesLive, Live
      <3>4. CASE /\ pc[w] = "confirm" /\ at' = at /\ aside' = aside
                 /\ pc'[w] = IF aside[w] \in {None, Dead(w)} THEN "discard" ELSE "putback"
        <4>1. InHand(w) /\ Moves(w)
          BY <1>0, <3>1, <3>4 DEF Moves
        <4>2. LockNamesLive' /\ (aside[w] \in {None, Dead(w)} \/ Live(aside[w])')
          BY <1>a, <3>4, <4>1 DEF InHand, LockNamesLive, Live
        <4>3. QED
          BY <2>2, <3>1, <3>4, <4>2 DEF InHand, Live
      <3>5. CASE pc[w] = "putback" /\ pc'[w] = "discard" /\ aside' = aside
        <4>1. InHand(w) /\ Moves(w)
          BY <1>0, <3>1, <3>5 DEF Moves
        <4>2. LockNamesLive'
          BY <1>a, <1>m, <3>5, <4>1 DEF InHand, LockNamesLive, Live
        <4>3. Live(aside[w])'
          BY <1>a, <3>5, <4>1 DEF InHand, Live
        <4>4. QED
          BY <2>2, <3>5, <4>2, <4>3 DEF InHand
      <3>6. QED
        BY <1>0, <3>0, <3>1, <3>2, <3>3, <3>4, <3>5, MovesByRecheck
    <2>3. QED
      BY <2>1, <2>2
  <1>2. ASSUME NEW v \in Waiter, v # w, Moves(v)', Moves(w)' PROVE FALSE
    <2>0. Moves(v) /\ InHand(v) /\ pc'[w] \in {"move", "confirm", "putback", "discard"}
      BY <1>0, <1>2, <1>o DEF Moves
    <2>1. Target(w) = Main
      BY <1>0, <1>2, <2>0, MovesByRecheck DEF Moves, Target
    <2>2. CASE pc[w] = "recheck" /\ Main \in DOMAIN at /\ at[Main] = Dead(w)
      <3>1. ~Live(Dead(w))
        BY <1>0, <2>2, NamedAfterTheDead
      <3>2. Dead(v) = Dead(w) /\ pc[v] = "move" /\ Target(v) = Main
        BY <2>0, <2>2, <3>1 DEF InHand, LockNamesLive, Moves
      <3>3. QED
        BY <1>2, <2>1, <2>2, <3>2, OneMover
    <2>3. CASE pc[w] \in {"move", "confirm", "putback"}
      BY <1>0, <1>2, <2>0, <2>1, <2>3 DEF Moves
    <2>4. QED
      BY <1>0, <2>0, <2>1, <2>2, <2>3, MovesByRecheck
  <1>3. \A u, v \in Waiter : Moves(u)' /\ Moves(v)' => u = v
    BY <1>0, <1>2, <1>o
  <1>4. CASE \E T \in Waiter : Restores(T)
    <2>1. PICK T \in Waiter : Restores(T)
      BY <1>4
    <2>2. /\ LockNamesLive
          /\ Main \notin DOMAIN at => Exclusive
          /\ \A t, u, v \in Waiter : Holds(t) /\ Holds(u) /\ Holds(v) => t = u \/ t = v \/ u = v
      BY <1>0, <1>4 DEF HoldersCounted
    <2>3. ASSUME NEW v \in Waiter, Moves(v) PROVE v = T
      BY <1>0, <2>1, <2>3 DEF Restores
    <2>4. CASE Restores(T)'
      <3>1. ~(Move(w) /\ Target(w) = Main)
        BY <2>1, <2>3 DEF Move, Moves, Restores
      <3>2. ~(PutBack(w) /\ Target(w) = Main)
        <4> SUFFICES ASSUME PutBack(w), Target(w) = Main PROVE FALSE
          OBVIOUS
        <4>1. T = w
          BY <2>3 DEF PutBack, Moves
        <4>2. pc'[w] = "discard"
          BY <1>0 DEF PutBack, Goto, TypeOK
        <4>3. QED
          BY <2>4, <4>1, <4>2 DEF Restores
      <3>3. LockNamesLive'
        BY <1>a, <1>m, <2>2 DEF LockNamesLive, Live
      <3>4. CASE LinkTakes(w) /\ path[w] = Main
        <4>1. Exclusive /\ Main \in DOMAIN at'
          BY <2>2, <3>4 DEF LinkTakes, Linked
        <4>2. \A t, u, v \in Waiter : Holds(t)' /\ Holds(u)' /\ Holds(v)' => t = u \/ t = v \/ u = v
          BY <1>h, <4>1 DEF Exclusive
        <4>3. QED
          BY <2>4, <3>3, <4>1, <4>2, <1>1, <1>3 DEF LockInv, HoldersCounted
      <3>5. CASE ~(LinkTakes(w) /\ path[w] = Main)
        <4>1. \A v \in Waiter : Holds(v)' => Holds(v) /\ ~(v = w /\ ReleaseLock(w))
          BY <1>h, <3>5
        <4>2. \A t, u, v \in Waiter : Holds(t)' /\ Holds(u)' /\ Holds(v)' => t = u \/ t = v \/ u = v
          BY <2>2, <4>1
        <4>3. Main \notin DOMAIN at' => Exclusive'
          <5>1. CASE ReleaseLock(w)
            <6>1. Holds(w)
              BY <5>1 DEF ReleaseLock, Holds
            <6>2. QED
              BY <2>2, <4>1, <5>1, <6>1 DEF Exclusive
          <5>2. CASE ~ReleaseLock(w)
            <6>1. Main \notin DOMAIN at' => Main \notin DOMAIN at
              BY <1>0, <3>1, <3>5, <5>2, LockFileStep
            <6>2. QED
              BY <2>2, <4>1, <6>1 DEF Exclusive
          <5>3. QED
            BY <5>1, <5>2
        <4>4. QED
          BY <2>4, <3>3, <4>2, <4>3, <1>1, <1>3 DEF LockInv, HoldersCounted
      <3>6. QED
        BY <3>4, <3>5
    <2>5. CASE ~Restores(T)'
      <3>1. T = w /\ PutBack(w) /\ Target(w) = Main /\ Live(aside[w])
        BY <1>0, <1>o, <2>1, <2>5, RestoringStep DEF Restores, Moves
      <3>2. Main \notin DOMAIN at
        BY <1>0, <1>a, <3>1 DEF PutBack, TypeOK
      <3>3. Main \in DOMAIN at' /\ at'[Main] = aside[w]
        <4>1. aside[w] # None /\ at' = Linked(Main, aside[w])
          BY <1>a, <3>1, <3>2 DEF PutBack
        <4>2. QED
          BY <4>1 DEF Linked
      <3>4. \A v \in Waiter : Holds(v)' => Holds(v)
        BY <1>h, <3>1 DEF PutBack, LinkTakes
      <3>5. Exclusive'
        BY <2>2, <3>2, <3>4 DEF Exclusive
      <3>6. Live(at[Main])'
        BY <1>a, <3>1, <3>3 DEF Live
      <3>7. ~\E v \in Waiter : Restores(v)'
        BY <1>o, <2>3, <2>5, <3>1 DEF Restores
      <3>8. QED
        BY <1>1, <1>3, <3>3, <3>5, <3>6, <3>7 DEF LockInv, HoldersCounted
    <2>6. QED
      BY <2>4, <2>5
  <1>5. CASE ~\E T \in Waiter : Restores(T)
    <2>1. /\ Exclusive
          /\ (\E v \in Waiter : Holds(v)) => Main \in DOMAIN at /\ Live(at[Main])
      BY <1>0, <1>5 DEF HoldersCounted
    <2>2. CASE Move(w) /\ Target(w) = Main /\ Main \in DOMAIN at /\ Live(at[Main])
      <3>1. /\ Main \notin DOMAIN at' /\ aside'[w] = at[Main] /\ pc'[w] = "confirm" /\ path' = path
        BY <1>0, <2>2, RemovedFacts DEF Move, Goto, TypeOK
      <3>2. Restores(w)'
        BY <1>a, <2>2, <3>1 DEF Restores, Moves, Live, Target
      <3>3. \A v \in Waiter : Holds(v)' => Holds(v)
        BY <1>h, <2>2 DEF Move, LinkTakes
      <3>4. Exclusive'
        BY <2>1, <3>3 DEF Exclusive
      <3>5. \A t, u, v \in Waiter : Holds(t)' /\ Holds(u)' /\ Holds(v)' => t = u \/ t = v \/ u = v
        BY <3>4 DEF Exclusive
      <3>6. LockNamesLive'
        BY <3>1 DEF LockNamesLive
      <3>7. QED
        BY <1>1, <1>3, <3>2, <3>4, <3>5, <3>6 DEF LockInv, HoldersCounted
    <2>3. CASE ~(Move(w) /\ Target(w) = Main /\ Main \in DOMAIN at /\ Live(at[Main]))
      <3>1. ~\E v \in Waiter : Restores(v)'
        <4>1. ~Restores(w)'
          <5> SUFFICES ASSUME Restores(w)' PROVE FALSE
            OBVIOUS
          <5>1. pc'[w] \in {"confirm", "putback"} /\ Target(w)' = Main /\ Live(aside[w])'
            BY DEF Restores, Moves
          <5>2. Target(w) = Main
            BY <1>0, <5>1, MovesByRecheck DEF Target
          <5>3. CASE pc[w] = "move" /\ Main \in DOMAIN at /\ aside'[w] = at[Main]
            <6>1. Move(w)
              BY <5>3 DEF Step, CreateMine, FillMine, LinkTakes, LinkFails, DropMine, ReadLock,
                JudgeGone, JudgeLive, GiveUp, Wait, Take, Recheck, Confirm, PutBack, Discard,
                ReleaseClaim, List, SweepFile, SweepClaim, Weigh, SweepThrows, SweepDone, Dispose,
                ReleaseLock
            <6>2. QED
              BY <1>a, <2>3, <5>1, <5>2, <5>3, <6>1 DEF Live
          <5>4. CASE pc[w] = "confirm" /\ aside' = aside
            BY <1>a, <1>5, <5>1, <5>2, <5>4 DEF Restores, Moves, Live
          <5>5. QED
            BY <1>0, <5>1, <5>2, <5>3, <5>4, MovesByRecheck
        <4>2. QED
          BY <1>5, <1>o, <4>1
      <3>2. Exclusive' /\ ((\E v \in Waiter : Holds(v)') => Main \in DOMAIN at' /\ Live(at[Main])')
        <4>1. CASE LinkTakes(w) /\ path[w] = Main
          <5>1. Main \notin DOMAIN at /\ Main \in DOMAIN at' /\ at'[Main] = MyText(w)
            BY <4>1 DEF LinkTakes, Linked
          <5>2. \A v \in Waiter : Holds(v)' => v = w
            BY <1>h, <2>1, <5>1
          <5>3. QED
            BY <1>a, <5>1, <5>2 DEF Exclusive, Live
        <4>2. CASE ReleaseLock(w)
          <5>1. Holds(w)
            BY <4>2 DEF ReleaseLock, Holds
          <5>2. \A v \in Waiter : ~Holds(v)'
            BY <1>h, <2>1, <4>2, <5>1 DEF Exclusive, ReleaseLock, LinkTakes
          <5>3. QED
            BY <5>2 DEF Exclusive
        <4>3. CASE /\ ~(LinkTakes(w) /\ path[w] = Main) /\ ~ReleaseLock(w)
          <5>1. \A v \in Waiter : Holds(v)' => Holds(v)
            BY <1>h, <4>3
          <5>2. Exclusive'
            BY <2>1, <5>1 DEF Exclusive
          <5>3. ~(PutBack(w) /\ Target(w) = Main)
            BY <1>0, <1>5 DEF PutBack, InHand, Moves, Restores
          <5>4. ASSUME Main \in DOMAIN at, Live(at[Main])
                PROVE  Main \in DOMAIN at' /\ Live(at[Main])'
            BY <1>0, <1>a, <2>3, <4>3, <5>3, <5>4, LockFileStep DEF Live
          <5>5. QED
            BY <2>1, <5>1, <5>2, <5>4
        <4>4. QED
          BY <4>1, <4>2, <4>3
      <3>3. QED
        BY <1>1, <1>3, <3>1, <3>2 DEF LockInv, HoldersCounted
    <2>4. QED
      BY <2>2, <2>3
  <1>6. QED
    BY <1>4, <1>5

LEMMA HandInvInit == Init => HandInv
  <1> SUFFICES ASSUME Init PROVE HandInv
    OBVIOUS
  <1>1. CInv
    BY InitHolds, ClaimsOfIInv
  <1>2. \A w \in Waiter : pc[w] = "write" /\ path[w] = Main /\ bottom[w] = 0 /\ fault[w] = "none"
    BY DEF Init
  <1>3. \A w \in Waiter : ~Holds(w) /\ ~Moves(w)
    BY <1>2 DEF Holds, Moves
  <1>4. LockInv
    BY <1>3 DEF LockInv, InHand, HoldersCounted, Restores, Exclusive
  <1>5. QED
    BY <1>1, <1>2, <1>4 DEF HandInv, Init

LEMMA HandInvStep ==
  ASSUME HandInv, NEW w \in Waiter, Step(w)
  PROVE  HandInv'
  <1>0. TypeOK /\ CInv
    BY DEF HandInv, CInv
  <1>1. CInv' /\ alive' = Proc
    BY <1>0, ClaimsStep, AliveStands DEF HandInv
  <1>2. ASSUME NEW v \in Waiter
        PROVE  /\ fault[v] = "replaced" => fault'[v] = "replaced"
               /\ fault'[v] = "replaced" => pc'[v] \in {"discard", "release", "failed"}
    <2>1. fault[v] = "replaced" => pc[v] \in {"discard", "release", "failed"}
      BY DEF HandInv
    <2>2. CASE v = w
      BY <1>0, <2>1, <2>2, ReplacedStep
    <2>3. CASE v # w
      BY <1>0, <2>1, <2>3, OthersStand
    <2>4. QED
      BY <2>2, <2>3
  <1>3. ASSUME NeverReplaced' PROVE LockInv'
    <2>1. NeverReplaced /\ fault'[w] # "replaced"
      BY <1>2, <1>3 DEF NeverReplaced
    <2>2. QED
      BY <1>0, <2>1, LockStep DEF HandInv
  <1>4. QED
    BY <1>1, <1>2, <1>3 DEF HandInv

(* A hand takes only a lock that names nobody alive, which is nobody's.    *)
LEMMA HandInvHand ==
  ASSUME HandInv, HandRemove
  PROVE  HandInv'
  <1>1. CInv'
    BY ClaimsHand DEF HandInv
  <1>2. /\ Main \in DOMAIN at /\ ~Live(at[Main]) /\ at' = Removed(Main)
        /\ UNCHANGED <<alive, mine, aside, pc, path, bottom, found, waited, todo, fault>>
    BY DEF HandRemove
  <1>3. Main \notin DOMAIN at'
    BY <1>2, RemovedFacts
  <1>4. ASSUME LockInv PROVE LockInv'
    <2>1. \A v \in Waiter : /\ (Moves(v)' <=> Moves(v)) /\ (Holds(v)' <=> Holds(v))
                            /\ (Restores(v)' <=> Restores(v))
      BY <1>2 DEF Moves, Holds, Restores, Live, Target
    <2>2. ASSUME NEW v \in Waiter PROVE InHand(v)'
      BY <1>2, <1>3, <1>4, <2>1 DEF LockInv, InHand, LockNamesLive, Live, Target, Dead
    <2>3. ~\E v \in Waiter : Restores(v)
      BY <1>2, <1>4 DEF LockInv, HoldersCounted, LockNamesLive
    <2>4. \A v \in Waiter : ~Holds(v)
      BY <1>2, <1>4, <2>3 DEF LockInv, HoldersCounted
    <2>5. HoldersCounted'
      BY <2>1, <2>3, <2>4 DEF HoldersCounted, Exclusive
    <2>6. QED
      BY <1>4, <2>1, <2>2, <2>5 DEF LockInv
  <1>5. QED
    BY <1>1, <1>2, <1>4 DEF HandInv, NeverReplaced

LEMMA HandInvNext ==
  ASSUME MaxKills = 0
  PROVE  HandInv /\ [HandNext]_vars => HandInv'
  <1> SUFFICES ASSUME HandInv, [HandNext]_vars PROVE HandInv'
    OBVIOUS
  <1>1. ASSUME NEW p \in Proc, Kill(p) PROVE FALSE
    <2>1. Proc \ alive = {}
      BY DEF HandInv
    <2>2. Cardinality(Proc \ alive) < 0
      BY <1>1 DEF Kill
    <2>3. QED
      BY <2>1, <2>2, FS_EmptySet
  <1>2. CASE UNCHANGED vars
    <2>1. CInv'
      BY <1>2, ClaimsNext DEF HandInv
    <2>2. LockInv => LockInv'
      BY <1>2 DEF vars, LockInv, InHand, HoldersCounted, LockNamesLive, Exclusive, Restores, Moves,
                  Holds, Live, Target, Dead
    <2>3. QED
      BY <1>2, <2>1, <2>2 DEF vars, HandInv, NeverReplaced
  <1>3. QED
    BY <1>1, <1>2, HandInvStep, HandInvHand DEF HandNext, Next, Finished

(* takeOver's put-back and its last word, "two processes may each believe  *)
(* they hold the lock": while no process dies, whatever a hand removes and *)
(* however many take the lock, two hold it at once only while a taker is   *)
(* on its way to putting a lock back, or after one has thrown that.        *)
THEOREM NoOverlapIsSilent ==
  ASSUME MaxKills = 0
  PROVE  HandSpec => []OverlapIsNoticed
  <1>1. HandInv => OverlapIsNoticed
    <2> SUFFICES ASSUME HandInv, ~Exclusive PROVE \E w \in Waiter : Displaces(w)
      BY DEF OverlapIsNoticed
    <2>1. CASE ~NeverReplaced
      BY <2>1 DEF NeverReplaced, Displaces
    <2>2. CASE NeverReplaced
      <3>1. PICK w \in Waiter : Restores(w)
        BY <2>2 DEF HandInv, LockInv, HoldersCounted
      <3>2. ~Live(None)
        BY FileLockAssumption DEF HandInv, Live, Text
      <3>3. QED
        BY <3>1, <3>2 DEF Restores, Displaces
    <2>3. QED
      BY <2>1, <2>2
  <1>2. HandInv /\ [HandNext]_vars => HandInv'
    BY HandInvNext
  <1>3. QED
    BY <1>1, <1>2, HandInvInit, PTL DEF HandSpec
=============================================================================
