------------------------ MODULE CountCeilingsProofs ------------------------
(***************************************************************************)
(* What the ceilings promise for any workers, tests, counts, edits and     *)
(* kills.                                                                  *)
(***************************************************************************)
EXTENDS CountCeilings, TLAPS

-----------------------------------------------------------------------------
(* The rule writes entries. *)

LEMMA LowerOfType ==
  ASSUME NEW n \in Nat, NEW c \in Ceiling
  PROVE  LowerOf(n, c) \in Ceiling /\ LowerOf(n, c).ceiling <= c.ceiling
  BY DEF LowerOf, Ceiling, Plain

LEMMA LoweredType ==
  ASSUME NEW m, IsPartial(m, Slot, Nat),
         NEW c, IsPartial(c, Slot, Ceiling),
         NEW b \in Browser
  PROVE  IsEntry(Lowered(c, m, b))
  <1> DEFINE next == [s \in DOMAIN m |-> IF s \in DOMAIN c THEN LowerOf(m[s], c[s]) ELSE Plain(m[s])]
  <1>1. \A s \in DOMAIN m : m[s] \in Nat
    BY DEF IsPartial
  <1>2. \A s \in DOMAIN c : c[s] \in Ceiling
    BY DEF IsPartial
  <1>3. \A s \in DOMAIN m : next[s] \in Ceiling
    BY <1>1, <1>2, LowerOfType DEF Plain, Ceiling
  <1>4. IsPartial(next, Slot, Ceiling)
    BY <1>3 DEF IsPartial
  <1>5. DOMAIN Seal(next) = DOMAIN m /\ \A s \in DOMAIN m : Seal(next)[s] = next[s].ceiling
    BY DEF Seal
  <1>6. \A s \in DOMAIN m : next[s].ceiling \in Nat
    BY <1>3 DEF Ceiling
  <1>7. IsPartial(Seal(next), Slot, Nat)
    <2>1. Seal(next) = [s \in DOMAIN m |-> next[s].ceiling]
      BY DEF Seal
    <2>2. QED
      BY <2>1, <1>6 DEF IsPartial
  <1>8. Lowered(c, m, b) = [browser |-> b, ceilings |-> next, seal |-> Seal(next)]
    BY DEF Lowered
  <1> HIDE DEF next
  <1>9. QED
    BY <1>4, <1>7, <1>8 DEF IsEntry

(* A file with one entry set is a file. *)
LEMMA NewFileType ==
  ASSUME CeilingsAssumption, TypeOK, NEW r \in Run
  PROVE  IsFile(NewFile(r)) /\ IsEntry(NewEntry(r))
  <1>1. IsFile(seen[r]) /\ Test[r] \in Key /\ Build[r] \in Browser /\ IsPartial(measured[r], Slot, Nat)
    BY DEF TypeOK, CeilingsAssumption
  <1>2. IsEntry(NewEntry(r))
    <2>1. IsPartial(IF IsStored(r) THEN Stored(r).ceilings ELSE NoFile, Slot, Ceiling)
      <3>1. CASE IsStored(r)
        BY <1>1, <3>1 DEF IsStored, Stored, IsFile, IsEntry
      <3>2. CASE ~IsStored(r)
        BY <3>2 DEF NoFile, IsPartial
      <3>3. QED
        BY <3>1, <3>2
    <2>2. QED
      BY <1>1, <2>1, LoweredType DEF NewEntry
  <1>3. QED
    BY <1>1, <1>2 DEF NewFile, IsFile

-----------------------------------------------------------------------------
LEMMA InitHolds ==
  ASSUME CeilingsAssumption, Init
  PROVE  IInv
  <1>1. IsFile(NoFile)
    BY DEF IsFile, NoFile
  <1>2. IsFile(file) /\ whole \in BOOLEAN
    BY DEF Init, CeilingsAssumption
  <1>3. DOMAIN staged \subseteq Run \cup Left
        /\ \A w \in DOMAIN staged : IsFile(staged[w].file) /\ staged[w].whole \in BOOLEAN
    <2>1. PICK L \in SUBSET Left : staged = [w \in L |-> [file |-> NoFile, whole |-> FALSE]]
      BY DEF Init
    <2>2. QED
      BY <1>1, <2>1
  <1>4. pc \in [Run -> UnderLock \cup Over \cup {"lock"}] /\ edits \in 0..MaxEdits
    BY DEF Init, UnderLock, Over, CeilingsAssumption
  <1>5. DOMAIN seen = Run /\ \A r \in Run : measured[r] \in Measures[r] /\ IsFile(seen[r])
    BY <1>1 DEF Init
  <1>6. left \in [Run -> SUBSET (Run \cup Left)]
    BY DEF Init
  <1>7. TypeOK
    BY <1>2, <1>3, <1>4, <1>5, <1>6 DEF TypeOK
  <1>8. QED
    BY <1>7 DEF Init, IInv, OneHolder, HoldsLock, UnderLock, Writes, StillThere, StagedSoFar

(* An entry a person has edited is an entry. *)
LEMMA EditedType ==
  ASSUME TypeOK, NEW k \in DOMAIN file, NEW c, IsPartial(c, Slot, Ceiling)
  PROVE  IsFile(WithCeilings(k, c))
  <1>1. IsFile(file) /\ IsEntry(file[k])
    BY DEF TypeOK, IsFile
  <1>2. [file[k] EXCEPT !.ceilings = c] = [browser |-> file[k].browser, ceilings |-> c, seal |-> file[k].seal]
    BY <1>1 DEF IsEntry
  <1>3. IsEntry([file[k] EXCEPT !.ceilings = c])
    BY <1>1, <1>2 DEF IsEntry
  <1>4. WithCeilings(k, c) = [j \in DOMAIN file |-> IF j = k THEN [file[k] EXCEPT !.ceilings = c] ELSE file[j]]
    BY <1>1 DEF WithCeilings, IsFile
  <1>5. QED
    BY <1>1, <1>3, <1>4 DEF IsFile

LEMMA TypeStep ==
  ASSUME CeilingsAssumption, TypeOK, [Next]_vars
  PROVE  TypeOK'
  <1> USE DEF TypeOK, Goto, UnderLock, Over
  <1>1. ASSUME NEW r \in Run, Lock(r) PROVE TypeOK'
    BY <1>1 DEF Lock
  <1>2. ASSUME NEW r \in Run, LockTimesOut(r) PROVE TypeOK'
    BY <1>2 DEF LockTimesOut
  <1>3. ASSUME NEW r \in Run, Read(r) PROVE TypeOK'
    BY <1>3 DEF Read
  <1>4. ASSUME NEW r \in Run, Refuse(r) PROVE TypeOK'
    BY <1>4 DEF Refuse
  <1>5. ASSUME NEW r \in Run, Judge(r) PROVE TypeOK'
    BY <1>5 DEF Judge, CeilingsAssumption
  <1>6. ASSUME NEW r \in Run, List(r) PROVE TypeOK'
    BY <1>6 DEF List
  <1>7. ASSUME NEW r \in Run, Clear(r) PROVE TypeOK'
    <2>1. ASSUME NEW w \in left[r], left' = [left EXCEPT ![r] = @ \ {w}],
                 staged' = [v \in DOMAIN staged \ {w} |-> staged[v]], UNCHANGED pc
          PROVE  TypeOK'
      <3>1. left' \in [Run -> SUBSET (Run \cup Left)]
        BY <2>1
      <3>2. DOMAIN staged' \subseteq Run \cup Left
            /\ \A v \in DOMAIN staged' : IsFile(staged'[v].file) /\ staged'[v].whole \in BOOLEAN
        BY <2>1
      <3>3. QED
        BY <1>7, <2>1, <3>1, <3>2 DEF Clear
    <2>2. CASE left[r] = {} /\ Goto(r, "stage") /\ UNCHANGED <<staged, left>>
      BY <1>7, <2>2 DEF Clear
    <2>3. QED
      BY <1>7, <2>1, <2>2 DEF Clear
  <1>8. ASSUME NEW r \in Run, Stage(r) PROVE TypeOK'
    BY <1>8, NewFileType DEF Stage, Staging
  <1>9. ASSUME NEW r \in Run, Fill(r) PROVE TypeOK'
    BY <1>9, NewFileType DEF Fill, Staging
  <1>10. ASSUME NEW r \in Run, Move(r) PROVE TypeOK'
    BY <1>10 DEF Move
  <1>11. ASSUME NEW r \in Run, Release(r) PROVE TypeOK'
    BY <1>11 DEF Release
  <1>12. ASSUME NEW r \in Run, Kill(r) PROVE TypeOK'
    BY <1>12 DEF Kill
  <1>13. ASSUME NEW k \in Key, Type(k) PROVE TypeOK'
    <2>1. PICK s \in Slot, n \in Typed, w \in Typed :
            file' = WithCeilings(k, [t \in DOMAIN file[k].ceilings \cup {s} |->
                      IF t = s THEN [ceiling |-> n, was |-> w] ELSE file[k].ceilings[t]])
      BY <1>13 DEF Type
    <2> DEFINE c == [t \in DOMAIN file[k].ceilings \cup {s} |->
                      IF t = s THEN [ceiling |-> n, was |-> w] ELSE file[k].ceilings[t]]
    <2>2. IsPartial(file[k].ceilings, Slot, Ceiling) /\ k \in DOMAIN file
      BY <1>13 DEF Type, IsFile, IsEntry
    <2>3. [ceiling |-> n, was |-> w] \in Ceiling
      BY DEF CeilingsAssumption, Ceiling
    <2>4. IsPartial(c, Slot, Ceiling)
      BY <2>2, <2>3 DEF IsPartial
    <2> HIDE DEF c
    <2>5. IsFile(file')
      BY <2>1, <2>2, <2>4, EditedType DEF c
    <2>6. QED
      BY <1>13, <2>5 DEF Type, CeilingsAssumption
  <1>14. ASSUME NEW k \in Key, DeleteCount(k) PROVE TypeOK'
    <2>1. PICK s \in DOMAIN file[k].ceilings :
            file' = WithCeilings(k, [t \in DOMAIN file[k].ceilings \ {s} |-> file[k].ceilings[t]])
      BY <1>14 DEF DeleteCount
    <2> DEFINE c == [t \in DOMAIN file[k].ceilings \ {s} |-> file[k].ceilings[t]]
    <2>2. IsPartial(file[k].ceilings, Slot, Ceiling) /\ k \in DOMAIN file
      BY <1>14 DEF DeleteCount, IsFile, IsEntry
    <2>3. IsPartial(c, Slot, Ceiling)
      BY <2>2 DEF IsPartial
    <2> HIDE DEF c
    <2>4. IsFile(file')
      BY <2>1, <2>2, <2>3, EditedType DEF c
    <2>5. QED
      BY <1>14, <2>4 DEF DeleteCount, CeilingsAssumption
  <1>15. ASSUME NEW k \in Key, DeleteEntry(k) PROVE TypeOK'
    <2>1. IsFile(file')
      BY <1>15 DEF DeleteEntry, IsFile
    <2>2. QED
      BY <1>15, <2>1 DEF DeleteEntry, CeilingsAssumption
  <1>16. CASE UNCHANGED vars
    BY <1>16 DEF vars
  <1>17. QED
    BY <1>1, <1>2, <1>3, <1>4, <1>5, <1>6, <1>7, <1>8, <1>9, <1>10, <1>11, <1>12, <1>13, <1>14,
       <1>15, <1>16 DEF Next, Verdict, Finished

-----------------------------------------------------------------------------
(* What a verdict goes by is what it read and what its test measured. *)
LEMMA Frame ==
  ASSUME NEW r \in Run, seen'[r] = seen[r], measured' = measured
  PROVE  /\ NewFile(r)' = NewFile(r)
         /\ NewEntry(r)' = NewEntry(r)
         /\ Accepts(r)' <=> Accepts(r)
  <1>1. IsStored(r)' <=> IsStored(r)
    BY DEF IsStored
  <1>2. Stored(r)' = Stored(r)
    BY DEF Stored
  <1>3. NewEntry(r)' = NewEntry(r)
    BY <1>1, <1>2 DEF NewEntry
  <1>4. NewFile(r)' = NewFile(r)
    BY <1>3 DEF NewFile
  <1>5. Accepts(r)' <=> Accepts(r)
    BY <1>1, <1>2 DEF Accepts
  <1>6. QED
    BY <1>3, <1>4, <1>5

(* Two runs past their judgement would both hold the lock. *)
LEMMA Alone ==
  ASSUME OneHolder, NEW r \in Run, NEW w \in Run, Writes(r), HoldsLock(w),
         pc[r] \in UnderLock \ {"read", "judge"}
  PROVE  r = w
  BY DEF OneHolder, HoldsLock, Writes

(* The parts of the invariant about one run. *)
Part(r) == Writes(r) /\ StillThere(r) /\ StagedSoFar(r)

(* A run keeps its part while it and all it goes by stay as they are. *)
LEMMA Bystander ==
  ASSUME NEW w \in Run, Part(w), pc'[w] = pc[w], seen'[w] = seen[w], left'[w] = left[w],
         measured' = measured,
         HoldsLock(w) /\ pc[w] \notin {"read", "release"} =>
           \A k \in DOMAIN file' : k \in DOMAIN file /\ file'[k].seal = file[k].seal,
         pc[w] \in UnderLock \ {"read", "judge"} => staged' = staged
  PROVE  Part(w)'
  <1>1. NewFile(w)' = NewFile(w) /\ (Accepts(w)' <=> Accepts(w))
    BY Frame
  <1>2. Writes(w)'
    BY <1>1 DEF Part, Writes
  <1>3. StillThere(w)'
    BY DEF Part, StillThere, HoldsLock
  <1>4. StagedSoFar(w)'
    BY <1>1 DEF Part, StagedSoFar, UnderLock
  <1>5. QED
    BY <1>2, <1>3, <1>4 DEF Part

(* Steps of one run leave the others' parts alone. *)
LEMMA OneHolderStep ==
  ASSUME OneHolder, NEW r \in Run, pc \in [Run -> UnderLock \cup Over \cup {"lock"}],
         \A w \in Run : w # r => pc'[w] = pc[w],
         HoldsLock(r)' => HoldsLock(r) \/ \A w \in Run : ~HoldsLock(w)
  PROVE  OneHolder'
  BY DEF OneHolder, HoldsLock

LEMMA RunStep ==
  ASSUME CeilingsAssumption, IInv, NEW r \in Run, Verdict(r) \/ Kill(r)
  PROVE  IInv'
  <1>1. TypeOK'
    BY TypeStep DEF Next, IInv
  <1>2. TypeOK /\ OneHolder /\ whole /\ \A w \in Run : Part(w)
    BY DEF IInv, Part
  <1>3. pc \in [Run -> UnderLock \cup Over \cup {"lock"}]
    BY <1>2 DEF TypeOK
  <1>4. \A w \in Run : w # r => pc'[w] = pc[w] /\ seen'[w] = seen[w] /\ left'[w] = left[w]
    BY <1>2 DEF TypeOK, Verdict, Goto, Lock, LockTimesOut, Read, Refuse, Judge, List, Clear, Stage,
                Fill, Move, Release, Kill
  <1>5. measured' = measured
    BY DEF Verdict, Lock, LockTimesOut, Read, Refuse, Judge, List, Clear, Stage, Fill, Move,
           Release, Kill
  <1>6. OneHolder'
    <2>1. HoldsLock(r)' => HoldsLock(r) \/ \A w \in Run : ~HoldsLock(w)
      BY <1>3 DEF Verdict, Goto, HoldsLock, UnderLock, Over, Lock, LockTimesOut, Read, Refuse,
                  Judge, List, Clear, Stage, Fill, Move, Release, Kill
    <2>2. QED
      BY <1>2, <1>3, <1>4, <2>1, OneHolderStep
  (* What changes the file or the staging has the lock, so no one else has. *)
  <1>7. file' # file \/ staged' # staged \/ whole' # whole =>
          pc[r] \in UnderLock \ {"read", "judge"}
    BY DEF Verdict, UnderLock, Lock, LockTimesOut, Read, Refuse, Judge, List, Clear, Stage, Fill,
           Move, Release, Kill
  <1>8. ASSUME NEW w \in Run, w # r
        PROVE  Part(w)'
    <2>1. ~(pc[r] \in UnderLock \ {"read", "judge"} /\ HoldsLock(w))
      BY <1>2, <1>8, Alone DEF Part
    <2>2. HoldsLock(w) => file' = file /\ staged' = staged
      BY <1>7, <2>1
    <2>3. pc[w] \in UnderLock \ {"read", "judge"} => HoldsLock(w)
      BY <1>2 DEF Part, Writes, HoldsLock
    <2>4. QED
      BY <1>2, <1>4, <1>5, <1>8, <2>2, <2>3, Bystander
  <1>9. Part(r)' /\ whole'
    <2> USE DEF Goto
    <2>1. Part(r) /\ whole /\ DOMAIN seen = Run
      BY <1>2 DEF TypeOK
    <2>2. seen' = seen => NewFile(r)' = NewFile(r) /\ (Accepts(r)' <=> Accepts(r))
      BY <1>5, Frame
    (* A run that has not judged holds nothing to. *)
    <2>3. ASSUME pc'[r] \in {"read"} \cup Over, whole' = whole
          PROVE  Part(r)' /\ whole'
      BY <2>1, <2>3 DEF Part, Writes, StillThere, StagedSoFar, HoldsLock, UnderLock, Over
    <2>4. CASE Lock(r)
      BY <1>3, <2>3, <2>4 DEF Lock
    <2>5. CASE LockTimesOut(r) \/ Refuse(r) \/ Release(r) \/ Kill(r)
      BY <1>3, <2>3, <2>5 DEF LockTimesOut, Refuse, Release, Kill, Over
    <2>6. CASE Read(r)
      <3>1. pc'[r] = "judge" /\ seen'[r] = file' /\ whole'
        BY <1>3, <2>1, <2>6 DEF Read
      <3>2. QED
        BY <3>1 DEF Part, Writes, StillThere, StagedSoFar, UnderLock
    <2>7. CASE Judge(r)
      BY <1>3, <2>1, <2>2, <2>3, <2>7
         DEF Judge, Part, Writes, StillThere, StagedSoFar, HoldsLock, UnderLock, Over
    <2>8. CASE List(r)
      BY <1>2, <1>3, <2>1, <2>2, <2>8
         DEF TypeOK, List, Part, Writes, StillThere, StagedSoFar, HoldsLock, UnderLock
    <2>9. CASE Clear(r)
      <3>1. DOMAIN staged \subseteq left[r] /\ Writes(r) /\ StillThere(r)
        BY <2>1, <2>9 DEF Clear, Part, StagedSoFar
      <3>2. pc'[r] \in {"clear", "stage"} /\ whole'
        BY <1>3, <2>1, <2>9 DEF Clear
      <3>3. Writes(r)' /\ StillThere(r)'
        BY <2>2, <2>9, <3>1, <3>2 DEF Clear, Writes, StillThere, HoldsLock, UnderLock
      <3>4. StagedSoFar(r)'
        <4>1. ASSUME NEW w \in left[r], left' = [left EXCEPT ![r] = @ \ {w}],
                     staged' = [v \in DOMAIN staged \ {w} |-> staged[v]], UNCHANGED pc
              PROVE  StagedSoFar(r)'
          <5>1. left'[r] = left[r] \ {w}
            BY <1>2, <4>1 DEF TypeOK
          <5>2. DOMAIN staged' \subseteq left'[r]
            BY <3>1, <4>1, <5>1
          <5>3. QED
            BY <2>9, <4>1, <5>2 DEF Clear, StagedSoFar
        <4>2. CASE left[r] = {} /\ Goto(r, "stage") /\ UNCHANGED <<staged, left>>
          BY <1>3, <3>1, <4>2 DEF StagedSoFar
        <4>3. QED
          BY <2>9, <4>1, <4>2 DEF Clear
      <3>5. QED
        BY <3>2, <3>3, <3>4 DEF Part
    <2>10. CASE Stage(r)
      BY <1>3, <2>1, <2>2, <2>10
         DEF Stage, Staging, Part, Writes, StillThere, StagedSoFar, HoldsLock, UnderLock
    <2>11. CASE Fill(r)
      BY <1>3, <2>1, <2>2, <2>11
         DEF Fill, Staging, Part, Writes, StillThere, StagedSoFar, HoldsLock, UnderLock
    <2>12. CASE Move(r)
      <3>1. DOMAIN staged = {r} /\ staged[r].whole = TRUE /\ Writes(r)
        BY <2>1, <2>12 DEF Move, Part, StagedSoFar
      <3>2. pc'[r] = "release" /\ whole' /\ DOMAIN staged' = {}
        BY <1>3, <2>12, <3>1 DEF Move
      <3>3. Writes(r)'
        BY <2>2, <2>12, <3>1, <3>2 DEF Move, Writes, UnderLock
      <3>4. QED
        BY <3>2, <3>3 DEF Part, StillThere, StagedSoFar
    <2>13. QED
      BY <2>4, <2>5, <2>6, <2>7, <2>8, <2>9, <2>10, <2>11, <2>12 DEF Verdict
  <1>10. QED
    BY <1>1, <1>6, <1>8, <1>9 DEF IInv, Part

(* An edit by hand leaves every seal as it is, or takes it away whole. *)
LEMMA EditStep ==
  ASSUME CeilingsAssumption, IInv, NEW k \in Key, Type(k) \/ DeleteCount(k) \/ DeleteEntry(k)
  PROVE  IInv'
  <1>1. TypeOK'
    BY TypeStep DEF Next, IInv
  <1>2. TypeOK /\ OneHolder /\ whole /\ \A w \in Run : Part(w)
    BY DEF IInv, Part
  <1>3. UNCHANGED <<whole, staged, pc, measured, seen, left>>
    BY DEF Type, DeleteCount, DeleteEntry
  <1>4. \A j \in DOMAIN file' : j \in DOMAIN file /\ file'[j].seal = file[j].seal
    <2>1. IsFile(file)
      BY <1>2 DEF TypeOK
    <2>2. ASSUME NEW c, file' = WithCeilings(k, c), k \in DOMAIN file
          PROVE  \A j \in DOMAIN file' : j \in DOMAIN file /\ file'[j].seal = file[j].seal
      <3>1. [file[k] EXCEPT !.ceilings = c].seal = file[k].seal
        <4>1. file[k] = [browser |-> file[k].browser, ceilings |-> file[k].ceilings, seal |-> file[k].seal]
          BY <2>1, <2>2 DEF IsFile, IsEntry
        <4>2. QED
          BY <4>1
      <3>2. QED
        BY <2>2, <3>1 DEF WithCeilings
    <2>3. CASE Type(k)
      BY <2>2, <2>3 DEF Type
    <2>4. CASE DeleteCount(k)
      BY <2>2, <2>4 DEF DeleteCount
    <2>5. CASE DeleteEntry(k)
      BY <2>5 DEF DeleteEntry
    <2>6. QED
      BY <2>3, <2>4, <2>5
  <1>5. \A w \in Run : Part(w)'
    BY <1>2, <1>3, <1>4, Bystander
  <1>6. OneHolder'
    BY <1>2, <1>3 DEF OneHolder, HoldsLock
  <1>7. QED
    BY <1>1, <1>2, <1>3, <1>5, <1>6 DEF IInv, Part

LEMMA Step ==
  ASSUME CeilingsAssumption, IInv, [Next]_vars
  PROVE  IInv'
  <1>1. CASE UNCHANGED vars
    <2>1. TypeOK' /\ TypeOK /\ OneHolder /\ whole /\ \A w \in Run : Part(w)
      BY TypeStep DEF IInv, Part
    <2>2. UNCHANGED <<file, whole, staged, pc, measured, seen, left>>
      BY <1>1 DEF vars
    <2>3. \A w \in Run : Part(w)'
      BY <2>1, <2>2, Bystander
    <2>4. QED
      BY <2>1, <2>2, <2>3 DEF IInv, Part, OneHolder, HoldsLock
  <1>2. QED
    BY <1>1, RunStep, EditStep DEF Next, Finished

-----------------------------------------------------------------------------
(* The theorems. *)

(* The file, the staging files and the verdicts keep their types. *)
THEOREM TypeCorrect == Spec => []TypeOK
  <1>1. Init => TypeOK
    BY InitHolds, CeilingsAssumption DEF IInv
  <1>2. TypeOK /\ [Next]_vars => TypeOK'
    BY TypeStep, CeilingsAssumption
  <1>3. QED
    BY <1>1, <1>2, PTL DEF Spec

(* One holder at a time, which writes what it may, from a file no one else *)
(* has sealed anything in.                                                 *)
THEOREM Inductive == Spec => []IInv
  <1>1. Init => IInv
    BY InitHolds, CeilingsAssumption
  <1>2. IInv /\ [Next]_vars => IInv'
    BY Step, CeilingsAssumption
  <1>3. QED
    BY <1>1, <1>2, PTL DEF Spec

(* The file is never seen half written, and what is moved into place is    *)
(* the holder's own.                                                       *)
THEOREM StagedAlone == Spec => []StagesAlone
  <1>1. IInv => StagesAlone
    BY DEF IInv, StagesAlone, StagedSoFar
  <1>2. QED
    BY <1>1, Inductive, PTL

(* Whoever goes from "move" to "release" has moved its file into place,    *)
(* over one whose every seal it had read.                                  *)
LEMMA Moved ==
  ASSUME CeilingsAssumption, IInv, [Next]_vars, NEW r \in Run, pc[r] = "move", pc'[r] = "release"
  PROVE  /\ file' = NewFile(r)
         /\ Accepts(r) /\ IsFile(seen[r])
         /\ \A k \in DOMAIN file : k \in DOMAIN seen[r] /\ file[k].seal = seen[r][k].seal
  <1>1. TypeOK /\ Writes(r) /\ StillThere(r) /\ StagedSoFar(r)
    BY DEF IInv
  <1>2. pc \in [Run -> UnderLock \cup Over \cup {"lock"}]
    BY <1>1 DEF TypeOK
  <1>3. Move(r)
    <2>1. PICK w \in Run : Verdict(w) \/ Kill(w)
      BY DEF Next, vars, Type, DeleteCount, DeleteEntry, Finished
    <2>2. w = r
      BY <1>2, <2>1 DEF Verdict, Goto, Lock, LockTimesOut, Read, Refuse, Judge, List, Clear, Stage,
                        Fill, Move, Release, Kill
    <2>3. QED
      BY <1>2, <2>1, <2>2 DEF Verdict, Goto, Lock, LockTimesOut, Read, Refuse, Judge, List, Clear,
                        Stage, Fill, Release, Kill
  <1>4. file' = NewFile(r)
    BY <1>1, <1>3 DEF Move, StagedSoFar
  <1>5. QED
    BY <1>1, <1>4 DEF TypeOK, Writes, StillThere, HoldsLock, UnderLock

(* "The command never raises a ceiling", whatever is edited, and whenever. *)
THEOREM Explained == Spec => OnlyExplainedRises
  <1> DEFINE Explains(r) ==
        LET k == Test[r]
            was == file[k].seal
            is == file'[k].seal
        IN  \A s \in DOMAIN was \cap DOMAIN is :
              is[s] > was[s] =>
                /\ seen[r][k].ceilings[s].was = was[s]
                /\ seen[r][k].ceilings[s].ceiling >= is[s]
  <1>1. ASSUME IInv, [Next]_vars, NEW r \in Run, pc[r] = "move", pc'[r] = "release",
               Test[r] \in DOMAIN file
        PROVE  Explains(r)
    <2> DEFINE k == Test[r]
               c == seen[r][k].ceilings
               m == measured[r]
    <2>1. /\ file' = NewFile(r) /\ Accepts(r) /\ IsFile(seen[r])
          /\ k \in DOMAIN seen[r] /\ file[k].seal = seen[r][k].seal
      BY <1>1, Moved, CeilingsAssumption
    <2>2. file'[k] = Lowered(c, m, Build[r])
      BY <2>1 DEF NewFile, NewEntry, IsStored, Stored
    <2>3. IsPartial(c, Slot, Ceiling) /\ IsPartial(seen[r][k].seal, Slot, Nat) /\ IsPartial(m, Slot, Nat)
      BY <1>1, <2>1, CeilingsAssumption DEF IsFile, IsEntry, IInv, TypeOK, CeilingsAssumption
    <2>4. ASSUME NEW s \in DOMAIN file[k].seal \cap DOMAIN file'[k].seal,
                 file'[k].seal[s] > file[k].seal[s]
          PROVE  c[s].was = file[k].seal[s] /\ c[s].ceiling >= file'[k].seal[s]
      <3>1. s \in DOMAIN c /\ (Kept(seen[r][k], s) \/ RaisedSince(seen[r][k], s))
        BY <2>1, <2>4 DEF Accepts, IsStored, Stored, IsSealed
      <3>2. s \in DOMAIN m /\ file'[k].seal[s] = LowerOf(m[s], c[s]).ceiling
        <4> DEFINE next == [t \in DOMAIN m |-> IF t \in DOMAIN c THEN LowerOf(m[t], c[t]) ELSE Plain(m[t])]
        <4>1. Lowered(c, m, Build[r]).seal = Seal(next)
          BY DEF Lowered
        <4>2. file'[k].seal = [t \in DOMAIN m |-> next[t].ceiling]
          BY <2>2, <4>1 DEF Seal
        <4>3. s \in DOMAIN m /\ file'[k].seal[s] = next[s].ceiling
          BY <2>4, <4>2
        <4>4. QED
          BY <3>1, <4>3
      <3>3. m[s] \in Nat /\ c[s] \in Ceiling /\ file[k].seal[s] \in Nat
        BY <2>1, <2>3, <2>4, <3>1, <3>2 DEF IsPartial
      <3>4. LowerOf(m[s], c[s]).ceiling <= c[s].ceiling /\ LowerOf(m[s], c[s]).ceiling \in Nat
        BY <3>3, LowerOfType DEF Ceiling
      <3>5. c[s].ceiling >= file'[k].seal[s] /\ c[s].ceiling \in Nat
        BY <3>2, <3>3, <3>4 DEF Ceiling
      <3>6. ~Kept(seen[r][k], s)
        BY <2>1, <2>4, <3>2, <3>3, <3>4, <3>5 DEF Kept
      <3>7. QED
        BY <2>1, <3>1, <3>5, <3>6 DEF RaisedSince
    <2>5. QED
      BY <2>4
  <1>2. IInv /\ [Next]_vars =>
          [\A r \in Run : pc[r] = "move" /\ pc'[r] = "release" /\ Test[r] \in DOMAIN file =>
             Explains(r)]_vars
    BY <1>1
  <1>3. QED
    BY <1>2, Inductive, PTL DEF Spec, OnlyExplainedRises

(* Workers take turns: no write takes back what is accepted for another    *)
(* test.                                                                   *)
THEOREM LosesNothing == Spec => NothingLost
  <1>1. ASSUME IInv, [Next]_vars, NEW r \in Run, pc[r] = "move", pc'[r] = "release",
               NEW k \in DOMAIN file \ {Test[r]}
        PROVE  k \in DOMAIN file' /\ file'[k].seal = file[k].seal
    <2>1. file' = NewFile(r) /\ k \in DOMAIN seen[r] /\ file[k].seal = seen[r][k].seal
      BY <1>1, Moved, CeilingsAssumption
    <2>2. k \in DOMAIN NewFile(r) /\ NewFile(r)[k] = seen[r][k]
      BY <2>1 DEF NewFile
    <2>3. QED
      BY <2>1, <2>2
  <1>2. IInv /\ [Next]_vars =>
          [\A r \in Run :
             pc[r] = "move" /\ pc'[r] = "release" =>
               \A k \in DOMAIN file \ {Test[r]} :
                 k \in DOMAIN file' /\ file'[k].seal = file[k].seal]_vars
    BY <1>1
  <1>3. QED
    BY <1>2, Inductive, PTL DEF Spec, NothingLost

-----------------------------------------------------------------------------
(* The report of a run and what the command writes are the same judgement. *)

LEMMA ChangesParts ==
  ASSUME NEW e, NEW m, NEW b
  PROVE  /\ Changes(e, m, b) = {} <=>
              /\ e.browser = b
              /\ DOMAIN e.ceilings = DOMAIN m
              /\ \A s \in DOMAIN e.ceilings \cap DOMAIN m :
                   /\ ~(m[s] < e.ceilings[s].ceiling) /\ ~(m[s] > e.ceilings[s].ceiling)
                   /\ ~(s \in Raises(e) /\ IsRaised(e.ceilings[s])
                          /\ m[s] >= e.ceilings[s].ceiling)
         /\ Above(Changes(e, m, b)) =
              {<<"above", s>> : s \in {t \in DOMAIN e.ceilings \cap DOMAIN m :
                                         m[t] > e.ceilings[t].ceiling}}
         /\ /\ e.browser = b /\ DOMAIN e.ceilings = DOMAIN m /\ Raises(e) = {}
            /\ \A s \in DOMAIN m : ~(m[s] < e.ceilings[s].ceiling)
            => Changes(e, m, b) = Above(Changes(e, m, b))
  <1> DEFINE c == e.ceilings
             both == DOMAIN c \cap DOMAIN m
             Browsers == {<<"browser", x>> : x \in {e.browser} \ {b}}
             PhasesDropped == {<<"phaseDropped", p>> : p \in PhasesOf(c) \ PhasesOf(m)}
             PhasesAdded == {<<"phaseAdded", p>> : p \in PhasesOf(m) \ PhasesOf(c)}
             CountsDropped == {<<"countDropped", s>> : s \in {t \in DOMAIN c \ DOMAIN m : t[1] \in PhasesOf(m)}}
             CountsAdded == {<<"countAdded", s>> : s \in {t \in DOMAIN m \ DOMAIN c : t[1] \in PhasesOf(c)}}
             Lowers == {<<"lowered", s>> : s \in {t \in both : m[t] < c[t].ceiling}}
             Aboves == {<<"above", s>> : s \in {t \in both : m[t] > c[t].ceiling}}
             Raised == {<<"raiseKept", s>> : s \in {t \in both \cap Raises(e) :
                                                       IsRaised(c[t]) /\ m[t] >= c[t].ceiling}}
  <1>1. Changes(e, m, b) = Browsers \cup PhasesDropped \cup PhasesAdded \cup CountsDropped
                             \cup CountsAdded \cup Lowers \cup Aboves \cup Raised
    BY DEF Changes
  <1>2. Browsers = {} <=> e.browser = b
    OBVIOUS
  <1>3. PhasesDropped = {} /\ CountsDropped = {} <=> DOMAIN c \subseteq DOMAIN m
    <2>1. PhasesDropped = {} <=> PhasesOf(c) \subseteq PhasesOf(m)
      OBVIOUS
    <2>2. CountsDropped = {} <=> \A t \in DOMAIN c \ DOMAIN m : t[1] \notin PhasesOf(m)
      OBVIOUS
    <2>3. \A t \in DOMAIN c : t[1] \in PhasesOf(c)
      BY DEF PhasesOf
    <2>4. DOMAIN c \subseteq DOMAIN m => PhasesOf(c) \subseteq PhasesOf(m)
      BY DEF PhasesOf
    <2> HIDE DEF PhasesDropped, CountsDropped, c
    <2>5. QED
      BY <2>1, <2>2, <2>3, <2>4
  <1>4. PhasesAdded = {} /\ CountsAdded = {} <=> DOMAIN m \subseteq DOMAIN c
    <2>1. PhasesAdded = {} <=> PhasesOf(m) \subseteq PhasesOf(c)
      OBVIOUS
    <2>2. CountsAdded = {} <=> \A t \in DOMAIN m \ DOMAIN c : t[1] \notin PhasesOf(c)
      OBVIOUS
    <2>3. \A t \in DOMAIN m : t[1] \in PhasesOf(m)
      BY DEF PhasesOf
    <2>4. DOMAIN m \subseteq DOMAIN c => PhasesOf(m) \subseteq PhasesOf(c)
      BY DEF PhasesOf
    <2> HIDE DEF PhasesAdded, CountsAdded, c
    <2>5. QED
      BY <2>1, <2>2, <2>3, <2>4
  <1>5. Lowers = {} <=> \A s \in both : ~(m[s] < c[s].ceiling)
    OBVIOUS
  <1>6. Aboves = {} <=> \A s \in both : ~(m[s] > c[s].ceiling)
    OBVIOUS
  <1>7. Raised = {} <=> \A s \in both : ~(s \in Raises(e) /\ IsRaised(c[s]) /\ m[s] >= c[s].ceiling)
    OBVIOUS
  <1>8. Above(Changes(e, m, b)) = Aboves
    <2>1. \A x \in Aboves : x[1] = "above"
      OBVIOUS
    <2>2. \A x \in Browsers : x[1] = "browser"
      OBVIOUS
    <2>3. \A x \in PhasesDropped : x[1] = "phaseDropped"
      OBVIOUS
    <2>4. \A x \in PhasesAdded : x[1] = "phaseAdded"
      OBVIOUS
    <2>5. \A x \in CountsDropped : x[1] = "countDropped"
      OBVIOUS
    <2>6. \A x \in CountsAdded : x[1] = "countAdded"
      OBVIOUS
    <2>7. \A x \in Lowers : x[1] = "lowered"
      OBVIOUS
    <2>8. \A x \in Raised : x[1] = "raiseKept"
      OBVIOUS
    <2> HIDE DEF Browsers, PhasesDropped, PhasesAdded, CountsDropped, CountsAdded, Lowers, Aboves, Raised
    <2>9. QED
      BY <1>1, <2>1, <2>2, <2>3, <2>4, <2>5, <2>6, <2>7, <2>8 DEF Above
  <1> HIDE DEF Browsers, PhasesDropped, PhasesAdded, CountsDropped, CountsAdded, Lowers, Aboves, Raised
  <1>9. Changes(e, m, b) = {} <=>
          /\ e.browser = b /\ DOMAIN c = DOMAIN m
          /\ Lowers = {} /\ Aboves = {} /\ Raised = {}
    BY <1>1, <1>2, <1>3, <1>4
  <1>10. ASSUME e.browser = b, DOMAIN e.ceilings = DOMAIN m, Raises(e) = {},
                \A s \in DOMAIN m : ~(m[s] < e.ceilings[s].ceiling)
         PROVE  Changes(e, m, b) = Above(Changes(e, m, b))
    <2>1. Browsers = {} /\ PhasesDropped = {} /\ CountsDropped = {} /\ PhasesAdded = {}
          /\ CountsAdded = {} /\ Lowers = {} /\ Raised = {}
      BY <1>2, <1>3, <1>4, <1>5, <1>7, <1>10
    <2>2. QED
      BY <1>1, <1>8, <2>1
  <1>11. QED
    BY <1>5, <1>6, <1>7, <1>8, <1>9, <1>10 DEF Aboves

(* What a stored entry, a measure and a browser are of, for a run that     *)
(* judges or writes.                                                       *)
LEMMA Judged ==
  ASSUME CeilingsAssumption, TypeOK, NEW r \in Run
  PROVE  /\ IsPartial(measured[r], Slot, Nat) /\ IsMeasure(measured[r])
         /\ IsStored(r) => IsEntry(Stored(r))
  BY DEF TypeOK, CeilingsAssumption, IsStored, Stored, IsFile

(* Lowering is to whichever is less. *)
LEMMA LoweredSlots ==
  ASSUME NEW c, NEW m, NEW b, NEW e, e = Lowered(c, m, b),
         IsPartial(c, Slot, Ceiling), IsPartial(m, Slot, Nat)
  PROVE  /\ e = [browser |-> b, ceilings |-> e.ceilings, seal |-> Seal(e.ceilings)]
         /\ e.browser = b /\ e.seal = Seal(e.ceilings) /\ DOMAIN e.ceilings = DOMAIN m
         /\ e.ceilings = [s \in DOMAIN m |-> e.ceilings[s]]
         /\ \A s \in DOMAIN m :
              e.ceilings[s] = IF s \in DOMAIN c /\ ~(m[s] < c[s].ceiling) THEN c[s] ELSE Plain(m[s])
  <1> DEFINE next == [s \in DOMAIN m |-> IF s \in DOMAIN c THEN LowerOf(m[s], c[s]) ELSE Plain(m[s])]
  <1>1. Lowered(c, m, b) = [browser |-> b, ceilings |-> next, seal |-> Seal(next)]
    BY DEF Lowered
  <1>2. \A s \in DOMAIN m :
          next[s] = IF s \in DOMAIN c /\ ~(m[s] < c[s].ceiling) THEN c[s] ELSE Plain(m[s])
    BY DEF LowerOf
  <1>3. DOMAIN next = DOMAIN m /\ next = [s \in DOMAIN m |-> next[s]]
    OBVIOUS
  <1> HIDE DEF next
  <1>4. QED
    BY <1>1, <1>2, <1>3

(* "The check fails exactly when the command would write the entry         *)
(* differently, or would keep a ceiling the page is above."                *)
THEOREM OneJudgement == Spec => []CheckAgreesWithCommand
  <1>1. ASSUME IInv, NEW r \in Run, IsStored(r), Accepts(r)
        PROVE  ChangesOf(r) = {} <=> NewEntry(r) = Stored(r) /\ Above(ChangesOf(r)) = {}
    <2> DEFINE e == Stored(r)
               m == measured[r]
               b == Build[r]
               c == e.ceilings
               n == NewEntry(r)
    <2>1. /\ IsPartial(m, Slot, Nat) /\ IsEntry(e) /\ IsPartial(c, Slot, Ceiling) /\ IsSealed(e)
          /\ ChangesOf(r) = Changes(e, m, b) /\ n = Lowered(c, m, b)
      BY <1>1, Judged, CeilingsAssumption DEF IInv, IsEntry, Accepts, ChangesOf, NewEntry
    <2>2. /\ n = [browser |-> b, ceilings |-> n.ceilings, seal |-> Seal(n.ceilings)]
          /\ n.browser = b /\ n.seal = Seal(n.ceilings) /\ DOMAIN n.ceilings = DOMAIN m
          /\ n.ceilings = [s \in DOMAIN m |-> n.ceilings[s]]
          /\ \A s \in DOMAIN m :
               n.ceilings[s] = IF s \in DOMAIN c /\ ~(m[s] < c[s].ceiling) THEN c[s] ELSE Plain(m[s])
      BY <2>1, LoweredSlots
    <2>3. \A s \in DOMAIN m : m[s] \in Nat
      BY <2>1 DEF IsPartial
    <2>4. \A s \in DOMAIN c : c[s].ceiling \in Nat /\ c[s].was \in Nat
      BY <2>1 DEF IsPartial, Ceiling
    <2>5. e = [browser |-> e.browser, ceilings |-> c, seal |-> e.seal]
          /\ c = [s \in DOMAIN c |-> c[s]] /\ e.seal = [s \in DOMAIN e.seal |-> e.seal[s]]
      BY <2>1 DEF IsEntry, IsPartial
    <2> HIDE DEF e, m, b, c, n
    <2>6. ASSUME Changes(e, m, b) = {}
          PROVE  n = e /\ Above(Changes(e, m, b)) = {}
      <3>1. /\ e.browser = b /\ DOMAIN c = DOMAIN m
            /\ \A s \in DOMAIN m :
                 /\ m[s] = c[s].ceiling
                 /\ ~(s \in Raises(e) /\ IsRaised(c[s]))
        BY <2>3, <2>4, <2>6, ChangesParts DEF c
      <3>2. n.ceilings = c
        BY <2>2, <2>3, <2>4, <2>5, <3>1
      <3>3. DOMAIN e.seal = DOMAIN c /\ \A s \in DOMAIN c : e.seal[s] = c[s].ceiling
        BY <2>1, <3>1 DEF IsSealed, RaisedSince, Raises, Kept, c
      <3>4. e.seal = Seal(c)
        BY <2>5, <3>3 DEF Seal
      <3>5. n = e
        BY <2>2, <2>5, <3>1, <3>2, <3>4
      <3>6. QED
        BY <2>6, <3>5 DEF Above
    <2>7. ASSUME n = e, Above(Changes(e, m, b)) = {}
          PROVE  Changes(e, m, b) = {}
      <3>1. e.browser = b /\ DOMAIN c = DOMAIN m /\ n.ceilings = c /\ e.seal = Seal(c)
        BY <2>2, <2>7 DEF c
      <3>2. \A s \in DOMAIN m : ~(m[s] < c[s].ceiling)
        <4>1. ASSUME NEW s \in DOMAIN m, m[s] < c[s].ceiling
              PROVE  FALSE
          <5>1. c[s] = Plain(m[s])
            BY <2>2, <3>1, <4>1
          <5>2. c[s].ceiling = m[s]
            BY <5>1 DEF Plain
          <5>3. QED
            BY <2>3, <4>1, <5>2
        <4>2. QED
          BY <4>1
      <3>3. Above(Changes(e, m, b)) =
              {<<"above", s>> : s \in {t \in DOMAIN c \cap DOMAIN m : m[t] > c[t].ceiling}}
        BY ChangesParts DEF c
      <3>4. \A s \in DOMAIN m : ~(m[s] > c[s].ceiling)
        BY <2>7, <3>1, <3>3
      <3>5. Raises(e) = {}
        BY <3>1 DEF Raises, Kept, Seal, c
      <3>6. QED
        BY <3>1, <3>2, <3>4, <3>5, ChangesParts DEF c
    <2>8. QED
      BY <2>1, <2>6, <2>7 DEF e, m, b, c, n
  <1>2. IInv => CheckAgreesWithCommand
    BY <1>1 DEF CheckAgreesWithCommand
  <1>3. QED
    BY <1>2, Inductive, PTL

(* What the command writes reads, is sealed, and answers the same measure  *)
(* with nothing but what the page is above.                                *)
LEMMA LoweredSettles ==
  ASSUME NEW c, NEW m, NEW b, NEW n, n = Lowered(c, m, b),
         IsPartial(c, Slot, Ceiling), IsPartial(m, Slot, Nat), IsMeasure(m),
         \A s \in DOMAIN c : c[s].ceiling >= c[s].was
  PROVE  /\ Reads(n) /\ IsSealed(n)
         /\ Changes(n, m, b) =
              {<<"above", s>> : s \in {t \in DOMAIN c \cap DOMAIN m : m[t] > c[t].ceiling}}
  <1>1. \A s \in DOMAIN m : m[s] \in Nat
    BY DEF IsPartial
  <1>2. \A s \in DOMAIN c : c[s].ceiling \in Nat /\ c[s].was \in Nat
    BY DEF IsPartial, Ceiling
  <1>3. /\ n = [browser |-> b, ceilings |-> n.ceilings, seal |-> Seal(n.ceilings)]
        /\ n.browser = b /\ n.seal = Seal(n.ceilings) /\ DOMAIN n.ceilings = DOMAIN m
        /\ n.ceilings = [s \in DOMAIN m |-> n.ceilings[s]]
        /\ \A s \in DOMAIN m :
             n.ceilings[s] = IF s \in DOMAIN c /\ ~(m[s] < c[s].ceiling) THEN c[s] ELSE Plain(m[s])
    BY LoweredSlots
  <1>4. PhasesOf(n.ceilings) = PhasesOf(m)
    BY <1>3 DEF PhasesOf
  <1>5. Reads(n)
    <2>1. \A s \in DOMAIN m : n.ceilings[s].ceiling >= n.ceilings[s].was
      <3>1. ASSUME NEW s \in DOMAIN m, s \in DOMAIN c, ~(m[s] < c[s].ceiling)
            PROVE  n.ceilings[s].ceiling >= n.ceilings[s].was
        BY <1>3, <3>1
      <3>2. ASSUME NEW s \in DOMAIN m, ~(s \in DOMAIN c /\ ~(m[s] < c[s].ceiling))
            PROVE  n.ceilings[s].ceiling >= n.ceilings[s].was
        <4>1. n.ceilings[s] = Plain(m[s])
          BY <1>3, <3>2
        <4>2. n.ceilings[s].ceiling = m[s] /\ n.ceilings[s].was = m[s]
          BY <4>1 DEF Plain
        <4>3. QED
          BY <1>1, <4>2
      <3>3. QED
        BY <3>1, <3>2
    <2>2. QED
      BY <1>3, <1>4, <2>1 DEF Reads, IsMeasure
  <1>6. DOMAIN n.seal = DOMAIN n.ceilings /\ \A s \in DOMAIN n.seal : Kept(n, s)
    BY <1>3 DEF Seal, Kept
  <1>7. IsSealed(n) /\ Raises(n) = {}
    BY <1>6 DEF IsSealed, Raises
  <1>8. \A s \in DOMAIN m : n.ceilings[s].ceiling \in Nat /\ ~(m[s] < n.ceilings[s].ceiling)
    <2>1. ASSUME NEW s \in DOMAIN m, s \in DOMAIN c, ~(m[s] < c[s].ceiling)
          PROVE  n.ceilings[s].ceiling \in Nat /\ ~(m[s] < n.ceilings[s].ceiling)
      BY <1>2, <1>3, <2>1
    <2>2. ASSUME NEW s \in DOMAIN m, ~(s \in DOMAIN c /\ ~(m[s] < c[s].ceiling))
          PROVE  n.ceilings[s].ceiling \in Nat /\ ~(m[s] < n.ceilings[s].ceiling)
      <3>1. n.ceilings[s] = Plain(m[s])
        BY <1>3, <2>2
      <3>2. n.ceilings[s].ceiling = m[s]
        BY <3>1 DEF Plain
      <3>3. QED
        BY <1>1, <3>2
    <2>3. QED
      BY <2>1, <2>2
  <1>9. Changes(n, m, b) = Above(Changes(n, m, b))
    BY <1>3, <1>7, <1>8, ChangesParts
  (* The page is above the new ceilings exactly where it was above the old. *)
  <1>10. \A s \in DOMAIN m :
           m[s] > n.ceilings[s].ceiling <=> s \in DOMAIN c /\ m[s] > c[s].ceiling
    <2>1. ASSUME NEW s \in DOMAIN m, s \in DOMAIN c, ~(m[s] < c[s].ceiling)
          PROVE  n.ceilings[s] = c[s]
      BY <1>3, <2>1
    <2>2. ASSUME NEW s \in DOMAIN m, ~(s \in DOMAIN c /\ ~(m[s] < c[s].ceiling))
          PROVE  n.ceilings[s].ceiling = m[s]
      <3>1. n.ceilings[s] = Plain(m[s])
        BY <1>3, <2>2
      <3>2. QED
        BY <3>1 DEF Plain
    <2>3. QED
      BY <1>1, <1>2, <2>1, <2>2
  <1>11. Above(Changes(n, m, b)) =
           {<<"above", s>> : s \in {t \in DOMAIN n.ceilings \cap DOMAIN m :
                                      m[t] > n.ceilings[t].ceiling}}
    BY ChangesParts
  <1>12. {t \in DOMAIN n.ceilings \cap DOMAIN m : m[t] > n.ceilings[t].ceiling}
           = {t \in DOMAIN c \cap DOMAIN m : m[t] > c[t].ceiling}
    BY <1>3, <1>10
  <1>13. QED
    BY <1>5, <1>7, <1>9, <1>11, <1>12

(* What the command has written it has nothing more to say of, but what    *)
(* the page is above.                                                      *)
THEOREM Settled == Spec => []WrittenIsSettled
  <1>1. ASSUME IInv, NEW r \in Run, pc[r] \in {"move", "release"}
        PROVE  LET e == NewEntry(r)
               IN  /\ Reads(e) /\ IsSealed(e)
                   /\ Changes(e, measured[r], Build[r]) = Above(ChangesOf(r))
    <2> DEFINE m == measured[r]
               b == Build[r]
               c == IF IsStored(r) THEN Stored(r).ceilings ELSE NoFile
               n == NewEntry(r)
    <2>1. /\ IsPartial(m, Slot, Nat) /\ IsMeasure(m) /\ Accepts(r)
          /\ IsStored(r) => IsEntry(Stored(r)) /\ Reads(Stored(r))
      BY <1>1, Judged, CeilingsAssumption DEF IInv, Accepts, Writes, UnderLock
    <2>2. IsPartial(c, Slot, Ceiling) /\ \A s \in DOMAIN c : c[s].ceiling >= c[s].was
      BY <2>1 DEF IsEntry, IsPartial, NoFile, Reads
    <2>3. n = Lowered(c, m, b)
      BY DEF NewEntry
    <2>4. Above(ChangesOf(r)) =
            {<<"above", s>> : s \in {t \in DOMAIN c \cap DOMAIN m : m[t] > c[t].ceiling}}
      BY ChangesParts DEF ChangesOf, Above, NoFile
    <2>5. QED
      BY <2>1, <2>2, <2>3, <2>4, LoweredSettles
  <1>2. IInv => WrittenIsSettled
    BY <1>1 DEF WrittenIsSettled
  <1>3. QED
    BY <1>2, Inductive, PTL
=============================================================================
