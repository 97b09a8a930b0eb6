--------------------------- MODULE CountCeilings ---------------------------
(***************************************************************************)
(* The count budget's ceilings: the rule of count-ceilings.ts, and the     *)
(* verdict of count-budget.ts that applies it to a file shared by the      *)
(* workers of a run, the workers that were killed, and a person with an    *)
(* editor.  The command lowers a ceiling; only a person raises one, in a   *)
(* form the seal can tell from any other edit.                             *)
(*                                                                         *)
(* A slot is one count of one phase.  The four counts every phase has      *)
(* behave alike and are one here, "steady"; "react" may be absent.  The    *)
(* seal is a digest per slot, in an order the slots fix: two seals agree   *)
(* exactly when they are of the same slots and the same numbers, so it is  *)
(* the function from slots to the numbers digested.                        *)
(***************************************************************************)
EXTENDS Integers, FiniteSets

CONSTANTS
  Run,          \* the workers, each with a test that has passed
  Key,
  Test,         \* per run, the key of its test
  Mode,         \* per run, "check" or "write"
  Phase,
  Measures,     \* per run, what its test may have measured: slots to numbers
  Browser,
  Build,        \* per run, the browser it ran on
  Before,       \* what the file may be at the start
  Left,         \* staging files of workers killed before the start
  Typed,        \* the numbers a person may type
  MaxEdits,     \* bound on the edits by hand
  MaxKills      \* bound on the workers killed

Slot == Phase \X {"steady", "react"}

(* A plain number n is written Plain(n): its `was` is itself. *)
Ceiling == [ceiling : Nat, was : Nat]
Plain(n) == [ceiling |-> n, was |-> n]
IsRaised(c) == c.was # c.ceiling

(* The functions from part of S to T. *)
IsPartial(f, S, T) == DOMAIN f \subseteq S /\ f \in [DOMAIN f -> T]

IsEntry(e) ==
  /\ e = [browser |-> e.browser, ceilings |-> e.ceilings, seal |-> e.seal]
  /\ e.browser \in Browser
  /\ IsPartial(e.ceilings, Slot, Ceiling)
  /\ IsPartial(e.seal, Slot, Nat)
IsFile(f) ==
  /\ f = [k \in DOMAIN f |-> f[k]]
  /\ DOMAIN f \subseteq Key
  /\ \A k \in DOMAIN f : IsEntry(f[k])

(* A phase has its four counts, whatever it did. *)
PhasesOf(f) == {s[1] : s \in DOMAIN f}
IsMeasure(m) == \A p \in PhasesOf(m) : <<p, "steady">> \in DOMAIN m

NoFile == [k \in {} |-> 0]

ASSUME CeilingsAssumption ==
  /\ Test \in [Run -> Key]
  /\ Mode \in [Run -> {"check", "write"}]
  /\ Build \in [Run -> Browser]
  /\ \A r \in Run : \A m \in Measures[r] : IsPartial(m, Slot, Nat) /\ IsMeasure(m)
  /\ \A f \in Before : IsFile(f)
  /\ Typed \subseteq Nat
  /\ Left \cap Run = {}
  /\ MaxEdits \in Nat /\ MaxKills \in Nat

VARIABLES
  file,      \* the ceilings file: keys to entries; a missing file is an empty one
  whole,     \* whether it is all there, or cut off in the middle
  staged,    \* the staging files beside it, by writer: [file, whole]
  pc,
  measured,  \* per run, what its test measured
  seen,      \* per run, the file as it read it
  left,      \* per run, the staging files it is removing
  edits

vars == <<file, whole, staged, pc, measured, seen, left, edits>>

-----------------------------------------------------------------------------
(* Mistakes: what an operation below is easily got wrong as.  No behaviour *)
(* uses them; each is refuted by the property that watches it.             *)

(* The seal is of the number a raise came from. *)
SealOfWas(c) == [s \in DOMAIN c |-> c[s].was]

(* Any raise counts as one made since, whatever it came from. *)
RaisedSinceAnyhow(e, s) == IsRaised(e.ceilings[s])

(* No raise is looked for that the command has not kept. *)
RaisesNone(e) == {}

-----------------------------------------------------------------------------
(* The rule. *)

(* sealOf *)
Seal(c) == [s \in DOMAIN c |-> c[s].ceiling]

(* A number accepted as it stands, or raised since in the form. *)
Kept(e, s) == e.seal[s] = e.ceilings[s].ceiling
RaisedSince(e, s) == IsRaised(e.ceilings[s]) /\ e.seal[s] = e.ceilings[s].was

(* freshRaises answers undefined unless this holds. *)
IsSealed(e) ==
  /\ DOMAIN e.seal = DOMAIN e.ceilings
  /\ \A s \in DOMAIN e.seal : Kept(e, s) \/ RaisedSince(e, s)

Raises(e) == {s \in DOMAIN e.seal : ~Kept(e, s)}

(* entryAt and what it calls throw unless this holds. *)
Reads(e) ==
  /\ \A s \in DOMAIN e.ceilings : e.ceilings[s].ceiling >= e.ceilings[s].was
  /\ \A p \in PhasesOf(e.ceilings) : <<p, "steady">> \in DOMAIN e.ceilings

(* against *)
LowerOf(n, c) == IF n < c.ceiling THEN Plain(n) ELSE c

(* lowered: the entry the command writes, from the ceilings there are. *)
Lowered(c, m, b) ==
  LET next == [s \in DOMAIN m |-> IF s \in DOMAIN c THEN LowerOf(m[s], c[s]) ELSE Plain(m[s])]
  IN  [browser |-> b, ceilings |-> next, seal |-> Seal(next)]

(* lowered: every way that differs from the entry there is. *)
Changes(e, m, b) ==
  LET c == e.ceilings
      both == DOMAIN c \cap DOMAIN m
  IN  {<<"browser", x>> : x \in {e.browser} \ {b}}
      \cup {<<"phaseDropped", p>> : p \in PhasesOf(c) \ PhasesOf(m)}
      \cup {<<"phaseAdded", p>> : p \in PhasesOf(m) \ PhasesOf(c)}
      \cup {<<"countDropped", s>> : s \in {t \in DOMAIN c \ DOMAIN m : t[1] \in PhasesOf(m)}}
      \cup {<<"countAdded", s>> : s \in {t \in DOMAIN m \ DOMAIN c : t[1] \in PhasesOf(c)}}
      \cup {<<"lowered", s>> : s \in {t \in both : m[t] < c[t].ceiling}}
      \cup {<<"above", s>> : s \in {t \in both : m[t] > c[t].ceiling}}
      \cup {<<"raiseKept", s>> : s \in {t \in both \cap Raises(e) :
                                           IsRaised(c[t]) /\ m[t] >= c[t].ceiling}}

Above(changes) == {x \in changes : x[1] = "above"}

-----------------------------------------------------------------------------
(* A run's verdict. *)

Over == {"passed", "failed", "killed"}
UnderLock == {"read", "judge", "list", "clear", "stage", "fill", "move", "release"}
Goto(r, to) == pc' = [pc EXCEPT ![r] = to]

HoldsLock(r) == Mode[r] = "write" /\ pc[r] \in UnderLock

(* The entry of its test, in the file as it read it. *)
IsStored(r) == Test[r] \in DOMAIN seen[r]
Stored(r) == seen[r][Test[r]]
Accepts(r) == IsStored(r) => Reads(Stored(r)) /\ IsSealed(Stored(r))

NewEntry(r) ==
  Lowered(IF IsStored(r) THEN Stored(r).ceilings ELSE NoFile, measured[r], Build[r])
ChangesOf(r) ==
  IF IsStored(r) THEN Changes(Stored(r), measured[r], Build[r]) ELSE {<<"new", Test[r]>>}

(* withEntry *)
NewFile(r) ==
  [k \in DOMAIN seen[r] \cup {Test[r]} |-> IF k = Test[r] THEN NewEntry(r) ELSE seen[r][k]]

(* The staging files, once w's holds x. *)
Staging(w, x) == [v \in DOMAIN staged \cup {w} |-> IF v = w THEN x ELSE staged[v]]

(* Mistakes of steps: see above. *)

(* The command goes ahead beside another. *)
LockIgnored(r) ==
  /\ pc[r] = "lock"
  /\ Goto(r, "read")
  /\ UNCHANGED <<file, whole, staged, measured, seen, left, edits>>

(* await using lock: a run that only checks takes none. *)
Lock(r) ==
  /\ pc[r] = "lock"
  /\ Mode[r] = "write" => \A w \in Run : ~HoldsLock(w)
  /\ Goto(r, "read")
  /\ UNCHANGED <<file, whole, staged, measured, seen, left, edits>>

(* LOCK_PATIENCE_MS, against a worker that is still alive. *)
LockTimesOut(r) ==
  /\ pc[r] = "lock"
  /\ Mode[r] = "write" /\ \E w \in Run : HoldsLock(w)
  /\ Goto(r, "failed")
  /\ UNCHANGED <<file, whole, staged, measured, seen, left, edits>>

(* ceilingsAt: what is cut off is no JSON. *)
Read(r) ==
  /\ pc[r] = "read"
  /\ seen' = [seen EXCEPT ![r] = file]
  /\ Goto(r, IF whole THEN "judge" ELSE "failed")
  /\ UNCHANGED <<file, whole, staged, measured, left, edits>>

(* entryIn throws, or the entry is refused as edited by hand, ... *)
Refuse(r) ==
  /\ pc[r] = "judge"
  /\ ~Accepts(r)
  /\ Goto(r, "failed")
  /\ UNCHANGED <<file, whole, staged, measured, seen, left, edits>>

(* ... or it is held to, or lowered. *)
Judge(r) ==
  /\ pc[r] = "judge"
  /\ Accepts(r)
  /\ Goto(r, CASE Mode[r] = "write" -> "list"
               [] Mode[r] = "check" -> IF ChangesOf(r) = {} THEN "passed" ELSE "failed")
  /\ UNCHANGED <<file, whole, staged, measured, seen, left, edits>>

List(r) ==
  /\ pc[r] = "list"
  /\ left' = [left EXCEPT ![r] = DOMAIN staged]
  /\ Goto(r, "clear")
  /\ UNCHANGED <<file, whole, staged, measured, seen, edits>>

Clear(r) ==
  /\ pc[r] = "clear"
  /\ \/ \E w \in left[r] :
          /\ staged' = [v \in DOMAIN staged \ {w} |-> staged[v]]
          /\ left' = [left EXCEPT ![r] = @ \ {w}]
          /\ UNCHANGED pc
     \/ /\ left[r] = {}
        /\ Goto(r, "stage")
        /\ UNCHANGED <<staged, left>>
  /\ UNCHANGED <<file, whole, measured, seen, edits>>

Stage(r) ==
  /\ pc[r] = "stage"
  /\ staged' = Staging(r, [file |-> NewFile(r), whole |-> FALSE])
  /\ Goto(r, "fill")
  /\ UNCHANGED <<file, whole, measured, seen, left, edits>>

Fill(r) ==
  /\ pc[r] = "fill"
  /\ staged' = Staging(r, [file |-> NewFile(r), whole |-> TRUE])
  /\ Goto(r, "move")
  /\ UNCHANGED <<file, whole, measured, seen, left, edits>>

(* A staging file somebody removed cannot be moved, and rename throws. *)
Move(r) ==
  /\ pc[r] = "move"
  /\ IF r \in DOMAIN staged
     THEN /\ file' = staged[r].file
          /\ whole' = staged[r].whole
          /\ staged' = [w \in DOMAIN staged \ {r} |-> staged[w]]
          /\ Goto(r, "release")
     ELSE /\ Goto(r, "failed")
          /\ UNCHANGED <<file, whole, staged>>
  /\ UNCHANGED <<measured, seen, left, edits>>

Release(r) ==
  /\ pc[r] = "release"
  /\ Goto(r, IF Above(ChangesOf(r)) = {} THEN "passed" ELSE "failed")
  /\ UNCHANGED <<file, whole, staged, measured, seen, left, edits>>

Kill(r) ==
  /\ pc[r] \notin Over
  /\ Cardinality({w \in Run : pc[w] = "killed"}) < MaxKills
  /\ Goto(r, "killed")
  /\ UNCHANGED <<file, whole, staged, measured, seen, left, edits>>

-----------------------------------------------------------------------------
(* A person's editor: any number, any raise, anything added or removed.    *)
(* What is never typed is a seal.                                          *)

WithCeilings(k, c) == [file EXCEPT ![k].ceilings = c]

Type(k) ==
  /\ k \in DOMAIN file /\ edits < MaxEdits
  /\ \E s \in Slot, n, w \in Typed :
       file' = WithCeilings(k, [t \in DOMAIN file[k].ceilings \cup {s} |->
                 IF t = s THEN [ceiling |-> n, was |-> w] ELSE file[k].ceilings[t]])
  /\ edits' = edits + 1
  /\ UNCHANGED <<whole, staged, pc, measured, seen, left>>

DeleteCount(k) ==
  /\ k \in DOMAIN file /\ edits < MaxEdits
  /\ \E s \in DOMAIN file[k].ceilings :
       file' = WithCeilings(k, [t \in DOMAIN file[k].ceilings \ {s} |-> file[k].ceilings[t]])
  /\ edits' = edits + 1
  /\ UNCHANGED <<whole, staged, pc, measured, seen, left>>

DeleteEntry(k) ==
  /\ k \in DOMAIN file /\ edits < MaxEdits
  /\ file' = [j \in DOMAIN file \ {k} |-> file[j]]
  /\ edits' = edits + 1
  /\ UNCHANGED <<whole, staged, pc, measured, seen, left>>

-----------------------------------------------------------------------------

Init ==
  /\ file \in Before
  /\ whole = TRUE
  /\ staged \in {[w \in L |-> [file |-> NoFile, whole |-> FALSE]] : L \in SUBSET Left}
  /\ pc = [r \in Run |-> "lock"]
  /\ measured \in {m \in [Run -> UNION {Measures[r] : r \in Run}] : \A r \in Run : m[r] \in Measures[r]}
  /\ seen = [r \in Run |-> NoFile]
  /\ left = [r \in Run |-> {}]
  /\ edits = 0

Finished == (\A r \in Run : pc[r] \in Over) /\ UNCHANGED vars

Verdict(r) ==
  \/ Lock(r) \/ LockTimesOut(r) \/ Read(r) \/ Refuse(r) \/ Judge(r)
  \/ List(r) \/ Clear(r) \/ Stage(r) \/ Fill(r) \/ Move(r) \/ Release(r)

Next ==
  \/ \E r \in Run : Verdict(r) \/ Kill(r)
  \/ \E k \in Key : Type(k) \/ DeleteCount(k) \/ DeleteEntry(k)
  \/ Finished

Spec == Init /\ [][Next]_vars

-----------------------------------------------------------------------------
(* What the budget promises. *)

TypeOK ==
  /\ IsFile(file) /\ whole \in BOOLEAN
  /\ DOMAIN staged \subseteq Run \cup Left
  /\ \A w \in DOMAIN staged : IsFile(staged[w].file) /\ staged[w].whole \in BOOLEAN
  /\ pc \in [Run -> UnderLock \cup Over \cup {"lock"}]
  /\ \A r \in Run : measured[r] \in Measures[r]
  /\ DOMAIN seen = Run /\ \A r \in Run : IsFile(seen[r])
  /\ left \in [Run -> SUBSET (Run \cup Left)]
  /\ edits \in 0..MaxEdits

(* "The command never raises a ceiling."  Whatever a person edits, and     *)
(* whenever, a number the command accepts above the one it accepted before *)
(* is one a person raised from that number, in the form, and no higher.    *)
OnlyExplainedRises ==
  [][\A r \in Run :
       pc[r] = "move" /\ pc'[r] = "release" /\ Test[r] \in DOMAIN file =>
         LET k == Test[r]
             was == file[k].seal
             is == file'[k].seal
         IN  \A s \in DOMAIN was \cap DOMAIN is :
               is[s] > was[s] =>
                 /\ seen[r][k].ceilings[s].was = was[s]
                 /\ seen[r][k].ceilings[s].ceiling >= is[s]]_vars

(* Workers take turns: no write takes back what the command has accepted   *)
(* for another test.                                                       *)
NothingLost ==
  [][\A r \in Run :
       pc[r] = "move" /\ pc'[r] = "release" =>
         \A k \in DOMAIN file \ {Test[r]} :
           k \in DOMAIN file' /\ file'[k].seal = file[k].seal]_vars

(* "The check fails exactly when the command would write the entry         *)
(* differently, or would keep a ceiling the page is above."                *)
CheckAgreesWithCommand ==
  \A r \in Run : pc[r] = "judge" /\ IsStored(r) /\ Accepts(r) =>
    (ChangesOf(r) = {} <=> NewEntry(r) = Stored(r) /\ Above(ChangesOf(r)) = {})

(* What the command has written is settled: it reads, its seal holds, no   *)
(* raise is left to keep, and the same measure changes nothing more.       *)
WrittenIsSettled ==
  \A r \in Run : pc[r] \in {"move", "release"} =>
    LET e == NewEntry(r)
    IN  /\ Reads(e) /\ IsSealed(e)
        /\ Changes(e, measured[r], Build[r]) = Above(ChangesOf(r))

(* The file is never seen half written.  Only the holder stages: what it   *)
(* moves into place is its own, whole, and when it is done, what killed    *)
(* workers left is gone.                                                   *)
StagesAlone ==
  /\ whole
  /\ \A r \in Run :
       /\ pc[r] = "move" => r \in DOMAIN staged /\ staged[r] = [file |-> NewFile(r), whole |-> TRUE]
       /\ pc[r] = "release" => DOMAIN staged = {}

-----------------------------------------------------------------------------
(* Why they hold: the inductive invariant. *)

OneHolder == \A r, w \in Run : HoldsLock(r) /\ HoldsLock(w) => r = w

(* A run that writes has accepted the entry it found. *)
Writes(r) ==
  pc[r] \in UnderLock \ {"read", "judge"} => Mode[r] = "write" /\ Accepts(r)

(* Nobody seals a ceiling between a holder's read and its write: a person  *)
(* may have taken an entry away, and no more.                              *)
StillThere(r) ==
  HoldsLock(r) /\ pc[r] \notin {"read", "release"} =>
    \A k \in DOMAIN file : k \in DOMAIN seen[r] /\ file[k].seal = seen[r][k].seal

(* What is staged, at each step of the holder. *)
StagedSoFar(r) ==
  /\ pc[r] = "clear" => DOMAIN staged \subseteq left[r]
  /\ pc[r] = "stage" => DOMAIN staged = {}
  /\ pc[r] \in {"fill", "move"} => DOMAIN staged = {r}
  /\ pc[r] = "move" => staged[r] = [file |-> NewFile(r), whole |-> TRUE]
  /\ pc[r] = "release" => DOMAIN staged = {}

IInv ==
  /\ TypeOK
  /\ whole
  /\ OneHolder
  /\ \A r \in Run : Writes(r) /\ StillThere(r) /\ StagedSoFar(r)
=============================================================================
