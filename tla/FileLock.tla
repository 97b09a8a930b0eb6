------------------------------ MODULE FileLock ------------------------------
(***************************************************************************)
(* file-lock.ts: a lock that is a file, taken by hard-linking a file that  *)
(* names its holder at the lock's path, and taken over from a holder that  *)
(* is gone.  Each step of a caller is one file operation of the code, the  *)
(* steps the code hands to `between`; any other caller, in this process or *)
(* another, runs between two of them, and any process may be killed there. *)
(*                                                                         *)
(* A path is the sequence of dead holders' texts it was derived from: <<>> *)
(* is the lock, <<d>> the claim on taking it over from d, <<d, e>> the     *)
(* claim on taking that claim over from e, so the name a claim hashes      *)
(* (takeOver's first line) is Append.  A caller inside nested takeOver and *)
(* acquire calls is at one such sequence and its prefixes are the calls    *)
(* below it, so no stack is kept beside it.                                *)
(*                                                                         *)
(* A text is what a lock file says: the process that wrote it (its pid,    *)
(* boot id and start tick name exactly one), a process gone before this    *)
(* began, or junk that names nobody.                                       *)
(***************************************************************************)
EXTENDS Integers, Sequences, FiniteSets

CONSTANTS
  Proc,        \* the processes that take the lock
  Waiter,      \* their calls of lock(), several of which may share a process
  ProcOf,      \* the process each call runs in
  Stale,       \* texts of holders gone before the run: another boot, a reused pid
  Junk,        \* a text that is no holder: not JSON, or a file not written whole
  None,        \* no text: the file is not there
  Patience,    \* per call, its polls of a live holder before it gives up: patienceMs / POLL_MS
  Infinity,    \* the patience that never ends
  MaxKills,    \* bound on the processes killed in a run
  Obstructed   \* whether something that cannot be read as a file may sit beside the lock

Text == Proc \cup Stale \cup {Junk}

ASSUME FileLockAssumption ==
  /\ ProcOf \in [Waiter -> Proc]
  /\ Proc \cap Stale = {}
  /\ Junk \notin Proc \cup Stale
  /\ None \notin Text
  /\ Patience \in [Waiter -> Nat \cup {Infinity}]
  /\ MaxKills \in Nat
  /\ Obstructed \in BOOLEAN

VARIABLES
  alive,    \* the processes still running, as /proc and the boot id say
  at,       \* the lock and claim files there are: a function from their paths to their texts
  mine,     \* the holder files callers wrote to link: [by, path, text]
  aside,    \* per caller, the text of the lock it moved aside, or None
  pc,       \* per caller, the file operation it performs next
  path,     \* per caller, the path of its innermost acquire
  bottom,   \* per caller, the length of its outermost acquire's path: 0 unless it is sweeping
  found,    \* per caller, the text its last read found
  waited,   \* per caller, the polls each open acquire has made, outermost first
  todo,     \* per caller, the files its sweep has listed and not yet looked at
  fault     \* per caller, why lock() will throw: "none", "patience", "replaced", "unreadable"

vars == <<alive, at, mine, aside, pc, path, bottom, found, waited, todo, fault>>

Main == <<>>

Path == Seq(Text)

PC == {"write", "fill", "link", "drop", "read", "judge", "wait", "take",
       "recheck", "move", "confirm", "putback", "discard", "release",
       "list", "sweep", "weigh", "held", "done", "failed", "dead"}

Fault == {"none", "patience", "replaced", "unreadable"}

(* A file a sweep lists: a holder file, a lock moved aside, or a claim. *)
Entry == [kind : {"mine"}, by : Waiter, path : Path]
           \cup [kind : {"moved"}, by : Waiter, text : Text]
           \cup [kind : {"claim"}, path : Path \ {Main}]

TypeOK ==
  /\ alive \subseteq Proc
  /\ DOMAIN at \subseteq Path
  /\ \A p \in DOMAIN at : at[p] \in Text
  /\ mine \subseteq [by : Waiter, path : Path, text : Text]
  /\ aside \in [Waiter -> Text \cup {None}]
  /\ pc \in [Waiter -> PC]
  /\ path \in [Waiter -> Path]
  /\ bottom \in [Waiter -> Nat]
  /\ found \in [Waiter -> Text \cup {None}]
  /\ waited \in [Waiter -> Seq(Nat)]
  /\ todo \in [Waiter -> SUBSET Entry]
  /\ fault \in [Waiter -> Fault]

-----------------------------------------------------------------------------
(* The files. *)

TextAt(p) == IF p \in DOMAIN at THEN at[p] ELSE None

(* link(2) and rm at a lock's or a claim's path, as the files after it. *)
Linked(p, t) == [q \in DOMAIN at \cup {p} |-> IF q = p THEN t ELSE at[q]]
Removed(p) == [q \in DOMAIN at \ {p} |-> at[q]]

IsHolder(t) == t # Junk
Live(t) == t \in alive        \* liveHolder, and ours behind it

MyText(w) == ProcOf[w]
HolderFiles(w) == {m \in mine : m.by = w}

Front(s) == SubSeq(s, 1, Len(s) - 1)

Goto(w, next) == pc' = [pc EXCEPT ![w] = next]

(* The whole of acquire's `finally`s and lock's catch when lock() throws   *)
(* with no claim held: every holder file of the call goes, and a caller    *)
(* that was sweeping still holds the lock and releases it.                 *)
Unwind(w, why) ==
  /\ mine' = mine \ HolderFiles(w)
  /\ fault' = [fault EXCEPT ![w] = why]
  /\ path' = [path EXCEPT ![w] = Main]
  /\ found' = [found EXCEPT ![w] = None]
  /\ waited' = [waited EXCEPT ![w] = <<>>]
  /\ todo' = [todo EXCEPT ![w] = {}]
  /\ bottom' = [bottom EXCEPT ![w] = 0]
  /\ Goto(w, IF bottom[w] = 0 THEN "failed" ELSE "release")

-----------------------------------------------------------------------------
(* Mistakes: each is one of the steps below as a plausible change of the   *)
(* code would have it, and no part of Next.  The properties refute them.   *)

(* Under the claim, the lock is moved without looking at it again. *)
RecheckSkipped(w) ==
  /\ pc[w] = "recheck"
  /\ Goto(w, "move")
  /\ UNCHANGED <<alive, at, mine, aside, path, bottom, found, waited, todo, fault>>

(* A lock that cannot be put back is discarded in silence. *)
PutBackSilent(w) ==
  /\ pc[w] = "putback"
  /\ at' = IF Front(path[w]) \in DOMAIN at \/ aside[w] = None THEN at
           ELSE Linked(Front(path[w]), aside[w])
  /\ Goto(w, "discard")
  /\ UNCHANGED <<alive, mine, aside, path, bottom, found, waited, todo, fault>>

(* A claim is left behind by the takeOver that is done with it. *)
ReleaseClaimKept(w) ==
  /\ pc[w] = "release" /\ path[w] # Main
  /\ LET back == Len(path[w]) = bottom[w]
     IN  /\ path' = [path EXCEPT ![w] = IF back THEN Main ELSE Front(@)]
         /\ bottom' = [bottom EXCEPT ![w] = IF back THEN 0 ELSE @]
         /\ Goto(w, IF back THEN "sweep" ELSE "link")
  /\ UNCHANGED <<alive, at, mine, aside, found, waited, todo, fault>>

(* The sweep looks only at the files it may remove by name. *)
ListNoClaims(w) ==
  /\ pc[w] = "list"
  /\ todo' = [todo EXCEPT ![w] =
                [kind : {"mine"}, by : {m.by : m \in mine}, path : {m.path : m \in mine}]]
  /\ Goto(w, "sweep")
  /\ UNCHANGED <<alive, at, mine, aside, path, bottom, found, waited, fault>>

(* A dead taker's claim is removed by name, as its other files are. *)
SweepClaimByName(w) ==
  /\ pc[w] = "weigh"
  /\ at' = IF Live(found[w]) THEN at ELSE Removed(path[w])
  /\ path' = [path EXCEPT ![w] = Main]
  /\ bottom' = [bottom EXCEPT ![w] = 0]
  /\ found' = [found EXCEPT ![w] = None]
  /\ Goto(w, "sweep")
  /\ UNCHANGED <<alive, mine, aside, waited, todo, fault>>

(* A sweep that throws does so over the lock it took. *)
SweepThrowsHolding(w) ==
  /\ pc[w] = "sweep" /\ Obstructed
  /\ fault' = [fault EXCEPT ![w] = "unreadable"]
  /\ todo' = [todo EXCEPT ![w] = {}]
  /\ Goto(w, "failed")
  /\ UNCHANGED <<alive, at, mine, aside, path, bottom, found, waited>>

-----------------------------------------------------------------------------
(* acquire *)

(* writeFile(mine, ..., { flag: "wx" }): the file is there before what it  *)
(* says is, so a process killed in between leaves a file naming nobody.    *)
CreateMine(w) ==
  /\ pc[w] = "write"
  /\ mine' = mine \cup {[by |-> w, path |-> path[w], text |-> Junk]}
  /\ Goto(w, "fill")
  /\ UNCHANGED <<alive, at, aside, path, bottom, found, waited, todo, fault>>

FillMine(w) ==
  /\ pc[w] = "fill"
  /\ mine' = (mine \ {[by |-> w, path |-> path[w], text |-> Junk]})
               \cup {[by |-> w, path |-> path[w], text |-> MyText(w)]}
  /\ Goto(w, "link")
  /\ UNCHANGED <<alive, at, aside, path, bottom, found, waited, todo, fault>>

LinkTakes(w) ==
  /\ pc[w] = "link"
  /\ path[w] \notin DOMAIN at
  /\ at' = Linked(path[w], MyText(w))
  /\ waited' = [waited EXCEPT ![w] = Front(@)]
  /\ Goto(w, "drop")
  /\ UNCHANGED <<alive, mine, aside, path, bottom, found, todo, fault>>

LinkFails(w) ==
  /\ pc[w] = "link"
  /\ path[w] \in DOMAIN at
  /\ Goto(w, "read")
  /\ UNCHANGED <<alive, at, mine, aside, path, bottom, found, waited, todo, fault>>

(* The `finally` of the acquire that took it: the lock's goes on to sweep, *)
(* a claim's to what takeOver does under it.                               *)
DropMine(w) ==
  /\ pc[w] = "drop"
  /\ mine' = {m \in mine : ~(m.by = w /\ m.path = path[w])}
  /\ Goto(w, IF path[w] = Main THEN "list" ELSE "recheck")
  /\ UNCHANGED <<alive, at, aside, path, bottom, found, waited, todo, fault>>

ReadLock(w) ==
  /\ pc[w] = "read"
  /\ found' = [found EXCEPT ![w] = TextAt(path[w])]
  /\ Goto(w, IF TextAt(path[w]) = None THEN "link" ELSE "judge")
  /\ UNCHANGED <<alive, at, mine, aside, path, bottom, waited, todo, fault>>

Patient(w) == Patience[w] # Infinity => waited[w][Len(waited[w])] < Patience[w]

(* liveHolder reads /proc after the lock's text was read, so the holder it *)
(* judges may have released the lock, or died, since.                      *)
JudgeGone(w) ==
  /\ pc[w] = "judge"
  /\ ~Live(found[w])
  /\ Goto(w, "take")
  /\ UNCHANGED <<alive, at, mine, aside, path, bottom, found, waited, todo, fault>>

JudgeLive(w) ==
  /\ pc[w] = "judge"
  /\ Live(found[w])
  /\ Patient(w)
  /\ found' = [found EXCEPT ![w] = None]
  /\ Goto(w, "wait")
  /\ UNCHANGED <<alive, at, mine, aside, path, bottom, waited, todo, fault>>

GiveUp(w) ==
  /\ pc[w] = "judge"
  /\ Live(found[w])
  /\ ~Patient(w)
  /\ Unwind(w, "patience")
  /\ UNCHANGED <<alive, at, aside>>

Wait(w) ==
  /\ pc[w] = "wait"
  /\ waited' = IF Patience[w] = Infinity THEN waited
               ELSE [waited EXCEPT ![w] = Append(Front(@), @[Len(@)] + 1)]
  /\ Goto(w, "link")
  /\ UNCHANGED <<alive, at, mine, aside, path, bottom, found, todo, fault>>

-----------------------------------------------------------------------------
(* takeOver *)

(* Calls takeOver on the path it found the dead text at, which acquires    *)
(* the claim named after that text.                                        *)
Take(w) ==
  /\ pc[w] = "take"
  /\ path' = [path EXCEPT ![w] = Append(@, found[w])]
  /\ waited' = [waited EXCEPT ![w] = Append(@, 0)]
  /\ found' = [found EXCEPT ![w] = None]
  /\ Goto(w, "write")
  /\ UNCHANGED <<alive, at, mine, aside, bottom, todo, fault>>

Target(w) == Front(path[w])            \* what the claim it holds is about
Dead(w) == path[w][Len(path[w])]        \* the text judged gone there

Recheck(w) ==
  /\ pc[w] = "recheck"
  /\ Goto(w, IF TextAt(Target(w)) = Dead(w) THEN "move" ELSE "release")
  /\ UNCHANGED <<alive, at, mine, aside, path, bottom, found, waited, todo, fault>>

Move(w) ==
  /\ pc[w] = "move"
  /\ IF Target(w) \in DOMAIN at
     THEN /\ aside' = [aside EXCEPT ![w] = at[Target(w)]]
          /\ at' = Removed(Target(w))
          /\ Goto(w, "confirm")
     ELSE /\ Goto(w, "release")
          /\ UNCHANGED <<at, aside>>
  /\ UNCHANGED <<alive, mine, path, bottom, found, waited, todo, fault>>

(* What was moved, unless a sweep removed it first. *)
Confirm(w) ==
  /\ pc[w] = "confirm"
  /\ Goto(w, IF aside[w] \in {None, Dead(w)} THEN "discard" ELSE "putback")
  /\ UNCHANGED <<alive, at, mine, aside, path, bottom, found, waited, todo, fault>>

(* Only a lock replaced by hand gets here: what was moved is a holder's.   *)
(* Swept away since it was confirmed, it cannot be linked: that throws too. *)
PutBack(w) ==
  /\ pc[w] = "putback"
  /\ \/ /\ aside[w] = None
        /\ fault' = [fault EXCEPT ![w] = "unreadable"] /\ UNCHANGED at
     \/ /\ aside[w] # None /\ Target(w) \in DOMAIN at
        /\ fault' = [fault EXCEPT ![w] = "replaced"] /\ UNCHANGED at
     \/ /\ aside[w] # None /\ Target(w) \notin DOMAIN at
        /\ at' = Linked(Target(w), aside[w]) /\ UNCHANGED fault
  /\ Goto(w, "discard")
  /\ UNCHANGED <<alive, mine, aside, path, bottom, found, waited, todo>>

Discard(w) ==
  /\ pc[w] = "discard"
  /\ aside' = [aside EXCEPT ![w] = None]
  /\ Goto(w, "release")
  /\ UNCHANGED <<alive, at, mine, path, bottom, found, waited, todo, fault>>

(* The claim is released, and takeOver answers the acquire or the sweep    *)
(* that called it, or throws through it.                                   *)
ReleaseClaim(w) ==
  /\ pc[w] = "release"
  /\ path[w] # Main
  /\ at' = Removed(path[w])
  /\ IF fault[w] # "none"
     THEN Unwind(w, fault[w])
     ELSE IF Len(path[w]) = bottom[w]
     THEN /\ path' = [path EXCEPT ![w] = Main]
          /\ bottom' = [bottom EXCEPT ![w] = 0]
          /\ Goto(w, "sweep")
          /\ UNCHANGED <<mine, found, waited, todo, fault>>
     ELSE /\ path' = [path EXCEPT ![w] = Front(@)]
          /\ Goto(w, "link")
          /\ UNCHANGED <<mine, bottom, found, waited, todo, fault>>
  /\ UNCHANGED <<alive, aside>>

-----------------------------------------------------------------------------
(* sweep, by the caller that has just taken the lock *)

Beside ==
  {[kind |-> "mine", by |-> m.by, path |-> m.path] : m \in mine}
    \cup {[kind |-> "moved", by |-> w, text |-> aside[w]] : w \in {v \in Waiter : aside[v] # None}}
    \cup {[kind |-> "claim", path |-> p] : p \in DOMAIN at \ {Main}}

List(w) ==
  /\ pc[w] = "list"
  /\ todo' = [todo EXCEPT ![w] = Beside]
  /\ Goto(w, "sweep")
  /\ UNCHANGED <<alive, at, mine, aside, path, bottom, found, waited, fault>>

(* A holder file or a moved lock: removed when it names a process that is  *)
(* gone.  Nobody but its writer and a sweep ever touches one, so reading,  *)
(* judging and removing it are one step.                                   *)
SweepFile(w) ==
  /\ pc[w] = "sweep"
  /\ \E e \in todo[w] :
       /\ e.kind # "claim"
       /\ todo' = [todo EXCEPT ![w] = @ \ {e}]
       /\ \/ /\ e.kind = "mine"
             /\ mine' = {m \in mine : ~(/\ m.by = e.by /\ m.path = e.path
                                        /\ IsHolder(m.text) /\ ~Live(m.text))}
             /\ UNCHANGED aside
          \/ /\ e.kind = "moved"
             /\ aside' = IF aside[e.by] = e.text /\ IsHolder(e.text) /\ ~Live(e.text)
                         THEN [aside EXCEPT ![e.by] = None] ELSE aside
             /\ UNCHANGED mine
  /\ UNCHANGED <<alive, at, pc, path, bottom, found, waited, fault>>

SweepClaim(w) ==
  /\ pc[w] = "sweep"
  /\ \E e \in todo[w] :
       /\ e.kind = "claim"
       /\ todo' = [todo EXCEPT ![w] = @ \ {e}]
       /\ IF TextAt(e.path) \in {None, Junk}
          THEN UNCHANGED <<pc, path, bottom, found>>
          ELSE /\ path' = [path EXCEPT ![w] = e.path]
               /\ bottom' = [bottom EXCEPT ![w] = Len(e.path) + 1]
               /\ found' = [found EXCEPT ![w] = at[e.path]]
               /\ Goto(w, "weigh")
  /\ UNCHANGED <<alive, at, mine, aside, waited, fault>>

(* The sweep's own look at /proc, on a claim it read. *)
Weigh(w) ==
  /\ pc[w] = "weigh"
  /\ found' = [found EXCEPT ![w] = None]
  /\ IF Live(found[w])
     THEN /\ path' = [path EXCEPT ![w] = Main]
          /\ bottom' = [bottom EXCEPT ![w] = 0]
          /\ Goto(w, "sweep")
          /\ UNCHANGED waited
     ELSE /\ path' = [path EXCEPT ![w] = Append(@, found[w])]
          /\ waited' = [waited EXCEPT ![w] = <<0>>]
          /\ Goto(w, "write")
          /\ UNCHANGED bottom
  /\ UNCHANGED <<alive, at, mine, aside, todo, fault>>

(* textAt throws on a directory: lock() releases what it took and throws.  *)
SweepThrows(w) ==
  /\ pc[w] = "sweep"
  /\ Obstructed
  /\ fault' = [fault EXCEPT ![w] = "unreadable"]
  /\ todo' = [todo EXCEPT ![w] = {}]
  /\ Goto(w, "release")
  /\ UNCHANGED <<alive, at, mine, aside, path, bottom, found, waited>>

SweepDone(w) ==
  /\ pc[w] = "sweep"
  /\ todo[w] = {}
  /\ Goto(w, "held")
  /\ UNCHANGED <<alive, at, mine, aside, path, bottom, found, waited, todo, fault>>

(* The caller disposes what lock() answered. *)
Dispose(w) ==
  /\ pc[w] = "held"
  /\ Goto(w, "release")
  /\ UNCHANGED <<alive, at, mine, aside, path, bottom, found, waited, todo, fault>>

ReleaseLock(w) ==
  /\ pc[w] = "release"
  /\ path[w] = Main
  /\ at' = Removed(Main)
  /\ Goto(w, IF fault[w] = "none" THEN "done" ELSE "failed")
  /\ UNCHANGED <<alive, mine, aside, path, bottom, found, waited, todo, fault>>

-----------------------------------------------------------------------------
(* A process is killed: its callers are gone, its files are not. *)
Kill(p) ==
  /\ p \in alive
  /\ Cardinality(Proc \ alive) < MaxKills
  /\ alive' = alive \ {p}
  /\ pc' = [w \in Waiter |->
              IF ProcOf[w] = p /\ pc[w] \notin {"done", "failed"} THEN "dead" ELSE pc[w]]
  /\ path' = [w \in Waiter |-> IF ProcOf[w] = p THEN Main ELSE path[w]]
  /\ bottom' = [w \in Waiter |-> IF ProcOf[w] = p THEN 0 ELSE bottom[w]]
  /\ found' = [w \in Waiter |-> IF ProcOf[w] = p THEN None ELSE found[w]]
  /\ waited' = [w \in Waiter |-> IF ProcOf[w] = p THEN <<>> ELSE waited[w]]
  /\ todo' = [w \in Waiter |-> IF ProcOf[w] = p THEN {} ELSE todo[w]]
  /\ UNCHANGED <<at, mine, aside, fault>>

Over(w) == pc[w] \in {"done", "failed", "dead"}

Finished ==
  /\ \A w \in Waiter : Over(w)
  /\ UNCHANGED vars

(* What processes gone before this began may have left: nothing, the lock  *)
(* of one, or the claim of one that died taking the lock over, before or   *)
(* after it moved the lock aside.                                          *)
Gone == Stale \cup {Junk}
DeadClaims == {c \in Gone \X Stale : c[1] # c[2]}   \* taken over from, and by

Leftovers ==
  {[p \in {} |-> Junk]}
    \cup {[p \in {Main} |-> d] : d \in Gone}
    \cup {[p \in {Main, <<c[1]>>} |-> IF p = Main THEN c[1] ELSE c[2]] : c \in DeadClaims}
    \cup {[p \in {<<c[1]>>} |-> c[2]] : c \in DeadClaims}

Init ==
  /\ alive = Proc
  /\ at \in Leftovers
  /\ mine = {}
  /\ aside = [w \in Waiter |-> None]
  /\ pc = [w \in Waiter |-> "write"]
  /\ path = [w \in Waiter |-> Main]
  /\ bottom = [w \in Waiter |-> 0]
  /\ found = [w \in Waiter |-> None]
  /\ waited = [w \in Waiter |-> <<0>>]
  /\ todo = [w \in Waiter |-> {}]
  /\ fault = [w \in Waiter |-> "none"]

Step(w) ==
  \/ CreateMine(w) \/ FillMine(w) \/ LinkTakes(w) \/ LinkFails(w) \/ DropMine(w)
  \/ ReadLock(w) \/ JudgeGone(w) \/ JudgeLive(w) \/ GiveUp(w) \/ Wait(w)
  \/ Take(w) \/ Recheck(w) \/ Move(w) \/ Confirm(w) \/ PutBack(w) \/ Discard(w)
  \/ ReleaseClaim(w)
  \/ List(w) \/ SweepFile(w) \/ SweepClaim(w) \/ Weigh(w) \/ SweepThrows(w) \/ SweepDone(w)
  \/ Dispose(w) \/ ReleaseLock(w)

Next ==
  \/ \E w \in Waiter : Step(w)
  \/ \E p \in Proc : Kill(p)
  \/ Finished

Spec == Init /\ [][Next]_vars

(* Every file operation settles, a holder disposes what it was answered    *)
(* (every caller holds it with `await using`), and nothing else is needed  *)
(* of the scheduler.  Kill is never forced.                                *)
FairSpec == Spec /\ \A w \in Waiter : WF_vars(Step(w))

-----------------------------------------------------------------------------
(* What the lock promises. *)

(* lock() has taken the lock for w: from the link until the release, sweep *)
(* included, as long as its process lives.                                 *)
Holds(w) ==
  \/ pc[w] \in {"list", "sweep", "weigh", "held"}
  \/ bottom[w] > 0
  \/ path[w] = Main /\ pc[w] \in {"drop", "release"}

UnderClaim == {"drop", "recheck", "move", "confirm", "putback", "discard", "release"}

HoldsClaim(w) == path[w] # Main /\ pc[w] \in UnderClaim

Owns(w, p) ==
  \/ p = Main /\ Holds(w)
  \/ p = path[w] /\ HoldsClaim(w)

(* One holder at a time for the lock, across processes and within one.     *)
Exclusive == \A v, w \in Waiter : Holds(v) /\ Holds(w) => v = w

(* The same of the lock and of every claim on it, however deep: takeOver's *)
(* "only one waiter at a time does this for a given dead holder".          *)
OneOwner ==
  /\ Exclusive
  /\ \A v, w \in Waiter :
       HoldsClaim(v) /\ HoldsClaim(w) /\ path[v] = path[w] => v = w

(* A holder's file is at the path it took and says who it is, for as long  *)
(* as it owns it: nothing removed it, moved it aside or wrote over it.     *)
NamesItsOwner ==
  \A w \in Waiter :
    /\ Holds(w) => Main \in DOMAIN at /\ at[Main] = MyText(w)
    /\ HoldsClaim(w) => path[w] \in DOMAIN at /\ at[path[w]] = MyText(w)

(* A file that names a live process leaves its path only when that process *)
(* releases it: no takeOver and no sweep of anybody else ever touches it.  *)
LiveLockStays ==
  [][\A p \in DOMAIN at :
       Live(at[p]) =>
         \/ p \in DOMAIN at' /\ at'[p] = at[p]
         \/ \E w \in Waiter : /\ MyText(w) = at[p]
                              /\ pc[w] = "release"
                              /\ path[w] = p]_vars

(* A holder whose sweep is done has cleared every claim of a holder that   *)
(* was gone before anybody began.                                          *)
StaleClaimsCleared ==
  \A w \in Waiter : pc[w] = "held" => \A p \in DOMAIN at : at[p] \notin Stale

(* A call that is over, however it ended short of a kill, has left nothing *)
(* of its own: no holder file, no lock moved aside, and no lock or claim   *)
(* unless another call of its process is the one that holds it.            *)
EndedHoldsNothing ==
  \A w \in Waiter : pc[w] \in {"done", "failed"} =>
    /\ HolderFiles(w) = {}
    /\ aside[w] = None
    /\ \A p \in DOMAIN at : at[p] = MyText(w) /\ Live(at[p]) =>
         \E v \in Waiter : v # w /\ MyText(v) = MyText(w) /\ Owns(v, p)

(* Nobody is told two processes may both hold the lock when no hand has    *)
(* touched it.                                                             *)
NeverReplaced == \A w \in Waiter : fault[w] # "replaced"

(* Every call of lock() comes to an end: no ring of takers waits on        *)
(* itself, and a waiter whose link failed on a lock since released links   *)
(* again.                                                                  *)
EveryCallEnds == \A w \in Waiter : <>Over(w)

-----------------------------------------------------------------------------
(* Why it is exclusive: what every step keeps. *)

Acquiring == {"write", "fill", "link", "read", "judge", "wait", "take"}

(* A caller's place in its nested calls: the acquires open, which it has   *)
(* counted the polls of, and that its process is the one running it.       *)
Nested(w) ==
  /\ pc[w] \in Acquiring =>
       bottom[w] <= Len(path[w]) /\ Len(waited[w]) = Len(path[w]) - bottom[w] + 1
  /\ pc[w] \in UnderClaim =>
       bottom[w] <= Len(path[w]) /\ Len(waited[w]) = Len(path[w]) - bottom[w]
  /\ pc[w] \in {"recheck", "move", "confirm", "putback", "discard"} => path[w] # Main
  /\ pc[w] \in {"list", "sweep", "held", "done", "failed", "dead"} =>
       path[w] = Main /\ bottom[w] = 0 /\ waited[w] = <<>>
  /\ pc[w] = "weigh" =>
       path[w] # Main /\ bottom[w] = Len(path[w]) + 1 /\ waited[w] = <<>>
  /\ path[w] = Main => bottom[w] = 0
  /\ pc[w] \in {"judge", "take", "weigh"} => found[w] # None
  /\ Over(w) \/ ProcOf[w] \in alive

(* It takes over only from the dead: every text it judged gone, the one it *)
(* is about to and those it is nested in, names nobody alive.              *)
JudgedDead(w) ==
  /\ pc[w] = "take" => ~Live(found[w])
  /\ \A i \in 1 .. Len(path[w]) : bottom[w] <= i => ~Live(path[w][i])

(* What it rechecked is still there when it moves it, so what it moved is  *)
(* the dead holder's and there is nothing to put back.                     *)
MovesTheDead(w) ==
  /\ pc[w] = "move" => Target(w) \in DOMAIN at /\ at[Target(w)] = Dead(w)
  /\ pc[w] = "confirm" => aside[w] \in {None, Dead(w)}
  /\ pc[w] # "putback"
  /\ fault[w] # "replaced"

(* The inductive invariant: the lock is exclusive because the claims are,  *)
(* for every claim is taken as the lock is and only a claim's one owner    *)
(* moves the file of the dead holder the claim is named after.             *)
IInv ==
  /\ TypeOK
  /\ \A w \in Waiter : Nested(w) /\ JudgedDead(w) /\ MovesTheDead(w)
  /\ NamesItsOwner
  /\ OneOwner

-----------------------------------------------------------------------------
(* FileLock implements Mutex. *)

Standing(w) ==
  IF Over(w) THEN "gone" ELSE IF Holds(w) THEN "holding" ELSE "waiting"

Promise == INSTANCE Mutex WITH phase <- [w \in Waiter |-> Standing(w)]

(* Every run of the detailed lock is a run of the one it promises.         *)
ImplementsMutex == Promise!Spec
=============================================================================
