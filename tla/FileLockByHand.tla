--------------------------- MODULE FileLockByHand ---------------------------
(***************************************************************************)
(* FileLock with the hand its error messages invite: "remove it if that    *)
(* process is not using it".  Somebody removes a lock nobody alive holds   *)
(* while the code may be taking that same lock over, which is the one way  *)
(* takeOver can move a live holder's lock, and what its put-back is for.   *)
(***************************************************************************)
EXTENDS FileLock

HandRemove ==
  /\ Main \in DOMAIN at
  /\ ~Live(at[Main])
  /\ at' = Removed(Main)
  /\ UNCHANGED <<alive, mine, aside, pc, path, bottom, found, waited, todo, fault>>

HandNext == Next \/ HandRemove

HandSpec == Init /\ [][HandNext]_vars

(* A caller that has moved a lock aside and is on its way to putting it    *)
(* back, or has found it cannot and throws that two processes may each     *)
(* believe they hold it.                                                   *)
Displaces(w) ==
  \/ aside[w] # None /\ pc[w] \in {"confirm", "putback", "discard"}
  \/ fault[w] = "replaced"

(* takeOver's put-back: two callers hold the lock at once only while a     *)
(* taker is between moving the lock of one of them and putting it back, or *)
(* after a taker has said so.  While no process dies, no overlap is silent.*)
OverlapIsNoticed == ~Exclusive => \E w \in Waiter : Displaces(w)

-----------------------------------------------------------------------------
(* Why no overlap is silent: what every step and every hand keeps. *)

(* No hand touches a claim, so what FileLock's IInv says of the claims     *)
(* stands, and a taker of a claim moves only a dead one's.                 *)
MovesDeadClaims(w) ==
  Target(w) # Main =>
    /\ pc[w] = "move" => Target(w) \in DOMAIN at /\ at[Target(w)] = Dead(w)
    /\ pc[w] = "confirm" => aside[w] \in {None, Dead(w)}
    /\ pc[w] # "putback"

ClaimsNameTheirOwners ==
  \A w \in Waiter : HoldsClaim(w) => path[w] \in DOMAIN at /\ at[path[w]] = MyText(w)

ClaimsExclusive ==
  \A v, w \in Waiter : HoldsClaim(v) /\ HoldsClaim(w) /\ path[v] = path[w] => v = w

CInv ==
  /\ TypeOK
  /\ \A w \in Waiter : Nested(w) /\ JudgedDead(w) /\ MovesDeadClaims(w)
  /\ ClaimsNameTheirOwners
  /\ ClaimsExclusive

(* A taker between its recheck of the lock itself and its discard of what  *)
(* it moved, and one that has a live holder's lock to put back.            *)
Moves(w) == Target(w) = Main /\ pc[w] \in {"move", "confirm", "putback", "discard"}
Restores(w) == Moves(w) /\ pc[w] \in {"confirm", "putback"} /\ Live(aside[w])

LockNamesLive == Main \in DOMAIN at => Live(at[Main])

(* The lock in the hands of its one taker: what it has yet to move is what *)
(* it rechecked, or a live holder's that has come since.                   *)
InHand(w) ==
  Moves(w) =>
    /\ LockNamesLive \/ (pc[w] = "move" /\ at[Main] = Dead(w))
    /\ pc[w] \in {"confirm", "putback", "discard"} =>
         aside[w] \in {None, Dead(w)} \/ Live(aside[w])
    /\ pc[w] = "putback" => Live(aside[w])

(* With nothing to put back there is one holder, and the file is its. With *)
(* a lock to put back there may be two, one of them without its file, but  *)
(* not while there is no file: then the next to link would be a third.     *)
HoldersCounted ==
  IF \E w \in Waiter : Restores(w)
  THEN /\ LockNamesLive
       /\ Main \notin DOMAIN at => Exclusive
       /\ \A u, v, w \in Waiter : Holds(u) /\ Holds(v) /\ Holds(w) => u = v \/ u = w \/ v = w
  ELSE /\ Exclusive
       /\ (\E w \in Waiter : Holds(w)) => Main \in DOMAIN at /\ Live(at[Main])

LockInv ==
  /\ \A w \in Waiter : InHand(w)
  /\ \A v, w \in Waiter : Moves(v) /\ Moves(w) => v = w
  /\ HoldersCounted

(* The inductive invariant, while no process dies: a taker that could not  *)
(* put a lock back says so for ever, and until one has, LockInv.           *)
HandInv ==
  /\ CInv
  /\ alive = Proc
  /\ \A w \in Waiter : fault[w] = "replaced" => pc[w] \in {"discard", "release", "failed"}
  /\ NeverReplaced => LockInv
=============================================================================
