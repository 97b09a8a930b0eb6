------------------------------- MODULE Mutex -------------------------------
(***************************************************************************)
(* What file-lock.ts promises its callers, and nothing of how it does it:  *)
(* "one holder at a time for a path, across processes on one Linux         *)
(* machine", a process killed while holding it costing the next one        *)
(* nothing.  FileLock implements this; the modules whose code calls lock() *)
(* use this one in its place.                                              *)
(***************************************************************************)
CONSTANTS
  Waiter,    \* the calls of lock(), each in some process
  Proc,      \* the processes
  ProcOf     \* the process a call of lock() runs in

VARIABLE phase   \* where each caller stands

Phase == {"waiting", "holding", "gone"}

TypeOK == phase \in [Waiter -> Phase]

Init == phase = [w \in Waiter |-> "waiting"]

(* lock() takes the lock: only while nobody holds it. *)
Enter(w) ==
  /\ phase[w] = "waiting"
  /\ \A v \in Waiter : phase[v] # "holding"
  /\ phase' = [phase EXCEPT ![w] = "holding"]

(* The holder disposes what lock() answered, or lock() fails after it took *)
(* the lock and releases it before the failure reaches the caller.         *)
Leave(w) ==
  /\ phase[w] = "holding"
  /\ phase' = [phase EXCEPT ![w] = "gone"]

(* lock() throws without ever having held the lock. *)
GiveUp(w) ==
  /\ phase[w] = "waiting"
  /\ phase' = [phase EXCEPT ![w] = "gone"]

(* A process dies, and every caller in it with it. *)
Crash(p) ==
  phase' = [w \in Waiter |-> IF ProcOf[w] = p THEN "gone" ELSE phase[w]]

Next ==
  \/ \E w \in Waiter : Enter(w) \/ Leave(w) \/ GiveUp(w)
  \/ \E p \in Proc : Crash(p)

Spec == Init /\ [][Next]_phase

(* At most one caller holds the lock at a time. *)
Exclusive ==
  \A v, w \in Waiter : phase[v] = "holding" /\ phase[w] = "holding" => v = w
=============================================================================
