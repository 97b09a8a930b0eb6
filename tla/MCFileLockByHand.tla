-------------------------- MODULE MCFileLockByHand --------------------------
(* FileLockByHand on a small instance: see MCFileLock. *)
EXTENDS FileLockByHand, TLC

OneEach == [p \in Proc |-> p]
Endless == [p \in Proc |-> Infinity]
Interchangeable == Permutations(Proc)

CONSTANTS p1, p2, p3, s1
=============================================================================
