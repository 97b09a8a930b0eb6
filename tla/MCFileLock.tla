----------------------------- MODULE MCFileLock -----------------------------
(* FileLock on small instances. *)
EXTENDS FileLock, TLC

(* One caller in each process, which then stands for its process; the      *)
(* processes are interchangeable.                                          *)
OneEach == [p \in Proc |-> p]
Endless == [p \in Proc |-> Infinity]
Interchangeable == Permutations(Proc)

CONSTANTS p1, p2, p3, s1, a, b, c

(* Two callers in the first process and one in the second.                 *)
Shared == (a :> p1 @@ b :> p1 @@ c :> p2)

(* One that waits for ever, and two that poll a live holder once.          *)
Mixed == (a :> Infinity @@ b :> 1 @@ c :> 1)
=============================================================================
