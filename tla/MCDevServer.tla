----------------------------- MODULE MCDevServer -----------------------------
(* DevServer on small instances. *)
EXTENDS DevServer, TLC

CONSTANTS x, y, z, w1, w2, main, other, p1, p2

Ups == [c \in Cmd |-> "up"]
UpsAndDown == [c \in Cmd |-> IF c = z THEN "down" ELSE "up"]
OneOfEach == (x :> "up" @@ y :> "down" @@ z :> "sweep")

(* Every command in the first worktree; or the sweep there and the others  *)
(* in the second.                                                          *)
Together == [c \in Cmd |-> w1]
Apart == [c \in Cmd |-> IF c = z THEN w1 ELSE w2]
Interchangeable == Permutations(Cmd)

(* One block for every stem, as two names that hash alike have; or a port  *)
(* of its own for each branch.                                             *)
OneBlock == [s \in Stem |-> <<p1, p2>>]
BlockPerBranch == [s \in Stem |-> IF s[2] = main THEN <<p1>> ELSE <<p2>>]

NoRecords == [s \in {} |-> Junk]
Fresh == {NoRecords}
Dead(p) == [server |-> Gone, port |-> p]
At(w, r) == (<<w, main>> :> r)

(* What a reboot, or an older version, left behind in the first worktree.  *)
DeadBefore == Fresh \cup {At(w1, Dead(p)) : p \in Port} \cup {At(w1, Junk)}

(* And in both. *)
LeftBehind == {At(w1, Junk) @@ At(w2, Dead(p1))}
=============================================================================
