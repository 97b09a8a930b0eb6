-------------------------- MODULE MCInvariantSweep --------------------------
(* InvariantSweep with two actions, both of one kind. *)
EXTENDS InvariantSweep, TLC

CONSTANTS a, b

OneKind == {[x \in Action |-> k] : k \in {"trusted", "scripted"}}
AnyKind == [Action -> {"trusted", "scripted"}]
Symmetry == Permutations(Action)
=============================================================================
