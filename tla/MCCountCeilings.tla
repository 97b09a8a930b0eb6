-------------------------- MODULE MCCountCeilings --------------------------
(* CountCeilings on a small instance. *)
EXTENDS CountCeilings, TLC

CONSTANTS w1, w2, w3, k1, k2, load, sort, old, new, dead

(* Two writers of two tests, and a check of the first. *)
Tests == (w1 :> k1 @@ w2 :> k2 @@ w3 :> k1)
Modes == (w1 :> "write" @@ w2 :> "write" @@ w3 :> "check")

(* One of the three has been upgraded. *)
Builds == [r \in Run |-> IF r = w2 THEN new ELSE old]

Steady(p, n) == (<<p, "steady">> :> n)
React(p, n) == (<<p, "react">> :> n)

(* The first test's writer measured any of these: with a renderer or none, *)
(* or with a second phase.                                                 *)
Small ==
  {Steady(load, n) : n \in 0..2}
  \cup {Steady(load, 1) @@ React(load, 2), Steady(load, 1) @@ Steady(sort, 1)}
Measured == [r \in Run |-> CASE r = w1 -> Small
                             [] r = w2 -> {Steady(load, 1)}
                             [] r = w3 -> {Steady(load, 1) @@ React(load, 1)}]

Written(m) == [browser |-> old, ceilings |-> [s \in DOMAIN m |-> Plain(m[s])], seal |-> m]

(* No file; or the first test's ceilings as the command wrote them; or one *)
(* of them raised, and the raise kept.                                     *)
Starts ==
  {NoFile} \cup {k1 :> Written(Steady(load, 1) @@ React(load, 1))}
  \cup {(k1 :> [Written(Steady(load, 2)) EXCEPT
                  !.ceilings = (<<load, "steady">> :> [ceiling |-> 2, was |-> 1])])}
=============================================================================
