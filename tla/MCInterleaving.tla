--------------------------- MODULE MCInterleaving ---------------------------
(* Interleaving with a root and two daemons, over a dozen programs.  The    *)
(* first op of a fiber's main installs its finalizer.                       *)
EXTENDS Interleaving

CONSTANTS r, a, d

Begins == <<"sync", r>>
Ends == [main |-> <<>>, fin |-> <<>>]
Runs(ops_) == [main |-> <<Begins>> \o ops_, fin |-> <<>>]
Finally(ops_, after) == [main |-> <<Begins>> \o ops_, fin |-> after]
Fork(f) == <<"fork", f>>
Programme(root, one, other) == (r :> root) @@ (a :> one) @@ (d :> other)

Work == Runs(<<<<"sync", r>>>>)
Spins == Programme(Runs(<<Fork(a), <<"spin", a>>>>), Work, Ends)
Polls == Programme(Runs(<<Fork(a), <<"poll", a>>>>), Work, Ends)
SpinsAgain == Programme(Runs(<<Fork(a), Fork(d), <<"await", d>>>>), Work, Runs(<<<<"spin", a>>>>))
Handed == Programme(Runs(<<Fork(a), <<"await", a>>>>), Runs(<<Fork(d), <<"gate", a>>>>), Runs(<<<<"hand", a>>>>))
Released == Programme(Runs(<<Fork(a), <<"await", a>>>>), Runs(<<Fork(d), <<"gate", a>>>>), Runs(<<<<"release", a>>, <<"yield", d>>>>))

Deadlocked == Programme(Runs(<<Fork(a), <<"await", a>>>>), Runs(<<<<"await", r>>>>), Ends)
ForksLate == Programme(Runs(<<Fork(a), <<"await", a>>>>), Finally(<<<<"never", a>>>>, <<Fork(d)>>), Runs(<<<<"never", d>>>>))
Holds == Programme(Runs(<<Fork(a), <<"yield", r>>>>), Runs(<<<<"hold", a>>>>), Ends)
ParksOn == Programme(Runs(<<Fork(a), <<"never", r>>>>), Finally(<<<<"never", a>>>>, <<<<"never", a>>>>), Ends)
Loops == Programme(Runs(<<Fork(a), <<"never", r>>>>), Finally(<<<<"never", a>>>>, <<<<"poll", r>>, <<"spin", d>>>>), Ends)
Endless == Programme(Runs(<<Fork(a), <<"poll", d>>>>), Finally(<<<<"never", a>>>>, <<Fork(d)>>), Runs(<<<<"spin", r>>>>))

CanFinish == {Spins, Polls, SpinsAgain}
Others == {Handed, Released, Deadlocked, ForksLate, Holds, ParksOn, Loops, Endless}
All == CanFinish \cup Others
Lists == UNION {[1..n -> 0..1] : n \in 0..3}
=============================================================================
