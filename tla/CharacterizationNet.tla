------------------------- MODULE CharacterizationNet -------------------------
(***************************************************************************)
(* A golden net (characterization-net.ts): every case of a list is run and  *)
(* compared with the golden its name leads to, whole or in shards, and a    *)
(* re-baseline records what the cases do today.  Between runs the           *)
(* repository moves on: cases, names, behaviour and the normaliser change.  *)
(*                                                                         *)
(* What a case does is a value; a golden is the value a normaliser made of  *)
(* one, or a file that is no capture.                                       *)
(***************************************************************************)
EXTENDS Integers, Sequences, FiniteSets, FiniteSetsExt

CONSTANTS
  Case,
  Behaviour,
  Lists,        \* the case lists a repository may declare
  Namings,      \* and what it may name their goldens
  Unusable,     \* a name that is no file of one flat directory
  Normalisers,  \* functions from a behaviour to one; applied twice they change no more
  Matrices,     \* the shards a run is split into: a set of them, or {Whole}
  Whole,
  Torn,
  MaxEdits, MaxDeaths

(* No golden that is torn reads as what a case does, and a matrix is a set  *)
(* of shards that has a shard for every case, or one a run refuses.         *)
ASSUME NetAssumption ==
  /\ Torn \notin Behaviour
  /\ \A list \in Lists : list \in Seq(Case)
  /\ \A f \in Normalisers : f \in [Behaviour -> Behaviour] /\ \A b \in Behaviour : f[f[b]] = f[b]
  /\ \A matrix \in Matrices :
       /\ matrix # {}
       /\ \A s \in matrix \ {Whole} : s.count \in Int /\ s.index \in Int
       /\ \/ Whole \in matrix
          \/ \E s \in matrix : s.count < 1 \/ s.index < 0 \/ s.index >= s.count
          \/ \A s \in matrix : \A i \in 0..(s.count - 1) : [index |-> i, count |-> s.count] \in matrix

VARIABLES
  cases, nameOf, app, normal,   \* the repository
  goldens,                      \* the directory
  campaign,   \* "none", "assert" or "rebaseline"
  blessed,
  shards,     \* per shard of the campaign: how far it is, what it ran, whether it failed
  edits, deaths

net == <<cases, nameOf, app, normal, goldens, campaign, blessed, shards, edits, deaths>>
repository == <<cases, nameOf, app, normal>>

Fresh == [is |-> "running", at |-> 0, ran |-> {}, failed |-> FALSE]

-----------------------------------------------------------------------------
(* unsharded, shardOf, unusable, reconcile, reNormalized *)

Mistyped(s) == s # Whole /\ (s.count < 1 \/ s.index < 0 \/ s.index >= s.count)
Owns(s, n) == s = Whole \/ (s.count > 0 /\ (n - 1) % s.count = s.index)  \* of none, none
Chosen(s) == {n \in DOMAIN cases : Owns(s, n)}
Ahead(s) == {n \in Chosen(s) : n > shards[s].at}
Unclaimed(ran) == DOMAIN goldens \ ran
ReNormalized(golden) == IF golden = Torn THEN Torn ELSE normal[golden]

NameAt(n) == nameOf[cases[n]]
Text_(n) == normal[app[cases[n]]]

-----------------------------------------------------------------------------
(* Mistakes: what a definition below is easily got wrong as. *)

(* A shard looks for collisions in its own slice. *)
ClashesSeen(s) == \E m, n \in Chosen(s) : m # n /\ NameAt(m) = NameAt(n)

-----------------------------------------------------------------------------
(* collisions: asked of every case, never of a shard's slice.               *)
Clashes(s) == \E m, n \in DOMAIN cases : m # n /\ NameAt(m) = NameAt(n)

Agrees(name, n) == ReNormalized(goldens[name]) = Text_(n)

Running(s) == s \in DOMAIN shards /\ shards[s].is = "running"
Advance(s, n, wrong) ==
  shards' = [shards EXCEPT ![s].at = n, ![s].failed = @ \/ wrong,
                           ![s].ran = IF NameAt(n) = Unusable THEN @ ELSE @ \cup {NameAt(n)}]

(* walk: the next case of the slice.  An unusable name is refused before    *)
(* the capture.                                                             *)
Next_(s) == Min(Ahead(s))
Walking(s, kind) == Running(s) /\ campaign = kind /\ ~Mistyped(s) /\ Ahead(s) # {}

SkipUnusable(s) ==
  /\ Running(s) /\ ~Mistyped(s) /\ Ahead(s) # {} /\ NameAt(Next_(s)) = Unusable
  /\ Advance(s, Next_(s), TRUE)
  /\ UNCHANGED <<repository, goldens, campaign, blessed, edits, deaths>>

(* assertNet, one case. *)
CompareCase(s) ==
  /\ Walking(s, "assert")
  /\ LET n == Next_(s)
         name == NameAt(n)
     IN  name # Unusable /\ Advance(s, n, name \notin DOMAIN goldens \/ ~Agrees(name, n))
  /\ UNCHANGED <<repository, goldens, campaign, blessed, edits, deaths>>

(* rebaselineNet, one case: a golden that would not change is not written,  *)
(* and one that would is written only under a blessing.                     *)
Record(name, n) == [g \in DOMAIN goldens \cup {name} |-> IF g = name THEN Text_(n) ELSE goldens[g]]
Standing(name, n) == name \in DOMAIN goldens /\ Agrees(name, n)
Forbidden(name) == name \in DOMAIN goldens /\ ~blessed

RecordCase ==
  /\ Walking(Whole, "rebaseline")
  /\ LET n == Next_(Whole)
         name == NameAt(n)
     IN  /\ name # Unusable
         /\ IF Standing(name, n) THEN UNCHANGED goldens /\ Advance(Whole, n, FALSE)
            ELSE IF Forbidden(name) THEN UNCHANGED goldens /\ Advance(Whole, n, TRUE)
            ELSE goldens' = Record(name, n) /\ Advance(Whole, n, FALSE)
  /\ UNCHANGED <<repository, campaign, blessed, edits, deaths>>

(* The run answers with its summary. *)
Report(s) ==
  /\ Running(s) /\ (Mistyped(s) \/ Ahead(s) = {})
  /\ shards' = [shards EXCEPT ![s].is = "reported",
                  ![s].failed = @ \/ Mistyped(s) \/ Clashes(s) \/ (s = Whole /\ Unclaimed(shards[s].ran) # {})]
  /\ UNCHANGED <<repository, goldens, campaign, blessed, edits, deaths>>

(* A shard dies and reports nothing; a re-baseline may be writing then.     *)
Die(s) ==
  /\ Running(s) /\ deaths < MaxDeaths /\ deaths' = deaths + 1
  /\ shards' = [shards EXCEPT ![s].is = "died"]
  /\ \/ UNCHANGED goldens
     \/ /\ Walking(s, "rebaseline")
        /\ LET name == NameAt(Next_(s))
           IN  /\ name # Unusable /\ ~Standing(name, Next_(s)) /\ ~Forbidden(name)
               /\ goldens' = [g \in DOMAIN goldens \cup {name} |-> IF g = name THEN Torn ELSE goldens[g]]
  /\ UNCHANGED <<repository, campaign, blessed, edits>>

-----------------------------------------------------------------------------

Idle == \A s \in DOMAIN shards : shards[s].is # "running"

AssertNet(matrix) ==
  /\ Idle
  /\ campaign' = "assert" /\ shards' = [s \in matrix |-> Fresh]
  /\ UNCHANGED <<repository, goldens, blessed, edits, deaths>>

RebaselineNet(blessing) ==
  /\ Idle
  /\ campaign' = "rebaseline" /\ blessed' = blessing /\ shards' = [s \in {Whole} |-> Fresh]
  /\ UNCHANGED <<repository, goldens, edits, deaths>>

(* The repository moves on, and what the last run said is history.          *)
Edit ==
  /\ Idle /\ edits < MaxEdits /\ edits' = edits + 1
  /\ \/ cases' \in Lists /\ UNCHANGED <<nameOf, app, normal, goldens>>
     \/ nameOf' \in Namings /\ UNCHANGED <<cases, app, normal, goldens>>
     \/ (\E c \in Case, b \in Behaviour : app' = [app EXCEPT ![c] = b]) /\ UNCHANGED <<cases, nameOf, normal, goldens>>
     \/ normal' \in Normalisers /\ UNCHANGED <<cases, nameOf, app, goldens>>
  /\ campaign' = "none" /\ shards' = <<>> /\ blessed' = FALSE
  /\ UNCHANGED deaths

NetInit ==
  /\ cases \in Lists /\ nameOf \in Namings /\ app \in [Case -> Behaviour] /\ normal \in Normalisers
  /\ goldens = <<>>
  /\ campaign = "none" /\ blessed = FALSE /\ shards = <<>> /\ edits = 0 /\ deaths = 0

Shard == UNION Matrices
Net ==
  \/ \E matrix \in Matrices : AssertNet(matrix)
  \/ \E blessing \in BOOLEAN : RebaselineNet(blessing)
  \/ \E s \in Shard : SkipUnusable(s) \/ CompareCase(s) \/ Report(s) \/ Die(s)
  \/ RecordCase \/ Edit

-----------------------------------------------------------------------------

(* The driver of a sharded run: each shard it started answered, none found  *)
(* anything wrong, and no golden is one that none of them ran.              *)
Green_ ==
  /\ shards # <<>>
  /\ \A s \in DOMAIN shards : shards[s].is = "reported" /\ ~shards[s].failed
  /\ Unclaimed(UNION {shards[s].ran : s \in DOMAIN shards}) = {}

(* A run that answers green, an assert in whatever shards or a re-baseline, *)
(* leaves every case with a golden of its own that says what the case does  *)
(* today, and no golden besides (the rules of the file's head, 19-45).      *)
GreenIsPinned ==
  Green_ =>
    /\ \A m, n \in DOMAIN cases : NameAt(m) = NameAt(n) => m = n
    /\ \A n \in DOMAIN cases :
         NameAt(n) \in DOMAIN goldens /\ goldens[NameAt(n)] # Torn /\ normal[goldens[NameAt(n)]] = Text_(n)
    /\ DOMAIN goldens = {NameAt(n) : n \in DOMAIN cases}
=============================================================================
