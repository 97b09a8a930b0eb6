---------------------------- MODULE RouteHistory -----------------------------
(***************************************************************************)
(* The promise a repository that carries people makes from one commit to    *)
(* the next: what it answered it goes on answering.  Two gates of every run *)
(* hold it, in two jobs: the repository contract, which lets the lifecycle *)
(* field move only up (repo-contract/live.ts), and the compatibility floor, *)
(* which holds a live repository to the snapshot of routes its base          *)
(* committed (db-gate/route-compat.ts).                                     *)
(*                                                                         *)
(* A commit is the table its app serves, the snapshot it carries, and its    *)
(* lifecycle field.                                                         *)
(***************************************************************************)
EXTENDS RouteTable

CONSTANTS
  NoCommit,
  NoSnapshot,   \* the commit carries no such file
  NotRoutes,    \* it does, and what it says is no list of routes
  Commits,      \* what may be pushed
  Hatches,      \* the two inputs of a run: [retire, retiring]
  Checkouts     \* what may come of looking for the base: "found", "ref", "history"

ASSUME HistoryAssumption ==
  /\ NoCommit \notin Commits
  /\ Checkouts \subseteq {"found", "ref", "history"}
  /\ \A commit \in Commits : Keys(commit.table) \notin {NoSnapshot, NotRoutes}

VARIABLES
  tip,          \* the commit the branch has, NoCommit before there is one
  pushed,       \* the commit a run is over
  hatch,        \* the inputs that run has
  contractSays, \* the contract's answer: "none", "green" or "red"
  floorSays,    \* the floor's
  promised      \* the requests that are to be answered, by what has been green

history == <<tip, pushed, hatch, contractSays, floorSays, promised>>

Verdicts == {"green", "red"}
VerdictOf(holds) == IF holds THEN "green" ELSE "red"

(* baseRevision: the tip before, none, or no answer from this checkout.     *)
Based(seen) == IF seen # "found" THEN seen ELSE IF tip = NoCommit THEN "first" ELSE "commit"

-----------------------------------------------------------------------------
(* Mistakes: what a definition below is easily got wrong as. *)

(* What the base says is not asked.  *)
GradedAlone(is, base, wasLive, retiring) == is # "absent" /\ (retiring => wasLive)

-----------------------------------------------------------------------------
(* checkLifecycle: a field that moves down from live needs the exemption,   *)
(* an exemption needs that, and a checkout that cannot say is refused to    *)
(* whoever it matters to.                                                  *)
LifecycleHolds(is, base, wasLive, retiring) ==
  /\ is # "absent"
  /\ IF base \in {"ref", "history"} THEN base = "history" /\ ~retiring /\ is # "live"
     ELSE retiring <=> (wasLive /\ is # "live")

Contract(seen) ==
  /\ pushed # NoCommit /\ contractSays = "none"
  /\ LET base == Based(seen)
         wasLive == base = "commit" /\ tip.lifecycle = "live"
     IN  contractSays' = VerdictOf(LifecycleHolds(pushed.lifecycle, base, wasLive, hatch.retiring))
  /\ UNCHANGED <<tip, pushed, hatch, floorSays, promised>>

-----------------------------------------------------------------------------
(* routeCompat *)

(* committed: the blob this commit carries is the table its app declares.   *)
Committed(commit) == commit.snapshot = Keys(commit.table)

(* servesAll: the route itself, or this branch's route for every method.    *)
ServesAll(served, route) == route \in served \/ CatchAll(route.path) \in served

(* baseSnapshot, where the repository is live. *)
Unheld(base) == pushed.lifecycle # "live" \/ base = "first" \/ (base = "commit" /\ tip.snapshot = NoSnapshot)
Broken(base) == ~Unheld(base) /\ (base # "commit" \/ tip.snapshot = NotRoutes)

HeldTo(base) ==
  LET carried == Keys(tip.snapshot)
      kept == {route \in carried : ServesAll(Keys(pushed.table), route)}
  IN  WaivedBy(hatch.retire, carried, kept)

Compatible(seen) ==
  /\ pushed # NoCommit /\ floorSays = "none"
  /\ LET base == Based(seen)
     IN  floorSays' = VerdictOf(/\ Committed(pushed)
                             /\ ~Broken(base)
                             /\ IF Unheld(base) THEN hatch.retire.entries = {}
                                ELSE NothingWrong(hatch.retire, HeldTo(base)))
  /\ UNCHANGED <<tip, pushed, hatch, contractSays, promised>>

-----------------------------------------------------------------------------
(* The branch. *)

Push(commit, inputs) ==
  /\ pushed = NoCommit
  /\ pushed' = commit /\ hatch' = inputs
  /\ UNCHANGED <<tip, contractSays, floorSays, promised>>

BothIn == contractSays \in Verdicts /\ floorSays \in Verdicts
BothGreen == contractSays = "green" /\ floorSays = "green"
Cleared == pushed' = NoCommit /\ contractSays' = "none" /\ floorSays' = "none" /\ UNCHANGED hatch

(* What a green run adds to the promise: all a live commit answers.  What   *)
(* it takes from it: what answered by a route retired by name, and all of it *)
(* where the repository is.                                                *)
Retired == {request \in promised : AnsweredBy(tip.table, request) \cap RoutesIn(hatch.retire) # {}}
PromiseOf(commit) ==
  IF commit.lifecycle = "live" THEN (promised \ Retired) \cup Answerable(commit.table)
  ELSE IF hatch.retiring THEN {} ELSE promised

Land ==
  /\ BothIn /\ BothGreen
  /\ tip' = pushed /\ promised' = PromiseOf(pushed)
  /\ Cleared

(* Somebody lands it red: nobody promises anything until a run is green.    *)
LandAnyway ==
  /\ BothIn /\ ~BothGreen
  /\ tip' = pushed /\ promised' = {}
  /\ Cleared

TurnBack == BothIn /\ ~BothGreen /\ Cleared /\ UNCHANGED <<tip, promised>>

RoutesInit ==
  /\ tip = NoCommit /\ pushed = NoCommit /\ promised = {}
  /\ hatch = [retire |-> NothingListed, retiring |-> FALSE]
  /\ contractSays = "none" /\ floorSays = "none"

History ==
  \/ \E commit \in Commits, inputs \in Hatches : Push(commit, inputs)
  \/ \E seen \in Checkouts : Contract(seen) \/ Compatible(seen)
  \/ Land \/ LandAnyway \/ TurnBack

-----------------------------------------------------------------------------

(* "A repo carrying people does not quietly stop serving a route it served  *)
(* at the base ref" (route-compat.ts:15): along any history of green runs,  *)
(* each request answered since the repository went live is answered still,  *)
(* unless its route was retired by name, or the repository was; taking the  *)
(* field down for a while, or a route for every method, frees nobody.       *)
RoutesOutlive == tip # NoCommit => promised \subseteq Answerable(tip.table)
=============================================================================
