------------------------------ MODULE RouteRamp ------------------------------
(***************************************************************************)
(* The steps of the database job that are about the routes of the app it    *)
(* booted (db-gate/action.yml): the poll and the probe, the ramp between    *)
(* two fetches of the app's counters, the coverage floor over their          *)
(* difference (route-coverage.ts), and generated requests at every route    *)
(* (fuzz.ts), in that order; the first that fails ends the job.             *)
(*                                                                         *)
(* The app counts, per method and pattern, the requests it has answered      *)
(* since it started, and something may start it again.                      *)
(***************************************************************************)
EXTENDS RouteTable, Integers, Sequences, FiniteSetsExt, Functions

CONSTANTS
  Tables,           \* the tables an app may declare, in its own order
  Waivings,         \* what route-allowlist may list
  MaxRequests,      \* how many requests come before the fuzzing
  MaxRestarts,
  ENOUGH_FAILURES,
  MaxAsked          \* what the budget allows each route

(* A route of a table, as somebody wrote it. *)
Registered == [method : Methods \cup {"get", EveryMethod}, path : Path]

ASSUME RampAssumption == IsFiniteSet(Path) /\ Tables \subseteq Seq(Registered)

VARIABLES
  doing,       \* "boot", "ramp", "coverage", "fuzz", "green" or "red"
  declared,    \* the table the app declares
  waivers,     \* route-allowlist
  counts,      \* the app's counters
  before, after,  \* the two fetches
  sent, restarts,
  ramped,      \* the routes whose handlers the ramp has run
  turn, questions, failures   \* fuzz: whose turn was the last, how often each was asked, what failed

fixed == <<declared, waivers>>
fuzzing == <<turn, questions, failures>>
ramp == <<doing, fixed, counts, before, after, sent, restarts, ramped, fuzzing>>

Zeroes == [request \in Request |-> 0]
Declared == {declared[i] : i \in DOMAIN declared}

-----------------------------------------------------------------------------
(* The app, and whoever asks it. *)

Handle(request) ==
  /\ sent < MaxRequests
  /\ sent' = sent + 1
  /\ counts' = IF AnsweredBy(Declared, request) = {} THEN counts ELSE [counts EXCEPT ![request] = @ + 1]

(* The poll of the boot step, and the repository's probe of the booted app. *)
Poll(request) ==
  /\ doing = "boot" /\ Handle(request)
  /\ UNCHANGED <<doing, fixed, before, after, restarts, ramped, fuzzing>>

RampRequest(request) ==
  /\ doing = "ramp" /\ Handle(request)
  /\ ramped' = ramped \cup AnsweredBy(Declared, request)
  /\ UNCHANGED <<doing, fixed, before, after, restarts, fuzzing>>

Restart ==
  /\ doing \in {"boot", "ramp"} /\ restarts < MaxRestarts
  /\ restarts' = restarts + 1 /\ counts' = Zeroes
  /\ UNCHANGED <<doing, fixed, before, after, sent, ramped, fuzzing>>

(* Health never answered, the load fails too often, or a fetch got nothing. *)
StepFails ==
  /\ doing \in {"boot", "ramp"} /\ doing' = "red"
  /\ UNCHANGED <<fixed, counts, before, after, sent, restarts, ramped, fuzzing>>

FetchBefore ==
  /\ doing = "boot" /\ sent > 0
  /\ doing' = "ramp" /\ before' = counts
  /\ UNCHANGED <<fixed, counts, after, sent, restarts, ramped, fuzzing>>

FetchAfter ==
  /\ doing = "ramp"
  /\ doing' = "coverage" /\ after' = counts
  /\ UNCHANGED <<fixed, counts, before, sent, restarts, ramped, fuzzing>>

-----------------------------------------------------------------------------
(* Mistakes: what a definition below is easily got wrong as. *)

(* A route for every method is credited with every request of its path.     *)
OnItsPath(route) ==
  {request \in Request : request.path = route.path /\ route.method \in {request.method, EveryMethod}}

-----------------------------------------------------------------------------
(* routeCoverage *)

(* siblingMethods: what a route for every method on this path never takes.  *)
Siblings(path) == {method \in Methods : RouteOf(method, path) \in Keys(Declared)}

(* The counts a route is credited with. *)
Credited(route) ==
  IF route.method = EveryMethod
  THEN {request \in Request : request.path = route.path /\ request.method \notin Siblings(route.path)}
  ELSE {route}
Hits(log, route) == FoldFunctionOnSet(+, 0, log, Credited(route))

Exercised == {route \in Keys(Declared) : Hits(after, route) > Hits(before, route)}
Coverage ==
  /\ doing = "coverage"
  /\ doing' = IF declared # <<>> /\ NothingWrong(waivers, WaivedBy(waivers, Keys(Declared), Exercised))
              THEN "fuzz" ELSE "red"
  /\ UNCHANGED <<fixed, counts, before, after, sent, restarts, ramped, fuzzing>>

-----------------------------------------------------------------------------
(* fuzz: round robin over the routes nobody waived, one request at a time.  *)

Fuzzed == {i \in DOMAIN declared : RouteKey(declared[i]) \notin RoutesIn(waivers)}
After(i) == {j \in Fuzzed : j > i}
NextTurn(i) == IF After(i) = {} THEN Min(Fuzzed) ELSE Min(After(i))

Fuzz ==
  /\ doing = "fuzz" /\ Fuzzed # {} /\ questions[NextTurn(turn)] < MaxAsked
  /\ turn' = NextTurn(turn) /\ questions' = [questions EXCEPT ![turn'] = @ + 1]
  /\ \E fails \in {0, 1} :
       /\ failures' = failures + fails
       /\ doing' = IF fails = 1 /\ failures' >= ENOUGH_FAILURES THEN "red" ELSE doing
  /\ UNCHANGED <<fixed, counts, before, after, sent, restarts, ramped>>

(* The deadline passes, or there was nothing to send; fuzzVerdict. *)
Deadline ==
  /\ doing = "fuzz"
  /\ doing' = IF failures = 0 THEN "green" ELSE "red"
  /\ UNCHANGED <<fixed, counts, before, after, sent, restarts, ramped, fuzzing>>

RampInit ==
  /\ doing = "boot" /\ declared \in Tables /\ waivers \in Waivings
  /\ counts = Zeroes /\ before = Zeroes /\ after = Zeroes
  /\ sent = 0 /\ restarts = 0 /\ ramped = {}
  /\ turn = 0 /\ questions = [i \in DOMAIN declared |-> 0] /\ failures = 0

RampJob ==
  \/ \E request \in Request : Poll(request) \/ RampRequest(request)
  \/ Restart \/ StepFails \/ FetchBefore \/ FetchAfter \/ Coverage \/ Fuzz \/ Deadline

-----------------------------------------------------------------------------

(* "A route no request reached has never been under load at all"            *)
(* (action.yml), and "a budget that runs out has still asked every route    *)
(* the same number of questions" (fuzz.ts:629-630): once the job is green,  *)
(* the handler of each route answered a request of the ramp's own, whoever  *)
(* else asks the app and whenever it started, or the route is excused by    *)
(* name and reason; and of those not excused none was asked twice more than *)
(* another.                                                                *)
GreenMeansReached ==
  doing = "green" =>
    /\ \A route \in Keys(Declared) :
         \/ route \in ramped
         \/ \E entry \in waivers.entries \ (waivers.unreasoned \cup {Malformed}) : RouteKey(entry) = route
    /\ \A i, j \in Fuzzed : questions[i] - questions[j] \in -1..1
=============================================================================
