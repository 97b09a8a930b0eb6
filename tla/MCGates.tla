------------------------------ MODULE MCGates -------------------------------
(* What one job of a run does, on small instances: one of its gates, or the *)
(* servers it starts and stops.                                             *)
EXTENDS DuplicateCode, MutationLane, CharacterizationNet, LimiterConformance, Probe, Services, RouteRamp,
        RouteHistory, NightlyIssue

CONSTANTS p, q, g, x, y, c1, c2, c3, n1, n2, n3, pa, pb, t1, t2, t3, t4

VARIABLE gate

vars == <<gate, change, clones, lane, net, suite, probe, services, ramp, history, nights>>

-----------------------------------------------------------------------------
(* The change set and the two gates that read it. *)

(* Two files; one file and its own repetitions; a kept block inside one;    *)
(* and beside them one that is generated.                                   *)
Phys(n, S) == [1..n -> S]
Tree(one, other) == (p :> one) @@ (q :> other) @@ (g :> <<x, y, x>>)
OneTree == Tree(<<x, y, x, y>>, <<x, y>>)
AllTrees ==
  {OneTree}
  \cup {Tree(one, <<x, y, x>>) : one \in Phys(4, {x, y, Keep})}
  \cup {Tree(one, <<x, x, y>>) : one \in Phys(3, {x, y, Keep})}
  \cup {Tree(one, <<>>) : one \in Phys(5, {x, y})}
  \cup {Tree(<<x, y, Keep, x, y>>, other) : other \in Phys(3, {x, y})}

Branch_(base, one, other, cut, quoted, moved, looks) ==
  [base |-> base, wrote |-> (p :> one) @@ (q :> other) @@ (g :> other \cap {1}),
   cut |-> cut, quoted |-> quoted, moved |-> moved, looks |-> looks]

(* Lists of plainly named files and their lines; and the ways git's answer  *)
(* may be another.                                                          *)
Plain ==
  {Branch_("named", one, other, {}, {}, {}, q) : one \in SUBSET (1..4), other \in {{}, {1, 2}}}
  \cup {Branch_("named", one, {}, {}, {}, {}, q) : one \in {{5}, {4, 5}, 1..5, {3, 5}}}
Odd ==
  {Branch_("named", one, {2}, cut, quoted, {q}, looks) :
     one \in {{}, {1, 2, 4}}, cut \in SUBSET {p, q}, quoted \in SUBSET {p, q}, looks \in {p, q}}
  \cup {Branch_(base, {1}, {}, {}, {}, {}, q) : base \in {"refused", "none"}}
  \cup {Branch_("named", {}, {}, {}, {}, {q}, q)}
AllBranches == Plain \cup Odd

AllDomains == {<<>>, <<"a folder">>, <<"nothing">>, <<"a folder", "a file">>, <<"nothing", "a folder">>}
Itself == [f \in File |-> {f}]
SomeFloors == {NoFloor, 60}
AllRuns ==
  [status : {0, 1}, dirty : BOOLEAN, resolves : {Itself, [Itself EXCEPT ![p] = {}], [Itself EXCEPT ![q] = {}]}]
  \cup [status : {0}, dirty : {FALSE}, resolves : {[Itself EXCEPT ![p] = {q}]}]
AllMutants ==
  [from : {1, 2}, to : {2}, status : {"Killed", "Survived", "Ignored", "RuntimeError"}, static : {FALSE}]
  \cup [from : {2}, to : {3}, status : {"Survived"}, static : {FALSE}]
  \cup [from : {1}, to : {1}, status : {"NoCoverage", "CompileError", "Pending"}, static : BOOLEAN]

-----------------------------------------------------------------------------
(* The golden net. *)

AllLists == {<<c1, c2, c3>>, <<c1, c3>>, <<c2, c1>>}
AllNamings ==
  {c1 :> n1 @@ c2 :> n2 @@ c3 :> n3, c1 :> n1 @@ c2 :> n1 @@ c3 :> n2, c1 :> n1 @@ c2 :> Unusable @@ c3 :> n3}
AllNormalisers == {[b \in Behaviour |-> b], [b \in Behaviour |-> IF b = 2 THEN 1 ELSE b]}
ShardOf(index, count) == [index |-> index, count |-> count]
AllMatrices ==
  {{Whole}, {ShardOf(0, 2), ShardOf(1, 2)}, {ShardOf(0, 0)}, {ShardOf(1, 2), ShardOf(2, 2)}}

-----------------------------------------------------------------------------
(* The limiters: every way to make a key, on one that is otherwise sound;   *)
(* and every other way to be unsound, on one whose key is.                  *)

EdgeFirst == <<"cf", "forwarded", "socket">>
Keyed ==
  [chain : {EdgeFirst, <<"cf">>, <<"cf", "socket", "forwarded">>, <<"forwarded", "cf", "socket">>, <<"socket">>},
   whole : BOOLEAN, empty : {"value", "skipped", "exempt"}, bottom : BOOLEAN, perPath : BOOLEAN,
   everybody : BOOLEAN, skips : {0, 2}, cap : {2}, inProcess : {FALSE}, atomic : {TRUE}, stranded : {"refuses"}]
Kept ==
  [chain : {EdgeFirst}, whole : {FALSE}, empty : {"value"}, bottom : {TRUE}, perPath : {FALSE},
   everybody : {FALSE}, skips : {0}, cap : 0..3, inProcess : BOOLEAN, atomic : BOOLEAN,
   stranded : {"refuses", "admits", "opens", "hangs"}]
AllLimiters == Keyed \cup Kept
Sound == CHOOSE l \in Kept : l.cap = 1 /\ l.atomic /\ ~l.inProcess /\ l.stranded = "refuses"

-----------------------------------------------------------------------------
(* The routes: a path with a route per method, one for every method, or     *)
(* both, beside the path the health route is on.                           *)

Get == RouteOf("GET", pa)
Post == RouteOf("POST", pa)
AllOf == CatchAll(pa)
Lower == RouteOf("get", pa)
HealthRoute == RouteOf("GET", pb)

AllRouteTables ==
  {<<>>, <<HealthRoute>>, <<Get, AllOf, HealthRoute>>, <<AllOf, HealthRoute>>, <<HealthRoute, Post, AllOf, Get>>,
   <<Get, Lower, Post>>, <<AllOf, CatchAll(pb)>>}
AllWaivings ==
  {NothingListed, Listed({Lower}, {}), Listed({AllOf}, {}), Listed({AllOf, HealthRoute}, {}),
   Listed({Get, Post}, {Post}), Listed({Get, Malformed}, {}), Listed({Get, Post, Lower}, {})}

Commit(table, snapshot, lifecycle) == [table |-> table, snapshot |-> snapshot, lifecycle |-> lifecycle]
SomeTables == SUBSET {Get, Post, AllOf} \cup {{Lower}, {HealthRoute, AllOf}}
AllCommits ==
  {Commit(table, Keys(table), lifecycle) : table \in SomeTables, lifecycle \in {"dev", "live", "absent"}}
  \cup {Commit(table, snapshot, lifecycle) :
          table \in {{Get, AllOf}, {Post}}, snapshot \in {NoSnapshot, NotRoutes, {Post, AllOf}}, lifecycle \in {"dev", "live"}}
AllHatches ==
  {[retire |-> Listed(entries, {}), retiring |-> FALSE] : entries \in SUBSET {Get, Post, AllOf}}
  \cup {[retire |-> Listed(entries, {}), retiring |-> TRUE] : entries \in {{}, {Get}}}
  \cup {[retire |-> Listed({Lower}, {}), retiring |-> FALSE], [retire |-> Listed({Get, Post}, {Post}), retiring |-> FALSE],
        [retire |-> Listed({Get, Malformed}, {}), retiring |-> FALSE]}

(* Runs are told apart by what they came to alone, so of the ways to deal   *)
(* results to them, one of each.                                           *)
Nights == <<t1, t2, t3, t4>>
DealtInOrder ==
  \A i \in 1..3 : /\ result[Nights[i]] = "cancelled" => result[Nights[i + 1]] = "cancelled"
                  /\ result[Nights[i + 1]] = "failure" => result[Nights[i]] = "failure"

-----------------------------------------------------------------------------

(* What one gate alone tells apart is held still while another runs.        *)
ClonesStill == tree = OneTree /\ pending = {} /\ here = Nowhere /\ start = 0 /\ covers = [f \in File |-> {}] /\ judged = <<>>
ChangeStill == branch = Branch_("none", {}, {}, {}, {}, {}, q)
               /\ diff = <<>> /\ unnamed = FALSE /\ lines = Nowhere /\ changed = <<>> /\ problems = 0 /\ stage = "base"
LaneStill ==
  /\ domain = <<>> /\ installed = FALSE /\ floor = NoFloor /\ verdict = "none" /\ report = <<>>
  /\ ran = [status |-> -1, dirty |-> FALSE, resolves |-> [f \in File |-> {}]]
NetStill ==
  /\ cases = <<c1, c3>> /\ nameOf = (c1 :> n1 @@ c2 :> n2 @@ c3 :> n3) /\ app = [c \in Case |-> 1] /\ normal = [b \in Behaviour |-> b]
  /\ goldens = <<>> /\ campaign = "none" /\ blessed = FALSE /\ shards = <<>> /\ edits = 0 /\ deaths = 0
SuiteStill == limiter = Sound /\ used = <<>> /\ at = 1 /\ made = 0 /\ cap = <<>> /\ failed = {} /\ queue = <<>> /\ answered = <<>>
ProbeStill ==
  /\ member = [r \in Process |-> "none"] /\ grouped = {} /\ holding = {} /\ said = 0 /\ exit = Unended
  /\ settled = "none" /\ awaiting = "nothing" /\ answer = "none"
RampStill ==
  /\ doing = "red" /\ declared = <<>> /\ waivers = NothingListed
  /\ counts = Zeroes /\ before = Zeroes /\ after = Zeroes /\ sent = 0 /\ restarts = 0 /\ ramped = {}
  /\ turn = 0 /\ questions = <<>> /\ failures = 0

Init ==
  /\ gate \in {"clones", "lane", "net", "limiter", "probe", "services", "ramp", "routes", "nightly"}
  /\ IF gate \in {"clones", "lane"} THEN ChangeInit ELSE ChangeStill
  /\ IF gate = "clones" THEN ClonesInit /\ (tree # OneTree => branch \in Plain) ELSE ClonesStill
  /\ IF gate = "lane" THEN LaneInit /\ branch \in Odd ELSE LaneStill
  /\ IF gate = "net" THEN NetInit ELSE NetStill
  /\ IF gate = "limiter" THEN LimiterInit ELSE SuiteStill
  /\ IF gate = "probe" THEN ProbeInit ELSE ProbeStill
  /\ ServicesInit
  /\ IF gate = "ramp" THEN RampInit ELSE RampStill
  /\ RoutesInit
  /\ NightsInit /\ DealtInOrder /\ (gate # "nightly" => \A n \in Night : result[n] = "cancelled")

ReadChange ==
  /\ gate \in {"clones", "lane"} /\ (gate = "lane" => verdict = "declared")
  /\ Read /\ UNCHANGED <<gate, clones, lane, net, suite, probe, services, ramp, history, nights>>
LookForClones == gate = "clones" /\ Look /\ UNCHANGED <<gate, change, lane, net, suite, probe, services, ramp, history, nights>>
MutateDomain == gate = "lane" /\ Mutate /\ UNCHANGED <<gate, change, clones, net, suite, probe, services, ramp, history, nights>>
RunNet == gate = "net" /\ Net /\ UNCHANGED <<gate, change, clones, lane, suite, probe, services, ramp, history, nights>>
TryLimiter == gate = "limiter" /\ Conformance /\ UNCHANGED <<gate, change, clones, lane, net, probe, services, ramp, history, nights>>
AskProbe == gate = "probe" /\ Ask_ /\ UNCHANGED <<gate, change, clones, lane, net, suite, services, ramp, history, nights>>
Serve_ == gate = "services" /\ Serving /\ UNCHANGED <<gate, change, clones, lane, net, suite, probe, ramp, history, nights>>
RampRoutes ==
  /\ gate = "ramp" /\ RampJob
  /\ UNCHANGED <<gate, change, clones, lane, net, suite, probe, services, history, nights>>
KeepRoutes ==
  /\ gate = "routes" /\ History
  /\ UNCHANGED <<gate, change, clones, lane, net, suite, probe, services, ramp, nights>>
FileNightly ==
  /\ gate = "nightly" /\ FileNights
  /\ UNCHANGED <<gate, change, clones, lane, net, suite, probe, services, ramp, history>>

Done ==
  /\ \/ gate = "clones" /\ (stage = "settled" \/ Over)
     \/ gate = "lane" /\ verdict \notin {"none", "declared", "running"}
     \/ gate = "limiter" /\ at > Len(Cases)
     \/ gate = "probe" /\ answer # "none"
     \/ gate = "nightly" /\ \A n \in Night : filing[n] \in {"done", "failed"}
     \/ gate = "ramp" /\ doing \in {"green", "red"}
  /\ UNCHANGED vars

Next ==
  ReadChange \/ LookForClones \/ MutateDomain \/ RunNet \/ TryLimiter \/ AskProbe \/ Serve_
  \/ RampRoutes \/ KeepRoutes \/ FileNightly \/ Done

(* The probe's timers fire; nothing else is asked to go on.                 *)
Spec == Init /\ [][Next]_vars /\ WF_vars(gate = "probe" /\ Gate /\ UNCHANGED <<gate, change, clones, lane, net, suite, services, ramp, history, nights>>)
=============================================================================
