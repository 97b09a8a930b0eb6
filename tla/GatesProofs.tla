----------------------------- MODULE GatesProofs -----------------------------
(***************************************************************************)
(* What the gates and steps of a run promise, whatever their constants: the *)
(* local servers, the probe, the routes, the nightly's issue, the golden   *)
(* net, the ramp, duplicate code and the mutation lane.  MCGates takes each *)
(* of them alone; so does each section here.                               *)
(***************************************************************************)
EXTENDS Integers, Services, Probe, RouteHistory, RouteRamp, NightlyIssue,
        CharacterizationNet, DuplicateCode, MutationLane,
        FiniteSetTheorems, SequenceTheorems, WellFoundedInduction, TLAPS

(* A set of numbers has a least one. *)
LEMMA LeastIsOne ==
  ASSUME NEW S, S \subseteq Nat, S # {}
  PROVE  Min(S) \in S /\ \A n \in S : Min(S) <= n
  <1> DEFINE R == {ss \in Nat \X Nat : ss[1] < ss[2]}
  <1>1. IsWellFoundedOn(R, Nat)
    BY NatLessThanWellFounded DEF OpToRel
  <1>2. \A y, z \in S : <<y, z>> \in R <=> y < z
    OBVIOUS
  <1> HIDE DEF R
  <1>3. PICK x \in S : \A y \in S : ~(<<y, x>> \in R)
    BY <1>1, WFMin
  <1>4. ASSUME NEW y \in S PROVE x <= y
    <2>1. ~(y < x) /\ x \in Nat /\ y \in Nat
      BY <1>2, <1>3
    <2>2. QED
      BY <2>1
  <1> QED
    BY <1>4 DEF Min

(* So has a set of numbers that has a bound a greatest. *)
LEMMA GreatestIsOne ==
  ASSUME NEW S, S \subseteq Nat, S # {}, NEW bound \in Nat, \A n \in S : n <= bound
  PROVE  Max(S) \in S /\ \A n \in S : n <= Max(S)
  <1> DEFINE T == {bound - n : n \in S}
  <1>1. T \subseteq Nat /\ T # {}
    <2>1. \A n \in S : n \in Nat /\ bound - n \in Nat
      OBVIOUS
    <2>2. QED
      BY <2>1
  <1>2. Min(T) \in T /\ \A t \in T : Min(T) <= t
    <2> HIDE DEF T
    <2> QED
      BY <1>1, LeastIsOne
  <1>3. PICK x \in S : \A n \in S : bound - x <= bound - n
    BY <1>2
  <1>4. \A n \in S : x >= n
    BY <1>3
  <1>5. PICK y : y = Max(S)
    OBVIOUS
  <1>6. y \in S /\ \A n \in S : y >= n
    BY <1>4, <1>5 DEF Max
  <1>7. QED
    BY <1>5, <1>6

(* Induction up to a number, over a set. *)
LEMMA UpToAll ==
  ASSUME NEW n \in Nat, NEW S, 0 \in S, \A k \in 1..n : k - 1 \in S => k \in S
  PROVE  \A k \in 0..n : k \in S
  <1> DEFINE bad == {k \in 0..n : k \notin S}
  <1>1. bad = {}
    <2> SUFFICES ASSUME bad # {} PROVE FALSE
      OBVIOUS
    <2>1. PICK m \in bad : \A k \in bad : m <= k
      <3>1. bad \subseteq Nat
        OBVIOUS
      <3> HIDE DEF bad
      <3>2. QED
        BY <3>1, LeastIsOne
    <2>2. m \in 1..n /\ m - 1 \in 0..n /\ ~(m <= m - 1)
      <3>1. m \in 0..n /\ m # 0
        OBVIOUS
      <3>2. QED
        BY <3>1
    <2>3. m - 1 \in S
      BY <2>1, <2>2
    <2>4. QED
      BY <2>2, <2>3
  <1>2. QED
    BY <1>1

-----------------------------------------------------------------------------
(* The local servers. *)

ServicesSpec == ServicesInit /\ [][Serving]_services

ServicesTyped ==
  /\ root \in BOOLEAN
  /\ server \in [Server -> {"none", "launched", "booting", "up", "stopping", "gone"}]
  /\ pidfile \in [Server -> {"its", "stale", "none"}]
  /\ heir \in [Server -> Heirs \cup Server \cup {"nobody"}]
  /\ step \in {"idle", "located", "ended"} \cup Server
  /\ stopping \in {"idle", "both"} \cup Server
  /\ missed \subseteq Server

(* start and stop take turns, and start has its root before its servers.   *)
TakeTurns ==
  /\ step \in Server => root
  /\ stopping # "idle" => ~Starting

(* stop goes on to the next server once nothing of the last one lives, but  *)
(* what it went past.                                                       *)
StopsInOrder ==
  /\ stopping \in {"postgres", "both"} => ~Lives_("redis-server") \/ "redis-server" \in missed
  /\ stopping = "both" => ~Lives_("postgres") \/ "postgres" \in missed

(* A pid file that names its server names a live one. *)
NamesTheLiving == \A s \in Server : pidfile[s] = "its" => server[s] \in {"booting", "up", "stopping"}

ServicesInv == ServicesTyped /\ TakeTurns /\ StopsInOrder /\ NamesTheLiving /\ RunsUnderARoot

LEMMA ServicesKeep == ServicesInv /\ [Serving]_services => ServicesInv'
  <1> SUFFICES ASSUME ServicesInv, [Serving]_services PROVE ServicesInv'
    OBVIOUS
  <1> USE DEF ServicesInv, ServicesTyped, TakeTurns, StopsInOrder, NamesTheLiving, RunsUnderARoot,
    Lives_, Starting, Server
  <1>1. CASE Begin
    BY <1>1 DEF Begin
  <1>2. CASE Located
    BY <1>2 DEF Located
  <1>3. CASE CutOff
    BY <1>3 DEF CutOff
  <1>4. CASE BeginStop
    BY <1>4 DEF BeginStop
  <1>5. CASE RemoveAll
    BY <1>5 DEF RemoveAll
  <1>6. ASSUME NEW s \in Server, Launch_(s) PROVE ServicesInv'
    BY <1>6 DEF Launch_
  <1>7. ASSUME NEW s \in Server, Taken(s) PROVE ServicesInv'
    BY <1>7 DEF Taken, EndOf
  <1>8. ASSUME NEW s \in Server, Ready(s) PROVE ServicesInv'
    BY <1>8 DEF Ready
  <1>9. ASSUME NEW s \in Server, Name_(s) PROVE ServicesInv'
    BY <1>9 DEF Name_
  <1>10. ASSUME NEW s \in Server, Crash(s) PROVE ServicesInv'
    BY <1>10 DEF Crash, EndOf
  <1>11. ASSUME NEW s \in Server, Settle_(s) PROVE ServicesInv'
    BY <1>11 DEF Settle_
  <1>12. ASSUME NEW s \in Server, Inherit(s) PROVE ServicesInv'
    BY <1>12 DEF Inherit
  <1>13. ASSUME NEW s \in Server, NothingThere(s) PROVE ServicesInv'
    BY <1>13 DEF NothingThere, Runs_, Then, LeftBehind
  <1>14. ASSUME NEW s \in Server, Signal(s) PROVE ServicesInv'
    BY <1>14 DEF Signal
  <1>15. ASSUME NEW s \in Server, Strike(s) PROVE ServicesInv'
    <2>1. /\ UNCHANGED <<root, server, pidfile, step, attempt, starts>>
          /\ missed \subseteq missed' /\ missed' \subseteq Server
          /\ heir' \in [Server -> Heirs \cup Server \cup {"nobody"}]
      BY <1>15 DEF Strike, LeftBehind
    <2>2. \A one \in struck' : one[1] = one[2]
      BY <1>15 DEF Strike, Runs_
    <2>3. TakeTurns' /\ stopping' \in {"idle", "both"} \cup Server
      BY <1>15 DEF Strike, Then
    <2>4. ~Lives_(s) \/ s \in missed \/ (server[s] = "launched" /\ (stopping' = "idle" \/ s \in missed'))
      BY <1>15 DEF Strike, LeftBehind
    <2>5. StopsInOrder'
      BY <1>15, <2>1, <2>4 DEF Strike, Then
    <2>6. QED
      BY <2>1, <2>2, <2>3, <2>5
  <1>16. ASSUME NEW s \in Server, Exit(s) PROVE ServicesInv'
    BY <1>16 DEF Exit, EndOf
  <1>17. ASSUME NEW s \in Server, Waited(s) PROVE ServicesInv'
    BY <1>17 DEF Waited, Exited, Then
  <1>18. ASSUME NEW s \in Server, Throw(s) PROVE ServicesInv'
    BY <1>18 DEF Throw
  <1>19. CASE UNCHANGED services
    BY <1>19 DEF services
  <1>20. QED
    BY <1>1, <1>2, <1>3, <1>4, <1>5, <1>6, <1>7, <1>8, <1>9, <1>10, <1>11, <1>12,
       <1>13, <1>14, <1>15, <1>16, <1>17, <1>18, <1>19 DEF Serving

(* A server that runs is one that a later stop finds, however often start   *)
(* was refused, failed or was cut off: its pid file is there, or still to   *)
(* be written by a server no stop has come past.  Only one that a stop came *)
(* past before that is excepted.  And whoever inherits a pid, what a stop   *)
(* signals for a server is of that server's program.                        *)
THEOREM RunsAreFound == ServicesSpec => []RunsUnderARoot
  <1>1. ServicesInit => ServicesInv
    BY DEF ServicesInit, ServicesInv, ServicesTyped, TakeTurns, StopsInOrder, NamesTheLiving, RunsUnderARoot,
           Lives_, Starting, Server
  <1>2. ServicesInv => RunsUnderARoot
    BY DEF ServicesInv
  <1>3. QED
    BY <1>1, <1>2, ServicesKeep, PTL DEF ServicesSpec

-----------------------------------------------------------------------------
(* The probe. *)

ProbeSpec == ProbeInit /\ [][Ask_]_probe

ProbeTyped ==
  /\ member \in [Process -> {"none", "alive", "dead"}]
  /\ grouped \subseteq Process /\ holding \subseteq Process /\ said \in Nat
  /\ settled \in {"none", "collected", "overran"}
  /\ awaiting \in {"command", "race", "salvage", "nothing"}
  /\ answer \in {"none", "half a pair", "problems", "clean", "did not finish"}

(* Nobody is of a group, or has an output, before it is started; the shell  *)
(* is started once.                                                        *)
Begun ==
  /\ \A p \in grouped \cup holding : member[p] # "none"
  /\ member[Shell] # "none"

(* What was seen of the output's end stays so: who does not hold it starts  *)
(* nobody who does.                                                        *)
EndStays == settled = "collected" => Eof

(* What the gate has done by the time it answers. *)
Answered ==
  /\ answer \in {"problems", "clean", "did not finish"} => awaiting = "nothing"
  /\ answer = "clean" => settled = "collected" /\ said = 0 /\ exit = 0
  /\ awaiting = "salvage" \/ answer = "did not finish" => Group = {}

ProbeInv == ProbeTyped /\ Begun /\ EndStays /\ Answered

LEMMA SaidCounts ==
  ASSUME said \in Nat, NEW p, Say(p)
  PROVE  said' \in Nat
  BY DEF Say

LEMMA JudgedRight ==
  ASSUME said \in Nat
  PROVE  Judged_ = "problems" \/ (Judged_ = "clean" /\ said = 0 /\ exit = 0)
  BY DEF Judged_

LEMMA ProbeKeeps == ProbeInv /\ [Ask_]_probe => ProbeInv'
  <1> SUFFICES ASSUME ProbeInv, [Ask_]_probe PROVE ProbeInv'
    OBVIOUS
  <1> USE DEF ProbeInv, ProbeTyped, Begun, EndStays, Answered, Eof, Group, Alive, Lives
  <1>shell. Shell \in Process
    BY DEF Process
  <1> USE <1>shell
  <1>1. ASSUME NEW p \in Process, Leave(p) PROVE ProbeInv'
    BY <1>1 DEF Leave
  <1>2. ASSUME NEW p \in Process, CloseOutput(p) PROVE ProbeInv'
    BY <1>2 DEF CloseOutput
  <1>3. ASSUME NEW p \in Process, Say(p) PROVE ProbeInv'
    <2>1. answer # "clean"
      BY <1>3 DEF Say
    <2>2. said' \in Nat
      BY <1>3, SaidCounts
    <2>3. QED
      BY <1>3, <2>1, <2>2 DEF Say
  <1>4. ASSUME NEW p \in Process, NEW by \in Process, Start(by, p) PROVE ProbeInv'
    BY <1>4 DEF Start, Heir
  <1>5. ASSUME NEW p \in Process, NEW status \in {0, 1, SIGKILLED}, End(p, status) PROVE ProbeInv'
    <2>1. /\ member' = [member EXCEPT ![p] = "dead"] /\ member[p] = "alive"
          /\ p # Shell => exit' = exit
          /\ UNCHANGED <<grouped, holding, said, settled, awaiting, answer>>
      BY <1>5 DEF End
    <2>2. Alive' = Alive \ {p}
      BY <2>1
    <2>3. answer = "clean" => p # Shell
      BY <2>1
    <2>4. QED
      BY <2>1, <2>2, <2>3
  <1>6. CASE Refused_
    BY <1>6 DEF Refused_
  <1>7. CASE Collected
    BY <1>7 DEF Collected
  <1>8. CASE Overrun
    BY <1>8 DEF Overrun
  <1>9. CASE Finish
    <2>1. answer' = "problems" \/ (answer' = "clean" /\ said = 0 /\ exit = 0)
      BY <1>9, JudgedRight DEF Finish
    <2>2. QED
      BY <1>9, <2>1 DEF Finish
  <1>10. CASE KillGroup
    <2>1. /\ settled = "overran" /\ awaiting = "race" /\ awaiting' = "salvage"
          /\ UNCHANGED <<grouped, holding, said, settled, answer>>
          /\ member' = [p \in Process |-> IF p \in Group THEN "dead" ELSE member[p]]
      BY <1>10 DEF KillGroup
    <2>2. Group' = {}
      BY <2>1
    <2>3. ProbeTyped' /\ Begun'
      BY <2>1
    <2>4. QED
      BY <2>1, <2>2, <2>3
  <1>11. CASE Salvage
    BY <1>11 DEF Salvage, Salvaged
  <1>12. CASE UNCHANGED probe
    BY <1>12 DEF probe
  <1>13. QED
    BY <1>1, <1>2, <1>3, <1>4, <1>5, <1>6, <1>7, <1>8, <1>9, <1>10, <1>11, <1>12
       DEF Ask_, Command, Gate

(* Clean is said of a command that ended by itself, well, and said nothing; *)
(* a command that was killed has nobody left but who made a session of its  *)
(* own, whatever was started, and whenever.                                *)
THEOREM VerdictStands == ProbeSpec => []ProbeVerdictStands
  <1>1. ProbeInit => ProbeInv
    BY DEF ProbeInit, ProbeInv, ProbeTyped, Begun, EndStays, Answered, Eof, Group, Alive, Process
  <1>2. ProbeInv => ProbeVerdictStands
    BY DEF ProbeInv, Answered, EndStays, Eof, ProbeVerdictStands
  <1>3. QED
    BY <1>1, <1>2, ProbeKeeps, PTL DEF ProbeSpec
-----------------------------------------------------------------------------
(* The routes a branch has served. *)

HistorySpec == RoutesInit /\ [][History]_history

LEMMA KeyOfKey ==
  ASSUME NEW route
  PROVE  RouteKey(RouteKey(route)) = RouteKey(route)
  BY DEF RouteKey, Upper

LEMMA KeysOfKeys ==
  ASSUME NEW routes
  PROVE  Keys(Keys(routes)) = Keys(routes)
  BY KeyOfKey DEF Keys

(* A checkout without the history of its base is asked nothing by the       *)
(* lifecycle check (its comment, live.ts:108-116); the promise is over those *)
(* that have it or refuse.                                                 *)
BaseIsFound == "history" \notin Checkouts

(* What each answer was given for, which holds until the run is over.      *)
ContractHolds(seen) ==
  LET base == Based(seen)
      wasLive == base = "commit" /\ tip.lifecycle = "live"
  IN  LifecycleHolds(pushed.lifecycle, base, wasLive, hatch.retiring)

FloorHolds(seen) ==
  LET base == Based(seen)
  IN  /\ Committed(pushed)
      /\ ~Broken(base)
      /\ IF Unheld(base) THEN hatch.retire.entries = {}
         ELSE NothingWrong(hatch.retire, HeldTo(base))

Answers_ ==
  /\ contractSays = "green" => \E seen \in Checkouts : ContractHolds(seen)
  /\ floorSays = "green" => \E seen \in Checkouts : FloorHolds(seen)
  /\ pushed = NoCommit => contractSays = "none" /\ floorSays = "none"

(* A promise is made by a live commit that carries the table it serves, and *)
(* only such a one has it to keep.                                         *)
PromiseStands ==
  promised # {} =>
    /\ tip \in Commits /\ tip.lifecycle = "live" /\ Committed(tip)
    /\ promised \subseteq Answerable(tip.table)

HistoryInv == {tip, pushed} \subseteq Commits \cup {NoCommit} /\ Answers_ /\ PromiseStands

(* What a route of the tip's answered, the branch answers too, if its floor *)
(* is green: it serves that route, or one for every method of its path.    *)
LEMMA FloorKeeps ==
  ASSUME BaseIsFound, HistoryInv, NEW seen \in Checkouts, FloorHolds(seen), pushed.lifecycle = "live",
         NEW request \in promised \ Retired
  PROVE  request \in Answerable(pushed.table)
  <1>1. tip \in Commits /\ Committed(tip) /\ request \in Request /\ AnsweredBy(tip.table, request) # {}
    BY DEF HistoryInv, PromiseStands, Answerable
  <1>2. tip # NoCommit /\ tip.snapshot = Keys(tip.table) /\ tip.snapshot \notin {NoSnapshot, NotRoutes}
    BY <1>1, HistoryAssumption DEF Committed
  <1>3. Based(seen) = "commit" /\ ~Unheld(Based(seen))
    <2>1. Based(seen) # "first"
      BY <1>2, HistoryAssumption DEF Based
    <2>2. ~Unheld(Based(seen))
      BY <1>2, <2>1 DEF Unheld
    <2>3. QED
      BY <2>2 DEF FloorHolds, Broken
  <1>4. PICK route \in AnsweredBy(tip.table, request) :
            route \in Keys(tip.snapshot) /\ (route = request \/ route = CatchAll(request.path))
    BY <1>1, <1>2, KeysOfKeys DEF AnsweredBy
  <1>5. ServesAll(Keys(pushed.table), route)
    <2>1. HeldTo(Based(seen)).unmet = {}
      BY <1>3 DEF FloorHolds, NothingWrong
    <2>2. route \notin RoutesIn(hatch.retire)
      BY DEF Retired
    <2> DEFINE carried == Keys(tip.snapshot)
               kept == {k \in carried : ServesAll(Keys(pushed.table), k)}
               stand == {entry \in hatch.retire.entries : entry # Malformed /\ RouteKey(entry) \in carried \ kept}
    <2>3. carried \ (kept \cup Keys(stand)) = {}
      BY <2>1 DEF HeldTo, WaivedBy
    <2>4. Keys(stand) \subseteq RoutesIn(hatch.retire)
      BY DEF Keys, RoutesIn
    <2>5. route \in kept
      BY <1>4, <2>2, <2>3, <2>4
    <2>6. QED
      BY <2>5
  <1>6. route.path = request.path
    BY <1>1, <1>4 DEF CatchAll, RouteOf, Request
  <1>7. AnsweredBy(pushed.table, request) # {}
    BY <1>4, <1>5, <1>6 DEF ServesAll, AnsweredBy
  <1>8. QED
    BY <1>1, <1>7 DEF Answerable

(* A field that goes down from live either frees the promise, by name, or   *)
(* is refused.                                                             *)
LEMMA ContractKeeps ==
  ASSUME BaseIsFound, HistoryInv, NEW seen \in Checkouts, ContractHolds(seen),
         pushed.lifecycle # "live", ~hatch.retiring
  PROVE  promised = {}
  <1>1. SUFFICES ASSUME promised # {} PROVE FALSE
    OBVIOUS
  <1>2. tip # NoCommit /\ tip.lifecycle = "live"
    BY <1>1, HistoryAssumption DEF HistoryInv, PromiseStands
  <1>3. seen \in {"found", "ref"}
    BY HistoryAssumption DEF BaseIsFound
  <1>4. QED
    BY <1>2, <1>3 DEF ContractHolds, LifecycleHolds, Based

LEMMA HistoryKeeps == BaseIsFound /\ HistoryInv /\ [History]_history => HistoryInv'
  <1> SUFFICES ASSUME BaseIsFound, HistoryInv, [History]_history PROVE HistoryInv'
    OBVIOUS
  <1> USE DEF HistoryInv
  <1>1. ASSUME NEW commit \in Commits, NEW inputs \in Hatches, Push(commit, inputs) PROVE HistoryInv'
    BY <1>1, HistoryAssumption DEF Push, Answers_, PromiseStands, Committed
  <1>2. ASSUME NEW seen \in Checkouts, Contract(seen) PROVE HistoryInv'
    <2>1. contractSays' = "green" => ContractHolds(seen)'
      BY <1>2 DEF Contract, VerdictOf, ContractHolds, Based
    <2>2. ASSUME NEW s \in Checkouts PROVE FloorHolds(s)' = FloorHolds(s)
      BY <1>2 DEF Contract, FloorHolds, Based, Committed, Broken, Unheld, HeldTo
    <2>3. Answers_'
      BY <1>2, <2>1, <2>2 DEF Contract, Answers_
    <2>4. QED
      BY <1>2, <2>3 DEF Contract, PromiseStands, Committed
  <1>3. ASSUME NEW seen \in Checkouts, Compatible(seen) PROVE HistoryInv'
    <2>1. floorSays' = "green" => FloorHolds(seen)'
      BY <1>3 DEF Compatible, VerdictOf, FloorHolds, Based, Committed, Broken, Unheld, HeldTo
    <2>2. ASSUME NEW s \in Checkouts PROVE ContractHolds(s)' = ContractHolds(s)
      BY <1>3 DEF Compatible, ContractHolds, Based
    <2>3. Answers_'
      BY <1>3, <2>1, <2>2 DEF Compatible, Answers_
    <2>4. QED
      BY <1>3, <2>3 DEF Compatible, PromiseStands, Committed
  <1>4. CASE Land
    <2>1. PICK c \in Checkouts : ContractHolds(c)
      BY <1>4 DEF Land, BothGreen, Answers_
    <2>2. PICK f \in Checkouts : FloorHolds(f)
      BY <1>4 DEF Land, BothGreen, Answers_
    <2>3. tip' = pushed /\ pushed \in Commits /\ promised' = PromiseOf(pushed)
      BY <1>4 DEF Land, BothIn, Verdicts, Answers_
    <2>4. CASE pushed.lifecycle = "live"
      <3>1. promised' = (promised \ Retired) \cup Answerable(pushed.table)
        BY <2>3, <2>4 DEF PromiseOf
      <3>2. promised' \subseteq Answerable(pushed.table)
        BY <2>2, <2>4, <3>1, FloorKeeps
      <3>3. Committed(pushed)
        BY <2>2 DEF FloorHolds
      <3>4. PromiseStands'
        BY <2>3, <2>4, <3>2, <3>3 DEF PromiseStands, Committed
      <3>5. QED
        BY <1>4, <2>3, <3>4 DEF Land, Cleared, Answers_
    <2>5. CASE pushed.lifecycle # "live"
      <3>1. promised' = {}
        BY <2>1, <2>3, <2>5, ContractKeeps DEF PromiseOf
      <3>2. QED
        BY <1>4, <2>3, <3>1 DEF Land, Cleared, Answers_, PromiseStands
    <2>6. QED
      BY <2>4, <2>5
  <1>5. CASE LandAnyway
    BY <1>5 DEF LandAnyway, Cleared, BothIn, Answers_, Verdicts, PromiseStands
  <1>6. CASE TurnBack
    BY <1>6 DEF TurnBack, Cleared, Answers_, PromiseStands, Committed
  <1>7. CASE UNCHANGED history
    <2>1. \A s \in Checkouts : FloorHolds(s)' = FloorHolds(s) /\ ContractHolds(s)' = ContractHolds(s)
      BY <1>7 DEF history, FloorHolds, ContractHolds, Based, Committed, Broken, Unheld, HeldTo
    <2>2. QED
      BY <1>7, <2>1 DEF history, Answers_, PromiseStands, Committed
  <1>8. QED
    BY <1>1, <1>2, <1>3, <1>4, <1>5, <1>6, <1>7 DEF History

(* Along any history of green runs, whatever tables and snapshots are       *)
(* pushed: each request answered since the repository went live is answered *)
(* still, unless its route was retired by name, or the repository was.      *)
THEOREM RoutesStay == ASSUME BaseIsFound PROVE HistorySpec => []RoutesOutlive
  <1>1. RoutesInit => HistoryInv
    BY DEF RoutesInit, HistoryInv, Answers_, PromiseStands
  <1>2. HistoryInv /\ [History]_history => HistoryInv'
    BY HistoryKeeps
  <1>3. HistoryInv => RoutesOutlive
    BY DEF HistoryInv, PromiseStands, RoutesOutlive
  <1>4. QED
    BY <1>1, <1>2, <1>3, PTL DEF HistorySpec

-----------------------------------------------------------------------------
(* The nightly's issue. *)

NightsSpec == NightsInit /\ [][FileNights]_nights

Issue == [open : BOOLEAN, tells : SUBSET Night]

NightsTyped ==
  /\ issues \in Seq(Issue)
  /\ filing \in [Night -> {"check", "searched", "closing", "done", "failed"}]
  /\ matching \in [Night -> SUBSET (DOMAIN issues)]
  /\ \A n \in Midway : Red(n) \/ Green(n)

(* Under whom nobody else has written: what is open is what the search of  *)
(* n answered and n has not yet dealt with, and the one that tells of n.   *)
SearchStands(n) ==
  /\ filing[n] = "searched" => matching[n] = OpenIssues
  /\ filing[n] = "closing" /\ Green(n) => matching[n] = OpenIssues
  /\ filing[n] = "closing" /\ Red(n) =>
       \E i \in OpenIssues : n \in issues[i].tells /\ matching[n] = OpenIssues \ {i}

NightsInv == NightsTyped /\ \A n \in Night \ crossed : SearchStands(n)

(* What a write, and what a new one, leaves of the issues. *)
LEMMA WritesIssues ==
  ASSUME NEW all \in Seq(Issue), NEW i \in DOMAIN all, NEW n \in Night
  PROVE  /\ [all EXCEPT ![i].tells = @ \cup {n}] \in Seq(Issue)
         /\ [all EXCEPT ![i].open = FALSE] \in Seq(Issue)
  <1>1. all \in [1 .. Len(all) -> Issue] /\ Len(all) \in Nat
    OBVIOUS
  <1>2. [all EXCEPT ![i].tells = @ \cup {n}] \in [1 .. Len(all) -> Issue]
    BY <1>1 DEF Issue
  <1>3. [all EXCEPT ![i].open = FALSE] \in [1 .. Len(all) -> Issue]
    BY <1>1 DEF Issue
  <1>4. QED
    BY <1>1, <1>2, <1>3

LEMMA FilesIssue ==
  ASSUME NEW all \in Seq(Issue), NEW issue \in Issue
  PROVE  /\ Append(all, issue) \in Seq(Issue)
         /\ DOMAIN Append(all, issue) = DOMAIN all \cup {Len(all) + 1}
         /\ \A j \in DOMAIN all : Append(all, issue)[j] = all[j]
         /\ Append(all, issue)[Len(all) + 1] = issue
  OBVIOUS

LEMMA NightsKeep == NightsInv /\ [FileNights]_nights => NightsInv'
  <1> SUFFICES ASSUME NightsInv, [FileNights]_nights PROVE NightsInv'
    OBVIOUS
  <1> USE DEF NightsInv, NightsTyped
  <1>1. ASSUME NEW n \in Night, SaysNothing(n) PROVE NightsInv'
    BY <1>1 DEF SaysNothing, Move_, Midway, Red, Green, OpenIssues, SearchStands
  <1>2. ASSUME NEW n \in Night, Search(n) PROVE NightsInv'
    BY <1>2 DEF Search, Move_, Midway, Red, Green, OpenIssues, SearchStands
  <1>3. ASSUME NEW n \in Night, Unanswered(n) PROVE NightsInv'
    BY <1>3 DEF Unanswered, Move_, Midway, Red, Green, OpenIssues, SearchStands
  <1>4. ASSUME NEW n \in Night, FileIssue(n) PROVE NightsInv'
    <2>1. issues' \in Seq(Issue) /\ DOMAIN issues \subseteq DOMAIN issues'
      <3>1. [open |-> TRUE, tells |-> {n}] \in Issue
        BY DEF Issue
      <3>2. QED
        BY <1>4, <3>1, FilesIssue DEF FileIssue
    <2>2. \A m \in Night \ crossed' : filing'[m] \notin {"searched", "closing"}
      BY <1>4 DEF FileIssue, Move_, Writes_, Midway
    <2>3. QED
      BY <1>4, <2>1, <2>2 DEF FileIssue, Move_, Writes_, Midway, Red, Green, SearchStands
  <1>5. ASSUME NEW n \in Night, CommentOldest(n) PROVE NightsInv'
    <2> DEFINE oldest == Min(matching[n])
    <2>1. oldest \in matching[n] /\ oldest \in DOMAIN issues
      BY <1>5, LeastIsOne DEF CommentOldest
    <2> HIDE DEF oldest
    <2>2. /\ issues' = [issues EXCEPT ![oldest].tells = @ \cup {n}]
          /\ matching' = [matching EXCEPT ![n] = @ \ {oldest}]
          /\ result' = result /\ filing' = [filing EXCEPT ![n] = "closing"]
          /\ crossed' = crossed \cup (Midway \ {n})
          /\ filing[n] = "searched" /\ Red(n)
      BY <1>5 DEF CommentOldest, Move_, Writes_, oldest
    <2>3. issues' \in Seq(Issue) /\ DOMAIN issues' = DOMAIN issues
      BY <2>1, <2>2, WritesIssues
    <2>4. NightsTyped'
      BY <2>2, <2>3 DEF Midway, Red, Green
    <2>5. ASSUME NEW m \in Night \ crossed' PROVE SearchStands(m)'
      <3>1. CASE m # n
        BY <2>2, <2>5, <3>1 DEF Midway, SearchStands
      <3>2. CASE m = n
        <4>1. OpenIssues' = OpenIssues /\ oldest \in OpenIssues' /\ n \in issues'[oldest].tells
          <5>1. OpenIssues' = OpenIssues /\ n \in issues'[oldest].tells
            BY <2>1, <2>2, <2>3 DEF OpenIssues, Issue
          <5>2. matching[n] = OpenIssues
            BY <2>2, <2>5, <3>2 DEF SearchStands
          <5>3. QED
            BY <2>1, <5>1, <5>2
        <4>2. matching'[n] = OpenIssues' \ {oldest}
          BY <2>2, <2>5, <3>2, <4>1 DEF SearchStands
        <4>3. QED
          BY <2>2, <3>2, <4>1, <4>2 DEF SearchStands, Red, Green
      <3>3. QED
        BY <3>1, <3>2
    <2>6. QED
      BY <2>4, <2>5
  <1>6. ASSUME NEW n \in Night, CloseNext(n) PROVE NightsInv'
    <2> DEFINE next == Min(matching[n])
    <2>1. next \in matching[n] /\ next \in DOMAIN issues
      BY <1>6, LeastIsOne DEF CloseNext
    <2> HIDE DEF next
    <2>2. /\ issues' = [issues EXCEPT ![next].open = FALSE]
          /\ matching' = [matching EXCEPT ![n] = @ \ {next}]
          /\ result' = result /\ filing' = [filing EXCEPT ![n] = "closing"]
          /\ crossed' = crossed \cup (Midway \ {n})
          /\ Closes(n)
      BY <1>6 DEF CloseNext, Move_, Writes_, next
    <2>3. issues' \in Seq(Issue) /\ DOMAIN issues' = DOMAIN issues
      BY <2>1, <2>2, WritesIssues
    <2>4. NightsTyped'
      BY <2>2, <2>3 DEF Midway, Red, Green, Closes
    <2>5. ASSUME NEW m \in Night \ crossed' PROVE SearchStands(m)'
      <3>1. CASE m # n
        BY <2>2, <2>5, <3>1 DEF Midway, SearchStands
      <3>2. CASE m = n
        <4>1. OpenIssues' = OpenIssues \ {next}
              /\ \A i \in DOMAIN issues : issues'[i].tells = issues[i].tells
          BY <2>1, <2>2, <2>3 DEF OpenIssues, Issue
        <4>2. CASE Green(n)
          BY <2>2, <2>5, <3>2, <4>1, <4>2 DEF SearchStands, Red, Green, Closes
        <4>3. CASE Red(n)
          <5>1. PICK i \in OpenIssues : n \in issues[i].tells /\ matching[n] = OpenIssues \ {i}
            BY <2>2, <2>5, <3>2, <4>3 DEF SearchStands, Red, Green, Closes
          <5>2. i \in OpenIssues' /\ n \in issues'[i].tells /\ matching'[n] = OpenIssues' \ {i}
            BY <2>1, <2>2, <4>1, <5>1 DEF OpenIssues
          <5>3. QED
            BY <2>2, <3>2, <4>3, <5>2 DEF SearchStands, Red, Green
        <4>4. QED
          BY <2>2, <3>2, <4>2, <4>3 DEF Closes, Midway
      <3>3. QED
        BY <3>1, <3>2
    <2>6. QED
      BY <2>4, <2>5
  <1>7. ASSUME NEW n \in Night, Filed(n) PROVE NightsInv'
    BY <1>7 DEF Filed, Move_, Midway, Red, Green, OpenIssues, SearchStands
  <1>8. ASSUME NEW n \in Night, CutShort(n) PROVE NightsInv'
    BY <1>8 DEF CutShort, Move_, Midway, Red, Green, OpenIssues, SearchStands
  <1>9. CASE UNCHANGED nights
    BY <1>9 DEF nights, Midway, Red, Green, OpenIssues, SearchStands
  <1>10. QED
    BY <1>1, <1>2, <1>3, <1>4, <1>5, <1>6, <1>7, <1>8, <1>9 DEF FileNights

(* The step a run ends well by, for OneIssueTells. *)
LEMMA EndsOnOne ==
  ASSUME NightsInv, [FileNights]_nights, NEW n \in Night \ crossed,
         filing[n] # "done", filing'[n] = "done"
  PROVE  /\ Red(n) => \E i \in DOMAIN issues' :
                        /\ n \in issues'[i].tells
                        /\ \A j \in DOMAIN issues' : issues'[j].open <=> j = i
         /\ Green(n) => \A j \in DOMAIN issues' : ~issues'[j].open
  <1> USE DEF NightsInv, NightsTyped
  <1>1. SaysNothing(n) \/ FileIssue(n) \/ Filed(n)
    BY DEF FileNights, nights, SaysNothing, Search, Unanswered, FileIssue, CommentOldest, CloseNext, Filed,
       CutShort, Move_
  <1>2. CASE SaysNothing(n)
    BY <1>2 DEF SaysNothing
  <1>3. CASE FileIssue(n)
    <2> DEFINE issue == [open |-> TRUE, tells |-> {n}]
               i == Len(issues) + 1
    <2>1. issue \in Issue
      BY DEF Issue
    <2>2. issues' = Append(issues, issue)
      BY <1>3 DEF FileIssue
    <2>3. /\ DOMAIN issues' = DOMAIN issues \cup {i}
          /\ \A j \in DOMAIN issues : issues'[j] = issues[j]
          /\ issues'[i] = issue
      BY <2>1, <2>2, FilesIssue
    <2>4. OpenIssues = {} /\ Red(n) /\ ~Green(n)
      BY <1>3 DEF FileIssue, SearchStands, Red, Green
    <2>5. n \in issue.tells /\ issue.open
      OBVIOUS
    <2> HIDE DEF i, issue
    <2>6. QED
      BY <2>3, <2>4, <2>5 DEF OpenIssues
  <1>4. CASE Filed(n)
    BY <1>4 DEF Filed, Closes, SearchStands, Red, Green, OpenIssues
  <1>5. QED
    BY <1>1, <1>2, <1>3, <1>4

(* However many runs of however many nights overlap, fail or are cut off:  *)
(* the one that ends well, and under which no other wrote, leaves exactly  *)
(* the one issue that tells of it, or none if it was green.                *)
THEOREM NightsLeaveOne == NightsSpec => OneIssueTells
  <1>1. NightsInit => NightsInv
    BY DEF NightsInit, NightsInv, NightsTyped, SearchStands, Midway, OpenIssues, Issue
  <1>2. NightsInv /\ [FileNights]_nights =>
          [\A n \in Night \ crossed : filing[n] # "done" /\ filing'[n] = "done" =>
             /\ Red(n) => \E i \in DOMAIN issues' :
                            /\ n \in issues'[i].tells
                            /\ \A j \in DOMAIN issues' : issues'[j].open <=> j = i
             /\ Green(n) => \A j \in DOMAIN issues' : ~issues'[j].open]_nights
    BY EndsOnOne
  <1>3. QED
    BY <1>1, <1>2, NightsKeep, PTL DEF NightsSpec, OneIssueTells

-----------------------------------------------------------------------------
(* The golden net. *)

NetSpec == NetInit /\ [][Net]_net

Name == {f[c] : f \in Namings, c \in Case}
Ledger == [is : {"running", "reported", "died"}, at : Nat, ran : SUBSET Name, failed : BOOLEAN]

NetTyped ==
  /\ cases \in Lists /\ nameOf \in Namings /\ app \in [Case -> Behaviour] /\ normal \in Normalisers
  /\ shards \in [DOMAIN shards -> Ledger]
  /\ goldens \in [DOMAIN goldens -> Behaviour \cup {Torn}]
  /\ campaign \in {"none", "assert", "rebaseline"}

Matrixed ==
  /\ campaign = "assert" => DOMAIN shards \in Matrices
  /\ campaign = "rebaseline" => DOMAIN shards = {Whole}
  /\ campaign = "none" => shards = <<>>

Walked(s) == {n \in Chosen(s) : n <= shards[s].at}
Pinned(n) == NameAt(n) \in DOMAIN goldens /\ goldens[NameAt(n)] # Torn
  /\ normal[goldens[NameAt(n)]] = Text_(n)

(* What a shard has run is what it has walked, and what it has walked       *)
(* without a fault is pinned, if no two cases share a golden.               *)
WalksItsSlice ==
  \A s \in DOMAIN shards :
    /\ shards[s].ran = {NameAt(n) : n \in Walked(s)} \ {Unusable}
    /\ ~shards[s].failed => \A n \in Walked(s) : NameAt(n) # Unusable
    /\ ~shards[s].failed /\ shards[s].is # "died" /\ ~Clashes(s) => \A n \in Walked(s) : Pinned(n)

ReportsAll ==
  \A s \in DOMAIN shards : shards[s].is = "reported" /\ ~shards[s].failed =>
    ~Mistyped(s) /\ ~Clashes(s) /\ Walked(s) = Chosen(s)

NetInv == NetTyped /\ Matrixed /\ WalksItsSlice /\ ReportsAll

LEMMA NetListed ==
  ASSUME NetTyped
  PROVE  /\ DOMAIN cases \subseteq Nat /\ \A n \in DOMAIN cases : n >= 1
         /\ \A n \in DOMAIN cases : cases[n] \in Case /\ NameAt(n) \in Name /\ Text_(n) \in Behaviour
                                    /\ normal[Text_(n)] = Text_(n)
  <1>1. cases \in Seq(Case)
    BY NetAssumption DEF NetTyped
  <1>2. normal \in [Behaviour -> Behaviour] /\ \A b \in Behaviour : normal[normal[b]] = normal[b]
    BY NetAssumption DEF NetTyped
  <1>3. \A n \in DOMAIN cases : cases[n] \in Case /\ n \in Nat /\ n >= 1
    BY <1>1
  <1>4. \A n \in DOMAIN cases : NameAt(n) \in Name
    BY <1>3 DEF NetTyped, NameAt, Name
  <1>5. \A n \in DOMAIN cases : Text_(n) \in Behaviour /\ normal[Text_(n)] = Text_(n)
    BY <1>2, <1>3 DEF NetTyped, Text_
  <1> QED
    BY <1>3, <1>4, <1>5

(* The next of a slice is the first it has not walked. *)
LEMMA NextIsNext ==
  ASSUME NetTyped, NEW s, Ahead(s) # {}, shards[s].at \in Nat
  PROVE  /\ Next_(s) \in Chosen(s) /\ Next_(s) \in Nat /\ Next_(s) > shards[s].at
         /\ \A n \in Chosen(s) : n <= Next_(s) <=> n = Next_(s) \/ n <= shards[s].at
  <1>1. Ahead(s) \subseteq Nat
    BY NetListed DEF Ahead, Chosen
  <1>2. Next_(s) \in Ahead(s) /\ \A n \in Ahead(s) : Next_(s) <= n
    BY <1>1, LeastIsOne DEF Next_
  <1>3. Next_(s) \in Chosen(s) /\ Next_(s) \in Nat /\ Next_(s) > shards[s].at
    BY <1>1, <1>2 DEF Ahead
  <1>4. ASSUME NEW n \in Chosen(s) PROVE n <= Next_(s) <=> n = Next_(s) \/ n <= shards[s].at
    <2>1. n \in Nat
      BY NetListed DEF Chosen
    <2>2. n > shards[s].at => n \in Ahead(s)
      BY DEF Ahead
    <2>3. QED
      BY <1>2, <1>3, <2>1, <2>2
  <1> QED
    BY <1>3, <1>4

(* A step over the next case: what it has to show of that case alone. *)
LEMMA AdvanceKeeps ==
  ASSUME NetInv, NEW s \in DOMAIN shards, shards[s].is = "running", Ahead(s) # {},
         NEW m, m = Next_(s), NEW wrong \in BOOLEAN, Advance(s, m, wrong),
         UNCHANGED <<repository, campaign>>,
         goldens' \in [DOMAIN goldens' -> Behaviour \cup {Torn}],
         ~wrong => NameAt(m) # Unusable,
         ~wrong /\ ~Clashes(s) => Pinned(m)',
         \A n \in DOMAIN cases : n # m /\ Pinned(n) /\ ~Clashes(s) => Pinned(n)',
         \A t \in DOMAIN shards : t # s => goldens' = goldens
  PROVE  NetInv'
  <1> USE DEF NetInv
  <1>0. shards[s] \in Ledger
    BY DEF NetTyped
  <1>1. /\ m \in Chosen(s) /\ m \in Nat /\ m > shards[s].at
        /\ \A n \in Chosen(s) : n <= m <=> n = m \/ n <= shards[s].at
    BY <1>0, NextIsNext DEF Ledger
  <1> DEFINE ledger == [shards[s] EXCEPT !.at = m, !.failed = @ \/ wrong,
                                         !.ran = IF NameAt(m) = Unusable THEN @ ELSE @ \cup {NameAt(m)}]
  <1>2. shards' = [shards EXCEPT ![s] = ledger]
    BY <1>0 DEF Advance, Ledger, NetTyped
  <1>3. /\ ledger \in Ledger
        /\ ledger.is = "running" /\ ledger.at = m /\ (ledger.failed <=> shards[s].failed \/ wrong)
        /\ ledger.ran = IF NameAt(m) = Unusable THEN shards[s].ran ELSE shards[s].ran \cup {NameAt(m)}
    BY <1>0, <1>1, NetListed DEF Ledger, Chosen
  <1> HIDE DEF ledger
  <1>4. DOMAIN shards' = DOMAIN shards /\ shards'[s] = ledger /\ \A t \in DOMAIN shards : t # s =>
          shards'[t] = shards[t]
    BY <1>2 DEF NetTyped
  <1>5. NetTyped'
    BY <1>2, <1>3 DEF NetTyped, repository
  <1>6. Matrixed'
    <2>1. DOMAIN shards # {}
      OBVIOUS
    <2>2. campaign # "none"
      BY <2>1 DEF Matrixed
    <2>3. QED
      BY <1>4, <2>2 DEF Matrixed
  <1>7. \A t : Chosen(t)' = Chosen(t) /\ (Clashes(t)' <=> Clashes(t)) /\ \A n : NameAt(n)' = NameAt(n)
        /\ Text_(n)' = Text_(n)
    BY DEF Chosen, Clashes, NameAt, Text_, repository
  <1>8. ASSUME NEW t \in DOMAIN shards, t # s
        PROVE  Walked(t)' = Walked(t) /\ \A n : Pinned(n)' <=> Pinned(n)
    <2>1. Walked(t)' = Walked(t)
      BY <1>4, <1>7, <1>8 DEF Walked
    <2>2. goldens' = goldens /\ normal' = normal
      BY <1>8 DEF repository
    <2>3. \A n : Pinned(n)' <=> Pinned(n)
      BY <1>7, <2>2 DEF Pinned
    <2>4. QED
      BY <2>1, <2>3
  <1>9. Walked(s)' = Walked(s) \cup {m}
    BY <1>1, <1>3, <1>4, <1>7 DEF Walked
  <1>10. WalksItsSlice'
    <2>1. ASSUME NEW t \in DOMAIN shards, t # s
          PROVE  /\ shards'[t].ran = {NameAt(n)' : n \in Walked(t)'} \ {Unusable}
                 /\ ~shards'[t].failed => \A n \in Walked(t)' : NameAt(n)' # Unusable
                 /\ ~shards'[t].failed /\ shards'[t].is # "died" /\ ~Clashes(t)' =>
                      \A n \in Walked(t)' : Pinned(n)'
      BY <1>4, <1>7, <1>8, <2>1 DEF WalksItsSlice
    <2>2. /\ shards[s].ran = {NameAt(n) : n \in Walked(s)} \ {Unusable}
          /\ ~shards[s].failed => \A n \in Walked(s) : NameAt(n) # Unusable
          /\ ~shards[s].failed /\ ~Clashes(s) => \A n \in Walked(s) : Pinned(n)
      BY DEF WalksItsSlice
    <2>3. shards'[s].ran = {NameAt(n)' : n \in Walked(s)'} \ {Unusable}
      BY <1>3, <1>4, <1>7, <1>9, <2>2
    <2>4. ~shards'[s].failed => \A n \in Walked(s)' : NameAt(n)' # Unusable
      BY <1>3, <1>4, <1>7, <1>9, <2>2
    <2>5. ~shards'[s].failed /\ ~Clashes(s)' => \A n \in Walked(s)' : Pinned(n)'
      <3>1. SUFFICES ASSUME ~shards[s].failed, ~wrong, ~Clashes(s), NEW n \in Walked(s) \cup {m}
                     PROVE  Pinned(n)'
        BY <1>3, <1>4, <1>7, <1>9
      <3>2. CASE n = m
        BY <3>1, <3>2
      <3>3. CASE n # m
        <4>1. n \in Walked(s) /\ Pinned(n) /\ n \in DOMAIN cases
          BY <2>2, <3>1, <3>3 DEF Walked, Chosen
        <4>2. QED
          BY <3>1, <3>3, <4>1
      <3>4. QED
        BY <3>2, <3>3
    <2>6. QED
      BY <1>4, <2>1, <2>3, <2>4, <2>5 DEF WalksItsSlice
  <1>11. ReportsAll'
    <2>1. \A t \in DOMAIN shards : Mistyped(t)' <=> Mistyped(t)
      BY DEF Mistyped
    <2>2. QED
      BY <1>3, <1>4, <1>7, <1>8, <2>1 DEF ReportsAll
  <1> QED
    BY <1>5, <1>6, <1>10, <1>11

LEMMA NetStarts == NetInit => NetInv
  <1> SUFFICES ASSUME NetInit PROVE NetInv
    OBVIOUS
  <1>1. shards = <<>> /\ goldens = <<>> /\ DOMAIN shards = {} /\ DOMAIN goldens = {}
    BY DEF NetInit
  <1>2. NetTyped
    BY <1>1 DEF NetInit, NetTyped
  <1>3. Matrixed /\ WalksItsSlice /\ ReportsAll
    BY <1>1 DEF NetInit, Matrixed, WalksItsSlice, ReportsAll
  <1> QED
    BY <1>2, <1>3 DEF NetInv

LEMMA SkipKeeps == ASSUME NetInv, NEW s \in Shard, SkipUnusable(s) PROVE NetInv'
  <1> USE DEF NetInv
  <1>1. PICK m : m = Next_(s)
    OBVIOUS
  <1>2. /\ s \in DOMAIN shards /\ shards[s].is = "running" /\ Ahead(s) # {} /\ Advance(s, m, TRUE)
        /\ UNCHANGED <<repository, campaign, goldens>>
    BY <1>1 DEF SkipUnusable, Running
  <1>3. \A n : Pinned(n)' <=> Pinned(n)
    BY <1>2 DEF Pinned, NameAt, Text_, repository
  <1>4. goldens' \in [DOMAIN goldens' -> Behaviour \cup {Torn}]
    BY <1>2 DEF NetTyped
  <1> QED
    BY <1>1, <1>2, <1>3, <1>4, AdvanceKeeps

LEMMA CompareKeeps == ASSUME NetInv, NEW s \in Shard, CompareCase(s) PROVE NetInv'
  <1> USE DEF NetInv
  <1>1. PICK m : m = Next_(s)
    OBVIOUS
  <1> DEFINE differs == NameAt(m) \notin DOMAIN goldens \/ ~Agrees(NameAt(m), m)
  <1>2. /\ s \in DOMAIN shards /\ shards[s].is = "running" /\ Ahead(s) # {} /\ NameAt(m) # Unusable
        /\ Advance(s, m, differs) /\ UNCHANGED <<repository, campaign, goldens>>
    BY <1>1 DEF CompareCase, Walking, Running
  <1>3. \A n : Pinned(n)' <=> Pinned(n)
    BY <1>2 DEF Pinned, NameAt, Text_, repository
  <1>4. goldens' \in [DOMAIN goldens' -> Behaviour \cup {Torn}]
    BY <1>2 DEF NetTyped
  <1>5. shards[s].at \in Nat
    BY <1>2 DEF NetTyped, Ledger
  <1>6. m \in DOMAIN cases
    BY <1>1, <1>2, <1>5, NextIsNext DEF Chosen
  <1>7. ~differs => Pinned(m)
    <2>1. Text_(m) # Torn
      BY <1>6, NetListed, NetAssumption
    <2>2. QED
      BY <2>1 DEF Agrees, ReNormalized, Pinned
  <1>8. differs \in BOOLEAN
    OBVIOUS
  <1> HIDE DEF differs
  <1> QED
    BY <1>1, <1>2, <1>3, <1>4, <1>7, <1>8, AdvanceKeeps

(* What is recorded of a case agrees with it, and no other's golden moves. *)
LEMMA RecordKeeps == ASSUME NetInv, RecordCase PROVE NetInv'
  <1> USE DEF NetInv
  <1>1. PICK m : m = Next_(Whole)
    OBVIOUS
  <1>2. /\ Whole \in DOMAIN shards /\ shards[Whole].is = "running" /\ Ahead(Whole) # {}
           /\ NameAt(m) # Unusable
        /\ campaign = "rebaseline" /\ UNCHANGED <<repository, campaign>>
    BY <1>1 DEF RecordCase, Walking, Running
  <1>3. DOMAIN shards = {Whole}
    BY <1>2 DEF Matrixed
  <1>4. shards[Whole].at \in Nat
    BY <1>2 DEF NetTyped, Ledger
  <1>5. m \in DOMAIN cases
    BY <1>1, <1>2, <1>4, NextIsNext DEF Chosen
  <1>6. Text_(m) \in Behaviour /\ Text_(m) # Torn /\ normal[Text_(m)] = Text_(m)
    BY <1>5, NetListed, NetAssumption
  <1>7. /\ nameOf' = nameOf /\ normal' = normal /\ cases' = cases /\ app' = app
    BY <1>2 DEF repository
  <1>8. CASE Standing(NameAt(m), m) /\ UNCHANGED goldens /\ Advance(Whole, m, FALSE)
    <2>1. \A n : Pinned(n)' <=> Pinned(n)
      BY <1>7, <1>8 DEF Pinned, NameAt, Text_
    <2>2. Pinned(m)
      BY <1>6, <1>8 DEF Pinned, Standing, Agrees, ReNormalized
    <2>3. goldens' \in [DOMAIN goldens' -> Behaviour \cup {Torn}]
      BY <1>8 DEF NetTyped
    <2>4. QED
      BY <1>1, <1>2, <1>3, <1>8, <2>1, <2>2, <2>3, AdvanceKeeps
  <1>9. CASE UNCHANGED goldens /\ Advance(Whole, m, TRUE)
    <2>1. \A n : Pinned(n)' <=> Pinned(n)
      BY <1>7, <1>9 DEF Pinned, NameAt, Text_
    <2>2. goldens' \in [DOMAIN goldens' -> Behaviour \cup {Torn}]
      BY <1>9 DEF NetTyped
    <2>3. QED
      BY <1>1, <1>2, <1>3, <1>9, <2>1, <2>2, AdvanceKeeps
  <1>10. CASE goldens' = Record(NameAt(m), m) /\ Advance(Whole, m, FALSE)
    <2>1. /\ DOMAIN goldens' = DOMAIN goldens \cup {NameAt(m)} /\ goldens'[NameAt(m)] = Text_(m)
          /\ \A g \in DOMAIN goldens : g # NameAt(m) => goldens'[g] = goldens[g]
      BY <1>10 DEF Record
    <2>2. goldens' \in [DOMAIN goldens' -> Behaviour \cup {Torn}]
      BY <1>6, <1>10 DEF Record, NetTyped
    <2>3. Pinned(m)'
      BY <1>6, <1>7, <2>1 DEF Pinned, NameAt, Text_
    <2>4. ASSUME NEW n \in DOMAIN cases, n # m, Pinned(n), ~Clashes(Whole) PROVE Pinned(n)'
      <3>1. NameAt(n) # NameAt(m)
        BY <1>5, <2>4 DEF Clashes
      <3>2. QED
        BY <1>7, <2>1, <2>4, <3>1 DEF Pinned, NameAt, Text_
    <2>5. QED
      BY <1>1, <1>2, <1>3, <1>10, <2>2, <2>3, <2>4, AdvanceKeeps
  <1> QED
    BY <1>1, <1>8, <1>9, <1>10 DEF RecordCase

(* A shard that ends: the cases and what each shard has walked stay. *)
LEMMA EndKeeps ==
  ASSUME NetInv, NEW s \in DOMAIN shards, NEW e \in Ledger, shards' = [shards EXCEPT ![s] = e],
         e.at = shards[s].at, e.ran = shards[s].ran, shards[s].failed => e.failed,
         e.is = "died" \/ (goldens' = goldens /\ shards[s].is = "running"),
         \A t \in DOMAIN shards : t # s => goldens' = goldens,
         e.is = "reported" /\ ~e.failed => ~Mistyped(s) /\ ~Clashes(s) /\ Walked(s) = Chosen(s),
         UNCHANGED <<repository, campaign>>,
         goldens' \in [DOMAIN goldens' -> Behaviour \cup {Torn}]
  PROVE  NetInv'
  <1> USE DEF NetInv
  <1>1. /\ DOMAIN shards' = DOMAIN shards /\ shards'[s] = e
        /\ \A t \in DOMAIN shards : t # s => shards'[t] = shards[t]
    BY DEF NetTyped
  <1>2. NetTyped'
    BY DEF NetTyped, repository
  <1>3. Matrixed'
    <2>1. campaign # "none"
      BY DEF Matrixed
    <2>2. QED
      BY <1>1, <2>1 DEF Matrixed
  <1>4. \A t : Chosen(t)' = Chosen(t) /\ (Clashes(t)' <=> Clashes(t)) /\ \A n : NameAt(n)' = NameAt(n)
        /\ Text_(n)' = Text_(n)
    BY DEF Chosen, Clashes, NameAt, Text_, repository
  <1>5. \A t \in DOMAIN shards : Walked(t)' = Walked(t)
    BY <1>1, <1>4 DEF Walked
  <1>6. goldens' = goldens => \A n : Pinned(n)' <=> Pinned(n)
    BY <1>4 DEF Pinned, repository
  <1>7. WalksItsSlice'
    <2>1. ASSUME NEW t \in DOMAIN shards, t # s
          PROVE  /\ shards'[t].ran = {NameAt(n)' : n \in Walked(t)'} \ {Unusable}
                 /\ ~shards'[t].failed => \A n \in Walked(t)' : NameAt(n)' # Unusable
                 /\ ~shards'[t].failed /\ shards'[t].is # "died" /\ ~Clashes(t)' =>
                      \A n \in Walked(t)' : Pinned(n)'
      BY <1>1, <1>4, <1>5, <1>6, <2>1 DEF WalksItsSlice
    <2>2. /\ shards'[s].ran = {NameAt(n)' : n \in Walked(s)'} \ {Unusable}
          /\ ~shards'[s].failed => \A n \in Walked(s)' : NameAt(n)' # Unusable
      BY <1>1, <1>4, <1>5 DEF WalksItsSlice
    <2>3. ~shards'[s].failed /\ shards'[s].is # "died" /\ ~Clashes(s)' =>
            \A n \in Walked(s)' : Pinned(n)'
      BY <1>1, <1>4, <1>5, <1>6 DEF WalksItsSlice
    <2>4. QED
      BY <1>1, <2>1, <2>2, <2>3 DEF WalksItsSlice
  <1>8. ReportsAll'
    <2>1. \A t : Mistyped(t)' <=> Mistyped(t)
      BY DEF Mistyped
    <2>2. QED
      BY <1>1, <1>4, <1>5, <2>1 DEF ReportsAll
  <1> QED
    BY <1>2, <1>3, <1>7, <1>8

LEMMA ReportKeeps == ASSUME NetInv, NEW s \in Shard, Report(s) PROVE NetInv'
  <1> USE DEF NetInv
  <1> DEFINE failed == shards[s].failed \/ Mistyped(s) \/ Clashes(s) \/ (s = Whole /\ Unclaimed(shards[s].ran) # {})
             e == [shards[s] EXCEPT !.is = "reported", !.failed = failed]
  <1>1. /\ s \in DOMAIN shards /\ shards[s].is = "running" /\ (Mistyped(s) \/ Ahead(s) = {})
        /\ UNCHANGED <<repository, goldens, campaign>>
    BY DEF Report, Running
  <1>2. shards[s] \in Ledger
    BY <1>1 DEF NetTyped
  <1>3. shards' = [shards EXCEPT ![s] = e]
    BY <1>1, <1>2 DEF Report, Ledger, NetTyped
  <1>4. failed \in BOOLEAN
    BY <1>2 DEF Ledger
  <1> HIDE DEF failed
  <1>5. /\ e \in Ledger /\ e.is = "reported" /\ e.failed = failed /\ e.at = shards[s].at
           /\ e.ran = shards[s].ran
    BY <1>2, <1>4 DEF Ledger
  <1>6. ~failed => ~shards[s].failed /\ ~Mistyped(s) /\ ~Clashes(s)
    BY DEF failed
  <1>7. ~failed => Walked(s) = Chosen(s)
    <2>1. SUFFICES ASSUME Ahead(s) = {} PROVE Walked(s) = Chosen(s)
      BY <1>1, <1>6
    <2>2. ASSUME NEW n \in Chosen(s) PROVE n <= shards[s].at
      <3>1. n \in Nat /\ shards[s].at \in Nat
        BY <1>2, NetListed DEF Chosen, Ledger
      <3>2. ~(n > shards[s].at)
        BY <2>1 DEF Ahead
      <3>3. QED
        BY <3>1, <3>2
    <2>3. QED
      BY <2>2 DEF Walked
  <1>8. goldens' \in [DOMAIN goldens' -> Behaviour \cup {Torn}]
    BY <1>1 DEF NetTyped
  <1> HIDE DEF e
  <1> QED
    BY <1>1, <1>3, <1>5, <1>6, <1>7, <1>8, EndKeeps

LEMMA DieKeeps == ASSUME NetInv, NEW s \in Shard, Die(s) PROVE NetInv'
  <1> USE DEF NetInv
  <1> DEFINE e == [shards[s] EXCEPT !.is = "died"]
  <1>1. s \in DOMAIN shards /\ shards[s].is = "running" /\ UNCHANGED <<repository, campaign>>
    BY DEF Die, Running
  <1>2. shards[s] \in Ledger
    BY <1>1 DEF NetTyped
  <1>3. shards' = [shards EXCEPT ![s] = e]
    BY <1>1, <1>2 DEF Die, Ledger, NetTyped
  <1>4. e \in Ledger /\ e.is = "died" /\ e.failed = shards[s].failed /\ e.at = shards[s].at
        /\ e.ran = shards[s].ran
    BY <1>2 DEF Ledger
  <1>5. goldens' \in [DOMAIN goldens' -> Behaviour \cup {Torn}]
    BY DEF Die, NetTyped
  <1>6. \A t \in DOMAIN shards : t # s => goldens' = goldens
    <2>1. CASE UNCHANGED goldens
      BY <2>1
    <2>2. CASE campaign = "rebaseline"
      BY <1>1, <2>2 DEF Matrixed
    <2>3. QED
      BY <2>1, <2>2 DEF Die, Walking
  <1> HIDE DEF e
  <1> QED
    BY <1>1, <1>3, <1>4, <1>5, <1>6, EndKeeps

(* A run begins with nothing walked, and an edit ends what was said. *)
LEMMA BeginKeeps ==
  ASSUME NetInv, NEW matrix, shards' = [s \in matrix |-> Fresh], UNCHANGED <<repository, goldens>>,
         \/ campaign' = "assert" /\ matrix \in Matrices
         \/ campaign' = "rebaseline" /\ matrix = {Whole}
  PROVE  NetInv'
  <1> USE DEF NetInv
  <1>1. DOMAIN shards' = matrix /\ \A s \in matrix : shards'[s] = Fresh
    OBVIOUS
  <1>2. Fresh \in Ledger /\ Fresh.is = "running" /\ Fresh.at = 0 /\ Fresh.ran = {}
    BY DEF Fresh, Ledger
  <1>3. NetTyped'
    BY <1>1, <1>2 DEF NetTyped, repository
  <1>4. Matrixed'
    BY <1>1 DEF Matrixed
  <1>5. WalksItsSlice'
    <2>1. \A n \in DOMAIN cases' : n \in Nat /\ n >= 1
      BY NetListed DEF repository
    <2>2. \A s \in matrix : Walked(s)' = {}
      BY <1>1, <1>2, <2>1 DEF Walked, Chosen
    <2>3. QED
      BY <1>1, <1>2, <2>2 DEF WalksItsSlice
  <1>6. ReportsAll'
    BY <1>1, <1>2 DEF ReportsAll
  <1> QED
    BY <1>3, <1>4, <1>5, <1>6

LEMMA EditKeeps == ASSUME NetInv, Edit PROVE NetInv'
  <1> USE DEF NetInv
  <1>1. campaign' = "none" /\ shards' = <<>> /\ DOMAIN shards' = {} /\ goldens' = goldens
    BY DEF Edit
  <1>2. NetTyped'
    <2>1. cases' \in Lists /\ nameOf' \in Namings /\ app' \in [Case -> Behaviour]
          /\ normal' \in Normalisers
      BY DEF Edit, NetTyped
    <2>2. QED
      BY <1>1, <2>1 DEF NetTyped
  <1>3. Matrixed' /\ WalksItsSlice' /\ ReportsAll'
    BY <1>1 DEF Matrixed, WalksItsSlice, ReportsAll
  <1> QED
    BY <1>2, <1>3

LEMMA NetKeeps == NetInv /\ [Net]_net => NetInv'
  <1> SUFFICES ASSUME NetInv, [Net]_net PROVE NetInv'
    OBVIOUS
  <1>1. CASE \E matrix \in Matrices : AssertNet(matrix)
    BY <1>1, BeginKeeps DEF AssertNet
  <1>2. CASE \E blessing \in BOOLEAN : RebaselineNet(blessing)
    BY <1>2, BeginKeeps DEF RebaselineNet
  <1>3. CASE \E s \in Shard : SkipUnusable(s) \/ CompareCase(s) \/ Report(s) \/ Die(s)
    BY <1>3, SkipKeeps, CompareKeeps, ReportKeeps, DieKeeps
  <1>4. CASE RecordCase \/ Edit
    BY <1>4, RecordKeeps, EditKeeps
  <1>5. CASE UNCHANGED net
    <2>1. UNCHANGED <<cases, nameOf, app, normal, goldens, campaign, shards>>
      BY <1>5 DEF net
    <2>2. NetTyped' /\ Matrixed'
      BY <2>1 DEF NetInv, NetTyped, Matrixed
    <2>3. \A s : Walked(s)' = Walked(s) /\ Chosen(s)' = Chosen(s) /\ (Clashes(s)' <=> Clashes(s))
      BY <2>1 DEF Walked, Chosen, Clashes, NameAt
    <2>4. \A n : NameAt(n)' = NameAt(n) /\ (Pinned(n)' <=> Pinned(n))
      BY <2>1 DEF NameAt, Pinned, Text_
    <2>5. \A s : Mistyped(s)' <=> Mistyped(s)
      BY DEF Mistyped
    <2>6. WalksItsSlice' /\ ReportsAll'
      BY <2>1, <2>3, <2>4, <2>5 DEF NetInv, WalksItsSlice, ReportsAll
    <2>7. QED
      BY <2>2, <2>6 DEF NetInv
  <1> QED
    BY <1>1, <1>2, <1>3, <1>4, <1>5 DEF Net

(* A shard of the run has each case, if none was refused for its number. *)
LEMMA EachIsOwned ==
  ASSUME NEW matrix \in Matrices, \A s \in matrix : ~Mistyped(s), NEW n \in Nat, n >= 1
  PROVE  \E s \in matrix : Owns(s, n)
  <1>1. CASE Whole \in matrix
    BY <1>1 DEF Owns
  <1>2. CASE Whole \notin matrix
    <2>1. PICK s \in matrix : TRUE
      BY NetAssumption
    <2>2. s.count \in Int /\ s.index \in Int /\ ~(s.count < 1)
      BY <1>2, NetAssumption DEF Mistyped
    <2>3. \A t \in matrix : \A i \in 0..(t.count - 1) : [index |-> i, count |-> t.count] \in matrix
      <3>1. \A t \in matrix : ~(t.count < 1 \/ t.index < 0 \/ t.index >= t.count)
        BY <1>2 DEF Mistyped
      <3>2. QED
        BY <1>2, <3>1, NetAssumption
    <2>4. PICK i : i = (n - 1) % s.count
      OBVIOUS
    <2>5. i \in 0..(s.count - 1)
      BY <2>2, <2>4
    <2>6. PICK t : t = [index |-> i, count |-> s.count]
      OBVIOUS
    <2>7. t \in matrix /\ t.count = s.count /\ t.index = i
      BY <2>3, <2>5, <2>6
    <2>8. t # Whole /\ t.count > 0 /\ (n - 1) % t.count = t.index
      BY <1>2, <2>2, <2>4, <2>7
    <2>9. QED
      BY <2>7, <2>8 DEF Owns
  <1> QED
    BY <1>1, <1>2

LEMMA GreenPins == NetInv => GreenIsPinned
  <1> SUFFICES ASSUME NetInv, Green_
               PROVE  /\ \A m, n \in DOMAIN cases : NameAt(m) = NameAt(n) => m = n
                      /\ \A n \in DOMAIN cases : Pinned(n)
                      /\ DOMAIN goldens = {NameAt(n) : n \in DOMAIN cases}
    BY DEF GreenIsPinned, Pinned
  <1> USE DEF NetInv
  <1>1. \A s \in DOMAIN shards : shards[s].is = "reported" /\ ~shards[s].failed
    BY DEF Green_
  <1>2. \A s \in DOMAIN shards : ~Mistyped(s) /\ ~Clashes(s) /\ Walked(s) = Chosen(s)
    BY <1>1 DEF ReportsAll
  <1>3. DOMAIN shards = {Whole} \/ DOMAIN shards \in Matrices
    BY DEF Matrixed, Green_, NetTyped
  <1>4. PICK t \in DOMAIN shards : TRUE
    BY <1>3, NetAssumption
  <1>5. \A m, n \in DOMAIN cases : NameAt(m) = NameAt(n) => m = n
    BY <1>2, <1>4 DEF Clashes
  <1>6. ASSUME NEW n \in DOMAIN cases PROVE \E s \in DOMAIN shards : n \in Chosen(s)
    <2>1. n \in Nat /\ n >= 1
      BY NetListed
    <2>2. \E s \in DOMAIN shards : Owns(s, n)
      BY <1>2, <1>3, <2>1, EachIsOwned DEF Owns
    <2>3. QED
      BY <2>2 DEF Chosen
  <1>7. \A n \in DOMAIN cases : Pinned(n)
    BY <1>1, <1>2, <1>6 DEF WalksItsSlice
  <1>8. \A s \in DOMAIN shards : shards[s].ran \subseteq {NameAt(n) : n \in DOMAIN cases}
    BY <1>2 DEF WalksItsSlice, Chosen
  <1>9. DOMAIN goldens \subseteq UNION {shards[s].ran : s \in DOMAIN shards}
    BY DEF Green_, Unclaimed
  <1>10. DOMAIN goldens = {NameAt(n) : n \in DOMAIN cases}
    BY <1>7, <1>8, <1>9 DEF Pinned
  <1> QED
    BY <1>5, <1>7, <1>10

(* A green answer of the net, whole or in shards, asserted or recorded,     *)
(* after any edits and deaths, means every case has a golden of its own     *)
(* that says what it does, and no golden is besides (the file's head).      *)
THEOREM GreenPinned == NetSpec => []GreenIsPinned
  <1> QED
    BY NetStarts, NetKeeps, GreenPins, PTL DEF NetSpec

-----------------------------------------------------------------------------
(* The ramp over the routes. *)

(* What Hits sums, one route of the log after another. *)
Some(s) == CHOOSE x \in s : TRUE
Summed(log, S, sum) == [s \in SUBSET S |-> IF s = {} THEN 0 ELSE log[Some(s)] + sum[s \ {Some(s)}]]
Upto(S, n) == {s \in SUBSET S : Cardinality(s) <= n}
Partial(log, S, n, sum) ==
  sum = [s \in Upto(S, n) |-> IF s = {} THEN 0 ELSE log[Some(s)] + sum[s \ {Some(s)}]]

LEMMA SomeIsOne ==
  ASSUME NEW S, IsFiniteSet(S), NEW s \in SUBSET S, s # {}
  PROVE  /\ Some(s) \in S /\ Some(s) \in s
         /\ s \ {Some(s)} \in SUBSET S
         /\ Cardinality(s) \in Nat /\ Cardinality(s \ {Some(s)}) \in Nat
         /\ Cardinality(s \ {Some(s)}) = Cardinality(s) - 1
  <1>1. IsFiniteSet(s)
    BY FS_Subset
  <1>2. Some(s) \in s
    BY DEF Some
  <1>3. IsFiniteSet(s \ {Some(s)}) /\ Cardinality(s \ {Some(s)}) = Cardinality(s) - 1
    BY <1>1, <1>2, FS_RemoveElement
  <1>4. QED
    BY <1>1, <1>2, <1>3, FS_CardinalityType

LEMMA SumExists ==
  ASSUME NEW log, NEW S, IsFiniteSet(S)
  PROVE  \E sum : sum = Summed(log, S, sum)
  <1> DEFINE bad == {n \in Nat : ~\E sum : Partial(log, S, n, sum)}
  <1>1. bad = {}
    <2> SUFFICES ASSUME bad # {} PROVE FALSE
      OBVIOUS
    <2> DEFINE m == Min(bad)
    <2>1. m \in bad /\ \A n \in bad : m <= n
      <3>1. bad \subseteq Nat
        OBVIOUS
      <3> HIDE DEF bad
      <3>2. QED
        BY <3>1, LeastIsOne
    <2> HIDE DEF m
    <2>2. CASE m = 0
      <3> DEFINE none == [s \in Upto(S, 0) |-> 0]
      <3>1. ASSUME NEW s \in Upto(S, 0) PROVE s = {}
        <4>1. s \in SUBSET S /\ Cardinality(s) <= 0
          BY DEF Upto
        <4>2. IsFiniteSet(s)
          BY <4>1, FS_Subset
        <4>3. Cardinality(s) \in Nat
          BY <4>2, FS_CardinalityType
        <4>4. Cardinality(s) = 0
          BY <4>1, <4>3
        <4>5. QED
          BY <4>2, <4>4, FS_EmptySet
      <3>2. none = [s \in Upto(S, 0) |-> IF s = {} THEN 0 ELSE log[Some(s)] + none[s \ {Some(s)}]]
        BY <3>1
      <3>3. Partial(log, S, 0, none)
        BY <3>2 DEF Partial
      <3>4. QED
        BY <2>1, <2>2, <3>3
    <2>3. CASE m # 0
      <3>1. m \in Nat /\ m - 1 \in Nat
        BY <2>1, <2>3
      <3>2. m - 1 \notin bad
        BY <2>1, <3>1
      <3>3. PICK sum : Partial(log, S, m - 1, sum)
        BY <3>1, <3>2
      <3> DEFINE more == [s \in Upto(S, m) |-> IF s = {} THEN 0 ELSE log[Some(s)] + sum[s \ {Some(s)}]]
      <3>4. ASSUME NEW s \in Upto(S, m), s # {}
            PROVE  sum[s \ {Some(s)}] = more[s \ {Some(s)}]
        <4> DEFINE t == s \ {Some(s)}
        <4>1. s \in SUBSET S /\ Cardinality(s) <= m
          BY DEF Upto
        <4>2. t \in SUBSET S /\ Cardinality(t) <= m - 1 /\ Cardinality(t) <= m
          BY <3>1, <3>4, <4>1, SomeIsOne
        <4>3. t \in Upto(S, m - 1) /\ t \in Upto(S, m)
          BY <4>2 DEF Upto
        <4> HIDE DEF t
        <4>4. sum[t] = IF t = {} THEN 0 ELSE log[Some(t)] + sum[t \ {Some(t)}]
          BY <3>3, <4>3 DEF Partial
        <4>5. more[t] = IF t = {} THEN 0 ELSE log[Some(t)] + sum[t \ {Some(t)}]
          BY <4>3
        <4>6. sum[t] = more[t]
          BY <4>4, <4>5
        <4>7. QED
          BY <4>6 DEF t
      <3>5. \A s \in Upto(S, m) :
              (IF s = {} THEN 0 ELSE log[Some(s)] + sum[s \ {Some(s)}])
                = (IF s = {} THEN 0 ELSE log[Some(s)] + more[s \ {Some(s)}])
        <4> HIDE DEF more
        <4> QED
          BY <3>4
      <3>6. more = [s \in Upto(S, m) |-> IF s = {} THEN 0 ELSE log[Some(s)] + more[s \ {Some(s)}]]
        <4> DEFINE again == [s \in Upto(S, m) |-> IF s = {} THEN 0 ELSE log[Some(s)] + more[s \ {Some(s)}]]
        <4>1. \A s \in Upto(S, m) : more[s] = again[s]
          <5>1. \A s \in Upto(S, m) : more[s] = IF s = {} THEN 0 ELSE log[Some(s)] + sum[s \ {Some(s)}]
            OBVIOUS
          <5> HIDE DEF more
          <5>2. QED
            BY <3>5, <5>1
        <4>2. more = [s \in Upto(S, m) |-> more[s]]
          OBVIOUS
        <4> HIDE DEF more
        <4>3. QED
          BY <4>1, <4>2
      <3> HIDE DEF more
      <3>7. Partial(log, S, m, more)
        BY <3>6 DEF Partial
      <3>8. QED
        BY <2>1, <3>7
    <2>4. QED
      BY <2>2, <2>3
  <1>2. Cardinality(S) \in Nat
    BY FS_CardinalityType
  <1>3. PICK sum : Partial(log, S, Cardinality(S), sum)
    BY <1>1, <1>2
  <1>4. Upto(S, Cardinality(S)) = SUBSET S
    BY FS_Subset DEF Upto
  <1>5. sum = Summed(log, S, sum)
    BY <1>3, <1>4 DEF Partial, Summed
  <1>6. QED
    BY <1>5

(* Counts none of which is larger have no larger sum. *)
LEMMA SumsAreOrdered ==
  ASSUME NEW S, IsFiniteSet(S), NEW log, NEW other,
         \A x \in S : log[x] \in Nat /\ other[x] \in Nat /\ log[x] <= other[x],
         NEW sum, sum = Summed(log, S, sum), NEW total, total = Summed(other, S, total)
  PROVE  sum[S] \in Nat /\ total[S] \in Nat /\ sum[S] <= total[S]
  <1> DEFINE Fine(s) == sum[s] \in Nat /\ total[s] \in Nat /\ sum[s] <= total[s]
             bad == {s \in SUBSET S : ~Fine(s)}
             sizes == {Cardinality(s) : s \in bad}
  <1>1. bad = {}
    <2> SUFFICES ASSUME bad # {} PROVE FALSE
      OBVIOUS
    <2>1. sizes \subseteq Nat /\ sizes # {}
      <3>1. \A s \in SUBSET S : Cardinality(s) \in Nat
        BY FS_Subset, FS_CardinalityType
      <3>2. bad \subseteq SUBSET S
        OBVIOUS
      <3> HIDE DEF bad
      <3>3. QED
        BY <3>1, <3>2
    <2>2. PICK s \in bad : \A t \in bad : Cardinality(s) <= Cardinality(t)
      <3> HIDE DEF bad
      <3>1. Min(sizes) \in sizes /\ \A n \in sizes : Min(sizes) <= n
        <4> HIDE DEF sizes
        <4> QED
          BY <2>1, LeastIsOne
      <3>2. QED
        BY <3>1
    <2>3. s \in SUBSET S /\ ~Fine(s)
      OBVIOUS
    <2>4. CASE s = {}
      <3>1. sum[s] = 0 /\ total[s] = 0
        BY <2>3, <2>4 DEF Summed
      <3>2. QED
        BY <2>3, <3>1
    <2>5. CASE s # {}
      <3> DEFINE x == Some(s)
                 t == s \ {x}
      <3>1. x \in S /\ t \in SUBSET S /\ Cardinality(s) \in Nat /\ Cardinality(t) = Cardinality(s) - 1
        BY <2>3, <2>5, SomeIsOne
      <3>2. sum[s] = log[x] + sum[t] /\ total[s] = other[x] + total[t]
        BY <2>3, <2>5 DEF Summed
      <3>3. t \notin bad
        <4> HIDE DEF x, t, bad
        <4>1. ~(Cardinality(s) <= Cardinality(t))
          BY <3>1
        <4>2. QED
          BY <2>2, <4>1
      <3>4. sum[t] \in Nat /\ total[t] \in Nat /\ sum[t] <= total[t]
        BY <3>1, <3>3
      <3>5. log[x] \in Nat /\ other[x] \in Nat /\ log[x] <= other[x]
        BY <3>1
      <3> HIDE DEF x, t
      <3>6. QED
        BY <2>3, <3>2, <3>4, <3>5
    <2>6. QED
      BY <2>4, <2>5
  <1>2. QED
    BY <1>1

(* What a route has taken is no more, where nothing it is credited with is. *)
LEMMA HitsAreOrdered ==
  ASSUME NEW route, IsFiniteSet(Credited(route)), NEW log, NEW other,
         \A x \in Credited(route) : log[x] \in Nat /\ other[x] \in Nat /\ log[x] <= other[x]
  PROVE  Hits(log, route) \in Nat /\ Hits(other, route) \in Nat
         /\ Hits(log, route) <= Hits(other, route)
  <1> DEFINE S == Credited(route)
             sum == CHOOSE g : g = Summed(log, S, g)
             total == CHOOSE g : g = Summed(other, S, g)
  <1>1. Hits(log, route) = sum[S] /\ Hits(other, route) = total[S]
    BY DEF Hits, FoldFunctionOnSet, MapThenFoldSet, Summed, Some
  <1> HIDE DEF S
  <1>2. IsFiniteSet(S) /\ \A x \in S : log[x] \in Nat /\ other[x] \in Nat /\ log[x] <= other[x]
    BY DEF S
  <1>3. sum = Summed(log, S, sum) /\ total = Summed(other, S, total)
    BY <1>2, SumExists
  <1> HIDE DEF sum, total
  <1>4. QED
    BY <1>1, <1>2, <1>3, SumsAreOrdered

RampSpec == RampInit /\ [][RampJob]_ramp

RampTyped ==
  /\ declared \in Tables
  /\ counts \in [Request -> Nat] /\ before \in [Request -> Nat] /\ after \in [Request -> Nat]
  /\ turn \in Nat /\ questions \in [DOMAIN declared -> Nat]

(* What a log has more of than the fetch before the ramp, the ramp asked.   *)
RampsOwn(log) ==
  \A request \in Request : log[request] > before[request] =>
      AnsweredBy(Declared, request) \subseteq ramped

ReachedOrExcused(route) ==
  \/ route \in ramped
  \/ \E entry \in waivers.entries \ (waivers.unreasoned \cup {Malformed}) : RouteKey(entry) = route

(* Up to the one that was asked last each has been asked once more.         *)
InTurn == \E n \in Nat : \A i \in Fuzzed : questions[i] = IF i <= turn THEN n + 1 ELSE n

RampInv ==
  /\ RampTyped
  /\ doing = "ramp" => RampsOwn(counts)
  /\ doing = "coverage" => RampsOwn(after)
  /\ doing \in {"fuzz", "green"} => \A route \in Keys(Declared) : ReachedOrExcused(route)
  /\ InTurn

LEMMA DeclaredAre ==
  ASSUME RampTyped
  PROVE  /\ DOMAIN declared \subseteq Nat
         /\ \A route \in Keys(Declared) : route \in Request \/ \E path \in Path : route = CatchAll(path)
  <1>1. declared \in Seq(Registered)
    BY RampAssumption DEF RampTyped
  <1>2. DOMAIN declared = 1..Len(declared) /\ Len(declared) \in Nat
    BY <1>1
  <1>3. ASSUME NEW i \in DOMAIN declared
        PROVE  RouteKey(declared[i]) \in Request \/ \E path \in Path : RouteKey(declared[i]) = CatchAll(path)
    <2>1. declared[i] \in Registered
      BY <1>1, <1>2
    <2>2. PICK method \in Methods \cup {"get", EveryMethod},
          path \in Path : declared[i] = [method |-> method, path |-> path]
      BY <2>1 DEF Registered
    <2>3. RouteKey(declared[i]) = [method |-> Upper(method), path |-> path]
      BY <2>2 DEF RouteKey
    <2>4. CASE method = EveryMethod
      BY <2>3, <2>4 DEF CatchAll, RouteOf, Upper, EveryMethod
    <2>5. CASE method # EveryMethod
      BY <2>2, <2>3, <2>5 DEF Upper, Methods, Request, EveryMethod
    <2>6. QED
      BY <2>4, <2>5
  <1>4. QED
    BY <1>2, <1>3 DEF Keys, Declared

(* A request a route is credited with, if anybody answers it, it answers.   *)
LEMMA CreditedAnswers ==
  ASSUME RampTyped, NEW route \in Keys(Declared)
  PROVE  /\ IsFiniteSet(Credited(route)) /\ Credited(route) \subseteq Request
         /\ \A request \in Credited(route) : route \in AnsweredBy(Declared, request)
  <1>1. IsFiniteSet(Request)
    <2> DEFINE S == Methods \X Path
               asked == [pair \in S |-> [method |-> pair[1], path |-> pair[2]]]
    <2>1. IsFiniteSet(Methods)
      <3>1. IsFiniteSet({"GET"})
        BY FS_Singleton
      <3>2. IsFiniteSet({"GET"} \cup {"POST"})
        BY <3>1, FS_AddElement
      <3>3. {"GET"} \cup {"POST"} = Methods
        BY DEF Methods
      <3>4. QED
        BY <3>2, <3>3
    <2>2. IsFiniteSet(S)
      BY <2>1, RampAssumption, FS_Product
    <2>3. Request = {asked[pair] : pair \in S}
      <3>1. \A pair \in S : asked[pair] \in Request
        BY DEF Request
      <3>2. ASSUME NEW request \in Request PROVE \E pair \in S : request = asked[pair]
        <4>1. PICK method \in Methods, path \in Path : request = [method |-> method, path |-> path]
          BY DEF Request
        <4>2. <<method, path>> \in S /\ asked[<<method, path>>] = request
          BY <4>1
        <4>3. QED
          BY <4>2
      <3> HIDE DEF asked
      <3>3. QED
        BY <3>1, <3>2
    <2>4. asked \in Surjection(S, Request)
      <3>1. asked \in [S -> Request]
        BY DEF Request
      <3>2. \A request \in Request : \E pair \in S : asked[pair] = request
        <4> HIDE DEF asked
        <4> QED
          BY <2>3
      <3> HIDE DEF asked, S
      <3>3. QED
        BY <3>1, <3>2 DEF Surjection
    <2> HIDE DEF asked, S
    <2>5. QED
      BY <2>2, <2>4, FS_Surjection
  <1>2. CASE route.method = EveryMethod
    <2>1. Credited(route) \subseteq Request
      BY <1>2 DEF Credited
    <2>2. PICK path \in Path : route = CatchAll(path)
      BY <1>2, DeclaredAre DEF Request, Methods, EveryMethod
    <2>3. ASSUME NEW request \in Credited(route) PROVE route \in AnsweredBy(Declared, request)
      <3>1. request \in Request /\ request.path = route.path
            /\ request.method \notin Siblings(route.path)
        BY <1>2 DEF Credited
      <3>2. request.method \in Methods /\ request = RouteOf(request.method, route.path)
        BY <3>1 DEF Request, RouteOf
      <3>3. request \notin Keys(Declared)
        BY <3>1, <3>2 DEF Siblings
      <3>4. route = CatchAll(request.path)
        BY <2>2, <3>1 DEF CatchAll, RouteOf
      <3>5. QED
        BY <3>3, <3>4 DEF AnsweredBy
    <2>4. QED
      BY <1>1, <2>1, <2>3, FS_Subset
  <1>3. CASE route.method # EveryMethod
    <2>1. route \in Request
      BY <1>3, DeclaredAre DEF CatchAll, RouteOf
    <2>2. Credited(route) = {route}
      BY <1>3 DEF Credited
    <2>3. AnsweredBy(Declared, route) = {route}
      BY DEF AnsweredBy
    <2>4. QED
      BY <2>1, <2>2, <2>3, FS_Singleton
  <1>4. QED
    BY <1>2, <1>3

(* A route that has taken more since has taken one of the ramp's own.       *)
LEMMA ExercisedIsRamped ==
  ASSUME RampTyped, RampsOwn(after), NEW route \in Exercised
  PROVE  route \in ramped
  <1>1. route \in Keys(Declared) /\ Hits(after, route) > Hits(before, route)
    BY DEF Exercised
  <1>2. PICK request \in Credited(route) : after[request] > before[request]
    <2> SUFFICES ASSUME \A request \in Credited(route) : ~(after[request] > before[request]) PROVE FALSE
      OBVIOUS
    <2>1. \A request \in Credited(route) :
            after[request] \in Nat /\ before[request] \in Nat /\ after[request] <= before[request]
      <3>1. ASSUME NEW request \in Credited(route) PROVE after[request] \in Nat
                   /\ before[request] \in Nat
        BY <1>1, CreditedAnswers DEF RampTyped
      <3>2. QED
        BY <3>1
    <2>2. /\ Hits(after, route) \in Nat /\ Hits(before, route) \in Nat
          /\ Hits(after, route) <= Hits(before, route)
      BY <1>1, <2>1, CreditedAnswers, HitsAreOrdered
    <2>3. QED
      BY <1>1, <2>2
  <1>3. QED
    BY <1>1, <1>2, CreditedAnswers DEF RampsOwn

LEMMA CoverageExcuses ==
  ASSUME RampInv, Coverage, doing' = "fuzz", NEW route \in Keys(Declared)
  PROVE  ReachedOrExcused(route)
  <1>1. doing = "coverage" /\ NothingWrong(waivers, WaivedBy(waivers, Keys(Declared), Exercised))
    BY DEF Coverage
  <1>2. waivers.unreasoned = {} /\ WaivedBy(waivers, Keys(Declared), Exercised).unmet = {}
    BY <1>1 DEF NothingWrong
  <1>3. route \in Exercised \/ route \in Keys({entry \in waivers.entries :
                              entry # Malformed /\ RouteKey(entry) \in Keys(Declared) \ Exercised})
    BY <1>2 DEF WaivedBy
  <1>4. CASE route \in Exercised
    BY <1>1, <1>4, ExercisedIsRamped DEF RampInv, ReachedOrExcused
  <1>5. CASE \E entry \in waivers.entries : entry # Malformed /\ RouteKey(entry) = route
    BY <1>2, <1>5 DEF ReachedOrExcused
  <1>6. QED
    BY <1>3, <1>4, <1>5 DEF Keys

LEMMA CountsGoOn ==
  ASSUME RampTyped, NEW request \in Request, Handle(request)
  PROVE  /\ counts' \in [Request -> Nat]
         /\ \A other \in Request :
              counts'[other] > counts[other] => other = request
  <1>1. counts' = counts \/ counts' = [counts EXCEPT ![request] = @ + 1]
    BY DEF Handle
  <1>2. counts \in [Request -> Nat]
    BY DEF RampTyped
  <1>3. CASE counts' = counts
    BY <1>2, <1>3
  <1>4. CASE counts' = [counts EXCEPT ![request] = @ + 1]
    BY <1>2, <1>4
  <1>5. QED
    BY <1>1, <1>3, <1>4

(* Round robin: whose turn comes next is one of those asked least.          *)
LEMMA TurnsGoOn ==
  ASSUME RampTyped, InTurn, Fuzz
  PROVE  turn' \in Nat /\ questions' \in [DOMAIN declared -> Nat] /\ InTurn'
  <1>1. Fuzzed \subseteq DOMAIN declared /\ DOMAIN declared \subseteq Nat /\ Fuzzed # {}
    BY DeclaredAre DEF Fuzzed, Fuzz
  <1>2. Fuzzed' = Fuzzed
    BY DEF Fuzz, Fuzzed, fixed
  <1>3. turn' = NextTurn(turn) /\ questions' = [questions EXCEPT ![turn'] = @ + 1]
    BY DEF Fuzz
  <1>4. turn \in Nat /\ questions \in [DOMAIN declared -> Nat]
    BY DEF RampTyped
  <1>5. PICK n \in Nat : \A i \in Fuzzed : questions[i] = IF i <= turn THEN n + 1 ELSE n
    BY DEF InTurn
  <1>6. CASE After(turn) = {}
    <2>1. turn' \in Fuzzed /\ \A i \in Fuzzed : turn' <= i
      BY <1>1, <1>3, <1>6, LeastIsOne DEF NextTurn
    <2>2. \A i \in Fuzzed : questions[i] = n + 1
      BY <1>1, <1>4, <1>5, <1>6 DEF After
    <2>3. questions' \in [DOMAIN declared -> Nat] /\ turn' \in Nat
      BY <1>1, <1>3, <1>4, <2>1
    <2>4. \A i \in Fuzzed : questions'[i] = IF i <= turn' THEN (n + 1) + 1 ELSE n + 1
      BY <1>1, <1>3, <1>4, <2>1, <2>2
    <2>5. n + 1 \in Nat
      OBVIOUS
    <2>6. QED
      BY <1>2, <2>3, <2>4, <2>5 DEF InTurn
  <1>7. CASE After(turn) # {}
    <2>1. After(turn) \subseteq Nat
      BY <1>1 DEF After
    <2>2. turn' \in After(turn) /\ \A i \in After(turn) : turn' <= i
      BY <1>3, <1>7, <2>1, LeastIsOne DEF NextTurn
    <2>3. turn' \in Fuzzed /\ turn' > turn /\ \A i \in Fuzzed : i > turn => turn' <= i
      BY <2>2 DEF After
    <2>4. questions' \in [DOMAIN declared -> Nat] /\ turn' \in Nat
      BY <1>1, <1>3, <1>4, <2>3
    <2>5. \A i \in Fuzzed : questions'[i] = IF i <= turn' THEN n + 1 ELSE n
      BY <1>1, <1>3, <1>4, <1>5, <2>3
    <2>6. QED
      BY <1>2, <2>4, <2>5 DEF InTurn
  <1>8. QED
    BY <1>6, <1>7

LEMMA RampInvInit == RampInit => RampInv
  <1> SUFFICES ASSUME RampInit PROVE RampInv
    OBVIOUS
  <1>1. RampTyped
    BY DEF RampInit, RampTyped, Zeroes
  <1>2. InTurn
    <2>1. \A i \in Fuzzed : questions[i] = IF i <= turn THEN 0 + 1 ELSE 0
      <3>1. Fuzzed \subseteq DOMAIN declared /\ DOMAIN declared \subseteq Nat
            /\ 0 \notin DOMAIN declared
        <4>1. declared \in Seq(Registered)
          BY <1>1, RampAssumption DEF RampTyped
        <4>2. QED
          BY <4>1 DEF Fuzzed
      <3>2. QED
        BY <3>1 DEF RampInit
    <2>2. QED
      BY <2>1 DEF InTurn
  <1>3. QED
    BY <1>1, <1>2 DEF RampInit, RampInv

LEMMA RampInvNext == RampInv /\ [RampJob]_ramp => RampInv'
  <1> SUFFICES ASSUME RampInv, [RampJob]_ramp PROVE RampInv'
    OBVIOUS
  <1>0. RampTyped /\ InTurn
    BY DEF RampInv
  <1>1. ASSUME NEW request \in Request, Poll(request) PROVE RampInv'
    <2>1. counts' \in [Request -> Nat]
      BY <1>0, <1>1, CountsGoOn DEF Poll
    <2>2. QED
      BY <1>1, <2>1
      DEF Poll, RampInv, RampTyped, RampsOwn, ReachedOrExcused, InTurn, Fuzzed, Declared, fixed, fuzzing
  <1>2. ASSUME NEW request \in Request, RampRequest(request) PROVE RampInv'
    <2>1. /\ counts' \in [Request -> Nat]
          /\ \A other \in Request : counts'[other] > counts[other] => other = request
      BY <1>0, <1>2, CountsGoOn DEF RampRequest
    <2>2. doing = "ramp" /\ doing' = "ramp"
          /\ UNCHANGED <<declared, waivers, before, after, turn, questions>>
      BY <1>2 DEF RampRequest, fixed, fuzzing
    <2>3. RampTyped' /\ InTurn'
      BY <1>0, <2>1, <2>2 DEF RampTyped, InTurn, Fuzzed
    <2>4. RampsOwn(counts)'
      <3>1. RampsOwn(counts) /\ counts \in [Request -> Nat] /\ before \in [Request -> Nat]
        BY <2>2 DEF RampInv, RampTyped
      <3>2. Declared' = Declared /\ before' = before
            /\ ramped' = ramped \cup AnsweredBy(Declared, request)
        BY <1>2, <2>2 DEF RampRequest, Declared
      <3>3. ASSUME NEW other \in Request, counts'[other] > before[other]
            PROVE  AnsweredBy(Declared, other) \subseteq ramped'
        <4>1. CASE other = request
          BY <3>2, <4>1
        <4>2. CASE other # request
          <5>1. counts[other] \in Nat /\ counts'[other] \in Nat /\ before[other] \in Nat
            BY <2>1, <3>1
          <5>2. counts[other] > before[other]
            BY <2>1, <3>3, <4>2, <5>1
          <5>3. QED
            BY <3>1, <3>2, <5>2 DEF RampsOwn
        <4>3. QED
          BY <4>1, <4>2
      <3>4. QED
        BY <3>2, <3>3 DEF RampsOwn
    <2>5. QED
      BY <2>2, <2>3, <2>4 DEF RampInv
  <1>3. CASE Restart
    <2>1. RampTyped' /\ InTurn'
      BY <1>0, <1>3 DEF Restart, RampTyped, Zeroes, InTurn, Fuzzed, fixed, fuzzing
    <2>2. RampsOwn(counts)'
      <3>1. \A request \in Request : counts'[request] = 0 /\ before'[request] \in Nat
        BY <1>0, <1>3 DEF Restart, Zeroes, RampTyped
      <3>2. \A request \in Request : ~(counts'[request] > before'[request])
        BY <3>1
      <3>3. QED
        BY <3>2 DEF RampsOwn
    <2>3. QED
      BY <1>3, <2>1, <2>2 DEF Restart, RampInv
  <1>4. CASE FetchBefore
    <2>1. \A request \in Request : ~(counts[request] > counts[request])
      BY <1>0 DEF RampTyped
    <2>2. RampsOwn(counts)'
      BY <1>4, <2>1 DEF FetchBefore, RampsOwn
    <2>3. QED
      BY <1>0, <1>4, <2>2 DEF FetchBefore, RampInv, RampTyped, InTurn, Fuzzed, fixed, fuzzing
  <1>5. CASE FetchAfter
    <2>1. RampsOwn(after)'
      BY <1>5 DEF FetchAfter, RampInv, RampsOwn, Declared, fixed
    <2>2. QED
      BY <1>0, <1>5, <2>1 DEF FetchAfter, RampInv, RampTyped, InTurn, Fuzzed, fixed, fuzzing
  <1>6. CASE Coverage
    <2>1. UNCHANGED <<declared, waivers, counts, before, after, ramped, turn, questions>>
      BY <1>6 DEF Coverage, fixed, fuzzing
    <2>2. RampTyped' /\ InTurn'
      BY <1>0, <2>1 DEF RampTyped, InTurn, Fuzzed
    <2>3. doing' \in {"fuzz", "red"}
      BY <1>6 DEF Coverage
    <2>4. ASSUME doing' = "fuzz" PROVE (\A route \in Keys(Declared) : ReachedOrExcused(route))'
      <3>1. \A route \in Keys(Declared) : ReachedOrExcused(route)
        BY <1>6, <2>4, CoverageExcuses
      <3>2. QED
        BY <2>1, <3>1 DEF ReachedOrExcused, Declared
    <2>5. QED
      BY <2>2, <2>3, <2>4 DEF RampInv
  <1>7. CASE Fuzz
    <2>1. doing = "fuzz" /\ doing' \in {"fuzz", "red"}
      BY <1>7 DEF Fuzz
    <2>2. UNCHANGED <<declared, waivers, counts, before, after, ramped>>
      BY <1>7 DEF Fuzz, fixed
    <2>3. RampTyped' /\ InTurn'
      BY <1>0, <1>7, <2>2, TurnsGoOn DEF RampTyped
    <2>4. (\A route \in Keys(Declared) : ReachedOrExcused(route))'
      BY <2>1, <2>2 DEF RampInv, ReachedOrExcused, Declared
    <2>5. QED
      BY <2>1, <2>3, <2>4 DEF RampInv
  <1>8. CASE StepFails \/ Deadline \/ UNCHANGED ramp
    <2>1. UNCHANGED <<declared, waivers, counts, before, after, ramped, turn, questions>>
      BY <1>8 DEF StepFails, Deadline, ramp, fixed, fuzzing
    <2>2. RampTyped' /\ InTurn'
      BY <1>0, <2>1 DEF RampTyped, InTurn, Fuzzed
    <2>3. doing' = doing \/ doing' = "red" \/ (doing = "fuzz" /\ doing' = "green")
      BY <1>8 DEF StepFails, Deadline, ramp
    <2>4. (\A route \in Keys(Declared) : ReachedOrExcused(route)) =>
            (\A route \in Keys(Declared) : ReachedOrExcused(route))'
      BY <2>1 DEF ReachedOrExcused, Declared
    <2>5. (RampsOwn(counts) => RampsOwn(counts)') /\ (RampsOwn(after) => RampsOwn(after)')
      BY <2>1 DEF RampsOwn, Declared
    <2>6. QED
      BY <2>2, <2>3, <2>4, <2>5 DEF RampInv
  <1>9. QED
    BY <1>1, <1>2, <1>3, <1>4, <1>5, <1>6, <1>7, <1>8 DEF RampJob

(* routeCoverage and fuzz: whatever tables the app may declare, whoever     *)
(* else asks it, and however often it starts again, a green job means that  *)
(* the handler of each route answered one of the ramp's own requests, or   *)
(* is excused by name and reason, and that the routes not excused were      *)
(* asked equally often, give or take one.                                  *)
THEOREM RoutesAreReached == RampSpec => []GreenMeansReached
  <1>1. RampInv => GreenMeansReached
    <2> SUFFICES ASSUME RampInv, doing = "green" PROVE GreenMeansReached
      BY DEF GreenMeansReached
    <2>1. \A i, j \in Fuzzed : questions[i] - questions[j] \in -1..1
      <3>1. PICK n \in Nat : \A i \in Fuzzed : questions[i] = IF i <= turn THEN n + 1 ELSE n
        BY DEF RampInv, InTurn
      <3>2. \A i \in Fuzzed : questions[i] = n \/ questions[i] = n + 1
        BY <3>1
      <3>3. QED
        BY <3>2
    <2>2. QED
      BY <2>1 DEF RampInv, ReachedOrExcused, GreenMeansReached
  <1>2. QED
    BY <1>1, RampInvInit, RampInvNext, PTL DEF RampSpec

-----------------------------------------------------------------------------
(* Sequences laid end to end, and sets in turn. *)

(* Two sequences, one after the other. *)
LEMMA TwoParts ==
  ASSUME NEW E, NEW s \in Seq(E), NEW t \in Seq(E)
  PROVE  /\ \A p \in 1..Len(s) : (s \o t)[p] = s[p]
         /\ \A m \in 1..Len(t) : (s \o t)[Len(s) + m] = t[m]
  OBVIOUS

(* What a sequence of sequences, one after the other, holds: at says where   *)
(* each of them ends.                                                      *)
Joined(seqs, flat, at) ==
  /\ at \in [0..Len(seqs) -> Nat] /\ at[0] = 0 /\ Len(flat) = at[Len(seqs)]
  /\ \A i \in 1..Len(seqs) : at[i] = at[i - 1] + Len(seqs[i])
  /\ \A i \in 1..Len(seqs), m \in Nat \ {0} :
       m <= Len(seqs[i]) => at[i - 1] + m <= Len(flat) /\ flat[at[i - 1] + m] = seqs[i][m]
  /\ \A p \in 1..Len(flat) : \E i \in 1..Len(seqs), m \in Nat \ {0} : m <= Len(seqs[i])
     /\ p = at[i - 1] + m

Flattens(g, seqs) == [i \in 1..Len(seqs) |-> IF i = 1 THEN seqs[i] ELSE g[i - 1] \o seqs[i]]

(* The function FlattenSeq chooses is there to be chosen.                    *)
LEMMA FlattenExists ==
  ASSUME NEW E, NEW seqs \in Seq(Seq(E))
  PROVE  \E g \in [1..Len(seqs) -> Seq(E)] : g = Flattens(g, seqs)
  <1> DEFINE n == Len(seqs)
             Part(k, g) == \A i \in 1..k : g[i] = IF i = 1 THEN seqs[i] ELSE g[i - 1] \o seqs[i]
             good == {k \in 0..n : \E g \in [1..k -> Seq(E)] : Part(k, g)}
  <1>1. n \in Nat /\ \A i \in 1..n : seqs[i] \in Seq(E)
    OBVIOUS
  <1> HIDE DEF n
  <1>2. 0 \in good
    <2>1. [i \in 1..0 |-> <<>>] \in [1..0 -> Seq(E)] /\ Part(0, [i \in 1..0 |-> <<>>])
      OBVIOUS
    <2> HIDE DEF Part
    <2>2. \E g \in [1..0 -> Seq(E)] : Part(0, g)
      BY <2>1
    <2>3. 0 \in 0..n
      BY <1>1
    <2>4. QED
      BY <2>2, <2>3
  <1>3. ASSUME NEW k \in 1..n, k - 1 \in good PROVE k \in good
    <2>1. PICK g \in [1..(k - 1) -> Seq(E)] : Part(k - 1, g)
      BY <1>3
    <2> DEFINE last == IF k = 1 THEN seqs[k] ELSE g[k - 1] \o seqs[k]
               more == [i \in 1..k |-> IF i = k THEN last ELSE g[i]]
    <2>2. last \in Seq(E)
      <3>1. seqs[k] \in Seq(E)
        BY <1>1
      <3>2. CASE k # 1
        <4>1. g[k - 1] \in Seq(E)
          BY <1>1, <3>2
        <4>2. QED
          BY <3>1, <3>2, <4>1
      <3>3. QED
        BY <3>1, <3>2
    <2> HIDE DEF last
    <2>3. more \in [1..k -> Seq(E)]
      BY <1>1, <2>2
    <2>4. ASSUME NEW i \in 1..k PROVE more[i] = IF i = 1 THEN seqs[i] ELSE more[i - 1] \o seqs[i]
      <3>1. CASE i = k
        <4>1. i # 1 => more[i - 1] = g[i - 1]
          BY <1>1, <3>1
        <4>2. more[i] = last
          BY <3>1
        <4> HIDE DEF more
        <4>3. QED
          BY <3>1, <4>1, <4>2 DEF last
      <3>2. CASE i # k
        <4>1. i \in 1..(k - 1) /\ more[i] = g[i] /\ (i # 1 => more[i - 1] = g[i - 1])
          BY <1>1, <3>2
        <4> HIDE DEF more
        <4>2. QED
          BY <2>1, <4>1
      <3>3. QED
        BY <3>1, <3>2
    <2> HIDE DEF more
    <2>5. Part(k, more)
      BY <2>4
    <2> HIDE DEF Part
    <2>6. k \in 0..n
      BY <1>1
    <2>7. QED
      BY <2>3, <2>5, <2>6
  <1> HIDE DEF good
  <1>4. n \in good
    <2>1. \A k \in 1..n : k - 1 \in good => k \in good
      BY <1>3
    <2>2. n \in 0..n
      BY <1>1
    <2>3. QED
      BY <1>1, <1>2, <2>1, <2>2, UpToAll
  <1>5. PICK g \in [1..n -> Seq(E)] : Part(n, g)
    BY <1>4 DEF good
  <1>6. g = Flattens(g, seqs)
    <2>1. \A i \in 1..n : g[i] = Flattens(g, seqs)[i]
      BY <1>5 DEF Flattens, n
    <2>2. DOMAIN Flattens(g, seqs) = 1..n /\ Flattens(g, seqs) = [i \in 1..n |-> Flattens(g, seqs)[i]]
      BY DEF Flattens, n
    <2>3. QED
      BY <2>1, <2>2
  <1>7. QED
    BY <1>6 DEF n

(* FlattenSeq lays its sequences end to end, in their order.                 *)
LEMMA FlattenIsJoined ==
  ASSUME NEW E, NEW seqs \in Seq(Seq(E))
  PROVE  FlattenSeq(seqs) \in Seq(E) /\ \E at : Joined(seqs, FlattenSeq(seqs), at)
  <1> DEFINE n == Len(seqs)
             it == CHOOSE g : g = Flattens(g, seqs)
             at == [i \in 0..n |-> IF i = 0 THEN 0 ELSE Len(it[i])]
             flat == IF n = 0 THEN seqs ELSE it[n]
  <1>1. n \in Nat /\ \A i \in 1..n : seqs[i] \in Seq(E) /\ Len(seqs[i]) \in Nat
    OBVIOUS
  <1>2. FlattenSeq(seqs) = flat
    BY Zenon DEF FlattenSeq, Flattens
  <1>3. it = Flattens(it, seqs)
    <2>1. PICK g \in [1..Len(seqs) -> Seq(E)] : g = Flattens(g, seqs)
      BY FlattenExists
    <2>2. QED
      BY <2>1, Zenon
  <1> HIDE DEF it
  <1>4. \A i \in 1..n : it[i] = IF i = 1 THEN seqs[i] ELSE it[i - 1] \o seqs[i]
    BY <1>3, Zenon DEF Flattens
  <1> HIDE DEF n
  <1>5. \A i \in 1..n : it[i] \in Seq(E) /\ Len(it[i]) \in Nat
    <2> DEFINE good == {k \in 0..n : k # 0 => it[k] \in Seq(E)}
    <2>1. 0 \in good
      BY <1>1
    <2>2. ASSUME NEW k \in 1..n, k - 1 \in good PROVE k \in good
      <3>1. k = 1 => it[k] = seqs[k]
        BY <1>4, <2>2
      <3>2. ASSUME k # 1 PROVE it[k] \in Seq(E)
        <4>1. k - 1 # 0
          BY <1>1, <3>2
        <4>2. it[k - 1] \in Seq(E)
          BY <2>2, <4>1
        <4>3. it[k] = it[k - 1] \o seqs[k]
          BY <1>4, <3>2
        <4>4. seqs[k] \in Seq(E)
          BY <1>1
        <4>5. QED
          BY <4>2, <4>3, <4>4
      <3>3. k \in 0..n
        BY <1>1
      <3>4. it[k] \in Seq(E)
        BY <1>1, <3>1, <3>2
      <3>5. QED
        BY <3>3, <3>4
    <2> HIDE DEF good
    <2>3. \A k \in 0..n : k \in good
      BY <1>1, <2>1, <2>2, UpToAll
    <2>4. ASSUME NEW i \in 1..n PROVE it[i] \in Seq(E) /\ Len(it[i]) \in Nat
      <3>1. i \in 0..n /\ i # 0
        BY <1>1
      <3>2. it[i] \in Seq(E)
        BY <2>3, <3>1 DEF good
      <3>3. QED
        BY <3>2
    <2>5. QED
      BY <2>4
  <1>6. at \in [0..n -> Nat] /\ at[0] = 0 /\ \A i \in 1..n : at[i] = Len(it[i])
    BY <1>1, <1>5
  <1> HIDE DEF at
  <1>7. \A i \in 1..n : at[i] = at[i - 1] + Len(seqs[i]) /\ at[i - 1] \in Nat
    <2> SUFFICES ASSUME NEW i \in 1..n PROVE at[i] = at[i - 1] + Len(seqs[i]) /\ at[i - 1] \in Nat
      OBVIOUS
    <2>1. CASE i = 1
      <3>1. i - 1 = 0 /\ it[i] = seqs[i] /\ at[i] = Len(it[i]) /\ at[i - 1] = 0
        BY <1>4, <1>6, <2>1
      <3>2. Len(seqs[i]) \in Nat
        BY <1>1
      <3>3. QED
        BY <3>1, <3>2
    <2>2. CASE i # 1
      <3>1. i - 1 \in 1..n
        BY <1>1, <2>2
      <3>2. it[i] = it[i - 1] \o seqs[i] /\ it[i - 1] \in Seq(E) /\ seqs[i] \in Seq(E)
        BY <1>1, <1>4, <1>5, <2>2, <3>1
      <3>3. Len(it[i]) = Len(it[i - 1]) + Len(seqs[i])
        BY <3>2
      <3>4. at[i] = Len(it[i]) /\ at[i - 1] = Len(it[i - 1]) /\ Len(it[i - 1]) \in Nat
        BY <1>5, <1>6, <3>1
      <3>5. QED
        BY <3>3, <3>4
    <2>3. QED
      BY <2>1, <2>2
  <1> DEFINE Kept(k) == \A i \in 1..k, m \in Nat \ {0} : m <= Len(seqs[i]) => at[i - 1] + m <= at[k]
    /\ it[k][at[i - 1] + m] = seqs[i][m]
             Held(k) == \A p \in 1..at[k] : \E i \in 1..k, m \in Nat \ {0} : m <= Len(seqs[i])
               /\ p = at[i - 1] + m
             fine == {k \in 0..n : Kept(k) /\ Held(k)}
  <1>8. 0 \in fine
    BY <1>1, <1>6
  <1>9. ASSUME NEW k \in 1..n, k - 1 \in fine PROVE k \in fine
    <2>1. k \in 0..n /\ k \in Nat /\ k - 1 \in Nat /\ Kept(k - 1) /\ Held(k - 1)
      BY <1>1, <1>9
    <2>2. at[k] = at[k - 1] + Len(seqs[k]) /\ at[k - 1] \in Nat /\ Len(seqs[k]) \in Nat
      BY <1>1, <1>7
    <2>3. Kept(k)
      <3> SUFFICES ASSUME NEW i \in 1..k, NEW m \in Nat \ {0}, m <= Len(seqs[i])
                   PROVE  at[i - 1] + m <= at[k] /\ it[k][at[i - 1] + m] = seqs[i][m]
        OBVIOUS
      <3>1. i \in 1..n /\ at[i - 1] \in Nat /\ Len(seqs[i]) \in Nat
        BY <1>1, <1>7, <2>1
      <3>2. CASE k = 1
        <4>1. i = 1 /\ at[i - 1] = 0 /\ it[k] = seqs[k]
          BY <1>4, <1>6, <3>2
        <4>2. QED
          BY <2>2, <3>1, <3>2, <4>1
      <3>3. CASE k # 1
        <4>1. it[k] = it[k - 1] \o seqs[k] /\ it[k - 1] \in Seq(E) /\ seqs[k] \in Seq(E)
              /\ Len(it[k - 1]) = at[k - 1]
          <5>1. k - 1 \in 1..n
            BY <1>1, <3>3
          <5>2. QED
            BY <1>1, <1>4, <1>5, <1>6, <3>3, <5>1
        <4>2. CASE i = k
          <5>1. m \in 1..Len(seqs[k]) /\ m <= Len(seqs[k])
            BY <2>2, <4>2
          <5>2. (it[k - 1] \o seqs[k])[Len(it[k - 1]) + m] = seqs[k][m]
            <6>1. \A x \in 1..Len(seqs[k]) : (it[k - 1] \o seqs[k])[Len(it[k - 1]) + x] = seqs[k][x]
              <7> DEFINE s == it[k - 1]
                         t == seqs[k]
              <7>1. s \in Seq(E) /\ t \in Seq(E)
                BY <4>1
              <7> HIDE DEF s, t
              <7>2. \A x \in 1..Len(t) : (s \o t)[Len(s) + x] = t[x]
                BY ONLY <7>1, TwoParts
              <7>3. QED
                BY <7>2 DEF s, t
            <6>2. QED
              BY <5>1, <6>1, Zenon
          <5>3. at[k - 1] + m <= at[k]
            BY <2>2, <5>1
          <5>4. QED
            BY <4>1, <4>2, <5>2, <5>3
        <4>3. CASE i # k
          <5>1. i \in 1..(k - 1)
            BY <2>1, <4>3
          <5>2. at[i - 1] + m <= at[k - 1] /\ it[k - 1][at[i - 1] + m] = seqs[i][m]
            BY <2>1, <5>1
          <5>3. at[i - 1] + m \in 1..Len(it[k - 1])
            <6> DEFINE a == at[i - 1]
            <6>1. a \in Nat /\ a + m <= at[k - 1] /\ Len(it[k - 1]) = at[k - 1] /\ at[k - 1] \in Nat
              BY <2>2, <3>1, <4>1, <5>2
            <6> HIDE DEF a
            <6>2. a + m \in 1..Len(it[k - 1])
              BY <6>1
            <6>3. QED
              BY <6>2 DEF a
          <5> DEFINE p == at[i - 1] + m
          <5>4. p \in 1..Len(it[k - 1]) /\ it[k - 1][p] = seqs[i][m] /\ p <= at[k - 1]
            BY <5>2, <5>3
          <5> HIDE DEF p
          <5>5. it[k][p] = it[k - 1][p]
            <6>1. (it[k - 1] \o seqs[k])[p] = it[k - 1][p]
              BY <4>1, <5>4, TwoParts
            <6>2. QED
              BY <4>1, <6>1
          <5>6. p <= at[k]
            BY <2>2, <4>1, <5>4
          <5>7. QED
            BY <5>4, <5>5, <5>6 DEF p
        <4>4. QED
          BY <4>2, <4>3
      <3>4. QED
        BY <3>2, <3>3
    <2>4. Held(k)
      <3> SUFFICES ASSUME NEW p \in 1..at[k]
                   PROVE  \E i \in 1..k, m \in Nat \ {0} : m <= Len(seqs[i]) /\ p = at[i - 1] + m
        OBVIOUS
      <3>1. CASE p <= at[k - 1]
        <4>1. p \in 1..at[k - 1]
          BY <2>2, <3>1
        <4>2. PICK i \in 1..(k - 1), m \in Nat \ {0} : m <= Len(seqs[i]) /\ p = at[i - 1] + m
          BY <2>1, <4>1
        <4>3. i \in 1..k
          BY <2>1
        <4>4. QED
          BY <4>2, <4>3
      <3>2. CASE p > at[k - 1]
        <4>1. p - at[k - 1] \in Nat \ {0} /\ p - at[k - 1] <= Len(seqs[k])
              /\ p = at[k - 1] + (p - at[k - 1])
          BY <2>2, <3>2
        <4>2. k \in 1..k
          BY <2>1
        <4>3. QED
          BY <4>1, <4>2
      <3>3. QED
        BY <2>2, <3>1, <3>2
    <2> HIDE DEF Kept, Held
    <2>5. QED
      BY <2>1, <2>3, <2>4
  <1> HIDE DEF fine
  <1>10. Kept(n) /\ Held(n)
    <2>1. \A k \in 0..n : k \in fine
      BY <1>1, <1>8, <1>9, UpToAll
    <2>2. QED
      BY <1>1, <2>1 DEF fine
  <1>11. flat \in Seq(E) /\ Len(flat) = at[n] /\ (n # 0 => flat = it[n])
    <2>1. CASE n = 0
      BY <1>6, <2>1 DEF n
    <2>2. CASE n # 0
      <3>1. n \in 1..n
        BY <1>1, <2>2
      <3>2. QED
        BY <1>5, <1>6, <2>2, <3>1
    <2>3. QED
      BY <2>1, <2>2
  <1> HIDE DEF flat
  <1>12. \A i \in 1..n, m \in Nat \ {0} : m <= Len(seqs[i]) => at[i - 1] + m <= Len(flat)
         /\ flat[at[i - 1] + m] = seqs[i][m]
    BY <1>1, <1>10, <1>11
  <1> HIDE DEF Kept
  <1>13. Joined(seqs, flat, at)
    BY <1>6, <1>7, <1>10, <1>11, <1>12 DEF Joined, n
  <1>14. QED
    BY <1>2, <1>11, <1>13

(* A set as a sequence: each of its elements once. *)
LEMMA SetInTurn ==
  ASSUME NEW S, IsFiniteSet(S)
  PROVE  /\ Cardinality(S) \in Nat
         /\ SetToSeq(S) \in [1..Cardinality(S) -> S] /\ SetToSeq(S) \in Seq(S)
            /\ Len(SetToSeq(S)) = Cardinality(S)
         /\ \A a, b \in 1..Cardinality(S) : SetToSeq(S)[a] = SetToSeq(S)[b] => a = b
         /\ \A x \in S : \E n \in 1..Cardinality(S) : SetToSeq(S)[n] = x
  <1> DEFINE n == Cardinality(S)
             s == SetToSeq(S)
  <1>1. n \in Nat /\ ExistsBijection(1..n, S)
    BY FS_CardinalityType
  <1>2. \E f \in [1..n -> S] : \A a, b \in 1..n : f[a] = f[b] => a = b
    BY <1>1 DEF ExistsBijection, Bijection, Injection, IsInjective
  <1>3. s \in [1..n -> S] /\ IsInjective(s)
    <2>1. \E f \in [1..n -> S] : IsInjective(f)
      BY <1>2 DEF IsInjective
    <2>2. QED
      BY <2>1, Zenon DEF SetToSeq
  <1> HIDE DEF s
  <1>4. \A a, b \in 1..n : s[a] = s[b] => a = b
    BY <1>3 DEF IsInjective
  <1> DEFINE T == {s[k] : k \in 1..n}
  <1>5. T \subseteq S /\ IsFiniteSet(T)
    BY <1>3, FS_Subset
  <1>6. Cardinality(T) = n
    <2>1. s \in Bijection(1..n, T)
      BY <1>3, <1>4 DEF Bijection, Injection, Surjection, IsInjective
    <2>2. ExistsBijection(1..n, T)
      BY <2>1 DEF ExistsBijection
    <2> HIDE DEF T, n
    <2>3. QED
      BY <1>1, <2>2, FS_CountingElements
  <1>7. T = S
    <2> HIDE DEF T
    <2>1. QED
      BY <1>5, <1>6, FS_Subset
  <1>8. s \in Seq(S) /\ Len(s) = n
    <2> HIDE DEF n
    <2>1. QED
      BY <1>1, <1>3
  <1>9. QED
    BY <1>1, <1>3, <1>4, <1>7, <1>8 DEF s

(* What two sequences one after the other hold, each of what it holds. *)
LEMMA BothHeld ==
  ASSUME NEW s, s \in Seq(ToSet(s)), NEW t, t \in Seq(ToSet(t))
  PROVE  s \o t \in Seq(ToSet(s \o t)) /\ ToSet(s \o t) = ToSet(s) \cup ToSet(t)
  <1> DEFINE E == ToSet(s) \cup ToSet(t)
  <1>1. s \in Seq(E) /\ t \in Seq(E)
    OBVIOUS
  <1>2. DOMAIN s = 1..Len(s) /\ DOMAIN t = 1..Len(t) /\ Len(s) \in Nat /\ Len(t) \in Nat
    OBVIOUS
  <1>3. (s \o t) \in Seq(E) /\ Len(s \o t) = Len(s) + Len(t) /\ DOMAIN (s \o t) = 1..(Len(s) + Len(t))
    <2> HIDE DEF E
    <2> QED
      BY <1>1
  <1>4. \A p \in 1..Len(s) : (s \o t)[p] = s[p]
    <2> HIDE DEF E
    <2> QED
      BY <1>1, TwoParts
  <1>5. \A m \in 1..Len(t) : (s \o t)[Len(s) + m] = t[m]
    <2> HIDE DEF E
    <2> QED
      BY <1>1, TwoParts
  <1>6. E \subseteq ToSet(s \o t)
    <2>1. ASSUME NEW p \in 1..Len(s) PROVE s[p] \in ToSet(s \o t)
      <3>1. p \in 1..(Len(s) + Len(t))
        BY <1>2
      <3>2. QED
        BY <1>3, <1>4, <3>1 DEF ToSet
    <2>2. ASSUME NEW m \in 1..Len(t) PROVE t[m] \in ToSet(s \o t)
      <3>1. Len(s) + m \in 1..(Len(s) + Len(t))
        BY <1>2
      <3>2. QED
        BY <1>3, <1>5, <3>1 DEF ToSet
    <2>3. QED
      BY <1>2, <2>1, <2>2 DEF ToSet
  <1>7. ToSet(s \o t) \subseteq E
    <2>1. \A p \in 1..(Len(s) + Len(t)) : (s \o t)[p] \in E
      <3> HIDE DEF E
      <3> QED
        BY <1>3
    <2>2. QED
      BY <1>3, <2>1 DEF ToSet
  <1>8. ToSet(s \o t) = E
    BY <1>6, <1>7
  <1>9. QED
    BY <1>3, <1>8

(* A finite set of numbers has a bound.                                      *)
LEMMA FiniteIsBounded ==
  ASSUME NEW S, S \subseteq Nat, IsFiniteSet(S)
  PROVE  \E bound \in Nat : \A x \in S : x <= bound
  <1> DEFINE n == Cardinality(S)
             s == SetToSeq(S)
             good == {k \in 0..n : \E bound \in Nat : \A i \in 1..k : s[i] <= bound}
  <1>1. n \in Nat /\ s \in [1..n -> S] /\ \A x \in S : \E i \in 1..n : s[i] = x
    BY SetInTurn
  <1> HIDE DEF n, s
  <1>2. 0 \in good
    <2>1. 0 \in 0..n /\ 0 \in Nat /\ \A i \in 1..0 : s[i] <= 0
      BY <1>1
    <2>2. QED
      BY <2>1
  <1>3. ASSUME NEW k \in 1..n, k - 1 \in good PROVE k \in good
    <2>1. PICK bound \in Nat : \A i \in 1..(k - 1) : s[i] <= bound
      BY <1>3
    <2>2. s[k] \in Nat /\ \A i \in 1..k : s[i] \in Nat
      <3>1. \A i \in 1..n : s[i] \in Nat
        BY <1>1
      <3>2. k \in 1..k /\ 1..k \subseteq 1..n
        BY <1>1
      <3> QED
        BY <3>1, <3>2
    <2>3. bound + s[k] \in Nat /\ \A i \in 1..k : s[i] <= bound + s[k]
      BY <2>1, <2>2
    <2>4. k \in 0..n
      BY <1>1
    <2>5. QED
      BY <2>3, <2>4
  <1> HIDE DEF good
  <1>4. n \in good
    <2>1. \A k \in 1..n : k - 1 \in good => k \in good
      BY <1>3
    <2>2. \A k \in 0..n : k \in good
      BY <1>1, <1>2, <2>1, UpToAll
    <2>3. QED
      BY <1>1, <2>2
  <1>5. QED
    BY <1>1, <1>4 DEF good

-----------------------------------------------------------------------------
(* The change set: what git prints of a branch. *)

(* The runs of neighbouring lines among those written cover them.           *)
LEMMA RunsCover ==
  ASSUME NEW w, w \subseteq Nat \ {0}, IsFiniteSet(w)
  PROVE  /\ \A l \in Starts(w) : RunFrom(l, w) \in Nat /\ l..(l + RunFrom(l, w) - 1) \subseteq w
         /\ \A x \in w : \E l \in Starts(w) : x \in l..(l + RunFrom(l, w) - 1)
         /\ Max(w \cup {0}) \in Nat /\ \A x \in w : x \in 1..Max(w \cup {0})
  <1>1. w \subseteq Nat
    OBVIOUS
  <1>2. PICK bound \in Nat : \A x \in w : x <= bound
    BY <1>1, FiniteIsBounded
  <1> DEFINE ends(l) == {m \in w : l..m \subseteq w}
  <1>3. ASSUME NEW l \in w PROVE Max(ends(l)) \in ends(l) /\ \A m \in ends(l) : m <= Max(ends(l))
    <2>1. l \in ends(l)
      <3>1. l..l = {l}
        BY <1>1
      <3>2. QED
        BY <3>1
    <2>2. ends(l) \subseteq Nat /\ \A m \in ends(l) : m <= bound
      BY <1>1, <1>2
    <2> HIDE DEF ends
    <2>3. QED
      BY <2>1, <2>2, GreatestIsOne
  <1>4. ASSUME NEW l \in w
        PROVE  /\ RunFrom(l, w) \in Nat /\ l + RunFrom(l, w) - 1 = Max(ends(l))
               /\ l..(l + RunFrom(l, w) - 1) \subseteq w
    <2>1. Max(ends(l)) \in ends(l) /\ l \in ends(l)
      <3>1. l..l = {l}
        BY <1>1
      <3>2. QED
        BY <1>3, <3>1
    <2>2. RunFrom(l, w) = Max(ends(l)) - l + 1
      BY DEF RunFrom
    <2>3. Max(ends(l)) \in Nat /\ Max(ends(l)) >= l
      BY <1>1, <1>3, <2>1
    <2>4. l..Max(ends(l)) \subseteq w
      BY <2>1
    <2> HIDE DEF ends
    <2>5. l + RunFrom(l, w) - 1 = Max(ends(l)) /\ RunFrom(l, w) \in Nat
      BY <1>1, <2>2, <2>3
    <2>6. QED
      BY <2>4, <2>5
  <1>5. ASSUME NEW x \in w PROVE \E l \in Starts(w) : x \in l..(l + RunFrom(l, w) - 1)
    <2> DEFINE from == {y \in w : y..x \subseteq w /\ y <= x}
               l == Min(from)
    <2>1. x \in from
      <3>1. x..x = {x} /\ x <= x
        BY <1>1
      <3>2. QED
        BY <3>1
    <2>2. l \in from /\ \A y \in from : l <= y
      <3>1. from \subseteq Nat
        BY <1>1
      <3> HIDE DEF from
      <3>2. QED
        BY <2>1, <3>1, LeastIsOne
    <2> HIDE DEF l
    <2>3. l \in w /\ l..x \subseteq w /\ l \in Nat \ {0} /\ l <= x /\ x \in Nat
      BY <2>2
    <2>4. l - 1 \notin w
      <3> SUFFICES ASSUME l - 1 \in w PROVE FALSE
        OBVIOUS
      <3>1. (l - 1)..x \subseteq w
        <4>1. ASSUME NEW z \in (l - 1)..x PROVE z \in w
          <5>1. z = l - 1 \/ z \in l..x
            BY <2>3
          <5>2. QED
            BY <2>3, <5>1
        <4>2. QED
          BY <4>1
      <3>2. l - 1 \in from
        BY <2>3, <3>1
      <3> HIDE DEF from
      <3>3. l <= l - 1
        BY <2>2, <3>2
      <3>4. QED
        BY <2>3, <3>3
    <2>5. x \in ends(l)
      BY <2>3
    <2>6. x <= Max(ends(l)) /\ l + RunFrom(l, w) - 1 = Max(ends(l)) /\ RunFrom(l, w) \in Nat
      BY <1>3, <1>4, <2>3, <2>5
    <2> HIDE DEF ends
    <2>7. x \in l..(l + RunFrom(l, w) - 1)
      BY <2>3, <2>6
    <2>8. l \in Starts(w)
      BY <2>3, <2>4 DEF Starts
    <2>9. QED
      BY <2>7, <2>8
  <1>6. Max(w \cup {0}) \in Nat /\ \A x \in w : x \in 1..Max(w \cup {0})
    <2>1. w \cup {0} \subseteq Nat /\ \A x \in w \cup {0} : x <= bound
      BY <1>1, <1>2
    <2>2. Max(w \cup {0}) \in w \cup {0} /\ \A x \in w \cup {0} : x <= Max(w \cup {0})
      BY <2>1, GreatestIsOne
    <2>3. \A x \in w : x \in Nat \ {0} /\ x <= Max(w \cup {0})
      BY <2>2
    <2>4. Max(w \cup {0}) \in Nat
      BY <2>1, <2>2
    <2>5. QED
      BY <2>3, <2>4
  <1>7. \A l \in Starts(w) : l \in w
    BY DEF Starts
  <1>8. QED
    BY <1>4, <1>5, <1>6, <1>7

(* What one hunk's header says was written.                                 *)
WrittenIn(line) == line.from..(line.from + line.count - 1)
HunkLines(b) == {Hunk(l, n) : l \in Nat, n \in Nat} \cup {Names(b.looks), Body}
LinesOf(b) == HunkLines(b) \cup {Opens} \cup {Names(f) : f \in File}

(* A file's hunks: none where it wrote none, the first of their lines a     *)
(* header, and the headers say what was written.                           *)
LEMMA HunksSay ==
  ASSUME NEW b \in Branches, NEW f \in File
  PROVE  /\ Hunks(b, f) \in Seq(HunkLines(b))
         /\ Hunks(b, f) # <<>> <=> (b.wrote[f] # {} \/ f \in b.cut)
         /\ Hunks(b, f) # <<>> => Hunks(b, f)[1].is = "hunk"
         /\ \A m \in 1..Len(Hunks(b, f)) : Hunks(b, f)[m].is = "hunk" =>
              WrittenIn(Hunks(b, f)[m]) \subseteq b.wrote[f]
         /\ \A x \in b.wrote[f] : \E m \in 1..Len(Hunks(b, f)) :
              Hunks(b, f)[m].is = "hunk" /\ x \in WrittenIn(Hunks(b, f)[m])
  <1> DEFINE w == b.wrote[f]
             E == HunkLines(b)
             top == Max(w \cup {0})
             parts == [l \in 1..top |-> HunkAt(b, f, l)]
             flat == FlattenSeq(parts)
             cut == IF f \in b.cut THEN <<Hunk(0, 0), Body>> ELSE <<>>
  <1>1. w \subseteq Nat \ {0} /\ IsFiniteSet(w)
    BY ChangeAssumption
  <1> HIDE DEF w
  <1>2. /\ \A l \in Starts(w) : RunFrom(l, w) \in Nat /\ l..(l + RunFrom(l, w) - 1) \subseteq w
           /\ l \in 1..top /\ l \in Nat
        /\ \A x \in w : \E l \in Starts(w) : x \in l..(l + RunFrom(l, w) - 1)
        /\ top \in Nat
    BY <1>1, RunsCover DEF Starts
  <1> HIDE DEF top
  <1> DEFINE Three(l) == <<Hunk(l, RunFrom(l, w)), Names(b.looks), Body>>
  <1>20. \A l : Len(Three(l)) = 3 /\ Three(l)[1] = Hunk(l, RunFrom(l, w))
         /\ Three(l)[2] = Names(b.looks) /\ Three(l)[3] = Body
    OBVIOUS
  <1> HIDE DEF E, Three
  <1>3. ASSUME NEW l \in 1..top
        PROVE  /\ l \in Starts(w) => HunkAt(b, f, l) = Three(l)
               /\ l \notin Starts(w) => HunkAt(b, f, l) = <<>>
               /\ HunkAt(b, f, l) \in Seq(E)
    <2>1. /\ l \in Starts(w) => HunkAt(b, f, l) = Three(l)
          /\ l \notin Starts(w) => HunkAt(b, f, l) = <<>>
      BY DEF HunkAt, w, Three
    <2>2. l \in Starts(w) => Hunk(l, RunFrom(l, w)) \in E
      BY <1>2 DEF E, HunkLines
    <2>3. Names(b.looks) \in E /\ Body \in E
      BY DEF E, HunkLines
    <2>4. l \in Starts(w) => Three(l) \in Seq(E)
      BY <2>2, <2>3 DEF Three
    <2>5. <<>> \in Seq(E)
      OBVIOUS
    <2>6. HunkAt(b, f, l) \in Seq(E)
      BY <2>1, <2>4, <2>5, Zenon
    <2>7. QED
      BY <2>1, <2>6, Zenon
  <1>22. \A l \in 1..top : (l \in Starts(w) => HunkAt(b, f, l) = Three(l))
         /\ (l \notin Starts(w) => HunkAt(b, f, l) = <<>>)
    BY <1>3
  <1>4. parts \in Seq(Seq(E)) /\ Len(parts) = top /\ \A l \in 1..top : parts[l] = HunkAt(b, f, l)
    <2> HIDE DEF E, HunkLines
    <2> QED
      BY <1>2, <1>3
  <1> HIDE DEF parts
  <1>5. flat \in Seq(E) /\ \E at : Joined(parts, flat, at)
    <2> HIDE DEF E, HunkLines
    <2> QED
      BY <1>4, FlattenIsJoined
  <1>6. PICK at : Joined(parts, flat, at)
    BY <1>5
  <1> HIDE DEF flat
  <1>7. ASSUME NEW p \in 1..Len(flat)
        PROVE  \E l \in Starts(w), m \in 1..3 : p = at[l - 1] + m /\ at[l - 1] \in Nat
               /\ flat[p] = Three(l)[m]
    <2>1. PICK l \in 1..top, m \in Nat \ {0} : m <= Len(parts[l]) /\ p = at[l - 1] + m
      BY <1>4, <1>6 DEF Joined
    <2>2. flat[p] = parts[l][m] /\ at[l - 1] \in Nat
      BY <1>2, <1>4, <1>6, <2>1 DEF Joined
    <2>3. parts[l] = HunkAt(b, f, l) /\ (l \in Starts(w) => parts[l] = Three(l))
          /\ (l \notin Starts(w) => parts[l] = <<>>)
      <3>1. parts[l] = HunkAt(b, f, l)
        BY <1>4
      <3>2. (l \in Starts(w) => HunkAt(b, f, l) = Three(l))
            /\ (l \notin Starts(w) => HunkAt(b, f, l) = <<>>)
        <4>1. l \in 1..top
          OBVIOUS
        <4>2. QED
          BY ONLY <1>22, <4>1
      <3>3. QED
        BY <3>1, <3>2, Zenon
    <2>4. l \in Starts(w)
      <3> SUFFICES ASSUME l \notin Starts(w) PROVE FALSE
        OBVIOUS
      <3>1. Len(parts[l]) = 0
        <4>1. parts[l] = <<>>
          BY <2>3, Zenon
        <4>2. QED
          BY <4>1
      <3>2. QED
        BY <2>1, <3>1
    <2>5. parts[l] = Three(l)
      BY <2>3, <2>4, Zenon
    <2>6. Len(parts[l]) = 3
      BY <1>20, <2>5
    <2>7. m \in 1..3
      BY <2>1, <2>6
    <2>8. QED
      BY <2>1, <2>2, <2>4, <2>5, <2>7
  <1>8. ASSUME NEW l \in Starts(w) PROVE \E p \in 1..Len(flat) : flat[p] = Hunk(l, RunFrom(l, w))
    <2>1. l \in 1..top
      BY <1>2
    <2>2. parts[l] = Three(l)
      BY <1>3, <1>4, <2>1
    <2>3. Len(parts[l]) = 3 /\ parts[l][1] = Hunk(l, RunFrom(l, w))
      BY <1>20, <2>2
    <2>7. 1 \in Nat \ {0} /\ 1 <= Len(parts[l]) /\ l - 1 \in 0..top
      BY <1>2, <2>1, <2>3
    <2>4. at[l - 1] + 1 <= Len(flat) /\ flat[at[l - 1] + 1] = parts[l][1] /\ at[l - 1] \in Nat
      BY <1>4, <1>6, <2>1, <2>7 DEF Joined
    <2>5. Len(flat) \in Nat
      BY <1>5
    <2>6. QED
      BY <2>3, <2>4, <2>5
  <1>9. cut \in Seq(E) /\ Len(cut) = IF f \in b.cut THEN 2 ELSE 0
    <2>1. Hunk(0, 0) \in E /\ Body \in E
      BY DEF E, HunkLines
    <2>2. QED
      BY <2>1
  <1>10. f \in b.cut => cut[1] = Hunk(0, 0) /\ cut[2] = Body
    OBVIOUS
  <1> HIDE DEF cut
  <1>11. Hunks(b, f) = cut \o flat
    BY DEF Hunks, cut, flat, parts, top, w
  <1> DEFINE H == Hunks(b, f)
  <1>12. /\ H \in Seq(E) /\ Len(H) = Len(cut) + Len(flat) /\ Len(cut) \in Nat /\ Len(flat) \in Nat
         /\ \A p \in 1..Len(cut) : H[p] = cut[p]
         /\ \A p \in 1..Len(flat) : H[Len(cut) + p] = flat[p]
    <2> HIDE DEF E, HunkLines
    <2>1. cut \in Seq(E) /\ flat \in Seq(E)
      BY <1>5, <1>9
    <2>2. /\ \A p \in 1..Len(cut) : (cut \o flat)[p] = cut[p]
          /\ \A p \in 1..Len(flat) : (cut \o flat)[Len(cut) + p] = flat[p]
      BY ONLY <2>1, TwoParts
    <2>3. cut \o flat \in Seq(E) /\ Len(cut \o flat) = Len(cut) + Len(flat) /\ Len(cut) \in Nat
          /\ Len(flat) \in Nat
      BY <2>1
    <2>4. QED
      BY <1>11, <2>2, <2>3
  <1> HIDE DEF H
  <1>13. ASSUME NEW p \in 1..Len(H), H[p].is = "hunk"
         PROVE  H[p] = Hunk(0, 0) \/ \E l \in Starts(w) : H[p] = Hunk(l, RunFrom(l, w))
    <2>1. CASE p <= Len(cut)
      <3>1. H[p] = cut[p] /\ p \in 1..Len(cut)
        BY <1>12, <2>1
      <3>2. f \in b.cut /\ (p = 1 \/ p = 2)
        BY <1>9, <3>1
      <3>3. p # 2
        BY <1>10, <1>13, <3>1, <3>2 DEF Body
      <3>4. QED
        BY <1>10, <3>1, <3>2, <3>3
    <2>2. CASE ~(p <= Len(cut))
      <3>1. p - Len(cut) \in 1..Len(flat) /\ Len(cut) + (p - Len(cut)) = p
        BY <1>12, <2>2
      <3>2. H[p] = flat[p - Len(cut)]
        BY <1>12, <3>1
      <3>3. PICK l \in Starts(w), m \in 1..3 : flat[p - Len(cut)] = Three(l)[m]
        BY <1>7, <3>1
      <3>4. m = 1 \/ m = 2 \/ m = 3
        OBVIOUS
      <3>5. m # 2 /\ m # 3
        BY <1>13, <1>20, <3>2, <3>3 DEF Names, Body
      <3>6. QED
        BY <1>20, <3>2, <3>3, <3>4, <3>5
    <2>3. QED
      BY <2>1, <2>2
  <1>14. \A l \in Starts(w) : \E p \in 1..Len(H) : H[p] = Hunk(l, RunFrom(l, w))
    <2> SUFFICES ASSUME NEW l \in Starts(w) PROVE \E p \in 1..Len(H) : H[p] = Hunk(l, RunFrom(l, w))
      OBVIOUS
    <2>1. PICK p \in 1..Len(flat) : flat[p] = Hunk(l, RunFrom(l, w))
      BY <1>8
    <2>2. Len(cut) + p \in 1..Len(H) /\ H[Len(cut) + p] = flat[p]
      BY <1>12
    <2>3. QED
      BY <2>1, <2>2
  <1>15. \A l, n : Hunk(l, n).is = "hunk" /\ WrittenIn(Hunk(l, n)) = l..(l + n - 1)
    BY DEF Hunk, WrittenIn
  <1>16. \A x \in w : \E p \in 1..Len(H) : H[p].is = "hunk" /\ x \in WrittenIn(H[p])
    <2> SUFFICES ASSUME NEW x \in w PROVE \E p \in 1..Len(H) : H[p].is = "hunk"
      /\ x \in WrittenIn(H[p])
      OBVIOUS
    <2>1. PICK l \in Starts(w) : x \in l..(l + RunFrom(l, w) - 1)
      BY <1>2
    <2>2. PICK p \in 1..Len(H) : H[p] = Hunk(l, RunFrom(l, w))
      BY <1>14
    <2>3. QED
      BY <1>15, <2>1, <2>2
  <1>17. \A p \in 1..Len(H) : H[p].is = "hunk" => WrittenIn(H[p]) \subseteq w
    <2> SUFFICES ASSUME NEW p \in 1..Len(H), H[p].is = "hunk" PROVE WrittenIn(H[p]) \subseteq w
      OBVIOUS
    <2>1. CASE H[p] = Hunk(0, 0)
      <3>1. 0..(0 + 0 - 1) = {}
        OBVIOUS
      <3>2. QED
        BY <1>15, <2>1, <3>1
    <2>2. CASE \E l \in Starts(w) : H[p] = Hunk(l, RunFrom(l, w))
      BY <1>2, <1>15, <2>2
    <2>3. QED
      BY <1>13, <2>1, <2>2
  <1>18. H # <<>> <=> (w # {} \/ f \in b.cut)
    <2>1. ASSUME w # {} PROVE H # <<>>
      <3>1. PICK p \in 1..Len(H) : TRUE
        BY <1>16, <2>1
      <3>2. Len(H) # 0
        BY <1>12, <3>1
      <3>3. QED
        BY <3>2
    <2>2. ASSUME f \in b.cut PROVE H # <<>>
      <3>1. Len(H) # 0
        BY <1>9, <1>12, <2>2
      <3>2. QED
        BY <3>1
    <2>3. ASSUME w = {}, f \notin b.cut PROVE H = <<>>
      <3>1. 1..Len(flat) = {}
        BY <1>7, <2>3 DEF Starts
      <3>2. Len(flat) = 0
        BY <1>12, <3>1
      <3>3. Len(H) = 0
        BY <1>9, <1>12, <2>3, <3>2
      <3> HIDE DEF E, HunkLines
      <3>4. QED
        BY <1>12, <3>3
    <2>4. QED
      BY <2>1, <2>2, <2>3
  <1>19. H # <<>> => H[1].is = "hunk"
    <2> SUFFICES ASSUME H # <<>> PROVE H[1].is = "hunk"
      OBVIOUS
    <2>1. Len(H) # 0
      <3> HIDE DEF E, HunkLines
      <3> QED
        BY <1>12
    <2>2. CASE f \in b.cut
      <3>1. 1 \in 1..Len(cut)
        BY <1>9, <2>2
      <3>2. H[1] = Hunk(0, 0)
        BY <1>10, <1>12, <2>2, <3>1
      <3>3. QED
        BY <1>15, <3>2
    <2>3. CASE f \notin b.cut
      <3>1. Len(cut) = 0 /\ 1 \in 1..Len(flat) /\ H[0 + 1] = flat[1]
        BY <1>9, <1>12, <2>1, <2>3
      <3>2. PICK l \in Starts(w), m \in 1..3 :
               1 = at[l - 1] + m /\ at[l - 1] \in Nat /\ flat[1] = Three(l)[m]
        BY <1>7, <3>1
      <3>3. m = 1
        BY <3>2
      <3>4. H[1] = Hunk(l, RunFrom(l, w))
        BY <1>20, <3>1, <3>2, <3>3
      <3>5. QED
        BY <1>15, <3>4
    <2>4. QED
      BY <2>2, <2>3
  <1>21. QED
    BY <1>12, <1>16, <1>17, <1>18, <1>19 DEF H, w, E

(* One file's section, line by line.                                        *)
SectionReads(b, f, S) ==
  /\ S \in Seq(LinesOf(b)) /\ Len(S) \in Nat \ {0}
  /\ S[1] = Opens
  /\ Len(S) # 1 => Len(S) >= 3 /\ S[2] = (IF f \in b.quoted THEN Body ELSE Names(f)) /\ S[3].is = "hunk"
  /\ Len(S) # 1 <=> (b.wrote[f] # {} \/ f \in b.cut)
  /\ \A m \in 3..Len(S) : S[m].is # "opens"
  /\ \A m \in 1..Len(S) : S[m].is = "hunk" => m >= 3 /\ WrittenIn(S[m]) \subseteq b.wrote[f]
  /\ \A x \in b.wrote[f] : \E m \in 1..Len(S) : S[m].is = "hunk" /\ x \in WrittenIn(S[m])

(* A section opens, names its file, and its hunks cover what was written.    *)
LEMMA SectionIs ==
  ASSUME NEW b \in Branches, NEW f \in File
  PROVE  SectionReads(b, f, Section(b, f))
  <1> DEFINE H == Hunks(b, f)
             S == Section(b, f)
             E == LinesOf(b)
             name == IF f \in b.quoted THEN Body ELSE Names(f)
             w == b.wrote[f]
             Hunky == HunkLines(b)
  <1>1. /\ H \in Seq(Hunky)
        /\ H # <<>> <=> (w # {} \/ f \in b.cut)
        /\ H # <<>> => H[1].is = "hunk"
        /\ \A m \in 1..Len(H) : H[m].is = "hunk" => WrittenIn(H[m]) \subseteq w
        /\ \A x \in w : \E m \in 1..Len(H) : H[m].is = "hunk" /\ x \in WrittenIn(H[m])
    BY HunksSay, Zenon
  <1>2. S = <<Opens>> \o (IF H = <<>> THEN <<>> ELSE IF f \in b.quoted THEN <<Body>> ELSE <<Names(f)>>) \o H
    BY DEF Section
  <1> HIDE DEF H, S, w
  <1>3. Hunky \subseteq E /\ Opens \in E /\ name \in E
    <2>1. Hunky \subseteq E /\ Opens \in E /\ Names(f) \in E
      BY DEF LinesOf
    <2>2. Body \in Hunky
      BY DEF HunkLines
    <2>3. QED
      BY <2>1, <2>2
  <1>4. \A e \in Hunky : e.is # "opens"
    BY DEF Hunk, Names, Body, HunkLines
  <1>10. Opens.is = "opens" /\ name.is # "hunk"
    BY DEF Opens, Names, Body
  <1> HIDE DEF Hunky, E, name
  <1>5. H \in Seq(E) /\ Len(H) \in Nat /\ \A m \in 1..Len(H) : H[m].is # "opens"
    <2>1. H \in Seq(E) /\ Len(H) \in Nat /\ \A m \in 1..Len(H) : H[m] \in Hunky
      BY <1>1, <1>3
    <2>2. QED
      BY <1>4, <2>1
  <1>6. CASE H = <<>>
    <2>1. S = <<Opens>> \o <<>> \o <<>>
      BY <1>2, <1>6
    <2>2. <<Opens>> \in Seq(E)
      BY <1>3
    <2>3. S = <<Opens>>
      BY <2>1, <2>2
    <2>4. Len(S) = 1 /\ S[1] = Opens /\ S \in Seq(E)
      BY <2>2, <2>3
    <2>5. w = {} /\ f \notin b.cut
      BY <1>1, <1>6
    <2>6. \A m \in 1..Len(S) : S[m].is # "hunk"
      BY <1>10, <2>4
    <2>7. QED
      BY <2>4, <2>5, <2>6 DEF SectionReads, S, w, E
  <1>7. CASE H # <<>>
    <2>1. S = <<Opens>> \o <<name>> \o H
      BY <1>2, <1>7 DEF name
    <2> DEFINE two == <<Opens>> \o <<name>>
    <2>2. two \in Seq(E) /\ Len(two) = 2 /\ two[1] = Opens /\ two[2] = name
      <3> DEFINE a == <<Opens>>
                 z == <<name>>
      <3>1. a \in Seq(E) /\ z \in Seq(E) /\ Len(a) = 1 /\ Len(z) = 1 /\ a[1] = Opens /\ z[1] = name
        BY <1>3
      <3>2. two = a \o z
        BY DEF two
      <3> HIDE DEF a, z
      <3>3. /\ \A p \in 1..Len(a) : (a \o z)[p] = a[p]
            /\ \A p \in 1..Len(z) : (a \o z)[Len(a) + p] = z[p]
        BY ONLY <3>1, TwoParts
      <3>6. /\ \A p \in 1..1 : (a \o z)[p] = a[p]
            /\ \A p \in 1..1 : (a \o z)[1 + p] = z[p]
        BY <3>1, <3>3
      <3>4. (a \o z)[1] = Opens /\ (a \o z)[1 + 1] = name
        <4>1. 1 \in 1..1
          OBVIOUS
        <4>2. (a \o z)[1] = a[1] /\ (a \o z)[1 + 1] = z[1]
          BY <3>6, <4>1, Zenon
        <4>3. QED
          BY <3>1, <4>2, Zenon
      <3>5. a \o z \in Seq(E) /\ Len(a \o z) = 2
        <4>1. a \o z \in Seq(E) /\ Len(a \o z) = Len(a) + Len(z)
          BY ONLY <3>1, ConcatProperties
        <4>2. QED
          BY <3>1, <4>1
      <3>7. QED
        BY <3>2, <3>4, <3>5
    <2>3. S = two \o H
      BY <2>1
    <2> HIDE DEF two
    <2>4. S \in Seq(E) /\ Len(S) = 2 + Len(H)
      <3>1. two \in Seq(E) /\ H \in Seq(E)
        BY <1>5, <2>2
      <3>2. two \o H \in Seq(E) /\ Len(two \o H) = Len(two) + Len(H)
        BY ONLY <3>1, ConcatProperties
      <3>3. QED
        BY <2>2, <2>3, <3>2
    <2>5. /\ \A m \in 1..2 : S[m] = two[m]
          /\ \A m \in 1..Len(H) : S[2 + m] = H[m]
      <3>1. two \in Seq(E) /\ H \in Seq(E)
        BY <1>5, <2>2
      <3>2. /\ \A p \in 1..Len(two) : (two \o H)[p] = two[p]
            /\ \A p \in 1..Len(H) : (two \o H)[Len(two) + p] = H[p]
        BY ONLY <3>1, TwoParts
      <3>3. QED
        BY <2>2, <2>3, <3>2
    <2>6. S[1] = Opens /\ S[2] = name
      BY <2>2, <2>5
    <2>7. Len(H) # 0
      BY <1>1, <1>7
    <2>8. Len(S) >= 3 /\ S[3].is = "hunk"
      <3>1. 1 \in 1..Len(H) /\ 2 + 1 = 3
        BY <1>5, <2>7
      <3>2. S[3] = H[1]
        BY <2>5, <3>1
      <3>3. QED
        BY <1>1, <1>5, <1>7, <2>4, <2>7, <3>2
    <2>9. \A m \in 3..Len(S) : m - 2 \in 1..Len(H) /\ S[m] = H[m - 2]
      <3> SUFFICES ASSUME NEW m \in 3..Len(S) PROVE m - 2 \in 1..Len(H) /\ S[m] = H[m - 2]
        OBVIOUS
      <3>1. m - 2 \in 1..Len(H) /\ 2 + (m - 2) = m
        BY <1>5, <2>4
      <3>2. QED
        BY <2>5, <3>1
    <2>10. \A m \in 3..Len(S) : S[m].is # "opens" /\ (S[m].is = "hunk" => WrittenIn(S[m]) \subseteq w)
      BY <1>1, <1>5, <2>9
    <2>11. \A m \in 1..Len(S) : S[m].is = "hunk" => m >= 3
      <3> SUFFICES ASSUME NEW m \in 1..Len(S), ~(m >= 3) PROVE S[m].is # "hunk"
        OBVIOUS
      <3>1. m = 1 \/ m = 2
        BY <2>4
      <3>2. QED
        BY <1>10, <2>6, <3>1
    <2>12. \A m \in 1..Len(S) : S[m].is = "hunk" => m >= 3 /\ WrittenIn(S[m]) \subseteq w
      <3> SUFFICES ASSUME NEW m \in 1..Len(S), S[m].is = "hunk" PROVE m >= 3
        /\ WrittenIn(S[m]) \subseteq w
        OBVIOUS
      <3>1. m \in 3..Len(S)
        BY <2>11
      <3>2. QED
        BY <2>10, <3>1
    <2>13. \A x \in w : \E m \in 1..Len(S) : S[m].is = "hunk" /\ x \in WrittenIn(S[m])
      <3> SUFFICES ASSUME NEW x \in w PROVE \E m \in 1..Len(S) : S[m].is = "hunk"
        /\ x \in WrittenIn(S[m])
        OBVIOUS
      <3>1. PICK m \in 1..Len(H) : H[m].is = "hunk" /\ x \in WrittenIn(H[m])
        BY <1>1
      <3>2. 2 + m \in 1..Len(S) /\ S[2 + m] = H[m]
        BY <1>5, <2>4, <2>5
      <3>3. QED
        BY <3>1, <3>2
    <2>14. Len(S) # 1 <=> (w # {} \/ f \in b.cut)
      BY <1>1, <1>5, <1>7, <2>4
    <2>15. Len(S) \in Nat \ {0}
      BY <1>5, <2>4
    <2>16. QED
      BY <2>4, <2>6, <2>8, <2>10, <2>12, <2>13, <2>14, <2>15 DEF SectionReads, S, w, E, name
  <1>8. QED
    BY <1>6, <1>7

(* Where each section begins in what git prints: they lie apart, and there  *)
(* is nothing between them.                                                *)
LaidOut(b, o) ==
  /\ o \in [Touched(b) -> Nat]
  /\ Printed(b) \in Seq(LinesOf(b))
  /\ \A f \in Touched(b) : \A m \in 1..Len(Section(b, f)) :
       o[f] + m <= Len(Printed(b)) /\ Printed(b)[o[f] + m] = Section(b, f)[m]
  /\ \A p \in 1..Len(Printed(b)) : \E f \in Touched(b), m \in Nat \ {0} : m <= Len(Section(b, f))
     /\ p = o[f] + m
  /\ \A f, g \in Touched(b) : f # g =>
       o[f] + Len(Section(b, f)) <= o[g] \/ o[g] + Len(Section(b, g)) <= o[f]

(* git prints every touched file's section, each of them apart.              *)
LEMMA PrintedIsLaidOut ==
  ASSUME NEW b \in Branches
  PROVE  \E o : LaidOut(b, o)
  <1> DEFINE T == Touched(b)
             order == SetToSeq(T)
             n == Cardinality(T)
             parts == [k \in DOMAIN order |-> Section(b, order[k])]
             E == LinesOf(b)
  <1>1. T \subseteq File /\ IsFiniteSet(T)
    <2>1. T \subseteq File
      BY DEF Touched
    <2> HIDE DEF T
    <2>2. QED
      BY <2>1, ChangeAssumption, FS_Subset
  <1> HIDE DEF T
  <1>2. /\ n \in Nat /\ DOMAIN order = 1..n /\ order \in [1..n -> T]
        /\ \A i, j \in 1..n : order[i] = order[j] => i = j
        /\ \A f \in T : \E k \in 1..n : order[k] = f
    BY <1>1, SetInTurn
  <1> HIDE DEF order, n
  <1>3. \A f \in T : Section(b, f) \in Seq(E) /\ Len(Section(b, f)) \in Nat
    <2> SUFFICES ASSUME NEW f \in T PROVE Section(b, f) \in Seq(E) /\ Len(Section(b, f)) \in Nat
      OBVIOUS
    <2>1. SectionReads(b, f, Section(b, f))
      BY <1>1, SectionIs
    <2>2. QED
      BY <2>1 DEF SectionReads
  <1> HIDE DEF E
  <1>4. parts \in Seq(Seq(E)) /\ Len(parts) = n /\ \A k \in 1..n : parts[k] = Section(b, order[k])
    <2>1. \A k \in 1..n : Section(b, order[k]) \in Seq(E)
      BY <1>2, <1>3
    <2>2. QED
      BY <1>2, <2>1
  <1>5. Printed(b) = FlattenSeq(parts)
    BY DEF Printed, order, parts, T
  <1> HIDE DEF parts
  <1>6. Printed(b) \in Seq(E) /\ \E at : Joined(parts, Printed(b), at)
    BY <1>4, <1>5, FlattenIsJoined
  <1>7. PICK at : Joined(parts, Printed(b), at)
    BY <1>6
  <1> DEFINE P == Printed(b)
  <1> HIDE DEF P
  <1>8. /\ at \in [0..n -> Nat] /\ at[0] = 0
        /\ \A i \in 1..n : at[i] = at[i - 1] + Len(Section(b, order[i])) /\ at[i - 1] \in Nat
           /\ at[i] \in Nat
        /\ \A i \in 1..n, m \in Nat \ {0} : m <= Len(Section(b, order[i])) => at[i - 1] + m <= Len(P)
           /\ P[at[i - 1] + m] = Section(b, order[i])[m]
        /\ \A p \in 1..Len(P) : \E i \in 1..n, m \in Nat \ {0} : m <= Len(Section(b, order[i]))
           /\ p = at[i - 1] + m
    <2>1. /\ at \in [0..n -> Nat] /\ at[0] = 0
          /\ \A i \in 1..n : at[i] = at[i - 1] + Len(parts[i])
          /\ \A i \in 1..n, m \in Nat \ {0} : m <= Len(parts[i]) => at[i - 1] + m <= Len(P)
             /\ P[at[i - 1] + m] = parts[i][m]
          /\ \A p \in 1..Len(P) : \E i \in 1..n, m \in Nat \ {0} : m <= Len(parts[i])
             /\ p = at[i - 1] + m
      BY <1>4, <1>7 DEF Joined, P
    <2>2. \A i \in 1..n : i \in 0..n /\ i - 1 \in 0..n
      BY <1>2
    <2>3. \A i \in 1..n : at[i - 1] \in Nat /\ at[i] \in Nat
      BY <2>1, <2>2
    <2>4. \A i \in 1..n : parts[i] = Section(b, order[i])
      BY <1>4
    <2>5. QED
      BY <2>1, <2>3, <2>4
  <1>9. \A i, j \in 1..n : i < j => at[i] <= at[j - 1]
    <2> SUFFICES ASSUME NEW i \in 1..n PROVE \A j \in 1..n : i < j => at[i] <= at[j - 1]
      OBVIOUS
    <2> DEFINE good == {k \in 0..n : i <= k => at[i] <= at[k]}
    <2>1. 0 \in good
      BY <1>2
    <2>2. ASSUME NEW k \in 1..n, k - 1 \in good PROVE k \in good
      <3>1. at[k] = at[k - 1] + Len(Section(b, order[k])) /\ at[k - 1] \in Nat
            /\ Len(Section(b, order[k])) \in Nat
        BY <1>2, <1>3, <1>8
      <3>2. i <= k - 1 => at[i] <= at[k - 1]
        BY <2>2
      <3>3. at[i] \in Nat /\ (i <= k => i = k \/ i <= k - 1)
        <4>1. at[i] \in Nat /\ i \in Nat /\ k \in Nat
          BY <1>2, <1>8
        <4>2. QED
          BY <4>1
      <3>4. i <= k => at[i] <= at[k]
        BY <3>1, <3>2, <3>3
      <3>5. k \in 0..n
        BY <1>2
      <3>6. QED
        BY <3>4, <3>5
    <2> HIDE DEF good
    <2>3. \A k \in 0..n : k \in good
      BY <1>2, <2>1, <2>2, UpToAll
    <2>4. ASSUME NEW j \in 1..n, i < j PROVE at[i] <= at[j - 1]
      <3>1. j - 1 \in 0..n /\ i <= j - 1
        BY <1>2, <2>4
      <3>2. QED
        BY <2>3, <3>1 DEF good
    <2>5. QED
      BY <2>4
  <1> DEFINE num == [f \in T |-> CHOOSE k \in 1..n : order[k] = f]
             o == [f \in T |-> at[num[f] - 1]]
  <1>10. \A f \in T : num[f] \in 1..n /\ order[num[f]] = f
    BY <1>2
  <1> HIDE DEF num
  <1>11. o \in [T -> Nat] /\ \A f \in T : o[f] = at[num[f] - 1]
    BY <1>8, <1>10
  <1> HIDE DEF o
  <1>12. ASSUME NEW f \in T, NEW m \in 1..Len(Section(b, f))
         PROVE  o[f] + m <= Len(P) /\ P[o[f] + m] = Section(b, f)[m]
    <2>1. m \in Nat \ {0} /\ m <= Len(Section(b, f))
      BY <1>3
    <2>2. num[f] \in 1..n /\ order[num[f]] = f /\ o[f] = at[num[f] - 1]
      BY <1>10, <1>11
    <2> DEFINE i == num[f]
    <2>3. i \in 1..n /\ order[i] = f /\ o[f] = at[i - 1]
      BY <2>2
    <2> HIDE DEF i
    <2>4. at[i - 1] + m <= Len(P) /\ P[at[i - 1] + m] = Section(b, order[i])[m]
      BY <1>8, <2>1, <2>3
    <2>5. QED
      BY <2>3, <2>4
  <1>13. ASSUME NEW p \in 1..Len(P)
         PROVE  \E f \in T, m \in Nat \ {0} : m <= Len(Section(b, f)) /\ p = o[f] + m
    <2>1. PICK i \in 1..n, m \in Nat \ {0} : m <= Len(Section(b, order[i])) /\ p = at[i - 1] + m
      BY <1>8
    <2>2. order[i] \in T
      BY <1>2
    <2>3. num[order[i]] = i
      BY <1>2, <1>10, <2>2
    <2>4. o[order[i]] = at[i - 1]
      BY <1>11, <2>2, <2>3
    <2>5. QED
      BY <2>1, <2>2, <2>4
  <1>14. ASSUME NEW f \in T, NEW g \in T, f # g
         PROVE  o[f] + Len(Section(b, f)) <= o[g] \/ o[g] + Len(Section(b, g)) <= o[f]
    <2>1. /\ num[f] \in 1..n /\ num[g] \in 1..n /\ num[f] # num[g]
          /\ o[f] = at[num[f] - 1] /\ o[g] = at[num[g] - 1]
          /\ at[num[f]] = o[f] + Len(Section(b, f)) /\ at[num[g]] = o[g] + Len(Section(b, g))
      <3>1. /\ num[f] \in 1..n /\ num[g] \in 1..n /\ order[num[f]] = f /\ order[num[g]] = g
            /\ o[f] = at[num[f] - 1] /\ o[g] = at[num[g] - 1]
        BY <1>10, <1>11
      <3>2. num[f] # num[g]
        BY <1>14, <3>1
      <3>3. \A i \in 1..n : at[i] = at[i - 1] + Len(Section(b, order[i]))
        BY <1>8
      <3>4. /\ at[num[f]] = at[num[f] - 1] + Len(Section(b, order[num[f]]))
            /\ at[num[g]] = at[num[g] - 1] + Len(Section(b, order[num[g]]))
        BY <3>1, <3>3
      <3>5. QED
        BY <3>1, <3>2, <3>4
    <2>2. num[f] < num[g] \/ num[g] < num[f]
      BY <1>2, <2>1
    <2>3. QED
      BY <1>9, <2>1, <2>2
  <1>15. LaidOut(b, o)
    BY <1>6, <1>11, <1>12, <1>13, <1>14 DEF LaidOut, T, P, E
  <1>16. QED
    BY <1>15

-----------------------------------------------------------------------------
(* The change set: git's answer, read line by line. *)

(* What is known once k lines of git's answer have been read.               *)
Got(o, k, f, m) == m \in 1..Len(Section(branch, f)) /\ o[f] + m <= k
Opened(o, k, f) == f \in Graded /\ f \notin branch.quoted /\ Got(o, k, f, 2)
Said(o, k, f) ==
  {l \in Nat : \E m \in 1..Len(Section(branch, f)) :
     Got(o, k, f, m) /\ Section(branch, f)[m].is = "hunk" /\ l \in WrittenIn(Section(branch, f)[m])}
(* What is known when k lines of git's answer are read: which files have    *)
(* been opened and the lines said of them, that a quoted name was noticed,   *)
(* and whose section is being read.                                         *)
Turned(k) == k \in 0..Len(Printed(branch))
  /\ diff = SubSeq(Printed(branch), k + 1, Len(Printed(branch)))
CollectedSo(o, k) ==
  /\ \A f \in DOMAIN changed : f \in Touched(branch) /\ Opened(o, k, f) /\ changed[f] = Said(o, k, f)
  /\ \A f \in Touched(branch) : Opened(o, k, f) => f \in DOMAIN changed
Noticed(o, k) == \A f \in Touched(branch) : f \in branch.quoted /\ Got(o, k, f, 3) => problems > 0
MidSection(o, k) ==
  \A f \in Touched(branch) : \A m \in 1..Len(Section(branch, f)) : k = o[f] + m =>
    /\ unnamed <=> (m = 1 \/ (m = 2 /\ f \in branch.quoted))
    /\ lines = IF m # 1 /\ f \notin branch.quoted /\ f \in Graded THEN f ELSE Nowhere
Halfway(o, k) == Turned(k) /\ CollectedSo(o, k) /\ Noticed(o, k) /\ MidSection(o, k)

(* changeSet's answer, where nothing was left unread.                       *)
AllIsKnown ==
  problems = 0 =>
    /\ \A f \in Graded : f \in DOMAIN changed <=> (branch.wrote[f] # {} \/ f \in branch.cut)
    /\ \A f \in DOMAIN changed : f \in Graded /\ changed[f] = branch.wrote[f]
ReadSo ==
  /\ branch \in Branches /\ problems \in Nat /\ stage \in {"base", "reading", "changed", "settled"}
  /\ stage = "base" => changed = <<>> /\ ~unnamed /\ lines = Nowhere /\ problems = 0
  /\ stage = "reading" => branch.base = "named" /\ \E o, k : LaidOut(branch, o) /\ Halfway(o, k)
  /\ stage = "changed" => branch.base = "named" /\ problems = 0 /\ AllIsKnown
  /\ stage = "settled" /\ branch.base = "named" => AllIsKnown /\ (problems = 0 => DOMAIN changed = {})
  /\ stage = "settled" /\ branch.base # "named" => changed = <<>> /\ problems = 0

(* The line read next, and whose it is.                                     *)
NextIs(o, k) ==
  /\ k \in Nat /\ k + 1 \in 0..Len(Printed(branch))
  /\ Tail(diff) = SubSeq(Printed(branch), (k + 1) + 1, Len(Printed(branch)))
  /\ \E f \in Touched(branch) : \E m \in 1..Len(Section(branch, f)) :
       /\ k + 1 = o[f] + m /\ Head(diff) = Section(branch, f)[m]
       /\ \A g \in Touched(branch) : g # f => \A x \in 1..Len(Section(branch, g)) : k + 1 # o[g] + x
          /\ (m # 1 => k # o[g] + x)

LEMMA NextLine ==
  ASSUME branch \in Branches, NEW o, NEW k, LaidOut(branch, o), Turned(k), diff # <<>>
  PROVE  NextIs(o, k)
  <1> DEFINE P == Printed(branch)
             E == LinesOf(branch)
  <1>1. P \in Seq(E) /\ Len(P) \in Nat /\ k \in 0..Len(P) /\ diff = SubSeq(P, k + 1, Len(P))
    BY DEF LaidOut, Turned
  <1> HIDE DEF P, E
  <1>2. k # Len(P)
    <2> SUFFICES ASSUME k = Len(P) PROVE FALSE
      OBVIOUS
    <2>1. SubSeq(P, k + 1, Len(P)) = <<>>
      BY <1>1
    <2>2. QED
      BY <1>1, <2>1
  <1>3. k \in Nat /\ k + 1 \in 1..Len(P) /\ k + 1 \in 0..Len(P)
    BY <1>1, <1>2
  <1>4. diff \in Seq(E) /\ Head(diff) = P[k + 1] /\ Tail(diff) = SubSeq(P, (k + 1) + 1, Len(P))
    <2>1. diff \in Seq(E) /\ Len(diff) = Len(P) - k /\ \A i \in 1..(Len(P) - k) : diff[i] = P[k + i]
      BY <1>1, <1>3
    <2>2. Head(diff) = P[k + 1]
      BY <1>3, <2>1
    <2> DEFINE rest == SubSeq(P, (k + 1) + 1, Len(P))
    <2>3. rest \in Seq(E) /\ Len(rest) = Len(P) - (k + 1)
          /\ \A i \in 1..(Len(P) - (k + 1)) : rest[i] = P[(k + 1) + i]
      BY <1>1, <1>3
    <2> HIDE DEF rest
    <2>4. Tail(diff) \in Seq(E) /\ Len(Tail(diff)) = Len(P) - (k + 1)
          /\ \A i \in 1..(Len(P) - (k + 1)) : Tail(diff)[i] = diff[i + 1]
      BY <1>1, <1>3, <2>1
    <2>5. \A i \in 1..(Len(P) - (k + 1)) : Tail(diff)[i] = rest[i]
      <3> SUFFICES ASSUME NEW i \in 1..(Len(P) - (k + 1)) PROVE Tail(diff)[i] = rest[i]
        OBVIOUS
      <3>1. i + 1 \in 1..(Len(P) - k) /\ k + (i + 1) = (k + 1) + i
        BY <1>1, <1>3
      <3>2. QED
        BY <2>1, <2>3, <2>4, <3>1
    <2>6. Tail(diff) = rest
      <3> DEFINE t == Tail(diff)
                 n == Len(P) - (k + 1)
      <3>1. t \in Seq(E) /\ rest \in Seq(E) /\ Len(t) = n /\ Len(rest) = n
            /\ \A i \in 1..n : t[i] = rest[i]
        BY <2>3, <2>4, <2>5
      <3> HIDE DEF t, n
      <3>2. t \in [1..n -> E] /\ rest \in [1..n -> E]
        BY <3>1
      <3>3. t = rest
        BY <3>1, <3>2
      <3>4. QED
        BY <3>3 DEF t
    <2>7. QED
      BY <2>1, <2>2, <2>6 DEF rest
  <1>5. PICK f \in Touched(branch), m \in Nat \ {0} : m <= Len(Section(branch, f)) /\ k + 1 = o[f] + m
    BY <1>3 DEF LaidOut, P
  <1>6. \A g \in Touched(branch) : Len(Section(branch, g)) \in Nat /\ o[g] \in Nat
    <2>1. ASSUME NEW g \in Touched(branch) PROVE Len(Section(branch, g)) \in Nat /\ o[g] \in Nat
      <3>1. g \in File
        BY DEF Touched
      <3>2. SectionReads(branch, g, Section(branch, g))
        BY <3>1, SectionIs
      <3>3. QED
        BY <3>2 DEF SectionReads, LaidOut
    <2>2. QED
      BY <2>1
  <1>7. m \in 1..Len(Section(branch, f))
    BY <1>5, <1>6
  <1>8. Head(diff) = Section(branch, f)[m]
    <2>1. P[o[f] + m] = Section(branch, f)[m]
      BY <1>7 DEF LaidOut, P
    <2>2. QED
      BY <1>4, <1>5, <2>1
  <1>9. ASSUME NEW g \in Touched(branch), g # f, NEW x \in 1..Len(Section(branch, g))
        PROVE  k + 1 # o[g] + x /\ (m # 1 => k # o[g] + x)
    <2>1. o[f] + Len(Section(branch, f)) <= o[g] \/ o[g] + Len(Section(branch, g)) <= o[f]
      BY <1>9 DEF LaidOut
    <2> DEFINE a == o[f]
               z == o[g]
               s == Len(Section(branch, f))
               t == Len(Section(branch, g))
    <2>2. a \in Nat /\ z \in Nat /\ s \in Nat /\ t \in Nat /\ (a + s <= z \/ z + t <= a) /\ m \in 1..s
          /\ x \in 1..t /\ k + 1 = a + m
      BY <1>5, <1>6, <1>7, <2>1
    <2> HIDE DEF a, z, s, t
    <2>3. k + 1 # z + x /\ (m # 1 => k # z + x)
      BY <1>3, <2>2
    <2>4. QED
      BY <2>3 DEF z
  <1>10. QED
    BY <1>3, <1>4, <1>5, <1>7, <1>8, <1>9 DEF P, NextIs

(* One more line read: for every file, what was got of it so far.           *)
LEMMA GotNext ==
  ASSUME branch \in Branches, NEW o, NEW k \in Nat, LaidOut(branch, o), NEW f \in Touched(branch),
         NEW m \in 1..Len(Section(branch, f)), k + 1 = o[f] + m,
         \A g \in Touched(branch) : g # f => \A x \in 1..Len(Section(branch, g)) : k + 1 # o[g] + x
           /\ (m # 1 => k # o[g] + x)
  PROVE  /\ \A g \in Touched(branch) : g # f => \A x : Got(o, k + 1, g, x) <=> Got(o, k, g, x)
         /\ \A x : Got(o, k + 1, f, x) <=> (x \in 1..Len(Section(branch, f)) /\ x <= m)
         /\ \A x : Got(o, k, f, x) <=> (x \in 1..Len(Section(branch, f)) /\ x < m)
         /\ SectionReads(branch, f, Section(branch, f)) /\ f \in File /\ f # Nowhere
         /\ m # 1 => m - 1 \in 1..Len(Section(branch, f)) /\ k = o[f] + (m - 1)
  <1>1. \A g \in Touched(branch) : Len(Section(branch, g)) \in Nat /\ o[g] \in Nat
        /\ SectionReads(branch, g, Section(branch, g)) /\ g \in File
    <2>1. ASSUME NEW g \in Touched(branch)
          PROVE  Len(Section(branch, g)) \in Nat /\ o[g] \in Nat
                 /\ SectionReads(branch, g, Section(branch, g)) /\ g \in File
      <3>1. g \in File
        BY DEF Touched
      <3>2. SectionReads(branch, g, Section(branch, g))
        BY <3>1, SectionIs
      <3>3. QED
        BY <3>1, <3>2 DEF SectionReads, LaidOut
    <2>2. QED
      BY <2>1
  <1>2. ASSUME NEW g \in Touched(branch), g # f, NEW x PROVE Got(o, k + 1, g, x) <=> Got(o, k, g, x)
    <2> DEFINE z == o[g]
               t == Len(Section(branch, g))
    <2>1. z \in Nat /\ t \in Nat /\ (x \in 1..t => k + 1 # z + x)
      BY <1>1, <1>2
    <2> HIDE DEF z, t
    <2>2. (x \in 1..t /\ z + x <= k + 1) <=> (x \in 1..t /\ z + x <= k)
      BY <2>1
    <2>3. QED
      BY <2>2 DEF Got, z, t
  <1>3. ASSUME NEW x PROVE /\ Got(o, k + 1, f, x) <=> (x \in 1..Len(Section(branch, f)) /\ x <= m)
                           /\ Got(o, k, f, x) <=> (x \in 1..Len(Section(branch, f)) /\ x < m)
    <2> DEFINE z == o[f]
               t == Len(Section(branch, f))
    <2>1. z \in Nat /\ t \in Nat /\ k + 1 = z + m /\ m \in 1..t
      BY <1>1
    <2> HIDE DEF z, t
    <2>2. /\ (x \in 1..t /\ z + x <= k + 1) <=> (x \in 1..t /\ x <= m)
          /\ (x \in 1..t /\ z + x <= k) <=> (x \in 1..t /\ x < m)
      BY <2>1
    <2>3. QED
      BY <2>2 DEF Got, z, t
  <1>4. ASSUME m # 1 PROVE m - 1 \in 1..Len(Section(branch, f)) /\ k = o[f] + (m - 1)
    <2> DEFINE z == o[f]
               t == Len(Section(branch, f))
    <2>1. z \in Nat /\ t \in Nat /\ k + 1 = z + m /\ m \in 1..t
      BY <1>1
    <2> HIDE DEF z, t
    <2>2. m - 1 \in 1..t /\ k = z + (m - 1)
      BY <1>4, <2>1
    <2>3. QED
      BY <2>2 DEF z, t
  <1>5. QED
    BY <1>1, <1>2, <1>3, <1>4, ChangeAssumption

(* A line read on: what is known of the lines before it holds of one more.  *)
LEMMA LineRead ==
  ASSUME ReadSo, Reading, OpenSection \/ NameFile \/ RefuseUnnamed \/ CollectHunk \/ PassOver,
         NEW o, NEW k, LaidOut(branch, o), Halfway(o, k)
  PROVE  Halfway(o, k + 1)' /\ problems' \in Nat
  <1>1. branch \in Branches /\ problems \in Nat /\ diff # <<>> /\ diff' = Tail(diff) /\ branch' = branch
    BY DEF ReadSo, Reading
  <1>2. Turned(k) /\ CollectedSo(o, k) /\ Noticed(o, k) /\ MidSection(o, k)
    BY DEF Halfway
  <1>3. /\ k \in Nat /\ k + 1 \in 0..Len(Printed(branch))
        /\ Tail(diff) = SubSeq(Printed(branch), (k + 1) + 1, Len(Printed(branch)))
        /\ \E f \in Touched(branch) : \E m \in 1..Len(Section(branch, f)) :
             /\ k + 1 = o[f] + m /\ Head(diff) = Section(branch, f)[m]
             /\ \A g \in Touched(branch) : g # f =>
                  \A x \in 1..Len(Section(branch, g)) : k + 1 # o[g] + x /\ (m # 1 => k # o[g] + x)
    <2>1. LaidOut(branch, o)
      OBVIOUS
    <2>2. NextIs(o, k)
      BY <1>1, <1>2, <2>1, NextLine
    <2>3. QED
      BY <2>2 DEF NextIs
  <1>4. Turned(k + 1)'
    BY <1>1, <1>3 DEF Turned
  <1>25. PICK f \in Touched(branch) : \E m \in 1..Len(Section(branch, f)) :
             /\ k + 1 = o[f] + m /\ Head(diff) = Section(branch, f)[m]
             /\ \A g \in Touched(branch) : g # f =>
                  \A x \in 1..Len(Section(branch, g)) : k + 1 # o[g] + x /\ (m # 1 => k # o[g] + x)
    BY <1>3
  <1>5. PICK m \in 1..Len(Section(branch, f)) :
             /\ k + 1 = o[f] + m /\ Head(diff) = Section(branch, f)[m]
             /\ \A g \in Touched(branch) : g # f =>
                  \A x \in 1..Len(Section(branch, g)) : k + 1 # o[g] + x /\ (m # 1 => k # o[g] + x)
    BY <1>25
  <1> DEFINE S == Section(branch, f)
  <1>6. /\ \A g \in Touched(branch) : g # f => \A x : Got(o, k + 1, g, x) <=> Got(o, k, g, x)
        /\ \A x : Got(o, k + 1, f, x) <=> (x \in 1..Len(S) /\ x <= m)
        /\ \A x : Got(o, k, f, x) <=> (x \in 1..Len(S) /\ x < m)
        /\ SectionReads(branch, f, S) /\ f \in File /\ f # Nowhere
        /\ m # 1 => m - 1 \in 1..Len(S) /\ k = o[f] + (m - 1)
    BY <1>1, <1>3, <1>5, GotNext
  <1> HIDE DEF S
  <1>7. /\ Len(S) \in Nat \ {0} /\ S[1] = Opens
        /\ Len(S) # 1 => Len(S) >= 3 /\ S[2] = (IF f \in branch.quoted THEN Body ELSE Names(f))
           /\ S[3].is = "hunk"
        /\ \A x \in 3..Len(S) : S[x].is # "opens"
        /\ \A x \in 1..Len(S) : S[x].is = "hunk" => x >= 3
    BY <1>6 DEF SectionReads
  <1>8. Line = S[m] /\ m \in 1..Len(S) /\ m \in Nat \ {0}
    BY <1>5, <1>7 DEF Line, S
  (* What the variables hold before the line. *)
  <1>9. m # 1 => /\ unnamed <=> (m = 2 \/ (m = 3 /\ f \in branch.quoted))
                 /\ lines = IF m # 2 /\ f \notin branch.quoted /\ f \in Graded THEN f ELSE Nowhere
    <2> SUFFICES ASSUME m # 1
                 PROVE  /\ unnamed <=> (m = 2 \/ (m = 3 /\ f \in branch.quoted))
                        /\ lines = IF m # 2 /\ f \notin branch.quoted
                           /\ f \in Graded THEN f ELSE Nowhere
      OBVIOUS
    <2>1. m - 1 \in 1..Len(S) /\ k = o[f] + (m - 1)
      BY <1>6
    <2>2. /\ unnamed <=> (m - 1 = 1 \/ (m - 1 = 2 /\ f \in branch.quoted))
          /\ lines = IF m - 1 # 1 /\ f \notin branch.quoted /\ f \in Graded THEN f ELSE Nowhere
      BY <1>2, <2>1 DEF MidSection, S
    <2>3. (m - 1 = 1 <=> m = 2) /\ (m - 1 = 2 <=> m = 3)
      BY <1>8
    <2>4. QED
      BY <2>2, <2>3
  <1>10. /\ \A g \in Touched(branch) : g # f => (Opened(o, k + 1, g) <=> Opened(o, k, g))
            /\ Said(o, k + 1, g) = Said(o, k, g)
         /\ m # 2 => (Opened(o, k + 1, f) <=> Opened(o, k, f))
         /\ S[m].is # "hunk" => Said(o, k + 1, f) = Said(o, k, f)
         /\ S[m].is = "hunk" =>
              Said(o, k + 1, f) = Said(o, k, f) \cup {l \in Nat : l \in WrittenIn(S[m])}
    <2>1. \A g \in Touched(branch) : g # f => (Opened(o, k + 1, g) <=> Opened(o, k, g))
          /\ Said(o, k + 1, g) = Said(o, k, g)
      BY <1>6 DEF Opened, Said
    <2>2. m # 2 => (Opened(o, k + 1, f) <=> Opened(o, k, f))
      BY <1>6, <1>8 DEF Opened
    <2>3. /\ Said(o, k, f) = {l \in Nat : \E x \in 1..Len(S) : x < m /\ S[x].is = "hunk" /\ l \in WrittenIn(S[x])}
          /\ Said(o, k + 1, f) =
               {l \in Nat : \E x \in 1..Len(S) : x <= m /\ S[x].is = "hunk" /\ l \in WrittenIn(S[x])}
      BY <1>6 DEF Said, S
    <2>4. \A x \in 1..Len(S) : x <= m <=> (x < m \/ x = m)
      BY <1>8
    <2>5. S[m].is # "hunk" => Said(o, k + 1, f) = Said(o, k, f)
      BY <1>8, <2>3, <2>4
    <2>6. S[m].is = "hunk" =>
            Said(o, k + 1, f) = Said(o, k, f) \cup {l \in Nat : l \in WrittenIn(S[m])}
      BY <1>8, <2>3, <2>4
    <2>7. QED
      BY <2>1, <2>2, <2>5, <2>6
  (* What has to be seen to, of the variables after it. *)
  <1>11. ASSUME changed' = changed, m = 2 =>
                  f \in branch.quoted \/ f \notin Graded, S[m].is # "hunk" \/ ~Opened(o, k, f)
         PROVE  CollectedSo(o, k + 1)'
    <2>1. Opened(o, k + 1, f) <=> Opened(o, k, f)
      <3>1. m = 2 => ~Opened(o, k + 1, f) /\ ~Opened(o, k, f)
        BY <1>11 DEF Opened
      <3>2. QED
        BY <1>10, <3>1
    <2>2. \A g \in Touched(branch) : (Opened(o, k + 1, g) <=> Opened(o, k, g))
          /\ (Opened(o, k, g) => Said(o, k + 1, g) = Said(o, k, g))
      BY <1>10, <1>11, <2>1
    <2>3. /\ \A g \in DOMAIN changed : g \in Touched(branch) /\ Opened(o, k + 1, g)
             /\ changed[g] = Said(o, k + 1, g)
          /\ \A g \in Touched(branch) : Opened(o, k + 1, g) => g \in DOMAIN changed
      BY <1>2, <2>2 DEF CollectedSo
    <2>4. QED
      BY <1>1, <1>11, <2>3 DEF CollectedSo, Opened, Said, Got
  <1>12. ASSUME problems' >= problems, problems' \in Nat, m >= 3 /\ f \in branch.quoted => problems' > 0
         PROVE  Noticed(o, k + 1)'
    <2>1. \A g \in Touched(branch) : g \in branch.quoted /\ Got(o, k + 1, g, 3) => problems' > 0
      <3> SUFFICES ASSUME NEW g \in Touched(branch), g \in branch.quoted, Got(o, k + 1, g, 3)
                   PROVE  problems' > 0
        OBVIOUS
      <3>1. CASE g = f
        BY <1>6, <1>8, <1>12, <3>1
      <3>2. CASE g # f
        <4>1. problems > 0
          BY <1>2, <1>6, <3>2 DEF Noticed
        <4>2. QED
          BY <1>1, <1>12, <4>1
      <3>3. QED
        BY <3>1, <3>2
    <2>2. QED
      BY <1>1, <2>1 DEF Noticed, Got
  <1>13. ASSUME unnamed' <=> (m = 1 \/ (m = 2 /\ f \in branch.quoted)),
                lines' = IF m # 1 /\ f \notin branch.quoted /\ f \in Graded THEN f ELSE Nowhere
         PROVE  MidSection(o, k + 1)'
    <2>1. ASSUME NEW g \in Touched(branch), NEW x \in 1..Len(Section(branch, g)), k + 1 = o[g] + x
          PROVE  /\ unnamed' <=> (x = 1 \/ (x = 2 /\ g \in branch.quoted))
                 /\ lines' = IF x # 1 /\ g \notin branch.quoted /\ g \in Graded THEN g ELSE Nowhere
      <3>1. g = f
        BY <1>5, <2>1
      <3>2. o[f] \in Nat
        BY DEF LaidOut
      <3>3. x \in Nat
        BY <1>7, <3>1 DEF S
      <3>4. x = m
        BY <1>5, <1>8, <2>1, <3>1, <3>2, <3>3
      <3>5. QED
        BY <1>13, <3>1, <3>4
    <2>2. QED
      BY <1>1, <2>1 DEF MidSection
  <1>20. CASE OpenSection
    <2>1. m = 1
      <3>1. S[m].is = "opens"
        BY <1>8, <1>20 DEF OpenSection
      <3>2. m # 1 => m = 2 \/ m \in 3..Len(S)
        BY <1>8
      <3>3. m = 2 => S[m].is # "opens"
        BY <1>7, <1>8 DEF Body, Names
      <3>4. QED
        BY <1>7, <3>1, <3>2, <3>3
    <2>2. S[m].is # "hunk"
      BY <1>7, <2>1 DEF Opens
    <2>3. unnamed' = TRUE /\ lines' = Nowhere /\ changed' = changed /\ problems' = problems
      BY <1>20 DEF OpenSection
    <2>4. CollectedSo(o, k + 1)'
      BY <1>11, <2>1, <2>2, <2>3
    <2>5. problems' >= problems /\ problems' \in Nat
      BY <1>1, <2>3
    <2>6. Noticed(o, k + 1)'
      BY <1>12, <2>1, <2>5
    <2>7. MidSection(o, k + 1)'
      BY <1>13, <2>1, <2>3
    <2>8. QED
      BY <1>4, <2>4, <2>5, <2>6, <2>7 DEF Halfway
  <1>21. CASE NameFile
    <2>1. unnamed /\ S[m].is = "names"
      BY <1>8, <1>21 DEF NameFile, Named
    <2>2. m = 2 /\ f \notin branch.quoted /\ S[m] = Names(f)
      <3>1. m # 1
        BY <1>7, <2>1 DEF Opens
      <3>2. m = 2 \/ m = 3
        BY <1>9, <2>1, <3>1
      <3>3. m # 3
        BY <1>7, <1>8, <2>1
      <3>4. QED
        BY <1>7, <1>8, <2>1, <3>2, <3>3 DEF Body
    <2>3. Line.file = f /\ S[m].is # "hunk"
      BY <1>8, <2>1, <2>2 DEF Names
    <2>4. /\ unnamed' = FALSE /\ problems' = problems
          /\ f \in Graded => lines' = f
             /\ changed' = [g \in DOMAIN changed \cup {f} |-> IF g = f THEN {} ELSE changed[g]]
          /\ f \notin Graded => lines' = lines /\ changed' = changed
      BY <1>21, <2>3 DEF NameFile
    <2>5. lines = Nowhere
      BY <1>9, <2>2
    <2>9. problems' >= problems /\ problems' \in Nat
      BY <1>1, <2>4
    <2>10. Noticed(o, k + 1)'
      BY <1>12, <2>2, <2>9
    <2>11. MidSection(o, k + 1)'
      BY <1>13, <2>2, <2>4, <2>5
    <2>6. CASE f \notin Graded
      <3>1. CollectedSo(o, k + 1)'
        BY <1>11, <2>3, <2>4, <2>6
      <3>2. QED
        BY <1>4, <2>9, <2>10, <2>11, <3>1 DEF Halfway
    <2>7. CASE f \in Graded
      <3>1. CollectedSo(o, k + 1)'
        <4>1. Opened(o, k + 1, f)
          BY <1>6, <1>8, <2>2, <2>7 DEF Opened
        <4>2. ~Got(o, k, f, 2) /\ ~Opened(o, k, f)
          BY <1>6, <2>2 DEF Opened
        <4>3. f \notin DOMAIN changed
          BY <1>2, <4>2 DEF CollectedSo
        <4>4. Said(o, k, f) = {}
          <5>1. \A x : Got(o, k, f, x) => S[x].is # "hunk"
            BY <1>6, <1>7, <2>2
          <5>2. QED
            BY <5>1 DEF Said, S
        <4>5. Said(o, k + 1, f) = {}
          BY <1>10, <2>3, <4>4
        <4>6. DOMAIN changed' = DOMAIN changed \cup {f} /\ changed'[f] = {}
              /\ \A g \in DOMAIN changed : changed'[g] = changed[g]
          BY <2>4, <2>7, <4>3
        <4>7. \A g \in DOMAIN changed' : g \in Touched(branch) /\ Opened(o, k + 1, g)
              /\ changed'[g] = Said(o, k + 1, g)
          <5> SUFFICES ASSUME NEW g \in DOMAIN changed'
                       PROVE  g \in Touched(branch) /\ Opened(o, k + 1, g)
                              /\ changed'[g] = Said(o, k + 1, g)
            OBVIOUS
          <5>1. CASE g = f
            BY <4>1, <4>5, <4>6, <5>1
          <5>2. CASE g # f
            BY <1>2, <1>10, <4>6, <5>2 DEF CollectedSo
          <5>3. QED
            BY <5>1, <5>2
        <4>8. \A g \in Touched(branch) : Opened(o, k + 1, g) => g \in DOMAIN changed'
          BY <1>2, <1>10, <4>6 DEF CollectedSo
        <4>9. QED
          BY <1>1, <4>7, <4>8 DEF CollectedSo, Opened, Said, Got
      <3>2. QED
        BY <1>4, <2>9, <2>10, <2>11, <3>1 DEF Halfway
    <2>8. QED
      BY <2>6, <2>7
  <1>22. CASE RefuseUnnamed
    <2>1. S[m].is = "hunk" /\ unnamed
      BY <1>8, <1>22 DEF RefuseUnnamed
    <2>2. m = 3 /\ f \in branch.quoted
      <3>1. m >= 3
        BY <1>7, <1>8, <2>1
      <3>2. m # 1 /\ m # 2
        BY <1>8, <3>1
      <3>3. QED
        BY <1>9, <2>1, <3>2
    <2>3. unnamed' = FALSE /\ problems' = problems + 1 /\ lines' = lines /\ changed' = changed
      BY <1>22 DEF RefuseUnnamed, Unread
    <2>4. lines = Nowhere /\ ~Opened(o, k, f)
      BY <1>9, <2>2 DEF Opened
    <2>5. problems' >= problems /\ problems' \in Nat /\ problems' > 0
      BY <1>1, <2>3
    <2>6. CollectedSo(o, k + 1)'
      BY <1>11, <2>2, <2>3, <2>4
    <2>7. Noticed(o, k + 1)'
      BY <1>12, <2>5
    <2>8. MidSection(o, k + 1)'
      BY <1>13, <2>2, <2>3, <2>4
    <2>9. QED
      BY <1>4, <2>5, <2>6, <2>7, <2>8 DEF Halfway
  <1>23. CASE CollectHunk
    <2>1. S[m].is = "hunk" /\ ~unnamed
      BY <1>8, <1>23 DEF CollectHunk
    <2>2. m >= 3 /\ m # 1 /\ m # 2 /\ (f \in branch.quoted => m > 3)
      <3>1. m >= 3
        BY <1>7, <1>8, <2>1
      <3>2. m # 1 /\ m # 2
        BY <1>8, <3>1
      <3>3. f \in branch.quoted => m # 3
        BY <1>9, <2>1, <3>2
      <3>4. QED
        BY <1>8, <3>1, <3>2, <3>3
    <2>3. /\ unnamed' = unnamed /\ lines' = lines /\ problems' = problems
          /\ changed' = IF lines = Nowhere THEN changed ELSE [changed EXCEPT ![lines] = @ \cup WrittenIn(S[m])]
      BY <1>8, <1>23 DEF CollectHunk, WrittenIn
    <2>4. lines = IF f \notin branch.quoted /\ f \in Graded THEN f ELSE Nowhere
      BY <1>9, <2>2
    <2>5. f \in branch.quoted => problems > 0
      <3>1. f \in branch.quoted => Got(o, k, f, 3)
        BY <1>6, <1>8, <2>2
      <3>2. QED
        BY <1>2, <3>1 DEF Noticed
    <2>6. Noticed(o, k + 1)' /\ MidSection(o, k + 1)'
      <3>1. problems' >= problems /\ problems' \in Nat /\ (f \in branch.quoted => problems' > 0)
        BY <1>1, <2>3, <2>5
      <3>2. Noticed(o, k + 1)'
        BY <1>12, <3>1
      <3>3. MidSection(o, k + 1)'
        BY <1>13, <2>1, <2>2, <2>3, <2>4
      <3>4. QED
        BY <3>2, <3>3
    <2>7. CASE lines = Nowhere
      <3>1. ~Opened(o, k, f)
        BY <1>6, <2>4, <2>7 DEF Opened
      <3>2. CollectedSo(o, k + 1)'
        BY <1>11, <2>2, <2>3, <2>7, <3>1
      <3>3. QED
        BY <1>1, <1>4, <2>3, <2>6, <3>2 DEF Halfway
    <2>8. CASE lines # Nowhere
      <3>1. lines = f /\ f \notin branch.quoted /\ f \in Graded
        BY <2>4, <2>8
      <3>2. Opened(o, k, f) /\ Opened(o, k + 1, f)
        <4>1. 2 \in 1..Len(S) /\ 2 < m
          BY <1>7, <1>8, <2>2
        <4>2. Got(o, k, f, 2)
          BY <1>6, <4>1
        <4>3. Opened(o, k, f)
          BY <3>1, <4>2 DEF Opened
        <4>4. QED
          BY <1>10, <2>2, <4>3
      <3>3. f \in DOMAIN changed
        BY <1>2, <3>2 DEF CollectedSo
      <3>4. DOMAIN changed' = DOMAIN changed /\ changed'[f] = changed[f] \cup WrittenIn(S[m])
            /\ \A g \in DOMAIN changed : g # f => changed'[g] = changed[g]
        BY <2>3, <2>8, <3>1, <3>3
      <3>5. WrittenIn(S[m]) \subseteq Nat
        <4>1. WrittenIn(S[m]) \subseteq branch.wrote[f]
          BY <1>6, <1>8, <2>1 DEF SectionReads
        <4>2. branch.wrote[f] \subseteq Nat
          BY <1>1, <1>6, ChangeAssumption
        <4>3. QED
          BY <4>1, <4>2
      <3>6. changed'[f] = Said(o, k + 1, f)
        <4>1. changed[f] = Said(o, k, f)
          BY <1>2, <3>3 DEF CollectedSo
        <4>2. QED
          BY <1>10, <2>1, <3>4, <3>5, <4>1
      <3>7. \A g \in DOMAIN changed : g \in Touched(branch) /\ Opened(o, k + 1, g)
            /\ changed'[g] = Said(o, k + 1, g)
        <4> SUFFICES ASSUME NEW g \in DOMAIN changed
                     PROVE  g \in Touched(branch) /\ Opened(o, k + 1, g)
                            /\ changed'[g] = Said(o, k + 1, g)
          OBVIOUS
        <4>1. CASE g = f
          BY <3>2, <3>6, <4>1
        <4>2. CASE g # f
          BY <1>2, <1>10, <3>4, <4>2 DEF CollectedSo
        <4>3. QED
          BY <4>1, <4>2
      <3>8. \A g \in Touched(branch) : Opened(o, k + 1, g) => g \in DOMAIN changed
        BY <1>2, <1>10, <3>3 DEF CollectedSo
      <3>9. CollectedSo(o, k + 1)'
        BY <1>1, <3>4, <3>7, <3>8 DEF CollectedSo, Opened, Said, Got
      <3>10. QED
        BY <1>1, <1>4, <2>3, <2>6, <3>9 DEF Halfway
    <2>9. QED
      BY <2>7, <2>8
  <1>24. CASE PassOver
    <2>1. S[m].is \notin {"opens", "hunk"} /\ ~(unnamed /\ S[m].is = "names")
      BY <1>8, <1>24 DEF PassOver, Named
    <2>2. unnamed' = unnamed /\ lines' = lines /\ changed' = changed /\ problems' = problems
      BY <1>24 DEF PassOver
    <2>3. m # 1 /\ m # 3
      BY <1>7, <1>8, <2>1 DEF Opens
    <2>4. m = 2 => f \in branch.quoted
      <3> SUFFICES ASSUME m = 2, f \notin branch.quoted PROVE FALSE
        OBVIOUS
      <3>1. unnamed
        BY <1>9
      <3>2. S[m] = Names(f)
        BY <1>7, <1>8
      <3>3. QED
        BY <2>1, <3>1, <3>2 DEF Names
    <2>5. m >= 3 /\ f \in branch.quoted => problems > 0
      <3> SUFFICES ASSUME m >= 3, f \in branch.quoted PROVE problems > 0
        OBVIOUS
      <3>1. 3 \in 1..Len(S) /\ 3 < m
        BY <1>8, <2>3
      <3>2. Got(o, k, f, 3)
        BY <1>6, <3>1
      <3>3. QED
        BY <1>2, <3>2 DEF Noticed
    <2>6. /\ unnamed <=> (m = 1 \/ (m = 2 /\ f \in branch.quoted))
          /\ lines = IF m # 1 /\ f \notin branch.quoted /\ f \in Graded THEN f ELSE Nowhere
      BY <1>9, <2>3, <2>4
    <2>7. QED
      <3>1. problems' >= problems /\ problems' \in Nat
        BY <1>1, <2>2
      <3>2. CollectedSo(o, k + 1)'
        BY <1>11, <2>1, <2>2, <2>4
      <3>3. Noticed(o, k + 1)'
        BY <1>12, <2>2, <2>5, <3>1
      <3>4. MidSection(o, k + 1)'
        BY <1>13, <2>2, <2>6
      <3>5. QED
        BY <1>4, <3>1, <3>2, <3>3, <3>4 DEF Halfway
  <1>30. QED
    BY <1>20, <1>21, <1>22, <1>23, <1>24

(* Once the last line is read, all of what was written is known, unless a   *)
(* section was left unread.                                                *)
LEMMA WholeAtTheEnd ==
  ASSUME branch \in Branches, problems \in Nat, NEW o, NEW k, LaidOut(branch, o), Halfway(o, k),
    diff = <<>>
  PROVE  AllIsKnown
  <1> DEFINE P == Printed(branch)
             E == LinesOf(branch)
  <1>1. P \in Seq(E) /\ Len(P) \in Nat /\ k \in 0..Len(P) /\ SubSeq(P, k + 1, Len(P)) = <<>>
    BY DEF LaidOut, Halfway, Turned
  <1> HIDE DEF P, E
  <1>2. k = Len(P)
    <2> SUFFICES ASSUME k # Len(P) PROVE FALSE
      OBVIOUS
    <2> DEFINE rest == SubSeq(P, k + 1, Len(P))
    <2>1. k \in Nat /\ k < Len(P) /\ k + 1 \in 1..Len(P)
      BY <1>1
    <2>2. Len(rest) = Len(P) - k
      BY <1>1, <2>1
    <2>3. rest = <<>>
      BY <1>1
    <2> HIDE DEF rest
    <2>5. Len(rest) = 0
      BY <2>3
    <2>4. QED
      BY <1>1, <2>1, <2>2, <2>5
  <1>3. \A f \in Touched(branch) : f \in File /\ SectionReads(branch, f, Section(branch, f))
    BY SectionIs DEF Touched
  <1>4. \A f \in Touched(branch) : \A m : Got(o, k, f, m) <=> m \in 1..Len(Section(branch, f))
    BY <1>2 DEF Got, LaidOut, P
  <1>5. ASSUME problems = 0, NEW f \in Touched(branch), branch.wrote[f] # {} \/ f \in branch.cut
        PROVE  f \notin branch.quoted /\ Got(o, k, f, 2)
    <2> DEFINE S == Section(branch, f)
    <2>1. Len(S) \in Nat \ {0} /\ Len(S) # 1 /\ Len(S) >= 3
      BY <1>3, <1>5 DEF SectionReads
    <2> HIDE DEF S
    <2>2. 2 \in 1..Len(S) /\ 3 \in 1..Len(S)
      BY <2>1
    <2>3. Got(o, k, f, 2) /\ Got(o, k, f, 3)
      BY <1>4, <2>2 DEF S
    <2>4. f \notin branch.quoted
      BY <1>5, <2>3 DEF Halfway, Noticed
    <2>5. QED
      BY <2>3, <2>4
  <1>6. ASSUME NEW f \in Touched(branch), Got(o, k, f, 2)
        PROVE  branch.wrote[f] # {} \/ f \in branch.cut
    <2> DEFINE S == Section(branch, f)
    <2>1. 2 \in 1..Len(S) /\ Len(S) \in Nat
      BY <1>3, <1>4, <1>6 DEF SectionReads
    <2>2. Len(S) # 1
      <3> DEFINE n == Len(S)
      <3>1. 2 \in 1..n /\ n \in Nat
        BY <2>1
      <3> HIDE DEF n
      <3>2. n # 1
        BY <3>1
      <3>3. QED
        BY <3>2 DEF n
    <2>3. QED
      BY <1>3, <2>2 DEF SectionReads
  <1>7. \A f \in Touched(branch) : Said(o, k, f) = branch.wrote[f]
    <2> SUFFICES ASSUME NEW f \in Touched(branch) PROVE Said(o, k, f) = branch.wrote[f]
      OBVIOUS
    <2>1. branch.wrote[f] \subseteq Nat
      BY <1>3, ChangeAssumption
    <2>2. /\ \A m \in 1..Len(Section(branch, f)) : Section(branch, f)[m].is = "hunk" =>
               WrittenIn(Section(branch, f)[m]) \subseteq branch.wrote[f]
          /\ \A x \in branch.wrote[f] : \E m \in 1..Len(Section(branch, f)) :
               Section(branch, f)[m].is = "hunk" /\ x \in WrittenIn(Section(branch, f)[m])
      BY <1>3 DEF SectionReads
    <2>3. QED
      BY <1>4, <2>1, <2>2 DEF Said
  <1>8. ASSUME problems = 0, NEW f \in Graded
        PROVE  f \in DOMAIN changed <=> (branch.wrote[f] # {} \/ f \in branch.cut)
    <2>1. ASSUME f \in DOMAIN changed PROVE branch.wrote[f] # {} \/ f \in branch.cut
      BY <1>6, <2>1 DEF Halfway, CollectedSo, Opened
    <2>2. ASSUME branch.wrote[f] # {} \/ f \in branch.cut PROVE f \in DOMAIN changed
      <3>1. f \in Touched(branch)
        BY <2>2, ChangeAssumption DEF Touched
      <3>2. Opened(o, k, f)
        BY <1>5, <1>8, <2>2, <3>1 DEF Opened
      <3>3. QED
        BY <3>1, <3>2 DEF Halfway, CollectedSo
    <2>3. QED
      BY <2>1, <2>2
  <1>9. \A f \in DOMAIN changed : f \in Graded /\ changed[f] = branch.wrote[f]
    BY <1>7 DEF Halfway, CollectedSo, Opened
  <1>10. QED
    BY <1>8, <1>9 DEF AllIsKnown

LEMMA ReadingAtFirst == ChangeInit => ReadSo
  BY DEF ChangeInit, ReadSo

LEMMA ReadingStill == ReadSo /\ UNCHANGED change => ReadSo'
  <1> SUFFICES ASSUME ReadSo, UNCHANGED change PROVE ReadSo'
    OBVIOUS
  <1>1. /\ branch' = branch /\ diff' = diff /\ unnamed' = unnamed /\ lines' = lines
           /\ changed' = changed
        /\ problems' = problems /\ stage' = stage
    BY DEF change
  <1>2. AllIsKnown' <=> AllIsKnown
    BY <1>1 DEF AllIsKnown
  <1>3. \A o, k : Halfway(o, k)' <=> Halfway(o, k)
    BY <1>1 DEF Halfway, Turned, CollectedSo, Noticed, MidSection, Opened, Said, Got
  <1>4. QED
    BY <1>1, <1>2, <1>3 DEF ReadSo

LEMMA ReadingKept == ReadSo /\ Read => ReadSo'
  <1> SUFFICES ASSUME ReadSo, Read PROVE ReadSo'
    OBVIOUS
  <1>1. CASE Base
    <2>1. stage = "base" /\ branch' = branch /\ unnamed' = unnamed /\ lines' = lines
          /\ changed' = changed /\ problems' = problems
      BY <1>1 DEF Base
    <2>2. branch \in Branches /\ changed = <<>> /\ ~unnamed /\ lines = Nowhere /\ problems = 0
      BY <2>1 DEF ReadSo
    <2>3. CASE branch.base = "named"
      <3>1. stage' = "reading" /\ diff' = Printed(branch)
        BY <1>1, <2>3 DEF Base
      <3>2. PICK o : LaidOut(branch, o)
        BY <2>2, PrintedIsLaidOut
      <3>3. \A f \in Touched(branch) : o[f] \in Nat
        BY <3>2 DEF LaidOut
      <3>4. \A f \in Touched(branch) : \A m : ~Got(o, 0, f, m)
            /\ ~(m \in 1..Len(Section(branch, f)) /\ 0 = o[f] + m)
        BY <3>3 DEF Got
      <3>5. Turned(0)'
        <4> DEFINE P == Printed(branch)
                   E == LinesOf(branch)
        <4>1. P \in Seq(E) /\ Len(P) \in Nat
          BY <3>2 DEF LaidOut
        <4> HIDE DEF P, E
        <4>2. SubSeq(P, 0 + 1, Len(P)) = P
          BY <4>1
        <4>3. 0 \in 0..Len(P)
          BY <4>1
        <4>4. QED
          BY <2>1, <3>1, <4>2, <4>3 DEF Turned, P
      <3>6. CollectedSo(o, 0)'
        <4>1. DOMAIN changed' = {} /\ \A f \in Touched(branch) : ~Opened(o, 0, f)
          BY <2>1, <2>2, <3>4 DEF Opened
        <4>2. QED
          BY <2>1, <4>1 DEF CollectedSo, Opened, Got
      <3>7. Noticed(o, 0)'
        BY <2>1, <3>4 DEF Noticed, Got
      <3>8. MidSection(o, 0)'
        BY <2>1, <3>4 DEF MidSection
      <3>9. QED
        BY <2>1, <2>2, <2>3, <3>1, <3>2, <3>5, <3>6, <3>7, <3>8 DEF ReadSo, Halfway
    <2>4. CASE branch.base # "named"
      <3>1. stage' = "settled"
        BY <1>1, <2>4 DEF Base
      <3>2. QED
        BY <2>1, <2>2, <2>4, <3>1 DEF ReadSo
    <2>5. QED
      BY <2>3, <2>4
  <1>2. CASE OpenSection \/ NameFile \/ RefuseUnnamed \/ CollectHunk \/ PassOver
    <2>1. Reading
      BY <1>2 DEF OpenSection, NameFile, RefuseUnnamed, CollectHunk, PassOver
    <2>2. stage = "reading" /\ stage' = stage /\ branch' = branch
      BY <2>1 DEF Reading
    <2>3. branch \in Branches /\ branch.base = "named"
      BY <2>2 DEF ReadSo
    <2>4. PICK o, k : LaidOut(branch, o) /\ Halfway(o, k)
      BY <2>2 DEF ReadSo
    <2>5. Halfway(o, k + 1)' /\ problems' \in Nat
      BY <1>2, <2>1, <2>4, LineRead
    <2>6. QED
      BY <2>2, <2>3, <2>4, <2>5 DEF ReadSo
  <1>3. CASE Settle
    <2>1. /\ stage = "reading" /\ diff = <<>> /\ branch' = branch /\ changed' = changed
             /\ problems' = problems
          /\ stage' = IF problems > 0 \/ DOMAIN changed = {} THEN "settled" ELSE "changed"
      BY <1>3 DEF Settle
    <2>2. branch \in Branches /\ branch.base = "named" /\ problems \in Nat
      BY <2>1 DEF ReadSo
    <2>3. AllIsKnown
      <3>1. PICK o, k : LaidOut(branch, o) /\ Halfway(o, k)
        BY <2>1 DEF ReadSo
      <3>2. QED
        BY <2>1, <2>2, <3>1, WholeAtTheEnd
    <2>4. AllIsKnown'
      BY <2>1, <2>3 DEF AllIsKnown
    <2>5. CASE problems > 0 \/ DOMAIN changed = {}
      BY <2>1, <2>2, <2>4, <2>5 DEF ReadSo
    <2>6. CASE ~(problems > 0 \/ DOMAIN changed = {})
      <3>1. problems = 0
        BY <2>2, <2>6
      <3>2. QED
        BY <2>1, <2>2, <2>4, <2>6, <3>1 DEF ReadSo
    <2>7. QED
      BY <2>5, <2>6
  <1>4. QED
    BY <1>1, <1>2, <1>3 DEF Read

-----------------------------------------------------------------------------
(* Duplicate code. *)

(* A file's entries. *)
Entry == [id : (File \cup Text \cup {Keep}) \X Nat, at : Int]
IsFiled(f) == f \in File /\ tree[f] \in Seq(Text \cup {Keep})

LEMMA EntriesAre ==
  ASSUME NEW f, IsFiled(f)
  PROVE  Entries(f) \in Seq(Entry)
  <1>1. tree[f] \in Seq(Text \cup {Keep}) /\ f \in File /\ DOMAIN tree[f] = 1..Len(tree[f])
        /\ Len(tree[f]) \in Nat
    BY DEF IsFiled
  <1>2. ASSUME NEW l \in DOMAIN tree[f] PROVE EntriesOf(f, l) \in Seq(Entry)
    <2>1. l \in Nat /\ l - 1 \in Int /\ tree[f][l] \in Text \cup {Keep}
      BY <1>1, <1>2
    <2>2. [id |-> <<f, l>>, at |-> l - 1] \in Entry
      BY <1>1, <2>1 DEF Entry
    <2>3. [id |-> <<tree[f][l], 0>>, at |-> l] \in Entry
      BY <2>1 DEF Entry
    <2>4. QED
      BY <2>2, <2>3 DEF EntriesOf
  <1> DEFINE es == [l \in DOMAIN tree[f] |-> EntriesOf(f, l)]
  <1>3. es \in Seq(Seq(Entry))
    BY <1>1, <1>2
  <1> HIDE DEF es
  <1>4. FlattenSeq(es) \in Seq(Entry)
    BY <1>3, FlattenIsJoined
  <1>5. QED
    BY <1>4 DEF Entries, es

(* A file whose lines are lines has as many entries as it has. *)
LEMMA EntriesCounted ==
  ASSUME NEW f, IsFiled(f)
  PROVE  /\ Len(Entries(f)) \in Nat /\ Starts_(f) \subseteq Nat \ {0}
         /\ \A i \in Starts_(f) : i + WINDOW - 1 <= Len(Entries(f))
  <1>1. Len(Entries(f)) \in Nat
    <2>1. Entries(f) \in Seq(Entry)
      BY EntriesAre
    <2>2. QED
      BY <2>1
  <1>2. QED
    BY <1>1, ClonesAssumption DEF Starts_

(* extended: what two places share, as far as it goes each way. *)
Shared(run, f, i, g, j) ==
  /\ run.here.file = f /\ run.there.file = g
  /\ run.length \in Nat /\ run.length >= WINDOW
  /\ run.here.start \in Nat \ {0} /\ run.there.start \in Nat \ {0}
  /\ run.here.start <= i /\ i + WINDOW <= run.here.start + run.length
  /\ i - run.here.start = j - run.there.start
  /\ \A m \in 0..(run.length - 1) : Same(f, run.here.start + m, g, run.there.start + m)

(* A window that agrees, extended both ways, agrees all along the run.       *)
LEMMA ExtendedShares ==
  ASSUME NEW f, NEW g, IsFiled(f), IsFiled(g), NEW i \in Starts_(f), NEW j \in Starts_(g),
    SameWindow(f, i, g, j)
  PROVE  Shared(Extended(f, i, g, j), f, i, g, j)
  <1> DEFINE backs == {k \in 1..(Min({i, j}) - 1) : \A m \in 1..k : Same(f, i - m, g, j - m)}
             back == Max({0} \cup backs)
             room == Min({Len(Entries(f)) - i, Len(Entries(g)) - j}) + 1
             ons == {n \in WINDOW..room : \A m \in 0..(n - 1) : Same(f, i + m, g, j + m)}
             on == Max(ons)
  <1>1. i \in Nat \ {0} /\ j \in Nat \ {0} /\ Len(Entries(f)) \in Nat /\ Len(Entries(g)) \in Nat
        /\ i + WINDOW - 1 <= Len(Entries(f)) /\ j + WINDOW - 1 <= Len(Entries(g))
    BY EntriesCounted
  <1>2. Min({i, j}) \in {i, j} /\ Min({i, j}) <= i /\ Min({i, j}) <= j
    BY <1>1, LeastIsOne
  <1>3. back \in Nat /\ back < i /\ back < j /\ \A m \in 1..back : Same(f, i - m, g, j - m)
    <2>1. \A k \in backs : k \in Nat /\ k < i /\ k < j /\ \A m \in 1..k : Same(f, i - m, g, j - m)
      BY <1>1, <1>2
    <2> HIDE DEF backs
    <2>2. {0} \cup backs \subseteq Nat /\ {0} \cup backs # {} /\ \A n \in {0} \cup backs : n <= i
      BY <1>1, <2>1
    <2>3. back \in {0} \cup backs
      BY <1>1, <2>2, GreatestIsOne
    <2> HIDE DEF back
    <2>4. CASE back \in backs
      BY <2>1, <2>4
    <2>5. CASE back = 0
      BY <1>1, <2>5
    <2>6. QED
      BY <2>3, <2>4, <2>5
  <1>4. room \in Nat /\ room >= WINDOW
    <2>1. Len(Entries(f)) - i \in Nat /\ Len(Entries(g)) - j \in Nat
      BY <1>1, ClonesAssumption
    <2> DEFINE left == {Len(Entries(f)) - i, Len(Entries(g)) - j}
    <2>2. Min(left) \in left
      BY <2>1, LeastIsOne
    <2>3. QED
      BY <1>1, <2>1, <2>2, ClonesAssumption
  <1>5. on \in Nat /\ on >= WINDOW /\ \A m \in 0..(on - 1) : Same(f, i + m, g, j + m)
    <2>1. WINDOW \in ons
      BY <1>4, ClonesAssumption DEF SameWindow
    <2>2. ons \subseteq Nat /\ \A n \in ons : n <= room
      BY <1>4, ClonesAssumption
    <2>3. on \in ons
      <3> HIDE DEF ons, room
      <3> QED
        BY <1>4, <2>1, <2>2, GreatestIsOne
    <2> HIDE DEF on, room
    <2>4. QED
      BY <2>3, <1>4, ClonesAssumption
  <1>6. Extended(f, i, g, j) = Clone(Place(f, i - back), Place(g, j - back), back + on)
    BY DEF Extended
  <1> HIDE DEF back, on
  <1>7. \A m \in 0..(back + on - 1) : Same(f, i - back + m, g, j - back + m)
    <2> SUFFICES ASSUME NEW m \in 0..(back + on - 1) PROVE Same(f, i - back + m, g, j - back + m)
      OBVIOUS
    <2>1. CASE m < back
      <3>1. back - m \in 1..back /\ i - (back - m) = i - back + m /\ j - (back - m) = j - back + m
        BY <1>1, <1>3, <1>5, <2>1
      <3>2. QED
        BY <1>3, <3>1
    <2>2. CASE m >= back
      <3>1. m - back \in 0..(on - 1) /\ i + (m - back) = i - back + m /\ j + (m - back) = j - back + m
        BY <1>1, <1>3, <1>5, <2>2
      <3>2. QED
        BY <1>5, <3>1
    <2>3. QED
      BY <1>3, <2>1, <2>2
  <1> DEFINE run == Extended(f, i, g, j)
  <1>8. /\ run.here.file = f /\ run.there.file = g
        /\ run.here.start = i - back /\ run.there.start = j - back /\ run.length = back + on
    BY <1>6 DEF Clone, Place
  <1> HIDE DEF run
  <1>9. /\ i - back \in Nat \ {0} /\ j - back \in Nat \ {0} /\ back + on \in Nat /\ back + on >= WINDOW
        /\ i - back <= i /\ i + WINDOW <= (i - back) + (back + on) /\ i - (i - back) = j - (j - back)
    BY <1>1, <1>3, <1>5, ClonesAssumption
  <1>10. Shared(run, f, i, g, j)
    <2>1. \A m \in 0..(run.length - 1) : Same(f, run.here.start + m, g, run.there.start + m)
      <3>1. TAKE m \in 0..(run.length - 1)
      <3>2. m \in 0..(back + on - 1)
        BY <1>3, <1>5, <1>8, <3>1
      <3>3. Same(f, i - back + m, g, j - back + m)
        BY <1>7, <3>2
      <3>4. QED
        BY <1>8, <3>3, Zenon
    <2>2. /\ run.length \in Nat /\ run.length >= WINDOW
          /\ run.here.start \in Nat \ {0} /\ run.there.start \in Nat \ {0}
          /\ run.here.start <= i /\ i + WINDOW <= run.here.start + run.length
          /\ i - run.here.start = j - run.there.start
      BY <1>8, <1>9
    <2>3. QED
      BY <1>8, <2>1, <2>2 DEF Shared
  <1>11. QED
    BY <1>10 DEF run

(* reportedAs, the arithmetic: the two neighbouring periods of the stretch  *)
(* lie in it and hold the line.                                            *)
LEMMA PeriodsFit ==
  ASSUME NEW from \in Nat, NEW p \in Nat, p > 0, NEW length \in Nat, length > p, NEW w \in Nat,
         from <= w, w < from + p + length
  PROVE  LET end == from + p + length
             row == from + p * ((w - from) \div p)
             first == IF row + 2 * p <= end THEN row ELSE IF row + p <= end THEN row - p ELSE end - 2 * p
         IN  first \in Nat /\ from <= first /\ first + 2 * p <= end /\ first <= w /\ w < first + 2 * p
  <1> DEFINE q == (w - from) \div p
             r == (w - from) % p
  <1>1. q \in Nat /\ r \in Nat /\ r < p /\ w - from = p * q + r
    OBVIOUS
  <1> HIDE DEF q, r
  <1> DEFINE row == from + p * q
  <1>2. row \in Nat /\ row <= w /\ w < row + p /\ (q = 0 => row = from) /\ (q # 0 => row >= from + p)
    <2>1. p * q \in Nat /\ (q # 0 => p * q >= p) /\ (q = 0 => p * q = 0)
      BY <1>1
    <2>2. QED
      BY <1>1, <2>1
  <1> HIDE DEF row
  <1>3. QED
    BY <1>2 DEF q, row

HoldsIn(c) ==
  /\ c.length >= WINDOW
  /\ \A k \in 0..(c.length - 1) : Same(c.here.file, c.here.start + k, c.there.file, c.there.start + k)
  /\ c.here.file = c.there.file => Apart(c.here.start, c.there.start) >= c.length
  /\ \E k \in Span(c.here.start, c.length) : Own(c.here.file, k)

LEMMA SameIsSymmetric ==
  ASSUME NEW f, NEW g, NEW i, NEW j
  PROVE  Same(f, i, g, j) <=> Same(g, j, f, i)
  BY DEF Same

(* A run that overlaps itself repeats every period, and two neighbouring    *)
(* periods of it hold the same lines.                                      *)
LEMMA NeighboursHold ==
  ASSUME NEW f, NEW run, NEW i \in Nat, NEW j \in Nat, Shared(run, f, i, f, j), Apart(i, j) >= WINDOW,
    Overlaps(run),
         \E k \in Span(i, WINDOW) : Own(f, k)
  PROVE  HoldsIn(Neighbours(run))
  <1> DEFINE a == run.here.start
             b == run.there.start
             n == run.length
             p == Period(run)
             from == Min({a, b})
             end == from + p + n
             mine == {k \in from..(end - 1) : Own(f, k)}
             w == Min(mine)
             row == from + p * ((w - from) \div p)
             first == IF row + 2 * p <= end THEN row ELSE IF row + p <= end THEN row - p ELSE end - 2 * p
  <1>1. /\ a \in Nat \ {0} /\ b \in Nat \ {0} /\ n \in Nat /\ a <= i /\ i + WINDOW <= a + n
        /\ i - a = j - b
        /\ run.here.file = f /\ run.there.file = f
        /\ \A m \in 0..(n - 1) : Same(f, a + m, f, b + m)
    BY DEF Shared
  <1>2. p = Apart(b, a) /\ n > p
    BY DEF Period, Overlaps
  <1> HIDE DEF a, b, n, p
  <1>3. p \in Nat /\ p >= WINDOW /\ p > 0
    BY <1>1, <1>2, ClonesAssumption DEF Apart
  <1>4. from \in Nat \ {0} /\ from <= a /\ from <= b
        /\ ((from = a /\ b = from + p) \/ (from = b /\ a = from + p))
    <2>1. from \in {a, b} /\ from <= a /\ from <= b
      BY <1>1, LeastIsOne
    <2> HIDE DEF from
    <2>2. QED
      BY <1>1, <1>2, <2>1 DEF Apart
  <1>5. \A m \in 0..(n - 1) : Same(f, from + m, f, from + p + m)
    <2> HIDE DEF from
    <2>1. CASE from = a /\ b = from + p
      BY <1>1, <2>1
    <2>2. CASE from = b /\ a = from + p
      BY <1>1, <2>2, SameIsSymmetric
    <2>3. QED
      BY <1>4, <2>1, <2>2
  <1> HIDE DEF from
  <1>6. mine \subseteq Nat /\ mine # {}
    <2>1. PICK k \in Span(i, WINDOW) : Own(f, k)
      OBVIOUS
    <2>2. k \in Nat /\ i <= k /\ k < i + WINDOW
      BY <2>1, ClonesAssumption DEF Span
    <2>3. from <= k /\ k <= end - 1
      <3> HIDE DEF from
      <3>1. a <= from + p
        BY <1>1, <1>3, <1>4
      <3>2. QED
        BY <1>1, <1>3, <1>4, <2>2, <3>1, ClonesAssumption
    <2>4. k \in from..(end - 1)
      BY <1>1, <1>3, <1>4, <2>2, <2>3
    <2>5. mine \subseteq Nat
      BY <1>1, <1>3, <1>4
    <2>6. QED
      BY <2>1, <2>4, <2>5
  <1>7. w \in Nat /\ from <= w /\ w < end /\ Own(f, w)
    <2>1. w \in mine
      <3> HIDE DEF mine
      <3> QED
        BY <1>6, LeastIsOne
    <2> HIDE DEF w
    <2>2. QED
      BY <1>1, <1>3, <1>4, <2>1
  <1>8. first \in Nat /\ from <= first /\ first + 2 * p <= end /\ first <= w /\ w < first + 2 * p
    <2> HIDE DEF w
    <2>1. QED
      BY <1>1, <1>2, <1>3, <1>4, <1>7, PeriodsFit
  <1>9. Neighbours(run) =
          IF w < first + p THEN Clone(Place(f, first), Place(f, first + p), p)
                           ELSE Clone(Place(f, first + p), Place(f, first), p)
    BY <1>1 DEF Neighbours, a, b, n, p, from
  <1> HIDE DEF first, w
  <1>10. \A k \in 0..(p - 1) : Same(f, first + k, f, first + p + k)
    <2> SUFFICES ASSUME NEW k \in 0..(p - 1) PROVE Same(f, first + k, f, first + p + k)
      OBVIOUS
    <2>1. (first - from) + k \in 0..(n - 1)
      BY <1>1, <1>3, <1>4, <1>8
    <2>2. from + ((first - from) + k) = first + k /\ from + p + ((first - from) + k) = first + p + k
      BY <1>3, <1>4, <1>8
    <2>3. QED
      BY <1>5, <2>1, <2>2
  <1>11. CASE w < first + p
    <2> DEFINE c == Clone(Place(f, first), Place(f, first + p), p)
    <2>1. c.length = p /\ c.here.file = f /\ c.there.file = f /\ c.here.start = first
          /\ c.there.start = first + p
      BY DEF Clone, Place
    <2> HIDE DEF c
    <2>2. Apart(first, first + p) >= p
      BY <1>3, <1>8 DEF Apart
    <2>3. w \in Span(first, p)
      BY <1>3, <1>7, <1>8, <1>11 DEF Span
    <2>4. HoldsIn(c)
      BY <1>3, <1>7, <1>10, <2>1, <2>2, <2>3 DEF HoldsIn
    <2>5. QED
      BY <1>9, <1>11, <2>4 DEF c
  <1>12. CASE ~(w < first + p)
    <2> DEFINE c == Clone(Place(f, first + p), Place(f, first), p)
    <2>1. c.length = p /\ c.here.file = f /\ c.there.file = f /\ c.here.start = first + p
          /\ c.there.start = first
      BY DEF Clone, Place
    <2> HIDE DEF c
    <2>2. Apart(first + p, first) >= p
      BY <1>3, <1>8 DEF Apart
    <2>3. w \in Span(first + p, p)
      BY <1>3, <1>7, <1>8, <1>12 DEF Span
    <2>4. \A k \in 0..(p - 1) : Same(f, first + p + k, f, first + k)
      BY <1>10, SameIsSymmetric
    <2>5. HoldsIn(c)
      BY <1>3, <1>7, <2>1, <2>2, <2>3, <2>4 DEF HoldsIn
    <2>6. QED
      BY <1>9, <1>12, <2>5 DEF c
  <1>13. QED
    BY <1>11, <1>12

(* What is reported of a run is a clone.                                     *)
LEMMA ReportHolds ==
  ASSUME NEW f, NEW g, IsFiled(f), IsFiled(g), NEW i \in Starts_(f), OwnWindow(f, i),
         NEW j \in Elsewhere(f, i, g)
  PROVE  /\ Shared(Extended(f, i, g, j), f, i, g, j)
         /\ HoldsIn(ReportedAs(Extended(f, i, g, j)))
  <1> DEFINE run == Extended(f, i, g, j)
  <1>1. j \in Starts_(g) /\ SameWindow(f, i, g, j) /\ (g = f => Apart(i, j) >= WINDOW)
    BY DEF Elsewhere, Holding
  <1>2. Shared(run, f, i, g, j)
    BY <1>1, ExtendedShares
  <1>3. i \in Nat \ {0} /\ j \in Nat \ {0}
    BY <1>1, EntriesCounted
  <1> HIDE DEF run
  <1>4. CASE Overlaps(run)
    <2>1. f = g
      BY <1>2, <1>4 DEF Overlaps, Shared
    <2>2. HoldsIn(Neighbours(run))
      BY <1>1, <1>2, <1>3, <1>4, <2>1, NeighboursHold DEF OwnWindow
    <2>3. QED
      BY <1>2, <1>4, <2>2 DEF run, ReportedAs
  <1>5. CASE ~Overlaps(run)
    <2>1. \E k \in Span(run.here.start, run.length) : Own(f, k)
      <3>1. PICK k \in Span(i, WINDOW) : Own(f, k)
        BY DEF OwnWindow
      <3>2. k \in Span(run.here.start, run.length)
        BY <1>2, <1>3, <3>1, ClonesAssumption DEF Span, Shared
      <3>3. QED
        BY <3>1, <3>2
    <2>2. run.here.file = run.there.file => Apart(run.here.start, run.there.start) >= run.length
      BY <1>2, <1>5 DEF Overlaps, Period, Shared, Apart
    <2>3. HoldsIn(run)
      BY <1>2, <2>1, <2>2 DEF HoldsIn, Shared
    <2>4. QED
      BY <1>2, <1>5, <2>3 DEF run, ReportedAs
  <1>6. QED
    BY <1>4, <1>5

(* The gate's run: git's answer read, then the files looked through. *)
ClonesSpec ==
  /\ ChangeInit /\ ClonesInit
  /\ [][(Read /\ UNCHANGED clones) \/ (Look /\ UNCHANGED change)]_<<change, clones>>

(* A window of the branch's that stands somewhere else too, and what there  *)
(* is to say of it.                                                        *)
Due(f, i, g, j) ==
  /\ i \in Starts_(f) /\ j \in Starts_(g) /\ SameWindow(f, i, g, j) /\ OwnWindow(f, i)
  /\ f # g \/ Apart(i, j) >= WINDOW
Says(x, f, i, g) == x.run.here.file = f /\ x.run.there.file = g /\ i \in Covered(x.run)
Noted(js, f, i, g, j) == \E x \in js : Says(x, f, i, g) \/ Says(x, f, j, g)

(* What is left to judge; that covers and judged say the same; and that what  *)
(* is behind the walk and due a report has one.                              *)
Laid ==
  /\ tree \in Trees /\ DOMAIN changed \subseteq Graded
  /\ pending \subseteq DOMAIN changed \ Generated
  /\ here \in (DOMAIN changed \ Generated) \cup {Nowhere}
  /\ start \in Nat /\ (start = 0 => pending = {} /\ here = Nowhere)
Untouched == stage # "changed" => pending = {} /\ here = Nowhere /\ start = 0 /\ judged = <<>>
Founded == judged \in Seq(ToSet(judged)) /\ \A x \in ToSet(judged) : HoldsIn(x.clone)
CoversSay == here # Nowhere =>
    \A g \in File : \A i \in covers[g] : \E x \in ToSet(judged) : Says(x, here, i, g)
Behind ==
  start # 0 => \A f \in DOMAIN changed \ Generated, g \in Source : \A i, j \in Nat :
                 Due(f, i, g, j) /\ f \notin pending /\ (f # here \/ i < start) =>
                     Noted(ToSet(judged), f, i, g, j)
Looking == Laid /\ Untouched /\ Founded /\ CoversSay /\ Behind

LEMMA FilesAreFiled ==
  ASSUME Laid
  PROVE  /\ Source \subseteq File /\ \A f \in File : IsFiled(f)
         /\ \A f \in DOMAIN changed : f \in File /\ f # Nowhere
  <1>1. tree \in [File -> Seq(Text \cup {Keep})]
    BY ClonesAssumption DEF Laid
  <1>2. QED
    BY <1>1, ChangeAssumption DEF Laid, IsFiled, Source

(* Nothing but the files and the lines written has a say in the entries.    *)
LEMMA BookIsSame ==
  ASSUME tree' = tree, changed' = changed
  PROVE  /\ \A f : Entries(f)' = Entries(f) /\ Written(f)' = Written(f)
         /\ \A f : Starts_(f)' = Starts_(f) /\ IsFiled(f)' = IsFiled(f)
         /\ \A f, i, g, j : Due(f, i, g, j)' <=> Due(f, i, g, j)
         /\ \A c : HoldsIn(c)' <=> HoldsIn(c)
         /\ Source' = Source
  <1>1. \A f : Written(f)' = Written(f)
    BY DEF Written
  <1>2. \A f : Entries(f)' = Entries(f)
    <2> SUFFICES ASSUME NEW f PROVE Entries(f)' = Entries(f)
      OBVIOUS
    <2>1. \A l : Marked(f, l)' <=> Marked(f, l)
      BY <1>1 DEF Marked
    <2>2. \A l : EntriesOf(f, l)' = EntriesOf(f, l)
      BY <2>1 DEF EntriesOf
    <2>3. [l \in DOMAIN tree'[f] |-> EntriesOf(f, l)'] = [l \in DOMAIN tree[f] |-> EntriesOf(f, l)]
      BY <2>2
    <2>4. QED
      BY <2>3, Zenon DEF Entries
  <1>3. \A f : Starts_(f)' = Starts_(f)
    BY <1>2 DEF Starts_
  <1>4. \A f, i, g, j : Same(f, i, g, j)' <=> Same(f, i, g, j)
    BY <1>2 DEF Same
  <1>5. \A f, i : Own(f, i)' <=> Own(f, i)
    BY <1>1, <1>2 DEF Own
  <1>6. \A f, i, g, j : SameWindow(f, i, g, j)' <=> SameWindow(f, i, g, j)
    BY <1>4 DEF SameWindow
  <1>7. \A f, i : OwnWindow(f, i)' <=> OwnWindow(f, i)
    BY <1>5 DEF OwnWindow
  <1>8. \A f, i, g, j : Due(f, i, g, j)' <=> Due(f, i, g, j)
    BY <1>3, <1>6, <1>7 DEF Due
  <1>9. \A c : HoldsIn(c)' <=> HoldsIn(c)
    BY <1>4, <1>5 DEF HoldsIn
  <1>10. Source' = Source /\ \A f : IsFiled(f)' = IsFiled(f)
    BY DEF Source, IsFiled
  <1>11. QED
    BY <1>1, <1>2, <1>3, <1>8, <1>9, <1>10

LEMMA LookingAtFirst == ChangeInit /\ ClonesInit => Looking
  <1> SUFFICES ASSUME ChangeInit, ClonesInit PROVE Looking
    OBVIOUS
  <1> USE DEF ChangeInit, ClonesInit
  <1>1. Laid
    BY DEF Laid
  <1>2. ToSet(judged) = {} /\ judged \in Seq(ToSet(judged))
    BY DEF ToSet
  <1>3. Founded /\ CoversSay /\ Behind /\ Untouched
    BY <1>2 DEF Founded, CoversSay, Behind, Untouched
  <1>4. QED
    BY <1>1, <1>3 DEF Looking

LEMMA LookingWhileRead == Looking /\ Read /\ UNCHANGED clones => Looking'
  <1> SUFFICES ASSUME Looking, Read, UNCHANGED clones PROVE Looking'
    OBVIOUS
  <1>1. stage # "changed" /\ UNCHANGED <<tree, pending, here, start, covers, judged>>
    BY DEF Read, Base, Reading, OpenSection, NameFile, RefuseUnnamed, CollectHunk, PassOver, Settle, clones
  <1>2. pending = {} /\ here = Nowhere /\ start = 0 /\ judged = <<>>
    BY <1>1 DEF Looking, Untouched
  <1>3. DOMAIN changed' \subseteq Graded
    <2>1. DOMAIN changed \subseteq Graded
      BY DEF Looking, Laid
    <2>2. CASE NameFile
      BY <2>1, <2>2 DEF NameFile
    <2>3. CASE CollectHunk
      BY <2>1, <2>3 DEF CollectHunk
    <2>4. CASE changed' = changed
      BY <2>1, <2>4
    <2>5. QED
      BY <2>2, <2>3, <2>4 DEF Read, Base, OpenSection, RefuseUnnamed, PassOver, Settle
  <1>4. Laid'
    BY <1>1, <1>2, <1>3 DEF Looking, Laid
  <1>5. ToSet(judged') = {} /\ judged' \in Seq(ToSet(judged'))
    BY <1>1, <1>2 DEF ToSet
  <1>6. Untouched' /\ CoversSay' /\ Behind'
    BY <1>1, <1>2 DEF Untouched, CoversSay, Behind
  <1>7. Founded'
    BY <1>5 DEF Founded
  <1>8. QED
    BY <1>4, <1>6, <1>7 DEF Looking

(* One window looked up: what is added to the judged.                       *)
LEMMA WindowJudges ==
  ASSUME Looking, Window, UNCHANGED change, OwnWindow(here, start)
  PROVE  /\ ToSet(judged') = ToSet(judged) \cup {Judged(RunAt(here, start, g)) : g \in Found(here, start)}
         /\ judged' \in Seq(ToSet(judged'))
  <1> DEFINE F == Found(here, start)
             q == SetToSeq(F)
             new == [n \in DOMAIN q |-> Judged(RunAt(here, start, q[n]))]
  <1>1. judged' = judged \o new
    BY DEF Window
  <1>2. IsFiniteSet(F)
    <2>1. F \subseteq File
      BY FilesAreFiled DEF Looking, Found
    <2> HIDE DEF F
    <2>2. QED
      BY <2>1, ChangeAssumption, FS_Subset
  <1> HIDE DEF F
  <1>3. /\ DOMAIN q = 1..Cardinality(F) /\ Cardinality(F) \in Nat
        /\ \A n \in 1..Cardinality(F) : q[n] \in F
        /\ \A x \in F : \E n \in 1..Cardinality(F) : q[n] = x
    BY <1>2, SetInTurn
  <1> HIDE DEF q
  <1>4. new \in Seq(ToSet(new)) /\ ToSet(new) = {Judged(RunAt(here, start, g)) : g \in F}
    <2>1. \A n \in DOMAIN q : new[n] = Judged(RunAt(here, start, q[n]))
      OBVIOUS
    <2>2. DOMAIN new = 1..Cardinality(F) /\ new = [n \in 1..Cardinality(F) |-> new[n]]
      BY <1>3
    <2> HIDE DEF new
    <2>3. \A n \in 1..Cardinality(F) : new[n] \in ToSet(new)
      BY <2>2 DEF ToSet
    <2>4. new \in Seq(ToSet(new))
      BY <1>3, <2>2, <2>3
    <2>5. QED
      BY <1>3, <2>1, <2>2, <2>4 DEF ToSet
  <1> HIDE DEF new
  <1>5. judged \in Seq(ToSet(judged))
    BY DEF Looking, Founded
  <1>6. QED
    BY <1>1, <1>4, <1>5, BothHeld DEF F

LEMMA FoundHolds ==
  ASSUME Looking, here # Nowhere, start \in Starts_(here), OwnWindow(here, start),
    NEW g \in Found(here, start)
  PROVE  /\ HoldsIn(Judged(RunAt(here, start, g)).clone)
         /\ Says(Judged(RunAt(here, start, g)), here, start, g)
         /\ Judged(RunAt(here, start, g)).run = RunAt(here, start, g)
         /\ RunAt(here, start, g).here.file = here /\ RunAt(here, start, g).there.file = g
  <1>1. IsFiled(here) /\ IsFiled(g) /\ g \in Source
    BY FilesAreFiled DEF Looking, Laid, Found
  <1> DEFINE at == Elsewhere(here, start, g)
             j == Min(at)
             run == Extended(here, start, g, j)
  <1>2. at \subseteq Nat /\ at # {}
    <2>1. Starts_(g) \subseteq Nat
      BY <1>1, EntriesCounted
    <2>2. QED
      BY <2>1 DEF Elsewhere, Holding, Found
  <1>3. j \in at
    <2> HIDE DEF at
    <2> QED
      BY <1>2, LeastIsOne
  <1> HIDE DEF at, j
  <1>4. Shared(run, here, start, g, j) /\ HoldsIn(ReportedAs(run))
    BY <1>1, <1>3, ReportHolds DEF at
  <1>5. RunAt(here, start, g) = run
    BY DEF RunAt, at, j
  <1>6. Judged(run).clone = ReportedAs(run) /\ Judged(run).run = run
    BY DEF Judged
  <1> HIDE DEF run
  <1>7. start \in Covered(run)
    <2>1. start \in Nat
      BY DEF Looking, Laid
    <2>2. start \in Span(run.here.start, run.length)
      BY <1>4, <2>1, ClonesAssumption DEF Shared, Span
    <2>3. QED
      BY <2>2 DEF Covered
  <1>8. run.here.file = here /\ run.there.file = g
    BY <1>4 DEF Shared
  <1>9. QED
    BY <1>4, <1>5, <1>6, <1>7, <1>8 DEF Says

LEMMA LookingAfterWindow == Looking /\ Window /\ UNCHANGED change => Looking'
  <1> SUFFICES ASSUME Looking, Window, UNCHANGED change PROVE Looking'
    OBVIOUS
  <1>1. /\ tree' = tree /\ changed' = changed /\ stage' = stage /\ pending' = pending /\ here' = here
        /\ start' = start + 1 /\ here # Nowhere /\ start \in Starts_(here)
    BY DEF Window, change
  <1>2. Laid'
    BY <1>1 DEF Looking, Laid
  <1>3. start \in Nat /\ start # 0 /\ here \in DOMAIN changed \ Generated /\ stage = "changed"
        /\ here \in File
    BY <1>1, FilesAreFiled DEF Looking, Laid, Untouched
  <1>4. Untouched'
    BY <1>1, <1>3 DEF Untouched
  <1> DEFINE js == ToSet(judged)
             new == {Judged(RunAt(here, start, g)) : g \in Found(here, start)}
  <1>5. CASE OwnWindow(here, start)
    <2>1. ToSet(judged') = js \cup new /\ judged' \in Seq(ToSet(judged'))
      BY <1>5, WindowJudges
    <2>2. \A g \in Found(here, start) :
             /\ HoldsIn(Judged(RunAt(here, start, g)).clone)
             /\ Says(Judged(RunAt(here, start, g)), here, start, g)
             /\ Judged(RunAt(here, start, g)).run = RunAt(here, start, g)
             /\ RunAt(here, start, g).here.file = here /\ RunAt(here, start, g).there.file = g
      BY <1>1, <1>5, FoundHolds
    <2>3. Founded'
      <3>1. \A x \in js \cup new : HoldsIn(x.clone)
        BY <2>2 DEF Looking, Founded
      <3> HIDE DEF new, js
      <3>2. \A x \in js \cup new : HoldsIn(x.clone)'
        BY <1>1, <3>1, BookIsSame
      <3>3. QED
        BY <2>1, <3>2 DEF Founded
    <2>4. CoversSay'
      <3> SUFFICES ASSUME NEW g \in File, NEW i \in covers'[g]
                   PROVE  \E x \in js \cup new : Says(x, here, i, g)
        BY <1>1, <2>1 DEF CoversSay
      <3>1. covers'[g] = IF g \in Found(here, start) THEN covers[g] \cup Covered(RunAt(here, start, g)) ELSE covers[g]
        BY <1>5 DEF Window
      <3>2. CASE i \in covers[g]
        BY <1>1, <3>2 DEF Looking, CoversSay
      <3>3. CASE i \notin covers[g]
        <4>1. g \in Found(here, start) /\ i \in Covered(RunAt(here, start, g))
          BY <3>1, <3>3
        <4>2. Says(Judged(RunAt(here, start, g)), here, i, g)
          BY <2>2, <4>1 DEF Says
        <4>3. QED
          BY <4>1, <4>2
      <3>4. QED
        BY <3>2, <3>3
    <2>5. Behind'
      <3> SUFFICES ASSUME NEW f \in DOMAIN changed \ Generated, NEW g \in Source, NEW i \in Nat,
        NEW j \in Nat,
                          Due(f, i, g, j), f \notin pending, f # here \/ i < start + 1
                   PROVE  Noted(js \cup new, f, i, g, j)
        <4> HIDE DEF js, new
        <4>1. \A f, i, g, j : Due(f, i, g, j)' <=> Due(f, i, g, j)
          BY <1>1, BookIsSame
        <4>2. Source' = Source
          BY <1>1, BookIsSame
        <4>3. QED
          BY <1>1, <2>1, <4>1, <4>2 DEF Behind
      <3>1. CASE f # here \/ i < start
        <4>1. Noted(js, f, i, g, j)
          BY <1>3, <3>1 DEF Looking, Behind
        <4> HIDE DEF js, new
        <4>2. QED
          BY <4>1 DEF Noted
      <3>2. CASE f = here /\ i = start
        <4>1. CASE g \in Found(here, start)
          <5>1. Judged(RunAt(here, start, g)) \in new
            BY <4>1
          <5> HIDE DEF new
          <5>2. QED
            BY <2>2, <3>2, <4>1, <5>1 DEF Noted
        <4>2. CASE g \notin Found(here, start)
          <5>1. j \in Holding(here, start, g)
            BY <3>2 DEF Holding, Due
          <5>2. Settled(g, start) \/ j \notin Elsewhere(here, start, g)
            BY <4>2 DEF Found
          <5>3. Settled(g, start) \/ Settled(g, j)
            BY <3>2, <5>1, <5>2 DEF Elsewhere, Due
          <5>4. g \in File
            BY FilesAreFiled DEF Looking
          <5>5. \E x \in js : Says(x, here, start, g) \/ Says(x, here, j, g)
            BY <1>1, <5>3, <5>4 DEF Settled, Looking, CoversSay
          <5> HIDE DEF js, new
          <5>6. QED
            BY <3>2, <5>5 DEF Noted
        <4>3. QED
          BY <4>1, <4>2
      <3>3. QED
        BY <1>3, <3>1, <3>2
    <2>6. QED
      BY <1>2, <1>4, <2>3, <2>4, <2>5 DEF Looking
  <1>6. CASE ~OwnWindow(here, start)
    <2>1. judged' = judged /\ covers' = covers
      BY <1>6 DEF Window
    <2>2. Founded'
      BY <1>1, <2>1, BookIsSame DEF Looking, Founded
    <2>3. CoversSay'
      BY <1>1, <2>1 DEF Looking, CoversSay
    <2>4. Behind'
      <3> SUFFICES ASSUME NEW f \in DOMAIN changed \ Generated, NEW g \in Source, NEW i \in Nat,
        NEW j \in Nat,
                          Due(f, i, g, j), f \notin pending, f # here \/ i < start + 1
                   PROVE  Noted(js, f, i, g, j)
        <4> HIDE DEF js
        <4>1. \A f, i, g, j : Due(f, i, g, j)' <=> Due(f, i, g, j)
          BY <1>1, BookIsSame
        <4>2. Source' = Source
          BY <1>1, BookIsSame
        <4>3. QED
          BY <1>1, <2>1, <4>1, <4>2 DEF Behind, js
      <3>1. ~(f = here /\ i = start)
        BY <1>6 DEF Due
      <3>2. f # here \/ i < start
        BY <1>3, <3>1
      <3>3. QED
        BY <1>3, <3>2 DEF Looking, Behind
    <2>5. QED
      BY <1>2, <1>4, <2>2, <2>3, <2>4 DEF Looking
  <1>7. QED
    BY <1>5, <1>6

LEMMA LookingOtherwise == Looking /\ (Open \/ (\E f \in File : Grade(f)) \/ Graded_)
  /\ UNCHANGED change => Looking'
  <1> SUFFICES ASSUME Looking, Open \/ (\E f \in File : Grade(f)) \/ Graded_, UNCHANGED change
               PROVE  Looking'
    OBVIOUS
  <1>1. tree' = tree /\ changed' = changed /\ stage' = stage /\ judged' = judged
    BY DEF Open, Grade, Graded_, change
  <1>2. Founded'
    BY <1>1, BookIsSame DEF Looking, Founded
  <1>3. /\ \A f, i, g, j : Due(f, i, g, j)' <=> Due(f, i, g, j)
        /\ Source' = Source
    BY <1>1, BookIsSame
  <1>4. CASE Open
    <2>1. stage = "changed" /\ here' = Nowhere /\ pending' = DOMAIN changed \ Generated /\ start' = 1
      BY <1>4 DEF Open
    <2>2. Laid' /\ Untouched' /\ CoversSay'
      BY <1>1, <2>1 DEF Looking, Laid, Untouched, CoversSay
    <2>3. Behind'
      BY <1>1, <2>1 DEF Behind
    <2>4. QED
      BY <1>2, <2>2, <2>3 DEF Looking
  <1>5. ASSUME NEW f \in File, Grade(f) PROVE Looking'
    <2>1. f \in pending /\ here = Nowhere /\ here' = f /\ pending' = pending \ {f} /\ start' = 1
          /\ covers' = [g \in File |-> {}]
      BY <1>5 DEF Grade
    <2>2. stage = "changed" /\ start # 0 /\ f # Nowhere
      BY <2>1, FilesAreFiled DEF Looking, Untouched, Laid
    <2>3. Laid' /\ Untouched' /\ CoversSay'
      BY <1>1, <2>1, <2>2 DEF Looking, Laid, Untouched, CoversSay
    <2>4. Behind'
      <3> SUFFICES ASSUME NEW h \in DOMAIN changed \ Generated, NEW g \in Source, NEW i \in Nat,
        NEW j \in Nat,
                          Due(h, i, g, j), h \notin pending \ {f}, h # f \/ i < 1
                   PROVE  Noted(ToSet(judged), h, i, g, j)
        BY <1>1, <1>3, <2>1 DEF Behind
      <3>1. i # 0
        BY FilesAreFiled, EntriesCounted DEF Due, Looking
      <3>2. h \notin pending /\ h # here
        BY <2>1, <3>1, FilesAreFiled DEF Looking
      <3>3. QED
        BY <2>2, <3>2 DEF Looking, Behind
    <2>5. QED
      BY <1>2, <2>3, <2>4 DEF Looking
  <1>6. CASE Graded_
    <2>1. here # Nowhere /\ start \notin Starts_(here) /\ here' = Nowhere
          /\ UNCHANGED <<pending, start, covers>>
      BY <1>6 DEF Graded_
    <2>2. Laid' /\ Untouched' /\ CoversSay'
      BY <1>1, <2>1 DEF Looking, Laid, Untouched, CoversSay
    <2>3. Behind'
      <3> SUFFICES ASSUME NEW h \in DOMAIN changed \ Generated, NEW g \in Source, NEW i \in Nat,
        NEW j \in Nat,
                          start # 0, Due(h, i, g, j), h \notin pending
                   PROVE  Noted(ToSet(judged), h, i, g, j)
        BY <1>1, <1>3, <2>1 DEF Behind
      <3>1. h = here => i < start
        <4> SUFFICES ASSUME h = here PROVE i < start
          OBVIOUS
        <4>1. IsFiled(here)
          BY FilesAreFiled DEF Looking
        <4>2. Len(Entries(here)) \in Nat
          BY <4>1, EntriesCounted
        <4>3. i \in Starts_(here) /\ start \in Nat
          BY DEF Due, Looking, Laid
        <4>4. QED
          BY <2>1, <4>2, <4>3, ClonesAssumption DEF Starts_
      <3>2. QED
        BY <3>1 DEF Looking, Behind
    <2>4. QED
      BY <1>2, <2>2, <2>3 DEF Looking
  <1>7. QED
    BY <1>4, <1>5, <1>6

LEMMA LookingKept ==
  Looking /\ [(Read /\ UNCHANGED clones) \/ (Look /\ UNCHANGED change)]_<<change, clones>> => Looking'
  <1> SUFFICES ASSUME Looking,
    [(Read /\ UNCHANGED clones) \/ (Look /\ UNCHANGED change)]_<<change, clones>>
               PROVE  Looking'
    OBVIOUS
  <1>1. CASE Read /\ UNCHANGED clones
    BY <1>1, LookingWhileRead
  <1>2. CASE Look /\ UNCHANGED change
    BY <1>2, LookingAfterWindow, LookingOtherwise DEF Look
  <1>3. CASE UNCHANGED <<change, clones>>
    <2>1. tree' = tree /\ changed' = changed /\ stage' = stage
          /\ UNCHANGED <<pending, here, start, covers, judged>>
      BY <1>3 DEF change, clones
    <2>2. Founded'
      BY <2>1, BookIsSame DEF Looking, Founded
    <2>3. /\ \A f, i, g, j : Due(f, i, g, j)' <=> Due(f, i, g, j)
          /\ Source' = Source
      BY <2>1, BookIsSame
    <2>4. Laid' /\ Untouched' /\ CoversSay'
      BY <2>1 DEF Looking, Laid, Untouched, CoversSay
    <2>5. Behind'
      BY <2>1, <2>3 DEF Looking, Behind
    <2>6. QED
      BY <2>2, <2>4, <2>5 DEF Looking
  <1>4. QED
    BY <1>1, <1>2, <1>3

(* What duplicate code reports is a clone, over any branch, tree and window:  *)
(* two places that hold the same lines and do not overlap, long enough, with  *)
(* a line the branch wrote in the first (extended, 334-358, and reportedAs,   *)
(* 360-396).                                                                *)
THEOREM ReportsAreClones == ClonesSpec => []EachReportHolds
  <1>1. ChangeInit /\ ClonesInit => Looking
    BY LookingAtFirst
  <1>2. Looking /\ [(Read /\ UNCHANGED clones) \/ (Look /\ UNCHANGED change)]_<<change, clones>> =>
          Looking'
    BY LookingKept
  <1>3. Looking => EachReportHolds
    <2> SUFFICES ASSUME Looking, NEW x \in Reported PROVE HoldsIn(x.clone)
      BY DEF EachReportHolds, HoldsIn
    <2>1. x \in ToSet(judged)
      BY DEF Reported, ToSet
    <2>2. QED
      BY <2>1 DEF Looking, Founded
  <1>4. QED
    BY <1>1, <1>2, <1>3, PTL DEF ClonesSpec

(* What duplicate code passes stands alone: whatever the branch wrote, and   *)
(* however git printed it, a window of it that stands somewhere else too is   *)
(* taken in by something judged between the same two files (changeSet,       *)
(* 119-161, and clonesIn, 288-324).                                          *)
THEOREM WhatIsCleanStandsAlone == ClonesSpec => []CleanMeansNone
  <1>1. ChangeInit /\ ClonesInit => Looking /\ ReadSo
    BY LookingAtFirst, ReadingAtFirst
  <1>2. Looking /\ ReadSo
        /\ [(Read /\ UNCHANGED clones) \/ (Look /\ UNCHANGED change)]_<<change, clones>> =>
             (Looking /\ ReadSo)'
    <2> SUFFICES ASSUME Looking, ReadSo,
      [(Read /\ UNCHANGED clones) \/ (Look /\ UNCHANGED change)]_<<change, clones>>
                 PROVE  Looking' /\ ReadSo'
      OBVIOUS
    <2>1. Looking'
      BY LookingKept
    <2>2. Read \/ UNCHANGED change
      OBVIOUS
    <2>3. QED
      BY <2>1, <2>2, ReadingKept, ReadingStill
  <1>3. Looking /\ ReadSo => CleanMeansNone
    <2> SUFFICES ASSUME Looking, ReadSo, Clean, NEW f \in Graded \cap Source, NEW g \in Source,
                        NEW i \in Starts_(f), NEW j \in Starts_(g), IsClone(f, i, g, j)
                 PROVE  \E x \in ToSet(judged) :
                          /\ {x.run.here.file, x.run.there.file} = {f, g}
                          /\ i \in Covered(x.run) \/ j \in Covered(x.run)
      BY DEF CleanMeansNone
    <2>1. PICK k \in Span(i, WINDOW) : Wrote(f, k)
      BY DEF IsClone
    <2>2. branch.wrote[f] # {}
      BY <2>1 DEF Wrote
    <2>3. AllIsKnown /\ problems = 0 /\ stage \in {"changed", "settled"}
      BY DEF Clean, Over, ReadSo
    <2>4. f \in DOMAIN changed /\ changed[f] = branch.wrote[f]
      BY <2>2, <2>3 DEF AllIsKnown
    <2>5. Over
      BY <2>3, <2>4 DEF Clean, ReadSo
    <2>6. OwnWindow(f, i)
      BY <2>1, <2>4 DEF OwnWindow, Own, Wrote, Written
    <2>7. Due(f, i, g, j)
      BY <2>6 DEF Due, IsClone
    <2>8. f \in File /\ g \in File /\ f # Nowhere /\ IsFiled(f) /\ IsFiled(g)
      BY <2>4, FilesAreFiled DEF Looking
    <2>9. i \in Nat /\ j \in Nat
      BY <2>8, EntriesCounted
    <2>10. Noted(ToSet(judged), f, i, g, j)
      <3>1. start # 0 /\ pending = {} /\ here = Nowhere /\ f \in DOMAIN changed \ Generated
        BY <2>4, <2>5 DEF Over, Source
      <3>2. QED
        BY <2>7, <2>8, <2>9, <3>1 DEF Looking, Behind
    <2>11. QED
      BY <2>10 DEF Noted, Says
  <1>4. QED
    BY <1>1, <1>2, <1>3, PTL DEF ClonesSpec

-----------------------------------------------------------------------------
(* The mutation lane. *)

LaneSpec ==
  /\ ChangeInit /\ LaneInit
  /\ [][(verdict = "declared" /\ Read /\ UNCHANGED lane) \/ (Mutate /\ UNCHANGED change)]_<<change, lane>>

LaneJudged ==
  /\ verdict \in {"running", "clean", "held nothing"} => stage = "changed"
  /\ ran.status # -1 => ran \in Runs
  /\ verdict \in {"clean", "held nothing"} =>
       /\ UnresolvedIn = {} /\ ~ran.dirty /\ ran.status = 0 /\ Verdict(report) = verdict
       /\ \A n \in DOMAIN report : report[n].file \in DOMAIN changed
  /\ verdict = "nothing to mutate" => stage = "settled" /\ branch.base # "refused" /\ ~(problems > 0)

(* A verdict stays with the change and the report it was reached on.         *)
LEMMA JudgedKept ==
  LaneJudged /\ [(verdict = "declared" /\ Read /\ UNCHANGED lane) \/ (Mutate /\ UNCHANGED change)]_<<change, lane>>
    => LaneJudged'
  <1> SUFFICES ASSUME LaneJudged,
    [(verdict = "declared" /\ Read /\ UNCHANGED lane) \/ (Mutate /\ UNCHANGED change)]_<<change, lane>>
               PROVE  LaneJudged'
    OBVIOUS
  <1>1. CASE verdict = "declared" /\ Read /\ UNCHANGED lane
    BY <1>1 DEF LaneJudged, lane
  <1>2. CASE UNCHANGED <<change, lane>>
    <2>1. UNCHANGED <<branch, stage, problems, changed, ran, report, verdict, floor>>
      BY <1>2 DEF change, lane
    <2>2. UnresolvedIn' = UnresolvedIn /\ (Verdict(report)' = Verdict(report))
      BY <2>1 DEF UnresolvedIn, Verdict, Ungraded, Having, Surviving, UnderFloor, GradedAs, InTheChange
    <2>3. QED
      BY <2>1, <2>2 DEF LaneJudged
  <1>3. CASE Mutate /\ UNCHANGED change
    <2>1. UNCHANGED <<branch, stage, problems, changed>>
      BY <1>3 DEF change
    <2>2. CASE Declare
      BY <2>1, <2>2 DEF LaneJudged, Declare
    <2>3. CASE Answered_
      BY <2>1, <2>3 DEF LaneJudged, Answered_
    <2>4. CASE Run
      BY <2>1, <2>4 DEF LaneJudged, Run
    <2>5. CASE Refuse
      BY <2>1, <2>5 DEF LaneJudged, Refuse
    <2>6. CASE Judge
      <3>1. verdict = "running" /\ ran.status = 0 /\ UnresolvedIn = {} /\ ~ran.dirty /\ floor' = floor
            /\ ran' = ran
        BY <2>6 DEF Judge
      <3>2. PICK ms \in Reports :
              /\ report' = ms
              /\ verdict' = IF \E n \in DOMAIN ms : ms[n].file \notin DOMAIN changed THEN "not this run's"
                            ELSE Verdict(ms)
        BY <2>6 DEF Judge
      <3>3. UnresolvedIn' = UnresolvedIn /\ Verdict(ms)' = Verdict(ms)
        BY <2>1, <3>1
        DEF UnresolvedIn, Verdict, Ungraded, Having, Surviving, UnderFloor, GradedAs, InTheChange
      <3>4. verdict' \in {"not this run's", "ungraded", "held nothing", "missed", "clean"}
        BY <3>2 DEF Verdict
      <3>5. stage = "changed"
        BY <3>1 DEF LaneJudged
      <3>6. verdict' \in {"clean", "held nothing"} => Verdict(ms) = verdict'
            /\ \A n \in DOMAIN ms : ms[n].file \in DOMAIN changed
        BY <3>2
      <3>7. QED
        BY <2>1, <3>1, <3>2, <3>3, <3>4, <3>5, <3>6 DEF LaneJudged
    <2>7. QED
      BY <1>3, <2>2, <2>3, <2>4, <2>5, <2>6 DEF Mutate
  <1>4. QED
    BY <1>1, <1>2, <1>3

LEMMA GreenIsGraded == ReadSo /\ LaneJudged => GreenMeansGraded
  <1> SUFFICES ASSUME ReadSo, LaneJudged PROVE GreenMeansGraded
    OBVIOUS
  <1>1. ASSUME verdict \in {"clean", "held nothing"}
        PROVE  /\ \A f \in Written_ : ran.resolves[f] # {}
               /\ Written_ \cap Expressible \subseteq Mutated
               /\ ~ran.dirty /\ ran.status = 0
               /\ \A n \in DOMAIN report :
                    LET m == report[n]
                    IN  /\ m.file \in Written_
                        /\ m.from..m.to \subseteq branch.wrote[m.file] =>
                             m.status \notin Undetected \cup {"Ignored"}
                        /\ m.status \in NO_VERDICT => m.static
    <2>1. /\ stage = "changed" /\ UnresolvedIn = {} /\ ~ran.dirty /\ ran.status = 0
             /\ Verdict(report) = verdict
          /\ \A n \in DOMAIN report : report[n].file \in DOMAIN changed
      BY <1>1 DEF LaneJudged
    <2>2. AllIsKnown /\ problems = 0 /\ branch \in Branches
      BY <2>1 DEF ReadSo
    <2>3. ran \in Runs
      <3>1. ran.status # -1
        BY <2>1
      <3>2. QED
        BY <3>1 DEF LaneJudged
    <2>4. /\ \A f \in Written_ : ran.resolves[f] # {}
          /\ Written_ \cap Expressible \subseteq Mutated
      <3> SUFFICES ASSUME NEW f \in Written_
                   PROVE  ran.resolves[f] # {} /\ (f \in Expressible => f \in Mutated)
        OBVIOUS
      <3>1. f \in DOMAIN changed /\ f \in File
        BY <2>2, ChangeAssumption DEF Written_, AllIsKnown
      <3>2. ran.resolves[f] # {}
        BY <2>1, <3>1 DEF UnresolvedIn
      <3>3. f \in Expressible => f \in ran.resolves[f]
        BY <2>3, <3>2, LaneAssumption
      <3>4. QED
        BY <3>1, <3>2, <3>3 DEF Mutated
    <2>5. Ungraded(report) = {}
      BY <1>1, <2>1 DEF Verdict
    <2>6. Surviving(report) = {}
      <3>1. verdict = "clean" \/ verdict = "held nothing"
        BY <1>1
      <3>2. CASE Having(report, "detected") \cup Having(report, "undetected") = {}
        BY <3>2 DEF Surviving
      <3>3. CASE Having(report, "detected") \cup Having(report, "undetected") # {}
        BY <2>1, <2>5, <3>1, <3>3 DEF Verdict
      <3>4. QED
        BY <3>2, <3>3
    <2>7. ASSUME NEW n \in DOMAIN report
          PROVE  /\ report[n].file \in Written_
                 /\ report[n].from..report[n].to \subseteq branch.wrote[report[n].file] =>
                      report[n].status \notin Undetected \cup {"Ignored"}
                 /\ report[n].status \in NO_VERDICT => report[n].static
      <3>1. report[n].file \in DOMAIN changed
        BY <2>1
      <3>2. report[n].file \in Graded /\ changed[report[n].file] = branch.wrote[report[n].file]
        BY <2>2, <3>1 DEF AllIsKnown
      <3>3. report[n].file \in Written_
        BY <2>2, <3>1, <3>2 DEF AllIsKnown, Written_
      <3>4. ASSUME report[n].from..report[n].to \subseteq branch.wrote[report[n].file],
                   report[n].status \in Undetected \cup {"Ignored"}
            PROVE  FALSE
        <4>1. InTheChange(report[n])
          BY <3>2, <3>4 DEF InTheChange
        <4>2. WorthOf(report[n].status, InTheChange(report[n])) = "undetected"
          BY <3>4, <4>1 DEF WorthOf, Detected, Undetected
        <4>3. GradedAs(report)[n].own /\ GradedAs(report)[n].worth = "undetected"
          BY <4>1, <4>2 DEF GradedAs
        <4>4. n \in Surviving(report)
          BY <4>3 DEF Surviving, Having
        <4>5. QED
          BY <2>6, <4>4
      <3>5. report[n].status \in NO_VERDICT => report[n].static
        BY <2>5 DEF Ungraded
      <3>6. QED
        BY <3>3, <3>4, <3>5
    <2>8. QED
      BY <2>1, <2>4, <2>7
  <1>2. ASSUME verdict = "nothing to mutate" PROVE branch.base = "none" \/ Written_ = {}
    <2>1. stage = "settled" /\ branch.base # "refused" /\ ~(problems > 0)
      BY <1>2 DEF LaneJudged
    <2>2. branch \in Branches /\ problems \in Nat
      BY DEF ReadSo
    <2>3. branch.base \in {"named", "refused", "none"}
      BY <2>2, ChangeAssumption
    <2>4. CASE branch.base = "named"
      <3>1. problems = 0
        BY <2>1, <2>2
      <3>2. AllIsKnown /\ DOMAIN changed = {}
        BY <2>1, <2>4, <3>1 DEF ReadSo
      <3>3. QED
        BY <3>1, <3>2 DEF AllIsKnown, Written_
    <2>5. QED
      BY <2>1, <2>3, <2>4
  <1>3. QED
    BY <1>1, <1>2 DEF GreenMeansGraded

(* A green lane was graded, over any branch, runner and report: the pattern   *)
(* of every file the branch wrote in reached a file, and the file itself but  *)
(* where its name holds a character that no pattern can express (literal,     *)
(* 419-435); and of the mutants on the branch's own lines no one that was     *)
(* tried was left (mutationLane, 500-595, and verdict, 634-688).              *)
THEOREM WhatIsGreenWasGraded == LaneSpec => []GreenMeansGraded
  <1>1. ChangeInit /\ LaneInit => ReadSo /\ LaneJudged
    BY ReadingAtFirst DEF LaneInit, LaneJudged
  <1>2. ReadSo /\ LaneJudged
        /\ [(verdict = "declared" /\ Read /\ UNCHANGED lane) \/ (Mutate /\ UNCHANGED change)]_<<change, lane>>
          => (ReadSo /\ LaneJudged)'
    <2> SUFFICES ASSUME ReadSo, LaneJudged,
           [(verdict = "declared" /\ Read /\ UNCHANGED lane) \/ (Mutate /\ UNCHANGED change)]_<<change, lane>>
                 PROVE  ReadSo' /\ LaneJudged'
      OBVIOUS
    <2>1. LaneJudged'
      BY JudgedKept
    <2>2. Read \/ UNCHANGED change
      OBVIOUS
    <2>3. QED
      BY <2>1, <2>2, ReadingKept, ReadingStill
  <1>3. ReadSo /\ LaneJudged => GreenMeansGraded
    BY GreenIsGraded
  <1>4. QED
    BY <1>1, <1>2, <1>3, PTL DEF LaneSpec
=============================================================================
