----------------------------- MODULE RouteTable ------------------------------
(***************************************************************************)
(* What the floors over an app's route table share: how a route is named,  *)
(* which route of a table answers a request, and how a list of reasoned     *)
(* exceptions is graded (route-log.ts, db-gate/route-table.ts).             *)
(*                                                                         *)
(* A route is a method, as somebody wrote it, and the pattern of a path.    *)
(***************************************************************************)
EXTENDS FiniteSets

CONSTANTS
  Path,        \* the patterns of paths
  Malformed    \* what is written where a route should be, and is none

EveryMethod == "ALL"
Methods == {"GET", "POST"}
Request == [method : Methods, path : Path]
RouteOf(method, path) == [method |-> method, path |-> path]
CatchAll(path) == RouteOf(EveryMethod, path)

(* key: the method is folded, the path is not. *)
Upper(method) == IF method = "get" THEN "GET" ELSE method
RouteKey(route) == [route EXCEPT !.method = Upper(@)]
Keys(routes) == {RouteKey(route) : route \in routes}

(* The app's router: the route of the method itself, or else the one for    *)
(* every method.                                                           *)
AnsweredBy(routes, request) ==
  IF request \in Keys(routes) THEN {request} ELSE Keys(routes) \cap {CatchAll(request.path)}
Answerable(routes) == {request \in Request : AnsweredBy(routes, request) # {}}

(* allowlistFrom: what is listed, and which of it says nothing about why.   *)
Listed(entries, bare) == [entries |-> entries, unreasoned |-> bare]
NothingListed == Listed({}, {})
RoutesIn(list) == Keys(list.entries \ {Malformed})

-----------------------------------------------------------------------------

(* waivedBy: an entry stands as long as it names a subject of the floor's   *)
(* that is not satisfied; any other is refused, once.                      *)
WaivedBy(list, subjects, satisfied) ==
  LET Stands(entry) == entry # Malformed /\ RouteKey(entry) \in subjects \ satisfied
      waived == Keys({entry \in list.entries : Stands(entry)})
  IN  [waived |-> waived,
       unmet |-> subjects \ (satisfied \cup waived),
       rotten |-> {entry \in list.entries \ list.unreasoned : ~Stands(entry)}]

(* The floor over it is green. *)
NothingWrong(list, graded) == list.unreasoned = {} /\ graded.unmet = {} /\ graded.rotten = {}
=============================================================================
