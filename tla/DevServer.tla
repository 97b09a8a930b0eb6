----------------------------- MODULE DevServer -----------------------------
(***************************************************************************)
(* dev-server.ts: one supervised server per worktree.  Nothing is a        *)
(* daemon: each invocation is a command that reads records, looks at       *)
(* processes and ports, and writes or removes records, and any other       *)
(* command, server or stranger moves between two of its steps.  Only `up`  *)
(* takes a lock, one per record.  FileLock is that lock, and is shown to   *)
(* implement Mutex; here taking it is one step, Mutex's Enter.             *)
(*                                                                         *)
(* A server is named by the `up` that spawned it: the pid, boot id and     *)
(* start tick of a record name exactly one process, and no `up` spawns     *)
(* two.  A record's stem is the worktree and the branch it had checked out *)
(* when the command began, as recordStem spells it.                        *)
(***************************************************************************)
EXTENDS Integers, Sequences, FiniteSets

CONSTANTS
  Cmd,          \* the invocations of the command line
  Kind,         \* "up", "down" or "sweep", per command
  In,           \* the worktree each command runs in
  Worktree,
  Branch,
  Later,        \* the worktrees that are not there at the start
  Trunk,        \* the branch every worktree begins on
  Port,
  Block,        \* per stem, the ports of its block in the order they are tried
  Strangers,    \* the ports a process that is no server of ours may come to hold
  Before,       \* the records there may be at the start: stems to records
  Gone,         \* a server of before: its process is not running
  Junk,         \* a file that is no record
  None,
  Restless,     \* bound on the switches of branch: the worktrees that make one
  MaxKills      \* bound on the commands killed

Stem == Worktree \X Branch

ASSUME DevServerAssumption ==
  /\ Kind \in [Cmd -> {"up", "down", "sweep"}]
  /\ In \in [Cmd -> Worktree]
  /\ Later \subseteq Worktree
  /\ Trunk \in Branch
  /\ Block \in [Stem -> Seq(Port) \ {<<>>}]
  /\ Strangers \subseteq Port
  /\ Gone \notin Cmd
  /\ Restless \subseteq Worktree
  /\ MaxKills \in Nat

Record == [server : Cmd \cup {Gone}, port : Port]

(* The records of before name servers of before, and none of the commands. *)
ASSUME RecordsAssumption ==
  /\ \A there \in Before :
       /\ DOMAIN there \subseteq Stem
       /\ \A s \in DOMAIN there : there[s] # Junk => there[s] \in Record /\ there[s].server = Gone
  /\ None \notin Record \cup {Junk}
  /\ Junk \notin Record

VARIABLES
  pc,        \* per command, what it does next
  stem,      \* per command, the stem it acts on
  seen,      \* per command, the record it acts on
  claim,     \* per `up`, the index in its block of the port it is trying, or 0
  live,      \* per `sweep`, the worktrees it found there
  todo,      \* per `sweep`, the entries it read and has not yet looked at
  server,    \* per `up`, its server: [state, port]
  records,   \* the state directory: stems to records or Junk
  present,   \* the worktrees that are there
  branch,    \* what each worktree has checked out
  strange    \* the ports strangers hold

vars == <<pc, stem, seen, claim, live, todo, server, records, present, branch, strange>>
world == <<server, records, present, branch, strange>>
mind == <<stem, seen, claim, live, todo>>

PC == {"start", "lock", "read", "look", "claim", "probe", "spawn", "stat", "write", "reread",
       "ready", "ask", "off", "ours", "term", "kill", "forget", "list", "entries", "each",
       "done", "failed", "killed"}

Over == {"done", "failed", "killed"}

TypeOK ==
  /\ pc \in [Cmd -> PC]
  /\ stem \in [Cmd -> Stem]
  /\ seen \in [Cmd -> Record \cup {None}]
  /\ claim \in [Cmd -> Nat]
  /\ live \in [Cmd -> SUBSET Worktree]
  /\ todo \in [Cmd -> SUBSET [stem : Stem, entry : Record \cup {Junk}]]
  /\ server \in [Cmd -> [state : {"none", "starting", "serving", "exited"},
                         port : Port \cup {None}]]
  /\ DOMAIN records \subseteq Stem
  /\ \A s \in DOMAIN records : records[s] \in Record \cup {Junk}
  /\ present \subseteq Worktree
  /\ branch \in [Worktree -> Branch]
  /\ strange \subseteq Strangers

-----------------------------------------------------------------------------
(* The machine. *)

Running(s) == s \in Cmd /\ server[s].state \in {"starting", "serving"}

Serving(s) == s \in Cmd /\ server[s].state = "serving"

Held(p) == p \in strange \/ \E s \in Cmd : Serving(s) /\ server[s].port = p

(* serverHere: a file that is no record counts as absent. *)
ServerAt(s) == IF s \in DOMAIN records /\ records[s] # Junk THEN records[s] ELSE None

Written(s, r) == [t \in DOMAIN records \cup {s} |-> IF t = s THEN r ELSE records[t]]
Removed(s) == [t \in DOMAIN records \ {s} |-> records[t]]

(* `up` holds the lock of its stem from the lock to its end. *)
UnderLock == {"read", "look", "claim", "probe", "spawn", "stat", "write", "reread",
              "ready", "ask", "off", "ours", "term", "kill", "forget"}
HoldsLock(c) == Kind[c] = "up" /\ pc[c] \in UnderLock

Goto(c, to) == pc' = [pc EXCEPT ![c] = to]

-----------------------------------------------------------------------------
(* Mistakes: what an operation below is easily got wrong as.  No           *)
(* behaviour uses them; each is refuted by the property that watches it.   *)

(* `up` goes ahead beside another. *)
LockIgnored(c) == pc[c] = "lock" /\ Goto(c, "read") /\ UNCHANGED <<mind, world>>

(* A claim that is taken is stepped over. *)
ClaimPortForward(c) ==
  /\ pc[c] = "claim"
  /\ claim' = [claim EXCEPT ![c] = 1]
  /\ Goto(c, IF In[c] \in present THEN "probe" ELSE "failed")
  /\ UNCHANGED <<stem, seen, live, todo, world>>

(* The deadline is looked at only once the child is dead. *)
ReadyTimesOutLate(c) ==
  /\ pc[c] = "ready"
  /\ ~Running(seen[c].server)
  /\ Goto(c, "ours")
  /\ UNCHANGED <<mind, world>>

(* A signal that was sent counts as a process that is gone. *)
TermForgets(c) == pc[c] = "term" /\ Goto(c, "forget") /\ UNCHANGED <<mind, world>>

(* The worktrees are the ones git would list for the checkout alone. *)
ListWorktreesHere(c) ==
  /\ pc[c] = "list"
  /\ live' = [live EXCEPT ![c] = present \cap {In[c]}]
  /\ Goto(c, IF In[c] \in present THEN "entries" ELSE "failed")
  /\ UNCHANGED <<stem, seen, claim, todo, world>>

-----------------------------------------------------------------------------
(* up *)

(* checkout: the stem is settled once, from the branch there is now. *)
Start(c) ==
  /\ pc[c] = "start"
  /\ In[c] \in present
  /\ stem' = [stem EXCEPT ![c] = <<In[c], branch[In[c]]>>]
  /\ Goto(c, CASE Kind[c] = "up" -> "lock"
               [] Kind[c] = "down" -> "read"
               [] Kind[c] = "sweep" -> "list")
  /\ UNCHANGED <<seen, claim, live, todo, world>>

Lock(c) ==
  /\ pc[c] = "lock"
  /\ \A d \in Cmd : HoldsLock(d) => stem[d] # stem[c]
  /\ Goto(c, "read")
  /\ UNCHANGED <<mind, world>>

(* LOCK_TIMEOUT_MS, against an `up` that is still running. *)
LockTimesOut(c) ==
  /\ pc[c] = "lock"
  /\ \E d \in Cmd : HoldsLock(d) /\ stem[d] = stem[c]
  /\ Goto(c, "failed")
  /\ UNCHANGED <<mind, world>>

(* serverHere, for `up` and `down` alike. *)
Read(c) ==
  /\ pc[c] = "read"
  /\ seen' = [seen EXCEPT ![c] = ServerAt(stem[c])]
  /\ Goto(c, CASE Kind[c] = "up" -> "look"
               [] Kind[c] = "down" -> IF ServerAt(stem[c]) = None THEN "done" ELSE "ours")
  /\ UNCHANGED <<stem, claim, live, todo, world>>

Look(c) ==
  /\ pc[c] = "look"
  /\ Goto(c, IF seen[c] # None /\ Running(seen[c].server) THEN "ready" ELSE "claim")
  /\ UNCHANGED <<mind, world>>

InBlock(s, p) == \E i \in DOMAIN Block[s] : Block[s][i] = p
IndexOf(s, p) == CHOOSE i \in DOMAIN Block[s] : Block[s][i] = p

(* keptPort, when a record claims a port of the block; freePort otherwise. *)
ClaimPort(c) ==
  /\ pc[c] = "claim"
  /\ LET kept == seen[c] # None /\ InBlock(stem[c], seen[c].port)
     IN  /\ claim' = [claim EXCEPT ![c] = IF kept THEN IndexOf(stem[c], seen[c].port) ELSE 1]
         /\ Goto(c, CASE In[c] \notin present -> "failed"
                      [] In[c] \in present /\ ~kept -> "probe"
                      [] In[c] \in present /\ kept ->
                           IF Held(seen[c].port) THEN "failed" ELSE "spawn")
  /\ UNCHANGED <<stem, seen, live, todo, world>>

Probe(c) ==
  /\ pc[c] = "probe"
  /\ LET free == ~Held(Block[stem[c]][claim[c]])
         last == claim[c] = Len(Block[stem[c]])
     IN  /\ claim' = [claim EXCEPT ![c] = IF free \/ last THEN @ ELSE @ + 1]
         /\ Goto(c, IF free THEN "spawn" ELSE IF last THEN "failed" ELSE "probe")
  /\ UNCHANGED <<stem, seen, live, todo, world>>

(* The child starts in the worktree, so there has to be one. *)
Spawn(c) ==
  /\ pc[c] = "spawn"
  /\ IF In[c] \in present
     THEN /\ server' = [server EXCEPT ![c] = [state |-> "starting",
                                              port |-> Block[stem[c]][claim[c]]]]
          /\ Goto(c, "stat")
     ELSE Goto(c, "failed") /\ UNCHANGED server
  /\ UNCHANGED <<mind, records, present, branch, strange>>

Stat(c) ==
  /\ pc[c] = "stat"
  /\ Goto(c, IF Running(c) THEN "write" ELSE "failed")
  /\ UNCHANGED <<mind, world>>

WriteRecord(c) ==
  /\ pc[c] = "write"
  /\ records' = Written(stem[c], [server |-> c, port |-> server[c].port])
  /\ Goto(c, "reread")
  /\ UNCHANGED <<mind, server, present, branch, strange>>

MustRead(c) ==
  /\ pc[c] = "reread"
  /\ seen' = [seen EXCEPT ![c] = ServerAt(stem[c])]
  /\ Goto(c, IF ServerAt(stem[c]) = None THEN "failed" ELSE "ready")
  /\ UNCHANGED <<stem, claim, live, todo, world>>

-----------------------------------------------------------------------------
(* awaitReady *)

(* stillOurs, then the port is asked: two looks at a machine that moves. *)
StillOurs(c) ==
  /\ pc[c] = "ready"
  /\ Goto(c, IF Running(seen[c].server) THEN "ask" ELSE "ours")
  /\ UNCHANGED <<mind, world>>

(* Whoever holds the port may answer, or be too slow for PROBE_TIMEOUT_MS. *)
Ask(c) ==
  /\ pc[c] = "ask"
  /\ \/ Held(seen[c].port) /\ Goto(c, "off")
     \/ Goto(c, "ready")
  /\ UNCHANGED <<mind, world>>

ReadyTimesOut(c) ==
  /\ pc[c] = "ready"
  /\ Goto(c, "ours")
  /\ UNCHANGED <<mind, world>>

(* refuseOffLoopback, and the URL printed when nothing answered there: who *)
(* holds the port may hold it on the machine's other addresses too.        *)
RefuseOffLoopback(c) ==
  /\ pc[c] = "off"
  /\ \/ Held(seen[c].port) /\ Goto(c, "ours")
     \/ Goto(c, "done")
  /\ UNCHANGED <<mind, world>>

-----------------------------------------------------------------------------
(* stop, for whichever command called it *)

(* Every `up` that stops a server throws after it. *)
Stopped(c) ==
  CASE Kind[c] = "up" -> "failed" [] Kind[c] = "down" -> "done" [] Kind[c] = "sweep" -> "each"

(* One that runs leads its group: every server here was started by setsid,   *)
(* so the throw for one that does not (268-272) is out of reach.            *)
Ours(c) ==
  /\ pc[c] = "ours"
  /\ Goto(c, IF Running(seen[c].server) THEN "term" ELSE "forget")
  /\ UNCHANGED <<mind, world>>

(* SIGTERM and STOP_TIMEOUT_MS: what is still there after it is killed. *)
Term(c) ==
  /\ pc[c] = "term"
  /\ Goto(c, IF Running(seen[c].server) THEN "kill" ELSE "forget")
  /\ UNCHANGED <<mind, world>>

(* SIGKILL and KILL_TIMEOUT_MS: what is still there keeps its record. *)
KillGroup(c) ==
  /\ pc[c] = "kill"
  /\ \/ /\ server' = IF Running(seen[c].server)
                     THEN [server EXCEPT ![seen[c].server].state = "exited"] ELSE server
        /\ Goto(c, "forget")
     \/ /\ Running(seen[c].server)
        /\ Goto(c, "failed")
        /\ UNCHANGED server
  /\ UNCHANGED <<mind, records, present, branch, strange>>

Forget(c) ==
  /\ pc[c] = "forget"
  /\ records' = Removed(stem[c])
  /\ Goto(c, Stopped(c))
  /\ UNCHANGED <<mind, server, present, branch, strange>>

-----------------------------------------------------------------------------
(* sweep *)

ListWorktrees(c) ==
  /\ pc[c] = "list"
  /\ live' = [live EXCEPT ![c] = present]
  /\ Goto(c, IF In[c] \in present THEN "entries" ELSE "failed")
  /\ UNCHANGED <<stem, seen, claim, todo, world>>

(* The names are listed and every file read at once: what is written or      *)
(* removed between the listing and a file's own reading is left out.        *)
Entries(c) ==
  /\ pc[c] = "entries"
  /\ todo' = [todo EXCEPT ![c] = {[stem |-> s, entry |-> records[s]] : s \in DOMAIN records}]
  /\ Goto(c, "each")
  /\ UNCHANGED <<stem, seen, claim, live, world>>

SweepEntry(c) ==
  /\ pc[c] = "each"
  /\ \E e \in todo[c] :
       /\ todo' = [todo EXCEPT ![c] = @ \ {e}]
       /\ \/ /\ e.entry = Junk
             /\ records' = Removed(e.stem)
             /\ UNCHANGED <<pc, stem, seen>>
          \/ /\ e.entry # Junk /\ e.stem[1] \in live[c]
             /\ UNCHANGED <<pc, stem, seen, records>>
          \/ /\ e.entry # Junk /\ e.stem[1] \notin live[c]
             /\ stem' = [stem EXCEPT ![c] = e.stem]
             /\ seen' = [seen EXCEPT ![c] = e.entry]
             /\ Goto(c, "ours")
             /\ UNCHANGED records
  /\ UNCHANGED <<claim, live, server, present, branch, strange>>

SweepDone(c) ==
  /\ pc[c] = "each"
  /\ todo[c] = {}
  /\ Goto(c, "done")
  /\ UNCHANGED <<mind, world>>

-----------------------------------------------------------------------------
(* Everything else that moves. *)

Serve(s) ==
  /\ server[s].state = "starting"
  /\ server' = [server EXCEPT ![s].state = IF Held(server[s].port) THEN "exited" ELSE "serving"]
  /\ UNCHANGED <<pc, mind, records, present, branch, strange>>

Exit(s) ==
  /\ Running(s)
  /\ server' = [server EXCEPT ![s].state = "exited"]
  /\ UNCHANGED <<pc, mind, records, present, branch, strange>>

StrangerComes(p) ==
  /\ p \in Strangers /\ ~Held(p)
  /\ strange' = strange \cup {p}
  /\ UNCHANGED <<pc, mind, server, records, present, branch>>

StrangerGoes(p) ==
  /\ strange' = strange \ {p}
  /\ p \in strange
  /\ UNCHANGED <<pc, mind, server, records, present, branch>>

RemoveWorktree(w) ==
  /\ w \in present /\ Cardinality(present) > 1
  /\ present' = present \ {w}
  /\ UNCHANGED <<pc, mind, server, records, branch, strange>>

AddWorktree(w) ==
  /\ w \in Later \ present
  /\ present' = present \cup {w}
  /\ UNCHANGED <<pc, mind, server, records, branch, strange>>

(* git switch *)
SwitchBranch(w, b) ==
  /\ w \in present \cap Restless
  /\ branch[w] = Trunk /\ b # Trunk
  /\ branch' = [branch EXCEPT ![w] = b]
  /\ UNCHANGED <<pc, mind, server, records, present, strange>>

Kill(c) ==
  /\ pc[c] \notin Over \cup {"start"}
  /\ Cardinality({d \in Cmd : pc[d] = "killed"}) < MaxKills
  /\ pc' = [pc EXCEPT ![c] = "killed"]
  /\ UNCHANGED <<mind, world>>

(* Every command that could begin is over, and the world may stand still. *)
Finished ==
  /\ \A c \in Cmd : pc[c] \in Over \/ (pc[c] = "start" /\ In[c] \notin present)
  /\ UNCHANGED vars

Init ==
  /\ pc = [c \in Cmd |-> "start"]
  /\ stem = [c \in Cmd |-> <<In[c], Trunk>>]
  /\ seen = [c \in Cmd |-> None]
  /\ claim = [c \in Cmd |-> 0]
  /\ live = [c \in Cmd |-> {}]
  /\ todo = [c \in Cmd |-> {}]
  /\ server = [c \in Cmd |-> [state |-> "none", port |-> None]]
  /\ records \in Before
  /\ present = Worktree \ Later
  /\ branch = [w \in Worktree |-> Trunk]
  /\ strange = {}

Command(c) ==
  \/ Start(c) \/ Lock(c) \/ LockTimesOut(c) \/ Read(c) \/ Look(c) \/ ClaimPort(c) \/ Probe(c)
  \/ Spawn(c) \/ Stat(c) \/ WriteRecord(c) \/ MustRead(c)
  \/ StillOurs(c) \/ Ask(c) \/ ReadyTimesOut(c) \/ RefuseOffLoopback(c)
  \/ Ours(c) \/ Term(c) \/ KillGroup(c) \/ Forget(c)
  \/ ListWorktrees(c) \/ Entries(c) \/ SweepEntry(c) \/ SweepDone(c)

World ==
  \/ \E s \in Cmd : Serve(s) \/ Exit(s)
  \/ \E p \in Port : StrangerComes(p) \/ StrangerGoes(p)
  \/ \E w \in Worktree : RemoveWorktree(w) \/ AddWorktree(w) \/ \E b \in Branch : SwitchBranch(w, b)
  \/ \E c \in Cmd : Kill(c)

Next == (\E c \in Cmd : Command(c)) \/ World \/ Finished

Spec == Init /\ [][Next]_vars

(* A command goes on, and the deadline of a wait passes; what servers,     *)
(* strangers and people do is theirs.                                      *)
FairSpec ==
  Spec /\ \A c \in Cmd : WF_vars(Command(c)) /\ SF_vars(ReadyTimesOut(c))

-----------------------------------------------------------------------------
(* What the commands promise. *)

Names(s, c) == s \in DOMAIN records /\ records[s] # Junk /\ records[s].server = c

(* The window `up` admits to: it died between the spawn and the record.    *)
(* (One that died before it read its record back is counted with those.)   *)
Orphan(c) == pc[c] = "killed" /\ ~(seen[c] # None /\ seen[c].server = c)

(* Every server that runs and is no orphan is named by a record, from the  *)
(* write on: "the only handle anything has on that pid".                   *)
EveryServerNamed ==
  \A c \in Cmd : Running(c) /\ ~Orphan(c) /\ pc[c] \notin {"stat", "write"} =>
    \E s \in DOMAIN records : Names(s, c)

(* A record is dropped only once the process it named when it was read is  *)
(* gone, and whoever stopped a server has left it stopped.                 *)
ForgetsOnlyTheGone ==
  \A c \in Cmd :
    \/ pc[c] = "forget"
    \/ Kind[c] = "down" /\ pc[c] = "done" /\ seen[c] # None
    => ~Running(seen[c].server)

(* "The record is removed only once the process is proven gone."           *)
RecordOutlivesServer ==
  [][\A s \in DOMAIN records : \A c \in Cmd :
       Names(s, c) /\ Running(c) => s \in DOMAIN records']_vars

(* "One supervised dev server per git worktree": of the servers of a       *)
(* worktree that are no orphans, at most one runs.                         *)
OneServerPerWorktree ==
  \A c, d \in Cmd :
    /\ Running(c) /\ Running(d) /\ In[c] = In[d]
    /\ ~Orphan(c) /\ ~Orphan(d)
    => c = d

(* A claimed port is refused, never stepped over: an `up` that replaces a  *)
(* record replaces it with one of the same port.                           *)
ClaimStays ==
  [][\A s \in DOMAIN records \cap DOMAIN records' :
       records[s] # Junk /\ InBlock(s, records[s].port) /\ records'[s] # records[s]
         => records'[s].port = records[s].port]_vars

(* `sweep` is for the worktrees that are gone: it kills no server of one   *)
(* that is there and was there when it began.                              *)
SweepSparesTheLiving ==
  [][\A c \in Cmd : Kind[c] = "sweep" /\ pc[c] = "kill" /\ pc'[c] = "forget"
       /\ Running(seen[c].server) => In[seen[c].server] \notin present \ Later]_vars

(* Every command ends: each wait has a deadline, the one for the lock too. *)
EveryCommandEnds ==
  \A c \in Cmd : [](pc[c] # "start" => <>(pc[c] \in Over))
=============================================================================
