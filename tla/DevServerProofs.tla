-------------------------- MODULE DevServerProofs --------------------------
(***************************************************************************)
(* What DevServer promises for any number of commands, worktrees, branches *)
(* and ports, any blocks, any records of before and any number of kills.   *)
(***************************************************************************)
EXTENDS DevServer, TLAPS

-----------------------------------------------------------------------------
(* The inductive invariant, part by part. *)

(* What only an `up` does, and what only a `sweep` does. *)
Settling == {"look", "claim", "probe", "spawn", "stat", "write"}
Awaiting == {"ready", "ask", "off"}
Stopping == {"ours", "term", "kill", "forget"}

KeepsToItsKind ==
  \A c \in Cmd :
    /\ pc[c] \in {"lock", "reread"} \cup Settling \cup Awaiting => Kind[c] = "up"
    /\ pc[c] = "read" => Kind[c] \in {"up", "down"}
    /\ pc[c] \in {"list", "entries", "each"} => Kind[c] = "sweep"

(* An `up` has its server from the spawn on, and a port to try before it. *)
SpawnsOnce ==
  \A c \in Cmd :
    /\ pc[c] \in {"start", "lock", "read", "look", "claim", "probe", "spawn"} => server[c].state = "none"
    /\ pc[c] \in {"stat", "write"} => server[c].state # "none" /\ server[c].port \in Port
    /\ pc[c] \in {"probe", "spawn"} => claim[c] \in DOMAIN Block[stem[c]]

(* A command waits for, and stops, a server it has the record of. *)
ActsOnARecord ==
  \A c \in Cmd :
    /\ pc[c] = "start" => seen[c] = None
    /\ pc[c] \in Awaiting \cup Stopping => seen[c] # None
    /\ Kind[c] = "up" => stem[c][1] = In[c]

(* A record, wherever a command has it, names a server that was spawned,   *)
(* in the worktree of the record's stem.                                   *)
Spawned(s, entry) ==
  entry \in Record /\ entry.server \in Cmd =>
    server[entry.server].state # "none" /\ In[entry.server] = s[1]

RecordsNameTheSpawned ==
  /\ \A s \in DOMAIN records : Spawned(s, records[s])
  /\ \A c \in Cmd : Spawned(stem[c], seen[c])
  /\ \A c \in Cmd : \A e \in todo[c] : Spawned(e.stem, e.entry)

(* What is over is over: the server an `up` replaces, as the one a stop    *)
(* has seen the end of.                                                    *)
SeesTheEnd ==
  \A c \in Cmd :
    \/ pc[c] \in Settling \ {"look"} /\ seen[c] # None
    \/ pc[c] = "forget"
    \/ Kind[c] = "down" /\ pc[c] = "done" /\ seen[c] # None
    => ~Running(seen[c].server)

OneHolder ==
  \A c, d \in Cmd : HoldsLock(c) /\ HoldsLock(d) /\ stem[c] = stem[d] => c = d

(* Under the lock a record may go, and no other comes in its place. *)
NobodyElseWrites ==
  \A c \in Cmd : pc[c] \in Settling => ServerAt(stem[c]) \in {seen[c], None}

ClaimIsKept ==
  \A c \in Cmd : seen[c] # None /\ InBlock(stem[c], seen[c].port) =>
    /\ pc[c] # "probe"
    /\ pc[c] = "spawn" => Block[stem[c]][claim[c]] = seen[c].port
    /\ pc[c] \in {"stat", "write"} => server[c].port = seen[c].port

(* A worktree that was there at the start and still is has been there all  *)
(* along, so sweep has found it.                                           *)
SweepsTheGone ==
  \A c \in Cmd : Kind[c] = "sweep" =>
    /\ pc[c] \in {"entries", "each"} \cup Stopping => present \ Later \subseteq live[c]
    /\ pc[c] \in Stopping => stem[c][1] \notin live[c]

Inv ==
  /\ TypeOK /\ KeepsToItsKind /\ SpawnsOnce /\ ActsOnARecord /\ RecordsNameTheSpawned /\ SeesTheEnd
  /\ OneHolder /\ NobodyElseWrites /\ ClaimIsKept /\ SweepsTheGone

-----------------------------------------------------------------------------
(* With `up`s alone, nobody drops a record but who holds its lock. *)

AllUps == \A c \in Cmd : Kind[c] = "up"

SeenIsThere ==
  \A c \in Cmd :
    /\ pc[c] \in Settling \cup Awaiting \cup Stopping => ServerAt(stem[c]) = seen[c]
    /\ pc[c] = "reread" => Names(stem[c], c)

NamedByItsOwn ==
  \A c \in Cmd : Running(c) /\ ~Orphan(c) /\ pc[c] \notin {"stat", "write"} => Names(stem[c], c)

UpsInv == Inv /\ SeenIsThere /\ NamedByItsOwn

(* Without a switch of branch a worktree has one stem. *)
OnTrunk == branch = [w \in Worktree |-> Trunk] /\ \A c \in Cmd : stem[c] = <<In[c], Trunk>>

-----------------------------------------------------------------------------
(* What a step leaves alone. *)

(* A command that acts changes no mind but its own. *)
LEMMA OthersKeep ==
  ASSUME TypeOK, TypeOK', NEW c \in Cmd, Command(c), NEW d \in Cmd \ {c}
  PROVE  /\ pc'[d] = pc[d] /\ stem'[d] = stem[d] /\ seen'[d] = seen[d]
         /\ claim'[d] = claim[d] /\ live'[d] = live[d] /\ todo'[d] = todo[d]
  <1> USE DEF TypeOK, Goto, mind, world
  <1>1. CASE Start(c) \/ Lock(c) \/ LockTimesOut(c) \/ Read(c) \/ Look(c)
    BY <1>1 DEF Start, Lock, LockTimesOut, Read, Look
  <1>2. CASE ClaimPort(c)
    BY <1>2 DEF ClaimPort
  <1>3. CASE Probe(c)
    BY <1>3 DEF Probe
  <1>4. CASE Spawn(c) \/ Stat(c) \/ WriteRecord(c) \/ MustRead(c)
    BY <1>4 DEF Spawn, Stat, WriteRecord, MustRead
  <1>5. CASE StillOurs(c) \/ Ask(c) \/ ReadyTimesOut(c) \/ RefuseOffLoopback(c)
    BY <1>5 DEF StillOurs, Ask, ReadyTimesOut, RefuseOffLoopback
  <1>6. CASE Ours(c) \/ Term(c) \/ KillGroup(c) \/ Forget(c)
    BY <1>6 DEF Ours, Term, KillGroup, Forget
  <1>7. CASE ListWorktrees(c) \/ Entries(c) \/ SweepEntry(c) \/ SweepDone(c)
    BY <1>7 DEF ListWorktrees, Entries, SweepEntry, SweepDone
  <1>8. QED
    BY <1>1, <1>2, <1>3, <1>4, <1>5, <1>6, <1>7 DEF Command

(* Whatever else moves changes no record and no mind; a kill ends a command. *)
LEMMA WorldMinds ==
  ASSUME TypeOK, World \/ UNCHANGED vars
  PROVE  UNCHANGED mind /\ UNCHANGED records /\ \A d \in Cmd : pc'[d] \in {pc[d], "killed"}
  BY DEF TypeOK, World, Serve, Exit, StrangerComes, StrangerGoes, RemoveWorktree, AddWorktree,
     SwitchBranch, Kill,
     vars, world, mind

(* A server that was spawned stays so, where it is, and what is over is over. *)
StaysSpawned(s) ==
  /\ server[s].state # "none" =>
       server'[s].state # "none" /\ server'[s].port = server[s].port /\ (Running(s)' => Running(s))
  /\ server'[s] # server[s] /\ server[s].state = "none" => Spawn(s)

LEMMA ServersStay ==
  ASSUME Inv, TypeOK', [Next]_vars, NEW s \in Cmd
  PROVE  StaysSpawned(s)
  <1> USE DEF TypeOK, Inv, StaysSpawned
  <1>1. ASSUME NEW c \in Cmd, Spawn(c)
        PROVE  server[c].state = "none" /\ \A d \in Cmd \ {c} : server'[d] = server[d]
    BY <1>1 DEF Spawn, SpawnsOnce
  <1>2. ASSUME NEW d \in Cmd, Running(d), server' = [server EXCEPT ![d].state = "exited"]
        PROVE  StaysSpawned(s)
    BY <1>2 DEF Running
  <1>3. ASSUME NEW c \in Cmd, KillGroup(c), server' # server
        PROVE  Running(seen[c].server) /\ seen[c].server \in Cmd
               /\ server' = [server EXCEPT ![seen[c].server].state = "exited"]
    BY <1>3 DEF KillGroup, Running
  <1>4. ASSUME NEW d \in Cmd, Serve(d)
        PROVE  StaysSpawned(s)
    BY <1>4 DEF Serve, Running
  <1>5. ASSUME NEW c \in Cmd, Command(c), server' # server PROVE Spawn(c) \/ KillGroup(c)
    BY <1>5
    DEF Command, Start, Lock, LockTimesOut, Read, Look, ClaimPort, Probe, Stat, WriteRecord, MustRead,
       StillOurs, Ask, ReadyTimesOut, RefuseOffLoopback, Ours, Term, Forget, ListWorktrees, Entries, SweepEntry,
       SweepDone, world
  <1>6. ASSUME World, server' # server PROVE \E d \in Cmd : Serve(d) \/ Exit(d)
    BY <1>6 DEF World, StrangerComes, StrangerGoes, RemoveWorktree, AddWorktree, SwitchBranch, Kill, world
  <1>7. CASE server' = server
    BY <1>7 DEF Running
  <1>8. ASSUME NEW c \in Cmd, Command(c), server' # server
        PROVE  StaysSpawned(s)
    <2>1. CASE Spawn(c)
      BY <1>1, <2>1 DEF Running
    <2>2. CASE KillGroup(c)
      BY <1>2, <1>3, <1>8, <2>2
    <2>3. QED
      BY <1>5, <1>8, <2>1, <2>2
  <1>9. ASSUME World, server' # server
        PROVE  StaysSpawned(s)
    BY <1>2, <1>4, <1>6, <1>9 DEF Exit
  <1>10. QED
    BY <1>7, <1>8, <1>9 DEF Next, Finished, vars

(* A record comes from the `up` that writes it, and otherwise only goes. *)
LEMMA RecordsGo ==
  ASSUME TypeOK, [Next]_vars
  PROVE  \/ \A s \in DOMAIN records' : s \in DOMAIN records /\ records'[s] = records[s]
         \/ \E c \in Cmd : WriteRecord(c)
  <1>1. ASSUME NEW c \in Cmd, Command(c), ~WriteRecord(c), records' # records
        PROVE  \E s \in Stem : records' = Removed(s)
    <2>1. Forget(c) \/ SweepEntry(c)
      BY <1>1 DEF Command, Start, Lock, LockTimesOut, Read, Look, ClaimPort, Probe, Spawn, Stat, MustRead,
         StillOurs, Ask, ReadyTimesOut, RefuseOffLoopback, Ours, Term, KillGroup, ListWorktrees, Entries,
         SweepDone, world
    <2>2. QED
      BY <1>1, <2>1 DEF Forget, SweepEntry, TypeOK
  <1>2. ASSUME NEW s \in Stem, records' = Removed(s)
        PROVE  \A t \in DOMAIN records' : t \in DOMAIN records /\ records'[t] = records[t]
    BY <1>2 DEF Removed
  <1>3. QED
    BY <1>1, <1>2, WorldMinds DEF Next, Finished, vars

-----------------------------------------------------------------------------
(* Each step keeps each part of the invariant. *)

(* A record, a stem and a mind stay what they are of. *)
LEMMA TypeKeeps == Inv /\ [Next]_vars => TypeOK'
  <1> SUFFICES ASSUME Inv, [Next]_vars PROVE TypeOK'
    OBVIOUS
  <1> USE DEF TypeOK, Inv
  <1>1. ASSUME NEW c \in Cmd, Start(c) PROVE TypeOK'
    <2>1. <<In[c], branch[In[c]]>> \in Stem /\ Kind[c] \in {"up", "down", "sweep"}
      BY DevServerAssumption DEF Stem
    <2>2. QED
      BY <1>1, <2>1 DEF Start, world, Goto, PC
  <1>2. ASSUME NEW c \in Cmd, Lock(c) \/ LockTimesOut(c) \/ Look(c) \/ Stat(c) \/ StillOurs(c) \/ Ask(c)
                 \/ ReadyTimesOut(c) \/ RefuseOffLoopback(c) \/ Ours(c) \/ Term(c) \/ SweepDone(c)
        PROVE  TypeOK'
    BY <1>2
    DEF Lock, LockTimesOut, Look, Stat, StillOurs, Ask, ReadyTimesOut, RefuseOffLoopback, Ours, Term,
       SweepDone, Goto, PC, mind, world
  <1>3. \A s \in Stem : ServerAt(s) \in Record \cup {None}
    BY DEF ServerAt
  <1>4. ASSUME NEW c \in Cmd, Read(c) \/ MustRead(c) PROVE TypeOK'
    <2>1. \E to \in PC : Goto(c, to)
      BY <1>4 DEF Read, MustRead, KeepsToItsKind, PC
    <2>2. stem[c] \in Stem /\ seen' = [seen EXCEPT ![c] = ServerAt(stem[c])]
      BY <1>4 DEF Read, MustRead
    <2>3. seen' \in [Cmd -> Record \cup {None}]
      BY <1>3, <2>2
    <2>4. QED
      BY <1>4, <2>1, <2>3 DEF Read, MustRead, Goto, world
  <1>5. ASSUME NEW c \in Cmd, ClaimPort(c) PROVE TypeOK'
    <2>1. \E to \in PC : Goto(c, to)
      BY <1>5 DEF ClaimPort, PC
    <2>2. Block[stem[c]] \in Seq(Port)
      BY DevServerAssumption
    <2>3. \A p : InBlock(stem[c], p) => IndexOf(stem[c], p) \in Nat
      BY <2>2 DEF InBlock, IndexOf
    <2>4. QED
      BY <1>5, <2>1, <2>3 DEF ClaimPort, Goto, world
  <1>6. ASSUME NEW c \in Cmd, Probe(c) PROVE TypeOK'
    BY <1>6 DEF Probe, Goto, PC, world
  <1>7. ASSUME NEW c \in Cmd, Spawn(c) PROVE TypeOK'
    <2>1. Block[stem[c]][claim[c]] \in Port
      BY <1>7, DevServerAssumption DEF Spawn, SpawnsOnce
    <2>2. server' \in [Cmd -> [state : {"none", "starting", "serving", "exited"}, port : Port \cup {None}]]
      BY <1>7, <2>1 DEF Spawn
    <2>3. QED
      BY <1>7, <2>2 DEF Spawn, Goto, PC, mind
  <1>8. ASSUME NEW c \in Cmd, WriteRecord(c) PROVE TypeOK'
    <2>1. [server |-> c, port |-> server[c].port] \in Record
      BY <1>8 DEF WriteRecord, SpawnsOnce, Record
    <2>2. QED
      BY <1>8, <2>1 DEF WriteRecord, Goto, PC, mind, Written
  <1>9. ASSUME NEW c \in Cmd, KillGroup(c) PROVE TypeOK'
    <2>1. server' = server \/ \E s \in Cmd : server' = [server EXCEPT ![s].state = "exited"]
      BY <1>9 DEF KillGroup, Running
    <2>2. server' \in [Cmd -> [state : {"none", "starting", "serving", "exited"}, port : Port \cup {None}]]
      BY <2>1
    <2>3. QED
      BY <1>9, <2>2 DEF KillGroup, Goto, PC, mind
  <1>10. ASSUME NEW c \in Cmd, Forget(c) PROVE TypeOK'
    <2>1. Stopped(c) \in PC
      BY DevServerAssumption DEF Stopped, PC
    <2>2. QED
      BY <1>10, <2>1 DEF Forget, Goto, mind, Removed
  <1>11. ASSUME NEW c \in Cmd, ListWorktrees(c) PROVE TypeOK'
    BY <1>11 DEF ListWorktrees, Goto, PC, world
  <1>12. ASSUME NEW c \in Cmd, Entries(c) PROVE TypeOK'
    <2>1. {[stem |-> s, entry |-> records[s]] : s \in DOMAIN records}
            \in SUBSET [stem : Stem, entry : Record \cup {Junk}]
      OBVIOUS
    <2>2. QED
      BY <1>12, <2>1 DEF Entries, Goto, PC, world
  <1>13. ASSUME NEW c \in Cmd, SweepEntry(c) PROVE TypeOK'
    <2>1. PICK e \in todo[c] :
            /\ todo' = [todo EXCEPT ![c] = @ \ {e}]
            /\ records' \in {records, Removed(e.stem)}
            /\ seen' = seen \/ (e.entry # Junk /\ seen' = [seen EXCEPT ![c] = e.entry])
            /\ stem' \in {stem, [stem EXCEPT ![c] = e.stem]}
            /\ pc' = pc \/ Goto(c, "ours")
      BY <1>13 DEF SweepEntry
    <2>2. e.stem \in Stem /\ e.entry \in Record \cup {Junk}
      OBVIOUS
    <2>3. DOMAIN records' \subseteq Stem /\ \A s \in DOMAIN records' : records'[s] \in Record \cup {Junk}
      BY <2>1 DEF Removed
    <2>4. seen' \in [Cmd -> Record \cup {None}] /\ stem' \in [Cmd -> Stem]
      BY <2>1, <2>2
    <2>5. todo' \in [Cmd -> SUBSET [stem : Stem, entry : Record \cup {Junk}]] /\ pc' \in [Cmd -> PC]
      BY <2>1 DEF Goto, PC
    <2>6. QED
      BY <1>13, <2>1, <2>3, <2>4, <2>5 DEF SweepEntry
  <1>14. CASE World
    <2>1. ASSUME NEW s \in Cmd, Serve(s) \/ Exit(s) PROVE TypeOK'
      BY <2>1 DEF Serve, Exit, mind
    <2>2. ASSUME NEW c \in Cmd, Kill(c) PROVE TypeOK'
      BY <2>2 DEF Kill, PC, mind, world
    <2>3. ASSUME NEW p \in Port, StrangerComes(p) \/ StrangerGoes(p) PROVE TypeOK'
      BY <2>3 DEF StrangerComes, StrangerGoes, mind
    <2>4. ASSUME NEW w \in Worktree, RemoveWorktree(w) \/ AddWorktree(w) PROVE TypeOK'
      BY <2>4 DEF RemoveWorktree, AddWorktree, mind
    <2>5. ASSUME NEW w \in Worktree, NEW b \in Branch, SwitchBranch(w, b) PROVE TypeOK'
      BY <2>5 DEF SwitchBranch, mind
    <2>6. QED
      BY <1>14, <2>1, <2>2, <2>3, <2>4, <2>5 DEF World
  <1>15. CASE UNCHANGED vars
    BY <1>15 DEF vars
  <1>16. QED
    BY <1>1, <1>2, <1>4, <1>5, <1>6, <1>7, <1>8, <1>9, <1>10, <1>11, <1>12, <1>13, <1>14, <1>15
    DEF Next, Command, Finished

(* Nothing a `down` or a `sweep` does leads into what an `up` does. *)
LEMMA KindKeeps == ASSUME Inv, TypeOK', [Next]_vars PROVE KeepsToItsKind'
  <1> USE DEF Inv, TypeOK, KeepsToItsKind, Settling, Awaiting
  <1>1. ASSUME NEW c \in Cmd, Command(c) PROVE KeepsToItsKind'
    <2>1. ASSUME NEW d \in Cmd \ {c} PROVE pc'[d] = pc[d]
      BY <1>1, OthersKeep
    <2>2. CASE Start(c) \/ Lock(c) \/ LockTimesOut(c) \/ Read(c) \/ Look(c) \/ Probe(c) \/ Spawn(c)
               \/ Stat(c)
               \/ WriteRecord(c) \/ MustRead(c)
      BY <2>1, <2>2, DevServerAssumption
      DEF Start, Lock, LockTimesOut, Read, Look, Probe, Spawn, Stat, WriteRecord, MustRead, Goto
    <2>3. CASE ClaimPort(c)
      BY <2>1, <2>3 DEF ClaimPort, Goto
    <2>4. CASE StillOurs(c) \/ Ask(c) \/ ReadyTimesOut(c) \/ RefuseOffLoopback(c) \/ Ours(c) \/ Term(c)
               \/ KillGroup(c)
      BY <2>1, <2>4 DEF StillOurs, Ask, ReadyTimesOut, RefuseOffLoopback, Ours, Term, KillGroup, Goto
    <2>5. CASE Forget(c)
      BY <2>1, <2>5, DevServerAssumption DEF Forget, Stopped, Goto
    <2>6. CASE ListWorktrees(c) \/ Entries(c) \/ SweepEntry(c) \/ SweepDone(c)
      BY <2>1, <2>6 DEF ListWorktrees, Entries, SweepEntry, SweepDone, Goto
    <2>7. QED
      BY <1>1, <2>2, <2>3, <2>4, <2>5, <2>6 DEF Command
  <1>2. CASE World \/ UNCHANGED vars
    BY <1>2, WorldMinds
  <1>3. QED
    BY <1>1, <1>2 DEF Next, Finished

(* No `up` comes back to where it spawns. *)
LEMMA SpawnsKeep == ASSUME Inv, TypeOK', [Next]_vars PROVE SpawnsOnce'
  <1> USE DEF Inv, TypeOK, SpawnsOnce
  <1>1. ASSUME NEW s \in Cmd PROVE StaysSpawned(s)
    BY ServersStay
  <1>2. ASSUME NEW c \in Cmd, Command(c) PROVE SpawnsOnce'
    <2>1. ASSUME NEW d \in Cmd \ {c} PROVE pc'[d] = pc[d] /\ stem'[d] = stem[d] /\ claim'[d] = claim[d]
      BY <1>2, OthersKeep
    <2>2. ASSUME NEW d \in Cmd \ {c} PROVE server[d].state = "none" => server'[d] = server[d]
      <3>1. ~Spawn(d)
        BY <2>1 DEF Spawn, Goto
      <3>2. QED
        BY <1>1, <3>1 DEF StaysSpawned
    <2>3. CASE Start(c) \/ Lock(c) \/ LockTimesOut(c) \/ Read(c) \/ Look(c) \/ Stat(c) \/ WriteRecord(c)
               \/ MustRead(c)
      BY <2>1, <2>2, <2>3, DevServerAssumption DEF KeepsToItsKind, Start, Lock, LockTimesOut, Read, Look,
         Stat, WriteRecord, MustRead, Goto, mind, world
    <2>4. CASE ClaimPort(c)
      BY <2>1, <2>2, <2>4, DevServerAssumption DEF ClaimPort, InBlock, IndexOf, Goto, world
    <2>5. CASE Probe(c)
      BY <2>1, <2>2, <2>5, DevServerAssumption DEF Probe, Goto, world
    <2>6. CASE Spawn(c)
      BY <2>1, <2>2, <2>6, DevServerAssumption DEF Spawn, Goto, mind
    <2>7. CASE StillOurs(c) \/ Ask(c) \/ ReadyTimesOut(c) \/ RefuseOffLoopback(c) \/ Ours(c) \/ Term(c)
               \/ KillGroup(c)
      BY <2>1, <2>2, <2>7, <1>1 DEF StillOurs, Ask, ReadyTimesOut, RefuseOffLoopback, Ours, Term,
         KillGroup, Goto, mind, world, StaysSpawned
    <2>8. CASE Forget(c)
      BY <2>1, <2>2, <2>8, DevServerAssumption DEF Forget, Stopped, Goto, mind
    <2>9. CASE ListWorktrees(c) \/ Entries(c) \/ SweepEntry(c) \/ SweepDone(c)
      BY <2>1, <2>2, <2>9 DEF ListWorktrees, Entries, SweepEntry, SweepDone, Goto, mind, world
    <2>10. QED
      BY <1>2, <2>3, <2>4, <2>5, <2>6, <2>7, <2>8, <2>9 DEF Command
  <1>3. CASE World
    <2>1. ASSUME NEW d \in Cmd PROVE server[d].state = "none" => server'[d] = server[d]
      BY <1>3 DEF World, Serve, Exit, StrangerComes, StrangerGoes, RemoveWorktree, AddWorktree,
         SwitchBranch, Kill, Running, world
    <2>2. QED
      BY <1>1, <1>3, <2>1, WorldMinds DEF StaysSpawned, mind
  <1>4. CASE UNCHANGED vars
    BY <1>4 DEF vars
  <1>5. QED
    BY <1>2, <1>3, <1>4 DEF Next, Finished

(* serverHere answered before anything is waited for or stopped. *)
LEMMA ActsKeep == ASSUME Inv, TypeOK', [Next]_vars PROVE ActsOnARecord'
  <1> USE DEF Inv, TypeOK, ActsOnARecord, Awaiting, Stopping
  <1>1. ASSUME NEW c \in Cmd, Command(c) PROVE ActsOnARecord'
    <2>1. ASSUME NEW d \in Cmd \ {c} PROVE pc'[d] = pc[d] /\ stem'[d] = stem[d] /\ seen'[d] = seen[d]
      BY <1>1, OthersKeep
    <2>2. CASE Start(c)
      BY <2>1, <2>2, DevServerAssumption DEF Start, Goto
    <2>3. CASE Lock(c) \/ LockTimesOut(c) \/ Read(c) \/ Look(c) \/ Probe(c) \/ Spawn(c) \/ Stat(c)
               \/ WriteRecord(c) \/ MustRead(c)
      BY <2>1, <2>3 DEF Lock, LockTimesOut, Read, Look, Probe, Spawn, Stat, WriteRecord, MustRead, Goto,
         mind, KeepsToItsKind
    <2>4. CASE ClaimPort(c)
      BY <2>1, <2>4 DEF ClaimPort, Goto
    <2>5. CASE StillOurs(c) \/ Ask(c) \/ ReadyTimesOut(c) \/ RefuseOffLoopback(c) \/ Ours(c) \/ Term(c)
               \/ KillGroup(c)
      BY <2>1, <2>5 DEF StillOurs, Ask, ReadyTimesOut, RefuseOffLoopback, Ours, Term, KillGroup, Goto, mind
    <2>6. CASE Forget(c)
      BY <2>1, <2>6, DevServerAssumption DEF Forget, Stopped, Goto, mind
    <2>7. CASE ListWorktrees(c) \/ Entries(c) \/ SweepDone(c)
      BY <2>1, <2>7 DEF ListWorktrees, Entries, SweepDone, Goto, mind
    <2>8. CASE SweepEntry(c)
      <3>1. Kind[c] = "sweep"
        BY <2>8 DEF SweepEntry, KeepsToItsKind
      <3>2. PICK e \in todo[c] : \/ UNCHANGED <<pc, stem, seen>>
                                 \/ /\ Goto(c, "ours") /\ stem' = [stem EXCEPT ![c] = e.stem]
                                    /\ seen' = [seen EXCEPT ![c] = e.entry] /\ e.entry # Junk
        BY <2>8 DEF SweepEntry
      <3>3. e.entry \in Record \cup {Junk}
        OBVIOUS
      <3>4. QED
        BY <2>1, <3>1, <3>2, <3>3, RecordsAssumption DEF Goto
    <2>9. QED
      BY <1>1, <2>2, <2>3, <2>4, <2>5, <2>6, <2>7, <2>8 DEF Command
  <1>2. CASE World \/ UNCHANGED vars
    BY <1>2, WorldMinds DEF mind
  <1>3. QED
    BY <1>1, <1>2 DEF Next, Finished

(* What is in a command's hand stays the record of a server that was spawned, *)
(* and once that server is over it is over.                                   *)
LEMMA SpawnedStays ==
  ASSUME Inv, TypeOK', [Next]_vars, NEW s, NEW entry, Spawned(s, entry)
  PROVE  /\ Spawned(s, entry)'
         /\ entry \in Record /\ ~Running(entry.server) => ~Running(entry.server)'
  <1>1. ASSUME entry \in Record, entry.server \in Cmd
        PROVE  StaysSpawned(entry.server) /\ server[entry.server].state # "none" /\ In[entry.server] = s[1]
    BY <1>1, ServersStay DEF Spawned
  <1>2. QED
    BY <1>1 DEF Spawned, StaysSpawned, Running

(* A record is written once, by the `up` whose server it names. *)
LEMMA NamesKeep == ASSUME Inv, TypeOK', [Next]_vars PROVE RecordsNameTheSpawned'
  <1> USE DEF Inv
  <1>1. ASSUME NEW s, NEW entry, Spawned(s, entry) PROVE Spawned(s, entry)'
    BY <1>1, SpawnedStays
  <1>2. \A s \in DOMAIN records' : Spawned(s, records[s])'
    <2>1. ASSUME NEW c \in Cmd, WriteRecord(c), NEW s \in DOMAIN records' PROVE Spawned(s, records[s])'
      <3>1. Kind[c] = "up" /\ server[c].state # "none" /\ stem[c][1] = In[c] /\ server' = server
        BY <2>1 DEF WriteRecord, KeepsToItsKind, Settling, SpawnsOnce, ActsOnARecord
      <3>2. CASE s = stem[c]
        <4>1. records'[s].server = c
          BY <2>1, <3>2 DEF WriteRecord, Written
        <4>2. QED
          BY <3>1, <3>2, <4>1 DEF Spawned
      <3>3. CASE s # stem[c]
        BY <1>1, <2>1, <3>3 DEF WriteRecord, Written, RecordsNameTheSpawned
      <3>4. QED
        BY <3>2, <3>3
    <2>2. CASE \A s \in DOMAIN records' : s \in DOMAIN records /\ records'[s] = records[s]
      BY <1>1, <2>2 DEF RecordsNameTheSpawned
    <2>3. QED
      BY <2>1, <2>2, RecordsGo
  <1>3. ASSUME NEW c \in Cmd, Command(c)
        PROVE  Spawned(stem[c], seen[c])' /\ \A e \in todo'[c] : Spawned(e.stem, e.entry)'
    <2>1. ASSUME UNCHANGED <<seen, stem>> PROVE Spawned(stem[c], seen[c])'
      BY <1>1, <2>1 DEF RecordsNameTheSpawned
    <2>2. ASSUME UNCHANGED todo PROVE \A e \in todo'[c] : Spawned(e.stem, e.entry)'
      BY <1>1, <2>2 DEF RecordsNameTheSpawned
    <2>3. CASE Start(c)
      <3>1. seen'[c] \notin Record
        BY <2>3, RecordsAssumption DEF Start, ActsOnARecord
      <3>2. QED
        BY <2>2, <2>3, <3>1 DEF Start, Spawned
    <2>4. CASE Read(c) \/ MustRead(c)
      <3>1. seen'[c] = ServerAt(stem[c]) /\ stem' = stem /\ todo' = todo
        BY <2>4 DEF Read, MustRead, TypeOK
      <3>2. Spawned(stem[c], ServerAt(stem[c]))
        BY RecordsAssumption DEF ServerAt, Spawned, RecordsNameTheSpawned
      <3>3. QED
        BY <1>1, <2>2, <3>1, <3>2
    <2>5. CASE Entries(c)
      <3>1. todo'[c] = {[stem |-> s, entry |-> records[s]] : s \in DOMAIN records} /\ UNCHANGED <<seen, stem>>
        BY <2>5 DEF Entries, TypeOK
      <3>2. QED
        BY <1>1, <2>1, <3>1 DEF RecordsNameTheSpawned
    <2>6. CASE SweepEntry(c)
      <3>1. PICK e \in todo[c] : /\ todo' = [todo EXCEPT ![c] = @ \ {e}]
                                 /\ \/ UNCHANGED <<seen, stem>>
                                    \/ stem' = [stem EXCEPT ![c] = e.stem] /\ seen' = [seen EXCEPT ![c] = e.entry]
        BY <2>6 DEF SweepEntry
      <3>2. todo'[c] \subseteq todo[c]
        BY <3>1 DEF TypeOK
      <3>3. (stem'[c] = e.stem /\ seen'[c] = e.entry) \/ UNCHANGED <<seen, stem>>
        BY <3>1 DEF TypeOK
      <3>4. QED
        BY <1>1, <2>1, <3>2, <3>3 DEF RecordsNameTheSpawned
    <2>7. CASE UNCHANGED <<seen, stem, todo>>
      BY <2>1, <2>2, <2>7
    <2>8. QED
      BY <1>3, <2>3, <2>4, <2>5, <2>6, <2>7
      DEF Command, Lock, LockTimesOut, Look, ClaimPort, Probe, Spawn, Stat, WriteRecord, StillOurs, Ask,
          ReadyTimesOut, RefuseOffLoopback, Ours, Term, KillGroup, Forget, ListWorktrees, SweepDone, mind
  <1>4. ASSUME NEW c \in Cmd, Command(c), NEW d \in Cmd \ {c}
        PROVE  Spawned(stem[d], seen[d])' /\ \A e \in todo'[d] : Spawned(e.stem, e.entry)'
    BY <1>1, <1>4, OthersKeep DEF RecordsNameTheSpawned
  <1>5. ASSUME World \/ UNCHANGED vars, NEW d \in Cmd
        PROVE  Spawned(stem[d], seen[d])' /\ \A e \in todo'[d] : Spawned(e.stem, e.entry)'
    BY <1>1, <1>5, WorldMinds DEF RecordsNameTheSpawned, mind
  <1>6. QED
    BY <1>2, <1>3, <1>4, <1>5 DEF RecordsNameTheSpawned, Next, Finished

(* Every way into a forget, and into a spawn, has looked at the process. *)
LEMMA EndsKeep == ASSUME Inv, TypeOK', [Next]_vars PROVE SeesTheEnd'
  <1> USE DEF Inv
  <1>1. ASSUME NEW d \in Cmd, seen[d] # None, ~Running(seen[d].server)
        PROVE  ~Running(seen[d].server)'  \/ seen'[d] # seen[d]
    <2>1. seen[d] \in Record /\ Spawned(stem[d], seen[d])
      BY <1>1 DEF TypeOK, RecordsNameTheSpawned
    <2>2. QED
      BY <1>1, <2>1, SpawnedStays
  <1>2. ASSUME NEW c \in Cmd, Command(c), NEW d \in Cmd \ {c}
        PROVE  \/ pc'[d] \in Settling \ {"look"} /\ seen'[d] # None
               \/ pc'[d] = "forget"
               \/ Kind[d] = "down" /\ pc'[d] = "done" /\ seen'[d] # None
               => ~Running(seen[d].server)'
    BY <1>1, <1>2, OthersKeep DEF SeesTheEnd, ActsOnARecord, Stopping
  <1>3. ASSUME NEW c \in Cmd, Command(c)
        PROVE  \/ pc'[c] \in Settling \ {"look"} /\ seen'[c] # None
               \/ pc'[c] = "forget"
               \/ Kind[c] = "down" /\ pc'[c] = "done" /\ seen'[c] # None
               => ~Running(seen[c].server)'
    <2>1. ASSUME UNCHANGED seen, seen[c] # None => ~Running(seen[c].server)
          PROVE  seen'[c] # None => ~Running(seen[c].server)'
      BY <1>1, <2>1
    <2>2. CASE Start(c) \/ Read(c) \/ MustRead(c) \/ Lock(c) \/ LockTimesOut(c)
      BY <2>2, DevServerAssumption
      DEF Start, Read, MustRead, Lock, LockTimesOut, Goto, Settling, TypeOK, KeepsToItsKind, ActsOnARecord, mind
    <2>3. CASE Look(c) \/ Probe(c) \/ Spawn(c) \/ Stat(c) \/ WriteRecord(c)
      BY <2>1, <2>3
      DEF Look, Probe, Spawn, Stat, WriteRecord, Goto, Settling, TypeOK, SeesTheEnd, mind, KeepsToItsKind
    <2>4. CASE ClaimPort(c)
      BY <2>1, <2>4 DEF ClaimPort, Goto, Settling, TypeOK, SeesTheEnd
    <2>5. CASE StillOurs(c) \/ Ask(c) \/ ReadyTimesOut(c) \/ RefuseOffLoopback(c)
      BY <2>5 DEF StillOurs, Ask, ReadyTimesOut, RefuseOffLoopback, Goto, Settling, Awaiting, TypeOK,
         KeepsToItsKind, mind
    <2>6. CASE Ours(c) \/ Term(c)
      BY <2>1, <2>6 DEF Ours, Term, Goto, Settling, Stopping, TypeOK, ActsOnARecord, mind
    <2>7. CASE KillGroup(c)
      <3>1. pc'[c] = "forget" => ~Running(seen[c].server)'
        BY <2>7 DEF KillGroup, Goto, TypeOK, Running, mind
      <3>2. QED
        BY <2>7, <3>1 DEF KillGroup, Goto, TypeOK, Settling
    <2>8. CASE Forget(c)
      <3>1. ~Running(seen[c].server) /\ UNCHANGED seen
        BY <2>8 DEF Forget, SeesTheEnd, mind
      <3>2. pc'[c] \notin Settling \cup {"forget"}
        BY <2>8, DevServerAssumption DEF Forget, Stopped, Goto, Settling, TypeOK
      <3>3. QED
        BY <2>1, <3>1, <3>2
    <2>9. CASE ListWorktrees(c) \/ Entries(c) \/ SweepEntry(c) \/ SweepDone(c)
      BY <2>9 DEF ListWorktrees, Entries, SweepEntry, SweepDone, Goto, Settling, TypeOK, KeepsToItsKind
    <2>10. QED
      BY <1>3, <2>2, <2>3, <2>4, <2>5, <2>6, <2>7, <2>8, <2>9 DEF Command
  <1>4. ASSUME World \/ UNCHANGED vars, NEW d \in Cmd
        PROVE  \/ pc'[d] \in Settling \ {"look"} /\ seen'[d] # None
               \/ pc'[d] = "forget"
               \/ Kind[d] = "down" /\ pc'[d] = "done" /\ seen'[d] # None
               => ~Running(seen[d].server)'
    BY <1>1, <1>4, WorldMinds DEF SeesTheEnd, ActsOnARecord, Stopping, Settling, mind
  <1>5. QED
    BY <1>2, <1>3, <1>4 DEF SeesTheEnd, Next, Finished

(* The lock of a stem has one holder. *)
LEMMA HoldersKeep == ASSUME Inv, TypeOK', [Next]_vars PROVE OneHolder'
  <1> USE DEF Inv, HoldsLock, UnderLock
  <1>1. ASSUME NEW c \in Cmd, Command(c), HoldsLock(c)'
        PROVE  \/ HoldsLock(c) /\ stem'[c] = stem[c]
               \/ Lock(c)
    <2>1. CASE Start(c) \/ Read(c) \/ MustRead(c) \/ Lock(c) \/ LockTimesOut(c)
      BY <1>1, <2>1, DevServerAssumption DEF Start, Read, MustRead, Lock, LockTimesOut, Goto, TypeOK, mind
    <2>2. CASE Look(c) \/ ClaimPort(c) \/ Probe(c) \/ Spawn(c) \/ Stat(c) \/ WriteRecord(c)
      BY <1>1, <2>2 DEF Look, ClaimPort, Probe, Spawn, Stat, WriteRecord, mind
    <2>3. CASE StillOurs(c) \/ Ask(c) \/ ReadyTimesOut(c) \/ RefuseOffLoopback(c)
      BY <1>1, <2>3 DEF StillOurs, Ask, ReadyTimesOut, RefuseOffLoopback, mind
    <2>4. CASE Ours(c) \/ Term(c) \/ KillGroup(c) \/ Forget(c)
      BY <1>1, <2>4 DEF Ours, Term, KillGroup, Forget, mind
    <2>5. CASE ListWorktrees(c) \/ Entries(c) \/ SweepEntry(c) \/ SweepDone(c)
      BY <1>1, <2>5 DEF ListWorktrees, Entries, SweepEntry, SweepDone, KeepsToItsKind
    <2>6. QED
      BY <1>1, <2>1, <2>2, <2>3, <2>4, <2>5 DEF Command
  <1>2. ASSUME NEW c \in Cmd, Command(c) PROVE OneHolder'
    <2>1. ASSUME NEW d \in Cmd \ {c} PROVE (HoldsLock(d)' <=> HoldsLock(d)) /\ stem'[d] = stem[d]
      BY <1>2, OthersKeep
    <2>2. CASE HoldsLock(c)' => HoldsLock(c) /\ stem'[c] = stem[c]
      BY <2>1, <2>2 DEF OneHolder
    <2>3. CASE Lock(c)
      BY <2>1, <2>3 DEF Lock, OneHolder, mind
    <2>4. QED
      BY <1>1, <1>2, <2>2, <2>3
  <1>3. CASE World \/ UNCHANGED vars
    BY <1>3, WorldMinds DEF OneHolder, mind
  <1>4. QED
    BY <1>2, <1>3 DEF Next, Finished

(* From its read to its write an `up` holds the lock. *)
LEMMA SettlingHolds == ASSUME Inv, NEW c \in Cmd, pc[c] \in Settling PROVE HoldsLock(c)
  BY DEF Inv, KeepsToItsKind, Settling, HoldsLock, UnderLock

(* A write by another is a write under another stem's lock. *)
LEMMA WritesKeep == ASSUME Inv, TypeOK', [Next]_vars PROVE NobodyElseWrites'
  <1> USE DEF Inv
  <1>1. ASSUME NEW d \in Cmd, pc[d] \in Settling, ~WriteRecord(d)
        PROVE  ServerAt(stem[d])' \in {ServerAt(stem[d]), None} \/ stem'[d] # stem[d]
    <2>1. ASSUME NEW c \in Cmd, WriteRecord(c)
          PROVE  stem' = stem /\ (stem[c] # stem[d] => ServerAt(stem[d])' = ServerAt(stem[d]))
      BY <2>1 DEF WriteRecord, Written, ServerAt, mind
    <2>2. ASSUME NEW c \in Cmd, WriteRecord(c), stem[c] = stem[d] PROVE c = d
      BY <1>1, <2>2, SettlingHolds DEF WriteRecord, OneHolder, Settling
    <2>3. CASE \A s \in DOMAIN records' : s \in DOMAIN records /\ records'[s] = records[s]
      BY <2>3 DEF ServerAt
    <2>4. QED
      BY <1>1, <2>1, <2>2, <2>3, RecordsGo
  <1>2. ASSUME NEW d \in Cmd, pc[d] \in Settling, ~WriteRecord(d), seen'[d] = seen[d], stem'[d] = stem[d]
        PROVE  ServerAt(stem[d])' \in {seen'[d], None}
    BY <1>1, <1>2 DEF NobodyElseWrites
  <1>3. ASSUME NEW c \in Cmd, Command(c), pc'[c] \in Settling PROVE ServerAt(stem[c])' \in {seen'[c], None}
    <2>1. CASE Start(c) \/ MustRead(c) \/ Lock(c) \/ LockTimesOut(c)
      BY <1>3, <2>1, DevServerAssumption DEF Start, MustRead, Lock, LockTimesOut, Goto, TypeOK, Settling
    <2>2. CASE Read(c)
      BY <2>2 DEF Read, TypeOK, ServerAt, world
    <2>3. CASE Look(c) \/ ClaimPort(c) \/ Probe(c) \/ Spawn(c) \/ Stat(c)
      BY <1>2, <2>3 DEF Look, ClaimPort, Probe, Spawn, Stat, WriteRecord, Settling, mind
    <2>4. CASE WriteRecord(c)
      BY <1>3, <2>4 DEF WriteRecord, Goto, TypeOK, Settling
    <2>5. CASE StillOurs(c) \/ Ask(c) \/ ReadyTimesOut(c) \/ RefuseOffLoopback(c)
      BY <1>3, <2>5 DEF StillOurs, Ask, ReadyTimesOut, RefuseOffLoopback, Goto, TypeOK, Settling
    <2>6. CASE Ours(c) \/ Term(c) \/ KillGroup(c)
      BY <1>3, <2>6 DEF Ours, Term, KillGroup, Goto, TypeOK, Settling
    <2>7. CASE Forget(c)
      BY <1>3, <2>7, DevServerAssumption DEF Forget, Stopped, Goto, TypeOK, Settling
    <2>8. CASE ListWorktrees(c) \/ Entries(c) \/ SweepEntry(c) \/ SweepDone(c)
      BY <1>3, <2>8 DEF ListWorktrees, Entries, SweepEntry, SweepDone, Goto, TypeOK, Settling
    <2>9. QED
      BY <1>3, <2>1, <2>2, <2>3, <2>4, <2>5, <2>6, <2>7, <2>8 DEF Command
  <1>4. ASSUME NEW c \in Cmd, Command(c), NEW d \in Cmd \ {c}, pc'[d] \in Settling
        PROVE  ServerAt(stem[d])' \in {seen'[d], None}
    <2>1. pc'[d] = pc[d] /\ seen'[d] = seen[d] /\ stem'[d] = stem[d]
      BY <1>4, OthersKeep
    <2>2. ~WriteRecord(d)
      BY <1>4, <2>1 DEF WriteRecord, Goto, TypeOK
    <2>3. QED
      BY <1>2, <1>4, <2>1, <2>2
  <1>5. ASSUME World \/ UNCHANGED vars, NEW d \in Cmd, pc'[d] \in Settling
        PROVE  ServerAt(stem[d])' \in {seen'[d], None}
    BY <1>5, WorldMinds DEF NobodyElseWrites, ServerAt, Settling, mind
  <1>6. QED
    BY <1>3, <1>4, <1>5 DEF NobodyElseWrites, Next, Finished

(* keptPort takes the claim or refuses, and the spawn takes what keptPort took. *)
LEMMA ClaimKeeps == ASSUME Inv, TypeOK', [Next]_vars PROVE ClaimIsKept'
  <1> USE DEF Inv
  <1> DEFINE Kept(c) == seen[c] # None /\ InBlock(stem[c], seen[c].port) =>
                          /\ pc[c] # "probe"
                          /\ pc[c] = "spawn" => Block[stem[c]][claim[c]] = seen[c].port
                          /\ pc[c] \in {"stat", "write"} => server[c].port = seen[c].port
  <1>1. ASSUME NEW d \in Cmd, server[d].state # "none" PROVE server'[d].port = server[d].port
    BY <1>1, ServersStay DEF StaysSpawned
  <1>2. ASSUME NEW d \in Cmd, UNCHANGED <<seen[d], stem[d], claim[d]>>, pc'[d] \in {pc[d], "killed"}
        PROVE  Kept(d)'
    BY <1>1, <1>2 DEF ClaimIsKept, SpawnsOnce, InBlock
  <1>3. ASSUME NEW c \in Cmd, Command(c) PROVE Kept(c)'
    <2>1. CASE pc'[c] \notin {"probe", "spawn", "stat", "write"}
      BY <2>1
    <2>2. CASE ClaimPort(c)
      <3>1. \A p : InBlock(stem[c], p) => Block[stem[c]][IndexOf(stem[c], p)] = p
        BY DEF InBlock, IndexOf
      <3>2. QED
        BY <2>2, <3>1 DEF ClaimPort, Goto, TypeOK, InBlock
    <2>3. CASE Probe(c)
      BY <2>3 DEF Probe, Goto, TypeOK, ClaimIsKept, InBlock
    <2>4. CASE Spawn(c)
      <3>1. /\ pc'[c] = "failed" \/ (pc'[c] = "stat" /\ server'[c].port = Block[stem[c]][claim[c]])
            /\ UNCHANGED <<seen, stem>>
        BY <2>4 DEF Spawn, Goto, TypeOK, mind
      <3>2. QED
        BY <2>4, <3>1 DEF Spawn, ClaimIsKept, InBlock
    <2>5. CASE Stat(c)
      BY <2>5 DEF Stat, Goto, TypeOK, ClaimIsKept, InBlock, mind, world
    <2>6. CASE Start(c) \/ Lock(c) \/ LockTimesOut(c) \/ Read(c) \/ Look(c) \/ WriteRecord(c) \/ MustRead(c)
      <3>1. Look(c) => pc'[c] # "probe" /\ pc'[c] # "spawn"
        BY DEF Look, Goto, TypeOK
      <3>2. QED
        BY <2>1, <2>6, <3>1, DevServerAssumption
        DEF Start, Lock, LockTimesOut, Read, Look, WriteRecord, MustRead, Goto, TypeOK, KeepsToItsKind
    <2>7. CASE StillOurs(c) \/ Ask(c) \/ ReadyTimesOut(c) \/ RefuseOffLoopback(c) \/ Ours(c) \/ Term(c)
               \/ KillGroup(c)
      BY <2>1, <2>7
      DEF StillOurs, Ask, ReadyTimesOut, RefuseOffLoopback, Ours, Term, KillGroup, Goto, TypeOK
    <2>8. CASE Forget(c) \/ ListWorktrees(c) \/ Entries(c) \/ SweepEntry(c) \/ SweepDone(c)
      BY <2>1, <2>8, DevServerAssumption
      DEF Forget, Stopped, ListWorktrees, Entries, SweepEntry, SweepDone, Goto, TypeOK
    <2>9. QED
      BY <1>3, <2>2, <2>3, <2>4, <2>5, <2>6, <2>7, <2>8 DEF Command
  <1>4. ASSUME NEW c \in Cmd, Command(c), NEW d \in Cmd \ {c} PROVE Kept(d)'
    BY <1>2, <1>4, OthersKeep
  <1>5. ASSUME World \/ UNCHANGED vars, NEW d \in Cmd PROVE Kept(d)'
    BY <1>2, <1>5, WorldMinds DEF mind
  <1>6. QED
    BY <1>3, <1>4, <1>5 DEF ClaimIsKept, Next, Finished

(* What sweep acts on it did not find among the worktrees. *)
LEMMA SweepsKeep == ASSUME Inv, TypeOK', [Next]_vars PROVE SweepsTheGone'
  <1> USE DEF Inv, SweepsTheGone, Stopping
  <1>1. present' \ Later \subseteq present \ Later
    BY DEF Next, Command, Start, Lock, LockTimesOut, Read, Look, ClaimPort, Probe, Spawn, Stat,
       WriteRecord, MustRead,
       StillOurs, Ask, ReadyTimesOut, RefuseOffLoopback, Ours, Term, KillGroup, Forget, ListWorktrees, Entries,
       SweepEntry, SweepDone, Finished, World, Serve, Exit, StrangerComes, StrangerGoes, RemoveWorktree,
       AddWorktree, SwitchBranch, Kill, world, vars
  <1>2. ASSUME NEW c \in Cmd, Command(c), Kind[c] = "sweep"
        PROVE  /\ pc'[c] \in {"entries", "each"} \cup Stopping => present' \ Later \subseteq live'[c]
               /\ pc'[c] \in Stopping => stem'[c][1] \notin live'[c]
    <2>1. pc[c] \in {"start", "list", "entries", "each"} \cup Stopping \cup Over
      BY <1>2 DEF KeepsToItsKind, TypeOK, PC, Over, Settling, Awaiting
    <2>2. CASE Start(c)
      BY <1>2, <2>2 DEF Start, Goto, TypeOK
    <2>3. CASE ListWorktrees(c)
      BY <2>3 DEF ListWorktrees, Goto, TypeOK, world
    <2>4. CASE Entries(c) \/ SweepDone(c)
      <3>1. pc[c] \in {"entries", "each"} /\ pc'[c] \in {"each", "done"} /\ live' = live
        BY <2>4 DEF Entries, SweepDone, Goto, TypeOK, mind
      <3>2. QED
        BY <1>1, <1>2, <3>1
    <2>5. CASE SweepEntry(c)
      <3>1. PICK e \in todo[c] :
              \/ UNCHANGED <<pc, stem>>
              \/ e.stem[1] \notin live[c] /\ stem' = [stem EXCEPT ![c] = e.stem]
        BY <2>5 DEF SweepEntry
      <3>2. live' = live /\ pc[c] = "each" /\ pc'[c] \in {"each", "ours"}
        BY <2>5 DEF SweepEntry, Goto, TypeOK
      <3>3. QED
        BY <1>1, <1>2, <3>1, <3>2 DEF TypeOK
    <2>6. CASE Ours(c) \/ Term(c)
      <3>1. pc[c] \in Stopping /\ UNCHANGED <<stem, live>>
        BY <2>6 DEF Ours, Term, mind
      <3>2. QED
        BY <1>1, <1>2, <3>1
    <2>7. CASE KillGroup(c)
      BY <1>1, <1>2, <2>7 DEF KillGroup, Goto, TypeOK, mind
    <2>8. CASE Forget(c)
      BY <1>1, <1>2, <2>8 DEF Forget, Stopped, Goto, TypeOK, mind
    <2>9. QED
      BY <1>2, <2>1, <2>2, <2>3, <2>4, <2>5, <2>6, <2>7, <2>8
      DEF Command, Over, Lock, LockTimesOut, Read, Look, ClaimPort, Probe, Spawn, Stat, WriteRecord, MustRead,
          StillOurs, Ask, ReadyTimesOut, RefuseOffLoopback
  <1>3. ASSUME NEW c \in Cmd, Command(c), NEW d \in Cmd \ {c}, Kind[d] = "sweep"
        PROVE  /\ pc'[d] \in {"entries", "each"} \cup Stopping => present' \ Later \subseteq live'[d]
               /\ pc'[d] \in Stopping => stem'[d][1] \notin live'[d]
    BY <1>1, <1>3, OthersKeep
  <1>4. ASSUME World \/ UNCHANGED vars, NEW d \in Cmd, Kind[d] = "sweep"
        PROVE  /\ pc'[d] \in {"entries", "each"} \cup Stopping => present' \ Later \subseteq live'[d]
               /\ pc'[d] \in Stopping => stem'[d][1] \notin live'[d]
    BY <1>1, <1>4, WorldMinds DEF mind
  <1>5. QED
    BY <1>2, <1>3, <1>4 DEF Next, Finished

-----------------------------------------------------------------------------
(* What holds of any mix of commands. *)

(* Before the first command there are the records of before alone. *)
LEMMA InitHolds == Init => Inv
  <1> SUFFICES ASSUME Init PROVE Inv
    OBVIOUS
  <1> USE DevServerAssumption, RecordsAssumption DEF Init
  <1>1. TypeOK
    <2>1. \A c \in Cmd : <<In[c], Trunk>> \in Stem
      BY DEF Stem
    <2>2. QED
      BY <2>1 DEF TypeOK, PC
  <1>2. KeepsToItsKind /\ SpawnsOnce /\ ActsOnARecord /\ OneHolder
    BY DEF KeepsToItsKind, SpawnsOnce, ActsOnARecord, OneHolder, HoldsLock, UnderLock, Settling, Awaiting,
       Stopping
  <1>3. RecordsNameTheSpawned
    BY DEF RecordsNameTheSpawned, Spawned
  <1>4. SeesTheEnd /\ NobodyElseWrites /\ ClaimIsKept /\ SweepsTheGone
    BY DEF SeesTheEnd, NobodyElseWrites, ClaimIsKept, SweepsTheGone, Settling, Stopping
  <1>5. QED
    BY <1>1, <1>2, <1>3, <1>4 DEF Inv

(* The parts together. *)
LEMMA StepKeeps == Inv /\ [Next]_vars => Inv'
  <1> SUFFICES ASSUME Inv, [Next]_vars PROVE Inv'
    OBVIOUS
  <1>1. TypeOK'
    BY TypeKeeps
  <1>2. KeepsToItsKind' /\ SpawnsOnce' /\ ActsOnARecord' /\ RecordsNameTheSpawned' /\ SeesTheEnd'
    BY <1>1, KindKeeps, SpawnsKeep, ActsKeep, NamesKeep, EndsKeep
  <1>3. OneHolder' /\ NobodyElseWrites' /\ ClaimIsKept' /\ SweepsTheGone'
    BY <1>1, HoldersKeep, WritesKeep, ClaimKeeps, SweepsKeep
  <1>4. QED
    BY <1>1, <1>2, <1>3 DEF Inv

(* Every variable stays in its type, whatever the commands do. *)
THEOREM TypesHold == Spec => []TypeOK
  <1>1. Inv => TypeOK
    BY DEF Inv
  <1>2. QED
    BY <1>1, InitHolds, StepKeeps, PTL DEF Spec

(* For `up`, `down` and `sweep` in any mix: a record is dropped only once   *)
(* the process it named when it was read is gone, and a `down` that stopped *)
(* a server has left it stopped.                                            *)
THEOREM ForgetsTheGone == Spec => []ForgetsOnlyTheGone
  <1>1. Inv => ForgetsOnlyTheGone
    BY DEF Inv, SeesTheEnd, ForgetsOnlyTheGone
  <1>2. QED
    BY <1>1, InitHolds, StepKeeps, PTL DEF Spec

(* The record an `up` replaces is the one it read, or there is none. *)
LEMMA ClaimStaysStep ==
  ASSUME Inv, Inv', [Next]_vars, NEW s \in DOMAIN records \cap DOMAIN records',
         records[s] # Junk, InBlock(s, records[s].port), records'[s] # records[s]
  PROVE  records'[s].port = records[s].port
  <1>1. PICK c \in Cmd : WriteRecord(c)
    BY RecordsGo DEF Inv
  <1>2. s = stem[c] /\ records'[s].port = server[c].port
    BY <1>1 DEF WriteRecord, Written
  <1>3. ServerAt(stem[c]) = records[s] /\ records[s] # None
    BY <1>2, RecordsAssumption DEF ServerAt, Inv, TypeOK
  <1>4. seen[c] = records[s]
    BY <1>1, <1>3 DEF WriteRecord, Inv, NobodyElseWrites, Settling
  <1>5. QED
    BY <1>1, <1>2, <1>3, <1>4 DEF WriteRecord, Inv, ClaimIsKept

(* In any mix: a record that claims a port of its block is replaced only by *)
(* one of the same port.                                                    *)
THEOREM ClaimsStay == Spec => ClaimStays
  <1>1. Inv /\ Inv' /\ [Next]_vars =>
          [\A s \in DOMAIN records \cap DOMAIN records' :
             records[s] # Junk /\ InBlock(s, records[s].port) /\ records'[s] # records[s]
               => records'[s].port = records[s].port]_vars
    BY ClaimStaysStep
  <1>2. QED
    BY <1>1, InitHolds, StepKeeps, PTL DEF Spec, ClaimStays

(* The server sweep kills was one of a worktree it had not found. *)
LEMMA SweepsStep ==
  ASSUME Inv, NEW c \in Cmd, Kind[c] = "sweep", pc[c] = "kill", Running(seen[c].server)
  PROVE  In[seen[c].server] \notin present \ Later
  <1>1. seen[c] \in Record /\ seen[c].server \in Cmd
    BY DEF Inv, TypeOK, ActsOnARecord, Stopping, Running
  <1>2. In[seen[c].server] = stem[c][1]
    BY <1>1 DEF Inv, RecordsNameTheSpawned, Spawned
  <1>3. QED
    BY <1>2 DEF Inv, SweepsTheGone, Stopping

(* In any mix: sweep kills no server of a worktree that was there from the *)
(* start and is still there.                                               *)
THEOREM SweepsSpare == Spec => SweepSparesTheLiving
  <1>1. Inv => [\A c \in Cmd : Kind[c] = "sweep" /\ pc[c] = "kill" /\ pc'[c] = "forget"
                  /\ Running(seen[c].server) => In[seen[c].server] \notin present \ Later]_vars
    BY SweepsStep
  <1>2. QED
    BY <1>1, InitHolds, StepKeeps, PTL DEF Spec, SweepSparesTheLiving

-----------------------------------------------------------------------------
(* What holds of `up`s alone. *)

(* Without a `sweep` nobody drops a record but by stopping its server. *)
LEMMA UpsRecordsMove ==
  ASSUME AllUps, Inv, [Next]_vars, records' # records
  PROVE  \E c \in Cmd : WriteRecord(c) \/ Forget(c)
  <1>1. ASSUME NEW c \in Cmd PROVE ~SweepEntry(c)
    BY DEF SweepEntry, AllUps, Inv, KeepsToItsKind
  <1>2. ASSUME NEW c \in Cmd, Command(c) PROVE WriteRecord(c) \/ Forget(c)
    BY <1>1, <1>2
    DEF Command, Start, Lock, LockTimesOut, Read, Look, ClaimPort, Probe, Spawn, Stat, MustRead,
       StillOurs, Ask, ReadyTimesOut, RefuseOffLoopback, Ours, Term, KillGroup, ListWorktrees, Entries,
       SweepDone, world
  <1>3. QED
    BY <1>2, WorldMinds DEF Next, Finished, vars, Inv

(* Who writes or drops a record has the one that is there in its hand, and *)
(* has seen the end of the server that one names.                          *)
LEMMA NameStays ==
  ASSUME AllUps, UpsInv, [Next]_vars, NEW s \in Stem, NEW d \in Cmd, Names(s, d), Running(d)
  PROVE  Names(s, d)'
  <1> USE DEF UpsInv, Inv
  <1>1. CASE records' = records
    BY <1>1 DEF Names
  <1>2. ASSUME NEW c \in Cmd, WriteRecord(c) \/ Forget(c), stem[c] = s PROVE FALSE
    <2>1. seen[c] = ServerAt(s) /\ pc[c] \in {"write", "forget"}
      BY <1>2 DEF SeenIsThere, WriteRecord, Forget, Settling, Stopping
    <2>2. ServerAt(s) = records[s] /\ records[s].server = d
      BY DEF ServerAt, Names
    <2>3. seen[c] # None
      BY <2>1, <2>2, RecordsAssumption DEF Names, TypeOK
    <2>4. ~Running(seen[c].server)
      BY <2>1, <2>3 DEF SeesTheEnd, Settling
    <2>5. QED
      BY <2>1, <2>2, <2>4
  <1>3. ASSUME NEW c \in Cmd, WriteRecord(c) \/ Forget(c) PROVE Names(s, d)'
    BY <1>2, <1>3 DEF WriteRecord, Forget, Written, Removed, Names
  <1>4. QED
    BY <1>1, <1>3, UpsRecordsMove

(* Who holds the lock has the record that is there in its hand. *)
LEMMA SeenKeeps == ASSUME AllUps, UpsInv, TypeOK', [Next]_vars PROVE SeenIsThere'
  <1> USE DEF UpsInv, Inv
  <1>1. ASSUME NEW c \in Cmd, WriteRecord(c) \/ Forget(c), NEW d \in Cmd \ {c}, HoldsLock(d)
        PROVE  ServerAt(stem[d])' = ServerAt(stem[d]) /\ (Names(stem[d], d) => Names(stem[d], d)') /\ stem' = stem
    <2>1. HoldsLock(c) /\ stem' = stem
      BY <1>1 DEF AllUps, HoldsLock, UnderLock, WriteRecord, Forget, mind
    <2>2. stem[c] # stem[d]
      BY <1>1, <2>1 DEF OneHolder
    <2>3. QED
      BY <1>1, <2>1, <2>2 DEF WriteRecord, Forget, Written, Removed, ServerAt, Names
  <1>2. ASSUME NEW d \in Cmd, HoldsLock(d), UNCHANGED <<stem[d], seen[d]>>, pc'[d] \in {pc[d], "killed"},
               \/ records' = records
               \/ ServerAt(stem[d])' = ServerAt(stem[d]) /\ (Names(stem[d], d) => Names(stem[d], d)')
        PROVE  /\ pc'[d] \in Settling \cup Awaiting \cup Stopping => ServerAt(stem[d])' = seen'[d]
               /\ pc'[d] = "reread" => Names(stem[d], d)'
    BY <1>2 DEF SeenIsThere, Settling, Awaiting, Stopping, ServerAt, Names
  <1>3. ASSUME NEW d \in Cmd, pc'[d] \in Settling \cup Awaiting \cup Stopping \cup {"reread"}, pc'[d] = pc[d]
        PROVE  HoldsLock(d)
    BY <1>3 DEF AllUps, HoldsLock, UnderLock, Settling, Awaiting, Stopping
  <1>4. ASSUME NEW c \in Cmd, Command(c), NEW d \in Cmd \ {c}
        PROVE  /\ pc'[d] \in Settling \cup Awaiting \cup Stopping => ServerAt(stem[d])' = seen'[d]
               /\ pc'[d] = "reread" => Names(stem[d], d)'
    <2>1. pc'[d] = pc[d] /\ stem'[d] = stem[d] /\ seen'[d] = seen[d]
      BY <1>4, OthersKeep
    <2>2. records' # records => WriteRecord(c) \/ Forget(c)
      <3>1. ~SweepEntry(c)
        BY DEF SweepEntry, AllUps, KeepsToItsKind
      <3>2. QED
        BY <1>4, <3>1
        DEF Command, Start, Lock, LockTimesOut, Read, Look, ClaimPort, Probe, Spawn, Stat, MustRead,
           StillOurs, Ask, ReadyTimesOut, RefuseOffLoopback, Ours, Term, KillGroup, ListWorktrees, Entries,
           SweepDone, world
    <2>3. QED
      BY <1>1, <1>2, <1>3, <2>1, <2>2
  <1>5. ASSUME NEW c \in Cmd, Command(c)
        PROVE  /\ pc'[c] \in Settling \cup Awaiting \cup Stopping => ServerAt(stem[c])' = seen'[c]
               /\ pc'[c] = "reread" => Names(stem[c], c)'
    <2> USE DEF Settling, Awaiting, Stopping
    <2>1. CASE Start(c) \/ Lock(c) \/ LockTimesOut(c)
      BY <2>1 DEF Start, Lock, LockTimesOut, Goto, TypeOK, AllUps
    <2>2. CASE Read(c) \/ MustRead(c)
      BY <2>2 DEF Read, MustRead, ServerAt, Goto, TypeOK, AllUps, world
    <2>3. CASE WriteRecord(c)
      <3>1. [server |-> c, port |-> server[c].port] \in Record
        BY <2>3 DEF WriteRecord, SpawnsOnce, Record
      <3>2. QED
        BY <2>3, <3>1, RecordsAssumption DEF WriteRecord, Written, Names, Goto, TypeOK, mind
    <2>4. CASE Forget(c)
      BY <2>4 DEF Forget, Stopped, AllUps, Goto, TypeOK
    <2>5. ASSUME UNCHANGED <<records, stem, seen>>, pc[c] \in Settling \cup Awaiting \cup Stopping,
                 pc'[c] # "reread"
          PROVE  /\ pc'[c] \in Settling \cup Awaiting \cup Stopping => ServerAt(stem[c])' = seen'[c]
                 /\ pc'[c] = "reread" => Names(stem[c], c)'
      BY <2>5 DEF SeenIsThere, ServerAt
    <2>6. CASE Look(c) \/ Probe(c) \/ Stat(c) \/ StillOurs(c) \/ Ask(c)
               \/ ReadyTimesOut(c) \/ RefuseOffLoopback(c) \/ Ours(c) \/ Term(c)
      BY <2>5, <2>6 DEF Look, Probe, Stat, StillOurs, Ask, ReadyTimesOut, RefuseOffLoopback, Ours,
         Term, Goto, TypeOK, mind, world
    <2>7. CASE ClaimPort(c)
      BY <2>5, <2>7 DEF ClaimPort, Goto, TypeOK, world
    <2>8. CASE Spawn(c) \/ KillGroup(c)
      BY <2>5, <2>8 DEF Spawn, KillGroup, Goto, TypeOK, mind
    <2>9. ~ListWorktrees(c) /\ ~Entries(c) /\ ~SweepEntry(c) /\ ~SweepDone(c)
      BY DEF ListWorktrees, Entries, SweepEntry, SweepDone, AllUps, KeepsToItsKind
    <2>10. QED
      BY <1>5, <2>1, <2>2, <2>3, <2>4, <2>6, <2>7, <2>8, <2>9 DEF Command
  <1>6. ASSUME World \/ UNCHANGED vars, NEW d \in Cmd
        PROVE  /\ pc'[d] \in Settling \cup Awaiting \cup Stopping => ServerAt(stem[d])' = seen'[d]
               /\ pc'[d] = "reread" => Names(stem[d], d)'
    BY <1>6, WorldMinds DEF SeenIsThere, Settling, Awaiting, Stopping, ServerAt, Names, mind
  <1>7. QED
    BY <1>4, <1>5, <1>6 DEF SeenIsThere, Next, Finished

(* A server keeps the record its own `up` wrote. *)
LEMMA NamedKeeps == ASSUME AllUps, UpsInv, TypeOK', [Next]_vars PROVE NamedByItsOwn'
  <1> SUFFICES ASSUME NEW d \in Cmd, Running(d)', ~Orphan(d)', pc'[d] \notin {"stat", "write"}
               PROVE  Names(stem[d], d)'
    BY DEF NamedByItsOwn
  <1> USE DEF UpsInv, Inv
  <1>1. ~Spawn(d)
    BY DEF Spawn, Goto, TypeOK, Running, SpawnsOnce
  <1>2. Running(d) /\ server[d].state # "none"
    BY <1>1, ServersStay DEF StaysSpawned, Running
  <1>3. CASE WriteRecord(d)
    <2>1. [server |-> d, port |-> server[d].port] \in Record
      BY <1>3 DEF WriteRecord, SpawnsOnce, Record
    <2>2. QED
      BY <1>3, <2>1, RecordsAssumption DEF WriteRecord, Written, Names, TypeOK, mind
  <1>4. ASSUME ~WriteRecord(d) PROVE pc[d] \notin {"stat", "write"} /\ ~Orphan(d) /\ stem'[d] = stem[d]
    <2>1. CASE Command(d)
      <3>1. ~Start(d)
        BY <1>2 DEF Start, SpawnsOnce
      <3>2. ~SweepEntry(d)
        BY DEF SweepEntry, AllUps, KeepsToItsKind
      <3>3. stem' = stem
        BY <2>1, <3>1, <3>2
        DEF Command, Lock, LockTimesOut, Read, Look, ClaimPort, Probe, Spawn, Stat, WriteRecord,
           MustRead, StillOurs, Ask, ReadyTimesOut, RefuseOffLoopback, Ours, Term, KillGroup, Forget, ListWorktrees,
           Entries, SweepDone, mind
      <3>4. pc[d] \notin {"write", "killed"}
        BY <1>4, <2>1 DEF Command, Start, Lock, LockTimesOut, Read, Look, ClaimPort, Probe, Spawn, Stat,
           MustRead, StillOurs, Ask, ReadyTimesOut, RefuseOffLoopback, Ours, Term, KillGroup, Forget, ListWorktrees,
           Entries, SweepEntry, SweepDone
      <3>5. pc[d] # "stat"
        <4>1. SUFFICES ASSUME pc[d] = "stat" PROVE FALSE
          OBVIOUS
        <4>2. Stat(d)
          BY <2>1, <4>1
          DEF Command, Start, Lock, LockTimesOut, Read, Look, ClaimPort, Probe, Spawn, WriteRecord,
             MustRead, StillOurs, Ask, ReadyTimesOut, RefuseOffLoopback, Ours, Term, KillGroup, Forget, ListWorktrees,
             Entries, SweepEntry, SweepDone
        <4>3. QED
          BY <1>2, <4>2 DEF Stat, Goto, TypeOK
      <3>6. QED
        BY <3>3, <3>4, <3>5 DEF Orphan
    <2>2. CASE \E c \in Cmd \ {d} : Command(c)
      BY <2>2, OthersKeep DEF Orphan
    <2>3. CASE World \/ UNCHANGED vars
      <3>1. UNCHANGED <<stem, seen>> /\ pc'[d] \in {pc[d], "killed"}
        BY <2>3, WorldMinds DEF mind
      <3>2. CASE pc'[d] = pc[d]
        BY <3>1, <3>2 DEF Orphan
      <3>3. CASE pc'[d] = "killed" /\ pc[d] # "killed"
        <4>1. seen[d] # None /\ seen[d].server = d
          BY <3>1, <3>3 DEF Orphan
        <4>2. pc[d] \notin {"stat", "write"}
          BY <1>2, <4>1 DEF SeesTheEnd, Settling
        <4>3. QED
          BY <3>1, <3>3, <4>2 DEF Orphan
      <3>4. QED
        BY <3>1, <3>2, <3>3
    <2>4. QED
      BY <2>1, <2>2, <2>3 DEF Next, Finished
  <1>5. ASSUME ~WriteRecord(d) PROVE Names(stem[d], d)'
    <2>1. Names(stem[d], d) /\ stem[d] \in Stem
      BY <1>2, <1>4, <1>5 DEF NamedByItsOwn, TypeOK
    <2>2. QED
      BY <1>2, <1>4, <1>5, <2>1, NameStays DEF Names
  <1>6. QED
    BY <1>3, <1>5

(* Both parts together. *)
LEMMA UpsStepKeeps == AllUps /\ UpsInv /\ [Next]_vars => UpsInv'
  <1>1. Inv /\ [Next]_vars => Inv' /\ TypeOK'
    BY StepKeeps DEF Inv
  <1>2. QED
    BY <1>1, SeenKeeps, NamedKeeps DEF UpsInv

(* At the start no server runs. *)
LEMMA UpsInitHolds == Init => UpsInv
  BY InitHolds DEF UpsInv, SeenIsThere, NamedByItsOwn, Settling, Awaiting, Stopping, Init, Running

(* Of `up`s alone, however many and wherever they are killed: every server *)
(* that runs and is no orphan is named by a record.  A `down` refutes it    *)
(* (dev_forgotten): AllUps is what the theorem needs.                       *)
THEOREM ServersAreNamed == ASSUME AllUps PROVE Spec => []EveryServerNamed
  <1>1. UpsInv /\ [Next]_vars => UpsInv'
    BY UpsStepKeeps
  <1>2. UpsInv => EveryServerNamed
    BY DEF UpsInv, NamedByItsOwn, EveryServerNamed, Names
  <1>3. QED
    BY <1>1, <1>2, UpsInitHolds, PTL DEF Spec

(* And what a `down` breaks holds of `up`s alone: no record goes while the *)
(* server it names runs.                                                    *)
THEOREM RecordsOutlive == ASSUME AllUps PROVE Spec => RecordOutlivesServer
  <1>1. UpsInv /\ [Next]_vars => UpsInv'
    BY UpsStepKeeps
  <1>2. UpsInv /\ [Next]_vars =>
          [\A s \in DOMAIN records : \A c \in Cmd : Names(s, c) /\ Running(c) => s \in DOMAIN records']_vars
    <2>1. ASSUME UpsInv, [Next]_vars, NEW s \in DOMAIN records, NEW c \in Cmd, Names(s, c), Running(c)
          PROVE  s \in DOMAIN records'
      BY <2>1, NameStays DEF Names, UpsInv, Inv, TypeOK
    <2>2. QED
      BY <2>1
  <1>3. QED
    BY <1>1, <1>2, UpsInitHolds, PTL DEF Spec, RecordOutlivesServer

(* Only a switch moves a worktree to another stem. *)
LEMMA TrunkKeeps == ASSUME AllUps, Restless = {}, Inv, OnTrunk, [Next]_vars PROVE OnTrunk'
  <1> USE DEF OnTrunk
  <1>1. ASSUME NEW c \in Cmd, Command(c) PROVE OnTrunk'
    <2>1. branch' = branch
      BY <1>1
      DEF Command, Start, Lock, LockTimesOut, Read, Look, ClaimPort, Probe, Spawn, Stat, WriteRecord,
         MustRead, StillOurs, Ask, ReadyTimesOut, RefuseOffLoopback, Ours, Term, KillGroup, Forget, ListWorktrees,
         Entries, SweepEntry, SweepDone, world
    <2>2. CASE Start(c)
      BY <2>1, <2>2, DevServerAssumption DEF Start, Inv, TypeOK
    <2>3. ~SweepEntry(c)
      BY DEF SweepEntry, AllUps, Inv, KeepsToItsKind
    <2>4. CASE stem' = stem
      BY <2>1, <2>4
    <2>5. QED
      BY <1>1, <2>2, <2>3, <2>4
      DEF Command, Lock, LockTimesOut, Read, Look, ClaimPort, Probe, Spawn, Stat, WriteRecord,
         MustRead, StillOurs, Ask, ReadyTimesOut, RefuseOffLoopback, Ours, Term, KillGroup, Forget, ListWorktrees,
         Entries, SweepDone, mind
  <1>2. CASE World \/ UNCHANGED vars
    <2>1. branch' = branch
      BY <1>2 DEF World, Serve, Exit, StrangerComes, StrangerGoes, RemoveWorktree, AddWorktree,
         SwitchBranch, Kill,
         world, vars
    <2>2. QED
      BY <1>2, <2>1, WorldMinds DEF mind, Inv
  <1>3. QED
    BY <1>1, <1>2 DEF Next, Finished

(* A server that is named is the one another `up` of its stem would find. *)
LEMMA OneOfTwo ==
  ASSUME UpsInv, OnTrunk, AllUps, NEW c \in Cmd, NEW d \in Cmd, Running(c), Running(d), In[c] = In[d],
         ~Orphan(c), ~Orphan(d), pc[d] \notin {"stat", "write"}
  PROVE  c = d
  <1> USE DEF UpsInv, Inv
  <1>1. stem[c] = stem[d]
    BY DEF OnTrunk
  <1>2. Names(stem[c], d)
    BY <1>1 DEF NamedByItsOwn
  <1>3. CASE pc[c] \notin {"stat", "write"}
    BY <1>2, <1>3 DEF NamedByItsOwn, Names
  <1>4. CASE pc[c] \in {"stat", "write"}
    <2>1. seen[c] = records[stem[c]] /\ seen[c] # None
      BY <1>2, <1>4, RecordsAssumption DEF SeenIsThere, Settling, ServerAt, Names, TypeOK
    <2>2. ~Running(seen[c].server)
      BY <1>4, <2>1 DEF SeesTheEnd, Settling
    <2>3. QED
      BY <1>2, <2>1, <2>2 DEF Names
  <1>5. QED
    BY <1>3, <1>4

(* "One supervised dev server per git worktree", of `up`s alone in worktrees *)
(* that keep their branch: of the servers that are no orphans, one runs.    *)
THEOREM OneEach == ASSUME AllUps, Restless = {} PROVE Spec => []OneServerPerWorktree
  <1>1. Init => UpsInv /\ OnTrunk
    BY UpsInitHolds DEF Init, OnTrunk
  <1>2. UpsInv /\ OnTrunk /\ [Next]_vars => (UpsInv /\ OnTrunk)'
    BY UpsStepKeeps, TrunkKeeps DEF UpsInv
  <1>3. UpsInv /\ OnTrunk => OneServerPerWorktree
    <2> SUFFICES ASSUME UpsInv, OnTrunk, NEW c \in Cmd, NEW d \in Cmd, Running(c), Running(d), In[c] = In[d],
                        ~Orphan(c), ~Orphan(d)
                 PROVE  c = d
      BY DEF OneServerPerWorktree
    <2>1. CASE pc[c] \in {"stat", "write"} /\ pc[d] \in {"stat", "write"}
      <3>1. HoldsLock(c) /\ HoldsLock(d)
        BY <2>1 DEF HoldsLock, UnderLock, AllUps
      <3>2. QED
        BY <3>1 DEF OnTrunk, UpsInv, Inv, OneHolder
    <2>2. CASE pc[c] \notin {"stat", "write"} \/ pc[d] \notin {"stat", "write"}
      BY <2>2, OneOfTwo
    <2>3. QED
      BY <2>1, <2>2
  <1>4. QED
    BY <1>1, <1>2, <1>3, PTL DEF Spec
=============================================================================
