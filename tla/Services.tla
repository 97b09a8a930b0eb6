------------------------------ MODULE Services ------------------------------
(***************************************************************************)
(* The throwaway servers of a job (services.ts): start boots PostgreSQL and *)
(* then Redis under a root that did not exist, on ports another process may *)
(* take first; it may fail or be cut off anywhere; stop reads the pid files *)
(* that are there, signals what they name, and removes the root.            *)
(***************************************************************************)
EXTENDS Naturals, FiniteSets

CONSTANTS
  ATTEMPTS,
  MaxStarts,
  Heirs      \* the programs a pid may be another process's of, once its server is gone

VARIABLES
  root,      \* whether the root exists
  server,    \* per server: "none", "launched", "booting", "up", "stopping" or "gone"
  pidfile,   \* per server: whether its pid file is "its" own, "stale" or not there ("none")
  heir,      \* per server: the program that has the pid a stale file names, or "nobody"
  step,      \* where start is: "idle", "located", a server's name, or "ended"
  attempt,   \* which port of that server's is tried
  stopping,  \* where stop is: "idle", a server's name and its signal, or "both"
  struck,    \* what else was signalled: for a server's pid file, a process of a program
  missed,    \* history: the servers that stop went past before they had a pid file
  starts

services == <<root, server, pidfile, heir, step, attempt, stopping, struck, missed, starts>>

Server == {"postgres", "redis-server"}

Lives_(s) == server[s] \in {"launched", "booting", "up", "stopping"}
Starting == step \notin {"idle", "ended"}

-----------------------------------------------------------------------------
(* A mistake: what a definition below is easily got wrong as. *)

(* A signal is enough. *)
AsGood(s) == server[s] = "stopping" \/ ~Lives_(s)

-----------------------------------------------------------------------------
(* The servers. *)

(* A process's end leaves its pid file, or takes it along. *)
EndOf(s) ==
  /\ server' = [server EXCEPT ![s] = "gone"]
  /\ IF pidfile[s] = "its" THEN \E left \in {"stale", "none"} : pidfile' = [pidfile EXCEPT ![s] = left]
                          ELSE UNCHANGED pidfile

(* One that was launched writes its pid file, where there is still a root   *)
(* to write it under, whatever has become of start and stop.                *)
Name_(s) ==
  /\ server[s] = "launched" /\ server' = [server EXCEPT ![s] = "booting"]
  /\ IF root THEN pidfile' = [pidfile EXCEPT ![s] = "its"] /\ heir' = [heir EXCEPT ![s] = "nobody"]
             ELSE UNCHANGED <<pidfile, heir>>
  /\ UNCHANGED <<root, step, attempt, stopping, struck, missed, starts>>

(* A server start no longer waits for crashes. *)
Crash(s) ==
  /\ server[s] \in {"launched", "booting", "up"} /\ (step = s => s \in missed)
  /\ EndOf(s)
  /\ UNCHANGED <<root, heir, step, attempt, stopping, struck, missed, starts>>

(* One left booting by a start that was cut off goes on. *)
Settle_(s) ==
  /\ server[s] = "booting" /\ step = "ended"
  /\ server' = [server EXCEPT ![s] = "up"]
  /\ UNCHANGED <<root, pidfile, heir, step, attempt, stopping, struck, missed, starts>>

Exit(s) ==
  /\ server[s] = "stopping" /\ EndOf(s)
  /\ UNCHANGED <<root, heir, step, attempt, stopping, struck, missed, starts>>

(* The pid of a server that is gone is given to another process, of the     *)
(* same program it may be; not in the seconds a stop waits on it.           *)
Inherit(s) ==
  /\ pidfile[s] = "stale" /\ heir[s] = "nobody" /\ stopping # s
  /\ \E h \in Heirs : heir' = [heir EXCEPT ![s] = h]
  /\ UNCHANGED <<root, server, pidfile, step, attempt, stopping, struck, missed, starts>>

-----------------------------------------------------------------------------
(* start *)

Begin ==
  /\ step \in {"idle", "ended"} /\ stopping = "idle" /\ starts < MaxStarts /\ starts' = starts + 1
  /\ step' = IF root THEN "ended" ELSE "located"
  /\ UNCHANGED <<root, server, pidfile, heir, attempt, stopping, struck, missed>>

(* located, and the root is made; the binaries may be missing or be others. *)
Located ==
  /\ step = "located"
  /\ \/ step' = "ended" /\ UNCHANGED <<root, attempt>>
     \/ step' = "postgres" /\ root' = TRUE /\ attempt' = 1
  /\ UNCHANGED <<server, pidfile, heir, stopping, struck, missed, starts>>

(* initdb has run, or the last attempt lost its port.  One that a stop went *)
(* past may still live; it is followed no further than its pid file.        *)
Launch_(s) ==
  /\ step = s /\ attempt <= ATTEMPTS /\ (Lives_(s) => s \in missed)
  /\ server' = [server EXCEPT ![s] = "launched"] /\ missed' = missed \ {s}
  /\ IF pidfile[s] = "its" THEN pidfile' = [pidfile EXCEPT ![s] = "stale"] /\ heir' = [heir EXCEPT ![s] = s]
                          ELSE UNCHANGED <<pidfile, heir>>
  /\ UNCHANGED <<root, step, attempt, stopping, struck, starts>>

(* The port was taken before it could bind it: it goes, and a fresh one is  *)
(* tried.                                                                   *)
Taken(s) ==
  /\ step = s /\ server[s] \in {"launched", "booting"} /\ s \notin missed
  /\ EndOf(s)
  /\ attempt' = attempt + 1
  /\ step' = IF attempt = ATTEMPTS THEN "ended" ELSE step
  /\ UNCHANGED <<root, heir, stopping, struck, missed, starts>>

Ready(s) ==
  /\ step = s /\ server[s] = "booting" /\ s \notin missed
  /\ server' = [server EXCEPT ![s] = "up"] /\ attempt' = 1
  /\ step' = IF s = "postgres" THEN "redis-server" ELSE "ended"
  /\ UNCHANGED <<root, pidfile, heir, stopping, struck, missed, starts>>

(* Whatever else it says throws; not saying it in time throws too, and so   *)
(* ends a job that is cancelled.                                            *)
CutOff ==
  /\ Starting /\ step' = "ended"
  /\ UNCHANGED <<root, server, pidfile, heir, attempt, stopping, struck, missed, starts>>

-----------------------------------------------------------------------------
(* stop: redis first.  It runs when the job is over, however it went.       *)

Then(s) == IF s = "redis-server" THEN "postgres" ELSE "both"

(* runs: what the pid file names is alive, and of this program.             *)
Runs_(s) == pidfile[s] = "its" \/ (pidfile[s] = "stale" /\ heir[s] = s)
Exited(s) == ~Lives_(s)
LeftBehind(s) == IF server[s] = "launched" THEN missed \cup {s} ELSE missed

BeginStop ==
  /\ ~Starting /\ stopping = "idle"
  /\ IF root THEN stopping' = "redis-server" ELSE UNCHANGED stopping
  /\ UNCHANGED <<root, server, pidfile, heir, step, attempt, struck, missed, starts>>

NothingThere(s) ==
  /\ stopping = s /\ ~Runs_(s)
  /\ stopping' = Then(s) /\ missed' = LeftBehind(s)
  /\ UNCHANGED <<root, server, pidfile, heir, step, attempt, struck, starts>>

Signal(s) ==
  /\ stopping = s /\ pidfile[s] = "its" /\ server[s] # "stopping"
  /\ server' = [server EXCEPT ![s] = "stopping"]
  /\ UNCHANGED <<root, pidfile, heir, step, attempt, stopping, struck, missed, starts>>

(* What has a dead server's pid and passes for it is signalled as well: it  *)
(* ends, or outlives its signals and stop throws.                           *)
Strike(s) ==
  /\ stopping = s /\ pidfile[s] # "its" /\ Runs_(s)
  /\ struck' = struck \cup {<<s, heir[s]>>}
  /\ \/ heir' = [heir EXCEPT ![s] = "nobody"] /\ stopping' = Then(s) /\ missed' = LeftBehind(s)
     \/ stopping' = "idle" /\ UNCHANGED <<heir, missed>>
  /\ UNCHANGED <<root, server, pidfile, step, attempt, starts>>

Waited(s) ==
  /\ stopping = s /\ Exited(s) /\ (pidfile[s] = "stale" => heir[s] # s)
  /\ stopping' = Then(s)
  /\ UNCHANGED <<root, server, pidfile, heir, step, attempt, struck, missed, starts>>

(* SIGKILL did not end it either. *)
Throw(s) ==
  /\ stopping = s /\ server[s] = "stopping"
  /\ stopping' = "idle"
  /\ UNCHANGED <<root, server, pidfile, heir, step, attempt, struck, missed, starts>>

RemoveAll ==
  /\ stopping = "both"
  /\ root' = FALSE /\ pidfile' = [s \in Server |-> "none"] /\ stopping' = "idle"
  /\ UNCHANGED <<server, heir, step, attempt, struck, missed, starts>>

ServicesInit ==
  /\ root = FALSE /\ step = "idle" /\ attempt = 0 /\ stopping = "idle"
  /\ struck = {} /\ missed = {} /\ starts = 0
  /\ server = [s \in Server |-> "none"] /\ pidfile = [s \in Server |-> "none"]
  /\ heir = [s \in Server |-> "nobody"]

Serving ==
  \/ Begin \/ Located \/ CutOff \/ BeginStop \/ RemoveAll
  \/ \E s \in Server :
       \/ Launch_(s) \/ Taken(s) \/ Ready(s) \/ Name_(s) \/ Crash(s) \/ Settle_(s) \/ Inherit(s)
       \/ NothingThere(s) \/ Signal(s) \/ Strike(s) \/ Exit(s) \/ Waited(s) \/ Throw(s)

-----------------------------------------------------------------------------

(* A server that runs is one a later stop finds: its root is there and its  *)
(* pid file under it, or still to be written, however often start was       *)
(* refused, failed or was cut off and stop threw ("would leave the first    *)
(* pair running with nothing pointing at them", 213-215).  It may be lost   *)
(* only to a stop that came before its pid file had been written.  And what *)
(* a stop signals for a server is of that server's program, whatever the    *)
(* pid it reads has become (83-84); another job's server of that program    *)
(* is told from it by nothing.                                              *)
RunsUnderARoot ==
  /\ \A s \in Server : Lives_(s) /\ s \notin missed => root /\ (server[s] = "launched" \/ pidfile[s] = "its")
  /\ \A one \in struck : one[1] = one[2]
=============================================================================
