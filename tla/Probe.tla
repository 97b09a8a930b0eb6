------------------------------- MODULE Probe --------------------------------
(***************************************************************************)
(* The probe gate (probe.ts, probeGate): a repository's own command, run    *)
(* against the booted app in a process group of its own and under a bound.  *)
(* The gate races what the command says against the bound; where the bound  *)
(* wins it kills the group, and what was said has a grace to arrive in.     *)
(*                                                                         *)
(* The command is a shell and what it starts: any of them may go on for     *)
(* ever, hold the output open, close it, or leave the group.                *)
(***************************************************************************)
EXTENDS Naturals

CONSTANTS
  Started,   \* what the shell may start
  MaxSaid    \* how many lines they write

VARIABLES
  member,    \* per process: "none", "alive" or "dead"
  grouped,   \* those in the group setsid made
  holding,   \* those that hold the output open
  said,      \* the lines written
  exit,      \* how the shell ended; Unended until it does
  settled,   \* what the race settled on: "none", "collected" or "overran"
  awaiting,  \* what the gate awaits: "race", "salvage" or "nothing"
  answer     \* the gate's verdict, "none" until there is one

probe == <<member, grouped, holding, said, exit, settled, awaiting, answer>>

Shell == "shell"
Process == Started \cup {Shell}
Unended == 256
SIGKILLED == 137

Alive == {p \in Process : member[p] = "alive"}
Eof == holding \cap Alive = {} /\ Shell \notin Alive

-----------------------------------------------------------------------------
(* Mistakes: what a definition below is easily got wrong as. *)

(* The process that was spawned is the one that is killed. *)
OnlyTheShell == {Shell}

(* The output is awaited to its end. *)
Awaited == awaiting = "salvage" /\ Eof

-----------------------------------------------------------------------------
(* The command, at any time. *)

Lives(p) == p \in Alive

(* What is started takes its group and its output after who started it.     *)
Heir(by, p, S) == IF by \in S THEN S \cup {p} ELSE S
Start(by, p) ==
  /\ Lives(by) /\ member[p] = "none"
  /\ member' = [member EXCEPT ![p] = "alive"]
  /\ grouped' = Heir(by, p, grouped) /\ holding' = Heir(by, p, holding)
  /\ UNCHANGED <<said, exit, settled, awaiting, answer>>

Leave(p) ==
  /\ Lives(p) /\ p # Shell /\ p \in grouped
  /\ grouped' = grouped \ {p}
  /\ UNCHANGED <<member, holding, said, exit, settled, awaiting, answer>>

CloseOutput(p) ==
  /\ Lives(p) /\ p # Shell /\ p \in holding
  /\ holding' = holding \ {p}
  /\ UNCHANGED <<member, grouped, said, exit, settled, awaiting, answer>>

Say(p) ==
  /\ Lives(p) /\ p \in holding /\ said < MaxSaid
  /\ said' = said + 1
  /\ UNCHANGED <<member, grouped, holding, exit, settled, awaiting, answer>>

End(p, status) ==
  /\ Lives(p)
  /\ member' = [member EXCEPT ![p] = "dead"] /\ exit' = IF p = Shell THEN status ELSE exit
  /\ UNCHANGED <<grouped, holding, said, settled, awaiting, answer>>

-----------------------------------------------------------------------------
(* The gate. *)

(* Half of a pair: a bound, and no command under it.                        *)
Refused_ == awaiting = "command" /\ answer = "none" /\ answer' = "half a pair"
            /\ UNCHANGED <<member, grouped, holding, said, exit, settled, awaiting>>

(* The two ends of the race; only the first of them settles it.             *)
Collected ==
  /\ awaiting = "race" /\ settled = "none" /\ Eof
  /\ settled' = "collected"
  /\ UNCHANGED <<member, grouped, holding, said, exit, awaiting, answer>>

Overrun ==
  /\ awaiting = "race" /\ settled = "none"
  /\ settled' = "overran"
  /\ UNCHANGED <<member, grouped, holding, said, exit, awaiting, answer>>

(* The lines are read before the status is.                                 *)
Judged_ == IF said > 0 \/ exit # 0 THEN "problems" ELSE "clean"

Finish ==
  /\ awaiting = "race" /\ settled = "collected"
  /\ awaiting' = "nothing" /\ answer' = Judged_
  /\ UNCHANGED <<member, grouped, holding, said, exit, settled>>

(* killGroup *)
Group == grouped \cap Alive
KillGroup ==
  /\ awaiting = "race" /\ settled = "overran"
  /\ member' = [p \in Process |-> IF p \in Group THEN "dead" ELSE member[p]]
  /\ exit' = IF Shell \in Group THEN SIGKILLED ELSE exit
  /\ awaiting' = "salvage"
  /\ UNCHANGED <<grouped, holding, said, settled, answer>>

(* The output's end, or the grace's: whichever comes, and one always does.  *)
Salvaged == awaiting = "salvage"
Salvage ==
  /\ Salvaged
  /\ awaiting' = "nothing" /\ answer' = "did not finish"
  /\ UNCHANGED <<member, grouped, holding, said, exit, settled>>

ProbeInit ==
  /\ member = [p \in Process |-> IF p = Shell THEN "alive" ELSE "none"]
  /\ grouped = {Shell} /\ holding = {Shell} /\ said = 0 /\ exit = Unended
  /\ settled = "none" /\ awaiting \in {"command", "race"} /\ answer = "none"

Gate == Refused_ \/ Collected \/ Overrun \/ Finish \/ KillGroup \/ Salvage
Command ==
  \E p \in Process :
    \/ Leave(p) \/ CloseOutput(p) \/ Say(p)
    \/ \E by \in Process : Start(by, p)
    \/ \E status \in {0, 1, SIGKILLED} : End(p, status)
Ask_ == (awaiting # "command" /\ Command) \/ Gate

(* The timers fire and what is settled is resumed; nothing is asked of the  *)
(* command.                                                                 *)
ProbeFair == WF_probe(Gate)

-----------------------------------------------------------------------------

(* A clean answer is over a command that ended by itself, well, and with    *)
(* nothing said; and once the gate says that a command was killed with all  *)
(* it had started, only what made a session of its own lives on             *)
(* (probeGate's comments, 230-246 and 277-285, and its verdicts).           *)
ProbeVerdictStands ==
  /\ answer = "clean" => said = 0 /\ exit = 0 /\ holding \cap Alive = {}
  /\ answer = "did not finish" => Group = {}

(* The gate answers, whatever the command does ("a bound that hangs is      *)
(* worse than no bound", 240).                                              *)
ProbeAnswers == awaiting # "nothing" ~> answer # "none"
=============================================================================
