---------------------------- MODULE Interleaving ----------------------------
(***************************************************************************)
(* The schedule explorer (interleaving.ts): one run of a program whose     *)
(* fibers an interleaving schedules op by op, and the wind-down that ends  *)
(* every fiber of it before it is answered.                                *)
(*                                                                         *)
(* A program gives each fiber its ops and those of its finalizer.  What an *)
(* op does is Effect's: a fiber asks the scheduler before each, goes on    *)
(* until it gives way, waits or ends, and is scheduled again by what wakes *)
(* it.  An interleaving is finite data: so many choices that are not first *)
(* in first out, so many places where it preempts, or drops a priority.    *)
(***************************************************************************)
EXTENDS Integers, Sequences, FiniteSets, FiniteSetsExt, SequencesExt, Functions, TLC

CONSTANTS
  Fiber, Root,
  None,        \* the fiber of a task scheduled for no fiber
  Programs,    \* what may be run, each a function from fibers to their ops
  Priorities,  \* the lists of priorities a run may be given
  MaxChoices,  \* how often an interleaving departs from the order nothing intervenes in
  MaxOps,      \* Limits.maxOps
  MaxSlice     \* the ops after which the runtime itself gives way

(* A program is finite data, and no fiber of it starts the one it began with. *)
ASSUME InterleavingAssumption ==
  /\ IsFiniteSet(Fiber) /\ Root \in Fiber /\ None \notin Fiber
  /\ \A p \in Programs :
       /\ p \in [Fiber -> [main : Seq(STRING \X Fiber), fin : Seq(STRING \X Fiber)]]
       /\ \A f \in Fiber : <<"fork", Root>> \notin ToSet(p[f].main) \cup ToSet(p[f].fin)

VARIABLES
  program,
  strategy,    \* "walk" or "priority"
  priorities,
  choices,     \* what the interleaving has left to decide
  held, dropped,                       \* the priorities met so far, and the drops
  queue, current, slice,               \* Run, and the task running now
  ops, end,    \* how many ops this drain has executed, and may
  fibers,      \* the fibers the scheduler has seen
  status, at, region, interrupted,     \* each fiber, as Effect has it
  phase,
  rung,        \* the fibers the wind-down has interrupted
  left,        \* the ops it has left
  emptied, exited,                     \* how the scheduled drain ended
  answer

asked == <<program, strategy, priorities>>
ranks == <<choices, held, dropped>>
budget == <<ops, end>>
tasks == <<queue, current, slice>>
effect == <<fibers, status, at, region, interrupted>>
outcome == <<rung, left, emptied, exited, answer>>
vars == <<asked, ranks, budget, tasks, effect, phase, outcome>>

Own(f) == [of |-> f, wakes |-> None]
Idle == [of |-> None, wakes |-> None]
Queued(q, f) == \E i \in DOMAIN q : q[i] = Own(f)
Unfinished == {f \in fibers : status[f] # "done"}

-----------------------------------------------------------------------------
(* The strategies. *)

(* of: a fiber has the priority the list gives it in the order it is met.  *)
Met(h, f) ==
  IF f \in DOMAIN h THEN h
  ELSE LET n == Cardinality(DOMAIN h) + 1
       IN  (f :> IF n \in DOMAIN priorities THEN priorities[n] ELSE 0) @@ h
MetAll(h, q) == FoldLeft(LAMBDA g, t : Met(g, t.of), h, q)

(* preempt looks no further than the first that outranks the fiber. *)
MetUntil(h, q, mine) ==
  FoldLeft(LAMBDA acc, t : IF acc.over THEN acc
                           ELSE LET g == Met(acc.held, t.of) IN [held |-> g, over |-> g[t.of] > mine],
           [held |-> h, over |-> FALSE], q)

Scheduled == phase = "scheduled"
Ranked == Scheduled /\ strategy = "priority"

(* drop *)
Drop(h, f) == (f :> -(dropped + 1)) @@ h

(* next: the first of the highest among the queued tasks. *)
Pick(h, q) ==
  LET highest == Max({h[q[i].of] : i \in DOMAIN q})
  IN  Min({i \in DOMAIN q : h[q[i].of] = highest})

-----------------------------------------------------------------------------
(* Mistakes: what a step below is easily got wrong as. *)

(* A fiber that yields keeps its priority. *)
YieldedKeeps(f) == UNCHANGED ranks

(* The end of the program is asked for when all is over. *)
ComesToLate ==
  IF ~emptied THEN "gave up"
  ELSE IF status[Root] # "done" THEN "parked"
  ELSE IF Unfinished # {} THEN "stranded" ELSE "finished"

(* The wind-down goes once through the fibers and answers. *)
WoundOnce ==
  /\ phase = "windDown" /\ current = Idle /\ (queue = <<>> \/ ops >= end)
  /\ phase' = "over"
  /\ UNCHANGED <<asked, ranks, budget, tasks, effect, rung, left, emptied, exited, answer>>

-----------------------------------------------------------------------------
(* The scheduler, as Effect calls it. *)

(* scheduleTask, with the strategy told of a yield of the fiber's own. *)
Looked(f) == LET h == Met(held, f) IN MetUntil(h, queue, h[f])
Yielded(f) ==
  IF Ranked THEN held' = Drop(Looked(f).held, f) /\ dropped' = dropped + 1 /\ UNCHANGED choices
  ELSE UNCHANGED ranks

(* What is to go on is scheduled, once: a fiber queued already is not again. *)
Woken(q, fs) ==
  LET idle == {f \in fs : ~Queued(q, f)}
  IN  q \o [i \in 1..Cardinality(idle) |-> Own(SetToSeq(idle)[i])]

GiveWay(f) ==
  /\ queue' = Append(queue, Own(f)) /\ current' = Idle
  /\ status' = [status EXCEPT ![f] = "ready"]
  /\ UNCHANGED <<fibers, at, region, interrupted>>

Running(f) == current = Own(f) /\ status[f] = "running"
Counted == ops' = ops + 1 /\ slice' = slice + 1 /\ UNCHANGED end

(* shouldYield: the budget is spent. *)
Stop(f) ==
  /\ Running(f) /\ ops >= end
  /\ GiveWay(f)
  /\ UNCHANGED <<asked, ranks, budget, slice, phase, outcome>>

(* shouldYield: the interleaving preempts, or drops the fiber. *)
Preempt(f) ==
  /\ Running(f) /\ ops < end
  /\ Scheduled /\ choices > 0
  /\ choices' = choices - 1
  /\ IF strategy = "priority" THEN held' = Drop(held, f) /\ dropped' = dropped + 1 ELSE UNCHANGED <<held, dropped>>
  /\ Counted /\ GiveWay(f)
  /\ UNCHANGED <<asked, phase, outcome>>

(* shouldYield: a queued task has a higher priority. *)
Outranked(f) == Ranked /\ Looked(f).over
Outrank(f) ==
  /\ Running(f) /\ ops < end /\ Outranked(f)
  /\ held' = Looked(f).held /\ UNCHANGED <<choices, dropped>>
  /\ Counted /\ GiveWay(f)
  /\ UNCHANGED <<asked, phase, outcome>>

(* The runtime's own, after a long slice. *)
Tire(f) ==
  /\ Running(f) /\ ops < end /\ ~Outranked(f) /\ slice >= MaxSlice
  /\ Counted /\ GiveWay(f)
  /\ Yielded(f)
  /\ UNCHANGED <<asked, phase, outcome>>

-----------------------------------------------------------------------------
(* One op of the running fiber. *)

Ops(f) == IF region[f] = "main" THEN program[f].main ELSE program[f].fin
Op(f) == IF at[f] \in DOMAIN Ops(f) THEN Ops(f)[at[f]] ELSE <<"end", Root>>
Is(f, kind) == Op(f)[1] = kind
Done(f) == status[f] = "done"

(* An interruption reaches a fiber between two ops, and where it waits,    *)
(* but for regions that are not interruptible.                             *)
Reached(f) == interrupted[f] /\ region[f] = "main"

Goes(f) == Running(f) /\ ops < end /\ ~Outranked(f) /\ slice < MaxSlice
Meets(f) == held' = (IF Ranked THEN Looked(f).held ELSE held) /\ UNCHANGED <<choices, dropped>>
Asks == Counted /\ UNCHANGED <<asked, phase, outcome>>
Passes(f) == at' = [at EXCEPT ![f] = @ + 1] /\ UNCHANGED <<region, interrupted>>
Schedules(q) == queue' = q /\ UNCHANGED current

Sync(f) ==
  /\ Goes(f) /\ ~Reached(f) /\ (Is(f, "sync") \/ Is(f, "poll"))
  /\ IF Is(f, "poll") /\ ~Done(Op(f)[2]) THEN UNCHANGED <<at, region, interrupted>> ELSE Passes(f)
  /\ Asks /\ Meets(f)
  /\ UNCHANGED <<queue, current, fibers, status>>

(* A yield of the fiber's own, once or until another is done. *)
Yield(f) ==
  /\ Goes(f) /\ ~Reached(f) /\ (Is(f, "yield") \/ (Is(f, "spin") /\ ~Done(Op(f)[2])))
  /\ IF Is(f, "yield") THEN Passes(f) ELSE UNCHANGED <<at, region, interrupted>>
  /\ queue' = Append(queue, Own(f)) /\ current' = Idle
  /\ status' = [status EXCEPT ![f] = "ready"]
  /\ Asks /\ Yielded(f)
  /\ UNCHANGED fibers

(* Fork a daemon, or schedule what wakes another: for this fiber or none.  *)
Schedule(f) ==
  /\ Goes(f) /\ ~Reached(f)
  /\ \/ Is(f, "fork") /\ fibers' = fibers \cup {Op(f)[2]}
        /\ status' = [status EXCEPT ![Op(f)[2]] = "ready"] /\ Schedules(Append(queue, Own(Op(f)[2])))
     \/ Is(f, "release") /\ Schedules(Append(queue, [of |-> f, wakes |-> Op(f)[2]])) /\ UNCHANGED <<fibers, status>>
     \/ Is(f, "hand") /\ Schedules(Append(queue, [of |-> None, wakes |-> Op(f)[2]])) /\ UNCHANGED <<fibers, status>>
  /\ Passes(f) /\ Asks /\ Meets(f)

(* Wait for a fiber, for a wake, or for ever; out of reach or not. *)
Blocks(f) == Is(f, "gate") \/ Is(f, "never") \/ Is(f, "hold") \/ (Is(f, "await") /\ ~Done(Op(f)[2]))
Wait(f) ==
  /\ Goes(f) /\ ~Reached(f) /\ Blocks(f)
  /\ status' = [status EXCEPT ![f] = "waiting"] /\ current' = Idle
  /\ Asks /\ Meets(f)
  /\ UNCHANGED <<queue, fibers, at, region, interrupted>>

Over(f) ==
  /\ Goes(f) /\ ~Reached(f) /\ (Is(f, "await") \/ Is(f, "spin")) /\ Done(Op(f)[2])
  /\ Passes(f) /\ Asks /\ Meets(f)
  /\ UNCHANGED <<queue, current, fibers, status>>

(* The interruption takes it to its finalizer, if it had begun. *)
Unwind(f) ==
  /\ Goes(f) /\ Reached(f)
  /\ region' = [region EXCEPT ![f] = "fin"]
  /\ at' = [at EXCEPT ![f] = IF at[f] = 1 THEN Len(program[f].fin) + 1 ELSE 1]
  /\ Asks /\ Meets(f)
  /\ UNCHANGED <<queue, current, fibers, status, interrupted>>

Awaiting(f) == {g \in fibers : status[g] = "waiting" /\ Is(g, "await") /\ Op(g)[2] = f}
Finish(f) ==
  /\ Goes(f) /\ ~Reached(f) /\ Is(f, "end")
  /\ status' = [g \in Fiber |-> IF g = f THEN "done" ELSE IF g \in Awaiting(f) THEN "ready" ELSE status[g]]
  /\ queue' = Woken(queue, Awaiting(f))
  /\ current' = Idle
  /\ Asks /\ Meets(f)
  /\ UNCHANGED <<fibers, at, region, interrupted>>

Step(f) == Sync(f) \/ Yield(f) \/ Schedule(f) \/ Wait(f) \/ Over(f) \/ Unwind(f) \/ Finish(f)

-----------------------------------------------------------------------------
(* drain: the next task. *)

(* A task starts: a fiber goes on with its work, if it was woken or waits  *)
(* where an interruption reaches it; what wakes another schedules its run. *)
Interruptible(f) == status[f] = "waiting" /\ Reached(f) /\ ~Is(f, "hold")
Begin(t, q) ==
  IF t.wakes = None
  THEN IF status[t.of] = "ready" \/ Interruptible(t.of)
       THEN queue' = q /\ current' = t /\ status' = [status EXCEPT ![t.of] = "running"] /\ UNCHANGED at
       ELSE queue' = q /\ current' = Idle /\ UNCHANGED <<status, at>>
  ELSE /\ current' = Idle
       /\ IF status[t.wakes] = "waiting" /\ Is(t.wakes, "gate")
          THEN /\ queue' = Woken(q, {t.wakes})
               /\ status' = [status EXCEPT ![t.wakes] = "ready"]
               /\ at' = [at EXCEPT ![t.wakes] = @ + 1]
          ELSE queue' = q /\ UNCHANGED <<status, at>>

Take ==
  /\ current = Idle /\ queue # <<>> /\ ops < end
  /\ phase \in {"scheduled", "windDown"}
  /\ LET several == Len(queue) > 1
         h == IF Ranked /\ several THEN MetAll(held, queue) ELSE held
     IN  \E i \in DOMAIN queue :
           /\ IF ~several THEN UNCHANGED choices
              ELSE IF Ranked THEN i = Pick(h, queue) /\ UNCHANGED choices
              ELSE \/ i = 1 /\ UNCHANGED choices
                   \/ Scheduled /\ i > 1 /\ choices > 0 /\ choices' = choices - 1
           /\ held' = h
           /\ Begin(queue[i], RemoveAt(queue, i))
  /\ slice' = 0
  /\ UNCHANGED <<asked, dropped, budget, fibers, region, interrupted, phase, outcome>>

(* execute, once the drain is done: how the program ended. *)
Drained ==
  /\ Scheduled /\ current = Idle /\ (queue = <<>> \/ ops >= end)
  /\ emptied' = (queue = <<>>) /\ exited' = Done(Root)
  /\ phase' = "interrupt"
  /\ UNCHANGED <<asked, ranks, budget, tasks, effect, rung, left, answer>>

-----------------------------------------------------------------------------
(* windDown: interrupt, drain, and again for whoever started meanwhile.    *)

Fresh == Unfinished \ rung

Interrupt ==
  /\ phase = "interrupt" /\ Fresh # {}
  /\ queue' = Woken(queue, {f \in Fresh : status[f] = "waiting"})
  /\ interrupted' = [f \in Fiber |-> interrupted[f] \/ f \in Fresh]
  /\ rung' = rung \cup Fresh
  /\ ops' = 0 /\ end' = left
  /\ phase' = "windDown"
  /\ UNCHANGED <<asked, ranks, current, slice, fibers, status, at, region, left, emptied, exited, answer>>

Wound ==
  /\ phase = "windDown" /\ current = Idle /\ (queue = <<>> \/ ops >= end)
  /\ phase' = IF queue = <<>> THEN "interrupt" ELSE "over"
  /\ left' = IF queue = <<>> THEN left - ops ELSE left
  /\ UNCHANGED <<asked, ranks, budget, tasks, effect, rung, emptied, exited, answer>>

(* The rest of execute: what the run comes to. *)
ComesTo ==
  IF ~emptied THEN "gave up"
  ELSE IF ~exited THEN "parked"
  ELSE IF Unfinished # {} THEN "stranded" ELSE "finished"

Answer ==
  /\ phase = "over" \/ (phase = "interrupt" /\ Fresh = {})
  /\ answer' = [said |-> ComesTo, stranded |-> Cardinality(Unfinished)]
  /\ phase' = "answered" /\ queue' = <<>>
  /\ UNCHANGED <<asked, ranks, budget, current, slice, effect, rung, left, emptied, exited>>

-----------------------------------------------------------------------------

Init ==
  /\ program \in Programs
  /\ \/ strategy = "walk" /\ priorities = <<>>
     \/ strategy = "priority" /\ priorities \in Priorities
  /\ choices = MaxChoices /\ held = <<>> /\ dropped = 0
  /\ queue = <<Own(Root)>> /\ current = Idle /\ slice = 0
  /\ ops = 0 /\ end = MaxOps
  /\ fibers = {Root}
  /\ status = [f \in Fiber |-> IF f = Root THEN "ready" ELSE "absent"]
  /\ at = [f \in Fiber |-> 1] /\ region = [f \in Fiber |-> "main"] /\ interrupted = [f \in Fiber |-> FALSE]
  /\ phase = "scheduled" /\ rung = {} /\ left = MaxOps
  /\ emptied = FALSE /\ exited = FALSE
  /\ answer = [said |-> "nothing", stranded |-> 0]

Answered == phase = "answered" /\ UNCHANGED vars

Next ==
  \/ \E f \in Fiber : Stop(f) \/ Preempt(f) \/ Outrank(f) \/ Tire(f) \/ Step(f)
  \/ Take \/ Drained \/ Interrupt \/ Wound \/ Answer \/ Answered

Spec == Init /\ [][Next]_vars

-----------------------------------------------------------------------------
TypeOK ==
  /\ ops \in 0..MaxOps /\ end \in 0..MaxOps /\ left \in 0..MaxOps /\ slice \in 0..MaxSlice + 1
  /\ ToSet(queue) \subseteq [of : Fiber \cup {None}, wakes : Fiber \cup {None}]
  /\ DOMAIN held \subseteq Fiber \cup {None}
  /\ status \in [Fiber -> {"absent", "ready", "running", "waiting", "done"}]
  /\ \A f \in Fiber : status[f] = "absent" <=> f \notin fibers

(* Interruption cannot reach a fiber that waits, in a region that is not   *)
(* interruptible or in its finalizer.                                      *)
OutOfReach(f) == status[f] = "waiting" /\ (region[f] = "fin" \/ Is(f, "hold"))

(* What a run answers is so: one that finished ended by itself and left    *)
(* nothing alive; one that parked had every fiber waiting, and the fibers  *)
(* it strands are the ones no interruption could end, unless the wind-down *)
(* ran out of ops (execute, 316-325, and windDown's comment, 220-225).     *)
AnswersTruly ==
  phase = "answered" =>
    /\ answer.said \in {"finished", "stranded"} => Root \notin rung
    /\ answer.said = "finished" => Unfinished = {}
    /\ answer.said = "parked" => Root \in rung
    /\ \A f \in Unfinished : OutOfReach(f) \/ ops >= end

(* A program that finishes when nothing intervenes is never given up on:   *)
(* no choice of an interleaving keeps a fiber that waits for another by    *)
(* yielding, or by running on, in front of it (the comment at 156).        *)
CONSTANT Finishing
FinishesWhatCan == phase = "answered" /\ program \in Finishing => answer.said = "finished"
=============================================================================
