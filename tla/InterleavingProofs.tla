------------------------- MODULE InterleavingProofs -------------------------
(***************************************************************************)
(* What a run of the schedule explorer answers is so, whatever program it  *)
(* runs, under whatever interleaving, on whatever budget.                  *)
(*                                                                         *)
(* An answer says who is out of an interruption's reach because, once a    *)
(* drain of the wind-down has run dry, nothing is left that could go on:    *)
(* whoever could is queued (OnItsWay), and whoever was rung and is not      *)
(* done can.                                                               *)
(***************************************************************************)
EXTENDS Interleaving, FiniteSetTheorems, SequenceTheorems, TLAPS

-----------------------------------------------------------------------------
(* The queue. *)

Tasks == [of : Fiber, wakes : {None}] \cup [of : Fiber \cup {None}, wakes : Fiber]
In(q, t) == \E i \in DOMAIN q : q[i] = t

(* A set listed is listed whole. *)
LEMMA ListedWhole ==
  ASSUME NEW S, IsFiniteSet(S)
  PROVE  /\ Cardinality(S) \in Nat
         /\ SetToSeq(S) \in [1..Cardinality(S) -> S]
         /\ \A x \in S : \E i \in 1..Cardinality(S) : SetToSeq(S)[i] = x
  <1> DEFINE n == Cardinality(S)
             s == SetToSeq(S)
  <1>1. n \in Nat /\ ExistsBijection(1..n, S)
    BY FS_CardinalityType
  <1>2. PICK g \in [1..n -> S] : IsInjective(g)
    BY <1>1 DEF ExistsBijection, Bijection, Injection
  <1>3. s \in [1..n -> S] /\ IsInjective(s)
    BY <1>2 DEF SetToSeq
  <1> DEFINE T == {s[i] : i \in 1..n}
  <1>4. T \in SUBSET S
    BY <1>3
  <1>5. s \in Bijection(1..n, T)
    BY <1>3 DEF Bijection, Injection, Surjection
  <1>6. IsFiniteSet(1..n) /\ Cardinality(1..n) = n
    BY <1>1, FS_Interval
  <1>7. Cardinality(T) = n
    <2>1. ExistsBijection(1..n, T)
      BY <1>5 DEF ExistsBijection
    <2>2. QED
      BY <1>6, <2>1, FS_Bijection
  <1>8. T = S
    BY <1>4, <1>7, FS_Subset
  <1>9. \A x \in S : \E i \in 1..n : s[i] = x
    BY <1>8
  <1>10. n \in Nat /\ s \in [1..n -> S]
    BY <1>1, <1>3
  <1> QED
    BY <1>9, <1>10

(* What is woken is queued, and what was queued stays. *)
LEMMA WokenQueues ==
  ASSUME IsFiniteSet(Fiber), NEW q \in Seq(Tasks), NEW fs \in SUBSET Fiber
  PROVE  /\ Woken(q, fs) \in Seq(Tasks)
         /\ \A f \in fs : Queued(Woken(q, fs), f)
         /\ \A t \in Tasks : In(q, t) => In(Woken(q, fs), t)
  <1> DEFINE idle == {f \in fs : ~Queued(q, f)}
             n == Cardinality(idle)
             list == SetToSeq(idle)
             more == [i \in 1..n |-> Own(list[i])]
  <1>1. IsFiniteSet(idle)
    BY FS_Subset
  <1>2. n \in Nat /\ list \in [1..n -> idle] /\ \A x \in idle : \E i \in 1..n : list[i] = x
    BY <1>1, ListedWhole
  <1> HIDE DEF list, n
  <1>3. more \in Seq(Tasks) /\ Len(more) = n
    <2>1. \A i \in 1..n : Own(list[i]) \in Tasks
      BY <1>2 DEF Own, Tasks
    <2>2. QED
      BY <1>2, <2>1
  <1>4. Woken(q, fs) = q \o more
    BY DEF Woken, list, n
  <1> HIDE DEF more
  <1>5. /\ q \o more \in Seq(Tasks)
        /\ DOMAIN (q \o more) = 1 .. Len(q) + n
        /\ \A i \in 1 .. Len(q) + n : (q \o more)[i] = IF i <= Len(q) THEN q[i] ELSE more[i - Len(q)]
    <2>1. /\ q \o more \in Seq(Tasks)
          /\ Len(q \o more) = Len(q) + Len(more)
          /\ \A i \in 1 .. Len(q) + Len(more) : (q \o more)[i] = IF i <= Len(q) THEN q[i] ELSE more[i - Len(q)]
      BY <1>3, ConcatProperties
    <2> HIDE DEF Tasks
    <2>2. QED
      BY <1>3, <2>1
  <1>6. \A t \in Tasks : In(q, t) => In(q \o more, t)
    BY <1>2, <1>5 DEF In
  <1>7. ASSUME NEW f \in fs PROVE Queued(q \o more, f)
    <2>1. CASE Queued(q, f)
      BY <1>2, <1>5, <2>1 DEF Queued
    <2>2. CASE f \in idle
      <3>1. PICK i \in 1..n : list[i] = f
        BY <1>2, <2>2
      <3>2. more[i] = Own(f)
        BY <3>1 DEF more
      <3>3. Len(q) + i \in 1 .. Len(q) + n /\ (q \o more)[Len(q) + i] = more[i]
        BY <1>2, <1>5, <3>1
      <3>4. QED
        BY <1>5, <3>2, <3>3 DEF Queued
    <2>3. QED
      BY <2>1, <2>2
  <1> QED
    BY <1>4, <1>5, <1>6, <1>7

LEMMA AppendQueues ==
  ASSUME NEW q \in Seq(Tasks), NEW t \in Tasks
  PROVE  /\ Append(q, t) \in Seq(Tasks)
         /\ In(Append(q, t), t)
         /\ \A u \in Tasks : In(q, u) => In(Append(q, t), u)
  <1>1. /\ Append(q, t) \in Seq(Tasks)
        /\ DOMAIN Append(q, t) = 1 .. Len(q) + 1
        /\ \A i \in 1..Len(q) : Append(q, t)[i] = q[i]
        /\ Append(q, t)[Len(q) + 1] = t
    BY AppendProperties
  <1>2. DOMAIN q = 1..Len(q) /\ Len(q) \in Nat
    OBVIOUS
  <1>3. QED
    BY <1>1, <1>2 DEF In

(* Only the task taken leaves. *)
LEMMA TakenLeaves ==
  ASSUME NEW q \in Seq(Tasks), NEW i \in DOMAIN q
  PROVE  /\ RemoveAt(q, i) \in Seq(Tasks)
         /\ \A t \in Tasks : In(q, t) /\ t # q[i] => In(RemoveAt(q, i), t)
  <1> DEFINE before == SubSeq(q, 1, i-1)
             after == SubSeq(q, i+1, Len(q))
  <1>1. i \in 1..Len(q) /\ Len(q) \in Nat
    OBVIOUS
  <1>2. before \in Seq(Tasks) /\ Len(before) = i - 1 /\ \A j \in 1..i-1 : before[j] = q[j]
    <2>1. \A j \in 1..i-1 : q[j] \in Tasks
      BY <1>1
    <2>2. Len(before) = (IF 1 <= i-1 THEN i-1 ELSE 0) /\ before \in Seq(Tasks)
          /\ \A j \in 1..(i-1)-1+1 : before[j] = q[1+j-1]
      BY <1>1, <2>1, SubSeqProperties
    <2>3. QED
      BY <1>1, <2>2
  <1>3. after \in Seq(Tasks) /\ Len(after) = Len(q) - i /\ \A j \in 1..Len(q)-i : after[j] = q[i+j]
    <2>1. \A j \in i+1..Len(q) : q[j] \in Tasks
      BY <1>1
    <2>2. after \in Seq(Tasks) /\ Len(after) = (IF i+1 <= Len(q) THEN Len(q)-(i+1)+1 ELSE 0)
          /\ \A j \in 1..Len(q)-(i+1)+1 : after[j] = q[(i+1)+j-1]
      BY <1>1, <2>1, SubSeqProperties
    <2>3. QED
      BY <1>1, <2>2
  <1> HIDE DEF before, after
  <1>4. /\ before \o after \in Seq(Tasks)
        /\ DOMAIN (before \o after) = 1 .. Len(q) - 1
        /\ \A j \in 1..i-1 : (before \o after)[j] = q[j]
        /\ \A j \in i+1..Len(q) : (before \o after)[j-1] = q[j]
    <2>1. /\ before \o after \in Seq(Tasks)
          /\ Len(before \o after) = Len(before) + Len(after)
          /\ \A j \in 1 .. Len(before) + Len(after) :
               (before \o after)[j] = IF j <= Len(before) THEN before[j] ELSE after[j - Len(before)]
      BY <1>2, <1>3, ConcatProperties
    <2>2. Len(before) + Len(after) = Len(q) - 1 /\ Len(before) = i - 1
      BY <1>1, <1>2, <1>3
    <2>3. DOMAIN (before \o after) = 1 .. Len(q) - 1
      BY <2>1, <2>2
    <2>4. ASSUME NEW j \in 1..i-1 PROVE (before \o after)[j] = q[j]
      BY <1>1, <1>2, <2>1, <2>2
    <2>5. ASSUME NEW j \in i+1..Len(q) PROVE (before \o after)[j-1] = q[j]
      <3>1. j-1 \in 1 .. Len(q) - 1 /\ ~(j-1 <= i-1) /\ (j-1) - (i-1) = j-i /\ j-i \in 1..Len(q)-i
            /\ i+(j-i) = j
        BY <1>1
      <3>2. (before \o after)[j-1] = after[j-i]
        BY <2>1, <2>2, <3>1
      <3>3. QED
        BY <1>3, <3>1, <3>2
    <2>6. QED
      BY <2>1, <2>3, <2>4, <2>5
  <1>5. ASSUME NEW t \in Tasks, In(q, t), t # q[i] PROVE In(before \o after, t)
    <2>1. PICK j \in 1..Len(q) : q[j] = t
      BY <1>5 DEF In
    <2>2. j \in 1..i-1 \/ j \in i+1..Len(q)
      BY <1>1, <1>5, <2>1
    <2>3. CASE j \in 1..i-1
      <3>1. j \in 1 .. Len(q) - 1
        BY <1>1, <2>3
      <3>2. QED
        BY <1>4, <2>1, <2>3, <3>1 DEF In
    <2>4. CASE j \in i+1..Len(q)
      <3>1. j-1 \in 1 .. Len(q) - 1
        BY <1>1, <2>4
      <3>2. QED
        BY <1>4, <2>1, <2>4, <3>1 DEF In
    <2>5. QED
      BY <2>2, <2>3, <2>4
  <1>6. RemoveAt(q, i) = before \o after
    BY DEF RemoveAt, before, after
  <1> QED
    BY <1>4, <1>5, <1>6

-----------------------------------------------------------------------------
(* The invariant. *)

Typed ==
  /\ program \in Programs
  /\ queue \in Seq(Tasks) /\ current \in Tasks \cup {Idle}
  /\ fibers \in SUBSET Fiber /\ Root \in fibers
  /\ status \in [Fiber -> {"absent", "ready", "running", "waiting", "done"}]
  /\ \A f \in fibers : status[f] # "absent"
  /\ at \in [Fiber -> Nat] /\ region \in [Fiber -> {"main", "fin"}]
     /\ interrupted \in [Fiber -> BOOLEAN]
  /\ phase \in {"scheduled", "interrupt", "windDown", "over", "answered"}
  /\ rung \in SUBSET Fiber /\ emptied \in BOOLEAN /\ exited \in BOOLEAN

(* What can go on is queued: a fiber that is ready, and one that an         *)
(* interruption has reached where it waits.                                *)
OnItsWay ==
  phase # "answered" =>
    \A f \in Fiber : status[f] = "ready" \/ Interruptible(f) => Queued(queue, f)

OneAtATime ==
  /\ \A f \in Fiber : status[f] = "running" => current = Own(f)
  /\ phase \in {"interrupt", "over", "answered"} => current = Idle

(* Between two drains of the wind-down nothing is left to run, and it ends  *)
(* before that only once its ops have.                                     *)
DrainsDry ==
  /\ \A f \in rung : interrupted[f]
  /\ phase = "scheduled" => rung = {}
  /\ phase = "interrupt" /\ rung # {} => queue = <<>>
  /\ phase = "over" => ops >= end

(* How the root had ended is how it ends: it is not run again, and one that *)
(* had not ended is interrupted first.                                     *)
RootIsTold ==
  /\ exited => phase # "scheduled" /\ Done(Root) /\ Root \notin rung
  /\ phase \in {"windDown", "over"} /\ ~exited => Root \in rung
  /\ phase = "interrupt" /\ ~exited => Root \in rung \/ ~Done(Root)

IInv == Typed /\ OnItsWay /\ OneAtATime /\ DrainsDry /\ RootIsTold /\ AnswersTruly

USE InterleavingAssumption DEF InterleavingAssumption

LEMMA Tasked ==
  /\ \A f \in Fiber : Own(f) \in Tasks /\ Own(f) # Idle
  /\ Idle \notin Tasks
  /\ \A f, g \in Fiber : Own(f) = Own(g) => f = g
  BY DEF Own, Idle, Tasks

(* A program's ops name fibers, and fork no root. *)
LEMMA OpNamesAFiber ==
  ASSUME Typed, NEW f \in Fiber
  PROVE  Op(f)[2] \in Fiber /\ (Is(f, "fork") => Op(f)[2] # Root)
  <1>1. Ops(f) \in Seq(STRING \X Fiber) /\ \A i \in DOMAIN Ops(f) : Ops(f)[i] # <<"fork", Root>>
    <2>1. program[f].main \in Seq(STRING \X Fiber) /\ program[f].fin \in Seq(STRING \X Fiber)
      BY DEF Typed
    <2>2. <<"fork", Root>> \notin ToSet(program[f].main) \cup ToSet(program[f].fin)
      BY DEF Typed
    <2>3. QED
      BY <2>1, <2>2 DEF Ops, ToSet
  <1>2. CASE at[f] \in DOMAIN Ops(f)
    <2>1. Op(f) = Ops(f)[at[f]]
      BY <1>2 DEF Op
    <2>2. Op(f) \in STRING \X Fiber /\ Op(f) # <<"fork", Root>>
      BY <1>1, <1>2, <2>1
    <2>3. QED
      BY <2>2 DEF Is
  <1>3. CASE at[f] \notin DOMAIN Ops(f)
    BY <1>3 DEF Op, Is
  <1>4. QED
    BY <1>2, <1>3

(* A step of one fiber leaves where the others stand. *)
LEMMA OthersStand ==
  ASSUME NEW f \in Fiber, program' = program, interrupted' = interrupted,
         \A g \in Fiber \ {f} : at'[g] = at[g] /\ region'[g] = region[g]
  PROVE  \A g \in Fiber \ {f} : (Is(g, "hold")' <=> Is(g, "hold")) /\ (Reached(g)' <=> Reached(g))
  BY DEF Is, Op, Ops, Reached

(* What a step of a running fiber has to keep. *)
LEMMA RunKeeps ==
  ASSUME IInv, NEW f \in Fiber, Running(f), Typed', OnItsWay', OneAtATime',
         UNCHANGED <<asked, interrupted, phase, outcome>>, Done(Root) => Done(Root)'
  PROVE  IInv'
  <1>1. phase \in {"scheduled", "windDown"}
    <2>1. current # Idle
      BY Tasked DEF Running
    <2>2. QED
      BY <2>1 DEF IInv, OneAtATime, Typed
  <1>2. DrainsDry'
    BY <1>1 DEF IInv, DrainsDry, outcome
  <1>3. RootIsTold'
    BY <1>1 DEF IInv, RootIsTold, outcome
  <1>4. AnswersTruly'
    BY <1>1 DEF AnswersTruly
  <1> QED
    BY <1>2, <1>3, <1>4 DEF IInv

(* It gives way, or yields. *)
LEMMA GivesWay ==
  ASSUME IInv, NEW f \in Fiber, Running(f), UNCHANGED <<asked, fibers, interrupted, phase, outcome>>,
         queue' = Append(queue, Own(f)), current' = Idle,
         status' = [status EXCEPT ![f] = "ready"],
         region' = region, at' \in [Fiber -> Nat], \A g \in Fiber \ {f} : at'[g] = at[g]
  PROVE  IInv'
  <1> USE DEF IInv
  <1>1. /\ queue' \in Seq(Tasks) /\ In(queue', Own(f)) /\ \A u \in Tasks : In(queue, u) => In(queue', u)
    BY Tasked, AppendQueues DEF Typed
  <1>2. status'[f] = "ready" /\ \A g \in Fiber \ {f} : status'[g] = status[g]
    BY DEF Typed
  <1>3. Typed'
    BY <1>1 DEF Typed, asked, outcome
  <1>4. program' = program
    BY DEF asked
  <1>5. \A g \in Fiber \ {f} : (Is(g, "hold")' <=> Is(g, "hold")) /\ (Reached(g)' <=> Reached(g))
    BY <1>4, OthersStand
  <1>6. OnItsWay'
    <2>1. Queued(queue', f)
      BY <1>1 DEF In, Queued
    <2>2. \A g \in Fiber : Queued(queue, g) => Queued(queue', g)
      BY <1>1, Tasked DEF In, Queued
    <2>3. phase' = phase
      OBVIOUS
    <2>4. \A g \in Fiber \ {f} : Interruptible(g)' <=> Interruptible(g)
      BY <1>2, <1>5 DEF Interruptible
    <2>5. QED
      BY <1>2, <2>1, <2>2, <2>3, <2>4 DEF OnItsWay
  <1>7. OneAtATime'
    <2>1. \A g \in Fiber : status[g] = "running" => g = f
      BY Tasked DEF OneAtATime, Running
    <2>2. QED
      BY <1>2, <2>1 DEF OneAtATime
  <1>8. Done(Root) => Done(Root)'
    BY <1>2 DEF Done, Running
  <1> QED
    BY <1>3, <1>6, <1>7, <1>8, RunKeeps

-----------------------------------------------------------------------------
(* One fiber at a time. *)

(* It goes on. *)
LEMMA GoesOn ==
  ASSUME IInv, NEW f \in Fiber, Running(f),
         UNCHANGED <<asked, queue, current, fibers, status, interrupted, phase, outcome>>,
         at' \in [Fiber -> Nat], region' \in [Fiber -> {"main", "fin"}],
         \A g \in Fiber \ {f} : at'[g] = at[g] /\ region'[g] = region[g]
  PROVE  IInv'
  <1> USE DEF IInv
  <1>1. Typed'
    BY DEF Typed, asked, outcome
  <1>2. \A g \in Fiber \ {f} : (Is(g, "hold")' <=> Is(g, "hold")) /\ (Reached(g)' <=> Reached(g))
    BY OthersStand DEF asked
  <1>3. OnItsWay'
    <2>1. \A g \in Fiber : status'[g] = status[g] /\ (Queued(queue, g) => Queued(queue', g))
          /\ phase' = phase
      OBVIOUS
    <2>2. \A g \in Fiber \ {f} : Interruptible(g)' <=> Interruptible(g)
      BY <1>2 DEF Interruptible
    <2>3. ~Interruptible(f)'
      BY DEF Interruptible, Running
    <2>4. QED
      BY <2>1, <2>2, <2>3 DEF OnItsWay
  <1>4. OneAtATime'
    BY DEF OneAtATime
  <1>5. Done(Root) => Done(Root)'
    BY DEF Done
  <1> QED
    BY <1>1, <1>3, <1>4, <1>5, RunKeeps

LEMMA PassesTyped ==
  ASSUME Typed, NEW f \in Fiber, Passes(f)
  PROVE  /\ at' \in [Fiber -> Nat] /\ \A g \in Fiber \ {f} : at'[g] = at[g]
         /\ region' = region /\ interrupted' = interrupted
  BY DEF Passes, Typed

LEMMA GivingWay ==
  ASSUME IInv, NEW f \in Fiber, Stop(f) \/ Preempt(f) \/ Outrank(f) \/ Tire(f)
  PROVE  IInv'
  <1>1. /\ Running(f) /\ GiveWay(f) /\ UNCHANGED <<asked, phase, outcome>>
    BY DEF Stop, Preempt, Outrank, Tire
  <1>2. at \in [Fiber -> Nat]
    BY DEF IInv, Typed
  <1> QED
    BY <1>1, <1>2, GivesWay DEF GiveWay

LEMMA SyncKeeps == ASSUME IInv, NEW f \in Fiber, Sync(f) PROVE IInv'
  <1>1. /\ Running(f) /\ UNCHANGED <<asked, queue, current, fibers, status, phase, outcome>>
        /\ UNCHANGED <<at, region, interrupted>> \/ Passes(f)
    BY DEF Sync, Goes, Asks
  <1>2. Typed /\ at \in [Fiber -> Nat] /\ region \in [Fiber -> {"main", "fin"}]
    BY DEF IInv, Typed
  <1>3. /\ at' \in [Fiber -> Nat] /\ \A g \in Fiber \ {f} : at'[g] = at[g]
        /\ region' = region /\ interrupted' = interrupted
    BY <1>1, <1>2, PassesTyped
  <1> QED
    BY <1>1, <1>2, <1>3, GoesOn

LEMMA OverKeeps == ASSUME IInv, NEW f \in Fiber, Over(f) PROVE IInv'
  <1>1. /\ Running(f) /\ UNCHANGED <<asked, queue, current, fibers, status, phase, outcome>>
           /\ Passes(f)
    BY DEF Over, Goes, Asks
  <1>2. Typed /\ region \in [Fiber -> {"main", "fin"}]
    BY DEF IInv, Typed
  <1>3. /\ at' \in [Fiber -> Nat] /\ \A g \in Fiber \ {f} : at'[g] = at[g]
        /\ region' = region /\ interrupted' = interrupted
    BY <1>1, <1>2, PassesTyped
  <1> QED
    BY <1>1, <1>2, <1>3, GoesOn

LEMMA UnwindKeeps == ASSUME IInv, NEW f \in Fiber, Unwind(f) PROVE IInv'
  <1>1. /\ Running(f) /\ UNCHANGED <<asked, queue, current, fibers, status, interrupted, phase, outcome>>
        /\ region' = [region EXCEPT ![f] = "fin"]
        /\ at' = [at EXCEPT ![f] = IF at[f] = 1 THEN Len(program[f].fin) + 1 ELSE 1]
    BY DEF Unwind, Goes, Asks
  <1>2. at \in [Fiber -> Nat] /\ region \in [Fiber -> {"main", "fin"}] /\ Len(program[f].fin) \in Nat
    BY DEF IInv, Typed
  <1>3. /\ at' \in [Fiber -> Nat] /\ region' \in [Fiber -> {"main", "fin"}]
        /\ \A g \in Fiber \ {f} : at'[g] = at[g] /\ region'[g] = region[g]
    BY <1>1, <1>2
  <1> QED
    BY <1>1, <1>3, GoesOn

LEMMA YieldKeeps == ASSUME IInv, NEW f \in Fiber, Yield(f) PROVE IInv'
  <1>1. /\ Running(f) /\ UNCHANGED <<asked, fibers, phase, outcome>>
        /\ UNCHANGED <<at, region, interrupted>> \/ Passes(f)
        /\ queue' = Append(queue, Own(f)) /\ current' = Idle
        /\ status' = [status EXCEPT ![f] = "ready"]
    BY DEF Yield, Goes, Asks
  <1>2. Typed /\ at \in [Fiber -> Nat]
    BY DEF IInv, Typed
  <1>3. /\ at' \in [Fiber -> Nat] /\ \A g \in Fiber \ {f} : at'[g] = at[g]
        /\ region' = region /\ interrupted' = interrupted
    BY <1>1, <1>2, PassesTyped
  <1> QED
    BY <1>1, <1>3, GivesWay

LEMMA WaitKeeps == ASSUME IInv, NEW f \in Fiber, Wait(f) PROVE IInv'
  <1> USE DEF IInv
  <1>1. /\ Running(f) /\ ~Reached(f)
           /\ UNCHANGED <<asked, queue, fibers, at, region, interrupted, phase, outcome>>
        /\ status' = [status EXCEPT ![f] = "waiting"] /\ current' = Idle
    BY DEF Wait, Goes, Asks
  <1>2. status'[f] = "waiting" /\ \A g \in Fiber \ {f} : status'[g] = status[g]
    BY <1>1 DEF Typed
  <1>3. Typed'
    BY <1>1 DEF Typed, asked, outcome
  <1>4. OnItsWay'
    <2>1. \A g \in Fiber : (Is(g, "hold")' <=> Is(g, "hold")) /\ (Reached(g)' <=> Reached(g))
      BY <1>1 DEF Is, Op, Ops, Reached, asked
    <2>2. \A g \in Fiber \ {f} : Interruptible(g)' <=> Interruptible(g)
      BY <1>2, <2>1 DEF Interruptible
    <2>3. ~Interruptible(f)'
      BY <1>1, <2>1 DEF Interruptible
    <2>4. phase' = phase /\ \A g \in Fiber : Queued(queue, g) => Queued(queue', g)
      BY <1>1
    <2>5. QED
      BY <1>2, <2>2, <2>3, <2>4 DEF OnItsWay
  <1>5. OneAtATime'
    <2>1. \A g \in Fiber : status[g] = "running" => g = f
      BY <1>1, Tasked DEF OneAtATime, Running
    <2>2. QED
      BY <1>1, <1>2, <2>1 DEF OneAtATime
  <1>6. Done(Root) => Done(Root)'
    BY <1>1, <1>2 DEF Done, Running
  <1> QED
    BY <1>1, <1>3, <1>4, <1>5, <1>6, RunKeeps

(* A fork's fiber is ready, and scheduled; what wakes another is neither. *)
LEMMA ScheduleKeeps == ASSUME IInv, NEW f \in Fiber, Schedule(f) PROVE IInv'
  <1> USE DEF IInv
  <1>1. Running(f) /\ UNCHANGED <<asked, current, phase, outcome>> /\ Passes(f)
    BY DEF Schedule, Goes, Asks, Schedules
  <1>2. PICK g \in Fiber : g = Op(f)[2] /\ (Is(f, "fork") => g # Root)
    BY OpNamesAFiber
  <1>3. /\ at' \in [Fiber -> Nat] /\ \A h \in Fiber \ {f} : at'[h] = at[h]
        /\ region' = region /\ interrupted' = interrupted
    BY <1>1, PassesTyped
  <1>4. \A h \in Fiber \ {f} : (Is(h, "hold")' <=> Is(h, "hold")) /\ (Reached(h)' <=> Reached(h))
    BY <1>1, <1>3, OthersStand DEF asked
  <1>5. CASE Is(f, "fork") /\ fibers' = fibers \cup {g} /\ status' = [status EXCEPT ![g] = "ready"]
             /\ queue' = Append(queue, Own(g))
    <2>1. /\ queue' \in Seq(Tasks) /\ In(queue', Own(g)) /\ \A u \in Tasks : In(queue, u) =>
               In(queue', u)
      BY <1>2, <1>5, Tasked, AppendQueues DEF Typed
    <2>2. status'[g] = "ready" /\ \A h \in Fiber \ {g} : status'[h] = status[h]
      BY <1>2, <1>5 DEF Typed
    <2>3. Typed'
      <3>1. fibers' \in SUBSET Fiber /\ Root \in fibers'
            /\ status' \in [Fiber -> {"absent", "ready", "running", "waiting", "done"}]
        BY <1>2, <1>5 DEF Typed
      <3>2. \A h \in fibers' : status'[h] # "absent"
        BY <1>2, <1>5, <2>2 DEF Typed
      <3>3. QED
        BY <1>1, <1>3, <2>1, <3>1, <3>2 DEF Typed, asked, outcome
    <2>4. OnItsWay'
      <3>1. Queued(queue', g) /\ \A h \in Fiber : Queued(queue, h) => Queued(queue', h)
        BY <1>2, <2>1, Tasked DEF In, Queued
      <3>2. \A h \in Fiber \ {f, g} : Interruptible(h)' <=> Interruptible(h)
        BY <1>4, <2>2 DEF Interruptible
      <3>3. ~Interruptible(g)' /\ ~Interruptible(f)'
        <4>1. status'[g] = "ready" /\ status'[f] \in {"ready", "running"}
          BY <1>1, <1>2, <2>2 DEF Running
        <4>2. QED
          BY <4>1 DEF Interruptible
      <3>4. phase' # "answered" => \A h \in Fiber \ {g} : status'[h] = "ready" => Queued(queue', h)
        <4>1. phase' # "answered" => phase # "answered"
          BY <1>1
        <4>2. QED
          BY <2>2, <3>1, <4>1 DEF OnItsWay
      <3>5. phase' # "answered" => \A h \in Fiber : Interruptible(h)' => Queued(queue', h)
        BY <1>1, <3>1, <3>2, <3>3 DEF OnItsWay
      <3>6. QED
        BY <3>1, <3>4, <3>5 DEF OnItsWay
    <2>5. OneAtATime'
      BY <1>1, <2>2 DEF OneAtATime
    <2>6. Done(Root) => Done(Root)'
      BY <1>2, <1>5, <2>2 DEF Done
    <2>7. QED
      BY <1>1, <1>3, <2>3, <2>4, <2>5, <2>6, RunKeeps
  <1>6. ASSUME NEW t \in Tasks, queue' = Append(queue, t), UNCHANGED <<fibers, status>>
        PROVE  IInv'
    <2>1. /\ queue' \in Seq(Tasks) /\ \A u \in Tasks : In(queue, u) => In(queue', u)
      BY <1>6, AppendQueues DEF Typed
    <2>2. Typed'
      BY <1>1, <1>3, <1>6, <2>1 DEF Typed, asked, outcome
    <2>3. OnItsWay'
      <3>1. \A h \in Fiber : Queued(queue, h) => Queued(queue', h)
        BY <2>1, Tasked DEF In, Queued
      <3>2. \A h \in Fiber \ {f} : Interruptible(h)' <=> Interruptible(h)
        BY <1>4, <1>6 DEF Interruptible
      <3>3. ~Interruptible(f)'
        BY <1>1, <1>6 DEF Interruptible, Running
      <3>4. QED
        BY <1>1, <1>6, <3>1, <3>2, <3>3 DEF OnItsWay
    <2>4. OneAtATime'
      BY <1>1, <1>6 DEF OneAtATime
    <2>5. Done(Root) => Done(Root)'
      BY <1>6 DEF Done
    <2>6. QED
      BY <1>1, <1>3, <2>2, <2>3, <2>4, <2>5, RunKeeps
  <1>7. [of |-> f, wakes |-> g] \in Tasks /\ [of |-> None, wakes |-> g] \in Tasks
    BY <1>2 DEF Tasks
  <1>8. \/ Is(f, "fork") /\ fibers' = fibers \cup {g} /\ status' = [status EXCEPT ![g] = "ready"]
             /\ queue' = Append(queue, Own(g))
        \/ queue' = Append(queue, [of |-> f, wakes |-> g]) /\ UNCHANGED <<fibers, status>>
        \/ queue' = Append(queue, [of |-> None, wakes |-> g]) /\ UNCHANGED <<fibers, status>>
    BY <1>2 DEF Schedule, Schedules
  <1> QED
    BY <1>5, <1>6, <1>7, <1>8

(* Who waits for a fiber that ends is woken. *)
LEMMA FinishKeeps == ASSUME IInv, NEW f \in Fiber, Finish(f) PROVE IInv'
  <1> USE DEF IInv
  <1> DEFINE woken == Awaiting(f)
  <1>1. /\ Running(f) /\ UNCHANGED <<asked, fibers, at, region, interrupted, phase, outcome>>
        /\ status' = [g \in Fiber |-> IF g = f THEN "done" ELSE IF g \in woken THEN "ready" ELSE status[g]]
        /\ queue' = Woken(queue, woken) /\ current' = Idle
    BY DEF Finish, Goes, Asks
  <1>2. woken \in SUBSET Fiber /\ \A g \in woken : status[g] = "waiting"
    BY DEF Awaiting, Typed
  <1> HIDE DEF woken
  <1>3. /\ queue' \in Seq(Tasks)
        /\ \A g \in woken : Queued(queue', g)
        /\ \A u \in Tasks : In(queue, u) => In(queue', u)
    <2>1. queue \in Seq(Tasks) /\ IsFiniteSet(Fiber)
      BY DEF Typed
    <2>2. /\ Woken(queue, woken) \in Seq(Tasks)
          /\ \A g \in woken : Queued(Woken(queue, woken), g)
          /\ \A u \in Tasks : In(queue, u) => In(Woken(queue, woken), u)
      BY <1>2, <2>1, WokenQueues
    <2>3. QED
      BY <1>1, <2>2
  <1>4. Typed'
    <2>1. status' \in [Fiber -> {"absent", "ready", "running", "waiting", "done"}]
      BY <1>1 DEF Typed
    <2>2. \A g \in fibers' : status'[g] # "absent"
      BY <1>1 DEF Typed
    <2>3. QED
      BY <1>1, <1>3, <2>1, <2>2 DEF Typed, asked, outcome
  <1>5. OnItsWay'
    <2>1. \A g \in Fiber : (Is(g, "hold")' <=> Is(g, "hold")) /\ (Reached(g)' <=> Reached(g))
      BY <1>1 DEF Is, Op, Ops, Reached, asked
    <2>2. \A g \in Fiber : Interruptible(g)' => Interruptible(g)
      BY <1>1, <2>1 DEF Interruptible
    <2>3. phase' = phase /\ \A g \in Fiber : Queued(queue, g) => Queued(queue', g)
      BY <1>1, <1>3, Tasked DEF In, Queued
    <2>4. \A g \in Fiber : status'[g] = "ready" => status[g] = "ready" \/ g \in woken
      BY <1>1
    <2>5. QED
      BY <1>3, <2>2, <2>3, <2>4 DEF OnItsWay
  <1>6. OneAtATime'
    <2>1. \A g \in Fiber : status[g] = "running" => g = f
      BY <1>1, Tasked DEF OneAtATime, Running
    <2>2. QED
      BY <1>1, <2>1 DEF OneAtATime
  <1>7. Done(Root) => Done(Root)'
    <2>1. SUFFICES ASSUME status[Root] = "done" PROVE status'[Root] = "done"
      BY DEF Done
    <2>2. Root \in Fiber /\ Root \notin woken
      BY <1>2, <2>1
    <2>3. QED
      BY <1>1, <2>1, <2>2
  <1> QED
    BY <1>1, <1>4, <1>5, <1>6, <1>7, RunKeeps

-----------------------------------------------------------------------------
(* The drain, and the wind-down. *)

(* A task's start takes it from the queue, and what it was of goes on, or   *)
(* had no need of it.                                                      *)
LEMMA TakeKeeps == ASSUME IInv, Take PROVE IInv'
  <1> USE DEF IInv
  <1>1. PICK i \in DOMAIN queue : Begin(queue[i], RemoveAt(queue, i))
    BY DEF Take
  <1>2. /\ current = Idle /\ phase \in {"scheduled", "windDown"}
        /\ UNCHANGED <<asked, fibers, region, interrupted, phase, outcome>>
    BY DEF Take
  <1>3. PICK t \in Tasks : t = queue[i]
    BY <1>1 DEF Typed
  <1>4. PICK q \in Seq(Tasks) : q = RemoveAt(queue, i) /\ \A u \in Tasks : In(queue, u) /\ u # t =>
          In(q, u)
    <2>1. queue \in Seq(Tasks)
      BY DEF Typed
    <2>2. QED
      BY <1>1, <1>3, <2>1, TakenLeaves
  <1>5. Begin(t, q)
    BY <1>1, <1>3, <1>4
  <1>6. \A f \in Fiber : status[f] # "running"
    BY <1>2, Tasked DEF OneAtATime
  <1>7. ASSUME Typed', OnItsWay', \A f \in Fiber : status'[f] = "running" => current' = Own(f),
               Done(Root) => Done(Root)'
        PROVE  IInv'
    <2>1. OneAtATime' /\ DrainsDry' /\ RootIsTold' /\ AnswersTruly'
      BY <1>2, <1>7 DEF OneAtATime, DrainsDry, RootIsTold, AnswersTruly, outcome
    <2>2. QED
      BY <1>7, <2>1
  <1>8. CASE t.wakes = None
    <2>1. PICK f \in Fiber : f = t.of /\ t = Own(f)
      BY <1>8 DEF Tasks, Own
    <2>2. \A g \in Fiber \ {f} : Queued(queue, g) => Queued(q, g)
      BY <1>4, <2>1, Tasked DEF In, Queued
    <2>3. queue' = q /\ UNCHANGED at
      BY <1>5, <1>8, <2>1 DEF Begin
    <2>4. \A g \in Fiber : (Is(g, "hold")' <=> Is(g, "hold")) /\ (Reached(g)' <=> Reached(g))
      BY <1>2, <2>3 DEF Is, Op, Ops, Reached, asked
    <2>5. CASE status[f] = "ready" \/ Interruptible(f)
      <3>1. current' = t /\ status' = [status EXCEPT ![f] = "running"]
        BY <1>5, <1>8, <2>1, <2>5 DEF Begin
      <3>2. status'[f] = "running" /\ \A g \in Fiber \ {f} : status'[g] = status[g]
        BY <3>1 DEF Typed
      <3>3. Typed'
        <4>1. status' \in [Fiber -> {"absent", "ready", "running", "waiting", "done"}]
              /\ \A g \in fibers : status'[g] # "absent"
          BY <3>1, <3>2 DEF Typed
        <4>2. QED
          BY <1>2, <2>3, <3>1, <4>1 DEF Typed, asked, outcome
      <3>4. OnItsWay'
        <4>1. \A g \in Fiber \ {f} : Interruptible(g)' => Interruptible(g)
          BY <2>4, <3>2 DEF Interruptible
        <4>2. status'[f] # "ready" /\ ~Interruptible(f)'
          BY <3>2 DEF Interruptible
        <4>3. QED
          BY <1>2, <2>2, <2>3, <3>2, <4>1, <4>2 DEF OnItsWay
      <3>5. \A g \in Fiber : status'[g] = "running" => current' = Own(g)
        BY <1>6, <2>1, <3>1, <3>2
      <3>6. Done(Root) => Done(Root)'
        BY <2>5, <3>2 DEF Done, Interruptible
      <3>7. QED
        BY <1>7, <3>3, <3>4, <3>5, <3>6
    <2>6. CASE ~(status[f] = "ready" \/ Interruptible(f))
      <3>1. current' = Idle /\ status' = status
        BY <1>5, <1>8, <2>1, <2>6 DEF Begin
      <3>2. Typed'
        BY <1>2, <2>3, <3>1 DEF Typed, asked, outcome
      <3>3. OnItsWay'
        <4>1. \A g \in Fiber : Interruptible(g)' => Interruptible(g)
          BY <2>4, <3>1 DEF Interruptible
        <4>2. QED
          BY <1>2, <2>2, <2>3, <2>6, <3>1, <4>1 DEF OnItsWay
      <3>4. Done(Root) => Done(Root)'
        BY <3>1 DEF Done
      <3>5. QED
        BY <1>6, <1>7, <3>1, <3>2, <3>3, <3>4
    <2>7. QED
      BY <2>5, <2>6
  <1>9. CASE t.wakes # None
    <2>1. PICK f \in Fiber : f = t.wakes
      BY <1>9 DEF Tasks
    <2>2. \A g \in Fiber : Queued(queue, g) => Queued(q, g)
      <3>1. \A g \in Fiber : t # Own(g)
        BY <1>9 DEF Own
      <3>2. QED
        BY <1>4, <3>1, Tasked DEF In, Queued
    <2>3. CASE status[f] = "waiting" /\ Is(f, "gate")
      <3>1. /\ current' = Idle /\ queue' = Woken(q, {f})
            /\ status' = [status EXCEPT ![f] = "ready"] /\ at' = [at EXCEPT ![f] = @ + 1]
        BY <1>5, <1>9, <2>1, <2>3 DEF Begin
      <3>2. status'[f] = "ready" /\ \A g \in Fiber \ {f} : status'[g] = status[g] /\ at'[g] = at[g]
        BY <3>1 DEF Typed
      <3>3. queue' \in Seq(Tasks) /\ Queued(queue', f) /\ \A g \in Fiber : Queued(queue, g) =>
              Queued(queue', g)
        <4>1. {f} \in SUBSET Fiber /\ IsFiniteSet(Fiber)
          OBVIOUS
        <4>2. /\ Woken(q, {f}) \in Seq(Tasks) /\ Queued(Woken(q, {f}), f)
              /\ \A u \in Tasks : In(q, u) => In(Woken(q, {f}), u)
          BY <4>1, WokenQueues
        <4>3. QED
          BY <2>2, <3>1, <4>2, Tasked DEF In, Queued
      <3>4. Typed'
        <4>1. /\ status' \in [Fiber -> {"absent", "ready", "running", "waiting", "done"}]
              /\ \A g \in fibers : status'[g] # "absent"
              /\ at' \in [Fiber -> Nat]
          BY <3>1, <3>2 DEF Typed
        <4>2. QED
          BY <1>2, <3>1, <3>3, <4>1 DEF Typed, asked, outcome
      <3>5. OnItsWay'
        <4>1. \A g \in Fiber \ {f} : (Is(g, "hold")' <=> Is(g, "hold")) /\ (Reached(g)' <=> Reached(g))
          BY <1>2, <3>2, OthersStand DEF asked
        <4>2. \A g \in Fiber \ {f} : Interruptible(g)' => Interruptible(g)
          BY <3>2, <4>1 DEF Interruptible
        <4>3. QED
          BY <1>2, <3>2, <3>3, <4>2 DEF OnItsWay
      <3>6. Done(Root) => Done(Root)'
        BY <2>3, <3>2 DEF Done
      <3>7. \A g \in Fiber : status'[g] # "running"
        BY <1>6, <3>2
      <3>8. QED
        BY <1>7, <3>4, <3>5, <3>6, <3>7
    <2>4. CASE ~(status[f] = "waiting" /\ Is(f, "gate"))
      <3>1. current' = Idle /\ queue' = q /\ UNCHANGED <<status, at>>
        BY <1>5, <1>9, <2>1, <2>4 DEF Begin
      <3>2. Typed'
        BY <1>2, <3>1 DEF Typed, asked, outcome
      <3>3. OnItsWay'
        <4>1. \A g \in Fiber : (Is(g, "hold")' <=> Is(g, "hold")) /\ (Reached(g)' <=> Reached(g))
          BY <1>2, <3>1 DEF Is, Op, Ops, Reached, asked
        <4>2. \A g \in Fiber : Interruptible(g)' => Interruptible(g)
          BY <3>1, <4>1 DEF Interruptible
        <4>3. QED
          BY <1>2, <2>2, <3>1, <4>2 DEF OnItsWay
      <3>4. Done(Root) => Done(Root)'
        BY <3>1 DEF Done
      <3>5. QED
        BY <1>6, <1>7, <3>1, <3>2, <3>3, <3>4
    <2>5. QED
      BY <2>3, <2>4
  <1> QED
    BY <1>8, <1>9

(* Where no fiber moves, what can go on is queued as it was. *)
LEMMA StandStill ==
  ASSUME OnItsWay, phase # "answered", UNCHANGED <<asked, queue, effect>>
  PROVE  OnItsWay'
  <1>1. \A f \in Fiber : Interruptible(f)' <=> Interruptible(f)
    BY DEF Interruptible, Reached, Is, Op, Ops, asked, effect
  <1>2. QED
    BY <1>1 DEF OnItsWay, effect

LEMMA DrainedKeeps == ASSUME IInv, Drained PROVE IInv'
  <1> USE DEF IInv
  <1>1. /\ phase = "scheduled" /\ current = Idle /\ phase' = "interrupt"
        /\ emptied' \in BOOLEAN /\ exited' = Done(Root)
        /\ UNCHANGED <<asked, queue, current, effect, rung, answer>>
    BY DEF Drained, Scheduled, tasks
  <1>2. Typed'
    BY <1>1 DEF Typed, asked, effect, Done
  <1>3. OnItsWay'
    BY <1>1, StandStill
  <1>4. OneAtATime'
    BY <1>1 DEF OneAtATime, effect
  <1>5. DrainsDry'
    BY <1>1 DEF DrainsDry, effect
  <1>6. RootIsTold'
    BY <1>1 DEF RootIsTold, DrainsDry, Done, effect
  <1>7. AnswersTruly'
    BY <1>1 DEF AnswersTruly
  <1> QED
    BY <1>2, <1>3, <1>4, <1>5, <1>6, <1>7

(* Whoever waits is scheduled with its interruption. *)
LEMMA InterruptKeeps == ASSUME IInv, Interrupt PROVE IInv'
  <1> USE DEF IInv
  <1> DEFINE waiting == {f \in Fresh : status[f] = "waiting"}
  <1>1. /\ phase = "interrupt" /\ phase' = "windDown"
        /\ queue' = Woken(queue, waiting)
        /\ interrupted' = [f \in Fiber |-> interrupted[f] \/ f \in Fresh]
        /\ rung' = rung \cup Fresh
        /\ UNCHANGED <<asked, current, fibers, status, at, region, emptied, exited, answer>>
    BY DEF Interrupt
  <1>2. /\ Fresh \in SUBSET Fiber /\ waiting \in SUBSET Fiber /\ IsFiniteSet(Fiber)
           /\ queue \in Seq(Tasks)
        /\ interrupted' \in [Fiber -> BOOLEAN]
        /\ \A f \in Fiber : interrupted'[f] <=> interrupted[f] \/ f \in Fresh
    BY <1>1 DEF Fresh, Unfinished, Typed
  <1>3. /\ queue' \in Seq(Tasks)
        /\ \A f \in waiting : Queued(queue', f)
        /\ \A f \in Fiber : Queued(queue, f) => Queued(queue', f)
    <2> HIDE DEF waiting
    <2>1. /\ Woken(queue, waiting) \in Seq(Tasks)
          /\ \A f \in waiting : Queued(Woken(queue, waiting), f)
          /\ \A u \in Tasks : In(queue, u) => In(Woken(queue, waiting), u)
      BY <1>2, WokenQueues
    <2>2. QED
      BY <1>1, <2>1, Tasked DEF In, Queued
  <1>4. Typed'
    BY <1>1, <1>2, <1>3 DEF Typed, asked
  <1>5. OnItsWay'
    <2>1. \A f \in Fiber : Is(f, "hold")' <=> Is(f, "hold")
      BY <1>1 DEF Is, Op, Ops, asked
    <2>2. \A f \in Fiber \ Fresh : Interruptible(f)' => Interruptible(f)
      BY <1>1, <1>2, <2>1 DEF Interruptible, Reached
    <2>3. \A f \in Fresh : Interruptible(f)' => f \in waiting
      BY <1>1 DEF Interruptible
    <2>4. \A f \in Fiber : status'[f] = "ready" => status[f] = "ready"
      BY <1>1
    <2>5. QED
      BY <1>1, <1>3, <2>2, <2>3, <2>4 DEF OnItsWay
  <1>6. OneAtATime'
    BY <1>1 DEF OneAtATime
  <1>7. DrainsDry'
    <2>1. rung \in SUBSET Fiber
      BY DEF Typed
    <2>2. \A f \in rung' : interrupted'[f]
      BY <1>1, <1>2, <2>1 DEF DrainsDry
    <2>3. QED
      BY <1>1, <2>2 DEF DrainsDry
  <1>8. RootIsTold'
    <2>1. exited => Done(Root) /\ Root \notin rung
      BY DEF RootIsTold
    <2>2. Done(Root) => Root \notin Fresh
      BY DEF Done, Fresh, Unfinished
    <2>3. ~exited => Root \in rung \cup Fresh
      BY <1>1 DEF RootIsTold, Done, Fresh, Unfinished, Typed
    <2>4. Done(Root)' <=> Done(Root)
      BY <1>1 DEF Done
    <2>5. QED
      BY <1>1, <2>1, <2>2, <2>3, <2>4 DEF RootIsTold
  <1>9. AnswersTruly'
    BY <1>1 DEF AnswersTruly
  <1> QED
    BY <1>4, <1>5, <1>6, <1>7, <1>8, <1>9

LEMMA WoundKeeps == ASSUME IInv, Wound PROVE IInv'
  <1> USE DEF IInv
  <1>1. /\ phase = "windDown" /\ current = Idle /\ (queue = <<>> \/ ops >= end)
        /\ phase' = IF queue = <<>> THEN "interrupt" ELSE "over"
        /\ UNCHANGED <<asked, budget, queue, current, effect, rung, emptied, exited, answer>>
    BY DEF Wound, tasks
  <1>2. Typed'
    BY <1>1 DEF Typed, asked, effect
  <1>3. OnItsWay'
    BY <1>1, StandStill
  <1>4. OneAtATime'
    BY <1>1 DEF OneAtATime, effect
  <1>5. DrainsDry'
    BY <1>1 DEF DrainsDry, effect, budget
  <1>6. RootIsTold'
    BY <1>1 DEF RootIsTold, Done, effect
  <1>7. AnswersTruly'
    BY <1>1 DEF AnswersTruly
  <1> QED
    BY <1>2, <1>3, <1>4, <1>5, <1>6, <1>7

(* A fiber interrupted, of which nothing is queued when the queue is dry,   *)
(* waits where no interruption reaches it.                                 *)
LEMMA AnswerKeeps == ASSUME IInv, Answer PROVE IInv'
  <1> USE DEF IInv
  <1>1. /\ phase = "over" \/ (phase = "interrupt" /\ Fresh = {})
        /\ answer' = [said |-> ComesTo, stranded |-> Cardinality(Unfinished)]
        /\ phase' = "answered" /\ queue' = <<>>
        /\ UNCHANGED <<asked, budget, current, effect, rung, emptied, exited>>
    BY DEF Answer
  <1>2. Typed'
    BY <1>1 DEF Typed, asked, effect
  <1>3. OnItsWay' /\ OneAtATime' /\ DrainsDry'
    BY <1>1 DEF OnItsWay, OneAtATime, DrainsDry, effect
  <1>4. RootIsTold'
    BY <1>1 DEF RootIsTold, Done, effect
  <1>5. AnswersTruly'
    <2>1. answer'.said = ComesTo
      BY <1>1
    <2>2. Unfinished' = Unfinished /\ \A f \in Fiber : OutOfReach(f)' <=> OutOfReach(f)
      BY <1>1 DEF Unfinished, OutOfReach, Is, Op, Ops, effect, asked
    <2>3. answer'.said \in {"finished", "stranded"} => Root \notin rung'
      BY <1>1, <2>1 DEF ComesTo, RootIsTold
    <2>4. answer'.said = "finished" => Unfinished = {}
      BY <2>1 DEF ComesTo
    <2>5. answer'.said = "parked" => Root \in rung'
      <3>1. answer'.said = "parked" => ~exited
        BY <2>1 DEF ComesTo
      <3>2. phase = "interrupt" /\ Fresh = {} => Root \in rung \/ Done(Root)
        BY DEF Fresh, Unfinished, Done, Typed
      <3>3. QED
        BY <1>1, <3>1, <3>2 DEF RootIsTold
    <2>6. ASSUME NEW f \in Unfinished, phase = "interrupt", Fresh = {} PROVE OutOfReach(f)
      <3>1. f \in Fiber /\ f \in rung /\ status[f] \in {"ready", "running", "waiting"}
        BY <2>6 DEF Fresh, Unfinished, Typed
      <3>2. queue = <<>> /\ current = Idle /\ interrupted[f]
        BY <2>6, <3>1 DEF DrainsDry, OneAtATime
      <3>3. ~Queued(queue, f)
        BY <3>2 DEF Queued
      <3>4. status[f] # "ready" /\ ~Interruptible(f)
        BY <2>6, <3>1, <3>3 DEF OnItsWay
      <3>5. status[f] # "running"
        BY <3>1, <3>2, Tasked DEF OneAtATime
      <3>6. status[f] = "waiting" /\ (region[f] = "fin" \/ Is(f, "hold"))
        BY <3>1, <3>2, <3>4, <3>5 DEF Interruptible, Reached, Typed
      <3>7. QED
        BY <3>6 DEF OutOfReach
    <2>7. phase = "over" => ops' >= end'
      BY <1>1 DEF DrainsDry, budget
    <2>8. \A f \in Unfinished' : OutOfReach(f)' \/ ops' >= end'
      BY <1>1, <2>2, <2>6, <2>7 DEF Unfinished, Typed
    <2>9. QED
      BY <2>2, <2>3, <2>4, <2>5, <2>8 DEF AnswersTruly
  <1> QED
    BY <1>2, <1>3, <1>4, <1>5

LEMMA StutterKeeps == ASSUME IInv, UNCHANGED vars PROVE IInv'
  <1>1. UNCHANGED <<asked, ranks, budget, tasks, effect, phase, outcome>>
    BY DEF vars
  <1>2. UNCHANGED <<program, ops, end, queue, current, fibers, status, at, region, interrupted, phase, rung, emptied, exited, answer>>
    BY <1>1 DEF asked, ranks, budget, tasks, effect, outcome
  <1>3. Typed'
    BY <1>2 DEF IInv, Typed
  <1>4. OnItsWay'
    BY <1>2 DEF IInv, OnItsWay, Interruptible, Reached, Is, Op, Ops
  <1>5. OneAtATime' /\ DrainsDry' /\ RootIsTold'
    BY <1>2 DEF IInv, OneAtATime, DrainsDry, RootIsTold, Done
  <1>6. AnswersTruly'
    BY <1>2 DEF IInv, AnswersTruly, Unfinished, OutOfReach, Is, Op, Ops
  <1> QED
    BY <1>3, <1>4, <1>5, <1>6 DEF IInv

LEMMA Starts == Init => IInv
  <1> SUFFICES ASSUME Init PROVE IInv
    OBVIOUS
  <1>1. Typed
    <2>1. queue \in Seq(Tasks) /\ current \in Tasks \cup {Idle}
      <3>1. Own(Root) \in Tasks
        BY Tasked
      <3>2. QED
        BY <3>1 DEF Init
    <2>2. /\ status \in [Fiber -> {"absent", "ready", "running", "waiting", "done"}]
          /\ \A f \in fibers : status[f] # "absent"
      BY DEF Init
    <2>3. QED
      BY <2>1, <2>2 DEF Init, Typed
  <1>2. OnItsWay
    BY DEF Init, OnItsWay, Queued, Interruptible
  <1>3. OneAtATime /\ DrainsDry /\ RootIsTold /\ AnswersTruly
    BY DEF Init, OneAtATime, DrainsDry, RootIsTold, AnswersTruly
  <1> QED
    BY <1>1, <1>2, <1>3 DEF IInv

LEMMA Keeps == IInv /\ [Next]_vars => IInv'
  <1> SUFFICES ASSUME IInv, [Next]_vars PROVE IInv'
    OBVIOUS
  <1>1. CASE \E f \in Fiber : Stop(f) \/ Preempt(f) \/ Outrank(f) \/ Tire(f) \/ Step(f)
    BY <1>1, GivingWay, SyncKeeps, YieldKeeps, ScheduleKeeps, WaitKeeps, OverKeeps, UnwindKeeps,
       FinishKeeps DEF Step
  <1>2. CASE Take \/ Drained \/ Interrupt \/ Wound \/ Answer
    BY <1>2, TakeKeeps, DrainedKeeps, InterruptKeeps, WoundKeeps, AnswerKeeps
  <1>3. CASE Answered \/ UNCHANGED vars
    BY <1>3, StutterKeeps DEF Answered
  <1> QED
    BY <1>1, <1>2, <1>3 DEF Next

(* What execute throws or answers is so, whatever program it runs: a run    *)
(* that finished ended by itself and left nothing alive, one that parked    *)
(* had its root interrupted, and what is left unfinished waits where no     *)
(* interruption reaches it, but for a wind-down out of ops.                *)
THEOREM TellsTruly == Spec => []AnswersTruly
  <1>1. IInv => AnswersTruly
    BY DEF IInv
  <1> QED
    BY Starts, Keeps, <1>1, PTL DEF Spec
=============================================================================
