------------------------ MODULE InvariantSweepProofs ------------------------
(***************************************************************************)
(* Theorems about the invariant sweep: a drain is bounded, a document that *)
(* answered one has said what it had, and, where the actions of a test are *)
(* of one kind, no shift is excused but by an action it belongs to.        *)
(***************************************************************************)
EXTENDS InvariantSweep, TLAPS

(* What the model's variables are, as far as the proofs need it.           *)
Moment == (0 .. now) \cup {Never}
AShift == [at : Nat, input : BOOLEAN, fate : Fates]
AWindow == [from : Nat, to : Nat]
ADrain == [pc : {"idle", "waiting", "frames", "drained", "ended"}, asked : Nat, wake : Nat, due : Nat,
           frames : Nat, heard : BOOLEAN]

ClockIsTyped == now \in Nat /\ started \in 0 .. now /\ armed \in Moment /\ changed \in Moment
DrainIsTyped == drain \in ADrain
ShiftsAreTyped == shifts \in Seq(AShift) /\ queued \in BOOLEAN
ActionsAreTyped ==
  /\ DOMAIN running \subseteq Action
  /\ \A a \in DOMAIN running : running[a].any \in Moment /\ running[a].trusted \in Moment
  /\ act \in [Action -> {"idle", "acting", "acted", "done"}]
  /\ own \in [Action -> Moment]
  /\ kind \in Kinds
  /\ marks \subseteq AWindow /\ windows \subseteq AWindow

(* A wait ends no later than the document has gone quiet, as things are.   *)
WaitIsShort ==
  drain.pc = "waiting" =>
    /\ now <= drain.wake
    /\ drain.wake <= Until
    /\ drain.wake <= now + QUIET

(* What a drain took is judged, and stays so.                              *)
Final == {"input", "said", "excused"}
Answering == drain.pc = "frames" \/ (drain.pc = "drained" /\ drain.heard)
DueIsJudged ==
  Answering =>
    /\ drain.due <= Len(shifts)
    /\ \A i \in 1 .. drain.due : shifts[i].fate \in Final
OverflowIsQueued == overflow = "there" => queued

(* An action's mark opens no sooner than its window does.                  *)
Covers(ws, ms) == \A m \in ms : \E w \in ws : w.from <= m.from /\ m.to <= w.to
RunningKnows ==
  \A a \in DOMAIN running :
    /\ kind[a] = "scripted" => running[a].trusted = Never
    /\ running[a].any # Never => own[a] # Never /\ own[a] <= running[a].any
    /\ running[a].trusted # Never => own[a] # Never /\ own[a] <= running[a].trusted
MarksAreCovered == Covers(windows, marks)

Typed == ClockIsTyped /\ DrainIsTyped /\ ShiftsAreTyped /\ ActionsAreTyped
Listens == Typed /\ WaitIsShort /\ DueIsJudged /\ OverflowIsQueued
Attributes == Typed /\ RunningKnows /\ MarksAreCovered /\ ExcusedByItsAction

-----------------------------------------------------------------------------
(* What the script computes.                                               *)

LEMMA JudgedIsFinal ==
  ASSUME NEW s \in AShift, NEW ms
  PROVE  /\ Judged(s, ms) \in AShift
         /\ Judged(s, ms).fate \in {"said", "excused"}
         /\ Judged(s, ms).at = s.at
         /\ Judged(s, ms).fate = "excused" => \E m \in ms : Excuses(m, s)
  BY DEF Judged, AShift, Fates

LEMMA HeldAreJudged ==
  ASSUME NEW s \in Seq(AShift), NEW ms
  PROVE  /\ JudgeHeld(s, ms) \in Seq(AShift) /\ Len(JudgeHeld(s, ms)) = Len(s)
            /\ DOMAIN JudgeHeld(s, ms) = DOMAIN s
         /\ \A i \in DOMAIN s :
              /\ JudgeHeld(s, ms)[i].at = s[i].at
              /\ s[i].fate # "held" => JudgeHeld(s, ms)[i].fate = s[i].fate
              /\ s[i].fate = "held" => JudgeHeld(s, ms)[i].fate \in {"said", "excused"}
              /\ JudgeHeld(s, ms)[i].fate = "excused" =>
                   s[i].fate = "excused" \/ \E m \in ms : Excuses(m, s[i])
<1> DEFINE j == JudgeHeld(s, ms)
<1>1. j = [i \in DOMAIN s |-> IF s[i].fate = "held" THEN Judged(s[i], ms) ELSE s[i]]
  BY DEF JudgeHeld
<1>2. DOMAIN j = DOMAIN s /\ DOMAIN s = 1 .. Len(s) /\ Len(s) \in Nat
  BY <1>1
<1>3. \A i \in DOMAIN s : s[i] \in AShift
  OBVIOUS
<1>4. \A i \in DOMAIN s : j[i] = IF s[i].fate = "held" THEN Judged(s[i], ms) ELSE s[i]
  BY <1>1
<1> HIDE DEF j
<1>5. \A i \in DOMAIN s :
        /\ j[i] \in AShift
        /\ j[i].at = s[i].at
        /\ s[i].fate # "held" => j[i].fate = s[i].fate
        /\ s[i].fate = "held" => j[i].fate \in {"said", "excused"}
        /\ j[i].fate = "excused" => s[i].fate = "excused" \/ \E m \in ms : Excuses(m, s[i])
  BY <1>3, <1>4, JudgedIsFinal
<1>6. j = [i \in 1 .. Len(s) |-> j[i]]
  BY <1>1, <1>2 DEF j
<1>7. j \in Seq(AShift) /\ Len(j) = Len(s)
  BY <1>2, <1>5, <1>6
<1>8. QED
  BY <1>2, <1>5, <1>7 DEF j

LEMMA UnseenAreTaken ==
  ASSUME NEW s \in Seq(AShift)
  PROVE  /\ Shifted(s) \in Seq(AShift) /\ Len(Shifted(s)) = Len(s) /\ DOMAIN Shifted(s) = DOMAIN s
         /\ \A i \in DOMAIN s :
              /\ Shifted(s)[i].at = s[i].at
              /\ s[i].fate # "unseen" => Shifted(s)[i].fate = s[i].fate
              /\ Shifted(s)[i].fate # "unseen"
              /\ Shifted(s)[i].fate = "excused" =>
                   s[i].fate = "excused" \/ \E m \in marks : Excuses(m, s[i])
<1> DEFINE j == Shifted(s)
<1>2. DOMAIN j = DOMAIN s /\ DOMAIN s = 1 .. Len(s) /\ Len(s) \in Nat
      /\ j = [i \in 1 .. Len(s) |-> j[i]]
  BY DEF Shifted
<1>3. \A i \in DOMAIN s : s[i] \in AShift
  OBVIOUS
<1>4. \A i \in DOMAIN s :
        j[i] = IF s[i].fate # "unseen" THEN s[i]
               ELSE IF s[i].input THEN [s[i] EXCEPT !.fate = "input"]
               ELSE IF DOMAIN running # {} THEN [s[i] EXCEPT !.fate = "held"] ELSE Judged(s[i], marks)
  BY DEF Shifted
<1> HIDE DEF j
<1>5. \A i \in DOMAIN s :
        /\ j[i] \in AShift
        /\ j[i].at = s[i].at
        /\ s[i].fate # "unseen" => j[i].fate = s[i].fate
        /\ j[i].fate # "unseen"
        /\ j[i].fate = "excused" => s[i].fate = "excused" \/ \E m \in marks : Excuses(m, s[i])
  <2> SUFFICES ASSUME NEW i \in DOMAIN s
               PROVE  /\ j[i] \in AShift
                      /\ j[i].at = s[i].at
                      /\ s[i].fate # "unseen" => j[i].fate = s[i].fate
                      /\ j[i].fate # "unseen"
                      /\ j[i].fate = "excused" =>
                           s[i].fate = "excused" \/ \E m \in marks : Excuses(m, s[i])
    OBVIOUS
  <2>1. CASE s[i].fate # "unseen"
    BY <2>1, <1>3, <1>4
  <2>2. CASE s[i].fate = "unseen" /\ s[i].input
    BY <2>2, <1>3, <1>4 DEF AShift, Fates
  <2>3. CASE s[i].fate = "unseen" /\ ~s[i].input /\ DOMAIN running # {}
    <3>1. j[i] = [s[i] EXCEPT !.fate = "held"]
      BY <2>3, <1>4
    <3>2. s[i] \in AShift
      BY <1>3
    <3>3. j[i] \in AShift /\ j[i].at = s[i].at /\ j[i].fate = "held"
      BY <3>1, <3>2 DEF AShift, Fates
    <3>4. QED
      BY <3>3, <2>3
  <2>4. CASE s[i].fate = "unseen" /\ ~s[i].input /\ ~(DOMAIN running # {})
    <3>1. j[i] = Judged(s[i], marks)
      BY <2>4, <1>4
    <3>2. s[i] \in AShift
      BY <1>3
    <3>3. /\ Judged(s[i], marks) \in AShift
          /\ Judged(s[i], marks).fate \in {"said", "excused"}
          /\ Judged(s[i], marks).at = s[i].at
          /\ Judged(s[i], marks).fate = "excused" => \E m \in marks : Excuses(m, s[i])
      BY <3>2, JudgedIsFinal
    <3>4. QED
      BY <3>1, <3>3, <2>4
  <2>5. QED
    BY <2>1, <2>2, <2>3, <2>4
<1>7. j \in Seq(AShift) /\ Len(j) = Len(s)
  BY <1>2, <1>5
<1>8. QED
  BY <1>2, <1>5, <1>7 DEF j

LEMMA AllAreTaken ==
  ASSUME ShiftsAreTyped
  PROVE  /\ Flushed \in Seq(AShift) /\ Len(Flushed) = Len(shifts) /\ DOMAIN Flushed = DOMAIN shifts
         /\ \A i \in DOMAIN shifts :
              /\ Flushed[i].at = shifts[i].at
              /\ Flushed[i].fate \in Final
              /\ Flushed[i].fate = "excused" =>
                   shifts[i].fate = "excused" \/ \E m \in marks : Excuses(m, shifts[i])
<1>1. shifts \in Seq(AShift)
  BY DEF ShiftsAreTyped
<1> DEFINE s == Shifted(shifts)
<1>2. /\ s \in Seq(AShift) /\ Len(s) = Len(shifts) /\ DOMAIN s = DOMAIN shifts
      /\ \A i \in DOMAIN shifts :
           /\ s[i].at = shifts[i].at /\ s[i].fate # "unseen"
           /\ s[i].fate = "excused" =>
                shifts[i].fate = "excused" \/ \E m \in marks : Excuses(m, shifts[i])
  BY <1>1, UnseenAreTaken
<1> HIDE DEF s
<1> DEFINE j == JudgeHeld(s, marks)
<1>3. /\ j \in Seq(AShift) /\ Len(j) = Len(s) /\ DOMAIN j = DOMAIN s
      /\ \A i \in DOMAIN s :
           /\ j[i].at = s[i].at
           /\ s[i].fate # "held" => j[i].fate = s[i].fate
           /\ s[i].fate = "held" => j[i].fate \in {"said", "excused"}
           /\ j[i].fate = "excused" => s[i].fate = "excused" \/ \E m \in marks : Excuses(m, s[i])
  BY <1>2, HeldAreJudged
<1>4. Flushed = j
  BY DEF Flushed, s
<1> HIDE DEF j
<1>5. ASSUME NEW i \in DOMAIN shifts
      PROVE  j[i].fate \in Final
  <2>1. i \in DOMAIN s /\ i \in DOMAIN j /\ j[i] \in AShift
    BY <1>2, <1>3, <1>5
  <2>2. CASE s[i].fate = "held"
    BY <2>1, <2>2, <1>3 DEF Final
  <2>3. CASE s[i].fate # "held"
    <3>1. j[i].fate = s[i].fate /\ s[i].fate # "unseen" /\ s[i].fate # "held"
      BY <2>1, <2>3, <1>2, <1>3
    <3>2. j[i].fate \in Fates
      BY <2>1 DEF AShift
    <3>3. QED
      BY <3>1, <3>2 DEF Fates, Final
  <2>4. QED
    BY <2>2, <2>3
<1>6. ASSUME NEW i \in DOMAIN shifts, j[i].fate = "excused"
      PROVE  shifts[i].fate = "excused" \/ \E m \in marks : Excuses(m, shifts[i])
  <2>1. i \in DOMAIN s /\ s[i].at = shifts[i].at
    BY <1>2, <1>6
  <2>2. s[i].fate = "excused" \/ \E m \in marks : Excuses(m, s[i])
    BY <2>1, <1>3, <1>6
  <2>3. \A m : Excuses(m, s[i]) <=> Excuses(m, shifts[i])
    BY <2>1 DEF Excuses
  <2>4. QED
    BY <2>1, <2>2, <2>3, <1>2
<1>7. \A i \in DOMAIN shifts : j[i].at = shifts[i].at
  BY <1>2, <1>3
<1>8. QED
  BY <1>2, <1>3, <1>4, <1>5, <1>6, <1>7

-----------------------------------------------------------------------------
LEMMA TimeGoesOn ==
  ASSUME ClockIsTyped, [Next]_vars
  PROVE  now' \in Nat /\ now' >= now /\ Moment \subseteq Moment' /\ now \in Moment'
<1>1. now' = now \/ now' = now + 1
  <2>1. CASE Tick
    BY <2>1 DEF Tick
  <2>2. CASE Change \/ Arm \/ Shift \/ Observe \/ PageInput \/ Frame
    BY <2>2 DEF Change, Arm, Shift, Observe, PageInput, Frame
  <2>3. CASE Leave \/ Replace
    BY <2>3 DEF Leave, Replace, Fresh
  <2>4. CASE \E a \in Action : Start(a) \/ Input(a) \/ Return(a) \/ ReturnLost(a)
    BY <2>4 DEF Start, Input, Return, ReturnLost
  <2>5. CASE Drain \/ Wake \/ End
    BY <2>5 DEF Drain, Wake, End
  <2>6. CASE UNCHANGED vars
    BY <2>6 DEF vars
  <2>7. QED
    BY <2>1, <2>2, <2>3, <2>4, <2>5, <2>6 DEF Next
<1>2. QED
  BY <1>1 DEF ClockIsTyped, Moment

LEMMA ClockStep ==
  ASSUME ClockIsTyped, [Next]_vars
  PROVE  ClockIsTyped'
<1>1. now' \in Nat /\ now' >= now /\ Moment \subseteq Moment' /\ now \in Moment' /\ Never \in Moment'
  BY TimeGoesOn DEF Moment
<1>2. started' \in {started, now} /\ armed' \in {armed, now, Never}
      /\ changed' \in {changed, now, Never}
  <2>1. CASE Change \/ Arm
    BY <2>1 DEF Change, Arm, Soon
  <2>2. CASE Tick \/ Shift \/ Observe \/ PageInput \/ Frame \/ Drain \/ Wake \/ End
    BY <2>2 DEF Tick, Shift, Observe, PageInput, Frame, Drain, Wake, End, page
  <2>3. CASE Leave \/ Replace
    BY <2>3 DEF Leave, Replace, Fresh
  <2>4. CASE \E a \in Action : Start(a) \/ Input(a) \/ Return(a) \/ ReturnLost(a)
    BY <2>4 DEF Start, Input, Return, ReturnLost, page
  <2>5. CASE UNCHANGED vars
    BY <2>5 DEF vars, page
  <2>6. QED
    BY <2>1, <2>2, <2>3, <2>4, <2>5 DEF Next
<1>3. QED
  BY <1>1, <1>2 DEF ClockIsTyped

LEMMA UntilIsTyped ==
  ASSUME ClockIsTyped
  PROVE  Until \in Nat
  BY SweepAssumption DEF ClockIsTyped, Moment, Until, Earliest, Latest, Since

LEMMA IdleIsTyped == Idle \in ADrain
  BY DEF Idle, ADrain

LEMMA WaitsIsTyped ==
  ASSUME ClockIsTyped, ShiftsAreTyped, NEW d \in ADrain, Waits(d)
  PROVE  drain' \in ADrain
<1>1. Until \in Nat /\ now \in Nat /\ Len(shifts) \in Nat /\ QUIET \in Nat
  BY UntilIsTyped, SweepAssumption DEF ClockIsTyped, ShiftsAreTyped
<1>2. CASE now < Until
  <2>1. drain' = [d EXCEPT !.pc = "waiting", !.wake = now + Earliest(Until - now, QUIET)]
    BY <1>2 DEF Waits
  <2>2. now + Earliest(Until - now, QUIET) \in Nat
    BY <1>1, <1>2 DEF Earliest
  <2>3. QED
    BY <2>1, <2>2 DEF ADrain
<1>3. CASE ~(now < Until)
  <2>1. drain' = [Idle EXCEPT !.pc = "frames", !.frames = 2, !.due = Len(shifts)]
    BY <1>3 DEF Waits
  <2>2. QED
    BY <2>1, <1>1, IdleIsTyped DEF ADrain
<1>4. QED
  BY <1>2, <1>3

LEMMA DrainStep ==
  ASSUME Typed, [Next]_vars
  PROVE  DrainIsTyped'
<1>1. drain \in ADrain
  BY DEF Typed, DrainIsTyped
<1>2. CASE Tick \/ Change \/ Arm \/ Shift \/ Observe \/ PageInput
  BY <1>1, <1>2 DEF Tick, Change, Arm, Shift, Observe, PageInput, DrainIsTyped, ADrain
<1>3. CASE Frame
  <2>1. CASE drain.pc # "frames"
    BY <1>1, <1>3, <2>1 DEF Frame, DrainIsTyped, ADrain
  <2>2. CASE drain.pc = "frames" /\ drain.frames > 1
    <3>1. drain' = [drain EXCEPT !.frames = drain.frames - 1]
      BY <1>3, <2>2 DEF Frame
    <3>2. drain.frames - 1 \in Nat
      BY <1>1, <2>2 DEF ADrain
    <3>3. QED
      BY <1>1, <3>1, <3>2 DEF DrainIsTyped, ADrain
  <2>3. CASE drain.pc = "frames" /\ ~(drain.frames > 1)
    <3>1. drain' = [drain EXCEPT !.pc = "drained", !.frames = 0, !.heard = TRUE]
      BY <1>3, <2>3 DEF Frame
    <3>2. QED
      BY <1>1, <3>1 DEF DrainIsTyped, ADrain
  <2>4. QED
    BY <2>1, <2>2, <2>3
<1>4. CASE Leave \/ Replace \/ End
  <2>1. drain' \in {drain, Idle, [Idle EXCEPT !.pc = "drained"], [drain EXCEPT !.pc = "ended"]}
    BY <1>4 DEF Leave, Replace, End
  <2>2. [Idle EXCEPT !.pc = "drained"] \in ADrain /\ [drain EXCEPT !.pc = "ended"] \in ADrain
    BY <1>1, IdleIsTyped DEF ADrain
  <2>3. QED
    BY <2>1, <2>2, <1>1, IdleIsTyped DEF DrainIsTyped
<1>5. CASE \E a \in Action : Start(a) \/ Input(a) \/ Return(a) \/ ReturnLost(a)
  BY <1>1, <1>5 DEF Start, Input, Return, ReturnLost, DrainIsTyped, ADrain
<1>6. CASE Drain
  <2>1. now \in Nat
    BY DEF Typed, ClockIsTyped
  <2>2. [Idle EXCEPT !.asked = now] \in ADrain
    BY <2>1, IdleIsTyped DEF ADrain
  <2>3. QED
    BY <2>2, <1>6, WaitsIsTyped DEF Drain, Typed, DrainIsTyped
<1>7. CASE Wake
  BY <1>1, <1>7, WaitsIsTyped DEF Wake, Typed, DrainIsTyped
<1>8. CASE UNCHANGED vars
  BY <1>1, <1>8 DEF vars, DrainIsTyped, ADrain
<1>9. QED
  BY <1>2, <1>3, <1>4, <1>5, <1>6, <1>7, <1>8 DEF Next

LEMMA ShiftsStep ==
  ASSUME Typed, [Next]_vars
  PROVE  ShiftsAreTyped'
<1>1. shifts \in Seq(AShift) /\ queued \in BOOLEAN /\ now \in Nat
  BY DEF Typed, ShiftsAreTyped, ClockIsTyped
<1>2. queued' \in BOOLEAN
  <2>1. CASE Change \/ Arm \/ Frame \/ Leave \/ Replace
    BY <2>1 DEF Change, Arm, Soon, Frame, Leave, Replace, Fresh
  <2>2. CASE Tick \/ Shift \/ Observe \/ PageInput \/ Drain \/ Wake \/ End
    BY <2>2, <1>1 DEF Tick, Shift, Observe, PageInput, Drain, Wake, End, page
  <2>3. CASE \E a \in Action : Start(a) \/ Input(a) \/ Return(a) \/ ReturnLost(a)
    BY <2>3, <1>1 DEF Start, Input, Return, ReturnLost, page
  <2>4. CASE UNCHANGED vars
    BY <2>4, <1>1 DEF vars, page
  <2>5. QED
    BY <2>1, <2>2, <2>3, <2>4 DEF Next
<1>3. shifts' \in Seq(AShift)
  <2>1. CASE Tick \/ Change \/ Arm \/ PageInput \/ Frame \/ End \/ UNCHANGED vars
    BY <2>1, <1>1 DEF Tick, Change, Arm, PageInput, Frame, End, vars, judged
  <2>2. CASE Shift
    <3>1. PICK input \in BOOLEAN : shifts' = Append(shifts, [at |-> now, input |-> input, fate |-> "unseen"])
      BY <2>2 DEF Shift
    <3>2. [at |-> now, input |-> input, fate |-> "unseen"] \in AShift
      BY <1>1 DEF AShift, Fates
    <3>3. QED
      BY <3>1, <3>2, <1>1
  <2>3. CASE Observe
    BY <2>3, <1>1, UnseenAreTaken DEF Observe
  <2>4. CASE Leave \/ Replace
    <3>1. shifts' = <<>>
      BY <2>4 DEF Leave, Replace, Fresh
    <3>2. <<>> \in Seq(AShift)
      OBVIOUS
    <3>3. QED
      BY <3>1, <3>2
  <2>5. CASE \E a \in Action : Start(a) \/ Input(a) \/ ReturnLost(a)
    BY <2>5, <1>1 DEF Start, Input, ReturnLost, judged
  <2>6. CASE \E a \in Action : Return(a)
    <3>1. shifts' \in {shifts, JudgeHeld(shifts, marks')}
      BY <2>6 DEF Return
    <3>2. QED
      BY <3>1, <1>1, HeldAreJudged
  <2>7. CASE Drain \/ Wake
    <3>1. shifts' \in {shifts, Flushed}
      BY <2>7 DEF Drain, Wake, Waits
    <3>2. QED
      BY <3>1, <1>1, AllAreTaken DEF Typed
  <2>8. QED
    BY <2>1, <2>2, <2>3, <2>4, <2>5, <2>6, <2>7 DEF Next
<1>4. QED
  BY <1>2, <1>3 DEF ShiftsAreTyped

LEMMA SawIsTyped ==
  ASSUME NEW trusted \in BOOLEAN, NEW a \in DOMAIN running
  PROVE  /\ DOMAIN Saw(trusted) = DOMAIN running
         /\ Saw(trusted)[a].any = now
         /\ Saw(trusted)[a].trusted = IF trusted THEN now ELSE running[a].trusted
  BY DEF Saw

LEMMA ActionsStep ==
  ASSUME Typed, [Next]_vars
  PROVE  ActionsAreTyped'
<1>1. now' \in Nat /\ now' >= now /\ Moment \subseteq Moment' /\ now \in Moment' /\ Never \in Moment'
      /\ now \in Nat
  BY TimeGoesOn DEF Moment, Typed, ClockIsTyped
<1>2. /\ DOMAIN running \subseteq Action
      /\ \A a \in DOMAIN running : running[a].any \in Moment /\ running[a].trusted \in Moment
      /\ act \in [Action -> {"idle", "acting", "acted", "done"}]
      /\ own \in [Action -> Moment]
      /\ kind \in Kinds
      /\ marks \subseteq AWindow /\ windows \subseteq AWindow
  BY DEF Typed, ActionsAreTyped
<1>3. own \in [Action -> Moment']
  BY <1>1, <1>2
<1>4. \A a \in DOMAIN running : running[a].any \in Moment' /\ running[a].trusted \in Moment'
  BY <1>1, <1>2
<1>5. \A trusted \in BOOLEAN : DOMAIN Saw(trusted) = DOMAIN running
  BY DEF Saw
<1>6. \A trusted \in BOOLEAN : \A a \in DOMAIN running :
        Saw(trusted)[a].any \in Moment' /\ Saw(trusted)[a].trusted \in Moment'
  BY <1>1, <1>4, SawIsTyped
<1>7. CASE Tick \/ Change \/ Arm \/ Shift \/ Observe \/ Frame \/ Drain \/ Wake \/ End \/ UNCHANGED vars
  <2>1. UNCHANGED <<running, act, own, kind, marks, windows>>
    BY <1>7 DEF Tick, Change, Arm, Shift, Observe, Frame, Drain, Wake, End, vars, judged, test
  <2>2. QED
    BY <2>1, <1>2, <1>3, <1>4 DEF ActionsAreTyped
<1>8. CASE PageInput
  <2>1. UNCHANGED <<act, kind, marks, windows>> /\ running' = Saw(FALSE) /\ own' = Stirred
    BY <1>8 DEF PageInput
  <2>2. own' \in [Action -> Moment']
    BY <2>1, <1>1, <1>3 DEF Stirred
  <2>3. QED
    BY <2>1, <2>2, <1>2, <1>5, <1>6 DEF ActionsAreTyped
<1>9. CASE Leave \/ Replace
  <2>1. UNCHANGED <<act, kind>> /\ running' = <<>> /\ own' = [a \in Action |-> Never] /\ marks' = {}
        /\ windows' = {}
    BY <1>9 DEF Leave, Replace, Fresh
  <2>2. DOMAIN running' = {}
    BY <2>1
  <2>3. own' \in [Action -> Moment']
    BY <2>1, <1>1
  <2>4. QED
    BY <2>1, <2>2, <2>3, <1>2 DEF ActionsAreTyped
<1>10. ASSUME NEW a \in Action, Start(a)
       PROVE  ActionsAreTyped'
  <2>1. UNCHANGED <<own, kind, marks, windows>> /\ act' = [act EXCEPT ![a] = "acting"]
    BY <1>10 DEF Start
  <2>2. DOMAIN running' \subseteq Action
        /\ \A b \in DOMAIN running' : running'[b].any \in Moment' /\ running'[b].trusted \in Moment'
    <3>1. CASE running' = running
      BY <3>1, <1>2, <1>4
    <3>2. CASE running' = [b \in DOMAIN running \cup {a} |->
                             IF b = a THEN [any |-> Never, trusted |-> Never] ELSE running[b]]
      BY <3>2, <1>1, <1>2, <1>4
    <3>3. QED
      BY <1>10, <3>1, <3>2 DEF Start
  <2>3. QED
    BY <2>1, <2>2, <1>2, <1>3 DEF ActionsAreTyped
<1>11. ASSUME NEW a \in Action, Input(a)
       PROVE  ActionsAreTyped'
  <2>1. UNCHANGED <<kind, marks, windows>> /\ act' = [act EXCEPT ![a] = "acted"]
        /\ own' = [Stirred EXCEPT ![a] = now]
        /\ running' = Saw(kind[a] = "trusted")
    BY <1>11 DEF Input
  <2>2. own' \in [Action -> Moment']
    <3>1. Stirred \in [Action -> Moment']
      BY <1>1, <1>3 DEF Stirred
    <3>2. QED
      BY <2>1, <3>1, <1>1
  <2>3. QED
    BY <2>1, <2>2, <1>2, <1>5, <1>6 DEF ActionsAreTyped
<1>12. ASSUME NEW a \in Action, Return(a)
       PROVE  ActionsAreTyped'
  <2>1. /\ kind' = kind /\ act' = [act EXCEPT ![a] = "done"] /\ own' = [own EXCEPT ![a] = Never]
        /\ windows' = windows \cup {[from |-> IF own[a] = Never THEN now ELSE own[a], to |-> now]}
        /\ running' = [b \in DOMAIN running \ {a} |-> running[b]]
        /\ marks' = marks \cup {[from |-> Opens(a), to |-> now]}
    BY <1>12 DEF Return, Returned
  <2>2. own' \in [Action -> Moment']
    BY <2>1, <1>1, <1>3
  <2>3. (IF own[a] = Never THEN now ELSE own[a]) \in Nat
    BY <1>1, <1>2 DEF Moment
  <2>4. Opens(a) \in Nat
    BY <1>1, <1>2 DEF Opens, Moment
  <2>5. marks' \subseteq AWindow /\ windows' \subseteq AWindow
    BY <2>1, <2>3, <2>4, <1>1, <1>2 DEF AWindow
  <2>6. DOMAIN running' \subseteq Action
        /\ \A b \in DOMAIN running' : running'[b].any \in Moment' /\ running'[b].trusted \in Moment'
    BY <2>1, <1>2, <1>4
  <2>7. QED
    BY <2>1, <2>2, <2>5, <2>6, <1>2 DEF ActionsAreTyped
<1>13. ASSUME NEW a \in Action, ReturnLost(a)
       PROVE  ActionsAreTyped'
  <2>1. UNCHANGED <<running, kind, marks, windows>> /\ act' = [act EXCEPT ![a] = "done"]
        /\ own' = [own EXCEPT ![a] = Never]
    BY <1>13 DEF ReturnLost, Returned, judged
  <2>2. own' \in [Action -> Moment']
    BY <2>1, <1>1, <1>3
  <2>3. QED
    BY <2>1, <2>2, <1>2, <1>4 DEF ActionsAreTyped
<1>14. QED
  BY <1>7, <1>8, <1>9, <1>10, <1>11, <1>12, <1>13 DEF Next

LEMMA TypedInit == Init => Typed
<1> SUFFICES ASSUME Init PROVE Typed
  OBVIOUS
<1>1. ClockIsTyped
  BY DEF Init, ClockIsTyped, Moment
<1>2. DrainIsTyped
  BY IdleIsTyped DEF Init, DrainIsTyped
<1>3. ShiftsAreTyped
  <2>1. shifts = <<>> /\ queued = FALSE
    BY DEF Init
  <2>2. <<>> \in Seq(AShift)
    OBVIOUS
  <2>3. QED
    BY <2>1, <2>2 DEF ShiftsAreTyped
<1>4. ActionsAreTyped
  <2>1. DOMAIN running = {} /\ own = [a \in Action |-> Never] /\ act = [a \in Action |-> "idle"]
        /\ kind \in Kinds
        /\ marks = {} /\ windows = {}
    BY DEF Init
  <2>2. own \in [Action -> Moment] /\ act \in [Action -> {"idle", "acting", "acted", "done"}]
    BY <2>1 DEF Moment
  <2>3. QED
    BY <2>1, <2>2 DEF ActionsAreTyped
<1>5. QED
  BY <1>1, <1>2, <1>3, <1>4 DEF Typed

LEMMA TypedNext == Typed /\ [Next]_vars => Typed'
  BY ClockStep, DrainStep, ShiftsStep, ActionsStep DEF Typed

-----------------------------------------------------------------------------
(* One round of a wait leaves a short one, or everything judged.           *)
LEMMA WaitsShortly ==
  ASSUME Typed, NEW d \in ADrain, Waits(d), UNCHANGED <<now, started, armed, changed>>
  PROVE  WaitIsShort'
<1>1. Until \in Nat /\ now \in Nat /\ QUIET \in Nat
  BY UntilIsTyped, SweepAssumption DEF Typed, ClockIsTyped
<1>2. Until' = Until
  BY DEF Until
<1>3. CASE now < Until
  <2>1. drain' = [d EXCEPT !.pc = "waiting", !.wake = now + Earliest(Until - now, QUIET)]
    BY <1>3 DEF Waits
  <2>2. drain'.wake = now + Earliest(Until - now, QUIET)
    BY <2>1 DEF ADrain
  <2>3. QED
    BY <2>2, <1>1, <1>2, <1>3 DEF WaitIsShort, Earliest
<1>4. CASE ~(now < Until)
  <2>1. drain'.pc = "frames"
    BY <1>4 DEF Waits, Idle
  <2>2. QED
    BY <2>1 DEF WaitIsShort
<1>5. QED
  BY <1>3, <1>4

LEMMA WaitStep ==
  ASSUME Typed, WaitIsShort, [Next]_vars
  PROVE  WaitIsShort'
<1>1. /\ Until \in Nat /\ now \in Nat /\ QUIET \in Nat /\ CAP \in Nat /\ started \in 0 .. now
      /\ armed \in Moment /\ changed \in Moment /\ Never \notin Nat /\ drain \in ADrain
  BY UntilIsTyped, SweepAssumption DEF Typed, ClockIsTyped, DrainIsTyped
<1>2. CASE Tick
  <2>1. now' = now + 1 /\ UNCHANGED <<started, armed, changed, drain>>
        /\ (drain.pc = "waiting" => now < drain.wake)
    BY <1>2 DEF Tick, page
  <2>2. Until' = Until
    BY <2>1 DEF Until
  <2>3. QED
    BY <2>1, <2>2, <1>1 DEF WaitIsShort, ADrain
<1>3. CASE Change
  <2>1. changed' = now /\ UNCHANGED <<now, started, armed, drain>>
    BY <1>3 DEF Change, Soon
  <2>2. Until <= Until' /\ Until' \in Nat
    BY <2>1, <1>1 DEF Until, Since, Latest, Earliest, Moment
  <2>3. QED
    BY <2>1, <2>2, <1>1 DEF WaitIsShort, ADrain
<1>4. CASE Arm
  <2>1. changed' = now /\ armed' = now /\ UNCHANGED <<now, started, drain>>
    BY <1>4 DEF Arm, Soon
  <2>2. Until' = now + QUIET
    BY <2>1, <1>1 DEF Until, Since, Latest, Earliest
  <2>3. QED
    BY <2>1, <2>2, <1>1 DEF WaitIsShort, ADrain
<1>5. CASE Shift \/ Observe \/ PageInput \/ \E a \in Action : Start(a) \/ Input(a) \/ Return(a)
           \/ ReturnLost(a)
  <2>1. UNCHANGED <<now, started, armed, changed, drain>>
    BY <1>5 DEF Shift, Observe, PageInput, Start, Input, Return, ReturnLost, page
  <2>2. QED
    BY <2>1 DEF WaitIsShort, Until
<1>6. CASE Frame
  <2>1. UNCHANGED <<now, started, armed, changed>>
    BY <1>6 DEF Frame
  <2>2. drain'.pc = "waiting" => drain' = drain
    <3>1. CASE drain.pc # "frames"
      BY <1>6, <3>1 DEF Frame
    <3>2. CASE drain.pc = "frames" /\ drain.frames > 1
      <4>1. drain' = [drain EXCEPT !.frames = drain.frames - 1]
        BY <1>6, <3>2 DEF Frame
      <4>2. drain'.pc = drain.pc
        BY <4>1, <1>1 DEF ADrain
      <4>3. QED
        BY <4>2, <3>2
    <3>3. CASE drain.pc = "frames" /\ ~(drain.frames > 1)
      <4>1. drain' = [drain EXCEPT !.pc = "drained", !.frames = 0, !.heard = TRUE]
        BY <1>6, <3>3 DEF Frame
      <4>2. drain'.pc = "drained"
        BY <4>1, <1>1 DEF ADrain
      <4>3. QED
        BY <4>2
    <3>4. QED
      BY <3>1, <3>2, <3>3
  <2>3. QED
    BY <2>1, <2>2 DEF WaitIsShort, Until
<1>7. CASE Leave \/ Replace \/ End
  <2>1. drain'.pc # "waiting"
    BY <1>7, <1>1 DEF Leave, Replace, End, Idle, ADrain
  <2>2. QED
    BY <2>1 DEF WaitIsShort
<1>8. CASE Drain
  <2>1. UNCHANGED <<now, started, armed, changed>> /\ Waits([Idle EXCEPT !.asked = now])
    BY <1>8 DEF Drain, page
  <2>2. [Idle EXCEPT !.asked = now] \in ADrain
    BY <1>1, IdleIsTyped DEF ADrain
  <2>3. QED
    BY <2>1, <2>2, WaitsShortly
<1>9. CASE Wake
  <2>1. UNCHANGED <<now, started, armed, changed>> /\ Waits(drain)
    BY <1>9 DEF Wake, page
  <2>2. QED
    BY <2>1, <1>1, WaitsShortly
<1>10. CASE UNCHANGED vars
  BY <1>10 DEF vars, page, WaitIsShort, Until
<1>11. QED
  BY <1>2, <1>3, <1>4, <1>5, <1>6, <1>7, <1>8, <1>9, <1>10 DEF Next

LEMMA OverflowStep ==
  ASSUME OverflowIsQueued, [Next]_vars
  PROVE  OverflowIsQueued'
<1>1. CASE Change \/ Arm \/ Frame \/ Leave \/ Replace
  BY <1>1 DEF Change, Arm, Soon, Frame, Leave, Replace, Fresh, OverflowIsQueued
<1>2. CASE Tick \/ Shift \/ Observe \/ PageInput \/ Drain \/ Wake \/ End
  BY <1>2 DEF Tick, Shift, Observe, PageInput, Drain, Wake, End, page, OverflowIsQueued
<1>3. CASE \E a \in Action : Start(a) \/ Input(a) \/ Return(a) \/ ReturnLost(a)
  BY <1>3 DEF Start, Input, Return, ReturnLost, page, OverflowIsQueued
<1>4. CASE UNCHANGED vars
  BY <1>4 DEF vars, page, OverflowIsQueued
<1>5. QED
  BY <1>1, <1>2, <1>3, <1>4 DEF Next

(* What is judged stays judged, whatever is added after it.                *)
LEMMA JudgedStays ==
  ASSUME DueIsJudged, ShiftsAreTyped, DrainIsTyped, drain' = drain, Len(shifts') \in Nat,
    Len(shifts) <= Len(shifts'),
         \A i \in DOMAIN shifts : shifts[i].fate \in Final => shifts'[i].fate = shifts[i].fate
  PROVE  DueIsJudged'
<1>1. Len(shifts) \in Nat /\ drain.due \in Nat /\ DOMAIN shifts = 1 .. Len(shifts)
  BY DEF ShiftsAreTyped, DrainIsTyped, ADrain
<1>2. CASE Answering
  <2>1. drain.due <= Len(shifts) /\ \A i \in 1 .. drain.due : shifts[i].fate \in Final
    BY <1>2 DEF DueIsJudged
  <2>2. \A i \in 1 .. drain.due : i \in DOMAIN shifts
    BY <2>1, <1>1
  <2>3. QED
    BY <2>1, <2>2, <1>1 DEF DueIsJudged
<1>3. CASE ~Answering
  BY <1>3 DEF DueIsJudged, Answering
<1>4. QED
  BY <1>2, <1>3

LEMMA WaitsJudges ==
  ASSUME Typed, NEW d \in ADrain, Waits(d)
  PROVE  DueIsJudged'
<1>1. /\ Flushed \in Seq(AShift) /\ Len(Flushed) = Len(shifts) /\ DOMAIN Flushed = DOMAIN shifts
      /\ \A i \in DOMAIN shifts : Flushed[i].fate \in Final
  BY AllAreTaken DEF Typed
<1>2. Len(shifts) \in Nat /\ DOMAIN shifts = 1 .. Len(shifts)
  BY DEF Typed, ShiftsAreTyped
<1>3. CASE now < Until
  <2>1. drain'.pc = "waiting"
    BY <1>3 DEF Waits, ADrain
  <2>2. QED
    BY <2>1 DEF DueIsJudged, Answering
<1>4. CASE ~(now < Until)
  <2>1. drain'.due = Len(shifts) /\ shifts' = Flushed
    BY <1>4 DEF Waits, Idle
  <2>2. QED
    BY <2>1, <1>1, <1>2 DEF DueIsJudged
<1>5. QED
  BY <1>3, <1>4

LEMMA DueStep ==
  ASSUME Typed, DueIsJudged, [Next]_vars
  PROVE  DueIsJudged'
<1>1. /\ shifts \in Seq(AShift) /\ Len(shifts) \in Nat /\ DOMAIN shifts = 1 .. Len(shifts)
         /\ drain \in ADrain
      /\ ShiftsAreTyped /\ DrainIsTyped /\ now \in Nat
      /\ "unseen" \notin Final /\ "held" \notin Final
  BY DEF Typed, ShiftsAreTyped, DrainIsTyped, ClockIsTyped, Final
<1>2. CASE Tick \/ Change \/ Arm \/ PageInput \/ UNCHANGED vars
          \/ \E a \in Action : Start(a) \/ Input(a) \/ ReturnLost(a)
  <2>1. drain' = drain /\ shifts' = shifts
    BY <1>2 DEF Tick, Change, Arm, PageInput, Start, Input, ReturnLost, vars, judged
  <2>2. QED
    BY <2>1, <1>1, JudgedStays
<1>3. CASE Shift
  <2>1. PICK input \in BOOLEAN : shifts' = Append(shifts, [at |-> now, input |-> input, fate |-> "unseen"])
    BY <1>3 DEF Shift
  <2>2. drain' = drain
    BY <1>3 DEF Shift
  <2> DEFINE e == [at |-> now, input |-> input, fate |-> "unseen"]
  <2>3. e \in AShift
    BY <1>1 DEF AShift, Fates
  <2> HIDE DEF e
  <2>4. Len(Append(shifts, e)) = Len(shifts) + 1
        /\ \A i \in DOMAIN shifts : Append(shifts, e)[i] = shifts[i]
    BY <2>3, <1>1
  <2>5. shifts' = Append(shifts, e)
    BY <2>1 DEF e
  <2>6. Len(shifts') \in Nat /\ Len(shifts) <= Len(shifts')
        /\ \A i \in DOMAIN shifts : shifts'[i].fate = shifts[i].fate
    BY <2>4, <2>5, <1>1
  <2>7. QED
    BY <2>2, <2>6, <1>1, JudgedStays
<1>4. CASE Observe
  <2>1. drain' = drain /\ shifts' = Shifted(shifts)
    BY <1>4 DEF Observe
  <2>2. Len(shifts') = Len(shifts) /\ \A i \in DOMAIN shifts : shifts[i].fate # "unseen" =>
          shifts'[i].fate = shifts[i].fate
    BY <2>1, <1>1, UnseenAreTaken
  <2>3. \A i \in DOMAIN shifts : shifts[i].fate \in Final => shifts'[i].fate = shifts[i].fate
    BY <2>2 DEF Final
  <2>4. QED
    BY <2>1, <2>2, <2>3, <1>1, JudgedStays
<1>5. CASE Frame
  <2>1. shifts' = shifts
    BY <1>5 DEF Frame, judged
  <2>2. drain'.due = drain.due /\ (Answering' => Answering)
    <3>1. CASE drain.pc # "frames"
      BY <1>5, <3>1 DEF Frame, Answering
    <3>2. CASE drain.pc = "frames"
      BY <1>5, <1>1, <3>2 DEF Frame, Answering, ADrain
    <3>3. QED
      BY <3>1, <3>2
  <2>3. QED
    BY <2>1, <2>2 DEF DueIsJudged
<1>6. CASE Leave \/ Replace
  <2>1. ~Answering'
    BY <1>6 DEF Leave, Replace, Answering, Idle
  <2>2. QED
    BY <2>1 DEF DueIsJudged, Answering
<1>7. CASE End
  <2>1. ~Answering'
    BY <1>7, <1>1 DEF End, Answering, ADrain
  <2>2. QED
    BY <2>1 DEF DueIsJudged, Answering
<1>8. CASE \E a \in Action : Return(a)
  <2>1. drain' = drain /\ shifts' \in {shifts, JudgeHeld(shifts, marks')}
    BY <1>8 DEF Return
  <2>2. Len(shifts') = Len(shifts) /\ \A i \in DOMAIN shifts : shifts[i].fate # "held" =>
          shifts'[i].fate = shifts[i].fate
    BY <2>1, <1>1, HeldAreJudged
  <2>3. \A i \in DOMAIN shifts : shifts[i].fate \in Final => shifts'[i].fate = shifts[i].fate
    BY <2>2 DEF Final
  <2>4. QED
    BY <2>1, <2>2, <2>3, <1>1, JudgedStays
<1>9. CASE Drain
  <2>1. [Idle EXCEPT !.asked = now] \in ADrain
    BY <1>1, IdleIsTyped DEF ADrain
  <2>2. QED
    BY <2>1, <1>9, WaitsJudges DEF Drain
<1>10. CASE Wake
  BY <1>1, <1>10, WaitsJudges DEF Wake
<1>11. QED
  BY <1>2, <1>3, <1>4, <1>5, <1>6, <1>7, <1>8, <1>9, <1>10 DEF Next

LEMMA ListensInit == Init => Listens
<1> SUFFICES ASSUME Init PROVE Listens
  OBVIOUS
<1>1. drain.pc = "idle" /\ overflow = "none"
  BY DEF Init, Idle
<1>2. QED
  BY <1>1, TypedInit DEF Listens, WaitIsShort, DueIsJudged, Answering, OverflowIsQueued

LEMMA ListensNext == Listens /\ [Next]_vars => Listens'
  BY TypedNext, WaitStep, DueStep, OverflowStep DEF Listens

(* A drain sleeps no longer than the document is given to go quiet, however *)
(* it changes and arms in between (the wait of DRAINER).                    *)
THEOREM WaitsNoLonger == Spec => []DrainIsBounded
<1>1. Listens => DrainIsBounded
  <2> SUFFICES ASSUME Listens, drain.pc = "waiting" PROVE now <= Latest(drain.asked, Until)
    BY DEF DrainIsBounded
  <2>1. Until \in Nat /\ now \in Nat /\ drain.wake \in Nat /\ drain.asked \in Nat
    BY UntilIsTyped DEF Listens, Typed, ClockIsTyped, DrainIsTyped, ADrain
  <2>2. now <= Until
    BY <2>1 DEF Listens, WaitIsShort
  <2>3. QED
    BY <2>1, <2>2 DEF Latest
<1>2. QED
  BY <1>1, ListensInit, ListensNext, PTL DEF Spec

(* A document that answered a drain has judged every shift there was when   *)
(* it went quiet, and said that it overflows if it does (flush and check).  *)
THEOREM HearsTheDrained == Spec => []DrainedIsHeard
<1>1. Listens => DrainedIsHeard
  BY DEF Listens, DueIsJudged, Answering, OverflowIsQueued, DrainedIsHeard, Final
<1>2. QED
  BY <1>1, ListensInit, ListensNext, PTL DEF Spec

-----------------------------------------------------------------------------
(* The actions of a test are all of one kind.                              *)
OneKind == \A k \in Kinds : (\A a \in Action : k[a] = "trusted") \/ (\A a \in Action : k[a] = "scripted")

(* What a mark excuses, its window does.                                   *)
LEMMA WindowsExcuse ==
  ASSUME NEW ws, NEW ms, Covers(ws, ms), ws \subseteq AWindow, ms \subseteq AWindow,
         NEW s, s.at \in Nat, NEW m \in ms, Excuses(m, s)
  PROVE  \E w \in ws : Excuses(w, s)
<1>1. PICK w \in ws : w.from <= m.from /\ m.to <= w.to
  BY DEF Covers
<1>2. w \in AWindow /\ m \in AWindow /\ RECENT \in Nat
  BY SweepAssumption
<1>3. Excuses(w, s)
  BY <1>1, <1>2 DEF Excuses, AWindow
<1>4. QED
  BY <1>3

LEMMA KnowsStep ==
  ASSUME OneKind, Typed, RunningKnows, [Next]_vars
  PROVE  RunningKnows'
<1>1. /\ DOMAIN running \subseteq Action /\ now \in Nat /\ Never \notin Nat
      /\ \A a \in DOMAIN running : running[a].any \in Moment /\ running[a].trusted \in Moment
      /\ own \in [Action -> Moment]
      /\ kind \in [Action -> {"trusted", "scripted"}]
      /\ \A a \in Action : own[a] # Never => own[a] \in Nat /\ own[a] <= now
  BY SweepAssumption DEF Typed, ActionsAreTyped, ClockIsTyped, Moment
<1>2. (\A a \in Action : kind[a] = "trusted") \/ (\A a \in Action : kind[a] = "scripted")
  BY DEF OneKind, Typed, ActionsAreTyped
<1>3. CASE Tick \/ Change \/ Arm \/ Shift \/ Observe \/ Frame \/ Drain \/ Wake \/ End \/ UNCHANGED vars
  <2>1. UNCHANGED <<running, own, kind>>
    BY <1>3 DEF Tick, Change, Arm, Shift, Observe, Frame, Drain, Wake, End, vars, judged, test
  <2>2. QED
    BY <2>1 DEF RunningKnows
<1>s. \A b \in DOMAIN running :
        /\ Stirred[b] # Never /\ Stirred[b] <= now
        /\ own[b] # Never => Stirred[b] = own[b]
  BY <1>1 DEF Stirred
<1>4. CASE PageInput
  <2>1. kind' = kind /\ running' = Saw(FALSE) /\ own' = Stirred
    BY <1>4 DEF PageInput
  <2>2. DOMAIN running' = DOMAIN running
        /\ \A a \in DOMAIN running : running'[a].any = now /\ running'[a].trusted = running[a].trusted
    BY <2>1 DEF Saw
  <2>3. QED
    BY <2>1, <2>2, <1>1, <1>s DEF RunningKnows
<1>5. CASE Leave \/ Replace
  <2>1. running' = <<>>
    BY <1>5 DEF Leave, Replace, Fresh
  <2>2. DOMAIN running' = {}
    BY <2>1
  <2>3. QED
    BY <2>2 DEF RunningKnows
<1>6. ASSUME NEW a \in Action, Start(a)
      PROVE  RunningKnows'
  <2>1. UNCHANGED <<own, kind>>
    BY <1>6 DEF Start
  <2>2. DOMAIN running' \subseteq DOMAIN running \cup {a}
        /\ \A b \in DOMAIN running' : b # a => running'[b] = running[b]
    BY <1>6 DEF Start
  <2>3. a \in DOMAIN running' =>
          \/ running'[a].trusted = Never /\ running'[a].any = Never
          \/ running'[a] = running[a] /\ a \in DOMAIN running
    BY <1>6 DEF Start
  <2>4. QED
    BY <2>1, <2>2, <2>3 DEF RunningKnows
<1>7. ASSUME NEW a \in Action, Input(a)
      PROVE  RunningKnows'
  <2>1. kind' = kind /\ own' = [Stirred EXCEPT ![a] = now] /\ running' = Saw(kind[a] = "trusted")
    BY <1>7 DEF Input
  <2>2. own'[a] = now /\ \A b \in Action : b # a => own'[b] = Stirred[b]
    BY <2>1 DEF Stirred
  <2>3. \A b \in DOMAIN running : own'[b] # Never /\ own'[b] <= now
    BY <2>2, <1>1, <1>s
  <2>4. DOMAIN running' = DOMAIN running
        /\ \A b \in DOMAIN running :
             /\ running'[b].any = now
             /\ running'[b].trusted = IF kind[a] = "trusted" THEN now ELSE running[b].trusted
    BY <2>1 DEF Saw
  <2>5. CASE \A b \in Action : kind[b] = "trusted"
    <3>1. \A b \in DOMAIN running : running'[b].trusted = now /\ kind[b] # "scripted"
      BY <2>4, <2>5, <1>1
    <3>2. QED
      BY <2>1, <2>3, <2>4, <3>1 DEF RunningKnows
  <2>6. CASE \A b \in Action : kind[b] = "scripted"
    <3>1. \A b \in DOMAIN running : running'[b].trusted = Never
      BY <2>4, <2>6, <1>1 DEF RunningKnows
    <3>2. QED
      BY <2>1, <2>3, <2>4, <3>1 DEF RunningKnows
  <2>7. QED
    BY <2>5, <2>6, <1>2
<1>8. ASSUME NEW a \in Action, Return(a) \/ ReturnLost(a)
      PROVE  RunningKnows'
  <2>1. kind' = kind /\ own' = [own EXCEPT ![a] = Never]
    BY <1>8 DEF Return, ReturnLost, Returned
  <2>2. /\ DOMAIN running' = DOMAIN running \ {a}
        /\ \A b \in DOMAIN running' : running'[b] = running[b]
    BY <1>8 DEF Return, ReturnLost, judged
  <2>3. \A b \in DOMAIN running' : own'[b] = own[b]
    BY <2>1, <2>2, <1>1
  <2>4. QED
    BY <2>1, <2>2, <2>3 DEF RunningKnows
<1>9. QED
  BY <1>3, <1>4, <1>5, <1>6, <1>7, <1>8 DEF Next

LEMMA CoveredStep ==
  ASSUME Typed, RunningKnows, MarksAreCovered, [Next]_vars
  PROVE  MarksAreCovered'
<1>1. CASE Tick \/ Change \/ Arm \/ Shift \/ Observe \/ PageInput \/ Frame \/ Drain \/ Wake \/ End
           \/ UNCHANGED vars
           \/ \E a \in Action : Start(a) \/ Input(a) \/ ReturnLost(a)
  <2>1. UNCHANGED <<marks, windows>>
    BY <1>1
    DEF Tick, Change, Arm, Shift, Observe, PageInput, Frame, Drain, Wake, End, Start, Input, ReturnLost,
      vars, judged, test
  <2>2. QED
    BY <2>1 DEF MarksAreCovered, Covers
<1>2. CASE Leave \/ Replace
  BY <1>2 DEF Leave, Replace, Fresh, MarksAreCovered, Covers
<1>3. ASSUME NEW a \in Action, Return(a)
      PROVE  MarksAreCovered'
  <2> DEFINE w == [from |-> IF own[a] = Never THEN now ELSE own[a], to |-> now]
             m == [from |-> Opens(a), to |-> now]
  <2>1. windows' = windows \cup {w} /\ marks' = marks \cup {m}
    BY <1>3 DEF Return
  <2>2. /\ now \in Nat /\ Never \notin Nat
        /\ \A b \in DOMAIN running : running[b].any \in Moment /\ running[b].trusted \in Moment
        /\ own[a] \in Moment
    BY SweepAssumption DEF Typed, ActionsAreTyped, ClockIsTyped
  <2>3. w.from <= m.from
    <3>1. CASE a \notin DOMAIN running
      BY <3>1, <2>2 DEF Opens, Moment
    <3>2. CASE a \in DOMAIN running /\ running[a].trusted # Never
      BY <3>2, <2>2 DEF Opens, RunningKnows, Moment
    <3>3. CASE a \in DOMAIN running /\ running[a].trusted = Never /\ running[a].any # Never
      BY <3>3, <2>2 DEF Opens, RunningKnows, Moment
    <3>4. CASE a \in DOMAIN running /\ running[a].trusted = Never /\ running[a].any = Never
      BY <3>4, <2>2 DEF Opens, Moment
    <3>5. QED
      BY <3>1, <3>2, <3>3, <3>4
  <2>4. m.to <= w.to
    BY <2>2
  <2> HIDE DEF w, m
  <2>5. QED
    BY <2>1, <2>3, <2>4 DEF MarksAreCovered, Covers
<1>4. QED
  BY <1>1, <1>2, <1>3 DEF Next

(* Shifts judged by the marks there are, and no window taken away.         *)
LEMMA ExcusedStay ==
  ASSUME ExcusedByItsAction, ShiftsAreTyped, windows \subseteq windows',
         windows' \subseteq AWindow, marks' \subseteq AWindow, Covers(windows', marks'),
         DOMAIN shifts' = DOMAIN shifts,
         \A i \in DOMAIN shifts :
           /\ shifts'[i].at = shifts[i].at
           /\ shifts'[i].fate = "excused" =>
                shifts[i].fate = "excused" \/ \E m \in marks' : Excuses(m, shifts[i])
  PROVE  ExcusedByItsAction'
<1> SUFFICES ASSUME NEW i \in DOMAIN shifts, shifts'[i].fate = "excused"
             PROVE  \E w \in windows' : Excuses(w, shifts'[i])
  BY DEF ExcusedByItsAction
<1>0. shifts \in Seq(AShift)
  BY DEF ShiftsAreTyped
<1>1. shifts[i] \in AShift /\ shifts[i].at \in Nat /\ shifts'[i].at = shifts[i].at
  <2>1. shifts[i] \in AShift
    BY <1>0
  <2>2. QED
    BY <2>1 DEF AShift
<1>2. \E w \in windows' : Excuses(w, shifts[i])
  <2>1. CASE shifts[i].fate = "excused"
    BY <2>1 DEF ExcusedByItsAction
  <2>2. CASE \E m \in marks' : Excuses(m, shifts[i])
    BY <2>2, <1>1, WindowsExcuse
  <2>3. QED
    BY <2>1, <2>2
<1>3. \A w : Excuses(w, shifts'[i]) <=> Excuses(w, shifts[i])
  BY <1>1 DEF Excuses
<1>4. QED
  BY <1>2, <1>3

LEMMA ExcusedStep ==
  ASSUME Typed, Typed', MarksAreCovered', ExcusedByItsAction, [Next]_vars
  PROVE  ExcusedByItsAction'
<1>1. /\ shifts \in Seq(AShift) /\ ShiftsAreTyped /\ Len(shifts) \in Nat
         /\ DOMAIN shifts = 1 .. Len(shifts) /\ now \in Nat
      /\ windows' \subseteq AWindow /\ marks' \subseteq AWindow /\ Covers(windows', marks')
  BY DEF Typed, ShiftsAreTyped, ActionsAreTyped, ClockIsTyped, MarksAreCovered, Covers
<1>2. CASE Tick \/ Change \/ Arm \/ PageInput \/ Frame \/ End \/ UNCHANGED vars
           \/ \E a \in Action : Start(a) \/ Input(a) \/ ReturnLost(a)
  <2>1. UNCHANGED <<shifts, windows>>
    BY <1>2 DEF Tick, Change, Arm, PageInput, Frame, End, Start, Input, ReturnLost, vars, judged, test
  <2>2. QED
    BY <2>1 DEF ExcusedByItsAction, Excuses
<1>3. CASE Shift
  <2>1. PICK input \in BOOLEAN : shifts' = Append(shifts, [at |-> now, input |-> input, fate |-> "unseen"])
    BY <1>3 DEF Shift
  <2> DEFINE e == [at |-> now, input |-> input, fate |-> "unseen"]
  <2>2. windows' = windows /\ shifts' = Append(shifts, e)
    BY <1>3, <2>1 DEF Shift, test
  <2>3. e \in AShift /\ e.fate # "excused"
    BY <1>1 DEF AShift, Fates
  <2> HIDE DEF e
  <2>4. \A i \in DOMAIN shifts' : (i = Len(shifts) + 1 /\ shifts'[i] = e) \/ (i \in DOMAIN shifts /\ shifts'[i] = shifts[i])
    BY <2>2, <2>3, <1>1
  <2>5. QED
    BY <2>2, <2>3, <2>4 DEF ExcusedByItsAction
<1>4. CASE Observe
  <2>1. UNCHANGED <<marks, windows>> /\ shifts' = Shifted(shifts)
    BY <1>4 DEF Observe, test
  <2>2. QED
    BY <2>1, <1>1, UnseenAreTaken, ExcusedStay
<1>5. CASE Leave \/ Replace
  <2>1. shifts' = <<>>
    BY <1>5 DEF Leave, Replace, Fresh
  <2>2. QED
    BY <2>1 DEF ExcusedByItsAction
<1>6. ASSUME NEW a \in Action, Return(a)
      PROVE  ExcusedByItsAction'
  <2>1. windows \subseteq windows' /\ shifts' \in {shifts, JudgeHeld(shifts, marks')}
    BY <1>6 DEF Return
  <2>2. CASE shifts' = shifts
    BY <2>1, <2>2, <1>1, ExcusedStay
  <2>3. CASE shifts' = JudgeHeld(shifts, marks')
    BY <2>1, <2>3, <1>1, HeldAreJudged, ExcusedStay
  <2>4. QED
    BY <2>1, <2>2, <2>3
<1>7. CASE Drain \/ Wake
  <2>1. UNCHANGED <<marks, windows>> /\ shifts' \in {shifts, Flushed}
    BY <1>7 DEF Drain, Wake, Waits, test
  <2>2. CASE shifts' = shifts
    BY <2>1, <2>2, <1>1, ExcusedStay
  <2>3. CASE shifts' = Flushed
    BY <2>1, <2>3, <1>1, AllAreTaken, ExcusedStay
  <2>4. QED
    BY <2>1, <2>2, <2>3
<1>8. QED
  BY <1>2, <1>3, <1>4, <1>5, <1>6, <1>7 DEF Next

LEMMA AttributesInit == Init => Attributes
<1> SUFFICES ASSUME Init PROVE Attributes
  OBVIOUS
<1>1. DOMAIN running = {} /\ DOMAIN shifts = {} /\ marks = {}
  BY DEF Init
<1>2. QED
  BY <1>1, TypedInit DEF Attributes, RunningKnows, MarksAreCovered, Covers, ExcusedByItsAction

(* Every shift that is excused lies in the window of an action of the test, *)
(* up to RECENT after its return (judge and ACTOR): from its own input on,  *)
(* or, of one that set off none or threw, from an event of its run on or,   *)
(* where there was none, its return.  It is of any number of actions at     *)
(* once, and of actions all of one kind: one whose input comes from script  *)
(* takes a trusted one of another's for its own.                            *)
THEOREM ExcusesItsOwn ==
  ASSUME OneKind
  PROVE  Spec => []ExcusedByItsAction
<1>1. Attributes /\ [Next]_vars => Attributes'
  BY TypedNext, KnowsStep, CoveredStep, ExcusedStep DEF Attributes
<1>2. Attributes => ExcusedByItsAction
  BY DEF Attributes
<1>3. QED
  BY <1>1, <1>2, AttributesInit, PTL DEF Spec
=============================================================================
