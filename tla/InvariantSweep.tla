--------------------------- MODULE InvariantSweep ---------------------------
(***************************************************************************)
(* The invariant sweep (invariant-sweep.ts): the script a page's documents *)
(* run first, which measures overflow and judges layout shifts, and the    *)
(* fixture's calls into it: an action of Playwright's is marked as it      *)
(* starts and as it returns, and a call that replaces the document drains  *)
(* it before.                                                              *)
(*                                                                         *)
(* One page.  A document's reports and answers reach the test in order, so *)
(* a report is heard as it is made.  Time is in ticks; what a browser does *)
(* on its next frame, or when a timer is due, it does within the tick.     *)
(***************************************************************************)
EXTENDS Integers, Sequences, FiniteSets, FiniteSetsExt, SequencesExt

CONSTANTS
  RECENT,      \* how long after an action a shift is still its own
  QUIET,       \* how long a document goes unchanged before it is done
  CAP,         \* how long one that never arms is waited for
  Action,      \* the actions of the test that send no input of the browser's own
  Never,       \* a moment that has not come
  Kinds,       \* how the actions may take effect, each a function from Action
  MaxNow, MaxShifts, MaxDocuments

ASSUME SweepAssumption ==
  /\ RECENT \in Nat /\ QUIET \in Nat \ {0} /\ CAP \in Nat
  /\ Never \notin Nat
  /\ Kinds \subseteq [Action -> {"trusted", "scripted"}]

VARIABLES
  now,
  document,    \* which document is the page's
  started,     \* when its script ran
  armed,       \* when it had loaded, with its fonts
  changed,     \* the last of the moments at which it is to be measured
  queued,      \* a check is asked for the next frame
  overflow,    \* whether something reaches past the viewport, and it was said
  shifts,      \* the shifts so far: when each started, and what became of it
  running,     \* the actions it has heard start, and what input it saw since
  marks,       \* the actions it has heard return
  act,         \* how far the test is with each action
  own,         \* when the own input of each that runs landed in this document,
               \* or, until it has, the first event of its run there
  windows,     \* from when to when each that returned there is answerable
  kind,        \* how each action takes effect
  drain        \* the call that replaces the document, or the test's end

page == <<document, started, armed, changed, queued, overflow>>
judged == <<shifts, running, marks>>
test == <<act, own, windows, kind>>
vars == <<now, page, judged, test, drain>>

Idle == [pc |-> "idle", asked |-> 0, wake |-> 0, due |-> 0, frames |-> 0, heard |-> FALSE]
Since(t) == IF t = Never THEN -1 ELSE t
Latest(a, b) == IF a >= b THEN a ELSE b
Earliest(a, b) == IF a <= b THEN a ELSE b

-----------------------------------------------------------------------------
(* What the document's script computes. *)

(* until: gone quiet, changing without pause, or never armed. *)
Until ==
  IF armed = Never THEN started + CAP
  ELSE Earliest(Latest(Since(changed), armed) + QUIET, armed + 2 * QUIET)

Excuses(m, shift) == m.from <= shift.at /\ shift.at <= m.to + RECENT

(* judge *)
Judged(shift, ms) ==
  [shift EXCEPT !.fate = IF \E m \in ms : Excuses(m, shift) THEN "excused" ELSE "said"]

(* shifted, of the entries the observer was handed or the document takes. *)
Shifted(s) ==
  [i \in DOMAIN s |->
     IF s[i].fate # "unseen" THEN s[i]
     ELSE IF s[i].input THEN [s[i] EXCEPT !.fate = "input"]
     ELSE IF DOMAIN running # {} THEN [s[i] EXCEPT !.fate = "held"] ELSE Judged(s[i], marks)]

JudgeHeld(s, ms) == [i \in DOMAIN s |-> IF s[i].fate = "held" THEN Judged(s[i], ms) ELSE s[i]]

(* Mistakes: what two of these are easily got wrong as.  What the observer *)
(* has not been handed is left to it; the first event of an action's run   *)
(* opens its window.                                                       *)
FlushedHeld == JudgeHeld(shifts, marks)

SawFirst(trusted) ==
  [a \in DOMAIN running |->
     [any |-> IF running[a].any = Never THEN now ELSE running[a].any,
      trusted |-> IF trusted /\ running[a].trusted = Never THEN now ELSE running[a].trusted]]

(* flush *)
Flushed == JudgeHeld(Shifted(shifts), marks)

(* An action's window opens at its own input, as the document knows it. *)
Opens(a) ==
  IF a \notin DOMAIN running THEN now
  ELSE IF running[a].trusted # Never THEN running[a].trusted
  ELSE IF running[a].any # Never THEN running[a].any ELSE now

Saw(trusted) ==
  [a \in DOMAIN running |-> [any |-> now, trusted |-> IF trusted THEN now ELSE running[a].trusted]]

(* What an action is answerable from, until its own input has landed. *)
Stirred == [b \in Action |-> IF b \in DOMAIN running /\ own[b] = Never THEN now ELSE own[b]]

-----------------------------------------------------------------------------
(* The page. *)

Soon == changed' = now /\ queued' = TRUE

(* Everything in the tree, and what it loads. *)
Change ==
  /\ drain.pc # "ended"
  /\ Soon /\ overflow' \in IF overflow = "said" THEN {"said"} ELSE {"none", "there"}
  /\ UNCHANGED <<now, document, started, armed, judged, test, drain>>

Arm ==
  /\ armed = Never /\ drain.pc # "ended"
  /\ armed' = now /\ Soon
  /\ UNCHANGED <<now, document, started, overflow, judged, test, drain>>

Shift ==
  /\ Len(shifts) < MaxShifts /\ drain.pc # "ended"
  /\ \E input \in BOOLEAN : shifts' = Append(shifts, [at |-> now, input |-> input, fate |-> "unseen"])
  /\ UNCHANGED <<now, page, running, marks, test, drain>>

(* The observer is called some time after. *)
Observe ==
  /\ \E i \in DOMAIN shifts : shifts[i].fate = "unseen"
  /\ shifts' = Shifted(shifts)
  /\ UNCHANGED <<now, page, running, marks, test, drain>>

(* The page dispatches an event of its own. *)
PageInput ==
  /\ DOMAIN running # {}
  /\ running' = Saw(FALSE) /\ own' = Stirred
  /\ UNCHANGED <<now, page, shifts, marks, act, windows, kind, drain>>

Frame ==
  /\ queued \/ drain.pc = "frames"
  /\ queued' = FALSE
  /\ overflow' = IF queued /\ overflow = "there" THEN "said" ELSE overflow
  /\ drain' = CASE drain.pc # "frames" -> drain
                [] drain.pc = "frames" /\ drain.frames > 1 -> [drain EXCEPT !.frames = @ - 1]
                [] OTHER -> [drain EXCEPT !.pc = "drained", !.frames = 0, !.heard = TRUE]
  /\ UNCHANGED <<now, document, started, armed, changed, judged, test>>

(* The next document; the script runs in it before anything else. *)
Fresh ==
  /\ document' = document + 1
  /\ started' = now /\ armed' = Never /\ changed' = Never /\ queued' = FALSE
  /\ overflow' = "none"
  /\ shifts' = <<>> /\ running' = <<>> /\ marks' = {}
  /\ own' = [a \in Action |-> Never] /\ windows' = {}
  /\ UNCHANGED <<now, act, kind>>

(* A link, or the page by itself: a drain under way is given up.  What it  *)
(* had to say it says as it goes (pagehide); it is not followed further.   *)
Leave ==
  /\ document < MaxDocuments /\ drain.pc # "ended"
  /\ Fresh
  /\ drain' = IF drain.pc = "idle" THEN drain ELSE [Idle EXCEPT !.pc = "drained"]

-----------------------------------------------------------------------------
(* marked: an action is told to the document, done, and told again.  A     *)
(* mark is lost when the document it was sent to went first.               *)

Start(a) ==
  /\ act[a] = "idle" /\ drain.pc # "ended"
  /\ act' = [act EXCEPT ![a] = "acting"]
  /\ \/ running' = [b \in DOMAIN running \cup {a} |-> IF b = a THEN [any |-> Never, trusted |-> Never] ELSE running[b]]
     \/ document > 1 /\ UNCHANGED running
  /\ UNCHANGED <<now, page, shifts, marks, own, windows, kind, drain>>

(* The action's own input, once it has found its element. *)
Input(a) ==
  /\ act[a] = "acting"
  /\ act' = [act EXCEPT ![a] = "acted"]
  /\ own' = [Stirred EXCEPT ![a] = now]
  /\ running' = Saw(kind[a] = "trusted")
  /\ UNCHANGED <<now, page, shifts, marks, windows, kind, drain>>

Returned(a) == act' = [act EXCEPT ![a] = "done"] /\ own' = [own EXCEPT ![a] = Never]

(* Whether it set off its input, set off none, or threw. *)
Return(a) ==
  /\ act[a] \in {"acting", "acted"}
  /\ Returned(a)
  /\ windows' = windows \cup {[from |-> IF own[a] = Never THEN now ELSE own[a], to |-> now]}
  /\ running' = [b \in DOMAIN running \ {a} |-> running[b]]
  /\ marks' = marks \cup {[from |-> Opens(a), to |-> now]}
  /\ shifts' = IF DOMAIN running' = {} THEN JudgeHeld(shifts, marks') ELSE shifts
  /\ UNCHANGED <<now, page, kind, drain>>

ReturnLost(a) ==
  /\ act[a] \in {"acting", "acted"} /\ document > 1 /\ a \notin DOMAIN running
  /\ Returned(a)
  /\ UNCHANGED <<now, page, judged, windows, kind, drain>>

-----------------------------------------------------------------------------
(* A call that replaces the document, and the end of the test, ask it to   *)
(* drain first.                                                            *)

(* Mistake: the deadline is slept for. *)
WaitsUncapped(d) ==
  IF now < Until
  THEN drain' = [d EXCEPT !.pc = "waiting", !.wake = Until] /\ UNCHANGED shifts
  ELSE drain' = [Idle EXCEPT !.pc = "frames", !.frames = 2, !.due = Len(shifts)] /\ shifts' = Flushed

(* One round of the wait: sleep, capped, or flush and let two frames pass. *)
Waits(d) ==
  IF now < Until
  THEN drain' = [d EXCEPT !.pc = "waiting", !.wake = now + Earliest(Until - now, QUIET)] /\ UNCHANGED shifts
  ELSE drain' = [Idle EXCEPT !.pc = "frames", !.frames = 2, !.due = Len(shifts)] /\ shifts' = Flushed

Drain ==
  /\ drain.pc = "idle"
  /\ Waits([Idle EXCEPT !.asked = now])
  /\ UNCHANGED <<now, page, running, marks, test>>

Wake ==
  /\ drain.pc = "waiting" /\ now >= drain.wake
  /\ Waits(drain)
  /\ UNCHANGED <<now, page, running, marks, test>>

Replace ==
  /\ drain.pc = "drained" /\ document < MaxDocuments
  /\ Fresh
  /\ drain' = Idle

End ==
  /\ drain.pc = "drained"
  /\ drain' = [drain EXCEPT !.pc = "ended"]
  /\ UNCHANGED <<now, page, judged, test>>

-----------------------------------------------------------------------------

(* Frames come, and timers fire, before the clock goes on. *)
Tick ==
  /\ now < MaxNow /\ ~queued
  /\ drain.pc \notin {"frames", "drained", "ended"}
  /\ drain.pc = "waiting" => now < drain.wake
  /\ now' = now + 1
  /\ UNCHANGED <<page, judged, test, drain>>

Init ==
  /\ now = 0 /\ document = 1
  /\ started = 0 /\ armed = Never /\ changed = Never /\ queued = FALSE /\ overflow = "none"
  /\ shifts = <<>> /\ running = <<>> /\ marks = {}
  /\ act = [a \in Action |-> "idle"]
  /\ own = [a \in Action |-> Never] /\ windows = {}
  /\ kind \in Kinds
  /\ drain = Idle

Next ==
  \/ Tick \/ Change \/ Arm \/ Shift \/ Observe \/ PageInput \/ Frame \/ Leave
  \/ \E a \in Action : Start(a) \/ Input(a) \/ Return(a) \/ ReturnLost(a)
  \/ Drain \/ Wake \/ Replace \/ End

Spec == Init /\ [][Next]_vars

-----------------------------------------------------------------------------
(* What the sweep is for. *)

Fates == {"unseen", "held", "input", "said", "excused"}
TypeOK ==
  /\ now \in 0..MaxNow /\ document \in 1..MaxDocuments /\ started \in 0..now
  /\ {armed, changed} \subseteq (0..now) \cup {Never}
  /\ queued \in BOOLEAN /\ overflow \in {"none", "there", "said"}
  /\ shifts \in Seq([at : 0..now, input : BOOLEAN, fate : Fates])
  /\ DOMAIN running \subseteq Action
  /\ act \in [Action -> {"idle", "acting", "acted", "done"}]

(* "An entry is the action's when it starts between the action's own input *)
(* and RECENT after its return": a shift is excused by no action's waiting *)
(* for its element, and, where an action's input landed, by no other's and *)
(* by no event of the page's own before it.  One that set off none, or     *)
(* threw, excuses from an event of its run on (347-348), which is another  *)
(* action's or the page's; only where there was none, from its return, as  *)
(* the comment at 245-246 has it of all of these.                          *)
ExcusedByItsAction ==
  \A i \in DOMAIN shifts : shifts[i].fate = "excused" => \E w \in windows : Excuses(w, shifts[i])

(* "Its last chance to report before it is replaced": a document that has  *)
(* answered a drain has judged every shift there had been when it went     *)
(* quiet, and said that it overflows if it does.                           *)
DrainedIsHeard ==
  drain.pc = "drained" /\ drain.heard =>
    /\ \A i \in 1..drain.due : shifts[i].fate \in {"input", "said", "excused"}
    /\ overflow = "there" => queued

(* "A document reaches whichever comes first": a drain goes on no longer   *)
(* than the document is given to go quiet, arming in the middle of it or   *)
(* not.                                                                    *)
DrainIsBounded ==
  drain.pc = "waiting" => now <= Latest(drain.asked, Until)
=============================================================================
