------------------------- MODULE LimiterConformance -------------------------
(***************************************************************************)
(* The conformance suite a repository's rate limiter is put through         *)
(* (limiter-conformance.ts): its cases one after the other, each on a       *)
(* flushed Redis, an attempt at a time, and last the race, every attempt of *)
(* which is launched before any is answered.                                *)
(*                                                                         *)
(* The limiter under test is one of a family: how it makes a key of an      *)
(* attempt, where it keeps its buckets, whether spending a token is one     *)
(* command, and what it does without its Redis.                             *)
(***************************************************************************)
EXTENDS Integers, Sequences, FiniteSets, FiniteSetsExt, Functions

CONSTANTS
  Limiters,  \* the family
  BOUND      \* the attempts after which a case gives up

VARIABLES
  limiter,
  used,      \* what each bucket has given: of Redis, and of each instance's own
  at,        \* the case that runs
  made,      \* the attempts of it admitted so far
  cap,       \* the measured budgets, one of each path
  failed,    \* the cases that failed
  queue,     \* the race: the commands on their way to Redis, in order
  answered   \* and what each of its attempts was told

suite == <<limiter, used, at, made, cap, failed, queue, answered>>

-----------------------------------------------------------------------------
(* An attempt: what each header says and the socket, and the path.  A       *)
(* header is absent, empty, or somebody's.                                  *)
Absent == -1
Empty == 0
Attempt == [cf : -1..2, forwarded : -1..2, junk : {1, 2}, socket : {-1, 1}, path : {1, 2}]
Arriving == [cf |-> Absent, forwarded |-> Absent, junk |-> 1, socket |-> Absent, path |-> 1]
By(who) == [Arriving EXCEPT !.cf = who]

(* The limiter's key: the first of its sources that says something, or its  *)
(* bottom; <<>> is an attempt nothing meters.                               *)
Says(a, source) == IF source = "cf" THEN a.cf ELSE IF source = "forwarded" THEN a.forwarded ELSE a.socket
Speaks(l, a, source) == Says(a, source) # Absent /\ (l.empty = "skipped" => Says(a, source) # Empty)
Key(l, a) ==
  LET heard == {n \in DOMAIN l.chain : Speaks(l, a, l.chain[n])}
      source == l.chain[Min(heard)]
      part == IF l.whole /\ source = "forwarded" THEN a.junk ELSE 0
      route == IF l.perPath THEN a.path ELSE 0
  IN  IF l.skips = a.path THEN <<>>
      ELSE IF l.everybody THEN <<"everybody">>
      ELSE IF heard = {} THEN IF l.bottom THEN <<"bottom", route>> ELSE <<>>
      ELSE IF l.empty = "exempt" /\ Says(a, source) = Empty THEN <<>>
      ELSE <<source, Says(a, source), part, route>>

Redis == 0
Spent(key) == IF key \in DOMAIN used THEN used[key] ELSE 0
Bucket(instance, a) == <<IF limiter.inProcess THEN instance ELSE Redis, Key(limiter, a)>>
Allows(instance, a) == Key(limiter, a) = <<>> \/ Spent(Bucket(instance, a)) < limiter.cap
With(key, n) == [k \in DOMAIN used \cup {key} |-> IF k = key THEN n ELSE used[k]]
Spend(instance, a) ==
  used' = IF Key(limiter, a) # <<>> /\ Allows(instance, a)
          THEN With(Bucket(instance, a), Spent(Bucket(instance, a)) + 1) ELSE used

-----------------------------------------------------------------------------
(* Mistakes: what a definition below is easily got wrong as. *)

(* The other URL is asked as the first one is. *)
SamePath(a) == a

-----------------------------------------------------------------------------
(* The cases: what is spent until it is refused, the attempt that varying   *)
(* the rest makes of it, and the one asked then, and what it shall answer.  *)
ElsewherePath(a) == [a EXCEPT !.path = 2]
Still(a) == [n \in 0..BOUND |-> a]
Case_(is, spent, instance, asked, shall) ==
  [is |-> is, spent |-> spent, instance |-> instance, asked |-> asked, shall |-> shall]
Exempt(a) == Case_("bounded", Still(a), 1, a, FALSE)
Asked(spent, asked, shall) == Case_("asked", spent, 1, asked, shall)

Cases == <<
  Case_("measured", Still(By(1)), 1, By(1), FALSE),
  Case_("measured", Still(ElsewherePath(By(1))), 1, By(1), FALSE),
  Asked(Still(By(1)), By(2), TRUE),
  Asked(Still(By(1)), ElsewherePath(By(1)), FALSE),
  Case_("asked", Still(By(1)), 2, By(1), FALSE),
  Exempt(Arriving),
  Exempt([Arriving EXCEPT !.socket = 1]),
  Exempt(By(Empty)),
  Exempt([Arriving EXCEPT !.forwarded = Empty]),
  Asked([n \in 0..BOUND |-> [Arriving EXCEPT !.forwarded = 1, !.junk = 3 + n]], [Arriving EXCEPT !.forwarded = 1], FALSE),
  Asked([n \in 0..BOUND |-> [By(1) EXCEPT !.forwarded = 3 + n]], [By(1) EXCEPT !.forwarded = 1], FALSE),
  Case_("stranded", Still(By(1)), 1, By(1), FALSE),
  Case_("race", Still(By(1)), 1, By(1), FALSE) >>

Now == Cases[at]
Open_ == at \in DOMAIN Cases /\ queue = <<>> /\ answered = <<>>
Fails(wrong) == failed' = IF wrong THEN failed \cup {at} ELSE failed
(* flush empties Redis, and no instance's own buckets. *)
Flush == used' = Restrict(used, {k \in DOMAIN used : k[1] # Redis})
Following == at' = at + 1 /\ made' = 0 /\ UNCHANGED <<limiter, queue, answered>>

(* untilRefused, one attempt admitted. *)
Admit ==
  /\ Open_ /\ Now.is \in {"measured", "bounded", "asked"}
  /\ made < BOUND /\ Allows(1, Now.spent[made])
  /\ Spend(1, Now.spent[made]) /\ made' = made + 1
  /\ UNCHANGED <<limiter, at, cap, failed, queue, answered>>
Exhausted == made = BOUND \/ ~Allows(1, Now.spent[made])

(* beforeAll, and the two cases that hold its measurements.                 *)
Measure ==
  /\ Open_ /\ Now.is = "measured" /\ Exhausted
  /\ cap' = Append(cap, made) /\ Fails(made = 0 \/ made = BOUND)
  /\ Flush /\ Following

Bound ==
  /\ Open_ /\ Now.is = "bounded" /\ Exhausted
  /\ Fails(made = BOUND)
  /\ Flush /\ Following /\ UNCHANGED cap

Ask ==
  /\ Open_ /\ Now.is = "asked" /\ Exhausted
  /\ Fails(Allows(Now.instance, Now.asked) # Now.shall)
  /\ Flush /\ Following /\ UNCHANGED cap

(* Three attempts with no Redis to ask.                                     *)
Stranded ==
  /\ Open_ /\ Now.is = "stranded"
  /\ Fails(limiter.stranded # "refuses")
  /\ Flush /\ Following /\ UNCHANGED cap

(* The race: twice the budget at once, each its first command.  One command *)
(* spends a token, or one reads the bucket and, read, another writes it.    *)
Racers == 1..(2 * cap[1])
Launch ==
  /\ Open_ /\ Now.is = "race" /\ Racers # {}
  /\ queue' = [n \in Racers |-> [who |-> n, is |-> IF limiter.atomic THEN "spend" ELSE "read", to |-> 0]]
  /\ UNCHANGED <<limiter, used, at, made, cap, failed, answered>>

Answer(who, allowed) == answered' = [n \in DOMAIN answered \cup {who} |-> IF n = who THEN allowed ELSE answered[n]]
Serve ==
  /\ queue # <<>>
  /\ LET c == Head(queue)
         a == Now.spent[0]
         tokens == Spent(Bucket(1, a))
     IN  \/ /\ c.is = "spend"
            /\ Answer(c.who, Allows(1, a)) /\ Spend(1, a) /\ queue' = Tail(queue)
         \/ /\ c.is = "read" /\ UNCHANGED used
            /\ IF Allows(1, a) /\ Key(limiter, a) # <<>>
               THEN queue' = Append(Tail(queue), [c EXCEPT !.is = "write", !.to = tokens + 1]) /\ UNCHANGED answered
               ELSE queue' = Tail(queue) /\ Answer(c.who, Allows(1, a))
         \/ /\ c.is = "write"
            /\ used' = With(Bucket(1, a), c.to) /\ Answer(c.who, TRUE) /\ queue' = Tail(queue)
  /\ UNCHANGED <<limiter, at, made, cap, failed>>

Admitted == Cardinality({n \in DOMAIN answered : answered[n]})
Raced ==
  /\ at \in DOMAIN Cases /\ Now.is = "race" /\ queue = <<>> /\ DOMAIN answered = Racers
  /\ Fails(Cardinality(Racers) < 2 \/ Admitted = 0 \/ Admitted > cap[1])
  /\ at' = at + 1 /\ made' = 0 /\ answered' = <<>> /\ UNCHANGED <<limiter, used, cap, queue>>

LimiterInit ==
  /\ limiter \in Limiters
  /\ used = <<>> /\ at = 1 /\ made = 0 /\ cap = <<>> /\ failed = {} /\ queue = <<>> /\ answered = <<>>

Conformance == Admit \/ Measure \/ Bound \/ Ask \/ Stranded \/ Launch \/ Serve \/ Raced

-----------------------------------------------------------------------------

(* "No request shape is exempt from metering, no caller's budget is anyone  *)
(* else's, and a limiter that cannot reach its Redis refuses" (21-23), and  *)
(* no more than the cap is admitted whoever races (40-46).                  *)
Promises(l) ==
  /\ \A a \in Attempt : Key(l, a) # <<>>
  /\ \A a, b \in Attempt :
       /\ a.cf > Empty /\ b.cf > Empty => (a.cf = b.cf <=> Key(l, a) = Key(l, b))
       /\ a.cf = Absent /\ a.forwarded > Empty /\ b = [a EXCEPT !.junk = b.junk] => Key(l, a) = Key(l, b)
  /\ 0 < l.cap /\ l.cap < BOUND
  /\ l.stranded = "refuses" /\ l.atomic /\ ~l.inProcess

(* The suite passes the limiters that keep the promise, and only those.     *)
PassesWhatPromises == at > Len(Cases) => (failed = {} <=> Promises(limiter))
=============================================================================
