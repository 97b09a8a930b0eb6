---------------------------- MODULE NightlyIssue ----------------------------
(***************************************************************************)
(* The filing of a nightly (nightly-issue.yml): each run searches the open *)
(* issues of one title, and then files, comments or closes one request at  *)
(* a time.  Runs overlap, fail in the middle and are cut off; nobody holds *)
(* a lock.  Of an issue a model needs its number, which is its place in    *)
(* the sequence, whether it is open, and which red runs it tells of.       *)
(***************************************************************************)
EXTENDS Naturals, Sequences, FiniteSetsExt

CONSTANT Night   \* the runs, and the runs of the same nights again

VARIABLES
  issues,     \* per number: whether it is open, and what it tells of
  result,     \* per run: what the check came to
  filing,     \* per run: "check", "searched", "closing", "done" or "failed"
  matching,   \* per run: the open issues its search answered, not yet dealt with
  crossed     \* the runs that another has written an issue under

nights == <<issues, result, filing, matching, crossed>>

OpenIssues == {i \in DOMAIN issues : issues[i].open}
Red(n) == result[n] = "failure"
Green(n) == result[n] \in {"success", "skipped"}
Midway == {n \in Night : filing[n] \in {"searched", "closing"}}

(* Past the comment, or with none to make. *)
Closes(n) == filing[n] = "closing" \/ (filing[n] = "searched" /\ Green(n))

Move_(n, to) == filing' = [filing EXCEPT ![n] = to]

(* An issue written by n is written under every other that has searched.   *)
Writes_(n) == crossed' = crossed \cup (Midway \ {n})

-----------------------------------------------------------------------------
(* Mistakes: what a definition below is easily got wrong as. *)

(* A search that did not answer is an answer of none. *)
AnswersNone(n) ==
  /\ filing[n] = "check" /\ (Red(n) \/ Green(n))
  /\ Move_(n, "searched") /\ matching' = [matching EXCEPT ![n] = {}]
  /\ UNCHANGED <<issues, result, crossed>>

-----------------------------------------------------------------------------
SaysNothing(n) ==
  /\ filing[n] = "check" /\ ~Red(n) /\ ~Green(n)
  /\ Move_(n, "done")
  /\ UNCHANGED <<issues, result, matching, crossed>>

Search(n) ==
  /\ filing[n] = "check" /\ (Red(n) \/ Green(n))
  /\ Move_(n, "searched") /\ matching' = [matching EXCEPT ![n] = OpenIssues]
  /\ UNCHANGED <<issues, result, crossed>>

Unanswered(n) ==
  /\ filing[n] = "check" /\ (Red(n) \/ Green(n))
  /\ Move_(n, "failed")
  /\ UNCHANGED <<issues, result, matching, crossed>>

(* The issue may be there though the answer that it is was lost. *)
FileIssue(n) ==
  /\ filing[n] = "searched" /\ Red(n) /\ matching[n] = {}
  /\ issues' = Append(issues, [open |-> TRUE, tells |-> {n}])
  /\ Writes_(n)
  /\ \E to \in {"done", "failed"} : Move_(n, to)
  /\ UNCHANGED <<result, matching>>

(* The oldest gets this run, whether or not it is still open by now. *)
CommentOldest(n) ==
  /\ filing[n] = "searched" /\ Red(n) /\ matching[n] # {}
  /\ LET oldest == Min(matching[n])
     IN  /\ issues' = [issues EXCEPT ![oldest].tells = @ \cup {n}]
         /\ matching' = [matching EXCEPT ![n] = @ \ {oldest}]
  /\ Writes_(n)
  /\ Move_(n, "closing")
  /\ UNCHANGED result

(* The next is closed, a duplicate or no longer red, after a comment. *)
CloseNext(n) ==
  /\ Closes(n)
  /\ matching[n] # {}
  /\ LET next == Min(matching[n])
     IN  /\ issues' = [issues EXCEPT ![next].open = FALSE]
         /\ matching' = [matching EXCEPT ![n] = @ \ {next}]
  /\ Writes_(n)
  /\ Move_(n, "closing")
  /\ UNCHANGED result

Filed(n) ==
  /\ Closes(n)
  /\ matching[n] = {}
  /\ Move_(n, "done")
  /\ UNCHANGED <<issues, result, matching, crossed>>

(* A request refused, the ten minutes over, or a run that is cancelled. *)
CutShort(n) ==
  /\ n \in Midway
  /\ Move_(n, "failed")
  /\ UNCHANGED <<issues, result, matching, crossed>>

NightsInit ==
  /\ issues = <<>> /\ crossed = {}
  /\ result \in [Night -> {"failure", "success", "cancelled"}]
  /\ filing = [n \in Night |-> "check"] /\ matching = [n \in Night |-> {}]

FileNights ==
  \E n \in Night :
    \/ SaysNothing(n) \/ Search(n) \/ Unanswered(n)
    \/ FileIssue(n) \/ CommentOldest(n) \/ CloseNext(n) \/ Filed(n) \/ CutShort(n)

-----------------------------------------------------------------------------
(* "One issue per repo": a run that ends well, and that no other wrote an  *)
(* issue under, leaves one open issue, which tells of it, if it was red,   *)
(* and none if it was green, whatever the runs before it left, however     *)
(* they overlapped and wherever they stopped.                              *)
OneIssueTells ==
  [][\A n \in Night \ crossed : filing[n] # "done" /\ filing'[n] = "done" =>
       /\ Red(n) => \E i \in DOMAIN issues' :
                      /\ n \in issues'[i].tells
                      /\ \A j \in DOMAIN issues' : issues'[j].open <=> j = i
       /\ Green(n) => \A j \in DOMAIN issues' : ~issues'[j].open]_nights
=============================================================================
