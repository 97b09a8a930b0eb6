# A verification development for dev-config

This directory models the parts of the repository whose correctness is a matter
of order: commands, processes and callbacks that move between each other's
steps, gates that promise something over a whole history, and algorithms whose
cases nobody enumerates by hand. Each module is translated from the source it
names, TLC checks it on small instances, and TLAPS proves for every value of the
constants most of what TLC can only sample.

## The system

dev-config is a toolkit other repositories install: programs and libraries their
developers use, and the jobs their continuous integration runs.

| Part | State it keeps | Operations | Who else moves | What makes it correct |
| --- | --- | --- | --- | --- |
| `file-lock.ts` | lock, claim and holder files in one directory | `lock`, dispose | every other caller, in this process or another; kills; a hand removing a lock | one holder; a killed one costs the next nothing; no live lock touched; every call ends |
| `dev-server.ts`, `dev-server-derive.ts` | one record per worktree and branch, one log | `up`, `down`, `status`, `url`, `logs`, `sweep` | other commands, the servers themselves, strangers on ports, git | every server has a record; one per worktree; a claimed port kept; sweep takes only what is gone |
| `count-ceilings.ts`, `count-budget.ts` | the ceilings file, staging files, the meter of a page | seal, raise, verdict; the meter's counting | other test processes, the page's own callbacks | ceilings only fall, no update lost, a count is taken when the page is still |
| `interleaving.ts` | the tasks of a run, priorities, a budget | run, walk, preempt, drain, wind down | the fibers under test | what a run answers is so; what can finish is let finish |
| `invariant-sweep.ts` | per document: armed, changed, marks, held entries | drain, mark, replace | the page, the browser's observers, concurrent actions | nothing measured is lost when a document goes; no shift excused but by the action it belongs to |
| `limiter-conformance.ts` | a case, and the limiter's buckets in Redis | the cases in order, and the race | attempts in flight | it passes what keeps the promise, and only that |
| `characterization-net.ts` | golden files | assert, re-baseline, each in shards | other shards, kills, the repository between runs | green means every case pinned, and no golden besides |
| `.github/actions/_lib/change-set.ts`, `duplicate-code`, `mutation-lane` | the diff, the windows covered, a runner's report | read the change, grade it | git, the runner | green means the branch's lines were graded, all of them |
| `.github/actions/db-gate` | a checkout turned back and forth, scratch databases, an app and its counters | replay, backfill, probe, ramp, coverage, fuzz, route floor | a killed earlier run, parallel file copies, the app, its supervisor, the branch | the checkout comes back; a pass converges; the gate answers; what was served stays served |
| `.github/actions/services` | pid files, servers, a root | start, stop | ports, crashing servers, the kernel's reuse of pids | what runs is found by a stop, and no other program signalled |
| `.github/workflows/nightly-issue.yml` | one GitHub issue | search, file, comment, close | overlapping and cut-off runs | one open issue, which tells of the run |
| the rest of `_lib`, `repo-contract`, the static gates, `anti-slop`, `property`, `response-schema` | none | read, judge, report | – | functions of text, tested directly |

They meet in these places. `dev-server.ts` and the ceilings call `lock` and rely on
nothing but mutual exclusion and takeover of the dead. The same `Holder` of
`file-lock.ts` (pid, boot id, start tick) names a server in a record. Duplicate
code and the mutation lane read one change set. The ramp, the coverage floor and
the fuzzer are steps over one app's counters, and the route floor and the
contract's lifecycle check are two jobs whose verdicts keep one promise between
them.

`PROJECT.json` lists every part, its status, and the hazards each is exposed to.

## The modules

| Module | Is |
| --- | --- |
| `Mutex` | the abstract lock: what a caller of `lock` may rely on |
| `FileLock` | `file-lock.ts`, one file operation per step |
| `FileLockByHand` | the same, and a hand that removes an abandoned lock; the invariant behind its property |
| `FileLockProofs` | the theorems about `FileLock` and `FileLockByHand` |
| `DevServer`, `DevServerProofs` | `dev-server.ts` over a lock per record; its theorems |
| `CountCeilings`, `CountCeilingsProofs` | `count-ceilings.ts`, and the verdict of `count-budget.ts` that applies it to a shared file; its theorems |
| `Meter`, `MeterProofs` | the count budget's meter: a page, what is heard of it, and the wait for it to go still; its theorems |
| `Lineages`, `UpgradeGate`, `UpgradeGateProofs` | the database gate's replay and backfill: what migrations and journals say, and the runs, rollbacks and databases; its theorems |
| `InvariantSweep`, `InvariantSweepProofs` | the sweep's script in a page's documents, and the calls into it; its theorems |
| `Interleaving`, `InterleavingProofs` | a run of the schedule explorer, and its wind-down; its theorem |
| `ChangeSet` | the lines a branch wrote, read off a diff |
| `DuplicateCode`, `MutationLane` | the two gates over a change set |
| `CharacterizationNet` | goldens over runs, shards, kills and edits |
| `LimiterConformance` | the suite, on a family of limiters |
| `Probe` | the probe's command, its bound and its grace |
| `Services` | the local servers' starts and stops |
| `RouteTable`, `RouteRamp`, `RouteHistory` | routes and waivers; the database job's steps over one app; the route floor and the lifecycle over a branch's history |
| `NightlyIssue` | the filing step, by runs that overlap |
| `GatesProofs` | the theorems about `Services`, `Probe`, `RouteHistory`, `NightlyIssue`, `CharacterizationNet`, `RouteRamp`, and `DuplicateCode` and `MutationLane` over `ChangeSet` |
| `MCFileLock`, `MCFileLockByHand`, `MCDevServer`, `MCCountCeilings`, `MCMeter`, `MCUpgradeGate`, `MCInvariantSweep`, `MCInterleaving` | small instances for TLC |
| `MCGates` | the gates and steps of a run, any one of them per behaviour, on small instances |

A section of a module headed *Mistakes* holds steps as a plausible change of the
code would have them. No behaviour uses one; each is what some property refutes
when it takes the place of the definition it is named after. `TypeOK` of a module
states its variables' types. The configurations leave it out, as they check what
could be wrong; it is proved of `FileLock`, `CountCeilings`, `DevServer`, `Meter` and
`UpgradeGate`, and of the others each proof has a typing of its own in its invariant.

### The lock

A lock is taken by hard-linking a file that names its holder at the lock's path.
A holder whose process is gone is *taken over from*: a taker first takes a claim,
a lock of its own named after the dead holder's text; rechecks; moves the dead
file aside; confirms; discards it. The claim is taken by the same `acquire`, so a
dead taker's claim is taken over in the same way, as deep as processes die.

| Code | Model |
| --- | --- |
| the files at the lock's and claims' paths | `at`, from paths to texts; a path is the sequence of dead texts it is derived from, `<<>>` the lock |
| `mine`, `aside` in `acquire` and `takeOver` | `mine`, `aside` |
| nested `acquire`/`takeOver` calls | `path[w]` and its prefixes; `bottom[w]` where a sweep began them |
| the `Step`s handed to `between`, and the writes beside them | the steps of `pc` |
| `/proc`, boot id, start ticks | `alive`: a text names one process for ever |
| `finally`, `await using`, the `catch` in `lock` | `Unwind`, `ReleaseClaim`, `DropMine`, `SweepThrows` |
| SIGKILL | `Kill`: the files stay |

A holder's text is a process, not a call: two callers in one process write the
same text, as the code does (`MCFileLock!Shared`).

What is left out: errors of the file system other than the ones the code
handles (a full disk, a permission); a collision of the 4 random bytes in a file's
own name or of the hash in a claim's; an unreadable `/proc`.

### The dev server

Every invocation is an actor with a program counter; servers, strangers and git
move by themselves. A server is identified with the `up` that spawned it, since a
record's pid, boot id and start tick name one process. The lock is a guard
(`Lock`, `LockTimesOut`): its taking is `Mutex`'s `Enter` and a killed holder its
`Crash`, and `Mutex` is what `FileLock` is proved to implement.

| Code | Model |
| --- | --- |
| records in git's common directory | `records`, by stem; `Junk` for one that will not decode |
| `recordStem(worktree, branch)`, settled by `checkout` | `Stem`, `stem[c]`, `Start` |
| `stillOurs`, `isFree`, `answers` | `Running`, `Held`, `Ask` |
| `up` up to the record | `Lock` … `MustRead` |
| `awaitReady`, `refuseOffLoopback` | `StillOurs`, `Ask`, `ReadyTimesOut`, `RefuseOffLoopback` |
| `stop` | `Ours`, `Term`, `KillGroup`, `Forget` |
| `sweep` | `ListWorktrees`, `Entries`, `SweepEntry`, `SweepDone` |

What is left out: a process group outliving its leader, whose record `stop` would
remove while a process of the group still listens;
collisions of the 32-bit tag, whose refusal is a test of one field; what changes between
a sweep's listing of the records and its reading of each (`Entries` is one step); the
refusal to signal a server that leads no group, which every one here does; the log; the
contract that a dev script binds `$PORT` is taken as kept.

### The ceilings

A spec's ceilings are one committed file. Each of its tests ends in a verdict that
either holds the page's counts to the file or, as the command, lowers the file to
them. Workers of one spec take turns under a lock; a person edits when they like.

| Code | Model |
| --- | --- |
| an entry's `phases`, its `seal` | `ceilings`, `seal`: functions from slots (a count of a phase) to ceilings, and to the numbers accepted |
| a plain number, a `Raised` | a ceiling whose `was` is itself, one whose `was` is another |
| `entryAt`, `freshRaises` | `Reads`, `IsSealed` (nothing edited in place), `Raises` |
| `lowered`: its entry, its changes | `Lowered`, `Changes` |
| `verdict` | `Lock`, `Read`, `Refuse`, `Judge`, `Release` |
| `rewrite` | `List`, `Clear`, `Stage`, `Fill` (a file is there before it is whole), `Move` |
| a person, a killed worker | `Type`, `DeleteCount`, `DeleteEntry`, `Kill` |

A seal is a hash: that two seals are equal only when they seal the same numbers
of the same slots is assumed. The four counts every phase has are treated alike
by the code and are one count here; React's commits, which may be absent, are
the other. Reasons, wording, the `CI` refusal and a person who types a seal are
left out. What a test measured is any of a set here; where it comes from is the
next module.

### The meter

A phase is the test's action between two waits for the page to go still: rounds
in a row in which nothing the meter counts has moved and no request is in flight.
Its counts are the difference of the two snapshots. A document can be asked only
while it is the page's, so each reports as it goes, and the meter keeps the
largest it has heard.

| Code | Model |
| --- | --- |
| `#documents`, `#reported` | `documents`, `Reported` |
| `#pending`, `#epoch` | `pending`, from requests to the navigation each was sent under; `epoch` |
| `watching`, `#failed`, `#finished` | `Requested`, `Failed`, `ReadBody` |
| the instrument a document runs first | `Work`, `State` |
| `ROUND`, `#round`, `still` | `Ask`, `Busy` (the page answered busy), `Read`, `GiveUp`, `Refuse` |
| `#orphan` | `LeftBehind`, `StillPending` |
| `phase`, `budget` | `start`, `Act`, `end`, `Conclude` |
| `phaseCounts`: whether `reactCommits` is there | `HasReact` |

The page, the servers and a service worker act at any step of a wait: a document
works and attaches renderers, requests are sent, answered, aborted or go on
unheard of, a navigation starts, is superseded, commits, or ends without a
document. Playwright hands the meter its events, and a round's answer among them,
in the order they happened, and the meter answers none; to hear them late is
therefore to ask later, and the model hears each as it happens. Reading a body is
apart, and takes as long as it takes. Left out: React's hook turned off by the
page, WebSockets, a body read again after it fails, frames, and the numbers a
verdict makes of the counts, which are the ceilings' business. Two counts that are
kept alike, commits and mutations, are one.

### The upgrade gate

The database gate proves two ways of a schema alike: built from empty by the
branch, and deployed: built by the base ref's lineages and upgraded by the branch.
For the second it replaces the lineages of the author's own checkout with the base
ref's, migrates, and puts the author's files back, whatever happens in between.

| Code | Model |
| --- | --- |
| a migration, a lineage, a directory of one | when it was written and what it does; a set of them; a directory of a tree |
| `baseRevision`, `unreplayable`, `absentAt`, `clocksIn`, `unaccountedFor` | `BaseRevision`, `Unreplayable`, `Moved`, `Clocks`, `UnaccountedFor` |
| `bothHalves`, `replayGate`, `alongside` | `Start`, `Fresh`, `Again`, `Base`, `Judge`, `Upgrade`, `Compare`, `Beside` |
| `onTheBaseLineage` | `Save`, then per lineage, all at once, `Delete` and `Write`, or `Breaks`; `Restored` and its own |
| `inScratchDatabase`, `discard` | `Drop`, `Create`, `Discard`, around `open`, the databases in hand |
| `gradeFixtures`; `backfillGate` | `WriteRows`, `MigrateRows`, `Graded`; `Build`, `Seed`, `Backfill` |
| a killed step; the next run's checkout | `Kill`, `CheckOut` |

What the repository's migrator does is external, and modelled by what the gate
relies on: it runs what is newer than all its journal records, and fails on what the
schema has already. Dumps are compared as sets of what migrations did.

### The invariant sweep

A script that runs first in a document measures overflow once it goes quiet, and
judges layout shifts by the actions they are near. Two things may lose a finding: a document
that is replaced before it has spoken, and an action that excuses what is not
its own.

| Code | Model |
| --- | --- |
| `WATCH`: `armed`, `changed`, `flush`, `soon` | `armed`, `changed`, `Flushed`, `Soon`, and `Until`, when it is quiet |
| `judge`, `held`, `shifted` | `Judged`, `JudgeHeld`, `Shifted`; a shift's fate |
| `ACTOR`, `marked` | `Start`, `Input`, `Return`, `ReturnLost` (its document has gone), `running`, `marks` |
| `DRAIN`, `DRAINER`, `wrapOnce` | `Replace`, `Drain`, `Waits`, `Wake`, `Leave` |

`own` and `windows` are what the properties speak of and no code keeps: when each
action's own input landed (until it has, the first event of its run), and from when
to when it is answerable. A browser does
what is due on its next frame within the tick. Left out: console messages and
uncaught errors, which arrive as events; the allowlist; pages without scripts.

### The schedule explorer

One run of a program of fibers. The scheduler is asked at every op whether to give
way, and orders what is scheduled; when nothing is left to run, whatever lives is
interrupted, one drain after another, until all have ended or the budget has.

| Code | Model |
| --- | --- |
| `Run`, `tasks` | `queue`, `current`, `slice`, `ops`, `end` |
| `shouldYield` and its two strategies | `Stop`, `Preempt`, `Outrank`, `Tire` |
| `scheduleTask`, `next`, `priority`, `drop` | `Yielded`, `Pick`, `MetAll`, `MetUntil`, `Drop` |
| `drain`, `execute` | `Take`, `Begin`, `Drained`, `Answer` |
| `windDown` | `Fresh`, `Interrupt`, `Wound` |
| Effect's fibers: ops, forks, waits, interruption, finalizers, a fiber queued once (`_running`) | `Sync`, `Yield`, `Schedule`, `Wait`, `Unwind`, `Finish`, `Over`, `Woken`, `Interruptible` (external) |

Seeds and the arbitrary that draws interleavings are left out: every choice is
taken.

### The change set, duplicate code and the mutation lane

`branchChange` reads one `git diff` against the base line by line; git is external,
with the ways it may print a file (renamed, quoted, cut short, without a hunk).
`DuplicateCode` looks at each window of each changed file, finds it in every file, grows it,
marks what it covers, and reports or keeps it; `Judged` is `reportedAs` with the
periods of a run that repeats itself. `MutationLane` declares the domain, starts
the runner, and reads its report as `verdict` does. A line is one of two texts or
a directive, which stands on a line of its own; how a line is normalised, and the
wording, are left out.

### The golden net

`assertNet` and `rebaselineNet`, case by case, alone or in shards. `Die` may cut any
shard, and `Edit` changes between runs the cases, what they do, their names or the
normaliser. A driver that runs a matrix and is green when each of its shards is
(`Green_`) is external: `assertNet`'s comment asks for it. Serialisation is `Text_`,
and a golden that does not read is `Torn`.

### The limiter's suite

Every case of `conformsAsLimiter` is an entry of `Cases`: what it exhausts, and
what each attempt shall then get. The race launches every attempt and lets Redis
serve their commands in any order (`Launch`, `Serve`, `Raced`). The limiter is one
of a family, told apart by what may be wrong with one: the order of its sources,
an empty header, a path of its own, a whole forwarded list, a read before a write,
a memory of its own, what it does without Redis. No budget refills during a case.

### The probe

The command is a shell and what it starts; `grouped` and `holding` say who dies with
the group and who holds its output. The gate's own steps are `Collected`,
`Overrun`, `KillGroup`, `Salvage`, `Finish`. That the child is in its group before
anything else happens is assumed: `setsid` is the first thing it does, and a bound
takes seconds.

### The services

`start` and `stop` step by step, `start` cut off anywhere, `stop` thrown out of by a
server that outlives SIGKILL. A pid whose server is gone may belong to somebody
else (`Inherit`), of the same program too, and `runs` asks what program it is. A server
is `launched` before it writes its pid file (`Name_`), and start may be cut off and
stop come and go in between: `missed` remembers whom a stop went past so. In the seconds
a stop waits for a pid to end, the kernel is taken not to give it away again.

### The routes

`RouteTable` has what the floors share: a route's key, what answers a request, and
how a list of reasoned exceptions is graded. `RouteRamp` is the database job over one
app: `Poll`, `FetchBefore`, `RampRequest`, `FetchAfter`, `Coverage`, `Fuzz`, and
restarts, which reset the counters. `RouteHistory` is the promise between commits:
`Contract` is the lifecycle check, `Compatible` the route floor, and a commit lands
when both are green, or red by a person who may (`LandAnyway`), or is turned back.

### The nightly's issue

Search, then one request at a time: `FileIssue`, `CommentOldest`, `CloseNext`. Four
runs overlap, fail in the middle or are cut off. `crossed` marks the runs under
which another has written, of which nothing is promised (the workflow accepts it).

## What is checked

Every passing run is exhaustive within its bounds. Symmetry is used where actors
are interchangeable, and in no run that checks liveness.

| Run | Distinct states | Bounds | Shows |
| --- | --- | --- | --- |
| `lock` | 1,127,277 | 3 processes, symmetric; whatever an earlier boot left (a dead lock, junk, dead claims); endless patience; 1 kill | `OneOwner`, `LiveLockStays`, `StaleClaimsCleared` |
| `lock_ends` | 345,830 | 2 callers in one process, one patient for one poll, 1 in another; 1 kill; a sweep that may throw; fair | `ImplementsMutex`; `EndedHoldsNothing`; `EveryCallEnds` |
| `lock_hand` | 502,478 | 3 processes, a dead lock removed by hand, no kill | `OverlapIsNoticed` |
| `dev_ups` | 133,122 | 3 `up`s in one worktree, symmetric; 2 ports, one of them a stranger's at times; a dead or junk record before; 1 kill; a second worktree added, either removed | `EveryServerNamed`, `OneServerPerWorktree`, `ClaimStays` |
| `dev_all` | 72,110 | an `up` and a `down` in one worktree, a `sweep` in another; leftovers in both; removals, a branch switched; fair | `ForgetsOnlyTheGone`, `SweepSparesTheLiving`, `EveryCommandEnds` |
| `dev_forgotten` | – | two `up`s and a `down` | `RecordOutlivesServer` violated, see below |
| `ceilings` | 1,654,453 | 2 writers of two tests and a check of the first, each over 1 to 5 measures, 2 phases, numbers up to 2; three files to start from; a dead worker's staging file; 1 edit, 1 kill | `OnlyExplainedRises`, `NothingLost`, `CheckAgreesWithCommand`, `WrittenIsSettled` |
| `meter` | 5,858,908 | one phase from `about:blank` over two documents; 2 idle rounds of at most 4; 2 marks, 3 requests; every navigation brings a document or is superseded (`Barren = FALSE`) | `CountsAreWhole`, `StillIsAnswered`, `ReactWhereItRan` |
| `upgrade` | 5,094,380 | 35 pairs of a base's tree and a branch's, up to two lineages and a directory added beside or inside one; 2 runs, 1 kill; any lineage's replacing or putting back may fail; no clock copied (`Copied = FALSE`) | `TreeComesBack`, `PassConverges`, `ScratchIsReclaimed` |
| `sweep` | 5,077,264 | 2 actions, symmetric, both of one kind; windows, quiet and tick of 1, a cap of 2, moments 0 to 2; 1 shift; 2 documents | `ExcusedByItsAction`, `DrainedIsHeard`, `DrainIsBounded` |
| `interleaving` | 169,253 | eleven programs of a root and two daemons; 3 choices of a walk, priority lists up to 3 long; 28 ops; a slice of 3 | `AnswersTruly`, `FinishesWhatCan` |
| `gates` | 1,219,503 | one gate per behaviour, below | the eleven of the gates |

`gates`' own bounds: two files of at most 5 lines and a generated one, windows of
2 lines (`CleanMeansNone`, `EachReportHolds`); at most 2 mutants, five
declarations of the domain, a floor or none (`GreenMeansGraded`); 3 cases, 2
behaviours, whole or in two shards, an edit and a death (`GreenIsPinned`);
every key of the family on a sound store and every store with a sound key, a case
bound of 3 (`PassesWhatPromises`); a shell and two processes, one line said
(`ProbeVerdictStands`, `ProbeAnswers`); two servers, 2 ports tried each, 2 starts
(`RunsUnderARoot`); two paths, two methods, 4 requests, a restart, 2 questions per
route (`GreenMeansReached`); the tables and snapshots of those, green, red and
turned back without a bound on how many (`RoutesOutlive`); 4 nightly runs, of which
only what they came to tells them apart, so that each set of results is dealt once
(`OneIssueTells`).

Why these suffice. Three processes are what a takeover needs to go wrong: a dead
holder, a taker between two steps, and somebody who takes the lock in between. The
stale holder of an earlier boot is the first dead one, so that the kill makes a taker
the second, and with it a claim on a claim. Three commands are what a record
needs: the one that wrote it, one acting on it, and one replacing it. `Patience`
beyond one poll only repeats a state. One edit reaches every difference between a
file and its seal that one slot can show, and lands between any two steps of a
writer; a raise needs three numbers. Two idle rounds are the fewest in which one
can be lost after one was won; two documents beside the blank one let one come and go
inside a phase, and three requests are a navigation, what a document sends, and a
second navigation that leaves it behind. A second run is what meets what a killed
one left, and two lineages are the fewest of which one is replaced and one is not.
Two actions are the fewest that can excuse each other's shift, and a second document
is what a drain is for. Two daemons beside a root let one wait for the other while
the root waits for both; 28 ops let each of the three finishing programs finish under
any three choices, and run the endless ones out. Five lines are the fewest in which a
run of one period overlaps itself and leaves a window beyond. A restart, and a poll
of somebody else's on each side of it, are what a difference of counters can be fooled by.
Three nightly runs are two that overlap and one that meets what they left.

Deadlock is checked in every run but `sweep`, where the test may be over and the
bounded clock stops.

### Fairness

`FairSpec` of `FileLock` asks weak fairness of each caller: every file operation
settles, and every caller holds the lock with `await using`, so disposes it.
Processes are never forced to die. `FairSpec` of `DevServer` asks weak fairness
of each command, and strong fairness of the deadline in `awaitReady`: the loop
compares the clock on every turn, so it cannot go round for ever without the
deadline passing. `MCGates` asks weak fairness of the probe's gate alone: its
timers fire and a killed group's end is reported. Nothing is asked of the probe's
command, of servers, strangers or people, and no other module states fairness.

### Where code and words disagree

**`dev_forgotten`** has TLC show one: `stop`'s comment says that a record is
removed only once its process is proven gone; `down` and `sweep` hold no lock, and
the record they drop last may be one an `up` has just written for a server that
runs.

The models reach these too. Each shows when the named constant is changed; the runs
hold it at the value under which the rest can be checked.

- `DevServer`, two branches and `Restless = {w1}`: the branch is part of the stem
  (`dev-server-derive.ts:71-75`), so a worktree whose branch was switched gets a second
  server, and nothing reaches the first: `OneServerPerWorktree` fails.
- `DevServer`, a kill and no record: without one there is no claimed port to
  refuse, so the next `up` steps over the port an orphan holds
  (`dev-server.ts:463-464`).
- `Meter`, `Barren = TRUE`: `#orphan` (`count-budget.ts:388-397`) drops what any
  navigation but the newest to *start* had sent, once the document has changed. One
  that brings no document (a download, a 204) has replaced nothing, and the page
  is called still with a request in flight: `StillIsAnswered` fails.
- `UpgradeGate`, `Copied = TRUE`: journals do not name their lineage, so one the
  branch adds with the clocks of one it stopped naming accounts for it:
  `PassConverges` fails.

And these are in the models as the code has them, or just beyond: no property
asks otherwise, or the one that would names it as its exception.

- `UpgradeGate`: lineages are replaced with `Promise.all` (`base-lineage.ts:276-286`),
  which throws at the first failure and waits for no other. The restoring then runs
  beside a replacement that is still under way, which may write the base ref's files
  over what was put back, after the copy is deleted; 248-249 promises the tree
  "exactly as it found it". `TreeComesBack` excepts those lineages alone (`late`), and
  only where the run has failed; without the exception TLC refutes it.
- `FileLock`: the put-back after a removal by hand is silent when the displaced holder
  releases first, because release removes whatever is at the path.
- `DevServer`: `awaitReady` reports a child that has not bound its port yet as ready
  on a stranger's answer; and `sweep` reads the worktrees before the records, so that a
  worktree added and brought up in between loses its server.
- `InvariantSweep`: an action that sets off no input, or throws, still sends its end
  mark (`finally`, `invariant-sweep.ts:562-564`), and its window opens at the last event
  of its run (347-348), another action's or the page's own; 245-246 says at "its return
  if it set off none". `ExcusedByItsAction` lets such an action excuse from an event of
  its run on, and an action whose input landed from nothing earlier than that input.
- `DuplicateCode`: "at most one reported clone with any one other file"
  (`duplicate-code.ts:292-293`) is not so: `xxxy` and `xxy` have two. And a kept run
  covers a window that matches elsewhere in the same pair, where nothing is kept.
- `MutationLane`: a file whose name has braces may resolve to another, and is then
  unmutated without a word, where 429-431 says it is refused by name. The model has it
  (`p` is not in `Expressible`); `GreenMeansGraded` asks of such a file only that its
  pattern reached one.
- `LimiterConformance`: a limiter keyed on the edge's header and the socket at once
  passes, for no case varies the two apart, and is not in the family; a refill between exhaustion
  and the next attempt would fail a limiter that conforms.
- `CharacterizationNet`: a normaliser that changes more when applied twice would be
  re-baselined green and asserted red (assumed away by `Normalisers`); an unblessed
  re-baseline writes new goldens, where `docs/exports/characterization-net.md` says
  it writes nothing; a driver with fewer shards than the count it names misses cases.
- `Probe`: a background process that holds the pipe makes a finished command "still
  running"; a clean command may leave one that closed its output.
- `Services`: a pid reused by another job's server of the same program is signalled,
  since `runs` tells programs apart and not servers, where 83-84 says that "a stop must
  never signal that"; a server whose start was cut off before it had written its pid file
  lives on past a stop that finds nothing (253-254), though 215-219 leaves it to stop.
  The model has both, and `RunsUnderARoot` excepts them. A stop that throws on
  Redis does not stop PostgreSQL.
- `RouteRamp`: fuzzing an unwaived `ALL /x` may send a method whose own route is
  waived (`fuzz.ts:373-378`, and 486-493).
- `RouteHistory`: a checkout too shallow to have the base lets `live` go down; a red
  landing makes the next run answer to the red commit's snapshot; the verdict of a
  pull request when the branch has moved since is not modelled.
- `NightlyIssue`: two overlapping runs may file two issues (156-160 accepts it), and
  a comment may land on an issue that a green run has just closed.

## What is proved

Forty-six theorems, in eight modules. Every property of a run is proved but those named at
the end of this section. Hardly one is inductive as the run states it; what follows says
what had to be added to each, and why.

### The lock

`FileLockProofs` proves, for any finite or infinite set of processes and callers,
any leftovers, any patience, and any number of kills: type correctness, mutual
exclusion, at most one owner of every claim, that an owned file is in its place
and names its owner, that untouched by hand nothing ever has to be put back,
that a live process's file leaves its path only by that process's release
(an action property), and that `FileLock` implements `Mutex`.

Exclusion alone is not inductive: whether a taker may move the file depends on
nobody else being about to, which depends on its claim being exclusive, which is
the same statement one level down. `IInv` therefore speaks of all levels at once:

1. `TypeOK` and `Nested`: where a caller stands in its nested calls, and that its
   process lives;
2. `JudgedDead`: whatever it is taking over from, at every level, is dead, and the
   dead stay dead;
3. `MovesTheDead`: between recheck and move the file it checked is still there,
   since only the claim's owner moves it and no live process wrote it;
4. `NamesItsOwner` and `OneOwner`: a path owned has the owner's text, and one owner.

From 4, a `link` cannot succeed where somebody owns; from 2, a move never hits an
owner's file; from 3, what was moved is the dead holder's, so nothing is put back.
`Inductive` is the step; the other theorems follow from it and one step each.

What a call leaves behind has an invariant of its own on top, `Tidy`: a live
process's file is at its path only while one of its calls owns it (`LiveIsOwned`);
what a call has beside the lock is what its nested calls account for, level by level
(`FilesNested`, `AsideInHand`); and a sweep has every claim of a holder that was gone
before anybody began on its list, until it is cleared (`SweepMissesNone`). From it,
that a call that is over holds nothing (`NothingLeftOver`), and that who holds the
lock has cleared those claims (`SweepsClear`): the `finally` blocks and `await using`,
for takeovers nested as deep as processes die.

With the hand of `FileLockByHand`, `IInv` is false: a taker may move a live holder's
lock. It comes apart into the half about the claims, `CInv`, which no hand touches and
which holds with kills (`ClaimsOutlastTheHand`), and the half about the lock itself,
`LockInv`. The claims being exclusive, one taker at most is between its recheck of the
lock and its discard (`Moves`); what it has yet to move is the dead holder's or a live
one's that has come since (`InHand`). And the holders are counted (`HoldersCounted`):
one, with its file in place, unless a taker has a live holder's lock to put back, and
then at most two, and one while there is no file, since the next to link would be a
third. The put-back may fail; then the taker says so, which is for ever, and nothing
more is claimed. So no two callers hold the lock in silence (`NoOverlapIsSilent`).

That is while no process dies (`MaxKills = 0`), and the hypothesis is the code's: a taker
killed between its move and its put-back never says anything. Nor is it enough that the
takers live: a displaced holder's release removes, by name, the file of whoever has
taken the path since; if the lock it should have released is put back after it, and
its process ends, the next caller takes that over while the other still holds.

The assumptions are `FileLockAssumption` alone: texts of processes, of the dead
and of junk differ.

### The ceilings

`CountCeilingsProofs` proves, for any workers, tests, phases, measures, edits and
kills, every property the `ceilings` run checks: types, the staging
(`StagedAlone`), that a rise is always a person's and in the form (`Explained`),
that no worker takes back what another's command accepted (`LosesNothing`), that
the check and the command are one judgement (`OneJudgement`), and that what is
written is settled (`Settled`). None is inductive alone. `IInv` adds what they lean
on: `OneHolder`; `Writes`, that a run past its judgement writes and found an
acceptable entry; `StillThere`, that between a holder's read and its write nobody
seals anything, so the seal it judged by is the seal it replaces; and
`StagedSoFar`, what lies beside the file at each step of `rewrite`. The rule itself
is proved slot by slot: `LoweredSlots` gives what a lowered entry holds,
`ChangesParts` when a list of changes is empty, and the two verdict theorems meet
there. The assumption is `CeilingsAssumption`: types, and that every phase measured
has the counts every phase has.

### The dev server

`DevServerProofs` proves, for any commands of any kinds, worktrees, branches, ports,
strangers, leftovers and kills: types; that a record is dropped only once the process
it named is gone (`ForgetsTheGone`); that a claimed port stays the stem's
(`ClaimsStay`); and that a sweep kills no server of a worktree that was there when it
began (`SweepsSpare`). What a command has read and what is in the file come apart as
soon as it holds no lock, so `Inv` says of each command what its reading is still worth:
one holder per stem, under whom a record may go but no other comes in its place
(`NobodyElseWrites`); what a stop has seen ended is over (`SeesTheEnd`); and what a sweep is
stopping is of a worktree it did not list, where it listed all that were there
(`SweepsTheGone`).

Three more are of commands that are all `up`s (`AllUps`): every server that runs and
whose `up` was not killed is named by a record (`ServersAreNamed`), its record stays
(`RecordsOutlive`), and, where no branch is switched (`Restless = {}`), a worktree has
one such server (`OneEach`). The hypotheses are the code's own limits, not the proof's: with a
`down` the second is what `dev_forgotten` refutes, and a switched branch is another
stem, which is another server. `UpsInv` adds that what an `up` read is still the
record, and that a server is named by its own.

Assumed: `DevServerAssumption` and `RecordsAssumption`, that a stem has at least one
port to try and that what is there before names nobody who runs.

### The meter

`MeterProofs` proves all three properties of its run, for any page, bounds and
number of idle rounds. `Inv` holds the meter and the page together: what is heard of a
document is all it has done, since the task that does it ends in a report
(`HearsAll`); the meter's request count is the number of requests but a service
worker's (`CountsAll`). `BeganWhereItSays` is what makes two snapshots enough for
`reactCommits`: the renderers of the first are some set of documents up to the one
it was taken in, as many as it says, and whoever attached one since lies from there
on. So there are more at the end exactly if one was attached (`MoreAreHeld`).

`StillMeansAnswered` needs a second invariant, `Waits`: a request of the document's own
that is not settled is pending under the newest epoch, or a navigation is, and then it
is waited for; a service worker's is always pending; and what was answered is counted,
is being read, or is a refusal owed. It is proved where every navigation
brings a document (`Barren = FALSE`); TLC refutes it otherwise, as below the table
above, because an epoch then passes with the document still there. `MeterAssumption`: there
is at least one idle round.

### The upgrade gate

`UpgradeGateProofs` proves, for any trees, lineages, runs and kills: types; that a run
is never refused the name of a scratch database and leaves none but what it said
(`ReclaimsScratch`), by `InHand`: a database on the server is the declared one, in the
run's hand, or left and said, and a name is free by the time it is created; and that a
run which was not killed leaves the author's tree as it found it or says what it could not
put back (`PutsTheTreeBack`). For that `Whole` follows each lineage's own task through
replacing and restoring, all at once: while any is replaced the copy holds all they can
reach, and the rest of the tree is as found (`CopyIsWhole`); and during the restoring
each path within reach is as found, or of a lineage that is not yet back (`PutBack`).
A lineage still being replaced when the restoring begins is named by `late`, which no
action reads: what is written late is within those lineages (`WritesHaveEnded`), and
such a run fails (`LateOnesFail`). So the theorem excepts what those reach and nothing
else, whatever the number of lineages.
`UpgradeAssumption`: the histories are trees.

### The invariant sweep

`InvariantSweepProofs` proves, for any windows, caps, documents, shifts and number of
actions: that a drain ends when the document's time to go quiet does (`WaitsNoLonger`),
and that a document which has answered has judged every shift there had been, and
said that it overflows if it does (`HearsTheDrained`); both from `Listens`: a drain's
wake-up is never past the time there is, what it took is judged and stays so, and an
overflow not yet said is on the next frame. And that a
shift is excused only within its action's window (`ExcusesItsOwn`), from `Attributes`:
every mark the code keeps is covered by a window that no code keeps, because what an
action has heard is no earlier than `own` says (`RunningKnows`). An action that set off
no input, or threw, is there with the window the code gives it, from an event of its
run that is not its own (see where code and words disagree). The theorem is of
actions all of one kind (`OneKind`), as is the run: a scripted action among trusted ones
takes the trusted input of another for its own (`invariant-sweep.ts:239-245`, 347-348),
and TLC refutes the mixture.

### The schedule explorer

`InterleavingProofs` proves that a run's answer is true (`TellsTruly`), for any program
of finitely many fibers that does not fork its own root, any interleaving and any budget.
The invariant has what makes a silent queue mean something: `OnItsWay`, that whoever can
go on is queued, an interruption that reaches a waiting fiber included; `OneAtATime`;
`DrainsDry`, that between drains nothing is left to run, unless the ops have run out; and
`RootIsTold`, that what the root came to when the drain ended is what is answered.

### The gates

`GatesProofs` proves nine, each about its own component's specification.

- `RunsAreFound` (`Services`): a server that runs has its pid file under a root or is about to
  write it there, over starts cut off anywhere, unless a stop went past it before it did;
  and what is signalled for a server is of its program, whoever inherits a pid
  (nothing is assumed of `Heirs`). `StopsInOrder` says what is left when the root goes.
- `VerdictStands` (`Probe`), from `EndStays`: once the gate has seen the output end, nobody
  holds it, since who does not hold it starts nobody who does.
- `RoutesStay` (`RouteHistory`): a route once promised stays answered over every history.
  `PromiseStands` says what the tip carries: a promise is answerable by its table and
  its snapshot is that table's, so that the floor's and the lifecycle's answers, given
  apart and for the same commit, meet. `BaseIsFound` is its hypothesis: a checkout too
  shallow to have the base is asked nothing by the lifecycle check (`live.ts:108-116`).
- `NightsLeaveOne` (`NightlyIssue`), from `SearchStands`: for a run under which nobody else has
  written, what is open is what its search found and it has not yet dealt with.
- `RoutesAreReached` (`RouteRamp`): green means reached, whoever else asks the app and
  whenever it starts again. `RampsOwn` says of each request counted more often than
  before the ramp that the ramp sent it. What a route has taken is a sum over
  the requests it is credited with, and a larger sum has a larger part
  (`SumsAreOrdered`, by the size of the set that is summed: the recursion inside the
  community modules' fold is shown to have a solution first, `SumExists`);
  whoever is credited answers (`CreditedAnswers`). `InTurn` is the round robin:
  each route up to the one asked last has been asked once more than the rest.
  `RampAssumption`: the app has finitely many paths, and a table is a list of routes.
- `GreenPinned` (`CharacterizationNet`): green means pinned, over any shards, deaths, edits and
  re-baselines. `WalksItsSlice` and `ReportsAll` follow a shard through its slice;
  the slices of a matrix that is not refused cover every position. `NetAssumption`: they do,
  which `assertNet` asks of its driver, and a normaliser applied twice is one applied once.

The last three are about gates over what git prints of a branch: any finite set of files, any
lines written in them, any names quoted and any order of the sections (`ChangeAssumption`:
a line is a positive number, and a branch writes finitely many).

- `ReportsAreClones` (`DuplicateCode`): what is reported is a clone. `Founded` says it of
  everything judged so far, reported or kept; a window that agrees, extended both ways, agrees all
  along (`ExtendedShares`), and of a run that overlaps itself the two periods told agree,
  do not overlap, and the first holds a line of the branch's (`NeighboursHold`).
- `WhatIsCleanStandsAlone` (`DuplicateCode`): a clean answer leaves no clone of the branch's
  unsaid. It has two halves. *The diff is read whole*: git's sections lie apart (`LaidOut`);
  after k lines what is known of each is what those k said (`Halfway`); so at the end
  `changed` is what was written, unless a problem was counted (`AllIsKnown`). *The walk leaves
  nothing behind it*: each window that is behind and due a report has one, or the
  one it stands with does (`Behind`), and what is skipped as covered is covered by something
  judged (`CoversSay`), since a match looked for from one end may have been found from the other.
  `ClonesAssumption`: a tree is a sequence of lines per file, and a window is not empty.
- `WhatIsGreenWasGraded` (`MutationLane`): a green lane was graded, from `AllIsKnown` and
  `LaneJudged`, that the verdict is the one of the report and the change it still holds.
  `LaneAssumption`: where a name can be expressed (`Expressible`), its literal pattern resolves
  to its own file or to nothing; of the names that cannot, with braces or an exclamation
  mark, nothing is assumed, and only that something was reached is promised (above).

Hunks, sections and entries are sequences laid end to end by the community modules'
`FlattenSeq`, whose recursion is again shown to have a solution first (`FlattenExists`),
after which `FlattenIsJoined` says what stands where in it; `SetInTurn` says the
same of a set taken in some order.

### What stays with TLC

- **Liveness** (`EveryCallEnds`, `EveryCommandEnds`, `ProbeAnswers`) and `ENABLED` are beyond
  this prover. So is `FinishesWhatCan`: it is about particular programs and the moves
  they have, not about every program.
- **`PassesWhatPromises`** is about a particular list of cases and a particular family of
  limiters: checking them all is its proof.
- **`PassConverges`** is false in general (a copied clock, above); of which trees it is
  true is not worked out.

## The plan

Every component of the table above but the last row is modelled. What is left is in
`UpgradeGate`: the trees `PassConverges` is true of, and its proof for those.

## Not modelled

- **Capacity and timestamp reports**: each is one pass over one document.
- **The gate library, but for** the base revision (`Lineages`, `RouteHistory`), the
  allowlists (`RouteTable`) and the change set: it parses comments, scripts and manifests, and prints
  annotations.
- **The repository contract and the static gates, but for** the lifecycle check
  (`RouteHistory`): files compared with fixed expectations, one by one, with no state
  and nothing beside them; what could be wrong is in the reading of text. The data jobs
  of `live.ts` read systemd's units, whose own rules would be the model; read beside
  those, the code takes the first `Unit=` where systemd takes the last, reads over a
  line that resets a list, and accepts `OnUnitActiveSec=` alone.
- **Lint rules and shared configurations**: rules over syntax trees, and data.
- **Property testing and response schemas**: wrappers over libraries.
- Of the modelled parts, what each section above names as left out.

Every hazard listed in `PROJECT.json` has a property; a note says what of it the property leaves out.
