# Maestro, specified

Maestro (`src/maestro/`) takes sets of programming problems from a watch folder, has
them built by Polygon through a local service (the Middleman), uploads them to the
ElectiCode platform with a browser tool (the Scraper), runs a chain of chores over
them and audits the result. It is one process: a loop, one worker thread, a small
web dashboard and a SQLite store. Nothing in it is distributed, and everything hard
about it comes from three places: the outside services take minutes and may fail,
forget or answer late; Maestro may be stopped between any two store writes; and
three threads write the same rows.

This directory holds TLA+ models of that system, TLC configurations that check them
on small instances, and TLAPS proofs. Run everything from here:

    tlc -workers 2 -config PolygonLane_batch.cfg PolygonLane
    tlapm PolygonLaneProofs.tla      # and ElectiCodeLaneProofs, SchedulerProofs,
                                     # AuditProofs, ChoresProofs, IngestProofs, ToolRunProofs

`PROJECT.json` lists the runs, the findings, the hazards, and for every definition
that models code the lines it models.

## 1. Inventory

| Component | Source | State | Operations | Status |
|---|---|---|---|---|
| Job store | `store.py`, `model.py` | tables `runs`, `problems`, `events`; one transaction per call | `create_run`, `set_run`, `set_problem` (resets `attempts` with the stage), `bump_attempt`, `clear_job`, `quarantine`, `block`, `approve`, `delete_run`, `log` | partly: its rows are the modules' variables, its transactions their steps |
| Ingest, feedback | `ingest.py`, `feedback.py` | nothing of their own but the correction files | is the folder complete, parse, create the run and rows; ask for corrections, withdraw the request | `Ingest` |
| Polygon lane | `polygon_lane.py` | the job id between answer and save; the extraction in progress | import, poll, retry, quarantine, download, extract, hand over | `PolygonLane` |
| Polygon client | `polygon.py` | none | HTTP calls, `decide` (RETRY, RESUBMIT, HALT, WAIT) | folded into `PolygonLane` |
| ElectiCode lane 6 to 7 | `electicode_lane.py:503-780` | the run as read at the start of the step; `chores-<group>-done.json` | session check, approval gate, preview, upload, reconcile, chore chains, setbacks | `ElectiCodeLane` |
| ElectiCode lane 8 | `electicode_lane.py:784-1002`, `preflight.py` | artefact files | scrape, compare limits, divisions, list, completeness | `Audit` |
| Scraper client | `scraper.py`, `electicode_lane.py:52-251` | per call: three threads, two streams, the clock of silence, the reporter's count | run a tool, relay its lines and its silence, kill it at its timeout, classify its exit, read from its events what a resume may skip and repeat | `ToolRun` |
| Characteristics | `characteristics.py` | none; the delivered file and `characteristics-<group>.md` | parse, check against the manifest, cut down to a group, render | `Chores` |
| Settings, divisions | `settings.py`, `divisions.py` | three columns of `runs` | normalise, store, what an unset choice means | `Chores`, `Audit` |
| Scheduler | `scheduler.py` | worker thread, `_worker_run`, results queue, the mind's stamps | tick, pump, crash handler, diagnose, stop | `Scheduler` |
| Dashboard | `dashboard.py` | none | approve, resume, forget: each a read, then a write; change a setting | `ElectiCodeLane`, `Scheduler`, `Audit`, `Chores` |
| Mind | `mind.py` | none (its stamps are the scheduler's) | diagnose a stopped run, perhaps act | `Scheduler` |
| Command line | `__main__.py` | none | start, stop; `forget`, `diagnose` and `settings` from a second process | `Scheduler`, `Chores` |
| Manifest, checks, brief | same names | none | pure functions on file contents | not modelled but for what `Ingest` and `Audit` need of them |

How they interact. The scheduler's tick sweeps the watch folder, steps every live
Polygon run once in its own thread, hands the oldest live ElectiCode run to the
worker if that is free, and lets the mind read what has stopped. Lanes talk to each
other only through the store: `_maybe_finish` writes the stage UPLOAD and the
ElectiCode lane takes the run from there. The dashboard's handlers run in threads
of their own; they read a row, decide, and write, while a lane that read the same
row works on. The tools the worker starts are detached processes
(`scraper.py:238`): they outlive Maestro.

What is hard to get right, per component, and hard to test:

* Polygon lane: a job accepted and not yet recorded; the Middleman forgetting all
  its jobs; retries in two stages with one counter; a half-extracted folder; a
  decision taken back by a late answer. Correct means: what is handed over is
  complete, what an import says of its limits is heeded, decisions are final, the
  imports are bounded, the batch comes to an end.
* ElectiCode lane: an upload that was partly done and is done again; tags that
  must be appended to old problems and may overwrite new ones; stages that must
  not be run twice; an approval that arrives in the middle of a step; a tool that outlives
  its step and works on beside the next. Correct means: labels that were on the
  platform are kept and no entry with another title is written over, nothing is written
  without the right to, no chore is skipped that never ran, none is repeated unasked, faults are
  retried a bounded number of times.
* Scraper client: a tool that hangs, crashes, is stopped, or dies and leaves its
  browser holding the pipes; readers that are given up on. Correct means: the verdict
  on a call is earned, what is repeated by itself may be and what is skipped did happen
  (but for items of children with a stage's name, section 5), silence is reported, every
  call ends.
* Chores data: tags that belong to rows by position, in a file that is checked once
  and read again for days, cut in pieces and handed to a parser that drops what it
  does not know; choices of which an empty one is not an unset one. Correct means:
  what was checked is applied in full, to its own problem and to no other.
* Scheduler: three threads, and commands of other processes, on one table with no lock.
  Correct means: one browser at a time, a stopped run stays stopped, no run is starved by
  another, the mind reads each stop once and cannot hurt the pipeline.
* Ingest: two transactions create a run; the folder may still be being copied; the
  reports are written after the whole sweep, from what it saw before. Correct means:
  no half set is registered, every delivery is answered (unless a set ends every sweep,
  section 5), no request outlives its cause.
* Audit: four readings of a platform that others change meanwhile, kept in files that
  outlive the step, from sources in which any row may lack its field, and a list that
  shows titles instead of slugs. Correct means: what is marked AUDITED was verified in
  that very step or passed over in a way that is named, a stop has a cause, the audit
  ends.

## 2. The modules

    abstract                 model             what it is                        proofs
    Triage <--implements--   PolygonLane       stages 1 to 5 of one run          PolygonLaneProofs
    Convoy <--implements--   ElectiCodeLane    stages 6 and 7 of one run         ElectiCodeLaneProofs
                             Audit             stage 8 of one run                AuditProofs
                             Ingest            the sweep of the watch folder     IngestProofs
                             Scheduler         a lane step is a choice of ends   SchedulerProofs
                             ToolRun           one call, inside a lane step      ToolRunProofs
                             Chores            the data of stage 7               ChoresProofs

A call to an outside service and the store write that records its answer are always
separate steps, and so are two store writes, since each is a transaction of its
own. Reads that take place in one thread with no call in between are part of the
step they decide. Comments marked *mutant* precede variants used to test that each
property can fail; they are not part of the models.

### `PolygonLane`, and `Triage`

The run row (`runStage`, `runStatus`), the problem rows (`stage`, `status`, `job`,
`attempts`) and the upload folder are durable. `cursor` and `held` are one pass of
`PolygonLane.step` (`polygon_lane.py:61`) in memory: which problem the loop is at
and what it has been told and not saved. A pass visits the problems in order, does
at most one thing for each, and ends in `_maybe_finish` (`FinishPass`).

* `Submit`, `SaveJob`: `_submit`; the import is accepted and then recorded.
  `RejectSubmit`, `Unreachable`, `LoseAnswer`, `ExtractRaises` are exceptions: the
  scheduler's `_crash` fails the whole run (`FailRun`).
* `PollWait`, `PollAgain`, `PollHalt`, `PollError`, `PollWrongLimits`,
  `PollImported`, `PollReady`: `_poll` with the outcomes of `decide`. The attempt is
  counted in one transaction and the job id cleared in the next (`ClearJob`).
* `DownloadNotYet`, `DownloadRefused`, `DownloadExtract`, `ExtractDone`,
  `SaveShaped`: `_download`. The folder is `partial` from the `mkdir` on.
* `Resume`, `Crash` and the `Middleman...` actions are the world. The Middleman is
  external and is modelled by what the lane's calls assume of it: an import, then a
  build, a failure a client may retry or not, and memory that a restart empties.
  Whether an import says that it used other limits than the authored ones is its choice
  (`differs`).
* `Objected` is `_limits_applied` as a look at an import reaches it. `_limits` answers an
  empty dict for a manifest it cannot read, with a warning in the log, and then nothing is
  compared: `warned` says that the look which found the package built was such a one, and
  `ReportedLimitsAreSent` excepts it. An import that says nothing of its limits, or not of
  both, is no objection either, in the code and here: the property speaks of what an import
  *reports*, and stage 8 compares what the platform has.

`Triage` is what the other half relies on: each problem is decided once, and a
batch is handed over when all are decided and one is kept. `Fate` and `Phase` map
the rows to it.

### `ElectiCodeLane`, and `Convoy`

One step of the lane (`electicode_lane.py:503`) is a walk of `pc` from `BeginStep` to a
return to `"idle"`. `seen` is `run.approved` as the step read it, `left` the problems a
row-writing loop has still to handle, `ran` the chore stages the chain in progress has
completed. `content`, `times` and `reset` are the platform: what is under each slug, how
often each chore was applied, whose tags were overwritten. `before` is the platform as the
run found it, any combination of absent, "mistitled" (a title other than the authored one)
and "earlier": an entry with no title, or the same one, or with any if the authored title is
blank. `_identity_error` refuses only when both titles are there and differ, so that an
entry of the last kind is written over, whether it is this problem's from an earlier batch
or another's that cannot be told from it; the upload promises no more, and `OnlyOwnContent`
says no more. `Dropped` are quarantined problems whose folder may still lie in the upload
directory.

* Stage 6: `PreviewFails`, `PreviewIncomplete`, `PreviewCollides`, `PreviewAgrees`,
  `Record` (`existed_before_upload`, write-once), `Takes` (the platform takes in one
  ticked problem), `ApplyFails` (also after taking in some), `ApplySucceeds` (also
  after taking in too few), `MarkUploaded`, `FinishUpload`.
* Stage 6.5: `CatalogLacksSome`, `CatalogHasAll`, `MarkReconciled`, `FinishReconcile`.
* `asked` counts the requests answered while the chores are on: what an operator has
  asked for again is not a repetition by Maestro itself.
* Stage 7: `StartChain` for the first group with work left, `ChoreRuns` in any
  order, then `ChoreFails` (before or after the stage took effect), `ChainKilled`,
  `ChainDisbelieved` or `ChainSucceeds`; `MarkChored`, `FinishGroup`, `FinishChores`.
* `ToolFails` is any exit other than 0: a fault worth retrying is a `Setback`, which
  counts on every row and stops the run at the cap, and everything else stops it.
* `ReadResume`, `ReadApprove`, `Answer`: the dashboard, whose write is decided by
  what it read.
* `StageRaises` is any exception of a stage, which `_crash` turns into a failed run; the
  one that matters is the heartbeat's, raised while the tool is at work. `Crash` is the
  end of the process, or an exception that not even the store could take. `CutLoose`: in
  either case the tool lives on (`_detached`), as the `orphan`. It uploads, or runs the
  stages it was asked for on the problems it was given (`OrphanTakes`, `OrphanRuns`),
  beside whatever the run starts next, and ends when it likes (`OrphanEnds`). One orphan
  at a time is a bound.

`Convoy` says that the problems move through the stages together and not while the
run is stopped.

### `Scheduler`

The thread of the loop (`pc`, `todo`, `waiting`, `about`, `shown`), the worker
threads, the dashboard's requests between read and write (`inHand`) and the mind
with its stamps. What a lane step does is a choice among its ends: stay, move on,
stop; a Polygon step may also leave the run waiting in vain (`WaitInVain`, a job lost
between build and download: it never moves on, and is in `stuck`). A sweep takes in any
number of sets, and may end the loop (`IngestRaises`), since `_ingest` catches only
OSError. The four ElectiCode stages are one place, because `_live` only asks whether a
run is in one of them. A stamp (`scheduler.py:205`) is kept as the set of runs whose
stamp equals their present state; anything that changes the state or appends an
event removes the run from it. `news` is the other side of it: the runs of which
something has happened, a stop, someone else's event or a restart, since the mind last
read them. `workers` is a set so that a second one could exist, and `mindOn` says
whether this process has a mind, which a restart may change.

`cmd_forget` and `cmd_diagnose` run in a process of their own: they read and write the
same store, outlive a restart of the loop, and can see its worker no more than it can
see them.

### `ToolRun`

One call of `_run` (`scraper.py:421`) from `Popen` to `Result`, with what the lane makes
of it. `waiter` is where `run_streamed` is, `reader` where each of the two pumps; `say`
and `counted` are the Reporter that all three use, the count taken under its lock and
the row written after. `written` is what the tool printed and `taken` how much of it a
reader has read, so that a reader that is given up on (`GivesUp`) leaves a rest. Time
passes when the waiter's `p.wait` runs out (`Poll`) and when a join does.

* The tool is external: stages that take effect (`StageRuns`) and are then reported,
  or fail with or without effect, events of its children, browser noise, a refusal of
  the arguments, a browser that outlives a tool stopped from outside, and an exit at any
  moment. It exits 0 only when all it had to do is done.
* `TimesOut` kills, whatever the tool did since the poll; a browser in a group of its
  own survives `_kill_tree`.
* `Counts`, `Logs`, `LogRaises` are `Reporter.__call__`. What is raised in a reader is
  swallowed; in the waiter (`BeatRaises`) it ends the call.
* `OutcomeOf`, `Done`, `Failed`, `stage_retryable` are what is made of exit code, stderr
  and events, and name the code's functions.

An event has the stage of the chain that it is of, or 0 if a child of the chain printed
it, and the `key` that `stage_key` makes of it. The chain's own events are named right; a
child's has a slug for its id, and may be taken for any stage, or none: `stage_progress`
asks neither for the tool nor for the operation. `Mistaken` is the set of stages that were
so named. A line is such an event, noise or a usage message;
exit codes are the four that the tables know, the class of those that `killed` knows,
and one more.

### `Chores`

`ElectiCodeLane` has the control of stage 7 and treats all problems' data alike; here is the
data, from the check at ingest to the audit, with a step for what happens between two
moments at which someone else may write. A document is a sequence of lines, a line is one of
the kinds `parse` distinguishes, with of a row's cells the slug, whether its group is one of
the three, and how its limits compare with the manifest's. `parse`, `subset`, `render` and
`Refusals` (the checks C-1 to C-7) translate `characteristics.py`; `effective` and `Accepts`
the settings; `Wanted`, `Unverified` and `NotJoined` the arguments of `batch.py` and
`list_landed`. What a loop of the code picks out of a list is a set of places, and `At` the
sequence of what lies there, in order. The tool is external: `Paired` is its pairing of tag
line and row by position, `Effect` what a stage does.

The documents are all that an author writes of up to three rows and three tag lines, in
any order and with unknown slugs, and with one of nine slips in their form; an edit
after the check loses one line. A survivor is fresh or existing, any may be quarantined.
`earlier` is what the platform had of a problem when the upload was over: nothing of a
fresh one; of the existing ones either nothing, or tags, a translation, a division and a
place in the list that nobody of this batch gave them (a bound: they are alike in it, and
have nothing if the manifest leaves a problem without tags).

### `Audit`

One audit is a walk of `pc` through `_audit` (`electicode_lane.py:784`): the session,
the catalog, the paged table if divisions were asked for, Maestro's comparisons, the
contest list, the report tool, the rows. The platform is a set of facts, pairs of a
claim (there, limits, labels, access, listed) or "named" (it shows the authored title)
and a slug. A scrape is a copy of it with the set of slugs whose row carries the field it
was read for: `Carries` are the rows that can be compared. `asked` is the batch's settings
as the step read them. `noted`, `readable` and `untold` record what the log says or does
not say of the step, `moved` which facts others changed during it, so that a property
can speak of what was true at some time in the step. `limits_landed` passes over slugs
without a row and goes through the manifest, `divisions_landed` goes through the problems
of the run; both pass over a row without the field, and note it only if no row has it.
The contest list is searched for titles: a problem under a new title is not found in it
(`ListLacksSome`), one without a title, or with another entry's, passes (`ListComplete`).
A tool too old to say what it checked is believed, with a
warning. The dashboard's handlers are single steps here. How a forget meets a lane is
in `Scheduler`.

### `Ingest`

A folder is what is still `short` of its end, whether its characteristics file has
been `begun`, and a `flaw` it will turn out to have: wrong, refused by the importer
only, for ever unfinished by the look of it, or one no check answers for: an
"illegible" manifest, with a limit that is no number or not in UTF-8, makes `inspect`
raise, and one without a set name makes `ingest` raise. `VerdictOn` then is "raises", and
`IntakeRaises` ends the sweep and the loop, which comes to the same folder when it is
started again. `Inspect` is `ingest.inspect`,
`CreateRun` and `StartRun` the two transactions after it, and the second half of the
sweep (`Wait`, `Write`, `Withdraw`) is `Scheduler._feedback`. An inspection is one
step although it reads many files: files only become whole, so a mixture of what they
were at several moments is a state that another order of copying reaches. A report is
kept as the verdict it explains.

## 3. What is checked

| Run | Question and bounds |
|---|---|
| `polygon_batch` | Two problems, a retry cap of 1, one fault (crash, lost answer or Middleman restart), under fairness. Types, `HandoverComplete`, `ReportedLimitsAreSent`, `RetryBudget`, `DecisionsAreFinal`, `StoppedRunRests`, `PolygonLane` implements `Triage`, and `LeavesPolygon`. |
| `electicode_stages` | Two problems and a dropped one, every initial content, a run that needs approval, a chain of two stages (metadata: replayable for new problems only; division: always), a cap of 2, two requests, a crash, any number of stages that end by an exception, one orphaned tool at a time, under fairness. `LabelsSurvive`, `OnlyOwnContent`, `WritesAreGranted`, `ChoredMeansAllApplied`, `NotRepeatedUnasked`, implements `Convoy`, and `Settles`; its type invariant also bounds the faults retried. |
| `scheduler_threads` | Two runs, a mind that may resume and approve or none, one request or command, a restart, under fairness: `OneDrivenRun`, `ReadOncePerStop`, `StopHolds`, and `EveryRunSettles`. |
| `audit_stage8` | Two problems, every choice of divisions and list, at most one wrong fact or new title at the start, any rows without their field, one event (a change by others, a resume, a setting, a crash), a cap of 2, under fairness: `AuditedMeansChecked`, `StopsForCause`, and `AuditSettles`. |
| `ingest_sweep` | Two folders, of one set or of two, each with any flaw and copied in any order, a grace period of 2 and one event (a crash, a failing read, write or delete, a correction, a forget), under fairness: `RegisteredIsSound`, `StaleReportGoes`, `EveryDeliveryIsAnswered`. |
| `tool_run` | A chain of two stages of which the first is replayable, or a session check; a timeout of four polls, silence of two, a log of two rows, one line of noise or of a child, taken for any stage or none, one report that raises: `VerdictIsEarned`, `SafeRetry`, `DoubtIsOneStage`, `SilenceIsExplained`, and, under fairness, `Returns`. |
| `chores_delivery` | Three problems, every document with one slip at most, survivors in both groups, the existing ones blank or worked on before, one name per vocabulary, two events (an edit, a choice, another attempt): `CheckedMeansApplied`, `ChosenMeansApplied`, `ListedOrSaid`, `TagsAreTheRowsOwn`. |

The five other runs check one claim of the documentation each and find it refuted;
see section 5.

Why the bounds are enough. Two problems are the least with an order, a survivor beside a
quarantined one, a group of each kind, and a row loop with an inside; a third adds a second
problem in one of these roles. A cap of 1 (polygon) or 2 (ElectiCode) has a first try, a
retry and an exhausted budget. One fault is enough in `polygon_batch` because its safety
properties are proved for every number of them (section 4); what TLC adds is the liveness,
for which a fault must end. In `electicode_stages` two requests allow an approval with a
resume beside it, and a chain of two stages has one that completed before one that failed,
in either order, and both kinds of replay; one orphan beside the chain that repeats its work
is what `NotRepeatedUnasked` counts, and its lemmas are proved for any number of crashes.
The audit treats problems alike and in one step each; the second one is a row that can be
compared beside one that cannot, and a fact that is right where another is wrong. A
quarantined problem beside the two makes the instance too large for the liveness; without it
`audit_stage8` has 743 thousand states, and the two safety properties are proved for any
set of quarantined problems and any number of events. Likewise one request and one restart
are enough in `scheduler_threads`, whose safety properties are proved for every number of
both. Two folders are the least in which
a sweep can be cut off between a registration and a report, or hold one set twice. Two runs
are the least that compete for the worker. A call of a tool has two streams and so two
readers; two stages are the least of which one is done and one in doubt; a log of two rows
can be filled by one thread and overrun by three; four polls hold two silences. Three
problems are the least in which the place of a tag line after a gap is not an end of the
list, and they are taken as alike (`SYMMETRY`), which no definition of `Chores` contradicts.
Two events let a choice or an edit fall between two attempts. Counters that grow without
limit in the code (`attempts`, `submits`, `readings`) are bounded by the bounds on what
causes them, never by a state constraint. `Patience` bounds how often a lane step may leave
a run where it is; what makes that true is `LeavesPolygon` and `Settles`, with the exception
that `LeavesPolygon` has: a run whose job was lost may stay for ever, and so it may in
`Scheduler` (`WaitInVain`). Deadlock is checked in every run but those of `ToolRun`: where the
program has come to rest it is still ticking, and the modules say so with a step that
changes nothing (`StepElsewhere`, `StepReturns`, `Dead`, `Rest`). A call of a tool ends, and
with it the behaviour of `ToolRun`; that it does not end earlier is `Returns`.

Fairness. `WF(LaneStep)`: `run_forever` ticks as long as the process lives, a tick
steps every live run, and every call has a timeout. `WF(MiddlemanStep(p))`: the
Middleman ends each job it still has. `WF(WorkerStep)`: a tool is killed at its
timeout and `_run_electicode` catches what a stage raises. `WF(WriteRequest)`: a
handler runs to its end. `WF(Step)` in `Ingest` is the
tick again, and `WF(Delivery)` says that what is being copied is copied to its end;
without it a folder may stay unfinished for ever and is then reported as such. That a loop
which a set has ended is started again is assumed there too (`IntakeRaises`, `StartRaises`).
`WF(WaiterStep)` in `ToolRun` says that Maestro's own
thread runs, and nothing of the tool, its browser, or the two readers.
Nothing is assumed of operators, the mind, crashes or
restarts. `LeavesPolygon` excepts a batch with a built problem whose job is gone,
which is the finding `LostJobRecovers`; without the exception it is false.
`EveryRunSettles` excepts that same run (`stuck`), and a loop that an exception of the
intake or of the mind's reading has ended; it shows that the others do not wait for the
one that is stuck. `WF(OrphanStep)` is not assumed: an orphan may hang for ever.

Every property has a mutant, a bug of the kind that could be made in the code, that
makes it fail under the same configuration.

## 4. What is proved

`PolygonLaneProofs` proves, for every number of problems, retry cap and number of
faults, from `NAssumption`, `RetryCapAssumption` and `MaxFaultsAssumption` alone:

`TypeCorrect`, `HandoverIsComplete`, `LimitsAreThoseSent`, `RetriesAreBounded`
(invariants), `NoDecisionIsTakenBack`, `AStoppedRunRests` (action properties) and
`LaneImplementsTriage` (refinement).

None of the safety invariants is inductive. `LaneInv` strengthens them:

* `HeldInv`: what is in memory agrees with the row it will be written to. Without
  it `SaveShaped` could record a problem whose extraction never ended.
* `RowInv`: a BUILT or SHAPED row has a job without a known objection, or the warning in
  the log, that no late answer can change for the worse (`ready`, `lost` or `none`), a
  SHAPED row a whole folder, and a row without a job has none running that it does not
  know of.
* `RunInv`: hand-over is the end of the lane's work, and a stopped run is between
  passes.
* `BudgetInv`: the imports so far are at most what the stages passed
  have spent (`Spent`), the attempts counted, the one in flight and the jobs lost.
  `RetryBudget` follows, but only through a bound relative to `attempts`, which is
  reset when the stage advances and so says nothing by itself.

`LaneInvariance` is the usual three facts, one lemma per conjunct
(`TypePreserved`, `HeldPreserved`, ...) and one case per action. `LaneInv` is also
what makes each step map to a step of `Triage` or a stutter: `FinishPass` hands over
decided batches because of `RunInv` and `ReadyToUpload`. TLC first checked each
conjunct of `LaneInv` on the instance of `polygon_batch`.

`SchedulerProofs` proves, for every number of runs, set of things the mind may do and
bound on waits, requests and restarts, from `BoundsAssumption` alone: `SchedulerTypes`,
`OneRunIsDriven` (invariants), `AStopHolds` and `AReadingIsEarned` (action
properties). `LoopInv` is inductive and adds to `TypeOK`:

* `WorkersInv`: two threads of the worker are never alive together. The pump starts
  one only when it finds none, and no step between its look and its start is another
  actor's: `_pump_electicode` is one step because the loop alone starts threads.
* `InsideInv`: the run that a stage is being driven for is still on the move, unless it
  has been deleted. This is why `_advance`, which writes RUNNING whatever the row says,
  never wakes a run that someone stopped: only the worker that drives a run stops it.
* `NewsInv`: a run that is parked, or on the list the mind is going through, and has no
  stamp has something new to read, but in the moment between a reading and its
  restamp; and the run being read is no longer on the list.

TLC first checked `LoopInv` on the instance of `scheduler_threads`.

`ElectiCodeLaneProofs` proves, for every batch, set of chores and of replayable ones,
retry cap and number of requests, crashes and exceptions: `ElectiCodeTypes`, `TheLabelsSurvive`,
`NoChoreIsSkipped`, `NoChoreIsRepeatedUnasked` (invariants), `TheUploadWritesItsOwn`,
`EveryWriteIsGranted` (action properties) and `LaneImplementsConvoy` (refinement). `LaneInv`
adds to them:

* `StepInv`: which stage each place of the walk belongs to, and that a step is taken by a
  running run. Nothing can be said of a handler without it.
* `GateInv`: what the step has seen of the approval is still so, and an orphan was started
  by a step that had it. An approval is never taken back, so `EveryWriteIsGranted` survives
  the dashboard writing at any moment.
* `BudgetInv`: the faults retried in a row are among the attempts counted on every problem,
  so that the cap of the code, which looks at one row, bounds them all.
* `OriginInv`: until a problem's origin is recorded its entry is as the run found it, and
  nothing is applied, by a step or by an orphan, before all are recorded, nor onto an entry
  with another title. This is what a second preview after a partial
  upload would break, and what `LabelsSurvive` rests on.
* `RowsInv`, `PresentInv`: how far the rows are in each stage and inside each loop, and that
  the catalog had every problem.
* `DoneInv`: the skip list of a group names what was applied to all that is pending in it.
  `ChoredMeansAllApplied` says it of chored rows only, when it is too late.
* `RepeatInv`: a chore that cannot be replayed and that the run may still come to by itself
  (`MayRun`) has not been applied since the last request or crash. `NotRepeatedUnasked`
  counts what happened, and is preserved only because of what may happen next. What an
  orphan may still apply is counted with what was applied (`Owed`).

`AuditProofs` proves `AuditTypes`, `AuditedIsChecked` and `AStopHasACause` (invariants). A
verdict is given long after the scrape it rests on, so `AuditInv` adds `RunInv` (nothing
stands against a run in a step), `FreshInv` (a scrape that the rest of the step looks at is
right about every fact nobody has changed since the step began, whichever of its rows
carry their field; a file left by an earlier step is not looked at) and `ComparedInv` (what
each comparison passed has established for the rows it could compare, what it could not
compare at all is noted, and of the list which problems it did not tell of).

`IngestProofs` proves `IngestTypes` and `OnlyWholeSetsAreRegistered` (invariants). `SweepInv`
adds `ReadyInv`, that a folder found ready is so when its run is created, since files only
become whole between the two steps, and `DirInv`, that a set with a row has the folder it
was registered from.

`ToolRunProofs` proves, for chains of any length, every timeout, every cap of the log and
every number of lines and of reports that raise: `CallTypes`, `AVerdictIsEarned`,
`ARetryIsSafe`, `OneStageIsInDoubt`, `ASilenceIsExplained` (invariants), the third and
fourth with the exception of stages that a child's item was taken for. `CallInv` adds:

* `ToolInv`, `ShapeInv`: exit code 0 says that all is done, and the waiter joins the readers
  of a process that has ended.
* `ChainInv`: whatever of a chain took effect was told of before the next stage began, and a
  stage that failed is the last. It speaks of every prefix of the output (`ToldBy`), so that
  it also holds of what a reader had read when it was given up on, and of the chain's own
  events only: a child's event may name any stage, and no invariant can help.
* `ReaderInv`: a reader at its end has read all there is and will be. A verdict made
  without having given up on a reader is made on all of the output.
* `SayInv`, `LogInv`: a thread writes to the log in one place only, and what the count has
  let through is in the log, in a thread's hand or lost to a raise (`Saying` counts the three
  hands). `TypeOK` bounds the rows of the log, and only this sum keeps the three threads
  within it.
* `ClockInv`, `HeardInv`: the polls stay within the timeout, and the last sign of life that
  the waiter goes by is of a line or a beat that reached the log, unless the log is full.

`ChoresProofs` proves, for every set of problems, vocabulary, set of defaults and number of
events, from `SlugAssumption` (the problems are finitely many) alone: `TypesHold`,
`CheckedIsApplied`, `ChosenIsApplied`, `ListedOrWarned` (invariants) and `TagsAreOwn`
(action property). Most of it is about documents, of any length, in four layers:

* Places: a set of natural numbers has a least one (`Least`), so that the first line of a
  kind exists and is the one found (`FirstExists`, `FirstIsThis`), and places can be counted
  off in order (`InOrderIs`).
* The round trip that the docstring of `render` promises: `RenderIs` lays its document out
  line by line, and `ParseRender` reads rows and tag lines back out of it, "[none]" included.
* Lockstep: `SubsetIs` and `FileIs` follow a tag line with its row through `subset`,
  `render`, `parse` and the tool's pairing by position.
* Counting: an author writes at most as many rows as there are problems (`WrittenIsFew`), so
  that a document which C-4 finds complete has each problem once (`SoundIsDistinct`), in the
  lines that `parse` reads and in those it passes over. Without that, a line lost later could
  uncover a second row of the same problem (`WithoutKeeps`), and tags of the wrong one.

`DeliveryInv` adds to the types:

* `DocInv`, `SourceInv`, `FileInv`: the document, the copy a pass goes by and the file of a
  group belong together, and have each problem once even after an edit.
* `BeforeInv`, `ArgsInv`: nothing is done before stage 7, and a pass goes by the choices that
  were made by then.
* `PlanInv`: an invocation leaves out only stages that are not wanted or that were recorded
  as done. It holds of every step of the chain, since `ChainEnds` looks back at all of it.
* `NoMoreInv`, `AppliedInv`, `ListedInv`: a problem never has more than was promised, and has
  what a recorded stage gives. Both halves are needed: a stage left out because an empty
  choice wants nothing leaves what is there, and only `NoMoreInv` says that this is what was there
  before the upload (`earlier`). What a later stage or a repeated one does to it is
  `StageGives`.

TLC first checked each conjunct of these invariants on the instance of the module's run.

Only model-checked: everything under fairness (`LeavesPolygon`, `Settles`,
`EveryRunSettles`, `AuditSettles`, `StaleReportGoes`, `EveryDeliveryIsAnswered`,
`Returns`), which is beyond this prover.

## 5. Where code and documentation disagree

Found while modelling and shown by a run (details and quotations in `PROJECT.json`):

* `polygon_lost_job`: a Middleman restart between build and download leaves a
  problem BUILT for ever; `_download` drops the RESUBMIT that `_poll` would obey.
* `electicode_resume`: a chain killed after its last stage has an empty plan at each
  resume, which is taken for a chain that did nothing.
* `scheduler_mind_dies`: deleting a run while the mind reads it ends the loop.
* `ingest_parked`: a crash between `create_run` and the `set_run` that follows leaves a
  run at INGEST, which no lane looks at and whose name is taken.
* `ingest_dropped`: a manifest that is not UTF-8 or has a limit that is no number, or a
  set without a name, raises what `_ingest` does not catch. The loop ends at every start,
  and no folder is answered.

Seen in the models and not given a run of their own:

* A row without limits beside one that has them is passed over without a word
  (`preflight.py:65`), where line 46 says "Rows without the fields yield a single finding
  saying so rather than silence"; `AuditedMeansChecked` excepts it (`PassedOver`).
* A problem that is in the contest list under another title fails the run as missing from
  it (`electicode_lane.py:329`), though reconcile calls a new title "Not fatal" (684);
  `StopsForCause` excepts it.
* Items of a chain's children count as stages if the problem they are about has a stage's
  name, like limits, division or translate (`electicode_lane.py:228-237`). A resume then
  skips a stage that never ran, where the docstring at 206 says that "skipping one that
  never ran costs correctness", or Maestro repeats one that must not run twice, where 241
  says "Whether re-running the stage that failed is safe". `SafeRetry` and
  `DoubtIsOneStage` except such stages (`Mistaken`).
* A resume runs again the non-replayable chore stage that failed; only completed
  stages are put on the skip list (`electicode_lane.py:747`), while
  `docs/procedures/first-live-run.md:206` says that it "still refuses".
* A crash after a successful chain and before its rows runs the whole chain again:
  the done file is written on failure only (`electicode_lane.py:742-778` against the
  comment at 710).
* An approval given during a step is overridden by the block that step ends in
  (`electicode_lane.py:545` against the comment at `dashboard.py:131`).
* The audit compares limits for the whole manifest (`electicode_lane.py:830`), so that
  a quarantined problem which the platform knows from elsewhere, with other limits,
  fails the run at each attempt; the comment at 817 says "Audit only what this run
  actually put there". And a manifest that cannot be read leaves the limits
  uncompared without a word (882), where `preflight.py:45` says that "could not check"
  and "checked, fine" must not look the same.
* A characteristics file in mid-copy has the wrong checksum and no recorded size, so
  the set is refused at once as INVALID (`manifest.py:159`, `ingest.py:52`), the verdict
  that "waiting will not fix"; it is withdrawn when the copy ends.
* A set whose manifest gives the characteristics file another name, or an archive's
  size wrong, is called unfinished for ever (`characteristics.py:212`,
  `manifest.py:136`).
* A manifest that is merely cut inside a multi-byte character, while it is being copied,
  ends the loop in the same way as one that is not UTF-8 (`ingest.py:109`).
* An import whose manifest could not be read at that look, or which says nothing of the
  limits it used, goes on unexamined (`polygon_lane.py:177`, 215-228).
* An existing entry without a title, or with the same one, is overwritten by the upload
  whoever made it; a problem whose authored title is blank may overwrite any
  (`electicode_lane.py:649`).
* A contest list passes a problem whose title is blank, or is that of another entry
  (`electicode_lane.py:329`).
* A problem quarantined after an interrupted extraction keeps its directory
  (`polygon_lane.py:254-257` against the comment at 55-57); `ElectiCodeLane`
  therefore allows `Dropped` folders and `OnlyOwnContent` shows that `--only` keeps
  them off the platform.
* With `RETRY_CAP` 3 a failing import is submitted four times (`polygon.py:98`),
  and `attempts` is defined as the tries at the stage (`model.py:107`). Lost jobs
  use up the same budget.
* `_forget` checks and deletes in two steps (`dashboard.py:200`); the worker may
  begin to drive the run between them.
* A run stopped for the second time while the first stop is read is stamped as read
  (`scheduler.py:229`).
* The mind's approve leaves the run blocked, the dashboard's resumes it
  (`scheduler.py:276`).
* Past 300 lines the Reporter drops the heartbeats as well (`electicode_lane.py:88-97`),
  so that a loud tool which then hangs is never reported silent; the repository's
  `README.md:160` says that "a tool that has gone quiet for 90 seconds says so".
  `SilenceIsExplained` can only ask that the log has said it is full.
* What the Reporter raises is swallowed in a reader and not in the waiter
  (`scraper.py:364`): a heartbeat that meets a locked store ends `run_streamed` with the
  tool still at work, the worker fails the run, and the next step starts another tool. The
  first one goes on writing to the platform, for a run that is FAILED (`WritesAreGranted`
  excepts it). `tests/test_feedback_live.py:146` says "Reporting is a convenience; the stage
  it reports on is not."
* "Output still accumulates and is still returned whole" (`scraper.py:300`) holds only of
  readers that come to their end in five seconds (354, 373). A browser left behind by a
  stopped tool holds the pipes open; what the reader had not read is not known as done,
  and `DoubtIsOneStage` excepts it. `SafeRetry` holds all the same: output is lost from
  its end, and a chain whose failure is unread is not repeated by itself.
* A characteristics file edited after its check so that tags and rows no longer match in
  number is accepted: `subset` drops all tags itself (`characteristics.py:144-147`),
  `batch.py` sees a file without tags and has nothing to warn of, and the second case of
  `_did_nothing` ("dropped tags", `electicode_lane.py:344`) cannot occur. The run goes on
  to the audit without tags.
* A choice changed between two attempts of a chain is not applied where its stage is on
  the skip list (`electicode_lane.py:724-732`). The dashboard says of a late choice that
  it "changes only what the audit checks for", but only once the run is at AUDIT
  (`dashboard.py:183`).
* A settings request with several keys is refused with 400 at the first bad one, and the
  keys before it stay stored with no event in the log (`dashboard.py:160-180`).
* A chain whose `list add` left a problem out fails (LI-2) and notes nothing in the done
  file, which is written only when the tool exits with a failure
  (`electicode_lane.py:742`); a resume repeats the whole chain, the list step included. If
  instead a later stage failed, `list-add` is skipped at the resume, its outcome is never
  examined, and only LI-0 says that the list was not verified (`ListedOrSaid`).
* `maestro diagnose` "Changes nothing, ever" (`__main__.py:468`), but the event it logs
  makes the scheduler's mind read the run again (`scheduler.py:205`).
* C-5 compares a tag line with the manifest only where the manifest has tags for the
  problem (`characteristics.py:261`); a problem without any gets whatever line is at its
  place, which `CheckedMeansApplied` therefore leaves open.
* An unreadable contest list is logged and the run becomes DONE
  (`electicode_lane.py:920-926`).

## 6. What is not modelled

* The single rules of the manifest and importer checks, and the text of a correction
  request: in `Ingest` by the verdict they lead to.
* The formats of the catalog, the detection table and the contest list, HTTP and
  multipart encoding, evidence gathering and scrubbing in the mind, read-only pages and
  commands, `init` and `brief`: they change nothing of the system.
* In `Chores` the stages fixmdx, custom and limits, which take no data of the batch, and
  crashes, which `ElectiCodeLane` has; in `ToolRun` a second call that overlaps the first.
* A second orphaned tool beside a first one, and what two tools do to each other in one
  browser profile. Writers of the platform other than this run and its tools are modelled
  in `Audit` only.
* `maestro forget --force`, which is the dashboard's forget without its check.

## 7. Plan

Modules, in the order of what matters most:

1. `PolygonLane`, `Triage`, `PolygonLaneProofs`; `ElectiCodeLane`, `Convoy`;
   `Scheduler`, `SchedulerProofs`; `Audit`; `Ingest`; `ToolRun`; `Chores`. Done.
2. `ElectiCodeLaneProofs`, `AuditProofs`, `IngestProofs`, `ToolRunProofs`,
   `ChoresProofs`. Done.
3. Pure rules with a reference definition: `decide`, the manifest rules, `compare`.
4. `Pipeline`: the three abstract promises composed, from ingest to DONE.
