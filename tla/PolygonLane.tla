----------------------------- MODULE PolygonLane -----------------------------
(***************************************************************************)
(* The Polygon half of one run: maestro/polygon_lane.py drives every       *)
(* problem of the set through import, build and download against the       *)
(* Middleman, one pass per scheduler tick, and hands the run to UPLOAD.    *)
(*                                                                         *)
(* Durable state is the run row, the problem rows and the upload folder.   *)
(* A call to the Middleman and the store write that records its answer are *)
(* separate steps, so Maestro may die between them and start again with    *)
(* only the durable state.  The Middleman keeps its jobs in memory and     *)
(* loses all of them when it restarts.                                     *)
(***************************************************************************)
EXTENDS Integers

CONSTANTS
  N,          \* number of problems in the set, visited in manifest order
  RetryCap,   \* RETRY_CAP of maestro/polygon.py
  MaxFaults   \* bound: crashes, lost answers and Middleman restarts together

ASSUME NAssumption == N \in Nat \ {0}
ASSUME RetryCapAssumption == RetryCap \in Nat
ASSUME MaxFaultsAssumption == MaxFaults \in Nat

Problem == 1 .. N

VARIABLES
  runStage,   \* runs.stage
  runStatus,  \* runs.status
  stage,      \* problems.stage
  status,     \* problems.status
  job,        \* is problems.polygon_job_id set?
  attempts,   \* problems.attempts
  folder,     \* the problem's directory below upload_dir
  cursor,     \* the problem this pass is at; 0 between passes, N+1 at its end
  held,       \* what the lane holds in memory and has not saved
  middleman,  \* the job Maestro may yet ask about, as the Middleman reports it
  differs,    \* does its entry say the import took limits other than the authored?
  warned,     \* does the log warn that p was built with its limits unread?
  submits,    \* history: imports the Middleman accepted for the problem
  lost,       \* history: jobs of the problem lost to a crash or a restart
  faults      \* history: faults so far

rows    == <<stage, status, job, attempts>>
run     == <<runStage, runStatus>>
history == <<submits, lost, faults>>
vars    == <<run, rows, folder, cursor, held, middleman, differs, warned, history>>

ProblemStage  == {"pending", "imported", "built", "shaped"}
ProblemStatus == {"pending", "running", "ok", "quarantined"}
JobState      == {"none", "importing", "building", "ready", "stepfailed",
                  "rejected", "lost"}

TypeOK ==
  /\ runStage \in {"polygon", "upload"}
  /\ runStatus \in {"running", "failed"}
  /\ stage \in [Problem -> ProblemStage]
  /\ status \in [Problem -> ProblemStatus]
  /\ job \in [Problem -> BOOLEAN]
  /\ attempts \in [Problem -> Nat]
  /\ folder \in [Problem -> {"absent", "partial", "complete"}]
  /\ cursor \in 0 .. N + 1
  /\ held \in {"none", "accepted", "bumped", "extracting", "extracted"}
  /\ held # "none" => cursor \in Problem
  /\ middleman \in [Problem -> JobState]
  /\ differs \in [Problem -> BOOLEAN]
  /\ warned \in [Problem -> BOOLEAN]
  /\ submits \in [Problem -> Nat]
  /\ lost \in [Problem -> Nat]
  /\ faults \in 0 .. MaxFaults

-----------------------------------------------------------------------------
(***************************************************************************)
(* What a pass works from.                                                 *)
(***************************************************************************)

\* Still in the batch (Store.active; no code sets a problem FAILED).
Active(p) == status[p] # "quarantined"

\* Extracted and recorded: nothing left to do for this problem.
Shaped(p) == stage[p] = "shaped" /\ status[p] = "ok"

AtAnyRow(p) == cursor = p /\ held = "none" /\ ~Shaped(p)   \* mutant

\* The lane is at p with nothing in memory, and p still owes work.
At(p) == cursor = p /\ held = "none" /\ Active(p) /\ ~Shaped(p)

Polling(p)     == At(p) /\ stage[p] # "built" /\ job[p]
Downloading(p) == At(p) /\ stage[p] = "built"

\* _limits_applied, with the manifest's limits read or not: {} compares nothing.
Objected(p, read) == read /\ differs[p]
Unobjected(p)     == \E read \in BOOLEAN : ~Objected(p, read)

\* Nothing is left to upload, or everything left is ready (_maybe_finish).
NoneLeftUnchecked == FALSE                          \* mutant
NoneLeft == \A p \in Problem : ~Active(p)

AllShaped == \A p \in Problem : Shaped(p)           \* mutant
ReadyToUpload == \A p \in Problem : Active(p) => Shaped(p)

\* The Middleman still has the job.
Registered(p) == middleman[p] \notin {"none", "lost"}

Init ==
  /\ runStage = "polygon" /\ runStatus = "running"
  /\ stage = [p \in Problem |-> "pending"]
  /\ status = [p \in Problem |-> "pending"]
  /\ job = [p \in Problem |-> FALSE]
  /\ attempts = [p \in Problem |-> 0]
  /\ folder = [p \in Problem |-> "absent"]
  /\ cursor = 0 /\ held = "none"
  /\ middleman = [p \in Problem |-> "none"]
  /\ differs = [p \in Problem |-> FALSE]
  /\ warned = [p \in Problem |-> FALSE]
  /\ submits = [p \in Problem |-> 0]
  /\ lost = [p \in Problem |-> 0]
  /\ faults = 0

-----------------------------------------------------------------------------
(***************************************************************************)
(* Pieces of the handlers.                                                 *)
(***************************************************************************)

NextProblem == cursor' = cursor + 1 /\ held' = "none"

\* Store.set_problem with a stage: the attempts counter starts again.
AdvanceTo(p, newStage, newStatus) ==
  /\ stage' = [stage EXCEPT ![p] = newStage]
  /\ status' = [status EXCEPT ![p] = newStatus]
  /\ attempts' = [attempts EXCEPT ![p] = 0]
  /\ UNCHANGED job

\* The row keeps its job, which may still go on; nothing may ask about it again.
Quarantine(p) ==
  /\ status' = [status EXCEPT ![p] = "quarantined"]
  /\ NextProblem
  /\ UNCHANGED <<run, stage, job, attempts, folder, middleman, differs, warned, history>>

FailRunInPlace == runStatus' = "failed" /\ cursor' = 0 /\ UNCHANGED <<runStage, held>>  \* mutant

\* Any exception ends the pass; the run stops until an operator resumes it.
FailRun ==
  /\ runStatus' = "failed"
  /\ cursor' = 0 /\ held' = "none"
  /\ UNCHANGED runStage

Fault == faults < MaxFaults /\ faults' = faults + 1

\* The id of the job just accepted is gone: Maestro can never ask about it.
LoseUnsaved ==
  IF held = "accepted"
    THEN /\ middleman' = [middleman EXCEPT ![cursor] = "none"]
         /\ lost' = [lost EXCEPT ![cursor] = IF Registered(cursor) THEN @ + 1 ELSE @]
    ELSE UNCHANGED <<middleman, lost>>

-----------------------------------------------------------------------------
(***************************************************************************)
(* One pass: PolygonLane.step.                                             *)
(***************************************************************************)

BeginAnyPass ==  \* mutant: the run's status is not looked at
  /\ runStage = "polygon" /\ cursor = 0
  /\ cursor' = 1
  /\ UNCHANGED <<run, rows, folder, held, middleman, differs, warned, history>>

BeginPass ==
  /\ runStage = "polygon" /\ runStatus = "running"
  /\ cursor = 0
  /\ cursor' = 1
  /\ UNCHANGED <<run, rows, folder, held, middleman, differs, warned, history>>

Skip(p) ==
  /\ cursor = p /\ held = "none"
  /\ ~Active(p) \/ Shaped(p)
  /\ NextProblem
  /\ UNCHANGED <<run, rows, folder, middleman, differs, warned, history>>

\* import_problem answered 202; the job id is only in memory.
Submit(p) ==
  /\ At(p) /\ stage[p] # "built" /\ ~job[p]
  /\ held' = "accepted"
  /\ middleman' = [middleman EXCEPT ![p] = "importing"]
  /\ differs' = [differs EXCEPT ![p] = FALSE]
  /\ submits' = [submits EXCEPT ![p] = @ + 1]
  /\ UNCHANGED <<run, rows, folder, cursor, warned, lost, faults>>

SaveJob(p) ==
  /\ cursor = p /\ held = "accepted"
  /\ status' = [status EXCEPT ![p] = "running"]
  /\ job' = [job EXCEPT ![p] = TRUE]
  /\ NextProblem
  /\ UNCHANGED <<run, stage, attempts, folder, middleman, differs, warned, history>>

\* Any other answer to the import is a PolygonError: the whole run stops.
RejectSubmit(p) ==
  /\ At(p) /\ stage[p] # "built" /\ ~job[p]
  /\ FailRun
  /\ UNCHANGED <<rows, folder, middleman, differs, warned, history>>

\* A call that cannot be made at all raises URLError, which no lane catches.
Unreachable(p) ==
  /\ Polling(p) \/ Downloading(p)
  /\ FailRun
  /\ UNCHANGED <<rows, folder, middleman, differs, warned, history>>

\* The import was accepted but its answer never arrived.
LoseAnswer ==
  /\ held = "accepted"
  /\ Fault /\ LoseUnsaved
  /\ FailRun
  /\ UNCHANGED <<rows, folder, differs, warned, submits>>

\* verify-status still says wait, or nothing at all about this problem.
PollWait(p) ==
  /\ Polling(p)
  /\ \/ middleman[p] = "importing"
     \/ middleman[p] = "building" /\ Unobjected(p) /\ stage[p] = "imported"
  /\ NextProblem
  /\ UNCHANGED <<run, rows, folder, middleman, differs, warned, history>>

\* RESUBMIT (job unknown) or RETRY below the cap: first the attempt is counted,
PollAgain(p) ==
  /\ Polling(p)
  /\ \/ middleman[p] = "lost"
     \/ middleman[p] = "stepfailed" /\ attempts[p] < RetryCap
  /\ attempts' = [attempts EXCEPT ![p] = @ + 1]
  /\ held' = "bumped"
  /\ UNCHANGED <<run, stage, status, job, folder, cursor, middleman, differs, warned, history>>

\* then, in a transaction of its own, the job id is forgotten.
ClearJob(p) ==
  /\ cursor = p /\ held = "bumped"
  /\ job' = [job EXCEPT ![p] = FALSE]
  /\ middleman' = [middleman EXCEPT ![p] = "none"]
  /\ NextProblem
  /\ UNCHANGED <<run, stage, status, attempts, folder, differs, warned, history>>

\* HALT: the problem is refused, or its retries are used up.
PollHalt(p) ==
  /\ Polling(p)
  /\ \/ middleman[p] = "rejected"
     \/ middleman[p] = "stepfailed" /\ attempts[p] >= RetryCap
  /\ Quarantine(p)

\* Any HTTP status of 400 and above but 404 is a HALT too.
PollError(p) ==
  /\ Polling(p)
  /\ Quarantine(p)

\* _limits_applied: the import says it used other limits than the manifest's.
PollWrongLimits(p) ==
  /\ Polling(p)
  /\ middleman[p] \in {"building", "ready"} /\ Objected(p, TRUE)
  /\ Quarantine(p)

PollImportedAgain(p) ==  \* mutant: the stage is set whatever it was
  /\ Polling(p)
  /\ middleman[p] = "building" /\ Unobjected(p)
  /\ AdvanceTo(p, "imported", "running")
  /\ NextProblem
  /\ UNCHANGED <<run, folder, middleman, differs, warned, history>>

PollImported(p) ==
  /\ Polling(p)
  /\ middleman[p] = "building" /\ Unobjected(p)
  /\ stage[p] = "pending"
  /\ AdvanceTo(p, "imported", "running")
  /\ NextProblem
  /\ UNCHANGED <<run, folder, middleman, differs, warned, history>>

PollReadyUnchecked(p) ==  \* mutant: a READY package is taken at its word
  /\ Polling(p)
  /\ middleman[p] = "ready"
  /\ \E read \in BOOLEAN : warned' = [warned EXCEPT ![p] = ~read]
  /\ AdvanceTo(p, "built", "ok")
  /\ NextProblem
  /\ UNCHANGED <<run, folder, middleman, differs, history>>

\* A manifest that cannot be read, or has no limits, is a warning in the log.
PollReady(p) ==
  /\ Polling(p)
  /\ middleman[p] = "ready"
  /\ \E read \in BOOLEAN :
       ~Objected(p, read) /\ warned' = [warned EXCEPT ![p] = ~read]
  /\ AdvanceTo(p, "built", "ok")
  /\ NextProblem
  /\ UNCHANGED <<run, folder, middleman, differs, history>>

\* 404, whether "not ready" or "unknown job": _download returns and no more.
DownloadNotYet(p) ==
  /\ Downloading(p)
  /\ middleman[p] # "ready"
  /\ NextProblem
  /\ UNCHANGED <<run, rows, folder, middleman, differs, warned, history>>

DownloadRefused(p) ==
  /\ Downloading(p)
  /\ Quarantine(p)

\* The directory is made before the archive is even opened.
DownloadExtract(p) ==
  /\ Downloading(p)
  /\ middleman[p] = "ready"
  /\ folder' = [folder EXCEPT ![p] = "partial"]
  /\ held' = "extracting"
  /\ UNCHANGED <<run, rows, cursor, middleman, differs, warned, history>>

\* zipfile.BadZipFile, or the disk: raised out of the lane.
ExtractRaises ==
  /\ held = "extracting"
  /\ FailRun
  /\ UNCHANGED <<rows, folder, middleman, differs, warned, history>>

\* Everything is extracted and the Windows binaries are pruned.
ExtractDone(p) ==
  /\ cursor = p /\ held = "extracting"
  /\ folder' = [folder EXCEPT ![p] = "complete"]
  /\ held' = "extracted"
  /\ UNCHANGED <<run, rows, cursor, middleman, differs, warned, history>>

SaveShaped(p) ==
  /\ cursor = p /\ held = "extracted"
  /\ AdvanceTo(p, "shaped", "ok")
  /\ NextProblem
  /\ UNCHANGED <<run, folder, middleman, differs, warned, history>>

\* _maybe_finish, once the pass has been through every problem.
FinishPass ==
  /\ cursor = N + 1
  /\ cursor' = 0
  /\ \/ NoneLeft /\ runStatus' = "failed" /\ UNCHANGED runStage
     \/ ~NoneLeft /\ ReadyToUpload /\ runStage' = "upload" /\ UNCHANGED runStatus
     \/ ~NoneLeft /\ ~ReadyToUpload /\ UNCHANGED run
  /\ UNCHANGED <<rows, folder, held, middleman, differs, warned, history>>

LaneStep ==
  \/ BeginPass \/ FinishPass \/ LoseAnswer \/ ExtractRaises
  \/ \E p \in Problem :
       \/ Skip(p) \/ Submit(p) \/ SaveJob(p) \/ RejectSubmit(p) \/ Unreachable(p)
       \/ PollWait(p) \/ PollAgain(p) \/ ClearJob(p) \/ PollHalt(p)
       \/ PollError(p) \/ PollWrongLimits(p) \/ PollImported(p) \/ PollReady(p)
       \/ DownloadNotYet(p) \/ DownloadRefused(p) \/ DownloadExtract(p)
       \/ ExtractDone(p) \/ SaveShaped(p)

-----------------------------------------------------------------------------
(***************************************************************************)
(* The rest of the world: the operator, the process, the Middleman.        *)
(***************************************************************************)

\* The dashboard's (or the mind's) resume of a stopped run.
Resume ==
  /\ runStage = "polygon" /\ runStatus = "failed"
  /\ runStatus' = "running"
  /\ UNCHANGED <<runStage, rows, folder, cursor, held, middleman, differs, warned, history>>

\* Maestro dies inside a pass and is started again: only memory is lost.
Crash ==
  /\ cursor # 0
  /\ Fault /\ LoseUnsaved
  /\ cursor' = 0 /\ held' = "none"
  /\ UNCHANGED <<run, rows, folder, differs, warned, submits>>

\* What the entry says of the limits is decided here: nothing at all (an older
\* Middleman, a pack of tests only) is no finding, whatever limits were taken.
MiddlemanImports(p) ==
  /\ middleman[p] = "importing"
  /\ middleman' = [middleman EXCEPT ![p] = "building"]
  /\ \E b \in BOOLEAN : differs' = [differs EXCEPT ![p] = b]
  /\ UNCHANGED <<run, rows, folder, cursor, held, warned, history>>

MiddlemanBuilds(p) ==
  /\ middleman[p] = "building"
  /\ middleman' = [middleman EXCEPT ![p] = "ready"]
  /\ UNCHANGED <<run, rows, folder, cursor, held, differs, warned, history>>

\* clientAction "retry" (STEP_FAILED, INTERRUPTED) or "halt" (VERIFY_FAILED).
MiddlemanFails(p) ==
  /\ middleman[p] \in {"importing", "building"}
  /\ \E s \in {"stepfailed", "rejected"} :
       middleman' = [middleman EXCEPT ![p] = s]
  /\ UNCHANGED <<run, rows, folder, cursor, held, differs, warned, history>>

MiddlemanStep(p) == MiddlemanImports(p) \/ MiddlemanBuilds(p) \/ MiddlemanFails(p)

MiddlemanRestart ==
  /\ Fault
  /\ \E p \in Problem : Registered(p)
  /\ middleman' = [p \in Problem |-> IF Registered(p) THEN "lost" ELSE middleman[p]]
  /\ lost' = [p \in Problem |-> IF Registered(p) THEN lost[p] + 1 ELSE lost[p]]
  /\ UNCHANGED <<run, rows, folder, cursor, held, differs, warned, submits>>

\* step returns at once when the run has left POLYGON.
StepElsewhere == runStage # "polygon" /\ UNCHANGED vars

Next ==
  \/ LaneStep \/ StepElsewhere
  \/ Resume \/ Crash
  \/ \E p \in Problem : MiddlemanStep(p)
  \/ MiddlemanRestart

Spec == Init /\ [][Next]_vars

(***************************************************************************)
(* The scheduler ticks for ever and a tick steps every live Polygon run;   *)
(* the Middleman finishes, one way or another, every job it still has.     *)
(* Nothing is promised about the operator, crashes or restarts.            *)
(***************************************************************************)
Fairness ==
  /\ WF_vars(LaneStep)
  /\ \A p \in Problem : WF_vars(MiddlemanStep(p))

FairSpec == Spec /\ Fairness

-----------------------------------------------------------------------------
(***************************************************************************)
(* Properties.                                                             *)
(***************************************************************************)

\* A run reaches UPLOAD only with a surviving problem, and every survivor is
\* recorded as shaped and has its whole package in the upload folder, whatever
\* crashes, retries and resumes lie behind it (_maybe_finish, _download).
HandoverComplete ==
  runStage = "upload" =>
    /\ \E p \in Problem : Active(p)
    /\ \A p \in Problem : Active(p) => Shaped(p) /\ folder[p] = "complete"

\* No package is built or shaped whose import says it took limits other than the
\* authored ones, unless the log warns that at the look that found it built the
\* manifest's limits could not be read; the problem may have been imported several
\* times, and an earlier look may have passed it unread (_limits_applied, _limits).
ReportedLimitsAreSent ==
  \A p \in Problem :
    stage[p] \in {"built", "shaped"} /\ differs[p] => warned[p]

\* Two stages poll a job, each with its own retry budget: without faults a
\* problem is imported at most 2 * RetryCap + 1 times, and each lost job pays
\* for one import more (bump_attempt, decide, the reset in set_problem).
RetryBudget ==
  \A p \in Problem : submits[p] <= 2 * RetryCap + 1 + lost[p]

\* A problem that is quarantined or shaped stays so: no late answer, retry or
\* resume brings it back (Store.active, the skip at the head of step).
DecisionsAreFinal ==
  [][\A p \in Problem :
       /\ ~Active(p) => ~Active(p)'
       /\ Shaped(p) => Shaped(p)' ]_vars

\* While the run is stopped nothing is submitted, recorded or extracted.
StoppedRunRests ==
  [][runStatus = "failed" => UNCHANGED <<rows, folder, submits, runStage>>]_vars

\* The lane as a triage: what each problem row and the run row amount to.
Fate(p) ==
  IF ~Active(p) THEN "dropped" ELSE IF Shaped(p) THEN "kept" ELSE "open"
Phase ==
  IF runStage = "upload" THEN "handed"
  ELSE IF runStatus = "failed" THEN "stopped" ELSE "working"
Abstract == INSTANCE Triage
              WITH Items <- Problem, fate <- [p \in Problem |-> Fate(p)], phase <- Phase

\* The lane implements the triage: one decision per problem, none of them taken
\* back by a retry, a crash or a resume, and hand-over only of decided batches.
ImplementsTriage == Abstract!Spec

\* BUILT, and the job it was built by is gone from the Middleman.
BuiltJobLost(p) == Active(p) /\ stage[p] = "built" /\ middleman[p] = "lost"

\* A live run leaves the Polygon stage or stops, unless a problem is left
\* waiting for the package of a job the Middleman has forgotten.
LeavesPolygon ==
  (runStage = "polygon" /\ runStatus = "running")
    ~> \/ runStage = "upload"
       \/ runStatus = "failed"
       \/ \E p \in Problem : BuiltJobLost(p)

-----------------------------------------------------------------------------
(***************************************************************************)
(* The inductive invariant behind the safety properties.                   *)
(***************************************************************************)

\* Stages in which the lane imports and polls.
Importing(p) == stage[p] \in {"pending", "imported"}

\* What the lane holds in memory agrees with the rows it will write.
HeldInv ==
  /\ held # "none" => Active(cursor) /\ ~Shaped(cursor)
  /\ held = "accepted" => Importing(cursor) /\ ~job[cursor]
  /\ held = "bumped" => Importing(cursor) /\ middleman[cursor] \in {"lost", "stepfailed"}
  /\ held \in {"extracting", "extracted"} => stage[cursor] = "built"
  /\ held = "extracted" => folder[cursor] = "complete"

\* A row past BUILT has a sound package; a row without a job has none running.
RowInv(p) ==
  /\ stage[p] = "shaped" => status[p] = "ok" /\ folder[p] = "complete"
  /\ stage[p] \in {"built", "shaped"} =>
       (differs[p] => warned[p]) /\ middleman[p] \in {"ready", "lost", "none"}
  /\ Importing(p) /\ ~job[p] /\ Registered(p) => held = "accepted" /\ cursor = p

RunInv ==
  /\ runStage = "upload" =>
       /\ cursor = 0
       /\ \E p \in Problem : Active(p)
       /\ \A p \in Problem : Active(p) => Shaped(p)
  /\ runStatus = "failed" => cursor = 0

\* Imports paid for: one per counted attempt, one in flight, one per lost job.
InFlight(p) == IF Registered(p) THEN 1 ELSE 0
Spent(p)    == IF stage[p] = "pending" THEN 0 ELSE RetryCap

BudgetInv(p) ==
  /\ submits[p] <= Spent(p) + RetryCap + 1 + lost[p]
  /\ Importing(p) /\ Active(p) =>
       /\ submits[p] <= Spent(p) + attempts[p] + InFlight(p) + lost[p]
       /\ submits[p] <= Spent(p) + RetryCap + InFlight(p) + lost[p]
  /\ held = "bumped" /\ cursor = p =>
       /\ submits[p] <= Spent(p) + attempts[p] + lost[p]
       /\ submits[p] <= Spent(p) + RetryCap + lost[p]

LaneInv ==
  /\ TypeOK
  /\ HeldInv
  /\ \A p \in Problem : RowInv(p)
  /\ RunInv
  /\ \A p \in Problem : BudgetInv(p)

-----------------------------------------------------------------------------
(***************************************************************************)
(* What the documentation says and the code does not do.                   *)
(***************************************************************************)

\* polygon.py, decide: a lost job is re-POSTed, "re-POSTing recovers".  At the
\* download it is not: the problem stays BUILT and the run waits for ever.
LostJobRecovers ==
  \A p \in Problem :
    BuiltJobLost(p) ~> \/ stage[p] = "shaped"
                       \/ ~Active(p)
                       \/ runStatus = "failed"
=============================================================================
