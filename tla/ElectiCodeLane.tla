---------------------------- MODULE ElectiCodeLane ----------------------------
(***************************************************************************)
(* Stages 6, 6.5 and 7 of one run (maestro/electicode_lane.py): upload the *)
(* surviving problems, confirm them in the platform's catalog, and run the *)
(* chore chain over them, one group per --tags-mode.  The audit, stage 8,  *)
(* only reads the platform; here the run ends when it comes to it.         *)
(*                                                                         *)
(* Every tool invocation and every store write is a step of its own: the   *)
(* dashboard's handlers run between them, and so may a crash of Maestro,   *)
(* or an exception that ends the stage.  Either leaves the tool that was   *)
(* at work an orphan, beside whatever the run starts next.  The tools are  *)
(* modelled by what they may do to the platform and by the exit code and   *)
(* events they may answer.                                                 *)
(***************************************************************************)
EXTENDS Integers, FiniteSets

CONSTANTS
  Problem,      \* the problems that survived the Polygon half
  Dropped,      \* quarantined problems whose folder may still be uploaded
  Chores,       \* the chore stages of this batch's plan
  Granted,      \* the scheduler's own --apply
  RetryCap,     \* RETRY_CAP of electicode_lane.py
  MaxRequests,  \* bound: approve and resume requests
  MaxCrashes    \* bound: crashes of Maestro; and one orphan at a time

ChoreKeys == {"fixmdx", "translate", "metadata", "custom", "limits",
              "division", "list-add", "list-reorder"}

ASSUME ProblemAssumption == IsFiniteSet(Problem) /\ Problem # {}
ASSUME DroppedAssumption == Problem \cap Dropped = {}
ASSUME ChoresAssumption == Chores \in SUBSET ChoreKeys
ASSUME GrantedAssumption == Granted \in BOOLEAN
ASSUME RetryCapAssumption == RetryCap \in Nat \ {0}
ASSUME BoundsAssumption == MaxRequests \in Nat /\ MaxCrashes \in Nat

VARIABLES
  runStage,    \* runs.stage
  runStatus,   \* runs.status, BLOCKED split by its reason
  approved,    \* runs.approved
  stage,       \* problems.stage
  attempts,    \* problems.attempts
  existed,     \* problems.existed_before_upload: NULL, 0 or 1
  doneFile,    \* chores-<group>-done.json
  content,     \* what the platform holds under each slug
  times,       \* history: how often a chore stage was applied to a problem
  reset,       \* history: problems whose tags were overwritten, not appended to
  orphan,      \* a tool at work whose caller is gone, and what it has still to do
  before,      \* history: content when the run came to the upload
  pc,          \* where the step in progress is; "idle" between steps
  seen,        \* run.approved as the step in progress read it
  group,       \* the chore group in progress
  left,        \* problems of the current loop still to be handled
  ran,         \* chore stages this invocation of the chain has completed
  inHand,      \* dashboard requests between their read and their write
  setbacks,    \* history: retried faults since a row advanced or a request
  requests,    \* history: approve and resume requests answered
  asked,       \* history: those of them answered during the chores
  crashes      \* history: crashes so far, and exceptions the store did not record

run      == <<runStage, runStatus>>
rows     == <<stage, attempts, existed>>
platform == <<content, times, reset, orphan>>
memory   == <<pc, seen, group, left, ran>>
world    == <<before, requests, asked, crashes>>
vars     == <<run, approved, rows, doneFile, platform, memory, inHand, setbacks, world>>

Slug  == Problem \cup Dropped
Group == {"fresh", "existing"}

\* What a slug's entry shows: nothing there; a title other than the authored one; or
\* no title, the same one, or any if the authored title is blank: this problem's own
\* earlier entry, or another problem's that cannot be told from it.
Entry == {"absent", "earlier", "mistitled"}

Orphan   == [tool : {"none", "upload", "chain"}, group : Group, on : SUBSET Problem,
             todo : SUBSET Chores]
NoOrphan == [tool |-> "none", group |-> "fresh", on |-> {}, todo |-> {}]

RunStatus == {"running", "failed", "expired", "unapproved"}
Request   == {"resume", "approve", "approve-blocked"}

\* Well typed; and between one row's progress or one request and the next at most
\* RetryCap faults are retried, with the run stopped when they are used up (_setback).
TypeOK ==
  /\ runStage \in {"upload", "reconcile", "chores", "audit"}
  /\ runStatus \in RunStatus
  /\ approved \in BOOLEAN
  /\ stage \in [Problem -> {"shaped", "uploaded", "reconciled", "chored"}]
  /\ attempts \in [Problem -> Nat]
  /\ existed \in [Problem -> {"unknown", "no", "yes"}]
  /\ doneFile \in [Group -> SUBSET Chores]
  /\ content \in [Slug -> Entry \cup {"ours"}]
  /\ before \in [Slug -> Entry]
  /\ times \in [Problem -> [Chores -> Nat]]
  /\ reset \in SUBSET Problem
  /\ orphan \in Orphan
  /\ pc \in {"idle", "session", "preview", "record", "applying", "uploaded",
             "scrape", "reconciled", "chores", "chain", "chored"}
  /\ seen \in BOOLEAN
  /\ group \in Group
  /\ left \in SUBSET Problem
  /\ ran \in SUBSET Chores
  /\ inHand \in SUBSET Request
  /\ setbacks \in 0 .. RetryCap /\ (runStatus = "running" => setbacks < RetryCap)
  /\ requests \in 0 .. MaxRequests /\ asked \in 0 .. requests
  /\ crashes \in 0 .. MaxCrashes

Init ==
  /\ runStage = "upload" /\ runStatus = "running" /\ approved = FALSE
  /\ stage = [p \in Problem |-> "shaped"]
  /\ attempts = [p \in Problem |-> 0]
  /\ existed = [p \in Problem |-> "unknown"]
  /\ doneFile = [g \in Group |-> {}]
  /\ before \in [Slug -> Entry]
  /\ content = before
  /\ times = [p \in Problem |-> [k \in Chores |-> 0]]
  /\ reset = {} /\ orphan = NoOrphan
  /\ pc = "idle" /\ seen = FALSE /\ group = "fresh" /\ left = {} /\ ran = {}
  /\ inHand = {}
  /\ setbacks = 0 /\ requests = 0 /\ asked = 0 /\ crashes = 0

-----------------------------------------------------------------------------
(***************************************************************************)
(* What the handlers work from.                                            *)
(***************************************************************************)

\* stage_retryable: which stages survive being run twice, by tags mode.
Replayable(k, g) ==
  \/ k \notin {"metadata", "custom", "list-add"}
  \/ k = "metadata" /\ g = "fresh"

GroupIgnoringUpload(p) == "fresh"   \* mutant

\* chore_groups over the problems not yet chored.
GroupOf(p) == IF existed[p] = "no" THEN "fresh" ELSE "existing"
Pending(g) == {p \in Problem : stage[p] # "chored" /\ GroupOf(p) = g}

\* The first group with work left, fresh before existing.
NextGroup(g) ==
  /\ Pending(g) # {}
  /\ g = "existing" => Pending("fresh") = {}

\* The stages the chain is asked to run (--skip names the others) and has not.
ToDo == Chores \ (doneFile[group] \cup ran)

-----------------------------------------------------------------------------
(***************************************************************************)
(* Ways for a step to end, and pieces of the handlers.                     *)
(***************************************************************************)

\* What a step keeps in memory goes with it.
EndStep == pc' = "idle" /\ seen' = FALSE /\ group' = "fresh" /\ left' = {} /\ ran' = {}

StopAs(newStatus) ==
  /\ runStatus' = newStatus
  /\ EndStep
  /\ UNCHANGED <<runStage, approved, rows, inHand, setbacks, world>>

Fail == StopAs("failed")

NeverExhausted == FALSE             \* mutant

\* The most tried of the problems has now used the budget.
Exhausted == \E p \in Problem : attempts[p] + 1 >= RetryCap

SetbackUncounted ==   \* mutant: the attempt is not counted
  /\ EndStep
  /\ UNCHANGED <<run, approved, rows, inHand, setbacks, world>>

\* _setback of a RETRY that may be repeated: counted on every problem.
Setback ==
  /\ attempts' = [p \in Problem |-> attempts[p] + 1]
  /\ runStatus' = IF Exhausted THEN "failed" ELSE runStatus
  /\ setbacks' = setbacks + 1
  /\ EndStep
  /\ UNCHANGED <<runStage, approved, stage, existed, inHand, world>>

\* A tool that did not exit 0: a RETRY is a setback, all else fails the run.
ToolFails == (Setback \/ Fail) /\ UNCHANGED <<doneFile, platform>>

Refuse == Fail /\ UNCHANGED <<doneFile, platform>>

\* The step is over, the tool it had started is not: an upload goes on with its
\* problems, a chain with the stages it was asked for.
CutLoose ==
  \/ pc \notin {"applying", "chain"} /\ UNCHANGED orphan
  \/ /\ pc = "applying" /\ orphan = NoOrphan
     /\ orphan' = [tool |-> "upload", group |-> "fresh", on |-> {}, todo |-> {}]
  \/ /\ pc = "chain" /\ orphan = NoOrphan
     /\ orphan' = [tool |-> "chain", group |-> group, on |-> left, todo |-> ToDo]

OnlyMemory == UNCHANGED <<run, approved, rows, doneFile, platform, inHand, setbacks, world>>

GoTo(here) == pc' = here /\ UNCHANGED <<seen, group, left, ran>> /\ OnlyMemory

\* The handler turns to writing the rows of S, one transaction each.
MarkAll(here, S) == pc' = here /\ left' = S /\ UNCHANGED <<seen, group, ran>> /\ OnlyMemory

\* set_problem with a stage: progress, so the attempts start again.
Mark(p, newStage) ==
  /\ stage' = [stage EXCEPT ![p] = newStage]
  /\ attempts' = [attempts EXCEPT ![p] = 0]
  /\ setbacks' = 0
  /\ left' = left \ {p}
  /\ UNCHANGED <<run, approved, existed, doneFile, platform, pc, seen, group, ran,
                 inHand, world>>

\* _advance: the run moves on and this step is over.
AdvanceRun(next) ==
  /\ runStage' = next /\ runStatus' = "running"
  /\ EndStep
  /\ UNCHANGED <<approved, rows, doneFile, platform, inHand, setbacks, world>>

-----------------------------------------------------------------------------
(***************************************************************************)
(* step and _preflight: the session, then the gate before a write.         *)
(***************************************************************************)

BeginStep ==
  /\ pc = "idle" /\ runStage # "audit"
  /\ runStatus = "running"
  /\ pc' = "session" /\ seen' = approved
  /\ UNCHANGED <<group, left, ran>> /\ OnlyMemory

SessionExpired == pc = "session" /\ StopAs("expired") /\ UNCHANGED <<doneFile, platform>>

SessionFault == pc = "session" /\ ToolFails

GateOpenForAll == TRUE              \* mutant
GateOpen == Granted \/ seen \/ runStage = "reconcile"

AwaitApproval ==
  /\ pc = "session" /\ ~GateOpen
  /\ StopAs("unapproved") /\ UNCHANGED <<doneFile, platform>>

Enter ==
  /\ pc = "session" /\ GateOpen
  /\ \/ runStage = "upload" /\ GoTo("preview")
     \/ runStage = "reconcile" /\ GoTo("scrape")
     \/ runStage = "chores" /\ GoTo("chores")

-----------------------------------------------------------------------------
(***************************************************************************)
(* Stage 6, _upload.                                                       *)
(***************************************************************************)

PreviewFails == pc = "preview" /\ ToolFails

\* No folder, no rows, or a folder that the modal did not detect.
PreviewIncomplete == pc = "preview" /\ Refuse

\* Refused only if both titles are there and differ; any other entry is overwritten.
Collision == \E p \in Problem : content[p] = "mistitled"

PreviewCollides == pc = "preview" /\ Collision /\ Refuse

PreviewAgrees == pc = "preview" /\ ~Collision /\ GoTo("record")

Recorded(p) == IF content[p] = "absent" THEN "no" ELSE "yes"

RecordAgain(p) ==   \* mutant: not write-once
  /\ pc = "record" /\ existed[p] # Recorded(p)
  /\ existed' = [existed EXCEPT ![p] = Recorded(p)]
  /\ UNCHANGED <<run, approved, stage, attempts, doneFile, platform, memory, inHand,
                 setbacks, world>>

\* Write-once: only the first preview can tell what predated the run.
Record(p) ==
  /\ pc = "record" /\ existed[p] = "unknown"
  /\ existed' = [existed EXCEPT ![p] = Recorded(p)]
  /\ UNCHANGED <<run, approved, stage, attempts, doneFile, platform, memory, inHand,
                 setbacks, world>>

Apply ==
  /\ pc = "record"
  /\ \A p \in Problem : existed[p] # "unknown"
  /\ GoTo("applying")

TickedAll == Slug                   \* mutant: no --only
\* --only: the rows of this run's problems are ticked, all others unticked.
Ticked == Problem

\* The platform takes in the ticked problems in some order.
Takes(s) ==
  /\ pc = "applying" /\ s \in Ticked /\ content[s] # "ours"
  /\ content' = [content EXCEPT ![s] = "ours"]
  /\ UNCHANGED <<run, approved, rows, doneFile, times, reset, orphan, memory, inHand,
                 setbacks, world>>

ApplyFails == pc = "applying" /\ ToolFails

\* Exit 0, which does not say that every problem was taken.
ApplySucceeds == pc = "applying" /\ MarkAll("uploaded", Problem)

MarkUploaded(p) == pc = "uploaded" /\ p \in left /\ Mark(p, "uploaded")

FinishUpload == pc = "uploaded" /\ left = {} /\ AdvanceRun("reconcile")

-----------------------------------------------------------------------------
(***************************************************************************)
(* Stage 6.5, _reconcile.                                                  *)
(***************************************************************************)

ScrapeFails == pc = "scrape" /\ ToolFails

MissingUnseen == FALSE              \* mutant
Missing == \E p \in Problem : content[p] = "absent"

CatalogLacksSome == pc = "scrape" /\ Missing /\ Refuse

CatalogHasAll == pc = "scrape" /\ ~Missing /\ MarkAll("reconciled", Problem)

MarkReconciled(p) == pc = "reconciled" /\ p \in left /\ Mark(p, "reconciled")

FinishReconcileEarly == pc = "reconciled" /\ AdvanceRun("chores")   \* mutant
FinishReconcile == pc = "reconciled" /\ left = {} /\ AdvanceRun("chores")

-----------------------------------------------------------------------------
(***************************************************************************)
(* Stage 7, _chores: one chain per group.                                  *)
(***************************************************************************)

\* No characteristics file, or one that does not render for the group.
NoCharacteristics == pc = "chores" /\ Refuse

StartChain(g) ==
  /\ pc = "chores" /\ NextGroup(g)
  /\ pc' = "chain" /\ group' = g /\ left' = Pending(g)
  /\ UNCHANGED <<seen, ran>> /\ OnlyMemory

\* A chain for group g applies some stages to the problems of S.
ApplyTo(g, S, ks) ==
  /\ times' = [p \in Problem |-> [k \in Chores |->
                 IF p \in S /\ k \in ks THEN times[p][k] + 1 ELSE times[p][k]]]
  /\ reset' = IF "metadata" \in ks /\ g = "fresh" THEN reset \cup S ELSE reset
  /\ UNCHANGED content

ApplyChores(ks) == ApplyTo(group, left, ks) /\ UNCHANGED orphan

ChoreRuns(k) ==
  /\ pc = "chain" /\ k \in ToDo
  /\ ApplyChores({k})
  /\ ran' = ran \cup {k}
  /\ UNCHANGED <<run, approved, rows, doneFile, pc, seen, group, left, inHand,
                 setbacks, world>>

RecordNothing(ks) == UNCHANGED doneFile   \* mutant
\* _stages_done: what the chain completed is not asked of it again.
RecordDone(ks) == doneFile' = [doneFile EXCEPT ![group] = @ \cup ks]

ChoreFailsCounted(k) ==   \* mutant: the stage that failed counts as done
  /\ pc = "chain" /\ k \in ToDo
  /\ ApplyChores({k}) \/ UNCHANGED platform
  /\ RecordDone(ran \cup {k})
  /\ (Replayable(k, group) /\ Setback) \/ Fail

\* A stage failed, after it took effect or before.  It is repeated only if the
\* fault is transient and the stage replayable.
ChoreFails(k) ==
  /\ pc = "chain" /\ k \in ToDo
  /\ ApplyChores({k}) \/ UNCHANGED platform
  /\ RecordDone(ran)
  /\ (Replayable(k, group) /\ Setback) \/ Fail

\* The tool was killed, and no event names a stage that failed.
ChainKilled ==
  /\ pc = "chain"
  /\ UNCHANGED platform \/ \E k \in ToDo : ApplyChores({k})
  /\ RecordDone(ran)
  /\ Fail

\* Exit 0 and not believed: an empty plan, dropped tags, or a problem that did
\* not join the list.  What the chain completed is not recorded.
ChainDisbelieved ==
  /\ pc = "chain" /\ ToDo = {}
  /\ ran = {} \/ "metadata" \in ran \/ "list-add" \in ran
  /\ Refuse

ChainSucceeds ==
  /\ pc = "chain" /\ ToDo = {} /\ ran # {}
  /\ pc' = "chored" /\ ran' = {}
  /\ UNCHANGED <<seen, group, left>> /\ OnlyMemory

MarkChored(p) == pc = "chored" /\ p \in left /\ Mark(p, "chored")

FinishGroup == pc = "chored" /\ left = {} /\ GoTo("chores")

FinishChores ==
  /\ pc = "chores" /\ \A g \in Group : Pending(g) = {}
  /\ AdvanceRun("audit")

\* Scheduler._crash: whatever raises in a stage fails the run, and nothing is noted of
\* what a chain had completed.  The heartbeat's exception leaves its tool at work.
StageRaises == pc # "idle" /\ Fail /\ CutLoose /\ UNCHANGED <<doneFile, content, times, reset>>

LaneStep ==
  \/ BeginStep \/ SessionExpired \/ SessionFault \/ AwaitApproval \/ Enter
  \/ PreviewFails \/ PreviewIncomplete \/ PreviewCollides \/ PreviewAgrees
  \/ Apply \/ ApplyFails \/ ApplySucceeds \/ FinishUpload
  \/ ScrapeFails \/ CatalogLacksSome \/ CatalogHasAll \/ FinishReconcile
  \/ NoCharacteristics \/ ChainKilled \/ ChainDisbelieved \/ ChainSucceeds
  \/ FinishGroup \/ FinishChores \/ StageRaises
  \/ \E s \in Slug : Takes(s)
  \/ \E p \in Problem : Record(p) \/ MarkUploaded(p) \/ MarkReconciled(p) \/ MarkChored(p)
  \/ \E g \in Group : StartChain(g)
  \/ \E k \in Chores : ChoreRuns(k) \/ ChoreFails(k)

-----------------------------------------------------------------------------
(***************************************************************************)
(* The dashboard's handlers, and a crash of Maestro.                       *)
(***************************************************************************)

\* Bound: as many requests are under way as may still be answered.
MayAsk == requests + Cardinality(inHand) < MaxRequests

\* do_POST reads the run; _resume returns at once unless it is stopped.
ReadResume ==
  /\ runStatus # "running" /\ MayAsk
  /\ inHand' = inHand \cup {"resume"}
  /\ UNCHANGED <<run, approved, rows, doneFile, platform, memory, setbacks, world>>

ReadApprove ==
  /\ MayAsk
  /\ inHand' = inHand \cup
       {IF runStatus \in {"expired", "unapproved"} THEN "approve-blocked" ELSE "approve"}
  /\ UNCHANGED <<run, approved, rows, doneFile, platform, memory, setbacks, world>>

\* What was read decides what is written, whatever the run has become.
Answer(r) ==
  /\ r \in inHand
  /\ requests < MaxRequests
  /\ inHand' = inHand \ {r} /\ requests' = requests + 1
  /\ asked' = IF runStage = "chores" THEN asked + 1 ELSE asked
  /\ approved' = (approved \/ r # "resume")
  /\ IF r = "approve" THEN UNCHANGED <<runStatus, setbacks>>
                      ELSE runStatus' = "running" /\ setbacks' = 0
  /\ UNCHANGED <<runStage, rows, doneFile, platform, memory, before, crashes>>

\* Maestro is killed inside a step, and a tool it had started is detached and runs on;
\* or the stage raises while the store fails, so that the run is not even stopped.
Crash ==
  /\ pc # "idle"
  /\ crashes < MaxCrashes /\ crashes' = crashes + 1
  /\ EndStep /\ CutLoose
  /\ inHand' \in {{}, inHand}
  /\ UNCHANGED <<run, approved, rows, doneFile, content, times, reset, setbacks, before,
                 requests, asked>>

Unattended ==
  UNCHANGED <<run, approved, rows, doneFile, memory, inHand, setbacks, world>>

OrphanTakes(s) ==
  /\ orphan.tool = "upload" /\ s \in Ticked /\ content[s] # "ours"
  /\ content' = [content EXCEPT ![s] = "ours"]
  /\ Unattended /\ UNCHANGED <<times, reset, orphan>>

OrphanRuns(k) ==
  /\ orphan.tool = "chain" /\ k \in orphan.todo
  /\ ApplyTo(orphan.group, orphan.on, {k})
  /\ orphan' = [orphan EXCEPT !.todo = @ \ {k}]
  /\ Unattended

\* It ends, whenever it likes and however much it has done.
OrphanEnds ==
  /\ orphan.tool # "none"
  /\ orphan' = NoOrphan
  /\ Unattended /\ UNCHANGED <<content, times, reset>>

OrphanStep ==
  \/ OrphanEnds
  \/ \E s \in Slug : OrphanTakes(s)
  \/ \E k \in Chores : OrphanRuns(k)

\* step returns at once for a run that is stopped or elsewhere.
StepReturns ==
  /\ pc = "idle" /\ (runStage = "audit" \/ runStatus # "running")
  /\ UNCHANGED vars

Next ==
  \/ LaneStep \/ StepReturns \/ Crash \/ OrphanStep
  \/ ReadResume \/ ReadApprove \/ \E r \in Request : Answer(r)

Spec == Init /\ [][Next]_vars

(***************************************************************************)
(* The scheduler steps a live run again and again, and every tool returns  *)
(* within its timeout.  Nothing is promised about operators or crashes.    *)
(***************************************************************************)
Fairness == WF_vars(LaneStep)

FairSpec == Spec /\ Fairness

-----------------------------------------------------------------------------
(***************************************************************************)
(* Properties.                                                             *)
(***************************************************************************)

\* Only a problem that was new to the platform has its tags overwritten; one that
\* carried labels of its own is appended to (chore_groups, --tags-mode).  For that the
\* flag tells what was there before the run, not before the last attempt: a retry
\* after a partial upload sees its own work as existing (_upload).
ExistedIsTruthful ==
  \A p \in Problem : existed[p] # "unknown" => (existed[p] = "yes" <=> before[p] # "absent")

LabelsSurvive == ExistedIsTruthful /\ \A p \in reset : before[p] = "absent"

\* Nothing but this run's own problems is uploaded, and never onto an entry that shows
\* a title other than the authored one, whatever else is in the upload folder and
\* whichever tool outlives its run (--only, _identity_error).
OnlyOwnContent ==
  [][\A s \in Slug : content'[s] # content[s] => s \in Problem /\ content[s] # "mistitled"]_vars

\* Every write to the platform was granted, and is made for a running run, unless by a
\* tool that a crash or an exception cut loose from its stage: that one goes on although
\* its run is FAILED, or has gone on to something else (_preflight, _crash).
WritesAreGranted ==
  [][content' # content \/ times' # times =>
       (Granted \/ approved) /\ (runStatus = "running" \/ orphan # NoOrphan)]_vars

\* Chores are run on problems the platform has: an upload that exits 0 and takes in
\* nothing is caught before it is built upon (_reconcile).  And no chore is skipped that
\* never ran on the problem, however often the chain was stopped, resumed, killed and
\* regrouped (_stages_done, --skip).
ChoredMeansAllApplied ==
  /\ runStage \in {"chores", "audit"} => \A p \in Problem : content[p] # "absent"
  /\ \A p \in Problem : stage[p] = "chored" => \A k \in Chores : times[p][k] >= 1

\* Maestro by itself never repeats a stage that cannot be replayed: each repetition needs
\* an operator's request or a crash, the orphan of an earlier attempt included, which
\* may apply a stage beside the chain that does it again (stage_retryable).
NotRepeatedUnasked ==
  \A p \in Problem, k \in Chores :
    Replayable(k, GroupOf(p)) \/ times[p][k] <= 1 + asked + crashes

\* The stages as a convoy: rows are written one by one and a crash may fall
\* between any two, yet no problem enters a stage before all have left the last.
DoneOf(p) ==
  CASE stage[p] = "shaped" -> 0 [] stage[p] = "uploaded" -> 1
    [] stage[p] = "reconciled" -> 2 [] stage[p] = "chored" -> 3
PhaseOf ==
  CASE runStage = "upload" -> 0 [] runStage = "reconcile" -> 1
    [] runStage = "chores" -> 2 [] runStage = "audit" -> 3
Abstract == INSTANCE Convoy
              WITH Items <- Problem, Phases <- 3, phase <- PhaseOf,
                   done <- [p \in Problem |-> DoneOf(p)],
                   stopped <- (runStatus # "running")

\* The lane implements the convoy, through every retry, crash and resume.
ImplementsConvoy == Abstract!Spec

\* A running run comes to the audit or stops and says why: no fault is retried
\* for ever.
Settles == runStatus = "running" ~> (runStage = "audit" \/ runStatus # "running")

-----------------------------------------------------------------------------
(***************************************************************************)
(* What the documentation says and the code does not do.                   *)
(***************************************************************************)

\* _chores: a retry "resumes at the group that failed".  A chain killed after its
\* last stage is noted as complete; every later attempt has an empty plan, is
\* taken for one that did nothing, and fails.
FailedGroupCanResume ==
  pc = "idle" => \A g \in Group : Pending(g) # {} => doneFile[g] # Chores
=============================================================================
