------------------------- MODULE ElectiCodeLaneProofs -------------------------
(***************************************************************************)
(* Proofs about ElectiCodeLane, for every batch, plan of chores, retry cap *)
(* and number of requests and crashes.                                     *)
(***************************************************************************)
EXTENDS ElectiCodeLane, TLAPS

\* A step is taken by a running run, in the stage its handler belongs to, and what
\* it has run of a chain is forgotten with the chain.
StepInv ==
  /\ pc # "idle" => runStatus = "running" /\ runStage # "audit"
  /\ pc \in {"preview", "record", "applying", "uploaded"} => runStage = "upload"
  /\ pc \in {"scrape", "reconciled"} => runStage = "reconcile"
  /\ pc \in {"chores", "chain", "chored"} => runStage = "chores"
  /\ pc # "chain" => ran = {}

\* Past its session check, a step that may write was granted the right to; and a tool
\* that has lost its caller was started by such a step.
GateInv ==
  /\ seen => approved
  /\ orphan.tool # "none" => Granted \/ approved
  /\ pc \notin {"idle", "session"} => runStage = "reconcile" \/ Granted \/ seen

\* The faults retried in a row are among the attempts counted on every problem.
BudgetInv == \A p \in Problem : setbacks <= attempts[p]

\* Until a problem's origin is recorded its entry is as the run found it, and from the
\* apply on all are recorded; nothing is applied onto an entry seen to be another's.
OriginInv ==
  /\ \A p \in Problem : existed[p] = "unknown" => content[p] = before[p]
  /\ pc \in {"applying", "uploaded"} \/ runStage # "upload" \/ orphan.tool # "none" =>
       \A p \in Problem : existed[p] # "unknown"
  /\ pc \in {"record", "applying"} \/ orphan.tool = "upload" =>
       \A p \in Problem : content[p] # "mistitled"
  /\ orphan.tool = "chain" /\ orphan.group = "fresh" =>
       \A p \in orphan.on : existed[p] = "no"

\* The loops over rows: what is left of the loop has still to be written, and the rows
\* are never further apart than one stage.
RowsInv ==
  /\ runStage = "upload" => \A p \in Problem : stage[p] \in {"shaped", "uploaded"}
  /\ runStage = "reconcile" => \A p \in Problem : stage[p] \in {"uploaded", "reconciled"}
  /\ runStage = "chores" => \A p \in Problem : stage[p] \in {"reconciled", "chored"}
  /\ runStage = "audit" => \A p \in Problem : stage[p] = "chored"
  /\ pc = "uploaded" => \A p \in Problem \ left : stage[p] = "uploaded"
  /\ pc = "reconciled" => \A p \in Problem \ left : stage[p] = "reconciled"
  /\ pc \in {"chain", "chored"} => left = Pending(group)

\* The catalog had every problem when the run came out of reconcile, or is about to.
PresentInv == pc = "reconciled" => \A p \in Problem : content[p] # "absent"

\* The skip list of a group names what was applied to all of the group.
DoneInv ==
  /\ runStage \in {"upload", "reconcile"} =>
       /\ orphan.tool # "chain"
       /\ \A g \in Group : doneFile[g] = {}
       /\ \A p \in Problem, k \in Chores : times[p][k] = 0
  /\ \A p \in Problem, k \in Chores : k \in doneFile[GroupOf(p)] => times[p][k] >= 1
  /\ pc = "chain" => \A p \in left, k \in ran : times[p][k] >= 1
  /\ pc = "chored" => \A p \in left, k \in Chores : times[p][k] >= 1

\* A chore that the run may come to apply to p by itself, as things stand.
MayRun(p, k) ==
  /\ runStatus = "running" /\ stage[p] # "chored"
  /\ k \notin doneFile[GroupOf(p)]
  /\ ~(pc = "chain" /\ p \in left /\ k \in ran)
  /\ ~(pc = "chored" /\ p \in left)

\* The applications that an orphan may still make are counted with those made: the
\* request or the crash that they are owed to is in the past.
Owed(p, k) ==
  IF orphan.tool = "chain" /\ p \in orphan.on /\ k \in orphan.todo THEN 1 ELSE 0
Counted(p, k) == times[p][k] + Owed(p, k)

\* Between two requests or crashes, a chore that cannot be replayed is either out of the
\* run's reach or not yet applied ...
Rested(p, k) ==
  ~Replayable(k, GroupOf(p)) /\ MayRun(p, k) => Counted(p, k) <= asked + crashes

\* ... so that it is applied at most once.
OnceEach(p, k) == Replayable(k, GroupOf(p)) \/ Counted(p, k) <= 1 + asked + crashes

RepeatInv == \A p \in Problem, k \in Chores : Rested(p, k) /\ OnceEach(p, k)

LaneInv ==
  /\ TypeOK /\ StepInv /\ GateInv /\ BudgetInv /\ OriginInv /\ LabelsSurvive /\ RowsInv
  /\ PresentInv /\ DoneInv /\ ChoredMeansAllApplied /\ RepeatInv

-----------------------------------------------------------------------------
(***************************************************************************)
(* What the ways to end a step, and the pieces of the handlers, do.        *)
(***************************************************************************)

\* The steps that give up before or after a tool call, without a trace on the platform.
GivesUp ==
  \/ SessionExpired \/ SessionFault \/ AwaitApproval \/ PreviewFails \/ PreviewIncomplete
  \/ PreviewCollides \/ ApplyFails \/ ScrapeFails \/ CatalogLacksSome \/ NoCharacteristics
  \/ ChainDisbelieved

\* The chains that are cut short; what they completed is recorded.
CutsChain == ChainKilled \/ \E k \in Chores : ChoreFails(k)

\* The steps that only go on in the handler.
GoesOn ==
  \/ BeginStep \/ Enter \/ PreviewAgrees \/ Apply \/ ApplySucceeds \/ CatalogHasAll
  \/ ChainSucceeds \/ FinishGroup \/ \E g \in Group : StartChain(g)

\* The step is over, the tool it had started is not.
Abandons == StageRaises \/ Crash

Advances == FinishUpload \/ FinishReconcile \/ FinishChores

Marks(p) == MarkUploaded(p) \/ MarkReconciled(p) \/ MarkChored(p)

\* Every step is one of these; the lemmas below go through them.
LEMMA StepCases ==
  ASSUME [Next]_vars
  PROVE  \/ GivesUp \/ CutsChain \/ GoesOn \/ Advances
         \/ \E p \in Problem : Record(p) \/ Marks(p)
         \/ \E s \in Slug : Takes(s)
         \/ \E k \in Chores : ChoreRuns(k)
         \/ ReadResume \/ ReadApprove \/ (\E r \in Request : Answer(r))
         \/ Abandons \/ OrphanStep
         \/ UNCHANGED vars
  BY DEF Next, LaneStep, GivesUp, CutsChain, GoesOn, Advances, Abandons, Marks, StepReturns

\* The step and what it kept in memory are gone.
Ended == pc' = "idle" /\ left' = {} /\ ran' = {} /\ seen' = FALSE /\ group' \in Group

\* A setback or a stop ends the step, and is all that happens to the run.
LEMMA StopEffect ==
  ASSUME TypeOK, Setback \/ \E s \in {"failed", "expired", "unapproved"} : StopAs(s)
  PROVE  /\ Ended
         /\ runStatus' \in {"failed", "expired", "unapproved"} \/ UNCHANGED runStatus
         /\ attempts' \in [Problem -> Nat]
         /\ UNCHANGED <<runStage, approved, stage, existed, inHand, world>>
  BY DEF TypeOK, Setback, StopAs, EndStep, Ended, Group, run, rows

LEMMA GiveUpEffect ==
  ASSUME TypeOK, GivesUp
  PROVE  /\ Ended
         /\ runStatus' \in {"failed", "expired", "unapproved"} \/ UNCHANGED runStatus
         /\ pc = "chain" => runStatus' = "failed"
         /\ pc \notin {"idle", "chored"}
         /\ UNCHANGED <<runStage, approved, stage, existed, inHand, world, doneFile, platform>>
  <1> USE DEF GivesUp, SessionExpired, SessionFault, AwaitApproval, PreviewFails,
              PreviewIncomplete, PreviewCollides, ApplyFails, ScrapeFails, CatalogLacksSome,
              NoCharacteristics, ChainDisbelieved, ToolFails, Refuse, Fail
  <1>1. Setback \/ \E s \in {"failed", "expired", "unapproved"} : StopAs(s)
    OBVIOUS
  <1>2. UNCHANGED <<doneFile, platform>> /\ pc \notin {"idle", "chored"}
    OBVIOUS
  <1>3. pc = "chain" => runStatus' = "failed"
    BY DEF StopAs
  <1> QED
    BY <1>1, <1>2, <1>3, StopEffect

\* What a chore does to the history of the problems in hand.
LEMMA ApplyEffect ==
  ASSUME TypeOK, NEW ks \in SUBSET Chores, ApplyChores(ks)
  PROVE  /\ times' \in [Problem -> [Chores -> Nat]]
         /\ \A p \in Problem, k \in Chores :
              times'[p][k] = IF p \in left /\ k \in ks THEN times[p][k] + 1 ELSE times[p][k]
         /\ reset' \in SUBSET Problem
         /\ reset' = reset \/ (group = "fresh" /\ reset' = reset \cup left)
         /\ UNCHANGED <<content, orphan>>
  BY DEF TypeOK, ApplyChores, ApplyTo

\* A chain cut short has applied at most one stage more, and is repeated without a
\* request only if that stage survives it.
LEMMA CutEffect ==
  ASSUME TypeOK, CutsChain
  PROVE  /\ pc = "chain" /\ Ended
         /\ \E ks \in SUBSET ToDo :
              /\ \/ ApplyChores(ks) \/ (ks = {} /\ UNCHANGED platform)
              /\ \/ runStatus' \in {"failed"}
                 \/ UNCHANGED runStatus /\ \A k \in ks : Replayable(k, group)
         /\ RecordDone(ran)
         /\ UNCHANGED <<runStage, approved, stage, existed, inHand, world>>
  <1>1. CASE ChainKilled
    <2>1. PICK ks \in SUBSET ToDo : ApplyChores(ks) \/ (ks = {} /\ UNCHANGED platform)
      BY <1>1 DEF ChainKilled
    <2> QED
      BY <1>1, <2>1 DEF ChainKilled, Fail, StopAs, EndStep, Ended, Group, run, rows
  <1>2. ASSUME NEW k \in Chores, ChoreFails(k)
        PROVE  /\ pc = "chain" /\ Ended
               /\ \E ks \in SUBSET ToDo :
                    /\ \/ ApplyChores(ks) \/ (ks = {} /\ UNCHANGED platform)
                    /\ \/ runStatus' \in {"failed"}
                       \/ UNCHANGED runStatus /\ \A j \in ks : Replayable(j, group)
               /\ RecordDone(ran)
               /\ UNCHANGED <<runStage, approved, stage, existed, inHand, world>>
    <2>1. \E ks \in SUBSET ToDo :
            /\ \A j \in ks : j = k
            /\ ApplyChores(ks) \/ (ks = {} /\ UNCHANGED platform)
      BY <1>2 DEF ChoreFails
    <2>2. (Replayable(k, group) /\ Setback) \/ Fail
      BY <1>2 DEF ChoreFails
    <2>3. \/ Replayable(k, group) /\ runStatus' \in {"failed", runStatus}
          \/ runStatus' = "failed"
      BY <2>2 DEF Setback, Fail, StopAs
    <2>4. Setback \/ \E s \in {"failed", "expired", "unapproved"} : StopAs(s)
      BY <2>2 DEF Fail
    <2>5. pc = "chain" /\ RecordDone(ran)
      BY <1>2 DEF ChoreFails
    <2> QED
      BY <2>1, <2>3, <2>4, <2>5, StopEffect
  <1> QED
    BY <1>1, <1>2 DEF CutsChain

LEMMA GoOnEffect ==
  ASSUME TypeOK, GoesOn
  PROVE  /\ pc' \in {"session", "preview", "scrape", "chores", "record", "applying", "uploaded",
                     "reconciled", "chain", "chored"}
         /\ seen' \in BOOLEAN /\ group' \in Group /\ left' \in SUBSET Problem
         /\ ran' \in SUBSET Chores
         /\ OnlyMemory
  BY DEF TypeOK, GoesOn, BeginStep, Enter, PreviewAgrees, Apply, ApplySucceeds, CatalogHasAll,
     ChainSucceeds, FinishGroup, StartChain, GoTo, MarkAll, Pending

LEMMA AdvanceEffect ==
  ASSUME Advances
  PROVE  /\ pc \in {"uploaded", "reconciled", "chores"}
         /\ Ended /\ runStatus' = "running"
         /\ runStage' \in {"reconcile", "chores", "audit"}
         /\ UNCHANGED <<approved, rows, doneFile, platform, inHand, setbacks, world>>
  BY DEF Advances, FinishUpload, FinishReconcile, FinishChores, AdvanceRun, EndStep, Ended,
     Group

LEMMA MarkEffect ==
  ASSUME TypeOK, NEW p \in Problem, Marks(p)
  PROVE  /\ p \in left /\ left' = left \ {p} /\ setbacks' = 0
         /\ attempts' = [attempts EXCEPT ![p] = 0]
         /\ \/ pc = "uploaded" /\ stage' = [stage EXCEPT ![p] = "uploaded"]
            \/ pc = "reconciled" /\ stage' = [stage EXCEPT ![p] = "reconciled"]
            \/ pc = "chored" /\ stage' = [stage EXCEPT ![p] = "chored"]
         /\ UNCHANGED <<run, approved, existed, doneFile, platform, pc, seen, group, ran,
                        inHand, world>>
  BY DEF Marks, MarkUploaded, MarkReconciled, MarkChored, Mark

\* What becomes of a tool whose step is over.
LEMMA CutLooseEffect ==
  ASSUME TypeOK, CutLoose
  PROVE  /\ orphan' \in Orphan
         /\ \/ UNCHANGED orphan
            \/ /\ pc = "applying" /\ orphan.tool = "none"
               /\ orphan'.tool = "upload"
            \/ /\ pc = "chain" /\ orphan.tool = "none"
               /\ orphan'.tool = "chain" /\ orphan'.group = group
               /\ orphan'.on = left /\ orphan'.todo = ToDo
  <1>1. CASE pc \notin {"applying", "chain"} /\ UNCHANGED orphan
    BY <1>1 DEF TypeOK
  <1>2. CASE pc = "applying" /\ orphan = NoOrphan
             /\ orphan' = [tool |-> "upload", group |-> "fresh", on |-> {}, todo |-> {}]
    <2>1. orphan.tool = "none"
      BY <1>2 DEF NoOrphan
    <2> QED
      BY <1>2, <2>1 DEF Orphan, Group
  <1>3. CASE pc = "chain" /\ orphan = NoOrphan
             /\ orphan' = [tool |-> "chain", group |-> group, on |-> left, todo |-> ToDo]
    <2>1. orphan.tool = "none"
      BY <1>3 DEF NoOrphan
    <2>2. group \in Group /\ left \in SUBSET Problem /\ ToDo \in SUBSET Chores
      BY DEF TypeOK, ToDo
    <2> QED
      BY <1>3, <2>1, <2>2 DEF Orphan
  <1> QED
    BY <1>1, <1>2, <1>3 DEF CutLoose

\* A crash, or an exception in the stage, loses the step in progress and writes nothing.
LEMMA AbandonEffect ==
  ASSUME TypeOK, Abandons
  PROVE  /\ pc # "idle" /\ Ended /\ CutLoose
         /\ inHand' \in SUBSET Request
         /\ \/ runStatus' = "failed" /\ UNCHANGED crashes
            \/ UNCHANGED runStatus /\ crashes < MaxCrashes /\ crashes' = crashes + 1
         /\ UNCHANGED <<runStage, approved, rows, doneFile, content, times, reset, setbacks,
                        before, requests, asked>>
  <1>1. CASE StageRaises
    BY <1>1 DEF TypeOK, StageRaises, Fail, StopAs, EndStep, Ended, Group, world
  <1>2. CASE Crash
    BY <1>2 DEF TypeOK, Crash, EndStep, Ended, Group, run
  <1> QED
    BY <1>1, <1>2 DEF Abandons

LEMMA AbandonedTool ==
  ASSUME TypeOK, Abandons
  PROVE  /\ orphan' \in Orphan
         /\ \/ UNCHANGED orphan
            \/ /\ pc = "applying" /\ orphan.tool = "none"
               /\ orphan'.tool = "upload"
            \/ /\ pc = "chain" /\ orphan.tool = "none"
               /\ orphan'.tool = "chain" /\ orphan'.group = group
               /\ orphan'.on = left /\ orphan'.todo = ToDo
  BY AbandonEffect, CutLooseEffect

\* A tool without a caller touches the platform only, and does what is left to it.
LEMMA OrphanEffect ==
  ASSUME TypeOK, OrphanStep
  PROVE  /\ Unattended
         /\ orphan' \in Orphan
         /\ \/ orphan' = NoOrphan /\ UNCHANGED <<content, times, reset>>
            \/ /\ orphan.tool = "upload"
               /\ UNCHANGED <<times, reset, orphan>>
               /\ content' \in [Slug -> Entry \cup {"ours"}]
               /\ \A s \in Slug : content'[s] # content[s] => s \in Problem /\ content'[s] = "ours"
            \/ \E k \in Chores : OrphanRuns(k)
  <1>1. CASE OrphanEnds
    BY <1>1 DEF OrphanEnds, NoOrphan, Orphan, Group
  <1>2. ASSUME NEW s \in Slug, OrphanTakes(s)
        PROVE  /\ Unattended /\ orphan' \in Orphan /\ orphan.tool = "upload"
               /\ UNCHANGED <<times, reset, orphan>>
               /\ content' \in [Slug -> Entry \cup {"ours"}]
               /\ \A r \in Slug : content'[r] # content[r] => r \in Problem /\ content'[r] = "ours"
    BY <1>2 DEF OrphanTakes, Ticked, TypeOK
  <1>3. ASSUME NEW k \in Chores, OrphanRuns(k)
        PROVE  Unattended /\ orphan' \in Orphan
    BY <1>3 DEF OrphanRuns, TypeOK, Orphan
  <1> QED
    BY <1>1, <1>2, <1>3 DEF OrphanStep

\* A chore of an orphan: of the group and on the problems it was started for.
LEMMA OrphanRunsEffect ==
  ASSUME TypeOK, NEW j \in Chores, OrphanRuns(j)
  PROVE  /\ orphan.tool = "chain" /\ j \in orphan.todo
         /\ orphan'.tool = "chain" /\ orphan'.group = orphan.group /\ orphan'.on = orphan.on
         /\ orphan'.todo = orphan.todo \ {j}
         /\ times' \in [Problem -> [Chores -> Nat]]
         /\ \A p \in Problem, k \in Chores :
              times'[p][k] = IF p \in orphan.on /\ k = j THEN times[p][k] + 1 ELSE times[p][k]
         /\ reset' \in SUBSET Problem
         /\ reset' = reset \/ (orphan.group = "fresh" /\ reset' = reset \cup orphan.on)
         /\ UNCHANGED content /\ Unattended
  <1>1. orphan \in Orphan
    BY DEF TypeOK
  <1>2. orphan' = [orphan EXCEPT !.todo = @ \ {j}]
    BY DEF OrphanRuns
  <1>3. /\ orphan'.tool = orphan.tool /\ orphan'.group = orphan.group
        /\ orphan'.on = orphan.on /\ orphan'.todo = orphan.todo \ {j}
    BY <1>1, <1>2 DEF Orphan
  <1>4. orphan.on \in SUBSET Problem /\ orphan.tool = "chain" /\ j \in orphan.todo
    BY <1>1 DEF Orphan, OrphanRuns
  <1>5. ApplyTo(orphan.group, orphan.on, {j}) /\ Unattended
    BY DEF OrphanRuns
  <1>6. \A p \in Problem, k \in Chores : times[p][k] \in Nat
    BY DEF TypeOK
  <1>7. reset \in SUBSET Problem
    BY DEF TypeOK
  <1> QED
    BY <1>3, <1>4, <1>5, <1>6, <1>7 DEF ApplyTo

LEMMA AnswerEffect ==
  ASSUME TypeOK, NEW r \in Request, Answer(r)
  PROVE  /\ requests < MaxRequests /\ requests' = requests + 1
         /\ asked' = IF runStage = "chores" THEN asked + 1 ELSE asked
         /\ inHand' = inHand \ {r}
         /\ approved' \in BOOLEAN /\ (approved => approved')
         /\ \/ UNCHANGED <<runStatus, setbacks>>
            \/ runStatus' = "running" /\ setbacks' = 0
         /\ UNCHANGED <<runStage, rows, doneFile, platform, memory, before, crashes>>
  <1>1. approved' \in BOOLEAN /\ (approved => approved')
    BY Zenon DEF TypeOK, Answer
  <1> QED
    BY <1>1 DEF Answer

\* A request that was read is all that these change.
LEMMA ReadEffect ==
  ASSUME TypeOK, ReadResume \/ ReadApprove
  PROVE  /\ inHand' \in SUBSET Request
         /\ UNCHANGED <<run, approved, rows, doneFile, platform, memory, setbacks, world>>
  BY DEF TypeOK, ReadResume, ReadApprove, MayAsk, Request

\* An orphan comes of a step that is over, and is what it was until it ends.
LEMMA WhoseOrphan ==
  ASSUME TypeOK, [Next]_vars
  PROVE  \/ UNCHANGED orphan
         \/ Abandons
         \/ orphan' = NoOrphan
         \/ \E k \in Chores : OrphanRuns(k)
  <1> USE DEF platform
  <1>1. CASE GivesUp \/ GoesOn \/ Advances
    BY <1>1, GiveUpEffect, GoOnEffect, AdvanceEffect DEF OnlyMemory
  <1>2. CASE CutsChain
    <2>1. PICK ks \in SUBSET ToDo : ApplyChores(ks) \/ (ks = {} /\ UNCHANGED platform)
      BY <1>2, CutEffect
    <2> QED
      BY <2>1 DEF ApplyChores
  <1>3. ASSUME NEW p \in Problem, Record(p) \/ Marks(p) PROVE UNCHANGED orphan
    BY <1>3, MarkEffect DEF Record
  <1>4. ASSUME NEW s \in Slug, Takes(s) PROVE UNCHANGED orphan
    BY <1>4 DEF Takes
  <1>5. ASSUME NEW k \in Chores, ChoreRuns(k) PROVE UNCHANGED orphan
    BY <1>5 DEF ChoreRuns, ApplyChores
  <1>6. CASE ReadResume \/ ReadApprove
    BY <1>6, ReadEffect
  <1>7. ASSUME NEW r \in Request, Answer(r) PROVE UNCHANGED orphan
    BY <1>7, AnswerEffect
  <1>8. CASE OrphanStep
    BY <1>8, OrphanEffect
  <1>9. CASE UNCHANGED vars
    BY <1>9 DEF vars
  <1> QED
    BY <1>1, <1>2, <1>3, <1>4, <1>5, <1>6, <1>7, <1>8, <1>9, StepCases

-----------------------------------------------------------------------------
(***************************************************************************)
(* The preservation of each part.                                          *)
(***************************************************************************)

LEMMA StepPreserved == TypeOK /\ StepInv /\ [Next]_vars => StepInv'
  <1> SUFFICES ASSUME TypeOK, StepInv, [Next]_vars PROVE StepInv'
    OBVIOUS
  <1> USE DEF StepInv, Ended, Unattended, run, rows, platform, memory, world
  <1>1. CASE GivesUp
    BY <1>1, GiveUpEffect
  <1>2. CASE CutsChain
    BY <1>2, CutEffect
  <1>3. CASE GoesOn
    BY <1>3 DEF GoesOn, BeginStep, Enter, PreviewAgrees, Apply, ApplySucceeds, CatalogHasAll,
       ChainSucceeds, FinishGroup, StartChain, GoTo, MarkAll, OnlyMemory, TypeOK
  <1>4. CASE Advances
    BY <1>4, AdvanceEffect
  <1>5. ASSUME NEW p \in Problem, Record(p) PROVE StepInv'
    BY <1>5 DEF Record
  <1>6. ASSUME NEW p \in Problem, Marks(p) PROVE StepInv'
    BY <1>6, MarkEffect
  <1>7. ASSUME NEW s \in Slug, Takes(s) PROVE StepInv'
    BY <1>7 DEF Takes
  <1>8. ASSUME NEW k \in Chores, ChoreRuns(k) PROVE StepInv'
    BY <1>8 DEF ChoreRuns
  <1>9. CASE ReadResume \/ ReadApprove
    BY <1>9, ReadEffect
  <1>10. ASSUME NEW r \in Request, Answer(r) PROVE StepInv'
    BY <1>10, AnswerEffect
  <1>11. CASE Abandons
    BY <1>11, AbandonEffect
  <1>12. CASE OrphanStep
    BY <1>12, OrphanEffect
  <1>13. CASE UNCHANGED vars
    BY <1>13 DEF vars
  <1> QED
    BY <1>1, <1>2, <1>3, <1>4, <1>5, <1>6, <1>7, <1>8, <1>9, <1>10, <1>11, <1>12, <1>13, StepCases

\* What a step has seen of the approval stays true: an approval is not taken back.
LEMMA GatePreserved == TypeOK /\ StepInv /\ GateInv /\ [Next]_vars => GateInv'
  <1> SUFFICES ASSUME TypeOK, StepInv, GateInv, [Next]_vars PROVE GateInv'
    OBVIOUS
  <1> USE DEF StepInv, GateInv, Ended, Unattended, run, rows, platform, memory, world
  <1>1. CASE GivesUp
    BY <1>1, GiveUpEffect
  <1>2. CASE CutsChain
    BY <1>2, CutEffect, WhoseOrphan
  <1>3. CASE GoesOn
    BY <1>3 DEF GoesOn, BeginStep, Enter, GateOpen, PreviewAgrees, Apply, ApplySucceeds,
       CatalogHasAll, ChainSucceeds, FinishGroup, StartChain, GoTo, MarkAll, OnlyMemory
  <1>4. CASE Advances
    BY <1>4, AdvanceEffect
  <1>5. ASSUME NEW p \in Problem, Record(p) PROVE GateInv'
    BY <1>5 DEF Record
  <1>6. ASSUME NEW p \in Problem, Marks(p) PROVE GateInv'
    BY <1>6, MarkEffect
  <1>7. ASSUME NEW s \in Slug, Takes(s) PROVE GateInv'
    BY <1>7 DEF Takes
  <1>8. ASSUME NEW k \in Chores, ChoreRuns(k) PROVE GateInv'
    BY <1>8 DEF ChoreRuns, ApplyChores
  <1>9. CASE ReadResume \/ ReadApprove
    BY <1>9, ReadEffect
  <1>10. ASSUME NEW r \in Request, Answer(r) PROVE GateInv'
    BY <1>10, AnswerEffect
  <1>11. CASE Abandons
    <2>1. pc' = "idle" /\ seen' = FALSE /\ approved' = approved
      BY <1>11, AbandonEffect
    <2>2. orphan'.tool # "none" => orphan.tool # "none" \/ pc \in {"applying", "chain"}
      BY <1>11, AbandonedTool
    <2>3. orphan'.tool # "none" => Granted \/ approved'
      BY <2>1, <2>2
    <2>4. ~seen' /\ ~(pc' \notin {"idle", "session"})
      BY <2>1
    <2> QED
      BY <2>3, <2>4
  <1>12. CASE OrphanStep
    <2>1. orphan'.tool # "none" => orphan.tool # "none"
      BY <1>12, OrphanEffect, OrphanRunsEffect DEF NoOrphan
    <2>2. UNCHANGED <<pc, seen, approved, runStage>>
      BY <1>12, OrphanEffect
    <2> QED
      BY <2>1, <2>2
  <1>13. CASE UNCHANGED vars
    BY <1>13 DEF vars
  <1> QED
    BY <1>1, <1>2, <1>3, <1>4, <1>5, <1>6, <1>7, <1>8, <1>9, <1>10, <1>11, <1>12, <1>13, StepCases

\* The steps that count a fault, and the ones that only stop the run.
LEMMA FaultEffect ==
  ASSUME TypeOK, StepInv, BudgetInv, GivesUp \/ CutsChain
  PROVE  /\ runStatus' \in RunStatus
         /\ attempts' \in [Problem -> Nat]
         /\ setbacks' \in 0 .. RetryCap /\ (runStatus' = "running" => setbacks' < RetryCap)
         /\ \A p \in Problem : setbacks' <= attempts'[p]
  <1> USE RetryCapAssumption, ProblemAssumption
      DEF TypeOK, StepInv, BudgetInv, RunStatus, run, rows
  <1>1. pc # "idle"
    BY GiveUpEffect, CutEffect
  <1>2. CASE Setback
    <2>1. \A p \in Problem : attempts'[p] = attempts[p] + 1
      BY <1>2 DEF Setback
    <2>2. ~Exhausted => setbacks + 1 < RetryCap
      BY DEF Exhausted
    <2> QED
      BY <1>1, <1>2, <2>1, <2>2 DEF Setback
  <1>3. ASSUME NEW s \in {"failed", "expired", "unapproved"}, StopAs(s)
        PROVE  /\ runStatus' \in RunStatus
               /\ attempts' \in [Problem -> Nat]
               /\ setbacks' \in 0 .. RetryCap /\ (runStatus' = "running" => setbacks' < RetryCap)
               /\ \A p \in Problem : setbacks' <= attempts'[p]
    BY <1>3 DEF StopAs
  <1> HIDE DEF TypeOK, StepInv, BudgetInv
  <1>4. Setback \/ \E s \in {"failed", "expired", "unapproved"} : StopAs(s)
    BY DEF GivesUp, CutsChain, SessionExpired, SessionFault, AwaitApproval, PreviewFails,
       PreviewIncomplete, PreviewCollides, ApplyFails, ScrapeFails, CatalogLacksSome,
       NoCharacteristics, ChainDisbelieved, ChainKilled, ChoreFails, ToolFails, Refuse, Fail
  <1> QED
    BY <1>2, <1>3, <1>4

\* The variables of a step keep their types, and the retried faults their bound.
LEMMA TypePreserved ==
  TypeOK /\ StepInv /\ BudgetInv /\ [Next]_vars => TypeOK' /\ BudgetInv'
  <1> SUFFICES ASSUME TypeOK, StepInv, BudgetInv, [Next]_vars PROVE TypeOK' /\ BudgetInv'
    OBVIOUS
  <1> USE RetryCapAssumption, BoundsAssumption
      DEF TypeOK, StepInv, BudgetInv, RunStatus, Ended, run, rows, platform, memory, world
  <1>1. CASE GivesUp
    BY <1>1, GiveUpEffect, FaultEffect
  <1>2. CASE CutsChain
    <2>1. PICK ks \in SUBSET ToDo : ApplyChores(ks) \/ (ks = {} /\ UNCHANGED platform)
      BY <1>2, CutEffect
    <2>2. ks \in SUBSET Chores
      BY <2>1 DEF ToDo
    <2>3. /\ times' \in [Problem -> [Chores -> Nat]] /\ reset' \in SUBSET Problem
          /\ UNCHANGED <<content, orphan>>
      BY <2>1, <2>2, ApplyEffect
    <2>4. RecordDone(ran)
      BY <1>2, CutEffect
    <2>5. doneFile' \in [Group -> SUBSET Chores]
      BY <2>4 DEF RecordDone
    <2> QED
      BY <1>2, <2>3, <2>5, CutEffect, FaultEffect
  <1>3. CASE GoesOn
    BY <1>3, GoOnEffect DEF OnlyMemory
  <1>4. CASE Advances
    BY <1>4, AdvanceEffect
  <1>5. ASSUME NEW p \in Problem, Record(p) PROVE TypeOK' /\ BudgetInv'
    BY <1>5 DEF Record, Recorded
  <1>6. ASSUME NEW p \in Problem, Marks(p) PROVE TypeOK' /\ BudgetInv'
    <2>1. stage' \in [Problem -> {"shaped", "uploaded", "reconciled", "chored"}]
      BY <1>6, MarkEffect
    <2>2. attempts' \in [Problem -> Nat] /\ setbacks' = 0
      BY <1>6, MarkEffect
    <2> QED
      BY <1>6, <2>1, <2>2, MarkEffect
  <1>7. ASSUME NEW s \in Slug, Takes(s) PROVE TypeOK' /\ BudgetInv'
    BY <1>7 DEF Takes
  <1>8. ASSUME NEW k \in Chores, ChoreRuns(k) PROVE TypeOK' /\ BudgetInv'
    BY <1>8, ApplyEffect DEF ChoreRuns
  <1>9. CASE ReadResume \/ ReadApprove
    BY <1>9, ReadEffect
  <1>10. ASSUME NEW r \in Request, Answer(r) PROVE TypeOK' /\ BudgetInv'
    BY <1>10, AnswerEffect
  <1>11. CASE Abandons
    <2>1. orphan' \in Orphan
      BY <1>11, AbandonedTool
    <2>2. runStatus' \in RunStatus /\ (runStatus' = "running" => UNCHANGED runStatus)
      BY <1>11, AbandonEffect
    <2>3. crashes' \in 0 .. MaxCrashes
      <3>1. UNCHANGED crashes \/ (crashes < MaxCrashes /\ crashes' = crashes + 1)
        BY <1>11, AbandonEffect
      <3>2. crashes \in 0 .. MaxCrashes /\ MaxCrashes \in Nat
        OBVIOUS
      <3> HIDE DEF TypeOK
      <3> QED
        BY <3>1, <3>2
    <2>4. Ended /\ inHand' \in SUBSET Request
          /\ UNCHANGED <<runStage, approved, rows, doneFile, content, times, reset, setbacks,
                         before, requests, asked>>
      BY <1>11, AbandonEffect
    <2> QED
      BY <2>1, <2>2, <2>3, <2>4
  <1>12. CASE OrphanStep
    <2>1. ASSUME NEW k \in Chores, OrphanRuns(k)
          PROVE  /\ times' \in [Problem -> [Chores -> Nat]] /\ reset' \in SUBSET Problem
                 /\ UNCHANGED content
      BY <2>1, OrphanRunsEffect
    <2>2. /\ times' \in [Problem -> [Chores -> Nat]] /\ reset' \in SUBSET Problem
          /\ content' \in [Slug -> Entry \cup {"ours"}]
      BY <1>12, <2>1, OrphanEffect
    <2> QED
      BY <1>12, <2>2, OrphanEffect DEF Unattended
  <1>13. CASE UNCHANGED vars
    BY <1>13 DEF vars
  <1> QED
    BY <1>1, <1>2, <1>3, <1>4, <1>5, <1>6, <1>7, <1>8, <1>9, <1>10, <1>11, <1>12, <1>13, StepCases

-----------------------------------------------------------------------------
(***************************************************************************)
(* Who writes to the platform, and what was there before.                  *)
(***************************************************************************)

\* The upload writes, and then only this run's work; and the chain writes; either may
\* have lost its caller.
LEMMA WhoWrites ==
  ASSUME TypeOK, [Next]_vars
  PROVE  /\ content' # content =>
              /\ pc = "applying" \/ orphan.tool = "upload"
              /\ content' \in [Slug -> Entry \cup {"ours"}]
              /\ \A s \in Slug : content'[s] # content[s] => s \in Problem /\ content'[s] = "ours"
         /\ \/ UNCHANGED <<times, reset>>
            \/ pc = "chain" /\ \E ks \in SUBSET ToDo : ApplyChores(ks)
            \/ \E k \in Chores : OrphanRuns(k)
  <1> DEFINE Goal == /\ content' # content =>
                          /\ pc = "applying" \/ orphan.tool = "upload"
                          /\ content' \in [Slug -> Entry \cup {"ours"}]
                          /\ \A s \in Slug : content'[s] # content[s] =>
                               s \in Problem /\ content'[s] = "ours"
                     /\ \/ UNCHANGED <<times, reset>>
                        \/ pc = "chain" /\ \E ks \in SUBSET ToDo : ApplyChores(ks)
                        \/ \E k \in Chores : OrphanRuns(k)
  <1> USE DEF platform
  <1>1. CASE GivesUp
    BY <1>1, GiveUpEffect
  <1>2. CASE CutsChain
    BY <1>2, CutEffect DEF ApplyChores, ApplyTo
  <1>3. CASE GoesOn
    BY <1>3, GoOnEffect DEF OnlyMemory
  <1>4. CASE Advances
    BY <1>4, AdvanceEffect
  <1>5. ASSUME NEW p \in Problem, Record(p) \/ Marks(p) PROVE Goal
    BY <1>5, MarkEffect DEF Record
  <1>6. ASSUME NEW s \in Slug, Takes(s) PROVE Goal
    BY <1>6 DEF Takes, Ticked, TypeOK
  <1>7. ASSUME NEW k \in Chores, ChoreRuns(k) PROVE Goal
    <2>1. {k} \in SUBSET ToDo
      BY <1>7 DEF ChoreRuns
    <2> QED
      BY <1>7, <2>1 DEF ChoreRuns, ApplyChores, ApplyTo
  <1>8. CASE ReadResume \/ ReadApprove
    BY <1>8, ReadEffect
  <1>9. ASSUME NEW r \in Request, Answer(r) PROVE Goal
    BY <1>9, AnswerEffect
  <1>10. CASE Abandons
    BY <1>10, AbandonEffect
  <1>11. CASE OrphanStep
    BY <1>11, OrphanEffect, OrphanRunsEffect
  <1>12. CASE UNCHANGED vars
    BY <1>12 DEF vars
  <1> QED
    BY <1>1, <1>2, <1>3, <1>4, <1>5, <1>6, <1>7, <1>8, <1>9, <1>10, <1>11, <1>12, StepCases

\* The record of a problem's origin is written once, and what it tells of never changes.
LEMMA WhoRecords ==
  ASSUME TypeOK, [Next]_vars
  PROVE  /\ UNCHANGED before
         /\ UNCHANGED existed \/ \E p \in Problem : Record(p)
  <1> USE DEF rows, world
  <1>1. CASE GivesUp \/ CutsChain \/ GoesOn \/ Advances
    BY <1>1, GiveUpEffect, CutEffect, GoOnEffect, AdvanceEffect DEF OnlyMemory
  <1>2. ASSUME NEW p \in Problem, Record(p) \/ Marks(p)
        PROVE UNCHANGED before /\ (UNCHANGED existed \/ \E q \in Problem : Record(q))
    BY <1>2, MarkEffect DEF Record
  <1>3. ASSUME NEW s \in Slug, Takes(s) PROVE UNCHANGED <<before, existed>>
    BY <1>3 DEF Takes
  <1>4. ASSUME NEW k \in Chores, ChoreRuns(k) PROVE UNCHANGED <<before, existed>>
    BY <1>4 DEF ChoreRuns
  <1>5. CASE ReadResume \/ ReadApprove \/ Abandons \/ OrphanStep
    BY <1>5, ReadEffect, AbandonEffect, OrphanEffect DEF Unattended
  <1>6. ASSUME NEW r \in Request, Answer(r) PROVE UNCHANGED <<before, existed>>
    BY <1>6, AnswerEffect
  <1>7. CASE UNCHANGED vars
    BY <1>7 DEF vars
  <1> QED
    BY <1>1, <1>2, <1>3, <1>4, <1>5, <1>6, <1>7, StepCases

LEMMA RecordEffect ==
  ASSUME TypeOK, NEW p \in Problem, Record(p)
  PROVE  /\ pc = "record" /\ existed[p] = "unknown"
         /\ existed'[p] = Recorded(p)
         /\ \A q \in Problem : q # p => existed'[q] = existed[q]
         /\ UNCHANGED <<run, approved, stage, attempts, doneFile, platform, memory, inHand,
                        setbacks, world>>
  BY DEF TypeOK, Record

\* Where a step may go in the upload stage, and how the run leaves it.
LEMMA UploadPath ==
  ASSUME TypeOK, StepInv, [Next]_vars
  PROVE  /\ pc' = "record" => (UNCHANGED pc \/ (pc = "preview" /\ ~Collision))
         /\ pc' = "applying" => (UNCHANGED pc \/ \A p \in Problem : existed[p] # "unknown")
         /\ pc' = "applying" => pc \in {"record", "applying"}
         /\ pc' = "uploaded" => pc \in {"applying", "uploaded"}
         /\ runStage' # "upload" => runStage # "upload" \/ pc = "uploaded"
  <1> DEFINE Goal == /\ pc' = "record" => (UNCHANGED pc \/ (pc = "preview" /\ ~Collision))
                     /\ pc' = "applying" => (UNCHANGED pc \/ \A p \in Problem : existed[p] # "unknown")
                     /\ pc' = "applying" => pc \in {"record", "applying"}
                     /\ pc' = "uploaded" => pc \in {"applying", "uploaded"}
                     /\ runStage' # "upload" => runStage # "upload" \/ pc = "uploaded"
  <1> USE DEF Ended, run, rows, platform, memory, world
  <1>1. CASE GivesUp \/ CutsChain
    BY <1>1, GiveUpEffect, CutEffect
  <1>2. CASE GoesOn
    BY <1>2 DEF GoesOn, BeginStep, Enter, PreviewAgrees, Apply, ApplySucceeds,
       CatalogHasAll, ChainSucceeds, FinishGroup, StartChain, GoTo, MarkAll, OnlyMemory
  <1>3. CASE Advances
    BY <1>3 DEF Advances, FinishUpload, FinishReconcile, FinishChores, AdvanceRun, EndStep,
       StepInv
  <1>4. ASSUME NEW p \in Problem, Record(p) \/ Marks(p) PROVE Goal
    BY <1>4, MarkEffect DEF Record
  <1>5. ASSUME NEW s \in Slug, Takes(s) PROVE Goal
    BY <1>5 DEF Takes
  <1>6. ASSUME NEW k \in Chores, ChoreRuns(k) PROVE Goal
    BY <1>6 DEF ChoreRuns
  <1>7. CASE ReadResume \/ ReadApprove \/ Abandons \/ OrphanStep
    BY <1>7, ReadEffect, AbandonEffect, OrphanEffect DEF Unattended
  <1>8. ASSUME NEW r \in Request, Answer(r) PROVE Goal
    BY <1>8, AnswerEffect
  <1>9. CASE UNCHANGED vars
    BY <1>9 DEF vars
  <1> QED
    BY <1>1, <1>2, <1>3, <1>4, <1>5, <1>6, <1>7, <1>8, <1>9, StepCases

\* The record is made before the first write, of what was there then.
LEMMA OriginPreserved ==
  TypeOK /\ StepInv /\ OriginInv /\ RowsInv /\ [Next]_vars => OriginInv'
  <1> SUFFICES ASSUME TypeOK, StepInv, OriginInv, RowsInv, [Next]_vars PROVE OriginInv'
    OBVIOUS
  <1> USE DEF Slug
  <1>1. \A p \in Problem : existed[p] # "unknown" => existed'[p] = existed[p]
    BY WhoRecords, RecordEffect DEF TypeOK
  <1>2. \A p \in Problem : existed'[p] = "unknown" => content'[p] = before'[p]
    <2> SUFFICES ASSUME NEW p \in Problem, existed'[p] = "unknown"
                 PROVE content'[p] = before'[p]
      OBVIOUS
    <2>1. existed[p] = "unknown" /\ content[p] = before[p] /\ before' = before
      BY <1>1, WhoRecords DEF OriginInv
    <2>2. pc # "applying" /\ orphan.tool # "upload"
      BY <2>1 DEF OriginInv
    <2> QED
      BY <2>1, <2>2, WhoWrites
  <1>3. /\ orphan'.tool = "upload" => orphan.tool = "upload" \/ pc = "applying"
        /\ orphan'.tool = "chain" =>
             \/ orphan.tool = "chain" /\ orphan'.group = orphan.group /\ orphan'.on = orphan.on
             \/ pc = "chain" /\ orphan'.group = group /\ orphan'.on = left
        /\ orphan'.tool \in {"none", "upload", "chain"}
    <2>1. CASE UNCHANGED orphan
      BY <2>1 DEF TypeOK, Orphan
    <2>2. CASE Abandons
      BY <2>2, AbandonedTool DEF Orphan
    <2>3. CASE orphan' = NoOrphan
      BY <2>3 DEF NoOrphan
    <2>4. ASSUME NEW k \in Chores, OrphanRuns(k)
          PROVE  orphan.tool = "chain" /\ orphan'.tool = "chain"
                 /\ orphan'.group = orphan.group /\ orphan'.on = orphan.on
      BY <2>4, OrphanRunsEffect
    <2> QED
      BY <2>1, <2>2, <2>3, <2>4, WhoseOrphan
  <1>4. pc' \in {"applying", "uploaded"} \/ runStage' # "upload" \/ orphan'.tool # "none" =>
          \A p \in Problem : existed'[p] # "unknown"
    <2>1. orphan'.tool # "none" => \A p \in Problem : existed[p] # "unknown"
      BY <1>3 DEF OriginInv, StepInv
    <2> QED
      BY <1>1, <2>1, UploadPath DEF OriginInv
  <1>5. pc' \in {"record", "applying"} \/ orphan'.tool = "upload" =>
          \A p \in Problem : content'[p] # "mistitled"
    <2> SUFFICES ASSUME pc' \in {"record", "applying"} \/ orphan'.tool = "upload",
                        NEW p \in Problem
                 PROVE content'[p] # "mistitled"
      OBVIOUS
    <2>1. content[p] # "mistitled"
      BY <1>3, UploadPath DEF OriginInv, Collision
    <2>2. content'[p] = content[p] \/ content'[p] = "ours"
      BY WhoWrites
    <2> QED
      BY <2>1, <2>2
  <1>6. orphan'.tool = "chain" /\ orphan'.group = "fresh" =>
          \A p \in orphan'.on : existed'[p] = "no"
    <2> SUFFICES ASSUME orphan'.tool = "chain", orphan'.group = "fresh", NEW p \in orphan'.on
                 PROVE existed'[p] = "no"
      OBVIOUS
    <2>1. CASE orphan.tool = "chain" /\ orphan'.group = orphan.group /\ orphan'.on = orphan.on
      <3>1. p \in Problem /\ existed[p] = "no"
        BY <2>1 DEF OriginInv, TypeOK, Orphan
      <3> QED
        BY <1>1, <3>1
    <2>2. CASE pc = "chain" /\ orphan'.group = group /\ orphan'.on = left
      <3>1. p \in Problem /\ existed[p] = "no"
        BY <2>2 DEF RowsInv, Pending, GroupOf
      <3> QED
        BY <1>1, <3>1
    <2> QED
      BY <1>3, <2>1, <2>2
  <1> QED
    BY <1>2, <1>4, <1>5, <1>6 DEF OriginInv

\* A chain in the fresh mode is run on problems that were new to the platform.
LEMMA LabelsPreserved ==
  TypeOK /\ OriginInv /\ RowsInv /\ LabelsSurvive /\ [Next]_vars => LabelsSurvive'
  <1> SUFFICES ASSUME TypeOK, OriginInv, RowsInv, LabelsSurvive, [Next]_vars
               PROVE LabelsSurvive'
    OBVIOUS
  <1>1. before' = before
    BY WhoRecords
  <1>2. ExistedIsTruthful'
    <2>1. CASE UNCHANGED existed
      BY <1>1, <2>1 DEF LabelsSurvive, ExistedIsTruthful
    <2>2. ASSUME NEW p \in Problem, Record(p) PROVE ExistedIsTruthful'
      BY <1>1, <2>2, RecordEffect DEF LabelsSurvive, ExistedIsTruthful, Recorded, OriginInv, TypeOK
    <2> QED
      BY <2>1, <2>2, WhoRecords
  <1>3. \A p \in reset' : before[p] = "absent"
    <2>1. CASE reset' = reset
      BY <2>1 DEF LabelsSurvive
    <2>2. ASSUME pc = "chain", NEW ks \in SUBSET ToDo, ApplyChores(ks)
          PROVE \A p \in reset' : before[p] = "absent"
      <3>1. ks \in SUBSET Chores
        BY DEF ToDo
      <3>2. reset' = reset \/ (group = "fresh" /\ reset' = reset \cup left)
        BY <2>2, <3>1, ApplyEffect
      <3>3. group = "fresh" => \A p \in left : existed[p] = "no" /\ p \in Problem
        BY <2>2 DEF RowsInv, Pending, GroupOf
      <3> QED
        BY <3>2, <3>3 DEF LabelsSurvive, ExistedIsTruthful
    <2>3. ASSUME NEW k \in Chores, OrphanRuns(k)
          PROVE \A p \in reset' : before[p] = "absent"
      <3>1. /\ orphan.tool = "chain"
            /\ reset' = reset \/ (orphan.group = "fresh" /\ reset' = reset \cup orphan.on)
        BY <2>3, OrphanRunsEffect
      <3>2. orphan.group = "fresh" => \A p \in orphan.on : existed[p] = "no" /\ p \in Problem
        BY <3>1 DEF OriginInv, TypeOK, Orphan
      <3> QED
        BY <3>1, <3>2 DEF LabelsSurvive, ExistedIsTruthful
    <2> QED
      BY <2>1, <2>2, <2>3, WhoWrites
  <1> QED
    BY <1>1, <1>2, <1>3 DEF LabelsSurvive

-----------------------------------------------------------------------------
(***************************************************************************)
(* The rows, and the problems the platform has.                            *)
(***************************************************************************)

\* Where the rows of a stage may stand.
StageRows ==
  /\ runStage = "upload" => \A p \in Problem : stage[p] \in {"shaped", "uploaded"}
  /\ runStage = "reconcile" => \A p \in Problem : stage[p] \in {"uploaded", "reconciled"}
  /\ runStage = "chores" => \A p \in Problem : stage[p] \in {"reconciled", "chored"}
  /\ runStage = "audit" => \A p \in Problem : stage[p] = "chored"

\* What has been written of the loop in hand, and what is left of it.
LoopRows ==
  /\ pc = "uploaded" => \A p \in Problem \ left : stage[p] = "uploaded"
  /\ pc = "reconciled" => \A p \in Problem \ left : stage[p] = "reconciled"
  /\ pc \in {"chain", "chored"} => left = Pending(group)

LEMMA RowsSplit == (RowsInv <=> StageRows /\ LoopRows) /\ (RowsInv' <=> StageRows' /\ LoopRows')
  BY DEF RowsInv, StageRows, LoopRows

LEMMA GroupOfType == ASSUME NEW p \in Problem PROVE GroupOf(p) \in Group /\ GroupOf(p)' \in Group
  BY DEF GroupOf, Group

\* The rows move on together: a stage is left when the last row has been written.
LEMMA RowsPreserved == TypeOK /\ StepInv /\ RowsInv /\ [Next]_vars => RowsInv'
  <1> SUFFICES ASSUME TypeOK, StepInv, RowsInv, [Next]_vars PROVE RowsInv'
    OBVIOUS
  <1> USE DEF Ended, run, rows, memory
  <1>1. CASE GivesUp \/ CutsChain
    BY <1>1, GiveUpEffect, CutEffect DEF RowsInv
  <1>2. CASE GoesOn
    <2>1. UNCHANGED <<runStage, stage, existed>>
      BY <1>2, GoOnEffect DEF OnlyMemory
    <2>2. StageRows'
      BY <2>1, RowsSplit DEF StageRows
    <2>3. \A g \in Group : Pending(g)' = Pending(g)
      BY <2>1 DEF Pending, GroupOf
    <2>4. LoopRows'
      <3>1. pc' = "uploaded" \/ pc' = "reconciled" => left' = Problem
        BY <1>2 DEF GoesOn, BeginStep, Enter, PreviewAgrees, Apply, ApplySucceeds,
           CatalogHasAll, ChainSucceeds, FinishGroup, StartChain, GoTo, MarkAll
      <3>2. pc' \in {"chain", "chored"} => left' = Pending(group)' /\ group' \in Group
        <4>1. pc' \in {"chain", "chored"} =>
                ChainSucceeds \/ \E g \in Group : StartChain(g)
          BY <1>2 DEF GoesOn, BeginStep, Enter, PreviewAgrees, Apply, ApplySucceeds,
             CatalogHasAll, FinishGroup, GoTo, MarkAll
        <4>2. ChainSucceeds => left' = Pending(group)
          BY RowsSplit DEF ChainSucceeds, LoopRows
        <4>3. ChainSucceeds => group' = group /\ group \in Group
          BY DEF ChainSucceeds, TypeOK
        <4>4. ASSUME NEW g \in Group, StartChain(g) PROVE group' = g /\ left' = Pending(g)
          BY <4>4 DEF StartChain
        <4>5. Pending(group)' = {p \in Problem : stage[p] # "chored" /\ GroupOf(p) = group'}
          BY <2>1 DEF Pending, GroupOf
        <4> QED
          BY <4>1, <4>2, <4>3, <4>4, <4>5 DEF Pending
      <3> QED
        BY <3>1, <3>2 DEF LoopRows
    <2> QED
      BY <2>2, <2>4, RowsSplit
  <1>3. CASE Advances
    <2>1. LoopRows'
      BY <1>3, AdvanceEffect DEF LoopRows
    <2>2. CASE FinishUpload
      BY <2>1, <2>2, RowsSplit DEF FinishUpload, AdvanceRun, StageRows, LoopRows
    <2>3. CASE FinishReconcile
      BY <2>1, <2>3, RowsSplit DEF FinishReconcile, AdvanceRun, StageRows, LoopRows
    <2>4. CASE FinishChores
      <3>1. \A p \in Problem : stage[p] = "chored"
        BY <2>4, GroupOfType DEF FinishChores, Pending
      <3> QED
        BY <2>1, <2>4, <3>1, RowsSplit DEF FinishChores, AdvanceRun, StageRows
    <2> QED
      BY <1>3, <2>2, <2>3, <2>4 DEF Advances
  <1>4. ASSUME NEW p \in Problem, Record(p) PROVE RowsInv'
    BY <1>4, RecordEffect DEF RowsInv
  <1>5. ASSUME NEW p \in Problem, Marks(p) PROVE RowsInv'
    <2>1. \A q \in Problem : q # p => stage'[q] = stage[q]
      BY <1>5, MarkEffect DEF TypeOK
    <2>2. \/ pc = "uploaded" /\ stage'[p] = "uploaded"
          \/ pc = "reconciled" /\ stage'[p] = "reconciled"
          \/ pc = "chored" /\ stage'[p] = "chored"
      BY <1>5, MarkEffect DEF TypeOK
    <2>3. StageRows'
      BY <1>5, <2>1, <2>2, RowsSplit, MarkEffect DEF StageRows, StepInv
    <2>4. LoopRows'
      <3>1. pc = "chored" => left' = Pending(group)'
        <4> SUFFICES ASSUME pc = "chored" PROVE left' = Pending(group)'
          OBVIOUS
        <4>1. left' = Pending(group) \ {p} /\ UNCHANGED <<existed, group>>
          BY <1>5, RowsSplit, MarkEffect DEF LoopRows
        <4> QED
          BY <2>1, <2>2, <4>1 DEF Pending, GroupOf
      <3> QED
        BY <1>5, <2>1, <2>2, <3>1, RowsSplit, MarkEffect DEF LoopRows
    <2> QED
      BY <2>3, <2>4, RowsSplit
  <1>6. ASSUME NEW s \in Slug, Takes(s) PROVE RowsInv'
    BY <1>6 DEF Takes, RowsInv, Pending, GroupOf
  <1>7. ASSUME NEW k \in Chores, ChoreRuns(k) PROVE RowsInv'
    BY <1>7 DEF ChoreRuns, RowsInv, Pending, GroupOf
  <1>8. CASE ReadResume \/ ReadApprove
    BY <1>8, ReadEffect DEF RowsInv, Pending, GroupOf
  <1>9. ASSUME NEW r \in Request, Answer(r) PROVE RowsInv'
    BY <1>9, AnswerEffect DEF RowsInv, Pending, GroupOf
  <1>10. CASE Abandons
    BY <1>10, AbandonEffect DEF RowsInv
  <1>11. CASE OrphanStep
    BY <1>11, OrphanEffect DEF Unattended, RowsInv, Pending, GroupOf
  <1>12. CASE UNCHANGED vars
    BY <1>12 DEF vars, RowsInv, Pending, GroupOf
  <1> QED
    BY <1>1, <1>2, <1>3, <1>4, <1>5, <1>6, <1>7, <1>8, <1>9, <1>10, <1>11, <1>12, StepCases

\* Chores are run on problems the platform has.
AllPresent == runStage \in {"chores", "audit"} => \A p \in Problem : content[p] # "absent"

\* Only the reconcile lets the run on to the chores, and nothing is taken from the platform.
LEMMA PresentPreserved ==
  TypeOK /\ StepInv /\ PresentInv /\ AllPresent /\ [Next]_vars => PresentInv' /\ AllPresent'
  <1> SUFFICES ASSUME TypeOK, StepInv, PresentInv, AllPresent, [Next]_vars
               PROVE PresentInv' /\ AllPresent'
    OBVIOUS
  <1>1. \A p \in Problem : content[p] # "absent" => content'[p] # "absent"
    BY WhoWrites DEF Slug
  <1>2. /\ pc' = "reconciled" => pc = "reconciled" \/ CatalogHasAll
        /\ runStage' \in {"chores", "audit"} => runStage \in {"chores", "audit"} \/ pc = "reconciled"
    <2> DEFINE Goal == /\ pc' = "reconciled" => pc = "reconciled" \/ CatalogHasAll
                       /\ runStage' \in {"chores", "audit"} =>
                            runStage \in {"chores", "audit"} \/ pc = "reconciled"
    <2> USE DEF Ended, run, rows, memory
    <2>1. CASE GivesUp \/ CutsChain
      BY <2>1, GiveUpEffect, CutEffect
    <2>2. CASE GoesOn
      BY <2>2, GoOnEffect DEF GoesOn, BeginStep, Enter, PreviewAgrees, Apply, ApplySucceeds,
         ChainSucceeds, FinishGroup, StartChain, GoTo, MarkAll, OnlyMemory
    <2>3. CASE Advances
      BY <2>3 DEF Advances, FinishUpload, FinishReconcile, FinishChores, AdvanceRun, EndStep,
         StepInv
    <2>4. ASSUME NEW p \in Problem, Record(p) \/ Marks(p) PROVE Goal
      BY <2>4, RecordEffect, MarkEffect
    <2>5. ASSUME NEW s \in Slug, Takes(s) PROVE Goal
      BY <2>5 DEF Takes
    <2>6. ASSUME NEW k \in Chores, ChoreRuns(k) PROVE Goal
      BY <2>6 DEF ChoreRuns
    <2>7. CASE ReadResume \/ ReadApprove \/ Abandons \/ OrphanStep
      BY <2>7, ReadEffect, AbandonEffect, OrphanEffect DEF Unattended
    <2>8. ASSUME NEW r \in Request, Answer(r) PROVE Goal
      BY <2>8, AnswerEffect
    <2>9. CASE UNCHANGED vars
      BY <2>9 DEF vars
    <2> QED
      BY <2>1, <2>2, <2>3, <2>4, <2>5, <2>6, <2>7, <2>8, <2>9, StepCases
  <1>3. CatalogHasAll => \A p \in Problem : content[p] # "absent"
    BY DEF CatalogHasAll, Missing
  <1> QED
    BY <1>1, <1>2, <1>3 DEF PresentInv, AllPresent

-----------------------------------------------------------------------------
(***************************************************************************)
(* The chores: what was applied, and how often.                            *)
(***************************************************************************)

\* No chore is skipped that never ran on the problem.
ChoredInv == \A p \in Problem : stage[p] = "chored" => \A k \in Chores : times[p][k] >= 1

\* The history of a problem only grows, and by one at a time.
LEMMA TimesGrow ==
  ASSUME TypeOK, [Next]_vars, NEW p \in Problem, NEW k \in Chores
  PROVE  /\ times[p][k] \in Nat /\ times'[p][k] \in Nat
         /\ times'[p][k] = times[p][k]
            \/ times'[p][k] = times[p][k] + 1
  <1>1. times[p][k] \in Nat
    BY DEF TypeOK
  <1>2. CASE UNCHANGED times
    BY <1>1, <1>2
  <1>3. ASSUME pc = "chain", NEW ks \in SUBSET ToDo, ApplyChores(ks)
        PROVE  times'[p][k] \in {times[p][k], times[p][k] + 1}
    <2>1. ks \in SUBSET Chores
      BY DEF ToDo
    <2> QED
      BY <1>3, <2>1, ApplyEffect
  <1>4. ASSUME NEW j \in Chores, OrphanRuns(j)
        PROVE  times'[p][k] \in {times[p][k], times[p][k] + 1}
    BY <1>4, OrphanRunsEffect
  <1> QED
    BY <1>1, <1>2, <1>3, <1>4, WhoWrites

\* The files are written where a chain is cut short, and only there.
LEMMA WhoNotes ==
  ASSUME TypeOK, [Next]_vars
  PROVE  UNCHANGED doneFile \/ (CutsChain /\ RecordDone(ran))
  <1>1. CASE GivesUp \/ GoesOn \/ Advances
    BY <1>1, GiveUpEffect, GoOnEffect, AdvanceEffect DEF OnlyMemory
  <1>2. CASE CutsChain
    BY <1>2, CutEffect
  <1>3. ASSUME NEW p \in Problem, Record(p) \/ Marks(p) PROVE UNCHANGED doneFile
    BY <1>3, MarkEffect DEF Record
  <1>4. ASSUME NEW s \in Slug, Takes(s) PROVE UNCHANGED doneFile
    BY <1>4 DEF Takes
  <1>5. ASSUME NEW k \in Chores, ChoreRuns(k) PROVE UNCHANGED doneFile
    BY <1>5 DEF ChoreRuns
  <1>6. CASE ReadResume \/ ReadApprove \/ Abandons \/ OrphanStep
    BY <1>6, ReadEffect, AbandonEffect, OrphanEffect DEF Unattended
  <1>7. ASSUME NEW r \in Request, Answer(r) PROVE UNCHANGED doneFile
    BY <1>7, AnswerEffect
  <1>8. CASE UNCHANGED vars
    BY <1>8 DEF vars
  <1> QED
    BY <1>1, <1>2, <1>3, <1>4, <1>5, <1>6, <1>7, <1>8, StepCases

\* How the chain comes to its end, and how the run comes to its stages.
LEMMA ChainPath ==
  ASSUME TypeOK, StepInv, [Next]_vars
  PROVE  /\ runStage' \in {"upload", "reconcile"} => runStage \in {"upload", "reconcile"}
         /\ pc' = "chain" => \/ ran' = {}
                             \/ UNCHANGED <<ran, left>> /\ pc = "chain"
                             \/ UNCHANGED left /\ \E k \in Chores : ChoreRuns(k)
         /\ pc' = "chored" => \/ ChainSucceeds
                              \/ pc = "chored" /\ left' \in SUBSET left
         /\ \A p \in Problem : stage'[p] = "chored" =>
              stage[p] = "chored" \/ (pc = "chored" /\ p \in left)
  <1> DEFINE Goal ==
        /\ runStage' \in {"upload", "reconcile"} => runStage \in {"upload", "reconcile"}
        /\ pc' = "chain" => \/ ran' = {}
                            \/ UNCHANGED <<ran, left>> /\ pc = "chain"
                            \/ UNCHANGED left /\ \E k \in Chores : ChoreRuns(k)
        /\ pc' = "chored" => \/ ChainSucceeds
                             \/ pc = "chored" /\ left' \in SUBSET left
        /\ \A p \in Problem : stage'[p] = "chored" =>
             stage[p] = "chored" \/ (pc = "chored" /\ p \in left)
  <1> USE DEF Ended, run, rows, memory
  <1>1. CASE GivesUp \/ CutsChain
    BY <1>1, GiveUpEffect, CutEffect
  <1>2. CASE GoesOn
    <2>1. UNCHANGED <<runStage, stage>>
      BY <1>2, GoOnEffect DEF OnlyMemory
    <2>2. pc' = "chain" => ran' = {}
      BY <1>2 DEF GoesOn, BeginStep, Enter, PreviewAgrees, Apply, ApplySucceeds, CatalogHasAll,
         ChainSucceeds, FinishGroup, StartChain, GoTo, MarkAll, StepInv
    <2>3. pc' = "chored" => ChainSucceeds
      BY <1>2 DEF GoesOn, BeginStep, Enter, PreviewAgrees, Apply, ApplySucceeds, CatalogHasAll,
         FinishGroup, StartChain, GoTo, MarkAll
    <2> QED
      BY <2>1, <2>2, <2>3
  <1>3. CASE Advances
    BY <1>3, AdvanceEffect DEF Advances, FinishUpload, FinishReconcile, FinishChores,
       AdvanceRun, StepInv
  <1>4. ASSUME NEW p \in Problem, Record(p) PROVE Goal
    BY <1>4, RecordEffect DEF StepInv
  <1>5. ASSUME NEW p \in Problem, Marks(p) PROVE Goal
    <2>1. \A q \in Problem : stage'[q] = "chored" => stage[q] = "chored" \/ (pc = "chored" /\ q \in left)
      BY <1>5, MarkEffect DEF TypeOK
    <2> QED
      BY <1>5, <2>1, MarkEffect DEF StepInv
  <1>6. ASSUME NEW s \in Slug, Takes(s) PROVE Goal
    BY <1>6 DEF Takes
  <1>7. ASSUME NEW k \in Chores, ChoreRuns(k) PROVE Goal
    BY <1>7 DEF ChoreRuns
  <1>8. CASE ReadResume \/ ReadApprove \/ Abandons \/ OrphanStep
    BY <1>8, ReadEffect, AbandonEffect, OrphanEffect DEF Unattended
  <1>9. ASSUME NEW r \in Request, Answer(r) PROVE Goal
    BY <1>9, AnswerEffect
  <1>10. CASE UNCHANGED vars
    BY <1>10 DEF vars
  <1> QED
    BY <1>1, <1>2, <1>3, <1>4, <1>5, <1>6, <1>7, <1>8, <1>9, <1>10, StepCases

\* A group's file and the chain in hand name only what was applied to all they cover.
LEMMA DonePreserved ==
  TypeOK /\ StepInv /\ RowsInv /\ DoneInv /\ ChoredInv /\ [Next]_vars => DoneInv' /\ ChoredInv'
  <1> SUFFICES ASSUME TypeOK, StepInv, RowsInv, DoneInv, ChoredInv, [Next]_vars
               PROVE DoneInv' /\ ChoredInv'
    OBVIOUS
  <1>1. \A p \in Problem, k \in Chores : times[p][k] >= 1 => times'[p][k] >= 1
    BY TimesGrow
  <1>2. runStage' \in {"upload", "reconcile"} =>
          /\ orphan'.tool # "chain"
          /\ \A g \in Group : doneFile'[g] = {}
          /\ \A p \in Problem, k \in Chores : times'[p][k] = 0
    <2> SUFFICES ASSUME runStage' \in {"upload", "reconcile"}
                 PROVE  /\ orphan'.tool # "chain"
                        /\ \A g \in Group : doneFile'[g] = {}
                        /\ \A p \in Problem, k \in Chores : times'[p][k] = 0
      OBVIOUS
    <2>1. runStage \in {"upload", "reconcile"} /\ pc # "chain"
      BY ChainPath DEF StepInv
    <2>2. \A k \in Chores : ~OrphanRuns(k)
      BY <2>1, OrphanRunsEffect DEF DoneInv
    <2>3. UNCHANGED <<times, doneFile>>
      BY <2>1, <2>2, WhoWrites, WhoNotes, CutEffect
    <2>4. Abandons => UNCHANGED orphan \/ orphan'.tool = "upload"
      BY <2>1, AbandonedTool
    <2>5. orphan'.tool # "chain"
      BY <2>1, <2>2, <2>4, WhoseOrphan DEF DoneInv, NoOrphan
    <2> QED
      BY <2>1, <2>3, <2>5 DEF DoneInv
  <1>3. \A p \in Problem, k \in Chores : k \in doneFile'[GroupOf(p)'] => times'[p][k] >= 1
    <2> SUFFICES ASSUME NEW p \in Problem, NEW k \in Chores, k \in doneFile'[GroupOf(p)']
                 PROVE times'[p][k] >= 1
      OBVIOUS
    <2>1. GroupOf(p) \in Group /\ GroupOf(p)' \in Group
      BY GroupOfType
    <2>2. CASE UNCHANGED existed
      <3>1. GroupOf(p)' = GroupOf(p)
        BY <2>2 DEF GroupOf
      <3>2. CASE k \in doneFile[GroupOf(p)]
        BY <1>1, <3>2 DEF DoneInv
      <3>3. CASE k \notin doneFile[GroupOf(p)]
        <4>1. CutsChain /\ RecordDone(ran)
          BY <3>1, <3>3, WhoNotes
        <4>2. group = GroupOf(p) /\ k \in ran
          BY <2>1, <3>1, <3>3, <4>1 DEF RecordDone, TypeOK
        <4>3. pc = "chain" /\ left = Pending(group)
          BY <4>1, CutEffect DEF RowsInv
        <4>4. CASE stage[p] = "chored"
          BY <1>1, <4>4 DEF ChoredInv
        <4>5. CASE stage[p] # "chored"
          BY <1>1, <4>2, <4>3, <4>5 DEF DoneInv, Pending
        <4> QED
          BY <4>4, <4>5
      <3> QED
        BY <3>2, <3>3
    <2>3. ASSUME NEW q \in Problem, Record(q) PROVE FALSE
      <3>1. runStage = "upload" /\ UNCHANGED doneFile
        BY <2>3, RecordEffect DEF StepInv
      <3> QED
        BY <2>1, <3>1 DEF DoneInv
    <2> QED
      BY <2>2, <2>3, WhoRecords
  <1>4. pc' = "chain" => \A p \in left', k \in ran' : times'[p][k] >= 1
    <2> SUFFICES ASSUME pc' = "chain", NEW p \in left', NEW k \in ran' PROVE times'[p][k] >= 1
      OBVIOUS
    <2>1. CASE UNCHANGED <<ran, left>> /\ pc = "chain"
      BY <1>1, <2>1 DEF DoneInv, TypeOK
    <2>2. ASSUME UNCHANGED left, NEW j \in Chores, ChoreRuns(j) PROVE times'[p][k] >= 1
      <3>1. p \in Problem /\ p \in left /\ ran' = ran \cup {j} /\ {j} \in SUBSET Chores
        BY <2>2 DEF ChoreRuns, TypeOK
      <3>2. CASE k \in ran
        BY <1>1, <2>2, <3>1, <3>2 DEF DoneInv, TypeOK, ChoreRuns
      <3>3. CASE k = j
        <4>1. ApplyChores({j})
          BY <2>2 DEF ChoreRuns
        <4>2. times'[p][k] = times[p][k] + 1 /\ times[p][k] \in Nat
          BY <3>1, <3>3, <4>1, ApplyEffect DEF TypeOK
        <4> QED
          BY <4>2
      <3> QED
        BY <3>1, <3>2, <3>3
    <2> QED
      BY <2>1, <2>2, ChainPath
  <1>5. pc' = "chored" => \A p \in left', k \in Chores : times'[p][k] >= 1
    <2> SUFFICES ASSUME pc' = "chored", NEW p \in left', NEW k \in Chores
                 PROVE times'[p][k] >= 1
      OBVIOUS
    <2>1. CASE pc = "chored" /\ left' \in SUBSET left
      BY <1>1, <2>1 DEF DoneInv, TypeOK
    <2>2. CASE ChainSucceeds
      <3>1. p \in left /\ p \in Problem /\ pc = "chain" /\ GroupOf(p) = group
        BY <2>2 DEF ChainSucceeds, RowsInv, Pending
      <3>2. k \in doneFile[group] \/ k \in ran
        BY <2>2 DEF ChainSucceeds, ToDo
      <3> QED
        BY <1>1, <3>1, <3>2 DEF DoneInv
    <2> QED
      BY <2>1, <2>2, ChainPath
  <1>6. ChoredInv'
    <2> SUFFICES ASSUME NEW p \in Problem, stage'[p] = "chored", NEW k \in Chores
                 PROVE times'[p][k] >= 1
      BY DEF ChoredInv
    <2>1. stage[p] = "chored" \/ (pc = "chored" /\ p \in left)
      BY ChainPath
    <2> QED
      BY <1>1, <2>1 DEF ChoredInv, DoneInv
  <1> QED
    BY <1>2, <1>3, <1>4, <1>5, <1>6 DEF DoneInv

-----------------------------------------------------------------------------
(***************************************************************************)
(* What is not repeated unasked.                                           *)
(***************************************************************************)

LEMMA CountedType ==
  ASSUME TypeOK, NEW p \in Problem, NEW k \in Chores
  PROVE  times[p][k] \in Nat /\ Owed(p, k) \in {0, 1} /\ Counted(p, k) \in Nat
  BY DEF TypeOK, Owed, Counted

LEMMA CountedTypeNext ==
  ASSUME TypeOK', NEW p \in Problem, NEW k \in Chores
  PROVE  times'[p][k] \in Nat /\ Owed(p, k)' \in {0, 1} /\ Counted(p, k)' \in Nat
  BY DEF TypeOK, Owed, Counted

LEMMA SameMode ==
  ASSUME UNCHANGED existed, NEW p \in Problem, NEW k \in Chores
  PROVE  GroupOf(p)' = GroupOf(p) /\ (Replayable(k, GroupOf(p))' <=> Replayable(k, GroupOf(p)))
  BY DEF GroupOf, Replayable

\* Where the mode and the counts stand and the run's reach has not grown, both hold on.
LEMMA StillRested ==
  ASSUME TypeOK, TypeOK', NEW p \in Problem, NEW k \in Chores, Rested(p, k), OnceEach(p, k),
         UNCHANGED existed, Counted(p, k)' <= Counted(p, k),
         asked' + crashes' >= asked + crashes,
         MayRun(p, k)' => MayRun(p, k)
  PROVE  Rested(p, k)' /\ OnceEach(p, k)'
  <1>1. Replayable(k, GroupOf(p))' <=> Replayable(k, GroupOf(p))
    BY SameMode
  <1>2. /\ Counted(p, k) <= asked + crashes => Counted(p, k)' <= asked' + crashes'
        /\ Counted(p, k) <= 1 + asked + crashes => Counted(p, k)' <= 1 + asked' + crashes'
    <2> DEFINE a == asked + crashes    c == asked' + crashes'
               t == Counted(p, k)      u == Counted(p, k)'
    <2>1. a \in Nat /\ c \in Nat /\ t \in Nat /\ u \in Nat
      <3>1. asked \in Nat /\ crashes \in Nat /\ asked' \in Nat /\ crashes' \in Nat
        BY DEF TypeOK
      <3> QED
        BY <3>1, CountedType, CountedTypeNext
    <2>2. /\ 1 + asked + crashes = 1 + a
          /\ 1 + asked' + crashes' = 1 + c
      BY DEF TypeOK
    <2>3. u <= t /\ a <= c
      OBVIOUS
    <2>4. (t <= a => u <= c) /\ (t <= 1 + a => u <= 1 + c)
      <3> HIDE DEF a, c, t, u
      <3> QED
        BY <2>1, <2>3
    <2> QED
      BY <2>2, <2>4
  <1>3. Rested(p, k)'
    BY <1>1, <1>2 DEF Rested
  <1> QED
    BY <1>1, <1>2, <1>3 DEF OnceEach

\* A chore in reach is applied once more, and is then out of reach.
LEMMA OnceMore ==
  ASSUME TypeOK, TypeOK', NEW p \in Problem, NEW k \in Chores, Rested(p, k),
         UNCHANGED <<existed, asked, crashes>>, Counted(p, k)' <= Counted(p, k) + 1,
         MayRun(p, k), ~MayRun(p, k)' \/ Replayable(k, GroupOf(p))
  PROVE  Rested(p, k)' /\ OnceEach(p, k)'
  <1>1. Replayable(k, GroupOf(p))' <=> Replayable(k, GroupOf(p))
    BY SameMode
  <1>2. CASE Replayable(k, GroupOf(p))
    BY <1>1, <1>2 DEF Rested, OnceEach
  <1>3. CASE ~Replayable(k, GroupOf(p))
    <2>1. Counted(p, k) <= asked + crashes
      BY <1>3 DEF Rested
    <2>2. Counted(p, k) \in Nat /\ Counted(p, k)' \in Nat /\ asked \in Nat /\ crashes \in Nat
      BY CountedType, CountedTypeNext DEF TypeOK
    <2>3. asked' = asked /\ crashes' = crashes
      OBVIOUS
    <2> DEFINE t == Counted(p, k)    u == Counted(p, k)'    a == asked    b == crashes
    <2>4. t \in Nat /\ u \in Nat /\ a \in Nat /\ b \in Nat /\ t <= a + b /\ u <= t + 1
      BY <2>1, <2>2
    <2>5. u <= 1 + a + b
      <3> HIDE DEF t, u, a, b
      <3> QED
        BY <2>4
    <2>6. ~MayRun(p, k)'
      BY <1>3
    <2> QED
      BY <2>3, <2>5, <2>6 DEF Rested, OnceEach
  <1> QED
    BY <1>2, <1>3

\* A request or a crash pays for what may be applied again.
LEMMA PaidFor ==
  ASSUME TypeOK, TypeOK', NEW p \in Problem, NEW k \in Chores, UNCHANGED existed,
         Replayable(k, GroupOf(p)) \/ Counted(p, k)' <= 1 + asked + crashes,
         asked' + crashes' = 1 + asked + crashes
  PROVE  Rested(p, k)' /\ OnceEach(p, k)'
  <1>1. Replayable(k, GroupOf(p))' <=> Replayable(k, GroupOf(p))
    BY SameMode
  <1>2. CASE Replayable(k, GroupOf(p))
    BY <1>1, <1>2 DEF Rested, OnceEach
  <1>3. CASE ~Replayable(k, GroupOf(p))
    <2>1. Counted(p, k)' <= asked' + crashes'
      BY <1>3
    <2>2. Counted(p, k)' \in Nat /\ asked' \in Nat /\ crashes' \in Nat
      BY CountedTypeNext DEF TypeOK
    <2> DEFINE u == Counted(p, k)'    a == asked'    b == crashes'
    <2>3. u \in Nat /\ a \in Nat /\ b \in Nat /\ u <= a + b
      BY <2>1, <2>2
    <2>4. u <= 1 + a + b
      <3> HIDE DEF u, a, b
      <3> QED
        BY <2>3
    <2> QED
      BY <2>1, <2>4 DEF Rested, OnceEach
  <1> QED
    BY <1>2, <1>3

\* While nothing has been applied, nothing is owed to a run before its chores.
LEMMA NothingYet ==
  ASSUME TypeOK, TypeOK', DoneInv, NEW p \in Problem, NEW k \in Chores,
         runStage \in {"upload", "reconcile"}, UNCHANGED <<times, orphan>>
  PROVE  Rested(p, k)' /\ OnceEach(p, k)'
  <1>1. times'[p][k] = 0 /\ orphan'.tool # "chain"
    BY DEF DoneInv
  <1>2. Counted(p, k)' = 0
    BY <1>1 DEF Counted, Owed
  <1>3. asked' \in Nat /\ crashes' \in Nat
    BY DEF TypeOK
  <1>4. Counted(p, k)' <= asked' + crashes' /\ Counted(p, k)' <= 1 + asked' + crashes'
    <2> DEFINE u == Counted(p, k)'    a == asked'    b == crashes'
    <2>1. u = 0 /\ a \in Nat /\ b \in Nat
      BY <1>2, <1>3
    <2>2. u <= a + b /\ u <= 1 + a + b
      <3> HIDE DEF u, a, b
      <3> QED
        BY <2>1
    <2> QED
      BY <2>2
  <1> QED
    BY <1>4 DEF Rested, OnceEach

\* A stage that is asked of the chain is in reach, for every problem of the group.
LEMMA AskedIsInReach ==
  ASSUME TypeOK, StepInv, RowsInv, pc = "chain",
         NEW p \in Problem, p \in left, NEW k \in Chores, k \in ToDo
  PROVE  MayRun(p, k) /\ GroupOf(p) = group
  BY DEF MayRun, StepInv, RowsInv, Pending, ToDo

\* Maestro by itself never repeats a stage that cannot be replayed.
LEMMA RepeatPreserved ==
  TypeOK /\ StepInv /\ RowsInv /\ DoneInv /\ RepeatInv /\ [Next]_vars /\ TypeOK' => RepeatInv'
  <1> SUFFICES ASSUME TypeOK, StepInv, RowsInv, DoneInv, RepeatInv,
                      [Next]_vars, TypeOK', NEW p \in Problem, NEW k \in Chores
               PROVE Rested(p, k)' /\ OnceEach(p, k)'
    BY DEF RepeatInv
  <1> DEFINE Goal == Rested(p, k)' /\ OnceEach(p, k)'
  <1>a. Rested(p, k) /\ OnceEach(p, k)
    BY DEF RepeatInv
  <1>b. /\ asked \in Nat /\ crashes \in Nat /\ asked' \in Nat /\ crashes' \in Nat
        /\ Counted(p, k) \in Nat
    BY CountedType DEF TypeOK
  <1>c. ASSUME UNCHANGED <<times, orphan>> PROVE Counted(p, k)' = Counted(p, k)
    BY <1>c DEF Counted, Owed
  <1>d. ASSUME UNCHANGED <<existed, asked, crashes>>, MayRun(p, k)' => MayRun(p, k),
               Counted(p, k)' = Counted(p, k)
        PROVE  Goal
    <2>1. Counted(p, k)' <= Counted(p, k) /\ asked' + crashes' >= asked + crashes
      BY <1>b, <1>d
    <2> QED
      BY <1>a, <1>d, <2>1, StillRested
  <1> USE DEF run, rows, platform, memory, world
  <1>1. CASE GivesUp
    <2>1. MayRun(p, k)' => MayRun(p, k)
      BY <1>1, GiveUpEffect DEF Ended, MayRun, StepInv, GroupOf
    <2> QED
      BY <1>1, <1>c, <1>d, <2>1, GiveUpEffect
  <1>2. CASE CutsChain
    <2>1. PICK ks \in SUBSET ToDo :
            /\ ApplyChores(ks) \/ (ks = {} /\ UNCHANGED platform)
            /\ runStatus' = "failed" \/ (UNCHANGED runStatus /\ \A j \in ks : Replayable(j, group))
      BY <1>2, CutEffect
    <2>2. ks \in SUBSET Chores
      BY DEF ToDo
    <2>3. /\ pc = "chain" /\ pc' = "idle" /\ left' = {} /\ RecordDone(ran)
          /\ UNCHANGED <<stage, existed, asked, crashes>>
      BY <1>2, CutEffect DEF Ended
    <2>4. GroupOf(p)' = GroupOf(p) /\ GroupOf(p) \in Group
      BY <2>3, GroupOfType DEF GroupOf
    <2>5. /\ times'[p][k] = IF p \in left /\ k \in ks THEN times[p][k] + 1 ELSE times[p][k]
          /\ UNCHANGED orphan
      BY <2>1, <2>2, ApplyEffect
    <2>6. k \notin doneFile'[GroupOf(p)] =>
            k \notin doneFile[GroupOf(p)] /\ (GroupOf(p) = group => k \notin ran)
      BY <2>3, <2>4 DEF RecordDone, TypeOK
    <2>7. p \in left => GroupOf(p) = group
      BY <2>3 DEF RowsInv, Pending
    <2>8. MayRun(p, k)' => MayRun(p, k) /\ UNCHANGED runStatus
      BY <2>1, <2>3, <2>4, <2>6, <2>7 DEF MayRun, StepInv
    <2>9. CASE p \in left /\ k \in ks
      <3>1. MayRun(p, k) /\ GroupOf(p) = group
        BY <2>3, <2>9, AskedIsInReach
      <3>2. ~MayRun(p, k)' \/ Replayable(k, GroupOf(p))
        BY <2>1, <2>8, <2>9, <3>1 DEF MayRun
      <3>3. Counted(p, k)' = Counted(p, k) + 1
        BY <2>5, <2>9, CountedType DEF Counted, Owed
      <3>4. Counted(p, k)' <= Counted(p, k) + 1
        BY <1>b, <3>3
      <3> QED
        BY <1>a, <2>3, <3>1, <3>2, <3>4, OnceMore
    <2>10. CASE ~(p \in left /\ k \in ks)
      <3>1. Counted(p, k)' = Counted(p, k)
        BY <2>5, <2>10 DEF Counted, Owed
      <3> QED
        BY <1>d, <2>3, <2>8, <3>1
    <2> QED
      BY <2>9, <2>10
  <1>3. CASE GoesOn
    <2>1. UNCHANGED <<runStatus, stage, existed, doneFile, times, orphan, asked, crashes>>
      BY <1>3, GoOnEffect DEF OnlyMemory
    <2>2. pc = "chain" => ChainSucceeds
      BY <1>3 DEF GoesOn, BeginStep, Enter, PreviewAgrees, Apply, ApplySucceeds, CatalogHasAll,
         FinishGroup, StartChain
    <2>3. ChainSucceeds => pc' = "chored" /\ UNCHANGED left
      BY DEF ChainSucceeds
    <2>4. pc = "chored" => left = {}
      BY <1>3 DEF GoesOn, BeginStep, Enter, PreviewAgrees, Apply, ApplySucceeds, CatalogHasAll,
         ChainSucceeds, FinishGroup, StartChain
    <2>5. MayRun(p, k)' => MayRun(p, k)
      BY <2>1, <2>2, <2>3, <2>4 DEF MayRun, GroupOf
    <2> QED
      BY <1>c, <1>d, <2>1, <2>5
  <1>4. CASE Advances
    <2>1. MayRun(p, k)' => MayRun(p, k)
      BY <1>4, AdvanceEffect DEF Ended, MayRun, StepInv, GroupOf
    <2> QED
      BY <1>4, <1>c, <1>d, <2>1, AdvanceEffect
  <1>5. ASSUME NEW q \in Problem, Record(q) PROVE Goal
    <2>1. runStage = "upload" /\ UNCHANGED <<times, orphan>>
      BY <1>5, RecordEffect DEF StepInv
    <2> QED
      BY <2>1, NothingYet
  <1>6. ASSUME NEW q \in Problem, Marks(q) PROVE Goal
    <2>1. CASE pc = "chored"
      <3>1. stage'[p] # "chored" => p # q /\ stage'[p] = stage[p]
        BY <1>6, <2>1, MarkEffect DEF TypeOK
      <3>2. MayRun(p, k)' => MayRun(p, k)
        BY <1>6, <2>1, <3>1, MarkEffect DEF MayRun, GroupOf
      <3>3. UNCHANGED <<existed, times, orphan, asked, crashes>>
        BY <1>6, MarkEffect
      <3> QED
        BY <1>c, <1>d, <3>2, <3>3
    <2>2. CASE pc # "chored"
      <3>1. runStage \in {"upload", "reconcile"} /\ UNCHANGED <<times, orphan>>
        BY <1>6, <2>2, MarkEffect DEF StepInv
      <3> QED
        BY <3>1, NothingYet
    <2> QED
      BY <2>1, <2>2
  <1>7. ASSUME NEW s \in Slug, Takes(s) PROVE Goal
    <2>1. MayRun(p, k)' => MayRun(p, k)
      BY <1>7 DEF Takes, MayRun, GroupOf
    <2> QED
      BY <1>7, <1>c, <1>d, <2>1 DEF Takes
  <1>8. ASSUME NEW j \in Chores, ChoreRuns(j) PROVE Goal
    <2>1. /\ pc = "chain" /\ j \in ToDo /\ ApplyChores({j}) /\ ran' = ran \cup {j}
          /\ UNCHANGED <<pc, left, runStatus, stage, existed, doneFile, asked, crashes>>
      BY <1>8 DEF ChoreRuns
    <2>2. /\ times'[p][k] = IF p \in left /\ k = j THEN times[p][k] + 1 ELSE times[p][k]
          /\ UNCHANGED orphan
      BY <2>1, ApplyEffect
    <2>3. GroupOf(p)' = GroupOf(p)
      BY <2>1 DEF GroupOf
    <2>4. CASE p \in left /\ k = j
      <3>1. MayRun(p, k)
        BY <2>1, <2>4, AskedIsInReach
      <3>2. ~MayRun(p, k)'
        BY <2>1, <2>4 DEF MayRun
      <3>3. Counted(p, k)' = Counted(p, k) + 1
        BY <2>2, <2>4, CountedType DEF Counted, Owed
      <3>4. Counted(p, k)' <= Counted(p, k) + 1
        BY <1>b, <3>3
      <3> QED
        BY <1>a, <2>1, <3>1, <3>2, <3>4, OnceMore
    <2>5. CASE ~(p \in left /\ k = j)
      <3>1. MayRun(p, k)' => MayRun(p, k)
        BY <2>1, <2>3, <2>5 DEF MayRun
      <3>2. Counted(p, k)' = Counted(p, k)
        BY <2>2, <2>5 DEF Counted, Owed
      <3> QED
        BY <1>d, <2>1, <3>1, <3>2
    <2> QED
      BY <2>4, <2>5
  <1>9. CASE ReadResume \/ ReadApprove
    <2>1. MayRun(p, k)' => MayRun(p, k)
      BY <1>9, ReadEffect DEF MayRun, GroupOf
    <2>2. UNCHANGED <<existed, times, orphan, asked, crashes>>
      BY <1>9, ReadEffect
    <2> QED
      BY <1>c, <1>d, <2>1, <2>2
  <1>10. ASSUME NEW r \in Request, Answer(r) PROVE Goal
    <2>1. CASE runStage = "chores"
      <3>1. asked' = asked + 1 /\ UNCHANGED <<times, orphan, existed, crashes>>
        BY <1>10, <2>1, AnswerEffect
      <3>2. asked' + crashes' = 1 + asked + crashes
        BY <1>b, <3>1
      <3>3. Replayable(k, GroupOf(p)) \/ Counted(p, k)' <= 1 + asked + crashes
        BY <1>a, <1>c, <3>1 DEF OnceEach
      <3> QED
        BY <3>1, <3>2, <3>3, PaidFor
    <2>2. CASE runStage \in {"upload", "reconcile"}
      BY <1>10, <2>2, AnswerEffect, NothingYet
    <2>3. CASE runStage = "audit"
      <3>1. ~MayRun(p, k)' /\ asked' = asked /\ UNCHANGED <<times, orphan, existed, crashes>>
        BY <1>10, <2>3, AnswerEffect DEF MayRun, RowsInv
      <3> QED
        BY <1>c, <1>d, <3>1
    <2> QED
      BY <2>1, <2>2, <2>3 DEF TypeOK
  <1>11. CASE Abandons
    <2>1. /\ pc # "idle" /\ Ended /\ CutLoose /\ UNCHANGED <<runStage, existed, times, asked>>
          /\ stage' = stage /\ doneFile' = doneFile
          /\ \/ runStatus' = "failed" /\ crashes' = crashes
             \/ crashes' = crashes + 1
      BY <1>11, AbandonEffect
    <2>2. CASE pc = "chain" /\ orphan.tool = "none" /\ p \in left /\ k \in ToDo
      <3>1. MayRun(p, k)
        BY <2>2, AskedIsInReach
      <3>2. Owed(p, k) = 0 /\ Owed(p, k)' \in {0, 1}
        BY <2>2, CountedTypeNext DEF Owed
      <3>3. times'[p][k] = times[p][k] /\ times[p][k] \in Nat
        BY <2>1, CountedType
      <3>4. Counted(p, k)' <= Counted(p, k) + 1
        BY <3>2, <3>3 DEF Counted
      <3>5. CASE runStatus' = "failed" /\ crashes' = crashes
        <4>1. ~MayRun(p, k)'
          BY <3>5 DEF MayRun
        <4> QED
          BY <1>a, <2>1, <3>1, <3>4, <3>5, <4>1, OnceMore
      <3>6. CASE crashes' = crashes + 1
        <4>1. Counted(p, k)' \in Nat
          BY CountedTypeNext
        <4>2. Replayable(k, GroupOf(p)) \/ Counted(p, k) <= asked + crashes
          BY <1>a, <3>1 DEF Rested
        <4>3. Replayable(k, GroupOf(p)) \/ Counted(p, k)' <= 1 + asked + crashes
          BY <1>b, <3>4, <4>1, <4>2
        <4>4. asked' + crashes' = 1 + asked + crashes
          BY <1>b, <2>1, <3>6
        <4> QED
          BY <2>1, <4>3, <4>4, PaidFor
      <3> QED
        BY <2>1, <3>5, <3>6
    <2>3. CASE ~(pc = "chain" /\ orphan.tool = "none" /\ p \in left /\ k \in ToDo)
      <3>1. Owed(p, k)' <= Owed(p, k)
        BY <2>1, <2>3, CutLooseEffect DEF Owed
      <3>2. times'[p][k] = times[p][k] /\ times[p][k] \in Nat
        BY <2>1, CountedType
      <3>3. Counted(p, k)' <= Counted(p, k)
        BY <3>1, <3>2, CountedType, CountedTypeNext DEF Counted
      <3>4. CASE runStatus' = "failed" /\ crashes' = crashes
        <4>1. ~MayRun(p, k)'
          BY <3>4 DEF MayRun
        <4>2. asked' + crashes' >= asked + crashes
          BY <1>b, <2>1, <3>4
        <4> QED
          BY <1>a, <2>1, <3>3, <4>1, <4>2, StillRested
      <3>5. CASE crashes' = crashes + 1
        <4>1. Counted(p, k)' \in Nat
          BY CountedTypeNext
        <4>2. Replayable(k, GroupOf(p)) \/ Counted(p, k) <= 1 + asked + crashes
          BY <1>a DEF OnceEach
        <4>3. Replayable(k, GroupOf(p)) \/ Counted(p, k)' <= 1 + asked + crashes
          BY <1>b, <3>3, <4>1, <4>2
        <4>4. asked' + crashes' = 1 + asked + crashes
          BY <1>b, <2>1, <3>5
        <4> QED
          BY <2>1, <4>3, <4>4, PaidFor
      <3> QED
        BY <2>1, <3>4, <3>5
    <2> QED
      BY <2>2, <2>3
  <1>12. CASE OrphanStep
    <2>1. /\ UNCHANGED <<runStatus, existed, stage, doneFile, pc, left, ran, asked, crashes>>
      BY <1>12, OrphanEffect DEF Unattended
    <2>2. MayRun(p, k)' => MayRun(p, k)
      BY <2>1 DEF MayRun, GroupOf
    <2>3. Counted(p, k)' <= Counted(p, k)
      <3>1. CASE UNCHANGED times /\ (UNCHANGED orphan \/ orphan' = NoOrphan)
        <4>1. Owed(p, k)' <= Owed(p, k)
          BY <3>1 DEF Owed, NoOrphan
        <4>2. times'[p][k] = times[p][k] /\ times[p][k] \in Nat
          BY <3>1, CountedType
        <4> QED
          BY <4>1, <4>2, CountedType, CountedTypeNext DEF Counted
      <3>2. ASSUME NEW j \in Chores, OrphanRuns(j) PROVE Counted(p, k)' <= Counted(p, k)
        <4>1. CASE p \in orphan.on /\ k = j
          <5>1. Owed(p, k) = 1 /\ Owed(p, k)' = 0 /\ times'[p][k] = times[p][k] + 1
            BY <3>2, <4>1, OrphanRunsEffect DEF Owed
          <5> QED
            BY <5>1, CountedType DEF Counted
        <4>2. CASE ~(p \in orphan.on /\ k = j)
          <5>1. Owed(p, k)' = Owed(p, k) /\ times'[p][k] = times[p][k]
            BY <3>2, <4>2, OrphanRunsEffect DEF Owed
          <5> QED
            BY <5>1, CountedType DEF Counted
        <4> QED
          BY <4>1, <4>2
      <3> QED
        BY <1>12, <3>1, <3>2, OrphanEffect
    <2>4. asked' + crashes' >= asked + crashes
      BY <1>b, <2>1
    <2> QED
      BY <1>a, <2>1, <2>2, <2>3, <2>4, StillRested
  <1>13. CASE UNCHANGED vars
    <2>1. MayRun(p, k)' => MayRun(p, k)
      BY <1>13 DEF vars, MayRun, GroupOf
    <2> QED
      BY <1>13, <1>c, <1>d, <2>1 DEF vars
  <1> QED
    BY <1>1, <1>2, <1>3, <1>4, <1>5, <1>6, <1>7, <1>8, <1>9, <1>10, <1>11, <1>12, <1>13, StepCases

-----------------------------------------------------------------------------
(***************************************************************************)
(* The theorems.                                                           *)
(***************************************************************************)

\* All of it together is inductive.
THEOREM LaneInvariance == Spec => []LaneInv
  <1>1. Init => LaneInv
    <2> SUFFICES ASSUME Init PROVE LaneInv
      OBVIOUS
    <2> USE DEF Init
    <2>1. TypeOK
      <3>1. content \in [Slug -> Entry \cup {"ours"}]
        OBVIOUS
      <3>2. times \in [Problem -> [Chores -> Nat]]
        OBVIOUS
      <3>3. setbacks \in 0 .. RetryCap /\ setbacks < RetryCap
        BY RetryCapAssumption
      <3>4. /\ requests \in 0 .. MaxRequests /\ asked \in 0 .. requests
            /\ crashes \in 0 .. MaxCrashes
        BY BoundsAssumption
      <3>5. approved \in BOOLEAN /\ seen \in BOOLEAN
        BY Zenon
      <3>6. orphan \in Orphan
        BY DEF NoOrphan, Orphan, Group
      <3> QED
        BY <3>1, <3>2, <3>3, <3>4, <3>5, <3>6 DEF TypeOK, RunStatus, Group
    <2>2. StepInv /\ GateInv /\ BudgetInv /\ RowsInv /\ PresentInv
      BY DEF StepInv, GateInv, BudgetInv, RowsInv, PresentInv, NoOrphan
    <2>3. OriginInv /\ LabelsSurvive
      BY DEF OriginInv, LabelsSurvive, ExistedIsTruthful, NoOrphan
    <2>4. DoneInv /\ ChoredMeansAllApplied
      BY GroupOfType DEF DoneInv, ChoredMeansAllApplied, NoOrphan
    <2>5. RepeatInv
      <3>1. \A p \in Problem, k \in Chores : Counted(p, k) = 0 /\ asked + crashes = 0
        BY DEF Counted, Owed, NoOrphan
      <3> QED
        BY <3>1 DEF RepeatInv, Rested, OnceEach
    <2> QED
      BY <2>1, <2>2, <2>3, <2>4, <2>5 DEF LaneInv
  <1>2. LaneInv /\ [Next]_vars => LaneInv'
    <2> SUFFICES ASSUME LaneInv, [Next]_vars PROVE LaneInv'
      OBVIOUS
    <2>1. TypeOK' /\ BudgetInv' /\ StepInv' /\ GateInv'
      BY TypePreserved, StepPreserved, GatePreserved DEF LaneInv
    <2>2. OriginInv' /\ LabelsSurvive' /\ RowsInv'
      BY OriginPreserved, LabelsPreserved, RowsPreserved DEF LaneInv
    <2>3. PresentInv' /\ AllPresent'
      BY PresentPreserved DEF LaneInv, ChoredMeansAllApplied, AllPresent
    <2>4. DoneInv' /\ ChoredInv'
      BY DonePreserved DEF LaneInv, ChoredMeansAllApplied, ChoredInv
    <2>5. RepeatInv'
      BY <2>1, RepeatPreserved DEF LaneInv
    <2>6. ChoredMeansAllApplied'
      BY <2>3, <2>4 DEF ChoredMeansAllApplied, AllPresent, ChoredInv
    <2> QED
      BY <2>1, <2>2, <2>3, <2>4, <2>5, <2>6 DEF LaneInv
  <1> QED
    BY <1>1, <1>2, PTL DEF Spec

\* The variables stay within their types, and no fault is retried beyond the budget: at
\* RETRY_CAP the run has been stopped (_setback).
THEOREM ElectiCodeTypes == Spec => []TypeOK
  <1>1. LaneInv => TypeOK
    BY DEF LaneInv
  <1> QED
    BY <1>1, LaneInvariance, PTL

\* Tags are overwritten only where nothing was before this run, through every retry of
\* a partial upload (_upload, chore_groups).
THEOREM TheLabelsSurvive == Spec => []LabelsSurvive
  <1>1. LaneInv => LabelsSurvive
    BY DEF LaneInv
  <1> QED
    BY <1>1, LaneInvariance, PTL

\* A problem marked chored has had every chore of the plan, and the platform has it.
THEOREM NoChoreIsSkipped == Spec => []ChoredMeansAllApplied
  <1>1. LaneInv => ChoredMeansAllApplied
    BY DEF LaneInv
  <1> QED
    BY <1>1, LaneInvariance, PTL

\* Maestro by itself never repeats a chore that cannot be replayed: each repetition needs
\* an operator's request or a crash, and the tool of an earlier attempt that is still at
\* work beside the chain does not add to that (stage_retryable, _stages_done).
THEOREM NoChoreIsRepeatedUnasked == Spec => []NotRepeatedUnasked
  <1>1. LaneInv => NotRepeatedUnasked
    <2> SUFFICES ASSUME LaneInv, NEW p \in Problem, NEW k \in Chores
                 PROVE  Replayable(k, GroupOf(p)) \/ times[p][k] <= 1 + asked + crashes
      BY DEF NotRepeatedUnasked
    <2>1. times[p][k] \in Nat /\ asked \in Nat /\ crashes \in Nat /\ Owed(p, k) \in {0, 1}
      BY DEF LaneInv, TypeOK, Owed
    <2>2. Replayable(k, GroupOf(p)) \/ times[p][k] + Owed(p, k) <= 1 + asked + crashes
      BY DEF LaneInv, RepeatInv, OnceEach, Counted
    <2> QED
      BY <2>1, <2>2
  <1> QED
    BY <1>1, LaneInvariance, PTL

\* The upload writes this run's problems only, and never onto an entry that shows a title
\* other than the authored one, whichever tool outlives its run (--only, _identity_error).
THEOREM TheUploadWritesItsOwn == Spec => OnlyOwnContent
  <1>1. LaneInv /\ [Next]_vars =>
          [\A s \in Slug : content'[s] # content[s] =>
             s \in Problem /\ content[s] # "mistitled"]_vars
    <2> SUFFICES ASSUME LaneInv, [Next]_vars, NEW s \in Slug, content'[s] # content[s]
                 PROVE  s \in Problem /\ content[s] # "mistitled"
      OBVIOUS
    <2>1. (pc = "applying" \/ orphan.tool = "upload") /\ s \in Problem
      BY WhoWrites DEF LaneInv
    <2> QED
      BY <2>1 DEF LaneInv, OriginInv
  <1> QED
    BY <1>1, LaneInvariance, PTL DEF Spec, OnlyOwnContent

\* Nothing is written to the platform that was not granted; and for a run that is stopped
\* only a tool writes that a crash or an exception cut loose (_preflight, _crash).
THEOREM EveryWriteIsGranted == Spec => WritesAreGranted
  <1>1. LaneInv /\ [Next]_vars =>
          [content' # content \/ times' # times =>
             (Granted \/ approved) /\ (runStatus = "running" \/ orphan # NoOrphan)]_vars
    <2> SUFFICES ASSUME LaneInv, [Next]_vars, content' # content \/ times' # times
                 PROVE  (Granted \/ approved) /\ (runStatus = "running" \/ orphan # NoOrphan)
      OBVIOUS
    <2>1. pc \in {"applying", "chain"} \/ orphan.tool \in {"upload", "chain"}
      BY WhoWrites, OrphanRunsEffect DEF LaneInv
    <2>2. CASE pc \in {"applying", "chain"}
      BY <2>2 DEF LaneInv, StepInv, GateInv
    <2>3. CASE orphan.tool \in {"upload", "chain"}
      BY <2>3 DEF LaneInv, GateInv, NoOrphan
    <2> QED
      BY <2>1, <2>2, <2>3
  <1> QED
    BY <1>1, LaneInvariance, PTL DEF Spec, WritesAreGranted

-----------------------------------------------------------------------------
(***************************************************************************)
(* The refinement.                                                         *)
(***************************************************************************)

LEMMA PhasesDone ==
  ASSUME NEW p \in Problem
  PROVE  /\ stage[p] = "shaped" => DoneOf(p) = 0
         /\ stage[p] = "uploaded" => DoneOf(p) = 1
         /\ stage[p] = "reconciled" => DoneOf(p) = 2
         /\ stage[p] = "chored" => DoneOf(p) = 3
  BY DEF DoneOf

LEMMA PhaseNow ==
  /\ runStage = "upload" => PhaseOf = 0
  /\ runStage = "reconcile" => PhaseOf = 1
  /\ runStage = "chores" => PhaseOf = 2
  /\ runStage = "audit" => PhaseOf = 3
  BY DEF PhaseOf

\* What the convoy sees of a step: the rows and the stage stand still, one row is
\* written, or the stage is left.
LEMMA ConvoyStep ==
  ASSUME TypeOK, [Next]_vars
  PROVE  \/ UNCHANGED <<stage, runStage>>
         \/ \E p \in Problem : Marks(p)
         \/ Advances
  <1> USE DEF run, rows, memory, world
  <1>1. CASE GivesUp \/ CutsChain \/ GoesOn
    BY <1>1, GiveUpEffect, CutEffect, GoOnEffect DEF OnlyMemory
  <1>2. ASSUME NEW p \in Problem, Record(p) PROVE UNCHANGED <<stage, runStage>>
    BY <1>2 DEF Record
  <1>3. ASSUME NEW s \in Slug, Takes(s) PROVE UNCHANGED <<stage, runStage>>
    BY <1>3 DEF Takes
  <1>4. ASSUME NEW k \in Chores, ChoreRuns(k) PROVE UNCHANGED <<stage, runStage>>
    BY <1>4 DEF ChoreRuns
  <1>5. CASE ReadResume \/ ReadApprove \/ Abandons \/ OrphanStep
    BY <1>5, ReadEffect, AbandonEffect, OrphanEffect DEF Unattended
  <1>6. ASSUME NEW r \in Request, Answer(r) PROVE UNCHANGED <<stage, runStage>>
    BY <1>6, AnswerEffect
  <1>7. CASE UNCHANGED vars
    BY <1>7 DEF vars
  <1> QED
    BY <1>1, <1>2, <1>3, <1>4, <1>5, <1>6, <1>7, StepCases

\* The lane implements the convoy: a row's write finishes a phase or repeats one that was
\* finished before a crash, and a stage is left when all have finished it.
THEOREM LaneImplementsConvoy == Spec => ImplementsConvoy
  <1> DEFINE view == [p \in Problem |-> DoneOf(p)]
             halted == runStatus # "running"
  <1>1. Init => Abstract!Init
    <2> SUFFICES ASSUME Init PROVE Abstract!Init
      OBVIOUS
    <2>1. view = [p \in Problem |-> 0]
      BY PhasesDone DEF Init
    <2>2. PhaseOf = 0 /\ halted = FALSE
      BY PhaseNow DEF Init
    <2> QED
      BY <2>1, <2>2 DEF Abstract!Init
  <1>2. LaneInv /\ [Next]_vars => [Abstract!Next]_<<view, PhaseOf, halted>>
    <2> SUFFICES ASSUME LaneInv, [Next]_vars
                 PROVE  Abstract!Next \/ UNCHANGED <<view, PhaseOf, halted>>
      OBVIOUS
    <2>1. CASE UNCHANGED <<stage, runStage>>
      <3>1. view' = view /\ PhaseOf' = PhaseOf
        BY <2>1 DEF DoneOf, PhaseOf
      <3>2. CASE halted' = halted
        BY <3>1, <3>2
      <3>3. CASE ~halted /\ halted'
        BY <3>1, <3>3 DEF Abstract!Next, Abstract!Stop
      <3>4. CASE halted /\ ~halted'
        BY <3>1, <3>4 DEF Abstract!Next, Abstract!Resume
      <3> QED
        BY <3>2, <3>3, <3>4
    <2>2. ASSUME NEW p \in Problem, Marks(p)
          PROVE  Abstract!Next \/ UNCHANGED <<view, PhaseOf, halted>>
      <3>1. UNCHANGED <<runStage, runStatus>> /\ runStatus = "running"
        BY <2>2, MarkEffect DEF LaneInv, StepInv, run
      <3>2. PhaseOf' = PhaseOf /\ halted' = halted /\ halted = FALSE
        BY <3>1 DEF PhaseOf
      <3>3. \A q \in Problem : q # p => DoneOf(q)' = DoneOf(q)
        BY <2>2, MarkEffect DEF LaneInv, TypeOK, DoneOf
      <3>4. /\ PhaseOf \in {0, 1, 2}
            /\ DoneOf(p) \in {PhaseOf, PhaseOf + 1}
            /\ DoneOf(p)' = PhaseOf + 1
        <4>1. \/ /\ PhaseOf = 0 /\ stage[p] \in {"shaped", "uploaded"}
                 /\ stage'[p] = "uploaded"
              \/ /\ PhaseOf = 1 /\ stage[p] \in {"uploaded", "reconciled"}
                 /\ stage'[p] = "reconciled"
              \/ /\ PhaseOf = 2 /\ stage[p] \in {"reconciled", "chored"}
                 /\ stage'[p] = "chored"
          BY <2>2, MarkEffect, PhaseNow DEF LaneInv, TypeOK, StepInv, RowsInv
        <4>2. /\ stage'[p] = "uploaded" => DoneOf(p)' = 1
              /\ stage'[p] = "reconciled" => DoneOf(p)' = 2
              /\ stage'[p] = "chored" => DoneOf(p)' = 3
          BY Zenon DEF DoneOf
        <4> QED
          BY <4>1, <4>2, PhasesDone
      <3>5. CASE DoneOf(p) = PhaseOf + 1
        <4>1. view' = view
          BY <3>3, <3>4, <3>5
        <4> QED
          BY <3>2, <4>1
      <3>6. CASE DoneOf(p) = PhaseOf
        <4>1. view' = [view EXCEPT ![p] = PhaseOf + 1]
          BY <3>3, <3>4
        <4>2. view[p] = PhaseOf /\ PhaseOf < 3
          BY <3>4, <3>6
        <4>3. Abstract!Finish(p)
          BY <3>2, <4>1, <4>2 DEF Abstract!Finish
        <4> QED
          BY <4>3 DEF Abstract!Next
      <3> QED
        BY <3>4, <3>5, <3>6
    <2>3. CASE Advances
      <3>1. /\ UNCHANGED stage /\ runStatus = "running" /\ runStatus' = "running"
            /\ \/ /\ runStage = "upload" /\ runStage' = "reconcile"
                  /\ \A p \in Problem : stage[p] = "uploaded"
               \/ /\ runStage = "reconcile" /\ runStage' = "chores"
                  /\ \A p \in Problem : stage[p] = "reconciled"
               \/ /\ runStage = "chores" /\ runStage' = "audit"
                  /\ \A p \in Problem : stage[p] = "chored"
        <4>1. UNCHANGED stage /\ runStatus = "running" /\ runStatus' = "running"
          BY <2>3, AdvanceEffect DEF LaneInv, StepInv, rows
        <4>2. CASE FinishUpload
          BY <4>1, <4>2 DEF FinishUpload, AdvanceRun, LaneInv, StepInv, RowsInv
        <4>3. CASE FinishReconcile
          BY <4>1, <4>3 DEF FinishReconcile, AdvanceRun, LaneInv, StepInv, RowsInv
        <4>4. CASE FinishChores
          <5>1. \A p \in Problem : stage[p] = "chored"
            BY <4>4, GroupOfType DEF FinishChores, Pending
          <5> QED
            BY <4>1, <4>4, <5>1 DEF FinishChores, AdvanceRun, LaneInv, StepInv
        <4> QED
          BY <2>3, <4>2, <4>3, <4>4 DEF Advances
      <3>2. view' = view /\ halted = FALSE /\ halted' = FALSE
        BY <3>1 DEF DoneOf
      <3>3. /\ runStage' = "reconcile" => PhaseOf' = 1
            /\ runStage' = "chores" => PhaseOf' = 2
            /\ runStage' = "audit" => PhaseOf' = 3
        BY Zenon DEF PhaseOf
      <3>4. PhaseOf' = PhaseOf + 1 /\ \A p \in Problem : view[p] = PhaseOf + 1
        BY <3>1, <3>3, PhaseNow, PhasesDone
      <3>5. Abstract!Advance
        BY <3>2, <3>4 DEF Abstract!Advance
      <3> QED
        BY <3>5 DEF Abstract!Next
    <2> QED
      BY <2>1, <2>2, <2>3, ConvoyStep DEF LaneInv
  <1> QED
    BY <1>1, <1>2, LaneInvariance, PTL DEF Spec, ImplementsConvoy, Abstract!Spec
=============================================================================
