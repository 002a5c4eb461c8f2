--------------------------------- MODULE Ingest ---------------------------------
(***************************************************************************)
(* The sweep of the watch folder (Scheduler._ingest over ingest.scan), and *)
(* the correction requests it leaves beside the folders (feedback.write).  *)
(*                                                                         *)
(* A folder is filled by people who copy its files in any order while it   *)
(* is being looked at.  One sweep inspects every folder and registers what *)
(* is ready, and only then writes or deletes the reports, from what it saw *)
(* before.  An inspection is one step: files only become whole, so what it *)
(* reads at several moments could as well have been there at one.          *)
(***************************************************************************)
EXTENDS Integers, FiniteSets

CONSTANTS
  Folders,        \* how many folders there are; a sweep goes through them in order
  FeedbackAfter,  \* FEEDBACK_AFTER of scheduler.py
  MaxEvents       \* bound: crashes, failing reads and writes, deletions, corrections

ASSUME FoldersAssumption == Folders \in Nat \ {0}
ASSUME FeedbackAfterAssumption == FeedbackAfter \in Nat \ {0}
ASSUME MaxEventsAssumption == MaxEvents \in Nat

Folder == 1 .. Folders

VARIABLES
  set,         \* the set a folder holds, named by the first folder that holds it
  flaw,        \* what is wrong with a folder once it is complete
  short,       \* files that are not there yet, or not to their end
  begun,       \* folders whose characteristics file is there, if only in part
  run,         \* the row of a set: none, left at INGEST, or handed to the lanes
  dir,         \* the folder a set was registered from; 0 for none
  report,      \* the correction request beside a folder: the verdict it explains
  pc,          \* where the sweep is
  at,          \* the folder it has come to
  result,      \* what this sweep found, per folder
  incomplete,  \* _incomplete: sweeps in a row, up to FeedbackAfter
  events       \* history: what went wrong or was changed by people so far

folders == <<set, flaw, short, begun>>
table   == <<run, dir>>
sweep   == <<pc, at, result>>
vars    == <<folders, table, report, sweep, incomplete, events>>

File == {"manifest", "archives", "characteristics"}

\* "wrong" is what a check of the set itself refuses, "import" what only the importer
\* would refuse, and "stuck" what looks unfinished for ever: a size that is written
\* down wrong, a characteristics file that has another name in the manifest.  The rest
\* no check answers for: a set without a name, and an "illegible" manifest, with a limit
\* that is not a number, or not in UTF-8 (a set that shares its name with no other).
Flaw    == {"none", "wrong", "import", "stuck", "illegible", "nameless"}
Verdict == {"ready", "already", "incomplete", "invalid"}

TypeOK ==
  /\ set \in [Folder -> Folder]
  /\ flaw \in [Folder -> Flaw]
  /\ short \in [Folder -> SUBSET File]
  /\ begun \in SUBSET Folder
  /\ run \in [Folder -> {"none", "ingest", "polygon"}]
  /\ dir \in [Folder -> Folder \cup {0}]
  /\ report \in [Folder -> {"none", "incomplete", "invalid"}]
  /\ pc \in {"scan", "create", "start", "feedback"}
  /\ at \in Folder
  /\ result \in [Folder -> Verdict \cup {"none"}]
  /\ incomplete \in [Folder -> 0 .. FeedbackAfter]
  /\ events \in 0 .. MaxEvents

Unknown == [f \in Folder |-> "none"]

Init ==
  /\ set \in {s \in [Folder -> Folder] : \A f \in Folder : s[f] <= f /\ s[s[f]] = s[f]}
  /\ flaw \in [Folder -> Flaw]
  /\ short = [f \in Folder |-> File] /\ begun = {}
  /\ run = Unknown /\ dir = [f \in Folder |-> 0]
  /\ report = Unknown
  /\ pc = "scan" /\ at = 1 /\ result = Unknown
  /\ incomplete = [f \in Folder |-> 0]
  /\ events = 0

-----------------------------------------------------------------------------
(***************************************************************************)
(* inspect: the verdict on a folder.                                       *)
(***************************************************************************)

Known(f) == run[set[f]] # "none"

RefusedUnread(f) ==   \* mutant: what is wrong in an archive is not seen
  "characteristics" \in short[f] /\ f \in begun

\* Something is wrong that is not marked as "still filling up".  An archive short of
\* its size is not opened; the characteristics have no recorded size, and in mid-copy
\* they have the wrong checksum.
Refused(f) ==
  \/ flaw[f] = "wrong" /\ "archives" \notin short[f]
  \/ "characteristics" \in short[f] /\ f \in begun

Unfinished(f) == short[f] # {} \/ flaw[f] = "stuck"

\* An importer out of reach refuses nothing.
RefusedByImporter(f, reached) == flaw[f] = "import" /\ reached

\* The files are there: what the checks say, in their order.  The name is only looked
\* for when the run is created.
VerdictOnFiles(f, reached) ==
  CASE Refused(f) -> "invalid"
    [] ~Refused(f) /\ Unfinished(f) -> "incomplete"
    [] ~Refused(f) /\ ~Unfinished(f) ->
         IF RefusedByImporter(f, reached) THEN "invalid"
         ELSE IF flaw[f] = "nameless" THEN "raises" ELSE "ready"

\* "raises" is no verdict: inspect or ingest ends by an exception.
VerdictOn(f, reached) ==
  CASE "manifest" \in short[f] -> "incomplete"
    [] "manifest" \notin short[f] /\ Known(f) /\ flaw[f] # "nameless" -> "already"
    [] OTHER -> IF flaw[f] = "illegible" THEN "raises" ELSE VerdictOnFiles(f, reached)

-----------------------------------------------------------------------------
(***************************************************************************)
(* scan, and ingest for one folder after the other.                        *)
(***************************************************************************)

FindingPastEnd(f, verdict) ==   \* mutant: one folder too many
  /\ result' = [result EXCEPT ![f] = verdict]
  /\ IF f <= Folders THEN pc' = "scan" /\ at' = f + 1 ELSE pc' = "feedback" /\ at' = 1

Finding(f, verdict) ==
  /\ result' = [result EXCEPT ![f] = verdict]
  /\ IF f < Folders THEN pc' = "scan" /\ at' = f + 1 ELSE pc' = "feedback" /\ at' = 1

Inspect ==
  /\ pc = "scan"
  /\ \E reached \in BOOLEAN :
       LET verdict == VerdictOn(at, reached) IN
         /\ verdict # "raises"
         /\ IF verdict = "ready" THEN pc' = "create" /\ UNCHANGED <<at, result>>
            ELSE Finding(at, verdict)
  /\ UNCHANGED <<folders, table, report, incomplete, events>>

\* The row is inserted at the stage INGEST, where no lane looks.
CreateRun ==
  /\ pc = "create" /\ pc' = "start"
  /\ run' = [run EXCEPT ![set[at]] = "ingest"]
  /\ dir' = [dir EXCEPT ![set[at]] = at]
  /\ UNCHANGED <<folders, report, at, result, incomplete, events>>

\* A second transaction hands it over.
StartRun ==
  /\ pc = "start" /\ Known(at)
  /\ run' = [run EXCEPT ![set[at]] = "polygon"]
  /\ Finding(at, "ready")
  /\ UNCHANGED <<folders, dir, report, incomplete, events>>

-----------------------------------------------------------------------------
(***************************************************************************)
(* _feedback and feedback.write, once every folder has been inspected.     *)
(***************************************************************************)

NextFeedback ==
  /\ result' = [result EXCEPT ![at] = "none"]
  /\ IF at < Folders THEN at' = at + 1 /\ UNCHANGED pc ELSE pc' = "scan" /\ at' = 1

Longer(n) == IF n < FeedbackAfter THEN n + 1 ELSE n

Counted ==
  incomplete' = [incomplete EXCEPT ![at] = IF result[at] = "incomplete" THEN Longer(@) ELSE 0]

WorthOnce ==   \* mutant: told on the tick that ends the grace period, and no other
  \/ result[at] = "invalid"
  \/ result[at] = "incomplete" /\ incomplete'[at] = FeedbackAfter /\ incomplete[at] < FeedbackAfter

\* An incomplete folder is given time; one that is wrong is reported at once.
Worth == result[at] = "invalid" \/ (result[at] = "incomplete" /\ incomplete'[at] = FeedbackAfter)

Wait ==
  /\ pc = "feedback" /\ result[at] = "incomplete"
  /\ Counted /\ ~Worth
  /\ NextFeedback
  /\ UNCHANGED <<folders, table, report, events>>

Write ==
  /\ pc = "feedback"
  /\ Counted /\ Worth
  /\ report' = [report EXCEPT ![at] = result[at]]
  /\ NextFeedback
  /\ UNCHANGED <<folders, table, events>>

WithdrawIfReady ==   \* mutant: only on the sweep that registers the run
  /\ pc = "feedback" /\ result[at] \in {"ready", "already"}
  /\ Counted
  /\ report' = IF result[at] = "ready" THEN [report EXCEPT ![at] = "none"] ELSE report
  /\ NextFeedback
  /\ UNCHANGED <<folders, table, events>>

Withdraw ==
  /\ pc = "feedback" /\ result[at] \in {"ready", "already"}
  /\ Counted
  /\ report' = [report EXCEPT ![at] = "none"]
  /\ NextFeedback
  /\ UNCHANGED <<folders, table, events>>

Step == Inspect \/ CreateRun \/ StartRun \/ Wait \/ Write \/ Withdraw

-----------------------------------------------------------------------------
(***************************************************************************)
(* Faults: of a set, of the watch folder, of the process.                  *)
(***************************************************************************)

Event == events < MaxEvents /\ events' = events + 1

EndSweep == pc' = "scan" /\ at' = 1 /\ result' = Unknown

Raising(f) == \E reached \in BOOLEAN : VerdictOn(f, reached) = "raises"

\* _ingest catches an OSError and nothing else: the loop ends with the sweep, and when
\* it is started again it comes to the same folder.
IntakeRaises ==
  /\ pc = "scan" /\ Raising(at)
  /\ EndSweep
  /\ incomplete' = [f \in Folder |-> 0]
  /\ UNCHANGED <<folders, table, report, events>>

\* A read fails: the sweep is given up, and nobody is told what it had found.
SweepFails ==
  /\ pc = "scan" /\ Event
  /\ EndSweep
  /\ UNCHANGED <<folders, table, report, incomplete>>

\* The report cannot be written: caught, and the sweep goes on.
WriteFails ==
  /\ pc = "feedback" /\ Event
  /\ Counted /\ Worth
  /\ NextFeedback
  /\ UNCHANGED <<folders, table, report>>

\* The report cannot be deleted: not caught there, and the sweep ends.
WithdrawFails ==
  /\ pc = "feedback" /\ result[at] \in {"ready", "already"} /\ report[at] # "none"
  /\ Event
  /\ Counted
  /\ EndSweep
  /\ UNCHANGED <<folders, table, report>>

\* The process ends and is started again.  Some ends are its own doing: a manifest cut
\* inside a character raises what neither inspect nor the scheduler catches.
Crash ==
  /\ Event
  /\ EndSweep
  /\ incomplete' = [f \in Folder |-> 0]
  /\ UNCHANGED <<folders, table, report>>

\* The run was deleted before its first log line, which has then no row to refer to.
StartRaises ==
  /\ pc = "start" /\ ~Known(at)
  /\ EndSweep
  /\ incomplete' = [f \in Folder |-> 0]
  /\ UNCHANGED <<folders, table, report, events>>

-----------------------------------------------------------------------------
(***************************************************************************)
(* The people who deliver, and the operator.                               *)
(***************************************************************************)

Begin(f) ==
  /\ f \notin begun /\ begun' = begun \cup {f}
  /\ UNCHANGED <<set, flaw, short, table, report, sweep, incomplete, events>>

Copy(f, file) ==
  /\ file \in short[f] /\ (file = "characteristics" => f \in begun)
  /\ short' = [short EXCEPT ![f] = @ \ {file}]
  /\ UNCHANGED <<set, flaw, begun, table, report, sweep, incomplete, events>>

\* A set that is corrected in its folder, by files that appear at once.
Mend(f) ==
  /\ flaw[f] # "none" /\ Event
  /\ flaw' = [flaw EXCEPT ![f] = "none"]
  /\ UNCHANGED <<set, short, begun, table, report, sweep, incomplete>>

\* The dashboard's forget: the name is free again.
Forget(s) ==
  /\ run[s] # "none" /\ Event
  /\ run' = [run EXCEPT ![s] = "none"]
  /\ dir' = [dir EXCEPT ![s] = 0]
  /\ UNCHANGED <<folders, report, sweep, incomplete>>

Delivery(f) == Begin(f) \/ \E file \in File : Copy(f, file)

Next ==
  \/ Step \/ IntakeRaises \/ SweepFails \/ WriteFails \/ WithdrawFails \/ Crash \/ StartRaises
  \/ \E f \in Folder : Delivery(f) \/ Mend(f) \/ Forget(f)

Spec == Init /\ [][Next]_vars

\* The loop goes on, started again whenever a set ended it, and every delivery is copied
\* to its end.
FairSpec ==
  Spec /\ WF_vars(Step \/ StartRaises \/ IntakeRaises) /\ WF_vars(\E f \in Folder : Delivery(f))

-----------------------------------------------------------------------------
(***************************************************************************)
(* Properties.                                                             *)
(***************************************************************************)

\* A set is registered only from a folder whose files are all there, to the end and
\* as described: no order of copying, and no second folder of the same name, gets
\* half a set into Polygon.  Only an importer out of reach may let something pass.
RegisteredIsSound ==
  \A s \in Folder :
    run[s] # "none" => /\ set[dir[s]] = s
                       /\ short[dir[s]] = {}
                       /\ flaw[dir[s]] \in {"none", "import"}

\* Some folder makes every sweep end by an exception.
Blocked == \E f \in Folder : Raising(f)

\* A correction request beside a folder whose set is registered does not stay, even if
\* the sweep that registered it was cut off before it came to the reports: unless a set
\* ends every sweep before that.
StaleReportGoes ==
  \A f \in Folder : []<>(report[f] # "none" /\ Known(f) => Blocked)

Answered(f) == Known(f) \/ (report[f] # "none" /\ flaw[f] # "none")

\* A delivery is answered in the end: by a run of its name, or, if there is something
\* wrong with it, by a request to its author.  A set that is in order is taken in,
\* whatever was reported while it was copied or before it was corrected, and one that
\* only looks unfinished is explained, even when the report could not be written once.
\* Excepted is what is delivered beside a set that ends every sweep (NoCandidateIsDropped),
\* until that one is corrected.
EveryDeliveryIsAnswered ==
  \A f \in Folder : []<>(Answered(f) \/ Blocked)

-----------------------------------------------------------------------------
(***************************************************************************)
(* What the documentation says and the code does not do.                   *)
(***************************************************************************)

\* ingest: a registered run is not left at INGEST, where "nothing would ever pick it
\* up".  A crash between the two transactions leaves it there, and its name is taken.
RegisteredRunIsWorked == \A s \in Folder : run[s] = "ingest" ~> run[s] # "ingest"

\* _ingest: "a candidate that is not ingested must be reported, not dropped".  One whose
\* manifest is not UTF-8 gets no report, and neither does any folder beside it.
NoCandidateIsDropped == \A f \in Folder : []<>Answered(f)
===============================================================================
