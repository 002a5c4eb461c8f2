--------------------------------- MODULE Audit ---------------------------------
(***************************************************************************)
(* Stage 8 of one run (ElectiCodeLane._audit with the comparisons of       *)
(* preflight.py): read the platform back, once by the catalog, once by the *)
(* paged table if divisions were asked for, once by the contest list, and  *)
(* let the report tool compare; then the run is DONE, or it stops.         *)
(*                                                                         *)
(* The sources are read one after the other, while other people work on    *)
(* the platform; each is a file that outlives the step, and any row of it  *)
(* may lack the field it was read for.  The contest list shows titles, and *)
(* no slugs.  A tool call and the writes after it are separate steps.  The *)
(* dashboard's handlers are single steps here; how their reads and writes  *)
(* interleave with a lane is in ElectiCodeLane.                            *)
(***************************************************************************)
EXTENDS Integers, FiniteSets

CONSTANTS
  Problem,      \* the problems of the run
  Dropped,      \* problems of the manifest that the run quarantined
  RetryCap,     \* RETRY_CAP of electicode_lane.py
  MaxWrong,     \* bound: facts about the run's problems that are wrong at the start
  MaxEvents     \* bound: changes by other people, requests and crashes

ASSUME ProblemAssumption == IsFiniteSet(Problem) /\ Problem # {}
ASSUME DroppedAssumption == IsFiniteSet(Dropped) /\ Problem \cap Dropped = {}
ASSUME RetryCapAssumption == RetryCap \in Nat \ {0}
ASSUME BoundsAssumption == MaxWrong \in Nat /\ MaxEvents \in Nat

VARIABLES
  status,     \* runs.status; "gaps" is AWAITING_APPROVAL as the audit sets it
  stage,      \* problems.stage
  attempts,   \* problems.attempts
  setting,    \* the batch's choices: claims it makes beyond the usual ones
  truth,      \* the platform: the facts that are true of it
  catalog,    \* catalog-after.json, which no step reads before it writes it
  paged,      \* catalog-paged.json
  pc,         \* where the step in progress is; "idle" between steps
  asked,      \* the settings as the step in progress read them
  left,       \* problems whose row is still to be marked
  noted,      \* history: claims the log of this step says are not verified
  readable,   \* history: could this step read the manifest?
  untold,     \* history: problems whose title does not tell if they are listed
  moved,      \* history: the facts others have changed since this step began
  cause,      \* history: the claim the run was stopped for, or "none"
  events      \* history: changes by other people, requests and crashes

rows    == <<stage, attempts>>
files   == <<catalog, paged>>
memory  == <<pc, asked, left>>
said    == <<noted, readable, untold>>
seen    == <<said, moved>>
vars    == <<status, rows, setting, truth, files, memory, seen, cause, events>>

Slug == Problem \cup Dropped

\* What the audit holds against the platform: a problem is there, has its limits,
\* its labels, the division access asked for, and its place in the contest list.
Claim  == {"here", "limits", "labels", "access", "listed"}
Choice == {"access", "listed"}

\* A problem is "named" while the platform shows it under its authored title.  Of a
\* quarantined slug, only what some check may look at.
Aspect == Claim \cup {"named"}
Fact   == (Aspect \X Problem) \cup ({"here", "limits"} \X Dropped)

\* The slugs a claim is true of, in a set of facts.
Of(c, facts) == {s \in Slug : <<c, s>> \in facts}

\* A scrape: the facts it found, and the slugs whose row carries the field it was read
\* for: both limits (with limits in the manifest to hold against them), or the access.
Scrape   == [facts : SUBSET Fact, columns : SUBSET Slug]
NoScrape == [facts |-> {}, columns |-> {}]

Stopped == {"failed", "expired", "gaps"}

TypeOK ==
  /\ status \in Stopped \cup {"running", "done"}
  /\ stage \in [Problem -> {"chored", "audited"}]
  /\ attempts \in [Problem -> Nat]
  /\ setting \in SUBSET Choice
  /\ truth \in SUBSET Fact
  /\ catalog \in Scrape /\ paged \in Scrape
  /\ pc \in {"idle", "session", "catalog", "paged", "compare", "list", "report", "marking"}
  /\ asked \in SUBSET Choice
  /\ left \in SUBSET Problem
  /\ noted \in SUBSET Claim /\ readable \in BOOLEAN /\ untold \in SUBSET Problem
  /\ moved \in SUBSET Fact
  /\ cause \in Claim \cup {"none"}
  /\ events \in 0 .. MaxEvents

\* Reconcile found the run's problems; the chores may have missed any of the
\* rest, a quarantined slug may belong to a problem that was there before, and a
\* problem under another title is a warning of reconcile and no more.
Init ==
  /\ status = "running"
  /\ stage = [p \in Problem |-> "chored"]
  /\ attempts = [p \in Problem |-> 0]
  /\ setting \in SUBSET Choice
  /\ truth \in {f \in SUBSET Fact : Cardinality((Aspect \X Problem) \ f) <= MaxWrong}
  /\ Problem \subseteq Of("here", truth) /\ Of("limits", truth) \subseteq Of("here", truth)
  /\ catalog = NoScrape /\ paged = NoScrape
  /\ pc = "idle" /\ asked = {} /\ left = {}
  /\ noted = {} /\ readable = TRUE /\ untold = {} /\ moved = {}
  /\ cause = "none"
  /\ events = 0

-----------------------------------------------------------------------------
(***************************************************************************)
(* Ways for a step to end, and pieces of the handlers.                     *)
(***************************************************************************)

\* What the step keeps in memory is lost, and its log has been read.
Return ==
  /\ catalog' = NoScrape
  /\ pc' = "idle" /\ asked' = {} /\ left' = {}
  /\ noted' = {} /\ readable' = TRUE /\ untold' = {}

StopAs(newStatus, why) ==
  /\ status' = newStatus /\ cause' = why
  /\ Return
  /\ UNCHANGED <<stage, setting, truth, moved, events>>

\* _fail and Store.block, neither of which touches a row.
Stop(newStatus, why) == StopAs(newStatus, why) /\ UNCHANGED <<attempts, paged>>

Exhausted == \E p \in Problem : attempts[p] + 1 >= RetryCap

SetbackUncounted ==   \* mutant: the attempt is not counted
  /\ StopAs(status, "none")
  /\ UNCHANGED <<attempts, paged>>

\* _setback of a fault worth retrying: counted on every problem of the run.
Setback ==
  /\ StopAs(IF Exhausted THEN "failed" ELSE status, "none")
  /\ attempts' = [p \in Problem |-> attempts[p] + 1]
  /\ UNCHANGED paged

\* A tool that did not exit 0: a RETRY is a setback, all else fails the run.
ToolFails == Setback \/ Stop("failed", "none")

GoTo(here) ==
  /\ pc' = here
  /\ UNCHANGED <<status, rows, setting, truth, asked, left, moved, cause, events>>

-----------------------------------------------------------------------------
(***************************************************************************)
(* step, _session_ok, and the scrapes.                                     *)
(***************************************************************************)

BeginStep ==
  /\ pc = "idle" /\ status = "running"
  /\ pc' = "session"
  /\ moved' = {}
  /\ UNCHANGED <<status, rows, setting, truth, files, said, asked, left, cause, events>>

SessionExpired == pc = "session" /\ Stop("expired", "none")

\* The run is read again once the session is known to be good.
SessionHolds ==
  /\ pc = "session"
  /\ pc' = "catalog" /\ asked' = setting
  /\ UNCHANGED <<status, rows, setting, truth, files, left, seen, cause, events>>

SessionFault == pc = "session" /\ ToolFails

\* The platform as it is, with some of the rows carrying the field.
Snapshots == {[facts |-> truth, columns |-> b] : b \in SUBSET Of("here", truth)}

\* The tool falls back to the paged table by itself, which has no limits.
ScrapeCatalog ==
  /\ pc = "catalog"
  /\ catalog' \in Snapshots
  /\ GoTo(IF "access" \in asked THEN "paged" ELSE "compare")
  /\ UNCHANGED <<paged, said>>

ScrapePagedOnce ==   \* mutant: a table that was paged before is used again
  /\ pc = "paged"
  /\ IF paged.facts = {} THEN paged' \in Snapshots ELSE UNCHANGED paged
  /\ GoTo("compare")
  /\ UNCHANGED <<catalog, said>>

ScrapePaged ==
  /\ pc = "paged"
  /\ paged' \in Snapshots
  /\ GoTo("compare")
  /\ UNCHANGED <<catalog, said>>

ScrapeFails == pc \in {"catalog", "paged"} /\ ToolFails

-----------------------------------------------------------------------------
(***************************************************************************)
(* Maestro's own comparisons: limits, then divisions, then the list.       *)
(***************************************************************************)

\* The characteristics file is gone: raised out of the lane, and caught.
CharacteristicsUnreadable == pc = "compare" /\ Stop("failed", "none")

\* The rows of a scrape that can be compared; each of the others is passed over.
Carries(scrape) == Of("here", scrape.facts) \cap scrape.columns

LimitsWrongForAll ==   \* mutant: one problem with the right limits is enough
  Carries(catalog) # {} /\ Carries(catalog) \cap Of("limits", catalog.facts) = {}

\* limits_landed goes through the manifest, not through the run.
LimitsWrong == ~ Carries(catalog) \subseteq Of("limits", catalog.facts)

\* divisions_landed goes through the problems of the run.
Granted == Problem \cap Carries(paged)

AccessWrong == "access" \in asked /\ ~ Granted \subseteq Of("access", paged.facts)

LimitsFail == pc = "compare" /\ LimitsWrong /\ Stop("failed", "limits")

AccessFails ==
  /\ pc = "compare" /\ AccessWrong
  /\ Stop("failed", "access")

\* That a claim is not verified is noted only if not a single row could be compared.
\* A manifest that cannot be read leaves the limits uncompared, and says nothing.
Compared ==
  /\ pc = "compare" /\ ~AccessWrong
  /\ readable' \in BOOLEAN
  /\ readable' => ~LimitsWrong
  /\ noted' = {c \in {"limits", "access"} :
                \/ c = "limits" /\ readable' /\ Carries(catalog) = {}
                \/ c = "access" /\ "access" \in asked /\ Granted = {}}
  /\ GoTo(IF "listed" \in asked THEN "list" ELSE "report")
  /\ UNCHANGED <<files, untold>>

\* The list is unreadable or reads back empty: a warning and no more.
ListUnseen ==
  /\ pc = "list"
  /\ noted' = noted \cup {"listed"}
  /\ GoTo("report")
  /\ UNCHANGED <<files, readable, untold>>

\* The problems that the list shows under their authored title.
Shown == Of("listed", truth) \cap Of("named", truth)

\* A problem that is not shown passes all the same if its authored title is blank, or is
\* the title of another entry.
ListComplete ==
  /\ pc = "list"
  /\ untold' = Problem \ Shown
  /\ GoTo("report")
  /\ UNCHANGED <<files, noted, readable>>

\* A problem that is in the list under a new title is not found there.
ListLacksSome ==
  /\ pc = "list" /\ ~ Problem \subseteq Shown
  /\ Stop("failed", "listed")

-----------------------------------------------------------------------------
(***************************************************************************)
(* The report tool over one of the two files, and the end of the run.      *)
(***************************************************************************)

Input == IF "access" \in asked THEN paged ELSE catalog

\* The claims the tool is asked to compare and the ones its input has columns for.
Asked  == {"here", "labels"} \cup (asked \cap {"access"})
CanRun == {c \in Asked : c = "access" => Granted # {}}

\* The problems that the tool holds a claim against.
Compares(c) == IF c = "access" THEN Granted ELSE Problem

\* The tool runs some of the checks it can, the first of them always.
RunsClean(cs) ==
  /\ pc = "report"
  /\ "here" \in cs /\ cs \subseteq CanRun /\ CanRun \ cs \subseteq {"labels"}
  /\ \A c \in cs : Compares(c) \subseteq Of(c, Input.facts)

ReportGaps(c) ==
  /\ pc = "report" /\ c \in CanRun
  /\ ~ Compares(c) \subseteq Of(c, Input.facts)
  /\ Stop("gaps", c)

ReportFails == pc = "report" /\ ToolFails

ReportCleanUnread ==   \* mutant: exit 0 is taken for an audit of everything
  /\ \E cs \in SUBSET Asked : RunsClean(cs)
  /\ left' = Problem /\ pc' = "marking"
  /\ UNCHANGED <<status, rows, setting, truth, files, asked, seen, cause, events>>

\* Exit 0, and checks_run has every check the batch needs; or the tool is an
\* older one that does not say, and it is noted that nothing is confirmed.
ReportClean ==
  /\ \E cs \in SUBSET Asked, says \in BOOLEAN :
       /\ RunsClean(cs)
       /\ says => cs = Asked
       /\ noted' = IF says THEN noted ELSE noted \cup Asked
  /\ left' = Problem /\ pc' = "marking"
  /\ UNCHANGED <<status, rows, setting, truth, files, asked, readable, untold, moved,
                 cause, events>>

\* Exit 0, and checks_run lacks one: it must not read as a pass.
ReportIncomplete ==
  /\ \E cs \in SUBSET Asked : RunsClean(cs) /\ cs # Asked
  /\ Stop("gaps", "none")

Mark(p) ==
  /\ pc = "marking" /\ p \in left
  /\ stage' = [stage EXCEPT ![p] = "audited"]
  /\ attempts' = [attempts EXCEPT ![p] = 0]
  /\ left' = left \ {p}
  /\ UNCHANGED <<status, setting, truth, files, pc, asked, seen, cause, events>>

FinishAsStage == pc = "marking" /\ left = {} /\ Stop("audit", "none")   \* mutant
Finish == pc = "marking" /\ left = {} /\ Stop("done", "none")

LaneStep ==
  \/ BeginStep \/ SessionExpired \/ SessionHolds \/ SessionFault
  \/ ScrapeCatalog \/ ScrapePaged \/ ScrapeFails
  \/ CharacteristicsUnreadable \/ LimitsFail \/ AccessFails \/ Compared
  \/ ListUnseen \/ ListComplete \/ ListLacksSome
  \/ ReportFails \/ ReportClean \/ ReportIncomplete \/ Finish
  \/ \E c \in Claim : ReportGaps(c)
  \/ \E p \in Problem : Mark(p)
-----------------------------------------------------------------------------
(***************************************************************************)
(* The operator, the mind, other people, and a crash of Maestro.           *)
(***************************************************************************)

Event == events < MaxEvents /\ events' = events + 1

\* Resume, or approve of a blocked run: the audit is done again.
Resume ==
  /\ status \in Stopped /\ Event
  /\ status' = "running" /\ cause' = "none"
  /\ UNCHANGED <<rows, setting, truth, files, memory, seen>>

\* The settings of a batch may be changed at any time.
ChangeSetting ==
  /\ Event
  /\ \E c \in Choice :
       setting' = IF c \in setting THEN setting \ {c} ELSE setting \cup {c}
  /\ UNCHANGED <<status, rows, truth, files, memory, seen, cause>>

\* Somebody else mends or spoils one fact.
OthersChange(f) ==
  /\ Event
  /\ truth' = IF f \in truth THEN truth \ {f} ELSE truth \cup {f}
  /\ moved' = moved \cup {f}
  /\ UNCHANGED <<status, rows, setting, files, memory, said, cause>>

Crash ==
  /\ pc # "idle"
  /\ Event
  /\ Return
  /\ UNCHANGED <<status, rows, setting, truth, paged, moved, cause>>

\* step returns at once for a run that is stopped or done.
StepReturns == pc = "idle" /\ status # "running" /\ UNCHANGED vars

Next ==
  \/ LaneStep \/ StepReturns \/ Resume \/ ChangeSetting \/ Crash
  \/ \E f \in Fact : OthersChange(f)

Spec == Init /\ [][Next]_vars

\* The scheduler steps a running run again and again, and every tool returns.
FairSpec == Spec /\ WF_vars(LaneStep)

-----------------------------------------------------------------------------
(***************************************************************************)
(* Properties.                                                             *)
(***************************************************************************)

\* The claims a batch with these settings makes on the platform.
Due == {"here", "limits", "labels"} \cup asked

\* What a problem passes for uncompared and unsaid: the manifest is unread, its own row
\* lacks the field that some other row carries, its title tells nothing.
PassedOver(p, c) ==
  \/ c = "limits" /\ (readable => Carries(catalog) # {} /\ p \notin Carries(catalog))
  \/ c = "access" /\ Granted # {} /\ p \notin Granted
  \/ c = "listed" /\ p \in untold

\* The claim was true of p at some time since the step began, or p passed over.
Confirmed(p, c) == <<c, p>> \in truth \cup moved \/ PassedOver(p, c)

\* A row is marked AUDITED only if each claim of its batch was true of every
\* problem at some time in this very step, or the log says it is not verified:
\* no file of an earlier attempt and no check skipped with exit 0 will do.  A
\* problem is excepted whose own row could not be compared although another could
\* (PassedOver): nothing is said of it.
AuditedMeansChecked ==
  pc = "marking" =>
    \A p \in Problem, c \in Due \ noted : Confirmed(p, c)

\* The fact was false of a problem of the run at some time since the step began.
WasFalse(c) == \E p \in Problem : <<c, p>> \in (Fact \ truth) \cup moved

\* An audit that stops a run for a claim saw it fail for one of its problems, in
\* this step: what was mended since the last attempt is not held against it.  Of a
\* run stopped for the contest list, a problem was missing there or had another
\* title.  The limits are excepted: they are compared for quarantined problems too.
StopsForCause ==
  cause \notin {"none", "limits"} =>
    WasFalse(cause) \/ (cause = "listed" /\ WasFalse("named"))

\* The audit comes to an end, DONE or stopped with a reason, whatever others do
\* to the platform meanwhile: no scrape is retried for ever (_setback).
AuditSettles == status = "running" ~> status # "running"
===============================================================================
