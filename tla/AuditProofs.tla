------------------------------ MODULE AuditProofs ------------------------------
(***************************************************************************)
(* Proofs about Audit, for every set of problems, number of retries and    *)
(* number of changes by other people.                                      *)
(***************************************************************************)
EXTENDS Audit, TLAPS

\* Outside a step nothing stands against a run that is to go on; inside one it runs.
RunInv ==
  /\ status = "running" => cause = "none"
  /\ pc # "idle" => status = "running"

\* A scrape is right about every fact that nobody has changed since the step began.
RightOn(scrape) == \A f \in Fact \ moved : f \in scrape.facts <=> f \in truth

\* Of the files, only those this step has written are looked at.
FreshInv ==
  /\ pc \in {"paged", "compare", "list", "report", "marking"} => RightOn(catalog)
  /\ pc \in {"compare", "list", "report", "marking"} /\ "access" \in asked => RightOn(paged)

\* What Maestro's own comparisons have established by the time they are over.
LimitsSeen ==
  /\ Carries(catalog) # {}
  /\ Carries(catalog) \subseteq Of("limits", catalog.facts)
AccessSeen == Granted # {} /\ Granted \subseteq Of("access", paged.facts)
ListSeen == \A p \in Problem : <<"listed", p>> \in truth \cup moved \/ p \in untold

ComparedInv ==
  /\ pc \in {"list", "report", "marking"} /\ readable /\ "limits" \notin noted => LimitsSeen
  /\ pc \in {"list", "report", "marking"} /\ "access" \in asked /\ "access" \notin noted => AccessSeen
  /\ pc \in {"report", "marking"} /\ "listed" \in asked /\ "listed" \notin noted => ListSeen

AuditInv ==
  TypeOK /\ RunInv /\ FreshInv /\ ComparedInv /\ AuditedMeansChecked /\ StopsForCause

-----------------------------------------------------------------------------
(***************************************************************************)
(* Facts about claims and scrapes.                                         *)
(***************************************************************************)

\* A claim about a problem of the run is a fact that the checks know, and so is its name.
LEMMA ClaimIsFact == \A c \in Aspect, p \in Problem : <<c, p>> \in Fact
  BY DEF Fact
LEMMA ClaimIsAspect == Claim \subseteq Aspect
  BY DEF Aspect

\* What is not so in a scrape that is right was not so on the platform, or has been
\* changed since.
LEMMA AbsenceIsSeen ==
  ASSUME NEW scrape, RightOn(scrape), NEW c \in Claim,
         ~ Problem \subseteq Of(c, scrape.facts)
  PROVE  WasFalse(c)
  BY ClaimIsFact, ClaimIsAspect DEF RightOn, WasFalse, Of, Slug

\* And what is so in it was so, or has been changed since.
LEMMA PresenceIsSeen ==
  ASSUME NEW scrape, RightOn(scrape), NEW c \in Claim, NEW p \in Problem,
         p \in Of(c, scrape.facts)
  PROVE  <<c, p>> \in truth \cup moved
  BY ClaimIsFact, ClaimIsAspect DEF RightOn, Of

-----------------------------------------------------------------------------
(***************************************************************************)
(* The preservation of each part.                                          *)
(***************************************************************************)

\* The variables of a step keep their types.
LEMMA TypePreserved == TypeOK /\ [Next]_vars => TypeOK'
  <1> SUFFICES ASSUME TypeOK, [Next]_vars PROVE TypeOK'
    OBVIOUS
  <1> USE BoundsAssumption
      DEF TypeOK, Stopped, Choice, Claim, rows, files, memory, said, seen, Event
  <1>1. NoScrape \in Scrape /\ Snapshots \subseteq Scrape
    <2>1. Of("here", truth) \subseteq Slug
      BY DEF Of
    <2> QED
      BY <2>1 DEF NoScrape, Scrape, Snapshots
  <1>2. ASSUME NEW s \in Stopped \cup {"running", "done"}, NEW why \in Claim \cup {"none"},
               StopAs(s, why), UNCHANGED paged,
               attempts' \in [Problem -> Nat]
        PROVE  TypeOK'
    BY <1>1, <1>2 DEF StopAs, Return
  <1>3. ASSUME NEW s \in Stopped \cup {"running", "done"}, NEW why \in Claim \cup {"none"},
               Stop(s, why)
        PROVE  TypeOK'
    BY <1>2, <1>3 DEF Stop
  <1>4. ASSUME Setback PROVE TypeOK'
    <2>1. attempts' \in [Problem -> Nat]
      BY <1>4 DEF Setback
    <2> QED
      BY <1>2, <1>4, <2>1 DEF Setback
  <1>5. CASE ToolFails
    BY <1>3, <1>4, <1>5 DEF ToolFails
  <1>6. CASE BeginStep \/ SessionHolds
    BY <1>6 DEF BeginStep, SessionHolds
  <1>7. CASE ScrapeCatalog \/ ScrapePaged
    BY <1>1, <1>7 DEF ScrapeCatalog, ScrapePaged, GoTo
  <1>8. CASE Compared
    BY <1>8 DEF Compared, GoTo
  <1>9. CASE ListUnseen \/ ListComplete
    BY <1>9 DEF ListUnseen, ListComplete, GoTo
  <1>10. CASE ReportClean
    BY <1>10 DEF ReportClean, Asked
  <1>11. CASE SessionExpired \/ CharacteristicsUnreadable \/ LimitsFail \/ AccessFails
              \/ ListLacksSome \/ ReportIncomplete \/ Finish
    BY <1>3, <1>11 DEF SessionExpired, CharacteristicsUnreadable, LimitsFail, AccessFails,
         ListLacksSome, ReportIncomplete, Finish
  <1>12. ASSUME NEW c \in Claim, ReportGaps(c) PROVE TypeOK'
    BY <1>3, <1>12 DEF ReportGaps
  <1>13. ASSUME NEW p \in Problem, Mark(p) PROVE TypeOK'
    BY <1>13 DEF Mark
  <1>14. CASE Resume
    BY <1>14 DEF Resume
  <1>15. CASE ChangeSetting
    <2>1. setting' \in SUBSET Choice
      BY <1>15, Zenon DEF ChangeSetting
    <2> QED
      BY <1>15, <2>1 DEF ChangeSetting
  <1>16. CASE Crash
    BY <1>1, <1>16 DEF Crash, Return
  <1>17. ASSUME NEW f \in Fact, OthersChange(f) PROVE TypeOK'
    BY <1>17 DEF OthersChange
  <1>18. CASE StepReturns \/ UNCHANGED vars
    BY <1>18 DEF StepReturns, vars
  <1> QED
    BY <1>5, <1>6, <1>7, <1>8, <1>9, <1>10, <1>11, <1>12, <1>13, <1>14, <1>15, <1>16, <1>17,
       <1>18 DEF Next, LaneStep, SessionFault, ScrapeFails, ReportFails

\* The steps of a run that ends its step: all of them go back to "idle".
EndsStep ==
  \/ SessionExpired \/ SessionFault \/ ScrapeFails \/ CharacteristicsUnreadable
  \/ LimitsFail \/ AccessFails \/ ListLacksSome \/ ReportFails \/ ReportIncomplete
  \/ Finish \/ \E c \in Claim : ReportGaps(c)

\* They leave the platform alone, and give a cause only together with a stop.
LEMMA StepEnds ==
  ASSUME TypeOK, RunInv, EndsStep
  PROVE  /\ pc' = "idle" /\ UNCHANGED <<truth, moved>>
         /\ status' = "running" => cause' = "none"
  BY DEF EndsStep, SessionExpired, SessionFault, ScrapeFails, CharacteristicsUnreadable,
     LimitsFail, AccessFails, ListLacksSome, ReportFails, ReportIncomplete, Finish,
     ReportGaps, ToolFails, Setback, Stop, StopAs, Return, RunInv

\* A cause is given to a run only as it stops, and taken back as it goes on.
LEMMA RunPreserved == TypeOK /\ RunInv /\ [Next]_vars => RunInv'
  <1> SUFFICES ASSUME TypeOK, RunInv, [Next]_vars PROVE RunInv'
    OBVIOUS
  <1> USE DEF RunInv, rows, files, memory, said, seen
  <1>1. CASE EndsStep
    BY <1>1, StepEnds
  <1>2. CASE BeginStep \/ SessionHolds \/ ScrapeCatalog \/ ScrapePaged \/ Compared
             \/ ListUnseen \/ ListComplete \/ ReportClean
    BY <1>2 DEF BeginStep, SessionHolds, ScrapeCatalog, ScrapePaged, Compared, ListUnseen,
         ListComplete, ReportClean, RunsClean, GoTo
  <1>3. ASSUME NEW p \in Problem, Mark(p) PROVE RunInv'
    BY <1>3 DEF Mark
  <1>4. CASE Resume \/ ChangeSetting \/ Crash
    BY <1>4 DEF Resume, ChangeSetting, Crash, Return
  <1>5. ASSUME NEW f \in Fact, OthersChange(f) PROVE RunInv'
    BY <1>5 DEF OthersChange
  <1>6. CASE StepReturns \/ UNCHANGED vars
    BY <1>6 DEF StepReturns, vars
  <1> QED
    BY <1>1, <1>2, <1>3, <1>4, <1>5, <1>6 DEF Next, LaneStep, EndsStep

\* A scrape is right when it is taken, and a change by others is remembered.
LEMMA FreshPreserved == TypeOK /\ RunInv /\ FreshInv /\ [Next]_vars => FreshInv'
  <1> SUFFICES ASSUME TypeOK, RunInv, FreshInv, [Next]_vars PROVE FreshInv'
    OBVIOUS
  <1> USE DEF FreshInv, RightOn, rows, files, memory, said, seen
  <1>1. ASSUME pc' \in {"idle", "session"} PROVE FreshInv'
    BY <1>1
  <1>2. CASE EndsStep
    BY <1>1, <1>2, StepEnds
  <1>3. CASE BeginStep \/ Crash
    BY <1>1, <1>3 DEF BeginStep, Crash, Return
  <1>4. CASE SessionHolds
    BY <1>4 DEF SessionHolds
  <1>5. CASE ScrapeCatalog \/ ScrapePaged
    BY <1>5 DEF ScrapeCatalog, ScrapePaged, Snapshots, GoTo
  <1>6. CASE Compared \/ ListUnseen \/ ListComplete
    BY <1>6 DEF Compared, ListUnseen, ListComplete, GoTo
  <1>7. CASE ReportClean
    BY <1>7 DEF ReportClean, RunsClean
  <1>8. ASSUME NEW p \in Problem, Mark(p) PROVE FreshInv'
    BY <1>8 DEF Mark
  <1>9. CASE Resume \/ ChangeSetting
    BY <1>9 DEF Resume, ChangeSetting
  <1>10. ASSUME NEW f \in Fact, OthersChange(f) PROVE FreshInv'
    BY <1>10 DEF OthersChange
  <1>11. CASE StepReturns \/ UNCHANGED vars
    BY <1>11 DEF StepReturns, vars
  <1> QED
    BY <1>2, <1>3, <1>4, <1>5, <1>6, <1>7, <1>8, <1>9, <1>10, <1>11
       DEF Next, LaneStep, EndsStep

\* What a comparison found stays found: its file is not written again in the step, and
\* what others change is remembered.
LEMMA ComparedPreserved == AuditInv /\ [Next]_vars => ComparedInv'
  <1> SUFFICES ASSUME AuditInv, [Next]_vars PROVE ComparedInv'
    OBVIOUS
  <1> USE DEF AuditInv, TypeOK, ComparedInv, rows, files, memory, said, seen
  <1>1. ASSUME pc' \notin {"list", "report", "marking"} PROVE ComparedInv'
    BY <1>1
  <1>2. CASE EndsStep
    BY <1>1, <1>2, StepEnds
  <1>3. CASE BeginStep \/ SessionHolds \/ ScrapeCatalog \/ ScrapePaged \/ Crash
    BY <1>1, <1>3 DEF BeginStep, SessionHolds, ScrapeCatalog, ScrapePaged, GoTo, Crash, Return
  <1>a. UNCHANGED files => (LimitsSeen <=> LimitsSeen') /\ (AccessSeen <=> AccessSeen')
    BY DEF LimitsSeen, AccessSeen, Granted, Carries, Of
  <1>b. ASSUME ListSeen, UNCHANGED untold, UNCHANGED <<truth, moved>> PROVE ListSeen'
    BY <1>b DEF ListSeen
  <1>4. CASE Compared
    <2>1. readable' /\ "limits" \notin noted' => LimitsSeen
      BY <1>4 DEF Compared, LimitsWrong, LimitsSeen
    <2>2. "access" \in asked /\ "access" \notin noted' => AccessSeen
      BY <1>4 DEF Compared, AccessWrong, AccessSeen
    <2> QED
      BY <1>4, <1>a, <2>1, <2>2 DEF Compared, GoTo
  <1>5. CASE ListUnseen
    BY <1>5, <1>a DEF ListUnseen, GoTo
  <1>6. CASE ListComplete
    <2>1. ListSeen'
      BY <1>6 DEF ListComplete, ListSeen, GoTo, Shown, Of
    <2> QED
      BY <1>6, <1>a, <2>1 DEF ListComplete, GoTo
  <1>7. CASE ReportClean
    BY <1>7, <1>a, <1>b DEF ReportClean, RunsClean
  <1>8. ASSUME NEW p \in Problem, Mark(p) PROVE ComparedInv'
    BY <1>8, <1>a, <1>b DEF Mark
  <1>9. CASE Resume \/ ChangeSetting
    BY <1>9, <1>a, <1>b DEF Resume, ChangeSetting
  <1>10. ASSUME NEW f \in Fact, OthersChange(f) PROVE ComparedInv'
    <2>1. ListSeen => ListSeen'
      BY <1>10 DEF OthersChange, ListSeen
    <2> QED
      BY <1>10, <1>a, <2>1 DEF OthersChange
  <1>11. CASE StepReturns \/ UNCHANGED vars
    BY <1>11, <1>a, <1>b DEF StepReturns, vars
  <1> QED
    BY <1>2, <1>3, <1>4, <1>5, <1>6, <1>7, <1>8, <1>9, <1>10, <1>11
       DEF Next, LaneStep, EndsStep

\* Whether a claim is confirmed depends on the platform, the files and what was said.
LEMMA SameConfirmed ==
  ASSUME UNCHANGED <<truth, files, readable, untold, moved>>
  PROVE  \A p \in Problem, c \in Claim : Confirmed(p, c) <=> Confirmed(p, c)'
  BY DEF Confirmed, PassedOver, Granted, Carries, Of, files

\* The rows begin to be marked only when all that is due is confirmed or noted.
LEMMA MarkingPreserved == AuditInv /\ [Next]_vars => AuditedMeansChecked'
  <1> SUFFICES ASSUME AuditInv, [Next]_vars PROVE AuditedMeansChecked'
    OBVIOUS
  <1> USE DEF AuditInv, TypeOK, AuditedMeansChecked, rows, files, memory, said, seen
  <1>1. ASSUME pc' # "marking" PROVE AuditedMeansChecked'
    BY <1>1
  <1>a. Due \subseteq Claim
    BY DEF Due, Claim, Choice
  <1>b. ASSUME UNCHANGED <<pc, noted, asked>>, UNCHANGED <<truth, files, readable, untold, moved>>
        PROVE  AuditedMeansChecked'
    <2>1. Due' = Due
      BY <1>b DEF Due
    <2> QED
      BY <1>a, <1>b, <2>1, SameConfirmed
  <1>2. CASE ReportClean
    <2>1. PICK cs \in SUBSET Asked, says \in BOOLEAN :
            /\ RunsClean(cs)
            /\ says => cs = Asked
            /\ noted' = IF says THEN noted ELSE noted \cup Asked
      BY <1>2 DEF ReportClean
    <2>2. UNCHANGED <<truth, files, asked, readable, untold, moved>>
      BY <1>2 DEF ReportClean
    <2> SUFFICES ASSUME NEW p \in Problem, NEW c \in Due, c \notin noted'
                 PROVE  Confirmed(p, c)
      <3>1. Due' = Due
        BY <2>2 DEF Due
      <3> QED
        BY <1>a, <2>2, <3>1, SameConfirmed
    <2>3. c \in Claim /\ c \notin noted /\ pc = "report"
      BY <2>1 DEF Due, Claim, Choice, RunsClean
    <2>4. CASE c \in {"here", "labels"}
      <3>1. p \in Of(c, Input.facts)
        BY <2>1, <2>4 DEF RunsClean, Compares, Asked
      <3>2. RightOn(Input)
        BY <2>3 DEF FreshInv, Input
      <3> QED
        BY <2>3, <3>1, <3>2, PresenceIsSeen DEF Confirmed
    <2>5. CASE c = "limits"
      <3>1. readable => LimitsSeen
        BY <2>3, <2>5 DEF ComparedInv
      <3>2. CASE readable /\ p \in Carries(catalog)
        <4>1. p \in Of("limits", catalog.facts) /\ RightOn(catalog)
          BY <2>3, <3>1, <3>2 DEF LimitsSeen, FreshInv
        <4> QED
          BY <2>3, <2>5, <4>1, PresenceIsSeen DEF Confirmed
      <3> QED
        BY <2>5, <3>1, <3>2 DEF Confirmed, PassedOver, LimitsSeen
    <2>6. CASE c = "access" /\ c \in asked
      <3>1. AccessSeen /\ RightOn(paged)
        BY <2>3, <2>6 DEF ComparedInv, FreshInv
      <3>2. CASE p \in Granted
        BY <2>3, <2>6, <3>1, <3>2, PresenceIsSeen DEF Confirmed, AccessSeen
      <3> QED
        BY <2>6, <3>1, <3>2 DEF Confirmed, PassedOver, AccessSeen
    <2>7. CASE c = "listed" /\ c \in asked
      BY <2>3, <2>7 DEF ComparedInv, ListSeen, Confirmed, PassedOver
    <2> QED
      BY <2>4, <2>5, <2>6, <2>7 DEF Due, Choice
  <1>3. CASE EndsStep
    BY <1>1, <1>3, StepEnds
  <1>4. CASE BeginStep \/ SessionHolds \/ ScrapeCatalog \/ ScrapePaged \/ Crash \/ Compared
             \/ ListUnseen \/ ListComplete
    BY <1>1, <1>4 DEF BeginStep, SessionHolds, ScrapeCatalog, ScrapePaged, GoTo, Crash, Return,
         Compared, ListUnseen, ListComplete
  <1>5. ASSUME NEW p \in Problem, Mark(p) PROVE AuditedMeansChecked'
    BY <1>b, <1>5 DEF Mark
  <1>6. CASE Resume \/ ChangeSetting
    BY <1>b, <1>6 DEF Resume, ChangeSetting
  <1>7. ASSUME NEW f \in Fact, OthersChange(f) PROVE AuditedMeansChecked'
    <2>1. Due' = Due /\ Carries(catalog)' = Carries(catalog) /\ Granted' = Granted
      BY <1>7 DEF OthersChange, Due, Granted, Carries, Of
    <2>2. truth \cup moved \subseteq truth' \cup moved'
      BY <1>7 DEF OthersChange
    <2>3. UNCHANGED <<pc, noted, readable, untold>>
      BY <1>7 DEF OthersChange
    <2>4. \A p \in Problem, c \in Claim : Confirmed(p, c) => Confirmed(p, c)'
      BY <2>1, <2>2, <2>3, Zenon DEF Confirmed, PassedOver
    <2> QED
      BY <1>a, <2>1, <2>3, <2>4
  <1>8. CASE StepReturns \/ UNCHANGED vars
    BY <1>b, <1>8 DEF StepReturns, vars
  <1> QED
    BY <1>2, <1>3, <1>4, <1>5, <1>6, <1>7, <1>8 DEF Next, LaneStep, EndsStep

\* A comparison that stops the run looked at this step's file.
LEMMA CausePreserved == AuditInv /\ [Next]_vars => StopsForCause'
  <1> SUFFICES ASSUME AuditInv, [Next]_vars PROVE StopsForCause'
    OBVIOUS
  <1> USE DEF AuditInv, TypeOK, StopsForCause, rows, files, memory, said, seen
  <1>1. ASSUME UNCHANGED <<cause, truth, moved>> PROVE StopsForCause'
    BY <1>1 DEF WasFalse
  <1>2. ASSUME NEW c \in Claim, WasFalse(c), cause' = c, UNCHANGED <<truth, moved>>
        PROVE  StopsForCause'
    BY <1>2 DEF WasFalse
  <1>3. ASSUME cause' \in {"none", "limits"} PROVE StopsForCause'
    BY <1>3
  <1>4. CASE AccessFails
    <2>1. RightOn(paged)
      BY <1>4 DEF AccessFails, AccessWrong, FreshInv
    <2>2. ~ Problem \subseteq Of("access", paged.facts)
      BY <1>4 DEF AccessFails, AccessWrong, Granted
    <2>3. "access" \in Claim
      BY DEF Claim
    <2>4. WasFalse("access")
      BY <2>1, <2>2, <2>3, AbsenceIsSeen
    <2> QED
      BY <1>2, <1>4, <2>3, <2>4 DEF AccessFails, Stop, StopAs
  <1>5. CASE ListLacksSome
    <2>1. WasFalse("listed") \/ WasFalse("named")
      BY <1>5, ClaimIsFact DEF ListLacksSome, Shown, WasFalse, Of, Slug, Aspect
    <2> QED
      BY <1>5, <2>1 DEF ListLacksSome, Stop, StopAs, WasFalse
  <1>6. ASSUME NEW c \in Claim, ReportGaps(c) PROVE StopsForCause'
    <2>1. RightOn(Input)
      BY <1>6 DEF ReportGaps, FreshInv, Input
    <2>2. ~ Problem \subseteq Of(c, Input.facts)
      BY <1>6 DEF ReportGaps, Compares, Granted
    <2>3. WasFalse(c)
      BY <2>1, <2>2, AbsenceIsSeen
    <2> QED
      BY <1>2, <1>6, <2>3 DEF ReportGaps, Stop, StopAs
  <1>7. CASE SessionExpired \/ SessionFault \/ ScrapeFails \/ CharacteristicsUnreadable
             \/ LimitsFail \/ ReportFails \/ ReportIncomplete \/ Finish
    BY <1>3, <1>7 DEF SessionExpired, SessionFault, ScrapeFails, CharacteristicsUnreadable,
         LimitsFail, ReportFails, ReportIncomplete, Finish, ToolFails, Setback, Stop, StopAs
  <1>8. CASE BeginStep
    BY <1>3, <1>8 DEF BeginStep, RunInv
  <1>9. CASE Resume
    BY <1>3, <1>9 DEF Resume
  <1>10. CASE SessionHolds \/ ScrapeCatalog \/ ScrapePaged \/ Compared \/ ListUnseen
              \/ ListComplete \/ ReportClean \/ ChangeSetting \/ Crash
    BY <1>1, <1>10 DEF SessionHolds, ScrapeCatalog, ScrapePaged, GoTo, Compared, ListUnseen,
         ListComplete, ReportClean, ChangeSetting, Crash
  <1>11. ASSUME NEW p \in Problem, Mark(p) PROVE StopsForCause'
    BY <1>1, <1>11 DEF Mark
  <1>12. ASSUME NEW f \in Fact, OthersChange(f) PROVE StopsForCause'
    BY <1>12 DEF OthersChange, WasFalse
  <1>13. CASE StepReturns \/ UNCHANGED vars
    BY <1>1, <1>13 DEF StepReturns, vars
  <1> QED
    BY <1>4, <1>5, <1>6, <1>7, <1>8, <1>9, <1>10, <1>11, <1>12, <1>13 DEF Next, LaneStep

-----------------------------------------------------------------------------
(***************************************************************************)
(* The theorems.                                                           *)
(***************************************************************************)

\* The inductive invariant that the theorems rest on.
THEOREM AuditInvariance == Spec => []AuditInv
  <1>1. Init => AuditInv
    <2> SUFFICES ASSUME Init PROVE AuditInv
      OBVIOUS
    <2>1. TypeOK
      BY BoundsAssumption DEF Init, TypeOK, NoScrape, Scrape, Stopped
    <2> QED
      BY <2>1 DEF Init, AuditInv, RunInv, FreshInv, ComparedInv, AuditedMeansChecked,
         StopsForCause
  <1>2. AuditInv /\ [Next]_vars => AuditInv'
    BY TypePreserved, RunPreserved, FreshPreserved, ComparedPreserved, MarkingPreserved,
       CausePreserved DEF AuditInv
  <1> QED
    BY <1>1, <1>2, PTL DEF Spec

\* Every variable of the audit keeps its type.
THEOREM AuditTypes == Spec => []TypeOK
  <1>1. AuditInv => TypeOK
    BY DEF AuditInv
  <1> QED
    BY <1>1, AuditInvariance, PTL

\* A row is marked only for what this step saw, or said that it could not see.
THEOREM AuditedIsChecked == Spec => []AuditedMeansChecked
  <1>1. AuditInv => AuditedMeansChecked
    BY DEF AuditInv
  <1> QED
    BY <1>1, AuditInvariance, PTL

\* A run is stopped only for a claim that this step saw fail.
THEOREM AStopHasACause == Spec => []StopsForCause
  <1>1. AuditInv => StopsForCause
    BY DEF AuditInv
  <1> QED
    BY <1>1, AuditInvariance, PTL
================================================================================
