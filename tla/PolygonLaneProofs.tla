-------------------------- MODULE PolygonLaneProofs --------------------------
(***************************************************************************)
(* Proofs about PolygonLane, for every number of problems, retry cap and   *)
(* number of faults.                                                       *)
(***************************************************************************)
EXTENDS PolygonLane, TLAPS

\* The cursor's arithmetic, so that Problem need not be expanded elsewhere.
LEMMA CursorRange ==
  /\ 0 \in 0 .. N + 1 /\ 1 \in 0 .. N + 1
  /\ \A p \in Problem : p + 1 \in 0 .. N + 1 /\ p # 0 /\ p # N + 1
  BY NAssumption DEF Problem

\* The variables of a step keep their types.
LEMMA TypePreserved == TypeOK /\ [Next]_vars => TypeOK'
  <1> SUFFICES ASSUME TypeOK, [Next]_vars PROVE TypeOK'
    OBVIOUS
  <1> USE CursorRange DEF TypeOK, run, rows, history
  <1>1. CASE BeginPass
    BY <1>1 DEF BeginPass
  <1>2. CASE FinishPass
    BY <1>2 DEF FinishPass, NoneLeft, ReadyToUpload, Active, Shaped
  <1>3. CASE LoseAnswer
    BY <1>3, MaxFaultsAssumption DEF LoseAnswer, Fault, LoseUnsaved, FailRun, Registered, JobState
  <1>4. CASE ExtractRaises
    BY <1>4 DEF ExtractRaises, FailRun
  <1>5. ASSUME NEW p \in Problem, Skip(p) PROVE TypeOK'
    BY <1>5 DEF Skip, NextProblem, Active, Shaped, ProblemStage, ProblemStatus, JobState
  <1>6. ASSUME NEW p \in Problem, Submit(p) PROVE TypeOK'
    BY <1>6 DEF Submit, At, Active, Shaped, ProblemStage, ProblemStatus, JobState
  <1>7. ASSUME NEW p \in Problem, SaveJob(p) PROVE TypeOK'
    BY <1>7 DEF SaveJob, NextProblem, ProblemStage, ProblemStatus, JobState
  <1>8. ASSUME NEW p \in Problem, RejectSubmit(p) PROVE TypeOK'
    BY <1>8 DEF RejectSubmit, FailRun, At, ProblemStage, ProblemStatus, JobState
  <1>9. ASSUME NEW p \in Problem, Unreachable(p) PROVE TypeOK'
    BY <1>9 DEF Unreachable, FailRun, Polling, Downloading, At, ProblemStage, ProblemStatus, JobState
  <1>10. ASSUME NEW p \in Problem, PollWait(p) PROVE TypeOK'
    BY <1>10 DEF PollWait, Polling, At, NextProblem, ProblemStage, ProblemStatus, JobState
  <1>11. ASSUME NEW p \in Problem, PollAgain(p) PROVE TypeOK'
    BY <1>11 DEF PollAgain, Polling, At, ProblemStage, ProblemStatus, JobState
  <1>12. ASSUME NEW p \in Problem, ClearJob(p) PROVE TypeOK'
    BY <1>12 DEF ClearJob, NextProblem, ProblemStage, ProblemStatus, JobState
  <1>13. ASSUME NEW p \in Problem, PollHalt(p) PROVE TypeOK'
    BY <1>13 DEF PollHalt, Polling, At, Quarantine, NextProblem, ProblemStage, ProblemStatus, JobState
  <1>14. ASSUME NEW p \in Problem, PollError(p) PROVE TypeOK'
    BY <1>14 DEF PollError, Polling, At, Quarantine, NextProblem, ProblemStage, ProblemStatus, JobState
  <1>15. ASSUME NEW p \in Problem, PollWrongLimits(p) PROVE TypeOK'
    BY <1>15 DEF PollWrongLimits, Polling, At, Quarantine, NextProblem, ProblemStage, ProblemStatus, JobState
  <1>16. ASSUME NEW p \in Problem, PollImported(p) PROVE TypeOK'
    BY <1>16 DEF PollImported, Polling, At, AdvanceTo, NextProblem, ProblemStage, ProblemStatus, JobState
  <1>17. ASSUME NEW p \in Problem, PollReady(p) PROVE TypeOK'
    BY <1>17 DEF PollReady, Polling, At, AdvanceTo, NextProblem, ProblemStage, ProblemStatus, JobState
  <1>18. ASSUME NEW p \in Problem, DownloadNotYet(p) PROVE TypeOK'
    BY <1>18 DEF DownloadNotYet, Downloading, At, NextProblem, ProblemStage, ProblemStatus, JobState
  <1>19. ASSUME NEW p \in Problem, DownloadRefused(p) PROVE TypeOK'
    BY <1>19 DEF DownloadRefused, Downloading, At, Quarantine, NextProblem, ProblemStage, ProblemStatus, JobState
  <1>20. ASSUME NEW p \in Problem, DownloadExtract(p) PROVE TypeOK'
    BY <1>20 DEF DownloadExtract, Downloading, At, ProblemStage, ProblemStatus, JobState
  <1>21. ASSUME NEW p \in Problem, ExtractDone(p) PROVE TypeOK'
    BY <1>21 DEF ExtractDone, ProblemStage, ProblemStatus, JobState
  <1>22. ASSUME NEW p \in Problem, SaveShaped(p) PROVE TypeOK'
    BY <1>22 DEF SaveShaped, AdvanceTo, NextProblem, ProblemStage, ProblemStatus, JobState
  <1>23. ASSUME NEW p \in Problem, MiddlemanImports(p) PROVE TypeOK'
    BY <1>23 DEF MiddlemanImports, ProblemStage, ProblemStatus, JobState
  <1>24. ASSUME NEW p \in Problem, MiddlemanBuilds(p) PROVE TypeOK'
    BY <1>24 DEF MiddlemanBuilds, ProblemStage, ProblemStatus, JobState
  <1>25. ASSUME NEW p \in Problem, MiddlemanFails(p) PROVE TypeOK'
    BY <1>25 DEF MiddlemanFails, ProblemStage, ProblemStatus, JobState
  <1>26. CASE Resume
    BY <1>26, MaxFaultsAssumption DEF Resume, JobState
  <1>27. CASE Crash
    BY <1>27, MaxFaultsAssumption DEF Crash, Fault, LoseUnsaved, Registered, JobState
  <1>28. CASE MiddlemanRestart
    BY <1>28, MaxFaultsAssumption DEF MiddlemanRestart, Fault, Registered, JobState
  <1>29. CASE StepElsewhere \/ UNCHANGED vars
    BY <1>29 DEF StepElsewhere, vars
  <1> QED
    BY <1>1, <1>2, <1>3, <1>4, <1>5, <1>6, <1>7, <1>8, <1>9, <1>10, <1>11, <1>12, <1>13, <1>14, <1>15, <1>16, <1>17, <1>18, <1>19, <1>20, <1>21, <1>22, <1>23, <1>24, <1>25, <1>26, <1>27, <1>28, <1>29
       DEF Next, LaneStep, MiddlemanStep

\* What is held in memory goes on agreeing with the rows.  Only four steps leave
\* something in memory; a step that does not empties it or runs beside the lane.
LEMMA HeldPreserved ==
  LaneInv /\ TypeOK' /\ [Next]_vars => HeldInv'
  <1> SUFFICES ASSUME LaneInv, TypeOK', [Next]_vars PROVE HeldInv'
    OBVIOUS
  <1> USE CursorRange DEF LaneInv, TypeOK, HeldInv, Active, Shaped, Importing, run, rows, history
  <1>1. ASSUME held' = "none" PROVE HeldInv'
    BY <1>1
  <1>2. ASSUME NEW p \in Problem, Submit(p) PROVE HeldInv'
    BY <1>2 DEF Submit, At, RowInv, ProblemStage
  <1>3. ASSUME NEW p \in Problem, PollAgain(p) PROVE HeldInv'
    BY <1>3 DEF PollAgain, Polling, At, RowInv, ProblemStage
  <1>4. ASSUME NEW p \in Problem, DownloadExtract(p) PROVE HeldInv'
    BY <1>4 DEF DownloadExtract, Downloading, At
  <1>5. ASSUME NEW p \in Problem, ExtractDone(p) PROVE HeldInv'
    BY <1>5 DEF ExtractDone
  <1>6. ASSUME NEW p \in Problem, MiddlemanStep(p) PROVE HeldInv'
    BY <1>6 DEF MiddlemanStep, MiddlemanImports, MiddlemanBuilds, MiddlemanFails
  <1>7. CASE MiddlemanRestart
    BY <1>7 DEF MiddlemanRestart, Fault, Registered
  <1>8. CASE BeginPass \/ FinishPass \/ Resume
    BY <1>8 DEF BeginPass, FinishPass, Resume
  <1>9. CASE LoseAnswer \/ ExtractRaises \/ Crash
    BY <1>1, <1>9 DEF LoseAnswer, ExtractRaises, Crash, FailRun
  <1>10. ASSUME NEW p \in Problem,
                \/ Skip(p) \/ SaveJob(p) \/ PollWait(p) \/ ClearJob(p) \/ PollImported(p)
                \/ PollReady(p) \/ DownloadNotYet(p) \/ SaveShaped(p) \/ PollHalt(p)
                \/ PollError(p) \/ PollWrongLimits(p) \/ DownloadRefused(p)
         PROVE  HeldInv'
    BY <1>1, <1>10 DEF Skip, SaveJob, PollWait, ClearJob, PollImported, PollReady,
         DownloadNotYet, SaveShaped, PollHalt, PollError, PollWrongLimits,
         DownloadRefused, Quarantine, NextProblem
  <1>11. ASSUME NEW p \in Problem, RejectSubmit(p) \/ Unreachable(p) PROVE HeldInv'
    BY <1>1, <1>11 DEF RejectSubmit, Unreachable, FailRun
  <1>12. CASE StepElsewhere \/ UNCHANGED vars
    BY <1>12 DEF StepElsewhere, vars
  <1> QED
    BY <1>2, <1>3, <1>4, <1>5, <1>6, <1>7, <1>8, <1>9, <1>10, <1>11, <1>12
       DEF Next, LaneStep

\* Every row goes on agreeing with its folder and its job.
LEMMA RowPreserved ==
  LaneInv /\ TypeOK' /\ [Next]_vars => \A q \in Problem : RowInv(q)'
  <1> SUFFICES ASSUME LaneInv, TypeOK', [Next]_vars, NEW q \in Problem
               PROVE  RowInv(q)'
    OBVIOUS
  <1> USE CursorRange DEF LaneInv, TypeOK, HeldInv, RowInv, Active, Shaped, Importing, Registered, run, rows, history
  <1>1. CASE BeginPass
    BY <1>1 DEF BeginPass
  <1>2. CASE FinishPass
    BY <1>2 DEF FinishPass, NoneLeft, ReadyToUpload, Active, Shaped
  <1>3. CASE LoseAnswer
    BY <1>3 DEF LoseAnswer, Fault, LoseUnsaved, FailRun, Registered
  <1>4. CASE ExtractRaises
    BY <1>4 DEF ExtractRaises, FailRun
  <1>5. ASSUME NEW p \in Problem, Skip(p) PROVE RowInv(q)'
    BY <1>5 DEF Skip, NextProblem, Active, Shaped
  <1>6. ASSUME NEW p \in Problem, Submit(p) PROVE RowInv(q)'
    BY <1>6 DEF Submit, At, Active, Shaped
  <1>7. ASSUME NEW p \in Problem, SaveJob(p) PROVE RowInv(q)'
    BY <1>7 DEF SaveJob, NextProblem
  <1>8. ASSUME NEW p \in Problem, RejectSubmit(p) PROVE RowInv(q)'
    BY <1>8 DEF RejectSubmit, FailRun, At
  <1>9. ASSUME NEW p \in Problem, Unreachable(p) PROVE RowInv(q)'
    BY <1>9 DEF Unreachable, FailRun, Polling, Downloading, At
  <1>10. ASSUME NEW p \in Problem, PollWait(p) PROVE RowInv(q)'
    BY <1>10 DEF PollWait, Polling, At, NextProblem
  <1>11. ASSUME NEW p \in Problem, PollAgain(p) PROVE RowInv(q)'
    BY <1>11 DEF PollAgain, Polling, At
  <1>12. ASSUME NEW p \in Problem, ClearJob(p) PROVE RowInv(q)'
    BY <1>12 DEF ClearJob, NextProblem
  <1>13. ASSUME NEW p \in Problem, PollHalt(p) PROVE RowInv(q)'
    BY <1>13 DEF PollHalt, Polling, At, Quarantine, NextProblem
  <1>14. ASSUME NEW p \in Problem, PollError(p) PROVE RowInv(q)'
    BY <1>14 DEF PollError, Polling, At, Quarantine, NextProblem
  <1>15. ASSUME NEW p \in Problem, PollWrongLimits(p) PROVE RowInv(q)'
    BY <1>15 DEF PollWrongLimits, Polling, At, Quarantine, NextProblem
  <1>16. ASSUME NEW p \in Problem, PollImported(p) PROVE RowInv(q)'
    BY <1>16 DEF PollImported, Polling, At, AdvanceTo, NextProblem
  <1>17. ASSUME NEW p \in Problem, PollReady(p) PROVE RowInv(q)'
    BY <1>17 DEF PollReady, Objected, Polling, At, AdvanceTo, NextProblem
  <1>18. ASSUME NEW p \in Problem, DownloadNotYet(p) PROVE RowInv(q)'
    BY <1>18 DEF DownloadNotYet, Downloading, At, NextProblem
  <1>19. ASSUME NEW p \in Problem, DownloadRefused(p) PROVE RowInv(q)'
    BY <1>19 DEF DownloadRefused, Downloading, At, Quarantine, NextProblem
  <1>20. ASSUME NEW p \in Problem, DownloadExtract(p) PROVE RowInv(q)'
    BY <1>20 DEF DownloadExtract, Downloading, At
  <1>21. ASSUME NEW p \in Problem, ExtractDone(p) PROVE RowInv(q)'
    BY <1>21 DEF ExtractDone
  <1>22. ASSUME NEW p \in Problem, SaveShaped(p) PROVE RowInv(q)'
    BY <1>22 DEF SaveShaped, AdvanceTo, NextProblem
  <1>23. ASSUME NEW p \in Problem, MiddlemanImports(p) PROVE RowInv(q)'
    BY <1>23 DEF MiddlemanImports
  <1>24. ASSUME NEW p \in Problem, MiddlemanBuilds(p) PROVE RowInv(q)'
    BY <1>24 DEF MiddlemanBuilds
  <1>25. ASSUME NEW p \in Problem, MiddlemanFails(p) PROVE RowInv(q)'
    BY <1>25 DEF MiddlemanFails
  <1>26. CASE Resume
    BY <1>26 DEF Resume
  <1>27. CASE Crash
    BY <1>27 DEF Crash, Fault, LoseUnsaved, Registered
  <1>28. CASE MiddlemanRestart
    BY <1>28 DEF MiddlemanRestart, Fault, Registered
  <1>29. CASE StepElsewhere \/ UNCHANGED vars
    BY <1>29 DEF StepElsewhere, vars
  <1> QED
    BY <1>1, <1>2, <1>3, <1>4, <1>5, <1>6, <1>7, <1>8, <1>9, <1>10, <1>11, <1>12, <1>13, <1>14, <1>15, <1>16, <1>17, <1>18, <1>19, <1>20, <1>21, <1>22, <1>23, <1>24, <1>25, <1>26, <1>27, <1>28, <1>29
       DEF Next, LaneStep, MiddlemanStep

\* The run row changes only between passes, or when a pass is cut short.
LEMMA RunPreserved ==
  LaneInv /\ TypeOK' /\ [Next]_vars => RunInv'
  <1> SUFFICES ASSUME LaneInv, TypeOK', [Next]_vars PROVE RunInv'
    OBVIOUS
  <1> USE CursorRange DEF LaneInv, TypeOK, RunInv, run, rows, history
  <1>1. ASSUME cursor # 0, UNCHANGED run PROVE RunInv'
    BY <1>1
  <1>2. ASSUME cursor # 0, FailRun PROVE RunInv'
    BY <1>2 DEF FailRun
  <1>3. ASSUME UNCHANGED <<run, rows, cursor>> PROVE RunInv'
    BY <1>3 DEF Active, Shaped
  <1>4. CASE BeginPass
    BY <1>4 DEF BeginPass
  <1>5. CASE FinishPass
    BY <1>5 DEF FinishPass, NoneLeft, ReadyToUpload, Active, Shaped
  <1>6. CASE Resume
    BY <1>6 DEF Resume
  <1>7. CASE LoseAnswer \/ ExtractRaises
    BY <1>2, <1>7 DEF LoseAnswer, ExtractRaises
  <1>8. CASE Crash
    BY <1>1, <1>8 DEF Crash
  <1>9. ASSUME NEW p \in Problem, RejectSubmit(p) \/ Unreachable(p) PROVE RunInv'
    BY <1>2, <1>9 DEF RejectSubmit, Unreachable, Polling, Downloading, At
  <1>10. ASSUME NEW p \in Problem,
                \/ Skip(p) \/ Submit(p) \/ SaveJob(p) \/ PollWait(p) \/ PollAgain(p)
                \/ ClearJob(p) \/ PollHalt(p) \/ PollError(p) \/ PollWrongLimits(p)
                \/ PollImported(p) \/ PollReady(p)
         PROVE  RunInv'
    BY <1>1, <1>10 DEF Skip, Submit, SaveJob, PollWait, PollAgain, ClearJob, PollHalt,
         PollError, PollWrongLimits, PollImported, PollReady, Polling, At, Quarantine
  <1>11. ASSUME NEW p \in Problem,
                \/ DownloadNotYet(p) \/ DownloadRefused(p) \/ DownloadExtract(p)
                \/ ExtractDone(p) \/ SaveShaped(p)
         PROVE  RunInv'
    BY <1>1, <1>11 DEF DownloadNotYet, DownloadRefused, DownloadExtract, ExtractDone,
         SaveShaped, Downloading, At, Quarantine
  <1>12. ASSUME NEW p \in Problem, MiddlemanStep(p) PROVE RunInv'
    BY <1>3, <1>12 DEF MiddlemanStep, MiddlemanImports, MiddlemanBuilds, MiddlemanFails
  <1>13. CASE MiddlemanRestart \/ StepElsewhere \/ UNCHANGED vars
    BY <1>3, <1>13 DEF MiddlemanRestart, StepElsewhere, vars
  <1> QED
    BY <1>4, <1>5, <1>6, <1>7, <1>8, <1>9, <1>10, <1>11, <1>12, <1>13
       DEF Next, LaneStep

\* Every import stays paid for.
LEMMA BudgetPreserved ==
  LaneInv /\ TypeOK' /\ [Next]_vars => \A q \in Problem : BudgetInv(q)'
  <1> SUFFICES ASSUME LaneInv, TypeOK', [Next]_vars, NEW q \in Problem
               PROVE  BudgetInv(q)'
    OBVIOUS
  <1> USE CursorRange, RetryCapAssumption DEF LaneInv, TypeOK, HeldInv, RowInv, BudgetInv, Active, Shaped, Importing, Registered, InFlight, Spent, ProblemStage, run, rows, history
  <1>1. CASE BeginPass
    BY <1>1 DEF BeginPass
  <1>2. CASE FinishPass
    BY <1>2 DEF FinishPass, NoneLeft, ReadyToUpload, Active, Shaped
  <1>3. CASE LoseAnswer
    BY <1>3 DEF LoseAnswer, Fault, LoseUnsaved, FailRun, Registered
  <1>4. CASE ExtractRaises
    BY <1>4 DEF ExtractRaises, FailRun
  <1>5. ASSUME NEW p \in Problem, Skip(p) PROVE BudgetInv(q)'
    BY <1>5 DEF Skip, NextProblem, Active, Shaped
  <1>6. ASSUME NEW p \in Problem, Submit(p) PROVE BudgetInv(q)'
    BY <1>6 DEF Submit, At, Active, Shaped
  <1>7. ASSUME NEW p \in Problem, SaveJob(p) PROVE BudgetInv(q)'
    BY <1>7 DEF SaveJob, NextProblem
  <1>8. ASSUME NEW p \in Problem, RejectSubmit(p) PROVE BudgetInv(q)'
    BY <1>8 DEF RejectSubmit, FailRun, At
  <1>9. ASSUME NEW p \in Problem, Unreachable(p) PROVE BudgetInv(q)'
    BY <1>9 DEF Unreachable, FailRun, Polling, Downloading, At
  <1>10. ASSUME NEW p \in Problem, PollWait(p) PROVE BudgetInv(q)'
    BY <1>10 DEF PollWait, Polling, At, NextProblem
  <1>11. ASSUME NEW p \in Problem, PollAgain(p) PROVE BudgetInv(q)'
    BY <1>11 DEF PollAgain, Polling, At
  <1>12. ASSUME NEW p \in Problem, ClearJob(p) PROVE BudgetInv(q)'
    BY <1>12 DEF ClearJob, NextProblem
  <1>13. ASSUME NEW p \in Problem, PollHalt(p) PROVE BudgetInv(q)'
    BY <1>13 DEF PollHalt, Polling, At, Quarantine, NextProblem
  <1>14. ASSUME NEW p \in Problem, PollError(p) PROVE BudgetInv(q)'
    BY <1>14 DEF PollError, Polling, At, Quarantine, NextProblem
  <1>15. ASSUME NEW p \in Problem, PollWrongLimits(p) PROVE BudgetInv(q)'
    BY <1>15 DEF PollWrongLimits, Polling, At, Quarantine, NextProblem
  <1>16. ASSUME NEW p \in Problem, PollImported(p) PROVE BudgetInv(q)'
    BY <1>16 DEF PollImported, Polling, At, AdvanceTo, NextProblem
  <1>17. ASSUME NEW p \in Problem, PollReady(p) PROVE BudgetInv(q)'
    BY <1>17 DEF PollReady, Objected, Polling, At, AdvanceTo, NextProblem
  <1>18. ASSUME NEW p \in Problem, DownloadNotYet(p) PROVE BudgetInv(q)'
    BY <1>18 DEF DownloadNotYet, Downloading, At, NextProblem
  <1>19. ASSUME NEW p \in Problem, DownloadRefused(p) PROVE BudgetInv(q)'
    BY <1>19 DEF DownloadRefused, Downloading, At, Quarantine, NextProblem
  <1>20. ASSUME NEW p \in Problem, DownloadExtract(p) PROVE BudgetInv(q)'
    BY <1>20 DEF DownloadExtract, Downloading, At
  <1>21. ASSUME NEW p \in Problem, ExtractDone(p) PROVE BudgetInv(q)'
    BY <1>21 DEF ExtractDone
  <1>22. ASSUME NEW p \in Problem, SaveShaped(p) PROVE BudgetInv(q)'
    BY <1>22 DEF SaveShaped, AdvanceTo, NextProblem
  <1>23. ASSUME NEW p \in Problem, MiddlemanImports(p) PROVE BudgetInv(q)'
    BY <1>23 DEF MiddlemanImports
  <1>24. ASSUME NEW p \in Problem, MiddlemanBuilds(p) PROVE BudgetInv(q)'
    BY <1>24 DEF MiddlemanBuilds
  <1>25. ASSUME NEW p \in Problem, MiddlemanFails(p) PROVE BudgetInv(q)'
    BY <1>25 DEF MiddlemanFails
  <1>26. CASE Resume
    BY <1>26 DEF Resume
  <1>27. CASE Crash
    BY <1>27 DEF Crash, Fault, LoseUnsaved, Registered
  <1>28. CASE MiddlemanRestart
    BY <1>28 DEF MiddlemanRestart, Fault, Registered
  <1>29. CASE StepElsewhere \/ UNCHANGED vars
    BY <1>29 DEF StepElsewhere, vars
  <1> QED
    BY <1>1, <1>2, <1>3, <1>4, <1>5, <1>6, <1>7, <1>8, <1>9, <1>10, <1>11, <1>12, <1>13, <1>14, <1>15, <1>16, <1>17, <1>18, <1>19, <1>20, <1>21, <1>22, <1>23, <1>24, <1>25, <1>26, <1>27, <1>28, <1>29
       DEF Next, LaneStep, MiddlemanStep

\* The initial state satisfies the invariant.
LEMMA InitEstablishes == Init => LaneInv
  <1> SUFFICES ASSUME Init PROVE LaneInv
    OBVIOUS
  <1> USE NAssumption, RetryCapAssumption, MaxFaultsAssumption DEF Init
  <1>1. TypeOK
    BY DEF TypeOK, ProblemStage, ProblemStatus, JobState, Problem
  <1>2. HeldInv
    BY DEF HeldInv
  <1>3. \A p \in Problem : RowInv(p)
    BY DEF RowInv, Registered
  <1>4. RunInv
    BY DEF RunInv
  <1>5. \A p \in Problem : BudgetInv(p)
    BY DEF BudgetInv, InFlight, Spent, Registered
  <1> QED
    BY <1>1, <1>2, <1>3, <1>4, <1>5 DEF LaneInv

\* The invariant is inductive.
LEMMA LaneInvPreserved == LaneInv /\ [Next]_vars => LaneInv'
  <1>1. LaneInv /\ [Next]_vars => TypeOK'
    BY TypePreserved DEF LaneInv
  <1> QED
    BY <1>1, HeldPreserved, RowPreserved, RunPreserved, BudgetPreserved DEF LaneInv

\* Every reachable state of the Polygon lane satisfies the inductive invariant:
\* the types, memory and rows agree, and every import is paid for.
THEOREM LaneInvariance == Spec => []LaneInv
  <1>1. Init => LaneInv
    BY InitEstablishes
  <1>2. LaneInv /\ [Next]_vars => LaneInv'
    BY LaneInvPreserved
  <1> QED
    BY <1>1, <1>2, PTL DEF Spec

\* The variables of the lane keep their types (polygon_lane.py, the rows of
\* store.py) for every number of problems, retry cap and number of faults.
THEOREM TypeCorrect == Spec => []TypeOK
  BY LaneInvariance, PTL DEF LaneInv

\* A run handed to UPLOAD has a survivor, and every survivor is shaped and has a
\* complete package on disk, whatever crashes and restarts came before.
THEOREM HandoverIsComplete == Spec => []HandoverComplete
  <1>1. LaneInv => HandoverComplete
    BY DEF LaneInv, RunInv, RowInv, HandoverComplete, Shaped
  <1> QED
    BY <1>1, LaneInvariance, PTL

\* A package whose import owned up to other limits than the authored ones is never
\* recorded as built or shaped unless the log warns that they could not be read.
THEOREM LimitsAreThoseSent == Spec => []ReportedLimitsAreSent
  <1>1. LaneInv => ReportedLimitsAreSent
    BY DEF LaneInv, RowInv, ReportedLimitsAreSent
  <1> QED
    BY <1>1, LaneInvariance, PTL

\* A problem is imported at most 2 * RetryCap + 1 times, plus once for every job
\* that a crash or a Middleman restart lost.
THEOREM RetriesAreBounded == Spec => []RetryBudget
  <1>1. LaneInv => RetryBudget
    <2> SUFFICES ASSUME LaneInv, NEW p \in Problem
                 PROVE  submits[p] <= 2 * RetryCap + 1 + lost[p]
      BY DEF RetryBudget
    <2>1. submits[p] <= Spent(p) + RetryCap + 1 + lost[p]
      BY DEF LaneInv, BudgetInv
    <2>2. Spent(p) \in 0 .. RetryCap /\ submits[p] \in Nat /\ lost[p] \in Nat
      BY RetryCapAssumption DEF LaneInv, TypeOK, Spent
    <2> QED
      BY <2>1, <2>2, RetryCapAssumption
  <1> QED
    BY <1>1, LaneInvariance, PTL

\* A step changes the decision about a problem only from open, and only while the
\* run is live: the step a problem's row takes, seen as a triage.
LEMMA FateStep ==
  ASSUME LaneInv, [Next]_vars, NEW q \in Problem
  PROVE  \/ Fate(q)' = Fate(q)
         \/ /\ Fate(q) = "open" /\ Fate(q)' \in {"kept", "dropped"}
            /\ cursor = q /\ UNCHANGED run
            /\ \A p \in Problem \ {q} : Fate(p)' = Fate(p)
  <1> USE CursorRange DEF LaneInv, TypeOK, HeldInv, Fate, Active, Shaped, run, rows, history
  <1> DEFINE Goal ==
        \/ Fate(q)' = Fate(q)
        \/ /\ Fate(q) = "open" /\ Fate(q)' \in {"kept", "dropped"}
           /\ cursor = q /\ UNCHANGED run
           /\ \A p \in Problem \ {q} : Fate(p)' = Fate(p)
  <1>1. ASSUME UNCHANGED <<stage, status>> PROVE Goal
    BY <1>1
  <1>2. CASE BeginPass \/ FinishPass \/ LoseAnswer \/ ExtractRaises \/ Resume \/ Crash
    BY <1>1, <1>2 DEF BeginPass, FinishPass, LoseAnswer, ExtractRaises, Resume, Crash
  <1>3. CASE MiddlemanRestart \/ StepElsewhere \/ UNCHANGED vars
    BY <1>1, <1>3 DEF MiddlemanRestart, StepElsewhere, vars
  <1>4. ASSUME NEW p \in Problem,
               \/ Skip(p) \/ Submit(p) \/ RejectSubmit(p) \/ Unreachable(p) \/ PollWait(p)
               \/ PollAgain(p) \/ ClearJob(p) \/ DownloadNotYet(p) \/ DownloadExtract(p)
               \/ ExtractDone(p) \/ MiddlemanStep(p)
        PROVE  Goal
    BY <1>1, <1>4 DEF Skip, Submit, RejectSubmit, Unreachable, PollWait, PollAgain,
         ClearJob, DownloadNotYet, DownloadExtract, ExtractDone, MiddlemanStep,
         MiddlemanImports, MiddlemanBuilds, MiddlemanFails
  <1>5. ASSUME NEW p \in Problem, SaveJob(p) PROVE Goal
    BY <1>5 DEF SaveJob
  <1>6. ASSUME NEW p \in Problem,
               PollHalt(p) \/ PollError(p) \/ PollWrongLimits(p) \/ DownloadRefused(p)
        PROVE  Goal
    BY <1>6 DEF PollHalt, PollError, PollWrongLimits, DownloadRefused, Polling,
         Downloading, At, Quarantine
  <1>7. ASSUME NEW p \in Problem, PollImported(p) \/ PollReady(p) PROVE Goal
    BY <1>7 DEF PollImported, PollReady, Polling, At, AdvanceTo
  <1>8. ASSUME NEW p \in Problem, SaveShaped(p) PROVE Goal
    BY <1>8 DEF SaveShaped, AdvanceTo
  <1> QED
    BY <1>2, <1>3, <1>4, <1>5, <1>6, <1>7, <1>8 DEF Next, LaneStep

\* The run row seen as the triage's phase: it stays, or it takes one of the three
\* steps of the triage that decide nothing.
LEMMA PhaseStep ==
  ASSUME LaneInv, [Next]_vars
  PROVE  \/ UNCHANGED run
         \/ UNCHANGED rows /\ runStatus = "running" /\ runStage = "polygon"
              /\ runStatus' = "failed" /\ runStage' = "polygon"
         \/ UNCHANGED rows /\ runStatus = "failed" /\ runStage = "polygon"
              /\ runStatus' = "running" /\ runStage' = "polygon"
         \/ UNCHANGED rows /\ runStatus = "running" /\ runStage = "polygon"
              /\ runStatus' = "running" /\ runStage' = "upload"
              /\ (\E p \in Problem : Active(p))
              /\ \A p \in Problem : Active(p) => Shaped(p)
  <1> USE CursorRange DEF LaneInv, TypeOK, RunInv, rows, run
  <1>1. CASE BeginPass \/ Crash \/ MiddlemanRestart \/ StepElsewhere \/ UNCHANGED vars
    BY <1>1 DEF BeginPass, Crash, MiddlemanRestart, StepElsewhere, vars
  <1>2. CASE FinishPass
    BY <1>2 DEF FinishPass, NoneLeft, ReadyToUpload
  <1>3. CASE LoseAnswer \/ ExtractRaises
    BY <1>3 DEF LoseAnswer, ExtractRaises, FailRun
  <1>4. CASE Resume
    BY <1>4 DEF Resume
  <1>5. ASSUME NEW p \in Problem, RejectSubmit(p) \/ Unreachable(p)
        PROVE  UNCHANGED rows /\ runStatus = "running" /\ runStage = "polygon"
                 /\ runStatus' = "failed" /\ runStage' = "polygon"
    BY <1>5 DEF RejectSubmit, Unreachable, Polling, Downloading, At, FailRun
  <1>6. ASSUME NEW p \in Problem,
               \/ Skip(p) \/ Submit(p) \/ SaveJob(p) \/ PollWait(p) \/ PollAgain(p)
               \/ ClearJob(p) \/ PollHalt(p) \/ PollError(p) \/ PollWrongLimits(p)
               \/ PollImported(p) \/ PollReady(p) \/ DownloadNotYet(p)
               \/ DownloadRefused(p) \/ DownloadExtract(p) \/ ExtractDone(p)
               \/ SaveShaped(p) \/ MiddlemanStep(p)
        PROVE  UNCHANGED run
    BY <1>6 DEF Skip, Submit, SaveJob, PollWait, PollAgain, ClearJob, PollHalt, PollError,
         PollWrongLimits, PollImported, PollReady, DownloadNotYet, DownloadRefused,
         DownloadExtract, ExtractDone, SaveShaped, Quarantine, MiddlemanStep,
         MiddlemanImports, MiddlemanBuilds, MiddlemanFails
  <1> QED
    BY <1>1, <1>2, <1>3, <1>4, <1>5, <1>6 DEF Next, LaneStep

\* The lane implements the triage: every step decides one open problem, stops,
\* resumes or hands over the batch, or changes nothing the upload half can see.
THEOREM LaneImplementsTriage == Spec => ImplementsTriage
  <1> DEFINE fates == [p \in Problem |-> Fate(p)]
  <1>1. Init => Abstract!Init
    BY NAssumption
       DEF Init, Abstract!Init, Fate, Phase, Active, Shaped
  <1>2. LaneInv /\ [Next]_vars => [Abstract!Next]_<<fates, Phase>>
    <2> SUFFICES ASSUME LaneInv, [Next]_vars
                 PROVE  Abstract!Next \/ UNCHANGED <<fates, Phase>>
      OBVIOUS
    <2>1. CASE \E q \in Problem : Fate(q)' # Fate(q)
      <3> PICK q \in Problem : Fate(q)' # Fate(q)
        BY <2>1
      <3>1. /\ Fate(q) = "open" /\ Fate(q)' \in {"kept", "dropped"}
            /\ cursor = q /\ UNCHANGED run
            /\ \A p \in Problem \ {q} : Fate(p)' = Fate(p)
        BY FateStep
      <3>2. Phase = "working" /\ Phase' = Phase
        BY <3>1, CursorRange DEF LaneInv, TypeOK, RunInv, Phase, run
      <3>3. fates' = [fates EXCEPT ![q] = Fate(q)']
        BY <3>1
      <3>4. Abstract!Decide(q)
        BY <3>1, <3>2, <3>3 DEF Abstract!Decide
      <3> QED
        BY <3>4 DEF Abstract!Next
    <2>2. CASE \A q \in Problem : Fate(q)' = Fate(q)
      <3>1. fates' = fates
        BY <2>2
      <3>2. CASE UNCHANGED run
        BY <3>1, <3>2 DEF run, Phase
      <3>3. CASE /\ runStatus = "running" /\ runStage = "polygon"
                 /\ runStatus' = "failed" /\ runStage' = "polygon"
        BY <3>1, <3>3 DEF Phase, Abstract!Next, Abstract!Stop
      <3>4. CASE /\ runStatus = "failed" /\ runStage = "polygon"
                 /\ runStatus' = "running" /\ runStage' = "polygon"
        BY <3>1, <3>4 DEF Phase, Abstract!Next, Abstract!Restart
      <3>5. CASE /\ runStatus = "running" /\ runStage = "polygon"
                 /\ runStatus' = "running" /\ runStage' = "upload"
                 /\ \E p \in Problem : Active(p)
                 /\ \A p \in Problem : Active(p) => Shaped(p)
        <4>1. /\ \A p \in Problem : fates[p] # "open"
              /\ \E p \in Problem : fates[p] = "kept"
          BY <3>5 DEF Fate
        <4>2. Phase = "working" /\ Phase' = "handed"
          BY <3>5 DEF Phase
        <4>3. Abstract!HandOver
          BY <3>1, <4>1, <4>2 DEF Abstract!HandOver
        <4> QED
          BY <4>3 DEF Abstract!Next
      <3> QED
        BY <3>2, <3>3, <3>4, <3>5, PhaseStep
    <2> QED
      BY <2>1, <2>2
  <1> QED
    BY <1>1, <1>2, LaneInvariance, PTL DEF Spec, ImplementsTriage, Abstract!Spec

\* No decision is taken back: quarantined and shaped problems stay so.
THEOREM NoDecisionIsTakenBack == Spec => DecisionsAreFinal
  <1>1. LaneInv /\ [Next]_vars =>
          [\A p \in Problem : /\ ~Active(p) => ~Active(p)'
                              /\ Shaped(p) => Shaped(p)']_vars
    <2> SUFFICES ASSUME LaneInv, [Next]_vars, NEW p \in Problem
                 PROVE  (~Active(p) => ~Active(p)') /\ (Shaped(p) => Shaped(p)')
      OBVIOUS
    <2> QED
      BY FateStep DEF Fate, Active, Shaped
  <1> QED
    BY <1>1, LaneInvariance, PTL DEF Spec, DecisionsAreFinal

\* Nothing is submitted, recorded or extracted for a run that is stopped.
THEOREM AStoppedRunRests == Spec => StoppedRunRests
  <1>1. LaneInv /\ [Next]_vars =>
          [runStatus = "failed" => UNCHANGED <<rows, folder, submits, runStage>>]_vars
    <2> SUFFICES ASSUME LaneInv, Next, runStatus = "failed"
                 PROVE  UNCHANGED <<rows, folder, submits, runStage>>
      BY DEF vars, rows, run, history
    <2>1. cursor = 0 /\ held = "none" /\ \A p \in Problem : p # cursor
      BY CursorRange DEF LaneInv, RunInv, TypeOK
    <2>2. ~LaneStep
      <3>1. ~(BeginPass \/ FinishPass \/ LoseAnswer \/ ExtractRaises)
        BY <2>1, NAssumption DEF BeginPass, FinishPass, LoseAnswer, ExtractRaises
      <3>2. ASSUME NEW p \in Problem
            PROVE  /\ ~At(p) /\ ~Polling(p) /\ ~Downloading(p)
                   /\ ~(Skip(p) \/ SaveJob(p) \/ ClearJob(p) \/ ExtractDone(p) \/ SaveShaped(p))
        BY <2>1 DEF Skip, SaveJob, ClearJob, ExtractDone, SaveShaped, Polling, Downloading, At
      <3>3. ASSUME NEW p \in Problem
            PROVE  ~(\/ Submit(p) \/ RejectSubmit(p) \/ Unreachable(p) \/ PollWait(p)
                     \/ PollAgain(p) \/ PollHalt(p) \/ PollError(p) \/ PollWrongLimits(p)
                     \/ PollImported(p) \/ PollReady(p) \/ DownloadNotYet(p)
                     \/ DownloadRefused(p) \/ DownloadExtract(p))
        BY <3>2 DEF Submit, RejectSubmit, Unreachable, PollWait, PollAgain, PollHalt,
           PollError, PollWrongLimits, PollImported, PollReady, DownloadNotYet,
           DownloadRefused, DownloadExtract
      <3> QED
        BY <3>1, <3>2, <3>3 DEF LaneStep
    <2>3. CASE Resume \/ Crash \/ MiddlemanRestart \/ StepElsewhere
      BY <2>3 DEF Resume, Crash, MiddlemanRestart, StepElsewhere, vars, run, rows, history
    <2>4. ASSUME NEW p \in Problem, MiddlemanStep(p)
          PROVE  UNCHANGED <<rows, folder, submits, runStage>>
      BY <2>4 DEF MiddlemanStep, MiddlemanImports, MiddlemanBuilds, MiddlemanFails,
         run, rows, history
    <2> QED
      BY <2>2, <2>3, <2>4 DEF Next
  <1> QED
    BY <1>1, LaneInvariance, PTL DEF Spec, StoppedRunRests
=============================================================================
