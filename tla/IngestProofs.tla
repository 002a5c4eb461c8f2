----------------------------- MODULE IngestProofs -----------------------------
(***************************************************************************)
(* Proofs about Ingest, for every number of folders, grace period and      *)
(* number of faults and changes by people.                                 *)
(***************************************************************************)
EXTENDS Ingest, TLAPS

\* A folder found ready is still so when its run is created: between the two steps
\* files only become whole and flaws are only mended.
ReadyInv == pc = "create" => short[at] = {} /\ flaw[at] \in {"none", "import"}

\* A set that has a row has the folder it was registered from.
DirInv == \A s \in Folder : run[s] # "none" => dir[s] # 0

SweepInv == TypeOK /\ ReadyInv /\ DirInv /\ RegisteredIsSound

\* The arithmetic of the sweep, so that Folder need not be expanded elsewhere.
LEMMA FolderRange ==
  /\ 1 \in Folder /\ 0 \notin Folder
  /\ \A f \in Folder : f < Folders => f + 1 \in Folder
  BY FoldersAssumption DEF Folder

\* A verdict is one of the four or none, and "ready" only of a folder that is whole.
LEMMA VerdictIsSound ==
  ASSUME TypeOK, NEW f \in Folder, NEW reached \in BOOLEAN
  PROVE  /\ VerdictOn(f, reached) \in Verdict \cup {"raises"}
         /\ VerdictOn(f, reached) = "ready" => short[f] = {} /\ flaw[f] \in {"none", "import"}
  <1>1. /\ VerdictOnFiles(f, reached) \in Verdict \cup {"raises"}
        /\ VerdictOnFiles(f, reached) = "ready" =>
             ~Refused(f) /\ ~Unfinished(f) /\ flaw[f] # "nameless"
    BY DEF VerdictOnFiles, Verdict
  <1>2. ~Refused(f) /\ ~Unfinished(f) => short[f] = {} /\ flaw[f] \notin {"wrong", "stuck"}
    BY DEF Refused, Unfinished
  <1>3. flaw[f] \in Flaw
    BY DEF TypeOK
  <1> QED
    BY <1>1, <1>2, <1>3 DEF VerdictOn, Verdict, Flaw

-----------------------------------------------------------------------------
(***************************************************************************)
(* The preservation of each part.                                          *)
(***************************************************************************)

\* The variables of a step keep their types.
LEMMA TypePreserved == TypeOK /\ [Next]_vars => TypeOK'
  <1> SUFFICES ASSUME TypeOK, [Next]_vars PROVE TypeOK'
    OBVIOUS
  <1> USE FolderRange, FeedbackAfterAssumption, MaxEventsAssumption
      DEF TypeOK, folders, table, sweep, Verdict, Flaw, Event, EndSweep, Unknown
  <1>1. CASE Inspect
    <2>1. PICK reached \in BOOLEAN :
            /\ VerdictOn(at, reached) # "raises"
            /\ IF VerdictOn(at, reached) = "ready"
               THEN pc' = "create" /\ UNCHANGED <<at, result>>
               ELSE Finding(at, VerdictOn(at, reached))
      BY <1>1 DEF Inspect
    <2>2. VerdictOn(at, reached) \in Verdict
      BY <2>1, VerdictIsSound
    <2> QED
      BY <1>1, <2>1, <2>2 DEF Inspect, Finding
  <1>2. CASE CreateRun
    BY <1>2 DEF CreateRun
  <1>3. CASE StartRun
    BY <1>3 DEF StartRun, Finding
  <1>4. ASSUME Counted PROVE incomplete' \in [Folder -> 0 .. FeedbackAfter]
    BY <1>4 DEF Counted, Longer
  <1>5. ASSUME NextFeedback
        PROVE  /\ result' \in [Folder -> Verdict \cup {"none"}]
               /\ at' \in Folder /\ pc' \in {"scan", "create", "start", "feedback"}
    BY <1>5 DEF NextFeedback
  <1>6. CASE Wait
    BY <1>4, <1>5, <1>6 DEF Wait
  <1>7. CASE Write
    BY <1>4, <1>5, <1>7 DEF Write, Worth
  <1>8. CASE Withdraw
    BY <1>4, <1>5, <1>8 DEF Withdraw
  <1>9. CASE WriteFails
    BY <1>4, <1>5, <1>9 DEF WriteFails
  <1>10. CASE WithdrawFails
    BY <1>4, <1>10 DEF WithdrawFails
  <1>11. CASE SweepFails \/ Crash \/ StartRaises \/ IntakeRaises
    BY <1>11 DEF SweepFails, Crash, StartRaises, IntakeRaises
  <1>12. ASSUME NEW f \in Folder, Begin(f) PROVE TypeOK'
    BY <1>12 DEF Begin
  <1>13. ASSUME NEW f \in Folder, NEW file \in File, Copy(f, file) PROVE TypeOK'
    BY <1>13 DEF Copy
  <1>14. ASSUME NEW f \in Folder, Mend(f) PROVE TypeOK'
    BY <1>14 DEF Mend
  <1>15. ASSUME NEW f \in Folder, Forget(f) PROVE TypeOK'
    BY <1>15 DEF Forget
  <1>16. CASE UNCHANGED vars
    BY <1>16 DEF vars
  <1> QED
    BY <1>1, <1>2, <1>3, <1>6, <1>7, <1>8, <1>9, <1>10, <1>11, <1>12, <1>13, <1>14, <1>15,
       <1>16 DEF Next, Step, Delivery

\* Nothing becomes worse between the verdict and the row.
LEMMA ReadyPreserved == TypeOK /\ ReadyInv /\ [Next]_vars => ReadyInv'
  <1> SUFFICES ASSUME TypeOK, ReadyInv, [Next]_vars PROVE ReadyInv'
    OBVIOUS
  <1> USE DEF TypeOK, ReadyInv, folders, table, sweep
  <1>1. CASE Inspect
    <2>1. PICK reached \in BOOLEAN :
            /\ VerdictOn(at, reached) # "raises"
            /\ IF VerdictOn(at, reached) = "ready"
               THEN pc' = "create" /\ UNCHANGED <<at, result>>
               ELSE Finding(at, VerdictOn(at, reached))
      BY <1>1 DEF Inspect
    <2> QED
      BY <1>1, <2>1, VerdictIsSound DEF Inspect, Finding
  <1>2. ASSUME NEW f \in Folder, Delivery(f) \/ Mend(f) \/ Forget(f) PROVE ReadyInv'
    BY <1>2 DEF Delivery, Begin, Copy, Mend, Forget
  <1>3. CASE CreateRun \/ StartRun
    BY <1>3 DEF CreateRun, StartRun, Finding
  <1>4. CASE Wait \/ Write \/ Withdraw \/ WriteFails
    BY <1>4 DEF Wait, Write, Withdraw, WriteFails, NextFeedback
  <1>5. CASE SweepFails \/ WithdrawFails \/ Crash \/ StartRaises \/ IntakeRaises
    BY <1>5 DEF SweepFails, WithdrawFails, Crash, StartRaises, IntakeRaises, EndSweep
  <1>6. CASE UNCHANGED vars
    BY <1>6 DEF vars
  <1> QED
    BY <1>1, <1>2, <1>3, <1>4, <1>5, <1>6 DEF Next, Step

\* Rows are made of folders that are whole, and whole folders stay so.
LEMMA RegisteredPreserved ==
  SweepInv /\ [Next]_vars => DirInv' /\ RegisteredIsSound'
  <1> SUFFICES ASSUME SweepInv, [Next]_vars PROVE DirInv' /\ RegisteredIsSound'
    OBVIOUS
  <1> USE FolderRange
      DEF SweepInv, TypeOK, DirInv, RegisteredIsSound, folders, table, sweep
  <1>1. CASE UNCHANGED <<folders, table>>
    BY <1>1
  <1>2. CASE CreateRun
    BY <1>2 DEF CreateRun, ReadyInv
  <1>3. CASE StartRun
    BY <1>3 DEF StartRun, Known
  <1>4. ASSUME NEW f \in Folder, NEW file \in File, Copy(f, file)
        PROVE  DirInv' /\ RegisteredIsSound'
    BY <1>4 DEF Copy
  <1>5. ASSUME NEW f \in Folder, Begin(f) \/ Mend(f) PROVE DirInv' /\ RegisteredIsSound'
    BY <1>5 DEF Begin, Mend
  <1>6. ASSUME NEW f \in Folder, Forget(f) PROVE DirInv' /\ RegisteredIsSound'
    BY <1>6 DEF Forget
  <1>7. ASSUME \/ Inspect \/ Wait \/ Write \/ Withdraw \/ SweepFails \/ WriteFails
               \/ WithdrawFails \/ Crash \/ StartRaises \/ IntakeRaises \/ UNCHANGED vars
        PROVE  UNCHANGED <<folders, table>>
    BY <1>7 DEF Inspect, Wait, Write, Withdraw, SweepFails, WriteFails, WithdrawFails,
         Crash, StartRaises, IntakeRaises, vars
  <1> QED
    BY <1>1, <1>2, <1>3, <1>4, <1>5, <1>6, <1>7 DEF Next, Step, Delivery

-----------------------------------------------------------------------------
(***************************************************************************)
(* The theorems.                                                           *)
(***************************************************************************)

\* The inductive invariant that the theorems rest on.
THEOREM SweepInvariance == Spec => []SweepInv
  <1>1. Init => SweepInv
    BY FolderRange, FeedbackAfterAssumption, MaxEventsAssumption
       DEF Init, SweepInv, TypeOK, ReadyInv, DirInv, RegisteredIsSound, Unknown, Verdict
  <1>2. SweepInv /\ [Next]_vars => SweepInv'
    BY TypePreserved, ReadyPreserved, RegisteredPreserved DEF SweepInv
  <1> QED
    BY <1>1, <1>2, PTL DEF Spec

\* Every variable of the sweep keeps its type: it never comes to a folder that is not
\* there, and counts no further than the grace period.
THEOREM IngestTypes == Spec => []TypeOK
  <1>1. SweepInv => TypeOK
    BY DEF SweepInv
  <1> QED
    BY <1>1, SweepInvariance, PTL

\* A set is registered only from a folder of its name that is whole and as described.
THEOREM OnlyWholeSetsAreRegistered == Spec => []RegisteredIsSound
  <1>1. SweepInv => RegisteredIsSound
    BY DEF SweepInv
  <1> QED
    BY <1>1, SweepInvariance, PTL
===============================================================================
