---------------------------- MODULE SchedulerProofs ----------------------------
(***************************************************************************)
(* Proofs about Scheduler, for every number of runs, answer of the         *)
(* configuration, set of allowed actions and bound.                        *)
(***************************************************************************)
EXTENDS Scheduler, FiniteSetTheorems, TLAPS

\* At most one thread is alive, and until its end begins _worker_run names its run.
WorkersInv ==
  /\ \A v, w \in workers : v = w
  /\ \A w \in workers : w.at # "leaving" => workerRun = w.run

\* The run a stage is being driven for is still where, and as, it was read,
\* unless it has been deleted since.
InsideInv ==
  \A w \in workers :
    w.at = "inside" =>
      \/ place[w.run] = "gone"
      \/ place[w.run] = "electicode" /\ status[w.run] = "running"

\* The runs the mind has to read, or will find it has: those parked now and those
\* on the list it is going through.
ToRead(r) ==
  /\ InStore(r)
  /\ \/ status[r] \in Stopped
     \/ r \in todo /\ pc \in {"diagnose", "reading", "restamp"}

\* Such a run without a stamp has news, but between a reading and its restamp;
\* the run being read is off the list; and nothing stops before it is ingested.
NewsInv ==
  /\ \A r \in Run : place[r] = "none" => status[r] = "running"
  /\ pc \in {"reading", "restamp"} => about \notin todo
  /\ \A r \in Run :
       ToRead(r) /\ r \notin stamped /\ ~(pc = "restamp" /\ about = r) => r \in news

LoopInv == TypeOK /\ WorkersInv /\ InsideInv /\ NewsInv

-----------------------------------------------------------------------------
(***************************************************************************)
(* The preservation of each part.                                          *)
(***************************************************************************)

\* Reading its run, a worker goes inside, if the run is one to work on, or leaves.
LEMMA WorkerReading ==
  ASSUME TypeOK, NEW w \in workers, WorkerReads(w)
  PROVE  \E new \in Worker :
           /\ workers' = (workers \ {w}) \cup {new}
           /\ new.run = w.run /\ w.at = "ready"
           /\ \/ /\ new.at = "inside" /\ UNCHANGED workerRun
                 /\ place[w.run] = "electicode" /\ status[w.run] = "running"
              \/ new.at = "leaving" /\ workerRun' = 0
           /\ UNCHANGED <<table, loop, stamped, news, mindOn, inHand, requests, restarts>>
  <1> DEFINE a == approved[w.run]
             in == [w EXCEPT !.at = "inside", !.approved = a]
             out == [w EXCEPT !.at = "leaving"]
  <1>1. w \in Worker /\ a \in BOOLEAN
    <2>1. w \in Worker /\ w.run \in Run
      BY DEF TypeOK, Worker
    <2> QED
      BY <2>1, Zenon DEF TypeOK
  <1>2. UNCHANGED <<table, loop, stamped, news, mindOn, inHand, requests, restarts>>
    BY DEF WorkerReads
  <1>3. ASSUME place[w.run] = "electicode", status[w.run] = "running"
        PROVE  workers' = (workers \ {w}) \cup {in} /\ w.at = "ready" /\ UNCHANGED workerRun
    BY <1>3 DEF WorkerReads, BecomesAs
  <1>4. ASSUME ~(place[w.run] = "electicode" /\ status[w.run] = "running")
        PROVE  workers' = (workers \ {w}) \cup {out} /\ w.at = "ready" /\ workerRun' = 0
    BY <1>4 DEF WorkerReads, BecomesAs
  <1> HIDE DEF a
  <1>5. /\ in \in Worker /\ in.run = w.run /\ in.at = "inside"
        /\ out \in Worker /\ out.run = w.run /\ out.at = "leaving"
    BY <1>1 DEF Worker
  <1> HIDE DEF in, out
  <1> QED
    BY <1>2, <1>3, <1>4, <1>5

\* The variables of a step keep their types.
LEMMA TypePreserved == TypeOK /\ [Next]_vars => TypeOK'
  <1> SUFFICES ASSUME TypeOK, [Next]_vars PROVE TypeOK'
    OBVIOUS
  <1> USE BoundsAssumption
      DEF TypeOK, Place, Stopped, table, loop, threads, InStore, WantsReading,
          StopRun, MoveRun, StayIn
  <1>1. CASE Ingest \/ IngestRaises
    BY <1>1 DEF Ingest, IngestRaises, TakesIn
  <1>2. ASSUME NEW r \in Run, StepPolygon(r) PROVE TypeOK'
    BY <1>2 DEF StepPolygon, WaitInVain
  <1>3. CASE ListElectiCode
    BY <1>3 DEF ListElectiCode, Live
  <1>4. CASE Pump
    BY <1>4 DEF Pump, Worker
  <1>5. CASE PumpNothing \/ EndTick \/ BeginDiagnosis
    BY <1>5 DEF PumpNothing, EndTick, BeginDiagnosis
  <1>6. ASSUME NEW r \in Run, AlreadyRead(r) \/ BeginReading(r) PROVE TypeOK'
    BY <1>6 DEF AlreadyRead, BeginReading
  <1>7. CASE MindSpeaks \/ LoopDies \/ Restamp
    BY <1>7 DEF MindSpeaks, LoopDies, Restamp
  <1>8. CASE MindActs
    <2>1. approved' \in [Run -> BOOLEAN]
      BY <1>8, Zenon DEF MindActs
    <2> QED
      BY <1>8, <2>1 DEF MindActs
  <1>9. ASSUME NEW w \in workers, WorkerReads(w) PROVE TypeOK'
    BY <1>9, WorkerReading
  <1>10. ASSUME NEW w \in workers, WorkerFinishes(w) PROVE TypeOK'
    BY <1>10 DEF WorkerFinishes, BecomesAs, Worker
  <1>11. ASSUME NEW w \in workers, WorkerLeaves(w) PROVE TypeOK'
    BY <1>11 DEF WorkerLeaves
  <1>12. CASE Restart
    BY <1>12 DEF Restart
  <1>13. ASSUME NEW q \in Request, ReadRequest(q) PROVE TypeOK'
    BY <1>13 DEF ReadRequest
  <1>14. ASSUME NEW q \in Request, WriteRequest(q) PROVE TypeOK'
    BY <1>14 DEF WriteRequest, Request, Delete, Release, LeaveEvent
  <1>15. CASE Dead \/ UNCHANGED vars
    BY <1>15 DEF Dead, vars
  <1> QED
    BY <1>1, <1>2, <1>3, <1>4, <1>5, <1>6, <1>7, <1>8, <1>9, <1>10, <1>11, <1>12, <1>13,
       <1>14, <1>15 DEF Next, LoopStep, WorkerStep

\* Only the pump starts a thread, and only when none is alive.
LEMMA WorkersPreserved == TypeOK /\ WorkersInv /\ [Next]_vars => WorkersInv'
  <1> SUFFICES ASSUME TypeOK, WorkersInv, [Next]_vars PROVE WorkersInv'
    OBVIOUS
  <1> USE DEF TypeOK, WorkersInv, threads
  <1>1. CASE UNCHANGED threads
    BY <1>1
  <1>2. CASE Pump
    BY <1>2 DEF Pump
  <1>3. ASSUME NEW w \in workers, WorkerReads(w) PROVE WorkersInv'
    BY <1>3, WorkerReading
  <1>4. ASSUME NEW w \in workers, WorkerFinishes(w) PROVE WorkersInv'
    BY <1>4 DEF WorkerFinishes, BecomesAs, Worker
  <1>5. ASSUME NEW w \in workers, WorkerLeaves(w) PROVE WorkersInv'
    BY <1>5 DEF WorkerLeaves
  <1>6. CASE Restart
    BY <1>6 DEF Restart
  <1>7. ASSUME NEW r \in Run, StepPolygon(r) \/ AlreadyRead(r) \/ BeginReading(r)
        PROVE  UNCHANGED threads
    BY <1>7 DEF StepPolygon, AlreadyRead, BeginReading
  <1>8. ASSUME NEW q \in Request, ReadRequest(q) \/ WriteRequest(q)
        PROVE  UNCHANGED threads
    BY <1>8 DEF ReadRequest, WriteRequest
  <1>9. ASSUME \/ Ingest \/ IngestRaises \/ ListElectiCode \/ PumpNothing \/ EndTick
               \/ BeginDiagnosis
               \/ MindSpeaks \/ MindActs \/ LoopDies \/ Restamp \/ Dead \/ UNCHANGED vars
        PROVE  UNCHANGED threads
    BY <1>9 DEF Ingest, IngestRaises, TakesIn, ListElectiCode, PumpNothing, EndTick,
         BeginDiagnosis, MindSpeaks, MindActs, LoopDies, Restamp, Dead, vars
  <1> QED
    BY <1>1, <1>2, <1>3, <1>4, <1>5, <1>6, <1>7, <1>8, <1>9 DEF Next, LoopStep, WorkerStep

\* While a stage is driven nothing else stops, moves or parks its run.
LEMMA InsidePreserved == LoopInv /\ [Next]_vars => InsideInv'
  <1> SUFFICES ASSUME LoopInv, [Next]_vars PROVE InsideInv'
    OBVIOUS
  <1> USE DEF LoopInv, TypeOK, WorkersInv, InsideInv, Worker, table, loop, threads
  <1>1. ASSUME UNCHANGED <<workers, place, status>> PROVE InsideInv'
    BY <1>1
  <1>2. CASE Ingest \/ IngestRaises
    BY <1>2 DEF Ingest, IngestRaises, TakesIn
  <1>3. ASSUME NEW r \in Run, StepPolygon(r) PROVE InsideInv'
    BY <1>3 DEF StepPolygon, WaitInVain, StayIn, MoveRun, StopRun
  <1>4. CASE Pump \/ Restart
    BY <1>4 DEF Pump, Restart
  <1>5. CASE MindActs
    BY <1>5 DEF MindActs
  <1>6. ASSUME NEW w \in workers, WorkerReads(w) PROVE InsideInv'
    BY <1>6, WorkerReading
  <1>7. ASSUME NEW w \in workers, WorkerFinishes(w) \/ WorkerLeaves(w) PROVE InsideInv'
    <2>1. \A v \in workers' : v.at = "leaving"
      BY <1>7 DEF WorkerFinishes, WorkerLeaves, BecomesAs
    <2> QED
      BY <2>1
  <1>8. ASSUME NEW q \in Request, WriteRequest(q) PROVE InsideInv'
    BY <1>8 DEF WriteRequest, Request, Delete, Release, LeaveEvent
  <1>9. ASSUME NEW q \in Request, ReadRequest(q) PROVE InsideInv'
    BY <1>1, <1>9 DEF ReadRequest
  <1>10. ASSUME NEW r \in Run, AlreadyRead(r) \/ BeginReading(r) PROVE InsideInv'
    BY <1>1, <1>10 DEF AlreadyRead, BeginReading
  <1>11. CASE \/ ListElectiCode \/ PumpNothing \/ EndTick \/ BeginDiagnosis
              \/ MindSpeaks \/ LoopDies \/ Restamp \/ Dead \/ UNCHANGED vars
    BY <1>1, <1>11 DEF ListElectiCode, PumpNothing, EndTick, BeginDiagnosis, MindSpeaks,
         LoopDies, Restamp, Dead, vars
  <1> QED
    BY <1>2, <1>3, <1>4, <1>5, <1>6, <1>7, <1>8, <1>9, <1>10, <1>11
       DEF Next, LoopStep, WorkerStep

\* Whatever takes a stamp away leaves news, but the reading itself, which restamps.
LEMMA NewsPreserved == LoopInv /\ [Next]_vars => NewsInv'
  <1> SUFFICES ASSUME LoopInv, [Next]_vars PROVE NewsInv'
    OBVIOUS
  <1> USE DEF LoopInv, TypeOK, NewsInv, ToRead, InStore, WantsReading, Stopped, Place,
              table, loop, threads
  <1>1. CASE Ingest \/ IngestRaises
    BY <1>1 DEF Ingest, IngestRaises, TakesIn
  <1>2. ASSUME NEW r \in Run, StepPolygon(r) PROVE NewsInv'
    BY <1>2 DEF StepPolygon, WaitInVain, StayIn, MoveRun, StopRun
  <1>3. CASE ListElectiCode \/ Pump \/ PumpNothing
    BY <1>3 DEF ListElectiCode, Pump, PumpNothing
  <1>4. CASE EndTick \/ BeginDiagnosis
    BY <1>4 DEF EndTick, BeginDiagnosis
  <1>5. ASSUME NEW r \in Run, AlreadyRead(r) PROVE NewsInv'
    BY <1>5 DEF AlreadyRead
  <1>6. ASSUME NEW r \in Run, BeginReading(r) PROVE NewsInv'
    BY <1>6 DEF BeginReading
  <1>7. CASE MindSpeaks
    BY <1>7 DEF MindSpeaks
  <1>8. CASE MindActs
    BY <1>8 DEF MindActs
  <1>9. CASE LoopDies \/ Restamp
    BY <1>9 DEF LoopDies, Restamp
  <1>10. ASSUME NEW w \in workers, WorkerReads(w) \/ WorkerLeaves(w) PROVE NewsInv'
    BY <1>10 DEF WorkerReads, WorkerLeaves
  <1>11. ASSUME NEW w \in workers, WorkerFinishes(w) PROVE NewsInv'
    BY <1>11 DEF WorkerFinishes, Worker, StayIn, MoveRun, StopRun
  <1>12. CASE Restart
    BY <1>12 DEF Restart
  <1>13. ASSUME NEW q \in Request, ReadRequest(q) PROVE NewsInv'
    BY <1>13 DEF ReadRequest
  <1>14. ASSUME NEW q \in Request, WriteRequest(q) PROVE NewsInv'
    BY <1>14 DEF WriteRequest, Request, Delete, Release, LeaveEvent
  <1>15. CASE Dead \/ UNCHANGED vars
    BY <1>15 DEF Dead, vars
  <1> QED
    BY <1>1, <1>2, <1>3, <1>4, <1>5, <1>6, <1>7, <1>8, <1>9, <1>10, <1>11, <1>12, <1>13,
       <1>14, <1>15 DEF Next, LoopStep, WorkerStep

-----------------------------------------------------------------------------
(***************************************************************************)
(* The theorems.                                                           *)
(***************************************************************************)

\* The inductive invariant that the theorems rest on.
THEOREM LoopInvariance == Spec => []LoopInv
  <1>1. Init => LoopInv
    BY BoundsAssumption
       DEF Init, LoopInv, TypeOK, WorkersInv, InsideInv, NewsInv, ToRead, Place, Stopped
  <1>2. LoopInv /\ [Next]_vars => LoopInv'
    BY TypePreserved, WorkersPreserved, InsidePreserved, NewsPreserved DEF LoopInv
  <1> QED
    BY <1>1, <1>2, PTL DEF Spec

\* Every variable of the scheduler keeps its type.
THEOREM SchedulerTypes == Spec => []TypeOK
  <1>1. LoopInv => TypeOK
    BY DEF LoopInv
  <1> QED
    BY <1>1, LoopInvariance, PTL

\* One browser at a time, and its run is known for as long as it is driven.
THEOREM OneRunIsDriven == Spec => []OneDrivenRun
  <1>1. LoopInv => OneDrivenRun
    <2> SUFFICES ASSUME LoopInv PROVE OneDrivenRun
      OBVIOUS
    <2>1. CASE workers = {}
      BY <2>1, FS_EmptySet DEF OneDrivenRun
    <2>2. CASE \E w \in workers : TRUE
      <3>1. PICK w \in workers : TRUE
        BY <2>2
      <3>2. workers = {w}
        BY <3>1 DEF LoopInv, WorkersInv
      <3>3. Cardinality(workers) = 1
        BY <3>2, FS_Singleton
      <3> QED
        BY <3>3 DEF OneDrivenRun, LoopInv, WorkersInv
    <2> QED
      BY <2>1, <2>2
  <1> QED
    BY <1>1, LoopInvariance, PTL

\* A stopped run goes on only by the word of an operator or of an allowed mind.
THEOREM AStopHolds == Spec => StopHolds
  <1> DEFINE ByWord(r) ==
        \/ \E q \in inHand \ inHand' : q.run = r /\ q.kind \in {"approve", "resume"}
        \/ pc = "reading" /\ about = r /\ "resume" \in MindMay
  <1>1. LoopInv /\ [Next]_vars =>
          [\A r \in Run : status[r] \in Stopped /\ status'[r] = "running" => ByWord(r)]_vars
    <2> SUFFICES ASSUME LoopInv, Next, NEW r \in Run,
                        status[r] \in Stopped, status'[r] = "running"
                 PROVE  ByWord(r)
      OBVIOUS
    <2> USE DEF LoopInv, TypeOK, Stopped, table
    <2>1. status' # status
      OBVIOUS
    <2>2. ASSUME NEW s \in Run, StepPolygon(s) PROVE FALSE
      BY <2>2 DEF StepPolygon, WaitInVain, StayIn, MoveRun, StopRun
    <2>3. CASE MindActs
      BY <2>3 DEF MindActs
    <2>4. ASSUME NEW w \in workers, WorkerFinishes(w) PROVE FALSE
      BY <2>4 DEF WorkerFinishes, Worker, InsideInv, InStore, StayIn, MoveRun, StopRun
    <2>5. ASSUME NEW q \in Request, WriteRequest(q) PROVE ByWord(r)
      BY <2>5 DEF WriteRequest, Request, Delete, Release, LeaveEvent, ReadRequest
    <2>6. ASSUME NEW w \in workers, WorkerReads(w) \/ WorkerLeaves(w) PROVE FALSE
      BY <2>1, <2>6 DEF WorkerReads, WorkerLeaves
    <2>7. ASSUME NEW s \in Run, AlreadyRead(s) \/ BeginReading(s) PROVE FALSE
      BY <2>1, <2>7 DEF AlreadyRead, BeginReading
    <2>8. ASSUME NEW q \in Request, ReadRequest(q) PROVE FALSE
      BY <2>1, <2>8 DEF ReadRequest
    <2>9. ASSUME \/ Ingest \/ IngestRaises \/ ListElectiCode \/ Pump \/ PumpNothing \/ EndTick
                 \/ BeginDiagnosis \/ MindSpeaks \/ LoopDies \/ Restamp \/ Restart \/ Dead
          PROVE  FALSE
      BY <2>1, <2>9 DEF Ingest, IngestRaises, TakesIn, ListElectiCode, Pump, PumpNothing,
           EndTick,
           BeginDiagnosis,
           MindSpeaks, LoopDies, Restamp, Restart, Dead, vars
    <2> QED
      BY <2>2, <2>3, <2>4, <2>5, <2>6, <2>7, <2>8, <2>9 DEF Next, LoopStep, WorkerStep
  <1> QED
    BY <1>1, LoopInvariance, PTL DEF Spec, StopHolds

\* The mind begins to read a run only when the run has something new to read.
THEOREM AReadingIsEarned == Spec => ReadOncePerStop
  <1>1. LoopInv /\ [Next]_vars => [\A r \in Run : BeginsToRead(r) => r \in news]_vars
    <2> SUFFICES ASSUME LoopInv, Next, NEW r \in Run, BeginsToRead(r) PROVE r \in news
      OBVIOUS
    <2> USE DEF BeginsToRead, loop
    <2>1. ASSUME NEW s \in Run, BeginReading(s) PROVE r \in news
      BY <2>1 DEF BeginReading, Newest, LoopInv, NewsInv, ToRead
    <2>2. ASSUME NEW s \in Run, StepPolygon(s) \/ AlreadyRead(s) PROVE FALSE
      BY <2>2 DEF StepPolygon, AlreadyRead
    <2>3. ASSUME NEW w \in workers, WorkerReads(w) \/ WorkerFinishes(w) \/ WorkerLeaves(w)
          PROVE  FALSE
      BY <2>3 DEF WorkerReads, WorkerFinishes, WorkerLeaves
    <2>4. ASSUME NEW q \in Request, ReadRequest(q) \/ WriteRequest(q) PROVE FALSE
      BY <2>4 DEF ReadRequest, WriteRequest
    <2>5. ASSUME \/ Ingest \/ IngestRaises \/ ListElectiCode \/ Pump \/ PumpNothing \/ EndTick
                 \/ BeginDiagnosis \/ MindSpeaks \/ MindActs \/ LoopDies \/ Restamp
                 \/ Restart \/ Dead
          PROVE  FALSE
      BY <2>5 DEF Ingest, IngestRaises, TakesIn, ListElectiCode, Pump, PumpNothing, EndTick,
           BeginDiagnosis,
           MindSpeaks, MindActs, LoopDies, Restamp, Restart, Dead, vars
    <2> QED
      BY <2>1, <2>2, <2>3, <2>4, <2>5 DEF Next, LoopStep, WorkerStep
  <1> QED
    BY <1>1, LoopInvariance, PTL DEF Spec, ReadOncePerStop
================================================================================
