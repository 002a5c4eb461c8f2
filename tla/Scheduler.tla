------------------------------- MODULE Scheduler -------------------------------
(***************************************************************************)
(* The loop that drives the runs (maestro/scheduler.py), with the threads  *)
(* it shares the store with: the ElectiCode worker, the dashboard's        *)
(* request handlers (dashboard.py), and inside a tick the mind (mind.py);  *)
(* and the commands that open the same store from a process of their own   *)
(* (__main__.py).                                                          *)
(*                                                                         *)
(* A step of a lane is here a choice among the ways it can end; what leads *)
(* to each is in PolygonLane and ElectiCodeLane.  The four stages of the   *)
(* ElectiCode half are one place: the scheduler only asks whether a run is *)
(* in one of them.                                                         *)
(***************************************************************************)
EXTENDS Integers, FiniteSets

CONSTANTS
  Runs,         \* how many runs there can be; ids are given in order
  Minds,        \* the answers the configuration may give to: is there a mind?
  MindMay,      \* mind_may: the actions the operator allows it
  Patience,     \* bound: steps that leave a run in its half, unless its job is lost
  MaxRequests,  \* bound: requests of the dashboard and commands, actions of the mind
  MaxRestarts   \* bound: ends and restarts of the process

ASSUME RunsAssumption == Runs \in Nat \ {0}
ASSUME MindAssumption == Minds \in SUBSET BOOLEAN /\ MindMay \in SUBSET {"resume", "approve"}
ASSUME BoundsAssumption == Patience \in Nat /\ MaxRequests \in Nat /\ MaxRestarts \in Nat

Run == 1 .. Runs

VARIABLES
  place,      \* the half each run is in; "none" not ingested, "gone" deleted
  status,     \* runs.status; "unapproved" is BLOCKED by the apply gate
  approved,   \* runs.approved
  waits,      \* history: steps that left a run in its half
  stuck,      \* history: Polygon runs with a job that was lost behind the build
  pc,         \* where the loop's thread is in its tick
  todo,       \* runs the loop in progress has still to handle
  waiting,    \* the run the pump may hand to a worker; 0 for none
  about,      \* the run the mind is reading; 0 for none
  shown,      \* the runs that list_runs showed the diagnosis as approved
  stamped,    \* _read: runs whose stamp matches their present state
  news,       \* history: runs that stopped, or that others left an event on,
              \*   or that a restart forgot, since the mind last read them
  mindOn,     \* is a mind configured?
  workers,    \* the ElectiCode threads that are alive
  workerRun,  \* _worker_run
  inHand,     \* requests and commands between their read and their write
  requests,   \* history: requests, commands and actions of the mind so far
  restarts    \* history: restarts so far

table   == <<place, status, approved, waits, stuck>>
loop    == <<pc, todo, waiting, about, shown>>
threads == <<workers, workerRun>>
vars    == <<table, loop, stamped, news, mindOn, threads, inHand, requests, restarts>>

Place   == {"none", "polygon", "electicode", "done", "gone"}
Stopped == {"failed", "blocked", "unapproved"}
Worker  == [run : Run, at : {"ready", "inside", "leaving"}, approved : BOOLEAN]
Command == {"cmd_forget", "cmd_diagnose"}
Request == [kind : {"approve", "resume", "forget"} \cup Command, run : Run, blocked : BOOLEAN]

TypeOK ==
  /\ place \in [Run -> Place]
  /\ status \in [Run -> Stopped \cup {"running", "done"}]
  /\ approved \in [Run -> BOOLEAN]
  /\ waits \in 0 .. Patience
  /\ stuck \in SUBSET Run
  /\ pc \in {"ingest", "polygon", "pump", "list", "diagnose", "reading", "restamp", "dead"}
  /\ todo \in SUBSET Run
  /\ waiting \in {0} \cup Run
  /\ about \in {0} \cup Run /\ (pc \in {"reading", "restamp"} => about \in Run)
  /\ shown \in SUBSET Run
  /\ stamped \in SUBSET Run
  /\ news \in SUBSET Run
  /\ mindOn \in Minds
  /\ workers \in SUBSET Worker
  /\ workerRun \in {0} \cup Run
  /\ inHand \in SUBSET Request
  /\ requests \in 0 .. MaxRequests
  /\ restarts \in 0 .. MaxRestarts

Init ==
  /\ place = [r \in Run |-> "none"]
  /\ status = [r \in Run |-> "running"]
  /\ approved = [r \in Run |-> FALSE]
  /\ waits = 0 /\ stuck = {}
  /\ pc = "ingest" /\ todo = {} /\ waiting = 0 /\ about = 0 /\ shown = {}
  /\ stamped = {}
  /\ news = {} /\ mindOn \in Minds
  /\ workers = {} /\ workerRun = 0
  /\ inHand = {} /\ requests = 0 /\ restarts = 0

-----------------------------------------------------------------------------
(***************************************************************************)
(* What the handlers work from, and what they do to a row.                 *)
(***************************************************************************)

InStore(r) == place[r] \notin {"none", "gone"}

LiveOrStopped(half) == {r \in Run : place[r] = half}   \* mutant

\* _live: the runs in this half that are still moving.
Live(half) == {r \in Run : place[r] = half /\ status[r] = "running"}

\* Ids are given in order of arrival, so the least is the oldest.
Oldest(r, S) == r \in S /\ \A q \in S : r <= q
Newest(r, S) == r \in S /\ \A q \in S : q <= r

WantsReading(r) == InStore(r) /\ status[r] \in Stopped

StopRunInPlace(r, why) ==   \* mutant: the stage takes the status
  /\ place' = [place EXCEPT ![r] = why]
  /\ news' = news \cup {r}
  /\ stamped' = stamped \ {r}
  /\ UNCHANGED <<status, approved, waits, stuck>>

\* Whatever stops a run also leaves an event in its log.
StopRun(r, why) ==
  /\ status' = [status EXCEPT ![r] = why]
  /\ news' = news \cup {r}
  /\ stamped' = stamped \ {r}
  /\ UNCHANGED <<place, approved, waits, stuck>>

MoveRun(r, half, newStatus) ==
  /\ place' = [place EXCEPT ![r] = half]
  /\ status' = [status EXCEPT ![r] = newStatus]
  /\ UNCHANGED <<approved, waits, stuck, stamped, news>>

\* A retry, a wait, or a move to another stage of the same half.
StayIn(r, newStatus) ==
  /\ waits < Patience
  /\ status' = [status EXCEPT ![r] = newStatus]
  /\ waits' = waits + 1
  /\ UNCHANGED <<place, approved, stuck, stamped, news>>

\* A row whose job is gone waits for a package that nobody builds: whatever becomes of
\* the others, the run does not leave its half (PolygonLane, LostJobRecovers).
WaitInVain(r) ==
  /\ stuck' = stuck \cup {r}
  /\ UNCHANGED <<place, status, approved, waits, stamped, news>>

-----------------------------------------------------------------------------
(***************************************************************************)
(* tick: the sweep, the Polygon lane, the pump.                            *)
(***************************************************************************)

\* The sweep of the watch folder takes in any number of sets.
TakesIn(n) ==
  place' = [r \in Run |-> IF place[r] = "none" /\ r <= n THEN "polygon" ELSE place[r]]

Ingest ==
  /\ pc = "ingest"
  /\ \E n \in 0 .. Runs : TakesIn(n)
  /\ todo' = {r \in Run : place'[r] = "polygon" /\ status[r] = "running"}
  /\ pc' = "polygon"
  /\ UNCHANGED <<status, approved, waits, stuck, waiting, about, shown, stamped, news,
                 mindOn, threads, inHand, requests, restarts>>

\* _ingest catches an OSError only: a set that makes the intake raise anything else
\* ends run_forever, after the sets before it were taken in.
IngestRaises ==
  /\ pc = "ingest"
  /\ \E n \in 0 .. Runs : TakesIn(n)
  /\ pc' = "dead"
  /\ UNCHANGED <<status, approved, waits, stuck, todo, waiting, about, shown, stamped, news,
                 mindOn, threads, inHand, requests, restarts>>

\* PolygonLane.step or, if it raises, _crash; a deleted run is left alone.
StepPolygon(r) ==
  /\ pc = "polygon" /\ Oldest(r, todo)
  /\ todo' = todo \ {r}
  /\ \/ /\ place[r] = "polygon"
        /\ \/ StayIn(r, status[r])
           \/ WaitInVain(r)
           \/ r \notin stuck /\ MoveRun(r, "electicode", status[r])
           \/ StopRun(r, "failed")
     \/ place[r] # "polygon" /\ UNCHANGED <<table, stamped, news>>
  /\ UNCHANGED <<pc, waiting, about, shown, mindOn, threads, inHand, requests, restarts>>

ListElectiCode ==
  /\ pc = "polygon" /\ todo = {}
  /\ \/ Live("electicode") = {} /\ waiting' = 0
     \/ \E r \in Live("electicode") : Oldest(r, Live("electicode")) /\ waiting' = r
  /\ pc' = "pump"
  /\ UNCHANGED <<table, todo, about, shown, stamped, news, mindOn, threads, inHand,
                 requests, restarts>>

PumpAlways ==   \* mutant: the worker is not asked whether it is alive
  /\ pc = "pump" /\ waiting # 0
  /\ workers' = workers \cup {[run |-> waiting, at |-> "ready", approved |-> FALSE]}
  /\ workerRun' = waiting
  /\ pc' = "list"
  /\ UNCHANGED <<table, todo, waiting, about, shown, stamped, news, mindOn, inHand,
                 requests, restarts>>

\* _pump_electicode: the head of the list gets the worker, if that is free.
Pump ==
  /\ pc = "pump" /\ waiting # 0 /\ workers = {}
  /\ workers' = {[run |-> waiting, at |-> "ready", approved |-> FALSE]}
  /\ workerRun' = waiting
  /\ pc' = "list"
  /\ UNCHANGED <<table, todo, waiting, about, shown, stamped, news, mindOn, inHand,
                 requests, restarts>>

PumpNothing ==
  /\ pc = "pump" /\ (waiting = 0 \/ workers # {})
  /\ pc' = "list"
  /\ UNCHANGED <<table, todo, waiting, about, shown, stamped, news, mindOn, threads,
                 inHand, requests, restarts>>

-----------------------------------------------------------------------------
(***************************************************************************)
(* tick: the mind reads the runs that have stopped.                        *)
(***************************************************************************)

EndTick ==
  /\ \/ pc = "list" /\ ~mindOn
     \/ pc = "diagnose" /\ todo = {}
  /\ pc' = "ingest" /\ waiting' = 0 /\ about' = 0 /\ shown' = {}
  /\ UNCHANGED <<table, todo, stamped, news, mindOn, threads, inHand, requests, restarts>>

\* list_runs is read once; the stamp of a run that is not stopped is dropped.
BeginDiagnosis ==
  /\ pc = "list" /\ mindOn
  /\ todo' = {r \in Run : WantsReading(r)}
  /\ shown' = {r \in Run : InStore(r) /\ approved[r]}
  /\ stamped' = {r \in stamped : WantsReading(r)}
  /\ pc' = "diagnose"
  /\ UNCHANGED <<table, waiting, about, news, mindOn, threads, inHand, requests, restarts>>

AlreadyRead(r) ==
  /\ pc = "diagnose" /\ Newest(r, todo) /\ r \in stamped
  /\ todo' = todo \ {r}
  /\ UNCHANGED <<table, pc, waiting, about, shown, stamped, news, mindOn, threads,
                 inHand, requests, restarts>>

\* Stamp it, gather what the store has on it now, and ask.
BeginReading(r) ==
  /\ pc = "diagnose" /\ Newest(r, todo) /\ r \notin stamped
  /\ todo' = todo \ {r} /\ about' = r
  /\ stamped' = stamped \cup {r}
  /\ IF InStore(r)
       THEN /\ pc' = "reading"
            /\ news' = news \ {r}
       ELSE pc' = "restamp" /\ UNCHANGED news
  /\ UNCHANGED <<table, waiting, shown, mindOn, threads, inHand, requests, restarts>>

\* Unavailable, or a reading that is not to be acted on: it is logged.
MindSpeaks ==
  /\ pc = "reading" /\ InStore(about)
  /\ stamped' = stamped \ {about}
  /\ pc' = "restamp"
  /\ UNCHANGED <<table, todo, waiting, about, shown, news, mindOn, threads, inHand,
                 requests, restarts>>

\* _act, on the row as list_runs showed it: stopped.
MindActs ==
  /\ pc = "reading" /\ InStore(about)
  /\ requests < MaxRequests /\ requests' = requests + 1
  /\ \/ /\ "resume" \in MindMay
        /\ status' = [status EXCEPT ![about] = "running"]
        /\ UNCHANGED approved
     \/ /\ "approve" \in MindMay /\ about \notin shown
        /\ approved' = [approved EXCEPT ![about] = TRUE]
        /\ UNCHANGED status
  /\ stamped' = stamped \ {about}
  /\ pc' = "restamp"
  /\ UNCHANGED <<place, waits, stuck, todo, waiting, about, shown, news, mindOn,
                 threads, inHand, restarts>>

\* The log of a deleted run cannot be written: the exception leaves run_forever.
LoopDies ==
  /\ pc = "reading" /\ ~InStore(about)
  /\ pc' = "dead"
  /\ UNCHANGED <<table, todo, waiting, about, shown, stamped, news, mindOn, threads,
                 inHand, requests, restarts>>

RestampNever ==   \* mutant: the reading's own event makes the stamp stale
  /\ pc = "restamp"
  /\ pc' = "diagnose" /\ about' = 0
  /\ UNCHANGED <<table, todo, waiting, shown, stamped, news, mindOn, threads, inHand,
                 requests, restarts>>

\* From the state the reading left behind, or that anything else did.
Restamp ==
  /\ pc = "restamp"
  /\ stamped' = IF WantsReading(about) THEN stamped \cup {about} ELSE stamped \ {about}
  /\ pc' = "diagnose" /\ about' = 0
  /\ UNCHANGED <<table, todo, waiting, shown, news, mindOn, threads, inHand, requests,
                 restarts>>

LoopStep ==
  \/ Ingest \/ IngestRaises \/ ListElectiCode \/ Pump \/ PumpNothing \/ EndTick
  \/ BeginDiagnosis \/ MindSpeaks \/ MindActs \/ LoopDies \/ Restamp
  \/ \E r \in Run : StepPolygon(r) \/ AlreadyRead(r) \/ BeginReading(r)

-----------------------------------------------------------------------------
(***************************************************************************)
(* The worker: ElectiCodeLane.step in a thread of its own.                 *)
(***************************************************************************)

BecomesAs(w, new) == workers' = (workers \ {w}) \cup {new}

WorkerReadsStage(w) ==   \* mutant: step looks at the stage only
  /\ w.at = "ready"
  /\ IF place[w.run] = "electicode"
       THEN /\ BecomesAs(w, [w EXCEPT !.at = "inside", !.approved = approved[w.run]])
            /\ UNCHANGED workerRun
       ELSE BecomesAs(w, [w EXCEPT !.at = "leaving"]) /\ workerRun' = 0
  /\ UNCHANGED <<table, loop, stamped, news, mindOn, inHand, requests, restarts>>

\* The run is read once; a stopped or a deleted one is not entered.
WorkerReads(w) ==
  /\ w.at = "ready"
  /\ IF place[w.run] = "electicode" /\ status[w.run] = "running"
       THEN /\ BecomesAs(w, [w EXCEPT !.at = "inside", !.approved = approved[w.run]])
            /\ UNCHANGED workerRun
       ELSE BecomesAs(w, [w EXCEPT !.at = "leaving"]) /\ workerRun' = 0
  /\ UNCHANGED <<table, loop, stamped, news, mindOn, inHand, requests, restarts>>

\* The ways a stage can end.  _advance writes RUNNING whatever the row says; on
\* a deleted run every store call raises, and that is caught.
WorkerFinishes(w) ==
  /\ w.at = "inside"
  /\ \/ /\ InStore(w.run)
        /\ \/ StayIn(w.run, "running")
           \/ ~w.approved /\ StopRun(w.run, "unapproved")
           \/ \E why \in {"blocked", "failed"} : StopRun(w.run, why)
           \/ MoveRun(w.run, "done", "done")
     \/ ~InStore(w.run) /\ UNCHANGED <<table, stamped, news>>
  /\ BecomesAs(w, [w EXCEPT !.at = "leaving"])
  /\ workerRun' = 0
  /\ UNCHANGED <<loop, mindOn, inHand, requests, restarts>>

\* The result is queued for a later tick and the thread ends.
WorkerLeaves(w) ==
  /\ w.at = "leaving"
  /\ workers' = workers \ {w}
  /\ UNCHANGED <<table, loop, stamped, news, mindOn, workerRun, inHand, requests, restarts>>

WorkerStep == \E w \in workers : WorkerReads(w) \/ WorkerFinishes(w) \/ WorkerLeaves(w)

-----------------------------------------------------------------------------
(***************************************************************************)
(* The dashboard's handlers, the commands, and the end of the process.     *)
(***************************************************************************)

\* do_POST reads the row.  A resume of a run that is not stopped does nothing;
\* a forget is refused while a live worker drives the run.  The commands cannot
\* see the worker: cmd_forget (--yes, without --force) goes by the status, and
\* cmd_diagnose asks the mind.
ReadRequest(q) ==
  /\ InStore(q.run)
  /\ q.kind = "approve" => q.blocked = (status[q.run] \in {"blocked", "unapproved"})
  /\ q.kind # "approve" => ~q.blocked
  /\ q.kind = "resume" => status[q.run] \in Stopped
  /\ q.kind = "forget" => ~(workers # {} /\ workerRun = q.run)
  /\ q.kind = "cmd_forget" => status[q.run] # "running"
  /\ q.kind = "cmd_diagnose" => mindOn
  /\ requests < MaxRequests /\ requests' = requests + 1
  /\ inHand' = inHand \cup {q}
  /\ UNCHANGED <<table, loop, stamped, news, mindOn, threads, restarts>>

\* An event on the run: its stamp no longer matches.
LeaveEvent(r) == stamped' = stamped \ {r} /\ news' = news \cup {r}

Delete(r) ==
  /\ place' = [place EXCEPT ![r] = "gone"]
  /\ stamped' = stamped \ {r}
  /\ UNCHANGED <<status, approved, news>>

Release(q) ==
  /\ approved' = [approved EXCEPT ![q.run] = @ \/ q.kind = "approve"]
  /\ status' = IF q.kind = "resume" \/ q.blocked
                 THEN [status EXCEPT ![q.run] = "running"] ELSE status
  /\ LeaveEvent(q.run)
  /\ UNCHANGED place

\* What was read decides what is written, whatever the row has become.
WriteRequest(q) ==
  /\ q \in inHand
  /\ inHand' = inHand \ {q}
  /\ \/ ~InStore(q.run) /\ UNCHANGED <<place, status, approved, stamped, news>>
     \/ InStore(q.run) /\ q.kind \in {"forget", "cmd_forget"} /\ Delete(q.run)
     \/ InStore(q.run) /\ q.kind \in {"approve", "resume"} /\ Release(q)
     \/ /\ InStore(q.run) /\ q.kind = "cmd_diagnose" /\ LeaveEvent(q.run)
        /\ UNCHANGED <<place, status, approved>>
  /\ UNCHANGED <<waits, stuck, loop, mindOn, threads, requests, restarts>>

\* Stopped, killed or dead, and started again: the threads and _read are gone,
\* a command goes on.
Restart ==
  /\ restarts < MaxRestarts /\ restarts' = restarts + 1
  /\ pc' = "ingest" /\ todo' = {} /\ waiting' = 0 /\ about' = 0 /\ shown' = {}
  /\ stamped' = {} /\ news' = Run
  /\ mindOn' \in Minds
  /\ workers' = {} /\ workerRun' = 0
  /\ inHand' = {q \in inHand : q.kind \in Command}
  /\ UNCHANGED <<table, requests>>

\* run_forever was left by an exception: nothing moves until a restart.
Dead == pc = "dead" /\ UNCHANGED vars

Next ==
  \/ LoopStep \/ WorkerStep \/ Restart \/ Dead
  \/ \E q \in Request : ReadRequest(q) \/ WriteRequest(q)

Spec == Init /\ [][Next]_vars

(***************************************************************************)
(* The loop ticks for ever and its calls return; so does every stage the   *)
(* worker drives.  A handler that has read goes on to write.               *)
(***************************************************************************)
Fairness ==
  /\ WF_vars(LoopStep)
  /\ WF_vars(WorkerStep)
  /\ WF_vars(\E q \in Request : WriteRequest(q))

FairSpec == Spec /\ Fairness

-----------------------------------------------------------------------------
(***************************************************************************)
(* Properties.                                                             *)
(***************************************************************************)

\* One browser at a time, and the refusal to forget sees which run it serves:
\* the thread's end is split in two and a tick may fall between.
OneDrivenRun ==
  /\ Cardinality(workers) <= 1
  /\ \A w \in workers : w.at # "leaving" => workerRun = w.run

\* A run that stopped goes on only when an operator or an allowed mind said so,
\* though the pump may hand a worker a run that stopped since it was listed.
StopHolds ==
  [][\A r \in Run :
       status[r] \in Stopped /\ status'[r] = "running" =>
         \/ \E q \in inHand \ inHand' : q.run = r /\ q.kind \in {"approve", "resume"}
         \/ pc = "reading" /\ about = r /\ "resume" \in MindMay]_vars

\* The mind reads a parked run once a stop, not once a tick: another reading is
\* earned by a new stop, someone else's event on the run or a restart, never by
\* the event of the reading itself (_stamp, _restamp).
BeginsToRead(r) == pc = "diagnose" /\ pc' = "reading" /\ about' = r
ReadOncePerStop == [][\A r \in Run : BeginsToRead(r) => r \in news]_vars

\* No run waits for ever behind another: a run on the move comes to its end or stops,
\* whatever is parked or stuck in front of it (_live, _pump_electicode).  Two cases
\* excepted, which are defects of their own: a set or a reading whose exception ends
\* the loop, and a Polygon run whose own job was lost, which stays RUNNING for ever.
OnTheMove(r) == place[r] \in {"polygon", "electicode"} /\ status[r] = "running"
EveryRunSettles ==
  \A r \in Run : OnTheMove(r) ~> ~OnTheMove(r) \/ r \in stuck \/ pc = "dead"

-----------------------------------------------------------------------------
(***************************************************************************)
(* What the documentation says and the code does not do.                   *)
(***************************************************************************)

\* mind.py, from_config: the pipeline's availability must not depend on the mind.
\* A run deleted while the mind reads it takes the whole loop down.
LoopSurvivesTheMind == ~(pc = "dead" /\ about # 0)
===============================================================================
