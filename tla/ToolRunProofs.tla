---------------------------- MODULE ToolRunProofs ----------------------------
(***************************************************************************)
(* Proofs about ToolRun, for every chain of stages, timeout, cap of the    *)
(* log, and number of lines and of log calls that raise.                   *)
(***************************************************************************)
EXTENDS ToolRun, TLAPS

Out == written["stdout"]
Err == written["stderr"]

\* The streams are two, whatever has been written to them.
ShapeInv == DOMAIN written = Stream /\ taken \in [Stream -> Nat]

\* The waiter and the process: nothing has happened before the start, the waiter joins
\* the readers of a process that has ended, and exit code 0 says that all is done.
ToolInv ==
  /\ tool = "none" => Out = <<>> /\ Err = <<>> /\ completed = {}
  /\ waiter = "start" => tool = "none"
  /\ tool = "none" => waiter \in {"start", "returned"}
  /\ waiter \in {"joining stdout", "joining stderr", "returned"} => tool # "running"
  /\ tool = "0" => session \/ completed = 1 .. Stages

\* One of the first n lines says that stage j is done.
ToldBy(n, j) == \E h \in 1 .. n : Out[h].stage = j /\ Out[h].ok

\* The chain is run in order: a stage that took effect is told of before the next one
\* starts, and one that failed is the last.
ChainInv ==
  /\ \A i \in 1 .. Len(Out) : Out[i].ok /\ Out[i].stage # 0 => Out[i].stage \in completed
  /\ \A k \in completed : \A j \in 1 .. (k - 1) : ToldBy(Len(Out), j)
  /\ \A i \in 1 .. Len(Out) : ~Out[i].ok /\ Out[i].stage # 0 =>
       /\ \A k \in completed : k <= Out[i].stage
       /\ \A j \in 1 .. (Out[i].stage - 1) : ToldBy(i - 1, j)

\* A reader at its end has read all there is and will be.
ReaderInv ==
  /\ \A s \in Stream : reader[s] = "closed" => tool \in ExitCode /\ taken[s] = Len(written[s])
  /\ waiter = "joining stderr" /\ "stdout" \notin left => reader["stdout"] = "closed"

\* A thread writes to the log in one place only.
SayInv ==
  /\ \A s \in Stream : reader[s] # "reporting" => say[s] = "nothing"
  /\ waiter # "beating" => say["waiter"] = "nothing"
  /\ \A t \in Thread : say[t] = "cut" => counted > LogCap

\* The threads that are about to write a row of this kind.
Saying(what) ==
  (IF say["stdout"] = what THEN 1 ELSE 0) + (IF say["stderr"] = what THEN 1 ELSE 0)
    + (IF say["waiter"] = what THEN 1 ELSE 0)

\* What the count has let through is in the log, about to be, or was lost to a raise.
LogInv ==
  /\ rows + Saying("row") <= (IF counted <= LogCap THEN counted ELSE LogCap)
  /\ cuts + Saying("cut") <= (IF counted <= LogCap THEN 0 ELSE 1)
  /\ raises = 0 =>
       /\ rows + Saying("row") = (IF counted <= LogCap THEN counted ELSE LogCap)
       /\ cuts + Saying("cut") = (IF counted <= LogCap THEN 0 ELSE 1)

\* The waiter's polls stay within the timeout; then it only joins.
ClockInv ==
  /\ waiter = "start" => now = 0
  /\ waiter \in {"waiting", "beating", "beaten"} => now < Timeout
  /\ waiter \in {"woken", "joining stdout"} => now <= Timeout
  /\ waiter = "joining stderr" => now <= Timeout + JoinLimit

\* last is the time of something that reached the log, unless the log is full.
LogIsFull == counted > LogCap

LastIsHeard == waiter # "beaten" => last = lineAt \/ last = beatAt \/ LogIsFull
BeatIsHeard == waiter = "beaten" => beatAt = now \/ LogIsFull
WaitIsShort == waiter = "waiting" => now - last < QuietAfter

HeardInv == LastIsHeard /\ BeatIsHeard /\ WaitIsShort

CallInv ==
  /\ TypeOK /\ ShapeInv /\ ToolInv /\ ChainInv /\ ReaderInv /\ SayInv /\ LogInv
  /\ ClockInv /\ HeardInv /\ VerdictIsEarned /\ SafeRetry /\ DoubtIsOneStage

-----------------------------------------------------------------------------
(***************************************************************************)
(* The parts of the type invariant.                                        *)
(***************************************************************************)

ProcessTypes ==
  /\ session \in BOOLEAN
  /\ tool \in {"none", "running"} \cup ExitCode
  /\ browser \in BOOLEAN
  /\ completed \in SUBSET (1 .. Stages)
  /\ Out \in Seq(Event) /\ Err \in Seq(Noise)
  /\ \A s \in Stream : taken[s] \in 0 .. Len(written[s])

ControlTypes ==
  /\ reader \in [Stream -> {"reading", "reporting", "closed"}]
  /\ waiter \in {"start", "waiting", "woken", "beating", "beaten", "returned", "raised",
                 "joining stdout", "joining stderr"}
  /\ killing \in BOOLEAN /\ left \in SUBSET Stream

ClockTypes ==
  /\ now \in 0 .. Timeout + 2 * JoinLimit
  /\ last \in 0 .. now /\ lineAt \in 0 .. now /\ beatAt \in 0 .. now

LogTypes ==
  /\ counted \in Nat
  /\ say \in [Thread -> {"nothing", "uncounted", "row", "cut"}]
  /\ rows \in 0 .. LogCap /\ cuts \in {0, 1} /\ raises \in 0 .. MaxRaises

ResultTypes == result \in {NoResult} \cup Result

LEMMA JoiningNames == {Joining[s] : s \in Stream} = {"joining stdout", "joining stderr"}
                      /\ Joining["stdout"] = "joining stdout"
                      /\ Joining["stderr"] = "joining stderr"
  BY DEF Joining, Stream

LEMMA TypeParts ==
  /\ TypeOK <=> ProcessTypes /\ ControlTypes /\ ClockTypes /\ LogTypes /\ ResultTypes
  /\ TypeOK' <=> ProcessTypes' /\ ControlTypes' /\ ClockTypes' /\ LogTypes' /\ ResultTypes'
  <1>1. \A w : w \in {"start", "waiting", "woken", "beating", "beaten", "returned", "raised"}
                       \cup {Joining[s] : s \in Stream}
          <=> w \in {"start", "waiting", "woken", "beating", "beaten", "returned", "raised",
                     "joining stdout", "joining stderr"}
    BY JoiningNames
  <1>2. TypeOK <=> ProcessTypes /\ ControlTypes /\ ClockTypes /\ LogTypes /\ ResultTypes
    BY <1>1, Zenon DEF TypeOK, ProcessTypes, ControlTypes, ClockTypes, LogTypes, ResultTypes, Out, Err
  <1>3. TypeOK' <=> ProcessTypes' /\ ControlTypes' /\ ClockTypes' /\ LogTypes' /\ ResultTypes'
    BY <1>1, Zenon DEF TypeOK, ProcessTypes, ControlTypes, ClockTypes, LogTypes, ResultTypes, Out, Err
  <1> QED
    BY <1>2, <1>3

-----------------------------------------------------------------------------
(***************************************************************************)
(* What the three threads and the tool leave alone.                        *)
(***************************************************************************)

\* A line the tool may add to stdout.
MayPrint(e) ==
  /\ e \in Event /\ tool = "running"
  /\ e.stage # 0 => AtWork(e.stage) /\ (e.ok => e.stage \in completed)

LEMMA ToolEffect ==
  ASSUME TypeOK, ToolStep
  PROVE  /\ UNCHANGED <<session, streams, waiter, now, last, killing, reporter, history, result>>
         /\ browser' \in BOOLEAN
         /\ \/ \E k \in 1 .. Stages :
                 AtWork(k) /\ completed' = completed \cup {k} /\ UNCHANGED <<tool, written>>
            \/ /\ UNCHANGED <<tool, completed>>
               /\ \E e : MayPrint(e) /\ written' = [written EXCEPT !["stdout"] = Append(@, e)]
            \/ /\ UNCHANGED <<tool, completed>> /\ tool = "running"
               /\ \E n \in Noise : written' = [written EXCEPT !["stderr"] = Append(@, n)]
            \/ /\ UNCHANGED <<completed, written>>
               /\ \/ UNCHANGED tool
                  \/ /\ tool = "running" /\ tool' \in ExitCode
                     /\ tool' = "0" => session \/ (Reported = 1 .. Stages /\ ~Broken)
  <1> USE DEF OnlyProcess, Prints, Noise
  <1>1. CASE \E k \in 1 .. Stages : StageRuns(k)
    BY <1>1 DEF StageRuns, TypeOK
  <1>2. ASSUME NEW k \in 1 .. Stages, NEW ok \in BOOLEAN, StageReports(k, ok)
        PROVE  /\ UNCHANGED <<session, streams, waiter, now, last, killing, reporter, history, result>>
               /\ UNCHANGED <<tool, completed, browser>>
               /\ \E e : MayPrint(e) /\ written' = [written EXCEPT !["stdout"] = Append(@, e)]
    <2>1. MayPrint([stage |-> k, key |-> k, ok |-> ok])
      BY <1>2, StagesAssumption DEF StageReports, MayPrint, Event
    <2> QED
      BY <1>2, <2>1 DEF StageReports
  <1>3. ASSUME NEW key \in 0 .. Stages, NEW ok \in BOOLEAN,
               Prints("stdout", [stage |-> 0, key |-> key, ok |-> ok])
        PROVE  /\ UNCHANGED <<session, streams, waiter, now, last, killing, reporter, history, result>>
               /\ UNCHANGED <<tool, completed, browser>>
               /\ \E e : MayPrint(e) /\ written' = [written EXCEPT !["stdout"] = Append(@, e)]
    <2>1. MayPrint([stage |-> 0, key |-> key, ok |-> ok])
      BY <1>3, StagesAssumption DEF MayPrint, Event
    <2> QED
      BY <1>3, <2>1
  <1>4. CASE Prints("stderr", "noise") \/ Refuses
    BY <1>4 DEF Refuses, TypeOK
  <1>5. CASE OpensBrowser \/ BrowserEnds
    BY <1>5 DEF OpensBrowser, BrowserEnds, TypeOK
  <1>6. ASSUME NEW code \in ExitCode, Exits(code)
        PROVE  /\ UNCHANGED <<session, streams, waiter, now, last, killing, reporter, history, result>>
               /\ browser' \in BOOLEAN
               /\ UNCHANGED <<completed, written>>
               /\ tool = "running" /\ tool' \in ExitCode
               /\ tool' = "0" => session \/ (Reported = 1 .. Stages /\ ~Broken)
    BY <1>6 DEF Exits, TypeOK
  <1> QED
    BY <1>1, <1>2, <1>3, <1>4, <1>5, <1>6 DEF ToolStep, PrintsElse, TypeOK

LEMMA ReaderEffect ==
  ASSUME ReaderStep
  PROVE  /\ UNCHANGED <<process, waiter, now, killing, left, beatAt, result>>
         /\ \E s \in Stream : Takes(s) \/ Reports(s) \/ Closes(s)
  BY DEF ReaderStep, Takes, Reports, Closes, reporter, history

LEMMA WaiterEffect ==
  ASSUME WaiterStep
  PROVE  /\ UNCHANGED <<session, completed, written, streams, lineAt>>
         /\ \/ UNCHANGED <<tool, browser>>
            \/ waiter = "start" /\ tool' = "running" /\ UNCHANGED browser
            \/ TimesOut
  <1> USE DEF process, streams, reporter, history, OnlyWaiter
  <1>1. CASE Start \/ CannotStart \/ Poll \/ Hears \/ NoticesQuiet \/ SeesExit \/ RecordsBeat
    BY <1>1 DEF Start, CannotStart, Poll, Hears, NoticesQuiet, SeesExit, RecordsBeat
  <1>2. CASE Beats \/ BeatRaises
    BY <1>2 DEF Beats, BeatRaises
  <1>3. CASE TimesOut
    BY <1>3 DEF TimesOut
  <1>4. ASSUME NEW s \in Stream, Joined(s) \/ GivesUp(s)
        PROVE UNCHANGED <<process, streams, lineAt>>
    BY <1>4 DEF Joined, GivesUp, AfterJoin
  <1> QED
    BY <1>1, <1>2, <1>3, <1>4 DEF WaiterStep

-----------------------------------------------------------------------------
(***************************************************************************)
(* The tool, its lines and what they say.                                  *)
(***************************************************************************)

LEMMA PrintsOut ==
  ASSUME TypeOK, ShapeInv, NEW e \in Event,
         written' = [written EXCEPT !["stdout"] = Append(@, e)]
  PROVE  /\ DOMAIN written' = Stream /\ Err' = Err /\ Out' \in Seq(Event)
         /\ Len(Out') = Len(Out) + 1 /\ Len(Out) \in Nat
         /\ \A i \in 1 .. Len(Out) : Out'[i] = Out[i]
         /\ Out'[Len(Out) + 1] = e
  <1>1. Out \in Seq(Event)
    BY DEF TypeOK, Out
  <1>2. Out' = Append(Out, e) /\ Err' = Err /\ DOMAIN written' = Stream
    BY DEF ShapeInv, Stream, Out, Err
  <1> QED
    BY <1>1, <1>2

LEMMA PrintsErr ==
  ASSUME TypeOK, ShapeInv, NEW n \in Noise,
         written' = [written EXCEPT !["stderr"] = Append(@, n)]
  PROVE  /\ DOMAIN written' = Stream /\ Out' = Out /\ Err' \in Seq(Noise)
         /\ Len(Err') = Len(Err) + 1 /\ Len(Err) \in Nat
         /\ \A i \in 1 .. Len(Err) : Err'[i] = Err[i]
  <1>1. Err \in Seq(Noise)
    BY DEF TypeOK, Err
  <1>2. Err' = Append(Err, n) /\ Out' = Out /\ DOMAIN written' = Stream
    BY DEF ShapeInv, Stream, Out, Err
  <1> QED
    BY <1>1, <1>2

\* What is on the streams, by line.
LEMMA OnTheStreams ==
  ASSUME TypeOK
  PROVE  /\ Len(Out) \in Nat /\ Len(Err) \in Nat
         /\ \A i \in 1 .. Len(Out) : Out[i] \in Event /\ Out[i].stage \in 0 .. Stages
         /\ \A i \in 1 .. Len(Out) :
              Out[i].key \in 0 .. Stages /\ (Out[i].stage # 0 => Out[i].key = Out[i].stage)
         /\ Broken <=> \E i \in 1 .. Len(Out) : Out[i].stage # 0 /\ ~Out[i].ok
         /\ Refused <=> \E i \in 1 .. Len(Err) : Err[i] = "usage"
         /\ \A k : k \in Reported <=> (k # 0 /\ \E i \in 1 .. Len(Out) : Out[i].stage = k)
  <1>1. Out \in Seq(Event) /\ Err \in Seq(Noise)
    BY DEF TypeOK, Out, Err
  <1>2. Broken <=> \E i \in 1 .. Len(Out) : Out[i].stage # 0 /\ ~Out[i].ok
    BY DEF Broken, Chain, Printed, Out
  <1>3. Refused <=> \E i \in 1 .. Len(Err) : Err[i] = "usage"
    BY DEF Refused, Printed, Err
  <1>4. \A k : k \in Reported <=> (k # 0 /\ \E i \in 1 .. Len(Out) : Out[i].stage = k)
    BY DEF Reported, Chain, Printed, Out
  <1>5. Len(Out) \in Nat /\ Len(Err) \in Nat /\ \A i \in 1 .. Len(Out) : Out[i] \in Event
    BY <1>1
  <1>6. \A e \in Event : e.stage \in 0 .. Stages /\ e.key \in 0 .. Stages
                          /\ (e.stage # 0 => e.key = e.stage)
    BY DEF Event
  <1> QED
    BY <1>2, <1>3, <1>4, <1>5, <1>6

\* The stages that items of other tools are taken for, by the lines that name them.
LEMMA MistakenByLine ==
  ASSUME NEW k, NEW ok
  PROVE  k \in Mistaken(ok) <=>
           k # 0 /\ \E i \in 1 .. Len(Out) : Out[i].stage = 0 /\ Out[i].ok = ok /\ Out[i].key = k
  <1>1. \A e : e \in Printed("stdout") <=> \E i \in 1 .. Len(Out) : e = Out[i]
    BY DEF Printed, Out
  <1>2. k \in Mistaken(ok) <=>
          k # 0 /\ \E e \in Printed("stdout") : e.stage = 0 /\ e.ok = ok /\ e.key = k
    BY Zenon DEF Mistaken
  <1>3. ASSUME NEW e \in Printed("stdout"), e.stage = 0, e.ok = ok, e.key = k
        PROVE  \E i \in 1 .. Len(Out) : Out[i].stage = 0 /\ Out[i].ok = ok /\ Out[i].key = k
    <2>1. PICK i \in 1 .. Len(Out) : e = Out[i]
      BY <1>1
    <2> QED
      BY <1>3, <2>1
  <1>4. ASSUME NEW i \in 1 .. Len(Out), Out[i].stage = 0, Out[i].ok = ok, Out[i].key = k
        PROVE  \E e \in Printed("stdout") : e.stage = 0 /\ e.ok = ok /\ e.key = k
    BY <1>1, <1>4
  <1> QED
    BY <1>2, <1>3, <1>4, Zenon

\* Where a tool at its k-th stage stands: all before is told to be done, nothing after
\* has taken effect.
LEMMA AtStage ==
  ASSUME TypeOK, ChainInv, NEW k \in 1 .. Stages, AtWork(k)
  PROVE  /\ tool = "running" /\ ~Broken
         /\ \A j \in 1 .. (k - 1) : ToldBy(Len(Out), j)
         /\ \A j \in completed : j <= k
  <1>1. tool = "running" /\ ~Broken
    BY DEF AtWork
  <1>2. ASSUME NEW j \in 1 .. (k - 1) PROVE ToldBy(Len(Out), j)
    <2>1. j \in Reported
      BY DEF AtWork
    <2> QED
      BY <1>1, <2>1, OnTheStreams DEF ToldBy
  <1>3. ASSUME NEW j \in completed, j > k PROVE FALSE
    <2>1. j \in Nat /\ k \in 1 .. (j - 1)
      BY <1>3, StagesAssumption DEF TypeOK
    <2>2. ToldBy(Len(Out), k)
      BY <2>1 DEF ChainInv
    <2> QED
      BY <2>2, OnTheStreams DEF ToldBy, AtWork
  <1> QED
    BY <1>1, <1>2, <1>3, StagesAssumption DEF TypeOK

\* What a broken-off or finished chain has told of.
LEMMA AllReported ==
  ASSUME TypeOK, ChainInv, Reported = 1 .. Stages, ~Broken
  PROVE  completed = 1 .. Stages
  <1>1. \A k \in 1 .. Stages : k \in completed
    BY OnTheStreams DEF ChainInv
  <1> QED
    BY <1>1 DEF TypeOK

\* The order of the chain shows in what has taken effect and in what has been told.
LEMMA ChainPreserved == TypeOK /\ ShapeInv /\ ChainInv /\ [Next]_vars => ChainInv'
  <1> SUFFICES ASSUME TypeOK, ShapeInv, ChainInv, [Next]_vars PROVE ChainInv'
    OBVIOUS
  <1>0. Len(Out) \in Nat /\ completed \in SUBSET (1 .. Stages) /\ Stages \in Nat
    BY OnTheStreams, StagesAssumption DEF TypeOK
  <1>1. CASE UNCHANGED <<completed, Out>>
    BY <1>1 DEF ChainInv, ToldBy
  <1>2. ASSUME NEW k \in 1 .. Stages, AtWork(k), completed' = completed \cup {k}, Out' = Out
        PROVE ChainInv'
    <2>1. ~Broken /\ \A j \in 1 .. (k - 1) : ToldBy(Len(Out), j)
      BY <1>2, AtStage
    <2>2. \A i \in 1 .. Len(Out) : Out[i].ok \/ Out[i].stage = 0
      BY <2>1, OnTheStreams
    <2>3. \A m \in completed' : \A j \in 1 .. (m - 1) : ToldBy(Len(Out), j)
      BY <1>2, <2>1 DEF ChainInv
    <2> QED
      BY <1>2, <2>2, <2>3 DEF ChainInv, ToldBy
  <1>3. ASSUME NEW e, MayPrint(e), completed' = completed,
               written' = [written EXCEPT !["stdout"] = Append(@, e)]
        PROVE ChainInv'
    <2>n. PICK n \in Nat : n = Len(Out)
      BY <1>0
    <2>1. /\ Len(Out') = n + 1
          /\ \A i \in 1 .. n : Out'[i] = Out[i]
          /\ Out'[n + 1] = e /\ e \in Event /\ e.stage \in 0 .. Stages
      BY <1>3, <2>n, PrintsOut, <1>0 DEF MayPrint, Event
    <2>2. /\ \A j : \A m \in 0 .. n : ToldBy(m, j) => ToldBy(m, j)'
          /\ \A j : ToldBy(n, j) => ToldBy(n + 1, j)'
      BY <2>1 DEF ToldBy
    <2>3. ASSUME NEW i \in 1 .. (n + 1), Out'[i].ok, Out'[i].stage # 0
          PROVE  Out'[i].stage \in completed'
      BY <1>3, <2>n, <2>1, <2>3 DEF ChainInv, MayPrint
    <2>4. ASSUME NEW k \in completed', NEW j \in 1 .. (k - 1) PROVE ToldBy(n + 1, j)'
      BY <1>3, <2>n, <2>2 DEF ChainInv
    <2>5. ASSUME NEW i \in 1 .. (n + 1), ~Out'[i].ok, Out'[i].stage # 0
          PROVE  /\ \A k \in completed' : k <= Out'[i].stage
                 /\ \A j \in 1 .. (Out'[i].stage - 1) : ToldBy(i - 1, j)'
      <3>1. CASE i \in 1 .. n
        <4>1. Out'[i] = Out[i] /\ i - 1 \in 0 .. n
          BY <2>1, <3>1
        <4> QED
          BY <1>3, <2>n, <2>2, <2>5, <3>1, <4>1 DEF ChainInv
      <3>2. CASE i = n + 1
        <4>1. Out'[i] = e /\ e.stage \in 1 .. Stages /\ AtWork(e.stage) /\ i - 1 = n
          BY <1>3, <2>1, <2>5, <3>2, <1>0 DEF MayPrint
        <4>2. /\ \A j \in 1 .. (e.stage - 1) : ToldBy(n, j)
              /\ \A j \in completed : j <= e.stage
          BY <2>n, <4>1, AtStage
        <4>3. n \in 0 .. n
          BY <2>1
        <4> QED
          BY <1>3, <2>2, <4>1, <4>2, <4>3
      <3> QED
        BY <2>1, <3>1, <3>2
    <2>6. \A k \in completed' : \A j \in 1 .. (k - 1) : \E h \in 1 .. Len(Out') :
            Out'[h].stage = j /\ Out'[h].ok
      BY <2>1, <2>4 DEF ToldBy
    <2> QED
      BY <2>1, <2>3, <2>5, <2>6 DEF ChainInv, ToldBy
  <1>4. CASE ToolStep
    <2>1. CASE UNCHANGED <<completed, written>>
      BY <1>1, <2>1 DEF Out
    <2>2. ASSUME NEW n \in Noise, completed' = completed,
                 written' = [written EXCEPT !["stderr"] = Append(@, n)]
          PROVE ChainInv'
      BY <1>1, <2>2, PrintsErr
    <2> QED
      BY <1>2, <1>3, <1>4, <2>1, <2>2, ToolEffect DEF Out
  <1>5. CASE ReaderStep
    BY <1>1, <1>5, ReaderEffect DEF process, Out
  <1>6. CASE WaiterStep
    BY <1>1, <1>6, WaiterEffect DEF Out
  <1>7. CASE UNCHANGED vars
    BY <1>1, <1>7 DEF vars, process, Out
  <1> QED
    BY <1>4, <1>5, <1>6, <1>7 DEF Next

\* Every way for the waiter to go on, by where it is.
LEMMA WaiterPath ==
  ASSUME TypeOK, WaiterStep
  PROVE  \/ waiter = "start" /\ waiter' = "waiting" /\ tool' = "running" /\ UNCHANGED left
         \/ waiter = "start" /\ waiter' = "returned" /\ UNCHANGED <<tool, left>>
         \/ /\ waiter = "woken" /\ waiter' = "joining stdout" /\ KillTree /\ UNCHANGED left
         \/ /\ waiter = "waiting" /\ waiter' = "joining stdout" /\ tool \in ExitCode
            /\ UNCHANGED <<tool, left>>
         \/ /\ waiter \in {"waiting", "woken", "beating", "beaten"}
            /\ waiter' \in {"waiting", "woken", "beating", "beaten", "raised"}
            /\ UNCHANGED <<tool, left>>
         \/ /\ waiter = "joining stdout" /\ waiter' = "joining stderr" /\ UNCHANGED tool
            /\ left' \in SUBSET Stream
            /\ (reader["stdout"] = "closed" /\ UNCHANGED left) \/ "stdout" \in left'
         \/ /\ waiter = "joining stderr" /\ waiter' = "returned" /\ UNCHANGED tool
            /\ left' \in SUBSET Stream
            /\ (reader["stderr"] = "closed" /\ UNCHANGED left) \/ "stderr" \in left'
  <1> USE DEF process, streams, reporter, history, OnlyWaiter
  <1>1. CASE Start \/ CannotStart \/ SeesExit \/ TimesOut
    BY <1>1 DEF Start, CannotStart, SeesExit, TimesOut, ReturnAs
  <1>2. CASE Poll \/ Hears \/ NoticesQuiet \/ RecordsBeat \/ BeatRaises
    BY <1>2 DEF Poll, Hears, NoticesQuiet, RecordsBeat, BeatRaises
  <1>3. CASE Beats
    BY <1>3 DEF Beats
  <1>4. ASSUME NEW s \in Stream, Joined(s) \/ GivesUp(s)
        PROVE  \/ /\ waiter = "joining stdout" /\ waiter' = "joining stderr" /\ UNCHANGED tool
                  /\ left' \in SUBSET Stream
                  /\ (reader["stdout"] = "closed" /\ UNCHANGED left) \/ "stdout" \in left'
               \/ /\ waiter = "joining stderr" /\ waiter' = "returned" /\ UNCHANGED tool
                  /\ left' \in SUBSET Stream
                  /\ (reader["stderr"] = "closed" /\ UNCHANGED left) \/ "stderr" \in left'
    BY <1>4, JoiningNames DEF Joined, GivesUp, AfterJoin, ReturnAs, Stream, TypeOK
  <1> QED
    BY <1>1, <1>2, <1>3, <1>4 DEF WaiterStep

LEMMA ToolPreserved == TypeOK /\ ChainInv /\ ToolInv /\ [Next]_vars => ToolInv'
  <1> SUFFICES ASSUME TypeOK, ChainInv, ToolInv, [Next]_vars PROVE ToolInv'
    OBVIOUS
  <1> USE DEF ToolInv
  <1>1. CASE ToolStep
    <2>1. UNCHANGED <<session, waiter>>
      BY <1>1, ToolEffect
    <2>2. tool = "running" \/ UNCHANGED <<tool, completed, written>>
      BY <1>1, ToolEffect DEF AtWork, MayPrint
    <2>3. tool' = "0" => tool = "0" \/ session \/ completed' = 1 .. Stages
      BY <1>1, ToolEffect, AllReported DEF AtWork
    <2>4. tool' # "none" \/ UNCHANGED <<tool, completed, written>>
      BY <1>1, <2>2, ToolEffect DEF ExitCode
    <2>5. tool = "running" => waiter \notin {"start", "joining stdout", "joining stderr", "returned"}
      OBVIOUS
    <2> QED
      BY <2>1, <2>2, <2>3, <2>4, <2>5 DEF Out, Err
  <1>2. CASE ReaderStep
    <2>1. UNCHANGED <<session, tool, completed, written, waiter>>
      BY <1>2, ReaderEffect DEF process
    <2>2. UNCHANGED <<Out, Err>>
      BY <2>1 DEF Out, Err
    <2> QED
      BY <2>1, <2>2
  <1>3. CASE WaiterStep
    <2>1. UNCHANGED <<session, completed, written>>
      BY <1>3, WaiterEffect
    <2> QED
      BY <1>3, <2>1, WaiterPath DEF Out, Err, KillTree, ExitCode, TypeOK
  <1>4. CASE UNCHANGED vars
    BY <1>4 DEF vars, process, Out, Err
  <1> QED
    BY <1>1, <1>2, <1>3, <1>4 DEF Next

LEMMA ReaderPreserved == TypeOK /\ ShapeInv /\ ToolInv /\ ReaderInv /\ [Next]_vars => ReaderInv'
  <1> SUFFICES ASSUME TypeOK, ShapeInv, ToolInv, ReaderInv, [Next]_vars PROVE ReaderInv'
    OBVIOUS
  <1> USE DEF ReaderInv
  <1>1. CASE ToolStep
    <2>1. UNCHANGED <<streams, waiter, history>>
      BY <1>1, ToolEffect
    <2>2. tool \in ExitCode => UNCHANGED <<tool, written>>
      BY <1>1, ToolEffect DEF AtWork, MayPrint, ExitCode
    <2> QED
      BY <2>1, <2>2 DEF streams, history
  <1>2. CASE ReaderStep
    <2>1. UNCHANGED <<process, waiter, left>>
      BY <1>2, ReaderEffect
    <2>2. ASSUME NEW s \in Stream, Takes(s) \/ Reports(s) \/ Closes(s), NEW r \in Stream
          PROVE  /\ reader[r] = "closed" => reader'[r] = "closed"
                 /\ reader'[r] = "closed" => tool \in ExitCode /\ taken'[r] = Len(written[r])
      <3>1. CASE Takes(s)
        BY <3>1 DEF Takes, ShapeInv, TypeOK
      <3>2. CASE Reports(s)
        BY <3>2 DEF Reports, TypeOK
      <3>3. CASE Closes(s)
        BY <3>3 DEF Closes, TypeOK
      <3> QED
        BY <2>2, <3>1, <3>2, <3>3
    <2> QED
      BY <1>2, <2>1, <2>2, ReaderEffect DEF process, Stream
  <1>3. CASE WaiterStep
    <2>1. UNCHANGED <<written, streams>>
      BY <1>3, WaiterEffect
    <2>2. tool \in ExitCode => UNCHANGED tool
      BY <1>3, WaiterPath, WaiterEffect DEF ExitCode, TimesOut, KillTree, TypeOK, ToolInv
    <2> QED
      BY <1>3, <2>1, <2>2, WaiterPath DEF streams
  <1>4. CASE UNCHANGED vars
    BY <1>4 DEF vars, process, streams, history
  <1> QED
    BY <1>1, <1>2, <1>3, <1>4 DEF Next

LEMMA ProcessTypesPreserved ==
  TypeOK /\ ShapeInv /\ [Next]_vars => ProcessTypes' /\ ShapeInv'
  <1> SUFFICES ASSUME TypeOK, ShapeInv, [Next]_vars PROVE ProcessTypes' /\ ShapeInv'
    OBVIOUS
  <1>0. ProcessTypes
    BY TypeParts
  <1>1. CASE ToolStep
    <2>1. UNCHANGED <<session, taken>> /\ browser' \in BOOLEAN
      BY <1>1, ToolEffect DEF streams
    <2>2. CASE UNCHANGED written
      <3>1. completed' \in SUBSET (1 .. Stages) /\ tool' \in {"none", "running"} \cup ExitCode
        BY <1>0, <1>1, ToolEffect DEF ProcessTypes
      <3> QED
        BY <1>0, <2>1, <2>2, <3>1 DEF ProcessTypes, ShapeInv, Out, Err
    <2>3. ASSUME NEW e \in Event, UNCHANGED <<tool, completed>>,
                 written' = [written EXCEPT !["stdout"] = Append(@, e)]
          PROVE  ProcessTypes' /\ ShapeInv'
      <3>1. /\ DOMAIN written' = Stream /\ Err' = Err /\ Out' \in Seq(Event)
            /\ Len(Out') = Len(Out) + 1 /\ Len(Out) \in Nat
        BY <2>3, PrintsOut
      <3>2. ShapeInv'
        BY <2>1, <3>1 DEF ShapeInv
      <3>3. \A s \in Stream : taken'[s] \in 0 .. Len(written'[s])
        BY <1>0, <2>1, <3>1 DEF ProcessTypes, Stream, Out, Err
      <3> QED
        BY <1>0, <2>1, <2>3, <3>1, <3>2, <3>3 DEF ProcessTypes
    <2>4. ASSUME NEW n \in Noise, UNCHANGED <<tool, completed>>,
                 written' = [written EXCEPT !["stderr"] = Append(@, n)]
          PROVE  ProcessTypes' /\ ShapeInv'
      <3>1. /\ DOMAIN written' = Stream /\ Out' = Out /\ Err' \in Seq(Noise)
            /\ Len(Err') = Len(Err) + 1 /\ Len(Err) \in Nat
        BY <2>4, PrintsErr
      <3>2. ShapeInv'
        BY <2>1, <3>1 DEF ShapeInv
      <3>3. \A s \in Stream : taken'[s] \in 0 .. Len(written'[s])
        BY <1>0, <2>1, <3>1 DEF ProcessTypes, Stream, Out, Err
      <3> QED
        BY <1>0, <2>1, <2>4, <3>1, <3>2, <3>3 DEF ProcessTypes
    <2> QED
      BY <1>1, <2>2, <2>3, <2>4, ToolEffect DEF MayPrint
  <1>2. CASE ReaderStep
    <2>1. UNCHANGED process
      BY <1>2, ReaderEffect
    <2>2. taken' \in [Stream -> Nat] /\ \A s \in Stream : taken'[s] \in 0 .. Len(written[s])
      <3>1. ASSUME NEW r \in Stream, Takes(r)
            PROVE taken' \in [Stream -> Nat] /\ \A s \in Stream : taken'[s] \in 0 .. Len(written[s])
        <4>1. taken' = [taken EXCEPT ![r] = taken[r] + 1] /\ taken[r] < Len(written[r])
          BY <3>1 DEF Takes
        <4>2. \A s \in Stream : Len(written[s]) \in Nat
          BY OnTheStreams DEF Stream, Out, Err
        <4> QED
          BY <1>0, <4>1, <4>2 DEF ShapeInv, ProcessTypes
      <3>2. ASSUME NEW r \in Stream, Reports(r) \/ Closes(r) PROVE UNCHANGED taken
        BY <3>2 DEF Reports, Closes
      <3> QED
        BY <1>0, <1>2, <3>1, <3>2, ReaderEffect DEF ShapeInv, ProcessTypes
    <2> QED
      BY <1>0, <2>1, <2>2 DEF process, ProcessTypes, ShapeInv, Out, Err
  <1>3. CASE WaiterStep
    <2>1. UNCHANGED <<session, completed, written, taken>>
      BY <1>3, WaiterEffect DEF streams
    <2>2. tool' \in {"none", "running"} \cup ExitCode /\ browser' \in BOOLEAN
      <3>1. CASE TimesOut
        BY <1>0, <3>1 DEF TimesOut, KillTree, ProcessTypes, ExitCode
      <3>2. CASE ~TimesOut
        BY <1>0, <1>3, <3>2, WaiterEffect DEF ProcessTypes
      <3> QED
        BY <3>1, <3>2
    <2> QED
      BY <1>0, <2>1, <2>2 DEF ProcessTypes, ShapeInv, Out, Err
  <1>4. CASE UNCHANGED vars
    BY <1>0, <1>4 DEF vars, process, streams, ProcessTypes, ShapeInv, Out, Err
  <1> QED
    BY <1>1, <1>2, <1>3, <1>4 DEF Next

-----------------------------------------------------------------------------
(***************************************************************************)
(* The shared count and the log.                                           *)
(***************************************************************************)

Said == {"nothing", "uncounted", "row", "cut"}

\* One thread comes to say something else.
LEMMA SayingMoves ==
  ASSUME LogTypes, NEW t \in Thread, NEW w \in Said, say' = [say EXCEPT ![t] = w]
  PROVE  /\ say' \in [Thread -> Said]
         /\ say'[t] = w /\ \A u \in Thread : u # t => say'[u] = say[u]
         /\ Saying("row") \in Nat /\ Saying("cut") \in Nat
         /\ say[t] # "row" /\ w # "row" => Saying("row")' = Saying("row")
         /\ say[t] # "cut" /\ w # "cut" => Saying("cut")' = Saying("cut")
         /\ say[t] # "row" /\ w = "row" => Saying("row")' = Saying("row") + 1
         /\ say[t] # "cut" /\ w = "cut" => Saying("cut")' = Saying("cut") + 1
         /\ say[t] = "row" /\ w # "row" => Saying("row") >= 1 /\ Saying("row")' = Saying("row") - 1
         /\ say[t] = "cut" /\ w # "cut" => Saying("cut") >= 1 /\ Saying("cut")' = Saying("cut") - 1
  <1>1. /\ say' \in [Thread -> Said]
        /\ say'[t] = w /\ \A u \in Thread : u # t => say'[u] = say[u]
    BY DEF LogTypes, Said
  <1>2. CASE t = "stdout"
    BY <1>1, <1>2 DEF Saying, Thread, Stream
  <1>3. CASE t = "stderr"
    BY <1>1, <1>3 DEF Saying, Thread, Stream
  <1>4. CASE t = "waiter"
    BY <1>1, <1>4 DEF Saying, Thread, Stream
  <1> QED
    BY <1>1, <1>2, <1>3, <1>4 DEF Thread, Stream

\* The threads go through the Reporter one call at a time each, together in any order.
LEMMA ReporterKeepsCount ==
  ASSUME LogTypes, LogInv, \A u \in Thread : say[u] = "cut" => counted > LogCap,
         NEW t \in Thread,
         \/ say[t] = "nothing" /\ say' = [say EXCEPT ![t] = "uncounted"]
            /\ UNCHANGED <<counted, rows, cuts, raises>>
         \/ Counts(t) \/ Logs(t) \/ LogRaises(t)
  PROVE  /\ LogTypes' /\ LogInv'
         /\ \A u \in Thread : say'[u] = "cut" => counted' > LogCap
         /\ \A u \in Thread : u # t => say'[u] = say[u]
         /\ counted' >= counted
  <1> USE BoundsAssumption DEF LogTypes
  <1>1. CASE say[t] = "nothing" /\ say' = [say EXCEPT ![t] = "uncounted"]
             /\ UNCHANGED <<counted, rows, cuts, raises>>
    <2>1. /\ say' \in [Thread -> Said] /\ \A u \in Thread : u # t => say'[u] = say[u]
          /\ say'[t] = "uncounted"
          /\ Saying("row")' = Saying("row") /\ Saying("cut")' = Saying("cut")
      <3>1. "uncounted" \in Said
        BY DEF Said
      <3> HIDE DEF LogTypes
      <3> QED
        BY <1>1, <3>1, SayingMoves
    <2> QED
      BY <1>1, <2>1 DEF LogInv, Said
  <1>2. CASE Counts(t)
    <2>1. RowFor(counted + 1) \in {"row", "cut", "nothing"}
      BY DEF RowFor
    <2>2. say' = [say EXCEPT ![t] = RowFor(counted + 1)] /\ say[t] = "uncounted"
          /\ counted' = counted + 1 /\ UNCHANGED <<rows, cuts, raises>>
      BY <1>2 DEF Counts
    <2>3. /\ say' \in [Thread -> Said] /\ \A u \in Thread : u # t => say'[u] = say[u]
          /\ say'[t] = RowFor(counted + 1)
          /\ Saying("row") \in Nat /\ Saying("cut") \in Nat
          /\ RowFor(counted + 1) # "row" => Saying("row")' = Saying("row")
          /\ RowFor(counted + 1) # "cut" => Saying("cut")' = Saying("cut")
          /\ RowFor(counted + 1) = "row" => Saying("row")' = Saying("row") + 1
          /\ RowFor(counted + 1) = "cut" => Saying("cut")' = Saying("cut") + 1
      <3>1. RowFor(counted + 1) \in Said
        BY <2>1 DEF Said
      <3> HIDE DEF LogTypes
      <3> QED
        BY <2>2, <3>1, SayingMoves
    <2>4. /\ RowFor(counted + 1) = "row" <=> counted + 1 <= LogCap
          /\ RowFor(counted + 1) = "cut" <=> counted + 1 = LogCap + 1
      BY DEF RowFor
    <2>5. LogInv'
      BY <2>2, <2>3, <2>4 DEF LogInv
    <2>6. \A u \in Thread : say'[u] = "cut" => counted' > LogCap
      BY <2>2, <2>3, <2>4
    <2> QED
      BY <2>2, <2>3, <2>5, <2>6 DEF Said
  <1>3. CASE Logs(t) \/ LogRaises(t)
    <2>1. say' = [say EXCEPT ![t] = "nothing"] /\ say[t] \in {"row", "cut"} /\ UNCHANGED counted
      BY <1>3 DEF Logs, LogRaises
    <2>2. /\ say' \in [Thread -> Said] /\ \A u \in Thread : u # t => say'[u] = say[u]
          /\ say'[t] = "nothing"
          /\ Saying("row") \in Nat /\ Saying("cut") \in Nat
          /\ say[t] # "row" => Saying("row")' = Saying("row")
          /\ say[t] # "cut" => Saying("cut")' = Saying("cut")
          /\ say[t] = "row" => Saying("row") >= 1 /\ Saying("row")' = Saying("row") - 1
          /\ say[t] = "cut" => Saying("cut") >= 1 /\ Saying("cut")' = Saying("cut") - 1
      <3>1. "nothing" \in Said
        BY DEF Said
      <3> HIDE DEF LogTypes
      <3> QED
        BY <2>1, <3>1, SayingMoves
    <2>3. CASE Logs(t)
      <3>1. \/ say[t] = "row" /\ rows' = rows + 1 /\ UNCHANGED <<cuts, raises>>
            \/ say[t] = "cut" /\ cuts' = cuts + 1 /\ UNCHANGED <<rows, raises>>
        BY <2>3 DEF Logs
      <3>2. LogInv'
        <4>1. CASE say[t] = "row"
          BY <2>1, <2>2, <3>1, <4>1 DEF LogInv
        <4>2. CASE say[t] = "cut"
          BY <2>1, <2>2, <3>1, <4>2 DEF LogInv
        <4> QED
          BY <2>1, <4>1, <4>2
      <3>3. rows' \in 0 .. LogCap /\ cuts' \in {0, 1}
        BY <2>1, <2>2, <3>1 DEF LogInv
      <3> QED
        BY <2>1, <2>2, <3>1, <3>2, <3>3 DEF Said
    <2>4. CASE LogRaises(t)
      <3>1. raises' = raises + 1 /\ raises < MaxRaises /\ UNCHANGED <<rows, cuts>>
        BY <2>4 DEF LogRaises
      <3>2. LogInv'
        BY <2>1, <2>2, <3>1 DEF LogInv
      <3> QED
        BY <2>1, <2>2, <3>1, <3>2 DEF Said
    <2> QED
      BY <1>3, <2>3, <2>4
  <1> QED
    BY <1>1, <1>2, <1>3

\* Who reports in a step, if any thread does.
LEMMA WhoReports ==
  ASSUME TypeOK, SayInv, [Next]_vars
  PROVE  \/ UNCHANGED reporter
         \/ \E t \in Thread :
              \/ say[t] = "nothing" /\ say' = [say EXCEPT ![t] = "uncounted"]
                 /\ UNCHANGED <<counted, rows, cuts, raises>>
              \/ Counts(t) \/ Logs(t) \/ LogRaises(t)
  <1> USE DEF Thread, SayInv
  <1>1. CASE ToolStep
    BY <1>1, ToolEffect
  <1>2. ASSUME NEW s \in Stream, Takes(s)
        PROVE say[s] = "nothing" /\ say' = [say EXCEPT ![s] = "uncounted"]
              /\ UNCHANGED <<counted, rows, cuts, raises>>
    BY <1>2 DEF Takes
  <1>3. ASSUME NEW s \in Stream, Reports(s) PROVE Counts(s) \/ Logs(s) \/ LogRaises(s)
    BY <1>3 DEF Reports
  <1>4. ASSUME NEW s \in Stream, Closes(s) PROVE UNCHANGED reporter
    BY <1>4 DEF Closes
  <1>5. CASE NoticesQuiet
    BY <1>5 DEF NoticesQuiet
  <1>6. CASE Beats \/ BeatRaises
    BY <1>6 DEF Beats, BeatRaises
  <1>7. CASE Start \/ CannotStart \/ Poll \/ TimesOut \/ Hears \/ RecordsBeat \/ SeesExit
    BY <1>7 DEF Start, CannotStart, Poll, TimesOut, Hears, RecordsBeat, SeesExit, OnlyWaiter
  <1>8. ASSUME NEW s \in Stream, Joined(s) \/ GivesUp(s) PROVE UNCHANGED reporter
    BY <1>8 DEF Joined, GivesUp, AfterJoin
  <1>9. CASE UNCHANGED vars
    BY <1>9 DEF vars
  <1> QED
    BY <1>1, <1>2, <1>3, <1>4, <1>5, <1>6, <1>7, <1>8, <1>9 DEF Next, ReaderStep, WaiterStep

LEMMA LogPreserved ==
  TypeOK /\ SayInv /\ LogInv /\ [Next]_vars => LogTypes' /\ LogInv' /\ counted' >= counted
                                             /\ \A t \in Thread : say'[t] = "cut" => counted' > LogCap
  <1> SUFFICES ASSUME TypeOK, SayInv, LogInv, [Next]_vars
               PROVE  /\ LogTypes' /\ LogInv' /\ counted' >= counted
                      /\ \A t \in Thread : say'[t] = "cut" => counted' > LogCap
    OBVIOUS
  <1>0. LogTypes /\ \A t \in Thread : say[t] = "cut" => counted > LogCap
    BY TypeParts DEF SayInv
  <1>1. CASE UNCHANGED reporter
    <2>1. Saying("row")' = Saying("row") /\ Saying("cut")' = Saying("cut")
      BY <1>1 DEF reporter, Saying
    <2>2. counted \in Nat
      BY <1>0 DEF LogTypes
    <2> QED
      BY <1>0, <1>1, <2>1, <2>2 DEF reporter, LogTypes, LogInv
  <1> QED
    BY <1>0, <1>1, WhoReports, ReporterKeepsCount

\* A thread says something only where its code calls the Reporter.
LEMMA SayPreserved == TypeOK /\ SayInv /\ LogInv /\ [Next]_vars => SayInv'
  <1> SUFFICES ASSUME TypeOK, SayInv, LogInv, [Next]_vars PROVE SayInv'
    OBVIOUS
  <1>0. LogTypes /\ \A t \in Thread : say'[t] = "cut" => counted' > LogCap
    BY LogPreserved, TypeParts
  <1> DEFINE Goal == /\ \A s \in Stream : reader'[s] # "reporting" => say'[s] = "nothing"
                     /\ waiter' # "beating" => say'["waiter"] = "nothing"
  <1> USE DEF SayInv, LogTypes, Thread, Stream, streams
  <1>1. CASE ToolStep
    BY <1>1, ToolEffect DEF reporter
  <1>2. ASSUME NEW s \in Stream, Takes(s) PROVE Goal
    BY <1>0, <1>2 DEF Takes, TypeOK
  <1>3. ASSUME NEW s \in Stream, Reports(s) PROVE Goal
    <2>1. \A u \in Thread : u # s => say'[u] = say[u]
      BY <1>0, <1>3 DEF Reports, Counts, Logs, LogRaises
    <2>2. reader' = [reader EXCEPT ![s] = IF say'[s] = "nothing" THEN "reading" ELSE @]
          /\ UNCHANGED waiter
      BY <1>3 DEF Reports
    <2>3. reader[s] = "reporting"
      BY <1>3 DEF Reports
    <2> QED
      BY <2>1, <2>2, <2>3 DEF TypeOK
  <1>4. ASSUME NEW s \in Stream, Closes(s) PROVE Goal
    BY <1>4 DEF Closes, reporter, TypeOK
  <1>5. CASE NoticesQuiet
    BY <1>0, <1>5 DEF NoticesQuiet
  <1>6. CASE Beats \/ BeatRaises
    BY <1>0, <1>6 DEF Beats, BeatRaises, Counts, Logs, LogRaises
  <1>7. CASE Start \/ CannotStart \/ Poll \/ TimesOut \/ Hears \/ RecordsBeat \/ SeesExit
    BY <1>7 DEF Start, CannotStart, Poll, TimesOut, Hears, RecordsBeat, SeesExit, OnlyWaiter,
       reporter
  <1>8. ASSUME NEW s \in Stream, Joined(s) \/ GivesUp(s) PROVE Goal
    BY <1>8, JoiningNames DEF Joined, GivesUp, AfterJoin, reporter
  <1>9. CASE UNCHANGED vars
    BY <1>9 DEF vars, reporter
  <1>10. Goal
    BY <1>1, <1>2, <1>3, <1>4, <1>5, <1>6, <1>7, <1>8, <1>9 DEF Next, ReaderStep, WaiterStep
  <1> QED
    BY <1>0, <1>10

-----------------------------------------------------------------------------
(***************************************************************************)
(* The clock, and what is heard.                                           *)
(***************************************************************************)

LEMMA ControlPreserved == TypeOK /\ [Next]_vars => ControlTypes'
  <1> SUFFICES ASSUME TypeOK, [Next]_vars PROVE ControlTypes'
    OBVIOUS
  <1>0. ControlTypes
    BY TypeParts
  <1> USE DEF ControlTypes
  <1>1. CASE ToolStep
    BY <1>0, <1>1, ToolEffect DEF streams, history
  <1>2. CASE ReaderStep
    <2>1. ASSUME NEW s \in Stream, Takes(s) \/ Reports(s) \/ Closes(s)
          PROVE reader' \in [Stream -> {"reading", "reporting", "closed"}]
      BY <1>0, <2>1 DEF Takes, Reports, Closes
    <2> QED
      BY <1>0, <1>2, <2>1, ReaderEffect
  <1>3. CASE WaiterStep
    <2>1. killing' \in BOOLEAN
      BY <1>0, <1>3, Zenon DEF WaiterStep, Start, CannotStart, Poll, TimesOut, Hears,
         NoticesQuiet, Beats, BeatRaises, RecordsBeat, SeesExit, Joined, GivesUp, AfterJoin,
         OnlyWaiter
    <2> QED
      BY <1>0, <1>3, <2>1, WaiterEffect, WaiterPath DEF streams
  <1>4. CASE UNCHANGED vars
    BY <1>0, <1>4 DEF vars, streams, history
  <1> QED
    BY <1>1, <1>2, <1>3, <1>4 DEF Next

LEMMA TimesAreNat ==
  /\ Timeout \in Nat /\ QuietAfter \in Nat /\ JoinLimit \in Nat
  /\ Timeout > 0 /\ QuietAfter > 0 /\ JoinLimit > 0
  BY TimesAssumption

\* The clock, as numbers.
ClockRange ==
  /\ now \in Nat /\ last \in Nat /\ lineAt \in Nat /\ beatAt \in Nat
  /\ now <= Timeout + JoinLimit + JoinLimit
  /\ last <= now /\ lineAt <= now /\ beatAt <= now

LEMMA ClockValues == (ClockTypes <=> ClockRange) /\ (ClockTypes' <=> ClockRange')
  BY TimesAreNat DEF ClockTypes, ClockRange

\* The waiter gives up at its timeout, and then after one limit for each reader.
LEMMA ClockPreserved == TypeOK /\ ClockInv /\ [Next]_vars => ClockInv' /\ ClockTypes'
  <1> SUFFICES ASSUME TypeOK, ClockInv, [Next]_vars PROVE ClockInv' /\ ClockRange'
    BY ClockValues
  <1>0. ClockRange
    BY TypeParts, ClockValues
  <1> USE TimesAreNat DEF ClockRange
  <1>1. CASE ToolStep
    BY <1>0, <1>1, ToolEffect DEF history, ClockInv
  <1>2. CASE ReaderStep
    <2>1. UNCHANGED <<waiter, now, beatAt>>
      BY <1>2, ReaderEffect
    <2>2. ASSUME NEW s \in Stream, Takes(s) PROVE ClockInv' /\ ClockRange'
      <3>1. last' = now /\ lineAt' = now
        BY <2>2 DEF Takes
      <3>2. ClockRange'
        BY <1>0, <2>1, <3>1
      <3> QED
        BY <2>1, <3>2 DEF ClockInv
    <2>3. ASSUME NEW s \in Stream, Reports(s) \/ Closes(s) PROVE ClockInv' /\ ClockRange'
      <3>1. UNCHANGED <<last, lineAt>>
        BY <2>3 DEF Reports, Closes, history
      <3>2. ClockRange'
        BY <1>0, <2>1, <3>1
      <3> QED
        BY <2>1, <3>2 DEF ClockInv
    <2> QED
      BY <1>2, <2>2, <2>3, ReaderEffect
  <1>3. CASE Start
    BY <1>0, <1>3 DEF Start, history, ClockInv
  <1>4. CASE CannotStart
    BY <1>0, <1>4 DEF CannotStart, ReturnAs, history, ClockInv
  <1>5. CASE Poll
    BY <1>0, <1>5 DEF Poll, history, ClockInv
  <1>6. CASE TimesOut
    BY <1>0, <1>6 DEF TimesOut, history, ClockInv
  <1>7. CASE Hears
    BY <1>0, <1>7 DEF Hears, OnlyWaiter, history, ClockInv
  <1>8. CASE NoticesQuiet
    BY <1>0, <1>8 DEF NoticesQuiet, history, ClockInv
  <1>9. CASE SeesExit
    <2>1. waiter = "waiting" /\ waiter' = "joining stdout" /\ UNCHANGED <<now, last, lineAt, beatAt>>
      BY <1>9 DEF SeesExit, OnlyWaiter, history
    <2>2. now < Timeout
      BY <2>1 DEF ClockInv
    <2>3. ClockRange'
      BY <1>0, <2>1
    <2>4. now' <= Timeout
      <3>1. now \in Nat /\ now' = now
        BY <1>0, <2>1
      <3> QED
        BY <2>2, <3>1
    <2> QED
      BY <2>1, <2>3, <2>4 DEF ClockInv
  <1>10. CASE Beats
    <2>1. waiter = "beating" /\ UNCHANGED <<now, last, lineAt>> /\ waiter' \in {"beating", "beaten"}
      BY <1>10 DEF Beats
    <2>2. beatAt' = now \/ beatAt' = beatAt
      BY <1>10 DEF Beats
    <2>3. ClockRange'
      <3>1. CASE beatAt' = now
        BY <1>0, <2>1, <3>1
      <3>2. CASE beatAt' = beatAt
        BY <1>0, <2>1, <3>2
      <3> QED
        BY <2>2, <3>1, <3>2
    <2> QED
      BY <2>1, <2>3 DEF ClockInv
  <1>11. CASE BeatRaises
    BY <1>0, <1>11 DEF BeatRaises, history, ClockInv
  <1>12. CASE RecordsBeat
    BY <1>0, <1>12 DEF RecordsBeat, history, ClockInv
  <1>13. ASSUME NEW s \in Stream, Joined(s) \/ GivesUp(s) PROVE ClockInv' /\ ClockRange'
    <2>1. UNCHANGED <<last, lineAt, beatAt>> /\ (now' = now \/ now' = now + JoinLimit)
      BY <1>13 DEF Joined, GivesUp, AfterJoin
    <2>2. \/ waiter = "joining stdout" /\ waiter' = "joining stderr"
          \/ waiter = "joining stderr" /\ waiter' = "returned"
      BY <1>13, JoiningNames DEF Joined, GivesUp, AfterJoin, ReturnAs, Stream
    <2>3. now <= now' /\ now' <= now + JoinLimit /\ now' \in Nat
      <3>1. CASE now' = now
        BY <1>0, <3>1
      <3>2. CASE now' = now + JoinLimit
        BY <1>0, <3>2
      <3> QED
        BY <2>1, <3>1, <3>2
    <2>4. CASE waiter = "joining stdout" /\ waiter' = "joining stderr"
      <3>1. now <= Timeout
        BY <2>4 DEF ClockInv
      <3>2. now' <= Timeout + JoinLimit /\ ClockRange'
        BY <1>0, <2>1, <2>3, <3>1
      <3> QED
        BY <2>4, <3>2 DEF ClockInv
    <2>5. CASE waiter = "joining stderr" /\ waiter' = "returned"
      <3>1. now <= Timeout + JoinLimit
        BY <2>5 DEF ClockInv
      <3>2. ClockRange'
        BY <1>0, <2>1, <2>3, <3>1
      <3> QED
        BY <2>5, <3>2 DEF ClockInv
    <2> QED
      BY <2>2, <2>4, <2>5
  <1>14. CASE UNCHANGED vars
    BY <1>0, <1>14 DEF vars, history, ClockInv
  <1> QED
    BY <1>1, <1>2, <1>3, <1>4, <1>5, <1>6, <1>7, <1>8, <1>9, <1>10, <1>11, <1>12, <1>13, <1>14
       DEF Next, WaiterStep

\* A heartbeat is noted as heard only when it has come to the log, or the log is full.
LEMMA HeardPreserved ==
  TypeOK /\ ClockInv /\ SayInv /\ LogInv /\ HeardInv /\ [Next]_vars => HeardInv'
  <1> SUFFICES ASSUME TypeOK, ClockInv, SayInv, LogInv, HeardInv, [Next]_vars PROVE HeardInv'
    OBVIOUS
  <1>0. ClockRange /\ LogTypes
    BY TypeParts, ClockValues
  <1>f. LogIsFull => LogIsFull'
    BY <1>0, LogPreserved, BoundsAssumption DEF LogTypes, LogIsFull
  <1>i. LastIsHeard /\ BeatIsHeard /\ WaitIsShort
    BY DEF HeardInv
  <1>t. now \in Nat /\ last \in Nat
    BY <1>0 DEF ClockRange
  \* A step that hears nothing, and does not go back to waiting.
  <1>k. ASSUME UNCHANGED <<now, last, lineAt, beatAt>>, waiter # "beaten", waiter' # "beaten",
               waiter' = "waiting" => waiter = "waiting"
        PROVE  HeardInv'
    <2>1. LastIsHeard' /\ BeatIsHeard'
      BY <1>f, <1>i, <1>k, Zenon DEF LastIsHeard, BeatIsHeard
    <2>2. WaitIsShort'
      BY <1>i, <1>k, Zenon DEF WaitIsShort
    <2> QED
      BY <2>1, <2>2 DEF HeardInv
  <1>1. CASE ToolStep
    <2>1. UNCHANGED <<waiter, now, last, lineAt, beatAt>>
      BY <1>1, ToolEffect DEF history
    <2>2. LastIsHeard' /\ BeatIsHeard'
      BY <1>f, <1>i, <2>1, Zenon DEF LastIsHeard, BeatIsHeard
    <2>3. WaitIsShort'
      BY <1>i, <2>1, Zenon DEF WaitIsShort
    <2> QED
      BY <2>2, <2>3 DEF HeardInv
  <1>2. CASE ReaderStep
    <2>0. UNCHANGED <<waiter, now, beatAt>>
      BY <1>2, ReaderEffect
    <2>1. ASSUME NEW s \in Stream, Takes(s) \/ Reports(s) \/ Closes(s)
          PROVE \/ last' = now /\ lineAt' = now
                \/ UNCHANGED <<last, lineAt>>
      BY <2>1 DEF Takes, Reports, Closes, history
    <2>2. LastIsHeard' /\ BeatIsHeard'
      BY <1>2, <1>f, <1>i, <2>0, <2>1, ReaderEffect, Zenon DEF LastIsHeard, BeatIsHeard
    <2>3. CASE last' = now
      <3>1. now' - last' < QuietAfter
        BY <1>t, <2>0, <2>3, TimesAreNat
      <3> QED
        BY <2>2, <3>1 DEF HeardInv, WaitIsShort
    <2>4. CASE last' = last
      BY <1>i, <2>0, <2>2, <2>4, Zenon DEF HeardInv, WaitIsShort
    <2> QED
      BY <1>2, <2>1, <2>3, <2>4, ReaderEffect
  <1>3. CASE Start
    <2>1. waiter = "start" /\ waiter' = "waiting" /\ UNCHANGED <<now, last, lineAt, beatAt>>
      BY <1>3 DEF Start, history
    <2>2. LastIsHeard' /\ BeatIsHeard'
      BY <1>f, <1>i, <2>1, Zenon DEF LastIsHeard, BeatIsHeard
    <2>3. now = 0
      BY <2>1 DEF ClockInv
    <2>4. last = 0
      BY <1>0, <2>3 DEF ClockRange
    <2>5. now' - last' < QuietAfter
      BY <2>1, <2>3, <2>4, TimesAreNat
    <2> QED
      BY <2>2, <2>5 DEF HeardInv, WaitIsShort
  <1>4. CASE CannotStart
    BY <1>4, <1>k DEF CannotStart, ReturnAs, history
  <1>5. CASE Poll \/ TimesOut
    <2>1. waiter # "beaten" /\ waiter' \notin {"beaten", "waiting"} /\ UNCHANGED <<last, lineAt, beatAt>>
      BY <1>5 DEF Poll, TimesOut, history
    <2> QED
      BY <1>f, <1>i, <2>1, Zenon DEF HeardInv, LastIsHeard, BeatIsHeard, WaitIsShort
  <1>6. CASE Hears
    <2>1. waiter = "woken" /\ waiter' = "waiting" /\ UNCHANGED <<now, last, lineAt, beatAt>> /\ ~Quiet
      BY <1>6 DEF Hears, OnlyWaiter, history
    <2>2. LastIsHeard' /\ BeatIsHeard'
      BY <1>f, <1>i, <2>1, Zenon DEF LastIsHeard, BeatIsHeard
    <2>3. now - last < QuietAfter
      BY <1>t, <2>1, TimesAreNat DEF Quiet
    <2> QED
      BY <2>1, <2>2, <2>3, Zenon DEF HeardInv, WaitIsShort
  <1>7. CASE SeesExit
    BY <1>7, <1>k DEF SeesExit, OnlyWaiter, history
  <1>8. CASE NoticesQuiet
    BY <1>8, <1>k DEF NoticesQuiet, history
  <1>9. CASE Beats
    <2>1. /\ waiter = "beating" /\ UNCHANGED <<now, last, lineAt>>
          /\ waiter # "beaten" /\ waiter' # "waiting"
          /\ waiter' = "beaten" => say'["waiter"] = "nothing"
      BY <1>9 DEF Beats
    <2>2. CASE Counts("waiter") /\ UNCHANGED beatAt
      <3>1. say'["waiter"] = RowFor(counted + 1) /\ counted' = counted + 1
        BY <1>0, <2>2 DEF Counts, LogTypes, Thread
      <3>2. RowFor(counted + 1) = "nothing" => counted + 1 > LogCap
        BY <1>0, BoundsAssumption DEF RowFor, LogTypes
      <3>3. waiter' = "beaten" => LogIsFull'
        BY <2>1, <3>1, <3>2 DEF LogIsFull
      <3>4. beatAt' = beatAt
        BY <2>2
      <3> QED
        BY <1>f, <1>i, <2>1, <3>3, <3>4, Zenon DEF HeardInv, LastIsHeard, BeatIsHeard, WaitIsShort
    <2>3. CASE Logs("waiter") /\ beatAt' = (IF say["waiter"] = "row" THEN now ELSE beatAt)
      <3>1. say["waiter"] = "row" \/ LogIsFull
        BY <2>3 DEF Logs, SayInv, Thread, LogIsFull
      <3>2. say' = [say EXCEPT !["waiter"] = "nothing"]
        BY <2>3 DEF Logs
      <3>3. waiter' = "beaten"
        BY <1>0, <1>9, <3>2 DEF Beats, LogTypes, Thread
      <3>4. now' = now
        BY <2>1
      <3>5. beatAt' = now' \/ LogIsFull'
        BY <1>f, <2>3, <3>1, <3>4, Zenon
      <3> QED
        BY <3>3, <3>5, Zenon DEF HeardInv, LastIsHeard, BeatIsHeard, WaitIsShort
    <2> QED
      BY <1>9, <2>2, <2>3 DEF Beats
  <1>10. CASE BeatRaises
    BY <1>10, <1>k DEF BeatRaises, history
  <1>11. CASE RecordsBeat
    <2>1. waiter = "beaten" /\ waiter' = "waiting" /\ last' = now /\ UNCHANGED <<now, lineAt, beatAt>>
      BY <1>11 DEF RecordsBeat, history
    <2>2. LastIsHeard' /\ BeatIsHeard'
      BY <1>f, <1>i, <2>1, Zenon DEF LastIsHeard, BeatIsHeard
    <2>3. now' - last' < QuietAfter
      BY <1>t, <2>1, TimesAreNat
    <2> QED
      BY <2>2, <2>3 DEF HeardInv, WaitIsShort
  <1>12. ASSUME NEW s \in Stream, Joined(s) \/ GivesUp(s) PROVE HeardInv'
    <2>1. UNCHANGED <<last, lineAt, beatAt>> /\ waiter # "beaten"
          /\ waiter' \in {"joining stderr", "returned"}
      BY <1>12, JoiningNames DEF Joined, GivesUp, AfterJoin, ReturnAs, Stream
    <2> QED
      BY <1>f, <1>i, <2>1, Zenon DEF HeardInv, LastIsHeard, BeatIsHeard, WaitIsShort
  <1>13. CASE UNCHANGED vars
    <2>1. UNCHANGED <<waiter, now, last, lineAt, beatAt>>
      BY <1>13 DEF vars, history
    <2> QED
      BY <1>f, <1>i, <2>1, Zenon DEF HeardInv, LastIsHeard, BeatIsHeard, WaitIsShort
  <1> QED
    BY <1>1, <1>2, <1>3, <1>4, <1>5, <1>6, <1>7, <1>8, <1>9, <1>10, <1>11, <1>12, <1>13
       DEF Next, WaiterStep

-----------------------------------------------------------------------------
(***************************************************************************)
(* What _run and the lane make of the output that was taken.               *)
(***************************************************************************)

\* The tables of exit codes.
LEMMA Codes ==
  ASSUME NEW c \in ExitCode
  PROVE  /\ interpret(c) \in Outcome
         /\ interpret(c) = "ok" => c = "0"
         /\ interpret(c) = "halt" => c \in {"1", "3", "odd"}
         /\ interpret(c) = "blocked" => session
         /\ interpret("2") = "retry"
  <1>1. /\ General["0"] = "ok" /\ General["2"] = "retry" /\ General["signal"] = "retry"
        /\ General["1"] = "halt" /\ General["3"] = "halt" /\ General["odd"] = "halt"
    BY DEF General, ExitCode
  <1>2. General = [d \in ExitCode |-> General[d]]
    BY DEF General
  <1>3. /\ Session["0"] = "ok" /\ Session["2"] = "retry" /\ Session["signal"] = "retry"
        /\ Session["1"] = "blocked" /\ Session["3"] = "blocked" /\ Session["odd"] = "halt"
    BY <1>1, <1>2 DEF Session, ExitCode
  <1> QED
    BY <1>1, <1>3 DEF interpret, ExitCode, Outcome

\* The output the waiter reads is what the reader has put into out or err by then.
LEMMA WhatIsRead ==
  ASSUME TypeOK, NEW s \in Stream
  PROVE  Len(Sink(s)) = taken[s] /\ \A i \in 1 .. taken[s] : Sink(s)[i] = written[s][i]
  <1>1. /\ written[s] \in Seq(Event \cup Noise)
        /\ taken[s] \in 0 .. Len(written[s])
    BY TypeParts DEF ProcessTypes, Stream, Out, Err
  <1> QED
    BY <1>1 DEF Sink

\* stage_progress, by the lines it is told by.
LEMMA DoneByLine ==
  ASSUME NEW out, NEW k
  PROVE  k \in Done(out) <=> k # 0 /\ \E i \in 1 .. Len(out) : out[i].ok /\ out[i].key = k
  BY Zenon DEF Done

LEMMA FailedByLine ==
  ASSUME NEW out
  PROVE  \/ Failed(out) = 0
         \/ Failed(out) # 0 /\ \E i \in 1 .. Len(out) : ~out[i].ok /\ out[i].key = Failed(out)
  <1> DEFINE first == {i \in NamedFailures(out) : \A j \in NamedFailures(out) : i <= j}
  <1>1. CASE first = {}
    BY <1>1 DEF Failed
  <1>2. CASE first # {}
    <2>1. PICK i \in first : Failed(out) = out[i].key
      BY <1>2, Zenon DEF Failed
    <2>2. i \in NamedFailures(out)
      BY <2>1, Zenon
    <2> QED
      BY <2>1, <2>2, Zenon DEF NamedFailures
  <1> QED
    BY <1>1, <1>2

\* The stages that the output taken so far says are done or failed.
LEMMA TakenDone ==
  ASSUME TypeOK, NEW k
  PROVE  k \in Done(Sink("stdout")) <=>
           k # 0 /\ \E i \in 1 .. taken["stdout"] : Out[i].ok /\ Out[i].key = k
  <1>1. Len(Sink("stdout")) = taken["stdout"]
        /\ \A i \in 1 .. taken["stdout"] : Sink("stdout")[i] = Out[i]
    BY WhatIsRead DEF Stream, Out
  <1>2. k \in Done(Sink("stdout")) <=>
          k # 0 /\ \E i \in 1 .. Len(Sink("stdout")) :
                     Sink("stdout")[i].ok /\ Sink("stdout")[i].key = k
    BY DoneByLine, Zenon
  <1>3. ASSUME NEW i \in 1 .. taken["stdout"]
        PROVE  /\ Sink("stdout")[i].ok <=> Out[i].ok
               /\ Sink("stdout")[i].key = Out[i].key
    BY <1>1, <1>3, Zenon
  <1> QED
    BY <1>1, <1>2, <1>3, Zenon

LEMMA TakenFailed ==
  ASSUME TypeOK, Failed(Sink("stdout")) # 0
  PROVE  \E i \in 1 .. taken["stdout"] : ~Out[i].ok /\ Out[i].key = Failed(Sink("stdout"))
  <1>1. Len(Sink("stdout")) = taken["stdout"]
        /\ \A i \in 1 .. taken["stdout"] : Sink("stdout")[i] = Out[i]
    BY WhatIsRead DEF Stream, Out
  <1> QED
    BY <1>1, FailedByLine, Zenon

-----------------------------------------------------------------------------
(***************************************************************************)
(* The end of the call.                                                    *)
(***************************************************************************)

\* The chain's own items never say more than what is so: a stage told to be done took
\* effect, and where the output tells of the failing stage, the rest is known.
LEMMA TakenIsSo ==
  ASSUME TypeOK, ChainInv
  PROVE  /\ Done(Sink("stdout")) \subseteq completed \cup Mistaken(TRUE)
         /\ Failed(Sink("stdout")) # 0 /\ Mistaken(FALSE) = {} =>
              completed \ Done(Sink("stdout")) \subseteq {Failed(Sink("stdout"))}
  <1>n. /\ taken["stdout"] \in 0 .. Len(Out) /\ Len(Out) \in Nat
        /\ \A i \in 1 .. Len(Out) :
             Out[i].stage \in 0 .. Stages /\ (Out[i].stage # 0 => Out[i].key = Out[i].stage)
        /\ \A i \in 1 .. Len(Out) : Out[i].ok \in BOOLEAN
    <2>1. \A e \in Event : e.ok \in BOOLEAN
      BY DEF Event
    <2> QED
      BY <2>1, OnTheStreams DEF TypeOK, Stream, Out
  <1>m. \A i \in 1 .. taken["stdout"] : i \in 1 .. Len(Out)
    BY <1>n
  <1>1. ASSUME NEW k \in Done(Sink("stdout")) PROVE k \in completed \cup Mistaken(TRUE)
    <2>1. PICK i \in 1 .. taken["stdout"] : Out[i].ok /\ Out[i].key = k
      BY <1>1, TakenDone
    <2>2. k # 0 /\ i \in 1 .. Len(Out)
      BY <1>1, <1>m, TakenDone
    <2>3. CASE Out[i].stage = 0
      <3>1. Out[i].ok = TRUE
        BY <1>n, <2>1, <2>2
      <3>2. k \in Mistaken(TRUE)
        BY <2>1, <2>2, <2>3, <3>1, MistakenByLine, Zenon
      <3> QED
        BY <3>2
    <2>4. CASE Out[i].stage # 0
      <3>1. Out[i].stage = k
        BY <1>n, <2>1, <2>2, <2>4
      <3>2. k \in completed
        BY <2>1, <2>2, <2>4, <3>1, Zenon DEF ChainInv
      <3> QED
        BY <3>2
    <2> QED
      BY <2>3, <2>4
  <1>2. ASSUME Failed(Sink("stdout")) # 0, Mistaken(FALSE) = {}, NEW k \in completed, k # Failed(Sink("stdout"))
        PROVE  k \in Done(Sink("stdout"))
    <2>0. PICK i \in 1 .. taken["stdout"] : ~Out[i].ok /\ Out[i].key = Failed(Sink("stdout"))
      BY <1>2, TakenFailed
    <2>a. Out[i].stage # 0
      <3>1. i \in 1 .. Len(Out)
        BY <1>m
      <3>2. Out[i].ok = FALSE
        BY <1>n, <2>0, <3>1
      <3> QED
        BY <1>2, <2>0, <3>1, <3>2, MistakenByLine, Zenon
    <2>1. ~Out[i].ok /\ Out[i].stage = Failed(Sink("stdout"))
      BY <1>m, <1>n, <2>0, <2>a
    <2> DEFINE f == Out[i].stage
    <2>2. /\ \A j \in completed : j <= f
          /\ \A j \in 1 .. (f - 1) : ToldBy(i - 1, j)
      BY <1>2, <1>m, <2>1, Zenon DEF ChainInv
    <2>3. k \in 1 .. (f - 1)
      <3>1. k \in 1 .. Stages
        BY <1>2 DEF TypeOK
      <3>2. f \in 0 .. Stages /\ k # f
        BY <1>2, <1>m, <1>n, <2>1
      <3>3. k <= f
        BY <1>2, <2>2
      <3> HIDE DEF f
      <3> QED
        BY <3>1, <3>2, <3>3, StagesAssumption
    <2>4. PICK h \in 1 .. (i - 1) : Out[h].stage = k /\ Out[h].ok
      BY <2>2, <2>3, Zenon DEF ToldBy
    <2>5. h \in 1 .. taken["stdout"] /\ k # 0
      BY <1>n, <2>3, <2>1, <2>4
    <2>6. Out[h].key = k
      BY <1>m, <1>n, <2>4, <2>5
    <2> QED
      BY <2>4, <2>5, <2>6, TakenDone, Zenon
  <1> QED
    BY <1>1, <1>2

\* Of a chain all of whose lines were taken, one stage at most is in doubt.
LEMMA AllTakenIsAllTold ==
  ASSUME TypeOK, ChainInv, taken["stdout"] = Len(Out)
  PROVE  \A j, k \in completed \ Done(Sink("stdout")) : j = k
  <1>1. \A k \in completed : k \in 1 .. Stages
    BY DEF TypeOK
  <1>2. ASSUME NEW j \in completed, NEW k \in completed, j < k
        PROVE  j \in Done(Sink("stdout"))
    <2>1. j \in 1 .. (k - 1)
      BY <1>1, <1>2, StagesAssumption
    <2>2. PICK h \in 1 .. Len(Out) : Out[h].stage = j /\ Out[h].ok
      BY <1>2, <2>1, Zenon DEF ChainInv, ToldBy
    <2>3. j # 0
      BY <2>1
    <2>4. Out[h].key = j
      BY <2>2, <2>3, OnTheStreams
    <2> QED
      BY <2>2, <2>3, <2>4, TakenDone, Zenon
  <1> SUFFICES ASSUME NEW j \in completed, NEW k \in completed, j # k
               PROVE  j \in Done(Sink("stdout")) \/ k \in Done(Sink("stdout"))
    BY Zenon
  <1>3. j < k \/ k < j
    BY <1>1, StagesAssumption
  <1> QED
    BY <1>2, <1>3

\* What the waiter returns is earned, whichever way it came to return.
LEMMA ReturnEarns ==
  ASSUME TypeOK, ToolInv, ChainInv, NEW code \in ExitCode, ReturnAs(code),
         UNCHANGED <<session, tool, completed, written>>,
         tool # "running", code = tool \/ code = "2",
         left' = {} => taken["stdout"] = Len(Out)
  PROVE  ResultTypes' /\ VerdictIsEarned' /\ SafeRetry' /\ DoubtIsOneStage'
  <1> DEFINE out == Sink("stdout")
             err == Sink("stderr")
  <1>r. /\ waiter' = "returned"
        /\ result' = [outcome |-> OutcomeOf(code, err), done |-> Done(out), failed |-> Failed(out)]
    BY DEF ReturnAs
  <1>f. result'.outcome = OutcomeOf(code, err) /\ result'.done = Done(out)
        /\ result'.failed = Failed(out)
    BY <1>r
  <1>1. usage_error(err) => Refused
    <2> SUFFICES ASSUME NEW i \in 1 .. Len(err), err[i] = "usage" PROVE Refused
      BY DEF usage_error
    <2>1. Len(err) = taken["stderr"] /\ \A j \in 1 .. taken["stderr"] : err[j] = Err[j]
      BY WhatIsRead DEF Stream, Err
    <2>2. taken["stderr"] \in 0 .. Len(Err) /\ Len(Err) \in Nat
      BY OnTheStreams DEF TypeOK, Stream, Err
    <2>3. i \in 1 .. Len(Err) /\ Err[i] = "usage"
      BY <2>1, <2>2
    <2> QED
      BY <2>3, OnTheStreams
  <1>2. /\ OutcomeOf(code, err) \in Outcome
        /\ OutcomeOf(code, err) = "ok" => code = "0"
        /\ OutcomeOf(code, err) = "halt" => code \in {"1", "3", "odd"} \/ Refused
        /\ OutcomeOf(code, err) = "blocked" => session
    BY <1>1, Codes DEF OutcomeOf, Outcome
  <1>3. Done(out) \subseteq completed \cup Mistaken(TRUE)
    BY TakenIsSo
  <1>m. Mistaken(TRUE)' = Mistaken(TRUE) /\ Mistaken(FALSE)' = Mistaken(FALSE)
        /\ Mistaken(TRUE) \subseteq 1 .. Stages
    <2>1. Printed("stdout")' = Printed("stdout")
      BY DEF Printed
    <2>2. Mistaken(TRUE)' = Mistaken(TRUE) /\ Mistaken(FALSE)' = Mistaken(FALSE)
      BY <2>1, Zenon DEF Mistaken
    <2>3. ASSUME NEW k \in Mistaken(TRUE) PROVE k \in 1 .. Stages
      <3>1. PICK i \in 1 .. Len(Out) : Out[i].key = k
        BY <2>3, MistakenByLine
      <3>2. k # 0
        BY <2>3, MistakenByLine
      <3> QED
        BY <3>1, <3>2, OnTheStreams, StagesAssumption
    <2> QED
      BY <2>2, <2>3
  <1>4. Failed(out) \in 0 .. Stages
    <2>1. CASE Failed(out) = 0
      BY <2>1, StagesAssumption
    <2>2. CASE Failed(out) # 0
      <3>1. PICK i \in 1 .. taken["stdout"] : Out[i].key = Failed(out)
        BY <2>2, TakenFailed
      <3>2. i \in 1 .. Len(Out)
        BY <3>1, OnTheStreams DEF TypeOK, Stream, Out
      <3> QED
        BY <3>1, <3>2, OnTheStreams
    <2> QED
      BY <2>1, <2>2
  <1> HIDE DEF out, err
  <1>5. ResultTypes'
    <2>1. Done(out) \in SUBSET (1 .. Stages)
      BY <1>3, <1>m DEF TypeOK
    <2> QED
      BY <1>r, <1>2, <1>4, <2>1 DEF ResultTypes, Result
  <1>6. VerdictIsEarned'
    <2>1. Refused' = Refused /\ tool' = tool /\ session' = session /\ completed' = completed
      BY DEF Refused, Printed
    <2>2. OutcomeOf(code, err) = "ok" => tool = "0" /\ (session \/ completed = 1 .. Stages)
      BY <1>2, Zenon DEF ToolInv
    <2>3. OutcomeOf(code, err) = "halt" => tool \in {"1", "3", "odd"} \/ Refused
      BY <1>2
    <2> QED
      BY <1>f, <1>2, <2>1, <2>2, <2>3 DEF VerdictIsEarned
  <1>7. SafeRetry'
    <2> SUFFICES ASSUME Failed(out) \in Replayable, Mistaken(FALSE) = {}
                 PROVE  completed \ Done(out) \subseteq Replayable
      BY <1>f, <1>m DEF SafeRetry, RepeatsSafely, stage_retryable
    <2>1. Failed(out) # 0
      BY StagesAssumption
    <2> QED
      BY <2>1, TakenIsSo DEF out
  <1>8. DoubtIsOneStage'
    BY <1>f, <1>3, <1>m, AllTakenIsAllTold DEF DoubtIsOneStage, out
  <1> QED
    BY <1>5, <1>6, <1>7, <1>8

\* Once the waiter has returned, what it returned and what it was about stay as they are.
LEMMA AfterReturn ==
  ASSUME TypeOK, ToolInv, waiter = "returned", [Next]_vars
  PROVE  UNCHANGED <<session, tool, completed, written, waiter, left, result>>
  <1>0. tool # "running"
    BY DEF ToolInv
  <1>1. CASE ToolStep
    <2>1. UNCHANGED <<session, waiter, left, result>>
      BY <1>1, ToolEffect DEF history
    <2> QED
      BY <1>0, <1>1, <2>1, ToolEffect DEF AtWork, MayPrint
  <1>2. CASE ReaderStep
    BY <1>2, ReaderEffect DEF process
  <1>3. CASE WaiterStep
    BY <1>3, WaiterPath
  <1>4. CASE UNCHANGED vars
    BY <1>4 DEF vars, process, history
  <1> QED
    BY <1>1, <1>2, <1>3, <1>4 DEF Next

\* A verdict is earned when it is given, and stays so.
LEMMA ResultPreserved ==
  TypeOK /\ ShapeInv /\ ToolInv /\ ChainInv /\ ReaderInv /\ VerdictIsEarned /\ SafeRetry
    /\ DoubtIsOneStage /\ [Next]_vars
  => ResultTypes' /\ VerdictIsEarned' /\ SafeRetry' /\ DoubtIsOneStage'
  <1> SUFFICES ASSUME TypeOK, ShapeInv, ToolInv, ChainInv, ReaderInv, VerdictIsEarned, SafeRetry,
                      DoubtIsOneStage, [Next]_vars
               PROVE  ResultTypes' /\ VerdictIsEarned' /\ SafeRetry' /\ DoubtIsOneStage'
    OBVIOUS
  <1>0. ResultTypes
    BY TypeParts
  <1>1. CASE waiter = "returned"
    <2>1. UNCHANGED <<session, tool, completed, written, waiter, left, result>>
      BY <1>1, AfterReturn
    <2>2. Refused' = Refused /\ Mistaken(TRUE)' = Mistaken(TRUE)
          /\ Mistaken(FALSE)' = Mistaken(FALSE)
      <3>1. \A s \in Stream : Printed(s)' = Printed(s)
        BY <2>1 DEF Printed
      <3> QED
        BY <3>1, Zenon DEF Refused, Mistaken, Stream
    <2> QED
      BY <1>0, <2>1, <2>2, Zenon
      DEF ResultTypes, VerdictIsEarned, SafeRetry, RepeatsSafely, DoubtIsOneStage
  <1>2. CASE waiter' # "returned" /\ UNCHANGED result
    BY <1>0, <1>2 DEF ResultTypes, VerdictIsEarned, SafeRetry, RepeatsSafely, DoubtIsOneStage
  <1>3. CASE CannotStart
    <2>1. ReturnAs("2") /\ UNCHANGED process /\ waiter = "start"
      BY <1>3 DEF CannotStart
    <2>2. tool = "none" /\ Out = <<>>
      BY <2>1 DEF ToolInv
    <2>3. taken["stdout"] = Len(Out)
      BY <2>2 DEF TypeOK, Stream, Out
    <2> QED
      BY <2>1, <2>2, <2>3, ReturnEarns DEF process, ExitCode
  <1>4. ASSUME waiter = "joining stderr", NEW s \in Stream, Joined(s) \/ GivesUp(s)
        PROVE  ResultTypes' /\ VerdictIsEarned' /\ SafeRetry' /\ DoubtIsOneStage'
    <2>1. ReturnAs(IF killing THEN "2" ELSE tool) /\ UNCHANGED process /\ left \subseteq left'
      BY <1>4, JoiningNames DEF Joined, GivesUp, AfterJoin, Stream
    <2>2. tool \in ExitCode /\ tool # "running"
      BY <1>4 DEF ToolInv, TypeOK, ExitCode
    <2>3. left' = {} => taken["stdout"] = Len(Out)
      BY <1>4, <2>1 DEF ReaderInv, Stream, Out
    <2>4. CASE killing
      BY <2>1, <2>2, <2>3, <2>4, ReturnEarns DEF process, ExitCode
    <2>5. CASE ~killing
      BY <2>1, <2>2, <2>3, <2>5, ReturnEarns DEF process, ExitCode
    <2> QED
      BY <2>4, <2>5
  <1>5. \/ waiter = "returned" \/ (waiter' # "returned" /\ UNCHANGED result) \/ CannotStart
        \/ waiter = "joining stderr" /\ \E s \in Stream : Joined(s) \/ GivesUp(s)
    <2>1. CASE ToolStep
      BY <2>1, ToolEffect
    <2>2. CASE ReaderStep
      BY <2>2, ReaderEffect
    <2>3. CASE WaiterStep
      <3>1. CASE Start \/ Poll \/ TimesOut \/ Hears \/ NoticesQuiet
        BY <3>1 DEF Start, Poll, TimesOut, Hears, NoticesQuiet, OnlyWaiter
      <3>2. CASE Beats \/ BeatRaises \/ RecordsBeat \/ SeesExit
        BY <3>2 DEF Beats, BeatRaises, RecordsBeat, SeesExit, OnlyWaiter
      <3>3. ASSUME NEW s \in Stream, Joined(s) \/ GivesUp(s)
            PROVE  waiter = "joining stderr" \/ (waiter' # "returned" /\ UNCHANGED result)
        BY <3>3, JoiningNames DEF Joined, GivesUp, AfterJoin, Stream
      <3> QED
        BY <2>3, <3>1, <3>2, <3>3 DEF WaiterStep
    <2>4. CASE UNCHANGED vars
      BY <2>4 DEF vars
    <2> QED
      BY <2>1, <2>2, <2>3, <2>4 DEF Next
  <1> QED
    BY <1>1, <1>2, <1>3, <1>4, <1>5

-----------------------------------------------------------------------------
(***************************************************************************)
(* The theorems.                                                           *)
(***************************************************************************)

LEMMA CallStarts == Init => CallInv
  <1> SUFFICES ASSUME Init PROVE CallInv
    OBVIOUS
  <1>1. /\ tool = "none" /\ completed = {} /\ waiter = "start" /\ session \in BOOLEAN
        /\ browser = FALSE /\ killing = FALSE /\ left = {} /\ result = NoResult
        /\ written = [s \in Stream |-> <<>>] /\ taken = [s \in Stream |-> 0]
        /\ reader = [s \in Stream |-> "reading"] /\ say = [t \in Thread |-> "nothing"]
        /\ now = 0 /\ last = 0 /\ lineAt = 0 /\ beatAt = 0
        /\ counted = 0 /\ rows = 0 /\ cuts = 0 /\ raises = 0
    BY DEF Init
  <1>2. Out = <<>> /\ Err = <<>> /\ taken["stdout"] = 0 /\ taken["stderr"] = 0
        /\ \A t \in Thread : say[t] = "nothing"
        /\ \A s \in Stream : reader[s] = "reading"
    BY <1>1 DEF Out, Err, Stream
  <1>3. TypeOK
    <2>1. ProcessTypes
      <3>1. \A s \in Stream : taken[s] \in 0 .. Len(written[s])
        <4> SUFFICES ASSUME NEW s \in Stream PROVE taken[s] \in 0 .. Len(written[s])
          OBVIOUS
        <4>1. taken[s] = 0 /\ written[s] = <<>>
          BY <1>1
        <4> QED
          BY <4>1
      <3>2. Out \in Seq(Event) /\ Err \in Seq(Noise)
        BY <1>2
      <3> QED
        BY <1>1, <3>1, <3>2 DEF ProcessTypes
    <2>2. ControlTypes
      BY <1>1 DEF ControlTypes
    <2>3. ClockTypes
      BY <1>1, TimesAreNat, ClockValues DEF ClockRange
    <2>4. LogTypes
      BY <1>1, BoundsAssumption DEF LogTypes
    <2>5. ResultTypes
      BY <1>1 DEF ResultTypes
    <2> QED
      BY <2>1, <2>2, <2>3, <2>4, <2>5, TypeParts
  <1>4. ShapeInv /\ ToolInv
    BY <1>1, <1>2 DEF ShapeInv, ToolInv
  <1>5. ChainInv
    BY <1>1, <1>2 DEF ChainInv
  <1>6. ReaderInv /\ SayInv
    BY <1>1, <1>2 DEF ReaderInv, SayInv, Thread
  <1>7. LogInv
    <2>1. Saying("row") = 0 /\ Saying("cut") = 0
      BY <1>2 DEF Saying, Thread, Stream
    <2> QED
      BY <1>1, <2>1, BoundsAssumption DEF LogInv
  <1>8. ClockInv /\ HeardInv
    BY <1>1, TimesAreNat DEF ClockInv, HeardInv, LastIsHeard, BeatIsHeard, WaitIsShort
  <1>9. VerdictIsEarned /\ SafeRetry /\ DoubtIsOneStage
    BY <1>1 DEF VerdictIsEarned, SafeRetry, RepeatsSafely, DoubtIsOneStage
  <1> QED
    BY <1>3, <1>4, <1>5, <1>6, <1>7, <1>8, <1>9 DEF CallInv

LEMMA CallContinues == CallInv /\ [Next]_vars => CallInv'
  <1> SUFFICES ASSUME CallInv, [Next]_vars PROVE CallInv'
    OBVIOUS
  <1>0. /\ TypeOK /\ ShapeInv /\ ToolInv /\ ChainInv /\ ReaderInv /\ SayInv /\ LogInv
        /\ ClockInv /\ HeardInv /\ VerdictIsEarned /\ SafeRetry /\ DoubtIsOneStage
    BY DEF CallInv
  <1>1. ProcessTypes' /\ ShapeInv'
    BY <1>0, ProcessTypesPreserved
  <1>2. ControlTypes'
    BY <1>0, ControlPreserved
  <1>3. ClockInv' /\ ClockTypes'
    BY <1>0, ClockPreserved
  <1>4. LogTypes' /\ LogInv'
    BY <1>0, LogPreserved
  <1>5. ResultTypes' /\ VerdictIsEarned' /\ SafeRetry' /\ DoubtIsOneStage'
    BY <1>0, ResultPreserved
  <1>6. TypeOK'
    BY <1>1, <1>2, <1>3, <1>4, <1>5, TypeParts
  <1>7. ToolInv' /\ ChainInv' /\ ReaderInv'
    BY <1>0, ToolPreserved, ChainPreserved, ReaderPreserved
  <1>8. SayInv' /\ HeardInv'
    BY <1>0, SayPreserved, HeardPreserved
  <1> QED
    BY <1>1, <1>3, <1>4, <1>5, <1>6, <1>7, <1>8 DEF CallInv

\* The invariant of the call holds in every state of it, however the tool, the two
\* readers and the waiter of run_streamed interleave.
THEOREM CallInvariance == Spec => []CallInv
  <1>1. Init => CallInv
    BY CallStarts
  <1>2. CallInv /\ [Next]_vars => CallInv'
    BY CallContinues
  <1> QED
    BY <1>1, <1>2, PTL DEF Spec

\* Whatever the threads do, the call is well typed; its log has at most LOG_CAP rows and
\* one cut (Reporter), and it is over by its timeout and a limit for each reader.
THEOREM CallTypes == Spec => []TypeOK
  BY CallInvariance, PTL DEF CallInv

\* What _run says of a call is so (run_streamed, interpret, usage_error).
THEOREM AVerdictIsEarned == Spec => []VerdictIsEarned
  BY CallInvariance, PTL DEF CallInv

\* A chain is repeated by itself only where that is safe, unless the failed item of
\* another tool is taken for a stage (stage_progress, stage_retryable).
THEOREM ARetryIsSafe == Spec => []SafeRetry
  BY CallInvariance, PTL DEF CallInv

\* A resume skips only what took effect or an item of another tool was taken for, and one
\* stage at most is in doubt when both readers came to their end (stage_progress, run_streamed).
THEOREM OneStageIsInDoubt == Spec => []DoubtIsOneStage
  BY CallInvariance, PTL DEF CallInv

\* While the waiter waits, the log has been heard from within QUIET_AFTER or has said
\* that it is full; and it is cut exactly where LOG_CAP says (run_streamed, Reporter).
THEOREM ASilenceIsExplained == Spec => []SilenceIsExplained
  <1>1. CallInv => SilenceIsExplained
    <2> SUFFICES ASSUME CallInv PROVE SilenceIsExplained
      OBVIOUS
    <2>0. LogInv /\ HeardInv /\ ClockRange /\ LogTypes
      BY TypeParts, ClockValues DEF CallInv
    <2>1. CutIsAnnounced
      <3> SUFFICES ASSUME raises = 0, \A t \in Thread : say[t] = "nothing"
                   PROVE  /\ rows = IF counted <= LogCap THEN counted ELSE LogCap
                          /\ cuts = IF counted <= LogCap THEN 0 ELSE 1
        BY DEF CutIsAnnounced
      <3>1. Saying("row") = 0 /\ Saying("cut") = 0
        BY DEF Saying, Thread, Stream
      <3> QED
        BY <2>0, <3>1 DEF LogInv, LogTypes
    <2>2. ASSUME waiter = "waiting"
          PROVE  now - lineAt < QuietAfter \/ now - beatAt < QuietAfter \/ LogIsFull
      <3>1. last = lineAt \/ last = beatAt \/ LogIsFull
        BY <2>0, <2>2 DEF HeardInv, LastIsHeard
      <3>2. now - last < QuietAfter
        BY <2>0, <2>2 DEF HeardInv, WaitIsShort
      <3> QED
        BY <3>1, <3>2
    <2> QED
      BY <2>1, <2>2 DEF SilenceIsExplained, LogIsFull
  <1> QED
    BY <1>1, CallInvariance, PTL
=============================================================================
