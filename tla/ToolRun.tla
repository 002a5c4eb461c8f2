-------------------------------- MODULE ToolRun --------------------------------
(***************************************************************************)
(* One invocation of a Scraper tool (maestro/scraper.py, run_streamed and  *)
(* _run) with what the lane reads out of it (electicode_lane.py).  Three   *)
(* threads of Maestro work on it: the waiter, which polls the process and  *)
(* kills it at its timeout, and a reader for each of the two streams.  All *)
(* three report through one Reporter into the run's log.                   *)
(*                                                                         *)
(* The tool is external: a chain of stages in order, each of which takes   *)
(* effect and is then reported by an event on stdout, or fails, with or    *)
(* without effect, and ends the chain.  It may print nothing, hang, crash, *)
(* or leave the browser it started, which holds both streams open.  The    *)
(* clock counts polls: the waiter is the only thread that waits for time.  *)
(***************************************************************************)
EXTENDS Integers, Sequences, FiniteSets

CONSTANTS
  Stages,      \* how many stages the tool has to run
  Replayable,  \* the stages that survive being run twice (_REPLAYABLE)
  Timeout,     \* the timeout of the call, in polls
  QuietAfter,  \* QUIET_AFTER, in polls
  JoinLimit,   \* how long a reader that goes on reading is waited for, in polls
  LogCap,      \* LOG_CAP: the rows one invocation may add to the log
  MaxNoise,    \* bound: lines besides the events of the chain, on both streams
  MaxRaises    \* bound: log calls that raise

ASSUME StagesAssumption == Stages \in Nat /\ Replayable \in SUBSET (1 .. Stages)
ASSUME TimesAssumption == {Timeout, QuietAfter, JoinLimit} \in SUBSET (Nat \ {0})
ASSUME BoundsAssumption == LogCap \in Nat /\ MaxNoise \in Nat /\ MaxRaises \in Nat

VARIABLES
  session,   \* is this the session check, whose exit codes mean other things?
  tool,      \* the process: not yet started, running, or the exit code Popen has
  browser,   \* is the browser the tool started alive?
  completed, \* history: the stages that took effect
  written,   \* the lines the tool wrote to each stream
  taken,     \* how many of them the reader has put into out or err
  reader,    \* where each reader is
  waiter,    \* where run_streamed is
  now,       \* the clock, in polls since the start
  last,      \* last[0]: when something was last heard
  killing,   \* did the waiter kill the tool at its timeout?
  left,      \* history: the readers the waiter stopped waiting for
  counted,   \* Reporter._n
  say,       \* what each thread is about to write to the log
  rows,      \* history: rows written to the log
  cuts,      \* history: rows that announce that the rest is suppressed
  raises,    \* history: log calls that raised
  lineAt,    \* history: when a line was last taken
  beatAt,    \* history: when a heartbeat last reached the log
  result     \* what _run returned

process  == <<session, tool, browser, completed, written>>
streams  == <<taken, reader>>
reporter == <<counted, say, rows, cuts, raises>>
history  == <<left, lineAt, beatAt>>
vars     == <<process, streams, waiter, now, last, killing, reporter, history, result>>

Stream == {"stdout", "stderr"}
Thread == Stream \cup {"waiter"}

\* An exit code, or the class of it: "signal" is a code that killed() knows, in
\* any of its three encodings, and "odd" one that no table has.
ExitCode == {"0", "1", "2", "3", "signal", "odd"}

\* An item event: the stage of the chain that prints it, 0 for a tool the chain calls,
\* and the stage stage_key takes it for, 0 for none.  The chain names its stages right,
\* by key or by a name in _STAGE_KEYS; a tool it calls names problems, and a problem may
\* be called "translate".
Event == {e \in [stage : 0 .. Stages, key : 0 .. Stages, ok : BOOLEAN] :
            e.stage # 0 => e.key = e.stage}
Noise == {"noise", "usage"}

Outcome  == {"ok", "retry", "halt", "blocked"}
NoResult == [outcome |-> "none"]
Result   == [outcome : Outcome, done : SUBSET (1 .. Stages), failed : 0 .. Stages]

Joining == [s \in Stream |-> IF s = "stdout" THEN "joining stdout" ELSE "joining stderr"]

\* Well typed; the log has no more than LOG_CAP rows and one cut of this call.
TypeOK ==
  /\ session \in BOOLEAN
  /\ tool \in {"none", "running"} \cup ExitCode
  /\ browser \in BOOLEAN
  /\ completed \in SUBSET (1 .. Stages)
  /\ written["stdout"] \in Seq(Event) /\ written["stderr"] \in Seq(Noise)
  /\ \A s \in Stream : taken[s] \in 0 .. Len(written[s])
  /\ reader \in [Stream -> {"reading", "reporting", "closed"}]
  /\ waiter \in {"start", "waiting", "woken", "beating", "beaten", "returned", "raised"}
                \cup {Joining[s] : s \in Stream}
  /\ now \in 0 .. Timeout + 2 * JoinLimit
  /\ last \in 0 .. now /\ lineAt \in 0 .. now /\ beatAt \in 0 .. now
  /\ killing \in BOOLEAN /\ left \in SUBSET Stream
  /\ counted \in Nat
  /\ say \in [Thread -> {"nothing", "uncounted", "row", "cut"}]
  /\ rows \in 0 .. LogCap /\ cuts \in {0, 1} /\ raises \in 0 .. MaxRaises
  /\ result \in {NoResult} \cup Result

Init ==
  /\ session \in BOOLEAN
  /\ tool = "none" /\ browser = FALSE /\ completed = {}
  /\ written = [s \in Stream |-> <<>>]
  /\ taken = [s \in Stream |-> 0] /\ reader = [s \in Stream |-> "reading"]
  /\ waiter = "start" /\ now = 0 /\ last = 0 /\ killing = FALSE /\ left = {}
  /\ counted = 0 /\ say = [t \in Thread |-> "nothing"]
  /\ rows = 0 /\ cuts = 0 /\ raises = 0
  /\ lineAt = 0 /\ beatAt = 0
  /\ result = NoResult

-----------------------------------------------------------------------------
(***************************************************************************)
(* The tool and its browser, as far as the code relies on them.            *)
(***************************************************************************)

OnlyProcess == UNCHANGED <<session, streams, waiter, now, last, killing, reporter, history, result>>

Printed(s) == {written[s][i] : i \in 1 .. Len(written[s])}
Chain      == {e \in Printed("stdout") : e.stage # 0}
Reported   == {e.stage : e \in Chain}
Broken     == \E e \in Chain : ~e.ok
Refused    == "usage" \in Printed("stderr")

\* The tool is at its k-th stage.
AtWork(k) ==
  /\ tool = "running" /\ ~session /\ ~Broken /\ ~Refused
  /\ k \notin Reported /\ 1 .. (k - 1) \subseteq Reported

StageRuns(k) ==
  /\ AtWork(k) /\ k \notin completed
  /\ completed' = completed \cup {k}
  /\ UNCHANGED <<tool, browser, written>> /\ OnlyProcess

Prints(s, line) ==
  /\ tool = "running" /\ written' = [written EXCEPT ![s] = Append(@, line)]
  /\ UNCHANGED <<tool, browser, completed>> /\ OnlyProcess

StageReports(k, ok) ==
  /\ AtWork(k) /\ (ok => k \in completed)
  /\ Prints("stdout", [stage |-> k, key |-> k, ok |-> ok])

NoiseSoFar ==
  Cardinality({i \in 1 .. Len(written["stdout"]) : written["stdout"][i].stage = 0})
    + Len(written["stderr"])

PrintsElse ==
  /\ NoiseSoFar < MaxNoise
  /\ \/ /\ \E k \in 1 .. Stages : AtWork(k)
        /\ \E key \in 0 .. Stages, ok \in BOOLEAN :
             Prints("stdout", [stage |-> 0, key |-> key, ok |-> ok])
     \/ Prints("stderr", "noise")

\* argparse looks at the arguments before anything else happens.
Refuses ==
  /\ written = [s \in Stream |-> <<>>] /\ completed = {} /\ ~browser
  /\ Prints("stderr", "usage")

OpensBrowser ==
  /\ tool = "running" /\ ~Refused /\ ~browser /\ browser' = TRUE
  /\ UNCHANGED <<tool, completed, written>> /\ OnlyProcess

\* It exits 0 when all it had to do is done, and may fail at any time; killed
\* from outside it leaves its browser behind.
Exits(code) ==
  /\ tool = "running"
  /\ code = "0" => session \/ (Reported = 1 .. Stages /\ ~Broken)
  /\ code = "3" => session
  /\ Refused => code \in {"2", "signal"}
  /\ tool' = code
  /\ \/ browser' = FALSE
     \/ code = "signal" /\ UNCHANGED browser
  /\ UNCHANGED <<completed, written>> /\ OnlyProcess

BrowserEnds ==
  /\ tool \in ExitCode /\ browser /\ browser' = FALSE
  /\ UNCHANGED <<tool, completed, written>> /\ OnlyProcess

ToolStep ==
  \/ \E k \in 1 .. Stages : StageRuns(k) \/ \E ok \in BOOLEAN : StageReports(k, ok)
  \/ PrintsElse \/ Refuses \/ OpensBrowser \/ BrowserEnds
  \/ \E code \in ExitCode : Exits(code)

-----------------------------------------------------------------------------
(***************************************************************************)
(* Reporter: the count is taken under its lock, the row written after it.  *)
(***************************************************************************)

RowForEarly(n) ==   \* mutant: one row short of the cap
  IF n < LogCap THEN "row" ELSE IF n = LogCap + 1 THEN "cut" ELSE "nothing"

RowForLate(n) ==    \* mutant: one row past the cap
  IF n <= LogCap + 1 THEN "row" ELSE IF n = LogCap + 2 THEN "cut" ELSE "nothing"

RowFor(n) == IF n <= LogCap THEN "row" ELSE IF n = LogCap + 1 THEN "cut" ELSE "nothing"

Counts(t) ==
  /\ say[t] = "uncounted"
  /\ counted' = counted + 1
  /\ say' = [say EXCEPT ![t] = RowFor(counted + 1)]
  /\ UNCHANGED <<rows, cuts, raises>>

Logs(t) ==
  /\ say[t] \in {"row", "cut"}
  /\ IF say[t] = "row" THEN rows' = rows + 1 /\ UNCHANGED cuts
                       ELSE cuts' = cuts + 1 /\ UNCHANGED rows
  /\ say' = [say EXCEPT ![t] = "nothing"]
  /\ UNCHANGED <<counted, raises>>

\* The store is locked, or the run is gone.
LogRaises(t) ==
  /\ say[t] \in {"row", "cut"}
  /\ raises < MaxRaises /\ raises' = raises + 1
  /\ say' = [say EXCEPT ![t] = "nothing"]
  /\ UNCHANGED <<counted, rows, cuts>>

-----------------------------------------------------------------------------
(***************************************************************************)
(* pump: the reader of a stream.  What reporting raises is swallowed.      *)
(***************************************************************************)

Takes(s) ==
  /\ waiter # "start" /\ reader[s] = "reading"
  /\ taken[s] < Len(written[s])
  /\ taken' = [taken EXCEPT ![s] = @ + 1]
  /\ last' = now /\ lineAt' = now
  /\ reader' = [reader EXCEPT ![s] = "reporting"]
  /\ say' = [say EXCEPT ![s] = "uncounted"]
  /\ UNCHANGED <<process, waiter, now, killing, left, counted, rows, cuts, raises, beatAt, result>>

Reports(s) ==
  /\ reader[s] = "reporting"
  /\ Counts(s) \/ Logs(s) \/ LogRaises(s)
  /\ reader' = [reader EXCEPT ![s] = IF say'[s] = "nothing" THEN "reading" ELSE @]
  /\ UNCHANGED <<process, taken, waiter, now, last, killing, history, result>>

\* The end of the stream: nobody holds its other end any more.
Closes(s) ==
  /\ reader[s] = "reading" /\ taken[s] = Len(written[s])
  /\ tool \in ExitCode /\ ~browser
  /\ reader' = [reader EXCEPT ![s] = "closed"]
  /\ UNCHANGED <<process, taken, waiter, now, last, killing, reporter, history, result>>

ReaderStep == \E s \in Stream : Takes(s) \/ Reports(s) \/ Closes(s)

-----------------------------------------------------------------------------
(***************************************************************************)
(* What _run and the lane make of the end of the call.                     *)
(***************************************************************************)

Sink(s) == SubSeq(written[s], 1, taken[s])

General == [c \in ExitCode |-> CASE c = "0" -> "ok" [] c \in {"2", "signal"} -> "retry"
                                 [] OTHER -> "halt"]
Session == [General EXCEPT !["1"] = "blocked", !["3"] = "blocked"]

InterpretUnkilled(code) ==   \* mutant: a signal is one more exit code
  IF code = "signal" THEN "halt" ELSE IF session THEN Session[code] ELSE General[code]

interpret(code) == IF session THEN Session[code] ELSE General[code]

usage_error(err) == \E i \in 1 .. Len(err) : err[i] = "usage"

OutcomeOf(code, err) ==
  IF interpret(code) = "retry" /\ usage_error(err) THEN "halt" ELSE interpret(code)

\* stage_progress, which asks of no item who printed it.
DoneAnyEvent(out) == {out[i].key : i \in 1 .. Len(out)} \ {0}   \* mutant: ok is not asked

Done(out) == {out[i].key : i \in {j \in 1 .. Len(out) : out[j].ok}} \ {0}

\* The first failed item that names a stage.
NamedFailures(out) == {i \in 1 .. Len(out) : ~out[i].ok /\ out[i].key # 0}

Failed(out) ==
  LET first == {i \in NamedFailures(out) : \A j \in NamedFailures(out) : i <= j}
  IN  IF first = {} THEN 0 ELSE out[CHOOSE i \in first : TRUE].key

RetryableUnlessNamed(failed) == failed \notin (1 .. Stages) \ Replayable   \* mutant

stage_retryable(failed) == failed \in Replayable

ReturnAs(code) ==
  /\ waiter' = "returned"
  /\ result' = [outcome |-> OutcomeOf(code, Sink("stderr")),
                done |-> Done(Sink("stdout")), failed |-> Failed(Sink("stdout"))]

-----------------------------------------------------------------------------
(***************************************************************************)
(* run_streamed: the waiter.                                               *)
(***************************************************************************)

OnlyWaiter == UNCHANGED <<process, streams, now, last, killing, reporter, history, result>>

Start ==
  /\ waiter = "start" /\ waiter' = "waiting"
  /\ tool' = "running"
  /\ UNCHANGED <<session, browser, completed, written, streams, now, last, killing, reporter,
                 history, result>>

\* A missing interpreter or tool, reported as the Scraper's own failure code.
CannotStart ==
  /\ waiter = "start"
  /\ ReturnAs("2")
  /\ UNCHANGED <<process, streams, now, last, killing, reporter, history>>

\* p.wait runs into its own timeout, one poll later.
Poll ==
  /\ waiter = "waiting" /\ tool = "running"
  /\ waiter' = "woken" /\ now' = now + 1
  /\ UNCHANGED <<process, streams, last, killing, reporter, history, result>>

\* _kill_tree: a browser in a process group of its own survives, and a tool that
\* has ended since the poll keeps its exit code.
KillTree ==
  /\ tool' = IF tool = "running" THEN "signal" ELSE tool
  /\ browser' \in {FALSE, browser}

TimesOut ==
  /\ waiter = "woken" /\ now >= Timeout
  /\ waiter' = "joining stdout" /\ killing' = TRUE
  /\ KillTree
  /\ UNCHANGED <<session, completed, written, streams, now, last, reporter, history, result>>

QuietTooLate == now - last > QuietAfter   \* mutant
Quiet == now - last >= QuietAfter

Hears == waiter = "woken" /\ now < Timeout /\ ~Quiet /\ waiter' = "waiting" /\ OnlyWaiter

NoticesQuiet ==
  /\ waiter = "woken" /\ now < Timeout /\ Quiet
  /\ waiter' = "beating" /\ say' = [say EXCEPT !["waiter"] = "uncounted"]
  /\ UNCHANGED <<process, streams, now, last, killing, counted, rows, cuts, raises, history, result>>

\* The heartbeat goes through the same Reporter as the lines do.
Beats ==
  /\ waiter = "beating"
  /\ \/ Counts("waiter") /\ UNCHANGED beatAt
     \/ Logs("waiter") /\ beatAt' = (IF say["waiter"] = "row" THEN now ELSE beatAt)
  /\ waiter' = IF say'["waiter"] = "nothing" THEN "beaten" ELSE waiter
  /\ UNCHANGED <<process, streams, now, last, killing, left, lineAt, result>>

\* Nothing catches it here: the call is over and the tool runs on.
BeatRaises ==
  /\ waiter = "beating" /\ LogRaises("waiter")
  /\ waiter' = "raised"
  /\ UNCHANGED <<process, streams, now, last, killing, history, result>>

\* One heartbeat per quiet period.
RecordsBeat ==
  /\ waiter = "beaten" /\ waiter' = "waiting"
  /\ last' = now
  /\ UNCHANGED <<process, streams, now, killing, reporter, history, result>>

SeesExit ==
  /\ waiter = "waiting" /\ tool \in ExitCode
  /\ waiter' = "joining stdout" /\ OnlyWaiter

AfterJoin(s) ==
  /\ waiter = Joining[s]
  /\ IF s = "stdout" THEN waiter' = Joining["stderr"] /\ UNCHANGED result
                     ELSE ReturnAs(IF killing THEN "2" ELSE tool)
  /\ UNCHANGED <<process, streams, last, killing, reporter, lineAt, beatAt>>

JoinedUnread(s) ==   \* mutant: the reader is not waited for
  AfterJoin(s) /\ UNCHANGED <<now, left>>

Joined(s) == reader[s] = "closed" /\ AfterJoin(s) /\ UNCHANGED <<now, left>>

GivesUpNever(s) == FALSE   \* mutant: join without a timeout

GivesUp(s) ==
  /\ reader[s] # "closed" /\ AfterJoin(s)
  /\ now' = now + JoinLimit /\ left' = left \cup {s}

WaiterStep ==
  \/ Start \/ CannotStart \/ Poll \/ TimesOut \/ Hears \/ NoticesQuiet \/ Beats \/ BeatRaises
  \/ RecordsBeat \/ SeesExit \/ \E s \in Stream : Joined(s) \/ GivesUp(s)

Next == ToolStep \/ ReaderStep \/ WaiterStep

Spec == Init /\ [][Next]_vars

FairSpec == Spec /\ WF_vars(WaiterStep)

-----------------------------------------------------------------------------
(***************************************************************************)
(* Properties.                                                             *)
(***************************************************************************)

\* What _run says of a call is so: it says "ok" of a tool that did all it had to,
\* and gives up for good ("halt") only on a tool that chose to fail, never on one
\* that was stopped from outside or lost its race with the timeout.  No tool is
\* left at work when the next one may be started.
VerdictIsEarned == waiter = "returned" =>
  /\ tool # "running"
  /\ result.outcome = "ok" => tool = "0" /\ (session \/ completed = 1 .. Stages)
  /\ result.outcome = "halt" => tool \in {"1", "3", "odd"} \/ Refused
  /\ result.outcome = "blocked" => session

\* The stages that items of other tools are taken for.
Mistaken(ok) == {e.key : e \in {f \in Printed("stdout") : f.stage = 0 /\ f.ok = ok}} \ {0}

\* What stage_retryable's docstring says it decides, of every call: whether re-running
\* the stage that failed is safe.  No stage runs twice that took effect and must not.
RepeatsSafely == waiter = "returned" /\ result.outcome = "retry" /\ stage_retryable(result.failed)
                   => completed \ result.done \subseteq Replayable

\* A chain is repeated by itself only where that is safe: of the stages it will not
\* skip, those that took effect survive being run twice (electicode_lane.py,
\* stage_progress and stage_retryable), though output may have been lost; unless the
\* failed item of another tool is taken for a stage.
SafeRetry == Mistaken(FALSE) = {} => RepeatsSafely

\* What a resume skips did take effect, but for stages that an item of another tool was
\* taken for (stage_progress); and with both readers at their end, however the call
\* ended, one stage at most took effect without being known as done, so that an operator
\* has one thing to look at.
DoubtIsOneStage == waiter = "returned" =>
  /\ result.done \subseteq completed \cup Mistaken(TRUE)
  /\ left = {} => \A j, k \in completed \ result.done : j = k

\* The log has the first LOG_CAP lines and says once that it has no more, though
\* three threads share the count (Reporter).
CutIsAnnounced == raises = 0 /\ (\A t \in Thread : say[t] = "nothing") =>
  /\ rows = IF counted <= LogCap THEN counted ELSE LogCap
  /\ cuts = IF counted <= LogCap THEN 0 ELSE 1

\* A tool at work is never silently silent: while the waiter waits, a line has come or
\* a heartbeat reached the log within QUIET_AFTER, or the log has said that it is full.
SilenceIsExplained ==
  /\ CutIsAnnounced
  /\ waiter = "waiting" =>
       now - lineAt < QuietAfter \/ now - beatAt < QuietAfter \/ counted > LogCap

\* The call comes to an end, whatever the tool, its browser and the readers do.
Returns == <>(waiter \in {"returned", "raised"})
===============================================================================
