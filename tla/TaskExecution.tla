----------------------------- MODULE TaskExecution -----------------------------
(***************************************************************************)
(* One execution inside handleTask: the command and its pipes, the scanner  *)
(* goroutines of internal/tasks/executor.go, the log sink goroutine of      *)
(* internal/tasks/service.go and the way from Execute's return to the       *)
(* completion report.  Lines are counted, not spelled.  The 2 MB cap on the *)
(* captured output and the 1 MB cap on a line lie beyond the lines modelled; *)
(* the resends of one TaskLog request (TaskService) count as one post.      *)
(***************************************************************************)
EXTENDS Naturals

CONSTANTS
  Streams,   \* stdout and stderr
  MaxLines,  \* bound: lines the command writes to one stream
  LogCap     \* capacity of the sink's channel (512 in the code)

ASSUME LogCapAssumption == LogCap \in Nat \ {0}
ASSUME LinesAssumption == MaxLines \in Nat

VARIABLES
  ctx,       \* "live" or "done": taskCtx
  proc,      \* the command: see ProcStates
  written,   \* [Streams -> Nat]: lines the command has written
  pipe,      \* [Streams -> Nat]: of them, unread in the pipe
  buffer,    \* [Streams -> Nat]: read by the scanner, not yet emitted
  scan,      \* [Streams -> {"reading", "done"}]
  pc,        \* handleTask: see Points
  captured,  \* [Streams -> Nat]: lines in outBuilder, a stream's error among them
  emitted,   \* calls of Enqueue
  queue,     \* entries in the sink's channel
  closed,    \* the channel is closed
  crashed,   \* a send on the closed channel: the process panics
  sink,      \* the sink goroutine: see SinkPoints
  posted,    \* TaskLog requests issued
  dropped,   \* entries Enqueue found no room for
  inTime     \* Close saw the sink end before its timeout

scanVars == <<written, pipe, buffer, scan, captured>>
chanVars == <<emitted, queue, closed, crashed, dropped>>
vars == <<ctx, proc, scanVars, pc, chanVars, sink, posted, inTime>>

Points == {"waiting", "scanning", "finishing", "closing", "draining",
           "deciding", "completing", "returned"}
ProcStates == {"running", "rooted", "exited", "killed"}
SinkPoints == {"receiving", "checked", "posting", "discarding", "done"}

TypeOK ==
  /\ ctx \in {"live", "done"}
  /\ proc \in ProcStates
  /\ \A f \in {written, pipe, buffer} : f \in [Streams -> 0..MaxLines]
  /\ captured \in [Streams -> 0..(MaxLines + 1)]
  /\ scan \in [Streams -> {"reading", "done"}]
  /\ pc \in Points
  /\ {emitted, posted, dropped} \subseteq Nat
  /\ queue \in 0..LogCap
  /\ {closed, crashed, inTime} \subseteq BOOLEAN
  /\ sink \in SinkPoints

\* Execute has started the command and both scanners; "starting" was logged.  A
\* helper, and a task with runAsRoot, runs under sudo and is root's.
Init ==
  /\ ctx = "live"
  /\ proc \in {"running", "rooted"}
  /\ written = [s \in Streams |-> 0]
  /\ pipe = [s \in Streams |-> 0]
  /\ buffer = [s \in Streams |-> 0]
  /\ scan = [s \in Streams |-> "reading"]
  /\ pc = "waiting"
  /\ captured = [s \in Streams |-> 0]
  /\ emitted = 1
  /\ queue = 1
  /\ closed = FALSE
  /\ crashed = FALSE
  /\ sink = "receiving"
  /\ posted = 0
  /\ dropped = 0
  /\ inTime = FALSE

\* The sink's Enqueue never blocks: a full channel drops the entry.
Enqueue ==
  /\ emitted' = emitted + 1
  /\ closed' = closed
  /\ crashed' = (crashed \/ closed)
  /\ IF closed THEN UNCHANGED <<queue, dropped>>
     ELSE IF queue < LogCap THEN queue' = queue + 1 /\ UNCHANGED dropped
     ELSE dropped' = dropped + 1 /\ UNCHANGED queue

-------------------------------------------------------------------------------
(* The command *)

Running == proc \in {"running", "rooted"}

Write(s) ==
  /\ Running
  /\ written[s] < MaxLines
  /\ written' = [written EXCEPT ![s] = @ + 1]
  /\ pipe' = [pipe EXCEPT ![s] = @ + 1]
  /\ UNCHANGED <<ctx, proc, buffer, scan, captured, pc, chanVars, sink, posted, inTime>>

ProcessExit ==
  /\ Running
  /\ proc' = "exited"
  /\ UNCHANGED <<ctx, scanVars, pc, chanVars, sink, posted, inTime>>

\* Deadline, cancellation or shutdown.
ContextDone ==
  /\ ctx = "live"
  /\ ctx' = "done"
  /\ UNCHANGED <<proc, scanVars, pc, chanVars, sink, posted, inTime>>

\* cmd.Cancel, once: it kills the process group of the agent's user.  It is not
\* permitted to signal root's, and there is no WaitDelay: Wait goes on waiting.
Kill ==
  /\ ctx = "done"
  /\ proc = "running"
  /\ proc' = "killed"
  /\ UNCHANGED <<ctx, scanVars, pc, chanVars, sink, posted, inTime>>

-------------------------------------------------------------------------------
(* scanOutput *)

\* One Read takes what is in the pipe.
ScanRead(s) ==
  /\ scan[s] = "reading"
  /\ buffer[s] = 0
  /\ pipe[s] > 0
  /\ buffer' = [buffer EXCEPT ![s] = pipe[s]]
  /\ pipe' = [pipe EXCEPT ![s] = 0]
  /\ UNCHANGED <<ctx, proc, written, scan, captured, pc, chanVars, sink, posted, inTime>>

\* captureLog: into the output and to the sink.
ScanEmit(s) ==
  /\ buffer[s] > 0
  /\ buffer' = [buffer EXCEPT ![s] = @ - 1]
  /\ captured' = [captured EXCEPT ![s] = @ + 1]
  /\ Enqueue
  /\ UNCHANGED <<ctx, proc, written, pipe, scan, pc, sink, posted, inTime>>

\* End of file: every writer is gone and the pipe is empty ...
ScanEOF(s) ==
  /\ scan[s] = "reading"
  /\ buffer[s] = 0
  /\ pc = "waiting" /\ ~Running /\ pipe[s] = 0
  /\ scan' = [scan EXCEPT ![s] = "done"]
  /\ UNCHANGED <<ctx, proc, written, pipe, buffer, captured, pc, chanVars, sink,
                 posted, inTime>>

\* ... or Wait has closed the read end: "log stream error" is captured, too.
ScanClosed(s) ==
  /\ scan[s] = "reading"
  /\ buffer[s] = 0
  /\ pc # "waiting"
  /\ scan' = [scan EXCEPT ![s] = "done"]
  /\ captured' = [captured EXCEPT ![s] = @ + 1]
  /\ Enqueue
  /\ UNCHANGED <<ctx, proc, written, pipe, buffer, pc, sink, posted, inTime>>

-------------------------------------------------------------------------------
(* Execute, and handleTask after it *)

\* cmd.Wait reaps the process and closes the read ends: what is still in a
\* pipe is gone.  Execute calls it before scanWG.Wait.
WaitReturn ==
  /\ pc = "waiting"
  /\ ~Running
  /\ pc' = "scanning"
  /\ pipe' = [s \in Streams |-> 0]
  /\ UNCHANGED <<ctx, proc, written, buffer, scan, captured, chanVars, sink,
                 posted, inTime>>

\* Mutant: the scanners are not waited for.
ScannersDone_unjoined ==
  /\ pc = "scanning"
  /\ pc' = "finishing"
  /\ UNCHANGED <<ctx, proc, scanVars, chanVars, sink, posted, inTime>>

ScannersDone ==
  /\ pc = "scanning"
  /\ \A s \in Streams : scan[s] = "done"
  /\ pc' = "finishing"
  /\ UNCHANGED <<ctx, proc, scanVars, chanVars, sink, posted, inTime>>

\* "command finished with exit code ..." and the return of Execute.
ExecuteReturn ==
  /\ pc = "finishing"
  /\ pc' = "closing"
  /\ Enqueue
  /\ UNCHANGED <<ctx, proc, scanVars, sink, posted, inTime>>

\* Mutant: the channel stays open.
CloseChannel_open ==
  /\ pc = "closing"
  /\ pc' = "draining"
  /\ UNCHANGED <<ctx, proc, scanVars, chanVars, sink, posted, inTime>>

\* Close closes the channel ...
CloseChannel ==
  /\ pc = "closing"
  /\ closed' = TRUE
  /\ pc' = "draining"
  /\ UNCHANGED <<ctx, proc, scanVars, emitted, queue, crashed, dropped, sink,
                 posted, inTime>>

\* ... and waits for the sink ...
Drained ==
  /\ pc = "draining"
  /\ sink = "done"
  /\ pc' = "deciding"
  /\ inTime' = TRUE
  /\ UNCHANGED <<ctx, proc, scanVars, chanVars, sink, posted>>

\* ... for three seconds.
DrainTimeout ==
  /\ pc = "draining"
  /\ sink # "done"
  /\ pc' = "deciding"
  /\ UNCHANGED <<ctx, proc, scanVars, chanVars, sink, posted, inTime>>

\* Mutant: cancel() deferred before the report, so that it runs after it.
DeferredCancel_late ==
  /\ pc = "deciding"
  /\ pc' = "completing"
  /\ UNCHANGED <<ctx, proc, scanVars, chanVars, sink, posted, inTime>>

\* The deferred cancel() runs before the deferred completion report.
DeferredCancel ==
  /\ pc = "deciding"
  /\ ctx' = "done"
  /\ pc' = "completing"
  /\ UNCHANGED <<proc, scanVars, chanVars, sink, posted, inTime>>

ReportCompletion ==
  /\ pc = "completing"
  /\ pc' = "returned"
  /\ UNCHANGED <<ctx, proc, scanVars, chanVars, sink, posted, inTime>>

-------------------------------------------------------------------------------
(* realtimeTaskLogSink.run *)

\* Receive an entry; with the context done everything left is discarded.
SinkReceive ==
  /\ sink = "receiving"
  /\ queue > 0
  /\ queue' = queue - 1
  /\ sink' = IF ctx = "live" THEN "checked" ELSE "discarding"
  /\ UNCHANGED <<ctx, proc, scanVars, pc, emitted, closed, crashed, dropped,
                 posted, inTime>>

\* TaskLog(ctx): a request under a context that is done by now is never issued.
SinkPost ==
  /\ sink = "checked"
  /\ IF ctx = "live" THEN sink' = "posting" /\ posted' = posted + 1
                     ELSE sink' = "discarding" /\ UNCHANGED posted
  /\ UNCHANGED <<ctx, proc, scanVars, pc, chanVars, inTime>>

\* Mutant: the sink gives up on the first error.
SinkAnswer_giveUp ==
  /\ sink = "posting"
  /\ sink' \in {"receiving", "discarding"}
  /\ UNCHANGED <<ctx, proc, scanVars, pc, chanVars, posted, inTime>>

\* Success, or an error: the sink goes on unless the context is done.
SinkAnswer ==
  /\ sink = "posting"
  /\ \/ sink' = "receiving"
     \/ ctx = "done" /\ sink' = "discarding"
  /\ UNCHANGED <<ctx, proc, scanVars, pc, chanVars, posted, inTime>>

SinkDiscard ==
  /\ sink = "discarding"
  /\ queue > 0
  /\ queue' = 0
  /\ UNCHANGED <<ctx, proc, scanVars, pc, emitted, closed, crashed, dropped, sink,
                 posted, inTime>>

SinkEnd ==
  /\ sink \in {"receiving", "discarding"}
  /\ queue = 0
  /\ closed
  /\ sink' = "done"
  /\ UNCHANGED <<ctx, proc, scanVars, pc, chanVars, posted, inTime>>

-------------------------------------------------------------------------------
ScanStep(s) == ScanRead(s) \/ ScanEmit(s) \/ ScanEOF(s) \/ ScanClosed(s)

HandlerStep ==
  \/ WaitReturn
  \/ ScannersDone
  \/ ExecuteReturn
  \/ CloseChannel
  \/ Drained
  \/ DrainTimeout
  \/ DeferredCancel
  \/ ReportCompletion

SinkStep == SinkReceive \/ SinkPost \/ SinkAnswer \/ SinkDiscard \/ SinkEnd

Next ==
  \/ \E s \in Streams : Write(s)
  \/ ProcessExit
  \/ ContextDone
  \/ Kill
  \/ \E s \in Streams : ScanStep(s)
  \/ HandlerStep
  \/ SinkStep

Spec == Init /\ [][Next]_vars

\* Goroutines run, the kernel kills where it may, a request ends by its timeout
\* at the latest and the task's deadline makes its context done.  The command owes
\* nothing.
Fairness ==
  /\ WF_vars(ContextDone)
  /\ WF_vars(Kill)
  /\ \A s \in Streams : WF_vars(ScanStep(s))
  /\ WF_vars(HandlerStep)
  /\ WF_vars(SinkStep)

FairSpec == Spec /\ Fairness

-------------------------------------------------------------------------------
(* Properties *)

\* No goroutine sends on the sink's channel after Close: Execute returns only
\* once both scanners have ended, else the process would panic.
NoSendOnClosedChannel == ~crashed

\* Once the completion is being reported no log request is issued, although the
\* drain may have timed out with the sink still at work: cancel() is deferred
\* after the report and so runs before it.
NoLogAfterCompletion ==
  [][posted' # posted => pc \notin {"completing", "returned"}]_vars

\* A drain that ended in time under a live context has posted every line that
\* was not dropped for want of room, the closing system line included.
DrainComplete ==
  pc = "deciding" /\ inTime /\ ctx = "live" => posted + dropped = emitted

\* The execution ends with its report and the sink goroutine ends as well, whatever
\* the command does and however the streams and the sink stand when its deadline
\* comes: but for a command of root's that never ends, which the agent cannot end.
Ends == <>(pc = "returned" /\ sink = "done") \/ [](proc = "rooted")

===============================================================================
