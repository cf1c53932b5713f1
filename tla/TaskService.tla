------------------------------ MODULE TaskService ------------------------------
(***************************************************************************)
(* internal/tasks/service.go with internal/tasks/http_events.go and the     *)
(* resending HTTP client of internal/api/client.go: a dispatch claims a     *)
(* task in the running set and starts a goroutine that reports, executes    *)
(* and reports again, while a second goroutine polls the platform for a     *)
(* cancellation, a timer bounds the execution and the process may be told   *)
(* to stop.                                                                *)
(*                                                                         *)
(* agent/service.go:128 always installs the HTTP event client, and :218     *)
(* starts the workers only once the identity is complete, so handleTask's   *)
(* returns for a missing client or identity cannot be taken.  The log sink  *)
(* and the command itself are the subject of TaskExecution.                 *)
(***************************************************************************)
EXTENDS TaskVocabulary

CONSTANTS
  RetryAttempts,  \* taskLifecycleRetryAttempts
  ClientTries,    \* transmissions of one request: 1 + SetRetryCount(3)
  Faults,         \* which failures of a lifecycle request are considered
  RootTasks       \* the tasks whose command runs as root, under sudo -n

ASSUME RetryAssumption == RetryAttempts \in Nat \ {0} /\ ClientTries \in Nat \ {0}
ASSUME FaultAssumption == Faults \subseteq {"network", "conflict"}
ASSUME RootAssumption == RootTasks \subseteq TaskIDs

VARIABLES
  svc,       \* Run: "serving", "draining" (ctx done), "returned", "exited"
  running,   \* Service.running
  cancelReq, \* tasks whose control answer says CancelRequested
  pc,        \* [Handlers -> Points]: where handleTask is
  task,      \* [Handlers -> TaskIDs \cup {NoTask}]
  tries,     \* [Handlers -> 0..ClientTries]: of the pending request, 0 if none is
  attempt,   \* [Handlers -> 1..RetryAttempts]: of withQueuedStateRetry
  taskCtx,   \* [Handlers -> CtxStates]: taskCtx.Err()
  execErr,   \* [Handlers -> ExecErrors]: what Execute returned
  watch,     \* [Handlers -> WatchPoints]: where watchTaskControl is
  marked,    \* [Handlers -> BOOLEAN]: controlCancelled
  status,    \* [Handlers -> Verdicts \cup {NoVerdict}]
  net,       \* [Handlers -> [Reports -> Nat]]: copies sent, not (yet) processed
  recorded   \* [Handlers -> [Reports -> Nat]]: times the platform recorded it

ctxVars == <<taskCtx, execErr, watch, marked>>
wireVars == <<tries, attempt, net, recorded>>
vars == <<svc, running, cancelReq, pc, task, status, ctxVars, wireVars>>

Points == {"idle", "accepting", "starting", "preparing", "executing",
           "deciding", "completing", "unmarking", "returned"}
ReportPoints == {"accepting", "starting", "completing"}
CtxStates == {"none", "live", "canceled", "deadline"}
ExecErrors == {"none", "nil", "error", "canceled", "deadline"}
WatchPoints == {"off", "waiting", "asking", "marked"}

TypeOK ==
  /\ svc \in {"serving", "draining", "returned", "exited"}
  /\ running \subseteq TaskIDs
  /\ cancelReq \subseteq TaskIDs
  /\ pc \in [Handlers -> Points]
  /\ task \in [Handlers -> TaskIDs \cup {NoTask}]
  /\ tries \in [Handlers -> 0..ClientTries]
  /\ attempt \in [Handlers -> 1..RetryAttempts]
  /\ taskCtx \in [Handlers -> CtxStates]
  /\ execErr \in [Handlers -> ExecErrors]
  /\ watch \in [Handlers -> WatchPoints]
  /\ marked \in [Handlers -> BOOLEAN]
  /\ status \in [Handlers -> Verdicts \cup {NoVerdict}]
  /\ net \in [Handlers -> [Reports -> Nat]]
  /\ recorded \in [Handlers -> [Reports -> Nat]]

Init ==
  /\ svc = "serving"
  /\ running = {}
  /\ cancelReq = {}
  /\ pc = [h \in Handlers |-> "idle"]
  /\ task = [h \in Handlers |-> NoTask]
  /\ tries = [h \in Handlers |-> 0]
  /\ attempt = [h \in Handlers |-> 1]
  /\ taskCtx = [h \in Handlers |-> "none"]
  /\ execErr = [h \in Handlers |-> "none"]
  /\ watch = [h \in Handlers |-> "off"]
  /\ marked = [h \in Handlers |-> FALSE]
  /\ status = [h \in Handlers |-> NoVerdict]
  /\ net = [h \in Handlers |-> [r \in Reports |-> 0]]
  /\ recorded = [h \in Handlers |-> [r \in Reports |-> 0]]

-------------------------------------------------------------------------------
(* Dispatch *)

Alive == svc # "exited"
ParentLive == svc = "serving"  \* parentCtx.Err() = nil

\* Mutant: insert without the test.
markRunning_untested(t) == running' = running \cup {t}

\* Test and insert under the service's lock.
markRunning(t) ==
  /\ t \notin running
  /\ running' = running \cup {t}

\* dispatchTask, from the claim loop or the socket; neither looks at ctx again
\* once it holds a task.  A task already in the running set is skipped.
Dispatch(h, t) ==
  /\ Alive
  /\ pc[h] = "idle"
  /\ markRunning(t)
  /\ pc' = [pc EXCEPT ![h] = "accepting"]
  /\ task' = [task EXCEPT ![h] = t]
  /\ UNCHANGED <<svc, cancelReq, status, ctxVars, wireVars>>

-------------------------------------------------------------------------------
(* Lifecycle requests: withQueuedStateRetry around a request that the client  *)
(* itself transmits up to ClientTries times                                   *)

\* The request handleTask is making.
Report(h) == CASE pc[h] = "accepting" -> "accepted"
               [] pc[h] = "starting" -> "started"
               [] OTHER -> status[h]

\* Whatever the outcome, handleTask only logs it and goes on.
Proceed(h) ==
  /\ pc' = [pc EXCEPT ![h] = CASE pc[h] = "accepting" -> "starting"
                               [] pc[h] = "starting" -> "preparing"
                               [] OTHER -> "unmarking"]
  /\ tries' = [tries EXCEPT ![h] = 0]
  /\ attempt' = [attempt EXCEPT ![h] = 1]
  /\ UNCHANGED <<svc, running, cancelReq, task, status, ctxVars, recorded>>

Transmit(h) ==
  /\ Alive
  /\ pc[h] \in ReportPoints
  /\ ParentLive
  /\ tries' = [tries EXCEPT ![h] = @ + 1]
  /\ net' = [net EXCEPT ![h][Report(h)] = @ + 1]
  /\ UNCHANGED <<svc, running, cancelReq, pc, task, status, ctxVars,
                 attempt, recorded>>

Send(h) == tries[h] = 0 /\ Transmit(h)

\* No answer, 429 or 5xx: the client's retry condition.  The earlier copy may
\* be lost, recorded already, or reach the platform later.
Retransmit(h) ==
  /\ "network" \in Faults
  /\ tries[h] \in 1..ClientTries - 1
  /\ Transmit(h)

\* The platform processes a copy, perhaps after the agent gave it up.
Record(h, r) ==
  /\ net[h][r] > 0
  /\ net' = [net EXCEPT ![h][r] = @ - 1]
  /\ recorded' = [recorded EXCEPT ![h][r] = @ + 1]
  /\ UNCHANGED <<svc, running, cancelReq, pc, task, status, ctxVars,
                 tries, attempt>>

\* 2xx: the request was recorded, by this copy of it or by an earlier one.
Acknowledged(h) ==
  /\ Alive
  /\ tries[h] > 0
  /\ recorded[h][Report(h)] > 0
  /\ Proceed(h)
  /\ UNCHANGED net

\* 4xx: the platform has refused a copy for good.
Refusal(h) ==
  /\ Alive
  /\ "conflict" \in Faults
  /\ tries[h] > 0
  /\ net[h][Report(h)] > 0
  /\ net' = [net EXCEPT ![h][Report(h)] = @ - 1]

\* Mutant: the attempts are not counted.
Resend_uncounted(h) ==
  /\ Refusal(h)
  /\ ParentLive
  /\ tries' = [tries EXCEPT ![h] = 0]
  /\ UNCHANGED <<svc, running, cancelReq, pc, task, status, ctxVars, attempt, recorded>>

\* Mutant: any answer to an attempt is a reason for the next one.
Resend_anyAnswer(h) ==
  /\ Alive
  /\ tries[h] > 0
  /\ attempt[h] < RetryAttempts
  /\ ParentLive
  /\ attempt' = [attempt EXCEPT ![h] = @ + 1]
  /\ tries' = [tries EXCEPT ![h] = 0]
  /\ UNCHANGED <<svc, running, cancelReq, pc, task, status, ctxVars, net, recorded>>

\* 409 "queued state" makes withQueuedStateRetry try again, ...
Resend(h) ==
  /\ Refusal(h)
  /\ attempt[h] < RetryAttempts
  /\ ParentLive
  /\ attempt' = [attempt EXCEPT ![h] = @ + 1]
  /\ tries' = [tries EXCEPT ![h] = 0]
  /\ UNCHANGED <<svc, running, cancelReq, pc, task, status, ctxVars, recorded>>

\* ... but not on its last attempt; any other refusal ends the request at once.
Refused(h) == Refusal(h) /\ Proceed(h)

\* The client's last transmission has gone unanswered, too.
Unanswered(h) ==
  /\ Alive
  /\ "network" \in Faults
  /\ tries[h] = ClientTries
  /\ Proceed(h)
  /\ UNCHANGED net

\* The parent context is done: a pending request is abandoned, the waits
\* between attempts end, and a new request fails before it is sent.
Abandoned(h) ==
  /\ Alive
  /\ pc[h] \in ReportPoints
  /\ ~ParentLive
  /\ Proceed(h)
  /\ UNCHANGED net

-------------------------------------------------------------------------------
(* Execution *)

\* context.WithTimeout(parentCtx, ...), then the control watcher and Execute.
StartExecution(h) ==
  /\ Alive
  /\ pc[h] = "preparing"
  /\ pc' = [pc EXCEPT ![h] = "executing"]
  /\ taskCtx' = [taskCtx EXCEPT ![h] = IF ParentLive THEN "live" ELSE "canceled"]
  /\ watch' = [watch EXCEPT ![h] = "waiting"]
  /\ UNCHANGED <<svc, running, cancelReq, task, status, execErr, marked, wireVars>>

Deadline(h) ==
  /\ Alive
  /\ taskCtx[h] = "live"
  /\ taskCtx' = [taskCtx EXCEPT ![h] = "deadline"]
  /\ UNCHANGED <<svc, running, cancelReq, pc, task, status, execErr, watch,
                 marked, wireVars>>

\* Execute returns e: nil or an error of its own at any time (the command may
\* end as the context does), the context's error once that is done.
\* close(controlDone) is the step to "deciding".
ExecReturn(h, e) ==
  /\ Alive
  /\ pc[h] = "executing"
  /\ e \in {"nil", "error"} \/ (e = taskCtx[h] /\ e # "live")
  /\ execErr' = [execErr EXCEPT ![h] = e]
  /\ pc' = [pc EXCEPT ![h] = "deciding"]
  /\ UNCHANGED <<svc, running, cancelReq, task, status, taskCtx, watch, marked,
                 wireVars>>

taskStatus(err) == CASE err = "nil" -> "success"
                     [] err = "errTaskCancelledByControl" -> "cancelled"
                     [] err = "deadline" -> "timeout"
                     [] err = "canceled" -> "canceled"
                     [] OTHER -> "failed"

\* Mutant: a mark does not override a success.
FinalError_canceledOnly(h) == IF marked[h] /\ execErr[h] = "canceled"
                              THEN "errTaskCancelledByControl"
                              ELSE execErr[h]

\* A success or a cancelled context counts as the platform's cancellation if
\* the watcher has marked one by now.
FinalError(h) == IF marked[h] /\ execErr[h] \in {"nil", "canceled"}
                 THEN "errTaskCancelledByControl"
                 ELSE execErr[h]

Dead(ctx) == IF ctx = "live" THEN "canceled" ELSE ctx

\* Mutant: a cancelled run is not reported.
Decide_unreported(h) ==
  /\ Alive
  /\ pc[h] = "deciding"
  /\ status' = [status EXCEPT ![h] = taskStatus(FinalError(h))]
  /\ taskCtx' = [taskCtx EXCEPT ![h] = Dead(@)]
  /\ pc' = [pc EXCEPT ![h] = IF marked[h] THEN "unmarking" ELSE "completing"]
  /\ UNCHANGED <<svc, running, cancelReq, task, execErr, watch, marked, wireVars>>

\* Mutant: the task leaves the running set before its report.
Decide_releasing(h) ==
  /\ Alive
  /\ pc[h] = "deciding"
  /\ status' = [status EXCEPT ![h] = taskStatus(FinalError(h))]
  /\ taskCtx' = [taskCtx EXCEPT ![h] = Dead(@)]
  /\ pc' = [pc EXCEPT ![h] = "completing"]
  /\ running' = running \ {task[h]}
  /\ UNCHANGED <<svc, cancelReq, task, execErr, watch, marked, wireVars>>

\* The status is fixed and the deferred cancel() runs before the report does.
Decide(h) ==
  /\ Alive
  /\ pc[h] = "deciding"
  /\ status' = [status EXCEPT ![h] = taskStatus(FinalError(h))]
  /\ taskCtx' = [taskCtx EXCEPT ![h] = Dead(@)]
  /\ pc' = [pc EXCEPT ![h] = "completing"]
  /\ UNCHANGED <<svc, running, cancelReq, task, execErr, watch, marked, wireVars>>

unmarkRunning(t) == running' = running \ {t}

\* The deferred unmarkRunning and wg.Done.
Unmark(h) ==
  /\ Alive
  /\ pc[h] = "unmarking"
  /\ unmarkRunning(task[h])
  /\ pc' = [pc EXCEPT ![h] = "returned"]
  /\ UNCHANGED <<svc, cancelReq, task, status, ctxVars, wireVars>>

-------------------------------------------------------------------------------
(* watchTaskControl *)

\* The ticker; select may take it although done is closed as well.
WatchAsk(h) ==
  /\ Alive
  /\ watch[h] = "waiting"
  /\ taskCtx[h] = "live"
  /\ watch' = [watch EXCEPT ![h] = "asking"]
  /\ UNCHANGED <<svc, running, cancelReq, pc, task, status, taskCtx, execErr,
                 marked, wireVars>>

\* An error, or no cancellation requested.
WatchNothing(h) ==
  /\ Alive
  /\ watch[h] = "asking"
  /\ watch' = [watch EXCEPT ![h] = "waiting"]
  /\ UNCHANGED <<svc, running, cancelReq, pc, task, status, taskCtx, execErr,
                 marked, wireVars>>

\* Mutant: cancel() without markCancelled.
WatchMark_cancelling(h) ==
  /\ Alive
  /\ watch[h] = "asking"
  /\ task[h] \in cancelReq
  /\ taskCtx' = [taskCtx EXCEPT ![h] = Dead(@)]
  /\ watch' = [watch EXCEPT ![h] = "marked"]
  /\ UNCHANGED <<svc, running, cancelReq, pc, task, status, execErr, marked,
                 wireVars>>

\* CancelRequested: markCancelled first ...
WatchMark(h) ==
  /\ Alive
  /\ watch[h] = "asking"
  /\ task[h] \in cancelReq
  /\ marked' = [marked EXCEPT ![h] = TRUE]
  /\ watch' = [watch EXCEPT ![h] = "marked"]
  /\ UNCHANGED <<svc, running, cancelReq, pc, task, status, taskCtx, execErr,
                 wireVars>>

\* ... then cancel().
WatchCancel(h) ==
  /\ Alive
  /\ watch[h] = "marked"
  /\ taskCtx' = [taskCtx EXCEPT ![h] = Dead(@)]
  /\ watch' = [watch EXCEPT ![h] = "off"]
  /\ UNCHANGED <<svc, running, cancelReq, pc, task, status, execErr, marked,
                 wireVars>>

WatchExit(h) ==
  /\ Alive
  /\ watch[h] = "waiting"
  /\ taskCtx[h] # "live" \/ pc[h] # "executing"
  /\ watch' = [watch EXCEPT ![h] = "off"]
  /\ UNCHANGED <<svc, running, cancelReq, pc, task, status, taskCtx, execErr,
                 marked, wireVars>>

-------------------------------------------------------------------------------
(* The platform and the process *)

\* The platform is asked to cancel a task (external).  The agent looks only
\* during a run: a request before the dispatch is one right after it.
RequestCancel(t) ==
  /\ t \notin cancelReq
  /\ \E h \in Handlers : task[h] = t
  /\ cancelReq' = cancelReq \cup {t}
  /\ UNCHANGED <<svc, running, pc, task, status, ctxVars, wireVars>>

\* SIGTERM cancels the root context and with it every task's.
Shutdown ==
  /\ svc = "serving"
  /\ svc' = "draining"
  /\ taskCtx' = [h \in Handlers |-> Dead(taskCtx[h])]
  /\ UNCHANGED <<running, cancelReq, pc, task, status, execErr, watch, marked,
                 wireVars>>

\* Run returns when wg reaches zero or after requestTimeout, whichever is first.
RunReturn ==
  /\ svc = "draining"
  /\ svc' = "returned"
  /\ UNCHANGED <<running, cancelReq, pc, task, status, ctxVars, wireVars>>

\* agent.Service.Run returns, at the latest after ShutdownTimeout, and main ends.
Exit ==
  /\ svc \in {"draining", "returned"}
  /\ svc' = "exited"
  /\ UNCHANGED <<running, cancelReq, pc, task, status, ctxVars, wireVars>>

-------------------------------------------------------------------------------
HandlerStep(h) ==
  \/ Send(h)
  \/ Retransmit(h)
  \/ Acknowledged(h)
  \/ Resend(h)
  \/ Refused(h)
  \/ Unanswered(h)
  \/ Abandoned(h)
  \/ StartExecution(h)
  \/ \E e \in ExecErrors : ExecReturn(h, e)
  \/ Decide(h)
  \/ Unmark(h)

WatchStep(h) ==
  \/ WatchAsk(h)
  \/ WatchNothing(h)
  \/ WatchMark(h)
  \/ WatchCancel(h)
  \/ WatchExit(h)

Next ==
  \/ \E h \in Handlers, t \in TaskIDs : Dispatch(h, t)
  \/ \E h \in Handlers : HandlerStep(h)
  \/ \E h \in Handlers : WatchStep(h)
  \/ \E h \in Handlers : Deadline(h)
  \/ \E h \in Handlers, r \in Reports : Record(h, r)
  \/ \E t \in TaskIDs : RequestCancel(t)
  \/ Shutdown
  \/ RunReturn
  \/ Exit

Spec == Init /\ [][Next]_vars

\* Once the task's context is done the executor kills the process group, and
\* Execute returns.  The agent's user may not signal root's processes, and no
\* WaitDelay is set: a command under sudo is waited for.
KilledReturn(h) == task[h] \notin RootTasks /\ ExecReturn(h, taskCtx[h])

\* A goroutine that can step does; a command need not end by itself; the
\* deadline timer fires; a request is answered or times out (api.Client sets a
\* timeout), and so does the next one.
Progress(h) ==
  \/ Send(h)
  \/ Retransmit(h)
  \/ Acknowledged(h)
  \/ Resend(h)
  \/ Refused(h)
  \/ Unanswered(h)
  \/ Abandoned(h)
  \/ StartExecution(h)
  \/ KilledReturn(h)
  \/ Decide(h)
  \/ Unmark(h)

Fairness == \A h \in Handlers : WF_vars(Progress(h)) /\ WF_vars(Deadline(h))

FairSpec == Spec /\ Fairness

-------------------------------------------------------------------------------
(* Properties *)

Active(h) == pc[h] \notin {"idle", "returned"}

\* Two runs of one task never overlap, the report of the first one's completion
\* included: markRunning tests and inserts under one lock, unmarkRunning is
\* deferred before the report.
OneRunPerTask ==
  \A g, h \in Handlers : g # h /\ Active(g) /\ Active(h) => task[g] # task[h]

\* A status names what happened: "cancelled" a cancellation the platform asked
\* for, "canceled" the agent's shutdown, "timeout" the run's own deadline,
\* "success" an execution without an error.  markCancelled before cancel() is
\* what keeps "canceled" from standing for the platform's cancellation.
StatusTruthful ==
  \A h \in Handlers :
    /\ status[h] = "cancelled" => task[h] \in cancelReq
    /\ status[h] = "canceled" => svc # "serving"
    /\ status[h] = "timeout" => taskCtx[h] = "deadline"
    /\ status[h] = "success" => execErr[h] = "nil"

\* The copies of a request the client may send for one answer.
Copies == IF "network" \in Faults THEN ClientTries ELSE 1

\* The client's retransmissions and the attempts of withQueuedStateRetry nest,
\* but a report is recorded again only for an answer that was lost: an attempt
\* follows a refusal, which records nothing, so that it adds to the records only
\* what the client sent beside the refused copy.  Where every request is
\* answered, that is once.
DuplicatesBounded ==
  \A h \in Handlers, r \in Reports :
    recorded[h][r] <= RetryAttempts * (Copies - 1) + 1

\* A cancellation accepted before the status is fixed decides it, unless the
\* command failed by itself or timed out first: never "success" and never the
\* "canceled" of a shutdown.
CancellationWins ==
  [][\A h \in Handlers :
       status'[h] # status[h] /\ marked[h] => status'[h] \notin {"success", "canceled"}]_vars

\* As long as the agent is not told to stop and its requests are answered, the
\* platform has the completion of a run before the task can be dispatched again.
\* At a shutdown "Always ensure task is completed" (service.go:353) fails: the
\* completion is sent under parentCtx, which is done.
CompletedUnlessDown ==
  \A h \in Handlers :
    pc[h] \in {"unmarking", "returned"} /\ svc = "serving" =>
      \E v \in Verdicts : recorded[h][v] > 0 /\ v = status[h]

\* Every dispatched run leaves the running set, whatever the command, the
\* network and the platform do, unless the process ends first.  The exception is
\* a command of root's that goes on for ever: a killed one is waited for, and
\* holds its task in the running set (and its slot) past the task's deadline.
Finishes ==
  \A h \in Handlers :
    <>[](\/ pc[h] \in {"idle", "returned"}
         \/ svc = "exited"
         \/ task[h] \in RootTasks /\ pc[h] = "executing")

\* The abstract run a handler carries out.
StageOf(point) ==
  CASE point = "idle" -> "free"
    [] point \in {"accepting", "starting", "preparing"} -> "claimed"
    [] point \in {"executing", "deciding"} -> "executing"
    [] point \in {"completing", "unmarking"} -> "finished"
    [] OTHER -> "released"

Contract == INSTANCE TaskContract WITH
  stage    <- [h \in Handlers |-> StageOf(pc[h])],
  job      <- task,
  verdict  <- status,
  reported <- [h \in Handlers |-> {r \in Reports : recorded[h][r] > 0}],
  asked    <- cancelReq,
  down     <- (svc # "serving")

\* The service implements the contract.
ImplementsContract == Contract!Spec

===============================================================================
