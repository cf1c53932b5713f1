--------------------------- MODULE TaskServiceProofs ---------------------------
(****************************************************************************)
(* The safety properties of TaskService for every set of handlers and       *)
(* tasks, every retry limit and every set of faults, from one inductive     *)
(* invariant, and the refinement of TaskContract.                           *)
(****************************************************************************)
EXTENDS TaskService, TLAPS

\* Points before the execution has a context, and after the status is fixed.
Early(h) == pc[h] \in {"idle", "accepting", "starting", "preparing"}
Late(h) == pc[h] \in {"completing", "unmarking", "returned"}

\* The running set covers the active runs, and no two of them share a task.
ClaimInv ==
  /\ \A h \in Handlers : Active(h) => task[h] \in running
  /\ OneRunPerTask

\* Nothing of the execution exists before it starts; afterwards a mark has its
\* request, and a context that is cancelled has a mark or the shutdown behind it.
ContextOf(h) ==
  /\ Early(h) => /\ watch[h] = "off" /\ ~marked[h]
                 /\ taskCtx[h] = "none" /\ execErr[h] = "none"
  /\ marked[h] => task[h] \in cancelReq
  /\ watch[h] = "marked" => marked[h]
  /\ taskCtx[h] = "canceled" /\ ~Late(h) => marked[h] \/ svc # "serving"
  /\ execErr[h] \in {"canceled", "deadline"} => taskCtx[h] = execErr[h]
  /\ pc[h] = "executing" => execErr[h] = "none" /\ taskCtx[h] # "none"
  /\ pc[h] = "deciding" => execErr[h] # "none"
  /\ status[h] = NoVerdict <=> ~Late(h)

ContextInv == \A h \in Handlers : ContextOf(h)

\* A report of which no copy is under way or recorded.
Fresh(h, r) == net[h][r] = 0 /\ recorded[h][r] = 0

CopiesOf(h, r) == net[h][r] + recorded[h][r]

\* The copies the t-th transmission of attempt a makes: every attempt before
\* ended with the refusal of one of its own.
Budget(a, t) == (a - 1) * (ClientTries - 1) + t

\* Only a report point has a request.
PendingInv ==
  \A h \in Handlers : pc[h] \notin ReportPoints => tries[h] = 0 /\ attempt[h] = 1

\* A report has no copy before its turn, and while it is pending no more than
\* the attempts and transmissions so far account for.
WireOf(h) ==
  /\ pc[h] \in ReportPoints => CopiesOf(h, Report(h)) <= Budget(attempt[h], tries[h])
  /\ pc[h] = "idle" => Fresh(h, "accepted")
  /\ pc[h] \in {"idle", "accepting"} => Fresh(h, "started")
  /\ \A v \in Verdicts : v # status[h] => Fresh(h, v)
  /\ \A r \in Reports : CopiesOf(h, r) <= Budget(RetryAttempts, ClientTries)

WireInv == \A h \in Handlers : WireOf(h)

\* With every request answered, an attempt is one transmission, and a new one
\* begins only when the platform has refused the last.
AnsweredOf(h) ==
  /\ tries[h] <= 1
  /\ pc[h] \in ReportPoints /\ tries[h] = 0 => Fresh(h, Report(h))
  /\ \A r \in Reports : CopiesOf(h, r) <= 1

AnsweredInv == "network" \notin Faults => \A h \in Handlers : AnsweredOf(h)

IInv ==
  /\ TypeOK
  /\ ClaimInv
  /\ ContextInv
  /\ StatusTruthful
  /\ PendingInv
  /\ WireInv
  /\ AnsweredInv

-------------------------------------------------------------------------------
(* Each conjunct is kept by every step; one proof step per action. *)

\* At a report point there is a report.
LEMMA ReportTyped ==
  ASSUME TypeOK, ContextInv, NEW h \in Handlers, pc[h] \in ReportPoints
  PROVE  Report(h) \in Reports
  BY DEF TypeOK, ContextInv, ContextOf, Late, Early, ReportPoints, Report, Reports, Verdicts,
     NoVerdict

\* A transmission and a refusal change the copies of an existing report.
LEMMA CopiesTyped ==
  ASSUME TypeOK, ContextInv, PendingInv, NEW h \in Handlers, Transmit(h) \/ Refusal(h)
  PROVE  net' \in [Handlers -> [Reports -> Nat]]
<1>1. Report(h) \in Reports
  BY ReportTyped DEF Transmit, Refusal, PendingInv, TypeOK
<1>2. net[h][Report(h)] \in Nat
  BY <1>1 DEF TypeOK
<1>3. PICK n \in Nat : net' = [net EXCEPT ![h] = [net[h] EXCEPT ![Report(h)] = n]]
  BY <1>2 DEF Transmit, Refusal
<1>4. QED
  BY <1>1, <1>3 DEF TypeOK

\* TypeOK; ContextInv tells that the report being sent exists.
LEMMA TypeStep == TypeOK /\ ContextInv /\ PendingInv /\ [Next]_vars => TypeOK'
<1> SUFFICES ASSUME TypeOK /\ ContextInv /\ PendingInv, [Next]_vars PROVE TypeOK'
  OBVIOUS
<1>0. ASSUME NEW h \in Handlers, Transmit(h) \/ Refusal(h)
      PROVE  net' \in [Handlers -> [Reports -> Nat]]
  BY <1>0, CopiesTyped
<1> USE RetryAssumption DEF TypeOK, Points, ReportPoints, CtxStates, ExecErrors, WatchPoints,
   ctxVars, wireVars, ParentLive, Alive, Verdicts
<1>1. ASSUME NEW h \in Handlers, NEW t \in TaskIDs, Dispatch(h, t) PROVE TypeOK'
  BY <1>1 DEF Dispatch, markRunning
<1>2. ASSUME NEW h \in Handlers, Send(h) \/ Retransmit(h) PROVE TypeOK'
  <2>1. net' \in [Handlers -> [Reports -> Nat]]
    BY <1>0, <1>2 DEF Send, Retransmit
  <2>2. tries[h] + 1 \in 0..ClientTries
    BY <1>2 DEF Send, Retransmit
  <2>3. tries' \in [Handlers -> 0..ClientTries]
    BY <1>2, <2>2 DEF Send, Retransmit, Transmit
  <2>4. QED
    BY <1>2, <2>1, <2>3 DEF Send, Retransmit, Transmit
<1>3. ASSUME NEW h \in Handlers, Acknowledged(h) PROVE TypeOK'
  BY <1>3 DEF Acknowledged, Proceed
<1>4. ASSUME NEW h \in Handlers, Resend(h) PROVE TypeOK'
  <2>1. net' \in [Handlers -> [Reports -> Nat]]
    BY <1>0, <1>4 DEF Resend
  <2>2. attempt[h] + 1 \in 1..RetryAttempts
    BY <1>4 DEF Resend
  <2>3. attempt' \in [Handlers -> 1..RetryAttempts] /\ tries' \in [Handlers -> 0..ClientTries]
    BY <1>4, <2>2 DEF Resend
  <2>4. QED
    BY <1>4, <2>1, <2>3 DEF Resend
<1>5. ASSUME NEW h \in Handlers, Refused(h) PROVE TypeOK'
  <2>1. net' \in [Handlers -> [Reports -> Nat]]
    BY <1>0, <1>5 DEF Refused
  <2>2. attempt' \in [Handlers -> 1..RetryAttempts] /\ tries' \in [Handlers -> 0..ClientTries]
    BY <1>5 DEF Refused, Proceed
  <2>3. pc' \in [Handlers -> Points]
    BY <1>5 DEF Refused, Proceed
  <2>4. QED
    BY <1>5, <2>1, <2>2, <2>3 DEF Refused, Proceed
<1>6. ASSUME NEW h \in Handlers, Unanswered(h) PROVE TypeOK'
  BY <1>6 DEF Unanswered, Proceed
<1>7. ASSUME NEW h \in Handlers, Abandoned(h) PROVE TypeOK'
  BY <1>7 DEF Abandoned, Proceed
<1>8. ASSUME NEW h \in Handlers, StartExecution(h) PROVE TypeOK'
  BY <1>8 DEF StartExecution
<1>9. ASSUME NEW h \in Handlers, NEW e \in ExecErrors, ExecReturn(h, e) PROVE TypeOK'
  BY <1>9 DEF ExecReturn
<1>10. ASSUME NEW h \in Handlers, Decide(h) PROVE TypeOK'
  BY <1>10 DEF Decide, FinalError, taskStatus, Dead
<1>11. ASSUME NEW h \in Handlers, Unmark(h) PROVE TypeOK'
  BY <1>11 DEF Unmark, unmarkRunning
<1>12. ASSUME NEW h \in Handlers, WatchStep(h) PROVE TypeOK'
  BY <1>12 DEF WatchStep, WatchAsk, WatchNothing, WatchMark, WatchCancel, WatchExit, Dead
<1>13. ASSUME NEW h \in Handlers, Deadline(h) PROVE TypeOK'
  BY <1>13 DEF Deadline
<1>14. ASSUME NEW h \in Handlers, NEW r \in Reports, Record(h, r) PROVE TypeOK'
  BY <1>14 DEF Record
<1>15. ASSUME NEW t \in TaskIDs, RequestCancel(t) PROVE TypeOK'
  BY <1>15 DEF RequestCancel
<1>16. CASE Shutdown
  BY <1>16 DEF Shutdown, Dead
<1>17. CASE RunReturn
  BY <1>17 DEF RunReturn
<1>18. CASE Exit
  BY <1>18 DEF Exit
<1>19. CASE UNCHANGED vars
  BY <1>19 DEF vars, ctxVars, wireVars
<1>20. QED
  BY <1>1, <1>2, <1>3, <1>4, <1>5, <1>6, <1>7, <1>8, <1>9, <1>10, <1>11, <1>12, <1>13, <1>14,
     <1>15, <1>16, <1>17, <1>18, <1>19 DEF Next, HandlerStep

\* A report point is left through Proceed.
LEMMA ReportEnds ==
  ASSUME TypeOK, PendingInv, NEW h \in Handlers,
         Acknowledged(h) \/ Refused(h) \/ Unanswered(h) \/ Abandoned(h)
  PROVE  pc[h] \in ReportPoints /\ Proceed(h)
<1>1. Proceed(h) /\ (tries[h] > 0 \/ pc[h] \in ReportPoints)
  BY RetryAssumption DEF Acknowledged, Refused, Refusal, Unanswered, Abandoned
<1>2. QED
  BY <1>1 DEF PendingInv, TypeOK

\* The steps that move no handler.
Still ==
  \/ \E h \in Handlers : WatchStep(h) \/ Deadline(h)
  \/ \E h \in Handlers, r \in Reports : Record(h, r)
  \/ \E t \in TaskIDs : RequestCancel(t)
  \/ Shutdown \/ RunReturn \/ Exit \/ UNCHANGED vars

\* They leave the handlers' control state alone.
LEMMA StillFrame == Still => UNCHANGED <<running, pc, task, tries, attempt>>
  BY DEF Still, WatchStep, WatchAsk, WatchNothing, WatchMark, WatchCancel, WatchExit, Deadline,
     Record, RequestCancel, Shutdown, RunReturn, Exit, vars, wireVars, ctxVars

\* A request ends with the step that leaves its point.
LEMMA PendingStep == TypeOK /\ PendingInv /\ [Next]_vars => PendingInv'
<1> SUFFICES ASSUME TypeOK, PendingInv, [Next]_vars PROVE PendingInv'
  OBVIOUS
<1>1. CASE Still
  BY <1>1, StillFrame DEF PendingInv
<1>2. ASSUME NEW h \in Handlers, NEW t \in TaskIDs, Dispatch(h, t) PROVE PendingInv'
  BY <1>2 DEF Dispatch, PendingInv, ReportPoints, wireVars, TypeOK
<1>3. ASSUME NEW h \in Handlers,
             Acknowledged(h) \/ Refused(h) \/ Unanswered(h) \/ Abandoned(h)
      PROVE  PendingInv'
  BY <1>3, ReportEnds DEF Proceed, PendingInv, ReportPoints, TypeOK
<1>4. ASSUME NEW h \in Handlers, Send(h) \/ Retransmit(h) PROVE PendingInv'
  BY <1>4 DEF Send, Retransmit, Transmit, PendingInv, TypeOK
<1>5. ASSUME NEW h \in Handlers, Resend(h) PROVE PendingInv'
  BY <1>5 DEF Resend, Refusal, PendingInv, TypeOK
<1>6. ASSUME NEW h \in Handlers,
             \/ StartExecution(h) \/ (\E e \in ExecErrors : ExecReturn(h, e))
             \/ Decide(h) \/ Unmark(h)
      PROVE  PendingInv'
  <2>1. pc[h] \notin ReportPoints /\ UNCHANGED <<tries, attempt>>
    BY <1>6 DEF StartExecution, ExecReturn, Decide, Unmark, ReportPoints, wireVars
  <2>2. \A g \in Handlers \ {h} : pc'[g] = pc[g]
    BY <1>6 DEF StartExecution, ExecReturn, Decide, Unmark, TypeOK
  <2>3. QED
    BY <2>1, <2>2 DEF PendingInv
<1>7. QED
  BY <1>1, <1>2, <1>3, <1>4, <1>5, <1>6 DEF Next, HandlerStep, Still

\* The claim made under the lock lasts until the deferred unmarkRunning.
LEMMA ClaimStep == TypeOK /\ ClaimInv /\ PendingInv /\ [Next]_vars => ClaimInv'
<1> SUFFICES ASSUME TypeOK, ClaimInv, PendingInv, [Next]_vars PROVE ClaimInv'
  OBVIOUS
<1>1. ASSUME UNCHANGED <<running, task>>, \A g \in Handlers : Active(g)' => Active(g)
      PROVE  ClaimInv'
  BY <1>1 DEF ClaimInv, OneRunPerTask
<1>2. CASE Still
  BY <1>1, <1>2, StillFrame DEF Active
<1>3. ASSUME NEW h \in Handlers, NEW t \in TaskIDs, Dispatch(h, t) PROVE ClaimInv'
  <2>1. /\ t \notin running /\ running' = running \cup {t} /\ task'[h] = t
        /\ \A g \in Handlers \ {h} : task'[g] = task[g] /\ (Active(g)' <=> Active(g))
    BY <1>3 DEF Dispatch, markRunning, TypeOK, Active
  <2>2. \A g \in Handlers \ {h} : Active(g)' => task'[g] \in running /\ task'[g] # t
    BY <2>1 DEF ClaimInv
  <2>3. QED
    BY <2>1, <2>2 DEF ClaimInv, OneRunPerTask
<1>4. ASSUME NEW h \in Handlers, Unmark(h) PROVE ClaimInv'
  <2>1. /\ running' = running \ {task[h]} /\ task' = task /\ Active(h) /\ ~Active(h)'
        /\ \A g \in Handlers \ {h} : Active(g)' <=> Active(g)
    BY <1>4 DEF Unmark, unmarkRunning, TypeOK, Active
  <2>2. QED
    BY <2>1 DEF ClaimInv, OneRunPerTask
<1>5. ASSUME NEW h \in Handlers,
             Acknowledged(h) \/ Refused(h) \/ Unanswered(h) \/ Abandoned(h)
      PROVE  ClaimInv'
  <2>1. \A g \in Handlers : Active(g)' => Active(g)
    BY <1>5, ReportEnds DEF Proceed, ReportPoints, Active, TypeOK
  <2>2. QED
    BY <1>1, <1>5, <2>1, ReportEnds DEF Proceed
<1>6. ASSUME NEW h \in Handlers, Send(h) \/ Retransmit(h) \/ Resend(h) PROVE ClaimInv'
  BY <1>1, <1>6 DEF Send, Retransmit, Transmit, Resend, Active
<1>7. ASSUME NEW h \in Handlers,
             StartExecution(h) \/ (\E e \in ExecErrors : ExecReturn(h, e)) \/ Decide(h)
      PROVE  ClaimInv'
  <2>1. \A g \in Handlers : Active(g)' => Active(g)
    BY <1>7 DEF StartExecution, ExecReturn, Decide, Active, TypeOK
  <2>2. QED
    BY <1>1, <1>7, <2>1 DEF StartExecution, ExecReturn, Decide
<1>8. QED
  BY <1>2, <1>3, <1>4, <1>5, <1>6, <1>7 DEF Next, HandlerStep, Still

\* What a cancelled context means, and the status Decide derives from it.
LEMMA ContextStep ==
  TypeOK /\ ContextInv /\ StatusTruthful /\ PendingInv /\ [Next]_vars
    => (ContextInv /\ StatusTruthful)'
<1> SUFFICES ASSUME TypeOK /\ ContextInv /\ StatusTruthful /\ PendingInv, [Next]_vars
             PROVE  (ContextInv /\ StatusTruthful)'
  OBVIOUS
<1> USE RetryAssumption DEF TypeOK, Points, ReportPoints, CtxStates, ExecErrors, WatchPoints,
   ctxVars, wireVars, ContextInv, ContextOf, StatusTruthful, Early, Late, ParentLive,
   NoVerdict, PendingInv
<1>1. ASSUME NEW h \in Handlers, NEW t \in TaskIDs, Dispatch(h, t)
      PROVE  (ContextInv /\ StatusTruthful)'
  BY <1>1 DEF Dispatch, markRunning
<1>2. ASSUME NEW h \in Handlers, Send(h) \/ Retransmit(h) PROVE (ContextInv /\ StatusTruthful)'
  BY <1>2 DEF Send, Retransmit, Transmit
<1>3. ASSUME NEW h \in Handlers, Acknowledged(h) PROVE (ContextInv /\ StatusTruthful)'
  BY <1>3 DEF Acknowledged, Proceed
<1>4. ASSUME NEW h \in Handlers, Resend(h) PROVE (ContextInv /\ StatusTruthful)'
  BY <1>4 DEF Resend, Refusal
<1>5. ASSUME NEW h \in Handlers, Refused(h) PROVE (ContextInv /\ StatusTruthful)'
  BY <1>5 DEF Refused, Refusal, Proceed
<1>6. ASSUME NEW h \in Handlers, Unanswered(h) PROVE (ContextInv /\ StatusTruthful)'
  BY <1>6 DEF Unanswered, Proceed
<1>7. ASSUME NEW h \in Handlers, Abandoned(h) PROVE (ContextInv /\ StatusTruthful)'
  BY <1>7 DEF Abandoned, Proceed
<1>8. ASSUME NEW h \in Handlers, StartExecution(h) PROVE (ContextInv /\ StatusTruthful)'
  BY <1>8 DEF StartExecution
<1>9. ASSUME NEW h \in Handlers, NEW e \in ExecErrors, ExecReturn(h, e)
      PROVE  (ContextInv /\ StatusTruthful)'
  BY <1>9 DEF ExecReturn
<1>10. ASSUME NEW h \in Handlers, Decide(h) PROVE (ContextInv /\ StatusTruthful)'
  <2>1. /\ pc[h] = "deciding" /\ pc'[h] = "completing" /\ status'[h] = taskStatus(FinalError(h))
        /\ taskCtx'[h] = Dead(taskCtx[h])
        /\ \A g \in Handlers \ {h} : pc'[g] = pc[g] /\ status'[g] = status[g] /\ taskCtx'[g] = taskCtx[g]
        /\ UNCHANGED <<svc, cancelReq, task, execErr, watch, marked>>
    BY <1>10 DEF Decide
  <2>2. /\ status'[h] \in Verdicts
        /\ status'[h] = "cancelled" => marked[h]
        /\ status'[h] = "canceled" => execErr[h] = "canceled" /\ ~marked[h]
        /\ status'[h] = "timeout" => execErr[h] = "deadline"
        /\ status'[h] = "success" => execErr[h] = "nil"
    BY <2>1 DEF taskStatus, FinalError, Verdicts
  <2>3. NoVerdict \notin Verdicts
    BY DEF Verdicts
  <2>4. execErr[h] # "none" /\ execErr[h] \in {"canceled", "deadline"} => taskCtx'[h] = execErr[h]
    BY <2>1 DEF Dead
  <2>5. ContextInv'
    <3>1. \A g \in Handlers \ {h} : ContextOf(g)'
      BY <2>1
    <3>2. ContextOf(h)'
      <4>1. ContextOf(h)
        OBVIOUS
      <4>2. ~Early(h)' /\ Late(h)' /\ pc'[h] \notin {"executing",
         "deciding"} /\ status'[h] # NoVerdict
        BY <2>1, <2>2, <2>3
      <4>3. UNCHANGED <<cancelReq, svc, task[h], marked[h], watch[h], execErr[h]>>
        BY <2>1
      <4>4. QED
        BY <4>1, <4>2, <4>3, <2>4
    <3>3. QED
      BY <3>1, <3>2
  <2>6. StatusTruthful'
    <3>1. status'[h] = "cancelled" => task[h] \in cancelReq
      BY <2>2
    <3>2. status'[h] = "canceled" => svc # "serving"
      BY <2>1, <2>2
    <3>3. status'[h] = "timeout" => taskCtx'[h] = "deadline"
      BY <2>2, <2>4
    <3>4. QED
      BY <2>1, <2>2, <3>1, <3>2, <3>3
  <2>7. QED
    BY <2>5, <2>6
<1>11. ASSUME NEW h \in Handlers, Unmark(h) PROVE (ContextInv /\ StatusTruthful)'
  BY <1>11 DEF Unmark, unmarkRunning
<1>12. ASSUME NEW h \in Handlers, WatchStep(h) PROVE (ContextInv /\ StatusTruthful)'
  BY <1>12 DEF WatchStep, WatchAsk, WatchNothing, WatchMark, WatchCancel, WatchExit, Dead
<1>13. ASSUME NEW h \in Handlers, Deadline(h) PROVE (ContextInv /\ StatusTruthful)'
  BY <1>13 DEF Deadline
<1>14. ASSUME NEW h \in Handlers, NEW r \in Reports, Record(h, r)
       PROVE  (ContextInv /\ StatusTruthful)'
  BY <1>14 DEF Record
<1>15. ASSUME NEW t \in TaskIDs, RequestCancel(t) PROVE (ContextInv /\ StatusTruthful)'
  BY <1>15 DEF RequestCancel
<1>16. CASE Shutdown
  BY <1>16 DEF Shutdown, Dead
<1>17. CASE RunReturn
  BY <1>17 DEF RunReturn
<1>18. CASE Exit
  BY <1>18 DEF Exit
<1>19. CASE UNCHANGED vars
  BY <1>19 DEF vars, ctxVars, wireVars
<1>20. QED
  BY <1>1, <1>2, <1>3, <1>4, <1>5, <1>6, <1>7, <1>8, <1>9, <1>10, <1>11, <1>12, <1>13, <1>14,
     <1>15, <1>16, <1>17, <1>18, <1>19 DEF Next, HandlerStep

\* The budget grows by one per transmission; a refused copy less, it covers the
\* next attempt's start.
LEMMA BudgetFacts ==
  /\ Budget(1, 0) = 0
  /\ \A a \in 1..RetryAttempts, t \in 0..ClientTries :
       /\ Budget(a, t) \in Nat
       /\ Budget(a, t + 1) = Budget(a, t) + 1
       /\ Budget(a, t) <= Budget(a + 1, 0) + 1
       /\ Budget(a, t) <= Budget(RetryAttempts, ClientTries)
<1> DEFINE Others == ClientTries - 1
<1> SUFFICES ASSUME NEW a \in 1..RetryAttempts, NEW t \in 0..ClientTries
             PROVE  /\ Budget(a, t) \in Nat
                    /\ Budget(a, t + 1) = Budget(a, t) + 1
                    /\ Budget(a, t) <= Budget(a + 1, 0) + 1
                    /\ Budget(a, t) <= Budget(RetryAttempts, ClientTries)
  BY RetryAssumption DEF Budget
<1>1. Others \in Nat /\ t <= Others + 1 /\ ClientTries = Others + 1
  BY RetryAssumption
<1>2. /\ Budget(a, t) = (a - 1) * Others + t
      /\ Budget(a, t + 1) = (a - 1) * Others + (t + 1)
      /\ Budget(a + 1, 0) = a * Others
      /\ Budget(RetryAttempts, ClientTries) = (RetryAttempts - 1) * Others + ClientTries
  BY RetryAssumption DEF Budget
<1> HIDE DEF Others
<1>3. (a - 1) * Others \in Nat /\ a * Others = (a - 1) * Others + Others
  BY <1>1
<1>4. (a - 1) * Others <= (RetryAttempts - 1) * Others
  BY <1>1, RetryAssumption
<1>5. (RetryAttempts - 1) * Others \in Nat
  BY <1>1, RetryAssumption
<1>6. QED
  BY <1>1, <1>2, <1>3, <1>4, <1>5, RetryAssumption

\* What the wire invariants read of a handler.
Wire(h) == <<pc[h], status[h], tries[h], attempt[h], net[h], recorded[h]>>

\* They hold on for a handler whose part of the state stays as it is.
LEMMA WireFrame ==
  ASSUME NEW h \in Handlers, UNCHANGED Wire(h)
  PROVE  (WireOf(h) => WireOf(h)') /\ (AnsweredOf(h) => AnsweredOf(h)')
  BY DEF Wire, WireOf, AnsweredOf, CopiesOf, Fresh, Report

\* A step changes that part for one handler at most.
LEMMA WireLocal ==
  ASSUME TypeOK, NEW h \in Handlers,
         HandlerStep(h) \/ (\E t \in TaskIDs : Dispatch(h, t)) \/ (\E r \in Reports : Record(h, r)),
         NEW g \in Handlers \ {h}
  PROVE  UNCHANGED Wire(g)
<1> USE DEF TypeOK, Wire, wireVars
<1>1. CASE Send(h) \/ Retransmit(h)
  BY <1>1 DEF Send, Retransmit, Transmit
<1>2. CASE Acknowledged(h) \/ Unanswered(h) \/ Abandoned(h)
  BY <1>2 DEF Acknowledged, Unanswered, Abandoned, Proceed
<1>3. CASE Resend(h) \/ Refused(h)
  BY <1>3 DEF Resend, Refused, Refusal, Proceed
<1>4. CASE StartExecution(h) \/ (\E e \in ExecErrors : ExecReturn(h, e)) \/ Decide(h) \/ Unmark(h)
  BY <1>4 DEF StartExecution, ExecReturn, Decide, Unmark
<1>5. CASE \E t \in TaskIDs : Dispatch(h, t)
  BY <1>5 DEF Dispatch
<1>6. CASE \E r \in Reports : Record(h, r)
  BY <1>6 DEF Record
<1>7. QED
  BY <1>1, <1>2, <1>3, <1>4, <1>5, <1>6 DEF HandlerStep

\* Every other step leaves it alone.
LEMMA WireQuiet ==
  ASSUME \/ \E h \in Handlers : WatchStep(h) \/ Deadline(h)
         \/ \E t \in TaskIDs : RequestCancel(t)
         \/ Shutdown \/ RunReturn \/ Exit \/ UNCHANGED vars,
         NEW g \in Handlers
  PROVE  UNCHANGED Wire(g)
  BY DEF WatchStep, WatchAsk, WatchNothing, WatchMark, WatchCancel, WatchExit, Deadline,
     RequestCancel, Shutdown, RunReturn, Exit, vars, wireVars, ctxVars, Wire

\* The copies after a transmission and after a refusal.
LEMMA CopiesStep ==
  ASSUME TypeOK, ContextInv, PendingInv, NEW h \in Handlers
  PROVE  /\ Transmit(h) =>
              /\ pc[h] \in ReportPoints /\ Report(h) \in Reports /\ recorded' = recorded
              /\ \A r \in Reports : net'[h][r] = net[h][r] + (IF r = Report(h) THEN 1 ELSE 0)
         /\ Refusal(h) =>
              /\ pc[h] \in ReportPoints /\ Report(h) \in Reports /\ net[h][Report(h)] > 0
              /\ \A r \in Reports : net'[h][r] = net[h][r] - (IF r = Report(h) THEN 1 ELSE 0)
<1>1. pc[h] \in ReportPoints => Report(h) \in Reports
  BY ReportTyped
<1>2. ASSUME Transmit(h)
      PROVE  /\ pc[h] \in ReportPoints /\ Report(h) \in Reports /\ recorded' = recorded
             /\ \A r \in Reports : net'[h][r] = net[h][r] + (IF r = Report(h) THEN 1 ELSE 0)
  BY <1>1, <1>2 DEF Transmit, TypeOK
<1>3. ASSUME Refusal(h)
      PROVE  /\ pc[h] \in ReportPoints /\ Report(h) \in Reports /\ net[h][Report(h)] > 0
             /\ \A r \in Reports : net'[h][r] = net[h][r] - (IF r = Report(h) THEN 1 ELSE 0)
  <2>1. pc[h] \in ReportPoints
    BY <1>3 DEF Refusal, PendingInv, TypeOK
  <2>2. QED
    BY <1>1, <1>3, <2>1 DEF Refusal, TypeOK
<1>4. QED
  BY <1>2, <1>3

\* The handler that transmits.
LEMMA WireTransmit ==
  ASSUME TypeOK, ContextInv, PendingInv, NEW h \in Handlers, Send(h) \/ Retransmit(h), WireOf(h)
  PROVE  WireOf(h)' /\ ("network" \notin Faults /\ AnsweredOf(h) => AnsweredOf(h)')
<1>1. Transmit(h) /\ tries[h] < ClientTries /\ (tries[h] = 0 \/ "network" \in Faults)
  BY RetryAssumption DEF Send, Retransmit
<1>2. /\ pc[h] \in ReportPoints /\ Report(h) \in Reports
      /\ \A r \in Reports : CopiesOf(h, r)' = CopiesOf(h, r) + (IF r = Report(h) THEN 1 ELSE 0)
  <2>1. /\ pc[h] \in ReportPoints /\ Report(h) \in Reports /\ recorded' = recorded
        /\ \A r \in Reports : net'[h][r] = net[h][r] + (IF r = Report(h) THEN 1 ELSE 0)
    BY <1>1, CopiesStep
  <2>2. QED
    <3>1. \A r \in Reports : net[h][r] \in Nat /\ recorded[h][r] \in Nat
      BY DEF TypeOK
    <3>2. QED
      BY <2>1, <3>1 DEF CopiesOf
<1>3. /\ pc' = pc /\ status' = status /\ attempt' = attempt
      /\ tries'[h] = tries[h] + 1 /\ Report(h)' = Report(h)
  BY <1>1 DEF Transmit, TypeOK, Report
<1>4. \A r \in Reports : r # Report(h) => Fresh(h, r)' = Fresh(h, r)
  BY <1>1, CopiesStep DEF Fresh, TypeOK
<1>5. /\ Budget(attempt[h], tries[h] + 1) = Budget(attempt[h], tries[h]) + 1
      /\ Budget(attempt[h], tries[h] + 1) <= Budget(RetryAttempts, ClientTries)
      /\ Budget(attempt[h], tries[h]) \in Nat /\ Budget(RetryAttempts, ClientTries) \in Nat
  BY <1>1, BudgetFacts, RetryAssumption DEF TypeOK
<1>6. \A r \in Reports : CopiesOf(h, r) \in Nat
  BY DEF CopiesOf, TypeOK
<1>7. /\ pc[h] # "idle"
      /\ pc[h] = "accepting" => Report(h) = "accepted"
      /\ \A v \in Verdicts : v # status[h] => v # Report(h)
      /\ "started" \in Reports /\ Verdicts \subseteq Reports
  BY <1>2 DEF ReportPoints, Report, Reports, Verdicts
<1>8. WireOf(h)'
  BY <1>2, <1>3, <1>4, <1>5, <1>6, <1>7 DEF WireOf
<1>9. ASSUME "network" \notin Faults, AnsweredOf(h) PROVE AnsweredOf(h)'
  <2>1. tries[h] = 0 /\ CopiesOf(h, Report(h)) = 0
    BY <1>1, <1>2, <1>9 DEF AnsweredOf, Fresh, CopiesOf
  <2>2. QED
    BY <1>2, <1>3, <1>6, <1>9, <2>1 DEF AnsweredOf
<1>10. QED
  BY <1>8, <1>9

\* The handler whose request is refused but tried again.
LEMMA WireResend ==
  ASSUME TypeOK, ContextInv, PendingInv, NEW h \in Handlers, Resend(h), WireOf(h)
  PROVE  WireOf(h)' /\ ("network" \notin Faults /\ AnsweredOf(h) => AnsweredOf(h)')
<1>1. /\ pc[h] \in ReportPoints /\ Report(h) \in Reports /\ net[h][Report(h)] > 0
      /\ \A r \in Reports : CopiesOf(h, r)' = CopiesOf(h, r) - (IF r = Report(h) THEN 1 ELSE 0)
      /\ \A r \in Reports : Fresh(h, r) => Fresh(h, r)'
  <2>1. /\ pc[h] \in ReportPoints /\ Report(h) \in Reports /\ net[h][Report(h)] > 0
        /\ \A r \in Reports : net'[h][r] = net[h][r] - (IF r = Report(h) THEN 1 ELSE 0)
        /\ recorded' = recorded
    BY CopiesStep DEF Resend
  <2>2. \A r \in Reports : net[h][r] \in Nat /\ recorded[h][r] \in Nat
    BY DEF TypeOK
  <2>3. QED
    BY <2>1, <2>2 DEF CopiesOf, Fresh
<1>2. /\ pc' = pc /\ status' = status /\ attempt'[h] = attempt[h] + 1
      /\ tries'[h] = 0 /\ Report(h)' = Report(h) /\ recorded' = recorded
  BY DEF Resend, TypeOK, Report
<1>3. /\ Budget(attempt[h], tries[h]) <= Budget(attempt[h] + 1, 0) + 1
      /\ Budget(attempt[h], tries[h]) \in Nat /\ Budget(RetryAttempts, ClientTries) \in Nat
      /\ Budget(attempt[h] + 1, 0) \in Nat
  BY BudgetFacts, RetryAssumption DEF TypeOK, Resend
<1>4. \A r \in Reports : CopiesOf(h, r) \in Nat
  BY DEF CopiesOf, TypeOK
<1>5. "started" \in Reports /\ "accepted" \in Reports /\ Verdicts \subseteq Reports
  BY DEF Reports
<1>6. WireOf(h)'
  BY <1>1, <1>2, <1>3, <1>4, <1>5 DEF WireOf
<1>7. ASSUME AnsweredOf(h) PROVE AnsweredOf(h)'
  <2>1. net[h][Report(h)] + recorded[h][Report(h)] = 1
    <3>1. CopiesOf(h, Report(h)) <= 1
      BY <1>1, <1>7 DEF AnsweredOf
    <3>2. net[h][Report(h)] \in Nat /\ recorded[h][Report(h)] \in Nat
      BY <1>1 DEF TypeOK
    <3>3. QED
      BY <1>1, <3>1, <3>2 DEF CopiesOf
  <2>2. net'[h][Report(h)] = 0 /\ recorded'[h][Report(h)] = 0
    <3>1. net'[h][Report(h)] = net[h][Report(h)] - 1
      BY <1>1, CopiesStep DEF Resend
    <3>2. net[h][Report(h)] \in Nat /\ recorded[h][Report(h)] \in Nat
      BY <1>1 DEF TypeOK
    <3>3. QED
      BY <1>1, <1>2, <2>1, <3>1, <3>2
  <2>3. QED
    BY <1>1, <1>2, <1>4, <1>7, <2>2 DEF AnsweredOf, Fresh
<1>8. QED
  BY <1>6, <1>7

\* The handler that takes any other step: what it reports next is fresh.
LEMMA WireMove ==
  ASSUME TypeOK, ContextInv, PendingInv, NEW h \in Handlers, WireOf(h),
         \/ \E t \in TaskIDs : Dispatch(h, t)
         \/ Acknowledged(h) \/ Refused(h) \/ Unanswered(h) \/ Abandoned(h)
         \/ StartExecution(h) \/ (\E e \in ExecErrors : ExecReturn(h, e)) \/ Decide(h) \/ Unmark(h)
  PROVE  WireOf(h)' /\ (AnsweredOf(h) => AnsweredOf(h)')
<1>1. \A r \in Reports : CopiesOf(h, r)' <= CopiesOf(h, r) /\ (Fresh(h, r) => Fresh(h, r)')
  <2>1. CASE Refused(h)
    <3>1. /\ net[h][Report(h)] > 0 /\ Report(h) \in Reports /\ recorded' = recorded
          /\ \A r \in Reports : net'[h][r] = net[h][r] - (IF r = Report(h) THEN 1 ELSE 0)
      BY <2>1, CopiesStep DEF Refused, Proceed
    <3>2. QED
      BY <3>1, SMTT(40) DEF CopiesOf, Fresh, TypeOK
  <2>2. CASE ~Refused(h)
    BY <2>2 DEF Dispatch, Acknowledged, Unanswered, Abandoned, StartExecution, ExecReturn, Decide,
       Unmark, Proceed, wireVars, CopiesOf, Fresh, TypeOK
  <2>3. QED
    BY <2>1, <2>2
<1>2. tries'[h] = 0 /\ attempt'[h] = 1
  BY DEF Dispatch, Acknowledged, Refused, Unanswered, Abandoned, StartExecution, ExecReturn, Decide,
     Unmark, Proceed, wireVars, TypeOK, PendingInv, ReportPoints
<1>3. /\ pc'[h] # "idle"
      /\ pc'[h] = "accepting" => pc[h] = "idle"
      /\ pc'[h] = "starting" => pc[h] = "accepting"
      /\ pc'[h] = "completing" => Decide(h)
      /\ status'[h] # status[h] => Decide(h)
  <2>1. CASE Acknowledged(h) \/ Refused(h) \/ Unanswered(h) \/ Abandoned(h)
    <3>1. pc[h] \in ReportPoints
      BY <2>1, RetryAssumption DEF Acknowledged, Refused, Refusal, Unanswered, Abandoned,
         PendingInv, TypeOK
    <3>2. Proceed(h)
      BY <2>1 DEF Acknowledged, Refused, Unanswered, Abandoned
    <3>3. QED
      BY <3>1, <3>2 DEF Proceed, ReportPoints, TypeOK
  <2>2. CASE ~(Acknowledged(h) \/ Refused(h) \/ Unanswered(h) \/ Abandoned(h))
    BY <2>2 DEF Dispatch, StartExecution, ExecReturn, Decide, Unmark, TypeOK
  <2>3. QED
    BY <2>1, <2>2
<1>4. Decide(h) => pc[h] = "deciding" /\ pc'[h] = "completing" /\ status[h] = NoVerdict /\ status'[h] \in Verdicts
  BY DEF Decide, taskStatus, Verdicts, ContextInv, ContextOf, Late, TypeOK
<1>5. \A v \in Verdicts : v # status'[h] => Fresh(h, v)
  BY <1>3, <1>4 DEF WireOf, Verdicts, NoVerdict
<1>6. pc'[h] \in ReportPoints => Report(h)' \in Reports /\ Fresh(h, Report(h)')
  <2>1. CASE pc'[h] = "accepting"
    BY <1>3, <2>1 DEF WireOf, Report, Reports
  <2>2. CASE pc'[h] = "starting"
    BY <1>3, <2>2 DEF WireOf, Report, Reports
  <2>3. CASE pc'[h] = "completing"
    BY <1>3, <1>4, <2>3 DEF WireOf, Report, Reports, Verdicts, NoVerdict
  <2>4. QED
    BY <2>1, <2>2, <2>3 DEF ReportPoints
<1>7. pc'[h] \in ReportPoints => Fresh(h, Report(h))' /\ CopiesOf(h, Report(h))' = 0
  BY <1>1, <1>6 DEF Fresh, CopiesOf
<1>8. "started" \in Reports /\ Verdicts \subseteq Reports
  BY DEF Reports
<1>9. \A r \in Reports : CopiesOf(h, r) \in Nat /\ CopiesOf(h, r)' \in Nat
  <2>1. ContextInv /\ PendingInv /\ TypeOK /\ [Next]_vars
    BY DEF Next, HandlerStep
  <2>2. TypeOK'
    BY <2>1, TypeStep
  <2>3. QED
    BY <2>2 DEF CopiesOf, TypeOK
<1>10. Budget(RetryAttempts, ClientTries) \in Nat
  BY BudgetFacts, RetryAssumption
<1>11. WireOf(h)'
  BY <1>1, <1>2, <1>3, <1>5, <1>7, <1>8, <1>9, <1>10, BudgetFacts DEF WireOf
<1>12. ASSUME AnsweredOf(h) PROVE AnsweredOf(h)'
  BY <1>1, <1>2, <1>7, <1>9, <1>12 DEF AnsweredOf
<1>13. QED
  BY <1>11, <1>12

\* The handler one of whose copies is recorded: a fresh report has none.
LEMMA WireRecord ==
  ASSUME TypeOK, ContextInv, NEW h \in Handlers, NEW r \in Reports, Record(h, r), WireOf(h)
  PROVE  WireOf(h)' /\ (AnsweredOf(h) => AnsweredOf(h)')
<1>1. \A q \in Reports : CopiesOf(h, q)' = CopiesOf(h, q) /\ (Fresh(h, q) => Fresh(h, q)')
  BY DEF Record, CopiesOf, Fresh, TypeOK
<1>2. pc' = pc /\ status' = status /\ attempt' = attempt /\ tries' = tries /\ Report(h)' = Report(h)
  BY DEF Record, Report
<1>3. pc[h] \in ReportPoints => Report(h) \in Reports
  BY ReportTyped
<1>4. "started" \in Reports /\ "accepted" \in Reports /\ Verdicts \subseteq Reports
  BY DEF Reports
<1>5. QED
  BY <1>1, <1>2, <1>3, <1>4 DEF WireOf, AnsweredOf

\* No step sends a report more often than its budget allows, or, with every
\* request answered, again before it was refused.
LEMMA WireStep ==
  TypeOK /\ ContextInv /\ PendingInv /\ WireInv /\ AnsweredInv /\ [Next]_vars => WireInv' /\ AnsweredInv'
<1> SUFFICES ASSUME TypeOK, ContextInv, PendingInv, WireInv, AnsweredInv, [Next]_vars,
   NEW g \in Handlers
             PROVE  WireOf(g)' /\ ("network" \notin Faults => AnsweredOf(g)')
  BY DEF WireInv, AnsweredInv
<1>1. WireOf(g) /\ ("network" \notin Faults => AnsweredOf(g))
  BY DEF WireInv, AnsweredInv
<1>2. CASE UNCHANGED Wire(g)
  BY <1>1, <1>2, WireFrame
<1>3. CASE HandlerStep(g) \/ (\E t \in TaskIDs : Dispatch(g,
   t)) \/ (\E r \in Reports : Record(g, r))
  BY <1>1, <1>3, WireTransmit, WireResend, WireMove, WireRecord DEF HandlerStep
<1>4. ASSUME NEW h \in Handlers \ {g},
             HandlerStep(h) \/ (\E t \in TaskIDs : Dispatch(h,
                t)) \/ (\E r \in Reports : Record(h, r))
      PROVE  UNCHANGED Wire(g)
  BY <1>4, WireLocal
<1>5. QED
  BY <1>2, <1>3, <1>4, WireQuiet DEF Next

-------------------------------------------------------------------------------
(* The theorems *)

\* The inductive invariant holds initially ...
LEMMA InitInv == Init => IInv
  BY RetryAssumption, BudgetFacts DEF Init, IInv, TypeOK, Points, CtxStates, ExecErrors,
     WatchPoints,
     ReportPoints, ClaimInv, OneRunPerTask, Active, ContextInv, ContextOf, Early, Late,
     StatusTruthful, PendingInv, WireInv, WireOf, AnsweredInv, AnsweredOf, Fresh, CopiesOf,
     NoVerdict, Verdicts, Reports

\* ... and is kept by every step.
LEMMA StepInv == IInv /\ [Next]_vars => IInv'
  BY TypeStep, PendingStep, ClaimStep, ContextStep, WireStep DEF IInv

\* The inductive invariant holds in every reachable state.
THEOREM Invariance == Spec => []IInv
<1>1. Init => IInv
  BY InitInv
<1>2. IInv /\ [Next]_vars => IInv'
  BY StepInv
<1>3. QED
  BY <1>1, <1>2, PTL DEF Spec

\* Type correctness.
THEOREM TypeCorrect == Spec => []TypeOK
<1>1. IInv => TypeOK
  BY DEF IInv
<1>2. QED
  BY Invariance, <1>1, PTL

\* No two unfinished runs of one task, for any number of dispatches.
THEOREM SingleRun == Spec => []OneRunPerTask
<1>1. IInv => OneRunPerTask
  BY DEF IInv, ClaimInv
<1>2. QED
  BY Invariance, <1>1, PTL

\* A completion status names what happened.
THEOREM TruthfulStatus == Spec => []StatusTruthful
<1>1. IInv => StatusTruthful
  BY DEF IInv
<1>2. QED
  BY Invariance, <1>1, PTL

\* No report is recorded more often than for its refused attempts' other copies
\* and the last one's, and once where every request is answered.
THEOREM BoundedDuplicates == Spec => []DuplicatesBounded
<1>1. Budget(RetryAttempts, ClientTries) = RetryAttempts * (ClientTries - 1) + 1
  BY RetryAssumption DEF Budget
<1>2. ASSUME IInv, NEW h \in Handlers, NEW r \in Reports
      PROVE  recorded[h][r] <= RetryAttempts * (Copies - 1) + 1
  <2>1. net[h][r] \in Nat /\ recorded[h][r] \in Nat
    BY <1>2 DEF IInv, TypeOK
  <2>2. CASE "network" \in Faults
    BY <1>1, <1>2, <2>1, <2>2, RetryAssumption DEF IInv, WireInv, WireOf, CopiesOf, Copies
  <2>3. CASE "network" \notin Faults
    <3>1. recorded[h][r] <= 1
      BY <1>2, <2>1, <2>3 DEF IInv, AnsweredInv, AnsweredOf, CopiesOf
    <3>2. RetryAttempts * (Copies - 1) = 0
      BY <2>3, RetryAssumption DEF Copies
    <3>3. QED
      BY <2>1, <3>1, <3>2
  <2>4. QED
    BY <2>2, <2>3
<1>3. IInv => DuplicatesBounded
  BY <1>2 DEF DuplicatesBounded
<1>4. QED
  BY Invariance, <1>3, PTL

-------------------------------------------------------------------------------
(* A cancellation decides the status *)

\* The only step that changes a status is Decide, and its result respects a mark.
LEMMA CancellationStep ==
  IInv /\ [Next]_vars =>
    \A h \in Handlers :
      status'[h] # status[h] /\ marked[h] => status'[h] \notin {"success", "canceled"}
<1> SUFFICES ASSUME IInv, [Next]_vars, NEW h \in Handlers, status'[h] # status[h], marked[h]
             PROVE  status'[h] \notin {"success", "canceled"}
  OBVIOUS
<1> USE DEF IInv, TypeOK
<1>1. PICK g \in Handlers : Decide(g)
  <2>1. status' # status
    OBVIOUS
  <2>2. ASSUME NEW g \in Handlers, HandlerStep(g) PROVE Decide(g)
    BY <2>1, <2>2 DEF HandlerStep, Send, Retransmit, Transmit, Acknowledged, Resend, Refused,
       Refusal, Unanswered,
       Abandoned, Proceed, StartExecution, ExecReturn, Unmark
  <2>3. ASSUME NEW g \in Handlers, WatchStep(g) \/ Deadline(g) PROVE FALSE
    BY <2>1, <2>3 DEF WatchStep, WatchAsk, WatchNothing, WatchMark, WatchCancel, WatchExit,
       Deadline
  <2>4. ASSUME NEW g \in Handlers, (\E t \in TaskIDs : Dispatch(g,
     t)) \/ (\E r \in Reports : Record(g, r))
        PROVE  FALSE
    BY <2>1, <2>4 DEF Dispatch, markRunning, Record
  <2>5. ~(\E t \in TaskIDs : RequestCancel(t)) /\ ~Shutdown /\ ~RunReturn /\ ~Exit /\ vars' # vars
    BY <2>1 DEF RequestCancel, Shutdown, RunReturn, Exit, vars
  <2>6. QED
    BY <2>2, <2>3, <2>4, <2>5 DEF Next
<1>2. h = g
  BY <1>1 DEF Decide
<1>3. status'[h] = taskStatus(FinalError(h))
  BY <1>1, <1>2 DEF Decide
<1>4. FinalError(h) \notin {"nil", "canceled"}
  BY DEF FinalError
<1>5. QED
  BY <1>3, <1>4 DEF taskStatus, FinalError, ExecErrors

\* A marked cancellation never ends as "success" or as a shutdown.
THEOREM MarkedNeverSucceeds == Spec => CancellationWins
<1>1. QED
  BY Invariance, CancellationStep, PTL DEF Spec, CancellationWins

-------------------------------------------------------------------------------
(* A run that has ended was reported *)

\* A run ends behind its report, which was answered, or else the agent stops; a
\* report that was recorded stays recorded.
LEMMA CompletedStep ==
  ASSUME Faults = {}
  PROVE  IInv /\ CompletedUnlessDown /\ [Next]_vars => CompletedUnlessDown'
<1> SUFFICES ASSUME IInv, CompletedUnlessDown, [Next]_vars, NEW h \in Handlers,
                    pc'[h] \in {"unmarking", "returned"}, svc' = "serving"
             PROVE  \E v \in Verdicts : recorded'[h][v] > 0 /\ v = status'[h]
  BY DEF CompletedUnlessDown
<1> USE DEF IInv, TypeOK
<1>1. svc = "serving"
  BY DEF Next, Dispatch, HandlerStep, Send, Retransmit, Transmit, Acknowledged, Resend, Refused,
     Refusal, Unanswered, Abandoned, Proceed, StartExecution, ExecReturn, Decide, Unmark,
     WatchStep, WatchAsk, WatchNothing, WatchMark, WatchCancel, WatchExit, Deadline, Record,
     RequestCancel, Shutdown, RunReturn, Exit, vars
<1>2. CASE pc[h] \in {"unmarking", "returned"}
  <2>1. PICK v \in Verdicts : recorded[h][v] > 0 /\ v = status[h]
    BY <1>1, <1>2 DEF CompletedUnlessDown
  <2>2. status'[h] = status[h]
    BY <1>2 DEF Next, Dispatch, HandlerStep, Send, Retransmit, Transmit, Acknowledged, Resend,
       Refused, Refusal, Unanswered, Abandoned, Proceed, StartExecution, ExecReturn, Decide,
       Unmark, WatchStep, WatchAsk, WatchNothing, WatchMark, WatchCancel, WatchExit, Deadline,
       Record, RequestCancel, Shutdown, RunReturn, Exit, vars
  <2>3. CASE \E g \in Handlers, r \in Reports : Record(g, r)
    <3>1. PICK g \in Handlers, r \in Reports : Record(g, r)
      BY <2>3
    <3>2. v \in Reports /\ recorded[h][v] \in Nat /\ recorded[g][r] \in Nat
      BY DEF Reports
    <3>3. recorded'[h][v] = IF g = h /\ r = v THEN recorded[h][v] + 1 ELSE recorded[h][v]
      BY <3>1, <3>2 DEF Record
    <3>4. QED
      BY <2>1, <2>2, <3>2, <3>3
  <2>4. CASE ~\E g \in Handlers, r \in Reports : Record(g, r)
    <3>1. recorded' = recorded
      BY <2>4 DEF Next, Dispatch, HandlerStep, Send, Retransmit, Transmit, Acknowledged, Resend,
         Refused, Refusal, Unanswered, Abandoned, Proceed, StartExecution, ExecReturn, Decide,
         Unmark, WatchStep, WatchAsk, WatchNothing, WatchMark, WatchCancel, WatchExit, Deadline,
         RequestCancel, Shutdown, RunReturn, Exit, vars, wireVars
    <3>2. QED
      BY <2>1, <2>2, <3>1
  <2>5. QED
    BY <2>3, <2>4
<1>3. CASE pc[h] \notin {"unmarking", "returned"}
  <2>1. ~Still
    BY <1>3, StillFrame
  <2>2. \A g \in Handlers, t \in TaskIDs : ~Dispatch(g, t)
    BY <1>3 DEF Dispatch
  <2>3. PICK g \in Handlers : HandlerStep(g)
    BY <2>1, <2>2 DEF Still, Next
  <2>4. Acknowledged(g)
    BY <1>1, <1>3, <2>3 DEF HandlerStep, Send, Retransmit, Transmit, Resend, Refused, Refusal,
       Unanswered, Abandoned, ParentLive, StartExecution, ExecReturn, Decide, Unmark
  <2>5. Proceed(g) /\ recorded[g][Report(g)] > 0 /\ pc[g] \in ReportPoints
    BY <2>4, ReportEnds DEF Acknowledged
  <2>6. g = h /\ pc[h] = "completing"
    BY <1>3, <2>5 DEF Proceed, ReportPoints
  <2>7. status[h] \in Verdicts /\ recorded[h][status[h]] > 0
    BY <2>5, <2>6 DEF Report, ContextInv, ContextOf, Late
  <2>8. recorded' = recorded /\ status' = status
    BY <2>5 DEF Proceed
  <2>9. QED
    BY <2>7, <2>8
<1>4. QED
  BY <1>2, <1>3

\* With every request answered the platform has the completion of every run that
\* has ended, as long as the agent is not told to stop (service.go:353): the task
\* leaves the running set only behind the answer.
THEOREM CompletionRecorded ==
  ASSUME Faults = {}
  PROVE  Spec => []CompletedUnlessDown
<1>1. Init => CompletedUnlessDown
  BY DEF Init, CompletedUnlessDown
<1>2. IInv /\ CompletedUnlessDown /\ [Next]_vars => CompletedUnlessDown'
  BY CompletedStep
<1>3. QED
  BY Invariance, <1>1, <1>2, PTL DEF Spec

-------------------------------------------------------------------------------
(* Refinement of TaskContract *)

\* The contract's names are the service's.
LEMMA SameNames ==
  /\ Contract!Verdicts = Verdicts
  /\ Contract!Reports = Reports
  /\ Contract!NoTask = NoTask
  /\ Contract!NoVerdict = NoVerdict
  /\ NoVerdict \notin Verdicts
  BY DEF Contract!Verdicts, Verdicts, Contract!Reports, Reports, Contract!NoTask, NoTask,
     Contract!NoVerdict, NoVerdict

\* Initial states map to initial states.
LEMMA ContractInit == Init => Contract!Init
<1> SUFFICES ASSUME Init PROVE Contract!Init
  OBVIOUS
<1>1. \A h \in Handlers : StageOf(pc[h]) = "free" /\ {r \in Reports : recorded[h][r] > 0} = {}
  BY DEF Init, StageOf
<1>2. QED
  BY <1>1, SameNames DEF Init, Contract!Init

\* What a step does to the abstract run: the contract's action or nothing.
LEMMA ContractStep == IInv /\ [Next]_vars => [Contract!Next]_Contract!vars
<1> SUFFICES ASSUME IInv, [Next]_vars PROVE [Contract!Next]_Contract!vars
  OBVIOUS
<1> USE DEF IInv, TypeOK, Contract!vars, ctxVars, wireVars
<1>1. ASSUME NEW h \in Handlers, NEW t \in TaskIDs, Dispatch(h, t) PROVE Contract!Claim(h, t)
  BY <1>1 DEF Dispatch, markRunning, Contract!Claim, Contract!Unfinished, StageOf, ClaimInv,
     Active, Points
<1>2. ASSUME NEW h \in Handlers, Send(h) \/ Retransmit(h) PROVE UNCHANGED Contract!vars
  BY <1>2 DEF Send, Retransmit, Transmit
<1>3. ASSUME NEW h \in Handlers, Proceed(h), pc[h] \in ReportPoints PROVE UNCHANGED Contract!vars
  <2>1. \A g \in Handlers : StageOf(pc'[g]) = StageOf(pc[g])
    BY <1>3 DEF Proceed, StageOf, ReportPoints
  <2>2. QED
    BY <1>3, <2>1 DEF Proceed
<1>4. ASSUME NEW h \in Handlers, Acknowledged(h) \/ Refused(h) \/ Unanswered(h) \/ Abandoned(h)
      PROVE  UNCHANGED Contract!vars
  BY <1>3, <1>4, RetryAssumption DEF Acknowledged, Refused, Refusal, Unanswered, Abandoned,
     PendingInv
<1>5. ASSUME NEW h \in Handlers, Resend(h) PROVE UNCHANGED Contract!vars
  BY <1>5 DEF Resend, Refusal
<1>6. ASSUME NEW h \in Handlers, StartExecution(h) PROVE Contract!Execute(h)
  BY <1>6 DEF StartExecution, Contract!Execute, StageOf, Points
<1>7. ASSUME NEW h \in Handlers, NEW e \in ExecErrors, ExecReturn(h, e)
      PROVE  UNCHANGED Contract!vars
  <2>1. \A g \in Handlers : StageOf(pc'[g]) = StageOf(pc[g])
    BY <1>7 DEF ExecReturn, StageOf
  <2>2. QED
    BY <1>7, <2>1 DEF ExecReturn
<1>8. ASSUME NEW h \in Handlers, Decide(h)
      PROVE  Contract!Finish(h, status'[h]) /\ status'[h] \in Verdicts
  <2>1. StageOf(pc[h]) = "executing" /\ StageOf(pc'[h]) = "finished"
    BY <1>8 DEF Decide, StageOf
  <2>2. task[h] \in cancelReq \/ status'[h] # "cancelled"
    BY <1>8 DEF Decide, taskStatus, FinalError, ContextInv, ContextOf, ExecErrors
  <2>3. svc # "serving" \/ status'[h] # "canceled"
    BY <1>8 DEF Decide, taskStatus, FinalError, ContextInv, ContextOf, ExecErrors, Late
  <2>4. [g \in Handlers |-> StageOf(pc'[g])]
          = [[g \in Handlers |-> StageOf(pc[g])] EXCEPT ![h] = "finished"]
    BY <1>8, <2>1 DEF Decide
  <2>5. status' = [status EXCEPT ![h] = status'[h]]
    BY <1>8 DEF Decide
  <2>6. QED
    BY <1>8, <2>1, <2>2, <2>3, <2>4, <2>5 DEF Decide, Contract!Finish, Contract!Justified,
       taskStatus, Verdicts
<1>9. ASSUME NEW h \in Handlers, Unmark(h) PROVE Contract!Release(h)
  BY <1>9 DEF Unmark, unmarkRunning, Contract!Release, StageOf, Points
<1>10. ASSUME NEW h \in Handlers, WatchStep(h) \/ Deadline(h) PROVE UNCHANGED Contract!vars
  BY <1>10 DEF WatchStep, WatchAsk, WatchNothing, WatchMark, WatchCancel, WatchExit, Deadline
<1>11. ASSUME NEW h \in Handlers, NEW r \in Reports, Record(h, r)
       PROVE  Contract!Record(h, r) \/ UNCHANGED Contract!vars
  <2>1. pc[h] # "idle" /\ (r \in Verdicts => r = status[h])
    <3>1. ~Fresh(h, r) /\ WireOf(h)
      BY <1>11 DEF Record, Fresh, WireInv
    <3>2. r \in Verdicts => r = status[h]
      BY <3>1 DEF WireOf
    <3>3. pc[h] # "idle"
      <4>1. pc[h] = "idle" => status[h] = NoVerdict
        BY DEF ContextInv, ContextOf, Late
      <4>2. QED
        BY <3>1, <4>1, SameNames DEF WireOf, Reports
    <3>4. QED
      BY <3>2, <3>3
  <2>2. StageOf(pc[h]) # "free"
    BY <2>1 DEF StageOf
  <2>3. ASSUME NEW g \in Handlers
        PROVE  {q \in Reports : recorded'[g][q] > 0}
                 = {q \in Reports : recorded[g][q] > 0} \cup (IF g = h THEN {r} ELSE {})
    BY <1>11 DEF Record
  <2>4. [g \in Handlers |-> {q \in Reports : recorded'[g][q] > 0}]
          = [[g \in Handlers |-> {q \in Reports : recorded[g][q] > 0}] EXCEPT ![h] = @ \cup {r}]
    BY <2>3
  <2>5. CASE recorded[h][r] = 0
    BY <1>11, <2>1, <2>2, <2>4, <2>5, SameNames DEF Record, Contract!Record
  <2>6. CASE recorded[h][r] # 0
    <3>1. \A g \in Handlers : {q \in Reports : recorded'[g][q] > 0}
                                = {q \in Reports : recorded[g][q] > 0}
      BY <1>11, <2>6 DEF Record
    <3>2. QED
      BY <1>11, <3>1 DEF Record
  <2>7. QED
    BY <2>5, <2>6
<1>12. ASSUME NEW t \in TaskIDs, RequestCancel(t) PROVE Contract!AskCancel(t)
  BY <1>12 DEF RequestCancel, Contract!AskCancel
<1>13. CASE Shutdown
  BY <1>13 DEF Shutdown, Contract!Next, Contract!GoDown
<1>14. CASE RunReturn \/ Exit \/ UNCHANGED vars
  BY <1>14 DEF RunReturn, Exit, vars
<1>15. QED
  BY <1>1, <1>2, <1>4, <1>5, <1>6, <1>7, <1>8, <1>9, <1>10, <1>11, <1>12, <1>13, <1>14,
     SameNames DEF Next, HandlerStep, Contract!Next

\* The service implements the contract: one unfinished run per task, one
\* execution and one justified verdict per run, each report recorded once.
THEOREM Refinement == Spec => ImplementsContract
<1>1. Init => Contract!Init
  BY ContractInit
<1>2. IInv /\ [Next]_vars => [Contract!Next]_Contract!vars
  BY ContractStep
<1>3. QED
  BY Invariance, <1>1, <1>2, PTL DEF Spec, ImplementsContract, Contract!Spec

===============================================================================
