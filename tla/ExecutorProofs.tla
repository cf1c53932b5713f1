---------------------------- MODULE ExecutorProofs ----------------------------
(****************************************************************************)
(* The executor: the safety properties of TaskExecution for any number of   *)
(* streams and of lines and every capacity of the sink's channel, and those *)
(* of TaskCommands for every set of tasks, payloads, hosts and root         *)
(* profiles.  The sections do not depend on one another.                    *)
(****************************************************************************)
EXTENDS TaskExecution, TaskCommands, TLAPS

-------------------------------------------------------------------------------
(* === TaskExecution === *)

\* Points behind scanWG.Wait, and behind the close of the channel.
Joined == pc \in {"finishing", "closing", "draining", "deciding", "completing", "returned"}
Closing == pc \in {"draining", "deciding", "completing", "returned"}

\* Lines are read at most once; the last one captured may be the stream's error.
LinesBounded ==
  \A s \in Streams :
    /\ pipe[s] + buffer[s] <= written[s]
    /\ pipe[s] + buffer[s] + captured[s] <= written[s] + (IF scan[s] = "done" THEN 1 ELSE 0)

\* Behind the join no scanner has anything left to emit.
ScannersJoined ==
  \A s \in Streams :
    /\ scan[s] = "done" => buffer[s] = 0
    /\ Joined => scan[s] = "done"

\* The channel is closed once, by Close.
ClosedByClose == closed => Closing

\* The context is done when the report begins, and where the sink discards.
ContextDoneBefore ==
  /\ pc \in {"completing", "returned"} => ctx = "done"
  /\ sink = "discarding" => ctx = "done"

\* The entries the sink has received and not yet posted.
InHand == IF sink = "checked" THEN 1 ELSE 0

\* Under a live context every entry is posted, dropped, in the channel or in hand.
Accounted ==
  /\ ctx = "live" => posted + dropped + queue + InHand = emitted
  /\ sink = "done" => queue = 0 /\ closed
  /\ inTime => sink = "done"

IInv ==
  /\ TypeOK
  /\ LinesBounded
  /\ ScannersJoined
  /\ ClosedByClose
  /\ NoSendOnClosedChannel
  /\ ContextDoneBefore
  /\ Accounted

-------------------------------------------------------------------------------
(* Each conjunct is kept by every step; one proof step per action. *)

\* The state is well typed; a line is captured only if it was written
\* or tells why the stream ended.
LEMMA TypeStep == TypeOK /\ LinesBounded /\ [Next]_vars => TypeOK'
<1> SUFFICES ASSUME TypeOK /\ LinesBounded, [Next]_vars PROVE TypeOK'
  OBVIOUS
<1> USE LogCapAssumption, LinesAssumption DEF TypeOK, LinesBounded, Points, ProcStates, SinkPoints, scanVars, chanVars
<1>1. ASSUME NEW s \in Streams, Write(s) PROVE TypeOK'
  <2>1. written' \in [Streams -> 0..MaxLines] /\ pipe' \in [Streams -> 0..MaxLines]
    BY <1>1 DEF Write
  <2>2. QED
    BY <1>1, <2>1 DEF Write
<1>2. ASSUME ProcessExit PROVE TypeOK'
  BY <1>2 DEF ProcessExit
<1>3. ASSUME ContextDone PROVE TypeOK'
  BY <1>3 DEF ContextDone
<1>4. ASSUME Kill PROVE TypeOK'
  BY <1>4 DEF Kill
<1>5. ASSUME NEW s \in Streams, ScanRead(s) PROVE TypeOK'
  BY <1>5 DEF ScanRead
<1>6. ASSUME NEW s \in Streams, ScanEmit(s) PROVE TypeOK'
  <2>1. buffer' \in [Streams -> 0..MaxLines] /\ captured' \in [Streams -> 0..(MaxLines + 1)]
    BY <1>6 DEF ScanEmit
  <2>2. /\ emitted' \in Nat /\ queue' \in 0..LogCap /\ dropped' \in Nat
        /\ crashed' \in BOOLEAN /\ closed' \in BOOLEAN
    BY <1>6 DEF ScanEmit, Enqueue
  <2>3. QED
    BY <1>6, <2>1, <2>2 DEF ScanEmit
<1>7. ASSUME NEW s \in Streams, ScanEOF(s) PROVE TypeOK'
  BY <1>7 DEF ScanEOF
<1>8. ASSUME NEW s \in Streams, ScanClosed(s) PROVE TypeOK'
  BY <1>8 DEF ScanClosed, Enqueue
<1>9. ASSUME WaitReturn PROVE TypeOK'
  <2>1. pipe' \in [Streams -> 0..MaxLines]
    BY <1>9 DEF WaitReturn
  <2>2. QED
    BY <1>9, <2>1 DEF WaitReturn
<1>10. ASSUME ScannersDone PROVE TypeOK'
  BY <1>10 DEF ScannersDone
<1>11. ASSUME ExecuteReturn PROVE TypeOK'
  BY <1>11 DEF ExecuteReturn, Enqueue
<1>12. ASSUME CloseChannel PROVE TypeOK'
  BY <1>12 DEF CloseChannel
<1>13. ASSUME Drained PROVE TypeOK'
  BY <1>13 DEF Drained
<1>14. ASSUME DrainTimeout PROVE TypeOK'
  BY <1>14 DEF DrainTimeout
<1>15. ASSUME DeferredCancel PROVE TypeOK'
  BY <1>15 DEF DeferredCancel
<1>16. ASSUME ReportCompletion PROVE TypeOK'
  BY <1>16 DEF ReportCompletion
<1>17. ASSUME SinkReceive PROVE TypeOK'
  BY <1>17 DEF SinkReceive
<1>18. ASSUME SinkPost PROVE TypeOK'
  BY <1>18 DEF SinkPost
<1>19. ASSUME SinkAnswer PROVE TypeOK'
  BY <1>19 DEF SinkAnswer
<1>20. ASSUME SinkDiscard PROVE TypeOK'
  BY <1>20 DEF SinkDiscard
<1>21. ASSUME SinkEnd PROVE TypeOK'
  BY <1>21 DEF SinkEnd
<1>22. ASSUME UNCHANGED vars PROVE TypeOK'
  BY <1>22 DEF vars
<1>23. QED
  BY <1>1, <1>2, <1>3, <1>4, <1>5, <1>6, <1>7, <1>8, <1>9, <1>10, <1>11, <1>12,
     <1>13, <1>14, <1>15, <1>16, <1>17, <1>18, <1>19, <1>20, <1>21, <1>22 DEF Next,
     ScanStep, HandlerStep, SinkStep

\* A line moves from the pipe to the buffer to the output, or is lost.
LEMMA LinesStep == TypeOK /\ LinesBounded /\ [Next]_vars => LinesBounded'
<1> SUFFICES ASSUME TypeOK /\ LinesBounded, [Next]_vars PROVE LinesBounded'
  OBVIOUS
<1> USE DEF TypeOK, LinesBounded, scanVars, chanVars
<1>1. ASSUME NEW s \in Streams, Write(s) PROVE LinesBounded'
  BY <1>1 DEF Write
<1>2. ASSUME ProcessExit PROVE LinesBounded'
  BY <1>2 DEF ProcessExit
<1>3. ASSUME ContextDone PROVE LinesBounded'
  BY <1>3 DEF ContextDone
<1>4. ASSUME Kill PROVE LinesBounded'
  BY <1>4 DEF Kill
<1>5. ASSUME NEW s \in Streams, ScanRead(s) PROVE LinesBounded'
  BY <1>5 DEF ScanRead
<1>6. ASSUME NEW s \in Streams, ScanEmit(s) PROVE LinesBounded'
  BY <1>6 DEF ScanEmit, Enqueue
<1>7. ASSUME NEW s \in Streams, ScanEOF(s) PROVE LinesBounded'
  BY <1>7 DEF ScanEOF
<1>8. ASSUME NEW s \in Streams, ScanClosed(s) PROVE LinesBounded'
  BY <1>8 DEF ScanClosed, Enqueue
<1>9. ASSUME WaitReturn PROVE LinesBounded'
  BY <1>9 DEF WaitReturn
<1>10. ASSUME ScannersDone PROVE LinesBounded'
  BY <1>10 DEF ScannersDone
<1>11. ASSUME ExecuteReturn PROVE LinesBounded'
  BY <1>11 DEF ExecuteReturn, Enqueue
<1>12. ASSUME CloseChannel PROVE LinesBounded'
  BY <1>12 DEF CloseChannel
<1>13. ASSUME Drained PROVE LinesBounded'
  BY <1>13 DEF Drained
<1>14. ASSUME DrainTimeout PROVE LinesBounded'
  BY <1>14 DEF DrainTimeout
<1>15. ASSUME DeferredCancel PROVE LinesBounded'
  BY <1>15 DEF DeferredCancel
<1>16. ASSUME ReportCompletion PROVE LinesBounded'
  BY <1>16 DEF ReportCompletion
<1>17. ASSUME SinkReceive PROVE LinesBounded'
  BY <1>17 DEF SinkReceive
<1>18. ASSUME SinkPost PROVE LinesBounded'
  BY <1>18 DEF SinkPost
<1>19. ASSUME SinkAnswer PROVE LinesBounded'
  BY <1>19 DEF SinkAnswer
<1>20. ASSUME SinkDiscard PROVE LinesBounded'
  BY <1>20 DEF SinkDiscard
<1>21. ASSUME SinkEnd PROVE LinesBounded'
  BY <1>21 DEF SinkEnd
<1>22. ASSUME UNCHANGED vars PROVE LinesBounded'
  BY <1>22 DEF vars
<1>23. QED
  BY <1>1, <1>2, <1>3, <1>4, <1>5, <1>6, <1>7, <1>8, <1>9, <1>10, <1>11, <1>12,
     <1>13, <1>14, <1>15, <1>16, <1>17, <1>18, <1>19, <1>20, <1>21, <1>22 DEF Next,
     ScanStep, HandlerStep, SinkStep

\* A scanner ends with an empty buffer, and Execute waits for all of them.
LEMMA JoinStep == TypeOK /\ ScannersJoined /\ [Next]_vars => ScannersJoined'
<1> SUFFICES ASSUME TypeOK /\ ScannersJoined, [Next]_vars PROVE ScannersJoined'
  OBVIOUS
<1> USE DEF TypeOK, ScannersJoined, Joined, scanVars, chanVars
<1>1. ASSUME NEW s \in Streams, Write(s) PROVE ScannersJoined'
  BY <1>1 DEF Write
<1>2. ASSUME ProcessExit PROVE ScannersJoined'
  BY <1>2 DEF ProcessExit
<1>3. ASSUME ContextDone PROVE ScannersJoined'
  BY <1>3 DEF ContextDone
<1>4. ASSUME Kill PROVE ScannersJoined'
  BY <1>4 DEF Kill
<1>5. ASSUME NEW s \in Streams, ScanRead(s) PROVE ScannersJoined'
  BY <1>5 DEF ScanRead
<1>6. ASSUME NEW s \in Streams, ScanEmit(s) PROVE ScannersJoined'
  BY <1>6 DEF ScanEmit, Enqueue
<1>7. ASSUME NEW s \in Streams, ScanEOF(s) PROVE ScannersJoined'
  BY <1>7 DEF ScanEOF
<1>8. ASSUME NEW s \in Streams, ScanClosed(s) PROVE ScannersJoined'
  BY <1>8 DEF ScanClosed, Enqueue
<1>9. ASSUME WaitReturn PROVE ScannersJoined'
  BY <1>9 DEF WaitReturn
<1>10. ASSUME ScannersDone PROVE ScannersJoined'
  BY <1>10 DEF ScannersDone
<1>11. ASSUME ExecuteReturn PROVE ScannersJoined'
  BY <1>11 DEF ExecuteReturn, Enqueue
<1>12. ASSUME CloseChannel PROVE ScannersJoined'
  BY <1>12 DEF CloseChannel
<1>13. ASSUME Drained PROVE ScannersJoined'
  BY <1>13 DEF Drained
<1>14. ASSUME DrainTimeout PROVE ScannersJoined'
  BY <1>14 DEF DrainTimeout
<1>15. ASSUME DeferredCancel PROVE ScannersJoined'
  BY <1>15 DEF DeferredCancel
<1>16. ASSUME ReportCompletion PROVE ScannersJoined'
  BY <1>16 DEF ReportCompletion
<1>17. ASSUME SinkReceive PROVE ScannersJoined'
  BY <1>17 DEF SinkReceive
<1>18. ASSUME SinkPost PROVE ScannersJoined'
  BY <1>18 DEF SinkPost
<1>19. ASSUME SinkAnswer PROVE ScannersJoined'
  BY <1>19 DEF SinkAnswer
<1>20. ASSUME SinkDiscard PROVE ScannersJoined'
  BY <1>20 DEF SinkDiscard
<1>21. ASSUME SinkEnd PROVE ScannersJoined'
  BY <1>21 DEF SinkEnd
<1>22. ASSUME UNCHANGED vars PROVE ScannersJoined'
  BY <1>22 DEF vars
<1>23. QED
  BY <1>1, <1>2, <1>3, <1>4, <1>5, <1>6, <1>7, <1>8, <1>9, <1>10, <1>11, <1>12,
     <1>13, <1>14, <1>15, <1>16, <1>17, <1>18, <1>19, <1>20, <1>21, <1>22 DEF Next,
     ScanStep, HandlerStep, SinkStep

\* Whoever emits, emits before Close.
LEMMA CloseStep == IInv /\ [Next]_vars => (ClosedByClose /\ NoSendOnClosedChannel)'
<1> SUFFICES ASSUME IInv, [Next]_vars PROVE (ClosedByClose /\ NoSendOnClosedChannel)'
  OBVIOUS
<1> USE DEF IInv, TypeOK, ScannersJoined, Joined, Closing, ClosedByClose, NoSendOnClosedChannel, scanVars, chanVars
<1>1. ASSUME NEW s \in Streams, Write(s) PROVE (ClosedByClose /\ NoSendOnClosedChannel)'
  BY <1>1 DEF Write
<1>2. ASSUME ProcessExit PROVE (ClosedByClose /\ NoSendOnClosedChannel)'
  BY <1>2 DEF ProcessExit
<1>3. ASSUME ContextDone PROVE (ClosedByClose /\ NoSendOnClosedChannel)'
  BY <1>3 DEF ContextDone
<1>4. ASSUME Kill PROVE (ClosedByClose /\ NoSendOnClosedChannel)'
  BY <1>4 DEF Kill
<1>5. ASSUME NEW s \in Streams, ScanRead(s) PROVE (ClosedByClose /\ NoSendOnClosedChannel)'
  BY <1>5 DEF ScanRead
<1>6. ASSUME NEW s \in Streams, ScanEmit(s) PROVE (ClosedByClose /\ NoSendOnClosedChannel)'
  BY <1>6 DEF ScanEmit, Enqueue
<1>7. ASSUME NEW s \in Streams, ScanEOF(s) PROVE (ClosedByClose /\ NoSendOnClosedChannel)'
  BY <1>7 DEF ScanEOF
<1>8. ASSUME NEW s \in Streams, ScanClosed(s) PROVE (ClosedByClose /\ NoSendOnClosedChannel)'
  BY <1>8 DEF ScanClosed, Enqueue
<1>9. ASSUME WaitReturn PROVE (ClosedByClose /\ NoSendOnClosedChannel)'
  BY <1>9 DEF WaitReturn
<1>10. ASSUME ScannersDone PROVE (ClosedByClose /\ NoSendOnClosedChannel)'
  BY <1>10 DEF ScannersDone
<1>11. ASSUME ExecuteReturn PROVE (ClosedByClose /\ NoSendOnClosedChannel)'
  BY <1>11 DEF ExecuteReturn, Enqueue
<1>12. ASSUME CloseChannel PROVE (ClosedByClose /\ NoSendOnClosedChannel)'
  BY <1>12 DEF CloseChannel
<1>13. ASSUME Drained PROVE (ClosedByClose /\ NoSendOnClosedChannel)'
  BY <1>13 DEF Drained
<1>14. ASSUME DrainTimeout PROVE (ClosedByClose /\ NoSendOnClosedChannel)'
  BY <1>14 DEF DrainTimeout
<1>15. ASSUME DeferredCancel PROVE (ClosedByClose /\ NoSendOnClosedChannel)'
  BY <1>15 DEF DeferredCancel
<1>16. ASSUME ReportCompletion PROVE (ClosedByClose /\ NoSendOnClosedChannel)'
  BY <1>16 DEF ReportCompletion
<1>17. ASSUME SinkReceive PROVE (ClosedByClose /\ NoSendOnClosedChannel)'
  BY <1>17 DEF SinkReceive
<1>18. ASSUME SinkPost PROVE (ClosedByClose /\ NoSendOnClosedChannel)'
  BY <1>18 DEF SinkPost
<1>19. ASSUME SinkAnswer PROVE (ClosedByClose /\ NoSendOnClosedChannel)'
  BY <1>19 DEF SinkAnswer
<1>20. ASSUME SinkDiscard PROVE (ClosedByClose /\ NoSendOnClosedChannel)'
  BY <1>20 DEF SinkDiscard
<1>21. ASSUME SinkEnd PROVE (ClosedByClose /\ NoSendOnClosedChannel)'
  BY <1>21 DEF SinkEnd
<1>22. ASSUME UNCHANGED vars PROVE (ClosedByClose /\ NoSendOnClosedChannel)'
  BY <1>22 DEF vars
<1>23. QED
  BY <1>1, <1>2, <1>3, <1>4, <1>5, <1>6, <1>7, <1>8, <1>9, <1>10, <1>11, <1>12,
     <1>13, <1>14, <1>15, <1>16, <1>17, <1>18, <1>19, <1>20, <1>21, <1>22 DEF Next,
     ScanStep, HandlerStep, SinkStep

\* The context ends once; the deferred cancel comes before the deferred report.
LEMMA ContextStep == TypeOK /\ ContextDoneBefore /\ [Next]_vars => ContextDoneBefore'
<1> SUFFICES ASSUME TypeOK /\ ContextDoneBefore, [Next]_vars PROVE ContextDoneBefore'
  OBVIOUS
<1> USE DEF TypeOK, ContextDoneBefore, scanVars, chanVars
<1>1. ASSUME NEW s \in Streams, Write(s) PROVE ContextDoneBefore'
  BY <1>1 DEF Write
<1>2. ASSUME ProcessExit PROVE ContextDoneBefore'
  BY <1>2 DEF ProcessExit
<1>3. ASSUME ContextDone PROVE ContextDoneBefore'
  BY <1>3 DEF ContextDone
<1>4. ASSUME Kill PROVE ContextDoneBefore'
  BY <1>4 DEF Kill
<1>5. ASSUME NEW s \in Streams, ScanRead(s) PROVE ContextDoneBefore'
  BY <1>5 DEF ScanRead
<1>6. ASSUME NEW s \in Streams, ScanEmit(s) PROVE ContextDoneBefore'
  BY <1>6 DEF ScanEmit, Enqueue
<1>7. ASSUME NEW s \in Streams, ScanEOF(s) PROVE ContextDoneBefore'
  BY <1>7 DEF ScanEOF
<1>8. ASSUME NEW s \in Streams, ScanClosed(s) PROVE ContextDoneBefore'
  BY <1>8 DEF ScanClosed, Enqueue
<1>9. ASSUME WaitReturn PROVE ContextDoneBefore'
  BY <1>9 DEF WaitReturn
<1>10. ASSUME ScannersDone PROVE ContextDoneBefore'
  BY <1>10 DEF ScannersDone
<1>11. ASSUME ExecuteReturn PROVE ContextDoneBefore'
  BY <1>11 DEF ExecuteReturn, Enqueue
<1>12. ASSUME CloseChannel PROVE ContextDoneBefore'
  BY <1>12 DEF CloseChannel
<1>13. ASSUME Drained PROVE ContextDoneBefore'
  BY <1>13 DEF Drained
<1>14. ASSUME DrainTimeout PROVE ContextDoneBefore'
  BY <1>14 DEF DrainTimeout
<1>15. ASSUME DeferredCancel PROVE ContextDoneBefore'
  BY <1>15 DEF DeferredCancel
<1>16. ASSUME ReportCompletion PROVE ContextDoneBefore'
  BY <1>16 DEF ReportCompletion
<1>17. ASSUME SinkReceive PROVE ContextDoneBefore'
  BY <1>17 DEF SinkReceive
<1>18. ASSUME SinkPost PROVE ContextDoneBefore'
  BY <1>18 DEF SinkPost
<1>19. ASSUME SinkAnswer PROVE ContextDoneBefore'
  BY <1>19 DEF SinkAnswer
<1>20. ASSUME SinkDiscard PROVE ContextDoneBefore'
  BY <1>20 DEF SinkDiscard
<1>21. ASSUME SinkEnd PROVE ContextDoneBefore'
  BY <1>21 DEF SinkEnd
<1>22. ASSUME UNCHANGED vars PROVE ContextDoneBefore'
  BY <1>22 DEF vars
<1>23. QED
  BY <1>1, <1>2, <1>3, <1>4, <1>5, <1>6, <1>7, <1>8, <1>9, <1>10, <1>11, <1>12,
     <1>13, <1>14, <1>15, <1>16, <1>17, <1>18, <1>19, <1>20, <1>21, <1>22 DEF Next,
     ScanStep, HandlerStep, SinkStep

\* Every entry is somewhere.
LEMMA AccountStep == IInv /\ [Next]_vars => Accounted'
<1> SUFFICES ASSUME IInv, [Next]_vars PROVE Accounted'
  OBVIOUS
<1> USE LogCapAssumption, LinesAssumption DEF IInv, TypeOK, ContextDoneBefore, Accounted, InHand, ClosedByClose, Closing, ScannersJoined, Joined, scanVars, chanVars
<1>1. ASSUME NEW s \in Streams, Write(s) PROVE Accounted'
  BY <1>1 DEF Write
<1>2. ASSUME ProcessExit PROVE Accounted'
  BY <1>2 DEF ProcessExit
<1>3. ASSUME ContextDone PROVE Accounted'
  BY <1>3 DEF ContextDone
<1>4. ASSUME Kill PROVE Accounted'
  BY <1>4 DEF Kill
<1>5. ASSUME NEW s \in Streams, ScanRead(s) PROVE Accounted'
  BY <1>5 DEF ScanRead
<1>6. ASSUME NEW s \in Streams, ScanEmit(s) PROVE Accounted'
  BY <1>6 DEF ScanEmit, Enqueue
<1>7. ASSUME NEW s \in Streams, ScanEOF(s) PROVE Accounted'
  BY <1>7 DEF ScanEOF
<1>8. ASSUME NEW s \in Streams, ScanClosed(s) PROVE Accounted'
  BY <1>8 DEF ScanClosed, Enqueue
<1>9. ASSUME WaitReturn PROVE Accounted'
  BY <1>9 DEF WaitReturn
<1>10. ASSUME ScannersDone PROVE Accounted'
  BY <1>10 DEF ScannersDone
<1>11. ASSUME ExecuteReturn PROVE Accounted'
  BY <1>11 DEF ExecuteReturn, Enqueue
<1>12. ASSUME CloseChannel PROVE Accounted'
  BY <1>12 DEF CloseChannel
<1>13. ASSUME Drained PROVE Accounted'
  BY <1>13 DEF Drained
<1>14. ASSUME DrainTimeout PROVE Accounted'
  BY <1>14 DEF DrainTimeout
<1>15. ASSUME DeferredCancel PROVE Accounted'
  BY <1>15 DEF DeferredCancel
<1>16. ASSUME ReportCompletion PROVE Accounted'
  BY <1>16 DEF ReportCompletion
<1>17. ASSUME SinkReceive PROVE Accounted'
  BY <1>17 DEF SinkReceive
<1>18. ASSUME SinkPost PROVE Accounted'
  BY <1>18 DEF SinkPost
<1>19. ASSUME SinkAnswer PROVE Accounted'
  BY <1>19 DEF SinkAnswer
<1>20. ASSUME SinkDiscard PROVE Accounted'
  BY <1>20 DEF SinkDiscard
<1>21. ASSUME SinkEnd PROVE Accounted'
  BY <1>21 DEF SinkEnd
<1>22. ASSUME UNCHANGED vars PROVE Accounted'
  BY <1>22 DEF vars
<1>23. QED
  BY <1>1, <1>2, <1>3, <1>4, <1>5, <1>6, <1>7, <1>8, <1>9, <1>10, <1>11, <1>12,
     <1>13, <1>14, <1>15, <1>16, <1>17, <1>18, <1>19, <1>20, <1>21, <1>22 DEF Next,
     ScanStep, HandlerStep, SinkStep

-------------------------------------------------------------------------------
\* The command has started and one line was logged.
LEMMA Starts == Init => IInv
<1> SUFFICES ASSUME Init PROVE IInv
  OBVIOUS
<1> USE LogCapAssumption, LinesAssumption DEF Init
<1>1. TypeOK
  <2>1. /\ \A f \in {written, pipe, buffer} : f \in [Streams -> 0..MaxLines]
        /\ captured \in [Streams -> 0..(MaxLines + 1)]
    OBVIOUS
  <2>2. {emitted, posted, dropped} \subseteq Nat /\ queue \in 0..LogCap
    OBVIOUS
  <2>3. QED
    BY <2>1, <2>2 DEF TypeOK, Points, ProcStates, SinkPoints
<1>2. LinesBounded /\ ScannersJoined
  BY DEF LinesBounded, ScannersJoined, Joined
<1>3. ClosedByClose /\ NoSendOnClosedChannel /\ ContextDoneBefore /\ Accounted
  BY DEF ClosedByClose, NoSendOnClosedChannel, ContextDoneBefore, Accounted, InHand
<1>4. QED
  BY <1>1, <1>2, <1>3 DEF IInv

\* IInv always holds: who may still emit, and where every entry of the log is, at each
\* point of Execute and of the sink.
THEOREM Invariance == Spec => []IInv
<1>1. IInv /\ [Next]_vars => IInv'
  BY TypeStep, LinesStep, JoinStep, CloseStep, ContextStep, AccountStep DEF IInv
<1>2. QED
  BY Starts, <1>1, PTL DEF Spec

\* The variables keep their types; no stream's output has more than its lines
\* and one error.
THEOREM TypeCorrect == Spec => []TypeOK
<1>1. IInv => TypeOK
  BY DEF IInv
<1>2. QED
  BY Invariance, <1>1, PTL

\* Nobody sends on the sink's channel once Close has closed it: scanWG.Wait
\* (executor.go:269) comes before Execute returns.
THEOREM NoPanic == Spec => []NoSendOnClosedChannel
<1>1. IInv => NoSendOnClosedChannel
  BY DEF IInv
<1>2. QED
  BY Invariance, <1>1, PTL

\* A drain that ends in time under a live context leaves no line behind, and every line
\* it could not take was dropped for want of room.
THEOREM DrainsAll == Spec => []DrainComplete
<1>1. IInv => DrainComplete
  BY DEF IInv, TypeOK, Accounted, InHand, DrainComplete
<1>2. QED
  BY Invariance, <1>1, PTL

\* No line is posted once the completion is being reported.
THEOREM CompletionIsLast == Spec => NoLogAfterCompletion
<1>1. IInv /\ [Next]_vars => [posted' # posted => pc \notin {"completing", "returned"}]_vars
  <2> SUFFICES ASSUME IInv, Next, posted' # posted PROVE pc \notin {"completing", "returned"}
    OBVIOUS
  <2>1. SinkPost
    BY DEF Next, ScanStep, HandlerStep, SinkStep, Write, ProcessExit, ContextDone, Kill, ScanRead,
       ScanEmit, ScanEOF, ScanClosed, WaitReturn, ScannersDone, ExecuteReturn, CloseChannel,
       Drained, DrainTimeout, DeferredCancel, ReportCompletion, SinkReceive, SinkAnswer,
       SinkDiscard, SinkEnd
  <2>2. QED
    BY <2>1 DEF SinkPost, IInv, ContextDoneBefore
<1>2. QED
  BY Invariance, <1>1, PTL DEF Spec, NoLogAfterCompletion

-------------------------------------------------------------------------------
(* === TaskCommands === *)

\* Of two tasks between the write and the removal of one file, both have met the other.
MeetingsKnown ==
  \A h \in Helpers : \A t, u \in AtFile(h) : t # u => t \in raced

\* A task that met nobody finds its own request, and its helper has read that.
OwnFile == \A h \in Helpers : \A t \in AtFile(h) \ raced : request[h] = t
OwnTaken == \A t \in Tasks \ raced : taken[t] \in {None, t}

\* Helpers run for tasks that are handed over, and every request was written by one.
HandedOver ==
  /\ \A t \in Tasks : point[t] \in {"started", "found", "read"} => HandedTo(cmd[t]) # None
  /\ \A h \in Helpers, t \in Tasks :
       request[h] = t => point[t] # "waiting" /\ HandedTo(cmd[t]) = h

\* A command that passed the scope check and met no change of profile may use sudo.
ScopeHolds ==
  \A t \in Tasks :
    point[t] = "built" /\ ScopeChecked(cmd[t]) /\ t \notin shifted =>
      HandedTo(cmd[t]) = None \/ SudoAllows(HandedTo(cmd[t]))

Untouched == \A t \in Tasks : point[t] = "waiting" => outcome[t] = "none"

CommandInv ==
  /\ CommandTypeOK
  /\ MeetingsKnown /\ OwnFile /\ OwnTaken /\ OwnRequestUnlessRaced
  /\ HandedOver /\ NoOrphanRequest
  /\ Untouched /\ ScopeHolds /\ DeniedOnlyIfShifted

-------------------------------------------------------------------------------
\* A command is handed to an installed helper or to none.
LEMMA HandedToHelper ==
  ASSUME CommandTypeOK, NEW c
  PROVE  HandedTo(c) \in Helpers \cup {None}
  BY HostAssumption DEF HandedTo, CommandTypeOK, Host

\* The host stays for ever ...
LEMMA HostStays == [CommandNext]_commandVars => host' = host
  BY DEF CommandNext, TaskStep, Reject, Build, StartFails, Direct, Denied, Start, Test, Missing,
     Read, Run, Refuse, KillCommand, HostProfile, RecordProfile, commandVars

\* ... and with it where a task's command is handed to.
LEMMA HandedToStays ==
  ASSUME host' = host
  PROVE  \A t \in Tasks : cmd'[t] = cmd[t] => HandedTo(cmd[t])' = HandedTo(cmd[t])
  BY DEF HandedTo, HelperOf

\* Only the step that builds a command takes a task to a request file.
LEMMA AtFileShrinks ==
  ASSUME CommandTypeOK, [CommandNext]_commandVars, ~\E t \in Tasks, c \in Commands : Build(t, c),
         NEW h
  PROVE  AtFile(h)' \subseteq AtFile(h)
<1>1. \A t \in Tasks : point'[t] \in {"built", "started", "found", "read"} =>
         point[t] \in {"built", "started", "found", "read"} /\ cmd'[t] = cmd[t]
  BY DEF CommandTypeOK, CommandNext, TaskStep, Reject, StartFails, Direct, Denied, Start, Test,
     Missing, Read, Run, Refuse, KillCommand, End, HostProfile, RecordProfile, commandVars
<1>2. QED
  BY <1>1, HostStays, HandedToStays DEF AtFile

\* That step takes the one task to the one file.
LEMMA AtFileGrows ==
  ASSUME CommandTypeOK, NEW t \in Tasks, NEW c \in Commands, Build(t, c), NEW h
  PROVE  /\ t \notin AtFile(h)
         /\ AtFile(h)' = IF HandedTo(c) = h THEN AtFile(h) \cup {t} ELSE AtFile(h)
<1>1. host' = host /\ point'[t] = "built" /\ cmd'[t] = c /\ point[t] = "waiting"
  BY DEF Build, CommandTypeOK
<1>2. \A u \in Tasks \ {t} : point'[u] = point[u] /\ cmd'[u] = cmd[u]
  BY DEF Build, CommandTypeOK
<1>3. HandedTo(cmd[t])' = HandedTo(c)
  BY <1>1 DEF HandedTo, HelperOf
<1>4. QED
  BY <1>1, <1>2, <1>3, HandedToStays DEF AtFile

\* The state is well typed.
LEMMA CommandTypeStep ==
  CommandTypeOK /\ HandedOver /\ [CommandNext]_commandVars => CommandTypeOK'
<1> SUFFICES ASSUME CommandTypeOK /\ HandedOver, [CommandNext]_commandVars PROVE CommandTypeOK'
  OBVIOUS
<1> USE BoundAssumption DEF CommandTypeOK, CommandPoints, Outcomes, files, profile, history
<1>1. ASSUME NEW t \in Tasks, NEW c \in Commands, Reject(t, c) PROVE CommandTypeOK'
  BY <1>1 DEF Reject, End
<1>2. ASSUME NEW t \in Tasks, NEW c \in Commands, Build(t, c) PROVE CommandTypeOK'
  <2>1. request' \in [Helpers -> Tasks \cup {None}]
    BY <1>2, HandedToHelper DEF Build, Written
  <2>2. raced' \in SUBSET Tasks /\ shifted' \in SUBSET Tasks /\ temps' \in SUBSET Tasks
    BY <1>2 DEF Build, AtFile
  <2>3. QED
    BY <1>2, <2>1, <2>2 DEF Build
<1>3. ASSUME NEW t \in Tasks, StartFails(t) PROVE CommandTypeOK'
  BY <1>3 DEF StartFails, End
<1>4. ASSUME NEW t \in Tasks, Direct(t) PROVE CommandTypeOK'
  BY <1>4 DEF Direct, End
<1>5. ASSUME NEW t \in Tasks, Denied(t) PROVE CommandTypeOK'
  BY <1>5 DEF Denied, End
<1>6. ASSUME NEW t \in Tasks, Start(t) PROVE CommandTypeOK'
  BY <1>6 DEF Start
<1>7. ASSUME NEW t \in Tasks, Test(t) PROVE CommandTypeOK'
  BY <1>7 DEF Test
<1>8. ASSUME NEW t \in Tasks, Missing(t) PROVE CommandTypeOK'
  BY <1>8 DEF Missing, End
<1>9. ASSUME NEW t \in Tasks, Read(t) PROVE CommandTypeOK'
  <2>1. request[HandedTo(cmd[t])] \in Tasks \cup {None}
    BY <1>9, HandedToHelper DEF Read, HandedOver
  <2>2. QED
    BY <1>9, <2>1 DEF Read
<1>10. ASSUME NEW t \in Tasks, Run(t) PROVE CommandTypeOK'
  <2>1. request' \in [Helpers -> Tasks \cup {None}]
    BY <1>10 DEF Run, Removed
  <2>2. QED
    BY <1>10, <2>1 DEF Run, End
<1>11. ASSUME NEW t \in Tasks, Refuse(t) PROVE CommandTypeOK'
  <2>1. request' \in [Helpers -> Tasks \cup {None}]
    BY <1>11 DEF Refuse, Removed
  <2>2. QED
    BY <1>11, <2>1 DEF Refuse, End
<1>12. ASSUME NEW t \in Tasks, KillCommand(t) PROVE CommandTypeOK'
  BY <1>12 DEF KillCommand, End
<1>13. ASSUME NEW p \in Profiles, HostProfile(p) PROVE CommandTypeOK'
  BY <1>13 DEF HostProfile
<1>14. ASSUME RecordProfile PROVE CommandTypeOK'
  BY <1>14 DEF RecordProfile
<1>15. ASSUME UNCHANGED commandVars PROVE CommandTypeOK'
  BY <1>15 DEF commandVars
<1>16. QED
  BY <1>1, <1>2, <1>3, <1>4, <1>5, <1>6, <1>7, <1>8, <1>9, <1>10, <1>11, <1>12,
     <1>13, <1>14, <1>15 DEF CommandNext, TaskStep

\* Who meets whom at a request file, and what a task that met nobody finds there.
Meetings == MeetingsKnown /\ OwnFile /\ OwnTaken /\ OwnRequestUnlessRaced

\* A new request meets everyone at its file; a removal ends a task that, if it met
\* nobody, was alone there.
LEMMA MeetingStep ==
  CommandTypeOK /\ HandedOver /\ Meetings /\ [CommandNext]_commandVars => Meetings'
<1> SUFFICES ASSUME CommandTypeOK, HandedOver, Meetings, [CommandNext]_commandVars PROVE Meetings'
  OBVIOUS
<1>1. CASE \E t \in Tasks, c \in Commands : Build(t, c)
  <2>1. PICK t \in Tasks, c \in Commands : Build(t, c)
    BY <1>1
  <2>2. /\ request' = Written(HandedTo(c), t)
        /\ raced' = IF HandedTo(c) = None \/ AtFile(HandedTo(c)) = {} THEN raced
                    ELSE raced \cup AtFile(HandedTo(c)) \cup {t}
        /\ taken' = taken /\ ran' = ran
        /\ \A u \in Tasks : outcome'[u] = outcome[u]
    BY <2>1 DEF Build
  <2>3. \A h \in Helpers :
          AtFile(h)' = IF HandedTo(c) = h THEN AtFile(h) \cup {t} ELSE AtFile(h)
    BY <2>1, AtFileGrows
  <2>4. \A h \in Helpers : AtFile(h) \subseteq Tasks
    BY DEF AtFile
  <2>5. MeetingsKnown'
    BY <2>2, <2>3, <2>4, NoneAssumption DEF Meetings, MeetingsKnown
  <2>6. OwnFile'
    BY <2>2, <2>3, <2>4, NoneAssumption DEF Meetings, OwnFile, Written, CommandTypeOK
  <2>7. OwnTaken' /\ OwnRequestUnlessRaced'
    BY <2>2 DEF Meetings, OwnTaken, OwnRequestUnlessRaced
  <2>8. QED
    BY <2>5, <2>6, <2>7 DEF Meetings
<1>2. CASE ~\E t \in Tasks, c \in Commands : Build(t, c)
  <2>1. \A h \in Helpers : AtFile(h)' \subseteq AtFile(h)
    BY <1>2, AtFileShrinks
  <2>2. raced' = raced
    BY <1>2 DEF CommandNext, TaskStep, Reject, StartFails, Direct, Denied, Start, Test, Missing,
       Read, Run, Refuse, KillCommand, HostProfile, RecordProfile, commandVars, history
  <2>3. MeetingsKnown'
    BY <2>1, <2>2 DEF Meetings, MeetingsKnown
  <2>4. ASSUME NEW t \in Tasks, point[t] \in {"started", "found", "read"}
        PROVE  HandedTo(cmd[t]) \in Helpers /\ t \in AtFile(HandedTo(cmd[t]))
    BY <2>4, HandedToHelper DEF HandedOver, AtFile
  <2>5. OwnFile'
    <3>1. CASE request' = request
      BY <2>1, <2>2, <3>1 DEF Meetings, OwnFile
    <3>2. ASSUME NEW t \in Tasks, Run(t) \/ Refuse(t) PROVE OwnFile'
      <4>1. request' = [request EXCEPT ![HandedTo(cmd[t])] = None]
            /\ point[t] = "read" /\ point'[t] = "done"
        BY <3>2 DEF Run, Refuse, Removed, End, CommandTypeOK
      <4>2. t \in AtFile(HandedTo(cmd[t])) /\ HandedTo(cmd[t]) \in Helpers
        BY <2>4, <4>1
      <4>3. \A h \in Helpers : t \notin AtFile(h)'
        BY <4>1 DEF AtFile
      <4>4. SUFFICES ASSUME NEW h \in Helpers, NEW u \in AtFile(h)', u \notin raced
                     PROVE  request'[h] = u
        BY <2>2 DEF OwnFile
      <4>5. u \in AtFile(h) /\ u # t
        BY <2>1, <4>3, <4>4
      <4>6. h # HandedTo(cmd[t])
        BY <4>2, <4>4, <4>5 DEF Meetings, MeetingsKnown
      <4>7. QED
        BY <4>1, <4>4, <4>5, <4>6 DEF Meetings, OwnFile, CommandTypeOK
    <3>3. QED
      BY <1>2, <3>1, <3>2 DEF CommandNext, TaskStep, Reject, StartFails, Direct, Denied, Start,
         Test, Missing, Read, KillCommand, HostProfile, RecordProfile, commandVars, files
  <2>6. OwnTaken'
    <3>1. CASE taken' = taken
      BY <2>2, <3>1 DEF Meetings, OwnTaken
    <3>2. ASSUME NEW t \in Tasks, Read(t) PROVE OwnTaken'
      <4>1. t \notin raced => request[HandedTo(cmd[t])] = t
        BY <2>4, <3>2 DEF Read, Meetings, OwnFile
      <4>2. QED
        BY <2>2, <3>2, <4>1 DEF Read, Meetings, OwnTaken, CommandTypeOK
    <3>3. QED
      BY <1>2, <3>1, <3>2 DEF CommandNext, TaskStep, Reject, StartFails, Direct, Denied, Start,
         Test, Missing, Run, Refuse, KillCommand, HostProfile, RecordProfile, commandVars
  <2>7. OwnRequestUnlessRaced'
    <3>1. CASE ran' = ran /\ \A t \in Tasks : outcome'[t] = "missing" => outcome[t] = "missing"
      BY <2>2, <3>1 DEF Meetings, OwnRequestUnlessRaced
    <3>2. ASSUME NEW t \in Tasks, Run(t) PROVE OwnRequestUnlessRaced'
      BY <2>2, <3>2 DEF Run, End, Meetings, OwnTaken, OwnRequestUnlessRaced, CommandTypeOK
    <3>3. ASSUME NEW t \in Tasks, Missing(t) PROVE OwnRequestUnlessRaced'
      <4>1. t \in raced
        BY <2>4, <3>3, NoneAssumption DEF Missing, Meetings, OwnFile
      <4>2. QED
        BY <2>2, <3>3, <4>1 DEF Missing, End, Meetings, OwnRequestUnlessRaced, CommandTypeOK
    <3>4. CASE \E t \in Tasks : Run(t) \/ Missing(t)
      BY <3>2, <3>3, <3>4
    <3>5. CASE ~\E t \in Tasks : Run(t) \/ Missing(t)
      <4>1. ran' = ran /\ \A t \in Tasks : outcome'[t] = "missing" => outcome[t] = "missing"
        BY <1>2, <3>5 DEF CommandNext, TaskStep, Reject, StartFails, Direct, Denied, Start, Test,
           Read, Refuse, KillCommand, End, HostProfile, RecordProfile, commandVars, CommandTypeOK
      <4>2. QED
        BY <3>1, <4>1
    <3>6. QED
      BY <3>4, <3>5
  <2>8. QED
    BY <2>3, <2>5, <2>6, <2>7 DEF Meetings
<1>3. QED
  BY <1>1, <1>2

-------------------------------------------------------------------------------
(* Whose request a file holds *)

\* What a step does to the files and to the commands of the tasks at them.
LEMMA RequestKept ==
  ASSUME CommandTypeOK, [CommandNext]_commandVars, ~\E t \in Tasks, c \in Commands : Build(t, c)
  PROVE  /\ \A h \in Helpers : request'[h] \in {request[h], None}
         /\ \A t \in Tasks : point[t] # "waiting" => point'[t] # "waiting" /\ cmd'[t] = cmd[t]
         /\ \A t \in Tasks : point'[t] = "built" => point[t] = "built"
  BY DEF CommandTypeOK, CommandNext, TaskStep, Reject, StartFails, Direct, Denied, Start, Test,
     Missing, Read, Run, Refuse, Removed, KillCommand, End, HostProfile, RecordProfile,
     commandVars, files

\* A helper runs for a task that was handed over, and the request in a file is that of
\* a task handed over to its helper.
LEMMA HandedOverStep == CommandTypeOK /\ HandedOver /\ [CommandNext]_commandVars => HandedOver'
<1> SUFFICES ASSUME CommandTypeOK, HandedOver, [CommandNext]_commandVars PROVE HandedOver'
  OBVIOUS
<1>1. CASE \E t \in Tasks, c \in Commands : Build(t, c)
  <2>1. PICK t \in Tasks, c \in Commands : Build(t, c)
    BY <1>1
  <2>2. /\ host' = host /\ cmd' = [cmd EXCEPT ![t] = c] /\ point' = [point EXCEPT ![t] = "built"]
        /\ request' = Written(HandedTo(c), t) /\ point[t] = "waiting"
    BY <2>1 DEF Build
  <2>3. HandedTo(cmd[t])' = HandedTo(c)
    BY <2>2 DEF HandedTo, HelperOf, CommandTypeOK
  <2>4. \A u \in Tasks \ {t} : cmd'[u] = cmd[u] /\ point'[u] = point[u]
    BY <2>2 DEF CommandTypeOK
  <2>5. \A u \in Tasks \ {t} : HandedTo(cmd[u])' = HandedTo(cmd[u])
    BY <2>2, <2>4, HandedToStays
  <2>6. ASSUME NEW u \in Tasks, point'[u] \in {"started", "found", "read"}
        PROVE  HandedTo(cmd[u])' # None
    BY <2>2, <2>4, <2>5, <2>6 DEF HandedOver, CommandTypeOK
  <2>7. ASSUME NEW h \in Helpers, NEW u \in Tasks, request'[h] = u
        PROVE  point'[u] # "waiting" /\ HandedTo(cmd[u])' = h
    <3>1. CASE u = t
      BY <2>2, <2>3, <2>7, <3>1 DEF HandedOver, Written, CommandTypeOK
    <3>2. CASE u # t
      BY <2>2, <2>4, <2>5, <2>7, <3>2 DEF HandedOver, Written, CommandTypeOK
    <3>3. QED
      BY <3>1, <3>2
  <2>8. QED
    BY <2>6, <2>7 DEF HandedOver
<1>2. CASE ~\E t \in Tasks, c \in Commands : Build(t, c)
  <2>1. ASSUME NEW u \in Tasks, point[u] # "waiting" PROVE HandedTo(cmd[u])' = HandedTo(cmd[u])
    BY <1>2, <2>1, RequestKept, HostStays, HandedToStays
  <2>2. ASSUME NEW u \in Tasks, point'[u] \in {"started", "found", "read"}
        PROVE  HandedTo(cmd[u])' # None
    <3>1. point[u] # "waiting" /\ HandedTo(cmd[u]) # None
      BY <1>2, <2>2 DEF HandedOver, CommandTypeOK, CommandNext, TaskStep, Reject, StartFails,
         Direct, Denied, Start, Test, Missing, Read, Run, Refuse, KillCommand, End, HostProfile,
         RecordProfile, commandVars
    <3>2. QED
      BY <2>1, <3>1
  <2>3. ASSUME NEW h \in Helpers, NEW u \in Tasks, request'[h] = u
        PROVE  point'[u] # "waiting" /\ HandedTo(cmd[u])' = h
    <3>1. request[h] = u
      BY <1>2, <2>3, RequestKept, NoneAssumption
    <3>2. QED
      BY <1>2, <2>1, <3>1, RequestKept DEF HandedOver
  <2>4. QED
    BY <2>2, <2>3 DEF HandedOver
<1>3. QED
  BY <1>1, <1>2

\* A task that comes to its end with its request still there had no helper, or one that
\* was killed: a helper that finds no file has not its own task's request before it.
LEMMA OrphanStep ==
  CommandTypeOK /\ HandedOver /\ NoOrphanRequest /\ [CommandNext]_commandVars => NoOrphanRequest'
<1> SUFFICES ASSUME CommandTypeOK, HandedOver, NoOrphanRequest, [CommandNext]_commandVars,
                    NEW h \in Helpers, NEW u \in Tasks, request'[h] = u, point'[u] = "done"
             PROVE  outcome'[u] \in {"startFailed", "denied", "killed"}
  BY DEF NoOrphanRequest
<1>1. CASE \E t \in Tasks, c \in Commands : Build(t, c)
  <2>1. PICK t \in Tasks, c \in Commands : Build(t, c)
    BY <1>1
  <2>2. u # t /\ point[u] = "done" /\ outcome'[u] = outcome[u] /\ request[h] = u
    BY <2>1 DEF Build, Written, CommandTypeOK
  <2>3. QED
    BY <2>2 DEF NoOrphanRequest
<1>2. CASE ~\E t \in Tasks, c \in Commands : Build(t, c)
  <2>1. request[h] = u /\ point[u] # "waiting" /\ HandedTo(cmd[u]) = h
    BY <1>2, RequestKept, NoneAssumption DEF HandedOver
  <2>2. CASE point[u] = "done"
    BY <1>2, <2>1, <2>2 DEF NoOrphanRequest, CommandTypeOK, CommandNext, TaskStep, Reject,
       StartFails, Direct, Denied, Start, Test, Missing, Read, Run, Refuse, KillCommand, End,
       HostProfile, RecordProfile, commandVars
  <2>3. CASE point[u] # "done"
    <3>1. \/ StartFails(u) \/ Direct(u) \/ Denied(u) \/ Missing(u) \/ Run(u) \/ Refuse(u)
          \/ KillCommand(u)
      BY <1>2, <2>1, <2>3 DEF CommandTypeOK, CommandNext, TaskStep, Reject, StartFails, Direct,
         Denied, Start, Test, Missing, Read, Run, Refuse, KillCommand, End, HostProfile,
         RecordProfile, commandVars
    <3>2. CASE StartFails(u) \/ Denied(u) \/ KillCommand(u)
      BY <3>2 DEF StartFails, Denied, KillCommand, End, CommandTypeOK
    <3>3. CASE Direct(u)
      BY <2>1, <3>3, NoneAssumption DEF Direct
    <3>4. CASE Missing(u)
      BY <2>1, <3>4, NoneAssumption DEF Missing
    <3>5. CASE Run(u) \/ Refuse(u)
      BY <2>1, <3>5, NoneAssumption DEF Run, Refuse, Removed, CommandTypeOK
    <3>6. QED
      BY <3>1, <3>2, <3>3, <3>4, <3>5
  <2>4. QED
    BY <2>2, <2>3
<1>3. QED
  BY <1>1, <1>2

-------------------------------------------------------------------------------
\* A command whose scope the check let pass is one sudo lets pass, by the record.
LEMMA ScopeSuffices ==
  ASSUME CommandTypeOK, NEW c \in Commands, ScopeChecked(c), ~OutOfScope(c), granted = applied
  PROVE  HandedTo(c) = None \/ SudoAllows(HandedTo(c))
<1>1. CanUseRootScope(ScopeOf(c))
  BY DEF OutOfScope
<1>2. CASE c.type = "log.scan"
  <2>1. ScopeOf(c) = "operational"
    BY <1>2 DEF OutOfScope, ScopeChecked
  <2>2. HelperOf(c) = "operational-log-scan"
    BY <1>2 DEF HelperOf, ScopeChecked, Mutations
  <2>3. QED
    BY <1>1, <2>1, <2>2 DEF CanUseRootScope, HandedTo, SudoAllows
<1>3. CASE c.type = "shell.exec"
  <2>1. ScopeOf(c) = c.scope
    BY <1>3 DEF ScopeOf
  <2>2. HelperOf(c) = IF c.scope = "operational"
                      THEN IF c.text = "update" THEN "package-mutation" ELSE None
                      ELSE "task-root"
    BY <1>3 DEF HelperOf, ScopeChecked, Mutations
  <2>3. QED
    BY <1>1, <2>1, <2>2 DEF CanUseRootScope, HandedTo, SudoAllows
<1>4. QED
  BY <1>2, <1>3 DEF ScopeChecked

\* A task has no outcome before it is looked at.
LEMMA UntouchedStep == CommandTypeOK /\ Untouched /\ [CommandNext]_commandVars => Untouched'
  BY DEF CommandTypeOK, Untouched, CommandNext, TaskStep, Reject, Build, StartFails, Direct,
     Denied, Start, Test, Missing, Read, Run, Refuse, KillCommand, End, HostProfile,
     RecordProfile, commandVars

\* The profile a command was checked against is the host's until a change is noted.
LEMMA ScopeStep ==
  CommandTypeOK /\ Untouched /\ ScopeHolds /\ DeniedOnlyIfShifted /\ [CommandNext]_commandVars
    => (ScopeHolds /\ DeniedOnlyIfShifted)'
<1> SUFFICES ASSUME CommandTypeOK, Untouched, ScopeHolds, DeniedOnlyIfShifted,
                    [CommandNext]_commandVars
             PROVE  (ScopeHolds /\ DeniedOnlyIfShifted)'
  OBVIOUS
<1>1. ASSUME NEW u \in Tasks, point'[u] = "built", ScopeChecked(cmd'[u]), u \notin shifted'
      PROVE  HandedTo(cmd[u])' = None \/ SudoAllows(HandedTo(cmd[u]))'
  <2>1. CASE \E c \in Commands : Build(u, c)
    <3>1. PICK c \in Commands : Build(u, c)
      BY <2>1
    <3>2. cmd'[u] = c /\ host' = host /\ granted' = granted /\ granted = applied
      BY <1>1, <3>1 DEF Build, CommandTypeOK, profile
    <3>3. HandedTo(c) = None \/ SudoAllows(HandedTo(c))
      BY <1>1, <3>1, <3>2, ScopeSuffices DEF Build
    <3>4. HandedTo(cmd[u])' = HandedTo(c)
      BY <3>2 DEF HandedTo, HelperOf
    <3>5. QED
      BY <3>2, <3>3, <3>4 DEF SudoAllows
  <2>2. CASE ~\E c \in Commands : Build(u, c)
    <3>1. point[u] = "built" /\ cmd'[u] = cmd[u] /\ u \notin shifted /\ granted' = granted
      BY <1>1, <2>2 DEF CommandTypeOK, CommandNext, TaskStep, Reject, Build, StartFails, Direct,
         Denied, Start, Test, Missing, Read, Run, Refuse, KillCommand, End, HostProfile,
         RecordProfile, commandVars, profile, history
    <3>2. HandedTo(cmd[u])' = HandedTo(cmd[u])
      BY <3>1, HostStays, HandedToStays
    <3>3. HandedTo(cmd[u]) = None \/ SudoAllows(HandedTo(cmd[u]))
      BY <1>1, <3>1 DEF ScopeHolds
    <3>4. QED
      BY <3>1, <3>2, <3>3 DEF SudoAllows
  <2>3. QED
    BY <2>1, <2>2
<1>2. ASSUME NEW u \in Tasks, outcome'[u] = "denied", ScopeChecked(cmd'[u]) PROVE u \in shifted'
  <2>1. CASE Denied(u)
    BY <1>2, <2>1 DEF Denied, ScopeHolds, history
  <2>2. CASE ~Denied(u)
    <3>1. outcome[u] = "denied" /\ cmd'[u] = cmd[u] /\ shifted \subseteq shifted'
      BY <1>2, <2>2 DEF CommandTypeOK, Untouched, CommandNext, TaskStep, Reject, Build,
         StartFails, Direct, Denied, Start, Test, Missing, Read, Run, Refuse, KillCommand, End,
         HostProfile, RecordProfile, commandVars, history
    <3>2. QED
      BY <1>2, <3>1 DEF DeniedOnlyIfShifted
  <2>3. QED
    BY <2>1, <2>2
<1>3. QED
  BY <1>1, <1>2 DEF ScopeHolds, DeniedOnlyIfShifted

-------------------------------------------------------------------------------
\* No task has been accepted and no file written.
LEMMA CommandStarts == CommandInit => CommandInv
<1> SUFFICES ASSUME CommandInit PROVE CommandInv
  OBVIOUS
<1>1. CommandTypeOK
  BY BoundAssumption DEF CommandInit, CommandTypeOK, CommandPoints, Outcomes
<1>2. \A h \in Helpers : AtFile(h) = {}
  BY DEF CommandInit, AtFile
<1>3. MeetingsKnown /\ OwnFile /\ OwnTaken /\ OwnRequestUnlessRaced
  BY <1>2 DEF CommandInit, MeetingsKnown, OwnFile, OwnTaken, OwnRequestUnlessRaced
<1>4. HandedOver /\ NoOrphanRequest
  BY NoneAssumption DEF CommandInit, HandedOver, NoOrphanRequest
<1>5. Untouched /\ ScopeHolds /\ DeniedOnlyIfShifted
  BY DEF CommandInit, Untouched, ScopeHolds, DeniedOnlyIfShifted
<1>6. QED
  BY <1>1, <1>3, <1>4, <1>5 DEF CommandInv

\* CommandInv always holds: the request files tie a task to the others of its helper, which
\* no property of one task alone carries over a step.
THEOREM CommandInvariance == CommandSpec => []CommandInv
<1>1. CommandInv /\ [CommandNext]_commandVars => CommandInv'
  <2>1. CommandInv => CommandTypeOK /\ HandedOver /\ Meetings
    BY DEF CommandInv, Meetings
  <2>2. Meetings' => (MeetingsKnown /\ OwnFile /\ OwnTaken /\ OwnRequestUnlessRaced)'
    BY DEF Meetings
  <2>3. QED
    BY <2>1, <2>2, CommandTypeStep, MeetingStep, HandedOverStep, OrphanStep, UntouchedStep,
       ScopeStep DEF CommandInv
<1>2. QED
  BY CommandStarts, <1>1, PTL DEF CommandSpec

\* The variables keep their types (executor.go:878, the request files and their tasks).
THEOREM CommandTypeCorrect == CommandSpec => []CommandTypeOK
<1>1. CommandInv => CommandTypeOK
  BY DEF CommandInv
<1>2. QED
  BY CommandInvariance, <1>1, PTL

\* A task whose helper ran alone between write and removal is served its own request.
THEOREM OwnRequest == CommandSpec => []OwnRequestUnlessRaced
<1>1. CommandInv => OwnRequestUnlessRaced
  BY DEF CommandInv
<1>2. QED
  BY CommandInvariance, <1>1, PTL

\* A helper that ran leaves no request behind, its own task's or another's.
THEOREM NoOrphans == CommandSpec => []NoOrphanRequest
<1>1. CommandInv => NoOrphanRequest
  BY DEF CommandInv
<1>2. QED
  BY CommandInvariance, <1>1, PTL

\* The scope check is as strict as the sudoers rules: sudo refuses nothing that passed
\* it, save beside a change of the profile.
THEOREM DeniedBesideChange == CommandSpec => []DeniedOnlyIfShifted
<1>1. CommandInv => DeniedOnlyIfShifted
  BY DEF CommandInv
<1>2. QED
  BY CommandInvariance, <1>1, PTL

===============================================================================
