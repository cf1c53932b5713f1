-------------------------- MODULE TerminalManagerProofs -------------------------
(****************************************************************************)
(* The safety properties of TerminalManager for any event handlers and any  *)
(* number of starts of the identifier.                                      *)
(****************************************************************************)
EXTENDS TerminalManager, SequenceTheorems, TLAPS

\* A handler at work has a session; a shell just started is its own and has no
\* goroutines yet.
HandlersOwn ==
  /\ \A c \in Callers : pc[c] \in {"spawned", "announcing", "stopping"} => obj[c] \in Sessions
  /\ \A c \in Callers :
       pc[c] = "spawned" => run[obj[c]] = "off" /\ proc[obj[c]] # "none"
  /\ \A c, d \in Callers : pc[c] = "spawned" /\ pc[d] = "spawned" /\ c # d => obj[c] # obj[d]

\* The goroutines of a session: none before its shell, and the reader is gone when
\* runSession has joined it.
GoroutinesJoined ==
  \A k \in Sessions :
    /\ proc[k] = "none" => run[k] = "off"
    /\ run[k] = "off" => stream[k] = "off"
    /\ run[k] \in {"removing", "reporting", "done"} => stream[k] = "done"

\* terminal.exited is sent by the last step of runSession.
ExitedLast == \A k \in Sessions : At("exited", k) # {} => run[k] = "done"

\* A chunk is read or sent only once.
ChunksBounded == \A k \in Sessions : unread[k] + held[k] <= written[k]

IInv ==
  /\ TypeOK
  /\ ChunksBounded
  /\ HandlersOwn
  /\ GoroutinesJoined
  /\ RegisteredRuns
  /\ ExitedLast
  /\ ExitedIsFinal

Events == [kind : Kinds, of : Sessions, size : 0..MaxOutput]

-------------------------------------------------------------------------------
(* The events sent *)

LEMMA SameEvents ==
  ASSUME events' = events, NEW kind, NEW k
  PROVE  At(kind, k)' = At(kind, k)
  BY DEF At

\* A new event is the latest of all.
LEMMA OneMoreEvent ==
  ASSUME TypeOK, NEW e \in Events, events' = Append(events, e), NEW kind, NEW k
  PROVE  /\ Len(events) + 1 \in Nat
         /\ \A i \in At(kind, k) : i \in Nat /\ i < Len(events) + 1
         /\ At(kind, k)' = IF e.kind = kind /\ e.of = k
                           THEN At(kind, k) \cup {Len(events) + 1} ELSE At(kind, k)
<1>1. events \in Seq(Events)
  BY DEF TypeOK, Events
<1>2. /\ Len(events) \in Nat /\ DOMAIN events = 1..Len(events)
      /\ Len(events') = Len(events) + 1 /\ DOMAIN events' = 1..Len(events')
      /\ \A i \in 1..Len(events) : events'[i] = events[i]
      /\ events'[Len(events) + 1] = e
  BY <1>1, AppendProperties, LenProperties
<1>3. QED
  BY <1>2 DEF At

-------------------------------------------------------------------------------
(* Each conjunct is kept by every step; one proof step per action. *)

\* The state is well typed.
LEMMA TypeStep == TypeOK /\ HandlersOwn /\ ChunksBounded /\ [Next]_vars => TypeOK'
<1> SUFFICES ASSUME TypeOK /\ HandlersOwn /\ ChunksBounded, [Next]_vars PROVE TypeOK'
  OBVIOUS
<1> USE SessionAssumption, CallerAssumption DEF TypeOK, HandlersOwn, CallPoints, RunPoints, ProcStates,
   outVars
<1>1. ASSUME NEW c \in Callers, NEW k \in Sessions, Spawn(c, k) PROVE TypeOK'
  <2>1. proc' \in [Sessions -> ProcStates]
    <3>1. PICK shell \in {"running", "rooted"} : proc' = [proc EXCEPT ![k] = shell]
      BY <1>1 DEF Spawn
    <3>2. QED
      BY <3>1
  <2>2. QED
    BY <1>1, <2>1 DEF Spawn
<1>2. ASSUME NEW c \in Callers, StopLookup(c) PROVE TypeOK'
  BY <1>2 DEF StopLookup
<1>3. ASSUME NEW c \in Callers, Register(c) PROVE TypeOK'
  BY <1>3 DEF Register
<1>4. ASSUME NEW c \in Callers, Refuse(c) PROVE TypeOK'
  BY <1>4 DEF Refuse, Return, Killed
<1>5. ASSUME NEW c \in Callers, Announce(c) PROVE TypeOK'
  <2>1. Event("opened", obj[c], 0) \in [kind : Kinds, of : Sessions, size : 0..MaxOutput]
    BY <1>5, SessionAssumption DEF Announce, Event, Kinds
  <2>2. events' \in Seq([kind : Kinds, of : Sessions, size : 0..MaxOutput])
    BY <1>5, <2>1, AppendProperties DEF Announce
  <2>3. QED
    BY <1>5, <2>2 DEF Announce, Return
<1>6. ASSUME NEW c \in Callers, StopKill(c) PROVE TypeOK'
  BY <1>6 DEF StopKill, Return, Killed
<1>7. ASSUME NEW k \in Sessions, ShellWrites(k) PROVE TypeOK'
  <2>1. written' \in [Sessions -> 0..MaxOutput] /\ unread' \in [Sessions -> 0..MaxOutput]
    BY <1>7, SMTT(40) DEF ShellWrites, ChunksBounded
  <2>2. held' \in [Sessions -> 0..MaxOutput]
    BY <1>7 DEF ShellWrites
  <2>3. \A f \in {written', unread', held'} : f \in [Sessions -> 0..MaxOutput]
    BY <2>1, <2>2
  <2>4. QED
    BY <1>7, <2>3 DEF ShellWrites
<1>8. ASSUME NEW k \in Sessions, ShellExits(k) PROVE TypeOK'
  BY <1>8 DEF ShellExits
<1>9. ASSUME NEW k \in Sessions, Read(k) PROVE TypeOK'
  <2>1. held' \in [Sessions -> 0..MaxOutput] /\ unread' \in [Sessions -> 0..MaxOutput]
    <3>1. held[k] + unread[k] \in 0..MaxOutput
      BY DEF ChunksBounded
    <3>2. QED
      BY <1>9, <3>1 DEF Read
  <2>2. written' \in [Sessions -> 0..MaxOutput]
    BY <1>9 DEF Read
  <2>3. \A f \in {written', unread', held'} : f \in [Sessions -> 0..MaxOutput]
    BY <2>1, <2>2
  <2>4. QED
    BY <1>9, <2>3 DEF Read
<1>10. ASSUME NEW k \in Sessions, Flush(k) PROVE TypeOK'
  <2>1. Event("output", k, held[k]) \in [kind : Kinds, of : Sessions, size : 0..MaxOutput]
    BY <1>10, SessionAssumption DEF Flush, Event, Kinds
  <2>2. events' \in Seq([kind : Kinds, of : Sessions, size : 0..MaxOutput])
    BY <1>10, <2>1, AppendProperties DEF Flush
  <2>3. \A f \in {written', unread', held'} : f \in [Sessions -> 0..MaxOutput]
    <3>1. held' \in [Sessions -> 0..MaxOutput]
      BY <1>10, SessionAssumption DEF Flush
    <3>2. QED
      BY <1>10, <3>1, SMTT(40) DEF Flush
  <2>4. QED
    BY <1>10, <2>2, <2>3 DEF Flush
<1>11. ASSUME NEW k \in Sessions, StreamEnd(k) PROVE TypeOK'
  BY <1>11 DEF StreamEnd
<1>12. ASSUME NEW k \in Sessions, Wait(k) PROVE TypeOK'
  BY <1>12 DEF Wait
<1>13. ASSUME NEW k \in Sessions, ClosePTY(k) PROVE TypeOK'
  BY <1>13, SMTT(40) DEF ClosePTY
<1>14. ASSUME NEW k \in Sessions, Join(k) PROVE TypeOK'
  BY <1>14 DEF Join
<1>15. ASSUME NEW k \in Sessions, Remove(k) PROVE TypeOK'
  BY <1>15 DEF Remove
<1>16. ASSUME NEW k \in Sessions, ReportExit(k) PROVE TypeOK'
  <2>1. Event("exited", k, 0) \in [kind : Kinds, of : Sessions, size : 0..MaxOutput]
    BY <1>16, SessionAssumption DEF ReportExit, Event, Kinds
  <2>2. events' \in Seq([kind : Kinds, of : Sessions, size : 0..MaxOutput])
    BY <1>16, <2>1, AppendProperties DEF ReportExit
  <2>3. QED
    BY <1>16, <2>2 DEF ReportExit
<1>17. ASSUME NEW k \in Sessions, WatchDown(k) PROVE TypeOK'
  <2>1. stopped' \subseteq Sessions
    <3>1. CASE registered = NoSession
      BY <1>17, <3>1 DEF WatchDown
    <3>2. CASE registered # NoSession
      <4>1. registered \in Sessions /\ stopped \subseteq Sessions
        BY <3>2
      <4>2. stopped' = stopped \cup {registered}
        BY <1>17, <3>2 DEF WatchDown
      <4>3. QED
        BY <4>1, <4>2, ZenonT(30)
    <3>3. QED
      BY <3>1, <3>2
  <2>2. proc' \in [Sessions -> ProcStates]
    <3>1. CASE registered = NoSession
      BY <1>17, <3>1 DEF WatchDown
    <3>2. CASE registered # NoSession
      <4>1. \A j \in Sessions : proc'[j] \in {"exited", proc[j]}
        BY <1>17, <3>2 DEF WatchDown, Killed
      <4>2. QED
        BY <1>17, <3>2, <4>1 DEF WatchDown, Killed
    <3>3. QED
      BY <3>1, <3>2
  <2>3. QED
    BY <1>17, <2>1, <2>2 DEF WatchDown
<1>18. ASSUME NEW k \in Sessions, WatchEnd(k) PROVE TypeOK'
  BY <1>18 DEF WatchEnd
<1>19. ASSUME Shutdown PROVE TypeOK'
  BY <1>19 DEF Shutdown
<1>20. ASSUME UNCHANGED vars PROVE TypeOK'
  BY <1>20 DEF vars
<1>21. QED
  BY <1>1, <1>2, <1>3, <1>4, <1>5, <1>6, <1>7, <1>8, <1>9, <1>10, <1>11, <1>12,
     <1>13, <1>14, <1>15, <1>16, <1>17, <1>18, <1>19, <1>20 DEF Next, CallStep,
     StreamStep, RunStep, WatchStep

\* A chunk moves from the PTY to the reader to an event, or is lost with the PTY.
LEMMA ChunkStep == TypeOK /\ ChunksBounded /\ [Next]_vars => ChunksBounded'
<1> SUFFICES ASSUME TypeOK /\ ChunksBounded, [Next]_vars PROVE ChunksBounded'
  OBVIOUS
<1> USE SessionAssumption DEF TypeOK, ChunksBounded, outVars
<1>1. ASSUME NEW c \in Callers, NEW k \in Sessions, Spawn(c, k) PROVE ChunksBounded'
  BY <1>1 DEF Spawn
<1>2. ASSUME NEW c \in Callers, StopLookup(c) PROVE ChunksBounded'
  BY <1>2 DEF StopLookup
<1>3. ASSUME NEW c \in Callers, Register(c) PROVE ChunksBounded'
  BY <1>3 DEF Register
<1>4. ASSUME NEW c \in Callers, Refuse(c) PROVE ChunksBounded'
  BY <1>4 DEF Refuse, Return, Killed
<1>5. ASSUME NEW c \in Callers, Announce(c) PROVE ChunksBounded'
  BY <1>5 DEF Announce, Return
<1>6. ASSUME NEW c \in Callers, StopKill(c) PROVE ChunksBounded'
  BY <1>6 DEF StopKill, Return, Killed
<1>7. ASSUME NEW k \in Sessions, ShellWrites(k) PROVE ChunksBounded'
  BY <1>7 DEF ShellWrites
<1>8. ASSUME NEW k \in Sessions, ShellExits(k) PROVE ChunksBounded'
  BY <1>8 DEF ShellExits
<1>9. ASSUME NEW k \in Sessions, Read(k) PROVE ChunksBounded'
  BY <1>9 DEF Read
<1>10. ASSUME NEW k \in Sessions, Flush(k) PROVE ChunksBounded'
  BY <1>10 DEF Flush
<1>11. ASSUME NEW k \in Sessions, StreamEnd(k) PROVE ChunksBounded'
  BY <1>11 DEF StreamEnd
<1>12. ASSUME NEW k \in Sessions, Wait(k) PROVE ChunksBounded'
  BY <1>12 DEF Wait
<1>13. ASSUME NEW k \in Sessions, ClosePTY(k) PROVE ChunksBounded'
  BY <1>13 DEF ClosePTY
<1>14. ASSUME NEW k \in Sessions, Join(k) PROVE ChunksBounded'
  BY <1>14 DEF Join
<1>15. ASSUME NEW k \in Sessions, Remove(k) PROVE ChunksBounded'
  BY <1>15 DEF Remove
<1>16. ASSUME NEW k \in Sessions, ReportExit(k) PROVE ChunksBounded'
  BY <1>16 DEF ReportExit
<1>17. ASSUME NEW k \in Sessions, WatchDown(k) PROVE ChunksBounded'
  BY <1>17 DEF WatchDown, Killed
<1>18. ASSUME NEW k \in Sessions, WatchEnd(k) PROVE ChunksBounded'
  BY <1>18 DEF WatchEnd
<1>19. ASSUME Shutdown PROVE ChunksBounded'
  BY <1>19 DEF Shutdown
<1>20. ASSUME UNCHANGED vars PROVE ChunksBounded'
  BY <1>20 DEF vars
<1>21. QED
  BY <1>1, <1>2, <1>3, <1>4, <1>5, <1>6, <1>7, <1>8, <1>9, <1>10, <1>11, <1>12,
     <1>13, <1>14, <1>15, <1>16, <1>17, <1>18, <1>19, <1>20 DEF Next, CallStep,
     StreamStep, RunStep, WatchStep

\* Shells are started in turn, each by one handler.
LEMMA HandlerStep == IInv /\ [Next]_vars => HandlersOwn'
<1> SUFFICES ASSUME IInv, [Next]_vars PROVE HandlersOwn'
  OBVIOUS
<1> USE SessionAssumption DEF IInv, TypeOK, HandlersOwn, GoroutinesJoined, RegisteredRuns,
   CallPoints, RunPoints, outVars
<1>1. ASSUME NEW c \in Callers, NEW k \in Sessions, Spawn(c, k) PROVE HandlersOwn'
  BY <1>1 DEF Spawn
<1>2. ASSUME NEW c \in Callers, StopLookup(c) PROVE HandlersOwn'
  BY <1>2 DEF StopLookup
<1>3. ASSUME NEW c \in Callers, Register(c) PROVE HandlersOwn'
  BY <1>3 DEF Register
<1>4. ASSUME NEW c \in Callers, Refuse(c) PROVE HandlersOwn'
  BY <1>4 DEF Refuse, Return, Killed
<1>5. ASSUME NEW c \in Callers, Announce(c) PROVE HandlersOwn'
  BY <1>5 DEF Announce, Return
<1>6. ASSUME NEW c \in Callers, StopKill(c) PROVE HandlersOwn'
  BY <1>6 DEF StopKill, Return, Killed
<1>7. ASSUME NEW k \in Sessions, ShellWrites(k) PROVE HandlersOwn'
  BY <1>7 DEF ShellWrites
<1>8. ASSUME NEW k \in Sessions, ShellExits(k) PROVE HandlersOwn'
  BY <1>8 DEF ShellExits
<1>9. ASSUME NEW k \in Sessions, Read(k) PROVE HandlersOwn'
  BY <1>9 DEF Read
<1>10. ASSUME NEW k \in Sessions, Flush(k) PROVE HandlersOwn'
  BY <1>10 DEF Flush
<1>11. ASSUME NEW k \in Sessions, StreamEnd(k) PROVE HandlersOwn'
  BY <1>11 DEF StreamEnd
<1>12. ASSUME NEW k \in Sessions, Wait(k) PROVE HandlersOwn'
  BY <1>12 DEF Wait
<1>13. ASSUME NEW k \in Sessions, ClosePTY(k) PROVE HandlersOwn'
  BY <1>13 DEF ClosePTY
<1>14. ASSUME NEW k \in Sessions, Join(k) PROVE HandlersOwn'
  BY <1>14 DEF Join
<1>15. ASSUME NEW k \in Sessions, Remove(k) PROVE HandlersOwn'
  BY <1>15 DEF Remove
<1>16. ASSUME NEW k \in Sessions, ReportExit(k) PROVE HandlersOwn'
  BY <1>16 DEF ReportExit
<1>17. ASSUME NEW k \in Sessions, WatchDown(k) PROVE HandlersOwn'
  <2>1. \A j \in Sessions : proc[j] # "none" => proc'[j] # "none"
    BY <1>17 DEF WatchDown, Killed
  <2>2. UNCHANGED <<pc, obj, run>>
    BY <1>17 DEF WatchDown
  <2>3. HandlersOwn
    OBVIOUS
  <2> HIDE DEF IInv, TypeOK, GoroutinesJoined, RegisteredRuns
  <2>4. QED
    BY <2>1, <2>2, <2>3
<1>18. ASSUME NEW k \in Sessions, WatchEnd(k) PROVE HandlersOwn'
  BY <1>18 DEF WatchEnd
<1>19. ASSUME Shutdown PROVE HandlersOwn'
  BY <1>19 DEF Shutdown
<1>20. ASSUME UNCHANGED vars PROVE HandlersOwn'
  BY <1>20 DEF vars
<1>21. QED
  BY <1>1, <1>2, <1>3, <1>4, <1>5, <1>6, <1>7, <1>8, <1>9, <1>10, <1>11, <1>12,
     <1>13, <1>14, <1>15, <1>16, <1>17, <1>18, <1>19, <1>20 DEF Next, CallStep,
     StreamStep, RunStep, WatchStep

\* runSession waits for the reader before it gives the identifier up.
LEMMA GoroutineStep == IInv /\ [Next]_vars => GoroutinesJoined'
<1> SUFFICES ASSUME IInv, [Next]_vars PROVE GoroutinesJoined'
  OBVIOUS
<1> USE SessionAssumption DEF IInv, TypeOK, HandlersOwn, GoroutinesJoined, CallPoints,
   RunPoints, outVars
<1>1. ASSUME NEW c \in Callers, NEW k \in Sessions, Spawn(c, k) PROVE GoroutinesJoined'
  BY <1>1 DEF Spawn
<1>2. ASSUME NEW c \in Callers, StopLookup(c) PROVE GoroutinesJoined'
  BY <1>2 DEF StopLookup
<1>3. ASSUME NEW c \in Callers, Register(c) PROVE GoroutinesJoined'
  BY <1>3 DEF Register
<1>4. ASSUME NEW c \in Callers, Refuse(c) PROVE GoroutinesJoined'
  BY <1>4 DEF Refuse, Return, Killed
<1>5. ASSUME NEW c \in Callers, Announce(c) PROVE GoroutinesJoined'
  BY <1>5 DEF Announce, Return
<1>6. ASSUME NEW c \in Callers, StopKill(c) PROVE GoroutinesJoined'
  BY <1>6 DEF StopKill, Return, Killed
<1>7. ASSUME NEW k \in Sessions, ShellWrites(k) PROVE GoroutinesJoined'
  BY <1>7 DEF ShellWrites
<1>8. ASSUME NEW k \in Sessions, ShellExits(k) PROVE GoroutinesJoined'
  BY <1>8 DEF ShellExits
<1>9. ASSUME NEW k \in Sessions, Read(k) PROVE GoroutinesJoined'
  BY <1>9 DEF Read
<1>10. ASSUME NEW k \in Sessions, Flush(k) PROVE GoroutinesJoined'
  BY <1>10 DEF Flush
<1>11. ASSUME NEW k \in Sessions, StreamEnd(k) PROVE GoroutinesJoined'
  BY <1>11 DEF StreamEnd
<1>12. ASSUME NEW k \in Sessions, Wait(k) PROVE GoroutinesJoined'
  BY <1>12 DEF Wait
<1>13. ASSUME NEW k \in Sessions, ClosePTY(k) PROVE GoroutinesJoined'
  BY <1>13 DEF ClosePTY
<1>14. ASSUME NEW k \in Sessions, Join(k) PROVE GoroutinesJoined'
  BY <1>14 DEF Join
<1>15. ASSUME NEW k \in Sessions, Remove(k) PROVE GoroutinesJoined'
  BY <1>15 DEF Remove
<1>16. ASSUME NEW k \in Sessions, ReportExit(k) PROVE GoroutinesJoined'
  BY <1>16 DEF ReportExit
<1>17. ASSUME NEW k \in Sessions, WatchDown(k) PROVE GoroutinesJoined'
  BY <1>17 DEF WatchDown, Killed
<1>18. ASSUME NEW k \in Sessions, WatchEnd(k) PROVE GoroutinesJoined'
  BY <1>18 DEF WatchEnd
<1>19. ASSUME Shutdown PROVE GoroutinesJoined'
  BY <1>19 DEF Shutdown
<1>20. ASSUME UNCHANGED vars PROVE GoroutinesJoined'
  BY <1>20 DEF vars
<1>21. QED
  BY <1>1, <1>2, <1>3, <1>4, <1>5, <1>6, <1>7, <1>8, <1>9, <1>10, <1>11, <1>12,
     <1>13, <1>14, <1>15, <1>16, <1>17, <1>18, <1>19, <1>20 DEF Next, CallStep,
     StreamStep, RunStep, WatchStep

\* The lock admits one session, and a session removes the entry while it is its own.
LEMMA RegisterStep == IInv /\ [Next]_vars => RegisteredRuns'
<1> SUFFICES ASSUME IInv, [Next]_vars PROVE RegisteredRuns'
  OBVIOUS
<1> USE SessionAssumption DEF IInv, TypeOK, HandlersOwn, GoroutinesJoined, RegisteredRuns,
   CallPoints, RunPoints, outVars
<1>1. ASSUME NEW c \in Callers, NEW k \in Sessions, Spawn(c, k) PROVE RegisteredRuns'
  BY <1>1 DEF Spawn
<1>2. ASSUME NEW c \in Callers, StopLookup(c) PROVE RegisteredRuns'
  BY <1>2 DEF StopLookup
<1>3. ASSUME NEW c \in Callers, Register(c) PROVE RegisteredRuns'
  BY <1>3 DEF Register
<1>4. ASSUME NEW c \in Callers, Refuse(c) PROVE RegisteredRuns'
  BY <1>4 DEF Refuse, Return, Killed
<1>5. ASSUME NEW c \in Callers, Announce(c) PROVE RegisteredRuns'
  BY <1>5 DEF Announce, Return
<1>6. ASSUME NEW c \in Callers, StopKill(c) PROVE RegisteredRuns'
  BY <1>6 DEF StopKill, Return, Killed
<1>7. ASSUME NEW k \in Sessions, ShellWrites(k) PROVE RegisteredRuns'
  BY <1>7 DEF ShellWrites
<1>8. ASSUME NEW k \in Sessions, ShellExits(k) PROVE RegisteredRuns'
  BY <1>8 DEF ShellExits
<1>9. ASSUME NEW k \in Sessions, Read(k) PROVE RegisteredRuns'
  BY <1>9 DEF Read
<1>10. ASSUME NEW k \in Sessions, Flush(k) PROVE RegisteredRuns'
  BY <1>10 DEF Flush
<1>11. ASSUME NEW k \in Sessions, StreamEnd(k) PROVE RegisteredRuns'
  BY <1>11 DEF StreamEnd
<1>12. ASSUME NEW k \in Sessions, Wait(k) PROVE RegisteredRuns'
  BY <1>12 DEF Wait
<1>13. ASSUME NEW k \in Sessions, ClosePTY(k) PROVE RegisteredRuns'
  BY <1>13 DEF ClosePTY
<1>14. ASSUME NEW k \in Sessions, Join(k) PROVE RegisteredRuns'
  BY <1>14 DEF Join
<1>15. ASSUME NEW k \in Sessions, Remove(k) PROVE RegisteredRuns'
  BY <1>15 DEF Remove
<1>16. ASSUME NEW k \in Sessions, ReportExit(k) PROVE RegisteredRuns'
  BY <1>16 DEF ReportExit
<1>17. ASSUME NEW k \in Sessions, WatchDown(k) PROVE RegisteredRuns'
  BY <1>17 DEF WatchDown, Killed
<1>18. ASSUME NEW k \in Sessions, WatchEnd(k) PROVE RegisteredRuns'
  BY <1>18 DEF WatchEnd
<1>19. ASSUME Shutdown PROVE RegisteredRuns'
  BY <1>19 DEF Shutdown
<1>20. ASSUME UNCHANGED vars PROVE RegisteredRuns'
  BY <1>20 DEF vars
<1>21. QED
  BY <1>1, <1>2, <1>3, <1>4, <1>5, <1>6, <1>7, <1>8, <1>9, <1>10, <1>11, <1>12,
     <1>13, <1>14, <1>15, <1>16, <1>17, <1>18, <1>19, <1>20 DEF Next, CallStep,
     StreamStep, RunStep, WatchStep

\* Whoever sends an event of a session, sends it before terminal.exited.
LEMMA ExitStep == IInv /\ [Next]_vars => (ExitedLast /\ ExitedIsFinal)'
<1> SUFFICES ASSUME IInv, [Next]_vars PROVE (ExitedLast /\ ExitedIsFinal)'
  OBVIOUS
<1>1. ASSUME NEW e \in Events, events' = Append(events, e), run' = run,
             e.kind \notin {"exited", "output"}
      PROVE  (ExitedLast /\ ExitedIsFinal)'
  <2>1. \A k \in Sessions : At("exited", k)' = At("exited", k) /\ At("output", k)' = At("output", k)
    BY <1>1, OneMoreEvent DEF IInv
  <2>2. QED
    BY <1>1, <2>1 DEF IInv, ExitedLast, ExitedIsFinal
<1>2. ASSUME NEW k \in Sessions, ReportExit(k) PROVE (ExitedLast /\ ExitedIsFinal)'
  <2>1. Event("exited", k, 0) \in Events /\ events' = Append(events, Event("exited", k, 0))
    BY <1>2, SessionAssumption DEF ReportExit, Event, Events, Kinds
  <2>2. \A j \in Sessions :
          At("output", j)' = At("output", j)
          /\ At("exited", j)' = IF j = k THEN At("exited", j) \cup {Len(events) + 1}
                                ELSE At("exited", j)
    BY <2>1, OneMoreEvent DEF IInv, Event
  <2>3. run[k] # "done" /\ At("exited", k) = {} /\ run'[k] = "done"
        /\ \A j \in Sessions \ {k} : run'[j] = run[j]
    BY <1>2 DEF ReportExit, IInv, ExitedLast, TypeOK
  <2>4. \A i \in At("output", k) : i \in Nat /\ i < Len(events) + 1
    BY <2>1, OneMoreEvent DEF IInv
  <2>5. Len(events) + 1 \in Nat
    BY <2>1, OneMoreEvent DEF IInv
  <2>6. ExitedLast'
    BY <2>2, <2>3 DEF IInv, ExitedLast
  <2>7. ASSUME NEW j \in Sessions, NEW i \in At("exited", j)',
               NEW n \in (At("exited", j) \cup At("output", j))'
        PROVE  n <= i
    <3>1. CASE j = k
      BY <2>2, <2>3, <2>4, <2>5, <2>7, <3>1
    <3>2. CASE j # k
      BY <2>2, <2>7, <3>2 DEF IInv, ExitedIsFinal
    <3>3. QED
      BY <3>1, <3>2
  <2>8. QED
    BY <2>6, <2>7 DEF ExitedIsFinal
<1>3. ASSUME NEW k \in Sessions, Flush(k) PROVE (ExitedLast /\ ExitedIsFinal)'
  <2>1. Event("output", k, held[k]) \in Events
        /\ events' = Append(events, Event("output", k, held[k]))
    BY <1>3 DEF Flush, Event, Events, Kinds, IInv, TypeOK
  <2>2. \A j \in Sessions :
          At("exited", j)' = At("exited", j) /\ (j # k => At("output", j)' = At("output", j))
    BY <2>1, OneMoreEvent DEF IInv, Event
  <2>3. At("exited", k) = {} /\ run' = run
    BY <1>3 DEF Flush, IInv, ExitedLast, GoroutinesJoined
  <2>4. ExitedLast'
    BY <2>2, <2>3 DEF IInv, ExitedLast
  <2>5. ASSUME NEW j \in Sessions, NEW i \in At("exited", j)',
               NEW n \in (At("exited", j) \cup At("output", j))'
        PROVE  n <= i
    BY <2>2, <2>3, <2>5 DEF IInv, ExitedIsFinal
  <2>6. QED
    BY <2>4, <2>5 DEF ExitedIsFinal
<1>4. ASSUME NEW c \in Callers, Announce(c) PROVE (ExitedLast /\ ExitedIsFinal)'
  <2>1. Event("opened", obj[c], 0) \in Events
    BY <1>4, SessionAssumption DEF Announce, Event, Events, Kinds, IInv, HandlersOwn
  <2>2. QED
    BY <1>1, <1>4, <2>1 DEF Announce, Event
<1>5. ASSUME events' = events, \A k \in Sessions : run[k] = "done" => run'[k] = "done"
      PROVE  (ExitedLast /\ ExitedIsFinal)'
  BY <1>5, SameEvents DEF IInv, ExitedLast, ExitedIsFinal
<1>6. ASSUME NEW c \in Callers, Register(c) PROVE (ExitedLast /\ ExitedIsFinal)'
  BY <1>5, <1>6 DEF Register, IInv, HandlersOwn, TypeOK
<1>7. ASSUME NEW k \in Sessions, Wait(k) \/ ClosePTY(k) \/ Join(k) \/ Remove(k)
      PROVE  (ExitedLast /\ ExitedIsFinal)'
  BY <1>5, <1>7 DEF Wait, ClosePTY, Join, Remove, IInv, TypeOK
<1>8. CASE events' = events /\ run' = run
  BY <1>5, <1>8
<1>9. QED
  BY <1>2, <1>3, <1>4, <1>6, <1>7, <1>8 DEF Next, CallStep, StreamStep, RunStep, WatchStep, Spawn,
     StopLookup, Refuse, StopKill, ShellWrites, ShellExits, Read, StreamEnd, WatchDown, WatchEnd,
     Shutdown, vars

-------------------------------------------------------------------------------
\* No session has been started.
LEMMA Starts == Init => IInv
<1> SUFFICES ASSUME Init PROVE IInv
  OBVIOUS
<1>1. TypeOK
  <2>1. \A f \in {written, unread, held} : f \in [Sessions -> 0..MaxOutput]
    BY SessionAssumption DEF Init
  <2>2. events \in Seq([kind : Kinds, of : Sessions, size : 0..MaxOutput])
    BY EmptySeq DEF Init
  <2>3. /\ pc \in [Callers -> CallPoints] /\ obj \in [Callers -> Sessions \cup {NoSession}]
        /\ run \in [Sessions -> RunPoints] /\ proc \in [Sessions -> ProcStates]
    BY DEF Init, CallPoints, RunPoints, ProcStates
  <2>4. QED
    BY <2>1, <2>2, <2>3 DEF Init, TypeOK
<1>2. ChunksBounded /\ HandlersOwn /\ GoroutinesJoined
  BY SessionAssumption DEF Init, ChunksBounded, HandlersOwn, GoroutinesJoined
<1>3. RegisteredRuns
  BY SessionAssumption DEF Init, RegisteredRuns, NoSession
<1>4. ExitedLast /\ ExitedIsFinal
  <2>1. \A kind, k : At(kind, k) = {}
    BY EmptySeq DEF Init, At
  <2>2. QED
    BY <2>1 DEF ExitedLast, ExitedIsFinal
<1>5. QED
  BY <1>1, <1>2, <1>3, <1>4 DEF IInv

\* IInv always holds: which handler and which goroutines a session has, and what of
\* it has been sent.
THEOREM Invariance == Spec => []IInv
<1>1. IInv /\ [Next]_vars => IInv'
  <2>1. IInv => TypeOK /\ HandlersOwn /\ ChunksBounded
    BY DEF IInv
  <2>2. QED
    BY <2>1, TypeStep, ChunkStep, HandlerStep, GoroutineStep, RegisterStep, ExitStep DEF IInv
<1>2. QED
  BY Starts, <1>1, PTL DEF Spec

\* The variables keep their types (terminal/manager.go, the sessions and their maps).
THEOREM TypeCorrect == Spec => []TypeOK
<1>1. IInv => TypeOK
  BY DEF IInv
<1>2. QED
  BY Invariance, <1>1, PTL

\* Nothing of a session follows its terminal.exited.
THEOREM ExitIsFinal == Spec => []ExitedIsFinal
<1>1. IInv => ExitedIsFinal
  BY DEF IInv
<1>2. QED
  BY Invariance, <1>1, PTL

\* The map's entry is the session that runs, however many handlers start one.
THEOREM MapHoldsRunning == Spec => []RegisteredRuns
<1>1. IInv => RegisteredRuns
  BY DEF IInv
<1>2. QED
  BY Invariance, <1>1, PTL

\* A platform that answers terminal.exited with a new start is not refused for the
\* session that has ended.
THEOREM FreeAfterExit == Spec => []ReusableAfterExit
<1>1. IInv => ReusableAfterExit
  BY DEF IInv, ExitedLast, RegisteredRuns, ReusableAfterExit
<1>2. QED
  BY Invariance, <1>1, PTL

===============================================================================
