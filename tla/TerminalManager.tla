---------------------------- MODULE TerminalManager ----------------------------
(***************************************************************************)
(* internal/terminal/manager.go for one session identifier: the event       *)
(* handlers that start and stop its sessions, and for every session the     *)
(* goroutine that waits for the shell, the ones that stream its output and  *)
(* the one that watches the context.  Identifiers share nothing but the     *)
(* lock of the map.  Output is counted in chunks.  The events go to the     *)
(* outbound queue (OutboundQueue), which keeps their order.  A call that     *)
(* fails is answered with terminal.error (realtime/client.go:577) and leaves *)
(* nothing else behind; that event is left out, and with it the calls that  *)
(* find no session or no shell, and resizing.                               *)
(***************************************************************************)
EXTENDS Naturals, Sequences

CONSTANTS
  Callers,   \* event handlers under way at once: of the new and an older socket
  Closed,    \* of them, those of a closed socket, whose present call is their last
  Sessions,  \* the session objects, made in this order, one for each start
  MaxOutput  \* bound: chunks a shell writes

NoSession == 0

ASSUME SessionAssumption == Sessions \subseteq Nat \ {NoSession} /\ MaxOutput \in Nat
ASSUME CallerAssumption == Closed \subseteq Callers

VARIABLES
  down,        \* the context of the sessions is done
  registered,  \* Manager.sessions[id], or NoSession
  pc,          \* [Callers -> CallPoints]
  obj,         \* [Callers -> Sessions \cup {NoSession}]: the handler's session
  proc,        \* [Sessions -> ProcStates]: the shell
  open,        \* sessions whose PTY is open on the agent's side
  stopped,     \* sessions with a stop reason
  written,     \* [Sessions -> Nat]: chunks the shell has written
  unread,      \* [Sessions -> Nat]: of them, still in the PTY
  held,        \* [Sessions -> Nat]: of them, read but not flushed
  stream,      \* [Sessions -> {"off", "streaming", "done"}]
  run,         \* [Sessions -> RunPoints]: where runSession is
  watch,       \* [Sessions -> {"off", "watching", "done"}]
  events       \* what the agent has sent: a sequence of [kind, of, size]

outVars == <<written, unread, held>>
vars == <<down, registered, pc, obj, proc, open, stopped, outVars, stream, run, watch, events>>

\* A running shell is the agent's own or, under sudo, root's ("rooted").
ProcStates == {"none", "running", "rooted", "exited", "reaped"}
Running(k) == proc[k] \in {"running", "rooted"}

CallPoints == {"idle", "spawned", "announcing", "stopping", "gone"}
RunPoints == {"off", "waiting", "closing", "joining", "removing", "reporting", "done"}

Kinds == {"opened", "output", "exited"}
Event(kind, k, size) == [kind |-> kind, of |-> k, size |-> size]

TypeOK ==
  /\ down \in BOOLEAN
  /\ registered \in Sessions \cup {NoSession}
  /\ pc \in [Callers -> CallPoints]
  /\ obj \in [Callers -> Sessions \cup {NoSession}]
  /\ proc \in [Sessions -> ProcStates]
  /\ open \subseteq Sessions
  /\ stopped \subseteq Sessions
  /\ \A f \in {written, unread, held} : f \in [Sessions -> 0..MaxOutput]
  /\ stream \in [Sessions -> {"off", "streaming", "done"}]
  /\ run \in [Sessions -> RunPoints]
  /\ watch \in [Sessions -> {"off", "watching", "done"}]
  /\ events \in Seq([kind : Kinds, of : Sessions, size : 0..MaxOutput])

Init ==
  /\ down = FALSE
  /\ registered = NoSession
  /\ pc = [c \in Callers |-> "idle"]
  /\ obj = [c \in Callers |-> NoSession]
  /\ proc = [k \in Sessions |-> "none"]
  /\ open = {}
  /\ stopped = {}
  /\ written = [k \in Sessions |-> 0]
  /\ unread = [k \in Sessions |-> 0]
  /\ held = [k \in Sessions |-> 0]
  /\ stream = [k \in Sessions |-> "off"]
  /\ run = [k \in Sessions |-> "off"]
  /\ watch = [k \in Sessions |-> "off"]
  /\ events = <<>>

-------------------------------------------------------------------------------
(* StartSession *)

\* A socket's handler takes the next event, unless the socket is closed.
Return(c) == pc' = [pc EXCEPT ![c] = IF c \in Closed THEN "gone" ELSE "idle"]

\* The shell, for runAsRoot "sudo -n -H shell -i", is started before the map is
\* looked at ...
Spawn(c, k) ==
  /\ pc[c] = "idle"
  /\ proc[k] = "none" /\ \A j \in Sessions : j < k => proc[j] # "none"
  /\ pc' = [pc EXCEPT ![c] = "spawned"]
  /\ obj' = [obj EXCEPT ![c] = k]
  /\ \E shell \in {"running", "rooted"} : proc' = [proc EXCEPT ![k] = shell]
  /\ open' = open \cup {k}
  /\ UNCHANGED <<down, registered, stopped, outVars, stream, run, watch, events>>

\* Mutant: the map is not looked at.
Register_overwriting(c) ==
  /\ pc[c] = "spawned"
  /\ registered' = obj[c]
  /\ stream' = [stream EXCEPT ![obj[c]] = "streaming"]
  /\ run' = [run EXCEPT ![obj[c]] = "waiting"]
  /\ watch' = [watch EXCEPT ![obj[c]] = "watching"]
  /\ pc' = [pc EXCEPT ![c] = "announcing"]
  /\ UNCHANGED <<down, obj, proc, open, stopped, outVars, events>>

\* ... under the lock.  A free identifier is taken and runSession starts, ...
Register(c) ==
  /\ pc[c] = "spawned"
  /\ registered = NoSession
  /\ registered' = obj[c]
  /\ stream' = [stream EXCEPT ![obj[c]] = "streaming"]
  /\ run' = [run EXCEPT ![obj[c]] = "waiting"]
  /\ watch' = [watch EXCEPT ![obj[c]] = "watching"]
  /\ pc' = [pc EXCEPT ![c] = "announcing"]
  /\ UNCHANGED <<down, obj, proc, open, stopped, outVars, events>>

\* A SIGKILL to the process group.  A reaped one is no longer there, and root's
\* may not be signalled by the agent's user: the error is all that comes of it.
Killed(k) == [proc EXCEPT ![k] = IF @ = "running" THEN "exited" ELSE @]

\* ... otherwise the new shell is killed, without a Wait and whether or not it can be.
Refuse(c) ==
  /\ pc[c] = "spawned"
  /\ registered # NoSession
  /\ open' = open \ {obj[c]}
  /\ proc' = Killed(obj[c])
  /\ Return(c)
  /\ UNCHANGED <<down, registered, obj, stopped, outVars, stream, run, watch, events>>

\* TerminalOpened, beside the session that runs already.
Announce(c) ==
  /\ pc[c] = "announcing"
  /\ events' = Append(events, Event("opened", obj[c], 0))
  /\ Return(c)
  /\ UNCHANGED <<down, registered, obj, proc, open, stopped, outVars, stream, run, watch>>

-------------------------------------------------------------------------------
(* StopSession *)

\* getSession and the stop reason.
StopLookup(c) ==
  /\ pc[c] = "idle"
  /\ registered # NoSession
  /\ obj' = [obj EXCEPT ![c] = registered]
  /\ stopped' = stopped \cup {registered}
  /\ pc' = [pc EXCEPT ![c] = "stopping"]
  /\ UNCHANGED <<down, registered, proc, open, outVars, stream, run, watch, events>>

\* Mutant: a signal that stops the shell without ending it.
StopKill_stopping(c) ==
  /\ pc[c] = "stopping"
  /\ Return(c)
  /\ UNCHANGED <<down, registered, obj, proc, open, stopped, outVars, stream, run, watch, events>>

\* killTerminalCommand; its error, if any, is the handler's.
StopKill(c) ==
  /\ pc[c] = "stopping"
  /\ proc' = Killed(obj[c])
  /\ Return(c)
  /\ UNCHANGED <<down, registered, obj, open, stopped, outVars, stream, run, watch, events>>

-------------------------------------------------------------------------------
(* The shell *)

ShellWrites(k) ==
  /\ Running(k)
  /\ k \in open
  /\ written[k] < MaxOutput
  /\ written' = [written EXCEPT ![k] = @ + 1]
  /\ unread' = [unread EXCEPT ![k] = @ + 1]
  /\ UNCHANGED <<down, registered, pc, obj, proc, open, stopped, held, stream, run, watch, events>>

ShellExits(k) ==
  /\ Running(k)
  /\ proc' = [proc EXCEPT ![k] = "exited"]
  /\ UNCHANGED <<down, registered, pc, obj, open, stopped, outVars, stream, run, watch, events>>

-------------------------------------------------------------------------------
(* streamPTYOutput *)

Read(k) ==
  /\ stream[k] = "streaming"
  /\ k \in open
  /\ unread[k] > 0
  /\ held' = [held EXCEPT ![k] = @ + unread[k]]
  /\ unread' = [unread EXCEPT ![k] = 0]
  /\ UNCHANGED <<down, registered, pc, obj, proc, open, stopped, written, stream, run, watch, events>>

\* By the ticker, by the threshold or at the end.
Flush(k) ==
  /\ stream[k] = "streaming"
  /\ held[k] > 0
  /\ events' = Append(events, Event("output", k, held[k]))
  /\ held' = [held EXCEPT ![k] = 0]
  /\ UNCHANGED <<down, registered, pc, obj, proc, open, stopped, written, unread, stream, run, watch>>

\* Read fails: nobody has the shell's side open any more and nothing is left to
\* read, or runSession has closed the PTY.  What was read is flushed first.
StreamEnd(k) ==
  /\ stream[k] = "streaming"
  /\ held[k] = 0
  /\ k \notin open \/ (~Running(k) /\ unread[k] = 0)
  /\ stream' = [stream EXCEPT ![k] = "done"]
  /\ UNCHANGED <<down, registered, pc, obj, proc, open, stopped, outVars, run, watch, events>>

-------------------------------------------------------------------------------
(* runSession *)

Wait(k) ==
  /\ run[k] = "waiting"
  /\ proc[k] = "exited"
  /\ proc' = [proc EXCEPT ![k] = "reaped"]
  /\ run' = [run EXCEPT ![k] = "closing"]
  /\ UNCHANGED <<down, registered, pc, obj, open, stopped, outVars, stream, watch, events>>

\* ptyFile.Close: what the reader has not taken is gone.
ClosePTY(k) ==
  /\ run[k] = "closing"
  /\ open' = open \ {k}
  /\ unread' = [unread EXCEPT ![k] = 0]
  /\ run' = [run EXCEPT ![k] = "joining"]
  /\ UNCHANGED <<down, registered, pc, obj, proc, stopped, written, held, stream, watch, events>>

\* Mutant: the reader is not waited for.
Join_early(k) ==
  /\ run[k] = "joining"
  /\ run' = [run EXCEPT ![k] = "removing"]
  /\ UNCHANGED <<down, registered, pc, obj, proc, open, stopped, outVars, stream, watch, events>>

Join(k) ==
  /\ run[k] = "joining"
  /\ stream[k] = "done"
  /\ run' = [run EXCEPT ![k] = "removing"]
  /\ UNCHANGED <<down, registered, pc, obj, proc, open, stopped, outVars, stream, watch, events>>

\* delete(m.sessions, s.id): whatever the identifier stands for.
Remove(k) ==
  /\ run[k] = "removing"
  /\ registered' = NoSession
  /\ run' = [run EXCEPT ![k] = "reporting"]
  /\ UNCHANGED <<down, pc, obj, proc, open, stopped, outVars, stream, watch, events>>

ReportExit(k) ==
  /\ run[k] = "reporting"
  /\ events' = Append(events, Event("exited", k, 0))
  /\ run' = [run EXCEPT ![k] = "done"]
  /\ UNCHANGED <<down, registered, pc, obj, proc, open, stopped, outVars, stream, watch>>

-------------------------------------------------------------------------------
(* The context *)

Shutdown ==
  /\ ~down
  /\ down' = TRUE
  /\ UNCHANGED <<registered, pc, obj, proc, open, stopped, outVars, stream, run, watch, events>>

\* The watcher stops what the identifier stands for; an error is ignored, so
\* lookup and signal count as one step.
WatchDown(k) ==
  /\ watch[k] = "watching"
  /\ down
  /\ IF registered = NoSession THEN UNCHANGED <<stopped, proc>>
     ELSE stopped' = stopped \cup {registered} /\ proc' = Killed(registered)
  /\ watch' = [watch EXCEPT ![k] = "done"]
  /\ UNCHANGED <<down, registered, pc, obj, open, outVars, stream, run, events>>

WatchEnd(k) ==
  /\ watch[k] = "watching"
  /\ run[k] = "done"
  /\ watch' = [watch EXCEPT ![k] = "done"]
  /\ UNCHANGED <<down, registered, pc, obj, proc, open, stopped, outVars, stream, run, events>>

-------------------------------------------------------------------------------
CallStep(c) ==
  \/ Register(c)
  \/ Refuse(c)
  \/ Announce(c)
  \/ StopKill(c)

StreamStep(k) == Read(k) \/ Flush(k) \/ StreamEnd(k)

RunStep(k) == Wait(k) \/ ClosePTY(k) \/ Join(k) \/ Remove(k) \/ ReportExit(k)

WatchStep(k) == WatchDown(k) \/ WatchEnd(k)

Next ==
  \/ \E c \in Callers, k \in Sessions : Spawn(c, k)
  \/ \E c \in Callers : StopLookup(c)
  \/ \E c \in Callers : CallStep(c)
  \/ \E k \in Sessions : ShellWrites(k) \/ ShellExits(k)
  \/ \E k \in Sessions : StreamStep(k) \/ RunStep(k) \/ WatchStep(k)
  \/ Shutdown

Spec == Init /\ [][Next]_vars

\* Goroutines and handlers run, the queue takes their events (SendsEnd of
\* OutboundQueue).  The shell owes nothing, nor does the platform.
Fairness ==
  /\ \A c \in Callers : WF_vars(CallStep(c))
  /\ \A k \in Sessions : WF_vars(StreamStep(k)) /\ WF_vars(RunStep(k)) /\ WF_vars(WatchStep(k))

FairSpec == Spec /\ Fairness

-------------------------------------------------------------------------------
(* Properties *)

At(kind, k) == {i \in DOMAIN events : events[i].kind = kind /\ events[i].of = k}

\* terminal.exited is the session's last word: it is sent once and no output
\* follows it, because runSession waits for the reader.
ExitedIsFinal ==
  \A k \in Sessions : \A i, j \in At("exited", k) \cup At("output", k) :
    i \in At("exited", k) => j <= i

\* The map holds the session that runs, from its start until its reader has
\* ended, and no other: two starts of one identifier cannot both succeed and a
\* session cannot remove another one's entry.
RegisteredRuns ==
  \A k \in Sessions :
    run[k] \in {"waiting", "closing", "joining", "removing"} <=> registered = k

\* Once the platform can know that a session has ended its identifier is free:
\* a start sent in answer to terminal.exited is not refused on its account.
ReusableAfterExit == \A k \in Sessions : At("exited", k) # {} => registered # k

\* A session that is stopped, and every session once the agent is, comes to its
\* end with terminal.exited, whatever its shell does: the stop may meet the
\* shell's own exit or the end of an earlier session.  A shell of root's cannot
\* be killed and has its session go on, but when it exits the session ends, too.
StopEnds ==
  \A k \in Sessions :
    <>[](\/ k \notin stopped /\ (~down \/ run[k] = "off")
         \/ At("exited", k) # {}
         \/ proc[k] = "rooted")

===============================================================================
