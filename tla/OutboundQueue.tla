----------------------------- MODULE OutboundQueue -----------------------------
(***************************************************************************)
(* The outbound queue of internal/realtime/client.go: the goroutines that   *)
(* enqueue events, the write loop every connection starts, and the depth    *)
(* counter kept beside the channel.  A write loop whose connection is gone  *)
(* may still be there when the next one starts.  Pings bypass the queue;    *)
(* enqueueBestEffort has no caller in the agent, whose task reports take    *)
(* the HTTP client (agent/service.go:128).                                 *)
(***************************************************************************)
EXTENDS Integers, Sequences, FiniteSets

CONSTANTS
  Bound,           \* senders under a context of the agent: metrics, RefreshAuth
  Unbound,         \* senders under context.Background(): the terminal's events
  QueueSize,       \* capacity of the channel
  MaxMessages,     \* bound: events of one sender
  MaxConnections   \* bound: connections, the last of which lasts

ASSUME QueueAssumption ==
  QueueSize \in Nat \ {0} /\ MaxMessages \in Nat /\ MaxConnections \in Nat

VARIABLES
  down,       \* the agent's context is done
  gen,        \* connections so far; a connection's write loop has its number
  link,       \* the socket of the newest one: "none", "open", "closed"
  pc,         \* [Senders -> {"idle", "putting", "counting"}]
  next,       \* [Senders -> Nat]: the number of the sender's next event
  queue,      \* Service.outbound
  depth,      \* Service.queueDepth
  maxDepth,   \* Service.maxQueueDepth
  loop,       \* [Loops -> LoopPoints]: where a write loop is
  hand,       \* [Loops -> Messages \cup {Nothing}]: the event it has taken
  cancelled,  \* loops whose context is done
  wire,       \* emitted on the newest connection, not yet at the platform
  delivered,  \* what the platform has received, in order (external)
  lost        \* events that went down with a connection

senderVars == <<pc, next>>
depthVars == <<depth, maxDepth>>
loopVars == <<loop, hand, cancelled>>
vars == <<down, gen, link, senderVars, queue, depthVars, loopVars, wire, delivered, lost>>

Senders == Bound \cup Unbound
Loops == 1..MaxConnections

ASSUME SenderAssumption == IsFiniteSet(Senders)

Messages == Senders \X (1..MaxMessages)
Nothing == <<>>
LoopPoints == {"off", "selecting", "taken", "emitting", "ended"}

Elements(s) == {s[i] : i \in DOMAIN s}

TypeOK ==
  /\ down \in BOOLEAN
  /\ gen \in 0..MaxConnections
  /\ link \in {"none", "open", "closed"}
  /\ pc \in [Senders -> {"idle", "putting", "counting"}]
  /\ next \in [Senders -> 1..MaxMessages + 1]
  /\ queue \in Seq(Messages)
  /\ depth \in Int
  /\ maxDepth \in Nat
  /\ loop \in [Loops -> LoopPoints]
  /\ hand \in [Loops -> Messages \cup {Nothing}]
  /\ cancelled \subseteq Loops
  /\ wire \in Seq(Messages)
  /\ delivered \in Seq(Messages)
  /\ lost \subseteq Messages

Init ==
  /\ down = FALSE
  /\ gen = 0
  /\ link = "none"
  /\ pc = [s \in Senders |-> "idle"]
  /\ next = [s \in Senders |-> 1]
  /\ queue = <<>>
  /\ depth = 0
  /\ maxDepth = 0
  /\ loop = [g \in Loops |-> "off"]
  /\ hand = [g \in Loops |-> Nothing]
  /\ cancelled = {}
  /\ wire = <<>>
  /\ delivered = <<>>
  /\ lost = {}

-------------------------------------------------------------------------------
(* enqueueCritical *)

Begin(s) ==
  /\ pc[s] = "idle"
  /\ next[s] <= MaxMessages
  /\ pc' = [pc EXCEPT ![s] = "putting"]
  /\ UNCHANGED <<down, gen, link, next, queue, depthVars, loopVars, wire, delivered, lost>>

\* The send succeeds when the channel has room; the select may take it although
\* the context is done as well.
Put(s) ==
  /\ pc[s] = "putting"
  /\ Len(queue) < QueueSize
  /\ queue' = Append(queue, <<s, next[s]>>)
  /\ next' = [next EXCEPT ![s] = @ + 1]
  /\ pc' = [pc EXCEPT ![s] = "counting"]
  /\ UNCHANGED <<down, gen, link, depthVars, loopVars, wire, delivered, lost>>

\* Mutant: an event that was not sent is counted.
GiveUp_counted(s) ==
  /\ s \in Bound
  /\ pc[s] = "putting"
  /\ next' = [next EXCEPT ![s] = @ + 1]
  /\ pc' = [pc EXCEPT ![s] = "counting"]
  /\ UNCHANGED <<down, gen, link, queue, depthVars, loopVars, wire, delivered, lost>>

\* Mutant: the context is looked at only while there is room.
GiveUp_late(s) ==
  /\ s \in Bound
  /\ pc[s] = "putting"
  /\ Len(queue) < QueueSize
  /\ next' = [next EXCEPT ![s] = @ + 1]
  /\ pc' = [pc EXCEPT ![s] = "idle"]
  /\ UNCHANGED <<down, gen, link, queue, depthVars, loopVars, wire, delivered, lost>>

\* The sender's context is done first, at shutdown or by the timeout of the one
\* call (10 s for RefreshAuth, the request timeout for metrics): given up.
GiveUp(s) ==
  /\ s \in Bound
  /\ pc[s] = "putting"
  /\ next' = [next EXCEPT ![s] = @ + 1]
  /\ pc' = [pc EXCEPT ![s] = "idle"]
  /\ UNCHANGED <<down, gen, link, queue, depthVars, loopVars, wire, delivered, lost>>

\* updateQueueDepth: an atomic addition, then the maximum by compare-and-swap.
\* The maximum only ever takes the greater value, so the two count as one step.
updateQueueDepth(delta) ==
  /\ depth' = depth + delta
  /\ maxDepth' = IF depth' > maxDepth THEN depth' ELSE maxDepth

\* The counter follows the channel in a step of its own.
Count(s) ==
  /\ pc[s] = "counting"
  /\ pc' = [pc EXCEPT ![s] = "idle"]
  /\ updateQueueDepth(1)
  /\ UNCHANGED <<down, gen, link, next, queue, loopVars, wire, delivered, lost>>

-------------------------------------------------------------------------------
(* Connections *)

\* connect has returned an authenticated connection; runConnection starts its
\* write loop.
Connected ==
  /\ ~down
  /\ link = "none"
  /\ gen < MaxConnections
  /\ gen' = gen + 1
  /\ link' = "open"
  /\ loop' = [loop EXCEPT ![gen'] = "selecting"]
  /\ UNCHANGED <<down, senderVars, queue, depthVars, hand, cancelled, wire, delivered, lost>>

\* The connection breaks; what was under way is gone.
Drop ==
  /\ link = "open"
  /\ gen < MaxConnections
  /\ link' = "closed"
  /\ wire' = <<>>
  /\ lost' = lost \cup Elements(wire)
  /\ UNCHANGED <<down, gen, senderVars, queue, depthVars, loopVars, delivered>>

\* runConnection returns: cancel() reaches its write loop, which runs on until
\* it looks; manager.Close() ends the socket.
Return ==
  /\ link = "closed" \/ (link = "open" /\ down)
  /\ link' = "none"
  /\ cancelled' = cancelled \cup {gen}
  /\ wire' = <<>>
  /\ lost' = lost \cup Elements(wire)
  /\ UNCHANGED <<down, gen, senderVars, queue, depthVars, loop, hand, delivered>>

Arrive ==
  /\ wire # <<>>
  /\ delivered' = Append(delivered, Head(wire))
  /\ wire' = Tail(wire)
  /\ UNCHANGED <<down, gen, link, senderVars, queue, depthVars, loopVars, lost>>

Shutdown ==
  /\ ~down
  /\ down' = TRUE
  /\ cancelled' = cancelled \cup 1..gen
  /\ UNCHANGED <<gen, link, senderVars, queue, depthVars, loop, hand, wire, delivered, lost>>

-------------------------------------------------------------------------------
(* writeLoop *)

\* The select may choose the queue although the context is done.
Take(g) ==
  /\ loop[g] = "selecting"
  /\ queue # <<>>
  /\ hand' = [hand EXCEPT ![g] = Head(queue)]
  /\ queue' = Tail(queue)
  /\ loop' = [loop EXCEPT ![g] = "taken"]
  /\ UNCHANGED <<down, gen, link, senderVars, depthVars, cancelled, wire, delivered, lost>>

CountDown(g) ==
  /\ loop[g] = "taken"
  /\ loop' = [loop EXCEPT ![g] = "emitting"]
  /\ updateQueueDepth(-1)
  /\ UNCHANGED <<down, gen, link, senderVars, queue, hand, cancelled, wire, delivered, lost>>

\* Mutant: an event that cannot be emitted goes back to the queue.
Emit_requeueing(g) ==
  /\ loop[g] = "emitting"
  /\ IF g = gen /\ link = "open"
     THEN wire' = Append(wire, hand[g]) /\ UNCHANGED queue
     ELSE queue' = Append(queue, hand[g]) /\ UNCHANGED wire
  /\ hand' = [hand EXCEPT ![g] = Nothing]
  /\ loop' = [loop EXCEPT ![g] = "selecting"]
  /\ UNCHANGED <<down, gen, link, senderVars, depthVars, cancelled, delivered, lost>>

\* Emit on the loop's own socket: once that is closed the event is lost.
Emit(g) ==
  /\ loop[g] = "emitting"
  /\ IF g = gen /\ link = "open"
     THEN wire' = Append(wire, hand[g]) /\ UNCHANGED lost
     ELSE lost' = lost \cup {hand[g]} /\ UNCHANGED wire
  /\ hand' = [hand EXCEPT ![g] = Nothing]
  /\ loop' = [loop EXCEPT ![g] = "selecting"]
  /\ UNCHANGED <<down, gen, link, senderVars, queue, depthVars, cancelled, delivered>>

LoopEnd(g) ==
  /\ loop[g] = "selecting"
  /\ g \in cancelled
  /\ loop' = [loop EXCEPT ![g] = "ended"]
  /\ UNCHANGED <<down, gen, link, senderVars, queue, depthVars, hand, cancelled, wire,
                 delivered, lost>>

-------------------------------------------------------------------------------
SenderStep(s) == Put(s) \/ GiveUp(s) \/ Count(s)

LoopStep(g) == Take(g) \/ CountDown(g) \/ Emit(g) \/ LoopEnd(g)

Next ==
  \/ \E s \in Senders : Begin(s)
  \/ \E s \in Senders : SenderStep(s)
  \/ \E g \in Loops : LoopStep(g)
  \/ Connected
  \/ Drop
  \/ Return
  \/ Arrive
  \/ Shutdown

Spec == Init /\ [][Next]_vars

\* Goroutines run; Run dials again until a connection is made (RealtimeSession
\* shows that it does).  A connection owes nothing.  A call's timeout may fire but
\* is not relied on: what is promised holds of senders without one as well.
Fairness ==
  /\ \A s \in Senders : WF_vars(Put(s) \/ Count(s) \/ (down /\ GiveUp(s)))
  /\ \A g \in Loops : WF_vars(LoopStep(g))
  /\ WF_vars(Connected)
  /\ WF_vars(Return)

FairSpec == Spec /\ Fairness

-------------------------------------------------------------------------------
(* Properties *)

\* The counter differs from the channel's length only by the updates under way:
\* nobody counts twice or forgets to count, whichever write loop takes an event
\* and whatever a sender gives up.  It may pass the capacity and fall below 0.
DepthExact ==
  LET puts == {s \in Senders : pc[s] = "counting"}
      takes == {g \in Loops : loop[g] = "taken"}
  IN depth = Len(queue) + Cardinality(takes) - Cardinality(puts)

\* The platform receives the events of one sender in the order in which they
\* were enqueued and none of them twice, although two write loops may take from
\* the queue at once: the older one can emit nothing any more.
InOrder ==
  \A i, j \in DOMAIN delivered :
    i < j /\ delivered[i][1] = delivered[j][1] => delivered[i][2] < delivered[j][2]

\* No sender waits for ever: a full queue drains as soon as there is a
\* connection again, and when the agent stops, senders under its context give
\* up.  (Those without a context may then hang until the process ends.)
SendsEnd ==
  \A s \in Senders :
    pc[s] = "putting" ~> (pc[s] # "putting" \/ (s \in Unbound /\ down))

===============================================================================
