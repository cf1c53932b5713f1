---------------------------- MODULE RealtimeSession ----------------------------
(***************************************************************************)
(* internal/realtime/client.go: the loop that dials the platform's socket,  *)
(* authenticates, serves the connection and dials again, beside the event   *)
(* handlers of that socket, the token rotation of internal/agent/service.go *)
(* and the re-sent authentications.  The channels of connect() belong to    *)
(* one connection; sessionActive and the outbound queue outlive it.  The    *)
(* queue itself is the subject of OutboundQueue; here it holds only the     *)
(* authentications of RefreshAuth.  Tokens are numbered as in TaskPolling.  *)
(***************************************************************************)
EXTENDS Naturals, Sequences

CONSTANTS
  MaxRotations,  \* bound: tokens the platform stages
  MaxUpdates,    \* bound: root-access.updated events
  MaxRefreshes,  \* bound: calls of RefreshAuth
  MaxFaults      \* bound: failed dials, lost connections, early timeouts

ASSUME BoundAssumption ==
  /\ MaxRotations \in Nat /\ MaxUpdates \in Nat
  /\ MaxRefreshes \in Nat /\ MaxFaults \in Nat

VARIABLES
  down,      \* the context of Run is done
  pc,        \* Run: see RunPoints
  attempt,   \* of the backoff, up to the 5 it tells apart
  identity,  \* the agent's token in identity.Manager
  creds,     \* the token connect() captured
  link,      \* the socket: "none", "opening", "open", "closed"
  authOK, connectErr, disconnect,  \* the connection's channels hold a value
  active,    \* sessionActive
  handler,   \* the event handler under way: "none", "acking", "rotated"
  late,      \* an acknowledgement's handler started before the socket was closed
  queue,     \* tokens of authentications in the outbound queue
  sent,      \* tokens of the agent.auth events on their way
  inbox,     \* events on their way to the agent
  staged, accepted,  \* the newest token; the tokens the platform accepts (external)
  acked,     \* the platform has accepted an authentication on this connection
  faults, updates, refreshes

runVars == <<down, pc, attempt>>
chanVars == <<authOK, connectErr, disconnect>>
wireVars == <<sent, inbox, acked>>
platform == <<staged, accepted>>
counters == <<faults, updates, refreshes>>
vars == <<runVars, identity, creds, link, chanVars, active, handler, late, queue,
          wireVars, platform, counters>>

Tokens == 0..MaxRotations
RunPoints == {"top", "dialing", "serving", "sleeping", "stopped"}
Events == [kind : {"ack", "error", "update", "rotate"}, token : Tokens]
Event(kind, t) == [kind |-> kind, token |-> t]

TypeOK ==
  /\ down \in BOOLEAN /\ active \in BOOLEAN /\ late \in BOOLEAN /\ acked \in BOOLEAN
  /\ authOK \in BOOLEAN /\ connectErr \in BOOLEAN /\ disconnect \in BOOLEAN
  /\ pc \in RunPoints
  /\ attempt \in 0..5
  /\ identity \in Tokens /\ creds \in Tokens /\ staged \in Tokens
  /\ link \in {"none", "opening", "open", "closed"}
  /\ handler \in {"none", "acking", "rotated"}
  /\ queue \in Seq(Tokens) /\ sent \in Seq(Tokens)
  /\ inbox \in Seq(Events)
  /\ accepted \subseteq Tokens
  /\ faults \in 0..MaxFaults
  /\ updates \in 0..MaxUpdates
  /\ refreshes \in 0..MaxRefreshes

Init ==
  /\ down = FALSE
  /\ pc = "top"
  /\ attempt = 0
  /\ identity = 0
  /\ creds = 0
  /\ link = "none"
  /\ authOK = FALSE /\ connectErr = FALSE /\ disconnect = FALSE
  /\ active = FALSE
  /\ handler = "none"
  /\ late = FALSE
  /\ queue = <<>>
  /\ sent = <<>> /\ inbox = <<>> /\ acked = FALSE
  /\ staged = 0 /\ accepted = {0}
  /\ faults = 0 /\ updates = 0 /\ refreshes = 0

AckArrived == inbox # <<>> /\ Head(inbox).kind = "ack"

Fault == faults < MaxFaults /\ faults' = faults + 1

-------------------------------------------------------------------------------
(* The platform and the network (external) *)

\* An authentication is answered; one with a newer token retires the older ones.
Answer ==
  /\ link = "open"
  /\ sent # <<>>
  /\ sent' = Tail(sent)
  /\ IF Head(sent) \in accepted
     THEN /\ accepted' = {t \in accepted : t >= Head(sent)}
          /\ inbox' = Append(inbox, Event("ack", Head(sent)))
          /\ acked' = TRUE
     ELSE /\ inbox' = Append(inbox, Event("error", Head(sent)))
          /\ UNCHANGED <<accepted, acked>>
  /\ UNCHANGED <<runVars, identity, creds, link, chanVars, active, handler, late,
                 queue, staged, counters>>

Stage ==
  /\ link = "open" /\ acked
  /\ staged < MaxRotations
  /\ staged' = staged + 1
  /\ accepted' = accepted \cup {staged'}
  /\ inbox' = Append(inbox, Event("rotate", staged'))
  /\ UNCHANGED <<runVars, identity, creds, link, chanVars, active, handler, late,
                 queue, sent, acked, counters>>

RootAccessChanged ==
  /\ link = "open" /\ acked
  /\ updates < MaxUpdates
  /\ updates' = updates + 1
  /\ inbox' = Append(inbox, Event("update", staged))
  /\ UNCHANGED <<runVars, identity, creds, link, chanVars, active, handler, late,
                 queue, sent, acked, platform, faults, refreshes>>

-------------------------------------------------------------------------------
(* connect *)

\* Mutant: the channel of the acknowledgement is shared by the connections.
Connect_sharing ==
  /\ pc = "top"
  /\ ~down
  /\ pc' = "dialing"
  /\ creds' = identity
  /\ link' = "opening"
  /\ connectErr' = FALSE /\ disconnect' = FALSE
  /\ acked' = FALSE
  /\ UNCHANGED <<down, attempt, identity, authOK, active, handler, late, queue, sent,
                 inbox, platform, counters>>

\* Mutant: the token the agent started with.
Connect_initial ==
  /\ pc = "top"
  /\ ~down
  /\ pc' = "dialing"
  /\ creds' = 0
  /\ link' = "opening"
  /\ authOK' = FALSE /\ connectErr' = FALSE /\ disconnect' = FALSE
  /\ acked' = FALSE
  /\ UNCHANGED <<down, attempt, identity, active, handler, late, queue, sent, inbox,
                 platform, counters>>

\* The token is read once, the channels and the socket are made for it.
Connect ==
  /\ pc = "top"
  /\ ~down
  /\ pc' = "dialing"
  /\ creds' = identity
  /\ link' = "opening"
  /\ authOK' = FALSE /\ connectErr' = FALSE /\ disconnect' = FALSE
  /\ acked' = FALSE
  /\ UNCHANGED <<down, attempt, identity, active, handler, late, queue, sent, inbox,
                 platform, counters>>

OnConnect ==
  /\ link = "opening"
  /\ link' = "open"
  /\ sent' = Append(sent, creds)
  /\ UNCHANGED <<runVars, identity, creds, chanVars, active, handler, late, queue,
                 inbox, acked, platform, counters>>

\* OnConnectError, or manager.OnError, which clears the flag as well.
DialFails ==
  /\ link = "opening"
  /\ Fault
  /\ link' = "closed"
  /\ connectErr' = TRUE
  /\ active' \in {active, FALSE}
  /\ UNCHANGED <<runVars, identity, creds, authOK, disconnect, handler, late, queue,
                 wireVars, platform, updates, refreshes>>

\* OnDisconnect.
Drop ==
  /\ link = "open"
  /\ Fault
  /\ link' = "closed"
  /\ active' = FALSE
  /\ disconnect' = TRUE
  /\ sent' = <<>> /\ inbox' = <<>>
  /\ late' = (late \/ AckArrived)
  /\ UNCHANGED <<runVars, identity, creds, authOK, connectErr, handler, queue, acked,
                 platform, updates, refreshes>>

\* manager.Close: a handler under way goes on with the connection's own
\* channels; OnDisconnect may run.
Close ==
  /\ link' = "none"
  /\ sent' = <<>> /\ inbox' = <<>>
  /\ late' = (late \/ AckArrived)
  /\ handler' = IF handler = "acking" THEN "none" ELSE handler
  /\ active' \in {active, FALSE}
  /\ UNCHANGED <<identity, creds, chanVars, queue, acked, platform, updates, refreshes>>

NextAttempt(a) == IF a < 5 THEN a + 1 ELSE 5

Retry ==
  /\ pc' = "sleeping"
  /\ attempt' = NextAttempt(attempt)
  /\ UNCHANGED down

\* Nothing has been heard for requestTimeout; early ones are counted as faults.
ConnectTimeout ==
  /\ pc = "dialing"
  /\ IF link = "closed" THEN UNCHANGED faults ELSE Fault
  /\ Close
  /\ Retry

ConnectError ==
  /\ pc = "dialing"
  /\ connectErr
  /\ Close
  /\ Retry
  /\ UNCHANGED faults

\* connect returns the authenticated connection; the backoff starts over.
Connected ==
  /\ pc = "dialing"
  /\ authOK
  /\ pc' = "serving"
  /\ attempt' = 0
  /\ UNCHANGED <<down, identity, creds, link, chanVars, active, handler, late, queue,
                 wireVars, platform, counters>>

-------------------------------------------------------------------------------
(* runConnection and Run.  Every queued event has a type, so the write loop's  *)
(* own error cannot occur.                                                     *)

Disconnected ==
  /\ pc = "serving"
  /\ disconnect
  /\ Close
  /\ Retry
  /\ UNCHANGED faults

\* connect, runConnection and the sleep all watch the context.
ContextDone ==
  /\ down
  /\ pc \in {"top", "dialing", "serving", "sleeping"}
  /\ pc' = "stopped"
  /\ Close
  /\ UNCHANGED <<down, attempt, faults>>

Wake ==
  /\ pc = "sleeping"
  /\ pc' = "top"
  /\ UNCHANGED <<down, attempt, identity, creds, link, chanVars, active, handler,
                 late, queue, wireVars, platform, counters>>

Shutdown ==
  /\ ~down
  /\ down' = TRUE
  /\ UNCHANGED <<pc, attempt, identity, creds, link, chanVars, active, handler, late,
                 queue, wireVars, platform, counters>>

-------------------------------------------------------------------------------
(* Event handlers of the socket, one after the other *)

Receive(kind) ==
  /\ handler = "none"
  /\ link = "open"
  /\ inbox # <<>>
  /\ Head(inbox).kind = kind
  /\ inbox' = Tail(inbox)
  /\ UNCHANGED <<runVars, creds, link, late, queue, acked, platform, counters>>

\* agent.auth.ack: the flag, then onAuthAck, which may run the root helper, ...
AuthAck ==
  /\ Receive("ack")
  /\ active' = TRUE
  /\ handler' = "acking"
  /\ UNCHANGED <<identity, chanVars, sent>>

\* ... then the channel connect waits for.
AuthAckDone ==
  /\ handler = "acking"
  /\ handler' = "none"
  /\ authOK' = TRUE
  /\ UNCHANGED <<runVars, identity, creds, link, connectErr, disconnect, active, late,
                 queue, wireVars, platform, counters>>

\* The same handler, running after its socket was closed.
LateAuthAck ==
  /\ late
  /\ late' = FALSE
  /\ active' = TRUE
  /\ UNCHANGED <<runVars, identity, creds, link, chanVars, handler, queue, wireVars,
                 platform, counters>>

\* agent.auth.error, or an acknowledgement that says authenticated=false and
\* leaves the flag as it is.
AuthError ==
  /\ Receive("error")
  /\ active' \in {active, FALSE}
  /\ connectErr' = TRUE
  /\ UNCHANGED <<identity, authOK, disconnect, handler, sent>>

\* root-access.updated: apply the profile, then authenticate again, with the
\* token connect captured.
RootAccessUpdated ==
  /\ Receive("update")
  /\ sent' = Append(sent, creds)
  /\ UNCHANGED <<identity, chanVars, active, handler>>

\* Mutant: authenticate with the new token before it is persisted.
TokenRotate_early ==
  /\ Receive("rotate")
  /\ identity' \in {identity, Head(inbox).token}
  /\ sent' = Append(sent, Head(inbox).token)
  /\ handler' = "rotated"
  /\ UNCHANGED <<chanVars, active>>

\* agent.token.rotate: the token is persisted and installed, or neither ...
TokenRotate ==
  /\ Receive("rotate")
  /\ \/ identity' = Head(inbox).token /\ handler' = "rotated"
     \/ UNCHANGED <<identity, handler>>
  /\ UNCHANGED <<chanVars, active, sent>>

\* ... and the handler authenticates with what credentials() returns then.
TokenRotateDone ==
  /\ handler = "rotated"
  /\ handler' = "none"
  /\ sent' = IF link = "open" THEN Append(sent, identity) ELSE sent
  /\ UNCHANGED <<runVars, identity, creds, link, chanVars, active, late, queue, inbox,
                 acked, platform, counters>>

-------------------------------------------------------------------------------
(* Re-sent authentication *)

\* The node's location was found after the start: the token of now is queued.
RefreshAuth ==
  /\ ~down
  /\ refreshes < MaxRefreshes
  /\ active
  /\ refreshes' = refreshes + 1
  /\ queue' = Append(queue, identity)
  /\ UNCHANGED <<runVars, identity, creds, link, chanVars, active, handler, late,
                 wireVars, platform, faults, updates>>

\* writeLoop; that of a closed connection may still take a message, which is lost.
WriteLoop ==
  /\ pc \in {"serving", "sleeping"}
  /\ queue # <<>>
  /\ queue' = Tail(queue)
  /\ sent' = IF link = "open" THEN Append(sent, Head(queue)) ELSE sent
  /\ UNCHANGED <<runVars, identity, creds, link, chanVars, active, handler, late,
                 inbox, acked, platform, counters>>

-------------------------------------------------------------------------------
RunStep ==
  \/ Connect
  \/ ConnectTimeout
  \/ ConnectError
  \/ Connected
  \/ Disconnected
  \/ ContextDone
  \/ Wake

HandlerStep ==
  \/ AuthAck
  \/ AuthAckDone
  \/ AuthError
  \/ RootAccessUpdated
  \/ TokenRotate
  \/ TokenRotateDone

Next ==
  \/ RunStep
  \/ HandlerStep
  \/ LateAuthAck
  \/ OnConnect
  \/ DialFails
  \/ Drop
  \/ Answer
  \/ Stage
  \/ RootAccessChanged
  \/ RefreshAuth
  \/ WriteLoop
  \/ Shutdown

Spec == Init /\ [][Next]_vars

\* Goroutines run, the dial ends in a connection or an error, the platform
\* answers.  Faults, rotations and updates owe nothing.
Fairness ==
  /\ WF_vars(RunStep)
  /\ WF_vars(HandlerStep)
  /\ WF_vars(WriteLoop)
  /\ WF_vars(OnConnect)
  /\ WF_vars(Answer)

FairSpec == Spec /\ Fairness

-------------------------------------------------------------------------------
(* Properties *)

\* The platform always accepts the token the agent would dial with: a token is
\* installed before it is used, and the older ones are retired by its use.
IdentityAccepted == identity \in accepted

\* Events are written only to a connection the platform has acknowledged; a late
\* acknowledgement of an earlier connection does not count, its channel is gone.
ServingAcknowledged == pc = "serving" => acked

Established == pc = "serving" /\ active

\* Faults and rotations do not: only an authentication sent again with a token
\* that was captured or queued before a rotation can.
RecoversUnlessResent == []<>(down \/ Established \/ updates + refreshes > 0)

===============================================================================
