-------------------------- MODULE RealtimeSessionProofs -------------------------
(****************************************************************************)
(* The safety properties of RealtimeSession for any number of rotations,    *)
(* updates, refreshes and faults.                                           *)
(****************************************************************************)
EXTENDS RealtimeSession, SequenceTheorems, TLAPS

AtMost(s, t) == \A i \in DOMAIN s : s[i] <= t

Holds(s, kind) == \E i \in DOMAIN s : s[i].kind = kind

\* Rotations on their way carry tokens of acc newer than id, up to new, in order.
Ahead(s, acc, id, new) ==
  /\ \A i \in DOMAIN s :
       s[i].kind = "rotate" =>
         s[i].token \in acc /\ s[i].token > id /\ s[i].token <= new
  /\ \A i, j \in DOMAIN s :
       i < j /\ s[i].kind = "rotate" /\ s[j].kind = "rotate" => s[i].token < s[j].token

\* Nothing the agent sends, or will send, carries a token newer than the identity.
TokensTrail ==
  /\ creds <= identity /\ identity <= staged
  /\ AtMost(sent, identity) /\ AtMost(queue, identity)
  /\ Ahead(inbox, accepted, identity, staged)

\* Between connections nothing of the last one is left.
Disconnection ==
  pc \in {"top", "sleeping", "stopped"} =>
    link = "none" /\ inbox = <<>> /\ handler # "acking"

\* An acknowledgement on its way, in its handler or in the channel is that of the
\* connection the agent has.
Acknowledgement ==
  Holds(inbox, "ack") \/ handler = "acking" \/ authOK \/ pc = "serving" => acked

IInv ==
  /\ TypeOK
  /\ TokensTrail
  /\ IdentityAccepted
  /\ Disconnection
  /\ Acknowledgement

-------------------------------------------------------------------------------
(* Sequences *)

LEMMA OfAppend ==
  ASSUME NEW S, NEW s \in Seq(S), NEW e \in S
  PROVE  /\ Append(s, e) \in Seq(S) /\ Len(s) \in Nat
         /\ DOMAIN s = 1..Len(s) /\ DOMAIN Append(s, e) = 1..(Len(s) + 1)
         /\ \A i \in DOMAIN s : Append(s, e)[i] = s[i]
         /\ Append(s, e)[Len(s) + 1] = e
  BY AppendProperties, LenProperties

LEMMA OfTail ==
  ASSUME NEW S, NEW s \in Seq(S), s # <<>>
  PROVE  /\ Head(s) \in S /\ Tail(s) \in Seq(S) /\ Len(s) \in Nat
         /\ 1 \in DOMAIN s /\ Head(s) = s[1]
         /\ DOMAIN s = 1..Len(s)
         /\ \A i \in DOMAIN Tail(s) :
              i \in Nat /\ i >= 1 /\ i + 1 \in DOMAIN s /\ Tail(s)[i] = s[i + 1]
<1>1. /\ Head(s) \in S /\ Tail(s) \in Seq(S) /\ Head(s) = s[1]
      /\ Len(Tail(s)) = Len(s) - 1 /\ Len(s) \in Nat /\ Len(s) >= 1
      /\ DOMAIN s = 1..Len(s) /\ DOMAIN Tail(s) = 1..Len(Tail(s))
      /\ \A i \in 1..Len(Tail(s)) : Tail(s)[i] = s[i + 1]
  BY HeadTailProperties, LenProperties
<1>2. QED
  BY <1>1

LEMMA OfEvents ==
  ASSUME NEW s \in Seq(Events)
  PROVE  \A i \in DOMAIN s : s[i] \in Events /\ s[i].token \in Tokens
<1>1. \A i \in DOMAIN s : s[i] \in Events
  BY LenProperties
<1>2. \A e \in Events : e.token \in Tokens
  BY DEF Events
<1>3. QED
  BY <1>1, <1>2

LEMMA Empties ==
  /\ \A t : AtMost(<<>>, t)
  /\ \A kind : ~Holds(<<>>, kind)
  /\ \A acc, id, new : Ahead(<<>>, acc, id, new)
<1>1. DOMAIN <<>> = {}
  BY EmptySeq, LenProperties
<1>2. QED
  BY <1>1 DEF AtMost, Holds, Ahead

LEMMA AtMostAppend ==
  ASSUME NEW s \in Seq(Tokens), NEW e \in Tokens, NEW t \in Tokens,
         AtMost(s, t), e <= t
  PROVE  AtMost(Append(s, e), t)
<1>1. /\ \A i \in DOMAIN Append(s, e) : i \in DOMAIN s \/ i = Len(s) + 1
      /\ \A i \in DOMAIN s : Append(s, e)[i] = s[i]
      /\ Append(s, e)[Len(s) + 1] = e
  BY OfAppend
<1>2. QED
  BY <1>1 DEF AtMost

LEMMA AtMostTail ==
  ASSUME NEW s \in Seq(Tokens), s # <<>>, NEW t \in Tokens, AtMost(s, t)
  PROVE  Head(s) <= t /\ AtMost(Tail(s), t)
<1>1. /\ Head(s) = s[1] /\ 1 \in DOMAIN s
      /\ \A i \in DOMAIN Tail(s) : i + 1 \in DOMAIN s /\ Tail(s)[i] = s[i + 1]
  BY OfTail
<1>2. QED
  BY <1>1 DEF AtMost

LEMMA AtMostNewer ==
  ASSUME NEW s \in Seq(Tokens), NEW t \in Tokens, NEW u \in Tokens, AtMost(s, t), t <= u,
         BoundAssumption
  PROVE  AtMost(s, u)
<1>1. \A i \in DOMAIN s : s[i] \in Tokens
  BY LenProperties
<1>2. QED
  BY <1>1 DEF AtMost, Tokens

LEMMA HoldsAppend ==
  ASSUME NEW s \in Seq(Events), NEW e \in Events, NEW kind,
         Holds(Append(s, e), kind)
  PROVE  Holds(s, kind) \/ e.kind = kind
<1>1. /\ \A i \in DOMAIN Append(s, e) : i \in DOMAIN s \/ i = Len(s) + 1
      /\ \A i \in DOMAIN s : Append(s, e)[i] = s[i]
      /\ Append(s, e)[Len(s) + 1] = e
  BY OfAppend
<1>2. QED
  BY <1>1 DEF Holds

LEMMA HoldsTail ==
  ASSUME NEW s \in Seq(Events), s # <<>>, NEW kind
  PROVE  /\ Holds(Tail(s), kind) => Holds(s, kind)
         /\ Head(s).kind = kind => Holds(s, kind)
<1>1. /\ Head(s) = s[1] /\ 1 \in DOMAIN s
      /\ \A i \in DOMAIN Tail(s) : i + 1 \in DOMAIN s /\ Tail(s)[i] = s[i + 1]
  BY OfTail
<1>2. QED
  BY <1>1 DEF Holds

LEMMA AheadTail ==
  ASSUME NEW s \in Seq(Events), s # <<>>, NEW acc, NEW id, NEW new,
         Ahead(s, acc, id, new)
  PROVE  /\ Ahead(Tail(s), acc, id, new)
         /\ Head(s).kind = "rotate" =>
              /\ Head(s).token \in acc
              /\ Head(s).token > id /\ Head(s).token <= new
              /\ Ahead(Tail(s), acc, Head(s).token, new)
<1>1. /\ Head(s) = s[1] /\ 1 \in DOMAIN s
      /\ \A i \in DOMAIN Tail(s) :
           i \in Nat /\ i >= 1 /\ i + 1 \in DOMAIN s /\ Tail(s)[i] = s[i + 1]
      /\ \A i \in DOMAIN s : s[i] \in Events
      /\ \A i \in DOMAIN Tail(s) : Tail(s)[i] \in Events
  BY OfTail, LenProperties
<1>2. Ahead(Tail(s), acc, id, new)
  <2>1. ASSUME NEW i \in DOMAIN Tail(s), NEW j \in DOMAIN Tail(s), i < j,
               Tail(s)[i].kind = "rotate", Tail(s)[j].kind = "rotate"
        PROVE  Tail(s)[i].token < Tail(s)[j].token
    <3>1. i + 1 < j + 1 /\ i + 1 \in DOMAIN s /\ j + 1 \in DOMAIN s
      BY <1>1, <2>1
    <3>2. QED
      BY <1>1, <2>1, <3>1 DEF Ahead
  <2>2. QED
    BY <1>1, <2>1 DEF Ahead
<1>3. ASSUME Head(s).kind = "rotate"
      PROVE  /\ Head(s).token \in acc
             /\ Head(s).token > id /\ Head(s).token <= new
             /\ Ahead(Tail(s), acc, Head(s).token, new)
  <2>1. Head(s).token \in acc /\ Head(s).token > id /\ Head(s).token <= new
    BY <1>1, <1>3 DEF Ahead
  <2>2. ASSUME NEW i \in DOMAIN Tail(s), Tail(s)[i].kind = "rotate"
        PROVE  Tail(s)[i].token > Head(s).token
    <3>1. s[i + 1].kind = "rotate" /\ s[1].kind = "rotate" /\ 1 < i + 1
      BY <1>1, <1>3, <2>2
    <3>2. s[1].token < s[i + 1].token
      BY <1>1, <3>1 DEF Ahead
    <3>3. s[1].token \in Tokens /\ s[i + 1].token \in Tokens
      BY <1>1 DEF Events
    <3>4. QED
      BY <1>1, <3>2, <3>3
  <2>3. QED
    BY <1>2, <2>1, <2>2 DEF Ahead
<1>4. QED
  BY <1>2, <1>3

LEMMA AheadAppend ==
  ASSUME NEW s \in Seq(Events), NEW e \in Events, NEW acc, NEW id, NEW new,
         Ahead(s, acc, id, new), e.kind # "rotate"
  PROVE  Ahead(Append(s, e), acc, id, new)
<1>1. /\ DOMAIN s = 1..Len(s) /\ DOMAIN Append(s, e) = 1..(Len(s) + 1) /\ Len(s) \in Nat
      /\ \A i \in DOMAIN s : Append(s, e)[i] = s[i]
      /\ Append(s, e)[Len(s) + 1] = e
  BY OfAppend
<1>2. \A i \in DOMAIN Append(s, e) :
        Append(s, e)[i].kind = "rotate" => i \in DOMAIN s
  BY <1>1
<1>3. QED
  BY <1>1, <1>2 DEF Ahead

\* A token staged now is newer than those before.
LEMMA AheadStage ==
  ASSUME NEW s \in Seq(Events), NEW acc, NEW id \in Tokens, NEW new \in Tokens,
         Ahead(s, acc, id, new), id <= new, new + 1 \in Tokens, BoundAssumption
  PROVE  Ahead(Append(s, Event("rotate", new + 1)), acc \cup {new + 1}, id, new + 1)
<1> DEFINE e == Event("rotate", new + 1)
<1>1. e \in Events /\ e.kind = "rotate" /\ e.token = new + 1
  BY DEF Event, Events
<1> HIDE DEF e
<1>2. /\ DOMAIN s = 1..Len(s) /\ DOMAIN Append(s, e) = 1..(Len(s) + 1) /\ Len(s) \in Nat
      /\ \A i \in DOMAIN s : Append(s, e)[i] = s[i]
      /\ Append(s, e)[Len(s) + 1] = e
  BY <1>1, OfAppend
<1>3. \A i \in DOMAIN s : s[i].token \in Tokens
  BY OfEvents
<1>4. ASSUME NEW i \in DOMAIN Append(s, e), Append(s, e)[i].kind = "rotate"
      PROVE  /\ Append(s, e)[i].token \in acc \cup {new + 1}
             /\ Append(s, e)[i].token > id /\ Append(s, e)[i].token <= new + 1
  <2>1. CASE i \in DOMAIN s
    <3>1. s[i].token \in acc /\ s[i].token > id /\ s[i].token <= new
      BY <1>2, <1>4, <2>1 DEF Ahead
    <3>2. QED
      BY <1>2, <1>3, <2>1, <3>1 DEF Tokens
  <2>2. CASE i = Len(s) + 1
    BY <1>1, <1>2, <2>2 DEF Tokens
  <2>3. QED
    BY <1>2, <2>1, <2>2
<1>5. ASSUME NEW i \in DOMAIN Append(s, e), NEW j \in DOMAIN Append(s, e), i < j,
             Append(s, e)[i].kind = "rotate", Append(s, e)[j].kind = "rotate"
      PROVE  Append(s, e)[i].token < Append(s, e)[j].token
  <2>1. i \in DOMAIN s
    BY <1>2, <1>5
  <2>2. CASE j \in DOMAIN s
    BY <1>2, <1>5, <2>1, <2>2 DEF Ahead
  <2>3. CASE j = Len(s) + 1
    <3>1. s[i].token <= new
      BY <1>2, <1>5, <2>1 DEF Ahead
    <3>2. QED
      BY <1>1, <1>2, <1>3, <2>1, <2>3, <3>1 DEF Tokens
  <2>4. QED
    BY <1>2, <2>2, <2>3
<1>6. Ahead(Append(s, e), acc \cup {new + 1}, id, new + 1)
  BY <1>4, <1>5 DEF Ahead
<1>7. QED
  BY <1>6 DEF e

\* An authentication retires older tokens only.
LEMMA AheadRetire ==
  ASSUME NEW s \in Seq(Events), NEW acc, NEW id \in Tokens, NEW new, NEW t \in Tokens,
         Ahead(s, acc, id, new), t <= id, BoundAssumption
  PROVE  Ahead(s, {u \in acc : u >= t}, id, new)
<1>1. \A i \in DOMAIN s : s[i].token \in Tokens
  BY OfEvents
<1>2. \A i \in DOMAIN s : s[i].token > id => s[i].token >= t
  BY <1>1 DEF Tokens
<1>3. QED
  BY <1>2 DEF Ahead

-------------------------------------------------------------------------------
(* Each conjunct is kept by every step; one proof step per action. *)

\* The state is well typed.
LEMMA TypeStep == TypeOK /\ [Next]_vars => TypeOK'
<1> SUFFICES ASSUME TypeOK, [Next]_vars PROVE TypeOK'
  OBVIOUS
<1> USE BoundAssumption, EmptySeq DEF TypeOK, RunPoints, Tokens, runVars, chanVars,
         wireVars, platform, counters
<1>1. ASSUME Connect PROVE TypeOK'
  BY <1>1 DEF Connect
<1>2. ASSUME ConnectTimeout PROVE TypeOK'
  <2>1. active' \in BOOLEAN
    BY <1>2 DEF ConnectTimeout, Fault, Close, Retry, NextAttempt, AckArrived
  <2>2. attempt' \in 0..5
    BY <1>2 DEF ConnectTimeout, Fault, Close, Retry, NextAttempt, AckArrived
  <2>3. faults' \in 0..MaxFaults
    BY <1>2 DEF ConnectTimeout, Fault, Close, Retry, NextAttempt, AckArrived
  <2>4. sent' \in Seq(Tokens) /\ inbox' \in Seq(Events) /\ late' \in BOOLEAN
    BY <1>2 DEF ConnectTimeout, Fault, Close, Retry, NextAttempt, AckArrived
  <2>5. QED
    BY <1>2, <2>1, <2>2, <2>3, <2>4 DEF ConnectTimeout, Fault, Close, Retry, NextAttempt, AckArrived
<1>3. ASSUME ConnectError PROVE TypeOK'
  <2>1. active' \in BOOLEAN
    BY <1>3 DEF ConnectError, Close, Retry, NextAttempt, AckArrived
  <2>2. attempt' \in 0..5
    BY <1>3 DEF ConnectError, Close, Retry, NextAttempt, AckArrived
  <2>3. sent' \in Seq(Tokens) /\ inbox' \in Seq(Events) /\ late' \in BOOLEAN
    BY <1>3 DEF ConnectError, Close, Retry, NextAttempt, AckArrived
  <2>4. QED
    BY <1>3, <2>1, <2>2, <2>3 DEF ConnectError, Close, Retry, NextAttempt, AckArrived
<1>4. ASSUME Connected PROVE TypeOK'
  BY <1>4 DEF Connected
<1>5. ASSUME Disconnected PROVE TypeOK'
  <2>1. active' \in BOOLEAN
    BY <1>5 DEF Disconnected, Close, Retry, NextAttempt, AckArrived
  <2>2. attempt' \in 0..5
    BY <1>5 DEF Disconnected, Close, Retry, NextAttempt, AckArrived
  <2>3. sent' \in Seq(Tokens) /\ inbox' \in Seq(Events) /\ late' \in BOOLEAN
    BY <1>5 DEF Disconnected, Close, Retry, NextAttempt, AckArrived
  <2>4. QED
    BY <1>5, <2>1, <2>2, <2>3 DEF Disconnected, Close, Retry, NextAttempt, AckArrived
<1>6. ASSUME ContextDone PROVE TypeOK'
  BY <1>6 DEF ContextDone, Close, AckArrived
<1>7. ASSUME Wake PROVE TypeOK'
  BY <1>7 DEF Wake
<1>8. ASSUME AuthAck PROVE TypeOK'
  BY <1>8 DEF AuthAck, Receive
<1>9. ASSUME AuthAckDone PROVE TypeOK'
  BY <1>9 DEF AuthAckDone
<1>10. ASSUME AuthError PROVE TypeOK'
  <2>1. active' \in BOOLEAN
    BY <1>10 DEF AuthError, Receive
  <2>2. Head(inbox) \in Events /\ inbox' \in Seq(Events)
    BY <1>10, OfTail DEF AuthError, Receive
  <2>3. QED
    BY <1>10, <2>1, <2>2 DEF AuthError, Receive
<1>11. ASSUME RootAccessUpdated PROVE TypeOK'
  <2>1. Head(inbox) \in Events /\ inbox' \in Seq(Events)
    BY <1>11, OfTail DEF RootAccessUpdated, Receive
  <2>2. sent' \in Seq(Tokens)
    BY <1>11, OfAppend DEF RootAccessUpdated, Receive
  <2>3. QED
    BY <1>11, <2>1, <2>2 DEF RootAccessUpdated, Receive
<1>12. ASSUME TokenRotate PROVE TypeOK'
  <2>1. Head(inbox) \in Events /\ inbox' \in Seq(Events)
    BY <1>12, OfTail DEF TokenRotate, Receive
  <2>2. identity' \in Tokens
    BY <1>12, <2>1 DEF Events, TokenRotate, Receive
  <2>3. QED
    BY <1>12, <2>1, <2>2 DEF TokenRotate, Receive
<1>13. ASSUME TokenRotateDone PROVE TypeOK'
  <2>1. sent' \in Seq(Tokens)
    BY <1>13, OfAppend DEF TokenRotateDone
  <2>2. QED
    BY <1>13, <2>1 DEF TokenRotateDone
<1>14. ASSUME LateAuthAck PROVE TypeOK'
  <2>1. /\ active' \in BOOLEAN /\ late' \in BOOLEAN
        /\ UNCHANGED <<runVars, identity, creds, link, chanVars, handler, queue, wireVars,
                       platform, counters>>
    BY <1>14 DEF LateAuthAck
  <2>2. QED
    BY <2>1
<1>15. ASSUME OnConnect PROVE TypeOK'
  BY <1>15 DEF OnConnect
<1>16. ASSUME DialFails PROVE TypeOK'
  <2>1. active' \in BOOLEAN
    BY <1>16 DEF DialFails, Fault
  <2>2. faults' \in 0..MaxFaults
    BY <1>16 DEF DialFails, Fault
  <2>3. QED
    BY <1>16, <2>1, <2>2 DEF DialFails, Fault
<1>17. ASSUME Drop PROVE TypeOK'
  <2>1. faults' \in 0..MaxFaults
    BY <1>17 DEF Drop, Fault, AckArrived
  <2>2. sent' \in Seq(Tokens) /\ inbox' \in Seq(Events) /\ late' \in BOOLEAN
    BY <1>17 DEF Drop, Fault, AckArrived
  <2>3. QED
    BY <1>17, <2>1, <2>2 DEF Drop, Fault, AckArrived
<1>18. ASSUME Answer PROVE TypeOK'
  <2>1. Head(sent) \in Tokens /\ sent' \in Seq(Tokens)
    BY <1>18, OfTail DEF Answer
  <2>2. Event("ack", Head(sent)) \in Events /\ Event("error", Head(sent)) \in Events
    BY <2>1 DEF Event, Events
  <2>3. /\ Append(inbox, Event("ack", Head(sent))) \in Seq(Events)
        /\ Append(inbox, Event("error", Head(sent))) \in Seq(Events)
    BY <2>2, AppendProperties
  <2>4. inbox' \in Seq(Events) /\ accepted' \subseteq Tokens /\ acked' \in BOOLEAN
    <3>1. CASE Head(sent) \in accepted
      BY <1>18, <2>3, <3>1 DEF Answer
    <3>2. CASE Head(sent) \notin accepted
      BY <1>18, <2>3, <3>2 DEF Answer
    <3>3. QED
      BY <3>1, <3>2
  <2>5. UNCHANGED <<runVars, identity, creds, link, chanVars, active, handler, late,
                   queue, staged, counters>>
    BY <1>18 DEF Answer
  <2>6. QED
    BY <2>1, <2>4, <2>5
<1>19. ASSUME Stage PROVE TypeOK'
  <2>1. staged' \in Tokens
    BY <1>19 DEF Stage
  <2>2. Event("rotate", staged') \in Events
    BY <1>19, <2>1 DEF Stage, Event, Events
  <2>3. inbox' \in Seq(Events)
    BY <1>19, <2>2, OfAppend DEF Stage
  <2>4. accepted' \subseteq Tokens
    BY <1>19, <2>1 DEF Stage
  <2>5. QED
    BY <1>19, <2>1, <2>2, <2>3, <2>4 DEF Stage
<1>20. ASSUME RootAccessChanged PROVE TypeOK'
  <2>1. updates' \in 0..MaxUpdates
    BY <1>20 DEF RootAccessChanged
  <2>2. Event("update", staged) \in Events
    BY <1>20 DEF RootAccessChanged, Event, Events
  <2>3. inbox' \in Seq(Events)
    BY <1>20, <2>2, OfAppend DEF RootAccessChanged
  <2>4. QED
    BY <1>20, <2>1, <2>2, <2>3 DEF RootAccessChanged
<1>21. ASSUME RefreshAuth PROVE TypeOK'
  <2>1. refreshes' \in 0..MaxRefreshes
    BY <1>21 DEF RefreshAuth
  <2>2. queue' \in Seq(Tokens)
    BY <1>21, OfAppend DEF RefreshAuth
  <2>3. QED
    BY <1>21, <2>1, <2>2 DEF RefreshAuth
<1>22. ASSUME WriteLoop PROVE TypeOK'
  <2>1. Head(queue) \in Tokens /\ queue' \in Seq(Tokens)
    BY <1>22, OfTail DEF WriteLoop
  <2>2. sent' \in Seq(Tokens)
    BY <1>22, <2>1, OfAppend DEF WriteLoop
  <2>3. QED
    BY <1>22, <2>1, <2>2 DEF WriteLoop
<1>23. ASSUME Shutdown PROVE TypeOK'
  BY <1>23 DEF Shutdown
<1>24. ASSUME UNCHANGED vars PROVE TypeOK'
  BY <1>24 DEF vars
<1>25. QED
  BY <1>1, <1>2, <1>3, <1>4, <1>5, <1>6, <1>7, <1>8, <1>9, <1>10, <1>11, <1>12,
     <1>13, <1>14, <1>15, <1>16, <1>17, <1>18, <1>19, <1>20, <1>21, <1>22, <1>23,
     <1>24 DEF Next, RunStep, HandlerStep

\* Close leaves nothing behind.
LEMMA DisconnectionStep == TypeOK /\ Disconnection /\ [Next]_vars => Disconnection'
<1> SUFFICES ASSUME TypeOK /\ Disconnection, [Next]_vars PROVE Disconnection'
  OBVIOUS
<1> USE DEF TypeOK, Disconnection, RunPoints, runVars, chanVars, wireVars, platform,
         counters
<1>1. ASSUME Connect PROVE Disconnection'
  BY <1>1 DEF Connect
<1>2. ASSUME ConnectTimeout PROVE Disconnection'
  BY <1>2 DEF ConnectTimeout, Close, Retry, NextAttempt, Fault, AckArrived
<1>3. ASSUME ConnectError PROVE Disconnection'
  BY <1>3 DEF ConnectError, Close, Retry, NextAttempt, AckArrived
<1>4. ASSUME Connected PROVE Disconnection'
  BY <1>4 DEF Connected
<1>5. ASSUME Disconnected PROVE Disconnection'
  BY <1>5 DEF Disconnected, Close, Retry, NextAttempt, AckArrived
<1>6. ASSUME ContextDone PROVE Disconnection'
  BY <1>6 DEF ContextDone, Close, AckArrived
<1>7. ASSUME Wake PROVE Disconnection'
  BY <1>7 DEF Wake
<1>8. ASSUME AuthAck PROVE Disconnection'
  BY <1>8 DEF AuthAck, Receive
<1>9. ASSUME AuthAckDone PROVE Disconnection'
  BY <1>9 DEF AuthAckDone
<1>10. ASSUME AuthError PROVE Disconnection'
  BY <1>10 DEF AuthError, Receive
<1>11. ASSUME RootAccessUpdated PROVE Disconnection'
  BY <1>11 DEF RootAccessUpdated, Receive
<1>12. ASSUME TokenRotate PROVE Disconnection'
  BY <1>12 DEF TokenRotate, Receive
<1>13. ASSUME TokenRotateDone PROVE Disconnection'
  BY <1>13 DEF TokenRotateDone
<1>14. ASSUME LateAuthAck PROVE Disconnection'
  BY <1>14 DEF LateAuthAck
<1>15. ASSUME OnConnect PROVE Disconnection'
  BY <1>15 DEF OnConnect
<1>16. ASSUME DialFails PROVE Disconnection'
  BY <1>16 DEF DialFails, Fault
<1>17. ASSUME Drop PROVE Disconnection'
  BY <1>17 DEF Drop, Fault, AckArrived
<1>18. ASSUME Answer PROVE Disconnection'
  BY <1>18 DEF Answer
<1>19. ASSUME Stage PROVE Disconnection'
  BY <1>19 DEF Stage
<1>20. ASSUME RootAccessChanged PROVE Disconnection'
  BY <1>20 DEF RootAccessChanged
<1>21. ASSUME RefreshAuth PROVE Disconnection'
  BY <1>21 DEF RefreshAuth
<1>22. ASSUME WriteLoop PROVE Disconnection'
  BY <1>22 DEF WriteLoop
<1>23. ASSUME Shutdown PROVE Disconnection'
  BY <1>23 DEF Shutdown
<1>24. ASSUME UNCHANGED vars PROVE Disconnection'
  BY <1>24 DEF vars
<1>25. QED
  BY <1>1, <1>2, <1>3, <1>4, <1>5, <1>6, <1>7, <1>8, <1>9, <1>10, <1>11, <1>12,
     <1>13, <1>14, <1>15, <1>16, <1>17, <1>18, <1>19, <1>20, <1>21, <1>22, <1>23,
     <1>24 DEF Next, RunStep, HandlerStep

\* Each token is installed before it is sent, and retired only by a newer one.
LEMMA TokensStep ==
  TypeOK /\ TokensTrail /\ IdentityAccepted /\ [Next]_vars =>
    (TokensTrail /\ IdentityAccepted)'
<1> SUFFICES ASSUME TypeOK /\ TokensTrail /\ IdentityAccepted, [Next]_vars
             PROVE (TokensTrail /\ IdentityAccepted)'
  OBVIOUS
<1> USE BoundAssumption DEF TypeOK, TokensTrail, IdentityAccepted, Tokens,
         RunPoints, runVars, chanVars, wireVars, platform, counters
<1>1. ASSUME Connect PROVE (TokensTrail /\ IdentityAccepted)'
  BY <1>1 DEF Connect
<1>2. ASSUME ConnectTimeout PROVE (TokensTrail /\ IdentityAccepted)'
  BY <1>2, Empties DEF ConnectTimeout, Close, Retry, NextAttempt, Fault, AckArrived
<1>3. ASSUME ConnectError PROVE (TokensTrail /\ IdentityAccepted)'
  BY <1>3, Empties DEF ConnectError, Close, Retry, NextAttempt, AckArrived
<1>4. ASSUME Connected PROVE (TokensTrail /\ IdentityAccepted)'
  BY <1>4 DEF Connected
<1>5. ASSUME Disconnected PROVE (TokensTrail /\ IdentityAccepted)'
  BY <1>5, Empties DEF Disconnected, Close, Retry, NextAttempt, AckArrived
<1>6. ASSUME ContextDone PROVE (TokensTrail /\ IdentityAccepted)'
  BY <1>6, Empties DEF ContextDone, Close, AckArrived
<1>7. ASSUME Wake PROVE (TokensTrail /\ IdentityAccepted)'
  BY <1>7 DEF Wake
<1>8. ASSUME AuthAck PROVE (TokensTrail /\ IdentityAccepted)'
  BY <1>8, AheadTail DEF AuthAck, Receive
<1>9. ASSUME AuthAckDone PROVE (TokensTrail /\ IdentityAccepted)'
  BY <1>9 DEF AuthAckDone
<1>10. ASSUME AuthError PROVE (TokensTrail /\ IdentityAccepted)'
  BY <1>10, AheadTail DEF AuthError, Receive
<1>11. ASSUME RootAccessUpdated PROVE (TokensTrail /\ IdentityAccepted)'
  <2>1. Ahead(inbox', accepted, identity, staged)
    BY <1>11, AheadTail DEF RootAccessUpdated, Receive
  <2>2. AtMost(sent', identity)
    BY <1>11, AtMostAppend DEF RootAccessUpdated, Receive
  <2>3. QED
    BY <1>11, <2>1, <2>2 DEF RootAccessUpdated, Receive
<1>12. ASSUME TokenRotate PROVE (TokensTrail /\ IdentityAccepted)'
  <2> DEFINE t == Head(inbox).token
  <2>1. CASE identity' = t
    <3>1. /\ Ahead(inbox', accepted, t, staged)
          /\ t \in accepted /\ t > identity /\ t <= staged
      BY <1>12, AheadTail DEF TokenRotate, Receive
    <3>2. t \in Tokens /\ creds <= t /\ identity <= t
      <4>1. t \in Tokens /\ identity \in Tokens /\ creds \in Tokens
        <5>1. accepted \subseteq Tokens /\ identity \in Tokens /\ creds \in Tokens
          OBVIOUS
        <5>2. t \in accepted
          BY <3>1
        <5> HIDE DEF t, Tokens, TypeOK, TokensTrail, IdentityAccepted
        <5>3. QED
          BY <5>1, <5>2
      <4>2. t > identity /\ creds <= identity
        BY <3>1
      <4> HIDE DEF t, TypeOK, TokensTrail
      <4>3. creds <= t /\ identity <= t
        BY <4>1, <4>2
      <4>4. QED
        BY <4>1, <4>3
    <3>3. AtMost(sent, t) /\ AtMost(queue, t)
      BY <3>2, AtMostNewer
    <3>4. QED
      BY <1>12, <2>1, <3>1, <3>2, <3>3 DEF TokenRotate, Receive
  <2>2. CASE identity' = identity
    <3>1. Ahead(inbox', accepted, identity, staged)
      BY <1>12, AheadTail DEF TokenRotate, Receive
    <3>2. QED
      BY <1>12, <2>2, <3>1 DEF TokenRotate, Receive
  <2>3. QED
    BY <1>12, <2>1, <2>2 DEF TokenRotate, Receive
<1>13. ASSUME TokenRotateDone PROVE (TokensTrail /\ IdentityAccepted)'
  <2>1. AtMost(sent', identity)
    BY <1>13, AtMostAppend DEF TokenRotateDone
  <2>2. QED
    BY <1>13, <2>1 DEF TokenRotateDone
<1>14. ASSUME LateAuthAck PROVE (TokensTrail /\ IdentityAccepted)'
  BY <1>14 DEF LateAuthAck
<1>15. ASSUME OnConnect PROVE (TokensTrail /\ IdentityAccepted)'
  <2>1. AtMost(sent', identity)
    BY <1>15, AtMostAppend DEF OnConnect
  <2>2. QED
    BY <1>15, <2>1 DEF OnConnect
<1>16. ASSUME DialFails PROVE (TokensTrail /\ IdentityAccepted)'
  BY <1>16 DEF DialFails, Fault
<1>17. ASSUME Drop PROVE (TokensTrail /\ IdentityAccepted)'
  BY <1>17, Empties DEF Drop, Fault, AckArrived
<1>18. ASSUME Answer PROVE (TokensTrail /\ IdentityAccepted)'
  <2> DEFINE t == Head(sent)
  <2>1. t \in Tokens /\ t <= identity /\ AtMost(sent', identity)
    BY <1>18, AtMostTail, OfTail DEF Answer
  <2>2. /\ Event("ack", t) \in Events /\ Event("ack", t).kind # "rotate"
        /\ Event("error", t) \in Events /\ Event("error", t).kind # "rotate"
    BY <2>1 DEF Event, Events
  <2>3. CASE t \in accepted
    <3>1. /\ accepted' = {u \in accepted : u >= t}
          /\ inbox' = Append(inbox, Event("ack", t))
      BY <1>18, <2>3 DEF Answer
    <3>2. Ahead(inbox, accepted', identity, staged)
      BY <2>1, <3>1, AheadRetire
    <3>3. Ahead(inbox', accepted', identity, staged)
      BY <2>2, <3>1, <3>2, AheadAppend
    <3>4. identity \in accepted'
      BY <2>1, <3>1
    <3>5. QED
      BY <1>18, <2>1, <3>3, <3>4 DEF Answer
  <2>4. CASE t \notin accepted
    <3>1. accepted' = accepted /\ inbox' = Append(inbox, Event("error", t))
      BY <1>18, <2>4 DEF Answer
    <3>2. Ahead(inbox', accepted, identity, staged)
      BY <2>2, <3>1, AheadAppend
    <3>3. QED
      BY <1>18, <2>1, <3>1, <3>2 DEF Answer
  <2>5. QED
    BY <2>3, <2>4
<1>19. ASSUME Stage PROVE (TokensTrail /\ IdentityAccepted)'
  <2>1. staged + 1 \in Tokens
    BY <1>19 DEF Stage
  <2>2. Ahead(Append(inbox, Event("rotate", staged + 1)), accepted \cup {staged + 1},
              identity, staged + 1)
    BY <2>1, AheadStage
  <2>3. QED
    BY <1>19, <2>1, <2>2 DEF Stage
<1>20. ASSUME RootAccessChanged PROVE (TokensTrail /\ IdentityAccepted)'
  <2>1. Event("update", staged) \in Events /\ Event("update", staged).kind # "rotate"
    BY DEF Event, Events
  <2>2. Ahead(inbox', accepted, identity, staged)
    BY <1>20, <2>1, AheadAppend DEF RootAccessChanged
  <2>3. QED
    BY <1>20, <2>2 DEF RootAccessChanged
<1>21. ASSUME RefreshAuth PROVE (TokensTrail /\ IdentityAccepted)'
  <2>1. AtMost(queue', identity)
    BY <1>21, AtMostAppend DEF RefreshAuth
  <2>2. QED
    BY <1>21, <2>1 DEF RefreshAuth
<1>22. ASSUME WriteLoop PROVE (TokensTrail /\ IdentityAccepted)'
  <2>1. Head(queue) \in Tokens /\ Head(queue) <= identity /\ AtMost(queue', identity)
    BY <1>22, AtMostTail, OfTail DEF WriteLoop
  <2>2. AtMost(sent', identity)
    BY <1>22, <2>1, AtMostAppend DEF WriteLoop
  <2>3. QED
    BY <1>22, <2>1, <2>2 DEF WriteLoop
<1>23. ASSUME Shutdown PROVE (TokensTrail /\ IdentityAccepted)'
  BY <1>23 DEF Shutdown
<1>24. ASSUME UNCHANGED vars PROVE (TokensTrail /\ IdentityAccepted)'
  BY <1>24 DEF vars
<1>25. QED
  BY <1>1, <1>2, <1>3, <1>4, <1>5, <1>6, <1>7, <1>8, <1>9, <1>10, <1>11, <1>12,
     <1>13, <1>14, <1>15, <1>16, <1>17, <1>18, <1>19, <1>20, <1>21, <1>22, <1>23,
     <1>24 DEF Next, RunStep, HandlerStep

\* An acknowledgement goes no further than its connection.
LEMMA AcknowledgementStep ==
  TypeOK /\ Disconnection /\ Acknowledgement /\ [Next]_vars =>
    Acknowledgement'
<1> SUFFICES ASSUME TypeOK /\ Disconnection /\ Acknowledgement, [Next]_vars
             PROVE Acknowledgement'
  OBVIOUS
<1> USE BoundAssumption DEF TypeOK, Disconnection, Acknowledgement, Tokens,
         RunPoints, runVars, chanVars, wireVars, platform, counters
<1>1. ASSUME Connect PROVE Acknowledgement'
  BY <1>1, Empties DEF Connect
<1>2. ASSUME ConnectTimeout PROVE Acknowledgement'
  BY <1>2, Empties DEF ConnectTimeout, Close, Retry, NextAttempt, Fault, AckArrived
<1>3. ASSUME ConnectError PROVE Acknowledgement'
  BY <1>3, Empties DEF ConnectError, Close, Retry, NextAttempt, AckArrived
<1>4. ASSUME Connected PROVE Acknowledgement'
  BY <1>4 DEF Connected
<1>5. ASSUME Disconnected PROVE Acknowledgement'
  BY <1>5, Empties DEF Disconnected, Close, Retry, NextAttempt, AckArrived
<1>6. ASSUME ContextDone PROVE Acknowledgement'
  BY <1>6, Empties DEF ContextDone, Close, AckArrived
<1>7. ASSUME Wake PROVE Acknowledgement'
  BY <1>7 DEF Wake
<1>8. ASSUME AuthAck PROVE Acknowledgement'
  <2>1. /\ \A kind : Holds(inbox', kind) => Holds(inbox, kind)
        /\ Head(inbox).kind = "ack" => Holds(inbox, "ack")
    BY <1>8, HoldsTail DEF AuthAck, Receive
  <2>2. QED
    BY <1>8, <2>1 DEF AuthAck, Receive
<1>9. ASSUME AuthAckDone PROVE Acknowledgement'
  BY <1>9 DEF AuthAckDone
<1>10. ASSUME AuthError PROVE Acknowledgement'
  <2>1. /\ \A kind : Holds(inbox', kind) => Holds(inbox, kind)
        /\ Head(inbox).kind = "ack" => Holds(inbox, "ack")
    BY <1>10, HoldsTail DEF AuthError, Receive
  <2>2. QED
    BY <1>10, <2>1 DEF AuthError, Receive
<1>11. ASSUME RootAccessUpdated PROVE Acknowledgement'
  <2>1. /\ \A kind : Holds(inbox', kind) => Holds(inbox, kind)
        /\ Head(inbox).kind = "ack" => Holds(inbox, "ack")
    BY <1>11, HoldsTail DEF RootAccessUpdated, Receive
  <2>2. QED
    BY <1>11, <2>1 DEF RootAccessUpdated, Receive
<1>12. ASSUME TokenRotate PROVE Acknowledgement'
  <2>1. /\ \A kind : Holds(inbox', kind) => Holds(inbox, kind)
        /\ Head(inbox).kind = "ack" => Holds(inbox, "ack")
    BY <1>12, HoldsTail DEF TokenRotate, Receive
  <2>2. QED
    BY <1>12, <2>1 DEF TokenRotate, Receive
<1>13. ASSUME TokenRotateDone PROVE Acknowledgement'
  BY <1>13 DEF TokenRotateDone
<1>14. ASSUME LateAuthAck PROVE Acknowledgement'
  BY <1>14 DEF LateAuthAck
<1>15. ASSUME OnConnect PROVE Acknowledgement'
  BY <1>15 DEF OnConnect
<1>16. ASSUME DialFails PROVE Acknowledgement'
  BY <1>16 DEF DialFails, Fault
<1>17. ASSUME Drop PROVE Acknowledgement'
  BY <1>17, Empties DEF Drop, Fault, AckArrived
<1>18. ASSUME Answer PROVE Acknowledgement'
  <2>1. Head(sent) \in Tokens
    BY <1>18, OfTail DEF Answer
  <2>2. CASE Head(sent) \in accepted
    BY <1>18, <2>2 DEF Answer
  <2>3. CASE Head(sent) \notin accepted
    <3>1. /\ inbox' = Append(inbox, Event("error", Head(sent)))
          /\ acked' = acked
      BY <1>18, <2>3 DEF Answer
    <3>2. Event("error", Head(sent)) \in Events /\ Event("error", Head(sent)).kind # "ack"
      BY <2>1 DEF Event, Events
    <3>3. Holds(inbox', "ack") => Holds(inbox, "ack")
      BY <3>1, <3>2, HoldsAppend
    <3>4. QED
      BY <1>18, <3>1, <3>3 DEF Answer
  <2>4. QED
    BY <2>2, <2>3
<1>19. ASSUME Stage PROVE Acknowledgement'
  <2>1. Event("rotate", staged') \in Events /\ Event("rotate", staged').kind # "ack"
    BY <1>19 DEF Stage, Event, Events
  <2>2. Holds(inbox', "ack") => Holds(inbox, "ack")
    BY <1>19, <2>1, HoldsAppend DEF Stage
  <2>3. QED
    BY <1>19, <2>2 DEF Stage
<1>20. ASSUME RootAccessChanged PROVE Acknowledgement'
  <2>1. Event("update", staged) \in Events /\ Event("update", staged).kind # "ack"
    BY <1>20 DEF RootAccessChanged, Event, Events
  <2>2. Holds(inbox', "ack") => Holds(inbox, "ack")
    BY <1>20, <2>1, HoldsAppend DEF RootAccessChanged
  <2>3. QED
    BY <1>20, <2>2 DEF RootAccessChanged
<1>21. ASSUME RefreshAuth PROVE Acknowledgement'
  BY <1>21 DEF RefreshAuth
<1>22. ASSUME WriteLoop PROVE Acknowledgement'
  BY <1>22 DEF WriteLoop
<1>23. ASSUME Shutdown PROVE Acknowledgement'
  BY <1>23 DEF Shutdown
<1>24. ASSUME UNCHANGED vars PROVE Acknowledgement'
  BY <1>24 DEF vars
<1>25. QED
  BY <1>1, <1>2, <1>3, <1>4, <1>5, <1>6, <1>7, <1>8, <1>9, <1>10, <1>11, <1>12,
     <1>13, <1>14, <1>15, <1>16, <1>17, <1>18, <1>19, <1>20, <1>21, <1>22, <1>23,
     <1>24 DEF Next, RunStep, HandlerStep

-------------------------------------------------------------------------------
(* Theorems *)

LEMMA InitInvariant == Init => IInv
<1> SUFFICES ASSUME Init PROVE IInv
  OBVIOUS
<1>1. TypeOK
  <2>1. <<>> \in Seq(Tokens) /\ <<>> \in Seq(Events)
    BY EmptySeq
  <2>2. 0 \in Tokens /\ {0} \subseteq Tokens
    BY BoundAssumption DEF Tokens
  <2>3. 0 \in 0..MaxFaults /\ 0 \in 0..MaxUpdates /\ 0 \in 0..MaxRefreshes /\ 0 \in 0..5
    BY BoundAssumption
  <2>4. QED
    BY <2>1, <2>2, <2>3 DEF Init, TypeOK, RunPoints
<1>2. TokensTrail /\ IdentityAccepted
  BY Empties DEF Init, TokensTrail, IdentityAccepted
<1>3. Disconnection /\ Acknowledgement
  BY Empties DEF Init, Disconnection, Acknowledgement
<1>4. QED
  BY <1>1, <1>2, <1>3 DEF IInv

\* The strengthened invariant holds throughout a session: connect and its channels,
\* the event handlers and the token rotation of internal/realtime/client.go.
THEOREM Invariance == Spec => []IInv
<1>1. IInv /\ [Next]_vars => IInv'
  BY TypeStep, TokensStep, DisconnectionStep, AcknowledgementStep DEF IInv
<1>2. QED
  BY InitInvariant, <1>1, PTL DEF Spec

\* Tokens, sequences and counters keep their ranges (client.go, whole loop).
THEOREM TypeCorrect == Spec => []TypeOK
<1>1. IInv => TypeOK
  BY DEF IInv
<1>2. QED
  BY Invariance, <1>1, PTL

\* The agent never holds a token that the platform has retired: handleTokenRotate
\* persists and installs a token before it authenticates with it.
THEOREM HoldsAcceptedToken == Spec => []IdentityAccepted
<1>1. IInv => IdentityAccepted
  BY DEF IInv
<1>2. QED
  BY Invariance, <1>1, PTL

\* runConnection starts only behind an acknowledgement of its own connection:
\* connect makes the channel its handler writes to.
THEOREM ServesAcknowledged == Spec => []ServingAcknowledged
<1>1. IInv => ServingAcknowledged
  BY DEF IInv, Acknowledgement, ServingAcknowledged
<1>2. QED
  BY Invariance, <1>1, PTL

===============================================================================
