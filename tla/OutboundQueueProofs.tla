--------------------------- MODULE OutboundQueueProofs --------------------------
(****************************************************************************)
(* The safety properties of OutboundQueue for any senders, capacity, number *)
(* of events and of connections.                                            *)
(****************************************************************************)
EXTENDS OutboundQueue, FiniteSetTheorems, SequenceTheorems, TLAPS

\* A connection has a number, and the write loops of those to come have not started.
Numbered ==
  /\ link # "none" => gen \in Loops
  /\ \A g \in Loops : g > gen => loop[g] = "off"

\* A loop that has taken an event holds one.
Held == \A g \in Loops : loop[g] \in {"taken", "emitting"} => hand[g] \in Messages

\* A sender that has begun has an event to enqueue.
Pending == \A s \in Senders : pc[s] = "putting" => next[s] <= MaxMessages

\* m was enqueued before n, if one sender enqueued both.
Precedes(m, n) == m[1] = n[1] => m[2] < n[2]

AllPrecede(S, T) == \A m \in S, n \in T : Precedes(m, n)

Sorted(s) == \A i, j \in DOMAIN s : i < j => Precedes(s[i], s[j])

\* Delivered, on the wire, in the newest loop's hands, in the queue, yet to come:
\* each sender's events pass through these places in order.
ChainOf(d, w, h, q, n) ==
  /\ Sorted(d) /\ Sorted(w) /\ Sorted(q)
  /\ AllPrecede(Elements(d), Elements(w) \cup h \cup Elements(q))
  /\ AllPrecede(Elements(w), h \cup Elements(q))
  /\ AllPrecede(h, Elements(q))
  /\ \A m \in Elements(d) \cup Elements(w) \cup h \cup Elements(q) : m[2] < n[m[1]]

\* The event in the hands of the newest write loop.
Handed == IF gen \in Loops /\ loop[gen] \in {"taken", "emitting"} THEN {hand[gen]} ELSE {}

Chain == ChainOf(delivered, wire, Handed, queue, next)

IInv == TypeOK /\ Numbered /\ Held /\ Pending /\ DepthExact /\ Chain

-------------------------------------------------------------------------------
(* Sequences *)

LEMMA AppendElements ==
  ASSUME NEW s \in Seq(Messages), NEW m \in Messages
  PROVE  Elements(Append(s, m)) = Elements(s) \cup {m}
<1> DEFINE t == Append(s, m)
<1>1. /\ Len(t) = Len(s) + 1 /\ Len(s) \in Nat
      /\ DOMAIN t = 1..Len(t) /\ DOMAIN s = 1..Len(s)
      /\ \A i \in 1..Len(s) : t[i] = s[i]
      /\ t[Len(s) + 1] = m
  BY AppendProperties, LenProperties
<1> HIDE DEF t
<1>2. \A i \in DOMAIN t : t[i] \in Elements(s) \cup {m}
  BY <1>1 DEF Elements
<1>3. \A i \in DOMAIN s : s[i] \in Elements(t)
  BY <1>1 DEF Elements
<1>4. m \in Elements(t)
  BY <1>1 DEF Elements
<1>5. QED
  BY <1>2, <1>3, <1>4 DEF Elements, t

\* A sequence stays sorted when the new event follows all the others.
LEMMA AppendSorted ==
  ASSUME NEW s \in Seq(Messages), NEW m \in Messages, Sorted(s), AllPrecede(Elements(s), {m})
  PROVE  Sorted(Append(s, m))
<1> DEFINE t == Append(s, m)
<1>1. /\ Len(t) = Len(s) + 1 /\ Len(s) \in Nat
      /\ DOMAIN t = 1..Len(t) /\ DOMAIN s = 1..Len(s)
      /\ \A i \in 1..Len(s) : t[i] = s[i]
      /\ t[Len(s) + 1] = m
  BY AppendProperties, LenProperties
<1> HIDE DEF t
<1>2. \A i \in DOMAIN s : Precedes(s[i], m)
  BY DEF AllPrecede, Elements
<1>3. ASSUME NEW i \in DOMAIN t, NEW j \in DOMAIN t, i < j PROVE Precedes(t[i], t[j])
  <2>1. CASE j = Len(s) + 1
    BY <1>1, <1>2, <1>3, <2>1
  <2>2. CASE j # Len(s) + 1
    BY <1>1, <1>3, <2>2 DEF Sorted
  <2>3. QED
    BY <2>1, <2>2
<1>4. QED
  BY <1>3 DEF Sorted, t

\* Taking the head of a sorted sequence leaves a sorted one that follows it.
LEMMA TailSorted ==
  ASSUME NEW s \in Seq(Messages), s # <<>>, Sorted(s)
  PROVE  /\ Head(s) \in Messages /\ Tail(s) \in Seq(Messages)
         /\ Sorted(Tail(s))
         /\ Head(s) \in Elements(s) /\ Elements(Tail(s)) \subseteq Elements(s)
         /\ AllPrecede({Head(s)}, Elements(Tail(s)))
<1> DEFINE t == Tail(s)
<1>1. /\ Head(s) \in Messages /\ t \in Seq(Messages)
      /\ Len(t) = Len(s) - 1 /\ Len(s) \in Nat /\ Len(t) \in Nat
      /\ DOMAIN t = 1..Len(t) /\ DOMAIN s = 1..Len(s)
      /\ \A i \in 1..Len(t) : t[i] = s[i + 1]
      /\ Head(s) = s[1]
  BY HeadTailProperties, LenProperties
<1> HIDE DEF t
<1>2. 1 \in DOMAIN s /\ \A i \in DOMAIN t : i + 1 \in DOMAIN s /\ 1 < i + 1
  BY <1>1
<1>3. Sorted(t)
  <2> SUFFICES ASSUME NEW i \in DOMAIN t, NEW j \in DOMAIN t, i < j PROVE Precedes(t[i], t[j])
    BY DEF Sorted
  <2>1. i + 1 < j + 1
    BY <1>1
  <2>2. QED
    BY <1>1, <1>2, <2>1 DEF Sorted
<1>4. Elements(t) \subseteq Elements(s)
  BY <1>1, <1>2 DEF Elements
<1>5. \A i \in DOMAIN t : Precedes(s[1], t[i])
  BY <1>1, <1>2 DEF Sorted
<1>6. QED
  BY <1>1, <1>2, <1>3, <1>4, <1>5 DEF Elements, AllPrecede, t

LEMMA ElementsTyped == \A s \in Seq(Messages) : Elements(s) \subseteq Messages
  BY LenProperties DEF Elements

\* The event about to be enqueued is one of the sender's events.
LEMMA NextMessage ==
  ASSUME TypeOK, Pending, NEW s \in Senders, pc[s] = "putting"
  PROVE  <<s, next[s]>> \in Messages
  BY QueueAssumption DEF TypeOK, Pending, Messages

-------------------------------------------------------------------------------
(* Each conjunct is kept by every step; one proof step per action. *)

\* The state is well typed.
LEMMA TypeStep == TypeOK /\ Numbered /\ Held /\ Pending /\ [Next]_vars => TypeOK'
<1> SUFFICES ASSUME TypeOK /\ Numbered /\ Held /\ Pending, [Next]_vars PROVE TypeOK'
  OBVIOUS
<1> USE QueueAssumption DEF TypeOK, Loops, LoopPoints, senderVars, depthVars, loopVars
<1>1. ASSUME NEW s \in Senders, Begin(s) PROVE TypeOK'
  BY <1>1 DEF Begin
<1>2. ASSUME NEW s \in Senders, Put(s) PROVE TypeOK'
  <2>1. <<s, next[s]>> \in Messages
    BY <1>2, NextMessage DEF Put
  <2>2. queue' \in Seq(Messages)
    BY <1>2, <2>1, AppendProperties DEF Put
  <2>3. next' \in [Senders -> 1..MaxMessages + 1]
    BY <1>2, <2>1 DEF Put, Messages
  <2>4. QED
    BY <1>2, <2>2, <2>3 DEF Put
<1>3. ASSUME NEW s \in Senders, GiveUp(s) PROVE TypeOK'
  <2>1. next[s] + 1 \in 1..MaxMessages + 1
    BY <1>3 DEF GiveUp, Pending
  <2>2. QED
    BY <1>3, <2>1 DEF GiveUp
<1>4. ASSUME NEW s \in Senders, Count(s) PROVE TypeOK'
  BY <1>4 DEF Count, updateQueueDepth
<1>5. ASSUME NEW g \in Loops, Take(g) PROVE TypeOK'
  <2>1. Head(queue) \in Messages /\ Tail(queue) \in Seq(Messages)
    BY <1>5, HeadTailProperties DEF Take
  <2>2. QED
    BY <1>5, <2>1 DEF Take
<1>6. ASSUME NEW g \in Loops, CountDown(g) PROVE TypeOK'
  BY <1>6 DEF CountDown, updateQueueDepth
<1>7. ASSUME NEW g \in Loops, Emit(g) PROVE TypeOK'
  <2>1. hand[g] \in Messages
    BY <1>7 DEF Emit, Held
  <2>2. Append(wire, hand[g]) \in Seq(Messages)
    BY <2>1, AppendProperties
  <2>3. lost' \subseteq Messages
    BY <1>7, <2>1 DEF Emit
  <2>4. QED
    BY <1>7, <2>2, <2>3 DEF Emit
<1>8. ASSUME NEW g \in Loops, LoopEnd(g) PROVE TypeOK'
  BY <1>8 DEF LoopEnd
<1>9. ASSUME Connected PROVE TypeOK'
  <2>1. gen + 1 \in 0..MaxConnections
    BY <1>9 DEF Connected
  <2>2. QED
    BY <1>9, <2>1 DEF Connected
<1>10. ASSUME Drop PROVE TypeOK'
  <2>1. Elements(wire) \subseteq Messages
    BY ElementsTyped
  <2>2. QED
    BY <1>10, <2>1 DEF Drop, Numbered
<1>11. ASSUME Return PROVE TypeOK'
  <2>1. Elements(wire) \subseteq Messages
    BY ElementsTyped
  <2>2. QED
    BY <1>11, <2>1 DEF Return, Numbered
<1>12. ASSUME Arrive PROVE TypeOK'
  <2>1. delivered' \in Seq(Messages) /\ wire' \in Seq(Messages)
    BY <1>12, AppendProperties, HeadTailProperties DEF Arrive
  <2>2. QED
    BY <1>12, <2>1 DEF Arrive
<1>13. ASSUME Shutdown PROVE TypeOK'
  BY <1>13 DEF Shutdown
<1>14. ASSUME UNCHANGED vars PROVE TypeOK'
  BY <1>14 DEF vars
<1>15. QED
  BY <1>1, <1>2, <1>3, <1>4, <1>5, <1>6, <1>7, <1>8, <1>9, <1>10, <1>11, <1>12,
     <1>13, <1>14 DEF Next, SenderStep, LoopStep

\* Connections start their loops in turn.
LEMMA NumberedStep == TypeOK /\ Numbered /\ [Next]_vars => Numbered'
<1> SUFFICES ASSUME TypeOK /\ Numbered, [Next]_vars PROVE Numbered'
  OBVIOUS
<1> USE QueueAssumption DEF TypeOK, Loops, LoopPoints, Numbered, senderVars, depthVars, loopVars
<1>1. ASSUME NEW s \in Senders, Begin(s) PROVE Numbered'
  BY <1>1 DEF Begin
<1>2. ASSUME NEW s \in Senders, Put(s) PROVE Numbered'
  BY <1>2 DEF Put
<1>3. ASSUME NEW s \in Senders, GiveUp(s) PROVE Numbered'
  BY <1>3 DEF GiveUp
<1>4. ASSUME NEW s \in Senders, Count(s) PROVE Numbered'
  BY <1>4 DEF Count, updateQueueDepth
<1>5. ASSUME NEW g \in Loops, Take(g) PROVE Numbered'
  BY <1>5 DEF Take
<1>6. ASSUME NEW g \in Loops, CountDown(g) PROVE Numbered'
  BY <1>6 DEF CountDown, updateQueueDepth
<1>7. ASSUME NEW g \in Loops, Emit(g) PROVE Numbered'
  BY <1>7 DEF Emit
<1>8. ASSUME NEW g \in Loops, LoopEnd(g) PROVE Numbered'
  BY <1>8 DEF LoopEnd
<1>9. ASSUME Connected PROVE Numbered'
  BY <1>9 DEF Connected
<1>10. ASSUME Drop PROVE Numbered'
  BY <1>10 DEF Drop
<1>11. ASSUME Return PROVE Numbered'
  BY <1>11 DEF Return
<1>12. ASSUME Arrive PROVE Numbered'
  BY <1>12 DEF Arrive
<1>13. ASSUME Shutdown PROVE Numbered'
  BY <1>13 DEF Shutdown
<1>14. ASSUME UNCHANGED vars PROVE Numbered'
  BY <1>14 DEF vars
<1>15. QED
  BY <1>1, <1>2, <1>3, <1>4, <1>5, <1>6, <1>7, <1>8, <1>9, <1>10, <1>11, <1>12,
     <1>13, <1>14 DEF Next, SenderStep, LoopStep

\* Begin looks for an event.
LEMMA PendingStep == TypeOK /\ Pending /\ [Next]_vars => Pending'
<1> SUFFICES ASSUME TypeOK /\ Pending, [Next]_vars PROVE Pending'
  OBVIOUS
<1> USE QueueAssumption DEF TypeOK, Pending, senderVars, depthVars, loopVars
<1>1. ASSUME NEW s \in Senders, Begin(s) PROVE Pending'
  BY <1>1 DEF Begin
<1>2. ASSUME NEW s \in Senders, Put(s) PROVE Pending'
  BY <1>2 DEF Put
<1>3. ASSUME NEW s \in Senders, GiveUp(s) PROVE Pending'
  BY <1>3 DEF GiveUp
<1>4. ASSUME NEW s \in Senders, Count(s) PROVE Pending'
  BY <1>4 DEF Count, updateQueueDepth
<1>5. ASSUME NEW g \in Loops, Take(g) PROVE Pending'
  BY <1>5 DEF Take
<1>6. ASSUME NEW g \in Loops, CountDown(g) PROVE Pending'
  BY <1>6 DEF CountDown, updateQueueDepth
<1>7. ASSUME NEW g \in Loops, Emit(g) PROVE Pending'
  BY <1>7 DEF Emit
<1>8. ASSUME NEW g \in Loops, LoopEnd(g) PROVE Pending'
  BY <1>8 DEF LoopEnd
<1>9. ASSUME Connected PROVE Pending'
  BY <1>9 DEF Connected
<1>10. ASSUME Drop PROVE Pending'
  BY <1>10 DEF Drop
<1>11. ASSUME Return PROVE Pending'
  BY <1>11 DEF Return
<1>12. ASSUME Arrive PROVE Pending'
  BY <1>12 DEF Arrive
<1>13. ASSUME Shutdown PROVE Pending'
  BY <1>13 DEF Shutdown
<1>14. ASSUME UNCHANGED vars PROVE Pending'
  BY <1>14 DEF vars
<1>15. QED
  BY <1>1, <1>2, <1>3, <1>4, <1>5, <1>6, <1>7, <1>8, <1>9, <1>10, <1>11, <1>12,
     <1>13, <1>14 DEF Next, SenderStep, LoopStep

\* Take fills the hand, Emit empties it.
LEMMA HeldStep == TypeOK /\ Held /\ [Next]_vars => Held'
<1> SUFFICES ASSUME TypeOK /\ Held, [Next]_vars PROVE Held'
  OBVIOUS
<1> USE QueueAssumption DEF TypeOK, LoopPoints, Held, senderVars, depthVars, loopVars
<1>1. ASSUME NEW s \in Senders, Begin(s) PROVE Held'
  BY <1>1 DEF Begin
<1>2. ASSUME NEW s \in Senders, Put(s) PROVE Held'
  BY <1>2 DEF Put
<1>3. ASSUME NEW s \in Senders, GiveUp(s) PROVE Held'
  BY <1>3 DEF GiveUp
<1>4. ASSUME NEW s \in Senders, Count(s) PROVE Held'
  BY <1>4 DEF Count, updateQueueDepth
<1>5. ASSUME NEW g \in Loops, Take(g) PROVE Held'
  BY <1>5 DEF Take
<1>6. ASSUME NEW g \in Loops, CountDown(g) PROVE Held'
  BY <1>6 DEF CountDown, updateQueueDepth
<1>7. ASSUME NEW g \in Loops, Emit(g) PROVE Held'
  BY <1>7 DEF Emit
<1>8. ASSUME NEW g \in Loops, LoopEnd(g) PROVE Held'
  BY <1>8 DEF LoopEnd
<1>9. ASSUME Connected PROVE Held'
  BY <1>9 DEF Connected
<1>10. ASSUME Drop PROVE Held'
  BY <1>10 DEF Drop
<1>11. ASSUME Return PROVE Held'
  BY <1>11 DEF Return
<1>12. ASSUME Arrive PROVE Held'
  BY <1>12 DEF Arrive
<1>13. ASSUME Shutdown PROVE Held'
  BY <1>13 DEF Shutdown
<1>14. ASSUME UNCHANGED vars PROVE Held'
  BY <1>14 DEF vars
<1>15. QED
  BY <1>1, <1>2, <1>3, <1>4, <1>5, <1>6, <1>7, <1>8, <1>9, <1>10, <1>11, <1>12,
     <1>13, <1>14 DEF Next, SenderStep, LoopStep

-------------------------------------------------------------------------------
(* The counter *)

Takes == {g \in Loops : loop[g] = "taken"}
Puts == {s \in Senders : pc[s] = "counting"}

\* Few enough to be counted.
LEMMA SidesFinite ==
  /\ IsFiniteSet(Takes) /\ IsFiniteSet(Puts)
  /\ Cardinality(Takes) \in Nat /\ Cardinality(Puts) \in Nat
<1>1. IsFiniteSet(Loops)
  BY FS_Interval, QueueAssumption DEF Loops
<1>2. Takes \in SUBSET Loops /\ Puts \in SUBSET Senders
  BY DEF Takes, Puts
<1>3. IsFiniteSet(Takes) /\ IsFiniteSet(Puts)
  BY <1>1, <1>2, FS_Subset, SenderAssumption
<1>4. QED
  BY <1>3, FS_CardinalityType

\* Every update of the channel enters a set of updates under way, and leaves it when
\* the counter follows.
LEMMA DepthStep == TypeOK /\ Numbered /\ DepthExact /\ [Next]_vars => DepthExact'
<1> SUFFICES ASSUME TypeOK /\ Numbered /\ DepthExact, [Next]_vars PROVE DepthExact'
  OBVIOUS
<1>a. depth = Len(queue) + Cardinality(Takes) - Cardinality(Puts)
  BY DEF DepthExact, Takes, Puts
<1>b. ASSUME depth' = Len(queue') + Cardinality(Takes') - Cardinality(Puts') PROVE DepthExact'
  BY <1>b DEF DepthExact, Takes, Puts
<1>c. ASSUME Takes' = Takes, Puts' = Puts, queue' = queue, depth' = depth PROVE DepthExact'
  BY <1>a, <1>b, <1>c
<1> USE SidesFinite DEF TypeOK
<1>1. ASSUME NEW s \in Senders, Begin(s) PROVE DepthExact'
  BY <1>c, <1>1 DEF Begin, Takes, Puts, senderVars, depthVars, loopVars
<1>2. ASSUME NEW s \in Senders, Put(s) PROVE DepthExact'
  <2>1. Puts' = Puts \cup {s} /\ s \notin Puts /\ Takes' = Takes
    BY <1>2 DEF Put, Puts, Takes, loopVars
  <2>2. Cardinality(Puts') = Cardinality(Puts) + 1
    BY <2>1, FS_AddElement
  <2>3. Len(queue') = Len(queue) + 1 /\ Len(queue) \in Nat
    BY <1>2 DEF Put
  <2>4. QED
    BY <1>2, <1>a, <1>b, <2>1, <2>2, <2>3, SMTT(40) DEF Put, depthVars
<1>3. ASSUME NEW s \in Senders, GiveUp(s) PROVE DepthExact'
  BY <1>c, <1>3 DEF GiveUp, Takes, Puts, senderVars, depthVars, loopVars
<1>4. ASSUME NEW s \in Senders, Count(s) PROVE DepthExact'
  <2>1. Puts' = Puts \ {s} /\ s \in Puts /\ Takes' = Takes
    BY <1>4 DEF Count, Puts, Takes, loopVars
  <2>2. Cardinality(Puts') = Cardinality(Puts) - 1
    BY <2>1, FS_RemoveElement
  <2>3. QED
    BY <1>4, <1>a, <1>b, <2>1, <2>2 DEF Count, updateQueueDepth
<1>5. ASSUME NEW g \in Loops, Take(g) PROVE DepthExact'
  <2>1. Takes' = Takes \cup {g} /\ g \notin Takes /\ Puts' = Puts
    BY <1>5 DEF Take, Puts, Takes, senderVars
  <2>2. Cardinality(Takes') = Cardinality(Takes) + 1
    BY <2>1, FS_AddElement
  <2>3. Len(queue') = Len(queue) - 1 /\ Len(queue) \in Nat
    BY <1>5, HeadTailProperties DEF Take
  <2>4. QED
    BY <1>5, <1>a, <1>b, <2>1, <2>2, <2>3 DEF Take, depthVars
<1>6. ASSUME NEW g \in Loops, CountDown(g) PROVE DepthExact'
  <2>1. Takes' = Takes \ {g} /\ g \in Takes /\ Puts' = Puts
    BY <1>6 DEF CountDown, Puts, Takes, senderVars
  <2>2. Cardinality(Takes') = Cardinality(Takes) - 1
    BY <2>1, FS_RemoveElement
  <2>3. QED
    BY <1>6, <1>a, <1>b, <2>1, <2>2, SMTT(40) DEF CountDown, updateQueueDepth
<1>7. ASSUME NEW g \in Loops, Emit(g) PROVE DepthExact'
  BY <1>c, <1>7 DEF Emit, Takes, Puts, senderVars, depthVars, loopVars
<1>8. ASSUME NEW g \in Loops, LoopEnd(g) PROVE DepthExact'
  BY <1>c, <1>8 DEF LoopEnd, Takes, Puts, senderVars, depthVars, loopVars
<1>9. ASSUME Connected PROVE DepthExact'
  <2>1. loop[gen + 1] = "off" /\ loop' = [loop EXCEPT ![gen + 1] = "selecting"]
    BY <1>9, QueueAssumption DEF Connected, Numbered, Loops
  <2>2. Takes' = Takes
    BY <2>1 DEF Takes
  <2>3. QED
    BY <1>c, <1>9, <2>2 DEF Connected, Puts, senderVars, depthVars
<1>10. ASSUME Drop PROVE DepthExact'
  BY <1>c, <1>10 DEF Drop, Takes, Puts, senderVars, depthVars, loopVars
<1>11. ASSUME Return PROVE DepthExact'
  BY <1>c, <1>11 DEF Return, Takes, Puts, senderVars, depthVars, loopVars
<1>12. ASSUME Arrive PROVE DepthExact'
  BY <1>c, <1>12 DEF Arrive, Takes, Puts, senderVars, depthVars, loopVars
<1>13. ASSUME Shutdown PROVE DepthExact'
  BY <1>c, <1>13 DEF Shutdown, Takes, Puts, senderVars, depthVars, loopVars
<1>14. ASSUME UNCHANGED vars PROVE DepthExact'
  BY <1>c, <1>14 DEF vars, Takes, Puts, senderVars, depthVars, loopVars
<1>15. QED
  BY <1>1, <1>2, <1>3, <1>4, <1>5, <1>6, <1>7, <1>8, <1>9, <1>10, <1>11, <1>12,
     <1>13, <1>14 DEF Next, SenderStep, LoopStep
-------------------------------------------------------------------------------
(* The order, as each step changes it *)

\* An event joins the queue and takes its number.
LEMMA ChainPut ==
  ASSUME NEW d \in Seq(Messages), NEW w \in Seq(Messages), NEW h \in SUBSET Messages,
         NEW q \in Seq(Messages), NEW n \in [Senders -> Nat], ChainOf(d, w, h, q, n),
         NEW s \in Senders, <<s, n[s]>> \in Messages
  PROVE  ChainOf(d, w, h, Append(q, <<s, n[s]>>), [n EXCEPT ![s] = @ + 1])
<1> DEFINE m == <<s, n[s]>>
           all == Elements(d) \cup Elements(w) \cup h \cup Elements(q)
<1>1. all \subseteq Messages /\ \A a \in Messages : a[1] \in Senders /\ a[2] \in Nat
  <2>1. all \subseteq Messages
    BY ElementsTyped
  <2>2. \A a \in Messages : a[1] \in Senders /\ a[2] \in Nat
    BY DEF Messages
  <2>3. QED
    BY <2>1, <2>2
<1>2. AllPrecede(all, {m})
  BY <1>1 DEF ChainOf, AllPrecede, Precedes
<1>3. Elements(Append(q, m)) = Elements(q) \cup {m}
  BY AppendElements
<1>4. Sorted(Append(q, m))
  BY <1>2, AppendSorted DEF ChainOf, AllPrecede
<1>5. \A a \in all \cup {m} : a[2] < [n EXCEPT ![s] = @ + 1][a[1]]
  BY <1>1 DEF ChainOf
<1>6. QED
  BY <1>2, <1>3, <1>4, <1>5 DEF ChainOf, AllPrecede

\* An event is given up.
LEMMA ChainSkip ==
  ASSUME NEW d \in Seq(Messages), NEW w \in Seq(Messages), NEW h \in SUBSET Messages,
         NEW q \in Seq(Messages), NEW n \in [Senders -> Nat], ChainOf(d, w, h, q, n),
         NEW s \in Senders
  PROVE  ChainOf(d, w, h, q, [n EXCEPT ![s] = @ + 1])
<1>1. Elements(d) \cup Elements(w) \cup h \cup Elements(q) \subseteq Messages
  BY ElementsTyped
<1>2. \A a \in Messages : a[1] \in Senders /\ a[2] \in Nat
  BY DEF Messages
<1>3. QED
  BY <1>1, <1>2 DEF ChainOf

\* The newest loop takes the head of the queue, or an older one does.
LEMMA ChainTake ==
  ASSUME NEW d \in Seq(Messages), NEW w \in Seq(Messages), NEW h \in SUBSET Messages,
         NEW q \in Seq(Messages), NEW n \in [Senders -> Nat], ChainOf(d, w, h, q, n),
         q # <<>>
  PROVE  /\ ChainOf(d, w, h, Tail(q), n)
         /\ h = {} => ChainOf(d, w, {Head(q)}, Tail(q), n)
  BY TailSorted DEF ChainOf, AllPrecede

\* The newest loop sends what it holds.
LEMMA ChainEmit ==
  ASSUME NEW d \in Seq(Messages), NEW w \in Seq(Messages), NEW h \in SUBSET Messages,
         NEW q \in Seq(Messages), NEW n \in [Senders -> Nat], ChainOf(d, w, h, q, n),
         NEW m \in Messages, h = {m}
  PROVE  ChainOf(d, Append(w, m), {}, q, n)
<1>1. Elements(Append(w, m)) = Elements(w) \cup {m}
  BY AppendElements
<1>2. Sorted(Append(w, m))
  BY AppendSorted DEF ChainOf, AllPrecede
<1>3. QED
  BY <1>1, <1>2 DEF ChainOf, AllPrecede

\* What the loop holds is lost, or what is on the wire.
LEMMA ChainLose ==
  ASSUME NEW d \in Seq(Messages), NEW w \in Seq(Messages), NEW h \in SUBSET Messages,
         NEW q \in Seq(Messages), NEW n \in [Senders -> Nat], ChainOf(d, w, h, q, n)
  PROVE  /\ ChainOf(d, w, {}, q, n)
         /\ ChainOf(d, <<>>, h, q, n)
<1>1. Elements(<<>>) = {} /\ Sorted(<<>>)
  BY DEF Elements, Sorted
<1>2. QED
  BY <1>1 DEF ChainOf, AllPrecede

\* The oldest event on the wire arrives.
LEMMA ChainArrive ==
  ASSUME NEW d \in Seq(Messages), NEW w \in Seq(Messages), NEW h \in SUBSET Messages,
         NEW q \in Seq(Messages), NEW n \in [Senders -> Nat], ChainOf(d, w, h, q, n),
         w # <<>>
  PROVE  ChainOf(Append(d, Head(w)), Tail(w), h, q, n)
<1>1. /\ Head(w) \in Messages /\ Sorted(Tail(w))
      /\ Head(w) \in Elements(w) /\ Elements(Tail(w)) \subseteq Elements(w)
      /\ AllPrecede({Head(w)}, Elements(Tail(w)))
  BY TailSorted DEF ChainOf
<1>2. Elements(Append(d, Head(w))) = Elements(d) \cup {Head(w)}
  BY <1>1, AppendElements
<1>3. Sorted(Append(d, Head(w)))
  BY <1>1, AppendSorted DEF ChainOf, AllPrecede
<1>4. QED
  BY <1>1, <1>2, <1>3 DEF ChainOf, AllPrecede

\* Every step moves the events of a sender along, or loses some of them.
LEMMA ChainStep == IInv /\ [Next]_vars => Chain'
<1> SUFFICES ASSUME IInv, [Next]_vars PROVE Chain'
  OBVIOUS
<1>a. /\ delivered \in Seq(Messages) /\ wire \in Seq(Messages) /\ queue \in Seq(Messages)
      /\ next \in [Senders -> Nat] /\ Handed \in SUBSET Messages
      /\ ChainOf(delivered, wire, Handed, queue, next)
  BY DEF IInv, TypeOK, Held, Handed, Chain
<1>b. ASSUME UNCHANGED <<delivered, wire, queue, next>>, Handed' = Handed PROVE Chain'
  BY <1>a, <1>b DEF Chain
<1>1. ASSUME NEW s \in Senders, Begin(s) PROVE Chain'
  BY <1>1, <1>b DEF Begin, Handed, loopVars
<1>2. ASSUME NEW s \in Senders, Put(s) PROVE Chain'
  <2>1. <<s, next[s]>> \in Messages
    BY <1>2, NextMessage DEF Put, IInv
  <2>2. Handed' = Handed
    BY <1>2 DEF Put, Handed, loopVars
  <2>3. QED
    BY <1>2, <1>a, <2>1, <2>2, ChainPut DEF Put, Chain
<1>3. ASSUME NEW s \in Senders, GiveUp(s) PROVE Chain'
  <2>1. Handed' = Handed
    BY <1>3 DEF GiveUp, Handed, loopVars
  <2>2. QED
    BY <1>3, <1>a, <2>1, ChainSkip DEF GiveUp, Chain
<1>4. ASSUME NEW s \in Senders, Count(s) PROVE Chain'
  BY <1>4, <1>b DEF Count, Handed, loopVars
<1>5. ASSUME NEW g \in Loops, Take(g) PROVE Chain'
  <2>1. CASE g = gen
    <3>1. Handed = {} /\ Handed' = {Head(queue)}
      BY <1>5, <2>1 DEF Take, Handed, IInv, TypeOK
    <3>2. QED
      BY <1>5, <1>a, <3>1, ChainTake DEF Take, Chain, senderVars
  <2>2. CASE g # gen
    <3>1. Handed' = Handed
      BY <1>5, <2>2 DEF Take, Handed, IInv, TypeOK
    <3>2. QED
      BY <1>5, <1>a, <3>1, ChainTake DEF Take, Chain, senderVars
  <2>3. QED
    BY <2>1, <2>2
<1>6. ASSUME NEW g \in Loops, CountDown(g) PROVE Chain'
  BY <1>6, <1>b DEF CountDown, Handed, senderVars, IInv, TypeOK
<1>7. ASSUME NEW g \in Loops, Emit(g) PROVE Chain'
  <2>1. CASE g = gen /\ link = "open"
    <3>1. Handed = {hand[g]} /\ hand[g] \in Messages /\ Handed' = {}
      BY <1>7, <2>1 DEF Emit, Handed, Held, IInv, TypeOK
    <3>2. wire' = Append(wire, hand[g]) /\ UNCHANGED <<delivered, queue, next>>
      BY <1>7, <2>1 DEF Emit, senderVars
    <3>3. ChainOf(delivered, Append(wire, hand[g]), {}, queue, next)
      BY <1>a, <2>1, <3>1, ChainEmit
    <3>4. QED
      BY <3>1, <3>2, <3>3 DEF Chain
  <2>2. CASE g = gen /\ link # "open"
    <3>1. Handed' = {}
      BY <1>7, <2>2 DEF Emit, Handed, IInv, TypeOK
    <3>2. QED
      BY <1>7, <1>a, <2>2, <3>1, ChainLose DEF Emit, Chain, senderVars
  <2>3. CASE g # gen
    <3>1. Handed' = Handed
      BY <1>7, <2>3 DEF Emit, Handed, IInv, TypeOK
    <3>2. QED
      BY <1>7, <1>b, <2>3, <3>1 DEF Emit, senderVars
  <2>4. QED
    BY <2>1, <2>2, <2>3
<1>8. ASSUME NEW g \in Loops, LoopEnd(g) PROVE Chain'
  BY <1>8, <1>b DEF LoopEnd, Handed, senderVars, IInv, TypeOK
<1>9. ASSUME Connected PROVE Chain'
  <2>1. Handed' = {}
    BY <1>9 DEF Connected, Handed, IInv, TypeOK
  <2>2. QED
    BY <1>9, <1>a, <2>1, ChainLose DEF Connected, Chain, senderVars
<1>10. ASSUME Drop \/ Return PROVE Chain'
  <2>1. Handed' = Handed
    BY <1>10 DEF Drop, Return, Handed, loopVars
  <2>2. QED
    BY <1>10, <1>a, <2>1, ChainLose DEF Drop, Return, Chain, senderVars
<1>11. ASSUME Arrive PROVE Chain'
  <2>1. Handed' = Handed
    BY <1>11 DEF Arrive, Handed, loopVars
  <2>2. QED
    BY <1>11, <1>a, <2>1, ChainArrive DEF Arrive, Chain, senderVars
<1>12. ASSUME Shutdown PROVE Chain'
  BY <1>12, <1>b DEF Shutdown, Handed, senderVars
<1>13. ASSUME UNCHANGED vars PROVE Chain'
  BY <1>13, <1>b DEF vars, Handed, senderVars, loopVars
<1>14. QED
  BY <1>1, <1>2, <1>3, <1>4, <1>5, <1>6, <1>7, <1>8, <1>9, <1>10, <1>11, <1>12, <1>13
     DEF Next, SenderStep, LoopStep

-------------------------------------------------------------------------------
\* Nothing has been enqueued and no connection made.
LEMMA Starts == Init => IInv
<1> SUFFICES ASSUME Init PROVE IInv
  OBVIOUS
<1>1. TypeOK
  <2>1. queue \in Seq(Messages) /\ wire \in Seq(Messages) /\ delivered \in Seq(Messages)
    BY EmptySeq DEF Init
  <2>2. next \in [Senders -> 1..MaxMessages + 1]
    BY QueueAssumption DEF Init
  <2>3. hand \in [Loops -> Messages \cup {Nothing}] /\ loop \in [Loops -> LoopPoints]
    BY DEF Init, LoopPoints
  <2>4. pc \in [Senders -> {"idle", "putting", "counting"}]
    BY DEF Init
  <2>5. gen \in 0..MaxConnections /\ depth \in Int /\ maxDepth \in Nat
    BY QueueAssumption DEF Init
  <2>6. /\ down \in BOOLEAN /\ link \in {"none", "open", "closed"}
        /\ cancelled \subseteq Loops /\ lost \subseteq Messages
    BY DEF Init
  <2>7. QED
    BY <2>1, <2>2, <2>3, <2>4, <2>5, <2>6 DEF TypeOK
<1>2. Numbered /\ Held /\ Pending
  BY QueueAssumption DEF Init, Numbered, Held, Pending
<1>3. DepthExact
  <2>1. Cardinality(Puts) = 0 /\ Cardinality(Takes) = 0 /\ Len(queue) = 0
    BY FS_EmptySet, EmptySeq DEF Init, Puts, Takes
  <2>2. QED
    BY <2>1 DEF Init, DepthExact, Puts, Takes
<1>4. Chain
  <2>1. Elements(<<>>) = {} /\ Sorted(<<>>)
    BY DEF Elements, Sorted
  <2>2. Handed = {}
    BY DEF Init, Handed
  <2>3. QED
    BY <2>1, <2>2 DEF Init, Chain, ChainOf, AllPrecede
<1>5. QED
  BY <1>1, <1>2, <1>3, <1>4 DEF IInv

\* IInv always holds: where each event of a sender is, from the queue to the
\* platform, with the loops that come and go and the counter beside the channel.
THEOREM Invariance == Spec => []IInv
<1>1. IInv /\ [Next]_vars => IInv'
  BY TypeStep, NumberedStep, HeldStep, PendingStep, DepthStep, ChainStep DEF IInv
<1>2. QED
  BY Starts, <1>1, PTL DEF Spec

\* The variables keep their types (client.go:49, the fields of Service).
THEOREM TypeCorrect == Spec => []TypeOK
<1>1. IInv => TypeOK
  BY DEF IInv
<1>2. QED
  BY Invariance, <1>1, PTL

\* The counter misses the channel's length by the updates under way and no more.
THEOREM DepthMatchesChannel == Spec => []DepthExact
<1>1. IInv => DepthExact
  BY DEF IInv
<1>2. QED
  BY Invariance, <1>1, PTL

\* Each sender's events arrive in order and at most once, however many write loops
\* of broken connections still take from the channel.
THEOREM ArrivesInOrder == Spec => []InOrder
<1>1. IInv => InOrder
  BY DEF IInv, Chain, ChainOf, Sorted, Precedes, InOrder
<1>2. QED
  BY Invariance, <1>1, PTL

===============================================================================
