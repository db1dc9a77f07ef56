-------------------------- MODULE EventRelayProofs --------------------------
(***************************************************************************)
(* Machine-checked proofs about what readers are given while others write: *)
(* EventRelay, for any number of readers, any channel capacity and any     *)
(* number of events, and, in the second part, LogHub, for any adders,      *)
(* clients, entries and buffers.                                           *)
(***************************************************************************)
EXTENDS EventRelay, LogHub, SequenceTheorems, FiniteSetTheorems,
        NaturalsInduction, WellFoundedInduction, TLAPS

(* The cursors of a stream stay inside the buffer, a stream not opened has *)
(* delivered nothing, and one about to send holds an event of the buffer.  *)
Cursors ==
    /\ doneLen <= Len(events)
    /\ \A r \in Readers :
         /\ idx[r] <= Len(events)
         /\ start[r] <= Sent(r)
         /\ pc[r] = "unopened" => idx[r] = 0 /\ start[r] = 0
         /\ pc[r] = "send" => idx[r] > start[r]

IInv == TypeOK /\ Cursors /\ DeliveredInOrder /\ StopsAtUserInput /\ ClosedSawAll

(* What one event does to the heartbeat state keeps its type. *)
LEMMA DepthType == ASSUME PumpTypeOK, NEW t PROVE DepthAfter(t) \in Nat
BY DEF PumpTypeOK, DepthAfter

LEMMA TickerType == ASSUME PumpTypeOK, NEW t PROVE TickerAfter(t) \in BOOLEAN
<1>1. ticker \in BOOLEAN /\ (HeartbeatInterval > 0) \in BOOLEAN
  BY RelayAssumption DEF PumpTypeOK
<1> QED
  BY <1>1, Zenon DEF TickerAfter

(* Every variable keeps its type whatever step is taken; a stream only     *)
(* sends events of the buffer because its cursor lies inside it.           *)
LEMMA TypeStep == TypeOK /\ Cursors /\ [Next]_vars => TypeOK'
<1> SUFFICES ASSUME TypeOK, Cursors, [Next]_vars PROVE TypeOK'
  OBVIOUS
<1>t. RelayTypeOK /\ PumpTypeOK /\ ReaderTypeOK
  BY DEF TypeOK
<1>r. UNCHANGED relayVars => RelayTypeOK'
  BY <1>t DEF RelayTypeOK, relayVars
<1>p. UNCHANGED pumpVars => PumpTypeOK'
  BY <1>t DEF PumpTypeOK, pumpVars
<1>s. UNCHANGED readerVars => ReaderTypeOK'
  BY <1>t DEF ReaderTypeOK, readerVars
<1>a. ASSUME NEW e \in Event, AppendEvent(e) PROVE RelayTypeOK' /\ pumpPC' = "notify"
  BY <1>a, <1>t DEF AppendEvent, RelayTypeOK
<1>d. ASSUME NEW c \in Closers, MarkSourceDone(c), cancelled' \in BOOLEAN PROVE RelayTypeOK'
  BY <1>d, <1>t DEF MarkSourceDone, RelayTypeOK
<1>1. ASSUME NEW t \in AgentTypes, PumpReceive(t) PROVE TypeOK'
  <2>1. [type |-> t, n |-> emitted + 1] \in Event
    BY <1>t, RelayAssumption DEF Event, EventTypes, PumpTypeOK
  <2>2. RelayTypeOK' /\ pumpPC' = "notify"
    BY <1>1, <1>a, <2>1 DEF PumpReceive
  <2>3. toolDepth' \in Nat /\ ticker' \in BOOLEAN
    BY <1>1, <1>t, DepthType, TickerType, Zenon DEF PumpReceive
  <2>4. emitted' \in Nat /\ beats' \in Nat
    BY <1>1, <1>t DEF PumpReceive, PumpTypeOK
  <2>5. waiting' \in BOOLEAN
    BY <1>1, Zenon DEF PumpReceive
  <2>6. UNCHANGED readerVars
    BY <1>1 DEF PumpReceive
  <2> QED
    BY <2>2, <2>3, <2>4, <2>5, <2>6, <1>s DEF TypeOK, PumpTypeOK
<1>2. CASE PumpTick
  <2>1. [type |-> "progress", n |-> emitted] \in Event
    BY <1>t DEF Event, EventTypes, PumpTypeOK
  <2>2. RelayTypeOK' /\ pumpPC' = "notify"
    BY <1>2, <1>a, <2>1 DEF PumpTick
  <2>3. beats' \in Nat /\ UNCHANGED <<toolDepth, ticker, emitted, waiting, readerVars>>
    BY <1>2, <1>t DEF PumpTick, PumpTypeOK
  <2> QED
    BY <2>2, <2>3, <1>s, <1>t DEF TypeOK, PumpTypeOK
<1>3. CASE PumpSourceClosed
  <2>1. RelayTypeOK'
    BY <1>3, <1>d, <1>t DEF PumpSourceClosed, Closers, RelayTypeOK
  <2>2. PumpTypeOK' /\ UNCHANGED readerVars
    BY <1>3, <1>t DEF PumpSourceClosed, PumpTypeOK
  <2> QED
    BY <2>1, <2>2, <1>s DEF TypeOK
<1>4. CASE CancelMarksDone
  <2>1. RelayTypeOK'
    BY <1>4, <1>d DEF CancelMarksDone, Closers
  <2> QED
    BY <1>4, <2>1, <1>p, <1>s DEF TypeOK, CancelMarksDone
<1>5. CASE Respond
  <2>1. PumpTypeOK'
    BY <1>5, <1>t DEF Respond, PumpTypeOK
  <2> QED
    BY <1>5, <2>1, <1>r, <1>s DEF TypeOK, Respond
<1>6. CASE PumpNotify
  <2>1. RelayTypeOK' /\ PumpTypeOK'
    BY <1>6, <1>t DEF PumpNotify, RelayTypeOK, PumpTypeOK
  <2> QED
    BY <1>6, <2>1, <1>s DEF TypeOK, PumpNotify
<1>7. ASSUME NEW c \in Closers, CloseDone(c) PROVE TypeOK'
  <2>1. RelayTypeOK'
    BY <1>7, <1>t DEF CloseDone, RelayTypeOK
  <2> QED
    BY <1>7, <2>1, <1>p, <1>s DEF TypeOK, CloseDone
<1>8. ASSUME NEW r \in Readers, NEW from \in 0..Len(events), Open(r, from) PROVE TypeOK'
  <2>0. from \in Nat
    BY <1>t DEF RelayTypeOK
  <2>1. ReaderTypeOK'
    BY <1>8, <2>0, <1>t DEF Open, ReaderTypeOK
  <2> QED
    BY <1>8, <2>1, <1>r, <1>p DEF TypeOK, Open
<1>9. ASSUME NEW r \in Readers, Check(r) PROVE TypeOK'
  <2>2. ASSUME idx[r] < Len(events) PROVE ReaderTypeOK'
    <3>1. idx' = [idx EXCEPT ![r] = idx[r] + 1] /\ pc' = [pc EXCEPT ![r] = "send"]
      BY <1>9, <2>2 DEF Check
    <3>2. idx[r] + 1 \in Nat
      BY <1>t DEF ReaderTypeOK
    <3> QED
      BY <1>9, <3>1, <3>2, <1>t DEF Check, ReaderTypeOK
  <2>3. ASSUME ~(idx[r] < Len(events)) PROVE ReaderTypeOK'
    <3>1. pc' = [pc EXCEPT ![r] = "closed"] \/ pc' = [pc EXCEPT ![r] = "wait"]
      BY <1>9, <2>3 DEF Check
    <3> QED
      BY <1>9, <2>3, <3>1, <1>t DEF Check, ReaderTypeOK
  <2>1. ReaderTypeOK'
    BY <2>2, <2>3
  <2> QED
    BY <1>9, <2>1, <1>r, <1>p DEF TypeOK, Check
<1>10. ASSUME NEW r \in Readers, Send(r) PROVE TypeOK'
  <2>1. events[idx[r]] \in Event
    BY <1>10, <1>t DEF Send, Cursors, Sent, RelayTypeOK, ReaderTypeOK
  <2>2. ReaderTypeOK'
    BY <1>10, <2>1, <1>t DEF Send, ReaderTypeOK
  <2> QED
    BY <1>10, <2>2, <1>r, <1>p DEF TypeOK, Send
<1>11. ASSUME NEW r \in Readers, WakeByNotify(r) PROVE TypeOK'
  <2>1. ReaderTypeOK' /\ RelayTypeOK'
    BY <1>11, <1>t DEF WakeByNotify, ReaderTypeOK, RelayTypeOK
  <2> QED
    BY <1>11, <2>1, <1>p DEF TypeOK, WakeByNotify
<1>12. ASSUME NEW r \in Readers, WakeByDone(r) PROVE TypeOK'
  <2>1. ReaderTypeOK'
    BY <1>12, <1>t DEF WakeByDone, ReaderTypeOK
  <2> QED
    BY <1>12, <2>1, <1>r, <1>p DEF TypeOK, WakeByDone
<1>13. ASSUME NEW r \in Readers, Receive(r) PROVE TypeOK'
  <2>1. Head(chan[r]) \in Event /\ Tail(chan[r]) \in Seq(Event)
    BY <1>13, <1>t DEF Receive, ReaderTypeOK
  <2>2. ReaderTypeOK'
    BY <1>13, <2>1, <1>t DEF Receive, ReaderTypeOK
  <2> QED
    BY <1>13, <2>2, <1>r, <1>p DEF TypeOK, Receive
<1>14. ASSUME NEW r \in Readers, Abandon(r) PROVE TypeOK'
  <2>1. ReaderTypeOK'
    BY <1>14, <1>t DEF Abandon, ReaderTypeOK
  <2> QED
    BY <1>14, <2>1, <1>r, <1>p DEF TypeOK, Abandon
<1>15. CASE UNCHANGED vars
  BY <1>15, <1>r, <1>p, <1>s DEF TypeOK, vars
<1> QED
  BY <1>1, <1>2, <1>3, <1>4, <1>5, <1>6, <1>7, <1>8, <1>9, <1>10, <1>11, <1>12,
     <1>13, <1>14, <1>15 DEF Next, PumpStep, ReaderStep

(* What the steps of a stream do to a delivery, on plain sequences. *)
LEMMA DeliveryStart ==
    ASSUME NEW b, NEW g \in Seq(Event), NEW c \in Seq(Event), NEW from \in Nat,
           IsDelivery(b, 0, 0, g, c)
    PROVE  IsDelivery(b, from, from, g, c)
<1>1. Len(g) = 0 /\ Len(c) = 0
  BY DEF IsDelivery
<1> QED
  BY <1>1 DEF IsDelivery

LEMMA DeliverySend ==
    ASSUME NEW b \in Seq(Event), NEW g \in Seq(Event), NEW c \in Seq(Event),
           NEW s \in Nat, NEW n \in Nat, n + 1 <= Len(b),
           IsDelivery(b, s, n, g, c)
    PROVE  IsDelivery(b, s, n + 1, g, Append(c, b[n + 1]))
<1>1. b[n + 1] \in Event /\ Len(Append(c, b[n + 1])) = Len(c) + 1
  OBVIOUS
<1>2. n + 1 = s + Len(g) + (Len(c) + 1)
  BY DEF IsDelivery
<1>3. ASSUME NEW i \in 1..(Len(c) + 1)
      PROVE  Append(c, b[n + 1])[i] = b[s + Len(g) + i]
  <2>1. CASE i = Len(c) + 1
    BY <1>1, <1>2, <2>1
  <2>2. CASE i \in 1..Len(c)
    BY <1>1, <2>2 DEF IsDelivery
  <2> QED
    BY <2>1, <2>2
<1> QED
  BY <1>1, <1>2, <1>3 DEF IsDelivery

LEMMA DeliveryReceive ==
    ASSUME NEW b, NEW g \in Seq(Event), NEW c \in Seq(Event), c # <<>>,
           NEW s \in Nat, NEW n \in Nat, IsDelivery(b, s, n, g, c)
    PROVE  IsDelivery(b, s, n, Append(g, Head(c)), Tail(c))
<1>1. /\ Len(c) > 0 /\ Head(c) = c[1] /\ Head(c) \in Event
      /\ Len(Append(g, Head(c))) = Len(g) + 1 /\ Len(Tail(c)) = Len(c) - 1
  OBVIOUS
<1>2. c[1] = b[s + (Len(g) + 1)]
  BY <1>1 DEF IsDelivery
<1>3. ASSUME NEW i \in 1..(Len(g) + 1) PROVE Append(g, Head(c))[i] = b[s + i]
  <2>1. CASE i = Len(g) + 1
    BY <1>1, <1>2, <2>1
  <2>2. CASE i \in 1..Len(g)
    BY <1>1, <2>2 DEF IsDelivery
  <2> QED
    BY <2>1, <2>2
<1>4. ASSUME NEW i \in 1..(Len(c) - 1) PROVE Tail(c)[i] = b[s + (Len(g) + 1) + i]
  <2>1. Tail(c)[i] = c[i + 1] /\ i + 1 \in 1..Len(c)
    BY <1>1
  <2>2. s + (Len(g) + 1) + i = s + Len(g) + (i + 1)
    OBVIOUS
  <2> QED
    BY <2>1, <2>2 DEF IsDelivery
<1> QED
  BY <1>1, <1>3, <1>4 DEF IsDelivery

LEMMA DeliveryGrows ==
    ASSUME NEW b \in Seq(Event), NEW b2 \in Seq(Event), NEW g \in Seq(Event),
           NEW c \in Seq(Event), NEW s \in Nat, NEW n \in Nat, n <= Len(b),
           \A i \in 1..Len(b) : b2[i] = b[i], IsDelivery(b, s, n, g, c)
    PROVE  IsDelivery(b2, s, n, g, c)
<1>1. \A i \in 1..Len(g) : s + i \in 1..Len(b)
  BY DEF IsDelivery
<1>2. \A i \in 1..Len(c) : s + Len(g) + i \in 1..Len(b)
  BY DEF IsDelivery
<1> QED
  BY <1>1, <1>2 DEF IsDelivery

(* Steps of the pump and of the callers of markSourceDone only ever extend *)
(* the buffer, and fix doneLen once.                                       *)
BufferGrows ==
    /\ Len(events') >= Len(events)
    /\ \A i \in 1..Len(events) : events'[i] = events[i]
    /\ sourceDone => sourceDone' /\ doneLen' = doneLen
    /\ doneLen' <= Len(events')

(* A step that extends the buffer and touches no reader keeps IInv. *)
LEMMA GrowStep ==
    ASSUME IInv, TypeOK', UNCHANGED readerVars, BufferGrows
    PROVE  IInv'
<1>t. /\ \A r \in Readers : idx[r] \in Nat /\ start[r] \in Nat /\ Sent(r) \in Int
      /\ \A r \in Readers : chan[r] \in Seq(Event) /\ got[r] \in Seq(Event)
      /\ Len(events) \in Nat /\ Len(events') \in Nat
  BY DEF IInv, TypeOK, ReaderTypeOK, RelayTypeOK, Sent
<1>u. UNCHANGED <<pc, idx, start, chan, got, gone>>
  BY DEF readerVars
<1>s. \A r \in Readers : Sent(r)' = Sent(r)
  BY <1>u DEF Sent
<1>k. \A r \in Readers : Sent(r) <= Len(events)
  BY <1>t DEF IInv, Cursors, Sent
<1>1. Cursors'
  BY <1>t, <1>u, <1>s DEF IInv, Cursors, BufferGrows
<1>2. DeliveredInOrder'
  <2> SUFFICES ASSUME NEW r \in Readers
               PROVE  IsDelivery(events', start[r], Sent(r), got[r], chan[r])
    BY <1>u, <1>s DEF DeliveredInOrder
  <2>1. IsDelivery(events, start[r], Sent(r), got[r], chan[r])
    BY DEF IInv, DeliveredInOrder
  <2>2. Sent(r) \in Nat /\ events \in Seq(Event) /\ events' \in Seq(Event)
    BY <1>t DEF IInv, Cursors, TypeOK, RelayTypeOK
  <2> QED
    BY <2>1, <2>2, <1>t, <1>k, DeliveryGrows DEF BufferGrows
<1>3. StopsAtUserInput'
  <2> SUFFICES ASSUME NEW r \in StopOnUserInput, NEW i \in (start[r] + 1)..Sent(r),
                      events'[i].type = "user_input"
               PROVE  i = Sent(r) /\ pc[r] = "closed"
    BY <1>u, <1>s, RelayAssumption DEF StopsAtUserInput
  <2>1. r \in Readers
    BY RelayAssumption
  <2>2. i \in 1..Len(events)
    BY <2>1, <1>t, <1>k
  <2> QED
    BY <2>1, <2>2 DEF BufferGrows, IInv, StopsAtUserInput
<1>4. ClosedSawAll'
  <2> SUFFICES ASSUME NEW r \in Readers, pc[r] = "closed"
               PROVE  \/ sourceDone' /\ idx[r] >= doneLen'
                      \/ r \in StopOnUserInput /\ idx[r] > start[r] /\ events'[idx[r]].type = "user_input"
    BY <1>u DEF ClosedSawAll
  <2>1. \/ sourceDone /\ idx[r] >= doneLen
        \/ r \in StopOnUserInput /\ idx[r] > start[r] /\ events[idx[r]].type = "user_input"
    BY DEF IInv, ClosedSawAll
  <2>2. idx[r] > start[r] => idx[r] \in 1..Len(events)
    BY <1>t DEF IInv, Cursors
  <2> QED
    BY <2>1, <2>2 DEF BufferGrows
<1> QED
  BY <1>1, <1>2, <1>3, <1>4 DEF IInv

(* The per-reader part of IInv. *)
ReaderInv(r) ==
    /\ idx[r] <= Len(events) /\ start[r] <= Sent(r)
    /\ pc[r] = "unopened" => idx[r] = 0 /\ start[r] = 0
    /\ pc[r] = "send" => idx[r] > start[r]
    /\ IsDelivery(events, start[r], Sent(r), got[r], chan[r])
    /\ r \in StopOnUserInput =>
         \A i \in (start[r] + 1)..Sent(r) :
            events[i].type = "user_input" => i = Sent(r) /\ pc[r] = "closed"
    /\ pc[r] = "closed" =>
         \/ sourceDone /\ idx[r] >= doneLen
         \/ r \in StopOnUserInput /\ idx[r] > start[r] /\ events[idx[r]].type = "user_input"

LEMMA Split == IInv <=> TypeOK /\ doneLen <= Len(events) /\ \A r \in Readers : ReaderInv(r)
BY RelayAssumption
   DEF IInv, Cursors, DeliveredInOrder, StopsAtUserInput, ClosedSawAll, ReaderInv

(* What a reader needs of the types. *)
LEMMA ReaderTypes ==
    ASSUME TypeOK, NEW r \in Readers
    PROVE  /\ idx[r] \in Nat /\ start[r] \in Nat /\ Sent(r) \in Int
           /\ Len(events) \in Nat /\ doneLen \in Nat
           /\ chan[r] \in Seq(Event) /\ got[r] \in Seq(Event)
           /\ Len(chan[r]) \in Nat /\ Len(got[r]) \in Nat
           /\ r \in DOMAIN pc /\ r \in DOMAIN idx /\ r \in DOMAIN start
           /\ r \in DOMAIN chan /\ r \in DOMAIN got
BY DEF TypeOK, ReaderTypeOK, RelayTypeOK, Sent

(* A reader no variable of which changes keeps its invariant. *)
LEMMA OtherReader ==
    ASSUME NEW q \in Readers, ReaderInv(q),
           events' = events, sourceDone' = sourceDone, doneLen' = doneLen,
           pc'[q] = pc[q], idx'[q] = idx[q], start'[q] = start[q],
           chan'[q] = chan[q], got'[q] = got[q]
    PROVE  ReaderInv(q)'
<1>1. Sent(q)' = Sent(q)
  BY DEF Sent
<1> QED
  BY <1>1 DEF ReaderInv

(* Steps of a reader, or of its consumer, keep IInv. *)
LEMMA ReaderKeeps ==
    ASSUME IInv, TypeOK', NEW r \in Readers,
           (\E from \in 0..Len(events) : Open(r, from)) \/ ReaderStep(r) \/ Receive(r) \/ Abandon(r)
    PROVE  IInv'
<1>i. TypeOK /\ doneLen <= Len(events) /\ \A q \in Readers : ReaderInv(q)
  BY Split
<1>u. events' = events /\ sourceDone' = sourceDone /\ doneLen' = doneLen
  BY DEF Open, ReaderStep, Check, Send, WakeByNotify, WakeByDone, Receive, Abandon, relayVars
<1>o. ASSUME NEW q \in Readers, q # r PROVE ReaderInv(q)'
  <2>1. /\ pc'[q] = pc[q] /\ idx'[q] = idx[q] /\ start'[q] = start[q]
        /\ chan'[q] = chan[q] /\ got'[q] = got[q]
    BY <1>i, <1>o
       DEF Open, ReaderStep, Check, Send, WakeByNotify, WakeByDone, Receive, Abandon,
           TypeOK, ReaderTypeOK
  <2> QED
    BY <1>i, <1>u, <2>1, OtherReader
<1>t. /\ idx[r] \in Nat /\ start[r] \in Nat /\ Sent(r) \in Int
      /\ Len(events) \in Nat /\ doneLen \in Nat
      /\ chan[r] \in Seq(Event) /\ got[r] \in Seq(Event)
      /\ Len(chan[r]) \in Nat /\ Len(got[r]) \in Nat
  BY <1>i, ReaderTypes
<1>f. /\ pc \in [Readers -> {"unopened", "check", "send", "wait", "closed"}]
      /\ idx \in [Readers -> Nat] /\ start \in [Readers -> Nat]
      /\ chan \in [Readers -> Seq(Event)] /\ got \in [Readers -> Seq(Event)]
  BY <1>i DEF TypeOK, ReaderTypeOK
<1>g. ReaderInv(r)
  BY <1>i
<1>1. ASSUME NEW from \in 0..Len(events), Open(r, from) PROVE ReaderInv(r)'
  <2>1. pc'[r] = "check" /\ idx'[r] = from /\ start'[r] = from /\ from \in Nat /\ from <= Len(events)
    BY <1>1, <1>f, <1>t DEF Open
  <2>2. chan'[r] = chan[r] /\ got'[r] = got[r]
    BY <1>1 DEF Open
  <2>3. Sent(r)' = from
    BY <2>1 DEF Sent
  <2>4. IsDelivery(events, 0, 0, got[r], chan[r])
    BY <1>1, <1>g, <1>t DEF Open, Sent, ReaderInv
  <2>5. IsDelivery(events, from, from, got[r], chan[r])
    BY <2>4, <2>1, <1>t, DeliveryStart
  <2> QED
    BY <2>1, <2>2, <2>3, <2>5, <1>u DEF ReaderInv
<1>2. ASSUME Check(r) PROVE ReaderInv(r)'
  <2>0. /\ pc[r] = "check" /\ Sent(r) = idx[r]
        /\ start'[r] = start[r] /\ chan'[r] = chan[r] /\ got'[r] = got[r]
    BY <1>2, <1>t DEF Check, Sent
  <2>1. ASSUME idx[r] < Len(events) PROVE ReaderInv(r)'
    <3>1. idx'[r] = idx[r] + 1 /\ pc'[r] = "send"
      BY <1>2, <2>1, <1>f DEF Check
    <3>2. Sent(r)' = Sent(r)
      BY <3>1, <2>0, <1>t DEF Sent
    <3> QED
      BY <3>1, <3>2, <2>0, <2>1, <1>g, <1>t, <1>u DEF ReaderInv
  <2>2. ASSUME ~(idx[r] < Len(events)) PROVE ReaderInv(r)'
    <3>1. /\ idx'[r] = idx[r]
          /\ (pc'[r] = "closed" /\ sourceDone) \/ pc'[r] = "wait"
      BY <1>2, <2>2, <1>f DEF Check
    <3>2. Sent(r)' = Sent(r)
      BY <3>1, <2>0, <1>t DEF Sent
    <3>3. idx[r] >= doneLen
      BY <2>2, <1>t, <1>i
    <3>4. r \in StopOnUserInput =>
            \A i \in (start[r] + 1)..Sent(r) : events[i].type # "user_input"
      BY <2>0, <1>g DEF ReaderInv
    <3> QED
      BY <3>1, <3>2, <3>3, <3>4, <2>0, <1>g, <1>u DEF ReaderInv
  <2> QED
    BY <2>1, <2>2
<1>3. ASSUME Send(r) PROVE ReaderInv(r)'
  <2>0. /\ pc[r] = "send" /\ Sent(r) = idx[r] - 1
        /\ idx'[r] = idx[r] /\ start'[r] = start[r] /\ got'[r] = got[r]
        /\ chan'[r] = Append(chan[r], events[idx[r]])
    BY <1>3, <1>f DEF Send, Sent
  <2>1. \/ pc'[r] = "closed" /\ r \in StopOnUserInput /\ events[idx[r]].type = "user_input"
        \/ pc'[r] = "check" /\ ~(r \in StopOnUserInput /\ events[idx[r]].type = "user_input")
    BY <1>3, <1>f DEF Send
  <2>2. Sent(r)' = idx[r] /\ idx[r] > start[r]
    BY <2>0, <2>1, <1>g, <1>t DEF Sent, ReaderInv
  <2>3. events[idx[r]] \in Event
    BY <1>i, <1>g, <2>2, <1>t DEF TypeOK, RelayTypeOK, ReaderInv
  <2>4. Sent(r) \in Nat /\ idx[r] = Sent(r) + 1 /\ idx[r] <= Len(events)
    BY <2>0, <2>2, <1>t, <1>g DEF ReaderInv
  <2>5. IsDelivery(events, start[r], idx[r], got[r], chan'[r])
    <3>1. IsDelivery(events, start[r], Sent(r), got[r], chan[r]) /\ events \in Seq(Event)
      BY <1>g, <1>i DEF ReaderInv, TypeOK, RelayTypeOK
    <3>2. IsDelivery(events, start[r], Sent(r) + 1, got[r], Append(chan[r], events[Sent(r) + 1]))
      BY <3>1, <2>4, <1>t, DeliverySend
    <3> QED
      BY <3>2, <2>0, <2>4
  <2>8. r \in StopOnUserInput =>
          \A i \in (start[r] + 1)..idx[r] :
            events[i].type = "user_input" => i = idx[r] /\ pc'[r] = "closed"
    <3> SUFFICES ASSUME r \in StopOnUserInput, NEW i \in (start[r] + 1)..idx[r],
                        events[i].type = "user_input"
                 PROVE  i = idx[r] /\ pc'[r] = "closed"
      OBVIOUS
    <3>1. ~(i \in (start[r] + 1)..Sent(r))
      BY <1>g, <2>0 DEF ReaderInv
    <3>2. i = idx[r]
      BY <3>1, <2>0, <1>t
    <3> QED
      BY <3>2, <2>1
  <2>10. pc'[r] # "unopened" /\ pc'[r] # "send"
    BY <2>1
  <2> QED
    BY <2>0, <2>1, <2>2, <2>4, <2>5, <2>8, <2>10, <1>g, <1>t, <1>u DEF ReaderInv
<1>4. ASSUME WakeByNotify(r) \/ WakeByDone(r) PROVE ReaderInv(r)'
  <2>1. /\ pc[r] = "wait" /\ pc'[r] = "check" /\ idx'[r] = idx[r] /\ start'[r] = start[r]
        /\ chan'[r] = chan[r] /\ got'[r] = got[r]
    BY <1>4, <1>f DEF WakeByNotify, WakeByDone
  <2>2. Sent(r)' = Sent(r)
    BY <2>1 DEF Sent
  <2> QED
    BY <2>1, <2>2, <1>g, <1>u DEF ReaderInv
<1>5. ASSUME Receive(r) PROVE ReaderInv(r)'
  <2>0. /\ pc'[r] = pc[r] /\ idx'[r] = idx[r] /\ start'[r] = start[r]
        /\ got'[r] = Append(got[r], Head(chan[r])) /\ chan'[r] = Tail(chan[r])
        /\ chan[r] # <<>>
    BY <1>5, <1>f DEF Receive
  <2>1. Sent(r)' = Sent(r)
    BY <2>0 DEF Sent
  <2>2. Sent(r) \in Nat
    BY <1>g, <1>t DEF ReaderInv
  <2>3. IsDelivery(events, start[r], Sent(r), got'[r], chan'[r])
    BY <2>0, <2>2, <1>t, <1>g, DeliveryReceive DEF ReaderInv
  <2> QED
    BY <2>0, <2>1, <2>3, <1>g, <1>u DEF ReaderInv
<1>6. ASSUME Abandon(r) PROVE ReaderInv(r)'
  BY <1>6, <1>g, <1>u, OtherReader DEF Abandon
<1>7. ReaderInv(r)'
  BY <1>1, <1>2, <1>3, <1>4, <1>5, <1>6 DEF ReaderStep
<1>8. doneLen' <= Len(events')
  BY <1>i, <1>u
<1>9. \A q \in Readers : ReaderInv(q)'
  BY <1>o, <1>7
<1> QED
  BY <1>8, <1>9, RelayAssumption
     DEF IInv, Cursors, DeliveredInOrder, StopsAtUserInput, ClosedSawAll, ReaderInv

LEMMA InitInv == Init => IInv
<1> SUFFICES ASSUME Init PROVE IInv
  OBVIOUS
<1>1. TypeOK
  <2>3. <<>> \in Seq(Event)
    OBVIOUS
  <2>1. RelayTypeOK
    BY <2>3 DEF Init, RelayTypeOK
  <2>2. PumpTypeOK
    BY DEF Init, PumpTypeOK
  <2>4. ReaderTypeOK
    BY <2>3 DEF Init, ReaderTypeOK
  <2> QED
    BY <2>1, <2>2, <2>4 DEF TypeOK
<1>2. \A r \in Readers : idx[r] = 0 /\ start[r] = 0 /\ Sent(r) = 0 /\ pc[r] = "unopened"
  BY DEF Init, Sent
<1>3. \A r \in Readers : IsDelivery(events, 0, 0, got[r], chan[r])
  BY DEF Init, IsDelivery
<1> QED
  BY <1>1, <1>2, <1>3, RelayAssumption
     DEF IInv, Cursors, DeliveredInOrder, StopsAtUserInput, ClosedSawAll, Init

(* Every step keeps the inductive invariant. *)
LEMMA StepInv == IInv /\ [Next]_vars => IInv'
<1> SUFFICES ASSUME IInv, [Next]_vars PROVE IInv'
  OBVIOUS
<1>t. TypeOK /\ TypeOK' /\ doneLen <= Len(events)
  BY TypeStep DEF IInv, Cursors
<1>e. events \in Seq(Event) /\ Len(events) \in Nat
  BY <1>t DEF TypeOK, RelayTypeOK
<1>a. ASSUME NEW e \in Event, AppendEvent(e) PROVE BufferGrows
  <2>1. Len(events') = Len(events) + 1 /\ \A i \in 1..Len(events) : events'[i] = events[i]
    BY <1>a, <1>e DEF AppendEvent
  <2>2. doneLen' = doneLen /\ sourceDone' = sourceDone /\ doneLen \in Nat
    BY <1>a, <1>t DEF AppendEvent, TypeOK, RelayTypeOK
  <2> QED
    BY <2>1, <2>2, <1>t, <1>e DEF BufferGrows
<1>d. ASSUME NEW c, MarkSourceDone(c) PROVE BufferGrows
  BY <1>d, <1>t, <1>e DEF MarkSourceDone, BufferGrows
<1>u. ASSUME UNCHANGED <<events, sourceDone, doneLen>> PROVE BufferGrows
  BY <1>u, <1>t, <1>e DEF BufferGrows
<1>1. ASSUME NEW t \in AgentTypes, PumpReceive(t) PROVE IInv'
  <2>1. [type |-> t, n |-> emitted + 1] \in Event
    BY <1>t, RelayAssumption DEF Event, EventTypes, TypeOK, PumpTypeOK
  <2> QED
    BY <1>1, <2>1, <1>a, <1>t, GrowStep DEF PumpReceive
<1>2. CASE PumpTick
  <2>1. [type |-> "progress", n |-> emitted] \in Event
    BY <1>t DEF Event, EventTypes, TypeOK, PumpTypeOK
  <2> QED
    BY <1>2, <2>1, <1>a, <1>t, GrowStep DEF PumpTick
<1>3. CASE PumpSourceClosed
  BY <1>3, <1>d, <1>t, GrowStep DEF PumpSourceClosed
<1>4. CASE CancelMarksDone
  BY <1>4, <1>d, <1>t, GrowStep DEF CancelMarksDone
<1>5. CASE Respond
  BY <1>5, <1>u, <1>t, GrowStep DEF Respond, relayVars
<1>6. CASE PumpStep
  BY <1>6, <1>u, <1>t, GrowStep DEF PumpStep, PumpNotify, CloseDone
<1>7. CASE \E r \in Readers : \/ \E from \in 0..Len(events) : Open(r, from)
                              \/ ReaderStep(r) \/ Receive(r) \/ Abandon(r)
  BY <1>7, <1>t, ReaderKeeps
<1>8. CASE UNCHANGED vars
  BY <1>8, <1>u, <1>t, GrowStep DEF vars, relayVars
<1> QED
  BY <1>1, <1>2, <1>3, <1>4, <1>5, <1>6, <1>7, <1>8 DEF Next

(* The relay's state is well typed in every behaviour. *)
THEOREM TypeCorrect == Spec => []TypeOK
BY InitInv, StepInv, PTL DEF Spec, IInv

(* Every consumer receives exactly the buffer from its start index on, in  *)
(* order, however many readers share the relay and whichever of them takes *)
(* a wakeup.                                                               *)
THEOREM DeliveryCorrect == Spec => []DeliveredInOrder
BY InitInv, StepInv, PTL DEF Spec, IInv

(* A stream that stops on user input delivers nothing beyond the request. *)
THEOREM StopCorrect == Spec => []StopsAtUserInput
BY InitInv, StepInv, PTL DEF Spec, IInv

(* A stream closes only after a request for input or after delivering all  *)
(* that was buffered when the source was marked done.                      *)
THEOREM CloseCorrect == Spec => []ClosedSawAll
BY InitInv, StepInv, PTL DEF Spec, IInv

-----------------------------------------------------------------------------
(* Heartbeats.                                                              *)

(* How many events of type t stand from position i to j of buffer s. *)
CountIn(s, t, i, j) == Cardinality({k \in i..j : s[k].type = t})

LEMMA CountFacts ==
    ASSUME NEW s \in Seq(Event), NEW e \in Event, NEW t,
           NEW i \in Nat \ {0}, i <= Len(s) + 1
    PROVE  /\ \A j \in 0..Len(s) : /\ CountIn(s, t, i, j) \in Nat
                                   /\ CountIn(Append(s, e), t, i, j) = CountIn(s, t, i, j)
           /\ e.type = t => CountIn(Append(s, e), t, i, Len(s) + 1) = CountIn(s, t, i, Len(s)) + 1
           /\ e.type # t => CountIn(Append(s, e), t, i, Len(s) + 1) = CountIn(s, t, i, Len(s))
           /\ CountIn(s, t, Len(s) + 1, Len(s)) = 0
<1> DEFINE a == Append(s, e)
           at(b, j) == {k \in i..j : b[k].type = t}
           n == Len(s)
<1>1. /\ n \in Nat /\ a[n + 1] = e /\ \A k \in 1..n : a[k] = s[k]
  OBVIOUS
<1> HIDE DEF a, n
<1>2. ASSUME NEW b, NEW j \in Nat PROVE IsFiniteSet(at(b, j))
  <2>1. IsFiniteSet(i..j)
    BY FS_Interval
  <2>2. at(b, j) \in SUBSET (i..j)
    OBVIOUS
  <2> QED
    BY <2>1, <2>2, FS_Subset
<1>3. ASSUME NEW j \in 0..n
      PROVE  /\ CountIn(s, t, i, j) \in Nat
             /\ CountIn(a, t, i, j) = CountIn(s, t, i, j)
  <2>1. at(a, j) = at(s, j)
    BY <1>1
  <2>2. j \in Nat
    BY <1>1
  <2> QED
    BY <1>2, <2>1, <2>2, FS_CardinalityType DEF CountIn
<1>4. /\ e.type = t => CountIn(a, t, i, n + 1) = CountIn(s, t, i, n) + 1
      /\ e.type # t => CountIn(a, t, i, n + 1) = CountIn(s, t, i, n)
  <2>1. at(s, n) = at(a, n) /\ IsFiniteSet(at(s, n)) /\ n + 1 \notin at(s, n)
    BY <1>1, <1>2
  <2>2. CASE e.type = t
    <3>1. at(a, n + 1) = at(s, n) \cup {n + 1}
      BY <1>1, <2>2 DEF n
    <3>2. Cardinality(at(s, n) \cup {n + 1}) = Cardinality(at(s, n)) + 1
      BY <2>1, FS_AddElement
    <3> QED
      BY <2>2, <3>1, <3>2 DEF CountIn
  <2>3. CASE e.type # t
    <3>1. at(a, n + 1) = at(s, n)
      BY <1>1, <2>3
    <3> QED
      BY <2>3, <3>1 DEF CountIn
  <2> QED
    BY <2>2, <2>3
<1>5. CountIn(s, t, n + 1, n) = 0
  <2>1. {k \in (n + 1)..n : s[k].type = t} = {}
    BY <1>1
  <2> QED
    BY <2>1, FS_EmptySet DEF CountIn
<1> QED
  BY <1>3, <1>4, <1>5 DEF a, n

(* From position u to n of buffer s no turn ends, and at least d more tools *)
(* are used than return.                                                    *)
InFlight(s, u, n, d) ==
    /\ CountIn(s, "tool_use", u, n) >= CountIn(s, "tool_result", u, n) + d
    /\ \A k \in u..n : s[k].type \notin {"result", "error"}

(* The depth the pump counts is that of some tool_use still in flight.     *)
DepthMeant ==
    toolDepth > 0 => \E u \in 1..Len(events) : InFlight(events, u, Len(events), toolDepth)

Covered(s, b) == s[b].type = "progress" => \E u \in 1..(b - 1) : InFlight(s, u, b, 1)

BeatInv == DepthMeant /\ \A b \in 1..Len(events) : Covered(events, b)

LEMMA BeatHolds == TypeOK /\ BeatInv => HeartbeatInsideTool
<1> SUFFICES ASSUME TypeOK, BeatInv, NEW b \in 1..Len(events), events[b].type = "progress"
             PROVE  \E u \in 1..(b - 1) :
                      /\ UsesIn(u, b) > ResultsIn(u, b)
                      /\ \A k \in u..b : events[k].type \notin {"result", "error"}
  BY DEF HeartbeatInsideTool
<1>1. PICK u \in 1..(b - 1) : InFlight(events, u, b, 1)
  BY DEF BeatInv, Covered
<1>2. CountIn(events, "tool_use", u, b) >= CountIn(events, "tool_result", u, b) + 1
  BY <1>1 DEF InFlight
<1>3. CountIn(events, "tool_use", u, b) \in Nat /\ CountIn(events, "tool_result", u, b) \in Nat
  <2>1. events \in Seq(Event) /\ events[b] \in Event /\ b \in 0..Len(events)
        /\ u \in Nat \ {0} /\ u <= Len(events) + 1
    BY DEF TypeOK, RelayTypeOK
  <2> QED
    BY <2>1, CountFacts
<1>4. UsesIn(u, b) > ResultsIn(u, b)
  BY <1>2, <1>3 DEF UsesIn, ResultsIn, CountIn
<1> QED
  BY <1>1, <1>4 DEF InFlight

(* An event appended to a buffer changes nothing before it, and what it    *)
(* does to what is in flight depends on its type alone.                    *)
LEMMA InFlightAppend ==
    ASSUME NEW s \in Seq(Event), NEW e \in Event, NEW u \in 1..(Len(s) + 1), NEW d \in Nat
    PROVE  /\ \A j \in 0..Len(s) : InFlight(s, u, j, d) => InFlight(Append(s, e), u, j, d)
           /\ InFlight(s, u, Len(s), d) /\ e.type \notin {"result", "error"} =>
                /\ e.type = "tool_use" => InFlight(Append(s, e), u, Len(s) + 1, d + 1)
                /\ e.type = "tool_result" => InFlight(Append(s, e), u, Len(s) + 1, d - 1)
                /\ e.type \notin {"tool_use", "tool_result"} => InFlight(Append(s, e), u, Len(s) + 1, d)
<1> DEFINE a == Append(s, e)
           n == Len(s)
           use(b, j) == CountIn(b, "tool_use", u, j)
           res(b, j) == CountIn(b, "tool_result", u, j)
<1>1. /\ n \in Nat /\ a[n + 1] = e /\ \A k \in 1..n : a[k] = s[k]
  OBVIOUS
<1>2. u \in Nat \ {0} /\ u <= Len(s) + 1
  OBVIOUS
<1>3. /\ \A j \in 0..n : use(s, j) \in Nat /\ use(a, j) = use(s, j)
      /\ e.type = "tool_use" => use(a, n + 1) = use(s, n) + 1
      /\ e.type # "tool_use" => use(a, n + 1) = use(s, n)
  BY <1>2, CountFacts
<1>4. /\ \A j \in 0..n : res(s, j) \in Nat /\ res(a, j) = res(s, j)
      /\ e.type = "tool_result" => res(a, n + 1) = res(s, n) + 1
      /\ e.type # "tool_result" => res(a, n + 1) = res(s, n)
  BY <1>2, CountFacts
<1> HIDE DEF a, n, use, res
<1>5. ASSUME NEW j \in 0..n, InFlight(s, u, j, d) PROVE InFlight(a, u, j, d)
  <2>1. use(s, j) >= res(s, j) + d /\ \A k \in u..j : s[k].type \notin {"result", "error"}
    BY <1>5 DEF InFlight, use, res
  <2>2. use(a, j) >= res(a, j) + d
    BY <1>3, <1>4, <2>1
  <2>3. \A k \in u..j : k \in 1..n
    BY <1>1, <1>2
  <2> QED
    BY <1>1, <2>1, <2>2, <2>3 DEF InFlight, use, res
<1>6. ASSUME InFlight(s, u, n, d), e.type \notin {"result", "error"}
      PROVE  \A k \in u..(n + 1) : a[k].type \notin {"result", "error"}
  BY <1>1, <1>2, <1>6 DEF InFlight
<1>7. n \in 0..n /\ use(s, n) \in Nat /\ res(s, n) \in Nat
  BY <1>1, <1>3, <1>4
<1>8. ASSUME InFlight(s, u, n, d) PROVE use(s, n) >= res(s, n) + d
  BY <1>8 DEF InFlight, use, res
<1>9. ASSUME InFlight(s, u, n, d), e.type \notin {"result", "error"}, e.type = "tool_use"
      PROVE  InFlight(a, u, n + 1, d + 1)
  <2>1. use(a, n + 1) >= res(a, n + 1) + (d + 1)
    BY <1>3, <1>4, <1>7, <1>8, <1>9
  <2> QED
    BY <1>6, <1>9, <2>1 DEF InFlight, use, res
<1>10. ASSUME InFlight(s, u, n, d), e.type \notin {"result", "error"}, e.type = "tool_result"
       PROVE  InFlight(a, u, n + 1, d - 1)
  <2>1. use(a, n + 1) >= res(a, n + 1) + (d - 1)
    BY <1>3, <1>4, <1>7, <1>8, <1>10
  <2> QED
    BY <1>6, <1>10, <2>1 DEF InFlight, use, res
<1>11. ASSUME InFlight(s, u, n, d), e.type \notin {"result", "error"},
              e.type \notin {"tool_use", "tool_result"}
       PROVE  InFlight(a, u, n + 1, d)
  <2>1. use(a, n + 1) >= res(a, n + 1) + d
    BY <1>3, <1>4, <1>7, <1>8, <1>11
  <2> QED
    BY <1>6, <1>11, <2>1 DEF InFlight, use, res
<1> QED
  BY <1>5, <1>9, <1>10, <1>11 DEF a, n

(* A step that leaves the buffer and the depth alone keeps BeatInv; so does *)
(* one that leaves the buffer alone and the depth at zero.                  *)
LEMMA BeatKept ==
    ASSUME BeatInv, events' = events, toolDepth' = toolDepth
    PROVE  BeatInv'
BY DEF BeatInv, DepthMeant, Covered, InFlight, CountIn

LEMMA BeatReceive ==
    ASSUME TypeOK, BeatInv, NEW t \in SourceTypes, PumpReceive(t)
    PROVE  BeatInv'
<1> DEFINE e == [type |-> t, n |-> emitted + 1]
           n == Len(events)
<1>1. e \in Event /\ events \in Seq(Event) /\ toolDepth \in Nat /\ emitted \in Nat /\ e.type = t
  BY DEF TypeOK, RelayTypeOK, PumpTypeOK, Event, EventTypes, SourceTypes
<1>2. events' = Append(events, e) /\ toolDepth' = DepthAfter(t)
  BY DEF PumpReceive, AppendEvent
<1>3. t # "progress"
  BY DEF SourceTypes
<1> HIDE DEF e
<1>4. /\ n \in Nat /\ Len(events') = n + 1 /\ events'[n + 1] = e
      /\ \A k \in 1..n : events'[k] = events[k]
  BY <1>1, <1>2
<1>5. ASSUME NEW b \in 1..Len(events') PROVE Covered(events', b)
  <2>1. CASE b = n + 1
    BY <1>1, <1>3, <1>4, <2>1 DEF Covered
  <2>2. CASE b \in 1..n
    <3>1. SUFFICES ASSUME events'[b].type = "progress"
                   PROVE  \E u \in 1..(b - 1) : InFlight(events', u, b, 1)
      BY DEF Covered
    <3>2. events[b].type = "progress"
      BY <1>4, <2>2, <3>1
    <3>3. PICK u \in 1..(b - 1) : InFlight(events, u, b, 1)
      BY <2>2, <3>2 DEF BeatInv, Covered
    <3>4. u \in 1..(Len(events) + 1) /\ b \in 0..Len(events) /\ 1 \in Nat
      BY <1>4, <2>2
    <3>5. InFlight(Append(events, e), u, b, 1)
      BY <1>1, <3>3, <3>4, InFlightAppend
    <3> QED
      BY <1>2, <3>5
  <2> QED
    BY <1>4, <2>1, <2>2
<1>6. ASSUME toolDepth' > 0
      PROVE  \E u \in 1..Len(events') : InFlight(events', u, Len(events'), toolDepth')
  <2>1. t \notin {"result", "error"}
    BY <1>2, <1>6 DEF DepthAfter
  <2>2. CASE toolDepth > 0
    <3>1. PICK u \in 1..n : InFlight(events, u, n, toolDepth)
      BY <2>2 DEF BeatInv, DepthMeant
    <3>2. u \in 1..(Len(events) + 1) /\ u \in 1..Len(events')
      BY <1>4
    <3>3. CASE t = "tool_use"
      <4>1. toolDepth' = toolDepth + 1
        BY <1>2, <3>3 DEF DepthAfter
      <4>2. InFlight(Append(events, e), u, n + 1, toolDepth + 1)
        BY <1>1, <2>1, <3>1, <3>2, <3>3, InFlightAppend
      <4> QED
        BY <1>2, <1>4, <3>2, <4>1, <4>2
    <3>4. CASE t = "tool_result"
      <4>1. toolDepth' = toolDepth - 1
        BY <1>2, <2>2, <3>4 DEF DepthAfter
      <4>2. InFlight(Append(events, e), u, n + 1, toolDepth - 1)
        BY <1>1, <2>1, <3>1, <3>2, <3>4, InFlightAppend
      <4> QED
        BY <1>2, <1>4, <3>2, <4>1, <4>2
    <3>5. CASE t \notin {"tool_use", "tool_result"}
      <4>1. toolDepth' = toolDepth
        BY <1>2, <2>1, <3>5 DEF DepthAfter
      <4>2. InFlight(Append(events, e), u, n + 1, toolDepth)
        BY <1>1, <2>1, <3>1, <3>2, <3>5, InFlightAppend
      <4> QED
        BY <1>2, <1>4, <3>2, <4>1, <4>2
    <3> QED
      BY <3>3, <3>4, <3>5
  <2>3. CASE toolDepth = 0
    <3>1. t = "tool_use" /\ toolDepth' = 1
      <4>1. CASE t = "tool_use"
        BY <1>2, <2>3, <4>1 DEF DepthAfter
      <4>2. CASE t = "tool_result"
        BY <1>2, <1>6, <2>3, <4>2 DEF DepthAfter
      <4>3. CASE t \notin {"tool_use", "tool_result"}
        BY <1>2, <1>6, <2>1, <2>3, <4>3 DEF DepthAfter
      <4> QED
        BY <4>1, <4>2, <4>3
    <3>2. n + 1 \in 1..(Len(events) + 1) /\ n + 1 \in 1..Len(events')
      BY <1>4
    <3>3. CountIn(events, "tool_use", n + 1, n) = 0 /\ CountIn(events, "tool_result", n + 1, n) = 0
      BY <1>1, <1>4, CountFacts
    <3>4. InFlight(events, n + 1, n, 0)
      BY <1>4, <3>3 DEF InFlight
    <3>5. InFlight(Append(events, e), n + 1, n + 1, 0 + 1)
      BY <1>1, <2>1, <3>1, <3>2, <3>4, InFlightAppend
    <3> QED
      BY <1>2, <1>4, <3>1, <3>2, <3>5
  <2> QED
    BY <1>1, <2>2, <2>3
<1> QED
  BY <1>5, <1>6 DEF BeatInv, DepthMeant

LEMMA BeatTick == TypeOK /\ BeatInv /\ PumpTick => BeatInv'
<1> SUFFICES ASSUME TypeOK, BeatInv, PumpTick PROVE BeatInv'
  OBVIOUS
<1> DEFINE e == [type |-> "progress", n |-> emitted]
           n == Len(events)
<1>1. e \in Event /\ events \in Seq(Event) /\ toolDepth \in Nat /\ e.type = "progress"
  BY DEF TypeOK, RelayTypeOK, PumpTypeOK, Event, EventTypes, SourceTypes
<1>2. events' = Append(events, e) /\ toolDepth' = toolDepth /\ toolDepth > 0
  BY DEF PumpTick, AppendEvent
<1> HIDE DEF e
<1>4. /\ n \in Nat /\ Len(events') = n + 1 /\ events'[n + 1] = e
      /\ \A k \in 1..n : events'[k] = events[k]
  BY <1>1, <1>2
<1>5. PICK v \in 1..n : InFlight(events, v, n, toolDepth)
  BY <1>2 DEF BeatInv, DepthMeant
<1>6. v \in 1..(Len(events) + 1) /\ v \in 1..Len(events')
  BY <1>4
<1>7. InFlight(Append(events, e), v, n + 1, toolDepth)
  BY <1>1, <1>5, <1>6, InFlightAppend
<1>8. ASSUME NEW b \in 1..Len(events') PROVE Covered(events', b)
  <2>1. CASE b = n + 1
    <3>1. InFlight(events', v, b, 1)
      <4>1. CountIn(events', "tool_use", v, b) >= CountIn(events', "tool_result", v, b) + toolDepth
            /\ \A k \in v..b : events'[k].type \notin {"result", "error"}
        BY <1>2, <1>7, <2>1 DEF InFlight
      <4>2. CountIn(events', "tool_use", v, b) \in Nat /\ CountIn(events', "tool_result", v, b) \in Nat
        <5>1. events' \in Seq(Event) /\ b \in 0..Len(events') /\ v \in Nat \ {0} /\ v <= Len(events') + 1
          BY <1>1, <1>2, <1>4, <2>1
        <5> DEFINE s == events'
        <5>2. s \in Seq(Event) /\ b \in 0..Len(s) /\ v <= Len(s) + 1
          BY <5>1
        <5> HIDE DEF s
        <5>3. CountIn(s, "tool_use", v, b) \in Nat /\ CountIn(s, "tool_result", v, b) \in Nat
          BY <1>1, <5>1, <5>2, CountFacts
        <5> QED
          BY <5>3 DEF s
      <4> DEFINE x == CountIn(events', "tool_use", v, b)
                 y == CountIn(events', "tool_result", v, b)
      <4>3. x \in Nat /\ y \in Nat /\ x >= y + toolDepth
        BY <4>1, <4>2
      <4> HIDE DEF x, y
      <4>4. x >= y + 1
        BY <1>1, <1>2, <4>3
      <4> QED
        BY <4>1, <4>4 DEF InFlight, x, y
    <3>2. v \in 1..(b - 1)
      BY <1>4, <2>1
    <3> QED
      BY <3>1, <3>2 DEF Covered
  <2>2. CASE b \in 1..n
    <3>1. SUFFICES ASSUME events'[b].type = "progress"
                   PROVE  \E u \in 1..(b - 1) : InFlight(events', u, b, 1)
      BY DEF Covered
    <3>2. events[b].type = "progress"
      BY <1>4, <2>2, <3>1
    <3>3. PICK u \in 1..(b - 1) : InFlight(events, u, b, 1)
      BY <2>2, <3>2 DEF BeatInv, Covered
    <3>4. u \in 1..(Len(events) + 1) /\ b \in 0..Len(events) /\ 1 \in Nat
      BY <1>4, <2>2
    <3>5. InFlight(Append(events, e), u, b, 1)
      BY <1>1, <3>3, <3>4, InFlightAppend
    <3> QED
      BY <1>2, <3>5
  <2> QED
    BY <1>4, <2>1, <2>2
<1> QED
  BY <1>2, <1>4, <1>6, <1>7, <1>8 DEF BeatInv, DepthMeant

LEMMA BeatStep == TypeOK /\ BeatInv /\ [Next]_vars => BeatInv'
<1> SUFFICES ASSUME TypeOK, BeatInv, [Next]_vars PROVE BeatInv'
  OBVIOUS
<1>1. CASE \E t \in AgentTypes : PumpReceive(t)
  BY <1>1, BeatReceive, RelayAssumption
<1>2. CASE PumpTick
  BY <1>2, BeatTick
<1>3. CASE events' = events /\ toolDepth' = toolDepth
  BY <1>3, BeatKept
<1>4. CASE PumpSourceClosed \/ CancelMarksDone \/ Respond \/ PumpStep
  BY <1>3, <1>4 DEF PumpSourceClosed, CancelMarksDone, MarkSourceDone, Respond, PumpStep,
     PumpNotify, CloseDone, relayVars, pumpVars
<1>5. ASSUME NEW r \in Readers,
             \/ \E from \in 0..Len(events) : Open(r, from)
             \/ ReaderStep(r) \/ Receive(r) \/ Abandon(r)
      PROVE  events' = events /\ toolDepth' = toolDepth
  BY <1>5 DEF Open, ReaderStep, Check, Send, WakeByNotify, WakeByDone, Receive, Abandon,
     relayVars, pumpVars
<1>6. CASE UNCHANGED vars
  BY <1>3, <1>6 DEF vars, relayVars, pumpVars
<1> QED
  BY <1>1, <1>2, <1>3, <1>4, <1>5, <1>6 DEF Next

LEMMA BeatInit == Init => BeatInv
<1> SUFFICES ASSUME Init PROVE BeatInv
  OBVIOUS
<1>1. events = <<>> /\ toolDepth = 0
  BY DEF Init
<1>2. Len(events) = 0 /\ 1..Len(events) = {} /\ ~(toolDepth > 0)
  BY <1>1
<1> QED
  BY <1>2 DEF BeatInv, DepthMeant

(* A heartbeat is appended only while a tool of the same turn is in flight *)
(* (exec_registry.go:203-237), whatever the agent emits: results without a *)
(* use, turns that end with tools open, several turns on one relay.        *)
THEOREM HeartbeatCorrect == Spec => []HeartbeatInsideTool
<1>1. TypeOK /\ BeatInv => HeartbeatInsideTool
  BY BeatHolds
<1>2. Spec => []TypeOK
  BY TypeCorrect
<1>3. TypeOK /\ BeatInv /\ [Next]_vars => BeatInv'
  BY BeatStep
<1> QED
  BY <1>1, <1>2, <1>3, BeatInit, PTL DEF Spec

-----------------------------------------------------------------------------
(* The log hub.                                                            *)
(*                                                                         *)
(* What a client was sent (Had) and what the hub will still send to it     *)
(* (Coming) are together the log from its beginning, and again from some   *)
(* entry on.  A client that is dropped loses what was coming, so what it   *)
(* had is a beginning of that.  The proof is about sequences put together: *)
(* first what FlattenSeq does with a sequence appended and the first one   *)
(* taken off, then Entries, then one lemma per step.                       *)

(* A set of numbers that is not empty has a least one. *)
LEMMA LeastNumber ==
    ASSUME NEW S, S \subseteq Nat, S # {}
    PROVE  \E n \in S : \A m \in S : n <= m
<1>1. \E n \in S : \A m \in S : ~ (<<m, n>> \in OpToRel(<, Nat))
  BY NatLessThanWellFounded, WFMin
<1>2. \A n, m \in S : m < n => <<m, n>> \in OpToRel(<, Nat)
  BY DEF OpToRel
<1>3. \E n \in S : \A m \in S : ~ (m < n)
  BY <1>1, <1>2
<1> QED
  BY <1>3

(* The function that FlattenSeq computes: the first sequences put together. *)
Flattens(f, s, n) == f = [i \in 1..n |-> IF i = 1 THEN s[i] ELSE f[i - 1] \o s[i]]

(* The first n sequences can be put together. *)
Flattenable(s, n) == \E f : Flattens(f, s, n)

(* There is such a function.                                               *)
LEMMA FlattensExists ==
    ASSUME NEW s \in Seq(Seq(Nat)), NEW n \in 0..Len(s)
    PROVE  Flattenable(s, n)
<1> DEFINE Bad == {k \in 0..Len(s) : ~ Flattenable(s, k)}
<1> SUFFICES ASSUME Bad # {} PROVE FALSE
  OBVIOUS
<1>0. Bad \subseteq Nat
  OBVIOUS
<1>1. PICK k \in Bad : \A m \in Bad : k <= m
  BY <1>0, LeastNumber
<1>2. k # 0
  <2>1. PICK f : f = [i \in 1..0 |-> IF i = 1 THEN s[i] ELSE f[i - 1] \o s[i]]
    <3>1. PICK f : f = [i \in 1..0 |-> 0]
      OBVIOUS
    <3>2. f = [i \in 1..0 |-> IF i = 1 THEN s[i] ELSE f[i - 1] \o s[i]]
      BY <3>1
    <3> QED
      BY <3>2
  <2>2. Flattenable(s, 0)
    BY <2>1, Zenon DEF Flattens, Flattenable
  <2> QED
    BY <2>2
<1>3. k - 1 \in 0..Len(s) /\ k - 1 \notin Bad
  BY <1>1, <1>2
<1>4. PICK f : Flattens(f, s, k - 1)
  BY <1>3 DEF Flattenable
<1> DEFINE g == [i \in 1..k |-> IF i < k THEN f[i] ELSE IF k = 1 THEN s[k] ELSE f[k - 1] \o s[k]]
<1>5. ASSUME NEW i \in 1..k PROVE g[i] = IF i = 1 THEN s[i] ELSE g[i - 1] \o s[i]
  <2>1. CASE i < k
    <3>1. i \in 1..(k - 1)
      BY <1>1, <2>1
    <3>2. f[i] = IF i = 1 THEN s[i] ELSE f[i - 1] \o s[i]
      BY <1>4, <3>1 DEF Flattens
    <3>3. i # 1 => i - 1 \in 1..k /\ i - 1 < k
      BY <1>1
    <3> QED
      BY <3>2, <3>3, <2>1
  <2>2. CASE i = k
    <3>1. i # 1 => i - 1 \in 1..k /\ i - 1 < k
      BY <1>1, <2>2
    <3> QED
      BY <3>1, <2>2
  <2> QED
    BY <2>1, <2>2, <1>1
<1>6. g = [i \in 1..k |-> IF i = 1 THEN s[i] ELSE g[i - 1] \o s[i]]
  BY <1>5, Zenon
<1>7. Flattenable(s, k)
  BY <1>6, Zenon DEF Flattens, Flattenable
<1> QED
  BY <1>7, <1>1

(* FlattenSeq is its last value.                                           *)
LEMMA FlattensIs ==
    ASSUME NEW s \in Seq(Seq(Nat)), s # <<>>
    PROVE  \E f : Flattens(f, s, Len(s)) /\ FlattenSeq(s) = f[Len(s)]
<1>1. PICK f : Flattens(f, s, Len(s))
  <2>1. Flattenable(s, Len(s))
    BY FlattensExists
  <2> QED
    BY <2>1 DEF Flattenable
<1> DEFINE h == CHOOSE g : Flattens(g, s, Len(s))
<1>2. Flattens(h, s, Len(s))
  BY <1>1, Zenon
<1>3. FlattenSeq(s) = h[Len(s)]
  BY DEF FlattenSeq, Flattens
<1> QED
  BY <1>2, <1>3

(* It is a sequence of numbers. *)
LEMMA FlattensType ==
    ASSUME NEW s \in Seq(Seq(Nat)), NEW n \in 0..Len(s), NEW f, Flattens(f, s, n), NEW i \in 1..n
    PROVE  f[i] \in Seq(Nat)
<1> DEFINE Bad == {k \in 1..n : f[k] \notin Seq(Nat)}
<1> SUFFICES ASSUME Bad # {} PROVE FALSE
  OBVIOUS
<1>0. Bad \subseteq Nat
  OBVIOUS
<1>1. PICK k \in Bad : \A m \in Bad : k <= m
  BY <1>0, LeastNumber
<1>2. f[k] = IF k = 1 THEN s[k] ELSE f[k - 1] \o s[k]
  BY DEF Flattens
<1>3. s[k] \in Seq(Nat)
  OBVIOUS
<1>4. ASSUME k # 1 PROVE f[k - 1] \in Seq(Nat)
  <2>1. k - 1 \in 1..n /\ k - 1 \notin Bad
    BY <1>1, <1>4
  <2> QED
    BY <2>1
<1>5. k # 1 => f[k - 1] \o s[k] \in Seq(Nat)
  BY <1>3, <1>4, ConcatProperties
<1> QED
  BY <1>1, <1>2, <1>3, <1>5

(* A sequence appended changes nothing of what was put together before. *)
LEMMA FlattensOne ==
    ASSUME NEW s \in Seq(Seq(Nat)), NEW x \in Seq(Nat), NEW f, NEW g,
           Flattens(f, s, Len(s)), Flattens(g, Append(s, x), Len(s) + 1)
    PROVE  \A l \in 1..Len(s) : f[l] = g[l]
<1>t. PICK t : t = Append(s, x)
  OBVIOUS
<1> DEFINE Bad == {k \in 1..Len(s) : f[k] # g[k]}
<1> SUFFICES ASSUME Bad # {} PROVE FALSE
  OBVIOUS
<1>0. Bad \subseteq Nat
  OBVIOUS
<1>1. PICK k \in Bad : \A j \in Bad : k <= j
  BY <1>0, LeastNumber
<1>2. f[k] = IF k = 1 THEN s[k] ELSE f[k - 1] \o s[k]
  BY DEF Flattens
<1>3. g[k] = IF k = 1 THEN t[k] ELSE g[k - 1] \o t[k]
  <2>1. k \in 1..(Len(s) + 1)
    BY <1>1
  <2> QED
    BY <2>1, <1>t DEF Flattens
<1>4. ASSUME k # 1 PROVE f[k - 1] = g[k - 1]
  <2>1. k - 1 \in 1..Len(s) /\ k - 1 \notin Bad
    BY <1>1, <1>4
  <2> QED
    BY <2>1
<1>5. s[k] = t[k]
  BY <1>1, <1>t
<1> QED
  BY <1>1, <1>2, <1>3, <1>4, <1>5

(* Putting three sequences together.                                       *)
LEMMA NatConcat ==
    ASSUME NEW a \in Seq(Nat), NEW b \in Seq(Nat), NEW c \in Seq(Nat)
    PROVE  (a \o b) \o c = a \o (b \o c)
BY ConcatAssociative

(* FlattenSeq of sequences of numbers is one.                              *)
LEMMA FlattenType == ASSUME NEW s \in Seq(Seq(Nat)) PROVE FlattenSeq(s) \in Seq(Nat)
<1>1. CASE s = <<>>
  BY <1>1 DEF FlattenSeq
<1>2. CASE s # <<>>
  <2>1. PICK f : Flattens(f, s, Len(s)) /\ FlattenSeq(s) = f[Len(s)]
    BY <1>2, FlattensIs
  <2>2. Len(s) \in 0..Len(s) /\ Len(s) \in 1..Len(s)
    BY <1>2, EmptySeq
  <2> QED
    BY <2>1, <2>2, FlattensType
<1> QED
  BY <1>1, <1>2

(* A sequence appended comes last. *)
LEMMA FlattenAppend ==
    ASSUME NEW s \in Seq(Seq(Nat)), NEW x \in Seq(Nat)
    PROVE  FlattenSeq(Append(s, x)) = FlattenSeq(s) \o x
<1>0. PICK t : t = Append(s, x)
  OBVIOUS
<1>1. t \in Seq(Seq(Nat)) /\ Len(t) = Len(s) + 1 /\ t[Len(s) + 1] = x /\ Len(s) \in Nat
  BY <1>0
<1>2. t # <<>>
  BY <1>1, EmptySeq
<1>3. PICK g : Flattens(g, t, Len(s) + 1) /\ FlattenSeq(t) = g[Len(s) + 1]
  BY <1>1, <1>2, FlattensIs
<1>4. g[Len(s) + 1] = IF Len(s) = 0 THEN x ELSE g[Len(s)] \o x
  <2>1. Len(s) + 1 \in 1..(Len(s) + 1) /\ (Len(s) + 1) - 1 = Len(s) /\ (Len(s) + 1 = 1 <=> Len(s) = 0)
    BY <1>1
  <2>2. g[Len(s) + 1] = IF Len(s) + 1 = 1 THEN t[Len(s) + 1] ELSE g[(Len(s) + 1) - 1] \o t[Len(s) + 1]
    BY <1>3, <2>1 DEF Flattens
  <2> QED
    BY <1>1, <2>1, <2>2
<1>5. CASE Len(s) = 0
  <2>1. FlattenSeq(s) = <<>> /\ <<>> \o x = x
    BY <1>5, EmptySeq DEF FlattenSeq
  <2> QED
    <3>1. FlattenSeq(t) = x
      BY <1>3, <1>4, <1>5
    <3> QED
      BY <3>1, <2>1, <1>0
<1>6. CASE Len(s) # 0
  <2>1. s # <<>>
    BY <1>6, EmptySeq
  <2>2. PICK f : Flattens(f, s, Len(s)) /\ FlattenSeq(s) = f[Len(s)]
    BY <2>1, FlattensIs
  <2>3. Len(s) \in 1..Len(s)
    BY <1>1, <1>6
  <2>4. f[Len(s)] = g[Len(s)]
    <3>1. Flattens(g, Append(s, x), Len(s) + 1)
      BY <1>0, <1>3
    <3> QED
      BY <3>1, <2>2, <2>3, FlattensOne
  <2> QED
    BY <2>2, <2>4, <1>0, <1>3, <1>4, <1>6
<1> QED
  BY <1>5, <1>6

(* The first sequence comes first. *)
LEMMA FlattenHead ==
    ASSUME NEW s \in Seq(Seq(Nat)), s # <<>>
    PROVE  FlattenSeq(s) = Head(s) \o FlattenSeq(Tail(s))
<1>0. PICK t, n : t = Tail(s) /\ n = Len(t)
  OBVIOUS
<1>1. t \in Seq(Seq(Nat)) /\ Len(s) = n + 1 /\ n \in Nat /\ \A i \in 1..n : t[i] = s[i + 1]
  BY <1>0
<1>2. PICK f : Flattens(f, s, n + 1) /\ FlattenSeq(s) = f[n + 1]
  BY <1>1, FlattensIs
<1>3. Head(s) = s[1] /\ s[1] \in Seq(Nat)
  BY <1>1
<1>4. CASE n = 0
  <2>1. FlattenSeq(t) = <<>>
    BY <1>4, <1>0, <1>1, EmptySeq DEF FlattenSeq
  <2>2. f[n + 1] = s[1]
    <3>1. 1 \in 1..(n + 1) /\ n + 1 = 1
      BY <1>4
    <3>2. f[1] = IF 1 = 1 THEN s[1] ELSE f[1 - 1] \o s[1]
      BY <1>2, <3>1 DEF Flattens
    <3> QED
      BY <3>1, <3>2
  <2>3. s[1] \o <<>> = s[1]
    BY <1>3
  <2> QED
    BY <2>1, <2>2, <2>3, <1>0, <1>2, <1>3
<1>5. CASE n # 0
  <2>1. PICK g : Flattens(g, t, n) /\ FlattenSeq(t) = g[n]
    <3>1. t # <<>>
      BY <1>0, <1>1, <1>5, EmptySeq
    <3>2. PICK g : Flattens(g, t, Len(t)) /\ FlattenSeq(t) = g[Len(t)]
      BY <1>1, <3>1, FlattensIs
    <3> QED
      BY <3>2, <1>0
  <2> DEFINE Bad == {k \in 1..n : f[k + 1] # s[1] \o g[k]}
  <2>2. ASSUME Bad # {} PROVE FALSE
    <3>0. Bad \subseteq Nat
      <4>1. 1..n \subseteq Nat
        BY <1>1
      <4>2. Bad \subseteq 1..n
        BY Zenon
      <4> QED
        BY <4>1, <4>2, Zenon
    <3>1. PICK k \in Bad : \A j \in Bad : k <= j
      BY <2>2, <3>0, LeastNumber
    <3>2. f[k + 1] = f[k] \o s[k + 1]
      <4>1. k + 1 \in 1..(n + 1) /\ k + 1 # 1 /\ (k + 1) - 1 = k
        BY <1>1, <3>1
      <4>2. f[k + 1] = IF k + 1 = 1 THEN s[k + 1] ELSE f[(k + 1) - 1] \o s[k + 1]
        BY <1>2, <4>1 DEF Flattens
      <4> QED
        BY <4>1, <4>2
    <3>3. g[k] = IF k = 1 THEN t[k] ELSE g[k - 1] \o t[k]
      BY <2>1, <3>1 DEF Flattens
    <3>4. t[k] = s[k + 1] /\ s[k + 1] \in Seq(Nat)
      BY <1>1, <3>1
    <3>5. CASE k = 1
      <4>1. f[1] = s[1]
        BY <1>1, <1>2 DEF Flattens
      <4> QED
        BY <3>1, <3>2, <3>3, <3>4, <3>5, <4>1
    <3>6. CASE k # 1
      <4>1. k - 1 \in 1..n /\ k - 1 \notin Bad /\ (k - 1) + 1 = k
        <5>1. k \in 1..n /\ k \in Int /\ n \in Int
          BY <1>1, <3>1
        <5>2. k - 1 \in 1..n /\ (k - 1) + 1 = k /\ ~(k <= k - 1)
          BY <5>1, <3>6
        <5> QED
          BY <5>2, <3>1
      <4>2. f[k] = s[1] \o g[k - 1]
        BY <4>1
      <4>3. g[k - 1] \in Seq(Nat)
        <5>1. n \in 0..Len(t)
          BY <1>0, <1>1
        <5> QED
          BY <4>1, <1>1, <2>1, <5>1, FlattensType
      <4>4. (s[1] \o g[k - 1]) \o s[k + 1] = s[1] \o (g[k - 1] \o s[k + 1])
        BY <1>3, <4>3, <3>4, NatConcat
      <4> QED
        BY <3>1, <3>2, <3>3, <3>4, <3>6, <4>2, <4>4
    <3> QED
      BY <3>5, <3>6
  <2>3. n \in 1..n
    BY <1>1, <1>5
  <2>4. f[n + 1] = s[1] \o g[n]
    BY <2>2, <2>3
  <2> QED
    BY <2>1, <2>4, <1>0, <1>2, <1>3
<1> QED
  BY <1>4, <1>5

-----------------------------------------------------------------------------
(* Entries of the log.                                                     *)

(* How many entries there are between two points of the log, and which.    *)
LEMMA EntriesType ==
    ASSUME NEW a \in Nat, NEW b \in Nat, a <= b
    PROVE  Entries(a, b) \in Seq(Nat) /\ Len(Entries(a, b)) = b - a /\ \A i \in 1..(b - a) : Entries(a, b)[i] = a + i
BY DEF Entries

(* The first n entries.                                                    *)
LEMMA EntriesFirst ==
    ASSUME NEW n \in Nat
    PROVE  Entries(0, n) \in Seq(Nat) /\ Len(Entries(0, n)) = n /\ \A i \in 1..n : Entries(0, n)[i] = i
BY DEF Entries

(* The elements of two sequences put together.                             *)
LEMMA ConcatNat ==
    ASSUME NEW x \in Seq(Nat), NEW y \in Seq(Nat)
    PROVE  /\ x \o y \in Seq(Nat) /\ Len(x \o y) = Len(x) + Len(y)
           /\ \A i \in 1..(Len(x) + Len(y)) : i <= Len(x) => (x \o y)[i] = x[i]
           /\ \A i \in 1..(Len(x) + Len(y)) : ~(i <= Len(x)) => (x \o y)[i] = y[i - Len(x)]
OBVIOUS

(* The first element of two sequences is that of the first.                *)
LEMMA TailConcat ==
    ASSUME NEW x \in Seq(Nat), x # <<>>, NEW y \in Seq(Nat)
    PROVE  Tail(x) \o y = Tail(x \o y)
<1>1. PICK a, b, t : a = x \o y /\ t = Tail(x) /\ b = t \o y
  OBVIOUS
<1>2. t \in Seq(Nat) /\ Len(x) = Len(t) + 1 /\ Len(t) \in Nat /\ \A i \in 1..Len(t) : t[i] = x[i + 1]
  BY <1>1
<1>3. a \in Seq(Nat) /\ a # <<>> /\ Len(a) = Len(x) + Len(y)
  BY <1>1, <1>2, EmptySeq
<1>4. b \in Seq(Nat) /\ Len(b) = Len(t) + Len(y)
  BY <1>1, <1>2
<1>5. PICK c : c = Tail(a)
  OBVIOUS
<1>6. c \in Seq(Nat) /\ Len(c) = Len(b) /\ \A i \in 1..Len(b) : c[i] = a[i + 1]
  BY <1>2, <1>3, <1>4, <1>5
<1>7. ASSUME NEW i \in 1..Len(b) PROVE b[i] = c[i]
  <2>1. i \in 1..(Len(t) + Len(y)) /\ i + 1 \in 1..(Len(x) + Len(y))
    BY <1>2, <1>4
  <2>2. CASE i <= Len(t)
    <3>1. b[i] = t[i] /\ a[i + 1] = x[i + 1] /\ i \in 1..Len(t)
      BY <1>1, <1>2, <2>1, <2>2, ConcatNat
    <3> QED
      BY <3>1, <1>2, <1>6
  <2>3. CASE ~(i <= Len(t))
    <3>1. b[i] = y[i - Len(t)] /\ a[i + 1] = y[(i + 1) - Len(x)] /\ i - Len(t) = (i + 1) - Len(x)
      BY <1>1, <1>2, <2>1, <2>3, ConcatNat
    <3> QED
      BY <3>1, <1>6
  <2> QED
    BY <2>2, <2>3
<1>8. b = c
  BY <1>4, <1>6, <1>7, SeqEqual
<1> QED
  BY <1>1, <1>5, <1>8

(* Entries up to a point and from there on.                                *)
LEMMA EntriesJoin ==
    ASSUME NEW a \in Nat, NEW b \in Nat, NEW c \in Nat, a <= b, b <= c
    PROVE  Entries(a, b) \o Entries(b, c) = Entries(a, c)
<1>1. PICK x, y, z : x = Entries(a, b) /\ y = Entries(b, c) /\ z = Entries(a, c)
  OBVIOUS
<1>2. x \in Seq(Nat) /\ Len(x) = b - a /\ \A i \in 1..(b - a) : x[i] = a + i
  BY <1>1, EntriesType
<1>3. y \in Seq(Nat) /\ Len(y) = c - b /\ \A i \in 1..(c - b) : y[i] = b + i
  BY <1>1, EntriesType
<1>4. z \in Seq(Nat) /\ Len(z) = c - a /\ \A i \in 1..(c - a) : z[i] = a + i
  <2>1. a <= c
    OBVIOUS
  <2> QED
    BY <1>1, <2>1, EntriesType
<1>5. x \o y \in Seq(Nat) /\ Len(x \o y) = c - a
  <2>1. (b - a) + (c - b) = c - a
    OBVIOUS
  <2> QED
    BY <1>2, <1>3, <2>1, ConcatNat
<1>6. ASSUME NEW i \in 1..(c - a) PROVE (x \o y)[i] = z[i]
  <2>1. (x \o y)[i] = IF i <= Len(x) THEN x[i] ELSE y[i - Len(x)]
    BY <1>2, <1>3, <1>6
  <2>2. CASE i <= b - a
    BY <2>1, <2>2, <1>2, <1>4
  <2>3. CASE ~(i <= b - a)
    <3>1. i - (b - a) \in 1..(c - b) /\ b + (i - (b - a)) = a + i
      BY <2>3
    <3> QED
      BY <2>1, <2>3, <3>1, <1>2, <1>3, <1>4
  <2> QED
    BY <2>2, <2>3
<1>7. x \o y = z
  BY <1>4, <1>5, <1>6, SeqEqual
<1> QED
  BY <1>1, <1>7

(* No entry, and one.                                                      *)
LEMMA EntriesOne == ASSUME NEW n \in Nat PROVE Entries(n, n) = <<>> /\ Entries(n, n + 1) = <<n + 1>>
<1>1. Entries(n, n) = <<>>
  BY EntriesType, EmptySeq
<1>2. PICK x : x = Entries(n, n + 1)
  OBVIOUS
<1>3. x \in Seq(Nat) /\ Len(x) = 1 /\ x[1] = n + 1
  <2>1. n <= n + 1 /\ (n + 1) - n = 1 /\ n + 1 \in Nat /\ 1 \in 1..1
    OBVIOUS
  <2>2. x \in Seq(Nat) /\ Len(x) = (n + 1) - n /\ \A i \in 1..((n + 1) - n) : x[i] = n + i
    BY <1>2, <2>1, EntriesType
  <2> QED
    BY <2>1, <2>2
<1>4. x = <<n + 1>>
  BY <1>3
<1> QED
  BY <1>1, <1>2, <1>4

(* What a client that is served has been shown, and what one has that was  *)
(* dropped.                                                                *)
Whole(x, len) == \E n \in 0..len : \E k \in 0..n : x = Entries(0, n) \o Entries(k, len)
Part(x, len) == \E n \in 0..len : \E k \in 0..n : \E m \in k..len : x = Entries(0, n) \o Entries(k, m)

(* The next entry is shown. *)
LEMMA WholeGrows ==
    ASSUME NEW len \in Nat, NEW x, Whole(x, len)
    PROVE  Whole(x \o <<len + 1>>, len + 1)
<1>1. PICK n, k : n \in 0..len /\ k \in 0..n /\ x = Entries(0, n) \o Entries(k, len)
  BY DEF Whole
<1>2. n \in Nat /\ k \in Nat /\ k <= len /\ len + 1 \in Nat /\ n \in 0..(len + 1) /\ 0 \in Nat /\ 0 <= n
  BY <1>1
<1>3. Entries(0, n) \in Seq(Nat) /\ Entries(k, len) \in Seq(Nat) /\ <<len + 1>> \in Seq(Nat)
  <2>1. n \in Nat /\ k \in Nat /\ k <= len
    BY <1>2
  <2>2. Entries(0, n) \in Seq(Nat)
    BY <2>1, EntriesFirst
  <2>3. Entries(k, len) \in Seq(Nat)
    BY <2>1, EntriesType
  <2> QED
    BY <2>2, <2>3
<1>4. (Entries(0, n) \o Entries(k, len)) \o <<len + 1>> = Entries(0, n) \o (Entries(k, len) \o <<len + 1>>)
  BY <1>3, NatConcat
<1>5. Entries(k, len) \o <<len + 1>> = Entries(k, len + 1)
  <2>1. <<len + 1>> = Entries(len, len + 1)
    BY EntriesOne
  <2>2. len <= len + 1 /\ len + 1 \in Nat /\ k \in Nat /\ k <= len
    BY <1>2
  <2>3. Entries(k, len) \o Entries(len, len + 1) = Entries(k, len + 1)
    BY <2>2, EntriesJoin
  <2> QED
    BY <2>1, <2>3
<1>6. x \o <<len + 1>> = Entries(0, n) \o Entries(k, len + 1)
  BY <1>1, <1>4, <1>5
<1> QED
  BY <1>1, <1>2, <1>6 DEF Whole

(* A part of the log is one of a longer log.                               *)
LEMMA PartGrows == ASSUME NEW len \in Nat, NEW x, Part(x, len) PROVE Part(x, len + 1)
<1>1. PICK n, k, m : n \in 0..len /\ k \in 0..n /\ m \in k..len /\ x = Entries(0, n) \o Entries(k, m)
  BY DEF Part
<1>2. n \in 0..(len + 1) /\ m \in k..(len + 1)
  BY <1>1
<1> QED
  BY <1>1, <1>2 DEF Part

(* What a client that is served was shown is a part.                       *)
LEMMA WholeIsPart == ASSUME NEW len \in Nat, NEW x, Whole(x, len) PROVE Part(x, len)
<1>1. PICK n, k : n \in 0..len /\ k \in 0..n /\ x = Entries(0, n) \o Entries(k, len)
  BY DEF Whole
<1>2. len \in k..len
  BY <1>1
<1> QED
  BY <1>1, <1>2 DEF Part

(* A beginning of what was shown is one of the log. *)
LEMMA PartBegins ==
    ASSUME NEW len \in Nat, NEW x \in Seq(Nat), NEW y \in Seq(Nat), Part(x \o y, len)
    PROVE  Part(x, len)
<1>1. PICK n, k, m : n \in 0..len /\ k \in 0..n /\ m \in k..len /\ x \o y = Entries(0, n) \o Entries(k, m)
  BY DEF Part
<1>2. n \in Nat /\ k \in Nat /\ m \in Nat /\ k <= m /\ m <= len /\ n <= len /\ k <= n /\ 0 <= n /\ 0 \in Nat
  BY <1>1
<1>3. PICK u, v : u = Entries(0, n) /\ v = Entries(k, m)
  OBVIOUS
<1>4. u \in Seq(Nat) /\ Len(u) = n /\ \A i \in 1..n : u[i] = i
  BY <1>2, <1>3, EntriesFirst
<1>5. v \in Seq(Nat) /\ Len(v) = m - k /\ \A i \in 1..(m - k) : v[i] = k + i
  BY <1>2, <1>3, EntriesType
<1>6. PICK l : l = Len(x)
  OBVIOUS
<1>7. l \in Nat /\ l <= n + (m - k) /\ \A i \in 1..l : x[i] = (u \o v)[i]
  <2>1. l \in Nat /\ Len(x \o y) = l + Len(y) /\ Len(y) \in Nat /\ \A i \in 1..l : (x \o y)[i] = x[i]
    BY <1>6
  <2>2. x \o y = u \o v
    BY <1>1, <1>3
  <2>3. Len(u \o v) = n + (m - k)
    <3>1. Len(u \o v) = Len(u) + Len(v)
      BY <1>4, <1>5, ConcatNat
    <3> QED
      BY <3>1, <1>4, <1>5
  <2>4. l <= n + (m - k)
    BY <1>2, <2>1, <2>2, <2>3
  <2> QED
    BY <2>1, <2>2, <2>4
<1>8. CASE l <= n
  <2>1. l \in 0..len /\ l \in 0..l /\ l \in l..len
    BY <1>2, <1>7, <1>8
  <2>2. PICK w : w = Entries(0, l)
    OBVIOUS
  <2>3. w \in Seq(Nat) /\ Len(w) = l /\ \A i \in 1..l : w[i] = i
    BY <1>7, <2>2, EntriesFirst
  <2>4. ASSUME NEW i \in 1..l PROVE x[i] = w[i]
    <3>1. (u \o v)[i] = u[i] /\ u[i] = i
      BY <1>2, <1>4, <1>5, <1>7, <1>8
    <3> QED
      BY <3>1, <2>3, <1>7
  <2>5. x = w
    BY <2>3, <2>4, <1>6, SeqEqual
  <2>6. w \o Entries(l, l) = w
    <3>1. Entries(l, l) = <<>>
      BY <1>7, EntriesOne
    <3> QED
      BY <2>3, <3>1
  <2>7. x = Entries(0, l) \o Entries(l, l)
    BY <2>2, <2>5, <2>6
  <2> QED
    BY <2>1, <2>7 DEF Part
<1>9. CASE ~(l <= n)
  <2>1. PICK j : j = k + (l - n)
    OBVIOUS
  <2>2. j \in k..len /\ j \in Nat /\ k <= j /\ j <= m /\ j - k = l - n
    BY <1>2, <1>7, <1>9, <2>1
  <2>3. PICK w : w = Entries(k, j)
    OBVIOUS
  <2>4. w \in Seq(Nat) /\ Len(w) = l - n /\ \A i \in 1..(l - n) : w[i] = k + i
    BY <1>2, <2>2, <2>3, EntriesType
  <2>5. u \o w \in Seq(Nat) /\ Len(u \o w) = l
    <3>1. n + (l - n) = l
      BY <1>2, <1>7
    <3> QED
      BY <1>4, <2>4, <3>1, ConcatNat
  <2>6. ASSUME NEW i \in 1..l PROVE x[i] = (u \o w)[i]
    <3>1. x[i] = (u \o v)[i]
      BY <1>7
    <3>2. CASE i <= n
      BY <3>1, <3>2, <1>2, <1>4, <1>5, <1>7, <2>4, <2>5
    <3>3. CASE ~(i <= n)
      <4>1. i - n \in 1..(l - n) /\ i - n \in 1..(m - k)
        BY <1>2, <1>7, <3>3
      <4>2. (u \o v)[i] = v[i - n]
        <5>1. i \in 1..(n + (m - k))
          BY <1>2, <1>7
        <5>2. u \in Seq(Nat) /\ v \in Seq(Nat) /\ i \in 1..(Len(u) + Len(v)) /\ ~(i <= Len(u)) /\ Len(u) = n
          BY <5>1, <1>4, <1>5, <3>3
        <5>3. (u \o v)[i] = v[i - Len(u)]
          BY <5>2, ConcatNat
        <5> QED
          BY <5>2, <5>3
      <4>3. (u \o w)[i] = w[i - n]
        <5>1. i \in 1..(n + (l - n))
          BY <1>2, <1>7
        <5>2. u \in Seq(Nat) /\ w \in Seq(Nat) /\ i \in 1..(Len(u) + Len(w)) /\ ~(i <= Len(u)) /\ Len(u) = n
          BY <5>1, <1>4, <2>4, <3>3
        <5>3. (u \o w)[i] = w[i - Len(u)]
          BY <5>2, ConcatNat
        <5> QED
          BY <5>2, <5>3
      <4> QED
        BY <3>1, <4>1, <4>2, <4>3, <1>5, <2>4
    <3> QED
      BY <3>2, <3>3
  <2>7. x = u \o w
    BY <2>5, <2>6, <1>6, SeqEqual
  <2> QED
    BY <1>1, <1>3, <2>2, <2>3, <2>7 DEF Part
<1> QED
  BY <1>8, <1>9

-----------------------------------------------------------------------------
(* The invariant of the hub and its clients.                               *)

Held == IF tlog.holder = NoAdder THEN <<>> ELSE <<tlog.len>>
(* What the hub will still send to the clients it serves. *)
Coming == hub.queue \o Held
(* What was sent to a client. *)
Had(c) == ws[c].got \o FlattenSeq(ws[c].send)
(* The hub has registered the client and is about to show it the log. *)
Awaits(c) == hub.pc = "snapshot" /\ hub.for = c

(* A client has all its fields. *)
IsClient(w) ==
    /\ w = [pc |-> w.pc, send |-> w.send, open |-> w.open, got |-> w.got]
    /\ w.pc \in {"off", "registering", "up", "leaving", "gone"}
    /\ w.send \in Seq(Seq(Nat)) /\ w.got \in Seq(Nat)

HubTypes ==
    /\ tlog = [len |-> tlog.len, holder |-> tlog.holder]
    /\ tlog.len \in Nat /\ tlog.holder \in Adders \cup {NoAdder}
    /\ hub = [pc |-> hub.pc, for |-> hub.for, queue |-> hub.queue, clients |-> hub.clients, stopped |-> hub.stopped]
    /\ hub.pc \in {"select", "snapshot", "stopped"}
    /\ hub.queue \in Seq(Nat) /\ hub.clients \subseteq WSClients
    /\ ws = [c \in WSClients |-> ws[c]]
    /\ \A c \in WSClients : IsClient(ws[c])

(* The entries on their way to the hub are the last of the log. *)
OnTheirWay == \E p \in 0..tlog.len : Coming = Entries(p, tlog.len)

Served(c) ==
    /\ ws[c].pc \in {"off", "registering"} => ws[c].got = <<>> /\ ws[c].send = <<>>
    /\ c \in hub.clients => ws[c].pc \in {"up", "leaving"}
    /\ Awaits(c) => c \in hub.clients /\ ws[c].got = <<>> /\ ws[c].send = <<>>
    /\ c \in hub.clients /\ ~Awaits(c) => Whole(Had(c) \o Coming, tlog.len)
    /\ c \notin hub.clients => Part(Had(c), tlog.len)

HubInv == HubTypes /\ OnTheirWay /\ \A c \in WSClients : Served(c)

(* What a client had is a sequence of entries.                             *)
LEMMA HadType ==
    ASSUME HubTypes, NEW c \in WSClients
    PROVE  FlattenSeq(ws[c].send) \in Seq(Nat) /\ Had(c) \in Seq(Nat)
<1>1. ws[c].send \in Seq(Seq(Nat)) /\ ws[c].got \in Seq(Nat)
  BY DEF HubTypes, IsClient
<1>2. FlattenSeq(ws[c].send) \in Seq(Nat)
  BY <1>1, FlattenType
<1> QED
  BY <1>1, <1>2 DEF Had

(* So is what is coming.                                                   *)
LEMMA ComingType == ASSUME HubTypes PROVE Held \in Seq(Nat) /\ Coming \in Seq(Nat)
BY DEF HubTypes, Held, Coming

(* ClientsSeeLog from the invariant. *)
LEMMA ClientsSee == ASSUME HubInv PROVE ClientsSeeLog
<1> SUFFICES ASSUME NEW c \in WSClients, ws[c].pc \in {"up", "leaving"} /\ hub.for # c
             PROVE  \E n \in 0..tlog.len : \E k \in 0..n :
                      \E m \in (IF c \in hub.clients THEN {tlog.len} ELSE k..tlog.len) :
                          Received(c) = Entries(0, n) \o Entries(k, m)
  BY DEF ClientsSeeLog
<1>0. HubTypes /\ Served(c) /\ ~Awaits(c)
  BY DEF HubInv, Awaits
<1>1. CASE c \in hub.clients
  <2>1. PICK n, k : n \in 0..tlog.len /\ k \in 0..n /\ Had(c) \o Coming = Entries(0, n) \o Entries(k, tlog.len)
    BY <1>0, <1>1 DEF Served, Whole
  <2>2. Received(c) = Had(c) \o (IF c \in hub.clients THEN Coming ELSE <<>>)
    BY Zenon DEF Received, Had, Coming, Held
  <2> QED
    BY <1>1, <2>1, <2>2
<1>2. CASE c \notin hub.clients
  <2>1. PICK n, k, m : n \in 0..tlog.len /\ k \in 0..n /\ m \in k..tlog.len
                       /\ Had(c) = Entries(0, n) \o Entries(k, m)
    BY <1>0, <1>2 DEF Served, Part
  <2>2. Had(c) \in Seq(Nat) /\ Had(c) \o <<>> = Had(c)
    BY <1>0, HadType
  <2>3. Received(c) = Had(c)
    BY <1>2, <2>2 DEF Received, Had
  <2> QED
    BY <1>2, <2>1, <2>3
<1> QED
  BY <1>1, <1>2

(* Nobody has seen anything of an empty log.                               *)
LEMMA HubInvInit == ASSUME HubInit PROVE HubInv
<1>1. tlog.len = 0 /\ tlog.holder = NoAdder /\ hub.queue = <<>> /\ hub.clients = {} /\ hub.pc = "select"
  BY DEF HubInit
<1>2. ASSUME NEW c \in WSClients
      PROVE  ws[c] = [pc |-> "off", send |-> <<>>, open |-> TRUE, got |-> <<>>]
  BY DEF HubInit
<1>3. HubTypes
  <2>1. tlog = [len |-> 0, holder |-> NoAdder]
        /\ hub = [pc |-> "select", for |-> "none", queue |-> <<>>, clients |-> {}, stopped |-> FALSE]
    BY DEF HubInit
  <2>2. ws = [c \in WSClients |-> ws[c]]
    BY DEF HubInit
  <2>3. ASSUME NEW c \in WSClients PROVE IsClient(ws[c])
    <3>1. PICK w : w = ws[c]
      OBVIOUS
    <3>2. w = [pc |-> "off", send |-> <<>>, open |-> TRUE, got |-> <<>>]
      BY <1>2, <3>1
    <3>3. <<>> \in Seq(Seq(Nat)) /\ <<>> \in Seq(Nat)
      OBVIOUS
    <3>4. IsClient(w)
      BY <3>2, <3>3 DEF IsClient
    <3> QED
      BY <3>1, <3>4
  <2> QED
    BY <2>1, <2>2, <2>3 DEF HubTypes
<1>4. OnTheirWay
  <2>1. Coming = <<>> /\ Entries(0, 0) = <<>>
    BY <1>1, EntriesOne DEF Coming, Held
  <2> QED
    BY <1>1, <2>1 DEF OnTheirWay
<1>5. ASSUME NEW c \in WSClients PROVE Served(c)
  <2>1. Had(c) = <<>>
    BY <1>2 DEF Had, FlattenSeq
  <2>2. Entries(0, 0) \o Entries(0, 0) = <<>>
    BY EntriesOne
  <2>3. Part(Had(c), 0)
    BY <2>1, <2>2 DEF Part
  <2> QED
    BY <1>1, <1>2, <2>3 DEF Served, Awaits
<1> QED
  BY <1>3, <1>4, <1>5 DEF HubInv

-----------------------------------------------------------------------------
(* Steps of the hub and its clients.                                       *)

(* One client changes, and the hub with it. *)
LEMMA OneClient ==
    ASSUME HubTypes, NEW c \in WSClients, NEW w, IsClient(w), ws' = [ws EXCEPT ![c] = w]
    PROVE  /\ ws' = [d \in WSClients |-> ws'[d]]
           /\ \A d \in WSClients : IsClient(ws'[d])
           /\ ws'[c] = w /\ \A d \in WSClients : d # c => ws'[d] = ws[d]
<1>1. ws = [d \in WSClients |-> ws[d]] /\ \A d \in WSClients : IsClient(ws[d])
  BY DEF HubTypes
<1>2. ws' = [d \in WSClients |-> IF d = c THEN w ELSE ws[d]]
  BY <1>1
<1> QED
  BY <1>1, <1>2

(* What the steps of the clients and of the hub write. *)
LEMMA MoveEffect ==
    ASSUME HubTypes, NEW c \in WSClients, NEW p \in {"off", "registering", "up", "leaving", "gone"},
           ws' = [ws EXCEPT ![c].pc = p]
    PROVE  \E w : /\ IsClient(w) /\ w.pc = p /\ w.send = ws[c].send /\ w.got = ws[c].got
                  /\ ws' = [ws EXCEPT ![c] = w]
<1>1. PICK v : v = ws[c]
  OBVIOUS
<1>2. IsClient(v)
  BY <1>1 DEF HubTypes
<1>3. PICK w : w = [v EXCEPT !.pc = p]
  OBVIOUS
<1>4. IsClient(w) /\ w.pc = p /\ w.send = v.send /\ w.got = v.got
  BY <1>2, <1>3 DEF IsClient
<1>5. ws' = [ws EXCEPT ![c] = w]
  BY <1>1, <1>3
<1> QED
  BY <1>1, <1>4, <1>5

(* A client leaves the hub: its buffer stays what it was.                  *)
LEMMA UnregisterEffect ==
    ASSUME HubTypes, NEW c \in WSClients, HubUnregister(c)
    PROVE  \E w : /\ IsClient(w) /\ w.pc = "gone" /\ w.send = ws[c].send /\ w.got = ws[c].got
                  /\ ws' = [ws EXCEPT ![c] = w]
<1>1. PICK v : v = ws[c]
  OBVIOUS
<1>2. IsClient(v)
  BY <1>1 DEF HubTypes
<1>3. PICK w : w = [(IF c \in hub.clients THEN Closed(v) ELSE v) EXCEPT !.pc = "gone"]
  OBVIOUS
<1>4. IsClient(w) /\ w.pc = "gone" /\ w.send = v.send /\ w.got = v.got
  BY <1>2, <1>3 DEF IsClient, Closed
<1>5. ws' = [ws EXCEPT ![c] = w]
  BY <1>1, <1>3 DEF HubUnregister
<1> QED
  BY <1>1, <1>4, <1>5

(* The first message of the buffer is written.                             *)
LEMMA WriteEffect ==
    ASSUME HubTypes, NEW c \in WSClients, WritePump(c)
    PROVE  \E w : /\ IsClient(w) /\ w.pc = ws[c].pc /\ ws[c].send # <<>>
                  /\ w.send = Tail(ws[c].send) /\ w.got = ws[c].got \o Head(ws[c].send)
                  /\ ws' = [ws EXCEPT ![c] = w]
<1>1. PICK v : v = ws[c]
  OBVIOUS
<1>2. IsClient(v) /\ v.send # <<>>
  BY <1>1 DEF HubTypes, WritePump
<1>3. PICK w : w = [v EXCEPT !.send = Tail(v.send), !.got = v.got \o Head(v.send)]
  OBVIOUS
<1>4. Tail(v.send) \in Seq(Seq(Nat)) /\ v.got \o Head(v.send) \in Seq(Nat)
  BY <1>2 DEF IsClient
<1>5. IsClient(w) /\ w.pc = v.pc /\ w.send = Tail(v.send) /\ w.got = v.got \o Head(v.send)
  BY <1>2, <1>3, <1>4 DEF IsClient
<1>6. ws' = [ws EXCEPT ![c] = w]
  <2>1. ws' = [ws EXCEPT ![c].send = Tail(@), ![c].got = @ \o Head(ws[c].send)]
    BY DEF WritePump
  <2>2. ws = [d \in WSClients |-> ws[d]]
    BY DEF HubTypes
  <2> QED
    BY <1>1, <1>2, <1>3, <2>1, <2>2 DEF IsClient
<1> QED
  BY <1>1, <1>2, <1>5, <1>6

(* The log is the first message of a client.                               *)
LEMMA SnapshotEffect ==
    ASSUME HubTypes, NEW c \in WSClients, SendSnapshot(c), ws[c].send = <<>>
    PROVE  \E w : /\ IsClient(w) /\ w.pc = ws[c].pc /\ w.send = <<Entries(0, tlog.len)>> /\ w.got = ws[c].got
                  /\ ws' = [ws EXCEPT ![c] = w]
<1>1. PICK v : v = ws[c]
  OBVIOUS
<1>2. IsClient(v) /\ v.send = <<>>
  BY <1>1 DEF HubTypes
<1>3. PICK e : e = Entries(0, tlog.len)
  OBVIOUS
<1>4. <<e>> \in Seq(Seq(Nat)) /\ Append(v.send, e) = <<e>>
  BY <1>2, <1>3, EntriesFirst DEF HubTypes
<1>5. PICK w : w = [v EXCEPT !.send = <<e>>]
  OBVIOUS
<1>6. IsClient(w) /\ w.pc = v.pc /\ w.send = <<e>> /\ w.got = v.got
  BY <1>2, <1>4, <1>5 DEF IsClient
<1>7. ws' = [ws EXCEPT ![c] = w]
  <2>1. Len(ws[c].send) < SendCap
    BY <1>1, <1>2, LogHubAssumption
  <2>2. ws' = [ws EXCEPT ![c].send = Append(@, Entries(0, tlog.len))]
    BY <2>1 DEF SendSnapshot
  <2> QED
    BY <2>2, <1>1, <1>3, <1>4, <1>5
<1> QED
  BY <1>1, <1>3, <1>6, <1>7

(* A broadcast drops the clients whose buffer is full and sends to the     *)
(* others.                                                                 *)
LEMMA BroadcastEffect ==
    ASSUME HubTypes, HubBroadcast
    PROVE  \E full :
             /\ full \subseteq hub.clients /\ hub'.clients = hub.clients \ full
             /\ ws' = [c \in WSClients |-> ws'[c]]
             /\ \A c \in WSClients : IsClient(ws'[c]) /\ ws'[c].got = ws[c].got /\ ws'[c].pc = ws[c].pc
             /\ \A c \in WSClients : c \notin hub.clients => ws'[c] = ws[c]
             /\ \A c \in full : ws'[c].send = ws[c].send
             /\ \A c \in hub.clients \ full : ws'[c].send = Append(ws[c].send, <<Head(hub.queue)>>)
<1>1. PICK full : /\ full = {c \in hub.clients : Len(ws[c].send) >= SendCap}
                  /\ hub' = [hub EXCEPT !.queue = Tail(@), !.clients = @ \ full]
                  /\ ws' = [c \in WSClients |->
                             CASE c \in full -> Closed(ws[c])
                               [] c \in hub.clients \ full ->
                                    [ws[c] EXCEPT !.send = Append(@, <<Head(hub.queue)>>)]
                               [] OTHER -> ws[c]]
  BY DEF HubBroadcast
<1>2. full \subseteq hub.clients /\ hub.clients \subseteq WSClients /\ hub'.clients = hub.clients \ full
  BY <1>1 DEF HubTypes
<1>3. <<Head(hub.queue)>> \in Seq(Nat)
  BY DEF HubTypes, HubBroadcast
<1>4. ASSUME NEW c \in WSClients, c \notin hub.clients
      PROVE  ws'[c] = ws[c] /\ IsClient(ws'[c])
  BY <1>1, <1>2, <1>4 DEF HubTypes
<1>5. ASSUME NEW c \in full
      PROVE  IsClient(ws'[c]) /\ ws'[c].send = ws[c].send /\ ws'[c].got = ws[c].got /\ ws'[c].pc = ws[c].pc
  <2>1. ws'[c] = Closed(ws[c]) /\ IsClient(ws[c])
    BY <1>1, <1>2, <1>5 DEF HubTypes
  <2> QED
    BY <2>1 DEF Closed, IsClient
<1>6. ASSUME NEW c \in hub.clients \ full
      PROVE  /\ IsClient(ws'[c]) /\ ws'[c].send = Append(ws[c].send, <<Head(hub.queue)>>)
             /\ ws'[c].got = ws[c].got /\ ws'[c].pc = ws[c].pc
  <2>1. PICK h, v : h = <<Head(hub.queue)>> /\ v = ws[c]
    OBVIOUS
  <2>2. ws'[c] = [v EXCEPT !.send = Append(v.send, h)] /\ IsClient(v)
    BY <1>1, <1>2, <1>6, <2>1 DEF HubTypes
  <2>3. Append(v.send, h) \in Seq(Seq(Nat))
    BY <1>3, <2>1, <2>2 DEF IsClient
  <2>4. PICK u : u = ws'[c]
    OBVIOUS
  <2>5. IsClient(u) /\ u.send = Append(v.send, h) /\ u.got = v.got /\ u.pc = v.pc
    BY <2>2, <2>3, <2>4 DEF IsClient
  <2> QED
    BY <2>1, <2>4, <2>5
<1>7. ws' = [c \in WSClients |-> ws'[c]]
  BY <1>1
<1>8. ASSUME NEW c \in WSClients PROVE IsClient(ws'[c]) /\ ws'[c].got = ws[c].got /\ ws'[c].pc = ws[c].pc
  BY <1>4, <1>5, <1>6
<1> QED
  BY <1>2, <1>4, <1>5, <1>6, <1>7, <1>8

(* The hub stops: buffers stay what they were.                             *)
LEMMA StopEffect ==
    ASSUME HubTypes, HubStops
    PROVE  /\ ws' = [c \in WSClients |-> ws'[c]]
           /\ \A c \in WSClients :
                /\ IsClient(ws'[c]) /\ ws'[c].got = ws[c].got /\ ws'[c].pc = ws[c].pc /\ ws'[c].send = ws[c].send
                /\ c \notin hub.clients => ws'[c] = ws[c]
<1>1. ws' = [c \in WSClients |-> IF c \in hub.clients THEN Closed(ws[c]) ELSE ws[c]]
  BY DEF HubStops
<1>2. ASSUME NEW c \in WSClients
      PROVE  /\ IsClient(ws'[c]) /\ ws'[c].got = ws[c].got /\ ws'[c].pc = ws[c].pc /\ ws'[c].send = ws[c].send
             /\ c \notin hub.clients => ws'[c] = ws[c]
  <2>1. PICK v, u : v = ws[c] /\ u = ws'[c]
    OBVIOUS
  <2>2. IsClient(v)
    BY <2>1 DEF HubTypes
  <2>3. u = v \/ (u = Closed(v) /\ c \in hub.clients)
    BY <1>1, <2>1
  <2>4. IsClient(u) /\ u.got = v.got /\ u.pc = v.pc /\ u.send = v.send
    BY <2>2, <2>3 DEF Closed, IsClient
  <2> QED
    BY <2>1, <2>3, <2>4
<1> QED
  BY <1>1, <1>2

(* A client of which a step changes nothing. *)
LEMMA ServedKept ==
    ASSUME NEW c \in WSClients, Served(c), ws'[c] = ws[c], (c \in hub'.clients) = (c \in hub.clients),
           Awaits(c)' = Awaits(c), Coming' = Coming, tlog'.len = tlog.len
    PROVE  Served(c)'
<1>1. Had(c)' = Had(c)
  BY DEF Had
<1> QED
  BY <1>1 DEF Served

(* A client that is not served any more has a part. *)
LEMMA ServedDropped ==
    ASSUME HubTypes, NEW c \in WSClients, Served(c), c \in hub.clients, ~Awaits(c), c \notin hub'.clients,
           ws'[c].pc = ws[c].pc \/ ws'[c].pc = "gone",
           ws'[c].got = ws[c].got, ws'[c].send = ws[c].send, tlog' = tlog, ~Awaits(c)'
    PROVE  Served(c)'
<1>1. Had(c)' = Had(c)
  BY DEF Had
<1>2. Whole(Had(c) \o Coming, tlog.len)
  BY DEF Served
<1>3. Part(Had(c) \o Coming, tlog.len)
  BY <1>2, WholeIsPart DEF HubTypes
<1>4. Part(Had(c), tlog.len)
  BY <1>3, HadType, ComingType, PartBegins DEF HubTypes
<1>5. ws[c].pc \in {"up", "leaving"}
  BY DEF Served
<1> QED
  BY <1>1, <1>4, <1>5 DEF Served

(* What the log and the hub keep, given what becomes of the clients. *)
LEMMA TypesFrom ==
    ASSUME HubTypes, ws' = [d \in WSClients |-> ws'[d]], \A d \in WSClients : IsClient(ws'[d]),
           tlog' = tlog, NEW p \in {"select", "snapshot", "stopped"}, NEW f, NEW q \in Seq(Nat),
           NEW C \in SUBSET WSClients, NEW b,
           hub' = [pc |-> p, for |-> f, queue |-> q, clients |-> C, stopped |-> b]
    PROVE  HubTypes'
<1>1. hub'.pc = p /\ hub'.for = f /\ hub'.queue = q /\ hub'.clients = C /\ hub'.stopped = b
  OBVIOUS
<1>2. hub' = [pc |-> hub'.pc, for |-> hub'.for, queue |-> hub'.queue, clients |-> hub'.clients,
              stopped |-> hub'.stopped]
  BY <1>1
<1>3. tlog' = [len |-> tlog'.len, holder |-> tlog'.holder] /\ tlog'.len \in Nat
      /\ tlog'.holder \in Adders \cup {NoAdder}
  BY DEF HubTypes
<1> QED
  BY <1>1, <1>2, <1>3 DEF HubTypes

(* The entries on their way are the same when neither log nor channel      *)
(* change.                                                                 *)
LEMMA ComingSame ==
    ASSUME tlog' = tlog, hub'.queue = hub.queue PROVE Coming' = Coming /\ (OnTheirWay => OnTheirWay')
<1>1. Coming' = Coming
  BY DEF Coming, Held
<1> QED
  BY <1>1 DEF OnTheirWay

(* Nothing of the log, the hub and the clients changes. *)
LEMMA HubQuiet == ASSUME HubInv, tlog' = tlog, hub' = hub, ws' = ws PROVE HubInv'
<1>1. HubTypes'
  BY DEF HubInv, HubTypes
<1>2. OnTheirWay' /\ Coming' = Coming
  BY ComingSame DEF HubInv
<1>3. ASSUME NEW c \in WSClients PROVE Served(c)'
  BY <1>2, ServedKept DEF HubInv, Awaits
<1> QED
  BY <1>1, <1>2, <1>3 DEF HubInv

(* An entry is added: it is on its way, behind the others. *)
LEMMA AddStep == ASSUME HubInv, NEW a \in Adders, AddEntry(a) PROVE HubInv'
<1>0. HubTypes /\ OnTheirWay /\ hub' = hub /\ ws' = ws
  BY DEF HubInv, AddEntry
<1>1. PICK len : len = tlog.len
  OBVIOUS
<1>2. len \in Nat /\ tlog.holder = NoAdder /\ tlog' = [len |-> len + 1, holder |-> a] /\ a # NoAdder
  BY <1>0, <1>1, LogHubAssumption DEF AddEntry, HubTypes
<1>3. tlog'.len = len + 1 /\ tlog'.holder = a
  BY <1>2
<1>4. HubTypes'
  BY <1>0, <1>2, <1>3 DEF HubTypes
<1>5. PICK q : q = hub.queue
  OBVIOUS
<1>6. q \in Seq(Nat) /\ Coming = q /\ Coming' = q \o <<len + 1>>
  <2>1. q \in Seq(Nat) /\ q \o <<>> = q
    BY <1>0, <1>5 DEF HubTypes
  <2>2. Held = <<>> /\ Held' = <<len + 1>>
    BY <1>2, <1>3 DEF Held
  <2> QED
    BY <2>1, <2>2, <1>0, <1>5 DEF Coming
<1>7. OnTheirWay'
  <2>1. PICK p \in 0..len : q = Entries(p, len)
    BY <1>0, <1>1, <1>6 DEF OnTheirWay
  <2>2. Entries(p, len) \o Entries(len, len + 1) = Entries(p, len + 1)
    <3>1. p \in Nat /\ len + 1 \in Nat /\ p <= len /\ len <= len + 1
      BY <1>2, <2>1
    <3> QED
      BY <3>1, <1>2, EntriesJoin
  <2>3. Entries(len, len + 1) = <<len + 1>>
    BY <1>2, EntriesOne
  <2>4. q \o <<len + 1>> = Entries(p, len + 1) /\ p \in 0..(len + 1)
    BY <1>2, <2>1, <2>2, <2>3
  <2> QED
    BY <2>4, <1>3, <1>6 DEF OnTheirWay
<1>8. ASSUME NEW c \in WSClients PROVE Served(c)'
  <2>1. Had(c)' = Had(c) /\ Awaits(c)' = Awaits(c) /\ Served(c)
    BY <1>0 DEF Had, Awaits, HubInv
  <2>2. ASSUME c \in hub.clients /\ ~Awaits(c) PROVE Whole(Had(c) \o (q \o <<len + 1>>), len + 1)
    <3>1. Whole(Had(c) \o q, len)
      BY <1>1, <1>6, <2>1, <2>2 DEF Served
    <3>2. Whole((Had(c) \o q) \o <<len + 1>>, len + 1)
      BY <1>2, <3>1, WholeGrows
    <3>3. Had(c) \in Seq(Nat) /\ <<len + 1>> \in Seq(Nat)
      BY <1>0, <1>2, HadType
    <3>4. (Had(c) \o q) \o <<len + 1>> = Had(c) \o (q \o <<len + 1>>)
      BY <1>6, <3>3, NatConcat
    <3> QED
      BY <3>2, <3>4
  <2>3. ASSUME c \notin hub.clients PROVE Part(Had(c), len + 1)
    BY <1>1, <1>2, <2>1, <2>3, PartGrows DEF Served
  <2> QED
    BY <1>0, <1>3, <1>6, <2>1, <2>2, <2>3 DEF Served
<1> QED
  BY <1>4, <1>7, <1>8 DEF HubInv

(* An entry moves from the hands of who added it to the channel. *)
LEMMA BroadcastStep == ASSUME HubInv, NEW a \in Adders, Broadcast(a) PROVE HubInv'
<1>0. HubTypes /\ OnTheirWay /\ ws' = ws
  BY DEF HubInv, Broadcast
<1>1. PICK q, len : q = hub.queue /\ len = tlog.len
  OBVIOUS
<1>2. q \in Seq(Nat) /\ len \in Nat /\ a # NoAdder /\ tlog.holder = a
  BY <1>0, <1>1, LogHubAssumption DEF HubTypes, Broadcast
<1>3. tlog' = [len |-> len, holder |-> NoAdder]
  BY <1>0, <1>1 DEF HubTypes, Broadcast
<1>4. hub' = [pc |-> hub.pc, for |-> hub.for, queue |-> Append(q, len), clients |-> hub.clients,
              stopped |-> hub.stopped]
  BY <1>0, <1>1 DEF HubTypes, Broadcast
<1>5. HubTypes'
  <2>1. Append(q, len) \in Seq(Nat)
    BY <1>2
  <2>2. tlog'.len = len /\ tlog'.holder = NoAdder
    BY <1>3
  <2> QED
    BY <1>0, <1>2, <1>3, <1>4, <2>1, <2>2 DEF HubTypes
<1>6. Coming' = Coming
  <2>1. Held = <<len>> /\ Held' = <<>>
    BY <1>1, <1>2, <1>3 DEF Held
  <2>2. Append(q, len) \o <<>> = q \o <<len>>
    BY <1>2
  <2> QED
    BY <1>1, <1>4, <2>1, <2>2 DEF Coming
<1>7. tlog'.len = tlog.len
  BY <1>1, <1>3
<1>8. OnTheirWay'
  BY <1>0, <1>6, <1>7 DEF OnTheirWay
<1>9. ASSUME NEW c \in WSClients PROVE Served(c)'
  BY <1>0, <1>4, <1>6, <1>7, ServedKept DEF HubInv, Awaits
<1> QED
  BY <1>5, <1>8, <1>9 DEF HubInv

(* One client changes, and neither the log nor the channel. *)
LEMMA ClientStep ==
    ASSUME HubInv, NEW c \in WSClients, NEW w, IsClient(w), ws' = [ws EXCEPT ![c] = w], tlog' = tlog,
           NEW p \in {"select", "snapshot", "stopped"}, NEW f, NEW C \in SUBSET WSClients, NEW b,
           hub' = [pc |-> p, for |-> f, queue |-> hub.queue, clients |-> C, stopped |-> b],
           C \ {c} = hub.clients \ {c}, \A d \in WSClients \ {c} : Awaits(d)' = Awaits(d), Served(c)'
    PROVE  HubInv'
<1>1. HubTypes
  BY DEF HubInv
<1>2. /\ ws' = [d \in WSClients |-> ws'[d]] /\ \A d \in WSClients : IsClient(ws'[d])
      /\ \A d \in WSClients : d # c => ws'[d] = ws[d]
  BY <1>1, OneClient
<1>3. HubTypes'
  <2>1. hub.queue \in Seq(Nat)
    BY <1>1 DEF HubTypes
  <2> QED
    BY <1>1, <1>2, <2>1, TypesFrom
<1>4. hub'.queue = hub.queue /\ hub'.clients = C
  OBVIOUS
<1>5. OnTheirWay' /\ Coming' = Coming
  BY <1>4, ComingSame DEF HubInv
<1>6. ASSUME NEW d \in WSClients, d # c PROVE Served(d)'
  BY <1>2, <1>4, <1>5, <1>6, ServedKept DEF HubInv
<1> QED
  BY <1>3, <1>5, <1>6 DEF HubInv

(* The hub and its clients as records, for the steps that leave the hub. *)
LEMMA HubIs ==
    ASSUME HubTypes
    PROVE  /\ hub = [pc |-> hub.pc, for |-> hub.for, queue |-> hub.queue, clients |-> hub.clients, stopped |-> hub.stopped]
           /\ hub.pc \in {"select", "snapshot", "stopped"} /\ hub.clients \in SUBSET WSClients
BY DEF HubTypes

(* A client connects.                                                      *)
LEMMA ConnectStep == ASSUME HubInv, NEW c \in WSClients, Connect(c) PROVE HubInv'
<1>0. HubTypes /\ Served(c) /\ hub' = hub /\ tlog' = tlog /\ ws[c].pc = "off"
  BY DEF HubInv, Connect
<1>1. PICK w : /\ IsClient(w) /\ w.pc = "registering" /\ w.send = ws[c].send /\ w.got = ws[c].got
               /\ ws' = [ws EXCEPT ![c] = w]
  BY <1>0, MoveEffect DEF Connect
<1>2. ws'[c] = w
  BY <1>0, <1>1, OneClient
<1>3. Had(c)' = Had(c) /\ \A d \in WSClients : Awaits(d)' = Awaits(d)
  BY <1>0, <1>1, <1>2 DEF Had, Awaits
<1>4. Served(c)'
  BY <1>0, <1>1, <1>2, <1>3 DEF Served
<1> QED
  BY <1>0, <1>1, <1>3, <1>4, HubIs, ClientStep

(* The hub registers a client; nothing is sent before the log.             *)
LEMMA RegisterStep == ASSUME HubInv, NEW c \in WSClients, HubRegister(c) PROVE HubInv'
<1>0. HubTypes /\ Served(c) /\ tlog' = tlog /\ ws[c].pc = "registering" /\ hub.pc = "select"
  BY DEF HubInv, HubRegister
<1>1. PICK w : /\ IsClient(w) /\ w.pc = "up" /\ w.send = ws[c].send /\ w.got = ws[c].got
               /\ ws' = [ws EXCEPT ![c] = w]
  BY <1>0, MoveEffect DEF HubRegister
<1>2. ws'[c] = w
  BY <1>0, <1>1, OneClient
<1>3. PICK C : C = hub.clients \cup {c}
  OBVIOUS
<1>4. C \in SUBSET WSClients /\ C \ {c} = hub.clients \ {c} /\ c \in C
  BY <1>0, <1>3, HubIs
<1>5. hub' = [pc |-> "snapshot", for |-> c, queue |-> hub.queue, clients |-> C, stopped |-> hub.stopped]
  BY <1>0, <1>3, HubIs DEF HubRegister
<1>6. \A d \in WSClients \ {c} : Awaits(d)' = Awaits(d)
  BY <1>0, <1>5 DEF Awaits
<1>7. Served(c)'
  <2>1. w.got = <<>> /\ w.send = <<>>
    BY <1>0, <1>1 DEF Served
  <2>2. Awaits(c)' /\ hub'.clients = C
    BY <1>5 DEF Awaits
  <2> QED
    BY <1>1, <1>2, <1>4, <2>1, <2>2 DEF Served
<1> QED
  BY <1>0, <1>1, <1>4, <1>5, <1>6, <1>7, ClientStep

(* The client is shown the log, and what is on its way will follow. *)
LEMMA SnapshotStep == ASSUME HubInv, NEW c \in WSClients, SendSnapshot(c) PROVE HubInv'
<1>0. /\ HubTypes /\ Served(c) /\ OnTheirWay /\ tlog' = tlog /\ Awaits(c) /\ tlog.holder = NoAdder
      /\ c \in hub.clients /\ ws[c].got = <<>> /\ ws[c].send = <<>>
  BY DEF HubInv, SendSnapshot, Awaits, Served
<1>1. PICK w : /\ IsClient(w) /\ w.pc = ws[c].pc /\ w.send = <<Entries(0, tlog.len)>> /\ w.got = ws[c].got
               /\ ws' = [ws EXCEPT ![c] = w]
  BY <1>0, SnapshotEffect
<1>2. ws'[c] = w
  BY <1>0, <1>1, OneClient
<1>3. hub' = [pc |-> "select", for |-> "none", queue |-> hub.queue, clients |-> hub.clients, stopped |-> hub.stopped]
  BY <1>0, HubIs DEF SendSnapshot
<1>4. \A d \in WSClients \ {c} : Awaits(d)' = Awaits(d)
  BY <1>0, <1>3 DEF Awaits
<1>5. PICK len, e : len = tlog.len /\ e = Entries(0, len)
  OBVIOUS
<1>6. len \in Nat /\ e \in Seq(Nat)
  BY <1>0, <1>5, EntriesFirst DEF HubTypes
<1>7. Had(c)' = e
  <2>1. Had(c)' = <<>> \o FlattenSeq(<<e>>)
    BY <1>0, <1>1, <1>2, <1>5 DEF Had
  <2>2. FlattenSeq(<<e>>) = <<>> \o e
    <3>1. <<>> \in Seq(Seq(Nat)) /\ Append(<<>>, e) = <<e>>
      BY <1>6
    <3>2. FlattenSeq(<<>>) = <<>>
      BY DEF FlattenSeq
    <3> QED
      BY <1>6, <3>1, <3>2, FlattenAppend
  <2> QED
    BY <1>6, <2>1, <2>2
<1>8. PICK p \in 0..len : Coming = Entries(p, len)
  BY <1>0, <1>5 DEF OnTheirWay
<1>9. Coming' = Coming
  BY <1>0, <1>3, ComingSame
<1>10. Whole(e \o Entries(p, len), len)
  <2>1. len \in 0..len
    BY <1>6
  <2> QED
    BY <1>5, <1>8, <2>1 DEF Whole
<1>11. Served(c)'
  <2>1. hub'.clients = hub.clients /\ ~Awaits(c)' /\ ws'[c].pc \in {"up", "leaving"}
    BY <1>0, <1>1, <1>2, <1>3 DEF Awaits, Served
  <2>2. Whole(Had(c)' \o Coming', tlog'.len)
    BY <1>0, <1>5, <1>7, <1>8, <1>9, <1>10
  <2> QED
    BY <1>0, <2>1, <2>2 DEF Served
<1> QED
  BY <1>0, <1>1, <1>3, <1>4, <1>11, HubIs, ClientStep

(* A client that leaves keeps what it had.                                 *)
LEMMA UnregisterStep == ASSUME HubInv, NEW c \in WSClients, HubUnregister(c) PROVE HubInv'
<1>0. HubTypes /\ Served(c) /\ tlog' = tlog /\ hub.pc = "select" /\ ~Awaits(c)
  BY DEF HubInv, HubUnregister, Awaits
<1>1. PICK w : /\ IsClient(w) /\ w.pc = "gone" /\ w.send = ws[c].send /\ w.got = ws[c].got
               /\ ws' = [ws EXCEPT ![c] = w]
  BY <1>0, UnregisterEffect
<1>2. ws'[c] = w
  BY <1>0, <1>1, OneClient
<1>3. PICK C : C = hub.clients \ {c}
  OBVIOUS
<1>4. C \in SUBSET WSClients /\ C \ {c} = hub.clients \ {c} /\ c \notin C
  BY <1>0, <1>3, HubIs
<1>5. hub' = [pc |-> hub.pc, for |-> hub.for, queue |-> hub.queue, clients |-> C, stopped |-> hub.stopped]
  BY <1>0, <1>3, HubIs DEF HubUnregister
<1>6. \A d \in WSClients : Awaits(d)' = Awaits(d)
  BY <1>0, <1>5 DEF Awaits
<1>7. Served(c)'
  <2>1. hub'.clients = C /\ ~Awaits(c)'
    BY <1>0, <1>5, <1>6
  <2>2. CASE c \in hub.clients
    BY <1>0, <1>1, <1>2, <1>4, <2>1, <2>2, ServedDropped
  <2>3. CASE c \notin hub.clients
    <3>1. Had(c)' = Had(c)
      BY <1>1, <1>2 DEF Had
    <3> QED
      BY <1>0, <1>1, <1>2, <1>4, <2>1, <2>3, <3>1 DEF Served
  <2> QED
    BY <2>2, <2>3
<1> QED
  BY <1>0, <1>1, <1>4, <1>5, <1>6, <1>7, HubIs, ClientStep

(* What the writer takes from the buffer it writes. *)
LEMMA WriteStep == ASSUME HubInv, NEW c \in WSClients, WritePump(c) PROVE HubInv'
<1>0. HubTypes /\ Served(c) /\ tlog' = tlog /\ hub' = hub /\ ws[c].pc = "up"
  BY DEF HubInv, WritePump
<1>1. PICK w : /\ IsClient(w) /\ w.pc = ws[c].pc /\ ws[c].send # <<>>
               /\ w.send = Tail(ws[c].send) /\ w.got = ws[c].got \o Head(ws[c].send)
               /\ ws' = [ws EXCEPT ![c] = w]
  BY <1>0, WriteEffect
<1>2. ws'[c] = w
  BY <1>0, <1>1, OneClient
<1>3. PICK s, g : s = ws[c].send /\ g = ws[c].got
  OBVIOUS
<1>4. s \in Seq(Seq(Nat)) /\ s # <<>> /\ g \in Seq(Nat) /\ Head(s) \in Seq(Nat) /\ Tail(s) \in Seq(Seq(Nat))
  BY <1>0, <1>1, <1>3 DEF HubTypes, IsClient
<1>5. Had(c)' = Had(c)
  <2>1. FlattenSeq(s) = Head(s) \o FlattenSeq(Tail(s))
    BY <1>4, FlattenHead
  <2>2. FlattenSeq(Tail(s)) \in Seq(Nat)
    BY <1>4, FlattenType
  <2>3. (g \o Head(s)) \o FlattenSeq(Tail(s)) = g \o (Head(s) \o FlattenSeq(Tail(s)))
    BY <1>4, <2>2, NatConcat
  <2>4. Had(c) = g \o FlattenSeq(s)
    BY <1>3 DEF Had
  <2>5. Had(c)' = (g \o Head(s)) \o FlattenSeq(Tail(s))
    BY <1>1, <1>2, <1>3 DEF Had
  <2> QED
    BY <2>1, <2>3, <2>4, <2>5
<1>6. \A d \in WSClients : Awaits(d)' = Awaits(d)
  BY <1>0 DEF Awaits
<1>7. Coming' = Coming
  BY <1>0, ComingSame
<1>8. ~Awaits(c)
  BY <1>0, <1>1 DEF Served
<1>9. Served(c)'
  BY <1>0, <1>1, <1>2, <1>5, <1>6, <1>7, <1>8 DEF Served
<1> QED
  BY <1>0, <1>1, <1>6, <1>9, HubIs, ClientStep

(* The other side closes the connection.                                   *)
LEMMA ReadStep == ASSUME HubInv, NEW c \in WSClients, ReadPump(c) PROVE HubInv'
<1>0. HubTypes /\ Served(c) /\ tlog' = tlog /\ hub' = hub /\ ws[c].pc = "up"
  BY DEF HubInv, ReadPump
<1>1. PICK w : /\ IsClient(w) /\ w.pc = "leaving" /\ w.send = ws[c].send /\ w.got = ws[c].got
               /\ ws' = [ws EXCEPT ![c] = w]
  BY <1>0, MoveEffect DEF ReadPump
<1>2. ws'[c] = w
  BY <1>0, <1>1, OneClient
<1>3. Had(c)' = Had(c) /\ Coming' = Coming
  BY <1>0, <1>1, <1>2, ComingSame DEF Had
<1>4. \A d \in WSClients : Awaits(d)' = Awaits(d)
  BY <1>0 DEF Awaits
<1>5. Served(c)'
  BY <1>0, <1>1, <1>2, <1>3, <1>4 DEF Served
<1> QED
  BY <1>0, <1>1, <1>4, <1>5, HubIs, ClientStep

(* A broadcast: the clients that have room get the entry, the others are   *)
(* dropped.                                                                *)
LEMMA HubBroadcastStep == ASSUME HubInv, HubBroadcast PROVE HubInv'
<1>0. HubTypes /\ OnTheirWay /\ tlog' = tlog /\ hub.pc = "select" /\ hub.queue # <<>>
  BY DEF HubInv, HubBroadcast
<1>1. PICK full : /\ full \subseteq hub.clients /\ hub'.clients = hub.clients \ full
                  /\ ws' = [c \in WSClients |-> ws'[c]]
                  /\ \A c \in WSClients : IsClient(ws'[c]) /\ ws'[c].got = ws[c].got /\ ws'[c].pc = ws[c].pc
                  /\ \A c \in WSClients : c \notin hub.clients => ws'[c] = ws[c]
                  /\ \A c \in full : ws'[c].send = ws[c].send
                  /\ \A c \in hub.clients \ full : ws'[c].send = Append(ws[c].send, <<Head(hub.queue)>>)
  BY <1>0, BroadcastEffect
<1>2. PICK q, h, len : q = hub.queue /\ h = <<Head(q)>> /\ len = tlog.len
  OBVIOUS
<1>3. q \in Seq(Nat) /\ q # <<>> /\ h \in Seq(Nat) /\ Tail(q) \in Seq(Nat) /\ h \o Tail(q) = q /\ len \in Nat
  BY <1>0, <1>2 DEF HubTypes
<1>4. hub' = [pc |-> hub.pc, for |-> hub.for, queue |-> Tail(q), clients |-> hub'.clients, stopped |-> hub.stopped]
  <2>1. PICK C : hub' = [hub EXCEPT !.queue = Tail(@), !.clients = C]
    BY DEF HubBroadcast
  <2> QED
    BY <2>1, <1>0, <1>2, HubIs
<1>5. hub'.clients \in SUBSET WSClients /\ hub.clients \subseteq WSClients
  BY <1>0, <1>1, HubIs
<1>6. HubTypes'
  <2>1. PICK C, z : C = hub'.clients /\ z = Tail(q)
    OBVIOUS
  <2>2. hub' = [pc |-> hub.pc, for |-> hub.for, queue |-> z, clients |-> C, stopped |-> hub.stopped]
    BY <1>4, <2>1
  <2>3. hub.pc \in {"select", "snapshot", "stopped"} /\ z \in Seq(Nat) /\ C \in SUBSET WSClients
    BY <1>0, <1>3, <1>5, <2>1
  <2>4. \A d \in WSClients : IsClient(ws'[d])
    BY <1>1
  <2>5. ws' = [d \in WSClients |-> ws'[d]]
    BY <1>1
  <2> QED
    BY <1>0, <2>2, <2>3, <2>4, <2>5, TypesFrom
<1>7. PICK r : r = Held
  OBVIOUS
<1>8. r \in Seq(Nat) /\ Coming = q \o r /\ Coming' = Tail(q) \o r
  <2>1. Held' = r
    BY <1>0, <1>7 DEF Held
  <2>2. r \in Seq(Nat)
    BY <1>0, <1>7, ComingType
  <2>3. hub'.queue = Tail(q)
    BY <1>4
  <2> QED
    BY <2>1, <2>2, <2>3, <1>2, <1>7 DEF Coming
<1>9. OnTheirWay'
  <2>1. PICK p \in 0..len : q \o r = Entries(p, len)
    BY <1>0, <1>2, <1>8 DEF OnTheirWay
  <2>2. p \in Nat /\ p <= len /\ Len(q \o r) = len - p /\ Len(q \o r) > 0
    <3>1. Len(Entries(p, len)) = len - p
      BY <1>3, <2>1, EntriesType
    <3>2. Len(q \o r) = Len(q) + Len(r) /\ Len(q) > 0 /\ Len(r) \in Nat /\ Len(q) \in Nat
      BY <1>3, <1>8, ConcatNat, EmptySeq
    <3> QED
      BY <1>3, <2>1, <3>1, <3>2
  <2>3. p + 1 \in 0..len /\ p + 1 \in Nat /\ p + 1 <= len /\ p <= p + 1
    BY <1>3, <2>2
  <2>4. Entries(p, p + 1) \o Entries(p + 1, len) = Entries(p, len)
    BY <1>3, <2>2, <2>3, EntriesJoin
  <2>5. Entries(p, p + 1) = <<p + 1>>
    BY <2>2, EntriesOne
  <2>6. PICK z : z = Entries(p + 1, len)
    OBVIOUS
  <2>7. z \in Seq(Nat) /\ <<p + 1>> \o z = q \o r
    BY <1>3, <2>1, <2>3, <2>4, <2>5, <2>6, EntriesType
  <2>8. z = Tail(<<p + 1>> \o z) /\ Tail(q) \o r = Tail(q \o r)
    <3>1. z = Tail(<<p + 1>> \o z)
      BY <2>2, <2>7
    <3>2. Tail(q) \o r = Tail(q \o r)
      BY <1>3, <1>8, TailConcat
    <3> QED
      BY <3>1, <3>2
  <2>9. Coming' = Entries(p + 1, len)
    BY <1>8, <2>6, <2>7, <2>8
  <2> QED
    BY <1>0, <1>2, <2>3, <2>9 DEF OnTheirWay
<1>10. ASSUME NEW c \in WSClients PROVE Served(c)'
  <2>1. ~Awaits(c) /\ ~Awaits(c)' /\ Served(c)
    BY <1>0, <1>4 DEF Awaits, HubInv
  <2>2. CASE c \notin hub.clients
    <3>1. ws'[c] = ws[c] /\ c \notin hub'.clients
      BY <1>1, <2>2
    <3>2. Had(c)' = Had(c)
      BY <3>1 DEF Had
    <3> QED
      BY <1>0, <2>1, <2>2, <3>1, <3>2 DEF Served
  <2>3. CASE c \in full
    <3>1. c \in hub.clients /\ c \notin hub'.clients
      BY <1>1, <2>3
    <3> QED
      BY <1>0, <1>1, <2>1, <2>3, <3>1, ServedDropped
  <2>4. CASE c \in hub.clients \ full
    <3>1. c \in hub'.clients /\ ws'[c].send = Append(ws[c].send, h) /\ ws'[c].got = ws[c].got /\ ws'[c].pc = ws[c].pc
      BY <1>1, <1>2, <2>4
    <3>2. PICK s, g : s = ws[c].send /\ g = ws[c].got
      OBVIOUS
    <3>3. s \in Seq(Seq(Nat)) /\ g \in Seq(Nat)
      BY <1>0, <3>2 DEF HubTypes, IsClient
    <3>4. PICK x : x = FlattenSeq(s)
      OBVIOUS
    <3>5. x \in Seq(Nat) /\ FlattenSeq(Append(s, h)) = x \o h
      BY <1>3, <3>3, <3>4, FlattenType, FlattenAppend
    <3>6. Had(c) = g \o x /\ Had(c)' = g \o (x \o h)
      BY <3>1, <3>2, <3>4, <3>5 DEF Had
    <3>7. (g \o (x \o h)) \o (Tail(q) \o r) = (g \o x) \o (q \o r)
      <4>1. x \o h \in Seq(Nat) /\ Tail(q) \o r \in Seq(Nat) /\ q \o r \in Seq(Nat) /\ g \o x \in Seq(Nat)
        BY <1>3, <1>8, <3>3, <3>5
      <4>2. (g \o (x \o h)) = (g \o x) \o h
        BY <1>3, <3>3, <3>5, NatConcat
      <4>3. ((g \o x) \o h) \o (Tail(q) \o r) = (g \o x) \o (h \o (Tail(q) \o r))
        BY <1>3, <4>1, NatConcat
      <4>4. h \o (Tail(q) \o r) = (h \o Tail(q)) \o r
        BY <1>3, <1>8, NatConcat
      <4> QED
        BY <1>3, <4>2, <4>3, <4>4
    <3>8. Whole(Had(c) \o Coming, tlog.len)
      BY <2>1, <2>4 DEF Served
    <3>9. Whole(Had(c)' \o Coming', tlog'.len)
      BY <1>0, <1>8, <3>6, <3>7, <3>8
    <3>10. ws[c].pc \in {"up", "leaving"}
      BY <2>1, <2>4 DEF Served
    <3> QED
      BY <2>1, <3>1, <3>9, <3>10 DEF Served
  <2> QED
    BY <2>2, <2>3, <2>4
<1> QED
  BY <1>6, <1>9, <1>10 DEF HubInv

(* The hub stops and drops every client.                                   *)
LEMMA HubStopsStep == ASSUME HubInv, HubStops PROVE HubInv'
<1>0. HubTypes /\ tlog' = tlog /\ hub.pc = "select"
  BY DEF HubInv, HubStops
<1>1. /\ ws' = [c \in WSClients |-> ws'[c]]
      /\ \A c \in WSClients :
           /\ IsClient(ws'[c]) /\ ws'[c].got = ws[c].got /\ ws'[c].pc = ws[c].pc /\ ws'[c].send = ws[c].send
           /\ c \notin hub.clients => ws'[c] = ws[c]
  BY <1>0, StopEffect
<1>2. hub' = [pc |-> "stopped", for |-> hub.for, queue |-> hub.queue, clients |-> {}, stopped |-> hub.stopped]
  BY <1>0, HubIs DEF HubStops
<1>3. hub.queue \in Seq(Nat) /\ {} \in SUBSET WSClients
  BY <1>0 DEF HubTypes
<1>4. HubTypes'
  BY <1>0, <1>1, <1>2, <1>3, TypesFrom
<1>5. hub'.queue = hub.queue /\ hub'.clients = {} /\ hub'.pc = "stopped"
  BY <1>2
<1>6. OnTheirWay'
  BY <1>0, <1>5, ComingSame DEF HubInv
<1>7. ASSUME NEW c \in WSClients PROVE Served(c)'
  <2>1. ~Awaits(c) /\ ~Awaits(c)' /\ Served(c)
    BY <1>0, <1>5 DEF Awaits, HubInv
  <2>2. CASE c \in hub.clients
    BY <1>0, <1>1, <1>5, <2>1, <2>2, ServedDropped
  <2>3. CASE c \notin hub.clients
    <3>1. Had(c)' = Had(c) /\ ws'[c] = ws[c]
      BY <1>1, <2>3 DEF Had
    <3> QED
      BY <1>0, <1>5, <2>1, <2>3, <3>1 DEF Served
  <2> QED
    BY <2>2, <2>3
<1> QED
  BY <1>4, <1>6, <1>7 DEF HubInv

(* The server is told to stop.                                             *)
LEMMA ShutdownStep == ASSUME HubInv, Shutdown PROVE HubInv'
<1>0. HubTypes /\ tlog' = tlog /\ ws' = ws /\ hub' = [hub EXCEPT !.stopped = TRUE]
  BY DEF HubInv, Shutdown
<1>1. hub' = [pc |-> hub.pc, for |-> hub.for, queue |-> hub.queue, clients |-> hub.clients, stopped |-> TRUE]
  BY <1>0, HubIs
<1>2. hub'.pc = hub.pc /\ hub'.for = hub.for /\ hub'.queue = hub.queue /\ hub'.clients = hub.clients
  BY <1>1
<1>3. HubTypes'
  BY <1>0, <1>1 DEF HubTypes
<1>4. OnTheirWay' /\ Coming' = Coming
  BY <1>0, <1>2, ComingSame DEF HubInv
<1>5. ASSUME NEW c \in WSClients PROVE Served(c)'
  BY <1>0, <1>2, <1>4, ServedKept DEF HubInv, Awaits
<1> QED
  BY <1>3, <1>4, <1>5 DEF HubInv

(* Every step keeps the invariant.                                         *)
LEMMA HubInvStep == ASSUME HubInv, [HubNext]_hubVars PROVE HubInv'
<1>1. CASE \E a \in Adders : AddEntry(a) \/ Broadcast(a)
  BY <1>1, AddStep, BroadcastStep
<1>2. CASE \E c \in WSClients : Connect(c) \/ WritePump(c) \/ ReadPump(c)
  BY <1>2, ConnectStep, WriteStep, ReadStep
<1>3. CASE \E c \in WSClients : HubRegister(c) \/ SendSnapshot(c) \/ HubUnregister(c)
  BY <1>3, RegisterStep, SnapshotStep, UnregisterStep
<1>4. CASE HubBroadcast \/ HubStops \/ Shutdown
  BY <1>4, HubBroadcastStep, HubStopsStep, ShutdownStep
<1>5. CASE FollowLog \/ LastIndex \/ PollLog \/ CheckStatus \/ LeaveLog \/ SessionEnds
  <2>1. tlog' = tlog /\ hub' = hub /\ ws' = ws
    BY <1>5 DEF FollowLog, LastIndex, PollLog, CheckStatus, LeaveLog, SessionEnds
  <2> QED
    BY <2>1, HubQuiet
<1>6. CASE UNCHANGED hubVars
  BY <1>6, HubQuiet DEF hubVars
<1> QED
  BY <1>1, <1>2, <1>3, <1>4, <1>5, <1>6 DEF HubNext, HubStep

-----------------------------------------------------------------------------
(* The log stream.                                                         *)

(* A stream has shown what there was when it last looked. *)
Following ==
    /\ follow = [pc |-> follow.pc, last |-> follow.last, got |-> follow.got, skipped |-> follow.skipped]
    /\ tlog.len \in Nat
    /\ follow.last \in 0..tlog.len /\ follow.skipped \subseteq 1..follow.last
    /\ follow.got \in Seq(Nat)
    /\ follow.pc = "off" => follow.skipped = {}
    /\ LogStreamExact

(* The first a entries but for some, in order. *)
Shows(g, a, S) ==
    g \in Seq(Nat) /\ ToSet(g) = (1..a) \ S /\ \A i, j \in DOMAIN g : i < j => g[i] < g[j]

(* More of the log is shown behind what was. *)
LEMMA ShowsMore ==
    ASSUME NEW a \in Nat, NEW b \in Nat, a <= b, NEW S, S \subseteq 1..a, NEW g, Shows(g, a, S)
    PROVE  Shows(g \o Entries(a, b), b, S)
<1>g. g \in Seq(Nat) /\ ToSet(g) = (1..a) \ S /\ \A i, j \in DOMAIN g : i < j => g[i] < g[j]
  BY DEF Shows
<1>h. PICK h : h = g \o Entries(a, b)
  OBVIOUS
<1>1. PICK e : e = Entries(a, b)
  OBVIOUS
<1>2. e \in Seq(Nat) /\ Len(e) = b - a /\ \A i \in 1..(b - a) : e[i] = a + i
  BY <1>1, EntriesType
<1>3. PICK n : n = Len(g)
  OBVIOUS
<1>4. n \in Nat /\ DOMAIN g = 1..n
  BY <1>g, <1>3
<1>5. h \in Seq(Nat) /\ DOMAIN h = 1..(n + (b - a))
  <2>1. h \in Seq(Nat) /\ Len(h) = n + (b - a)
    <3>1. g \o e \in Seq(Nat) /\ Len(g \o e) = Len(g) + Len(e)
      BY <1>g, <1>2, ConcatNat
    <3> QED
      BY <1>h, <1>1, <1>2, <1>3, <3>1
  <2> QED
    BY <2>1
<1>6. \A i \in 1..n : h[i] = g[i] /\ i \in DOMAIN h
  BY <1>g, <1>h, <1>1, <1>2, <1>3, <1>4, <1>5
<1>7. \A i \in 1..(b - a) : h[n + i] = a + i /\ n + i \in DOMAIN h
  BY <1>g, <1>h, <1>1, <1>2, <1>3, <1>4, <1>5
<1>8. ASSUME NEW i \in DOMAIN h
      PROVE  i \in 1..n \/ \E k \in 1..(b - a) : i = n + k
  <2>1. i \in 1..n \/ i - n \in 1..(b - a)
    BY <1>4, <1>5
  <2>2. i = n + (i - n)
    BY <1>4, <1>5
  <2> QED
    BY <2>1, <2>2
<1>9. \A i \in 1..n : g[i] \in (1..a) \ S
  BY <1>g, <1>4 DEF ToSet
<1>10. ToSet(h) = (1..b) \ S
  <2>1. ASSUME NEW x \in ToSet(h) PROVE x \in (1..b) \ S
    <3>1. PICK i \in DOMAIN h : x = h[i]
      BY DEF ToSet
    <3>2. CASE i \in 1..n
      BY <3>1, <3>2, <1>6, <1>9
    <3>3. CASE \E k \in 1..(b - a) : i = n + k
      <4>1. PICK k \in 1..(b - a) : i = n + k
        BY <3>3
      <4>2. x = a + k
        BY <3>1, <4>1, <1>7
      <4> QED
        BY <4>1, <4>2
    <3> QED
      BY <1>8, <3>2, <3>3
  <2>2. ASSUME NEW x \in (1..b) \ S PROVE x \in ToSet(h)
    <3>1. CASE x \in 1..a
      <4>1. PICK i \in 1..n : x = g[i]
        BY <1>g, <3>1, <2>2, <1>4 DEF ToSet
      <4> QED
        BY <4>1, <1>6 DEF ToSet
    <3>2. CASE x \notin 1..a
      <4>1. x - a \in 1..(b - a) /\ a + (x - a) = x
        BY <2>2, <3>2
      <4>2. h[n + (x - a)] = x /\ n + (x - a) \in DOMAIN h
        BY <4>1, <1>7
      <4> QED
        BY <4>2 DEF ToSet
    <3> QED
      BY <3>1, <3>2
  <2> QED
    BY <2>1, <2>2
<1>11. ASSUME NEW i \in DOMAIN h, NEW j \in DOMAIN h, i < j PROVE h[i] < h[j]
  <2>1. CASE j \in 1..n
    <3>1. i \in 1..n
      BY <1>4, <1>5, <1>11, <2>1
    <3> QED
      BY <1>g, <1>4, <1>6, <1>11, <2>1, <3>1
  <2>2. CASE \E k \in 1..(b - a) : j = n + k
    <3>1. PICK k \in 1..(b - a) : j = n + k
      BY <2>2
    <3>2. h[j] = a + k
      BY <1>7, <3>1
    <3>3. CASE i \in 1..n
      <4>1. h[i] \in 1..a
        BY <1>6, <1>9, <3>3
      <4> QED
        BY <3>1, <3>2, <4>1
    <3>4. CASE \E l \in 1..(b - a) : i = n + l
      <4>1. PICK l \in 1..(b - a) : i = n + l
        BY <3>4
      <4>2. h[i] = a + l
        BY <1>7, <4>1
      <4> QED
        BY <1>4, <1>11, <3>1, <3>2, <4>1, <4>2
    <3> QED
      BY <1>8, <3>3, <3>4
  <2> QED
    BY <1>8, <2>1, <2>2
<1> QED
  BY <1>h, <1>5, <1>10, <1>11 DEF Shows

(* A stream not opened shows nothing.                                      *)
LEMMA FollowingInit == ASSUME HubInit PROVE Following
<1>1. follow = [pc |-> "off", last |-> 0, got |-> <<>>, skipped |-> {}] /\ tlog.len = 0
  BY DEF HubInit
<1>2. ToSet(<<>>) = {} /\ DOMAIN <<>> = {} /\ 1..0 = {}
  BY DEF ToSet
<1>3. LogStreamExact
  BY <1>1, <1>2 DEF LogStreamExact
<1> QED
  BY <1>1, <1>3 DEF Following

(* Every step of the log or of the stream keeps what it shows.             *)
LEMMA FollowingStep == ASSUME Following, HubTypes, [HubNext]_hubVars PROVE Following'
<1>0. /\ follow.last \in Nat /\ tlog.len \in Nat /\ follow.last <= tlog.len
      /\ follow.got \in Seq(Nat)
  BY DEF Following
<1>1. CASE FollowLog
  <2>1. PICK g, len, p : g = Entries(0, len) /\ len = tlog.len /\ p = (IF over THEN "ended" ELSE "index")
    OBVIOUS
  <2>2. follow' = [pc |-> p, last |-> len, got |-> g, skipped |-> {}] /\ tlog' = tlog /\ p # "off"
    BY <1>1, <2>1 DEF FollowLog, Following
  <2>3. g = <<>> \o g /\ <<>> \in Seq(Nat)
    BY <1>0, <2>1, EntriesFirst
  <2>4. Shows(<<>>, 0, {})
    BY DEF ToSet, Shows
  <2>5. Shows(g, len, {})
    <3>1. 0 \in Nat /\ len \in Nat /\ 0 <= len /\ {} \subseteq 1..0
      BY <1>0, <2>1
    <3>2. Shows(<<>> \o Entries(0, len), len, {})
      BY <3>1, <2>4, ShowsMore
    <3> QED
      BY <3>2, <2>1, <2>3
  <2>6. follow'.pc = p /\ follow'.last = len /\ follow'.got = g /\ follow'.skipped = {}
    BY <2>2
  <2> QED
    BY <1>0, <2>1, <2>2, <2>5, <2>6 DEF Following, LogStreamExact, Shows
<1>2. CASE LastIndex
  <2>1. PICK S, len, g : S = (follow.skipped \cup (follow.last + 1)..tlog.len) /\ len = tlog.len /\ g = follow.got
    OBVIOUS
  <2>2. follow' = [pc |-> "poll", last |-> len, got |-> g, skipped |-> S] /\ tlog' = tlog
    BY <1>2, <2>1 DEF LastIndex, Following
  <2>3. follow'.pc = "poll" /\ follow'.last = len /\ follow'.got = g /\ follow'.skipped = S
    BY <2>2
  <2>4. S \subseteq 1..len /\ (1..len) \ S = (1..follow.last) \ follow.skipped
    BY <1>0, <2>1 DEF Following
  <2> QED
    BY <1>0, <2>1, <2>2, <2>3, <2>4 DEF Following, LogStreamExact
<1>3. CASE PollLog
  <2>1. PICK S, len, g : S = follow.skipped /\ len = tlog.len /\ g = follow.got \o Entries(follow.last, len)
    OBVIOUS
  <2>2. follow' = [pc |-> "check", last |-> len, got |-> g, skipped |-> S] /\ tlog' = tlog
    BY <1>3, <2>1 DEF PollLog, Following
  <2>3. follow'.pc = "check" /\ follow'.last = len /\ follow'.got = g /\ follow'.skipped = S
    BY <2>2
  <2>4. S \subseteq 1..follow.last
    BY <2>1 DEF Following
  <2>5. Shows(follow.got, follow.last, S)
    BY <2>1 DEF Following, LogStreamExact, Shows
  <2>6. Shows(g, len, S)
    BY <1>0, <2>1, <2>4, <2>5, ShowsMore
  <2>7. S \subseteq 1..len
    BY <1>0, <2>1, <2>4
  <2> QED
    BY <1>0, <2>1, <2>2, <2>3, <2>6, <2>7 DEF Following, LogStreamExact, Shows
<1>4. CASE CheckStatus \/ LeaveLog
  <2>1. PICK p : p = follow'.pc
    OBVIOUS
  <2>2. follow' = [pc |-> p, last |-> follow.last, got |-> follow.got, skipped |-> follow.skipped]
        /\ tlog' = tlog /\ p # "off"
    BY <1>4, <2>1 DEF CheckStatus, LeaveLog, Following
  <2>3. follow'.last = follow.last /\ follow'.got = follow.got /\ follow'.skipped = follow.skipped
    BY <2>2
  <2> QED
    BY <1>0, <2>1, <2>2, <2>3 DEF Following, LogStreamExact
<1>5. ASSUME follow' = follow, tlog'.len \in Nat, tlog.len <= tlog'.len PROVE Following'
  BY <1>0, <1>5 DEF Following, LogStreamExact
<1>6. CASE \E a \in Adders : AddEntry(a)
  <2>1. follow' = follow /\ tlog'.len = tlog.len + 1
    BY <1>6 DEF AddEntry
  <2> QED
    BY <1>0, <1>5, <2>1
<1>7. CASE \E a \in Adders : Broadcast(a)
  <2>1. follow' = follow /\ tlog'.len = tlog.len
    BY <1>7 DEF Broadcast, HubTypes
  <2> QED
    BY <1>0, <1>5, <2>1
<1>8. CASE HubStep \/ Shutdown \/ SessionEnds \/ \E c \in WSClients : Connect(c) \/ WritePump(c) \/ ReadPump(c)
  <2>1. follow' = follow /\ tlog' = tlog
    BY <1>8 DEF HubStep, HubBroadcast, HubStops, HubRegister, SendSnapshot, HubUnregister, Shutdown,
                SessionEnds, Connect, WritePump, ReadPump
  <2> QED
    BY <1>0, <1>5, <2>1
<1>9. CASE UNCHANGED hubVars
  BY <1>0, <1>5, <1>9 DEF hubVars
<1> QED
  BY <1>1, <1>2, <1>3, <1>4, <1>6, <1>7, <1>8, <1>9 DEF HubNext

(* Whoever looks at the log sees the log: a client of the hub all of it,   *)
(* however entries are added, broadcast and read while it connects, is     *)
(* dropped, or the hub stops (hub.go:34-119), and a log stream all but     *)
(* what came between its first two reads (log_stream.go:14-92).            *)
THEOREM LogIsFollowed == HubSpec => []LogFollowed
<1>1. HubInit => HubInv /\ Following
  BY HubInvInit, FollowingInit
<1>2. HubInv /\ Following /\ [HubNext]_hubVars => (HubInv /\ Following)'
  BY HubInvStep, FollowingStep DEF HubInv
<1>3. HubInv /\ Following => LogFollowed
  BY ClientsSee DEF LogFollowed, Following
<1> QED
  BY <1>1, <1>2, <1>3, PTL DEF HubSpec
=============================================================================
