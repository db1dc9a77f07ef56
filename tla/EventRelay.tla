----------------------------- MODULE EventRelay -----------------------------
(***************************************************************************)
(* The event relay of the agent service (agentservice/exec_registry.go).   *)
(*                                                                         *)
(* One coding-agent process feeds a channel; the relay's pump goroutine    *)
(* copies that channel into an append-only buffer, injecting heartbeats    *)
(* while a tool is in flight.  Any number of stream goroutines read the    *)
(* buffer from a start index and hand the events to a consumer through a   *)
(* bounded channel.  Readers that reached the end of the buffer wait for   *)
(* either a token in the capacity-one channel `notify', which ALL readers  *)
(* share, or for the close of `doneCh'.                                    *)
(*                                                                         *)
(* In the service the readers of one relay are the side-effect pump, which *)
(* maintains the session's status, and the HTTP subscribers of the turn,   *)
(* of which there are several in time when a Follow request steals the     *)
(* stream.  A stolen or disconnected consumer stops receiving, but its     *)
(* stream goroutine lives on and still competes for tokens.                *)
(***************************************************************************)
EXTENDS Integers, Sequences, FiniteSets

CONSTANTS
    Readers,             \* calls of eventRelay.stream
    StopOnUserInput,     \* those made with stopOnUserInput = true
    ChanCap,             \* capacity of a stream's channel (8 in the code)
    AgentTypes,          \* the types of the events the agent emits
    HeartbeatInterval,   \* 0 disables the heartbeat ticker
    MaxSource,           \* bound: events the agent emits
    MaxBeats             \* bound: heartbeats injected

(* "text" stands for every event type the relay does not look at. *)
SourceTypes == {"text", "tool_use", "tool_result", "result", "error", "user_input"}
EventTypes  == SourceTypes \cup {"progress"}
Event       == [type : EventTypes, n : Nat]

ASSUME RelayAssumption ==
    /\ IsFiniteSet(Readers) /\ StopOnUserInput \subseteq Readers
    /\ AgentTypes \subseteq SourceTypes
    /\ ChanCap \in Nat \ {0}
    /\ HeartbeatInterval \in Nat
    /\ MaxSource \in Nat
    /\ MaxBeats \in Nat

(* The two callers of markSourceDone: the pump, and the cancel handler. *)
Closers == {"pump", "cancel"}

VARIABLES
    events,      \* the buffer
    sourceDone,  \* the flag read under the mutex
    doneCh,      \* "open" or "closed"
    notify,      \* the shared channel of capacity one holds a token
    pumpPC,      \* "select", "notify" (appended, token not yet sent), "exited"
    closing,     \* callers of markSourceDone between its lock and its close
    cancelled,   \* the cancel handler has called markSourceDone
    toolDepth,
    ticker,      \* the heartbeat ticker is armed
    emitted,     \* how many events the agent has emitted
    beats,       \* how many heartbeats were injected
    waiting,     \* the agent is blocked on its stdin after user_input
    pc,          \* per reader: "unopened", "check", "send", "wait", "closed"
    idx,         \* per reader: events read so far (Go's idx)
    start,       \* per reader: startIdx
    chan,        \* per reader: the bounded channel
    got,         \* per reader: what the consumer received
    gone,        \* per reader: the consumer stopped receiving
    doneLen      \* history: length of the buffer when sourceDone was set

relayVars  == <<events, sourceDone, doneCh, notify, closing, cancelled, doneLen>>
pumpVars   == <<pumpPC, toolDepth, ticker, emitted, beats, waiting>>
readerVars == <<pc, idx, start, chan, got, gone>>
vars       == <<relayVars, pumpVars, readerVars>>

Init ==
    /\ events = <<>> /\ sourceDone = FALSE /\ doneCh = "open" /\ notify = FALSE
    /\ closing = {} /\ cancelled = FALSE /\ doneLen = 0
    /\ pumpPC = "select" /\ toolDepth = 0 /\ ticker = FALSE
    /\ emitted = 0 /\ beats = 0 /\ waiting = FALSE
    /\ pc    = [r \in Readers |-> "unopened"]
    /\ idx   = [r \in Readers |-> 0]
    /\ start = [r \in Readers |-> 0]
    /\ chan  = [r \in Readers |-> <<>>]
    /\ got   = [r \in Readers |-> <<>>]
    /\ gone  = [r \in Readers |-> FALSE]

-----------------------------------------------------------------------------
(* The pump goroutine.                                                     *)

(* Fault of DepthAfter: the end of the turn leaves the depth alone.        *)
DepthNotReset(t) ==
    CASE t = "tool_use"             -> toolDepth + 1
      [] t = "tool_result"          -> IF toolDepth > 0 THEN toolDepth - 1 ELSE 0
      [] OTHER                      -> toolDepth

(* toolDepth after the pump has looked at an event of type t. *)
DepthAfter(t) ==
    CASE t = "tool_use"             -> toolDepth + 1
      [] t = "tool_result"          -> IF toolDepth > 0 THEN toolDepth - 1 ELSE 0
      [] t \in {"result", "error"}  -> 0
      [] OTHER                      -> toolDepth

(* The ticker after an event of type t: started or reset by a tool_use,    *)
(* stopped when the last open tool returns and by the end of the turn.     *)
TickerAfter(t) ==
    CASE t = "tool_use"             -> HeartbeatInterval > 0
      [] t = "tool_result"          -> ticker /\ DepthAfter(t) # 0
      [] t \in {"result", "error"}  -> FALSE
      [] OTHER                      -> ticker

(* The locked half of appendEvent; the token is sent by PumpNotify. *)
AppendEvent(e) ==
    /\ events' = Append(events, e)
    /\ pumpPC' = "notify"
    /\ UNCHANGED <<sourceDone, doneCh, notify, closing, cancelled, doneLen>>

(* The agent emits an event of type t and the pump receives it.  After     *)
(* user_input the agent waits on its stdin and emits nothing until a       *)
(* client has answered.                                                    *)
PumpReceive(t) ==
    /\ pumpPC = "select" /\ ~waiting
    /\ emitted < MaxSource
    /\ emitted' = emitted + 1
    /\ toolDepth' = DepthAfter(t)
    /\ ticker' = TickerAfter(t)
    /\ waiting' = (t = "user_input")
    /\ AppendEvent([type |-> t, n |-> emitted + 1])
    /\ UNCHANGED <<beats, readerVars>>

(* The ticker fires. *)
PumpTick ==
    /\ pumpPC = "select" /\ ticker
    /\ beats < MaxBeats
    /\ toolDepth > 0
    /\ beats' = beats + 1
    /\ AppendEvent([type |-> "progress", n |-> emitted])
    /\ UNCHANGED <<toolDepth, ticker, emitted, waiting, readerVars>>

(* The unlocked half of appendEvent: a non-blocking send on notify. *)
PumpNotify ==
    /\ pumpPC = "notify"
    /\ notify' = TRUE
    /\ pumpPC' = "select"
    /\ UNCHANGED <<events, sourceDone, doneCh, closing, cancelled, doneLen>>
    /\ UNCHANGED <<toolDepth, ticker, emitted, beats, waiting, readerVars>>

(* The locked half of markSourceDone. *)
MarkSourceDone(c) ==
    /\ sourceDone' = TRUE
    /\ doneLen' = IF sourceDone THEN doneLen ELSE Len(events)
    /\ closing' = closing \cup {c}
    /\ UNCHANGED <<events, doneCh, notify>>

(* Fault of CloseDone: readers are only notified, doneCh stays open. *)
NotifyDone(c) ==
    /\ c \in closing
    /\ notify' = TRUE
    /\ closing' = closing \ {c}
    /\ UNCHANGED <<events, sourceDone, doneCh, cancelled, doneLen, pumpVars, readerVars>>

(* The rest of markSourceDone: close doneCh once, then try to notify. *)
CloseDone(c) ==
    /\ c \in closing
    /\ doneCh' = "closed"
    /\ notify' = TRUE
    /\ closing' = closing \ {c}
    /\ UNCHANGED <<events, sourceDone, cancelled, doneLen, pumpVars, readerVars>>

(* The agent closes its event channel: the pump marks the source done and  *)
(* returns.  An agent blocked on stdin closes it too when it is stopped.   *)
PumpSourceClosed ==
    /\ pumpPC = "select"
    /\ MarkSourceDone("pump")
    /\ pumpPC' = "exited" /\ ticker' = FALSE
    /\ UNCHANGED <<cancelled, toolDepth, emitted, beats, waiting, readerVars>>

(* handleCancel forces the relay's readers to finish while the agent may   *)
(* still be emitting.                                                      *)
CancelMarksDone ==
    /\ ~cancelled
    /\ MarkSourceDone("cancel")
    /\ cancelled' = TRUE
    /\ UNCHANGED <<pumpVars, readerVars>>

-----------------------------------------------------------------------------
(* A stream goroutine and its consumer.                                    *)

(* stream(startIdx, stopOnUserInput): a consumer attaches. *)
Open(r, from) ==
    /\ pc[r] = "unopened"
    /\ from <= Len(events)
    /\ pc' = [pc EXCEPT ![r] = "check"]
    /\ idx' = [idx EXCEPT ![r] = from]
    /\ start' = [start EXCEPT ![r] = from]
    /\ UNCHANGED <<chan, got, gone, relayVars, pumpVars>>

(* Fault of Check: a done source ends the stream before it is drained. *)
CheckDoneFirst(r) ==
    /\ pc[r] = "check"
    /\ IF sourceDone
         THEN pc' = [pc EXCEPT ![r] = "closed"] /\ UNCHANGED idx
         ELSE IF idx[r] < Len(events)
           THEN /\ idx' = [idx EXCEPT ![r] = @ + 1]
                /\ pc' = [pc EXCEPT ![r] = "send"]
           ELSE pc' = [pc EXCEPT ![r] = "wait"] /\ UNCHANGED idx
    /\ UNCHANGED <<start, chan, got, gone, relayVars, pumpVars>>

(* Under the mutex: take the next event, else leave if the source is done, *)
(* else go to the select.                                                  *)
Check(r) ==
    /\ pc[r] = "check"
    /\ IF idx[r] < Len(events)
         THEN /\ idx' = [idx EXCEPT ![r] = @ + 1]
              /\ pc' = [pc EXCEPT ![r] = "send"]
         ELSE /\ pc' = [pc EXCEPT ![r] = IF sourceDone THEN "closed" ELSE "wait"]
              /\ UNCHANGED idx
    /\ UNCHANGED <<start, chan, got, gone, relayVars, pumpVars>>

(* Faults of Send: a full channel drops the event; the stream goes on      *)
(* after a request for input.                                              *)
SendOrDrop(r) ==
    /\ pc[r] = "send"
    /\ chan' = [chan EXCEPT ![r] = IF Len(@) < ChanCap THEN Append(@, events[idx[r]]) ELSE @]
    /\ pc' = [pc EXCEPT ![r] =
                IF r \in StopOnUserInput /\ events[idx[r]].type = "user_input"
                  THEN "closed" ELSE "check"]
    /\ UNCHANGED <<idx, start, got, gone, relayVars, pumpVars>>
SendOn(r) ==
    /\ pc[r] = "send"
    /\ Len(chan[r]) < ChanCap
    /\ chan' = [chan EXCEPT ![r] = Append(@, events[idx[r]])]
    /\ pc' = [pc EXCEPT ![r] = "check"]
    /\ UNCHANGED <<idx, start, got, gone, relayVars, pumpVars>>

(* ch <- ev, which blocks while the channel is full; a stop-on-user-input  *)
(* stream then closes its channel if ev asks for input.                    *)
Send(r) ==
    /\ pc[r] = "send"
    /\ Len(chan[r]) < ChanCap
    /\ chan' = [chan EXCEPT ![r] = Append(@, events[idx[r]])]
    /\ pc' = [pc EXCEPT ![r] =
                IF r \in StopOnUserInput /\ events[idx[r]].type = "user_input"
                  THEN "closed" ELSE "check"]
    /\ UNCHANGED <<idx, start, got, gone, relayVars, pumpVars>>

(* The select takes the token: no other reader will see it. *)
WakeByNotify(r) ==
    /\ pc[r] = "wait" /\ notify
    /\ notify' = FALSE
    /\ pc' = [pc EXCEPT ![r] = "check"]
    /\ UNCHANGED <<events, sourceDone, doneCh, closing, cancelled, doneLen>>
    /\ UNCHANGED <<idx, start, chan, got, gone, pumpVars>>

(* The select sees doneCh closed. *)
WakeByDone(r) ==
    /\ pc[r] = "wait" /\ doneCh = "closed"
    /\ pc' = [pc EXCEPT ![r] = "check"]
    /\ UNCHANGED <<idx, start, chan, got, gone, relayVars, pumpVars>>

(* The consumer (side-effect pump, SSE or JSON subscriber) takes an event. *)
Receive(r) ==
    /\ chan[r] # <<>> /\ ~gone[r]
    /\ got' = [got EXCEPT ![r] = Append(@, Head(chan[r]))]
    /\ chan' = [chan EXCEPT ![r] = Tail(@)]
    /\ UNCHANGED <<pc, idx, start, gone, relayVars, pumpVars>>

(* The consumer stops receiving: its client disconnected, a Follow request *)
(* stole its subscription, or the post-result drain window elapsed.        *)
Abandon(r) ==
    /\ pc[r] # "unopened" /\ ~gone[r]
    /\ gone' = [gone EXCEPT ![r] = TRUE]
    /\ UNCHANGED <<pc, idx, start, chan, got, relayVars, pumpVars>>

(* A client that received user_input answers it and the agent continues. *)
Respond ==
    /\ waiting
    /\ \E r \in Readers : \E i \in 1..Len(got[r]) : got[r][i] = events[Len(events)]
    /\ waiting' = FALSE
    /\ UNCHANGED <<pumpPC, toolDepth, ticker, emitted, beats, relayVars, readerVars>>

-----------------------------------------------------------------------------
PumpStep == PumpNotify \/ \E c \in Closers : CloseDone(c)
ReaderStep(r) == Check(r) \/ Send(r) \/ WakeByNotify(r) \/ WakeByDone(r)

Next ==
    \/ \E t \in AgentTypes : PumpReceive(t)
    \/ PumpTick
    \/ PumpSourceClosed
    \/ CancelMarksDone
    \/ Respond
    \/ PumpStep
    \/ \E r \in Readers :
         \/ \E from \in 0..Len(events) : Open(r, from)
         \/ ReaderStep(r) \/ Receive(r) \/ Abandon(r)

(* Goroutines that can run do run, and a consumer that has not gone keeps  *)
(* receiving.  Nothing is assumed of the agent, the clock or the clients.  *)
Fairness ==
    /\ WF_vars(PumpStep)
    /\ \A r \in Readers : WF_vars(ReaderStep(r)) /\ WF_vars(Receive(r))

Spec == Init /\ [][Next]_vars /\ Fairness

-----------------------------------------------------------------------------
RelayTypeOK ==
    /\ events \in Seq(Event) /\ doneLen \in Nat
    /\ sourceDone \in BOOLEAN /\ doneCh \in {"open", "closed"} /\ notify \in BOOLEAN
    /\ closing \subseteq Closers /\ cancelled \in BOOLEAN

PumpTypeOK ==
    /\ pumpPC \in {"select", "notify", "exited"}
    /\ toolDepth \in Nat /\ ticker \in BOOLEAN
    /\ emitted \in Nat /\ beats \in Nat /\ waiting \in BOOLEAN

ReaderTypeOK ==
    /\ pc \in [Readers -> {"unopened", "check", "send", "wait", "closed"}]
    /\ idx \in [Readers -> Nat] /\ start \in [Readers -> Nat]
    /\ chan \in [Readers -> Seq(Event)] /\ got \in [Readers -> Seq(Event)]
    /\ gone \in [Readers -> BOOLEAN]

(* The type of the relay's, the pump's and the readers' state. *)
TypeOK == RelayTypeOK /\ PumpTypeOK /\ ReaderTypeOK

(* Events a stream has put into its channel: all it read but the one in hand. *)
Sent(r) == idx[r] - (IF pc[r] = "send" THEN 1 ELSE 0)

(* received followed by queued is exactly buffer[from+1 .. upto]. *)
IsDelivery(buffer, from, upto, received, queued) ==
    /\ Len(received) + Len(queued) + from = upto
    /\ \A i \in 1..Len(received) : received[i] = buffer[from + i]
    /\ \A i \in 1..Len(queued)   : queued[i] = buffer[from + Len(received) + i]

(* Whatever the interleaving of the pump, the wakeups and the other        *)
(* readers, what a stream's consumer received followed by what waits in    *)
(* its channel is exactly the buffer from startIdx on: no event is lost,   *)
(* repeated or reordered (exec_registry.go:243-272).                       *)
DeliveredInOrder ==
    \A r \in Readers : IsDelivery(events, start[r], Sent(r), got[r], chan[r])

(* A stream opened with stopOnUserInput hands over nothing that follows    *)
(* the first request for input it meets (exec_registry.go:255-257).        *)
StopsAtUserInput ==
    \A r \in StopOnUserInput :
      \A i \in (start[r] + 1)..Sent(r) :
         events[i].type = "user_input" => i = Sent(r) /\ pc[r] = "closed"

(* A stream whose channel closed without a request for input has delivered *)
(* at least everything buffered when the source was marked done, by the    *)
(* pump or by a racing cancel (exec_registry.go:165-174,260-264).          *)
ClosedSawAll ==
    \A r \in Readers : pc[r] = "closed" =>
      \/ sourceDone /\ idx[r] >= doneLen
      \/ r \in StopOnUserInput /\ idx[r] > start[r] /\ events[idx[r]].type = "user_input"

UsesIn(i, j)    == Cardinality({k \in i..j : events[k].type = "tool_use"})
ResultsIn(i, j) == Cardinality({k \in i..j : events[k].type = "tool_result"})

(* A heartbeat is injected only while some tool is in flight: a tool_use   *)
(* precedes it, in the same turn, that is not matched by a tool_result     *)
(* (exec_registry.go:17-18,203-237).                                       *)
HeartbeatInsideTool ==
    \A b \in 1..Len(events) : events[b].type = "progress" =>
      \E u \in 1..(b - 1) :
        /\ UsesIn(u, b) > ResultsIn(u, b)
        /\ \A k \in u..b : events[k].type \notin {"result", "error"}

(* Once the source is marked done, every stream still being consumed       *)
(* delivers the rest of the buffer and closes; no reader is left waiting   *)
(* on a token another reader took (exec_registry.go:265-268).              *)
DoneDrains ==
    \A r \in Readers :
      (sourceDone /\ pc[r] # "unopened") ~>
         (gone[r] \/ (pc[r] = "closed" /\ chan[r] = <<>>))

=============================================================================
