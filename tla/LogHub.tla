------------------------------- MODULE LogHub -------------------------------
(* The log of the agents and who reads it live: TaskLog with its callback,  *)
(* the WebSocket hub and its clients, and the polling log stream            *)
(* (tasklog/task_log.go, wsserver/hub.go, client.go, server.go,             *)
(* agentservice/log_stream.go).  The entries are 1, 2, ... in the order in  *)
(* which they were added; all of them are AgentLogEntries, the ones that    *)
(* are broadcast.                                                           *)
EXTENDS Integers, Sequences, FiniteSets, SequencesExt

CONSTANTS
    Adders,        \* goroutines that add entries
    WSClients,     \* WebSocket clients
    MaxEntries,    \* bound: entries of the log
    BroadcastCap,  \* capacity of Hub.broadcast
    SendCap        \* capacity of Client.send

NoAdder == "none"

ASSUME LogHubAssumption ==
    /\ IsFiniteSet(Adders) /\ IsFiniteSet(WSClients) /\ NoAdder \notin Adders
    /\ MaxEntries \in Nat /\ BroadcastCap \in Nat \ {0} /\ SendCap \in Nat \ {0}

VARIABLES
    tlog,    \* how many entries TaskLog.History has, and who holds its lock for writing
    hub,     \* Hub.run: pc, the broadcast channel, the clients; and whether stop is closed
    ws,      \* per client: pc, its send channel, whether that is open, and what it was sent
    follow,  \* a log stream: pc, lastIndex, what it wrote, and the entries it skipped
    over     \* whether the session reached a terminal status

hubVars == <<tlog, hub, ws, follow, over>>

HubInit ==
    /\ tlog = [len |-> 0, holder |-> NoAdder]
    /\ hub = [pc |-> "select", for |-> "none", queue |-> <<>>, clients |-> {}, stopped |-> FALSE]
    /\ ws = [c \in WSClients |-> [pc |-> "off", send |-> <<>>, open |-> TRUE, got |-> <<>>]]
    /\ follow = [pc |-> "off", last |-> 0, got |-> <<>>, skipped |-> {}]
    /\ over = FALSE

Entries(from, to) == [i \in 1..(to - from) |-> from + i]

-----------------------------------------------------------------------------
(* TaskLog.Add holds the lock while its callback sends to the hub.          *)

AddEntry(a) ==
    /\ tlog.holder = NoAdder /\ tlog.len < MaxEntries
    /\ tlog' = [len |-> tlog.len + 1, holder |-> a]
    /\ UNCHANGED <<hub, ws, follow, over>>

\* Fault: a full channel is skipped.
BroadcastOrSkip(a) ==
    /\ tlog.holder = a
    /\ hub' = IF Len(hub.queue) < BroadcastCap THEN [hub EXCEPT !.queue = Append(@, tlog.len)] ELSE hub
    /\ tlog' = [tlog EXCEPT !.holder = NoAdder]
    /\ UNCHANGED <<ws, follow, over>>

\* wireTaskLog's callback, and the end of Add.
Broadcast(a) ==
    /\ tlog.holder = a /\ Len(hub.queue) < BroadcastCap
    /\ hub' = [hub EXCEPT !.queue = Append(@, tlog.len)]
    /\ tlog' = [tlog EXCEPT !.holder = NoAdder]
    /\ UNCHANGED <<ws, follow, over>>

-----------------------------------------------------------------------------
(* Hub.run                                                                  *)

Connect(c) ==
    /\ ws[c].pc = "off"
    /\ ws' = [ws EXCEPT ![c].pc = "registering"]
    /\ UNCHANGED <<tlog, hub, follow, over>>

HubRegister(c) ==
    /\ hub.pc = "select" /\ ws[c].pc = "registering"
    /\ hub' = [hub EXCEPT !.clients = @ \cup {c}, !.pc = "snapshot", !.for = c]
    /\ ws' = [ws EXCEPT ![c].pc = "up"]
    /\ UNCHANGED <<tlog, follow, over>>

\* Entries waits for the lock.  A message to a client is the sequence of entries it shows.
SendSnapshot(c) ==
    /\ hub.pc = "snapshot" /\ hub.for = c /\ tlog.holder = NoAdder
    /\ hub' = [hub EXCEPT !.pc = "select", !.for = "none"]
    /\ ws' = IF Len(ws[c].send) < SendCap
               THEN [ws EXCEPT ![c].send = Append(@, Entries(0, tlog.len))] ELSE ws
    /\ UNCHANGED <<tlog, follow, over>>

Closed(w) == [w EXCEPT !.open = FALSE]

HubUnregister(c) ==
    /\ hub.pc = "select" /\ ws[c].pc = "leaving"
    /\ hub' = [hub EXCEPT !.clients = @ \ {c}]
    /\ ws' = [ws EXCEPT ![c] = [(IF c \in hub.clients THEN Closed(@) ELSE @) EXCEPT !.pc = "gone"]]
    /\ UNCHANGED <<tlog, follow, over>>

\* A client whose buffer is full is disconnected.
HubBroadcast ==
    /\ hub.pc = "select" /\ hub.queue # <<>>
    /\ LET full == {c \in hub.clients : Len(ws[c].send) >= SendCap}
       IN /\ hub' = [hub EXCEPT !.queue = Tail(@), !.clients = @ \ full]
          /\ ws' = [c \in WSClients |->
                     CASE c \in full -> Closed(ws[c])
                       [] c \in hub.clients \ full ->
                            [ws[c] EXCEPT !.send = Append(@, <<Head(hub.queue)>>)]
                       [] OTHER -> ws[c]]
    /\ UNCHANGED <<tlog, follow, over>>

HubStops ==
    /\ hub.pc = "select" /\ hub.stopped
    /\ hub' = [hub EXCEPT !.pc = "stopped", !.clients = {}]
    /\ ws' = [c \in WSClients |-> IF c \in hub.clients THEN Closed(ws[c]) ELSE ws[c]]
    /\ UNCHANGED <<tlog, follow, over>>

\* Server.Shutdown
Shutdown ==
    /\ ~hub.stopped
    /\ hub' = [hub EXCEPT !.stopped = TRUE]
    /\ UNCHANGED <<tlog, ws, follow, over>>

-----------------------------------------------------------------------------
(* Client.writePump and readPump: the connection is closed when the send    *)
(* channel is closed and empty, or by the other side.                       *)

WritePump(c) ==
    /\ ws[c].pc = "up" /\ ws[c].send # <<>>
    /\ ws' = [ws EXCEPT ![c].send = Tail(@), ![c].got = @ \o Head(ws[c].send)]
    /\ UNCHANGED <<tlog, hub, follow, over>>

ReadPump(c) ==
    /\ ws[c].pc = "up"
    /\ ws' = [ws EXCEPT ![c].pc = "leaving"]
    /\ UNCHANGED <<tlog, hub, follow, over>>

-----------------------------------------------------------------------------
(* handleLogStream: the snapshot and the index of what follows are read one *)
(* after the other; then a poll every half second, until the session ended. *)

FollowLog ==
    /\ follow.pc = "off" /\ tlog.holder = NoAdder
    /\ follow' = [follow EXCEPT !.got = Entries(0, tlog.len), !.last = tlog.len,
                                !.pc = IF over THEN "ended" ELSE "index"]
    /\ UNCHANGED <<tlog, hub, ws, over>>

LastIndex ==
    /\ follow.pc = "index" /\ tlog.holder = NoAdder
    /\ follow' = [follow EXCEPT !.skipped = (@ \cup (follow.last + 1)..tlog.len), !.last = tlog.len,
                                !.pc = "poll"]
    /\ UNCHANGED <<tlog, hub, ws, over>>

PollLog ==
    /\ follow.pc = "poll" /\ tlog.holder = NoAdder
    /\ follow' = [follow EXCEPT !.got = @ \o Entries(follow.last, tlog.len), !.last = tlog.len,
                                !.pc = "check"]
    /\ UNCHANGED <<tlog, hub, ws, over>>

\* The check of the session's status comes after the entries were read.
CheckStatus ==
    /\ follow.pc = "check"
    /\ follow' = [follow EXCEPT !.pc = IF over THEN "ended" ELSE "poll"]
    /\ UNCHANGED <<tlog, hub, ws, over>>

LeaveLog ==
    /\ follow.pc = "poll"
    /\ follow' = [follow EXCEPT !.pc = "ended"]
    /\ UNCHANGED <<tlog, hub, ws, over>>

SessionEnds == /\ ~over
               /\ over' = TRUE
               /\ UNCHANGED <<tlog, hub, ws, follow>>

-----------------------------------------------------------------------------
HubStep ==
    \/ HubBroadcast \/ HubStops
    \/ \E c \in WSClients : HubRegister(c) \/ SendSnapshot(c) \/ HubUnregister(c)

HubNext ==
    \/ HubStep \/ Shutdown
    \/ \E a \in Adders : AddEntry(a) \/ Broadcast(a)
    \/ \E c \in WSClients : Connect(c) \/ WritePump(c) \/ ReadPump(c)
    \/ FollowLog \/ LastIndex \/ PollLog \/ CheckStatus \/ LeaveLog \/ SessionEnds

HubSpec == HubInit /\ [][HubNext]_hubVars

-----------------------------------------------------------------------------
\* What goes on by itself: the hub, and an Add whose send finds room.
HubGoes == HubStep \/ \E a \in Adders : Broadcast(a)

-----------------------------------------------------------------------------
\* What a client has, was sent and, while the hub serves it, is about to be sent.
Received(c) ==
    ws[c].got \o FlattenSeq(ws[c].send)
        \o (IF c \in hub.clients
            THEN hub.queue \o (IF tlog.holder = NoAdder THEN <<>> ELSE <<tlog.len>>) ELSE <<>>)

\* A client is shown the whole log up to now, then every entry after it in the order of the
\* log; entries that were on their way to the hub when it came are shown twice.  A client
\* that was dropped is shown a beginning of that (Add sends under its lock).
ClientsSeeLog ==
    \A c \in WSClients :
        ws[c].pc \in {"up", "leaving"} /\ hub.for # c =>
            \E n \in 0..tlog.len : \E k \in 0..n :
                \E m \in (IF c \in hub.clients THEN {tlog.len} ELSE k..tlog.len) :
                    Received(c) = Entries(0, n) \o Entries(k, m)

\* A log stream shows each entry once and in order, and but for the ones that came between
\* its two first reads all there were when it last looked (handleLogStream).
LogStreamExact ==
    /\ ToSet(follow.got) = (1..follow.last) \ follow.skipped
    /\ \A i, j \in DOMAIN follow.got : i < j => follow.got[i] < follow.got[j]

\* Whoever looks at the log sees the log (hub.go, log_stream.go).
LogFollowed == ClientsSeeLog /\ LogStreamExact

\* Nobody who adds to the log waits for ever, unless the hub was stopped with a full channel
\* or waits itself for the lock of the log (the callback runs under it).
Wedged == /\ Len(hub.queue) = BroadcastCap
          /\ hub.stopped \/ hub.pc = "snapshot"
AddsReturn == tlog.holder # NoAdder ~> (tlog.holder = NoAdder \/ Wedged)
=============================================================================
