--------------------------- MODULE EventDelivery ---------------------------
(* How the events of one turn reach a client: the subscribers of the turn's *)
(* relay write them as lines of an SSE stream (attachSSE, handleFollow,     *)
(* handleRespond), the client library reads the lines, puts chunks together *)
(* and, when its connection is lost, follows the turn from the last event   *)
(* it has (client/v1/stream.go, session.go).  Whoever processes an event,   *)
(* a subscriber or the side-effect pump, also applies its token usage       *)
(* (handler_usage.go).  The log hub lives beside it (LogHub).               *)
(*                                                                          *)
(* The scenario gives the attempts of the turn, each the sequence of events *)
(* its agent emits.  An execution is registered until `over`.  The first    *)
(* connection is the POST; the client's consumer takes every event at once; *)
(* an agent asks at most once in a turn.                                    *)
(***************************************************************************)
EXTENDS SSEChunk, UsageReport, LogHub

CONSTANTS
    Scenarios,  \* the turns
    MaxConns,   \* bound: connections of a turn
    Queries     \* the queries of the usage report that are tried

Conns == 1..MaxConns
Pump == 0
Observers == Conns \cup {Pump}
NoId == -1
Missing == [is |-> "missing", turns |-> <<>>]
Torn == [is |-> "torn", turns |-> <<>>]
Whole(turns) == [is |-> "whole", turns |-> turns]
Idle == [pc |-> "no", ev |-> <<>>, calls |-> <<>>, rec |-> <<>>, rep |-> <<>>, fd |-> "none"]

VARIABLES
    cfg,     \* the scenario: plan, report, breaks, thief, hub
    wire,    \* the lines of each event of each attempt, whoever writes them
    relay,   \* the relay of the current attempt: att, how many events it has, done
    exec,    \* its activeExecution: subscriber, streamOffset, status, reattach timer
    sub,     \* per connection, its subscriber: kind, pc, attempt, index, term, wrote
    conn,    \* per connection: the lines under way, with their attempt, and its state
    client,  \* the client library: connection, stream state, and what it delivered
    pump,    \* the side-effect pump: attempt, index
    agg,     \* the usage aggregator of the execution
    disk,    \* usage.json, its temporary file, and Usage of the session record
    ob,      \* per observer, applyUsageSideEffects: pc, event, the calls it read, the record
             \* it has made, the report, the file it writes to
    breaks,  \* how often the connection may still break
    flags    \* what happened: "stale", "stolen", "regressed", "unwritable", "overlap"

turnVars == <<relay, exec, sub, conn, client, pump, agg, disk, ob, breaks, flags>>
scenario == <<cfg, wire>>
vars == <<scenario, turnVars, hubVars>>

Plan(att) == cfg.plan[att]
Count(att) == IF att = relay.att THEN relay.n ELSE Len(Plan(att))
SourceDone(att) == att # relay.att \/ relay.done
Has(type) == \E i \in 1..relay.n : Plan(relay.att)[i].type = type

NewSub(kind, at) == [kind |-> kind, pc |-> "stream", att |-> relay.att, at |-> at,
                     term |-> "none", wrote |-> FALSE]
Meta == Line("meta", <<>>, NoId)
Done == Line("done", <<>>, NoId)
Sent(att, lines) == [i \in DOMAIN lines |-> [att |-> att, line |-> lines[i]]]

Init ==
    /\ cfg \in Scenarios
    /\ wire = [att \in DOMAIN cfg.plan |-> [i \in DOMAIN Plan(att) |->
                 IF Plan(att)[i].type = "retry" THEN <<>>
                 ELSE SplitStreamEventForSSE(Plan(att)[i], i - 1, <<i - 1>>)]]
    /\ relay = [att |-> 1, n |-> 0, done |-> FALSE]
    /\ exec = [sub |-> 1, off |-> 0, st |-> "active", over |-> FALSE, timer |-> FALSE]
    /\ sub = [g \in Conns |-> IF g = 1 /\ ~cfg.hub THEN NewSub("post", 0)
                              ELSE [NewSub("none", 0) EXCEPT !.pc = "off"]]
    /\ conn = [g \in Conns |-> [lines |-> IF g = 1 THEN Sent(1, <<Meta>>) ELSE <<>>,
                                st |-> IF g = 1 THEN "open" ELSE "off"]]
    /\ client = [conn |-> 1, st |-> IF cfg.hub THEN "off" ELSE "reading", asm |-> <<>>,
                 last |-> NoId, att |-> 1, got |-> <<>>, told |-> FALSE]
    /\ pump = [att |-> 1, at |-> 0]
    /\ agg = NewAggregator
    /\ disk = [file |-> Whole(cfg.report), tmp |-> Missing, rec |-> SumOf(cfg.report)]
    /\ ob = [w \in Observers |-> Idle]
    /\ breaks = cfg.breaks
    /\ flags = {}
    /\ HubInit

-----------------------------------------------------------------------------
(* The agent: it waits at a request for input until it is answered.         *)

\* handleRespond sets the status back to active when it has passed the answer on.
Waiting == relay.n > 0 /\ Plan(relay.att)[relay.n].type = "input" /\ exec.st # "answered"

Emit ==
    /\ ~cfg.hub /\ ~relay.done /\ relay.n < Len(Plan(relay.att)) /\ ~Waiting
    /\ relay' = [relay EXCEPT !.n = @ + 1]
    /\ UNCHANGED <<scenario, exec, sub, conn, client, pump, agg, disk, ob, breaks, flags, hubVars>>

AgentExits ==
    /\ ~cfg.hub /\ ~relay.done /\ relay.n = Len(Plan(relay.att)) /\ ~Waiting
    /\ relay' = [relay EXCEPT !.done = TRUE]
    /\ UNCHANGED <<scenario, exec, sub, conn, client, pump, agg, disk, ob, breaks, flags, hubVars>>

-----------------------------------------------------------------------------
(* applyUsageSideEffects by a subscriber or the pump.  No lock guards the   *)
(* aggregator.  The gateway's calls are not merged: nothing attaches a      *)
(* usage meter to the server.                                               *)

Terminal(ev) == ev.type \in {"result", "error"}
After(ev) == IF Terminal(ev) THEN "final" ELSE "no"

\* Without usage in any event there is nothing to observe, and no record.
Counted == \E att \in DOMAIN cfg.plan : \E i \in DOMAIN Plan(att) : Plan(att)[i].usage # NoUsage

\* Observers that have looked at the aggregator and have not yet done what they found to do.
InAggregator == {w \in Observers : ob[w].pc \in {"mark", "append", "turn", "final", "make", "keep"}}

\* An observer takes an event and looks at the aggregator.
Apply(w, ev) ==
    LET found == Observe(agg, ev.type, ev.usage)
        next  == IF found = "skip" THEN After(ev) ELSE found
    IN  /\ ob' = IF next = "no" \/ ~Counted THEN ob ELSE [ob EXCEPT ![w] = [Idle EXCEPT !.pc = next, !.ev = <<ev>>]]
        /\ flags' = IF next # "no" /\ Counted /\ InAggregator # {} THEN flags \cup {"overlap"} ELSE flags

Becomes(w, pc) == IF pc = "no" THEN Idle ELSE [ob[w] EXCEPT !.pc = pc]

\* The rest of Observe.  Two that append at once keep the call of one of them.
ObserveUsage(w) ==
    /\ LET ev == ob[w].ev[1] IN
       \/ /\ ob[w].pc = "mark"
          /\ agg' = MarkSeen(agg, ev.usage)
          /\ ob' = [ob EXCEPT ![w].pc = "append", ![w].calls = agg.calls]
       \/ /\ ob[w].pc = "append"
          /\ agg' = [agg EXCEPT !.calls = AppendTo(ob[w].calls, ev.usage)]
          /\ ob' = [ob EXCEPT ![w] = Becomes(w, After(ev))]
       \/ /\ ob[w].pc = "turn"
          /\ agg' = SetTurn(agg, ev.usage)
          /\ ob' = [ob EXCEPT ![w] = Becomes(w, After(ev))]
    /\ UNCHANGED <<scenario, relay, exec, sub, conn, client, pump, disk, breaks, flags, hubVars>>

\* Finalize makes the record of the turn once, and keeps it for whoever comes later; one who
\* comes in between finds none.
FinalizeUsage(w) ==
    /\ \/ /\ ob[w].pc = "final"
          /\ ob' = [ob EXCEPT ![w] =
                CASE ~agg.finalized                      -> [@ EXCEPT !.pc = "make"]
                  [] agg.finalized /\ agg.final # <<>>   -> [@ EXCEPT !.pc = "load", !.rec = agg.final]
                  [] OTHER                               -> Idle]
          /\ UNCHANGED agg
       \/ /\ ob[w].pc = "make"
          /\ agg' = [agg EXCEPT !.finalized = TRUE]
          /\ ob' = [ob EXCEPT ![w] = IF TurnRecord(agg).ok
                                     THEN [@ EXCEPT !.pc = "keep", !.rec = <<TurnRecord(agg)>>]
                                     ELSE Idle]
       \/ /\ ob[w].pc = "keep"
          /\ agg' = [agg EXCEPT !.final = ob[w].rec]
          /\ ob' = [ob EXCEPT ![w].pc = "load"]
    /\ UNCHANGED <<scenario, relay, exec, sub, conn, client, pump, disk, breaks, flags, hubVars>>

RecordOf(rec) == [turn |-> 2, n |-> rec.n, calls |-> rec.calls, at |-> 2]

\* appendTurnUsage reads the report; one that does not parse ends it.
LoadUsage(w) ==
    /\ ob[w].pc = "load"
    /\ ob' = IF disk.file = Torn THEN [ob EXCEPT ![w] = Idle]
             ELSE [ob EXCEPT ![w].pc = "open",
                             ![w].rep = appendTurnUsage(disk.file.turns, RecordOf(ob[w].rec[1]))]
    /\ UNCHANGED <<scenario, relay, exec, sub, conn, client, pump, agg, disk, breaks, flags, hubVars>>

\* saveUsageReport: the temporary file is truncated, written and renamed.  Every observer
\* uses the same one: one observer's rename takes along the file another still writes.
OpenUsage(w) ==
    /\ ob[w].pc = "open"
    /\ disk' = [disk EXCEPT !.tmp = Torn]
    /\ ob' = [ob EXCEPT ![w].pc = "write", ![w].fd = "tmp"]
    /\ UNCHANGED <<scenario, relay, exec, sub, conn, client, pump, agg, breaks, flags, hubVars>>

WriteUsage(w) ==
    /\ ob[w].pc = "write"
    /\ disk' = CASE ob[w].fd = "tmp"  -> [disk EXCEPT !.tmp = Whole(ob[w].rep)]
                 [] ob[w].fd = "file" -> [disk EXCEPT !.file = Whole(ob[w].rep)]
                 [] OTHER             -> disk
    /\ ob' = [ob EXCEPT ![w].pc = "rename"]
    /\ UNCHANGED <<scenario, relay, exec, sub, conn, client, pump, agg, breaks, flags, hubVars>>

Renamed(fd) == CASE fd = "tmp" -> "file" [] fd = "file" -> "gone" [] OTHER -> fd

\* The rename fails when another observer's came first; the session's sum is not updated.
RenameUsage(w) ==
    /\ ob[w].pc = "rename"
    /\ IF disk.tmp = Missing
         THEN UNCHANGED disk /\ ob' = [ob EXCEPT ![w] = Idle]
         ELSE /\ disk' = [disk EXCEPT !.file = disk.tmp, !.tmp = Missing]
              /\ ob' = [v \in Observers |-> IF v = w THEN [ob[w] EXCEPT !.pc = "sum", !.fd = "none"]
                                            ELSE [ob[v] EXCEPT !.fd = Renamed(@)]]
    /\ UNCHANGED <<scenario, relay, exec, sub, conn, client, pump, agg, breaks, flags, hubVars>>

\* persistTurnUsage: the sum of the report goes into the session's record.
StoreSum(w) ==
    /\ ob[w].pc = "sum"
    /\ disk' = [disk EXCEPT !.rec = SumOf(ob[w].rep)]
    /\ ob' = [ob EXCEPT ![w] = Idle]
    /\ UNCHANGED <<scenario, relay, exec, sub, conn, client, pump, agg, breaks, flags, hubVars>>

\* handleRelaySideEffects: the pump takes the next event; the relay of a new attempt is read
\* from its start, what is left of the old one is not.
PumpTakes ==
    /\ ~cfg.hub /\ ob[Pump].pc = "no" /\ pump.att = relay.att /\ pump.at < relay.n
    /\ LET ev == Plan(pump.att)[pump.at + 1]
       IN /\ Apply(Pump, ev)
          /\ exec' = [exec EXCEPT !.st = CASE ev.type = "input" -> "suspended"
                                           [] Terminal(ev)      -> ev.type
                                           [] OTHER             -> @]
    /\ pump' = [pump EXCEPT !.at = @ + 1]
    /\ UNCHANGED <<scenario, relay, sub, conn, client, agg, disk, breaks, hubVars>>

PumpMoves ==
    /\ ob[Pump].pc = "no" /\ pump.att # relay.att /\ ~exec.over
    /\ pump' = [att |-> relay.att, at |-> 0]
    /\ UNCHANGED <<scenario, relay, exec, sub, conn, client, agg, disk, ob, breaks, flags, hubVars>>

-----------------------------------------------------------------------------
(* attachSSE: a subscriber takes the next event, accounts its usage and     *)
(* writes it.  What it writes to a connection that broke is lost.           *)

Event(g) == Plan(sub[g].att)[sub[g].at + 1]

SubTakes(g) ==
    /\ sub[g].pc = "stream" /\ sub[g].at < Count(sub[g].att)
    /\ sub' = [sub EXCEPT ![g].pc = "write"]
    /\ Apply(g, Event(g))
    /\ UNCHANGED <<scenario, relay, exec, conn, client, pump, agg, disk, breaks, hubVars>>

Write(c, att, lines) == IF c.st = "open" THEN [c EXCEPT !.lines = @ \o Sent(att, lines)] ELSE c
Shut(c) == IF c.st = "open" THEN [c EXCEPT !.st = "shut"] ELSE c

\* clearSubscriber, and the timer that ends a turn nobody comes back to.
Cleared(e, g) ==
    IF e.sub # g THEN e ELSE [e EXCEPT !.sub = 0, !.timer = @ \/ e.st # "suspended"]
\* finishActiveExecution: the agent is closed, the execution is not registered any more.
Finished(e) == [e EXCEPT !.over = TRUE, !.timer = FALSE]
Stopped == relay' = [relay EXCEPT !.done = TRUE]

\* handleFollow ends the stream with [DONE] when it knows how the turn ended.
FollowDone(term) == IF term \in {"result", "error", "retry"} THEN <<Done>> ELSE <<>>

\* The subscriber returns detached: the POST waits for the turn, a follower's stream ends.
Detach(g, at, off) ==
    /\ exec' = [Cleared(exec, g) EXCEPT !.off = off]
    /\ IF sub[g].kind = "follow"
         THEN /\ sub' = [sub EXCEPT ![g].pc = "ended", ![g].at = at]
              /\ conn' = [conn EXCEPT ![g] = Shut(Write(@, sub[g].att, FollowDone(sub[g].term)))]
         ELSE /\ sub' = [sub EXCEPT ![g].pc = "left", ![g].at = at]
              /\ UNCHANGED conn

SubWrites(g) ==
    /\ sub[g].pc = "write" /\ ob[g].pc = "no"
    /\ LET ev    == Event(g)
           lines == wire[sub[g].att][sub[g].at + 1]
           s     == sub[g]
           id    == s.at
           term  == IF ev.type \in {"result", "error", "retry"} THEN ev.type ELSE s.term
           moved == [exec EXCEPT !.off = id + 1]
       IN \/ /\ ev.type # "retry" /\ lines = <<>>                 \* no chunk size fits
             /\ Detach(g, id + 1, id + 1)
             /\ flags' = flags \cup {"unwritable"}
          \/ /\ ev.type = "input" /\ s.kind # "respond"           \* the turn is suspended
             /\ exec' = Cleared(moved, g)
             /\ sub' = [sub EXCEPT ![g].pc = "ended", ![g].at = id + 1]
             /\ conn' = [conn EXCEPT ![g] = Shut(Write(@, s.att, lines \o <<Done>>))]
             /\ UNCHANGED flags
          \/ /\ ev.type = "retry" \/ (lines # <<>> /\ (ev.type = "input" => s.kind = "respond"))
             /\ exec' = moved
             /\ sub' = [sub EXCEPT ![g] = [@ EXCEPT !.pc = "stream", !.at = id + 1, !.term = term,
                                                   !.wrote = @ \/ Terminal(ev)]]
             /\ conn' = [conn EXCEPT ![g] = Write(@, s.att, lines)]
             /\ UNCHANGED flags
    /\ UNCHANGED <<scenario, relay, client, pump, agg, disk, ob, breaks, hubVars>>

\* It is stolen, or its client is gone.
SubLeaves(g) ==
    /\ sub[g].pc = "stream" /\ (exec.sub # g \/ conn[g].st = "broken")
    /\ Detach(g, sub[g].at, exec.off)
    /\ flags' = IF exec.sub # g /\ conn[g].st = "open" THEN flags \cup {"stolen"} ELSE flags
    /\ UNCHANGED <<scenario, relay, client, pump, agg, disk, ob, breaks, hubVars>>

-----------------------------------------------------------------------------
(* The relay's source is done: the stream is given an explicit end, then    *)
(* the handler ends the turn or starts the next attempt.                    *)

resolveTerminalFromRelayEvents ==
    CASE Has("result")                   -> "result"
      [] ~Has("result") /\ Has("error")  -> "error"
      [] ~Has("result") /\ ~Has("error") /\ Has("retry") -> "retry"
      [] OTHER                           -> "error"

ensureRelayTerminal(term) ==
    IF term \in {"result", "error"} THEN term ELSE resolveTerminalFromRelayEvents

Ended(g) == [sub EXCEPT ![g].pc = "ended"]
Synthetic(g, term) ==
    IF sub[g].wrote \/ term = "retry" THEN <<>> ELSE <<Line(term, <<"end">>, sub[g].at)>>
Classified == Line("error", <<"end">>, NoId)

\* The end of handleFollow, of handleRespond and of runTurn.
SubEnds(g) ==
    /\ sub[g].pc = "stream" /\ SourceDone(sub[g].att) /\ sub[g].at >= Count(sub[g].att)
    /\ LET s    == sub[g]
           term == ensureRelayTerminal(s.term)
           syn  == Synthetic(g, term)
           e    == [exec EXCEPT !.st = IF syn # <<>> THEN term ELSE @,
                                !.off = IF syn # <<>> THEN s.at + 1 ELSE @]
       IN \/ /\ s.kind = "follow"
             /\ exec' = Cleared(e, g)
             /\ sub' = Ended(g)
             /\ conn' = [conn EXCEPT ![g] = Shut(Write(@, s.att, syn \o <<Done>>))]
             /\ UNCHANGED <<relay, flags>>
          \/ /\ s.kind = "respond" \/ term # "retry" \/ relay.att = Len(cfg.plan)
             /\ s.kind # "follow"
             /\ exec' = Finished(Cleared(e, g))
             /\ sub' = Ended(g)
             /\ LET last == IF s.kind = "post" /\ term = "retry" THEN <<Classified>> ELSE syn
                IN conn' = [conn EXCEPT ![g] = Shut(Write(@, s.att, last \o <<Done>>))]
             /\ Stopped /\ UNCHANGED flags
          \/ /\ s.kind = "post" /\ term = "retry" /\ relay.att < Len(cfg.plan)
             /\ relay' = [att |-> relay.att + 1, n |-> 0, done |-> FALSE]
             /\ exec' = [e EXCEPT !.sub = g, !.off = 0, !.timer = FALSE]
             /\ sub' = [sub EXCEPT ![g] = [NewSub("post", 0) EXCEPT !.att = relay.att + 1]]
             /\ conn' = [conn EXCEPT ![g] = Write(@, relay.att + 1, <<Meta>>)]
             /\ flags' = IF exec.sub \notin {0, g} THEN flags \cup {"stolen"} ELSE flags
    /\ UNCHANGED <<scenario, client, pump, agg, disk, ob, breaks, hubVars>>

EndAfterResult(g) ==
    /\ exec' = IF sub[g].kind = "follow" THEN Cleared(exec, g) ELSE Finished(Cleared(exec, g))
    /\ sub' = Ended(g)
    /\ conn' = [conn EXCEPT ![g] = Shut(Write(@, sub[g].att, <<Done>>))]
    /\ IF sub[g].kind = "follow" THEN UNCHANGED relay ELSE Stopped
    /\ UNCHANGED <<scenario, client, pump, agg, disk, ob, breaks, flags, hubVars>>

\* Fault: the drain waits for the source.
DrainWhenDone(g) ==
    /\ sub[g].pc = "stream" /\ sub[g].term = "result" /\ SourceDone(sub[g].att)
    /\ EndAfterResult(g)

\* The source stays open after the result: the stream ends all the same.
PostResultDrain(g) ==
    /\ sub[g].pc = "stream" /\ sub[g].term = "result"
    /\ EndAfterResult(g)

\* waitDetached: the turn ended, is suspended (the POST returns, the turn goes on), or is not
\* registered any more.
FinishDetached(g) ==
    /\ sub[g].pc = "left"
    /\ \/ /\ exec.over \/ (exec.st \in {"result", "error"} /\ ob[Pump].pc = "no")
          /\ exec' = Finished(exec)
          /\ conn' = [conn EXCEPT ![g] = Shut(Write(@, sub[g].att, <<Done>>))]
          /\ Stopped
       \/ /\ ~exec.over /\ exec.st = "suspended"
          /\ conn' = [conn EXCEPT ![g] = Shut(@)]
          /\ UNCHANGED <<exec, relay>>
    /\ sub' = Ended(g)
    /\ UNCHANGED <<scenario, client, pump, agg, disk, ob, breaks, flags, hubVars>>

\* stopExecOnDrainTimeout: nobody came back in time.
ReattachTimeout ==
    /\ exec.timer /\ ~exec.over
    /\ exec' = Finished(exec)
    /\ Stopped
    /\ UNCHANGED <<scenario, sub, conn, client, pump, agg, disk, ob, breaks, flags, hubVars>>

-----------------------------------------------------------------------------
(* The client library.                                                      *)

\* A chunked tool result is given to the consumer when its last line came.
TextOf(l) == IF l.type = "tool_result" /\ l.content = <<>> /\ l.chunk # <<>>
             THEN Complete(client.asm, l.chunk) ELSE l.content

Unreadable(l) ==
    \/ TooLong(l)
    \/ l.type = "tool_result_part" /\ AddPartFails(client.asm, l)
    \/ l.type = "tool_result" /\ l.content = <<>> /\ l.chunk # <<>> /\ CompleteFails(client.asm, l.chunk)

\* The consumer gets the event; the last id is the one of an event that is whole.
Delivered(att, l) ==
    [client EXCEPT !.got  = Append(@, [att |-> att, id |-> l.id, type |-> l.type, content |-> TextOf(l)]),
                   !.last = l.id, !.att = att,
                   !.asm  = IF l.chunk # <<>> THEN Dropped(@, l.chunk) ELSE @,
                   !.st   = IF l.type = "input" THEN "asked" ELSE @]

ReadLine ==
    /\ client.st = "reading" /\ conn[client.conn].lines # <<>>
    /\ LET x == Head(conn[client.conn].lines)
           l == x.line
       IN client' =
            CASE l.type = "done"  -> [client EXCEPT !.st = IF client.asm = <<>> THEN "clean" ELSE "lost"]
              [] Unreadable(l)    -> [client EXCEPT !.st = "lost"]
              [] ~Unreadable(l) /\ l.type = "meta" -> client
              [] ~Unreadable(l) /\ l.type = "tool_result_part" -> [client EXCEPT !.asm = AddPart(@, l)]
              [] ~Unreadable(l) /\ Terminal(l) /\ l.content = <<"end">> -> [client EXCEPT !.told = TRUE]
              [] OTHER            -> Delivered(x.att, l)
    /\ conn' = [conn EXCEPT ![client.conn].lines = Tail(@)]
    /\ UNCHANGED <<scenario, relay, exec, sub, pump, agg, disk, ob, breaks, flags, hubVars>>

\* The body ends without a completion marker.
EndOfStream ==
    /\ client.st = "reading"
    /\ conn[client.conn].lines = <<>> /\ conn[client.conn].st \in {"shut", "broken"}
    /\ client' = [client EXCEPT !.st = "lost"]
    /\ UNCHANGED <<scenario, relay, exec, sub, conn, pump, agg, disk, ob, breaks, flags, hubVars>>

\* The connection breaks; what was under way is lost.
Break ==
    /\ breaks > 0 /\ client.st = "reading"
    /\ breaks' = breaks - 1
    /\ conn' = [conn EXCEPT ![client.conn] = [lines |-> <<>>, st |-> "broken"]]
    /\ UNCHANGED <<scenario, relay, exec, sub, client, pump, agg, disk, ob, flags, hubVars>>

-----------------------------------------------------------------------------
(* Session.FollowFrom, Session.Respond, and another follower of the turn.   *)

Unused == {g \in Conns : sub[g].pc = "off"}
Next1 == CHOOSE g \in Unused : \A k \in Unused : g <= k

Attached(kind, at) ==
    /\ sub' = [sub EXCEPT ![Next1] = NewSub(kind, at)]
    /\ conn' = [conn EXCEPT ![Next1] = [lines |-> Sent(relay.att, <<Meta>>), st |-> "open"]]

\* parseFollowFrom
FollowStart == client.last + 1

FollowFrom ==
    /\ client.st = "lost" /\ Unused # {}
    /\ IF exec.over \/ FollowStart > relay.n
         THEN /\ client' = [client EXCEPT !.st = "refused"]
              /\ UNCHANGED <<exec, sub, conn>>
         ELSE /\ Attached("follow", FollowStart)
              /\ exec' = [exec EXCEPT !.sub = Next1, !.timer = FALSE]
              /\ client' = [client EXCEPT !.conn = Next1, !.st = "reading", !.asm = <<>>]
    /\ flags' = IF relay.att # client.att THEN flags \cup {"stale"} ELSE flags
    /\ UNCHANGED <<scenario, relay, pump, agg, disk, ob, breaks, hubVars>>

\* handleRespond goes on from streamOffset, wherever the last subscriber left it.
RespondTo ==
    /\ client.st = "asked" /\ Unused # {}
    /\ IF exec.over \/ exec.st # "suspended"
         THEN /\ client' = [client EXCEPT !.st = "refused"]
              /\ UNCHANGED <<exec, sub, conn, flags>>
         ELSE /\ Attached("respond", exec.off)
              /\ exec' = [exec EXCEPT !.sub = Next1, !.timer = FALSE, !.st = "answered"]
              /\ client' = [client EXCEPT !.conn = Next1, !.st = "reading", !.asm = <<>>]
              /\ flags' = IF exec.off # client.last + 1 THEN flags \cup {"regressed"} ELSE flags
    /\ UNCHANGED <<scenario, relay, pump, agg, disk, ob, breaks, hubVars>>

\* Its reader is not part of the model.
Steal ==
    /\ cfg.thief /\ Unused # {} /\ ~exec.over /\ \A g \in Conns : conn[g].st # "other"
    /\ sub' = [sub EXCEPT ![Next1] = NewSub("follow", 0)]
    /\ conn' = [conn EXCEPT ![Next1] = [lines |-> <<>>, st |-> "other"]]
    /\ exec' = [exec EXCEPT !.sub = Next1, !.timer = FALSE]
    /\ UNCHANGED <<scenario, relay, client, pump, agg, disk, ob, breaks, flags, hubVars>>

-----------------------------------------------------------------------------
AccountUsage(w) ==
    \/ ObserveUsage(w) \/ FinalizeUsage(w)
    \/ LoadUsage(w) \/ OpenUsage(w) \/ WriteUsage(w) \/ RenameUsage(w) \/ StoreSum(w)
Subscriber(g) ==
    \/ SubTakes(g) \/ SubWrites(g) \/ SubLeaves(g) \/ SubEnds(g) \/ PostResultDrain(g)
    \/ FinishDetached(g) \/ AccountUsage(g)
SideEffects == PumpTakes \/ PumpMoves \/ AccountUsage(Pump)
Client == ReadLine \/ EndOfStream

Next ==
    \/ Emit \/ AgentExits \/ SideEffects \/ ReattachTimeout
    \/ \E g \in Conns : Subscriber(g)
    \/ Client \/ Break \/ FollowFrom \/ RespondTo \/ Steal
    \/ cfg.hub /\ HubNext /\ UNCHANGED <<scenario, turnVars>>

\* Readers of a relay share one wakeup token: an event may wake another reader than this one,
\* which then sleeps until the source is done.
Woken(att) == SourceDone(att)

\* An agent emits its events up to a result; it need not exit after that, the drain sees to
\* the end.  Handlers, the pump, the reader of a stream, the hub and the timer go on.  There
\* are finitely many of these steps, so that fairness of all together is fairness of each.
Goes ==
    \/ Emit \/ (~Has("result") /\ AgentExits) \/ Client \/ ReattachTimeout
    \/ (Woken(pump.att) /\ PumpTakes) \/ PumpMoves \/ AccountUsage(Pump)
    \/ \E g \in Conns : (sub[g].pc = "stream" /\ sub[g].at < Count(sub[g].att) => Woken(sub[g].att))
                        /\ Subscriber(g)
    \/ cfg.hub /\ HubGoes /\ UNCHANGED <<scenario, turnVars>>

Fairness == WF_vars(Goes)

Spec == Init /\ [][Next]_vars /\ Fairness

-----------------------------------------------------------------------------
TypeOK ==
    /\ relay.att \in DOMAIN cfg.plan /\ relay.n \in 0..Len(Plan(relay.att))
    /\ exec.sub \in 0..MaxConns /\ exec.off \in Nat
    /\ exec.st \in {"active", "suspended", "answered", "result", "error"}
    /\ \A g \in Conns :
        /\ sub[g].kind \in {"none", "post", "follow", "respond"}
        /\ sub[g].pc \in {"off", "stream", "write", "left", "ended"}
        /\ conn[g].st \in {"off", "open", "shut", "broken", "other"}
    /\ client.st \in {"off", "reading", "asked", "lost", "clean", "refused"}
    /\ pump.at \in Nat /\ disk.rec \in Nat
    /\ \A w \in Observers : ob[w].pc \in {"no", "mark", "append", "turn", "final", "make", "keep",
                                         "load", "open", "write", "rename", "sum"}
    /\ flags \subseteq {"stale", "stolen", "regressed", "unwritable", "overlap"}

\* A character that a chunk boundary cuts comes out as two replacement characters.
SameText(sent, got) ==
    /\ Len(sent) = Len(got)
    /\ \A i \in DOMAIN sent : got[i] = sent[i] \/ (sent[i] \in {"x1", "x2"} /\ got[i] = "?")

\* The events of an attempt that are written to a stream, with their ids.
Visible(att) ==
    SelectSeq([i \in 1..Count(att) |-> [att |-> att, id |-> i - 1, type |-> Plan(att)[i].type,
                                        content |-> Plan(att)[i].content]],
              LAMBDA e : e.type # "retry")
AllVisible == FlattenSeq([att \in 1..relay.att |-> Visible(att)])

\* The consumer is given the events of the turn, each once, whole and in their order, over
\* however many connections, unless it came back with an id of an earlier attempt or its
\* answer was resumed from where somebody else's stream had got to (parseFollowFrom,
\* streamOffset).
DeliveredInTurn ==
    flags \cap {"stale", "regressed"} = {} =>
        /\ Len(client.got) <= Len(AllVisible)
        /\ \A i \in DOMAIN client.got :
            /\ client.got[i].att = AllVisible[i].att /\ client.got[i].id = AllVisible[i].id
            /\ client.got[i].type = AllVisible[i].type
            /\ SameText(AllVisible[i].content, client.got[i].content)

\* A stream that ends with [DONE] has told how the turn ended, but for one whose subscription
\* was taken over, one with an event that cannot be written, and one that follows, or
\* answers, an attempt that failed for a retry.
CleanEndTells ==
    client.st = "clean" /\ flags \cap {"stolen", "unwritable"} = {} =>
        \/ client.told \/ (client.got # <<>> /\ Terminal(Last(client.got)))
        \/ /\ sub[client.conn].kind # "post"
           /\ \E i \in 1..Count(sub[client.conn].att) : Plan(sub[client.conn].att)[i].type = "retry"

\* The chunks that have come of a result are a beginning of it, each once.
ChunksConsistent ==
    \A c \in DOMAIN client.asm :
        DOMAIN client.asm[c].parts = 0..(Cardinality(DOMAIN client.asm[c].parts) - 1)

\* Delivery as a whole (attachSSE, SplitStreamEventForSSE, Stream.events, Session.FollowFrom).
DeliveredWhole == TypeOK /\ DeliveredInTurn /\ CleanEndTells /\ ChunksConsistent

-----------------------------------------------------------------------------
AllEvents == FlattenSeq([att \in 1..relay.att |-> SubSeq(Plan(att), 1, Count(att))])
CallIds == {AllEvents[i].usage.call : i \in {j \in DOMAIN AllEvents : AllEvents[j].usage.src = "call"}}

\* However many subscribers and the pump observe an event, each call is counted once, and
\* the record of the turn misses none, unless two of them were in the aggregator together.
CallsOnce ==
    "overlap" \notin flags =>
        /\ \A i, j \in DOMAIN agg.calls : agg.calls[i].call = agg.calls[j].call => i = j
        /\ agg.final # <<>> /\ flags \cap {"stale", "regressed"} = {} =>
            {agg.final[1].calls[i].call : i \in DOMAIN agg.final[1].calls} = CallIds

\* When nobody is writing the report it holds the turn once, the earlier turns as they were,
\* and the session's sum is the sum of its records, though all who write it use one
\* temporary file (saveUsageReport).  Whatever they did to the calls, the amount of a turn
\* is the one its result states.
Settled == agg.final # <<>> /\ \A w \in Observers : ob[w].pc = "no"
Stated == {AllEvents[i].usage.n : i \in {j \in DOMAIN AllEvents :
                AllEvents[j].type = "result" /\ AllEvents[j].usage.src = "result"}}
ReportExact ==
    Settled =>
        /\ disk.file.is = "whole"
        /\ \E rec \in {Last(disk.file.turns)} :
            /\ disk.file.turns = Append(cfg.report, rec)
            /\ rec.turn = 2 /\ (Stated # {} => rec.n \in Stated)
            /\ "overlap" \notin flags => rec = RecordOf(agg.final[1])
        /\ disk.rec = SumOf(disk.file.turns)

\* What a query of the report is to answer: the turns after one, between two, in a span of
\* time, and the last of them.
Position(turns, id) == CHOOSE i \in DOMAIN turns : turns[i].turn = id
Known(turns, id) == id = 0 \/ \E i \in DOMAIN turns : turns[i].turn = id
Between(turns, q) ==
    {i \in DOMAIN turns :
        /\ Known(turns, q.after) /\ Known(turns, q.from) /\ Known(turns, q.to)
        /\ q.after # 0 => \A id \in {q.after} : i > Position(turns, id)
        /\ q.from # 0 => i >= Position(turns, q.from)
        /\ q.to # 0 => i <= Position(turns, q.to)
        /\ (q.since # 0 \/ q.until # 0) => turns[i].at # 0
        /\ q.since # 0 => turns[i].at >= q.since
        /\ q.until # 0 => turns[i].at <= q.until}
\* A range whose ends lie before the turn it starts after has none.
Empty(turns, q) ==
    q.after # 0 /\ \E id \in {q.from, q.to} \ {0} :
        Known(turns, id) /\ Known(turns, q.after) /\ Position(turns, id) <= Position(turns, q.after)
Asked(turns, q) ==
    LET in == Between(turns, q)
        kept == {i \in in : q.lastN = 0 \/ Cardinality({j \in in : j >= i}) <= q.lastN}
    IN  IF Empty(turns, q) THEN <<>>
        ELSE FoldLeftDomain(LAMBDA s, i : IF i \in kept THEN Append(s, turns[i]) ELSE s, <<>>, turns)

QueryExact ==
    Settled => \A q \in Queries :
        FilterTurnUsage(disk.file.turns, q) = Asked(disk.file.turns, q)

\* The usage of the turn as a whole (applyUsageSideEffects, usage_store.go, FilterTurnUsage).
UsageExact == CallsOnce /\ ReportExact /\ QueryExact

\* Somebody the consumer's connection depends on sleeps though there are events to take: its
\* subscriber, or the pump, whom a POST that was left, and so a follower, waits for.
Overslept ==
    /\ client.st = "reading" /\ ~Woken(relay.att)
    /\ \/ sub[client.conn].pc = "stream" /\ sub[client.conn].at < relay.n
       \/ ~(sub[client.conn].pc = "stream" /\ sub[client.conn].term = "result") /\ pump.at < relay.n

\* A consumer that reads is not left reading for ever, even when the agent stays after its
\* result, unless a wakeup for what the agent said last was missed; and no
\* writer of the log is left adding (attachSSE, Stream.events, TaskLog.Add).
ReadingEnds == (client.st = "reading" ~> client.st # "reading") \/ <>[]Overslept
DeliveryEnds == ReadingEnds /\ AddsReturn
=============================================================================
