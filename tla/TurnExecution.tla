--------------------------- MODULE TurnExecution ---------------------------
(***************************************************************************)
(* The life of a session's turns in the agent service: POST /messages with *)
(* its retry loop (runTurn), the SSE and the JSON response, the            *)
(* side-effect pump, detaching, following and the reattach timer, respond, *)
(* cancel and terminate (agentservice/handler.go, handler_retry.go,        *)
(* handler_follow.go, exec_registry.go, service.go).                       *)
(*                                                                         *)
(* One session.  Its registries (execRegistry, activeSessions,             *)
(* execCancels) are keyed by the session id, so each is a single cell.  A  *)
(* turn is one POST /messages; its activeExecution is identified with it.  *)
(* Every attempt of a turn starts one agent process with a relay of its    *)
(* own.  A relay is abstracted to the events that decide what happens:     *)
(*   "system"  carries the native thread id,  "input" asks for user input, *)
(*   "result"  ends the turn,                 "error" a permanent failure, *)
(*   "retry"   a retryable failure.                                        *)
(* Readers of a relay get its events in order (EventRelay) at any pace.    *)
(* The session record is one cell here; how it is stored is SessionStore.  *)
(* A turn has up to three request handlers: its POST ("post"), a GET       *)
(* /events ("follow") and a POST /respond ("respond").                     *)
(***************************************************************************)
EXTENDS Integers, Sequences, FiniteSets

CONSTANTS
    Turns,         \* POST /messages requests
    Requests,      \* what a turn may be like: see Request
    MaxAttempts,   \* bound: attempts of a turn
    MaxEvents      \* bound: events the agents of a turn emit

Choices == {"concurrent", "cancel", "terminate", "disconnect", "follow", "respond",
            "plainrespond", "startfails"}
EventKinds == {"system", "input", "result", "error", "retry"}
NoTurn == "none"

(* What the client accepts, what clients and agents may do besides a plain *)
(* turn, which and how many events the agents emit, and                    *)
(* process_retry.max_attempts (1 for agents other than codex).             *)
Request == [accept : {"sse", "json"}, env : SUBSET Choices, events : SUBSET EventKinds,
            emits : 0..MaxEvents, attempts : 1..MaxAttempts]

ASSUME TurnAssumption ==
    /\ IsFiniteSet(Turns) /\ NoTurn \notin Turns
    /\ MaxAttempts \in Nat \ {0} /\ MaxEvents \in Nat /\ Requests \subseteq Request

Attempts == 1..MaxAttempts
Kinds == {"post", "follow", "respond"}

VARIABLES
    registry,     \* execRegistry: the registered execution, or NoTurn
    execCancels,  \* execCancels: the turn whose context CancelExecution cancels
    activeSess,   \* activeSessions: the turn whose agent session Shutdown closes
    rec,          \* the session record: status, error, native (AgentSessionID)
    binding,      \* the native id kept in the canonical metadata
    turn,         \* per turn, runTurn's locals: its request, attempt, heal, ctxDone, gone
    h,            \* per turn and kind, its handler: pc and attachSSE's locals
    exec,         \* per turn, its activeExecution
    pump,         \* per turn, its side-effect pump
    proc,         \* per turn and attempt, the agent process and its relay
    aborter,      \* the cancel or terminate request: none, its kind, done
    ended,        \* turns that cancel, terminate or a drain timeout ended
    ingested,     \* turns whose events went into the canonical history
    resumed       \* <<turn, attempt>> pairs started with a native thread id

regVars == <<registry, execCancels, activeSess>>
vars == <<regVars, rec, binding, turn, h, exec, pump, proc, aborter, ended, ingested, resumed>>

Handler == [pc |-> "off", rel |-> 0, cur |-> 0, term |-> "none", susp |-> FALSE, wrote |-> FALSE]

Init ==
    /\ registry = NoTurn /\ execCancels = NoTurn /\ activeSess = NoTurn
    /\ \E n \in {"none", "some"} :
         /\ rec = [status |-> "active", error |-> "none", native |-> n]
         /\ binding = n
    /\ turn \in [Turns -> {[req |-> r, attempt |-> 0, heal |-> FALSE, ctxDone |-> FALSE,
                             gone |-> FALSE] : r \in Requests}]
    /\ h = [t \in Turns |-> [k \in Kinds |-> Handler]]
    /\ exec = [t \in Turns |-> [relay |-> 0, status |-> "active", offset |-> 0, sub |-> "none",
                                timer |-> "off", firing |-> FALSE]]
    /\ pump = [t \in Turns |-> [pc |-> "off", att |-> 0, cur |-> 0]]
    /\ proc = [t \in Turns |-> [a \in Attempts |-> [st |-> "none", ev |-> <<>>, done |-> FALSE]]]
    /\ aborter = "none"
    /\ ended = {} /\ ingested = {} /\ resumed = {}

PC(t, k) == h[t][k].pc
Goto(t, k, label) == h' = [h EXCEPT ![t][k].pc = label]
May(t, choice) == choice \in turn[t].req.env
SSE(t, k) == turn[t].req.accept = "sse" \/ k # "post"
Registered(t) == exec[t].relay # 0
Relay(t) == proc[t][exec[t].relay]
Has(s, e) == \E i \in 1..Len(s) : s[i] = e

(* Stopping a live agent process (Session.Close). *)
Stopped(t, a) == [proc EXCEPT ![t][a].st = IF @ \in {"running", "waiting"} THEN "closed" ELSE @]

-----------------------------------------------------------------------------
(* Terminal events and the session's status.                               *)

Failed(r)    == [r EXCEPT !.status = "error", !.error = "other"]
Completed(r) == [r EXCEPT !.status = "completed", !.error = "none"]

(* updateSessionStatusOnTerminal; a cancelled turn's record is left alone. *)
OnTerminal(r, e) ==
    IF r.error = "cancelled" THEN r
    ELSE CASE e = "error"  -> Failed(r)
           [] e = "result" -> Completed(r)
           [] OTHER        -> r

(* resolveTerminalFromRelayEvents: a result anywhere wins, then a          *)
(* permanent error, then a retryable one; nothing at all is an error.      *)
ResolveTerminal(s) ==
    CASE Has(s, "result") -> "result"
      [] ~Has(s, "result") /\ Has(s, "retry") /\ ~Has(s, "error") -> "retry"
      [] OTHER -> "error"

(* Fault of EnsureTerminal: a terminal that was read is never revised. *)
FirstTerminal(trm, s) == IF trm # "none" THEN trm ELSE ResolveTerminal(s)

(* ensureRelayTerminal: what the end of a stream means for the turn. *)
EnsureTerminal(trm, s) ==
    CASE trm \in {"result", "error"} -> trm
      [] OTHER -> ResolveTerminal(s)

-----------------------------------------------------------------------------
(* handleSendMessage and runTurn up to the stream.                         *)

(* The client has an answer to u, or ended it, or lost its stream. *)
Over(u) == u \in ended \/ PC(u, "post") \in {"off", "returned", "busy", "suspended", "detached"}

(* The busy check at the top of handleSendMessage. *)
SendMessage(t) ==
    /\ PC(t, "post") = "off"
    /\ May(t, "concurrent") \/ \A u \in Turns : Over(u)
    /\ Goto(t, "post", IF registry = NoTurn THEN "accepted" ELSE "busy")
    /\ UNCHANGED <<regVars, rec, binding, turn, exec, pump, proc, aborter, ended, ingested, resumed>>

(* The request was validated and wrapped: register its cancel function. *)
RegisterCancel(t) ==
    /\ PC(t, "post") = "accepted"
    /\ execCancels' = t
    /\ turn' = [turn EXCEPT ![t].attempt = 1]
    /\ Goto(t, "post", "create")
    /\ UNCHANGED <<registry, activeSess, rec, binding, exec, pump, proc, aborter, ended, ingested, resumed>>

(* CreateSession fails, as it always does under a cancelled context: an    *)
(* unregistered request just ends, a registered turn ends with an error    *)
(* (written to the record by emitClassifiedSSE).                           *)
CreateFails(t) ==
    /\ PC(t, "post") = "create" /\ (May(t, "startfails") \/ turn[t].ctxDone)
    /\ IF Registered(t)
         THEN /\ Goto(t, "post", "finish")
              /\ rec' = IF SSE(t, "post") THEN OnTerminal(rec, "error") ELSE rec
              /\ UNCHANGED <<execCancels, turn>>
         ELSE /\ Goto(t, "post", "returned")
              /\ execCancels' = NoTurn
              /\ turn' = [turn EXCEPT ![t].ctxDone = TRUE]
              /\ UNCHANGED rec
    /\ UNCHANGED <<registry, activeSess, binding, exec, pump, proc, aborter, ended, ingested, resumed>>

(* closeAttempt and clearPersistedAgentSessionID: the current attempt is   *)
(* closed and the next one is a fresh, self-healing one.                   *)
PrepareRetry(t) ==
    /\ proc' = Stopped(t, turn[t].attempt)
    /\ activeSess' = NoTurn
    /\ rec' = [rec EXCEPT !.native = "none"]
    /\ turn' = [turn EXCEPT ![t].attempt = @ + 1, ![t].heal = TRUE]

(* Send fails after CreateSession succeeded. *)
SendFails(t) ==
    /\ May(t, "startfails") /\ PC(t, "post") = "create" /\ ~turn[t].ctxDone
    /\ IF Registered(t) /\ turn[t].attempt < turn[t].req.attempts
         THEN PrepareRetry(t) /\ UNCHANGED h
         ELSE /\ Goto(t, "post", "finish")
              /\ activeSess' = IF Registered(t) THEN NoTurn ELSE t
              /\ UNCHANGED <<proc, rec, turn>>
    /\ UNCHANGED <<registry, execCancels, binding, exec, pump, aborter, ended, ingested, resumed>>

(* attachSSE's entry (stealSubscriber): k becomes the one subscriber of t, *)
(* reading relay a from position from.                                     *)
Attached(t, k, a, from) ==
    [h EXCEPT ![t][k] = [Handler EXCEPT !.pc = "reading", !.rel = a, !.cur = from]]
Subscribed(e, k) == [e EXCEPT !.sub = k, !.timer = "off"]

(* The execution of t once its current attempt has started. *)
WithRelay(t) == LET r == [exec[t] EXCEPT !.relay = turn[t].attempt, !.offset = 0]
                IN IF SSE(t, "post") THEN Subscribed(r, "post") ELSE r

(* CreateSession and Send succeed: a process runs, resumed from the native *)
(* id in the record, or else, on the first attempt, in the canonical       *)
(* binding.  A later attempt's relay replaces the execution's.             *)
StartAgent(t) ==
    /\ PC(t, "post") = "create" /\ ~turn[t].ctxDone
    /\ activeSess' = t
    /\ proc' = [proc EXCEPT ![t][turn[t].attempt].st = "running"]
    /\ resumed' = IF rec.native = "some" \/ (binding = "some" /\ ~turn[t].heal)
                    THEN resumed \cup {<<t, turn[t].attempt>>} ELSE resumed
    /\ IF Registered(t)
         THEN /\ exec' = [exec EXCEPT ![t] = WithRelay(t)]
              /\ h' = Attached(t, "post", turn[t].attempt, 0)
         ELSE Goto(t, "post", "register") /\ UNCHANGED exec
    /\ UNCHANGED <<registry, execCancels, rec, binding, turn, pump, aborter, ended, ingested>>

(* markSessionActive.  Fault: it is left out. *)
NotActivated(r) == r
Activated(r) == [r EXCEPT !.status = "active"]

(* execRegistry.Register, markSessionActive and the start of the pump; a   *)
(* request that lost the race gives up through finishActiveExecution.      *)
Register(t) ==
    /\ PC(t, "post") = "register"
    /\ IF registry = NoTurn
         THEN /\ registry' = t
              /\ rec' = Activated(rec)
              /\ exec' = [exec EXCEPT ![t] = WithRelay(t)]
              /\ pump' = [pump EXCEPT ![t].pc = IF SSE(t, "post") THEN "top" ELSE "off"]
              /\ h' = Attached(t, "post", turn[t].attempt, 0)
         ELSE /\ Goto(t, "post", "finish")
              /\ UNCHANGED <<registry, rec, exec, pump>>
    /\ UNCHANGED <<execCancels, activeSess, binding, turn, proc, aborter, ended, ingested, resumed>>

(* ingestActiveTurn: the events of execution u go into the canonical       *)
(* history, and the native id it knows into its binding and the record.    *)
Ingest(u) ==
    IF u = NoTurn THEN UNCHANGED <<ingested, binding, rec>>
    ELSE LET native == IF Has(Relay(u).ev, "system") THEN "some"
                       ELSE IF rec.native = "some" THEN "some" ELSE binding
         IN /\ ingested' = ingested \cup {u}
            /\ binding' = native
            /\ rec' = [rec EXCEPT !.native = IF native = "some" THEN "some" ELSE @]

(* finishActiveExecution of handler k: ingest the execution registered     *)
(* under the session id, close the handler's agent session, clear the      *)
(* three registries.                                                       *)
Finish(t, k) ==
    /\ PC(t, k) = "finish"
    /\ Ingest(registry)
    /\ exec' = IF registry = NoTurn THEN exec ELSE [exec EXCEPT ![registry].timer = "off"]
    /\ proc' = Stopped(t, IF k = "post" THEN turn[t].attempt ELSE exec[t].relay)
    /\ registry' = NoTurn /\ execCancels' = NoTurn /\ activeSess' = NoTurn
    /\ Goto(t, k, "returned")
    /\ UNCHANGED <<turn, pump, aborter, ended, resumed>>

-----------------------------------------------------------------------------
(* attachSSE: one reader of the execution's relay.                         *)

(* Fault of Armed: nothing bounds a turn without a subscriber. *)
NeverArmed(e) == e

(* armReattachTimer *)
Armed(e) == IF e.sub # "none" \/ e.status = "suspended" \/ e.timer # "off" THEN e
            ELSE [e EXCEPT !.timer = "armed"]

(* attachSSE returns: its deferred clearSubscriber arms the timer unless   *)
(* the subscription was stolen.  A POST or a respond that only lost its    *)
(* client keeps the turn (waitDetached).                                   *)
Unsubscribed(e, k) == IF e.sub = k THEN Armed([e EXCEPT !.sub = "none"]) ELSE e
AfterAttach(k, susp, detached) ==
    CASE k = "follow" -> IF detached THEN "left" ELSE "ended"
      [] k # "follow" /\ detached /\ ~susp -> "detached"
      [] OTHER -> "after"

(* The stream of events a reader gets. *)
Pending(t, k) == PC(t, k) = "reading" /\ h[t][k].cur < Len(proc[t][h[t][k].rel].ev)
NextEvent(t, k) == proc[t][h[t][k].rel].ev[h[t][k].cur + 1]
Drained(t, k) == /\ PC(t, k) = "reading"
                 /\ h[t][k].cur >= Len(proc[t][h[t][k].rel].ev)
                 /\ proc[t][h[t][k].rel].done

(* writeEvent: retryable errors are not written.  A POST and a follow stop *)
(* at a request for input.  The write fails when the client is gone.       *)
Ends(k, p, e, fails) == fails \/ ((p.susp \/ e = "input") /\ k # "respond" /\ e # "retry")
Took(k, p, e, fails) ==
    LET susp == p.susp \/ e = "input"
    IN [p EXCEPT !.cur = @ + 1, !.susp = susp,
                 !.term = IF e \in {"result", "error", "retry"} THEN e ELSE @,
                 !.wrote = @ \/ (~fails /\ e \in {"result", "error"}),
                 !.pc = IF Ends(k, p, e, fails) THEN AfterAttach(k, susp, fails) ELSE @]

ReadSSE(t, k) ==
    /\ Pending(t, k) /\ SSE(t, k)
    /\ \E fails \in {f \in BOOLEAN : f => May(t, "disconnect") /\ NextEvent(t, k) # "retry"} :
         LET p == h[t][k]
             e == NextEvent(t, k)
             r == [exec[t] EXCEPT !.offset = p.cur + 1]
         IN /\ h' = [h EXCEPT ![t][k] = Took(k, p, e, fails)]
            /\ exec' = [exec EXCEPT ![t] = IF Ends(k, p, e, fails) THEN Unsubscribed(r, k) ELSE r]
    /\ UNCHANGED <<regVars, rec, binding, turn, pump, proc, aborter, ended, ingested, resumed>>

(* writeSyntheticTerminal has something to write.  Fault: it never has. *)
NeverSynthesized(wrote, trm) == FALSE
Synthesized(wrote, trm) == ~wrote /\ trm # "retry"

(* The channel is closed and drained: the terminal is resolved from the    *)
(* execution's relay and, if none was written, written and recorded.       *)
AtEnd(k, p, trm) ==
    [p EXCEPT !.term = trm, !.wrote = @ \/ Synthesized(p.wrote, trm),
              !.pc = AfterAttach(k, FALSE, FALSE)]

EndSSE(t, k) ==
    /\ Drained(t, k) /\ SSE(t, k)
    /\ LET p     == h[t][k]
           trm   == EnsureTerminal(p.term, Relay(t).ev)
           synth == Synthesized(p.wrote, trm)
           r     == IF synth THEN [exec[t] EXCEPT !.offset = p.cur + 1] ELSE exec[t]
       IN /\ h' = [h EXCEPT ![t][k] = AtEnd(k, p, trm)]
          /\ rec' = IF synth THEN OnTerminal(rec, trm) ELSE rec
          /\ exec' = [exec EXCEPT ![t] = Unsubscribed(r, k)]
    /\ UNCHANGED <<regVars, binding, turn, pump, proc, aborter, ended, ingested, resumed>>

(* postResultDrain elapses while the source is still open. *)
PostResultDrain(t, k) ==
    /\ PC(t, k) = "reading" /\ h[t][k].term = "result" /\ SSE(t, k)
    /\ Goto(t, k, AfterAttach(k, FALSE, FALSE))
    /\ exec' = [exec EXCEPT ![t] = Unsubscribed(@, k)]
    /\ UNCHANGED <<regVars, rec, binding, turn, pump, proc, aborter, ended, ingested, resumed>>

(* The client disconnects, or another handler stole the subscription. *)
Leave(t, k) ==
    /\ PC(t, k) = "reading" /\ SSE(t, k)
    /\ May(t, "disconnect") \/ exec[t].sub # k
    /\ Goto(t, k, AfterAttach(k, h[t][k].susp, TRUE))
    /\ exec' = [exec EXCEPT ![t] = Unsubscribed(@, k)]
    /\ UNCHANGED <<regVars, rec, binding, turn, pump, proc, aborter, ended, ingested, resumed>>

-----------------------------------------------------------------------------
(* What follows a stream: streamSSERelay's status update and runTurn's     *)
(* decision, handleRespond's unconditional end.                            *)

(* The stream ended with a retryable error and attempts are left. *)
Retryable(t) == h[t]["post"].term = "retry" /\ turn[t].attempt < turn[t].req.attempts

(* The record after a stream that ended with trm.  The JSON path does not  *)
(* spare a cancelled turn's record.                                        *)
Settled(sse, trm) ==
    CASE ~sse /\ trm = "error"  -> Failed(rec)
      [] ~sse /\ trm = "result" -> Completed(rec)
      [] OTHER -> OnTerminal(rec, trm)

(* A result or a permanent error ends the turn.  Exhausted retries do too: *)
(* the classified error is recorded, except by the SSE path when it says   *)
(* that the upstream is overloaded (that event is marked retryable).       *)
AfterEnds(t, k) ==
    /\ PC(t, k) = "after"
    /\ k = "post" => ~h[t][k].susp /\ ~Retryable(t)
    /\ Goto(t, k, "finish")
    /\ \/ rec' = Settled(SSE(t, k), h[t][k].term) /\ (h[t][k].term = "retry" => SSE(t, k))
       \/ rec' = OnTerminal(rec, "error") /\ h[t][k].term = "retry" /\ k = "post"
    /\ UNCHANGED <<regVars, binding, turn, exec, pump, proc, aborter, ended, ingested, resumed>>

(* The turn asked for input: it stays registered, with its agent. *)
AfterSuspends(t) ==
    /\ PC(t, "post") = "after" /\ h[t]["post"].susp
    /\ Goto(t, "post", "suspended")
    /\ rec' = OnTerminal(rec, h[t]["post"].term)
    /\ UNCHANGED <<regVars, binding, turn, exec, pump, proc, aborter, ended, ingested, resumed>>

(* Fault of AfterRetries: closing the attempt frees the session. *)
AfterRetriesFrees(t) ==
    /\ PC(t, "post") = "after" /\ ~h[t]["post"].susp /\ Retryable(t)
    /\ PrepareRetry(t)
    /\ registry' = NoTurn /\ execCancels' = NoTurn
    /\ Goto(t, "post", "retrywait")
    /\ UNCHANGED <<binding, exec, pump, aborter, ended, ingested, resumed>>

(* The stream's retryable error is swallowed and another attempt prepared. *)
AfterRetries(t) ==
    /\ PC(t, "post") = "after" /\ ~h[t]["post"].susp /\ Retryable(t)
    /\ PrepareRetry(t)
    /\ Goto(t, "post", "retrywait")
    /\ UNCHANGED <<registry, execCancels, binding, exec, pump, aborter, ended, ingested, resumed>>

(* The select between the retry interval and execCtx.Done(). *)
RetryWait(t) ==
    /\ PC(t, "post") = "retrywait"
    /\ \E next \in {"create"} \cup (IF turn[t].ctxDone THEN {"finish"} ELSE {}) : Goto(t, "post", next)
    /\ UNCHANGED <<regVars, rec, binding, turn, exec, pump, proc, aborter, ended, ingested, resumed>>

(* One round of waitDetached.  Only the record's status and the presence   *)
(* of some execution under the session id are looked at.                   *)
OnSuspended(k) == IF k = "post" THEN "suspended" ELSE "finish"
PollDetached(t, k) ==
    /\ PC(t, k) = "detached"
    /\ exec' = [exec EXCEPT ![t] = Armed(@)]
    /\ h' = CASE registry = NoTurn \/ rec.status = "error" ->
                   [h EXCEPT ![t][k].pc = "finish", ![t][k].term = "error"]
              [] registry # NoTurn /\ rec.status = "completed" ->
                   [h EXCEPT ![t][k].pc = "finish", ![t][k].term = "result"]
              [] registry # NoTurn /\ rec.status = "suspended" ->
                   [h EXCEPT ![t][k].pc = OnSuspended(k)]
              [] OTHER -> h
    /\ <<exec', h'>> # <<exec, h>>
    /\ UNCHANGED <<regVars, rec, binding, turn, pump, proc, aborter, ended, ingested, resumed>>

(* The reattach timer fires; its goroutine may run after a reader attached *)
(* again.  The reattach timeout is longer than the handlers need between   *)
(* the end of a stream and the next one or the end of the turn.            *)
TimerFires(t) ==
    /\ exec[t].timer = "armed"
    /\ PC(t, "post") \notin {"after", "retrywait", "create", "finish"}
    /\ PC(t, "respond") \notin {"after", "finish"}
    /\ exec' = [exec EXCEPT ![t].timer = "fired", ![t].firing = TRUE]
    /\ UNCHANGED <<regVars, rec, binding, turn, h, pump, proc, aborter, ended, ingested, resumed>>

(* stopExecOnDrainTimeout; the record's status is left as it is. *)
StopExec(t) ==
    IF registry = t
      THEN /\ proc' = Stopped(t, exec[t].relay)
           /\ registry' = NoTurn /\ execCancels' = NoTurn /\ activeSess' = NoTurn
           /\ ended' = ended \cup {t}
      ELSE UNCHANGED <<proc, regVars, ended>>

TimedOut(e, found) == [e EXCEPT !.firing = FALSE, !.timer = IF found THEN "off" ELSE @]
DrainTimeout(t) ==
    /\ exec[t].firing
    /\ StopExec(t)
    /\ exec' = [exec EXCEPT ![t] = TimedOut(@, registry = t)]
    /\ UNCHANGED <<rec, binding, turn, h, pump, aborter, ingested, resumed>>

(* handleFollow: steal the subscription, from any position of the buffer.  *)
Follow(t) ==
    /\ May(t, "follow") /\ registry = t /\ PC(t, "follow") = "off"
    /\ \E from \in 0..Len(Relay(t).ev) : h' = Attached(t, "follow", exec[t].relay, from)
    /\ exec' = [exec EXCEPT ![t] = Subscribed(@, "follow")]
    /\ UNCHANGED <<regVars, rec, binding, turn, pump, proc, aborter, ended, ingested, resumed>>

(* handleRespond up to its Accept check: the answer reaches the agent's    *)
(* stdin and the session is active again.                                  *)
Answered(t) ==
    /\ registry = t /\ PC(t, "respond") = "off"
    /\ "suspended" \in {rec.status, exec[t].status}
    /\ Relay(t).st \in {"running", "waiting"}
    /\ proc' = [proc EXCEPT ![t][exec[t].relay].st = "running"]
    /\ rec' = [rec EXCEPT !.status = "active"]
    /\ UNCHANGED <<regVars, binding, turn, pump, aborter, ended, ingested, resumed>>

(* The turn goes on, streamed from where the last reader stopped. *)
Respond(t) ==
    /\ May(t, "respond") /\ Answered(t)
    /\ exec' = [exec EXCEPT ![t] = Subscribed([@ EXCEPT !.status = "active"], "respond")]
    /\ h' = Attached(t, "respond", exec[t].relay, exec[t].offset)

(* A client that does not accept an event stream gets 406, but only after  *)
(* its answer was passed on; nobody reads or finishes the turn.            *)
RespondNotAcceptable(t) ==
    /\ May(t, "plainrespond") /\ Answered(t)
    /\ exec' = [exec EXCEPT ![t].status = "active"]
    /\ Goto(t, "respond", "refused")

-----------------------------------------------------------------------------
(* respondJSONRelay: the handler is the only consumer and applies the      *)
(* effects itself; the last terminal event it reads wins.                  *)

(* The turn's execution and, through execRegistry.SetStatus, the one       *)
(* registered under the session id are marked suspended.                   *)
Suspended(t) ==
    [u \in Turns |-> IF u \in {t, registry} THEN [exec[u] EXCEPT !.status = "suspended"] ELSE exec[u]]

(* Where a request for input leaves the handler; a departed client's is    *)
(* drained without suspending.  Fault: it always goes on to the end.       *)
InputEndsJSON(live) == "after"
AfterInputJSON(live) == IF live THEN "suspended" ELSE "after"

TookJSON(p, e, live) ==
    [p EXCEPT !.cur = @ + 1, !.term = IF e \in {"result", "error", "retry"} THEN e ELSE @,
              !.pc = IF e = "input" THEN AfterInputJSON(live) ELSE @]

ReadJSON(t) ==
    /\ ~SSE(t, "post") /\ Pending(t, "post")
    /\ LET e == NextEvent(t, "post")
           live == ~turn[t].gone
       IN /\ h' = [h EXCEPT ![t]["post"] = TookJSON(@, e, live)]
          /\ rec' = CASE e = "input" /\ live  -> [rec EXCEPT !.status = "suspended"]
                      [] e = "system" /\ live -> [rec EXCEPT !.native = "some"]
                      [] OTHER -> OnTerminal(rec, e)
          /\ exec' = [(IF e = "input" /\ live THEN Suspended(t) ELSE exec) EXCEPT ![t].offset = @ + 1]
    /\ UNCHANGED <<regVars, binding, turn, pump, proc, aborter, ended, ingested, resumed>>

GoneJSON(t) ==
    /\ May(t, "disconnect") /\ ~SSE(t, "post") /\ PC(t, "post") = "reading" /\ ~turn[t].gone
    /\ turn' = [turn EXCEPT ![t].gone = TRUE]
    /\ UNCHANGED <<regVars, rec, binding, h, exec, pump, proc, aborter, ended, ingested, resumed>>

EndJSON(t) ==
    /\ ~SSE(t, "post") /\ Drained(t, "post")
    /\ Goto(t, "post", "after")
    /\ UNCHANGED <<regVars, rec, binding, turn, exec, pump, proc, aborter, ended, ingested, resumed>>

(* The drain timer of a departed client; the turn then has an error, or no *)
(* terminal at all when another execution took its place.                  *)
DrainJSON(t) ==
    /\ ~SSE(t, "post") /\ PC(t, "post") = "reading" /\ turn[t].gone
    /\ StopExec(t)
    /\ h' = [h EXCEPT ![t]["post"].pc = "after",
                      ![t]["post"].term = IF registry = t THEN "error" ELSE "none"]
    /\ exec' = [exec EXCEPT ![t].timer = IF registry = t THEN "off" ELSE @]
    /\ UNCHANGED <<rec, binding, turn, pump, aborter, ingested, resumed>>

-----------------------------------------------------------------------------
(* pumpExecSideEffects: applies the effects of every event to the record,  *)
(* attached reader or not, as long as some execution is registered.        *)

(* The head of the pump's loop: give up, or range over the relay the       *)
(* execution holds now.                                                    *)
PumpHead(t) ==
    pump' = [pump EXCEPT ![t] = IF registry = NoTurn THEN [@ EXCEPT !.pc = "off"]
                                ELSE [pc |-> "range", att |-> exec[t].relay, cur |-> 0]]

PumpStarts(t) ==
    /\ pump[t].pc = "top"
    /\ PumpHead(t)
    /\ UNCHANGED <<regVars, rec, binding, turn, h, exec, proc, aborter, ended, ingested, resumed>>

(* handleRelaySideEffects for the next event of the relay it ranges over. *)
PumpEvent(t) ==
    /\ pump[t].pc = "range" /\ pump[t].att = exec[t].relay
    /\ pump[t].cur < Len(Relay(t).ev)
    /\ LET e == Relay(t).ev[pump[t].cur + 1]
       IN /\ rec' = CASE e = "input"  -> [rec EXCEPT !.status = "suspended"]
                      [] e = "system" -> [rec EXCEPT !.native = "some"]
                      [] OTHER        -> OnTerminal(rec, e)
          /\ exec' = IF e = "input" THEN Suspended(t) ELSE exec
    /\ pump' = [pump EXCEPT ![t].cur = @ + 1]
    /\ UNCHANGED <<regVars, binding, turn, h, proc, aborter, ended, ingested, resumed>>

(* A new attempt's relay replaced the one that is read, or the channel is  *)
(* closed and nobody is registered any more (as long as somebody is, the   *)
(* pump polls the closed channel).                                         *)
PumpLoops(t) ==
    /\ pump[t].pc = "range"
    /\ \/ pump[t].att # exec[t].relay
       \/ pump[t].cur = Len(Relay(t).ev) /\ Relay(t).done /\ registry = NoTurn
    /\ PumpHead(t)
    /\ UNCHANGED <<regVars, rec, binding, turn, h, exec, proc, aborter, ended, ingested, resumed>>

-----------------------------------------------------------------------------
(* handleCancel and handleTerminate: first the execution's context, then   *)
(* (after the artifacts were reconciled) whatever is registered.  The      *)
(* turns in progress are over for the client when it is answered.  Bound:  *)
(* one such request in a behaviour.                                        *)

InProgress == {u \in Turns : PC(u, "post") \notin {"off", "busy", "returned"}}

AbortContext(kind) ==
    /\ aborter = "none" /\ \E t \in InProgress : May(t, kind)
    /\ kind = "cancel" => rec.status # "closed"
    /\ aborter' = kind
    /\ turn' = IF execCancels = NoTurn THEN turn ELSE [turn EXCEPT ![execCancels].ctxDone = TRUE]
    /\ UNCHANGED <<regVars, rec, binding, h, exec, pump, proc, ended, ingested, resumed>>

Cancel ==
    /\ aborter = "cancel"
    /\ IF registry = NoTurn THEN UNCHANGED proc
       ELSE proc' = [Stopped(registry, exec[registry].relay)
                       EXCEPT ![registry][exec[registry].relay].done = TRUE]
    /\ registry' = NoTurn /\ execCancels' = NoTurn /\ activeSess' = NoTurn
    /\ rec' = [rec EXCEPT !.status = "error", !.error = "cancelled"]
    /\ ended' = ended \cup InProgress
    /\ aborter' = "done"
    /\ UNCHANGED <<binding, turn, h, exec, pump, ingested, resumed>>

Terminate ==
    /\ aborter = "terminate"
    /\ proc' = IF registry = NoTurn THEN proc ELSE Stopped(registry, exec[registry].relay)
    /\ registry' = NoTurn /\ execCancels' = NoTurn /\ activeSess' = NoTurn
    /\ rec' = [rec EXCEPT !.status = "closed"]
    /\ ended' = ended \cup InProgress
    /\ aborter' = "done"
    /\ UNCHANGED <<binding, turn, h, exec, pump, ingested, resumed>>

-----------------------------------------------------------------------------
(* The agent process behind a relay (external).  Once it asked for input   *)
(* it waits for stdin; a stopped one may still hand over what it buffered. *)

(* How many events the agents of t have emitted. *)
Emitted(t) == Cardinality({x \in Attempts \X (1..MaxEvents) : x[2] <= Len(proc[t][x[1]].ev)})

Said(p, e) == [p EXCEPT !.ev = Append(@, e),
                        !.st = IF e = "input" /\ @ = "running" THEN "waiting" ELSE @]
AgentEmit(t, a) ==
    /\ proc[t][a].st \in {"running", "closed"} /\ Emitted(t) < turn[t].req.emits
    /\ \E e \in turn[t].req.events : proc' = [proc EXCEPT ![t][a] = Said(@, e)]
    /\ UNCHANGED <<regVars, rec, binding, turn, h, exec, pump, aborter, ended, ingested, resumed>>

AgentExit(t, a) ==
    /\ proc[t][a].st \in {"running", "waiting", "closed"}
    /\ proc' = [proc EXCEPT ![t][a].st = "exited", ![t][a].done = TRUE]
    /\ UNCHANGED <<regVars, rec, binding, turn, h, exec, pump, aborter, ended, ingested, resumed>>

-----------------------------------------------------------------------------
Turn(t) ==
    \/ SendMessage(t) \/ RegisterCancel(t) \/ CreateFails(t) \/ SendFails(t)
    \/ StartAgent(t) \/ Register(t) \/ AfterSuspends(t) \/ AfterRetries(t) \/ RetryWait(t)

Stream(t, k) ==
    \/ ReadSSE(t, k) \/ EndSSE(t, k) \/ PostResultDrain(t, k) \/ Leave(t, k)
    \/ AfterEnds(t, k) \/ PollDetached(t, k) \/ Finish(t, k)

JSON(t) == ReadJSON(t) \/ GoneJSON(t) \/ EndJSON(t) \/ DrainJSON(t)
Client(t) == Follow(t) \/ Respond(t) \/ RespondNotAcceptable(t)
Timer(t) == TimerFires(t) \/ DrainTimeout(t)
Pump(t) == PumpStarts(t) \/ PumpEvent(t) \/ PumpLoops(t)
Abort == Cancel \/ Terminate \/ \E kind \in {"cancel", "terminate"} : AbortContext(kind)
Agent(t, a) == AgentEmit(t, a) \/ AgentExit(t, a)

Next ==
    \/ \E t \in Turns :
         \/ Turn(t) \/ JSON(t) \/ Client(t) \/ Timer(t) \/ Pump(t)
         \/ \E k \in Kinds : Stream(t, k)
         \/ \E a \in Attempts : Agent(t, a)
    \/ Abort

Spec == Init /\ [][Next]_vars

-----------------------------------------------------------------------------
(* Fairness.  A handler runs on, but for two things that may last for      *)
(* ever: Session.Close, a second cmd.Wait (Finish, AfterRetries,           *)
(* DrainTimeout, DrainJSON, SendFails, Cancel and Terminate call it), and  *)
(* reading a stream whose source stays open.  Timers fire.  The pump,      *)
(* clients and agents are not fair, and no agent has to exit.              *)
ReadsClosed(t, k) == (ReadSSE(t, k) \/ EndSSE(t, k)) /\ proc[t][h[t][k].rel].done
Fairness ==
    \A t \in Turns :
        /\ WF_vars(RegisterCancel(t) \/ CreateFails(t) \/ StartAgent(t) \/ Register(t))
        /\ WF_vars(AfterSuspends(t) \/ RetryWait(t))
        /\ WF_vars((ReadJSON(t) \/ EndJSON(t)) /\ proc[t][h[t]["post"].rel].done)
        /\ WF_vars(TimerFires(t))
        /\ \A k \in Kinds :
             /\ WF_vars(ReadsClosed(t, k)) /\ WF_vars(Leave(t, k) /\ exec[t].sub # k)
             /\ WF_vars(AfterEnds(t, k) \/ PollDetached(t, k))

FairSpec == Spec /\ Fairness

-----------------------------------------------------------------------------
Natives == {"none", "some"}
Labels == {"off", "busy", "accepted", "create", "register", "reading", "after", "retrywait",
           "detached", "suspended", "finish", "returned", "refused", "ended", "left"}
TurnOrNone == Turns \cup {NoTurn}
RecordState == [status : {"active", "completed", "error", "suspended", "closed"},
                error : {"none", "other", "cancelled"}, native : Natives]
TurnState == [req : Requests, attempt : 0..MaxAttempts, heal : BOOLEAN, ctxDone : BOOLEAN,
              gone : BOOLEAN]
HandlerState == [pc : Labels, rel : 0..MaxAttempts, cur : Nat, term : EventKinds \cup {"none"},
                 susp : BOOLEAN, wrote : BOOLEAN]
ExecState == [relay : 0..MaxAttempts, status : {"active", "suspended"}, offset : Nat,
              sub : Kinds \cup {"none"}, timer : {"off", "armed", "fired"}, firing : BOOLEAN]
PumpState == [pc : {"off", "top", "range"}, att : 0..MaxAttempts, cur : Nat]
ProcState == [st : {"none", "running", "waiting", "closed", "exited"}, ev : Seq(EventKinds),
              done : BOOLEAN]

(* Types of the registries, the record, the handlers and the processes. *)
TypeOK ==
    /\ registry \in TurnOrNone /\ execCancels \in TurnOrNone /\ activeSess \in TurnOrNone
    /\ rec \in RecordState /\ binding \in Natives
    /\ turn \in [Turns -> TurnState]
    /\ h \in [Turns -> [Kinds -> HandlerState]]
    /\ exec \in [Turns -> ExecState]
    /\ pump \in [Turns -> PumpState]
    /\ proc \in [Turns -> [Attempts -> ProcState]]
    /\ aborter \in {"none", "cancel", "terminate", "done"}
    /\ ended \subseteq Turns /\ ingested \subseteq Turns
    /\ resumed \subseteq (Turns \X Attempts)

Live(t, a) == proc[t][a].st \in {"running", "waiting"}

(* A turn whose execution was registered and that nobody ended: its        *)
(* handler has not come to finishActiveExecution, or it waits for input.   *)
InFlight(t) ==
    /\ Registered(t) /\ t \notin ended
    /\ \/ PC(t, "post") \in {"reading", "after", "retrywait", "create", "detached"}
       \/ PC(t, "post") = "suspended" /\ PC(t, "respond") \notin {"finish", "returned", "refused"}

(* The busy check, Register and finishActiveExecution together keep every  *)
(* turn in flight registered under its session id, so that a second        *)
(* message is refused (409) and cannot start a second execution.           *)
BusyWhileInFlight == \A t \in Turns : InFlight(t) => registry = t

(* At most one agent process works in the session's directory at a time:   *)
(* runTurn closes an attempt before the next one starts, and a turn's      *)
(* process before the client is told that the turn is over.                *)
OneAgentProcess ==
    \A t, u \in Turns, a, b \in Attempts : Live(t, a) /\ Live(u, b) => t = u /\ a = b

(* A turn that produced a result is never run again: ensureRelayTerminal   *)
(* lets a result win over the retryable exit error that followed it.  (A   *)
(* JSON response has no such step, its last terminal wins.)                *)
NoRetryAfterResult ==
    \A t \in Turns \ ended, a \in 1..MaxAttempts - 1 :
        SSE(t, "post") /\ proc[t][a + 1].st # "none" => ~Has(proc[t][a].ev, "result")

(* A registered turn that ended by itself is in the canonical history by   *)
(* the time its request returns: finishActiveExecution ingests it before   *)
(* it unregisters it.                                                      *)
ReturnedIngested ==
    \A t \in Turns \ ended : PC(t, "post") = "returned" /\ Registered(t) => t \in ingested

(* When everything is at rest, the session is completed if the last turn's *)
(* client was told a result and its agent reported no permanent error.     *)
AtRest == /\ \A t \in Turns : /\ PC(t, "post") \in {"off", "returned"}
                             /\ PC(t, "respond") \in {"off", "returned", "refused"}
                             /\ pump[t].pc = "off"
          /\ aborter \in {"none", "done"}
OutcomeRecorded ==
    AtRest => \A t \in Turns \ ended :
        (Registered(t) /\ h[t]["post"].term = "result" /\ ~Has(Relay(t).ev, "error")
           /\ \A u \in Turns \ {t} : PC(u, "post") = "off" \/ u \in ended)
        => rec.status = "completed"

(* A request for input that a connected JSON client was sent keeps its     *)
(* agent until the client responds, cancels or terminates: unless a        *)
(* follower came and went, nothing stops a suspended execution.            *)
SuspendedKeepsAgent ==
    \A t \in Turns :
        LET p == h[t]["post"]
        IN (/\ ~SSE(t, "post") /\ PC(t, "follow") = "off" /\ ~turn[t].gone
            /\ p.rel # 0 /\ p.cur \in 1..Len(proc[t][p.rel].ev) /\ proc[t][p.rel].ev[p.cur] = "input"
            /\ rec.status = "suspended" /\ PC(t, "respond") = "off" /\ aborter = "none")
           => proc[t][p.rel].st # "closed"

(* While a registered turn's agent runs and has said nothing yet, the      *)
(* record does not claim that the turn is over (markSessionActive), once   *)
(* the pump of the turn before has ended.                                  *)
NoStaleOutcome ==
    \A t \in Turns :
        (/\ registry = t /\ InFlight(t) /\ aborter = "none" /\ Relay(t).ev = <<>> /\ ~Relay(t).done
         /\ \A u \in Turns \ {t} : pump[u].pc = "off")
        => rec.status \notin {"completed", "error"}

(* A self-healing attempt starts without the native thread id that the     *)
(* failed one broke (clearPersistedAgentSessionID), unless another attempt *)
(* of the session reported an id that its lagging pump may put back.       *)
HealStartsFresh ==
    \A t \in Turns : \A a \in Attempts :
        <<t, a>> \in resumed /\ a > 1 =>
            \E u \in Turns : \E b \in Attempts :
                <<u, b>> # <<t, a>> /\ Has(proc[u][b].ev, "system")

(* A follower whose stream ran to its end, not to a request for input, was *)
(* sent a result or an error, but for a retryable one.                     *)
FollowEndsExplicit ==
    \A t \in Turns :
        LET f == h[t]["follow"]
        IN f.pc = "ended" /\ ~f.susp /\ f.term # "retry" => f.wrote

(* A retryable failure is retried while attempts are left: a POST that     *)
(* kept its stream and whose agent started does not end on one, unless it  *)
(* was cancelled or terminated.  (waitDetached knows no retries.)          *)
RetriesUsed ==
    \A t \in Turns :
        (/\ PC(t, "post") = "returned" /\ h[t]["post"].term = "retry" /\ ~turn[t].ctxDone
         /\ proc[t][turn[t].attempt].st # "none")
        => turn[t].attempt = turn[t].req.attempts

(* A session is busy only on behalf of a turn that some handler will still *)
(* finish, or that waits for the client's answer: no request returns and   *)
(* leaves its execution registered, except the one that is refused with    *)
(* 406 after its answer was passed on (handler.go handleRespond).          *)
BusyHasHandler ==
    \A t \in Turns : registry = t =>
        \/ PC(t, "post") \in {"reading", "after", "retrywait", "create", "detached", "finish"}
        \/ PC(t, "post") = "suspended" /\ PC(t, "respond") = "off"
        \/ PC(t, "respond") \in {"reading", "after", "detached", "finish"}
        \/ PC(t, "respond") = "refused"

(* What may hold up a turn for ever: a reader of a stream whose source     *)
(* does not close, and a handler or a timer that closes an agent session.  *)
Hangs(t) ==
    \/ \E k \in Kinds : PC(t, k) = "reading" /\ ~proc[t][h[t][k].rel].done
    \/ \E k \in Kinds : PC(t, k) = "finish"
    \/ PC(t, "post") = "after" /\ ~h[t]["post"].susp /\ Retryable(t)
    \/ exec[t].firing

(* "409 only while execution is still active" (docs/reference-manual-web-  *)
(* apis.md:448): a session whose agent process is gone does not stay busy, *)
(* unless the agent, or the one that replaced it, asked for input, or the  *)
(* turn hangs for ever.                                                    *)
ExitFreesSession ==
    \A t \in Turns :
        \/ (registry = t /\ Relay(t).st = "exited") ~> (registry # t \/ Has(Relay(t).ev, "input"))
        \/ <>[]Hangs(t)

(* Every request comes to an end, suspends its turn, or hangs for ever.    *)
RequestsReturn ==
    \A t \in Turns :
        \/ PC(t, "post") = "accepted" ~> PC(t, "post") \in {"returned", "suspended"}
        \/ <>[]Hangs(t)

-----------------------------------------------------------------------------
(* One turn at a time: what is in flight is what is registered, so a       *)
(* second message is refused, and no two agent processes of the session    *)
(* are alive (handler.go handleSendMessage, exec_registry.go Register).    *)
OneTurnAtATime == TypeOK /\ BusyWhileInFlight /\ OneAgentProcess

(* The retry loop of runTurn runs as often as it should and no more: never *)
(* after a result, until the attempts are used up, and each time afresh.   *)
RetryExact == NoRetryAfterResult /\ RetriesUsed /\ HealStartsFresh

(* The record tells the outcome of the last turn, and not of the one       *)
(* before it (updateSessionStatusOnTerminal, markSessionActive).           *)
OutcomeOfTurn == OutcomeRecorded /\ NoStaleOutcome

(* A busy session is accounted for: a handler will still finish its turn,  *)
(* or the turn waits for an answer with its agent alive.                   *)
BusyAccounted == BusyHasHandler /\ SuspendedKeepsAgent

(* A turn that ended is wound up: its events are in the history before its *)
(* request returns, and whoever followed it was told how it ended.         *)
EndsExplicit == ReturnedIngested /\ FollowEndsExplicit

(* Turns end: every request returns or suspends its turn, and a session    *)
(* whose agent is gone becomes free again (waitDetached, the reattach      *)
(* timer, the retry loop), unless a source stays open that somebody reads, *)
(* or the closing of an agent session does not return.  A turn whose       *)
(* clients left ends although its agent runs on.                           *)
TurnsEnd == RequestsReturn /\ ExitFreesSession

=============================================================================
