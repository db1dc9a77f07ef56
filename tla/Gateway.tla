------------------------------- MODULE Gateway -------------------------------
(***************************************************************************)
(* The LLM gateway (llmgateway/): the handlers of POST /v1/messages,       *)
(* /v1/responses and /v1/embeddings, run by concurrent requests, over the  *)
(* session cache of the model router (routing.go), the retry budget of a   *)
(* stream (stream_retry.go), the reload of the model profiles              *)
(* (bifrost_driver.go) and the renewal of the certificate (TLSCert).  The  *)
(* upstream (Bifrost and the provider behind it) is external.              *)
(***************************************************************************)
EXTENDS GatewayConvert, TLSCert, FiniteSets, TLC

CONSTANTS
    Scenarios,     \* what is configured and asked: see GatewayAssumption
    MaxRetries,    \* retries of one request (LLMGateway.Retry, 2 by default)
    MaxSessions,   \* sessions the router keeps (1000 by default)
    MaxChunks,     \* bound on the chunks of one upstream stream
    MaxRequests,   \* bound on the requests that come together
    NoSid          \* a request without a session

\* What may be wrong with a request before its model is looked up.
Problems == {"noToken", "tooLarge", "unreadable", "badJSON", "noModel", "badInput", "noRouter"}

ASSUME GatewayAssumption ==
    /\ MaxRetries \in Nat /\ MaxSessions \in Nat \ {0} /\ MaxChunks \in Nat /\ MaxRequests \in Nat
    /\ \A c \in Scenarios :
        /\ \A mix \in c.mixes : \A i \in DOMAIN mix :   \* the requests that come together
            LET x == mix[i] IN
            /\ x.api \in {"messages", "responses", "embeddings"}
            /\ x.problems \subseteq Problems /\ x.stream \in BOOLEAN
            /\ x.fallback \in BOOLEAN /\ x.effort \in {"given", "missing", "unsupported"}
            /\ x.choice \in BOOLEAN /\ (x.api = "embeddings" => ~x.stream)
        /\ \A g \in DOMAIN c.profiles : c.profiles[g] \subseteq c.models
        /\ \A m \in c.models :
            /\ m.mode \in {"chat", "embedding"} /\ m.fallback \in BOOLEAN
            /\ m.reasoning \in {"none", "default", "optional", "required"}
        /\ c.vault \subseteq BOOLEAN /\ c.sdk \in {"none", "up"}
        /\ c.upstream \subseteq {"retry", "fatal", "cut"} /\ c.cancels \in BOOLEAN
        /\ c.ages \in BOOLEAN /\ c.tls \in BOOLEAN
        /\ \A resp \in c.resps :                \* what is answered when nothing is streamed
            resp.output \in Seq({"text", "callText", "call", "reasoning"})

VARIABLES
    cfg,       \* the scenario
    in,        \* the requests
    q,         \* the handlers: see NewRequest
    router,    \* the routers by generation: [entries, order, lost]; the last is the current one
    sdk,       \* the Bifrost SDK: "none", "up", "down" (shut down)
    reload     \* ReloadProfiles: "idle", "shutdown", "init"

gwVars == <<cfg, in, q, router, sdk, reload>>
vars == <<gwVars, tlsVars>>

Requests == DOMAIN in
\* routed names the RoutedModel a request works with: it is the one request obj allocated,
\* of a model, and requests of a session share it.
NewRequest ==
    [pc |-> "new", gen |-> 0, obj |-> 0, model |-> {}, flag |-> FALSE, fails |-> 0,
     opens |-> 0, phase |-> "between", t |-> NewTranslator, status |-> 0, out |-> <<>>,
     sent |-> [messages |-> <<>>, tools |-> <<>>, choice |-> FALSE], gone |-> FALSE]
NewModelRouter == [entries |-> <<>>, order |-> <<>>, lost |-> 0]

Init ==
    /\ \E c \in Scenarios : cfg = [c EXCEPT !.mixes = {}] /\ in \in c.mixes
    /\ q = [r \in DOMAIN in |-> NewRequest]
    /\ router = <<NewModelRouter>>
    /\ sdk = cfg.sdk /\ reload = "idle"
    /\ TLSInit

Respond(r, s) == q' = [q EXCEPT ![r].pc = "done", ![r].status = s]

-----------------------------------------------------------------------------
(* The session cache of ModelRouter.                                        *)

Known(r) == {m \in cfg.profiles[q[r].gen] : m.name = in[r].model}
Sessions(rt) == DOMAIN rt.entries
RemoveFrom(order, s) ==
    IF s \in ToSet(order)
    THEN RemoveAt(order, CHOOSE i \in DOMAIN order :
                            order[i] = s /\ \A j \in 1..(i - 1) : order[j] # s)
    ELSE order
TouchAccessOrder(order, s) == Append(RemoveFrom(order, s), s)
DropEntry(entries, s) == [x \in DOMAIN entries \ {s} |-> entries[x]]
AddEntry(entries, s, r) ==
    [x \in DOMAIN entries \cup {s} |-> IF x = s THEN [obj |-> r, stale |-> FALSE] ELSE entries[x]]
Expired(rt, s) == [rt EXCEPT !.entries = DropEntry(@, s), !.order = RemoveFrom(@, s)]
EvictOldest(rt) ==
    IF rt.order = <<>> THEN rt
    ELSE [rt EXCEPT !.entries = DropEntry(@, Head(rt.order)), !.order = Tail(@)]

MakeRoom(rt) == IF Cardinality(Sessions(rt)) >= MaxSessions THEN EvictOldest(rt) ELSE rt

\* A session remembers the first model it resolved.
Remember(rt, s, r) ==
    IF s \in Sessions(rt)
    THEN [rt EXCEPT !.entries[s].stale = FALSE, !.order = TouchAccessOrder(@, s)]
    ELSE LET room == MakeRoom(rt)
         IN [room EXCEPT !.entries = AddEntry(@, s, r), !.order = Append(@, s)]

\* ResolveModel of a model of the profiles.  Two providers may have it: either is found first.
ResolveModel(r) ==
    /\ q[r].pc = "route" /\ Known(r) # {}
    /\ \E m \in Known(r) :
        q' = [q EXCEPT ![r].pc = "prepare", ![r].obj = r, ![r].model = {m}]
    /\ router' = IF in[r].sid = NoSid THEN router
                 ELSE [router EXCEPT ![q[r].gen] = Remember(@, in[r].sid, r)]
    /\ UNCHANGED <<cfg, in, sdk, reload>>

\* ResolveModel of another model: the entry is read under the read lock ...
LookupSession(r) ==
    /\ q[r].pc = "route" /\ Known(r) = {}
    /\ LET s == in[r].sid
           entries == router[q[r].gen].entries
       IN IF s \notin DOMAIN entries THEN Respond(r, 404)
          ELSE q' = [q EXCEPT ![r].pc = IF entries[s].stale THEN "expire" ELSE "touch",
                              ![r].obj = entries[s].obj]
    /\ UNCHANGED <<cfg, in, router, sdk, reload>>

\* ... and used after it.  The entry may have left the cache meanwhile; its place in the
\* access order is then made up again.
TouchSession(r) ==
    /\ q[r].pc = "touch"
    /\ LET s == in[r].sid
           rt == router[q[r].gen]
           live == s \in Sessions(rt) /\ rt.entries[s].obj = q[r].obj
       IN router' = [router EXCEPT ![q[r].gen] =
            [rt EXCEPT !.entries = IF live THEN [@ EXCEPT ![s].stale = FALSE] ELSE @,
                       !.order = TouchAccessOrder(@, s),
                       !.lost = IF s \in Sessions(rt) THEN @ ELSE @ + 1]]
    /\ q' = [q EXCEPT ![r].pc = "prepare", ![r].model = q[q[r].obj].model]
    /\ UNCHANGED <<cfg, in, sdk, reload>>

ExpireSession(r) ==
    /\ q[r].pc = "expire"
    /\ router' = [router EXCEPT ![q[r].gen] = Expired(@, in[r].sid)]
    /\ Respond(r, 404)
    /\ UNCHANGED <<cfg, in, sdk, reload>>

\* The TTL of a session passes.
Age(s) ==
    LET g == Len(router) IN
    /\ cfg.ages /\ s \in Sessions(router[g]) /\ ~router[g].entries[s].stale
    /\ router' = [router EXCEPT ![g].entries[s].stale = TRUE]
    /\ UNCHANGED <<cfg, in, q, sdk, reload>>

-----------------------------------------------------------------------------
(* Handlers, up to the call upstream.                                       *)

StatusOf(problem) ==
    CASE problem = "noToken" -> 401 [] problem = "tooLarge" -> 413 [] problem = "noRouter" -> 503
      [] problem \in {"unreadable", "badJSON", "noModel", "badInput"} -> 400

\* What each handler looks for, in its order; authMiddleware comes first.  A request for
\* messages or responses without a model is one for an unknown model.
ReadMessages == <<"noToken", "tooLarge", "unreadable", "badJSON", "noRouter">>
ReadResponses == <<"noToken", "tooLarge", "unreadable", "badJSON", "noRouter">>
ReadEmbeddings == <<"noToken", "tooLarge", "unreadable", "badJSON", "noModel", "badInput", "noRouter">>
Read(api) == CASE api = "messages" -> ReadMessages [] api = "responses" -> ReadResponses
               [] api = "embeddings" -> ReadEmbeddings

\* The handler keeps the router it found.
Arrive(r) ==
    /\ q[r].pc = "new"
    /\ LET found == SelectSeq(Read(in[r].api), LAMBDA p : p \in in[r].problems)
       IN IF found # <<>> THEN Respond(r, StatusOf(Head(found)))
          ELSE q' = [q EXCEPT ![r].pc = "route", ![r].gen = Len(router)]
    /\ UNCHANGED <<cfg, in, router, sdk, reload>>

Routed(r) == CHOOSE m \in q[r].model : TRUE
ReasoningRejected(r) ==
    LET m == Routed(r) IN
    \/ in[r].effort = "missing" /\ m.reasoning = "required"
    \/ in[r].effort = "unsupported" /\ m.reasoning # "none"

\* The checks of a handler in their order, as <<fails, status>>.
NoSDK == <<sdk = "none", 503>>
NoKey(vaultFails) == <<vaultFails, 500>>
CheckMessages(r, vaultFails) ==
    <<NoKey(vaultFails), NoSDK, <<ConvertFails(in[r].blocks), 500>>>>
CheckResponses(r, vaultFails) ==
    <<<<ReasoningRejected(r), 400>>, NoSDK, NoKey(vaultFails)>>
CheckEmbeddings(r, vaultFails) ==
    <<<<Routed(r).mode # "embedding", 400>>, NoSDK, NoKey(vaultFails)>>
Checks(r, vaultFails) ==
    CASE in[r].api = "messages" -> CheckMessages(r, vaultFails)
      [] in[r].api = "responses" -> CheckResponses(r, vaultFails)
      [] in[r].api = "embeddings" -> CheckEmbeddings(r, vaultFails)

\* What is sent upstream: the converted messages and the tools the provider can take.
BifrostRequest(r) ==
    LET kept == SanitizeToolsForProvider(in[r].tools, in[r].choice, Routed(r).provider)
    IN [messages |-> IF in[r].api = "messages" THEN ConvertMessage(in[r].blocks) ELSE <<>>,
        tools |-> kept.tools, choice |-> kept.choice]

\* The fallback flag is set in the RoutedModel itself, which the session may hold.
Prepare(r, vaultFails) ==
    /\ q[r].pc = "prepare"
    /\ LET failed == SelectSeq(Checks(r, vaultFails), LAMBDA c : c[1])
           flagged == [q EXCEPT ![q[r].obj].flag = @ \/ (in[r].api = "messages" /\ in[r].fallback)]
       IN q' = IF failed # <<>>
               THEN [flagged EXCEPT ![r].pc = "done", ![r].status = Head(failed)[2]]
               ELSE [flagged EXCEPT ![r].pc = "open", ![r].sent = BifrostRequest(r)]
    /\ UNCHANGED <<cfg, in, router, sdk, reload>>

-----------------------------------------------------------------------------
(* OpenWithBudget and the stream.                                           *)

\* Upstream answered: the headers and message_start go out with the first stream.
OpenStream(r) ==
    /\ q[r].pc = "open" /\ ~q[r].gone /\ sdk = "up" /\ in[r].stream
    /\ q' = [q EXCEPT ![r].pc = "stream", ![r].opens = @ + 1, ![r].phase = "between",
                      ![r].status = 200,
                      ![r].out = IF @ = <<>> /\ in[r].api = "messages"
                                 THEN <<Event("message_start", 0, "", 0)>> ELSE @]
    /\ UNCHANGED <<cfg, in, router, sdk, reload>>

Fallback(r) == q[q[r].obj].flag \/ Routed(r).fallback

\* A request that is not streamed: the whole response is converted, or handed on.
AnswerMessages(r, resp) ==
    LET a == ConvertFromBifrost(resp)
    IN IF Fallback(r) THEN TryFallbackAnthropicResponse(a) ELSE a
AnswerResponses(r, resp) == resp
Answer(r, resp) ==
    /\ q[r].pc = "open" /\ ~q[r].gone /\ sdk = "up" /\ ~in[r].stream
    /\ LET body == IF in[r].api = "messages" THEN AnswerMessages(r, resp) ELSE AnswerResponses(r, resp)
       IN q' = [q EXCEPT ![r].pc = "done", ![r].opens = @ + 1, ![r].status = 200,
                         ![r].out = <<Event("json", 0, body, resp)>>]
    /\ UNCHANGED <<cfg, in, router, sdk, reload>>

\* A failed open.  An embedding is asked for once.
CanRetry(r, kind) == kind = "retry" /\ q[r].fails < MaxRetries /\ in[r].api # "embeddings"
\* After the headers an error is an event of the stream.
FailRequest(r) ==
    IF q[r].status = 200
    THEN q' = [q EXCEPT ![r].pc = "done", ![r].opens = @ + 1,
                        ![r].out = Append(@, Event("error", 0, "", 0))]
    ELSE q' = [q EXCEPT ![r].pc = "done", ![r].opens = @ + 1, ![r].status = 502]

OpenFails(r, kind) ==
    /\ q[r].pc = "open" /\ ~q[r].gone
    /\ kind \in cfg.upstream \ {"cut"} \/ (kind = "fatal" /\ sdk = "down")
    /\ IF CanRetry(r, kind)
       THEN q' = [q EXCEPT ![r].fails = @ + 1, ![r].opens = @ + 1]
       ELSE FailRequest(r)
    /\ UNCHANGED <<cfg, in, router, sdk, reload>>

\* A loop that does not look at the context.
OpenCancelledSpins(r) ==
    /\ q[r].pc = "open" /\ q[r].gone
    /\ UNCHANGED gwVars

\* The context is looked at before an open and while a retry is waited for.
OpenCancelled(r) ==
    /\ q[r].pc = "open" /\ q[r].gone
    /\ q' = [q EXCEPT ![r].pc = "done",
                      ![r].status = IF @ = 200 THEN 200 ELSE 502,
                      ![r].out = IF q[r].status = 200 THEN Append(@, Event("error", 0, "", 0)) ELSE @]
    /\ UNCHANGED <<cfg, in, router, sdk, reload>>

\* /v1/responses hands a chunk on as it is.
ForwardChunk(chunk, from) == <<Event(chunk, 0, "", from)>>

Chunk(r, chunk) ==
    /\ q[r].pc = "stream" /\ chunk \in UpstreamNext(q[r].phase) /\ q[r].t.chunks < MaxChunks
    /\ q' = [q EXCEPT ![r].phase = UpstreamAfter(@, chunk), ![r].t = Translate(@, chunk),
                      ![r].out = @ \o IF in[r].api = "messages"
                                      THEN ChunkEvents(q[r].t, chunk, q[r].opens)
                                      ELSE ForwardChunk(chunk, q[r].opens)]
    /\ UNCHANGED <<cfg, in, router, sdk, reload>>

\* A retry that does not look at what was already written.
ErrorChunkAlwaysRetries(r, kind) ==
    /\ q[r].pc = "stream" /\ kind \in cfg.upstream \ {"cut"}
    /\ IF ~q[r].gone /\ kind = "retry" /\ q[r].fails < MaxRetries
       THEN q' = [q EXCEPT ![r].pc = "open", ![r].fails = @ + 1]
       ELSE q' = [q EXCEPT ![r].pc = "done", ![r].out = Append(@, Event("error", 0, "", 0))]
    /\ UNCHANGED <<cfg, in, router, sdk, reload>>

\* An error chunk: RetryLeadingChunk opens another stream when nothing was read of this one.
ErrorChunk(r, kind) ==
    /\ q[r].pc = "stream" /\ kind \in cfg.upstream \ {"cut"}
    /\ IF ~q[r].gone /\ kind = "retry" /\ q[r].t.chunks = 0 /\ q[r].fails < MaxRetries
       THEN q' = [q EXCEPT ![r].pc = "open", ![r].fails = @ + 1]
       ELSE q' = [q EXCEPT ![r].pc = "done", ![r].out = Append(@, Event("error", 0, "", 0))]
    /\ UNCHANGED <<cfg, in, router, sdk, reload>>

\* The channel is closed: the stream ends as complete, whether or not upstream said so.
StreamEnds(r) ==
    /\ q[r].pc = "stream"
    /\ q[r].phase = "complete" \/ "cut" \in cfg.upstream
    /\ q' = [q EXCEPT ![r].pc = "done",
                      ![r].out = @ \o IF in[r].api = "messages"
                                      THEN <<Event("message_delta", 0, q[r].t.stop, 0),
                                             Event("message_stop", 0, "", 0)>>
                                      ELSE <<>>]
    /\ UNCHANGED <<cfg, in, router, sdk, reload>>

ClientGone(r) ==
    /\ cfg.cancels /\ ~q[r].gone /\ q[r].pc \in {"open", "stream"}
    /\ q' = [q EXCEPT ![r].gone = TRUE]
    /\ UNCHANGED <<cfg, in, router, sdk, reload>>

-----------------------------------------------------------------------------
(* ReloadProfiles: a new router, then the SDK is shut down and made again.  *)

\* A reload that hands the sessions of the old router to the new one.
ReloadKeepsSessions ==
    /\ reload = "idle" /\ Len(router) < Len(cfg.profiles)
    /\ router' = Append(router, Last(router))
    /\ reload' = "shutdown"
    /\ UNCHANGED <<cfg, in, q, sdk>>

ReloadProfiles ==
    /\ reload = "idle" /\ Len(router) < Len(cfg.profiles)
    /\ router' = Append(router, NewModelRouter)
    /\ reload' = "shutdown"
    /\ UNCHANGED <<cfg, in, q, sdk>>

ReloadShutdown ==
    /\ reload = "shutdown" /\ reload' = "init"
    /\ sdk' = IF sdk = "none" THEN "none" ELSE "down"
    /\ UNCHANGED <<cfg, in, q, router>>

\* A failed Init leaves the SDK that was shut down in place.
ReloadInit(ok) ==
    /\ reload = "init" /\ reload' = "idle"
    /\ sdk' = IF ok THEN "up" ELSE sdk
    /\ UNCHANGED <<cfg, in, q, router>>

-----------------------------------------------------------------------------

\* What the handler and its upstream do next.
Serve(r) ==
    \/ Arrive(r) \/ ResolveModel(r) \/ LookupSession(r) \/ TouchSession(r) \/ ExpireSession(r)
    \/ \E v \in cfg.vault : Prepare(r, v)
    \/ OpenStream(r) \/ OpenCancelled(r) \/ StreamEnds(r)
    \/ \E resp \in cfg.resps : Answer(r, resp)
    \/ \E kind \in {"retry", "fatal"} : OpenFails(r, kind) \/ ErrorChunk(r, kind)
    \/ \E c \in UpstreamNext(q[r].phase) : Chunk(r, c)

GatewayNext ==
    \/ \E r \in Requests : Serve(r) \/ ClientGone(r)
    \/ \E s \in {in[r].sid : r \in Requests} : Age(s)
    \/ ReloadProfiles \/ ReloadShutdown \/ \E ok \in BOOLEAN : ReloadInit(ok)

TLSNext ==
    /\ cfg.tls
    /\ \/ Tick \/ Check \/ Stop
       \/ \E ok \in BOOLEAN : GenerateAndLoad(ok)
       \/ \E opened, made, written \in BOOLEAN : WriteCACertFile(opened, made, written)

Next ==
    \/ GatewayNext /\ UNCHANGED tlsVars
    \/ TLSNext /\ UNCHANGED gwVars

\* A handler and its upstream go on: a read of the upstream ends at the request timeout of the
\* provider, and a reload is not suspended.
Fairness ==
    /\ \A r \in 1..MaxRequests : WF_vars(r \in Requests /\ Serve(r) /\ UNCHANGED tlsVars)
    /\ WF_vars((ReloadShutdown \/ \E ok \in BOOLEAN : ReloadInit(ok)) /\ UNCHANGED tlsVars)

Spec == Init /\ [][Next]_vars /\ Fairness

-----------------------------------------------------------------------------

TypeOK ==
    /\ \A r \in Requests :
        /\ q[r].pc \in {"new", "route", "touch", "expire", "prepare", "open", "stream", "done"}
        /\ q[r].obj \in 0..Len(in) /\ q[r].gen \in 0..Len(router)
        /\ q[r].status \in {0, 200, 400, 401, 404, 413, 500, 502, 503}
        /\ \A i \in DOMAIN q[r].out : q[r].out[i].index \in 0..MaxChunks
    /\ sdk \in {"none", "up", "down"} /\ reload \in {"idle", "shutdown", "init"}
    /\ remaining \in -1..Lifetime /\ cert \in 1..MaxCerts
    /\ caFilePath \in {"first", "later", "none"} /\ caFile \in [{"first", "later"} -> 0..MaxCerts]

\* The block that is open before event i of a stream.
OpenBlocks(out, i) ==
    {out[j] : j \in {j \in 1..(i - 1) : out[j].type = "start"
                        /\ \A k \in j..(i - 1) : ~(out[k].type = "stop" /\ out[k].index = out[j].index)}}

\* handleMessagesBifrostStream: the blocks a client is sent are numbered one by one, never
\* overlap, every delta and every stop falls into the open block of its kind, and no block is
\* open at message_stop unless upstream broke off before it was complete.
BlocksNested ==
    \A r \in Requests : in[r].api = "messages" =>
        LET out == q[r].out IN
        \A i \in DOMAIN out :
            LET open == OpenBlocks(out, i)
                mine == {b \in open : b.index = out[i].index}
            IN /\ out[i].type = "start" =>
                    /\ open = {}
                    /\ out[i].index = Cardinality({j \in 1..(i - 1) : out[j].type = "start"})
               /\ out[i].type = "delta" => \E b \in mine : b.of = out[i].of
               /\ out[i].type = "stop" => mine # {}
               /\ out[i].type = "message_stop" => open = {} \/ q[r].phase # "complete"

\* RetryLeadingChunk: everything a client is sent comes from one upstream stream, however often
\* it was opened again.
ContentFromOneStream ==
    \A r \in Requests : \A i, j \in DOMAIN q[r].out :
        LET a == q[r].out[i].from
            b == q[r].out[j].from
        IN q[r].status = 200 /\ in[r].stream /\ a # 0 /\ b # 0 => a = b

\* RetryBudget: opens and leading chunks share one budget.
OpensBounded == \A r \in Requests : q[r].opens <= 1 + MaxRetries

Terminal == {"error", "message_stop", "json"}
\* A request is answered once: a status of its own and no body of another kind, or an answer
\* whose last event, and only the last, is its end.
AnsweredOnce ==
    \A r \in Requests :
        LET out == q[r].out IN
        /\ \A i \in DOMAIN out : out[i].type \in Terminal => i = Len(out) /\ q[r].pc = "done"
        /\ q[r].status # 200 => out = <<>>
        /\ q[r].pc = "done" => q[r].status # 0
        /\ (q[r].pc = "done" /\ q[r].status = 200 /\ in[r].api = "messages")
                => out # <<>> /\ Last(out).type \in Terminal

\* The stop reason of a stream is tool_use exactly when a tool_use block was sent: an agent that
\* reads it neither misses a call nor waits for one.
StopReasonTrue ==
    \A r \in Requests : \A i \in DOMAIN q[r].out :
        q[r].out[i].type = "message_delta" =>
            (q[r].out[i].of = "tool_use"
                <=> \E j \in DOMAIN q[r].out : q[r].out[j].type = "start" /\ q[r].out[j].of = "tool_use")

\* TryFallbackAnthropicResponse never replaces an answer that has a tool call of its own.
RealCallsKept ==
    \A r \in Requests : \A i \in DOMAIN q[r].out :
        LET e == q[r].out[i] IN
        (e.type = "json" /\ in[r].api = "messages" /\ "call" \in ToSet(e.from.output))
            => e.of = ConvertFromBifrost(e.from)

\* convertMessage sends every known block upstream, in its order, whatever it groups.
ConversionOrdered ==
    \A r \in Requests : (in[r].api = "messages" /\ q[r].pc \in {"open", "stream"}) =>
        LET known == SelectSeq(in[r].blocks, LAMBDA b : b.type \in KnownBlocks)
            ms == q[r].sent.messages
        IN FlattenSeq([i \in DOMAIN ms |-> ms[i].ids]) = [i \in DOMAIN known |-> known[i].id]

\* SanitizeToolsForProvider: no provider is asked for what it cannot do, and no function is
\* lost on the way.
ToolsCompatible ==
    \A r \in Requests : q[r].pc \in {"open", "stream"} =>
        LET kept == ToSet(q[r].sent.tools)
            p == Routed(r).provider
        IN /\ p # "openai" => kept \subseteq {"function", "web_search"}
           /\ p = "gemini" => ~({"function", "web_search"} \subseteq kept)
           /\ p # "openai" /\ q[r].sent.choice => kept # {}
           /\ "function" \in ToSet(in[r].tools) => "function" \in kept

\* A rewritten request goes to a model its own session resolved; without a session there is
\* no rewriting.
RewrittenWithinSession ==
    \A r \in Requests : q[r].obj \notin {0, r} =>
        in[r].sid # NoSid /\ in[q[r].obj].sid = in[r].sid

\* A request is routed to a model of the profiles it found, even if they are replaced meanwhile;
\* a reload forgets what the sessions resolved before.
RoutedInProfiles ==
    \A r \in Requests : q[r].pc \in {"prepare", "open", "stream"} =>
        q[r].model # {} /\ q[r].model \subseteq cfg.profiles[q[r].gen]

Places(rt, s) == Cardinality({i \in DOMAIN rt.order : rt.order[i] = s})
\* Every session of the cache has a place in the access order, or it could never be evicted, and
\* the order holds at most one place too many for each session a lookup lost between its locks.
SessionsTracked ==
    \A g \in DOMAIN router :
        LET rt == router[g] IN
        /\ \A s \in Sessions(rt) : Places(rt, s) >= 1
        /\ Len(rt.order) <= Cardinality(Sessions(rt)) + rt.lost

\* The cache outgrows its limit only by the lookups whose session was evicted between the read
\* lock and the write lock.
SessionsBounded ==
    \A g \in DOMAIN router :
        Cardinality(Sessions(router[g])) <= MaxSessions + router[g].lost

\* Every request is answered, or its stream ended.
RequestEnds == \A r \in 1..MaxRequests : r \in Requests ~> (r \in Requests /\ q[r].pc = "done")

\* What a client is sent is one well-formed answer: from one upstream stream, within the
\* budget of retries, its blocks nested, its stop reason the one of its content
\* (handleMessagesBifrostStream, stream_retry.go).
AnswerWellFormed ==
    TypeOK /\ ContentFromOneStream /\ BlocksNested /\ OpensBounded /\ AnsweredOnce /\ StopReasonTrue

\* Conversion keeps what matters in both directions: the order of the parts of a message,
\* the tools the provider takes, and the tool calls it really made (convert.go, fallback.go).
ConversionFaithful == RealCallsKept /\ ConversionOrdered /\ ToolsCompatible

\* The router's cache keeps sessions apart, in the profiles and within its limit, whatever
\* requests and reloads do together (routing.go).
SessionsSound == RewrittenWithinSession /\ RoutedInProfiles /\ SessionsTracked /\ SessionsBounded

\* The certificate that is served is valid unless its renewals failed, and is the one in the
\* file of the manager, which is the agents' as long as it can be opened (proxy_tls.go).
CertCurrent == ExpiredOnlyAfterFailures /\ FileMatchesServed
==============================================================================
