-------------------------- MODULE CanonicalHistory --------------------------
(***************************************************************************)
(* The canonical history of a session (wayfinder/session/canonical.go,     *)
(* history.go), what turns write into it (agentservice/ingest.go,          *)
(* multimodal.go) and what agents are told from it when a session changes  *)
(* hands (agentservice/handler_session.go, wayfinder/portable).            *)
(*                                                                         *)
(* history/ holds one file per message, named by its sequence number;      *)
(* metadata.json holds TotalSeq and, per agent, a binding: the native      *)
(* thread id and the number through which the thread has the history.  A   *)
(* turn appends the user's prompt, wraps the prompt with the messages of   *)
(* other agents behind the binding's number, runs, and ingests the agent's *)
(* messages.  A PATCH may change the agent, or the supplement strategy,    *)
(* between turns; its busy check does not see a turn before its agent was  *)
(* started, so the two overlap.  The process may crash at any step.  Turns *)
(* are sent one after the other (what happens otherwise is in              *)
(* TurnExecution).                                                         *)
(*                                                                         *)
(* A message is identified by its turn, its origin and the positions of    *)
(* the events it was made from (none for the prompt).  A native thread is  *)
(* a number, 0 for none; `threads' records what each was shown.            *)
(***************************************************************************)
EXTENDS Integers, Sequences, FiniteSets

CONSTANTS
    Agents,        \* normalised agent names, the origins of messages
    EventKinds,    \* the events agents emit
    MaxTurns,      \* bound: turns
    MaxRaced,      \* bound: turns, and PATCHes, in a behaviour in which they overlap
    MaxEvents,     \* bound: events emitted in all turns together
    MaxThreads,    \* bound: native threads
    MaxFaults,     \* bound: crashes, and turns that are stopped or do not start, together
    MaxPatches     \* bound: PATCH requests

Skipped == {"system", "error", "input", "part", "progress"}
Flushing == {"tool_use", "tool_result", "result", "other"}
NoAgent == "none"
Missing == [missing |-> TRUE]      \* no such file

ASSUME HistoryAssumption ==
    /\ Agents # {} /\ NoAgent \notin Agents
    /\ EventKinds \subseteq Skipped \cup Flushing \cup {"text"}
    /\ {MaxTurns, MaxRaced, MaxEvents, MaxThreads, MaxFaults, MaxPatches} \subseteq Nat

Procs == {"turn", "patch"}

VARIABLES
    hist,       \* history/: sequence number to message
    meta,       \* metadata.json: total, active, bind; or Missing
    tmp,        \* metadata.json.tmp, or Missing
    rec,        \* the session record in memory: agent, native
    disk,       \* record.json
    pc,         \* per process, the step it is at
    job,        \* per process, the metadata it saves and where it goes then
    turn,       \* the turn being handled: see NoTurn
    sent,       \* the number of turns sent
    events,     \* the relay of the current attempt
    busy,       \* an execution is registered
    threads,    \* native threads: the messages they were shown, whether they began whole
    appended,   \* history: the messages whose Append returned nil since the start
    raced,      \* history: a PATCH and a turn overlapped
    torn,       \* history: a crash came upon files that did not agree
    stops,      \* history: the turns that ended without being ingested
    emitted, patches, crashes

fileVars  == <<hist, meta, tmp>>
recVars   == <<rec, disk>>
runVars   == <<events, busy, threads, emitted>>
vars == <<fileVars, recVars, pc, job, turn, sent, runVars, appended, raced, torn, stops, patches, crashes>>

NoBinding == [native |-> 0, through |-> 0]
Fresh(a)  == [total |-> 0, active |-> a, bind |-> [b \in Agents |-> NoBinding]]
NoJob     == [meta |-> Missing, ret |-> "idle", err |-> "idle"]

(* The handler's locals: what it appends (queue, of which the first done   *)
(* were written, the next under seq), for whom and in which phase; the     *)
(* TotalSeq its binding gets; the resume id and supplement of the prompt;  *)
(* the thread the agent runs in.                                           *)
NoTurn == [phase |-> "user", origin |-> NoAgent, native |-> 0, queue |-> <<>>, done |-> 0, seq |-> 1,
           through |-> 0, resume |-> 0, sup |-> {}, bare |-> FALSE, thread |-> 0, healed |-> FALSE]

(* A session just created with its first agent (Create, Canonical.Init). *)
Init ==
    /\ hist = <<>> /\ tmp = Missing
    /\ \E a \in Agents :
         rec = [agent |-> a, native |-> 0] /\ disk = [agent |-> a, native |-> 0] /\ meta = Fresh(a)
    /\ pc = [p \in Procs |-> "idle"] /\ job = [p \in Procs |-> NoJob]
    /\ turn = NoTurn /\ sent = 0
    /\ events = <<>> /\ busy = FALSE /\ threads = <<>> /\ emitted = 0
    /\ appended = {} /\ raced = FALSE /\ torn = FALSE /\ stops = 0
    /\ patches = 0 /\ crashes = 0

Goto(p, label) == pc' = [pc EXCEPT ![p] = label]

(* The handler of a turn returns. *)
Returns == Goto("turn", "idle") /\ turn' = NoTurn /\ events' = <<>> /\ busy' = FALSE

-----------------------------------------------------------------------------
(* EventsToMessages: texts are gathered into one message until an event    *)
(* flushes them; a tool use or a tool result is a message of its own.      *)

Flush(s) == IF s.text = <<>> THEN s ELSE [msgs |-> Append(s.msgs, s.text), text |-> <<>>]

Take(s, e, i) ==
    CASE e = "text"     -> [s EXCEPT !.text = Append(@, i)]
      [] e \in Skipped  -> s
      [] e \in {"tool_use", "tool_result"} -> [Flush(s) EXCEPT !.msgs = Append(@, <<i>>)]
      [] OTHER          -> Flush(s)

Gathered(ev) ==
    LET f[n \in 0..Len(ev)] == IF n = 0 THEN [msgs |-> <<>>, text |-> <<>>] ELSE Take(f[n - 1], ev[n], n)
    IN f[Len(ev)]

(* Fault of EventsToMessages: what was gathered last is forgotten. *)
NoLastFlush(ev) == Gathered(ev).msgs
EventsToMessages(ev) == Flush(Gathered(ev)).msgs

-----------------------------------------------------------------------------
(* saveMetadata (atomicWrite): write the temporary file, remove the old    *)
(* metadata, rename.                                                       *)

Saves(p, m, ret, err) ==
    /\ Goto(p, "save")
    /\ job' = [job EXCEPT ![p] = [meta |-> m, ret |-> ret, err |-> err]]

SaveWrite(p) ==
    /\ pc[p] = "save"
    /\ tmp' = job[p].meta
    /\ Goto(p, "remove")
    /\ UNCHANGED <<hist, meta, recVars, job, turn, sent, runVars, appended, stops, patches, crashes>>

SaveRemove(p) ==
    /\ pc[p] = "remove"
    /\ meta' = Missing
    /\ Goto(p, "rename")
    /\ UNCHANGED <<hist, tmp, recVars, job, turn, sent, runVars, appended, stops, patches, crashes>>

(* The rename fails when another writer took the temporary file.  With the *)
(* metadata of an append in place, Append returns nil.                     *)
SaveRename(p) ==
    /\ pc[p] = "rename"
    /\ IF tmp # Missing
         THEN /\ meta' = tmp /\ tmp' = Missing /\ Goto(p, job[p].ret)
              /\ appended' = IF job[p].ret \in {"wrap", "through"}
                               THEN appended \cup {turn.queue[i] : i \in DOMAIN turn.queue} ELSE appended
         ELSE Goto(p, job[p].err) /\ UNCHANGED <<meta, tmp, appended>>
    /\ job' = [job EXCEPT ![p] = NoJob]
    /\ UNCHANGED <<hist, recVars, turn, sent, runVars, stops, patches, crashes>>

-----------------------------------------------------------------------------
(* Canonical.Init and Canonical.Append, for the prompt (AppendSessionMessage) *)
(* and for the agent's messages (IngestTurn).                              *)

(* Where an error leads: handleSendMessage ignores that of its append, an  *)
(* ingest is given up.                                                     *)
OnError == IF turn.phase = "user" THEN "wrap" ELSE "leave"

(* handleSendMessage, accepted by its busy check. *)
SendMessage ==
    /\ pc["turn"] = "idle" /\ ~busy /\ sent < MaxTurns
    /\ raced \/ pc["patch"] # "idle" => sent < MaxRaced /\ patches <= MaxRaced
    /\ sent' = sent + 1
    /\ turn' = [NoTurn EXCEPT !.origin = rec.agent,
                              !.queue = <<[turn |-> sent + 1, origin |-> rec.agent, body |-> <<>>]>>]
    /\ Goto("turn", "init")
    /\ UNCHANGED <<fileVars, recVars, job, runVars, appended, stops, patches, crashes>>

(* Init creates missing metadata and names the active agent. *)
InitMetadata ==
    /\ pc["turn"] = "init"
    /\ IF meta # Missing /\ meta.active = turn.origin
         THEN Goto("turn", "append") /\ UNCHANGED job
         ELSE Saves("turn", IF meta = Missing THEN Fresh(turn.origin)
                            ELSE [meta EXCEPT !.active = turn.origin], "append", OnError)
    /\ UNCHANGED <<fileVars, recVars, turn, sent, runVars, appended, stops, patches, crashes>>

(* maxHistorySeq *)
MaxHistorySeq == CHOOSE n \in DOMAIN hist \cup {0} : \A s \in DOMAIN hist : s <= n

(* NextSeq: the number after the last one, with and without metadata.      *)
NextSeq == IF meta # Missing /\ meta.total > 0 THEN meta.total + 1 ELSE MaxHistorySeq + 1

(* Append creates metadata it does not find. *)
AppendBegins ==
    /\ pc["turn"] = "append"
    /\ IF meta = Missing
         THEN Saves("turn", Fresh(NoAgent), "number", OnError)
         ELSE Goto("turn", "number") /\ UNCHANGED job
    /\ UNCHANGED <<fileVars, recVars, turn, sent, runVars, appended, stops, patches, crashes>>

AppendNumbers ==
    /\ pc["turn"] = "number"
    /\ turn' = [turn EXCEPT !.seq = NextSeq, !.done = 0]
    /\ Goto("turn", "files")
    /\ UNCHANGED <<fileVars, recVars, job, sent, runVars, appended, stops, patches, crashes>>

(* A message in its file.  Fault: an existing file is replaced. *)
Overwritten(seq, m) == [s \in DOMAIN hist \cup {seq} |-> IF s = seq THEN m ELSE hist[s]]
Written(seq, m) == IF seq \in DOMAIN hist THEN hist
                   ELSE [s \in DOMAIN hist \cup {seq} |-> IF s = seq THEN m ELSE hist[s]]

(* AppendHistory, one file at a time. *)
AppendFile ==
    /\ pc["turn"] = "files" /\ turn.done < Len(turn.queue)
    /\ hist' = Written(turn.seq, turn.queue[turn.done + 1])
    /\ turn' = [turn EXCEPT !.seq = @ + 1, !.done = @ + 1]
    /\ UNCHANGED <<meta, tmp, recVars, pc, job, sent, runVars, appended, stops, patches, crashes>>

(* TotalSeq after an append.  Fault: the next unused number. *)
TotalIsNext(total) == IF turn.done > 0 /\ turn.seq > total THEN turn.seq ELSE total
TotalSeq(total) == IF turn.done > 0 /\ turn.seq - 1 > total THEN turn.seq - 1 ELSE total

AppendTotal ==
    /\ pc["turn"] = "files" /\ turn.done >= Len(turn.queue)
    /\ IF meta = Missing
         THEN Goto("turn", OnError) /\ UNCHANGED job
         ELSE Saves("turn", [meta EXCEPT !.total = TotalSeq(@)],
                    IF turn.phase = "user" THEN "wrap" ELSE "through", OnError)
    /\ UNCHANGED <<fileVars, recVars, turn, sent, runVars, appended, stops, patches, crashes>>

-----------------------------------------------------------------------------
(* wrapPromptWithSupplement, the start of the agent, retries.              *)

(* Fault of Delta: messages the thread has are sent again. *)
DeltaAgain(a, through) == {hist[s] : s \in {s \in DOMAIN hist : s <= meta.total /\ hist[s].origin # a}}

(* portable.Delta over LoadRange(1, TotalSeq). *)
Delta(a, through) ==
    {hist[s] : s \in {s \in DOMAIN hist : through < s /\ s <= meta.total /\ hist[s].origin # a}}

(* Building the supplement may fail; the request is then refused. *)
WrapPrompt ==
    /\ pc["turn"] = "wrap"
    /\ LET b   == IF meta = Missing THEN NoBinding ELSE meta.bind[rec.agent]
           sup == IF meta = Missing THEN {} ELSE Delta(rec.agent, b.through)
       IN \/ /\ turn' = [turn EXCEPT !.resume = IF rec.native # 0 THEN rec.native ELSE b.native,
                                     !.sup = sup, !.bare = b.through # 0 \/ meta = Missing]
             /\ Goto("turn", "start")
             /\ UNCHANGED <<events, busy>>
          \/ sup # {} /\ Returns
    /\ UNCHANGED <<fileVars, recVars, job, sent, threads, emitted, appended, stops, patches, crashes>>

(* The agent runs in the thread that is resumed, or in a new one. *)
StartAgent ==
    /\ pc["turn"] = "start"
    /\ LET th == IF rec.native # 0 THEN rec.native ELSE turn.resume
       IN IF th # 0
            THEN /\ threads' = [threads EXCEPT ![th].shown = @ \cup turn.sup]
                 /\ turn' = [turn EXCEPT !.thread = th]
            ELSE /\ Len(threads) < MaxThreads
                 /\ threads' = Append(threads, [shown |-> turn.sup, whole |-> ~turn.bare])
                 /\ turn' = [turn EXCEPT !.thread = Len(threads) + 1]
    /\ busy' = TRUE /\ events' = <<>>
    /\ Goto("turn", "running")
    /\ UNCHANGED <<fileVars, recVars, job, sent, emitted, appended, stops, patches, crashes>>

(* CreateSession or Send fails: nothing was registered or ingested. *)
StartFails ==
    /\ pc["turn"] = "start" /\ stops + crashes < MaxFaults
    /\ Returns /\ stops' = stops + 1
    /\ UNCHANGED <<fileVars, recVars, job, sent, threads, emitted, appended, patches, crashes>>

(* The agent emits an event; "system" carries its thread id, which goes    *)
(* into the record (how the pump may lag there is in TurnExecution).       *)
AgentEmit(e) ==
    /\ pc["turn"] = "running" /\ emitted < MaxEvents
    /\ emitted' = emitted + 1
    /\ events' = Append(events, e)
    /\ IF e = "system"
         THEN rec' = [rec EXCEPT !.native = turn.thread] /\ disk' = rec'
         ELSE UNCHANGED recVars
    /\ UNCHANGED <<fileVars, pc, job, turn, sent, busy, threads, appended, stops, patches, crashes>>

(* wrapPromptForSelfHeal: everything but the prompt itself. *)
Prior ==
    LET last == IF meta.total > 0 THEN meta.total ELSE MaxHistorySeq
    IN {hist[s] : s \in {s \in DOMAIN hist :
                           s <= last /\ ~(s = meta.total /\ hist[s].body = <<>>)}}

(* A retryable failure (bound: one a turn): the native id is dropped       *)
(* and a fresh thread is started with the whole history, or with the bare  *)
(* prompt when there is none or building the supplement fails.             *)
SelfHeal ==
    /\ pc["turn"] = "running" /\ ~turn.healed /\ Len(threads) < MaxThreads
    /\ rec' = [rec EXCEPT !.native = 0] /\ disk' = [rec EXCEPT !.native = 0]
    /\ events' = <<>>
    /\ turn' = [turn EXCEPT !.healed = TRUE, !.thread = Len(threads) + 1]
    /\ \/ meta # Missing /\ threads' = Append(threads, [shown |-> Prior, whole |-> TRUE])
       \/ threads' = Append(threads, [shown |-> {}, whole |-> FALSE])
    /\ UNCHANGED <<fileVars, pc, job, sent, busy, emitted, appended, stops, patches, crashes>>

(* Cancel, terminate or a drain timeout unregisters the execution first,   *)
(* and finishActiveExecution then has nothing to ingest.                   *)
TurnStopped ==
    /\ pc["turn"] = "running" /\ stops + crashes < MaxFaults
    /\ Returns /\ stops' = stops + 1
    /\ UNCHANGED <<fileVars, recVars, job, sent, threads, emitted, appended, patches, crashes>>

-----------------------------------------------------------------------------
(* finishActiveExecution: ingestActiveTurn, IngestTurn, UpdateBinding.     *)

Reported(ev) == \E i \in 1..Len(ev) : ev[i] = "system"

TurnEnds ==
    /\ pc["turn"] = "running"
    /\ LET bodies == EventsToMessages(events)
       IN turn' = [turn EXCEPT
                     !.phase = "ingest", !.origin = rec.agent,
                     !.native = IF Reported(events) THEN turn.thread ELSE rec.native,
                     !.queue = [i \in 1..Len(bodies) |->
                                  [turn |-> sent, origin |-> rec.agent, body |-> bodies[i]]]]
    /\ events' = <<>>
    /\ Goto("turn", "init")
    /\ UNCHANGED <<fileVars, recVars, job, sent, busy, threads, emitted, appended, stops, patches, crashes>>

(* The binding after a turn. *)
Bound(a, native, through) ==
    [meta EXCEPT !.bind[a] = [native |-> IF native # 0 THEN native ELSE @.native, through |-> through]]

(* IngestTurn reads TotalSeq after its append. *)
ReadThrough ==
    /\ pc["turn"] = "through"
    /\ IF meta = Missing
         THEN Goto("turn", "leave") /\ UNCHANGED turn
         ELSE Goto("turn", "bind") /\ turn' = [turn EXCEPT !.through = meta.total]
    /\ UNCHANGED <<fileVars, recVars, job, sent, runVars, appended, stops, patches, crashes>>

(* Missing metadata is created and read again, once. *)
UpdateBinding ==
    /\ pc["turn"] \in {"bind", "rebind"}
    /\ CASE meta # Missing -> Saves("turn", Bound(turn.origin, turn.native, turn.through), "record", "leave")
         [] meta = Missing /\ pc["turn"] = "bind" -> Saves("turn", Fresh(turn.origin), "rebind", "leave")
         [] OTHER -> Goto("turn", "leave") /\ UNCHANGED job
    /\ UNCHANGED <<fileVars, recVars, turn, sent, runVars, appended, stops, patches, crashes>>

(* The record takes over the binding's native id; the turn is unregistered. *)
UpdateRecord ==
    /\ pc["turn"] = "record"
    /\ IF meta # Missing /\ meta.bind[rec.agent].native # 0
         THEN rec' = [rec EXCEPT !.native = meta.bind[rec.agent].native] /\ disk' = rec'
         ELSE UNCHANGED recVars
    /\ Returns
    /\ UNCHANGED <<fileVars, job, sent, threads, emitted, appended, stops, patches, crashes>>

(* The ingest failed and was logged; the turn is unregistered all the same. *)
LeaveUningested ==
    /\ pc["turn"] = "leave"
    /\ Returns /\ stops' = stops + 1
    /\ UNCHANGED <<fileVars, recVars, job, sent, threads, emitted, appended, patches, crashes>>

-----------------------------------------------------------------------------
(* PATCH /sessions/:id: another agent, or a supplement strategy.           *)

PatchAccepted ==
    /\ pc["patch"] = "idle" /\ ~busy /\ patches < MaxPatches
    /\ raced \/ pc["turn"] # "idle" => sent <= MaxRaced /\ patches < MaxRaced
    /\ patches' = patches + 1
    /\ Goto("patch", "patch")
    /\ UNCHANGED <<fileVars, recVars, job, turn, sent, runVars, appended, stops, crashes>>

(* Another agent: its name goes into the record in memory and, unless the  *)
(* metadata cannot be read, into the metadata.                             *)
PatchAgent(a) ==
    /\ pc["patch"] = "patch" /\ a # rec.agent
    /\ rec' = [agent |-> a, native |-> 0]
    /\ IF meta = Missing
         THEN Goto("patch", "switched") /\ UNCHANGED job
         ELSE Saves("patch", [meta EXCEPT !.active = a], "switched", "switched")
    /\ UNCHANGED <<fileVars, disk, turn, sent, runVars, appended, stops, patches, crashes>>

(* SetSupplement rewrites the metadata; its error refuses the request. *)
PatchSupplement ==
    /\ pc["patch"] \in {"patch", "switched"}
    /\ IF meta = Missing
         THEN Goto("patch", "idle") /\ UNCHANGED job
         ELSE Saves("patch", meta, "update", "idle")
    /\ UNCHANGED <<fileVars, recVars, turn, sent, runVars, appended, stops, patches, crashes>>

(* A model, an algorithm or a directory the server does not accept: the    *)
(* record in memory stays as PatchAgent left it.                           *)
PatchRefused ==
    /\ pc["patch"] \in {"patch", "switched", "update"}
    /\ Goto("patch", "idle")
    /\ UNCHANGED <<fileVars, recVars, job, turn, sent, runVars, appended, stops, patches, crashes>>

PatchUpdate ==
    /\ pc["patch"] \in {"switched", "update"}
    /\ disk' = rec
    /\ Goto("patch", "idle")
    /\ UNCHANGED <<fileVars, rec, job, turn, sent, runVars, appended, stops, patches, crashes>>

(* The process dies; the files stay.  After the restart the record is read *)
(* back from record.json.                                                  *)
Crash ==
    /\ stops + crashes < MaxFaults
    /\ crashes' = crashes + 1
    /\ rec' = disk
    /\ pc' = [p \in Procs |-> "idle"] /\ job' = [p \in Procs |-> NoJob]
    /\ turn' = NoTurn /\ events' = <<>> /\ busy' = FALSE
    /\ appended' = {}
    /\ UNCHANGED <<fileVars, disk, sent, threads, emitted, stops, patches>>

-----------------------------------------------------------------------------
Overlapping == \A p \in Procs : pc[p] # "idle"

Turn ==
    \/ SendMessage \/ InitMetadata \/ AppendBegins \/ AppendNumbers \/ AppendFile \/ AppendTotal
    \/ WrapPrompt \/ StartAgent \/ StartFails \/ SelfHeal \/ TurnStopped \/ TurnEnds
    \/ ReadThrough \/ UpdateBinding \/ UpdateRecord \/ LeaveUningested
    \/ \E e \in EventKinds : AgentEmit(e)

Patch == PatchAccepted \/ PatchSupplement \/ PatchRefused \/ PatchUpdate \/ \E a \in Agents : PatchAgent(a)

Save == \E p \in Procs : SaveWrite(p) \/ SaveRemove(p) \/ SaveRename(p)

Step == Turn \/ Patch \/ Save \/ Crash

(* The files do not agree: record.json is not the record in memory, or     *)
(* TotalSeq counts some of the messages and not all.                       *)
Disagree == disk # rec \/ (meta # Missing /\ 0 < meta.total /\ meta.total < Cardinality(DOMAIN hist))

Next ==
    /\ Step
    /\ raced' = (raced \/ Overlapping)
    /\ torn' = (torn \/ (crashes' # crashes /\ Disagree))

Spec == Init /\ [][Next]_vars

-----------------------------------------------------------------------------
Message == [turn : 1..MaxTurns, origin : Agents, body : Seq(1..MaxEvents)]
Metadata == [total : Nat, active : Agents \cup {NoAgent}, bind : [Agents -> [native : Nat, through : Nat]]]

(* Types of the files, the record and the processes. *)
TypeOK ==
    /\ DOMAIN hist = 1..Cardinality(DOMAIN hist) /\ \A s \in DOMAIN hist : hist[s] \in Message
    /\ meta \in Metadata \cup {Missing} /\ tmp \in Metadata \cup {Missing}
    /\ rec \in [agent : Agents, native : 0..Len(threads)] /\ disk \in [agent : Agents, native : 0..Len(threads)]
    /\ pc \in [Procs -> {"idle", "init", "append", "number", "files", "wrap", "start", "running", "through", "bind",
                         "rebind", "record", "leave", "save", "remove", "rename", "patch", "switched", "update"}]
    /\ \A p \in Procs : job[p].meta \in Metadata \cup {Missing}
    /\ turn.seq \in Nat /\ turn.queue \in Seq(Message) /\ turn.thread \in 0..Len(threads)
    /\ events \in Seq(EventKinds) /\ {busy, raced, torn} \subseteq BOOLEAN /\ stops \in Nat
    /\ \A i \in 1..Len(threads) : threads[i].shown \subseteq Message /\ threads[i].whole \in BOOLEAN

(* history/ is an append-only log without gaps, whatever crashes, retries  *)
(* and stale or missing metadata do to the sequence numbers (NextSeq,      *)
(* maxHistorySeq, AppendHistory's "never overwrite").                      *)
Log == INSTANCE MessageLog WITH log <- hist
IsLog == Log!Spec

(* TotalSeq never runs ahead of the files, nor does a binding, nor, unless *)
(* a PATCH wrote back an older TotalSeq, a binding ahead of TotalSeq: the  *)
(* files of an append come before its metadata, and the binding after both *)
(* (canonical.go:132-180, ingest.go:84-91).                                *)
TotalCovered ==
    meta # Missing =>
        /\ meta.total <= Cardinality(DOMAIN hist)
        /\ \A a \in Agents : meta.bind[a].through <= Cardinality(DOMAIN hist)
        /\ raced \/ \A a \in Agents : meta.bind[a].through <= meta.total

(* A message whose Append returned nil is in the history and covered by    *)
(* TotalSeq, as long as no crash left files that TotalSeq does not cover   *)
(* and no PATCH wrote back an older TotalSeq.                              *)
AppendedKept ==
    (~raced /\ ~Overlapping /\ ~torn /\ meta # Missing) =>
        appended \subseteq {hist[s] : s \in 1..meta.total}

(* What the agent's thread has of the other agents' messages. *)
Informed == \A s \in 1..meta.total : hist[s].origin # rec.agent => hist[s] \in threads[turn.thread].shown

(* "Returning to an agent resumes that agent's stored native id and        *)
(* injects only newer foreign-origin facts" (docs/reference-manual-web-    *)
(* apis.md:332): supplement by supplement, across switches, retries, stops *)
(* and crashes, a thread that began with all of them is given every        *)
(* message of the other agents before its agent runs, unless a crash came  *)
(* between the files of an append and its TotalSeq (the next messages then *)
(* pass for files that are there already) or undid a PATCH.                *)
ContextComplete ==
    (~raced /\ ~Overlapping /\ ~torn /\ pc["turn"] = "running" /\ meta # Missing /\ threads[turn.thread].whole)
        => Informed

(* "injects only newer foreign-origin facts": no message is injected twice *)
(* into a thread, if every turn was ingested.                              *)
InjectedOnce ==
    (~raced /\ ~Overlapping /\ crashes = 0 /\ stops = 0 /\ pc["turn"] = "start" /\ turn.resume # 0)
        => turn.sup \cap threads[turn.resume].shown = {}

(* EventsToMessages against what it is for: every text, tool use and tool  *)
(* result is in exactly one message, in order, and two texts share one     *)
(* exactly if no event between them ends a message.                        *)
FactsKept ==
    LET msgs == EventsToMessages(events)
        Facts == {i \in 1..Len(events) : events[i] \in {"text", "tool_use", "tool_result"}}
        In(i) == {k \in 1..Len(msgs) : \E j \in 1..Len(msgs[k]) : msgs[k][j] = i}
    IN /\ \A i \in Facts : Cardinality(In(i)) = 1
       /\ \A i, j \in Facts : i < j =>
            \E k \in In(i), l \in In(j) :
               IF \E b \in i..j : events[b] \in Flushing THEN k < l ELSE k = l

(* A resumed thread is told everything the other agents said, once         *)
(* (BuildSupplement, the watermarks of the bindings).                      *)
ContextExact == TypeOK /\ ContextComplete /\ InjectedOnce

(* Nothing of a turn is lost on its way into the history: every fact of    *)
(* its events is in one message, and appended messages stay                *)
(* (EventsToMessages, AppendHistory).                                      *)
NothingLost == AppendedKept /\ FactsKept
=============================================================================
