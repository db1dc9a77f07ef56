--------------------------- MODULE WayfinderAgent ---------------------------
(***************************************************************************)
(* The built-in agent Wayfinder (wayfinder/agent_core.go): a run restores  *)
(* the session, resumes or makes a plan or runs the tool-calling loop, and *)
(* saves the session folder (session_store.go) after every round.  The     *)
(* model (LLM), the tools and the child sessions are external: they may    *)
(* answer anything.  The process may crash between any two writes of a     *)
(* save and a write may fail; the next turn starts from the folder.        *)
(***************************************************************************)
EXTENDS WayfinderSession

CONSTANTS
    Scenarios,        \* the configurations a run starts from: the plans the planner may
                      \* make, child sessions or not, a system prompt or not, what the
                      \* model may answer and call, the number of turns and of faults
    MaxIterations,    \* rounds of the tool-calling loop (25 in the code)
    MaxChunkMsgs      \* messages of a chunk (20 in the code)

ASSUME WayfinderAssumption ==
    /\ MaxIterations \in Nat \ {0} /\ MaxChunkMsgs \in Nat \ {0}
    /\ \A c \in Scenarios :
        /\ c.children \in BOOLEAN /\ c.systemPrompt \in BOOLEAN
        /\ c.turns \in Nat /\ c.faults \in Nat
        /\ c.errors \subseteq {"error", "tooLong"} /\ c.cuts \in BOOLEAN
        /\ c.streams \subseteq Seq({"text", "run", "ask"})
        /\ \A p \in c.plans : p.order \in Seq(Steps(p))

VARIABLES
    cfg,       \* the scenario
    turn,      \* turns begun: the content of the messages of a turn
    faults,    \* crashes and failed saves so far: [crash, lost]
    cancelled, \* the context of the turn
    disk,      \* the session folder: [hist, meta, context], each file there or not
    msgs, nextSeq,   \* AgentCore
    pc,        \* where Run is
    loop,      \* runSimple: [iter, emptyRetried, left (calls not executed yet)]
    plan,      \* the orchestrator: [tree, batch, node, on], nodes by their place in the tree
    saving,    \* Store.Save: [stage, status, wbs, prev, then]
    ret,       \* what runSimple or Execute returns: "none", "text", "error", "ask"
    sent,      \* terminal events on the channel of this turn
    ran,       \* executions of each node of this plan, and the ids that finished
    turnSeqs   \* the messages of the current runSimple

vars == <<cfg, turn, faults, cancelled, disk, msgs, nextSeq, pc, loop, plan, saving, ret,
          sent, ran, turnSeqs>>
coreVars == <<msgs, nextSeq, turnSeqs>>
runVars == <<loop, plan, ran>>

\* A file that is there is a sequence of its one content.
NoFile == <<>>
Missing(file) == file = NoFile
NoSave == [stage |-> "none", status |-> "", wbs |-> NoTree, prev |-> 0, then |-> ""]
NoPlan == [tree |-> NoTree, batch |-> {}, node |-> 0, on |-> FALSE]
EmptyDisk == [hist |-> <<>>, meta |-> NoFile, context |-> NoFile]

Init ==
    /\ cfg \in Scenarios
    /\ turn = 0 /\ faults = [crash |-> 0, lost |-> 0] /\ cancelled = FALSE
    /\ disk = EmptyDisk
    /\ msgs = <<>> /\ nextSeq = 0
    /\ pc = "idle"
    /\ loop = [iter |-> 0, emptyRetried |-> FALSE, left |-> <<>>]
    /\ plan = NoPlan /\ saving = NoSave
    /\ ret = "none" /\ sent = {}
    /\ ran = [begun |-> <<>>, done |-> {}] /\ turnSeqs = {}

MaxSeq(ms) == Max({0} \cup {m.seq : m \in ToSet(ms)})

-----------------------------------------------------------------------------
(* Run: restore, resume, route, plan.                                       *)

Load(d) == IF Missing(d.meta) THEN NoFile
           ELSE <<[wbs |-> d.meta[1].wbs,
                   messages |-> IF Missing(d.context) THEN <<>> ELSE d.context[1]]>>

RestoreSession(old, oldSeq) ==
    LET state == Load(disk) IN
    IF Missing(state)
    THEN msgs' = old /\ nextSeq' = oldSeq
    ELSE msgs' = state[1].messages /\ nextSeq' = Max({oldSeq, MaxSeq(state[1].messages)})

LoadWBSFromSession == LET state == Load(disk) IN IF Missing(state) THEN NoTree ELSE state[1].wbs

\* A turn: Send starts the goroutine and Run restores the session.  The adapter makes a new
\* core for a turn, or the suspended one goes on.
StartTurn(fresh) ==
    /\ pc = "idle" /\ turn < cfg.turns
    /\ fresh \/ msgs # <<>>
    /\ turn' = turn + 1 /\ cancelled' = FALSE
    /\ IF fresh THEN RestoreSession(<<>>, 0) ELSE RestoreSession(msgs, nextSeq)
    /\ LET tree == LoadWBSFromSession IN
       IF tree # NoTree /\ ~IsComplete(tree)
       THEN pc' = "orch" /\ plan' = [NoPlan EXCEPT !.tree = tree, !.on = TRUE] /\ ran' = ran
       ELSE pc' = "route" /\ plan' = NoPlan /\ ran' = [begun |-> <<>>, done |-> {}]
    /\ ret' = "none" /\ sent' = {} /\ turnSeqs' = {}
    /\ UNCHANGED <<cfg, faults, disk, loop, saving>>

AppendMessage(role, calls, call) ==
    /\ msgs' = Append(msgs, Message(role, nextSeq + 1, turn, calls, call))
    /\ nextSeq' = nextSeq + 1
    /\ turnSeqs' = turnSeqs \cup {nextSeq + 1}

\* runSimple up to the loop.
RunSimple ==
    /\ msgs' = msgs \o (IF msgs = <<>> /\ cfg.systemPrompt
                        THEN <<Message("system", 0, turn, <<>>, NoCall)>> ELSE <<>>)
               \o <<Message("user", nextSeq + 1, turn, <<>>, NoCall)>>
    /\ nextSeq' = nextSeq + 1 /\ turnSeqs' = {nextSeq + 1}
    /\ loop' = [iter |-> 0, emptyRetried |-> FALSE, left |-> <<>>]
    /\ pc' = "llm"

\* The router falls back to the simple route when the model fails or answers nonsense, and
\* so does a plan that cannot be made or parsed.
Route(route) ==
    /\ pc = "route"
    /\ IF route = "planning" /\ ~cancelled
       THEN pc' = "plan" /\ UNCHANGED <<coreVars, loop>>
       ELSE RunSimple
    /\ UNCHANGED <<cfg, turn, faults, cancelled, disk, plan, saving, ret, sent, ran>>

PlanFails ==
    /\ pc = "plan"
    /\ RunSimple
    /\ UNCHANGED <<cfg, turn, faults, cancelled, disk, plan, saving, ret, sent, ran>>

GenerateWBS(p) ==
    /\ pc = "plan" /\ ~cancelled
    /\ plan' = [NoPlan EXCEPT !.on = TRUE,
                  !.tree = [order |-> p.order, deps |-> p.deps,
                            status |-> [n \in Steps(p) |-> "pending"]]]
    /\ ran' = [begun |-> <<>>, done |-> {}]
    /\ pc' = "orch"
    /\ UNCHANGED <<cfg, turn, faults, cancelled, disk, coreVars, loop, saving, ret, sent>>

-----------------------------------------------------------------------------
(* Store.Save: history, metadata, context, one write after the other.       *)

Save(status, wbs, then) ==
    /\ saving' = [stage |-> "history", status |-> status, wbs |-> wbs,
                  prev |-> IF Missing(disk.meta) THEN 0 ELSE disk.meta[1].totalSeq, then |-> then]
    /\ pc' = "save"

\* saveSession has no plan to give.
SaveSession(status, then) == Save(status, NoTree, then)
PersistWBS(tree, then) == Save("active", tree, then)

\* The first new message is taken for a saved one.
LaterMessages ==
    {i \in 1..Len(msgs) : msgs[i].seq > saving.prev + 1 /\ msgs[i].seq \notin DOMAIN disk.hist}

NewMessages == {i \in 1..Len(msgs) : msgs[i].seq > saving.prev /\ msgs[i].seq \notin DOMAIN disk.hist}

WriteEntry(m) ==
    disk' = [disk EXCEPT !.hist =
                [s \in DOMAIN disk.hist \cup {m.seq} |-> IF s = m.seq THEN Fact(m) ELSE disk.hist[s]]]

\* An entry that is written again.
OverwriteHistory ==
    LET new == {i \in 1..Len(msgs) : msgs[i].seq > saving.prev /\
                    (msgs[i].seq \in DOMAIN disk.hist => disk.hist[msgs[i].seq] # Fact(msgs[i]))}
        m == msgs[Min(new)]
    IN  IF new = {}
        THEN disk' = disk /\ saving' = [saving EXCEPT !.stage = "dropMeta"]
        ELSE WriteEntry(m) /\ saving' = saving

\* AppendHistory: the first message that has no entry yet; an entry is never overwritten.
AppendHistory ==
    LET m == msgs[Min(NewMessages)] IN
    IF NewMessages = {}
    THEN disk' = disk /\ saving' = [saving EXCEPT !.stage = "dropMeta"]
    ELSE WriteEntry(m) /\ saving' = saving

\* atomicWrite: the temporary file is written, the target removed and then renamed to.
SaveStep ==
    /\ pc = "save"
    /\ \/ saving.stage = "history" /\ AppendHistory /\ pc' = pc
       \/ /\ saving.stage = "dropMeta"
          /\ disk' = [disk EXCEPT !.meta = NoFile]
          /\ saving' = [saving EXCEPT !.stage = "meta"] /\ pc' = pc
       \/ /\ saving.stage = "meta"
          /\ disk' = [disk EXCEPT !.meta =
                <<[status |-> saving.status, wbs |-> saving.wbs,
                   totalSeq |-> Max({saving.prev, MaxSeq(msgs)})]>>]
          /\ saving' = [saving EXCEPT !.stage = "dropContext"] /\ pc' = pc
       \/ /\ saving.stage = "dropContext"
          /\ disk' = [disk EXCEPT !.context = NoFile]
          /\ saving' = [saving EXCEPT !.stage = "context"] /\ pc' = pc
       \/ /\ saving.stage = "context"
          /\ disk' = [disk EXCEPT !.context = <<msgs>>]
          /\ saving' = NoSave /\ pc' = saving.then
    /\ UNCHANGED <<cfg, turn, faults, cancelled, coreVars, runVars, ret, sent>>

\* A write that fails ends the save; the error is logged and the run goes on.
SaveFails ==
    /\ pc = "save" /\ faults.crash + faults.lost < cfg.faults
    /\ faults' = [faults EXCEPT !.lost = @ + 1]
    /\ saving' = NoSave /\ pc' = saving.then
    /\ UNCHANGED <<cfg, turn, cancelled, disk, coreVars, runVars, ret, sent>>

\* The process is gone, and with it all but the folder.
Crash ==
    /\ pc # "idle" /\ faults.crash + faults.lost < cfg.faults
    /\ faults' = [faults EXCEPT !.crash = @ + 1]
    /\ pc' = "idle" /\ msgs' = <<>> /\ nextSeq' = 0 /\ turnSeqs' = {}
    /\ loop' = [iter |-> 0, emptyRetried |-> FALSE, left |-> <<>>]
    /\ plan' = NoPlan /\ saving' = NoSave /\ ret' = "none" /\ sent' = {"crash"}
    /\ UNCHANGED <<cfg, turn, cancelled, disk, ran>>

-----------------------------------------------------------------------------
(* The tool-calling loop of runSimple.                                      *)

\* runSimple returns r once the session is saved.
Return(r, status) == ret' = r /\ SaveSession(status, "returned")

NextIteration == loop' = [loop EXCEPT !.iter = @ + 1]

CallFails ==
    /\ Return("error", "failed")
    /\ UNCHANGED <<coreVars, loop, sent>>

\* applyReactiveCompaction; the retry takes an iteration of its own.
ContextExceeded ==
    LET compacted == Compact(msgs) IN
    IF Len(compacted) < Len(msgs)
    THEN /\ msgs' = compacted /\ NextIteration
         /\ UNCHANGED <<nextSeq, turnSeqs, pc, saving, ret, sent>>
    ELSE CallFails

\* Never gives up on an empty answer.
RetryEmpty ==
    /\ loop' = [loop EXCEPT !.emptyRetried = ~@]
    /\ UNCHANGED <<coreVars, pc, saving, ret, sent>>

EmptyAnswer ==
    IF loop.emptyRetried
    THEN CallFails
    ELSE /\ loop' = [loop EXCEPT !.iter = @ + 1, !.emptyRetried = TRUE]
         /\ UNCHANGED <<coreVars, pc, saving, ret, sent>>

TextAnswer ==
    /\ AppendMessage("assistant", <<>>, NoCall)
    /\ Return("text", "completed")
    /\ UNCHANGED <<loop, sent>>

ToolAnswer(calls) ==
    /\ AppendMessage("assistant", calls, NoCall)
    /\ loop' = [loop EXCEPT !.emptyRetried = FALSE, !.left = calls]
    /\ pc' = "tools"
    /\ UNCHANGED <<saving, ret, sent>>

\* The stream of an answer is a list of blocks: text, or the call of a tool.  When it is
\* cut, the scanner just ends: text that came is there, a call that was not closed is not.
ParseSSEStream(blocks, cut) ==
    LET closed == IF cut /\ blocks # <<>> THEN Front(blocks) ELSE blocks IN
    [text |-> "text" \in ToSet(blocks), calls |-> SelectSeq(closed, LAMBDA b : b # "text")]

Answer(resp) ==
    \/ resp.calls # <<>> /\ ToolAnswer(resp.calls)
    \/ resp.calls = <<>> /\ resp.text /\ TextAnswer
    \/ resp.calls = <<>> /\ ~resp.text /\ EmptyAnswer

Calling == pc = "llm" /\ loop.iter < MaxIterations

ModelAnswers(blocks, cut) ==
    /\ Calling /\ ~cancelled /\ (cut => cfg.cuts)
    /\ Answer(ParseSSEStream(blocks, cut))
    /\ UNCHANGED <<cfg, turn, faults, cancelled, disk, plan, ran>>

\* A cancelled context fails the call.
ModelFails ==
    /\ Calling
    /\ \/ (cancelled \/ "error" \in cfg.errors) /\ CallFails
       \/ ~cancelled /\ "tooLong" \in cfg.errors /\ ContextExceeded
    /\ UNCHANGED <<cfg, turn, faults, cancelled, disk, plan, ran>>

IterationsExceeded ==
    /\ pc = "llm" /\ loop.iter = MaxIterations
    /\ CallFails
    /\ UNCHANGED <<cfg, turn, faults, cancelled, disk, plan, ran>>

LastRound == CHOOSE m \in ToSet(msgs) : CallsTools(m) /\ \A n \in ToSet(msgs) : CallsTools(n) => n.seq <= m.seq

\* executeTool: an unknown tool, an error of a tool or of a sub-agent and a result are all
\* text; only ask_user is told apart.
Suspends(call) == call = "ask"

\* Executes one call: any outcome becomes the text of a tool message.  ask_user suspends
\* the session whatever calls are left.
ExecuteTool ==
    /\ pc = "tools" /\ loop.left # <<>>
    /\ LET round == LastRound
           k == Len(round.calls) - Len(loop.left) + 1
       IN  AppendMessage("tool", <<>>, <<round.seq, k>>)
    /\ IF Suspends(Head(loop.left))
       THEN /\ loop' = [loop EXCEPT !.left = <<>>]
            /\ Return("ask", "suspended") /\ sent' = sent \cup {"asked"}
       ELSE /\ loop' = [loop EXCEPT !.left = Tail(@)]
            /\ UNCHANGED <<pc, saving, ret, sent>>
    /\ UNCHANGED <<cfg, turn, faults, cancelled, disk, plan, ran>>

RoundEnds ==
    /\ pc = "tools" /\ loop.left = <<>>
    /\ SaveSession("active", "llm") /\ NextIteration
    /\ UNCHANGED <<cfg, turn, faults, cancelled, disk, coreVars, plan, ran, ret, sent>>

-----------------------------------------------------------------------------
(* WBSOrchestrator.Execute.                                                 *)

OrchestrationEnds(r) == ret' = r /\ pc' = "orchEnds" /\ plan' = plan

Orchestrate ==
    /\ pc = "orch" /\ plan.batch = {}
    /\ \/ IsComplete(plan.tree) /\ OrchestrationEnds("text")
       \/ ~IsComplete(plan.tree) /\ (HasFailed(plan.tree) \/ NoneExecutable(plan.tree))
          /\ OrchestrationEnds("error")
       \/ /\ ~HasFailed(plan.tree) /\ ~NoneExecutable(plan.tree)
          /\ plan' = [plan EXCEPT !.batch = NextExecutableNodes(plan.tree)]
          /\ UNCHANGED <<pc, ret>>
    /\ UNCHANGED <<cfg, turn, faults, cancelled, disk, coreVars, loop, saving, sent, ran>>

\* The next node of the batch is persisted as running before it is executed.
StartNode ==
    /\ pc = "orch" /\ plan.batch # {}
    /\ LET n == FirstNode(plan.batch)
           tree == UpdateNodeStatus(plan.tree, n, "running")
       IN  IF cancelled
           THEN OrchestrationEnds("error") /\ UNCHANGED saving
           ELSE /\ plan' = [plan EXCEPT !.tree = tree, !.batch = @ \ {n}, !.node = n]
                /\ PersistWBS(tree, "node")
                /\ ret' = "none"
    /\ UNCHANGED <<cfg, turn, faults, cancelled, disk, coreVars, loop, sent, ran>>

Begun(n) == IF n \in DOMAIN ran.begun THEN ran.begun[n] ELSE 0

\* A child session ends on its own.  Its events go to the parent's channel, so a child that
\* asks the user is heard, but its suspension is an error of the node.
RunChild ==
    \E r \in {"text", "error", "ask"} :
        /\ pc' = "returned"
        /\ ret' = IF r = "text" THEN "text" ELSE "error"
        /\ sent' = IF r = "ask" THEN sent \cup {"asked"} ELSE sent

\* ExecuteNode: the loop of the parent, or a child session.
ExecuteNode ==
    /\ pc = "node"
    /\ ran' = [ran EXCEPT !.begun =
                [n \in DOMAIN ran.begun \cup {plan.node} |-> Begun(n) + IF n = plan.node THEN 1 ELSE 0]]
    /\ IF cfg.children
       THEN RunChild /\ UNCHANGED <<coreVars, loop>>
       ELSE RunSimple /\ UNCHANGED <<ret, sent>>
    /\ UNCHANGED <<cfg, turn, faults, cancelled, disk, plan, saving>>

NodeStatus(r) == CASE r = "text" -> "completed" [] r = "ask" -> "suspended" [] OTHER -> "failed"

NodeReturns ==
    /\ pc = "returned" /\ plan.on
    /\ LET tree == UpdateNodeStatus(plan.tree, plan.node, NodeStatus(ret)) IN
       /\ plan' = [plan EXCEPT !.tree = tree]
       /\ PersistWBS(tree, IF ret = "text" THEN "orch" ELSE "orchEnds")
    /\ ran' = IF ret = "text" THEN [ran EXCEPT !.done = @ \cup {plan.tree.order[plan.node]}] ELSE ran
    /\ UNCHANGED <<cfg, turn, faults, cancelled, disk, coreVars, loop, ret, sent>>

\* runWithWBSTree: the session is saved once more, without the plan.
OrchestrationSaved ==
    /\ pc = "orchEnds"
    /\ SaveSession(NodeStatus(ret), "finish")
    /\ UNCHANGED <<cfg, turn, faults, cancelled, disk, coreVars, runVars, ret, sent>>

\* The goroutine of Send reports the end of Run and closes the channel.
Finish ==
    /\ pc = "finish" \/ (pc = "returned" /\ ~plan.on)
    /\ sent' = sent \cup {IF ret = "text" THEN "result" ELSE "error"}
    /\ pc' = "idle" /\ plan' = NoPlan
    /\ UNCHANGED <<cfg, turn, faults, cancelled, disk, coreVars, loop, saving, ret, ran>>

Cancel ==
    /\ pc \notin {"idle", "save"} /\ ~cancelled /\ cfg.cancels
    /\ cancelled' = TRUE
    /\ UNCHANGED <<cfg, turn, faults, disk, coreVars, pc, runVars, saving, ret, sent>>

RunStep ==
    \/ \E route \in {"simple", "planning"} : (route = "planning" => cfg.plans # {}) /\ Route(route)
    \/ PlanFails \/ \E p \in cfg.plans : GenerateWBS(p)
    \/ SaveStep
    \/ \E blocks \in cfg.streams, cut \in BOOLEAN : ModelAnswers(blocks, cut)
    \/ ModelFails
    \/ IterationsExceeded \/ ExecuteTool \/ RoundEnds
    \/ Orchestrate \/ StartNode \/ ExecuteNode \/ NodeReturns \/ OrchestrationSaved
    \/ Finish

Next == RunStep \/ (\E fresh \in BOOLEAN : StartTurn(fresh)) \/ SaveFails \/ Crash \/ Cancel

\* A tool is running, in this session or in a child's.  It may run for ever: the time limit
\* of a command kills its shell, but Run waits for whoever holds the output pipes.
ToolRuns ==
    \/ pc = "tools" /\ loop.left # <<>> /\ ~Suspends(Head(loop.left))
    \/ pc = "node" /\ cfg.children

\* The model answers or its client times out, and the goroutine of the turn runs.
Spec == Init /\ [][Next]_vars /\ WF_vars(RunStep /\ ~ToolRuns)

-----------------------------------------------------------------------------
(* Properties.                                                              *)

TypeOK ==
    /\ pc \in {"idle", "route", "plan", "llm", "tools", "save", "orch", "node", "returned",
               "orchEnds", "finish"}
    /\ loop.iter \in 0..MaxIterations
    /\ ret \in {"none", "text", "error", "ask"}
    /\ sent \subseteq {"asked", "result", "error", "crash"}
    /\ turnSeqs \subseteq 1..nextSeq

\* What the model is asked with is well formed: every tool result answers a call of the
\* assistant message before it, and every call has its result, except the calls after an
\* ask_user, which were dropped when the session was suspended.  Holds over compactions,
\* restarts and resumed sessions (agent_core.go runSimple, compaction.go).
PairsIntact ==
    pc = "llm" =>
        /\ ValidateToolPairIntegrity(msgs)
        /\ \A m \in ToSet(msgs) : IsTool(m) => \E a \in ToSet(msgs) : CallsTools(a) /\ a.seq = m.call[1]
        /\ \A a \in ToSet(msgs) : CallsTools(a) =>
             \A k \in 1..Len(a.calls) :
                \/ \E m \in ToSet(msgs) : IsTool(m) /\ m.call = <<a.seq, k>>
                \/ \E j \in 1..(k - 1) : a.calls[j] = "ask"

\* A compaction never takes away the prompt of the turn or anything after it, however often
\* the context is exceeded (adjustBoundaryForUserStart).
CurrentTurnWhole ==
    pc \in {"llm", "tools"} => turnSeqs \subseteq {m.seq : m \in ToSet(msgs)}

\* The numbers of messages are unique and grow, also in a session restored after a
\* compaction or a crash (appendMessage, restoreSession).
SeqsGrow == \A i, j \in 1..Len(msgs) : i < j /\ msgs[i].seq # 0 => msgs[i].seq < msgs[j].seq

\* As long as no save was interrupted, everything in the saved context has its own entry in
\* the history, so that a compacted message can be read again (Store.Save).
HistoryComplete ==
    faults.crash + faults.lost = 0 /\ ~Missing(disk.context) =>
        \A m \in ToSet(disk.context[1]) : m.seq # 0 =>
            m.seq \in DOMAIN disk.hist /\ disk.hist[m.seq] = Fact(m)

\* An entry of the history never changes, also when a crash lets a later turn use its
\* number again (AppendHistory).
HistoryImmutable ==
    [][\A s \in DOMAIN disk.hist : s \in DOMAIN disk'.hist /\ disk'.hist[s] = disk.hist[s]]_vars

\* A node of a plan is executed at most once, whenever the process crashes and the plan is
\* resumed, if its saves succeed: it is persisted as running before it starts.
StepAtMostOnce == faults.lost = 0 => \A n \in DOMAIN ran.begun : ran.begun[n] <= 1

\* A node runs only after a node of each id it depends on has run to its end, in this process
\* or in one before it (NextExecutableNodes, loadWBSFromSession).
DependenciesDone ==
    plan.on /\ pc \in {"node", "llm", "tools", "returned"} => plan.tree.deps[plan.node] \subseteq ran.done

\* Between turns the status of the session tells how the turn ended, unless a fault hit it.
OutcomeRecorded ==
    pc = "idle" /\ turn > 0 /\ faults.crash + faults.lost = 0 =>
        /\ ~Missing(disk.meta)
        /\ disk.meta[1].status = NodeStatus(ret)
        /\ ("result" \in sent) = (ret = "text")

\* The chunks given to the summarizer are all of the messages in their order, and no chunk
\* begins inside a tool round (splitIntoChunks).
ChunksWhole ==
    pc = "llm" =>
        LET chunks == SplitIntoChunks(msgs, MaxChunkMsgs) IN
        /\ FlattenSeq(chunks) = msgs
        /\ \A i \in 1..Len(chunks) : chunks[i] # <<>> /\ ~IsTool(chunks[i][1])

\* Run ends, unless a tool never does: no answer of the model keeps the loop going for ever.
RunEnds == (pc # "idle" ~> pc = "idle") \/ <>[]ToolRuns

\* What the model and the summarizer are asked with is well formed at every compaction:
\* calls stay with their results, the current turn is whole, and so is each chunk
\* (compaction.go, map_reduce_summarizer.go).
ContextWellFormed == TypeOK /\ PairsIntact /\ CurrentTurnWhole /\ ChunksWhole

\* The history has every message of the conversation, in the order of its numbers
\* (saveSession, AppendHistory).
HistoryKept == SeqsGrow /\ HistoryComplete

\* A plan is carried out as it was made: each step once, after its dependencies, and its
\* outcome is on disk (wbs_orchestrator.go).
PlanSound == StepAtMostOnce /\ DependenciesDone /\ OutcomeRecorded
=============================================================================
