--------------------------- MODULE WayfinderProofs ---------------------------
(***************************************************************************)
(* Machine-checked proofs about WayfinderAgent, for any scenario: whatever *)
(* the model answers, however often it finds the context too long, and     *)
(* wherever the process crashes or a write fails.                          *)
(***************************************************************************)
EXTENDS WayfinderAgent, SequenceTheorems, WellFoundedInduction, TLAPS

-----------------------------------------------------------------------------
(* Shapes.                                                                  *)

(* The records that are updated field by field. *)
Shapes ==
    /\ disk = [hist |-> disk.hist, meta |-> disk.meta, context |-> disk.context]
    /\ saving = [stage |-> saving.stage, status |-> saving.status, wbs |-> saving.wbs,
                 prev |-> saving.prev, then |-> saving.then]
    /\ plan = [tree |-> plan.tree, batch |-> plan.batch, node |-> plan.node, on |-> plan.on]
    /\ ran = [begun |-> ran.begun, done |-> ran.done]
    /\ plan.on \in BOOLEAN
    /\ faults \in [crash : Nat, lost : Nat]

LEMMA ShapesInit == Init => Shapes
<1> SUFFICES ASSUME Init PROVE Shapes
  OBVIOUS
<1>1. disk = [hist |-> disk.hist, meta |-> disk.meta, context |-> disk.context]
  BY DEF Init, EmptyDisk
<1>2. saving = [stage |-> saving.stage, status |-> saving.status, wbs |-> saving.wbs,
                prev |-> saving.prev, then |-> saving.then]
  BY DEF Init, NoSave
<1>3. /\ plan = [tree |-> plan.tree, batch |-> plan.batch, node |-> plan.node, on |-> plan.on]
      /\ plan.on \in BOOLEAN
  BY DEF Init, NoPlan
<1>4. ran = [begun |-> ran.begun, done |-> ran.done] /\ faults \in [crash : Nat, lost : Nat]
  BY DEF Init
<1> QED
  BY <1>1, <1>2, <1>3, <1>4 DEF Shapes

(* What a save that begins, and each step of one, does. *)
LEMMA SaveEffect ==
    ASSUME NEW status, NEW wbs, NEW then, Save(status, wbs, then)
    PROVE  /\ pc' = "save" /\ saving'.stage = "history" /\ saving'.status = status
           /\ saving'.wbs = wbs /\ saving'.then = then
           /\ Missing(disk.meta) => saving'.prev = 0
           /\ ~Missing(disk.meta) => saving'.prev = disk.meta[1].totalSeq
           /\ saving' = [stage |-> saving'.stage, status |-> saving'.status, wbs |-> saving'.wbs,
                         prev |-> saving'.prev, then |-> saving'.then]
BY DEF Save

LEMMA AppendEffect ==
    ASSUME Shapes, AppendHistory
    PROVE  \/ /\ NewMessages = {} /\ disk' = disk
              /\ saving' = [saving EXCEPT !.stage = "dropMeta"]
           \/ /\ NewMessages # {} /\ saving' = saving
              /\ disk'.meta = disk.meta /\ disk'.context = disk.context
              /\ disk' = [hist |-> disk'.hist, meta |-> disk'.meta, context |-> disk'.context]
              /\ DOMAIN disk'.hist = DOMAIN disk.hist \cup {msgs[Min(NewMessages)].seq}
              /\ \A s \in DOMAIN disk'.hist :
                   /\ s = msgs[Min(NewMessages)].seq => disk'.hist[s] = Fact(msgs[Min(NewMessages)])
                   /\ s # msgs[Min(NewMessages)].seq => disk'.hist[s] = disk.hist[s]
<1> DEFINE m == msgs[Min(NewMessages)]
           h == [s \in DOMAIN disk.hist \cup {m.seq} |-> IF s = m.seq THEN Fact(m) ELSE disk.hist[s]]
<1>1. disk = [hist |-> disk.hist, meta |-> disk.meta, context |-> disk.context]
  BY DEF Shapes
<1>2. CASE NewMessages = {}
  BY <1>2 DEF AppendHistory
<1>3. CASE NewMessages # {}
  <2>1. disk' = [disk EXCEPT !.hist = h] /\ saving' = saving
    BY <1>3 DEF AppendHistory, WriteEntry
  <2>2. /\ DOMAIN h = DOMAIN disk.hist \cup {m.seq}
        /\ \A s \in DOMAIN h : (s = m.seq => h[s] = Fact(m)) /\ (s # m.seq => h[s] = disk.hist[s])
    OBVIOUS
  <2> HIDE DEF h
  <2>3. disk'.hist = h /\ disk'.meta = disk.meta /\ disk'.context = disk.context
        /\ disk' = [hist |-> disk'.hist, meta |-> disk'.meta, context |-> disk'.context]
    BY <1>1, <2>1
  <2> QED
    BY <1>3, <2>1, <2>2, <2>3
<1> QED
  BY <1>2, <1>3

(* The five stages of a save. *)
LEMMA StageEffect ==
    ASSUME Shapes, SaveStep
    PROVE  /\ pc = "save"
           /\ UNCHANGED <<cfg, turn, faults, cancelled, coreVars, runVars, ret, sent>>
           /\ \/ saving.stage = "history" /\ AppendHistory /\ pc' = "save"
              \/ /\ saving.stage = "dropMeta" /\ saving'.stage = "meta" /\ pc' = "save"
                 /\ disk'.hist = disk.hist /\ Missing(disk'.meta) /\ disk'.context = disk.context
              \/ /\ saving.stage = "meta" /\ saving'.stage = "dropContext" /\ pc' = "save"
                 /\ disk'.hist = disk.hist /\ disk'.context = disk.context
                 /\ ~Missing(disk'.meta) /\ disk'.meta[1].status = saving.status
                 /\ disk'.meta[1].wbs = saving.wbs
                 /\ disk'.meta[1].totalSeq = Max({saving.prev, MaxSeq(msgs)})
              \/ /\ saving.stage = "dropContext" /\ saving'.stage = "context" /\ pc' = "save"
                 /\ disk'.hist = disk.hist /\ disk'.meta = disk.meta /\ Missing(disk'.context)
              \/ /\ saving.stage = "context" /\ saving' = NoSave /\ pc' = saving.then
                 /\ disk'.hist = disk.hist /\ disk'.meta = disk.meta
                 /\ ~Missing(disk'.context) /\ disk'.context[1] = msgs
           /\ saving.stage # "context" =>
                /\ saving'.status = saving.status /\ saving'.wbs = saving.wbs
                /\ saving'.prev = saving.prev /\ saving'.then = saving.then
           /\ disk' = [hist |-> disk'.hist, meta |-> disk'.meta, context |-> disk'.context]
           /\ saving' = [stage |-> saving'.stage, status |-> saving'.status, wbs |-> saving'.wbs,
                         prev |-> saving'.prev, then |-> saving'.then]
<1>1. /\ disk = [hist |-> disk.hist, meta |-> disk.meta, context |-> disk.context]
      /\ saving = [stage |-> saving.stage, status |-> saving.status, wbs |-> saving.wbs,
                   prev |-> saving.prev, then |-> saving.then]
  BY DEF Shapes
<1>2. pc = "save" /\ UNCHANGED <<cfg, turn, faults, cancelled, coreVars, runVars, ret, sent>>
  BY DEF SaveStep
<1>3. CASE saving.stage = "history" /\ AppendHistory /\ pc' = pc
  <2>1. CASE disk' = disk /\ saving' = [saving EXCEPT !.stage = "dropMeta"]
    BY <1>1, <1>2, <1>3, <2>1
  <2>2. CASE saving' = saving /\ disk' = [hist |-> disk'.hist, meta |-> disk'.meta, context |-> disk'.context]
    BY <1>1, <1>2, <1>3, <2>2
  <2> QED
    BY <1>3, <2>1, <2>2, AppendEffect
<1>4. CASE saving.stage = "dropMeta" /\ disk' = [disk EXCEPT !.meta = NoFile]
           /\ saving' = [saving EXCEPT !.stage = "meta"] /\ pc' = pc
  BY <1>1, <1>2, <1>4 DEF Missing
<1>5. CASE /\ saving.stage = "meta"
           /\ disk' = [disk EXCEPT !.meta =
                <<[status |-> saving.status, wbs |-> saving.wbs,
                   totalSeq |-> Max({saving.prev, MaxSeq(msgs)})]>>]
           /\ saving' = [saving EXCEPT !.stage = "dropContext"] /\ pc' = pc
  <2> DEFINE total == Max({saving.prev, MaxSeq(msgs)})
             meta == <<[status |-> saving.status, wbs |-> saving.wbs, totalSeq |-> total]>>
  <2>1. meta[1].status = saving.status /\ meta[1].wbs = saving.wbs /\ meta[1].totalSeq = total
        /\ meta # <<>>
    OBVIOUS
  <2>2. disk' = [disk EXCEPT !.meta = meta]
    BY <1>5
  <2> HIDE DEF meta, total
  <2>3. disk'.meta = meta /\ disk'.hist = disk.hist /\ disk'.context = disk.context
        /\ disk' = [hist |-> disk'.hist, meta |-> disk'.meta, context |-> disk'.context]
    BY <1>1, <2>2
  <2> QED
    BY <1>1, <1>2, <1>5, <2>1, <2>3 DEF Missing, NoFile, total
<1>6. CASE saving.stage = "dropContext" /\ disk' = [disk EXCEPT !.context = NoFile]
           /\ saving' = [saving EXCEPT !.stage = "context"] /\ pc' = pc
  BY <1>1, <1>2, <1>6 DEF Missing
<1>7. CASE saving.stage = "context" /\ disk' = [disk EXCEPT !.context = <<msgs>>]
           /\ saving' = NoSave /\ pc' = saving.then
  <2>1. disk'.context = <<msgs>> /\ disk'.hist = disk.hist /\ disk'.meta = disk.meta
        /\ disk' = [hist |-> disk'.hist, meta |-> disk'.meta, context |-> disk'.context]
    BY <1>1, <1>7
  <2>2. disk'.context[1] = msgs /\ ~Missing(disk'.context)
    BY <2>1 DEF Missing, NoFile
  <2>3. saving' = [stage |-> saving'.stage, status |-> saving'.status, wbs |-> saving'.wbs,
                   prev |-> saving'.prev, then |-> saving'.then]
    BY <1>7 DEF NoSave
  <2> QED
    BY <1>2, <1>7, <2>1, <2>2, <2>3
<1> QED
  BY <1>3, <1>4, <1>5, <1>6, <1>7 DEF SaveStep

(* One round of the tool-calling loop: what it does to the messages, and    *)
(* whether it ends the loop or begins a save.                               *)
Rounds ==
    \/ \E blocks \in cfg.streams, cut \in BOOLEAN : ModelAnswers(blocks, cut)
    \/ ModelFails \/ IterationsExceeded \/ ExecuteTool \/ RoundEnds

LEMMA CallFailsEffect == CallFails => Save(NodeStatus("error"), NoTree, "returned") /\ ret' = "error" /\ sent' = sent
                                       /\ UNCHANGED coreVars
BY DEF CallFails, Return, SaveSession, NodeStatus

LEMMA RoundEffect ==
    ASSUME Rounds
    PROVE  /\ pc \in {"llm", "tools"}
           /\ UNCHANGED <<cfg, turn, faults, cancelled, disk, plan, ran>>
           /\ \/ saving' = saving /\ pc' \in {"llm", "tools"} /\ sent' = sent
              \/ Save("active", NoTree, "llm") /\ sent' = sent
              \/ /\ \E r \in {"text", "error", "ask"} : ret' = r /\ Save(NodeStatus(r), NoTree, "returned")
                 /\ sent' = sent \/ sent' = sent \cup {"asked"}
           /\ \/ UNCHANGED coreVars
              \/ \E role, calls, call : AppendMessage(role, calls, call)
              \/ /\ msgs' = Compact(msgs) /\ Len(Compact(msgs)) < Len(msgs) /\ nextSeq' = nextSeq
                 /\ pc' \in {"llm", "tools"} /\ saving' = saving
<1>1. ASSUME NEW blocks, NEW cut, ModelAnswers(blocks, cut)
      PROVE  /\ pc = "llm" /\ UNCHANGED <<cfg, turn, faults, cancelled, disk, plan, ran>>
             /\ \/ saving' = saving /\ pc' \in {"llm", "tools"} /\ sent' = sent
                \/ \E r \in {"text", "error", "ask"} : ret' = r /\ Save(NodeStatus(r), NoTree, "returned") /\ sent' = sent
             /\ UNCHANGED coreVars \/ \E role, calls, call : AppendMessage(role, calls, call)
  <2> DEFINE resp == ParseSSEStream(blocks, cut)
  <2>1. pc = "llm" /\ UNCHANGED <<cfg, turn, faults, cancelled, disk, plan, ran>> /\ Answer(resp)
    BY <1>1 DEF ModelAnswers, Calling
  <2> HIDE DEF resp
  <2>2. CASE ToolAnswer(resp.calls)
    BY <2>1, <2>2 DEF ToolAnswer
  <2>3. CASE TextAnswer
    <3>1. ret' = "text" /\ Save(NodeStatus("text"), NoTree, "returned") /\ sent' = sent
      BY <2>3 DEF TextAnswer, Return, SaveSession, NodeStatus
    <3>2. \E role, calls, call : AppendMessage(role, calls, call)
      BY <2>3 DEF TextAnswer
    <3> QED
      BY <2>1, <3>1, <3>2
  <2>4. CASE EmptyAnswer
    <3>1. CASE CallFails
      BY <2>1, <3>1, CallFailsEffect
    <3>2. CASE UNCHANGED <<coreVars, pc, saving, ret, sent>>
      BY <2>1, <3>2
    <3> QED
      BY <2>4, <3>1, <3>2 DEF EmptyAnswer
  <2> QED
    BY <2>1, <2>2, <2>3, <2>4 DEF Answer
<1>2. CASE ModelFails
  <2>1. pc = "llm" /\ UNCHANGED <<cfg, turn, faults, cancelled, disk, plan, ran>>
    BY <1>2 DEF ModelFails, Calling
  <2>2. CASE CallFails
    BY <2>1, <2>2, CallFailsEffect
  <2>3. CASE /\ msgs' = Compact(msgs) /\ Len(Compact(msgs)) < Len(msgs)
             /\ UNCHANGED <<nextSeq, turnSeqs, pc, saving, ret, sent>>
    BY <2>1, <2>3
  <2> QED
    BY <1>2, <2>2, <2>3 DEF ModelFails, ContextExceeded
<1>3. CASE IterationsExceeded
  <2>1. pc = "llm" /\ UNCHANGED <<cfg, turn, faults, cancelled, disk, plan, ran>> /\ CallFails
    BY <1>3 DEF IterationsExceeded
  <2> QED
    BY <2>1, CallFailsEffect
<1>4. CASE ExecuteTool
  <2>1. pc = "tools" /\ UNCHANGED <<cfg, turn, faults, cancelled, disk, plan, ran>>
    BY <1>4 DEF ExecuteTool
  <2>2. \E role, calls, call : AppendMessage(role, calls, call)
    BY <1>4 DEF ExecuteTool
  <2>3. CASE Return("ask", "suspended") /\ sent' = sent \cup {"asked"}
    <3>1. ret' = "ask" /\ Save(NodeStatus("ask"), NoTree, "returned")
      BY <2>3 DEF Return, SaveSession, NodeStatus
    <3> QED
      BY <2>1, <2>2, <2>3, <3>1
  <2>4. CASE UNCHANGED <<pc, saving, ret, sent>>
    BY <2>1, <2>2, <2>4
  <2> QED
    BY <1>4, <2>3, <2>4 DEF ExecuteTool
<1>5. CASE RoundEnds
  <2>1. /\ pc = "tools" /\ UNCHANGED <<cfg, turn, faults, cancelled, disk, plan, ran>>
        /\ Save("active", NoTree, "llm") /\ sent' = sent /\ UNCHANGED coreVars
    BY <1>5 DEF RoundEnds, SaveSession
  <2> QED
    BY <2>1
<1> QED
  BY <1>1, <1>2, <1>3, <1>4, <1>5 DEF Rounds

(* What the steps outside the rounds and the saves do to the records. *)
LEMMA ShapesNext == Shapes /\ [Next]_vars => Shapes'
<1> SUFFICES ASSUME Shapes, [Next]_vars PROVE Shapes'
  OBVIOUS
<1>1. CASE UNCHANGED <<disk, saving, plan, ran, faults>>
  BY <1>1 DEF Shapes
<1>2. CASE \/ Cancel \/ UNCHANGED vars \/ PlanFails
           \/ \E route \in {"simple", "planning"} : Route(route)
  BY <1>1, <1>2 DEF Cancel, vars, PlanFails, Route, runVars, RunSimple
<1>3. ASSUME NEW fresh, StartTurn(fresh) PROVE Shapes'
  <2> DEFINE tree == LoadWBSFromSession
  <2>1. /\ UNCHANGED <<disk, saving, faults>>
        /\ \/ plan' = [NoPlan EXCEPT !.tree = tree, !.on = TRUE] /\ ran' = ran
           \/ plan' = NoPlan /\ ran' = [begun |-> <<>>, done |-> {}]
    <3>1. UNCHANGED <<disk, saving, faults>>
      BY <1>3 DEF StartTurn
    <3>2. \/ plan' = [NoPlan EXCEPT !.tree = LoadWBSFromSession, !.on = TRUE] /\ ran' = ran
          \/ plan' = NoPlan /\ ran' = [begun |-> <<>>, done |-> {}]
      BY <1>3 DEF StartTurn
    <3> QED
      BY <3>1, <3>2
  <2> HIDE DEF tree
  <2>2. plan' = [tree |-> plan'.tree, batch |-> plan'.batch, node |-> plan'.node, on |-> plan'.on]
        /\ plan'.on \in BOOLEAN
    <3>1. CASE plan' = [NoPlan EXCEPT !.tree = tree, !.on = TRUE]
      <4>1. plan' = [tree |-> tree, batch |-> {}, node |-> 0, on |-> TRUE]
        BY <3>1 DEF NoPlan
      <4> QED
        BY <4>1
    <3>2. CASE plan' = NoPlan
      BY <3>2 DEF NoPlan
    <3> QED
      BY <2>1, <3>1, <3>2
  <2>3. ran' = [begun |-> ran'.begun, done |-> ran'.done]
    BY <2>1 DEF Shapes
  <2> QED
    BY <2>1, <2>2, <2>3 DEF Shapes
<1>4. ASSUME NEW p, GenerateWBS(p) PROVE Shapes'
  <2> DEFINE tree == [order |-> p.order, deps |-> p.deps, status |-> [n \in Steps(p) |-> "pending"]]
  <2>1. /\ UNCHANGED <<disk, saving, faults>>
        /\ plan' = [NoPlan EXCEPT !.on = TRUE, !.tree = tree] /\ ran' = [begun |-> <<>>, done |-> {}]
    BY <1>4 DEF GenerateWBS
  <2> HIDE DEF tree
  <2>2. plan' = [tree |-> plan'.tree, batch |-> plan'.batch, node |-> plan'.node, on |-> plan'.on]
        /\ plan'.on \in BOOLEAN /\ ran' = [begun |-> ran'.begun, done |-> ran'.done]
    BY <2>1 DEF NoPlan
  <2> QED
    BY <2>1, <2>2 DEF Shapes
<1>5. CASE SaveStep
  BY <1>5, StageEffect DEF Shapes, runVars
<1>6. CASE SaveFails
  <2>1. faults' = [faults EXCEPT !.lost = @ + 1] /\ saving' = NoSave /\ UNCHANGED <<disk, plan, ran>>
    BY <1>6 DEF SaveFails, runVars
  <2>2. faults' \in [crash : Nat, lost : Nat]
    BY <2>1 DEF Shapes
  <2> QED
    BY <2>1, <2>2 DEF Shapes, NoSave
<1>7. CASE Crash
  <2>1. faults' = [faults EXCEPT !.crash = @ + 1] /\ saving' = NoSave /\ plan' = NoPlan /\ UNCHANGED <<disk, ran>>
    BY <1>7 DEF Crash
  <2>2. faults' \in [crash : Nat, lost : Nat]
    BY <2>1 DEF Shapes
  <2> QED
    BY <2>1, <2>2 DEF Shapes, NoSave, NoPlan
<1>8. ASSUME NEW status, NEW wbs, NEW then, Save(status, wbs, then), UNCHANGED <<disk, faults>>,
             plan' = [tree |-> plan'.tree, batch |-> plan'.batch, node |-> plan'.node, on |-> plan'.on],
             plan'.on \in BOOLEAN, ran' = [begun |-> ran'.begun, done |-> ran'.done]
      PROVE  Shapes'
  BY <1>8, SaveEffect DEF Shapes
<1>9. CASE Rounds
  BY <1>1, <1>8, <1>9, RoundEffect DEF Shapes
<1>10. CASE Orchestrate
  <2>1. /\ plan' = plan \/ plan' = [plan EXCEPT !.batch = NextExecutableNodes(plan.tree)]
        /\ UNCHANGED <<disk, saving, faults, ran>>
    BY <1>10 DEF Orchestrate, OrchestrationEnds
  <2> QED
    BY <2>1 DEF Shapes
<1>11. CASE StartNode
  <2> DEFINE n == FirstNode(plan.batch)
             tree == UpdateNodeStatus(plan.tree, n, "running")
  <2>1. /\ UNCHANGED <<disk, faults, ran>>
        /\ \/ plan' = plan /\ saving' = saving
           \/ /\ plan' = [plan EXCEPT !.tree = tree, !.batch = @ \ {n}, !.node = n]
              /\ Save("active", tree, "node")
    BY <1>11 DEF StartNode, OrchestrationEnds, PersistWBS
  <2> HIDE DEF n, tree
  <2>2. CASE plan' = plan /\ saving' = saving
    BY <1>1, <2>1, <2>2
  <2>3. CASE plan' = [plan EXCEPT !.tree = tree, !.batch = @ \ {n}, !.node = n] /\ Save("active", tree, "node")
    BY <1>8, <2>1, <2>3 DEF Shapes
  <2> QED
    BY <2>1, <2>2, <2>3
<1>12. CASE ExecuteNode
  <2>1. /\ \E b : ran' = [ran EXCEPT !.begun = b]
        /\ UNCHANGED <<disk, plan, saving, faults>>
    BY <1>12 DEF ExecuteNode
  <2> QED
    BY <2>1 DEF Shapes
<1>13. CASE NodeReturns
  <2> DEFINE tree == UpdateNodeStatus(plan.tree, plan.node, NodeStatus(ret))
  <2>1. /\ UNCHANGED <<disk, faults>> /\ plan' = [plan EXCEPT !.tree = tree]
        /\ \E then : Save("active", tree, then)
        /\ ran' = ran \/ \E d : ran' = [ran EXCEPT !.done = d]
    BY <1>13 DEF NodeReturns, PersistWBS
  <2> HIDE DEF tree
  <2> QED
    BY <1>8, <2>1 DEF Shapes
<1>14. CASE OrchestrationSaved
  <2>1. Save(NodeStatus(ret), NoTree, "finish") /\ UNCHANGED <<disk, faults, plan, ran>>
    BY <1>14 DEF OrchestrationSaved, SaveSession, runVars
  <2> QED
    BY <1>8, <2>1 DEF Shapes
<1>15. CASE Finish
  BY <1>15 DEF Finish, Shapes, NoPlan
<1> QED
  BY <1>2, <1>3, <1>4, <1>5, <1>6, <1>7, <1>9, <1>10, <1>11, <1>12, <1>13, <1>14, <1>15
     DEF Next, RunStep, Rounds

-----------------------------------------------------------------------------
(* The history.                                                             *)

LEMMA LeastOf ==
    ASSUME NEW S, S \subseteq Nat, S # {}
    PROVE  Min(S) \in S /\ \A y \in S : Min(S) <= y
<1>1. PICK x \in S : \A y \in S : ~(<<y, x>> \in OpToRel(<, Nat))
  BY NatLessThanWellFounded, WFMin
<1>2. \A y \in S : y < x => <<y, x>> \in OpToRel(<, Nat)
  BY DEF OpToRel
<1>3. \A y \in S : ~(y < x)
  BY <1>1, <1>2
<1>4. \A y \in S : x <= y
  BY <1>3
<1> QED
  BY <1>4 DEF Min

LEMMA NewMessage ==
    ASSUME NewMessages # {}
    PROVE  /\ Min(NewMessages) \in 1..Len(msgs)
           /\ msgs[Min(NewMessages)].seq > saving.prev
           /\ msgs[Min(NewMessages)].seq \notin DOMAIN disk.hist
<1>1. NewMessages \subseteq Nat
  BY DEF NewMessages
<1>2. Min(NewMessages) \in NewMessages
  BY <1>1, LeastOf
<1> QED
  BY <1>2 DEF NewMessages

(* The history only grows, and no entry of it ever changes, also when a     *)
(* crash lets a later turn use a number again (AppendHistory, which skips   *)
(* the numbers that have an entry).                                         *)
Immutable == \A s \in DOMAIN disk.hist : s \in DOMAIN disk'.hist /\ disk'.hist[s] = disk.hist[s]

LEMMA HistoryStep == Shapes /\ [Next]_vars => Immutable
<1> SUFFICES ASSUME Shapes, [Next]_vars PROVE Immutable
  OBVIOUS
<1>1. CASE disk' = disk
  BY <1>1 DEF Immutable
<1>2. CASE \/ Cancel \/ UNCHANGED vars \/ PlanFails
           \/ \E route \in {"simple", "planning"} : Route(route)
           \/ \E fresh \in BOOLEAN : StartTurn(fresh)
           \/ \E p \in cfg.plans : GenerateWBS(p)
           \/ SaveFails \/ Crash \/ Orchestrate \/ StartNode \/ ExecuteNode \/ NodeReturns
           \/ OrchestrationSaved \/ Finish
  BY <1>1, <1>2 DEF Cancel, vars, PlanFails, Route, StartTurn, GenerateWBS, SaveFails, Crash,
     Orchestrate, StartNode, ExecuteNode, NodeReturns, OrchestrationSaved, Finish
<1>3. CASE Rounds
  BY <1>1, <1>3, RoundEffect
<1>4. CASE SaveStep
  <2>1. CASE disk'.hist = disk.hist
    BY <2>1 DEF Immutable
  <2>2. CASE AppendHistory
    BY <1>1, <2>2, AppendEffect, NewMessage DEF Immutable
  <2> QED
    BY <1>4, <2>1, <2>2, StageEffect
<1> QED
  BY <1>2, <1>3, <1>4 DEF Next, RunStep, Rounds

(* An entry of the history is never changed or removed by any step of a     *)
(* turn, a save, a crash or a restart (session_store.go, AppendHistory).    *)
THEOREM HistoryIsImmutable == Spec => HistoryImmutable
<1>1. Shapes /\ [Next]_vars => [Immutable]_vars
  BY HistoryStep
<1>2. HistoryImmutable <=> [][Immutable]_vars
  BY PTL DEF HistoryImmutable, Immutable
<1> QED
  BY <1>1, <1>2, ShapesInit, ShapesNext, PTL DEF Spec

-----------------------------------------------------------------------------
(* The plan.                                                                *)

Statuses == {"pending", "running", "completed", "suspended", "failed"}
IsTree(t) == /\ t = [order |-> t.order, deps |-> t.deps, status |-> t.status]
             /\ t.order \in Seq(Steps(t)) /\ t.status \in [Steps(t) -> Statuses]

(* Where the run is, or goes on when the save is done. *)
At == IF pc = "save" THEN saving.then ELSE pc

(* A failed save loses what was begun; a crash does not. *)
Careful == faults.lost = 0
Started == IF Careful THEN DOMAIN ran.begun ELSE {}

(* A tree tells the truth: a completed step has run to its end, and no      *)
(* node that was begun is still to do.                                      *)
Sound(t, done, begun) ==
    /\ IsTree(t)
    /\ \A n \in Steps(t) : t.status[n] = "completed" => n \in done
    /\ \A i \in begun : i \in DOMAIN t.order /\ t.status[t.order[i]] # "pending"

(* Nothing to resume in the session folder. *)
NothingToResume == Missing(disk.meta) \/ IsComplete(disk.meta[1].wbs)

Queued(batch, t, done, begun) ==
    \A i \in batch : i \in DOMAIN t.order /\ i \notin begun /\ t.deps[i] \subseteq done

Chosen(i, t, done, batch) ==
    /\ i \in DOMAIN t.order /\ i \notin batch
    /\ t.status[t.order[i]] # "pending" /\ t.deps[i] \subseteq done

(* The plan in memory and the one on disk are sound, and what is queued or  *)
(* chosen may be executed.                                                  *)
Planned ==
    /\ At \in {"orch", "node", "orchEnds"} => plan.on
    /\ At \in {"route", "plan"} => ~plan.on /\ NothingToResume
    /\ plan.on => /\ Sound(plan.tree, ran.done, Started)
                  /\ Queued(plan.batch, plan.tree, ran.done, Started)
                  /\ At \in {"node", "llm", "tools", "returned"} =>
                       Chosen(plan.node, plan.tree, ran.done, plan.batch)
    /\ NothingToResume \/ Sound(disk.meta[1].wbs, ran.done, Started)
    /\ pc = "save" => saving.wbs = NoTree \/ (plan.on /\ saving.wbs = plan.tree)
    /\ pc = "save" => saving.then \notin {"idle", "route", "plan", "save"}

(* A step is on disk as started before it is executed. *)
Once ==
    Careful =>
        /\ \A n \in DOMAIN ran.begun : ran.begun[n] = 1
        /\ At = "node" => plan.node \notin DOMAIN ran.begun
        /\ pc = "node" => ~Missing(disk.meta) /\ disk.meta[1].wbs = plan.tree
        /\ pc = "save" /\ saving.then = "node" => saving.wbs = plan.tree
        /\ pc = "save" /\ saving.stage \in {"dropContext", "context"} =>
             ~Missing(disk.meta) /\ disk.meta[1].wbs = saving.wbs

NoFaults == faults.crash + faults.lost = 0

(* The status on disk is the outcome of the turn. *)
Recorded ==
    /\ pc # "idle" => "result" \notin sent
    /\ NoFaults =>
        /\ pc = "save" /\ saving.stage \in {"dropContext", "context"} =>
             ~Missing(disk.meta) /\ disk.meta[1].status = saving.status
        /\ pc = "save" /\ (saving.then = "finish" \/ (saving.then = "returned" /\ ~plan.on)) =>
             saving.status = NodeStatus(ret)
        /\ pc = "finish" \/ (pc = "returned" /\ ~plan.on) \/ (pc = "idle" /\ turn > 0) =>
             ~Missing(disk.meta) /\ disk.meta[1].status = NodeStatus(ret)
    /\ OutcomeRecorded

LEMMA NoTreeIsComplete == IsComplete(NoTree)
<1>1. Steps(NoTree) = {}
  BY DEF Steps, NoTree, ToSet
<1> QED
  BY <1>1 DEF IsComplete

LEMMA StatusOfNode ==
    ASSUME NEW r
    PROVE  /\ NodeStatus(r) \in Statuses /\ NodeStatus(r) # "pending"
           /\ NodeStatus(r) = "completed" <=> r = "text"
BY DEF NodeStatus, Statuses

LEMMA FirstNodeIsOne ==
    ASSUME NEW t, IsTree(t), NEW nodes, nodes \subseteq DOMAIN t.order, nodes # {}
    PROVE  FirstNode(nodes) \in nodes
<1>1. nodes \subseteq Nat
  <2>1. DOMAIN t.order = 1..Len(t.order) /\ Len(t.order) \in Nat
    BY DEF IsTree
  <2> QED
    BY <2>1
<1> QED
  BY <1>1, LeastOf DEF FirstNode

LEMMA SoundKept ==
    ASSUME NEW t, NEW done, NEW begun, Sound(t, done, begun),
           NEW done2, done \subseteq done2,
           NEW begun2, \A i \in begun2 : \/ i \in begun
                                         \/ i \in DOMAIN t.order /\ t.status[t.order[i]] # "pending"
    PROVE  Sound(t, done2, begun2)
BY DEF Sound

LEMMA UpdateEffect ==
    ASSUME NEW t, t = [order |-> t.order, deps |-> t.deps, status |-> t.status],
           t.status \in [Steps(t) -> Statuses], NEW i, t.order[i] \in Steps(t),
           NEW s \in Statuses, NEW u, u = UpdateNodeStatus(t, i, s)
    PROVE  /\ u = [order |-> u.order, deps |-> u.deps, status |-> u.status]
           /\ u.order = t.order /\ u.deps = t.deps /\ Steps(u) = Steps(t)
           /\ u.status \in [Steps(t) -> Statuses] /\ u.status[t.order[i]] = s
           /\ \A k \in Steps(t) \ {t.order[i]} : u.status[k] = t.status[k]
<1>1. u = [t EXCEPT !.status[t.order[i]] = s]
  BY DEF UpdateNodeStatus
<1>2. u = [order |-> u.order, deps |-> u.deps, status |-> u.status]
      /\ u.order = t.order /\ u.deps = t.deps /\ u.status = [t.status EXCEPT ![t.order[i]] = s]
  BY <1>1
<1>3. Steps(u) = Steps(t)
  BY <1>2 DEF Steps
<1>4. u.status \in [Steps(t) -> Statuses] /\ u.status[t.order[i]] = s /\ \A k \in Steps(t) \ {t.order[i]} : u.status[k] = t.status[k]
  BY <1>2
<1> QED
  BY <1>2, <1>3, <1>4

LEMMA SoundUpdate ==
    ASSUME NEW t, NEW done, NEW begun, Sound(t, done, begun), NEW i \in DOMAIN t.order,
           NEW s \in Statuses, s # "pending", s = "completed" => t.order[i] \in done,
           NEW u, u = UpdateNodeStatus(t, i, s)
    PROVE  Sound(u, done, begun) /\ u.order = t.order /\ u.deps = t.deps /\ u.status[t.order[i]] = s
<1>1. /\ t = [order |-> t.order, deps |-> t.deps, status |-> t.status]
      /\ t.order \in Seq(Steps(t)) /\ t.status \in [Steps(t) -> Statuses]
  BY DEF Sound, IsTree
<1>2. t.order[i] \in Steps(t)
  BY <1>1
<1>3. /\ u = [order |-> u.order, deps |-> u.deps, status |-> u.status]
      /\ u.order = t.order /\ u.deps = t.deps /\ Steps(u) = Steps(t)
      /\ u.status \in [Steps(t) -> Statuses] /\ u.status[t.order[i]] = s
      /\ \A k \in Steps(t) \ {t.order[i]} : u.status[k] = t.status[k]
  BY <1>1, <1>2, UpdateEffect
<1>4. IsTree(u)
  <2>1. u.order \in Seq(Steps(u))
    BY <1>1, <1>3
  <2>2. u.status \in [Steps(u) -> Statuses]
    BY <1>3
  <2>3. u = [order |-> u.order, deps |-> u.deps, status |-> u.status]
    BY <1>3
  <2> QED
    BY <2>1, <2>2, <2>3 DEF IsTree
<1>5. \A k \in Steps(u) : u.status[k] = "completed" => k \in done
  BY <1>2, <1>3 DEF Sound
<1>6. \A k \in begun : k \in DOMAIN u.order /\ u.status[u.order[k]] # "pending"
  <2>1. TAKE k \in begun
  <2>2. k \in DOMAIN t.order /\ t.status[t.order[k]] # "pending"
    BY DEF Sound
  <2>3. t.order[k] \in Steps(t)
    BY <1>1, <2>2
  <2>4. u.status[t.order[k]] # "pending"
    BY <1>3, <2>2, <2>3
  <2> QED
    BY <1>3, <2>2, <2>4
<1>7. Sound(u, done, begun)
  BY <1>4, <1>5, <1>6 DEF Sound
<1> QED
  BY <1>2, <1>3, <1>7

(* What a turn that begins finds in the folder. *)
LEMMA ResumeEffect ==
    ASSUME NEW fresh, StartTurn(fresh)
    PROVE  /\ pc = "idle" /\ UNCHANGED <<disk, faults, saving>> /\ sent' = {}
           /\ \/ /\ ~NothingToResume /\ pc' = "orch" /\ ran' = ran
                 /\ plan'.tree = disk.meta[1].wbs /\ plan'.on = TRUE /\ plan'.batch = {}
              \/ /\ NothingToResume /\ pc' = "route" /\ plan'.on = FALSE
                 /\ ran'.begun = <<>> /\ ran'.done = {}
<1> DEFINE tree == LoadWBSFromSession
<1>1. /\ Missing(disk.meta) => tree = NoTree
      /\ ~Missing(disk.meta) => tree = disk.meta[1].wbs
  <2>1. CASE Missing(disk.meta)
    BY <2>1 DEF LoadWBSFromSession, Load, Missing
  <2>2. CASE ~Missing(disk.meta)
    <3> DEFINE state == <<[wbs |-> disk.meta[1].wbs,
                   messages |-> IF Missing(disk.context) THEN <<>> ELSE disk.context[1]]>>
    <3>1. Load(disk) = state
      BY <2>2 DEF Load
    <3>2. state[1].wbs = disk.meta[1].wbs /\ state # NoFile
      BY DEF NoFile
    <3> HIDE DEF state
    <3> QED
      BY <2>2, <3>1, <3>2 DEF LoadWBSFromSession, Missing
  <2> QED
    BY <2>1, <2>2
<1>2. (tree # NoTree /\ ~IsComplete(tree)) <=> ~NothingToResume
  BY <1>1, NoTreeIsComplete DEF NothingToResume
<1>3. pc = "idle" /\ UNCHANGED <<disk, faults, saving>> /\ sent' = {}
  BY DEF StartTurn
<1>4. /\ tree # NoTree /\ ~IsComplete(tree) =>
           pc' = "orch" /\ plan' = [NoPlan EXCEPT !.tree = tree, !.on = TRUE] /\ ran' = ran
      /\ tree = NoTree \/ IsComplete(tree) =>
           pc' = "route" /\ plan' = NoPlan /\ ran' = [begun |-> <<>>, done |-> {}]
  BY DEF StartTurn
<1> HIDE DEF tree
<1>5. CASE ~NothingToResume
  <2>1. plan' = [tree |-> tree, batch |-> {}, node |-> 0, on |-> TRUE] /\ pc' = "orch" /\ ran' = ran
    BY <1>2, <1>4, <1>5 DEF NoPlan
  <2> QED
    BY <1>1, <1>3, <1>5, <2>1 DEF NothingToResume
<1>6. CASE NothingToResume
  <2>1. pc' = "route" /\ plan' = NoPlan /\ ran' = [begun |-> <<>>, done |-> {}]
    BY <1>2, <1>4, <1>6
  <2>2. ran'.begun = <<>> /\ ran'.done = {}
    BY <2>1
  <2>3. plan'.on = FALSE
    BY <2>1 DEF NoPlan
  <2> QED
    BY <1>3, <1>6, <2>1, <2>2, <2>3
<1> QED
  BY <1>5, <1>6

LEMMA GenerateEffect ==
    ASSUME NEW p \in cfg.plans, cfg \in Scenarios, GenerateWBS(p)
    PROVE  /\ pc = "plan" /\ pc' = "orch" /\ UNCHANGED <<disk, faults, saving, sent>>
           /\ plan'.on = TRUE /\ plan'.batch = {} /\ ran'.begun = <<>> /\ ran'.done = {}
           /\ Sound(plan'.tree, {}, {})
<1> DEFINE status == [n \in Steps(p) |-> "pending"]
           tree == [order |-> p.order, deps |-> p.deps, status |-> status]
<1>1. /\ pc = "plan" /\ pc' = "orch" /\ UNCHANGED <<disk, faults, saving, sent>>
      /\ plan' = [NoPlan EXCEPT !.on = TRUE, !.tree = tree] /\ ran' = [begun |-> <<>>, done |-> {}]
  BY DEF GenerateWBS
<1>2. p.order \in Seq(Steps(p))
  BY WayfinderAssumption
<1>3. status \in [Steps(p) -> Statuses] /\ \A n \in Steps(p) : status[n] = "pending"
  BY DEF Statuses
<1> HIDE DEF status
<1>4. tree = [order |-> tree.order, deps |-> tree.deps, status |-> tree.status]
      /\ tree.order = p.order /\ tree.status = status
  OBVIOUS
<1> HIDE DEF tree
<1>5. Steps(tree) = Steps(p)
  BY <1>4 DEF Steps
<1>6. Sound(tree, {}, {})
  BY <1>2, <1>3, <1>4, <1>5 DEF Sound, IsTree
<1>7. plan' = [tree |-> tree, batch |-> {}, node |-> 0, on |-> TRUE]
  BY <1>1 DEF NoPlan
<1>8. plan'.tree = tree /\ plan'.batch = {} /\ plan'.on = TRUE
  BY <1>7
<1>9. ran'.begun = <<>> /\ ran'.done = {}
  BY <1>1
<1> QED
  BY <1>1, <1>6, <1>8, <1>9

(* The step that is begun next. *)
LEMMA StartEffect ==
    ASSUME Shapes, StartNode
    PROVE  /\ pc = "orch" /\ UNCHANGED <<disk, faults, ran, sent>> /\ plan.batch # {}
           /\ \/ plan' = plan /\ saving' = saving /\ pc' = "orchEnds"
              \/ /\ plan'.tree = UpdateNodeStatus(plan.tree, plan'.node, "running")
                 /\ plan'.node = FirstNode(plan.batch)
                 /\ plan'.batch = plan.batch \ {plan'.node} /\ plan'.on = plan.on
                 /\ Save("active", plan'.tree, "node")
<1> DEFINE n == FirstNode(plan.batch)
           tree == UpdateNodeStatus(plan.tree, n, "running")
<1>1. /\ pc = "orch" /\ UNCHANGED <<disk, faults, ran, sent>> /\ plan.batch # {}
      /\ \/ OrchestrationEnds("error") /\ saving' = saving
         \/ /\ plan' = [plan EXCEPT !.tree = tree, !.batch = @ \ {n}, !.node = n]
            /\ Save("active", tree, "node")
  BY DEF StartNode, PersistWBS
<1>2. tree = UpdateNodeStatus(plan.tree, n, "running") /\ n = FirstNode(plan.batch)
  OBVIOUS
<1> HIDE DEF n, tree
<1>3. CASE OrchestrationEnds("error") /\ saving' = saving
  BY <1>1, <1>3 DEF OrchestrationEnds
<1>4. CASE /\ plan' = [plan EXCEPT !.tree = tree, !.batch = @ \ {n}, !.node = n]
           /\ Save("active", tree, "node")
  <2>1. plan'.tree = tree /\ plan'.batch = plan.batch \ {n} /\ plan'.node = n /\ plan'.on = plan.on
    BY <1>4 DEF Shapes
  <2> QED
    BY <1>1, <1>2, <1>4, <2>1
<1> QED
  BY <1>1, <1>3, <1>4

LEMMA ExecuteEffect ==
    ASSUME Shapes, ExecuteNode
    PROVE  /\ pc = "node" /\ pc' \in {"llm", "returned"}
           /\ UNCHANGED <<disk, faults, plan, saving>>
           /\ sent' = sent \/ sent' = sent \cup {"asked"}
           /\ ran'.done = ran.done /\ DOMAIN ran'.begun = DOMAIN ran.begun \cup {plan.node}
           /\ \A n \in DOMAIN ran.begun : n # plan.node => ran'.begun[n] = ran.begun[n] + 0
           /\ plan.node \notin DOMAIN ran.begun => ran'.begun[plan.node] = 1
<1> DEFINE b == [n \in DOMAIN ran.begun \cup {plan.node} |-> Begun(n) + IF n = plan.node THEN 1 ELSE 0]
<1>1. pc = "node" /\ ran' = [ran EXCEPT !.begun = b] /\ UNCHANGED <<disk, faults, plan, saving>>
  BY DEF ExecuteNode
<1>2. pc' \in {"llm", "returned"} /\ (sent' = sent \/ sent' = sent \cup {"asked"})
  BY DEF ExecuteNode, RunChild, RunSimple
<1>3. DOMAIN b = DOMAIN ran.begun \cup {plan.node}
      /\ \A n \in DOMAIN b : b[n] = Begun(n) + IF n = plan.node THEN 1 ELSE 0
  OBVIOUS
<1> HIDE DEF b
<1>4. ran'.begun = b /\ ran'.done = ran.done
  BY <1>1 DEF Shapes
<1>5. \A n \in DOMAIN ran.begun : n # plan.node => b[n] = ran.begun[n] + 0
  BY <1>3 DEF Begun
<1>6. plan.node \notin DOMAIN ran.begun => b[plan.node] = 1
  BY <1>3 DEF Begun
<1> QED
  BY <1>1, <1>2, <1>3, <1>4, <1>5, <1>6

LEMMA ReturnEffect ==
    ASSUME Shapes, NodeReturns
    PROVE  /\ pc = "returned" /\ plan.on /\ UNCHANGED <<disk, faults, sent, ret>>
           /\ plan'.tree = UpdateNodeStatus(plan.tree, plan.node, NodeStatus(ret))
           /\ plan'.batch = plan.batch /\ plan'.node = plan.node /\ plan'.on = plan.on
           /\ \E then \in {"orch", "orchEnds"} : Save("active", plan'.tree, then)
           /\ ran'.begun = ran.begun /\ ran.done \subseteq ran'.done
           /\ ret = "text" => plan.tree.order[plan.node] \in ran'.done
<1> DEFINE tree == UpdateNodeStatus(plan.tree, plan.node, NodeStatus(ret))
<1>1. /\ pc = "returned" /\ plan.on /\ UNCHANGED <<disk, faults, sent, ret>>
      /\ plan' = [plan EXCEPT !.tree = tree]
      /\ \E then \in {"orch", "orchEnds"} : Save("active", tree, then)
  BY DEF NodeReturns, PersistWBS
<1>2. ran' = IF ret = "text" THEN [ran EXCEPT !.done = @ \cup {plan.tree.order[plan.node]}] ELSE ran
  BY DEF NodeReturns
<1>3. tree = UpdateNodeStatus(plan.tree, plan.node, NodeStatus(ret))
  OBVIOUS
<1> HIDE DEF tree
<1>4. plan'.tree = tree /\ plan'.batch = plan.batch /\ plan'.node = plan.node /\ plan'.on = plan.on
  BY <1>1 DEF Shapes
<1>5. /\ ran'.begun = ran.begun /\ ran.done \subseteq ran'.done
      /\ ret = "text" => plan.tree.order[plan.node] \in ran'.done
  BY <1>2 DEF Shapes
<1> QED
  BY <1>1, <1>3, <1>4, <1>5

LEMMA ConfiguredNext == cfg \in Scenarios /\ [Next]_vars => cfg' \in Scenarios
<1> SUFFICES ASSUME cfg \in Scenarios, [Next]_vars PROVE cfg' \in Scenarios
  OBVIOUS
<1>1. CASE \/ Cancel \/ UNCHANGED vars \/ PlanFails
           \/ \E route \in {"simple", "planning"} : Route(route)
           \/ \E fresh \in BOOLEAN : StartTurn(fresh)
           \/ \E p \in cfg.plans : GenerateWBS(p)
           \/ SaveStep \/ SaveFails \/ Crash \/ Orchestrate \/ StartNode \/ ExecuteNode \/ NodeReturns
           \/ OrchestrationSaved \/ Finish
  BY <1>1 DEF Cancel, vars, PlanFails, Route, StartTurn, GenerateWBS, SaveStep, SaveFails, Crash,
     Orchestrate, StartNode, ExecuteNode, NodeReturns, OrchestrationSaved, Finish
<1>2. CASE Rounds
  BY <1>2, RoundEffect
<1> QED
  BY <1>1, <1>2 DEF Next, RunStep, Rounds

(* A step that leaves the plan and what was begun as they are. *)
PlanAlone ==
    /\ plan' = plan /\ ran' = ran
    /\ faults' = faults \/ ~Careful'
    /\ At' \in {"orch", "node", "orchEnds"} => plan.on
    /\ At' \in {"route", "plan"} => At \in {"route", "plan"} /\ disk' = disk
    /\ plan.on /\ At' \in {"node", "llm", "tools", "returned"} => At \in {"node", "llm", "tools", "returned"}
    /\ \/ disk'.meta = disk.meta \/ Missing(disk'.meta) \/ disk'.meta[1].wbs = NoTree
       \/ plan.on /\ disk'.meta[1].wbs = plan.tree
    /\ pc' = "save" => saving'.wbs = NoTree \/ (plan.on /\ saving'.wbs = plan.tree)
    /\ pc' = "save" => saving'.then \notin {"idle", "route", "plan", "save"}

LEMMA PlanFrame == Planned /\ PlanAlone => Planned'
<1> SUFFICES ASSUME Planned, PlanAlone PROVE Planned'
  OBVIOUS
<1> USE DEF PlanAlone
<1>1. Started' \subseteq Started
  BY DEF Started, Careful
<1>2. plan.on => Sound(plan.tree, ran.done, Started')
  BY <1>1, SoundKept DEF Planned
<1>3. NothingToResume' \/ Sound(disk'.meta[1].wbs, ran.done, Started')
  <2>1. CASE disk'.meta = disk.meta
    BY <1>1, <2>1, SoundKept DEF Planned, NothingToResume
  <2>2. CASE Missing(disk'.meta) \/ disk'.meta[1].wbs = NoTree
    BY <2>2, NoTreeIsComplete DEF NothingToResume
  <2>3. CASE plan.on /\ disk'.meta[1].wbs = plan.tree
    BY <1>2, <2>3
  <2> QED
    BY <2>1, <2>2, <2>3
<1>4. At' \in {"orch", "node", "orchEnds"} => plan'.on
  OBVIOUS
<1>5. At' \in {"route", "plan"} => ~plan'.on /\ NothingToResume'
  BY DEF Planned, NothingToResume
<1>6. plan'.on => Queued(plan'.batch, plan'.tree, ran'.done, Started')
                  /\ (At' \in {"node", "llm", "tools", "returned"} =>
                        Chosen(plan'.node, plan'.tree, ran'.done, plan'.batch))
  BY <1>1 DEF Planned, Queued
<1>7. pc' = "save" => /\ saving'.wbs = NoTree \/ (plan'.on /\ saving'.wbs = plan'.tree)
                      /\ saving'.then \notin {"idle", "route", "plan", "save"}
  OBVIOUS
<1>8. plan'.on => Sound(plan'.tree, ran'.done, Started')
  BY <1>2
<1>9. NothingToResume' \/ Sound(disk'.meta[1].wbs, ran'.done, Started')
  BY <1>3
<1> QED
  BY <1>4, <1>5, <1>6, <1>7, <1>8, <1>9 DEF Planned

(* Steps that leave the plan alone: what they do to the place of the run    *)
(* and to the folder.                                                       *)
LEMMA PlannedFramed ==
    ASSUME Shapes, Planned,
           \/ Cancel \/ UNCHANGED vars \/ PlanFails \/ Rounds \/ SaveStep \/ SaveFails
           \/ \E route \in {"simple", "planning"} : Route(route)
           \/ OrchestrationSaved
    PROVE  PlanAlone
<1>1. CASE Cancel \/ UNCHANGED vars
  <2>1. UNCHANGED <<plan, ran, faults, disk, saving, pc>>
    BY <1>1 DEF Cancel, vars, runVars
  <2>2. At' = At
    BY <2>1 DEF At
  <2> QED
    BY <2>1, <2>2 DEF PlanAlone, Planned
<1>2. CASE PlanFails \/ \E route \in {"simple", "planning"} : Route(route)
  <2>1. /\ pc \in {"route", "plan"} /\ pc' \in {"plan", "llm"}
        /\ UNCHANGED <<plan, ran, faults, disk, saving>>
    BY <1>2 DEF PlanFails, Route, RunSimple
  <2>2. At = pc /\ At' = pc'
    BY <2>1 DEF At
  <2>3. ~plan.on
    BY <2>1, <2>2 DEF Planned
  <2> QED
    BY <2>1, <2>2, <2>3 DEF PlanAlone
<1>3. CASE Rounds
  <2>1. pc \in {"llm", "tools"} /\ UNCHANGED <<plan, ran, faults, disk>>
    BY <1>3, RoundEffect
  <2>2. At = pc
    BY <2>1 DEF At
  <2>3. CASE pc' \in {"llm", "tools"}
    <3>1. At' = pc'
      BY <2>3 DEF At
    <3> QED
      BY <2>1, <2>2, <2>3, <3>1 DEF PlanAlone
  <2>4. CASE \E status, then : Save(status, NoTree, then) /\ then \in {"llm", "returned"}
    <3>1. pc' = "save" /\ saving'.wbs = NoTree /\ saving'.then \in {"llm", "returned"}
      BY <2>4, SaveEffect
    <3>2. At' \in {"llm", "returned"}
      BY <3>1 DEF At
    <3> QED
      BY <2>1, <2>2, <3>1, <3>2 DEF PlanAlone
  <2> QED
    BY <1>3, <2>3, <2>4, RoundEffect
<1>4. CASE SaveStep
  <2>1. pc = "save" /\ UNCHANGED <<plan, ran, faults>>
    BY <1>4, StageEffect DEF runVars
  <2>2. \/ pc' = "save" /\ saving'.then = saving.then /\ saving'.wbs = saving.wbs
        \/ saving'.then = "" /\ saving'.wbs = NoTree /\ pc' = saving.then
    <3>1. \/ pc' = "save" /\ saving'.then = saving.then /\ saving'.wbs = saving.wbs
          \/ saving' = NoSave /\ pc' = saving.then
      BY <1>4, StageEffect, AppendEffect
    <3>2. NoSave.then = "" /\ NoSave.wbs = NoTree
      BY DEF NoSave
    <3> QED
      BY <3>1, <3>2
  <2>3. disk'.meta = disk.meta \/ Missing(disk'.meta) \/ disk'.meta[1].wbs = saving.wbs
    BY <1>4, StageEffect, AppendEffect
  <2>4. pc' = "save" => /\ saving'.wbs = saving.wbs \/ saving'.wbs = NoTree
                        /\ saving'.then = saving.then \/ saving'.then = ""
    BY <2>2
  <2>5. saving.wbs = NoTree \/ (plan.on /\ saving.wbs = plan.tree)
    BY <2>1 DEF Planned
  <2>6. At' = At \/ At' = ""
    BY <2>1, <2>2 DEF At
  <2>7. At \notin {"route", "plan"}
    BY <2>1 DEF At, Planned
  <2> QED
    BY <2>1, <2>3, <2>4, <2>5, <2>6, <2>7 DEF PlanAlone, Planned
<1>5. CASE SaveFails
  <2>1. /\ pc = "save" /\ pc' = saving.then /\ saving' = NoSave /\ UNCHANGED <<plan, ran, disk>>
        /\ faults' = [faults EXCEPT !.lost = @ + 1]
    BY <1>5 DEF SaveFails, runVars
  <2>2. ~Careful'
    BY <2>1 DEF Careful, Shapes
  <2>3. At' = At \/ At' = ""
    BY <2>1 DEF At, NoSave
  <2>4. pc' = "save" => saving'.wbs = NoTree /\ saving'.then = ""
    BY <2>1 DEF NoSave
  <2> QED
    BY <2>1, <2>2, <2>3, <2>4 DEF PlanAlone, Planned
<1>6. CASE OrchestrationSaved
  <2>1. /\ Save(NodeStatus(ret), NoTree, "finish") /\ UNCHANGED <<disk, faults, plan, ran>>
    BY <1>6 DEF OrchestrationSaved, SaveSession, runVars
  <2>2. pc' = "save" /\ saving'.wbs = NoTree /\ saving'.then = "finish"
    BY <2>1, SaveEffect
  <2>3. At' = "finish"
    BY <2>2 DEF At
  <2> QED
    BY <2>1, <2>2, <2>3 DEF PlanAlone
<1> QED
  BY <1>1, <1>2, <1>3, <1>4, <1>5, <1>6

LEMMA PlannedNext ==
    ASSUME Shapes, cfg \in Scenarios, Planned, Once, [Next]_vars
    PROVE  Planned'
<1>1. CASE \/ Cancel \/ UNCHANGED vars \/ PlanFails \/ Rounds \/ SaveStep \/ SaveFails
           \/ \E route \in {"simple", "planning"} : Route(route)
           \/ OrchestrationSaved
  BY <1>1, PlannedFramed, PlanFrame
<1>2. ASSUME NEW fresh, StartTurn(fresh) PROVE Planned'
  <2>1. pc' \in {"orch", "route"} /\ At' = pc' /\ UNCHANGED <<disk, faults, saving>>
    BY <1>2, ResumeEffect DEF At
  <2>2. NothingToResume' = NothingToResume
    BY <2>1 DEF NothingToResume
  <2>3. CASE ~NothingToResume
    <3>1. /\ pc' = "orch" /\ ran' = ran
          /\ plan'.tree = disk.meta[1].wbs /\ plan'.on = TRUE /\ plan'.batch = {}
      BY <1>2, <2>3, ResumeEffect
    <3>2. Started' = Started
      BY <2>1, <3>1 DEF Started, Careful
    <3>3. Sound(plan'.tree, ran'.done, Started') /\ Sound(disk'.meta[1].wbs, ran'.done, Started')
      BY <2>1, <2>3, <3>1, <3>2 DEF Planned
    <3>4. Queued(plan'.batch, plan'.tree, ran'.done, Started')
      BY <3>1 DEF Queued
    <3> QED
      BY <2>1, <3>1, <3>3, <3>4 DEF Planned
  <2>4. CASE NothingToResume
    <3>1. pc' = "route" /\ plan'.on = FALSE
      BY <1>2, <2>4, ResumeEffect
    <3> QED
      BY <2>1, <2>2, <2>4, <3>1 DEF Planned
  <2> QED
    BY <2>3, <2>4
<1>3. ASSUME NEW p \in cfg.plans, GenerateWBS(p) PROVE Planned'
  <2>1. /\ pc = "plan" /\ pc' = "orch" /\ UNCHANGED <<disk, faults, saving>>
        /\ plan'.on = TRUE /\ plan'.batch = {} /\ ran'.begun = <<>> /\ ran'.done = {}
        /\ Sound(plan'.tree, {}, {})
    BY <1>3, GenerateEffect
  <2>2. At' = "orch" /\ At = "plan"
    BY <2>1 DEF At
  <2>3. NothingToResume'
    BY <2>1, <2>2 DEF Planned, NothingToResume
  <2>4. Started' = {}
    BY <2>1 DEF Started
  <2>5. Queued(plan'.batch, plan'.tree, ran'.done, Started')
    BY <2>1 DEF Queued
  <2>6. Sound(plan'.tree, ran'.done, Started')
    BY <2>1, <2>4
  <2> QED
    BY <2>1, <2>2, <2>3, <2>5, <2>6 DEF Planned
<1>4. CASE Crash \/ Finish
  <2>1. pc' = "idle" /\ plan' = NoPlan /\ UNCHANGED <<disk, ran>> /\ (faults' = faults \/ faults' = [faults EXCEPT !.crash = @ + 1])
    BY <1>4 DEF Crash, Finish
  <2>2. faults'.lost = faults.lost
    BY <2>1 DEF Shapes
  <2>3. At' = "idle" /\ ~plan'.on /\ Started' = Started /\ NothingToResume' = NothingToResume
    BY <2>1, <2>2 DEF At, NoPlan, Started, Careful, NothingToResume
  <2>4. NothingToResume' \/ Sound(disk'.meta[1].wbs, ran'.done, Started')
    BY <2>1, <2>3 DEF Planned
  <2> QED
    BY <2>1, <2>3, <2>4 DEF Planned
<1>5. CASE Orchestrate
  <2>1. /\ pc = "orch" /\ UNCHANGED <<disk, faults, saving, ran>>
        /\ \/ OrchestrationEnds("text") \/ OrchestrationEnds("error")
           \/ plan' = [plan EXCEPT !.batch = NextExecutableNodes(plan.tree)] /\ pc' = pc
    BY <1>5 DEF Orchestrate
  <2>2. At = "orch" /\ plan.on
    BY <2>1 DEF At, Planned
  <2>3. CASE OrchestrationEnds("text") \/ OrchestrationEnds("error")
    <3>1. pc' = "orchEnds" /\ plan' = plan
      BY <2>3 DEF OrchestrationEnds
    <3>2. At' = "orchEnds"
      BY <3>1 DEF At
    <3>3. PlanAlone
      BY <2>1, <2>2, <3>1, <3>2 DEF PlanAlone
    <3> QED
      BY <3>3, PlanFrame
  <2>4. CASE plan' = [plan EXCEPT !.batch = NextExecutableNodes(plan.tree)] /\ pc' = pc
    <3>1. plan'.batch = NextExecutableNodes(plan.tree) /\ plan'.tree = plan.tree /\ plan'.on = plan.on
      BY <2>4 DEF Shapes
    <3>2. Sound(plan.tree, ran.done, Started)
      BY <2>2 DEF Planned
    <3>3. Queued(NextExecutableNodes(plan.tree), plan.tree, ran.done, Started)
      BY <3>2 DEF Queued, NextExecutableNodes, Sound
    <3>4. At' = "orch" /\ pc' = "orch"
      BY <2>1, <2>4 DEF At
    <3>5. Started' = Started /\ NothingToResume' = NothingToResume
      BY <2>1 DEF Started, Careful, NothingToResume
    <3>6. Sound(plan'.tree, ran'.done, Started') /\ Queued(plan'.batch, plan'.tree, ran'.done, Started')
      BY <2>1, <3>1, <3>2, <3>3, <3>5
    <3>7. NothingToResume' \/ Sound(disk'.meta[1].wbs, ran'.done, Started')
      BY <2>1, <3>5 DEF Planned
    <3> QED
      BY <2>2, <3>1, <3>4, <3>6, <3>7 DEF Planned
  <2> QED
    BY <2>1, <2>3, <2>4
<1>6. CASE StartNode
  <2>1. /\ pc = "orch" /\ UNCHANGED <<disk, faults, ran>> /\ plan.batch # {}
        /\ \/ plan' = plan /\ saving' = saving /\ pc' = "orchEnds"
           \/ /\ plan'.tree = UpdateNodeStatus(plan.tree, plan'.node, "running")
              /\ plan'.node = FirstNode(plan.batch)
              /\ plan'.batch = plan.batch \ {plan'.node} /\ plan'.on = plan.on
              /\ Save("active", plan'.tree, "node")
    BY <1>6, StartEffect
  <2>2. At = "orch" /\ plan.on
    BY <2>1 DEF At, Planned
  <2>3. Started' = Started /\ NothingToResume' = NothingToResume
    BY <2>1 DEF Started, Careful, NothingToResume
  <2>4. CASE plan' = plan /\ saving' = saving /\ pc' = "orchEnds"
    <3>1. At' = "orchEnds"
      BY <2>4 DEF At
    <3>2. PlanAlone
      BY <2>1, <2>2, <2>4, <3>1 DEF PlanAlone
    <3> QED
      BY <3>2, PlanFrame
  <2>5. CASE /\ plan'.tree = UpdateNodeStatus(plan.tree, plan'.node, "running")
             /\ plan'.node = FirstNode(plan.batch)
             /\ plan'.batch = plan.batch \ {plan'.node} /\ plan'.on = plan.on
             /\ Save("active", plan'.tree, "node")
    <3>1. Sound(plan.tree, ran.done, Started) /\ Queued(plan.batch, plan.tree, ran.done, Started)
      BY <2>2 DEF Planned
    <3>2. plan'.node \in plan.batch
      <4>1. plan.batch \subseteq DOMAIN plan.tree.order /\ IsTree(plan.tree)
        BY <3>1 DEF Sound, Queued
      <4> QED
        BY <2>1, <2>5, <4>1, FirstNodeIsOne
    <3>3. plan'.node \in DOMAIN plan.tree.order /\ plan.tree.deps[plan'.node] \subseteq ran.done
      BY <3>1, <3>2 DEF Queued
    <3>4. /\ Sound(plan'.tree, ran.done, Started) /\ plan'.tree.order = plan.tree.order
          /\ plan'.tree.deps = plan.tree.deps /\ plan'.tree.status[plan.tree.order[plan'.node]] = "running"
      <4>1. "running" \in Statuses /\ "running" # "pending" /\ "running" # "completed"
        BY DEF Statuses
      <4>2. plan'.tree = UpdateNodeStatus(plan.tree, plan'.node, "running")
        BY <2>5
      <4> QED
        BY <3>1, <3>3, <4>1, <4>2, SoundUpdate
    <3>5. /\ Queued(plan'.batch, plan'.tree, ran.done, Started)
          /\ Chosen(plan'.node, plan'.tree, ran.done, plan'.batch)
      BY <2>5, <3>1, <3>3, <3>4 DEF Queued, Chosen
    <3>6. /\ Sound(plan'.tree, ran'.done, Started') /\ Queued(plan'.batch, plan'.tree, ran'.done, Started')
          /\ Chosen(plan'.node, plan'.tree, ran'.done, plan'.batch)
      BY <2>1, <2>3, <3>4, <3>5
    <3>7. pc' = "save" /\ saving'.wbs = plan'.tree /\ saving'.then = "node"
      BY <2>5, SaveEffect
    <3>8. At' = "node"
      BY <3>7 DEF At
    <3>9. NothingToResume' \/ Sound(disk'.meta[1].wbs, ran'.done, Started')
      BY <2>1, <2>3 DEF Planned
    <3> QED
      BY <2>2, <2>5, <3>6, <3>7, <3>8, <3>9 DEF Planned
  <2> QED
    BY <2>1, <2>4, <2>5
<1>7. CASE ExecuteNode
  <2>1. /\ pc = "node" /\ pc' \in {"llm", "returned"} /\ UNCHANGED <<disk, faults, plan, saving>>
        /\ ran'.done = ran.done /\ DOMAIN ran'.begun = DOMAIN ran.begun \cup {plan.node}
    BY <1>7, ExecuteEffect
  <2>2. At = "node" /\ At' = pc' /\ plan.on
    BY <2>1 DEF At, Planned
  <2>3. /\ Sound(plan.tree, ran.done, Started) /\ Queued(plan.batch, plan.tree, ran.done, Started)
        /\ Chosen(plan.node, plan.tree, ran.done, plan.batch)
    BY <2>2 DEF Planned
  <2>4. Started' \subseteq Started \cup {plan.node}
    BY <2>1 DEF Started, Careful
  <2>5. Sound(plan.tree, ran.done, Started')
    BY <2>3, <2>4, SoundKept DEF Chosen
  <2>6. NothingToResume' \/ Sound(disk'.meta[1].wbs, ran'.done, Started')
    <3>1. CASE Careful
      <4>1. ~Missing(disk.meta) /\ disk.meta[1].wbs = plan.tree
        BY <2>1, <3>1 DEF Once
      <4> QED
        BY <2>1, <2>5, <4>1
    <3>2. CASE ~Careful
      <4>1. Started' = Started /\ NothingToResume' = NothingToResume
        BY <2>1, <3>2 DEF Started, Careful, NothingToResume
      <4> QED
        BY <2>1, <4>1 DEF Planned
    <3> QED
      BY <3>1, <3>2
  <2>7. /\ Sound(plan'.tree, ran'.done, Started') /\ Queued(plan'.batch, plan'.tree, ran'.done, Started')
        /\ Chosen(plan'.node, plan'.tree, ran'.done, plan'.batch) /\ plan'.on
    BY <2>1, <2>2, <2>3, <2>4, <2>5 DEF Queued, Chosen
  <2> QED
    BY <2>1, <2>2, <2>6, <2>7 DEF Planned
<1>8. CASE NodeReturns
  <2>1. /\ pc = "returned" /\ plan.on /\ UNCHANGED <<disk, faults>>
        /\ plan'.tree = UpdateNodeStatus(plan.tree, plan.node, NodeStatus(ret))
        /\ plan'.batch = plan.batch /\ plan'.on = plan.on
        /\ ran'.begun = ran.begun /\ ran.done \subseteq ran'.done
        /\ ret = "text" => plan.tree.order[plan.node] \in ran'.done
    BY <1>8, ReturnEffect
  <2>2. pc' = "save" /\ saving'.wbs = plan'.tree /\ saving'.then \in {"orch", "orchEnds"}
    BY <1>8, ReturnEffect, SaveEffect
  <2>3. At = "returned" /\ At' \in {"orch", "orchEnds"}
    BY <2>1, <2>2 DEF At
  <2>4. /\ Sound(plan.tree, ran.done, Started) /\ Queued(plan.batch, plan.tree, ran.done, Started)
        /\ Chosen(plan.node, plan.tree, ran.done, plan.batch)
    BY <2>1, <2>3 DEF Planned
  <2>5. Started' = Started /\ NothingToResume' = NothingToResume
    BY <2>1 DEF Started, Careful, NothingToResume
  <2>6. Sound(plan.tree, ran'.done, Started)
    BY <2>1, <2>4, SoundKept
  <2>7. /\ Sound(plan'.tree, ran'.done, Started) /\ plan'.tree.order = plan.tree.order
        /\ plan'.tree.deps = plan.tree.deps
    <3>1. PICK s \in Statuses : s = NodeStatus(ret) /\ s # "pending" /\ (s = "completed" <=> ret = "text")
      BY StatusOfNode
    <3>2. /\ plan'.tree = UpdateNodeStatus(plan.tree, plan.node, s) /\ plan.node \in DOMAIN plan.tree.order
          /\ s = "completed" => plan.tree.order[plan.node] \in ran'.done
      BY <2>1, <2>4, <3>1 DEF Chosen
    <3> QED
      BY <2>6, <3>1, <3>2, SoundUpdate
  <2>8. Queued(plan'.batch, plan'.tree, ran'.done, Started')
    BY <2>1, <2>4, <2>5, <2>7 DEF Queued
  <2>9. NothingToResume' \/ Sound(disk'.meta[1].wbs, ran'.done, Started')
    <3>1. CASE ~NothingToResume
      <4>1. Sound(disk.meta[1].wbs, ran'.done, Started)
        BY <2>1, <3>1, SoundKept DEF Planned
      <4> QED
        BY <2>1, <2>5, <4>1
    <3> QED
      BY <2>5, <3>1
  <2>10. Sound(plan'.tree, ran'.done, Started')
    BY <2>5, <2>7
  <2> QED
    BY <2>1, <2>2, <2>3, <2>8, <2>9, <2>10 DEF Planned
<1> QED
  BY <1>1, <1>2, <1>3, <1>4, <1>5, <1>6, <1>7, <1>8 DEF Next, RunStep, Rounds

(* A save that a round or the end of an orchestration begins. *)
LEMMA OnceOfSave ==
    ASSUME Once, UNCHANGED <<plan, ran, faults, disk>>, NEW status, NEW then,
           Save(status, NoTree, then), then # "node"
    PROVE  Once'
<1>1. pc' = "save" /\ saving'.stage = "history" /\ saving'.then = then
  BY SaveEffect
<1>2. At' # "node"
  BY <1>1 DEF At
<1> QED
  BY <1>1, <1>2 DEF Once, Careful

LEMMA OnceNext ==
    ASSUME Shapes, Planned, Once, [Next]_vars
    PROVE  Once'
<1>1. CASE Cancel \/ UNCHANGED vars
  <2>1. UNCHANGED <<plan, ran, faults, disk, saving, pc>>
    BY <1>1 DEF Cancel, vars, runVars
  <2> QED
    BY <2>1 DEF Once, Careful, At
<1>2. CASE PlanFails \/ \E route \in {"simple", "planning"} : Route(route)
  <2>1. /\ pc' \in {"plan", "llm"} /\ UNCHANGED <<plan, ran, faults, disk, saving>>
    BY <1>2 DEF PlanFails, Route, RunSimple
  <2> QED
    BY <2>1 DEF Once, Careful, At
<1>3. CASE Rounds
  <2>1. UNCHANGED <<plan, ran, faults, disk>>
    BY <1>3, RoundEffect
  <2>2. CASE pc' \in {"llm", "tools"}
    BY <2>1, <2>2 DEF Once, Careful, At
  <2>3. CASE \E status, then : Save(status, NoTree, then) /\ then \in {"llm", "returned"}
    BY <2>1, <2>3, OnceOfSave
  <2> QED
    BY <1>3, <2>2, <2>3, RoundEffect
<1>4. CASE SaveStep
  <2>1. pc = "save" /\ UNCHANGED <<plan, ran, faults>>
    BY <1>4, StageEffect DEF runVars
  <2>2. CASE saving.stage # "context"
    <3>1. pc' = "save" /\ saving'.wbs = saving.wbs /\ saving'.then = saving.then
      BY <1>4, <2>2, StageEffect
    <3>2. saving'.stage \in {"dropContext", "context"} =>
             \/ saving.stage = "meta" /\ ~Missing(disk'.meta) /\ disk'.meta[1].wbs = saving.wbs
             \/ saving.stage = "dropContext" /\ disk'.meta = disk.meta
      BY <1>4, <2>2, StageEffect, AppendEffect
    <3> QED
      BY <2>1, <3>1, <3>2 DEF Once, Careful, At
  <2>3. CASE saving.stage = "context"
    <3>1. saving' = NoSave /\ pc' = saving.then /\ disk'.meta = disk.meta
      BY <1>4, <2>3, StageEffect, AppendEffect
    <3>2. saving'.stage = "none" /\ saving'.then = ""
      BY <3>1 DEF NoSave
    <3>3. At' = saving.then \/ At' = ""
      BY <3>1, <3>2 DEF At
    <3>4. At = saving.then
      BY <2>1 DEF At
    <3> QED
      BY <2>1, <2>3, <3>1, <3>2, <3>3, <3>4 DEF Once, Careful
  <2> QED
    BY <2>2, <2>3
<1>5. CASE SaveFails
  <2>1. faults' = [faults EXCEPT !.lost = @ + 1]
    BY <1>5 DEF SaveFails
  <2> QED
    BY <2>1 DEF Once, Careful, Shapes
<1>6. CASE OrchestrationSaved
  <2>1. /\ Save(NodeStatus(ret), NoTree, "finish") /\ UNCHANGED <<disk, faults, plan, ran>>
    BY <1>6 DEF OrchestrationSaved, SaveSession, runVars
  <2> QED
    BY <2>1, OnceOfSave
<1>7. CASE Crash \/ Finish
  <2>1. /\ pc' = "idle" /\ UNCHANGED <<disk, ran>>
        /\ faults' = faults \/ faults' = [faults EXCEPT !.crash = @ + 1]
    BY <1>7 DEF Crash, Finish
  <2>2. faults'.lost = faults.lost
    BY <2>1 DEF Shapes
  <2> QED
    BY <2>1, <2>2 DEF Once, Careful, At
<1>8. ASSUME NEW fresh, StartTurn(fresh) PROVE Once'
  <2>1. pc' \in {"orch", "route"} /\ faults' = faults /\ (ran' = ran \/ ran'.begun = <<>>)
    BY <1>8, ResumeEffect
  <2>2. DOMAIN <<>> = {}
    OBVIOUS
  <2> QED
    BY <2>1, <2>2 DEF Once, Careful, At
<1>9. ASSUME NEW p, GenerateWBS(p) PROVE Once'
  <2>1. pc' = "orch" /\ faults' = faults /\ ran' = [begun |-> <<>>, done |-> {}]
    BY <1>9 DEF GenerateWBS
  <2>2. ran'.begun = <<>> /\ DOMAIN <<>> = {}
    BY <2>1
  <2> QED
    BY <2>1, <2>2 DEF Once, Careful, At
<1>10. CASE Orchestrate
  <2>1. pc' \in {"orch", "orchEnds"} /\ UNCHANGED <<ran, faults>>
    BY <1>10 DEF Orchestrate, OrchestrationEnds
  <2> QED
    BY <2>1 DEF Once, Careful, At
<1>11. CASE StartNode
  <2>1. pc = "orch" /\ plan.on /\ UNCHANGED <<disk, faults, ran>> /\ plan.batch # {}
    BY <1>11, StartEffect DEF Planned, At
  <2>2. CASE pc' = "orchEnds"
    BY <2>1, <2>2 DEF Once, Careful, At
  <2>3. CASE /\ plan'.node = FirstNode(plan.batch)
             /\ Save("active", plan'.tree, "node")
    <3>1. Sound(plan.tree, ran.done, Started) /\ Queued(plan.batch, plan.tree, ran.done, Started)
      BY <2>1 DEF Planned
    <3>2. plan'.node \in plan.batch
      <4>1. plan.batch \subseteq DOMAIN plan.tree.order /\ IsTree(plan.tree)
        BY <3>1 DEF Sound, Queued
      <4> QED
        BY <2>1, <2>3, <4>1, FirstNodeIsOne
    <3>3. Careful => plan'.node \notin DOMAIN ran.begun
      BY <3>1, <3>2 DEF Queued, Started
    <3>4. pc' = "save" /\ saving'.stage = "history" /\ saving'.wbs = plan'.tree
      BY <2>3, SaveEffect
    <3> QED
      BY <2>1, <3>3, <3>4 DEF Once, Careful
  <2> QED
    BY <1>11, <2>2, <2>3, StartEffect
<1>12. CASE ExecuteNode
  <2>1. /\ pc = "node" /\ pc' \in {"llm", "returned"} /\ UNCHANGED <<faults, plan>>
        /\ DOMAIN ran'.begun = DOMAIN ran.begun \cup {plan.node}
        /\ \A n \in DOMAIN ran.begun : n # plan.node => ran'.begun[n] = ran.begun[n] + 0
        /\ plan.node \notin DOMAIN ran.begun => ran'.begun[plan.node] = 1
    BY <1>12, ExecuteEffect
  <2>2. At = "node" /\ At' = pc'
    BY <2>1 DEF At
  <2>3. Careful => \A n \in DOMAIN ran'.begun : ran'.begun[n] = 1
    BY <2>1, <2>2 DEF Once
  <2> QED
    BY <2>1, <2>2, <2>3 DEF Once, Careful
<1>13. CASE NodeReturns
  <2>1. faults' = faults /\ ran'.begun = ran.begun
    BY <1>13, ReturnEffect
  <2>2. pc' = "save" /\ saving'.stage = "history" /\ saving'.then \in {"orch", "orchEnds"}
    BY <1>13, ReturnEffect, SaveEffect
  <2>3. At' # "node"
    BY <2>2 DEF At
  <2> QED
    BY <2>1, <2>2, <2>3 DEF Once, Careful
<1> QED
  BY <1>1, <1>2, <1>3, <1>4, <1>5, <1>6, <1>7, <1>8, <1>9, <1>10, <1>11, <1>12, <1>13
     DEF Next, RunStep, Rounds

(* A step to a place where no outcome has to be on disk. *)
LEMMA RecordedOpen ==
    ASSUME Recorded, pc # "idle", faults' = faults, sent' = sent \/ sent' = sent \cup {"asked"},
           pc' \notin {"idle", "save", "finish"}, pc' = "returned" => plan'.on
    PROVE  Recorded'
BY DEF Recorded, OutcomeRecorded, NoFaults

(* A save that begins with the outcome, or goes on. *)
LEMMA RecordedOfSave ==
    ASSUME Recorded, pc # "idle", faults' = faults, sent' = sent \/ sent' = sent \cup {"asked"},
           NEW status, NEW wbs, NEW then, Save(status, wbs, then), then # "idle",
           then = "finish" \/ (then = "returned" /\ ~plan'.on) => status = NodeStatus(ret')
    PROVE  Recorded'
<1>1. pc' = "save" /\ saving'.stage = "history" /\ saving'.status = status /\ saving'.then = then
  BY SaveEffect
<1> QED
  BY <1>1 DEF Recorded, OutcomeRecorded, NoFaults

LEMMA RecordedNext ==
    ASSUME Shapes, Planned, Recorded, [Next]_vars
    PROVE  Recorded'
<1>1. CASE Cancel \/ UNCHANGED vars
  <2>1. UNCHANGED <<plan, faults, disk, saving, pc, sent, ret, turn>>
    BY <1>1 DEF Cancel, vars, runVars
  <2> QED
    BY <2>1 DEF Recorded, OutcomeRecorded, NoFaults
<1>2. CASE PlanFails \/ \E route \in {"simple", "planning"} : Route(route)
  <2>1. pc \in {"route", "plan"} /\ pc' \in {"plan", "llm"} /\ UNCHANGED <<faults, sent>>
    BY <1>2 DEF PlanFails, Route, RunSimple
  <2> QED
    BY <2>1, RecordedOpen
<1>3. CASE Rounds
  <2>1. pc \in {"llm", "tools"} /\ faults' = faults /\ (sent' = sent \/ sent' = sent \cup {"asked"})
    BY <1>3, RoundEffect
  <2>2. CASE pc' \in {"llm", "tools"}
    BY <2>1, <2>2, RecordedOpen
  <2>3. CASE Save("active", NoTree, "llm")
    BY <2>1, <2>3, RecordedOfSave
  <2>4. CASE \E r \in {"text", "error", "ask"} : ret' = r /\ Save(NodeStatus(r), NoTree, "returned")
    BY <2>1, <2>4, RecordedOfSave
  <2> QED
    BY <1>3, <2>2, <2>3, <2>4, RoundEffect
<1>4. CASE SaveStep
  <2>1. pc = "save" /\ UNCHANGED <<plan, faults, sent, ret, turn>>
    BY <1>4, StageEffect DEF runVars
  <2>2. CASE saving.stage # "context"
    <3>1. pc' = "save" /\ saving'.status = saving.status /\ saving'.then = saving.then
      BY <1>4, <2>2, StageEffect
    <3>2. saving'.stage \in {"dropContext", "context"} =>
             \/ saving.stage = "meta" /\ ~Missing(disk'.meta) /\ disk'.meta[1].status = saving.status
             \/ saving.stage = "dropContext" /\ disk'.meta = disk.meta
      BY <1>4, <2>2, StageEffect, AppendEffect
    <3> QED
      BY <2>1, <3>1, <3>2 DEF Recorded, OutcomeRecorded, NoFaults
  <2>3. CASE saving.stage = "context"
    <3>1. saving' = NoSave /\ pc' = saving.then /\ disk'.meta = disk.meta
      BY <1>4, <2>3, StageEffect, AppendEffect
    <3>2. saving'.stage = "none" /\ saving'.then = ""
      BY <3>1 DEF NoSave
    <3>3. pc' # "idle"
      BY <2>1, <3>1 DEF Planned
    <3> QED
      BY <2>1, <2>3, <3>1, <3>2, <3>3 DEF Recorded, OutcomeRecorded, NoFaults
  <2> QED
    BY <2>2, <2>3
<1>5. CASE SaveFails
  <2>1. /\ faults' = [faults EXCEPT !.lost = @ + 1] /\ pc' = saving.then /\ pc = "save" /\ sent' = sent
        /\ faults \in [crash : Nat, lost : Nat]
    BY <1>5 DEF SaveFails, Shapes
  <2>2. ~NoFaults' /\ pc' # "idle"
    BY <2>1 DEF NoFaults, Planned
  <2> QED
    BY <2>1, <2>2 DEF Recorded, OutcomeRecorded, NoFaults
<1>6. CASE OrchestrationSaved
  <2>1. pc = "orchEnds" /\ Save(NodeStatus(ret), NoTree, "finish") /\ UNCHANGED <<faults, plan, sent, ret>>
    BY <1>6 DEF OrchestrationSaved, SaveSession, runVars
  <2> QED
    BY <2>1, RecordedOfSave
<1>7. CASE Crash
  <2>1. /\ faults' = [faults EXCEPT !.crash = @ + 1] /\ pc' = "idle" /\ faults \in [crash : Nat, lost : Nat]
    BY <1>7 DEF Crash, Shapes
  <2>2. ~NoFaults'
    BY <2>1 DEF NoFaults
  <2> QED
    BY <2>1, <2>2 DEF Recorded, OutcomeRecorded, NoFaults
<1>8. CASE Finish
  <2>1. /\ pc = "finish" \/ (pc = "returned" /\ ~plan.on)
        /\ sent' = sent \cup {IF ret = "text" THEN "result" ELSE "error"}
        /\ pc' = "idle" /\ UNCHANGED <<faults, disk, ret, turn>>
    BY <1>8 DEF Finish
  <2>2. "result" \in sent' <=> ret' = "text"
    BY <2>1 DEF Recorded
  <2>3. NoFaults => ~Missing(disk'.meta) /\ disk'.meta[1].status = NodeStatus(ret')
    BY <2>1 DEF Recorded
  <2> QED
    BY <2>1, <2>2, <2>3 DEF Recorded, OutcomeRecorded, NoFaults
<1>9. ASSUME NEW fresh, StartTurn(fresh) PROVE Recorded'
  <2>1. pc' \in {"orch", "route"} /\ faults' = faults /\ sent' = {}
    BY <1>9, ResumeEffect
  <2> QED
    BY <2>1 DEF Recorded, OutcomeRecorded, NoFaults
<1>10. ASSUME NEW p, GenerateWBS(p) PROVE Recorded'
  <2>1. pc = "plan" /\ pc' = "orch" /\ faults' = faults /\ sent' = sent
    BY <1>10 DEF GenerateWBS
  <2> QED
    BY <2>1, RecordedOpen
<1>11. CASE Orchestrate
  <2>1. pc = "orch" /\ pc' \in {"orch", "orchEnds"} /\ UNCHANGED <<sent, faults>>
    BY <1>11 DEF Orchestrate, OrchestrationEnds
  <2> QED
    BY <2>1, RecordedOpen
<1>12. CASE StartNode
  <2>1. pc = "orch" /\ faults' = faults /\ sent' = sent
    BY <1>12, StartEffect
  <2>2. CASE pc' = "orchEnds"
    BY <2>1, <2>2, RecordedOpen
  <2>3. CASE Save("active", plan'.tree, "node")
    <3>1. PICK t : Save("active", t, "node")
      BY <2>3
    <3> QED
      BY <2>1, <3>1, RecordedOfSave
  <2> QED
    BY <1>12, <2>2, <2>3, StartEffect
<1>13. CASE ExecuteNode
  <2>1. /\ pc = "node" /\ pc' \in {"llm", "returned"} /\ UNCHANGED <<faults, plan>>
        /\ sent' = sent \/ sent' = sent \cup {"asked"}
    BY <1>13, ExecuteEffect
  <2>2. plan'.on
    BY <2>1 DEF Planned, At
  <2> QED
    BY <2>1, <2>2, RecordedOpen
<1>14. CASE NodeReturns
  <2>1. pc = "returned" /\ plan'.on /\ faults' = faults /\ sent' = sent
    BY <1>14, ReturnEffect
  <2>2. PICK then, t : then \in {"orch", "orchEnds"} /\ Save("active", t, then)
    BY <1>14, ReturnEffect
  <2> QED
    BY <2>1, <2>2, RecordedOfSave
<1> QED
  BY <1>1, <1>2, <1>3, <1>4, <1>5, <1>6, <1>7, <1>8, <1>9, <1>10, <1>11, <1>12, <1>13, <1>14
     DEF Next, RunStep, Rounds

-----------------------------------------------------------------------------
(* The plan is carried out as it was made.                                  *)

PlanInv == Shapes /\ cfg \in Scenarios /\ Planned /\ Once /\ Recorded

LEMMA PlanInvInit == Init => PlanInv
<1> SUFFICES ASSUME Init PROVE PlanInv
  OBVIOUS
<1>1. /\ pc = "idle" /\ turn = 0 /\ disk.meta = <<>> /\ sent = {} /\ ran.begun = <<>> /\ cfg \in Scenarios
      /\ plan = NoPlan
  BY DEF Init, EmptyDisk, NoFile
<1>2. ~plan.on /\ NothingToResume /\ At = "idle" /\ DOMAIN ran.begun = {}
  <2>1. ~plan.on
    BY <1>1 DEF NoPlan
  <2>2. NothingToResume
    BY <1>1 DEF NothingToResume, Missing, NoFile
  <2>3. DOMAIN <<>> = {}
    OBVIOUS
  <2> QED
    BY <1>1, <2>1, <2>2, <2>3 DEF At
<1>3. Planned /\ Once /\ Recorded
  BY <1>1, <1>2 DEF Planned, Once, Recorded, OutcomeRecorded
<1> QED
  BY <1>1, <1>3, ShapesInit DEF PlanInv

LEMMA PlanInvNext == PlanInv /\ [Next]_vars => PlanInv'
BY ShapesNext, ConfiguredNext, PlannedNext, OnceNext, RecordedNext DEF PlanInv

LEMMA PlanInvSound == PlanInv => PlanSound
<1> SUFFICES ASSUME PlanInv PROVE PlanSound
  OBVIOUS
<1>1. StepAtMostOnce
  BY DEF PlanInv, Once, Careful, StepAtMostOnce
<1>2. DependenciesDone
  BY DEF PlanInv, Planned, Chosen, At, DependenciesDone
<1>3. OutcomeRecorded
  BY DEF PlanInv, Recorded
<1> QED
  BY <1>1, <1>2, <1>3 DEF PlanSound

(* A node of a plan is executed at most once, whenever the process crashes  *)
(* and the plan is resumed, and only when the steps it depends on have run  *)
(* to their end; between turns the folder tells how the last one ended      *)
(* (wbs_orchestrator.go Execute, session_store.go Save).                    *)
THEOREM PlanIsSound == Spec => []PlanSound
BY PlanInvInit, PlanInvNext, PlanInvSound, PTL DEF Spec

-----------------------------------------------------------------------------
(* The messages.                                                            *)

(* Messages in the order of their numbers; those of the system, which are   *)
(* made without a number, have 0.                                           *)
Grows(ms) == \A i, j \in 1..Len(ms) : i < j /\ ms[i].seq # 0 => ms[i].seq < ms[j].seq
Ordered(ms) == ms \in Seq(ToSet(ms)) /\ (\A i \in 1..Len(ms) : ms[i].seq \in Nat) /\ Grows(ms)
LastSeq(ms) == IF ms = <<>> THEN 0 ELSE ms[Len(ms)].seq

LEMMA IsSeq ==
    ASSUME NEW S, NEW s \in Seq(S)
    PROVE  /\ s \in Seq(ToSet(s)) /\ Len(s) \in Nat /\ DOMAIN s = 1..Len(s)
           /\ s = <<>> <=> Len(s) = 0
<1>1. Len(s) \in Nat /\ DOMAIN s = 1..Len(s) /\ s \in [1..Len(s) -> S]
  OBVIOUS
<1>2. \A i \in 1..Len(s) : s[i] \in ToSet(s)
  BY <1>1 DEF ToSet
<1>3. s = <<>> <=> Len(s) = 0
  BY EmptySeq
<1> QED
  BY <1>1, <1>2, <1>3

(* The highest number is the last one. *)
LEMMA MaxSeqIsLast ==
    ASSUME NEW ms, Ordered(ms)
    PROVE  /\ MaxSeq(ms) = LastSeq(ms) /\ LastSeq(ms) \in Nat
           /\ \A i \in 1..Len(ms) : ms[i].seq <= LastSeq(ms)
<1> DEFINE S == {0} \cup {m.seq : m \in ToSet(ms)}
<1>1. ms \in Seq(ToSet(ms)) /\ Len(ms) \in Nat /\ DOMAIN ms = 1..Len(ms) /\ (ms = <<>> <=> Len(ms) = 0)
  BY IsSeq DEF Ordered
<1>2. LastSeq(ms) \in Nat /\ \A i \in 1..Len(ms) : ms[i].seq <= LastSeq(ms)
  <2>1. CASE ms = <<>>
    BY <1>1, <2>1 DEF LastSeq
  <2>2. CASE ms # <<>>
    <3>1. Len(ms) \in 1..Len(ms) /\ LastSeq(ms) = ms[Len(ms)].seq
      BY <1>1, <2>2 DEF LastSeq
    <3>2. \A i \in 1..Len(ms) : i < Len(ms) /\ ms[i].seq # 0 => ms[i].seq < ms[Len(ms)].seq
      BY <3>1 DEF Ordered, Grows
    <3>3. \A i \in 1..Len(ms) : ms[i].seq \in Nat
      BY DEF Ordered
    <3>4. LastSeq(ms) \in Nat
      BY <3>1, <3>3
    <3>5. ASSUME NEW i \in 1..Len(ms) PROVE ms[i].seq <= LastSeq(ms)
      <4>0. PICK x \in Nat : x = ms[i].seq
        BY <3>3
      <4>1. CASE i = Len(ms)
        BY <3>1, <3>4, <4>1
      <4>2. CASE i < Len(ms)
        <5>1. x # 0 => x < LastSeq(ms)
          BY <3>1, <3>2, <4>0, <4>2
        <5>2. x <= LastSeq(ms)
          BY <3>4, <5>1
        <5> QED
          BY <4>0, <5>2
      <4>3. i < Len(ms) \/ i = Len(ms)
        <5>1. Len(ms) \in Nat
          BY <1>1
        <5>2. PICK n \in Nat : n = Len(ms)
          BY <5>1
        <5> QED
          BY <5>2
      <4> QED
        BY <4>1, <4>2, <4>3
    <3> QED
      BY <3>4, <3>5
  <2> QED
    BY <2>1, <2>2
<1>3. \A x \in S : x \in Nat /\ x <= LastSeq(ms)
  <2>1. \A m \in ToSet(ms) : \E i \in 1..Len(ms) : m = ms[i]
    BY <1>1 DEF ToSet
  <2> QED
    BY <1>2, <2>1 DEF Ordered
<1>4. LastSeq(ms) \in S
  <2>1. CASE ms = <<>>
    BY <2>1 DEF LastSeq
  <2>2. CASE ms # <<>>
    <3>1. Len(ms) \in DOMAIN ms
      BY <1>1, <2>2
    <3>2. ms[Len(ms)] \in ToSet(ms)
      BY <3>1 DEF ToSet
    <3> QED
      BY <2>2, <3>2 DEF LastSeq
  <2> QED
    BY <2>1, <2>2
<1> HIDE DEF S
<1>5. Max(S) \in S /\ Max(S) >= LastSeq(ms)
  <2>1. \A x \in S : LastSeq(ms) >= x
    BY <1>2, <1>3
  <2> QED
    BY <1>4, <2>1 DEF Max
<1>6. Max(S) = LastSeq(ms)
  BY <1>2, <1>3, <1>5
<1> QED
  BY <1>2, <1>6 DEF S, MaxSeq

(* A message with the next number. *)
LEMMA AppendOrdered ==
    ASSUME NEW ms, Ordered(ms), NEW m, m.seq \in Nat, \A i \in 1..Len(ms) : ms[i].seq < m.seq \/ ms[i].seq = 0
    PROVE  LET ms2 == Append(ms, m) IN
           /\ Ordered(ms2) /\ LastSeq(ms2) = m.seq /\ Len(ms2) = Len(ms) + 1
           /\ \A i \in 1..Len(ms) : ms2[i] = ms[i]
           /\ ms2[Len(ms) + 1] = m
<1> DEFINE ms2 == Append(ms, m)
           S == ToSet(ms) \cup {m}
<1>1. ms \in Seq(ToSet(ms)) /\ Len(ms) \in Nat
  BY IsSeq DEF Ordered
<1>2. ms \in Seq(S) /\ m \in S
  <2>1. ToSet(ms) \subseteq S
    OBVIOUS
  <2> HIDE DEF S
  <2>2. Seq(ToSet(ms)) \subseteq Seq(S)
    BY <2>1
  <2>3. m \in S
    BY DEF S
  <2> QED
    BY <1>1, <2>2, <2>3
<1> HIDE DEF S
<1>3. /\ ms2 \in Seq(S) /\ ms2 # <<>> /\ Len(ms2) = Len(ms) + 1
      /\ \A i \in 1..Len(ms) : ms2[i] = ms[i]
      /\ ms2[Len(ms) + 1] = m
  BY <1>2, AppendProperties
<1> HIDE DEF ms2
<1>4. ms2 \in Seq(ToSet(ms2))
  BY <1>3, IsSeq
<1>5. \A i \in 1..Len(ms2) : i \in 1..Len(ms) \/ i = Len(ms) + 1
  BY <1>1, <1>3
<1>6. \A i \in 1..Len(ms2) : ms2[i].seq \in Nat
  BY <1>3, <1>5 DEF Ordered
<1>7. Grows(ms2)
  <2> SUFFICES ASSUME NEW i \in 1..Len(ms2), NEW j \in 1..Len(ms2), i < j, ms2[i].seq # 0
               PROVE  ms2[i].seq < ms2[j].seq
    BY DEF Grows
  <2>1. i \in 1..Len(ms) /\ ms2[i] = ms[i]
    BY <1>1, <1>3, <1>5
  <2>2. CASE j \in 1..Len(ms)
    BY <1>3, <2>1, <2>2 DEF Ordered, Grows
  <2>3. CASE j = Len(ms) + 1
    BY <1>3, <2>1, <2>3
  <2> QED
    BY <1>5, <2>2, <2>3
<1>8. LastSeq(ms2) = m.seq
  BY <1>3 DEF LastSeq
<1> QED
  BY <1>3, <1>4, <1>6, <1>7, <1>8 DEF Ordered, ms2

(* The boundaries of a compaction walk down from where it was asked to cut. *)
LEMMA GreatestOf ==
    ASSUME NEW b \in Nat, NEW S, S \subseteq 0..b, S # {}
    PROVE  Max(S) \in S
<1> DEFINE D == {k \in 0..b : b - k \in S}
<1>1. D \subseteq Nat /\ D # {}
  <2>1. PICK x \in S : x \in 0..b
    OBVIOUS
  <2>2. b - x \in D
    BY <2>1
  <2> QED
    BY <2>2
<1>2. Min(D) \in D /\ \A k \in D : Min(D) <= k
  BY <1>1, LeastOf
<1>3. PICK k \in D : \A j \in D : k <= j
  BY <1>2
<1>4. b - k \in S /\ k \in 0..b
  BY <1>3
<1>5. \A y \in S : b - k >= y
  <2> TAKE y \in S
  <2>1. y \in 0..b
    OBVIOUS
  <2>2. b - y \in D
    BY <2>1
  <2> QED
    BY <1>3, <1>4, <2>1, <2>2
<1> QED
  BY <1>4, <1>5 DEF Max

LEMMA WalkDownBounds ==
    ASSUME NEW b \in Nat, b >= 1, NEW stops
    PROVE  WalkDown(b, stops) \in 1..b
<1> DEFINE S == ((1..b) \cap stops) \cup {1}
<1>1. S \subseteq 1..b /\ S \subseteq 0..b /\ S # {}
  OBVIOUS
<1> HIDE DEF S
<1>2. Max(S) \in S
  BY <1>1, GreatestOf
<1> QED
  BY <1>1, <1>2 DEF WalkDown, S

LEMMA BoundaryBounds ==
    ASSUME NEW ms, NEW count \in Nat, NEW tool, NEW b,
           tool = AdjustBoundaryForToolPairs(ms, count), b = AdjustBoundaryForUserStart(ms, tool)
    PROVE  b \in 0..count
<1>1. tool \in 0..count
  <2> DEFINE at == WalkDown(count + 1, {i \in DOMAIN ms : ~IsTool(ms[i])})
  <2>1. at \in 1..(count + 1)
    BY WalkDownBounds
  <2>2. tool = count \/ tool = at - 1
    BY DEF AdjustBoundaryForToolPairs
  <2> HIDE DEF at
  <2> QED
    BY <2>1, <2>2
<1> DEFINE at == WalkDown(tool + 1, {i \in DOMAIN ms : ms[i].role = "user"})
<1>2. at \in 1..(tool + 1)
  BY <1>1, WalkDownBounds
<1>3. b = tool \/ b = at - 1
  BY DEF AdjustBoundaryForUserStart
<1> HIDE DEF at
<1> QED
  BY <1>1, <1>2, <1>3

(* A compaction leaves the end of the messages, after a summary without a   *)
(* number.                                                                  *)
LEMMA CompactKeepsEnd ==
    ASSUME NEW ms, Ordered(ms), NEW ms2, ms2 = Compact(ms), Len(ms2) < Len(ms)
    PROVE  /\ Ordered(ms2) /\ LastSeq(ms2) = LastSeq(ms)
           /\ \A j \in 1..Len(ms2) : ms2[j].seq = 0 \/ \E i \in 1..Len(ms) : ms2[j] = ms[i]
<1>1. /\ ms \in Seq(ToSet(ms)) /\ Len(ms) \in Nat /\ DOMAIN ms = 1..Len(ms)
      /\ ms = <<>> <=> Len(ms) = 0
  BY IsSeq DEF Ordered
<1> DEFINE count == CompactCount(ms)
           tool == AdjustBoundaryForToolPairs(ms, count)
           b == AdjustBoundaryForUserStart(ms, tool)
           sum == Summary(SubSeq(ms, 1, b))
           rest == SubSeq(ms, b + 1, Len(ms))
           one == <<sum>>
<1>2. count \in 1..(Len(ms) - 1) /\ b # 0 /\ ms2 = one \o rest
  <2> DEFINE valid == /\ count \in 1..(Len(ms) - 1) /\ b # 0
                      /\ ValidateToolPairIntegrity(one \o rest) /\ ValidateMessageOrdering(one \o rest)
  <2>1. ms2 = IF valid THEN one \o rest ELSE ms
    BY DEF Compact
  <2>2. ms2 # ms
    BY <1>1
  <2>3. valid => count \in 1..(Len(ms) - 1) /\ b # 0
    OBVIOUS
  <2> HIDE DEF valid, count, b, one, rest
  <2> QED
    BY <2>1, <2>2, <2>3
<1>3. b \in 0..count
  BY <1>2, BoundaryBounds
<1>4. sum.seq = 0
  BY DEF Summary, Message
<1> HIDE DEF count, tool, b, sum
<1>5. b \in 1..(Len(ms) - 1)
  BY <1>1, <1>2, <1>3
<1> DEFINE S == ToSet(ms) \cup {sum}
<1>6. /\ rest \in Seq(S) /\ Len(rest) = Len(ms) - b
      /\ \A i \in 1..(Len(ms) - b) : rest[i] = ms[b + i]
  <2>1. \A i \in b + 1 .. Len(ms) : ms[i] \in S
    <3>1. \A i \in 1..Len(ms) : ms[i] \in ToSet(ms)
      BY <1>1 DEF ToSet
    <3> QED
      BY <1>1, <1>5, <3>1
  <2> HIDE DEF S
  <2>2. /\ rest \in Seq(S) /\ Len(rest) = IF b + 1 <= Len(ms) THEN Len(ms) - (b + 1) + 1 ELSE 0
        /\ \A i \in 1..(Len(ms) - (b + 1) + 1) : rest[i] = ms[b + 1 + i - 1]
    BY <1>1, <1>5, <2>1, SubSeqProperties
  <2>3. Len(ms) - (b + 1) + 1 = Len(ms) - b /\ b + 1 <= Len(ms) /\ \A i \in 1..(Len(ms) - b) : b + 1 + i - 1 = b + i
    BY <1>1, <1>5
  <2> QED
    BY <2>2, <2>3
<1>7. sum \in S
  OBVIOUS
<1> HIDE DEF rest, S
<1>one. one \in Seq(S) /\ Len(one) = 1 /\ one[1] = sum
  BY <1>7
<1> HIDE DEF one
<1>8. /\ ms2 \in Seq(S) /\ Len(ms2) = 1 + (Len(ms) - b)
      /\ \A i \in 1..(1 + (Len(ms) - b)) : ms2[i] = IF i <= 1 THEN one[i] ELSE rest[i - 1]
  <2>1. /\ one \o rest \in Seq(S) /\ Len(one \o rest) = Len(one) + Len(rest)
        /\ \A i \in 1..(Len(one) + Len(rest)) :
             (one \o rest)[i] = IF i <= Len(one) THEN one[i] ELSE rest[i - Len(one)]
    BY <1>6, <1>one, ConcatProperties
  <2> QED
    BY <1>2, <1>6, <1>one, <2>1
<1>9. PICK n \in Nat : n = Len(ms) - b /\ n >= 1 /\ Len(ms2) = 1 + n /\ Len(ms) = b + n
  <2>1. PICK l \in Nat : l = Len(ms)
    BY <1>1
  <2>2. l - b \in Nat /\ l - b >= 1 /\ l = b + (l - b) /\ Len(ms2) = 1 + (l - b)
    BY <1>5, <1>8, <2>1
  <2> QED
    BY <2>1, <2>2
<1>10. ms2[1] = sum /\ \A i \in 2..(1 + n) : ms2[i] = ms[b + (i - 1)] /\ b + (i - 1) \in 1..Len(ms)
  <2>1. ms2[1] = sum
    BY <1>one, <1>8, <1>9
  <2>2. \A i \in 2..(1 + n) : i - 1 \in 1..n /\ ~(i <= 1) /\ b + (i - 1) \in 1..Len(ms) /\ i \in 1..(1 + n)
    BY <1>5, <1>9
  <2> QED
    BY <1>6, <1>8, <1>9, <2>1, <2>2
<1>11. \A i \in 1..Len(ms2) : i = 1 \/ i \in 2..(1 + n)
  BY <1>9
<1>12. ms2 \in Seq(ToSet(ms2)) /\ ms2 # <<>>
  BY <1>8, <1>9, IsSeq
<1>13. \A i \in 1..Len(ms2) : ms2[i].seq \in Nat
  BY <1>4, <1>10, <1>11 DEF Ordered
<1>14. Grows(ms2)
  <2> SUFFICES ASSUME NEW i \in 1..Len(ms2), NEW j \in 1..Len(ms2), i < j, ms2[i].seq # 0
               PROVE  ms2[i].seq < ms2[j].seq
    BY DEF Grows
  <2>1. i \in 2..(1 + n) /\ j \in 2..(1 + n)
    BY <1>4, <1>10, <1>11
  <2>2. b + (i - 1) < b + (j - 1)
    BY <1>5, <2>1
  <2> QED
    BY <1>10, <2>1, <2>2 DEF Ordered, Grows
<1>15. LastSeq(ms2) = LastSeq(ms)
  <2>1. 1 + n \in 2..(1 + n) /\ b + ((1 + n) - 1) = Len(ms) /\ ms # <<>>
    BY <1>1, <1>5, <1>9
  <2>2. ms2[1 + n] = ms[Len(ms)]
    BY <1>10, <2>1
  <2> QED
    BY <1>9, <1>12, <2>1, <2>2 DEF LastSeq
<1>16. \A j \in 1..Len(ms2) : ms2[j].seq = 0 \/ \E i \in 1..Len(ms) : ms2[j] = ms[i]
  BY <1>4, <1>10, <1>11
<1> QED
  BY <1>12, <1>13, <1>14, <1>15, <1>16 DEF Ordered

(* The messages in memory and the saved ones; no number is used again as    *)
(* long as the process lives.                                               *)
Numbered ==
    /\ Ordered(msgs) /\ nextSeq \in Nat /\ \A i \in 1..Len(msgs) : msgs[i].seq <= nextSeq
    /\ Missing(disk.context) \/ Ordered(disk.context[1])

(* What a step of the run does to the messages. *)
Evolves ==
    /\ nextSeq' \in Nat /\ nextSeq <= nextSeq' /\ Ordered(msgs')
    /\ \A i \in 1..Len(msgs') : msgs'[i].seq <= nextSeq'
    /\ LastSeq(msgs) <= LastSeq(msgs')
    /\ \A j \in 1..Len(msgs') :
         msgs'[j].seq = 0 \/ msgs'[j].seq > nextSeq \/ \E i \in 1..Len(msgs) : msgs'[j] = msgs[i]

LEMMA EvolvesSame == Numbered /\ UNCHANGED <<msgs, nextSeq>> => Evolves
<1> SUFFICES ASSUME Numbered, UNCHANGED <<msgs, nextSeq>> PROVE Evolves
  OBVIOUS
<1>1. LastSeq(msgs) \in Nat
  BY MaxSeqIsLast DEF Numbered
<1>2. LastSeq(msgs) <= LastSeq(msgs) /\ nextSeq <= nextSeq
  BY <1>1 DEF Numbered
<1> QED
  BY <1>2 DEF Numbered, Evolves

LEMMA EvolvesByOne ==
    ASSUME Numbered, NEW ms, Ordered(ms), \A i \in 1..Len(ms) : ms[i].seq = 0 \/ \E k \in 1..Len(msgs) : ms[i] = msgs[k],
           NEW m, m.seq = nextSeq + 1, msgs' = Append(ms, m), nextSeq' = nextSeq + 1
    PROVE  Evolves
<1>1. nextSeq \in Nat /\ \A i \in 1..Len(msgs) : msgs[i].seq \in Nat /\ msgs[i].seq <= nextSeq
  BY DEF Numbered, Ordered
<1>2. m.seq \in Nat /\ \A i \in 1..Len(ms) : ms[i].seq < m.seq \/ ms[i].seq = 0
  BY <1>1
<1>3. /\ Ordered(msgs') /\ LastSeq(msgs') = m.seq /\ Len(msgs') = Len(ms) + 1
      /\ \A i \in 1..Len(ms) : msgs'[i] = ms[i]
      /\ msgs'[Len(ms) + 1] = m
  BY <1>2, AppendOrdered
<1>4. Len(ms) \in Nat
  BY IsSeq DEF Ordered
<1>5. \A j \in 1..Len(msgs') : j \in 1..Len(ms) \/ j = Len(ms) + 1
  BY <1>3, <1>4
<1>6. \A j \in 1..Len(msgs') : msgs'[j].seq <= nextSeq'
  <2> TAKE j \in 1..Len(msgs')
  <2>1. CASE j = Len(ms) + 1
    BY <1>1, <1>3, <2>1
  <2>2. CASE j \in 1..Len(ms)
    <3>1. msgs'[j].seq = 0 \/ (msgs'[j].seq \in Nat /\ msgs'[j].seq <= nextSeq)
      BY <1>1, <1>3, <2>2
    <3> QED
      BY <1>1, <3>1
  <2> QED
    BY <1>5, <2>1, <2>2
<1>7. \A j \in 1..Len(msgs') :
         msgs'[j].seq = 0 \/ msgs'[j].seq > nextSeq \/ \E i \in 1..Len(msgs) : msgs'[j] = msgs[i]
  BY <1>1, <1>3, <1>5
<1>8. LastSeq(msgs) <= LastSeq(msgs')
  <2>1. LastSeq(msgs) = 0 \/ \E i \in 1..Len(msgs) : LastSeq(msgs) = msgs[i].seq
    <3>1. Len(msgs) \in Nat /\ (msgs = <<>> <=> Len(msgs) = 0)
      BY IsSeq DEF Numbered, Ordered
    <3> QED
      BY <3>1 DEF LastSeq
  <2>2. LastSeq(msgs) \in Nat /\ LastSeq(msgs) <= nextSeq
    BY <1>1, <2>1
  <2> QED
    BY <1>1, <1>3, <2>2
<1> QED
  BY <1>1, <1>3, <1>6, <1>7, <1>8 DEF Evolves

LEMMA EvolvesAppend ==
    ASSUME Numbered, NEW role, NEW calls, NEW call, AppendMessage(role, calls, call)
    PROVE  Evolves
<1>1. PICK m : m.seq = nextSeq + 1 /\ msgs' = Append(msgs, m) /\ nextSeq' = nextSeq + 1
  <2> DEFINE m == Message(role, nextSeq + 1, turn, calls, call)
  <2>1. m.seq = nextSeq + 1
    BY DEF Message
  <2>2. msgs' = Append(msgs, m) /\ nextSeq' = nextSeq + 1
    BY DEF AppendMessage
  <2> HIDE DEF m
  <2> QED
    BY <2>1, <2>2
<1> QED
  BY <1>1, EvolvesByOne DEF Numbered

LEMMA EvolvesSimple == Numbered /\ RunSimple => Evolves
<1> SUFFICES ASSUME Numbered, RunSimple PROVE Evolves
  OBVIOUS
<1> DEFINE user == Message("user", nextSeq + 1, turn, <<>>, NoCall)
           system == Message("system", 0, turn, <<>>, NoCall)
           first == IF msgs = <<>> /\ cfg.systemPrompt THEN <<system>> ELSE <<>>
<1>1. msgs' = msgs \o first \o <<user>> /\ nextSeq' = nextSeq + 1
  BY DEF RunSimple
<1>2. user.seq = nextSeq + 1 /\ system.seq = 0
  BY DEF Message
<1> HIDE DEF user, system
<1>3. msgs \in Seq(ToSet(msgs)) /\ Ordered(msgs)
  BY DEF Numbered, Ordered
<1>4. PICK ms : /\ ms = msgs \o first /\ Ordered(ms)
                /\ \A i \in 1..Len(ms) : ms[i].seq = 0 \/ \E k \in 1..Len(msgs) : ms[i] = msgs[k]
  <2>1. CASE first = <<>>
    <3>1. msgs \o first = msgs
      BY <1>3, <2>1, ConcatEmptySeq
    <3> QED
      BY <1>3, <3>1
  <2>2. CASE first # <<>>
    <3>1. msgs = <<>> /\ first = <<system>>
      BY <2>2
    <3> HIDE DEF first
    <3> DEFINE one == <<system>>
    <3>2. one \in Seq({system}) /\ Len(one) = 1 /\ one[1] = system
      OBVIOUS
    <3> HIDE DEF one
    <3>3. msgs \o first = one
      <4>1. <<>> \o one = one
        BY <3>2, ConcatEmptySeq
      <4> QED
        BY <3>1, <4>1 DEF one
    <3>4. one \in Seq(ToSet(one))
      BY <3>2, IsSeq
    <3>5. \A i \in 1..Len(one) : one[i].seq = 0
      BY <1>2, <3>2
    <3>6. Ordered(one)
      BY <3>4, <3>5 DEF Ordered, Grows
    <3> QED
      BY <3>3, <3>5, <3>6
  <2> QED
    BY <2>1, <2>2
<1> HIDE DEF first
<1>5. msgs' = Append(ms, user)
  <2> DEFINE S == ToSet(ms) \cup {user}
  <2>1. ToSet(ms) \subseteq S /\ user \in S
    OBVIOUS
  <2> HIDE DEF S
  <2>2. ms \in Seq(S)
    BY <1>4, <2>1 DEF Ordered
  <2>3. Append(ms, user) = ms \o <<user>>
    BY <2>1, <2>2, AppendIsConcat
  <2> QED
    BY <1>1, <1>4, <2>3
<1> QED
  BY <1>1, <1>2, <1>4, <1>5, EvolvesByOne

LEMMA EvolvesCompact ==
    ASSUME Numbered, msgs' = Compact(msgs), Len(Compact(msgs)) < Len(msgs), nextSeq' = nextSeq
    PROVE  Evolves
<1>1. /\ Ordered(msgs') /\ LastSeq(msgs') = LastSeq(msgs)
      /\ \A j \in 1..Len(msgs') : msgs'[j].seq = 0 \/ \E i \in 1..Len(msgs) : msgs'[j] = msgs[i]
  BY CompactKeepsEnd DEF Numbered
<1>2. LastSeq(msgs) \in Nat
  BY MaxSeqIsLast DEF Numbered
<1>3. \A i \in 1..Len(msgs') : msgs'[i].seq <= nextSeq'
  BY <1>1 DEF Numbered
<1> QED
  BY <1>1, <1>2, <1>3 DEF Evolves, Numbered

-----------------------------------------------------------------------------
(* Everything that is saved can be read again.                              *)

(* The highest number in the metadata, also while they are written.         *)
Total == IF pc = "save" THEN saving.prev ELSE IF Missing(disk.meta) THEN 0 ELSE disk.meta[1].totalSeq

Entered(ms, s, hist) ==
    \A i \in 1..Len(ms) : ms[i].seq # 0 /\ ms[i].seq <= s =>
        ms[i].seq \in DOMAIN hist /\ hist[ms[i].seq] = Fact(ms[i])
AllEntered(ms, hist) ==
    \A i \in 1..Len(ms) : ms[i].seq # 0 => ms[i].seq \in DOMAIN hist /\ hist[ms[i].seq] = Fact(ms[i])

(* What a save still has to enter is above the number of the metadata, so   *)
(* that skipping the lower ones, and those that are there, loses nothing.   *)
Kept ==
    NoFaults =>
        /\ Total \in Nat /\ Total <= nextSeq /\ Total <= LastSeq(msgs)
        /\ Entered(msgs, Total, disk.hist)
        /\ \A s \in DOMAIN disk.hist :
             /\ s \in Nat
             /\ \/ s <= Total
                \/ pc = "save" /\ \E i \in 1..Len(msgs) : msgs[i].seq = s /\ disk.hist[s] = Fact(msgs[i])
        /\ Missing(disk.context) \/ AllEntered(disk.context[1], disk.hist)
        /\ pc # "save" => /\ Missing(disk.meta) <=> Missing(disk.context)
                          /\ Missing(disk.context) \/ Total <= LastSeq(disk.context[1])
        /\ pc = "save" /\ saving.stage # "history" => AllEntered(msgs, disk.hist)
        /\ pc = "save" /\ saving.stage \in {"dropContext", "context"} =>
             ~Missing(disk.meta) /\ disk.meta[1].totalSeq = LastSeq(msgs)

LEMMA MaxOfTwo ==
    ASSUME NEW a \in Nat, NEW b \in Nat
    PROVE  /\ Max({a, b}) \in Nat /\ a <= Max({a, b}) /\ b <= Max({a, b})
           /\ a <= b => Max({a, b}) = b
<1>1. \E x \in {a, b} : \A y \in {a, b} : x >= y
  <2>1. CASE a <= b
    BY <2>1
  <2>2. CASE b <= a
    BY <2>2
  <2> QED
    BY <2>1, <2>2
<1>2. Max({a, b}) \in {a, b} /\ \A y \in {a, b} : Max({a, b}) >= y
  BY <1>1 DEF Max
<1>3. PICK m \in {a, b} : m = Max({a, b}) /\ m >= a /\ m >= b
  BY <1>2
<1>4. m \in Nat /\ (a <= b => m = b)
  BY <1>3
<1> QED
  BY <1>3, <1>4

(* A step outside a save. *)
LEMMA KeptFrame ==
    ASSUME Numbered, Kept, Evolves, pc # "save", disk' = disk, faults' = faults,
           pc' # "save" \/ \E status, wbs, then : Save(status, wbs, then)
    PROVE  Kept'
<1> SUFFICES ASSUME NoFaults' PROVE Kept'
  BY DEF Kept
<1>1. NoFaults
  BY DEF NoFaults
<1>2. Total' = Total
  <2>1. CASE pc' # "save"
    BY <2>1 DEF Total
  <2>2. ASSUME NEW status, NEW wbs, NEW then, Save(status, wbs, then) PROVE Total' = Total
    BY <2>2, SaveEffect DEF Total
  <2> QED
    BY <2>1, <2>2
<1>3. pc' = "save" => saving'.stage = "history"
  BY SaveEffect
<1>4. Total \in Nat /\ Total <= nextSeq /\ Total <= LastSeq(msgs) /\ nextSeq \in Nat
  BY <1>1 DEF Kept, Numbered
<1>5. LastSeq(msgs) \in Nat /\ LastSeq(msgs') \in Nat
  BY MaxSeqIsLast DEF Numbered, Evolves
<1>6. Total <= nextSeq' /\ Total <= LastSeq(msgs')
  BY <1>4, <1>5 DEF Evolves
<1>7. Entered(msgs', Total, disk.hist)
  <2> SUFFICES ASSUME NEW j \in 1..Len(msgs'), msgs'[j].seq # 0, msgs'[j].seq <= Total
               PROVE  msgs'[j].seq \in DOMAIN disk.hist /\ disk.hist[msgs'[j].seq] = Fact(msgs'[j])
    BY DEF Entered
  <2>1. msgs'[j].seq \in Nat
    BY DEF Evolves, Ordered
  <2>2. ~(msgs'[j].seq > nextSeq)
    BY <1>4, <2>1
  <2>3. PICK i \in 1..Len(msgs) : msgs'[j] = msgs[i]
    BY <2>2 DEF Evolves
  <2> QED
    BY <1>1, <2>3 DEF Kept, Entered
<1>8. \A s \in DOMAIN disk.hist : s \in Nat /\ s <= Total
  BY <1>1 DEF Kept
<1>9. /\ Missing(disk.context) \/ AllEntered(disk.context[1], disk.hist)
      /\ Missing(disk.meta) <=> Missing(disk.context)
      /\ Missing(disk.context) \/ Total <= LastSeq(disk.context[1])
  BY <1>1 DEF Kept
<1> QED
  BY <1>2, <1>3, <1>4, <1>6, <1>7, <1>8, <1>9 DEF Kept

(* A new session, a restored one, or the suspended one that goes on. *)
LEMMA RestoreEffect ==
    ASSUME NEW old, NEW oldSeq, RestoreSession(old, oldSeq)
    PROVE  /\ Missing(disk.meta) => msgs' = old /\ nextSeq' = oldSeq
           /\ ~Missing(disk.meta) => /\ Missing(disk.context) => msgs' = <<>>
                                     /\ ~Missing(disk.context) => msgs' = disk.context[1]
                                     /\ nextSeq' = Max({oldSeq, MaxSeq(msgs')})
<1>2. CASE Missing(disk.meta)
  BY <1>2 DEF RestoreSession, Load, Missing
<1>3. CASE ~Missing(disk.meta)
  <2> DEFINE messages == IF Missing(disk.context) THEN <<>> ELSE disk.context[1]
             state == <<[wbs |-> disk.meta[1].wbs, messages |-> messages]>>
  <2>1. Load(disk) = state
    BY <1>3 DEF Load
  <2>2. state[1].messages = messages /\ state # NoFile
    BY DEF NoFile
  <2> HIDE DEF state, messages
  <2>3. msgs' = messages /\ nextSeq' = Max({oldSeq, MaxSeq(messages)})
    BY <2>1, <2>2 DEF RestoreSession, Missing
  <2>4. (Missing(disk.context) => messages = <<>>) /\ (~Missing(disk.context) => messages = disk.context[1])
    BY DEF messages
  <2> QED
    BY <1>3, <2>3, <2>4
<1> QED
  BY <1>2, <1>3

(* The steps of a turn other than those of a save. *)
TurnStep ==
    \/ Cancel \/ PlanFails \/ Rounds \/ Orchestrate \/ StartNode \/ ExecuteNode \/ NodeReturns
    \/ \E route \in {"simple", "planning"} : Route(route)
    \/ \E p \in cfg.plans : GenerateWBS(p)
    \/ OrchestrationSaved \/ Finish

LEMMA TurnStepEffect ==
    ASSUME Shapes, Numbered, TurnStep
    PROVE  /\ pc # "save" /\ disk' = disk /\ faults' = faults /\ Evolves
           /\ pc' # "save" \/ \E status, wbs, then : Save(status, wbs, then)
<1>1. CASE Cancel \/ Finish \/ Orchestrate \/ \E p \in cfg.plans : GenerateWBS(p)
  <2>1. pc # "save" /\ pc' # "save" /\ UNCHANGED <<disk, faults, msgs, nextSeq>>
    BY <1>1 DEF Cancel, Finish, Orchestrate, OrchestrationEnds, GenerateWBS, coreVars
  <2> QED
    BY <2>1, EvolvesSame
<1>2. CASE PlanFails \/ \E route \in {"simple", "planning"} : Route(route)
  <2>1. /\ pc \in {"plan", "route"} /\ pc' \in {"plan", "llm"} /\ UNCHANGED <<disk, faults>>
        /\ RunSimple \/ UNCHANGED <<msgs, nextSeq>>
    BY <1>2 DEF PlanFails, Route, RunSimple, coreVars
  <2> QED
    BY <2>1, EvolvesSame, EvolvesSimple
<1>3. CASE Rounds
  <2>1. /\ pc # "save" /\ UNCHANGED <<disk, faults>>
        /\ pc' # "save" \/ \E status, wbs, then : Save(status, wbs, then)
    BY <1>3, RoundEffect
  <2>2. ASSUME UNCHANGED coreVars PROVE Evolves
    BY <2>2, EvolvesSame DEF coreVars
  <2>3. ASSUME NEW role, NEW calls, NEW call, AppendMessage(role, calls, call) PROVE Evolves
    BY <2>3, EvolvesAppend
  <2>4. ASSUME msgs' = Compact(msgs) /\ Len(Compact(msgs)) < Len(msgs) /\ nextSeq' = nextSeq PROVE Evolves
    BY <2>4, EvolvesCompact
  <2>5. Evolves
    BY <1>3, <2>2, <2>3, <2>4, RoundEffect
  <2> QED
    BY <2>1, <2>5
<1>4. CASE StartNode
  <2>1. pc = "orch" /\ UNCHANGED <<disk, faults>> /\ (pc' # "save" \/ \E status, wbs, then : Save(status, wbs, then))
    BY <1>4, StartEffect
  <2>2. UNCHANGED <<msgs, nextSeq>>
    BY <1>4 DEF StartNode, coreVars
  <2> QED
    BY <2>1, <2>2, EvolvesSame
<1>5. CASE ExecuteNode
  <2>1. pc = "node" /\ pc' # "save" /\ UNCHANGED <<disk, faults>>
    BY <1>5, ExecuteEffect
  <2>2. RunSimple \/ UNCHANGED <<msgs, nextSeq>>
    BY <1>5 DEF ExecuteNode, coreVars
  <2> QED
    BY <2>1, <2>2, EvolvesSame, EvolvesSimple
<1>6. CASE NodeReturns
  <2>1. pc = "returned" /\ UNCHANGED <<disk, faults>> /\ \E status, wbs, then : Save(status, wbs, then)
    BY <1>6, ReturnEffect
  <2>2. UNCHANGED <<msgs, nextSeq>>
    BY <1>6 DEF NodeReturns, coreVars
  <2> QED
    BY <2>1, <2>2, EvolvesSame
<1>7. CASE OrchestrationSaved
  <2>1. pc = "orchEnds" /\ UNCHANGED <<disk, faults, msgs, nextSeq>> /\ Save(NodeStatus(ret), NoTree, "finish")
    BY <1>7 DEF OrchestrationSaved, SaveSession, coreVars
  <2> QED
    BY <2>1, EvolvesSame
<1> QED
  BY <1>1, <1>2, <1>3, <1>4, <1>5, <1>6, <1>7 DEF TurnStep

LEMMA OrderedEmpty == Ordered(<<>>) /\ LastSeq(<<>>) = 0 /\ Len(<<>>) = 0
<1>1. <<>> \in Seq(ToSet(<<>>)) /\ Len(<<>>) = 0
  OBVIOUS
<1>2. \A i \in 1..Len(<<>>) : FALSE
  BY <1>1
<1> QED
  BY <1>1, <1>2 DEF Ordered, Grows, LastSeq

LEMMA NumberedNext ==
    ASSUME Shapes, Numbered, [Next]_vars
    PROVE  Numbered'
<1>1. CASE UNCHANGED vars \/ SaveFails
  <2>1. UNCHANGED <<msgs, nextSeq, disk>>
    BY <1>1 DEF vars, SaveFails, coreVars
  <2> QED
    BY <2>1 DEF Numbered
<1>2. CASE TurnStep
  <2>1. disk' = disk /\ Evolves
    BY <1>2, TurnStepEffect
  <2> QED
    BY <2>1 DEF Numbered, Evolves
<1>3. CASE Crash
  <2>1. msgs' = <<>> /\ nextSeq' = 0 /\ disk' = disk
    BY <1>3 DEF Crash
  <2>2. \A i \in 1..Len(<<>>) : FALSE
    BY OrderedEmpty
  <2> QED
    BY <2>1, <2>2, OrderedEmpty DEF Numbered
<1>4. CASE SaveStep
  <2>1. UNCHANGED <<msgs, nextSeq>>
    BY <1>4, StageEffect DEF coreVars
  <2>2. disk'.context = disk.context \/ Missing(disk'.context) \/ (~Missing(disk'.context) /\ disk'.context[1] = msgs)
    BY <1>4, StageEffect, AppendEffect
  <2> QED
    BY <2>1, <2>2 DEF Numbered
<1>5. ASSUME NEW fresh, StartTurn(fresh) PROVE Numbered'
  <2>1. disk' = disk
    BY <1>5, ResumeEffect
  <2>2. ASSUME NEW old, NEW oldSeq, RestoreSession(old, oldSeq), oldSeq \in Nat,
               Ordered(old) /\ \A i \in 1..Len(old) : old[i].seq <= oldSeq
        PROVE  Ordered(msgs') /\ nextSeq' \in Nat /\ \A i \in 1..Len(msgs') : msgs'[i].seq <= nextSeq'
    <3>1. CASE Missing(disk.meta)
      BY <2>2, <3>1, RestoreEffect
    <3>2. CASE ~Missing(disk.meta)
      <4>1. Ordered(msgs') /\ nextSeq' = Max({oldSeq, MaxSeq(msgs')})
        BY <2>2, <3>2, RestoreEffect, OrderedEmpty DEF Numbered
      <4>2. PICK l \in Nat : l = MaxSeq(msgs') /\ \A i \in 1..Len(msgs') : msgs'[i].seq <= l
        BY <4>1, MaxSeqIsLast
      <4>3. nextSeq' \in Nat /\ l <= nextSeq'
        BY <2>2, <4>1, <4>2, MaxOfTwo
      <4>4. \A i \in 1..Len(msgs') : msgs'[i].seq \in Nat
        BY <4>1 DEF Ordered
      <4>5. \A i \in 1..Len(msgs') : msgs'[i].seq <= nextSeq'
        BY <4>2, <4>3, <4>4
      <4> QED
        BY <4>1, <4>3, <4>5
    <3> QED
      BY <3>1, <3>2
  <2>3. CASE RestoreSession(<<>>, 0)
    <3>1. \A i \in 1..Len(<<>>) : <<>>[i].seq <= 0
      BY OrderedEmpty
    <3>2. Ordered(msgs') /\ nextSeq' \in Nat /\ \A i \in 1..Len(msgs') : msgs'[i].seq <= nextSeq'
      BY <2>2, <2>3, <3>1, OrderedEmpty
    <3> QED
      BY <2>1, <3>2 DEF Numbered
  <2>4. CASE RestoreSession(msgs, nextSeq)
    <3>1. Ordered(msgs') /\ nextSeq' \in Nat /\ \A i \in 1..Len(msgs') : msgs'[i].seq <= nextSeq'
      BY <2>2, <2>4 DEF Numbered
    <3> QED
      BY <2>1, <3>1 DEF Numbered
  <2> QED
    BY <1>5, <2>3, <2>4 DEF StartTurn
<1> QED
  BY <1>1, <1>2, <1>3, <1>4, <1>5 DEF Next, RunStep, Rounds, TurnStep

(* Where nothing new is left, every message has its entry: the numbers of   *)
(* messages differ, so an entry that is there is that of the message.       *)
LEMMA NothingNew ==
    ASSUME Numbered, Kept, NoFaults, pc = "save", NewMessages = {}
    PROVE  AllEntered(msgs, disk.hist)
<1> SUFFICES ASSUME NEW i \in 1..Len(msgs), msgs[i].seq # 0
             PROVE  msgs[i].seq \in DOMAIN disk.hist /\ disk.hist[msgs[i].seq] = Fact(msgs[i])
  BY DEF AllEntered
<1>1. msgs[i].seq \in Nat /\ Total \in Nat /\ Total = saving.prev
  BY DEF Numbered, Ordered, Kept, Total
<1>2. CASE msgs[i].seq <= Total
  BY <1>2 DEF Kept, Entered
<1>3. CASE msgs[i].seq > Total
  <2>1. msgs[i].seq \in DOMAIN disk.hist
    BY <1>1, <1>3 DEF NewMessages
  <2>2. PICK k \in 1..Len(msgs) : msgs[k].seq = msgs[i].seq /\ disk.hist[msgs[i].seq] = Fact(msgs[k])
    BY <1>1, <1>3, <2>1 DEF Kept
  <2>3. k = i
    <3>1. ~(k < i) /\ ~(i < k)
      BY <1>1, <2>2 DEF Numbered, Ordered, Grows
    <3>2. k \in Int /\ i \in Int
      OBVIOUS
    <3> QED
      BY <3>1, <3>2
  <2> QED
    BY <2>1, <2>2, <2>3
<1> QED
  BY <1>1, <1>2, <1>3

(* An entry more. *)
LEMMA KeptAppend ==
    ASSUME Shapes, Numbered, Kept, NoFaults, pc = "save", pc' = "save", saving.stage = "history",
           UNCHANGED <<faults, msgs, nextSeq>>, AppendHistory
    PROVE  Kept'
<1>1. /\ Total \in Nat /\ Total <= nextSeq /\ Total <= LastSeq(msgs) /\ Total = saving.prev
      /\ Entered(msgs, Total, disk.hist)
      /\ Missing(disk.context) \/ AllEntered(disk.context[1], disk.hist)
  BY DEF Kept, Total
<1>2. CASE NewMessages = {}
  <2>1. disk' = disk /\ saving' = [saving EXCEPT !.stage = "dropMeta"]
    BY <1>2, AppendEffect
  <2>2. saving'.stage = "dropMeta" /\ saving'.prev = saving.prev
    BY <2>1 DEF Shapes
  <2>3. Total' = Total
    BY <2>2 DEF Total
  <2>4. AllEntered(msgs, disk.hist)
    BY <1>2, NothingNew
  <2>5. \A s \in DOMAIN disk.hist :
             /\ s \in Nat
             /\ s <= Total \/ \E i \in 1..Len(msgs) : msgs[i].seq = s /\ disk.hist[s] = Fact(msgs[i])
    BY DEF Kept
  <2> QED
    BY <1>1, <2>1, <2>2, <2>3, <2>4, <2>5 DEF Kept
<1>3. CASE NewMessages # {}
  <2> DEFINE m == msgs[Min(NewMessages)]
  <2>1. /\ saving' = saving /\ disk'.meta = disk.meta /\ disk'.context = disk.context
        /\ DOMAIN disk'.hist = DOMAIN disk.hist \cup {m.seq}
        /\ \A s \in DOMAIN disk'.hist : (s = m.seq => disk'.hist[s] = Fact(m)) /\ (s # m.seq => disk'.hist[s] = disk.hist[s])
    BY <1>3, AppendEffect
  <2>2. /\ Min(NewMessages) \in 1..Len(msgs) /\ m.seq > saving.prev /\ m.seq \notin DOMAIN disk.hist
    BY <1>3, NewMessage
  <2>3. m.seq \in Nat
    BY <2>2 DEF Numbered, Ordered
  <2>4. Total' = Total
    BY <2>1 DEF Total
  <2>5. PICK x \in 1..Len(msgs) : msgs[x] = m
    BY <2>2
  <2> HIDE DEF m
  <2>6. \A s \in DOMAIN disk.hist : s \in DOMAIN disk'.hist /\ disk'.hist[s] = disk.hist[s]
    BY <2>1, <2>2
  <2>7. Entered(msgs, Total, disk'.hist)
    BY <1>1, <2>6 DEF Entered
  <2>8. Missing(disk.context) \/ AllEntered(disk.context[1], disk'.hist)
    BY <1>1, <2>6 DEF AllEntered
  <2>9. \A s \in DOMAIN disk'.hist :
             /\ s \in Nat
             /\ s <= Total \/ \E i \in 1..Len(msgs) : msgs[i].seq = s /\ disk'.hist[s] = Fact(msgs[i])
    <3> TAKE s \in DOMAIN disk'.hist
    <3>1. CASE s = m.seq
      BY <2>1, <2>3, <2>5, <3>1
    <3>2. CASE s # m.seq
      <4>1. s \in DOMAIN disk.hist /\ disk'.hist[s] = disk.hist[s]
        BY <2>1, <3>2
      <4> QED
        BY <4>1 DEF Kept
    <3> QED
      BY <3>1, <3>2
  <2> QED
    BY <1>1, <2>1, <2>4, <2>7, <2>8, <2>9 DEF Kept
<1> QED
  BY <1>2, <1>3

LEMMA KeptSave ==
    ASSUME Shapes, Numbered, Planned, Kept, SaveStep
    PROVE  Kept'
<1> SUFFICES ASSUME NoFaults PROVE Kept'
  <2>1. NoFaults' = NoFaults
    BY StageEffect DEF NoFaults
  <2> QED
    BY <2>1 DEF Kept
<1>1. pc = "save" /\ UNCHANGED <<faults, msgs, nextSeq>> /\ Total = saving.prev
  BY StageEffect DEF coreVars, Total
<1>2. /\ Total \in Nat /\ Total <= nextSeq /\ Total <= LastSeq(msgs) /\ Entered(msgs, Total, disk.hist)
      /\ \A s \in DOMAIN disk.hist :
             /\ s \in Nat
             /\ s <= Total \/ \E i \in 1..Len(msgs) : msgs[i].seq = s /\ disk.hist[s] = Fact(msgs[i])
      /\ Missing(disk.context) \/ AllEntered(disk.context[1], disk.hist)
      /\ saving.stage # "history" => AllEntered(msgs, disk.hist)
      /\ saving.stage \in {"dropContext", "context"} =>
             ~Missing(disk.meta) /\ disk.meta[1].totalSeq = LastSeq(msgs)
  BY <1>1 DEF Kept
<1>3. MaxSeq(msgs) = LastSeq(msgs) /\ LastSeq(msgs) \in Nat /\ \A i \in 1..Len(msgs) : msgs[i].seq <= LastSeq(msgs)
  BY MaxSeqIsLast DEF Numbered
<1>4. CASE saving.stage = "history"
  BY <1>1, <1>4, KeptAppend, StageEffect
<1>5. CASE saving.stage \in {"dropMeta", "meta", "dropContext"}
  <2>1. /\ pc' = "save" /\ saving'.prev = saving.prev /\ disk'.hist = disk.hist
        /\ disk'.context = disk.context \/ Missing(disk'.context)
        /\ saving'.stage \in {"meta", "dropContext", "context"}
    BY <1>5, StageEffect
  <2>2. Total' = Total
    BY <1>1, <2>1 DEF Total
  <2>3. saving'.stage \in {"dropContext", "context"} => ~Missing(disk'.meta) /\ disk'.meta[1].totalSeq = LastSeq(msgs)
    <3>1. CASE saving.stage = "dropMeta"
      BY <3>1, StageEffect
    <3>2. CASE saving.stage = "meta"
      <4>1. ~Missing(disk'.meta) /\ disk'.meta[1].totalSeq = Max({saving.prev, MaxSeq(msgs)})
        BY <3>2, StageEffect
      <4>2. Max({saving.prev, MaxSeq(msgs)}) = LastSeq(msgs)
        BY <1>1, <1>2, <1>3, MaxOfTwo
      <4> QED
        BY <4>1, <4>2
    <3>3. CASE saving.stage = "dropContext"
      BY <1>2, <3>3, StageEffect
    <3> QED
      BY <1>5, <3>1, <3>2, <3>3
  <2>4. AllEntered(msgs, disk.hist) /\ (Missing(disk'.context) \/ AllEntered(disk'.context[1], disk.hist))
    BY <1>2, <1>5, <2>1
  <2> QED
    BY <1>1, <1>2, <2>1, <2>2, <2>3, <2>4 DEF Kept
<1>6. CASE saving.stage = "context"
  <2>1. /\ pc' = saving.then /\ disk'.hist = disk.hist /\ disk'.meta = disk.meta
        /\ ~Missing(disk'.context) /\ disk'.context[1] = msgs
    BY <1>6, StageEffect
  <2>2. pc' # "save"
    BY <1>1, <2>1 DEF Planned
  <2>3. ~Missing(disk.meta) /\ disk.meta[1].totalSeq = LastSeq(msgs) /\ AllEntered(msgs, disk.hist)
    BY <1>2, <1>6
  <2>4. Total' = LastSeq(msgs)
    BY <2>1, <2>2, <2>3 DEF Total
  <2>5. LastSeq(msgs) <= nextSeq
    <3>1. LastSeq(msgs) = 0 \/ \E i \in 1..Len(msgs) : LastSeq(msgs) = msgs[i].seq
      <4>1. Len(msgs) \in Nat /\ (msgs = <<>> <=> Len(msgs) = 0)
        BY IsSeq DEF Numbered, Ordered
      <4> QED
        BY <4>1 DEF LastSeq
    <3> QED
      BY <3>1 DEF Numbered
  <2>6. Entered(msgs, LastSeq(msgs), disk.hist)
    BY <2>3 DEF Entered, AllEntered
  <2>7. \A s \in DOMAIN disk.hist : s \in Nat /\ s <= LastSeq(msgs)
    BY <1>2, <1>3
  <2>8. LastSeq(msgs) <= LastSeq(msgs)
    BY <1>3
  <2> QED
    BY <1>1, <1>3, <2>1, <2>2, <2>3, <2>4, <2>5, <2>6, <2>7, <2>8 DEF Kept
<1> QED
  BY <1>4, <1>5, <1>6, StageEffect

LEMMA KeptNext ==
    ASSUME Shapes, Numbered, Planned, Kept, [Next]_vars
    PROVE  Kept'
<1>1. CASE UNCHANGED vars
  BY <1>1 DEF vars, Kept, Total, NoFaults
<1>2. CASE SaveFails \/ Crash
  <2>1. faults' = [faults EXCEPT !.lost = @ + 1] \/ faults' = [faults EXCEPT !.crash = @ + 1]
    BY <1>2 DEF SaveFails, Crash
  <2>2. ~NoFaults'
    BY <2>1 DEF NoFaults, Shapes
  <2> QED
    BY <2>2 DEF Kept
<1>3. CASE TurnStep
  BY <1>3, TurnStepEffect, KeptFrame
<1>4. CASE SaveStep
  BY <1>4, KeptSave
<1>5. ASSUME NEW fresh, StartTurn(fresh) PROVE Kept'
  <2> SUFFICES ASSUME NoFaults' PROVE Kept'
    BY DEF Kept
  <2>1. pc = "idle" /\ pc' \in {"orch", "route"} /\ UNCHANGED <<disk, faults>>
    BY <1>5, ResumeEffect
  <2>2. NoFaults /\ Total' = Total
    BY <2>1 DEF NoFaults, Total
  <2>3. /\ Total \in Nat /\ \A s \in DOMAIN disk.hist : s \in Nat /\ s <= Total
        /\ Missing(disk.context) \/ AllEntered(disk.context[1], disk.hist)
        /\ Missing(disk.meta) <=> Missing(disk.context)
        /\ Missing(disk.context) \/ Total <= LastSeq(disk.context[1])
    BY <2>1, <2>2 DEF Kept
  <2>4. ASSUME NEW old, NEW oldSeq, RestoreSession(old, oldSeq), oldSeq \in Nat, Ordered(old)
        PROVE  Total <= nextSeq' /\ Total <= LastSeq(msgs') /\ Entered(msgs', Total, disk.hist)
    <3>1. CASE Missing(disk.meta)
      <4>1. Total = 0 /\ msgs' = old /\ nextSeq' = oldSeq
        BY <2>1, <2>4, <3>1, RestoreEffect DEF Total
      <4>2. LastSeq(old) \in Nat /\ \A i \in 1..Len(old) : old[i].seq \in Nat
        BY <2>4, MaxSeqIsLast DEF Ordered
      <4>3. Entered(old, 0, disk.hist)
        BY <4>2 DEF Entered
      <4> QED
        BY <2>4, <4>1, <4>2, <4>3
    <3>2. CASE ~Missing(disk.meta)
      <4>1. msgs' = disk.context[1] /\ nextSeq' = Max({oldSeq, MaxSeq(msgs')}) /\ Ordered(msgs')
        BY <2>3, <2>4, <3>2, RestoreEffect DEF Numbered
      <4>2. PICK l \in Nat : l = LastSeq(msgs') /\ l = MaxSeq(msgs')
        BY <4>1, MaxSeqIsLast
      <4>3. nextSeq' \in Nat /\ l <= nextSeq'
        BY <2>4, <4>1, <4>2, MaxOfTwo
      <4>4. Total <= l
        BY <2>3, <3>2, <4>1, <4>2
      <4>5. Entered(msgs', Total, disk.hist)
        BY <2>3, <3>2, <4>1 DEF AllEntered, Entered
      <4> QED
        BY <2>3, <4>2, <4>3, <4>4, <4>5
    <3> QED
      BY <3>1, <3>2
  <2>5. RestoreSession(<<>>, 0) \/ RestoreSession(msgs, nextSeq)
    BY <1>5 DEF StartTurn
  <2>6. Total <= nextSeq' /\ Total <= LastSeq(msgs') /\ Entered(msgs', Total, disk.hist)
    BY <2>4, <2>5, OrderedEmpty DEF Numbered
  <2> QED
    BY <2>1, <2>2, <2>3, <2>6 DEF Kept
<1> QED
  BY <1>1, <1>2, <1>3, <1>4, <1>5 DEF Next, RunStep, Rounds, TurnStep

HistoryInv == PlanInv /\ Numbered /\ Kept

LEMMA HistoryInvInit == Init => HistoryInv
<1> SUFFICES ASSUME Init PROVE HistoryInv
  OBVIOUS
<1>1. /\ pc = "idle" /\ msgs = <<>> /\ nextSeq = 0 /\ disk.hist = <<>>
      /\ Missing(disk.meta) /\ Missing(disk.context)
  BY DEF Init, EmptyDisk, Missing
<1>2. \A i \in 1..Len(<<>>) : FALSE
  BY OrderedEmpty
<1>3. Numbered
  BY <1>1, <1>2, OrderedEmpty DEF Numbered
<1>4. Total = 0 /\ LastSeq(msgs) = 0 /\ DOMAIN disk.hist = {}
  <2>1. DOMAIN <<>> = {}
    OBVIOUS
  <2> QED
    BY <1>1, <2>1, OrderedEmpty DEF Total
<1>5. Entered(msgs, Total, disk.hist)
  BY <1>1, <1>2 DEF Entered
<1>6. Kept
  BY <1>1, <1>4, <1>5 DEF Kept
<1> QED
  BY <1>3, <1>6, PlanInvInit DEF HistoryInv

LEMMA HistoryInvNext == HistoryInv /\ [Next]_vars => HistoryInv'
BY PlanInvNext, NumberedNext, KeptNext DEF HistoryInv, PlanInv

LEMMA HistoryInvKept == HistoryInv => HistoryKept
<1> SUFFICES ASSUME HistoryInv PROVE HistoryKept
  OBVIOUS
<1>1. SeqsGrow
  BY DEF HistoryInv, Numbered, Ordered, Grows, SeqsGrow
<1>2. HistoryComplete
  <2> SUFFICES ASSUME NoFaults, ~Missing(disk.context), NEW m \in ToSet(disk.context[1]), m.seq # 0
               PROVE  m.seq \in DOMAIN disk.hist /\ disk.hist[m.seq] = Fact(m)
    BY DEF HistoryComplete, NoFaults
  <2>1. Ordered(disk.context[1]) /\ AllEntered(disk.context[1], disk.hist)
    BY DEF HistoryInv, Numbered, Kept
  <2>2. DOMAIN disk.context[1] = 1..Len(disk.context[1])
    BY <2>1, IsSeq DEF Ordered
  <2>3. PICK i \in 1..Len(disk.context[1]) : m = disk.context[1][i]
    BY <2>2 DEF ToSet
  <2> QED
    BY <2>1, <2>3 DEF AllEntered
<1> QED
  BY <1>1, <1>2 DEF HistoryKept

(* The numbers of messages are unique and grow, over compactions, restarts  *)
(* and crashes, and as long as no save was interrupted everything in the    *)
(* saved context has its own entry in the history (appendMessage,           *)
(* restoreSession, session_store.go Save and AppendHistory).                *)
THEOREM HistoryIsKept == Spec => []HistoryKept
BY HistoryInvInit, HistoryInvNext, HistoryInvKept, PTL DEF Spec
=============================================================================
