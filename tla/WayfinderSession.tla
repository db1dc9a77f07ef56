-------------------------- MODULE WayfinderSession --------------------------
(***************************************************************************)
(* What the Wayfinder agent does with its list of messages when the model  *)
(* says that the context is too long (wayfinder/session/compaction.go),    *)
(* how the part that is summarized is cut into chunks                      *)
(* (map_reduce_summarizer.go), and the steps of a plan (planning/          *)
(* wbs_tree.go).  Pure operators, used by WayfinderAgent.                  *)
(*                                                                         *)
(* A message is [role, seq, turn, calls, call, covers]: the turn stands    *)
(* for the content, calls are the tools an assistant message calls, call   *)
(* is the call a tool message answers (the sequence number of the          *)
(* assistant message and the position in its calls), and covers are the    *)
(* messages a summary was made from.                                       *)
(***************************************************************************)
EXTENDS Naturals, Sequences, FiniteSets, SequencesExt, FiniteSetsExt

NoCall == <<0, 0>>

Message(role, seq, turn, calls, call) ==
    [role |-> role, seq |-> seq, turn |-> turn, calls |-> calls, call |-> call, covers |-> {}]

\* A message as the summary names it.
Fact(m) == <<m.seq, m.turn>>

IsTool(m) == m.role = "tool"
CallsTools(m) == m.role = "assistant" /\ m.calls # <<>>

-----------------------------------------------------------------------------
(* The boundary of a compaction: the number of messages it takes away.      *)

\* The last position up to b of a message in stops, 1 when there is none: the
\* loops walk down and stop at the first message whatever it is.
WalkDown(b, stops) == Max(((1..b) \cap stops) \cup {1})

AdjustBoundaryForToolPairs(ms, boundary) ==
    LET at == WalkDown(boundary + 1, {i \in DOMAIN ms : ~IsTool(ms[i])}) IN
    IF boundary = 0 \/ boundary >= Len(ms) \/ ~IsTool(ms[boundary + 1]) \/ ~CallsTools(ms[at])
    THEN boundary
    ELSE at - 1

\* A boundary that looks for the next prompt instead of the last one.
AdjustForward(ms, boundary) ==
    Min({i \in boundary + 1 .. Len(ms) : ms[i].role = "user"} \cup {Len(ms) + 1}) - 1

AdjustBoundaryForUserStart(ms, boundary) ==
    IF boundary = 0 \/ boundary >= Len(ms)
    THEN boundary
    ELSE WalkDown(boundary + 1, {i \in DOMAIN ms : ms[i].role = "user"}) - 1

ValidateToolPairIntegrity(ms) ==
    \A i \in 1..Len(ms) : IsTool(ms[i]) =>
        \E j \in 1..(i - 1) : CallsTools(ms[j]) /\ \A k \in (j + 1)..i : IsTool(ms[k])

\* The first message that is not of the system; a summary is one of the system.
ValidateMessageOrdering(ms) ==
    LET others == {i \in 1..Len(ms) : ms[i].role # "system"} IN
    others # {} => ms[Min(others)].role = "user"

\* The log given to the model has the lines of users, assistants and tools only.
BuildConversationLog(ms) == {Fact(m) : m \in {n \in ToSet(ms) : n.role # "system"}}

\* The ratio is a half, rounded up.  No message is pinned: the flag is set on a summary,
\* and convertFromSessionMessages has no place for it.
CompactCount(ms) == (Len(ms) + 1) \div 2

Summary(ms) == [Message("system", 0, 0, <<>>, NoCall) EXCEPT !.covers = BuildConversationLog(ms)]

Compact(ms) ==
    LET count == CompactCount(ms)
        boundary == AdjustBoundaryForUserStart(ms, AdjustBoundaryForToolPairs(ms, count))
        result == <<Summary(SubSeq(ms, 1, boundary))>> \o SubSeq(ms, boundary + 1, Len(ms))
    IN  IF /\ count \in 1..(Len(ms) - 1)
           /\ boundary # 0
           /\ ValidateToolPairIntegrity(result)
           /\ ValidateMessageOrdering(result)
        THEN result
        ELSE ms

-----------------------------------------------------------------------------
(* Chunks of at most four, and the pairwise reduction of their summaries.   *)

MaxChunks == 4

ChunkBoundaries(ms, maxChunkMsgs) ==
    LET count == Min({(Len(ms) + maxChunkMsgs - 1) \div maxChunkMsgs, MaxChunks})
        size == Len(ms) \div count
    IN  [i \in 1..(count - 1) |-> AdjustBoundaryForToolPairs(ms, size * i)]

\* A boundary that is not past the one before it is skipped.  Boundaries never decrease
\* (two that fall into one tool round move to the same message), so the cuts are a set.
SplitIntoChunks(ms, maxChunkMsgs) ==
    LET bounds == ChunkBoundaries(ms, maxChunkMsgs)
        cuts == {0} \cup ToSet(bounds) \cup {Len(ms)}
        ends == SetToSortSeq(cuts, <)
    IN  [i \in 1..(Len(ends) - 1) |-> SubSeq(ms, ends[i] + 1, ends[i + 1])]

-----------------------------------------------------------------------------
(* A plan: its nodes in the order of the tree, with the id and the          *)
(* dependencies of each, and the status of each id.  Nothing keeps the      *)
(* model from giving two nodes one id: a status is set on both.             *)

NoTree == [order |-> <<>>, deps |-> <<>>, status |-> <<>>]
Steps(tree) == ToSet(tree.order)

\* Nodes whose dependencies were started.
NodesOfStarted(tree) ==
    {i \in DOMAIN tree.order :
        /\ tree.status[tree.order[i]] = "pending"
        /\ \A d \in tree.deps[i] : d \in Steps(tree) /\ tree.status[d] # "failed"}

NextExecutableNodes(tree) ==
    {i \in DOMAIN tree.order :
        /\ tree.status[tree.order[i]] = "pending"
        /\ \A d \in tree.deps[i] : d \in Steps(tree) /\ tree.status[d] = "completed"}

\* They are executed in the order of the tree.
FirstNode(nodes) == Min(nodes)

IsComplete(tree) == \A n \in Steps(tree) : tree.status[n] = "completed"
HasFailed(tree) == \E n \in Steps(tree) : tree.status[n] = "failed"

\* Nothing executable: deadlocked when a step is pending, an error in any case.
NoneExecutable(tree) == NextExecutableNodes(tree) = {}

\* Every node with the id of node i gets the status.
UpdateNodeStatus(tree, i, status) == [tree EXCEPT !.status[tree.order[i]] = status]
=============================================================================
