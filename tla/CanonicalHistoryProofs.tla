----------------------- MODULE CanonicalHistoryProofs -----------------------
(***************************************************************************)
(* Machine-checked proofs about CanonicalHistory, for any set of agents,   *)
(* any events and any number of turns, PATCHes, stops and crashes.         *)
(*                                                                         *)
(* Whatever metadata a step finds, it is a copy that was once written, and *)
(* the history has only grown since: no copy ever counts a message that is *)
(* not there, so the number the next append begins with is at most one     *)
(* behind the last file, and a file that exists is kept.                   *)
(*                                                                         *)
(* The second part (Sound) follows the messages of an append from the      *)
(* queue into the files and TotalSeq, the third (Contexts) the threads of  *)
(* the agents and what each has been told.                                 *)
(***************************************************************************)
EXTENDS CanonicalHistory, TLAPS, SequenceTheorems, FiniteSetTheorems, WellFoundedInduction

IsSequence(h) == h \in Seq({h[s] : s \in DOMAIN h})
Longer(h, m) == [s \in DOMAIN h \cup {Len(h) + 1} |-> IF s = Len(h) + 1 THEN m ELSE h[s]]

HistOK == IsSequence(hist)

(* A copy of the metadata counts at most the first n messages. *)
CopyOK(m, n) ==
    m # Missing =>
        /\ DOMAIN m = {"total", "active", "bind"} /\ m.total \in 0..n
        /\ DOMAIN m.bind = Agents /\ \A a \in Agents : m.bind[a].through \in 0..n

Copies(n) ==
    /\ CopyOK(meta, n) /\ CopyOK(tmp, n)
    /\ DOMAIN job = Procs /\ \A p \in Procs : CopyOK(job[p].meta, n)

LocalsOK(n) ==
    /\ DOMAIN turn = DOMAIN NoTurn
    /\ turn.seq \in 1..(n + 1) /\ turn.through \in 0..n

Counted == HistOK /\ Copies(Len(hist)) /\ LocalsOK(Len(hist))

(* Adding one element at the end of a sequence. *)
LEMMA OneLonger ==
    ASSUME NEW h, IsSequence(h), NEW m, NEW g, g = Longer(h, m)
    PROVE  /\ IsSequence(g)
           /\ Len(g) = Len(h) + 1
           /\ \A i \in 1..Len(h) : g[i] = h[i]
<1> DEFINE G == {g[s] : s \in DOMAIN g}
<1>1. Len(h) \in Nat /\ DOMAIN h = 1..Len(h)
  BY LenProperties DEF IsSequence
<1>2. DOMAIN g = 1..(Len(h) + 1)
  BY <1>1 DEF Longer
<1>3. g \in [1..(Len(h) + 1) -> G]
  BY <1>2 DEF Longer
<1>4. g \in Seq(G)
  <2> HIDE DEF G
  <2>1. Len(h) + 1 \in Nat
    BY <1>1
  <2>2. Seq(G) = UNION {[1..n -> G] : n \in Nat}
    BY SeqDef, Zenon
  <2> QED
    BY <1>3, <2>1, <2>2, Zenon
<1>5. Len(g) \in Nat /\ DOMAIN g = 1..Len(g)
  BY <1>4, LenProperties
<1>6. Len(g) = Len(h) + 1
  BY <1>1, <1>2, <1>5
<1>7. \A i \in 1..Len(h) : g[i] = h[i]
  BY <1>1 DEF Longer
<1> QED
  BY <1>4, <1>6, <1>7 DEF IsSequence

LEMMA HistFacts == ASSUME HistOK PROVE Len(hist) \in Nat /\ DOMAIN hist = 1..Len(hist)
BY LenProperties DEF HistOK, IsSequence

(* A scan of the directory finds the last file. *)
LEMMA LastFound == ASSUME HistOK PROVE MaxHistorySeq = Len(hist)
<1>1. Len(hist) \in Nat /\ DOMAIN hist = 1..Len(hist)
  BY HistFacts
<1>2. Len(hist) \in DOMAIN hist \cup {0} /\ \A s \in DOMAIN hist : s <= Len(hist)
  BY <1>1
<1>3. \A n \in DOMAIN hist \cup {0} : (\A s \in DOMAIN hist : s <= n) => n = Len(hist)
  <2>1. ASSUME NEW n \in DOMAIN hist \cup {0}, \A s \in DOMAIN hist : s <= n PROVE n = Len(hist)
    <3>1. n <= Len(hist) /\ (Len(hist) # 0 => Len(hist) <= n)
      BY <1>1, <2>1
    <3> QED
      BY <1>1, <3>1
  <2> QED
    BY <2>1
<1> QED
  BY <1>2, <1>3 DEF MaxHistorySeq

(* A file is written behind the last one, or not at all. *)
LEMMA WrittenExtends ==
    ASSUME HistOK, NEW seq \in 1..(Len(hist) + 1), NEW m, hist' = Written(seq, m)
    PROVE  /\ HistOK' /\ seq <= Len(hist') /\ Len(hist) <= Len(hist')
           /\ hist' = hist \/ Log!Extend
<1>1. Len(hist) \in Nat /\ DOMAIN hist = 1..Len(hist)
  BY HistFacts
<1>2. CASE seq \in DOMAIN hist
  BY <1>1, <1>2 DEF Written, HistOK
<1>3. CASE seq \notin DOMAIN hist
  <2>1. seq = Len(hist) + 1
    BY <1>1, <1>3
  <2>2. hist' = Longer(hist, m)
    BY <1>3, <2>1 DEF Written, Longer
  <2>3. IsSequence(hist') /\ Len(hist') = Len(hist) + 1 /\ \A i \in 1..Len(hist) : hist'[i] = hist[i]
    BY <2>2, OneLonger DEF HistOK
  <2> QED
    BY <1>1, <2>1, <2>3 DEF HistOK, Log!Extend
<1> QED
  BY <1>2, <1>3

-----------------------------------------------------------------------------
(* The history only grows, so a copy that was right stays right. *)
LEMMA CopyGrows ==
    ASSUME NEW m, NEW n \in Nat, NEW k \in Nat, n <= k, CopyOK(m, n) PROVE CopyOK(m, k)
BY DEF CopyOK

LEMMA FreshOK == ASSUME NEW a, NEW n \in Nat PROVE CopyOK(Fresh(a), n)
BY DEF CopyOK, Fresh, NoBinding

(* A copy is taken up to be saved. *)
LEMMA SavesOK ==
    ASSUME NEW n \in Nat, n = Len(hist), Copies(n), NEW p \in Procs, NEW m, NEW ret, NEW err,
           CopyOK(m, n), Saves(p, m, ret, err), UNCHANGED fileVars
    PROVE  Copies(n)'
<1>1. job' = [job EXCEPT ![p] = [meta |-> m, ret |-> ret, err |-> err]] /\ UNCHANGED <<meta, tmp>>
  BY DEF Saves, fileVars
<1>2. DOMAIN job' = Procs /\ \A q \in Procs : job'[q].meta = IF q = p THEN m ELSE job[q].meta
  BY <1>1 DEF Copies
<1> QED
  BY <1>1, <1>2 DEF Copies, CopyOK

(* The counters of a turn's locals, whatever else of them changes. *)
LEMMA LocalsSame ==
    ASSUME NEW n \in Nat, LocalsOK(n), DOMAIN turn' = DOMAIN turn,
           turn'.seq = turn.seq, turn'.through = turn.through
    PROVE  LocalsOK(n)'
BY DEF LocalsOK

LEMMA NoTurnOK == ASSUME NEW n \in Nat, turn' = NoTurn PROVE LocalsOK(n)'
BY DEF LocalsOK, NoTurn

(* Steps that leave the metadata and its copies alone. *)
LEMMA CopiesSame ==
    ASSUME NEW n \in Nat, Copies(n), UNCHANGED <<fileVars, job>> PROVE Copies(n)'
BY DEF Copies, CopyOK, fileVars

LEMMA CountedAgain ==
    ASSUME NEW n, n = Len(hist'), HistOK', Copies(n)', LocalsOK(n)' PROVE Counted'
BY DEF Counted, Copies, LocalsOK, CopyOK

(* Every step keeps the counts right, and changes the history only by one  *)
(* message at its end.                                                     *)
LEMMA CountedStep == Counted /\ [Next]_vars => Counted' /\ (hist' = hist \/ Log!Extend)
<1> SUFFICES ASSUME Counted, [Next]_vars PROVE Counted' /\ (hist' = hist \/ Log!Extend)
  OBVIOUS
<1>n. PICK n \in Nat : n = Len(hist) /\ DOMAIN hist = 1..n
  BY HistFacts DEF Counted
<1>c. HistOK /\ Copies(n) /\ LocalsOK(n)
  BY <1>n DEF Counted
<1>h. ASSUME hist' = hist, Copies(n)', LocalsOK(n)' PROVE Counted' /\ (hist' = hist \/ Log!Extend)
  BY <1>c, <1>h, <1>n, CountedAgain DEF HistOK, IsSequence
<1>k. UNCHANGED <<fileVars, job>> => Copies(n)'
  BY <1>c, CopiesSame
<1>t. UNCHANGED turn => LocalsOK(n)'
  BY <1>c, LocalsSame
<1>r. turn' = NoTurn => LocalsOK(n)'
  BY NoTurnOK
<1>1. CASE SendMessage
  <2>1. DOMAIN turn' = DOMAIN NoTurn /\ turn'.seq = 1 /\ turn'.through = 0
    BY <1>1 DEF SendMessage, NoTurn
  <2>2. LocalsOK(n)'
    BY <2>1 DEF LocalsOK
  <2> QED
    BY <1>1, <1>h, <1>k, <2>2 DEF SendMessage, fileVars
<1>2. CASE InitMetadata
  <2>1. UNCHANGED fileVars /\ LocalsOK(n)'
    BY <1>2, <1>t DEF InitMetadata
  <2>2. CASE UNCHANGED job
    BY <1>h, <1>k, <2>1, <2>2 DEF fileVars
  <2>3. CASE \E m, ret, err : CopyOK(m, n) /\ Saves("turn", m, ret, err)
    BY <1>h, <1>c, <1>n, <2>1, <2>3, SavesOK DEF fileVars, Procs
  <2>4. meta # Missing => CopyOK([meta EXCEPT !.active = turn.origin], n)
    BY <1>c DEF Copies, CopyOK
  <2>5. CopyOK(Fresh(turn.origin), n)
    BY FreshOK
  <2> QED
    BY <1>2, <2>2, <2>3, <2>4, <2>5 DEF InitMetadata
<1>3. CASE AppendBegins
  <2>1. UNCHANGED fileVars /\ LocalsOK(n)'
    BY <1>3, <1>t DEF AppendBegins
  <2>2. CASE UNCHANGED job
    BY <1>h, <1>k, <2>1, <2>2 DEF fileVars
  <2>3. CASE Saves("turn", Fresh(NoAgent), "number", OnError)
    BY <1>h, <1>c, <1>n, <2>1, <2>3, SavesOK, FreshOK DEF fileVars, Procs
  <2> QED
    BY <1>3, <2>2, <2>3 DEF AppendBegins
<1>4. CASE AppendNumbers
  <2>1. NextSeq \in 1..(n + 1)
    BY <1>c, <1>n, LastFound DEF NextSeq, Copies, CopyOK
  <2>2. DOMAIN turn' = DOMAIN turn /\ turn'.seq = NextSeq /\ turn'.through = turn.through
    BY <1>4, <1>c DEF AppendNumbers, LocalsOK, NoTurn
  <2>3. LocalsOK(n)'
    BY <1>c, <2>1, <2>2 DEF LocalsOK
  <2> QED
    BY <1>4, <1>h, <1>k, <2>3 DEF AppendNumbers, fileVars
<1>5. CASE AppendFile
  <2>1. turn.seq \in 1..(n + 1) /\ hist' = Written(turn.seq, turn.queue[turn.done + 1])
    BY <1>5, <1>c DEF AppendFile, LocalsOK
  <2>2. HistOK' /\ turn.seq <= Len(hist') /\ n <= Len(hist') /\ (hist' = hist \/ Log!Extend)
    BY <1>c, <1>n, <2>1, WrittenExtends
  <2>3. PICK k \in Nat : k = Len(hist')
    BY <2>2, LenProperties DEF HistOK, IsSequence
  <2>4. DOMAIN turn' = DOMAIN turn /\ turn'.seq = turn.seq + 1 /\ turn'.through = turn.through
    BY <1>5, <1>c DEF AppendFile, LocalsOK, NoTurn
  <2>5. LocalsOK(k)'
    BY <1>c, <2>2, <2>3, <2>4 DEF LocalsOK
  <2>6. UNCHANGED <<meta, tmp, job>>
    BY <1>5 DEF AppendFile
  <2>7. /\ CopyOK(meta, k) /\ CopyOK(tmp, k) /\ DOMAIN job = Procs
        /\ \A p \in Procs : CopyOK(job[p].meta, k)
    BY <1>c, <2>2, <2>3, CopyGrows DEF Copies
  <2>8. Copies(k)'
    BY <2>6, <2>7 DEF Copies, CopyOK
  <2> QED
    BY <2>2, <2>3, <2>5, <2>8, CountedAgain
<1>6. CASE AppendTotal
  <2>1. UNCHANGED fileVars /\ LocalsOK(n)'
    BY <1>6, <1>t DEF AppendTotal
  <2>2. CASE UNCHANGED job
    BY <1>h, <1>k, <2>1, <2>2 DEF fileVars
  <2>3. CASE \E m, ret, err : CopyOK(m, n) /\ Saves("turn", m, ret, err)
    BY <1>h, <1>c, <1>n, <2>1, <2>3, SavesOK DEF fileVars, Procs
  <2>4. meta # Missing => TotalSeq(meta.total) \in 0..n
    BY <1>c DEF TotalSeq, Copies, CopyOK, LocalsOK
  <2>5. meta # Missing => CopyOK([meta EXCEPT !.total = TotalSeq(@)], n)
    BY <1>c, <2>4 DEF Copies, CopyOK
  <2> QED
    BY <1>6, <2>2, <2>3, <2>5 DEF AppendTotal
<1>7. CASE WrapPrompt
  <2>1. \/ DOMAIN turn' = DOMAIN turn /\ turn'.seq = turn.seq /\ turn'.through = turn.through
        \/ turn' = NoTurn
    BY <1>7, <1>c DEF WrapPrompt, LocalsOK, NoTurn, Returns
  <2>2. LocalsOK(n)'
    BY <1>c, <1>r, <2>1, LocalsSame
  <2> QED
    BY <1>7, <1>h, <1>k, <2>2 DEF WrapPrompt, fileVars
<1>8. CASE StartAgent
  <2>1. DOMAIN turn' = DOMAIN turn /\ turn'.seq = turn.seq /\ turn'.through = turn.through
    BY <1>8, <1>c DEF StartAgent, LocalsOK, NoTurn
  <2> QED
    BY <1>8, <1>c, <1>h, <1>k, <2>1, LocalsSame DEF StartAgent, fileVars
<1>9. CASE StartFails \/ TurnStopped \/ LeaveUningested \/ UpdateRecord
  BY <1>9, <1>h, <1>k, <1>r DEF StartFails, TurnStopped, LeaveUningested, UpdateRecord, Returns, fileVars
<1>10. CASE SelfHeal
  <2>1. DOMAIN turn' = DOMAIN turn /\ turn'.seq = turn.seq /\ turn'.through = turn.through
    BY <1>10, <1>c DEF SelfHeal, LocalsOK, NoTurn
  <2> QED
    BY <1>10, <1>c, <1>h, <1>k, <2>1, LocalsSame DEF SelfHeal, fileVars
<1>11. CASE TurnEnds
  <2>1. DOMAIN turn' = DOMAIN turn /\ turn'.seq = turn.seq /\ turn'.through = turn.through
    BY <1>11, <1>c DEF TurnEnds, LocalsOK, NoTurn
  <2> QED
    BY <1>11, <1>c, <1>h, <1>k, <2>1, LocalsSame DEF TurnEnds, fileVars
<1>12. CASE ReadThrough
  <2>1. /\ DOMAIN turn' = DOMAIN turn /\ turn'.seq = turn.seq
        /\ turn'.through = turn.through \/ (meta # Missing /\ turn'.through = meta.total)
    BY <1>12, <1>c DEF ReadThrough, LocalsOK, NoTurn
  <2>2. LocalsOK(n)'
    BY <1>c, <2>1 DEF LocalsOK, Copies, CopyOK
  <2> QED
    BY <1>12, <1>h, <1>k, <2>2 DEF ReadThrough, fileVars
<1>13. CASE UpdateBinding
  <2>1. UNCHANGED fileVars /\ LocalsOK(n)'
    BY <1>13, <1>t DEF UpdateBinding
  <2>2. CASE UNCHANGED job
    BY <1>h, <1>k, <2>1, <2>2 DEF fileVars
  <2>3. CASE \E m, ret, err : CopyOK(m, n) /\ Saves("turn", m, ret, err)
    BY <1>h, <1>c, <1>n, <2>1, <2>3, SavesOK DEF fileVars, Procs
  <2>4. meta # Missing => CopyOK(Bound(turn.origin, turn.native, turn.through), n)
    BY <1>c DEF Bound, Copies, CopyOK, LocalsOK
  <2>5. CopyOK(Fresh(turn.origin), n)
    BY FreshOK
  <2> QED
    BY <1>13, <2>2, <2>3, <2>4, <2>5 DEF UpdateBinding
<1>14. CASE (\E e \in EventKinds : AgentEmit(e)) \/ PatchAccepted \/ PatchRefused \/ PatchUpdate
  BY <1>14, <1>h, <1>k, <1>t DEF AgentEmit, PatchAccepted, PatchRefused, PatchUpdate, fileVars
<1>15. CASE PatchSupplement \/ \E a \in Agents : PatchAgent(a)
  <2>1. UNCHANGED fileVars /\ LocalsOK(n)'
    BY <1>15, <1>t DEF PatchSupplement, PatchAgent
  <2>2. CASE UNCHANGED job
    BY <1>h, <1>k, <2>1, <2>2 DEF fileVars
  <2>3. CASE \E m, ret, err : CopyOK(m, n) /\ Saves("patch", m, ret, err)
    BY <1>h, <1>c, <1>n, <2>1, <2>3, SavesOK DEF fileVars, Procs
  <2>4. CopyOK(meta, n) /\ \A a : meta # Missing => CopyOK([meta EXCEPT !.active = a], n)
    BY <1>c DEF Copies, CopyOK
  <2> QED
    BY <1>15, <2>2, <2>3, <2>4 DEF PatchSupplement, PatchAgent
<1>16. ASSUME NEW p \in Procs, SaveWrite(p) \/ SaveRemove(p) \/ SaveRename(p)
       PROVE  Counted' /\ (hist' = hist \/ Log!Extend)
  <2>1. hist' = hist /\ LocalsOK(n)'
    BY <1>16, <1>t DEF SaveWrite, SaveRemove, SaveRename
  <2>2. CopyOK(meta, n) /\ CopyOK(tmp, n) /\ CopyOK(Missing, n) /\ CopyOK(job[p].meta, n)
    BY <1>c DEF Copies, CopyOK
  <2>3. meta' \in {meta, tmp, Missing} /\ tmp' \in {tmp, job[p].meta, Missing}
    BY <1>16 DEF SaveWrite, SaveRemove, SaveRename
  <2>4. job' = job \/ job' = [job EXCEPT ![p] = NoJob]
    BY <1>16 DEF SaveWrite, SaveRemove, SaveRename
  <2>5. DOMAIN job' = Procs /\ \A q \in Procs : job'[q].meta \in {job[q].meta, Missing}
    BY <1>c, <2>4 DEF Copies, NoJob
  <2>6. Copies(n)'
    BY <1>c, <2>2, <2>3, <2>5 DEF Copies, CopyOK
  <2> QED
    BY <1>h, <2>1, <2>6
<1>17. CASE Crash
  <2>1. DOMAIN job' = Procs /\ \A q \in Procs : job'[q].meta = Missing
    BY <1>17 DEF Crash, NoJob
  <2>2. Copies(n)'
    BY <1>17, <1>c, <2>1 DEF Crash, fileVars, Copies, CopyOK
  <2> QED
    BY <1>17, <1>h, <1>r, <2>2 DEF Crash, fileVars
<1>18. CASE UNCHANGED vars
  BY <1>18, <1>h, <1>k, <1>t DEF vars, fileVars
<1> QED
  BY <1>1, <1>2, <1>3, <1>4, <1>5, <1>6, <1>7, <1>8, <1>9, <1>10, <1>11, <1>12, <1>13, <1>14, <1>15,
     <1>16, <1>17, <1>18 DEF Next, Step, Turn, Patch, Save

-----------------------------------------------------------------------------
(* As long as no PATCH and turn overlapped, no copy has a binding ahead of *)
(* its TotalSeq, and the number a turn read for its binding is still that  *)
(* of the metadata it writes it to.                                        *)
Aligned(m) == m # Missing => \A a \in Agents : m.bind[a].through <= m.total

Orderly ==
    /\ Aligned(meta) /\ Aligned(tmp) /\ \A p \in Procs : Aligned(job[p].meta)
    /\ job["turn"].ret \notin {"bind", "rebind"} /\ job["turn"].err \notin {"bind", "rebind"}
    /\ pc["turn"] # "rebind"
    /\ pc["turn"] = "bind" => meta # Missing /\ turn.through <= meta.total

IInv == Counted /\ DOMAIN pc = Procs /\ (raced \/ Orderly)

LEMMA SavesAligned ==
    ASSUME Orderly, DOMAIN job = Procs, DOMAIN pc = Procs, NEW p \in Procs, NEW m, NEW ret, NEW err,
           Aligned(m), p = "turn" => ret \notin {"bind", "rebind"} /\ err \notin {"bind", "rebind"},
           Saves(p, m, ret, err), UNCHANGED <<fileVars, turn>>
    PROVE  Orderly'
<1>1. UNCHANGED <<meta, tmp, turn>> /\ DOMAIN job' = Procs
  BY DEF Saves, fileVars
<1>2. \A q \in Procs : job'[q] = IF q = p THEN [meta |-> m, ret |-> ret, err |-> err] ELSE job[q]
  BY DEF Saves
<1>3. pc'["turn"] = IF p = "turn" THEN "save" ELSE pc["turn"]
  BY DEF Saves, Goto, Procs
<1> QED
  BY <1>1, <1>2, <1>3 DEF Orderly, Aligned, Procs

(* Every step that begins without an overlap keeps this. *)
LEMMA OrderlyStep ==
    ASSUME Counted, DOMAIN pc = Procs, Orderly, ~Overlapping, Step PROVE Orderly'
<1>n. PICK n \in Nat : n = Len(hist)
  BY HistFacts DEF Counted
<1>c. Copies(n) /\ LocalsOK(n) /\ DOMAIN job = Procs
  BY <1>n DEF Counted, Copies
<1>o. pc["turn"] = "idle" \/ pc["patch"] = "idle"
  BY DEF Overlapping, Procs
<1>p. "turn" \in Procs /\ "patch" \in Procs
  BY DEF Procs
<1>s. ASSUME UNCHANGED <<fileVars, job>>, pc'["turn"] \notin {"bind", "rebind"} PROVE Orderly'
  BY <1>s DEF Orderly, Aligned, fileVars
<1>f. ASSUME NEW a PROVE Aligned(Fresh(a))
  BY DEF Aligned, Fresh, NoBinding
<1>1. CASE SendMessage
  BY <1>1, <1>s, <1>p DEF SendMessage, Goto
<1>2. CASE InitMetadata
  <2>1. UNCHANGED <<fileVars, turn>>
    BY <1>2 DEF InitMetadata
  <2>2. CASE UNCHANGED job
    BY <1>2, <2>1, <2>2, <1>s, <1>p DEF InitMetadata, Goto, Saves
  <2>3. OnError \in {"wrap", "leave"}
    BY DEF OnError
  <2>4. meta # Missing => Aligned([meta EXCEPT !.active = turn.origin])
    BY <1>c DEF Orderly, Aligned, Copies, CopyOK
  <2>5. CASE \E m : Aligned(m) /\ Saves("turn", m, "append", OnError)
    BY <1>c, <1>p, <2>1, <2>3, <2>5, SavesAligned
  <2> QED
    BY <1>2, <2>2, <2>4, <2>5, <1>f DEF InitMetadata
<1>3. CASE AppendBegins
  <2>1. UNCHANGED <<fileVars, turn>>
    BY <1>3 DEF AppendBegins
  <2>2. CASE UNCHANGED job
    BY <1>3, <2>1, <2>2, <1>s, <1>p DEF AppendBegins, Goto, Saves
  <2>3. OnError \in {"wrap", "leave"}
    BY DEF OnError
  <2>4. CASE Saves("turn", Fresh(NoAgent), "number", OnError)
    BY <1>c, <1>p, <1>f, <2>1, <2>3, <2>4, SavesAligned
  <2> QED
    BY <1>3, <2>2, <2>4 DEF AppendBegins
<1>4. CASE AppendNumbers
  BY <1>4, <1>s, <1>p DEF AppendNumbers, Goto
<1>5. CASE AppendFile
  BY <1>5, <1>p DEF AppendFile, Orderly, Aligned
<1>6. CASE AppendTotal
  <2>1. UNCHANGED <<fileVars, turn>>
    BY <1>6 DEF AppendTotal
  <2>2. OnError \in {"wrap", "leave"}
    BY DEF OnError
  <2>3. CASE UNCHANGED job /\ Goto("turn", OnError)
    BY <2>1, <2>2, <2>3, <1>s, <1>p DEF Goto
  <2>4. meta # Missing => TotalSeq(meta.total) \in Nat /\ meta.total <= TotalSeq(meta.total)
    BY <1>c DEF TotalSeq, Copies, CopyOK, LocalsOK
  <2>5. meta # Missing => Aligned([meta EXCEPT !.total = TotalSeq(@)])
    BY <1>c, <2>4 DEF Orderly, Aligned, Copies, CopyOK
  <2>6. CASE \E m : Aligned(m) /\ Saves("turn", m, IF turn.phase = "user" THEN "wrap" ELSE "through", OnError)
    BY <1>c, <1>p, <2>1, <2>2, <2>6, SavesAligned
  <2> QED
    BY <1>6, <2>3, <2>5, <2>6 DEF AppendTotal
<1>7. CASE WrapPrompt \/ StartAgent \/ StartFails \/ TurnStopped \/ TurnEnds \/ UpdateRecord \/ LeaveUningested
  BY <1>7, <1>s, <1>p
     DEF WrapPrompt, StartAgent, StartFails, TurnStopped, TurnEnds, UpdateRecord, LeaveUningested, Returns, Goto
<1>8. CASE SelfHeal \/ \E e \in EventKinds : AgentEmit(e)
  BY <1>8, <1>s, <1>p DEF SelfHeal, AgentEmit
<1>9. CASE ReadThrough
  <2>1. CASE meta = Missing
    BY <1>9, <2>1, <1>s, <1>p DEF ReadThrough, Goto
  <2>2. CASE meta # Missing
    <3>1. meta.total \in Nat /\ turn'.through = meta.total /\ pc'["turn"] = "bind"
      BY <1>9, <1>c, <1>p, <2>2 DEF ReadThrough, Goto, Copies, CopyOK, LocalsOK, NoTurn
    <3> QED
      BY <1>9, <2>2, <3>1 DEF ReadThrough, Orderly, Aligned, fileVars
  <2> QED
    BY <2>1, <2>2
<1>10. CASE UpdateBinding
  <2>1. meta # Missing /\ turn.through <= meta.total /\ UNCHANGED <<fileVars, turn>>
    BY <1>10 DEF UpdateBinding, Orderly
  <2>2. Aligned(Bound(turn.origin, turn.native, turn.through))
    BY <1>c, <2>1 DEF Orderly, Aligned, Bound, Copies, CopyOK
  <2>3. Saves("turn", Bound(turn.origin, turn.native, turn.through), "record", "leave")
    BY <1>10, <2>1 DEF UpdateBinding
  <2> QED
    BY <1>c, <1>p, <2>1, <2>2, <2>3, SavesAligned
<1>11. CASE PatchAccepted \/ PatchRefused \/ PatchUpdate
  BY <1>11, <1>p DEF PatchAccepted, PatchRefused, PatchUpdate, Goto, Orderly, Aligned, fileVars
<1>12. CASE PatchSupplement \/ \E a \in Agents : PatchAgent(a)
  <2>1. UNCHANGED <<fileVars, turn>>
    BY <1>12 DEF PatchSupplement, PatchAgent
  <2>2. CASE UNCHANGED job /\ pc'["turn"] = pc["turn"]
    BY <2>1, <2>2 DEF Orderly, Aligned, fileVars
  <2>3. CASE \E m, ret, err : Aligned(m) /\ Saves("patch", m, ret, err)
    BY <1>c, <1>p, <2>1, <2>3, SavesAligned
  <2>4. Aligned(meta) /\ \A a : meta # Missing => Aligned([meta EXCEPT !.active = a])
    BY <1>c DEF Orderly, Aligned, Copies, CopyOK
  <2> QED
    BY <1>12, <1>p, <2>2, <2>3, <2>4 DEF PatchSupplement, PatchAgent, Goto
<1>13. ASSUME NEW p \in Procs, SaveWrite(p) \/ SaveRemove(p) \/ SaveRename(p) PROVE Orderly'
  <2>1. Aligned(meta) /\ Aligned(tmp) /\ Aligned(Missing) /\ Aligned(job[p].meta)
    BY DEF Orderly, Aligned
  <2>2. meta' \in {meta, tmp, Missing} /\ tmp' \in {tmp, job[p].meta, Missing}
    BY <1>13 DEF SaveWrite, SaveRemove, SaveRename
  <2>3. \A q \in Procs : job'[q] = job[q] \/ job'[q] = NoJob
    BY <1>13, <1>c DEF SaveWrite, SaveRemove, SaveRename
  <2>4. pc[p] # "idle"
    BY <1>13 DEF SaveWrite, SaveRemove, SaveRename
  <2>5. pc'["turn"] \notin {"bind", "rebind"}
    BY <1>13, <1>o, <1>p, <2>4 DEF SaveWrite, SaveRemove, SaveRename, Goto, Orderly, Procs
  <2> QED
    BY <2>1, <2>2, <2>3, <2>5 DEF Orderly, Aligned, NoJob, Procs
<1>14. CASE Crash
  BY <1>14, <1>p DEF Crash, Orderly, Aligned, NoJob, fileVars
<1> QED
  BY <1>1, <1>2, <1>3, <1>4, <1>5, <1>6, <1>7, <1>8, <1>9, <1>10, <1>11, <1>12, <1>13, <1>14
     DEF Step, Turn, Patch, Save

LEMMA DomainStep == ASSUME DOMAIN pc = Procs, [Next]_vars PROVE DOMAIN pc' = Procs
<1>1. ASSUME NEW p, NEW label, Goto(p, label) PROVE DOMAIN pc' = Procs
  BY <1>1 DEF Goto
<1>2. CASE Turn
  BY <1>1, <1>2 DEF Turn, SendMessage, InitMetadata, AppendBegins, AppendNumbers, AppendFile, AppendTotal,
     WrapPrompt, StartAgent, StartFails, SelfHeal, TurnStopped, TurnEnds, ReadThrough, UpdateBinding,
     UpdateRecord, LeaveUningested, AgentEmit, Returns, Saves
<1>3. CASE Patch
  BY <1>1, <1>3 DEF Patch, PatchAccepted, PatchAgent, PatchSupplement, PatchRefused, PatchUpdate, Saves
<1>4. CASE Save
  BY <1>1, <1>4 DEF Save, SaveWrite, SaveRemove, SaveRename
<1>5. CASE Crash
  BY <1>5 DEF Crash
<1> QED
  BY <1>2, <1>3, <1>4, <1>5 DEF Next, Step, vars

LEMMA InitCounted == Init => IInv
<1> SUFFICES ASSUME Init PROVE IInv
  OBVIOUS
<1>1. IsSequence(<<>>) /\ Len(<<>>) = 0
  BY EmptySeq DEF IsSequence
<1>2. PICK a \in Agents : meta = Fresh(a)
  BY DEF Init
<1>3. CopyOK(meta, 0) /\ Aligned(meta)
  BY <1>2, FreshOK DEF Aligned, Fresh, NoBinding
<1>4. hist = <<>> /\ tmp = Missing /\ turn = NoTurn /\ DOMAIN pc = Procs /\ pc["turn"] = "idle"
  BY DEF Init, Procs
<1>5. DOMAIN job = Procs /\ \A p \in Procs : job[p] = NoJob
  BY DEF Init
<1>6. Copies(0)
  BY <1>3, <1>4, <1>5 DEF Copies, CopyOK, NoJob
<1>7. LocalsOK(0)
  BY <1>4 DEF LocalsOK, NoTurn
<1>8. Counted
  BY <1>1, <1>4, <1>6, <1>7 DEF Counted, HistOK
<1>9. Orderly
  BY <1>3, <1>4, <1>5 DEF Orderly, Aligned, NoJob, Procs
<1> QED
  BY <1>4, <1>8, <1>9 DEF IInv

LEMMA StepCounted == IInv /\ [Next]_vars => IInv'
<1> SUFFICES ASSUME IInv, [Next]_vars PROVE IInv'
  OBVIOUS
<1>1. Counted' /\ DOMAIN pc' = Procs
  BY CountedStep, DomainStep DEF IInv
<1>2. CASE UNCHANGED vars
  BY <1>1, <1>2 DEF IInv, Orderly, Aligned, vars, fileVars
<1>3. CASE Next
  <2>1. CASE raced \/ Overlapping
    BY <1>1, <1>3, <2>1 DEF IInv, Next
  <2>2. CASE ~raced /\ ~Overlapping
    BY <1>1, <1>3, <2>2, OrderlyStep DEF IInv, Next
  <2> QED
    BY <2>1, <2>2
<1> QED
  BY <1>2, <1>3

(* The history is an append-only log (AppendHistory, NextSeq, Append):     *)
(* whatever metadata a turn finds, and wherever the process crashed, a     *)
(* step adds one message at the end or leaves the history as it is.        *)
THEOREM HistoryIsLog == Spec => IsLog
<1>1. Init => Log!Init
  BY DEF Init, Log!Init
<1>2. IInv /\ [Next]_vars => [Log!Extend]_hist
  BY CountedStep DEF IInv
<1> QED
  BY <1>1, <1>2, InitCounted, StepCounted, PTL DEF Spec, IsLog, Log!Spec

(* Neither TotalSeq nor a binding counts a message that is not in the      *)
(* history (Append, IngestTurn, UpdateBinding).                            *)
THEOREM TotalIsCovered == Spec => []TotalCovered
<1>1. ASSUME IInv PROVE TotalCovered
  <2>1. Len(hist) \in Nat /\ Cardinality(DOMAIN hist) = Len(hist)
    BY <1>1, HistFacts, FS_Interval DEF IInv, Counted
  <2>2. Copies(Len(hist)) /\ (raced \/ Orderly)
    BY <1>1 DEF IInv, Counted
  <2> QED
    BY <2>1, <2>2 DEF TotalCovered, Copies, CopyOK, Orderly, Aligned
<1>2. IInv => TotalCovered
  BY <1>1
<1> QED
  BY <1>2, InitCounted, StepCounted, PTL DEF Spec

-----------------------------------------------------------------------------
(* EventsToMessages.                                                        *)

Facts(ev, n) == {i \in 1..n : ev[i] \in {"text", "tool_use", "tool_result"}}
Flushed(ev, i, j) == \E b \in i..j : ev[b] \in Flushing
Positions(q) == {q[j] : j \in 1..Len(q)}
Gathering(N) == [msgs : Seq(Seq(1..N)), text : Seq(1..N)]

(* The k-th message has what event i says; behind the last one comes the   *)
(* text that is still gathered.                                            *)
Holds(s, k, i) ==
    IF k \in 1..Len(s.msgs) THEN i \in Positions(s.msgs[k])
    ELSE k = Len(s.msgs) + 1 /\ i \in Positions(s.text)

(* After n events every fact among them is in one place, in order, and     *)
(* still gathered if no event ended it.                                    *)
Gathers(s, ev, n) ==
    /\ \A k \in 1..Len(s.msgs) : s.msgs[k] # <<>>
    /\ \A k, i : Holds(s, k, i) => i \in Facts(ev, n)
    /\ \A i \in Facts(ev, n) : \E k \in 1..(Len(s.msgs) + 1) : Holds(s, k, i)
    /\ \A i, k, l : Holds(s, k, i) /\ Holds(s, l, i) => k = l
    /\ \A i \in Facts(ev, n) : Holds(s, Len(s.msgs) + 1, i) <=> ~Flushed(ev, i, n)
    /\ \A i, j \in Facts(ev, n) : \A k, l :
         i < j /\ Holds(s, k, i) /\ Holds(s, l, j) => IF Flushed(ev, i, j) THEN k < l ELSE k = l

LEMMA HoldsWhere ==
    ASSUME NEW N \in Nat, NEW s \in Gathering(N), NEW k, NEW i, Holds(s, k, i)
    PROVE  k \in 1..(Len(s.msgs) + 1) /\ Len(s.msgs) \in Nat
<1>1. Len(s.msgs) \in Nat
  BY LenProperties DEF Gathering
<1> QED
  BY <1>1 DEF Holds

(* One element more at the end of a sequence. *)
LEMMA PositionsAppend ==
    ASSUME NEW S, NEW q \in Seq(S), NEW x \in S
    PROVE  /\ Append(q, x) \in Seq(S) /\ Append(q, x) # <<>>
           /\ Len(Append(q, x)) = Len(q) + 1 /\ Len(q) \in Nat
           /\ \A k \in 1..Len(q) : Append(q, x)[k] = q[k]
           /\ Append(q, x)[Len(q) + 1] = x
           /\ Positions(Append(q, x)) = Positions(q) \cup {x}
<1>1. /\ Append(q, x) \in Seq(S) /\ Append(q, x) # <<>>
      /\ Len(Append(q, x)) = Len(q) + 1
      /\ \A k \in 1..Len(q) : Append(q, x)[k] = q[k]
      /\ Append(q, x)[Len(q) + 1] = x
  BY AppendProperties
<1>2. Len(q) \in Nat
  BY LenProperties
<1>3. 1..(Len(q) + 1) = 1..Len(q) \cup {Len(q) + 1}
  BY <1>2
<1>4. Positions(Append(q, x)) = Positions(q) \cup {x}
  BY <1>1, <1>2, <1>3 DEF Positions
<1> QED
  BY <1>1, <1>2, <1>4

LEMMA PositionsEmpty == Positions(<<>>) = {} /\ \A S : \A q \in Seq(S) : q # <<>> => Positions(q) # {}
<1>1. Positions(<<>>) = {}
  <2>1. Len(<<>>) = 0
    BY EmptySeq
  <2> QED
    BY <2>1 DEF Positions
<1>2. ASSUME NEW S, NEW q \in Seq(S), q # <<>> PROVE Positions(q) # {}
  <2>1. Len(q) \in Nat /\ Len(q) # 0
    BY <1>2, LenProperties, EmptySeq
  <2>2. 1 \in 1..Len(q)
    BY <2>1
  <2> QED
    BY <2>2 DEF Positions
<1> QED
  BY <1>1, <1>2

(* A flush moves the gathered text to the messages, where it keeps its     *)
(* place.                                                                  *)
LEMMA FlushHolds ==
    ASSUME NEW N \in Nat, NEW s \in Gathering(N), NEW t, t = Flush(s)
    PROVE  /\ t \in Gathering(N) /\ t.text = <<>>
           /\ (\A k \in 1..Len(s.msgs) : s.msgs[k] # <<>>) => \A k \in 1..Len(t.msgs) : t.msgs[k] # <<>>
           /\ \A k, i : Holds(t, k, i) <=> Holds(s, k, i)
           /\ \A i : ~Holds(t, Len(t.msgs) + 1, i)
<1>1. s.msgs \in Seq(Seq(1..N)) /\ s.text \in Seq(1..N) /\ Len(s.msgs) \in Nat
  BY LenProperties DEF Gathering
<1>2. CASE s.text = <<>>
  BY <1>1, <1>2, PositionsEmpty DEF Flush, Holds
<1>3. CASE s.text # <<>>
  <2>1. t.msgs = Append(s.msgs, s.text) /\ t.text = <<>>
    BY <1>3 DEF Flush
  <2>2. /\ t.msgs \in Seq(Seq(1..N)) /\ Len(t.msgs) = Len(s.msgs) + 1
        /\ \A k \in 1..Len(s.msgs) : t.msgs[k] = s.msgs[k]
        /\ t.msgs[Len(s.msgs) + 1] = s.text
    BY <1>1, <2>1, PositionsAppend
  <2>3. t \in Gathering(N)
    BY <1>3, <2>1, <2>2, EmptySeq DEF Flush, Gathering
  <2>4. \A k : k \in 1..Len(t.msgs) <=> k \in 1..Len(s.msgs) \/ k = Len(s.msgs) + 1
    BY <1>1, <2>2
  <2>5. \A i : i \notin Positions(t.text)
    BY <2>1, PositionsEmpty
  <2>6. \A k, i : Holds(t, k, i) <=> Holds(s, k, i)
    BY <1>1, <2>2, <2>4, <2>5 DEF Holds
  <2>7. \A i : ~Holds(t, Len(t.msgs) + 1, i)
    <3>1. Len(t.msgs) + 1 \notin 1..Len(t.msgs)
      BY <1>1, <2>2
    <3> QED
      BY <2>5, <3>1 DEF Holds
  <2> QED
    BY <1>3, <2>1, <2>2, <2>3, <2>4, <2>6, <2>7
<1> QED
  BY <1>2, <1>3

LEMMA TextHolds ==
    ASSUME NEW N \in Nat, NEW s \in Gathering(N), NEW n \in 1..N, NEW t, t = [s EXCEPT !.text = Append(@, n)]
    PROVE  /\ t \in Gathering(N) /\ t.msgs = s.msgs
           /\ \A k, i : Holds(t, k, i) <=> Holds(s, k, i) \/ (k = Len(s.msgs) + 1 /\ i = n)
<1>1. s.msgs \in Seq(Seq(1..N)) /\ s.text \in Seq(1..N) /\ Len(s.msgs) \in Nat
  BY LenProperties DEF Gathering
<1>2. t.msgs = s.msgs /\ t.text = Append(s.text, n)
  BY DEF Gathering
<1>3. Append(s.text, n) \in Seq(1..N) /\ Positions(Append(s.text, n)) = Positions(s.text) \cup {n}
  <2> DEFINE S == 1..N
  <2>1. s.text \in Seq(S) /\ n \in S
    BY <1>1
  <2> HIDE DEF S
  <2>2. Append(s.text, n) \in Seq(S) /\ Positions(Append(s.text, n)) = Positions(s.text) \cup {n}
    BY <2>1, PositionsAppend
  <2> QED
    BY <2>2 DEF S
<1>4. t \in Gathering(N)
  BY <1>1, <1>3 DEF Gathering
<1>5. Len(s.msgs) + 1 \notin 1..Len(s.msgs)
  BY <1>1
<1>6. \A k, i : Holds(t, k, i) <=> Holds(s, k, i) \/ (k = Len(s.msgs) + 1 /\ i = n)
  BY <1>2, <1>3, <1>5 DEF Holds
<1> QED
  BY <1>2, <1>4, <1>6

LEMMA OnePosition ==
    ASSUME NEW S, NEW n \in S PROVE <<n>> \in Seq(S) /\ Positions(<<n>>) = {n} /\ <<n>> # <<>>
<1>1. <<n>> \in Seq(S) /\ Len(<<n>>) = 1 /\ <<n>>[1] = n
  OBVIOUS
<1>2. Positions(<<n>>) = {n}
  BY <1>1 DEF Positions
<1>3. <<n>> # <<>>
  BY <1>1, EmptySeq
<1> QED
  BY <1>1, <1>2, <1>3

(* One message more, about event n. *)
OneMore(s, t, one, n) ==
    /\ s.text = <<>> /\ Len(s.msgs) \in Nat /\ Positions(one) = {n} /\ one # <<>>
    /\ t.text = <<>> /\ Len(t.msgs) = Len(s.msgs) + 1 /\ t.msgs[Len(s.msgs) + 1] = one
    /\ \A k \in 1..Len(s.msgs) : t.msgs[k] = s.msgs[k] /\ s.msgs[k] # <<>>

LEMMA ToolHolds ==
    ASSUME NEW s, NEW t, NEW one, NEW n, OneMore(s, t, one, n)
    PROVE  /\ \A k \in 1..Len(t.msgs) : t.msgs[k] # <<>>
           /\ \A k, i : Holds(t, k, i) <=> Holds(s, k, i) \/ (k = Len(s.msgs) + 1 /\ i = n)
           /\ \A i : ~Holds(t, Len(t.msgs) + 1, i)
<1>7. \A k : k \in 1..Len(t.msgs) <=> k \in 1..Len(s.msgs) \/ k = Len(s.msgs) + 1
  BY DEF OneMore
<1>8. \A i : i \notin Positions(t.text) /\ i \notin Positions(s.text)
  BY PositionsEmpty DEF OneMore
<1>9. Len(s.msgs) + 1 \notin 1..Len(s.msgs)
  BY DEF OneMore
<1>10. \A k, i : Holds(t, k, i) <=> Holds(s, k, i) \/ (k = Len(s.msgs) + 1 /\ i = n)
  <2> TAKE k, i
  <2>1. CASE k \in 1..Len(s.msgs)
    BY <1>7, <1>9, <2>1 DEF Holds, OneMore
  <2>2. CASE k = Len(s.msgs) + 1
    BY <1>7, <1>8, <1>9, <2>2 DEF Holds, OneMore
  <2>3. CASE k \notin 1..Len(t.msgs)
    BY <1>7, <1>8, <2>3 DEF Holds, OneMore
  <2> QED
    BY <1>7, <2>1, <2>2, <2>3
<1>11. \A i : ~Holds(t, Len(t.msgs) + 1, i)
  <2>1. Len(t.msgs) + 1 \notin 1..Len(t.msgs)
    BY DEF OneMore
  <2> QED
    BY <1>8, <2>1 DEF Holds, OneMore
<1>12. \A k \in 1..Len(t.msgs) : t.msgs[k] # <<>>
  BY <1>7 DEF OneMore
<1> QED
  BY <1>10, <1>11, <1>12

(* What the next event does to the facts and what ends them. *)
LEMMA FactsNext ==
    ASSUME NEW ev, NEW n \in Nat
    PROVE  /\ \A i : i \in Facts(ev, n + 1) <=> i \in Facts(ev, n) \/ (i = n + 1 /\ ev[n + 1] \in {"text", "tool_use", "tool_result"})
           /\ \A i \in Facts(ev, n) : i \in 1..n
           /\ \A i \in 1..n : Flushed(ev, i, n + 1) <=> Flushed(ev, i, n) \/ ev[n + 1] \in Flushing
           /\ Flushed(ev, n + 1, n + 1) <=> ev[n + 1] \in Flushing
<1>1. \A i \in 1..n : i..(n + 1) = i..n \cup {n + 1}
  OBVIOUS
<1>2. (n + 1)..(n + 1) = {n + 1} /\ 1..(n + 1) = 1..n \cup {n + 1}
  OBVIOUS
<1> QED
  BY <1>1, <1>2 DEF Facts, Flushed

LEMMA TakeGathers ==
    ASSUME NEW N \in Nat, NEW ev \in Seq(EventKinds), Len(ev) = N, NEW n \in Nat, n < N,
           NEW s \in Gathering(N), Gathers(s, ev, n), NEW t, t = Take(s, ev[n + 1], n + 1)
    PROVE  t \in Gathering(N) /\ Gathers(t, ev, n + 1)
<1> DEFINE e == ev[n + 1]
<1>0. n + 1 \in 1..N /\ Len(s.msgs) \in Nat
  BY LenProperties DEF Gathering
<1>1. e \in Skipped \cup Flushing \cup {"text"}
  BY <1>0, HistoryAssumption, ElementOfSeq
<1>w. \A k, i : Holds(s, k, i) => k \in 1..(Len(s.msgs) + 1)
  BY HoldsWhere
<1>2. CASE e = "text"
  <2>1. t = [s EXCEPT !.text = Append(@, n + 1)] /\ e \notin Flushing
    <3>1. Take(s, "text", n + 1) = [s EXCEPT !.text = Append(@, n + 1)]
      BY DEF Take, Skipped
    <3> QED
      BY <1>2, <3>1 DEF Flushing
  <2>2. /\ t \in Gathering(N) /\ t.msgs = s.msgs
        /\ \A k, i : Holds(t, k, i) <=> Holds(s, k, i) \/ (k = Len(s.msgs) + 1 /\ i = n + 1)
    BY <1>0, <2>1, TextHolds
  <2>3. \A i : i \in Facts(ev, n + 1) <=> i \in Facts(ev, n) \/ i = n + 1
    BY <1>2, FactsNext
  <2>4. \A i \in Facts(ev, n) : i \in 1..n /\ (Flushed(ev, i, n + 1) <=> Flushed(ev, i, n))
    BY <2>1, FactsNext
  <2>5. ~Flushed(ev, n + 1, n + 1)
    BY <2>1, FactsNext
  <2>6. \A k, i : Holds(s, k, i) => i \in Facts(ev, n)
    BY DEF Gathers
  <2>7. \A i, k, l : Holds(t, k, i) /\ Holds(t, l, i) => k = l
    BY <2>2, <2>4, <2>6 DEF Gathers
  <2>8. \A i \in Facts(ev, n + 1) : \E k \in 1..(Len(t.msgs) + 1) : Holds(t, k, i)
    BY <1>0, <2>2, <2>3 DEF Gathers
  <2>9. \A i \in Facts(ev, n + 1) : Holds(t, Len(t.msgs) + 1, i) <=> ~Flushed(ev, i, n + 1)
    BY <2>2, <2>3, <2>4, <2>5 DEF Gathers
  <2>10. ASSUME NEW i \in Facts(ev, n + 1), NEW j \in Facts(ev, n + 1), NEW k, NEW l,
                i < j, Holds(t, k, i), Holds(t, l, j)
         PROVE  IF Flushed(ev, i, j) THEN k < l ELSE k = l
    <3>1. i \in Facts(ev, n) /\ i \in 1..n /\ Holds(s, k, i)
      BY <2>2, <2>3, <2>4, <2>10
    <3>2. CASE j \in Facts(ev, n)
      <4>1. Holds(s, l, j)
        BY <2>2, <2>4, <2>10, <3>2
      <4> QED
        BY <2>10, <3>1, <3>2, <4>1 DEF Gathers
    <3>3. CASE j = n + 1
      <4>1. l = Len(s.msgs) + 1
        BY <2>2, <2>4, <2>6, <2>10, <3>3
      <4>2. CASE Flushed(ev, i, n)
        <5>1. k # Len(s.msgs) + 1 /\ k \in 1..(Len(s.msgs) + 1)
          BY <1>w, <3>1, <4>2 DEF Gathers
        <5> QED
          BY <1>0, <2>4, <3>1, <3>3, <4>1, <4>2, <5>1
      <4>3. CASE ~Flushed(ev, i, n)
        <5>1. Holds(s, Len(s.msgs) + 1, i)
          BY <3>1, <4>3 DEF Gathers
        <5>2. k = Len(s.msgs) + 1
          BY <3>1, <5>1 DEF Gathers
        <5> QED
          BY <2>4, <3>1, <3>3, <4>1, <4>3, <5>2
      <4> QED
        BY <4>2, <4>3
    <3> QED
      BY <2>3, <3>2, <3>3
  <2>11. \A k, i : Holds(t, k, i) => i \in Facts(ev, n + 1)
    BY <2>2, <2>3, <2>6
  <2> QED
    BY <2>2, <2>7, <2>8, <2>9, <2>10, <2>11 DEF Gathers
<1>3. CASE e \in Skipped
  <2>1. t = s /\ e \notin Flushing /\ e \notin {"text", "tool_use", "tool_result"}
    BY <1>3 DEF Take, Flushing, Skipped
  <2>2. Facts(ev, n + 1) = Facts(ev, n)
    BY <2>1, FactsNext
  <2>3. \A i \in Facts(ev, n) : Flushed(ev, i, n + 1) <=> Flushed(ev, i, n)
    BY <2>1, FactsNext
  <2>4. \A i \in Facts(ev, n) : Holds(s, Len(s.msgs) + 1, i) <=> ~Flushed(ev, i, n + 1)
    BY <2>3 DEF Gathers
  <2>5. Gathers(s, ev, n + 1)
    BY <2>2, <2>4 DEF Gathers
  <2> QED
    BY <2>1, <2>5
<1>4. PICK u :
      /\ u = Flush(s)
      /\ u \in Gathering(N) /\ u.text = <<>> /\ Len(u.msgs) \in Nat
      /\ \A k \in 1..Len(u.msgs) : u.msgs[k] # <<>>
      /\ \A k, i : Holds(u, k, i) <=> Holds(s, k, i)
      /\ \A i : ~Holds(u, Len(u.msgs) + 1, i)
  <2> DEFINE f == Flush(s)
  <2>1. /\ f \in Gathering(N) /\ f.text = <<>>
        /\ \A k \in 1..Len(f.msgs) : f.msgs[k] # <<>>
        /\ \A k, i : Holds(f, k, i) <=> Holds(s, k, i)
        /\ \A i : ~Holds(f, Len(f.msgs) + 1, i)
    BY FlushHolds DEF Gathers
  <2> HIDE DEF f
  <2>2. Len(f.msgs) \in Nat
    BY <2>1, LenProperties DEF Gathering
  <2>3. f = Flush(s)
    BY DEF f
  <2> QED
    BY <2>1, <2>2, <2>3
<1>u. \A k, i : Holds(u, k, i) => k \in 1..(Len(u.msgs) + 1)
  BY <1>4, HoldsWhere
<1>v. \A k, i : Holds(u, k, i) => k \in 1..Len(u.msgs)
  BY <1>4, <1>u
<1>5. CASE e \in {"tool_use", "tool_result"}
  <2>1. t = [u EXCEPT !.msgs = Append(@, <<n + 1>>)] /\ e \in Flushing
    BY <1>5, <1>4 DEF Take, Flushing, Skipped
  <2>2. /\ t \in Gathering(N) /\ Len(t.msgs) = Len(u.msgs) + 1
        /\ \A k \in 1..Len(t.msgs) : t.msgs[k] # <<>>
        /\ \A k, i : Holds(t, k, i) <=> Holds(u, k, i) \/ (k = Len(u.msgs) + 1 /\ i = n + 1)
        /\ \A i : ~Holds(t, Len(t.msgs) + 1, i)
    <3>1. PICK m : m = n + 1 /\ m \in 1..N
      BY <1>0
    <3>0. PICK one : one = <<m>> /\ one \in Seq(1..N) /\ Positions(one) = {m} /\ one # <<>>
      BY <3>1, OnePosition
    <3>2. t.msgs = Append(u.msgs, one) /\ t.text = <<>> /\ t = [msgs |-> t.msgs, text |-> <<>>]
      BY <1>4, <2>1, <3>0, <3>1 DEF Gathering
    <3>3. /\ t \in Gathering(N) /\ Len(t.msgs) = Len(u.msgs) + 1 /\ t.msgs[Len(u.msgs) + 1] = one
          /\ \A k \in 1..Len(u.msgs) : t.msgs[k] = u.msgs[k]
      <4>1. u.msgs \in Seq(Seq(1..N)) /\ <<>> \in Seq(1..N)
        BY <1>4, EmptySeq DEF Gathering
      <4>2. /\ t.msgs \in Seq(Seq(1..N)) /\ Len(t.msgs) = Len(u.msgs) + 1 /\ t.msgs[Len(u.msgs) + 1] = one
            /\ \A k \in 1..Len(u.msgs) : t.msgs[k] = u.msgs[k]
        <5>1. PICK T : T = Seq(1..N) /\ u.msgs \in Seq(T) /\ one \in T
          BY <3>0, <4>1
        <5>2. /\ Append(u.msgs, one) \in Seq(T) /\ Len(Append(u.msgs, one)) = Len(u.msgs) + 1
              /\ \A k \in 1..Len(u.msgs) : Append(u.msgs, one)[k] = u.msgs[k]
              /\ Append(u.msgs, one)[Len(u.msgs) + 1] = one
          BY <5>1, PositionsAppend
        <5> QED
          BY <3>2, <5>1, <5>2
      <4> QED
        BY <3>2, <4>1, <4>2 DEF Gathering
    <3>4. /\ u.text = <<>> /\ Len(u.msgs) \in Nat
          /\ \A k \in 1..Len(u.msgs) : t.msgs[k] = u.msgs[k] /\ u.msgs[k] # <<>>
      BY <1>4, <3>3
    <3>5. /\ \A k \in 1..Len(t.msgs) : t.msgs[k] # <<>>
          /\ \A k, i : Holds(t, k, i) <=> Holds(u, k, i) \/ (k = Len(u.msgs) + 1 /\ i = m)
          /\ \A i : ~Holds(t, Len(t.msgs) + 1, i)
      <4>1. OneMore(u, t, one, m)
        BY <3>0, <3>2, <3>3, <3>4 DEF OneMore
      <4> QED
        BY <4>1, ToolHolds
    <3> QED
      BY <3>1, <3>3, <3>5
  <2>3. \A i : i \in Facts(ev, n + 1) <=> i \in Facts(ev, n) \/ i = n + 1
    BY <1>5, FactsNext
  <2>4. \A i \in Facts(ev, n) : i \in 1..n /\ Flushed(ev, i, n + 1)
    BY <2>1, FactsNext
  <2>5. Flushed(ev, n + 1, n + 1)
    BY <2>1, FactsNext
  <2>6. \A k, i : Holds(u, k, i) => i \in Facts(ev, n)
    BY <1>4 DEF Gathers
  <2>7. \A i, k, l : Holds(t, k, i) /\ Holds(t, l, i) => k = l
    BY <1>4, <2>2, <2>4, <2>6 DEF Gathers
  <2>8. \A i \in Facts(ev, n + 1) : \E k \in 1..(Len(t.msgs) + 1) : Holds(t, k, i)
    <3>1. ASSUME NEW i \in Facts(ev, n) PROVE \E k \in 1..(Len(t.msgs) + 1) : Holds(t, k, i)
      <4>1. PICK k : Holds(u, k, i)
        BY <1>4 DEF Gathers
      <4>2. k \in 1..Len(u.msgs) /\ Holds(t, k, i)
        BY <1>v, <2>2, <4>1
      <4> QED
        BY <1>4, <2>2, <4>2
    <3>2. Holds(t, Len(t.msgs), n + 1) /\ Len(t.msgs) \in 1..(Len(t.msgs) + 1)
      BY <1>4, <2>2
    <3> QED
      BY <2>3, <3>1, <3>2
  <2>9. \A i \in Facts(ev, n + 1) : Holds(t, Len(t.msgs) + 1, i) <=> ~Flushed(ev, i, n + 1)
    BY <2>2, <2>3, <2>4, <2>5
  <2>10. ASSUME NEW i \in Facts(ev, n + 1), NEW j \in Facts(ev, n + 1), NEW k, NEW l,
                i < j, Holds(t, k, i), Holds(t, l, j)
         PROVE  IF Flushed(ev, i, j) THEN k < l ELSE k = l
    <3>1. i \in Facts(ev, n) /\ i \in 1..n /\ Holds(u, k, i) /\ Holds(s, k, i)
      BY <1>4, <2>2, <2>3, <2>4, <2>10
    <3>2. CASE j \in Facts(ev, n)
      <4>1. Holds(s, l, j)
        BY <1>4, <2>2, <2>4, <2>10, <3>2
      <4> QED
        BY <2>10, <3>1, <3>2, <4>1 DEF Gathers
    <3>3. CASE j = n + 1
      <4>1. l = Len(u.msgs) + 1
        BY <2>2, <2>4, <2>6, <2>10, <3>3
      <4>2. k \in 1..Len(u.msgs)
        BY <1>v, <3>1
      <4> QED
        BY <1>4, <2>4, <3>1, <3>3, <4>1, <4>2
    <3> QED
      BY <2>3, <3>2, <3>3
  <2>11. \A k, i : Holds(t, k, i) => i \in Facts(ev, n + 1)
    BY <2>2, <2>3, <2>6
  <2> QED
    BY <2>2, <2>7, <2>8, <2>9, <2>10, <2>11 DEF Gathers
<1>6. CASE e \in {"result", "other"}
  <2>1. t = u /\ e \in Flushing /\ e \notin {"text", "tool_use", "tool_result"}
    BY <1>6, <1>4 DEF Take, Flushing, Skipped
  <2>2. Facts(ev, n + 1) = Facts(ev, n)
    BY <2>1, FactsNext
  <2>3. \A i \in Facts(ev, n) : i \in 1..n /\ Flushed(ev, i, n + 1)
    BY <2>1, FactsNext
  <2>4. \A i \in Facts(ev, n) : \E k \in 1..(Len(u.msgs) + 1) : Holds(u, k, i)
    BY <1>4, <1>u DEF Gathers
  <2>5. \A i \in Facts(ev, n) : Holds(u, Len(u.msgs) + 1, i) <=> ~Flushed(ev, i, n + 1)
    BY <1>4, <2>3
  <2>6. /\ \A k, i : Holds(u, k, i) => i \in Facts(ev, n)
        /\ \A i, k, l : Holds(u, k, i) /\ Holds(u, l, i) => k = l
    BY <1>4 DEF Gathers
  <2>7. \A i, j \in Facts(ev, n) : \A k, l :
          i < j /\ Holds(u, k, i) /\ Holds(u, l, j) => IF Flushed(ev, i, j) THEN k < l ELSE k = l
    BY <1>4 DEF Gathers
  <2>8. Gathers(u, ev, n + 1)
    BY <1>4, <2>2, <2>4, <2>5, <2>6, <2>7 DEF Gathers
  <2> QED
    BY <1>4, <2>1, <2>8
<1> QED
  BY <1>1, <1>2, <1>3, <1>5, <1>6 DEF Flushing

LEMMA LeastOf == ASSUME NEW S, S \subseteq Nat, S # {} PROVE \E x \in S : \A y \in S : x <= y
<1>1. PICK x \in S : \A y \in S : ~(<<y, x>> \in OpToRel(<, Nat))
  BY NatLessThanWellFounded, WFMin
<1>2. \A y \in S : y < x => <<y, x>> \in OpToRel(<, Nat)
  BY DEF OpToRel
<1>3. \A y \in S : ~(y < x)
  BY <1>1, <1>2
<1>4. \A y \in S : x <= y
  BY <1>3
<1> QED
  BY <1>4

Nothing == [msgs |-> <<>>, text |-> <<>>]
Runs(f, ev, N) == f = [n \in 0..N |-> IF n = 0 THEN Nothing ELSE Take(f[n - 1], ev[n], n)]

(* The recursion of EventsToMessages is a function. *)
LEMMA GatheredRuns ==
    ASSUME NEW ev, NEW N \in Nat
    PROVE  \E f : Runs(f, ev, N)
<1> DEFINE Bad == {k \in Nat : ~ \E f : Runs(f, ev, k)}
<1>1. SUFFICES ASSUME Bad # {} PROVE FALSE
  OBVIOUS
<1>2. PICK k \in Bad : \A y \in Bad : k <= y
  BY <1>1, LeastOf
<1>3. CASE k = 0
  <2> DEFINE g == [n \in {0} |-> Nothing]
  <2>1. 0..0 = {0} /\ \A n \in {0} : n = 0
    OBVIOUS
  <2>2. Runs(g, ev, 0)
    BY <2>1 DEF Runs
  <2> QED
    BY <1>2, <1>3, <2>2
<1>4. CASE k # 0
  <2>1. k - 1 \in Nat /\ k - 1 \notin Bad
    BY <1>2, <1>4
  <2>2. PICK f : Runs(f, ev, k - 1)
    BY <2>1
  <2> DEFINE g == [n \in 0..k |-> IF n = k THEN Take(f[k - 1], ev[k], k) ELSE f[n]]
  <2>3. \A n \in 0..(k - 1) : g[n] = f[n]
    BY <1>2
  <2>4. ASSUME NEW n \in 0..k PROVE g[n] = IF n = 0 THEN Nothing ELSE Take(g[n - 1], ev[n], n)
    <3>1. CASE n = k
      <4>1. g[n] = Take(f[k - 1], ev[k], k) /\ k - 1 \in 0..(k - 1)
        BY <1>2, <2>1, <3>1
      <4> QED
        BY <1>4, <2>3, <3>1, <4>1
    <3>2. CASE n # k
      <4>1. n \in 0..(k - 1) /\ (n # 0 => n - 1 \in 0..(k - 1))
        BY <1>2, <3>2
      <4>2. f[n] = IF n = 0 THEN Nothing ELSE Take(f[n - 1], ev[n], n)
        BY <2>2, <4>1 DEF Runs
      <4> QED
        BY <2>3, <4>1, <4>2
    <3> QED
      BY <3>1, <3>2
  <2>5. DOMAIN g = 0..k /\ g = [n \in 0..k |-> g[n]]
    OBVIOUS
  <2> HIDE DEF g
  <2>6. Runs(g, ev, k)
    BY <2>4, <2>5 DEF Runs
  <2> QED
    BY <1>2, <2>6
<1> QED
  BY <1>3, <1>4

LEMMA GatheredIs ==
    ASSUME NEW ev, Len(ev) \in Nat
    PROVE  \E f : Runs(f, ev, Len(ev)) /\ Gathered(ev) = f[Len(ev)]
<1> DEFINE f == CHOOSE f : Runs(f, ev, Len(ev))
<1>1. Runs(f, ev, Len(ev))
  BY GatheredRuns
<1>2. Gathered(ev) = f[Len(ev)]
  BY DEF Gathered, Runs, Nothing
<1> QED
  BY <1>1, <1>2

(* What EventsToMessages gathers. *)
LEMMA GatheredGathers ==
    ASSUME NEW ev \in Seq(EventKinds)
    PROVE  Gathered(ev) \in Gathering(Len(ev)) /\ Gathers(Gathered(ev), ev, Len(ev))
<1>1. PICK N \in Nat : N = Len(ev)
  BY LenProperties
<1>2. PICK f : Runs(f, ev, N) /\ Gathered(ev) = f[N]
  BY <1>1, GatheredIs
<1> DEFINE Good(n) == f[n] \in Gathering(N) /\ Gathers(f[n], ev, n)
           Bad == {n \in 0..N : ~Good(n)}
<1>3. ASSUME Bad # {} PROVE FALSE
  <2>1. Bad \subseteq Nat
    OBVIOUS
  <2>2. PICK n \in Bad : \A y \in Bad : n <= y
    BY <1>3, <2>1, LeastOf
  <2>3. CASE n = 0
    <3>1. f[0] = Nothing
      BY <1>2 DEF Runs
    <3>2. Nothing \in Gathering(N) /\ Nothing.msgs = <<>> /\ Nothing.text = <<>>
      BY EmptySeq DEF Nothing, Gathering
    <3>3. Len(<<>>) = 0 /\ \A i : i \notin Positions(<<>>)
      BY EmptySeq, PositionsEmpty
    <3>4. \A k, i : ~Holds(Nothing, k, i)
      BY <3>2, <3>3 DEF Holds
    <3>5. Facts(ev, 0) = {}
      BY DEF Facts
    <3>6. Gathers(Nothing, ev, 0)
      BY <3>2, <3>3, <3>4, <3>5 DEF Gathers
    <3> QED
      BY <2>2, <2>3, <3>1, <3>2, <3>6
  <2>4. CASE n # 0
    <3>1. PICK m : m \in Nat /\ m = n - 1 /\ m < N /\ n = m + 1 /\ n \in 0..N
      BY <2>2, <2>4
    <3>2. m \in 0..N /\ m \notin Bad
      BY <2>2, <3>1
    <3>3. Good(m)
      BY <3>2
    <3>4. f[n] = Take(f[m], ev[m + 1], m + 1)
      BY <1>2, <2>4, <3>1 DEF Runs
    <3>5. f[n] \in Gathering(N) /\ Gathers(f[n], ev, m + 1)
      BY <1>1, <3>1, <3>3, <3>4, TakeGathers
    <3> QED
      BY <2>2, <3>1, <3>5
  <2> QED
    BY <2>3, <2>4
<1>4. Good(N)
  BY <1>3
<1> QED
  BY <1>1, <1>2, <1>4

(* Every fact of a turn is in one message, in order, and no two messages   *)
(* share one.                                                              *)
In(ms, i) == {k \in 1..Len(ms) : \E j \in 1..Len(ms[k]) : ms[k][j] = i}

LEMMA MessagesOfEvents ==
    ASSUME NEW ev \in Seq(EventKinds), NEW ms, ms = EventsToMessages(ev)
    PROVE  /\ ms \in Seq(Seq(1..Len(ev)))
           /\ \A k \in 1..Len(ms) : ms[k] # <<>>
           /\ \A k, l \in 1..Len(ms) : ms[k] = ms[l] => k = l
           /\ \A i \in Facts(ev, Len(ev)) : \E k \in 1..Len(ms) : In(ms, i) = {k}
           /\ \A i, j \in Facts(ev, Len(ev)) : i < j =>
                \A k \in In(ms, i), l \in In(ms, j) : IF Flushed(ev, i, j) THEN k < l ELSE k = l
<1>1. PICK N \in Nat : N = Len(ev)
  BY LenProperties
<1> DEFINE g == Gathered(ev)
           t == Flush(g)
<1>2. g \in Gathering(N) /\ Gathers(g, ev, N)
  BY <1>1, GatheredGathers
<1>3. t.msgs = ms
  BY DEF EventsToMessages
<1> HIDE DEF g
<1>4. /\ t \in Gathering(N)
      /\ \A k \in 1..Len(t.msgs) : t.msgs[k] # <<>>
      /\ \A k, i : Holds(t, k, i) <=> Holds(g, k, i)
      /\ \A i : ~Holds(t, Len(t.msgs) + 1, i)
  BY <1>2, FlushHolds DEF Gathers
<1> HIDE DEF t
<1>5. ms \in Seq(Seq(1..N)) /\ Len(ms) \in Nat /\ \A k \in 1..Len(ms) : ms[k] \in Seq(1..N)
  BY <1>3, <1>4, LenProperties, ElementOfSeq DEF Gathering
<1>6. \A i, k : k \in In(ms, i) <=> Holds(t, k, i)
  <2> TAKE i, k
  <2>1. CASE k \in 1..Len(ms)
    BY <1>3, <2>1 DEF In, Holds, Positions
  <2>2. CASE k \notin 1..Len(ms)
    BY <1>3, <1>4, <2>2 DEF In, Holds
  <2> QED
    BY <2>1, <2>2
<1>7. \A i, k, l : k \in In(ms, i) /\ l \in In(ms, i) => k = l
  BY <1>2, <1>4, <1>6 DEF Gathers
<1>8. ASSUME NEW k \in 1..Len(ms), NEW l \in 1..Len(ms), ms[k] = ms[l] PROVE k = l
  <2>1. Positions(ms[k]) # {}
    BY <1>3, <1>4, <1>5, PositionsEmpty
  <2>2. PICK i : i \in Positions(ms[k])
    BY <2>1
  <2>3. k \in In(ms, i) /\ l \in In(ms, i)
    BY <1>8, <2>2 DEF In, Positions
  <2> QED
    BY <1>7, <2>3
<1>9. ASSUME NEW i \in Facts(ev, N) PROVE \E k \in 1..Len(ms) : In(ms, i) = {k}
  <2>1. PICK k : k \in In(ms, i)
    BY <1>2, <1>4, <1>6 DEF Gathers
  <2>2. k \in 1..Len(ms)
    BY <2>1 DEF In
  <2> QED
    BY <1>7, <2>1, <2>2
<1>10. \A i, j \in Facts(ev, N) : i < j =>
         \A k \in In(ms, i), l \in In(ms, j) : IF Flushed(ev, i, j) THEN k < l ELSE k = l
  BY <1>2, <1>4, <1>6 DEF Gathers
<1> QED
  BY <1>1, <1>3, <1>4, <1>5, <1>8, <1>9, <1>10

LEMMA FactsAreKept == events \in Seq(EventKinds) => FactsKept
<1> SUFFICES ASSUME events \in Seq(EventKinds) PROVE FactsKept
  OBVIOUS
<1> DEFINE ms == EventsToMessages(events)
           F == Facts(events, Len(events))
<1>1. /\ \A i \in F : \E k \in 1..Len(ms) : In(ms, i) = {k}
      /\ \A i, j \in F : i < j =>
           \A k \in In(ms, i), l \in In(ms, j) : IF Flushed(events, i, j) THEN k < l ELSE k = l
  BY MessagesOfEvents
<1>2. \A i \in F : Cardinality(In(ms, i)) = 1 /\ In(ms, i) # {}
  BY <1>1, FS_Singleton
<1>3. \A i, j \in F : i < j =>
        \E k \in In(ms, i), l \in In(ms, j) : IF Flushed(events, i, j) THEN k < l ELSE k = l
  BY <1>1, <1>2
<1> HIDE DEF ms
<1>4. ms = EventsToMessages(events)
  BY DEF ms
<1> QED
  BY <1>2, <1>3, <1>4 DEF FactsKept, In, Facts, Flushed

-----------------------------------------------------------------------------
(* What was appended stays covered.  Without an overlap, and if no crash   *)
(* came upon files that did not agree, the next append begins behind the   *)
(* last file: TotalSeq counts all messages or none, except while an append *)
(* writes its files.                                                       *)
Clean == ~raced /\ ~Overlapping /\ ~torn

InSave == {"save", "remove", "rename"}
First(k) == {hist[s] : s \in 1..k}
Kept(m) == m # Missing => appended \subseteq First(m.total)
Queued == {turn.queue[i] : i \in DOMAIN turn.queue}

(* The metadata in memory, from the moment its save begins. *)
SaveSound(p, n) ==
    pc[p] \in InSave =>
        /\ job[p].meta # Missing /\ job[p].meta.total \in {0, n} /\ Kept(job[p].meta)
        /\ job[p].ret \notin InSave \cup {"files"}
        /\ job[p].ret \in {"wrap", "through"} => Queued \subseteq First(job[p].meta.total)
        /\ pc[p] # "save" => tmp = job[p].meta

(* The files an append has written so far. *)
Filing(n) ==
    pc["turn"] = "files" =>
        /\ turn.done \in 0..Len(turn.queue) /\ turn.done <= n /\ turn.seq = n + 1
        /\ meta # Missing => meta.total \in {0, n - turn.done}
        /\ \A j \in 1..turn.done : hist[n - turn.done + j] = turn.queue[j]

Sound(n) ==
    /\ Kept(meta)
    /\ meta = Missing /\ (\A p \in Procs : pc[p] # "rename") => appended = {}
    /\ pc["turn"] \notin InSave \cup {"files"} /\ meta # Missing => meta.total \in {0, n}
    /\ \A p \in Procs : SaveSound(p, n)
    /\ Filing(n)

(* The turn's events and queue. *)
Inputs == events \in Seq(EventKinds) /\ IsSequence(turn.queue) /\ crashes \in Nat

KInv == IInv /\ Inputs /\ (Clean => Sound(Len(hist)))

LEMMA SequenceFacts == ASSUME NEW q, IsSequence(q) PROVE Len(q) \in Nat /\ DOMAIN q = 1..Len(q)
BY LenProperties DEF IsSequence

(* Steps that touch neither the files nor the copies. *)
LEMMA SoundSame ==
    ASSUME NEW n, Sound(n), UNCHANGED <<hist, meta, tmp, job, appended>>,
           \A p \in Procs : pc[p] \notin InSave \cup {"files"},
           \A p \in Procs : pc'[p] \notin InSave \cup {"files"}
    PROVE  Sound(n)'
BY DEF Sound, Kept, SaveSound, Filing, First, Procs, InSave

(* A save begins. *)
LEMMA SoundSaves ==
    ASSUME NEW n, Sound(n), UNCHANGED <<hist, meta, tmp, turn, appended>>,
           DOMAIN job = Procs, DOMAIN pc = Procs,
           NEW p \in Procs, NEW m, NEW ret, NEW err, Saves(p, m, ret, err),
           \A q \in Procs : pc[q] \notin InSave, p = "patch" => pc["turn"] # "files",
           m # Missing, m.total \in {0, n}, Kept(m), ret \notin InSave \cup {"files"},
           ret \in {"wrap", "through"} => Queued \subseteq First(m.total)
    PROVE  Sound(n)'
<1>1. /\ pc'[p] = "save" /\ \A q \in Procs \ {p} : pc'[q] = pc[q]
      /\ job'[p] = [meta |-> m, ret |-> ret, err |-> err]
  BY DEF Saves, Goto
<1>2. Kept(meta)' /\ Kept(m)'
  BY DEF Sound, Kept, First
<1>3. ASSUME NEW q \in Procs PROVE SaveSound(q, n)'
  <2>1. CASE q = p
    BY <1>1, <1>2, <2>1 DEF SaveSound, Kept, First, Queued
  <2>2. CASE q # p
    BY <1>1, <2>2 DEF SaveSound
  <2> QED
    BY <2>1, <2>2
<1>4. Filing(n)'
  BY <1>1 DEF Filing, Procs, InSave, Sound
<1>5. pc'["turn"] \notin InSave \cup {"files"} /\ meta' # Missing => meta'.total \in {0, n}
  BY <1>1 DEF Sound, Procs, InSave
<1>6. meta = Missing => appended = {}
  BY DEF Sound, InSave
<1> QED
  BY <1>2, <1>3, <1>4, <1>5, <1>6 DEF Sound

(* Only one process is busy in a step that begins and ends without an      *)
(* overlap.                                                                *)
LEMMA OnlyOne ==
    ASSUME ~Overlapping, NEW p \in Procs, pc[p] # "idle" PROVE \A q \in Procs \ {p} : pc[q] = "idle"
BY DEF Overlapping, Procs

LEMMA SoundAgain == ASSUME NEW n, n = Len(hist'), Sound(n)' PROVE Sound(Len(hist))'
BY DEF Sound, SaveSound, Filing

LEMMA SoundFile ==
    ASSUME Counted, IsSequence(turn.queue), ~Overlapping, Sound(Len(hist)), AppendFile
    PROVE  Sound(Len(hist))'
<1>n. PICK n \in Nat : n = Len(hist) /\ DOMAIN hist = 1..n
  BY HistFacts DEF Counted
<1> DEFINE q == turn.queue
<1>1. /\ pc["turn"] = "files" /\ turn.done < Len(q) /\ turn.seq = n + 1
      /\ hist' = Written(turn.seq, q[turn.done + 1])
      /\ UNCHANGED <<meta, tmp, pc, job, appended>>
  BY <1>n DEF AppendFile, Sound, Filing
<1>2. /\ turn.done \in 0..Len(q) /\ turn.done <= n /\ Len(q) \in Nat
      /\ meta # Missing => meta.total \in {0, n - turn.done}
      /\ \A j \in 1..turn.done : hist[n - turn.done + j] = q[j]
  BY <1>n, <1>1, SequenceFacts DEF Sound, Filing
<1>3. hist' = Longer(hist, q[turn.done + 1])
  BY <1>n, <1>1 DEF Written, Longer
<1>4. Len(hist') = n + 1 /\ (\A i \in 1..n : hist'[i] = hist[i]) /\ hist'[n + 1] = q[turn.done + 1]
  BY <1>n, <1>3, OneLonger DEF Counted, HistOK, Longer
<1>5. turn'.done = turn.done + 1 /\ turn'.seq = n + 2 /\ turn'.queue = q
  BY <1>n, <1>1 DEF AppendFile, Counted, LocalsOK, NoTurn
<1>6. \A k \in 0..n : First(k) \subseteq First(k)'
  BY <1>4 DEF First
<1>7. meta # Missing => meta.total \in 0..n
  BY <1>n DEF Counted, Copies, CopyOK
<1>8. Kept(meta)'
  BY <1>1, <1>6, <1>7 DEF Sound, Kept
<1>9. \A p \in Procs : pc[p] \notin InSave
  BY <1>1, OnlyOne DEF Procs, InSave
<1>10. \A p \in Procs, k \in Nat : SaveSound(p, k)'
  BY <1>1, <1>9 DEF SaveSound
<1>11. ASSUME NEW j \in 1..(turn.done + 1) PROVE hist'[n - turn.done + j] = q[j]
  <2>1. CASE j = turn.done + 1
    BY <1>n, <1>2, <1>4, <2>1
  <2>2. CASE j # turn.done + 1
    <3>1. j \in 1..turn.done /\ n - turn.done + j \in 1..n
      BY <1>n, <1>2, <2>2
    <3> QED
      BY <1>2, <1>4, <3>1
  <2> QED
    BY <2>1, <2>2
<1>k. PICK k \in Nat : k = n + 1
  BY <1>n
<1>12. \A j \in 1..turn'.done : hist'[k - turn'.done + j] = turn'.queue[j]
  <2>1. k - turn'.done = n - turn.done
    BY <1>n, <1>2, <1>5, <1>k
  <2> QED
    BY <1>5, <1>11, <2>1
<1>13. turn'.done \in 0..Len(q) /\ turn'.done <= k /\ turn'.seq = k + 1 /\ k - turn'.done = n - turn.done
  BY <1>n, <1>1, <1>2, <1>5, <1>k
<1>14. Filing(k)'
  BY <1>1, <1>2, <1>5, <1>12, <1>13 DEF Filing
<1>15. pc'["turn"] = "files" /\ (meta' = Missing => appended' = {})
  BY <1>1, <1>9 DEF Sound, InSave
<1>16. Sound(k)'
  BY <1>k, <1>8, <1>10, <1>14, <1>15 DEF Sound
<1> QED
  BY <1>4, <1>k, <1>16, SoundAgain

(* The number an append gives the metadata is that of the last file. *)
LEMMA SoundTotal ==
    ASSUME Counted, IsSequence(turn.queue), ~Overlapping, Sound(Len(hist)), AppendTotal, DOMAIN pc = Procs
    PROVE  Sound(Len(hist))'
<1>n. PICK n \in Nat : n = Len(hist) /\ DOMAIN hist = 1..n
  BY HistFacts DEF Counted
<1> DEFINE q == turn.queue
<1>1. /\ pc["turn"] = "files" /\ turn.done >= Len(q) /\ turn.seq = n + 1
      /\ UNCHANGED <<hist, meta, tmp, turn, appended>>
  BY <1>n DEF AppendTotal, Sound, Filing, fileVars
<1>2. /\ turn.done \in 0..Len(q) /\ turn.done <= n /\ Len(q) \in Nat /\ DOMAIN q = 1..Len(q)
      /\ meta # Missing => meta.total \in {0, n - turn.done}
      /\ \A j \in 1..turn.done : hist[n - turn.done + j] = q[j]
  BY <1>n, <1>1, SequenceFacts DEF Sound, Filing
<1>3. turn.done = Len(q)
  BY <1>1, <1>2
<1>4. \A p \in Procs : pc[p] \notin InSave
  BY <1>1, OnlyOne DEF Procs, InSave
<1>5. OnError \in {"wrap", "leave"}
  BY DEF OnError
<1>6. CASE meta = Missing
  <2>1. UNCHANGED job /\ Goto("turn", OnError)
    BY <1>6 DEF AppendTotal
  <2>2. pc'["turn"] = OnError /\ pc'["patch"] = pc["patch"]
    BY <2>1 DEF Goto, Procs
  <2>3. appended = {}
    BY <1>4, <1>6 DEF Sound, InSave
  <2>4. \A p \in Procs : pc'[p] \notin InSave \cup {"files"}
    BY <1>1, <1>5, <2>2, OnlyOne DEF Procs, InSave
  <2> QED
    BY <1>n, <1>1, <1>6, <2>1, <2>3, <2>4 DEF Sound, Kept, SaveSound, Filing, Procs
<1>7. CASE meta # Missing
  <2>1. PICK k : k = TotalSeq(meta.total)
    OBVIOUS
  <2>2. k \in {0, n} /\ meta.total <= k /\ (Len(q) > 0 => k = n)
    <3>1. meta.total \in Nat
      BY <1>n, <1>2, <1>7
    <3> QED
      BY <1>n, <1>1, <1>2, <1>3, <1>7, <2>1, <3>1 DEF TotalSeq
  <2>3. PICK m : m = [meta EXCEPT !.total = k]
    OBVIOUS
  <2>4. m # Missing /\ m.total = k
    <3>1. DOMAIN meta = {"total", "active", "bind"}
      BY <1>7, <1>n DEF Counted, Copies, CopyOK
    <3>2. DOMAIN m = {"total", "active", "bind"}
      BY <2>3, <3>1
    <3> QED
      BY <2>3, <3>1, <3>2 DEF Missing
  <2>5. Kept(m)
    <3>1. First(meta.total) \subseteq First(k)
      BY <1>n, <1>2, <1>7, <2>2 DEF First
    <3> QED
      BY <1>7, <2>4, <3>1 DEF Sound, Kept
  <2>6. Queued \subseteq First(k)
    <3>1. SUFFICES ASSUME NEW j \in 1..Len(q) PROVE q[j] \in First(k)
      BY <1>2 DEF Queued
    <3>2. PICK d \in Nat : d = turn.done /\ d = Len(q) /\ d <= n
      BY <1>2, <1>3
    <3>3. k = n /\ hist[n - d + j] = q[j] /\ n - d + j \in 1..n
      <4>1. k = n
        BY <2>2, <3>1, <3>2
      <4>2. n - d + j \in 1..n
        BY <3>1, <3>2
      <4> QED
        BY <1>2, <3>2, <4>1, <4>2
    <3> QED
      BY <3>3 DEF First
  <2>7. PICK ret : ret \in {"wrap", "through"} /\ Saves("turn", m, ret, OnError)
    BY <1>7, <2>1, <2>3 DEF AppendTotal
  <2>8. ret \notin InSave \cup {"files"} /\ "turn" \in Procs /\ DOMAIN job = Procs /\ Sound(n)
    BY <1>n, <2>7 DEF InSave, Procs, Counted, Copies
  <2>9. m.total \in {0, n} /\ Queued \subseteq First(m.total) /\ "turn" # "patch"
    BY <2>2, <2>4, <2>6
  <2>10. Sound(n)'
    BY <1>1, <1>4, <2>4, <2>5, <2>7, <2>8, <2>9, SoundSaves
  <2> QED
    BY <1>n, <1>1, <2>10, SoundAgain
<1> QED
  BY <1>6, <1>7

LEMMA SoundStep ==
    ASSUME IInv, IsSequence(turn.queue), Sound(Len(hist)), crashes \in Nat, Clean, Step, ~Overlapping', ~(crashes' # crashes /\ Disagree)
    PROVE  Sound(Len(hist))'
<1>n. PICK n \in Nat : n = Len(hist) /\ DOMAIN hist = 1..n
  BY HistFacts DEF IInv, Counted
<1>c. Counted /\ Copies(n) /\ Sound(n) /\ DOMAIN pc = Procs /\ DOMAIN job = Procs /\ ~Overlapping
  BY <1>n DEF IInv, Counted, Copies, Clean
<1>p. "turn" \in Procs /\ "patch" \in Procs /\ \A p \in Procs : p \in {"turn", "patch"}
  BY DEF Procs
<1>t. pc["turn"] \notin {"idle"} => pc["patch"] = "idle"
  BY <1>c, <1>p DEF Overlapping
<1>u. pc["patch"] \notin {"idle"} => pc["turn"] = "idle"
  BY <1>c, <1>p DEF Overlapping
<1>a. ASSUME NEW label, NEW label2, Goto("turn", label2), pc["turn"] = label, UNCHANGED <<hist, meta, tmp, job, appended>>,
             label \notin InSave \cup {"files"}, label2 \notin InSave \cup {"files"}, pc["patch"] = "idle"
      PROVE  Sound(Len(hist))'
  <2>1. \A p \in Procs : pc[p] \notin InSave \cup {"files"} /\ pc'[p] \notin InSave \cup {"files"}
    BY <1>a, <1>c, <1>p DEF Goto, InSave
  <2> QED
    BY <1>a, <1>c, <1>n, <2>1, SoundSame, SoundAgain
<1>b. ASSUME NEW label, NEW label2, Goto("patch", label2), pc["patch"] = label, UNCHANGED <<hist, meta, tmp, job, appended>>,
             label \notin InSave \cup {"files"}, label2 \notin InSave \cup {"files"}, pc["turn"] = "idle"
      PROVE  Sound(Len(hist))'
  <2>1. \A p \in Procs : pc[p] \notin InSave \cup {"files"} /\ pc'[p] \notin InSave \cup {"files"}
    BY <1>b, <1>c, <1>p DEF Goto, InSave
  <2> QED
    BY <1>b, <1>c, <1>n, <2>1, SoundSame, SoundAgain
<1>m. meta # Missing => DOMAIN meta = {"total", "active", "bind"} /\ Kept(meta)
  BY <1>c DEF Copies, CopyOK, Sound
<1>f. ASSUME NEW a, meta = Missing, \A p \in Procs : pc[p] # "rename"
      PROVE  Fresh(a) # Missing /\ Fresh(a).total = 0 /\ Kept(Fresh(a))
  <2>1. DOMAIN Fresh(a) = {"total", "active", "bind"} /\ Fresh(a).total = 0
    BY DEF Fresh
  <2>2. appended = {}
    BY <1>c, <1>f DEF Sound
  <2> QED
    BY <2>1, <2>2 DEF Missing, Kept
<1>e. \A a, b : meta # Missing =>
        /\ [meta EXCEPT !.active = a] # Missing /\ [meta EXCEPT !.active = a].total = meta.total
        /\ Kept([meta EXCEPT !.active = a])
  <2>1. ASSUME NEW a, meta # Missing PROVE [meta EXCEPT !.active = a] # Missing /\ [meta EXCEPT !.active = a].total = meta.total
    <3>1. DOMAIN [meta EXCEPT !.active = a] = {"total", "active", "bind"}
      BY <1>m, <2>1
    <3> QED
      BY <1>m, <2>1, <3>1 DEF Missing
  <2> QED
    BY <1>m, <2>1 DEF Kept
<1>g. meta # Missing =>
        LET b == Bound(turn.origin, turn.native, turn.through)
        IN b # Missing /\ b.total = meta.total /\ Kept(b)
  <2>1. ASSUME meta # Missing, NEW b, b = Bound(turn.origin, turn.native, turn.through)
        PROVE  b # Missing /\ b.total = meta.total
    <3>1. DOMAIN b = {"total", "active", "bind"} /\ b.total = meta.total
      BY <1>m, <2>1 DEF Bound
    <3> QED
      BY <3>1 DEF Missing
  <2> QED
    BY <1>m, <2>1 DEF Kept
<1>s. ASSUME NEW p \in Procs, NEW m, NEW ret, NEW err, Saves(p, m, ret, err), UNCHANGED <<hist, meta, tmp, turn, appended>>,
             \A q \in Procs : pc[q] \notin InSave \cup {"files"},
             m # Missing, m.total \in {0, n}, Kept(m), ret \notin InSave \cup {"files", "wrap", "through"}
      PROVE  Sound(Len(hist))'
  <2>1. Sound(n)'
    BY <1>c, <1>p, <1>s, SoundSaves
  <2> QED
    BY <1>n, <1>s, <2>1, SoundAgain
<1>o. \A x : x \in {0, n} <=> x = 0 \/ x = n
  OBVIOUS
<1>v. pc'["turn"] # "idle" => pc'["patch"] = "idle"
  BY <1>p DEF Overlapping
<1>1. CASE SendMessage
  <2>1. pc["turn"] = "idle" /\ Goto("turn", "init") /\ UNCHANGED <<hist, meta, tmp, job, appended>>
    BY <1>1 DEF SendMessage, fileVars
  <2>2. pc["patch"] = "idle"
    BY <1>c, <1>p, <1>v, <2>1 DEF Goto
  <2> QED
    BY <1>a, <2>1, <2>2 DEF InSave
<1>2. CASE InitMetadata
  <2>1. pc["turn"] = "init" /\ pc["patch"] = "idle" /\ UNCHANGED <<hist, meta, tmp, turn, appended>>
    BY <1>2, <1>t DEF InitMetadata, fileVars
  <2>2. \A p \in Procs : pc[p] \notin InSave \cup {"files"}
    BY <1>p, <2>1 DEF InSave
  <2>3. CASE Goto("turn", "append") /\ UNCHANGED job
    BY <1>a, <2>1, <2>3 DEF InSave
  <2>4. CASE \E m, ret, err : m # Missing /\ m.total \in {0, n} /\ Kept(m) /\ ret \notin InSave \cup {"files", "wrap", "through"}
                              /\ Saves("turn", m, ret, err)
    BY <1>p, <1>s, <2>1, <2>2, <2>4
  <2>5. meta # Missing => meta.total \in {0, n}
    BY <1>c, <1>p, <2>2 DEF Sound
  <2>6. "append" \notin InSave \cup {"files", "wrap", "through"} /\ \A p \in Procs : pc[p] # "rename"
    BY <2>2 DEF InSave
  <2>7. CASE meta = Missing
    <3>1. Saves("turn", Fresh(turn.origin), "append", OnError)
      BY <1>2, <2>7 DEF InitMetadata
    <3> QED
      BY <1>f, <2>4, <2>6, <2>7, <3>1
  <2>8. CASE meta # Missing
    BY <1>2, <1>e, <2>3, <2>4, <2>5, <2>6, <2>8 DEF InitMetadata
  <2> QED
    BY <2>7, <2>8
<1>3. CASE AppendBegins
  <2>1. pc["turn"] = "append" /\ pc["patch"] = "idle" /\ UNCHANGED <<hist, meta, tmp, turn, appended>>
    BY <1>3, <1>t DEF AppendBegins, fileVars
  <2>2. \A p \in Procs : pc[p] \notin InSave \cup {"files"} /\ pc[p] # "rename"
    BY <1>p, <2>1 DEF InSave
  <2>3. CASE Goto("turn", "number") /\ UNCHANGED job
    BY <1>a, <2>1, <2>3 DEF InSave
  <2>4. CASE meta = Missing /\ Saves("turn", Fresh(NoAgent), "number", OnError)
    <3>1. PICK m : m = Fresh(NoAgent)
      OBVIOUS
    <3>2. m # Missing /\ m.total \in {0, n} /\ Kept(m) /\ Saves("turn", m, "number", OnError)
      BY <1>f, <2>2, <2>4, <3>1
    <3> QED
      BY <1>p, <1>s, <2>1, <2>2, <3>2 DEF InSave
  <2> QED
    BY <1>3, <2>3, <2>4 DEF AppendBegins
<1>4. CASE AppendNumbers
  <2>1. /\ pc["turn"] = "number" /\ pc["patch"] = "idle" /\ UNCHANGED <<hist, meta, tmp, job, appended>>
        /\ pc'["turn"] = "files" /\ pc'["patch"] = "idle"
    BY <1>4, <1>c, <1>p, <1>t DEF AppendNumbers, Goto, fileVars
  <2>2. turn'.seq = NextSeq /\ turn'.done = 0 /\ turn'.queue = turn.queue
    BY <1>4, <1>c DEF AppendNumbers, Counted, LocalsOK, NoTurn
  <2>3. meta # Missing => meta.total \in {0, n}
    BY <1>c, <1>p, <2>1 DEF Sound, InSave
  <2>4. NextSeq = n + 1
    BY <1>n, <1>c, <2>3, LastFound DEF NextSeq, Counted
  <2>5. Len(turn.queue) \in Nat
    BY SequenceFacts
  <2>6. Filing(n)'
    <3>1. 0 \in 0..Len(turn.queue) /\ 0 <= n /\ n - 0 = n /\ 1..0 = {}
      BY <2>5
    <3> QED
      BY <2>1, <2>2, <2>3, <2>4, <3>1 DEF Filing
  <2>7. \A p \in Procs : SaveSound(p, n)'
    BY <1>p, <2>1 DEF SaveSound, InSave
  <2>8. meta = Missing => appended = {}
    BY <1>c, <1>p, <2>1 DEF Sound
  <2>9. Kept(meta)'
    BY <1>c, <2>1 DEF Sound, Kept, First
  <2>10. Sound(n)'
    BY <2>1, <2>6, <2>7, <2>8, <2>9 DEF Sound
  <2> QED
    BY <1>n, <2>1, <2>10, SoundAgain
<1>5. CASE AppendFile
  BY <1>5, <1>c, SoundFile
<1>6. CASE AppendTotal
  BY <1>6, <1>c, SoundTotal
<1>7. CASE WrapPrompt
  <2>1. \E label : Goto("turn", label) /\ label \in {"start", "idle"}
    BY <1>7 DEF WrapPrompt, Returns
  <2>2. pc["turn"] = "wrap" /\ UNCHANGED <<hist, meta, tmp, job, appended>> /\ pc["patch"] = "idle"
    BY <1>7, <1>t DEF WrapPrompt, fileVars
  <2> QED
    BY <1>a, <2>1, <2>2 DEF InSave
<1>8. CASE StartAgent
  BY <1>8, <1>a, <1>t DEF StartAgent, fileVars, InSave
<1>9. CASE StartFails \/ TurnStopped \/ LeaveUningested \/ UpdateRecord
  <2>1. pc["turn"] \in {"start", "running", "leave", "record"} /\ Goto("turn", "idle")
    BY <1>9 DEF StartFails, TurnStopped, LeaveUningested, UpdateRecord, Returns
  <2>2. UNCHANGED <<hist, meta, tmp, job, appended>> /\ pc["patch"] = "idle"
    BY <1>9, <1>t, <2>1 DEF StartFails, TurnStopped, LeaveUningested, UpdateRecord, fileVars
  <2> QED
    BY <1>a, <2>1, <2>2 DEF InSave
<1>10. CASE SelfHeal \/ \E e \in EventKinds : AgentEmit(e)
  <2>1. pc["turn"] = "running" /\ UNCHANGED <<hist, meta, tmp, job, appended, pc>>
    BY <1>10 DEF SelfHeal, AgentEmit, fileVars
  <2>2. \A p \in Procs : pc[p] \notin InSave \cup {"files"} /\ pc'[p] \notin InSave \cup {"files"}
    BY <1>p, <1>t, <2>1 DEF InSave
  <2> QED
    BY <1>n, <1>c, <2>1, <2>2, SoundSame, SoundAgain
<1>11. CASE TurnEnds
  BY <1>11, <1>a, <1>t DEF TurnEnds, fileVars, InSave
<1>12. CASE ReadThrough
  <2>1. \E label : Goto("turn", label) /\ label \in {"leave", "bind"}
    BY <1>12 DEF ReadThrough
  <2>2. pc["turn"] = "through" /\ UNCHANGED <<hist, meta, tmp, job, appended>> /\ pc["patch"] = "idle"
    BY <1>12, <1>t DEF ReadThrough, fileVars
  <2> QED
    BY <1>a, <2>1, <2>2 DEF InSave
<1>13. CASE UpdateBinding
  <2>1. pc["turn"] \in {"bind", "rebind"} /\ pc["patch"] = "idle" /\ UNCHANGED <<hist, meta, tmp, turn, appended>>
    BY <1>13, <1>t DEF UpdateBinding, fileVars
  <2>2. \A p \in Procs : pc[p] \notin InSave \cup {"files"} /\ pc[p] # "rename"
    BY <1>p, <2>1 DEF InSave
  <2>3. CASE meta # Missing
    <3>1. PICK m : m = Bound(turn.origin, turn.native, turn.through)
      OBVIOUS
    <3>2. m # Missing /\ m.total = meta.total /\ Kept(m) /\ Saves("turn", m, "record", "leave")
      BY <1>13, <1>g, <2>3, <3>1 DEF UpdateBinding
    <3>3. m.total \in {0, n}
      BY <1>c, <1>p, <2>2, <2>3, <3>2 DEF Sound
    <3> QED
      BY <1>p, <1>s, <2>1, <2>2, <3>2, <3>3 DEF InSave
  <2>4. CASE meta = Missing /\ pc["turn"] = "bind"
    <3>1. PICK m : m = Fresh(turn.origin)
      OBVIOUS
    <3>2. m # Missing /\ m.total \in {0, n} /\ Kept(m) /\ Saves("turn", m, "rebind", "leave")
      BY <1>13, <1>f, <2>2, <2>4, <3>1 DEF UpdateBinding
    <3> QED
      BY <1>p, <1>s, <2>1, <2>2, <3>2 DEF InSave
  <2>5. CASE meta = Missing /\ pc["turn"] # "bind"
    <3>1. Goto("turn", "leave") /\ UNCHANGED job
      BY <1>13, <2>5 DEF UpdateBinding
    <3> QED
      BY <1>a, <2>1, <3>1 DEF InSave
  <2> QED
    BY <2>3, <2>4, <2>5
<1>14. CASE PatchAccepted
  <2>1. pc["patch"] = "idle" /\ Goto("patch", "patch") /\ UNCHANGED <<hist, meta, tmp, job, appended>>
    BY <1>14 DEF PatchAccepted, fileVars
  <2>2. pc["turn"] = "idle"
    BY <1>c, <1>p, <1>v, <2>1 DEF Goto
  <2> QED
    BY <1>b, <2>1, <2>2 DEF InSave
<1>15. CASE PatchRefused \/ PatchUpdate
  <2>1. /\ pc["patch"] \in {"patch", "switched", "update"} /\ Goto("patch", "idle")
        /\ UNCHANGED <<hist, meta, tmp, job, appended>>
    BY <1>15 DEF PatchRefused, PatchUpdate, fileVars
  <2> QED
    BY <1>b, <1>u, <2>1 DEF InSave
<1>16. CASE PatchSupplement \/ \E a \in Agents : PatchAgent(a)
  <2>1. pc["patch"] \in {"patch", "switched"} /\ pc["turn"] = "idle" /\ UNCHANGED <<hist, meta, tmp, turn, appended>>
    BY <1>16, <1>u DEF PatchSupplement, PatchAgent, fileVars
  <2>2. \A p \in Procs : pc[p] \notin InSave \cup {"files"}
    BY <1>p, <2>1 DEF InSave
  <2>3. CASE meta = Missing
    <3>1. \E label : label \in {"idle", "switched"} /\ Goto("patch", label) /\ UNCHANGED job
      BY <1>16, <2>3 DEF PatchSupplement, PatchAgent
    <3> QED
      BY <1>b, <2>1, <3>1 DEF InSave
  <2>4. CASE meta # Missing
    <3>1. \E m, ret, err : m # Missing /\ m.total = meta.total /\ Kept(m) /\ ret \in {"switched", "update"}
                          /\ Saves("patch", m, ret, err)
      BY <1>16, <1>e, <1>m, <2>4 DEF PatchSupplement, PatchAgent
    <3>2. meta.total \in {0, n}
      BY <1>c, <1>p, <2>2, <2>4 DEF Sound
    <3> QED
      BY <1>p, <1>s, <2>1, <2>2, <3>1, <3>2 DEF InSave
  <2> QED
    BY <2>3, <2>4
<1>w. ASSUME NEW p \in Procs, pc[p] # "idle" PROVE \A q \in Procs \ {p} : pc[q] = "idle"
  BY <1>c, <1>w, OnlyOne
<1>17. ASSUME NEW p \in Procs, SaveWrite(p) PROVE Sound(Len(hist))'
  <2>1. /\ pc[p] = "save" /\ pc'[p] = "remove" /\ tmp' = job[p].meta /\ UNCHANGED <<hist, meta, job, turn, appended>>
        /\ \A q \in Procs \ {p} : pc[q] = "idle" /\ pc'[q] = "idle"
    BY <1>17, <1>c, <1>w DEF SaveWrite, Goto
  <2>a. PICK cp, ret : /\ cp = job[p].meta /\ ret = job[p].ret /\ cp # Missing /\ cp.total \in {0, n} /\ Kept(cp)
                       /\ ret \notin InSave \cup {"files"}
                       /\ ret \in {"wrap", "through"} => Queued \subseteq First(cp.total)
    BY <1>c, <2>1 DEF Sound, SaveSound, InSave
  <2>b. Queued' = Queued /\ (\A k : First(k)' = First(k)) /\ appended' = appended
    BY <2>1 DEF First, Queued
  <2>c. Kept(cp)'
    BY <2>1, <2>a DEF Kept, First
  <2>d. job'[p].meta = cp /\ job'[p].ret = ret /\ (pc'[p] # "save" => tmp' = cp)
    BY <2>1, <2>a
  <2>e. Kept(job[p].meta)'
    BY <2>c, <2>d DEF Kept
  <2>2. SaveSound(p, n)'
    BY <2>a, <2>b, <2>d, <2>e DEF SaveSound
  <2>3. \A q \in Procs : SaveSound(q, n)'
    BY <2>1, <2>2 DEF SaveSound, InSave
  <2>4. Kept(meta)' /\ (meta = Missing => appended = {})
    BY <1>c, <2>1 DEF Sound, Kept, First
  <2>5. pc'["turn"] \notin InSave \cup {"files"} /\ meta # Missing => meta.total \in {0, n}
    BY <1>c, <1>p, <2>1 DEF Sound, InSave
  <2>6. Filing(n)'
    BY <1>p, <2>1 DEF Filing
  <2>7. Sound(n)'
    BY <2>1, <2>3, <2>4, <2>5, <2>6 DEF Sound
  <2> QED
    BY <1>n, <2>1, <2>7, SoundAgain
<1>18. ASSUME NEW p \in Procs, SaveRemove(p) PROVE Sound(Len(hist))'
  <2>1. /\ pc[p] = "remove" /\ pc'[p] = "rename" /\ meta' = Missing /\ UNCHANGED <<hist, tmp, job, turn, appended>>
        /\ \A q \in Procs \ {p} : pc[q] = "idle" /\ pc'[q] = "idle"
    BY <1>18, <1>c, <1>w DEF SaveRemove, Goto
  <2>a. PICK cp, ret : /\ cp = job[p].meta /\ ret = job[p].ret /\ cp # Missing /\ cp.total \in {0, n} /\ Kept(cp)
                       /\ ret \notin InSave \cup {"files"}
                       /\ ret \in {"wrap", "through"} => Queued \subseteq First(cp.total)
                       /\ tmp = cp
    BY <1>c, <2>1 DEF Sound, SaveSound, InSave
  <2>b. Queued' = Queued /\ (\A k : First(k)' = First(k)) /\ appended' = appended
    BY <2>1 DEF First, Queued
  <2>c. Kept(cp)'
    BY <2>1, <2>a DEF Kept, First
  <2>d. job'[p].meta = cp /\ job'[p].ret = ret /\ (pc'[p] # "save" => tmp' = cp)
    BY <2>1, <2>a
  <2>e. Kept(job[p].meta)'
    BY <2>c, <2>d DEF Kept
  <2>2. SaveSound(p, n)'
    BY <2>a, <2>b, <2>d, <2>e DEF SaveSound
  <2>3. \A q \in Procs : SaveSound(q, n)'
    BY <2>1, <2>2 DEF SaveSound, InSave
  <2>4. Filing(n)'
    BY <1>p, <2>1 DEF Filing
  <2>5. Sound(n)'
    BY <2>1, <2>3, <2>4 DEF Sound, Kept
  <2> QED
    BY <1>n, <2>1, <2>5, SoundAgain
<1>19. ASSUME NEW p \in Procs, SaveRename(p) PROVE Sound(Len(hist))'
  <2>1. /\ pc[p] = "rename" /\ UNCHANGED <<hist, turn>> /\ \A q \in Procs \ {p} : pc[q] = "idle"
        /\ tmp = job[p].meta /\ tmp # Missing /\ tmp.total \in {0, n} /\ Kept(tmp)
        /\ job[p].ret \notin InSave \cup {"files"}
        /\ job[p].ret \in {"wrap", "through"} => Queued \subseteq First(tmp.total)
    BY <1>19, <1>c, <1>w DEF SaveRename, Sound, SaveSound, InSave
  <2>2. /\ meta' = tmp /\ pc'[p] = job[p].ret /\ \A q \in Procs \ {p} : pc'[q] = "idle"
        /\ appended' = IF job[p].ret \in {"wrap", "through"} THEN appended \cup Queued ELSE appended
    BY <1>19, <1>c, <2>1 DEF SaveRename, Goto, Queued
  <2>3. \A k : First(k)' = First(k)
    BY <2>1 DEF First
  <2>4. Kept(meta)'
    BY <2>1, <2>2, <2>3 DEF Kept
  <2>5. \A q \in Procs : pc'[q] \notin InSave \cup {"files"}
    BY <2>1, <2>2 DEF InSave
  <2>6. Sound(n)'
    BY <1>p, <2>1, <2>2, <2>4, <2>5 DEF Sound, SaveSound, Filing
  <2> QED
    BY <1>n, <2>1, <2>6, SoundAgain
<1>20. CASE Crash
  <2>1. UNCHANGED <<hist, meta>> /\ appended' = {} /\ \A p \in Procs : pc'[p] = "idle"
    BY <1>20 DEF Crash, fileVars
  <2>2. crashes' # crashes
    BY <1>20 DEF Crash
  <2>3. Cardinality(DOMAIN hist) = n
    <3>1. Cardinality(1..n) = IF 1 > n THEN 0 ELSE n - 1 + 1
      BY FS_Interval
    <3> QED
      BY <1>n, <3>1
  <2>4. meta # Missing => meta.total \in 0..n /\ ~(0 < meta.total /\ meta.total < n)
    BY <1>c, <2>2, <2>3 DEF Disagree, Copies, CopyOK
  <2>5. meta # Missing => meta.total \in {0, n}
    BY <2>4
  <2>6. Sound(n)'
    BY <1>p, <2>1, <2>5 DEF Sound, Kept, SaveSound, Filing, InSave
  <2> QED
    BY <1>n, <2>1, <2>6, SoundAgain
<1> QED
  BY <1>1, <1>2, <1>3, <1>4, <1>5, <1>6, <1>7, <1>8, <1>9, <1>10, <1>11, <1>12, <1>13, <1>14, <1>15, <1>16,
     <1>17, <1>18, <1>19, <1>20 DEF Step, Turn, Patch, Save

LEMMA SequenceOf == ASSUME NEW n \in Nat, NEW q, DOMAIN q = 1..n, q = [i \in 1..n |-> q[i]] PROVE IsSequence(q)
<1> DEFINE S == {q[s] : s \in DOMAIN q}
<1>1. q \in [1..n -> S]
  OBVIOUS
<1> HIDE DEF S
<1>2. Seq(S) = UNION {[1..k -> S] : k \in Nat}
  BY SeqDef, Zenon
<1>3. q \in Seq(S)
  BY <1>1, <1>2, Zenon
<1> QED
  BY <1>3 DEF S, IsSequence

LEMMA InputsStep == ASSUME IInv, Inputs, [Next]_vars PROVE Inputs'
<1>e. <<>> \in Seq(EventKinds) /\ IsSequence(<<>>)
  BY EmptySeq DEF IsSequence
<1>t. DOMAIN turn = DOMAIN NoTurn /\ NoTurn.queue = <<>>
  BY DEF IInv, Counted, LocalsOK, NoTurn
<1>q. turn'.queue = turn.queue => IsSequence(turn'.queue)
  BY DEF Inputs
<1>1. CASE SendMessage
  <2>1. PICK q : q = turn'.queue
    OBVIOUS
  <2>2. q = <<[turn |-> sent + 1, origin |-> rec.agent, body |-> <<>>]>>
    BY <1>1, <2>1 DEF SendMessage, NoTurn
  <2>3. PICK x : q = <<x>>
    BY <2>2
  <2>4. DOMAIN q = 1..1 /\ q = [i \in 1..1 |-> q[i]]
    BY <2>3
  <2>5. IsSequence(q)
    BY <2>4, SequenceOf
  <2> QED
    BY <1>1, <2>1, <2>5 DEF SendMessage, runVars, Inputs
<1>2. CASE InitMetadata \/ AppendBegins \/ AppendTotal \/ UpdateBinding
  BY <1>2, <1>q DEF InitMetadata, AppendBegins, AppendTotal, UpdateBinding, runVars, Inputs
<1>3. CASE AppendNumbers \/ AppendFile \/ ReadThrough
  <2>1. turn'.queue = turn.queue
    BY <1>3, <1>t DEF AppendNumbers, AppendFile, ReadThrough, NoTurn
  <2> QED
    BY <1>3, <1>q, <2>1 DEF AppendNumbers, AppendFile, ReadThrough, runVars, Inputs
<1>4. CASE StartFails \/ TurnStopped \/ UpdateRecord \/ LeaveUningested \/ Crash
  <2>1. events' = <<>> /\ turn' = NoTurn /\ crashes' \in Nat
    BY <1>4 DEF StartFails, TurnStopped, UpdateRecord, LeaveUningested, Crash, Returns, Inputs
  <2> QED
    BY <1>e, <1>t, <2>1 DEF Inputs
<1>5. CASE WrapPrompt
  <2>1. events' \in {events, <<>>} /\ turn'.queue \in {turn.queue, <<>>} /\ crashes' = crashes
    BY <1>5, <1>t DEF WrapPrompt, Returns, NoTurn
  <2> QED
    BY <1>e, <2>1 DEF Inputs
<1>6. CASE StartAgent \/ SelfHeal
  <2>1. events' = <<>> /\ turn'.queue = turn.queue /\ crashes' = crashes
    BY <1>6, <1>t DEF StartAgent, SelfHeal, NoTurn
  <2> QED
    BY <1>e, <2>1 DEF Inputs
<1>7. CASE TurnEnds
  <2>1. PICK bodies : bodies = EventsToMessages(events)
    OBVIOUS
  <2>2. bodies \in Seq(Seq(1..Len(events)))
    BY <2>1, MessagesOfEvents DEF Inputs
  <2>3. PICK n \in Nat : n = Len(bodies)
    BY <2>2, LenProperties
  <2>4. PICK q : q = turn'.queue
    OBVIOUS
  <2>5. q = [i \in 1..n |-> [turn |-> sent, origin |-> rec.agent, body |-> bodies[i]]]
    BY <1>7, <1>t, <2>1, <2>3, <2>4 DEF TurnEnds, NoTurn
  <2>6. DOMAIN q = 1..n /\ q = [i \in 1..n |-> q[i]]
    BY <2>5
  <2>7. IsSequence(q)
    BY <2>6, SequenceOf
  <2> QED
    BY <1>7, <1>e, <2>4, <2>7 DEF TurnEnds, Inputs
<1>8. ASSUME NEW e \in EventKinds, AgentEmit(e) PROVE Inputs'
  <2>1. events' = Append(events, e) /\ turn' = turn /\ crashes' = crashes
    BY <1>8 DEF AgentEmit
  <2>2. events' \in Seq(EventKinds)
    BY <2>1, AppendProperties DEF Inputs
  <2> QED
    BY <2>1, <2>2 DEF Inputs
<1>9. CASE Patch
  BY <1>9, <1>q DEF Patch, PatchAccepted, PatchAgent, PatchSupplement, PatchRefused, PatchUpdate, runVars, Inputs
<1>10. CASE Save
  BY <1>10, <1>q DEF Save, SaveWrite, SaveRemove, SaveRename, runVars, Inputs
<1>11. CASE UNCHANGED vars
  BY <1>11, <1>q DEF vars, runVars, Inputs
<1> QED
  BY <1>1, <1>2, <1>3, <1>4, <1>5, <1>6, <1>7, <1>8, <1>9, <1>10, <1>11 DEF Next, Step, Turn

LEMMA InitSound == Init => KInv
<1> SUFFICES ASSUME Init PROVE KInv
  OBVIOUS
<1>1. events = <<>> /\ turn.queue = <<>> /\ crashes = 0 /\ hist = <<>> /\ appended = {}
  BY DEF Init, NoTurn
<1>2. Len(hist) = 0 /\ <<>> \in Seq(EventKinds) /\ IsSequence(<<>>)
  BY <1>1, EmptySeq DEF IsSequence
<1>3. \A p \in Procs : pc[p] = "idle"
  BY DEF Init
<1>4. meta.total = 0
  BY DEF Init, Fresh
<1>5. Sound(0)
  BY <1>1, <1>3, <1>4 DEF Sound, Kept, SaveSound, Filing, InSave, Procs
<1>6. Sound(Len(hist))
  BY <1>2, <1>5
<1> QED
  BY <1>1, <1>2, <1>6, InitCounted DEF KInv, Inputs

LEMMA StepSound == KInv /\ [Next]_vars => KInv'
<1> SUFFICES ASSUME KInv, [Next]_vars PROVE KInv'
  OBVIOUS
<1>1. IInv' /\ Inputs'
  BY StepCounted, InputsStep DEF KInv
<1>2. ASSUME Clean' PROVE Sound(Len(hist))'
  <2>1. CASE UNCHANGED vars
    <3>1. Clean
      BY <1>2, <2>1 DEF Clean, Overlapping, vars
    <3>2. Sound(Len(hist))
      BY <3>1 DEF KInv
    <3> QED
      <4>1. UNCHANGED <<hist, meta, tmp, pc, job, turn, appended>>
        BY <2>1 DEF vars, fileVars
      <4>2. Queued' = Queued /\ \A k : First(k)' = First(k)
        BY <4>1 DEF Queued, First
      <4>3. \A c : Kept(c)' <=> Kept(c)
        BY <4>1, <4>2 DEF Kept
      <4>4. Filing(Len(hist))' /\ \A p \in Procs : SaveSound(p, Len(hist))'
        BY <3>2, <4>1, <4>2, <4>3 DEF Sound, Filing, SaveSound, Kept
      <4> QED
        BY <3>2, <4>1, <4>4, <4>3 DEF Sound, Kept, First
  <2>2. CASE Next
    <3>1. Clean /\ Step /\ ~Overlapping' /\ ~(crashes' # crashes /\ Disagree)
      BY <1>2, <2>2 DEF Next, Clean
    <3> QED
      BY <3>1, SoundStep DEF KInv, Inputs
  <2> QED
    BY <2>1, <2>2
<1> QED
  BY <1>1, <1>2 DEF KInv, Inputs

(* Nothing of a turn is lost on its way into the history                   *)
(* (EventsToMessages, Append, AppendHistory): every text, tool use and     *)
(* tool result is in one message, in order, and a message whose Append     *)
(* returned nil is in the history and counted by TotalSeq, until a crash   *)
(* comes upon files that do not agree or a PATCH and a turn overlap.       *)
THEOREM NothingIsLost == Spec => []NothingLost
<1>1. ASSUME KInv PROVE NothingLost
  <2>1. FactsKept
    BY <1>1, FactsAreKept DEF KInv, Inputs
  <2>2. AppendedKept
    BY <1>1 DEF KInv, Clean, Sound, Kept, First, AppendedKept
  <2> QED
    BY <2>1, <2>2 DEF NothingLost
<1>2. KInv => NothingLost
  BY <1>1
<1> QED
  BY <1>2, InitSound, StepSound, PTL DEF Spec

-----------------------------------------------------------------------------
(* Types.  No copy of the metadata, nor a turn, knows a native thread that *)
(* was not begun, and k threads were.                                      *)
Labels == {"idle", "init", "append", "number", "files", "wrap", "start", "running", "through", "bind",
           "rebind", "record", "leave", "save", "remove", "rename", "patch", "switched", "update"}

Binding(k) == [native : 0..k, through : Nat]
Copy(k)    == [total : Nat, active : Agents \cup {NoAgent}, bind : [Agents -> Binding(k)]] \cup {Missing}
Record(k)  == [agent : Agents, native : 0..k]
Job(k)     == [meta : Copy(k), ret : Labels, err : Labels]
Thread     == [shown : SUBSET Message, whole : BOOLEAN]
Locals(k)  == [phase : {"user", "ingest"}, origin : Agents \cup {NoAgent}, native : 0..k, queue : Seq(Message),
               done : Nat, seq : Nat, through : Nat, resume : 0..k, sup : SUBSET Message, bare : BOOLEAN,
               thread : 0..k, healed : BOOLEAN]

TypedFiles(k) == /\ \A s \in DOMAIN hist : hist[s] \in Message
                 /\ meta \in Copy(k) /\ tmp \in Copy(k) /\ rec \in Record(k) /\ disk \in Record(k)
TypedProcs(k) == pc \in [Procs -> Labels] /\ job \in [Procs -> Job(k)] /\ turn \in Locals(k)
TypedCounts ==
    /\ sent \in 0..MaxTurns /\ (pc["turn"] # "idle" => sent > 0)
    /\ emitted \in 0..MaxEvents /\ events \in Seq(EventKinds) /\ Len(events) <= emitted
    /\ busy \in BOOLEAN /\ raced \in BOOLEAN /\ torn \in BOOLEAN /\ stops \in Nat /\ crashes \in Nat

Typed ==
    /\ threads \in Seq(Thread)
    /\ TypedFiles(Len(threads)) /\ TypedProcs(Len(threads)) /\ TypedCounts

(* More threads, more values. *)
LEMMA MoreThreads ==
    ASSUME NEW k \in Nat, NEW l \in Nat, k <= l
    PROVE  Copy(k) \subseteq Copy(l) /\ Record(k) \subseteq Record(l) /\ Job(k) \subseteq Job(l) /\ Locals(k) \subseteq Locals(l)
<1>1. 0..k \subseteq 0..l
  OBVIOUS
<1>2. Binding(k) \subseteq Binding(l)
  BY <1>1 DEF Binding
<1>3. [Agents -> Binding(k)] \subseteq [Agents -> Binding(l)]
  BY <1>2
<1>4. Copy(k) \subseteq Copy(l)
  BY <1>3 DEF Copy
<1>5. Record(k) \subseteq Record(l)
  BY <1>1 DEF Record
<1>6. Job(k) \subseteq Job(l)
  BY <1>4 DEF Job
<1>7. Locals(k) \subseteq Locals(l)
  BY <1>1 DEF Locals
<1> QED
  BY <1>4, <1>5, <1>6, <1>7

(* The messages an agent's events make. *)
LEMMA BodiesAreMessages ==
    ASSUME TypedCounts, pc["turn"] # "idle", NEW a \in Agents, NEW bodies, bodies = EventsToMessages(events), NEW q,
           q = [i \in 1..Len(bodies) |-> [turn |-> sent, origin |-> a, body |-> bodies[i]]]
    PROVE  q \in Seq(Message)
<1>1. bodies \in Seq(Seq(1..Len(events)))
  BY MessagesOfEvents DEF TypedCounts
<1>2. PICK n \in Nat : n = Len(bodies)
  BY <1>1, LenProperties
<1>3. PICK l \in Nat : l = Len(events) /\ l <= MaxEvents
  BY LenProperties, HistoryAssumption DEF TypedCounts
<1>4. Seq(1..l) \subseteq Seq(1..MaxEvents)
  <2>1. MaxEvents \in Nat /\ 1..l \subseteq 1..MaxEvents
    BY <1>3, HistoryAssumption
  <2> DEFINE S == 1..l
             T == 1..MaxEvents
  <2> HIDE DEF S, T
  <2>2. S \subseteq T
    BY <2>1 DEF S, T
  <2>3. \A x \in Seq(S) : x \in Seq(T)
    BY <2>2
  <2> QED
    BY <2>3 DEF S, T
<1>5. \A i \in 1..n : bodies[i] \in Seq(1..MaxEvents)
  BY <1>1, <1>2, <1>3, <1>4, ElementOfSeq
<1>6. sent \in 1..MaxTurns
  BY HistoryAssumption DEF TypedCounts
<1>7. \A i \in 1..n : [turn |-> sent, origin |-> a, body |-> bodies[i]] \in Message
  BY <1>5, <1>6 DEF Message
<1>8. q \in [1..n -> Message]
  BY <1>2, <1>7
<1> HIDE DEF Message
<1>9. Seq(Message) = UNION {[1..m -> Message] : m \in Nat}
  BY SeqDef, Zenon
<1> QED
  BY <1>8, <1>9, Zenon

LEMMA FreshTyped == ASSUME NEW k \in Nat, NEW a \in Agents \cup {NoAgent} PROVE Fresh(a) \in Copy(k)
BY DEF Fresh, NoBinding, Copy, Binding

LEMMA CopyTyped ==
    ASSUME NEW k \in Nat, NEW m \in Copy(k), m # Missing
    PROVE  /\ \A a \in Agents \cup {NoAgent} : [m EXCEPT !.active = a] \in Copy(k)
           /\ \A t \in Nat : [m EXCEPT !.total = t] \in Copy(k)
           /\ \A a \in Agents, b \in Binding(k) : [m EXCEPT !.bind[a] = b] \in Copy(k)
           /\ m.total \in Nat /\ m.bind \in [Agents -> Binding(k)]
BY DEF Copy

LEMMA LocalsTyped ==
    ASSUME NEW k \in Nat, NEW t \in Locals(k)
    PROVE  /\ t.phase \in {"user", "ingest"} /\ t.origin \in Agents \cup {NoAgent} /\ t.native \in 0..k
           /\ t.queue \in Seq(Message) /\ t.done \in Nat /\ t.seq \in Nat /\ t.through \in Nat
           /\ t.resume \in 0..k /\ t.sup \in SUBSET Message /\ t.bare \in BOOLEAN /\ t.thread \in 0..k
           /\ t.healed \in BOOLEAN
BY DEF Locals

LEMMA NoTurnTyped == ASSUME NEW k \in Nat PROVE NoTurn \in Locals(k)
<1>1. <<>> \in Seq(Message) /\ {} \in SUBSET Message /\ 0 \in 0..k
  BY EmptySeq
<1> QED
  BY <1>1 DEF NoTurn, Locals

LEMMA GotoTyped ==
    ASSUME pc \in [Procs -> Labels], NEW p \in Procs, NEW label \in Labels, Goto(p, label)
    PROVE  pc' \in [Procs -> Labels] /\ pc'[p] = label /\ \A q \in Procs \ {p} : pc'[q] = pc[q]
BY DEF Goto

LEMMA SavesTyped ==
    ASSUME NEW k \in Nat, TypedProcs(k), NEW p \in Procs, NEW m \in Copy(k), NEW ret \in Labels, NEW err \in Labels,
           Saves(p, m, ret, err), turn' = turn
    PROVE  TypedProcs(k)' /\ pc'[p] = "save" /\ \A q \in Procs \ {p} : pc'[q] = pc[q]
<1>1. pc' \in [Procs -> Labels] /\ pc'[p] = "save" /\ \A q \in Procs \ {p} : pc'[q] = pc[q]
  BY DEF Saves, Goto, TypedProcs, Labels
<1>2. [meta |-> m, ret |-> ret, err |-> err] \in Job(k)
  BY DEF Job
<1>3. job' \in [Procs -> Job(k)]
  BY <1>2 DEF Saves, TypedProcs
<1> QED
  BY <1>1, <1>3 DEF TypedProcs

(* The counters that only some steps change. *)
LEMMA CountsSame ==
    ASSUME TypedCounts, UNCHANGED <<sent, emitted, busy, stops, crashes>>, raced' \in BOOLEAN, torn' \in BOOLEAN,
           events' \in {events, <<>>}, pc["turn"] # "idle" \/ pc'["turn"] = "idle"
    PROVE  TypedCounts'
<1>1. CASE events' = events
  BY <1>1 DEF TypedCounts
<1>2. CASE events' = <<>>
  <2>1. <<>> \in Seq(EventKinds) /\ Len(<<>>) = 0
    BY EmptySeq
  <2>2. 0 <= emitted
    BY DEF TypedCounts
  <2> QED
    BY <1>2, <2>1, <2>2 DEF TypedCounts
<1> QED
  BY <1>1, <1>2

LEMMA ReturnsTyped ==
    ASSUME NEW k \in Nat, TypedProcs(k), Returns, job' = job
    PROVE  TypedProcs(k)' /\ pc'["turn"] = "idle" /\ events' = <<>> /\ busy' \in BOOLEAN /\ pc'["patch"] = pc["patch"]
<1>1. pc' \in [Procs -> Labels] /\ pc'["turn"] = "idle" /\ pc'["patch"] = pc["patch"]
  BY DEF Returns, Goto, TypedProcs, Labels, Procs
<1> QED
  BY <1>1, NoTurnTyped DEF Returns, TypedProcs

(* What a supplement is made of. *)
LEMMA SupplementsTyped ==
    ASSUME \A s \in DOMAIN hist : hist[s] \in Message
    PROVE  (\A a, t : Delta(a, t) \in SUBSET Message) /\ Prior \in SUBSET Message
BY DEF Delta, Prior

LEMMA TypedAgain ==
    ASSUME NEW k \in Nat, threads' \in Seq(Thread), k = Len(threads'), TypedFiles(k)', TypedProcs(k)', TypedCounts'
    PROVE  Typed'
BY DEF Typed, TypedFiles, TypedProcs

(* Every step keeps the types. *)
LEMMA TypedStep == ASSUME IInv, Typed, Next PROVE Typed'
<1>k. PICK k \in Nat : k = Len(threads)
  BY LenProperties DEF Typed
<1>t. TypedFiles(k) /\ TypedProcs(k) /\ TypedCounts /\ threads \in Seq(Thread)
  BY <1>k DEF Typed
<1>h. HistOK
  BY DEF IInv, Counted
<1>b. raced' \in BOOLEAN /\ torn' \in BOOLEAN
  <2>1. raced' = (raced \/ Overlapping) /\ torn' = (torn \/ (crashes' # crashes /\ Disagree))
    BY DEF Next
  <2> QED
    BY <2>1, Zenon
<1>p. "turn" \in Procs /\ "patch" \in Procs /\ "turn" # "patch"
  BY DEF Procs
<1>l. turn \in Locals(k) /\ pc \in [Procs -> Labels] /\ job \in [Procs -> Job(k)]
  BY <1>t DEF TypedProcs
<1>m. meta \in Copy(k) /\ tmp \in Copy(k) /\ rec \in Record(k) /\ disk \in Record(k) /\ rec.agent \in Agents /\ rec.native \in 0..k
  BY <1>t DEF TypedFiles, Record
<1>n. turn.origin \in Agents \cup {NoAgent} /\ turn.native \in 0..k /\ turn.through \in Nat
  BY <1>l, LocalsTyped
<1>q. ASSUME UNCHANGED threads, TypedFiles(k)', TypedProcs(k)', TypedCounts' PROVE Typed'
  BY <1>k, <1>q, <1>t, TypedAgain
<1>f. UNCHANGED <<fileVars, recVars>> => TypedFiles(k)'
  BY <1>t DEF TypedFiles, fileVars, recVars
<1>o. OnError \in Labels
  BY DEF OnError, Labels
<1>a. ASSUME NEW label \in Labels, NEW p \in Procs, Goto(p, label), job' = job, turn' \in Locals(k) PROVE TypedProcs(k)'
  BY <1>l, <1>a, GotoTyped DEF TypedProcs
<1>r. ASSUME Returns, UNCHANGED <<fileVars, recVars, job, sent, threads, emitted, crashes>>, stops' \in {stops, stops + 1} PROVE Typed'
  <2>1. TypedProcs(k)' /\ pc'["turn"] = "idle" /\ events' = <<>> /\ busy' \in BOOLEAN
    BY <1>t, <1>r, ReturnsTyped
  <2>2. <<>> \in Seq(EventKinds) /\ Len(<<>>) = 0 /\ stops' \in Nat /\ 0 <= emitted
    BY <1>t, <1>r, EmptySeq DEF TypedCounts
  <2>3. TypedCounts'
    BY <1>t, <1>r, <1>b, <2>1, <2>2 DEF TypedCounts
  <2> QED
    BY <1>f, <1>q, <1>r, <2>1, <2>3
<1>1. CASE SendMessage
  <2>1. sent \in 0..MaxTurns /\ sent + 1 \in 1..MaxTurns /\ MaxTurns \in Nat
    BY <1>1, <1>t, HistoryAssumption DEF SendMessage, TypedCounts
  <2>2. PICK q : q = <<[turn |-> sent + 1, origin |-> rec.agent, body |-> <<>>]>>
    OBVIOUS
  <2>3. [turn |-> sent + 1, origin |-> rec.agent, body |-> <<>>] \in Message
    BY <1>m, <2>1, EmptySeq DEF Message
  <2>4. q \in Seq(Message)
    BY <2>2, <2>3
  <2>5. turn' = [NoTurn EXCEPT !.origin = rec.agent, !.queue = q]
    BY <1>1, <2>2 DEF SendMessage
  <2>6. turn' \in Locals(k)
    BY <1>m, <2>4, <2>5, NoTurnTyped DEF Locals
  <2>7. TypedProcs(k)'
    BY <1>1, <1>a, <1>p, <2>6 DEF SendMessage, Labels
  <2>8. TypedCounts'
    BY <1>1, <1>b, <1>t, <2>1 DEF SendMessage, TypedCounts, runVars
  <2> QED
    BY <1>1, <1>f, <1>q, <2>7, <2>8 DEF SendMessage, runVars
<1>2. CASE InitMetadata \/ AppendBegins \/ AppendTotal \/ UpdateBinding
  <2>1. UNCHANGED <<fileVars, recVars, turn, sent, runVars, stops, crashes>> /\ pc["turn"] # "idle"
    BY <1>2 DEF InitMetadata, AppendBegins, AppendTotal, UpdateBinding
  <2>2. CASE \E label \in Labels : Goto("turn", label) /\ job' = job
    <3>1. TypedProcs(k)'
      BY <1>a, <1>l, <1>p, <2>1, <2>2
    <3> QED
      BY <1>b, <1>f, <1>q, <1>t, <2>1, <3>1, CountsSame DEF runVars
  <2>3. CASE \E m \in Copy(k), ret \in Labels, err \in Labels : Saves("turn", m, ret, err)
    <3>1. TypedProcs(k)'
      BY <1>t, <1>p, <2>1, <2>3, SavesTyped
    <3> QED
      BY <1>b, <1>f, <1>q, <1>t, <2>1, <3>1, CountsSame DEF runVars
  <2>4. CASE InitMetadata
    <3>1. Fresh(turn.origin) \in Copy(k) /\ (meta # Missing => [meta EXCEPT !.active = turn.origin] \in Copy(k))
      BY <1>m, <1>n, FreshTyped, CopyTyped
    <3> QED
      BY <1>o, <2>2, <2>3, <2>4, <3>1 DEF InitMetadata, Labels
  <2>5. CASE AppendBegins
    <3>1. Fresh(NoAgent) \in Copy(k)
      BY FreshTyped
    <3> QED
      BY <1>o, <2>2, <2>3, <2>5, <3>1 DEF AppendBegins, Labels
  <2>6. CASE AppendTotal
    <3>1. meta # Missing => TotalSeq(meta.total) \in Nat
      <4>1. turn.seq \in 1..(Len(hist) + 1) /\ Len(hist) \in Nat
        BY <1>h, HistFacts DEF IInv, Counted, LocalsOK
      <4>2. turn.seq - 1 \in Nat
        BY <4>1
      <4> QED
        BY <1>m, <4>2, CopyTyped DEF TotalSeq
    <3>2. PICK u : u = TotalSeq(meta.total)
      OBVIOUS
    <3>3. PICK cp : cp = [meta EXCEPT !.total = u]
      OBVIOUS
    <3>4. meta # Missing => cp \in Copy(k)
      BY <1>m, <3>1, <3>2, <3>3, CopyTyped
    <3>5. CASE meta = Missing
      BY <1>o, <2>2, <2>6, <3>5 DEF AppendTotal
    <3>6. CASE meta # Missing
      <4>1. PICK ret : ret \in {"wrap", "through"} /\ Saves("turn", cp, ret, OnError)
        BY <2>6, <3>2, <3>3, <3>6 DEF AppendTotal
      <4>2. ret \in Labels
        BY <4>1 DEF Labels
      <4> QED
        BY <1>o, <2>3, <3>4, <3>6, <4>1, <4>2
    <3> QED
      BY <3>5, <3>6
  <2>7. CASE UpdateBinding
    <3>1. meta # Missing /\ turn.origin \in Agents => Bound(turn.origin, turn.native, turn.through) \in Copy(k)
      <4>1. SUFFICES ASSUME meta # Missing, turn.origin \in Agents PROVE Bound(turn.origin, turn.native, turn.through) \in Copy(k)
        OBVIOUS
      <4>2. meta.bind[turn.origin].native \in 0..k
        BY <1>m, <4>1, CopyTyped DEF Binding
      <4>3. PICK b : b = [native |-> IF turn.native # 0 THEN turn.native ELSE meta.bind[turn.origin].native, through |-> turn.through]
        OBVIOUS
      <4>4. b \in Binding(k)
        BY <1>n, <4>2, <4>3 DEF Binding
      <4>5. [meta EXCEPT !.bind[turn.origin] = b] \in Copy(k)
        BY <1>m, <4>1, <4>4, CopyTyped
      <4>6. Bound(turn.origin, turn.native, turn.through) = [meta EXCEPT !.bind[turn.origin] = b]
        BY <4>3 DEF Bound
      <4> QED
        BY <4>5, <4>6
    <3>2. turn.origin \notin Agents => Bound(turn.origin, turn.native, turn.through) = meta \/ meta = Missing
      <4>1. SUFFICES ASSUME turn.origin \notin Agents, meta # Missing PROVE Bound(turn.origin, turn.native, turn.through) = meta
        OBVIOUS
      <4>2. meta \in [total : Nat, active : Agents \cup {NoAgent}, bind : [Agents -> Binding(k)]]
        BY <1>m, <4>1 DEF Copy
      <4>3. PICK f : f = meta.bind
        OBVIOUS
      <4>4. \A v : [f EXCEPT ![turn.origin] = v] = f
        BY <4>1, <4>2, <4>3
      <4>5. \A v : [meta EXCEPT !.bind[turn.origin] = v] = meta
        BY <4>2, <4>3, <4>4
      <4> QED
        BY <4>5 DEF Bound
    <3>3. Fresh(turn.origin) \in Copy(k)
      BY <1>n, FreshTyped
    <3> QED
      BY <1>m, <2>2, <2>3, <2>7, <3>1, <3>2, <3>3 DEF UpdateBinding, Labels
  <2> QED
    BY <1>2, <2>4, <2>5, <2>6, <2>7
<1>c. ASSUME NEW label \in Labels, Goto("turn", label), turn' \in Locals(k), pc["turn"] # "idle", events' \in {events, <<>>},
             UNCHANGED <<fileVars, recVars, job, sent, emitted, busy, threads, stops, crashes>>
      PROVE  Typed'
  <2>1. TypedProcs(k)'
    BY <1>a, <1>c, <1>p
  <2> QED
    BY <1>b, <1>c, <1>f, <1>q, <1>t, <2>1, CountsSame
<1>3. CASE AppendNumbers
  <2>1. NextSeq \in Nat
    BY <1>h, <1>m, LastFound, HistFacts, CopyTyped DEF NextSeq
  <2>2. turn' \in Locals(k)
    BY <1>3, <1>l, <2>1 DEF AppendNumbers, Locals
  <2>3. Goto("turn", "files") /\ pc["turn"] # "idle" /\ events' = events
    BY <1>3 DEF AppendNumbers, runVars
  <2> QED
    BY <1>3, <1>c, <2>2, <2>3 DEF AppendNumbers, runVars, Labels
<1>4. CASE AppendFile
  <2>1. turn' \in Locals(k)
    <3>1. PICK u, v : u = turn.seq + 1 /\ v = turn.done + 1
      OBVIOUS
    <3>2. u \in Nat /\ v \in Nat
      BY <1>l, <3>1, LocalsTyped
    <3>3. turn' = [turn EXCEPT !.seq = u, !.done = v]
      BY <1>4, <3>1 DEF AppendFile
    <3> QED
      BY <1>l, <3>2, <3>3 DEF Locals
  <2>2. turn.queue[turn.done + 1] \in Message
    <3>1. turn.queue \in Seq(Message) /\ turn.done \in Nat /\ turn.done < Len(turn.queue)
      BY <1>4, <1>l, LocalsTyped DEF AppendFile
    <3>2. turn.done + 1 \in 1..Len(turn.queue)
      BY <3>1, LenProperties
    <3> QED
      BY <3>1, <3>2, ElementOfSeq
  <2>3. \A s \in DOMAIN hist' : hist'[s] \in Message
    BY <1>4, <1>t, <2>2 DEF AppendFile, Written, TypedFiles
  <2>4. TypedFiles(k)'
    BY <1>4, <1>t, <2>3 DEF AppendFile, TypedFiles, recVars
  <2>5. TypedProcs(k)' /\ pc["turn"] # "idle"
    BY <1>4, <1>l, <2>1 DEF AppendFile, TypedProcs
  <2>6. TypedCounts'
    BY <1>4, <1>b, <1>t, <2>5, CountsSame DEF AppendFile, runVars
  <2> QED
    BY <1>4, <1>q, <2>4, <2>5, <2>6 DEF AppendFile, runVars
<1>5. CASE WrapPrompt
  <2>1. CASE Returns
    BY <1>5, <1>r, <2>1 DEF WrapPrompt
  <2>2. CASE Goto("turn", "start")
    <3>1. PICK b, sup : /\ b = (IF meta = Missing THEN NoBinding ELSE meta.bind[rec.agent])
                        /\ sup = (IF meta = Missing THEN {} ELSE Delta(rec.agent, b.through))
      OBVIOUS
    <3>2. b \in Binding(k)
      BY <1>m, <3>1, CopyTyped DEF NoBinding, Binding
    <3>3. sup \in SUBSET Message
      BY <1>t, <3>1, SupplementsTyped DEF TypedFiles
    <3>4. CASE Returns
      BY <2>1, <3>4
    <3>5. CASE turn' = [turn EXCEPT !.resume = IF rec.native # 0 THEN rec.native ELSE b.native,
                                    !.sup = sup, !.bare = b.through # 0 \/ meta = Missing]
               /\ UNCHANGED <<events, busy>>
      <4>1. PICK r, w : r = (IF rec.native # 0 THEN rec.native ELSE b.native) /\ w = (b.through # 0 \/ meta = Missing)
        OBVIOUS
      <4>2. r \in 0..k
        BY <1>m, <3>2, <4>1 DEF Binding
      <4>3. w \in BOOLEAN
        BY <4>1, Zenon
      <4>4. turn' = [turn EXCEPT !.resume = r, !.sup = sup, !.bare = w]
        BY <3>5, <4>1, Zenon
      <4>5. turn' \in Locals(k)
        BY <1>l, <3>3, <4>2, <4>3, <4>4 DEF Locals
      <4> QED
        BY <1>5, <1>c, <2>2, <3>5, <4>5 DEF WrapPrompt, Labels
    <3> QED
      BY <1>5, <3>1, <3>4, <3>5 DEF WrapPrompt
  <2> QED
    BY <1>5, <2>1, <2>2 DEF WrapPrompt
<1>6. CASE StartFails \/ TurnStopped \/ LeaveUningested
  BY <1>6, <1>r DEF StartFails, TurnStopped, LeaveUningested
<1>7. CASE TurnEnds
  <2>1. PICK bodies, q : /\ bodies = EventsToMessages(events)
                         /\ q = [i \in 1..Len(bodies) |-> [turn |-> sent, origin |-> rec.agent, body |-> bodies[i]]]
    OBVIOUS
  <2>2. q \in Seq(Message)
    BY <1>7, <1>m, <1>t, <2>1, BodiesAreMessages DEF TurnEnds
  <2>3. PICK x : x = (IF Reported(events) THEN turn.thread ELSE rec.native)
    OBVIOUS
  <2>4. x \in 0..k
    BY <1>l, <1>m, <2>3, LocalsTyped
  <2>5. turn' = [turn EXCEPT !.phase = "ingest", !.origin = rec.agent, !.native = x, !.queue = q]
    BY <1>7, <2>1, <2>3 DEF TurnEnds
  <2>6. turn' \in Locals(k)
    BY <1>l, <1>m, <2>2, <2>4, <2>5 DEF Locals
  <2> QED
    BY <1>7, <1>c, <2>6 DEF TurnEnds, Labels
<1>8. CASE ReadThrough
  <2>1. turn' \in Locals(k)
    <3>1. CASE turn' = turn
      BY <1>l, <3>1
    <3>2. CASE meta # Missing /\ turn' = [turn EXCEPT !.through = meta.total]
      BY <1>l, <1>m, <3>2, CopyTyped DEF Locals
    <3> QED
      BY <1>8, <3>1, <3>2 DEF ReadThrough
  <2>2. \E label \in Labels : Goto("turn", label)
    BY <1>8 DEF ReadThrough, Labels
  <2> QED
    BY <1>8, <1>c, <2>1, <2>2 DEF ReadThrough, runVars
<1>g. \A l \in Nat : k <= l => TypedProcs(l) /\ TypedFiles(l)
  <2>1. \A l \in Nat : k <= l => Copy(k) \subseteq Copy(l) /\ Record(k) \subseteq Record(l) /\ Job(k) \subseteq Job(l) /\ Locals(k) \subseteq Locals(l)
    BY MoreThreads
  <2> QED
    BY <1>t, <2>1 DEF TypedProcs, TypedFiles
<1>w. ASSUME NEW th \in Thread, threads' = Append(threads, th)
      PROVE  threads' \in Seq(Thread) /\ Len(threads') = k + 1 /\ k + 1 \in Nat /\ k <= k + 1
  BY <1>k, <1>t, <1>w, AppendProperties
<1>9. CASE StartAgent
  <2>0. turn.sup \in SUBSET Message /\ turn.bare \in BOOLEAN /\ turn.resume \in 0..k
    BY <1>l, LocalsTyped
  <2>1. TypedCounts'
    <3>1. <<>> \in Seq(EventKinds) /\ Len(<<>>) = 0
      BY EmptySeq
    <3>2. 0 <= emitted /\ sent > 0
      BY <1>9, <1>t DEF StartAgent, TypedCounts
    <3> QED
      BY <1>9, <1>b, <1>t, <3>1, <3>2 DEF StartAgent, TypedCounts
  <2>2. Goto("turn", "running") /\ UNCHANGED <<fileVars, recVars, job>> /\ "running" \in Labels
    BY <1>9 DEF StartAgent, Labels
  <2>3. PICK th : th = IF rec.native # 0 THEN rec.native ELSE turn.resume
    OBVIOUS
  <2>4. th \in 0..k
    BY <1>m, <2>0, <2>3
  <2>5. CASE th # 0
    <3>1. threads' = [threads EXCEPT ![th].shown = @ \cup turn.sup] /\ turn' = [turn EXCEPT !.thread = th]
      BY <1>9, <2>3, <2>5 DEF StartAgent
    <3>2. th \in 1..k /\ threads[th] \in Thread
      BY <1>k, <1>t, <2>4, <2>5, ElementOfSeq
    <3>3. PICK x : x = [threads[th] EXCEPT !.shown = @ \cup turn.sup]
      OBVIOUS
    <3>4. x \in Thread
      BY <2>0, <3>2, <3>3 DEF Thread
    <3>5. threads' = [threads EXCEPT ![th] = x]
      BY <3>1, <3>3
    <3>6. threads' \in Seq(Thread) /\ Len(threads') = k
      BY <1>k, <1>t, <3>2, <3>4, <3>5, ExceptSeq
    <3>7. turn' \in Locals(k)
      BY <1>l, <2>4, <3>1 DEF Locals
    <3>8. TypedProcs(k)'
      BY <1>a, <1>p, <2>2, <3>7
    <3> QED
      BY <1>f, <2>1, <2>2, <3>6, <3>8, TypedAgain
  <2>6. CASE th = 0
    <3>1. PICK x : x = [shown |-> turn.sup, whole |-> ~turn.bare]
      OBVIOUS
    <3>2. threads' = Append(threads, x) /\ turn' = [turn EXCEPT !.thread = k + 1]
      BY <1>9, <1>k, <2>3, <2>6, <3>1 DEF StartAgent
    <3>3. x \in Thread
      BY <2>0, <3>1 DEF Thread
    <3>4. threads' \in Seq(Thread) /\ Len(threads') = k + 1 /\ k + 1 \in Nat /\ k <= k + 1
      BY <1>w, <3>2, <3>3
    <3>5. TypedFiles(k + 1) /\ TypedProcs(k + 1)
      BY <1>g, <3>4
    <3>6. turn \in Locals(k + 1) /\ k + 1 \in 0..(k + 1)
      BY <3>5 DEF TypedProcs
    <3>7. turn' \in Locals(k + 1)
      BY <3>2, <3>6 DEF Locals
    <3>8. pc' \in [Procs -> Labels]
      BY <1>l, <1>p, <2>2, GotoTyped
    <3>9. TypedProcs(k + 1)' /\ TypedFiles(k + 1)'
      BY <2>2, <3>5, <3>7, <3>8 DEF TypedProcs, TypedFiles, fileVars, recVars
    <3> QED
      BY <2>1, <3>4, <3>9, TypedAgain
  <2> QED
    BY <2>5, <2>6
<1>10. ASSUME NEW e \in EventKinds, AgentEmit(e) PROVE Typed'
  <2>1. emitted' \in 0..MaxEvents /\ emitted' = emitted + 1 /\ emitted \in Nat
    BY <1>10, <1>t, HistoryAssumption DEF AgentEmit, TypedCounts
  <2>2. events' \in Seq(EventKinds) /\ Len(events') = Len(events) + 1 /\ Len(events) \in Nat
    BY <1>10, <1>t, AppendProperties, LenProperties DEF AgentEmit, TypedCounts
  <2>3. TypedCounts'
    BY <1>10, <1>b, <1>t, <2>1, <2>2 DEF AgentEmit, TypedCounts
  <2>4. rec' \in Record(k) /\ disk' \in Record(k)
    BY <1>10, <1>l, <1>m, LocalsTyped DEF AgentEmit, Record, recVars
  <2>5. TypedFiles(k)' /\ TypedProcs(k)'
    BY <1>10, <1>t, <2>4 DEF AgentEmit, TypedFiles, TypedProcs, fileVars
  <2> QED
    BY <1>10, <1>q, <2>3, <2>5 DEF AgentEmit
<1>11. CASE SelfHeal
  <2>1. PICK x : threads' = Append(threads, x) /\ x \in {[shown |-> Prior, whole |-> TRUE], [shown |-> {}, whole |-> FALSE]}
    BY <1>11 DEF SelfHeal
  <2>2. x \in Thread
    <3>1. Prior \in SUBSET Message /\ {} \in SUBSET Message
      BY <1>t, SupplementsTyped DEF TypedFiles
    <3> QED
      <4>1. PICK pr : pr = Prior
        OBVIOUS
      <4>2. [shown |-> pr, whole |-> TRUE] \in Thread /\ [shown |-> {}, whole |-> FALSE] \in Thread
        BY <3>1, <4>1 DEF Thread
      <4> QED
        BY <2>1, <4>1, <4>2
  <2>3. threads' \in Seq(Thread) /\ Len(threads') = k + 1 /\ k + 1 \in Nat /\ k <= k + 1
    BY <1>w, <2>1, <2>2
  <2>4. TypedFiles(k + 1) /\ TypedProcs(k + 1) /\ turn \in Locals(k + 1) /\ k + 1 \in 0..(k + 1) /\ 0 \in 0..(k + 1)
    BY <1>g, <2>3 DEF TypedProcs
  <2>5. turn' \in Locals(k + 1)
    BY <1>11, <1>k, <2>4 DEF SelfHeal, Locals
  <2>6. rec' \in Record(k + 1) /\ disk' \in Record(k + 1)
    BY <1>11, <1>m, <2>4 DEF SelfHeal, Record
  <2>7. TypedFiles(k + 1)' /\ TypedProcs(k + 1)'
    BY <1>11, <2>4, <2>5, <2>6 DEF SelfHeal, TypedFiles, TypedProcs, fileVars
  <2>8. TypedCounts'
    BY <1>11, <1>b, <1>t, CountsSame DEF SelfHeal
  <2> QED
    BY <2>3, <2>7, <2>8, TypedAgain
<1>12. CASE UpdateRecord
  <2>1. rec' \in Record(k) /\ disk' \in Record(k)
    <3>1. CASE UNCHANGED recVars
      BY <1>m, <3>1 DEF recVars
    <3>2. CASE meta # Missing /\ rec' = [rec EXCEPT !.native = meta.bind[rec.agent].native] /\ disk' = rec'
      <4>1. meta.bind[rec.agent].native \in 0..k
        BY <1>m, <3>2, CopyTyped DEF Binding
      <4> QED
        BY <1>m, <3>2, <4>1 DEF Record
    <3> QED
      BY <1>12, <3>1, <3>2 DEF UpdateRecord
  <2>2. TypedProcs(k)' /\ pc'["turn"] = "idle" /\ events' = <<>> /\ busy' \in BOOLEAN
    BY <1>12, <1>t, ReturnsTyped DEF UpdateRecord
  <2>3. <<>> \in Seq(EventKinds) /\ Len(<<>>) = 0 /\ 0 <= emitted
    BY <1>t, EmptySeq DEF TypedCounts
  <2>4. TypedCounts'
    BY <1>12, <1>t, <1>b, <2>2, <2>3 DEF UpdateRecord, TypedCounts
  <2>5. TypedFiles(k)'
    BY <1>12, <1>t, <2>1 DEF UpdateRecord, TypedFiles, fileVars
  <2> QED
    BY <1>12, <1>q, <2>2, <2>4, <2>5 DEF UpdateRecord
<1>d. ASSUME UNCHANGED <<sent, runVars, stops, crashes>>, pc'["turn"] = pc["turn"] PROVE TypedCounts'
  BY <1>b, <1>d, <1>t, CountsSame DEF runVars
<1>13. CASE PatchAccepted \/ PatchRefused \/ PatchUpdate
  <2>1. PICK label \in Labels : Goto("patch", label)
    BY <1>13 DEF PatchAccepted, PatchRefused, PatchUpdate, Labels
  <2>2. UNCHANGED <<fileVars, rec, job, turn, sent, runVars, stops, crashes>> /\ disk' \in {disk, rec}
    BY <1>13 DEF PatchAccepted, PatchRefused, PatchUpdate, recVars
  <2>3. TypedProcs(k)' /\ pc'["turn"] = pc["turn"]
    BY <1>a, <1>l, <1>p, <2>1, <2>2, GotoTyped
  <2>4. TypedFiles(k)'
    BY <1>m, <1>t, <2>2 DEF TypedFiles, fileVars
  <2> QED
    BY <1>d, <1>q, <2>2, <2>3, <2>4 DEF runVars
<1>14. CASE PatchSupplement \/ \E a \in Agents : PatchAgent(a)
  <2>1. UNCHANGED <<fileVars, disk, turn, sent, runVars, stops, crashes>> /\ (rec' = rec \/ \E a \in Agents : rec' = [agent |-> a, native |-> 0])
    BY <1>14 DEF PatchSupplement, PatchAgent, recVars
  <2>2. TypedFiles(k)'
    BY <1>m, <1>t, <2>1 DEF TypedFiles, fileVars, Record
  <2>3. CASE \E label \in Labels : Goto("patch", label) /\ job' = job
    <3>1. TypedProcs(k)' /\ pc'["turn"] = pc["turn"]
      BY <1>a, <1>l, <1>p, <2>1, <2>3, GotoTyped
    <3> QED
      BY <1>d, <1>q, <2>1, <2>2, <3>1 DEF runVars
  <2>4. CASE \E cp \in Copy(k), ret \in Labels, err \in Labels : Saves("patch", cp, ret, err)
    <3>1. TypedProcs(k)' /\ pc'["turn"] = pc["turn"]
      BY <1>t, <1>p, <2>1, <2>4, SavesTyped
    <3> QED
      BY <1>d, <1>q, <2>1, <2>2, <3>1 DEF runVars
  <2>5. \A a \in Agents : meta # Missing => [meta EXCEPT !.active = a] \in Copy(k)
    BY <1>m, CopyTyped
  <2> QED
    BY <1>14, <1>m, <2>3, <2>4, <2>5 DEF PatchSupplement, PatchAgent, Labels
<1>15. ASSUME NEW p \in Procs, SaveWrite(p) \/ SaveRemove(p) \/ SaveRename(p) PROVE Typed'
  <2>1. job[p].meta \in Copy(k) /\ job[p].ret \in Labels /\ job[p].err \in Labels /\ Missing \in Copy(k)
    BY <1>l DEF Job, Copy
  <2>2. meta' \in Copy(k) /\ tmp' \in Copy(k) /\ UNCHANGED <<hist, recVars, turn, sent, runVars, stops, crashes>>
    BY <1>15, <1>m, <2>1 DEF SaveWrite, SaveRemove, SaveRename
  <2>3. \E label \in Labels : Goto(p, label)
    BY <1>15, <2>1 DEF SaveWrite, SaveRemove, SaveRename, Labels
  <2>4. NoJob \in Job(k)
    BY <2>1 DEF NoJob, Job, Labels
  <2>5. job' \in [Procs -> Job(k)]
    BY <1>15, <1>l, <2>4 DEF SaveWrite, SaveRemove, SaveRename
  <2>6. TypedProcs(k)'
    BY <1>l, <2>2, <2>3, <2>5, GotoTyped DEF TypedProcs
  <2>7. TypedFiles(k)'
    BY <1>t, <2>2 DEF TypedFiles, recVars
  <2>8. pc[p] # "idle" /\ (p # "turn" => pc'["turn"] = pc["turn"])
    BY <1>15, <1>l, <1>p DEF SaveWrite, SaveRemove, SaveRename, Goto
  <2>9. TypedCounts'
    BY <1>b, <1>t, <2>2, <2>8, CountsSame DEF runVars
  <2> QED
    BY <1>q, <2>2, <2>6, <2>7, <2>9 DEF runVars
<1>16. CASE Crash
  <2>1. UNCHANGED <<fileVars, disk, sent, threads, emitted>> /\ rec' = disk /\ turn' = NoTurn /\ events' = <<>> /\ busy' = FALSE
        /\ stops' = stops /\ crashes' = crashes + 1
    BY <1>16 DEF Crash
  <2>2. pc' \in [Procs -> Labels] /\ pc'["turn"] = "idle" /\ NoJob \in Job(k)
    BY <1>16, <1>p DEF Crash, Labels, NoJob, Job, Copy
  <2>3. TypedProcs(k)'
    BY <1>16, <2>1, <2>2, NoTurnTyped DEF Crash, TypedProcs
  <2>4. <<>> \in Seq(EventKinds) /\ Len(<<>>) = 0 /\ 0 <= emitted
    BY <1>t, EmptySeq DEF TypedCounts
  <2>5. TypedCounts'
    <3>0. stops \in Nat /\ crashes \in Nat /\ sent \in 0..MaxTurns /\ emitted \in 0..MaxEvents
      BY <1>t DEF TypedCounts
    <3>1. stops' \in Nat /\ sent' \in 0..MaxTurns /\ emitted' \in 0..MaxEvents
      BY <1>16, <3>0 DEF Crash
    <3>b. busy' \in BOOLEAN
      BY <2>1, Zenon
    <3>c. crashes' \in Nat
      BY <2>1, <3>0
    <3>2. events' \in Seq(EventKinds) /\ Len(events') <= emitted'
      BY <2>1, <2>4
    <3> QED
      BY <1>b, <2>2, <3>1, <3>b, <3>c, <3>2 DEF TypedCounts
  <2>6. TypedFiles(k)'
    BY <1>t, <2>1 DEF TypedFiles, fileVars
  <2> QED
    BY <1>q, <2>1, <2>3, <2>5, <2>6
<1> QED
  BY <1>1, <1>2, <1>3, <1>4, <1>5, <1>6, <1>7, <1>8, <1>9, <1>10, <1>11, <1>12, <1>13, <1>14, <1>15, <1>16
     DEF Next, Step, Turn, Patch, Save

LEMMA TypedSame == ASSUME Typed, UNCHANGED vars PROVE Typed'
BY DEF Typed, TypedFiles, TypedProcs, TypedCounts, vars, fileVars, recVars, runVars

LEMMA InitTyped == ASSUME Init PROVE Typed
<1>1. <<>> \in Seq(Thread) /\ Len(<<>>) = 0 /\ <<>> \in Seq(EventKinds) /\ DOMAIN <<>> = {} /\ 0..0 = {0}
  BY EmptySeq
<1>2. PICK a \in Agents : rec = [agent |-> a, native |-> 0] /\ disk = [agent |-> a, native |-> 0] /\ meta = Fresh(a)
  BY DEF Init
<1>3. meta \in Copy(0) /\ tmp \in Copy(0) /\ rec \in Record(0) /\ disk \in Record(0)
  BY <1>2, FreshTyped DEF Init, Copy, Record
<1>4. TypedFiles(0)
  BY <1>1, <1>3 DEF Init, TypedFiles
<1>5. NoJob \in Job(0) /\ pc \in [Procs -> Labels]
  BY DEF Init, NoJob, Job, Copy, Labels
<1>6. TypedProcs(0)
  BY <1>5, NoTurnTyped DEF Init, TypedProcs
<1>7. TypedCounts
  <2>1. sent = 0 /\ emitted = 0 /\ events = <<>> /\ busy = FALSE /\ raced = FALSE /\ torn = FALSE /\ stops = 0 /\ crashes = 0
    BY DEF Init
  <2>2. pc["turn"] = "idle" /\ 0 \in 0..MaxTurns /\ 0 \in 0..MaxEvents /\ 0 <= 0
    BY HistoryAssumption DEF Init, Procs
  <2> QED
    BY <1>1, <2>1, <2>2 DEF TypedCounts
<1> QED
  BY <1>1, <1>4, <1>6, <1>7 DEF Init, Typed

LEMMA TypedIsTypeOK == ASSUME IInv, Typed PROVE TypeOK
<1>k. PICK k \in Nat : k = Len(threads)
  BY LenProperties DEF Typed
<1>t. TypedFiles(k) /\ TypedProcs(k) /\ TypedCounts /\ threads \in Seq(Thread)
  BY <1>k DEF Typed
<1>1. DOMAIN hist = 1..Cardinality(DOMAIN hist) /\ \A s \in DOMAIN hist : hist[s] \in Message
  <2>1. PICK n \in Nat : n = Len(hist) /\ DOMAIN hist = 1..n
    BY HistFacts DEF IInv, Counted
  <2>2. Cardinality(1..n) = IF 1 > n THEN 0 ELSE n - 1 + 1
    BY FS_Interval
  <2> QED
    BY <1>t, <2>1, <2>2 DEF TypedFiles
<1>2. Copy(k) \subseteq Metadata \cup {Missing}
  <2>1. 0..k \subseteq Nat
    OBVIOUS
  <2>2. Binding(k) \subseteq [native : Nat, through : Nat]
    BY <2>1 DEF Binding
  <2>3. [Agents -> Binding(k)] \subseteq [Agents -> [native : Nat, through : Nat]]
    BY <2>2
  <2> QED
    BY <2>3 DEF Copy, Metadata
<1>3. meta \in Metadata \cup {Missing} /\ tmp \in Metadata \cup {Missing}
  BY <1>t, <1>2 DEF TypedFiles
<1>4. rec \in [agent : Agents, native : 0..Len(threads)] /\ disk \in [agent : Agents, native : 0..Len(threads)]
  BY <1>k, <1>t DEF TypedFiles, Record
<1>5. \A p \in Procs : job[p].meta \in Metadata \cup {Missing}
  BY <1>t, <1>2 DEF TypedProcs, Job
<1>6. turn.seq \in Nat /\ turn.queue \in Seq(Message) /\ turn.thread \in 0..Len(threads)
  BY <1>k, <1>t, LocalsTyped DEF TypedProcs
<1>7. \A i \in 1..Len(threads) : threads[i].shown \subseteq Message /\ threads[i].whole \in BOOLEAN
  <2>1. \A i \in 1..Len(threads) : threads[i] \in Thread
    BY <1>t, ElementOfSeq
  <2> QED
    BY <2>1 DEF Thread
<1> QED
  BY <1>1, <1>3, <1>4, <1>5, <1>6, <1>7, <1>t DEF TypeOK, TypedProcs, TypedCounts, Labels

-----------------------------------------------------------------------------
(* Context.  What a turn has at each of its steps, while nothing overlaps: *)
(* the metadata, of which TotalSeq counts all n messages from the user's   *)
(* prompt on, and an agent that is the record's.                           *)
Stage ==
    /\ pc["turn"] \notin {"leave", "rebind"}
    /\ pc["turn"] = "idle" => turn = NoTurn
    /\ pc["turn"] \in {"wrap", "start", "running"} => turn.phase = "user"
    /\ pc["turn"] \in {"through", "bind", "record"} => turn.phase = "ingest"
    /\ pc["turn"] \in {"append", "number", "files", "wrap", "start", "running", "through", "bind", "record"} => meta # Missing
    /\ pc["turn"] = "init" /\ turn.phase = "ingest" => meta # Missing
    /\ pc["turn"] \in InSave =>
         \/ turn.phase = "user" /\ job["turn"].ret \in {"append", "wrap"}
         \/ turn.phase = "ingest" /\ job["turn"].ret \in {"append", "through", "record"}

Totals(n) ==
    /\ pc["turn"] \in {"wrap", "start", "running", "through", "bind", "record"} => meta.total = n
    /\ pc["turn"] \in {"init", "append", "number"} /\ turn.phase = "ingest" => meta.total = n
    /\ pc["turn"] = "files" /\ turn.phase = "ingest" => meta.total = n - turn.done
    /\ pc["turn"] \in InSave /\ (turn.phase = "ingest" \/ job["turn"].ret = "wrap") => job["turn"].meta.total = n

Origins(n) ==
    /\ pc["turn"] # "idle" =>
         /\ turn.origin = rec.agent /\ \A i \in DOMAIN turn.queue : turn.queue[i].origin = rec.agent
         /\ turn.phase = "user" => Len(turn.queue) = 1
    /\ pc["turn"] \in {"wrap", "start", "running"} \/ (pc["turn"] \in InSave /\ job["turn"].ret = "wrap") =>
         n > 0 /\ hist[n].origin = rec.agent

Staged(n) == Stage /\ Totals(n) /\ Origins(n)

LEMMA StagedIdle == ASSUME NEW n, pc'["turn"] = "idle", turn' = NoTurn PROVE Staged(n)'
BY DEF Staged, Stage, Totals, Origins, InSave

LEMMA StagedAgain == ASSUME NEW n, n = Len(hist'), Staged(n)' PROVE Staged(Len(hist))'
BY DEF Staged, Totals, Origins

(* A save begins. *)
LEMMA StagedSaves ==
    ASSUME NEW n, Origins(n), UNCHANGED <<hist, rec, turn>>, pc["turn"] # "idle",
           DOMAIN pc = Procs, DOMAIN job = Procs,
           NEW m, NEW ret, NEW err, Saves("turn", m, ret, err),
           \/ turn.phase = "user" /\ ret \in {"append", "wrap"}
           \/ turn.phase = "ingest" /\ ret \in {"append", "through", "record"},
           turn.phase = "ingest" \/ ret = "wrap" => m.total = n,
           ret = "wrap" => n > 0 /\ hist[n].origin = rec.agent
    PROVE  Staged(n)'
<1>1. pc'["turn"] = "save" /\ job'["turn"].meta = m /\ job'["turn"].ret = ret
  BY DEF Saves, Goto, Procs
<1> QED
  BY <1>1 DEF Staged, Stage, Totals, Origins, InSave

(* Every step of a turn has what the next one counts on. *)
LEMMA StagedStep ==
    ASSUME IInv, Inputs, Typed, Sound(Len(hist)), Staged(Len(hist)), Clean, Step, ~Overlapping'
    PROVE  Staged(Len(hist))'
<1>n. PICK n \in Nat : n = Len(hist) /\ DOMAIN hist = 1..n
  BY HistFacts DEF IInv, Counted
<1>k. PICK k \in Nat : k = Len(threads) /\ TypedFiles(k) /\ TypedProcs(k)
  BY LenProperties DEF Typed
<1>c. /\ Counted /\ Copies(n) /\ Sound(n) /\ Staged(n) /\ Stage /\ Totals(n) /\ Origins(n)
      /\ DOMAIN pc = Procs /\ DOMAIN job = Procs /\ ~Overlapping
  BY <1>n DEF IInv, Counted, Copies, Clean, Staged
<1>p. "turn" \in Procs /\ "patch" \in Procs /\ "turn" # "patch" /\ \A p \in Procs : p \in {"turn", "patch"}
  BY DEF Procs
<1>u. pc["patch"] # "idle" => pc["turn"] = "idle"
  BY <1>c, <1>p DEF Overlapping
<1>v. pc'["patch"] # "idle" => pc'["turn"] = "idle"
  BY <1>p DEF Overlapping
<1>l. turn \in Locals(k)
  BY <1>k DEF TypedProcs
<1>w. pc["turn"] = "wrap" => turn.phase = "user"
  BY <1>c DEF Stage
<1>g. \A label : Goto("turn", label) => pc'["turn"] = label
  BY <1>c, <1>p DEF Goto
<1>q. ASSUME Staged(n)', UNCHANGED hist PROVE Staged(Len(hist))'
  BY <1>n, <1>q, StagedAgain
<1>r. ASSUME Returns, UNCHANGED hist PROVE Staged(Len(hist))'
  BY <1>c, <1>g, <1>q, <1>r, StagedIdle DEF Returns
<1>1. CASE SendMessage
  <2>1. PICK cp : cp = [turn |-> sent + 1, origin |-> rec.agent, body |-> <<>>]
    OBVIOUS
  <2>2. turn' = [NoTurn EXCEPT !.origin = rec.agent, !.queue = <<cp>>]
    BY <1>1, <2>1 DEF SendMessage
  <2>3. turn'.phase = "user" /\ turn'.origin = rec.agent /\ turn'.queue = <<cp>> /\ Len(<<cp>>) = 1 /\ cp.origin = rec.agent
        /\ \A i \in DOMAIN <<cp>> : <<cp>>[i] = cp
    BY <2>1, <2>2 DEF NoTurn
  <2>4. pc'["turn"] = "init" /\ UNCHANGED <<hist, rec>>
    BY <1>1, <1>g DEF SendMessage, fileVars, recVars
  <2>5. Staged(n)'
    BY <2>3, <2>4 DEF Staged, Stage, Totals, Origins, InSave
  <2> QED
    BY <1>q, <2>4, <2>5
<1>2. CASE InitMetadata
  <2>1. pc["turn"] = "init" /\ UNCHANGED <<hist, meta, rec, turn>>
    BY <1>2 DEF InitMetadata, fileVars, recVars
  <2>2. CASE meta # Missing /\ meta.active = turn.origin
    <3>1. pc'["turn"] = "append"
      BY <1>2, <1>g, <2>2 DEF InitMetadata
    <3>2. Staged(n)'
      BY <1>c, <2>1, <2>2, <3>1 DEF Staged, Stage, Totals, Origins, InSave
    <3> QED
      BY <1>q, <2>1, <3>2
  <2>3. CASE ~(meta # Missing /\ meta.active = turn.origin)
    <3>1. PICK cp, err : /\ Saves("turn", cp, "append", err)
                         /\ cp = IF meta = Missing THEN Fresh(turn.origin) ELSE [meta EXCEPT !.active = turn.origin]
      BY <1>2, <2>3 DEF InitMetadata
    <3>2. turn.phase = "ingest" => meta # Missing /\ meta.total = n
      BY <1>c, <2>1 DEF Stage, Totals
    <3>3. turn.phase = "ingest" => cp.total = n
      BY <1>c, <3>1, <3>2 DEF Copies, CopyOK
    <3>4. turn.phase \in {"user", "ingest"}
      BY <1>l, LocalsTyped
    <3>5. Staged(n)'
      BY <1>c, <2>1, <3>1, <3>3, <3>4, StagedSaves
    <3> QED
      BY <1>q, <2>1, <3>5
  <2> QED
    BY <2>2, <2>3
<1>3. CASE AppendBegins
  <2>1. pc["turn"] = "append" /\ UNCHANGED <<hist, meta, rec, turn>> /\ meta # Missing
    BY <1>3, <1>c DEF AppendBegins, fileVars, recVars, Stage
  <2>2. pc'["turn"] = "number"
    BY <1>3, <1>g, <2>1 DEF AppendBegins
  <2>3. Staged(n)'
    BY <1>c, <2>1, <2>2 DEF Staged, Stage, Totals, Origins, InSave
  <2> QED
    BY <1>q, <2>1, <2>3
<1>4. CASE AppendNumbers
  <2>1. pc["turn"] = "number" /\ UNCHANGED <<hist, meta, rec>> /\ pc'["turn"] = "files"
    BY <1>4, <1>g DEF AppendNumbers, fileVars, recVars
  <2>2. turn'.phase = turn.phase /\ turn'.queue = turn.queue /\ turn'.origin = turn.origin /\ turn'.done = 0
    BY <1>4, <1>l DEF AppendNumbers, Locals
  <2>3. Staged(n)'
    BY <1>c, <1>n, <2>1, <2>2 DEF Staged, Stage, Totals, Origins, InSave, Copies, CopyOK
  <2> QED
    BY <1>q, <2>1, <2>3
<1>5. CASE AppendFile
  <2>1. pc["turn"] = "files" /\ UNCHANGED <<meta, rec, pc>>
    BY <1>5 DEF AppendFile, recVars
  <2>2. turn'.phase = turn.phase /\ turn'.queue = turn.queue /\ turn'.origin = turn.origin /\ turn'.done = turn.done + 1
        /\ turn.done \in Nat
    BY <1>5, <1>l DEF AppendFile, Locals
  <2>3. Len(hist') = n + 1
    <3>1. turn.seq = n + 1 /\ hist' = Written(turn.seq, turn.queue[turn.done + 1])
      BY <1>5, <1>c, <2>1 DEF AppendFile, Sound, Filing
    <3>2. hist' = Longer(hist, turn.queue[turn.done + 1])
      BY <1>n, <3>1 DEF Written, Longer
    <3> QED
      BY <1>c, <1>n, <3>2, OneLonger DEF Counted, HistOK, Longer
  <2>4. PICK i \in Nat : i = n + 1
    BY <1>n
  <2>5. Staged(i)'
    BY <1>c, <2>1, <2>2, <2>4, <1>n DEF Staged, Stage, Totals, Origins, InSave
  <2> QED
    BY <2>3, <2>4, <2>5, StagedAgain
<1>6. CASE AppendTotal
  <2>1. pc["turn"] = "files" /\ UNCHANGED <<hist, meta, rec, turn>> /\ meta # Missing /\ turn.done >= Len(turn.queue)
    BY <1>6, <1>c DEF AppendTotal, fileVars, recVars, Stage
  <2>2. PICK cp, ret, err : /\ Saves("turn", cp, ret, err) /\ cp = [meta EXCEPT !.total = TotalSeq(@)]
                            /\ ret = IF turn.phase = "user" THEN "wrap" ELSE "through"
    BY <1>6, <2>1 DEF AppendTotal
  <2>3. turn.phase \in {"user", "ingest"}
    BY <1>l, LocalsTyped
  <2>f. Filing(n) /\ IsSequence(turn.queue)
    BY <1>c DEF Sound, Inputs
  <2>d. PICK d, seq, total, q, l : d = turn.done /\ seq = turn.seq /\ total = meta.total /\ q = turn.queue /\ l = Len(q)
    OBVIOUS
  <2>4. /\ d \in 0..l /\ d <= n /\ seq = n + 1 /\ total \in {0, n - d}
        /\ \A j \in 1..d : hist[n - d + j] = q[j]
    BY <2>1, <2>d, <2>f DEF Filing
  <2>e. l \in Nat /\ DOMAIN q = 1..l /\ d \in Nat
    BY <2>d, <2>f, <2>4, SequenceFacts
  <2>5. d = l /\ (turn.phase = "user" => d = 1)
    <3>1. turn.phase = "user" => l = 1
      BY <1>c, <2>1, <2>d DEF Origins
    <3>2. d >= l
      BY <2>1, <2>d
    <3> QED
      BY <2>4, <2>e, <3>1, <3>2
  <2>6. cp.total = IF d > 0 /\ seq - 1 > total THEN seq - 1 ELSE total
    BY <1>c, <2>1, <2>2, <2>d DEF Copies, CopyOK, TotalSeq
  <2>7. cp.total = n
    <3>1. turn.phase = "ingest" => total = n - d
      BY <1>c, <2>1, <2>d DEF Totals
    <3>2. (d = 1 \/ total = n - d) => (IF d > 0 /\ seq - 1 > total THEN seq - 1 ELSE total) = n
      BY <1>n, <2>4, <2>e
    <3> QED
      BY <2>3, <2>5, <2>6, <3>1, <3>2
  <2>8. turn.phase = "user" => n > 0 /\ hist[n].origin = rec.agent
    <3>1. SUFFICES ASSUME turn.phase = "user" PROVE n > 0 /\ hist[n].origin = rec.agent
      OBVIOUS
    <3>2. n > 0 /\ 1 \in 1..d /\ n - d + 1 = n /\ 1 \in DOMAIN q
      BY <1>n, <2>4, <2>e, <2>5, <3>1
    <3>3. hist[n] = q[1]
      BY <2>4, <3>2
    <3>4. q[1].origin = rec.agent
      BY <1>c, <2>1, <2>d, <3>2 DEF Origins
    <3> QED
      BY <3>2, <3>3, <3>4
  <2>9. Staged(n)'
    BY <1>c, <2>1, <2>2, <2>3, <2>7, <2>8, StagedSaves
  <2> QED
    BY <1>q, <2>1, <2>9
<1>7. CASE WrapPrompt
  <2>1. pc["turn"] = "wrap" /\ UNCHANGED <<hist, meta, rec>>
    BY <1>7 DEF WrapPrompt, fileVars, recVars
  <2>2. CASE Returns
    BY <1>r, <2>1, <2>2
  <2>3. CASE ~Returns
    <3>1. /\ pc'["turn"] = "start" /\ turn'.phase = turn.phase /\ turn'.queue = turn.queue
          /\ turn'.origin = turn.origin /\ turn'.done = turn.done
      BY <1>7, <1>g, <1>l, <2>3 DEF WrapPrompt, Locals
    <3>2. Staged(n)'
      BY <1>c, <2>1, <3>1 DEF Staged, Stage, Totals, Origins, InSave
    <3> QED
      BY <1>q, <2>1, <3>2
  <2> QED
    BY <2>2, <2>3
<1>8. CASE StartAgent
  <2>1. pc["turn"] = "start" /\ UNCHANGED <<hist, meta, rec>> /\ pc'["turn"] = "running"
    BY <1>8, <1>g DEF StartAgent, fileVars, recVars
  <2>2. turn'.phase = turn.phase /\ turn'.queue = turn.queue /\ turn'.origin = turn.origin
    BY <1>8, <1>l DEF StartAgent, Locals
  <2>3. Staged(n)'
    BY <1>c, <2>1, <2>2 DEF Staged, Stage, Totals, Origins, InSave
  <2> QED
    BY <1>q, <2>1, <2>3
<1>9. CASE StartFails \/ TurnStopped \/ UpdateRecord \/ LeaveUningested
  BY <1>9, <1>r DEF StartFails, TurnStopped, UpdateRecord, LeaveUningested, fileVars
<1>10. CASE (\E e \in EventKinds : AgentEmit(e)) \/ SelfHeal
  <2>1. pc["turn"] = "running" /\ UNCHANGED <<hist, meta, pc>> /\ rec'.agent = rec.agent
        /\ turn'.phase = turn.phase /\ turn'.queue = turn.queue /\ turn'.origin = turn.origin
    <3>1. rec \in Record(k)
      BY <1>k DEF TypedFiles
    <3>2. CASE SelfHeal
      BY <1>l, <3>1, <3>2 DEF SelfHeal, fileVars, Locals, Record
    <3>3. CASE \E e \in EventKinds : AgentEmit(e)
      BY <3>1, <3>3 DEF AgentEmit, fileVars, recVars, Record
    <3> QED
      BY <1>10, <3>2, <3>3
  <2>2. Staged(n)'
    BY <1>c, <2>1 DEF Staged, Stage, Totals, Origins, InSave
  <2> QED
    BY <1>q, <2>1, <2>2
<1>11. CASE TurnEnds
  <2>1. pc["turn"] = "running" /\ UNCHANGED <<hist, meta, rec>> /\ pc'["turn"] = "init"
    BY <1>11, <1>g DEF TurnEnds, fileVars, recVars
  <2>2. PICK native, q, bodies :
          /\ q = [i \in 1..Len(bodies) |-> [turn |-> sent, origin |-> rec.agent, body |-> bodies[i]]]
          /\ turn' = [turn EXCEPT !.phase = "ingest", !.origin = rec.agent, !.native = native, !.queue = q]
    BY <1>11 DEF TurnEnds
  <2>3. turn'.phase = "ingest" /\ turn'.queue = q /\ turn'.origin = rec.agent
    BY <1>l, <2>2 DEF Locals
  <2>4. \A i \in DOMAIN q : q[i].origin = rec.agent
    BY <2>2
  <2>5. Staged(n)'
    BY <1>c, <2>1, <2>3, <2>4 DEF Staged, Stage, Totals, Origins, InSave
  <2> QED
    BY <1>q, <2>1, <2>5
<1>12. CASE ReadThrough
  <2>1. pc["turn"] = "through" /\ UNCHANGED <<hist, meta, rec>> /\ meta # Missing
    BY <1>12, <1>c DEF ReadThrough, fileVars, recVars, Stage
  <2>2. /\ pc'["turn"] = "bind" /\ turn'.phase = turn.phase /\ turn'.queue = turn.queue /\ turn'.origin = turn.origin
    BY <1>12, <1>g, <1>l, <2>1 DEF ReadThrough, Locals
  <2>3. Staged(n)'
    BY <1>c, <2>1, <2>2 DEF Staged, Stage, Totals, Origins, InSave
  <2> QED
    BY <1>q, <2>1, <2>3
<1>13. CASE UpdateBinding
  <2>1. pc["turn"] = "bind" /\ UNCHANGED <<hist, meta, rec, turn>> /\ meta # Missing
    BY <1>13, <1>c DEF UpdateBinding, fileVars, recVars, Stage
  <2>2. Saves("turn", Bound(turn.origin, turn.native, turn.through), "record", "leave")
    BY <1>13, <2>1 DEF UpdateBinding
  <2>3. Bound(turn.origin, turn.native, turn.through).total = n /\ turn.phase = "ingest"
    BY <1>c, <2>1 DEF Bound, Copies, CopyOK, Totals, Stage
  <2>4. Staged(n)'
    BY <1>c, <2>1, <2>2, <2>3, StagedSaves
  <2> QED
    BY <1>q, <2>1, <2>4
<1>14. CASE Patch
  <2>1. UNCHANGED <<hist, turn>> /\ (pc["patch"] # "idle" \/ pc'["patch"] # "idle") /\ pc'["turn"] = pc["turn"]
    BY <1>14, <1>c, <1>p DEF Patch, PatchAccepted, PatchAgent, PatchSupplement, PatchRefused, PatchUpdate, Saves, Goto, fileVars
  <2>2. pc["turn"] = "idle" /\ pc'["turn"] = "idle"
    BY <1>u, <1>v, <2>1
  <2>3. Staged(n)'
    BY <1>c, <2>1, <2>2, StagedIdle DEF Stage
  <2> QED
    BY <1>q, <2>1, <2>3
<1>15. ASSUME NEW p \in Procs, SaveWrite(p) \/ SaveRemove(p) \/ SaveRename(p) PROVE Staged(Len(hist))'
  <2>1. UNCHANGED <<hist, rec, turn>> /\ pc[p] \in InSave
    BY <1>15 DEF SaveWrite, SaveRemove, SaveRename, recVars, InSave
  <2>2. CASE p = "patch"
    <3>1. pc["turn"] = "idle" /\ pc'["turn"] = "idle"
      BY <1>15, <1>c, <1>p, <1>u, <2>1, <2>2 DEF SaveWrite, SaveRemove, SaveRename, Goto, InSave
    <3> QED
      BY <1>c, <1>q, <2>1, <3>1, StagedIdle DEF Stage
  <2>3. CASE p = "turn" /\ ~SaveRename(p)
    <3>1. pc'["turn"] \in InSave /\ job' = job
      BY <1>15, <1>g, <2>3 DEF SaveWrite, SaveRemove, InSave
    <3>2. Staged(n)'
      BY <1>c, <2>1, <2>3, <3>1 DEF Staged, Stage, Totals, Origins, InSave
    <3> QED
      BY <1>q, <2>1, <3>2
  <2>4. CASE p = "turn" /\ SaveRename(p)
    <3>1. SaveSound(p, n) /\ pc[p] = "rename"
      BY <1>c, <2>4 DEF Sound, SaveRename
    <3>2. tmp = job[p].meta /\ tmp # Missing /\ pc[p] \in InSave
      BY <3>1 DEF SaveSound, InSave
    <3>3. meta' = job[p].meta /\ meta' # Missing /\ pc'["turn"] = job[p].ret
      BY <1>g, <2>4, <3>2 DEF SaveRename
    <3>4. Staged(n)'
      BY <1>c, <2>1, <2>4, <3>2, <3>3 DEF Staged, Stage, Totals, Origins, InSave
    <3> QED
      BY <1>q, <2>1, <3>4
  <2> QED
    BY <1>p, <2>2, <2>3, <2>4
<1>16. CASE Crash
  <2>1. pc'["turn"] = "idle" /\ turn' = NoTurn /\ UNCHANGED hist
    BY <1>16, <1>p DEF Crash, fileVars
  <2> QED
    BY <1>q, <2>1, StagedIdle
<1> QED
  BY <1>1, <1>2, <1>3, <1>4, <1>5, <1>6, <1>7, <1>8, <1>9, <1>10, <1>11, <1>12, <1>13, <1>14, <1>15, <1>16
     DEF Step, Turn, Save

-----------------------------------------------------------------------------
(* The metadata in place and the copies on their way there. *)
Live == {meta} \cup {job[p].meta : p \in {q \in Procs : pc[q] \in InSave}}

(* A copy with the bindings of a former one, or, when there was no         *)
(* metadata, with none.                                                    *)
Keeps(m)   == m = Missing \/ \E c \in Live : c # Missing /\ m.bind = c.bind
Absent     == meta = Missing /\ pc["turn"] \notin InSave \cup {"idle"}
Follows(m) == Keeps(m) \/ (Absent /\ \A a \in Agents : m.bind[a] = NoBinding)

LEMMA LiveTyped == ASSUME Typed, NEW k, k = Len(threads) PROVE Live \subseteq Copy(k)
BY DEF Typed, TypedFiles, TypedProcs, Live, Job

LEMMA FollowsSame == ASSUME NEW m \in Live PROVE Follows(m)
BY DEF Follows, Keeps

LEMMA FreshFollows == Absent => \A a : Follows(Fresh(a))
BY DEF Fresh, Follows

LEMMA LiveGoto ==
    ASSUME meta' \in Live \cup {Missing}, job' = job, NEW p \in Procs, NEW label, Goto(p, label), DOMAIN pc = Procs,
           label \notin InSave \/ pc[p] \in InSave
    PROVE  \A m \in Live' : Follows(m)
<1>1. pc'[p] = label /\ \A q \in Procs \ {p} : pc'[q] = pc[q]
  BY DEF Goto
<1>2. \A q \in Procs : pc'[q] \in InSave => pc[q] \in InSave
  BY <1>1
<1>3. Live' \subseteq Live \cup {Missing}
  BY <1>2 DEF Live
<1> QED
  BY <1>3, FollowsSame DEF Follows, Keeps

LEMMA LiveSaves ==
    ASSUME meta' = meta, NEW p \in Procs, NEW m, NEW ret, NEW err, Saves(p, m, ret, err),
           DOMAIN pc = Procs, DOMAIN job = Procs
    PROVE  \A c \in Live' : Follows(c) \/ c = m
<1>1. /\ pc'[p] = "save" /\ \A q \in Procs \ {p} : pc'[q] = pc[q]
      /\ job'[p].meta = m /\ \A q \in Procs \ {p} : job'[q] = job[q]
  BY DEF Saves, Goto
<1>2. Live' \subseteq Live \cup {m}
  BY <1>1 DEF Live
<1> QED
  BY <1>2, FollowsSame

(* What a step adds to the copies. *)
LEMMA LiveStep ==
    ASSUME Counted, DOMAIN pc = Procs, Sound(Len(hist)), Stage, Step
    PROVE  \A m \in Live' : Follows(m) \/ (UpdateBinding /\ m = Bound(turn.origin, turn.native, turn.through))
<1>p. "turn" \in Procs /\ "patch" \in Procs /\ DOMAIN pc = Procs /\ DOMAIN job = Procs /\ Copies(Len(hist)) /\ meta \in Live
  BY DEF Procs, Counted, Copies, Live
<1>a. ASSUME NEW p \in Procs, NEW label, Goto(p, label), meta' = meta, job' = job, label \notin InSave
      PROVE  \A m \in Live' : Follows(m)
  BY <1>a, <1>p, LiveGoto
<1>s. ASSUME NEW p \in Procs, NEW m, NEW ret, NEW err, Saves(p, m, ret, err), meta' = meta, Follows(m)
      PROVE  \A c \in Live' : Follows(c)
  BY <1>p, <1>s, LiveSaves
<1>o. OnError \notin InSave
  BY DEF OnError, InSave
<1>e. meta # Missing => /\ \A a : Follows([meta EXCEPT !.active = a])
                        /\ \A t : Follows([meta EXCEPT !.total = t])
  <2>1. SUFFICES ASSUME meta # Missing PROVE /\ \A a : Follows([meta EXCEPT !.active = a])
                                             /\ \A t : Follows([meta EXCEPT !.total = t])
    OBVIOUS
  <2>2. /\ \A a : [meta EXCEPT !.active = a].bind = meta.bind
        /\ \A t : [meta EXCEPT !.total = t].bind = meta.bind
    BY <1>p, <2>1 DEF Copies, CopyOK
  <2> QED
    BY <1>p, <2>1, <2>2 DEF Follows, Keeps
<1>1. ASSUME SendMessage \/ AppendNumbers \/ WrapPrompt \/ StartAgent \/ StartFails \/ TurnStopped \/ TurnEnds
             \/ ReadThrough \/ UpdateRecord \/ LeaveUningested \/ PatchAccepted \/ PatchRefused \/ PatchUpdate
      PROVE  \A m \in Live' : Follows(m)
  <2>1. meta' = meta /\ job' = job
    BY <1>1 DEF SendMessage, AppendNumbers, WrapPrompt, StartAgent, StartFails, TurnStopped, TurnEnds, ReadThrough,
                UpdateRecord, LeaveUningested, PatchAccepted, PatchRefused, PatchUpdate, fileVars
  <2>2. \E p \in Procs, label \in Labels : label \notin InSave /\ Goto(p, label)
    BY <1>1, <1>p DEF SendMessage, AppendNumbers, WrapPrompt, StartAgent, StartFails, TurnStopped, TurnEnds, ReadThrough,
                UpdateRecord, LeaveUningested, PatchAccepted, PatchRefused, PatchUpdate, Returns, Labels, InSave
  <2> QED
    BY <1>a, <2>1, <2>2
<1>2. ASSUME InitMetadata PROVE \A m \in Live' : Follows(m)
  <2>1. PICK cp : cp = IF meta = Missing THEN Fresh(turn.origin) ELSE [meta EXCEPT !.active = turn.origin]
    OBVIOUS
  <2>2. Follows(cp)
    BY <1>2, <1>e, <2>1, FreshFollows DEF Absent, InitMetadata, InSave
  <2>3. meta' = meta /\ ((Goto("turn", "append") /\ job' = job) \/ Saves("turn", cp, "append", OnError))
    BY <1>2, <2>1 DEF InitMetadata, fileVars
  <2> QED
    BY <1>a, <1>p, <1>s, <2>2, <2>3 DEF InSave
<1>3. ASSUME AppendBegins PROVE \A m \in Live' : Follows(m)
  <2>1. meta' = meta /\ ((Goto("turn", "number") /\ job' = job)
                         \/ (Absent /\ Saves("turn", Fresh(NoAgent), "number", OnError)))
    BY <1>3 DEF AppendBegins, fileVars, Absent, InSave
  <2> QED
    BY <1>a, <1>p, <1>s, <2>1, FreshFollows DEF InSave
<1>4. ASSUME AppendFile \/ SelfHeal \/ \E e \in EventKinds : AgentEmit(e) PROVE \A m \in Live' : Follows(m)
  <2>1. meta' = meta /\ job' = job /\ pc' = pc
    BY <1>4 DEF AppendFile, SelfHeal, AgentEmit, fileVars
  <2>2. Live' = Live
    BY <2>1 DEF Live
  <2> QED
    BY <2>2, FollowsSame
<1>5. ASSUME AppendTotal PROVE \A m \in Live' : Follows(m)
  <2>1. PICK total : total = TotalSeq(meta.total)
    OBVIOUS
  <2>2. PICK cp : cp = [meta EXCEPT !.total = total]
    OBVIOUS
  <2>3. meta' = meta /\ ((Goto("turn", OnError) /\ job' = job)
                         \/ \E ret : meta # Missing /\ Saves("turn", cp, ret, OnError))
    BY <1>5, <2>1, <2>2 DEF AppendTotal, fileVars
  <2>4. meta # Missing => Follows(cp)
    BY <1>e, <2>2
  <2> QED
    BY <1>a, <1>o, <1>p, <1>s, <2>3, <2>4
<1>6. ASSUME UpdateBinding, NEW m \in Live' PROVE Follows(m) \/ m = Bound(turn.origin, turn.native, turn.through)
  <2>1. meta' = meta /\ ((Goto("turn", "leave") /\ job' = job)
                         \/ (Absent /\ Saves("turn", Fresh(turn.origin), "rebind", "leave"))
                         \/ Saves("turn", Bound(turn.origin, turn.native, turn.through), "record", "leave"))
    BY <1>6 DEF UpdateBinding, fileVars, Absent, InSave
  <2> QED
    BY <1>6, <1>a, <1>p, <1>s, <2>1, FreshFollows, LiveSaves DEF InSave
<1>7. ASSUME PatchSupplement \/ \E a \in Agents : PatchAgent(a) PROVE \A m \in Live' : Follows(m)
  <2>1. CASE PatchSupplement
    <3>1. meta' = meta /\ ((Goto("patch", "idle") /\ job' = job) \/ Saves("patch", meta, "update", "idle"))
      BY <2>1 DEF PatchSupplement, fileVars
    <3> QED
      BY <1>a, <1>p, <1>s, <3>1, FollowsSame DEF InSave
  <2>2. ASSUME NEW a \in Agents, PatchAgent(a) PROVE \A m \in Live' : Follows(m)
    <3>1. PICK cp : cp = [meta EXCEPT !.active = a]
      OBVIOUS
    <3>2. meta' = meta /\ ((Goto("patch", "switched") /\ job' = job)
                           \/ (meta # Missing /\ Saves("patch", cp, "switched", "switched")))
      BY <2>2, <3>1 DEF PatchAgent, fileVars
    <3> QED
      BY <1>a, <1>e, <1>p, <1>s, <3>1, <3>2 DEF InSave
  <2> QED
    BY <1>7, <2>1, <2>2
<1>8. ASSUME NEW p \in Procs, SaveWrite(p) \/ SaveRemove(p) PROVE \A m \in Live' : Follows(m)
  <2>1. meta' \in Live \cup {Missing} /\ job' = job /\ pc[p] \in InSave /\ \E label : Goto(p, label)
    BY <1>8, <1>p DEF SaveWrite, SaveRemove, InSave
  <2> QED
    BY <1>p, <2>1, LiveGoto
<1>9. ASSUME NEW p \in Procs, SaveRename(p) PROVE \A m \in Live' : Follows(m)
  <2>1. pc[p] \in InSave /\ SaveSound(p, Len(hist)) /\ pc[p] # "save"
    BY <1>9 DEF SaveRename, InSave, Sound
  <2>2. tmp = job[p].meta /\ tmp # Missing /\ job[p].ret \notin InSave
    BY <2>1 DEF SaveSound
  <2>3. meta' = job[p].meta /\ pc'[p] \notin InSave /\ \A q \in Procs \ {p} : pc'[q] = pc[q] /\ job'[q] = job[q]
    BY <1>9, <1>p, <2>2 DEF SaveRename, Goto
  <2>4. Live' \subseteq Live
    BY <2>1, <2>3 DEF Live
  <2> QED
    BY <2>4, FollowsSame
<1>10. ASSUME Crash PROVE \A m \in Live' : Follows(m)
  <2>1. meta' = meta /\ \A p \in Procs : pc'[p] \notin InSave
    BY <1>10 DEF Crash, fileVars, InSave
  <2>2. Live' = {meta}
    BY <2>1 DEF Live
  <2> QED
    BY <1>p, <2>2, FollowsSame
<1> QED
  BY <1>1, <1>2, <1>3, <1>4, <1>5, <1>6, <1>7, <1>8, <1>9, <1>10 DEF Step, Turn, Patch, Save

-----------------------------------------------------------------------------
(* What the native threads were told.  A thread that began with all there  *)
(* was (whole) has the messages of the other agents through its binding's  *)
(* number; from the start of a turn on, the threads it may go on with have *)
(* all of them.                                                            *)
InTurn == pc["turn"] = "running" \/ turn.phase = "ingest"

Told(th, a, j) ==
    th # 0 /\ threads[th].whole => \A s \in 1..j : hist[s].origin # a => hist[s] \in threads[th].shown

Informs(n, m) ==
    m # Missing =>
        /\ \A a \in Agents : Told(m.bind[a].native, a, m.bind[a].through)
        /\ rec.native # 0 \/ InTurn => Told(m.bind[rec.agent].native, rec.agent, n)

Starting ==
    LET b == meta.bind[rec.agent]
    IN /\ turn.resume = IF rec.native # 0 THEN rec.native ELSE b.native
       /\ turn.sup = Delta(rec.agent, b.through)
       /\ turn.bare <=> b.through # 0

Informing(n) ==
    /\ \A m \in Live : Informs(n, m)
    /\ Told(rec.native, rec.agent, n)
    /\ pc["turn"] = "running" => turn.thread # 0 /\ Told(turn.thread, rec.agent, n)
    /\ turn.phase = "ingest" => Told(turn.native, rec.agent, n)
    /\ pc["turn"] = "start" => Starting

LEMMA InformingAgain == ASSUME NEW n, n = Len(hist'), Informing(n)' PROVE Informing(Len(hist))'
BY DEF Informing, Informs

LEMMA ToldLess == ASSUME NEW th, NEW a, NEW n \in Nat, NEW j \in 0..n, Told(th, a, n) PROVE Told(th, a, j)
BY DEF Told

(* Threads are shown more, never less. *)
Grown(k) == \A i \in 1..k : threads'[i].whole = threads[i].whole /\ threads[i].shown \subseteq threads'[i].shown

LEMMA ToldGrows ==
    ASSUME NEW k \in Nat, NEW th \in 0..k, NEW a, NEW j, Told(th, a, j), hist' = hist, Grown(k)
    PROVE  Told(th, a, j)'
BY DEF Told, Grown

(* One more message, of the agent itself. *)
LEMMA ToldMore ==
    ASSUME NEW n \in Nat, NEW l \in Nat, l = n + 1, NEW th, NEW a, threads' = threads,
           \A s \in 1..n : hist'[s] = hist[s], hist'[l].origin = a
    PROVE  /\ Told(th, a, n) => Told(th, a, l)'
           /\ \A b, j : j \in 0..n /\ Told(th, b, j) => Told(th, b, j)'
<1>1. ASSUME Told(th, a, n), th # 0, threads[th].whole, NEW s \in 1..l, hist'[s].origin # a PROVE hist'[s] \in threads[th].shown
  <2>1. s \in 1..n
    BY <1>1
  <2> QED
    BY <1>1, <2>1 DEF Told
<1>2. ASSUME NEW b, NEW j \in 0..n, Told(th, b, j), th # 0, threads[th].whole, NEW s \in 1..j, hist'[s].origin # b
      PROVE  hist'[s] \in threads[th].shown
  <2>1. s \in 1..n
    OBVIOUS
  <2> QED
    BY <1>2, <2>1 DEF Told
<1> QED
  BY <1>1, <1>2 DEF Told

LEMMA InformsQuiet ==
    ASSUME NEW n, UNCHANGED <<hist, rec, threads>>, rec.agent \in Agents, \A c \in Live : Informs(n, c),
           NEW m, Follows(m), InTurn' => InTurn
    PROVE  Informs(n, m)'
<1>1. CASE m = Missing
  BY <1>1 DEF Informs
<1>2. ASSUME NEW c \in Live, c # Missing, m.bind = c.bind PROVE Informs(n, m)'
  <2>1. Informs(n, c)
    BY <1>2
  <2> QED
    BY <1>2, <2>1 DEF Informs, Told
<1>3. CASE \A a \in Agents : m.bind[a] = NoBinding
  BY <1>3 DEF Informs, Told, NoBinding
<1> QED
  BY <1>1, <1>2, <1>3 DEF Follows, Keeps

(* Steps at which nothing is told, said or resumed. *)
LEMMA InformingQuiet ==
    ASSUME NEW n, Informing(n), UNCHANGED <<hist, rec, threads>>, rec.agent \in Agents,
           \A m \in Live' : Follows(m),
           pc'["turn"] = "running" => pc["turn"] = "running" /\ turn'.thread = turn.thread,
           turn'.phase = "ingest" => turn.phase = "ingest" /\ turn'.native = turn.native,
           pc'["turn"] = "start" => Starting'
    PROVE  Informing(n)'
<1>1. InTurn' => InTurn
  BY DEF InTurn
<1>2. \A m \in Live' : Informs(n, m)'
  BY <1>1, InformsQuiet DEF Informing
<1> QED
  BY <1>2 DEF Informing, Told

(* A prompt's supplement tells its thread what it has not been told. *)
LEMMA SupplementTells ==
    ASSUME NEW n \in Nat, DOMAIN hist = 1..n, NEW a, NEW j \in 0..n, meta.total = n, NEW s \in 1..n,
           hist[s].origin # a, s > j
    PROVE  hist[s] \in Delta(a, j)
BY DEF Delta

(* The agent starts in a thread that has everything. *)
LEMMA InformingStart ==
    ASSUME NEW n \in Nat, DOMAIN hist = 1..n, Typed, Copies(n), Staged(n), Informing(n), StartAgent, DOMAIN pc = Procs,
           pc["patch"] = "idle"
    PROVE  Informing(n)'
<1>k. PICK k \in Nat : k = Len(threads) /\ threads \in Seq(Thread) /\ TypedFiles(k) /\ TypedProcs(k) /\ DOMAIN threads = 1..k
  BY LenProperties DEF Typed
<1>m. PICK a, b : a = rec.agent /\ b = meta.bind[a]
  OBVIOUS
<1>1. /\ pc["turn"] = "start" /\ UNCHANGED <<hist, meta, rec, job>> /\ meta # Missing /\ meta.total = n
      /\ turn.phase = "user" /\ pc'["turn"] = "running" /\ pc'["patch"] = "idle"
  BY DEF StartAgent, fileVars, recVars, Staged, Stage, Totals, Goto, Procs
<1>2. Live = {meta} /\ Live' = {meta}
  BY <1>1 DEF Live, Procs, InSave
<1>3. a \in Agents /\ rec.native \in 0..k /\ meta \in Copy(k) /\ turn \in Locals(k)
  BY <1>k, <1>m DEF TypedFiles, TypedProcs, Record
<1>4. meta.bind \in [Agents -> Binding(k)]
  BY <1>1, <1>3, CopyTyped
<1>5. b.native \in 0..k /\ b.through \in 0..n /\ \A c \in Agents : meta.bind[c].native \in 0..k
  BY <1>1, <1>3, <1>4, <1>m DEF Copies, CopyOK, Binding
<1>6. /\ \A c \in Agents : Told(meta.bind[c].native, c, meta.bind[c].through)
      /\ Told(b.native, a, b.through) /\ (rec.native # 0 => Told(b.native, a, n)) /\ Told(rec.native, a, n)
  BY <1>1, <1>2, <1>3, <1>m DEF Informing, Informs
<1>7. /\ turn.resume = IF rec.native # 0 THEN rec.native ELSE b.native
      /\ turn.sup = Delta(a, b.through) /\ (turn.bare <=> b.through # 0)
  BY <1>1, <1>m DEF Informing, Starting
<1>th. PICK th : th = turn.resume
  OBVIOUS
<1>8. /\ turn'.phase = "user"
      /\ IF th # 0 THEN threads' = [threads EXCEPT ![th].shown = @ \cup turn.sup] /\ turn'.thread = th
         ELSE threads' = Append(threads, [shown |-> turn.sup, whole |-> ~turn.bare]) /\ turn'.thread = Len(threads) + 1
  <2>1. (IF rec.native # 0 THEN rec.native ELSE turn.resume) = th
    BY <1>7, <1>th
  <2> QED
    BY <1>1, <1>3, <2>1 DEF StartAgent, Locals
<1>9. th \in 0..k
  BY <1>3, <1>5, <1>7, <1>th
<1>10. Grown(k)
  <2>1. CASE th # 0
    <3>1. \A i \in 1..k : threads[i] \in Thread
      BY <1>k
    <3> QED
      BY <1>k, <1>8, <1>9, <2>1, <3>1 DEF Grown, Thread
  <2>2. CASE th = 0
    BY <1>k, <1>8, <2>2 DEF Grown
  <2> QED
    BY <2>1, <2>2
<1>11. Told(turn.thread, a, n)'
  <2>1. CASE th # 0
    <3>1. threads'[th].whole = threads[th].whole /\ threads'[th].shown = threads[th].shown \cup turn.sup
      <4>1. threads[th] \in Thread /\ th \in DOMAIN threads
        BY <1>k, <1>9, <2>1
      <4> QED
        BY <1>8, <2>1, <4>1 DEF Thread
    <3>2. ASSUME threads[th].whole, NEW s \in 1..n, hist[s].origin # a PROVE hist[s] \in threads[th].shown \cup turn.sup
      <4>1. CASE rec.native # 0
        BY <1>6, <1>7, <1>th, <2>1, <3>2, <4>1 DEF Told
      <4>2. CASE rec.native = 0 /\ s \in 1..b.through
        BY <1>6, <1>7, <1>th, <2>1, <3>2, <4>2 DEF Told
      <4>3. CASE s > b.through
        BY <1>1, <1>5, <1>7, <3>2, <4>3, SupplementTells
      <4> QED
        BY <1>5, <4>1, <4>2, <4>3
    <3> QED
      BY <1>1, <1>8, <2>1, <3>1, <3>2 DEF Told
  <2>2. CASE th = 0
    <3>w. PICK w : w = ~turn.bare
      OBVIOUS
    <3>1. threads' = Append(threads, [shown |-> turn.sup, whole |-> w]) /\ turn'.thread = k + 1
      BY <1>k, <1>8, <2>2, <3>w
    <3>2. PICK i : i = k + 1
      OBVIOUS
    <3>v. threads'[i] = [shown |-> turn.sup, whole |-> w] /\ turn'.thread = i
      BY <1>k, <3>1, <3>2
    <3>u. w <=> b.through = 0
      BY <1>7, <3>w
    <3>3. threads'[i].shown = turn.sup /\ (threads'[i].whole <=> b.through = 0) /\ turn'.thread = i
      <4>1. threads'[i].shown = turn.sup /\ threads'[i].whole = w
        BY <3>v
      <4> QED
        BY <3>u, <3>v, <4>1
    <3>4. ASSUME b.through = 0, NEW s \in 1..n, hist[s].origin # a PROVE hist[s] \in turn.sup
      <4>1. s > b.through
        BY <3>4
      <4> QED
        BY <1>1, <1>5, <1>7, <3>4, <4>1, SupplementTells
    <3> QED
      BY <1>1, <3>3, <3>4 DEF Told
  <2> QED
    BY <2>1, <2>2
<1>12. Told(rec.native, a, n)'
  BY <1>1, <1>3, <1>6, <1>10, <1>k, ToldGrows
<1>13. \A c \in Agents : Told(meta.bind[c].native, c, meta.bind[c].through)'
  BY <1>1, <1>5, <1>6, <1>10, <1>k, ToldGrows
<1>14. Told(b.native, a, n)'
  <2>1. CASE rec.native # 0
    BY <1>1, <1>5, <1>6, <1>10, <1>k, <2>1, ToldGrows
  <2>2. CASE rec.native = 0 /\ b.native # 0
    <3>1. turn'.thread = b.native
      BY <1>7, <1>8, <1>th, <2>2
    <3> QED
      BY <1>11, <3>1 DEF Told
  <2>3. CASE b.native = 0
    BY <2>3 DEF Told
  <2> QED
    BY <2>1, <2>2, <2>3
<1>15. Informs(n, meta)'
  BY <1>1, <1>13, <1>14, <1>m DEF Informs
<1> QED
  BY <1>1, <1>2, <1>8, <1>11, <1>12, <1>15, <1>m DEF Informing

(* A fresh thread has everything, but for the turn's own prompt. *)
LEMMA InformingHeal ==
    ASSUME NEW n \in Nat, DOMAIN hist = 1..n, Typed, Staged(n), Informing(n), SelfHeal
    PROVE  Informing(n)'
<1>k. PICK k \in Nat : k = Len(threads) /\ threads \in Seq(Thread) /\ TypedFiles(k) /\ TypedProcs(k) /\ DOMAIN threads = 1..k
  BY LenProperties DEF Typed
<1>m. PICK a : a = rec.agent
  OBVIOUS
<1>1. /\ pc["turn"] = "running" /\ UNCHANGED <<hist, meta, job, pc>> /\ meta # Missing /\ meta.total = n
      /\ turn.phase = "user" /\ hist[n].origin = a /\ n > 0
  BY <1>m DEF SelfHeal, fileVars, Staged, Stage, Totals, Origins
<1>2. Live' = Live
  BY <1>1 DEF Live
<1>3. a \in Agents /\ rec \in Record(k) /\ Live \subseteq Copy(k) /\ turn \in Locals(k)
  BY <1>k, <1>m, LiveTyped DEF TypedFiles, TypedProcs, Record
<1>4. rec'.agent = a /\ rec'.native = 0
  BY <1>3, <1>m DEF SelfHeal, Record
<1>5. turn'.phase = "user" /\ turn'.thread = k + 1
  BY <1>1, <1>3, <1>k DEF SelfHeal, Locals
<1>6. PICK shown, whole : threads' = Append(threads, [shown |-> shown, whole |-> whole]) /\ (shown = Prior \/ whole = FALSE)
  BY DEF SelfHeal
<1>7. Grown(k)
  BY <1>k, <1>6 DEF Grown
<1>8. PICK i : i = k + 1
  OBVIOUS
<1>9. threads'[i] = [shown |-> shown, whole |-> whole]
  BY <1>k, <1>6, <1>8
<1>10. ASSUME NEW s \in 1..n, hist[s].origin # a PROVE hist[s] \in Prior
  BY <1>1, <1>10 DEF Prior
<1>11. Told(turn.thread, a, n)'
  <2>1. threads'[i].shown = shown /\ threads'[i].whole = whole /\ turn'.thread = i
    BY <1>5, <1>8, <1>9
  <2> QED
    BY <1>1, <1>6, <1>10, <2>1 DEF Told
<1>12. Told(rec.native, a, n)'
  BY <1>4 DEF Told
<1>13. ASSUME NEW m \in Live, m # Missing PROVE Informs(n, m)'
  <2>1. \A c \in Agents : m.bind[c].native \in 0..k
    BY <1>3, <1>13, CopyTyped DEF Binding
  <2>2. /\ \A c \in Agents : Told(m.bind[c].native, c, m.bind[c].through)
        /\ Told(m.bind[a].native, a, n)
    BY <1>1, <1>13, <1>m DEF Informing, Informs, InTurn
  <2>3. \A c \in Agents : Told(m.bind[c].native, c, m.bind[c].through)'
    BY <1>1, <1>7, <2>1, <2>2, ToldGrows
  <2>4. Told(m.bind[a].native, a, n)'
    BY <1>1, <1>3, <1>7, <2>1, <2>2, ToldGrows
  <2> QED
    BY <1>4, <2>3, <2>4 DEF Informs
<1>14. \A m \in Live' : Informs(n, m)'
  BY <1>2, <1>13 DEF Informs
<1> QED
  BY <1>1, <1>4, <1>5, <1>11, <1>12, <1>14 DEF Informing

(* What an agent says itself it need not be told. *)
LEMMA InformingFile ==
    ASSUME NEW n \in Nat, n = Len(hist), DOMAIN hist = 1..n, Typed, Counted, Inputs, Sound(n), Staged(n), Informing(n), AppendFile
    PROVE  Informing(Len(hist))'
<1>m. PICK a : a = rec.agent
  OBVIOUS
<1>1. /\ pc["turn"] = "files" /\ UNCHANGED <<meta, rec, pc, job, threads>> /\ turn.done < Len(turn.queue) /\ turn.done \in Nat
      /\ turn.seq = n + 1 /\ Len(turn.queue) \in Nat /\ DOMAIN turn.queue = 1..Len(turn.queue)
  <2>1. Filing(n) /\ IsSequence(turn.queue)
    BY DEF Sound, Inputs
  <2>2. turn.done < Len(turn.queue) /\ pc["turn"] = "files" /\ UNCHANGED <<meta, rec, pc, job, threads>>
    BY DEF AppendFile, recVars, runVars
  <2>3. turn.done \in 0..Len(turn.queue) /\ turn.seq = n + 1
    BY <2>1, <2>2 DEF Filing
  <2> QED
    BY <2>1, <2>2, <2>3, SequenceFacts
<1>2. PICK cp : cp = turn.queue[turn.done + 1]
  OBVIOUS
<1>3. cp.origin = a
  BY <1>1, <1>2, <1>m DEF Staged, Origins
<1>4. Len(hist') = n + 1 /\ (\A i \in 1..n : hist'[i] = hist[i]) /\ hist'[n + 1] = cp
  <2>1. hist' = Longer(hist, cp)
    BY <1>1, <1>2 DEF AppendFile, Written, Longer
  <2> QED
    BY <2>1, OneLonger DEF Counted, HistOK, Longer
<1>5. PICK l \in Nat : l = n + 1
  OBVIOUS
<1>6. turn'.phase = turn.phase /\ turn'.native = turn.native /\ Live' = Live
  <2>1. DOMAIN turn = DOMAIN NoTurn
    BY DEF Counted, LocalsOK
  <2> QED
    BY <1>1, <2>1 DEF AppendFile, NoTurn, Live
<1>7. \A th : Told(th, a, n) => Told(th, a, l)'
  BY <1>1, <1>3, <1>4, <1>5, ToldMore
<1>8. \A th, b, j : j \in 0..n /\ Told(th, b, j) => Told(th, b, j)'
  BY <1>1, <1>3, <1>4, <1>5, ToldMore
<1>9. ASSUME NEW m \in Live, m # Missing PROVE Informs(l, m)'
  <2>1. Informs(n, m) /\ \A c \in Agents : m.bind[c].through \in 0..n
    BY <1>9 DEF Informing, Live, Counted, Copies, CopyOK
  <2>2. \A c \in Agents : Told(m.bind[c].native, c, m.bind[c].through)'
    BY <1>8, <1>9, <2>1 DEF Informs
  <2>3. rec.native # 0 \/ InTurn' => Told(m.bind[a].native, a, l)'
    BY <1>1, <1>6, <1>7, <1>9, <1>m, <2>1 DEF Informs, InTurn
  <2> QED
    BY <1>1, <1>m, <2>2, <2>3 DEF Informs
<1>10. \A m \in Live' : Informs(l, m)'
  BY <1>6, <1>9 DEF Informs
<1>11. Informing(l)'
  BY <1>1, <1>6, <1>7, <1>10, <1>m DEF Informing
<1> QED
  BY <1>4, <1>5, <1>11, InformingAgain

(* Every step keeps the threads informed; a crash does, because the record *)
(* on disk is the one in memory.                                           *)
LEMMA InformingStep ==
    ASSUME IInv, Inputs, Typed, Sound(Len(hist)), Staged(Len(hist)), Informing(Len(hist)), Clean, Step, ~Overlapping',
           ~(crashes' # crashes /\ Disagree)
    PROVE  Informing(Len(hist))'
<1>n. PICK n \in Nat : n = Len(hist) /\ DOMAIN hist = 1..n
  BY HistFacts DEF IInv, Counted
<1>k. PICK k \in Nat : k = Len(threads) /\ TypedFiles(k) /\ TypedProcs(k)
  BY LenProperties DEF Typed
<1>c. /\ Counted /\ Copies(n) /\ Sound(n) /\ Staged(n) /\ Stage /\ Informing(n)
      /\ DOMAIN pc = Procs /\ DOMAIN job = Procs /\ ~Overlapping
  BY <1>n DEF IInv, Counted, Copies, Clean, Staged
<1>p. "turn" \in Procs /\ "patch" \in Procs /\ "turn" # "patch" /\ \A p \in Procs : p \in {"turn", "patch"}
  BY DEF Procs
<1>u. pc["patch"] # "idle" => pc["turn"] = "idle"
  BY <1>c, <1>p DEF Overlapping
<1>v. pc'["patch"] # "idle" => pc'["turn"] = "idle"
  BY <1>p DEF Overlapping
<1>l. turn \in Locals(k) /\ rec \in Record(k) /\ rec.agent \in Agents /\ meta \in Live
  BY <1>k DEF TypedProcs, TypedFiles, Record, Live
<1>g. \A label : Goto("turn", label) => pc'["turn"] = label
  BY <1>c, <1>p DEF Goto
<1>s. \A m, ret, err : Saves("turn", m, ret, err) => pc'["turn"] = "save"
  BY <1>g DEF Saves
<1>q. ASSUME Informing(n)', UNCHANGED hist PROVE Informing(Len(hist))'
  BY <1>n, <1>q, InformingAgain
<1>f. ASSUME ~UpdateBinding PROVE \A m \in Live' : Follows(m)
  BY <1>c, <1>f, LiveStep
<1>h. ASSUME UNCHANGED <<hist, rec, threads>>, ~UpdateBinding,
             pc'["turn"] = "running" => pc["turn"] = "running" /\ turn'.thread = turn.thread,
             turn'.phase = "ingest" => turn.phase = "ingest" /\ turn'.native = turn.native,
             pc'["turn"] = "start" => Starting'
      PROVE  Informing(Len(hist))'
  <2>1. Informing(n)'
    BY <1>c, <1>f, <1>h, <1>l, InformingQuiet
  <2> QED
    BY <1>h, <1>q, <2>1
<1>b. ASSUME pc["turn"] # "bind" PROVE ~UpdateBinding
  BY <1>b, <1>c DEF UpdateBinding, Stage
<1>t. NoTurn.phase = "user"
  BY DEF NoTurn
<1>1. CASE SendMessage
  <2>1. UNCHANGED <<hist, rec, threads>> /\ pc["turn"] = "idle" /\ pc'["turn"] = "init" /\ turn'.phase = "user"
    BY <1>1, <1>g DEF SendMessage, fileVars, recVars, runVars, NoTurn
  <2> QED
    BY <1>b, <1>h, <2>1
<1>2. CASE InitMetadata \/ AppendBegins \/ AppendTotal
  <2>1. UNCHANGED <<hist, rec, threads, turn>> /\ pc["turn"] \in {"init", "append", "files"}
    BY <1>2 DEF InitMetadata, AppendBegins, AppendTotal, fileVars, recVars, runVars
  <2>2. pc'["turn"] \in {"save", "append", "number"}
    BY <1>2, <1>c, <1>g, <1>s DEF InitMetadata, AppendBegins, AppendTotal, Stage
  <2> QED
    BY <1>b, <1>h, <2>1, <2>2
<1>3. CASE AppendNumbers
  <2>1. UNCHANGED <<hist, rec, threads>> /\ pc["turn"] = "number" /\ pc'["turn"] = "files"
    BY <1>3, <1>g DEF AppendNumbers, fileVars, recVars, runVars
  <2>2. turn'.phase = turn.phase /\ turn'.native = turn.native
    BY <1>3, <1>l DEF AppendNumbers, Locals
  <2> QED
    BY <1>b, <1>h, <2>1, <2>2
<1>4. CASE AppendFile
  BY <1>4, <1>c, <1>n, InformingFile
<1>5. CASE WrapPrompt
  <2>1. UNCHANGED <<hist, meta, rec, threads>> /\ pc["turn"] = "wrap" /\ meta # Missing /\ turn.phase = "user"
    BY <1>5, <1>c DEF WrapPrompt, fileVars, recVars, Stage
  <2>2. CASE Returns
    <3>1. pc'["turn"] = "idle" /\ turn'.phase = "user"
      BY <1>g, <1>t, <2>2 DEF Returns
    <3> QED
      BY <1>b, <1>h, <2>1, <3>1
  <2>3. CASE ~Returns
    <3>1. PICK b : b = meta.bind[rec.agent]
      OBVIOUS
    <3>6. PICK bare : bare = (b.through # 0 \/ meta = Missing)
      OBVIOUS
    <3>7. PICK resume, sup : resume = (IF rec.native # 0 THEN rec.native ELSE b.native) /\ sup = Delta(rec.agent, b.through)
      OBVIOUS
    <3>2. turn' = [turn EXCEPT !.resume = resume, !.sup = sup, !.bare = bare] /\ pc'["turn"] = "start"
      BY <1>5, <1>g, <2>1, <2>3, <3>1, <3>6, <3>7 DEF WrapPrompt
    <3>8. bare <=> b.through # 0
      BY <2>1, <3>6
    <3>3. turn'.phase = "user" /\ turn'.resume = resume /\ turn'.sup = sup /\ turn'.bare = bare
      BY <1>l, <2>1, <3>2 DEF Locals
    <3>4. \A a, t : Delta(a, t)' = Delta(a, t)
      BY <2>1 DEF Delta
    <3>5. Starting'
      BY <2>1, <3>1, <3>3, <3>4, <3>7, <3>8 DEF Starting
    <3> QED
      BY <1>b, <1>h, <2>1, <3>2, <3>3, <3>5
  <2> QED
    BY <2>2, <2>3
<1>6. CASE StartAgent
  <2>1. pc["patch"] = "idle" /\ UNCHANGED hist
    BY <1>6, <1>u DEF StartAgent, fileVars
  <2>2. Typed
    OBVIOUS
  <2>3. Informing(n)'
    BY <1>6, <1>c, <1>n, <2>1, <2>2, InformingStart
  <2> QED
    BY <1>q, <2>1, <2>3
<1>7. CASE StartFails \/ TurnStopped \/ LeaveUningested
  <2>1. UNCHANGED <<hist, rec, threads>> /\ pc["turn"] \in {"start", "running", "leave"} /\ Returns
    BY <1>7 DEF StartFails, TurnStopped, LeaveUningested, fileVars, recVars
  <2>2. pc'["turn"] = "idle" /\ turn'.phase = "user"
    BY <1>g, <1>t, <2>1 DEF Returns
  <2> QED
    BY <1>b, <1>h, <2>1, <2>2
<1>8. ASSUME NEW e \in EventKinds, AgentEmit(e) PROVE Informing(Len(hist))'
  <2>1. pc["turn"] = "running" /\ UNCHANGED <<hist, meta, pc, job, turn, threads>> /\ turn.phase = "user"
    BY <1>8, <1>c DEF AgentEmit, fileVars, Stage
  <2>2. rec'.agent = rec.agent /\ rec'.native \in {rec.native, turn.thread}
    BY <1>8, <1>l DEF AgentEmit, Record, recVars
  <2>3. Live' = Live
    BY <2>1 DEF Live
  <2>4. \A m \in Live : Informs(n, m)'
    BY <1>c, <2>1, <2>2 DEF Informing, Informs, InTurn, Told
  <2>5. Informing(n)'
    BY <1>c, <2>1, <2>2, <2>3, <2>4 DEF Informing, Told
  <2> QED
    BY <1>q, <2>1, <2>5
<1>9. CASE SelfHeal
  <2>1. Informing(n)' /\ UNCHANGED hist
    BY <1>9, <1>c, <1>n, InformingHeal DEF SelfHeal, fileVars
  <2> QED
    BY <1>q, <2>1
<1>10. CASE TurnEnds
  <2>1. pc["turn"] = "running" /\ UNCHANGED <<hist, rec, threads>> /\ pc'["turn"] = "init"
    BY <1>10, <1>g DEF TurnEnds, fileVars, recVars
  <2>2. turn'.phase = "ingest" /\ turn'.native \in {turn.thread, rec.native}
    BY <1>10, <1>l DEF TurnEnds, Locals
  <2>3. InTurn /\ InTurn'
    BY <2>1, <2>2 DEF InTurn
  <2>4. \A m \in Live' : Informs(n, m)'
    BY <1>b, <1>c, <1>f, <1>l, <2>1, <2>3, InformsQuiet DEF Informing
  <2>5. Informing(n)'
    BY <1>c, <2>1, <2>2, <2>4 DEF Informing, Told
  <2> QED
    BY <1>q, <2>1, <2>5
<1>11. CASE ReadThrough
  <2>1. pc["turn"] = "through" /\ UNCHANGED <<hist, rec, threads>> /\ pc'["turn"] \in {"leave", "bind"}
    BY <1>11, <1>g DEF ReadThrough, fileVars, recVars, runVars
  <2>2. turn'.phase = turn.phase /\ turn'.native = turn.native
    BY <1>11, <1>l DEF ReadThrough, Locals
  <2> QED
    BY <1>b, <1>h, <2>1, <2>2
<1>12. CASE UpdateBinding
  <2>1. pc["turn"] = "bind" /\ UNCHANGED <<hist, meta, rec, threads, turn>> /\ meta # Missing /\ turn.phase = "ingest"
    BY <1>12, <1>c DEF UpdateBinding, fileVars, recVars, runVars, Stage
  <2>2. pc'["turn"] = "save"
    BY <1>12, <1>s, <2>1 DEF UpdateBinding
  <2>3. InTurn /\ InTurn'
    BY <2>1 DEF InTurn
  <2>4. PICK a, cp : a = rec.agent /\ cp = Bound(turn.origin, turn.native, turn.through)
    OBVIOUS
  <2>5. turn.origin = a /\ turn.through \in 0..n
    BY <1>c, <1>n, <2>1, <2>4 DEF Staged, Origins, Counted, LocalsOK
  <2>6. /\ cp.bind[a].native \in {turn.native, meta.bind[a].native} /\ cp.bind[a].through = turn.through
        /\ \A c \in Agents \ {a} : cp.bind[c] = meta.bind[c]
    BY <1>c, <1>l, <2>1, <2>4, <2>5 DEF Bound, Copies, CopyOK
  <2>7. Told(turn.native, a, n) /\ Told(meta.bind[a].native, a, n) /\ \A c \in Agents : Told(meta.bind[c].native, c, meta.bind[c].through)
    BY <1>c, <1>l, <2>1, <2>3, <2>4 DEF Informing, Informs
  <2>8. Told(cp.bind[a].native, a, n) /\ Told(cp.bind[a].native, a, turn.through)
    BY <1>n, <2>5, <2>6, <2>7, ToldLess
  <2>9. Informs(n, cp)'
    <3>1. \A c \in Agents : Told(cp.bind[c].native, c, cp.bind[c].through)
      <4>1. Told(cp.bind[a].native, a, cp.bind[a].through)
        BY <2>6, <2>8
      <4>2. ASSUME NEW c \in Agents \ {a} PROVE Told(cp.bind[c].native, c, cp.bind[c].through)
        BY <2>6, <2>7, <4>2
      <4> QED
        BY <4>1, <4>2
    <3>2. \A th, c, j : Told(th, c, j)' <=> Told(th, c, j)
      BY <2>1 DEF Told
    <3>3. \A c \in Agents : Told(cp.bind[c].native, c, cp.bind[c].through)'
      BY <3>1, <3>2
    <3>4. Told(cp.bind[a].native, a, n)'
      BY <2>8, <3>2
    <3> QED
      BY <2>1, <2>4, <3>3, <3>4 DEF Informs
  <2>10. \A m \in Live' : Informs(n, m)'
    BY <1>c, <1>l, <2>1, <2>3, <2>4, <2>9, InformsQuiet, LiveStep DEF Informing
  <2>11. Informing(n)'
    BY <1>c, <2>1, <2>2, <2>10 DEF Informing, Told
  <2> QED
    BY <1>q, <2>1, <2>11
<1>13. CASE UpdateRecord
  <2>1. pc["turn"] = "record" /\ UNCHANGED <<hist, meta, threads>> /\ meta # Missing /\ turn.phase = "ingest" /\ Returns
    BY <1>13, <1>c DEF UpdateRecord, fileVars, recVars, runVars, Stage
  <2>2. pc'["turn"] = "idle" /\ turn'.phase = "user" /\ ~InTurn' /\ InTurn
    BY <1>g, <1>t, <2>1 DEF Returns, InTurn
  <2>3. PICK a : a = rec.agent /\ rec'.agent = a /\ rec'.native \in {rec.native, meta.bind[a].native}
    BY <1>13, <1>l DEF UpdateRecord, recVars, Record
  <2>4. Told(meta.bind[a].native, a, n) /\ Told(rec'.native, a, n)
    BY <1>c, <1>l, <2>1, <2>2, <2>3 DEF Informing, Informs
  <2>5. ASSUME NEW m, m # Missing, Follows(m) PROVE Informs(n, m)'
    <3>1. CASE \A c \in Agents : m.bind[c] = NoBinding
      BY <1>l, <2>3, <3>1 DEF Informs, Told, NoBinding
    <3>2. ASSUME NEW c \in Live, c # Missing, m.bind = c.bind PROVE Informs(n, m)'
      <4>1. /\ Told(c.bind[a].native, a, n)
            /\ \A b \in Agents : Told(c.bind[b].native, b, c.bind[b].through)
        BY <1>c, <2>2, <2>3, <3>2 DEF Informing, Informs
      <4> QED
        BY <2>1, <2>3, <3>2, <4>1 DEF Informs, Told
    <3> QED
      BY <2>5, <3>1, <3>2 DEF Follows, Keeps
  <2>6. \A m \in Live' : Informs(n, m)'
    BY <1>b, <1>f, <2>1, <2>5 DEF Informs
  <2>7. Informing(n)'
    BY <1>c, <2>1, <2>2, <2>3, <2>4, <2>6 DEF Informing, Told
  <2> QED
    BY <1>q, <2>1, <2>7
<1>14. CASE PatchAccepted \/ PatchSupplement \/ PatchRefused \/ PatchUpdate
  <2>1. /\ UNCHANGED <<hist, rec, threads, turn>> /\ pc'["turn"] = pc["turn"]
        /\ (pc["patch"] # "idle" \/ pc'["patch"] # "idle")
    BY <1>14, <1>c, <1>p DEF PatchAccepted, PatchSupplement, PatchRefused, PatchUpdate, Saves, Goto, fileVars, recVars, runVars
  <2>2. pc["turn"] = "idle" /\ pc'["turn"] = "idle"
    BY <1>u, <1>v, <2>1
  <2> QED
    BY <1>b, <1>h, <2>1, <2>2
<1>15. ASSUME NEW a \in Agents, PatchAgent(a) PROVE Informing(Len(hist))'
  <2>1. UNCHANGED <<hist, threads, turn, meta>> /\ pc'["turn"] = pc["turn"] /\ pc["patch"] # "idle" /\ rec' = [agent |-> a, native |-> 0]
    BY <1>15, <1>c, <1>p DEF PatchAgent, Saves, Goto, fileVars, recVars, runVars
  <2>2. pc["turn"] = "idle" /\ pc'["turn"] = "idle" /\ turn = NoTurn /\ ~InTurn'
    BY <1>c, <1>t, <1>u, <2>1 DEF Stage, InTurn
  <2>3. ASSUME NEW m, m # Missing, Follows(m) PROVE Informs(n, m)'
    <3>1. CASE \A c \in Agents : m.bind[c] = NoBinding
      BY <2>1, <2>2, <3>1 DEF Informs, Told, NoBinding
    <3>2. ASSUME NEW c \in Live, c # Missing, m.bind = c.bind PROVE Informs(n, m)'
      BY <1>c, <2>1, <2>2, <3>2 DEF Informing, Informs, Told
    <3> QED
      BY <2>3, <3>1, <3>2 DEF Follows, Keeps
  <2>4. \A m \in Live' : Informs(n, m)'
    BY <1>b, <1>f, <2>2, <2>3 DEF Informs
  <2>5. Informing(n)'
    BY <1>t, <2>1, <2>2, <2>4 DEF Informing, Told
  <2> QED
    BY <1>q, <2>1, <2>5
<1>16. ASSUME NEW p \in Procs, SaveWrite(p) \/ SaveRemove(p) \/ SaveRename(p) PROVE Informing(Len(hist))'
  <2>1. UNCHANGED <<hist, rec, threads, turn>> /\ pc[p] \in InSave
    BY <1>16 DEF SaveWrite, SaveRemove, SaveRename, recVars, runVars, InSave
  <2>2. pc'["turn"] \notin {"running", "start"} /\ pc["turn"] # "bind"
    <3>1. CASE p = "patch"
      BY <1>16, <1>c, <1>p, <1>u, <2>1, <3>1 DEF SaveWrite, SaveRemove, SaveRename, Goto, InSave
    <3>2. CASE p = "turn" /\ ~SaveRename(p)
      BY <1>16, <1>g, <2>1, <3>2 DEF SaveWrite, SaveRemove, InSave
    <3>3. CASE p = "turn" /\ SaveRename(p)
      <4>1. SaveSound(p, n)
        BY <1>c DEF Sound
      <4>2. tmp # Missing
        BY <2>1, <3>3, <4>1 DEF SaveSound, SaveRename
      <4> QED
        BY <1>c, <1>g, <2>1, <3>3, <4>2 DEF SaveRename, Stage, InSave
    <3> QED
      BY <1>p, <3>1, <3>2, <3>3
  <2> QED
    BY <1>b, <1>h, <2>1, <2>2
<1>17. CASE Crash
  <2>1. /\ UNCHANGED <<hist, threads>> /\ pc'["turn"] = "idle" /\ turn' = NoTurn /\ rec' = disk /\ crashes' = crashes + 1
        /\ UNCHANGED <<meta, tmp>>
    BY <1>17, <1>p DEF Crash, fileVars
  <2>2. disk = rec
    BY <2>1 DEF Disagree, Inputs
  <2>3. \A m \in Live' : Follows(m)
    <3>1. \A p \in Procs : pc'[p] = "idle"
      BY <1>17 DEF Crash
    <3>2. Live' = {meta}
      BY <2>1, <3>1 DEF Live, InSave
    <3> QED
      BY <1>l, <3>2, FollowsSame
  <2>4. Informing(n)'
    BY <1>c, <1>l, <1>t, <2>1, <2>2, <2>3, InformingQuiet
  <2> QED
    BY <1>q, <2>1, <2>4
<1> QED
  BY <1>1, <1>2, <1>3, <1>4, <1>5, <1>6, <1>7, <1>8, <1>9, <1>10, <1>11, <1>12, <1>13, <1>14, <1>15, <1>16, <1>17
     DEF Step, Turn, Patch, Save

-----------------------------------------------------------------------------
(* No two messages of the history are the same: a prompt is the first of   *)
(* its turn, and the agent's messages, which have events, come after it.   *)
Unsaid ==
    /\ turn.phase = "user"
    /\ \/ pc["turn"] \in {"init", "append", "number"}
       \/ pc["turn"] = "files" /\ turn.done = 0
       \/ pc["turn"] \in InSave /\ job["turn"].ret = "append"

Unwritten ==
    /\ pc["turn"] # "idle"
    /\ \/ turn.phase = "user"
       \/ pc["turn"] \in {"init", "append", "number", "files"}
       \/ pc["turn"] \in InSave /\ job["turn"].ret = "append"

Before(n) == IF pc["turn"] = "files" /\ turn.phase = "ingest" THEN n - turn.done ELSE n

Queue ==
    /\ pc["turn"] # "idle" => \A i \in DOMAIN turn.queue :
         /\ turn.queue[i].turn = sent
         /\ turn.queue[i].body = <<>> <=> turn.phase = "user"
    /\ turn.phase = "ingest" => \A i, j \in DOMAIN turn.queue : turn.queue[i] = turn.queue[j] => i = j

Differing(n) ==
    /\ \A s, t \in 1..n : hist[s] = hist[t] => s = t
    /\ \A s \in 1..n : hist[s].turn \in 0..sent
    /\ Queue
    /\ Unsaid => \A s \in 1..n : hist[s].turn < sent
    /\ Unwritten => \A s \in 1..Before(n) : hist[s].turn < sent \/ hist[s].body = <<>>

LEMMA DifferingAgain == ASSUME NEW n, n = Len(hist'), Differing(n)' PROVE Differing(Len(hist))'
BY DEF Differing, Before

LEMMA DifferingIdle ==
    ASSUME NEW n, Differing(n), UNCHANGED <<hist, sent>>, pc'["turn"] = "idle", turn' = NoTurn PROVE Differing(n)'
BY DEF Differing, Queue, Unsaid, Unwritten, InSave, NoTurn

LEMMA DifferingQuiet ==
    ASSUME NEW n, Differing(n), UNCHANGED <<hist, sent>>, turn'.queue = turn.queue, turn'.phase = turn.phase,
           pc["turn"] # "idle", Unsaid' => Unsaid, Unwritten' => Unwritten /\ Before(n)' = Before(n)
    PROVE  Differing(n)'
<1>1. Queue'
  BY DEF Differing, Queue
<1> QED
  BY <1>1 DEF Differing

(* A new turn's prompt. *)
LEMMA DifferingSend ==
    ASSUME NEW n \in Nat, Differing(n), sent \in Nat, SendMessage, DOMAIN pc = Procs
    PROVE  Differing(n)'
<1>1. UNCHANGED hist /\ sent' = sent + 1 /\ pc'["turn"] = "init"
  BY DEF SendMessage, fileVars, Goto, Procs
<1>2. PICK cp : cp = [turn |-> sent + 1, origin |-> rec.agent, body |-> <<>>]
  OBVIOUS
<1>3. turn' = [NoTurn EXCEPT !.origin = rec.agent, !.queue = <<cp>>]
  BY <1>2 DEF SendMessage
<1>4. turn'.phase = "user" /\ turn'.queue = <<cp>> /\ cp.turn = sent' /\ cp.body = <<>>
      /\ \A i \in DOMAIN <<cp>> : <<cp>>[i] = cp
  BY <1>1, <1>2, <1>3 DEF NoTurn
<1>5. Queue'
  BY <1>4 DEF Queue
<1>6. \A s \in 1..n : hist[s].turn \in 0..sent' /\ hist[s].turn < sent'
  BY <1>1 DEF Differing
<1>7. Before(n)' = n
  BY <1>1 DEF Before
<1> QED
  BY <1>1, <1>5, <1>6, <1>7 DEF Differing

(* The messages of a turn's events. *)
LEMMA DifferingEnds ==
    ASSUME NEW n \in Nat, Differing(n), Stage, Inputs, DOMAIN pc = Procs, DOMAIN turn = DOMAIN NoTurn, TurnEnds
    PROVE  Differing(n)'
<1>1. UNCHANGED <<hist, sent>> /\ pc["turn"] = "running" /\ pc'["turn"] = "init" /\ turn.phase = "user"
  BY DEF TurnEnds, fileVars, Goto, Procs, Stage
<1>2. PICK ms : ms = EventsToMessages(events)
  OBVIOUS
<1>3. PICK native, q :
          /\ q = [i \in 1..Len(ms) |-> [turn |-> sent, origin |-> rec.agent, body |-> ms[i]]]
          /\ turn' = [turn EXCEPT !.phase = "ingest", !.origin = rec.agent, !.native = native, !.queue = q]
  BY <1>2 DEF TurnEnds
<1>4. turn'.phase = "ingest" /\ turn'.queue = q
  BY <1>3 DEF NoTurn
<1>5. /\ \A i \in 1..Len(ms) : ms[i] # <<>>
      /\ \A i, j \in 1..Len(ms) : ms[i] = ms[j] => i = j
  BY <1>2, MessagesOfEvents DEF Inputs
<1>6. /\ DOMAIN q = 1..Len(ms) /\ \A i \in DOMAIN q : q[i].turn = sent /\ q[i].body = ms[i]
  BY <1>3
<1>7. Queue'
  BY <1>1, <1>4, <1>5, <1>6 DEF Queue
<1>8. Unwritten /\ Before(n) = n /\ Before(n)' = n /\ ~Unsaid'
  BY <1>1, <1>4 DEF Unwritten, Before, Unsaid
<1> QED
  BY <1>1, <1>7, <1>8 DEF Differing

(* The message that is written is not in the history yet. *)
LEMMA DifferingFile ==
    ASSUME NEW n \in Nat, n = Len(hist), DOMAIN hist = 1..n, Counted, Inputs, sent \in Nat, Sound(n), Staged(n),
           Differing(n), AppendFile, turn.phase \in {"user", "ingest"}
    PROVE  Differing(Len(hist))'
<1>d. PICK d, q : d = turn.done /\ q = turn.queue
  OBVIOUS
<1>1. /\ pc["turn"] = "files" /\ UNCHANGED <<pc, sent>> /\ d < Len(q) /\ d \in Nat /\ d <= n
      /\ turn.seq = n + 1 /\ Len(q) \in Nat /\ DOMAIN q = 1..Len(q) /\ \A j \in 1..d : hist[n - d + j] = q[j]
  <2>1. Filing(n) /\ IsSequence(q)
    BY <1>d DEF Sound, Inputs
  <2>2. d < Len(q) /\ pc["turn"] = "files" /\ UNCHANGED <<pc, sent>>
    BY <1>d DEF AppendFile
  <2>3. d \in 0..Len(q) /\ d <= n /\ turn.seq = n + 1 /\ \A j \in 1..d : hist[n - d + j] = q[j]
    BY <1>d, <2>1, <2>2 DEF Filing
  <2> QED
    BY <2>1, <2>2, <2>3, SequenceFacts
<1>2. PICK i, cp, l : i = d + 1 /\ cp = q[i] /\ l = n + 1 /\ l \in Nat
  OBVIOUS
<1>i. i \in DOMAIN q /\ i \in Nat /\ i > d
  BY <1>1, <1>2
<1>3. Len(hist') = l /\ (\A s \in 1..n : hist'[s] = hist[s]) /\ hist'[l] = cp
  <2>1. hist' = Longer(hist, cp)
    BY <1>1, <1>2, <1>d DEF AppendFile, Written, Longer
  <2> QED
    BY <1>2, <2>1, OneLonger DEF Counted, HistOK, Longer
<1>4. turn'.phase = turn.phase /\ turn'.queue = q /\ turn'.done = i
  <2>1. DOMAIN turn = DOMAIN NoTurn
    BY DEF Counted, LocalsOK
  <2> QED
    BY <1>2, <1>d, <2>1 DEF AppendFile, NoTurn
<1>5. Queue' /\ cp.turn = sent /\ (cp.body = <<>> <=> turn.phase = "user")
  BY <1>1, <1>2, <1>4, <1>d, <1>i DEF Differing, Queue
<1>6. Unwritten
  BY <1>1 DEF Unwritten
<1>7. ASSUME NEW s \in 1..n PROVE hist[s] # cp
  <2>1. CASE turn.phase = "user"
    <3>1. d = 0
      <4>1. Len(turn.queue) = 1
        BY <1>1, <2>1 DEF Staged, Origins
      <4> QED
        BY <1>1, <1>d, <4>1
    <3>2. Unsaid
      BY <1>1, <1>d, <2>1, <3>1 DEF Unsaid
    <3> QED
      BY <1>5, <3>2 DEF Differing
  <2>2. CASE turn.phase = "ingest" /\ s <= n - d
    <3>1. s \in 1..Before(n)
      BY <1>1, <1>d, <2>2 DEF Before
    <3>2. hist[s].turn < sent \/ hist[s].body = <<>>
      BY <1>6, <3>1 DEF Differing
    <3> QED
      BY <1>5, <2>2, <3>2
  <2>3. CASE turn.phase = "ingest" /\ s > n - d
    <3>1. PICK j : j = s - (n - d)
      OBVIOUS
    <3>2. j \in 1..d /\ n - d + j = s /\ j # i /\ j \in DOMAIN q
      BY <1>1, <1>2, <2>3, <3>1
    <3>3. hist[s] = q[j]
      BY <1>1, <3>2
    <3> QED
      BY <1>2, <1>d, <1>i, <2>3, <3>2, <3>3 DEF Differing, Queue
  <2> QED
    BY <1>1, <2>1, <2>2, <2>3
<1>8. \A s \in 1..l : s = l \/ s \in 1..n
  BY <1>2
<1>9. \A s, t \in 1..l : hist'[s] = hist'[t] => s = t
  <2>1. ASSUME NEW s \in 1..l, NEW t \in 1..l, hist'[s] = hist'[t] PROVE s = t
    <3>1. CASE s = l /\ t = l
      BY <3>1
    <3>2. CASE s \in 1..n /\ t \in 1..n
      BY <1>3, <2>1, <3>2 DEF Differing
    <3>3. CASE s = l /\ t \in 1..n
      BY <1>3, <1>7, <2>1, <3>3
    <3>4. CASE s \in 1..n /\ t = l
      BY <1>3, <1>7, <2>1, <3>4
    <3> QED
      BY <1>8, <3>1, <3>2, <3>3, <3>4
  <2> QED
    BY <2>1
<1>10. \A s \in 1..l : hist'[s].turn \in 0..sent'
  <2>1. sent \in 0..sent
    OBVIOUS
  <2> QED
    BY <1>1, <1>3, <1>5, <1>8, <2>1 DEF Differing
<1>11. ~Unsaid'
  <2>1. i # 0
    BY <1>1, <1>2
  <2> QED
    BY <1>1, <1>4, <2>1 DEF Unsaid, InSave
<1>12. \A s \in 1..Before(l)' : hist'[s].turn < sent' \/ hist'[s].body = <<>>
  <2>1. CASE turn.phase = "user"
    <3>1. Before(l)' = l /\ Before(n) = n
      BY <1>4, <2>1 DEF Before
    <3> QED
      BY <1>1, <1>3, <1>5, <1>6, <1>8, <2>1, <3>1 DEF Differing
  <2>2. CASE turn.phase = "ingest"
    <3>1. Before(l)' = l - i /\ Before(n) = n - d
      BY <1>1, <1>4, <1>d, <2>2 DEF Before
    <3>2. Before(l)' = Before(n) /\ 1..Before(n) \subseteq 1..n
      BY <1>1, <1>2, <3>1
    <3> QED
      BY <1>1, <1>3, <1>6, <3>2 DEF Differing
  <2> QED
    BY <2>1, <2>2
<1>13. Differing(l)'
  BY <1>5, <1>9, <1>10, <1>11, <1>12 DEF Differing
<1> QED
  BY <1>3, <1>13, DifferingAgain

(* Every step keeps the messages apart. *)
LEMMA DifferingStep ==
    ASSUME IInv, Inputs, Typed, Sound(Len(hist)), Staged(Len(hist)), Differing(Len(hist)), Clean, Step, ~Overlapping'
    PROVE  Differing(Len(hist))'
<1>n. PICK n \in Nat : n = Len(hist) /\ DOMAIN hist = 1..n
  BY HistFacts DEF IInv, Counted
<1>k. PICK k \in Nat : k = Len(threads) /\ TypedFiles(k) /\ TypedProcs(k) /\ TypedCounts
  BY LenProperties DEF Typed
<1>c. /\ Counted /\ Copies(n) /\ Sound(n) /\ Staged(n) /\ Stage /\ Differing(n)
      /\ DOMAIN pc = Procs /\ DOMAIN job = Procs /\ ~Overlapping
  BY <1>n DEF IInv, Counted, Copies, Clean, Staged
<1>p. "turn" \in Procs /\ "patch" \in Procs /\ "turn" # "patch" /\ \A p \in Procs : p \in {"turn", "patch"}
  BY DEF Procs
<1>u. pc["patch"] # "idle" => pc["turn"] = "idle"
  BY <1>c, <1>p DEF Overlapping
<1>v. pc'["patch"] # "idle" => pc'["turn"] = "idle"
  BY <1>p DEF Overlapping
<1>l. turn \in Locals(k) /\ sent \in Nat /\ DOMAIN turn = DOMAIN NoTurn /\ turn.phase \in {"user", "ingest"}
  <2>1. turn \in Locals(k) /\ sent \in 0..MaxTurns
    BY <1>k DEF TypedProcs, TypedCounts
  <2>2. sent \in Nat
    BY <2>1
  <2>3. DOMAIN turn = DOMAIN NoTurn
    BY <1>c DEF Counted, LocalsOK
  <2> QED
    BY <2>1, <2>2, <2>3, LocalsTyped
<1>g. \A label : Goto("turn", label) => pc'["turn"] = label
  BY <1>c, <1>p DEF Goto
<1>s. \A m, ret, err : Saves("turn", m, ret, err) => pc'["turn"] = "save" /\ job'["turn"].ret = ret
  BY <1>c, <1>g, <1>p DEF Saves
<1>q. ASSUME Differing(n)', UNCHANGED hist PROVE Differing(Len(hist))'
  BY <1>n, <1>q, DifferingAgain
<1>r. ASSUME UNCHANGED <<hist, sent>>, pc'["turn"] = "idle", turn' = NoTurn PROVE Differing(Len(hist))'
  BY <1>c, <1>q, <1>r, DifferingIdle
<1>h. ASSUME UNCHANGED <<hist, sent>>, turn'.queue = turn.queue, turn'.phase = turn.phase,
             pc["turn"] # "idle", Unsaid' => Unsaid, Unwritten' => Unwritten /\ Before(n)' = Before(n)
      PROVE  Differing(Len(hist))'
  <2>1. Differing(n)'
    BY <1>c, <1>h, DifferingQuiet
  <2> QED
    BY <1>h, <1>q, <2>1
<1>1. CASE SendMessage
  <2>1. Differing(n)' /\ UNCHANGED hist
    BY <1>1, <1>c, <1>l, DifferingSend DEF SendMessage, fileVars
  <2> QED
    BY <1>q, <2>1
<1>2. CASE InitMetadata \/ AppendBegins
  <2>1. UNCHANGED <<hist, sent, turn>> /\ pc["turn"] \in {"init", "append"}
    BY <1>2 DEF InitMetadata, AppendBegins, fileVars
  <2>2. pc'["turn"] \in {"append", "number"} \/ (pc'["turn"] = "save" /\ job'["turn"].ret = "append")
    BY <1>2, <1>c, <1>g, <1>s DEF InitMetadata, AppendBegins, Stage
  <2> QED
    BY <1>h, <2>1, <2>2 DEF Unsaid, Unwritten, Before, InSave
<1>3. CASE AppendNumbers
  <2>1. UNCHANGED <<hist, sent>> /\ pc["turn"] = "number" /\ pc'["turn"] = "files"
    BY <1>3, <1>g DEF AppendNumbers, fileVars
  <2>2. turn'.phase = turn.phase /\ turn'.queue = turn.queue /\ turn'.done = 0
    BY <1>3, <1>l DEF AppendNumbers, NoTurn
  <2>3. Before(n)' = Before(n)
    BY <1>n, <2>1, <2>2 DEF Before
  <2> QED
    BY <1>h, <2>1, <2>2, <2>3 DEF Unsaid, Unwritten
<1>4. CASE AppendFile
  BY <1>4, <1>c, <1>l, <1>n, DifferingFile
<1>5. CASE AppendTotal
  <2>1. UNCHANGED <<hist, sent, turn>> /\ pc["turn"] = "files" /\ meta # Missing
    BY <1>5, <1>c DEF AppendTotal, fileVars, Stage
  <2>2. pc'["turn"] = "save" /\ job'["turn"].ret = IF turn.phase = "user" THEN "wrap" ELSE "through"
    BY <1>5, <1>s, <2>1 DEF AppendTotal
  <2> QED
    BY <1>h, <2>1, <2>2 DEF Unsaid, Unwritten, Before, InSave
<1>6. CASE WrapPrompt \/ StartAgent \/ SelfHeal \/ \E e \in EventKinds : AgentEmit(e)
  <2>1. UNCHANGED <<hist, sent>> /\ pc["turn"] \in {"wrap", "start", "running"} /\ turn.phase = "user"
    BY <1>6, <1>c DEF WrapPrompt, StartAgent, SelfHeal, AgentEmit, fileVars, Stage
  <2>2. CASE Returns
    BY <1>g, <1>r, <2>1, <2>2 DEF Returns
  <2>3. CASE ~Returns
    <3>1. turn'.phase = turn.phase /\ turn'.queue = turn.queue
      BY <1>6, <1>l, <2>3 DEF WrapPrompt, StartAgent, SelfHeal, AgentEmit, NoTurn
    <3>2. pc'["turn"] \in {"start", "running"}
      BY <1>6, <1>g, <2>1, <2>3 DEF WrapPrompt, StartAgent, SelfHeal, AgentEmit
    <3> QED
      BY <1>h, <2>1, <3>1, <3>2 DEF Unsaid, Unwritten, Before, InSave
  <2> QED
    BY <2>2, <2>3
<1>7. CASE StartFails \/ TurnStopped \/ LeaveUningested \/ UpdateRecord
  <2>1. UNCHANGED <<hist, sent>> /\ Returns
    BY <1>7 DEF StartFails, TurnStopped, LeaveUningested, UpdateRecord, fileVars
  <2> QED
    BY <1>g, <1>r, <2>1 DEF Returns
<1>8. CASE TurnEnds
  <2>1. Differing(n)' /\ UNCHANGED hist
    BY <1>8, <1>c, <1>l, DifferingEnds DEF TurnEnds, fileVars
  <2> QED
    BY <1>q, <2>1
<1>9. CASE ReadThrough \/ UpdateBinding
  <2>1. UNCHANGED <<hist, sent>> /\ pc["turn"] \in {"through", "bind"} /\ meta # Missing /\ turn.phase = "ingest"
    BY <1>9, <1>c DEF ReadThrough, UpdateBinding, fileVars, Stage
  <2>2. turn'.phase = turn.phase /\ turn'.queue = turn.queue
    BY <1>9, <1>l DEF ReadThrough, UpdateBinding, NoTurn
  <2>3. pc'["turn"] \in {"bind", "leave"} \/ (pc'["turn"] = "save" /\ job'["turn"].ret = "record")
    BY <1>9, <1>g, <1>s, <2>1 DEF ReadThrough, UpdateBinding
  <2> QED
    BY <1>h, <2>1, <2>2, <2>3 DEF Unsaid, Unwritten, Before, InSave
<1>10. CASE Patch
  <2>1. UNCHANGED <<hist, sent, turn>> /\ (pc["patch"] # "idle" \/ pc'["patch"] # "idle") /\ pc'["turn"] = pc["turn"]
    BY <1>10, <1>c, <1>p DEF Patch, PatchAccepted, PatchAgent, PatchSupplement, PatchRefused, PatchUpdate, Saves, Goto, fileVars
  <2>2. pc["turn"] = "idle" /\ pc'["turn"] = "idle"
    BY <1>u, <1>v, <2>1
  <2> QED
    BY <1>c, <1>r, <2>1, <2>2 DEF Stage
<1>11. ASSUME NEW p \in Procs, SaveWrite(p) \/ SaveRemove(p) \/ SaveRename(p) PROVE Differing(Len(hist))'
  <2>1. UNCHANGED <<hist, sent, turn>> /\ pc[p] \in InSave
    BY <1>11 DEF SaveWrite, SaveRemove, SaveRename, InSave
  <2>2. CASE p = "patch"
    <3>1. pc["turn"] = "idle" /\ pc'["turn"] = "idle"
      BY <1>11, <1>c, <1>p, <1>u, <2>1, <2>2 DEF SaveWrite, SaveRemove, SaveRename, Goto, InSave
    <3> QED
      BY <1>c, <1>r, <2>1, <3>1 DEF Stage
  <2>3. CASE p = "turn" /\ ~SaveRename(p)
    <3>1. pc'["turn"] \in InSave /\ job' = job
      BY <1>11, <1>g, <2>3 DEF SaveWrite, SaveRemove, InSave
    <3> QED
      BY <1>h, <2>1, <2>3, <3>1 DEF Unsaid, Unwritten, Before, InSave
  <2>4. CASE p = "turn" /\ SaveRename(p)
    <3>1. tmp # Missing
      <4>1. SaveSound(p, n) /\ pc[p] = "rename"
        BY <1>c, <2>4 DEF Sound, SaveRename
      <4> QED
        BY <4>1 DEF SaveSound, InSave
    <3>2. pc'["turn"] = job["turn"].ret
      BY <1>g, <2>4, <3>1 DEF SaveRename
    <3> QED
      BY <1>c, <1>h, <2>1, <2>4, <3>2 DEF Stage, Unsaid, Unwritten, Before, InSave
  <2> QED
    BY <1>p, <2>2, <2>3, <2>4
<1>12. CASE Crash
  <2>1. pc'["turn"] = "idle" /\ turn' = NoTurn /\ UNCHANGED <<hist, sent>>
    BY <1>12, <1>p DEF Crash, fileVars
  <2> QED
    BY <1>r, <2>1
<1> QED
  BY <1>1, <1>2, <1>3, <1>4, <1>5, <1>6, <1>7, <1>8, <1>9, <1>10, <1>11, <1>12 DEF Step, Turn, Save

-----------------------------------------------------------------------------
(* If every turn was ingested, each agent has its own thread, and a thread *)
(* that is not running has no message behind its binding's number.         *)
Present == meta = Missing => \E p \in Procs : pc[p] = "rename"

Injects(m) ==
    m # Missing =>
        /\ \A a, b \in Agents : m.bind[a].native = m.bind[b].native /\ m.bind[a].native # 0 => a = b
        /\ \A a \in Agents \ {rec.agent} : m.bind[a].native # 0 =>
             /\ m.bind[a].native # rec.native
             /\ pc["turn"] = "running" => m.bind[a].native # turn.thread
             /\ turn.phase = "ingest" => m.bind[a].native # turn.native
        /\ \A a \in Agents : (a # rec.agent \/ ~InTurn) /\ m.bind[a].native # 0 =>
             threads[m.bind[a].native].shown \subseteq First(m.bind[a].through)
        /\ ~InTurn => rec.native \in {0, m.bind[rec.agent].native}

(* The binding of a turn that was ingested. *)
Settled(n, m) == m.bind[rec.agent].through = n /\ (m.bind[rec.agent].native = 0 => rec.native = 0)

Settling(n) ==
    /\ pc["turn"] = "bind" => turn.through = n
    /\ pc["turn"] = "record" => Settled(n, meta)
    /\ pc["turn"] \in InSave /\ job["turn"].ret = "record" => Settled(n, job["turn"].meta)

Injecting(n) ==
    /\ Present
    /\ \A m \in Live : Injects(m)
    /\ \A i \in DOMAIN threads : threads[i].shown \subseteq First(n)
    /\ turn.phase = "ingest" /\ turn.native = 0 => rec.native = 0
    /\ Settling(n)

LEMMA InjectingAgain == ASSUME NEW n, n = Len(hist'), Injecting(n)' PROVE Injecting(Len(hist))'
BY DEF Injecting, Settling, Settled, First

LEMMA InjectsQuiet ==
    ASSUME UNCHANGED <<hist, rec, threads>>, \A c \in Live : Injects(c), NEW m, Keeps(m), InTurn' <=> InTurn,
           pc'["turn"] = "running" => pc["turn"] = "running" /\ turn'.thread = turn.thread,
           turn'.phase = "ingest" => turn.phase = "ingest" /\ turn'.native = turn.native
    PROVE  Injects(m)'
<1>1. CASE m = Missing
  BY <1>1 DEF Injects
<1>2. ASSUME NEW c \in Live, c # Missing, m.bind = c.bind PROVE Injects(m)'
  <2>1. Injects(c)
    BY <1>2
  <2>2. \A j : First(j)' = First(j)
    BY DEF First
  <2> QED
    BY <1>2, <2>1, <2>2 DEF Injects
<1> QED
  BY <1>1, <1>2 DEF Keeps

LEMMA InjectingQuiet ==
    ASSUME NEW n, Injecting(n), UNCHANGED <<hist, rec, threads>>, \A m \in Live' : Keeps(m), InTurn' <=> InTurn,
           pc'["turn"] = "running" => pc["turn"] = "running" /\ turn'.thread = turn.thread,
           turn'.phase = "ingest" => turn.phase = "ingest" /\ turn'.native = turn.native,
           Present', Settling(n)'
    PROVE  Injecting(n)'
<1>1. \A m \in Live' : Injects(m)'
  BY InjectsQuiet DEF Injecting
<1> QED
  BY <1>1 DEF Injecting, First

(* One more message is behind every binding. *)
LEMMA InjectingFile ==
    ASSUME NEW n \in Nat, n = Len(hist), DOMAIN hist = 1..n, Typed, Counted, Inputs, Sound(n), Stage, Injecting(n), AppendFile
    PROVE  Injecting(Len(hist))'
<1>1. /\ pc["turn"] = "files" /\ UNCHANGED <<meta, rec, pc, job, threads>> /\ turn.seq = n + 1 /\ meta # Missing
  BY DEF AppendFile, recVars, runVars, Sound, Filing, Stage
<1>2. PICK cp : cp = turn.queue[turn.done + 1]
  OBVIOUS
<1>3. PICK l : l = n + 1 /\ l \in Nat
  OBVIOUS
<1>4. Len(hist') = l /\ (\A i \in 1..n : hist'[i] = hist[i])
  <2>1. hist' = Longer(hist, cp)
    BY <1>1, <1>2 DEF AppendFile, Written, Longer
  <2> QED
    BY <1>3, <2>1, OneLonger DEF Counted, HistOK, Longer
<1>5. turn'.phase = turn.phase /\ turn'.native = turn.native /\ Live' = Live
  <2>1. DOMAIN turn = DOMAIN NoTurn
    BY DEF Counted, LocalsOK
  <2> QED
    BY <1>1, <2>1 DEF AppendFile, NoTurn, Live
<1>6. \A j \in 0..n : First(j)' = First(j)
  BY <1>4 DEF First
<1>7. First(n) \subseteq First(l)'
  <2>1. \A s \in 1..n : s \in 1..l
    BY <1>3
  <2> QED
    BY <1>4, <2>1 DEF First
<1>8. ASSUME NEW m \in Live, m # Missing PROVE Injects(m)'
  <2>1. Injects(m) /\ \A a \in Agents : m.bind[a].through \in 0..n
    BY <1>8 DEF Injecting, Live, Counted, Copies, CopyOK
  <2>2. \A a \in Agents : First(m.bind[a].through)' = First(m.bind[a].through)
    BY <1>6, <2>1
  <2> QED
    BY <1>1, <1>5, <1>8, <2>1, <2>2 DEF Injects, InTurn
<1>9. \A m \in Live' : Injects(m)'
  BY <1>5, <1>8 DEF Injects
<1>10. Settling(l)' /\ Present'
  BY <1>1 DEF Settling, Present, InSave
<1>11. Injecting(l)'
  BY <1>1, <1>5, <1>7, <1>9, <1>10 DEF Injecting
<1> QED
  BY <1>4, <1>11, InjectingAgain

(* A supplement is made of messages of the history. *)
LEMMA SupplementFirst ==
    ASSUME NEW n \in Nat, DOMAIN hist = 1..n PROVE Prior \subseteq First(n) /\ \A a, j : Delta(a, j) \subseteq First(n)
BY DEF Prior, Delta, First

(* The agent starts in its own thread, or in a new one. *)
LEMMA InjectingStart ==
    ASSUME NEW n \in Nat, DOMAIN hist = 1..n, Typed, Counted, Stage, Informing(n), Injecting(n), StartAgent, DOMAIN pc = Procs,
           pc["patch"] = "idle"
    PROVE  Injecting(n)'
<1>k. PICK k \in Nat : k = Len(threads) /\ threads \in Seq(Thread) /\ TypedFiles(k) /\ TypedProcs(k) /\ DOMAIN threads = 1..k
  BY LenProperties DEF Typed
<1>m. PICK a, b : a = rec.agent /\ b = meta.bind[a]
  OBVIOUS
<1>1. /\ pc["turn"] = "start" /\ UNCHANGED <<hist, meta, rec, job>> /\ meta # Missing
      /\ turn.phase = "user" /\ pc'["turn"] = "running" /\ pc'["patch"] = "idle"
  BY DEF StartAgent, fileVars, recVars, Stage, Goto, Procs
<1>2. Live = {meta} /\ Live' = {meta}
  BY <1>1 DEF Live, Procs, InSave
<1>3. a \in Agents /\ rec.native \in 0..k /\ meta \in Copy(k) /\ turn \in Locals(k)
  BY <1>k, <1>m DEF TypedFiles, TypedProcs, Record
<1>4. meta.bind \in [Agents -> Binding(k)]
  BY <1>1, <1>3, CopyTyped
<1>5. \A c \in Agents : meta.bind[c].native \in 0..k
  BY <1>4 DEF Binding
<1>6. Injects(meta)
  BY <1>2 DEF Injecting
<1>7. turn.resume = (IF rec.native # 0 THEN rec.native ELSE b.native) /\ turn.sup \subseteq First(n)
  <2>1. Starting
    BY <1>1 DEF Informing
  <2> QED
    BY <1>m, <2>1, SupplementFirst DEF Starting
<1>th. PICK th : th = turn.resume
  OBVIOUS
<1>8. /\ turn'.phase = "user"
      /\ IF th # 0 THEN threads' = [threads EXCEPT ![th].shown = @ \cup turn.sup] /\ turn'.thread = th
         ELSE threads' = Append(threads, [shown |-> turn.sup, whole |-> ~turn.bare]) /\ turn'.thread = k + 1
  <2>1. (IF rec.native # 0 THEN rec.native ELSE turn.resume) = th
    BY <1>7, <1>th
  <2> QED
    BY <1>1, <1>3, <1>k, <2>1 DEF StartAgent, Locals
<1>9. th \in 0..k
  BY <1>3, <1>5, <1>7, <1>m, <1>th
<1>10. /\ DOMAIN threads' = 1..k \/ DOMAIN threads' = 1..(k + 1)
       /\ \A i \in 1..k : i # th => threads'[i] = threads[i]
       /\ \A i \in DOMAIN threads' : threads'[i].shown \subseteq First(n)
  <2>t. \A i \in 1..k : threads[i] \in Thread /\ threads[i].shown \subseteq First(n)
    BY <1>k DEF Injecting
  <2>1. CASE th # 0
    <3>1. DOMAIN threads' = 1..k /\ (\A i \in 1..k : i # th => threads'[i] = threads[i])
          /\ threads'[th].shown = threads[th].shown \cup turn.sup
      BY <1>k, <1>8, <1>9, <2>1, <2>t DEF Thread
    <3> QED
      BY <1>7, <1>9, <2>1, <2>t, <3>1
  <2>2. CASE th = 0
    <3>1. PICK x, i : x = [shown |-> turn.sup, whole |-> ~turn.bare] /\ i = k + 1
      OBVIOUS
    <3>2. /\ DOMAIN threads' = 1..(k + 1) /\ (\A j \in 1..k : threads'[j] = threads[j]) /\ threads'[i] = x
      BY <1>k, <1>8, <2>2, <3>1
    <3>3. x.shown = turn.sup
      BY <3>1
    <3>4. \A j \in 1..(k + 1) : j = i \/ j \in 1..k
      BY <3>1
    <3> QED
      BY <1>7, <2>t, <3>2, <3>3, <3>4
  <2> QED
    BY <2>1, <2>2
<1>11. \A c \in Agents \ {a} : meta.bind[c].native # 0 => meta.bind[c].native # th /\ meta.bind[c].native # turn'.thread
  <2>1. ASSUME NEW c \in Agents \ {a}, meta.bind[c].native # 0 PROVE meta.bind[c].native # th /\ meta.bind[c].native # turn'.thread
    <3>1. meta.bind[c].native # rec.native /\ meta.bind[c].native # b.native /\ meta.bind[c].native \in 0..k
      BY <1>1, <1>3, <1>5, <1>6, <1>m, <2>1 DEF Injects
    <3>2. meta.bind[c].native # th
      BY <1>7, <1>th, <3>1
    <3> QED
      BY <1>8, <3>1, <3>2
  <2> QED
    BY <2>1
<1>12. \A c \in Agents \ {a} : meta.bind[c].native # 0 => threads'[meta.bind[c].native] = threads[meta.bind[c].native]
  BY <1>5, <1>10, <1>11
<1>13. InTurn' /\ \A j : First(j)' = First(j)
  BY <1>1 DEF InTurn, First
<1>14. Injects(meta)'
  BY <1>1, <1>6, <1>8, <1>11, <1>12, <1>13, <1>m DEF Injects
<1>15. Settling(n)' /\ Present'
  BY <1>1 DEF Settling, Present, InSave
<1> QED
  <2>1. \A m \in Live' : Injects(m)'
    BY <1>1, <1>2, <1>14
  <2>2. turn'.phase # "ingest"
    BY <1>8
  <2> QED
    BY <1>10, <1>13, <1>15, <2>1, <2>2 DEF Injecting

(* A fresh thread is nobody else's. *)
LEMMA InjectingHeal ==
    ASSUME NEW n \in Nat, DOMAIN hist = 1..n, Typed, Stage, Injecting(n), SelfHeal
    PROVE  Injecting(n)'
<1>k. PICK k \in Nat : k = Len(threads) /\ threads \in Seq(Thread) /\ TypedFiles(k) /\ TypedProcs(k) /\ DOMAIN threads = 1..k
  BY LenProperties DEF Typed
<1>1. /\ pc["turn"] = "running" /\ UNCHANGED <<hist, meta, job, pc>> /\ turn.phase = "user"
  BY DEF SelfHeal, fileVars, Stage
<1>2. Live' = Live
  BY <1>1 DEF Live
<1>3. rec \in Record(k) /\ Live \subseteq Copy(k) /\ turn \in Locals(k)
  BY <1>k, LiveTyped DEF TypedFiles, TypedProcs
<1>4. rec'.agent = rec.agent /\ rec'.native = 0
  BY <1>3 DEF SelfHeal, Record
<1>5. turn'.phase = "user" /\ turn'.thread = k + 1
  BY <1>1, <1>3, <1>k DEF SelfHeal, Locals
<1>6. PICK shown, whole : threads' = Append(threads, [shown |-> shown, whole |-> whole]) /\ shown \subseteq First(n)
  <2>1. CASE threads' = Append(threads, [shown |-> Prior, whole |-> TRUE])
    BY <2>1, SupplementFirst, Zenon
  <2>2. CASE threads' = Append(threads, [shown |-> {}, whole |-> FALSE])
    <3>1. PICK S, w : S = {} /\ w = FALSE
      OBVIOUS
    <3>2. threads' = Append(threads, [shown |-> S, whole |-> w]) /\ S \subseteq First(n)
      BY <2>2, <3>1
    <3> QED
      BY <3>2
  <2> QED
    BY <2>1, <2>2 DEF SelfHeal
<1>7. /\ \A i \in 1..k : threads'[i] = threads[i]
      /\ \A i \in DOMAIN threads' : threads'[i].shown \subseteq First(n)
  <2>1. PICK x, i : x = [shown |-> shown, whole |-> whole] /\ i = k + 1
    OBVIOUS
  <2>2. /\ DOMAIN threads' = 1..(k + 1) /\ (\A j \in 1..k : threads'[j] = threads[j]) /\ threads'[i] = x
    BY <1>k, <1>6, <2>1
  <2>3. x.shown = shown
    BY <2>1
  <2>4. \A j \in 1..(k + 1) : j = i \/ j \in 1..k
    BY <2>1
  <2>5. \A i1 \in 1..k : threads[i1].shown \subseteq First(n)
    BY <1>k DEF Injecting
  <2> QED
    BY <1>6, <2>2, <2>3, <2>4, <2>5
<1>8. InTurn /\ InTurn' /\ \A j : First(j)' = First(j)
  BY <1>1 DEF InTurn, First
<1>9. ASSUME NEW m \in Live, m # Missing PROVE Injects(m)'
  <2>1. \A c \in Agents : m.bind[c].native \in 0..k
    BY <1>3, <1>9, CopyTyped DEF Binding
  <2>2. \A c \in Agents : m.bind[c].native # k + 1
    BY <2>1
  <2>3. \A c \in Agents : m.bind[c].native # 0 => threads'[m.bind[c].native] = threads[m.bind[c].native]
    BY <1>7, <2>1
  <2>4. Injects(m)
    BY <1>9 DEF Injecting
  <2> QED
    BY <1>1, <1>4, <1>5, <1>8, <1>9, <2>2, <2>3, <2>4 DEF Injects
<1>10. \A m \in Live' : Injects(m)'
  BY <1>2, <1>9 DEF Injects
<1>11. Settling(n)' /\ Present'
  BY <1>1 DEF Settling, Present, InSave, Injecting
<1> QED
  BY <1>5, <1>7, <1>8, <1>10, <1>11 DEF Injecting

(* The binding gets the turn's thread and the number of the last message. *)
LEMMA InjectingBind ==
    ASSUME NEW n \in Nat, Counted, rec.agent \in Agents, Sound(Len(hist)), Staged(n), Injecting(n), UpdateBinding,
           DOMAIN pc = Procs, pc["patch"] = "idle"
    PROVE  Injecting(n)'
<1>1. pc["turn"] = "bind" /\ UNCHANGED <<hist, meta, rec, threads, turn>> /\ meta # Missing /\ turn.phase = "ingest"
  BY DEF UpdateBinding, fileVars, recVars, runVars, Staged, Stage
<1>2. PICK a, cp : a = rec.agent /\ cp = Bound(turn.origin, turn.native, turn.through)
  OBVIOUS
<1>3. Saves("turn", cp, "record", "leave") /\ DOMAIN job = Procs
  BY <1>1, <1>2 DEF UpdateBinding, Counted, Copies
<1>4. pc'["turn"] = "save" /\ job'["turn"].ret = "record" /\ job'["turn"].meta = cp /\ pc'["patch"] = "idle"
  BY <1>3 DEF Saves, Goto, Procs
<1>5. turn.origin = a /\ turn.through = n
  BY <1>1, <1>2 DEF Staged, Origins, Injecting, Settling
<1>6. /\ cp.bind[a].native = (IF turn.native # 0 THEN turn.native ELSE meta.bind[a].native)
      /\ cp.bind[a].through = n /\ \A c \in Agents \ {a} : cp.bind[c] = meta.bind[c]
  BY <1>1, <1>2, <1>5 DEF Bound, Counted, Copies, CopyOK
<1>7. Injects(meta) /\ InTurn /\ InTurn' /\ \A j : First(j)' = First(j)
  BY <1>1 DEF Injecting, Live, InTurn, First
<1>8. /\ \A c \in Agents \ {a} : meta.bind[c].native # 0 => /\ meta.bind[c].native # turn.native
                                                            /\ meta.bind[c].native # meta.bind[a].native
                                                            /\ meta.bind[c].native # rec.native
                                                            /\ threads[meta.bind[c].native].shown \subseteq First(meta.bind[c].through)
      /\ \A c, d \in Agents \ {a} : meta.bind[c].native = meta.bind[d].native /\ meta.bind[c].native # 0 => c = d
  BY <1>1, <1>2, <1>7 DEF Injects
<1>9. \A c, d \in Agents : cp.bind[c].native = cp.bind[d].native /\ cp.bind[c].native # 0 => c = d
  <2>1. ASSUME NEW c \in Agents, NEW d \in Agents, cp.bind[c].native = cp.bind[d].native, cp.bind[c].native # 0 PROVE c = d
    <3>1. CASE c # a /\ d # a
      BY <1>6, <1>8, <2>1, <3>1
    <3>2. CASE c # a /\ d = a
      BY <1>6, <1>8, <2>1, <3>2
    <3>3. CASE c = a /\ d # a
      BY <1>6, <1>8, <2>1, <3>3
    <3> QED
      BY <3>1, <3>2, <3>3
  <2> QED
    BY <2>1
<1>10. Injects(cp)'
  BY <1>1, <1>2, <1>4, <1>6, <1>7, <1>8, <1>9 DEF Injects
<1>11. \A m \in Live' : Injects(m)'
  <2>1. \A m \in Live' : Follows(m) \/ m = cp
    BY <1>1, <1>2, LiveStep DEF Step, Turn, Staged
  <2>2. ~Absent
    BY <1>1 DEF Absent
  <2>3. \A m \in Live' : Keeps(m) \/ m = cp
    BY <2>1, <2>2 DEF Follows
  <2>4. ASSUME NEW m, Keeps(m) PROVE Injects(m)'
    <3>1. pc'["turn"] # "running"
      BY <1>4
    <3> QED
      BY <1>1, <1>7, <2>4, <3>1, InjectsQuiet DEF Injecting
  <2> QED
    BY <1>1, <1>2, <1>10, <2>3, <2>4
<1>12. Settled(n, cp)'
  BY <1>1, <1>2, <1>6 DEF Settled, Injecting
<1>13. Settling(n)' /\ Present'
  <2>1. Settled(n, job["turn"].meta)'
    BY <1>1, <1>2, <1>4, <1>12 DEF Settled
  <2> QED
    BY <1>1, <1>4, <2>1 DEF Settling, Present
<1> QED
  BY <1>1, <1>7, <1>11, <1>13 DEF Injecting

(* The record gets the binding's thread. *)
LEMMA InjectingRecord ==
    ASSUME NEW n, Typed, Stage, Injecting(n), UpdateRecord, DOMAIN pc = Procs, pc["patch"] = "idle"
    PROVE  Injecting(n)'
<1>1. /\ pc["turn"] = "record" /\ UNCHANGED <<hist, meta, threads>> /\ meta # Missing /\ turn.phase = "ingest"
      /\ pc'["turn"] = "idle" /\ pc'["patch"] = "idle" /\ turn' = NoTurn /\ turn'.phase = "user" /\ Settled(n, meta)
  BY DEF UpdateRecord, fileVars, recVars, runVars, Stage, Returns, Goto, Procs, NoTurn, Injecting, Settling
<1>2. Live = {meta} /\ Live' = {meta}
  BY <1>1 DEF Live, InSave, Procs
<1>3. PICK a, th : a = rec.agent /\ th = meta.bind[a].native
  OBVIOUS
<1>4. a \in Agents /\ rec'.agent = a /\ rec'.native = (IF th # 0 THEN th ELSE rec.native)
  BY <1>1, <1>3 DEF UpdateRecord, recVars, Typed, TypedFiles, Record
<1>5. Injects(meta) /\ ~InTurn' /\ InTurn /\ \A j : First(j)' = First(j)
  BY <1>1, <1>2 DEF Injecting, InTurn, First
<1>6. rec'.native \in {0, th}
  BY <1>1, <1>3, <1>4 DEF Settled
<1>7. th # 0 => threads[th].shown \subseteq First(meta.bind[a].through)
  <2>1. meta.bind[a].through = n
    BY <1>1, <1>3 DEF Settled
  <2>2. th # 0 => th \in DOMAIN threads
    <3>1. PICK k \in Nat : k = Len(threads) /\ threads \in Seq(Thread) /\ TypedFiles(k) /\ DOMAIN threads = 1..k
      BY LenProperties DEF Typed
    <3>2. meta \in Copy(k)
      BY <3>1 DEF TypedFiles
    <3>3. th \in 0..k
      BY <1>1, <1>3, <1>4, <3>2, CopyTyped DEF Binding
    <3> QED
      BY <3>1, <3>3
  <2> QED
    BY <2>1, <2>2 DEF Injecting
<1>8. \A c \in Agents \ {a} : meta.bind[c].native # 0 => meta.bind[c].native # rec'.native
  BY <1>1, <1>3, <1>4, <1>5, <1>6 DEF Injects
<1>9. \A c \in Agents : meta.bind[c].native # 0 => threads[meta.bind[c].native].shown \subseteq First(meta.bind[c].through)
  BY <1>1, <1>3, <1>5, <1>7 DEF Injects
<1>10. \A b, c \in Agents : meta.bind[b].native = meta.bind[c].native /\ meta.bind[b].native # 0 => b = c
  BY <1>1, <1>5 DEF Injects
<1>11. Injects(meta)'
  BY <1>1, <1>3, <1>4, <1>5, <1>6, <1>8, <1>9, <1>10 DEF Injects
<1>12. \A m \in Live' : Injects(m)'
  BY <1>1, <1>2, <1>11
<1>13. Settling(n)' /\ Present'
  BY <1>1 DEF Settling, Present, InSave
<1> QED
  BY <1>1, <1>5, <1>12, <1>13 DEF Injecting

(* Every step that neither crashes nor gives up a turn. *)
LEMMA InjectingStep ==
    ASSUME IInv, Inputs, Typed, Sound(Len(hist)), Staged(Len(hist)), Informing(Len(hist)), Injecting(Len(hist)),
           Clean, Step, ~Overlapping', crashes' = 0, stops' = 0
    PROVE  Injecting(Len(hist))'
<1>n. PICK n \in Nat : n = Len(hist) /\ DOMAIN hist = 1..n
  BY HistFacts DEF IInv, Counted
<1>k. PICK k \in Nat : k = Len(threads) /\ TypedFiles(k) /\ TypedProcs(k) /\ stops \in Nat /\ crashes \in Nat
  BY LenProperties DEF Typed, TypedCounts
<1>c. /\ Counted /\ Copies(n) /\ Sound(n) /\ Staged(n) /\ Stage /\ Informing(n) /\ Injecting(n)
      /\ DOMAIN pc = Procs /\ DOMAIN job = Procs /\ ~Overlapping
  BY <1>n DEF IInv, Counted, Copies, Clean, Staged
<1>p. "turn" \in Procs /\ "patch" \in Procs /\ "turn" # "patch" /\ \A p \in Procs : p \in {"turn", "patch"}
  BY DEF Procs
<1>u. pc["patch"] # "idle" => pc["turn"] = "idle"
  BY <1>c, <1>p DEF Overlapping
<1>v. pc'["patch"] # "idle" => pc'["turn"] = "idle"
  BY <1>p DEF Overlapping
<1>l. turn \in Locals(k) /\ rec \in Record(k) /\ rec.agent \in Agents /\ meta \in Live
  BY <1>k DEF TypedProcs, TypedFiles, Record, Live
<1>g. \A label : Goto("turn", label) => pc'["turn"] = label /\ pc'["patch"] = pc["patch"]
  BY <1>c, <1>p DEF Goto
<1>s. \A m, ret, err : Saves("turn", m, ret, err) =>
         pc'["turn"] = "save" /\ pc'["patch"] = pc["patch"] /\ job'["turn"].ret = ret /\ job'["turn"].meta = m
  BY <1>c, <1>g, <1>p DEF Saves
<1>q. ASSUME Injecting(n)', UNCHANGED hist PROVE Injecting(Len(hist))'
  BY <1>n, <1>q, InjectingAgain
<1>a. Present
  BY <1>c DEF Injecting
<1>b. ASSUME pc["turn"] # "idle", pc["turn"] \notin InSave PROVE meta # Missing
  BY <1>a, <1>b, <1>p, <1>u DEF Present, InSave
<1>e. ~Absent
  BY <1>b DEF Absent
<1>f. ASSUME pc["turn"] # "bind" PROVE \A m \in Live' : Keeps(m)
  <2>1. ~UpdateBinding
    BY <1>c, <1>f DEF UpdateBinding, Stage
  <2> QED
    BY <1>c, <1>e, <2>1, LiveStep DEF Follows
<1>h. ASSUME UNCHANGED <<hist, rec, threads>>, pc["turn"] # "bind", InTurn' <=> InTurn,
             pc'["turn"] = "running" => pc["turn"] = "running" /\ turn'.thread = turn.thread,
             turn'.phase = "ingest" => turn.phase = "ingest" /\ turn'.native = turn.native,
             Present', Settling(n)'
      PROVE  Injecting(Len(hist))'
  <2>1. Injecting(n)'
    BY <1>c, <1>f, <1>h, InjectingQuiet
  <2> QED
    BY <1>h, <1>q, <2>1
<1>t. NoTurn.phase = "user"
  BY DEF NoTurn
<1>1. CASE SendMessage
  <2>1. UNCHANGED <<hist, rec, threads, meta>> /\ pc["turn"] = "idle" /\ pc'["turn"] = "init" /\ turn'.phase = "user"
        /\ pc'["patch"] = pc["patch"] /\ turn.phase = "user"
    BY <1>1, <1>c, <1>g, <1>t DEF SendMessage, fileVars, recVars, runVars, NoTurn, Stage
  <2>2. pc["patch"] = "idle"
    BY <1>v, <2>1
  <2>3. Present'
    BY <1>a, <1>p, <2>1, <2>2 DEF Present
  <2> QED
    BY <1>h, <2>1, <2>3 DEF InTurn, Settling, InSave
<1>2. CASE InitMetadata \/ AppendBegins \/ AppendTotal
  <2>1. UNCHANGED <<hist, rec, threads, turn, meta>> /\ pc["turn"] \in {"init", "append", "files"}
    BY <1>2 DEF InitMetadata, AppendBegins, AppendTotal, fileVars, recVars, runVars
  <2>2. meta # Missing
    BY <1>b, <2>1 DEF InSave
  <2>3. pc'["turn"] \in {"append", "number"} \/ (pc'["turn"] = "save" /\ job'["turn"].ret \in {"append", "wrap", "through"})
    BY <1>2, <1>g, <1>s, <2>2 DEF InitMetadata, AppendBegins, AppendTotal
  <2> QED
    BY <1>h, <2>1, <2>2, <2>3 DEF InTurn, Settling, InSave, Present
<1>3. CASE AppendNumbers
  <2>1. UNCHANGED <<hist, rec, threads, meta>> /\ pc["turn"] = "number" /\ pc'["turn"] = "files"
    BY <1>3, <1>g DEF AppendNumbers, fileVars, recVars, runVars
  <2>2. turn'.phase = turn.phase /\ turn'.native = turn.native
    BY <1>3, <1>l DEF AppendNumbers, Locals
  <2>3. meta # Missing
    BY <1>b, <2>1 DEF InSave
  <2> QED
    BY <1>h, <2>1, <2>2, <2>3 DEF InTurn, Settling, InSave, Present
<1>4. CASE AppendFile
  BY <1>4, <1>c, <1>n, InjectingFile
<1>5. CASE WrapPrompt
  <2>1. UNCHANGED <<hist, meta, rec, threads>> /\ pc["turn"] = "wrap" /\ meta # Missing /\ turn.phase = "user"
    BY <1>5, <1>c DEF WrapPrompt, fileVars, recVars, Stage
  <2>2. pc'["turn"] \in {"idle", "start"} /\ turn'.phase = "user"
    BY <1>5, <1>g, <1>l, <1>t, <2>1 DEF WrapPrompt, Returns, Locals
  <2> QED
    BY <1>h, <2>1, <2>2 DEF InTurn, Settling, InSave, Present
<1>6. CASE StartAgent
  <2>1. pc["patch"] = "idle" /\ UNCHANGED hist
    BY <1>6, <1>u DEF StartAgent, fileVars
  <2>2. Injecting(n)'
    BY <1>6, <1>c, <1>n, <2>1, InjectingStart
  <2> QED
    BY <1>q, <2>1, <2>2
<1>7. CASE StartFails \/ TurnStopped \/ LeaveUningested \/ Crash
  <2>1. stops' = stops + 1 \/ crashes' = crashes + 1
    BY <1>7 DEF StartFails, TurnStopped, LeaveUningested, Crash
  <2> QED
    BY <1>k, <2>1
<1>8. ASSUME NEW e \in EventKinds, AgentEmit(e) PROVE Injecting(Len(hist))'
  <2>1. pc["turn"] = "running" /\ UNCHANGED <<hist, meta, pc, job, turn, threads>> /\ turn.phase = "user"
    BY <1>8, <1>c DEF AgentEmit, fileVars, Stage
  <2>2. rec'.agent = rec.agent /\ rec'.native \in {rec.native, turn.thread}
    BY <1>8, <1>l DEF AgentEmit, Record, recVars
  <2>3. Live' = Live /\ \A j : First(j)' = First(j)
    BY <2>1 DEF Live, First
  <2>4. InTurn /\ InTurn'
    BY <2>1 DEF InTurn
  <2>5. ASSUME NEW m \in Live PROVE Injects(m)'
    <3>1. Injects(m)
      BY <1>c DEF Injecting
    <3> QED
      BY <2>1, <2>2, <2>3, <2>4, <3>1 DEF Injects
  <2>6. Injecting(n)'
    BY <1>c, <2>1, <2>2, <2>3, <2>5 DEF Injecting, Present, Settling, InSave
  <2> QED
    BY <1>q, <2>1, <2>6
<1>9. CASE SelfHeal
  <2>1. Injecting(n)' /\ UNCHANGED hist
    BY <1>9, <1>c, <1>n, InjectingHeal DEF SelfHeal, fileVars
  <2> QED
    BY <1>q, <2>1
<1>10. CASE TurnEnds
  <2>1. pc["turn"] = "running" /\ UNCHANGED <<hist, rec, threads, meta>> /\ pc'["turn"] = "init" /\ turn.phase = "user"
    BY <1>10, <1>c, <1>g DEF TurnEnds, fileVars, recVars, Stage
  <2>2. turn'.phase = "ingest" /\ turn'.native \in {turn.thread, rec.native}
    BY <1>10, <1>l DEF TurnEnds, Locals
  <2>3. InTurn /\ InTurn' /\ turn.thread # 0 /\ meta # Missing /\ \A j : First(j)' = First(j)
    BY <1>b, <1>c, <2>1, <2>2 DEF InTurn, Informing, InSave, First
  <2>4. ASSUME NEW m, Keeps(m) PROVE Injects(m)'
    <3>1. CASE m = Missing
      BY <3>1 DEF Injects
    <3>2. ASSUME NEW c \in Live, c # Missing, m.bind = c.bind PROVE Injects(m)'
      <4>1. Injects(c)
        BY <1>c, <3>2 DEF Injecting
      <4> QED
        BY <2>1, <2>2, <2>3, <3>2, <4>1 DEF Injects
    <3> QED
      BY <2>4, <3>1, <3>2 DEF Keeps
  <2>5. \A m \in Live' : Injects(m)'
    BY <1>f, <2>1, <2>4
  <2>6. turn'.native = 0 => rec'.native = 0
    BY <2>1, <2>2, <2>3
  <2>7. Present' /\ Settling(n)'
    BY <2>1, <2>3 DEF Present, Settling, InSave
  <2>8. Injecting(n)'
    BY <1>c, <2>1, <2>3, <2>5, <2>6, <2>7 DEF Injecting
  <2> QED
    BY <1>q, <2>1, <2>8
<1>11. CASE ReadThrough
  <2>1. pc["turn"] = "through" /\ UNCHANGED <<hist, rec, threads, meta>> /\ meta # Missing /\ meta.total = n
    BY <1>11, <1>c DEF ReadThrough, fileVars, recVars, runVars, Stage, Staged, Totals
  <2>2. pc'["turn"] = "bind" /\ turn'.phase = turn.phase /\ turn'.native = turn.native /\ turn'.through = n
    BY <1>11, <1>g, <1>l, <2>1 DEF ReadThrough, Locals
  <2> QED
    BY <1>h, <2>1, <2>2 DEF InTurn, Settling, InSave, Present
<1>12. CASE UpdateBinding
  <2>1. pc["patch"] = "idle" /\ UNCHANGED hist
    BY <1>12, <1>u DEF UpdateBinding, fileVars
  <2>2. Injecting(n)'
    BY <1>12, <1>c, <1>l, <2>1, InjectingBind
  <2> QED
    BY <1>q, <2>1, <2>2
<1>13. CASE UpdateRecord
  <2>1. pc["patch"] = "idle" /\ UNCHANGED hist
    BY <1>13, <1>u DEF UpdateRecord, fileVars
  <2>2. Injecting(n)'
    BY <1>13, <1>c, <2>1, InjectingRecord
  <2> QED
    BY <1>q, <2>1, <2>2
<1>14. CASE Patch
  <2>1. /\ UNCHANGED <<hist, threads, turn, meta>> /\ pc'["turn"] = pc["turn"]
        /\ (pc["patch"] # "idle" \/ pc'["patch"] # "idle") /\ pc["patch"] \notin InSave /\ pc["patch"] # "rename"
    BY <1>14, <1>c, <1>p DEF Patch, PatchAccepted, PatchAgent, PatchSupplement, PatchRefused, PatchUpdate, Saves, Goto,
                             fileVars, recVars, runVars, InSave
  <2>2. pc["turn"] = "idle" /\ pc'["turn"] = "idle" /\ turn = NoTurn
    BY <1>c, <1>u, <1>v, <2>1 DEF Stage
  <2>3. Present' /\ Settling(n)' /\ ~InTurn /\ ~InTurn' /\ meta # Missing /\ turn.phase = "user"
    BY <1>a, <1>p, <1>t, <2>1, <2>2 DEF Present, Settling, InTurn, InSave
  <2>4. CASE rec' = rec
    BY <1>h, <2>1, <2>2, <2>3, <2>4
  <2>5. ASSUME NEW a \in Agents, rec' = [agent |-> a, native |-> 0] PROVE Injecting(Len(hist))'
    <3>1. ASSUME NEW m, Keeps(m) PROVE Injects(m)'
      <4>1. CASE m = Missing
        BY <4>1 DEF Injects
      <4>2. ASSUME NEW c \in Live, c # Missing, m.bind = c.bind PROVE Injects(m)'
        <5>1. Injects(c) /\ \A j : First(j)' = First(j)
          BY <1>c, <2>1, <4>2 DEF Injecting, First
        <5> QED
          BY <2>1, <2>2, <2>3, <2>5, <4>2, <5>1 DEF Injects
      <4> QED
        BY <3>1, <4>1, <4>2 DEF Keeps
    <3>2. \A m \in Live' : Injects(m)'
      BY <1>f, <2>2, <3>1
    <3>3. Injecting(n)'
      BY <1>c, <2>1, <2>3, <3>2 DEF Injecting, First
    <3> QED
      BY <1>q, <2>1, <3>3
  <2>6. rec' = rec \/ \E a \in Agents : rec' = [agent |-> a, native |-> 0]
    BY <1>14 DEF Patch, PatchAccepted, PatchAgent, PatchSupplement, PatchRefused, PatchUpdate, recVars
  <2> QED
    BY <2>4, <2>5, <2>6
<1>15. ASSUME NEW p \in Procs, SaveWrite(p) \/ SaveRemove(p) \/ SaveRename(p) PROVE Injecting(Len(hist))'
  <2>1. UNCHANGED <<hist, rec, threads, turn>> /\ pc[p] \in InSave
    BY <1>15 DEF SaveWrite, SaveRemove, SaveRename, recVars, runVars, InSave
  <2>2. \A r \in Procs \ {p} : pc[r] = "idle" /\ pc'[r] = "idle"
    BY <1>15, <1>c, <1>p, <2>1, OnlyOne DEF SaveWrite, SaveRemove, SaveRename, Goto, InSave
  <2>3. CASE ~SaveRename(p)
    <3>1. /\ pc'[p] \in InSave /\ job' = job
          /\ (pc[p] = "save" /\ meta' = meta) \/ pc'[p] = "rename"
      BY <1>15, <1>c, <2>3 DEF SaveWrite, SaveRemove, InSave, Goto, fileVars
    <3>2. Present'
      BY <1>a, <1>p, <2>2, <3>1 DEF Present
    <3>3. pc'["turn"] \in InSave <=> pc["turn"] \in InSave
      BY <1>p, <2>1, <2>2, <3>1 DEF InSave
    <3>4. pc'["turn"] \in InSave \cup {"idle"} /\ pc["turn"] \in InSave \cup {"idle"}
      BY <1>p, <2>1, <2>2, <3>1 DEF InSave
    <3>5. Settling(n)'
      BY <1>c, <2>1, <3>1, <3>3, <3>4 DEF Injecting, Settling, Settled, InSave
    <3> QED
      BY <1>h, <2>1, <3>2, <3>4, <3>5 DEF InTurn, InSave
  <2>4. CASE SaveRename(p)
    <3>1. SaveSound(p, n) /\ pc[p] = "rename"
      BY <1>c, <2>4 DEF Sound, SaveRename
    <3>2. tmp = job[p].meta /\ tmp # Missing
      BY <3>1 DEF SaveSound, InSave
    <3>3. meta' = job[p].meta /\ meta' # Missing /\ pc'[p] = job[p].ret /\ job[p].ret \notin InSave
      BY <1>c, <2>4, <3>1, <3>2 DEF SaveRename, Goto, SaveSound, InSave
    <3>4. Present'
      BY <3>3 DEF Present
    <3>5. CASE p = "patch"
      <4>1. pc["turn"] = "idle" /\ pc'["turn"] = "idle"
        BY <1>p, <2>2, <3>5
      <4>2. Settling(n)'
        BY <4>1 DEF Settling, InSave
      <4> QED
        BY <1>h, <2>1, <3>4, <4>1, <4>2 DEF InTurn
    <3>6. CASE p = "turn"
      <4>1. pc["turn"] \in InSave /\ job["turn"].ret \in {"append", "wrap", "through", "record"}
        BY <1>c, <2>1, <3>6 DEF Stage
      <4>2. pc'["turn"] = job["turn"].ret /\ meta' = job["turn"].meta
        BY <3>3, <3>6
      <4>3. job["turn"].ret = "record" => Settled(n, meta)'
        BY <1>c, <2>1, <4>1, <4>2 DEF Injecting, Settling, Settled
      <4>4. Settling(n)'
        BY <4>1, <4>2, <4>3 DEF Settling, InSave
      <4> QED
        BY <1>h, <2>1, <3>4, <4>1, <4>2, <4>4 DEF InTurn, InSave
    <3> QED
      BY <1>p, <3>5, <3>6
  <2> QED
    BY <2>3, <2>4
<1> QED
  BY <1>1, <1>2, <1>3, <1>4, <1>5, <1>6, <1>7, <1>8, <1>9, <1>10, <1>11, <1>12, <1>13, <1>14, <1>15
     DEF Step, Turn, Save

-----------------------------------------------------------------------------
(* The inductive invariant of the context. *)
Contexts(n) ==
    /\ Staged(n) /\ Informing(n) /\ Differing(n)
    /\ crashes = 0 /\ stops = 0 => Injecting(n)

CInv == KInv /\ Typed /\ (torn => crashes # 0) /\ (Clean => Contexts(Len(hist)))

LEMMA CountersGrow ==
    ASSUME Step, crashes \in Nat, stops \in Nat
    PROVE  /\ crashes' = crashes \/ (crashes' = crashes + 1 /\ crashes' # 0)
           /\ stops' = stops \/ (stops' = stops + 1 /\ stops' # 0)
<1>1. crashes + 1 # 0 /\ stops + 1 # 0
  OBVIOUS
<1>2. CASE Turn
  BY <1>1, <1>2 DEF Turn, SendMessage, InitMetadata, AppendBegins, AppendNumbers, AppendFile, AppendTotal, WrapPrompt,
     StartAgent, StartFails, SelfHeal, TurnStopped, TurnEnds, ReadThrough, UpdateBinding, UpdateRecord, LeaveUningested, AgentEmit
<1>3. CASE Patch
  BY <1>3 DEF Patch, PatchAccepted, PatchAgent, PatchSupplement, PatchRefused, PatchUpdate
<1>4. CASE Save
  BY <1>4 DEF Save, SaveWrite, SaveRemove, SaveRename
<1>5. CASE Crash
  BY <1>1, <1>5 DEF Crash
<1> QED
  BY <1>2, <1>3, <1>4, <1>5 DEF Step

LEMMA ContextsSame == ASSUME NEW n, Contexts(n), UNCHANGED vars PROVE Contexts(n)'
<1>1. /\ UNCHANGED <<hist, meta, tmp, rec, pc, job, turn, sent, threads, stops, crashes>>
  BY DEF vars, fileVars, recVars, runVars
<1>2. Live' = Live /\ (\A j : First(j)' = First(j)) /\ (InTurn' <=> InTurn) /\ \A th, a, j : Told(th, a, j)' <=> Told(th, a, j)
  BY <1>1 DEF Live, First, InTurn, Told
<1>3. Staged(n)'
  BY <1>1 DEF Contexts, Staged, Stage, Totals, Origins
<1>4. Informing(n)'
  <2>1. \A m : Informs(n, m) => Informs(n, m)'
    BY <1>1, <1>2 DEF Informs
  <2>2. Starting => Starting'
    BY <1>1 DEF Starting, Delta
  <2> QED
    BY <1>1, <1>2, <2>1, <2>2 DEF Contexts, Informing
<1>5. Differing(n)'
  BY <1>1 DEF Contexts, Differing, Queue, Unsaid, Unwritten, Before
<1>6. crashes = 0 /\ stops = 0 => Injecting(n)'
  <2>1. \A m : Injects(m) => Injects(m)'
    BY <1>1, <1>2 DEF Injects
  <2> QED
    BY <1>1, <1>2, <2>1 DEF Contexts, Injecting, Settling, Settled, Present
<1> QED
  BY <1>1, <1>3, <1>4, <1>5, <1>6 DEF Contexts

LEMMA InitContexts == Init => CInv
<1> SUFFICES ASSUME Init PROVE CInv
  OBVIOUS
<1>1. PICK a \in Agents : rec = [agent |-> a, native |-> 0] /\ meta = Fresh(a)
  BY DEF Init
<1>2. hist = <<>> /\ Len(hist) = 0 /\ threads = <<>> /\ DOMAIN threads = {} /\ turn = NoTurn /\ torn = FALSE
      /\ \A p \in Procs : pc[p] = "idle"
  BY EmptySeq DEF Init
<1>3. pc["turn"] = "idle" /\ turn.phase = "user" /\ ~InTurn
  BY <1>2 DEF Procs, NoTurn, InTurn
<1>4. Staged(0)
  BY <1>2, <1>3 DEF Staged, Stage, Totals, Origins, InSave
<1>5. Live = {meta} /\ \A b \in Agents : meta.bind[b] = NoBinding
  BY <1>1, <1>2 DEF Live, InSave, Fresh
<1>6. rec.native = 0 /\ rec.agent = a /\ NoBinding.native = 0
  BY <1>1 DEF NoBinding
<1>7. Informing(0)
  BY <1>3, <1>5, <1>6 DEF Informing, Informs, Told
<1>8. Differing(0)
  BY <1>2, <1>3 DEF Differing, Queue, Unsaid, Unwritten, InSave
<1>9. Injecting(0)
  <2>1. meta # Missing
    BY <1>1 DEF Fresh, Missing
  <2>2. Present /\ Settling(0)
    BY <1>3, <2>1 DEF Present, Settling, InSave
  <2>3. Injects(meta)
    BY <1>3, <1>5, <1>6 DEF Injects
  <2> QED
    BY <1>2, <1>3, <1>5, <2>2, <2>3 DEF Injecting
<1>10. Contexts(Len(hist))
  BY <1>2, <1>4, <1>7, <1>8, <1>9 DEF Contexts
<1> QED
  BY <1>2, <1>10, InitSound, InitTyped DEF CInv

LEMMA StepContexts == CInv /\ [Next]_vars => CInv'
<1> SUFFICES ASSUME CInv, [Next]_vars PROVE CInv'
  OBVIOUS
<1>1. KInv' /\ Typed'
  BY StepSound, TypedStep, TypedSame DEF CInv, KInv
<1>2. crashes \in Nat /\ stops \in Nat /\ IInv /\ Inputs
  BY DEF CInv, KInv, Typed, TypedCounts
<1>3. CASE UNCHANGED vars
  <2>1. UNCHANGED <<torn, crashes, raced, pc, hist>>
    BY <1>3 DEF vars, fileVars
  <2>2. Clean' => Clean
    BY <2>1 DEF Clean, Overlapping
  <2>3. Clean => Contexts(Len(hist))'
    <3>1. ASSUME Clean PROVE Contexts(Len(hist))'
      <4>1. PICK n : n = Len(hist)
        OBVIOUS
      <4>2. Contexts(n)'
        BY <1>3, <3>1, <4>1, ContextsSame DEF CInv
      <4> QED
        BY <2>1, <4>1, <4>2 
    <3> QED
      BY <3>1
  <2> QED
    BY <1>1, <2>1, <2>2, <2>3 DEF CInv
<1>4. CASE Next
  <2>1. Step /\ raced' = (raced \/ Overlapping) /\ torn' = (torn \/ (crashes' # crashes /\ Disagree))
    BY <1>4 DEF Next
  <2>2. torn' => crashes' # 0
    BY <1>2, <2>1, CountersGrow DEF CInv
  <2>3. ASSUME Clean' PROVE Contexts(Len(hist))'
    <3>1. Clean /\ ~Overlapping' /\ ~(crashes' # crashes /\ Disagree)
      BY <2>1, <2>3 DEF Clean
    <3>2. Contexts(Len(hist)) /\ Sound(Len(hist)) /\ Typed
      BY <3>1 DEF CInv, KInv
    <3>3. Staged(Len(hist))' /\ Informing(Len(hist))' /\ Differing(Len(hist))'
      BY <1>2, <2>1, <3>1, <3>2, StagedStep, InformingStep, DifferingStep DEF Contexts
    <3>4. ASSUME crashes' = 0, stops' = 0 PROVE Injecting(Len(hist))'
      <4>1. crashes = 0 /\ stops = 0
        BY <1>2, <2>1, <3>4, CountersGrow
      <4> QED
        BY <1>2, <2>1, <3>1, <3>2, <3>4, <4>1, InjectingStep DEF Contexts
    <3> QED
      BY <3>3, <3>4 DEF Contexts
  <2> QED
    BY <1>1, <2>2, <2>3 DEF CInv
<1> QED
  BY <1>3, <1>4

(* A running agent's thread has what the others said. *)
LEMMA ContextInformed ==
    ASSUME CInv PROVE ContextComplete
<1> SUFFICES ASSUME Clean, pc["turn"] = "running", meta # Missing, threads[turn.thread].whole PROVE Informed
  BY DEF ContextComplete, Clean
<1>n. PICK n : n = Len(hist)
  OBVIOUS
<1>1. Staged(n) /\ Informing(n)
  BY <1>n DEF CInv, Contexts
<1>2. meta.total = n /\ turn.thread # 0 /\ Told(turn.thread, rec.agent, n)
  BY <1>1 DEF Staged, Totals, Informing
<1> QED
  BY <1>2 DEF Told, Informed

(* What is injected into a resumed thread is behind its binding's number,  *)
(* and what it was shown is not.                                           *)
LEMMA ContextOnce ==
    ASSUME CInv PROVE InjectedOnce
<1> SUFFICES ASSUME ~raced, ~Overlapping, crashes = 0, stops = 0, pc["turn"] = "start", turn.resume # 0
             PROVE  turn.sup \cap threads[turn.resume].shown = {}
  BY DEF InjectedOnce
<1>n. PICK n \in Nat : n = Len(hist) /\ DOMAIN hist = 1..n
  BY HistFacts DEF CInv, KInv, IInv, Counted
<1>1. Stage /\ Informing(n) /\ Differing(n) /\ Injecting(n)
  BY <1>n DEF CInv, Clean, Contexts, Staged
<1>2. PICK a, b : a = rec.agent /\ b = meta.bind[a]
  OBVIOUS
<1>3. meta # Missing /\ a \in Agents /\ b.through \in 0..n
  <2>1. a \in Agents
    BY <1>2 DEF CInv, Typed, TypedFiles, Record
  <2> QED
    BY <1>1, <1>2, <1>n, <2>1 DEF Stage, CInv, KInv, IInv, Counted, Copies, CopyOK
<1>4. Injects(meta) /\ ~InTurn /\ Starting
  BY <1>1 DEF Injecting, Live, Informing, Stage, InTurn
<1>5. turn.resume = b.native /\ b.native # 0
  BY <1>2, <1>3, <1>4 DEF Injects, Starting
<1>6. threads[b.native].shown \subseteq First(b.through)
  BY <1>2, <1>3, <1>4, <1>5 DEF Injects
<1>7. turn.sup = Delta(a, b.through)
  BY <1>2, <1>4 DEF Starting
<1>8. ASSUME NEW s \in 1..n, b.through < s, NEW t \in 1..b.through PROVE hist[s] # hist[t]
  <2>1. t \in 1..n /\ s # t
    BY <1>3, <1>8
  <2> QED
    BY <1>1, <2>1 DEF Differing
<1>9. Delta(a, b.through) \cap First(b.through) = {}
  BY <1>8, <1>n DEF Delta, First
<1> QED
  BY <1>5, <1>6, <1>7, <1>9

(* Types, and the context of an agent (BuildSupplement, the watermarks of  *)
(* the bindings, self-heal): however agents change, turns fail, are        *)
(* stopped or retried, and the server crashes, a thread that began with    *)
(* all there was has every message of the other agents when its agent      *)
(* runs, until a crash comes upon files that do not agree or a PATCH and a *)
(* turn overlap; and, if every turn was ingested, no message is injected   *)
(* twice into a thread.                                                    *)
THEOREM ContextIsExact == Spec => []ContextExact
<1>1. CInv => ContextExact
  <2>1. ASSUME CInv PROVE ContextExact
    BY <2>1, TypedIsTypeOK, ContextInformed, ContextOnce DEF CInv, KInv, ContextExact
  <2> QED
    BY <2>1
<1> QED
  BY <1>1, InitContexts, StepContexts, PTL DEF Spec
=============================================================================
