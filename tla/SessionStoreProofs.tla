-------------------------- MODULE SessionStoreProofs --------------------------
(***************************************************************************)
(* Machine-checked proofs about SessionStore, for any set of handlers and  *)
(* any bounds: what record.json and the cache promise to handlers that     *)
(* take turns, across any number of crashes, and what is left of the       *)
(* promise when they overlap.                                              *)
(***************************************************************************)
EXTENDS SessionStore, TLAPS, SequenceTheorems

(* What holds of a handler's locals and of the two file names, whoever     *)
(* overlaps.                                                               *)
Locals ==
    /\ tmp # Nil => path # tmp
    /\ \A h \in Handlers :
         /\ pc[h] # "idle" => ptr[h] # Nil
         /\ pc[h] = "write" => fd[h] # Nil
         /\ pc[h] = "write" => data[h] # NoRecord
         /\ creating[h] => pc[h] \notin {"idle", "got"}

(* Until a crash, a truncated file has a handler that is about to write    *)
(* it, and a removed record a handler that is about to rename again or to  *)
(* report that it cannot.                                                  *)
Attended ==
    crashes = 0 =>
        /\ \A i \in 1..Len(inode) :
             inode[i] = Partial => \E h \in Handlers : pc[h] = "write" /\ fd[h] = i
        /\ path = Nil /\ ~failed /\ (acked # NoRecord \/ \E h \in Handlers : pc[h] = "cache")
             => \E h \in Handlers : pc[h] = "retry"

(* What a handler that has the record to itself knows of it at each step.  *)
Owns(h) ==
    /\ pc[h] # "retry"
    /\ pc[h] # "idle" /\ ~creating[h] /\ mem # Nil => ptr[h] = mem
    /\ pc[h] = "write" => tmp # Nil /\ fd[h] = tmp /\ data[h] = heap[ptr[h]]
    /\ pc[h] = "rename" => tmp # Nil /\ inode[tmp] = heap[ptr[h]]
    /\ pc[h] = "cache" => path # Nil /\ inode[path] = heap[ptr[h]]

(* record.json as long as nobody overlaps: it is there once acknowledged   *)
(* and complete, it is what was acknowledged, what the cache holds and     *)
(* what a listing has read, except where the handler that is at work is    *)
(* about to make it so.                                                    *)
Alone ==
    /\ \A h \in Handlers : Owns(h)
    /\ acked # NoRecord => path # Nil
    /\ path # Nil => inode[path] # Partial
    /\ crashes = 0 /\ ~failed /\ acked # NoRecord /\ (\A h \in Handlers : pc[h] # "cache")
         => inode[path] = acked
    /\ mem # Nil /\ Quiet => path # Nil /\ Agrees
    /\ lister # NoRecord => path # Nil /\ lister = inode[path]

StoreInv == TypeOK /\ Locals /\ Attended /\ (Serial => Alone)

-----------------------------------------------------------------------------
(* Records are neither missing nor truncated. *)
LEMMA RecordFacts == NoRecord \notin Record /\ Partial \notin Record /\ NoRecord # Partial
BY StoreAssumption DEF Record, NoRecord, Partial

LEMMA ContentFacts == Partial \in Content /\ \A r : r \in Content <=> r \in Record \/ r = Partial
BY DEF Content

(* A step that keeps handlers and listing apart started from such a state. *)
LEMMA SerialBefore == ASSUME Next, Serial' PROVE Serial /\ ~Overlapping'
BY DEF Next, Serial

(* Sequences that grow by one element or have one replaced. *)
LEMMA Appended ==
    ASSUME NEW S, NEW s \in Seq(S), NEW e \in S
    PROVE  /\ Append(s, e) \in Seq(S) /\ Len(s) \in Nat /\ Len(Append(s, e)) = Len(s) + 1
           /\ Append(s, e)[Len(s) + 1] = e
           /\ \A i \in 1..Len(s) : Append(s, e)[i] = s[i]
OBVIOUS

LEMMA TypeStep == StoreInv /\ Next => TypeOK'
<1> SUFFICES ASSUME TypeOK, Locals, Next PROVE TypeOK'
  BY DEF StoreInv
<1> USE DEF TypeOK
<1>r. raced' \in BOOLEAN /\ refused' \in BOOLEAN /\ Step
  BY DEF Next
<1>l. Len(heap) \in Nat /\ Len(inode) \in Nat
  BY LenProperties
<1>n. NoRecord \notin Record /\ Partial \notin Record /\ Partial \in Content
  BY RecordFacts, ContentFacts
<1>1. ASSUME NEW h \in Handlers, Create(h) PROVE TypeOK'
  <2>1. [status |-> "active", agentSession |-> "none"] \in Record
    BY StoreAssumption DEF Record
  <2>2. heap' \in Seq(Record) /\ Len(heap') = Len(heap) + 1
    BY <1>1, <2>1 DEF Create
  <2> QED
    BY <1>1, <1>r, <1>l, <2>2 DEF Create, Goto, fileVars
<1>2. ASSUME NEW h \in Handlers, Get(h) PROVE TypeOK'
  BY <1>2, <1>r DEF Get, Goto, fileVars, memVars
<1>3. ASSUME NEW h \in Handlers, Delete(h) PROVE TypeOK'
  BY <1>3, <1>r, <1>l DEF Delete, fileVars, Nil
<1>a. ASSUME NEW h \in Handlers, NEW rec \in Record, Assign(h, rec) PROVE TypeOK'
  <2>1. ptr[h] \in 1..Len(heap)
    BY <1>a, <1>l DEF Locals, Assign, Nil
  <2>2. heap' \in Seq(Record) /\ Len(heap') = Len(heap)
    BY <1>a, <2>1, ExceptSeq DEF Assign
  <2> QED
    BY <1>a, <1>r, <2>2 DEF Assign, Goto, fileVars
<1>p. ASSUME NEW h \in Handlers, pc[h] = "got" PROVE heap[ptr[h]] \in Record
  <2>1. ptr[h] \in 1..Len(heap)
    BY <1>p, <1>l DEF Locals, Nil
  <2> QED
    BY <2>1, ElementOfSeq
<1>4. ASSUME NEW h \in Handlers, NEW st \in Status, AssignStatus(h, st) PROVE TypeOK'
  <2>1. [heap[ptr[h]] EXCEPT !.status = st] \in Record
    BY <1>4, <1>p DEF AssignStatus, Assign, Record
  <2> QED
    BY <1>4, <1>a, <2>1 DEF AssignStatus
<1>5. ASSUME NEW h \in Handlers, NEW a \in AgentSessions, AssignAgentSession(h, a) PROVE TypeOK'
  <2>1. [heap[ptr[h]] EXCEPT !.agentSession = a] \in Record
    BY <1>5, <1>p DEF AssignAgentSession, Assign, Record
  <2> QED
    BY <1>5, <1>a, <2>1 DEF AssignAgentSession
<1>16. ASSUME NEW h \in Handlers, PatchRefused(h) PROVE TypeOK'
  <2>1. ptr[h] \in 1..Len(heap)
    BY <1>16, <1>l DEF Locals, PatchRefused, Nil
  <2>2. [heap[ptr[h]] EXCEPT !.agentSession = "none"] \in Record
    BY <1>16, <1>p DEF PatchRefused, Record
  <2>3. heap' = [heap EXCEPT ![ptr[h]] = [heap[ptr[h]] EXCEPT !.agentSession = "none"]]
    BY <1>16 DEF PatchRefused
  <2>4. heap' \in Seq(Record) /\ Len(heap') = Len(heap)
    BY <2>1, <2>2, <2>3, ExceptSeq
  <2> QED
    BY <1>16, <1>r, <1>l, <2>4 DEF PatchRefused, Return, Goto, fileVars, Nil
<1>6. ASSUME NEW h \in Handlers, OpenTmp(h) PROVE TypeOK'
  <2>1. ptr[h] \in 1..Len(heap)
    BY <1>6, <1>l DEF Locals, OpenTmp, Nil
  <2>2. heap[ptr[h]] \in Record
    BY <2>1, ElementOfSeq
  <2>3. CASE tmp # Nil
    <3>1. inode' \in Seq(Content) /\ Len(inode') = Len(inode)
      <4>1. tmp \in 1..Len(inode)
        BY <1>l, <2>3 DEF Nil
      <4>2. inode' = [inode EXCEPT ![tmp] = Partial]
        BY <1>6, <2>3 DEF OpenTmp
      <4> QED
        BY <1>n, <4>1, <4>2, ExceptSeq
    <3> QED
      BY <1>6, <1>r, <2>2, <2>3, <3>1 DEF OpenTmp, Goto, memVars
  <2>4. CASE tmp = Nil
    <3>1. inode' \in Seq(Content) /\ Len(inode') = Len(inode) + 1
      <4>1. inode' = Append(inode, Partial)
        BY <1>6, <2>4 DEF OpenTmp
      <4> QED
        BY <1>n, <4>1, Appended
    <3>2. tmp' = Len(inode') /\ fd' = [fd EXCEPT ![h] = Len(inode')]
      BY <1>6, <2>4, <3>1 DEF OpenTmp
    <3>3. path' \in 0..Len(inode') /\ tmp' \in 0..Len(inode') /\ fd' \in [Handlers -> 0..Len(inode')]
      BY <1>6, <1>l, <3>1, <3>2 DEF OpenTmp
    <3> QED
      BY <1>6, <1>r, <2>2, <3>1, <3>3 DEF OpenTmp, Goto, memVars
  <2> QED
    BY <2>3, <2>4
<1>7. ASSUME NEW h \in Handlers, WriteTmp(h) PROVE TypeOK'
  <2>1. fd[h] \in 1..Len(inode) /\ data[h] \in Content
    BY <1>7, <1>l, ContentFacts DEF Locals, WriteTmp, Nil
  <2>2. inode' \in Seq(Content) /\ Len(inode') = Len(inode)
    BY <1>7, <2>1, ExceptSeq DEF WriteTmp
  <2> QED
    BY <1>7, <1>r, <1>l, <2>2 DEF WriteTmp, Goto, memVars, Nil
<1>8. ASSUME NEW h \in Handlers, RenameTmp(h) PROVE TypeOK'
  <2>1. CASE tmp # Nil
    <3>1. path' \in 0..Len(inode') /\ tmp' \in 0..Len(inode')
      BY <1>8, <1>l, <2>1 DEF RenameTmp, Nil
    <3> QED
      BY <1>8, <1>r, <2>1, <3>1 DEF RenameTmp, Goto, memVars
  <2>2. CASE tmp = Nil
    BY <1>8, <1>r, <1>l, <2>2 DEF RenameTmp, Goto, memVars, Nil
  <2> QED
    BY <2>1, <2>2
<1>9. ASSUME NEW h \in Handlers, RetryRename(h) PROVE TypeOK'
  <2>1. CASE tmp # Nil
    <3>1. path' \in 0..Len(inode') /\ tmp' \in 0..Len(inode')
      BY <1>9, <1>l, <2>1 DEF RetryRename, Nil
    <3> QED
      BY <1>9, <1>r, <2>1, <3>1 DEF RetryRename, Return, Goto, memVars
  <2>2. CASE tmp = Nil
    <3>1. /\ pc' = [pc EXCEPT ![h] = "idle"] /\ ptr' = [ptr EXCEPT ![h] = 0]
          /\ UNCHANGED <<heap, mem, inode, path, tmp, data, fd, lister, acked, crashes>>
          /\ failed' \in BOOLEAN /\ creating' = [creating EXCEPT ![h] = FALSE]
      BY <1>9, <2>2 DEF RetryRename, Return, Goto, memVars, Nil
    <3> QED
      BY <1>r, <1>l, <3>1
  <2> QED
    BY <2>1, <2>2
<1>10. ASSUME NEW h \in Handlers, UpdateCache(h) PROVE TypeOK'
  <2>1. ptr[h] \in 1..Len(heap)
    BY <1>10, <1>l DEF Locals, UpdateCache, Nil
  <2>2. heap[ptr[h]] \in Record
    BY <2>1, ElementOfSeq
  <2>3. CASE UNCHANGED <<heap, mem, acked>> /\ failed' = TRUE
    BY <1>10, <1>r, <1>l, <2>3 DEF UpdateCache, Return, Goto, fileVars, Nil
  <2>4. CASE heap' = Append(heap, heap[ptr[h]]) /\ mem' = Len(heap) + 1
             /\ acked' = heap[ptr[h]] /\ UNCHANGED failed
    <3>1. heap' \in Seq(Record) /\ Len(heap') = Len(heap) + 1
      BY <2>2, <2>4
    <3> QED
      BY <1>10, <1>r, <1>l, <2>2, <2>4, <3>1 DEF UpdateCache, Return, Goto, fileVars, Nil
  <2> QED
    BY <1>10, <2>3, <2>4 DEF UpdateCache
<1>11. ASSUME ListRead PROVE TypeOK'
  <2>1. path \in 1..Len(inode)
    BY <1>11, <1>l DEF ListRead, Nil
  <2>2. inode[path] \in Record
    BY <1>11, <2>1, ElementOfSeq, ContentFacts DEF ListRead
  <2> QED
    BY <1>11, <1>r, <2>2 DEF ListRead, fileVars, memVars
<1>12. ASSUME ListUpsert PROVE TypeOK'
  <2>1. heap' \in Seq(Record) /\ Len(heap') = Len(heap) + 1
    BY <1>12 DEF ListUpsert
  <2> QED
    BY <1>12, <1>r, <1>l, <2>1 DEF ListUpsert, fileVars
<1>13. ASSUME Crash PROVE TypeOK'
  <2>1. heap' \in Seq(Record) /\ Len(heap') = 0
    BY <1>13, EmptySeq DEF Crash
  <2> QED
    BY <1>13, <1>r, <1>l, <2>1 DEF Crash, fileVars, Nil
<1> QED
  BY <1>r, <1>1, <1>2, <1>3, <1>4, <1>5, <1>6, <1>7, <1>8, <1>9, <1>10, <1>11, <1>12, <1>13, <1>16 DEF Step

LEMMA LocalsStep == StoreInv /\ Next => Locals'
<1> SUFFICES ASSUME TypeOK, Locals, Step PROVE Locals'
  BY DEF StoreInv, Next
<1>l. Len(heap) \in Nat /\ Len(inode) \in Nat
  BY LenProperties DEF TypeOK
<1>f. DOMAIN pc = Handlers /\ DOMAIN ptr = Handlers /\ DOMAIN data = Handlers /\ DOMAIN fd = Handlers
      /\ DOMAIN creating = Handlers
  BY DEF TypeOK
<1>n. \A h \in Handlers : pc[h] # "idle" => heap[ptr[h]] # NoRecord
  <2> SUFFICES ASSUME NEW h \in Handlers, pc[h] # "idle" PROVE heap[ptr[h]] # NoRecord
    OBVIOUS
  <2>1. ptr[h] \in 1..Len(heap)
    BY <1>l DEF Locals, TypeOK, Nil
  <2> QED
    BY <2>1, ElementOfSeq, RecordFacts DEF TypeOK
<1>1. ASSUME NEW h \in Handlers, Create(h) PROVE Locals'
  BY <1>1, <1>l, <1>f DEF Locals, Create, Goto, fileVars, Nil
<1>2. ASSUME NEW h \in Handlers, Get(h) PROVE Locals'
  BY <1>2, <1>f DEF Locals, Get, Goto, fileVars, Nil
<1>3. ASSUME NEW h \in Handlers, Delete(h) PROVE Locals'
  BY <1>3 DEF Locals, Delete, fileVars
<1>4. ASSUME NEW h \in Handlers, NEW rec, Assign(h, rec) PROVE Locals'
  BY <1>4, <1>f DEF Locals, Assign, Goto, fileVars
<1>16. ASSUME NEW h \in Handlers, PatchRefused(h) PROVE Locals'
  BY <1>16, <1>f DEF Locals, PatchRefused, Return, Goto, fileVars
<1>6. ASSUME NEW h \in Handlers, OpenTmp(h) PROVE Locals'
  <2>1. tmp' # Nil /\ path' # tmp'
    BY <1>6, <1>l DEF Locals, OpenTmp, TypeOK, Nil
  <2>2. fd' = [fd EXCEPT ![h] = tmp'] /\ data'[h] # NoRecord
    BY <1>6, <1>n, <1>f DEF OpenTmp
  <2> QED
    BY <1>6, <1>f, <2>1, <2>2 DEF Locals, OpenTmp, Goto
<1>7. ASSUME NEW h \in Handlers, WriteTmp(h) PROVE Locals'
  BY <1>7, <1>f DEF Locals, WriteTmp, Goto
<1>8. ASSUME NEW h \in Handlers, RenameTmp(h) PROVE Locals'
  BY <1>8, <1>f DEF Locals, RenameTmp, Goto
<1>9. ASSUME NEW h \in Handlers, RetryRename(h) PROVE Locals'
  BY <1>9, <1>f DEF Locals, RetryRename, Return, Goto
<1>10. ASSUME NEW h \in Handlers, UpdateCache(h) PROVE Locals'
  BY <1>10, <1>f DEF Locals, UpdateCache, Return, Goto, fileVars
<1>11. ASSUME ListRead PROVE Locals'
  BY <1>11 DEF Locals, ListRead, fileVars
<1>12. ASSUME ListUpsert PROVE Locals'
  BY <1>12 DEF Locals, ListUpsert, fileVars
<1>13. ASSUME Crash PROVE Locals'
  BY <1>13 DEF Locals, Crash, fileVars
<1> QED
  BY <1>1, <1>2, <1>3, <1>4, <1>6, <1>7, <1>8, <1>9, <1>10, <1>11, <1>12, <1>13, <1>16
     DEF Step, AssignStatus, AssignAgentSession

(* The handler that truncates a file goes on to write it, and the one that *)
(* removes the record goes on to rename again.                             *)
LEMMA AttendedStep == StoreInv /\ Next => Attended'
<1> SUFFICES ASSUME TypeOK, Locals, Attended, Step, crashes' = 0
             PROVE  /\ \A i \in 1..Len(inode') :
                         inode'[i] = Partial => \E g \in Handlers : pc'[g] = "write" /\ fd'[g] = i
                    /\ path' = Nil /\ ~failed'
                       /\ (acked' # NoRecord \/ \E g \in Handlers : pc'[g] = "cache")
                         => \E g \in Handlers : pc'[g] = "retry"
  BY DEF StoreInv, Next, Attended
<1> DEFINE Written == \A i \in 1..Len(inode) :
                        inode[i] = Partial => \E g \in Handlers : pc[g] = "write" /\ fd[g] = i
           Kept == path = Nil /\ ~failed /\ (acked # NoRecord \/ \E g \in Handlers : pc[g] = "cache")
                     => \E g \in Handlers : pc[g] = "retry"
<1> SUFFICES Written' /\ Kept'
  OBVIOUS
<1>c. crashes = 0 \/ Crash
  BY DEF Step, Create, Get, Delete, AssignStatus, AssignAgentSession, Assign, PatchRefused, OpenTmp, WriteTmp,
         RenameTmp, RetryRename, UpdateCache, ListRead, ListUpsert
<1>0. ~Crash
  BY DEF Crash, TypeOK
<1>i. Written /\ Kept
  BY <1>c, <1>0 DEF Attended
<1>l. Len(heap) \in Nat /\ Len(inode) \in Nat
  BY LenProperties DEF TypeOK
<1>f. DOMAIN pc = Handlers /\ DOMAIN fd = Handlers
  BY DEF TypeOK
<1> HIDE DEF Written, Kept
<1>u. ASSUME UNCHANGED <<inode, fd>>, \A g \in Handlers : pc[g] = "write" => pc'[g] = "write"
      PROVE  Written'
  BY <1>i, <1>u DEF Written
<1>1. ASSUME NEW h \in Handlers, Create(h) PROVE Written' /\ Kept'
  BY <1>1, <1>i, <1>f, <1>u DEF Create, Goto, fileVars, Kept
<1>2. ASSUME NEW h \in Handlers, Get(h) PROVE Written' /\ Kept'
  BY <1>2, <1>i, <1>f, <1>u DEF Get, Goto, fileVars, Kept
<1>3. ASSUME NEW h \in Handlers, Delete(h) PROVE Written' /\ Kept'
  BY <1>3, <1>i, <1>u DEF Delete, fileVars, Kept
<1>4. ASSUME NEW h \in Handlers, NEW rec, Assign(h, rec) PROVE Written' /\ Kept'
  BY <1>4, <1>i, <1>f, <1>u DEF Assign, Goto, fileVars, Kept
<1>16. ASSUME NEW h \in Handlers, PatchRefused(h) PROVE Written' /\ Kept'
  BY <1>16, <1>i, <1>f, <1>u DEF PatchRefused, Return, Goto, fileVars, Kept
<1>6. ASSUME NEW h \in Handlers, OpenTmp(h) PROVE Written' /\ Kept'
  <2>1. Kept'
    BY <1>6, <1>i, <1>f DEF OpenTmp, Goto, Kept
  <2>2. /\ pc[h] = "open" /\ pc' = [pc EXCEPT ![h] = "write"] /\ fd' = [fd EXCEPT ![h] = tmp']
        /\ \A i \in 1..Len(inode') : i # tmp' => i \in 1..Len(inode) /\ inode'[i] = inode[i]
    <3>1. CASE tmp # Nil
      <4>1. inode' = [inode EXCEPT ![tmp] = Partial] /\ tmp' = tmp /\ fd' = [fd EXCEPT ![h] = tmp]
        BY <1>6, <3>1 DEF OpenTmp
      <4>2. tmp \in 1..Len(inode)
        BY <3>1, <1>l DEF TypeOK, Nil
      <4>3. Len(inode') = Len(inode) /\ \A i \in 1..Len(inode) : i # tmp => inode'[i] = inode[i]
        BY <4>1, <4>2, ExceptSeq, ContentFacts DEF TypeOK
      <4> QED
        BY <1>6, <4>1, <4>3 DEF OpenTmp, Goto
    <3>2. CASE tmp = Nil
      <4>1. inode' = Append(inode, Partial) /\ tmp' = Len(inode) + 1
            /\ fd' = [fd EXCEPT ![h] = Len(inode) + 1]
        BY <1>6, <3>2 DEF OpenTmp
      <4>2. Len(inode') = Len(inode) + 1 /\ \A i \in 1..Len(inode) : inode'[i] = inode[i]
        BY <4>1, Appended, ContentFacts DEF TypeOK
      <4> QED
        BY <1>6, <1>l, <4>1, <4>2 DEF OpenTmp, Goto
    <3> QED
      BY <3>1, <3>2
  <2>3. Written'
    BY <1>i, <1>f, <2>2 DEF Written
  <2> QED
    BY <2>1, <2>3
<1>7. ASSUME NEW h \in Handlers, WriteTmp(h) PROVE Written' /\ Kept'
  <2>1. fd[h] \in 1..Len(inode) /\ data[h] \in Record
    BY <1>7, <1>l DEF Locals, WriteTmp, TypeOK, Nil
  <2>2. inode' = [inode EXCEPT ![fd[h]] = data[h]] /\ data[h] \in Content /\ data[h] # Partial
    BY <1>7, <2>1, ContentFacts, RecordFacts DEF WriteTmp
  <2>3. Len(inode') = Len(inode)
        /\ \A i \in 1..Len(inode) : inode'[i] = IF i = fd[h] THEN data[h] ELSE inode[i]
    BY <2>1, <2>2, ExceptSeq DEF TypeOK
  <2>4. Written'
    BY <1>7, <1>i, <1>f, <2>2, <2>3 DEF WriteTmp, Goto, Written
  <2> QED
    BY <1>7, <1>i, <1>f, <2>4 DEF WriteTmp, Goto, Kept
<1>8. ASSUME NEW h \in Handlers, RenameTmp(h) PROVE Written' /\ Kept'
  <2>1. Written'
    BY <1>8, <1>f, <1>u DEF RenameTmp, Goto
  <2> QED
    BY <1>8, <1>i, <1>f, <2>1 DEF RenameTmp, Goto, Kept
<1>9. ASSUME NEW h \in Handlers, RetryRename(h) PROVE Written' /\ Kept'
  <2>1. Written'
    BY <1>9, <1>f, <1>u DEF RetryRename, Return, Goto
  <2> QED
    BY <1>9, <1>i, <1>f, <2>1 DEF RetryRename, Return, Goto, Kept
<1>10. ASSUME NEW h \in Handlers, UpdateCache(h) PROVE Written' /\ Kept'
  <2>1. Written'
    BY <1>10, <1>f, <1>u DEF UpdateCache, Return, Goto, fileVars
  <2>2. CASE failed'
    BY <2>1, <2>2 DEF Kept
  <2>3. CASE failed' = failed
    BY <1>10, <1>i, <1>f, <2>1, <2>3 DEF UpdateCache, Return, Goto, fileVars, Kept
  <2> QED
    BY <1>10, <2>2, <2>3 DEF UpdateCache
<1>11. ASSUME ListRead PROVE Written' /\ Kept'
  BY <1>11, <1>i, <1>u DEF ListRead, fileVars, Kept
<1>12. ASSUME ListUpsert PROVE Written' /\ Kept'
  BY <1>12, <1>i, <1>u DEF ListUpsert, fileVars, Kept
<1> QED
  BY <1>0, <1>1, <1>2, <1>3, <1>4, <1>6, <1>7, <1>8, <1>9, <1>10, <1>11, <1>12, <1>16
     DEF Step, AssignStatus, AssignAgentSession

(* A handler at work is the only one, and no listing is under way. *)
Only(h) == lister = NoRecord /\ \A g \in Handlers : g # h => pc[g] = "idle"

(* The rest of Alone, without the handlers. *)
Agree ==
    /\ acked # NoRecord => path # Nil
    /\ path # Nil => inode[path] # Partial
    /\ crashes = 0 /\ ~failed /\ acked # NoRecord /\ (\A h \in Handlers : pc[h] # "cache")
         => inode[path] = acked
    /\ mem # Nil /\ Quiet => path # Nil /\ Agrees
    /\ lister # NoRecord => path # Nil /\ lister = inode[path]

LEMMA AloneStep == StoreInv /\ Next => (Serial => Alone)'
<1> SUFFICES ASSUME TypeOK, Locals, Alone, Next, ~Overlapping, ~Overlapping', ~raced' PROVE Alone'
  BY SerialBefore DEF StoreInv, Serial
<1>n. Step /\ (refused /\ mem' = mem => refused')
  BY DEF Next, TypeOK
<1>q. \A h \in Handlers : PatchRefused(h) => refused'
  BY DEF Next, TypeOK, PatchRefused
<1>g. UNCHANGED <<heap, mem, path>> /\ (path # Nil => inode'[path] = inode[path])
      /\ (mem # Nil => path # Nil /\ Agrees) => (mem # Nil => path # Nil /\ Agrees')
  BY <1>n DEF Agrees
<1>l. Len(heap) \in Nat /\ Len(inode) \in Nat
  BY LenProperties DEF TypeOK
<1>f. DOMAIN pc = Handlers /\ DOMAIN ptr = Handlers /\ DOMAIN data = Handlers /\ DOMAIN fd = Handlers
      /\ DOMAIN creating = Handlers
  BY DEF TypeOK
<1>o. \A h \in Handlers : Owns(h)
  BY DEF Alone
<1>a. Agree
  BY DEF Alone, Agree
<1>b. ASSUME \A h \in Handlers : Owns(h)', Agree' PROVE Alone'
  BY <1>b DEF Alone, Agree
<1>s. \A h \in Handlers : pc[h] # "idle" => Only(h)
  BY DEF Overlapping, Only
<1>t. \A h \in Handlers : pc'[h] # "idle" => Only(h)'
  BY DEF Overlapping, Only
<1>p. \A h \in Handlers : pc[h] # "idle" => ptr[h] \in 1..Len(heap) /\ heap[ptr[h]] \in Record
  <2> SUFFICES ASSUME NEW h \in Handlers, pc[h] # "idle"
               PROVE  ptr[h] \in 1..Len(heap) /\ heap[ptr[h]] \in Record
    OBVIOUS
  <2>1. ptr[h] \in 1..Len(heap)
    BY <1>l DEF Locals, TypeOK, Nil
  <2> QED
    BY <2>1, ElementOfSeq DEF TypeOK
<1>i. \A g \in Handlers : pc'[g] = "idle" => Owns(g)'
  BY DEF Owns
<1>1. ASSUME NEW h \in Handlers, Create(h) PROVE Alone'
  <2>1. /\ pc' = [pc EXCEPT ![h] = "open"] /\ creating' = [creating EXCEPT ![h] = TRUE]
        /\ acked = NoRecord /\ UNCHANGED <<mem, inode, path, tmp, lister, acked, failed, crashes>>
    BY <1>1 DEF Create, Goto, fileVars
  <2>2. Only(h)' /\ pc'[h] = "open" /\ creating'[h]
    BY <1>f, <1>t, <2>1
  <2>3. Owns(h)'
    BY <2>2 DEF Owns
  <2>4. \A g \in Handlers : Owns(g)'
    BY <1>i, <2>2, <2>3 DEF Only
  <2>5. Agree'
    BY <1>a, <2>1, <2>2 DEF Agree, Quiet, Only
  <2> QED
    BY <1>b, <2>4, <2>5
<1>2. ASSUME NEW h \in Handlers, Get(h) PROVE Alone'
  <2>1. /\ pc[h] = "idle" /\ pc' = [pc EXCEPT ![h] = "got"] /\ ptr' = [ptr EXCEPT ![h] = mem]
        /\ UNCHANGED <<heap, mem, inode, path, tmp, lister, acked, failed, crashes>>
    BY <1>2 DEF Get, Goto, fileVars, memVars
  <2>2. Only(h)' /\ pc'[h] = "got" /\ ptr'[h] = mem
    BY <1>f, <1>t, <2>1
  <2>3. Owns(h)'
    BY <2>1, <2>2 DEF Owns
  <2>4. \A g \in Handlers : Owns(g)'
    BY <1>i, <2>2, <2>3 DEF Only
  <2>5. \A g \in Handlers : pc[g] = "idle"
    BY <1>f, <2>1, <2>2 DEF Only
  <2>6. Agree'
    BY <1>a, <1>g, <2>1, <2>5 DEF Agree, Quiet
  <2> QED
    BY <1>b, <2>4, <2>6
<1>3. ASSUME NEW h \in Handlers, Delete(h) PROVE Alone'
  <2>1. \A g \in Handlers : Owns(g)'
    BY <1>3, <1>o DEF Delete, fileVars, Owns
  <2>2. Agree'
    BY <1>3, <1>a DEF Delete, fileVars, Agree, Nil
  <2> QED
    BY <1>b, <2>1, <2>2
<1>4. ASSUME NEW h \in Handlers, NEW rec, Assign(h, rec) PROVE Alone'
  <2>1. /\ pc[h] = "got" /\ pc' = [pc EXCEPT ![h] = "open"]
        /\ UNCHANGED <<mem, inode, path, tmp, ptr, creating, lister, acked, failed, crashes>>
    BY <1>4 DEF Assign, Goto, fileVars
  <2>2. Only(h)' /\ pc'[h] = "open"
    BY <1>f, <1>t, <2>1
  <2>3. Owns(h)'
    BY <1>o, <2>1, <2>2 DEF Owns
  <2>4. \A g \in Handlers : Owns(g)'
    BY <1>i, <2>2, <2>3 DEF Only
  <2>5. (\A g \in Handlers : pc[g] # "cache") /\ ~Quiet'
    BY <1>s, <2>1, <2>2 DEF Only, Quiet
  <2>6. Agree'
    BY <1>a, <2>1, <2>5 DEF Agree
  <2> QED
    BY <1>b, <2>4, <2>6
<1>16. ASSUME NEW h \in Handlers, PatchRefused(h) PROVE Alone'
  <2> DEFINE r == [heap[ptr[h]] EXCEPT !.agentSession = "none"]
  <2>1. /\ pc[h] = "got" /\ pc' = [pc EXCEPT ![h] = "idle"] /\ heap' = [heap EXCEPT ![ptr[h]] = r]
        /\ UNCHANGED <<mem, inode, path, tmp, creating, lister, acked, failed, crashes>>
    BY <1>16 DEF PatchRefused, Return, Goto, fileVars
  <2>2. Quiet /\ lister = NoRecord /\ (\A g \in Handlers : pc'[g] = "idle")
    BY <1>f, <1>s, <2>1 DEF Only, Quiet
  <2>3. \A g \in Handlers : Owns(g)'
    BY <1>i, <2>2
  <2>4. mem # Nil => path # Nil /\ Agrees'
    <3> SUFFICES ASSUME mem # Nil PROVE path # Nil /\ Agrees'
      OBVIOUS
    <3>1. path # Nil /\ Agrees
      BY <1>a, <2>2 DEF Agree
    <3>2. ptr[h] = mem
      <4>1. ~creating[h]
        BY <2>1 DEF Locals
      <4> QED
        BY <1>o, <2>1, <4>1 DEF Owns
    <3>3. heap'[mem] = r
      <4>1. ptr[h] \in 1..Len(heap) /\ r \in Record
        BY <1>p, <2>1 DEF Record
      <4> HIDE DEF r
      <4> QED
        BY <2>1, <3>2, <4>1, ExceptSeq DEF TypeOK
    <3>4. heap[mem] \in Record
      BY <1>p, <2>1, <3>2
    <3>5. r = [inode[path] EXCEPT !.agentSession = "none"]
      BY <3>1, <3>2, <3>4 DEF Agrees, Record
    <3> QED
      BY <1>16, <1>q, <2>1, <3>1, <3>3, <3>5 DEF Agrees
  <2>5. Agree'
    BY <1>a, <2>1, <2>2, <2>4 DEF Agree, Quiet
  <2> QED
    BY <1>b, <2>3, <2>5
<1>6. ASSUME NEW h \in Handlers, OpenTmp(h) PROVE Alone'
  <2>1. /\ pc[h] = "open" /\ pc' = [pc EXCEPT ![h] = "write"]
        /\ data' = [data EXCEPT ![h] = heap[ptr[h]]]
        /\ UNCHANGED <<heap, mem, path, ptr, creating, lister, acked, failed, crashes>>
    BY <1>6 DEF OpenTmp, Goto, memVars
  <2>2. Only(h)' /\ pc'[h] = "write" /\ data'[h] = heap[ptr[h]]
    BY <1>f, <1>t, <2>1
  <2>3. tmp' # Nil /\ fd'[h] = tmp' /\ (path # Nil => inode'[path] = inode[path])
    <3>1. CASE tmp # Nil
      <4>1. inode' = [inode EXCEPT ![tmp] = Partial] /\ tmp' = tmp /\ fd' = [fd EXCEPT ![h] = tmp]
        BY <1>6, <3>1 DEF OpenTmp
      <4>2. path # tmp
        BY <3>1 DEF Locals
      <4> QED
        BY <1>f, <3>1, <4>1, <4>2
    <3>2. CASE tmp = Nil
      <4>1. inode' = Append(inode, Partial) /\ tmp' = Len(inode) + 1
            /\ fd' = [fd EXCEPT ![h] = Len(inode) + 1]
        BY <1>6, <3>2 DEF OpenTmp
      <4>2. \A i \in 1..Len(inode) : inode'[i] = inode[i]
        BY <4>1, Appended, ContentFacts DEF TypeOK
      <4>3. path # Nil => path \in 1..Len(inode)
        BY <1>l DEF TypeOK, Nil
      <4> QED
        BY <1>f, <1>l, <4>1, <4>2, <4>3 DEF Nil
    <3> QED
      BY <3>1, <3>2
  <2>4. Owns(h)'
    BY <1>o, <2>1, <2>2, <2>3 DEF Owns
  <2>5. \A g \in Handlers : Owns(g)'
    BY <1>i, <2>2, <2>4 DEF Only
  <2>6. (\A g \in Handlers : pc[g] # "cache") /\ ~Quiet' /\ lister = NoRecord
    BY <1>s, <2>1, <2>2 DEF Only, Quiet
  <2>7. Agree'
    BY <1>a, <2>1, <2>3, <2>6 DEF Agree
  <2> QED
    BY <1>b, <2>5, <2>7
<1>7. ASSUME NEW h \in Handlers, WriteTmp(h) PROVE Alone'
  <2>1. /\ pc[h] = "write" /\ pc' = [pc EXCEPT ![h] = "rename"]
        /\ inode' = [inode EXCEPT ![fd[h]] = data[h]]
        /\ UNCHANGED <<heap, mem, path, tmp, ptr, creating, lister, acked, failed, crashes>>
    BY <1>7 DEF WriteTmp, Goto, memVars
  <2>2. Only(h)' /\ pc'[h] = "rename"
    BY <1>f, <1>t, <2>1
  <2>3. tmp # Nil /\ fd[h] = tmp /\ tmp # path /\ tmp \in DOMAIN inode
    <3>1. tmp # Nil /\ fd[h] = tmp
      BY <1>o, <2>1 DEF Owns
    <3>2. tmp \in 1..Len(inode) /\ DOMAIN inode = 1..Len(inode)
      BY <3>1, <1>l, LenProperties DEF TypeOK, Nil
    <3> QED
      BY <3>1, <3>2 DEF Locals
  <2>4. inode'[tmp] = heap[ptr[h]] /\ inode'[path] = inode[path]
    BY <1>o, <2>1, <2>3 DEF Owns
  <2>5. Owns(h)'
    BY <1>o, <2>1, <2>2, <2>3, <2>4 DEF Owns
  <2>6. \A g \in Handlers : Owns(g)'
    BY <1>i, <2>2, <2>5 DEF Only
  <2>7. (\A g \in Handlers : pc[g] # "cache") /\ ~Quiet' /\ lister = NoRecord
    BY <1>s, <2>1, <2>2 DEF Only, Quiet
  <2>8. Agree'
    BY <1>a, <2>1, <2>4, <2>7 DEF Agree
  <2> QED
    BY <1>b, <2>6, <2>8
<1>8. ASSUME NEW h \in Handlers, RenameTmp(h) PROVE Alone'
  <2>1. pc[h] = "rename" /\ tmp # Nil /\ inode[tmp] = heap[ptr[h]]
    BY <1>8, <1>o DEF RenameTmp, Owns
  <2>2. /\ pc' = [pc EXCEPT ![h] = "cache"] /\ path' = tmp
        /\ UNCHANGED <<heap, mem, inode, ptr, data, fd, creating, lister, acked, failed, crashes>>
    BY <1>8, <2>1 DEF RenameTmp, Goto, memVars
  <2>3. Only(h)' /\ pc'[h] = "cache"
    BY <1>f, <1>t, <2>2
  <2>4. Owns(h)'
    BY <1>o, <2>1, <2>2, <2>3 DEF Owns
  <2>5. \A g \in Handlers : Owns(g)'
    BY <1>i, <2>3, <2>4 DEF Only
  <2>6. inode[tmp] # Partial /\ ~Quiet' /\ lister = NoRecord
    BY <1>s, <1>p, <2>1, <2>3, RecordFacts DEF Only, Quiet
  <2>7. Agree'
    BY <1>a, <2>1, <2>2, <2>3, <2>6 DEF Agree
  <2> QED
    BY <1>b, <2>5, <2>7
<1>9. ASSUME NEW h \in Handlers, RetryRename(h) PROVE Alone'
  BY <1>9, <1>o DEF RetryRename, Owns
<1>10. ASSUME NEW h \in Handlers, UpdateCache(h) PROVE Alone'
  <2>1. /\ pc[h] = "cache" /\ pc' = [pc EXCEPT ![h] = "idle"]
        /\ UNCHANGED <<inode, path, tmp, lister, crashes>>
    BY <1>10 DEF UpdateCache, Return, Goto, fileVars
  <2>2. path # Nil /\ inode[path] = heap[ptr[h]] /\ inode[path] # Partial /\ lister = NoRecord
    BY <1>o, <1>p, <1>s, <2>1, RecordFacts DEF Owns, Only
  <2>3. \A g \in Handlers : Owns(g)'
    <3>1. \A g \in Handlers : pc'[g] = "idle"
      BY <1>f, <1>s, <2>1 DEF Only
    <3> QED
      BY <1>i, <3>1
  <2>4. CASE ~creating[h] /\ (mem = Nil \/ InvalidTransition(heap[mem], heap[ptr[h]]))
    <3>1. failed' = TRUE /\ UNCHANGED <<heap, mem, acked>>
      BY <1>10, <2>4 DEF UpdateCache
    <3>2. mem = Nil
      BY <1>o, <2>1, <2>4 DEF Owns, InvalidTransition
    <3>3. Agree'
      BY <2>1, <2>2, <3>1, <3>2 DEF Agree
    <3> QED
      BY <1>b, <2>3, <3>3
  <2>5. CASE ~(~creating[h] /\ (mem = Nil \/ InvalidTransition(heap[mem], heap[ptr[h]])))
    <3>1. heap' = Append(heap, heap[ptr[h]]) /\ mem' = Len(heap) + 1 /\ acked' = heap[ptr[h]]
      BY <1>10, <2>5 DEF UpdateCache
    <3>2. heap'[mem'] = heap[ptr[h]]
      BY <1>p, <2>1, <3>1, Appended DEF TypeOK
    <3>3. Agree'
      BY <2>1, <2>2, <3>1, <3>2 DEF Agree, Agrees
    <3> QED
      BY <1>b, <2>3, <3>3
  <2> QED
    BY <2>4, <2>5
<1>11. ASSUME ListRead PROVE Alone'
  <2>1. \A g \in Handlers : Owns(g)'
    BY <1>11, <1>o DEF ListRead, memVars, fileVars, Owns
  <2>2. Agree'
    BY <1>11, <1>a, <1>g DEF ListRead, memVars, fileVars, Agree, Quiet
  <2> QED
    BY <1>b, <2>1, <2>2
<1>12. ASSUME ListUpsert PROVE Alone'
  <2>1. /\ heap' = Append(heap, lister) /\ mem' = Len(heap) + 1 /\ lister # NoRecord /\ lister \in Record
        /\ lister' = NoRecord /\ UNCHANGED <<inode, path, tmp, pc, ptr, data, fd, creating, acked, failed, crashes>>
    BY <1>12 DEF ListUpsert, fileVars, TypeOK
  <2>2. heap'[mem'] = lister
    BY <2>1, Appended DEF TypeOK
  <2>3. \A g \in Handlers : pc[g] = "idle"
    BY <1>s, <2>1 DEF Only
  <2>4. \A g \in Handlers : Owns(g)'
    BY <1>i, <2>1, <2>3
  <2>5. Agree'
    BY <1>a, <2>1, <2>2, <2>3 DEF Agree, Agrees
  <2> QED
    BY <1>b, <2>4, <2>5
<1>13. ASSUME Crash PROVE Alone'
  <2>1. /\ crashes' # 0 /\ mem' = Nil /\ lister' = NoRecord /\ UNCHANGED <<inode, path, acked>>
        /\ \A g \in Handlers : pc'[g] = "idle"
    BY <1>13 DEF Crash, fileVars, TypeOK
  <2>2. Agree'
    BY <1>a, <2>1 DEF Agree
  <2> QED
    BY <1>b, <1>i, <2>1, <2>2
<1> QED
  BY <1>n, <1>1, <1>2, <1>3, <1>4, <1>6, <1>7, <1>8, <1>9, <1>10, <1>11, <1>12, <1>13, <1>16
     DEF Step, AssignStatus, AssignAgentSession

-----------------------------------------------------------------------------
LEMMA StoreInvInit == Init => StoreInv
<1> SUFFICES ASSUME Init PROVE StoreInv
  OBVIOUS
<1>1. heap \in Seq(Record) /\ Len(heap) = 0 /\ inode \in Seq(Content) /\ Len(inode) = 0
  BY EmptySeq DEF Init
<1>2. TypeOK
  <2>1. mem \in 0..Len(heap) /\ path \in 0..Len(inode) /\ tmp \in 0..Len(inode)
    BY <1>1 DEF Init, Nil
  <2>2. ptr \in [Handlers -> 0..Len(heap)] /\ fd \in [Handlers -> 0..Len(inode)]
    BY <1>1 DEF Init, Nil
  <2>3. /\ pc \in [Handlers -> {"idle", "got", "open", "write", "rename", "retry", "cache"}]
        /\ data \in [Handlers -> Record \cup {NoRecord}] /\ creating \in [Handlers -> BOOLEAN]
        /\ lister \in Record \cup {NoRecord} /\ acked \in Record \cup {NoRecord}
        /\ failed \in BOOLEAN /\ crashes \in Nat /\ raced \in BOOLEAN /\ refused \in BOOLEAN
    BY DEF Init
  <2> QED
    BY <1>1, <2>1, <2>2, <2>3 DEF TypeOK
<1>3. Locals /\ Attended
  BY <1>1 DEF Init, Locals, Attended
<1>4. Alone
  BY DEF Init, Alone, Owns
<1> QED
  BY <1>2, <1>3, <1>4 DEF StoreInv

LEMMA StoreInvHolds == Spec => []StoreInv
<1>1. StoreInv /\ UNCHANGED vars => StoreInv'
  BY DEF StoreInv, TypeOK, Locals, Attended, Alone, Agrees, Owns, Serial, Overlapping, Quiet, vars
<1>2. StoreInv /\ Next => StoreInv'
  BY TypeStep, LocalsStep, AttendedStep, AloneStep DEF StoreInv
<1> QED
  BY <1>1, <1>2, StoreInvInit, PTL DEF Spec

(* As long as handlers and listings take turns, record.json is there from  *)
(* the first acknowledgement on and never truncated, across any number of  *)
(* crashes (workspace_session_store.go, writeRecord).                      *)
THEOREM RecordIsWhole == Spec => []RecordWhole
<1>1. StoreInv => RecordWhole
  BY DEF StoreInv, Alone, RecordWhole, RecordKept, NeverTorn
<1> QED
  BY <1>1, StoreInvHolds, PTL

(* What Update acknowledged to handlers that take turns is what the file   *)
(* holds between updates; and even if they overlap, a record that is       *)
(* missing or truncated once they all returned was reported to one of them *)
(* (workspace_session_store.go, Update and persistSessionRecord).          *)
THEOREM AcknowledgedNotLost == Spec => []AckedNotLost
<1>1. ASSUME StoreInv PROVE AckedDurable
  <2>1. Quiet => \A h \in Handlers : pc[h] # "cache"
    BY DEF Quiet
  <2> QED
    BY <1>1, <2>1 DEF StoreInv, Alone, AckedDurable
<1>2. ASSUME StoreInv PROVE LossReported
  <2> SUFFICES ASSUME Quiet, crashes = 0, ~failed, acked # NoRecord
               PROVE  path # Nil /\ inode[path] # Partial
    BY DEF LossReported
  <2>1. path # Nil
    BY <1>2 DEF StoreInv, Attended, Quiet
  <2>2. path \in 1..Len(inode)
    <3>1. Len(inode) \in Nat /\ path \in 0..Len(inode)
      BY <1>2, LenProperties DEF StoreInv, TypeOK
    <3> QED
      BY <2>1, <3>1 DEF Nil
  <2> QED
    BY <1>2, <2>1, <2>2 DEF StoreInv, Attended, Quiet
<1> QED
  <2>1. StoreInv => AckedNotLost
    BY <1>1, <1>2 DEF AckedNotLost
  <2> QED
    BY <2>1, StoreInvHolds, PTL

(* The cache and the file agree whenever nothing is in flight and nobody   *)
(* has overlapped, after a Delete, a crash and a listing too               *)
(* (session_store.go, Update; workspace_session_store.go, Update).         *)
THEOREM CacheIsCoherent == Spec => []CacheCoherent
<1>1. StoreInv => CacheCoherent
  <2>1. (\A h \in Handlers : pc[h] = "idle") => Quiet
    BY DEF Quiet
  <2> QED
    BY <2>1 DEF StoreInv, Alone, CacheCoherent
<1> QED
  BY <1>1, StoreInvHolds, PTL
===============================================================================
