---------------------------- MODULE SessionStore ----------------------------
(***************************************************************************)
(* The disk-backed session store (agentservice/workspace_session_store.go  *)
(* over agentservice/session_store.go), for one session id.                *)
(*                                                                         *)
(* Get hands out a POINTER to the cached record.  A handler assigns to the *)
(* record's fields through it, without a lock, and then calls Update,      *)
(* which writes record.json (a temporary file, then a rename) and replaces *)
(* the cache entry by a copy; a PATCH that is refused half way has         *)
(* assigned and never calls Update.  Several handlers do this concurrently: the  *)
(* side-effect pump and the HTTP handlers of a turn, cancel, terminate.    *)
(* The process may crash at any point; after a restart the cache is empty  *)
(* until a listing reads the files back.                                   *)
(*                                                                         *)
(* Files are modelled as inodes: a rename moves an inode, and a writer     *)
(* that opened the temporary file keeps writing to its inode whatever name *)
(* it has meanwhile.  A record is abstracted to its status and its native  *)
(* agent session id, the fields that different handlers write.             *)
(***************************************************************************)
EXTENDS Integers, Sequences

CONSTANTS
    Handlers,           \* goroutines that get, mutate and update the record
    Status,             \* the statuses handlers assign
    AgentSessions,      \* the native agent session ids they assign ("none" clears it)
    MaxHeap,            \* bound: record objects allocated since the last restart
    MaxInode,           \* bound: inodes allocated
    MaxCrash            \* bound: crashes

ASSUME StoreAssumption ==
    /\ "active" \in Status
    /\ Status \subseteq {"active", "suspended", "completed", "error", "closed"}
    /\ MaxHeap \in Nat /\ MaxInode \in Nat /\ MaxCrash \in Nat

Record  == [status : Status, agentSession : AgentSessions \cup {"none"}]
(* A file that was truncated and not written yet. *)
Partial == [status |-> "partial", agentSession |-> "none"]
Content == Record \cup {Partial}
Nil     == 0              \* no pointer, no file

VARIABLES
    heap,     \* record objects, addressed by pointers 1..Len(heap)
    mem,      \* pointer in the cache's map, or Nil
    inode,    \* contents of inodes
    path,     \* inode of record.json, or Nil
    tmp,      \* inode of record.json.tmp, or Nil
    pc,       \* per handler: the step it is at
    ptr,      \* per handler: the pointer it holds
    data,     \* per handler: the marshalled record
    fd,       \* per handler: the inode it opened
    creating, \* per handler: it runs Create, not Update
    lister,   \* what a listing has read and not yet put into the cache
    acked,    \* history: the last record whose Create or Update returned nil
    failed,   \* history: some Create or Update returned an error
    raced,    \* history: handlers, or a handler and a listing, overlapped
    refused,  \* history: a refused PATCH assigned to what is the cache entry now (until raced)
    crashes

memVars  == <<heap, mem>>
fileVars == <<inode, path, tmp>>
vars     == <<heap, mem, inode, path, tmp, pc, ptr, data, fd, creating, lister, acked, failed, crashes,
              raced, refused>>

NoRecord == [status |-> "absent", agentSession |-> "none"]

Init ==
    /\ heap = <<>> /\ mem = Nil
    /\ inode = <<>> /\ path = Nil /\ tmp = Nil
    /\ pc = [h \in Handlers |-> "idle"] /\ ptr = [h \in Handlers |-> Nil]
    /\ data = [h \in Handlers |-> NoRecord] /\ fd = [h \in Handlers |-> Nil]
    /\ creating = [h \in Handlers |-> FALSE]
    /\ lister = NoRecord /\ acked = NoRecord
    /\ failed = FALSE /\ crashes = 0 /\ raced = FALSE /\ refused = FALSE

Goto(h, label) == pc' = [pc EXCEPT ![h] = label]

(* The handler returns. *)
Return(h) == Goto(h, "idle") /\ ptr' = [ptr EXCEPT ![h] = Nil]

(* More than one of the handlers and the listing is in the middle of its   *)
(* work.                                                                   *)
Overlapping ==
    \E h \in Handlers : /\ pc[h] # "idle"
                        /\ lister # NoRecord \/ \E g \in Handlers \ {h} : pc[g] # "idle"

-----------------------------------------------------------------------------
(* handleCreateSession builds a fresh record and calls Create. *)
Create(h) ==
    /\ pc[h] = "idle" /\ acked = NoRecord /\ \A g \in Handlers : ~creating[g]
    /\ Len(heap) < MaxHeap
    /\ heap' = Append(heap, [status |-> "active", agentSession |-> "none"])
    /\ ptr' = [ptr EXCEPT ![h] = Len(heap) + 1]
    /\ creating' = [creating EXCEPT ![h] = TRUE]
    /\ Goto(h, "open")
    /\ UNCHANGED <<mem, fileVars, data, fd, lister, acked, failed, crashes>>

(* Get: the handler receives the stored pointer, not a copy. *)
Get(h) ==
    /\ pc[h] = "idle" /\ mem # Nil
    /\ ptr' = [ptr EXCEPT ![h] = mem]
    /\ Goto(h, "got")
    /\ UNCHANGED <<memVars, fileVars, data, fd, creating, lister, acked, failed, crashes>>

(* Fault of Assign: the handler does not call Update afterwards. *)
AssignWithoutUpdate(h, rec) ==
    /\ pc[h] = "got"
    /\ heap' = [heap EXCEPT ![ptr[h]] = rec]
    /\ Return(h)
    /\ UNCHANGED <<mem, fileVars, data, fd, creating, lister, acked, failed, crashes>>

(* The handler assigns to the record through its pointer. *)
Assign(h, rec) ==
    /\ pc[h] = "got"
    /\ heap' = [heap EXCEPT ![ptr[h]] = rec]
    /\ Goto(h, "open")
    /\ UNCHANGED <<mem, fileVars, ptr, data, fd, creating, lister, acked, failed, crashes>>

AssignStatus(h, s)    == Assign(h, [heap[ptr[h]] EXCEPT !.status = s])
AssignAgentSession(h, a) == Assign(h, [heap[ptr[h]] EXCEPT !.agentSession = a])

(* handlePatchSession: the agent is changed, which clears the native id,   *)
(* before the model, the supplement or the configuration directory is      *)
(* found wanting; the handler answers with an error and returns.           *)
PatchRefused(h) ==
    /\ pc[h] = "got"
    /\ heap' = [heap EXCEPT ![ptr[h]] = [@ EXCEPT !.agentSession = "none"]]
    /\ Return(h)
    /\ UNCHANGED <<mem, fileVars, data, fd, creating, lister, acked, failed, crashes>>

(* persistSessionRecord: marshal, and open the temporary file, which       *)
(* truncates the one that is there or creates a new one.                   *)
OpenTmp(h) ==
    /\ pc[h] = "open"
    /\ data' = [data EXCEPT ![h] = heap[ptr[h]]]
    /\ IF tmp # Nil
         THEN /\ inode' = [inode EXCEPT ![tmp] = Partial]
              /\ fd' = [fd EXCEPT ![h] = tmp]
              /\ UNCHANGED tmp
         ELSE /\ Len(inode) < MaxInode
              /\ inode' = Append(inode, Partial)
              /\ tmp' = Len(inode) + 1
              /\ fd' = [fd EXCEPT ![h] = Len(inode) + 1]
    /\ Goto(h, "write")
    /\ UNCHANGED <<memVars, path, ptr, creating, lister, acked, failed, crashes>>

(* The data goes to the inode that was opened, which is closed again. *)
WriteTmp(h) ==
    /\ pc[h] = "write"
    /\ inode' = [inode EXCEPT ![fd[h]] = data[h]]
    /\ data' = [data EXCEPT ![h] = NoRecord] /\ fd' = [fd EXCEPT ![h] = Nil]
    /\ Goto(h, "rename")
    /\ UNCHANGED <<memVars, path, tmp, ptr, creating, lister, acked, failed, crashes>>

(* Fault of RenameTmp: the old file is removed before every rename. *)
RemoveThenRename(h) ==
    /\ pc[h] = "rename"
    /\ path' = Nil /\ Goto(h, "retry")
    /\ UNCHANGED <<memVars, inode, tmp, ptr, data, fd, creating, lister, acked, failed, crashes>>

(* os.Rename(tmp, path); when it fails, path is removed before a retry. *)
RenameTmp(h) ==
    /\ pc[h] = "rename"
    /\ IF tmp # Nil
         THEN path' = tmp /\ tmp' = Nil /\ Goto(h, "cache")
         ELSE path' = Nil /\ Goto(h, "retry") /\ UNCHANGED tmp
    /\ UNCHANGED <<memVars, inode, ptr, data, fd, creating, lister, acked, failed, crashes>>

(* Fault of RetryRename: the error of the second rename is dropped. *)
RetryRenameQuietly(h) ==
    /\ pc[h] = "retry"
    /\ IF tmp # Nil THEN path' = tmp /\ tmp' = Nil ELSE UNCHANGED <<path, tmp>>
    /\ Goto(h, "cache")
    /\ UNCHANGED <<memVars, inode, ptr, data, fd, creating, lister, acked, failed, crashes>>

(* The second os.Rename; when it fails too, Update returns its error and   *)
(* the cache is left alone.                                                *)
RetryRename(h) ==
    /\ pc[h] = "retry"
    /\ IF tmp # Nil
         THEN path' = tmp /\ tmp' = Nil /\ Goto(h, "cache") /\ UNCHANGED ptr
         ELSE Return(h) /\ UNCHANGED <<path, tmp>>
    /\ failed' = (failed \/ tmp = Nil)
    /\ creating' = [creating EXCEPT ![h] = @ /\ tmp # Nil]
    /\ UNCHANGED <<memVars, inode, data, fd, lister, acked, crashes>>

(* The transition MemorySessionStore.Update refuses. *)
InvalidTransition(old, new) == old.status = "closed" /\ new.status = "active"

(* MemorySessionStore.Create and Update: under the lock, a copy of what    *)
(* the pointer holds now becomes the cache entry.                          *)
UpdateCache(h) ==
    /\ pc[h] = "cache"
    /\ IF ~creating[h] /\ (mem = Nil \/ InvalidTransition(heap[mem], heap[ptr[h]]))
         THEN failed' = TRUE /\ UNCHANGED <<heap, mem, acked>>
         ELSE /\ Len(heap) < MaxHeap
              /\ heap' = Append(heap, heap[ptr[h]])
              /\ mem' = Len(heap) + 1
              /\ acked' = heap[ptr[h]]
              /\ UNCHANGED failed
    /\ creating' = [creating EXCEPT ![h] = FALSE]
    /\ Return(h)
    /\ UNCHANGED <<fileVars, data, fd, lister, crashes>>

(* Delete removes the cache entry and keeps the files. *)
Delete(h) ==
    /\ pc[h] = "idle" /\ mem # Nil
    /\ mem' = Nil
    /\ UNCHANGED <<heap, fileVars, pc, ptr, data, fd, creating, lister, acked, failed, crashes>>

(* listUnderStorageRoot reads record.json; a file that does not parse is   *)
(* skipped.                                                                *)
ListRead ==
    /\ lister = NoRecord
    /\ path # Nil /\ inode[path] # Partial
    /\ lister' = inode[path]
    /\ UNCHANGED <<memVars, fileVars, pc, ptr, data, fd, creating, acked, failed, crashes>>

(* ... and puts a copy into the cache. *)
ListUpsert ==
    /\ lister # NoRecord /\ Len(heap) < MaxHeap
    /\ heap' = Append(heap, lister)
    /\ mem' = Len(heap) + 1
    /\ lister' = NoRecord
    /\ UNCHANGED <<fileVars, pc, ptr, data, fd, creating, acked, failed, crashes>>

(* The process dies: all memory is lost, the files stay as they are. *)
Crash ==
    /\ crashes < MaxCrash
    /\ crashes' = crashes + 1
    /\ heap' = <<>> /\ mem' = Nil /\ lister' = NoRecord
    /\ pc' = [h \in Handlers |-> "idle"] /\ ptr' = [h \in Handlers |-> Nil]
    /\ data' = [h \in Handlers |-> NoRecord] /\ fd' = [h \in Handlers |-> Nil]
    /\ creating' = [h \in Handlers |-> FALSE]
    /\ UNCHANGED <<fileVars, acked, failed>>

-----------------------------------------------------------------------------
Step ==
    \/ \E h \in Handlers :
         \/ Create(h) \/ Get(h) \/ Delete(h)
         \/ \E s \in Status : AssignStatus(h, s)
         \/ \E a \in AgentSessions : AssignAgentSession(h, a)
         \/ PatchRefused(h)
         \/ OpenTmp(h) \/ WriteTmp(h) \/ RenameTmp(h) \/ RetryRename(h) \/ UpdateCache(h)
    \/ ListRead \/ ListUpsert \/ Crash

Next ==
    /\ Step
    /\ raced' = (raced \/ Overlapping)
    /\ refused' = (~raced' /\ mem' = mem /\ (refused \/ \E h \in Handlers : PatchRefused(h)))

Spec == Init /\ [][Next]_vars

-----------------------------------------------------------------------------
(* Types of the store's state. *)
TypeOK ==
    /\ heap \in Seq(Record) /\ mem \in 0..Len(heap)
    /\ inode \in Seq(Content)
    /\ path \in 0..Len(inode) /\ tmp \in 0..Len(inode)
    /\ pc \in [Handlers -> {"idle", "got", "open", "write", "rename", "retry", "cache"}]
    /\ ptr \in [Handlers -> 0..Len(heap)] /\ fd \in [Handlers -> 0..Len(inode)]
    /\ data \in [Handlers -> Record \cup {NoRecord}]
    /\ creating \in [Handlers -> BOOLEAN]
    /\ lister \in Record \cup {NoRecord} /\ acked \in Record \cup {NoRecord}
    /\ failed \in BOOLEAN /\ crashes \in Nat
    /\ raced \in BOOLEAN /\ refused \in BOOLEAN

Quiet == \A h \in Handlers : pc[h] \in {"idle", "got"}

(* So far every handler and every listing had the record to itself. *)
Serial == ~raced /\ ~Overlapping

(* "WorkspaceSessionStore persists SessionRecord as record.json"           *)
(* (workspace_session_store.go:19): once Create has returned, the file is  *)
(* there, whatever updates, listings and crashes follow one another.       *)
RecordKept == Serial /\ acked # NoRecord => path # Nil

(* record.json always parses: an update replaces it by a complete file,    *)
(* and a crash in the middle of one leaves the old or the new record       *)
(* (workspace_session_store.go:128-148).                                   *)
NeverTorn == Serial /\ path # Nil => inode[path] # Partial

(* Overlapping updates share one temporary file.  They can lose or         *)
(* truncate the record only while they run, or with an error returned to   *)
(* one of the callers: once they have all returned nil, record.json is     *)
(* there and complete, whichever rename moved whose temporary file         *)
(* (workspace_session_store.go:137-146).                                   *)
LossReported ==
    (Quiet /\ crashes = 0 /\ ~failed /\ acked # NoRecord)
      => path # Nil /\ inode[path] # Partial

(* An acknowledged update is durable: between updates the file holds the   *)
(* record of the last one that returned nil (workspace_session_store.go:   *)
(* 59-66).  One that failed, or that a crash cut short, may be there too.  *)
AckedDurable ==
    (Serial /\ Quiet /\ crashes = 0 /\ ~failed /\ acked # NoRecord) => path # Nil /\ inode[path] = acked

(* The record in the cache is the one on disk, but for the native agent    *)
(* session that a PATCH took away and that was then refused.               *)
Agrees ==
    \/ heap[mem] = inode[path]
    \/ refused /\ heap[mem] = [inode[path] EXCEPT !.agentSession = "none"]

(* The cache agrees with the file whenever nothing is in flight, after a   *)
(* crash and a listing too (workspace_session_store.go:58,78).  The one    *)
(* exception is a refused PATCH (handler_session.go:98-101, 117-152); the  *)
(* next update, listing or restart ends it: an update saves what the       *)
(* refused PATCH had assigned, the others drop it.                         *)
CacheCoherent ==
    (Serial /\ (\A h \in Handlers : pc[h] = "idle") /\ lister = NoRecord /\ mem # Nil)
      => path # Nil /\ Agrees

(* The record of a session is whole, across crashes, as long as handlers   *)
(* and listings take turns: it is there once it was acknowledged, and a    *)
(* complete version (workspace_session_store.go, writeRecord's temporary   *)
(* file and rename).                                                       *)
RecordWhole == TypeOK /\ RecordKept /\ NeverTorn

(* An acknowledged update is on disk, or its loss was reported to the      *)
(* request that made it.                                                   *)
AckedNotLost == AckedDurable /\ LossReported
=============================================================================
