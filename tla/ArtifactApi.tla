----------------------------- MODULE ArtifactApi -----------------------------
(***************************************************************************)
(* The artifact API (artifact/api, artifact/mcp) over the SQLite store and *)
(* the file storage of user artifacts.                                     *)
(*                                                                         *)
(* Requests run concurrently; each statement of SQLite is atomic (there is *)
(* one connection) but a handler is several statements and file            *)
(* operations.  System artifacts are a log of events; user artifacts are a *)
(* row and a file.  A file is an inode of two halves, so that a reader or  *)
(* a second writer can meet one that is half written.                      *)
(*                                                                         *)
(* Times are half seconds.  occurred_at is stored as RFC3339Nano text,     *)
(* which drops trailing zeros: TextRank is the order of the texts.         *)
(***************************************************************************)
EXTENDS Naturals, Sequences, FiniteSets, SequencesExt

CONSTANTS Keys,        \* logical keys
          Aliases,     \* other spellings of a key, [spelling -> key]; to no key when invalid
          Scenarios,   \* requests to run, and what may fail
          Filters,     \* listings to look at in every state
          MaxTime      \* bound on the clock, in half seconds

ASSUME AliasesAssumption == \A a \in DOMAIN Aliases : Aliases[a] \in Keys \cup {"invalid"}

\* A user request names a key, and what is put is not empty: Blank stands for bytes not written.
ASSUME ScenariosAssumption ==
    \A s \in Scenarios : \A r \in DOMAIN s.reqs :
        /\ s.reqs[r].kind \in {"userPut", "mcpPut", "userDelete", "userGet"} => s.reqs[r].key \in Keys
        /\ s.reqs[r].kind \in {"userPut", "mcpPut"} => s.reqs[r].body # ""

VARIABLES cfg,      \* the scenario
          events,   \* system_artifact_events, in insertion order
          rows,     \* user_artifacts by key
          files,    \* the storage directory: artifact id |-> inode, 0 when there is none
          inodes,   \* the two halves of each file ever created
          req,      \* the requests
          now,      \* the server's clock
          overlap   \* system and user keys that two writers had at the same time

vars == <<cfg, events, rows, files, inodes, req, now, overlap>>
system == <<events>>
user == <<rows, files, inodes>>

Reqs == DOMAIN cfg.reqs
In(r) == cfg.reqs[r]
NoRow == [id |-> 0, sha |-> "", created |-> 0]
Blank == ""
Ops == {"create", "update", "delete"}

-----------------------------------------------------------------------------
(* The store: listings                                                      *)

\* RFC3339Nano text: "...00Z" for a whole second, "...00.5Z" for a half one, and '.' < 'Z'.
TextRank(t) == IF t % 2 = 0 THEN t + 1 ELSE t - 1

SortValue(e, col) == CASE col = "occurred_at" -> TextRank(e.at)
                       [] col = "key" -> CHOOSE n \in 1..Len(cfg.order) : cfg.order[n] = e.key
                       [] OTHER -> Cardinality({o \in {"create", "delete"} : o # e.op})

\* ORDER BY; SQL leaves rows with equal values in any order, here that of their ids.
OrderBy(evs, col, desc) ==
    SortSeq(evs, LAMBDA a, b :
        IF SortValue(a, col) = SortValue(b, col) THEN a.id < b.id
        ELSE (SortValue(a, col) < SortValue(b, col)) # desc)

\* The latest operation of each key decides, by time and not by position.
excludeDeletedKeys(evs) ==
    LET Latest(k) == CHOOSE i \in DOMAIN evs :
            /\ evs[i].key = k
            /\ \A j \in DOMAIN evs : evs[j].key = k =>
                   evs[j].at < evs[i].at \/ (evs[j].at = evs[i].at /\ i <= j)
    IN  SelectSeq(evs, LAMBDA e : evs[Latest(e.key)].op # "delete")

\* A filter: session, operation and time bounds in SQL, then the glob, then deleted keys.
filterSystemArtifacts(evs, f) ==
    LET Sql(e) == /\ f.sessions # {} => e.sess \in f.sessions
                  /\ f.op # Blank => e.op = f.op
                  /\ f.since # 0 => TextRank(e.at) >= TextRank(f.since)
                  /\ f.until # 0 => TextRank(e.at) <= TextRank(f.until)
        listed == OrderBy(SelectSeq(evs, Sql), f.sort, f.desc)
        matched == SelectSeq(listed, LAMBDA e : e.key \in f.q)
    IN  IF f.deleted THEN matched ELSE excludeDeletedKeys(matched)

DefaultPerPage == 100
normalizePerPage(n) == IF n <= 0 THEN DefaultPerPage ELSE n
normalizePage(n) == IF n <= 0 THEN 1 ELSE n

\* Counts pages from zero.
ListPageFromZero(all, page, perPage) ==
    LET per == normalizePerPage(perPage)
        offset == page * per
    IN  IF offset >= Len(all) THEN <<>> ELSE SubSeq(all, offset + 1, offset + per)

ListPage(all, page, perPage) ==
    LET per == normalizePerPage(perPage)
        offset == (normalizePage(page) - 1) * per
        end == IF offset + per > Len(all) THEN Len(all) ELSE offset + per
    IN  IF offset >= Len(all) THEN <<>> ELSE SubSeq(all, offset + 1, end)

GetSystemArtifactByKey(k) ==
    OrderBy(SelectSeq(events, LAMBDA e : e.key = k), "occurred_at", FALSE)

-----------------------------------------------------------------------------
(* Requests                                                                 *)

Fresh == [pc |-> "new", code |-> 0, op |-> Blank, path |-> Blank, at |-> 0,
          row |-> NoRow, ino |-> 0, todo |-> {}, got |-> {}, quiet |-> FALSE, half |-> Blank]

Init ==
    /\ cfg \in Scenarios
    /\ events = <<>>
    /\ rows = [k \in Keys |-> NoRow]
    /\ files = <<>>
    /\ inodes = <<>>
    /\ req = [r \in Reqs |-> Fresh]
    /\ now = 1
    /\ overlap = {}

Tick == now < MaxTime /\ now' = now + 1 /\ UNCHANGED <<cfg, events, rows, files, inodes, req, overlap>>

At(r, pc) == r \in Reqs /\ req[r].pc = pc
Is(r, kinds) == In(r).kind \in kinds
Set(r, new) == req' = [req EXCEPT ![r] = new]
Reply(r, code) == Set(r, [req[r] EXCEPT !.pc = "done", !.code = code])
Clocked == UNCHANGED <<cfg, now>>

-----------------------------------------------------------------------------
(* System artifacts                                                         *)

validateSystemKey(raw) == IF raw \in Keys THEN raw ELSE Aliases[raw]

\* A slot is what a write changes: the history of a system key, or the row and file of a user key.
SystemWrites == {"sysPut", "sysDelete", "sysAppend"}
UserWrites == {"userPut", "mcpPut", "userDelete"}
InFlight(r) == req[r].pc \notin {"new", "done"}
Slot(r) == IF Is(r, SystemWrites) THEN <<"system", validateSystemKey(In(r).key)>> ELSE <<"user", In(r).key>>
WritersOf(slot) == {r \in Reqs : Is(r, SystemWrites \cup UserWrites) /\ Slot(r) = slot /\ InFlight(r)}
WriterOn(k) == WritersOf(<<"user", k>>)
Note(r) == overlap' = IF WritersOf(Slot(r)) = {} THEN overlap ELSE overlap \cup {Slot(r)}

\* The path of an artifact: as given, or the key in the work dir of the session.
resolveActualPath(sess, key, path) ==
    CASE path = Blank /\ sess \in cfg.workdirs -> <<"wd", sess, key>>
      [] path = Blank /\ sess \notin cfg.workdirs -> <<>>
      [] path # Blank /\ sess \in cfg.workdirs -> <<"wd", sess, path>>
      [] OTHER -> <<"cwd", path>>

artifactPathExists(p) == p \in cfg.paths

latestOperation(evs) == IF evs = <<>> THEN Blank ELSE evs[Len(evs)].op

\* The request has no session, a key that is none, or a path that is not there.
BadWrite(r) == In(r).sess = Blank \/ validateSystemKey(In(r).key) = "invalid"
PathOf(r) == resolveActualPath(In(r).sess, validateSystemKey(In(r).key), In(r).path)
BadPath(r) == PathOf(r) = <<>> \/ ~artifactPathExists(PathOf(r))

parseOccurredAt(r) == IF In(r).at = 0 THEN now ELSE In(r).at

\* What the handler has decided; the event is still to be saved.
Decide(r, op, path) ==
    Set(r, [req[r] EXCEPT !.pc = "save", !.op = op, !.path = path, !.at = parseOccurredAt(r)])

Live(evs) == latestOperation(evs) \notin {Blank, "delete"}

handlePutByKey(r) ==
    /\ At(r, "new") /\ Is(r, {"sysPut"})
    /\ LET evs == GetSystemArtifactByKey(validateSystemKey(In(r).key))
       IN  IF BadWrite(r) \/ BadPath(r) THEN Reply(r, 400)
           ELSE Decide(r, IF Live(evs) THEN "update" ELSE "create", PathOf(r))
    /\ Note(r)
    /\ Clocked /\ UNCHANGED <<system, user>>

handleDeleteByKey(r) ==
    /\ At(r, "new") /\ Is(r, {"sysDelete"})
    /\ LET evs == GetSystemArtifactByKey(validateSystemKey(In(r).key))
       IN  CASE BadWrite(r) -> Reply(r, 400)
             [] ~BadWrite(r) /\ ~Live(evs) -> Reply(r, 404)
             [] OTHER -> Decide(r, "delete", IF In(r).path # Blank THEN PathOf(r) ELSE evs[Len(evs)].path)
    /\ Note(r)
    /\ Clocked /\ UNCHANGED <<system, user>>

\* An event as the client states it; its operation is not compared with the history.
handleAppendEvent(r) ==
    /\ At(r, "new") /\ Is(r, {"sysAppend"})
    /\ LET evs == GetSystemArtifactByKey(validateSystemKey(In(r).key))
           known == IF evs = <<>> THEN <<>> ELSE evs[Len(evs)].path
       IN  CASE BadWrite(r) \/ In(r).op \notin Ops -> Reply(r, 400)
             [] ~BadWrite(r) /\ In(r).op \in {"create", "update"} ->
                    IF BadPath(r) THEN Reply(r, 400) ELSE Decide(r, In(r).op, PathOf(r))
             [] OTHER -> Decide(r, In(r).op, IF In(r).path # Blank THEN PathOf(r) ELSE known)
    /\ Note(r)
    /\ Clocked /\ UNCHANGED <<system, user>>

NewEvent(r) ==
    [id |-> Len(events) + 1, key |-> validateSystemKey(In(r).key), op |-> req[r].op, at |-> req[r].at,
     sess |-> In(r).sess, path |-> req[r].path, req |-> r]

SaveSystemArtifactEvent(r) ==
    /\ At(r, "save") /\ Is(r, SystemWrites)
    /\ \/ /\ events' = Append(events, NewEvent(r))
          /\ Reply(r, IF req[r].op = "create" \/ Is(r, {"sysAppend"}) THEN 201 ELSE 200)
       \/ cfg.dbFails /\ Reply(r, 500) /\ UNCHANGED events
    /\ Clocked /\ UNCHANGED <<user, overlap>>

\* The zip of the keys that are named and of those the glob matches: key and path of each
\* file that is there.  Later events overwrite the path of their key.
ArchivePaths(named, glob) ==
    LET Newest(evs, k) == LET mine == SelectSeq(evs, LAMBDA e : e.key = k) IN mine[Len(mine)].path
        direct == {<<k, GetSystemArtifactByKey(k)[Len(GetSystemArtifactByKey(k))].path>> :
                      k \in {k \in named : GetSystemArtifactByKey(k) # <<>>}}
        listed == filterSystemArtifacts(events, [sessions |-> {}, op |-> Blank, since |-> 0, until |-> 0,
                      q |-> glob, deleted |-> FALSE, sort |-> "occurred_at", desc |-> FALSE])
        matched == {<<e.key, Newest(listed, e.key)>> : e \in Range(listed)}
    IN  matched \cup {d \in direct : \A m \in matched : m[1] # d[1]}

handleArchive(named, glob) ==
    {kp \in ArchivePaths(named, glob) : kp[2] # <<>> /\ artifactPathExists(kp[2])}

-----------------------------------------------------------------------------
(* User artifacts                                                           *)

\* ids are never reused for another key: uuid.NewString, or the clock in nanoseconds.
NewId == Len(files) + 1

\* Overwrites the old file in place.
BeginPutInPlace(r) ==
    LET old == rows[In(r).key]
    IN  /\ files' = IF old = NoRow THEN Append(files, 0) ELSE files
        /\ Set(r, [req[r] EXCEPT !.pc = "create", !.row = IF old = NoRow THEN [NoRow EXCEPT !.id = NewId] ELSE old])
        /\ Note(r)
        /\ Clocked /\ UNCHANGED <<system, rows, inodes>>

\* The row is read first; an artifact that exists keeps its id.
BeginPut(r) ==
    LET old == rows[In(r).key]
    IN  /\ IF old = NoRow
           THEN /\ files' = Append(files, 0)
                /\ Set(r, [req[r] EXCEPT !.pc = "create", !.row = [NoRow EXCEPT !.id = NewId]])
           ELSE /\ UNCHANGED files
                /\ Set(r, [req[r] EXCEPT !.pc = "unlink", !.row = old])
        /\ Note(r)
        /\ Clocked /\ UNCHANGED <<system, rows, inodes>>

handlePut(r) == At(r, "new") /\ Is(r, {"userPut"}) /\ BeginPut(r)

\* The MCP tool may be switched off.
handlePutUserArtifact(r) ==
    /\ At(r, "new") /\ Is(r, {"mcpPut"})
    /\ IF cfg.putDisabled THEN Reply(r, 400) /\ Clocked /\ UNCHANGED <<system, user, overlap>> ELSE BeginPut(r)

\* storage.Delete; a reader that has the file open keeps its inode.
StorageDelete(r) ==
    /\ At(r, "unlink") /\ Is(r, UserWrites)
    /\ files' = [files EXCEPT ![req[r].row.id] = 0]
    /\ Set(r, [req[r] EXCEPT !.pc = IF Is(r, {"userDelete"}) THEN "deleteRow" ELSE "create"])
    /\ Clocked /\ UNCHANGED <<system, rows, inodes, overlap>>

\* os.Create: an empty file, by truncating the one that is there.
StorageCreate(r) ==
    /\ At(r, "create")
    /\ LET i == files[req[r].row.id]
           new == Len(inodes) + 1
       IN  IF i # 0
           THEN inodes' = [inodes EXCEPT ![i] = <<Blank, Blank>>] /\ UNCHANGED files
                /\ Set(r, [req[r] EXCEPT !.pc = "head", !.ino = i])
           ELSE inodes' = Append(inodes, <<Blank, Blank>>) /\ files' = [files EXCEPT ![req[r].row.id] = new]
                /\ Set(r, [req[r] EXCEPT !.pc = "head", !.ino = new])
    /\ Clocked /\ UNCHANGED <<system, rows, overlap>>

\* The peeked head and then the rest of the body, each at its place in the file.  The body
\* may break off; what was written stays.
StorageWrite(r, pc, half, next) ==
    /\ At(r, pc)
    /\ \/ inodes' = [inodes EXCEPT ![req[r].ino][half] = In(r).body]
          /\ Set(r, [req[r] EXCEPT !.pc = next])
       \/ cfg.bodyFails /\ Reply(r, 500) /\ UNCHANGED inodes
    /\ Clocked /\ UNCHANGED <<system, rows, files, overlap>>

\* The row replaces the one of its key; created_at is that of the row that was read first.
CreatedAt(r) == IF req[r].row.created = 0 THEN now ELSE req[r].row.created

SaveUserArtifact(r) ==
    /\ At(r, "saveRow")
    /\ \/ /\ rows' = [rows EXCEPT ![In(r).key] = [id |-> req[r].row.id, sha |-> In(r).body, created |-> CreatedAt(r)]]
          /\ Reply(r, IF req[r].row.created = 0 THEN 201 ELSE 200)
       \/ cfg.dbFails /\ Reply(r, 500) /\ UNCHANGED rows
    /\ Clocked /\ UNCHANGED <<system, files, inodes, overlap>>

handleDelete(r) ==
    /\ At(r, "new") /\ Is(r, {"userDelete"})
    /\ IF rows[In(r).key] = NoRow THEN Reply(r, 404) /\ UNCHANGED overlap
       ELSE Set(r, [req[r] EXCEPT !.pc = "unlink", !.row = rows[In(r).key]]) /\ Note(r)
    /\ Clocked /\ UNCHANGED <<system, user>>

DeleteUserArtifact(r) ==
    /\ At(r, "deleteRow")
    /\ \/ rows' = [rows EXCEPT ![In(r).key] = NoRow] /\ Reply(r, 204)
       \/ cfg.dbFails /\ Reply(r, 500) /\ UNCHANGED rows
    /\ Clocked /\ UNCHANGED <<system, files, inodes, overlap>>

\* A download reads one row, an archive those of the keys it names.
handleUserContent(r) ==
    /\ At(r, "new") /\ Is(r, {"userGet"})
    /\ IF rows[In(r).key] = NoRow THEN Reply(r, 404)
       ELSE Set(r, [req[r] EXCEPT !.pc = "open", !.todo = {<<In(r).key, rows[In(r).key].id>>}])
    /\ Clocked /\ UNCHANGED <<system, user, overlap>>

handleUserArchive(r) ==
    /\ At(r, "new") /\ Is(r, {"userArchive"})
    /\ Set(r, [req[r] EXCEPT !.pc = "open", !.todo = {<<k, rows[k].id>> : k \in {k \in Keys : rows[k] # NoRow}}])
    /\ Clocked /\ UNCHANGED <<system, user, overlap>>

\* The next file is opened; a download answers 404 when it is gone, an archive skips it.
StorageRead(r) ==
    /\ At(r, "open") /\ req[r].todo # {}
    /\ \E kid \in req[r].todo :
        LET i == files[kid[2]]
            left == req[r].todo \ {kid}
        IN  CASE i # 0 -> Set(r, [req[r] EXCEPT !.pc = "read", !.ino = i, !.todo = left, !.path = kid[1],
                                                !.quiet = WriterOn(kid[1]) = {}])
              [] i = 0 /\ Is(r, {"userGet"}) -> Reply(r, 404)
              [] OTHER -> Set(r, [req[r] EXCEPT !.todo = left])
    /\ Clocked /\ UNCHANGED <<system, user, overlap>>

\* io.Copy, in two pieces.
CopyHead(r) ==
    /\ At(r, "read")
    /\ Set(r, [req[r] EXCEPT !.pc = "readRest", !.half = inodes[req[r].ino][1]])
    /\ Clocked /\ UNCHANGED <<system, user, overlap>>

CopyRest(r) ==
    /\ At(r, "readRest")
    /\ Set(r, [req[r] EXCEPT !.pc = "open",
                  !.got = @ \cup {[key |-> req[r].path, quiet |-> req[r].quiet,
                                   content |-> <<req[r].half, inodes[req[r].ino][2]>>]}])
    /\ Clocked /\ UNCHANGED <<system, user, overlap>>

ReadEnds(r) ==
    /\ At(r, "open") /\ req[r].todo = {}
    /\ Reply(r, 200)
    /\ Clocked /\ UNCHANGED <<system, user, overlap>>

Finished == (\A r \in Reqs : req[r].pc = "done") /\ UNCHANGED vars

Next ==
    \/ Tick
    \/ \E r \in Reqs :
        \/ handlePutByKey(r) \/ handleDeleteByKey(r) \/ handleAppendEvent(r) \/ SaveSystemArtifactEvent(r)
        \/ handlePut(r) \/ handlePutUserArtifact(r) \/ StorageDelete(r) \/ StorageCreate(r)
        \/ StorageWrite(r, "head", 1, "rest") \/ StorageWrite(r, "rest", 2, "saveRow") \/ SaveUserArtifact(r)
        \/ handleDelete(r) \/ DeleteUserArtifact(r)
        \/ handleUserContent(r) \/ handleUserArchive(r) \/ StorageRead(r) \/ CopyHead(r) \/ CopyRest(r) \/ ReadEnds(r)
    \/ Finished

Spec == Init /\ [][Next]_vars

-----------------------------------------------------------------------------
(* Properties                                                               *)

TypeOK ==
    /\ now \in 1..MaxTime /\ overlap \subseteq {"system", "user"} \X (Keys \cup {"invalid"})
    /\ \A k \in Keys : rows[k] = NoRow \/ rows[k].id \in DOMAIN files
    /\ \A i \in DOMAIN files : files[i] \in 0..Len(inodes)
    /\ \A i \in DOMAIN events : events[i].key \in Keys /\ events[i].op \in Ops /\ events[i].id = i
    /\ \A r \in Reqs : req[r].code \in {0, 200, 201, 204, 400, 404, 500}

\* The pages of a listing, taken one after the other until one is empty, are the listing:
\* no event is skipped at a page boundary and none is shown twice.
PagesPartition ==
    \A f \in Filters, per \in 0..2 :
        LET all == filterSystemArtifacts(events, f)
        IN  /\ FlattenSeq([p \in 1..(Len(all) + 1) |-> ListPage(all, p, per)]) = all
            /\ ListPage(all, 0, per) = ListPage(all, 1, per)

\* A listing without restrictions hides a key exactly when its latest event is a deletion,
\* however the listing is sorted.
Newest(k, i) == /\ events[i].key = k
                /\ \A j \in DOMAIN events : j # i /\ events[j].key = k => events[j].at < events[i].at
DeletedHidden ==
    \A f \in {f \in Filters : f.sessions = {} /\ f.op = Blank /\ f.since = 0 /\ f.until = 0 /\ ~f.deleted},
       i \in DOMAIN events :
        Newest(events[i].key, i) /\ events[i].key \in f.q =>
            ((events[i].op = "delete") <=>
                (\A j \in DOMAIN filterSystemArtifacts(events, f) :
                    filterSystemArtifacts(events, f)[j].key # events[i].key))

\* An archive by glob serves each live key whose file is there, from its newest event, and
\* no deleted one, as long as the texts of the times of the key are in the order of the times.
TextInOrder(k) ==
    \A i, j \in DOMAIN events :
        events[i].key = k /\ events[j].key = k /\ events[i].at < events[j].at
            => TextRank(events[i].at) < TextRank(events[j].at)
ArchiveNewest ==
    \A i \in DOMAIN events :
        LET k == events[i].key
        IN  Newest(k, i) /\ TextInOrder(k) =>
                {kp \in handleArchive({}, Keys) : kp[1] = k} =
                    IF events[i].op # "delete" /\ artifactPathExists(events[i].path) THEN {<<k, events[i].path>>} ELSE {}

\* A system write that is acknowledged has its event in the log, once; one that is refused
\* or fails has none.
AckedRecorded ==
    \A r \in Reqs : Is(r, SystemWrites) /\ req[r].pc = "done" =>
        Cardinality({i \in DOMAIN events : events[i].req = r}) = IF req[r].code \in {200, 201} THEN 1 ELSE 0

\* Of a key that was written one request after the other, in text order of the times, PUT and
\* DELETE continue the history: created when not live, updated or deleted only when live.
Alone(k) ==
    /\ <<"system", k>> \notin overlap
    /\ \A i, j \in DOMAIN events : i < j /\ events[i].key = k /\ events[j].key = k =>
        TextRank(events[i].at) < TextRank(events[j].at)
HistoryAlternates ==
    \A k \in Keys : Alone(k) =>
        \A j \in DOMAIN events : events[j].key = k =>
            LET before == {i \in 1..(j - 1) : events[i].key = k}
                live == before # {} /\ \E i \in before : events[i].op # "delete" /\ \A l \in before : l <= i
            IN  Is(events[j].req, {"sysPut", "sysDelete"}) => (events[j].op = "create") = ~live

\* Without failures, a user key that never had two writers at once and has none now is a row
\* with its file, whole and of the recorded hash, or neither: no file is left behind.
Settled(k) == <<"user", k>> \notin overlap /\ WriterOn(k) = {} /\ ~cfg.dbFails /\ ~cfg.bodyFails
Owned(k) == {req[r].row.id : r \in {r \in Reqs : Is(r, {"userPut", "mcpPut"}) /\ In(r).key = k}} \ {0}
CleanStorage ==
    \A k \in Keys : Settled(k) =>
        /\ rows[k] # NoRow => files[rows[k].id] # 0 /\ inodes[files[rows[k].id]] = <<rows[k].sha, rows[k].sha>>
        /\ \A i \in Owned(k) : i # rows[k].id => files[i] = 0

\* A download of a key that has no two writers at once, opened while none was at work, is one
\* whole body, although a PUT of the same id may start and finish while it is copied.
ReadWhole ==
    \A r \in Reqs : \A g \in req[r].got :
        g.quiet /\ <<"user", g.key>> \notin overlap /\ ~cfg.bodyFails =>
            g.content[1] = g.content[2] /\ g.content[1] # Blank

\* Whatever overlaps or fails, a key serves only bytes that were put to it.
OwnContent ==
    \A r \in Reqs : \A g \in req[r].got : \A h \in 1..2 :
        g.content[h] # Blank =>
            \E w \in Reqs : Is(w, {"userPut", "mcpPut"}) /\ In(w).key = g.key /\ In(w).body = g.content[h]

\* The record is exact: pages part a listing, deleted keys are hidden, an archive holds the
\* newest version of a path, and what was acknowledged is in the history of its key, whose
\* creations and deletions alternate (store.go, system.go).
HistoryExact ==
    TypeOK /\ PagesPartition /\ DeletedHidden /\ ArchiveNewest /\ AckedRecorded /\ HistoryAlternates

\* Rows and files stay together: no orphan is left by requests that did not meet, a download is
\* whole, and it is the file that was asked for (user.go, storage.go).
StorageSound == CleanStorage /\ ReadWhole /\ OwnContent
=============================================================================
