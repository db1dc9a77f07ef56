-------------------------- MODULE ArtifactApiProofs --------------------------
(***************************************************************************)
(* Proofs about ArtifactApi: rows and files of the user artifacts stay     *)
(* together, for any requests, keys and bodies.                            *)
(*                                                                         *)
(* The storage directory is files (artifact id |-> inode) and inodes (what *)
(* was written), and nothing in them says whose they are.  The inductive   *)
(* invariant IInv therefore speaks of owners: own gives every artifact id  *)
(* its key and iown every inode; they exist, are extended when an id or an *)
(* inode is made, and never change.  All that a request holds (the row it  *)
(* read, the file it has open, what it copied) is of its key.  On top of   *)
(* that, for a key whose writers never met, Progress says what its one     *)
(* writer has done so far, KeyFiles that every other file of the key is    *)
(* whole, and KeyRows, without failures, that the row and the file belong  *)
(* together.                                                               *)
(*                                                                         *)
(* The steps of Next are first turned into facts (Stepping: Idles, Begins, *)
(* Takes, Unlinks, ...), one per thing that a step does to the storage;    *)
(* the invariant is shown from those.                                      *)
(***************************************************************************)
EXTENDS ArtifactApi, SequenceTheorems, FiniteSetTheorems, TLAPS

-----------------------------------------------------------------------------
(* Types: what a request has by where it is.                               *)

Puts == {"userPut", "mcpPut"}
Readers == {"userGet", "userArchive"}

(* The record of a request has all its fields. *)
Shaped(q) ==
    q = [pc |-> q.pc, code |-> q.code, op |-> q.op, path |-> q.path, at |-> q.at, row |-> q.row,
         ino |-> q.ino, todo |-> q.todo, got |-> q.got, quiet |-> q.quiet, half |-> q.half]

(* Where a request may be, by its kind. *)
Placed(r) ==
    /\ req[r].pc \in {"new", "save", "unlink", "create", "head", "rest", "saveRow", "deleteRow",
                      "open", "read", "readRest", "done"}
    /\ req[r].pc = "save" => Is(r, SystemWrites)
    /\ req[r].pc = "unlink" => Is(r, UserWrites)
    /\ req[r].pc \in {"create", "head", "rest", "saveRow"} => Is(r, Puts)
    /\ req[r].pc = "deleteRow" => Is(r, {"userDelete"})
    /\ req[r].pc \in {"open", "read", "readRest"} => Is(r, Readers)
    /\ Is(r, UserWrites) /\ InFlight(r) => req[r].row.id # 0
    /\ req[r].quiet \in BOOLEAN

(* The bytes of a half of a file. *)
Bytes == {Blank} \cup {In(r).body : r \in Reqs}

UserTypes ==
    /\ rows = [k \in Keys |-> rows[k]]
    /\ \A k \in Keys : rows[k] # NoRow => rows[k].id # 0
    /\ files \in Seq(Nat)
    /\ inodes \in Seq(Bytes \X Bytes)
    /\ req = [r \in Reqs |-> req[r]]
    /\ \A r \in Reqs : Shaped(req[r]) /\ Placed(r)
    /\ cfg \in Scenarios

-----------------------------------------------------------------------------
(* Who owns what: own gives the key of each artifact id, iown that of each *)
(* file that was ever created.                                             *)

(* A body that was put to a key. *)
PutTo(k, b) == \E w \in Reqs : Is(w, Puts) /\ In(w).key = k /\ In(w).body = b

Owners(own, iown) ==
    /\ own \in [1..Len(files) -> Keys]
    /\ iown \in [1..Len(inodes) -> Keys]
    /\ \A k \in Keys : rows[k] # NoRow => rows[k].id \in 1..Len(files) /\ own[rows[k].id] = k
    /\ \A d \in 1..Len(files) : files[d] # 0 => files[d] \in 1..Len(inodes) /\ iown[files[d]] = own[d]
    /\ \A i \in 1..Len(inodes) : \A h \in 1..2 : inodes[i][h] # Blank => PutTo(iown[i], inodes[i][h])

(* What a request holds is of its key. *)
Holds(own, iown, r) ==
    /\ Is(r, UserWrites) /\ req[r].row.id # 0 => req[r].row.id \in 1..Len(files) /\ own[req[r].row.id] = In(r).key
    /\ \A kid \in req[r].todo : kid[2] \in 1..Len(files) /\ own[kid[2]] = kid[1] 
    /\ req[r].pc \in {"head", "rest", "saveRow"} => req[r].ino \in 1..Len(inodes) /\ iown[req[r].ino] = In(r).key
    /\ req[r].pc \in {"read", "readRest"} => req[r].ino \in 1..Len(inodes) /\ iown[req[r].ino] = req[r].path
    /\ req[r].pc = "readRest" /\ req[r].half # Blank => PutTo(req[r].path, req[r].half)
    /\ \A g \in req[r].got : \A h \in 1..2 : g.content[h] # Blank => PutTo(g.key, g.content[h])

OwnersOf(own, iown) == Owners(own, iown) /\ \A q \in Reqs : Holds(own, iown, q)

(* Every file has one name. *)
OneName == \A d, e \in 1..Len(files) : files[d] = files[e] /\ files[d] # 0 => d = e

-----------------------------------------------------------------------------
(* A key whose writers never met.                                          *)

(* w is a writer of k at work. *)
Works(w, k) == w \in Reqs /\ Is(w, UserWrites) /\ In(w).key = k /\ InFlight(w)
Apart(k) == <<"user", k>> \notin overlap
WholeFile(i) == inodes[i][1] = inodes[i][2] /\ inodes[i][1] # Blank

OneWriter == \A k \in Keys : Apart(k) => \A v, w \in Reqs : Works(v, k) /\ Works(w, k) => v = w

(* What the writer of a key has done to its file. *)
Progress(w) ==
    LET q == req[w]
    IN  /\ q.pc = "create" => files[q.row.id] = 0
        /\ q.pc = "deleteRow" => files[q.row.id] = 0
        /\ q.pc \in {"head", "rest", "saveRow"} => files[q.row.id] = q.ino
        /\ q.pc = "head" => inodes[q.ino] = <<Blank, Blank>>
        /\ q.pc = "rest" => inodes[q.ino] = <<In(w).body, Blank>>
        /\ q.pc = "saveRow" => inodes[q.ino] = <<In(w).body, In(w).body>>

(* A file of the key that nobody is writing is whole. *)
KeyFiles(own, k) ==
    /\ \A w \in Reqs : Works(w, k) => Progress(w)
    /\ \A d \in 1..Len(files) : own[d] = k /\ files[d] # 0 =>
           WholeFile(files[d]) \/ \E w \in Reqs : Works(w, k) /\ req[w].pc \in {"head", "rest"} /\ req[w].row.id = d

FilesWhole(own) == ~cfg.bodyFails => \A k \in Keys : Apart(k) => KeyFiles(own, k)

(* A reader that came while nobody was at work has a whole file, which is  *)
(* not written any more.                                                   *)
QuietReads ==
    ~cfg.bodyFails => \A r \in Reqs : req[r].pc \in {"read", "readRest"} /\ req[r].quiet /\ Apart(req[r].path) =>
        /\ WholeFile(req[r].ino)
        /\ req[r].pc = "readRest" => req[r].half = inodes[req[r].ino][1]
        /\ \A w \in Reqs : req[w].pc \in {"head", "rest"} => req[w].ino # req[r].ino

(* Without failures a key has its row and the file of the row, or a writer *)
(* of that row.                                                            *)
KeyRows(own, k) ==
    /\ \A w \in Reqs : Works(w, k) /\ rows[k] # NoRow => rows[k].id = req[w].row.id
    /\ \A d \in 1..Len(files) : own[d] = k /\ files[d] # 0 =>
           (rows[k] # NoRow /\ d = rows[k].id) \/ \E w \in Reqs : Works(w, k) /\ req[w].row.id = d
    /\ rows[k] # NoRow /\ (\A w \in Reqs : ~Works(w, k)) =>
           files[rows[k].id] # 0 /\ inodes[files[rows[k].id]] = <<rows[k].sha, rows[k].sha>>

RowsAndFiles(own) == ~cfg.bodyFails /\ ~cfg.dbFails => \A k \in Keys : Apart(k) => KeyRows(own, k)

(* For some owners all of this holds of the rows and files. *)
StorageInv(own, iown) == OwnersOf(own, iown) /\ FilesWhole(own) /\ RowsAndFiles(own)

(* The inductive invariant. *)
IInv ==
    /\ UserTypes /\ OneName /\ OneWriter /\ QuietReads /\ ReadWhole
    /\ \E own \in [1..Len(files) -> Keys], iown \in [1..Len(inodes) -> Keys] : StorageInv(own, iown)

(* A step of one request changes nothing of another. *)
Only(r) ==
    /\ r \in Reqs /\ cfg' = cfg /\ overlap \subseteq overlap'
    /\ req' = [q \in Reqs |-> req'[q]]
    /\ \A q \in Reqs \ {r} : req'[q] = req[q]
    /\ Shaped(req'[r])

(* A request whose record is replaced is the only one that changes. *)
LEMMA SetOnly ==
    ASSUME UserTypes, NEW r \in Reqs, NEW n, Set(r, n), Shaped(n), cfg' = cfg, overlap \subseteq overlap'
    PROVE  Only(r) /\ req'[r] = n
<1>1. req = [q \in Reqs |-> req[q]]
  BY DEF UserTypes
<1>2. req' = [req EXCEPT ![r] = n]
  BY DEF Set
<1> QED
  BY <1>1, <1>2 DEF Only

(* The writers of a user key are the ones at work on it. *)
LEMMA WritersAre == ASSUME NEW k PROVE WriterOn(k) = {w \in Reqs : Works(w, k)}
BY DEF WriterOn, WritersOf, Works, Is, Slot, SystemWrites, UserWrites

(* After Note, a key that is not marked had no other writer. *)
LEMMA Noted ==
    ASSUME NEW r \in Reqs, Is(r, UserWrites), Note(r)
    PROVE  /\ overlap \subseteq overlap'
           /\ Apart(In(r).key)' /\ cfg' = cfg => \A v \in Reqs : ~Works(v, In(r).key)
<1>1. Slot(r) = <<"user", In(r).key>>
  BY DEF Slot, Is, UserWrites, SystemWrites
<1>2. WritersOf(Slot(r)) = {w \in Reqs : Works(w, In(r).key)}
  BY <1>1, WritersAre DEF WriterOn
<1>3. PICK k : k = In(r).key
  OBVIOUS
<1>4. overlap' = IF WritersOf(Slot(r)) = {} THEN overlap ELSE overlap \cup {<<"user", k>>}
  BY <1>1, <1>3 DEF Note
<1>5. ASSUME Apart(In(r).key)', cfg' = cfg PROVE \A v \in Reqs : ~Works(v, In(r).key)
  <2>1. <<"user", k>> \notin overlap'
    BY <1>3, <1>5 DEF Apart, In
  <2> QED
    BY <2>1, <1>4, <1>2
<1> QED
  BY <1>4, <1>5

(* Note only adds marks. *)
LEMMA NotedAny == ASSUME NEW r, Note(r) PROVE overlap \subseteq overlap'
BY DEF Note

(* What the scenario says of a request: its key, and a body that is not    *)
(* empty.                                                                  *)
LEMMA Given ==
    ASSUME UserTypes, NEW r \in Reqs
    PROVE  /\ Is(r, UserWrites \cup {"userGet"}) => In(r).key \in Keys
           /\ Is(r, Puts) => In(r).body # Blank /\ Is(r, UserWrites)
           /\ In(r).body \in Bytes
BY ScenariosAssumption DEF UserTypes, Is, In, Reqs, UserWrites, Puts, Blank, Bytes

-----------------------------------------------------------------------------
(* What each step does to the user artifacts, as facts.                    *)

Kept(r) ==
    /\ req'[r].path = req[r].path /\ req'[r].ino = req[r].ino /\ req'[r].todo = req[r].todo
    /\ req'[r].got = req[r].got /\ req'[r].quiet = req[r].quiet /\ req'[r].half = req[r].half

(* Nobody else is at work on the key, or the key is marked. *)
Free(r) == <<"user", In(r).key>> \notin overlap' => \A v \in Reqs : ~Works(v, In(r).key)

Stays == UNCHANGED <<cfg, rows, files, inodes, req, overlap>>

Idles(r) ==
    /\ Only(r) /\ UNCHANGED user
    /\ req[r].pc \in {"new", "save"} /\ req'[r].pc \in {"save", "done"} /\ req'[r].row = req[r].row
    /\ req'[r].todo = req[r].todo /\ req'[r].got = req[r].got /\ req'[r].quiet = req[r].quiet
    /\ req'[r].pc = "save" => Is(r, SystemWrites)
    /\ Is(r, UserWrites) => req[r].pc = "new" /\ req'[r].pc = "done"

Begins(r) ==
    /\ Only(r) /\ Kept(r) /\ Is(r, Puts) /\ req[r].pc = "new" /\ req'[r].pc = "create"
    /\ rows[In(r).key] = NoRow /\ rows' = rows /\ inodes' = inodes
    /\ files' = Append(files, 0) /\ req'[r].row.id = Len(files) + 1 /\ Free(r)

Takes(r) ==
    /\ Only(r) /\ Kept(r) /\ Is(r, UserWrites) /\ req[r].pc = "new" /\ req'[r].pc = "unlink"
    /\ rows[In(r).key] # NoRow /\ req'[r].row = rows[In(r).key] /\ UNCHANGED user /\ Free(r)

(* A writer goes on with its artifact. *)
GoesOn(r, pc, next) ==
    /\ Only(r) /\ req[r].pc = pc /\ req'[r].pc = next /\ req'[r].row = req[r].row
    /\ req'[r].path = req[r].path /\ req'[r].todo = req[r].todo
    /\ req'[r].got = req[r].got /\ req'[r].quiet = req[r].quiet /\ req'[r].half = req[r].half

Unlinks(r) ==
    /\ GoesOn(r, "unlink", IF Is(r, {"userDelete"}) THEN "deleteRow" ELSE "create") /\ req'[r].ino = req[r].ino
    /\ Is(r, UserWrites)
    /\ files' = [files EXCEPT ![req[r].row.id] = 0] /\ UNCHANGED <<rows, inodes>>

Truncates(r) ==
    /\ GoesOn(r, "create", "head") /\ files[req[r].row.id] # 0 /\ req'[r].ino = files[req[r].row.id]
    /\ inodes' = [inodes EXCEPT ![files[req[r].row.id]] = <<Blank, Blank>>] /\ UNCHANGED <<rows, files>>

Makes(r) ==
    /\ GoesOn(r, "create", "head") /\ files[req[r].row.id] = 0 /\ req'[r].ino = Len(inodes) + 1
    /\ inodes' = Append(inodes, <<Blank, Blank>>)
    /\ files' = [files EXCEPT ![req[r].row.id] = Len(inodes) + 1] /\ rows' = rows

Writes(r, pc, half, next) ==
    /\ GoesOn(r, pc, next) /\ req'[r].ino = req[r].ino
    /\ inodes' = [inodes EXCEPT ![req[r].ino][half] = In(r).body] /\ UNCHANGED <<rows, files>>

Fails(r) ==
    /\ req[r].pc \in {"head", "rest", "saveRow", "deleteRow"} /\ GoesOn(r, req[r].pc, "done")
    /\ req'[r].ino = req[r].ino
    /\ req[r].pc \in {"head", "rest"} => cfg.bodyFails
    /\ req[r].pc \in {"saveRow", "deleteRow"} => cfg.dbFails
    /\ UNCHANGED user

Saves(r) ==
    /\ GoesOn(r, "saveRow", "done") /\ req'[r].ino = req[r].ino
    /\ rows' = [rows EXCEPT ![In(r).key] = [id |-> req[r].row.id, sha |-> In(r).body, created |-> CreatedAt(r)]]
    /\ UNCHANGED <<files, inodes>>

Drops(r) ==
    /\ GoesOn(r, "deleteRow", "done") /\ req'[r].ino = req[r].ino
    /\ rows' = [rows EXCEPT ![In(r).key] = NoRow] /\ UNCHANGED <<files, inodes>>

(* A step of a reader writes nothing. *)
Looks(r) == Only(r) /\ Is(r, Readers) /\ UNCHANGED user /\ req'[r].row = req[r].row

Lists(r) ==
    /\ Looks(r) /\ req[r].pc = "new" /\ req'[r].pc = "open" /\ req'[r].got = req[r].got /\ req'[r].quiet = req[r].quiet
    /\ \A kid \in req'[r].todo : \E k \in Keys : rows[k] # NoRow /\ kid = <<k, rows[k].id>>

Opens(r) ==
    /\ Looks(r) /\ req[r].pc = "open" /\ req'[r].pc = "read" /\ req'[r].got = req[r].got
    /\ \E kid \in req[r].todo :
        /\ files[kid[2]] # 0 /\ req'[r].ino = files[kid[2]] /\ req'[r].path = kid[1]
        /\ req'[r].quiet = (WriterOn(kid[1]) = {})
    /\ req'[r].todo \subseteq req[r].todo

Skips(r) ==
    /\ Looks(r) /\ req[r].pc \in {"new", "open"} /\ req'[r].pc \in {"open", "done"}
    /\ req'[r].got = req[r].got /\ req'[r].quiet = req[r].quiet /\ req'[r].todo \subseteq req[r].todo

CopiesHead(r) ==
    /\ Looks(r) /\ req[r].pc = "read" /\ req'[r].pc = "readRest" /\ req'[r].got = req[r].got
    /\ req'[r].path = req[r].path /\ req'[r].ino = req[r].ino /\ req'[r].todo = req[r].todo /\ req'[r].quiet = req[r].quiet
    /\ req'[r].half = inodes[req[r].ino][1]

CopiesRest(r) ==
    /\ Looks(r) /\ req[r].pc = "readRest" /\ req'[r].pc = "open" /\ req'[r].todo = req[r].todo /\ req'[r].quiet = req[r].quiet
    /\ req'[r].got = req[r].got \cup {[key |-> req[r].path, quiet |-> req[r].quiet,
                                        content |-> <<req[r].half, inodes[req[r].ino][2]>>]}

Reading(r) == Lists(r) \/ Opens(r) \/ Skips(r) \/ CopiesHead(r) \/ CopiesRest(r)

(* A request of the log of system artifacts. *)
LEMMA SystemStep ==
    ASSUME UserTypes, NEW r \in Reqs,
           handlePutByKey(r) \/ handleDeleteByKey(r) \/ handleAppendEvent(r) \/ SaveSystemArtifactEvent(r)
    PROVE  Idles(r)
<1>1. Shaped(req[r])
  BY DEF UserTypes
<1>2. cfg' = cfg /\ UNCHANGED user
  BY DEF handlePutByKey, handleDeleteByKey, handleAppendEvent, SaveSystemArtifactEvent, Clocked, user
<1>3. overlap \subseteq overlap'
  BY NotedAny DEF handlePutByKey, handleDeleteByKey, handleAppendEvent, SaveSystemArtifactEvent
<1>4. Is(r, SystemWrites) /\ ~Is(r, UserWrites) /\ req[r].pc \in {"new", "save"}
  BY DEF handlePutByKey, handleDeleteByKey, handleAppendEvent, SaveSystemArtifactEvent, Is, SystemWrites, UserWrites, At
<1>5. CASE \E c : Reply(r, c)
  <2>1. PICK c : Reply(r, c)
    BY <1>5
  <2>2. PICK n : n = [req[r] EXCEPT !.pc = "done", !.code = c]
    OBVIOUS
  <2>3. Set(r, n)
    BY <2>1, <2>2 DEF Reply
  <2>4. Shaped(n) /\ n.pc = "done" /\ n.row = req[r].row /\ n.todo = req[r].todo /\ n.got = req[r].got
        /\ n.quiet = req[r].quiet
    BY <1>1, <2>2 DEF Shaped
  <2>5. Only(r) /\ req'[r] = n
    BY <1>2, <1>3, <2>3, <2>4, SetOnly
  <2> QED
    BY <1>2, <1>4, <2>4, <2>5 DEF Idles
<1>6. CASE \E o, p : Decide(r, o, p)
  <2>1. PICK o, p : Decide(r, o, p)
    BY <1>6
  <2>2. PICK n : n = [req[r] EXCEPT !.pc = "save", !.op = o, !.path = p, !.at = parseOccurredAt(r)]
    OBVIOUS
  <2>3. Set(r, n)
    BY <2>1, <2>2 DEF Decide
  <2>4. Shaped(n) /\ n.pc = "save" /\ n.row = req[r].row /\ n.todo = req[r].todo /\ n.got = req[r].got
        /\ n.quiet = req[r].quiet
    BY <1>1, <2>2 DEF Shaped
  <2>5. Only(r) /\ req'[r] = n
    BY <1>2, <1>3, <2>3, <2>4, SetOnly
  <2> QED
    BY <1>2, <1>4, <2>4, <2>5 DEF Idles
<1>7. (\E c : Reply(r, c)) \/ (\E o, p : Decide(r, o, p))
  BY DEF handlePutByKey, handleDeleteByKey, handleAppendEvent, SaveSystemArtifactEvent
<1> QED
  BY <1>5, <1>6, <1>7

(* A reply, of a request that did nothing. *)
LEMMA Replies ==
    ASSUME UserTypes, NEW r \in Reqs, NEW c, Reply(r, c), cfg' = cfg, overlap \subseteq overlap'
    PROVE  Only(r) /\ Kept(r) /\ req'[r].pc = "done" /\ req'[r].row = req[r].row
<1>1. Shaped(req[r])
  BY DEF UserTypes
<1>2. PICK n : n = [req[r] EXCEPT !.pc = "done", !.code = c]
  OBVIOUS
<1>3. Set(r, n)
  BY <1>2 DEF Reply
<1>4. Shaped(n) /\ n.pc = "done" /\ n.path = req[r].path /\ n.row = req[r].row /\ n.ino = req[r].ino
      /\ n.todo = req[r].todo /\ n.got = req[r].got /\ n.quiet = req[r].quiet /\ n.half = req[r].half
  BY <1>1, <1>2 DEF Shaped
<1>5. Only(r) /\ req'[r] = n
  BY <1>3, <1>4, SetOnly
<1> QED
  BY <1>4, <1>5 DEF Kept

(* A PUT begins: with a new artifact, or with the one that is there. *)
LEMMA BeginStep ==
    ASSUME UserTypes, NEW r \in Reqs, req[r].pc = "new", Is(r, Puts), BeginPut(r)
    PROVE  Begins(r) \/ Takes(r)
<1>1. Shaped(req[r]) /\ Is(r, UserWrites)
  BY Given DEF UserTypes
<1>2. cfg' = cfg /\ rows' = rows /\ inodes' = inodes
  BY DEF BeginPut, Clocked
<1>3. overlap \subseteq overlap' /\ Free(r)
  <2>1. Note(r)
    BY DEF BeginPut
  <2> QED
    BY <1>1, <1>2, <2>1, Noted DEF Free, Apart, In
<1>4. PICK w : w = [NoRow EXCEPT !.id = NewId]
  OBVIOUS
<1>5. w.id = Len(files) + 1
  BY <1>4 DEF NoRow, NewId
<1>6. CASE rows[In(r).key] = NoRow
  <2>1. files' = Append(files, 0)
    BY <1>6 DEF BeginPut
  <2>2. PICK n : n = [req[r] EXCEPT !.pc = "create", !.row = w]
    OBVIOUS
  <2>3. Set(r, n)
    BY <1>6, <1>4, <2>2 DEF BeginPut
  <2>4. Shaped(n) /\ n.pc = "create" /\ n.path = req[r].path /\ n.row = w /\ n.ino = req[r].ino
        /\ n.todo = req[r].todo /\ n.got = req[r].got /\ n.quiet = req[r].quiet /\ n.half = req[r].half
    BY <1>1, <2>2 DEF Shaped
  <2>5. Only(r) /\ req'[r] = n
    BY <1>2, <1>3, <2>3, <2>4, SetOnly
  <2> QED
    BY <1>1, <1>2, <1>3, <1>5, <1>6, <2>1, <2>4, <2>5 DEF Begins, Kept
<1>7. CASE rows[In(r).key] # NoRow
  <2>1. files' = files
    BY <1>7 DEF BeginPut
  <2>2. PICK n : n = [req[r] EXCEPT !.pc = "unlink", !.row = rows[In(r).key]]
    OBVIOUS
  <2>3. Set(r, n)
    BY <1>7, <2>2 DEF BeginPut
  <2>4. Shaped(n) /\ n.pc = "unlink" /\ n.path = req[r].path /\ n.row = rows[In(r).key] /\ n.ino = req[r].ino
        /\ n.todo = req[r].todo /\ n.got = req[r].got /\ n.quiet = req[r].quiet /\ n.half = req[r].half
    BY <1>1, <2>2 DEF Shaped
  <2>5. Only(r) /\ req'[r] = n
    BY <1>2, <1>3, <2>3, <2>4, SetOnly
  <2> QED
    BY <1>1, <1>2, <1>3, <1>7, <2>1, <2>4, <2>5 DEF Takes, Kept, user
<1> QED
  BY <1>6, <1>7

(* A request goes on to another place; what else it changes is not of the  *)
(* writers.                                                                *)
LEMMA NextPc ==
    ASSUME UserTypes, NEW r \in Reqs, NEW p, NEW n, n = [req[r] EXCEPT !.pc = p],
           Set(r, n), cfg' = cfg, overlap' = overlap
    PROVE  Only(r) /\ Kept(r) /\ req'[r].pc = p /\ req'[r].row = req[r].row
<1>1. Shaped(req[r])
  BY DEF UserTypes
<1>2. Shaped(n) /\ n.pc = p /\ n.path = req[r].path /\ n.row = req[r].row /\ n.ino = req[r].ino
      /\ n.todo = req[r].todo /\ n.got = req[r].got /\ n.quiet = req[r].quiet /\ n.half = req[r].half
  BY <1>1 DEF Shaped
<1>3. Only(r) /\ req'[r] = n
  BY <1>2, SetOnly
<1> QED
  BY <1>2, <1>3 DEF Kept

(* PUT, also by the MCP tool, which may be switched off. *)
LEMMA PutStep ==
    ASSUME UserTypes, NEW r \in Reqs, handlePut(r) \/ handlePutUserArtifact(r)
    PROVE  Begins(r) \/ Takes(r) \/ Idles(r)
<1>1. req[r].pc = "new" /\ Is(r, Puts)
  BY DEF handlePut, handlePutUserArtifact, At, Is, Puts
<1>2. CASE BeginPut(r)
  BY <1>1, <1>2, BeginStep
<1>3. CASE Reply(r, 400) /\ Clocked /\ UNCHANGED <<system, user, overlap>>
  <2>1. Only(r) /\ Kept(r) /\ req'[r].pc = "done" /\ req'[r].row = req[r].row
    BY <1>3, Replies DEF Clocked
  <2> QED
    BY <1>1, <1>3, <2>1 DEF Idles, Kept, user
<1> QED
  BY <1>2, <1>3 DEF handlePut, handlePutUserArtifact

(* DELETE, of an artifact that is there or not. *)
LEMMA DeleteStep ==
    ASSUME UserTypes, NEW r \in Reqs, handleDelete(r)
    PROVE  Takes(r) \/ Idles(r)
<1>1. req[r].pc = "new" /\ Is(r, UserWrites) /\ Shaped(req[r])
  BY DEF handleDelete, At, Is, UserWrites, UserTypes
<1>2. cfg' = cfg /\ UNCHANGED user
  BY DEF handleDelete, Clocked
<1>3. CASE rows[In(r).key] = NoRow
  <2>1. Reply(r, 404) /\ overlap' = overlap
    BY <1>3 DEF handleDelete
  <2>2. Only(r) /\ Kept(r) /\ req'[r].pc = "done" /\ req'[r].row = req[r].row
    BY <1>2, <2>1, Replies
  <2> QED
    BY <1>1, <1>2, <2>2 DEF Idles, Kept
<1>4. CASE rows[In(r).key] # NoRow
  <2>1. PICK n : n = [req[r] EXCEPT !.pc = "unlink", !.row = rows[In(r).key]]
    OBVIOUS
  <2>2. Set(r, n) /\ Note(r)
    BY <1>4, <2>1 DEF handleDelete
  <2>3. overlap \subseteq overlap' /\ Free(r)
    BY <1>1, <1>2, <2>2, Noted DEF Free, Apart, In
  <2>4. Shaped(n) /\ n.pc = "unlink" /\ n.path = req[r].path /\ n.row = rows[In(r).key] /\ n.ino = req[r].ino
        /\ n.todo = req[r].todo /\ n.got = req[r].got /\ n.quiet = req[r].quiet /\ n.half = req[r].half
    BY <1>1, <2>1 DEF Shaped
  <2>5. Only(r) /\ req'[r] = n
    BY <1>2, <2>2, <2>3, <2>4, SetOnly
  <2> QED
    BY <1>1, <1>2, <1>4, <2>3, <2>4, <2>5 DEF Takes, Kept
<1> QED
  BY <1>3, <1>4

(* storage.Delete as a fact. *)
LEMMA UnlinkStep == ASSUME UserTypes, NEW r \in Reqs, StorageDelete(r) PROVE Unlinks(r)
<1>1. req[r].pc = "unlink" /\ Is(r, UserWrites) /\ cfg' = cfg /\ overlap' = overlap /\ UNCHANGED <<rows, inodes>>
      /\ files' = [files EXCEPT ![req[r].row.id] = 0]
  BY DEF StorageDelete, At, Clocked
<1>2. PICK p : p = IF Is(r, {"userDelete"}) THEN "deleteRow" ELSE "create"
  OBVIOUS
<1>3. PICK n : n = [req[r] EXCEPT !.pc = p]
  OBVIOUS
<1>4. Set(r, n)
  BY <1>2, <1>3 DEF StorageDelete
<1>5. Only(r) /\ Kept(r) /\ req'[r].pc = p /\ req'[r].row = req[r].row
  BY <1>1, <1>3, <1>4, NextPc
<1> QED
  BY <1>1, <1>2, <1>5 DEF Unlinks, GoesOn, Kept

(* os.Create as a fact: a file is truncated or made. *)
LEMMA CreateStep == ASSUME UserTypes, NEW r \in Reqs, StorageCreate(r) PROVE Truncates(r) \/ Makes(r)
<1>1. req[r].pc = "create" /\ cfg' = cfg /\ overlap' = overlap /\ rows' = rows /\ Shaped(req[r])
  BY DEF StorageCreate, At, Clocked, UserTypes
<1>2. PICK i : i = files[req[r].row.id]
  OBVIOUS
<1>3. CASE i # 0
  <2>1. inodes' = [inodes EXCEPT ![i] = <<Blank, Blank>>] /\ files' = files
    BY <1>2, <1>3 DEF StorageCreate
  <2>2. PICK n : n = [req[r] EXCEPT !.pc = "head", !.ino = i]
    OBVIOUS
  <2>3. Set(r, n)
    BY <1>2, <1>3, <2>2 DEF StorageCreate
  <2>4. Shaped(n) /\ n.pc = "head" /\ n.path = req[r].path /\ n.row = req[r].row /\ n.ino = i
        /\ n.todo = req[r].todo /\ n.got = req[r].got /\ n.quiet = req[r].quiet /\ n.half = req[r].half
    BY <1>1, <2>2 DEF Shaped
  <2>5. Only(r) /\ req'[r] = n
    BY <1>1, <2>3, <2>4, SetOnly
  <2> QED
    BY <1>1, <1>2, <1>3, <2>1, <2>4, <2>5 DEF Truncates, GoesOn
<1>4. CASE i = 0
  <2>1. inodes' = Append(inodes, <<Blank, Blank>>) /\ files' = [files EXCEPT ![req[r].row.id] = Len(inodes) + 1]
    BY <1>2, <1>4 DEF StorageCreate
  <2>2. PICK n : n = [req[r] EXCEPT !.pc = "head", !.ino = Len(inodes) + 1]
    OBVIOUS
  <2>3. Set(r, n)
    BY <1>2, <1>4, <2>2 DEF StorageCreate
  <2>4. Shaped(n) /\ n.pc = "head" /\ n.path = req[r].path /\ n.row = req[r].row /\ n.ino = Len(inodes) + 1
        /\ n.todo = req[r].todo /\ n.got = req[r].got /\ n.quiet = req[r].quiet /\ n.half = req[r].half
    BY <1>1, <2>2 DEF Shaped
  <2>5. Only(r) /\ req'[r] = n
    BY <1>1, <2>3, <2>4, SetOnly
  <2> QED
    BY <1>1, <1>2, <1>4, <2>1, <2>4, <2>5 DEF Makes, GoesOn
<1> QED
  BY <1>3, <1>4

(* A half is written, or the body breaks off. *)
LEMMA WriteStep ==
    ASSUME UserTypes, NEW r \in Reqs, NEW pc \in {"head", "rest"}, NEW half, NEW next, StorageWrite(r, pc, half, next)
    PROVE  Writes(r, pc, half, next) \/ Fails(r)
<1>1. req[r].pc = pc /\ cfg' = cfg /\ overlap' = overlap /\ UNCHANGED <<rows, files>>
  BY DEF StorageWrite, At, Clocked
<1>2. CASE inodes' = [inodes EXCEPT ![req[r].ino][half] = In(r).body] /\ Set(r, [req[r] EXCEPT !.pc = next])
  <2>1. PICK n : n = [req[r] EXCEPT !.pc = next]
    OBVIOUS
  <2>2. Only(r) /\ Kept(r) /\ req'[r].pc = next /\ req'[r].row = req[r].row
    BY <1>1, <1>2, <2>1, NextPc
  <2> QED
    BY <1>1, <1>2, <2>2 DEF Writes, GoesOn, Kept
<1>3. CASE cfg.bodyFails /\ Reply(r, 500) /\ UNCHANGED inodes
  <2>1. Only(r) /\ Kept(r) /\ req'[r].pc = "done" /\ req'[r].row = req[r].row
    BY <1>1, <1>3, Replies
  <2> QED
    BY <1>1, <1>3, <2>1 DEF Fails, GoesOn, Kept, user
<1> QED
  BY <1>2, <1>3 DEF StorageWrite

(* The row is saved, or the database fails. *)
LEMMA SaveStep == ASSUME UserTypes, NEW r \in Reqs, SaveUserArtifact(r) PROVE Saves(r) \/ Fails(r)
<1>1. req[r].pc = "saveRow" /\ cfg' = cfg /\ overlap' = overlap /\ UNCHANGED <<files, inodes>>
  BY DEF SaveUserArtifact, At, Clocked
<1>2. PICK c : Reply(r, c)
  BY DEF SaveUserArtifact
<1>3. Only(r) /\ Kept(r) /\ req'[r].pc = "done" /\ req'[r].row = req[r].row
  BY <1>1, <1>2, Replies
<1>4. CASE rows' = [rows EXCEPT ![In(r).key] = [id |-> req[r].row.id, sha |-> In(r).body, created |-> CreatedAt(r)]]
  BY <1>1, <1>3, <1>4 DEF Saves, GoesOn, Kept
<1>5. CASE cfg.dbFails /\ UNCHANGED rows
  BY <1>1, <1>3, <1>5 DEF Fails, GoesOn, Kept, user
<1> QED
  BY <1>4, <1>5 DEF SaveUserArtifact

(* The row is deleted, or the database fails. *)
LEMMA DropStep == ASSUME UserTypes, NEW r \in Reqs, DeleteUserArtifact(r) PROVE Drops(r) \/ Fails(r)
<1>1. req[r].pc = "deleteRow" /\ cfg' = cfg /\ overlap' = overlap /\ UNCHANGED <<files, inodes>>
  BY DEF DeleteUserArtifact, At, Clocked
<1>2. PICK c : Reply(r, c)
  BY DEF DeleteUserArtifact
<1>3. Only(r) /\ Kept(r) /\ req'[r].pc = "done" /\ req'[r].row = req[r].row
  BY <1>1, <1>2, Replies
<1>4. CASE rows' = [rows EXCEPT ![In(r).key] = NoRow]
  BY <1>1, <1>3, <1>4 DEF Drops, GoesOn, Kept
<1>5. CASE cfg.dbFails /\ UNCHANGED rows
  BY <1>1, <1>3, <1>5 DEF Fails, GoesOn, Kept, user
<1> QED
  BY <1>4, <1>5 DEF DeleteUserArtifact

(* The steps of a reader. *)
LEMMA ReadStep ==
    ASSUME UserTypes, NEW r \in Reqs,
           handleUserContent(r) \/ handleUserArchive(r) \/ StorageRead(r) \/ CopyHead(r) \/ CopyRest(r) \/ ReadEnds(r)
    PROVE  Reading(r)
<1>1. cfg' = cfg /\ overlap' = overlap /\ UNCHANGED user
  BY DEF handleUserContent, handleUserArchive, StorageRead, CopyHead, CopyRest, ReadEnds, Clocked
<1>2. Is(r, Readers) /\ Shaped(req[r]) /\ Placed(r)
  BY DEF handleUserContent, handleUserArchive, StorageRead, CopyHead, CopyRest, ReadEnds, At, Is, UserTypes, Placed, Readers
<1>3. ASSUME NEW c, Reply(r, c), req[r].pc \in {"new", "open"} PROVE Skips(r)
  <2>1. Only(r) /\ Kept(r) /\ req'[r].pc = "done" /\ req'[r].row = req[r].row
    BY <1>1, <1>3, Replies
  <2> QED
    BY <1>1, <1>2, <1>3, <2>1 DEF Skips, Looks, Kept
<1>4. ASSUME NEW t, Set(r, [req[r] EXCEPT !.pc = "open", !.todo = t]), req[r].pc = "new",
             \A kid \in t : \E k \in Keys : rows[k] # NoRow /\ kid = <<k, rows[k].id>>
      PROVE  Lists(r)
  <2>1. PICK n : n = [req[r] EXCEPT !.pc = "open", !.todo = t]
    OBVIOUS
  <2>2. Shaped(n) /\ n.pc = "open" /\ n.row = req[r].row /\ n.todo = t /\ n.got = req[r].got /\ n.quiet = req[r].quiet
    BY <1>2, <2>1 DEF Shaped
  <2>3. Only(r) /\ req'[r] = n
    BY <1>1, <1>4, <2>1, <2>2, SetOnly
  <2> QED
    BY <1>1, <1>2, <1>4, <2>2, <2>3 DEF Lists, Looks
<1>5. CASE handleUserContent(r)
  <2>1. req[r].pc = "new" /\ In(r).key \in Keys
    BY <1>5, Given DEF handleUserContent, At, Is
  <2>2. CASE rows[In(r).key] = NoRow
    BY <1>3, <1>5, <2>1, <2>2 DEF handleUserContent, Reading
  <2>3. CASE rows[In(r).key] # NoRow
    <3>1. PICK t : t = {<<In(r).key, rows[In(r).key].id>>}
      OBVIOUS
    <3>2. Set(r, [req[r] EXCEPT !.pc = "open", !.todo = t])
      BY <1>5, <2>3, <3>1 DEF handleUserContent
    <3>3. \A kid \in t : \E k \in Keys : rows[k] # NoRow /\ kid = <<k, rows[k].id>>
      BY <2>1, <2>3, <3>1
    <3> QED
      BY <1>4, <2>1, <3>2, <3>3 DEF Reading
  <2> QED
    BY <2>2, <2>3 DEF Reading
<1>6. CASE handleUserArchive(r)
  <2>1. PICK t : t = {<<k, rows[k].id>> : k \in {k \in Keys : rows[k] # NoRow}}
    OBVIOUS
  <2>2. Set(r, [req[r] EXCEPT !.pc = "open", !.todo = t]) /\ req[r].pc = "new"
    BY <1>6, <2>1 DEF handleUserArchive, At
  <2>3. \A kid \in t : \E k \in Keys : rows[k] # NoRow /\ kid = <<k, rows[k].id>>
    BY <2>1
  <2> QED
    BY <1>4, <2>2, <2>3 DEF Reading
<1>7. CASE StorageRead(r)
  <2>1. req[r].pc = "open"
    BY <1>7 DEF StorageRead, At
  <2>2. PICK kid \in req[r].todo :
          LET i == files[kid[2]]
              left == req[r].todo \ {kid}
          IN  CASE i # 0 -> Set(r, [req[r] EXCEPT !.pc = "read", !.ino = i, !.todo = left, !.path = kid[1],
                                                  !.quiet = WriterOn(kid[1]) = {}])
                [] i = 0 /\ Is(r, {"userGet"}) -> Reply(r, 404)
                [] OTHER -> Set(r, [req[r] EXCEPT !.todo = left])
    BY <1>7 DEF StorageRead
  <2>3. PICK i, left, b : i = files[kid[2]] /\ left = req[r].todo \ {kid} /\ b = (WriterOn(kid[1]) = {})
    OBVIOUS
  <2>4. CASE i # 0
    <3>1. Set(r, [req[r] EXCEPT !.pc = "read", !.ino = i, !.todo = left, !.path = kid[1], !.quiet = b])
      BY <2>2, <2>3, <2>4
    <3>2. PICK n : n = [req[r] EXCEPT !.pc = "read", !.ino = i, !.todo = left, !.path = kid[1], !.quiet = b]
      OBVIOUS
    <3>3. Shaped(n) /\ n.pc = "read" /\ n.row = req[r].row /\ n.todo = left /\ n.got = req[r].got /\ n.quiet = b
          /\ n.path = kid[1] /\ n.ino = i
      BY <1>2, <3>2 DEF Shaped
    <3>4. Only(r) /\ req'[r] = n
      BY <1>1, <3>1, <3>2, <3>3, SetOnly
    <3>5. Opens(r)
      BY <1>1, <1>2, <2>1, <2>3, <2>4, <3>3, <3>4 DEF Opens, Looks
    <3> QED
      BY <3>5 DEF Reading
  <2>5. CASE i = 0 /\ Is(r, {"userGet"})
    BY <1>3, <2>1, <2>2, <2>3, <2>5 DEF Reading
  <2>6. CASE i = 0 /\ ~Is(r, {"userGet"})
    <3>1. Set(r, [req[r] EXCEPT !.todo = left])
      BY <2>2, <2>3, <2>6
    <3>2. PICK n : n = [req[r] EXCEPT !.todo = left]
      OBVIOUS
    <3>3. Shaped(n) /\ n.pc = "open" /\ n.row = req[r].row /\ n.todo = left /\ n.got = req[r].got /\ n.quiet = req[r].quiet
      BY <1>2, <2>1, <3>2 DEF Shaped
    <3>4. Only(r) /\ req'[r] = n
      BY <1>1, <3>1, <3>2, <3>3, SetOnly
    <3>5. Skips(r)
      BY <1>1, <1>2, <2>1, <2>3, <3>3, <3>4 DEF Skips, Looks
    <3> QED
      BY <3>5 DEF Reading
  <2> QED
    BY <2>4, <2>5, <2>6
<1>8. CASE CopyHead(r)
  <2>1. PICK h : h = inodes[req[r].ino][1]
    OBVIOUS
  <2>2. PICK n : n = [req[r] EXCEPT !.pc = "readRest", !.half = h]
    OBVIOUS
  <2>3. Set(r, n) /\ req[r].pc = "read"
    BY <1>8, <2>1, <2>2 DEF CopyHead, At
  <2>4. Shaped(n) /\ n.pc = "readRest" /\ n.row = req[r].row /\ n.todo = req[r].todo /\ n.got = req[r].got
        /\ n.quiet = req[r].quiet /\ n.path = req[r].path /\ n.ino = req[r].ino /\ n.half = h
    BY <1>2, <2>2 DEF Shaped
  <2>5. Only(r) /\ req'[r] = n
    BY <1>1, <2>3, <2>4, SetOnly
  <2>6. CopiesHead(r)
    BY <1>1, <1>2, <2>1, <2>3, <2>4, <2>5 DEF CopiesHead, Looks
  <2> QED
    BY <2>6 DEF Reading
<1>9. CASE CopyRest(r)
  <2>1. PICK g : g = [key |-> req[r].path, quiet |-> req[r].quiet,
                      content |-> <<req[r].half, inodes[req[r].ino][2]>>]
    OBVIOUS
  <2>2. PICK n : n = [req[r] EXCEPT !.pc = "open", !.got = @ \cup {g}]
    OBVIOUS
  <2>3. Set(r, n) /\ req[r].pc = "readRest"
    BY <1>9, <2>1, <2>2 DEF CopyRest, At
  <2>4. Shaped(n) /\ n.pc = "open" /\ n.row = req[r].row /\ n.todo = req[r].todo /\ n.got = req[r].got \cup {g}
        /\ n.quiet = req[r].quiet
    BY <1>2, <2>2 DEF Shaped
  <2>5. Only(r) /\ req'[r] = n
    BY <1>1, <2>3, <2>4, SetOnly
  <2>6. CopiesRest(r)
    BY <1>1, <1>2, <2>1, <2>3, <2>4, <2>5 DEF CopiesRest, Looks
  <2> QED
    BY <2>6 DEF Reading
<1>10. CASE ReadEnds(r)
  <2>1. Reply(r, 200) /\ req[r].pc = "open"
    BY <1>10 DEF ReadEnds, At
  <2> QED
    BY <1>3, <2>1 DEF Reading
<1> QED
  BY <1>5, <1>6, <1>7, <1>8, <1>9, <1>10

(* Every step of the system is one of these. *)
Stepping(r) ==
    \/ Idles(r) \/ Begins(r) \/ Takes(r) \/ Unlinks(r) \/ Truncates(r) \/ Makes(r)
    \/ Writes(r, "head", 1, "rest") \/ Writes(r, "rest", 2, "saveRow") \/ Saves(r) \/ Drops(r) \/ Fails(r)
    \/ Reading(r)

(* Every step of the system is one of these, or leaves the storage and the *)
(* requests.                                                               *)
LEMMA Steps == ASSUME UserTypes, [Next]_vars PROVE Stays \/ \E r \in Reqs : Stepping(r)
<1>1. CASE Tick \/ Finished \/ UNCHANGED vars
  BY <1>1 DEF Tick, Finished, vars, Stays
<1>2. ASSUME NEW r \in Reqs,
             \/ handlePutByKey(r) \/ handleDeleteByKey(r) \/ handleAppendEvent(r) \/ SaveSystemArtifactEvent(r)
      PROVE  Stepping(r)
  BY <1>2, SystemStep DEF Stepping
<1>3. ASSUME NEW r \in Reqs, handlePut(r) \/ handlePutUserArtifact(r) PROVE Stepping(r)
  BY <1>3, PutStep DEF Stepping
<1>4. ASSUME NEW r \in Reqs, StorageDelete(r) \/ StorageCreate(r) PROVE Stepping(r)
  BY <1>4, UnlinkStep, CreateStep DEF Stepping
<1>5. ASSUME NEW r \in Reqs, StorageWrite(r, "head", 1, "rest") \/ StorageWrite(r, "rest", 2, "saveRow") PROVE Stepping(r)
  BY <1>5, WriteStep DEF Stepping
<1>6. ASSUME NEW r \in Reqs, SaveUserArtifact(r) \/ DeleteUserArtifact(r) \/ handleDelete(r) PROVE Stepping(r)
  BY <1>6, SaveStep, DropStep, DeleteStep DEF Stepping
<1>7. ASSUME NEW r \in Reqs,
             handleUserContent(r) \/ handleUserArchive(r) \/ StorageRead(r) \/ CopyHead(r) \/ CopyRest(r) \/ ReadEnds(r)
      PROVE  Stepping(r)
  BY <1>7, ReadStep DEF Stepping
<1> QED
  BY <1>1, <1>2, <1>3, <1>4, <1>5, <1>6, <1>7 DEF Next

(* Replacing one of a pair. *)
LEMMA HalfSet ==
    ASSUME NEW S, NEW t \in S \X S, NEW b \in S, NEW h \in {1, 2}, NEW u, u = [t EXCEPT ![h] = b]
    PROVE  u \in S \X S /\ u[h] = b /\ \A g \in {1, 2} \ {h} : u[g] = t[g]
<1>1. PICK x, y \in S : t = <<x, y>>
  OBVIOUS
<1>2. CASE h = 1
  <2>1. u = <<b, y>>
    BY <1>1, <1>2
  <2> QED
    BY <1>1, <1>2, <2>1
<1>3. CASE h = 2
  <2>1. u = <<x, b>>
    BY <1>1, <1>3
  <2> QED
    BY <1>1, <1>3, <2>1
<1> QED
  BY <1>2, <1>3

(* Replacing one element of a sequence, if it is there. *)
LEMMA SeqSet ==
    ASSUME NEW S, NEW s \in Seq(S), NEW i, NEW v \in S, NEW t, t = [s EXCEPT ![i] = v]
    PROVE  /\ t \in Seq(S) /\ Len(t) = Len(s)
           /\ i \in 1..Len(s) => t[i] = v
           /\ \A j \in 1..Len(s) : j # i => t[j] = s[j]
<1>1. CASE i \in 1..Len(s)
  BY <1>1, ExceptSeq
<1>2. CASE i \notin 1..Len(s)
  <2>1. t = s
    BY <1>2
  <2> QED
    BY <1>2, <2>1
<1> QED
  BY <1>1, <1>2

(* Adding an element to a sequence. *)
LEMMA SeqAdd ==
    ASSUME NEW S, NEW s \in Seq(S), NEW v \in S, NEW t, t = Append(s, v)
    PROVE  /\ t \in Seq(S) /\ Len(t) = Len(s) + 1 /\ t[Len(s) + 1] = v
           /\ \A j \in 1..Len(s) : t[j] = s[j]
OBVIOUS

(* A half of a file is written. *)
LEMMA WriteEffect ==
    ASSUME UserTypes, NEW r \in Reqs, NEW pc, NEW half \in {1, 2}, NEW next, Writes(r, pc, half, next),
           req[r].ino \in 1..Len(inodes)
    PROVE  /\ inodes' \in Seq(Bytes \X Bytes) /\ Len(inodes') = Len(inodes)
           /\ inodes'[req[r].ino] \in Bytes \X Bytes
           /\ inodes'[req[r].ino][half] = In(r).body
           /\ \A g \in {1, 2} \ {half} : inodes'[req[r].ino][g] = inodes[req[r].ino][g]
           /\ \A j \in 1..Len(inodes) : j # req[r].ino => inodes'[j] = inodes[j]
<1>1. inodes \in Seq(Bytes \X Bytes) /\ In(r).body \in Bytes
  BY Given DEF UserTypes
<1>2. PICK i : i = req[r].ino
  OBVIOUS
<1>3. PICK b : b = In(r).body
  OBVIOUS
<1>4. inodes[i] \in Bytes \X Bytes
  BY <1>1, <1>2
<1>5. PICK u : u = [inodes[i] EXCEPT ![half] = b]
  OBVIOUS
<1>6. u \in Bytes \X Bytes /\ u[half] = b /\ \A g \in {1, 2} \ {half} : u[g] = inodes[i][g]
  BY <1>1, <1>3, <1>4, <1>5, HalfSet
<1>7. inodes' = [inodes EXCEPT ![i] = u]
  BY <1>1, <1>2, <1>3, <1>4, <1>5 DEF Writes
<1>8. inodes' \in Seq(Bytes \X Bytes) /\ Len(inodes') = Len(inodes) /\ inodes'[i] = u
      /\ \A j \in 1..Len(inodes) : j # i => inodes'[j] = inodes[j]
  BY <1>1, <1>2, <1>6, <1>7, SeqSet
<1> QED
  BY <1>2, <1>3, <1>6, <1>8

(* An empty file is a file. *)
LEMMA BlankFile == <<Blank, Blank>> \in Bytes \X Bytes /\ <<Blank, Blank>>[1] = Blank /\ <<Blank, Blank>>[2] = Blank
BY DEF Bytes

(* What os.Create does to a file that is there. *)
LEMMA TruncateEffect ==
    ASSUME UserTypes, NEW r \in Reqs, Truncates(r), req'[r].ino \in 1..Len(inodes)
    PROVE  /\ inodes' \in Seq(Bytes \X Bytes) /\ Len(inodes') = Len(inodes)
           /\ inodes'[req'[r].ino] = <<Blank, Blank>>
           /\ \A j \in 1..Len(inodes) : j # req'[r].ino => inodes'[j] = inodes[j]
<1>1. inodes \in Seq(Bytes \X Bytes)
  BY DEF UserTypes
<1>2. PICK i : i = req'[r].ino
  OBVIOUS
<1>3. PICK u : u = <<Blank, Blank>>
  OBVIOUS
<1>4. inodes' = [inodes EXCEPT ![i] = u]
  BY <1>2, <1>3 DEF Truncates
<1> QED
  BY <1>1, <1>2, <1>3, <1>4, BlankFile, SeqSet

(* What os.Create does when there is no file. *)
LEMMA MakeEffect ==
    ASSUME UserTypes, NEW r \in Reqs, Makes(r), req[r].row.id \in 1..Len(files)
    PROVE  /\ inodes' \in Seq(Bytes \X Bytes) /\ Len(inodes') = Len(inodes) + 1
           /\ inodes'[Len(inodes) + 1] = <<Blank, Blank>>
           /\ \A j \in 1..Len(inodes) : inodes'[j] = inodes[j]
           /\ files' \in Seq(Nat) /\ Len(files') = Len(files) /\ files'[req[r].row.id] = Len(inodes) + 1
           /\ \A d \in 1..Len(files) : d # req[r].row.id => files'[d] = files[d]
<1>1. inodes \in Seq(Bytes \X Bytes) /\ files \in Seq(Nat)
  BY DEF UserTypes
<1>2. PICK u : u = <<Blank, Blank>>
  OBVIOUS
<1>3. inodes' = Append(inodes, u)
  BY <1>2 DEF Makes
<1>4. /\ inodes' \in Seq(Bytes \X Bytes) /\ Len(inodes') = Len(inodes) + 1 /\ inodes'[Len(inodes) + 1] = u
      /\ \A j \in 1..Len(inodes) : inodes'[j] = inodes[j]
  BY <1>1, <1>2, <1>3, BlankFile, SeqAdd
<1>5. PICK d, n : d = req[r].row.id /\ n = Len(inodes) + 1
  OBVIOUS
<1>6. n \in Nat
  BY <1>1, <1>5
<1>7. files' = [files EXCEPT ![d] = n]
  BY <1>5 DEF Makes
<1>8. files' \in Seq(Nat) /\ Len(files') = Len(files) /\ files'[d] = n
      /\ \A e \in 1..Len(files) : e # d => files'[e] = files[e]
  BY <1>1, <1>5, <1>6, <1>7, SeqSet
<1> QED
  BY <1>2, <1>4, <1>5, <1>8

(* What storage.Delete does to the directory. *)
LEMMA UnlinkEffect ==
    ASSUME UserTypes, NEW r \in Reqs, Unlinks(r)
    PROVE  /\ files' \in Seq(Nat) /\ Len(files') = Len(files)
           /\ req[r].row.id \in 1..Len(files) => files'[req[r].row.id] = 0
           /\ \A d \in 1..Len(files) : d # req[r].row.id => files'[d] = files[d]
<1>1. files \in Seq(Nat)
  BY DEF UserTypes
<1>2. PICK d, n : d = req[r].row.id /\ n = 0 /\ n \in Nat
  OBVIOUS
<1>3. files' = [files EXCEPT ![d] = n]
  BY <1>2 DEF Unlinks
<1>4. CASE d \in 1..Len(files)
  BY <1>1, <1>2, <1>3, <1>4, ExceptSeq
<1>5. CASE d \notin 1..Len(files)
  <2>1. files' = files
    BY <1>1, <1>3, <1>5
  <2> QED
    BY <1>1, <1>2, <1>5, <2>1
<1> QED
  BY <1>4, <1>5

(* A new artifact has an id of its own and no file. *)
LEMMA BeginEffect ==
    ASSUME UserTypes, NEW r \in Reqs, Begins(r)
    PROVE  /\ files' \in Seq(Nat) /\ Len(files') = Len(files) + 1 /\ files'[Len(files) + 1] = 0
           /\ \A d \in 1..Len(files) : files'[d] = files[d]
<1>1. files \in Seq(Nat) /\ files' = Append(files, 0)
  BY DEF UserTypes, Begins
<1> QED
  BY <1>1

(* What SaveUserArtifact does to the rows. *)
LEMMA SaveEffect ==
    ASSUME UserTypes, NEW r \in Reqs, Saves(r), Is(r, UserWrites)
    PROVE  /\ In(r).key \in Keys /\ rows' = [k \in Keys |-> rows'[k]]
           /\ rows'[In(r).key].id = req[r].row.id /\ rows'[In(r).key].sha = In(r).body
           /\ \A k \in Keys : k # In(r).key => rows'[k] = rows[k]
<1>1. rows = [k \in Keys |-> rows[k]] /\ In(r).key \in Keys
  BY Given DEF UserTypes, Is
<1>2. PICK v, w : v = In(r).key /\ w = [id |-> req[r].row.id, sha |-> In(r).body, created |-> CreatedAt(r)]
  OBVIOUS
<1>3. rows' = [rows EXCEPT ![v] = w]
  BY <1>2 DEF Saves
<1>4. w.id = req[r].row.id /\ w.sha = In(r).body
  BY <1>2
<1>5. rows'[v] = w /\ rows' = [k \in Keys |-> rows'[k]] /\ \A k \in Keys : k # v => rows'[k] = rows[k]
  BY <1>1, <1>2, <1>3
<1> QED
  BY <1>1, <1>2, <1>4, <1>5

(* What DeleteUserArtifact does to the rows. *)
LEMMA DropEffect ==
    ASSUME UserTypes, NEW r \in Reqs, Drops(r), Is(r, UserWrites)
    PROVE  /\ In(r).key \in Keys /\ rows' = [k \in Keys |-> rows'[k]] /\ rows'[In(r).key] = NoRow
           /\ \A k \in Keys : k # In(r).key => rows'[k] = rows[k]
<1>1. rows = [k \in Keys |-> rows[k]] /\ In(r).key \in Keys
  BY Given DEF UserTypes, Is
<1>2. PICK v, w : v = In(r).key /\ w = NoRow
  OBVIOUS
<1>3. rows' = [rows EXCEPT ![v] = w]
  BY <1>2 DEF Drops
<1>4. rows'[v] = w /\ rows' = [k \in Keys |-> rows'[k]] /\ \A k \in Keys : k # v => rows'[k] = rows[k]
  BY <1>1, <1>2, <1>3
<1> QED
  BY <1>1, <1>2, <1>4

(* What a reader holds is in files that there are. *)
Held ==
    \E own \in [1..Len(files) -> Keys], iown \in [1..Len(inodes) -> Keys] : OwnersOf(own, iown)

(* The kinds of request are different. *)
LEMMA Kinds ==
    ASSUME NEW r
    PROVE  /\ Is(r, Readers) => ~Is(r, UserWrites) /\ ~Is(r, SystemWrites)
           /\ Is(r, SystemWrites) => ~Is(r, UserWrites)
           /\ Is(r, Puts) => Is(r, UserWrites) /\ ~Is(r, {"userDelete"})
           /\ Is(r, UserWrites) => Is(r, Puts) \/ Is(r, {"userDelete"})
           /\ Is(r, {"userDelete"}) => Is(r, UserWrites)
BY DEF Is, Readers, UserWrites, SystemWrites, Puts

(* A step that keeps the scenario keeps all that is given. *)
LEMMA SameGiven == ASSUME cfg' = cfg
                   PROVE  /\ Reqs' = Reqs /\ Bytes' = Bytes
                          /\ \A r : In(r)' = In(r)
                          /\ \A r, S : Is(r, S)' = Is(r, S)
BY DEF Reqs, In, Is, Bytes

(* A request that takes a step is where its kind may be. *)
LEMMA PlacedNext ==
    ASSUME UserTypes, NEW r \in Reqs, Stepping(r),
           Is(r, UserWrites) /\ InFlight(r) => req[r].row.id # 0
    PROVE  Placed(r)'
<1>1. cfg' = cfg
  BY DEF Stepping, Idles, Begins, Takes, Unlinks, Truncates, Makes, Writes, Saves, Drops, Fails, GoesOn,
         Reading, Lists, Opens, Skips, CopiesHead, CopiesRest, Looks, Only
<1>2. Placed(r) /\ In(r)' = In(r)
  BY <1>1, SameGiven DEF UserTypes
<1>3. CASE Idles(r)
  BY <1>1, <1>2, <1>3 DEF Idles, Placed, Is, In, InFlight
<1>4. CASE Begins(r)
  <2>1. req'[r].row.id # 0
    BY <1>4 DEF Begins, UserTypes
  <2> QED
    BY <1>1, <1>2, <1>4, <2>1, Kinds DEF Begins, Kept, Placed, Is, In, InFlight
<1>5. CASE Takes(r)
  <2>1. req'[r].row.id # 0
    BY <1>5, Given DEF Takes, UserTypes, Is, UserWrites
  <2> QED
    BY <1>1, <1>2, <1>5, <2>1, Kinds DEF Takes, Kept, Placed, Is, In, InFlight
<1>6. CASE Unlinks(r)
  <2>1. IF Is(r, {"userDelete"}) THEN req'[r].pc = "deleteRow" ELSE req'[r].pc = "create"
    BY <1>6 DEF Unlinks, GoesOn
  <2>2. req'[r].row = req[r].row /\ req'[r].quiet = req[r].quiet /\ req[r].pc = "unlink"
    BY <1>6 DEF Unlinks, GoesOn
  <2>3. Is(r, {"userDelete"}) \/ Is(r, Puts)
    BY <1>6, Kinds DEF Unlinks
  <2> QED
    BY <1>1, <1>2, <2>1, <2>2, <2>3, Kinds DEF Placed, Is, In, InFlight
<1>7. CASE Truncates(r) \/ Makes(r) \/ Writes(r, "head", 1, "rest") \/ Writes(r, "rest", 2, "saveRow")
  <2>1. req[r].pc \in {"create", "head", "rest"} /\ req'[r].pc \in {"head", "rest", "saveRow"}
        /\ req'[r].row = req[r].row /\ req'[r].quiet = req[r].quiet
    BY <1>7 DEF Truncates, Makes, Writes, GoesOn
  <2> QED
    BY <1>1, <1>2, <2>1, Kinds DEF Placed, Is, In, InFlight
<1>8. CASE Saves(r) \/ Drops(r) \/ Fails(r)
  <2>1. req'[r].pc = "done" /\ req'[r].row = req[r].row /\ req'[r].quiet = req[r].quiet
    BY <1>8 DEF Saves, Drops, Fails, GoesOn
  <2> QED
    BY <1>1, <1>2, <2>1 DEF Placed, Is, In, InFlight
<1>9. CASE Reading(r)
  <2>1. Is(r, Readers) /\ req'[r].pc \in {"open", "read", "readRest", "done"}
    BY <1>9 DEF Reading, Looks, Lists, Opens, Skips, CopiesHead, CopiesRest
  <2>2. req'[r].quiet = req[r].quiet \/ \E k : req'[r].quiet = (WriterOn(k) = {})
    BY <1>9 DEF Reading, Looks, Lists, Opens, Skips, CopiesHead, CopiesRest
  <2>3. req'[r].quiet \in BOOLEAN
    BY <1>2, <2>2 DEF Placed
  <2> QED
    BY <1>1, <1>2, <2>1, <2>3, Kinds DEF Placed, Is, In, InFlight
<1> QED
  BY <1>3, <1>4, <1>5, <1>6, <1>7, <1>8, <1>9 DEF Stepping

(* A step is one of a single request. *)
LEMMA StepOnly == ASSUME NEW r, Stepping(r) PROVE Only(r)
BY DEF Stepping, Idles, Begins, Takes, Unlinks, Truncates, Makes, Writes, Saves, Drops, Fails, GoesOn,
       Reading, Lists, Opens, Skips, CopiesHead, CopiesRest, Looks

(* The types are preserved by every step. *)
LEMMA TypesNext ==
    ASSUME UserTypes, Held, NEW r \in Reqs, Stepping(r)
    PROVE  UserTypes'
<1>1. Only(r) /\ cfg' = cfg
  BY StepOnly DEF Only
<1>2. Reqs' = Reqs /\ Bytes' = Bytes
  BY <1>1, SameGiven
<1>3. PICK own \in [1..Len(files) -> Keys], iown \in [1..Len(inodes) -> Keys] :
        Owners(own, iown) /\ \A q \in Reqs : Holds(own, iown, q)
  BY DEF Held, OwnersOf
<1>4. Holds(own, iown, r) /\ Placed(r)
  BY <1>3 DEF UserTypes
<1>5. \A q \in Reqs : Shaped(req[q])' /\ Placed(q)'
  <2>1. Placed(r)'
    BY <1>4, PlacedNext DEF Placed
  <2>2. \A q \in Reqs \ {r} : Placed(q)'
    <3>1. SUFFICES ASSUME NEW q \in Reqs \ {r} PROVE Placed(q)'
      OBVIOUS
    <3>2. Placed(q) /\ req'[q] = req[q]
      BY <1>1 DEF UserTypes, Only
    <3> QED
      BY <1>1, <3>2 DEF Placed, Is, In, InFlight
  <2>3. \A q \in Reqs : Shaped(req'[q])
    BY <1>1 DEF Only, UserTypes
  <2>4. \A q \in Reqs : Shaped(req[q])'
    BY <2>3 DEF Shaped
  <2> QED
    BY <2>1, <2>2, <2>4
<1>6. cfg' \in Scenarios /\ req' = [q \in Reqs |-> req'[q]]
  BY <1>1 DEF UserTypes, Only
<1>7. files' \in Seq(Nat) /\ inodes' \in Seq(Bytes \X Bytes)
  <2>1. CASE UNCHANGED <<files, inodes>>
    BY <2>1 DEF UserTypes
  <2>2. CASE Begins(r)
    BY <2>2, BeginEffect DEF Begins, UserTypes
  <2>3. CASE Unlinks(r)
    BY <2>3, UnlinkEffect DEF Unlinks, UserTypes
  <2>4. CASE Makes(r)
    <3>1. req[r].row.id \in 1..Len(files)
      BY <2>4, <1>4, Kinds DEF Makes, GoesOn, Placed, Holds, InFlight
    <3> QED
      BY <2>4, <3>1, MakeEffect
  <2>5. CASE Truncates(r)
    <3>1. req[r].row.id \in 1..Len(files) /\ req'[r].ino = files[req[r].row.id] /\ files[req[r].row.id] # 0
      BY <2>5, <1>4, Kinds DEF Truncates, GoesOn, Placed, Holds, InFlight
    <3>2. req'[r].ino \in 1..Len(inodes)
      BY <1>3, <3>1 DEF Owners
    <3> QED
      BY <2>5, <3>2, TruncateEffect DEF Truncates, UserTypes
  <2>6. CASE Writes(r, "head", 1, "rest") \/ Writes(r, "rest", 2, "saveRow")
    <3>1. req[r].ino \in 1..Len(inodes) /\ UNCHANGED files
      BY <2>6, <1>4 DEF Writes, GoesOn, Holds
    <3> QED
      BY <2>6, <3>1, WriteEffect DEF UserTypes
  <2> QED
    BY <2>1, <2>2, <2>3, <2>4, <2>5, <2>6
       DEF Stepping, Idles, Takes, Saves, Drops, Fails, Reading, Lists, Opens, Skips, CopiesHead, CopiesRest, Looks, user
<1>8. rows' = [k \in Keys |-> rows'[k]] /\ \A k \in Keys : rows'[k] # NoRow => rows'[k].id # 0
  <2>1. CASE rows' = rows
    BY <2>1 DEF UserTypes
  <2>2. CASE Saves(r)
    <3>1. Is(r, UserWrites) /\ req[r].row.id # 0
      BY <2>2, <1>4, Kinds DEF Saves, GoesOn, Placed, InFlight
    <3> QED
      BY <2>2, <3>1, SaveEffect DEF UserTypes
  <2>3. CASE Drops(r)
    <3>1. Is(r, UserWrites)
      BY <2>3, <1>4, Kinds DEF Drops, GoesOn, Placed
    <3> QED
      BY <2>3, <3>1, DropEffect DEF UserTypes
  <2> QED
    BY <2>1, <2>2, <2>3
       DEF Stepping, Idles, Begins, Takes, Unlinks, Truncates, Makes, Writes, Fails, Reading, Lists, Opens, Skips,
           CopiesHead, CopiesRest, Looks, user
<1> QED
  BY <1>2, <1>5, <1>6, <1>7, <1>8 DEF UserTypes

(* The owners of what there was stay. *)
Extend(own, iown, own2, iown2) ==
    /\ own2 \in [1..Len(files') -> Keys] /\ iown2 \in [1..Len(inodes') -> Keys]
    /\ Len(files) <= Len(files') /\ Len(inodes) <= Len(inodes')
    /\ \A d \in 1..Len(files) : own2[d] = own[d]
    /\ \A i \in 1..Len(inodes) : iown2[i] = iown[i]

(* What was put to a key does not depend on the state. *)
LEMMA PutToStays == ASSUME cfg' = cfg, NEW k, NEW b PROVE PutTo(k, b)' <=> PutTo(k, b)
BY DEF PutTo, Reqs, In, Is

(* The lengths are numbers. *)
LEMMA Lengths == ASSUME UserTypes PROVE Len(files) \in Nat /\ Len(inodes) \in Nat
BY DEF UserTypes

(* What a request holds that takes no step stays its own. *)
LEMMA HoldsStay ==
    ASSUME UserTypes, NEW own, NEW iown, NEW own2, NEW iown2, Extend(own, iown, own2, iown2),
           cfg' = cfg, NEW q \in Reqs, req'[q] = req[q], Holds(own, iown, q), Len(files') \in Nat, Len(inodes') \in Nat
    PROVE  Holds(own2, iown2, q)'
<1>1. 1..Len(files) \subseteq 1..Len(files') /\ 1..Len(inodes) \subseteq 1..Len(inodes')
  BY Lengths DEF Extend
<1>2. Is(q, UserWrites)' = Is(q, UserWrites) /\ In(q)' = In(q)
  BY DEF Is, In
<1>3. Is(q, UserWrites)' /\ req'[q].row.id # 0 => req'[q].row.id \in 1..Len(files') /\ own2[req'[q].row.id] = In(q).key
  BY <1>1, <1>2 DEF Holds, Extend
<1>4. \A kid \in req'[q].todo : kid[2] \in 1..Len(files') /\ own2[kid[2]] = kid[1]
  BY <1>1 DEF Holds, Extend
<1>5. req'[q].pc \in {"head", "rest", "saveRow"} => req'[q].ino \in 1..Len(inodes') /\ iown2[req'[q].ino] = In(q).key
  BY <1>1, <1>2 DEF Holds, Extend
<1>6. req'[q].pc \in {"read", "readRest"} => req'[q].ino \in 1..Len(inodes') /\ iown2[req'[q].ino] = req'[q].path
  BY <1>1 DEF Holds, Extend
<1>7. req'[q].pc = "readRest" /\ req'[q].half # Blank => PutTo(req'[q].path, req'[q].half)
  BY DEF Holds
<1>8. \A g \in req'[q].got : \A h \in 1..2 : g.content[h] # Blank => PutTo(g.key, g.content[h])
  BY DEF Holds
<1> QED
  BY <1>2, <1>3, <1>4, <1>5, <1>6, <1>7, <1>8, PutToStays DEF Holds

(* A writer keeps its artifact. *)
LEMMA WriterHolds ==
    ASSUME UserTypes, NEW own, NEW iown, NEW own2, NEW iown2, Extend(own, iown, own2, iown2),
           NEW r \in Reqs, Only(r), Is(r, UserWrites), Holds(own, iown, r), Len(files') \in Nat, Len(inodes') \in Nat,
           req'[r].todo = req[r].todo, req'[r].got = req[r].got, req'[r].pc \notin {"read", "readRest"},
           req'[r].row.id \in 1..Len(files') /\ own2[req'[r].row.id] = In(r).key,
           req'[r].pc \in {"head", "rest", "saveRow"} => req'[r].ino \in 1..Len(inodes') /\ iown2[req'[r].ino] = In(r).key
    PROVE  Holds(own2, iown2, r)'
<1>1. 1..Len(files) \subseteq 1..Len(files') /\ 1..Len(inodes) \subseteq 1..Len(inodes') /\ cfg' = cfg
  BY Lengths DEF Extend, Only
<1>2. Is(r, UserWrites)' = Is(r, UserWrites) /\ In(r)' = In(r)
  BY <1>1 DEF Is, In
<1>3. \A kid \in req'[r].todo : kid[2] \in 1..Len(files') /\ own2[kid[2]] = kid[1]
  BY <1>1 DEF Holds, Extend
<1>4. \A g \in req'[r].got : \A h \in 1..2 : g.content[h] # Blank => PutTo(g.key, g.content[h])
  BY DEF Holds
<1> QED
  BY <1>1, <1>2, <1>3, <1>4, PutToStays DEF Holds

(* Nothing is written: the owners are the same. *)
LEMMA OwnersStay ==
    ASSUME UserTypes, NEW own \in [1..Len(files) -> Keys], NEW iown \in [1..Len(inodes) -> Keys], Owners(own, iown),
           UNCHANGED user, cfg' = cfg
    PROVE  Extend(own, iown, own, iown) /\ Owners(own, iown)'
<1>1. Extend(own, iown, own, iown)
  BY Lengths DEF Extend, user
<1>2. Owners(own, iown)'
  BY PutToStays DEF Owners, user
<1> QED
  BY <1>1, <1>2

(* What a reader takes is of the key it asked for. *)
LEMMA ReadingHolds ==
    ASSUME UserTypes, NEW own \in [1..Len(files) -> Keys], NEW iown \in [1..Len(inodes) -> Keys], Owners(own, iown),
           NEW r \in Reqs, Reading(r), Holds(own, iown, r)
    PROVE  Holds(own, iown, r)'
<1>1. Looks(r) /\ Only(r) /\ cfg' = cfg /\ UNCHANGED user /\ ~Is(r, UserWrites)
  BY Kinds DEF Reading, Lists, Opens, Skips, CopiesHead, CopiesRest, Looks, Only
<1>2. ~Is(r, UserWrites)' /\ Len(files') = Len(files) /\ Len(inodes') = Len(inodes) /\ inodes' = inodes
  BY <1>1 DEF Is, In, user
<1>3. \A kid \in req'[r].todo : kid[2] \in 1..Len(files) /\ own[kid[2]] = kid[1]
  <2>1. CASE Lists(r)
    <3>1. SUFFICES ASSUME NEW kid \in req'[r].todo PROVE kid[2] \in 1..Len(files) /\ own[kid[2]] = kid[1]
      OBVIOUS
    <3>2. PICK k \in Keys : rows[k] # NoRow /\ kid = <<k, rows[k].id>>
      BY <2>1 DEF Lists
    <3> QED
      BY <3>2 DEF Owners
  <2>2. CASE req'[r].todo \subseteq req[r].todo
    BY <2>2 DEF Holds
  <2> QED
    BY <2>1, <2>2 DEF Reading, Opens, Skips, CopiesHead, CopiesRest
<1>4. req'[r].pc \notin {"head", "rest", "saveRow"}
  BY DEF Reading, Lists, Opens, Skips, CopiesHead, CopiesRest
<1>5. req'[r].pc \in {"read", "readRest"} => req'[r].ino \in 1..Len(inodes) /\ iown[req'[r].ino] = req'[r].path
  <2>1. CASE Opens(r)
    <3>1. PICK kid \in req[r].todo : files[kid[2]] # 0 /\ req'[r].ino = files[kid[2]] /\ req'[r].path = kid[1]
      BY <2>1 DEF Opens
    <3>2. kid[2] \in 1..Len(files) /\ own[kid[2]] = kid[1]
      BY DEF Holds
    <3> QED
      BY <3>1, <3>2 DEF Owners
  <2>2. CASE CopiesHead(r)
    BY <2>2 DEF CopiesHead, Holds
  <2>3. CASE Lists(r) \/ Skips(r) \/ CopiesRest(r)
    BY <2>3 DEF Lists, Skips, CopiesRest
  <2> QED
    BY <2>1, <2>2, <2>3 DEF Reading
<1>6. req'[r].pc = "readRest" /\ req'[r].half # Blank => PutTo(req'[r].path, req'[r].half)
  <2>1. CASE CopiesHead(r)
    BY <2>1 DEF CopiesHead, Holds, Owners
  <2>2. CASE Lists(r) \/ Opens(r) \/ Skips(r) \/ CopiesRest(r)
    BY <2>2 DEF Lists, Opens, Skips, CopiesRest
  <2> QED
    BY <2>1, <2>2 DEF Reading
<1>7. \A g \in req'[r].got : \A h \in 1..2 : g.content[h] # Blank => PutTo(g.key, g.content[h])
  <2>1. CASE CopiesRest(r)
    <3>1. PICK b : b = [key |-> req[r].path, quiet |-> req[r].quiet, content |-> <<req[r].half, inodes[req[r].ino][2]>>]
      OBVIOUS
    <3>2. b.key = req[r].path /\ b.content[1] = req[r].half /\ b.content[2] = inodes[req[r].ino][2]
      BY <3>1
    <3>3. req'[r].got = req[r].got \cup {b}
      BY <2>1, <3>1 DEF CopiesRest
    <3>4. req[r].pc = "readRest" /\ req[r].ino \in 1..Len(inodes) /\ iown[req[r].ino] = req[r].path
      BY <2>1 DEF CopiesRest, Holds
    <3>5. b.content[1] # Blank => PutTo(b.key, b.content[1])
      BY <3>2, <3>4 DEF Holds
    <3>6. b.content[2] # Blank => PutTo(b.key, b.content[2])
      BY <3>2, <3>4 DEF Owners
    <3>7. \A h \in 1..2 : h = 1 \/ h = 2
      OBVIOUS
    <3> QED
      BY <3>3, <3>5, <3>6, <3>7 DEF Holds
  <2>2. CASE req'[r].got = req[r].got
    BY <2>2 DEF Holds
  <2> QED
    BY <2>1, <2>2 DEF Reading, Lists, Opens, Skips, CopiesHead
<1> QED
  BY <1>1, <1>2, <1>3, <1>4, <1>5, <1>6, <1>7, PutToStays DEF Holds

(* A new artifact, or a new file, belongs to the key of the request.       *)
NewOwners(r, own2, iown2) ==
    /\ Begins(r) => own2[Len(files) + 1] = In(r).key
    /\ Makes(r) => iown2[Len(inodes) + 1] = In(r).key

(* It suffices to look at the request that takes the step. *)
LEMMA OwnersByStep ==
    ASSUME UserTypes, UserTypes', NEW own \in [1..Len(files) -> Keys], NEW iown \in [1..Len(inodes) -> Keys],
           OwnersOf(own, iown), NEW own2, NEW iown2, Extend(own, iown, own2, iown2),
           NEW r \in Reqs, Only(r), Owners(own2, iown2)', Holds(own2, iown2, r)'
    PROVE  OwnersOf(own2, iown2)'
<1>1. cfg' = cfg /\ Reqs' = Reqs /\ Len(files') \in Nat /\ Len(inodes') \in Nat
  BY SameGiven DEF Only, UserTypes
<1>2. \A q \in Reqs \ {r} : Holds(own2, iown2, q)'
  <2>1. SUFFICES ASSUME NEW q \in Reqs \ {r} PROVE Holds(own2, iown2, q)'
    OBVIOUS
  <2>2. req'[q] = req[q] /\ Holds(own, iown, q)
    BY DEF Only, OwnersOf
  <2> QED
    BY <1>1, <2>2, HoldsStay
<1> QED
  BY <1>1, <1>2 DEF OwnersOf

(* The owners after a step that writes nothing. *)
LEMMA OwnersQuiet ==
    ASSUME UserTypes, UserTypes', NEW own \in [1..Len(files) -> Keys], NEW iown \in [1..Len(inodes) -> Keys],
           OwnersOf(own, iown), NEW r \in Reqs, Idles(r) \/ Takes(r) \/ Fails(r) \/ Reading(r)
    PROVE  Extend(own, iown, own, iown) /\ OwnersOf(own, iown)' /\ NewOwners(r, own, iown)
<1>1. Only(r) /\ UNCHANGED user /\ cfg' = cfg /\ UNCHANGED <<rows, files, inodes>>
  BY DEF Idles, Takes, Fails, GoesOn, Reading, Lists, Opens, Skips, CopiesHead, CopiesRest, Looks, Only, user
<1>2. Extend(own, iown, own, iown) /\ Owners(own, iown)'
  BY <1>1, OwnersStay DEF OwnersOf
<1>3. Holds(own, iown, r) /\ Placed(r) /\ Owners(own, iown) /\ Len(files') \in Nat /\ Len(inodes') \in Nat
  BY DEF OwnersOf, UserTypes
<1>4. Holds(own, iown, r)'
  <2>1. CASE Reading(r)
    BY <2>1, <1>3, ReadingHolds
  <2>2. CASE Idles(r)
    <3>1. req'[r].pc \in {"save", "done"} /\ req'[r].row = req[r].row /\ req'[r].todo = req[r].todo /\ req'[r].got = req[r].got
      BY <2>2 DEF Idles
    <3> QED
      BY <1>1, <1>3, <3>1, PutToStays DEF Holds, Is, In, user
  <2>3. CASE Takes(r)
    <3>1. In(r).key \in Keys /\ rows[In(r).key].id \in 1..Len(files) /\ own[rows[In(r).key].id] = In(r).key
      BY <2>3, <1>3, Given DEF Takes, Is, Owners
    <3>2. Is(r, UserWrites) /\ req'[r].row = rows[In(r).key] /\ req'[r].pc = "unlink"
          /\ req'[r].todo = req[r].todo /\ req'[r].got = req[r].got
      BY <2>3 DEF Takes, Kept
    <3> QED
      BY <1>1, <1>2, <1>3, <3>1, <3>2, WriterHolds
  <2>4. CASE Fails(r)
    <3>1. Is(r, UserWrites) /\ req[r].row.id # 0
      BY <2>4, <1>3, Kinds DEF Fails, Placed, InFlight
    <3>2. req'[r].row = req[r].row /\ req'[r].pc = "done"
          /\ req'[r].todo = req[r].todo /\ req'[r].got = req[r].got
      BY <2>4 DEF Fails, GoesOn
    <3>3. req'[r].row.id \in 1..Len(files') /\ own[req'[r].row.id] = In(r).key
      BY <1>1, <1>3, <3>1, <3>2 DEF Holds
    <3> QED
      BY <1>1, <1>2, <1>3, <3>1, <3>2, <3>3, WriterHolds
  <2> QED
    BY <2>1, <2>2, <2>3, <2>4
<1>5. ~Begins(r) /\ ~Makes(r)
  BY DEF Begins, Makes, Idles, Takes, Fails, GoesOn, Reading, Lists, Opens, Skips, CopiesHead, CopiesRest
<1> QED
  BY <1>1, <1>2, <1>4, <1>5, OwnersByStep DEF NewOwners

(* The owners after a new artifact: its id belongs to the key of the       *)
(* request.                                                                *)
LEMMA OwnersBegin ==
    ASSUME UserTypes, UserTypes', NEW own \in [1..Len(files) -> Keys], NEW iown \in [1..Len(inodes) -> Keys],
           OwnersOf(own, iown), NEW r \in Reqs, Begins(r)
    PROVE  \E own2 : Extend(own, iown, own2, iown) /\ OwnersOf(own2, iown)' /\ own2[Len(files) + 1] = In(r).key
<1>1. Only(r) /\ cfg' = cfg /\ Is(r, UserWrites) /\ In(r).key \in Keys /\ rows' = rows /\ inodes' = inodes
  BY Kinds, Given DEF Begins, Only, Is
<1>2. PICK k \in Keys : k = In(r).key
  BY <1>1
<1>3. Len(files) \in Nat /\ Len(inodes) \in Nat /\ Len(files') = Len(files) + 1 /\ files'[Len(files) + 1] = 0
      /\ \A d \in 1..Len(files) : files'[d] = files[d]
  BY Lengths, BeginEffect
<1>4. PICK own2 : own2 = [d \in 1..(Len(files) + 1) |-> IF d \in 1..Len(files) THEN own[d] ELSE k]
  OBVIOUS
<1>5. own2 \in [1..Len(files') -> Keys] /\ own2[Len(files) + 1] = k /\ \A d \in 1..Len(files) : own2[d] = own[d]
  BY <1>3, <1>4
<1>6. Extend(own, iown, own2, iown)
  BY <1>1, <1>3, <1>5 DEF Extend
<1>7. \A d \in 1..Len(files') : d \in 1..Len(files) \/ d = Len(files) + 1
  BY <1>3
<1>8. Owners(own2, iown)'
  <2>1. \A j \in Keys : rows'[j] # NoRow => rows'[j].id \in 1..Len(files') /\ own2[rows'[j].id] = j
    BY <1>1, <1>3, <1>5 DEF OwnersOf, Owners
  <2>2. \A d \in 1..Len(files') : files'[d] # 0 => files'[d] \in 1..Len(inodes') /\ iown[files'[d]] = own2[d]
    BY <1>1, <1>3, <1>5, <1>7 DEF OwnersOf, Owners
  <2>3. \A i \in 1..Len(inodes') : \A h \in 1..2 : inodes'[i][h] # Blank => PutTo(iown[i], inodes'[i][h])
    BY <1>1 DEF OwnersOf, Owners
  <2> QED
    BY <1>1, <1>5, <1>6, <2>1, <2>2, <2>3, PutToStays DEF Owners, Extend
<1>9. Holds(own2, iown, r)'
  <2>1. req'[r].todo = req[r].todo /\ req'[r].got = req[r].got /\ req'[r].pc = "create"
        /\ req'[r].row.id \in 1..Len(files') /\ own2[req'[r].row.id] = In(r).key
    BY <1>2, <1>3, <1>5 DEF Begins, Kept
  <2>2. Holds(own, iown, r)
    BY DEF OwnersOf
  <2> QED
    BY <1>1, <1>3, <1>6, <2>1, <2>2, WriterHolds
<1> QED
  BY <1>1, <1>2, <1>5, <1>6, <1>8, <1>9, OwnersByStep

(* A writer that goes on. *)
LEMMA OwnersWrite ==
    ASSUME UserTypes, UserTypes', NEW own \in [1..Len(files) -> Keys], NEW iown \in [1..Len(inodes) -> Keys],
           OwnersOf(own, iown), NEW r \in Reqs,
           Unlinks(r) \/ Truncates(r) \/ Writes(r, "head", 1, "rest") \/ Writes(r, "rest", 2, "saveRow")
           \/ Saves(r) \/ Drops(r)
    PROVE  Extend(own, iown, own, iown) /\ OwnersOf(own, iown)' /\ NewOwners(r, own, iown)
<1>1. Only(r) /\ cfg' = cfg /\ req'[r].row = req[r].row /\ req'[r].todo = req[r].todo /\ req'[r].got = req[r].got
      /\ req[r].pc \in {"unlink", "create", "head", "rest", "saveRow", "deleteRow"}
      /\ req'[r].pc \notin {"read", "readRest"} /\ ~Begins(r) 
  BY DEF Unlinks, Truncates, Writes, Saves, Drops, GoesOn, Only, Begins
<1>2. Placed(r) /\ Holds(own, iown, r) /\ Len(files') \in Nat /\ Len(inodes') \in Nat
  BY DEF UserTypes, OwnersOf
<1>3. Is(r, UserWrites) /\ In(r).key \in Keys /\ req[r].row.id \in 1..Len(files) /\ own[req[r].row.id] = In(r).key
  BY <1>1, <1>2, Kinds, Given DEF Placed, InFlight, Holds, Is
<1>a. Len(files) \in Nat /\ Len(inodes) \in Nat
  BY Lengths
<1>4. CASE Unlinks(r)
  <2>1. UNCHANGED <<rows, inodes>> /\ Len(files') = Len(files) /\ req'[r].pc \notin {"head", "rest", "saveRow"}
        /\ files'[req[r].row.id] = 0 /\ \A d \in 1..Len(files) : d # req[r].row.id => files'[d] = files[d]
    BY <1>3, <1>4, UnlinkEffect DEF Unlinks, GoesOn
  <2>2. Extend(own, iown, own, iown)
    BY <1>a, <2>1 DEF Extend
  <2>3. \A d \in 1..Len(files) : files'[d] # 0 => files'[d] \in 1..Len(inodes) /\ iown[files'[d]] = own[d]
    BY <1>3, <2>1 DEF OwnersOf, Owners
  <2>4. Owners(own, iown)'
    BY <1>1, <2>1, <2>3, PutToStays DEF OwnersOf, Owners
  <2>5. Holds(own, iown, r)'
    BY <1>1, <1>2, <1>3, <2>1, <2>2, WriterHolds
  <2>6. ~Makes(r)
    BY <1>4 DEF Unlinks, Makes, GoesOn
  <2> QED
    BY <1>1, <2>2, <2>4, <2>5, <2>6, OwnersByStep DEF NewOwners
<1>5. CASE Truncates(r)
  <2>0. files[req[r].row.id] # 0 /\ req'[r].ino = files[req[r].row.id] /\ UNCHANGED <<rows, files>>
    BY <1>5 DEF Truncates
  <2>1. req'[r].ino \in 1..Len(inodes) /\ iown[req'[r].ino] = In(r).key
    BY <1>3, <2>0 DEF OwnersOf, Owners
  <2>2. Len(inodes') = Len(inodes) /\ inodes'[req'[r].ino] = <<Blank, Blank>>
        /\ \A j \in 1..Len(inodes) : j # req'[r].ino => inodes'[j] = inodes[j]
    BY <1>5, <2>1, TruncateEffect
  <2>3. Extend(own, iown, own, iown)
    BY <1>a, <2>0, <2>2 DEF Extend
  <2>4. \A i \in 1..Len(inodes) : \A h \in 1..2 : inodes'[i][h] # Blank => PutTo(iown[i], inodes'[i][h])
    BY <2>2, BlankFile DEF OwnersOf, Owners
  <2>5. Owners(own, iown)'
    BY <1>1, <2>0, <2>2, <2>4, PutToStays DEF OwnersOf, Owners
  <2>6. Holds(own, iown, r)'
    BY <1>1, <1>2, <1>3, <2>0, <2>1, <2>2, <2>3, WriterHolds
  <2>7. ~Makes(r)
    BY <1>5 DEF Truncates, Makes
  <2> QED
    BY <1>1, <2>3, <2>5, <2>6, <2>7, OwnersByStep DEF NewOwners
<1>6. ASSUME NEW pc \in {"head", "rest"}, NEW half \in {1, 2}, NEW next \in {"rest", "saveRow"}, Writes(r, pc, half, next)
      PROVE  Extend(own, iown, own, iown) /\ OwnersOf(own, iown)' /\ NewOwners(r, own, iown)
  <2>0. UNCHANGED <<rows, files>> /\ req'[r].ino = req[r].ino /\ req[r].pc \in {"head", "rest"}
    BY <1>6 DEF Writes, GoesOn
  <2>1. req[r].ino \in 1..Len(inodes) /\ iown[req[r].ino] = In(r).key
    BY <1>2, <2>0 DEF Holds
  <2>2. /\ Len(inodes') = Len(inodes)
        /\ inodes'[req[r].ino][half] = In(r).body
        /\ \A g \in {1, 2} \ {half} : inodes'[req[r].ino][g] = inodes[req[r].ino][g]
        /\ \A j \in 1..Len(inodes) : j # req[r].ino => inodes'[j] = inodes[j]
    BY <1>6, <2>1, WriteEffect
  <2>3. Extend(own, iown, own, iown)
    BY <1>a, <2>0, <2>2 DEF Extend
  <2>4. PutTo(In(r).key, In(r).body)
    BY <1>2, <2>0 DEF PutTo, Placed
  <2>5. \A i \in 1..Len(inodes) : \A h \in {1, 2} : inodes'[i][h] # Blank => PutTo(iown[i], inodes'[i][h])
    <3>1. SUFFICES ASSUME NEW i \in 1..Len(inodes), NEW h \in {1, 2}, inodes'[i][h] # Blank
                   PROVE  PutTo(iown[i], inodes'[i][h])
      OBVIOUS
    <3>2. inodes[i][h] # Blank => PutTo(iown[i], inodes[i][h])
      BY DEF OwnersOf, Owners
    <3>3. CASE i = req[r].ino /\ h = half
      BY <2>1, <2>2, <2>4, <3>3
    <3>4. CASE i = req[r].ino /\ h # half
      BY <2>2, <3>1, <3>2, <3>4
    <3>5. CASE i # req[r].ino
      BY <2>2, <3>1, <3>2, <3>5
    <3> QED
      BY <3>3, <3>4, <3>5
  <2>6. 1..2 = {1, 2}
    OBVIOUS
  <2>7. Owners(own, iown)'
    BY <1>1, <2>0, <2>2, <2>5, <2>6, PutToStays DEF OwnersOf, Owners
  <2>8. Holds(own, iown, r)'
    BY <1>1, <1>2, <1>3, <2>0, <2>1, <2>2, <2>3, WriterHolds
  <2>9. ~Makes(r)
    BY <2>0 DEF Makes, GoesOn
  <2> QED
    BY <1>1, <2>3, <2>7, <2>8, <2>9, OwnersByStep DEF NewOwners
<1>7. CASE Saves(r) \/ Drops(r)
  <2>0. UNCHANGED <<files, inodes>> /\ req'[r].pc = "done" /\ ~Makes(r)
    BY <1>7 DEF Saves, Drops, GoesOn, Makes
  <2>1. Extend(own, iown, own, iown)
    BY <1>a, <2>0 DEF Extend
  <2>2. \A k \in Keys : rows'[k] # NoRow => rows'[k].id \in 1..Len(files) /\ own[rows'[k].id] = k
    <3>1. CASE Saves(r)
      BY <1>3, <3>1, SaveEffect DEF OwnersOf, Owners
    <3>2. CASE Drops(r)
      BY <1>3, <3>2, DropEffect DEF OwnersOf, Owners
    <3> QED
      BY <1>7, <3>1, <3>2
  <2>3. Owners(own, iown)'
    BY <1>1, <2>0, <2>2, PutToStays DEF OwnersOf, Owners
  <2>4. Holds(own, iown, r)'
    BY <1>1, <1>2, <1>3, <2>0, <2>1, WriterHolds
  <2> QED
    BY <1>1, <2>0, <2>1, <2>3, <2>4, OwnersByStep DEF NewOwners
<1> QED
  BY <1>4, <1>5, <1>6, <1>7

(* The owners after a new file: its inode belongs to the key of the        *)
(* request.                                                                *)
LEMMA OwnersMake ==
    ASSUME UserTypes, UserTypes', NEW own \in [1..Len(files) -> Keys], NEW iown \in [1..Len(inodes) -> Keys],
           OwnersOf(own, iown), NEW r \in Reqs, Makes(r)
    PROVE  \E iown2 : Extend(own, iown, own, iown2) /\ OwnersOf(own, iown2)' /\ iown2[Len(inodes) + 1] = In(r).key
<1>1. Only(r) /\ cfg' = cfg /\ req'[r].row = req[r].row /\ req'[r].todo = req[r].todo /\ req'[r].got = req[r].got
      /\ req[r].pc = "create" /\ req'[r].pc = "head" /\ req'[r].ino = Len(inodes) + 1 /\ rows' = rows
  BY DEF Makes, GoesOn, Only
<1>2. Placed(r) /\ Holds(own, iown, r) /\ Len(files') \in Nat /\ Len(inodes') \in Nat
  BY DEF UserTypes, OwnersOf
<1>3. Is(r, UserWrites) /\ In(r).key \in Keys /\ req[r].row.id \in 1..Len(files) /\ own[req[r].row.id] = In(r).key
  BY <1>1, <1>2, Kinds, Given DEF Placed, InFlight, Holds, Is
<1>4. PICK k \in Keys : k = In(r).key
  BY <1>3
<1>5. /\ Len(inodes) \in Nat /\ Len(files) \in Nat /\ Len(inodes') = Len(inodes) + 1
      /\ inodes'[Len(inodes) + 1] = <<Blank, Blank>>
      /\ \A j \in 1..Len(inodes) : inodes'[j] = inodes[j]
      /\ Len(files') = Len(files) /\ files'[req[r].row.id] = Len(inodes) + 1
      /\ \A d \in 1..Len(files) : d # req[r].row.id => files'[d] = files[d]
  BY <1>3, MakeEffect, Lengths
<1>6. PICK iown2 : iown2 = [i \in 1..(Len(inodes) + 1) |-> IF i \in 1..Len(inodes) THEN iown[i] ELSE k]
  OBVIOUS
<1>7. iown2 \in [1..Len(inodes') -> Keys] /\ iown2[Len(inodes) + 1] = k /\ \A i \in 1..Len(inodes) : iown2[i] = iown[i]
  BY <1>5, <1>6
<1>8. Extend(own, iown, own, iown2)
  BY <1>5, <1>7 DEF Extend
<1>9. \A i \in 1..Len(inodes') : i \in 1..Len(inodes) \/ i = Len(inodes) + 1
  BY <1>5
<1>10. \A d \in 1..Len(files') : files'[d] # 0 => files'[d] \in 1..Len(inodes') /\ iown2[files'[d]] = own[d]
  <2>1. SUFFICES ASSUME NEW d \in 1..Len(files), files'[d] # 0
                 PROVE  files'[d] \in 1..Len(inodes') /\ iown2[files'[d]] = own[d]
    BY <1>5
  <2>2. CASE d = req[r].row.id
    BY <1>3, <1>4, <1>5, <1>7, <2>2
  <2>3. CASE d # req[r].row.id
    BY <1>5, <1>7, <2>1, <2>3 DEF OwnersOf, Owners
  <2> QED
    BY <2>2, <2>3
<1>11. \A i \in 1..Len(inodes') : \A h \in 1..2 : inodes'[i][h] # Blank => PutTo(iown2[i], inodes'[i][h])
  BY <1>5, <1>7, <1>9, BlankFile DEF OwnersOf, Owners
<1>12. Owners(own, iown2)'
  BY <1>1, <1>5, <1>7, <1>10, <1>11, PutToStays DEF OwnersOf, Owners
<1>13. Holds(own, iown2, r)'
  <2>1. req'[r].ino \in 1..Len(inodes') /\ iown2[req'[r].ino] = In(r).key
    BY <1>1, <1>4, <1>5, <1>7
  <2>2. req'[r].row.id \in 1..Len(files') /\ own[req'[r].row.id] = In(r).key
    BY <1>1, <1>3, <1>5
  <2> QED
    BY <1>1, <1>2, <1>3, <1>8, <2>1, <2>2, WriterHolds
<1> QED
  BY <1>1, <1>4, <1>7, <1>8, <1>12, <1>13, OwnersByStep

(* Whatever step a request takes, all it holds stays of its key. *)
LEMMA OwnersNext ==
    ASSUME UserTypes, UserTypes', NEW own \in [1..Len(files) -> Keys], NEW iown \in [1..Len(inodes) -> Keys],
           OwnersOf(own, iown), NEW r \in Reqs, Stepping(r)
    PROVE  \E own2, iown2 : /\ Extend(own, iown, own2, iown2) /\ OwnersOf(own2, iown2)'
                            /\ NewOwners(r, own2, iown2)
<1>1. CASE Begins(r)
  <2>1. ~Makes(r)
    BY <1>1 DEF Begins, Makes, GoesOn
  <2> QED
    BY <1>1, <2>1, OwnersBegin DEF NewOwners
<1>2. CASE Makes(r)
  <2>1. ~Begins(r)
    BY <1>2 DEF Begins, Makes, GoesOn
  <2> QED
    BY <1>2, <2>1, OwnersMake DEF NewOwners
<1> QED
  BY <1>1, <1>2, OwnersQuiet, OwnersWrite DEF Stepping

(* A step of a request touches the row and the files of its key only.      *)
Writer(r) == Is(r, UserWrites)

Touches(own, iown, own2, r) ==
    /\ \A i \in 1..Len(inodes) : inodes'[i] # inodes[i] => Writer(r) /\ iown[i] = In(r).key
    /\ \A d \in 1..Len(files) : files'[d] # files[d] => Writer(r) /\ own[d] = In(r).key
    /\ \A k \in Keys : rows'[k] # rows[k] => Writer(r) /\ k = In(r).key
    /\ \A d \in 1..Len(files') : d \notin 1..Len(files) => Writer(r) /\ own2[d] = In(r).key

(* Each step touches what its owner is only. *)
LEMMA TouchesOwn ==
    ASSUME UserTypes, UserTypes', NEW own \in [1..Len(files) -> Keys], NEW iown \in [1..Len(inodes) -> Keys],
           OwnersOf(own, iown), NEW r \in Reqs, Stepping(r), NEW own2, NEW iown2, Extend(own, iown, own2, iown2),
           NewOwners(r, own2, iown2)
    PROVE  Touches(own, iown, own2, r)
<1>1. Placed(r) /\ Holds(own, iown, r) /\ Len(files) \in Nat /\ Len(inodes) \in Nat
  BY DEF UserTypes, OwnersOf
<1>2. CASE UNCHANGED <<rows, files, inodes>>
  BY <1>2 DEF Touches
<1>3. CASE Begins(r)
  <2>1. Writer(r) /\ UNCHANGED <<rows, inodes>>
    BY <1>3, Kinds DEF Begins, Writer
  <2>2. Len(files') = Len(files) + 1 /\ \A d \in 1..Len(files) : files'[d] = files[d]
    BY <1>3, BeginEffect
  <2>3. own2[Len(files) + 1] = In(r).key
    BY <1>3 DEF NewOwners
  <2>4. \A d \in 1..Len(files') : d \notin 1..Len(files) => d = Len(files) + 1
    BY <1>1, <2>2
  <2> QED
    BY <2>1, <2>2, <2>3, <2>4 DEF Touches
<1>4. ASSUME req[r].pc \in {"unlink", "create", "head", "rest", "saveRow", "deleteRow"}
      PROVE  Writer(r) /\ req[r].row.id \in 1..Len(files) /\ own[req[r].row.id] = In(r).key
  BY <1>1, <1>4, Kinds DEF Placed, InFlight, Holds, Writer
<1>5. CASE Unlinks(r)
  <2>1. Writer(r) /\ req[r].row.id \in 1..Len(files) /\ own[req[r].row.id] = In(r).key /\ UNCHANGED <<rows, inodes>>
    BY <1>4, <1>5 DEF Unlinks, GoesOn
  <2> QED
    BY <1>5, <2>1, UnlinkEffect DEF Touches
<1>6. CASE Truncates(r)
  <2>1. Writer(r) /\ req[r].row.id \in 1..Len(files) /\ own[req[r].row.id] = In(r).key /\ UNCHANGED <<rows, files>>
        /\ req'[r].ino = files[req[r].row.id] /\ files[req[r].row.id] # 0
    BY <1>4, <1>6 DEF Truncates, GoesOn
  <2>2. req'[r].ino \in 1..Len(inodes) /\ iown[req'[r].ino] = In(r).key
    BY <2>1 DEF OwnersOf, Owners
  <2> QED
    BY <1>6, <2>1, <2>2, TruncateEffect DEF Touches
<1>7. CASE Makes(r)
  <2>1. Writer(r) /\ req[r].row.id \in 1..Len(files) /\ own[req[r].row.id] = In(r).key /\ UNCHANGED rows
    BY <1>4, <1>7 DEF Makes, GoesOn
  <2> QED
    BY <1>7, <2>1, MakeEffect DEF Touches
<1>8. ASSUME NEW pc \in {"head", "rest"}, NEW half \in {1, 2}, NEW next \in {"rest", "saveRow"}, Writes(r, pc, half, next)
      PROVE  Touches(own, iown, own2, r)
  <2>1. Writer(r) /\ UNCHANGED <<rows, files>> /\ req[r].pc \in {"head", "rest"}
    BY <1>4, <1>8 DEF Writes, GoesOn
  <2>2. req[r].ino \in 1..Len(inodes) /\ iown[req[r].ino] = In(r).key
    BY <1>1, <2>1 DEF Holds
  <2> QED
    BY <1>8, <2>1, <2>2, WriteEffect DEF Touches
<1>9. CASE Saves(r) \/ Drops(r)
  <2>1. Writer(r) /\ UNCHANGED <<files, inodes>>
    BY <1>4, <1>9 DEF Saves, Drops, GoesOn
  <2>2. \A k \in Keys : rows'[k] # rows[k] => k = In(r).key
    BY <1>9, <2>1, SaveEffect, DropEffect DEF Writer
  <2> QED
    BY <2>1, <2>2 DEF Touches
<1> QED
  BY <1>2, <1>3, <1>5, <1>6, <1>7, <1>8, <1>9
     DEF Stepping, Idles, Takes, Fails, Reading, Lists, Opens, Skips, CopiesHead, CopiesRest, Looks, user

(* Who is at work on a key. *)
LEMMA WorksNext ==
    ASSUME UserTypes, NEW r \in Reqs, Stepping(r), NEW w \in Reqs, NEW k
    PROVE  /\ w # r => (Works(w, k)' <=> Works(w, k))
           /\ Works(r, k)' => Writer(r) /\ k = In(r).key /\ (Works(r, k) \/ Begins(r) \/ Takes(r))
<1>1. Only(r) /\ cfg' = cfg /\ Reqs' = Reqs
  BY StepOnly, SameGiven DEF Only
<1>2. w # r => (Works(w, k)' <=> Works(w, k))
  BY <1>1 DEF Only, Works, Is, In, InFlight
<1>3. Works(r, k)' => Writer(r) /\ k = In(r).key
  BY <1>1 DEF Works, Writer, Is, In
<1>4. ASSUME Works(r, k)' PROVE Works(r, k) \/ Begins(r) \/ Takes(r)
  <2>1. InFlight(r)' /\ Writer(r) /\ Placed(r) /\ k = In(r).key
    BY <1>3, <1>4 DEF Works, UserTypes
  <2>2. req'[r].pc \notin {"new", "done"}
    BY <2>1 DEF InFlight
  <2>3. ~Idles(r) /\ ~Reading(r)
    BY <2>1, <2>2, Kinds DEF Idles, Reading, Lists, Opens, Skips, CopiesHead, CopiesRest, Looks, Writer
  <2>4. Begins(r) \/ Takes(r) \/ InFlight(r)
    BY <2>3 DEF Stepping, Unlinks, Truncates, Makes, Writes, Saves, Drops, Fails, GoesOn, InFlight
  <2> QED
    BY <2>1, <2>4 DEF Works, Writer
<1> QED
  BY <1>2, <1>3, <1>4

(* Marks stay: a key that is apart was apart. *)
LEMMA ApartNext == ASSUME NEW r, Only(r), NEW k, Apart(k)' PROVE Apart(k)
BY DEF Only, Apart

(* A key that is apart has at most one writer, after any step. *)
LEMMA OneWriterNext ==
    ASSUME UserTypes, NEW r \in Reqs, Stepping(r), OneWriter
    PROVE  OneWriter'
<1>1. Only(r) /\ Reqs' = Reqs
  BY StepOnly, SameGiven DEF Only
<1>2. SUFFICES ASSUME NEW k \in Keys, Apart(k)', NEW v \in Reqs, NEW w \in Reqs, Works(v, k)', Works(w, k)'
               PROVE  v = w
  BY <1>1 DEF OneWriter
<1>3. Apart(k)
  BY <1>1, <1>2, ApartNext
<1>4. CASE Begins(r) \/ Takes(r)
  <2>1. Free(r)
    BY <1>4 DEF Begins, Takes
  <2>2. Works(r, k)' => \A u \in Reqs : ~Works(u, k)
    BY <1>2, <2>1, WorksNext DEF Free, Apart
  <2> QED
    BY <1>2, <1>3, <2>2, WorksNext DEF OneWriter
<1>5. CASE ~Begins(r) /\ ~Takes(r)
  BY <1>2, <1>3, <1>5, WorksNext DEF OneWriter
<1> QED
  BY <1>4, <1>5

(* No two artifacts share a file, after any step. *)
LEMMA OneNameNext ==
    ASSUME UserTypes, UserTypes', NEW own \in [1..Len(files) -> Keys], NEW iown \in [1..Len(inodes) -> Keys],
           OwnersOf(own, iown), NEW r \in Reqs, Stepping(r), OneName
    PROVE  OneName'
<1>1. Placed(r) /\ Holds(own, iown, r) /\ Len(files) \in Nat /\ Len(inodes) \in Nat
  BY DEF UserTypes, OwnersOf
<1>2. CASE files' = files
  BY <1>2 DEF OneName
<1>3. CASE Begins(r)
  <2>1. Len(files') = Len(files) + 1 /\ files'[Len(files) + 1] = 0 /\ \A d \in 1..Len(files) : files'[d] = files[d]
    BY <1>3, BeginEffect
  <2>2. \A d \in 1..Len(files') : d \in 1..Len(files) \/ d = Len(files) + 1
    BY <1>1, <2>1
  <2> QED
    BY <2>1, <2>2 DEF OneName
<1>4. CASE Unlinks(r)
  <2>1. req[r].row.id \in 1..Len(files)
    BY <1>1, <1>4 DEF Unlinks, GoesOn, Placed, InFlight, Holds
  <2>2. Len(files') = Len(files) /\ files'[req[r].row.id] = 0
        /\ \A d \in 1..Len(files) : d # req[r].row.id => files'[d] = files[d]
    BY <1>4, <2>1, UnlinkEffect
  <2> QED
    BY <2>1, <2>2 DEF OneName
<1>5. CASE Makes(r)
  <2>1. req[r].row.id \in 1..Len(files)
    BY <1>1, <1>5, Kinds DEF Makes, GoesOn, Placed, InFlight, Holds
  <2>2. Len(files') = Len(files) /\ files'[req[r].row.id] = Len(inodes) + 1
        /\ \A d \in 1..Len(files) : d # req[r].row.id => files'[d] = files[d]
    BY <1>5, <2>1, MakeEffect
  <2>3. \A d \in 1..Len(files) : files[d] # 0 => files[d] \in 1..Len(inodes)
    BY DEF OwnersOf, Owners
  <2>4. \A d \in 1..Len(files) : files[d] # Len(inodes) + 1
    BY <1>1, <2>3
  <2> QED
    BY <2>1, <2>2, <2>4 DEF OneName
<1> QED
  BY <1>2, <1>3, <1>4, <1>5
     DEF Stepping, Idles, Takes, Fails, Truncates, Writes, Saves, Drops, Reading, Lists, Opens, Skips, CopiesHead,
         CopiesRest, Looks, user

(* The writer at work on a key that is apart has done what Progress says.  *)
LEMMA AtWork ==
    ASSUME NEW own, FilesWhole(own), ~cfg.bodyFails, NEW k \in Keys, Apart(k), NEW w \in Reqs, Works(w, k)
    PROVE  Progress(w)
BY DEF FilesWhole, KeyFiles

(* Who is at a file is its writer. *)
LEMMA PlacedWorks ==
    ASSUME UserTypes, NEW w \in Reqs, req[w].pc \in {"unlink", "create", "head", "rest", "saveRow", "deleteRow"}
    PROVE  Writer(w) /\ Works(w, In(w).key) /\ In(w).key \in Keys
<1>1. Placed(w) /\ Writer(w)
  BY Kinds DEF UserTypes, Placed, Writer
<1> QED
  BY <1>1, Given DEF Works, Writer, InFlight, Is

(* A file that a reader met with nobody at work on its key stays as it is: *)
(* a later PUT unlinks it and makes another one.                           *)
LEMMA ReadsNext ==
    ASSUME UserTypes, UserTypes', NEW own \in [1..Len(files) -> Keys], NEW iown \in [1..Len(inodes) -> Keys],
           OwnersOf(own, iown), NEW r \in Reqs, Stepping(r), NEW own2, NEW iown2, Extend(own, iown, own2, iown2),
           NewOwners(r, own2, iown2), FilesWhole(own), QuietReads
    PROVE  QuietReads'
<1>1. Only(r) /\ Reqs' = Reqs /\ cfg' = cfg
  BY StepOnly, SameGiven DEF Only
<1>2. Touches(own, iown, own2, r)
  BY TouchesOwn
<1>3. SUFFICES ASSUME ~cfg.bodyFails, NEW x \in Reqs, req'[x].pc \in {"read", "readRest"}, req'[x].quiet,
                      <<"user", req'[x].path>> \notin overlap'
               PROVE  /\ inodes'[req'[x].ino][1] = inodes'[req'[x].ino][2] /\ inodes'[req'[x].ino][1] # Blank
                      /\ req'[x].pc = "readRest" => req'[x].half = inodes'[req'[x].ino][1]
                      /\ \A w \in Reqs : req'[w].pc \in {"head", "rest"} => req'[w].ino # req'[x].ino
  BY <1>1 DEF QuietReads, WholeFile, Apart
<1>4. Placed(r) /\ Holds(own, iown, r) /\ Holds(own, iown, x) /\ Len(inodes) \in Nat
  BY DEF UserTypes, OwnersOf
<1>5. Apart(req'[x].path)
  BY <1>1, <1>3 DEF Only, Apart
(* A reader that had the file before. *)
<1>6. ASSUME req[x].pc \in {"read", "readRest"}, req'[x].ino = req[x].ino, req'[x].path = req[x].path, req[x].quiet,
             req'[x].pc = "readRest" => req'[x].half = inodes[req[x].ino][1]
      PROVE  /\ inodes'[req'[x].ino][1] = inodes'[req'[x].ino][2] /\ inodes'[req'[x].ino][1] # Blank
             /\ req'[x].pc = "readRest" => req'[x].half = inodes'[req'[x].ino][1]
             /\ \A w \in Reqs : req'[w].pc \in {"head", "rest"} => req'[w].ino # req'[x].ino
  <2>1. WholeFile(req[x].ino) /\ \A w \in Reqs : req[w].pc \in {"head", "rest"} => req[w].ino # req[x].ino
    BY <1>3, <1>5, <1>6 DEF QuietReads
  <2>2. req[x].ino \in 1..Len(inodes) /\ iown[req[x].ino] = req[x].path
    BY <1>4, <1>6 DEF Holds
  <2>3. ~Truncates(r) \/ In(r).key # req[x].path
    <3>1. SUFFICES ASSUME Truncates(r), In(r).key = req[x].path PROVE FALSE
      OBVIOUS
    <3>2. Works(r, In(r).key) /\ In(r).key \in Keys /\ req[r].pc = "create" /\ files[req[r].row.id] # 0
      BY <3>1, PlacedWorks DEF Truncates, GoesOn
    <3>3. Progress(r)
      BY <1>3, <1>5, <1>6, <3>1, <3>2, AtWork
    <3> QED
      BY <3>2, <3>3 DEF Progress
  <2>4. inodes'[req[x].ino] = inodes[req[x].ino]
    <3>1. SUFFICES ASSUME inodes'[req[x].ino] # inodes[req[x].ino] PROVE FALSE
      OBVIOUS
    <3>2. In(r).key = req[x].path
      BY <1>2, <2>2, <3>1 DEF Touches
    <3>3. CASE Makes(r)
      <4>1. req[r].row.id \in 1..Len(files)
        BY <1>4, <3>3, Kinds DEF Makes, GoesOn, Placed, InFlight, Holds
      <4> QED
        BY <2>2, <3>1, <3>3, <4>1, MakeEffect
    <3>4. ASSUME NEW pc \in {"head", "rest"}, NEW half \in {1, 2}, NEW next \in {"rest", "saveRow"}, Writes(r, pc, half, next)
          PROVE  FALSE
      <4>1. req[r].pc \in {"head", "rest"}
        BY <3>4 DEF Writes, GoesOn
      <4>2. req[r].ino \in 1..Len(inodes) /\ req[r].ino # req[x].ino
        BY <1>4, <2>1, <4>1 DEF Holds
      <4> QED
        BY <2>2, <3>1, <3>4, <4>2, WriteEffect
    <3>5. CASE inodes' = inodes
      BY <3>1, <3>5
    <3> QED
      BY <2>3, <3>2, <3>3, <3>4, <3>5
         DEF Stepping, Idles, Begins, Takes, Unlinks, Fails, Saves, Drops, Reading, Lists, Opens, Skips, CopiesHead,
             CopiesRest, Looks, user
  <2>5. \A w \in Reqs : req'[w].pc \in {"head", "rest"} => req'[w].ino # req[x].ino
    <3>1. SUFFICES ASSUME NEW w \in Reqs, req'[w].pc \in {"head", "rest"}, req'[w].ino = req[x].ino PROVE FALSE
      OBVIOUS
    <3>2. w = r
      BY <1>1, <2>1, <3>1 DEF Only
    <3>3. CASE Makes(r)
      BY <1>4, <2>2, <3>1, <3>2, <3>3 DEF Makes
    <3>4. CASE Truncates(r)
      <4>1. req[r].row.id \in 1..Len(files) /\ files[req[r].row.id] # 0 /\ req'[r].ino = files[req[r].row.id]
            /\ own[req[r].row.id] = In(r).key
        BY <1>4, <3>4, Kinds DEF Truncates, GoesOn, Placed, InFlight, Holds
      <4>2. iown[req[x].ino] = In(r).key
        BY <3>1, <3>2, <4>1 DEF OwnersOf, Owners
      <4> QED
        BY <2>2, <2>3, <3>4, <4>2
    <3>5. CASE Writes(r, "head", 1, "rest")
      BY <2>1, <3>1, <3>2, <3>5 DEF Writes, GoesOn
    <3> QED
      BY <3>1, <3>2, <3>3, <3>4, <3>5
         DEF Stepping, Idles, Begins, Takes, Unlinks, Fails, Saves, Drops, Writes, GoesOn,
             Reading, Lists, Opens, Skips, CopiesHead, CopiesRest
  <2> QED
    BY <1>6, <2>1, <2>4, <2>5 DEF WholeFile
<1>7. CASE x # r
  <2>1. req'[x] = req[x]
    BY <1>1, <1>7 DEF Only
  <2>2. req[x].pc = "readRest" => req[x].half = inodes[req[x].ino][1]
    BY <1>3, <1>5, <2>1 DEF QuietReads
  <2> QED
    BY <1>3, <1>6, <2>1, <2>2
<1>8. CASE x = r /\ CopiesHead(r)
  BY <1>3, <1>6, <1>8 DEF CopiesHead
<1>9. CASE x = r /\ Opens(r)
  <2>1. PICK kid \in req[r].todo : files[kid[2]] # 0 /\ req'[r].ino = files[kid[2]] /\ req'[r].path = kid[1]
                                   /\ req'[r].quiet = (WriterOn(kid[1]) = {})
    BY <1>9 DEF Opens
  <2>2. kid[2] \in 1..Len(files) /\ own[kid[2]] = kid[1] /\ kid[1] \in Keys
    BY <1>4 DEF Holds
  <2>3. WriterOn(kid[1]) = {}
    <3>1. PICK b : b = (WriterOn(kid[1]) = {})
      OBVIOUS
    <3>2. req'[r].quiet = b
      BY <2>1, <3>1
    <3>3. b
      BY <1>3, <1>9, <3>2
    <3> QED
      BY <3>1, <3>3
  <2>4. \A w \in Reqs : ~Works(w, kid[1])
    BY <2>3, WritersAre
  <2>5. WholeFile(files[kid[2]])
    BY <1>3, <1>5, <1>9, <2>1, <2>2, <2>4 DEF FilesWhole, KeyFiles
  <2>6. iown[files[kid[2]]] = kid[1]
    BY <2>1, <2>2 DEF OwnersOf, Owners
  <2>7. inodes' = inodes /\ req'[r].pc = "read"
    BY <1>9 DEF Opens, Looks, user
  <2>8. \A w \in Reqs : req'[w].pc \in {"head", "rest"} => req'[w].ino # req'[r].ino
    <3>1. SUFFICES ASSUME NEW w \in Reqs, req'[w].pc \in {"head", "rest"}, req'[w].ino = files[kid[2]] PROVE FALSE
      BY <2>1
    <3>2. w # r /\ req'[w] = req[w]
      BY <1>1, <2>7, <3>1 DEF Only
    <3>3. Holds(own, iown, w) /\ Works(w, In(w).key)
      BY <3>1, <3>2, PlacedWorks DEF OwnersOf
    <3>4. In(w).key = kid[1]
      BY <2>6, <3>1, <3>2, <3>3 DEF Holds
    <3> QED
      BY <2>4, <3>3, <3>4
  <2> QED
    BY <1>9, <2>1, <2>5, <2>7, <2>8 DEF WholeFile
<1>10. x = r => Opens(r) \/ CopiesHead(r)
  BY <1>3 DEF Stepping, Idles, Begins, Takes, Unlinks, Truncates, Makes, Fails, Saves, Drops, Writes, GoesOn,
              Reading, Lists, Skips, CopiesRest
<1> QED
  BY <1>7, <1>8, <1>9, <1>10

(* Hence what such a reader copied is whole. *)
LEMMA WholeNext ==
    ASSUME UserTypes, NEW r \in Reqs, Stepping(r), QuietReads, ReadWhole
    PROVE  ReadWhole'
<1>1. Only(r) /\ Reqs' = Reqs /\ cfg' = cfg
  BY StepOnly, SameGiven DEF Only
<1>2. SUFFICES ASSUME NEW x \in Reqs, NEW g \in req'[x].got, g.quiet, <<"user", g.key>> \notin overlap', ~cfg.bodyFails
               PROVE  g.content[1] = g.content[2] /\ g.content[1] # Blank
  BY <1>1 DEF ReadWhole
<1>3. <<"user", g.key>> \notin overlap
  BY <1>1, <1>2 DEF Only
<1>4. CASE g \in req[x].got
  BY <1>2, <1>3, <1>4 DEF ReadWhole
<1>5. CASE g \notin req[x].got
  <2>1. x = r
    BY <1>1, <1>2, <1>5 DEF Only
  <2>2. CopiesRest(r)
    BY <1>2, <1>5, <2>1 DEF Stepping, Idles, Begins, Kept, Takes, Unlinks, Truncates, Makes, Fails, Saves, Drops, Writes,
                             GoesOn, Reading, Lists, Opens, Skips, CopiesHead
  <2>3. g = [key |-> req[r].path, quiet |-> req[r].quiet, content |-> <<req[r].half, inodes[req[r].ino][2]>>]
    BY <1>2, <1>5, <2>1, <2>2 DEF CopiesRest
  <2>4. g.key = req[r].path /\ g.quiet = req[r].quiet /\ g.content[1] = req[r].half /\ g.content[2] = inodes[req[r].ino][2]
    BY <2>3
  <2>5. req[r].pc = "readRest" /\ Apart(req[r].path)
    BY <1>3, <2>2, <2>4 DEF CopiesRest, Apart
  <2>6. req[r].quiet
    BY <1>2, <2>4
  <2>7. WholeFile(req[r].ino) /\ req[r].half = inodes[req[r].ino][1]
    BY <1>2, <2>5, <2>6 DEF QuietReads
  <2> QED
    BY <2>4, <2>7 DEF WholeFile
<1> QED
  BY <1>4, <1>5

(* What is the same for a key that the step is not about. *)
LEMMA Elsewhere ==
    ASSUME UserTypes, UserTypes', NEW own \in [1..Len(files) -> Keys], NEW iown \in [1..Len(inodes) -> Keys],
           OwnersOf(own, iown), NEW r \in Reqs, Stepping(r), NEW own2, NEW iown2, Extend(own, iown, own2, iown2),
           NewOwners(r, own2, iown2), NEW k \in Keys, ~(Writer(r) /\ In(r).key = k) \/ Idles(r)
    PROVE  /\ \A w \in Reqs : (Works(w, k)' <=> Works(w, k)) /\ (Works(w, k) => w # r /\ req'[w] = req[w])
           /\ \A d \in 1..Len(files') : own2[d] = k => d \in 1..Len(files) /\ own[d] = k
           /\ \A d \in 1..Len(files) : own[d] = k => files'[d] = files[d]
           /\ \A i \in 1..Len(inodes) : iown[i] = k => inodes'[i] = inodes[i]
           /\ rows'[k] = rows[k]
<1>1. Touches(own, iown, own2, r) /\ Only(r)
  BY TouchesOwn, StepOnly
<1>2. ~Works(r, k) /\ ~Works(r, k)'
  <2>1. CASE Idles(r)
    <3>1. (~Begins(r) /\ ~Takes(r) /\ ~InFlight(r)) \/ ~Writer(r)
      BY <2>1 DEF Idles, Begins, Takes, InFlight, Writer
    <3>2. ~Works(r, k)
      BY <3>1 DEF Works, Writer
    <3> QED
      BY <3>1, <3>2, WorksNext
  <2>2. CASE ~(Writer(r) /\ In(r).key = k)
    BY <2>2, WorksNext DEF Works, Writer
  <2> QED
    BY <2>1, <2>2
<1>3. \A w \in Reqs : (Works(w, k)' <=> Works(w, k)) /\ (Works(w, k) => w # r /\ req'[w] = req[w])
  BY <1>1, <1>2, WorksNext DEF Only
<1>4. CASE ~(Writer(r) /\ In(r).key = k)
  BY <1>1, <1>3, <1>4 DEF Touches, Extend
<1>5. CASE Idles(r)
  BY <1>3, <1>5 DEF Idles, Extend, user
<1> QED
  BY <1>4, <1>5

(* The files of a key that the step is not about. *)
LEMMA KeyFilesElse ==
    ASSUME UserTypes, UserTypes', NEW own \in [1..Len(files) -> Keys], NEW iown \in [1..Len(inodes) -> Keys],
           OwnersOf(own, iown), NEW r \in Reqs, Stepping(r), NEW own2, NEW iown2, Extend(own, iown, own2, iown2),
           NewOwners(r, own2, iown2), NEW k \in Keys, ~(Writer(r) /\ In(r).key = k) \/ Idles(r),
           KeyFiles(own, k)
    PROVE  KeyFiles(own2, k)'
<1>1. /\ \A w \in Reqs : (Works(w, k)' <=> Works(w, k)) /\ (Works(w, k) => w # r /\ req'[w] = req[w])
      /\ \A d \in 1..Len(files') : own2[d] = k => d \in 1..Len(files) /\ own[d] = k
      /\ \A d \in 1..Len(files) : own[d] = k => files'[d] = files[d]
      /\ \A i \in 1..Len(inodes) : iown[i] = k => inodes'[i] = inodes[i]
  BY Elsewhere
<1>2. cfg' = cfg /\ Reqs' = Reqs
  BY StepOnly, SameGiven DEF Only
<1>3. ASSUME NEW w \in Reqs, Works(w, k)' PROVE Progress(w)'
  <2>1. Works(w, k) /\ req'[w] = req[w] /\ Progress(w) /\ Holds(own, iown, w) /\ Placed(w)
    BY <1>1, <1>3 DEF KeyFiles, OwnersOf, UserTypes
  <2>2. req[w].row.id \in 1..Len(files) /\ own[req[w].row.id] = k
    BY <2>1 DEF Works, Placed, Holds
  <2>3. files'[req[w].row.id] = files[req[w].row.id]
    BY <1>1, <2>2
  <2>4. req[w].pc \in {"head", "rest", "saveRow"} => inodes'[req[w].ino] = inodes[req[w].ino]
    BY <1>1, <2>1 DEF Holds, Works
  <2> QED
    BY <1>2, <2>1, <2>3, <2>4 DEF Progress, In
<1>4. ASSUME NEW d \in 1..Len(files'), own2[d] = k, files'[d] # 0
      PROVE  WholeFile(files[d])' \/ \E w \in Reqs : Works(w, k)' /\ req'[w].pc \in {"head", "rest"} /\ req'[w].row.id = d
  <2>1. d \in 1..Len(files) /\ own[d] = k /\ files'[d] = files[d]
    BY <1>1, <1>4
  <2>2. files[d] \in 1..Len(inodes) /\ iown[files[d]] = k
    BY <1>4, <2>1 DEF OwnersOf, Owners
  <2>3. inodes'[files'[d]] = inodes[files[d]]
    BY <1>1, <2>1, <2>2
  <2>4. WholeFile(files[d]) \/ \E w \in Reqs : Works(w, k) /\ req[w].pc \in {"head", "rest"} /\ req[w].row.id = d
    BY <1>4, <2>1 DEF KeyFiles
  <2>5. CASE WholeFile(files[d])
    BY <2>3, <2>5 DEF WholeFile
  <2>6. CASE \E w \in Reqs : Works(w, k) /\ req[w].pc \in {"head", "rest"} /\ req[w].row.id = d
    BY <1>1, <2>6
  <2> QED
    BY <2>4, <2>5, <2>6
<1> QED
  BY <1>2, <1>3, <1>4 DEF KeyFiles

(* The row and files of a key that the step is not about. *)
LEMMA KeyRowsElse ==
    ASSUME UserTypes, UserTypes', NEW own \in [1..Len(files) -> Keys], NEW iown \in [1..Len(inodes) -> Keys],
           OwnersOf(own, iown), NEW r \in Reqs, Stepping(r), NEW own2, NEW iown2, Extend(own, iown, own2, iown2),
           NewOwners(r, own2, iown2), NEW k \in Keys, ~(Writer(r) /\ In(r).key = k) \/ Idles(r),
           KeyRows(own, k)
    PROVE  KeyRows(own2, k)'
<1>1. /\ \A w \in Reqs : (Works(w, k)' <=> Works(w, k)) /\ (Works(w, k) => w # r /\ req'[w] = req[w])
      /\ \A d \in 1..Len(files') : own2[d] = k => d \in 1..Len(files) /\ own[d] = k
      /\ \A d \in 1..Len(files) : own[d] = k => files'[d] = files[d]
      /\ \A i \in 1..Len(inodes) : iown[i] = k => inodes'[i] = inodes[i]
      /\ rows'[k] = rows[k]
  BY Elsewhere
<1>2. cfg' = cfg /\ Reqs' = Reqs
  BY StepOnly, SameGiven DEF Only
<1>3. ASSUME NEW w \in Reqs, Works(w, k)', rows'[k] # NoRow PROVE rows'[k].id = req'[w].row.id
  BY <1>1, <1>3 DEF KeyRows
<1>4. ASSUME NEW d \in 1..Len(files'), own2[d] = k, files'[d] # 0
      PROVE  (rows'[k] # NoRow /\ d = rows'[k].id) \/ \E w \in Reqs : Works(w, k)' /\ req'[w].row.id = d
  <2>1. d \in 1..Len(files) /\ own[d] = k /\ files[d] # 0
    BY <1>1, <1>4
  <2>2. (rows[k] # NoRow /\ d = rows[k].id) \/ \E w \in Reqs : Works(w, k) /\ req[w].row.id = d
    BY <2>1 DEF KeyRows
  <2> QED
    BY <1>1, <2>2
<1>5. ASSUME rows'[k] # NoRow, \A w \in Reqs : ~Works(w, k)'
      PROVE  files'[rows'[k].id] # 0 /\ inodes'[files'[rows'[k].id]] = <<rows'[k].sha, rows'[k].sha>>
  <2>1. files[rows[k].id] # 0 /\ inodes[files[rows[k].id]] = <<rows[k].sha, rows[k].sha>>
    BY <1>1, <1>5 DEF KeyRows
  <2>2. rows[k].id \in 1..Len(files) /\ own[rows[k].id] = k
    BY <1>1, <1>5 DEF OwnersOf, Owners
  <2>3. files[rows[k].id] \in 1..Len(inodes) /\ iown[files[rows[k].id]] = k
    BY <2>1, <2>2 DEF OwnersOf, Owners
  <2> QED
    BY <1>1, <2>1, <2>2, <2>3
<1> QED
  BY <1>2, <1>3, <1>4, <1>5 DEF KeyRows

(* The only writer at work on a key that is apart. *)
LEMMA OnlyWriter ==
    ASSUME UserTypes, NEW r \in Reqs, Stepping(r), OneWriter, NEW k \in Keys, Apart(k), Works(r, k)
    PROVE  /\ In(r).key = k /\ cfg' = cfg /\ Reqs' = Reqs /\ In(r)' = In(r)
           /\ \A w \in Reqs : (Works(w, k) => w = r) /\ (Works(w, k)' => w = r)
           /\ Works(r, k)' <=> req'[r].pc \notin {"new", "done"}
<1>1. cfg' = cfg /\ Reqs' = Reqs /\ In(r)' = In(r)
  BY StepOnly, SameGiven DEF Only
<1>2. \A w \in Reqs : Works(w, k) => w = r
  BY DEF OneWriter
<1>3. Works(r, k)' <=> req'[r].pc \notin {"new", "done"}
  BY <1>1 DEF Works, InFlight, Is, In
<1> QED
  BY <1>1, <1>2, <1>3, WorksNext DEF Works

(* What the writer at work holds. *)
LEMMA WriterRow ==
    ASSUME UserTypes, NEW own, NEW iown, OwnersOf(own, iown), NEW r \in Reqs, NEW k, Works(r, k)
    PROVE  /\ req[r].row.id \in 1..Len(files) /\ own[req[r].row.id] = k
           /\ req[r].pc \in {"head", "rest", "saveRow"} => req[r].ino \in 1..Len(inodes) /\ iown[req[r].ino] = k
<1>1. Holds(own, iown, r) /\ Placed(r) /\ Is(r, UserWrites) /\ In(r).key = k
  BY DEF OwnersOf, UserTypes, Works
<1>2. req[r].row.id # 0
  BY <1>1 DEF Works, Placed
<1> QED
  BY <1>1, <1>2 DEF Holds

(* A writer that begins is alone, with the file as it was. *)
LEMMA KeyFilesBegin ==
    ASSUME UserTypes, UserTypes', NEW own \in [1..Len(files) -> Keys], NEW iown \in [1..Len(inodes) -> Keys],
           OwnersOf(own, iown), NEW r \in Reqs, Stepping(r), NEW own2, NEW iown2, Extend(own, iown, own2, iown2),
           NEW k \in Keys, KeyFiles(own, k),
           NewOwners(r, own2, iown2), Begins(r) \/ Takes(r), k = In(r).key, Apart(k)'
    PROVE  KeyFiles(own2, k)'
<1>1. cfg' = cfg /\ Reqs' = Reqs /\ Only(r) /\ Len(files) \in Nat
  BY StepOnly, SameGiven DEF Only, UserTypes
<1>2. \A w \in Reqs : ~Works(w, k)
  BY <1>1, SameGiven DEF Begins, Takes, Free, Apart
<1>3. \A w \in Reqs : Works(w, k)' => w = r
  BY <1>2, WorksNext
<1>4. inodes' = inodes /\ req'[r].pc \in {"create", "unlink"}
  BY DEF Begins, Takes, user
<1>5. ASSUME NEW d \in 1..Len(files'), own2[d] = k, files'[d] # 0 PROVE d \in 1..Len(files) /\ files'[d] = files[d] /\ own[d] = k
  <2>1. CASE Begins(r)
    <3>1. Len(files') = Len(files) + 1 /\ files'[Len(files) + 1] = 0 /\ \A e \in 1..Len(files) : files'[e] = files[e]
      BY <2>1, BeginEffect
    <3>2. d \in 1..Len(files) \/ d = Len(files) + 1
      BY <1>1, <3>1
    <3> QED
      BY <1>5, <3>1, <3>2 DEF Extend
  <2>2. CASE Takes(r)
    BY <1>5, <2>2 DEF Takes, user, Extend
  <2> QED
    BY <2>1, <2>2
<1>6. ASSUME NEW d \in 1..Len(files'), own2[d] = k, files'[d] # 0 PROVE WholeFile(files[d])'
  <2>1. WholeFile(files[d])
    BY <1>2, <1>5, <1>6 DEF KeyFiles
  <2> QED
    BY <1>4, <1>5, <1>6, <2>1 DEF WholeFile
<1>7. Works(r, k)' => Progress(r)'
  <2>1. CASE Begins(r)
    <3>1. files'[Len(files) + 1] = 0 /\ req'[r].row.id = Len(files) + 1 /\ req'[r].pc = "create"
      BY <2>1, BeginEffect DEF Begins
    <3> QED
      BY <3>1 DEF Progress
  <2>2. CASE Takes(r)
    BY <2>2 DEF Takes, Progress
  <2> QED
    BY <2>1, <2>2
<1> QED
  BY <1>1, <1>3, <1>6, <1>7 DEF KeyFiles

(* Of the other files of the key only the one that is written may be part. *)
LEMMA OthersWhole ==
    ASSUME UserTypes, NEW own \in [1..Len(files) -> Keys], NEW r \in Reqs, NEW k, KeyFiles(own, k),
           \A w \in Reqs : Works(w, k) => w = r,
           NEW d \in 1..Len(files), own[d] = k, files[d] # 0, d # req[r].row.id \/ req[r].pc \notin {"head", "rest"}
    PROVE  WholeFile(files[d])
BY DEF KeyFiles

(* The writer unlinks its file. *)
LEMMA KeyFilesUnlink ==
    ASSUME UserTypes, UserTypes', NEW own \in [1..Len(files) -> Keys], NEW iown \in [1..Len(inodes) -> Keys],
           OwnersOf(own, iown), NEW r \in Reqs, Stepping(r), NEW own2, NEW iown2, Extend(own, iown, own2, iown2),
           NEW k \in Keys, KeyFiles(own, k),
           OneWriter, Unlinks(r), Works(r, k), Apart(k)
    PROVE  KeyFiles(own2, k)'
<1>1. /\ cfg' = cfg /\ Reqs' = Reqs /\ \A w \in Reqs : (Works(w, k) => w = r) /\ (Works(w, k)' => w = r)
  BY OnlyWriter
<1>2. req[r].row.id \in 1..Len(files) /\ own[req[r].row.id] = k
  BY WriterRow
<1>3. Len(files') = Len(files) /\ files'[req[r].row.id] = 0 /\ inodes' = inodes
      /\ \A d \in 1..Len(files) : d # req[r].row.id => files'[d] = files[d]
  BY <1>2, UnlinkEffect DEF Unlinks
<1>4. req[r].pc = "unlink" /\ req'[r].pc \notin {"head", "rest", "saveRow"} /\ req'[r].row = req[r].row
  BY DEF Unlinks, GoesOn
<1>5. Progress(r)'
  BY <1>3, <1>4 DEF Progress
<1>6. ASSUME NEW d \in 1..Len(files'), own2[d] = k, files'[d] # 0 PROVE WholeFile(files[d])'
  <2>1. own[d] = k /\ files'[d] = files[d]
    BY <1>3, <1>6 DEF Extend
  <2>2. WholeFile(files[d])
    BY <1>1, <1>3, <1>4, <1>6, <2>1, OthersWhole
  <2> QED
    BY <1>3, <2>1, <2>2 DEF WholeFile
<1> QED
  BY <1>1, <1>5, <1>6 DEF KeyFiles

(* The file of a key that is apart is never truncated: it was unlinked. *)
LEMMA NoTruncate ==
    ASSUME UserTypes, NEW own, NEW k, KeyFiles(own, k), NEW r \in Reqs, Works(r, k)
    PROVE  ~Truncates(r)
BY DEF KeyFiles, Progress, Truncates, GoesOn

(* The writer makes its file. *)
LEMMA KeyFilesMake ==
    ASSUME UserTypes, UserTypes', NEW own \in [1..Len(files) -> Keys], NEW iown \in [1..Len(inodes) -> Keys],
           OwnersOf(own, iown), NEW r \in Reqs, Stepping(r), NEW own2, NEW iown2, Extend(own, iown, own2, iown2),
           NEW k \in Keys, KeyFiles(own, k),
           OneWriter, Makes(r), Works(r, k), Apart(k)
    PROVE  KeyFiles(own2, k)'
<1>1. /\ cfg' = cfg /\ Reqs' = Reqs /\ \A w \in Reqs : (Works(w, k) => w = r) /\ (Works(w, k)' => w = r)
      /\ Works(r, k)' <=> req'[r].pc \notin {"new", "done"}
  BY OnlyWriter
<1>2. req[r].row.id \in 1..Len(files) /\ own[req[r].row.id] = k
  BY WriterRow
<1>3. /\ inodes'[Len(inodes) + 1] = <<Blank, Blank>> /\ \A j \in 1..Len(inodes) : inodes'[j] = inodes[j]
      /\ Len(files') = Len(files) /\ files'[req[r].row.id] = Len(inodes) + 1
      /\ \A d \in 1..Len(files) : d # req[r].row.id => files'[d] = files[d]
  BY <1>2, MakeEffect
<1>4. req[r].pc = "create" /\ req'[r].pc = "head" /\ req'[r].row = req[r].row /\ req'[r].ino = Len(inodes) + 1
  BY DEF Makes, GoesOn
<1>5. Progress(r)'
  BY <1>3, <1>4 DEF Progress
<1>6. ASSUME NEW d \in 1..Len(files'), own2[d] = k, files'[d] # 0, d # req[r].row.id PROVE WholeFile(files[d])'
  <2>1. d \in 1..Len(files) /\ own[d] = k /\ files'[d] = files[d]
    BY <1>3, <1>6 DEF Extend
  <2>2. WholeFile(files[d]) /\ files[d] \in 1..Len(inodes)
    BY <1>1, <1>4, <1>6, <2>1, OthersWhole DEF OwnersOf, Owners
  <2> QED
    BY <1>3, <2>1, <2>2 DEF WholeFile
<1>7. Works(r, k)' /\ req'[r].pc \in {"head", "rest"} /\ req'[r].row.id = req[r].row.id
  BY <1>1, <1>4
<1> QED
  BY <1>1, <1>5, <1>6, <1>7 DEF KeyFiles

(* The writer writes a half of its file, and only of that. *)
LEMMA KeyFilesWrite ==
    ASSUME UserTypes, UserTypes', NEW own \in [1..Len(files) -> Keys], NEW iown \in [1..Len(inodes) -> Keys],
           OwnersOf(own, iown), NEW r \in Reqs, Stepping(r), NEW own2, NEW iown2, Extend(own, iown, own2, iown2),
           NEW k \in Keys, KeyFiles(own, k),
           OneWriter, OneName, Works(r, k), Apart(k),
           Writes(r, "head", 1, "rest") \/ Writes(r, "rest", 2, "saveRow")
    PROVE  KeyFiles(own2, k)'
<1>1. /\ cfg' = cfg /\ Reqs' = Reqs /\ \A w \in Reqs : (Works(w, k) => w = r) /\ (Works(w, k)' => w = r)
      /\ Works(r, k)' <=> req'[r].pc \notin {"new", "done"}
      /\ In(r)' = In(r)
  BY OnlyWriter
<1>2. req[r].pc \in {"head", "rest"} /\ req'[r].row = req[r].row /\ req'[r].ino = req[r].ino /\ files' = files
  BY DEF Writes, GoesOn
<1>3. /\ req[r].row.id \in 1..Len(files) /\ own[req[r].row.id] = k
      /\ req[r].ino \in 1..Len(inodes) /\ files[req[r].row.id] = req[r].ino /\ Progress(r)
  BY <1>2, WriterRow DEF KeyFiles, Progress
<1>4. In(r).body # Blank
  BY <1>2, Given DEF UserTypes, Placed
<1>5. \A j \in 1..Len(inodes) : j # req[r].ino => inodes'[j] = inodes[j]
  BY <1>3, WriteEffect
<1>6. ASSUME Writes(r, "head", 1, "rest")
      PROVE  req'[r].pc = "rest" /\ inodes'[req[r].ino] = <<In(r).body, Blank>>
  <2>1. req[r].pc = "head" /\ req'[r].pc = "rest"
    BY <1>6 DEF Writes, GoesOn
  <2>2. /\ inodes'[req[r].ino] \in Bytes \X Bytes /\ inodes'[req[r].ino][1] = In(r).body
        /\ \A g \in {1, 2} \ {1} : inodes'[req[r].ino][g] = inodes[req[r].ino][g]
    BY <1>3, <1>6, WriteEffect
  <2>3. inodes[req[r].ino] = <<Blank, Blank>>
    BY <1>3, <2>1 DEF Progress
  <2>4. inodes'[req[r].ino][2] = Blank
    BY <2>2, <2>3
  <2>5. PICK x, y \in Bytes : inodes'[req[r].ino] = <<x, y>>
    BY <2>2
  <2>6. x = In(r).body /\ y = Blank
    BY <2>2, <2>4, <2>5
  <2> QED
    BY <2>1, <2>5, <2>6
<1>7. ASSUME Writes(r, "rest", 2, "saveRow")
      PROVE  req'[r].pc = "saveRow" /\ inodes'[req[r].ino] = <<In(r).body, In(r).body>>
  <2>1. req[r].pc = "rest" /\ req'[r].pc = "saveRow"
    BY <1>7 DEF Writes, GoesOn
  <2>2. /\ inodes'[req[r].ino] \in Bytes \X Bytes /\ inodes'[req[r].ino][2] = In(r).body
        /\ \A g \in {1, 2} \ {2} : inodes'[req[r].ino][g] = inodes[req[r].ino][g]
    BY <1>3, <1>7, WriteEffect
  <2>3. inodes[req[r].ino] = <<In(r).body, Blank>>
    BY <1>3, <2>1 DEF Progress
  <2>4. inodes'[req[r].ino][1] = In(r).body
    BY <2>2, <2>3
  <2>5. PICK x, y \in Bytes : inodes'[req[r].ino] = <<x, y>>
    BY <2>2
  <2>6. x = In(r).body /\ y = In(r).body
    BY <2>2, <2>4, <2>5
  <2> QED
    BY <2>1, <2>5, <2>6
<1>8. /\ req'[r].pc = "rest" => inodes'[req[r].ino] = <<In(r).body, Blank>>
      /\ req'[r].pc = "saveRow" => inodes'[req[r].ino] = <<In(r).body, In(r).body>>
      /\ req'[r].pc \in {"rest", "saveRow"}
  BY <1>6, <1>7
<1>9. Progress(r)'
  BY <1>1, <1>2, <1>3, <1>8 DEF Progress
<1>10. ASSUME NEW d \in 1..Len(files'), own2[d] = k, files'[d] # 0, d # req[r].row.id PROVE WholeFile(files[d])'
  <2>1. d \in 1..Len(files) /\ own[d] = k /\ files[d] # 0
    BY <1>2, <1>10 DEF Extend
  <2>a. \A w \in Reqs : Works(w, k) => w = r
    BY <1>1
  <2>b. WholeFile(files[d])
    BY <1>10, <2>1, <2>a, OthersWhole
  <2>2. WholeFile(files[d]) /\ files[d] \in 1..Len(inodes)
    BY <2>1, <2>b DEF OwnersOf, Owners
  <2>3. files[d] # req[r].ino
    BY <1>3, <1>10, <2>1 DEF OneName
  <2> QED
    BY <1>2, <1>5, <2>2, <2>3 DEF WholeFile
<1>11. WholeFile(files[req[r].row.id])' \/ (Works(r, k)' /\ req'[r].pc \in {"head", "rest"} /\ req'[r].row.id = req[r].row.id)
  <2>1. CASE req'[r].pc = "rest"
    BY <1>1, <1>2, <2>1
  <2>2. CASE req'[r].pc = "saveRow"
    <3>1. inodes'[files'[req[r].row.id]] = <<In(r).body, In(r).body>>
      BY <1>2, <1>3, <1>8, <2>2
    <3>2. inodes'[files'[req[r].row.id]][1] = In(r).body /\ inodes'[files'[req[r].row.id]][2] = In(r).body
      BY <3>1
    <3> QED
      BY <1>2, <1>4, <3>2 DEF WholeFile
  <2> QED
    BY <1>8, <2>1, <2>2
<1> QED
  BY <1>1, <1>2, <1>9, <1>10, <1>11 DEF KeyFiles, WholeFile

(* The end of a request leaves the files. *)
LEMMA KeyFilesEnd ==
    ASSUME UserTypes, UserTypes', NEW own \in [1..Len(files) -> Keys], NEW iown \in [1..Len(inodes) -> Keys],
           OwnersOf(own, iown), NEW r \in Reqs, Stepping(r), NEW own2, NEW iown2, Extend(own, iown, own2, iown2),
           NEW k \in Keys, KeyFiles(own, k),
           OneWriter, ~cfg.bodyFails, Saves(r) \/ Drops(r) \/ Fails(r), Works(r, k), Apart(k)
    PROVE  KeyFiles(own2, k)'
<1>1. /\ cfg' = cfg /\ Reqs' = Reqs /\ \A w \in Reqs : (Works(w, k) => w = r) /\ (Works(w, k)' => w = r)
      /\ Works(r, k)' <=> req'[r].pc \notin {"new", "done"}
  BY OnlyWriter
<1>2. req[r].pc \notin {"head", "rest"} /\ req'[r].pc = "done" /\ files' = files /\ inodes' = inodes
  BY DEF Saves, Drops, Fails, GoesOn, user
<1>3. \A w \in Reqs : ~Works(w, k)'
  BY <1>1, <1>2
<1>4. ASSUME NEW d \in 1..Len(files'), own2[d] = k, files'[d] # 0 PROVE WholeFile(files[d])'
  <2>1. d \in 1..Len(files) /\ own[d] = k /\ files[d] # 0
    BY <1>2, <1>4 DEF Extend
  <2>2. WholeFile(files[d])
    BY <1>1, <1>2, <2>1, OthersWhole
  <2> QED
    BY <1>2, <2>2 DEF WholeFile
<1> QED
  BY <1>1, <1>3, <1>4 DEF KeyFiles

(* A writer that begins takes the row that is there. *)
LEMMA KeyRowsBegin ==
    ASSUME UserTypes, UserTypes', NEW own \in [1..Len(files) -> Keys], NEW iown \in [1..Len(inodes) -> Keys],
           OwnersOf(own, iown), NEW r \in Reqs, Stepping(r), NEW own2, NEW iown2, Extend(own, iown, own2, iown2),
           NEW k \in Keys, KeyRows(own, k),
           NewOwners(r, own2, iown2), Begins(r) \/ Takes(r), k = In(r).key, Apart(k)'
    PROVE  KeyRows(own2, k)'
<1>1. cfg' = cfg /\ Reqs' = Reqs /\ Only(r) /\ Len(files) \in Nat /\ In(r)' = In(r)
  BY StepOnly, SameGiven DEF Only, UserTypes
<1>2. \A w \in Reqs : ~Works(w, k)
  BY <1>1, SameGiven DEF Begins, Takes, Free, Apart
<1>3. \A w \in Reqs : Works(w, k)' => w = r
  BY <1>2, WorksNext
<1>4. Works(r, k)'
  <2>1. Is(r, UserWrites) /\ req'[r].pc \in {"create", "unlink"}
    BY Kinds DEF Begins, Takes
  <2> QED
    BY <1>1, <2>1 DEF Works, InFlight, Is, In
<1>5. CASE Begins(r)
  <2>1. rows[k] = NoRow /\ rows' = rows
    BY <1>5 DEF Begins
  <2>2. Len(files') = Len(files) + 1 /\ files'[Len(files) + 1] = 0 /\ \A e \in 1..Len(files) : files'[e] = files[e]
    BY <1>5, BeginEffect
  <2>3. \A d \in 1..Len(files') : d \in 1..Len(files) \/ d = Len(files) + 1
    BY <1>1, <2>2
  <2>4. \A d \in 1..Len(files') : own2[d] = k => files'[d] = 0
    BY <1>2, <2>1, <2>2, <2>3 DEF KeyRows, Extend
  <2> QED
    BY <1>1, <1>4, <2>1, <2>4 DEF KeyRows
<1>6. CASE Takes(r)
  <2>1. rows' = rows /\ files' = files /\ inodes' = inodes /\ req'[r].row = rows[k] /\ rows[k] # NoRow
    BY <1>6 DEF Takes, user
  <2>2. \A d \in 1..Len(files') : own2[d] = k /\ files'[d] # 0 => d = rows'[k].id
    BY <1>2, <2>1 DEF KeyRows, Extend
  <2>3. \A w \in Reqs : Works(w, k)' => rows'[k].id = req'[w].row.id
    BY <1>3, <2>1
  <2> QED
    BY <1>1, <1>4, <2>1, <2>2, <2>3 DEF KeyRows
<1> QED
  BY <1>5, <1>6

(* A writer at work leaves the row; of the files it has only its own. *)
LEMMA KeyRowsWork ==
    ASSUME UserTypes, UserTypes', NEW own \in [1..Len(files) -> Keys], NEW iown \in [1..Len(inodes) -> Keys],
           OwnersOf(own, iown), NEW r \in Reqs, Stepping(r), NEW own2, NEW iown2, Extend(own, iown, own2, iown2),
           NEW k \in Keys, KeyRows(own, k),
           OneWriter, Works(r, k), Apart(k),
           Unlinks(r) \/ Makes(r) \/ Writes(r, "head", 1, "rest") \/ Writes(r, "rest", 2, "saveRow")
    PROVE  KeyRows(own2, k)'
<1>1. /\ cfg' = cfg /\ Reqs' = Reqs /\ \A w \in Reqs : (Works(w, k) => w = r) /\ (Works(w, k)' => w = r)
      /\ Works(r, k)' <=> req'[r].pc \notin {"new", "done"}
  BY OnlyWriter
<1>2. rows' = rows /\ req'[r].row = req[r].row
  BY DEF Unlinks, Makes, Writes, GoesOn
<1>3. Works(r, k)'
  <2>1. req'[r].pc \in {"create", "deleteRow", "head", "rest", "saveRow"}
    BY DEF Unlinks, Makes, Writes, GoesOn
  <2> QED
    BY <1>1, <2>1
<1>4. req[r].row.id \in 1..Len(files)
  BY WriterRow
<1>5. Len(files') = Len(files) /\ \A d \in 1..Len(files) : d # req[r].row.id => files'[d] = files[d]
  <2>1. CASE Unlinks(r)
    BY <2>1, UnlinkEffect
  <2>2. CASE Makes(r)
    BY <1>4, <2>2, MakeEffect
  <2>3. CASE files' = files
    BY <2>3
  <2> QED
    BY <2>1, <2>2, <2>3 DEF Writes
<1>6. \A w \in Reqs : Works(w, k)' /\ rows'[k] # NoRow => rows'[k].id = req'[w].row.id
  BY <1>1, <1>2 DEF KeyRows
<1>7. ASSUME NEW d \in 1..Len(files'), own2[d] = k, files'[d] # 0
      PROVE  (rows'[k] # NoRow /\ d = rows'[k].id) \/ d = req'[r].row.id
  <2>1. SUFFICES ASSUME d # req[r].row.id PROVE rows[k] # NoRow /\ d = rows[k].id
    BY <1>2
  <2>2. d \in 1..Len(files) /\ own[d] = k /\ files[d] # 0
    BY <1>5, <1>7, <2>1 DEF Extend
  <2> QED
    BY <1>1, <2>1, <2>2 DEF KeyRows
<1> QED
  BY <1>1, <1>3, <1>6, <1>7 DEF KeyRows

(* The row takes the file that was written; or both are gone. *)
LEMMA KeyRowsEnd ==
    ASSUME UserTypes, UserTypes', NEW own \in [1..Len(files) -> Keys], NEW iown \in [1..Len(inodes) -> Keys],
           OwnersOf(own, iown), NEW r \in Reqs, Stepping(r), NEW own2, NEW iown2, Extend(own, iown, own2, iown2),
           NEW k \in Keys, KeyRows(own, k),
           OneWriter, KeyFiles(own, k), Saves(r) \/ Drops(r), Works(r, k), Apart(k)
    PROVE  KeyRows(own2, k)'
<1>1. /\ cfg' = cfg /\ Reqs' = Reqs /\ \A w \in Reqs : (Works(w, k) => w = r) /\ (Works(w, k)' => w = r)
      /\ Works(r, k)' <=> req'[r].pc \notin {"new", "done"}
      /\ In(r).key = k
  BY OnlyWriter
<1>2. req'[r].pc = "done" /\ files' = files /\ inodes' = inodes
  BY DEF Saves, Drops, GoesOn
<1>3. \A w \in Reqs : ~Works(w, k)'
  BY <1>1, <1>2
<1>4. Progress(r) /\ Is(r, UserWrites) /\ In(r).key \in Keys /\ Len(inodes) \in Nat
  BY Given DEF KeyFiles, Works, Is, UserTypes
<1>5. ASSUME NEW d \in 1..Len(files'), own2[d] = k, files'[d] # 0 PROVE d = req[r].row.id
  <2>1. d \in 1..Len(files) /\ own[d] = k /\ files[d] # 0
    BY <1>2, <1>5 DEF Extend
  <2>2. (rows[k] # NoRow /\ d = rows[k].id) \/ \E w \in Reqs : Works(w, k) /\ req[w].row.id = d
    BY <2>1 DEF KeyRows
  <2>3. rows[k] # NoRow => rows[k].id = req[r].row.id
    BY DEF KeyRows
  <2> QED
    BY <1>1, <2>2, <2>3
<1>6. CASE Saves(r)
  <2>1. rows'[k].id = req[r].row.id /\ rows'[k].sha = In(r).body
    BY <1>1, <1>4, <1>6, SaveEffect
  <2>2. req[r].pc = "saveRow"
    BY <1>6 DEF Saves, GoesOn
  <2>3. files[req[r].row.id] = req[r].ino /\ inodes[req[r].ino] = <<In(r).body, In(r).body>>
    BY <1>4, <2>2 DEF Progress
  <2>4. req[r].ino # 0
    BY <1>4, <2>2, WriterRow
  <2>5. files'[rows'[k].id] # 0 /\ inodes'[files'[rows'[k].id]] = <<rows'[k].sha, rows'[k].sha>>
    BY <1>2, <2>1, <2>3, <2>4
  <2>6. rows'[k] # NoRow
    <3>1. rows'[k].id # 0
      BY <1>4, <2>1, <2>2 DEF UserTypes, Placed, Works
    <3>2. NoRow.id = 0
      BY DEF NoRow
    <3> QED
      BY <3>1, <3>2
  <2> QED
    BY <1>1, <1>3, <1>5, <2>1, <2>5, <2>6 DEF KeyRows
<1>7. CASE Drops(r)
  <2>1. rows'[k] = NoRow
    BY <1>1, <1>4, <1>7, DropEffect
  <2>2. req[r].pc = "deleteRow"
    BY <1>7 DEF Drops, GoesOn
  <2>3. files[req[r].row.id] = 0
    BY <1>4, <2>2 DEF Progress
  <2>4. \A d \in 1..Len(files') : own2[d] = k => files'[d] = 0
    BY <1>2, <1>5, <2>3
  <2> QED
    BY <1>1, <1>3, <2>1, <2>4 DEF KeyRows
<1> QED
  BY <1>6, <1>7

(* Both, for every key and every step. *)
LEMMA KeyNext ==
    ASSUME UserTypes, UserTypes', NEW own \in [1..Len(files) -> Keys], NEW iown \in [1..Len(inodes) -> Keys],
           OwnersOf(own, iown), NEW r \in Reqs, Stepping(r), NEW own2, NEW iown2, Extend(own, iown, own2, iown2),
           NEW k \in Keys,
           NewOwners(r, own2, iown2), OneWriter, OneName, ~cfg.bodyFails, Apart(k)',
           KeyFiles(own, k), ~cfg.dbFails => KeyRows(own, k)
    PROVE  KeyFiles(own2, k)' /\ (~cfg.dbFails => KeyRows(own2, k)')
<1>1. Apart(k)
  BY StepOnly, ApartNext
<1>2. CASE ~(Writer(r) /\ In(r).key = k) \/ Idles(r)
  BY <1>2, KeyFilesElse, KeyRowsElse
<1>3. CASE k = In(r).key /\ (Begins(r) \/ Takes(r))
  BY <1>3, KeyFilesBegin, KeyRowsBegin
<1>4. CASE Writer(r) /\ In(r).key = k /\ ~Idles(r) /\ ~Begins(r) /\ ~Takes(r)
  <2>1. Works(r, k)
    <3>1. ~Reading(r)
      BY <1>4, Kinds DEF Writer, Reading, Lists, Opens, Skips, CopiesHead, CopiesRest, Looks
    <3>2. InFlight(r)
      BY <1>4, <3>1 DEF Stepping, Unlinks, Truncates, Makes, Writes, Saves, Drops, Fails, GoesOn, InFlight
    <3> QED
      BY <1>4, <3>2 DEF Works, Writer
  <2>2. ~Truncates(r)
    BY <2>1, NoTruncate
  <2>3. ~Reading(r)
    BY <1>4, Kinds DEF Writer, Reading, Lists, Opens, Skips, CopiesHead, CopiesRest, Looks
  <2>4. CASE Unlinks(r)
    BY <1>1, <2>1, <2>4, KeyFilesUnlink, KeyRowsWork
  <2>5. CASE Makes(r)
    BY <1>1, <2>1, <2>5, KeyFilesMake, KeyRowsWork
  <2>6. CASE Writes(r, "head", 1, "rest") \/ Writes(r, "rest", 2, "saveRow")
    BY <1>1, <2>1, <2>6, KeyFilesWrite, KeyRowsWork
  <2>7. CASE Saves(r) \/ Drops(r)
    BY <1>1, <2>1, <2>7, KeyFilesEnd, KeyRowsEnd
  <2>8. CASE Fails(r)
    <3>1. cfg.dbFails
      BY <2>8 DEF Fails
    <3> QED
      BY <1>1, <2>1, <2>8, <3>1, KeyFilesEnd
  <2> QED
    BY <1>4, <2>2, <2>3, <2>4, <2>5, <2>6, <2>7, <2>8 DEF Stepping
<1> QED
  BY <1>2, <1>3, <1>4

(* The whole of the invariant, by the step of one request. *)
LEMMA StorageNext ==
    ASSUME IInv, NEW r \in Reqs, Stepping(r)
    PROVE  IInv'
<1>1. UserTypes /\ OneName /\ OneWriter /\ QuietReads /\ ReadWhole
  BY DEF IInv
<1>2. PICK own \in [1..Len(files) -> Keys], iown \in [1..Len(inodes) -> Keys] : StorageInv(own, iown)
  BY DEF IInv
<1>3. OwnersOf(own, iown) /\ FilesWhole(own) /\ RowsAndFiles(own)
  BY <1>2 DEF StorageInv
<1>4. UserTypes'
  BY <1>1, <1>3, TypesNext DEF Held
<1>5. PICK own2, iown2 : Extend(own, iown, own2, iown2) /\ OwnersOf(own2, iown2)' /\ NewOwners(r, own2, iown2)
  BY <1>1, <1>3, <1>4, OwnersNext
<1>6. OneName' /\ OneWriter'
  BY <1>1, <1>3, <1>4, OneNameNext, OneWriterNext
<1>7. QuietReads'
  BY <1>1, <1>3, <1>4, <1>5, ReadsNext
<1>8. ReadWhole'
  BY <1>1, WholeNext
<1>9. cfg' = cfg
  BY StepOnly DEF Only
<1>10. ASSUME NEW k \in Keys, ~cfg.bodyFails, Apart(k)'
       PROVE  KeyFiles(own2, k)' /\ (~cfg.dbFails => KeyRows(own2, k)')
  <2>1. Apart(k)
    BY <1>10, StepOnly, ApartNext
  <2>2. KeyFiles(own, k)
    BY <1>3, <1>10, <2>1 DEF FilesWhole
  <2>3. ~cfg.dbFails => KeyRows(own, k)
    BY <1>3, <1>10, <2>1 DEF RowsAndFiles
  <2> QED
    BY <1>1, <1>3, <1>4, <1>5, <1>10, <2>2, <2>3, KeyNext
<1>11. FilesWhole(own2)' /\ RowsAndFiles(own2)'
  BY <1>9, <1>10 DEF FilesWhole, RowsAndFiles
<1>12. StorageInv(own2, iown2)'
  BY <1>5, <1>11 DEF StorageInv
<1>13. own2 \in [1..Len(files') -> Keys] /\ iown2 \in [1..Len(inodes') -> Keys]
  BY <1>5 DEF Extend
<1> QED
  BY <1>4, <1>6, <1>7, <1>8, <1>12, <1>13 DEF IInv

(* A step of the clock leaves everything. *)
LEMMA StorageStays == ASSUME IInv, Stays PROVE IInv'
<1>1. cfg' = cfg /\ rows' = rows /\ files' = files /\ inodes' = inodes /\ req' = req /\ overlap' = overlap
  BY DEF Stays
<1>2. Reqs' = Reqs /\ Bytes' = Bytes /\ (\A r : In(r)' = In(r)) /\ (\A r, S : Is(r, S)' = Is(r, S))
  BY <1>1, SameGiven
<1>3. \A r : Placed(r)' <=> Placed(r)
  BY <1>1, <1>2 DEF Placed, InFlight, Is, In
<1>4. \A w, k : Works(w, k)' <=> Works(w, k)
  BY <1>1, <1>2 DEF Works, InFlight, Is, In
<1>5. UserTypes' /\ OneName' /\ ReadWhole'
  BY <1>1, <1>2, <1>3 DEF IInv, UserTypes, OneName, ReadWhole, Shaped
<1>6. OneWriter' /\ QuietReads'
  BY <1>1, <1>2, <1>4 DEF IInv, OneWriter, QuietReads, Apart, WholeFile
<1>7. PICK own \in [1..Len(files) -> Keys], iown \in [1..Len(inodes) -> Keys] : StorageInv(own, iown)
  BY DEF IInv
<1>8. OwnersOf(own, iown)'
  <2>1. \A k, b : PutTo(k, b)' <=> PutTo(k, b)
    BY <1>1, PutToStays
  <2>2. Owners(own, iown)'
    BY <1>1, <1>7, <2>1 DEF StorageInv, OwnersOf, Owners
  <2>3. \A q \in Reqs : Holds(own, iown, q)'
    BY <1>1, <1>2, <1>7, <2>1 DEF StorageInv, OwnersOf, Holds, Is, In
  <2> QED
    BY <1>2, <2>2, <2>3 DEF OwnersOf
<1>9. \A w \in Reqs : Progress(w)' <=> Progress(w)
  BY <1>1, <1>2 DEF Progress, In
<1>10. FilesWhole(own)'
  <2>1. \A k \in Keys : KeyFiles(own, k)' <=> KeyFiles(own, k)
    BY <1>1, <1>2, <1>4, <1>9 DEF KeyFiles, WholeFile
  <2> QED
    BY <1>1, <1>7, <2>1 DEF StorageInv, FilesWhole, Apart
<1>11. RowsAndFiles(own)'
  <2>1. \A k \in Keys : KeyRows(own, k)' <=> KeyRows(own, k)
    BY <1>1, <1>2, <1>4 DEF KeyRows
  <2> QED
    BY <1>1, <1>7, <2>1 DEF StorageInv, RowsAndFiles, Apart
<1> QED
  BY <1>1, <1>5, <1>6, <1>7, <1>8, <1>10, <1>11 DEF IInv, StorageInv

(* The invariant holds at first: there are no rows, files or requests at   *)
(* work.                                                                   *)
LEMMA StorageInit == Init => IInv
<1>1. SUFFICES ASSUME Init PROVE IInv
  OBVIOUS
<1>2. /\ cfg \in Scenarios /\ rows = [k \in Keys |-> NoRow] /\ files = <<>> /\ inodes = <<>> /\ overlap = {}
      /\ Len(files) = 0 /\ Len(inodes) = 0 /\ 1..Len(files) = {} /\ 1..Len(inodes) = {}
  BY <1>1 DEF Init
<1>3. req = [r \in Reqs |-> Fresh]
  BY <1>1 DEF Init
<1>4. \A r \in Reqs : req[r] = Fresh
  BY <1>3
<1>5. /\ Shaped(Fresh) /\ Fresh.pc = "new" /\ Fresh.row.id = 0 /\ Fresh.todo = {} /\ Fresh.got = {} /\ Fresh.quiet = FALSE
      /\ Fresh.row = NoRow
  BY DEF Fresh, Shaped, NoRow
<1>6. \A r \in Reqs : Shaped(req[r]) /\ Placed(r)
  BY <1>4, <1>5 DEF Placed, InFlight
<1>7. UserTypes
  BY <1>2, <1>3, <1>4, <1>6 DEF UserTypes
<1>8. OneName
  BY <1>2 DEF OneName
<1>9. \A w \in Reqs : \A k : ~Works(w, k)
  BY <1>4, <1>5 DEF Works, InFlight
<1>10. OneWriter /\ QuietReads /\ ReadWhole
  BY <1>4, <1>5, <1>9 DEF OneWriter, QuietReads, ReadWhole
<1>11. PICK own : own \in [1..Len(files) -> Keys] /\ own \in [1..Len(inodes) -> Keys]
  <2>1. <<>> \in [1..Len(files) -> Keys] /\ <<>> \in [1..Len(inodes) -> Keys]
    BY <1>2
  <2> QED
    BY <2>1
<1>12. Owners(own, own)
  BY <1>2, <1>11 DEF Owners
<1>13. \A q \in Reqs : Holds(own, own, q)
  BY <1>4, <1>5 DEF Holds
<1>14. FilesWhole(own) /\ RowsAndFiles(own)
  BY <1>2, <1>9 DEF FilesWhole, RowsAndFiles, KeyFiles, KeyRows
<1> QED
  BY <1>7, <1>8, <1>10, <1>11, <1>12, <1>13, <1>14 DEF IInv, StorageInv, OwnersOf

(* The invariant is inductive. *)
LEMMA StorageStep == IInv /\ [Next]_vars => IInv'
BY Steps, StorageNext, StorageStays DEF IInv

(* What is promised of the storage follows. *)
LEMMA StoragePromised == IInv => StorageSound
<1>1. SUFFICES ASSUME IInv PROVE StorageSound
  OBVIOUS
<1>2. PICK own \in [1..Len(files) -> Keys], iown \in [1..Len(inodes) -> Keys] : StorageInv(own, iown)
  BY <1>1 DEF IInv
<1>3. OwnersOf(own, iown) /\ RowsAndFiles(own) /\ UserTypes
  BY <1>1, <1>2 DEF StorageInv, IInv
<1>4. OwnContent
  BY <1>3 DEF OwnContent, OwnersOf, Holds, PutTo, Puts
<1>5. CleanStorage
  <2>1. SUFFICES ASSUME NEW k \in Keys, Settled(k)
                 PROVE  /\ rows[k] # NoRow => files[rows[k].id] # 0 /\ inodes[files[rows[k].id]] = <<rows[k].sha, rows[k].sha>>
                        /\ \A i \in Owned(k) : i # rows[k].id => files[i] = 0
    BY DEF CleanStorage
  <2>2. \A w \in Reqs : ~Works(w, k)
    BY <2>1, WritersAre DEF Settled
  <2>3. KeyRows(own, k)
    BY <1>3, <2>1 DEF Settled, RowsAndFiles, Apart
  <2>4. ASSUME NEW i \in Owned(k), i # rows[k].id PROVE files[i] = 0
    <3>1. PICK w \in Reqs : Is(w, {"userPut", "mcpPut"}) /\ In(w).key = k /\ i = req[w].row.id /\ i # 0
      BY <2>4 DEF Owned
    <3>2. Is(w, UserWrites) /\ Holds(own, iown, w)
      BY <1>3, <3>1 DEF Is, UserWrites, OwnersOf
    <3>3. i \in 1..Len(files) /\ own[i] = k
      BY <3>1, <3>2 DEF Holds
    <3> QED
      BY <2>2, <2>3, <2>4, <3>3 DEF KeyRows
  <2> QED
    BY <2>2, <2>3, <2>4 DEF KeyRows
<1> QED
  BY <1>1, <1>4, <1>5 DEF StorageSound, IInv

(* Rows and files stay together whatever requests run at once and whatever *)
(* fails: a key that never had two writers at once and has none now is a   *)
(* row with its whole file or neither, when nothing failed; a download     *)
(* that was opened while nobody was at work is one whole body; and a key   *)
(* serves only bytes that were put to it (user.go, storage.go).            *)
THEOREM StorageIsSound == Spec => []StorageSound
BY StorageInit, StorageStep, StoragePromised, PTL DEF Spec
=============================================================================
