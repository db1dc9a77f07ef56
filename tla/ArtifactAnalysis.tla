--------------------------- MODULE ArtifactAnalysis ---------------------------
(***************************************************************************)
(* How the file changes of a turn become system artifact events.           *)
(*                                                                         *)
(* The agent calls tools that change the working directory and appends     *)
(* their events to the relay.  Two readers hand the events to the          *)
(* analyzer: the SSE subscriber, which may detach and be replaced, and the *)
(* side effect pump, which skips an event while a subscriber is attached.  *)
(* The analyzer (analyzer/analyzer.go) records structured tools at once    *)
(* (tier 1) and shell commands when their result arrives (tier 2).  At the *)
(* end of the turn, or when a client cancels or terminates it, a           *)
(* reconciler (artifact_reconcile.go) records the tools of the relay once  *)
(* more and then what git or a snapshot says has changed (tier 3).         *)
(***************************************************************************)
EXTENDS Naturals, Sequences, FiniteSets, SequencesExt

CONSTANTS Keys,        \* artifact keys, one per file of the working directory
          Contents,    \* file contents
          SizeOf,      \* the size of each content
          Scenarios,   \* sessions to run: the collectors, the directory, the tools of the
                       \* agent, what clients and faults may do, and how many turns and calls
          MaxTurns,    \* bound on the turns of a session
          MaxCalls     \* bound on the tool calls of a session

ASSUME SizeOfAssumption == SizeOf \in [Contents -> Nat]

VARIABLES cfg,       \* the scenario: collectors, agent, git, readers, faults
          disk,      \* the working directory: content of each file, or Absent
          head,      \* the files of the HEAD commit
          turn,      \* the current turn, 0 before the first
          start,     \* the working directory when the turn began
          exec,      \* the registered execution: "off", "on"
          agent,     \* the agent process: "off", "on", or "broken" by a retryable error
          calls,     \* the tool calls of the turn
          ncalls,    \* tool calls so far, over all turns
          relay,     \* the events of the turn, in order
          sub,       \* subscriber: attached, the next event it reads, its generation, and
                     \* whether the client of a JSON handler is gone
          pump,      \* the next event the side effect pump reads
          poster,    \* the POST handler: "idle", "follows", "detached"
          an,        \* the analyzer: seen, byCall, fifo
          entry,     \* the entry that holds the lock of the task log: who adds it, and the
                     \* rows that are still to be saved
          log,       \* the system_artifact_events table
          snaps,     \* sessionSnapshots: turn |-> <<directory>>, or NoSnap
          rec,       \* the reconcilers "end" and "stop"
          faults,    \* database failures so far
          raced,     \* history: what a flush claimed while a command on it was being saved
          skipped    \* history: the turns that ended with nobody to reconcile them

vars == <<cfg, disk, head, turn, start, exec, agent, calls, ncalls, relay, sub, pump, poster,
          an, entry, log, snaps, rec, faults, raced, skipped>>
disks == <<disk, head>>
readers == <<sub, pump>>
analysis == <<an, entry, raced>>
database == <<log, faults>>
snapshots == <<snaps, skipped>>

Absent == "absent"
NoSnap == <<>>
Files == Contents \cup {Absent}
Ops == {"create", "update", "delete"}
Mapped == {"Write", "Edit", "Delete"}
Shell == {"Bash", "command_execution"}
Tools == Mapped \cup Shell \cup {"file_change", "turn_diff", "turn_files"}
Reconcilers == {"end", "stop"}
EmptyMap == <<>>

OfShell(row) == row.tool \in Shell
Slots(rows) == {<<row.turn, row.key>> : row \in Range(rows)}

-----------------------------------------------------------------------------
(* Tools                                                                    *)

\* The operation of a tool that names its file, Cursor's and Claude's.
defaultToolMappings == [Write |-> "create", Edit |-> "update", Delete |-> "delete"]

isTier1ToolName(tool) == tool \in Mapped \cup {"file_change", "turn_diff", "turn_files"}

\* The source of an event by the tool that is recorded with it.
sourceForToolName(tool) ==
    CASE tool \in Shell -> 2
      [] tool = "reconcile:git" -> 3
      [] tool = "reconcile:snapshot" -> 4
      [] OTHER -> 1

Realtime(e) == sourceForToolName(e.tool) <= 2

priority == [delete |-> 3, update |-> 2, create |-> 1]

\* A command is the set of file operations its redirects, rm, mv, cp, touch... name;
\* a path that several name is given the operation of the highest priority.
ParseShellCommand(cmd) ==
    {m \in cmd : \A o \in cmd : o[1] = m[1] => priority[o[2]] <= priority[m[2]]}

\* What a change from directory d to directory e is called.
OpOf(d, e, k) ==
    CASE d[k] = Absent -> "create"
      [] e[k] = Absent -> "delete"
      [] OTHER -> "update"

\* A snapshot holds the sizes of the files; a change that keeps the size is not seen.
SameSize(a, b) == (a = Absent) = (b = Absent) /\ (a # Absent => SizeOf[a] = SizeOf[b])

DiffSnapshots(d, e) == {<<k, OpOf(d, e, k)>> : k \in {k \in Keys : ~SameSize(d[k], e[k])}}

\* git diff HEAD and the untracked files: content counts, ignored files do not.
DetectGitChanges(h, e, ignored) ==
    {<<k, OpOf(h, e, k)>> : k \in {k \in Keys : h[k] # e[k] /\ ~(k \in ignored /\ h[k] = Absent)}}

\* The unified diff of the turn that Codex reports: the paths that changed.
ExtractPathsFromUnifiedDiff(d, e) ==
    SetToSeq({<<k, OpOf(d, e, k)>> : k \in {k \in Keys : d[k] # e[k]}})

-----------------------------------------------------------------------------
(* The analyzer: operators on an = [seen, byCall, fifo]                     *)

Rows(t, tool, call, ops) ==
    [i \in DOMAIN ops |-> [turn |-> t, tool |-> tool, call |-> call, key |-> ops[i][1], op |-> ops[i][2]]]

\* Forgets the claims of earlier entries.
claimWithinEntry(seen, t, ops) ==
    IF ops = <<>> THEN ops ELSE SelectSeq(ops, LAMBDA o : o = ops[1] \/ o[1] # ops[1][1])

\* The tier 1 operations of ops that win their key in turn t: the first of each key,
\* unless the key was claimed before.
tryClaimTier1Key(seen, t, ops) ==
    LET Wins(i) == /\ <<t, ops[i][1]>> \notin seen
                   /\ \A j \in 1..(i - 1) : ops[j][1] # ops[i][1]
    IN  [i \in 1..Cardinality({i \in DOMAIN ops : Wins(i)}) |->
            ops[CHOOSE j \in DOMAIN ops :
                    Wins(j) /\ Cardinality({l \in 1..j : Wins(l)}) = i]]

\* Tier 2 drops the keys that tier 1 has claimed.
hasTier1Key(seen, t, ops) ==
    SelectSeq(ops, LAMBDA o : <<t, o[1]>> \notin seen)

\* The rows of a structured tool, and the keys it claims.
buildEvent(a, t, tool, call, ops) ==
    LET won == tryClaimTier1Key(a.seen, t, ops)
    IN  [an |-> [a EXCEPT !.seen = @ \cup {<<t, won[i][1]>> : i \in DOMAIN won}],
         rows |-> Rows(t, tool, call, won)]

\* A create or an update from a command counts only if the file is there now.
shouldEmitShellOp(o) == o[2] = "delete" \/ disk[o[1]] # Absent

emitShellOps(a, t, tool, call, ops) ==
    [an |-> a, rows |-> Rows(t, tool, call, hasTier1Key(a.seen, t, SelectSeq(ops, shouldEmitShellOp)))]

Nothing(a) == [an |-> a, rows |-> <<>>]

stashPendingShell(a, ev) ==
    LET p == [turn |-> turn, tool |-> ev.tool, call |-> ev.of, ops |-> ev.ops]
    IN  IF ev.call # 0
        THEN [a EXCEPT !.byCall = [c \in DOMAIN @ \cup {ev.call} |-> IF c = ev.call THEN p ELSE @[c]]]
        ELSE [a EXCEPT !.fifo = Append(@, p)]

\* The stash of the call, else the oldest one that was stashed without an id.
takePendingShell(a, call) ==
    CASE call \in DOMAIN a.byCall ->
            {[p |-> a.byCall[call],
              an |-> [a EXCEPT !.byCall = [c \in DOMAIN @ \ {call} |-> @[c]]]]}
      [] call \notin DOMAIN a.byCall /\ a.fifo # <<>> ->
            {[p |-> Head(a.fifo), an |-> [a EXCEPT !.fifo = Tail(@)]]}
      [] OTHER -> {}

flushPendingShell(a, ev) ==
    LET taken == takePendingShell(a, ev.call)
    IN  IF taken = {} THEN Nothing(a)
        ELSE LET s == CHOOSE s \in taken : TRUE
             IN  IF cfg.shell THEN emitShellOps(s.an, s.p.turn, s.p.tool, s.p.call, s.p.ops) ELSE Nothing(s.an)

analyzeShellToolResult(a, ev) ==
    IF cfg.shell /\ ev.tool = "command_execution" /\ ev.ops # <<>>
    THEN emitShellOps(a, turn, ev.tool, ev.of, ev.ops)
    ELSE Nothing(a)

analyzeShellTool(a, ev) ==
    IF ev.tool = "Bash" /\ ev.ops # <<>> THEN [an |-> stashPendingShell(a, ev), rows |-> <<>>] ELSE Nothing(a)

analyzeEvents(a, ev) ==
    CASE ev.tool \in Shell /\ cfg.shell -> analyzeShellTool(a, ev)
      [] ev.tool \notin Shell /\ cfg.structured -> buildEvent(a, turn, ev.tool, ev.of, ev.ops)
      [] OTHER -> Nothing(a)

\* What the analyzer does with one entry of the task log.
onEntry(a, ev) ==
    IF ev.type = "result"
    THEN LET f == flushPendingShell(a, ev)
             s == analyzeShellToolResult(f.an, ev)
         IN  [an |-> s.an, rows |-> f.rows \o s.rows]
    ELSE analyzeEvents(a, ev)

-----------------------------------------------------------------------------
(* The database                                                             *)

\* One insert, which may fail.
SaveSystemArtifactEvent(row, by) ==
    \/ log' = Append(log, [by |-> by] @@ row) /\ UNCHANGED faults
    \/ cfg.dbFails /\ faults = 0 /\ faults' = 1 /\ UNCHANGED log

NoEntry == [by |-> "none", rows |-> <<>>]

\* A reader adds an entry to the task log: under its lock the analyzer claims or checks the
\* keys, and then saves the rows.
TaskLogAdd(ev, by) ==
    LET r == onEntry(an, ev)
    IN  /\ entry = NoEntry
        /\ an' = r.an
        /\ entry' = IF r.rows = <<>> THEN NoEntry ELSE [by |-> by, rows |-> r.rows]
        /\ UNCHANGED raced

\* The rows of the entry are saved one by one.  A failing insert is ignored: the key stays
\* claimed, and the next row is saved.
SaveEntry ==
    /\ entry # NoEntry
    /\ SaveSystemArtifactEvent(Head(entry.rows), entry.by)
    /\ entry' = IF Len(entry.rows) = 1 THEN NoEntry ELSE [entry EXCEPT !.rows = Tail(@)]
    /\ UNCHANGED <<cfg, disks, turn, start, exec, agent, calls, ncalls, relay, readers, poster, an, raced,
                   snapshots, rec>>

-----------------------------------------------------------------------------
(* The turn                                                                 *)

NoRec == [pc |-> "idle", turn |-> 0, upto |-> 0, rows |-> <<>>, known |-> 0, snap |-> NoSnap, at |-> EmptyMap]

Init ==
    /\ cfg \in Scenarios
    /\ disk = cfg.disk
    /\ head = cfg.disk
    /\ turn = 0
    /\ start = disk
    /\ exec = "off"
    /\ agent = "off"
    /\ calls = <<>>
    /\ ncalls = 0
    /\ relay = <<>>
    /\ sub = [on |-> FALSE, at |-> 1, gen |-> 0, gone |-> FALSE]
    /\ pump = 1
    /\ poster = "idle"
    /\ an = [seen |-> {}, byCall |-> EmptyMap, fifo |-> <<>>]
    /\ entry = NoEntry
    /\ log = <<>>
    /\ snaps = [t \in 0..MaxTurns |-> NoSnap]
    /\ rec = [r \in Reconcilers |-> NoRec]
    /\ faults = 0
    /\ raced = {}
    /\ skipped = {}

\* Both readers of the previous turn have caught up with its relay.
Drained ==
    /\ ~sub.on \/ sub.at > Len(relay)
    /\ cfg.json \/ pump > Len(relay)
    /\ entry = NoEntry

captureTurnSnapshot ==
    snaps' = IF cfg.workdir /\ ~cfg.git THEN [snaps EXCEPT ![turn + 1] = <<disk>>] ELSE snaps

\* A message arrives at a session that is not busy: it is given a turn and a snapshot.
SendMessage ==
    /\ exec = "off" /\ agent # "on" /\ poster = "idle" /\ turn < cfg.turns /\ Drained
    /\ rec["stop"].pc \in {"idle", "done"}
    /\ captureTurnSnapshot
    /\ turn' = turn + 1
    /\ start' = disk
    /\ calls' = <<>>
    /\ relay' = <<>>
    /\ pump' = 1
    /\ rec' = [r \in Reconcilers |-> NoRec]
    /\ UNCHANGED <<cfg, disks, ncalls, analysis, database>>

StartTurn ==
    /\ SendMessage
    /\ exec' = "on"
    /\ agent' = "on"
    /\ sub' = [on |-> TRUE, at |-> 1, gen |-> 0, gone |-> FALSE]
    /\ poster' = "follows"
    /\ UNCHANGED skipped

\* The message is refused, its agent does not start, or it loses its place to another one.
TurnRefused ==
    /\ SendMessage
    /\ cfg.refuses
    /\ sub' = [sub EXCEPT !.at = 1, !.gone = FALSE]
    /\ skipped' = skipped \cup {turn + 1}
    /\ UNCHANGED <<exec, agent, poster>>

Event(type, tool, id, ops) ==
    [type |-> type, tool |-> tool, call |-> IF cfg.ids THEN id ELSE 0, of |-> id, ops |-> ops]

\* The agent begins a tool call.  Claude's tools and Bash report it at once; a started
\* command of Codex is reported without operations, a file_change only when it is done.
ToolBegins(tool, k, cmd) ==
    LET id == ncalls + 1
        ops == CASE tool \in Mapped -> << <<k, defaultToolMappings[tool]>> >>
                 [] tool = "Bash" -> SetToSeq(ParseShellCommand(cmd))
                 [] OTHER -> <<>>
    IN  /\ agent = "on" /\ ncalls < cfg.calls
        /\ calls' = Append(calls, [id |-> id, tool |-> tool, key |-> k, cmd |-> cmd, done |-> FALSE])
        /\ ncalls' = id
        /\ relay' = IF tool = "file_change" THEN relay ELSE Append(relay, Event("use", tool, id, ops))
        /\ UNCHANGED <<cfg, disks, turn, start, exec, agent, readers, poster, analysis, database, snapshots, rec>>

\* What a call does to the directory: nothing when it fails, and a command anything.
Effects(c) ==
    {disk} \cup
    CASE c.tool = "Delete" -> {[disk EXCEPT ![c.key] = Absent]}
      [] c.tool = "Write" -> {[disk EXCEPT ![c.key] = v] : v \in cfg.writes}
      [] c.tool = "Edit" -> {[disk EXCEPT ![c.key] = v] : v \in IF disk[c.key] = Absent THEN {} ELSE cfg.writes}
      [] c.tool = "file_change" -> {[disk EXCEPT ![c.key] = v] : v \in cfg.writes \cup {Absent}}
      [] OTHER -> {[disk EXCEPT ![k] = v] : k \in Keys, v \in cfg.writes \cup {Absent}}

\* A call ends: its effect is on the disk and its result in the relay.
ToolEnds(i) ==
    LET c == calls[i]
    IN  /\ agent = "on" /\ i \in DOMAIN calls /\ ~c.done
        /\ \E d \in Effects(c) :
            /\ disk' = d
            /\ relay' = Append(relay,
                    CASE c.tool = "file_change" ->
                            Event("use", c.tool, c.id, IF d = disk THEN <<>> ELSE << <<c.key, OpOf(disk, d, c.key)>> >>)
                      [] c.tool = "command_execution" ->
                            Event("result", c.tool, c.id, SetToSeq(ParseShellCommand(c.cmd)))
                      [] OTHER -> Event("result", c.tool, c.id, <<>>))
        /\ calls' = [calls EXCEPT ![i].done = TRUE]
        /\ UNCHANGED <<cfg, head, turn, start, exec, agent, ncalls, readers, poster, analysis, database, snapshots, rec>>

\* Codex reports the diff of the turn so far.
TurnDiffUpdated ==
    LET ops == ExtractPathsFromUnifiedDiff(start, disk)
    IN  /\ agent = "on" /\ cfg.codex /\ ops # <<>>
        /\ \A i \in DOMAIN relay : relay[i].tool # "turn_diff"
        /\ relay' = Append(relay, Event("use", "turn_diff", 0, ops))
        /\ UNCHANGED <<cfg, disks, turn, start, exec, agent, calls, ncalls, readers, poster, analysis, database, snapshots, rec>>

\* A command of the agent commits its work, or another program writes a file.
Commit ==
    /\ agent = "on" /\ cfg.git /\ cfg.commits /\ head # disk
    /\ head' = disk
    /\ UNCHANGED <<cfg, disk, turn, start, exec, agent, calls, ncalls, relay, readers, poster, analysis, database, snapshots, rec>>

\* A stop of the current turn has cancelled its context.
Stopping == rec["stop"].pc # "idle" /\ rec["stop"].turn = turn

\* The process ends and closes its channel, with its calls done; a stop may cut them off, and
\* a process that breaks may report an error that is worth a retry.
AgentExits ==
    /\ agent = "on"
    /\ (\A i \in DOMAIN calls : calls[i].done) \/ Stopping \/ cfg.breaks
    /\ agent' \in {"off"} \cup (IF cfg.breaks THEN {"broken"} ELSE {})
    /\ UNCHANGED <<cfg, disks, turn, start, exec, calls, ncalls, relay, readers, poster, analysis, database, snapshots, rec>>

-----------------------------------------------------------------------------
(* The readers of the relay                                                 *)

Subscriber == IF poster = "follows" THEN "handler" ELSE "follower"

\* The subscriber (or, without SSE, the handler) reads the next event.  A JSON handler whose
\* client is gone reads on without adding to the task log.
SubscriberReads ==
    /\ sub.on /\ sub.at <= Len(relay)
    /\ IF sub.gone THEN entry.by # "handler" /\ UNCHANGED analysis ELSE TaskLogAdd(relay[sub.at], Subscriber)
    /\ sub' = [sub EXCEPT !.at = @ + 1]
    /\ UNCHANGED <<cfg, disks, turn, start, exec, agent, calls, ncalls, relay, pump, poster, database, snapshots, rec>>

\* The pump reads the next event and leaves it to the subscriber when there is one.
PumpReads ==
    /\ ~cfg.json /\ pump <= Len(relay)
    /\ IF sub.on THEN entry.by # "pump" /\ UNCHANGED analysis ELSE TaskLogAdd(relay[pump], "pump")
    /\ pump' = pump + 1
    /\ UNCHANGED <<cfg, disks, turn, start, exec, agent, calls, ncalls, relay, sub, poster, database, snapshots, rec>>

\* The client goes away, or another subscriber takes its place.
Detach ==
    /\ cfg.follows > 0 /\ ~cfg.json /\ sub.on
    /\ sub' = [sub EXCEPT !.on = FALSE]
    /\ poster' = IF poster = "follows" THEN "detached" ELSE poster
    /\ UNCHANGED <<cfg, disks, turn, start, exec, agent, calls, ncalls, relay, pump, analysis, database, snapshots, rec>>

\* The client of a JSON handler goes away: the handler drains the relay.
JSONClientLeaves ==
    /\ cfg.follows > 0 /\ cfg.json /\ sub.on /\ ~sub.gone
    /\ sub' = [sub EXCEPT !.gone = TRUE]
    /\ UNCHANGED <<cfg, disks, turn, start, exec, agent, calls, ncalls, relay, pump, poster, analysis, database, snapshots, rec>>

\* A client follows the turn again, from an event it names.
Reattach ==
    /\ sub.gen < cfg.follows /\ exec = "on" /\ poster = "detached" /\ ~sub.on
    /\ \E i \in 1..(Len(relay) + 1) : sub' = [sub EXCEPT !.on = TRUE, !.at = i, !.gen = @ + 1]
    /\ UNCHANGED <<cfg, disks, turn, start, exec, agent, calls, ncalls, relay, pump, poster, analysis, database, snapshots, rec>>

-----------------------------------------------------------------------------
(* The end of a turn                                                        *)

Begins(r, t) == [rec EXCEPT ![r] = [NoRec EXCEPT !.pc = "flush", !.turn = t]]

\* The stream of the POST handler has ended.
StreamOver ==
    /\ poster = "follows" /\ agent # "on" /\ sub.at > Len(relay) /\ rec["end"].pc = "idle"
    /\ entry.by # "handler"
    /\ sub' = [sub EXCEPT !.on = FALSE]

\* Its subscription is cleared and it reconciles.
StreamEnds ==
    /\ StreamOver /\ agent = "off"
    /\ rec' = Begins("end", turn)
    /\ UNCHANGED <<cfg, disks, turn, start, exec, agent, calls, ncalls, relay, pump, poster, analysis, database, snapshots>>

\* The agent broke and no retry is left, or a stop took the terminal event: the handler only
\* unregisters.
StreamEndsSilently ==
    /\ StreamOver /\ (agent = "broken" \/ Stopping)
    /\ exec' = "off"
    /\ poster' = "idle"
    /\ skipped' = skipped \cup {turn}
    /\ UNCHANGED <<cfg, disks, turn, start, agent, calls, ncalls, relay, pump, analysis, database, snaps, rec>>

\* A client that only follows has read the whole turn.
FollowEnds ==
    /\ poster # "follows" /\ sub.on /\ agent # "on" /\ sub.at > Len(relay) /\ entry.by # "follower"
    /\ sub' = [sub EXCEPT !.on = FALSE]
    /\ UNCHANGED <<cfg, disks, turn, start, exec, agent, calls, ncalls, relay, pump, poster, analysis, database, snapshots, rec>>

\* A client cancels or terminates the session; the turn of the registered execution, if any.
StopRequested ==
    /\ cfg.stops /\ turn > 0 /\ rec["stop"].pc = "idle"
    /\ rec' = Begins("stop", IF exec = "on" THEN turn ELSE 0)
    /\ UNCHANGED <<cfg, disks, turn, start, exec, agent, calls, ncalls, relay, readers, poster, analysis, database, snapshots>>

CollectClaudeTier1OpsFromStream(events) ==
    LET uses == SelectSeq(events, LAMBDA e : e.type = "use" /\ e.tool \in Mapped)
    IN  [i \in DOMAIN uses |-> uses[i].ops[1]]

AfterFlush == IF cfg.workdir THEN "list" ELSE "finish"

\* turn_files: the structured tools of the relay once more.  Its claims keep each key once; it
\* does not hold the lock of the task log, so a command may have checked its key before.
FlushTurnFiles(r) ==
    LET ops == IF exec = "on" THEN CollectClaudeTier1OpsFromStream(relay) ELSE <<>>
        b == buildEvent(an, rec[r].turn, "turn_files", 0, ops)
    IN  /\ rec[r].pc = "flush"
        /\ rec' = [rec EXCEPT ![r].pc = IF cfg.structured /\ b.rows # <<>> THEN "store" ELSE AfterFlush,
                              ![r].rows = IF cfg.structured THEN b.rows ELSE <<>>,
                              ![r].upto = IF exec = "on" THEN Len(relay) ELSE 0]
        /\ IF cfg.structured
           THEN /\ an' = b.an
                /\ raced' = raced \cup (Slots(b.rows) \cap Slots(SelectSeq(entry.rows, OfShell)))
           ELSE UNCHANGED <<an, raced>>
        /\ UNCHANGED <<cfg, disks, turn, start, exec, agent, calls, ncalls, relay, readers, poster, entry, database, snapshots>>

\* The rows of turn_files are saved one by one; the first that fails ends the flush.
StoreTurnFiles(r) ==
    /\ rec[r].pc = "store"
    /\ SaveSystemArtifactEvent(Head(rec[r].rows), "flush")
    /\ rec' = IF Len(rec[r].rows) = 1 \/ faults' # faults
              THEN [rec EXCEPT ![r].pc = AfterFlush, ![r].rows = <<>>]
              ELSE [rec EXCEPT ![r].rows = Tail(@)]
    /\ UNCHANGED <<cfg, disks, turn, start, exec, agent, calls, ncalls, relay, readers, poster, analysis, snapshots>>

\* The reconciler takes the snapshot of the turn away and lists the events there are.
reconcileSessionArtifacts(r) ==
    /\ rec[r].pc = "list"
    /\ rec' = [rec EXCEPT ![r].pc = "save", ![r].known = Len(log), ![r].snap = snaps[rec[r].turn]]
    /\ snaps' = [snaps EXCEPT ![rec[r].turn] = NoSnap]
    /\ UNCHANGED <<cfg, disks, turn, start, exec, agent, calls, ncalls, relay, readers, poster, analysis, database, skipped>>

\* Without a turn the listing holds every event of the session.
ExistingEvents(r) ==
    SelectSeq(SubSeq(log, 1, rec[r].known), LAMBDA e : rec[r].turn \in {0, e.turn})

\* What git or the snapshot says has changed.
DetectedChanges(r) ==
    CASE cfg.git -> DetectGitChanges(head, disk, cfg.ignored)
      [] ~cfg.git /\ rec[r].snap # NoSnap -> DiffSnapshots(rec[r].snap[1], disk)
      [] OTHER -> {}

\* Supplements every change.
ReconcileAll(existing, changes, tool) == {[key |-> c[1], op |-> c[2], tool |-> tool] : c \in changes}

\* The events to add: for each key without a realtime event the detected change, else what an
\* earlier reconciliation had recorded for it.
Reconcile(existing, changes, tool) ==
    LET rows == Range(existing)
        realtime == {e.key : e \in {e \in rows : Realtime(e)}}
        earlier == {e.key : e \in {e \in rows : ~Realtime(e)}}
        Latest(k) == existing[CHOOSE i \in DOMAIN existing :
                        /\ existing[i].key = k
                        /\ \A j \in DOMAIN existing : existing[j].key = k => j <= i]
    IN  {[key |-> c[1], op |-> c[2], tool |-> tool] : c \in {c \in changes : c[1] \notin realtime}}
        \cup {[key |-> k, op |-> Latest(k).op, tool |-> Latest(k).tool] :
                 k \in (earlier \ realtime) \ {c[1] : c \in changes}}

\* The supplements are saved one by one; the first that fails ends the reconciliation.
RunSessionReconciliation(r) ==
    LET todo == Reconcile(ExistingEvents(r), DetectedChanges(r),
                          IF cfg.git THEN "reconcile:git" ELSE "reconcile:snapshot")
    IN  /\ rec[r].pc = "save"
        /\ \E saved \in SUBSET todo :
            /\ saved = todo \/ (cfg.dbFails /\ faults = 0)
            /\ faults' = IF saved = todo THEN faults ELSE 1
            /\ log' = log \o LET s == SetToSeq(saved)
                             IN  [i \in DOMAIN s |-> [by |-> "reconciler", turn |-> rec[r].turn, tool |-> s[i].tool, call |-> 0,
                                                      key |-> s[i].key, op |-> s[i].op]]
        /\ rec' = [rec EXCEPT ![r].pc = "finish", ![r].at = [k \in Keys |-> <<disk[k], head[k]>>]]
        /\ UNCHANGED <<cfg, disks, turn, start, exec, agent, calls, ncalls, relay, readers, poster, analysis, snapshots>>

\* The POST handler unregisters its execution.
finishActiveExecution ==
    /\ rec["end"].pc = "finish"
    /\ rec' = [rec EXCEPT !["end"].pc = "done"]
    /\ exec' = "off"
    /\ poster' = "idle"
    /\ UNCHANGED <<cfg, disks, turn, start, agent, calls, ncalls, relay, readers, analysis, database, snapshots>>

\* A detached handler sees the session completed, by either reader, and unregisters too.
waitDetached ==
    /\ poster = "detached" /\ entry.by # "handler"
    /\ exec = "off" \/ (agent # "on" /\ (pump > Len(relay) \/ sub.at > Len(relay)))
    /\ exec' = "off"
    /\ poster' = "idle"
    /\ skipped' = skipped \cup {turn}
    /\ UNCHANGED <<cfg, disks, turn, start, agent, calls, ncalls, relay, readers, analysis, database, snaps, rec>>

\* Nobody follows any more for the time the server waits: the agent is stopped.
stopExecOnDrainTimeout ==
    /\ cfg.drains /\ poster = "detached" /\ ~sub.on /\ exec = "on" /\ entry.by # "handler"
    /\ agent' = "off"
    /\ exec' = "off"
    /\ poster' = "idle"
    /\ skipped' = skipped \cup {turn}
    /\ UNCHANGED <<cfg, disks, turn, start, calls, ncalls, relay, readers, analysis, database, snaps, rec>>

\* The same of a JSON handler, which then reconciles an execution that is unregistered.
DrainTimesOut ==
    /\ cfg.drains /\ poster = "follows" /\ sub.gone /\ entry.by # "handler" /\ rec["end"].pc = "idle"
    /\ sub' = [sub EXCEPT !.on = FALSE]
    /\ rec' = Begins("end", turn)
    /\ agent' = "off"
    /\ exec' = "off"
    /\ UNCHANGED <<cfg, disks, turn, start, calls, ncalls, relay, pump, poster, analysis, database, snapshots>>

\* Cancel and terminate close the agent and unregister the execution.
StopFinishes ==
    /\ rec["stop"].pc = "finish"
    /\ rec' = [rec EXCEPT !["stop"].pc = "done"]
    /\ agent' = "off"
    /\ exec' = "off"
    /\ UNCHANGED <<cfg, disks, turn, start, calls, ncalls, relay, readers, poster, analysis, database, snapshots>>

Finished ==
    /\ turn = cfg.turns /\ exec = "off" /\ poster = "idle" /\ Drained
    /\ \A r \in Reconcilers : rec[r].pc \in {"idle", "done"}
    /\ UNCHANGED vars

Agent ==
    \/ \E t \in cfg.tools : ToolBegins(t[1], t[2], t[3])
    \/ \E i \in 1..MaxCalls : ToolEnds(i)
    \/ TurnDiffUpdated
    \/ Commit
    \/ AgentExits

Reconciler(r) == FlushTurnFiles(r) \/ StoreTurnFiles(r) \/ reconcileSessionArtifacts(r) \/ RunSessionReconciliation(r)

Next ==
    \/ StartTurn
    \/ TurnRefused
    \/ Agent
    \/ SubscriberReads
    \/ PumpReads
    \/ SaveEntry
    \/ Detach
    \/ JSONClientLeaves
    \/ Reattach
    \/ StreamEnds
    \/ StreamEndsSilently
    \/ FollowEnds
    \/ StopRequested
    \/ \E r \in Reconcilers : Reconciler(r)
    \/ finishActiveExecution
    \/ waitDetached
    \/ stopExecOnDrainTimeout
    \/ DrainTimesOut
    \/ StopFinishes
    \/ Finished

Spec == Init /\ [][Next]_vars

-----------------------------------------------------------------------------
(* Properties                                                               *)

TypeOK ==
    /\ disk \in [Keys -> Files] /\ head \in [Keys -> Files] /\ start \in [Keys -> Files]
    /\ turn \in 0..MaxTurns /\ ncalls \in 0..MaxCalls /\ faults \in 0..1
    /\ exec \in {"off", "on"} /\ agent \in {"off", "on", "broken"} /\ poster \in {"idle", "follows", "detached"}
    /\ sub.on \in BOOLEAN /\ sub.gone \in BOOLEAN /\ sub.gen \in 0..cfg.follows
    /\ sub.at \in 1..(Len(relay) + 1) /\ pump \in 1..(Len(relay) + 1)
    /\ an.seen \subseteq (0..MaxTurns) \X Keys /\ DOMAIN an.byCall \subseteq 1..MaxCalls
    /\ entry.by \in {"none", "handler", "follower", "pump"}
    /\ \A i \in DOMAIN log : log[i].turn \in 0..MaxTurns /\ log[i].key \in Keys /\ log[i].op \in Ops
    /\ \A i \in DOMAIN relay : relay[i].tool \in Tools
    /\ \A r \in Reconcilers : rec[r].pc \in {"idle", "flush", "store", "list", "save", "finish", "done"}

Tier1(e) == isTier1ToolName(e.tool)
SameSlot(e, f) == e.turn = f.turn /\ e.key = f.key

\* Tier 1 records a key at most once in a turn, although the subscriber, the pump, a follower
\* and the flushes of both reconcilers may each hand the same tool call to the analyzer.
OneTier1PerKey ==
    \A i, j \in DOMAIN log : Tier1(log[i]) /\ Tier1(log[j]) /\ SameSlot(log[i], log[j]) => i = j

\* A shell command adds nothing to a key that a structured tool has recorded in the turn, except
\* when a flush claimed and saved the key between the command's check and its save.
Tier2NeverAfterTier1 ==
    \A i, j \in DOMAIN log :
        i < j /\ Tier1(log[i]) /\ SameSlot(log[i], log[j]) /\ log[j].tool \in Shell =>
            log[i].by = "flush" /\ <<log[j].turn, log[j].key>> \in raced

\* The rows that are claimed or checked and not yet saved.
InHand == Range(entry.rows) \cup UNION {Range(rec[r].rows) : r \in Reconcilers}

\* When a reconciler has flushed turn_files, each key that a structured tool named in what the
\* relay held by then is recorded in the turn, or about to be, whoever read the events, whoever
\* left and whichever reader drained them unseen.
Tier1Complete ==
    cfg.structured /\ faults = 0 =>
        \A r \in Reconcilers : rec[r].pc \in {"list", "save", "finish", "done"} =>
            \A i \in 1..rec[r].upto :
                relay[i].type = "use" /\ relay[i].tool \in Mapped =>
                    \E e \in Range(log) \cup InHand :
                        Tier1(e) /\ e.turn = turn /\ e.key = relay[i].ops[1][1]

\* With call ids, the operations of a Bash command are recorded only once its own result
\* is in the relay: the existence check looks at the directory after the command.
ShellAfterResult ==
    cfg.ids => \A j \in DOMAIN log :
        log[j].tool = "Bash" /\ log[j].turn = turn =>
            \E i \in DOMAIN relay : relay[i].type = "result" /\ relay[i].of = log[j].call

\* A turn whose own handler follows it to the end, for a client that stays and an agent that
\* answers its calls, leaves no stashed command behind, once the pump, which may stash a command
\* again after the subscription is cleared, has caught up.
Orderly == cfg.follows = 0 /\ rec["end"].pc \in {"finish", "done"} /\ rec["stop"].pc = "idle"
PendingDrained ==
    Orderly /\ Drained /\ (~cfg.breaks \/ (cfg.ids /\ \A i \in DOMAIN calls : calls[i].done)) =>
        \A p \in Range(an.byCall) \cup Range(an.fifo) : p.turn # turn

\* After an orderly end with workdir_reconcile and no failing insert, each file whose presence
\* or size differs from the start of the turn (or whose content differs from HEAD and git sees
\* it) has an event in the turn.
ChangeRecorded ==
    Orderly /\ cfg.workdir /\ faults = 0 =>
        \A k \in Keys :
            LET now == rec["end"].at[k]
            IN  (IF cfg.git THEN now[1] # now[2] /\ (k \notin cfg.ignored \/ now[2] # Absent)
                            ELSE ~SameSize(start[k], now[1]))
                => \E i \in DOMAIN log : log[i].turn = turn /\ log[i].key = k

\* One reconciliation of a turn supplements a key at most once, and never one that a tool has
\* recorded, before or after it, when no insert fails; except that a pump that lags hands the
\* commands of the turn over a second time, and one that had failed may find its file then, when
\* the reconciliation has listed the events already.
SupplementOnce ==
    ~cfg.stops /\ faults = 0 => \A i, j \in DOMAIN log :
        ~Realtime(log[i]) /\ log[i].turn = turn /\ SameSlot(log[i], log[j]) =>
            i = j \/ (log[j].tool \in Shell /\ log[j].by = "pump" /\ j > rec["end"].known)

\* The snapshot of a turn is kept after the turn only when nobody reconciled the turn: its
\* message was refused, its handler was detached, or its stream ended silently.
SnapshotReleased ==
    \A t \in 1..MaxTurns :
        snaps[t] # NoSnap =>
            \/ t \in skipped
            \/ t = turn /\ exec = "on"
            \/ \E r \in Reconcilers : rec[r].turn = t /\ rec[r].pc \in {"flush", "store", "list"}

\* A file operation is recorded by its best source only: one row of the first tier for a key
\* and turn, no row of the second after it, and shell commands once they have a result
\* (analyzer.go, shell_emit.go).
TierOrder == TypeOK /\ OneTier1PerKey /\ Tier2NeverAfterTier1 /\ ShellAfterResult

\* No change of a turn that is over is missed, none is supplemented twice, and nothing of the
\* turn stays behind in the analyzer (reconcile.go, artifact_reconcile.go).
NothingMissed == Tier1Complete /\ ChangeRecorded /\ SupplementOnce /\ PendingDrained /\ SnapshotReleased
=============================================================================
