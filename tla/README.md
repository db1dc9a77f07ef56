# Arctic Tern: a TLA+ verification project

Arctic Tern runs coding agents (Codex, Claude Code, its own Wayfinder) behind
one HTTP API.  A client creates a session and posts messages to it; every
message is a *turn*: the service starts an agent process, relays its events to
the client as SSE or JSON, retries transient failures, lets other clients
follow the turn, suspends it when the agent asks for input, records the files
the agent changed and the tokens it used, and keeps a history that other agents
can go on from.  The agents reach their models through a gateway of the same
server.  This project models the parts in which goroutines, processes, clients
and files meet, checks them with TLC, and proves the core with TLAPS.

Paths below are relative to `shared/libs/go/` unless they start with `client`,
`features` or `docs`.

## 1. Inventory

| Component | State | Operations | What is hard |
|---|---|---|---|
| Event relay (`agentservice/exec_registry.go`) | event buffer, `notify` token, `doneCh`, `toolDepth`, stream channels | `pump`, `appendEvent`, `markSourceDone`, `stream` | one wakeup token for all readers, lock released around sends, cancel racing the pump |
| Turn execution (`agentservice/handler_retry.go`, `handler.go`, `handler_follow.go`, `handler_session.go`, `service.go`) | `execRegistry`, `activeSessions`, `execCancels`, `activeExecution` | POST messages, GET events, respond, cancel, terminate, side-effect pump, reattach timer | everything is keyed by session id; pump and handler both write the record; timers race attachment; retries race late output |
| Session store (`agentservice/session_store.go`, `workspace_session_store.go`) | cache of record pointers, `record.json`, its temporary file | Create, Get, Update, Delete, listing | pointer aliasing, shared temporary file, crash between steps |
| Canonical history (`agentservice/ingest.go`, `wayfinder/session/canonical.go`, `history.go`) | history files, sequence numbers, agent bindings | Append, UpdateBinding, supplements, PATCH | watermark against the log, crash between append and metadata |
| Agent processes (`codingagent/codex`, `codingagent/claudecode`) | process, pipes, readers, tool tracker, watchdog, stdin | Send, WriteStdin, Stop, limits | exit against last output, two `Wait`s, synthesized results, closing a channel others send on |
| Delivery (`codingagent/sse_chunk.go`, `handler_follow.go`, `client/v1/stream.go`, `client/v1/session.go`, `client/internal/ssechunk`) | subscriber, streamOffset, lines under way, chunk buffers, last id | split, write, read, reassemble, follow, respond | lost connections, stolen subscriptions, ids that restart, chunk boundaries |
| Usage (`agentservice/usage_aggregator.go`, `usage_store.go`, `handler_usage.go`) | calls of the turn, `usage.json`, its temporary file | observe, finalize, persist, query | one event observed by several, one temporary file |
| Log hub (`wsserver`, `tasklog`, `agentservice/log_stream.go`) | log, broadcast channel, send buffers | Add, register, broadcast, poll, shutdown | lock held while sending, full buffers, snapshot against broadcast |
| Artifact analysis (`artifact/analyzer`, `agentservice/artifact_reconcile.go`) | seen keys, stashed commands, snapshots, event table | analyze, flush, reconcile | two readers of one relay, results out of order, reconcile racing a stop |
| Artifact API (`artifact/api`, `artifact/store`, `artifact/storage`, `artifact/mcp`) | event and artifact tables, files | put, delete, append, list, download, archive | handlers of several statements, half-written files, text order of times |
| LLM gateway (`llmgateway`) | session cache, profiles, SDK, certificate | messages, responses, embeddings, reload, renewal | retry after a partial stream, cache read and used under different locks |
| Wayfinder (`wayfinder`) | messages, session folder, plan | loop, plan, compact, save, restore | compaction against tool pairs, crashes in a save, resumed plans |
| Vault, configuration, logger, command line programs | files, environment | lookups, parsing | nothing concurrent |

Interactions: a turn owns a relay; the relay's source is the channel of an agent
process; its readers are the subscriber of a client and the side-effect pump,
and both apply usage and hand events to the artifact analyzer; the end of a turn
ingests its events into the canonical history, reconciles artifacts and writes
the session record.

## 2. Modules

| Module | Models | Composition |
|---|---|---|
| `EventRelay` | the relay, its pump and its readers | proved in `EventRelayProofs` |
| `SessionStore` | one session's record in cache and files | proved in `SessionStoreProofs` |
| `TurnExecution` | the turns of one session | takes reading in order from EventRelay, the record from SessionStore; proved in `TurnExecutionProofs`, the last parts for clients that wait |
| `MessageLog` | what the canonical history promises: an append-only log | |
| `CanonicalHistory` | history files, metadata, bindings, supplements, ingestion, PATCH | implements `MessageLog`; proved in `CanonicalHistoryProofs` |
| `AgentProcess` | an agent's process and the goroutines around it | the source of a relay; proved in `AgentProcessProofs` |
| `SSEChunk`, `UsageReport`, `LogHub` | lines of an event and reassembly; the usage of a turn; the live log | composed by `EventDelivery`; `LogHub` is proved in `EventRelayProofs` |
| `EventDelivery` | events from the relay to a client that loses its connection | |
| `ArtifactAnalysis` | file changes of a turn to artifact events | |
| `ArtifactApi` | requests to the artifact API | the storage is proved in `ArtifactApiProofs` |
| `GatewayConvert`, `TLSCert` | pure conversions; the certificate | composed by `Gateway` |
| `Gateway` | requests to the LLM gateway | certificate and session cache proved in `GatewayProofs` |
| `WayfinderSession` | compaction, chunks, plans (pure) | used by `WayfinderAgent` |
| `WayfinderAgent` | runs of the Wayfinder agent over its session folder | proved in `WayfinderProofs` |
| `MC...` | the instances TLC checks | |

**EventRelay.**  `events`, `sourceDone`, `doneCh` and `notify` are the fields of
`eventRelay`.  `appendEvent` and `markSourceDone` are two steps each, the locked
half and the signalling half, since readers run in between.  A reader follows
`stream`: *check* (under the mutex), *send* (blocked while its channel is full)
and *wait* (the select on `notify` and `doneCh`).  Consumers may stop receiving;
their goroutine stays and competes for tokens, as in the code (and leaks,
exec_registry.go:254).  The agent is silent between a request for input and the
answer.  Heartbeats follow `toolDepth` and the ticker.

**SessionStore.**  Records are objects addressed by pointers, files are inodes.
`Get` returns the cached pointer; assignment, marshalling, truncating the
temporary file, writing, renaming, the removal and retry after a failed rename,
and the cache update are separate steps.  A PATCH that is refused has assigned
already and returns without `Update` (`PatchRefused`).  A listing reads the file
and then upserts.  `Crash` empties memory at any point.  `raced` records whether
two updates ever overlapped, `refused` whether the cache still has what a refused
PATCH left there.  A rename fails only because its temporary file is gone; full
disks and permissions are left out.

**TurnExecution.**  One session, so each registry is one cell.  A turn has up to
three handlers, its POST, one follow and one respond, each with a program
counter; each attempt has a process and a relay of its own, reduced to the
events `system`, `input`, `result`, `error` and `retry`.  The pump has its own
position and may lag arbitrarily.  Abstractions: the record is one cell;
prompts, options and logging are left out; artifacts and usage have modules of
their own.  `TimerFires` assumes that the reattach timeout (90 s) is longer than
a handler needs between the end of a stream and its next step.

**CanonicalHistory.**  `hist` is `history/`, a function from sequence numbers to
messages; `meta` and `tmp` are `metadata.json` and its temporary file.  A
message is its turn, its origin and the positions of the events it was made
from.  A turn follows `handleSendMessage` and `finishActiveExecution`, every
load and every file operation is a step, and the process may die between any
two; a PATCH runs beside it.  `threads` is a history variable: what each native
thread was shown by supplements; `torn` remembers that a crash came while the
files disagreed (TotalSeq counting some of the messages and not all, or
`record.json` behind the record in memory).  Rendering and summarizing a supplement are
left out; that building one may fail is kept.

**AgentProcess.**  One module for Codex and Claude Code; a scenario says which,
interactive or not, which of the handler, the watchdog and the sandbox tracker
may call Stop, and which lines the process may write.  Each goroutine has a
program counter and its pending operations (sends, tracker updates), so that
other goroutines run in between.  A line too long for the scanner ends a reader's
loop while the process runs and its output is unread.  `exec.Cmd` is external,
modelled from how it is used: `Wait` in two goroutines together lets only one
return.

**EventDelivery.**  The plan of a scenario is the sequence of events of each
attempt.  A subscriber takes an event (usage and side effects), then writes its
lines (`SSEChunk`), leaves when it is stolen or its client is gone, and ends
with a terminal event, a synthetic one or a drain; the POST goes on with a new
relay after a retryable failure.  The client library reads lines, assembles
chunks, remembers the id of the last whole event, follows from it when its
connection is lost, and answers a question with `Respond`.  `persistTurnUsage`
is *load*, *open*, *write*, *rename* and the store of the sum for every observer,
over one temporary file.  The aggregator has no lock, so that the check of a call
id, the mark and the append are steps, as are the check, the making and the
keeping of the final record, and the pump and a subscriber run between them.
(What Go does about concurrent access to a map, ending the program, is not
modelled.)  The calls of the gateway's meter are left out: no program attaches a
meter, so `usageMeter` is nil outside tests.  The lines of an event are computed
once, in `wire`.  The wakeup token is not a variable here, EventRelay has it; that
it may wake somebody else is in the fairness.

**ArtifactAnalysis.**  Tools of the agent change the directory and emit events;
the subscriber and the pump read them; the analyzer's maps are `an`.  A row is
made under the lock of the TaskLog: `entry` has the rows in hand there, each saved
by a step of its own whose failure is ignored.  The flush of a reconciler (of the
turn's end, or of a cancel or terminate) claims and saves *without* that lock, and
stops at its first error; the reconciler then lists the events, detects changes
by git or by snapshot and inserts supplements, each a step.  A turn may be
refused, fail to start, or end on a retryable error without being reconciled; an
agent may break off between a call and its result; the client of a JSON request
may leave, and its handler then reads on without logging.  A turn has one attempt
and is not suspended: TurnExecution has both.  A shell command is the set of
operations its words name.

**ArtifactApi.**  A request is a program of SQL statements (atomic: one
connection) and file operations; a file is an inode of two halves.  Listings
with filters, sort orders and pages are operators that are evaluated in every
state.

**Gateway.**  A request is checked, routed through the session cache (read under
one lock, used under another), opens its upstream stream, and turns chunks into
Anthropic events from the flags of the handler; error chunks use up the retry
budget.  Routers have generations, so that a reload replaces one while requests
hold another.  Contents are ids.  The upstream is external: the items of a stream
are taken to come one after the other, each with its delta and its end.  `TLSCert`
has the certificate and its two files: the one made at startup, whose name the
agents have, and the one a renewal makes when it cannot open that.

**WayfinderAgent.**  `msgs` and `nextSeq` are the core's; `disk` is the session
folder; `Save` is one step per file; a run is restore, plan or loop, rounds of
model and tools, compaction when the model says the context is too long.  The
model, the tools and child sessions are external and may answer anything.  The
nodes of a plan are positions; their ids are what the model wrote and may repeat.

## 3. Runs

A property is a conjunction of named parts, each a definition of its own with
its statement and its conditions; the first of a module includes the type
invariant (`EventRelay` and `TurnOne` check none: theirs is proved).

| Run | Property | Parts |
|---|---|---|
| `EventRelay` | `DeliveredInOrder` | a stream delivers exactly the buffer from its start |
| | `HeartbeatInsideTool` | heartbeats only while a tool of the turn is open |
| | `StopsAtUserInput` | a stop-on-input stream delivers nothing past a request for input |
| | `ClosedSawAll` | a stream closes only after all of the buffer, or at a request |
| | `DoneDrains` | once the source is done every consumed stream closes |
| `SessionStoreUpdates` | `RecordWhole` | `RecordKept`, `NeverTorn` |
| | `AckedNotLost` | `AckedDurable`, `LossReported` |
| | `CacheCoherent` | cache and file agree when nothing is in flight, but for what a refused PATCH took away |
| `TurnRetry` | `OneTurnAtATime` | `BusyWhileInFlight`, `OneAgentProcess` |
| | `RetryExact` | `NoRetryAfterResult`, `RetriesUsed`, `HealStartsFresh` |
| | `OutcomeOfTurn` | `OutcomeRecorded`, `NoStaleOutcome` |
| `TurnOne` | `EndsExplicit` | `ReturnedIngested`, `FollowEndsExplicit` |
| | `BusyAccounted` | `BusyHasHandler`, `SuspendedKeepsAgent` |
| | `TurnsEnd` | `RequestsReturn`, `ExitFreesSession` |
| `CanonicalHistory` | `IsLog` | refinement of `MessageLog` |
| | `TotalCovered` | the metadata counts only messages that are there |
| | `ContextExact` | `ContextComplete`, `InjectedOnce` |
| | `NothingLost` | `AppendedKept`, `FactsKept` |
| `AgentProcess` | `ReportTruthful` | `MadeResultTruthful`, `OutcomeReported`, `TimeoutReported` |
| | `ShutdownOrderly` | `OrderlyNoPanic`, `HomeOutlivesProcess` |
| | `ProcessEnds` | `StopReturns`, `ExitCloses` |
| `EventDelivery` | `DeliveredWhole` | `DeliveredInTurn`, `CleanEndTells`, `ChunksConsistent` |
| | `UsageExact` | `CallsOnce`, `ReportExact`, `QueryExact` |
| | `LogFollowed` | `ClientsSeeLog`, `LogStreamExact` |
| | `DeliveryEnds` | `ReadingEnds`, `AddsReturn` |
| `ArtifactAnalysis` | `TierOrder` | `OneTier1PerKey`, `Tier2NeverAfterTier1`, `ShellAfterResult` |
| | `NothingMissed` | `Tier1Complete`, `ChangeRecorded`, `SupplementOnce`, `PendingDrained`, `SnapshotReleased` |
| `ArtifactApi` | `HistoryExact` | `PagesPartition`, `DeletedHidden`, `ArchiveNewest`, `AckedRecorded`, `HistoryAlternates` |
| | `StorageSound` | `CleanStorage`, `ReadWhole`, `OwnContent` |
| `Gateway` | `AnswerWellFormed` | `ContentFromOneStream`, `BlocksNested`, `OpensBounded`, `AnsweredOnce`, `StopReasonTrue` |
| | `ConversionFaithful` | `RealCallsKept`, `ConversionOrdered`, `ToolsCompatible` |
| | `SessionsSound` | `RewrittenWithinSession`, `RoutedInProfiles`, `SessionsTracked`, `SessionsBounded` |
| | `CertCurrent` | `ExpiredOnlyAfterFailures`, `FileMatchesServed` |
| | `RequestEnds` | every request is answered or ends |
| `Wayfinder` | `ContextWellFormed` | `PairsIntact`, `CurrentTurnWhole`, `ChunksWhole` |
| | `HistoryKept` | `SeqsGrow`, `HistoryComplete` |
| | `PlanSound` | `StepAtMostOnce`, `DependenciesDone`, `OutcomeRecorded` |
| | `HistoryImmutable` | no step changes a history file (action property) |
| | `RunEnds` | every run of the loop or a plan ends, unless a tool does not |
| `TurnConcurrent` | `BusyWhileInFlight` | refuted, section 5 |

Each property has a fault, an operator placed before the definition it
replaces, that makes the run fail.

### Bounds

- `EventRelay`: two readers, the fewest for a token to be stolen, and channels
  of capacity one; the proofs cover any number.  The instance (`MCEventRelay`)
  does not mix readers with tools: the ticker depends on the events alone and
  readers do not look at tools.
- `SessionStoreUpdates`: two handlers share a temporary file; three inodes and
  four record objects allow two complete updates and a third in progress.
- `TurnRetry`: two turns in sequence, two attempts each, at most two agent
  events a turn.  `TurnOne`: one turn, streamed or JSON, one agent event, and a
  client of one of the kinds of `Clients` (`MCTurnExecution`): one that cancels or
  terminates, one that leaves, comes back and answers, one that follows a turn of
  two attempts.  A behaviour has one cancel or terminate, a turn one follow and
  one respond.
- `CanonicalHistory`: three turns of two agents and two changes of agent, the
  fewest in which an agent is left and returned to; one crash or stopped turn;
  one PATCH may overlap the first turn; two events in all.  With four turns TLC
  found what three could not show: a turn after a torn crash resumes a thread
  that misses a message, so `ContextComplete` and `AppendedKept` are about
  behaviours in which no crash was `torn`; in this form they also hold with four
  turns and two faults (17 million states, not among the runs).
- `AgentProcess`: eleven scenarios of at most three lines of output and one on
  stderr, with at most two callers of Stop.
- `EventDelivery`: lines of 8 units, of which 2 are overhead and 2 prefix,
  chunks of 4 halved down to 2, so that a result takes three chunks, fills its
  line, has a character cut, grows by escaping, or fits no chunk; three
  connections, one break or thief; one adder, one log client, three entries, a
  broadcast channel of 1 and a send buffer of 2.
- `ArtifactAnalysis`: fourteen scenarios of at most two turns and two tool calls
  each, two keys, three contents of two sizes, one reattached follower, one
  failing insert.  Among them are a failed shell command and a successful one on
  the same key, a stop while a tool of the key that a shell command names is in
  hand, refusals and failed starts, an agent that breaks off, and a JSON client
  that leaves.
- `ArtifactApi`: up to six concurrent requests, four half seconds, pages of 0 to
  2; listings with all sort orders.
- `Gateway`: up to five requests together, a cache of one session, two retries,
  streams of five chunks; every order of three content blocks; certificates of
  four intervals renewed two before the end (144 and 6 in the code).
- `Wayfinder`: three iterations (25 in the code), chunks of two messages (20), at
  most three turns and two faults; plans that are a chain, a fork, a cycle, empty,
  depend on an unknown step, or use an id twice.

Deadlock is checked for the artifact runs; the other systems come to rest when
their clients do.

### Fairness

Goroutines that can run do run, as far as nothing they call can block for ever.

- `EventRelay`: the pump, every reader, and the receivers that receive.
- `TurnExecution`: the steps of handlers and timers that close no agent session.
  `Session.Close` enters a second `cmd.Wait` and may hang, so the steps that call
  it are not fair, nor is reading a stream whose source stays open, and no agent
  has to exit.  `TurnsEnd` says which of these holds a turn up when it does not end
  (`Hangs`).
- `AgentProcess`: the goroutines, the watchdog, and that a killed process dies.
  `Stuck` has the three places where a goroutine waits for ever: an answer in the
  pipe of a dead process, two `Wait`s together, and a cancelled turn of Claude Code
  whose stdin nobody closes.
- `EventDelivery`: one condition covers all self-driven steps, of which a
  behaviour has finitely many, which makes it fairness of each.  An agent emits
  its events and exits unless it has sent a result, where the drain ends the
  stream.  A reader takes an event for certain only once the source is done: until
  then the one wakeup token may go to another reader.  `DeliveryEnds` excepts a
  reader that sleeps for this reason (`Overslept`).
- `Gateway`: the steps of every request and of a reload.
- `WayfinderAgent`: the steps of a run except those of tools.  `execute_command`
  has a time limit for its shell, but `Run` waits for every descendant that holds
  the output pipes; `RunEnds` excepts a tool that never returns (`ToolRuns`).
- `ArtifactAnalysis`, the stores and the histories state safety only and assume
  none.

Nothing is assumed of clients, of what agents emit, of crashes, or of connections.

## 4. Proofs

`EventRelayProofs` proves, for any set of readers, any capacity and any bounds:

- `TypeCorrect`: `Spec => []TypeOK`;
- `DeliveryCorrect`: `Spec => []DeliveredInOrder`;
- `StopCorrect`: `Spec => []StopsAtUserInput`;
- `CloseCorrect`: `Spec => []ClosedSawAll`;
- `HeartbeatCorrect`: `Spec => []HeartbeatInsideTool`.

The assumptions are `RelayAssumption` only.  `DeliveredInOrder` is inductive
together with the type invariant and the bound on a reader's index (it never
passes the buffer, and a reader about to send holds an event of the buffer);
the buffer only grows, so what was delivered stays equal to it.
`StopsAtUserInput` needs that a closed stream moves no more; `ClosedSawAll`
needs that `doneLen` is fixed when the source is marked done and never exceeds
the buffer.
`HeartbeatInsideTool` does not mention the pump's counter; `BeatInv` adds what
the counter means: while `toolDepth` is d > 0, from some position of the buffer
on no turn has ended and at least d more tools were used than returned.  Results
without a use make the counter the smaller of the two, never the larger.

Its second part is about the live log, for any adders, clients, capacities and
length of the log, from `LogHubAssumption`:

- `LogIsFollowed`: `HubSpec => []LogFollowed`.

`HubSpec` is the hub by itself; a step of EventDelivery either leaves its variables
alone or is one of `HubNext`, so what is proved of it holds there too.  For each
client the invariant takes together what it was sent (`Had`: what it read and what
is in its buffer) and what the hub will still send to it (`Coming`: the broadcast
channel and the entry in the hands of an adder).  While the hub serves it, the two
are the log and the log again from some entry on (`Whole`), since what is coming
is always the end of the log (`OnTheirWay`), whatever the length of the
channel; between its registration and its snapshot a client has nothing
(`Awaits`), and the snapshot is taken when no adder holds the lock.  A client that
is dropped loses what was coming; what it had is then a beginning of that
(`Part`, `PartBegins`).  That a message appended to a buffer, or taken from it,
leaves what the buffer shows in order is proved of `FlattenSeq` by a least
counterexample.  `Following` is the invariant of the log stream: what was written
and what was skipped are the entries up to `lastIndex`, so that a later poll
writes larger ones only.

`CanonicalHistoryProofs` proves, for any agents, events and bounds, from
`HistoryAssumption`:

- `HistoryIsLog`: `Spec => IsLog`, that is, `CanonicalHistory` with `log <- hist`
  implements `MessageLog`;
- `TotalIsCovered`: `Spec => []TotalCovered`;
- `NothingIsLost`: `Spec => []NothingLost`;
- `ContextIsExact`: `Spec => []ContextExact`, the types, `ContextComplete` and
  `InjectedOnce`.

`TotalCovered` alone is not inductive: stale metadata lives on in the temporary
file and in the hands of a process that is about to save it.  The invariant
`Counted` says of *every* copy that it counts only messages that are there, and
of a turn's next sequence number that it is at most one behind the last file.
Copies stay right because the history only grows; so a number is either taken,
and the file is kept, or the first free one, and the history stays without
gaps.  `Orderly` adds, until a PATCH overlaps a turn, that no copy has a binding
ahead of its own TotalSeq, for which the TotalSeq a turn has read for its
binding must still be the metadata's.  The proof has one step per action
(`CountedStep`, `OrderlyStep`).

`NothingLost` has two halves.  `FactsKept` is about a recursion, and is proved
for every sequence of events: if some number of events were not gathered right
there would be a least one, and `TakeGathers` says that one more event gathers
right what was right before.  (`Gathers` keeps the text that no event ended yet
behind the last message, where a flush puts it.)  `AppendedKept` needs `Sound`:
outside an append TotalSeq is 0 or the number of files, so the next append
begins behind the last one, with or without metadata; while its files are
written, those of them that are there are the last ones (`Filing`); and what is
about to be saved counts them all (`SaveSound`).  A crash between the files and
the metadata of an append is what breaks this, and `torn` excludes just it: with
TotalSeq 0, or with the metadata gone, `maxHistorySeq` finds the last file.

`ContextExact` speaks of one moment, at which an agent starts or runs; what makes
it true was done turns earlier, for another agent.  The invariant `Contexts`
follows it through all copies of the metadata (`Live`: the one in place and those
on their way there).  `Staged` is what a turn has at each step: the metadata is
there, its TotalSeq counts everything from the user's prompt on, and the agent is
the record's.  `Informing` says that a thread that began whole has the messages of
the other agents through its binding's number, and, while the record knows a native
id or a turn is under way, the threads that turn may end with have all of them.  A
crash keeps this because it is not `torn`: the record on disk is the one in memory.
`Differing` keeps the messages apart: prompts by their turn, an agent's messages by
their events.  `Injecting`, as long as every turn was ingested, says that no two
agents share a thread and that no thread, but for the one in use, was shown a
message behind its binding's number; what is injected is behind it, hence new.
`LiveStep` says what a step may add to the copies (nothing, the bindings of an
earlier copy, or the turn's new binding), and each of the four parts has one lemma
with one case per action (`StagedStep`, `InformingStep`, `DifferingStep`,
`InjectingStep`).  `Typed`, for `TypeOK`, adds that no copy and no turn knows a
thread that was not begun.

`SessionStoreProofs` proves, for any handlers, statuses, thread ids and bounds,
from `StoreAssumption`:

- `RecordIsWhole`: `Spec => []RecordWhole`;
- `AcknowledgedNotLost`: `Spec => []AckedNotLost`;
- `CacheIsCoherent`: `Spec => []CacheCoherent`.

The invariant has two layers.  `Locals` and `Attended` hold whoever overlaps:
`record.json` and its temporary file are never one inode, and until a crash a
truncated file has a handler about to write it, a missing record a handler that
will rename again or report; at rest there is no such handler, which is
`LossReported`.  `Alone` holds while nobody has overlapped: it says at each of a
handler's steps (`Owns`) what that handler knows of the cached object, the
temporary file and the record, since the record is whole *between* updates only
because the handler in the middle of one is about to make it so.
`CacheCoherent` needs one fact more of a handler at rest: that the cache is the
record on disk, or that record without its native agent session, and then only
after a refused PATCH (`Agrees`).

`TurnExecutionProofs` proves, for any turns, requests, attempts and events, any
clients and any order of the steps, from `TurnAssumption`:

- `TypeCorrect`: `Spec => []TypeOK`;
- `BusyIsAccounted`: `Spec => []BusyAccounted`;
- `EndsAreExplicit`: `Spec => []EndsExplicit`.

`TurnInv` says of every turn where its handlers may be and what that implies
(`Places`: from *reading* on the execution has a relay), that a registered
execution has no handler that has returned (`Busy`), that an execution leaves
the registry only ingested or ended (`Kept`), that a follower wrote the terminal
it read (`Told`), and, as long as nobody disturbs a JSON client, that no timer
runs and that the POST that read a question is suspended with its agent alive
(`Calm`, `Unstopped`, `Asked`).  Of `BusyHasHandler` alone no step could be
proved: that `Finish` of one handler frees the session of *another* is harmless
only since the registered execution is what it ingests.

Its second part adds, again for any clients:

- `RetriesAreRight`: `Spec => [](NoRetryAfterResult /\ RetriesUsed)`.

`RetryInv` numbers the attempts of a turn (`Numbered`: none beyond the current
one has started, and the execution holds the relay of the current one from
*reading* on, but not while the next attempt waits), says that a process that
did not start said nothing and that a relay is done only when its process has
exited or the turn was ended (`Wellborn`), and therefore that all attempts before
the current one are over without a result (`Earlier`); `AtRetry` carries that
from the end of the stream, where the relay is drained and so complete, to the
decision to retry.

Its third part assumes `Patient`: in `Requests`, clients
neither send while a turn is served nor cancel, terminate, disconnect, follow or
respond (starting an agent may still fail).  Then

- `OneTurnOneAgent`: `Patient` implies `Spec => []OneTurnAtATime`;
- `RetryIsExact`: `Patient` implies `Spec => []RetryExact`.

`TurnRetry` checks an instance of it.  Patience is needed and not a convenience:
with two turns and any one of these choices allowed TLC refutes
`OneTurnAtATime` (section 5: a stolen or broken subscription arms the reattach
timer, a late `finishActiveExecution` unregisters the next turn).  What remains
is the POST, its retries, its pump, its agents, questions nobody answers and the
reattach timer that ends them, for any number of turns.  `PatientInv` says that
at most one POST is served (`Alone`), that it holds the registry once it has a
relay and that until then nobody does, and that only the current attempt's
process may be alive (`Holds`), that the timer is armed only where a handler of
its own stream is between two steps or the turn is suspended (`Attended`), and
that the native id a fresh attempt would resume was reported by some attempt
(`Healed`), since the pump may put it back after the retry has cleared it.

Its last part assumes `Ordinary` as well: agents ask nothing, and a request that
is not streamed is tried once.  Then

- `OutcomeIsTold`: `Patient` and `Ordinary` imply `Spec => []OutcomeOfTurn`.

Again both are needed and allow the instance of `TurnRetry`: TLC refutes
`OutcomeOfTurn` with a question behind a result, and with a JSON request of two
attempts (section 5).  `OutcomeInv` follows the record over the one turn that
writes it: it does not say that the turn is over as long as the relay holds no
result and no permanent error and the other pumps have ended (`Fresh`), and
says *completed* from the decision at the end of the stream on if that was a
result (`Recorded`).  Between two attempts the old relay is still the execution's,
so `Fresh` can only be carried over since that one is complete and holds neither
(`Failing`), which is what `ensureRelayTerminal` makes of a stream that ended on
a retryable error; `Heard` says that a stream is left after its end or an event.

All four invariants were checked by TLC on the instances of `TurnOne` and
`TurnRetry` before they were proved.

`GatewayProofs` proves, for any scenarios, requests, cache size, lifetime and
threshold, from `GatewayAssumption` and `TLSAssumption`:

- `CertificateIsCurrent`: `Spec => []CertCurrent`;
- `SessionCacheIsSound`: `Spec => []SessionsSound`.

`CertInv` counts: at rest a renewal has failed at least once for every check
since the certificate came within `Threshold` of its end, and between a tick and
its check one time less (`DueFailures`); and only while the new file is about to
be written may the file that the manager names (`CACertFilePath`) be another
certificate's.  Nothing is claimed of the first file once a renewal has left it
for another: agents keep its name (section 5).  `SessionInv` carries what a
lookup read under the read lock to where it is used under the write lock: what a
cache, or a handler between its locks, holds for a session was resolved by a
request of that session among the profiles of that router and never changes
(`Holds`), whether or not the entry is still there.  Of the cache, the bound on
the sessions alone is not inductive, since `evictOldest` may take a place of a
session that has left and free nothing; `Fits` bounds the *access order* by the
limit plus the lost lookups, and every session has a place in it.

`AgentProcessProofs` proves, for any scenarios, so for any lines, any number of
them and anybody who stops the process, without an assumption:

- `ReportsAreTruthful`: `Spec => []ReportTruthful`;
- `ShutdownIsOrderly`: `Spec => []ShutdownOrderly`.

Nothing of this is inductive by itself, since what a reader will send is decided
lines before it sends it.  `Types` therefore says which operations a reader may
still hold at each place.  `Orderly` says that until somebody cancels, the reader
of stdout passes `<-stderrDone` only after the other reader has ended, and closes
the channel last; `Buried` that a `Wait` that has a status saw the process gone.
`Made` follows the one status of the process from the `Wait` to the made-up
result: while no `Wait` has finished, the reader left its loop only at the end of
the output or with an error, and once another `Wait` has finished and closed the pipes the
reader's own can no longer return status 0.  A reader that left at a line too long
has the error among its pending operations until it has sent it, which is why a
result may be made up then only with that error in the channel, or after a
cancellation (`Read`).  `Calm` says that while nobody
cancels nothing is lost: a rejection counts as answered only after its emission
(`Justified`, of the operations still held as well), and a result that was seen
is sent or about to be.  `Timed` is why `emitTimeout` may give up: only on a
context that is done, and then the process was gone before the watchdog could
signal it, or somebody else signalled it.  TLC checked these invariants on the
scenarios of the run before they were proved.

`WayfinderProofs` proves, for any scenarios, so for any plans, answers of the
model, errors, crashes and failed writes, and any limits, from
`WayfinderAssumption` (a plan is a sequence of the ids of its steps, which may
repeat):

- `HistoryIsImmutable`: `Spec => HistoryImmutable`;
- `PlanIsSound`: `Spec => []PlanSound`;
- `HistoryIsKept`: `Spec => []HistoryKept`.

The first needs only that a step of `AppendHistory` writes a number without an
entry.  `PlanSound` is about executed steps, but its reason lies in the folder:
`Planned` says of the tree in memory *and* of the one on disk that a completed
step has run to its end and that none that was begun is still pending (`Sound`;
status and dependencies go by id, executions by position),
so that a resumed plan starts no step again; that the rest of a batch is still
executable (`Queued`); and that a turn plans anew only if there is nothing to
resume.  `Once` adds that until a save fails a step is in the metadata as running
before it is executed, which has to be carried through the stages of the save in
between (`At` is where the run goes on after it), and `Recorded` that the status
in the metadata is that of the outcome.  `HistoryComplete` is about the saved
context only; `Kept` says that the messages up to the `TotalSeq` of the metadata
have their entries and the others, which the next save enters, are above it, so
that neither skipping the lower ones nor those that are there loses any.  That
holds since numbers grow along the messages (`Numbered`), and a compaction keeps
the last message and puts its summary, which has no number, first
(`CompactKeepsEnd`, over any boundary `AdjustBoundaryForUserStart` and
`AdjustBoundaryForToolPairs` can walk to).  TLC checked `HistoryInv`, all of these
together, on the scenarios of the run.

`ArtifactApiProofs` proves, for any scenarios, so for any requests, keys, bodies,
interleavings and failures, from `ScenariosAssumption` (user requests name a
key, and a body that is put is not empty):

- `StorageIsSound`: `Spec => []StorageSound`.

The storage directory holds files under ids, and nothing in it says whose they
are; that `GET` of one key never shows another key's bytes is only true because
ids are new when they are made.  The invariant therefore says that there *are*
owners, `own` of the ids and `iown` of the inodes, with which rows, files, what a
request holds and what a reader copied agree (`OwnersOf`); a step that makes an id
or an inode extends them and no step changes them.  Since owners of two keys are
different ids, a step on one key leaves what is said of another alone.  For a key
whose writers never met, `Progress` says at each step of its one writer what it
has made of the file, `KeyFiles` that every file of the key that is not being
written is whole, and, when nothing fails, `KeyRows` that a row has its file and a
file its row, or the writer at work has both.  `QuietReads` follows a download: an
inode that was whole when it was opened is never written again, since a PUT of
the same id removes the name and creates a new inode.  `CleanStorage` speaks
only of keys at rest, so nothing of it is inductive without `Progress`.  The steps
of `Next` are first reduced to what they do to the storage (`Stepping`), and each
part of the invariant has one lemma for each of those.

Only model-checked: liveness, since fairness and ENABLED are outside the prover,
and these invariants:

- of WayfinderAgent `ContextWellFormed`, of Gateway `AnswerWellFormed` and
  `ConversionFaithful`, of ArtifactAnalysis `TierOrder` and `NothingMissed`, and of
  EventDelivery `DeliveredWhole` and `UsageExact`: what is computed from a sequence
  of any length by a fold or a recursion, or how chunks are put together again;
- of ArtifactApi `HistoryExact`, which is about sorting and filtering; both are
  opaque to the provers.

## 5. Divergences

Kept as a run that TLC must refute: `TurnConcurrent`.  Of two concurrent
messages the refused one calls `finishActiveExecution`, which unregisters the
accepted one; a third message is then accepted while the first still runs.

The others were met while modelling and are in the models.  Where one would
break a property, the property excludes it by a condition it states.

**Relay.**  A stop-on-input stream can sleep through the request for input when
another reader takes its token, although `stream` says that it closes then.
The goroutine of a stream nobody reads any more never ends.

**Store.**  `Get` hands out the stored pointer, so `Update` compares a record
with itself and a closed session can be reopened.  A PATCH that is refused for its
model, its supplement or its configuration directory has already changed the
agent and cleared the native agent session in the cache, and the next update
saves that.  Overlapping updates can
remove `record.json`; an overlapping listing can put an older record into the
cache.

**Turns.**
- After a cancel the record keeps its reason, and no later result completes the
  session.
- After a drain timeout freed the session, the old JSON handler's late
  `finishActiveExecution` unregisters the next turn.
- An SSE reader that leaves at a request for input before the pump has marked
  the execution suspended arms the reattach timer, which stops the waiting
  agent.  A timer that has fired stops a turn a follower has just attached to.
- A POST whose stream was stolen never retries.
- A lagging pump restores the native thread id a retry cleared, marks the
  next turn completed, or marks a session suspended whose turn has ended with a
  result, when a request for input follows that.
- The JSON path goes by the last terminal event: a result or an error that a
  retryable error follows is tried again, and the record says that the turn is
  over while the next attempt runs.
- A follower's stream that ends on a retryable error gets no terminal event.
- Respond without an event-stream Accept header resumes the agent and is
  refused, and no handler finishes the turn.
- The handler that ends a turn closes the agent session, whose second `cmd.Wait`
  may never return; the session then stays busy.  So it does while a reader waits
  for a source that stays open.
- An agent that exits while it waits for input leaves the session busy.

**History.**  A turn that ends before its agent reported a thread id moves that
agent's watermark all the same, and its next turn starts a thread that is told
nothing of the other agents.  After a crash between a history file and the
metadata the next message finds its file name taken, is skipped, and `Append`
returns nil; a self-heal then takes the older message for its prompt, and the
thread it starts, which later turns resume, never has it.  A PATCH
is not refused while a turn has not yet registered; it may write an older
TotalSeq and older bindings back.

**Agent processes.**  A line longer than the scanner's buffer ends the loop of a
reader while the process runs; the error is sent, but if the process then exits
with status 0 a result is made up, though its output was never read.  An agent that
writes on may block on the full pipe.  The sandbox tracker is checked before and marked after a
result is sent, so one tool use can get two results, and a synthesized result
can precede its tool use; after a rejection in single-shot mode later results
are dropped.  Two concurrent `cmd.Wait`s: the loser hangs.  An answer written to
a process that has just died blocks with `stdinMu` held, and Stop waits for it.
An interactive Claude Code process keeps stdin open and its channel closes only
when the watchdog stops it.  After a cancellation the stderr reader may send on
the closed channel.

**Delivery.**  Lines of 65530 to 65535 bytes, and long text and tool_use events,
which are not split, exceed the client's scanner.  A character cut by a chunk
boundary becomes replacement characters.  Ids restart with each attempt: a
client that comes back with an id of the attempt before gets 400 or misses
events, and usage may be incomplete.  A stolen POST whose turn completes gets
`[DONE]` without the outcome, as does a stream with an event that fits no chunk
size, whose write error is ignored.  A stolen subscriber can set `streamOffset`
back, and Respond then repeats events.  A subscriber whose wakeup the pump has
taken does not see a result while the source stays open, so that the drain that
should end the stream is never armed.  Respond before the pump marked the
session suspended gets 409.  The client does not close the old body in
`RunWithHandlers`, and its reading goroutine leaks when the consumer stops.

**Usage.**  `Observe` and `Finalize` are not synchronised.  When the pump and a
subscriber observe one call together, both can pass the check of its id and count
it twice, or one append can overwrite the other's; concurrent access to the map
can end the program.  Writers of
`usage.json.tmp` rename each other's file, so the report may be torn for a
while, and concurrent turns may lose an update.

**Log.**  `TaskLog.Add` sends to the hub with its lock held: a circular wait with
the hub's snapshot, and a wedge after Shutdown with a full channel.  Register
and unregister block for ever after stop.  The log stream skips entries added
between its two reads; a client may see an entry in its snapshot and again as a
broadcast.

**Artifacts.**  A detached turn is never reconciled and its snapshot stays; so does
the snapshot of a message that is refused after it was taken, whose agent does not
start, or whose retries are used up; nothing ever frees it.  The flush of a cancel or terminate does not hold the TaskLog's lock: a shell
command that has checked its key before can save its row after the flush's row of
the same key.  The flush stops at its first error with earlier rows saved and all of
its claims kept.  A JSON handler whose client left reads the rest without logging
it.  When an agent breaks off, a command whose result never came stays stashed, and
a result without a call id in the next turn pops it.  A pump that lags can record
a failed command of a key when the supplement of that key is there already.
Reconciling a turn twice records earlier supplements again.  Write then Delete
of one key in a turn records the first only.  A commit during the turn hides its
changes from git; changes from before the turn are taken for its own;
same-size edits escape a snapshot.  A pump that lags analyses events again, and
events it leaves to a subscriber who goes away are lost.  Without call ids any
result pops the oldest command.  A failed insert keeps its claim.  Only the last
attempt of a turn feeds turn_files.  The keys seen are never freed.  The filter
of deleted keys works on filtered rows; RFC3339Nano texts do not sort by time.
Concurrent PUTs and DELETEs of a user key leave rows and files that do not
match; a body that breaks off leaves a row with a cut file.

**Gateway.**  A lost lookup leaves a ghost in `accessOrder`, which lets the cache
exceed its limit; expiry can delete a fresh entry.  The fallback flag sticks to
the RoutedModel later requests share.  A truncated upstream stream ends as a
complete one; a non-streamed answer without a stop reason is `end_turn` even
with a tool call.  A failed reload leaves the SDK that was shut down.  Two
providers with one model name: the map's order decides.  Message ids do not
differ (`randomHexString`).  The CA file is written after the certificate is
swapped, and a failed write leaves it empty or cut.  When it cannot be opened the
new certificate goes to a file of another name, or to none; agents are given the
name once, at startup, and those that start later trust the old certificate.  The upstream channel is not
drained after an error chunk.

**Wayfinder.**  Ids of steps are not checked: two steps of one id share a status, so
one of them may be skipped or its outcome overwritten.  A command of
`execute_command` that leaves a descendant with the output pipe keeps its tool from
returning after the time limit.  A second compaction drops the summary of the first.  The first
turn can never be compacted.  A retry of an empty answer uses up an iteration.
`ask_user` in the middle of a round leaves later calls without a result.
`saveSession` erases the plan on disk, so that a suspended plan is not resumed;
a step that ran when the process died is never run again and fails its plan.  A
question of a child is passed on but its step fails.  `atomicWrite` removes
before it renames, and a crash there loses the metadata; a crash between
metadata and context gives numbers out again.  An empty plan completes.  A cut
stream of the model is taken as whole.

## 6. Not modelled

The shutdown of the service; arguments and environment of agents, the Windows
branch of Stop, WSL; the effects of Wayfinder's tools, its guardrails, the
migration of old session files and their cleanup; the sessions table, schema
migration and JSON of the artifact API, and its path normalisation; the gateway's read-only endpoints, its
adapter for keys and its usage meter, which nothing records into; the client's
calls that are one request and its JSON; embeddings, health and version; the
rendering of supplements; vendor homes; vault, configuration, logger and the
command line programs.  These are pure I/O, formatting or sequential lookups.

## 7. Plan

Next: a theorem about `OneTier1PerKey` of ArtifactAnalysis, whose claims are what keeps
the subscriber, the pump and two flushes apart.  After that, the shutdown of the
service composed with TurnExecution, and AgentProcess composed with EventRelay as the source of its
events.
