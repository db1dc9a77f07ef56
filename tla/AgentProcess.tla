---------------------------- MODULE AgentProcess ----------------------------
(***************************************************************************)
(* The process of a coding agent and the goroutines around it: the reader  *)
(* of stdout that turns lines into stream events, the reader of stderr,    *)
(* the watchdog, Stop with its callers, and the answer of a user on stdin  *)
(* (codingagent/codex, codingagent/claudecode).  The consumer of the event *)
(* channel is the relay pump, which always drains it, so the channel is    *)
(* the sequence of the events sent.  Exec.Cmd is external: one Wait takes  *)
(* the exit status and the single result of the context watcher; another   *)
(* that entered together with it never returns.                            *)
(***************************************************************************)
EXTENDS Naturals, Sequences, FiniteSets, SequencesExt

CONSTANTS
    Scenarios     \* the scenarios a run starts from: the agent, its mode, who stops it,
                  \* whether a user answers or the turn is cancelled, and the lines the
                  \* process may write, at most maxOut on stdout and maxErr on stderr

ASSUME ScenarioAssumption ==
    \A c \in Scenarios :
        /\ c.agent \in {"codex", "claude"}
        /\ {c.interactive, c.responds, c.cancels} \subseteq BOOLEAN
        /\ c.stoppers \subseteq {"close", "dog", "sandbox"}
        /\ {c.maxOut, c.maxErr} \subseteq Nat

VARIABLES
    cfg,          \* the scenario of this process
    proc,         \* the process: [state, signals, out, err] (lines written so far)
    pipe,         \* unread lines: [{"out", "err"} -> Seq(line)]
    pipesClosed,  \* a Wait has closed our ends of the pipes
    waits,        \* cmd.Wait of the reader and of every Stop
    reaped,       \* cmd.ProcessState is set
    finished,     \* the one result of the context watcher is taken
    ctx,          \* procCtx: "live", "ended" by the reader, "cancelled"
    gor,          \* the two reading goroutines: [pc, ops]
    track,        \* commandExecTracker: [use, rejected, held]
    seen,         \* resultEmitted, lastErrContent and the lines in stderrBuf
    dog,          \* the watchdog
    stops,        \* every Stop: how far it is
    home,         \* the temporary CODEX_HOME exists
    stdin,        \* [open, busy, copier]: the pipe, its mutex, the copying goroutine
    answer,       \* WriteStdin
    ch, chClosed, panicked

vars == <<cfg, proc, pipe, pipesClosed, waits, reaped, finished, ctx, gor, track,
          seen, dog, stops, home, stdin, answer, ch, chClosed, panicked>>
procVars == <<cfg, proc, pipe>>
waitVars == <<waits, reaped, finished, pipesClosed>>
goVars == <<gor, track, seen>>
stopVars == <<dog, stops, home>>
inVars == <<stdin, answer>>
chVars == <<ch, chClosed, panicked>>

Readers == {"out", "err"}
Stoppers == {"close", "dog", "sandbox"}
Waiters == {"out"} \cup Stoppers
Codex == cfg.agent = "codex"

\* A stream event: its type and where it comes from.
Ev(type, from) == [type |-> type, from |-> from]
Op(do, ev) == [do |-> do, ev |-> ev]
NoEv == Ev("none", "none")

TypeOK ==
    /\ proc.state \in {"running", "ok", "failed"}
    /\ proc.signals \subseteq Stoppers
    /\ waits \in [Waiters -> {"idle", "entered", "status", "lost", "ok", "err"}]
    /\ ctx \in {"live", "ended", "cancelled"}
    /\ gor["out"].pc \in {"scan", "drain", "stdin", "synth", "wait", "report", "return", "close", "end"}
    /\ gor["err"].pc \in {"scan", "end"}
    /\ track.use \in {"none", "open", "answered"}
    /\ dog \in {"watch", "emit", "stop", "end"}
    /\ stops \in [Stoppers -> {"idle", "called", "signal", "grace", "done"}]
    /\ answer \in {"idle", "text", "newline", "done", "refused"}
    /\ \A i \in 1 .. Len(ch) :
          ch[i].type \in {"user_input", "tool_use", "tool_result", "text", "error", "result", "system"}

Init ==
    /\ cfg \in Scenarios
    /\ proc = [state |-> "running", signals |-> {}, out |-> 0, err |-> 0]
    /\ pipe = [g \in Readers |-> <<>>]
    /\ pipesClosed = FALSE
    /\ waits = [w \in Waiters |-> "idle"]
    /\ reaped = FALSE
    /\ finished = FALSE
    /\ ctx = "live"
    /\ gor = [g \in Readers |-> [pc |-> "scan", ops |-> <<>>]]
    /\ track = [use |-> "none", rejected |-> FALSE, held |-> FALSE]
    /\ seen = [result |-> FALSE, error |-> "none", stderr |-> {}]
    /\ dog = "watch"
    /\ stops = [s \in Stoppers |-> "idle"]
    /\ home = (cfg.agent = "codex")
    /\ stdin = [open |-> cfg.interactive, busy |-> FALSE, copier |-> cfg.interactive]
    /\ answer = "idle"
    /\ ch = <<>>
    /\ chClosed = FALSE
    /\ panicked = FALSE

-----------------------------------------------------------------------------
(* The process (external).                                                 *)

WriteLine(g, l) ==
    /\ proc.state = "running"
    /\ IF g = "out" THEN proc.out < cfg.maxOut ELSE proc.err < cfg.maxErr
    /\ Len(pipe[g]) < 1
    /\ proc' = [proc EXCEPT ![g] = @ + 1]
    /\ pipe' = [pipe EXCEPT ![g] = Append(@, l)]
    /\ UNCHANGED <<cfg, waitVars, ctx, goVars, stopVars, inVars, chVars>>

ProcExit ==
    /\ proc.state = "running"
    /\ \E s \in {"ok", "failed"} : proc' = [proc EXCEPT !.state = s]
    /\ UNCHANGED <<cfg, pipe, waitVars, ctx, goVars, stopVars, inVars, chVars>>

\* The watcher of exec.CommandContext kills the process once procCtx is done.
Killed ==
    /\ proc.state = "running"
    /\ ctx # "live"
    /\ proc' = [proc EXCEPT !.state = "failed"]
    /\ UNCHANGED <<cfg, pipe, waitVars, ctx, goVars, stopVars, inVars, chVars>>

\* The context of the turn is cancelled.
CancelTurn ==
    /\ cfg.cancels
    /\ ctx = "live"
    /\ ctx' = "cancelled"
    /\ UNCHANGED <<procVars, waitVars, goVars, stopVars, inVars, chVars>>

-----------------------------------------------------------------------------
(* What a line of stdout means: ParseExecEvent and DetectUserInput for      *)
(* Codex, ParseJSONLinesEvents for Claude Code.                             *)

ParseItemEvent(l) ==
    CASE l = "started"                -> <<Ev("tool_use", "agent")>>
      [] l = "completed"              -> <<Ev("tool_result", "agent")>>
      [] l \in {"says", "saysReject"} -> <<Ev("text", "agent")>>
      [] OTHER                        -> <<>>

ParsePayloadEvent(l) ==
    CASE l = "call"   -> <<Ev("tool_use", "agent")>>
      [] l = "output" -> <<Ev("tool_result", "agent")>>
      [] OTHER        -> <<>>

\* An error of an overloaded upstream is no event: Codex retries it itself.
ParseExecEvent(l) ==
    CASE l \in {"fails", "failsFatal"}  -> <<Ev("error", "agent")>>
      [] l = "turnDone"                 -> <<Ev("result", "agent")>>
      [] l \in {"thread", "tokenCount"} -> <<Ev("system", "agent")>>
      [] OTHER                          -> ParseItemEvent(l) \o ParsePayloadEvent(l)

ParseJSONLinesEvents(l) ==
    CASE l = "started"   -> <<Ev("tool_use", "agent"), Ev("tool_use", "agent")>>
      [] l = "completed" -> <<Ev("tool_result", "agent")>>
      [] l = "says"      -> <<Ev("text", "agent")>>
      [] l = "garbage"   -> <<Ev("error", "agent")>>
      [] l = "turnDone"  -> <<Ev("result", "agent")>>
      [] l = "thread"    -> <<Ev("system", "agent")>>
      [] OTHER           -> <<>>

\* A line with choices, or one that says that stdin is read, asks the user.
DetectUserInput(l) == IF l = "asks" THEN <<Op("send", Ev("user_input", "agent"))>> ELSE <<>>
DetectStdinWait(l) == IF l = "stdinWait" THEN <<Op("send", Ev("user_input", "stderr"))>> ELSE <<>>

IsSandboxRejection(l) == l \in {"reject", "saysReject"}
IsNonRetryableError(ls) == ls \cap {"fatal", "failsFatal"} # {}

Sends(evs) == [i \in 1 .. Len(evs) |-> Op("send", evs[i])]
Flush == <<Op("flush", NoEv)>>

\* What the reader of a Codex process does for one line, in order.  A result
\* without an open tool use (batch output) is preceded by a made-up tool use.
CodexOps(l) ==
    LET evs == ParseExecEvent(l) IN
    DetectUserInput(l) \o
    CASE l = "started"   -> <<Op("use", NoEv)>> \o Flush \o Sends(evs)
      [] l = "completed" ->
            (IF track.use = "open" THEN <<>>
             ELSE <<Op("use", NoEv), Op("send", Ev("tool_use", "made"))>> \o Flush)
            \o <<Op("answer", NoEv)>> \o Sends(evs)
      [] l = "output"     -> <<Op("answer", NoEv)>> \o Sends(evs)
      [] l = "saysReject" -> <<Op("reject", NoEv)>> \o Sends(evs)
      [] OTHER            -> Sends(evs)

ClaudeOps(l) == Sends(ParseJSONLinesEvents(l))
LineOps(l) == IF Codex THEN CodexOps(l) ELSE ClaudeOps(l)

\* The next line does not fit into the buffer of the scanner (bufio.ErrTooLong).
TooLong(g) == pipe[g] # <<>> /\ Head(pipe[g]) = "tooLong"

ScanOut ==
    /\ gor["out"] = [pc |-> "scan", ops |-> <<>>]
    /\ ~pipesClosed
    /\ pipe["out"] # <<>>
    /\ ~TooLong("out")
    /\ LET l == Head(pipe["out"]) IN
          /\ gor' = [gor EXCEPT !["out"].ops = LineOps(l)]
          /\ seen' = [seen EXCEPT !.result = @ \/ l = "turnDone",
                                  !.error = IF Codex /\ l \in {"fails", "failsFatal"} THEN l ELSE @]
    /\ pipe' = [pipe EXCEPT !["out"] = Tail(@)]
    /\ UNCHANGED <<cfg, proc, waitVars, ctx, track, stopVars, inVars, chVars>>

\* End of file once the process is gone.  A read error, reported if it can be, when a
\* Wait closed the pipe first, and at a line that is too long: then the process may
\* still run, and what it writes is read no more.
ScanEnds ==
    /\ gor["out"] = [pc |-> "scan", ops |-> <<>>]
    /\ \/ pipesClosed \/ TooLong("out")
       \/ proc.state # "running" /\ pipe["out"] = <<>>
    /\ gor' = [gor EXCEPT !["out"] =
                  [pc |-> "drain",
                   ops |-> IF pipesClosed \/ TooLong("out") THEN <<Op("try", Ev("error", "read"))>> ELSE <<>>]]
    /\ UNCHANGED <<procVars, waitVars, ctx, track, seen, stopVars, inVars, chVars>>

ScanErr ==
    /\ gor["err"] = [pc |-> "scan", ops |-> <<>>]
    /\ ~pipesClosed
    /\ pipe["err"] # <<>>
    /\ ~TooLong("err")
    /\ LET l == Head(pipe["err"]) IN
          /\ seen' = [seen EXCEPT !.stderr = @ \cup {l}]
          /\ gor' = [gor EXCEPT !["err"].ops =
                        IF ~Codex THEN <<>>
                        ELSE DetectStdinWait(l)
                             \o (IF IsSandboxRejection(l) THEN <<Op("reject", NoEv), Op("stop", NoEv)>> ELSE <<>>)]
    /\ pipe' = [pipe EXCEPT !["err"] = Tail(@)]
    /\ UNCHANGED <<cfg, proc, waitVars, ctx, track, stopVars, inVars, chVars>>

\* The reader of stderr reports no error of reading.
ErrEnds ==
    /\ gor["err"] = [pc |-> "scan", ops |-> <<>>]
    /\ \/ pipesClosed \/ TooLong("err")
       \/ proc.state # "running" /\ pipe["err"] = <<>>
    /\ gor' = [gor EXCEPT !["err"].pc = "end"]
    /\ UNCHANGED <<procVars, waitVars, ctx, track, seen, stopVars, inVars, chVars>>

-----------------------------------------------------------------------------
(* Sending and the tracker of sandbox rejections.  A select on the channel  *)
(* and procCtx.Done() takes either when both are ready, and panics when it  *)
(* takes the send on a closed channel.                                      *)

Sent(ev) == /\ ~chClosed
            /\ ch' = Append(ch, ev)
            /\ UNCHANGED panicked
Skipped == /\ ctx # "live"
           /\ UNCHANGED <<ch, panicked>>
Panics == /\ chClosed
          /\ panicked' = TRUE
          /\ UNCHANGED ch

SetOps(g, ops) == gor' = [gor EXCEPT ![g].ops = ops]
\* A reader returns from the middle of its loop.
Return(g) == gor' = [gor EXCEPT ![g] = [pc |-> IF g = "out" THEN "return" ELSE "end", ops |-> <<>>]]

\* A made-up result that was not sent is not marked, and nothing is cleared or
\* stopped for it: these operations are the first of the rest.
Unmarked(rest) ==
    LET after == {i \in 1 .. Len(rest) : rest[i].do \in {"mark", "clear", "stop"}}
    IN  SubSeq(rest, Cardinality(after) + 1, Len(rest))

DoSend(g, op, rest) ==
    /\ op.do \in {"send", "try", "emit"}
    /\ \/ Sent(op.ev) /\ SetOps(g, rest)
       \/ Panics /\ Return(g)
       \/ Skipped /\ CASE op.do = "send" -> Return(g)
                       [] op.do = "try"  -> SetOps(g, rest)
                       [] op.do = "emit" -> SetOps(g, Unmarked(rest))
    /\ UNCHANGED <<track, stops>>

\* markToolUse, markToolResult, tryFlushPendingRejection,
\* trySynthesizeFromRejectionText and emitSandboxToolResult, lock by lock.
Emit == <<Op("emit", Ev("tool_result", "made")), Op("mark", NoEv)>>
Unstopped(rest) == IF rest # <<>> /\ Head(rest).do = "stop" THEN Tail(rest) ELSE rest
DoTrack(g, op, rest) ==
    /\ \/ /\ op.do = "use"
          /\ track' = IF track.rejected THEN track ELSE [track EXCEPT !.use = "open"]
          /\ SetOps(g, rest)
       \/ /\ op.do = "flush"
          /\ SetOps(g, IF track.held /\ track.use = "open"
                       THEN Emit \o <<Op("clear", NoEv), Op("stop", NoEv)>> \o rest ELSE rest)
          /\ UNCHANGED track
       \/ /\ op.do = "reject"
          /\ SetOps(g, CASE track.use = "open" -> Emit \o rest
                         [] track.use = "none" -> <<Op("hold", NoEv)>> \o Unstopped(rest)
                         [] OTHER              -> Unstopped(rest))
          /\ UNCHANGED track
       \/ /\ op.do = "hold"
          /\ track' = [track EXCEPT !.held = TRUE]
          /\ SetOps(g, rest)
       \/ /\ op.do = "mark"
          /\ track' = [track EXCEPT !.use = "answered", !.rejected = TRUE]
          /\ SetOps(g, rest)
       \/ /\ op.do = "clear"
          /\ track' = [track EXCEPT !.held = FALSE]
          /\ SetOps(g, rest)
       \/ /\ op.do = "answer"
          /\ track' = [track EXCEPT !.use = "answered", !.held = FALSE]
          /\ SetOps(g, IF track.rejected THEN <<>> ELSE rest)
    /\ UNCHANGED <<stops, ch, panicked>>

\* After a made-up result an interactive Codex process is stopped, in a
\* goroutine of its own.
DoStop(g, op, rest) ==
    /\ op.do = "stop"
    /\ stops' = IF cfg.interactive /\ "sandbox" \in cfg.stoppers /\ stops["sandbox"] = "idle"
                THEN [stops EXCEPT !["sandbox"] = "called"] ELSE stops
    /\ SetOps(g, rest)
    /\ UNCHANGED <<track, ch, panicked>>

Step(g) ==
    /\ gor[g].ops # <<>>
    /\ LET op == Head(gor[g].ops)
           rest == Tail(gor[g].ops) IN
          DoSend(g, op, rest) \/ DoTrack(g, op, rest) \/ DoStop(g, op, rest)
    /\ UNCHANGED <<procVars, waitVars, ctx, seen, dog, home, inVars, chClosed>>

-----------------------------------------------------------------------------
(* cmd.Wait (external) and the end of the reader of stdout.                 *)

WaitEnter(w) == waits' = [waits EXCEPT ![w] = IF reaped THEN "err" ELSE "entered"]

\* The process is gone: the first waiter takes its status.
WaitReap(w) ==
    /\ waits[w] = "entered"
    /\ proc.state # "running"
    /\ waits' = [waits EXCEPT ![w] = IF reaped THEN "lost" ELSE "status"]
    /\ reaped' = TRUE
    /\ UNCHANGED <<procVars, pipesClosed, finished, ctx, goVars, stopVars, inVars, chVars>>

\* One waiter gets the result of the watcher, waits for the copying of stdin
\* and closes the pipes.
WaitFinish(w) ==
    /\ waits[w] \in {"status", "lost"}
    /\ ~finished
    /\ ~stdin.copier \/ ~stdin.open
    /\ finished' = TRUE
    /\ pipesClosed' = TRUE
    /\ waits' = [waits EXCEPT ![w] = IF waits[w] = "status" /\ proc.state = "ok" THEN "ok" ELSE "err"]
    /\ UNCHANGED <<procVars, reaped, ctx, goVars, stopVars, inVars, chVars>>

OutAt(pc) == gor["out"] = [pc |-> pc, ops |-> <<>>]
OutGoes(pc, ops) == gor' = [gor EXCEPT !["out"] = [pc |-> pc, ops |-> ops]]

\* Fault: the reader of stdout does not wait for the one of stderr.
DrainAtOnce ==
    /\ OutAt("drain")
    /\ OutGoes(IF Codex THEN "stdin" ELSE "wait", <<>>)
    /\ waits' = IF Codex THEN waits ELSE [waits EXCEPT !["out"] = IF reaped THEN "err" ELSE "entered"]
    /\ UNCHANGED <<procVars, pipesClosed, reaped, finished, ctx, track, seen, stopVars, inVars, chVars>>

\* <-stderrDone
Drain ==
    /\ OutAt("drain")
    /\ gor["err"].pc = "end"
    /\ OutGoes(IF Codex THEN "stdin" ELSE "wait", <<>>)
    /\ waits' = IF Codex THEN waits ELSE [waits EXCEPT !["out"] = IF reaped THEN "err" ELSE "entered"]
    /\ UNCHANGED <<procVars, pipesClosed, reaped, finished, ctx, track, seen, stopVars, inVars, chVars>>

CloseStdin == /\ ~stdin.busy
              /\ stdin' = [stdin EXCEPT !.open = FALSE]

\* closeStdin, and the last chance to answer an open tool use (synthesizeIfNeeded).
OutClosesStdin ==
    /\ OutAt("stdin")
    /\ CloseStdin
    /\ OutGoes("synth", IF track.use = "open" /\ (track.held \/ \E l \in seen.stderr : IsSandboxRejection(l))
                        THEN Emit ELSE <<>>)
    /\ UNCHANGED <<procVars, waitVars, ctx, track, seen, stopVars, answer, chVars>>

OutWaits ==
    /\ OutAt("synth")
    /\ OutGoes("wait", <<>>)
    /\ WaitEnter("out")
    /\ UNCHANGED <<procVars, pipesClosed, reaped, finished, ctx, track, seen, stopVars, inVars, chVars>>

\* The outcome: an error with what stderr or the last stdout error said, or a
\* result if the agent sent none.  Codex says whether the error may be retried.
ExitMessage == IF seen.stderr # {} THEN seen.stderr
               ELSE IF seen.error # "none" THEN {seen.error} ELSE {"status"}
ExitError == IF Codex /\ ~IsNonRetryableError(ExitMessage) THEN Ev("error", "exitRetryable")
             ELSE Ev("error", "exit")
\* Fault: a result on every status 0.
ResultAgain(status) == IF status = "err" THEN <<Op("try", ExitError)>> ELSE <<Op("try", Ev("result", "made"))>>

\* What the reader reports of the exit status.
Outcome(status) ==
    IF status = "err"
    THEN IF track.rejected THEN <<>> ELSE <<Op("try", ExitError)>>
    ELSE IF seen.result THEN <<>> ELSE <<Op("try", Ev("result", "made"))>>

OutReports ==
    /\ OutAt("wait")
    /\ waits["out"] \in {"ok", "err"}
    /\ OutGoes("report", Outcome(waits["out"]))
    /\ UNCHANGED <<procVars, waitVars, ctx, track, seen, stopVars, inVars, chVars>>

\* The deferred cancel(), then the deferred close(ch).
OutCancels ==
    /\ OutAt("report") \/ OutAt("return")
    /\ ctx' = IF ctx = "live" THEN "ended" ELSE ctx
    /\ OutGoes("close", <<>>)
    /\ UNCHANGED <<procVars, waitVars, track, seen, stopVars, inVars, chVars>>

CloseChannel ==
    /\ OutAt("close")
    /\ chClosed' = TRUE
    /\ OutGoes("end", <<>>)
    /\ UNCHANGED <<procVars, waitVars, ctx, track, seen, stopVars, inVars, ch, panicked>>

-----------------------------------------------------------------------------
(* The watchdog and Stop.                                                   *)

DogFires ==
    /\ dog = "watch"
    /\ "dog" \in cfg.stoppers
    /\ dog' = "emit"
    /\ UNCHANGED <<procVars, waitVars, ctx, goVars, stops, home, inVars, chVars>>

DogLeaves ==
    /\ dog = "watch"
    /\ ctx # "live"
    /\ dog' = "end"
    /\ UNCHANGED <<procVars, waitVars, ctx, goVars, stops, home, inVars, chVars>>

\* emitTimeout recovers from the panic of a closed channel.
EmitTimeout ==
    /\ dog = "emit"
    /\ \/ Sent(Ev("error", "dog"))
       \/ Skipped
    /\ dog' = "stop"
    /\ stops' = [stops EXCEPT !["dog"] = "called"]
    /\ UNCHANGED <<procVars, waitVars, ctx, goVars, home, inVars, chClosed>>

\* Session.Close of the handler.
CallStop ==
    /\ "close" \in cfg.stoppers
    /\ stops["close"] = "idle"
    /\ stops' = [stops EXCEPT !["close"] = "called"]
    /\ UNCHANGED <<procVars, waitVars, ctx, goVars, dog, home, inVars, chVars>>

StopClosesStdin(s) ==
    /\ stops[s] = "called"
    /\ CloseStdin
    /\ stops' = [stops EXCEPT ![s] = "signal"]
    /\ UNCHANGED <<procVars, waitVars, ctx, goVars, dog, home, answer, chVars>>

\* SIGTERM, which the process may heed at once, later or never, and Wait in a goroutine.
StopSignals(s) ==
    /\ stops[s] = "signal"
    /\ proc' = IF proc.state = "running" THEN [proc EXCEPT !.signals = @ \cup {s}] ELSE proc
    /\ WaitEnter(s)
    /\ stops' = [stops EXCEPT ![s] = "grace"]
    /\ UNCHANGED <<cfg, pipe, pipesClosed, reaped, finished, ctx, goVars, dog, home, inVars, chVars>>

\* Fault: the grace period never ends.
NeverKills(s) == /\ stops[s] = "grace"
                 /\ UNCHANGED vars

\* The grace period is over: cancel() kills the process.
StopKills(s) ==
    /\ stops[s] = "grace"
    /\ waits[s] \notin {"ok", "err"}
    /\ ctx = "live"
    /\ ctx' = "cancelled"
    /\ UNCHANGED <<procVars, waitVars, goVars, stopVars, inVars, chVars>>

\* Stop returns, having removed the temporary CODEX_HOME.
StopReturned(s) ==
    /\ stops[s] = "grace"
    /\ waits[s] \in {"ok", "err"}
    /\ home' = FALSE
    /\ stops' = [stops EXCEPT ![s] = "done"]
    /\ UNCHANGED <<procVars, waitVars, ctx, goVars, dog, inVars, chVars>>

-----------------------------------------------------------------------------
(* WriteStdin: the text and the newline go through io.Pipe one after the    *)
(* other, with the mutex held; each blocks until the copying goroutine has  *)
(* taken it, and that goroutine ends when the process is gone.              *)

Respond ==
    /\ cfg.responds
    /\ answer = "idle"
    /\ ~stdin.busy
    /\ IF stdin.open
       THEN answer' = "text" /\ stdin' = [stdin EXCEPT !.busy = TRUE]
       ELSE answer' = "refused" /\ UNCHANGED stdin
    /\ UNCHANGED <<procVars, waitVars, ctx, goVars, stopVars, chVars>>

Copied ==
    /\ answer \in {"text", "newline"}
    /\ stdin.copier
    /\ answer' = IF answer = "text" THEN "newline" ELSE "done"
    /\ stdin' = [stdin EXCEPT !.copier = (proc.state = "running"), !.busy = (answer = "text")]
    /\ UNCHANGED <<procVars, waitVars, ctx, goVars, stopVars, chVars>>

-----------------------------------------------------------------------------
Next ==
    \/ \E l \in cfg.outLines : WriteLine("out", l)
    \/ \E l \in cfg.errLines : WriteLine("err", l)
    \/ ProcExit \/ Killed \/ CancelTurn
    \/ ScanOut \/ ScanEnds \/ ScanErr \/ ErrEnds
    \/ \E g \in Readers : Step(g)
    \/ Drain \/ OutClosesStdin \/ OutWaits \/ OutReports \/ OutCancels \/ CloseChannel
    \/ \E w \in Waiters : WaitReap(w) \/ WaitFinish(w)
    \/ DogFires \/ DogLeaves \/ EmitTimeout \/ CallStop
    \/ \E s \in Stoppers : StopClosesStdin(s) \/ StopSignals(s) \/ StopKills(s) \/ StopReturned(s)
    \/ Respond \/ Copied

\* Goroutines run, the watchdog fires in the end, and a process obeys only
\* SIGKILL; nobody has to write, answer, cancel or stop.
OutThread == \/ Step("out") \/ WaitReap("out") \/ WaitFinish("out")
             \/ ScanOut \/ ScanEnds \/ Drain \/ OutClosesStdin \/ OutWaits
             \/ OutReports \/ OutCancels \/ CloseChannel
ErrThread == Step("err") \/ ScanErr \/ ErrEnds
StopThread(s) == \/ WaitReap(s) \/ WaitFinish(s)
                 \/ StopClosesStdin(s) \/ StopSignals(s) \/ StopKills(s) \/ StopReturned(s)
Fairness ==
    /\ WF_vars(OutThread) /\ WF_vars(ErrThread) /\ \A s \in Stoppers : WF_vars(StopThread(s))
    /\ WF_vars(Killed) /\ WF_vars(Copied) /\ WF_vars(DogFires \/ EmitTimeout)

Spec == Init /\ [][Next]_vars /\ Fairness

-----------------------------------------------------------------------------
Events == {ch[i] : i \in 1 .. Len(ch)}

\* A result the agent did not send is made up only when the process ended
\* with status 0 and no result was read from it (process.go, the last lines
\* of the reader), whoever else stopped the process and waited for it.  If its
\* output was not read to the end, because a line was too long, the channel
\* says so too, unless the turn was cancelled.
MadeResultTruthful ==
    Ev("result", "made") \in Events =>
        /\ proc.state = "ok"
        /\ pipe["out"] = <<>> \/ Ev("error", "read") \in Events \/ ctx = "cancelled"
        /\ Ev("result", "agent") \notin Events

\* As long as nobody cancels the turn or kills the process, no goroutine
\* sends on the closed event channel: the reader of stdout closes it only
\* after the reader of stderr and the watchdog's context are done.
OrderlyNoPanic == panicked => ctx = "cancelled"

\* A channel that was closed without a cancellation carries an outcome: a
\* result, an error or the made-up result of a rejected command.
OutcomeReported ==
    chClosed /\ ctx # "cancelled" =>
        \E e \in Events : \/ e.type \in {"result", "error"}
                          \/ e = Ev("tool_result", "made")

\* If only the watchdog ended the process, whoever reads the channel to its
\* end finds the timeout in it (emitTimeout comes before Stop).
TimeoutReported ==
    chClosed /\ proc.signals = {"dog"} /\ ~cfg.cancels => Ev("error", "dog") \in Events

\* The temporary CODEX_HOME is removed only when the process that uses it is
\* gone.
HomeOutlivesProcess == Codex /\ ~home => proc.state # "running"

\* Stop ends: the process is gone and its Stop has returned, unless an answer
\* is stuck in the pipe to a dead process, two Waits entered together, or a turn of
\* Claude Code was cancelled, whose watchdog is gone and whose stdin nobody closes.
Stuck == \/ stdin.busy /\ ~stdin.copier
         \/ finished /\ \E w \in Waiters : waits[w] \in {"status", "lost"}
         \/ ~Codex /\ ctx = "cancelled" /\ stdin.open /\ stdin.copier
StopReturns == (\E s \in Stoppers : stops[s] = "called")
                  ~> ((\A s \in Stoppers : stops[s] \in {"idle", "done"}) \/ Stuck)

\* When the process is gone the channel is closed, with the same exceptions.
ExitCloses == proc.state # "running" ~> (chClosed \/ Stuck)

\* What the channel of a process says is true, and it says something: a made-up result
\* is earned, or follows an error of reading, a closed channel carries an outcome, and a
\* timeout is in it (process.go, the readers of stdout and stderr, the watchdog).
ReportTruthful == TypeOK /\ MadeResultTruthful /\ OutcomeReported /\ TimeoutReported

\* A process is taken down in order: nobody sends on the closed channel, and its home is
\* removed when it is gone (Stop, the cleanup of CODEX_HOME).
ShutdownOrderly == OrderlyNoPanic /\ HomeOutlivesProcess

\* A process ends: Stop returns, and the channel of a dead process is closed.
ProcessEnds == StopReturns /\ ExitCloses
=============================================================================
