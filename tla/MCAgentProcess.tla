--------------------------- MODULE MCAgentProcess ---------------------------
(* Instances of AgentProcess for TLC.                                       *)
EXTENDS AgentProcess

Scenario(agent, interactive, stoppers, responds, cancels, outLines, maxOut, errLines, maxErr) ==
    [agent |-> agent, interactive |-> interactive, stoppers |-> stoppers,
     responds |-> responds, cancels |-> cancels,
     outLines |-> outLines, maxOut |-> maxOut, errLines |-> errLines, maxErr |-> maxErr]

Outcomes == {"asks", "thread", "fails", "failsFatal", "turnDone", "overloaded", "call", "output"}

Orderly ==
    {\* every outcome of a process that nobody stops
     Scenario("codex", FALSE, {}, FALSE, FALSE, Outcomes, 2, {"stdinWait", "fatal"}, 1),
     Scenario("claude", FALSE, {}, FALSE, FALSE, {"started", "completed", "says", "thread", "turnDone", "garbage"}, 2, {"fatal"}, 1),
     \* a line that is too long, with a process that goes on, is stopped or is cancelled
     Scenario("codex", FALSE, {}, FALSE, FALSE, {"tooLong", "says", "turnDone"}, 2, {"tooLong"}, 1),
     Scenario("claude", TRUE, {"close", "dog"}, FALSE, TRUE, {"tooLong", "turnDone"}, 2, {"tooLong"}, 1),
     \* a rejected command, on one side or on both
     Scenario("codex", FALSE, {}, FALSE, FALSE, {"started", "completed", "saysReject", "says"}, 3, {"reject"}, 1),
     Scenario("codex", TRUE, {"sandbox"}, FALSE, FALSE, {"started", "completed"}, 2, {"reject"}, 1),
     \* the watchdog, the handler and a cancelled turn that stop the process
     Scenario("codex", FALSE, {"dog"}, FALSE, FALSE, {"turnDone"}, 1, {"fatal"}, 1),
     Scenario("claude", FALSE, {"close", "dog"}, FALSE, FALSE, {"turnDone"}, 1, {}, 0),
     Scenario("codex", TRUE, {"close"}, FALSE, TRUE, {"says"}, 1, {"stdinWait"}, 1),
     \* an answer on stdin
     Scenario("codex", TRUE, {"close"}, TRUE, FALSE, {"asks"}, 1, {}, 0),
     \* Claude Code keeps stdin open until the watchdog stops it
     Scenario("claude", TRUE, {"dog"}, FALSE, FALSE, {"turnDone"}, 1, {"fatal"}, 1)}

=============================================================================
