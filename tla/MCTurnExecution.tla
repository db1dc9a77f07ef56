-------------------------- MODULE MCTurnExecution --------------------------
(* The turns of TurnExecution for TLC.                                     *)
EXTENDS TurnExecution, TLC

Symmetry == Permutations(Turns)

Turned(accepts, env, events, emits, attempts) ==
    {[accept |-> a, env |-> env, events |-> events, emits |-> emits, attempts |-> attempts] :
        a \in accepts}
SSEOnly == {"sse"}
Either == {"sse", "json"}

\* Turns whose processes fail, report late, or do not start.
Retried == Turned(SSEOnly, {"startfails"}, {"system", "result", "retry"}, 2, 2)

\* Messages that are sent while others run.
Together == Turned(SSEOnly, {"concurrent"}, {"result"}, 1, 1)

\* Clients that cancel or terminate; that leave, come back and answer; that only follow while
\* the turn is tried again.
Clients ==
    Turned(Either, {"follow", "cancel", "terminate"}, {"input", "result", "error"}, 1, 1)
    \cup Turned(Either, {"follow", "respond", "plainrespond", "disconnect"},
                {"input", "result", "error", "retry"}, 1, 1)
    \cup Turned(Either, {"follow"}, {"input", "result", "retry"}, 1, 2)
=============================================================================
