-------------------------- MODULE MCEventDelivery --------------------------
(* Instances of EventDelivery for TLC.                                      *)
EXTENDS EventDelivery

Ev(type, content, usage) == [type |-> type, content |-> content, usage |-> usage]
Use(src, call, n) == [src |-> src, call |-> call, n |-> n]
Says(c) == Ev("text", <<c>>, NoUsage)
Asks == Ev("input", <<>>, NoUsage)
Call(id, n) == Ev("text", <<>>, Use("call", id, n))
Fails == Ev("retry", <<>>, NoUsage)
Result(n) == Ev("result", <<>>, IF n = 0 THEN NoUsage ELSE Use("result", 0, n))
Tool(content) == Ev("tool_result", content, NoUsage)

Turn(plan, brk, thief) ==
    [plan |-> plan, breaks |-> brk, thief |-> thief, hub |-> FALSE,
     report |-> <<[turn |-> 1, n |-> 4, calls |-> <<>>, at |-> 1]>>]

Deliveries ==
    {\* a result in three chunks, one that fills its line, one whose character a chunk cuts,
     \* one that grows when it is escaped, one that no chunk size fits
     Turn(<<<<Says("a"), Tool(<<"a", "b", "c", "d", "e", "f", "g", "h", "i">>), Result(0)>>>>, 1, FALSE),
     Turn(<<<<Tool(<<"a", "b", "c", "d", "e">>), Result(0)>>>>, 0, FALSE),
     Turn(<<<<Tool(<<"a", "b", "c", "x1", "x2", "d">>), Tool(<<"q", "a", "q", "a">>), Result(0)>>>>, 0, FALSE),
     Turn(<<<<Tool(<<"q", "q", "q">>), Result(0)>>>>, 1, FALSE),
     \* an attempt that fails and is tried again; one that is not
     Turn(<<<<Call(1, 3), Fails>>, <<Call(2, 2), Result(0)>>>>, 0, FALSE),
     Turn(<<<<Says("a"), Fails>>, <<Says("b"), Result(0)>>>>, 1, FALSE),
     Turn(<<<<Says("a"), Fails>>>>, 1, FALSE),
     \* the agent asks
     Turn(<<<<Says("a"), Asks, Result(0)>>>>, 1, FALSE),
     Turn(<<<<Says("a"), Asks, Result(2)>>>>, 0, TRUE),
     \* the usage of calls, seen by another follower too, with and without a total
     Turn(<<<<Call(1, 3)>>>>, 0, TRUE),
     Turn(<<<<Call(1, 3), Result(5)>>>>, 0, FALSE),
     Turn(<<<<Call(1, 3), Call(2, 2), Result(0)>>>>, 0, FALSE),
     \* it ends in an error, and without a terminal event
     Turn(<<<<Ev("text", <<>>, Use("count", 0, 3)), Ev("error", <<>>, NoUsage)>>>>, 1, FALSE),
     Turn(<<<<>>>>, 1, FALSE),
     \* the log
     [Turn(<<<<>>>>, 0, FALSE) EXCEPT !.hub = TRUE]}

\* The turns of the report are 1 and 2, at these times.
Asking ==
    [after : 0..3, from : {0, 1, 2}, to : {0, 1, 2}, since : {0}, until : {0}, lastN : {0, 1}]
    \cup [after : {0}, from : {0}, to : {0}, since : 0..3, until : 0..3, lastN : {0, 1}]
=============================================================================
