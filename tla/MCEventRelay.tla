---------------------------- MODULE MCEventRelay ----------------------------
(* An instance of EventRelay for TLC: r1 stands for an SSE subscriber, r2  *)
(* for the side-effect pump, which reads from the first event to the last  *)
(* (pumpExecSideEffects).  The ticker depends on the events alone and the  *)
(* readers do not look at tools, so behaviours with tools need no readers  *)
(* (and may be longer), and behaviours with readers no tools.              *)
EXTENDS EventRelay

CONSTANTS r1, r2, MaxRead   \* bound: events of a behaviour with readers

ToolTypes == {"tool_use", "tool_result", "result"}

Instance ==
    /\ start'[r2] = 0 /\ ~gone'[r2]
    /\ \/ pc' = [r \in Readers |-> "unopened"]
       \/ Len(events') <= MaxRead /\ \A i \in DOMAIN events' : events'[i].type \notin ToolTypes

MCSpec == Init /\ [][Next /\ Instance]_vars /\ Fairness
=============================================================================
