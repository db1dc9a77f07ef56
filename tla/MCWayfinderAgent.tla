-------------------------- MODULE MCWayfinderAgent --------------------------
(* Instances of WayfinderAgent for TLC.                                     *)
EXTENDS WayfinderAgent

Scenario(plans, children, systemPrompt, errors, streams, cuts, turns, faultBound, cancels) ==
    [plans |-> plans, children |-> children, systemPrompt |-> systemPrompt,
     errors |-> errors, streams |-> streams, cuts |-> cuts,
     turns |-> turns, faults |-> faultBound, cancels |-> cancels]

PlanOf(order, deps) == [order |-> order, deps |-> deps]
Chain == PlanOf(<<"a", "b">>, <<{}, {"a"}>>)
Fork == PlanOf(<<"c", "a", "b">>, <<{"a", "b"}, {}, {}>>)
Cycle == PlanOf(<<"a", "b">>, <<{"b"}, {"a"}>>)
Unknown == PlanOf(<<"a">>, <<{"x"}>>)
Nothing == PlanOf(<<>>, <<>>)
Same == PlanOf(<<"b", "a", "a", "b">>, <<{"a"}, {}, {}, {}>>)
Text == <<"text">>
Run == <<"run">>
Ask == <<"ask">>

Wayfinder ==
    {\* the loop, over several turns
     Scenario({}, FALSE, TRUE, {"error", "tooLong"}, {Text, Run, <<"text", "run">>, <<"ask", "run">>}, TRUE, 1, 0, TRUE),
     Scenario({}, FALSE, TRUE, {"tooLong"}, {Text, <<"run", "run">>, Ask}, FALSE, 2, 0, FALSE),
     Scenario({}, FALSE, FALSE, {"tooLong"}, {Text, Run}, FALSE, 3, 0, FALSE),
     Scenario({}, FALSE, FALSE, {"tooLong"}, {Text}, FALSE, 3, 2, FALSE),
     \* plans, in the parent and in child sessions
     Scenario({Chain}, FALSE, FALSE, {"error"}, {Text, Ask}, FALSE, 2, 2, FALSE),
     Scenario({Fork}, TRUE, FALSE, {}, {Text}, FALSE, 2, 2, TRUE),
     Scenario({Chain, Cycle, Unknown, Nothing}, TRUE, FALSE, {}, {Text}, FALSE, 2, 2, FALSE),
     \* steps with the same id
     Scenario({Same}, TRUE, FALSE, {}, {Text}, FALSE, 2, 2, TRUE),
     Scenario({Same}, FALSE, FALSE, {"error"}, {Text}, FALSE, 1, 1, FALSE)}

=============================================================================
