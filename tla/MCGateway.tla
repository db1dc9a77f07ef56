------------------------------ MODULE MCGateway ------------------------------
(* Instances of Gateway for TLC.                                            *)
EXTENDS Gateway

ModelOf(name, provider, mode, reasoning, fallback) ==
    [name |-> name, provider |-> provider, mode |-> mode, reasoning |-> reasoning,
     fallback |-> fallback]
M1 == ModelOf("m1", "gemini", "chat", "none", FALSE)
M2 == ModelOf("m2", "openai", "chat", "required", TRUE)
M3 == ModelOf("m3", "anthropic", "embedding", "none", FALSE)
M1b == ModelOf("m1", "anthropic", "chat", "none", FALSE)

Input(api, sid, model) ==
    [api |-> api, sid |-> sid, model |-> model, problems |-> {}, stream |-> FALSE,
     fallback |-> FALSE, effort |-> "given", blocks |-> <<>>, tools |-> <<>>, choice |-> TRUE]
Streamed(i) == [i EXCEPT !.stream = TRUE]

Alone(inputs) == {<<i>> : i \in inputs}
Base == [mixes |-> {}, profiles |-> <<{M1, M2, M3}>>, models |-> {M1, M2, M3, M1b},
         vault |-> {FALSE}, sdk |-> "up", upstream |-> {}, cancels |-> FALSE, ages |-> FALSE,
         tls |-> FALSE, resps |-> {[output |-> <<"text">>, stop |-> "nil"]}]
AllResps == {[output |-> o, stop |-> s] :
                o \in {<<"reasoning", "text">>, <<"callText", "call">>, <<"callText">>},
                s \in {"nil", "tool_use", "max_tokens"}}

\* Messages with every order of block types, and the tools an agent may send.
Blocks(types) == [i \in DOMAIN types |-> [type |-> types[i], id |-> i]]
Mixed == {Blocks(ts) : ts \in [1..3 -> {"text", "tool_use", "tool_result", "image", "thinking"}]}
ToolLists == {<<>>, <<"function">>, <<"namespace">>, <<"web_search", "function">>, <<"web_search", "namespace">>}

Convert == [Base EXCEPT
    !.mixes = Alone({[Input("messages", NoSid, "m1") EXCEPT !.blocks = b] : b \in Mixed}
               \cup {[Input(api, NoSid, m) EXCEPT !.tools = t, !.choice = ch, !.effort = e] :
                        api \in {"messages", "responses"}, m \in {"m1", "m2"}, t \in ToolLists,
                        ch \in BOOLEAN, e \in {"given", "missing", "unsupported"}}
               \cup {Input("embeddings", NoSid, m) : m \in {"m1", "m3"}}
               \cup {[Input("messages", NoSid, "m1") EXCEPT !.blocks = Blocks(<<"text", "badImage">>)]}
               \cup {[Input(api, NoSid, "m3") EXCEPT !.problems = ps] :
                        api \in {"messages", "responses", "embeddings"},
                        ps \in {{p} : p \in Problems} \cup {{"tooLarge", "noToken"}}}),
    !.vault = BOOLEAN]
NoBackend == [Convert EXCEPT !.sdk = "none"]

\* One streamed request against an upstream that fails in every way.
Streams == [Base EXCEPT
    !.mixes = Alone({Streamed(Input("messages", NoSid, "m1")), Streamed(Input("responses", NoSid, "m1")),
                Input("messages", NoSid, "m1"), Input("embeddings", NoSid, "m3")}),
    !.upstream = {"retry", "fatal", "cut"}, !.cancels = TRUE]
\* The answers to a request that is not streamed, with and without the fallback.
Answers == [Base EXCEPT !.resps = AllResps,
    !.mixes = Alone({[Input("messages", NoSid, m) EXCEPT !.fallback = f] : m \in {"m1", "m2"}, f \in BOOLEAN})]

\* Concurrent requests of two sessions and one without, models that are and are not configured.
SessionInputs == <<Input("messages", "s1", "m1"), Input("messages", "s1", "m9"),
                   Input("messages", "s2", "m1"),
                   Input("messages", NoSid, "m1"), Input("messages", NoSid, "m9")>>
Sessions3 == [Base EXCEPT !.ages = TRUE,
    !.mixes = {<<SessionInputs[m[1]], SessionInputs[m[2]], SessionInputs[m[3]]>> :
                   m \in {m \in (1..5) \X (1..5) \X (1..5) : m[1] <= m[2] /\ m[2] <= m[3]}}]

\* Profiles are reloaded while two requests run.
Reloads == [Base EXCEPT !.profiles = <<{M1, M2}, {M1b, M3}>>,
    !.mixes = {<<Input("messages", "s1", m1), Input("messages", "s1", m2)>> :
                   m1, m2 \in {"m1", "m2", "m9"}}]

Certificates == [Base EXCEPT !.mixes = {<<>>}, !.tls = TRUE]

\* A lookup loses its session: the place it makes up again lets the cache outgrow its limit.
Lost == [Base EXCEPT
    !.mixes = {<<Input("messages", "s1", "m1"), Input("messages", "s1", "m9"), Input("messages", "s2", "m1"),
                 Input("messages", "s2", "m1"), Input("messages", "s3", "m1")>>}]

GatewayScenarios == {Convert, NoBackend, Streams, Answers, Sessions3, Lost, Reloads, Certificates}
==============================================================================
