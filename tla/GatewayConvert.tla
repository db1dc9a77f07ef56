--------------------------- MODULE GatewayConvert ---------------------------
(***************************************************************************)
(* The pure parts of the LLM gateway (llmgateway/): the conversion of an   *)
(* Anthropic request and response to and from Bifrost's form               *)
(* (anthropic/convert.go), the tool filter (tool_sanitize.go), the text to *)
(* tool call fallback (fallback.go), and the translation of one chunk of   *)
(* an upstream stream into Anthropic's events (anthropic/handler.go).      *)
(* Contents are ids; what a conversion tells apart is a type.              *)
(***************************************************************************)
EXTENDS SequencesExt, Integers

-----------------------------------------------------------------------------
(* Requests.  A content block is [type, id]; a converted message holds the  *)
(* ids of the blocks it was made of.                                        *)

KnownBlocks == {"text", "tool_use", "tool_result", "image"}
Converted(type, ids) == [type |-> type, ids |-> ids]
FlushText(acc) == IF acc.texts = <<>> THEN acc.result
                  ELSE Append(acc.result, Converted("text", acc.texts))

\* A conversion that forgets the text before a tool block.
ConvertBlockNoFlush(acc, b) ==
    IF b.type = "text" THEN [acc EXCEPT !.texts = Append(@, b.id)]
    ELSE IF b.type \notin KnownBlocks THEN acc
    ELSE [result |-> Append(acc.result, Converted(b.type, <<b.id>>)), texts |-> acc.texts]

ConvertBlock(acc, b) ==
    IF b.type = "text" THEN [acc EXCEPT !.texts = Append(@, b.id)]
    ELSE IF b.type \notin KnownBlocks THEN acc
    ELSE [result |-> Append(FlushText(acc), Converted(b.type, <<b.id>>)), texts |-> <<>>]

\* An image without a source is an error of the whole request.
ConvertFails(blocks) == \E i \in DOMAIN blocks : blocks[i].type = "badImage"
ConvertMessage(blocks) == FlushText(FoldLeft(ConvertBlock, [result |-> <<>>, texts |-> <<>>], blocks))

\* What a provider may be sent: OpenAI everything, the others functions and web search, and
\* Gemini only one of the two.  The choice of a tool goes when no tool is left.
SanitizeToolsForProvider(tools, choice, provider) ==
    LET compatible == SelectSeq(tools, LAMBDA t : t \in {"function", "web_search"})
        kept == IF provider = "openai" THEN tools
                ELSE IF provider = "gemini" /\ {"function", "web_search"} \subseteq ToSet(compatible)
                THEN SelectSeq(compatible, LAMBDA t : t = "function")
                ELSE compatible
    IN [tools |-> kept, choice |-> choice /\ (kept # <<>> \/ provider = "openai")]

-----------------------------------------------------------------------------
(* Responses that are not streamed.                                         *)

\* "callText" is a text that holds a tool call, "reasoning" an item with neither text nor call.
OutputBlock(item) == CASE item = "call" -> <<"tool_use">>
                       [] item \in {"text", "callText"} -> <<item>>
                       [] OTHER -> <<>>
MapStopReason(reason) == IF reason \in {"tool_use", "max_tokens"} THEN reason ELSE "end_turn"
ConvertFromBifrost(resp) ==
    [content |-> FlattenSeq([i \in DOMAIN resp.output |-> OutputBlock(resp.output[i])]),
     stop |-> MapStopReason(resp.stop)]

TryFallbackAnthropicResponse(resp) ==
    LET texts == SelectSeq(resp.content, LAMBDA b : b # "tool_use") IN
    IF "tool_use" \notin ToSet(resp.content) /\ texts # <<>> /\ Head(texts) = "callText"
    THEN [content |-> <<"tool_use">>, stop |-> "tool_use"] ELSE resp

-----------------------------------------------------------------------------
(* Streams.  The translator keeps the index of the current block, whether a *)
(* text block is open, the stop reason and the number of chunks read; out   *)
(* is what the client has been sent.                                        *)

Event(type, index, of, from) == [type |-> type, index |-> index, of |-> of, from |-> from]
NewTranslator == [index |-> 0, text |-> FALSE, stop |-> "end_turn", chunks |-> 0]

\* The events of one chunk, read from the stream of attempt number from.
ChunkEvents(t, chunk, from) ==
    CASE chunk = "textDelta" ->
            (IF t.text THEN <<>> ELSE <<Event("start", t.index, "text", from)>>)
            \o <<Event("delta", t.index, "text", from)>>
      [] chunk \in {"textDone", "argsDone"} -> <<Event("stop", t.index, "", from)>>
      [] chunk = "argsDelta" -> <<Event("delta", t.index, "tool_use", from)>>
      [] chunk = "addedCall" -> <<Event("start", t.index, "tool_use", from)>>
      [] OTHER -> <<>>

Translate(t, chunk) ==
    [index |-> IF chunk \in {"textDone", "argsDone"} THEN t.index + 1 ELSE t.index,
     text |-> (t.text \/ chunk = "textDelta") /\ chunk # "textDone",
     stop |-> IF chunk \in {"addedCall", "argsDone"} THEN "tool_use" ELSE t.stop,
     chunks |-> t.chunks + 1]

\* What an upstream may send next (external): items one after the other, a text item with at
\* least one delta; the stream is complete after "completed".
UpstreamNext(phase) ==
    CASE phase = "between" -> {"addedOther", "addedCall", "completed"}
      [] phase = "message" -> {"textDelta"}
      [] phase = "text" -> {"textDelta", "textDone"}
      [] phase = "call" -> {"argsDelta", "argsDone"}
      [] phase = "complete" -> {}
UpstreamAfter(phase, chunk) ==
    CASE chunk = "addedOther" -> "message" [] chunk = "addedCall" -> "call"
      [] chunk = "textDelta" -> "text" [] chunk = "completed" -> "complete"
      [] chunk \in {"textDone", "argsDone"} -> "between" [] OTHER -> phase
=============================================================================
