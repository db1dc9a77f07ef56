------------------------------ MODULE SSEChunk ------------------------------
(* How an event becomes lines of an SSE stream and how a client puts the    *)
(* lines together again (codingagent/sse_chunk.go, the client library's     *)
(* ssechunk/assembler.go).  A content is a sequence of bytes: "a" is        *)
(* written as it is, "q" is escaped and takes three units, "x1" and "x2"    *)
(* are the halves of one character.  Sizes are in units, not KiB.           *)
EXTENDS Integers, Sequences, FiniteSets, SequencesExt, FiniteSetsExt

CONSTANTS
    Limit,       \* DefaultMaxSSEDataLineBytes, also what the client's scanner takes
    Overhead,    \* size of an event without its content
    Prefix,      \* size of "data: " and the newline
    FirstChunk,  \* DefaultSSEChunkContentBytes
    MinChunk     \* the smallest chunk that is tried

ASSUME SSEAssumption ==
    /\ Limit \in Nat /\ Overhead \in Nat /\ Prefix \in Nat
    /\ MinChunk \in Nat \ {0} /\ FirstChunk \in Nat /\ FirstChunk >= MinChunk

\* json.Marshal replaces a half character.
Marshalled(s) ==
    [i \in DOMAIN s |->
        CASE s[i] = "x1" /\ (i = Len(s) \/ s[i + 1] # "x2") -> "?"
          [] s[i] = "x2" /\ (i = 1 \/ s[i - 1] # "x1") -> "?"
          [] OTHER -> s[i]]

WireSize(s) == Overhead + Len(s) + 2 * Cardinality({i \in DOMAIN s : s[i] \in {"q", "?"}})

Line(type, content, id) ==
    [type |-> type, content |-> content, id |-> id, size |-> WireSize(content),
     chunk |-> <<>>, index |-> 0, total |-> 0]

Chunked(line, chunk, index, total) ==
    [line EXCEPT !.chunk = chunk, !.index = index, !.total = total]

\* The parts of a tool result in chunks of n bytes, and its empty end.
buildChunkedToolResult(ev, n, id, chunk) ==
    LET total == Max({1, (Len(ev.content) + n - 1) \div n})
        Part(i) == Marshalled(SubSeq(ev.content, (i - 1) * n + 1, Min({i * n, Len(ev.content)})))
    IN  [i \in 1..total |-> Chunked(Line("tool_result_part", Part(i), id), chunk, i - 1, total)]
        \o <<Chunked(Line("tool_result", <<>>, id), chunk, 0, 0)>>

fits(lines) == \A i \in DOMAIN lines : lines[i].size < Limit

\* The chunk sizes that are tried: halved each time.
ChunkSizes == {n \in MinChunk..FirstChunk : \E k \in 0..4 : n = FirstChunk \div 2^k}

\* The lines of an event; <<>> when no chunk size fits.
SplitStreamEventForSSE(ev, id, chunk) ==
    LET whole == <<Line(ev.type, Marshalled(ev.content), id)>>
        sizes == {n \in ChunkSizes : fits(buildChunkedToolResult(ev, n, id, chunk))}
    IN  CASE ev.type # "tool_result" \/ fits(whole) -> whole
          [] ev.type = "tool_result" /\ ~fits(whole) /\ sizes # {} ->
                buildChunkedToolResult(ev, Max(sizes), id, chunk)
          [] OTHER -> <<>>

-----------------------------------------------------------------------------
(* The assembler: for each chunk id the total and the parts that came.      *)

AddPartFails(asm, l) ==
    l.chunk \in DOMAIN asm /\ (asm[l.chunk].total # l.total \/ l.index \in DOMAIN asm[l.chunk].parts)

AddPart(asm, l) ==
    LET buf == IF l.chunk \in DOMAIN asm THEN asm[l.chunk] ELSE [total |-> l.total, parts |-> <<>>]
        new == [buf EXCEPT !.parts = [i \in DOMAIN @ \cup {l.index} |->
                                        IF i = l.index THEN l.content ELSE @[i]]]
    IN  [c \in DOMAIN asm \cup {l.chunk} |-> IF c = l.chunk THEN new ELSE asm[c]]

CompleteFails(asm, chunk) ==
    chunk \notin DOMAIN asm \/ DOMAIN asm[chunk].parts # 0..(asm[chunk].total - 1)

\* Fault: the parts are joined from the last to the first.
CompleteBackwards(asm, chunk) ==
    LET buf == asm[chunk] IN FlattenSeq([i \in 1..buf.total |-> buf.parts[buf.total - i]])
Complete(asm, chunk) ==
    LET buf == asm[chunk] IN FlattenSeq([i \in 1..buf.total |-> buf.parts[i - 1]])

Dropped(asm, chunk) == [c \in DOMAIN asm \ {chunk} |-> asm[c]]

\* bufio.Scanner gives up on a line that does not fit into its buffer.
TooLong(l) == l.size + Prefix > Limit
=============================================================================
