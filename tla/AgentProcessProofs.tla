-------------------------- MODULE AgentProcessProofs --------------------------
(***************************************************************************)
(* Machine-checked proofs about AgentProcess, for any scenario: whatever   *)
(* lines the process writes and however many, whoever stops it, and in     *)
(* whatever order its readers, its watchdog and its stoppers run.          *)
(***************************************************************************)
EXTENDS AgentProcess, SequenceTheorems, FiniteSetTheorems, TLAPS

EvTypes == {"user_input", "tool_use", "tool_result", "text", "error", "result", "system"}
EvFroms == {"agent", "made", "stderr", "read", "exit", "exitRetryable", "dog"}
Event   == [type : EvTypes, from : EvFroms]

MadeAnswer  == Ev("tool_result", "made")
MadeResult  == Ev("result", "made")
AgentResult == Ev("result", "agent")
ReadError   == Ev("error", "read")

-----------------------------------------------------------------------------
(* What a goroutine may still have to do, by where it is.                   *)

LineEvents == [type : EvTypes, from : {"agent"}] \cup {Ev("tool_use", "made"), MadeAnswer}

TrackOps == {Op(d, NoEv) : d \in {"use", "flush", "reject", "hold", "mark", "clear", "answer", "stop"}}
EmitOps  == {Op("emit", MadeAnswer), Op("mark", NoEv)}
LineOpSet == TrackOps \cup EmitOps \cup {Op("send", e) : e \in LineEvents}
ErrOpSet  == TrackOps \cup EmitOps \cup {Op("send", Ev("user_input", "stderr"))}
Outcomes  == {Ev("error", "exit"), Ev("error", "exitRetryable"), MadeResult}

OutPcs == {"scan", "drain", "stdin", "synth", "wait", "report", "return", "close", "end"}

OutOpSet(pc) ==
    CASE pc = "scan"   -> LineOpSet
      [] pc = "drain"  -> {Op("try", ReadError)}
      [] pc = "synth"  -> EmitOps
      [] pc = "report" -> {Op("try", e) : e \in Outcomes}
      [] OTHER         -> {}

OpsTyped ==
    /\ gor["out"].ops \in Seq(OutOpSet(gor["out"].pc))
    /\ gor["err"].ops \in Seq(IF gor["err"].pc = "scan" THEN ErrOpSet ELSE {})

IsGor == gor = [g \in Readers |-> [pc |-> gor[g].pc, ops |-> gor[g].ops]]

(* The types of the state, with those TypeOK does not speak of. *)
Types ==
    /\ TypeOK
    /\ cfg \in Scenarios
    /\ proc \in [state : {"running", "ok", "failed"}, signals : SUBSET Stoppers, out : Nat, err : Nat]
    /\ pipe = [g \in Readers |-> pipe[g]]
    /\ IsGor
    /\ track \in [use : {"none", "open", "answered"}, rejected : BOOLEAN, held : BOOLEAN]
    /\ seen = [result |-> seen.result, error |-> seen.error, stderr |-> seen.stderr]
    /\ seen.result \in BOOLEAN
    /\ ch \in Seq(Event)
    /\ OpsTyped

-----------------------------------------------------------------------------
(* Operators.                                                               *)

LEMMA SeqOfNone == ASSUME NEW s \in Seq({}) PROVE s = <<>>
OBVIOUS

LEMMA AgentEvents == \A t \in EvTypes : Ev(t, "agent") \in LineEvents
BY DEF LineEvents, Ev

(* What one line may make a goroutine do: a result only for its own line,   *)
(* and no mark without an emission before it.                               *)
EventsOf(l) == {e \in LineEvents : e = AgentResult => l = "turnDone"}
OpsOf(l) == {o \in LineOpSet : o.do # "mark" /\ (o.ev = AgentResult => l = "turnDone")}

LEMMA ParseTyped ==
    ASSUME NEW l
    PROVE  ParseExecEvent(l) \in Seq(EventsOf(l)) /\ ParseJSONLinesEvents(l) \in Seq(EventsOf(l))
<1> DEFINE E == EventsOf(l)
           T == IF l = "turnDone" THEN EvTypes ELSE EvTypes \ {"result"}
<1>1. \A t \in T : Ev(t, "agent") \in E
  BY AgentEvents DEF EventsOf, AgentResult, Ev
<1>2. {"tool_use", "tool_result", "text", "error", "system"} \subseteq T /\ (l = "turnDone" => "result" \in T)
  BY DEF EvTypes
<1> HIDE DEF E, T
<1>3. \A t \in T : <<Ev(t, "agent")>> \in Seq(E)
  BY <1>1
<1>4. <<>> \in Seq(E)
  OBVIOUS
<1>5. ParseItemEvent(l) \in Seq(E)
  BY <1>2, <1>3, <1>4 DEF ParseItemEvent
<1>6. ParsePayloadEvent(l) \in Seq(E)
  BY <1>2, <1>3, <1>4 DEF ParsePayloadEvent
<1>7. ParseItemEvent(l) \o ParsePayloadEvent(l) \in Seq(E)
  BY <1>5, <1>6, ConcatProperties
<1>8. ParseExecEvent(l) \in Seq(E)
  BY <1>2, <1>3, <1>7 DEF ParseExecEvent
<1>9. <<Ev("tool_use", "agent"), Ev("tool_use", "agent")>> \in Seq(E)
  BY <1>1, <1>2
<1>10. ParseJSONLinesEvents(l) \in Seq(E)
  BY <1>2, <1>3, <1>4, <1>9 DEF ParseJSONLinesEvents
<1> QED
  BY <1>8, <1>10 DEF E

LEMMA SendsTyped ==
    ASSUME NEW l, NEW evs \in Seq(EventsOf(l)) PROVE Sends(evs) \in Seq(OpsOf(l))
<1>1. \A e \in EventsOf(l) : Op("send", e) \in OpsOf(l)
  BY DEF LineOpSet, EventsOf, OpsOf, Op
<1> QED
  BY <1>1 DEF Sends

LEMMA EmitTyped ==
    Emit \in Seq(EmitOps) /\ Emit \in Seq(LineOpSet) /\ Emit \in Seq(ErrOpSet)
<1>1. /\ Op("emit", MadeAnswer) \in EmitOps \cap LineOpSet \cap ErrOpSet
      /\ Op("mark", NoEv) \in EmitOps \cap LineOpSet \cap ErrOpSet
  BY DEF EmitOps, LineOpSet, ErrOpSet
<1>2. Emit = <<Op("emit", MadeAnswer), Op("mark", NoEv)>>
  BY DEF Emit, MadeAnswer
<1> QED
  BY <1>1, <1>2

LEMMA UnmarkedTyped ==
    ASSUME NEW S, NEW rest \in Seq(S) PROVE Unmarked(rest) \in Seq(S)
<1> DEFINE after == {i \in 1..Len(rest) : rest[i].do \in {"mark", "clear", "stop"}}
<1>1. IsFiniteSet(1..Len(rest))
  BY FS_Interval
<1>2. IsFiniteSet(after)
  BY <1>1, FS_Subset
<1>3. Cardinality(after) \in Nat
  BY <1>2, FS_CardinalityType
<1> HIDE DEF after
<1>4. SubSeq(rest, Cardinality(after) + 1, Len(rest)) \in Seq(S)
  BY <1>3
<1> QED
  BY <1>4 DEF Unmarked, after

LEMMA UnstoppedTyped ==
    ASSUME NEW S, NEW rest \in Seq(S) PROVE Unstopped(rest) \in Seq(S)
BY DEF Unstopped

(* The line that says that the turn is done makes one send. *)
LEMMA DoneOps == LineOps("turnDone") = <<Op("send", AgentResult)>>
<1>1. Sends(<<Ev("result", "agent")>>) = <<Op("send", Ev("result", "agent"))>>
  BY DEF Sends
<1>2. ParseExecEvent("turnDone") = <<Ev("result", "agent")>>
  BY DEF ParseExecEvent
<1>3. DetectUserInput("turnDone") = <<>>
  BY DEF DetectUserInput
<1>4. CodexOps("turnDone") = <<>> \o Sends(<<Ev("result", "agent")>>)
  BY <1>2, <1>3 DEF CodexOps
<1>5. ClaudeOps("turnDone") = Sends(<<Ev("result", "agent")>>)
  BY DEF ClaudeOps, ParseJSONLinesEvents
<1>6. <<>> \o <<Op("send", AgentResult)>> = <<Op("send", AgentResult)>>
  OBVIOUS
<1> QED
  BY <1>1, <1>4, <1>5, <1>6 DEF LineOps, AgentResult

LEMMA CodexTyped == ASSUME NEW l PROVE CodexOps(l) \in Seq(OpsOf(l))
<1> DEFINE S == OpsOf(l)
           evs == ParseExecEvent(l)
           use == Op("use", NoEv)
           made == Op("send", Ev("tool_use", "made"))
           ans == Op("answer", NoEv)
           rej == Op("reject", NoEv)
<1>1. use \in S /\ made \in S /\ ans \in S /\ rej \in S /\ Op("flush", NoEv) \in S
  BY DEF OpsOf, LineOpSet, TrackOps, LineEvents, AgentResult, MadeAnswer, Ev, NoEv, Op
<1>2. Sends(evs) \in Seq(S)
  BY ParseTyped, SendsTyped
<1>3. DetectUserInput(l) \in Seq(S)
  <2>1. Op("send", Ev("user_input", "agent")) \in S
    BY AgentEvents DEF OpsOf, LineOpSet, EvTypes, AgentResult, Ev, Op
  <2> HIDE DEF S
  <2> QED
    BY <2>1 DEF DetectUserInput
<1> HIDE DEF S, use, made, ans, rej
<1>4. /\ Flush \in Seq(S) /\ <<use>> \in Seq(S) /\ <<use, made>> \in Seq(S)
      /\ <<ans>> \in Seq(S) /\ <<rej>> \in Seq(S) /\ <<>> \in Seq(S)
  BY <1>1 DEF Flush
<1> DEFINE sends == Sends(evs)
<1>5. sends \in Seq(S)
  BY <1>2
<1> HIDE DEF sends
<1>6. /\ (<<use>> \o Flush) \o sends \in Seq(S)
      /\ (<<use, made>> \o Flush) \in Seq(S)
      /\ <<ans>> \o sends \in Seq(S)
      /\ <<rej>> \o sends \in Seq(S)
  BY <1>4, <1>5, ConcatProperties
<1>7. ((IF track.use = "open" THEN <<>> ELSE <<use, made>> \o Flush) \o <<ans>>) \o sends \in Seq(S)
  <2>1. (IF track.use = "open" THEN <<>> ELSE <<use, made>> \o Flush) \in Seq(S)
    BY <1>4, <1>6
  <2> QED
    BY <2>1, <1>4, <1>5, ConcatProperties
<1> DEFINE more == CASE l = "started"   -> (<<use>> \o Flush) \o sends
                     [] l = "completed" -> ((IF track.use = "open" THEN <<>> ELSE <<use, made>> \o Flush) \o <<ans>>) \o sends
                     [] l = "output"     -> <<ans>> \o sends
                     [] l = "saysReject" -> <<rej>> \o sends
                     [] OTHER            -> sends
<1>8. more \in Seq(S)
  BY <1>5, <1>6, <1>7
<1>9. CodexOps(l) = DetectUserInput(l) \o more
  BY DEF CodexOps, use, made, ans, rej, sends
<1> HIDE DEF more
<1>10. DetectUserInput(l) \o more \in Seq(S)
  BY <1>3, <1>8, ConcatProperties
<1> QED
  BY <1>9, <1>10 DEF S

LEMMA LineTyped ==
    ASSUME NEW l PROVE LineOps(l) \in Seq(OpsOf(l)) /\ LineOps(l) \in Seq(LineOpSet)
<1>1. LineOps(l) \in Seq(OpsOf(l))
  BY CodexTyped, ParseTyped, SendsTyped DEF LineOps, ClaudeOps
<1>2. OpsOf(l) \subseteq LineOpSet
  BY DEF OpsOf
<1> QED
  BY <1>1, <1>2

-----------------------------------------------------------------------------
(* The shape of a step.                                                     *)

LEMMA SetEffect ==
    ASSUME IsGor, NEW g \in Readers, NEW ops, SetOps(g, ops)
    PROVE  /\ IsGor'
           /\ gor'[g].pc = gor[g].pc /\ gor'[g].ops = ops
           /\ \A h \in Readers \ {g} : gor'[h] = gor[h]
<1>1. gor = [h \in Readers |-> [pc |-> gor[h].pc, ops |-> gor[h].ops]]
  BY DEF IsGor
<1>2. gor' = [gor EXCEPT ![g].ops = ops]
  BY DEF SetOps
<1> QED
  BY <1>1, <1>2 DEF IsGor

LEMMA ReturnEffect ==
    ASSUME IsGor, NEW g \in Readers, Return(g)
    PROVE  /\ IsGor'
           /\ gor'[g].pc = (IF g = "out" THEN "return" ELSE "end") /\ gor'[g].ops = <<>>
           /\ \A h \in Readers \ {g} : gor'[h] = gor[h]
<1>1. gor = [h \in Readers |-> [pc |-> gor[h].pc, ops |-> gor[h].ops]]
  BY DEF IsGor
<1>2. gor' = [gor EXCEPT ![g] = [pc |-> IF g = "out" THEN "return" ELSE "end", ops |-> <<>>]]
  BY DEF Return
<1> QED
  BY <1>1, <1>2 DEF IsGor

LEMMA GoesEffect ==
    ASSUME IsGor, NEW pc, NEW ops, OutGoes(pc, ops)
    PROVE  /\ IsGor'
           /\ gor'["out"].pc = pc /\ gor'["out"].ops = ops
           /\ gor'["err"] = gor["err"]
<1>1. gor = [h \in Readers |-> [pc |-> gor[h].pc, ops |-> gor[h].ops]]
  BY DEF IsGor
<1>2. gor' = [gor EXCEPT !["out"] = [pc |-> pc, ops |-> ops]]
  BY DEF OutGoes
<1> QED
  BY <1>1, <1>2 DEF IsGor, Readers

LEMMA SendEffect ==
    ASSUME NEW g, NEW op, NEW rest, DoSend(g, op, rest)
    PROVE  /\ op.do \in {"send", "try", "emit"}
           /\ UNCHANGED <<track, stops>>
           /\ \/ ~chClosed /\ ch' = Append(ch, op.ev) /\ panicked' = panicked /\ SetOps(g, rest)
              \/ chClosed /\ ch' = ch /\ panicked' = TRUE /\ Return(g)
              \/ /\ ctx # "live" /\ ch' = ch /\ panicked' = panicked
                 /\ \/ op.do = "send" /\ Return(g)
                    \/ op.do = "try" /\ SetOps(g, rest)
                    \/ op.do = "emit" /\ SetOps(g, Unmarked(rest))
BY DEF DoSend, Sent, Panics, Skipped

LEMMA TrackEffect ==
    ASSUME NEW g, NEW op, NEW rest, DoTrack(g, op, rest)
    PROVE  /\ op.do \in {"use", "flush", "reject", "hold", "mark", "clear", "answer"}
           /\ stops' = stops /\ ch' = ch /\ panicked' = panicked
           /\ track \in [use : {"none", "open", "answered"}, rejected : BOOLEAN, held : BOOLEAN] =>
                /\ track' \in [use : {"none", "open", "answered"}, rejected : BOOLEAN, held : BOOLEAN]
                /\ track'.rejected = (track.rejected \/ op.do = "mark")
           /\ \/ SetOps(g, rest)
              \/ op.do = "flush" /\ SetOps(g, (Emit \o <<Op("clear", NoEv), Op("stop", NoEv)>>) \o rest)
              \/ op.do = "reject" /\ SetOps(g, Emit \o rest)
              \/ op.do = "reject" /\ SetOps(g, <<Op("hold", NoEv)>> \o Unstopped(rest))
              \/ op.do = "reject" /\ SetOps(g, Unstopped(rest))
              \/ op.do = "answer" /\ track.rejected /\ SetOps(g, <<>>)
BY DEF DoTrack

LEMMA StopEffect ==
    ASSUME NEW g, NEW op, NEW rest, DoStop(g, op, rest),
           stops \in [Stoppers -> {"idle", "called", "signal", "grace", "done"}]
    PROVE  /\ op.do = "stop" /\ SetOps(g, rest)
           /\ track' = track /\ ch' = ch /\ panicked' = panicked
           /\ stops' = stops \/ /\ cfg.interactive /\ "sandbox" \in cfg.stoppers
                                /\ stops["sandbox"] = "idle"
                                /\ stops' = [stops EXCEPT !["sandbox"] = "called"]
BY DEF DoStop

-----------------------------------------------------------------------------
(* Types.                                                                   *)

(* Only these operations put others before what is left to do. *)
LEMMA StepOps ==
    ASSUME NEW g \in Readers, NEW S, gor[g].ops \in Seq(S), gor[g].ops # <<>>,
           DoSend(g, Head(gor[g].ops), Tail(gor[g].ops))
             \/ DoTrack(g, Head(gor[g].ops), Tail(gor[g].ops))
             \/ DoStop(g, Head(gor[g].ops), Tail(gor[g].ops)),
           Head(gor[g].ops).do \in {"flush", "reject"} => TrackOps \subseteq S /\ Emit \in Seq(S)
    PROVE  Return(g) \/ \E ops \in Seq(S) : SetOps(g, ops)
<1> DEFINE op == Head(gor[g].ops)
           rest == Tail(gor[g].ops)
<1>1. op \in S /\ rest \in Seq(S)
  BY HeadTailProperties
<1>2. CASE DoSend(g, op, rest)
  <2>1. Unmarked(rest) \in Seq(S)
    BY <1>1, UnmarkedTyped
  <2> QED
    BY <1>1, <1>2, <2>1 DEF DoSend
<1>3. CASE DoStop(g, op, rest)
  BY <1>1, <1>3 DEF DoStop
<1>4. CASE DoTrack(g, op, rest)
  <2>1. CASE op.do = "flush"
    <3>1. <<Op("clear", NoEv), Op("stop", NoEv)>> \in Seq(S)
      <4>1. Op("clear", NoEv) \in S /\ Op("stop", NoEv) \in S
        BY <2>1 DEF TrackOps
      <4> QED
        BY <4>1
    <3>2. (Emit \o <<Op("clear", NoEv), Op("stop", NoEv)>>) \o rest \in Seq(S)
      BY <1>1, <2>1, <3>1, ConcatProperties
    <3>3. SetOps(g, (Emit \o <<Op("clear", NoEv), Op("stop", NoEv)>>) \o rest) \/ SetOps(g, rest)
      BY <1>4, <2>1 DEF DoTrack
    <3> QED
      BY <1>1, <3>2, <3>3
  <2>2. CASE op.do = "reject"
    <3>1. <<Op("hold", NoEv)>> \in Seq(S)
      <4>1. Op("hold", NoEv) \in S
        BY <2>2 DEF TrackOps
      <4> QED
        BY <4>1
    <3>2. Unstopped(rest) \in Seq(S)
      BY <1>1, UnstoppedTyped
    <3>3. Emit \o rest \in Seq(S) /\ <<Op("hold", NoEv)>> \o Unstopped(rest) \in Seq(S)
      BY <1>1, <2>2, <3>1, <3>2, ConcatProperties
    <3>4. SetOps(g, Emit \o rest) \/ SetOps(g, <<Op("hold", NoEv)>> \o Unstopped(rest))
          \/ SetOps(g, Unstopped(rest))
      BY <1>4, <2>2 DEF DoTrack
    <3> QED
      BY <3>2, <3>3, <3>4
  <2>3. CASE op.do \notin {"flush", "reject"}
    <3>1. SetOps(g, rest) \/ SetOps(g, <<>>)
      BY <1>4, <2>3 DEF DoTrack
    <3>2. <<>> \in Seq(S)
      OBVIOUS
    <3> QED
      BY <1>1, <3>1, <3>2
  <2> QED
    BY <2>1, <2>2, <2>3
<1> QED
  BY <1>2, <1>3, <1>4

LEMMA OpEvents ==
    ASSUME NEW pc \in OutPcs, NEW op \in OutOpSet(pc) \cup ErrOpSet, op.do \in {"send", "try", "emit"}
    PROVE  op.ev \in Event
BY DEF OutPcs, OutOpSet, LineOpSet, TrackOps, EmitOps, ErrOpSet, LineEvents, Outcomes, Op, Ev, Event,
   EvTypes, EvFroms, MadeAnswer, ReadError, MadeResult

LEMMA TypesOfEvents ==
    ASSUME NEW s \in Seq(Event), NEW i \in 1..Len(s)
    PROVE  s[i].type \in {"user_input", "tool_use", "tool_result", "text", "error", "result", "system"}
<1>1. s[i] \in Event
  OBVIOUS
<1> QED
  BY <1>1 DEF Event, EvTypes

LEMMA StepTypes ==
    ASSUME Types, NEW g \in Readers, Step(g) PROVE Types'
<1> DEFINE op == Head(gor[g].ops)
           rest == Tail(gor[g].ops)
           pco == gor["out"].pc
<1>1. pco \in OutPcs /\ gor["err"].pc \in {"scan", "end"}
  BY DEF Types, TypeOK, OutPcs
<1>2. gor[g].ops # <<>> /\ (DoSend(g, op, rest) \/ DoTrack(g, op, rest) \/ DoStop(g, op, rest))
  BY DEF Step
<1>3. op \in OutOpSet(pco) \cup ErrOpSet
  <2>1. CASE g = "out"
    BY <1>2, <2>1, HeadTailProperties DEF Types, OpsTyped
  <2>2. CASE g = "err"
    <3>1. gor["err"].pc = "scan"
      BY <1>1, <1>2, <2>2, SeqOfNone DEF Types, OpsTyped
    <3> QED
      BY <1>2, <2>2, <3>1, HeadTailProperties DEF Types, OpsTyped
  <2> QED
    BY <2>1, <2>2 DEF Readers
<1>4. op.do \in {"send", "try", "emit"} => op.ev \in Event
  BY <1>1, <1>3, OpEvents
<1>5. ch' \in Seq(Event)
  <2>0. ch \in Seq(Event) /\ stops \in [Stoppers -> {"idle", "called", "signal", "grace", "done"}]
    BY DEF Types, TypeOK
  <2>1. CASE DoSend(g, op, rest)
    <3>1. op.ev \in Event /\ (ch' = ch \/ ch' = Append(ch, op.ev))
      BY <1>4, <2>1, SendEffect
    <3> QED
      BY <2>0, <3>1
  <2>2. CASE DoTrack(g, op, rest)
    BY <2>0, <2>2, TrackEffect
  <2>3. CASE DoStop(g, op, rest)
    BY <2>0, <2>3, StopEffect
  <2> QED
    BY <1>2, <2>1, <2>2, <2>3
<1>6. track' \in [use : {"none", "open", "answered"}, rejected : BOOLEAN, held : BOOLEAN]
      /\ stops' \in [Stoppers -> {"idle", "called", "signal", "grace", "done"}]
  <2>0. track \in [use : {"none", "open", "answered"}, rejected : BOOLEAN, held : BOOLEAN]
        /\ stops \in [Stoppers -> {"idle", "called", "signal", "grace", "done"}]
    BY DEF Types, TypeOK
  <2>1. CASE DoSend(g, op, rest)
    BY <2>0, <2>1, SendEffect
  <2>2. CASE DoTrack(g, op, rest)
    BY <2>0, <2>2, TrackEffect
  <2>3. CASE DoStop(g, op, rest)
    BY <2>0, <2>3, StopEffect DEF Stoppers
  <2> QED
    BY <1>2, <2>1, <2>2, <2>3
<1>7. OpsTyped' /\ IsGor'
      /\ gor'["out"].pc \in OutPcs /\ gor'["err"].pc \in {"scan", "end"}
  <2>1. CASE g = "out"
    <3> DEFINE S == OutOpSet(pco)
    <3>1. gor["out"].ops \in Seq(S)
      BY DEF Types, OpsTyped
    <3>2. op \in S
      BY <1>2, <2>1, <3>1, HeadTailProperties
    <3>3. op.do \in {"flush", "reject"} => TrackOps \subseteq S /\ Emit \in Seq(S)
      <4>1. SUFFICES ASSUME op.do \in {"flush", "reject"} PROVE pco = "scan"
        BY EmitTyped DEF OutOpSet, LineOpSet
      <4> QED
        BY <1>1, <3>2, <4>1 DEF OutPcs, OutOpSet, EmitOps, Op
    <3> HIDE DEF S
    <3>4. Return("out") \/ \E ops \in Seq(S) : SetOps("out", ops)
      BY <1>2, <2>1, <3>1, <3>3, StepOps
    <3>0. IsGor /\ "out" \in Readers /\ "err" \in Readers \ {"out"}
      BY DEF Types, Readers
    <3>5. CASE Return("out")
      <4>1. IsGor' /\ gor'["out"].pc = "return" /\ gor'["out"].ops = <<>> /\ gor'["err"] = gor["err"]
        BY <3>0, <3>5, ReturnEffect
      <4> QED
        BY <1>1, <4>1 DEF Types, OpsTyped, OutOpSet, OutPcs
    <3>6. CASE \E ops \in Seq(S) : SetOps("out", ops)
      <4>1. IsGor' /\ gor'["out"].pc = pco /\ gor'["out"].ops \in Seq(S) /\ gor'["err"] = gor["err"]
        BY <3>0, <3>6, SetEffect
      <4> QED
        BY <1>1, <4>1 DEF Types, OpsTyped, S
    <3> QED
      BY <3>4, <3>5, <3>6
  <2>2. CASE g = "err"
    <3>1. gor["err"].pc = "scan"
      BY <1>1, <1>2, <2>2, SeqOfNone DEF Types, OpsTyped
    <3>2. gor["err"].ops \in Seq(ErrOpSet)
      BY <3>1 DEF Types, OpsTyped
    <3>3. TrackOps \subseteq ErrOpSet /\ Emit \in Seq(ErrOpSet)
      BY EmitTyped DEF ErrOpSet
    <3>4. Return("err") \/ \E ops \in Seq(ErrOpSet) : SetOps("err", ops)
      BY <1>2, <2>2, <3>2, <3>3, StepOps
    <3>0. IsGor /\ "err" \in Readers /\ "out" \in Readers \ {"err"}
      BY DEF Types, Readers
    <3>5. CASE Return("err")
      <4>1. IsGor' /\ gor'["err"].pc = "end" /\ gor'["err"].ops = <<>> /\ gor'["out"] = gor["out"]
        BY <3>0, <3>5, ReturnEffect
      <4> QED
        BY <1>1, <4>1 DEF Types, OpsTyped
    <3>6. CASE \E ops \in Seq(ErrOpSet) : SetOps("err", ops)
      <4>1. IsGor' /\ gor'["err"].pc = "scan" /\ gor'["err"].ops \in Seq(ErrOpSet) /\ gor'["out"] = gor["out"]
        BY <3>0, <3>1, <3>6, SetEffect
      <4> QED
        BY <1>1, <4>1 DEF Types, OpsTyped
    <3> QED
      BY <3>4, <3>5, <3>6
  <2> QED
    BY <2>1, <2>2 DEF Readers
<1>8. UNCHANGED <<procVars, waitVars, ctx, seen, dog, home, inVars, chClosed>>
  BY DEF Step
<1>9. \A i \in 1..Len(ch') : ch'[i].type \in {"user_input", "tool_use", "tool_result", "text", "error", "result", "system"}
  BY <1>5, TypesOfEvents
<1>10. /\ proc' = proc /\ cfg' = cfg /\ pipe' = pipe /\ waits' = waits /\ ctx' = ctx
       /\ seen' = seen /\ dog' = dog /\ answer' = answer
  BY <1>8 DEF procVars, waitVars, inVars
<1>11. TypeOK'
  BY <1>6, <1>7, <1>9, <1>10 DEF Types, TypeOK, OutPcs
<1> QED
  BY <1>5, <1>6, <1>7, <1>10, <1>11 DEF Types

(* Types is kept by a step that leaves the goroutines, the events and the   *)
(* tracker alone, if it keeps the types of the rest.                        *)
LEMMA TypesKept ==
    ASSUME Types, gor' = gor, ch' = ch, track' = track, seen' = seen, cfg' = cfg,
           proc' \in [state : {"running", "ok", "failed"}, signals : SUBSET Stoppers, out : Nat, err : Nat],
           pipe' = [g \in Readers |-> pipe'[g]],
           waits' \in [Waiters -> {"idle", "entered", "status", "lost", "ok", "err"}],
           ctx' \in {"live", "ended", "cancelled"},
           dog' \in {"watch", "emit", "stop", "end"},
           stops' \in [Stoppers -> {"idle", "called", "signal", "grace", "done"}],
           answer' \in {"idle", "text", "newline", "done", "refused"}
    PROVE  Types'
<1>1. TypeOK'
  BY DEF Types, TypeOK
<1>2. OpsTyped' /\ IsGor'
  BY DEF Types, OpsTyped, IsGor
<1> QED
  BY <1>1, <1>2 DEF Types

(* What OutGoes needs to keep the types. *)
LEMMA TypesGoes ==
    ASSUME Types, NEW pc \in OutPcs, NEW ops \in Seq(OutOpSet(pc)), OutGoes(pc, ops),
           ch' = ch, track' = track, seen' = seen, UNCHANGED <<procVars, stopVars>>, answer' = answer,
           waits' \in [Waiters -> {"idle", "entered", "status", "lost", "ok", "err"}],
           ctx' \in {"live", "ended", "cancelled"}
    PROVE  Types'
<1>1. IsGor
  BY DEF Types
<1>2. IsGor' /\ gor'["out"].pc = pc /\ gor'["out"].ops = ops /\ gor'["err"] = gor["err"]
  BY <1>1, GoesEffect
<1>3. OpsTyped'
  BY <1>2 DEF Types, OpsTyped
<1>4. TypeOK'
  BY <1>2 DEF Types, TypeOK, OutPcs, procVars, stopVars
<1> QED
  BY <1>2, <1>3, <1>4 DEF Types, procVars, stopVars

LEMMA TypesInit == Init => Types
<1> SUFFICES ASSUME Init PROVE Types
  OBVIOUS
<1>1. TypeOK
  BY DEF Init, TypeOK, Readers, Waiters, Stoppers
<1>2. IsGor /\ OpsTyped
  <2>1. gor["out"].ops = <<>> /\ gor["err"].ops = <<>> /\ IsGor
    BY DEF Init, IsGor, Readers
  <2>2. \A S : <<>> \in Seq(S)
    OBVIOUS
  <2> QED
    BY <2>1, <2>2 DEF OpsTyped
<1>3. proc \in [state : {"running", "ok", "failed"}, signals : SUBSET Stoppers, out : Nat, err : Nat]
      /\ pipe = [g \in Readers |-> pipe[g]]
  BY DEF Init
<1> QED
  BY <1>1, <1>2, <1>3 DEF Types, Init

LEMMA TypesProcess ==
    ASSUME Types, \/ \E l \in cfg.outLines : WriteLine("out", l)
                  \/ \E l \in cfg.errLines : WriteLine("err", l)
                  \/ ProcExit \/ Killed \/ CancelTurn
    PROVE  Types'
<1>0. pipe = [g \in Readers |-> pipe[g]]
      /\ proc \in [state : {"running", "ok", "failed"}, signals : SUBSET Stoppers, out : Nat, err : Nat]
  BY DEF Types
<1>1. ASSUME NEW g \in Readers, NEW l, WriteLine(g, l) PROVE Types'
  <2>1. pipe' = [h \in Readers |-> pipe'[h]]
    BY <1>0, <1>1 DEF WriteLine
  <2>2. proc' \in [state : {"running", "ok", "failed"}, signals : SUBSET Stoppers, out : Nat, err : Nat]
    BY <1>0, <1>1 DEF WriteLine, Readers
  <2> QED
    BY <1>1, <2>1, <2>2, TypesKept DEF WriteLine, waitVars, goVars, stopVars, inVars, chVars, Types, TypeOK
<1>2. CASE ProcExit
  <2>1. proc' \in [state : {"running", "ok", "failed"}, signals : SUBSET Stoppers, out : Nat, err : Nat]
    BY <1>0, <1>2 DEF ProcExit
  <2> QED
    BY <1>2, <2>1, TypesKept DEF ProcExit, waitVars, goVars, stopVars, inVars, chVars, Types, TypeOK
<1>3. CASE Killed
  <2>1. proc' \in [state : {"running", "ok", "failed"}, signals : SUBSET Stoppers, out : Nat, err : Nat]
    BY <1>0, <1>3 DEF Killed
  <2> QED
    BY <1>3, <2>1, TypesKept DEF Killed, waitVars, goVars, stopVars, inVars, chVars, Types, TypeOK
<1>4. CASE CancelTurn
  BY <1>4, TypesKept DEF CancelTurn, procVars, waitVars, goVars, stopVars, inVars, chVars, Types, TypeOK
<1> QED
  BY <1>1, <1>2, <1>3, <1>4 DEF Readers

LEMMA EndEffect ==
    ASSUME IsGor, NEW g \in Readers, NEW pc, gor' = [gor EXCEPT ![g].pc = pc]
    PROVE  /\ IsGor'
           /\ gor'[g].pc = pc /\ gor'[g].ops = gor[g].ops
           /\ \A h \in Readers \ {g} : gor'[h] = gor[h]
<1>1. gor = [h \in Readers |-> [pc |-> gor[h].pc, ops |-> gor[h].ops]]
  BY DEF IsGor
<1> QED
  BY <1>1 DEF IsGor

LEMMA TypeOKKept ==
    ASSUME TypeOK, gor'["out"].pc \in OutPcs, gor'["err"].pc \in {"scan", "end"},
           proc' = proc, ctx' = ctx, track' = track, ch' = ch,
           UNCHANGED <<waitVars, stopVars, inVars>>
    PROVE  TypeOK'
BY DEF TypeOK, OutPcs, waitVars, stopVars, inVars

LEMMA TypesScan ==
    ASSUME Types, ScanOut \/ ScanEnds \/ ScanErr \/ ErrEnds
    PROVE  Types'
<1>0. IsGor /\ pipe = [g \in Readers |-> pipe[g]] /\ "out" \in Readers /\ "err" \in Readers
      /\ gor["out"].pc \in OutPcs
  BY DEF Types, Readers, TypeOK, OutPcs
<1>1. CASE ScanOut
  <2> DEFINE l == Head(pipe["out"])
             ops == LineOps(l)
  <2>1. ops \in Seq(LineOpSet)
    BY LineTyped
  <2> HIDE DEF ops, l
  <2>2. gor["out"] = [pc |-> "scan", ops |-> <<>>] /\ gor' = [gor EXCEPT !["out"].ops = ops]
        /\ pipe' = [pipe EXCEPT !["out"] = Tail(pipe["out"])]
        /\ seen' = [seen EXCEPT !.result = @ \/ l = "turnDone",
                                !.error = IF Codex /\ l \in {"fails", "failsFatal"} THEN l ELSE @]
        /\ UNCHANGED <<cfg, proc, waitVars, ctx, track, stopVars, inVars, chVars>>
    BY <1>1 DEF ScanOut, ops, l
  <2>3. IsGor' /\ gor'["out"].pc = "scan" /\ gor'["out"].ops = ops /\ gor'["err"] = gor["err"]
    <3>1. SetOps("out", ops) /\ gor["out"].pc = "scan" /\ "err" \in Readers \ {"out"}
      BY <2>2 DEF SetOps, Readers
    <3> QED
      BY <1>0, <3>1, SetEffect
  <2>4. OpsTyped'
    BY <2>1, <2>3 DEF Types, OpsTyped, OutOpSet
  <2>5. pipe' = [g \in Readers |-> pipe'[g]]
    BY <1>0, <2>2
  <2>6. seen' = [result |-> seen'.result, error |-> seen'.error, stderr |-> seen'.stderr]
        /\ seen'.result \in BOOLEAN
    BY <2>2 DEF Types
  <2>7. TypeOK'
    <3>1. TypeOK /\ gor'["out"].pc \in OutPcs /\ gor'["err"].pc \in {"scan", "end"}
      BY <1>0, <2>3 DEF Types, TypeOK, OutPcs
    <3>2. proc' = proc /\ ctx' = ctx /\ track' = track /\ ch' = ch /\ UNCHANGED <<waitVars, stopVars, inVars>>
      BY <2>2 DEF chVars
    <3> QED
      BY <3>1, <3>2, TypeOKKept
  <2> QED
    BY <2>2, <2>3, <2>4, <2>5, <2>6, <2>7 DEF Types, chVars
<1>2. CASE ScanEnds
  <2> DEFINE ops == IF pipesClosed \/ TooLong("out") THEN <<Op("try", Ev("error", "read"))>> ELSE <<>>
  <2>1. ops \in Seq(OutOpSet("drain"))
    <3>1. OutOpSet("drain") = {Op("try", Ev("error", "read"))}
      BY DEF OutOpSet, ReadError
    <3>2. Op("try", Ev("error", "read")) \in OutOpSet("drain")
      BY <3>1
    <3> QED
      BY <3>2
  <2>2. OutGoes("drain", ops) /\ UNCHANGED <<procVars, waitVars, ctx, track, seen, stopVars, inVars, chVars>>
    BY <1>2 DEF ScanEnds, OutGoes
  <2> HIDE DEF ops
  <2>3. "drain" \in OutPcs
    BY DEF OutPcs
  <2>4. /\ ch' = ch /\ answer' = answer /\ waits' = waits
        /\ waits' \in [Waiters -> {"idle", "entered", "status", "lost", "ok", "err"}]
        /\ ctx' \in {"live", "ended", "cancelled"}
    BY <2>2 DEF Types, TypeOK, waitVars, inVars, chVars
  <2> QED
    BY <2>1, <2>2, <2>3, <2>4, TypesGoes
<1>3. CASE ScanErr
  <2> DEFINE l == Head(pipe["err"])
             reject == IF IsSandboxRejection(l) THEN <<Op("reject", NoEv), Op("stop", NoEv)>> ELSE <<>>
             ops == IF ~Codex THEN <<>> ELSE DetectStdinWait(l) \o reject
  <2>1. ops \in Seq(ErrOpSet)
    <3>1. /\ Op("send", Ev("user_input", "stderr")) \in ErrOpSet
          /\ Op("reject", NoEv) \in ErrOpSet /\ Op("stop", NoEv) \in ErrOpSet
      BY DEF ErrOpSet, TrackOps
    <3>2. DetectStdinWait(l) \in Seq(ErrOpSet)
      BY <3>1 DEF DetectStdinWait
    <3>3. reject \in Seq(ErrOpSet)
      BY <3>1
    <3> HIDE DEF reject
    <3>4. DetectStdinWait(l) \o reject \in Seq(ErrOpSet)
      BY <3>2, <3>3, ConcatProperties
    <3> QED
      BY <3>4
  <2>2. gor["err"] = [pc |-> "scan", ops |-> <<>>] /\ gor' = [gor EXCEPT !["err"].ops = ops]
        /\ pipe' = [pipe EXCEPT !["err"] = Tail(pipe["err"])]
        /\ seen' = [seen EXCEPT !.stderr = @ \cup {l}]
        /\ UNCHANGED <<cfg, proc, waitVars, ctx, track, stopVars, inVars, chVars>>
    BY <1>3 DEF ScanErr
  <2> HIDE DEF ops, l, reject
  <2>3. IsGor' /\ gor'["err"].pc = "scan" /\ gor'["err"].ops = ops /\ gor'["out"] = gor["out"]
    <3>1. SetOps("err", ops) /\ gor["err"].pc = "scan" /\ "out" \in Readers \ {"err"}
      BY <2>2 DEF SetOps, Readers
    <3> QED
      BY <1>0, <3>1, SetEffect
  <2>4. OpsTyped'
    BY <2>1, <2>3 DEF Types, OpsTyped
  <2>5. pipe' = [g \in Readers |-> pipe'[g]]
    BY <1>0, <2>2
  <2>6. seen' = [result |-> seen'.result, error |-> seen'.error, stderr |-> seen'.stderr]
        /\ seen'.result \in BOOLEAN
    BY <2>2 DEF Types
  <2>7. TypeOK'
    <3>1. TypeOK /\ gor'["out"].pc \in OutPcs /\ gor'["err"].pc \in {"scan", "end"}
      BY <1>0, <2>3 DEF Types, TypeOK, OutPcs
    <3>2. proc' = proc /\ ctx' = ctx /\ track' = track /\ ch' = ch /\ UNCHANGED <<waitVars, stopVars, inVars>>
      BY <2>2 DEF chVars
    <3> QED
      BY <3>1, <3>2, TypeOKKept
  <2> QED
    BY <2>2, <2>3, <2>4, <2>5, <2>6, <2>7 DEF Types, chVars
<1>4. CASE ErrEnds
  <2>1. gor["err"] = [pc |-> "scan", ops |-> <<>>] /\ gor' = [gor EXCEPT !["err"].pc = "end"]
        /\ UNCHANGED <<procVars, waitVars, ctx, track, seen, stopVars, inVars, chVars>>
    BY <1>4 DEF ErrEnds
  <2>3. IsGor' /\ gor'["err"].pc = "end" /\ gor'["err"].ops = <<>> /\ gor'["out"] = gor["out"]
    <3>1. gor["err"].ops = <<>> /\ "out" \in Readers \ {"err"}
      BY <2>1 DEF Readers
    <3> QED
      BY <1>0, <2>1, <3>1, EndEffect
  <2>4. OpsTyped'
    BY <2>3 DEF Types, OpsTyped
  <2>5. TypeOK'
    <3>1. TypeOK /\ gor'["out"].pc \in OutPcs /\ gor'["err"].pc \in {"scan", "end"}
      BY <1>0, <2>3 DEF Types, TypeOK, OutPcs
    <3>2. proc' = proc /\ ctx' = ctx /\ track' = track /\ ch' = ch /\ UNCHANGED <<waitVars, stopVars, inVars>>
      BY <2>1 DEF chVars, procVars
    <3> QED
      BY <3>1, <3>2, TypeOKKept
  <2> QED
    BY <2>1, <2>3, <2>4, <2>5 DEF Types, procVars, chVars
<1> QED
  BY <1>1, <1>2, <1>3, <1>4

LEMMA EnterTyped ==
    ASSUME TypeOK, NEW w \in Waiters, WaitEnter(w)
    PROVE  waits' \in [Waiters -> {"idle", "entered", "status", "lost", "ok", "err"}]
BY DEF TypeOK, WaitEnter

LEMMA TypesEnd ==
    ASSUME Types, Drain \/ OutClosesStdin \/ OutWaits \/ OutReports \/ OutCancels \/ CloseChannel
    PROVE  Types'
<1>0. TypeOK /\ "out" \in Waiters /\ \A pc \in OutPcs : <<>> \in Seq(OutOpSet(pc))
  BY DEF Types, Waiters
<1>1. CASE Drain
  <2>1. waits' \in [Waiters -> {"idle", "entered", "status", "lost", "ok", "err"}]
    BY <1>0, <1>1 DEF Drain, TypeOK
  <2>2. \E pc \in OutPcs : OutGoes(pc, <<>>)
    BY <1>1 DEF Drain, OutPcs
  <2> QED
    BY <1>0, <1>1, <2>1, <2>2, TypesGoes DEF Drain, inVars, chVars, Types, TypeOK
<1>2. CASE OutClosesStdin
  <2> DEFINE ops == IF track.use = "open" /\ (track.held \/ \E l \in seen.stderr : IsSandboxRejection(l))
                    THEN Emit ELSE <<>>
  <2>1. ops \in Seq(OutOpSet("synth")) /\ "synth" \in OutPcs
    BY <1>0, EmitTyped DEF OutOpSet, OutPcs
  <2>2. OutGoes("synth", ops)
    BY <1>2 DEF OutClosesStdin
  <2> HIDE DEF ops
  <2> QED
    BY <1>2, <2>1, <2>2, TypesGoes DEF OutClosesStdin, waitVars, chVars, Types, TypeOK
<1>3. CASE OutWaits
  <2>1. waits' \in [Waiters -> {"idle", "entered", "status", "lost", "ok", "err"}]
    BY <1>0, <1>3, EnterTyped DEF OutWaits
  <2>2. OutGoes("wait", <<>>) /\ "wait" \in OutPcs
    BY <1>3 DEF OutWaits, OutPcs
  <2> QED
    BY <1>0, <1>3, <2>1, <2>2, TypesGoes DEF OutWaits, inVars, chVars, Types, TypeOK
<1>4. CASE OutReports
  <2> DEFINE ops == Outcome(waits["out"])
  <2>1. ops \in Seq(OutOpSet("report")) /\ "report" \in OutPcs
    <3>1. OutOpSet("report") = {Op("try", e) : e \in Outcomes}
      BY DEF OutOpSet
    <3>2. ExitError \in Outcomes /\ Ev("result", "made") \in Outcomes
      BY DEF ExitError, Outcomes, MadeResult
    <3>3. Op("try", ExitError) \in OutOpSet("report") /\ Op("try", Ev("result", "made")) \in OutOpSet("report")
      BY <3>1, <3>2
    <3> QED
      BY <3>3 DEF Outcome, OutPcs
  <2>2. OutGoes("report", ops)
    BY <1>4 DEF OutReports
  <2> HIDE DEF ops
  <2> QED
    BY <1>4, <2>1, <2>2, TypesGoes DEF OutReports, waitVars, inVars, chVars, Types, TypeOK
<1>5. CASE OutCancels
  <2>1. OutGoes("close", <<>>) /\ "close" \in OutPcs
    BY <1>5 DEF OutCancels, OutPcs
  <2>2. ctx' \in {"live", "ended", "cancelled"}
    BY <1>0, <1>5 DEF OutCancels, TypeOK
  <2> QED
    BY <1>0, <1>5, <2>1, <2>2, TypesGoes DEF OutCancels, waitVars, inVars, chVars, Types, TypeOK
<1>6. CASE CloseChannel
  <2>1. OutGoes("end", <<>>) /\ "end" \in OutPcs
    BY <1>6 DEF CloseChannel, OutPcs
  <2> QED
    BY <1>0, <1>6, <2>1, TypesGoes DEF CloseChannel, waitVars, inVars, Types, TypeOK
<1> QED
  BY <1>1, <1>2, <1>3, <1>4, <1>5, <1>6

LEMMA TypesStop ==
    ASSUME Types,
           \/ \E w \in Waiters : WaitReap(w) \/ WaitFinish(w)
           \/ DogFires \/ DogLeaves \/ CallStop
           \/ \E s \in Stoppers : StopClosesStdin(s) \/ StopSignals(s) \/ StopKills(s) \/ StopReturned(s)
           \/ Respond \/ Copied
    PROVE  Types'
<1>0. TypeOK /\ proc \in [state : {"running", "ok", "failed"}, signals : SUBSET Stoppers, out : Nat, err : Nat]
      /\ pipe = [g \in Readers |-> pipe[g]]
  BY DEF Types
<1>1. ASSUME NEW w \in Waiters, WaitReap(w) \/ WaitFinish(w) PROVE Types'
  <2>1. waits' \in [Waiters -> {"idle", "entered", "status", "lost", "ok", "err"}]
    BY <1>0, <1>1 DEF WaitReap, WaitFinish, TypeOK
  <2> QED
    BY <1>0, <1>1, <2>1, TypesKept DEF WaitReap, WaitFinish, procVars, goVars, stopVars, inVars, chVars, TypeOK
<1>2. CASE DogFires \/ DogLeaves
  BY <1>0, <1>2, TypesKept DEF DogFires, DogLeaves, procVars, waitVars, goVars, inVars, chVars, TypeOK
<1>3. CASE CallStop
  <2>1. stops' \in [Stoppers -> {"idle", "called", "signal", "grace", "done"}]
    BY <1>0, <1>3 DEF CallStop, TypeOK
  <2> QED
    BY <1>0, <1>3, <2>1, TypesKept DEF CallStop, procVars, waitVars, goVars, inVars, chVars, TypeOK
<1>4. ASSUME NEW s \in Stoppers, StopClosesStdin(s) \/ StopSignals(s) \/ StopKills(s) \/ StopReturned(s)
      PROVE  Types'
  <2>1. stops' \in [Stoppers -> {"idle", "called", "signal", "grace", "done"}]
    BY <1>0, <1>4 DEF StopClosesStdin, StopSignals, StopKills, StopReturned, stopVars, TypeOK
  <2>2. proc' \in [state : {"running", "ok", "failed"}, signals : SUBSET Stoppers, out : Nat, err : Nat]
    BY <1>0, <1>4 DEF StopClosesStdin, StopSignals, StopKills, StopReturned, procVars
  <2>3. waits' \in [Waiters -> {"idle", "entered", "status", "lost", "ok", "err"}]
    BY <1>0, <1>4, EnterTyped DEF StopClosesStdin, StopSignals, StopKills, StopReturned, waitVars, TypeOK, Waiters
  <2> QED
    BY <1>0, <1>4, <2>1, <2>2, <2>3, TypesKept DEF StopClosesStdin, StopSignals, StopKills, StopReturned,
       procVars, waitVars, goVars, stopVars, inVars, chVars, TypeOK
<1>5. CASE Respond \/ Copied
  BY <1>0, <1>5, TypesKept DEF Respond, Copied, procVars, waitVars, goVars, stopVars, chVars, TypeOK
<1> QED
  BY <1>1, <1>2, <1>3, <1>4, <1>5

LEMMA TypesTimeout == ASSUME Types, EmitTimeout PROVE Types'
<1>1. ch' \in Seq(Event)
  <2>1. Ev("error", "dog") \in Event
    BY DEF Ev, Event, EvTypes, EvFroms
  <2>2. ch' = ch \/ ch' = Append(ch, Ev("error", "dog"))
    BY DEF EmitTimeout, Sent, Skipped
  <2> QED
    BY <2>1, <2>2 DEF Types
<1>2. \A i \in 1..Len(ch') : ch'[i].type \in {"user_input", "tool_use", "tool_result", "text", "error", "result", "system"}
  BY <1>1, TypesOfEvents
<1>3. /\ stops' = [stops EXCEPT !["dog"] = "called"] /\ dog' = "stop"
      /\ proc' = proc /\ cfg' = cfg /\ pipe' = pipe /\ waits' = waits /\ ctx' = ctx /\ gor' = gor
      /\ seen' = seen /\ answer' = answer /\ track' = track
  BY DEF EmitTimeout, procVars, waitVars, goVars, inVars
<1>4. stops' \in [Stoppers -> {"idle", "called", "signal", "grace", "done"}]
  BY <1>3 DEF Types, TypeOK
<1>5. TypeOK'
  BY <1>2, <1>3, <1>4 DEF Types, TypeOK
<1>6. OpsTyped' /\ IsGor'
  BY <1>3 DEF Types, OpsTyped, IsGor
<1> QED
  BY <1>1, <1>3, <1>5, <1>6 DEF Types

LEMMA TypesNext == Types /\ [Next]_vars => Types'
<1> SUFFICES ASSUME Types, [Next]_vars PROVE Types'
  OBVIOUS
<1>1. CASE UNCHANGED vars
  BY <1>1, TypesKept DEF vars, Types, TypeOK
<1>2. CASE Next
  BY <1>2, TypesProcess, TypesScan, StepTypes, TypesEnd, TypesStop, TypesTimeout DEF Next
<1> QED
  BY <1>1, <1>2

-----------------------------------------------------------------------------
(* Nobody sends on the closed channel.                                      *)

(* What Step(g) does to the goroutine, the channel and the tracker. *)
LEMMA StepShape ==
    ASSUME Types, NEW g \in Readers, Step(g)
    PROVE  /\ gor[g].ops # <<>>
           /\ gor["out"].pc \in OutPcs /\ gor["err"].pc \in {"scan", "end"}
           /\ g = "out" => gor["out"].pc \in {"scan", "drain", "synth", "report"}
           /\ g = "err" => gor["err"].pc = "scan"
           /\ \A h \in Readers \ {g} : gor'[h] = gor[h]
           /\ \/ gor'[g].pc = gor[g].pc /\ panicked' = panicked
              \/ /\ gor'[g].pc = (IF g = "out" THEN "return" ELSE "end") /\ gor'[g].ops = <<>>
                 /\ \/ chClosed /\ panicked' = TRUE /\ ch' = ch
                    \/ /\ ctx # "live" /\ panicked' = panicked /\ ch' = ch
                       /\ Head(gor[g].ops).do = "send"
<1> DEFINE op == Head(gor[g].ops)
           rest == Tail(gor[g].ops)
<1>1. gor[g].ops # <<>> /\ (DoSend(g, op, rest) \/ DoTrack(g, op, rest) \/ DoStop(g, op, rest))
  BY DEF Step
<1>2. IsGor /\ stops \in [Stoppers -> {"idle", "called", "signal", "grace", "done"}]
      /\ gor["out"].pc \in OutPcs /\ gor["err"].pc \in {"scan", "end"}
  BY DEF Types, TypeOK, OutPcs
<1>3. g = "out" => gor["out"].pc \in {"scan", "drain", "synth", "report"}
  <2> SUFFICES ASSUME g = "out", gor["out"].pc \notin {"scan", "drain", "synth", "report"} PROVE FALSE
    OBVIOUS
  <2>1. OutOpSet(gor["out"].pc) = {}
    BY DEF OutOpSet
  <2> QED
    BY <1>1, <2>1, SeqOfNone DEF Types, OpsTyped
<1>4. g = "err" => gor["err"].pc = "scan"
  BY <1>1, <1>2, SeqOfNone DEF Types, OpsTyped
<1> HIDE DEF op, rest
<1>5. \/ panicked' = panicked /\ \E ops : SetOps(g, ops)
      \/ Return(g) /\ ch' = ch /\ ((chClosed /\ panicked' = TRUE) \/ (ctx # "live" /\ panicked' = panicked /\ op.do = "send"))
  <2>1. CASE DoSend(g, op, rest)
    <3>1. CASE ~chClosed /\ ch' = Append(ch, op.ev) /\ panicked' = panicked /\ SetOps(g, rest)
      BY <3>1
    <3>2. CASE chClosed /\ ch' = ch /\ panicked' = TRUE /\ Return(g)
      BY <3>2
    <3>3. CASE /\ ctx # "live" /\ ch' = ch /\ panicked' = panicked
               /\ \/ op.do = "send" /\ Return(g)
                  \/ op.do = "try" /\ SetOps(g, rest)
                  \/ op.do = "emit" /\ SetOps(g, Unmarked(rest))
      BY <3>3
    <3> QED
      BY <2>1, <3>1, <3>2, <3>3, SendEffect
  <2>2. CASE DoTrack(g, op, rest)
    BY <2>2, TrackEffect
  <2>3. CASE DoStop(g, op, rest)
    BY <1>2, <2>3, StopEffect
  <2> QED
    BY <1>1, <2>1, <2>2, <2>3 DEF op, rest
<1>6. CASE panicked' = panicked /\ \E ops : SetOps(g, ops)
  BY <1>1, <1>2, <1>3, <1>4, <1>6, SetEffect
<1>7. CASE Return(g) /\ ch' = ch /\ ((chClosed /\ panicked' = TRUE) \/ (ctx # "live" /\ panicked' = panicked /\ op.do = "send"))
  BY <1>1, <1>2, <1>3, <1>4, <1>7, ReturnEffect DEF op
<1> QED
  BY <1>5, <1>6, <1>7

(* The channel is closed last: until the context is cancelled the reader of *)
(* stdout only passes <-stderrDone when the reader of stderr has ended.     *)
Orderly ==
    /\ ctx = "ended" => gor["out"].pc \in {"close", "end"}
    /\ gor["out"].pc \in {"stdin", "synth", "wait", "report", "return", "close", "end"} =>
         gor["err"].pc = "end" \/ ctx = "cancelled"
    /\ gor["out"].pc = "return" => ctx = "cancelled"
    /\ chClosed => gor["out"].pc = "end"
    /\ OrderlyNoPanic

LEMMA OrderlyInit == Init => Orderly
BY DEF Init, Orderly, OrderlyNoPanic, Readers

LEMMA OrderlyKept ==
    ASSUME Orderly, gor'["out"].pc = gor["out"].pc, gor'["err"].pc = gor["err"].pc, ctx' = ctx,
           chClosed' = chClosed, panicked' = panicked
    PROVE  Orderly'
BY DEF Orderly, OrderlyNoPanic

LEMMA OrderlyStep == ASSUME Types, Orderly, NEW g \in Readers, Step(g) PROVE Orderly'
<1>1. ctx' = ctx /\ chClosed' = chClosed
  BY DEF Step
<1>2. CASE g = "out"
  <2>1. gor["out"].pc \in {"scan", "drain", "synth", "report"} /\ gor'["err"] = gor["err"]
    BY <1>2, StepShape DEF Readers
  <2>2. ~chClosed /\ ctx # "ended"
    BY <2>1 DEF Orderly
  <2>3. CASE gor'["out"].pc = gor["out"].pc /\ panicked' = panicked
    BY <1>1, <2>1, <2>3, OrderlyKept
  <2>4. CASE gor'["out"].pc = "return" /\ ctx # "live" /\ panicked' = panicked
    BY <1>1, <2>1, <2>2, <2>4 DEF Orderly, OrderlyNoPanic, Types, TypeOK
  <2> QED
    BY <1>2, <2>2, <2>3, <2>4, StepShape
<1>3. CASE g = "err"
  <2>1. gor["err"].pc = "scan" /\ gor'["out"] = gor["out"] /\ gor["out"].pc \in OutPcs
    BY <1>3, StepShape DEF Readers
  <2>2. chClosed => ctx = "cancelled"
    BY <2>1 DEF Orderly
  <2>3. CASE gor'["err"].pc = gor["err"].pc /\ panicked' = panicked
    BY <1>1, <2>1, <2>3, OrderlyKept
  <2>4. CASE gor'["err"].pc = "end" /\ ((chClosed /\ panicked' = TRUE) \/ panicked' = panicked)
    BY <1>1, <2>1, <2>2, <2>4 DEF Orderly, OrderlyNoPanic
  <2> QED
    BY <1>3, <2>3, <2>4, StepShape
<1> QED
  BY <1>2, <1>3 DEF Readers

LEMMA OrderlyNext == Types /\ Orderly /\ [Next]_vars => Orderly'
<1> SUFFICES ASSUME Types, Orderly, [Next]_vars PROVE Orderly'
  OBVIOUS
<1>1. IsGor /\ "out" \in Readers /\ "err" \in Readers \ {"out"} /\ ctx \in {"live", "ended", "cancelled"}
  BY DEF Types, TypeOK, Readers
<1>2. CASE gor' = gor /\ UNCHANGED <<ctx, chClosed, panicked>>
  BY <1>2, OrderlyKept
<1>3. CASE \/ \E l \in cfg.outLines : WriteLine("out", l)
           \/ \E l \in cfg.errLines : WriteLine("err", l)
           \/ ProcExit \/ Killed
           \/ \E w \in Waiters : WaitReap(w) \/ WaitFinish(w)
           \/ DogFires \/ DogLeaves \/ EmitTimeout \/ CallStop
           \/ \E s \in Stoppers : StopClosesStdin(s) \/ StopSignals(s) \/ StopReturned(s)
           \/ Respond \/ Copied \/ UNCHANGED vars
  BY <1>2, <1>3 DEF WriteLine, ProcExit, Killed, WaitReap, WaitFinish, DogFires, DogLeaves, EmitTimeout,
     Sent, Skipped, CallStop, StopClosesStdin, StopSignals, StopReturned, Respond, Copied, vars, goVars, chVars
<1>4. CASE CancelTurn \/ \E s \in Stoppers : StopKills(s)
  <2>1. ctx = "live" /\ ctx' = "cancelled" /\ gor' = gor /\ UNCHANGED <<chClosed, panicked>>
    BY <1>4 DEF CancelTurn, StopKills, goVars, chVars
  <2> QED
    BY <2>1 DEF Orderly, OrderlyNoPanic
<1>5. CASE ScanOut \/ ScanErr
  <2>1. \E g \in Readers : \E ops : SetOps(g, ops) /\ UNCHANGED <<ctx, chClosed, panicked>>
    BY <1>1, <1>5 DEF ScanOut, ScanErr, SetOps, chVars
  <2> QED
    BY <1>1, <2>1, SetEffect, OrderlyKept DEF Readers
<1>6. CASE ErrEnds
  <2>1. gor' = [gor EXCEPT !["err"].pc = "end"] /\ UNCHANGED <<ctx, chClosed, panicked>>
    BY <1>6 DEF ErrEnds, chVars
  <2>2. gor'["err"].pc = "end" /\ gor'["out"] = gor["out"]
    BY <1>1, <2>1, EndEffect DEF Readers
  <2> QED
    BY <2>1, <2>2 DEF Orderly, OrderlyNoPanic
<1>7. ASSUME NEW pc, NEW ops, OutGoes(pc, ops), UNCHANGED <<ctx, chClosed, panicked>>, ~chClosed, ctx # "ended",
             \/ pc = "drain"
             \/ pc \in {"stdin", "synth", "wait", "report"} /\ (gor["err"].pc = "end" \/ ctx = "cancelled")
      PROVE  Orderly'
  <2>1. gor'["out"].pc = pc /\ gor'["err"] = gor["err"]
    BY <1>1, <1>7, GoesEffect
  <2> QED
    BY <1>7, <2>1 DEF Orderly, OrderlyNoPanic
<1>8. CASE ScanEnds
  <2> DEFINE ops == IF pipesClosed \/ TooLong("out") THEN <<Op("try", Ev("error", "read"))>> ELSE <<>>
  <2>1. /\ OutGoes("drain", ops)
        /\ gor["out"].pc = "scan" /\ UNCHANGED <<ctx, chClosed, panicked>>
    BY <1>8 DEF ScanEnds, OutGoes, chVars
  <2> HIDE DEF ops
  <2>2. ~chClosed /\ ctx # "ended"
    BY <2>1 DEF Orderly
  <2> QED
    BY <1>7, <2>1, <2>2
<1>9. CASE Drain \/ OutClosesStdin \/ OutWaits \/ OutReports
  <2>1. /\ \E pc \in {"stdin", "synth", "wait", "report"} : \E ops : OutGoes(pc, ops)
        /\ gor["out"].pc \in {"drain", "stdin", "synth", "wait"}
        /\ UNCHANGED <<ctx, chClosed, panicked>>
        /\ gor["out"].pc = "drain" => gor["err"].pc = "end"
    BY <1>9 DEF Drain, OutClosesStdin, OutWaits, OutReports, OutAt, chVars
  <2>2. ~chClosed /\ ctx # "ended" /\ (gor["err"].pc = "end" \/ ctx = "cancelled")
    BY <2>1 DEF Orderly
  <2> QED
    BY <1>7, <2>1, <2>2
<1>10. CASE OutCancels
  <2>1. /\ OutGoes("close", <<>>) /\ gor["out"].pc \in {"report", "return"}
        /\ ctx' = (IF ctx = "live" THEN "ended" ELSE ctx) /\ UNCHANGED <<chClosed, panicked>>
    BY <1>10 DEF OutCancels, OutAt, chVars
  <2>2. gor'["out"].pc = "close" /\ gor'["err"] = gor["err"]
    BY <1>1, <2>1, GoesEffect
  <2> QED
    BY <1>1, <2>1, <2>2 DEF Orderly, OrderlyNoPanic
<1>11. CASE CloseChannel
  <2>1. OutGoes("end", <<>>) /\ gor["out"].pc = "close" /\ chClosed' = TRUE /\ UNCHANGED <<ctx, panicked>>
    BY <1>11 DEF CloseChannel, OutAt
  <2>2. gor'["out"].pc = "end" /\ gor'["err"] = gor["err"]
    BY <1>1, <2>1, GoesEffect
  <2> QED
    BY <1>1, <2>1, <2>2 DEF Orderly, OrderlyNoPanic
<1> QED
  BY <1>3, <1>4, <1>5, <1>6, <1>8, <1>9, <1>10, <1>11, OrderlyStep DEF Next

-----------------------------------------------------------------------------
(* The home of a process outlives it.                                       *)

(* A Wait that has a status or has returned saw the process dead. *)
Buried ==
    /\ reaped => proc.state # "running"
    /\ \A w \in Waiters : waits[w] \in {"status", "lost", "ok", "err"} => reaped
    /\ HomeOutlivesProcess

LEMMA BuriedInit == Init => Buried
BY DEF Init, Buried, HomeOutlivesProcess, Codex

LEMMA BuriedKept ==
    ASSUME Buried, UNCHANGED <<reaped, waits, home, cfg>>,
           proc.state # "running" => proc'.state # "running"
    PROVE  Buried'
BY DEF Buried, HomeOutlivesProcess, Codex

LEMMA BuriedNext == Types /\ Buried /\ [Next]_vars => Buried'
<1> SUFFICES ASSUME Types, Buried, [Next]_vars PROVE Buried'
  OBVIOUS
<1>1. waits \in [Waiters -> {"idle", "entered", "status", "lost", "ok", "err"}]
      /\ proc \in [state : {"running", "ok", "failed"}, signals : SUBSET Stoppers, out : Nat, err : Nat]
  BY DEF Types, TypeOK
<1>2. CASE UNCHANGED <<reaped, waits, home, cfg, proc>>
  BY <1>2, BuriedKept
<1>3. CASE \/ CancelTurn \/ ScanOut \/ ScanEnds \/ ScanErr \/ ErrEnds \/ OutClosesStdin
           \/ OutReports \/ OutCancels \/ CloseChannel \/ DogFires \/ DogLeaves \/ EmitTimeout \/ CallStop
           \/ \E s \in Stoppers : StopClosesStdin(s) \/ StopKills(s)
           \/ Respond \/ Copied \/ UNCHANGED vars \/ \E g \in Readers : Step(g)
  BY <1>2, <1>3 DEF CancelTurn, ScanOut, ScanEnds, ScanErr, ErrEnds, OutClosesStdin, OutReports,
     OutCancels, CloseChannel, DogFires, DogLeaves, EmitTimeout, CallStop, StopClosesStdin, StopKills,
     Respond, Copied, Step, vars, procVars, waitVars, stopVars
<1>4. CASE \/ \E l \in cfg.outLines : WriteLine("out", l)
           \/ \E l \in cfg.errLines : WriteLine("err", l)
           \/ ProcExit \/ Killed
  BY <1>1, <1>4, BuriedKept DEF WriteLine, ProcExit, Killed, waitVars, stopVars
<1>5. ASSUME NEW w \in Waiters, WaitEnter(w), UNCHANGED <<reaped, home, cfg>>, proc'.state = proc.state
      PROVE  Buried'
  BY <1>1, <1>5 DEF WaitEnter, Buried, HomeOutlivesProcess, Codex
<1>6. CASE Drain \/ OutWaits
  <2>1. "out" \in Waiters
    BY DEF Waiters
  <2>2. (WaitEnter("out") \/ waits' = waits) /\ UNCHANGED <<reaped, home, cfg, proc>>
    BY <1>6 DEF Drain, OutWaits, WaitEnter, procVars, stopVars
  <2> QED
    BY <1>2, <1>5, <2>1, <2>2
<1>7. ASSUME NEW w \in Waiters, WaitReap(w) \/ WaitFinish(w) PROVE Buried'
  BY <1>1, <1>7 DEF WaitReap, WaitFinish, Buried, HomeOutlivesProcess, Codex, procVars, stopVars
<1>8. ASSUME NEW s \in Stoppers, StopSignals(s) PROVE Buried'
  <2>1. s \in Waiters /\ WaitEnter(s) /\ UNCHANGED <<reaped, home, cfg>>
    BY <1>8 DEF StopSignals, Waiters
  <2>2. proc'.state = proc.state
    BY <1>1, <1>8 DEF StopSignals
  <2> QED
    BY <1>5, <2>1, <2>2
<1>9. ASSUME NEW s \in Stoppers, StopReturned(s) PROVE Buried'
  <2>1. waits[s] \in {"ok", "err"} /\ s \in Waiters /\ UNCHANGED <<reaped, waits, cfg, proc>>
    BY <1>9 DEF StopReturned, procVars, waitVars, Waiters
  <2>2. proc.state # "running"
    BY <2>1 DEF Buried
  <2> QED
    BY <2>1, <2>2 DEF Buried, HomeOutlivesProcess
<1> QED
  BY <1>3, <1>4, <1>6, <1>7, <1>8, <1>9 DEF Next

(* As long as nobody cancels the turn or kills the process no goroutine     *)
(* sends on the closed channel, and the temporary CODEX_HOME is removed     *)
(* only when the process that uses it is gone (the end of the readers,      *)
(* Stop), in every interleaving of readers, watchdog, stoppers and answers. *)
THEOREM ShutdownIsOrderly == Spec => []ShutdownOrderly
<1>1. Init => Types /\ Orderly /\ Buried
  BY TypesInit, OrderlyInit, BuriedInit
<1>2. Types /\ Orderly /\ Buried /\ [Next]_vars => (Types /\ Orderly /\ Buried)'
  BY TypesNext, OrderlyNext, BuriedNext
<1>3. Types /\ Orderly /\ Buried => ShutdownOrderly
  BY DEF Orderly, Buried, ShutdownOrderly
<1> QED
  BY <1>1, <1>2, <1>3, PTL DEF Spec

-----------------------------------------------------------------------------
(* A made-up result is earned.                                              *)

LEMMA EventsAppend ==
    ASSUME ch \in Seq(Event), NEW e, ch' = Append(ch, e)
    PROVE  Events' = Events \cup {e}
<1>1. Len(ch') = Len(ch) + 1 /\ ch'[Len(ch) + 1] = e /\ \A i \in 1..Len(ch) : ch'[i] = ch[i]
  OBVIOUS
<1>2. 1..Len(ch') = (1..Len(ch)) \cup {Len(ch) + 1}
  BY <1>1
<1>3. ASSUME NEW x \in Events' PROVE x \in Events \cup {e}
  <2>1. PICK i \in 1..Len(ch') : x = ch'[i]
    BY <1>3 DEF Events
  <2> QED
    BY <1>1, <1>2, <2>1 DEF Events
<1>4. ASSUME NEW x \in Events \cup {e} PROVE x \in Events'
  <2>1. CASE x \in Events
    <3>1. PICK i \in 1..Len(ch) : x = ch[i]
      BY <2>1 DEF Events
    <3>2. i \in 1..Len(ch') /\ x = ch'[i]
      BY <1>1, <1>2, <3>1
    <3> QED
      BY <3>2 DEF Events
  <2>2. CASE x = e
    BY <1>1, <1>2, <2>2 DEF Events
  <2> QED
    BY <2>1, <2>2
<1> QED
  BY <1>3, <1>4

LEMMA EventsKept == ch' = ch => Events' = Events
BY DEF Events

(* What a step adds to the channel is the event of its operation. *)
LEMMA StepEvents ==
    ASSUME Types, NEW g \in Readers, Step(g)
    PROVE  \/ Events' = Events
           \/ /\ Head(gor[g].ops).do \in {"send", "try", "emit"}
              /\ Events' = Events \cup {Head(gor[g].ops).ev}
              /\ SetOps(g, Tail(gor[g].ops))
<1> DEFINE op == Head(gor[g].ops)
           rest == Tail(gor[g].ops)
<1>1. DoSend(g, op, rest) \/ DoTrack(g, op, rest) \/ DoStop(g, op, rest)
  BY DEF Step
<1>2. ch \in Seq(Event) /\ stops \in [Stoppers -> {"idle", "called", "signal", "grace", "done"}]
  BY DEF Types, TypeOK
<1> HIDE DEF op, rest
<1>3. CASE ch' = ch
  BY <1>3, EventsKept
<1>4. CASE DoSend(g, op, rest)
  <2>1. CASE ch' = Append(ch, op.ev) /\ SetOps(g, rest)
    <3>1. Events' = Events \cup {op.ev}
      BY <1>2, <2>1, EventsAppend
    <3>2. op.do \in {"send", "try", "emit"}
      BY <1>4, SendEffect
    <3> QED
      BY <2>1, <3>1, <3>2 DEF op, rest
  <2> QED
    BY <1>3, <1>4, <2>1, SendEffect
<1>5. CASE DoTrack(g, op, rest)
  BY <1>3, <1>5, TrackEffect
<1>6. CASE DoStop(g, op, rest)
  BY <1>2, <1>3, <1>6, StopEffect
<1> QED
  BY <1>1, <1>4, <1>5, <1>6 DEF op, rest

(* What the reader of stdout may still send is true when it is sent. *)
Earned(pc, result, wait) ==
    {o \in OutOpSet(pc) : /\ o.ev = AgentResult => result
                          /\ o.ev = MadeResult => wait = "ok" /\ ~result}

(* The output was read to its end, or the error of reading was reported,    *)
(* or the cancellation took its place.                                      *)
Read == \/ proc.state # "running" /\ pipe["out"] = <<>>
        \/ ReadError \in Events
        \/ ctx = "cancelled"

Made ==
    /\ gor["out"].pc \in {"scan", "drain", "stdin", "synth"} => waits["out"] = "idle"
    /\ gor["out"].pc = "report" => waits["out"] \in {"ok", "err"}
    /\ waits["out"] \in {"entered", "status", "lost"} => gor["out"].pc = "wait"
    /\ pipesClosed => finished
    /\ gor["out"].pc \in {"drain", "stdin", "synth", "wait"} /\ ~finished =>
         Read \/ (gor["out"].pc = "drain" /\ gor["out"].ops # <<>>)
    /\ waits["out"] = "ok" => proc.state = "ok" /\ Read
    /\ gor["out"].ops \in Seq(Earned(gor["out"].pc, seen.result, waits["out"]))
    /\ AgentResult \in Events => seen.result
    /\ MadeResult \in Events => waits["out"] = "ok" /\ ~seen.result

LEMMA MadeHolds == Made => MadeResultTruthful
BY DEF Made, Read, MadeResultTruthful, MadeResult, AgentResult, ReadError

LEMMA MadeInit == Init => Made
<1> SUFFICES ASSUME Init PROVE Made
  OBVIOUS
<1>1. Events = {} /\ gor["out"].pc = "scan" /\ gor["out"].ops = <<>> /\ waits["out"] = "idle" /\ ~pipesClosed
  BY DEF Init, Events, Readers, Waiters
<1>2. \A S : <<>> \in Seq(S)
  OBVIOUS
<1> QED
  BY <1>1, <1>2 DEF Made

(* A step of others: it may end the process, close the pipes, or add events *)
(* that are no results and no errors of reading.                            *)
LEMMA MadeKept ==
    ASSUME Made, gor'["out"] = gor["out"], waits'["out"] = waits["out"], seen'.result = seen.result,
           proc.state # "running" => proc'.state = proc.state /\ pipe'["out"] = pipe["out"],
           finished => finished', pipesClosed' => finished', ctx = "cancelled" => ctx' = "cancelled",
           {AgentResult, MadeResult, ReadError} \cap Events' = {AgentResult, MadeResult, ReadError} \cap Events
    PROVE  Made'
<1>1. /\ AgentResult \in Events' <=> AgentResult \in Events
      /\ MadeResult \in Events' <=> MadeResult \in Events
      /\ ReadError \in Events' <=> ReadError \in Events
  OBVIOUS
<1>2. (gor["out"].ops \in Seq(Earned(gor["out"].pc, seen.result, waits["out"])))'
  BY DEF Made
<1> QED
  BY <1>1, <1>2 DEF Made, Read

LEMMA MadeGoes ==
    ASSUME Made, Types, NEW pc \in {"stdin", "synth", "wait", "report", "close", "end"}, NEW ops,
           OutGoes(pc, ops), ops \in Seq(Earned(pc, seen.result, waits'["out"])),
           ch' = ch, UNCHANGED <<seen, procVars, finished, pipesClosed>>,
           ctx = "cancelled" => ctx' = "cancelled", gor["out"].ops = <<>>,
           \/ pc \in {"stdin", "synth"} /\ gor["out"].pc \in {"drain", "stdin"} /\ waits'["out"] = waits["out"]
           \/ pc = "wait" /\ gor["out"].pc \in {"drain", "synth"} /\ waits'["out"] \in {"entered", "err"}
           \/ pc = "report" /\ gor["out"].pc = "wait" /\ waits["out"] \in {"ok", "err"} /\ waits'["out"] = waits["out"]
           \/ pc \in {"close", "end"} /\ gor["out"].pc \in {"report", "return", "close"} /\ waits'["out"] = waits["out"]
    PROVE  Made'
<1>1. gor'["out"].pc = pc /\ gor'["out"].ops = ops
  BY GoesEffect DEF Types
<1>2. Events' = Events
  BY EventsKept
<1>3. /\ seen' = seen /\ proc' = proc /\ pipe' = pipe /\ finished' = finished /\ pipesClosed' = pipesClosed
  BY DEF procVars
<1>4. (gor["out"].ops \in Seq(Earned(gor["out"].pc, seen.result, waits["out"])))'
  BY <1>1, <1>3
<1> QED
  BY <1>1, <1>2, <1>3, <1>4 DEF Made, Read

LEMMA ErrEvents ==
    ASSUME NEW op \in ErrOpSet, op.do \in {"send", "try", "emit"}
    PROVE  op.ev \notin {AgentResult, MadeResult, ReadError}
BY DEF ErrOpSet, TrackOps, EmitOps, Op, Ev, NoEv, AgentResult, MadeResult, ReadError, MadeAnswer

LEMMA TrackEarned ==
    ASSUME NEW result, NEW wait
    PROVE  TrackOps \subseteq Earned("scan", result, wait) /\ Emit \in Seq(Earned("scan", result, wait))
<1>1. TrackOps \subseteq Earned("scan", result, wait)
  BY DEF TrackOps, Earned, OutOpSet, LineOpSet, Op, Ev, NoEv, AgentResult, MadeResult
<1>2. Op("emit", MadeAnswer) \in Earned("scan", result, wait) /\ Op("mark", NoEv) \in Earned("scan", result, wait)
  BY DEF EmitOps, Earned, OutOpSet, LineOpSet, Op, Ev, NoEv, AgentResult, MadeResult, MadeAnswer
<1>3. Emit = <<Op("emit", MadeAnswer), Op("mark", NoEv)>>
  BY DEF Emit, MadeAnswer
<1> QED
  BY <1>1, <1>2, <1>3

LEMMA OutEvents ==
    ASSUME NEW pc \in {"scan", "synth", "report"}, NEW op \in OutOpSet(pc)
    PROVE  op.ev # ReadError /\ (pc # "report" => op.ev # MadeResult)
BY DEF OutOpSet, LineOpSet, TrackOps, EmitOps, LineEvents, Outcomes, Op, Ev, NoEv, AgentResult,
       MadeResult, ReadError, MadeAnswer

(* The error of reading is sent or, once the context is done, may be skipped. *)
LEMMA DrainStep ==
    ASSUME Types, Step("out"), gor["out"].pc = "drain"
    PROVE  Return("out") \/ ReadError \in Events' \/ ctx # "live"
<1> DEFINE op == Head(gor["out"].ops)
           rest == Tail(gor["out"].ops)
<1>1. op \in OutOpSet("drain") /\ rest \in Seq(OutOpSet("drain"))
  BY HeadTailProperties DEF Types, OpsTyped, Step
<1>2. op.do = "try" /\ op.ev = ReadError
  BY <1>1 DEF OutOpSet, Op
<1>3. DoSend("out", op, rest) \/ DoTrack("out", op, rest) \/ DoStop("out", op, rest)
  BY DEF Step
<1>4. ch \in Seq(Event) /\ stops \in [Stoppers -> {"idle", "called", "signal", "grace", "done"}]
  BY DEF Types, TypeOK
<1> HIDE DEF op, rest
<1>5. DoSend("out", op, rest)
  <2>1. ~DoTrack("out", op, rest)
    BY <1>2, TrackEffect
  <2>2. ~DoStop("out", op, rest)
    BY <1>2 DEF DoStop
  <2> QED
    BY <1>3, <2>1, <2>2
<1>6. ch' = Append(ch, op.ev) \/ Return("out") \/ ctx # "live"
  BY <1>5, SendEffect
<1>7. ch' = Append(ch, op.ev) => ReadError \in Events'
  BY <1>2, <1>4, EventsAppend
<1> QED
  BY <1>6, <1>7

LEMMA MadeStep == ASSUME Types, Orderly, Made, NEW g \in Readers, Step(g) PROVE Made'
<1> DEFINE op == Head(gor[g].ops)
           rest == Tail(gor[g].ops)
           pc == gor["out"].pc
           S == Earned(pc, seen.result, waits["out"])
<1>1. gor[g].ops # <<>> /\ (DoSend(g, op, rest) \/ DoTrack(g, op, rest) \/ DoStop(g, op, rest))
  BY DEF Step
<1>2. /\ proc' = proc /\ pipe' = pipe /\ waits' = waits /\ finished' = finished
      /\ pipesClosed' = pipesClosed /\ seen' = seen /\ ctx' = ctx /\ IsGor
  BY DEF Step, procVars, waitVars, Types
<1>3. CASE g = "err"
  <2>1. gor["err"].pc = "scan" /\ gor'["out"] = gor["out"]
    BY <1>3, StepShape DEF Readers
  <2>2. op \in ErrOpSet
    BY <1>1, <1>3, <2>1, HeadTailProperties DEF Types, OpsTyped
  <2>3. {AgentResult, MadeResult, ReadError} \cap Events' = {AgentResult, MadeResult, ReadError} \cap Events
    <3>1. CASE Events' = Events
      BY <3>1
    <3>2. CASE op.do \in {"send", "try", "emit"} /\ Events' = Events \cup {op.ev}
      BY <2>2, <3>2, ErrEvents
    <3> QED
      BY <3>1, <3>2, StepEvents
  <2>4. /\ waits'["out"] = waits["out"] /\ seen'.result = seen.result
        /\ proc'.state = proc.state /\ pipe'["out"] = pipe["out"]
        /\ finished => finished'
        /\ pipesClosed' => finished'
        /\ ctx' = ctx
    BY <1>2 DEF Made
  <2> QED
    BY <2>1, <2>3, <2>4, MadeKept
<1>4. CASE g = "out"
  <2>1. pc \in {"scan", "drain", "synth", "report"}
    BY <1>4, StepShape
  <2>2. gor["out"].ops \in Seq(S)
    BY DEF Made
  <2>3. op \in S /\ rest \in Seq(S)
    BY <1>1, <1>4, <2>2, HeadTailProperties
  <2>4. op.do \in {"flush", "reject"} => TrackOps \subseteq S /\ Emit \in Seq(S)
    <3>1. SUFFICES ASSUME op.do \in {"flush", "reject"} PROVE pc = "scan"
      BY TrackEarned
    <3>2. op \in OutOpSet(pc)
      BY <2>3 DEF Earned
    <3> QED
      BY <2>1, <3>1, <3>2 DEF OutOpSet, EmitOps, Op
  <2>5. Return("out") \/ \E ops \in Seq(S) : SetOps("out", ops)
    <3> HIDE DEF S
    <3> QED
      BY <1>1, <1>4, <2>2, <2>4, StepOps
  <2>6. op \in OutOpSet(pc) /\ (op.ev = AgentResult => seen.result)
        /\ (op.ev = MadeResult => waits["out"] = "ok" /\ ~seen.result)
    BY <2>3 DEF Earned
  <2>7. CASE Return("out")
    <3>1. gor'["out"].pc = "return" /\ gor'["out"].ops = <<>>
      BY <1>2, <1>4, <2>7, ReturnEffect DEF Readers
    <3>2. Events' = Events
      <4>1. SUFFICES ASSUME SetOps("out", rest) PROVE FALSE
        BY <1>4, StepEvents
      <4>2. gor'["out"].pc = pc
        BY <1>2, <4>1, SetEffect DEF Readers
      <4> QED
        BY <2>1, <3>1, <4>2
    <3>3. (gor["out"].ops \in Seq(Earned(gor["out"].pc, seen.result, waits["out"])))'
      BY <3>1
    <3>4. waits["out"] \notin {"entered", "status", "lost"}
      BY <2>1 DEF Made
    <3> QED
      BY <1>2, <3>1, <3>2, <3>3, <3>4 DEF Made, Read
  <2>8. CASE \E ops \in Seq(S) : SetOps("out", ops)
    <3>1. gor'["out"].pc = pc /\ gor'["out"].ops \in Seq(S)
      BY <1>2, <2>8, SetEffect DEF Readers
    <3>2. (gor["out"].ops \in Seq(Earned(gor["out"].pc, seen.result, waits["out"])))'
      BY <1>2, <3>1
    <3>3. Events \subseteq Events' /\ Events' \subseteq Events \cup {op.ev}
                /\ (op.ev \in Events' => op.ev \in Events \/ op.do \in {"send", "try", "emit"})
      BY <1>4, StepEvents
    <3>4. AgentResult \in Events' => seen.result
      BY <2>6, <3>3 DEF Made
    <3>5. MadeResult \in Events' => waits["out"] = "ok" /\ ~seen.result
      BY <2>6, <3>3 DEF Made
    <3>6. Read => Read'
      BY <1>2, <3>3 DEF Read
    <3>7. pc = "drain" => Read' \/ Return("out")
      <4>1. pc = "drain" => ctx # "ended" /\ ctx \in {"live", "ended", "cancelled"}
        BY DEF Orderly, Types, TypeOK
      <4> QED
        BY <1>2, <1>4, <4>1, DrainStep DEF Read
    <3>8. ~Return("out")
      <4>1. SUFFICES ASSUME Return("out") PROVE FALSE
        OBVIOUS
      <4>2. gor'["out"].pc = "return"
        BY <1>2, <4>1, ReturnEffect DEF Readers
      <4> QED
        BY <2>1, <3>1, <4>2
    <3> QED
      BY <1>2, <2>1, <3>1, <3>2, <3>4, <3>5, <3>6, <3>7, <3>8 DEF Made
  <2> QED
    BY <2>5, <2>7, <2>8
<1> QED
  BY <1>3, <1>4 DEF Readers

LEMMA MadeScan == ASSUME Types, Made, ScanOut \/ ScanEnds PROVE Made'
<1>0. IsGor /\ "out" \in Readers
  BY DEF Types, Readers
<1>1. CASE ScanOut
  <2> DEFINE l == Head(pipe["out"])
             ops == LineOps(l)
  <2>1. ops \in Seq(OpsOf(l))
    BY LineTyped
  <2>2. /\ gor["out"] = [pc |-> "scan", ops |-> <<>>] /\ SetOps("out", ops) /\ ch' = ch
        /\ waits' = waits /\ pipesClosed' = pipesClosed /\ finished' = finished /\ proc' = proc
    BY <1>1 DEF ScanOut, SetOps, waitVars, chVars
  <2>3. seen'.result = (seen.result \/ l = "turnDone")
    <3>1. seen' = [seen EXCEPT !.result = @ \/ l = "turnDone",
                               !.error = IF Codex /\ l \in {"fails", "failsFatal"} THEN l ELSE @]
      BY <1>1 DEF ScanOut
    <3>2. seen = [result |-> seen.result, error |-> seen.error, stderr |-> seen.stderr]
      BY DEF Types
    <3> QED
      BY <3>1, <3>2
  <2>4. OpsOf(l) \subseteq Earned("scan", seen'.result, waits'["out"])
    BY <2>3, OutEvents DEF OpsOf, Earned, OutOpSet
  <2> HIDE DEF ops, l
  <2>5. gor'["out"].pc = "scan" /\ gor'["out"].ops = ops
    BY <1>0, <2>2, SetEffect
  <2>6. (gor["out"].ops \in Seq(Earned(gor["out"].pc, seen.result, waits["out"])))'
    BY <2>1, <2>4, <2>5
  <2>7. Events' = Events
    BY <2>2, EventsKept
  <2>8. waits["out"] = "idle"
    BY <2>2 DEF Made
  <2> QED
    BY <2>2, <2>3, <2>5, <2>6, <2>7, <2>8 DEF Made
<1>2. CASE ScanEnds
  <2> DEFINE ops == IF pipesClosed \/ TooLong("out") THEN <<Op("try", Ev("error", "read"))>> ELSE <<>>
  <2>1. /\ gor["out"] = [pc |-> "scan", ops |-> <<>>] /\ OutGoes("drain", ops) /\ ch' = ch
        /\ waits' = waits /\ pipesClosed' = pipesClosed /\ finished' = finished /\ proc' = proc
        /\ pipe' = pipe /\ seen' = seen
        /\ pipesClosed \/ TooLong("out") \/ (proc.state # "running" /\ pipe["out"] = <<>>)
    BY <1>2 DEF ScanEnds, OutGoes, waitVars, chVars, procVars
  <2>2. ops \in Seq(Earned("drain", seen.result, waits["out"]))
    <3>1. Op("try", ReadError) \in Earned("drain", seen.result, waits["out"])
      BY DEF Earned, OutOpSet, Op, ReadError, AgentResult, MadeResult, Ev
    <3> DEFINE E == Earned("drain", seen.result, waits["out"])
               o == Op("try", ReadError)
    <3>2. ops = IF pipesClosed \/ TooLong("out") THEN <<o>> ELSE <<>>
      BY DEF ReadError
    <3>3. o \in E
      BY <3>1
    <3> HIDE DEF E, o, ops
    <3>4. ops \in Seq(E)
      BY <3>2, <3>3
    <3> QED
      BY <3>4 DEF E
  <2>3. ops # <<>> \/ (proc.state # "running" /\ pipe["out"] = <<>>)
    BY <2>1
  <2> HIDE DEF ops
  <2>4. gor'["out"].pc = "drain" /\ gor'["out"].ops = ops
    BY <1>0, <2>1, GoesEffect
  <2>5. (gor["out"].ops \in Seq(Earned(gor["out"].pc, seen.result, waits["out"])))'
    BY <2>1, <2>2, <2>4
  <2>6. Events' = Events
    BY <2>1, EventsKept
  <2>7. waits["out"] = "idle"
    BY <2>1 DEF Made
  <2> QED
    BY <2>1, <2>3, <2>4, <2>5, <2>6, <2>7 DEF Made, Read
<1> QED
  BY <1>1, <1>2

LEMMA MadeNext == Types /\ Orderly /\ Made /\ [Next]_vars => Made'
<1> SUFFICES ASSUME Types, Orderly, Made, [Next]_vars PROVE Made'
  OBVIOUS
<1>1. /\ waits \in [Waiters -> {"idle", "entered", "status", "lost", "ok", "err"}]
      /\ proc \in [state : {"running", "ok", "failed"}, signals : SUBSET Stoppers, out : Nat, err : Nat]
      /\ pipe = [g \in Readers |-> pipe[g]] /\ IsGor /\ "out" \in Waiters /\ "out" \notin Stoppers
      /\ \A e, r, w : <<>> \in Seq(Earned(e, r, w))
  BY DEF Types, TypeOK, Waiters, Stoppers
<1>2. ASSUME gor'["out"] = gor["out"], waits'["out"] = waits["out"], seen'.result = seen.result,
             proc.state # "running" => proc'.state = proc.state /\ pipe'["out"] = pipe["out"],
             UNCHANGED <<finished, pipesClosed, ch>>, ctx = "cancelled" => ctx' = "cancelled"
      PROVE  Made'
  <2>1. Events' = Events
    BY <1>2, EventsKept
  <2>2. /\ finished => finished'
        /\ pipesClosed' => finished'
    BY <1>2 DEF Made
  <2>3. {AgentResult, MadeResult, ReadError} \cap Events' = {AgentResult, MadeResult, ReadError} \cap Events
    BY <2>1
  <2> QED
    BY <1>2, <2>2, <2>3, MadeKept
<1>3. CASE UNCHANGED <<gor, waits, seen, procVars, finished, pipesClosed, ch>> /\ (ctx = "cancelled" => ctx' = "cancelled")
  BY <1>2, <1>3 DEF procVars
<1>4. CASE \/ CancelTurn \/ DogFires \/ DogLeaves \/ CallStop
           \/ \E s \in Stoppers : StopClosesStdin(s) \/ StopKills(s) \/ StopReturned(s)
           \/ Respond \/ Copied \/ UNCHANGED vars
  BY <1>3, <1>4 DEF CancelTurn, DogFires, DogLeaves, CallStop, StopClosesStdin, StopKills, StopReturned,
     Respond, Copied, vars, procVars, waitVars, goVars, chVars
<1>5. ASSUME NEW g \in Readers, NEW l, WriteLine(g, l) PROVE Made'
  <2>1. proc.state = "running" /\ UNCHANGED <<gor, waits, seen, finished, pipesClosed, ctx, ch>>
    BY <1>5 DEF WriteLine, waitVars, goVars, chVars
  <2> QED
    BY <1>2, <2>1
<1>6. CASE ProcExit \/ Killed
  <2>1. proc.state = "running" /\ UNCHANGED <<gor, waits, seen, finished, pipesClosed, ctx, ch>>
    BY <1>6 DEF ProcExit, Killed, waitVars, goVars, chVars
  <2> QED
    BY <1>2, <2>1
<1>7. CASE ScanErr
  <2>1. /\ seen' = [seen EXCEPT !.stderr = @ \cup {Head(pipe["err"])}]
        /\ pipe' = [pipe EXCEPT !["err"] = Tail(@)]
        /\ \E ops : SetOps("err", ops)
        /\ proc' = proc /\ UNCHANGED <<waits, finished, pipesClosed, ctx, ch>>
    BY <1>7 DEF ScanErr, SetOps, waitVars, chVars
  <2>2. seen = [result |-> seen.result, error |-> seen.error, stderr |-> seen.stderr]
    BY DEF Types
  <2>3. seen'.result = seen.result /\ pipe'["out"] = pipe["out"]
    BY <1>1, <2>1, <2>2
  <2>4. gor'["out"] = gor["out"]
    BY <1>1, <2>1, SetEffect DEF Readers
  <2> QED
    BY <1>2, <2>1, <2>3, <2>4
<1>8. CASE ErrEnds
  <2>1. gor' = [gor EXCEPT !["err"].pc = "end"]
        /\ UNCHANGED <<waits, seen, procVars, finished, pipesClosed, ctx, ch>>
    BY <1>8 DEF ErrEnds, waitVars, chVars
  <2>2. gor'["out"] = gor["out"]
    BY <1>1, <2>1, EndEffect DEF Readers
  <2> QED
    BY <1>2, <2>1, <2>2 DEF procVars
<1>9. ASSUME NEW w \in Waiters, WaitReap(w) PROVE Made'
  <2>1. UNCHANGED <<gor, seen, procVars, finished, pipesClosed, ctx, ch>>
        /\ waits[w] = "entered" /\ waits' = [waits EXCEPT ![w] = IF reaped THEN "lost" ELSE "status"]
    BY <1>9 DEF WaitReap, goVars, chVars
  <2>2. CASE w # "out"
    <3>1. waits'["out"] = waits["out"]
      BY <1>1, <2>1, <2>2
    <3> QED
      BY <1>2, <2>1, <3>1 DEF procVars
  <2>3. CASE w = "out"
    <3>1. gor["out"].pc = "wait" /\ waits'["out"] \in {"lost", "status"} /\ Events' = Events
      BY <1>1, <2>1, <2>3, EventsKept DEF Made
    <3>2. gor["out"].ops = <<>>
      BY <3>1, SeqOfNone DEF Types, OpsTyped, OutOpSet
    <3>3. (gor["out"].ops \in Seq(Earned(gor["out"].pc, seen.result, waits["out"])))'
      BY <1>1, <2>1, <3>2
    <3> QED
      BY <2>1, <2>3, <3>1, <3>3 DEF Made, Read, procVars
  <2> QED
    BY <2>2, <2>3
<1>10. ASSUME NEW w \in Waiters, WaitFinish(w) PROVE Made'
  <2>1. UNCHANGED <<gor, seen, procVars, ctx, ch>> /\ ~finished /\ finished' = TRUE /\ pipesClosed' = TRUE
        /\ waits[w] \in {"status", "lost"}
        /\ waits' = [waits EXCEPT ![w] = IF waits[w] = "status" /\ proc.state = "ok" THEN "ok" ELSE "err"]
    BY <1>10 DEF WaitFinish, goVars, chVars
  <2>2. CASE w # "out"
    <3>1. waits'["out"] = waits["out"] /\ Events' = Events
      BY <1>1, <2>1, <2>2, EventsKept
    <3>2. (gor["out"].ops \in Seq(Earned(gor["out"].pc, seen.result, waits["out"])))'
      BY <2>1, <3>1 DEF Made
    <3> QED
      BY <2>1, <3>1, <3>2 DEF Made, Read, procVars
  <2>3. CASE w = "out"
    <3>1. gor["out"].pc = "wait" /\ Events' = Events /\ waits'["out"] \in {"ok", "err"}
          /\ (waits'["out"] = "ok" => proc.state = "ok")
      BY <1>1, <2>1, <2>3, EventsKept DEF Made
    <3>2. gor["out"].ops = <<>>
      BY <3>1, SeqOfNone DEF Types, OpsTyped, OutOpSet
    <3>3. (gor["out"].ops \in Seq(Earned(gor["out"].pc, seen.result, waits["out"])))'
      BY <1>1, <2>1, <3>2
    <3>4. MadeResult \notin Events
      BY <2>1, <2>3 DEF Made
    <3> QED
      BY <2>1, <3>1, <3>3, <3>4 DEF Made, Read, procVars
  <2> QED
    BY <2>2, <2>3
<1>11. ASSUME NEW s \in Stoppers, StopSignals(s) PROVE Made'
  <2>1. UNCHANGED <<gor, seen, pipe, finished, pipesClosed, ctx, ch>> /\ WaitEnter(s)
    BY <1>11 DEF StopSignals, goVars, chVars
  <2>2. waits'["out"] = waits["out"]
    BY <1>1, <2>1 DEF WaitEnter
  <2>3. proc'.state = proc.state
    BY <1>1, <1>11 DEF StopSignals
  <2> QED
    BY <1>2, <2>1, <2>2, <2>3
<1>12. CASE EmitTimeout
  <2>1. UNCHANGED <<gor, waits, seen, procVars, finished, pipesClosed, ctx>>
        /\ (ch' = ch \/ ch' = Append(ch, Ev("error", "dog")))
    BY <1>12 DEF EmitTimeout, Sent, Skipped, waitVars, goVars
  <2>2. Events' = Events \/ Events' = Events \cup {Ev("error", "dog")}
    BY <2>1, EventsKept, EventsAppend DEF Types
  <2>3. Ev("error", "dog") \notin {AgentResult, MadeResult, ReadError}
    BY DEF Ev, AgentResult, MadeResult, ReadError
  <2>4. {AgentResult, MadeResult, ReadError} \cap Events' = {AgentResult, MadeResult, ReadError} \cap Events
    BY <2>2, <2>3
  <2>5. /\ finished => finished'
        /\ pipesClosed' => finished'
    BY <2>1 DEF Made
  <2> QED
    BY <2>1, <2>4, <2>5, MadeKept DEF procVars
<1>13. CASE Drain
  <2>1. \/ OutGoes("stdin", <<>>) /\ waits' = waits
        \/ OutGoes("wait", <<>>) /\ waits' = [waits EXCEPT !["out"] = IF reaped THEN "err" ELSE "entered"]
    BY <1>13 DEF Drain
  <2>2. /\ gor["out"].pc = "drain" /\ gor["out"].ops = <<>> /\ ch' = ch
        /\ UNCHANGED <<seen, procVars, finished, pipesClosed, ctx>>
    BY <1>13 DEF Drain, OutAt, chVars
  <2> QED
    BY <1>1, <2>1, <2>2, MadeGoes
<1>14. CASE OutClosesStdin
  <2> DEFINE ops == IF track.use = "open" /\ (track.held \/ \E l \in seen.stderr : IsSandboxRejection(l))
                    THEN Emit ELSE <<>>
             E == Earned("synth", seen.result, waits["out"])
  <2>1. ops \in Seq(E)
    <3>1. Op("emit", MadeAnswer) \in E /\ Op("mark", NoEv) \in E
      BY DEF EmitOps, Earned, OutOpSet, Op, Ev, NoEv, AgentResult, MadeResult, MadeAnswer
    <3>2. Emit = <<Op("emit", MadeAnswer), Op("mark", NoEv)>>
      BY DEF Emit, MadeAnswer
    <3> HIDE DEF E
    <3> QED
      BY <3>1, <3>2
  <2>2. OutGoes("synth", ops) /\ gor["out"].pc = "stdin" /\ gor["out"].ops = <<>>
        /\ ch' = ch /\ waits' = waits /\ UNCHANGED <<seen, procVars, finished, pipesClosed, ctx>>
    BY <1>14 DEF OutClosesStdin, OutAt, waitVars, chVars
  <2> HIDE DEF ops
  <2> QED
    BY <2>1, <2>2, MadeGoes
<1>15. CASE OutWaits
  <2>1. OutGoes("wait", <<>>) /\ gor["out"].pc = "synth" /\ gor["out"].ops = <<>>
        /\ ch' = ch /\ WaitEnter("out") /\ UNCHANGED <<seen, procVars, finished, pipesClosed, ctx>>
    BY <1>15 DEF OutWaits, OutAt, chVars
  <2>2. waits'["out"] \in {"entered", "err"}
    BY <1>1, <2>1 DEF WaitEnter
  <2> QED
    BY <1>1, <2>1, <2>2, MadeGoes
<1>16. CASE OutReports
  <2> DEFINE ops == Outcome(waits["out"])
             E == Earned("report", seen.result, waits["out"])
  <2>1. OutGoes("report", ops) /\ gor["out"].pc = "wait" /\ ch' = ch /\ waits["out"] \in {"ok", "err"}
        /\ gor["out"].ops = <<>> /\ waits' = waits
        /\ UNCHANGED <<seen, procVars, finished, pipesClosed, ctx>>
    BY <1>16 DEF OutReports, OutAt, waitVars, chVars
  <2>2. ops \in Seq(E)
    <3>1. Op("try", ExitError) \in E
      BY DEF Earned, OutOpSet, Outcomes, ExitError, Op, Ev, AgentResult, MadeResult
    <3>2. waits["out"] = "ok" /\ ~seen.result => Op("try", MadeResult) \in E
      BY DEF Earned, OutOpSet, Outcomes, Op, Ev, AgentResult, MadeResult
    <3> HIDE DEF E
    <3>3. CASE waits["out"] = "err"
      BY <3>1, <3>3 DEF Outcome
    <3>4. CASE waits["out"] = "ok"
      BY <3>2, <3>4 DEF Outcome, MadeResult
    <3> QED
      BY <2>1, <3>3, <3>4
  <2> HIDE DEF ops
  <2> QED
    BY <2>1, <2>2, MadeGoes
<1>17. CASE OutCancels \/ CloseChannel
  <2>1. /\ \E pc \in {"close", "end"} : OutGoes(pc, <<>>)
        /\ gor["out"].pc \in {"report", "return", "close"} /\ ch' = ch /\ waits' = waits
        /\ gor["out"].ops = <<>> /\ (ctx = "cancelled" => ctx' = "cancelled")
        /\ UNCHANGED <<seen, procVars, finished, pipesClosed>>
    BY <1>17 DEF OutCancels, CloseChannel, OutAt, waitVars, chVars
  <2> QED
    BY <1>1, <2>1, MadeGoes
<1> QED
  BY <1>4, <1>5, <1>6, <1>7, <1>8, <1>9, <1>10, <1>11, <1>12, <1>13, <1>14, <1>15, <1>16, <1>17,
     MadeStep, MadeScan DEF Next, Readers

-----------------------------------------------------------------------------
(* A closed channel carries an outcome.                                     *)

(* A mark follows its emission, or the emission is already in the channel. *)
Justified(ops, evs) ==
    \A i \in 1..Len(ops) : ops[i].do = "mark" =>
        \/ i = 1 /\ MadeAnswer \in evs
        \/ i > 1 /\ ops[i - 1] = Op("emit", MadeAnswer)

(* Nothing is lost or skipped while nobody cancels: a rejection is marked   *)
(* once its answer was sent, and a result that was seen is sent or being    *)
(* sent.                                                                    *)
Told ==
    /\ Justified(gor["out"].ops, Events) /\ Justified(gor["err"].ops, Events)
    /\ track.rejected => MadeAnswer \in Events
    /\ seen.result => AgentResult \in Events \/ gor["out"].ops = <<Op("send", AgentResult)>>
    /\ gor["out"].pc \in {"report", "close", "end"} =>
         \/ \E e \in Events : e.type \in {"result", "error"} \/ e = MadeAnswer
         \/ /\ gor["out"].pc = "report"
            /\ \E e \in Outcomes : gor["out"].ops = <<Op("try", e)>>

Calm == ctx # "cancelled" => Told

LEMMA CalmHolds == Orderly /\ Calm => OutcomeReported
<1> SUFFICES ASSUME Orderly, Calm, chClosed, ctx # "cancelled"
             PROVE  \E e \in Events : \/ e.type \in {"result", "error"}
                                      \/ e = Ev("tool_result", "made")
  BY DEF OutcomeReported
<1>1. gor["out"].pc = "end" /\ Told
  BY DEF Orderly, Calm
<1> QED
  BY <1>1 DEF Told, MadeAnswer

LEMMA JustifiedTail ==
    ASSUME NEW S, NEW ops \in Seq(S), ops # <<>>, NEW evs, NEW more, evs \subseteq more,
           Justified(ops, evs), Head(ops) = Op("emit", MadeAnswer) => MadeAnswer \in more
    PROVE  /\ Justified(Tail(ops), more)
           /\ Head(ops) # Op("emit", MadeAnswer) => Justified(Tail(ops), {})
<1> DEFINE t == Tail(ops)
<1>1. Len(t) = Len(ops) - 1 /\ \A i \in 1..Len(t) : t[i] = ops[i + 1]
  OBVIOUS
<1>2. Head(ops) = ops[1] /\ Len(ops) \in Nat
  OBVIOUS
<1> HIDE DEF t
<1>3. ASSUME NEW i \in 1..Len(t), t[i].do = "mark"
      PROVE  /\ (i = 1 /\ MadeAnswer \in more) \/ (i > 1 /\ t[i - 1] = Op("emit", MadeAnswer))
             /\ Head(ops) # Op("emit", MadeAnswer) => i > 1 /\ t[i - 1] = Op("emit", MadeAnswer)
  <2>1. i + 1 \in 1..Len(ops) /\ ops[i + 1].do = "mark"
    BY <1>1, <1>2, <1>3
  <2>2. ops[(i + 1) - 1] = Op("emit", MadeAnswer) /\ (i + 1) - 1 = i
    BY <2>1 DEF Justified
  <2>3. CASE i = 1
    BY <1>2, <2>2, <2>3
  <2>4. CASE i > 1
    <3>1. i - 1 \in 1..Len(t) /\ (i - 1) + 1 = i
      BY <1>1, <1>2, <2>4
    <3>2. t[i - 1] = ops[i]
      BY <1>1, <3>1
    <3> QED
      BY <2>2, <2>4, <3>2
  <2> QED
    BY <2>3, <2>4
<1> QED
  BY <1>3 DEF Justified, t

LEMMA JustifiedConcat ==
    ASSUME NEW S, NEW x \in Seq(S), NEW y \in Seq(S), Justified(x, {}), Justified(y, {})
    PROVE  Justified(x \o y, {})
<1> DEFINE z == x \o y
<1>1. /\ Len(z) = Len(x) + Len(y) /\ Len(x) \in Nat /\ Len(y) \in Nat
      /\ \A i \in 1..Len(z) : z[i] = IF i <= Len(x) THEN x[i] ELSE y[i - Len(x)]
  BY ConcatProperties
<1> HIDE DEF z
<1>2. ASSUME NEW i \in 1..Len(z), z[i].do = "mark" PROVE i > 1 /\ z[i - 1] = Op("emit", MadeAnswer)
  <2>1. CASE i <= Len(x)
    <3>1. i \in 1..Len(x) /\ x[i].do = "mark"
      BY <1>1, <1>2, <2>1
    <3>2. i > 1 /\ x[i - 1] = Op("emit", MadeAnswer)
      BY <3>1 DEF Justified
    <3>3. i - 1 \in 1..Len(z) /\ i - 1 <= Len(x)
      BY <1>1, <3>1, <3>2
    <3> QED
      BY <1>1, <3>2, <3>3
  <2>2. CASE i > Len(x)
    <3> DEFINE k == i - Len(x)
    <3>1. k \in 1..Len(y) /\ y[k].do = "mark"
      BY <1>1, <1>2, <2>2
    <3>2. k > 1 /\ y[k - 1] = Op("emit", MadeAnswer)
      BY <3>1 DEF Justified
    <3>3. i - 1 \in 1..Len(z) /\ ~(i - 1 <= Len(x)) /\ (i - 1) - Len(x) = k - 1 /\ i > 1
      BY <1>1, <3>1, <3>2
    <3> QED
      BY <1>1, <3>2, <3>3
  <2> QED
    BY <1>1, <2>1, <2>2
<1> QED
  BY <1>2 DEF Justified, z

LEMMA JustifiedMore == ASSUME NEW ops, NEW evs, NEW more, evs \subseteq more, Justified(ops, evs) PROVE Justified(ops, more)
BY DEF Justified

LEMMA JustifiedOf ==
    ASSUME NEW ops, \A i \in 1..Len(ops) : ops[i].do # "mark" PROVE Justified(ops, {})
BY DEF Justified

LEMMA JustifiedEmit ==
    /\ Justified(Emit, {}) /\ Justified(<<Op("clear", NoEv), Op("stop", NoEv)>>, {})
    /\ Justified(<<Op("hold", NoEv)>>, {}) /\ Justified(<<>>, {})
<1>1. Justified(Emit, {})
  <2>1. Emit = <<Op("emit", MadeAnswer), Op("mark", NoEv)>> /\ Op("emit", MadeAnswer).do = "emit"
    BY DEF Emit, MadeAnswer, Op
  <2>2. Len(Emit) = 2 /\ Emit[1] = Op("emit", MadeAnswer)
    BY <2>1
  <2>3. \A i \in 1..2 : i = 1 \/ (i > 1 /\ i - 1 = 1)
    OBVIOUS
  <2> QED
    BY <2>1, <2>2, <2>3 DEF Justified
<1>2. Op("clear", NoEv).do # "mark" /\ Op("stop", NoEv).do # "mark" /\ Op("hold", NoEv).do # "mark"
  BY DEF Op
<1>3. Justified(<<Op("clear", NoEv), Op("stop", NoEv)>>, {})
  <2>1. \A i \in 1..Len(<<Op("clear", NoEv), Op("stop", NoEv)>>) :
           <<Op("clear", NoEv), Op("stop", NoEv)>>[i] \in {Op("clear", NoEv), Op("stop", NoEv)}
    OBVIOUS
  <2> QED
    BY <1>2, <2>1, JustifiedOf
<1>4. Justified(<<Op("hold", NoEv)>>, {}) /\ Justified(<<>>, {})
  BY <1>2 DEF Justified
<1> QED
  BY <1>1, <1>3, <1>4

LEMMA EmitOp ==
    ASSUME NEW pc \in OutPcs, NEW op \in OutOpSet(pc) \cup ErrOpSet
    PROVE  /\ op.do = "emit" => op = Op("emit", MadeAnswer)
           /\ op = Op("emit", MadeAnswer) => op.do = "emit" /\ op.ev = MadeAnswer
BY DEF OutPcs, OutOpSet, LineOpSet, TrackOps, EmitOps, ErrOpSet, LineEvents, Outcomes, Op

(* While the context lives an operation is carried out as it stands: what   *)
(* is to be sent is sent, and no goroutine gives up.                        *)
LEMMA LiveStep ==
    ASSUME Types, Orderly, NEW g \in Readers, Step(g), ctx # "cancelled"
    PROVE  ~chClosed /\ ctx = "live"
<1>1. CASE g = "out"
  BY <1>1, StepShape DEF Orderly, Types, TypeOK
<1>2. CASE g = "err"
  BY <1>2, StepShape DEF Orderly, Types, TypeOK
<1> QED
  BY <1>1, <1>2 DEF Readers

LEMMA ToldStep ==
    ASSUME Types, Orderly, Told, NEW g \in Readers, Step(g), ctx # "cancelled"
    PROVE  Told'
<1> DEFINE op == Head(gor[g].ops)
           rest == Tail(gor[g].ops)
           S == OutOpSet(gor["out"].pc) \cup ErrOpSet \cup LineOpSet
<1>1. gor[g].ops # <<>> /\ (DoSend(g, op, rest) \/ DoTrack(g, op, rest) \/ DoStop(g, op, rest))
  BY DEF Step
<1>2. /\ IsGor /\ stops \in [Stoppers -> {"idle", "called", "signal", "grace", "done"}]
      /\ ch \in Seq(Event) /\ gor["out"].pc \in OutPcs /\ seen' = seen
      /\ track \in [use : {"none", "open", "answered"}, rejected : BOOLEAN, held : BOOLEAN]
  BY DEF Types, TypeOK, OutPcs, Step
<1>3. ~chClosed /\ ctx = "live"
  BY LiveStep
<1>4. gor[g].ops \in Seq(S) /\ op \in OutOpSet(gor["out"].pc) \cup ErrOpSet
  <2>1. CASE g = "out"
    BY <1>1, <2>1, HeadTailProperties DEF Types, OpsTyped
  <2>2. CASE g = "err"
    <3>1. gor["err"].pc = "scan"
      BY <2>2, StepShape
    <3>2. gor["err"].ops \in Seq(ErrOpSet)
      BY <3>1 DEF Types, OpsTyped
    <3> QED
      BY <1>1, <2>2, <3>2, HeadTailProperties
  <2> QED
    BY <2>1, <2>2 DEF Readers
<1> HIDE DEF S
<1>5. rest \in Seq(S) /\ Justified(gor[g].ops, Events) /\ op = gor[g].ops[1] /\ 1 \in 1..Len(gor[g].ops)
  BY <1>1, <1>4, HeadTailProperties DEF Told, Readers
<1>6. /\ op.do = "emit" => op = Op("emit", MadeAnswer)
      /\ op = Op("emit", MadeAnswer) => op.do = "emit" /\ op.ev = MadeAnswer
  BY <1>2, <1>4, EmitOp
<1>7. op.do # "emit" => Justified(rest, {})
  BY <1>1, <1>4, <1>5, <1>6, JustifiedTail
<1>8. op.do = "mark" => MadeAnswer \in Events
  BY <1>5 DEF Justified
<1>9. \E ops : /\ SetOps(g, ops) /\ Justified(ops, Events')
               /\ Events \subseteq Events' /\ (op.do \in {"send", "try"} => op.ev \in Events')
               /\ track'.rejected => MadeAnswer \in Events'
  <2>1. CASE DoSend(g, op, rest)
    <3>1. ch' = Append(ch, op.ev) /\ SetOps(g, rest) /\ track' = track
      BY <1>3, <2>1, SendEffect
    <3>2. Events' = Events \cup {op.ev}
      BY <1>2, <3>1, EventsAppend
    <3>3. Justified(rest, Events')
      BY <1>1, <1>4, <1>5, <1>6, <3>2, JustifiedTail
    <3>4. track'.rejected => MadeAnswer \in Events'
      BY <3>1, <3>2 DEF Told
    <3> QED
      BY <3>1, <3>2, <3>3, <3>4
  <2>2. CASE DoTrack(g, op, rest)
    <3>1. /\ op.do \in {"use", "flush", "reject", "hold", "mark", "clear", "answer"} /\ Events' = Events
          /\ track'.rejected = (track.rejected \/ op.do = "mark")
      BY <1>2, <2>2, TrackEffect, EventsKept
    <3>2. track'.rejected => MadeAnswer \in Events'
      BY <1>8, <3>1 DEF Told
    <3>3. Justified(rest, {})
      BY <1>7, <3>1
    <3>4. \E ops : SetOps(g, ops) /\ Justified(ops, {})
      <4>1. CASE SetOps(g, rest)
        BY <3>3, <4>1
      <4>2. CASE op.do = "flush" /\ SetOps(g, (Emit \o <<Op("clear", NoEv), Op("stop", NoEv)>>) \o rest)
        <5> DEFINE T == S \cup LineOpSet
                   more == <<Op("clear", NoEv), Op("stop", NoEv)>>
        <5>1. Op("clear", NoEv) \in LineOpSet /\ Op("stop", NoEv) \in LineOpSet
          BY DEF LineOpSet, TrackOps
        <5>2. Emit \in Seq(T) /\ rest \in Seq(T)
          BY <1>5, EmitTyped
        <5>3. Op("clear", NoEv) \in T /\ Op("stop", NoEv) \in T
          BY <5>1
        <5> HIDE DEF T
        <5>4. more \in Seq(T)
          BY <5>3
        <5>5. Justified(more, {}) /\ Justified(Emit, {})
          BY JustifiedEmit
        <5> HIDE DEF more
        <5>6. Emit \o more \in Seq(T) /\ Justified(Emit \o more, {})
          BY <5>2, <5>4, <5>5, JustifiedConcat, ConcatProperties
        <5>7. Justified((Emit \o more) \o rest, {})
          BY <3>3, <5>2, <5>6, JustifiedConcat
        <5> QED
          BY <4>2, <5>7 DEF more
      <4>3. CASE op.do = "reject" /\ SetOps(g, Emit \o rest)
        <5> DEFINE T == S \cup LineOpSet
        <5>1. Emit \in Seq(T) /\ rest \in Seq(T)
          BY <1>5, EmitTyped
        <5> HIDE DEF T
        <5>2. Justified(Emit \o rest, {})
          BY <3>3, <5>1, JustifiedConcat, JustifiedEmit
        <5> QED
          BY <4>3, <5>2
      <4>4. Unstopped(rest) \in Seq(S) /\ Justified(Unstopped(rest), {})
        <5>1. CASE rest # <<>> /\ Head(rest).do = "stop"
          <6>1. Head(rest) # Op("emit", MadeAnswer)
            BY <5>1 DEF Op
          <6>2. Justified(Tail(rest), {})
            BY <1>5, <3>3, <5>1, <6>1, JustifiedTail
          <6> QED
            BY <1>5, <5>1, <6>2 DEF Unstopped
        <5>2. CASE ~(rest # <<>> /\ Head(rest).do = "stop")
          BY <1>5, <3>3, <5>2 DEF Unstopped
        <5> QED
          BY <5>1, <5>2
      <4>5. CASE op.do = "reject" /\ SetOps(g, Unstopped(rest))
        BY <4>4, <4>5
      <4>6. CASE op.do = "reject" /\ SetOps(g, <<Op("hold", NoEv)>> \o Unstopped(rest))
        <5> DEFINE T == S \cup LineOpSet
                   u == Unstopped(rest)
        <5>1. u \in Seq(T) /\ Op("hold", NoEv) \in T
          BY <4>4 DEF LineOpSet, TrackOps
        <5> HIDE DEF T, u
        <5>2. <<Op("hold", NoEv)>> \in Seq(T)
          BY <5>1
        <5>3. Justified(u, {})
          BY <4>4 DEF u
        <5>4. Justified(<<Op("hold", NoEv)>> \o u, {})
          BY <5>1, <5>2, <5>3, JustifiedConcat, JustifiedEmit
        <5> QED
          BY <4>6, <5>4 DEF u
      <4>7. CASE op.do = "answer" /\ track.rejected /\ SetOps(g, <<>>)
        BY <4>7, JustifiedEmit
      <4> QED
        BY <2>2, <4>1, <4>2, <4>3, <4>5, <4>6, <4>7, TrackEffect
    <3>5. PICK ops : SetOps(g, ops) /\ Justified(ops, {})
      BY <3>4
    <3>6. Justified(ops, Events')
      BY <3>5, JustifiedMore
    <3> QED
      BY <3>1, <3>2, <3>5, <3>6
  <2>3. CASE DoStop(g, op, rest)
    <3>1. op.do = "stop" /\ SetOps(g, rest) /\ track' = track /\ Events' = Events
      BY <1>2, <2>3, StopEffect, EventsKept
    <3>2. Justified(rest, Events')
      BY <1>7, <3>1, JustifiedMore
    <3> QED
      BY <3>1, <3>2 DEF Told
  <2> QED
    BY <1>1, <2>1, <2>2, <2>3
<1>10. PICK ops : /\ SetOps(g, ops) /\ Justified(ops, Events')
                  /\ Events \subseteq Events' /\ (op.do \in {"send", "try"} => op.ev \in Events')
                  /\ track'.rejected => MadeAnswer \in Events'
  BY <1>9
<1>11. gor'[g].ops = ops /\ gor'[g].pc = gor[g].pc /\ \A h \in Readers \ {g} : gor'[h] = gor[h]
  BY <1>2, <1>10, SetEffect
<1>12. gor'["out"].pc = gor["out"].pc /\ (g # "out" => gor'["out"] = gor["out"])
  BY <1>11 DEF Readers
<1>13. Justified(gor'["out"].ops, Events') /\ Justified(gor'["err"].ops, Events')
  <2>1. \A h \in Readers \ {g} : Justified(gor'[h].ops, Events')
    BY <1>10, <1>11, JustifiedMore DEF Told, Readers
  <2> QED
    BY <1>10, <1>11, <2>1 DEF Readers
<1>14. seen'.result => AgentResult \in Events' \/ gor'["out"].ops = <<Op("send", AgentResult)>>
  <2> SUFFICES ASSUME seen.result, AgentResult \notin Events'
               PROVE  gor'["out"].ops = <<Op("send", AgentResult)>>
    BY <1>2
  <2>1. gor["out"].ops = <<Op("send", AgentResult)>>
    BY <1>10 DEF Told
  <2>2. g # "out"
    <3> SUFFICES ASSUME g = "out" PROVE FALSE
      OBVIOUS
    <3>1. op = Op("send", AgentResult)
      BY <2>1
    <3> QED
      BY <1>10, <3>1 DEF Op
  <2> QED
    BY <1>12, <2>1, <2>2
<1>15. ASSUME gor'["out"].pc \in {"report", "close", "end"}
       PROVE  \/ \E e \in Events' : e.type \in {"result", "error"} \/ e = MadeAnswer
              \/ /\ gor'["out"].pc = "report"
                 /\ \E e \in Outcomes : gor'["out"].ops = <<Op("try", e)>>
  <2>1. CASE \E e \in Events : e.type \in {"result", "error"} \/ e = MadeAnswer
    BY <1>10, <2>1
  <2>2. CASE gor["out"].pc = "report" /\ \E e \in Outcomes : gor["out"].ops = <<Op("try", e)>>
    <3>1. CASE g # "out"
      BY <1>12, <2>2, <3>1
    <3>2. CASE g = "out"
      <4>1. PICK e \in Outcomes : gor["out"].ops = <<Op("try", e)>>
        BY <2>2
      <4>2. op = Op("try", e)
        BY <3>2, <4>1
      <4>3. e \in Events' /\ e.type \in {"result", "error"}
        BY <1>10, <4>2 DEF Op, Outcomes, Ev, MadeResult
      <4> QED
        BY <4>3
    <3> QED
      BY <3>1, <3>2
  <2> QED
    BY <1>12, <1>15, <2>1, <2>2 DEF Told
<1> QED
  BY <1>10, <1>13, <1>14, <1>15 DEF Told

LEMMA CalmInit == Init => Calm
<1> SUFFICES ASSUME Init PROVE Told
  BY DEF Calm
<1>1. gor["out"].ops = <<>> /\ gor["err"].ops = <<>> /\ gor["out"].pc = "scan" /\ ~track.rejected /\ ~seen.result
  BY DEF Init, Readers
<1>2. Justified(<<>>, Events)
  BY JustifiedEmit, JustifiedMore
<1> QED
  BY <1>1, <1>2 DEF Told

(* A step of others: events may be added, nothing else Told speaks of.      *)
LEMMA CalmKept ==
    ASSUME Calm, gor' = gor, track' = track, seen' = seen, Events \subseteq Events',
           ctx' # "cancelled" => ctx # "cancelled"
    PROVE  Calm'
<1> SUFFICES ASSUME ctx' # "cancelled" PROVE Told'
  BY DEF Calm
<1>1. Told
  BY DEF Calm
<1>2. Justified(gor'["out"].ops, Events') /\ Justified(gor'["err"].ops, Events')
  BY <1>1, JustifiedMore DEF Told
<1> QED
  BY <1>1, <1>2 DEF Told

(* The reader of stdout goes on. *)
LEMMA CalmGoes ==
    ASSUME Calm, NEW ops, NEW pc, gor'["out"].pc = pc, gor'["out"].ops = ops, gor'["err"] = gor["err"],
           ch' = ch, track' = track, ctx' # "cancelled" => ctx # "cancelled",
           Justified(ops, {}),
           Told => (seen'.result => AgentResult \in Events \/ ops = <<Op("send", AgentResult)>>),
           Told => (pc \in {"report", "close", "end"} =>
                      \/ \E e \in Events : e.type \in {"result", "error"} \/ e = MadeAnswer
                      \/ pc = "report" /\ \E e \in Outcomes : ops = <<Op("try", e)>>)
    PROVE  Calm'
<1> SUFFICES ASSUME ctx' # "cancelled" PROVE Told'
  BY DEF Calm
<1>1. Told
  BY DEF Calm
<1>2. Events' = Events
  BY EventsKept
<1>3. Justified(gor'["out"].ops, Events') /\ Justified(gor'["err"].ops, Events')
  <2>1. Justified(ops, Events)
    BY JustifiedMore
  <2> QED
    BY <1>1, <1>2, <2>1 DEF Told
<1> QED
  BY <1>1, <1>2, <1>3 DEF Told

LEMMA CalmScan ==
    ASSUME Types, Calm, ScanOut \/ ScanEnds \/ ScanErr \/ ErrEnds
    PROVE  Calm'
<1>0. IsGor /\ "out" \in Readers /\ "err" \in Readers \ {"out"} /\ "out" \in Readers \ {"err"}
      /\ seen = [result |-> seen.result, error |-> seen.error, stderr |-> seen.stderr]
  BY DEF Types, Readers
<1>1. CASE ScanOut
  <2> DEFINE l == Head(pipe["out"])
             ops == LineOps(l)
  <2>1. Justified(ops, {})
    <3> HIDE DEF l
    <3>1. ops \in Seq(OpsOf(l))
      BY LineTyped
    <3> HIDE DEF ops
    <3>2. \A i \in 1..Len(ops) : ops[i] \in OpsOf(l)
      BY <3>1
    <3>3. \A i \in 1..Len(ops) : ops[i].do # "mark"
      BY <3>2 DEF OpsOf
    <3> QED
      BY <3>3, JustifiedOf
  <2>2. l = "turnDone" => ops = <<Op("send", AgentResult)>>
    BY DoneOps
  <2>3. /\ gor["out"] = [pc |-> "scan", ops |-> <<>>] /\ SetOps("out", ops)
        /\ seen' = [seen EXCEPT !.result = @ \/ l = "turnDone",
                                !.error = IF Codex /\ l \in {"fails", "failsFatal"} THEN l ELSE @]
        /\ ch' = ch /\ track' = track /\ ctx' = ctx
    BY <1>1 DEF ScanOut, SetOps, chVars
  <2> HIDE DEF ops, l
  <2>4. gor'["out"].pc = "scan" /\ gor'["out"].ops = ops /\ gor'["err"] = gor["err"]
    BY <1>0, <2>3, SetEffect
  <2>5. seen'.result = (seen.result \/ l = "turnDone")
    BY <1>0, <2>3
  <2>6. Told => (seen'.result => AgentResult \in Events \/ ops = <<Op("send", AgentResult)>>)
    <3> SUFFICES ASSUME Told, seen.result PROVE AgentResult \in Events
      BY <2>2, <2>5
    <3>1. gor["out"].ops # <<Op("send", AgentResult)>>
      BY <2>3
    <3> QED
      BY <3>1 DEF Told
  <2>7. ctx' # "cancelled" => ctx # "cancelled"
    BY <2>3
  <2>8. ch' = ch /\ track' = track
    BY <2>3
  <2>9. Told => ("scan" \in {"report", "close", "end"} =>
                   \/ \E e \in Events : e.type \in {"result", "error"} \/ e = MadeAnswer
                   \/ "scan" = "report" /\ \E e \in Outcomes : ops = <<Op("try", e)>>)
    OBVIOUS
  <2> QED
    BY <2>1, <2>4, <2>6, <2>7, <2>8, <2>9, CalmGoes
<1>2. CASE ScanEnds
  <2> DEFINE ops == IF pipesClosed \/ TooLong("out") THEN <<Op("try", Ev("error", "read"))>> ELSE <<>>
  <2>1. Justified(ops, {})
    <3>1. Op("try", Ev("error", "read")).do # "mark"
      BY DEF Op
    <3>2. \A i \in 1..Len(ops) : ops[i].do # "mark"
      BY <3>1
    <3> QED
      BY <3>2, JustifiedOf
  <2>2. /\ gor["out"] = [pc |-> "scan", ops |-> <<>>] /\ OutGoes("drain", ops)
        /\ seen' = seen /\ ch' = ch /\ track' = track /\ ctx' = ctx
    BY <1>2 DEF ScanEnds, OutGoes, chVars
  <2> HIDE DEF ops
  <2>3. gor'["out"].pc = "drain" /\ gor'["out"].ops = ops /\ gor'["err"] = gor["err"]
    BY <1>0, <2>2, GoesEffect
  <2>4. Told => (seen'.result => AgentResult \in Events \/ ops = <<Op("send", AgentResult)>>)
    BY <2>2 DEF Told
  <2> QED
    BY <2>1, <2>2, <2>3, <2>4, CalmGoes
<1>3. ASSUME NEW ops, gor'["out"] = gor["out"], gor'["err"].ops = ops, Justified(ops, {}),
             ch' = ch, track' = track, ctx' = ctx, seen'.result = seen.result
      PROVE  Calm'
  <2> SUFFICES ASSUME ctx # "cancelled" PROVE Told'
    BY <1>3 DEF Calm
  <2>1. Told /\ Events' = Events
    BY <1>3, EventsKept DEF Calm
  <2>2. Justified(ops, Events)
    BY <1>3, JustifiedMore
  <2> QED
    BY <1>3, <2>1, <2>2 DEF Told
<1>4. CASE ScanErr
  <2> DEFINE l == Head(pipe["err"])
             reject == IF IsSandboxRejection(l) THEN <<Op("reject", NoEv), Op("stop", NoEv)>> ELSE <<>>
             wait == DetectStdinWait(l)
             ops == IF ~Codex THEN <<>> ELSE wait \o reject
             S == ErrOpSet \ {Op("mark", NoEv)}
  <2>1. ops \in Seq(S)
    <3>1. /\ Op("send", Ev("user_input", "stderr")) \in S
          /\ Op("reject", NoEv) \in S /\ Op("stop", NoEv) \in S
      BY DEF ErrOpSet, TrackOps, Op
    <3> HIDE DEF S
    <3>2. wait \in Seq(S)
      BY <3>1 DEF DetectStdinWait
    <3>3. reject \in Seq(S)
      BY <3>1
    <3> HIDE DEF reject, wait
    <3>4. wait \o reject \in Seq(S)
      BY <3>2, <3>3, ConcatProperties
    <3> QED
      BY <3>4
  <2>2. \A o \in S : o.do # "mark"
    BY DEF ErrOpSet, TrackOps, EmitOps, Op
  <2>3. /\ SetOps("err", ops)
        /\ seen' = [seen EXCEPT !.stderr = @ \cup {l}]
        /\ ch' = ch /\ track' = track /\ ctx' = ctx
    BY <1>4 DEF ScanErr, SetOps, chVars
  <2> HIDE DEF ops, l, reject, wait, S
  <2>4. Justified(ops, {})
    <3>1. \A i \in 1..Len(ops) : ops[i] \in S
      BY <2>1
    <3> QED
      BY <2>2, <3>1, JustifiedOf
  <2>5. gor'["err"].ops = ops /\ gor'["out"] = gor["out"]
    BY <1>0, <2>3, SetEffect
  <2>6. seen'.result = seen.result
    BY <1>0, <2>3
  <2> QED
    BY <1>3, <2>3, <2>4, <2>5, <2>6
<1>5. CASE ErrEnds
  <2>1. /\ gor["err"] = [pc |-> "scan", ops |-> <<>>] /\ gor' = [gor EXCEPT !["err"].pc = "end"]
        /\ ch' = ch /\ track' = track /\ ctx' = ctx /\ seen' = seen
    BY <1>5 DEF ErrEnds, chVars
  <2>2. gor'["err"].ops = <<>> /\ gor'["out"] = gor["out"]
    BY <1>0, <2>1, EndEffect
  <2> QED
    BY <1>3, <2>1, <2>2, JustifiedEmit
<1> QED
  BY <1>1, <1>2, <1>4, <1>5

LEMMA CalmEnd ==
    ASSUME Types, Orderly, Calm, Drain \/ OutClosesStdin \/ OutWaits \/ OutReports \/ OutCancels \/ CloseChannel
    PROVE  Calm'
<1>0. IsGor /\ ctx \in {"live", "ended", "cancelled"} /\ Justified(<<>>, {})
  BY JustifiedEmit DEF Types, TypeOK
<1>1. ASSUME NEW pc, NEW ops, OutGoes(pc, ops), gor["out"].ops = <<>>, Justified(ops, {}),
             ch' = ch, track' = track, seen' = seen, ctx' # "cancelled" => ctx # "cancelled",
             Told => (pc \in {"report", "close", "end"} =>
                      \/ \E e \in Events : e.type \in {"result", "error"} \/ e = MadeAnswer
                      \/ pc = "report" /\ \E e \in Outcomes : ops = <<Op("try", e)>>)
      PROVE  Calm'
  <2>1. gor'["out"].pc = pc /\ gor'["out"].ops = ops /\ gor'["err"] = gor["err"]
    BY <1>0, <1>1, GoesEffect
  <2>2. Told => (seen'.result => AgentResult \in Events \/ ops = <<Op("send", AgentResult)>>)
    BY <1>1 DEF Told
  <2> QED
    BY <1>1, <2>1, <2>2, CalmGoes
<1>2. CASE Drain
  <2>1. /\ \E pc \in {"stdin", "wait"} : OutGoes(pc, <<>>)
        /\ gor["out"].ops = <<>> /\ ch' = ch /\ track' = track /\ seen' = seen /\ ctx' = ctx
    BY <1>2 DEF Drain, OutAt, chVars
  <2> QED
    BY <1>0, <1>1, <2>1
<1>3. CASE OutClosesStdin
  <2> DEFINE ops == IF track.use = "open" /\ (track.held \/ \E l \in seen.stderr : IsSandboxRejection(l))
                    THEN Emit ELSE <<>>
  <2>1. /\ OutGoes("synth", ops)
        /\ gor["out"].ops = <<>> /\ ch' = ch /\ track' = track /\ seen' = seen /\ ctx' = ctx
    BY <1>3 DEF OutClosesStdin, OutAt, chVars
  <2>2. Justified(ops, {})
    BY JustifiedEmit
  <2> HIDE DEF ops
  <2> QED
    BY <1>1, <2>1, <2>2
<1>4. CASE OutWaits
  <2>1. /\ OutGoes("wait", <<>>)
        /\ gor["out"].ops = <<>> /\ ch' = ch /\ track' = track /\ seen' = seen /\ ctx' = ctx
    BY <1>4 DEF OutWaits, OutAt, chVars
  <2> QED
    BY <1>0, <1>1, <2>1
<1>5. CASE OutReports
  <2> DEFINE ops == Outcome(waits["out"])
  <2>1. /\ OutGoes("report", ops) /\ waits["out"] \in {"ok", "err"}
        /\ gor["out"].ops = <<>> /\ ch' = ch /\ track' = track /\ seen' = seen /\ ctx' = ctx
    BY <1>5 DEF OutReports, OutAt, chVars
  <2>2. ops = <<>> \/ \E e \in Outcomes : ops = <<Op("try", e)>>
    <3>1. ExitError \in Outcomes /\ Ev("result", "made") \in Outcomes
      BY DEF ExitError, Outcomes, MadeResult
    <3> QED
      BY <3>1 DEF Outcome
  <2>3. Justified(ops, {})
    <3>1. ASSUME NEW e, ops = <<Op("try", e)>> PROVE Justified(ops, {})
      <4>1. Op("try", e).do # "mark"
        BY DEF Op
      <4> HIDE DEF ops
      <4>2. \A i \in 1..Len(ops) : ops[i] = Op("try", e)
        BY <3>1
      <4> QED
        BY <4>1, <4>2, JustifiedOf
    <3> HIDE DEF ops
    <3> QED
      BY <1>0, <2>2, <3>1
  <2>4. ASSUME Told, ops = <<>> PROVE \E e \in Events : e.type \in {"result", "error"} \/ e = MadeAnswer
    <3>1. track.rejected \/ seen.result
      BY <2>1, <2>4 DEF Outcome
    <3>2. MadeAnswer \in Events \/ AgentResult \in Events
      BY <2>1, <2>4, <3>1 DEF Told
    <3>3. AgentResult.type = "result"
      BY DEF AgentResult, Ev
    <3> QED
      BY <3>2, <3>3
  <2> HIDE DEF ops
  <2> QED
    BY <1>1, <2>1, <2>2, <2>3, <2>4
<1>6. CASE OutCancels
  <2>1. /\ OutGoes("close", <<>>) /\ gor["out"].pc \in {"report", "return"}
        /\ gor["out"].ops = <<>> /\ ch' = ch /\ track' = track /\ seen' = seen
        /\ ctx' = IF ctx = "live" THEN "ended" ELSE ctx
    BY <1>6 DEF OutCancels, OutAt, chVars
  <2>2. CASE gor["out"].pc = "return"
    <3>1. ctx' = "cancelled"
      BY <2>1, <2>2 DEF Orderly
    <3> QED
      BY <3>1 DEF Calm
  <2>3. CASE gor["out"].pc = "report"
    <3>1. Told => \E e \in Events : e.type \in {"result", "error"} \/ e = MadeAnswer
      BY <2>1, <2>3 DEF Told
    <3>2. ctx' # "cancelled" => ctx # "cancelled"
      BY <2>1
    <3> QED
      BY <1>0, <1>1, <2>1, <3>1, <3>2
  <2> QED
    BY <2>1, <2>2, <2>3
<1>7. CASE CloseChannel
  <2>1. /\ OutGoes("end", <<>>) /\ gor["out"].pc = "close"
        /\ gor["out"].ops = <<>> /\ ch' = ch /\ track' = track /\ seen' = seen /\ ctx' = ctx
    BY <1>7 DEF CloseChannel, OutAt
  <2>2. Told => \E e \in Events : e.type \in {"result", "error"} \/ e = MadeAnswer
    BY <2>1 DEF Told
  <2> QED
    BY <1>0, <1>1, <2>1, <2>2
<1> QED
  BY <1>2, <1>3, <1>4, <1>5, <1>6, <1>7

LEMMA CalmNext == Types /\ Orderly /\ Calm /\ [Next]_vars => Calm'
<1> SUFFICES ASSUME Types, Orderly, Calm, [Next]_vars PROVE Calm'
  OBVIOUS
<1>1. CASE UNCHANGED <<gor, track, seen, ch>> /\ (ctx' # "cancelled" => ctx # "cancelled")
  BY <1>1, EventsKept, CalmKept
<1>2. CASE \/ \E l \in cfg.outLines : WriteLine("out", l)
           \/ \E l \in cfg.errLines : WriteLine("err", l)
           \/ ProcExit \/ Killed \/ CancelTurn
           \/ \E w \in Waiters : WaitReap(w) \/ WaitFinish(w)
           \/ DogFires \/ DogLeaves \/ CallStop
           \/ \E s \in Stoppers : StopClosesStdin(s) \/ StopSignals(s) \/ StopKills(s) \/ StopReturned(s)
           \/ Respond \/ Copied \/ UNCHANGED vars
  BY <1>1, <1>2 DEF WriteLine, ProcExit, Killed, CancelTurn, WaitReap, WaitFinish, DogFires, DogLeaves,
     CallStop, StopClosesStdin, StopSignals, StopKills, StopReturned, Respond, Copied, vars, goVars, chVars
<1>3. CASE EmitTimeout
  <2>1. UNCHANGED <<gor, track, seen, ctx>> /\ (ch' = ch \/ ch' = Append(ch, Ev("error", "dog")))
    BY <1>3 DEF EmitTimeout, Sent, Skipped, goVars
  <2>2. Events \subseteq Events'
    BY <2>1, EventsKept, EventsAppend DEF Types
  <2> QED
    BY <2>1, <2>2, CalmKept
<1>4. ASSUME NEW g \in Readers, Step(g) PROVE Calm'
  <2>1. ctx' = ctx
    BY <1>4 DEF Step
  <2> QED
    BY <1>4, <2>1, ToldStep DEF Calm
<1> QED
  BY <1>2, <1>3, <1>4, CalmScan, CalmEnd DEF Next
-----------------------------------------------------------------------------
(* The timeout of the watchdog is in the channel.                           *)

Timeout == Ev("error", "dog")

(* A timeout that was not sent was not needed: the process was gone before  *)
(* the watchdog could signal it, or somebody else signalled it.             *)
Timed ==
    /\ "dog" \in proc.signals => stops["dog"] \in {"grace", "done"}
    /\ stops["dog"] # "idle" => dog = "stop"
    /\ \A s \in Stoppers : stops[s] \in {"grace", "done"} => s \in proc.signals \/ proc.state # "running"
    /\ ~cfg.cancels /\ ctx = "cancelled" => proc.state # "running" \/ proc.signals # {}
    /\ ctx = "ended" => proc.state # "running"
    /\ ~cfg.cancels /\ dog = "stop" /\ Timeout \notin Events =>
         \/ proc.state # "running" /\ "dog" \notin proc.signals
         \/ \E s \in proc.signals : s # "dog"

LEMMA TimedHolds == Timed => TimeoutReported
<1> SUFFICES ASSUME Timed, proc.signals = {"dog"}, ~cfg.cancels, Timeout \notin Events PROVE FALSE
  BY DEF TimeoutReported, Timeout
<1>1. dog = "stop"
  BY DEF Timed
<1> QED
  BY <1>1 DEF Timed

LEMMA TimedInit == Init => Timed
BY DEF Init, Timed, Stoppers

(* A step that signals nobody and calls at most a Stop that is not the      *)
(* watchdog's.                                                              *)
LEMMA TimedKept ==
    ASSUME Timed, cfg' = cfg, dog' = dog, proc'.signals = proc.signals,
           proc.state # "running" => proc'.state # "running",
           stops'["dog"] \in {"grace", "done"} <=> stops["dog"] \in {"grace", "done"},
           stops'["dog"] # "idle" => stops["dog"] # "idle",
           \A s \in Stoppers : stops'[s] \in {"grace", "done"} => stops[s] \in {"grace", "done"},
           ctx' = ctx, Events \subseteq Events'
    PROVE  Timed'
BY DEF Timed

LEMMA TimedNext == Types /\ Orderly /\ Buried /\ Made /\ Timed /\ [Next]_vars => Timed'
<1> SUFFICES ASSUME Types, Orderly, Buried, Made, Timed, [Next]_vars PROVE Timed'
  OBVIOUS
<1>1. /\ stops \in [Stoppers -> {"idle", "called", "signal", "grace", "done"}]
      /\ proc \in [state : {"running", "ok", "failed"}, signals : SUBSET Stoppers, out : Nat, err : Nat]
      /\ ctx \in {"live", "ended", "cancelled"} /\ dog \in {"watch", "emit", "stop", "end"}
      /\ Stoppers = {"close", "dog", "sandbox"}
  BY DEF Types, TypeOK, Stoppers
<1>2. CASE /\ UNCHANGED <<cfg, dog, stops, ctx, ch>> /\ proc'.signals = proc.signals
           /\ proc.state # "running" => proc'.state # "running"
  BY <1>2, EventsKept, TimedKept
<1>3. CASE \/ ScanOut \/ ScanEnds \/ ScanErr \/ ErrEnds \/ Drain \/ OutClosesStdin \/ OutWaits \/ OutReports
           \/ CloseChannel \/ \E w \in Waiters : WaitReap(w) \/ WaitFinish(w)
           \/ Respond \/ Copied \/ UNCHANGED vars
  <2>1. UNCHANGED <<cfg, proc, dog, stops, ctx, ch>>
    BY <1>3 DEF ScanOut, ScanEnds, ScanErr, ErrEnds, Drain, OutClosesStdin, OutWaits, OutReports,
       CloseChannel, WaitReap, WaitFinish, Respond, Copied, vars, procVars, stopVars, chVars
  <2> QED
    BY <1>2, <2>1
<1>4. ASSUME NEW g, NEW l, g \in Readers, WriteLine(g, l) PROVE Timed'
  <2>1. proc' = [proc EXCEPT ![g] = @ + 1] /\ proc.state = "running" /\ UNCHANGED <<cfg, dog, stops, ctx, ch>>
    BY <1>4 DEF WriteLine, stopVars, chVars
  <2>2. proc'.signals = proc.signals
    BY <1>1, <1>4, <2>1 DEF Readers
  <2> QED
    BY <1>2, <2>1, <2>2
<1>5. CASE ProcExit \/ Killed
  <2>1. /\ \E s \in {"ok", "failed"} : proc' = [proc EXCEPT !.state = s]
        /\ proc.state = "running" /\ UNCHANGED <<cfg, dog, stops, ctx, ch>>
    BY <1>5 DEF ProcExit, Killed, stopVars, chVars
  <2>2. proc'.signals = proc.signals
    BY <1>1, <2>1
  <2> QED
    BY <1>2, <2>1, <2>2
<1>6. CASE CancelTurn
  <2>1. cfg.cancels /\ UNCHANGED <<cfg, proc, dog, stops>> /\ ctx' = "cancelled" /\ Events' = Events
    BY <1>6, EventsKept DEF CancelTurn, procVars, stopVars, chVars
  <2> QED
    BY <2>1 DEF Timed
<1>7. ASSUME NEW g \in Readers, Step(g) PROVE Timed'
  <2> DEFINE op == Head(gor[g].ops)
             rest == Tail(gor[g].ops)
  <2>1. /\ UNCHANGED <<cfg, proc, dog, ctx>>
        /\ DoSend(g, op, rest) \/ DoTrack(g, op, rest) \/ DoStop(g, op, rest)
    BY <1>7 DEF Step, procVars
  <2>2. Events \subseteq Events'
    BY <1>7, StepEvents
  <2> HIDE DEF op, rest
  <2>3. stops' = stops \/ (stops["sandbox"] = "idle" /\ stops' = [stops EXCEPT !["sandbox"] = "called"])
    BY <1>1, <2>1, SendEffect, TrackEffect, StopEffect
  <2>4. /\ stops'["dog"] = stops["dog"]
        /\ \A s \in Stoppers : stops'[s] \in {"grace", "done"} => stops[s] \in {"grace", "done"}
    BY <1>1, <2>3
  <2> QED
    BY <2>1, <2>2, <2>4, TimedKept
<1>8. CASE OutCancels
  <2>1. /\ gor["out"].pc \in {"report", "return"} /\ UNCHANGED <<cfg, proc, dog, stops, ch>>
        /\ ctx' = IF ctx = "live" THEN "ended" ELSE ctx
    BY <1>8 DEF OutCancels, OutAt, procVars, stopVars, chVars
  <2>2. ctx = "live" => proc.state # "running"
    <3> SUFFICES ASSUME ctx = "live" PROVE proc.state # "running"
      OBVIOUS
    <3>1. gor["out"].pc = "report"
      BY <2>1 DEF Orderly
    <3>2. waits["out"] \in {"ok", "err"} /\ "out" \in Waiters
      BY <3>1 DEF Made, Waiters
    <3> QED
      BY <3>2 DEF Buried
  <2>3. Events' = Events
    BY <2>1, EventsKept
  <2>4. (ctx' = "cancelled" => ctx = "cancelled") /\ (ctx' = "ended" => proc.state # "running")
    BY <2>1, <2>2 DEF Timed
  <2> QED
    BY <2>1, <2>3, <2>4 DEF Timed
<1>9. CASE DogFires \/ DogLeaves
  <2>1. UNCHANGED <<cfg, proc, stops, ctx, ch>> /\ dog = "watch" /\ dog' \in {"emit", "end"}
    BY <1>9 DEF DogFires, DogLeaves, procVars, chVars
  <2>2. Events' = Events /\ stops["dog"] = "idle"
    BY <2>1, EventsKept DEF Timed
  <2> QED
    BY <2>1, <2>2 DEF Timed
<1>10. CASE EmitTimeout
  <2>1. /\ UNCHANGED <<cfg, proc, ctx>> /\ dog = "emit" /\ dog' = "stop"
        /\ stops' = [stops EXCEPT !["dog"] = "called"]
        /\ ch' = Append(ch, Timeout) \/ (ctx # "live" /\ ch' = ch)
    BY <1>10 DEF EmitTimeout, Sent, Skipped, procVars, Timeout
  <2>2. stops["dog"] = "idle" /\ "dog" \notin proc.signals
    BY <1>1, <2>1 DEF Timed
  <2>3. Timeout \in Events' \/ (ctx # "live" /\ Events' = Events)
    BY <2>1, EventsKept, EventsAppend DEF Types
  <2>4. /\ stops'["dog"] = "called"
        /\ \A s \in Stoppers : stops'[s] \in {"grace", "done"} => stops[s] \in {"grace", "done"}
    BY <1>1, <2>1
  <2>5. ~cfg.cancels /\ Timeout \notin Events' =>
          \/ proc.state # "running" /\ "dog" \notin proc.signals
          \/ \E s \in proc.signals : s # "dog"
    BY <1>1, <2>2, <2>3 DEF Timed
  <2> QED
    BY <2>1, <2>2, <2>4, <2>5 DEF Timed
<1>11. CASE CallStop
  <2>1. UNCHANGED <<cfg, proc, dog, ctx, ch>> /\ stops' = [stops EXCEPT !["close"] = "called"]
    BY <1>11 DEF CallStop, procVars, chVars
  <2>2. /\ stops'["dog"] = stops["dog"]
        /\ \A s \in Stoppers : stops'[s] \in {"grace", "done"} => stops[s] \in {"grace", "done"}
    BY <1>1, <2>1
  <2> QED
    BY <2>1, <2>2, EventsKept, TimedKept
<1>12. ASSUME NEW s \in Stoppers, StopClosesStdin(s) \/ StopReturned(s) PROVE Timed'
  <2>1. UNCHANGED <<cfg, proc, dog, ctx, ch>>
        /\ \/ stops[s] = "called" /\ stops' = [stops EXCEPT ![s] = "signal"]
           \/ stops[s] = "grace" /\ stops' = [stops EXCEPT ![s] = "done"]
    BY <1>12 DEF StopClosesStdin, StopReturned, procVars, chVars
  <2>2. /\ stops'["dog"] \in {"grace", "done"} <=> stops["dog"] \in {"grace", "done"}
        /\ stops'["dog"] # "idle" => stops["dog"] # "idle"
        /\ \A r \in Stoppers : stops'[r] \in {"grace", "done"} => stops[r] \in {"grace", "done"}
    BY <1>1, <2>1
  <2> QED
    BY <2>1, <2>2, EventsKept, TimedKept
<1>13. ASSUME NEW s \in Stoppers, StopSignals(s) PROVE Timed'
  <2>1. /\ UNCHANGED <<cfg, dog, ctx, ch>> /\ stops[s] = "signal" /\ stops' = [stops EXCEPT ![s] = "grace"]
        /\ proc' = IF proc.state = "running" THEN [proc EXCEPT !.signals = @ \cup {s}] ELSE proc
    BY <1>13 DEF StopSignals, chVars
  <2>2. /\ proc'.state = proc.state /\ proc.signals \subseteq proc'.signals
        /\ proc'.signals \subseteq proc.signals \cup {s}
        /\ proc.state = "running" => s \in proc'.signals
        /\ proc.state # "running" => proc' = proc
    BY <1>1, <2>1
  <2>3. /\ stops'[s] = "grace" /\ \A r \in Stoppers \ {s} : stops'[r] = stops[r]
    BY <1>1, <2>1
  <2>4. Events' = Events
    BY <2>1, EventsKept
  <2>5. "dog" \in proc'.signals => stops'["dog"] \in {"grace", "done"}
    BY <1>1, <2>2, <2>3 DEF Timed
  <2>6. stops'["dog"] # "idle" => dog = "stop"
    BY <1>1, <2>1, <2>3 DEF Timed
  <2>7. \A r \in Stoppers : stops'[r] \in {"grace", "done"} => r \in proc'.signals \/ proc.state # "running"
    BY <2>2, <2>3 DEF Timed
  <2>8. proc.signals # {} => proc'.signals # {}
    BY <2>2
  <2>9. ~cfg.cancels /\ dog = "stop" /\ Timeout \notin Events =>
          \/ proc.state # "running" /\ "dog" \notin proc'.signals
          \/ \E r \in proc'.signals : r # "dog"
    BY <2>2 DEF Timed
  <2> QED
    BY <2>1, <2>2, <2>4, <2>5, <2>6, <2>7, <2>8, <2>9 DEF Timed
<1>14. ASSUME NEW s \in Stoppers, StopKills(s) PROVE Timed'
  <2>1. UNCHANGED <<cfg, proc, dog, stops, ch>> /\ stops[s] = "grace" /\ ctx' = "cancelled"
    BY <1>14 DEF StopKills, procVars, stopVars, chVars
  <2>2. s \in proc.signals \/ proc.state # "running"
    BY <2>1 DEF Timed
  <2>3. Events' = Events
    BY <2>1, EventsKept
  <2> QED
    BY <2>1, <2>2, <2>3 DEF Timed
<1> QED
  BY <1>3, <1>4, <1>5, <1>6, <1>7, <1>8, <1>9, <1>10, <1>11, <1>12, <1>13, <1>14 DEF Next, Readers

(* What the channel of a process says is true, and it says something: a     *)
(* made-up result is earned by an exit status 0 and no result read from the *)
(* agent, with output read to its end or, in a turn that was not cancelled, *)
(* the error of reading in the channel (a line that is too long ends the    *)
(* reading of a process that goes on); a channel closed without a           *)
(* cancellation carries an outcome; and when the watchdog alone ended the process the timeout is *)
(* in it (process.go, the readers of stdout and stderr, the watchdog).      *)
THEOREM ReportsAreTruthful == Spec => []ReportTruthful
<1> DEFINE IInv == Types /\ Orderly /\ Buried /\ Made /\ Calm /\ Timed
<1>1. Init => IInv
  BY TypesInit, OrderlyInit, BuriedInit, MadeInit, CalmInit, TimedInit
<1>2. IInv /\ [Next]_vars => IInv'
  BY TypesNext, OrderlyNext, BuriedNext, MadeNext, CalmNext, TimedNext
<1>3. IInv => ReportTruthful
  BY MadeHolds, CalmHolds, TimedHolds DEF ReportTruthful, Types
<1> QED
  BY <1>1, <1>2, <1>3, PTL DEF Spec
=============================================================================
