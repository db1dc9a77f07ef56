------------------------ MODULE TurnExecutionProofs ------------------------
(***************************************************************************)
(* Machine-checked proofs about TurnExecution, for any turns, requests,    *)
(* attempts and events, and every order of the handlers' steps.            *)
(***************************************************************************)
EXTENDS TurnExecution, TLAPS, SequenceTheorems

-----------------------------------------------------------------------------
(* What a handler's program counter says of its turn.                      *)

PostLabels == {"off", "busy", "accepted", "create", "register", "reading", "after", "retrywait",
               "detached", "suspended", "finish", "returned"}
FollowLabels == {"off", "reading", "ended", "left"}
RespondLabels == {"off", "reading", "after", "detached", "finish", "returned", "refused"}
Before == {"off", "busy", "accepted"}
Attending == {"reading", "after", "retrywait", "detached", "suspended"}

Places(t) ==
    /\ PC(t, "post") \in PostLabels
    /\ PC(t, "follow") \in FollowLabels
    /\ PC(t, "respond") \in RespondLabels
    /\ PC(t, "post") \notin Before => turn[t].attempt # 0
    /\ PC(t, "post") \in Before \cup {"register"} => ~Registered(t)
    /\ PC(t, "post") \in Attending => Registered(t)
    /\ PC(t, "follow") # "off" => Registered(t)
    /\ PC(t, "respond") # "off" => Registered(t)
    /\ \A k \in Kinds : PC(t, k) = "reading" => h[t][k].rel # 0

(* A registered execution has a relay and no handler of it has returned. *)
Busy(t) == registry = t => /\ Registered(t)
                           /\ PC(t, "post") # "returned" /\ PC(t, "respond") # "returned"

(* An execution is registered until it is ingested or ended. *)
Kept(t) == Registered(t) /\ t \notin ended => registry = t \/ t \in ingested

(* A follower has written the terminal event it read. *)
Told(t) ==
    LET f == h[t]["follow"]
    IN /\ f.pc = "reading" /\ f.term \in {"result", "error"} => f.wrote
       /\ f.pc = "ended" /\ ~f.susp /\ f.term # "retry" => f.wrote

(* A JSON client reads in its POST, which never detaches.  While it stays, *)
(* nobody else comes and nothing is aborted, no timer runs and its process *)
(* is not stopped; the POST that read a request for input is suspended.    *)
Undisturbed(t) ==
    /\ PC(t, "follow") = "off" /\ PC(t, "respond") = "off"
    /\ ~turn[t].gone /\ aborter = "none"
AtEvent(t) ==
    LET p == h[t]["post"]
    IN ~SSE(t, "post") =>
         /\ ~p.susp /\ p.pc # "detached"
         /\ p.rel # 0 => p.cur <= Len(proc[t][p.rel].ev)
Calm(t) ==
    ~SSE(t, "post") /\ Undisturbed(t) =>
        exec[t].timer = "off" /\ exec[t].firing = FALSE /\ exec[t].sub = "none"
Unstopped(t) ==
    LET p == h[t]["post"]
    IN ~SSE(t, "post") /\ Undisturbed(t) =>
         /\ p.pc = "register" => proc[t][turn[t].attempt].st # "closed"
         /\ p.pc \in {"reading", "suspended"} => p.rel # 0 /\ proc[t][p.rel].st # "closed"
Asked(t) ==
    LET p == h[t]["post"]
    IN ~SSE(t, "post") /\ Undisturbed(t) =>
         (p.rel # 0 /\ p.cur # 0 /\ proc[t][p.rel].ev[p.cur] = "input" => p.pc = "suspended")

Parts(t) ==
    /\ Places(t) /\ Busy(t) /\ Kept(t) /\ Told(t)
    /\ AtEvent(t) /\ Calm(t) /\ Unstopped(t) /\ Asked(t)
TurnInv == TypeOK /\ \A t \in Turns : Parts(t)

-----------------------------------------------------------------------------
(* Changing one cell.                                                      *)

Handlers == [Turns -> [Kinds -> HandlerState]]
Execs == [Turns -> ExecState]
Procs == [Turns -> [Attempts -> ProcState]]
TurnMap == [Turns -> TurnState]

(* The cell becomes v and no other changes. *)
HandlerIs(t, k, v) ==
    /\ h' \in Handlers /\ h'[t][k] = v
    /\ \A u \in Turns, j \in Kinds : u # t \/ j # k => h'[u][j] = h[u][j]
ExecIs(t, v) ==
    /\ exec' \in Execs /\ exec'[t] = v
    /\ \A u \in Turns : u # t => exec'[u] = exec[u]
TurnIs(t, v) ==
    /\ turn' \in TurnMap /\ turn'[t] = v
    /\ \A u \in Turns : u # t => turn'[u] = turn[u]
ProcIs(t, a, v) ==
    /\ proc' \in Procs /\ proc'[t][a] = v
    /\ \A u \in Turns, b \in Attempts : u # t \/ b # a => proc'[u][b] = proc[u][b]

LEMMA HandlerChange ==
    ASSUME h \in Handlers, NEW t \in Turns, NEW k \in Kinds, NEW v \in HandlerState,
           h' = [h EXCEPT ![t][k] = v]
    PROVE  HandlerIs(t, k, v)
BY DEF Handlers, HandlerIs

LEMMA HandlerGoes ==
    ASSUME h \in Handlers, NEW t \in Turns, NEW k \in Kinds, NEW label \in Labels,
           Goto(t, k, label)
    PROVE  HandlerIs(t, k, [h[t][k] EXCEPT !.pc = label])
<1>1. h[t][k] \in HandlerState
  BY DEF Handlers
<1>2. [h[t][k] EXCEPT !.pc = label] \in HandlerState
  BY <1>1 DEF HandlerState
<1>3. h' = [h EXCEPT ![t][k] = [h[t][k] EXCEPT !.pc = label]]
  BY DEF Goto
<1> QED
  BY <1>2, <1>3, HandlerChange

LEMMA ExecChange ==
    ASSUME exec \in Execs, NEW t \in Turns, NEW v \in ExecState, exec' = [exec EXCEPT ![t] = v]
    PROVE  ExecIs(t, v)
BY DEF Execs, ExecIs

LEMMA TurnChange ==
    ASSUME turn \in TurnMap, NEW t \in Turns, NEW v \in TurnState, turn' = [turn EXCEPT ![t] = v]
    PROVE  TurnIs(t, v)
BY DEF TurnMap, TurnIs

LEMMA ProcChange ==
    ASSUME proc \in Procs, NEW t \in Turns, NEW a \in Attempts, NEW v \in ProcState,
           proc' = [proc EXCEPT ![t][a] = v]
    PROVE  ProcIs(t, a, v)
BY DEF Procs, ProcIs

LEMMA Stops ==
    ASSUME proc \in Procs, NEW t \in Turns, NEW a \in Attempts, proc' = Stopped(t, a)
    PROVE  ProcIs(t, a, [proc[t][a] EXCEPT !.st = IF @ \in {"running", "waiting"}
                                                   THEN "closed" ELSE @])
<1>1. proc[t][a] \in ProcState
  BY DEF Procs
<1>2. [proc[t][a] EXCEPT !.st = IF @ \in {"running", "waiting"} THEN "closed" ELSE @] \in ProcState
  BY <1>1 DEF ProcState
<1>3. proc' = [proc EXCEPT ![t][a] = [proc[t][a] EXCEPT !.st = IF @ \in {"running", "waiting"}
                                                   THEN "closed" ELSE @]]
  BY DEF Stopped
<1> QED
  BY <1>2, <1>3, ProcChange

LEMMA Cells ==
    ASSUME TypeOK, NEW t \in Turns
    PROVE  /\ h \in Handlers /\ exec \in Execs /\ proc \in Procs /\ turn \in TurnMap
           /\ exec[t] \in ExecState /\ turn[t] \in TurnState /\ pump[t] \in PumpState
           /\ \A k \in Kinds : h[t][k] \in HandlerState
           /\ \A a \in Attempts : proc[t][a] \in ProcState
BY DEF TypeOK, Handlers, Execs, Procs, TurnMap

-----------------------------------------------------------------------------
(* Steps that leave a turn, or what a part reads of it, alone.             *)

SameHandlers(u) == \A k \in Kinds : h'[u][k] = h[u][k]
SameProcs(u) == \A a \in Attempts : proc'[u][a] = proc[u][a]
SameExec(u) ==
    /\ exec'[u].relay = exec[u].relay /\ exec'[u].timer \in {exec[u].timer, "off"}
    /\ exec'[u].firing = exec[u].firing /\ exec'[u].sub = exec[u].sub
SameRegistry ==
    registry' = registry /\ ended' = ended /\ ingested' = ingested /\ aborter' = aborter
ReleasesWell(u) ==
    /\ registry' = u => registry = u
    /\ registry = u => registry' = u \/ u \in ended' \cup ingested'
    /\ ended \subseteq ended' /\ ingested \subseteq ingested'
    /\ aborter' = "none" => aborter = "none"

LEMMA PlacesStay ==
    ASSUME NEW u \in Turns, Places(u), SameHandlers(u), turn'[u].attempt = turn[u].attempt,
           exec'[u].relay = exec[u].relay
    PROVE  Places(u)'
BY DEF Places, SameHandlers, PC, Registered, Kinds

LEMMA BusyStays ==
    ASSUME NEW u \in Turns, Busy(u), SameHandlers(u), registry' = u => registry = u,
           exec'[u].relay = exec[u].relay
    PROVE  Busy(u)'
BY TurnAssumption DEF Busy, SameHandlers, PC, Registered, Kinds

LEMMA KeptStays ==
    ASSUME NEW u \in Turns, Kept(u), ReleasesWell(u), exec'[u].relay = exec[u].relay
    PROVE  Kept(u)'
BY TurnAssumption DEF Kept, ReleasesWell, Registered

LEMMA ToldStays ==
    ASSUME NEW u \in Turns, Told(u), h'[u]["follow"] = h[u]["follow"]
    PROVE  Told(u)'
BY DEF Told

LEMMA JSONStays ==
    ASSUME TypeOK, NEW u \in Turns, AtEvent(u), Calm(u), Unstopped(u), Asked(u), Places(u),
           SameHandlers(u), SameExec(u), SameProcs(u), turn'[u] = turn[u],
           aborter' = "none" => aborter = "none"
    PROVE  AtEvent(u)' /\ Calm(u)' /\ Unstopped(u)' /\ Asked(u)'
<1>1. h[u]["post"] \in HandlerState /\ turn[u] \in TurnState
  BY Cells DEF Kinds
<1>2. h[u]["post"].rel # 0 => h[u]["post"].rel \in Attempts
  BY <1>1, TurnAssumption DEF HandlerState, Attempts
<1>3. h[u]["post"].pc = "register" => turn[u].attempt \in Attempts
  BY <1>1, TurnAssumption DEF Places, PC, TurnState, Attempts, Before
<1>4. Undisturbed(u)' => Undisturbed(u)
  BY DEF Undisturbed, PC, SameHandlers, Kinds
<1>5. SSE(u, "post")' = SSE(u, "post")
  BY DEF SSE
<1>6. h'[u]["post"] = h[u]["post"]
  BY DEF SameHandlers, Kinds
<1> QED
  BY <1>2, <1>3, <1>4, <1>5, <1>6 DEF AtEvent, Calm, Unstopped, Asked, SameProcs, SameExec

(* A turn that a step leaves alone keeps its parts. *)
LEMMA Untouched ==
    ASSUME TypeOK, NEW u \in Turns, Parts(u), SameHandlers(u), SameExec(u), SameProcs(u),
           turn'[u] = turn[u], ReleasesWell(u)
    PROVE  Parts(u)'
BY PlacesStay, BusyStays, KeptStays, ToldStays, JSONStays
   DEF Parts, ReleasesWell, SameHandlers, SameExec, Kinds

-----------------------------------------------------------------------------
(* Steps of one turn.                                                      *)

SameState == exec' = exec /\ proc' = proc /\ turn' = turn /\ SameRegistry

(* Where handler k of t may go when it only moves on. *)
MovesOn(t, k, label) ==
    LET from == PC(t, k)
    IN \/ /\ k = "post" /\ label \in PostLabels \ {"register", "reading", "returned"}
          /\ from \in Before \/ label \notin Before
          /\ label \in Before => ~Registered(t)
          /\ label \notin Before => turn[t].attempt # 0
          /\ label \in Attending => Registered(t)
          /\ from # "suspended" /\ from # "returned"
          /\ ~SSE(t, "post") => label \notin {"detached", "suspended"}
       \/ /\ k = "respond" /\ label \in {"finish"} /\ from \notin {"off", "returned"}

LEMMA PcMoves ==
    ASSUME TypeOK, NEW t \in Turns, NEW k \in Kinds, NEW label, MovesOn(t, k, label),
           Goto(t, k, label), SameState, \A u \in Turns : Parts(u)
    PROVE  h' \in Handlers /\ \A u \in Turns : Parts(u)'
<1>1. HandlerIs(t, k, [h[t][k] EXCEPT !.pc = label])
  BY Cells, HandlerGoes DEF MovesOn, PostLabels, Labels
<1>2. h[t]["post"] \in HandlerState /\ h[t]["follow"] \in HandlerState /\ h[t]["respond"] \in HandlerState
  BY Cells DEF Kinds
<1>3. \A j \in Kinds : /\ h'[t][j].rel = h[t][j].rel /\ h'[t][j].cur = h[t][j].cur
                        /\ h'[t][j].susp = h[t][j].susp
                        /\ h'[t][j].pc = IF j = k THEN label ELSE h[t][j].pc
  BY <1>1, <1>2 DEF HandlerIs, HandlerState, Kinds
<1>4. h'[t]["follow"] = h[t]["follow"]
  BY <1>1 DEF HandlerIs, MovesOn, Kinds
<1>5. ASSUME NEW u \in Turns PROVE Parts(u)'
  <2>1. CASE u # t
    BY <1>1, <2>1, Untouched DEF HandlerIs, SameHandlers, SameExec, SameProcs, SameState,
                                 SameRegistry, ReleasesWell
  <2>2. CASE u = t
    <3>1. Parts(t)
      OBVIOUS
    <3>2. Places(t)'
      BY <1>3, <3>1 DEF Parts, Places, MovesOn, PC, Registered, SameState, Kinds, PostLabels, Before,
                        Attending, FollowLabels, RespondLabels
    <3>3. Busy(t)'
      BY <1>3, <3>1 DEF Parts, Busy, MovesOn, PC, Registered, SameState, SameRegistry, Kinds, PostLabels
    <3>4. Kept(t)' /\ Told(t)'
      BY <1>4, <3>1, ToldStays DEF Parts, Kept, Registered, SameState, SameRegistry
    <3>5. AtEvent(t)' /\ Calm(t)' /\ Unstopped(t)' /\ Asked(t)'
      <4>1. Undisturbed(t)' => Undisturbed(t)
        BY <1>3 DEF Undisturbed, PC, MovesOn, SameState, SameRegistry, Kinds
      <4>2. SSE(t, "post")' = SSE(t, "post")
        BY DEF SSE, SameState
      <4>3. h'[t]["post"].pc \in {"reading", "suspended", "register", "detached"}
               => SSE(t, "post") \/ h'[t]["post"].pc = h[t]["post"].pc
        BY <1>3 DEF MovesOn, PC, Kinds
      <4>4. SSE(t, "post") \/ h[t]["post"].pc # "suspended" \/ h'[t]["post"].pc = "suspended"
        BY <1>3 DEF MovesOn, PC, Kinds
      <4> QED
        BY <1>3, <3>1, <4>1, <4>2, <4>3, <4>4 DEF Parts, AtEvent, Calm, Unstopped, Asked, SameState, Kinds
    <3> QED
      BY <2>2, <3>2, <3>3, <3>4, <3>5 DEF Parts
  <2> QED
    BY <2>1, <2>2
<1> QED
  BY <1>1, <1>5 DEF HandlerIs

LEMMA SendMessageStep ==
    ASSUME TurnInv, NEW t \in Turns, SendMessage(t)
    PROVE  TurnInv'
<1> DEFINE label == IF registry = NoTurn THEN "accepted" ELSE "busy"
<1>1. MovesOn(t, "post", label) /\ Goto(t, "post", label) /\ SameState
  BY DEF TurnInv, Parts, Places, SendMessage, MovesOn, SameState, SameRegistry, PostLabels, Before,
         Attending, regVars
<1>2. h' \in Handlers /\ \A u \in Turns : Parts(u)'
  BY <1>1, PcMoves DEF TurnInv, Kinds
<1>3. TypeOK'
  BY <1>2 DEF TurnInv, TypeOK, SendMessage, Handlers, regVars
<1> QED
  BY <1>2, <1>3 DEF TurnInv

LEMMA RetryWaitStep ==
    ASSUME TurnInv, NEW t \in Turns, RetryWait(t)
    PROVE  TurnInv'
<1>1. PICK label \in {"create", "finish"} : Goto(t, "post", label)
  BY DEF RetryWait
<1>2. MovesOn(t, "post", label) /\ SameState
  BY DEF TurnInv, Parts, Places, RetryWait, MovesOn, SameState, SameRegistry, PostLabels, Before,
         Attending, regVars
<1>3. h' \in Handlers /\ \A u \in Turns : Parts(u)'
  BY <1>1, <1>2, PcMoves DEF TurnInv, Kinds
<1>4. TypeOK'
  BY <1>3 DEF TurnInv, TypeOK, RetryWait, Handlers, regVars
<1> QED
  BY <1>3, <1>4 DEF TurnInv

LEMMA EndJSONStep ==
    ASSUME TurnInv, NEW t \in Turns, EndJSON(t)
    PROVE  TurnInv'
<1>1. MovesOn(t, "post", "after") /\ SameState /\ Goto(t, "post", "after")
  BY DEF TurnInv, Parts, Places, EndJSON, Drained, MovesOn, SameState, SameRegistry, PostLabels, Before,
         Attending, regVars
<1>2. h' \in Handlers /\ \A u \in Turns : Parts(u)'
  BY <1>1, PcMoves DEF TurnInv, Kinds
<1>3. TypeOK'
  BY <1>2 DEF TurnInv, TypeOK, EndJSON, Handlers, regVars
<1> QED
  BY <1>2, <1>3 DEF TurnInv

(* What is written to the record is a record. *)
LEMMA RecordOf ==
    ASSUME rec \in RecordState
    PROVE  /\ \A e : OnTerminal(rec, e) \in RecordState
           /\ \A e, sse : Settled(sse, e) \in RecordState
           /\ \A s \in {"active", "suspended", "closed", "error"} : [rec EXCEPT !.status = s] \in RecordState
           /\ \A n \in Natives : [rec EXCEPT !.native = n] \in RecordState
           /\ [rec EXCEPT !.status = "error", !.error = "cancelled"] \in RecordState
BY DEF RecordState, OnTerminal, Settled, Failed, Completed

LEMMA AfterEndsStep ==
    ASSUME TurnInv, NEW t \in Turns, NEW k \in Kinds, AfterEnds(t, k)
    PROVE  TurnInv'
<1>1. MovesOn(t, k, "finish") /\ SameState /\ Goto(t, k, "finish")
  BY DEF TurnInv, Parts, Places, AfterEnds, MovesOn, SameState, SameRegistry, PostLabels, Before,
         Attending, regVars, FollowLabels, Kinds
<1>2. h' \in Handlers /\ \A u \in Turns : Parts(u)'
  BY <1>1, PcMoves DEF TurnInv
<1>3. rec' \in RecordState
  BY RecordOf DEF AfterEnds, TurnInv, TypeOK
<1>4. TypeOK'
  BY <1>2, <1>3 DEF TurnInv, TypeOK, AfterEnds, Handlers, regVars
<1> QED
  BY <1>2, <1>4 DEF TurnInv

LEMMA AfterSuspendsStep ==
    ASSUME TurnInv, NEW t \in Turns, AfterSuspends(t)
    PROVE  TurnInv'
<1>1. MovesOn(t, "post", "suspended") /\ SameState /\ Goto(t, "post", "suspended")
  BY DEF TurnInv, Parts, Places, AtEvent, AfterSuspends, MovesOn, SameState, SameRegistry, PostLabels,
         Before, Attending, regVars, PC
<1>2. h' \in Handlers /\ \A u \in Turns : Parts(u)'
  BY <1>1, PcMoves DEF TurnInv, Kinds
<1>3. rec' \in RecordState
  BY RecordOf DEF AfterSuspends, TurnInv, TypeOK
<1>4. TypeOK'
  BY <1>2, <1>3 DEF TurnInv, TypeOK, AfterSuspends, Handlers, regVars
<1> QED
  BY <1>2, <1>4 DEF TurnInv

-----------------------------------------------------------------------------
(* Steps of the readers.                                                   *)

(* Where a reader, or a handler that waits for a detached turn, may go. *)
Next3(k) ==
    CASE k = "post"    -> {"reading", "detached", "after", "suspended", "finish"}
      [] k = "respond" -> {"reading", "detached", "after", "finish"}
      [] k = "follow"  -> {"reading", "left", "ended"}

LEMMA ReaderMoves ==
    ASSUME TypeOK, NEW t \in Turns, NEW k \in Kinds, NEW v \in HandlerState, NEW e \in ExecState,
           PC(t, k) \in {"reading", "detached"}, k = "post" => SSE(t, "post"),
           h' = [h EXCEPT ![t][k] = v], exec' = [exec EXCEPT ![t] = e],
           v.pc \in Next3(k), v.pc = "reading" => v.rel # 0, e.relay = exec[t].relay,
           k = "follow" => /\ v.pc = "reading" /\ v.term \in {"result", "error"} => v.wrote
                           /\ v.pc = "ended" /\ ~v.susp /\ v.term # "retry" => v.wrote,
           proc' = proc, turn' = turn, SameRegistry, \A u \in Turns : Parts(u)
    PROVE  h' \in Handlers /\ exec' \in Execs /\ \A u \in Turns : Parts(u)'
<1>1. HandlerIs(t, k, v) /\ ExecIs(t, e)
  BY Cells, HandlerChange, ExecChange
<1>2. exec'[t].relay = exec[t].relay
  BY <1>1 DEF ExecIs
<1>3. ASSUME NEW u \in Turns, u # t PROVE Parts(u)'
  BY <1>1, <1>3, Untouched DEF HandlerIs, ExecIs, SameHandlers, SameExec, SameProcs, SameRegistry,
                               ReleasesWell
<1>4. Parts(t)'
  <2>1. Parts(t)
    OBVIOUS
  <2>2. Registered(t) /\ Registered(t)'
    BY <1>2, <2>1 DEF Parts, Places, PC, Attending, Registered, Kinds
  <2>3. PC(t, "post") \notin Before \cup {"register"}
    BY <2>1, <2>2 DEF Parts, Places
  <2>4. h'[t][k] = v /\ \A j \in Kinds : j # k => h'[t][j] = h[t][j]
    BY <1>1 DEF HandlerIs
  <2>5. Places(t)'
    <3>1. CASE k = "post"
      BY <2>1, <2>2, <2>3, <2>4, <3>1 DEF Parts, Places, PC, Next3, Kinds, PostLabels, Before, Attending
    <3>2. CASE k = "follow"
      BY <2>1, <2>2, <2>3, <2>4, <3>2 DEF Parts, Places, PC, Next3, Kinds, FollowLabels
    <3>3. CASE k = "respond"
      BY <2>1, <2>2, <2>3, <2>4, <3>3 DEF Parts, Places, PC, Next3, Kinds, RespondLabels
    <3> QED
      BY <3>1, <3>2, <3>3 DEF Kinds
  <2>6. Busy(t)'
    <3>1. v.pc # "returned"
      BY DEF Next3, Kinds
    <3> QED
      BY <2>1, <2>2, <2>4, <3>1 DEF Parts, Busy, PC, SameRegistry, Kinds
  <2>7. Kept(t)'
    BY <1>2, <2>1 DEF Parts, Kept, Registered, SameRegistry
  <2>8. Told(t)'
    <3>1. CASE k = "follow"
      BY <2>4, <3>1 DEF Told
    <3>2. CASE k # "follow"
      BY <2>1, <2>4, <3>2, ToldStays DEF Parts, Kinds
    <3> QED
      BY <3>1, <3>2
  <2>9. AtEvent(t)' /\ Calm(t)' /\ Unstopped(t)' /\ Asked(t)'
    <3>1. SSE(t, "post")' = SSE(t, "post")
      BY DEF SSE
    <3>2. CASE k = "post"
      BY <3>1, <3>2 DEF AtEvent, Calm, Unstopped, Asked
    <3>3. CASE k # "post"
      <4>1. h'[t]["post"] = h[t]["post"]
        BY <2>4, <3>3 DEF Kinds
      <4>2. v.pc # "off"
        BY DEF Next3, Kinds
      <4>3. ~Undisturbed(t)'
        BY <2>4, <3>3, <4>2 DEF Undisturbed, PC, Kinds
      <4> QED
        BY <2>1, <3>1, <4>1, <4>3 DEF Parts, AtEvent, Calm, Unstopped, Asked
    <3> QED
      BY <3>2, <3>3
  <2> QED
    BY <2>5, <2>6, <2>7, <2>8, <2>9 DEF Parts
<1> QED
  BY <1>1, <1>3, <1>4 DEF HandlerIs, ExecIs

LEMMA Subscription ==
    ASSUME NEW e \in ExecState, NEW k \in Kinds
    PROVE  /\ Armed(e) \in ExecState /\ Armed(e).relay = e.relay
           /\ Unsubscribed(e, k) \in ExecState /\ Unsubscribed(e, k).relay = e.relay
           /\ Subscribed(e, k) \in ExecState /\ Subscribed(e, k).relay = e.relay
           /\ \A n \in Nat : [e EXCEPT !.offset = n] \in ExecState /\ [e EXCEPT !.offset = n].relay = e.relay
BY DEF Armed, Unsubscribed, Subscribed, ExecState, Kinds

(* The events of a relay. *)
LEMMA EventsOf ==
    ASSUME TypeOK, NEW t \in Turns, NEW a \in Attempts
    PROVE  /\ proc[t][a].ev \in Seq(EventKinds) /\ Len(proc[t][a].ev) \in Nat
           /\ \A i \in 1..Len(proc[t][a].ev) : proc[t][a].ev[i] \in EventKinds
<1>1. proc[t][a].ev \in Seq(EventKinds)
  BY Cells DEF ProcState
<1> QED
  BY <1>1, ElementOfSeq, LenProperties

LEMMA ReadingFacts ==
    ASSUME TypeOK, NEW t \in Turns, NEW k \in Kinds, PC(t, k) = "reading", Places(t)
    PROVE  /\ h[t][k].rel \in Attempts /\ exec[t].relay \in Attempts
           /\ h[t][k] \in HandlerState /\ exec[t] \in ExecState
<1>1. h[t][k] \in HandlerState /\ exec[t] \in ExecState
  BY Cells
<1>2. h[t][k].rel # 0 /\ exec[t].relay # 0
  BY DEF Places, PC, Attending, Registered, Kinds
<1> QED
  BY <1>1, <1>2, TurnAssumption DEF HandlerState, ExecState, Attempts

LEMMA Succ == ASSUME NEW n \in Nat, NEW m \in Nat, n < m PROVE n + 1 \in 1..m
OBVIOUS

(* The event a reader gets next. *)
LEMMA NextEventOf ==
    ASSUME TypeOK, NEW t \in Turns, NEW k \in Kinds, Pending(t, k), Places(t)
    PROVE  NextEvent(t, k) \in EventKinds
<1>1. h[t][k].rel \in Attempts /\ h[t][k].cur \in Nat
  BY ReadingFacts DEF Pending, HandlerState
<1>2. h[t][k].cur < Len(proc[t][h[t][k].rel].ev)
  BY DEF Pending
<1>3. h[t][k].cur + 1 \in 1..Len(proc[t][h[t][k].rel].ev)
  BY <1>1, <1>2, EventsOf, Succ
<1> QED
  BY <1>1, <1>3, EventsOf DEF NextEvent

(* A handler that took an event. *)
LEMMA TookOf ==
    ASSUME NEW k \in Kinds, NEW p \in HandlerState, NEW e \in EventKinds, NEW fails \in BOOLEAN,
           p.pc = "reading", k = "follow" /\ p.term \in {"result", "error"} => p.wrote
    PROVE  LET v == Took(k, p, e, fails)
           IN /\ v \in HandlerState /\ v.rel = p.rel /\ v.pc \in Next3(k)
              /\ k = "follow" => /\ v.pc = "reading" /\ v.term \in {"result", "error"} => v.wrote
                                 /\ v.pc = "ended" /\ ~v.susp /\ v.term # "retry" => v.wrote
<1> DEFINE susp == p.susp \/ e = "input"
           v == Took(k, p, e, fails)
           to == IF Ends(k, p, e, fails) THEN AfterAttach(k, susp, fails) ELSE p.pc
           term == IF e \in {"result", "error", "retry"} THEN e ELSE p.term
           wrote == p.wrote \/ (~fails /\ e \in {"result", "error"})
<1>1. to \in Next3(k) /\ to \in Labels /\ (k = "follow" /\ to = "ended" => ~fails /\ susp)
      /\ (k = "follow" /\ to = "reading" => ~fails)
  BY DEF AfterAttach, Next3, Kinds, Labels, Ends
<1>2. p.cur + 1 \in Nat /\ susp \in BOOLEAN /\ wrote \in BOOLEAN /\ term \in EventKinds \cup {"none"}
  BY DEF HandlerState
<1>3. v = [p EXCEPT !.cur = @ + 1, !.susp = susp, !.term = term, !.wrote = wrote, !.pc = to]
  BY DEF Took
<1> HIDE DEF v, to, susp, term, wrote
<1>4. /\ v \in HandlerState /\ v.rel = p.rel /\ v.pc = to /\ v.susp = susp /\ v.wrote = wrote
      /\ v.term = term
  BY <1>1, <1>2, <1>3 DEF HandlerState
<1>5. k = "follow" /\ v.pc = "reading" /\ v.term \in {"result", "error"} => v.wrote
  BY <1>1, <1>4 DEF term, wrote
<1>6. k = "follow" /\ v.pc = "ended" => v.susp
  BY <1>1, <1>4
<1> QED
  BY <1>1, <1>4, <1>5, <1>6 DEF v

LEMMA ReadSSEStep ==
    ASSUME TurnInv, NEW t \in Turns, NEW k \in Kinds, ReadSSE(t, k)
    PROVE  TurnInv'
<1> DEFINE p == h[t][k]
           e == NextEvent(t, k)
           r == [exec[t] EXCEPT !.offset = p.cur + 1]
           v(fails) == Took(k, p, e, fails)
           x(fails) == IF Ends(k, p, e, fails) THEN Unsubscribed(r, k) ELSE r
<1>1. PICK fails \in BOOLEAN :
        h' = [h EXCEPT ![t][k] = v(fails)] /\ exec' = [exec EXCEPT ![t] = x(fails)]
  BY DEF ReadSSE
<1>2. PC(t, k) = "reading" /\ Pending(t, k) /\ SSE(t, k) /\ Parts(t) /\ TypeOK
  BY DEF ReadSSE, Pending, TurnInv
<1>3. p.rel \in Attempts /\ p \in HandlerState /\ exec[t] \in ExecState
  BY <1>2, ReadingFacts DEF Parts
<1>4. e \in EventKinds
  BY <1>2, NextEventOf DEF Parts
<1>5. k = "follow" /\ p.term \in {"result", "error"} => p.wrote
  BY <1>2 DEF Parts, Told, PC
<1>6. /\ v(fails) \in HandlerState /\ v(fails).rel = p.rel /\ v(fails).pc \in Next3(k)
      /\ k = "follow" => /\ v(fails).pc = "reading" /\ v(fails).term \in {"result", "error"}
                              => v(fails).wrote
                         /\ v(fails).pc = "ended" /\ ~v(fails).susp /\ v(fails).term # "retry"
                              => v(fails).wrote
  BY <1>2, <1>3, <1>4, <1>5, TookOf DEF PC
<1>7. x(fails) \in ExecState /\ x(fails).relay = exec[t].relay
  <2>1. p.cur + 1 \in Nat
    BY <1>3 DEF HandlerState
  <2>2. r \in ExecState /\ r.relay = exec[t].relay
    BY <1>3, <2>1, Subscription
  <2> HIDE DEF r
  <2> QED
    BY <2>2, Subscription
<1>8. proc' = proc /\ turn' = turn /\ SameRegistry /\ rec' = rec /\ binding' = binding
      /\ execCancels' = execCancels /\ activeSess' = activeSess /\ pump' = pump /\ resumed' = resumed
  BY DEF ReadSSE, regVars, SameRegistry
<1> HIDE DEF v, x
<1>9. v(fails).rel # 0
  BY <1>3, <1>6 DEF Attempts
<1>10. h' \in Handlers /\ exec' \in Execs /\ \A u \in Turns : Parts(u)'
  BY <1>1, <1>2, <1>6, <1>7, <1>8, <1>9, ReaderMoves DEF TurnInv
<1>11. TypeOK'
  BY <1>2, <1>8, <1>10 DEF TypeOK, Handlers, Execs, SameRegistry
<1> QED
  BY <1>10, <1>11 DEF TurnInv

LEMMA EndSSEStep ==
    ASSUME TurnInv, NEW t \in Turns, NEW k \in Kinds, EndSSE(t, k)
    PROVE  TurnInv'
<1> DEFINE p == h[t][k]
           trm == EnsureTerminal(p.term, Relay(t).ev)
           synth == Synthesized(p.wrote, trm)
           r == IF synth THEN [exec[t] EXCEPT !.offset = p.cur + 1] ELSE exec[t]
           v == AtEnd(k, p, trm)
           x == Unsubscribed(r, k)
<1>1. PC(t, k) = "reading" /\ SSE(t, k) /\ Parts(t) /\ TypeOK
  BY DEF EndSSE, Drained, TurnInv
<1>2. p.rel \in Attempts /\ p \in HandlerState /\ exec[t] \in ExecState
  BY <1>1, ReadingFacts DEF Parts
<1>3. /\ h' = [h EXCEPT ![t][k] = v] /\ exec' = [exec EXCEPT ![t] = x]
      /\ rec' \in {rec, OnTerminal(rec, trm)}
  BY DEF EndSSE
<1>4. proc' = proc /\ turn' = turn /\ SameRegistry /\ binding' = binding
      /\ execCancels' = execCancels /\ activeSess' = activeSess /\ pump' = pump /\ resumed' = resumed
  BY DEF EndSSE, regVars, SameRegistry
<1>5. trm \in EventKinds
  <2>1. p.term \in {"result", "error"} => p.term \in EventKinds
    BY <1>2 DEF EventKinds
  <2>2. \A s : ResolveTerminal(s) \in EventKinds
    BY DEF ResolveTerminal, EventKinds
  <2> QED
    BY <2>1, <2>2 DEF EnsureTerminal
<1>6. x \in ExecState /\ x.relay = exec[t].relay
  <2>1. p.cur + 1 \in Nat
    BY <1>2 DEF HandlerState
  <2>2. r \in ExecState /\ r.relay = exec[t].relay
    BY <1>2, <2>1, Subscription
  <2> HIDE DEF r
  <2> QED
    BY <2>2, Subscription
<1>7. /\ v \in HandlerState /\ v.rel = p.rel /\ v.pc \in Next3(k) \ {"reading"}
      /\ k = "follow" /\ v.pc = "ended" /\ v.term # "retry" => v.wrote
  <2> DEFINE wrote == p.wrote \/ synth
             to == AfterAttach(k, FALSE, FALSE)
  <2>1. to \in Next3(k) \ {"reading"} /\ to \in Labels
    BY DEF AfterAttach, Next3, Kinds, Labels
  <2>2. wrote \in BOOLEAN /\ (trm # "retry" => wrote)
    BY <1>2 DEF HandlerState, Synthesized
  <2>3. v = [p EXCEPT !.term = trm, !.wrote = wrote, !.pc = to]
    BY DEF AtEnd
  <2> HIDE DEF v, to, wrote, trm, synth
  <2>4. v \in HandlerState /\ v.rel = p.rel /\ v.pc = to /\ v.wrote = wrote /\ v.term = trm
    BY <1>2, <1>5, <2>1, <2>2, <2>3 DEF HandlerState
  <2> QED
    BY <2>1, <2>2, <2>4
<1> HIDE DEF v, x, trm
<1>8. v.rel # 0
  BY <1>2, <1>7 DEF Attempts
<1>9. h' \in Handlers /\ exec' \in Execs /\ \A u \in Turns : Parts(u)'
  BY <1>1, <1>3, <1>4, <1>6, <1>7, <1>8, ReaderMoves DEF TurnInv
<1>10. rec' \in RecordState
  BY <1>1, <1>3, RecordOf DEF TypeOK
<1>11. TypeOK'
  BY <1>1, <1>4, <1>9, <1>10 DEF TypeOK, Handlers, Execs, SameRegistry
<1> QED
  BY <1>9, <1>11 DEF TurnInv

(* A reader that only leaves its stream. *)
LEMMA LeavesStep ==
    ASSUME TurnInv, NEW t \in Turns, NEW k \in Kinds, NEW label, PC(t, k) = "reading", SSE(t, k),
           label \in Next3(k) \ {"reading"}, k = "follow" /\ label = "ended" => h[t][k].term = "result",
           Goto(t, k, label), exec' = [exec EXCEPT ![t] = Unsubscribed(exec[t], k)],
           UNCHANGED <<regVars, rec, binding, turn, pump, proc, aborter, ended, ingested, resumed>>
    PROVE  TurnInv'
<1> DEFINE v == [h[t][k] EXCEPT !.pc = label]
           x == Unsubscribed(exec[t], k)
<1>1. Parts(t) /\ TypeOK
  BY DEF TurnInv
<1>2. h[t][k].rel \in Attempts /\ h[t][k] \in HandlerState /\ exec[t] \in ExecState
  BY <1>1, ReadingFacts DEF Parts
<1>3. h' = [h EXCEPT ![t][k] = v]
  BY DEF Goto
<1>4. v \in HandlerState /\ v.rel # 0 /\ v.pc = label /\ v.term = h[t][k].term /\ v.wrote = h[t][k].wrote
  BY <1>2 DEF HandlerState, Next3, Kinds, Labels, Attempts
<1>5. x \in ExecState /\ x.relay = exec[t].relay
  BY <1>2, Subscription
<1>6. k = "follow" /\ label = "ended" => v.wrote
  BY <1>1, <1>4 DEF Parts, Told, PC
<1>7. proc' = proc /\ turn' = turn /\ SameRegistry
  BY DEF regVars, SameRegistry
<1> HIDE DEF v, x
<1>8. h' \in Handlers /\ exec' \in Execs /\ \A u \in Turns : Parts(u)'
  BY <1>1, <1>3, <1>4, <1>5, <1>6, <1>7, ReaderMoves DEF TurnInv, x
<1>9. TypeOK'
  BY <1>1, <1>8 DEF TypeOK, Handlers, Execs, regVars
<1> QED
  BY <1>8, <1>9 DEF TurnInv

LEMMA PostResultDrainStep ==
    ASSUME TurnInv, NEW t \in Turns, NEW k \in Kinds, PostResultDrain(t, k)
    PROVE  TurnInv'
<1>1. AfterAttach(k, FALSE, FALSE) \in Next3(k) \ {"reading"}
  BY DEF AfterAttach, Next3, Kinds
<1>2. exec' = [exec EXCEPT ![t] = Unsubscribed(exec[t], k)]
  BY DEF PostResultDrain
<1> QED
  BY <1>1, <1>2, LeavesStep DEF PostResultDrain

LEMMA LeaveStep ==
    ASSUME TurnInv, NEW t \in Turns, NEW k \in Kinds, Leave(t, k)
    PROVE  TurnInv'
<1>1. AfterAttach(k, h[t][k].susp, TRUE) \in Next3(k) \ {"reading", "ended"}
  BY DEF AfterAttach, Next3, Kinds
<1>2. exec' = [exec EXCEPT ![t] = Unsubscribed(exec[t], k)]
  BY DEF Leave
<1> QED
  BY <1>1, <1>2, LeavesStep DEF Leave

(* What a round of waitDetached makes of its handler. *)
LEMMA Polled ==
    ASSUME TurnInv, NEW t \in Turns, NEW k \in Kinds, PollDetached(t, k)
    PROVE  \E v \in HandlerState :
             /\ v.pc \in {"detached", "finish", OnSuspended(k)} /\ h' = [h EXCEPT ![t][k] = v]
             /\ v.pc = "finish" => k = "respond" \/ v.term \in {"error", "result"}
<1>1. TypeOK /\ PC(t, k) = "detached" /\ h[t][k] \in HandlerState /\ exec[t] \in ExecState /\ Parts(t)
  BY Cells DEF TurnInv, PollDetached
<1>2. k # "follow"
  BY <1>1 DEF Parts, Places, FollowLabels
<1>3. h = [h EXCEPT ![t][k] = h[t][k]] /\ h[t][k].pc = "detached"
  BY <1>1, Cells DEF Handlers, PC
<1>4. \/ h' = h
      \/ \E term \in {"error", "result"} :
            h' = [h EXCEPT ![t][k].pc = "finish", ![t][k].term = term]
      \/ h' = [h EXCEPT ![t][k].pc = OnSuspended(k)]
  BY DEF PollDetached
<1>5. ASSUME NEW term \in {"error", "result"},
             h' = [h EXCEPT ![t][k].pc = "finish", ![t][k].term = term]
      PROVE  \E v \in HandlerState : /\ v.pc = "finish" /\ v.term \in {"error", "result"}
                                     /\ h' = [h EXCEPT ![t][k] = v]
  <2> DEFINE v == [h[t][k] EXCEPT !.pc = "finish", !.term = term]
  <2>1. h' = [h EXCEPT ![t][k] = v]
    BY <1>1, <1>5, Cells DEF Handlers
  <2>2. v \in HandlerState
    BY <1>1 DEF HandlerState, Labels, EventKinds
  <2>3. v.pc = "finish" /\ v.term = term
    BY <1>1 DEF HandlerState
  <2> QED
    BY <2>1, <2>2, <2>3
<1>6. ASSUME h' = [h EXCEPT ![t][k].pc = OnSuspended(k)]
      PROVE  \E v \in HandlerState : v.pc = OnSuspended(k) /\ h' = [h EXCEPT ![t][k] = v]
  <2> DEFINE v == [h[t][k] EXCEPT !.pc = OnSuspended(k)]
  <2>1. OnSuspended(k) \in Labels
    BY DEF Labels, OnSuspended
  <2>2. v \in HandlerState /\ v.pc = OnSuspended(k)
    BY <1>1, <2>1 DEF HandlerState
  <2> QED
    BY <1>6, <2>2
<1>7. OnSuspended(k) = "finish" => k = "respond"
  BY <1>2 DEF OnSuspended, Kinds
<1> QED
  BY <1>1, <1>3, <1>4, <1>5, <1>6, <1>7

LEMMA PollDetachedStep ==
    ASSUME TurnInv, NEW t \in Turns, NEW k \in Kinds, PollDetached(t, k)
    PROVE  TurnInv'
<1>1. Parts(t) /\ TypeOK /\ PC(t, k) = "detached"
  BY DEF TurnInv, PollDetached
<1>2. h[t][k] \in HandlerState /\ exec[t] \in ExecState
  BY <1>1, Cells
<1>3. k # "follow" /\ (k = "post" => SSE(t, "post"))
  BY <1>1 DEF Parts, Places, FollowLabels, AtEvent, PC
<1>4. PICK v \in HandlerState : v.pc \in {"detached", "finish", OnSuspended(k)} /\ h' = [h EXCEPT ![t][k] = v]
  BY Polled
<1>5. v.pc \in Next3(k) \ {"reading"}
  BY <1>3, <1>4 DEF Next3, Kinds, OnSuspended
<1>6. exec' = [exec EXCEPT ![t] = Armed(exec[t])]
  BY DEF PollDetached
<1>7. Armed(exec[t]) \in ExecState /\ Armed(exec[t]).relay = exec[t].relay
  BY <1>2, Subscription
<1>8. proc' = proc /\ turn' = turn /\ SameRegistry
  BY DEF PollDetached, regVars, SameRegistry
<1>9. h' \in Handlers /\ exec' \in Execs /\ \A u \in Turns : Parts(u)'
  BY <1>1, <1>3, <1>4, <1>5, <1>6, <1>7, <1>8, ReaderMoves DEF TurnInv
<1>10. TypeOK'
  BY <1>1, <1>9 DEF TypeOK, Handlers, Execs, PollDetached, regVars
<1> QED
  BY <1>9, <1>10 DEF TurnInv

-----------------------------------------------------------------------------
(* Steps of runTurn between its streams.                                   *)

(* The POST of t goes on to label, its process may be stopped meanwhile,   *)
(* and its attempt may be another one.                                     *)
LEMMA RunMoves ==
    ASSUME TypeOK, NEW t \in Turns, NEW label \in {"create", "retrywait", "returned", "finish"},
           HandlerIs(t, "post", [h[t]["post"] EXCEPT !.pc = label]),
           PC(t, "post") # "suspended", label = "retrywait" => Registered(t),
           label = "returned" => registry # t,
           turn'[t].attempt # 0, turn'[t].req = turn[t].req, turn'[t].gone = turn[t].gone,
           \A a \in Attempts : proc'[t][a].ev = proc[t][a].ev,
           \A u \in Turns : u # t => turn'[u] = turn[u] /\ \A a \in Attempts : proc'[u][a] = proc[u][a],
           exec' = exec, SameRegistry, \A u \in Turns : Parts(u)
    PROVE  \A u \in Turns : Parts(u)'
<1>1. ASSUME NEW u \in Turns, u # t PROVE Parts(u)'
  BY <1>1, Untouched DEF HandlerIs, SameHandlers, SameExec, SameProcs, SameRegistry, ReleasesWell
<1>2. Parts(t)'
  <2>1. Parts(t)
    OBVIOUS
  <2>2. h[t]["post"] \in HandlerState
    BY Cells DEF Kinds
  <2>3. /\ h'[t]["post"].pc = label /\ h'[t]["post"].rel = h[t]["post"].rel
        /\ h'[t]["post"].cur = h[t]["post"].cur /\ h'[t]["post"].susp = h[t]["post"].susp
        /\ h'[t]["follow"] = h[t]["follow"] /\ h'[t]["respond"] = h[t]["respond"]
    BY <2>2 DEF HandlerIs, HandlerState, Kinds
  <2>4. Places(t)'
    BY <2>1, <2>3 DEF Parts, Places, PC, Registered, Kinds, PostLabels, Before, Attending, FollowLabels,
                      RespondLabels
  <2>5. Busy(t)'
    BY <2>1, <2>3 DEF Parts, Busy, PC, Registered, SameRegistry
  <2>6. Kept(t)' /\ Told(t)'
    BY <2>1, <2>3, ToldStays DEF Parts, Kept, Registered, SameRegistry
  <2>7. h[t]["post"].rel # 0 => h[t]["post"].rel \in Attempts
    BY <2>2, TurnAssumption DEF HandlerState, Attempts
  <2>8. SSE(t, "post")' = SSE(t, "post") /\ (Undisturbed(t)' => Undisturbed(t))
    BY <2>3 DEF SSE, Undisturbed, PC, SameRegistry
  <2>9. AtEvent(t)' /\ Calm(t)'
    BY <2>1, <2>3, <2>7, <2>8 DEF Parts, AtEvent, Calm
  <2>10. Unstopped(t)' /\ Asked(t)'
    BY <2>1, <2>3, <2>7, <2>8 DEF Parts, Unstopped, Asked, PC
  <2> QED
    BY <2>4, <2>5, <2>6, <2>9, <2>10 DEF Parts
<1> QED
  BY <1>1, <1>2

LEMMA RegisterCancelStep ==
    ASSUME TurnInv, NEW t \in Turns, RegisterCancel(t)
    PROVE  TurnInv'
<1>1. PC(t, "post") = "accepted" /\ Parts(t) /\ TypeOK /\ turn[t] \in TurnState
  BY Cells DEF TurnInv, RegisterCancel
<1>2. HandlerIs(t, "post", [h[t]["post"] EXCEPT !.pc = "create"])
  BY <1>1, Cells, HandlerGoes DEF RegisterCancel, Kinds, Labels
<1>3. [turn[t] EXCEPT !.attempt = 1] \in TurnState
  BY <1>1, TurnAssumption DEF TurnState
<1>4. TurnIs(t, [turn[t] EXCEPT !.attempt = 1])
  BY <1>1, <1>3, Cells, TurnChange DEF RegisterCancel
<1>5. turn'[t].attempt # 0 /\ turn'[t].req = turn[t].req /\ turn'[t].gone = turn[t].gone
  BY <1>1, <1>4 DEF TurnIs, TurnState
<1>6. exec' = exec /\ proc' = proc /\ SameRegistry
  BY DEF RegisterCancel, SameRegistry
<1>7. \A u \in Turns : u # t => turn'[u] = turn[u]
  BY <1>4 DEF TurnIs
<1>8. PC(t, "post") # "suspended"
  BY <1>1
<1>9. \A u \in Turns : Parts(u)'
  BY <1>1, <1>2, <1>5, <1>6, <1>7, <1>8, RunMoves DEF TurnInv
<1>10. TypeOK'
  BY <1>1, <1>2, <1>4 DEF TypeOK, RegisterCancel, HandlerIs, Handlers, TurnIs, TurnMap, TurnOrNone
<1> QED
  BY <1>9, <1>10 DEF TurnInv

LEMMA CreateFailsStep ==
    ASSUME TurnInv, NEW t \in Turns, CreateFails(t)
    PROVE  TurnInv'
<1>1. PC(t, "post") = "create" /\ Parts(t) /\ TypeOK /\ turn[t] \in TurnState
  BY Cells DEF TurnInv, CreateFails
<1> DEFINE label == IF Registered(t) THEN "finish" ELSE "returned"
<1>2. HandlerIs(t, "post", [h[t]["post"] EXCEPT !.pc = label])
  BY <1>1, Cells, HandlerGoes DEF CreateFails, Kinds, Labels
<1>3. turn[t].attempt # 0 /\ (~Registered(t) => registry # t)
  BY <1>1 DEF Parts, Places, Busy, Before
<1>4. turn' \in TurnMap /\ turn'[t].attempt # 0 /\ turn'[t].req = turn[t].req /\ turn'[t].gone = turn[t].gone
      /\ \A u \in Turns : u # t => turn'[u] = turn[u]
  <2>1. CASE Registered(t)
    BY <1>1, <1>3, <2>1, Cells DEF CreateFails
  <2>2. CASE ~Registered(t)
    <3>1. [turn[t] EXCEPT !.ctxDone = TRUE] \in TurnState
      BY <1>1 DEF TurnState
    <3>2. TurnIs(t, [turn[t] EXCEPT !.ctxDone = TRUE])
      BY <1>1, <2>2, <3>1, Cells, TurnChange DEF CreateFails
    <3> QED
      BY <1>1, <1>3, <3>2 DEF TurnIs, TurnState
  <2> QED
    BY <2>1, <2>2
<1>5. exec' = exec /\ proc' = proc /\ SameRegistry
  BY DEF CreateFails, SameRegistry
<1>6. \A u \in Turns : Parts(u)'
  BY <1>1, <1>2, <1>3, <1>4, <1>5, RunMoves DEF TurnInv
<1>7. rec' \in RecordState /\ execCancels' \in TurnOrNone
  BY <1>1, RecordOf DEF TypeOK, CreateFails, TurnOrNone
<1>8. TypeOK'
  BY <1>1, <1>2, <1>4, <1>7 DEF TypeOK, CreateFails, HandlerIs, Handlers, TurnMap
<1> QED
  BY <1>6, <1>8 DEF TurnInv

(* PrepareRetry while attempts are left. *)
LEMMA PrepareRetryOf ==
    ASSUME TypeOK, NEW t \in Turns, PrepareRetry(t), Places(t), PC(t, "post") \notin Before,
           turn[t].attempt < turn[t].req.attempts
    PROVE  /\ proc' \in Procs /\ turn' \in TurnMap /\ rec' \in RecordState /\ activeSess' = NoTurn
           /\ turn[t].attempt \in Attempts /\ turn'[t].attempt = turn[t].attempt + 1
           /\ turn'[t].attempt # 0 /\ turn'[t].req = turn[t].req /\ turn'[t].gone = turn[t].gone
           /\ \A a \in Attempts : proc'[t][a].ev = proc[t][a].ev
           /\ \A u \in Turns : u # t => /\ turn'[u] = turn[u]
                                        /\ \A a \in Attempts : proc'[u][a] = proc[u][a]
<1>1. turn[t] \in TurnState /\ turn[t].req \in Request
  BY Cells, TurnAssumption DEF TurnState
<1>2. turn[t].attempt \in 0..MaxAttempts /\ turn[t].req.attempts \in 1..MaxAttempts /\ MaxAttempts \in Nat
  BY <1>1, TurnAssumption DEF TurnState, Request
<1>3. turn[t].attempt \in Attempts /\ turn[t].attempt + 1 \in 0..MaxAttempts /\ turn[t].attempt + 1 # 0
  <2>1. turn[t].attempt # 0
    BY DEF Places
  <2> QED
    BY <1>2, <2>1 DEF Attempts
<1> DEFINE r == [turn[t] EXCEPT !.attempt = @ + 1, !.heal = TRUE]
           p == [proc[t][turn[t].attempt] EXCEPT !.st = IF @ \in {"running", "waiting"}
                                                        THEN "closed" ELSE @]
<1>4. r \in TurnState /\ r.attempt = turn[t].attempt + 1 /\ r.req = turn[t].req /\ r.gone = turn[t].gone
  BY <1>1, <1>3 DEF TurnState
<1>5. turn' = [turn EXCEPT ![t] = r]
  BY Cells DEF PrepareRetry, TurnMap
<1> HIDE DEF r
<1>6. TurnIs(t, r)
  BY <1>4, <1>5, Cells, TurnChange
<1>7. ProcIs(t, turn[t].attempt, p)
  BY <1>3, Cells, Stops DEF PrepareRetry
<1>8. p.ev = proc[t][turn[t].attempt].ev
  BY <1>3, Cells DEF ProcState
<1> HIDE DEF p
<1>9. \A a \in Attempts : proc'[t][a].ev = proc[t][a].ev
  BY <1>7, <1>8 DEF ProcIs
<1>10. rec' \in RecordState /\ activeSess' = NoTurn
  BY RecordOf DEF PrepareRetry, TypeOK, Natives
<1> QED
  BY <1>3, <1>4, <1>6, <1>7, <1>9, <1>10 DEF TurnIs, ProcIs

LEMMA AfterRetriesStep ==
    ASSUME TurnInv, NEW t \in Turns, AfterRetries(t)
    PROVE  TurnInv'
<1>1. /\ PC(t, "post") = "after" /\ Parts(t) /\ TypeOK /\ PrepareRetry(t)
      /\ turn[t].attempt < turn[t].req.attempts
  BY DEF TurnInv, AfterRetries, Retryable
<1>2. HandlerIs(t, "post", [h[t]["post"] EXCEPT !.pc = "retrywait"])
  BY <1>1, Cells, HandlerGoes DEF AfterRetries, Kinds, Labels
<1>3. Registered(t) /\ Places(t) /\ PC(t, "post") \notin Before
  BY <1>1 DEF Parts, Places, Attending, Before
<1>4. exec' = exec /\ SameRegistry
  BY DEF AfterRetries, SameRegistry
<1>5. \A u \in Turns : Parts(u)'
  BY <1>1, <1>2, <1>3, <1>4, PrepareRetryOf, RunMoves DEF TurnInv
<1>6. /\ proc' \in Procs /\ turn' \in TurnMap /\ rec' \in RecordState /\ activeSess' = NoTurn
  BY <1>1, <1>3, PrepareRetryOf
<1>7. TypeOK'
  BY <1>1, <1>2, <1>6 DEF TypeOK, AfterRetries, HandlerIs, Handlers, TurnMap, Procs, TurnOrNone
<1> QED
  BY <1>5, <1>7 DEF TurnInv

LEMMA SendFailsStep ==
    ASSUME TurnInv, NEW t \in Turns, SendFails(t)
    PROVE  TurnInv'
<1>1. PC(t, "post") = "create" /\ Parts(t) /\ TypeOK /\ h[t]["post"] \in HandlerState
  BY Cells DEF TurnInv, SendFails, Kinds
<1>2. turn[t].attempt # 0 /\ Places(t) /\ PC(t, "post") \notin Before
  BY <1>1 DEF Parts, Places, Before
<1>3. exec' = exec /\ SameRegistry
  BY DEF SendFails, SameRegistry
<1>4. CASE Registered(t) /\ turn[t].attempt < turn[t].req.attempts
  <2>1. PrepareRetry(t) /\ h' = h
    BY <1>4 DEF SendFails
  <2>2. h' = [h EXCEPT ![t]["post"] = [h[t]["post"] EXCEPT !.pc = "create"]]
    <3>1. h[t]["post"] = [h[t]["post"] EXCEPT !.pc = "create"]
      BY <1>1 DEF PC, HandlerState
    <3>2. h = [h EXCEPT ![t]["post"] = h[t]["post"]]
      BY <1>1, Cells DEF Handlers, Kinds
    <3> QED
      BY <2>1, <3>1, <3>2
  <2>3. [h[t]["post"] EXCEPT !.pc = "create"] \in HandlerState
    BY <1>1 DEF HandlerState, Labels
  <2>4. HandlerIs(t, "post", [h[t]["post"] EXCEPT !.pc = "create"])
    BY <1>1, <2>2, <2>3, Cells, HandlerChange DEF Kinds
  <2>5. \A u \in Turns : Parts(u)'
    BY <1>1, <1>2, <1>3, <1>4, <2>1, <2>4, PrepareRetryOf, RunMoves DEF TurnInv
  <2>6. /\ proc' \in Procs /\ turn' \in TurnMap /\ rec' \in RecordState /\ activeSess' = NoTurn
    BY <1>1, <1>2, <1>4, <2>1, PrepareRetryOf
  <2>7. TypeOK'
    BY <1>1, <2>1, <2>6 DEF TypeOK, SendFails, TurnMap, Procs, TurnOrNone
  <2> QED
    BY <2>5, <2>7 DEF TurnInv
<1>5. CASE ~(Registered(t) /\ turn[t].attempt < turn[t].req.attempts)
  <2>1. Goto(t, "post", "finish") /\ activeSess' \in {t, NoTurn} /\ UNCHANGED <<proc, rec, turn>>
    BY <1>5 DEF SendFails
  <2>2. HandlerIs(t, "post", [h[t]["post"] EXCEPT !.pc = "finish"])
    BY <1>1, <2>1, Cells, HandlerGoes DEF Kinds, Labels
  <2>3. \A u \in Turns : Parts(u)'
    BY <1>1, <1>2, <1>3, <2>1, <2>2, RunMoves DEF TurnInv
  <2>4. TypeOK'
    BY <1>1, <2>1, <2>2 DEF TypeOK, SendFails, HandlerIs, Handlers, TurnOrNone
  <2> QED
    BY <2>3, <2>4 DEF TurnInv
<1> QED
  BY <1>4, <1>5

(* The POST of t attaches to the relay of its attempt. *)
LEMMA PostAttaches ==
    ASSUME TypeOK, NEW t \in Turns, PC(t, "post") \in {"create", "register"},
           h' = Attached(t, "post", turn[t].attempt, 0), exec' = [exec EXCEPT ![t] = WithRelay(t)],
           turn' = turn, aborter' = aborter, ended' = ended, ingested' = ingested,
           (registry' = registry /\ Registered(t)) \/ (registry' = t /\ registry = NoTurn /\ ~Registered(t)),
           \A a \in Attempts : proc'[t][a].ev = proc[t][a].ev,
           ~SSE(t, "post") /\ Undisturbed(t) => proc'[t][turn[t].attempt].st # "closed",
           \A u \in Turns : u # t => \A a \in Attempts : proc'[u][a] = proc[u][a],
           \A u \in Turns : Parts(u)
    PROVE  h' \in Handlers /\ exec' \in Execs /\ \A u \in Turns : Parts(u)'
<1> DEFINE v == [Handler EXCEPT !.pc = "reading", !.rel = turn[t].attempt, !.cur = 0]
           x == WithRelay(t)
<1>1. turn[t] \in TurnState /\ exec[t] \in ExecState /\ Parts(t)
  BY Cells
<1>2. turn[t].attempt \in 0..MaxAttempts /\ turn[t].attempt # 0 /\ turn[t].attempt \in Attempts
  BY <1>1, TurnAssumption DEF TurnState, Parts, Places, Before, Attempts
<1>3. /\ v \in HandlerState /\ v.pc = "reading" /\ v.rel = turn[t].attempt /\ v.cur = 0 /\ v.susp = FALSE
  BY <1>2 DEF Handler, HandlerState, Labels, EventKinds
<1>4. HandlerIs(t, "post", v)
  BY <1>3, Cells, HandlerChange DEF Attached, Kinds
<1>5. /\ x \in ExecState /\ x.relay = turn[t].attempt
      /\ ~SSE(t, "post") => x.timer = exec[t].timer /\ x.firing = exec[t].firing /\ x.sub = exec[t].sub
  BY <1>1, <1>2 DEF WithRelay, ExecState, Subscribed, Kinds
<1> HIDE DEF v, x
<1>6. ExecIs(t, x)
  BY <1>5, Cells, ExecChange DEF x
<1>7. exec'[t] = x /\ h'[t]["post"] = v /\ h'[t]["follow"] = h[t]["follow"] /\ h'[t]["respond"] = h[t]["respond"]
  BY <1>4, <1>6 DEF HandlerIs, ExecIs, Kinds
<1>8. ASSUME NEW u \in Turns, u # t PROVE Parts(u)'
  BY <1>4, <1>6, <1>8, Untouched, TurnAssumption
     DEF HandlerIs, ExecIs, SameHandlers, SameExec, SameProcs, ReleasesWell
<1>9. Places(t)'
  BY <1>1, <1>2, <1>3, <1>5, <1>7
     DEF Parts, Places, PC, Registered, Kinds, PostLabels, Before, Attending, FollowLabels, RespondLabels
<1>10. Busy(t)'
  BY <1>1, <1>2, <1>3, <1>5, <1>7 DEF Parts, Places, Busy, PC, Registered
<1>11. Kept(t)' /\ Told(t)'
  BY <1>1, <1>7, ToldStays DEF Parts, Kept, Registered
<1>12. SSE(t, "post")' = SSE(t, "post") /\ (Undisturbed(t)' => Undisturbed(t))
  BY <1>7 DEF SSE, Undisturbed, PC
<1>13. AtEvent(t)' /\ Calm(t)'
  <2>1. Len(proc[t][turn[t].attempt].ev) \in Nat /\ proc'[t][turn[t].attempt].ev = proc[t][turn[t].attempt].ev
    BY <1>2, EventsOf
  <2>2. 0 <= Len(proc'[t][turn[t].attempt].ev)
    BY <2>1
  <2>3. AtEvent(t)'
    BY <1>3, <1>7, <1>12, <2>2 DEF AtEvent
  <2>4. Calm(t)'
    BY <1>1, <1>5, <1>7, <1>12 DEF Calm, Parts
  <2> QED
    BY <2>3, <2>4
<1>14. Unstopped(t)' /\ Asked(t)'
  BY <1>2, <1>3, <1>7, <1>12 DEF Unstopped, Asked
<1> QED
  BY <1>4, <1>6, <1>8, <1>9, <1>10, <1>11, <1>13, <1>14 DEF HandlerIs, ExecIs, Parts

LEMMA RegisterStep ==
    ASSUME TurnInv, NEW t \in Turns, Register(t)
    PROVE  TurnInv'
<1>1. PC(t, "post") = "register" /\ Parts(t) /\ TypeOK /\ turn[t] \in TurnState /\ pump[t] \in PumpState
  BY Cells DEF TurnInv, Register
<1>2. turn' = turn /\ proc' = proc /\ aborter' = aborter /\ ended' = ended /\ ingested' = ingested
  BY DEF Register
<1>3. ~Registered(t) /\ turn[t].attempt # 0
  BY <1>1 DEF Parts, Places, Before
<1>4. CASE registry = NoTurn
  <2>1. /\ registry' = t /\ rec' = Activated(rec) /\ exec' = [exec EXCEPT ![t] = WithRelay(t)]
        /\ h' = Attached(t, "post", turn[t].attempt, 0)
        /\ pump' = [pump EXCEPT ![t].pc = IF SSE(t, "post") THEN "top" ELSE "off"]
    BY <1>4 DEF Register
  <2>2. ~SSE(t, "post") /\ Undisturbed(t) => proc'[t][turn[t].attempt].st # "closed"
    BY <1>1, <1>2 DEF Parts, Unstopped, PC
  <2>3. h' \in Handlers /\ exec' \in Execs /\ \A u \in Turns : Parts(u)'
    BY <1>1, <1>2, <1>3, <1>4, <2>1, <2>2, PostAttaches DEF TurnInv
  <2>4. rec' \in RecordState
    BY <1>1, <2>1, RecordOf DEF TypeOK, Activated
  <2>5. pump' \in [Turns -> PumpState]
    BY <1>1, <2>1 DEF TypeOK, PumpState
  <2>6. TypeOK'
    BY <1>1, <1>2, <2>1, <2>3, <2>4, <2>5 DEF TypeOK, Register, Handlers, Execs, TurnOrNone
  <2> QED
    BY <2>3, <2>6 DEF TurnInv
<1>5. CASE registry # NoTurn
  <2>1. Goto(t, "post", "finish") /\ UNCHANGED <<registry, rec, exec, pump>>
    BY <1>5 DEF Register
  <2>2. HandlerIs(t, "post", [h[t]["post"] EXCEPT !.pc = "finish"])
    BY <1>1, <2>1, Cells, HandlerGoes DEF Kinds, Labels
  <2>3. SameRegistry /\ PC(t, "post") # "suspended"
    BY <1>1, <1>2, <2>1 DEF SameRegistry
  <2>4. \A u \in Turns : Parts(u)'
    BY <1>1, <1>2, <1>3, <2>1, <2>2, <2>3, RunMoves DEF TurnInv
  <2>5. TypeOK'
    BY <1>1, <1>2, <2>1, <2>2 DEF TypeOK, Register, HandlerIs, Handlers
  <2> QED
    BY <2>4, <2>5 DEF TurnInv
<1> QED
  BY <1>4, <1>5

LEMMA StartAgentStep ==
    ASSUME TurnInv, NEW t \in Turns, StartAgent(t)
    PROVE  TurnInv'
<1>1. PC(t, "post") = "create" /\ Parts(t) /\ TypeOK /\ turn[t] \in TurnState /\ h[t]["post"] \in HandlerState
  BY Cells DEF TurnInv, StartAgent, Kinds
<1>2. turn[t].attempt \in Attempts
  BY <1>1, TurnAssumption DEF Parts, Places, Before, TurnState, Attempts
<1> DEFINE p == [proc[t][turn[t].attempt] EXCEPT !.st = "running"]
<1>3. p \in ProcState /\ p.ev = proc[t][turn[t].attempt].ev /\ p.st = "running"
  BY <1>1, <1>2, Cells DEF ProcState
<1>4. ProcIs(t, turn[t].attempt, p)
  <2>1. proc' = [proc EXCEPT ![t][turn[t].attempt] = p]
    BY DEF StartAgent
  <2> HIDE DEF p
  <2> QED
    BY <1>1, <1>2, <1>3, <2>1, Cells, ProcChange
<1> HIDE DEF p
<1>5. /\ \A a \in Attempts : proc'[t][a].ev = proc[t][a].ev
      /\ proc'[t][turn[t].attempt].st # "closed"
      /\ \A u \in Turns : u # t => \A a \in Attempts : proc'[u][a] = proc[u][a]
      /\ proc' \in Procs
  BY <1>2, <1>3, <1>4 DEF ProcIs
<1>6. turn' = turn /\ SameRegistry /\ resumed' \subseteq Turns \X Attempts /\ activeSess' \in TurnOrNone
  BY <1>1, <1>2 DEF StartAgent, SameRegistry, TypeOK, TurnOrNone
<1>7. CASE Registered(t)
  <2>1. exec' = [exec EXCEPT ![t] = WithRelay(t)] /\ h' = Attached(t, "post", turn[t].attempt, 0)
    BY <1>7 DEF StartAgent
  <2>2. h' \in Handlers /\ exec' \in Execs /\ \A u \in Turns : Parts(u)'
    BY <1>1, <1>5, <1>6, <1>7, <2>1, PostAttaches DEF TurnInv, SameRegistry
  <2>3. TypeOK'
    BY <1>1, <1>5, <1>6, <2>2 DEF TypeOK, StartAgent, Handlers, Execs, Procs
  <2> QED
    BY <2>2, <2>3 DEF TurnInv
<1>8. CASE ~Registered(t)
  <2>1. Goto(t, "post", "register") /\ exec' = exec
    BY <1>8 DEF StartAgent
  <2>2. HandlerIs(t, "post", [h[t]["post"] EXCEPT !.pc = "register"])
    BY <1>1, <2>1, Cells, HandlerGoes DEF Kinds, Labels
  <2>3. /\ h'[t]["post"].pc = "register" /\ h'[t]["post"].rel = h[t]["post"].rel
        /\ h'[t]["post"].cur = h[t]["post"].cur /\ h'[t]["post"].susp = h[t]["post"].susp
        /\ h'[t]["follow"] = h[t]["follow"] /\ h'[t]["respond"] = h[t]["respond"]
    BY <1>1, <2>2 DEF HandlerIs, HandlerState, Kinds
  <2>4. ASSUME NEW u \in Turns, u # t PROVE Parts(u)'
    BY <1>1, <1>5, <1>6, <2>1, <2>2, <2>4, Untouched
       DEF TurnInv, HandlerIs, SameHandlers, SameExec, SameProcs, SameRegistry, ReleasesWell
  <2>5. Places(t)'
    BY <1>1, <1>6, <1>8, <2>1, <2>3
       DEF Parts, Places, PC, Registered, Kinds, PostLabels, Before, Attending, FollowLabels, RespondLabels
  <2>6. Busy(t)' /\ Kept(t)' /\ Told(t)'
    BY <1>1, <1>6, <1>8, <2>1, <2>3, ToldStays DEF Parts, Busy, Kept, PC, Registered, SameRegistry
  <2>7. SSE(t, "post")' = SSE(t, "post") /\ (Undisturbed(t)' => Undisturbed(t))
    BY <1>6, <2>3 DEF SSE, Undisturbed, PC, SameRegistry
  <2>8. h[t]["post"].rel # 0 => h[t]["post"].rel \in Attempts
    BY <1>1, TurnAssumption DEF HandlerState, Attempts
  <2>9. AtEvent(t)' /\ Calm(t)' /\ Unstopped(t)' /\ Asked(t)'
    BY <1>1, <1>5, <1>6, <2>1, <2>3, <2>7, <2>8 DEF Parts, AtEvent, Calm, Unstopped, Asked, PC
  <2>10. TypeOK'
    BY <1>1, <1>5, <1>6, <2>1, <2>2 DEF TypeOK, StartAgent, HandlerIs, Handlers, Procs
  <2> QED
    BY <2>4, <2>5, <2>6, <2>9, <2>10 DEF TurnInv, Parts
<1> QED
  BY <1>7, <1>8

-----------------------------------------------------------------------------
(* Steps that end turns, and steps of clients, timers, the pump and the    *)
(* agents.                                                                 *)

(* Once somebody else takes part, only the position matters. *)
LEMMA DisturbedStays ==
    ASSUME TypeOK, NEW u \in Turns, AtEvent(u), ~Undisturbed(u)', h'[u]["post"] = h[u]["post"],
           turn'[u].req = turn[u].req, \A a \in Attempts : proc'[u][a].ev = proc[u][a].ev
    PROVE  AtEvent(u)' /\ Calm(u)' /\ Unstopped(u)' /\ Asked(u)'
<1>1. h[u]["post"].rel # 0 => h[u]["post"].rel \in Attempts
  BY Cells, TurnAssumption DEF Kinds, HandlerState, Attempts
<1>2. SSE(u, "post")' = SSE(u, "post")
  BY DEF SSE
<1> QED
  BY <1>1, <1>2 DEF AtEvent, Calm, Unstopped, Asked

(* Only the registered turn has a handler in progress. *)
LEMMA RegisteredInProgress ==
    ASSUME NEW u \in Turns, Parts(u), registry = u
    PROVE  u \in InProgress
BY DEF Parts, Busy, Places, InProgress, Before

LEMMA AbortEnds ==
    ASSUME TypeOK, \A u \in Turns : Parts(u), h' = h, exec' = exec, turn' = turn,
           \A u \in Turns, a \in Attempts : proc'[u][a].ev = proc[u][a].ev,
           registry' = NoTurn, ended' = ended \cup InProgress, ingested' = ingested, aborter' = "done"
    PROVE  \A u \in Turns : Parts(u)'
<1> TAKE u \in Turns
<1>1. Parts(u)
  OBVIOUS
<1>2. Places(u)' /\ Told(u)'
  BY <1>1, PlacesStay, ToldStays DEF Parts, SameHandlers
<1>3. Busy(u)' /\ Kept(u)'
  BY <1>1, RegisteredInProgress, TurnAssumption DEF Parts, Busy, Kept, Registered
<1>4. ~Undisturbed(u)'
  BY DEF Undisturbed
<1>5. AtEvent(u)' /\ Calm(u)' /\ Unstopped(u)' /\ Asked(u)'
  BY <1>1, <1>4, DisturbedStays DEF Parts
<1> QED
  BY <1>2, <1>3, <1>5 DEF Parts

(* Stopping a process changes its state alone. *)
LEMMA StopsOnly ==
    ASSUME TypeOK, NEW t \in Turns, NEW a \in Attempts, proc' = Stopped(t, a)
    PROVE  /\ proc' \in Procs
           /\ \A u \in Turns, b \in Attempts : proc'[u][b].ev = proc[u][b].ev
           /\ \A u \in Turns, b \in Attempts : u # t => proc'[u][b] = proc[u][b]
<1> DEFINE p == [proc[t][a] EXCEPT !.st = IF @ \in {"running", "waiting"} THEN "closed" ELSE @]
<1>1. ProcIs(t, a, p)
  BY Cells, Stops
<1>2. p.ev = proc[t][a].ev
  BY Cells DEF ProcState
<1> HIDE DEF p
<1> QED
  BY <1>1, <1>2 DEF ProcIs

LEMMA RegistryRelay ==
    ASSUME TurnInv, registry # NoTurn
    PROVE  registry \in Turns /\ Parts(registry) /\ exec[registry].relay \in Attempts
<1>1. registry \in Turns
  BY DEF TurnInv, TypeOK, TurnOrNone
<1>2. Parts(registry) /\ exec[registry] \in ExecState /\ Registered(registry)
  BY <1>1, Cells DEF TurnInv, Parts, Busy
<1> QED
  BY <1>1, <1>2, TurnAssumption DEF Registered, ExecState, Attempts

(* Cancelling stops the process of the relay and sets its done channel: two *)
(* changes of one cell are one change of it.                                *)
StoppedAndDone(t, a) == [Stopped(t, a) EXCEPT ![t][a].done = TRUE]

StoppedCell(p) ==
    [p EXCEPT !.st = IF @ \in {"running", "waiting"} THEN "closed" ELSE @, !.done = TRUE]

LEMMA StopsAndDone ==
    ASSUME proc \in Procs, NEW t \in Turns, NEW a \in Attempts, proc' = StoppedAndDone(t, a)
    PROVE  ProcIs(t, a, StoppedCell(proc[t][a]))
<1> DEFINE v == [proc[t][a] EXCEPT !.st = IF @ \in {"running", "waiting"} THEN "closed" ELSE @]
           w == [v EXCEPT !.done = TRUE]
<1>1. proc[t][a] \in ProcState
  BY DEF Procs
<1>2. PICK q : q = Stopped(t, a)
  OBVIOUS
<1>3. q = [proc EXCEPT ![t][a] = v]
  BY <1>2 DEF Stopped
<1>4. w = StoppedCell(proc[t][a])
  BY <1>1 DEF ProcState, StoppedCell
<1>5. w \in ProcState
  BY <1>1 DEF ProcState
<1> HIDE DEF w
<1>6. proc' = [q EXCEPT ![t][a] = [q[t][a] EXCEPT !.done = TRUE]]
  BY <1>2 DEF StoppedAndDone
<1>7. [v EXCEPT !.done = TRUE] = w
  BY DEF w
<1> HIDE DEF v
<1>8. q[t][a] = v
  BY <1>3 DEF Procs
<1>9. proc' = [q EXCEPT ![t][a] = w]
  BY <1>6, <1>7, <1>8
<1>10. [q EXCEPT ![t][a] = w] = [proc EXCEPT ![t][a] = w]
  BY <1>3 DEF Procs
<1>11. ProcIs(t, a, w)
  BY <1>5, <1>9, <1>10, ProcChange
<1> QED
  BY <1>4, <1>11

LEMMA CancelStep ==
    ASSUME TurnInv, Cancel
    PROVE  TurnInv'
<1>1. TypeOK
  BY DEF TurnInv
<1>2. proc' \in Procs /\ \A u \in Turns, a \in Attempts : proc'[u][a].ev = proc[u][a].ev
  <2>1. CASE registry = NoTurn
    BY <1>1, <2>1 DEF Cancel, TypeOK, Procs
  <2>2. CASE registry # NoTurn
    <3> DEFINE t == registry
               a == exec[registry].relay
               p == StoppedCell(proc[t][a])
    <3>1. t \in Turns /\ a \in Attempts
      BY <2>2, RegistryRelay
    <3>2. proc[t][a] \in ProcState
      BY <1>1, <3>1, Cells
    <3>3. p \in ProcState /\ p.ev = proc[t][a].ev
      BY <3>2 DEF ProcState, StoppedCell
    <3>4. proc' = StoppedAndDone(t, a)
      BY <2>2 DEF Cancel, StoppedAndDone
    <3> HIDE DEF t, a
    <3>5. ProcIs(t, a, p)
      BY <1>1, <3>1, <3>4, Cells, StopsAndDone
    <3> HIDE DEF p
    <3> QED
      BY <3>3, <3>5 DEF ProcIs
  <2> QED
    BY <2>1, <2>2
<1>3. \A u \in Turns : Parts(u)'
  BY <1>1, <1>2, AbortEnds DEF Cancel, TurnInv
<1>4. [rec EXCEPT !.status = "error", !.error = "cancelled"] \in RecordState
  BY <1>1, RecordOf DEF TypeOK
<1>5. TypeOK'
  BY <1>1, <1>2, <1>4 DEF Cancel, TypeOK, Procs, TurnOrNone, InProgress
<1> QED
  BY <1>3, <1>5 DEF TurnInv

LEMMA TerminateStep ==
    ASSUME TurnInv, Terminate
    PROVE  TurnInv'
<1>1. TypeOK
  BY DEF TurnInv
<1>2. proc' \in Procs /\ \A u \in Turns, a \in Attempts : proc'[u][a].ev = proc[u][a].ev
  <2>1. CASE registry = NoTurn
    BY <1>1, <2>1 DEF Terminate, TypeOK, Procs
  <2>2. CASE registry # NoTurn
    BY <1>1, <2>2, RegistryRelay, StopsOnly DEF Terminate
  <2> QED
    BY <2>1, <2>2
<1>3. \A u \in Turns : Parts(u)'
  BY <1>1, <1>2, AbortEnds DEF Terminate, TurnInv
<1>4. [rec EXCEPT !.status = "closed"] \in RecordState
  BY <1>1, RecordOf DEF TypeOK
<1>5. TypeOK'
  BY <1>1, <1>2, <1>4 DEF Terminate, TypeOK, Procs, TurnOrNone, InProgress
<1> QED
  BY <1>3, <1>5 DEF TurnInv

LEMMA AbortContextStep ==
    ASSUME TurnInv, NEW kind \in {"cancel", "terminate"}, AbortContext(kind)
    PROVE  TurnInv'
<1>1. TypeOK /\ turn \in TurnMap
  BY DEF TurnInv, TypeOK, TurnMap
<1>2. turn' \in TurnMap /\ \A u \in Turns : /\ turn'[u].req = turn[u].req
                                           /\ turn'[u].attempt = turn[u].attempt
  <2>1. CASE execCancels = NoTurn
    BY <1>1, <2>1 DEF AbortContext
  <2>2. CASE execCancels # NoTurn
    <3> DEFINE t == execCancels
               r == [turn[t] EXCEPT !.ctxDone = TRUE]
    <3>1. t \in Turns
      BY <1>1, <2>2 DEF TypeOK, TurnOrNone
    <3>2. r \in TurnState /\ r.req = turn[t].req /\ r.attempt = turn[t].attempt
      BY <1>1, <3>1, Cells DEF TurnState
    <3>3. turn' = [turn EXCEPT ![t] = r]
      BY <2>2 DEF AbortContext
    <3> HIDE DEF r, t
    <3>4. TurnIs(t, r)
      BY <1>1, <3>1, <3>2, <3>3, TurnChange
    <3> QED
      BY <3>2, <3>4 DEF TurnIs
  <2> QED
    BY <2>1, <2>2
<1>3. h' = h /\ exec' = exec /\ proc' = proc /\ registry' = registry /\ ended' = ended /\ ingested' = ingested
      /\ aborter' = kind
  BY DEF AbortContext, regVars
<1>4. ASSUME NEW u \in Turns PROVE Parts(u)'
  <2>1. Parts(u)
    BY DEF TurnInv
  <2>2. ~Undisturbed(u)'
    BY <1>3 DEF Undisturbed
  <2>3. Places(u)' /\ Told(u)' /\ Busy(u)' /\ Kept(u)'
    BY <1>2, <1>3, <2>1, PlacesStay, ToldStays
       DEF Parts, SameHandlers, Busy, Kept, Registered, PC
  <2>4. AtEvent(u)' /\ Calm(u)' /\ Unstopped(u)' /\ Asked(u)'
    BY <1>1, <1>2, <1>3, <2>1, <2>2, DisturbedStays DEF Parts
  <2> QED
    BY <2>3, <2>4 DEF Parts
<1>5. TypeOK'
  BY <1>1, <1>2 DEF AbortContext, TypeOK, TurnMap, regVars
<1> QED
  BY <1>4, <1>5 DEF TurnInv

LEMMA FinishStep ==
    ASSUME TurnInv, NEW t \in Turns, NEW k \in Kinds, Finish(t, k)
    PROVE  TurnInv'
<1> DEFINE a == IF k = "post" THEN turn[t].attempt ELSE exec[t].relay
<1>1. PC(t, k) = "finish" /\ Parts(t) /\ TypeOK /\ k # "follow"
  BY DEF TurnInv, Finish, Parts, Places, FollowLabels
<1>2. turn[t] \in TurnState /\ exec[t] \in ExecState /\ h[t][k] \in HandlerState /\ h[t]["post"] \in HandlerState
  BY <1>1, Cells DEF Kinds
<1>3. a \in Attempts
  <2>1. CASE k = "post"
    BY <1>1, <1>2, <2>1, TurnAssumption DEF Parts, Places, Before, TurnState, Attempts
  <2>2. CASE k = "respond"
    BY <1>1, <1>2, <2>2, TurnAssumption DEF Parts, Places, Registered, ExecState, Attempts
  <2> QED
    BY <1>1, <2>1, <2>2 DEF Kinds
<1>4. /\ proc' = Stopped(t, a) /\ registry' = NoTurn /\ execCancels' = NoTurn /\ activeSess' = NoTurn
      /\ turn' = turn /\ pump' = pump /\ aborter' = aborter /\ ended' = ended /\ resumed' = resumed
      /\ Ingest(registry)
      /\ exec' = IF registry = NoTurn THEN exec ELSE [exec EXCEPT ![registry].timer = "off"]
  BY DEF Finish
<1> HIDE DEF a
<1>5. HandlerIs(t, k, [h[t][k] EXCEPT !.pc = "returned"])
  BY <1>1, Cells, HandlerGoes DEF Finish, Labels
<1>6. /\ proc' \in Procs
      /\ \A u \in Turns, b \in Attempts : proc'[u][b].ev = proc[u][b].ev
      /\ \A u \in Turns, b \in Attempts : u # t => proc'[u][b] = proc[u][b]
  BY <1>1, <1>3, <1>4, StopsOnly
<1>7. exec' \in Execs /\ \A u \in Turns : SameExec(u)
  <2>1. CASE registry = NoTurn
    BY <1>1, <1>4, <2>1, Cells DEF SameExec, TypeOK, Execs
  <2>2. CASE registry # NoTurn
    <3>1. registry \in Turns /\ exec[registry] \in ExecState
      BY <1>1, <2>2, Cells DEF TypeOK, TurnOrNone
    <3> DEFINE x == [exec[registry] EXCEPT !.timer = "off"]
    <3>2. /\ x \in ExecState /\ x.relay = exec[registry].relay /\ x.timer = "off"
          /\ x.firing = exec[registry].firing /\ x.sub = exec[registry].sub
      BY <3>1 DEF ExecState
    <3>3. exec' = [exec EXCEPT ![registry] = x]
      BY <1>4, <2>2
    <3> HIDE DEF x
    <3>4. ExecIs(registry, x)
      BY <1>1, <3>1, <3>2, <3>3, Cells, ExecChange
    <3> QED
      BY <3>2, <3>4 DEF ExecIs, SameExec
  <2> QED
    BY <2>1, <2>2
<1>8. /\ ingested \subseteq ingested' /\ (registry # NoTurn => registry \in ingested') /\ ingested' \subseteq Turns
      /\ rec' \in RecordState /\ binding' \in Natives
  <2>1. CASE registry = NoTurn
    BY <1>1, <1>4, <2>1 DEF Ingest, TypeOK
  <2>2. CASE registry # NoTurn
    <3>1. registry \in Turns /\ ingested' = ingested \cup {registry} /\ binding' \in Natives
      BY <1>1, <1>4, <2>2 DEF Ingest, TypeOK, TurnOrNone, Natives
    <3>2. rec.native \in Natives
      BY <1>1 DEF TypeOK, RecordState
    <3>3. \E n \in Natives : rec' = [rec EXCEPT !.native = n]
      BY <1>4, <2>2, <3>2 DEF Ingest, Natives
    <3> QED
      BY <1>1, <3>1, <3>3, RecordOf DEF TypeOK
  <2> QED
    BY <2>1, <2>2
<1>9. \A u \in Turns : ReleasesWell(u)
  BY <1>4, <1>8, TurnAssumption DEF ReleasesWell
<1>10. ASSUME NEW u \in Turns, u # t PROVE Parts(u)'
  BY <1>1, <1>4, <1>5, <1>6, <1>7, <1>9, <1>10, Untouched DEF TurnInv, HandlerIs, SameHandlers, SameProcs
<1>11. Parts(t)'
  <2>1. \A j \in Kinds : /\ h'[t][j].rel = h[t][j].rel /\ h'[t][j].cur = h[t][j].cur
                          /\ h'[t][j].susp = h[t][j].susp
                          /\ h'[t][j].pc = IF j = k THEN "returned" ELSE h[t][j].pc
    BY <1>2, <1>5 DEF HandlerIs, HandlerState
  <2>2. Places(t)'
    BY <1>1, <1>4, <1>7, <2>1 DEF Parts, Places, PC, Registered, SameExec, Kinds, PostLabels, Before, Attending,
                        FollowLabels, RespondLabels
  <2>3. Busy(t)' /\ Kept(t)'
    BY <1>1, <1>4, <1>7, <1>9, KeptStays, TurnAssumption DEF Parts, Busy, SameExec
  <2>4. Told(t)'
    BY <1>1, <1>5, ToldStays DEF Parts, HandlerIs, Kinds
  <2>5. AtEvent(t)' /\ Calm(t)' /\ Unstopped(t)' /\ Asked(t)'
    <3>1. CASE k = "post"
      <4>1. SSE(t, "post")' = SSE(t, "post") /\ (Undisturbed(t)' => Undisturbed(t))
        BY <1>4, <2>1, <3>1 DEF SSE, Undisturbed, PC, Kinds
      <4>2. h[t]["post"].rel # 0 => h[t]["post"].rel \in Attempts
        BY <1>2, TurnAssumption DEF HandlerState, Attempts
      <4>3. /\ h'[t]["post"].pc = "returned" /\ h[t]["post"].pc = "finish"
            /\ h'[t]["post"].rel = h[t]["post"].rel /\ h'[t]["post"].cur = h[t]["post"].cur
            /\ h'[t]["post"].susp = h[t]["post"].susp
        BY <1>1, <2>1, <3>1 DEF PC, Kinds
      <4>4. AtEvent(t)'
        BY <1>1, <1>6, <4>1, <4>2, <4>3 DEF Parts, AtEvent
      <4>5. Calm(t)'
        BY <1>1, <1>7, <4>1 DEF Parts, Calm, SameExec
      <4>6. Unstopped(t)' /\ Asked(t)'
        BY <1>1, <1>6, <4>1, <4>2, <4>3 DEF Parts, Unstopped, Asked
      <4> QED
        BY <4>4, <4>5, <4>6
    <3>2. CASE k = "respond"
      <4>1. ~Undisturbed(t)' /\ h'[t]["post"] = h[t]["post"]
        BY <1>5, <2>1, <3>2 DEF Undisturbed, PC, Kinds, HandlerIs
      <4> QED
        BY <1>1, <1>4, <1>6, <4>1, DisturbedStays DEF Parts
    <3> QED
      BY <1>1, <3>1, <3>2 DEF Kinds
  <2> QED
    BY <2>2, <2>3, <2>4, <2>5 DEF Parts
<1>12. TypeOK'
  BY <1>1, <1>4, <1>5, <1>6, <1>7, <1>8 DEF TypeOK, HandlerIs, Handlers, Execs, Procs, TurnOrNone
<1> QED
  BY <1>10, <1>11, <1>12 DEF TurnInv

(* Marking executions suspended. *)
LEMMA SuspendedOnly ==
    ASSUME TypeOK, NEW t \in Turns
    PROVE  /\ Suspended(t) \in Execs
           /\ \A u \in Turns : /\ Suspended(t)[u].relay = exec[u].relay /\ Suspended(t)[u].timer = exec[u].timer
                              /\ Suspended(t)[u].firing = exec[u].firing /\ Suspended(t)[u].sub = exec[u].sub
<1>1. \A u \in Turns : exec[u] \in ExecState
  BY Cells
<1> QED
  BY <1>1 DEF Suspended, Execs, ExecState

LEMMA ReadJSONStep ==
    ASSUME TurnInv, NEW t \in Turns, ReadJSON(t)
    PROVE  TurnInv'
<1> DEFINE p == h[t]["post"]
           e == NextEvent(t, "post")
           live == ~turn[t].gone
           v == TookJSON(p, e, live)
           x == IF e = "input" /\ live THEN Suspended(t) ELSE exec
<1>1. TypeOK /\ Parts(t) /\ Pending(t, "post") /\ PC(t, "post") = "reading" /\ ~SSE(t, "post")
  BY DEF TurnInv, ReadJSON, Pending
<1>2. p \in HandlerState /\ p.rel \in Attempts /\ e \in EventKinds /\ p.pc = "reading"
  BY <1>1, ReadingFacts, NextEventOf DEF Parts, Kinds, PC
<1>3. p.cur + 1 \in 1..Len(proc[t][p.rel].ev)
  <2>1. p.cur < Len(proc[t][p.rel].ev) /\ p.cur \in Nat
    BY <1>1, <1>2 DEF Pending, HandlerState
  <2> QED
    BY <1>1, <1>2, <2>1, EventsOf, Succ
<1>4. /\ h' = [h EXCEPT ![t]["post"] = v] /\ exec' = [x EXCEPT ![t].offset = @ + 1]
      /\ turn' = turn /\ proc' = proc /\ SameRegistry
  BY DEF ReadJSON, regVars, SameRegistry
<1>5. rec' \in RecordState
  BY <1>1, RecordOf DEF TypeOK, ReadJSON, Natives
<1>6. /\ v \in HandlerState /\ v.rel = p.rel /\ v.cur = p.cur + 1 /\ v.susp = p.susp
      /\ v.pc = IF e = "input" THEN AfterInputJSON(live) ELSE "reading"
  <2> HIDE DEF e
  <2>1. AfterInputJSON(live) \in Labels /\ p.cur + 1 \in Nat
    BY <1>2 DEF AfterInputJSON, Labels, HandlerState
  <2> QED
    BY <1>2, <2>1 DEF TookJSON, HandlerState, EventKinds
<1>7. v.pc \in {"reading", "suspended", "after"} /\ (e = "input" /\ live => v.pc = "suspended")
  BY <1>6 DEF AfterInputJSON
<1> HIDE DEF v
<1>8. HandlerIs(t, "post", v)
  BY <1>1, <1>4, <1>6, Cells, HandlerChange DEF Kinds
<1>9. exec' \in Execs /\ \A u \in Turns : SameExec(u)
  <2>1. x \in Execs /\ \A u \in Turns : /\ x[u].relay = exec[u].relay /\ x[u].timer = exec[u].timer
                                          /\ x[u].firing = exec[u].firing /\ x[u].sub = exec[u].sub
    BY <1>1, Cells, SuspendedOnly
  <2> HIDE DEF x
  <2>2. x[t] \in ExecState
    BY <2>1 DEF Execs
  <2> DEFINE y == [x[t] EXCEPT !.offset = @ + 1]
  <2>3. /\ y \in ExecState /\ y.relay = x[t].relay /\ y.timer = x[t].timer
        /\ y.firing = x[t].firing /\ y.sub = x[t].sub
    BY <2>2 DEF ExecState
  <2>4. exec' = [x EXCEPT ![t] = y]
    BY <1>4
  <2> HIDE DEF y
  <2> QED
    BY <2>1, <2>3, <2>4 DEF Execs, SameExec
<1>10. ASSUME NEW u \in Turns, u # t PROVE Parts(u)'
  BY <1>1, <1>4, <1>8, <1>9, <1>10, Untouched
     DEF TurnInv, HandlerIs, SameHandlers, SameProcs, SameRegistry, ReleasesWell
<1>11. Parts(t)'
  <2>1. h'[t]["post"] = v /\ h'[t]["follow"] = h[t]["follow"] /\ h'[t]["respond"] = h[t]["respond"]
    BY <1>8 DEF HandlerIs, Kinds
  <2>2. Places(t)'
    BY <1>1, <1>2, <1>4, <1>6, <1>7, <1>9, <2>1 DEF Parts, Places, PC, Registered, SameExec, Kinds, PostLabels, Before,
                        Attending, FollowLabels, RespondLabels
  <2>3. Busy(t)' /\ Kept(t)' /\ Told(t)'
    BY <1>1, <1>4, <1>7, <1>9, <2>1, ToldStays DEF Parts, Busy, Kept, PC, Registered, SameExec, SameRegistry
  <2>4. SSE(t, "post")' = SSE(t, "post") /\ (Undisturbed(t)' => Undisturbed(t))
    BY <1>4, <2>1 DEF SSE, Undisturbed, PC, SameRegistry
  <2>5. AtEvent(t)'
    <3>1. v.cur <= Len(proc[t][v.rel].ev)
      BY <1>1, <1>2, <1>3, <1>6, EventsOf
    <3> QED
      BY <1>1, <1>4, <1>6, <1>7, <2>1, <2>4, <3>1 DEF Parts, AtEvent
  <2>6. Calm(t)'
    BY <1>1, <1>9, <2>4 DEF Parts, Calm, SameExec
  <2>7. Unstopped(t)'
    BY <1>1, <1>2, <1>4, <1>6, <1>7, <2>1, <2>4 DEF Parts, Unstopped, PC
  <2>8. Asked(t)'
    <3>1. proc[t][v.rel].ev[v.cur] = e
      BY <1>6 DEF NextEvent
    <3>2. Undisturbed(t) => live
      BY DEF Undisturbed
    <3> HIDE DEF e, live
    <3> QED
      BY <1>4, <1>7, <2>1, <2>4, <3>1, <3>2 DEF Asked
  <2> QED
    BY <2>2, <2>3, <2>5, <2>6, <2>7, <2>8 DEF Parts
<1>12. TypeOK'
  BY <1>1, <1>4, <1>5, <1>8, <1>9 DEF TypeOK, ReadJSON, HandlerIs, Handlers, Execs, regVars
<1> QED
  BY <1>10, <1>11, <1>12 DEF TurnInv

LEMMA StopExecOf ==
    ASSUME TurnInv, NEW t \in Turns, StopExec(t), aborter' = aborter, ingested' = ingested
    PROVE  /\ proc' \in Procs /\ registry' \in {registry, NoTurn} /\ ended \subseteq ended'
           /\ ended' \subseteq Turns /\ execCancels' \in TurnOrNone /\ activeSess' \in TurnOrNone
           /\ \A u \in Turns, b \in Attempts : proc'[u][b].ev = proc[u][b].ev
           /\ \A u \in Turns, b \in Attempts : u # t => proc'[u][b] = proc[u][b]
           /\ \A u \in Turns : ReleasesWell(u)
<1>1. TypeOK
  BY DEF TurnInv
<1>2. CASE registry = t
  <2>1. exec[t].relay \in Attempts
    BY <1>2, RegistryRelay, TurnAssumption
  <2>2. proc' = Stopped(t, exec[t].relay)
    BY <1>2 DEF StopExec
  <2> QED
    BY <1>1, <1>2, <2>1, <2>2, StopsOnly, TurnAssumption DEF StopExec, ReleasesWell, TypeOK, TurnOrNone
<1>3. CASE registry # t
  BY <1>1, <1>3, TurnAssumption DEF StopExec, ReleasesWell, TypeOK, Procs, regVars
<1> QED
  BY <1>2, <1>3

LEMMA GoneJSONStep ==
    ASSUME TurnInv, NEW t \in Turns, GoneJSON(t)
    PROVE  TurnInv'
<1> DEFINE r == [turn[t] EXCEPT !.gone = TRUE]
<1>1. TypeOK /\ Parts(t) /\ turn[t] \in TurnState
  BY Cells DEF TurnInv
<1>2. r \in TurnState /\ r.req = turn[t].req /\ r.attempt = turn[t].attempt /\ r.gone
  BY <1>1 DEF TurnState
<1>3. turn' = [turn EXCEPT ![t] = r] /\ h' = h /\ exec' = exec /\ proc' = proc /\ SameRegistry
  BY DEF GoneJSON, regVars, SameRegistry
<1> HIDE DEF r
<1>4. TurnIs(t, r)
  BY <1>1, <1>2, <1>3, Cells, TurnChange
<1>5. ASSUME NEW u \in Turns, u # t PROVE Parts(u)'
  BY <1>1, <1>3, <1>4, <1>5, Untouched
     DEF TurnInv, TurnIs, SameHandlers, SameExec, SameProcs, SameRegistry, ReleasesWell
<1>6. Parts(t)'
  <2>1. turn'[t].attempt = turn[t].attempt /\ turn'[t].req = turn[t].req /\ ~Undisturbed(t)'
    BY <1>2, <1>4 DEF TurnIs, Undisturbed
  <2>2. Places(t)' /\ Told(t)' /\ Busy(t)' /\ Kept(t)'
    BY <1>1, <1>3, <2>1, PlacesStay, ToldStays DEF Parts, SameHandlers, SameRegistry, Busy, Kept, Registered, PC
  <2>3. AtEvent(t)' /\ Calm(t)' /\ Unstopped(t)' /\ Asked(t)'
    BY <1>1, <1>3, <2>1, DisturbedStays DEF Parts
  <2> QED
    BY <2>2, <2>3 DEF Parts
<1>7. TypeOK'
  BY <1>1, <1>4 DEF TypeOK, GoneJSON, TurnIs, TurnMap, regVars
<1> QED
  BY <1>5, <1>6, <1>7 DEF TurnInv

(* A timer and a drain: only one execution's timer changes. *)
LEMMA TimerOf ==
    ASSUME TypeOK, NEW t \in Turns, NEW x \in ExecState, exec' = [exec EXCEPT ![t] = x],
           x.relay = exec[t].relay
    PROVE  /\ exec' \in Execs /\ exec'[t] = x /\ exec'[t].relay = exec[t].relay
           /\ \A u \in Turns : u # t => SameExec(u)
BY Cells, ExecChange DEF ExecIs, SameExec

LEMMA DrainJSONStep ==
    ASSUME TurnInv, NEW t \in Turns, DrainJSON(t)
    PROVE  TurnInv'
<1> DEFINE term == IF registry = t THEN "error" ELSE "none"
           timer == IF registry = t THEN "off" ELSE exec[t].timer
           v == [h[t]["post"] EXCEPT !.pc = "after", !.term = term]
           x == [exec[t] EXCEPT !.timer = timer]
<1>1. TypeOK /\ Parts(t) /\ PC(t, "post") = "reading" /\ turn[t].gone /\ StopExec(t)
      /\ h[t]["post"] \in HandlerState /\ exec[t] \in ExecState
  BY Cells DEF TurnInv, DrainJSON, Kinds
<1>2. turn' = turn /\ pump' = pump /\ aborter' = aborter /\ ingested' = ingested /\ rec' = rec
      /\ binding' = binding /\ resumed' = resumed
  BY DEF DrainJSON
<1>3. h' = [h EXCEPT ![t]["post"] = v]
  BY <1>1, Cells DEF DrainJSON, Handlers, Kinds
<1>4. exec' = [exec EXCEPT ![t] = x]
  BY <1>1, Cells DEF DrainJSON, Execs
<1>5. v \in HandlerState /\ v.pc = "after" /\ v.rel = h[t]["post"].rel /\ v.cur = h[t]["post"].cur
      /\ v.susp = h[t]["post"].susp
  <2>1. term \in EventKinds \cup {"none"}
    BY DEF EventKinds
  <2> HIDE DEF term
  <2> QED
    BY <1>1, <2>1 DEF HandlerState, Labels
<1>6. x \in ExecState /\ x.relay = exec[t].relay
  <2>1. timer \in {"off", "armed", "fired"}
    BY <1>1 DEF ExecState
  <2> HIDE DEF timer
  <2> QED
    BY <1>1, <2>1 DEF ExecState
<1> HIDE DEF v, x
<1>7. HandlerIs(t, "post", v)
  BY <1>1, <1>3, <1>5, Cells, HandlerChange DEF Kinds
<1>8. /\ exec' \in Execs /\ exec'[t].relay = exec[t].relay /\ \A u \in Turns : u # t => SameExec(u)
  BY <1>1, <1>4, <1>6, TimerOf
<1>9. /\ proc' \in Procs /\ registry' \in {registry, NoTurn} /\ ended \subseteq ended'
      /\ ended' \subseteq Turns /\ execCancels' \in TurnOrNone /\ activeSess' \in TurnOrNone
      /\ \A u \in Turns, b \in Attempts : proc'[u][b].ev = proc[u][b].ev
      /\ \A u \in Turns, b \in Attempts : u # t => proc'[u][b] = proc[u][b]
      /\ \A u \in Turns : ReleasesWell(u)
  BY <1>1, <1>2, StopExecOf
<1>10. ASSUME NEW u \in Turns, u # t PROVE Parts(u)'
  BY <1>1, <1>2, <1>7, <1>8, <1>9, <1>10, Untouched DEF TurnInv, HandlerIs, SameHandlers, SameProcs
<1>11. Parts(t)'
  <2>1. h'[t]["post"] = v /\ h'[t]["follow"] = h[t]["follow"] /\ h'[t]["respond"] = h[t]["respond"]
    BY <1>7 DEF HandlerIs, Kinds
  <2>2. Places(t)'
    BY <1>1, <1>2, <1>5, <1>8, <2>1 DEF Parts, Places, PC, Registered, Kinds, PostLabels, Before,
                        Attending, FollowLabels, RespondLabels
  <2>3. Busy(t)' /\ Kept(t)' /\ Told(t)'
    BY <1>1, <1>5, <1>8, <1>9, <2>1, KeptStays, ToldStays, TurnAssumption DEF Parts, Busy, PC, Registered
  <2>4. ~Undisturbed(t)' /\ SSE(t, "post")' = SSE(t, "post")
    BY <1>1, <1>2 DEF Undisturbed, SSE
  <2>5. h[t]["post"].rel # 0 => h[t]["post"].rel \in Attempts
    BY <1>1, TurnAssumption DEF HandlerState, Attempts
  <2>6. AtEvent(t)' /\ Calm(t)' /\ Unstopped(t)' /\ Asked(t)'
    BY <1>1, <1>5, <1>9, <2>1, <2>4, <2>5 DEF Parts, AtEvent, Calm, Unstopped, Asked
  <2> QED
    BY <2>2, <2>3, <2>6 DEF Parts
<1>12. TypeOK'
  BY <1>1, <1>2, <1>7, <1>8, <1>9 DEF TypeOK, HandlerIs, Handlers, Execs, Procs, TurnOrNone
<1> QED
  BY <1>10, <1>11, <1>12 DEF TurnInv

LEMMA TimerFiresStep ==
    ASSUME TurnInv, NEW t \in Turns, TimerFires(t)
    PROVE  TurnInv'
<1> DEFINE x == [exec[t] EXCEPT !.timer = "fired", !.firing = TRUE]
<1>1. TypeOK /\ Parts(t) /\ exec[t] \in ExecState /\ exec[t].timer = "armed"
  BY Cells DEF TurnInv, TimerFires
<1>2. x \in ExecState /\ x.relay = exec[t].relay
  BY <1>1 DEF ExecState
<1>3. exec' = [exec EXCEPT ![t] = x]
  BY <1>1, Cells DEF TimerFires, Execs
<1>4. h' = h /\ proc' = proc /\ turn' = turn /\ SameRegistry
  BY DEF TimerFires, regVars, SameRegistry
<1> HIDE DEF x
<1>5. exec' \in Execs /\ exec'[t].relay = exec[t].relay /\ \A u \in Turns : u # t => SameExec(u)
  BY <1>1, <1>2, <1>3, TimerOf
<1>6. ASSUME NEW u \in Turns, u # t PROVE Parts(u)'
  BY <1>1, <1>4, <1>5, <1>6, Untouched DEF TurnInv, SameHandlers, SameProcs, SameRegistry, ReleasesWell
<1>7. Parts(t)'
  <2>1. Places(t)' /\ Told(t)' /\ Busy(t)' /\ Kept(t)'
    BY <1>1, <1>4, <1>5, PlacesStay, ToldStays DEF Parts, SameHandlers, SameRegistry, Busy, Kept, Registered, PC
  <2>2. SSE(t, "post") \/ ~Undisturbed(t)
    BY <1>1 DEF Parts, Calm
  <2>3. SSE(t, "post")' = SSE(t, "post") /\ Undisturbed(t)' = Undisturbed(t)
    BY <1>4 DEF SSE, Undisturbed, PC, SameRegistry
  <2>4. AtEvent(t)' /\ Calm(t)' /\ Unstopped(t)' /\ Asked(t)'
    BY <1>1, <1>4, <2>2, <2>3 DEF Parts, AtEvent, Calm, Unstopped, Asked
  <2> QED
    BY <2>1, <2>4 DEF Parts
<1>8. TypeOK'
  BY <1>1, <1>5 DEF TypeOK, TimerFires, Execs, regVars
<1> QED
  BY <1>6, <1>7, <1>8 DEF TurnInv

LEMMA DrainTimeoutStep ==
    ASSUME TurnInv, NEW t \in Turns, DrainTimeout(t)
    PROVE  TurnInv'
<1> DEFINE x == TimedOut(exec[t], registry = t)
<1>1. TypeOK /\ Parts(t) /\ exec[t] \in ExecState /\ exec[t].firing /\ StopExec(t)
  BY Cells DEF TurnInv, DrainTimeout
<1>2. h' = h /\ turn' = turn /\ pump' = pump /\ aborter' = aborter /\ ingested' = ingested /\ rec' = rec
      /\ binding' = binding /\ resumed' = resumed
  BY DEF DrainTimeout
<1>3. exec' = [exec EXCEPT ![t] = x]
  BY DEF DrainTimeout
<1>4. x \in ExecState /\ x.relay = exec[t].relay
  <2>1. CASE registry = t
    BY <1>1, <2>1 DEF ExecState, TimedOut
  <2>2. CASE registry # t
    BY <1>1, <2>2 DEF ExecState, TimedOut
  <2> QED
    BY <2>1, <2>2
<1> HIDE DEF x
<1>5. exec' \in Execs /\ exec'[t].relay = exec[t].relay /\ \A u \in Turns : u # t => SameExec(u)
  BY <1>1, <1>3, <1>4, TimerOf
<1>6. /\ proc' \in Procs /\ registry' \in {registry, NoTurn} /\ ended \subseteq ended'
      /\ ended' \subseteq Turns /\ execCancels' \in TurnOrNone /\ activeSess' \in TurnOrNone
      /\ \A u \in Turns, b \in Attempts : proc'[u][b].ev = proc[u][b].ev
      /\ \A u \in Turns, b \in Attempts : u # t => proc'[u][b] = proc[u][b]
      /\ \A u \in Turns : ReleasesWell(u)
  BY <1>1, <1>2, StopExecOf
<1>7. ASSUME NEW u \in Turns, u # t PROVE Parts(u)'
  BY <1>1, <1>2, <1>5, <1>6, <1>7, Untouched DEF TurnInv, SameHandlers, SameProcs
<1>8. Parts(t)'
  <2>1. Places(t)' /\ Told(t)' /\ Kept(t)'
    BY <1>1, <1>2, <1>5, <1>6, PlacesStay, ToldStays, KeptStays DEF Parts, SameHandlers
  <2>2. Busy(t)'
    BY <1>1, <1>2, <1>5, <1>6, BusyStays DEF Parts, SameHandlers, ReleasesWell
  <2>3. SSE(t, "post") \/ ~Undisturbed(t)
    BY <1>1 DEF Parts, Calm
  <2>4. CASE SSE(t, "post")
    <3>1. SSE(t, "post")'
      BY <1>2, <2>4 DEF SSE
    <3>2. AtEvent(t)' /\ Calm(t)' /\ Unstopped(t)' /\ Asked(t)'
      BY <3>1 DEF AtEvent, Calm, Unstopped, Asked
    <3> QED
      BY <2>1, <2>2, <3>2 DEF Parts
  <2>5. CASE ~SSE(t, "post")
    <3>1. ~Undisturbed(t)'
      BY <1>2, <2>3, <2>5 DEF Undisturbed, PC
    <3>2. AtEvent(t)' /\ Calm(t)' /\ Unstopped(t)' /\ Asked(t)'
      BY <1>1, <1>2, <1>6, <3>1, DisturbedStays DEF Parts
    <3> QED
      BY <2>1, <2>2, <3>2 DEF Parts
  <2> QED
    BY <2>4, <2>5
<1>9. TypeOK'
  BY <1>1, <1>2, <1>5, <1>6 DEF TypeOK, Execs, Procs, TurnOrNone
<1> QED
  BY <1>7, <1>8, <1>9 DEF TurnInv

(* A second handler takes part in turn t. *)
LEMMA HandlerComes ==
    ASSUME TypeOK, NEW t \in Turns, NEW k \in {"follow", "respond"}, NEW v \in HandlerState,
           h' = [h EXCEPT ![t][k] = v], v.pc \in {"reading"} \cup (IF k = "respond" THEN {"refused"} ELSE {}),
           v.pc = "reading" => v.rel # 0, k = "follow" => v.term = "none",
           NEW x \in ExecState, exec' = [exec EXCEPT ![t] = x], x.relay = exec[t].relay, registry = t,
           \A a \in Attempts : proc'[t][a].ev = proc[t][a].ev,
           \A u \in Turns : u # t => \A a \in Attempts : proc'[u][a] = proc[u][a],
           turn' = turn, SameRegistry, \A u \in Turns : Parts(u)
    PROVE  h' \in Handlers /\ exec' \in Execs /\ \A u \in Turns : Parts(u)'
<1>1. HandlerIs(t, k, v)
  BY Cells, HandlerChange DEF Kinds
<1>2. exec' \in Execs /\ exec'[t].relay = exec[t].relay /\ \A u \in Turns : u # t => SameExec(u)
  BY TimerOf
<1>3. ASSUME NEW u \in Turns, u # t PROVE Parts(u)'
  BY <1>1, <1>2, <1>3, Untouched DEF HandlerIs, SameHandlers, SameProcs, SameRegistry, ReleasesWell
<1>4. Parts(t)'
  <2>1. Parts(t) /\ Registered(t)
    BY DEF Parts, Busy
  <2>2. h'[t][k] = v /\ \A j \in Kinds : j # k => h'[t][j] = h[t][j]
    BY <1>1 DEF HandlerIs, Kinds
  <2>3. Places(t)'
    <3>1. CASE k = "follow"
      BY <1>2, <2>1, <2>2, <3>1 DEF Parts, Places, PC, Registered, Kinds, FollowLabels
    <3>2. CASE k = "respond"
      BY <1>2, <2>1, <2>2, <3>2 DEF Parts, Places, PC, Registered, Kinds, RespondLabels
    <3> QED
      BY <3>1, <3>2
  <2>4. Busy(t)' /\ Kept(t)'
    <3>1. v.pc # "returned"
      OBVIOUS
    <3> QED
      BY <1>2, <2>1, <2>2, <3>1 DEF Parts, Busy, Kept, PC, Registered, SameRegistry, Kinds
  <2>5. Told(t)'
    <3>1. CASE k = "follow"
      BY <2>2, <3>1 DEF Told, Kinds
    <3>2. CASE k = "respond"
      BY <2>1, <2>2, <3>2, ToldStays DEF Parts, Kinds
    <3> QED
      BY <3>1, <3>2
  <2>6. ~Undisturbed(t)' /\ h'[t]["post"] = h[t]["post"]
    <3>1. v.pc # "off"
      OBVIOUS
    <3> QED
      BY <2>2, <3>1 DEF Undisturbed, PC, Kinds
  <2>7. AtEvent(t)' /\ Calm(t)' /\ Unstopped(t)' /\ Asked(t)'
    BY <2>1, <2>6, DisturbedStays DEF Parts
  <2> QED
    BY <2>3, <2>4, <2>5, <2>7 DEF Parts
<1> QED
  BY <1>1, <1>2, <1>3, <1>4 DEF HandlerIs

LEMMA AttachedHandler ==
    ASSUME NEW a \in Attempts, NEW n \in Nat
    PROVE  LET v == [Handler EXCEPT !.pc = "reading", !.rel = a, !.cur = n]
           IN v \in HandlerState /\ v.pc = "reading" /\ v.rel # 0 /\ v.term = "none"
<1> DEFINE v == [Handler EXCEPT !.pc = "reading", !.rel = a, !.cur = n]
<1>1. a \in 0..MaxAttempts /\ a # 0
  BY TurnAssumption DEF Attempts
<1>2. v \in HandlerState /\ v.pc = "reading" /\ v.rel = a /\ v.term = "none"
  BY <1>1 DEF Handler, HandlerState, Labels, EventKinds
<1> QED
  BY <1>1, <1>2

LEMMA FollowStep ==
    ASSUME TurnInv, NEW t \in Turns, Follow(t)
    PROVE  TurnInv'
<1>1. TypeOK /\ registry = t /\ exec[t].relay \in Attempts /\ exec[t] \in ExecState
  BY RegistryRelay, Cells, TurnAssumption DEF TurnInv, Follow
<1>2. PICK n \in 0..Len(Relay(t).ev) : h' = Attached(t, "follow", exec[t].relay, n)
  BY DEF Follow
<1> DEFINE v == [Handler EXCEPT !.pc = "reading", !.rel = exec[t].relay, !.cur = n]
           x == Subscribed(exec[t], "follow")
<1>3. n \in Nat
  BY <1>1, EventsOf DEF Relay
<1>4. v \in HandlerState /\ v.pc = "reading" /\ v.rel # 0 /\ v.term = "none"
  BY <1>1, <1>3, AttachedHandler
<1>5. h' = [h EXCEPT ![t]["follow"] = v]
  BY <1>2 DEF Attached
<1>6. x \in ExecState /\ x.relay = exec[t].relay /\ exec' = [exec EXCEPT ![t] = x]
  BY <1>1, Subscription DEF Follow, Kinds
<1>7. proc' = proc /\ turn' = turn /\ SameRegistry
  BY DEF Follow, regVars, SameRegistry
<1> HIDE DEF v, x
<1>8. h' \in Handlers /\ exec' \in Execs /\ \A u \in Turns : Parts(u)'
  BY <1>1, <1>4, <1>5, <1>6, <1>7, HandlerComes DEF TurnInv
<1>9. TypeOK'
  BY <1>1, <1>8 DEF TypeOK, Follow, Handlers, Execs, regVars
<1> QED
  BY <1>8, <1>9 DEF TurnInv

LEMMA AnsweredOf ==
    ASSUME TurnInv, NEW t \in Turns, Answered(t)
    PROVE  /\ TypeOK /\ registry = t /\ exec[t].relay \in Attempts /\ exec[t] \in ExecState
           /\ proc' \in Procs /\ rec' \in RecordState
           /\ \A a \in Attempts : proc'[t][a].ev = proc[t][a].ev
           /\ \A u \in Turns : u # t => \A a \in Attempts : proc'[u][a] = proc[u][a]
           /\ turn' = turn /\ SameRegistry
<1> DEFINE a == exec[t].relay
           p == [proc[t][a] EXCEPT !.st = "running"]
<1>1. TypeOK /\ registry = t /\ a \in Attempts /\ exec[t] \in ExecState
  BY RegistryRelay, Cells, TurnAssumption DEF TurnInv, Answered
<1>2. p \in ProcState /\ p.ev = proc[t][a].ev
  BY <1>1, Cells DEF ProcState
<1>3. proc' = [proc EXCEPT ![t][a] = p]
  BY DEF Answered
<1> HIDE DEF p
<1>4. ProcIs(t, a, p)
  BY <1>1, <1>2, <1>3, Cells, ProcChange
<1>5. rec' \in RecordState
  BY <1>1, RecordOf DEF Answered, TypeOK
<1>6. turn' = turn /\ SameRegistry
  BY DEF Answered, SameRegistry, regVars
<1> QED
  BY <1>1, <1>2, <1>4, <1>5, <1>6 DEF ProcIs

LEMMA RespondStep ==
    ASSUME TurnInv, NEW t \in Turns, Respond(t)
    PROVE  TurnInv'
<1> DEFINE v == [Handler EXCEPT !.pc = "reading", !.rel = exec[t].relay, !.cur = exec[t].offset]
           e == [exec[t] EXCEPT !.status = "active"]
           x == Subscribed(e, "respond")
<1>1. /\ TypeOK /\ registry = t /\ exec[t].relay \in Attempts /\ exec[t] \in ExecState
      /\ proc' \in Procs /\ rec' \in RecordState
      /\ \A a \in Attempts : proc'[t][a].ev = proc[t][a].ev
      /\ \A u \in Turns : u # t => \A a \in Attempts : proc'[u][a] = proc[u][a]
      /\ turn' = turn /\ SameRegistry
  BY AnsweredOf DEF Respond
<1>2. v \in HandlerState /\ v.pc = "reading" /\ v.rel # 0
  BY <1>1, AttachedHandler DEF ExecState
<1>3. h' = [h EXCEPT ![t]["respond"] = v]
  BY DEF Respond, Attached
<1>4. x \in ExecState /\ x.relay = exec[t].relay /\ exec' = [exec EXCEPT ![t] = x]
  <2>1. e \in ExecState /\ e.relay = exec[t].relay
    BY <1>1 DEF ExecState
  <2>2. exec' = [exec EXCEPT ![t] = x]
    BY DEF Respond
  <2> HIDE DEF e
  <2> QED
    BY <2>1, <2>2, Subscription DEF Kinds
<1> HIDE DEF v, x
<1>5. h' \in Handlers /\ exec' \in Execs /\ \A u \in Turns : Parts(u)'
  BY <1>1, <1>2, <1>3, <1>4, HandlerComes DEF TurnInv
<1>6. TypeOK'
  BY <1>1, <1>5 DEF TypeOK, Respond, Answered, Handlers, Execs, Procs, regVars
<1> QED
  BY <1>5, <1>6 DEF TurnInv

LEMMA RespondNotAcceptableStep ==
    ASSUME TurnInv, NEW t \in Turns, RespondNotAcceptable(t)
    PROVE  TurnInv'
<1> DEFINE v == [h[t]["respond"] EXCEPT !.pc = "refused"]
           x == [exec[t] EXCEPT !.status = "active"]
<1>1. /\ TypeOK /\ registry = t /\ exec[t].relay \in Attempts /\ exec[t] \in ExecState
      /\ proc' \in Procs /\ rec' \in RecordState
      /\ \A a \in Attempts : proc'[t][a].ev = proc[t][a].ev
      /\ \A u \in Turns : u # t => \A a \in Attempts : proc'[u][a] = proc[u][a]
      /\ turn' = turn /\ SameRegistry
  BY AnsweredOf DEF RespondNotAcceptable
<1>2. v \in HandlerState /\ v.pc = "refused"
  BY <1>1, Cells DEF HandlerState, Kinds, Labels
<1>3. h' = [h EXCEPT ![t]["respond"] = v]
  BY DEF RespondNotAcceptable, Goto
<1>4. x \in ExecState /\ x.relay = exec[t].relay /\ exec' = [exec EXCEPT ![t] = x]
  BY <1>1 DEF ExecState, RespondNotAcceptable
<1> HIDE DEF v, x
<1>5. h' \in Handlers /\ exec' \in Execs /\ \A u \in Turns : Parts(u)'
  BY <1>1, <1>2, <1>3, <1>4, HandlerComes DEF TurnInv
<1>6. TypeOK'
  BY <1>1, <1>5 DEF TypeOK, RespondNotAcceptable, Answered, Handlers, Execs, Procs, regVars
<1> QED
  BY <1>5, <1>6 DEF TurnInv

(* The pump changes the record and the executions' status. *)
LEMMA StatusOnly ==
    ASSUME TypeOK, \A u \in Turns : Parts(u) /\ SameExec(u), h' = h, proc' = proc, turn' = turn, SameRegistry
    PROVE  \A u \in Turns : Parts(u)'
BY Untouched DEF SameHandlers, SameProcs, SameRegistry, ReleasesWell

LEMMA PumpHeadOf ==
    ASSUME TypeOK, NEW t \in Turns, PumpHead(t)
    PROVE  pump' \in [Turns -> PumpState]
<1>1. pump[t] \in PumpState /\ exec[t] \in ExecState
  BY Cells
<1>2. [pump[t] EXCEPT !.pc = "off"] \in PumpState
      /\ [pc |-> "range", att |-> exec[t].relay, cur |-> 0] \in PumpState
  BY <1>1 DEF PumpState, ExecState
<1> QED
  BY <1>2 DEF PumpHead, TypeOK

LEMMA PumpStep ==
    ASSUME TurnInv, NEW t \in Turns, Pump(t)
    PROVE  TurnInv'
<1>1. TypeOK /\ pump[t] \in PumpState /\ exec[t] \in ExecState
  BY Cells DEF TurnInv
<1>2. h' = h /\ proc' = proc /\ turn' = turn /\ SameRegistry /\ binding' = binding /\ resumed' = resumed
      /\ execCancels' = execCancels /\ activeSess' = activeSess
  BY DEF Pump, PumpStarts, PumpEvent, PumpLoops, regVars, SameRegistry
<1>3. CASE PumpStarts(t) \/ PumpLoops(t)
  <2>1. exec' = exec /\ rec' = rec /\ PumpHead(t)
    BY <1>3 DEF PumpStarts, PumpLoops
  <2>2. \A u \in Turns : Parts(u)'
    BY <1>1, <1>2, <2>1, StatusOnly DEF TurnInv, SameExec
  <2>3. TypeOK'
    BY <1>1, <1>2, <2>1, PumpHeadOf DEF TypeOK, SameRegistry
  <2> QED
    BY <2>2, <2>3 DEF TurnInv
<1>4. CASE PumpEvent(t)
  <2>1. exec' \in {exec, Suspended(t)} /\ pump' = [pump EXCEPT ![t].cur = @ + 1]
    BY <1>4 DEF PumpEvent
  <2>2. exec' \in Execs /\ \A u \in Turns : SameExec(u)
    BY <1>1, <2>1, SuspendedOnly, Cells DEF SameExec
  <2>3. \A u \in Turns : Parts(u)'
    BY <1>1, <1>2, <2>2, StatusOnly DEF TurnInv
  <2>4. rec' \in RecordState
    BY <1>1, <1>4, RecordOf DEF PumpEvent, TypeOK, Natives
  <2>5. pump' \in [Turns -> PumpState]
    BY <1>1, <2>1 DEF TypeOK, PumpState
  <2>6. TypeOK'
    BY <1>1, <1>2, <2>2, <2>4, <2>5 DEF TypeOK, SameRegistry, Execs
  <2> QED
    BY <2>3, <2>6 DEF TurnInv
<1> QED
  BY <1>3, <1>4 DEF Pump

(* An agent writes at the end of its relay, and is not stopped by itself. *)
LEMMA Appends ==
    ASSUME NEW s \in Seq(EventKinds), NEW e \in EventKinds
    PROVE  /\ Append(s, e) \in Seq(EventKinds) /\ Len(s) \in Nat /\ Len(Append(s, e)) = Len(s) + 1
           /\ \A i \in 1..Len(s) : Append(s, e)[i] = s[i]
OBVIOUS

LEMMA AgentMoves ==
    ASSUME TypeOK, NEW t \in Turns, NEW a \in Attempts, NEW p \in ProcState, proc' = [proc EXCEPT ![t][a] = p],
           Len(proc[t][a].ev) <= Len(p.ev), \A i \in 1..Len(proc[t][a].ev) : p.ev[i] = proc[t][a].ev[i],
           p.st = "closed" => proc[t][a].st = "closed",
           h' = h, exec' = exec, turn' = turn, SameRegistry, \A u \in Turns : Parts(u)
    PROVE  proc' \in Procs /\ \A u \in Turns : Parts(u)'
<1>1. ProcIs(t, a, p)
  BY Cells, ProcChange
<1>2. ASSUME NEW u \in Turns, u # t PROVE Parts(u)'
  BY <1>1, <1>2, Untouched DEF ProcIs, SameHandlers, SameExec, SameProcs, SameRegistry, ReleasesWell
<1>3. Parts(t)'
  <2>1. Parts(t) /\ h[t]["post"] \in HandlerState /\ turn[t] \in TurnState
    BY Cells DEF Kinds
  <2>2. Places(t)' /\ Told(t)' /\ Busy(t)' /\ Kept(t)'
    BY <2>1, PlacesStay, ToldStays DEF Parts, SameHandlers, SameRegistry, Busy, Kept, Registered, PC
  <2> DEFINE r == h[t]["post"].rel
             c == h[t]["post"].cur
  <2>3. /\ r # 0 => r \in Attempts
        /\ h[t]["post"].pc = "register" => turn[t].attempt \in Attempts
    BY <2>1, TurnAssumption DEF Parts, Places, PC, HandlerState, TurnState, Attempts, Before
  <2>4. \A b \in Attempts : /\ Len(proc[t][b].ev) <= Len(proc'[t][b].ev)
                            /\ \A i \in 1..Len(proc[t][b].ev) : proc'[t][b].ev[i] = proc[t][b].ev[i]
                            /\ proc'[t][b].st = "closed" => proc[t][b].st = "closed"
                            /\ Len(proc[t][b].ev) \in Nat /\ Len(proc'[t][b].ev) \in Nat
    <3>1. Len(p.ev) \in Nat
      BY LenProperties DEF ProcState
    <3> QED
      BY <1>1, <3>1, EventsOf DEF ProcIs
  <2>5. SSE(t, "post")' = SSE(t, "post") /\ Undisturbed(t)' = Undisturbed(t)
    BY DEF SSE, Undisturbed, PC, SameRegistry
  <2>6. c \in Nat
    BY <2>1 DEF HandlerState
  <2>7. AtEvent(t)'
    BY <2>1, <2>3, <2>4, <2>5, <2>6 DEF Parts, AtEvent
  <2>8. Calm(t)'
    BY <2>1, <2>5 DEF Parts, Calm
  <2>9. Unstopped(t)'
    BY <2>1, <2>3, <2>4, <2>5, TurnAssumption DEF Parts, Unstopped
  <2>10. Asked(t)'
    <3>1. ~SSE(t, "post") /\ r # 0 /\ c # 0 => c \in 1..Len(proc[t][r].ev)
      BY <2>1, <2>3, <2>4, <2>6 DEF Parts, AtEvent
    <3>2. ~SSE(t, "post") /\ r # 0 /\ c # 0 => proc'[t][r].ev[c] = proc[t][r].ev[c]
      BY <2>3, <2>4, <3>1
    <3> QED
      BY <2>1, <2>5, <3>2 DEF Parts, Asked
  <2> QED
    BY <2>2, <2>7, <2>8, <2>9, <2>10 DEF Parts
<1> QED
  BY <1>1, <1>2, <1>3 DEF ProcIs

LEMMA AgentStep ==
    ASSUME TurnInv, NEW t \in Turns, NEW a \in Attempts, Agent(t, a)
    PROVE  TurnInv'
<1>1. TypeOK /\ proc[t][a] \in ProcState /\ turn[t].req.events \subseteq EventKinds
  <2>1. TypeOK
    BY DEF TurnInv
  <2>2. turn[t].req \in Request
    BY <2>1, Cells, TurnAssumption DEF TurnState
  <2> QED
    BY <2>1, <2>2, Cells DEF Request
<1>2. h' = h /\ exec' = exec /\ turn' = turn /\ SameRegistry
  BY DEF Agent, AgentEmit, AgentExit, regVars, SameRegistry
<1>3. PICK p \in ProcState :
        /\ proc' = [proc EXCEPT ![t][a] = p] /\ Len(proc[t][a].ev) <= Len(p.ev)
        /\ \A i \in 1..Len(proc[t][a].ev) : p.ev[i] = proc[t][a].ev[i]
        /\ p.st = "closed" => proc[t][a].st = "closed"
  <2>1. CASE AgentExit(t, a)
    <3> DEFINE p == [proc[t][a] EXCEPT !.st = "exited", !.done = TRUE]
    <3>1. p \in ProcState /\ p.ev = proc[t][a].ev /\ p.st = "exited"
      BY <1>1 DEF ProcState
    <3>2. proc' = [proc EXCEPT ![t][a] = p]
      BY <1>1, <2>1, Cells DEF AgentExit, Procs
    <3>3. Len(proc[t][a].ev) <= Len(proc[t][a].ev)
      BY <1>1, EventsOf
    <3> HIDE DEF p
    <3> QED
      BY <3>1, <3>2, <3>3
  <2>2. CASE AgentEmit(t, a)
    <3>1. PICK e \in EventKinds : proc' = [proc EXCEPT ![t][a] = Said(proc[t][a], e)]
      BY <1>1, <2>2 DEF AgentEmit
    <3> DEFINE p == Said(proc[t][a], e)
               s == Append(proc[t][a].ev, e)
               st == IF e = "input" /\ proc[t][a].st = "running" THEN "waiting" ELSE proc[t][a].st
    <3>2. proc[t][a].ev \in Seq(EventKinds)
      BY <1>1 DEF ProcState
    <3>3. /\ s \in Seq(EventKinds) /\ Len(proc[t][a].ev) <= Len(s)
          /\ \A i \in 1..Len(proc[t][a].ev) : s[i] = proc[t][a].ev[i]
      <4>1. /\ s \in Seq(EventKinds) /\ Len(proc[t][a].ev) \in Nat
            /\ Len(s) = Len(proc[t][a].ev) + 1
            /\ \A i \in 1..Len(proc[t][a].ev) : s[i] = proc[t][a].ev[i]
        BY <3>2, Appends, Zenon
      <4> QED
        BY <4>1
    <3>4. st \in {"none", "running", "waiting", "closed", "exited"} /\ (st = "closed" => proc[t][a].st = "closed")
      BY <1>1 DEF ProcState
    <3>5. p = [proc[t][a] EXCEPT !.ev = s, !.st = st]
      <4>1. CASE e = "input" /\ proc[t][a].st = "running"
        BY <1>1, <4>1 DEF Said, ProcState
      <4>2. CASE ~(e = "input" /\ proc[t][a].st = "running")
        BY <1>1, <4>2 DEF Said, ProcState
      <4> QED
        BY <4>1, <4>2
    <3> HIDE DEF s, st, p
    <3>6. p \in ProcState /\ p.ev = s /\ p.st = st
      BY <1>1, <3>3, <3>4, <3>5 DEF ProcState
    <3>7. proc' = [proc EXCEPT ![t][a] = p]
      BY <3>1 DEF p
    <3> QED
      BY <3>3, <3>4, <3>6, <3>7
  <2> QED
    BY <2>1, <2>2 DEF Agent
<1>4. proc' \in Procs /\ \A u \in Turns : Parts(u)'
  BY <1>1, <1>2, <1>3, AgentMoves DEF TurnInv
<1>5. TypeOK'
  BY <1>1, <1>4 DEF TypeOK, Agent, AgentEmit, AgentExit, Procs, regVars
<1> QED
  BY <1>4, <1>5 DEF TurnInv
-----------------------------------------------------------------------------
(* The invariant holds.                                                    *)

LEMMA TurnInvInit == Init => TurnInv
<1> SUFFICES ASSUME Init PROVE TurnInv
  OBVIOUS
<1>1. Handler \in HandlerState
  BY TurnAssumption DEF Handler, HandlerState, Labels, EventKinds
<1>2. h \in Handlers /\ \A t \in Turns, k \in Kinds : h[t][k] = Handler
  BY <1>1 DEF Init, Handlers
<1>3. turn \in TurnMap
  <2>1. 0 \in 0..MaxAttempts
    BY TurnAssumption
  <2>2. \A r \in Requests : [req |-> r, attempt |-> 0, heal |-> FALSE, ctxDone |-> FALSE,
                             gone |-> FALSE] \in TurnState
    BY <2>1 DEF TurnState
  <2> QED
    BY <2>2 DEF Init, TurnMap
<1>4. exec \in Execs /\ \A t \in Turns : /\ exec[t].relay = 0 /\ exec[t].timer = "off"
                                         /\ exec[t].firing = FALSE /\ exec[t].sub = "none"
  BY TurnAssumption DEF Init, Execs, ExecState
<1>5. pump \in [Turns -> PumpState]
  BY TurnAssumption DEF Init, PumpState
<1>6. proc \in Procs
  <2>1. <<>> \in Seq(EventKinds)
    OBVIOUS
  <2> QED
    BY <2>1 DEF Init, Procs, ProcState
<1>7. rec \in RecordState /\ binding \in Natives
  BY DEF Init, RecordState, Natives
<1>8. TypeOK
  BY <1>2, <1>3, <1>4, <1>5, <1>6, <1>7 DEF TypeOK, Init, TurnOrNone, Handlers, TurnMap, Execs, Procs
<1>9. ASSUME NEW t \in Turns PROVE Parts(t)
  <2>1. \A k \in Kinds : /\ h[t][k].pc = "off" /\ h[t][k].rel = 0 /\ h[t][k].cur = 0
                          /\ h[t][k].susp = FALSE
    BY <1>2 DEF Handler
  <2>2. Places(t) /\ Told(t)
    BY <1>4, <2>1 DEF Places, Told, PC, Registered, Kinds, PostLabels, FollowLabels, RespondLabels,
                     Before, Attending
  <2>3. Busy(t) /\ Kept(t)
    BY <1>4, TurnAssumption DEF Busy, Kept, Registered, Init
  <2>4. AtEvent(t) /\ Calm(t) /\ Unstopped(t) /\ Asked(t)
    BY <1>4, <2>1 DEF AtEvent, Calm, Unstopped, Asked, Kinds
  <2> QED
    BY <2>2, <2>3, <2>4 DEF Parts
<1> QED
  BY <1>8, <1>9 DEF TurnInv

LEMMA TurnInvStutters ==
    ASSUME TurnInv, UNCHANGED vars
    PROVE  TurnInv'
<1>1. /\ h' = h /\ exec' = exec /\ proc' = proc /\ turn' = turn /\ SameRegistry
      /\ TypeOK
  BY DEF vars, regVars, SameRegistry, TurnInv
<1>2. \A u \in Turns : Parts(u)'
  BY <1>1, StatusOnly DEF TurnInv, SameExec
<1>3. TypeOK'
  BY DEF vars, regVars, TypeOK, TurnInv
<1> QED
  BY <1>2, <1>3 DEF TurnInv

LEMMA TurnInvStep ==
    ASSUME TurnInv, Next
    PROVE  TurnInv'
<1>1. ASSUME NEW t \in Turns, Turn(t) PROVE TurnInv'
  BY <1>1, SendMessageStep, RegisterCancelStep, CreateFailsStep, SendFailsStep, StartAgentStep,
     RegisterStep, AfterSuspendsStep, AfterRetriesStep, RetryWaitStep DEF Turn
<1>2. ASSUME NEW t \in Turns, NEW k \in Kinds, Stream(t, k) PROVE TurnInv'
  BY <1>2, ReadSSEStep, EndSSEStep, PostResultDrainStep, LeaveStep, AfterEndsStep, PollDetachedStep,
     FinishStep DEF Stream
<1>3. ASSUME NEW t \in Turns, JSON(t) PROVE TurnInv'
  BY <1>3, ReadJSONStep, GoneJSONStep, EndJSONStep, DrainJSONStep DEF JSON
<1>4. ASSUME NEW t \in Turns, Client(t) \/ Timer(t) PROVE TurnInv'
  BY <1>4, FollowStep, RespondStep, RespondNotAcceptableStep, TimerFiresStep, DrainTimeoutStep
     DEF Client, Timer
<1>5. ASSUME NEW t \in Turns, Pump(t) PROVE TurnInv'
  BY <1>5, PumpStep
<1>6. ASSUME NEW t \in Turns, NEW a \in Attempts, Agent(t, a) PROVE TurnInv'
  BY <1>6, AgentStep
<1>7. CASE Abort
  BY <1>7, CancelStep, TerminateStep, AbortContextStep DEF Abort
<1> QED
  BY <1>1, <1>2, <1>3, <1>4, <1>5, <1>6, <1>7 DEF Next

LEMMA TurnInvHolds == Spec => []TurnInv
<1>1. TurnInv /\ [Next]_vars => TurnInv'
  BY TurnInvStep, TurnInvStutters
<1> QED
  BY <1>1, TurnInvInit, PTL DEF Spec

(* The registries, the record, the handlers' locals, the executions, the   *)
(* pumps and the agents' relays keep their types through every step of     *)
(* agentservice's handlers.                                                *)
THEOREM TypeCorrect == Spec => []TypeOK
<1>1. TurnInv => TypeOK
  BY DEF TurnInv
<1> QED
  BY <1>1, TurnInvHolds, PTL

(* A busy session is accounted for, whatever the clients do and in every   *)
(* order of the handlers' steps: a handler will still come to its          *)
(* finishActiveExecution, or the turn waits for an answer, and its agent   *)
(* is alive to get it (handler.go, handler_follow.go, exec_registry.go).   *)
THEOREM BusyIsAccounted == Spec => []BusyAccounted
<1>1. TurnInv => BusyHasHandler
  <2> SUFFICES ASSUME TurnInv, NEW t \in Turns, registry = t
               PROVE  \/ PC(t, "post") \in {"reading", "after", "retrywait", "create", "detached", "finish"}
                      \/ PC(t, "post") = "suspended" /\ PC(t, "respond") = "off"
                      \/ PC(t, "respond") \in {"reading", "after", "detached", "finish"}
                      \/ PC(t, "respond") = "refused"
    BY DEF BusyHasHandler
  <2>1. Places(t) /\ Busy(t)
    BY DEF TurnInv, Parts
  <2> QED
    BY <2>1 DEF Places, Busy, PostLabels, RespondLabels, Before
<1>2. TurnInv => SuspendedKeepsAgent
  <2> SUFFICES ASSUME TurnInv, NEW t \in Turns, ~SSE(t, "post"), PC(t, "follow") = "off", ~turn[t].gone,
                      h[t]["post"].rel # 0,
                      h[t]["post"].cur \in 1..Len(proc[t][h[t]["post"].rel].ev),
                      proc[t][h[t]["post"].rel].ev[h[t]["post"].cur] = "input",
                      PC(t, "respond") = "off", aborter = "none"
               PROVE  proc[t][h[t]["post"].rel].st # "closed"
    BY DEF SuspendedKeepsAgent
  <2>1. Undisturbed(t) /\ h[t]["post"].cur # 0
    BY DEF Undisturbed
  <2> QED
    BY <2>1 DEF TurnInv, Parts, Asked, Unstopped
<1>3. TurnInv => BusyAccounted
  BY <1>1, <1>2 DEF BusyAccounted
<1> QED
  BY <1>3, TurnInvHolds, PTL

(* A turn that ended is wound up, whatever the clients do: when its        *)
(* request returns its events are in the canonical history, unless it was  *)
(* ended by cancel, terminate or a drain timeout, and a follower whose     *)
(* stream ran out was sent the terminal event (finishActiveExecution,      *)
(* attachSSE, writeSyntheticTerminal).                                     *)
THEOREM EndsAreExplicit == Spec => []EndsExplicit
<1>1. TurnInv => ReturnedIngested
  <2> SUFFICES ASSUME TurnInv, NEW t \in Turns \ ended, PC(t, "post") = "returned", Registered(t)
               PROVE  t \in ingested
    BY DEF ReturnedIngested
  <2>1. Kept(t) /\ Busy(t)
    BY DEF TurnInv, Parts
  <2> QED
    BY <2>1 DEF Kept, Busy
<1>2. TurnInv => FollowEndsExplicit
  BY DEF TurnInv, Parts, Told, FollowEndsExplicit
<1>3. TurnInv => EndsExplicit
  BY <1>1, <1>2 DEF EndsExplicit
<1> QED
  BY <1>3, TurnInvHolds, PTL

-----------------------------------------------------------------------------
(***************************************************************************)
(* The second part: the retry loop, what it may and may not do for any     *)
(* clients and any requests; and, when the clients are patient, that the   *)
(* session serves one turn and runs one agent at a time and that the retry *)
(* loop is exact.                                                          *)
(***************************************************************************)

-----------------------------------------------------------------------------
(* The attempts of a turn, in their order.                                 *)

Starting == {"create", "retrywait"}

(* An attempt is started when its turn comes to it, and the execution      *)
(* holds the relay of the current one.                                     *)
Numbered(t) ==
    LET n == turn[t].attempt
        p == h[t]["post"]
    IN /\ p.pc \in Before => n = 0
       /\ n <= turn[t].req.attempts
       /\ \A a \in Attempts : a > n \/ (a = n /\ p.pc \in Starting) => proc[t][a].st = "none"
       /\ p.pc \in Attending \ {"retrywait"} => exec[t].relay = n
       /\ p.pc = "reading" => p.rel = n
       /\ p.pc = "register" => proc[t][n].st # "none"
       /\ ~Registered(t) => p.term = "none"
       /\ Registered(t) => exec[t].relay <= n /\ proc[t][exec[t].relay].st # "none"
       /\ n > 1 => turn[t].heal

(* A process that was not started said nothing; one whose relay is done    *)
(* has exited, unless a cancel ended it.                                   *)
Wellborn(t) ==
    \A a \in Attempts : /\ proc[t][a].st = "none" => proc[t][a].ev = <<>> /\ ~proc[t][a].done
                        /\ t \notin ended /\ proc[t][a].done => proc[t][a].st = "exited"

(* What the attempts before the current one left behind, and what the      *)
(* current one did when the POST is about to retry it.                     *)
Resultless(t, a) == proc[t][a].st \in {"none", "exited"} /\ ~Has(proc[t][a].ev, "result")
Earlier(t) ==
    SSE(t, "post") /\ t \notin ended =>
        \A a \in Attempts : a < turn[t].attempt => Resultless(t, a)
AtRetry(t) ==
    LET p == h[t]["post"]
    IN SSE(t, "post") /\ t \notin ended /\ p.pc = "after" /\ ~p.susp /\ p.term = "retry" =>
           Resultless(t, turn[t].attempt)

(* A POST that ends on a retryable error has no attempt left. *)
Spent(t) ==
    LET p == h[t]["post"]
    IN /\ p.pc \in {"finish", "returned"} /\ p.term = "retry" /\ ~turn[t].ctxDone
       /\ proc[t][turn[t].attempt].st # "none"
       => turn[t].attempt = turn[t].req.attempts

Orders(t) == Numbered(t) /\ Wellborn(t) /\ Earlier(t) /\ AtRetry(t) /\ Spent(t)
RetryInv == TurnInv /\ \A t \in Turns : Orders(t)

-----------------------------------------------------------------------------
(* Changing one cell, whatever the new value is.                           *)

LEMMA HandlerWent ==
    ASSUME TypeOK, NEW t \in Turns, NEW k \in Kinds, NEW label, Goto(t, k, label)
    PROVE  /\ h'[t][k].pc = label /\ h'[t][k].term = h[t][k].term /\ h'[t][k].susp = h[t][k].susp
           /\ h'[t][k].rel = h[t][k].rel
           /\ \A u \in Turns, j \in Kinds : u # t \/ j # k => h'[u][j] = h[u][j]
<1> DEFINE v == [h[t][k] EXCEPT !.pc = label]
<1>1. h[t][k] \in HandlerState
  BY Cells
<1>2. h' = [h EXCEPT ![t][k] = v]
  BY DEF Goto
<1>3. v.pc = label /\ v.term = h[t][k].term /\ v.susp = h[t][k].susp /\ v.rel = h[t][k].rel
  BY <1>1 DEF HandlerState
<1> HIDE DEF v
<1>4. h'[t][k] = v /\ \A u \in Turns, j \in Kinds : u # t \/ j # k => h'[u][j] = h[u][j]
  BY <1>2 DEF TypeOK
<1> QED
  BY <1>3, <1>4

LEMMA Stopping ==
    ASSUME TypeOK, NEW t \in Turns, NEW a \in Attempts, proc' = Stopped(t, a)
    PROVE  /\ proc'[t][a].st = IF proc[t][a].st \in {"running", "waiting"} THEN "closed" ELSE proc[t][a].st
           /\ proc'[t][a].ev = proc[t][a].ev /\ proc'[t][a].done = proc[t][a].done
           /\ proc[t][a].st \notin {"running", "waiting"} => proc'[t][a] = proc[t][a]
           /\ \A u \in Turns, b \in Attempts : u # t \/ b # a => proc'[u][b] = proc[u][b]
<1> DEFINE st == IF proc[t][a].st \in {"running", "waiting"} THEN "closed" ELSE proc[t][a].st
           p == [proc[t][a] EXCEPT !.st = st]
<1>1. proc[t][a] \in ProcState
  BY Cells
<1>2. ProcIs(t, a, p)
  BY Cells, Stops
<1>3. proc[t][a].st \notin {"running", "waiting"} => p = proc[t][a]
  BY <1>1 DEF ProcState
<1> HIDE DEF st
<1>4. p.st = st /\ p.ev = proc[t][a].ev /\ p.done = proc[t][a].done
  BY <1>1 DEF ProcState
<1> HIDE DEF p
<1> QED
  BY <1>2, <1>3, <1>4 DEF ProcIs, st

LEMMA Numbers ==
    ASSUME TypeOK, NEW t \in Turns
    PROVE  /\ turn[t].attempt \in 0..MaxAttempts /\ turn[t].req.attempts \in 1..MaxAttempts
           /\ exec[t].relay \in 0..MaxAttempts /\ MaxAttempts \in Nat /\ MaxAttempts # 0
           /\ turn[t].req.env \subseteq Choices
<1>1. turn[t] \in TurnState /\ exec[t] \in ExecState
  BY Cells
<1>2. turn[t].req \in Request
  BY <1>1, TurnAssumption DEF TurnState
<1> QED
  BY <1>1, <1>2, TurnAssumption DEF TurnState, ExecState, Request

-----------------------------------------------------------------------------
(* Steps that leave the number of attempts alone.                          *)

(* The processes of u go on: none is started, and one that has exited      *)
(* stays as it is.                                                         *)
RunsOn(u) ==
    \A a \in Attempts :
        /\ proc'[u][a].st = "none" <=> proc[u][a].st = "none"
        /\ proc[u][a].st \in {"none", "exited"} =>
             proc'[u][a].st = proc[u][a].st /\ proc'[u][a].ev = proc[u][a].ev
        /\ proc[u][a].st = "none" => proc'[u][a].done = proc[u][a].done
        /\ u \notin ended' /\ proc'[u][a].done => proc[u][a].done \/ proc'[u][a].st = "exited"

GoesOn(u) ==
    /\ exec'[u].relay = exec[u].relay /\ RunsOn(u) /\ ended \subseteq ended'
    /\ turn'[u].attempt = turn[u].attempt /\ turn'[u].req = turn[u].req
    /\ turn'[u].heal = turn[u].heal /\ (turn[u].ctxDone => turn'[u].ctxDone)

PostMoves(t) ==
    LET p == h[t]["post"]
        q == h'[t]["post"]
    IN /\ q.pc \in Before => p.pc \in Before
       /\ q.pc \in Starting => p.pc \in Starting
       /\ q.pc \in Attending \ {"retrywait"} => p.pc \in Attending \ {"retrywait"}
       /\ q.pc = "reading" => p.pc = "reading" /\ q.rel = p.rel
       /\ q.pc = "register" => p.pc = "register"
       /\ ~Registered(t) => q.term = p.term

LEMMA OrdersMove ==
    ASSUME TypeOK, NEW t \in Turns, Orders(t), Places(t), GoesOn(t), PostMoves(t), AtRetry(t)', Spent(t)'
    PROVE  Orders(t)'
<1>1. Numbered(t) /\ Wellborn(t) /\ Earlier(t)
  BY DEF Orders
<1>2. /\ exec[t].relay # 0 => exec[t].relay \in Attempts
      /\ h[t]["post"].pc = "register" => turn[t].attempt \in Attempts
  BY Numbers DEF Attempts, Places, PC, Before
<1>3. Numbered(t)'
  BY <1>1, <1>2 DEF Numbered, GoesOn, RunsOn, PostMoves, Registered
<1>4. Wellborn(t)'
  BY <1>1 DEF Wellborn, GoesOn, RunsOn
<1>5. Earlier(t)'
  <2>1. SSE(t, "post")' = SSE(t, "post")
    BY DEF SSE, GoesOn
  <2> QED
    BY <1>1, <2>1 DEF Earlier, Resultless, GoesOn, RunsOn
<1> QED
  BY <1>3, <1>4, <1>5 DEF Orders

LEMMA OrdersRest ==
    ASSUME TypeOK, NEW t \in Turns, Orders(t), Places(t), GoesOn(t), h'[t]["post"] = h[t]["post"]
    PROVE  Orders(t)'
<1>1. PostMoves(t)
  BY DEF PostMoves
<1>2. SSE(t, "post")' = SSE(t, "post")
  BY DEF SSE, GoesOn
<1>3. h[t]["post"].pc \in {"after", "finish"} => turn[t].attempt \in Attempts
  BY Numbers DEF Places, PC, Before, Attempts
<1>4. AtRetry(t)'
  BY <1>2, <1>3 DEF Orders, AtRetry, Resultless, GoesOn, RunsOn
<1>5. Spent(t)'
  <2>1. h[t]["post"].pc = "returned" => turn[t].attempt \in Attempts
    BY Numbers DEF Places, PC, Before, Attempts
  <2> QED
    BY <1>3, <2>1 DEF Orders, Spent, GoesOn, RunsOn
<1> QED
  BY <1>1, <1>4, <1>5, OrdersMove

(* The post of t moves on and the other turns rest. *)
SameRuns == proc' = proc /\ turn' = turn /\ ended' = ended
SameRelays == \A u \in Turns : exec'[u].relay = exec[u].relay

LEMMA OthersRest ==
    ASSUME TurnInv, \A u \in Turns : Orders(u), NEW t \in Turns,
           \A u \in Turns : u # t => GoesOn(u) /\ h'[u]["post"] = h[u]["post"]
    PROVE  \A u \in Turns : u # t => Orders(u)'
BY OrdersRest DEF TurnInv, Parts

LEMMA SameRunsGoOn ==
    ASSUME TypeOK, SameRuns, SameRelays
    PROVE  \A u \in Turns : GoesOn(u)
BY DEF GoesOn, RunsOn, SameRuns, SameRelays

(* Only other handlers than the POST's move. *)
LEMMA AllRest ==
    ASSUME TurnInv, \A u \in Turns : Orders(u), \A u \in Turns : GoesOn(u) /\ h'[u]["post"] = h[u]["post"]
    PROVE  \A u \in Turns : Orders(u)'
BY OrdersRest DEF TurnInv, Parts

(* The post of t moves and no more. *)
LEMMA PostGoes ==
    ASSUME TurnInv, \A u \in Turns : Orders(u), NEW t \in Turns,
           \A u \in Turns : u # t => h'[u]["post"] = h[u]["post"], \A u \in Turns : GoesOn(u),
           PostMoves(t), AtRetry(t)', Spent(t)'
    PROVE  \A u \in Turns : Orders(u)'
BY OthersRest, OrdersMove DEF TurnInv, Parts

LEMMA AttemptOf ==
    ASSUME TurnInv, NEW t \in Turns, Orders(t), PC(t, "post") \notin Before
    PROVE  turn[t].attempt \in Attempts /\ turn[t].attempt <= turn[t].req.attempts
           /\ (PC(t, "post") \in Starting => proc[t][turn[t].attempt].st = "none")
<1>1. turn[t].attempt \in Attempts
  BY Numbers DEF TurnInv, Parts, Places, Attempts
<1> QED
  BY <1>1 DEF Orders, Numbered, PC

(* Handler k of t goes to a label, while the processes go on. *)
GoesTo(t, k, label) ==
    k = "post" => /\ label \in Before => PC(t, k) \in Before
                  /\ label \in Starting => PC(t, k) \in Starting
                  /\ label \in Attending \ {"retrywait"} => PC(t, k) \in Attending \ {"retrywait"}
                  /\ label \notin {"reading", "register"}
                  /\ label = "after" => ~SSE(t, k) \/ h[t][k].susp \/ h[t][k].term # "retry"
                  /\ label \in {"finish", "returned"} =>
                       \/ h[t][k].term # "retry" \/ turn'[t].ctxDone
                       \/ proc[t][turn[t].attempt].st = "none"
                       \/ turn[t].attempt = turn[t].req.attempts

LEMMA GotoGoesOn ==
    ASSUME TurnInv, \A u \in Turns : Orders(u), NEW t \in Turns, NEW k \in Kinds, NEW label \in Labels,
           Goto(t, k, label), \A u \in Turns : GoesOn(u), GoesTo(t, k, label)
    PROVE  \A u \in Turns : Orders(u)'
<1>1. TypeOK
  BY DEF TurnInv
<1>2. /\ h'[t][k].pc = label /\ h'[t][k].term = h[t][k].term /\ h'[t][k].susp = h[t][k].susp
      /\ h'[t][k].rel = h[t][k].rel
      /\ \A u \in Turns, j \in Kinds : u # t \/ j # k => h'[u][j] = h[u][j]
  BY <1>1, HandlerWent
<1>3. CASE k # "post"
  BY <1>1, <1>2, <1>3, AllRest DEF Kinds
<1>4. CASE k = "post"
  <2>1. SSE(t, "post")' = SSE(t, "post")
    BY DEF SSE, GoesOn
  <2>2. PostMoves(t)
    BY <1>2, <1>4 DEF PostMoves, PC, GoesTo
  <2>3. AtRetry(t)'
    BY <1>2, <1>4, <2>1 DEF AtRetry, GoesOn, GoesTo
  <2>4. label \in {"finish", "returned"} /\ h[t][k].term = "retry" => turn[t].attempt \in Attempts
    <3>1. PC(t, k) \in Before => ~Registered(t) /\ h[t][k].term = "none"
      BY <1>4 DEF TurnInv, Parts, Places, Orders, Numbered
    <3> QED
      BY <1>4, <3>1, AttemptOf
  <2>5. Spent(t)'
    BY <1>2, <1>4, <2>4 DEF Spent, GoesOn, RunsOn, GoesTo
  <2> QED
    BY <1>1, <1>2, <1>4, <2>2, <2>3, <2>5, PostGoes DEF Kinds
<1> QED
  BY <1>3, <1>4

LEMMA GotoKeeps ==
    ASSUME TurnInv, \A u \in Turns : Orders(u), NEW t \in Turns, NEW k \in Kinds, NEW label \in Labels,
           Goto(t, k, label), SameRuns, SameRelays, GoesTo(t, k, label)
    PROVE  \A u \in Turns : Orders(u)'
BY GotoGoesOn, SameRunsGoOn DEF TurnInv

LEMMA SendMessageRetry ==
    ASSUME TurnInv, \A u \in Turns : Orders(u), NEW t \in Turns, SendMessage(t)
    PROVE  \A u \in Turns : Orders(u)'
<1> DEFINE label == IF registry = NoTurn THEN "accepted" ELSE "busy"
<1>1. PC(t, "post") = "off" /\ Goto(t, "post", label) /\ SameRuns /\ SameRelays
  BY DEF SendMessage, SameRuns, SameRelays
<1>2. label \in {"accepted", "busy"}
  OBVIOUS
<1> HIDE DEF label
<1> QED
  BY <1>1, <1>2, GotoKeeps DEF GoesTo, SameRuns, Kinds, Labels, Before, Starting, Attending

LEMMA RetryWaitRetry ==
    ASSUME TurnInv, \A u \in Turns : Orders(u), NEW t \in Turns, RetryWait(t)
    PROVE  \A u \in Turns : Orders(u)'
<1>1. PC(t, "post") = "retrywait" /\ SameRuns /\ SameRelays
  BY DEF RetryWait, SameRuns, SameRelays
<1>2. PICK label \in {"create", "finish"} : Goto(t, "post", label)
  BY DEF RetryWait
<1>3. proc[t][turn[t].attempt].st = "none"
  BY <1>1, AttemptOf DEF Before, Starting
<1> QED
  BY <1>1, <1>2, <1>3, GotoKeeps DEF GoesTo, SameRuns, Kinds, Labels, Before, Starting, Attending

LEMMA AfterSuspendsRetry ==
    ASSUME TurnInv, \A u \in Turns : Orders(u), NEW t \in Turns, AfterSuspends(t)
    PROVE  \A u \in Turns : Orders(u)'
<1>1. PC(t, "post") = "after" /\ Goto(t, "post", "suspended") /\ SameRuns /\ SameRelays
  BY DEF AfterSuspends, SameRuns, SameRelays
<1> QED
  BY <1>1, GotoKeeps DEF GoesTo, SameRuns, Kinds, Labels, Before, Starting, Attending

LEMMA AfterEndsRetry ==
    ASSUME TurnInv, \A u \in Turns : Orders(u), NEW t \in Turns, NEW k \in Kinds, AfterEnds(t, k)
    PROVE  \A u \in Turns : Orders(u)'
<1>1. PC(t, k) = "after" /\ Goto(t, k, "finish") /\ SameRuns /\ SameRelays
  BY DEF AfterEnds, SameRuns, SameRelays
<1>2. k = "post" /\ h[t][k].term = "retry" => turn[t].attempt = turn[t].req.attempts
  <2> SUFFICES ASSUME k = "post", h[t][k].term = "retry" PROVE turn[t].attempt = turn[t].req.attempts
    OBVIOUS
  <2>1. ~(turn[t].attempt < turn[t].req.attempts)
    BY DEF AfterEnds, Retryable
  <2>2. turn[t].attempt <= turn[t].req.attempts /\ turn[t].attempt \in Nat /\ turn[t].req.attempts \in Nat
    BY Numbers DEF TurnInv, Orders, Numbered
  <2> QED
    BY <2>1, <2>2
<1> QED
  BY <1>1, <1>2, GotoKeeps DEF GoesTo, SameRuns, Labels, Before, Starting, Attending

LEMMA EndJSONRetry ==
    ASSUME TurnInv, \A u \in Turns : Orders(u), NEW t \in Turns, EndJSON(t)
    PROVE  \A u \in Turns : Orders(u)'
<1>1. PC(t, "post") = "reading" /\ ~SSE(t, "post") /\ Goto(t, "post", "after") /\ SameRuns /\ SameRelays
  BY DEF EndJSON, Drained, SameRuns, SameRelays
<1> QED
  BY <1>1, GotoKeeps DEF GoesTo, SameRuns, Kinds, Labels, Before, Starting, Attending

LEMMA UnsubscribedRelays ==
    ASSUME TurnInv, NEW t \in Turns, NEW k \in Kinds, exec' = [exec EXCEPT ![t] = Unsubscribed(exec[t], k)]
    PROVE  SameRelays
<1> DEFINE x == Unsubscribed(exec[t], k)
<1>1. x.relay = exec[t].relay /\ exec' = [exec EXCEPT ![t] = x]
  BY Cells, Subscription DEF TurnInv
<1> HIDE DEF x
<1> QED
  BY <1>1 DEF TurnInv, TypeOK, SameRelays

LEMMA PostResultDrainRetry ==
    ASSUME TurnInv, \A u \in Turns : Orders(u), NEW t \in Turns, NEW k \in Kinds, PostResultDrain(t, k)
    PROVE  \A u \in Turns : Orders(u)'
<1> DEFINE label == AfterAttach(k, FALSE, FALSE)
<1>1. /\ PC(t, k) = "reading" /\ Goto(t, k, label) /\ SameRuns /\ h[t][k].term = "result"
      /\ exec' = [exec EXCEPT ![t] = Unsubscribed(exec[t], k)]
  BY DEF PostResultDrain, SameRuns
<1>2. SameRelays
  BY <1>1, UnsubscribedRelays
<1>3. label \in {"after", "ended"}
  BY DEF AfterAttach
<1> HIDE DEF label
<1> QED
  BY <1>1, <1>2, <1>3, GotoKeeps DEF GoesTo, SameRuns, Labels, Before, Starting, Attending

LEMMA LeaveRetry ==
    ASSUME TurnInv, \A u \in Turns : Orders(u), NEW t \in Turns, NEW k \in Kinds, Leave(t, k)
    PROVE  \A u \in Turns : Orders(u)'
<1> DEFINE label == AfterAttach(k, h[t][k].susp, TRUE)
<1>1. /\ PC(t, k) = "reading" /\ Goto(t, k, label) /\ SameRuns
      /\ exec' = [exec EXCEPT ![t] = Unsubscribed(exec[t], k)]
  BY DEF Leave, SameRuns
<1>2. SameRelays
  BY <1>1, UnsubscribedRelays
<1>3. label \in {"after", "left", "detached"} /\ (k = "post" /\ label = "after" => h[t][k].susp)
  BY DEF AfterAttach
<1> HIDE DEF label
<1> QED
  BY <1>1, <1>2, <1>3, GotoKeeps DEF GoesTo, SameRuns, Labels, Before, Starting, Attending

-----------------------------------------------------------------------------
(* Readers: the POST of t, or another handler, has new locals.             *)

LEMMA RelaysOf ==
    ASSUME TypeOK, NEW t \in Turns, NEW x \in ExecState, exec' = [exec EXCEPT ![t] = x],
           x.relay = exec[t].relay
    PROVE  SameRelays
BY TimerOf DEF SameRelays, SameExec

LEMMA PostBecomes ==
    ASSUME TurnInv, \A u \in Turns : Orders(u), NEW t \in Turns, NEW v \in HandlerState,
           h' = [h EXCEPT ![t]["post"] = v], \A u \in Turns : GoesOn(u),
           PC(t, "post") \in Attending \ {"retrywait"},
           v.pc \in {"reading", "after", "detached", "suspended", "finish"},
           v.pc = "reading" => PC(t, "post") = "reading" /\ v.rel = h[t]["post"].rel,
           v.pc = "after" /\ ~v.susp /\ v.term = "retry" /\ SSE(t, "post") /\ t \notin ended =>
               Resultless(t, turn[t].attempt),
           v.pc = "finish" => v.term # "retry"
    PROVE  \A u \in Turns : Orders(u)'
<1>1. TypeOK /\ Registered(t) /\ turn[t].attempt \in Attempts
  BY AttemptOf DEF TurnInv, Parts, Places, Attending, Before
<1>2. h'[t]["post"] = v /\ \A u \in Turns : u # t => h'[u]["post"] = h[u]["post"]
  <2>1. "post" \in Kinds /\ h \in Handlers
    BY <1>1, Cells DEF Kinds
  <2>2. HandlerIs(t, "post", v)
    BY <2>1, HandlerChange
  <2> QED
    BY <2>1, <2>2 DEF HandlerIs
<1>3. SSE(t, "post")' = SSE(t, "post")
  BY DEF SSE, GoesOn
<1>4. PostMoves(t)
  BY <1>1, <1>2 DEF PostMoves, PC, Before, Starting, Attending
<1>5. AtRetry(t)' /\ Spent(t)'
  BY <1>1, <1>2, <1>3 DEF AtRetry, Spent, GoesOn, RunsOn, Resultless
<1> QED
  BY <1>1, <1>2, <1>4, <1>5, PostGoes

LEMMA OtherBecomes ==
    ASSUME TurnInv, \A u \in Turns : Orders(u), NEW t \in Turns, NEW k \in Kinds \ {"post"},
           NEW v \in HandlerState, h' = [h EXCEPT ![t][k] = v],
           \A u \in Turns : GoesOn(u)
    PROVE  \A u \in Turns : Orders(u)'
<1>1. HandlerIs(t, k, v)
  BY Cells, HandlerChange DEF TurnInv
<1>2. \A u \in Turns : h'[u]["post"] = h[u]["post"]
  BY <1>1 DEF HandlerIs, Kinds
<1> QED
  BY <1>2, AllRest

LEMMA TookPost ==
    ASSUME NEW p \in HandlerState, NEW e \in EventKinds, NEW fails \in BOOLEAN, p.pc = "reading"
    PROVE  LET v == Took("post", p, e, fails)
           IN /\ v \in HandlerState /\ v.rel = p.rel /\ v.pc \in {"reading", "after", "detached"}
              /\ v.pc = "after" => v.susp
<1> DEFINE susp == p.susp \/ e = "input"
           v == Took("post", p, e, fails)
           to == IF Ends("post", p, e, fails) THEN AfterAttach("post", susp, fails) ELSE p.pc
           term == IF e \in {"result", "error", "retry"} THEN e ELSE p.term
           wrote == p.wrote \/ (~fails /\ e \in {"result", "error"})
<1>1. to \in {"reading", "after", "detached"} /\ to \in Labels /\ (to = "after" => susp)
  BY DEF AfterAttach, Labels, Ends
<1>2. p.cur + 1 \in Nat /\ susp \in BOOLEAN /\ wrote \in BOOLEAN /\ term \in EventKinds \cup {"none"}
  BY DEF HandlerState
<1>3. v = [p EXCEPT !.cur = @ + 1, !.susp = susp, !.term = term, !.wrote = wrote, !.pc = to]
  BY DEF Took
<1> HIDE DEF v, to, susp, term, wrote
<1>4. v \in HandlerState /\ v.rel = p.rel /\ v.pc = to /\ v.susp = susp
  BY <1>1, <1>2, <1>3 DEF HandlerState
<1> QED
  BY <1>1, <1>4 DEF v

LEMMA ReadSSERetry ==
    ASSUME TurnInv, \A u \in Turns : Orders(u), NEW t \in Turns, NEW k \in Kinds, ReadSSE(t, k)
    PROVE  \A u \in Turns : Orders(u)'
<1> DEFINE p == h[t][k]
           e == NextEvent(t, k)
           r == [exec[t] EXCEPT !.offset = p.cur + 1]
           v(fails) == Took(k, p, e, fails)
           x(fails) == IF Ends(k, p, e, fails) THEN Unsubscribed(r, k) ELSE r
<1>1. PICK fails \in BOOLEAN :
        h' = [h EXCEPT ![t][k] = v(fails)] /\ exec' = [exec EXCEPT ![t] = x(fails)]
  BY DEF ReadSSE
<1>2. PC(t, k) = "reading" /\ Pending(t, k) /\ SSE(t, k) /\ Parts(t) /\ TypeOK /\ SameRuns
  BY DEF ReadSSE, Pending, TurnInv, SameRuns
<1>3. p \in HandlerState /\ exec[t] \in ExecState /\ e \in EventKinds
  BY <1>2, ReadingFacts, NextEventOf DEF Parts
<1>4. x(fails) \in ExecState /\ x(fails).relay = exec[t].relay
  <2>1. p.cur + 1 \in Nat
    BY <1>3 DEF HandlerState
  <2>2. r \in ExecState /\ r.relay = exec[t].relay
    BY <1>3, <2>1, Subscription
  <2> HIDE DEF r
  <2> QED
    BY <2>2, Subscription
<1>5. SameRelays
  <2> HIDE DEF x
  <2> QED
    BY <1>1, <1>2, <1>4, RelaysOf
<1>6. CASE k = "post"
  <2>1. /\ v(fails) \in HandlerState /\ v(fails).rel = p.rel /\ v(fails).pc \in {"reading", "after", "detached"}
        /\ v(fails).pc = "after" => v(fails).susp
    BY <1>2, <1>3, <1>6, TookPost DEF PC
  <2> HIDE DEF v
  <2> QED
    BY <1>1, <1>2, <1>5, <1>6, <2>1, PostBecomes, SameRunsGoOn DEF Attending
<1>7. CASE k # "post"
  <2>1. k = "follow" /\ p.term \in {"result", "error"} => p.wrote
    BY <1>2 DEF Parts, Told, PC
  <2>2. v(fails) \in HandlerState
    BY <1>2, <1>3, <2>1, TookOf DEF PC
  <2> HIDE DEF v
  <2> QED
    BY <1>1, <1>2, <1>5, <1>7, <2>2, SameRunsGoOn, OtherBecomes
<1> QED
  BY <1>6, <1>7

(* What the end of the current attempt's stream says. *)
LEMMA RetryMeansNoResult ==
    ASSUME NEW trm, NEW s, EnsureTerminal(trm, s) = "retry"
    PROVE  ~Has(s, "result")
BY DEF EnsureTerminal, ResolveTerminal

LEMMA EndSSERetry ==
    ASSUME TurnInv, \A u \in Turns : Orders(u), NEW t \in Turns, NEW k \in Kinds, EndSSE(t, k)
    PROVE  \A u \in Turns : Orders(u)'
<1> DEFINE p == h[t][k]
           trm == EnsureTerminal(p.term, Relay(t).ev)
           synth == Synthesized(p.wrote, trm)
           r == IF synth THEN [exec[t] EXCEPT !.offset = p.cur + 1] ELSE exec[t]
           v == AtEnd(k, p, trm)
           x == Unsubscribed(r, k)
<1>1. PC(t, k) = "reading" /\ Drained(t, k) /\ SSE(t, k) /\ Parts(t) /\ TypeOK /\ SameRuns
  BY DEF EndSSE, Drained, TurnInv, SameRuns
<1>2. p.rel \in Attempts /\ p \in HandlerState /\ exec[t] \in ExecState
  BY <1>1, ReadingFacts DEF Parts
<1>3. h' = [h EXCEPT ![t][k] = v] /\ exec' = [exec EXCEPT ![t] = x]
  BY DEF EndSSE
<1>4. trm \in EventKinds
  <2>1. p.term \in {"result", "error"} => p.term \in EventKinds
    BY <1>2 DEF EventKinds
  <2>2. \A s : ResolveTerminal(s) \in EventKinds
    BY DEF ResolveTerminal, EventKinds
  <2> QED
    BY <2>1, <2>2 DEF EnsureTerminal
<1>5. x \in ExecState /\ x.relay = exec[t].relay
  <2>1. p.cur + 1 \in Nat
    BY <1>2 DEF HandlerState
  <2>2. r \in ExecState /\ r.relay = exec[t].relay
    BY <1>2, <2>1, Subscription
  <2> HIDE DEF r
  <2> QED
    BY <2>2, Subscription
<1>6. v \in HandlerState /\ v.rel = p.rel /\ v.pc = AfterAttach(k, FALSE, FALSE) /\ v.term = trm
  <2> DEFINE wrote == p.wrote \/ synth
             to == AfterAttach(k, FALSE, FALSE)
  <2>1. to \in Labels
    BY DEF AfterAttach, Labels
  <2>2. wrote \in BOOLEAN
    BY <1>2 DEF HandlerState, Synthesized
  <2>3. v = [p EXCEPT !.term = trm, !.wrote = wrote, !.pc = to]
    BY DEF AtEnd
  <2> HIDE DEF v, to, wrote, trm, synth
  <2>4. v \in HandlerState /\ v.rel = p.rel /\ v.pc = to /\ v.term = trm
    BY <1>2, <1>4, <2>1, <2>2, <2>3 DEF HandlerState
  <2> QED
    BY <2>4 DEF to
<1>7. trm = "retry" => ~Has(Relay(t).ev, "result")
  BY RetryMeansNoResult
<1> HIDE DEF v, x, trm
<1>8. SameRelays
  BY <1>1, <1>3, <1>5, RelaysOf
<1>9. CASE k = "post"
  <2>1. v.pc = "after"
    BY <1>6, <1>9 DEF AfterAttach
  <2>2. p.rel = turn[t].attempt /\ exec[t].relay = turn[t].attempt
    BY <1>1, <1>9 DEF Orders, Numbered, Attending, PC
  <2>3. t \notin ended => proc[t][turn[t].attempt].st = "exited"
    BY <1>1, <1>2, <1>9, <2>2 DEF Orders, Wellborn, Drained
  <2>4. v.term = "retry" /\ t \notin ended => Resultless(t, turn[t].attempt)
    BY <1>6, <1>7, <2>2, <2>3 DEF Resultless, Relay
  <2> QED
    BY <1>1, <1>3, <1>6, <1>8, <1>9, <2>1, <2>4, PostBecomes, SameRunsGoOn DEF Attending
<1>10. CASE k # "post"
  BY <1>1, <1>3, <1>6, <1>8, <1>10, SameRunsGoOn, OtherBecomes
<1> QED
  BY <1>9, <1>10

LEMMA PollDetachedRetry ==
    ASSUME TurnInv, \A u \in Turns : Orders(u), NEW t \in Turns, NEW k \in Kinds, PollDetached(t, k)
    PROVE  \A u \in Turns : Orders(u)'
<1>1. TypeOK /\ PC(t, k) = "detached" /\ SameRuns /\ exec[t] \in ExecState
  BY Cells DEF TurnInv, PollDetached, SameRuns
<1>2. PICK v \in HandlerState :
        /\ v.pc \in {"detached", "finish", OnSuspended(k)} /\ h' = [h EXCEPT ![t][k] = v]
        /\ v.pc = "finish" => k = "respond" \/ v.term \in {"error", "result"}
  BY Polled
<1>3. exec' = [exec EXCEPT ![t] = Armed(exec[t])]
  BY DEF PollDetached
<1>4. \A u \in Turns : GoesOn(u)
  BY <1>1, <1>3, Subscription, RelaysOf, SameRunsGoOn
<1>5. CASE k = "post"
  BY <1>1, <1>2, <1>4, <1>5, PostBecomes DEF OnSuspended, Attending
<1>6. CASE k # "post"
  BY <1>2, <1>4, <1>6, OtherBecomes
<1> QED
  BY <1>5, <1>6

LEMMA SuspendedRelays ==
    ASSUME TypeOK, NEW t \in Turns, exec' = Suspended(t)
    PROVE  SameRelays
BY SuspendedOnly DEF SameRelays

LEMMA ReadJSONRetry ==
    ASSUME TurnInv, \A u \in Turns : Orders(u), NEW t \in Turns, ReadJSON(t)
    PROVE  \A u \in Turns : Orders(u)'
<1> DEFINE p == h[t]["post"]
           e == NextEvent(t, "post")
           live == ~turn[t].gone
           v == TookJSON(p, e, live)
           x == IF e = "input" /\ live THEN Suspended(t) ELSE exec
<1>1. TypeOK /\ Parts(t) /\ Pending(t, "post") /\ PC(t, "post") = "reading" /\ ~SSE(t, "post")
  BY DEF TurnInv, ReadJSON, Pending
<1>2. p \in HandlerState /\ e \in EventKinds /\ p.pc = "reading"
  BY <1>1, ReadingFacts, NextEventOf DEF Parts, Kinds, PC
<1>3. /\ h' = [h EXCEPT ![t]["post"] = v] /\ exec' = [x EXCEPT ![t].offset = @ + 1] /\ SameRuns
  BY DEF ReadJSON, SameRuns
<1>4. /\ v \in HandlerState /\ v.rel = p.rel
      /\ v.pc = IF e = "input" THEN AfterInputJSON(live) ELSE "reading"
  <2> HIDE DEF e
  <2>1. AfterInputJSON(live) \in Labels /\ p.cur + 1 \in Nat
    BY <1>2 DEF AfterInputJSON, Labels, HandlerState
  <2> QED
    BY <1>2, <2>1 DEF TookJSON, HandlerState, EventKinds
<1>5. v.pc \in {"reading", "suspended", "after"}
  BY <1>4 DEF AfterInputJSON
<1> HIDE DEF v
<1>6. SameRelays
  <2>1. x \in Execs /\ \A u \in Turns : x[u].relay = exec[u].relay
    BY <1>1, Cells, SuspendedOnly
  <2> HIDE DEF x
  <2>2. x[t] \in ExecState
    BY <2>1 DEF Execs
  <2> DEFINE y == [x[t] EXCEPT !.offset = @ + 1]
  <2>3. y.relay = x[t].relay /\ exec' = [x EXCEPT ![t] = y]
    BY <1>3, <2>2 DEF ExecState
  <2> HIDE DEF y
  <2> QED
    BY <2>1, <2>3 DEF Execs, SameRelays
<1> QED
  BY <1>1, <1>3, <1>4, <1>5, <1>6, SameRunsGoOn, PostBecomes DEF Attending

LEMMA GoneJSONRetry ==
    ASSUME TurnInv, \A u \in Turns : Orders(u), NEW t \in Turns, GoneJSON(t)
    PROVE  \A u \in Turns : Orders(u)'
<1> DEFINE r == [turn[t] EXCEPT !.gone = TRUE]
<1>1. TypeOK /\ turn[t] \in TurnState
  BY Cells DEF TurnInv
<1>2. /\ r.req = turn[t].req /\ r.attempt = turn[t].attempt /\ r.heal = turn[t].heal
      /\ r.ctxDone = turn[t].ctxDone
  BY <1>1 DEF TurnState
<1>3. turn' = [turn EXCEPT ![t] = r] /\ h' = h /\ exec' = exec /\ proc' = proc /\ ended' = ended
  BY DEF GoneJSON
<1> HIDE DEF r
<1>4. \A u \in Turns : GoesOn(u)
  BY <1>1, <1>2, <1>3 DEF TypeOK, GoesOn, RunsOn
<1> QED
  BY <1>3, <1>4, AllRest

(* Processes that are stopped go on. *)
LEMMA StoppedRunOn ==
    ASSUME TypeOK, NEW t \in Turns, NEW a \in Attempts, proc' = Stopped(t, a)
    PROVE  \A u \in Turns : RunsOn(u)
<1>1. \A u \in Turns, b \in Attempts : u # t \/ b # a => proc'[u][b] = proc[u][b]
  BY Stopping
<1>2. /\ proc'[t][a].st = IF proc[t][a].st \in {"running", "waiting"} THEN "closed" ELSE proc[t][a].st
      /\ proc'[t][a].done = proc[t][a].done
      /\ proc[t][a].st \notin {"running", "waiting"} => proc'[t][a] = proc[t][a]
  BY Stopping
<1> QED
  BY <1>1, <1>2 DEF RunsOn

LEMMA StopExecRuns ==
    ASSUME TurnInv, NEW t \in Turns, StopExec(t)
    PROVE  ended \subseteq ended' /\ \A u \in Turns : RunsOn(u)
<1>1. CASE registry = t
  <2>1. exec[t].relay \in Attempts /\ TypeOK
    BY <1>1, RegistryRelay, TurnAssumption DEF TurnInv
  <2> QED
    BY <1>1, <2>1, StoppedRunOn DEF StopExec
<1>2. CASE registry # t
  BY <1>2 DEF StopExec, RunsOn
<1> QED
  BY <1>1, <1>2

LEMMA DrainJSONRetry ==
    ASSUME TurnInv, \A u \in Turns : Orders(u), NEW t \in Turns, DrainJSON(t)
    PROVE  \A u \in Turns : Orders(u)'
<1> DEFINE term == IF registry = t THEN "error" ELSE "none"
           timer == IF registry = t THEN "off" ELSE exec[t].timer
           v == [h[t]["post"] EXCEPT !.pc = "after", !.term = term]
           x == [exec[t] EXCEPT !.timer = timer]
<1>1. TypeOK /\ PC(t, "post") = "reading" /\ ~SSE(t, "post") /\ StopExec(t) /\ turn' = turn
      /\ h[t]["post"] \in HandlerState /\ exec[t] \in ExecState
  BY Cells DEF TurnInv, DrainJSON, Kinds
<1>2. h' = [h EXCEPT ![t]["post"] = v] /\ exec' = [exec EXCEPT ![t] = x]
  BY <1>1, Cells DEF DrainJSON, Handlers, Execs, Kinds
<1>3. v \in HandlerState /\ v.pc = "after"
  <2>1. term \in EventKinds \cup {"none"}
    BY DEF EventKinds
  <2> HIDE DEF term
  <2> QED
    BY <1>1, <2>1 DEF HandlerState, Labels
<1>4. x \in ExecState /\ x.relay = exec[t].relay
  <2>1. timer \in {"off", "armed", "fired"}
    BY <1>1 DEF ExecState
  <2> HIDE DEF timer
  <2> QED
    BY <1>1, <2>1 DEF ExecState
<1> HIDE DEF v, x
<1>5. \A u \in Turns : GoesOn(u)
  BY <1>1, <1>2, <1>4, RelaysOf, StopExecRuns DEF GoesOn, SameRelays
<1> QED
  BY <1>1, <1>2, <1>3, <1>5, PostBecomes DEF Attending

LEMMA DrainTimeoutRetry ==
    ASSUME TurnInv, \A u \in Turns : Orders(u), NEW t \in Turns, DrainTimeout(t)
    PROVE  \A u \in Turns : Orders(u)'
<1> DEFINE x == TimedOut(exec[t], registry = t)
<1>1. TypeOK /\ StopExec(t) /\ turn' = turn /\ h' = h /\ exec[t] \in ExecState
  BY Cells DEF TurnInv, DrainTimeout
<1>2. exec' = [exec EXCEPT ![t] = x]
  BY DEF DrainTimeout
<1>3. x \in ExecState /\ x.relay = exec[t].relay
  <2>1. CASE registry = t
    BY <1>1, <2>1 DEF ExecState, TimedOut
  <2>2. CASE registry # t
    BY <1>1, <2>2 DEF ExecState, TimedOut
  <2> QED
    BY <2>1, <2>2
<1> HIDE DEF x
<1>4. \A u \in Turns : GoesOn(u)
  BY <1>1, <1>2, <1>3, RelaysOf, StopExecRuns DEF GoesOn, SameRelays
<1> QED
  BY <1>1, <1>4, AllRest

LEMMA TimerFiresRetry ==
    ASSUME TurnInv, \A u \in Turns : Orders(u), NEW t \in Turns, TimerFires(t)
    PROVE  \A u \in Turns : Orders(u)'
<1> DEFINE x == [exec[t] EXCEPT !.timer = "fired", !.firing = TRUE]
<1>1. TypeOK /\ exec[t] \in ExecState /\ h' = h /\ SameRuns
  BY Cells DEF TurnInv, TimerFires, SameRuns
<1>2. exec' = [exec EXCEPT ![t] = x]
  BY <1>1, Cells DEF TimerFires, Execs
<1>3. x \in ExecState /\ x.relay = exec[t].relay
  BY <1>1 DEF ExecState
<1> HIDE DEF x
<1> QED
  BY <1>1, <1>2, <1>3, RelaysOf, SameRunsGoOn, AllRest

-----------------------------------------------------------------------------
(* Steps of other clients, the pump, the agents and of cancel and          *)
(* terminate; the end of a handler.                                        *)

LEMMA FollowRetry ==
    ASSUME TurnInv, \A u \in Turns : Orders(u), NEW t \in Turns, Follow(t)
    PROVE  \A u \in Turns : Orders(u)'
<1> DEFINE x == Subscribed(exec[t], "follow")
<1>1. TypeOK /\ SameRuns /\ exec[t] \in ExecState
  BY Cells DEF TurnInv, Follow, SameRuns
<1>2. PICK n : h' = Attached(t, "follow", exec[t].relay, n)
  BY DEF Follow
<1>3. \A u \in Turns : h'[u]["post"] = h[u]["post"]
  BY <1>1, <1>2 DEF Attached, TypeOK, Kinds
<1>4. x \in ExecState /\ x.relay = exec[t].relay /\ exec' = [exec EXCEPT ![t] = x]
  BY <1>1, Subscription DEF Follow, Kinds
<1> HIDE DEF x
<1> QED
  BY <1>1, <1>3, <1>4, RelaysOf, SameRunsGoOn, AllRest

LEMMA AnsweredRuns ==
    ASSUME TurnInv, NEW t \in Turns, Answered(t)
    PROVE  /\ TypeOK /\ exec[t] \in ExecState /\ turn' = turn /\ ended' = ended
           /\ \A u \in Turns : RunsOn(u)
<1> DEFINE a == exec[t].relay
           p == [proc[t][a] EXCEPT !.st = "running"]
<1>1. TypeOK /\ registry = t /\ a \in Attempts /\ exec[t] \in ExecState
  BY RegistryRelay, Cells, TurnAssumption DEF TurnInv, Answered
<1>2. p.st = "running" /\ p.done = proc[t][a].done /\ proc[t][a].st \in {"running", "waiting"}
  BY <1>1, Cells DEF ProcState, Answered, Relay
<1>3. proc' = [proc EXCEPT ![t][a] = p] /\ turn' = turn /\ ended' = ended
  BY DEF Answered
<1> HIDE DEF p, a
<1>4. proc'[t][a] = p /\ \A u \in Turns, b \in Attempts : u # t \/ b # a => proc'[u][b] = proc[u][b]
  BY <1>1, <1>3 DEF TypeOK
<1>5. \A u \in Turns : RunsOn(u)
  BY <1>2, <1>4 DEF RunsOn
<1> QED
  BY <1>1, <1>3, <1>5 DEF a

LEMMA RespondRetry ==
    ASSUME TurnInv, \A u \in Turns : Orders(u), NEW t \in Turns, Respond(t)
    PROVE  \A u \in Turns : Orders(u)'
<1> DEFINE e == [exec[t] EXCEPT !.status = "active"]
           x == Subscribed(e, "respond")
<1>1. /\ TypeOK /\ exec[t] \in ExecState /\ turn' = turn /\ ended' = ended
      /\ \A u \in Turns : RunsOn(u)
  BY AnsweredRuns DEF Respond
<1>2. \A u \in Turns : h'[u]["post"] = h[u]["post"]
  BY <1>1 DEF Respond, Attached, TypeOK, Kinds
<1>3. x \in ExecState /\ x.relay = exec[t].relay /\ exec' = [exec EXCEPT ![t] = x]
  <2>1. e \in ExecState /\ e.relay = exec[t].relay
    BY <1>1 DEF ExecState
  <2>2. exec' = [exec EXCEPT ![t] = x]
    BY DEF Respond
  <2> HIDE DEF e
  <2> QED
    BY <2>1, <2>2, Subscription DEF Kinds
<1> HIDE DEF x
<1>4. \A u \in Turns : GoesOn(u)
  BY <1>1, <1>3, RelaysOf DEF GoesOn, SameRelays
<1> QED
  BY <1>2, <1>4, AllRest

LEMMA RespondNotAcceptableRetry ==
    ASSUME TurnInv, \A u \in Turns : Orders(u), NEW t \in Turns, RespondNotAcceptable(t)
    PROVE  \A u \in Turns : Orders(u)'
<1> DEFINE x == [exec[t] EXCEPT !.status = "active"]
<1>1. /\ TypeOK /\ exec[t] \in ExecState /\ turn' = turn /\ ended' = ended
      /\ \A u \in Turns : RunsOn(u)
  BY AnsweredRuns DEF RespondNotAcceptable
<1>2. \A u \in Turns : h'[u]["post"] = h[u]["post"]
  BY <1>1 DEF RespondNotAcceptable, Goto, TypeOK, Kinds
<1>3. x \in ExecState /\ x.relay = exec[t].relay /\ exec' = [exec EXCEPT ![t] = x]
  BY <1>1 DEF ExecState, RespondNotAcceptable
<1> HIDE DEF x
<1>4. \A u \in Turns : GoesOn(u)
  BY <1>1, <1>3, RelaysOf DEF GoesOn, SameRelays
<1> QED
  BY <1>2, <1>4, AllRest

LEMMA PumpRetry ==
    ASSUME TurnInv, \A u \in Turns : Orders(u), NEW t \in Turns, Pump(t)
    PROVE  \A u \in Turns : Orders(u)'
<1>1. h' = h /\ SameRuns /\ exec' \in {exec, Suspended(t)} /\ TypeOK
  BY DEF Pump, PumpStarts, PumpEvent, PumpLoops, SameRuns, TurnInv
<1>2. SameRelays
  BY <1>1, SuspendedRelays DEF SameRelays
<1> QED
  BY <1>1, <1>2, SameRunsGoOn, AllRest

(* What an agent process does: it says something, or it exits. *)
LEMMA AgentOf ==
    ASSUME TurnInv, NEW t \in Turns, NEW a \in Attempts, Agent(t, a)
    PROVE  \E p \in ProcState :
             /\ proc' = [proc EXCEPT ![t][a] = p] /\ proc[t][a].st \notin {"none", "exited"}
             /\ \/ p.st = "exited" /\ p.ev = proc[t][a].ev
                \/ /\ p.done = proc[t][a].done /\ \E e : p.ev = Append(proc[t][a].ev, e)
                   /\ p.st = proc[t][a].st \/ (proc[t][a].st = "running" /\ p.st = "waiting")
<1>1. TypeOK /\ proc[t][a] \in ProcState /\ turn[t].req.events \subseteq EventKinds
  <2>1. TypeOK /\ turn[t].req \in Request
    BY Cells, TurnAssumption DEF TurnInv, TurnState
  <2> QED
    BY <2>1, Cells DEF Request
<1>2. CASE AgentExit(t, a)
  <2> DEFINE p == [proc[t][a] EXCEPT !.st = "exited", !.done = TRUE]
  <2>1. p \in ProcState /\ p.ev = proc[t][a].ev /\ p.st = "exited"
    BY <1>1 DEF ProcState
  <2>2. proc' = [proc EXCEPT ![t][a] = p] /\ proc[t][a].st \notin {"none", "exited"}
    BY <1>1, <1>2, Cells DEF AgentExit, Procs
  <2> QED
    BY <2>1, <2>2
<1>3. CASE AgentEmit(t, a)
  <2>1. PICK e \in EventKinds : proc' = [proc EXCEPT ![t][a] = Said(proc[t][a], e)]
    BY <1>1, <1>3 DEF AgentEmit
  <2> DEFINE p == Said(proc[t][a], e)
             s == Append(proc[t][a].ev, e)
             st == IF e = "input" /\ proc[t][a].st = "running" THEN "waiting" ELSE proc[t][a].st
  <2>2. s \in Seq(EventKinds)
    BY <1>1, Appends DEF ProcState
  <2>3. /\ st \in {"none", "running", "waiting", "closed", "exited"}
        /\ st = proc[t][a].st \/ (proc[t][a].st = "running" /\ st = "waiting")
    BY <1>1 DEF ProcState
  <2>4. p = [proc[t][a] EXCEPT !.ev = s, !.st = st]
    <3>1. CASE e = "input" /\ proc[t][a].st = "running"
      BY <1>1, <3>1 DEF Said, ProcState
    <3>2. CASE ~(e = "input" /\ proc[t][a].st = "running")
      BY <1>1, <3>2 DEF Said, ProcState
    <3> QED
      BY <3>1, <3>2
  <2>5. proc' = [proc EXCEPT ![t][a] = p] /\ proc[t][a].st \notin {"none", "exited"}
    BY <1>3, <2>1 DEF AgentEmit
  <2> HIDE DEF s, st, p
  <2>6. p \in ProcState /\ p.ev = s /\ p.st = st /\ p.done = proc[t][a].done
    BY <1>1, <2>2, <2>3, <2>4 DEF ProcState
  <2>7. \E f : p.ev = Append(proc[t][a].ev, f)
    BY <2>6 DEF s
  <2> QED
    BY <2>3, <2>5, <2>6, <2>7
<1> QED
  BY <1>2, <1>3 DEF Agent

LEMMA AgentRetry ==
    ASSUME TurnInv, \A u \in Turns : Orders(u), NEW t \in Turns, NEW a \in Attempts, Agent(t, a)
    PROVE  \A u \in Turns : Orders(u)'
<1>1. h' = h /\ exec' = exec /\ turn' = turn /\ ended' = ended /\ TypeOK
  BY DEF Agent, AgentEmit, AgentExit, TurnInv
<1>2. PICK p \in ProcState :
        /\ proc' = [proc EXCEPT ![t][a] = p] /\ proc[t][a].st \notin {"none", "exited"}
        /\ \/ p.st = "exited"
           \/ /\ p.done = proc[t][a].done
              /\ p.st = proc[t][a].st \/ (proc[t][a].st = "running" /\ p.st = "waiting")
  BY AgentOf
<1>3. proc'[t][a] = p /\ \A u \in Turns, b \in Attempts : u # t \/ b # a => proc'[u][b] = proc[u][b]
  BY <1>1, <1>2 DEF TypeOK
<1>4. \A u \in Turns : RunsOn(u)
  BY <1>2, <1>3 DEF RunsOn
<1> QED
  BY <1>1, <1>4, AllRest DEF GoesOn

LEMMA CancelRetry ==
    ASSUME TurnInv, \A u \in Turns : Orders(u), Cancel
    PROVE  \A u \in Turns : Orders(u)'
<1>1. TypeOK /\ h' = h /\ exec' = exec /\ turn' = turn /\ ended' = ended \cup InProgress
  BY DEF TurnInv, Cancel
<1>2. \A u \in Turns : RunsOn(u)
  <2>1. CASE registry = NoTurn
    BY <2>1 DEF Cancel, RunsOn
  <2>2. CASE registry # NoTurn
    <3> DEFINE t == registry
               a == exec[registry].relay
               st == IF proc[t][a].st \in {"running", "waiting"} THEN "closed" ELSE proc[t][a].st
               p == StoppedCell(proc[t][a])
    <3>1. t \in Turns /\ a \in Attempts /\ Parts(t)
      BY <2>2, RegistryRelay
    <3>2. proc[t][a] \in ProcState
      BY <1>1, <3>1, Cells
    <3>3. t \in ended' /\ proc[t][a].st # "none"
      <4>1. Registered(t)
        BY <3>1 DEF Parts, Busy
      <4> QED
        BY <1>1, <3>1, <4>1, RegisteredInProgress DEF Orders, Numbered
    <3>4. proc' = StoppedAndDone(t, a)
      BY <2>2 DEF Cancel, StoppedAndDone
    <3>5. (st = "none" <=> proc[t][a].st = "none") /\ (proc[t][a].st = "exited" => st = "exited")
      OBVIOUS
    <3>6. p.st = st /\ p.ev = proc[t][a].ev
      BY <3>2 DEF ProcState, StoppedCell
    <3> HIDE DEF t, a
    <3>7. ProcIs(t, a, p)
      BY <1>1, <3>1, <3>4, Cells, StopsAndDone
    <3> HIDE DEF st, p
    <3> QED
      BY <3>3, <3>5, <3>6, <3>7 DEF ProcIs, RunsOn
  <2> QED
    BY <2>1, <2>2
<1> QED
  BY <1>1, <1>2, AllRest DEF GoesOn

LEMMA TerminateRetry ==
    ASSUME TurnInv, \A u \in Turns : Orders(u), Terminate
    PROVE  \A u \in Turns : Orders(u)'
<1>1. TypeOK /\ h' = h /\ exec' = exec /\ turn' = turn /\ ended' = ended \cup InProgress
  BY DEF TurnInv, Terminate
<1>2. \A u \in Turns : RunsOn(u)
  <2>1. CASE registry = NoTurn
    BY <2>1 DEF Terminate, RunsOn
  <2>2. CASE registry # NoTurn
    BY <1>1, <2>2, RegistryRelay, StoppedRunOn DEF Terminate
  <2> QED
    BY <2>1, <2>2
<1> QED
  BY <1>1, <1>2, AllRest DEF GoesOn

LEMMA AbortContextRetry ==
    ASSUME TurnInv, \A u \in Turns : Orders(u), NEW kind \in {"cancel", "terminate"}, AbortContext(kind)
    PROVE  \A u \in Turns : Orders(u)'
<1>1. TypeOK /\ h' = h /\ exec' = exec /\ proc' = proc /\ ended' = ended
  BY DEF TurnInv, AbortContext
<1>2. \A u \in Turns : /\ turn'[u].attempt = turn[u].attempt /\ turn'[u].req = turn[u].req
                       /\ turn'[u].heal = turn[u].heal /\ (turn[u].ctxDone => turn'[u].ctxDone)
  <2>1. CASE execCancels = NoTurn
    BY <2>1 DEF AbortContext
  <2>2. CASE execCancels # NoTurn
    <3> DEFINE r == [turn[execCancels] EXCEPT !.ctxDone = TRUE]
    <3>1. execCancels \in Turns /\ turn[execCancels] \in TurnState
      BY <1>1, <2>2, Cells DEF TypeOK, TurnOrNone
    <3>2. /\ r.attempt = turn[execCancels].attempt /\ r.req = turn[execCancels].req
          /\ r.heal = turn[execCancels].heal /\ r.ctxDone
      BY <3>1 DEF TurnState
    <3>3. turn' = [turn EXCEPT ![execCancels] = r]
      BY <2>2 DEF AbortContext
    <3> HIDE DEF r
    <3> QED
      BY <1>1, <3>1, <3>2, <3>3 DEF TypeOK
  <2> QED
    BY <2>1, <2>2
<1> QED
  BY <1>1, <1>2, AllRest DEF GoesOn, RunsOn

LEMMA FinishRetry ==
    ASSUME TurnInv, \A u \in Turns : Orders(u), NEW t \in Turns, NEW k \in Kinds, Finish(t, k)
    PROVE  \A u \in Turns : Orders(u)'
<1> DEFINE a == IF k = "post" THEN turn[t].attempt ELSE exec[t].relay
<1>1. /\ TypeOK /\ PC(t, k) = "finish" /\ Parts(t) /\ turn' = turn /\ ended' = ended
      /\ Goto(t, k, "returned") /\ proc' = Stopped(t, a)
  BY DEF TurnInv, Finish
<1>2. a \in Attempts
  <2>1. CASE k = "post"
    BY <1>1, <2>1, AttemptOf DEF Before
  <2>2. CASE k # "post"
    BY <1>1, <2>2, Numbers DEF Parts, Places, Registered, Attempts, Kinds
  <2> QED
    BY <2>1, <2>2
<1> HIDE DEF a
<1>3. SameRelays
  <2>1. CASE registry = NoTurn
    BY <2>1 DEF Finish, SameRelays
  <2>2. CASE registry # NoTurn
    <3> DEFINE x == [exec[registry] EXCEPT !.timer = "off"]
    <3>1. registry \in Turns /\ exec[registry] \in ExecState
      BY <1>1, <2>2, Cells DEF TypeOK, TurnOrNone
    <3>2. x \in ExecState /\ x.relay = exec[registry].relay
      BY <3>1 DEF ExecState
    <3>3. exec' = [exec EXCEPT ![registry] = x]
      BY <2>2 DEF Finish
    <3> HIDE DEF x
    <3> QED
      BY <1>1, <3>1, <3>2, <3>3, RelaysOf
  <2> QED
    BY <2>1, <2>2
<1>4. \A u \in Turns : GoesOn(u)
  BY <1>1, <1>2, <1>3, StoppedRunOn DEF GoesOn, SameRelays
<1>5. k = "post" /\ h[t][k].term = "retry" =>
        \/ turn'[t].ctxDone \/ proc[t][turn[t].attempt].st = "none"
        \/ turn[t].attempt = turn[t].req.attempts
  BY <1>1 DEF Orders, Spent, PC
<1> QED
  BY <1>1, <1>4, <1>5, GotoGoesOn DEF GoesTo, Labels, Before, Starting, Attending

-----------------------------------------------------------------------------
(* Steps that count attempts, or start one.                                *)

LEMMA RegisterCancelRetry ==
    ASSUME TurnInv, \A u \in Turns : Orders(u), NEW t \in Turns, RegisterCancel(t)
    PROVE  \A u \in Turns : Orders(u)'
<1> DEFINE r == [turn[t] EXCEPT !.attempt = 1]
<1>1. /\ TypeOK /\ PC(t, "post") = "accepted" /\ Goto(t, "post", "create") /\ turn[t] \in TurnState
      /\ exec' = exec /\ proc' = proc /\ ended' = ended /\ ~Registered(t) /\ "post" \in Kinds
  BY Cells DEF TurnInv, RegisterCancel, Parts, Places, Before, Kinds
<1>2. /\ r.attempt = 1 /\ r.req = turn[t].req /\ r.heal = turn[t].heal /\ r.ctxDone = turn[t].ctxDone
  BY <1>1 DEF TurnState
<1>3. turn' = [turn EXCEPT ![t] = r]
  BY <1>1 DEF RegisterCancel, TypeOK
<1> HIDE DEF r
<1>4. turn'[t] = r /\ \A u \in Turns : u # t => turn'[u] = turn[u]
  BY <1>1, <1>3 DEF TypeOK
<1>5. /\ h'[t]["post"].pc = "create" /\ h'[t]["post"].term = h[t]["post"].term
      /\ \A u \in Turns : u # t => h'[u]["post"] = h[u]["post"]
  BY <1>1, HandlerWent
<1>6. \A u \in Turns : u # t => Orders(u)'
  BY <1>1, <1>4, <1>5, OthersRest DEF GoesOn, RunsOn
<1>7. turn[t].attempt = 0 /\ Orders(t)
  BY <1>1 DEF Orders, Numbered, PC, Before
<1>8. Numbered(t)'
  BY <1>1, <1>2, <1>4, <1>5, <1>7, Numbers
     DEF Orders, Numbered, Registered, Before, Starting, Attending, Attempts
<1>9. Wellborn(t)' /\ Earlier(t)' /\ AtRetry(t)' /\ Spent(t)'
  BY <1>1, <1>2, <1>4, <1>5, <1>7 DEF Orders, Wellborn, Earlier, AtRetry, Spent, Attempts
<1> QED
  BY <1>6, <1>8, <1>9 DEF Orders

LEMMA CreateFailsRetry ==
    ASSUME TurnInv, \A u \in Turns : Orders(u), NEW t \in Turns, CreateFails(t)
    PROVE  \A u \in Turns : Orders(u)'
<1>1. /\ TypeOK /\ PC(t, "post") = "create" /\ exec' = exec /\ proc' = proc /\ ended' = ended
      /\ turn[t] \in TurnState
  BY Cells DEF TurnInv, CreateFails
<1>2. proc[t][turn[t].attempt].st = "none"
  BY <1>1, AttemptOf DEF Before, Starting
<1>3. CASE Registered(t)
  <2>1. Goto(t, "post", "finish") /\ turn' = turn
    BY <1>3 DEF CreateFails
  <2>2. GoesTo(t, "post", "finish")
    BY <1>2 DEF GoesTo, Before, Starting, Attending
  <2> QED
    BY <1>1, <2>1, <2>2, GotoKeeps DEF Kinds, Labels, SameRuns, SameRelays
<1>4. CASE ~Registered(t)
  <2> DEFINE r == [turn[t] EXCEPT !.ctxDone = TRUE]
  <2>1. r.attempt = turn[t].attempt /\ r.req = turn[t].req /\ r.heal = turn[t].heal /\ r.ctxDone
    BY <1>1 DEF TurnState
  <2>2. turn' = [turn EXCEPT ![t] = r] /\ Goto(t, "post", "returned")
    BY <1>4 DEF CreateFails
  <2> HIDE DEF r
  <2>3. \A u \in Turns : GoesOn(u)
    BY <1>1, <2>1, <2>2 DEF TypeOK, GoesOn, RunsOn
  <2>4. GoesTo(t, "post", "returned")
    BY <1>2 DEF GoesTo, Before, Starting, Attending
  <2> QED
    BY <2>2, <2>3, <2>4, GotoGoesOn DEF Kinds, Labels
<1> QED
  BY <1>3, <1>4

(* The next attempt is prepared, the POST is or goes where it starts. *)
LEMMA Prepared ==
    ASSUME TurnInv, \A u \in Turns : Orders(u), NEW t \in Turns, PrepareRetry(t), Registered(t),
           turn[t].attempt < turn[t].req.attempts, PC(t, "post") \in {"after", "create"},
           exec' = exec, ended' = ended, h'[t]["post"].pc \in Starting,
           \A u \in Turns : u # t => h'[u]["post"] = h[u]["post"],
           SSE(t, "post") /\ t \notin ended => Resultless(t, turn[t].attempt)
    PROVE  \A u \in Turns : Orders(u)'
<1> DEFINE n == turn[t].attempt
           r == [turn[t] EXCEPT !.attempt = n + 1, !.heal = TRUE]
<1>1. TypeOK /\ turn[t] \in TurnState /\ n \in Attempts /\ Orders(t)
  BY Cells, AttemptOf DEF TurnInv, Before
<1>2. r.attempt = n + 1 /\ r.req = turn[t].req /\ r.heal /\ r.ctxDone = turn[t].ctxDone
  BY <1>1 DEF TurnState
<1>3. turn' = [turn EXCEPT ![t] = r]
  BY <1>1 DEF PrepareRetry, TypeOK
<1> HIDE DEF r
<1>4. turn'[t] = r /\ \A u \in Turns : u # t => turn'[u] = turn[u]
  BY <1>1, <1>3 DEF TypeOK
<1>5. \A u \in Turns : RunsOn(u)
  BY <1>1, StoppedRunOn DEF PrepareRetry
<1>6. \A u \in Turns : u # t => Orders(u)'
  BY <1>4, <1>5, OthersRest DEF GoesOn
<1>7. /\ n \in Nat /\ turn[t].req.attempts \in Nat /\ exec[t].relay \in Attempts
  BY <1>1, Numbers DEF Attempts, Registered
<1>8. Numbered(t)'
  <2>1. n + 1 <= turn[t].req.attempts
    BY <1>7
  <2>2. \A a \in Attempts : a > n => proc'[t][a].st = "none"
    BY <1>1, <1>5 DEF Orders, Numbered, RunsOn
  <2>3. \A a \in Attempts : a > n + 1 \/ a = n + 1 => a > n
    BY <1>7 DEF Attempts
  <2>4. exec[t].relay <= n + 1 /\ proc'[t][exec[t].relay].st # "none"
    BY <1>1, <1>5, <1>7, Numbers DEF Orders, Numbered, RunsOn
  <2> QED
    BY <1>2, <1>4, <2>1, <2>2, <2>3, <2>4
       DEF Numbered, Registered, Starting, Before, Attending
<1>9. Wellborn(t)'
  BY <1>1, <1>5 DEF Orders, Wellborn, RunsOn
<1>10. Earlier(t)'
  <2>1. SSE(t, "post")' = SSE(t, "post")
    BY <1>2, <1>4 DEF SSE
  <2>2. \A a \in Attempts : a < n + 1 => a < n \/ a = n
    BY <1>7 DEF Attempts
  <2>3. \A a \in Attempts : Resultless(t, a) => Resultless(t, a)'
    BY <1>5 DEF Resultless, RunsOn
  <2>4. SSE(t, "post") /\ t \notin ended => \A a \in Attempts : a < n => Resultless(t, a)
    BY <1>1 DEF Orders, Earlier
  <2> QED
    BY <1>2, <1>4, <2>1, <2>2, <2>3, <2>4 DEF Earlier
<1>11. AtRetry(t)' /\ Spent(t)'
  BY DEF AtRetry, Spent, Starting
<1> QED
  BY <1>6, <1>8, <1>9, <1>10, <1>11 DEF Orders

LEMMA AfterRetriesRetry ==
    ASSUME TurnInv, \A u \in Turns : Orders(u), NEW t \in Turns, AfterRetries(t)
    PROVE  \A u \in Turns : Orders(u)'
<1>1. /\ PrepareRetry(t) /\ exec' = exec /\ ended' = ended /\ PC(t, "post") = "after"
      /\ turn[t].attempt < turn[t].req.attempts /\ Goto(t, "post", "retrywait")
  BY DEF AfterRetries, Retryable
<1>2. Registered(t) /\ TypeOK /\ "post" \in Kinds
  BY <1>1 DEF TurnInv, Parts, Places, Attending, Kinds
<1>3. /\ h'[t]["post"].pc \in Starting
      /\ \A u \in Turns : u # t => h'[u]["post"] = h[u]["post"]
  BY <1>1, <1>2, HandlerWent DEF Starting
<1>4. SSE(t, "post") /\ t \notin ended => Resultless(t, turn[t].attempt)
  BY <1>1 DEF AfterRetries, Retryable, Orders, AtRetry, PC
<1> QED
  BY <1>1, <1>2, <1>3, <1>4, Prepared

LEMMA SendFailsRetry ==
    ASSUME TurnInv, \A u \in Turns : Orders(u), NEW t \in Turns, SendFails(t)
    PROVE  \A u \in Turns : Orders(u)'
<1>1. exec' = exec /\ ended' = ended /\ PC(t, "post") = "create"
  BY DEF SendFails
<1>2. proc[t][turn[t].attempt].st = "none" /\ turn[t].attempt \in Attempts
  BY <1>1, AttemptOf DEF Before, Starting
<1>3. CASE Registered(t) /\ turn[t].attempt < turn[t].req.attempts
  <2>1. PrepareRetry(t) /\ h' = h
    BY <1>3 DEF SendFails
  <2>2. Resultless(t, turn[t].attempt)
    BY <1>2 DEF Orders, Wellborn, Resultless, Has
  <2> QED
    BY <1>1, <1>3, <2>1, <2>2, Prepared DEF PC, Starting
<1>4. CASE ~(Registered(t) /\ turn[t].attempt < turn[t].req.attempts)
  <2>1. Goto(t, "post", "finish") /\ SameRuns /\ SameRelays
    BY <1>1, <1>4 DEF SendFails, SameRuns, SameRelays
  <2>2. GoesTo(t, "post", "finish")
    BY <1>2 DEF GoesTo, Before, Starting, Attending
  <2> QED
    BY <2>1, <2>2, GotoKeeps DEF Kinds, Labels
<1> QED
  BY <1>3, <1>4

(* The POST of t attaches to the relay of its attempt. *)
LEMMA AttachesTo ==
    ASSUME TypeOK, NEW t \in Turns, turn[t].attempt \in Attempts,
           h' = Attached(t, "post", turn[t].attempt, 0), exec' = [exec EXCEPT ![t] = WithRelay(t)]
    PROVE  /\ h'[t]["post"].pc = "reading" /\ h'[t]["post"].rel = turn[t].attempt
           /\ h'[t]["post"].term = "none" /\ exec'[t].relay = turn[t].attempt
           /\ SSE(t, "post") => exec'[t].sub = "post" /\ exec'[t].timer = "off"
           /\ ~SSE(t, "post") => exec'[t].sub = exec[t].sub /\ exec'[t].timer = exec[t].timer
           /\ exec'[t].firing = exec[t].firing
           /\ \A u \in Turns : u # t => h'[u] = h[u] /\ exec'[u] = exec[u]
           /\ \A k \in Kinds : k # "post" => h'[t][k] = h[t][k]
<1> DEFINE v == [Handler EXCEPT !.pc = "reading", !.rel = turn[t].attempt, !.cur = 0]
           x == WithRelay(t)
<1>1. exec[t] \in ExecState
  BY Cells
<1>2. v \in HandlerState /\ v.pc = "reading" /\ v.rel = turn[t].attempt /\ v.term = "none"
  <2>1. turn[t].attempt \in 0..MaxAttempts
    BY TurnAssumption DEF Attempts
  <2> QED
    BY <2>1 DEF Handler, HandlerState, Labels, EventKinds
<1>3. /\ x.relay = turn[t].attempt /\ x.firing = exec[t].firing
      /\ SSE(t, "post") => x.sub = "post" /\ x.timer = "off"
      /\ ~SSE(t, "post") => x.sub = exec[t].sub /\ x.timer = exec[t].timer
  BY <1>1 DEF WithRelay, ExecState, Subscribed
<1>4. h' = [h EXCEPT ![t]["post"] = v]
  BY DEF Attached
<1> HIDE DEF v, x
<1>5. /\ h'[t]["post"] = v /\ \A u \in Turns : u # t => h'[u] = h[u]
      /\ \A k \in Kinds : k # "post" => h'[t][k] = h[t][k]
  BY <1>4 DEF TypeOK, Kinds
<1>6. exec'[t] = x /\ \A u \in Turns : u # t => exec'[u] = exec[u]
  BY DEF TypeOK, x
<1> QED
  BY <1>2, <1>3, <1>5, <1>6

LEMMA RegisterRetry ==
    ASSUME TurnInv, \A u \in Turns : Orders(u), NEW t \in Turns, Register(t)
    PROVE  \A u \in Turns : Orders(u)'
<1>1. TypeOK /\ PC(t, "post") = "register" /\ SameRuns /\ Orders(t)
  BY DEF TurnInv, Register, SameRuns
<1>2. turn[t].attempt \in Attempts /\ ~Registered(t)
  BY <1>1, AttemptOf DEF Before, TurnInv, Parts, Places
<1>3. CASE registry = NoTurn
  <2>1. h' = Attached(t, "post", turn[t].attempt, 0) /\ exec' = [exec EXCEPT ![t] = WithRelay(t)]
    BY <1>3 DEF Register
  <2>2. /\ h'[t]["post"].pc = "reading" /\ h'[t]["post"].rel = turn[t].attempt
        /\ exec'[t].relay = turn[t].attempt
        /\ \A u \in Turns : u # t => h'[u] = h[u] /\ exec'[u] = exec[u]
    BY <1>1, <1>2, <2>1, AttachesTo
  <2>3. \A u \in Turns : u # t => Orders(u)'
    BY <1>1, <2>2, OthersRest DEF GoesOn, RunsOn, SameRuns
  <2>4. turn[t].attempt <= turn[t].attempt /\ turn[t].attempt # 0
    BY <1>2, Numbers DEF Attempts
  <2>5. Numbered(t)'
    BY <1>1, <2>2, <2>4 DEF Orders, Numbered, SameRuns, Registered, Before, Starting, PC
  <2>6. SSE(t, "post")' = SSE(t, "post")
    BY <1>1 DEF SSE, SameRuns
  <2>7. Wellborn(t)' /\ Earlier(t)' /\ AtRetry(t)' /\ Spent(t)'
    BY <1>1, <2>2, <2>6 DEF Orders, Wellborn, Earlier, AtRetry, Spent, Resultless, SameRuns
  <2> QED
    BY <2>3, <2>5, <2>7 DEF Orders
<1>4. CASE registry # NoTurn
  <2>1. Goto(t, "post", "finish") /\ SameRelays
    BY <1>4 DEF Register, SameRelays
  <2>2. GoesTo(t, "post", "finish")
    BY <1>1, <1>2 DEF Orders, Numbered, GoesTo, Before, Starting, Attending
  <2> QED
    BY <1>1, <2>1, <2>2, GotoKeeps DEF Kinds, Labels
<1> QED
  BY <1>3, <1>4

LEMMA StartAgentRetry ==
    ASSUME TurnInv, \A u \in Turns : Orders(u), NEW t \in Turns, StartAgent(t)
    PROVE  \A u \in Turns : Orders(u)'
<1> DEFINE n == turn[t].attempt
           p == [proc[t][n] EXCEPT !.st = "running"]
<1>1. TypeOK /\ PC(t, "post") = "create" /\ turn' = turn /\ ended' = ended /\ "post" \in Kinds
  BY DEF TurnInv, StartAgent, Kinds
<1>2. n \in Attempts /\ proc[t][n].st = "none"
  BY <1>1, AttemptOf DEF Before, Starting
<1>3. p.st = "running" /\ p.ev = proc[t][n].ev /\ p.done = proc[t][n].done
  BY <1>1, <1>2, Cells DEF ProcState
<1>4. proc' = [proc EXCEPT ![t][n] = p]
  BY DEF StartAgent
<1> HIDE DEF p
<1>5. proc'[t][n] = p /\ \A u \in Turns, b \in Attempts : u # t \/ b # n => proc'[u][b] = proc[u][b]
  BY <1>1, <1>2, <1>4 DEF TypeOK
<1>6. /\ h'[t]["post"].pc \in {"register", "reading"}
      /\ h'[t]["post"].pc = "reading" => h'[t]["post"].rel = n
      /\ h'[t]["post"].pc = "register" => h'[t]["post"].term = h[t]["post"].term /\ ~Registered(t)
      /\ exec'[t].relay = IF Registered(t) THEN n ELSE exec[t].relay
      /\ \A u \in Turns : u # t => h'[u]["post"] = h[u]["post"] /\ exec'[u] = exec[u]
  <2>1. CASE Registered(t)
    BY <1>1, <1>2, <2>1, AttachesTo DEF StartAgent
  <2>2. CASE ~Registered(t)
    BY <1>1, <2>2, HandlerWent DEF StartAgent
  <2> QED
    BY <2>1, <2>2
<1>7. \A u \in Turns : u # t => Orders(u)'
  BY <1>1, <1>5, <1>6, OthersRest DEF GoesOn, RunsOn
<1>8. Orders(t)
  OBVIOUS
<1>9. Numbered(t)'
  <2>1. n <= n /\ n # 0
    BY <1>2, Numbers DEF Attempts
  <2>2. \A a \in Attempts : a > n => a # n
    BY <1>2, Numbers DEF Attempts
  <2>3. Registered(t)' <=> Registered(t)
    BY <1>6, <2>1 DEF Registered
  <2>4. exec[t].relay # 0 => exec[t].relay \in Attempts
    BY Numbers, <1>1 DEF Attempts
  <2>5. /\ turn'[t] = turn[t] /\ h'[t]["post"].pc \notin Before \cup Starting
        /\ n <= turn[t].req.attempts /\ (n > 1 => turn[t].heal)
    BY <1>1, <1>6, <1>8 DEF Orders, Numbered, Before, Starting
  <2>6. \A a \in Attempts : a > n => proc'[t][a].st = "none"
    BY <1>5, <1>8, <2>2 DEF Orders, Numbered
  <2>7. proc'[t][n].st # "none"
    BY <1>3, <1>5
  <2>8. CASE Registered(t)
    <3>1. h'[t]["post"].pc = "reading" /\ h'[t]["post"].rel = n /\ exec'[t].relay = n
      BY <1>1, <1>2, <2>8, AttachesTo DEF StartAgent
    <3> QED
      BY <1>2, <2>1, <2>3, <2>5, <2>6, <2>7, <2>8, <3>1 DEF Numbered, Registered
  <2>9. CASE ~Registered(t)
    <3>1. h'[t]["post"].pc = "register" /\ h'[t]["post"].term = "none" /\ exec' = exec
      BY <1>1, <1>8, <2>9, HandlerWent DEF StartAgent, Orders, Numbered
    <3> QED
      BY <1>2, <2>3, <2>5, <2>6, <2>7, <2>9, <3>1 DEF Numbered, Registered, Attending
  <2> QED
    BY <2>8, <2>9
<1>10. Wellborn(t)'
  BY <1>1, <1>2, <1>3, <1>5, <1>8 DEF Orders, Wellborn
<1>11. Earlier(t)'
  <2>1. \A a \in Attempts : a < n => a # n
    BY <1>2, Numbers DEF Attempts
  <2>2. SSE(t, "post")' = SSE(t, "post")
    BY <1>1 DEF SSE
  <2> QED
    BY <1>1, <1>5, <1>8, <2>1, <2>2 DEF Orders, Earlier, Resultless
<1>12. AtRetry(t)' /\ Spent(t)'
  BY <1>6 DEF AtRetry, Spent
<1> QED
  BY <1>7, <1>9, <1>10, <1>11, <1>12 DEF Orders

-----------------------------------------------------------------------------
(* The retry loop never repeats a turn that had a result, and uses up its  *)
(* attempts.                                                               *)

LEMMA RetryInvInit == Init => RetryInv
<1> SUFFICES ASSUME Init PROVE RetryInv
  OBVIOUS
<1>1. TurnInv
  BY TurnInvInit
<1>2. ASSUME NEW t \in Turns PROVE Orders(t)
  <2>1. h[t]["post"] = Handler /\ exec[t].relay = 0 /\ turn[t].attempt = 0
        /\ \A a \in Attempts : proc[t][a] = [st |-> "none", ev |-> <<>>, done |-> FALSE]
    BY DEF Init, Kinds
  <2>2. turn[t].attempt <= turn[t].req.attempts
    BY <1>1, <2>1, Numbers DEF TurnInv
  <2> QED
    BY <2>1, <2>2 DEF Orders, Numbered, Wellborn, Earlier, AtRetry, Spent, Handler, Registered, Before,
                     Starting, Attending, Attempts
<1> QED
  BY <1>1, <1>2 DEF RetryInv

LEMMA RetryInvStep ==
    ASSUME RetryInv, [Next]_vars
    PROVE  RetryInv'
<1>1. TurnInv /\ \A u \in Turns : Orders(u)
  BY DEF RetryInv
<1>2. TurnInv'
  BY <1>1, TurnInvStep, TurnInvStutters
<1>3. ASSUME NEW t \in Turns, Turn(t) PROVE \A u \in Turns : Orders(u)'
  BY <1>1, <1>3, SendMessageRetry, RegisterCancelRetry, CreateFailsRetry, SendFailsRetry,
     StartAgentRetry, RegisterRetry, AfterSuspendsRetry, AfterRetriesRetry, RetryWaitRetry DEF Turn
<1>4. ASSUME NEW t \in Turns, NEW k \in Kinds, Stream(t, k) PROVE \A u \in Turns : Orders(u)'
  BY <1>1, <1>4, ReadSSERetry, EndSSERetry, PostResultDrainRetry, LeaveRetry, AfterEndsRetry,
     PollDetachedRetry, FinishRetry DEF Stream
<1>5. ASSUME NEW t \in Turns, JSON(t) PROVE \A u \in Turns : Orders(u)'
  BY <1>1, <1>5, ReadJSONRetry, GoneJSONRetry, EndJSONRetry, DrainJSONRetry DEF JSON
<1>6. ASSUME NEW t \in Turns, Client(t) \/ Timer(t) PROVE \A u \in Turns : Orders(u)'
  BY <1>1, <1>6, FollowRetry, RespondRetry, RespondNotAcceptableRetry, TimerFiresRetry,
     DrainTimeoutRetry DEF Client, Timer
<1>7. ASSUME NEW t \in Turns, Pump(t) PROVE \A u \in Turns : Orders(u)'
  BY <1>1, <1>7, PumpRetry
<1>8. ASSUME NEW t \in Turns, NEW a \in Attempts, Agent(t, a) PROVE \A u \in Turns : Orders(u)'
  BY <1>1, <1>8, AgentRetry
<1>9. ASSUME Abort PROVE \A u \in Turns : Orders(u)'
  BY <1>1, <1>9, CancelRetry, TerminateRetry, AbortContextRetry DEF Abort
<1>10. ASSUME UNCHANGED vars PROVE \A u \in Turns : Orders(u)'
  <2>1. /\ h' = h /\ exec' = exec /\ SameRuns /\ TypeOK
    BY <1>1, <1>10 DEF vars, SameRuns, TurnInv
  <2>2. SameRelays
    BY <2>1 DEF SameRelays
  <2> QED
    BY <1>1, <2>1, <2>2, SameRunsGoOn, AllRest
<1>11. Next \/ UNCHANGED vars
  OBVIOUS
<1>12. \A u \in Turns : Orders(u)'
  BY <1>11, <1>3, <1>4, <1>5, <1>6, <1>7, <1>8, <1>9, <1>10 DEF Next
<1> QED
  BY <1>2, <1>12 DEF RetryInv

LEMMA RetryInvHolds == Spec => []RetryInv
<1>1. RetryInv /\ [Next]_vars => RetryInv'
  BY RetryInvStep
<1> QED
  BY <1>1, RetryInvInit, PTL DEF Spec

(* What the retry loop of runTurn may never do, whatever clients do: run a *)
(* turn again whose agent reported a result (ensureRelayTerminal), or give *)
(* up on a retryable failure while attempts are left (handler_retry.go).   *)
RetriesRight == NoRetryAfterResult /\ RetriesUsed

(* The retry loop is right whatever clients do: a turn whose agent reported *)
(* a result is not run again, and a retryable failure ends a turn only when *)
(* its attempts are used up (handler_retry.go, runTurn).                    *)
THEOREM RetriesAreRight == Spec => []RetriesRight
<1>1. RetryInv => NoRetryAfterResult
  <2> SUFFICES ASSUME RetryInv, NEW t \in Turns \ ended, NEW a \in 1..MaxAttempts - 1,
                      SSE(t, "post"), proc[t][a + 1].st # "none"
               PROVE  ~Has(proc[t][a].ev, "result")
    BY DEF NoRetryAfterResult
  <2>1. Orders(t) /\ TypeOK
    BY DEF RetryInv, TurnInv
  <2>2. a \in Attempts /\ a + 1 \in Attempts /\ a \in Nat /\ turn[t].attempt \in Nat
    BY <2>1, Numbers DEF Attempts
  <2>3. ~(a + 1 > turn[t].attempt)
    BY <2>1, <2>2 DEF Orders, Numbered
  <2>4. a < turn[t].attempt
    BY <2>2, <2>3
  <2> QED
    BY <2>1, <2>2, <2>4 DEF Orders, Earlier, Resultless
<1>2. RetryInv => RetriesUsed
  BY DEF RetryInv, Orders, Spent, RetriesUsed, PC
<1>3. RetryInv => RetriesRight
  BY <1>1, <1>2 DEF RetriesRight
<1> QED
  BY <1>3, RetryInvHolds, PTL

-----------------------------------------------------------------------------
(* Clients that wait for their turn's end, and only answer nothing.        *)

Patient == \A r \in Requests : r.env \subseteq {"startfails"}

Serving == {"accepted", "create", "register", "reading", "after", "retrywait", "finish"}
Active(t) == PC(t, "post") \in Serving
Running == {"register", "reading", "after", "finish"}
Alone == \A t, u \in Turns : Active(t) /\ Active(u) => t = u

(* Nobody but the POST takes part in the turn, and only a suspended one    *)
(* can be ended by the reattach timer.                                     *)
Attended(t) ==
    LET p == h[t]["post"]
    IN /\ PC(t, "follow") = "off" /\ PC(t, "respond") = "off" /\ p.pc # "detached" /\ ~turn[t].gone
       /\ turn[t].ctxDone => p.pc = "returned"
       /\ t \in ended \/ exec[t].firing => p.pc = "suspended"
       /\ exec[t].timer = "armed" =>
            /\ SSE(t, "post") /\ Registered(t)
            /\ p.pc \in {"after", "retrywait", "create", "finish", "suspended"}
       /\ SSE(t, "post") /\ p.pc = "reading" => exec[t].sub = "post"
       /\ pump[t].pc # "off" => Registered(t)

(* A turn that is served or waits for an answer holds the session, and     *)
(* only then its current process may be alive.                             *)
Holds(t) ==
    /\ Active(t) => registry = IF Registered(t) THEN t ELSE NoTurn
    /\ PC(t, "post") = "suspended" /\ t \notin ended => registry = t
    /\ \A a \in Attempts : Live(t, a) =>
         /\ a = turn[t].attempt
         /\ PC(t, "post") \in Running \/ (PC(t, "post") = "suspended" /\ registry = t)

(* The native id that a fresh attempt might resume was reported by someone. *)
Reported == \E u \in Turns : \E b \in Attempts : Has(proc[u][b].ev, "system")
Healed(t) ==
    turn[t].attempt > 1 /\ PC(t, "post") \in Starting /\ rec.native = "some" => Reported

Stable(t) == Attended(t) /\ Holds(t) /\ Healed(t)
PatientInv ==
    /\ RetryInv /\ Alone /\ aborter = "none" /\ HealStartsFresh
    /\ \A t \in Turns : Stable(t)

-----------------------------------------------------------------------------
(* What patience means for the clients' choices, and what the invariant    *)
(* says of the turn that is served.                                        *)

LEMMA Unwanted ==
    ASSUME Patient, TypeOK, NEW t \in Turns
    PROVE  \A choice : May(t, choice) => choice = "startfails"
<1>1. turn[t].req \in Requests
  BY Cells DEF TurnState
<1> QED
  BY <1>1 DEF Patient, May

LEMMA Served ==
    ASSUME PatientInv, NEW t \in Turns, Active(t)
    PROVE  /\ registry = IF Registered(t) THEN t ELSE NoTurn
           /\ t \notin ended /\ ~turn[t].ctxDone /\ ~exec[t].firing
           /\ \A u \in Turns : u # t =>
                /\ ~Active(u) /\ (PC(u, "post") = "suspended" => u \in ended)
                /\ \A b \in Attempts : ~Live(u, b)
<1>1. Attended(t) /\ Holds(t) /\ \A u \in Turns : Holds(u)
  BY DEF PatientInv, Stable
<1>2. PC(t, "post") \notin {"suspended", "returned"}
  BY DEF Active, Serving
<1>3. registry = IF Registered(t) THEN t ELSE NoTurn
  BY <1>1 DEF Holds
<1>4. t # NoTurn /\ \A u \in Turns : u # NoTurn
  BY TurnAssumption
<1>5. ASSUME NEW u \in Turns, u # t
      PROVE  /\ ~Active(u) /\ (PC(u, "post") = "suspended" => u \in ended)
             /\ \A b \in Attempts : ~Live(u, b)
  <2>1. ~Active(u) /\ registry # u
    BY <1>3, <1>4, <1>5 DEF PatientInv, Alone
  <2>2. PC(u, "post") \notin Running
    BY <2>1 DEF Active, Running, Serving
  <2> QED
    BY <1>1, <2>1, <2>2 DEF Holds
<1> QED
  BY <1>1, <1>2, <1>3, <1>5 DEF Attended, PC

(* Whatever was reported stays reported. *)
Grows == \A u \in Turns, b \in Attempts : Has(proc[u][b].ev, "system") => Has(proc'[u][b].ev, "system")

LEMMA StaysReported ==
    ASSUME Grows
    PROVE  Reported => Reported'
BY DEF Grows, Reported

LEMMA StaysFresh ==
    ASSUME HealStartsFresh, TypeOK, Grows, resumed' = resumed
    PROVE  HealStartsFresh'
BY DEF HealStartsFresh, Grows, TypeOK

(* The turn t is served, and all others rest. *)
Rests(u) ==
    /\ \A k \in Kinds : h'[u][k] = h[u][k]
    /\ exec'[u] = exec[u] /\ turn'[u] = turn[u] /\ pump'[u] = pump[u]
    /\ \A b \in Attempts : proc'[u][b] = proc[u][b]

LEMMA Serves ==
    ASSUME PatientInv, RetryInv', NEW t \in Turns, Active(t), \A u \in Turns : u # t => Rests(u),
           ended' = ended, aborter' = aborter, HealStartsFresh', Stable(t)'
    PROVE  PatientInv'
<1>1. \A u \in Turns : u # t => PC(u, "post")' = PC(u, "post") /\ ~Active(u)'
  BY Served DEF Rests, PC, Active, Kinds
<1>2. Alone'
  BY <1>1 DEF Alone
<1>3. ASSUME NEW u \in Turns, u # t PROVE Stable(u)'
  <2>1. Rests(u) /\ Stable(u) /\ ~Active(u) /\ ~Active(u)'
    BY <1>1, <1>3, Served DEF PatientInv
  <2>2. Attended(u)'
    BY <2>1 DEF Stable, Attended, Rests, PC, SSE, Registered, Kinds
  <2>3. \A b \in Attempts : ~Live(u, b)'
    BY <1>3, <2>1, Served DEF Rests, Live
  <2>4. PC(u, "post")' = "suspended" => u \in ended'
    BY <1>1, <1>3, Served
  <2>5. PC(u, "post")' \notin Starting
    BY <2>1 DEF Active, Serving, Starting
  <2> QED
    BY <2>1, <2>2, <2>3, <2>4, <2>5 DEF Stable, Holds, Healed
<1> QED
  BY <1>2, <1>3 DEF PatientInv

(* The POST of t moves to a label, and its attempt goes on. *)
OnlyPost(t) == \A u \in Turns, k \in Kinds : u # t \/ k # "post" => h'[u][k] = h[u][k]
SameServed == proc' = proc /\ turn' = turn /\ ended' = ended /\ aborter' = aborter
              /\ registry' = registry /\ pump' = pump /\ resumed' = resumed
OnlyExec(t) ==
    /\ \A u \in Turns : u # t => exec'[u] = exec[u]
    /\ exec'[t].relay = exec[t].relay /\ exec'[t].firing = exec[t].firing

LEMMA PostMovesOn ==
    ASSUME PatientInv, RetryInv', NEW t \in Turns, Active(t), NEW to,
           to \in {"create", "reading", "after", "finish", "suspended"},
           OnlyPost(t), PC(t, "post")' = to, OnlyExec(t), SameServed,
           PC(t, "post") \in Running => to \in Running \cup {"suspended"},
           to = "create" => PC(t, "post") \in Starting /\ rec'.native = rec.native,
           to = "suspended" => Registered(t),
           exec'[t].timer = "armed" => /\ SSE(t, "post") /\ Registered(t)
                                       /\ to \in {"create", "after", "finish", "suspended"},
           SSE(t, "post") /\ to = "reading" => exec'[t].sub = "post"
    PROVE  PatientInv'
<1>1. TypeOK /\ HealStartsFresh /\ Stable(t)
  BY DEF PatientInv, RetryInv, TurnInv
<1>2. \A u \in Turns : u # t => Rests(u)
  BY DEF Rests, OnlyPost, OnlyExec, SameServed
<1>3. HealStartsFresh'
  BY <1>1 DEF SameServed, HealStartsFresh
<1>4. /\ registry = IF Registered(t) THEN t ELSE NoTurn
      /\ t \notin ended /\ ~turn[t].ctxDone /\ ~exec[t].firing
  BY Served
<1>5. SSE(t, "post")' = SSE(t, "post") /\ Registered(t)' = Registered(t)
  BY DEF SSE, Registered, SameServed, OnlyExec
<1>6. PC(t, "follow")' = PC(t, "follow") /\ PC(t, "respond")' = PC(t, "respond")
      /\ h'[t]["post"].pc = to
  BY DEF OnlyPost, PC, Kinds
<1>7. Attended(t)'
  BY <1>1, <1>4, <1>5, <1>6 DEF Stable, Attended, SameServed, OnlyExec, PC
<1>8. Holds(t)'
  <2>1. Active(t)' \/ to = "suspended" => registry' = IF Registered(t)' THEN t ELSE NoTurn
    BY <1>4, <1>5 DEF SameServed
  <2>2. ASSUME NEW a \in Attempts, Live(t, a)'
        PROVE  a = turn'[t].attempt /\ (to \in Running \/ (to = "suspended" /\ registry' = t))
    <3>1. Live(t, a)
      BY <2>2 DEF Live, SameServed
    <3>2. a = turn[t].attempt /\ PC(t, "post") \in Running \cup {"suspended"}
      BY <1>1, <3>1 DEF Stable, Holds
    <3>3. PC(t, "post") # "suspended"
      BY DEF Active, Serving
    <3> QED
      BY <1>4, <3>2, <3>3 DEF SameServed
  <2> QED
    BY <1>5, <2>1, <2>2 DEF Holds, PC
<1>9. Healed(t)'
  BY <1>1 DEF Stable, Healed, Starting, SameServed, Reported
<1> QED
  BY <1>2, <1>3, <1>7, <1>8, <1>9, Serves DEF Stable, SameServed

-----------------------------------------------------------------------------
(* Steps after which the POST goes on with its attempt.                    *)

(* It only goes to another label. *)
LEMMA PostGoesTo ==
    ASSUME PatientInv, RetryInv', NEW t \in Turns, Active(t), NEW to,
           to \in {"create", "after", "finish", "suspended"}, Goto(t, "post", to),
           exec' = exec, SameServed,
           PC(t, "post") \in Running => to \in Running \cup {"suspended"},
           to = "create" => PC(t, "post") \in Starting /\ rec'.native = rec.native,
           to = "suspended" => Registered(t)
    PROVE  PatientInv'
<1>1. TypeOK /\ "post" \in Kinds
  BY DEF PatientInv, RetryInv, TurnInv, Kinds
<1>2. OnlyPost(t) /\ PC(t, "post")' = to
  BY <1>1, HandlerWent DEF OnlyPost, PC
<1>3. OnlyExec(t)
  BY DEF OnlyExec
<1>4. exec[t].timer = "armed" => SSE(t, "post") /\ Registered(t)
  BY DEF PatientInv, Stable, Attended
<1> QED
  BY <1>2, <1>3, <1>4, PostMovesOn

LEMMA RetryWaitPatient ==
    ASSUME PatientInv, RetryInv', NEW t \in Turns, RetryWait(t)
    PROVE  PatientInv'
<1>1. PC(t, "post") = "retrywait" /\ exec' = exec /\ SameServed /\ rec' = rec
  BY DEF RetryWait, SameServed, regVars
<1>2. Active(t)
  BY <1>1 DEF Active, Serving
<1>3. PICK to \in {"create", "finish"} : Goto(t, "post", to)
  BY DEF RetryWait
<1> QED
  BY <1>1, <1>2, <1>3, PostGoesTo DEF Running, Starting

LEMMA AfterSuspendsPatient ==
    ASSUME PatientInv, RetryInv', NEW t \in Turns, AfterSuspends(t)
    PROVE  PatientInv'
<1>1. PC(t, "post") = "after" /\ exec' = exec /\ SameServed /\ Goto(t, "post", "suspended")
  BY DEF AfterSuspends, SameServed, regVars
<1>2. Active(t)
  BY <1>1 DEF Active, Serving
<1>3. Registered(t)
  BY <1>1 DEF PatientInv, RetryInv, TurnInv, Parts, Places, Attending
<1> QED
  BY <1>1, <1>2, <1>3, PostGoesTo DEF Running

LEMMA AfterEndsPatient ==
    ASSUME PatientInv, RetryInv', NEW t \in Turns, AfterEnds(t, "post")
    PROVE  PatientInv'
<1>1. PC(t, "post") = "after" /\ exec' = exec /\ SameServed /\ Goto(t, "post", "finish")
  BY DEF AfterEnds, SameServed, regVars
<1>2. Active(t)
  BY <1>1 DEF Active, Serving
<1> QED
  BY <1>1, <1>2, PostGoesTo DEF Running

LEMMA EndJSONPatient ==
    ASSUME PatientInv, RetryInv', NEW t \in Turns, EndJSON(t)
    PROVE  PatientInv'
<1>1. PC(t, "post") = "reading" /\ exec' = exec /\ SameServed /\ Goto(t, "post", "after")
  BY DEF EndJSON, Drained, SameServed, regVars
<1>2. Active(t)
  BY <1>1 DEF Active, Serving
<1> QED
  BY <1>1, <1>2, PostGoesTo DEF Running

(* A reader's end arms the reattach timer. *)
LEMMA Subscribing ==
    ASSUME NEW e \in ExecState, NEW k \in Kinds
    PROVE  Unsubscribed(e, k).firing = e.firing /\ Unsubscribed(e, k).relay = e.relay
BY DEF Armed, Unsubscribed, ExecState

LEMMA Advancing ==
    ASSUME NEW e \in ExecState, NEW n \in Nat
    PROVE  LET f == [e EXCEPT !.offset = n]
           IN /\ f \in ExecState /\ f.firing = e.firing /\ f.relay = e.relay
              /\ f.timer = e.timer /\ f.sub = e.sub
BY DEF ExecState

(* The POST reads its SSE stream on, or leaves it for what follows. *)
LEMMA PostReads ==
    ASSUME PatientInv, RetryInv', NEW t \in Turns, PC(t, "post") = "reading", SSE(t, "post"),
           NEW to \in {"reading", "after"}, OnlyPost(t), PC(t, "post")' = to, SameServed,
           NEW x, exec' = [exec EXCEPT ![t] = x],
           x.relay = exec[t].relay /\ x.firing = exec[t].firing,
           to = "reading" => x.timer = exec[t].timer /\ x.sub = exec[t].sub
    PROVE  PatientInv'
<1>1. TypeOK /\ Stable(t) /\ Registered(t) /\ Active(t)
  BY DEF PatientInv, RetryInv, TurnInv, Parts, Places, Attending, Active, Serving
<1>2. exec'[t] = x /\ \A u \in Turns : u # t => exec'[u] = exec[u]
  BY <1>1 DEF TypeOK
<1>3. OnlyExec(t)
  BY <1>2 DEF OnlyExec
<1>4. to = "reading" => exec'[t].timer # "armed" /\ exec'[t].sub = "post"
  BY <1>1, <1>2 DEF Stable, Attended, PC
<1> QED
  BY <1>1, <1>3, <1>4, PostMovesOn DEF Running

LEMMA PostResultDrainPatient ==
    ASSUME PatientInv, RetryInv', NEW t \in Turns, PostResultDrain(t, "post")
    PROVE  PatientInv'
<1> DEFINE x == Unsubscribed(exec[t], "post")
<1>1. /\ PC(t, "post") = "reading" /\ SSE(t, "post") /\ SameServed /\ Goto(t, "post", "after")
      /\ exec' = [exec EXCEPT ![t] = x]
  BY DEF PostResultDrain, SameServed, regVars, AfterAttach
<1>2. TypeOK /\ "post" \in Kinds
  BY DEF PatientInv, RetryInv, TurnInv, Kinds
<1>3. x.firing = exec[t].firing /\ x.relay = exec[t].relay
  BY <1>2, Cells, Subscribing
<1>4. OnlyPost(t) /\ PC(t, "post")' = "after"
  BY <1>1, <1>2, HandlerWent DEF OnlyPost, PC
<1> HIDE DEF x
<1> QED
  BY <1>1, <1>3, <1>4, PostReads

LEMMA ReadSSEPatient ==
    ASSUME Patient, PatientInv, RetryInv', NEW t \in Turns, ReadSSE(t, "post")
    PROVE  PatientInv'
<1> DEFINE p == h[t]["post"]
           e == NextEvent(t, "post")
           r == [exec[t] EXCEPT !.offset = p.cur + 1]
           v == Took("post", p, e, FALSE)
           x == IF Ends("post", p, e, FALSE) THEN Unsubscribed(r, "post") ELSE r
<1>1. PC(t, "post") = "reading" /\ Pending(t, "post") /\ SSE(t, "post") /\ Parts(t) /\ TypeOK
      /\ SameServed /\ "post" \in Kinds
  BY DEF ReadSSE, Pending, PatientInv, RetryInv, TurnInv, SameServed, regVars, Kinds
<1>2. ~May(t, "disconnect")
  BY <1>1, Unwanted
<1>3. h' = [h EXCEPT ![t]["post"] = v] /\ exec' = [exec EXCEPT ![t] = x]
  BY <1>2 DEF ReadSSE
<1>4. p \in HandlerState /\ exec[t] \in ExecState /\ e \in EventKinds
  BY <1>1, ReadingFacts, NextEventOf DEF Parts
<1>5. v \in HandlerState /\ v.pc = IF Ends("post", p, e, FALSE) THEN "after" ELSE "reading"
  <2>1. v.pc = IF Ends("post", p, e, FALSE) THEN "after" ELSE "reading"
    BY <1>1, <1>4 DEF Took, AfterAttach, HandlerState, PC
  <2> QED
    BY <1>1, <1>4, <2>1, TookPost DEF PC
<1>6. /\ x.relay = exec[t].relay /\ x.firing = exec[t].firing
      /\ ~Ends("post", p, e, FALSE) => x.timer = exec[t].timer /\ x.sub = exec[t].sub
  <2>1. p.cur + 1 \in Nat
    BY <1>4 DEF HandlerState
  <2>2. /\ r \in ExecState /\ r.relay = exec[t].relay /\ r.firing = exec[t].firing
        /\ r.timer = exec[t].timer /\ r.sub = exec[t].sub
    BY <1>4, <2>1, Advancing
  <2> HIDE DEF r
  <2>3. Unsubscribed(r, "post").relay = r.relay /\ Unsubscribed(r, "post").firing = r.firing
    BY <1>1, <2>2, Subscribing
  <2> QED
    BY <2>2, <2>3
<1> HIDE DEF v, x
<1>7. OnlyPost(t) /\ PC(t, "post")' = v.pc
  BY <1>1, <1>3, <1>5 DEF OnlyPost, PC, TypeOK
<1>8. v.pc \in {"reading", "after"} /\ (v.pc = "reading" => ~Ends("post", p, e, FALSE))
  BY <1>5
<1> QED
  BY <1>1, <1>3, <1>6, <1>7, <1>8, PostReads

LEMMA EndSSEPatient ==
    ASSUME PatientInv, RetryInv', NEW t \in Turns, EndSSE(t, "post")
    PROVE  PatientInv'
<1> DEFINE p == h[t]["post"]
           trm == EnsureTerminal(p.term, Relay(t).ev)
           synth == Synthesized(p.wrote, trm)
           r == IF synth THEN [exec[t] EXCEPT !.offset = p.cur + 1] ELSE exec[t]
           v == AtEnd("post", p, trm)
           x == Unsubscribed(r, "post")
<1>1. PC(t, "post") = "reading" /\ SSE(t, "post") /\ Parts(t) /\ TypeOK
      /\ SameServed /\ "post" \in Kinds
  BY DEF EndSSE, Drained, PatientInv, RetryInv, TurnInv, SameServed, regVars, Kinds
<1>2. p \in HandlerState /\ exec[t] \in ExecState
  BY <1>1, Cells
<1>3. h' = [h EXCEPT ![t]["post"] = v] /\ exec' = [exec EXCEPT ![t] = x]
  BY DEF EndSSE
<1>4. x.relay = exec[t].relay /\ x.firing = exec[t].firing
  <2>1. p.cur + 1 \in Nat
    BY <1>2 DEF HandlerState
  <2>2. r \in ExecState /\ r.relay = exec[t].relay /\ r.firing = exec[t].firing
    BY <1>2, <2>1, Advancing
  <2> HIDE DEF r
  <2> QED
    BY <1>1, <2>2, Subscribing
<1>5. v.pc = "after"
  BY <1>2 DEF AtEnd, AfterAttach, HandlerState
<1> HIDE DEF v, x
<1>6. OnlyPost(t) /\ PC(t, "post")' = "after"
  BY <1>1, <1>3, <1>5 DEF OnlyPost, PC, TypeOK
<1> QED
  BY <1>1, <1>3, <1>4, <1>6, PostReads

LEMMA ReadJSONPatient ==
    ASSUME PatientInv, RetryInv', NEW t \in Turns, ReadJSON(t)
    PROVE  PatientInv'
<1> DEFINE p == h[t]["post"]
           e == NextEvent(t, "post")
           live == ~turn[t].gone
           v == TookJSON(p, e, live)
           y == IF e = "input" /\ live THEN Suspended(t) ELSE exec
<1>1. /\ TypeOK /\ Stable(t) /\ PC(t, "post") = "reading" /\ ~SSE(t, "post") /\ Active(t)
      /\ Registered(t) /\ SameServed /\ "post" \in Kinds
  BY DEF PatientInv, RetryInv, TurnInv, Parts, Places, Attending, ReadJSON, Pending, SameServed, regVars,
         Active, Serving, Kinds
<1>2. h' = [h EXCEPT ![t]["post"] = v] /\ exec' = [y EXCEPT ![t].offset = @ + 1]
  BY DEF ReadJSON
<1>3. p \in HandlerState /\ live
  BY <1>1, Cells DEF Stable, Attended
<1>4. v.pc \in {"reading", "suspended"}
  BY <1>1, <1>3 DEF TookJSON, AfterInputJSON, HandlerState, PC
<1> HIDE DEF v
<1>5. OnlyPost(t) /\ PC(t, "post")' = v.pc
  BY <1>1, <1>2 DEF OnlyPost, PC, TypeOK
<1>6. y \in Execs /\ \A u \in Turns : /\ y[u].relay = exec[u].relay /\ y[u].timer = exec[u].timer
                                      /\ y[u].firing = exec[u].firing /\ (u # t => y[u] = exec[u])
  <2>1. registry = t
    BY <1>1, Served
  <2>2. \A u \in Turns : u # t => Suspended(t)[u] = exec[u]
    BY <2>1 DEF Suspended
  <2> QED
    BY <1>1, <2>2, Cells, SuspendedOnly
<1> HIDE DEF y
<1>7. OnlyExec(t) /\ exec'[t].timer = exec[t].timer
  BY <1>2, <1>6 DEF OnlyExec, Execs, ExecState
<1>8. exec[t].timer # "armed"
  BY <1>1 DEF Stable, Attended
<1> QED
  BY <1>1, <1>4, <1>5, <1>7, <1>8, PostMovesOn DEF Running

-----------------------------------------------------------------------------
(* Steps that begin a turn, an attempt or a registration.                  *)

LEMMA SendMessagePatient ==
    ASSUME Patient, PatientInv, RetryInv', NEW t \in Turns, SendMessage(t)
    PROVE  PatientInv'
<1> DEFINE to == IF registry = NoTurn THEN "accepted" ELSE "busy"
<1>1. /\ TypeOK /\ PC(t, "post") = "off" /\ Goto(t, "post", to) /\ exec' = exec /\ SameServed
      /\ rec' = rec /\ "post" \in Kinds /\ Stable(t) /\ ~Registered(t)
  BY DEF SendMessage, PatientInv, RetryInv, TurnInv, Parts, Places, Before, SameServed, regVars, Kinds
<1>2. ~May(t, "concurrent")
  BY <1>1, Unwanted
<1>3. \A u \in Turns : ~Active(u)
  <2>1. ASSUME NEW u \in Turns PROVE ~Active(u)
    <3>1. Over(u)
      BY <1>2 DEF SendMessage
    <3>2. u \in ended => PC(u, "post") = "suspended"
      BY DEF PatientInv, Stable, Attended, PC
    <3> QED
      BY <3>1, <3>2 DEF Over, Active, Serving
  <2> QED
    BY <2>1
<1>4. OnlyPost(t) /\ PC(t, "post")' = to
  BY <1>1, HandlerWent DEF OnlyPost, PC
<1>5. \A u \in Turns : /\ u # t => PC(u, "post")' = PC(u, "post")
                       /\ PC(u, "follow")' = PC(u, "follow") /\ PC(u, "respond")' = PC(u, "respond")
                       /\ SSE(u, "post")' = SSE(u, "post") /\ Registered(u)' = Registered(u)
                       /\ \A a \in Attempts : Live(u, a)' = Live(u, a)
  BY <1>1, <1>4 DEF OnlyPost, PC, Kinds, SSE, Registered, SameServed, Live
<1>6. Alone'
  BY <1>3, <1>5 DEF Alone, Active
<1>7. HealStartsFresh'
  BY <1>1 DEF SameServed, PatientInv, HealStartsFresh
<1>8. ASSUME NEW u \in Turns, u # t PROVE Stable(u)'
  <2>1. h'[u]["post"] = h[u]["post"]
    BY <1>1, <1>4, <1>8 DEF OnlyPost
  <2>2. Attended(u)'
    BY <1>1, <1>5, <1>8, <2>1 DEF PatientInv, Stable, Attended, SameServed
  <2>3. Holds(u)'
    BY <1>1, <1>3, <1>5, <1>8 DEF PatientInv, Stable, Holds, SameServed, Active
  <2>4. Healed(u)'
    BY <1>1, <1>5, <1>8 DEF PatientInv, Stable, Healed, SameServed, Reported
  <2> QED
    BY <2>2, <2>3, <2>4 DEF Stable
<1>9. Stable(t)'
  <2>1. h'[t]["post"].pc = to /\ to \notin {"suspended", "returned", "reading", "detached"}
    BY <1>4 DEF PC
  <2>2. /\ t \notin ended /\ ~exec[t].firing /\ exec[t].timer # "armed" /\ ~turn[t].ctxDone
        /\ pump[t].pc = "off"
    BY <1>1 DEF Stable, Attended, PC
  <2>3. Attended(t)'
    BY <1>1, <1>5, <2>1, <2>2 DEF Stable, Attended, SameServed
  <2>4. \A a \in Attempts : ~Live(t, a)
    BY <1>1 DEF Stable, Holds, Running
  <2>5. Holds(t)'
    BY <1>1, <1>4, <1>5, <2>4 DEF Holds, SameServed, Active, Serving
  <2>6. Healed(t)'
    BY <1>4 DEF Healed, Starting
  <2> QED
    BY <2>3, <2>5, <2>6 DEF Stable
<1> QED
  BY <1>1, <1>6, <1>7, <1>8, <1>9 DEF PatientInv, SameServed

(* The POST of t, its locals and its process change; the execution does    *)
(* not.  The label is none of those where the agent is read.               *)
LEMMA TurnMovesOn ==
    ASSUME PatientInv, RetryInv', NEW t \in Turns, Active(t), NEW to,
           to \in {"create", "retrywait", "finish", "returned"},
           OnlyPost(t), PC(t, "post")' = to, exec' = exec, pump' = pump,
           ended' = ended, aborter' = aborter, registry' = registry, resumed' = resumed,
           \A u \in Turns : u # t => turn'[u] = turn[u] /\ \A b \in Attempts : proc'[u][b] = proc[u][b],
           turn'[t].req = turn[t].req, turn'[t].gone = turn[t].gone,
           turn'[t].ctxDone => to = "returned", to = "returned" => exec[t].timer # "armed",
           Grows, \A a \in Attempts : ~Live(t, a)', Healed(t)'
    PROVE  PatientInv'
<1>1. TypeOK /\ HealStartsFresh /\ Stable(t)
  BY DEF PatientInv, RetryInv, TurnInv
<1>2. \A u \in Turns : u # t => Rests(u)
  BY DEF Rests, OnlyPost
<1>3. HealStartsFresh'
  BY <1>1, StaysFresh
<1>4. registry = (IF Registered(t) THEN t ELSE NoTurn) /\ t \notin ended /\ ~exec[t].firing
  BY Served
<1>5. SSE(t, "post")' = SSE(t, "post") /\ Registered(t)' = Registered(t)
  BY DEF SSE, Registered
<1>6. PC(t, "follow")' = PC(t, "follow") /\ PC(t, "respond")' = PC(t, "respond")
      /\ h'[t]["post"].pc = to
  BY DEF OnlyPost, PC, Kinds
<1>7. Attended(t)'
  BY <1>1, <1>4, <1>5, <1>6 DEF Stable, Attended
<1>8. Holds(t)'
  BY <1>4, <1>5 DEF Holds
<1> QED
  BY <1>2, <1>3, <1>7, <1>8, Serves DEF Stable

LEMMA RegisterCancelPatient ==
    ASSUME PatientInv, RetryInv', NEW t \in Turns, RegisterCancel(t)
    PROVE  PatientInv'
<1> DEFINE r == [turn[t] EXCEPT !.attempt = 1]
<1>1. /\ TypeOK /\ PC(t, "post") = "accepted" /\ Goto(t, "post", "create") /\ exec' = exec
      /\ pump' = pump /\ ended' = ended /\ aborter' = aborter /\ registry' = registry
      /\ resumed' = resumed /\ proc' = proc /\ "post" \in Kinds /\ turn[t] \in TurnState
  BY Cells DEF RegisterCancel, PatientInv, RetryInv, TurnInv, Kinds
<1>2. Active(t) /\ Stable(t)
  BY <1>1 DEF Active, Serving, PatientInv
<1>3. OnlyPost(t) /\ PC(t, "post")' = "create"
  BY <1>1, HandlerWent DEF OnlyPost, PC
<1>4. r.req = turn[t].req /\ r.gone = turn[t].gone /\ r.ctxDone = turn[t].ctxDone /\ r.attempt = 1
  BY <1>1 DEF TurnState
<1>5. turn' = [turn EXCEPT ![t] = r]
  BY <1>1 DEF RegisterCancel, TypeOK
<1> HIDE DEF r
<1>6. turn'[t] = r /\ \A u \in Turns : u # t => turn'[u] = turn[u]
  BY <1>1, <1>5 DEF TypeOK
<1>7. \A a \in Attempts : ~Live(t, a)'
  BY <1>1, <1>2 DEF Stable, Holds, Running, Live
<1>8. Healed(t)' /\ Grows /\ ~r.ctxDone
  BY <1>1, <1>2, <1>4, <1>6, Served DEF Healed, Grows
<1> QED
  BY <1>1, <1>2, <1>3, <1>4, <1>6, <1>7, <1>8, TurnMovesOn

LEMMA CreateFailsPatient ==
    ASSUME PatientInv, RetryInv', NEW t \in Turns, CreateFails(t)
    PROVE  PatientInv'
<1>1. /\ TypeOK /\ PC(t, "post") = "create" /\ exec' = exec /\ "post" \in Kinds
      /\ pump' = pump /\ ended' = ended /\ aborter' = aborter /\ registry' = registry
      /\ resumed' = resumed /\ proc' = proc /\ turn[t] \in TurnState
  BY Cells DEF CreateFails, PatientInv, RetryInv, TurnInv, Kinds
<1>2. Active(t) /\ Stable(t)
  BY <1>1 DEF Active, Serving, PatientInv
<1>3. CASE Registered(t)
  BY <1>1, <1>2, <1>3, PostGoesTo DEF CreateFails, SameServed, Running
<1>4. CASE ~Registered(t)
  <2> DEFINE r == [turn[t] EXCEPT !.ctxDone = TRUE]
  <2>1. turn' = [turn EXCEPT ![t] = r] /\ Goto(t, "post", "returned")
    BY <1>4 DEF CreateFails
  <2>2. r.req = turn[t].req /\ r.gone = turn[t].gone
    BY <1>1 DEF TurnState
  <2> HIDE DEF r
  <2>3. turn'[t] = r /\ \A u \in Turns : u # t => turn'[u] = turn[u]
    BY <1>1, <2>1 DEF TypeOK
  <2>4. OnlyPost(t) /\ PC(t, "post")' = "returned"
    BY <1>1, <2>1, HandlerWent DEF OnlyPost, PC
  <2>5. \A a \in Attempts : ~Live(t, a)'
    BY <1>1, <1>2 DEF Stable, Holds, Running, Live
  <2>6. Healed(t)' /\ Grows /\ exec[t].timer # "armed"
    BY <1>1, <1>2, <1>4, <2>4 DEF Healed, Grows, Starting, Stable, Attended
  <2> QED
    BY <1>1, <1>2, <2>2, <2>3, <2>4, <2>5, <2>6, TurnMovesOn
<1> QED
  BY <1>3, <1>4

(* The next attempt is prepared. *)
LEMMA PreparesPatient ==
    ASSUME PatientInv, RetryInv', NEW t \in Turns, PC(t, "post") \in {"after", "create"},
           PrepareRetry(t), OnlyPost(t), PC(t, "post")' \in {"create", "retrywait"},
           exec' = exec, pump' = pump, ended' = ended, aborter' = aborter,
           registry' = registry, resumed' = resumed
    PROVE  PatientInv'
<1> DEFINE n == turn[t].attempt
           r == [turn[t] EXCEPT !.attempt = n + 1, !.heal = TRUE]
<1>1. TypeOK /\ turn[t] \in TurnState /\ n \in Attempts /\ Active(t) /\ Stable(t) /\ rec \in RecordState
  BY Cells, AttemptOf DEF PatientInv, RetryInv, TurnInv, Before, Active, Serving, TypeOK
<1>2. r.req = turn[t].req /\ r.gone = turn[t].gone /\ r.ctxDone = turn[t].ctxDone
  BY <1>1 DEF TurnState
<1>3. turn' = [turn EXCEPT ![t] = r]
  BY <1>1 DEF PrepareRetry, TypeOK
<1> HIDE DEF r
<1>4. turn'[t] = r /\ \A u \in Turns : u # t => turn'[u] = turn[u]
  BY <1>1, <1>3 DEF TypeOK
<1>5. proc' = Stopped(t, n) /\ rec'.native = "none"
  BY <1>1 DEF PrepareRetry, RecordState
<1>6. Grows /\ \A u \in Turns : u # t => \A b \in Attempts : proc'[u][b] = proc[u][b]
  BY <1>1, <1>5, Stopping DEF Grows
<1>7. \A a \in Attempts : ~Live(t, a)'
  <2>1. proc'[t][n].st \notin {"running", "waiting"}
    BY <1>1, <1>5, Stopping
  <2>2. \A a \in Attempts : a # n => ~Live(t, a) /\ proc'[t][a] = proc[t][a]
    BY <1>1, <1>5, Stopping DEF Stable, Holds
  <2> QED
    BY <2>1, <2>2 DEF Live
<1>8. Healed(t)' /\ ~turn'[t].ctxDone
  BY <1>1, <1>2, <1>4, <1>5, Served DEF Healed
<1> QED
  BY <1>1, <1>2, <1>4, <1>6, <1>7, <1>8, TurnMovesOn

LEMMA AfterRetriesPatient ==
    ASSUME PatientInv, RetryInv', NEW t \in Turns, AfterRetries(t)
    PROVE  PatientInv'
<1>1. TypeOK /\ "post" \in Kinds /\ Goto(t, "post", "retrywait")
  BY DEF PatientInv, RetryInv, TurnInv, Kinds, AfterRetries
<1>2. OnlyPost(t) /\ PC(t, "post")' = "retrywait"
  BY <1>1, HandlerWent DEF OnlyPost, PC
<1> QED
  BY <1>2, PreparesPatient DEF AfterRetries

LEMMA SendFailsPatient ==
    ASSUME PatientInv, RetryInv', NEW t \in Turns, SendFails(t)
    PROVE  PatientInv'
<1>1. CASE Registered(t) /\ turn[t].attempt < turn[t].req.attempts
  <2>1. h' = h /\ PrepareRetry(t)
    BY <1>1 DEF SendFails
  <2>2. OnlyPost(t) /\ PC(t, "post")' = "create"
    BY <2>1 DEF OnlyPost, PC, SendFails
  <2> QED
    BY <2>1, <2>2, PreparesPatient DEF SendFails
<1>2. CASE ~(Registered(t) /\ turn[t].attempt < turn[t].req.attempts)
  <2>1. PC(t, "post") = "create" /\ Goto(t, "post", "finish") /\ exec' = exec /\ SameServed
    BY <1>2 DEF SendFails, SameServed
  <2>2. Active(t)
    BY <2>1 DEF Active, Serving
  <2> QED
    BY <2>1, <2>2, PostGoesTo DEF Running
<1> QED
  BY <1>1, <1>2

LEMMA StartAgentPatient ==
    ASSUME PatientInv, RetryInv', NEW t \in Turns, StartAgent(t)
    PROVE  PatientInv'
<1> DEFINE n == turn[t].attempt
           p == [proc[t][n] EXCEPT !.st = "running"]
<1>1. /\ TypeOK /\ PC(t, "post") = "create" /\ turn' = turn /\ pump' = pump /\ "post" \in Kinds
      /\ ended' = ended /\ aborter' = aborter /\ registry' = registry /\ rec' = rec
  BY DEF StartAgent, PatientInv, RetryInv, TurnInv, Kinds
<1>2. Active(t) /\ Stable(t) /\ Orders(t) /\ HealStartsFresh
  BY <1>1 DEF Active, Serving, PatientInv, RetryInv
<1>3. n \in Attempts /\ proc[t][n].st = "none" /\ proc[t][n].ev = <<>>
  BY <1>1, <1>2, AttemptOf DEF Before, Starting, Orders, Wellborn, PatientInv, RetryInv
<1>4. p.st = "running" /\ p.ev = proc[t][n].ev
  BY <1>1, <1>3, Cells DEF ProcState
<1>5. proc' = [proc EXCEPT ![t][n] = p]
  BY DEF StartAgent
<1> HIDE DEF p
<1>6. proc'[t][n] = p /\ \A u \in Turns, b \in Attempts : u # t \/ b # n => proc'[u][b] = proc[u][b]
  BY <1>1, <1>3, <1>5 DEF TypeOK
<1>7. \A u \in Turns, b \in Attempts : proc'[u][b].ev = proc[u][b].ev
  BY <1>4, <1>6
<1>8. Grows
  BY <1>7 DEF Grows
<1>9. HealStartsFresh'
  <2>1. resumed' \subseteq resumed \cup {<<t, n>>}
    BY DEF StartAgent
  <2>2. SUFFICES ASSUME NEW u \in Turns, NEW a \in Attempts, <<u, a>> \in resumed', a > 1
                 PROVE  \E w \in Turns : \E b \in Attempts :
                            <<w, b>> # <<u, a>> /\ Has(proc'[w][b].ev, "system")
    BY DEF HealStartsFresh
  <2>3. CASE <<u, a>> \in resumed
    <3>1. PICK w \in Turns, b \in Attempts : <<w, b>> # <<u, a>> /\ Has(proc[w][b].ev, "system")
      BY <1>2, <2>2, <2>3 DEF HealStartsFresh
    <3> QED
      BY <1>8, <3>1 DEF Grows
  <2>4. CASE <<u, a>> \notin resumed
    <3>1. u = t /\ a = n /\ resumed' # resumed
      BY <2>1, <2>2, <2>4
    <3>2. turn[t].heal /\ rec.native = "some"
      BY <1>2, <2>2, <3>1 DEF StartAgent, Orders, Numbered
    <3>3. PICK w \in Turns, b \in Attempts : Has(proc[w][b].ev, "system")
      BY <1>1, <1>2, <2>2, <3>1, <3>2 DEF Stable, Healed, Starting, Reported
    <3>4. ~Has(proc[t][n].ev, "system")
      BY <1>3 DEF Has
    <3> QED
      BY <1>8, <3>1, <3>3, <3>4 DEF Grows
  <2> QED
    BY <2>3, <2>4
<1>10. \A a \in Attempts : Live(t, a)' => a = n
  BY <1>1, <1>2, <1>6 DEF Stable, Holds, Running, Live
<1>11. registry = (IF Registered(t) THEN t ELSE NoTurn) /\ t \notin ended /\ ~exec[t].firing
       /\ ~turn[t].ctxDone /\ SSE(t, "post")' = SSE(t, "post")
  BY <1>1, <1>2, Served DEF SSE
<1>12. /\ OnlyPost(t) /\ h'[t]["post"].pc \in {"register", "reading"}
       /\ exec'[t].firing = exec[t].firing /\ Registered(t)' = Registered(t)
       /\ exec'[t].timer # "armed" /\ \A u \in Turns : u # t => exec'[u] = exec[u]
       /\ SSE(t, "post") /\ h'[t]["post"].pc = "reading" => exec'[t].sub = "post"
  <2>1. CASE Registered(t)
    <3>1. n # 0
      BY <1>3 DEF Attempts
    <3>2. SSE(t, "post") \/ exec[t].timer # "armed"
      BY <1>2 DEF Stable, Attended
    <3> QED
      BY <1>1, <1>3, <2>1, <3>1, <3>2, AttachesTo DEF StartAgent, OnlyPost, Registered
  <2>2. CASE ~Registered(t)
    <3>1. exec' = exec /\ Goto(t, "post", "register") /\ exec[t].timer # "armed"
      BY <1>2, <2>2 DEF StartAgent, Stable, Attended
    <3> QED
      BY <1>1, <2>2, <3>1, HandlerWent DEF OnlyPost, Registered
  <2> QED
    BY <2>1, <2>2
<1>13. Attended(t)'
  BY <1>1, <1>2, <1>11, <1>12 DEF Stable, Attended, OnlyPost, PC, Kinds
<1>14. Holds(t)'
  BY <1>1, <1>10, <1>11, <1>12 DEF Holds, Running, PC
<1>15. Healed(t)'
  BY <1>12 DEF Healed, Starting, PC
<1>16. \A u \in Turns : u # t => Rests(u)
  BY <1>1, <1>6, <1>12 DEF Rests, OnlyPost
<1> QED
  BY <1>1, <1>2, <1>9, <1>13, <1>14, <1>15, <1>16, Serves DEF Stable

LEMMA RegisterPatient ==
    ASSUME PatientInv, RetryInv', NEW t \in Turns, Register(t)
    PROVE  PatientInv'
<1>1. /\ TypeOK /\ PC(t, "post") = "register" /\ turn' = turn /\ proc' = proc /\ "post" \in Kinds
      /\ ended' = ended /\ aborter' = aborter /\ resumed' = resumed
  BY DEF Register, PatientInv, RetryInv, TurnInv, Kinds
<1>2. Active(t) /\ Stable(t) /\ Orders(t) /\ HealStartsFresh /\ turn[t].attempt \in Attempts
      /\ ~Registered(t)
  BY <1>1, AttemptOf DEF Active, Serving, PatientInv, RetryInv, Before, TurnInv, Parts, Places
<1>3. registry = NoTurn /\ t \notin ended /\ ~exec[t].firing /\ ~turn[t].ctxDone
  BY <1>2, Served
<1>4. /\ registry' = t /\ exec' = [exec EXCEPT ![t] = WithRelay(t)]
      /\ pump' = [pump EXCEPT ![t].pc = IF SSE(t, "post") THEN "top" ELSE "off"]
      /\ h' = Attached(t, "post", turn[t].attempt, 0)
  BY <1>3 DEF Register
<1>5. turn[t].attempt # 0 /\ (SSE(t, "post") \/ exec[t].timer # "armed")
  BY <1>2 DEF Attempts, Stable, Attended
<1>6. /\ OnlyPost(t) /\ h'[t]["post"].pc = "reading" /\ exec'[t].firing = exec[t].firing
      /\ Registered(t)' /\ exec'[t].timer # "armed"
      /\ \A u \in Turns : u # t => exec'[u] = exec[u]
      /\ SSE(t, "post") => exec'[t].sub = "post"
  BY <1>1, <1>2, <1>4, <1>5, AttachesTo DEF OnlyPost, Registered
<1>7. SSE(t, "post")' = SSE(t, "post") /\ \A u \in Turns : u # t => pump'[u] = pump[u]
  BY <1>1, <1>4 DEF SSE, TypeOK
<1>8. Attended(t)'
  BY <1>1, <1>2, <1>3, <1>6, <1>7 DEF Stable, Attended, OnlyPost, PC, Kinds
<1>9. Holds(t)'
  BY <1>1, <1>2, <1>4, <1>6 DEF Stable, Holds, Running, PC, Live
<1>10. Healed(t)'
  BY <1>6 DEF Healed, Starting, PC
<1>11. \A u \in Turns : u # t => Rests(u)
  BY <1>1, <1>6, <1>7 DEF Rests, OnlyPost
<1>12. HealStartsFresh'
  BY <1>1, <1>2 DEF HealStartsFresh
<1> QED
  BY <1>1, <1>2, <1>8, <1>9, <1>10, <1>11, <1>12, Serves DEF Stable

LEMMA FinishPatient ==
    ASSUME PatientInv, RetryInv', NEW t \in Turns, Finish(t, "post")
    PROVE  PatientInv'
<1> DEFINE n == turn[t].attempt
<1>1. /\ TypeOK /\ PC(t, "post") = "finish" /\ turn' = turn /\ pump' = pump /\ "post" \in Kinds
      /\ ended' = ended /\ aborter' = aborter /\ resumed' = resumed /\ registry' = NoTurn
      /\ Goto(t, "post", "returned") /\ proc' = Stopped(t, n)
  BY DEF Finish, PatientInv, RetryInv, TurnInv, Kinds
<1>2. Active(t) /\ Stable(t) /\ HealStartsFresh /\ n \in Attempts
  BY <1>1, AttemptOf DEF Active, Serving, PatientInv, RetryInv, Before
<1>3. registry = (IF Registered(t) THEN t ELSE NoTurn) /\ t \notin ended /\ ~exec[t].firing
      /\ ~turn[t].ctxDone
  BY <1>2, Served
<1>4. OnlyPost(t) /\ h'[t]["post"].pc = "returned"
  BY <1>1, HandlerWent DEF OnlyPost
<1>5. /\ exec'[t].timer # "armed" /\ exec'[t].firing = exec[t].firing /\ exec'[t].relay = exec[t].relay
      /\ \A u \in Turns : u # t => exec'[u] = exec[u]
  <2>1. CASE Registered(t)
    <3> DEFINE x == [exec[t] EXCEPT !.timer = "off"]
    <3>1. registry = t /\ t # NoTurn
      BY <1>3, <2>1, TurnAssumption
    <3>2. exec' = [exec EXCEPT ![t] = x]
      BY <1>1, <3>1 DEF Finish, TypeOK
    <3>3. x.timer = "off" /\ x.firing = exec[t].firing /\ x.relay = exec[t].relay
      BY <1>1, Cells DEF ExecState
    <3> HIDE DEF x
    <3> QED
      BY <1>1, <3>2, <3>3 DEF TypeOK
  <2>2. CASE ~Registered(t)
    BY <1>2, <1>3, <2>2 DEF Finish, Stable, Attended
  <2> QED
    BY <2>1, <2>2
<1>6. Registered(t)' = Registered(t) /\ SSE(t, "post")' = SSE(t, "post")
  BY <1>1, <1>5 DEF Registered, SSE
<1>7. Grows /\ \A u \in Turns : u # t => \A b \in Attempts : proc'[u][b] = proc[u][b]
  BY <1>1, <1>2, Stopping DEF Grows
<1>8. \A a \in Attempts : ~Live(t, a)'
  <2>1. proc'[t][n].st \notin {"running", "waiting"}
    BY <1>1, <1>2, Stopping
  <2>2. \A a \in Attempts : a # n => ~Live(t, a) /\ proc'[t][a] = proc[t][a]
    BY <1>1, <1>2, Stopping DEF Stable, Holds
  <2> QED
    BY <2>1, <2>2 DEF Live
<1>9. HealStartsFresh'
  BY <1>1, <1>2, <1>7, StaysFresh
<1>10. Attended(t)'
  BY <1>1, <1>2, <1>3, <1>4, <1>5, <1>6 DEF Stable, Attended, OnlyPost, PC, Kinds
<1>11. Holds(t)' /\ Healed(t)'
  BY <1>4, <1>8 DEF Holds, Healed, PC, Active, Serving, Starting
<1>12. \A u \in Turns : u # t => Rests(u)
  BY <1>1, <1>4, <1>5, <1>7 DEF Rests, OnlyPost
<1> QED
  BY <1>1, <1>2, <1>9, <1>10, <1>11, <1>12, Serves DEF Stable

-----------------------------------------------------------------------------
(* Steps of the timer, the pump and the agent: no handler moves.           *)

LEMMA HandlersRest ==
    ASSUME PatientInv, RetryInv', h' = h, turn' = turn, aborter' = aborter, resumed' = resumed, Grows,
           \A u \in Turns :
               /\ exec'[u].relay = exec[u].relay /\ exec'[u].sub = exec[u].sub
               /\ exec'[u].timer = "armed" => exec[u].timer = "armed"
               /\ u \in ended' \/ exec'[u].firing => PC(u, "post") = "suspended"
               /\ pump'[u].pc # "off" => Registered(u),
           rec'.native = "some" => rec.native = "some" \/ Reported,
           \A u \in Turns : Holds(u)'
    PROVE  PatientInv'
<1>1. TypeOK /\ HealStartsFresh /\ Alone
  BY DEF PatientInv, RetryInv, TurnInv
<1>2. Alone'
  BY <1>1 DEF Alone, Active, PC
<1>3. HealStartsFresh'
  BY <1>1, StaysFresh
<1>4. ASSUME NEW u \in Turns PROVE Stable(u)'
  <2>1. Stable(u) /\ SSE(u, "post")' = SSE(u, "post") /\ Registered(u)' = Registered(u)
    BY DEF PatientInv, SSE, Registered
  <2>2. Attended(u)'
    BY <2>1 DEF Stable, Attended, PC
  <2>3. Healed(u)'
    BY <2>1, StaysReported DEF Stable, Healed, PC
  <2> QED
    BY <2>2, <2>3 DEF Stable
<1> QED
  BY <1>2, <1>3, <1>4 DEF PatientInv

LEMMA HoldsOn ==
    ASSUME PatientInv, h' = h, turn' = turn, registry' = registry, ended' = ended,
           \A u \in Turns : exec'[u].relay = exec[u].relay,
           \A u \in Turns, a \in Attempts : Live(u, a)' => Live(u, a)
    PROVE  \A u \in Turns : Holds(u)'
BY DEF PatientInv, Stable, Holds, PC, Active, Registered

(* What every turn does with its own timer. *)
LEMMA Timely ==
    ASSUME PatientInv, NEW u \in Turns
    PROVE  /\ u \in ended \/ exec[u].firing => PC(u, "post") = "suspended"
           /\ pump[u].pc # "off" => Registered(u)
BY DEF PatientInv, Stable, Attended, PC

LEMMA TimerFiresPatient ==
    ASSUME PatientInv, RetryInv', NEW t \in Turns, TimerFires(t)
    PROVE  PatientInv'
<1> DEFINE x == [exec[t] EXCEPT !.timer = "fired", !.firing = TRUE]
<1>1. /\ TypeOK /\ h' = h /\ turn' = turn /\ aborter' = aborter /\ resumed' = resumed /\ proc' = proc
      /\ rec' = rec /\ ended' = ended /\ registry' = registry /\ pump' = pump
      /\ exec' = [exec EXCEPT ![t] = x]
  BY DEF TimerFires, PatientInv, RetryInv, TurnInv, regVars, TypeOK
<1>2. x.timer = "fired" /\ x.sub = exec[t].sub /\ x.relay = exec[t].relay
  BY <1>1, Cells DEF ExecState
<1> HIDE DEF x
<1>3. exec'[t] = x /\ \A u \in Turns : u # t => exec'[u] = exec[u]
  BY <1>1 DEF TypeOK
<1>4. PC(t, "post") = "suspended"
  BY DEF TimerFires, PatientInv, Stable, Attended, PC
<1>5. \A u \in Turns : Holds(u)'
  BY <1>1, <1>2, <1>3, HoldsOn DEF Live
<1> QED
  BY <1>1, <1>2, <1>3, <1>4, <1>5, Timely, HandlersRest DEF Grows

LEMMA DrainTimeoutPatient ==
    ASSUME PatientInv, RetryInv', NEW t \in Turns, DrainTimeout(t)
    PROVE  PatientInv'
<1> DEFINE x == TimedOut(exec[t], registry = t)
<1>1. /\ TypeOK /\ h' = h /\ turn' = turn /\ aborter' = aborter /\ resumed' = resumed
      /\ rec' = rec /\ pump' = pump /\ exec' = [exec EXCEPT ![t] = x] /\ StopExec(t)
  BY DEF DrainTimeout, PatientInv, RetryInv, TurnInv
<1>2. x.timer \in {exec[t].timer, "off"} /\ ~x.firing /\ x.sub = exec[t].sub /\ x.relay = exec[t].relay
  BY <1>1, Cells DEF TimedOut, ExecState
<1> HIDE DEF x
<1>3. exec'[t] = x /\ \A u \in Turns : u # t => exec'[u] = exec[u]
  BY <1>1 DEF TypeOK
<1>4. PC(t, "post") = "suspended"
  BY Timely DEF DrainTimeout
<1>5. CASE registry = t
  <2> DEFINE n == turn[t].attempt
  <2>1. n \in Attempts /\ exec[t].relay = n
    BY <1>4, AttemptOf DEF PatientInv, RetryInv, Orders, Numbered, Before, Attending, PC
  <2>2. proc' = Stopped(t, n) /\ registry' = NoTurn /\ ended' = ended \cup {t}
    BY <1>5, <2>1, <1>1 DEF StopExec
  <2>3. /\ Grows /\ \A u \in Turns, a \in Attempts : u # t \/ a # n => proc'[u][a] = proc[u][a]
        /\ proc'[t][n].st \notin {"running", "waiting"}
    BY <1>1, <2>1, <2>2, Stopping DEF Grows
  <2>4. ASSUME NEW u \in Turns PROVE Holds(u)'
    <3>1. t # NoTurn /\ Holds(u)
      BY TurnAssumption DEF PatientInv, Stable
    <3>2. ~Active(u)
      BY <1>4, <1>5, <3>1 DEF Holds, Active, Serving
    <3>3. PC(u, "post") = "suspended" => u \in ended'
      BY <1>5, <2>2, <3>1 DEF Holds
    <3>4. ASSUME NEW a \in Attempts, Live(u, a)' PROVE FALSE
      <4>1. u # t \/ a # n
        BY <2>3, <3>4 DEF Live
      <4>2. Live(u, a)
        BY <2>3, <3>4, <4>1 DEF Live
      <4>3. u = t /\ a = n
        BY <1>5, <3>1, <3>2, <4>2 DEF Holds, Running, Active, Serving
      <4> QED
        BY <4>1, <4>3
    <3> QED
      BY <1>1, <3>2, <3>3, <3>4 DEF Holds, Active, PC
  <2>5. \A u \in ended' : u = t \/ u \in ended
    BY <2>2
  <2> QED
    BY <1>1, <1>2, <1>3, <1>4, <2>3, <2>4, <2>5, Timely, HandlersRest
<1>6. CASE registry # t
  <2>1. proc' = proc /\ registry' = registry /\ ended' = ended
    BY <1>1, <1>6 DEF StopExec, regVars
  <2>2. \A u \in Turns : Holds(u)'
    BY <1>1, <1>2, <1>3, <2>1, HoldsOn DEF Live
  <2> QED
    BY <1>1, <1>2, <1>3, <2>1, <2>2, Timely, HandlersRest DEF Grows
<1> QED
  BY <1>5, <1>6

(* Terminal events do not touch the native id. *)
LEMMA NativeStays ==
    ASSUME NEW r \in RecordState, NEW e
    PROVE  OnTerminal(r, e).native = r.native
BY DEF OnTerminal, Failed, Completed, RecordState

LEMMA PumpPatient ==
    ASSUME PatientInv, RetryInv', NEW t \in Turns, Pump(t)
    PROVE  PatientInv'
<1>1. /\ TypeOK /\ h' = h /\ turn' = turn /\ aborter' = aborter /\ resumed' = resumed /\ proc' = proc
      /\ ended' = ended /\ registry' = registry /\ pump[t].pc # "off"
      /\ exec' \in {exec, Suspended(t)}
  BY DEF Pump, PumpStarts, PumpEvent, PumpLoops, PatientInv, RetryInv, TurnInv, regVars
<1>2. \A u \in Turns : /\ exec'[u].relay = exec[u].relay /\ exec'[u].sub = exec[u].sub
                       /\ exec'[u].timer = exec[u].timer /\ exec'[u].firing = exec[u].firing
  BY <1>1, SuspendedOnly
<1>3. Registered(t) /\ exec[t].relay \in Attempts
  BY <1>1, Timely, Numbers DEF Registered, Attempts
<1>4. rec'.native = "some" => rec.native = "some" \/ Reported
  <2>1. CASE PumpEvent(t)
    <3> DEFINE s == Relay(t).ev
               e == s[pump[t].cur + 1]
    <3>1. rec \in RecordState /\ s \in Seq(EventKinds) /\ pump[t].cur \in Nat /\ pump[t].cur < Len(s)
      BY <1>1, <1>3, <2>1, Cells DEF PumpEvent, Relay, ProcState, PumpState, TypeOK
    <3>2. CASE e = "system"
      <4>1. pump[t].cur + 1 \in 1..Len(s)
        BY <3>1, Succ, LenProperties
      <4>2. Has(s, "system")
        BY <3>2, <4>1 DEF Has
      <4> QED
        BY <1>3, <4>2 DEF Reported, Relay
    <3>3. CASE e # "system"
      <4>1. rec' \in {[rec EXCEPT !.status = "suspended"], OnTerminal(rec, e)}
        BY <2>1, <3>3 DEF PumpEvent
      <4> QED
        BY <3>1, <4>1, NativeStays DEF RecordState
    <3> QED
      BY <3>2, <3>3
  <2>2. CASE rec' = rec
    BY <2>2
  <2> QED
    BY <2>1, <2>2 DEF Pump, PumpStarts, PumpLoops
<1>5. \A u \in Turns : pump'[u].pc # "off" => Registered(u)
  <2>1. \A u \in Turns : u # t => pump'[u] = pump[u]
    BY <1>1 DEF Pump, PumpStarts, PumpEvent, PumpLoops, PumpHead, TypeOK
  <2> QED
    BY <1>3, <2>1, Timely
<1>6. \A u \in Turns : Holds(u)'
  BY <1>1, <1>2, HoldsOn DEF Live
<1> QED
  BY <1>1, <1>2, <1>4, <1>5, <1>6, Timely, HandlersRest DEF Grows

LEMMA AgentPatient ==
    ASSUME PatientInv, RetryInv', NEW t \in Turns, NEW a \in Attempts, Agent(t, a)
    PROVE  PatientInv'
<1>1. /\ TypeOK /\ h' = h /\ turn' = turn /\ aborter' = aborter /\ resumed' = resumed /\ exec' = exec
      /\ ended' = ended /\ registry' = registry /\ pump' = pump /\ rec' = rec
  BY DEF Agent, AgentEmit, AgentExit, PatientInv, RetryInv, TurnInv, regVars
<1>2. PICK p \in ProcState :
        /\ proc' = [proc EXCEPT ![t][a] = p]
        /\ \/ p.st = "exited" /\ p.ev = proc[t][a].ev
           \/ /\ \E e : p.ev = Append(proc[t][a].ev, e)
              /\ p.st = proc[t][a].st \/ (proc[t][a].st = "running" /\ p.st = "waiting")
  BY AgentOf DEF PatientInv, RetryInv
<1>3. proc'[t][a] = p /\ \A u \in Turns, b \in Attempts : u # t \/ b # a => proc'[u][b] = proc[u][b]
  BY <1>1, <1>2 DEF TypeOK
<1>4. Has(proc[t][a].ev, "system") => Has(p.ev, "system")
  <2>1. proc[t][a].ev \in Seq(EventKinds)
    BY <1>1, Cells DEF ProcState
  <2>2. \A e : \A i \in 1..Len(proc[t][a].ev) :
          /\ Append(proc[t][a].ev, e)[i] = proc[t][a].ev[i]
          /\ i \in 1..Len(Append(proc[t][a].ev, e))
    BY <2>1
  <2> QED
    BY <1>2, <2>2 DEF Has
<1>5. Grows
  BY <1>3, <1>4 DEF Grows
<1>6. \A u \in Turns, b \in Attempts : Live(u, b)' => Live(u, b)
  BY <1>2, <1>3 DEF Live
<1>7. \A u \in Turns : Holds(u)'
  BY <1>1, <1>6, HoldsOn
<1> QED
  BY <1>1, <1>5, <1>7, Timely, HandlersRest

-----------------------------------------------------------------------------
(* The invariant holds of patient clients.                                 *)

(* Nobody follows, responds, disconnects, cancels or terminates. *)
LEMMA NobodyElse ==
    ASSUME Patient, PatientInv, NEW t \in Turns
    PROVE  /\ ~Client(t) /\ ~GoneJSON(t) /\ ~DrainJSON(t) /\ ~Leave(t, "post")
           /\ ~PollDetached(t, "post")
           /\ \A k \in Kinds : k # "post" => ~Stream(t, k)
<1>1. TypeOK /\ Stable(t)
  BY DEF PatientInv, RetryInv, TurnInv
<1>2. \A choice : May(t, choice) => choice = "startfails"
  BY <1>1, Unwanted
<1>3. ~Client(t) /\ ~GoneJSON(t)
  BY <1>2 DEF Client, Follow, Respond, RespondNotAcceptable, GoneJSON
<1>4. ~DrainJSON(t) /\ ~PollDetached(t, "post")
  BY <1>1 DEF Stable, Attended, DrainJSON, PollDetached, PC
<1>5. ~Leave(t, "post")
  BY <1>1, <1>2 DEF Leave, Stable, Attended, PC
<1>6. ASSUME NEW k \in Kinds, k # "post" PROVE ~Stream(t, k)
  BY <1>1, <1>6 DEF Stable, Attended, Kinds, Stream, ReadSSE, Pending, EndSSE, Drained, PostResultDrain,
                    Leave, AfterEnds, PollDetached, Finish
<1> QED
  BY <1>3, <1>4, <1>5, <1>6

LEMMA NobodyAborts ==
    ASSUME Patient, PatientInv
    PROVE  ~Abort
<1>1. TypeOK /\ aborter = "none"
  BY DEF PatientInv, RetryInv, TurnInv
<1>2. \A t \in Turns : ~May(t, "cancel") /\ ~May(t, "terminate")
  BY <1>1, Unwanted
<1> QED
  BY <1>1, <1>2 DEF Abort, Cancel, Terminate, AbortContext, InProgress

LEMMA PatientInvInit == Init => PatientInv
<1> SUFFICES ASSUME Init PROVE PatientInv
  OBVIOUS
<1>1. RetryInv
  BY RetryInvInit
<1>2. \A t \in Turns : /\ \A k \in Kinds : h[t][k] = Handler
                       /\ exec[t].relay = 0 /\ exec[t].timer = "off" /\ exec[t].firing = FALSE
                       /\ pump[t].pc = "off" /\ \A a \in Attempts : proc[t][a].st = "none"
                       /\ turn[t].ctxDone = FALSE /\ turn[t].gone = FALSE
  BY DEF Init
<1>3. \A t \in Turns : PC(t, "post") = "off" /\ PC(t, "follow") = "off" /\ PC(t, "respond") = "off"
  BY <1>2 DEF PC, Handler, Kinds
<1>4. ended = {} /\ aborter = "none" /\ resumed = {}
  BY DEF Init
<1>5. \A t \in Turns : Attended(t)
  BY <1>2, <1>3, <1>4 DEF Attended, PC
<1>6. \A t \in Turns : Holds(t) /\ Healed(t) /\ ~Active(t)
  BY <1>2, <1>3 DEF Holds, Healed, Active, Serving, Starting, Live
<1> QED
  BY <1>1, <1>4, <1>5, <1>6 DEF PatientInv, Stable, Alone, HealStartsFresh

LEMMA PatientInvStep ==
    ASSUME Patient, PatientInv, [Next]_vars
    PROVE  PatientInv'
<1>1. RetryInv'
  BY RetryInvStep DEF PatientInv
<1>2. ASSUME NEW t \in Turns, Turn(t) PROVE PatientInv'
  BY <1>1, <1>2, SendMessagePatient, RegisterCancelPatient, CreateFailsPatient, SendFailsPatient,
     StartAgentPatient, RegisterPatient, AfterSuspendsPatient, AfterRetriesPatient, RetryWaitPatient
     DEF Turn
<1>3. ASSUME NEW t \in Turns, NEW k \in Kinds, Stream(t, k) PROVE PatientInv'
  <2>1. k = "post"
    BY <1>3, NobodyElse
  <2> QED
    BY <1>1, <1>3, <2>1, NobodyElse, ReadSSEPatient, EndSSEPatient, PostResultDrainPatient,
       AfterEndsPatient, FinishPatient DEF Stream
<1>4. ASSUME NEW t \in Turns, JSON(t) PROVE PatientInv'
  BY <1>1, <1>4, NobodyElse, ReadJSONPatient, EndJSONPatient DEF JSON
<1>5. ASSUME NEW t \in Turns, Client(t) \/ Timer(t) PROVE PatientInv'
  BY <1>1, <1>5, NobodyElse, TimerFiresPatient, DrainTimeoutPatient DEF Timer
<1>6. ASSUME NEW t \in Turns, Pump(t) PROVE PatientInv'
  BY <1>1, <1>6, PumpPatient
<1>7. ASSUME NEW t \in Turns, NEW a \in Attempts, Agent(t, a) PROVE PatientInv'
  BY <1>1, <1>7, AgentPatient
<1>8. ASSUME UNCHANGED vars PROVE PatientInv'
  <2>1. /\ h' = h /\ turn' = turn /\ aborter' = aborter /\ resumed' = resumed /\ proc' = proc
        /\ exec' = exec /\ ended' = ended /\ registry' = registry /\ pump' = pump /\ rec' = rec
    BY <1>8 DEF vars, regVars
  <2>2. \A u \in Turns : Holds(u)'
    BY <2>1, HoldsOn DEF Live
  <2> QED
    BY <1>1, <2>1, <2>2, Timely, HandlersRest DEF Grows
<1>9. Next \/ UNCHANGED vars
  OBVIOUS
<1> QED
  BY <1>2, <1>3, <1>4, <1>5, <1>6, <1>7, <1>8, <1>9, NobodyAborts DEF Next

LEMMA PatientInvHolds ==
    ASSUME Patient
    PROVE  Spec => []PatientInv
<1>1. PatientInv /\ [Next]_vars => PatientInv'
  BY PatientInvStep
<1> QED
  BY <1>1, PatientInvInit, PTL DEF Spec

(* While clients wait for the end of their turn, or for the agent's        *)
(* question, the session serves one turn at a time: an execution in flight *)
(* is the registered one, so that the next message gets 409, and at most   *)
(* one agent process of the session is alive (runTurn, execRegistry).      *)
THEOREM OneTurnOneAgent ==
    ASSUME Patient
    PROVE  Spec => []OneTurnAtATime
<1>1. PatientInv => OneTurnAtATime
  <2> SUFFICES ASSUME PatientInv PROVE OneTurnAtATime
    OBVIOUS
  <2>1. TypeOK /\ \A t \in Turns : Stable(t) /\ Parts(t)
    BY DEF PatientInv, RetryInv, TurnInv
  <2>2. ASSUME NEW t \in Turns, InFlight(t) PROVE registry = t
    BY <2>1, <2>2 DEF InFlight, Stable, Holds, Attended, Active, Serving, PC
  <2>3. ASSUME NEW t \in Turns, NEW u \in Turns, NEW a \in Attempts, NEW b \in Attempts,
               Live(t, a), Live(u, b)
        PROVE  t = u /\ a = b
    <3>1. CASE Active(t)
      BY <2>1, <2>3, <3>1, Served DEF Stable, Holds
    <3>2. CASE Active(u)
      BY <2>1, <2>3, <3>2, Served DEF Stable, Holds
    <3>3. CASE ~Active(t) /\ ~Active(u)
      BY <2>1, <2>3, <3>3 DEF Stable, Holds, Running, Active, Serving
    <3> QED
      BY <3>1, <3>2, <3>3
  <2> QED
    BY <2>1, <2>2, <2>3 DEF OneTurnAtATime, BusyWhileInFlight, OneAgentProcess
<1> QED
  BY <1>1, PatientInvHolds, PTL

(* The retry loop is exact then: no attempt after a result, none left over *)
(* after a retryable failure, and none that resumes the native thread the  *)
(* failed one broke (ensureRelayTerminal, clearPersistedAgentSessionID).   *)
THEOREM RetryIsExact ==
    ASSUME Patient
    PROVE  Spec => []RetryExact
<1>1. PatientInv => HealStartsFresh
  BY DEF PatientInv
<1> QED
  BY <1>1, PatientInvHolds, RetriesAreRight, PTL DEF RetriesRight, RetryExact

-----------------------------------------------------------------------------
(***************************************************************************)
(* The third part: what the record says of a turn, when clients wait and   *)
(* agents ask nothing.  (A lagging pump applies an agent's question after  *)
(* the turn's result, and the JSON path retries after a result or an error *)
(* that a retryable error followed; then the record says something else.)  *)
(***************************************************************************)

(* Agents ask nothing, and a request that is not streamed is tried once.  *)
Ordinary == \A r \in Requests : "input" \notin r.events /\ (r.accept = "sse" \/ r.attempts = 1)

(* Nobody was asked anything. *)
Unasked(t) ==
    /\ \A a \in Attempts : ~Has(proc[t][a].ev, "input")
    /\ ~h[t]["post"].susp /\ PC(t, "post") # "suspended"

(* The execution's relay holds no result and no permanent error. *)
Mute(t) == ~Has(Relay(t).ev, "result") /\ ~Has(Relay(t).ev, "error")

(* Another attempt is about to be made; the one before it has ended, with  *)
(* nothing but a retryable error.                                          *)
Retrying(t) ==
    \/ PC(t, "post") \in Starting /\ Registered(t)
    \/ PC(t, "post") = "after" /\ h[t]["post"].term = "retry" /\ SSE(t, "post")

Failing(t) ==
    Retrying(t) => /\ h[t]["post"].term = "retry" /\ SSE(t, "post")
                   /\ Relay(t).st = "exited" /\ Relay(t).done /\ Mute(t)

(* A stream is left at its end or after an event. *)
Heard(t) ==
    /\ PC(t, "post") = "reading" /\ h[t]["post"].term # "none" => Relay(t).ev # <<>>
    /\ PC(t, "post") = "after" => Relay(t).done \/ Relay(t).ev # <<>>

(* While only t writes the record, it says that t is over if t said so. *)
PumpsOff(t) == \A u \in Turns \ {t} : pump[u].pc = "off"
Fresh(t) ==
    registry = t /\ Registered(t) /\ (PC(t, "post") = "reading" \/ Retrying(t)) /\ Mute(t) /\ PumpsOff(t)
        => rec.status \notin {"completed", "error"}

(* When the only turn there was ends with a result, the record tells it. *)
OthersOff(t) == \A u \in Turns \ {t} : PC(u, "post") = "off"
Recorded(t) ==
    (PC(t, "post") \in {"finish", "returned"} /\ Registered(t) /\ h[t]["post"].term = "result"
       /\ ~Has(Relay(t).ev, "error") /\ OthersOff(t))
    => rec.status = "completed"

Telling(t) == Unasked(t) /\ Failing(t) /\ Heard(t) /\ Fresh(t) /\ Recorded(t)
OutcomeInv == rec.error # "cancelled" /\ \A t \in Turns : Telling(t)

-----------------------------------------------------------------------------
(* What a turn reads of the state stays, or what was said grows.           *)

Onward(u) ==
    /\ exec'[u].relay = exec[u].relay /\ turn'[u].req = turn[u].req
    /\ \A a \in Attempts :
         /\ \A e \in EventKinds : Has(proc[u][a].ev, e) => Has(proc'[u][a].ev, e)
         /\ proc[u][a].ev # <<>> => proc'[u][a].ev # <<>>
         /\ proc[u][a].done => proc'[u][a].done
         /\ proc[u][a].st = "exited" => proc'[u][a] = proc[u][a]
         /\ ~Has(proc'[u][a].ev, "input")

(* The record goes on saying what it should of u. *)
StillTold(u) ==
    /\ registry' = u => registry = u
    /\ registry' = u /\ PumpsOff(u)' => PumpsOff(u)
    /\ OthersOff(u)' => OthersOff(u)
    /\ registry' = u /\ PumpsOff(u)' /\ Mute(u)
         => rec'.status = rec.status \/ rec'.status \notin {"completed", "error"}
    /\ OthersOff(u)' /\ ~Has(Relay(u).ev, "error") => rec'.status \in {rec.status, "completed"}

LEMMA RelayOf ==
    ASSUME PatientInv, NEW u \in Turns, Registered(u)
    PROVE  exec[u].relay \in Attempts
BY Numbers DEF PatientInv, RetryInv, TurnInv, Registered, Attempts

LEMMA RegisteredAt ==
    ASSUME PatientInv, NEW u \in Turns
    PROVE  /\ PC(u, "post") \in {"reading", "after"} => Registered(u)
           /\ PC(u, "post") = "off" => ~Registered(u)
BY DEF PatientInv, RetryInv, TurnInv, Parts, Places, Attending, Before

LEMMA RelayGrows ==
    ASSUME PatientInv, NEW u \in Turns, Onward(u)
    PROVE  /\ SSE(u, "post")' = SSE(u, "post") /\ Registered(u)' = Registered(u)
           /\ Registered(u) =>
                /\ Mute(u)' => Mute(u)
                /\ Has(Relay(u).ev, "error") => Has(Relay(u).ev, "error")'
                /\ Relay(u).ev # <<>> => Relay(u)'.ev # <<>>
                /\ Relay(u).done => Relay(u)'.done
                /\ Relay(u).st = "exited" => Relay(u)' = Relay(u)
<1>1. SSE(u, "post")' = SSE(u, "post") /\ Registered(u)' = Registered(u)
  BY DEF Onward, SSE, Registered
<1>2. ASSUME Registered(u)
      PROVE  /\ Mute(u)' => Mute(u)
             /\ Has(Relay(u).ev, "error") => Has(Relay(u).ev, "error")'
             /\ Relay(u).ev # <<>> => Relay(u)'.ev # <<>>
             /\ Relay(u).done => Relay(u)'.done
             /\ Relay(u).st = "exited" => Relay(u)' = Relay(u)
  <2> DEFINE a == exec[u].relay
  <2>1. a \in Attempts /\ Relay(u) = proc[u][a] /\ Relay(u)' = proc'[u][a]
    BY <1>2, RelayOf DEF Relay, Onward
  <2>2. "error" \in EventKinds /\ "result" \in EventKinds
    BY DEF EventKinds
  <2>3. /\ Has(proc[u][a].ev, "error") => Has(proc'[u][a].ev, "error")
        /\ Has(proc[u][a].ev, "result") => Has(proc'[u][a].ev, "result")
    BY <2>1, <2>2 DEF Onward
  <2>4. Mute(u)' => Mute(u)
    BY <2>1, <2>3 DEF Mute, Has
  <2>5. Has(Relay(u).ev, "error")' <=> Has(proc'[u][a].ev, "error")
    BY <2>1 DEF Has
  <2> QED
    BY <2>1, <2>3, <2>4, <2>5 DEF Onward
<1> QED
  BY <1>1, <1>2

(* A turn whose POST does not move. *)
LEMMA TellsOn ==
    ASSUME PatientInv, NEW u \in Turns, Telling(u), Onward(u), StillTold(u),
           h'[u]["post"] = h[u]["post"]
    PROVE  Telling(u)'
<1>1. PC(u, "post")' = PC(u, "post")
  BY DEF PC
<1>2. Unasked(u)'
  BY <1>1 DEF Telling, Unasked, Onward
<1>3. Retrying(u)' = Retrying(u) /\ (Retrying(u) => Registered(u))
  BY <1>1, RelayGrows, RegisteredAt DEF Retrying
<1>4. Failing(u)'
  <2>1. Retrying(u) => Mute(u)' = Mute(u)
    <3>1. Retrying(u) => Relay(u)' = Relay(u)
      BY <1>3, RelayGrows DEF Telling, Failing
    <3> QED
      BY <3>1 DEF Mute, Has
  <2> QED
    BY <1>3, <2>1, RelayGrows DEF Telling, Failing
<1>5. Heard(u)'
  BY <1>1, RelayGrows, RegisteredAt DEF Telling, Heard
<1>6. Fresh(u)'
  BY <1>1, <1>3, RelayGrows, RegisteredAt DEF Telling, Fresh, StillTold
<1>7. Recorded(u)'
  BY <1>1, RelayGrows DEF Telling, Recorded, StillTold
<1> QED
  BY <1>2, <1>4, <1>5, <1>6, <1>7 DEF Telling

(* The POST of t takes a step, and the other turns rest. *)
LEMMA OneTells ==
    ASSUME OutcomeInv, PatientInv, NEW t \in Turns, Active(t),
           \A u \in Turns : u # t => Onward(u) /\ h'[u]["post"] = h[u]["post"],
           registry' \in {registry, t, NoTurn}, PC(t, "post")' # "off", rec'.error # "cancelled",
           Telling(t)'
    PROVE  OutcomeInv'
<1>1. ASSUME NEW u \in Turns, u # t PROVE Telling(u)'
  <2>1. registry' # u
    BY <1>1, Served, TurnAssumption
  <2>2. ~OthersOff(u)'
    BY <1>1 DEF OthersOff
  <2>3. StillTold(u)
    BY <2>1, <2>2 DEF StillTold
  <2> QED
    BY <1>1, <2>3, TellsOn DEF OutcomeInv
<1> QED
  BY <1>1 DEF OutcomeInv

(* Processes that say nothing and do not end. *)
Silent ==
    \A u \in Turns, a \in Attempts :
        /\ proc'[u][a].ev = proc[u][a].ev /\ proc'[u][a].done = proc[u][a].done
        /\ proc[u][a].st = "exited" => proc'[u][a] = proc[u][a]

LEMMA SilentOnward ==
    ASSUME OutcomeInv, Silent, NEW u \in Turns, exec'[u].relay = exec[u].relay,
           turn'[u].req = turn[u].req
    PROVE  Onward(u)
BY DEF Onward, Silent, OutcomeInv, Telling, Unasked

LEMMA SilentRelay ==
    ASSUME PatientInv, Silent, NEW u \in Turns, exec'[u].relay = exec[u].relay,
           turn'[u].req = turn[u].req
    PROVE  /\ SSE(u, "post")' = SSE(u, "post") /\ Registered(u)' = Registered(u)
           /\ Registered(u) =>
                /\ Mute(u)' = Mute(u) /\ Has(Relay(u).ev, "error")' = Has(Relay(u).ev, "error")
                /\ Relay(u)'.ev = Relay(u).ev /\ Relay(u)'.done = Relay(u).done
                /\ Relay(u).st = "exited" => Relay(u)'.st = "exited"
<1>1. SSE(u, "post")' = SSE(u, "post") /\ Registered(u)' = Registered(u)
  BY DEF SSE, Registered
<1>2. ASSUME Registered(u)
      PROVE  /\ Relay(u)'.ev = Relay(u).ev /\ Relay(u)'.done = Relay(u).done
             /\ Relay(u).st = "exited" => Relay(u)'.st = "exited"
  BY <1>2, RelayOf DEF Relay, Silent
<1>3. ASSUME Registered(u)
      PROVE  Mute(u)' = Mute(u) /\ Has(Relay(u).ev, "error")' = Has(Relay(u).ev, "error")
  BY <1>2, <1>3 DEF Mute, Has
<1> QED
  BY <1>1, <1>2, <1>3

(* The POST of t moves, and no process says anything. *)
LEMMA PostTells ==
    ASSUME OutcomeInv, PatientInv, NEW t \in Turns, Active(t), Silent,
           \A u \in Turns : exec'[u].relay = exec[u].relay /\ turn'[u].req = turn[u].req,
           \A u \in Turns : u # t => h'[u]["post"] = h[u]["post"],
           registry' \in {registry, NoTurn}, pump' = pump, rec'.error # "cancelled",
           NEW to, h'[t]["post"].pc = to, to \notin {"off", "suspended"}, ~h'[t]["post"].susp,
           NEW term, h'[t]["post"].term = term,
           (to \in Starting /\ Registered(t)) \/ (to = "after" /\ term = "retry" /\ SSE(t, "post"))
             => /\ term = "retry" /\ SSE(t, "post") /\ Registered(t)
                /\ Relay(t).st = "exited" /\ Relay(t).done /\ Mute(t),
           to \in {"reading", "after"} => Registered(t),
           to = "reading" /\ term # "none" => Relay(t).ev # <<>>,
           to = "after" => Relay(t).done \/ Relay(t).ev # <<>>,
           to \in {"reading", "after", "create", "retrywait"} =>
               (registry = t /\ Registered(t) /\ (to = "after" => term = "retry" /\ SSE(t, "post"))
                  /\ Mute(t) /\ PumpsOff(t)
                => rec'.status \notin {"completed", "error"}),
           to \in {"finish", "returned"} =>
               (Registered(t) /\ term = "result" /\ ~Has(Relay(t).ev, "error") /\ OthersOff(t)
                => rec'.status = "completed")
    PROVE  OutcomeInv'
<1>1. \A u \in Turns : Onward(u)
  BY SilentOnward
<1>2. PC(t, "post")' = to
  BY DEF PC
<1>3. /\ SSE(t, "post")' = SSE(t, "post") /\ Registered(t)' = Registered(t)
      /\ Registered(t) =>
           /\ Mute(t)' = Mute(t) /\ Has(Relay(t).ev, "error")' = Has(Relay(t).ev, "error")
           /\ Relay(t)'.ev = Relay(t).ev /\ Relay(t)'.done = Relay(t).done
           /\ Relay(t).st = "exited" => Relay(t)'.st = "exited"
  BY SilentRelay
<1>4. PumpsOff(t)' = PumpsOff(t) /\ t # NoTurn
  BY TurnAssumption DEF PumpsOff
<1>5. OthersOff(t)' => OthersOff(t)
  BY DEF OthersOff, PC
<1>6. Unasked(t)'
  BY <1>1, <1>2 DEF Unasked, Onward
<1>7. Retrying(t)' <=> (\/ to \in Starting /\ Registered(t)
                        \/ to = "after" /\ term = "retry" /\ SSE(t, "post"))
  BY <1>2, <1>3 DEF Retrying
<1>8. Failing(t)'
  BY <1>3, <1>7 DEF Failing
<1>9. Heard(t)'
  BY <1>2, <1>3 DEF Heard
<1>10. Fresh(t)'
  BY <1>2, <1>3, <1>4, <1>7 DEF Fresh, Starting
<1>11. Recorded(t)'
  BY <1>2, <1>3, <1>5 DEF Recorded
<1>12. Telling(t)'
  BY <1>6, <1>8, <1>9, <1>10, <1>11 DEF Telling
<1> QED
  BY <1>1, <1>2, <1>12, OneTells

(* What the effects of an event make of the record. *)
LEMMA RecordAfter ==
    ASSUME TypeOK, rec.error # "cancelled"
    PROVE  /\ \A e : /\ OnTerminal(rec, e).error # "cancelled"
                     /\ e = "result" => OnTerminal(rec, e).status = "completed"
                     /\ e \notin {"result", "error"} => OnTerminal(rec, e) = rec
           /\ Failed(rec).error # "cancelled" /\ Completed(rec).error # "cancelled"
           /\ Completed(rec).status = "completed"
           /\ \A n : LET r == [rec EXCEPT !.native = n]
                     IN r.status = rec.status /\ r.error = rec.error
           /\ LET r == Activated(rec) IN r.status = "active" /\ r.error = rec.error
<1>1. rec \in RecordState
  BY DEF TypeOK
<1>2. /\ Failed(rec).error = "other" /\ Completed(rec).error = "none"
      /\ Completed(rec).status = "completed"
  BY <1>1 DEF Failed, Completed, RecordState
<1>3. \A n : LET r == [rec EXCEPT !.native = n] IN r.status = rec.status /\ r.error = rec.error
  BY <1>1 DEF RecordState
<1>4. LET r == Activated(rec) IN r.status = "active" /\ r.error = rec.error
  BY <1>1 DEF Activated, RecordState
<1> QED
  BY <1>2, <1>3, <1>4 DEF OnTerminal

LEMMA NoneSilent == ASSUME proc' = proc PROVE Silent
BY DEF Silent

LEMMA StoppedSilent ==
    ASSUME TypeOK, NEW t \in Turns, NEW a \in Attempts, proc' = Stopped(t, a)
    PROVE  Silent
BY Stopping DEF Silent

(* Goto of the POST. *)
LEMMA PostGoto ==
    ASSUME OutcomeInv, PatientInv, NEW t \in Turns, NEW label, Goto(t, "post", label)
    PROVE  /\ h'[t]["post"].pc = label /\ h'[t]["post"].term = h[t]["post"].term
           /\ ~h'[t]["post"].susp
           /\ \A u \in Turns : u # t => h'[u]["post"] = h[u]["post"]
BY HandlerWent DEF OutcomeInv, Telling, Unasked, PatientInv, RetryInv, TurnInv, Kinds

-----------------------------------------------------------------------------
(* Steps of the POST.                                                      *)

LEMMA RegisterCancelTells ==
    ASSUME OutcomeInv, PatientInv, NEW t \in Turns, RegisterCancel(t)
    PROVE  OutcomeInv'
<1>1. /\ TypeOK /\ PC(t, "post") = "accepted" /\ Goto(t, "post", "create") /\ Active(t)
      /\ exec' = exec /\ proc' = proc /\ pump' = pump /\ rec' = rec /\ registry' = registry
      /\ turn' = [turn EXCEPT ![t].attempt = 1] /\ ~Registered(t)
  BY DEF RegisterCancel, Active, Serving, PatientInv, RetryInv, TurnInv, Parts, Places, Before
<1>2. \A u \in Turns : turn'[u].req = turn[u].req
  BY <1>1 DEF TypeOK, TurnState
<1>3. /\ h'[t]["post"].pc = "create" /\ ~h'[t]["post"].susp
      /\ \A u \in Turns : u # t => h'[u]["post"] = h[u]["post"]
  BY <1>1, PostGoto
<1>4. rec'.error # "cancelled"
  BY <1>1 DEF OutcomeInv
<1> DEFINE term == h'[t]["post"].term
<1>5. h'[t]["post"].term = term
  OBVIOUS
<1> HIDE DEF term
<1> QED
  BY <1>1, <1>2, <1>3, <1>4, <1>5, NoneSilent, PostTells

LEMMA CreateFailsTells ==
    ASSUME OutcomeInv, PatientInv, NEW t \in Turns, CreateFails(t)
    PROVE  OutcomeInv'
<1> DEFINE to == IF Registered(t) THEN "finish" ELSE "returned"
           term == h[t]["post"].term
<1>1. /\ TypeOK /\ PC(t, "post") = "create" /\ Goto(t, "post", to) /\ Active(t)
      /\ exec' = exec /\ proc' = proc /\ pump' = pump /\ registry' = registry
      /\ rec' \in {rec, OnTerminal(rec, "error")}
      /\ turn' \in {turn, [turn EXCEPT ![t].ctxDone = TRUE]}
  BY DEF CreateFails, Active, Serving, PatientInv, RetryInv, TurnInv
<1>2. \A u \in Turns : turn'[u].req = turn[u].req
  BY <1>1 DEF TypeOK, TurnState
<1>3. /\ h'[t]["post"].pc = to /\ h'[t]["post"].term = term /\ ~h'[t]["post"].susp
      /\ \A u \in Turns : u # t => h'[u]["post"] = h[u]["post"]
  BY <1>1, PostGoto
<1>4. rec'.error # "cancelled"
  BY <1>1, RecordAfter DEF OutcomeInv
<1>5. Registered(t) => term = "retry"
  BY <1>1 DEF OutcomeInv, Telling, Failing, Retrying, Starting
<1>6. to \in {"finish", "returned"}
  OBVIOUS
<1> HIDE DEF to, term
<1> QED
  BY <1>1, <1>2, <1>3, <1>4, <1>5, <1>6, NoneSilent, PostTells DEF Starting

(* Another attempt is prepared. *)
LEMMA PrepareTells ==
    ASSUME OutcomeInv, PatientInv, NEW t \in Turns, PrepareRetry(t), Active(t), Retrying(t),
           PC(t, "post") # "accepted", Registered(t),
           exec' = exec, pump' = pump, registry' = registry, NEW to \in Starting,
           h'[t]["post"].pc = to, ~h'[t]["post"].susp, h'[t]["post"].term = h[t]["post"].term,
           \A u \in Turns : u # t => h'[u]["post"] = h[u]["post"]
    PROVE  OutcomeInv'
<1> DEFINE term == h[t]["post"].term
<1>1. TypeOK /\ turn[t].attempt \in Attempts
  BY AttemptOf, RegisteredAt DEF PatientInv, RetryInv, TurnInv, Parts, Places, Before
<1>2. Silent
  BY <1>1, StoppedSilent DEF PrepareRetry
<1>3. \A u \in Turns : turn'[u].req = turn[u].req
  BY <1>1 DEF PrepareRetry, TypeOK, TurnState
<1>4. rec'.error # "cancelled" /\ rec'.status = rec.status
  BY <1>1, RecordAfter DEF OutcomeInv, PrepareRetry
<1>5. term = "retry" /\ SSE(t, "post") /\ Relay(t).st = "exited" /\ Relay(t).done /\ Mute(t)
  BY DEF OutcomeInv, Telling, Failing
<1>6. registry = t /\ Mute(t) /\ PumpsOff(t) => rec'.status \notin {"completed", "error"}
  BY <1>4 DEF OutcomeInv, Telling, Fresh
<1>7. h'[t]["post"].term = term /\ to \in {"create", "retrywait"}
  BY DEF Starting
<1> HIDE DEF term
<1> QED
  BY <1>2, <1>3, <1>4, <1>5, <1>6, <1>7, PostTells

LEMMA AfterRetriesTells ==
    ASSUME Ordinary, OutcomeInv, PatientInv, NEW t \in Turns, AfterRetries(t)
    PROVE  OutcomeInv'
<1>1. /\ PC(t, "post") = "after" /\ Goto(t, "post", "retrywait") /\ PrepareRetry(t) /\ Active(t)
      /\ exec' = exec /\ pump' = pump /\ registry' = registry /\ TypeOK
      /\ h[t]["post"].term = "retry" /\ turn[t].attempt < turn[t].req.attempts
  BY DEF AfterRetries, Retryable, Active, Serving, PatientInv, RetryInv, TurnInv
<1>2. Registered(t)
  BY <1>1, RegisteredAt
<1>3. SSE(t, "post")
  <2>1. turn[t].attempt \in Nat \ {0}
    BY <1>1, Numbers DEF PatientInv, RetryInv, TurnInv, Parts, Places, Before
  <2>2. turn[t].req.attempts # 1
    BY <1>1, <2>1, Numbers
  <2>3. turn[t].req \in Requests
    BY <1>1, Cells DEF TurnState
  <2> QED
    BY <2>2, <2>3 DEF Ordinary, SSE
<1>4. Retrying(t)
  BY <1>1, <1>3 DEF Retrying
<1>5. /\ h'[t]["post"].pc = "retrywait" /\ h'[t]["post"].term = h[t]["post"].term
      /\ ~h'[t]["post"].susp
      /\ \A u \in Turns : u # t => h'[u]["post"] = h[u]["post"]
  BY <1>1, PostGoto
<1> QED
  BY <1>1, <1>2, <1>4, <1>5, PrepareTells DEF Starting

LEMMA SendFailsTells ==
    ASSUME OutcomeInv, PatientInv, NEW t \in Turns, SendFails(t)
    PROVE  OutcomeInv'
<1> DEFINE term == h[t]["post"].term
<1>1. /\ PC(t, "post") = "create" /\ Active(t) /\ TypeOK
      /\ exec' = exec /\ pump' = pump /\ registry' = registry
  BY DEF SendFails, Active, Serving, PatientInv, RetryInv, TurnInv
<1>2. Registered(t) => Retrying(t) /\ term = "retry"
  BY <1>1 DEF OutcomeInv, Telling, Failing, Retrying, Starting
<1>3. CASE Registered(t) /\ turn[t].attempt < turn[t].req.attempts
  <2>1. PrepareRetry(t) /\ h' = h
    BY <1>3 DEF SendFails
  <2>2. h[t]["post"].pc = "create" /\ ~h[t]["post"].susp
    BY <1>1 DEF PC, OutcomeInv, Telling, Unasked
  <2> QED
    BY <1>1, <1>2, <1>3, <2>1, <2>2, PrepareTells DEF Starting
<1>4. CASE ~(Registered(t) /\ turn[t].attempt < turn[t].req.attempts)
  <2>1. Goto(t, "post", "finish") /\ proc' = proc /\ rec' = rec /\ turn' = turn
    BY <1>4 DEF SendFails
  <2>2. /\ h'[t]["post"].pc = "finish" /\ h'[t]["post"].term = term /\ ~h'[t]["post"].susp
        /\ \A u \in Turns : u # t => h'[u]["post"] = h[u]["post"]
    BY <2>1, PostGoto
  <2>3. rec'.error # "cancelled"
    BY <2>1 DEF OutcomeInv
  <2> HIDE DEF term
  <2> QED
    BY <1>1, <1>2, <2>1, <2>2, <2>3, NoneSilent, PostTells DEF Starting
<1> QED
  BY <1>3, <1>4

LEMMA RetryWaitTells ==
    ASSUME OutcomeInv, PatientInv, NEW t \in Turns, RetryWait(t)
    PROVE  OutcomeInv'
<1> DEFINE term == h[t]["post"].term
<1>1. /\ PC(t, "post") = "retrywait" /\ Active(t) /\ TypeOK /\ rec' = rec /\ turn' = turn /\ proc' = proc
      /\ exec' = exec /\ pump' = pump /\ registry' = registry
  BY DEF RetryWait, Active, Serving, PatientInv, RetryInv, TurnInv, regVars
<1>2. ~turn[t].ctxDone
  BY <1>1, Served
<1>3. Goto(t, "post", "create")
  BY <1>2 DEF RetryWait
<1>4. /\ h'[t]["post"].pc = "create" /\ h'[t]["post"].term = term /\ ~h'[t]["post"].susp
      /\ \A u \in Turns : u # t => h'[u]["post"] = h[u]["post"]
  BY <1>3, PostGoto
<1>5. Registered(t) =>
        /\ term = "retry" /\ SSE(t, "post") /\ Relay(t).st = "exited" /\ Relay(t).done /\ Mute(t)
        /\ registry = t /\ PumpsOff(t) => rec.status \notin {"completed", "error"}
  BY <1>1 DEF OutcomeInv, Telling, Failing, Fresh, Retrying, Starting
<1>6. rec'.error # "cancelled"
  BY <1>1 DEF OutcomeInv
<1> HIDE DEF term
<1> QED
  BY <1>1, <1>4, <1>5, <1>6, NoneSilent, PostTells

LEMMA AfterEndsTells ==
    ASSUME OutcomeInv, PatientInv, NEW t \in Turns, AfterEnds(t, "post")
    PROVE  OutcomeInv'
<1> DEFINE term == h[t]["post"].term
<1>1. /\ PC(t, "post") = "after" /\ Goto(t, "post", "finish") /\ Active(t) /\ TypeOK
      /\ turn' = turn /\ proc' = proc /\ exec' = exec /\ pump' = pump /\ registry' = registry
      /\ \/ rec' = Settled(SSE(t, "post"), term)
         \/ rec' = OnTerminal(rec, "error") /\ term = "retry"
  BY DEF AfterEnds, Active, Serving, PatientInv, RetryInv, TurnInv, regVars
<1>2. /\ h'[t]["post"].pc = "finish" /\ h'[t]["post"].term = term /\ ~h'[t]["post"].susp
      /\ \A u \in Turns : u # t => h'[u]["post"] = h[u]["post"]
  BY <1>1, PostGoto
<1>3. rec.error # "cancelled"
  BY DEF OutcomeInv
<1>4. /\ Settled(SSE(t, "post"), term).error # "cancelled"
      /\ term = "result" => Settled(SSE(t, "post"), term).status = "completed"
  BY <1>1, <1>3, RecordAfter DEF Settled
<1>5. rec'.error # "cancelled" /\ (term = "result" => rec'.status = "completed")
  <2> HIDE DEF term
  <2> QED
    BY <1>1, <1>3, <1>4, RecordAfter
<1> HIDE DEF term
<1> QED
  BY <1>1, <1>2, <1>5, NoneSilent, PostTells DEF Starting

LEMMA FinishTells ==
    ASSUME OutcomeInv, PatientInv, NEW t \in Turns, Finish(t, "post")
    PROVE  OutcomeInv'
<1> DEFINE term == h[t]["post"].term
<1>1. /\ PC(t, "post") = "finish" /\ Goto(t, "post", "returned") /\ Active(t) /\ TypeOK
      /\ turn' = turn /\ proc' = Stopped(t, turn[t].attempt) /\ pump' = pump /\ registry' = NoTurn
      /\ Ingest(registry)
      /\ exec' = IF registry = NoTurn THEN exec ELSE [exec EXCEPT ![registry].timer = "off"]
  BY DEF Finish, Active, Serving, PatientInv, RetryInv, TurnInv
<1>2. turn[t].attempt \in Attempts /\ registry \in {t, NoTurn}
  BY <1>1, AttemptOf, Served DEF PatientInv, RetryInv, Before
<1>3. Silent
  BY <1>1, <1>2, StoppedSilent
<1>4. \A u \in Turns : exec'[u].relay = exec[u].relay
  <2>1. CASE registry = NoTurn
    BY <1>1, <2>1
  <2>2. CASE registry # NoTurn
    BY <1>1, <1>2, <2>2 DEF TypeOK, ExecState
  <2> QED
    BY <2>1, <2>2
<1>5. rec'.error # "cancelled" /\ rec'.status = rec.status
  <2>1. rec' = rec \/ \E n : rec' = [rec EXCEPT !.native = n]
    BY <1>1 DEF Ingest
  <2>2. rec.error # "cancelled"
    BY DEF OutcomeInv
  <2> QED
    BY <1>1, <2>1, <2>2, RecordAfter
<1>6. /\ h'[t]["post"].pc = "returned" /\ h'[t]["post"].term = term /\ ~h'[t]["post"].susp
      /\ \A u \in Turns : u # t => h'[u]["post"] = h[u]["post"]
  BY <1>1, PostGoto
<1>7. Registered(t) /\ term = "result" /\ ~Has(Relay(t).ev, "error") /\ OthersOff(t)
        => rec'.status = "completed"
  BY <1>1, <1>5 DEF OutcomeInv, Telling, Recorded
<1> HIDE DEF term
<1> QED
  BY <1>1, <1>3, <1>4, <1>5, <1>6, <1>7, PostTells DEF Starting

(* The relay a POST reads is the execution's, and an event of it is one. *)
LEMMA ReadsRelay ==
    ASSUME PatientInv, NEW t \in Turns, PC(t, "post") = "reading"
    PROVE  /\ Registered(t) /\ Active(t) /\ h[t]["post"].rel = exec[t].relay
           /\ exec[t].relay \in Attempts /\ Relay(t).ev \in Seq(EventKinds)
           /\ Pending(t, "post") =>
                /\ NextEvent(t, "post") \in EventKinds /\ Has(Relay(t).ev, NextEvent(t, "post"))
                /\ Relay(t).ev # <<>>
<1>1. /\ TypeOK /\ Places(t) /\ Orders(t) /\ Registered(t) /\ Active(t)
  BY RegisteredAt DEF PatientInv, RetryInv, TurnInv, Parts, Active, Serving
<1>2. h[t]["post"].rel = exec[t].relay /\ exec[t].relay \in Attempts
  BY <1>1, RelayOf DEF Orders, Numbered, PC, Attending
<1>3. Relay(t).ev \in Seq(EventKinds)
  BY <1>1, <1>2, Cells DEF Relay, ProcState
<1>4. ASSUME Pending(t, "post")
      PROVE  /\ NextEvent(t, "post") \in EventKinds /\ Has(Relay(t).ev, NextEvent(t, "post"))
             /\ Relay(t).ev # <<>>
  <2> DEFINE i == h[t]["post"].cur + 1
  <2>1. NextEvent(t, "post") \in EventKinds
    BY <1>1, <1>4, NextEventOf DEF Kinds
  <2>2. i \in 1..Len(Relay(t).ev)
    <3>1. h[t]["post"].cur \in Nat /\ Len(Relay(t).ev) \in Nat
      BY <1>1, <1>3, Cells DEF HandlerState, Kinds
    <3>2. h[t]["post"].cur < Len(Relay(t).ev)
      BY <1>2, <1>4 DEF Pending, Relay
    <3> QED
      BY <3>1, <3>2, Succ
  <2>3. NextEvent(t, "post") = Relay(t).ev[i]
    BY <1>2 DEF NextEvent, Relay
  <2> QED
    BY <1>3, <2>1, <2>2, <2>3 DEF Has
<1> QED
  BY <1>1, <1>2, <1>3, <1>4

LEMMA ReadSSETells ==
    ASSUME Patient, OutcomeInv, PatientInv, NEW t \in Turns, ReadSSE(t, "post")
    PROVE  OutcomeInv'
<1> DEFINE p == h[t]["post"]
           e == NextEvent(t, "post")
           r == [exec[t] EXCEPT !.offset = p.cur + 1]
           v == Took("post", p, e, FALSE)
           x == IF Ends("post", p, e, FALSE) THEN Unsubscribed(r, "post") ELSE r
           term == v.term
<1>1. /\ PC(t, "post") = "reading" /\ Pending(t, "post") /\ TypeOK /\ rec' = rec /\ turn' = turn
      /\ proc' = proc /\ pump' = pump /\ registry' = registry /\ "post" \in Kinds
  BY DEF ReadSSE, Pending, PatientInv, RetryInv, TurnInv, regVars, Kinds
<1>2. h' = [h EXCEPT ![t]["post"] = v] /\ exec' = [exec EXCEPT ![t] = x]
  <2>1. ~May(t, "disconnect")
    BY <1>1, Unwanted
  <2> QED
    BY <2>1 DEF ReadSSE
<1>3. p \in HandlerState /\ exec[t] \in ExecState
  BY <1>1, Cells
<1>4. /\ Registered(t) /\ Active(t) /\ Has(Relay(t).ev, e) /\ Relay(t).ev # <<>>
      /\ exec[t].relay \in Attempts
  BY <1>1, ReadsRelay
<1>5. e # "input" /\ ~p.susp
  BY <1>4 DEF OutcomeInv, Telling, Unasked, Relay
<1>6. v.pc = "reading" /\ ~v.susp
  BY <1>1, <1>3, <1>5 DEF Took, Ends, HandlerState, PC
<1>7. x.relay = exec[t].relay
  <2>1. p.cur + 1 \in Nat
    BY <1>3 DEF HandlerState
  <2>2. r \in ExecState /\ r.relay = exec[t].relay
    BY <1>3, <2>1, Advancing
  <2> HIDE DEF r
  <2> QED
    BY <1>1, <2>2, Subscribing
<1> HIDE DEF v, x
<1>8. /\ h'[t]["post"] = v /\ \A u \in Turns : u # t => h'[u]["post"] = h[u]["post"]
      /\ \A u \in Turns : exec'[u].relay = exec[u].relay
  BY <1>1, <1>2, <1>7 DEF TypeOK
<1>9. registry = t /\ Mute(t) /\ PumpsOff(t) => rec.status \notin {"completed", "error"}
  BY <1>1, <1>4 DEF OutcomeInv, Telling, Fresh
<1>10. rec.error # "cancelled" /\ h'[t]["post"].term = term
  BY <1>8 DEF OutcomeInv
<1> HIDE DEF term
<1> QED
  BY <1>1, <1>4, <1>6, <1>8, <1>9, <1>10, NoneSilent, PostTells DEF Starting

LEMMA EndSSETells ==
    ASSUME OutcomeInv, PatientInv, NEW t \in Turns, EndSSE(t, "post")
    PROVE  OutcomeInv'
<1> DEFINE p == h[t]["post"]
           trm == EnsureTerminal(p.term, Relay(t).ev)
           synth == Synthesized(p.wrote, trm)
           r == IF synth THEN [exec[t] EXCEPT !.offset = p.cur + 1] ELSE exec[t]
           v == AtEnd("post", p, trm)
           x == Unsubscribed(r, "post")
<1>1. /\ PC(t, "post") = "reading" /\ Drained(t, "post") /\ SSE(t, "post") /\ TypeOK /\ turn' = turn
      /\ proc' = proc /\ pump' = pump /\ registry' = registry /\ "post" \in Kinds
      /\ rec' = IF synth THEN OnTerminal(rec, trm) ELSE rec
      /\ h' = [h EXCEPT ![t]["post"] = v] /\ exec' = [exec EXCEPT ![t] = x]
  BY DEF EndSSE, Drained, PatientInv, RetryInv, TurnInv, regVars, Kinds
<1>2. p \in HandlerState /\ exec[t] \in ExecState
  BY <1>1, Cells
<1>3. /\ Registered(t) /\ Active(t) /\ Relay(t).done /\ exec[t].relay \in Attempts
  BY <1>1, ReadsRelay DEF Drained, Relay
<1>4. Relay(t).st = "exited"
  <2>1. t \notin ended
    BY <1>3, Served
  <2> QED
    BY <1>3, <2>1 DEF PatientInv, RetryInv, Orders, Wellborn, Relay
<1>5. x.relay = exec[t].relay
  <2>1. p.cur + 1 \in Nat
    BY <1>2 DEF HandlerState
  <2>2. r \in ExecState /\ r.relay = exec[t].relay
    BY <1>2, <2>1, Advancing
  <2> HIDE DEF r
  <2> QED
    BY <1>1, <2>2, Subscribing
<1>6. v.pc = "after" /\ v.term = trm /\ ~v.susp
  <2>1. ~p.susp
    BY DEF OutcomeInv, Telling, Unasked
  <2> HIDE DEF trm
  <2> QED
    BY <1>2, <2>1 DEF AtEnd, AfterAttach, HandlerState
<1>7. trm = "retry" => Mute(t) /\ rec' = rec
  BY <1>1 DEF EnsureTerminal, ResolveTerminal, Mute, Synthesized
<1>8. rec'.error # "cancelled"
  <2> HIDE DEF trm
  <2> QED
    BY <1>1, RecordAfter DEF OutcomeInv
<1> HIDE DEF v, x, trm
<1>9. /\ h'[t]["post"] = v /\ \A u \in Turns : u # t => h'[u]["post"] = h[u]["post"]
      /\ \A u \in Turns : exec'[u].relay = exec[u].relay
  BY <1>1, <1>5 DEF TypeOK
<1>10. registry = t /\ Mute(t) /\ PumpsOff(t) => rec.status \notin {"completed", "error"}
  BY <1>1, <1>3 DEF OutcomeInv, Telling, Fresh
<1> QED
  BY <1>1, <1>3, <1>4, <1>6, <1>7, <1>8, <1>9, <1>10, NoneSilent, PostTells DEF Starting

LEMMA PostResultDrainTells ==
    ASSUME OutcomeInv, PatientInv, NEW t \in Turns, PostResultDrain(t, "post")
    PROVE  OutcomeInv'
<1> DEFINE x == Unsubscribed(exec[t], "post")
<1>1. /\ PC(t, "post") = "reading" /\ h[t]["post"].term = "result" /\ TypeOK /\ turn' = turn
      /\ proc' = proc /\ pump' = pump /\ registry' = registry /\ rec' = rec /\ "post" \in Kinds
      /\ Goto(t, "post", "after") /\ exec' = [exec EXCEPT ![t] = x]
  BY DEF PostResultDrain, AfterAttach, PatientInv, RetryInv, TurnInv, regVars, Kinds
<1>2. Registered(t) /\ Active(t)
  BY <1>1, ReadsRelay
<1>3. x.relay = exec[t].relay
  BY <1>1, Cells, Subscribing
<1> HIDE DEF x
<1>4. \A u \in Turns : exec'[u].relay = exec[u].relay
  BY <1>1, <1>3 DEF TypeOK
<1>5. /\ h'[t]["post"].pc = "after" /\ h'[t]["post"].term = "result" /\ ~h'[t]["post"].susp
      /\ \A u \in Turns : u # t => h'[u]["post"] = h[u]["post"]
  BY <1>1, PostGoto
<1>6. Relay(t).ev # <<>> /\ rec.error # "cancelled"
  BY <1>1 DEF OutcomeInv, Telling, Heard
<1> QED
  BY <1>1, <1>2, <1>4, <1>5, <1>6, NoneSilent, PostTells DEF Starting

LEMMA ReadJSONTells ==
    ASSUME OutcomeInv, PatientInv, NEW t \in Turns, ReadJSON(t)
    PROVE  OutcomeInv'
<1> DEFINE p == h[t]["post"]
           e == NextEvent(t, "post")
           v == TookJSON(p, e, TRUE)
           term == v.term
<1>1. /\ PC(t, "post") = "reading" /\ Pending(t, "post") /\ TypeOK /\ turn' = turn
      /\ proc' = proc /\ pump' = pump /\ registry' = registry /\ "post" \in Kinds
  BY DEF ReadJSON, Pending, PatientInv, RetryInv, TurnInv, regVars, Kinds
<1>2. p \in HandlerState /\ ~turn[t].gone
  BY <1>1, Cells DEF PatientInv, Stable, Attended
<1>3. /\ Registered(t) /\ Active(t) /\ Has(Relay(t).ev, e) /\ Relay(t).ev # <<>>
      /\ exec[t].relay \in Attempts
  BY <1>1, ReadsRelay
<1>4. e # "input" /\ ~p.susp
  BY <1>3 DEF OutcomeInv, Telling, Unasked, Relay
<1>5. /\ h' = [h EXCEPT ![t]["post"] = v] /\ exec' = [exec EXCEPT ![t].offset = @ + 1]
      /\ rec' = IF e = "system" THEN [rec EXCEPT !.native = "some"] ELSE OnTerminal(rec, e)
  BY <1>2, <1>4 DEF ReadJSON
<1>6. v.pc = "reading" /\ ~v.susp
  BY <1>1, <1>2, <1>4 DEF TookJSON, HandlerState, PC
<1> HIDE DEF v
<1>7. /\ h'[t]["post"] = v /\ \A u \in Turns : u # t => h'[u]["post"] = h[u]["post"]
      /\ \A u \in Turns : exec'[u].relay = exec[u].relay
  BY <1>1, <1>5 DEF TypeOK, ExecState
<1>8. rec'.error # "cancelled" /\ (Mute(t) => rec'.status = rec.status)
  <2>1. Mute(t) => e \notin {"result", "error"}
    BY <1>3 DEF Mute
  <2>2. rec.error # "cancelled"
    BY DEF OutcomeInv
  <2> HIDE DEF e
  <2> QED
    BY <1>1, <1>5, <2>1, <2>2, RecordAfter
<1>9. registry = t /\ Mute(t) /\ PumpsOff(t) => rec'.status \notin {"completed", "error"}
  BY <1>1, <1>3, <1>8 DEF OutcomeInv, Telling, Fresh
<1>10. h'[t]["post"].term = term
  BY <1>7
<1> HIDE DEF term
<1> QED
  BY <1>1, <1>3, <1>6, <1>7, <1>8, <1>9, <1>10, NoneSilent, PostTells DEF Starting

LEMMA EndJSONTells ==
    ASSUME OutcomeInv, PatientInv, NEW t \in Turns, EndJSON(t)
    PROVE  OutcomeInv'
<1> DEFINE term == h[t]["post"].term
<1>1. /\ PC(t, "post") = "reading" /\ Drained(t, "post") /\ ~SSE(t, "post") /\ turn' = turn
      /\ proc' = proc /\ pump' = pump /\ registry' = registry /\ rec' = rec /\ exec' = exec
      /\ Goto(t, "post", "after")
  BY DEF EndJSON, Drained, regVars
<1>2. Registered(t) /\ Active(t) /\ Relay(t).done
  BY <1>1, ReadsRelay DEF Drained, Relay
<1>3. /\ h'[t]["post"].pc = "after" /\ h'[t]["post"].term = term /\ ~h'[t]["post"].susp
      /\ \A u \in Turns : u # t => h'[u]["post"] = h[u]["post"]
  BY <1>1, PostGoto
<1>4. rec.error # "cancelled"
  BY DEF OutcomeInv
<1> HIDE DEF term
<1> QED
  BY <1>1, <1>2, <1>3, <1>4, NoneSilent, PostTells DEF Starting

(* An attached handler has not been asked anything. *)
LEMMA AttachedCalm ==
    ASSUME TypeOK, NEW t \in Turns, NEW a \in Attempts, h' = Attached(t, "post", a, 0)
    PROVE  ~h'[t]["post"].susp
<1> DEFINE v == [Handler EXCEPT !.pc = "reading", !.rel = a, !.cur = 0]
<1>1. ~v.susp
  BY DEF Handler
<1>2. h' = [h EXCEPT ![t]["post"] = v]
  BY DEF Attached
<1> HIDE DEF v
<1> QED
  BY <1>1, <1>2 DEF TypeOK, Kinds

LEMMA RegisterTells ==
    ASSUME OutcomeInv, PatientInv, NEW t \in Turns, Register(t)
    PROVE  OutcomeInv'
<1>1. /\ TypeOK /\ PC(t, "post") = "register" /\ turn' = turn /\ proc' = proc /\ Active(t)
  BY DEF Register, PatientInv, RetryInv, TurnInv, Active, Serving
<1>2. turn[t].attempt \in Attempts /\ ~Registered(t)
  BY <1>1, AttemptOf DEF PatientInv, RetryInv, Before, TurnInv, Parts, Places
<1>3. registry = NoTurn
  BY <1>1, <1>2, Served
<1>4. /\ registry' = t /\ exec' = [exec EXCEPT ![t] = WithRelay(t)]
      /\ h' = Attached(t, "post", turn[t].attempt, 0) /\ rec' = Activated(rec)
  BY <1>3 DEF Register
<1>5. /\ h'[t]["post"].pc = "reading" /\ h'[t]["post"].term = "none" /\ ~h'[t]["post"].susp
      /\ \A u \in Turns : u # t => h'[u] = h[u] /\ exec'[u] = exec[u]
  BY <1>1, <1>2, <1>4, AttachesTo, AttachedCalm
<1>6. rec'.error # "cancelled" /\ rec'.status = "active"
  BY <1>1, <1>4, RecordAfter DEF OutcomeInv
<1>7. \A u \in Turns : u # t => Onward(u)
  BY <1>1, <1>5, NoneSilent, SilentOnward
<1>8. Telling(t)'
  <2>1. PC(t, "post")' = "reading"
    BY <1>5 DEF PC
  <2>2. Unasked(t)'
    BY <1>1, <1>5, <2>1 DEF OutcomeInv, Telling, Unasked
  <2>3. Failing(t)' /\ Heard(t)' /\ Recorded(t)'
    BY <1>5, <2>1 DEF Failing, Retrying, Starting, Heard, Recorded
  <2>4. Fresh(t)'
    BY <1>6 DEF Fresh
  <2> QED
    BY <2>2, <2>3, <2>4 DEF Telling
<1>9. PC(t, "post")' # "off"
  BY <1>5 DEF PC
<1> QED
  BY <1>1, <1>4, <1>5, <1>6, <1>7, <1>8, <1>9, OneTells

LEMMA StartAgentTells ==
    ASSUME OutcomeInv, PatientInv, NEW t \in Turns, StartAgent(t)
    PROVE  OutcomeInv'
<1> DEFINE n == turn[t].attempt
           p == [proc[t][n] EXCEPT !.st = "running"]
           term == h[t]["post"].term
<1>1. /\ TypeOK /\ PC(t, "post") = "create" /\ turn' = turn /\ pump' = pump /\ Active(t)
      /\ registry' = registry /\ rec' = rec
  BY DEF StartAgent, PatientInv, RetryInv, TurnInv, Active, Serving
<1>2. n \in Attempts /\ proc[t][n].st = "none"
  BY <1>1, AttemptOf DEF Before, Starting, PatientInv, RetryInv
<1>3. p.st = "running" /\ p.ev = proc[t][n].ev /\ p.done = proc[t][n].done
  BY <1>1, <1>2, Cells DEF ProcState
<1>4. proc' = [proc EXCEPT ![t][n] = p]
  BY DEF StartAgent
<1> HIDE DEF p
<1>5. Silent
  <2>1. proc'[t][n] = p /\ \A u \in Turns, b \in Attempts : u # t \/ b # n => proc'[u][b] = proc[u][b]
    BY <1>1, <1>2, <1>4 DEF TypeOK
  <2> QED
    BY <1>2, <1>3, <2>1 DEF Silent
<1>6. rec'.error # "cancelled"
  BY <1>1 DEF OutcomeInv
<1>7. CASE ~Registered(t)
  <2>1. Goto(t, "post", "register") /\ exec' = exec
    BY <1>7 DEF StartAgent
  <2>2. /\ h'[t]["post"].pc = "register" /\ h'[t]["post"].term = term /\ ~h'[t]["post"].susp
        /\ \A u \in Turns : u # t => h'[u]["post"] = h[u]["post"]
    BY <2>1, PostGoto
  <2> HIDE DEF term
  <2> QED
    BY <1>1, <1>5, <1>6, <2>1, <2>2, PostTells DEF Starting
<1>8. CASE Registered(t)
  <2>1. h' = Attached(t, "post", n, 0) /\ exec' = [exec EXCEPT ![t] = WithRelay(t)]
    BY <1>8 DEF StartAgent
  <2>2. /\ h'[t]["post"].pc = "reading" /\ h'[t]["post"].term = "none" /\ ~h'[t]["post"].susp
        /\ \A u \in Turns : u # t => h'[u] = h[u] /\ exec'[u] = exec[u]
    BY <1>1, <1>2, <2>1, AttachesTo, AttachedCalm
  <2>3. \A u \in Turns : u # t => Onward(u)
    BY <1>1, <1>5, <2>2, SilentOnward
  <2>4. PC(t, "post")' = "reading" /\ Retrying(t)
    BY <1>1, <1>8, <2>2 DEF PC, Retrying, Starting
  <2>5. registry = t /\ PumpsOff(t) => rec.status \notin {"completed", "error"}
    BY <1>8, <2>4 DEF OutcomeInv, Telling, Failing, Fresh
  <2>6. PumpsOff(t)' = PumpsOff(t)
    BY <1>1 DEF PumpsOff
  <2>7. Fresh(t)'
    BY <1>1, <2>5, <2>6 DEF Fresh
  <2>8. Unasked(t)'
    BY <1>5, <2>2, <2>4 DEF OutcomeInv, Telling, Unasked, Silent
  <2>9. Failing(t)' /\ Heard(t)' /\ Recorded(t)'
    BY <2>2, <2>4 DEF Failing, Retrying, Starting, Heard, Recorded
  <2>10. Telling(t)'
    BY <2>7, <2>8, <2>9 DEF Telling
  <2> QED
    BY <1>1, <1>6, <2>2, <2>3, <2>4, <2>10, OneTells
<1> QED
  BY <1>7, <1>8

-----------------------------------------------------------------------------
(* Steps that are not of a POST in progress.                               *)

LEMMA SendMessageTells ==
    ASSUME OutcomeInv, PatientInv, NEW t \in Turns, SendMessage(t)
    PROVE  OutcomeInv'
<1> DEFINE to == IF registry = NoTurn THEN "accepted" ELSE "busy"
<1>1. /\ TypeOK /\ PC(t, "post") = "off" /\ Goto(t, "post", to) /\ turn' = turn /\ proc' = proc
      /\ pump' = pump /\ registry' = registry /\ rec' = rec /\ exec' = exec
  BY DEF SendMessage, PatientInv, RetryInv, TurnInv, regVars
<1>2. /\ h'[t]["post"].pc = to /\ ~h'[t]["post"].susp
      /\ \A u \in Turns : u # t => h'[u]["post"] = h[u]["post"]
  BY <1>1, PostGoto
<1>3. to \in {"accepted", "busy"}
  OBVIOUS
<1> HIDE DEF to
<1>4. ASSUME NEW u \in Turns, u # t PROVE Telling(u)'
  <2>1. Onward(u)
    BY <1>1, NoneSilent, SilentOnward
  <2>2. PumpsOff(u)' = PumpsOff(u) /\ ~OthersOff(u)'
    BY <1>1, <1>2, <1>3, <1>4 DEF PumpsOff, OthersOff, PC
  <2>3. StillTold(u)
    BY <1>1, <2>2 DEF StillTold
  <2> QED
    BY <1>2, <1>4, <2>1, <2>3, TellsOn DEF OutcomeInv
<1>5. PC(t, "post")' = to
  BY <1>2 DEF PC
<1>6. Unasked(t)'
  BY <1>1, <1>2, <1>3, <1>5 DEF OutcomeInv, Telling, Unasked
<1>7. Failing(t)' /\ Heard(t)' /\ Fresh(t)' /\ Recorded(t)'
  BY <1>3, <1>5 DEF Failing, Retrying, Starting, Heard, Fresh, Recorded
<1> QED
  BY <1>1, <1>4, <1>6, <1>7 DEF OutcomeInv, Telling

(* No handler moves. *)
LEMMA AllTell ==
    ASSUME OutcomeInv, PatientInv, h' = h, rec'.error # "cancelled",
           \A u \in Turns : Onward(u) /\ StillTold(u)
    PROVE  OutcomeInv'
BY TellsOn DEF OutcomeInv

LEMMA PumpTells ==
    ASSUME OutcomeInv, PatientInv, NEW t \in Turns, Pump(t)
    PROVE  OutcomeInv'
<1>1. /\ TypeOK /\ h' = h /\ turn' = turn /\ proc' = proc /\ registry' = registry
      /\ pump[t].pc # "off"
  BY DEF Pump, PumpStarts, PumpEvent, PumpLoops, PatientInv, RetryInv, TurnInv, regVars
<1>2. Registered(t) /\ PC(t, "post") # "off"
  BY <1>1, RegisteredAt DEF PatientInv, Stable, Attended
<1>3. \A u \in Turns : exec'[u].relay = exec[u].relay
  <2>1. exec' = exec \/ exec' = Suspended(t)
    BY DEF Pump, PumpStarts, PumpEvent, PumpLoops
  <2>2. exec' = Suspended(t) => \A u \in Turns : exec'[u].relay = exec[u].relay
    BY <1>1, SuspendedOnly, Cells
  <2> QED
    BY <2>1, <2>2
<1>4. \A u \in Turns : Onward(u)
  BY <1>1, <1>3, NoneSilent, SilentOnward
<1>5. \A u \in Turns : OthersOff(u)' = OthersOff(u) /\ (u # t => ~OthersOff(u)')
  BY <1>1, <1>2 DEF OthersOff, PC
<1>6. \A u \in Turns : u # t => pump'[u] = pump[u]
  BY <1>1 DEF Pump, PumpStarts, PumpEvent, PumpLoops, PumpHead, TypeOK
<1>7. PumpsOff(t)' = PumpsOff(t)
  BY <1>6 DEF PumpsOff
<1>8. registry # NoTurn => pump'[t].pc # "off"
  <2>1. CASE PumpHead(t)
    BY <1>1, <2>1 DEF PumpHead, TypeOK
  <2>2. CASE PumpEvent(t)
    BY <1>1, <2>2 DEF PumpEvent, TypeOK, PumpState
  <2> QED
    BY <2>1, <2>2 DEF Pump, PumpStarts, PumpLoops, PumpEvent
<1>9. \A u \in Turns : u # t /\ registry' = u => ~PumpsOff(u)'
  BY <1>1, <1>8, TurnAssumption DEF PumpsOff
<1>10. CASE rec' = rec
  <2>1. \A u \in Turns : StillTold(u)
    BY <1>1, <1>5, <1>7, <1>9, <1>10 DEF StillTold
  <2> QED
    BY <1>1, <1>4, <1>10, <2>1, AllTell DEF OutcomeInv
<1>11. CASE PumpEvent(t)
  <2> DEFINE e == Relay(t).ev[pump[t].cur + 1]
  <2>1. e \in EventKinds /\ Has(Relay(t).ev, e)
    <3>1. exec[t].relay \in Attempts
      BY <1>2, RelayOf
    <3>2. Relay(t).ev \in Seq(EventKinds) /\ pump[t].cur \in Nat
      BY <1>1, <3>1, Cells DEF Relay, ProcState, PumpState
    <3>3. pump[t].cur + 1 \in 1..Len(Relay(t).ev)
      BY <1>11, <3>2, Succ, LenProperties DEF PumpEvent
    <3> QED
      BY <3>2, <3>3, ElementOfSeq DEF Has
  <2>2. e # "input"
    BY <1>2, <2>1, RelayOf DEF OutcomeInv, Telling, Unasked, Relay
  <2>3. rec' = IF e = "system" THEN [rec EXCEPT !.native = "some"] ELSE OnTerminal(rec, e)
    BY <1>11, <2>2 DEF PumpEvent
  <2>4. rec.error # "cancelled"
    BY DEF OutcomeInv
  <2>5. /\ rec'.error # "cancelled"
        /\ e \notin {"result", "error"} => rec'.status = rec.status
        /\ e = "result" => rec'.status = "completed"
    <3> HIDE DEF e
    <3> QED
      BY <1>1, <2>3, <2>4, RecordAfter
  <2>6. StillTold(t)
    BY <1>1, <1>5, <1>7, <2>1, <2>5 DEF StillTold, Mute
  <2>7. \A u \in Turns : u # t => StillTold(u)
    BY <1>1, <1>5, <1>9 DEF StillTold
  <2> QED
    BY <1>1, <1>4, <2>5, <2>6, <2>7, AllTell
<1> QED
  BY <1>10, <1>11 DEF Pump, PumpStarts, PumpLoops

LEMMA AgentTells ==
    ASSUME Ordinary, OutcomeInv, PatientInv, NEW t \in Turns, NEW a \in Attempts, Agent(t, a)
    PROVE  OutcomeInv'
<1>1. /\ TypeOK /\ h' = h /\ turn' = turn /\ pump' = pump /\ rec' = rec /\ exec' = exec
      /\ registry' = registry
  BY DEF Agent, AgentEmit, AgentExit, PatientInv, RetryInv, TurnInv, regVars
<1>2. proc[t][a] \in ProcState /\ turn[t].req \in Requests /\ proc[t][a].ev \in Seq(EventKinds)
      /\ turn[t].req.events \subseteq EventKinds
  <2>1. proc[t][a] \in ProcState /\ turn[t].req \in Requests
    BY <1>1, Cells DEF TurnState
  <2> QED
    BY <2>1, TurnAssumption DEF ProcState, Request
<1>3. ~Has(proc[t][a].ev, "input")
  BY DEF OutcomeInv, Telling, Unasked
<1>4. PICK p \in ProcState :
        /\ proc' = [proc EXCEPT ![t][a] = p] /\ proc[t][a].st # "exited"
        /\ proc[t][a].done => p.done
        /\ \/ p.ev = proc[t][a].ev
           \/ \E e \in EventKinds \ {"input"} : p.ev = Append(proc[t][a].ev, e)
  <2>1. CASE AgentExit(t, a)
    <3> DEFINE p == [proc[t][a] EXCEPT !.st = "exited", !.done = TRUE]
    <3>1. p \in ProcState /\ p.ev = proc[t][a].ev /\ p.done
      BY <1>2 DEF ProcState
    <3>2. proc' = [proc EXCEPT ![t][a] = p] /\ proc[t][a].st # "exited"
      BY <1>1, <2>1, Cells DEF AgentExit, Procs
    <3> QED
      BY <3>1, <3>2
  <2>2. CASE AgentEmit(t, a)
    <3>1. PICK e \in turn[t].req.events : proc' = [proc EXCEPT ![t][a] = Said(proc[t][a], e)]
      BY <2>2 DEF AgentEmit
    <3>2. e \in EventKinds /\ e # "input"
      BY <1>2, <3>1 DEF Ordinary
    <3> DEFINE s == Append(proc[t][a].ev, e)
               p == [proc[t][a] EXCEPT !.ev = s]
    <3>3. s \in Seq(EventKinds)
      BY <1>2, <3>2, Appends
    <3>4. Said(proc[t][a], e) = p
      BY <1>2, <3>2 DEF Said, ProcState
    <3> HIDE DEF s
    <3>5. p \in ProcState /\ p.ev = s /\ p.done = proc[t][a].done
      BY <1>2, <3>3 DEF ProcState
    <3>6. \E f \in EventKinds \ {"input"} : p.ev = Append(proc[t][a].ev, f)
      BY <3>2, <3>5 DEF s
    <3>7. proc[t][a].st # "exited"
      BY <2>2 DEF AgentEmit
    <3> HIDE DEF p
    <3> QED
      BY <3>1, <3>4, <3>5, <3>6, <3>7
  <2> QED
    BY <2>1, <2>2 DEF Agent
<1>5. proc'[t][a] = p /\ \A u \in Turns, b \in Attempts : u # t \/ b # a => proc'[u][b] = proc[u][b]
  BY <1>1, <1>4 DEF TypeOK
<1>6. /\ \A e : Has(proc[t][a].ev, e) => Has(p.ev, e)
      /\ proc[t][a].ev # <<>> => p.ev # <<>>
      /\ ~Has(p.ev, "input")
  <2>1. CASE p.ev = proc[t][a].ev
    BY <1>3, <2>1
  <2>2. ASSUME NEW f \in EventKinds \ {"input"}, p.ev = Append(proc[t][a].ev, f)
        PROVE  /\ \A e : Has(proc[t][a].ev, e) => Has(p.ev, e)
               /\ p.ev # <<>> /\ ~Has(p.ev, "input")
    <3> DEFINE s == proc[t][a].ev
               n == Len(s)
    <3>1. n \in Nat /\ s \in Seq(EventKinds)
      BY <1>2, LenProperties
    <3>2. Len(p.ev) = n + 1 /\ p.ev[n + 1] = f /\ \A i \in 1..n : p.ev[i] = s[i]
      BY <2>2, <3>1, AppendProperties
    <3>3. \A i \in 1..(n + 1) : i \in 1..n \/ i = n + 1
      BY <3>1
    <3>4. \A i \in 1..n : i \in 1..(n + 1)
      BY <3>1
    <3>5. p.ev # <<>>
      BY <3>1, <3>2
    <3>6. \A e : Has(s, e) => Has(p.ev, e)
      BY <3>2, <3>4 DEF Has
    <3>7. ~Has(p.ev, "input")
      BY <1>3, <3>2, <3>3 DEF Has
    <3> QED
      BY <3>5, <3>6, <3>7
  <2> QED
    BY <1>4, <2>1, <2>2
<1>7. \A u \in Turns : Onward(u)
  <2>1. ASSUME NEW u \in Turns, NEW b \in Attempts
        PROVE  /\ \A e \in EventKinds : Has(proc[u][b].ev, e) => Has(proc'[u][b].ev, e)
               /\ proc[u][b].ev # <<>> => proc'[u][b].ev # <<>>
               /\ proc[u][b].done => proc'[u][b].done
               /\ proc[u][b].st = "exited" => proc'[u][b] = proc[u][b]
               /\ ~Has(proc'[u][b].ev, "input")
    <3>1. CASE u = t /\ b = a
      BY <1>4, <1>5, <1>6, <3>1
    <3>2. CASE ~(u = t /\ b = a)
      BY <1>5, <3>2 DEF OutcomeInv, Telling, Unasked
    <3> QED
      BY <3>1, <3>2
  <2> QED
    BY <1>1, <2>1 DEF Onward
<1>8. \A u \in Turns : PumpsOff(u)' = PumpsOff(u) /\ OthersOff(u)' = OthersOff(u)
  BY <1>1 DEF PumpsOff, OthersOff, PC
<1>9. \A u \in Turns : StillTold(u)
  BY <1>1, <1>8 DEF StillTold
<1> QED
  BY <1>1, <1>7, <1>9, AllTell DEF OutcomeInv

(* The reattach timer never runs: no turn is suspended. *)
LEMMA NoTimer ==
    ASSUME OutcomeInv, PatientInv, NEW t \in Turns
    PROVE  ~Timer(t)
<1>1. Attended(t) /\ PC(t, "post") # "suspended"
  BY DEF PatientInv, Stable, OutcomeInv, Telling, Unasked
<1> QED
  BY <1>1 DEF Timer, TimerFires, DrainTimeout, Attended, PC

-----------------------------------------------------------------------------
LEMMA OutcomeInvInit == Init => OutcomeInv
<1> SUFFICES ASSUME Init PROVE OutcomeInv
  OBVIOUS
<1>1. rec.error = "none"
  BY DEF Init
<1>2. \A t \in Turns : /\ h[t]["post"] = Handler /\ exec[t].relay = 0
                       /\ \A a \in Attempts : proc[t][a].ev = <<>>
  BY DEF Init, Kinds
<1>3. \A t \in Turns : PC(t, "post") = "off" /\ ~Registered(t) /\ ~h[t]["post"].susp
  BY <1>2 DEF PC, Handler, Registered
<1>4. \A t \in Turns : Unasked(t)
  BY <1>2, <1>3 DEF Unasked, Has
<1>5. \A t \in Turns : Failing(t) /\ Heard(t) /\ Fresh(t) /\ Recorded(t)
  BY <1>3 DEF Failing, Retrying, Starting, Heard, Fresh, Recorded
<1> QED
  BY <1>1, <1>4, <1>5 DEF OutcomeInv, Telling

LEMMA OutcomeInvStep ==
    ASSUME Patient, Ordinary, PatientInv, OutcomeInv, [Next]_vars
    PROVE  OutcomeInv'
<1>1. ASSUME NEW t \in Turns, Turn(t) PROVE OutcomeInv'
  <2>1. ~AfterSuspends(t)
    BY DEF AfterSuspends, OutcomeInv, Telling, Unasked
  <2> QED
    BY <1>1, <2>1, SendMessageTells, RegisterCancelTells, CreateFailsTells, SendFailsTells,
       StartAgentTells, RegisterTells, AfterRetriesTells, RetryWaitTells DEF Turn
<1>2. ASSUME NEW t \in Turns, NEW k \in Kinds, Stream(t, k) PROVE OutcomeInv'
  <2>1. k = "post"
    BY <1>2, NobodyElse
  <2> QED
    BY <1>2, <2>1, NobodyElse, ReadSSETells, EndSSETells, PostResultDrainTells,
       AfterEndsTells, FinishTells DEF Stream
<1>3. ASSUME NEW t \in Turns, JSON(t) PROVE OutcomeInv'
  BY <1>3, NobodyElse, ReadJSONTells, EndJSONTells DEF JSON
<1>4. ASSUME NEW t \in Turns, Client(t) \/ Timer(t) PROVE OutcomeInv'
  BY <1>4, NobodyElse, NoTimer
<1>5. ASSUME NEW t \in Turns, Pump(t) PROVE OutcomeInv'
  BY <1>5, PumpTells
<1>6. ASSUME NEW t \in Turns, NEW a \in Attempts, Agent(t, a) PROVE OutcomeInv'
  BY <1>6, AgentTells
<1>7. ASSUME UNCHANGED vars PROVE OutcomeInv'
  <2>1. /\ h' = h /\ turn' = turn /\ proc' = proc /\ exec' = exec /\ registry' = registry
        /\ pump' = pump /\ rec' = rec
    BY <1>7 DEF vars, regVars
  <2>2. \A u \in Turns : Onward(u)
    BY <2>1, NoneSilent, SilentOnward
  <2>3. \A u \in Turns : PumpsOff(u)' = PumpsOff(u) /\ OthersOff(u)' = OthersOff(u)
    BY <2>1 DEF PumpsOff, OthersOff, PC
  <2>4. \A u \in Turns : StillTold(u)
    BY <2>1, <2>3 DEF StillTold
  <2> QED
    BY <2>1, <2>2, <2>4, AllTell DEF OutcomeInv
<1>8. Next \/ UNCHANGED vars
  OBVIOUS
<1> QED
  BY <1>1, <1>2, <1>3, <1>4, <1>5, <1>6, <1>7, <1>8, NobodyAborts DEF Next

(* While clients wait and agents ask nothing, the record tells the outcome *)
(* of the turn: when all is at rest after one turn that gave a result, the *)
(* session is completed, and while an agent has said nothing yet, the      *)
(* record does not say that its turn is over (markSessionActive,           *)
(* updateSessionStatusOnTerminal, pumpExecSideEffects).                    *)
THEOREM OutcomeIsTold ==
    ASSUME Patient, Ordinary
    PROVE  Spec => []OutcomeOfTurn
<1>1. PatientInv /\ OutcomeInv => OutcomeOfTurn
  <2> SUFFICES ASSUME PatientInv, OutcomeInv PROVE OutcomeOfTurn
    OBVIOUS
  <2>1. OutcomeRecorded
    <3> SUFFICES ASSUME AtRest, NEW t \in Turns, Registered(t), h[t]["post"].term = "result",
                        ~Has(Relay(t).ev, "error"),
                        \A u \in Turns \ {t} : PC(u, "post") = "off" \/ u \in ended
                 PROVE  rec.status = "completed"
      BY DEF OutcomeRecorded
    <3>1. \A u \in Turns : u \notin ended
      BY DEF PatientInv, Stable, Attended, OutcomeInv, Telling, Unasked, PC
    <3>2. OthersOff(t)
      BY <3>1 DEF OthersOff
    <3>3. PC(t, "post") = "returned"
      BY RegisteredAt DEF AtRest
    <3> QED
      BY <3>2, <3>3 DEF OutcomeInv, Telling, Recorded
  <2>2. NoStaleOutcome
    <3> SUFFICES ASSUME NEW t \in Turns, registry = t, InFlight(t), Relay(t).ev = <<>>, ~Relay(t).done,
                        \A u \in Turns \ {t} : pump[u].pc = "off"
                 PROVE  rec.status \notin {"completed", "error"}
      BY DEF NoStaleOutcome
    <3>1. Registered(t) /\ PC(t, "post") \in {"reading", "after", "retrywait", "create"}
      BY DEF InFlight, PatientInv, Stable, Attended, OutcomeInv, Telling, Unasked, PC
    <3>2. PC(t, "post") # "after"
      BY DEF OutcomeInv, Telling, Heard
    <3>3. ~Retrying(t)
      BY DEF OutcomeInv, Telling, Failing
    <3>4. PC(t, "post") = "reading"
      BY <3>1, <3>2, <3>3 DEF Retrying, Starting
    <3>5. Mute(t) /\ PumpsOff(t)
      BY DEF Mute, Has, PumpsOff
    <3> QED
      BY <3>1, <3>4, <3>5 DEF OutcomeInv, Telling, Fresh
  <2> QED
    BY <2>1, <2>2 DEF OutcomeOfTurn
<1>2. PatientInv /\ OutcomeInv /\ [Next]_vars => OutcomeInv'
  BY OutcomeInvStep
<1> QED
  BY <1>1, <1>2, OutcomeInvInit, PatientInvHolds, PTL DEF Spec
=============================================================================
