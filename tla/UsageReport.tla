---------------------------- MODULE UsageReport ----------------------------
(* The token usage of a turn and of a session (usage_aggregator.go,         *)
(* usage_store.go, codingagent/usage.go).  An amount stands for all the     *)
(* counters of a TokenUsage; 0 stands for no turn total, no turn id and no  *)
(* time.  Sources: "call" has a call id, "count" is codex_token_count,      *)
(* "result" one of the two trusted totals, "other" any other.               *)
EXTENDS Integers, Sequences, FiniteSets, SequencesExt

NoUsage == [src |-> "none", call |-> 0, n |-> 0]
NewAggregator == [seen |-> {}, calls |-> <<>>, turn |-> 0, finalized |-> FALSE, final |-> <<>>]

SumOf(records) == FoldLeft(LAMBDA n, r : n + r.n, 0, records)

\* Fault: a call that was seen before is counted again.
AgainSeen(a, u) == FALSE
SeenCall(a, u) == u.call \in a.seen

\* The aggregator has no lock: what an observer finds in it, and what it then does, are
\* steps of their own.  A call is counted by its id.  A trusted total of a result wins; any
\* other total is taken when there is none, from a result or from a token count.
Observe(a, type, u) ==
    CASE u.src = "none" -> "skip"
      [] u.src = "call" -> IF SeenCall(a, u) THEN "skip" ELSE "mark"
      [] u.src = "result" /\ type = "result" -> "turn"
      [] a.turn = 0 /\ (u.src = "count" \/ (type = "result" /\ u.src = "other")) -> "turn"
      [] OTHER -> "skip"

MarkSeen(a, u) == [a EXCEPT !.seen = @ \cup {u.call}]
AppendTo(calls, u) == Append(calls, [call |-> u.call, n |-> u.n])
SetTurn(a, u) == [a EXCEPT !.turn = u.n]

\* What Finalize makes: without a total the turn is the sum of the calls.
TurnRecord(a) ==
    LET n == IF a.turn # 0 THEN a.turn ELSE SumOf(a.calls)
    IN  [ok |-> a.turn # 0 \/ a.calls # <<>>, n |-> n, calls |-> a.calls,
         mismatch |-> a.calls # <<>> /\ SumOf(a.calls) # n]

\* A turn's record in the report replaces the one with its id.
appendTurnUsage(turns, rec) ==
    IF \E i \in DOMAIN turns : turns[i].turn = rec.turn
    THEN [i \in DOMAIN turns |-> IF turns[i].turn = rec.turn THEN rec ELSE turns[i]]
    ELSE Append(turns, rec)

-----------------------------------------------------------------------------
(* FilterTurnUsage.                                                         *)

indexOfTurn(turns, id) ==
    IF \E i \in DOMAIN turns : turns[i].turn = id
    THEN CHOOSE i \in DOMAIN turns : turns[i].turn = id /\ \A j \in 1..(i - 1) : turns[j].turn # id
    ELSE 0

filterTurnIDRange(turns, from, to) ==
    LET start == IF from # 0 THEN indexOfTurn(turns, from) ELSE 1
        end   == IF to # 0 THEN indexOfTurn(turns, to) ELSE Len(turns)
    IN  IF (from # 0 /\ start = 0) \/ (to # 0 /\ end = 0) THEN <<>> ELSE SubSeq(turns, start, end)

AfterTurn(turns, id) ==
    IF id = 0 THEN turns
    ELSE IF indexOfTurn(turns, id) = 0 THEN <<>>
    ELSE SubSeq(turns, indexOfTurn(turns, id) + 1, Len(turns))

\* A turn without a time is left out of a filter by time.
InTime(turns, since, until) ==
    IF since = 0 /\ until = 0 THEN turns
    ELSE SelectSeq(turns, LAMBDA t : /\ t.at # 0 /\ (since # 0 => t.at >= since)
                                     /\ (until # 0 => t.at <= until))

LastTurns(turns, n) ==
    IF n > 0 /\ Len(turns) > n THEN SubSeq(turns, Len(turns) - n + 1, Len(turns)) ELSE turns

FilterTurnUsage(turns, q) ==
    LET after == AfterTurn(turns, q.after)
        range == filterTurnIDRange(after, q.from, q.to)
    IN  LastTurns(InTime(range, q.since, q.until), q.lastN)
=============================================================================
