----------------------------- MODULE MessageLog -----------------------------
(***************************************************************************)
(* What the canonical history of a session promises its readers: a log of  *)
(* messages to which one message at a time is added at the end, and in     *)
(* which nothing is ever changed, dropped or left out.                     *)
(***************************************************************************)
EXTENDS Naturals, Sequences

VARIABLE log

Init == log = <<>>

Extend == /\ Len(log') = Len(log) + 1
          /\ \A i \in 1..Len(log) : log'[i] = log[i]

Spec == Init /\ [][Extend]_log
=============================================================================
