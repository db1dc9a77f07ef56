-------------------------- MODULE MCCanonicalHistory --------------------------
(* Small instances of CanonicalHistory for TLC. *)
EXTENDS CanonicalHistory, TLC

Symmetry == Permutations(Agents)
=============================================================================
