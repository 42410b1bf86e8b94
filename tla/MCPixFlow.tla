----------------------------- MODULE MCPixFlow ------------------------------
(* Request handlers and workers are interchangeable.                       *)
EXTENDS PixFlow, TLC

ProcessSymmetry == Permutations(Handler) \cup Permutations(Worker)
=============================================================================
