---------------------------- MODULE MCPixService ----------------------------
(* Request handlers and workers are interchangeable.                       *)
EXTENDS PixService, TLC

ProcessSymmetry == Permutations(Handler) \cup Permutations(Worker)
=============================================================================
