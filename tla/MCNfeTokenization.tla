------------------------- MODULE MCNfeTokenization --------------------------
(* Instantiates NfeTokenization for TLC.                                    *)
EXTENDS NfeTokenization, TLC

NfeSymmetry == Permutations(Key) \cup Permutations(Hash) \cup Permutations(Wallet)
=============================================================================
