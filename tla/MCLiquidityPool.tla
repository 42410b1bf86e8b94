-------------------------- MODULE MCLiquidityPool ---------------------------
(* Two accounts, one invoice and a handful of BRLT.                        *)
EXTENDS LiquidityPool, TLC

AccountSymmetry == Permutations(Account) \cup Permutations(Invoice)
=============================================================================
