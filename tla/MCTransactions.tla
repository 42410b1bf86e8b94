--------------------------- MODULE MCTransactions ---------------------------
(* Instantiates Transactions for TLC.                                       *)
EXTENDS Transactions, TLC

TransactionSymmetry == Permutations(Tab) \cup Permutations(Withdrawal)
=============================================================================
