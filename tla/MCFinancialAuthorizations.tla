--------------------- MODULE MCFinancialAuthorizations ----------------------
(* One authorization that two users, two wallets and three calls fight over. *)
EXTENDS FinancialAuthorizations, TLC

Symmetric == Permutations(User) \cup Permutations(Wallet) \cup Permutations(Purpose)
               \cup Permutations(Call)
=============================================================================
