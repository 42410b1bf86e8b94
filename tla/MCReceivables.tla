--------------------------- MODULE MCReceivables ----------------------------
(* Instantiates Receivables for TLC.                                        *)
EXTENDS Receivables, TLC

ReceivableSymmetry == Permutations(Worker)
=============================================================================
