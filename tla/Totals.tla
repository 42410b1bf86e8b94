------------------------------- MODULE Totals -------------------------------
(***************************************************************************)
(* The sum of a function with natural values, by counting: f hands out     *)
(* f[a] units to each a, and its total is the number of units there are.   *)
(***************************************************************************)
EXTENDS Integers, FiniteSets

units(f) == UNION {{a} \X (1..f[a]) : a \in DOMAIN f}

total(f) == Cardinality(units(f))
=============================================================================
