--------------------------- MODULE HistogramCalls ---------------------------
(***************************************************************************)
(* Bucket layouts and values for the Histogram runs.  linear_values(4, 6, *)
(* 3) is the layout of spec.md's examples (bounds 4, 10, 16); 10 and 16   *)
(* sit exactly on a bound.  exponential_values(-1, 2, 3) passes the       *)
(* factor check with a negative start.                                     *)
(***************************************************************************)
EXTENDS Integers

Linear4x6 == [growth |-> "linear", start |-> 4, update |-> 6, num |-> 3]
Exp1x2 == [growth |-> "exponential", start |-> 1, update |-> 2, num |-> 3]
ExpNeg == [growth |-> "exponential", start |-> -1, update |-> 2, num |-> 3]

MCCalls == {Linear4x6, Exp1x2}
MCValues == {3, 10, 17}
MCNegCalls == {ExpNeg}
MCNegValues == {-3}
MCMaxValues == {10, 100}
=============================================================================
