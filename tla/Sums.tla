--------------------------------- MODULE Sums ---------------------------------
(***************************************************************************)
(* The total of the values of a function over a finite set: the SUM of a   *)
(* column over the rows of a table.                                        *)
(***************************************************************************)
EXTENDS Integers, Folds

SumOf(f, S) ==
    MapThenFoldSet(+, 0, LAMBDA x : f[x], LAMBDA T : CHOOSE x \in T : TRUE, S)
===============================================================================
