--------------------------- MODULE MCPriceHistory ---------------------------
(***************************************************************************)
(* Instances of PriceHistory for TLC.  An hour is one second, the file     *)
(* keeps two entries.                                                      *)
(***************************************************************************)
EXTENDS PriceHistory, TLC

\* Runs are interchangeable: no definition looks at their names.
Symmetry == Permutations(Run)
=============================================================================
