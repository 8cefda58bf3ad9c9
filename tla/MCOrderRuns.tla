---------------------------- MODULE MCOrderRuns ----------------------------
(* TLC's instance of OrderRuns. *)
EXTENDS OrderRuns, TLC

\* no symbol is special
MCSymmetry == Permutations(Symbols)
=============================================================================
