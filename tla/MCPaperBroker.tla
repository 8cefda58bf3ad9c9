---------------------------- MODULE MCPaperBroker ----------------------------
(***************************************************************************)
(* Instances of PaperBroker.  The prices are multiples of 24, so that the  *)
(* averages over up to four shares are integers.                           *)
(***************************************************************************)
EXTENDS PaperBroker, TLC

(* A bar that stays below 48 and one that opens at 48 after touching 24.    *)
MCBars == {[open |-> 24, high |-> 24, low |-> 24],
           [open |-> 48, high |-> 72, low |-> 24]}

(* One that stays below 48 and one that opens below it and touches it.      *)
MCRisingBars == {[open |-> 24, high |-> 24, low |-> 24],
                 [open |-> 24, high |-> 48, low |-> 24]}

MCSymmetry == Permutations(Settlers)
=============================================================================
