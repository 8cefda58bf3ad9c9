-------------------------- MODULE MCModelPromotion --------------------------
(* TLC's instances of ModelPromotion. *)
EXTENDS ModelPromotion, TLC

\* the nightly job, which the scheduler calls without options
MCScheduled == {[force |-> FALSE, dry |-> FALSE]}

\* the nightly job and the command line
MCByHand == MCScheduled \cup {[force |-> TRUE, dry |-> FALSE], [force |-> FALSE, dry |-> TRUE]}

\* the order in which the two models are copied and trained makes no difference
MCSymmetry == Permutations(Kinds)
=============================================================================
