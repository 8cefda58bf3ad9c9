---------------------------- MODULE MCPaperSplits ----------------------------
(***************************************************************************)
(* Instance of PaperSplits.                                                *)
(***************************************************************************)
EXTENDS PaperSplits

\* Orders beside others with a record that is always there, and one order of a
\* side at a time with a record that may be missing
MCSettings == {[stacks |-> TRUE, down |-> FALSE], [stacks |-> FALSE, down |-> TRUE]}

\* The split of day d makes d shares of one
MCFactor == [S \in SUBSET ExDays |-> ProductSet(S)]

\* What became of an order that no longer waits changes nothing any more
Waiting ==
  <<ex, setting, day, part, known, row, desk, settler, reader, net,
    [i \in DOMAIN orders |-> IF orders[i].status = "pending" THEN orders[i] ELSE NoRow]>>
=============================================================================
