---------------------------- MODULE MCRangeCopy ----------------------------
(***************************************************************************)
(* A small instance of a range's copy.  Event i lies in block Blocks[i]:   *)
(* three events in one block, more than the channel has room for, and one  *)
(* in the last block whose amount is too large for its column.             *)
(***************************************************************************)
EXTENDS RangeCopy

CONSTANT Blocks

MCBlocks == <<1, 1, 1, 3>>
MCEvent == DOMAIN Blocks
MCHeight == [e \in Event |-> Blocks[e]]
=============================================================================
