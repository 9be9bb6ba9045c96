----------------------------- MODULE MCDataSync -----------------------------
(***************************************************************************)
(* Small instances of the syncer.  Event number i lies in block Blocks[i]; *)
(* two events share a block, and the last one sits in block 6.             *)
(***************************************************************************)
EXTENDS DataSync

CONSTANT Blocks

MCBlocks == <<1, 3, 3, 5, 6>>
MCEvent == DOMAIN Blocks
MCHeight == [e \in Event |-> Blocks[e]]
=============================================================================
