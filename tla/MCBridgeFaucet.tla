--------------------------- MODULE MCBridgeFaucet ---------------------------
(***************************************************************************)
(* A small instance of the whole process.  Event i lies in block Blocks[i]:*)
(* the first one is old, the second deposits METIS, the third is worth a   *)
(* drip, the token of the fourth has no price, and the amount of the fifth *)
(* is too large for its column.  The third is made by one user, the others *)
(* by another.                                                             *)
(***************************************************************************)
EXTENDS BridgeFaucet

CONSTANTS a1, a2, Blocks

MCBlocks == <<1, 2, 2, 3, 4>>
MCEvent == DOMAIN Blocks
MCTo == [e \in Event |-> IF e = 3 THEN a1 ELSE a2]
MCHeight == [e \in Event |-> Blocks[e]]
MCAmount == [e \in Event |-> 5]
MCPrice == {2}
=============================================================================
