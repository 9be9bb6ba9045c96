------------------------------ MODULE MCFaucet ------------------------------
(***************************************************************************)
(* Small instances of the faucet.  Every event deposits to an address of   *)
(* its own; an event may be recorded more than once, so one user can have  *)
(* several deposits.  The first event deposits a stable token, the others  *)
(* one whose price moves around the threshold; the events of OldEvents lie *)
(* below the drip height, which happens when the flag is raised after they *)
(* were recorded.                                                          *)
(***************************************************************************)
EXTENDS Faucet

CONSTANTS a1, a2, a3, e1, e2, e3, OldEvents

MCTo == [e \in Event |-> CASE e = e1 -> a1 [] e = e2 -> a2 [] e = e3 -> a3]
MCHeight == [e \in Event |-> IF e \in OldEvents THEN 99 ELSE 100]
MCAmount == [e \in Event |-> 5]
MCPrice == {0, 2}
=============================================================================
