----------------------------- MODULE DataModel -----------------------------
(***************************************************************************)
(* The rows of the `deposits` table, shared by the syncer, which inserts   *)
(* them, and the faucet, which moves their status                          *)
(* (internal/repository/datamodel.go and the first migration).             *)
(*                                                                         *)
(* A row keeps a copy of the bridge event's columns: it is modelled by the *)
(* event itself.  The position of a row in the table is its AUTO_INCREMENT *)
(* id; no statement deletes a row or writes another column than status.    *)
(***************************************************************************)
EXTENDS Naturals, Sequences

CONSTANT Event   \* DepositFinalized events of the bridge contract

DepositStatus == {"unprocessed", "processing", "done", "ignore"}

Row == [event : Event, status : DepositStatus]

(* A row as the syncer inserts it.                                          *)
NewRow == [event : Event, status : {"unprocessed", "ignore"}]
=============================================================================
