----------------------------- MODULE PageCursor -----------------------------
(***************************************************************************)
(* What a pass of the faucet may expect of the stream it ranges over: the  *)
(* rows of the page come one by one, none twice, and they all come unless  *)
(* something went wrong.  Faucet.tla uses its `page` in this way.          *)
(*                                                                         *)
(* page   the rows that have not come yet                                  *)
(* ended  has the pass returned?                                           *)
(* upset  has a call failed, or the time of the pass run out?              *)
(***************************************************************************)
EXTENDS Naturals

CONSTANT PageLimit

VARIABLES page, ended, upset

cursor == <<page, ended, upset>>

CursorInit ==
  /\ page \in {1..n : n \in 0..PageLimit}
  /\ ended = FALSE /\ upset = FALSE

Take(i) == page' = page \ {i} /\ UNCHANGED <<ended, upset>>

Upset == upset' = TRUE /\ UNCHANGED <<page, ended>>

End ==
  /\ page = {} \/ upset
  /\ page' = {} /\ ended' = TRUE
  /\ UNCHANGED upset

CursorNext == ~ended /\ (Upset \/ End \/ \E i \in page : Take(i))

CursorSpec == CursorInit /\ [][CursorNext]_cursor
=============================================================================
