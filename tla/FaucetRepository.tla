-------------------------- MODULE FaucetRepository --------------------------
(***************************************************************************)
(* The two tables the faucet works on and the statements of                *)
(* internal/repository/faucet.go that read and write them.                 *)
(*                                                                         *)
(* deposits  the `deposits` table: row i is the i-th inserted deposit      *)
(*           (its AUTO_INCREMENT id), the bridge event it records and its  *)
(*           status                                                        *)
(* drips     the `drips` table: one record per row, with the columns the   *)
(*           faucet reads back (the primary key pid, the recipient) and    *)
(*           the nonce that is signed into the rawtx column                *)
(*                                                                         *)
(* Each statement or transaction is one atomic, durable step of InnoDB.    *)
(* Whether its caller learns that it took effect is the caller's matter.   *)
(***************************************************************************)
EXTENDS DataModel, FiniteSets

CONSTANTS
  Addr,        \* accounts on the L2 chain
  To,          \* To[e]: the account event e deposits to
  PageLimit    \* the LIMIT of the two streaming queries, 20 in the code

ASSUME ToAssumption == To \in [Event -> Addr]
ASSUME PageLimitAssumption == PageLimit \in Nat \ {0}

VARIABLES deposits, drips

Drip == [pid : Nat \ {0}, to : Addr, nonce : Nat]

Recipient(i) == To[deposits[i].event]

RowsWith(s) == {i \in DOMAIN deposits : deposits[i].status = s}

(* What `LIMIT n` without ORDER BY may return: any n of the matching rows,  *)
(* all of them when there are no more than n.                              *)
Page(rows) ==
  {p \in SUBSET rows :
     Cardinality(p) = IF Cardinality(rows) < PageLimit
                      THEN Cardinality(rows) ELSE PageLimit}

GetDepositTxStream(s) == Page(RowsWith(s))

(* Variant with a bug: only confirmed drips are counted.                    *)
HasGotDripConfirmedOnly(a) ==
  \A t \in drips : deposits[t.pid].status = "done" => t.to # a

(* The name is the code's: the result is TRUE when the address has NOT got  *)
(* a drip (`count == 0`).                                                  *)
HasGotDrip(a) == \A t \in drips : t.to # a

GetPendingDripsStream ==
  Page({i \in RowsWith("processing") : \E t \in drips : t.pid = i})

SetStatus(i, s) == deposits' = [deposits EXCEPT ![i].status = s]

(* Variants with a bug: one of the two statements of the transaction is     *)
(* missing.                                                                 *)
NewDripUninserted(i, t) ==
  /\ t.pid = i /\ UNCHANGED drips
  /\ SetStatus(i, "processing")

NewDripUnmarked(i, t) ==
  /\ t.pid = i /\ drips' = drips \cup {t}
  /\ UNCHANGED deposits

(* NewDrip with a drip: insert it (pid is the primary key) and mark the     *)
(* deposit as processing, in one transaction.                              *)
NewDrip(i, t) ==
  /\ t.pid = i
  /\ \A u \in drips : u.pid # t.pid
  /\ drips' = drips \cup {t}
  /\ SetStatus(i, "processing")

(* Variant with a bug: a refused deposit is not marked.                     *)
NewDripNilForgotten(i) == i \in DOMAIN deposits /\ UNCHANGED <<deposits, drips>>

(* Variant with a bug: a refused deposit is deleted.                        *)
NewDripNilDeleting(i) ==
  /\ deposits' = SubSeq(deposits, 1, i - 1)
                   \o SubSeq(deposits, i + 1, Len(deposits))
  /\ UNCHANGED drips

(* NewDrip with a nil drip: the deposit is only marked as ignored.          *)
NewDripNil(i) ==
  /\ SetStatus(i, "ignore")
  /\ UNCHANGED drips

(* The update succeeds when exactly one row is affected, which in MySQL     *)
(* means changed.                                                          *)
UpdateDripStatus(i, s) ==
  /\ deposits[i].status # s
  /\ SetStatus(i, s)
  /\ UNCHANGED drips
=============================================================================
