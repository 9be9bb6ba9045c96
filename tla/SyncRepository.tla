--------------------------- MODULE SyncRepository ---------------------------
(***************************************************************************)
(* The statements of internal/repository/dbsync.go: the one row of the     *)
(* `height` table, which says up to which block the bridge events are      *)
(* recorded, and the insertions into `deposits` that go with it.           *)
(***************************************************************************)
EXTENDS DataModel, Integers

CONSTANT Unstorable
  \* the events whose uint256 amount does not fit decimal(64,0)

ASSUME UnstorableAssumption == Unstorable \subseteq Event

VARIABLES
  deposits,   \* the rows of `deposits`
  number      \* the row of `height`, NoRow before the very first start

NoRow == -1

(* Variant with a bug: the row is written at every start.                   *)
InitHeightAlways == number' = 0

(* InitHeight: the first start inserts block 0 and begins with it; every    *)
(* later one begins with the block after the recorded one.                 *)
InitHeight == number' = IF number = NoRow THEN 0 ELSE number

(* Variants with a bug: the recorded block is copied again.                 *)
HeightToStartWithRecorded == number

HeightToStartWithRecordedOrZero == IF number = NoRow THEN 0 ELSE number

HeightToStartWith == number + 1

(* The INSERT of a row fails when its amount is out of range.               *)
Storable(rows) == \A i \in DOMAIN rows : rows[i].event \notin Unstorable

(* Variant with a bug: a deposit that is there already is overwritten.      *)
SaveSyncedDataReplacing(rows, tail) ==
  /\ Storable(rows)
  /\ LET Again(i) == {j \in DOMAIN rows : rows[j].event = deposits[i].event}
     IN  deposits' = [i \in DOMAIN deposits |->
                        IF Again(i) = {} THEN deposits[i]
                        ELSE rows[CHOOSE j \in Again(i) : TRUE]]
                     \o rows
  /\ number' = tail

(* SaveSyncedData: the rows and the new height, in one transaction.         *)
SaveSyncedData(rows, tail) ==
  /\ Storable(rows)
  /\ deposits' = deposits \o rows
  /\ number' = tail
=============================================================================
