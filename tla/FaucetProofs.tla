---------------------------- MODULE FaucetProofs ----------------------------
(***************************************************************************)
(* Theorems about the faucet: what MCFaucet.tla shows of small instances   *)
(* holds for every set of events, accounts and prices, every page limit,   *)
(* and any number of rows and faults.                                      *)
(***************************************************************************)
EXTENDS Faucet, TLAPS

ItemCalls == {"judge", "probe", "make", "save", "refuse", "submit",
              "receipt", "resend", "confirm"}
TxCalls == {"save", "submit", "receipt", "resend", "confirm"}

(* TypeOK is inductive once it is known when item and tx hold a value.      *)
TypeInv ==
  /\ TypeOK
  /\ pc \in ItemCalls => item \in DOMAIN deposits
  /\ pc \in TxCalls => tx \in Drip /\ tx.pid = item

-----------------------------------------------------------------------------
(* The two ways the deposits table changes.                                 *)

LEMMA SetStatusRows ==
  ASSUME NEW d \in Seq(Row), NEW i \in DOMAIN d, NEW s \in DepositStatus,
         NEW e, e = [d EXCEPT ![i].status = s]
  PROVE  /\ e \in Seq(Row)
         /\ DOMAIN e = DOMAIN d
         /\ \A j \in DOMAIN d : e[j].event = d[j].event
         /\ \A j \in DOMAIN d \ {i} : e[j].status = d[j].status
         /\ e[i].status = s
<1>1. d[i] \in Row  OBVIOUS
<1>2. [d[i] EXCEPT !.status = s] \in Row  BY <1>1 DEF Row
<1>3. e \in Seq(Row)  BY <1>2
<1>4. QED  BY <1>1, <1>3 DEF Row

LEMMA AppendRows ==
  ASSUME NEW d \in Seq(Row), NEW rows \in Seq(NewRow), NEW e, e = d \o rows
  PROVE  /\ e \in Seq(Row)
         /\ DOMAIN e = DOMAIN d \cup (Len(d) + 1 .. Len(d) + Len(rows))
         /\ \A j \in DOMAIN d : e[j] = d[j]
         /\ \A j \in DOMAIN e \ DOMAIN d : e[j] \in NewRow
<1>1. NewRow \subseteq Row
  BY DEF NewRow, Row, DepositStatus
<1>2. rows \in Seq(Row)
  BY <1>1
<1>3. \A j \in DOMAIN e \ DOMAIN d : e[j] = rows[j - Len(d)] /\ j - Len(d) \in DOMAIN rows
  BY <1>2
<1>4. QED
  BY <1>2, <1>3

LEMMA SyncedRows ==
  ASSUME TypeOK, Synced
  PROVE  \E rows \in Seq(NewRow) : rows # <<>> /\ DepositsSynced(rows)
<1> PICK n \in 1..(MaxRows - Len(deposits)) :
      \E rows \in [1..n -> NewRow] : DepositsSynced(rows)
  BY DEF Synced
<1>1. PICK rows \in [1..n -> NewRow] : DepositsSynced(rows)
  OBVIOUS
<1>2. n \in Nat \ {0}
  BY BoundsAssumption DEF TypeOK
<1>3. rows \in Seq(NewRow) /\ Len(rows) = n
  BY <1>2
<1>4. QED
  BY <1>1, <1>2, <1>3

LEMMA RecipientType ==
  ASSUME deposits \in Seq(Row), NEW i \in DOMAIN deposits
  PROVE  Recipient(i) \in Addr
<1>1. deposits[i] \in Row  OBVIOUS
<1>2. deposits[i].event \in Event  BY <1>1 DEF Row
<1>3. QED  BY <1>2, ToAssumption DEF Recipient

(* Leaving a pass, or an item, resets the local variables.                  *)
LEMMA ResetTypes ==
  /\ probe' = 1 => (probe \in 1..Len(Probes))'
  /\ freshAtStart' = FALSE => (freshAtStart \in BOOLEAN)'
  /\ nonceBehind' = TRUE => (nonceBehind \in BOOLEAN)'
<1>1. probe' = 1 => (probe \in 1..Len(Probes))'
  BY DEF Probes
<1>2. /\ freshAtStart' = FALSE => (freshAtStart \in BOOLEAN)'
      /\ nonceBehind' = TRUE => (nonceBehind \in BOOLEAN)'
  OBVIOUS
<1>3. QED  BY <1>1, <1>2

(* Each step keeps the types: in particular no call of tryToSendDrip or     *)
(* tryToCheckDrip runs with a row or a transaction that is not there.       *)
THEOREM TypeInvInductive == TypeInv /\ [Next]_vars => TypeInv'
<1> SUFFICES ASSUME TypeInv, [Next]_vars PROVE TypeInv'
  OBVIOUS
<1> USE DEF TypeInv, TypeOK, ItemCalls, TxCalls, PC, SendCalls, CheckCalls,
            Goto, dbVars, nodeVars, localVars, historyVars, NoItem
<1>1. CASE Initial
  BY <1>1 DEF Initial, NonceAtLatest
<1>2. CASE InitialFails
  BY <1>2 DEF InitialFails, Fault
<1>3. CASE Crash
  BY <1>3, ResetTypes DEF Crash, Fault
<1>4. CASE Restart
  BY <1>4 DEF Restart
<1>5. CASE StartSending
  BY <1>5 DEF StartSending, GetDepositTxStream, Page, RowsWith
<1>6. CASE \E i \in DOMAIN deposits : TakeDeposit(i)
  BY <1>6 DEF TakeDeposit, Node!Fresh
<1>7. CASE EndSending \/ SendingFails
  BY <1>7, ResetTypes DEF EndSending, SendingFails, CannotBeJudged, LeaveTo, Fault
<1>8. CASE JudgePasses \/ JudgeRefuses
  BY <1>8 DEF JudgePasses, JudgeRefuses
<1>9. CASE ProbePasses \/ ProbeRefuses
  BY <1>9 DEF ProbePasses, ProbeRefuses, Probes
<1>10. CASE MakeDripTx
  BY <1>10, RecipientType DEF MakeDripTx, DripTx, Drip
<1>11. CASE SaveDrip
  <2>1. /\ deposits' \in Seq(Row) /\ DOMAIN deposits' = DOMAIN deposits
    BY <1>11, SetStatusRows DEF SaveDrip, NewDrip, SetStatus, DepositStatus
  <2>2. QED
    BY <1>11, <2>1 DEF SaveDrip, NewDrip
<1>12. CASE SaveDripUnacknowledged
  <2>1. /\ deposits' \in Seq(Row) /\ DOMAIN deposits' = DOMAIN deposits
    BY <1>12, SetStatusRows
    DEF SaveDripUnacknowledged, NewDrip, SetStatus, DepositStatus
  <2>2. QED
    BY <1>12, <2>1, ResetTypes
    DEF SaveDripUnacknowledged, NewDrip, LeaveTo, Fault
<1>13. CASE IgnoreDeposit \/ IgnoreDepositUnacknowledged
  <2>1. /\ deposits' \in Seq(Row) /\ DOMAIN deposits' = DOMAIN deposits
    BY <1>13, SetStatusRows
    DEF IgnoreDeposit, IgnoreDepositUnacknowledged, NewDripNil, SetStatus,
        DepositStatus
  <2>2. QED
    BY <1>13, <2>1, ResetTypes
    DEF IgnoreDeposit, IgnoreDepositUnacknowledged, NewDripNil, NextItem,
        LeaveTo, Fault
<1>14. CASE SubmitDrip \/ SubmitDripFails
  BY <1>14, ResetTypes
  DEF SubmitDrip, SubmitDripFails, Node!Accept, NextItem, LeaveTo, Fault
<1>15. CASE StartChecking
  BY <1>15 DEF StartChecking, GetPendingDripsStream, Page, RowsWith
<1>16. CASE \E t \in drips : TakeDrip(t)
  BY <1>16 DEF TakeDrip
<1>17. CASE EndChecking \/ CheckingFails
  BY <1>17, ResetTypes DEF EndChecking, CheckingFails, LeaveTo, Fault
<1>18. CASE GetTxStatus
  BY <1>18 DEF GetTxStatus
<1>19. CASE ResendDrip
  BY <1>19, ResetTypes DEF ResendDrip, Node!Accept, NextItem, Fault
<1>20. CASE ConfirmDrip \/ ConfirmDripUnacknowledged
  <2>1. /\ deposits' \in Seq(Row) /\ DOMAIN deposits' = DOMAIN deposits
    BY <1>20, SetStatusRows
    DEF ConfirmDrip, ConfirmDripUnacknowledged, UpdateDripStatus, SetStatus,
        DepositStatus
  <2>2. QED
    BY <1>20, <2>1, ResetTypes
    DEF ConfirmDrip, ConfirmDripUnacknowledged, UpdateDripStatus, NextItem,
        LeaveTo, Fault
<1>21. CASE Synced
  <2> PICK rows \in Seq(NewRow) : DepositsSynced(rows)
    BY <1>21, SyncedRows
  <2>1. deposits \in Seq(Row) /\ deposits' = deposits \o rows
    BY DEF DepositsSynced
  <2>2. /\ deposits' \in Seq(Row)
        /\ DOMAIN deposits' = DOMAIN deposits
             \cup (Len(deposits) + 1 .. Len(deposits) + Len(rows))
    BY ONLY <2>1, AppendRows, rows \in Seq(NewRow)
  <2>3. DOMAIN deposits \subseteq DOMAIN deposits'
    BY ONLY <2>2
  <2>4. QED
    BY <2>2, <2>3 DEF DepositsSynced
<1>22. CASE \E t \in pool : EvictDrip(t)
  BY <1>22 DEF EvictDrip, Node!Evict, Fault
<1>23. CASE \E a \in Active : AccountActivity(a)
  BY <1>23
  DEF AccountActivity, Node!OutsideActivity, Node!ReceiveFunds,
      Node!SpendFunds, Node!DeployCode, Node!Marks
<1>24. CASE MineNext
  BY <1>24 DEF MineNext, MineDrip, Node!Mine, Node!Marks, Drip
<1>25. CASE UNCHANGED vars
  BY <1>25 DEF vars
<1>26. QED
  BY <1>1, <1>2, <1>3, <1>4, <1>5, <1>6, <1>7, <1>8, <1>9, <1>10, <1>11, <1>12,
     <1>13, <1>14, <1>15, <1>16, <1>17, <1>18, <1>19, <1>20, <1>21, <1>22,
     <1>23, <1>24, <1>25
  DEF Next, Process, SendingPass, CheckingPass, Environment, NodeActivity

LEMMA TypeInvInitially == Init => TypeInv
<1> SUFFICES ASSUME Init PROVE TypeInv
  OBVIOUS
<1>1. probe \in 1..Len(Probes)
  BY DEF Init, Probes
<1>2. freshAtStart \in BOOLEAN /\ nonceBehind \in BOOLEAN
  BY DEF Init
<1>3. QED
  BY <1>1, <1>2
  DEF Init, TypeInv, TypeOK, ItemCalls, TxCalls, PC, Node!NodeInit, NoItem

(* Every variable always holds a value of its type.                         *)
THEOREM TypeCorrect == Spec => []TypeOK
<1>1. TypeInv => TypeOK  BY DEF TypeInv
<1>2. QED  BY <1>1, TypeInvInitially, TypeInvInductive, PTL DEF Spec

-----------------------------------------------------------------------------
(* The tables.  The faucet is the only writer of status and of drips, so    *)
(* what it has read of them stays true until it writes itself.              *)

PidsAreRows == \A t \in drips : t.pid \in DOMAIN deposits

(* The rows of a sending pass are still unprocessed.                        *)
PageUnprocessed ==
  pc \in {"send", "judge", "probe", "make", "save", "refuse", "submit"} =>
    \A i \in page : deposits[i].status = "unprocessed"

ItemUnprocessed ==
  pc \in {"judge", "probe", "make", "save", "refuse"} =>
    deposits[item].status = "unprocessed" /\ item \notin page

(* What HasGotDrip answered holds until NewDrip.                            *)
ItemHasNoDrip ==
  pc \in {"probe", "make", "save"} => HasGotDrip(Recipient(item))

TxInHand ==
  /\ pc = "save" => tx.to = Recipient(item)
  /\ pc \in {"submit", "receipt", "resend", "confirm"} => tx \in drips

TableInv ==
  /\ StatusMatchesDrips /\ OneDripPerAddress /\ WriteAhead
  /\ PidsAreRows /\ PageUnprocessed /\ ItemUnprocessed
  /\ ItemHasNoDrip /\ TxInHand

(* NewDrip with a drip: the item becomes processing and gets its one drip.  *)
LEMMA NewDripTables ==
  ASSUME TypeInv, TableInv, pc = "save", NewDrip(item, tx),
         page' \subseteq page, pc' \in {"submit", "settle"},
         pc' = "submit" => UNCHANGED <<item, tx>>, UNCHANGED nodeVars
  PROVE  TableInv'
<1> USE DEF TypeInv, TypeOK, ItemCalls, TxCalls
<1>1. /\ deposits' \in Seq(Row) /\ DOMAIN deposits' = DOMAIN deposits
      /\ \A j \in DOMAIN deposits : deposits'[j].event = deposits[j].event
      /\ \A j \in DOMAIN deposits \ {item} :
           deposits'[j].status = deposits[j].status
      /\ deposits'[item].status = "processing"
  BY SetStatusRows DEF NewDrip, SetStatus, DepositStatus
<1>2. drips' = drips \cup {tx} /\ tx \in Drip /\ tx.pid = item
  BY DEF NewDrip
<1>3. /\ tx.to = Recipient(item) /\ item \notin page
      /\ \A t \in drips : t.to # Recipient(item) /\ t.pid # item
  BY DEF TableInv, TxInHand, ItemUnprocessed, ItemHasNoDrip, HasGotDrip, NewDrip
<1>4. StatusMatchesDrips'
  BY <1>1, <1>2 DEF TableInv, StatusMatchesDrips
<1>5. OneDripPerAddress'
  BY <1>2, <1>3 DEF TableInv, OneDripPerAddress
<1>6. WriteAhead'
  BY <1>2 DEF TableInv, WriteAhead, nodeVars
<1>7. PidsAreRows'
  BY <1>1, <1>2 DEF TableInv, PidsAreRows
<1>8. PageUnprocessed'
  BY <1>1, <1>3 DEF TableInv, PageUnprocessed
<1>9. TxInHand'
  BY <1>2 DEF TxInHand
<1>10. QED
  BY <1>4, <1>5, <1>6, <1>7, <1>8, <1>9
  DEF TableInv, ItemUnprocessed, ItemHasNoDrip

(* NewDrip with a nil drip: the item is ignored and has no drip.            *)
LEMMA NewDripNilTables ==
  ASSUME TypeInv, TableInv, pc = "refuse", NewDripNil(item),
         page' \subseteq page, pc' \in {"send", "settle"}, UNCHANGED nodeVars
  PROVE  TableInv'
<1> USE DEF TypeInv, TypeOK, ItemCalls, TxCalls
<1>1. /\ DOMAIN deposits' = DOMAIN deposits
      /\ \A j \in DOMAIN deposits \ {item} :
           deposits'[j].status = deposits[j].status
      /\ deposits'[item].status = "ignore"
  BY SetStatusRows DEF NewDripNil, SetStatus, DepositStatus
<1>2. drips' = drips
  BY DEF NewDripNil
<1>3. item \notin page /\ \A t \in drips : t.pid # item
  BY DEF TableInv, ItemUnprocessed, StatusMatchesDrips
<1>4. StatusMatchesDrips'
  BY <1>1, <1>2, <1>3 DEF TableInv, StatusMatchesDrips
<1>5. OneDripPerAddress' /\ WriteAhead' /\ PidsAreRows'
  BY <1>1, <1>2
  DEF TableInv, OneDripPerAddress, WriteAhead, PidsAreRows, nodeVars
<1>6. PageUnprocessed'
  BY <1>1, <1>3 DEF TableInv, PageUnprocessed
<1>7. QED
  BY <1>4, <1>5, <1>6
  DEF TableInv, ItemUnprocessed, ItemHasNoDrip, TxInHand

(* UpdateDripStatus: the item has a drip and stays with one.                *)
LEMMA UpdateDripStatusTables ==
  ASSUME TypeInv, TableInv, pc = "confirm", UpdateDripStatus(item, "done"),
         pc' \in {"check", "idle"}, UNCHANGED nodeVars
  PROVE  TableInv'
<1> USE DEF TypeInv, TypeOK, ItemCalls, TxCalls
<1>1. /\ DOMAIN deposits' = DOMAIN deposits
      /\ \A j \in DOMAIN deposits \ {item} :
           deposits'[j].status = deposits[j].status
      /\ deposits'[item].status = "done"
  BY SetStatusRows DEF UpdateDripStatus, SetStatus, DepositStatus
<1>2. drips' = drips
  BY DEF UpdateDripStatus
<1>3. tx \in drips /\ tx.pid = item
  BY DEF TableInv, TxInHand
<1>4. StatusMatchesDrips'
  BY <1>1, <1>2, <1>3 DEF TableInv, StatusMatchesDrips
<1>5. OneDripPerAddress' /\ WriteAhead' /\ PidsAreRows'
  BY <1>1, <1>2
  DEF TableInv, OneDripPerAddress, WriteAhead, PidsAreRows, nodeVars
<1>6. QED
  BY <1>4, <1>5
  DEF TableInv, PageUnprocessed, ItemUnprocessed, ItemHasNoDrip, TxInHand

(* The syncer inserts behind the faucet's back, but touches no old row.     *)
LEMMA InsertTables ==
  ASSUME TypeInv, TableInv, NEW rows \in Seq(NewRow), DepositsSynced(rows)
  PROVE  TableInv'
<1> USE DEF TypeInv, TypeOK, ItemCalls, TxCalls
<1>1. /\ DOMAIN deposits \subseteq DOMAIN deposits'
      /\ \A j \in DOMAIN deposits : deposits'[j] = deposits[j]
      /\ \A j \in DOMAIN deposits' \ DOMAIN deposits :
           deposits'[j].status \in {"unprocessed", "ignore"}
  <2>1. /\ DOMAIN deposits \subseteq DOMAIN deposits'
        /\ \A j \in DOMAIN deposits : deposits'[j] = deposits[j]
        /\ \A j \in DOMAIN deposits' \ DOMAIN deposits : deposits'[j] \in NewRow
    BY AppendRows DEF DepositsSynced
  <2>2. QED
    BY <2>1 DEF NewRow
<1>2. UNCHANGED <<drips, nodeVars, pc, page, item, tx>>
  BY DEF DepositsSynced, localVars
<1>3. StatusMatchesDrips'
  BY <1>1, <1>2 DEF TableInv, StatusMatchesDrips, PidsAreRows
<1>4. OneDripPerAddress' /\ WriteAhead' /\ PidsAreRows'
  BY <1>1, <1>2
  DEF TableInv, OneDripPerAddress, WriteAhead, PidsAreRows, nodeVars
<1>5. PageUnprocessed' /\ ItemUnprocessed'
  BY <1>1, <1>2 DEF TableInv, PageUnprocessed, ItemUnprocessed
<1>6. ItemHasNoDrip' /\ TxInHand'
  BY <1>1, <1>2 DEF TableInv, ItemHasNoDrip, TxInHand, HasGotDrip, Recipient
<1>7. QED
  BY <1>3, <1>4, <1>5, <1>6 DEF TableInv

(* Between two writes to the tables the faucet only looks and remembers.    *)
THEOREM TableInvInductive == TypeInv /\ TableInv /\ [Next]_vars => TableInv'
<1> SUFFICES ASSUME TypeInv, TableInv, [Next]_vars PROVE TableInv'
  OBVIOUS
<1>1. CASE SaveDrip
  BY <1>1, NewDripTables DEF SaveDrip, Goto
<1>2. CASE SaveDripUnacknowledged
  BY <1>2, NewDripTables DEF SaveDripUnacknowledged, LeaveTo, Goto
<1>3. CASE IgnoreDeposit \/ IgnoreDepositUnacknowledged
  BY <1>3, NewDripNilTables
  DEF IgnoreDeposit, IgnoreDepositUnacknowledged, NextItem, LeaveTo, Goto
<1>4. CASE ConfirmDrip \/ ConfirmDripUnacknowledged
  BY <1>4, UpdateDripStatusTables
  DEF ConfirmDrip, ConfirmDripUnacknowledged, NextItem, LeaveTo, Goto
<1>5. CASE Synced
  BY <1>5, SyncedRows, InsertTables DEF TypeInv
<1> USE DEF TableInv, StatusMatchesDrips, OneDripPerAddress, PidsAreRows,
            PageUnprocessed, ItemUnprocessed, ItemHasNoDrip, TxInHand,
            WriteAhead, HasGotDrip, Recipient,
            Goto, dbVars, nodeVars, localVars, historyVars
<1>6. CASE Initial \/ InitialFails \/ Crash \/ Restart
  BY <1>6 DEF Initial, InitialFails, Crash, Restart
<1>7. CASE StartSending
  BY <1>7 DEF StartSending, GetDepositTxStream, Page, RowsWith
<1>8. CASE \E i \in DOMAIN deposits : TakeDeposit(i)
  BY <1>8 DEF TakeDeposit
<1>9. CASE EndSending \/ SendingFails
  BY <1>9 DEF EndSending, SendingFails, LeaveTo
<1>10. CASE JudgePasses \/ JudgeRefuses
  BY <1>10 DEF JudgePasses, JudgeRefuses
<1>11. CASE ProbePasses \/ ProbeRefuses
  BY <1>11 DEF ProbePasses, ProbeRefuses
<1>12. CASE MakeDripTx
  BY <1>12 DEF MakeDripTx, DripTx
<1>13. CASE SubmitDrip \/ SubmitDripFails
  BY <1>13 DEF SubmitDrip, SubmitDripFails, Node!Accept, NextItem, LeaveTo
<1>14. CASE StartChecking
  BY <1>14 DEF StartChecking
<1>15. CASE \E t \in drips : TakeDrip(t)
  BY <1>15 DEF TakeDrip
<1>16. CASE EndChecking \/ CheckingFails
  BY <1>16 DEF EndChecking, CheckingFails, LeaveTo
<1>17. CASE GetTxStatus
  BY <1>17 DEF GetTxStatus
<1>18. CASE ResendDrip
  BY <1>18 DEF ResendDrip, Node!Accept, NextItem
<1>19. CASE \E t \in pool : EvictDrip(t)
  BY <1>19 DEF EvictDrip, Node!Evict
<1>20. CASE \E a \in Active : AccountActivity(a)
  BY <1>20 DEF AccountActivity, Node!OutsideActivity
<1>21. CASE MineNext
  BY <1>21 DEF MineNext, MineDrip, Node!Mine
<1>22. CASE UNCHANGED vars
  BY <1>22 DEF vars
<1>23. QED
  BY <1>1, <1>2, <1>3, <1>4, <1>5, <1>6, <1>7, <1>8, <1>9, <1>10, <1>11, <1>12,
     <1>13, <1>14, <1>15, <1>16, <1>17, <1>18, <1>19, <1>20, <1>21, <1>22
  DEF Next, Process, SendingPass, CheckingPass, Environment, NodeActivity

LEMMA TableInvInitially == Init => TableInv
BY DEF Init, TableInv, StatusMatchesDrips, OneDripPerAddress, PidsAreRows,
       PageUnprocessed, ItemUnprocessed, ItemHasNoDrip, TxInHand, WriteAhead,
       Node!NodeInit

THEOREM TablesInvariant == Spec => [](TypeInv /\ TableInv)
BY TypeInvInitially, TypeInvInductive, TableInvInitially, TableInvInductive,
   PTL DEF Spec

(* No address is granted two drips and no deposit carries two, whatever     *)
(* fails and however often the process is restarted (HasGotDrip, NewDrip).  *)
THEOREM OneDrip == Spec => []OneDripPerAddress
<1>1. TableInv => OneDripPerAddress  BY DEF TableInv
<1>2. QED  BY <1>1, TablesInvariant, PTL

(* A deposit is processing or done exactly when it has a drip (NewDrip,     *)
(* UpdateDripStatus).                                                       *)
THEOREM StatusTellsDrips == Spec => []StatusMatchesDrips
<1>1. TableInv => StatusMatchesDrips  BY DEF TableInv
<1>2. QED  BY <1>1, TablesInvariant, PTL

(* The node never knows a transaction the drips table does not have         *)
(* (tryToSendDrip, tryToCheckDrip).                                         *)
THEOREM WrittenAhead == Spec => []WriteAhead
<1>1. TableInv => WriteAhead  BY DEF TableInv
<1>2. QED  BY <1>1, TablesInvariant, PTL

-----------------------------------------------------------------------------
(* Where the money of a drip goes.                                          *)

(* A drip, and the transaction signed for it, pays the account its deposit  *)
(* was made to.                                                             *)
PaysDepositor == \A t \in drips : t.to = Recipient(t.pid)

(* Rows are never deleted and none is given another event.                  *)
LEMMA RowsKeepEvents ==
  ASSUME TypeInv, [Next]_vars
  PROVE  /\ DOMAIN deposits \subseteq DOMAIN deposits'
         /\ \A i \in DOMAIN deposits : deposits'[i].event = deposits[i].event
<1> USE DEF TypeInv, TypeOK, ItemCalls, TxCalls
<1>1. CASE SaveDrip \/ SaveDripUnacknowledged
  BY <1>1, SetStatusRows
  DEF SaveDrip, SaveDripUnacknowledged, NewDrip, SetStatus, DepositStatus
<1>2. CASE IgnoreDeposit \/ IgnoreDepositUnacknowledged
  BY <1>2, SetStatusRows
  DEF IgnoreDeposit, IgnoreDepositUnacknowledged, NewDripNil, SetStatus, DepositStatus
<1>3. CASE ConfirmDrip \/ ConfirmDripUnacknowledged
  BY <1>3, SetStatusRows
  DEF ConfirmDrip, ConfirmDripUnacknowledged, UpdateDripStatus, SetStatus, DepositStatus
<1>4. CASE Synced
  <2> PICK rows \in Seq(NewRow) : DepositsSynced(rows)
    BY <1>4, SyncedRows
  <2>1. deposits \in Seq(Row) /\ deposits' = deposits \o rows
    BY DEF DepositsSynced
  <2>2. QED
    BY ONLY <2>1, AppendRows, rows \in Seq(NewRow)
<1>5. CASE UNCHANGED deposits
  BY <1>5
<1>6. CASE \/ Initial \/ InitialFails \/ Crash \/ Restart \/ MineNext
           \/ \E t \in pool : EvictDrip(t)
           \/ \E a \in Active : AccountActivity(a)
           \/ UNCHANGED vars
  BY <1>5, <1>6 DEF Initial, InitialFails, Crash, Restart, MineNext, MineDrip,
    EvictDrip, AccountActivity, vars, dbVars
<1>7. CASE \/ StartSending \/ EndSending \/ SendingFails
           \/ \E i \in DOMAIN deposits : TakeDeposit(i)
           \/ JudgePasses \/ JudgeRefuses \/ ProbePasses \/ ProbeRefuses
           \/ MakeDripTx \/ SubmitDrip \/ SubmitDripFails
  BY <1>5, <1>7 DEF StartSending, EndSending, SendingFails, TakeDeposit,
    JudgePasses, JudgeRefuses, ProbePasses, ProbeRefuses, MakeDripTx,
    SubmitDrip, SubmitDripFails, dbVars
<1>8. CASE \/ StartChecking \/ EndChecking \/ CheckingFails
           \/ \E t \in drips : TakeDrip(t)
           \/ GetTxStatus \/ ResendDrip
  BY <1>5, <1>8 DEF StartChecking, EndChecking, CheckingFails, TakeDrip,
    GetTxStatus, ResendDrip, dbVars
<1>9. QED
  BY <1>1, <1>2, <1>3, <1>4, <1>6, <1>7, <1>8
  DEF Next, Process, SendingPass, CheckingPass, Environment, NodeActivity

(* The only drip a step adds is the one in hand.                            *)
LEMMA OnlyNewDripAdds ==
  ASSUME [Next]_vars
  PROVE  \A t \in drips' : t \in drips \/ (pc = "save" /\ t = tx /\ t.pid = item)
<1> USE DEF dbVars
<1>1. CASE SaveDrip \/ SaveDripUnacknowledged
  BY <1>1 DEF SaveDrip, SaveDripUnacknowledged, NewDrip
<1>2. CASE \/ Initial \/ InitialFails \/ Crash \/ Restart \/ MineNext
           \/ Synced \/ \E t \in pool : EvictDrip(t)
           \/ \E a \in Active : AccountActivity(a)
           \/ UNCHANGED vars
  BY <1>2 DEF Initial, InitialFails, Crash, Restart, MineNext, MineDrip,
    EvictDrip, AccountActivity, Synced, DepositsSynced, vars
<1>3. CASE SendingPass /\ ~SaveDrip /\ ~SaveDripUnacknowledged
  BY <1>3 DEF SendingPass, StartSending, EndSending, SendingFails, TakeDeposit,
    JudgePasses, JudgeRefuses, ProbePasses, ProbeRefuses, MakeDripTx,
    IgnoreDeposit, IgnoreDepositUnacknowledged, NewDripNil,
    SubmitDrip, SubmitDripFails
<1>4. CASE CheckingPass
  BY <1>4 DEF CheckingPass, StartChecking, EndChecking, CheckingFails, TakeDrip,
    GetTxStatus, ResendDrip, ConfirmDrip, ConfirmDripUnacknowledged,
    UpdateDripStatus
<1>5. QED
  BY <1>1, <1>2, <1>3, <1>4 DEF Next, Process, Environment, NodeActivity

LEMMA PaysDepositorInductive ==
  TypeInv /\ TableInv /\ PaysDepositor /\ [Next]_vars => PaysDepositor'
<1> SUFFICES ASSUME TypeInv, TableInv, PaysDepositor, [Next]_vars,
                    NEW t \in drips'
             PROVE  t.to = Recipient(t.pid)'
  BY DEF PaysDepositor
<1>1. t.pid \in DOMAIN deposits /\ t.to = Recipient(t.pid)
  <2>1. CASE t \in drips
    BY <2>1 DEF PaysDepositor, TableInv, PidsAreRows
  <2>2. CASE t \notin drips
    <3>1. pc = "save" /\ t = tx /\ t.pid = item
      BY <2>2, OnlyNewDripAdds
    <3>2. QED
      BY <3>1 DEF TypeInv, ItemCalls, TableInv, TxInHand
  <2>3. QED
    BY <2>1, <2>2
<1>2. Recipient(t.pid)' = Recipient(t.pid)
  BY <1>1, RowsKeepEvents DEF Recipient
<1>3. QED
  BY <1>1, <1>2

(* Every row of drips pays the account of its own deposit, whatever became  *)
(* of the deposit since (makeDripTx, NewDrip).                              *)
THEOREM DepositorIsPaid == Spec => []PaysDepositor
<1>1. Init => PaysDepositor
  BY DEF Init, PaysDepositor
<1>2. QED
  BY <1>1, PaysDepositorInductive, TablesInvariant, PTL DEF Spec

-----------------------------------------------------------------------------
(***************************************************************************)
(* Theorems about the nonces of the drips.                                 *)
(***************************************************************************)

(* Every nonce below the counter, and every nonce the wallet has used up,   *)
(* is that of a drip.                                                       *)
CounterCovered == \A n \in Nat : n < nonce => \E t \in drips : t.nonce = n

WalletCovered ==
  /\ \A n \in Nat : n < walletNonce => \E t \in mined : t.nonce = n
  /\ \A t \in mined : t.nonce < walletNonce

TxTakesCounter == pc = "save" => tx.nonce = nonce

(* While the counter has not fallen behind, it is above every drip's nonce. *)
CounterAhead ==
  ~nonceBehind /\ pc \notin {"down", "initial"} =>
    \A t \in drips : t.nonce < nonce

NoncesUnique ==
  ~nonceBehind => \A t, u \in drips : t.nonce = u.nonce => t = u

NonceInv ==
  /\ NoNonceGap /\ CounterCovered /\ WalletCovered
  /\ TxTakesCounter /\ CounterAhead /\ NoncesUnique

(* NewDrip adds one nonce, the counter's.                                   *)
LEMMA NewDripNonces ==
  ASSUME TypeInv, NonceInv, pc = "save", NewDrip(item, tx),
         UNCHANGED nodeVars, pc' \in {"submit", "settle"},
         \/ nonce' = nonce + 1 /\ UNCHANGED nonceBehind
         \/ nonce' = nonce /\ nonceBehind' = TRUE
  PROVE  NonceInv'
<1> USE DEF TypeInv, TypeOK, TxCalls, Drip
<1>1. /\ drips' = drips \cup {tx} /\ tx \in Drip /\ tx.nonce = nonce
      /\ nonce \in Nat
  BY DEF NewDrip, NonceInv, TxTakesCounter
<1>2. NoNonceGap'
  BY <1>1 DEF NonceInv, NoNonceGap, CounterCovered
<1>3. CounterCovered'
  BY <1>1 DEF NonceInv, CounterCovered
<1>4. WalletCovered'
  BY <1>1 DEF NonceInv, WalletCovered, nodeVars
<1>5. CounterAhead' /\ NoncesUnique'
  BY <1>1 DEF NonceInv, CounterAhead, NoncesUnique
<1>6. QED
  BY <1>2, <1>3, <1>4, <1>5 DEF NonceInv, TxTakesCounter

(* Initial takes the counter from the chain: a drip whose nonce is not      *)
(* below it is exactly what makes it fall behind.                           *)
LEMMA InitialNonces ==
  ASSUME TypeInv, TableInv, NonceInv, Initial
  PROVE  NonceInv'
<1> USE DEF TypeInv, TypeOK, Drip
<1>1. /\ UNCHANGED <<drips, mined, walletNonce>>
      /\ nonce' = walletNonce /\ pc' = "idle"
  BY DEF Initial, NonceAtLatest, Goto, dbVars, nodeVars
<1>2. ~nonceBehind' => ~nonceBehind /\ ~\E t \in drips : t.nonce >= walletNonce
  BY Zenon DEF Initial, NonceAtLatest
<1>3. \A t \in drips : ~(t.nonce >= walletNonce) => t.nonce < walletNonce
  OBVIOUS
<1>4. /\ UNCHANGED <<drips, mined, walletNonce>>
      /\ nonce' = walletNonce /\ pc' = "idle"
      /\ ~nonceBehind' => ~nonceBehind /\ \A t \in drips : t.nonce < walletNonce
  BY <1>1, <1>2, <1>3, Zenon
<1>5. NoNonceGap' /\ WalletCovered' /\ NoncesUnique'
  BY <1>4 DEF NonceInv, NoNonceGap, WalletCovered, NoncesUnique
<1>6. CounterCovered'
  BY <1>4 DEF NonceInv, CounterCovered, WalletCovered, TableInv, WriteAhead
<1>7. QED
  BY <1>4, <1>5, <1>6 DEF NonceInv, CounterAhead, TxTakesCounter

(* The wallet's nonces are used up one by one, by drips.                    *)
LEMMA MineNonces ==
  ASSUME TypeInv, TableInv, NonceInv, MineNext
  PROVE  NonceInv'
<1> USE DEF TypeInv, TypeOK, Drip
<1> PICK t \in pool : MineDrip(t)
  BY DEF MineNext
<1>1. /\ UNCHANGED <<drips, pc, nonce, nonceBehind, tx>>
      /\ mined' = mined \cup {t} /\ walletNonce' = walletNonce + 1
      /\ t.nonce = walletNonce
  BY DEF MineDrip, Node!Mine, dbVars, localVars, historyVars
<1>2. WalletCovered'
  BY <1>1 DEF NonceInv, WalletCovered
<1>3. QED
  BY <1>1, <1>2
  DEF NonceInv, NoNonceGap, CounterCovered, CounterAhead, NoncesUnique,
      TxTakesCounter

(* Only these three steps touch a nonce; a crash forgets the counter.       *)
THEOREM NonceInvInductive ==
  TypeInv /\ TableInv /\ NonceInv /\ [Next]_vars => NonceInv'
<1> SUFFICES ASSUME TypeInv, TableInv, NonceInv, [Next]_vars PROVE NonceInv'
  OBVIOUS
<1>1. CASE Initial
  BY <1>1, InitialNonces
<1>2. CASE SaveDrip
  BY <1>2, NewDripNonces DEF SaveDrip, Goto, historyVars
<1>3. CASE SaveDripUnacknowledged
  BY <1>3, NewDripNonces DEF SaveDripUnacknowledged, LeaveTo, Goto
<1>4. CASE MineNext
  BY <1>4, MineNonces
<1> USE DEF NonceInv, NoNonceGap, CounterCovered, WalletCovered, TxTakesCounter,
            CounterAhead, NoncesUnique,
            Goto, dbVars, nodeVars, localVars, historyVars
<1>5. CASE InitialFails \/ Crash \/ Restart
  BY <1>5 DEF InitialFails, Crash, Restart
<1>6. CASE StartSending \/ EndSending \/ SendingFails
  BY <1>6
  DEF StartSending, EndSending, SendingFails, CannotBeJudged, LeaveTo, SendCalls
<1>7. CASE \E i \in DOMAIN deposits : TakeDeposit(i)
  BY <1>7 DEF TakeDeposit
<1>8. CASE JudgePasses \/ JudgeRefuses \/ ProbePasses \/ ProbeRefuses
  BY <1>8 DEF JudgePasses, JudgeRefuses, ProbePasses, ProbeRefuses
<1>9. CASE MakeDripTx
  BY <1>9 DEF MakeDripTx, DripTx
<1>10. CASE IgnoreDeposit \/ IgnoreDepositUnacknowledged
  BY <1>10
  DEF IgnoreDeposit, IgnoreDepositUnacknowledged, NewDripNil, NextItem, LeaveTo
<1>11. CASE SubmitDrip \/ SubmitDripFails
  BY <1>11 DEF SubmitDrip, SubmitDripFails, Node!Accept, NextItem, LeaveTo
<1>12. CASE StartChecking \/ EndChecking \/ CheckingFails
  BY <1>12 DEF StartChecking, EndChecking, CheckingFails, LeaveTo, CheckCalls
<1>13. CASE \E t \in drips : TakeDrip(t)
  BY <1>13 DEF TakeDrip
<1>14. CASE GetTxStatus \/ ResendDrip
  BY <1>14 DEF GetTxStatus, ResendDrip, Node!Accept, NextItem
<1>15. CASE ConfirmDrip \/ ConfirmDripUnacknowledged
  BY <1>15
  DEF ConfirmDrip, ConfirmDripUnacknowledged, UpdateDripStatus, NextItem,
      LeaveTo
<1>16. CASE Environment
  BY <1>16
  DEF Environment, NodeActivity, Synced, DepositsSynced, EvictDrip, Node!Evict, AccountActivity,
      Node!OutsideActivity
<1>17. CASE UNCHANGED vars
  BY <1>17 DEF vars
<1>18. QED
  BY <1>1, <1>2, <1>3, <1>4, <1>5, <1>6, <1>7, <1>8, <1>9, <1>10, <1>11, <1>12,
     <1>13, <1>14, <1>15, <1>16, <1>17
  DEF Next, Process, SendingPass, CheckingPass

LEMMA NonceInvInitially == Init => NonceInv
BY DEF Init, NonceInv, NoNonceGap, CounterCovered, WalletCovered,
       TxTakesCounter, CounterAhead, NoncesUnique, Node!NodeInit

THEOREM NoncesInvariant == Spec => [](TypeInv /\ TableInv /\ NonceInv)
BY TablesInvariant, NonceInvInitially, NonceInvInductive, PTL DEF Spec

(* The drips' nonces leave no gap, after any failure and any restart        *)
(* (Initial, makeDripTx, the increment after NewDrip).                      *)
THEOREM NoGap == Spec => []NoNonceGap
<1>1. NonceInv => NoNonceGap  BY DEF NonceInv
<1>2. QED  BY <1>1, NoncesInvariant, PTL

(* Two drips share a nonce, or one is dead, only after the counter fell     *)
(* behind the table: by a start with unmined drips (Initial) or by a        *)
(* commit that was reported as a failure (NewDrip).                         *)
THEOREM NoncesUniqueOrBehind == Spec => []NoncesUniqueUnlessBehind
<1>1. TypeInv /\ TableInv /\ NonceInv => NoncesUniqueUnlessBehind
  <2> SUFFICES ASSUME TypeInv, TableInv, NonceInv, ~nonceBehind,
                      NEW t \in drips
               PROVE  ~Dead(t) /\ \A u \in drips : t.nonce = u.nonce => t = u
    BY DEF NoncesUniqueUnlessBehind
  <2>1. \A u \in drips : t.nonce = u.nonce => t = u
    BY DEF NonceInv, NoncesUnique
  <2>2. t.nonce \in Nat
    BY DEF TypeInv, TypeOK, Drip
  <2>3. t.nonce < walletNonce => t \in mined
    BY <2>1, <2>2 DEF NonceInv, WalletCovered, TableInv, WriteAhead
  <2>4. QED
    BY <2>1, <2>3 DEF Dead
<1>2. QED  BY <1>1, NoncesInvariant, PTL

-----------------------------------------------------------------------------
(***************************************************************************)
(* Theorems about the accounts the drips go to: what they were when the    *)
(* drip was granted, and that they got it.                                 *)
(***************************************************************************)

ConfirmMined == pc = "confirm" => tx \in mined

DoneMined == \A t \in drips : deposits[t.pid].status = "done" => t \in mined

(* A transfer only reverts when the recipient has code, which stays.        *)
MinedPaid == \A t \in mined : t \in paid \/ "code" \in account[t.to]

PaidInv == ConfirmMined /\ DoneMined /\ MinedPaid

(* CheckDrips closes a deposit only after it has seen the receipt.          *)
LEMMA UpdateDripStatusPaid ==
  ASSUME TypeInv, TableInv, PaidInv, pc = "confirm",
         UpdateDripStatus(item, "done"), pc' \in {"check", "idle"},
         UNCHANGED nodeVars
  PROVE  PaidInv'
<1> USE DEF TypeInv, TypeOK, ItemCalls, TxCalls
<1>1. /\ DOMAIN deposits' = DOMAIN deposits
      /\ \A j \in DOMAIN deposits \ {item} :
           deposits'[j].status = deposits[j].status
  BY SetStatusRows DEF UpdateDripStatus, SetStatus, DepositStatus
<1>2. UNCHANGED <<drips, mined, paid, account>>
  BY DEF UpdateDripStatus, nodeVars
<1>3. \A t \in drips : t.pid = item => t \in mined
  BY DEF TableInv, OneDripPerAddress, TxInHand, PaidInv, ConfirmMined
<1>4. DoneMined'
  BY <1>1, <1>2, <1>3 DEF PaidInv, DoneMined, TableInv, PidsAreRows
<1>5. QED
  BY <1>2, <1>4 DEF PaidInv, ConfirmMined, MinedPaid

(* No other change of the tables makes a deposit done.                      *)
LEMMA OtherRowsPaid ==
  ASSUME TypeInv, TableInv, PaidInv, UNCHANGED nodeVars, pc' # "confirm",
         \/ pc = "save" /\ NewDrip(item, tx)
         \/ pc = "refuse" /\ NewDripNil(item)
  PROVE  PaidInv'
<1> USE DEF TypeInv, TypeOK, ItemCalls, TxCalls
<1>1. /\ DOMAIN deposits' = DOMAIN deposits
      /\ \A j \in DOMAIN deposits \ {item} :
           deposits'[j].status = deposits[j].status
      /\ deposits'[item].status # "done"
  BY SetStatusRows DEF NewDrip, NewDripNil, SetStatus, DepositStatus
<1>2. /\ drips' \subseteq drips \cup {tx}
      /\ tx \in drips' => tx \in drips \/ tx.pid = item
  BY DEF NewDrip, NewDripNil
<1>3. DoneMined'
  BY <1>1, <1>2 DEF PaidInv, DoneMined, TableInv, PidsAreRows, nodeVars
<1>4. QED
  BY <1>3 DEF PaidInv, ConfirmMined, MinedPaid, nodeVars

LEMMA InsertPaid ==
  ASSUME TypeInv, TableInv, PaidInv,
         NEW rows \in Seq(NewRow), DepositsSynced(rows)
  PROVE  PaidInv'
<1>1. /\ DOMAIN deposits \subseteq DOMAIN deposits'
      /\ \A j \in DOMAIN deposits : deposits'[j] = deposits[j]
  BY AppendRows DEF DepositsSynced, TypeInv, TypeOK
<1>2. UNCHANGED <<drips, nodeVars, pc, tx>>
  BY DEF DepositsSynced, localVars
<1>3. QED
  BY <1>1, <1>2
  DEF PaidInv, ConfirmMined, DoneMined, MinedPaid, TableInv, PidsAreRows,
      nodeVars

THEOREM PaidInvInductive ==
  TypeInv /\ TableInv /\ PaidInv /\ [Next]_vars => PaidInv'
<1> SUFFICES ASSUME TypeInv, TableInv, PaidInv, [Next]_vars PROVE PaidInv'
  OBVIOUS
<1>1. CASE ConfirmDrip \/ ConfirmDripUnacknowledged
  BY <1>1, UpdateDripStatusPaid
  DEF ConfirmDrip, ConfirmDripUnacknowledged, NextItem, LeaveTo, Goto
<1>2. CASE SaveDrip \/ SaveDripUnacknowledged
  BY <1>2, OtherRowsPaid DEF SaveDrip, SaveDripUnacknowledged, LeaveTo, Goto
<1>3. CASE IgnoreDeposit \/ IgnoreDepositUnacknowledged
  BY <1>3, OtherRowsPaid
  DEF IgnoreDeposit, IgnoreDepositUnacknowledged, NextItem, LeaveTo, Goto
<1>4. CASE Synced
  BY <1>4, SyncedRows, InsertPaid DEF TypeInv
<1>5. CASE MineNext
  <2> PICK t \in pool : MineDrip(t)
    BY <1>5 DEF MineNext
  <2>1. /\ UNCHANGED <<deposits, drips, pc, tx>>
        /\ mined' = mined \cup {t} /\ t.to \in Addr
        /\ \/ /\ paid' = paid \cup {t}
              /\ account' = [account EXCEPT ![t.to] = @ \cup {"balance"}]
           \/ UNCHANGED <<paid, account>> /\ "code" \in account[t.to]
    BY DEF MineDrip, Node!Mine, dbVars, localVars, TypeInv, TypeOK, Drip
  <2>2. MinedPaid'
    BY <2>1 DEF PaidInv, MinedPaid, TypeInv, TypeOK, Drip
  <2>3. QED
    BY <2>1, <2>2 DEF PaidInv, ConfirmMined, DoneMined
<1>6. CASE \E a \in Active : AccountActivity(a)
  <2> PICK a \in Active : AccountActivity(a)
    BY <1>6
  <2>1. \A b \in Addr : "code" \in account[b] => "code" \in account'[b]
    BY DEF AccountActivity, Node!OutsideActivity, Node!ReceiveFunds,
           Node!SpendFunds, Node!DeployCode, TypeInv, TypeOK
  <2>2. UNCHANGED <<deposits, drips, pc, tx, mined, paid>>
    BY DEF AccountActivity, Node!OutsideActivity, dbVars, localVars
  <2>3. QED
    BY <2>1, <2>2
    DEF PaidInv, ConfirmMined, DoneMined, MinedPaid, TypeInv, TypeOK, Drip
<1>7. CASE GetTxStatus
  BY <1>7
  DEF GetTxStatus, PaidInv, ConfirmMined, DoneMined, MinedPaid, Goto, dbVars,
      nodeVars, localVars
<1> USE DEF PaidInv, ConfirmMined, DoneMined, MinedPaid,
            Goto, dbVars, nodeVars, localVars
<1>8. CASE Initial \/ InitialFails \/ Crash \/ Restart
  BY <1>8 DEF Initial, InitialFails, Crash, Restart
<1>9. CASE StartSending \/ EndSending \/ SendingFails
  BY <1>9 DEF StartSending, EndSending, SendingFails, LeaveTo
<1>10. CASE \E i \in DOMAIN deposits : TakeDeposit(i)
  BY <1>10 DEF TakeDeposit
<1>11. CASE \/ JudgePasses \/ JudgeRefuses \/ ProbePasses \/ ProbeRefuses
            \/ MakeDripTx
  BY <1>11 DEF JudgePasses, JudgeRefuses, ProbePasses, ProbeRefuses, MakeDripTx
<1>12. CASE SubmitDrip \/ SubmitDripFails \/ ResendDrip
  BY <1>12
  DEF SubmitDrip, SubmitDripFails, ResendDrip, Node!Accept, NextItem, LeaveTo
<1>13. CASE StartChecking \/ EndChecking \/ CheckingFails
  BY <1>13 DEF StartChecking, EndChecking, CheckingFails, LeaveTo
<1>14. CASE \E t \in drips : TakeDrip(t)
  BY <1>14 DEF TakeDrip
<1>15. CASE \E t \in pool : EvictDrip(t)
  BY <1>15 DEF EvictDrip, Node!Evict
<1>16. CASE UNCHANGED vars
  BY <1>16 DEF vars
<1>17. QED
  BY <1>1, <1>2, <1>3, <1>4, <1>5, <1>6, <1>7, <1>8, <1>9, <1>10, <1>11, <1>12,
     <1>13, <1>14, <1>15, <1>16
  DEF Next, Process, SendingPass, CheckingPass, Environment, NodeActivity

(* A done deposit has been executed on the chain, and paid unless its       *)
(* recipient has become a contract meanwhile (getTxStatus, which looks for  *)
(* a receipt but not at what it says).                                      *)
THEOREM DoneIsExecuted == Spec => []DoneMeansExecuted
<1>1. Init => PaidInv
  BY DEF Init, PaidInv, ConfirmMined, DoneMined, MinedPaid, Node!NodeInit
<1>2. PaidInv => DoneMeansExecuted
  BY DEF PaidInv, DoneMined, MinedPaid, DoneMeansExecuted
<1>3. QED
  BY <1>1, <1>2, TablesInvariant, PaidInvInductive, PTL DEF Spec

-----------------------------------------------------------------------------
(* The looks.  A recipient that was not fresh when its judgement began      *)
(* still shows something that is yet to be looked at: code and nonces stay, *)
(* and a balance is only spent by leaving a nonce behind.                   *)

LooksAhead(k) == IF k = 1 THEN {"balance", "code", "nonce"}
                 ELSE IF k = 2 THEN {"code", "nonce"} ELSE {"nonce"}

FreshInv ==
  /\ pc = "judge" /\ ~freshAtStart => account[Recipient(item)] # {}
  /\ pc = "probe" /\ ~freshAtStart =>
       \E m \in LooksAhead(probe) : m \in account[Recipient(item)]
  /\ pc # "probe" => probe = 1
  /\ DripsGoToFreshAccounts

(* What the chain does to an account leaves a mark to look at.              *)
LEMMA MarksLast ==
  ASSUME TypeInv, NEW a \in Addr,
         \/ MineNext
         \/ \E b \in Active : AccountActivity(b)
  PROVE  /\ account[a] # {} => account'[a] # {}
         /\ \A k \in 1..3 : (\E m \in LooksAhead(k) : m \in account[a]) =>
                             \E m \in LooksAhead(k) : m \in account'[a]
<1> USE DEF TypeInv, TypeOK
<1>1. CASE MineNext
  <2>1. account[a] \subseteq account'[a]
    BY <1>1 DEF MineNext, MineDrip, Node!Mine, Drip
  <2>2. QED
    BY <2>1
<1>2. CASE \E b \in Active : AccountActivity(b)
  <2>1. \/ account[a] \subseteq account'[a]
        \/ /\ "nonce" \in account'[a]
           /\ account[a] \ {"balance"} \subseteq account'[a]
    BY <1>2
    DEF AccountActivity, Node!OutsideActivity, Node!ReceiveFunds,
        Node!SpendFunds, Node!DeployCode
  <2>2. QED
    BY <2>1 DEF LooksAhead
<1>3. QED  BY <1>1, <1>2

(* The three looks, in the order of shouldTransfer.                         *)
LEMMA LooksInOrder ==
  ASSUME TypeInv, FreshInv, ProbePasses
  PROVE  FreshInv'
<1> USE DEF TypeInv, TypeOK
<1>1. /\ UNCHANGED <<account, deposits, item, freshAtStart>>
      /\ Probes[probe] \notin account[Recipient(item)]
      /\ \/ probe < 3 /\ probe' = probe + 1 /\ pc' = "probe"
         \/ probe = 3 /\ probe' = 1 /\ pc' = "make"
  BY DEF ProbePasses, Goto, Probes, dbVars, nodeVars, historyVars
<1>2. /\ probe \in 1..3
      /\ Probes[probe] = IF probe = 1 THEN "balance"
                         ELSE IF probe = 2 THEN "code" ELSE "nonce"
  BY DEF Probes
<1>3. pc = "probe" /\ ~freshAtStart =>
        \E m \in LooksAhead(probe) \ {Probes[probe]} :
          m \in account[Recipient(item)]
  BY <1>1 DEF FreshInv
<1>4. Recipient(item)' = Recipient(item)
  BY <1>1 DEF Recipient
<1>5. QED
  BY <1>1, <1>2, <1>3, <1>4
  DEF FreshInv, LooksAhead, ProbePasses, DripsGoToFreshAccounts

THEOREM FreshInvInductive == TypeInv /\ FreshInv /\ [Next]_vars => FreshInv'
<1> SUFFICES ASSUME TypeInv, FreshInv, [Next]_vars PROVE FreshInv'
  OBVIOUS
<1>1. CASE ProbePasses
  BY <1>1, LooksInOrder
<1>2. CASE MineNext \/ \E a \in Active : AccountActivity(a)
  <2>1. UNCHANGED <<deposits, pc, item, probe, freshAtStart>>
    BY <1>2
    DEF MineNext, MineDrip, AccountActivity, dbVars, localVars, historyVars
  <2>2. pc \in ItemCalls => Recipient(item) \in Addr
    BY RecipientType DEF TypeInv, TypeOK
  <2>3. probe \in 1..3
    BY DEF TypeInv, TypeOK, Probes
  <2>4. QED
    BY <1>2, <2>1, <2>2, <2>3, MarksLast
    DEF FreshInv, DripsGoToFreshAccounts, Recipient, ItemCalls
<1>3. CASE JudgePasses
  <2>1. account[Recipient(item)] \subseteq {"balance", "code", "nonce"}
    BY <1>3, RecipientType
    DEF JudgePasses, TypeInv, TypeOK, ItemCalls, Node!Marks
  <2>2. /\ UNCHANGED <<deposits, account, item, probe, freshAtStart>>
        /\ pc' = "probe"
    BY <1>3 DEF JudgePasses, Goto, dbVars, nodeVars, localVars, historyVars
  <2>3. QED
    BY <1>3, <2>1, <2>2
    DEF JudgePasses, FreshInv, LooksAhead, DripsGoToFreshAccounts, Recipient
<1>4. CASE Synced
  <2> PICK rows \in Seq(NewRow) : DepositsSynced(rows)
    BY <1>4, SyncedRows DEF TypeInv
  <2>1. \A j \in DOMAIN deposits : deposits'[j] = deposits[j]
    BY AppendRows DEF DepositsSynced, TypeInv, TypeOK
  <2>2. UNCHANGED <<account, pc, item, probe, freshAtStart>>
    BY DEF DepositsSynced, nodeVars, localVars, historyVars
  <2>3. QED
    BY <2>1, <2>2
    DEF FreshInv, DripsGoToFreshAccounts, Recipient, TypeInv, ItemCalls
<1> USE DEF FreshInv, DripsGoToFreshAccounts, Recipient, Goto, dbVars,
            nodeVars, localVars, historyVars
<1>5. CASE \E i \in DOMAIN deposits : TakeDeposit(i)
  BY <1>5 DEF TakeDeposit, Node!Fresh
<1>6. CASE JudgeRefuses \/ ProbeRefuses \/ MakeDripTx
  BY <1>6 DEF JudgeRefuses, ProbeRefuses, MakeDripTx
<1>7. CASE SaveDrip \/ SaveDripUnacknowledged
  BY <1>7 DEF SaveDrip, SaveDripUnacknowledged, LeaveTo
<1>8. CASE IgnoreDeposit \/ IgnoreDepositUnacknowledged
  BY <1>8 DEF IgnoreDeposit, IgnoreDepositUnacknowledged, NextItem, LeaveTo
<1>9. CASE SubmitDrip \/ SubmitDripFails \/ ResendDrip
  BY <1>9 DEF SubmitDrip, SubmitDripFails, ResendDrip, NextItem, LeaveTo
<1>10. CASE Initial \/ InitialFails \/ Crash \/ Restart
  BY <1>10 DEF Initial, InitialFails, Crash, Restart
<1>11. CASE StartSending \/ EndSending \/ SendingFails
  BY <1>11 DEF StartSending, EndSending, SendingFails, LeaveTo
<1>12. CASE StartChecking \/ EndChecking \/ CheckingFails
  BY <1>12 DEF StartChecking, EndChecking, CheckingFails, LeaveTo
<1>13. CASE \E t \in drips : TakeDrip(t)
  BY <1>13 DEF TakeDrip
<1>14. CASE GetTxStatus \/ ConfirmDrip \/ ConfirmDripUnacknowledged
  BY <1>14
  DEF GetTxStatus, ConfirmDrip, ConfirmDripUnacknowledged, NextItem, LeaveTo
<1>15. CASE \E t \in pool : EvictDrip(t)
  BY <1>15 DEF EvictDrip, Node!Evict
<1>16. CASE UNCHANGED vars
  BY <1>16 DEF vars
<1>17. QED
  BY <1>1, <1>2, <1>3, <1>4, <1>5, <1>6, <1>7, <1>8, <1>9, <1>10, <1>11, <1>12,
     <1>13, <1>14, <1>15, <1>16
  DEF Next, Process, SendingPass, CheckingPass, Environment, NodeActivity

(* The recipient of a drip was a fresh account at one moment, the beginning *)
(* of its judgement, although its balance, code and nonce are read at three *)
(* (shouldTransfer).                                                        *)
THEOREM RecipientsWereFresh == Spec => []DripsGoToFreshAccounts
<1>1. Init => FreshInv
  BY DEF Init, FreshInv, DripsGoToFreshAccounts
<1>2. FreshInv => DripsGoToFreshAccounts
  BY DEF FreshInv
<1>3. QED
  BY <1>1, <1>2, TablesInvariant, FreshInvInductive, PTL DEF Spec

-----------------------------------------------------------------------------
(***************************************************************************)
(* The faucet implements DripLedger: every step of it, crashes and lost    *)
(* answers included, is a step of the ledger or leaves the ledger alone.   *)
(***************************************************************************)

(* The ledger's variables, as the INSTANCE maps them.                       *)
grants == {<<t.pid, t.to>> : t \in drips}
executions == {t.pid : t \in mined}
ledgerVars == <<deposits, grants, executions>>

LedgerInv == TypeInv /\ TableInv /\ NonceInv /\ PaidInv

LEMMA NewDripGrants ==
  ASSUME LedgerInv, pc = "save", NewDrip(item, tx), UNCHANGED nodeVars,
         NEW i \in DOMAIN deposits, i = item
  PROVE  Ledger!Grant(i)
<1> USE DEF LedgerInv, TypeInv, TypeOK, ItemCalls, TxCalls
<1>1. deposits[i].status = "unprocessed" /\ tx.to = Recipient(i)
  BY DEF TableInv, ItemUnprocessed, TxInHand
<1>2. \A g \in grants : g[1] # i /\ g[2] # Ledger!Beneficiary(i)
  BY DEF grants, NewDrip, Ledger!Beneficiary, Recipient, TableInv,
         ItemHasNoDrip, HasGotDrip
<1>3. grants' = grants \cup {<<i, Ledger!Beneficiary(i)>>}
  BY <1>1 DEF grants, NewDrip, Ledger!Beneficiary, Recipient
<1>4. executions' = executions
  BY DEF executions, nodeVars
<1>5. deposits' = [deposits EXCEPT ![i].status = "processing"]
  BY DEF NewDrip, SetStatus
<1>6. QED
  BY <1>1, <1>2, <1>3, <1>4, <1>5 DEF Ledger!Grant, grants, executions

LEMMA NewDripNilDeclines ==
  ASSUME LedgerInv, pc = "refuse", NewDripNil(item), UNCHANGED nodeVars
  PROVE  Ledger!Decline(item)
<1>1. deposits[item].status = "unprocessed"
  BY DEF LedgerInv, TableInv, ItemUnprocessed
<1>2. QED
  BY <1>1 DEF Ledger!Decline, NewDripNil, SetStatus, nodeVars

LEMMA UpdateDripStatusCloses ==
  ASSUME LedgerInv, pc = "confirm",
         UpdateDripStatus(item, "done"), UNCHANGED nodeVars
  PROVE  Ledger!Close(item)
<1>1. deposits[item].status = "processing"
  BY DEF LedgerInv, TypeInv, TypeOK, ItemCalls, TxCalls, TableInv, TxInHand,
         StatusMatchesDrips, UpdateDripStatus
<1>2. item \in executions
  BY DEF executions, LedgerInv, TypeInv, TxCalls, PaidInv, ConfirmMined
<1>3. QED
  BY <1>1, <1>2
  DEF Ledger!Close, UpdateDripStatus, SetStatus, nodeVars, executions

LEMMA SyncedIsRecorded ==
  ASSUME deposits \in Seq(Row), NEW rows \in Seq(NewRow), rows # <<>>,
         DepositsSynced(rows)
  PROVE  Ledger!Record
<1>1. /\ deposits' \in Seq(Row)
      /\ \A i \in DOMAIN deposits : deposits'[i] = deposits[i]
      /\ \A i \in DOMAIN deposits' \ DOMAIN deposits : deposits'[i] \in NewRow
  BY AppendRows DEF DepositsSynced
<1>2. Len(deposits') > Len(deposits)
  <2>1. deposits' = deposits \o rows /\ Len(rows) > 0
    BY DEF DepositsSynced
  <2>2. QED
    BY <2>1
<1>3. SubSeq(deposits', 1, Len(deposits)) = deposits
  BY <1>1, <1>2
<1>4. \A i \in Len(deposits) + 1 .. Len(deposits') : deposits'[i] \in Ledger!NewRow
  <2>1. \A i \in Len(deposits) + 1 .. Len(deposits') : deposits'[i] \in NewRow
    BY <1>1
  <2>2. QED
    BY <2>1 DEF NewRow, Ledger!NewRow
<1>5. UNCHANGED <<grants, executions>>
  BY DEF DepositsSynced, nodeVars, grants, executions
<1>6. deposits' \in Seq(Ledger!Row)
  BY <1>1 DEF Row, Ledger!Row, DepositStatus, Ledger!DepositStatus
<1>7. QED
  BY <1>2, <1>3, <1>4, <1>5, <1>6, Zenon DEF Ledger!Record, grants, executions

LEMMA MineExecutes ==
  ASSUME LedgerInv, NEW t \in pool, MineDrip(t)
  PROVE  Ledger!Execute(t.pid)
<1> USE DEF LedgerInv, TypeInv, TypeOK
<1>1. t \in drips
  BY DEF TableInv, WriteAhead
<1>2. t \notin mined
  BY DEF MineDrip, Node!Mine, NonceInv, WalletCovered, Drip
<1>3. \A u \in mined : u.pid # t.pid
  BY <1>1, <1>2 DEF TableInv, WriteAhead, OneDripPerAddress
<1>4. mined' = mined \cup {t} /\ UNCHANGED <<deposits, drips>>
  BY DEF MineDrip, Node!Mine, dbVars
<1>5. \E g \in grants : g[1] = t.pid
  <2>1. <<t.pid, t.to>> \in grants
    BY <1>1 DEF grants
  <2>2. QED
    BY <2>1
<1>6. t.pid \notin executions /\ executions' = executions \cup {t.pid}
  BY <1>3, <1>4 DEF executions
<1>7. UNCHANGED <<deposits, grants>>
  BY <1>4 DEF grants
<1>8. QED
  BY <1>5, <1>6, <1>7 DEF Ledger!Execute, grants, executions

(* Every step maps to a step of the ledger or to a stutter.                 *)
THEOREM StepRefines ==
  LedgerInv /\ [Next]_vars => [Ledger!LedgerNext]_ledgerVars
<1> SUFFICES ASSUME LedgerInv, [Next]_vars
             PROVE  Ledger!LedgerNext \/ UNCHANGED ledgerVars
  OBVIOUS
<1> DEFINE Stutters == UNCHANGED <<deposits, drips, mined>>
<1>1. pc \in ItemCalls => item \in DOMAIN deposits
  BY DEF LedgerInv, TypeInv
<1>2. CASE SaveDrip \/ SaveDripUnacknowledged
  <2>1. pc = "save" /\ NewDrip(item, tx) /\ UNCHANGED nodeVars
    BY <1>2 DEF SaveDrip, SaveDripUnacknowledged
  <2> PICK i \in DOMAIN deposits : i = item
    BY <2>1, <1>1 DEF ItemCalls
  <2>2. Ledger!Grant(i)
    BY <2>1, NewDripGrants
  <2>3. QED
    BY <2>2 DEF Ledger!LedgerNext
<1>3. CASE IgnoreDeposit \/ IgnoreDepositUnacknowledged
  <2>1. Ledger!Decline(item) /\ item \in DOMAIN deposits
    BY <1>3, <1>1, NewDripNilDeclines
    DEF IgnoreDeposit, IgnoreDepositUnacknowledged, ItemCalls
  <2>2. QED
    BY <2>1 DEF Ledger!LedgerNext
<1>4. CASE ConfirmDrip \/ ConfirmDripUnacknowledged
  <2>1. Ledger!Close(item) /\ item \in DOMAIN deposits
    BY <1>4, <1>1, UpdateDripStatusCloses
    DEF ConfirmDrip, ConfirmDripUnacknowledged, ItemCalls
  <2>2. QED
    BY <2>1 DEF Ledger!LedgerNext
<1>5. CASE MineNext
  <2> PICK t \in pool : MineDrip(t)
    BY <1>5 DEF MineNext
  <2>1. Ledger!Execute(t.pid)
    BY MineExecutes
  <2>2. t.pid \in DOMAIN deposits
    BY DEF LedgerInv, TableInv, WriteAhead, PidsAreRows
  <2>3. QED
    BY <2>1, <2>2 DEF Ledger!LedgerNext
<1>6. CASE Synced
  <2> PICK rows \in Seq(NewRow) : rows # <<>> /\ DepositsSynced(rows)
    BY <1>6, SyncedRows DEF LedgerInv, TypeInv
  <2>1. Ledger!Record
    BY SyncedIsRecorded DEF LedgerInv, TypeInv, TypeOK
  <2>2. QED
    BY <2>1 DEF Ledger!LedgerNext
<1> USE DEF dbVars, nodeVars
<1>7. CASE Initial \/ InitialFails \/ Crash \/ Restart
  <2>1. Stutters  BY <1>7 DEF Initial, InitialFails, Crash, Restart
  <2>2. QED       BY <2>1 DEF ledgerVars, grants, executions
<1>8. CASE \/ StartSending \/ EndSending \/ SendingFails \/ MakeDripTx
           \/ JudgePasses \/ JudgeRefuses \/ ProbePasses \/ ProbeRefuses
           \/ \E i \in DOMAIN deposits : TakeDeposit(i)
  <2>1. Stutters
    BY <1>8
    DEF StartSending, EndSending, SendingFails, MakeDripTx, JudgePasses,
        JudgeRefuses, ProbePasses, ProbeRefuses, TakeDeposit
  <2>2. QED
    BY <2>1 DEF ledgerVars, grants, executions
<1>9. CASE SubmitDrip \/ SubmitDripFails \/ ResendDrip
  <2>1. Stutters
    BY <1>9 DEF SubmitDrip, SubmitDripFails, ResendDrip, Node!Accept
  <2>2. QED
    BY <2>1 DEF ledgerVars, grants, executions
<1>10. CASE \/ StartChecking \/ EndChecking \/ CheckingFails \/ GetTxStatus
            \/ \E t \in drips : TakeDrip(t)
  <2>1. Stutters
    BY <1>10
    DEF StartChecking, EndChecking, CheckingFails, GetTxStatus, TakeDrip
  <2>2. QED
    BY <2>1 DEF ledgerVars, grants, executions
<1>11. CASE \/ \E t \in pool : EvictDrip(t)
            \/ \E a \in Active : AccountActivity(a)
            \/ UNCHANGED vars
  <2>1. Stutters
    BY <1>11
    DEF EvictDrip, Node!Evict, AccountActivity, Node!OutsideActivity, vars
  <2>2. QED
    BY <2>1 DEF ledgerVars, grants, executions
<1>12. QED
  BY <1>2, <1>3, <1>4, <1>5, <1>6, <1>7, <1>8, <1>9, <1>10, <1>11
  DEF Next, Process, SendingPass, CheckingPass, Environment, NodeActivity

(* The faucet keeps the ledger's promise: a deposit is judged once, an      *)
(* address is granted one drip, a drip is executed at most once, and a      *)
(* deposit is closed after that (tryToSendDrip, tryToCheckDrip).            *)
THEOREM FaucetImplementsLedger == Spec => ImplementsLedger
<1>1. Init => Ledger!LedgerInit
  BY DEF Init, Ledger!LedgerInit, Node!NodeInit
<1>2. Spec => []LedgerInv
  <2>1. Init => PaidInv
    BY DEF Init, PaidInv, ConfirmMined, DoneMined, MinedPaid, Node!NodeInit
  <2>2. QED
    BY <2>1, NoncesInvariant, PaidInvInductive, PTL DEF Spec, LedgerInv
<1>3. LedgerInv /\ [Next]_vars => [Ledger!LedgerNext]_Ledger!ledger
  BY StepRefines DEF ledgerVars, grants, executions, Ledger!ledger
<1>4. QED
  BY <1>1, <1>2, <1>3, PTL DEF Spec, ImplementsLedger, Ledger!LedgerSpec

-----------------------------------------------------------------------------
(* What a kept ledger means.                                                *)

(* A grant names the recipient of its deposit, an address or a deposit has  *)
(* one grant at most, the status column tells the grants, nothing is        *)
(* executed without a grant and nothing closed before its execution.        *)
LedgerIsFair ==
  /\ \A g \in grants : g[1] \in DOMAIN deposits /\ g[2] = Recipient(g[1])
  /\ \A g, h \in grants : g[1] = h[1] \/ g[2] = h[2] => g = h
  /\ \A i \in DOMAIN deposits :
       /\ deposits[i].status \in {"processing", "done"} <=> \E g \in grants : g[1] = i
       /\ deposits[i].status = "done" => i \in executions
  /\ executions \subseteq {g[1] : g \in grants}

BookInv == deposits \in Seq(Row) /\ LedgerIsFair

(* A step of the ledger that moves the status of one row.                   *)
LEMMA StatusMoves ==
  ASSUME BookInv, NEW i \in DOMAIN deposits, NEW s \in DepositStatus,
         deposits' = [deposits EXCEPT ![i].status = s]
  PROVE  /\ deposits' \in Seq(Row) /\ DOMAIN deposits' = DOMAIN deposits
         /\ \A j \in DOMAIN deposits : Recipient(j)' = Recipient(j)
         /\ \A j \in DOMAIN deposits \ {i} : deposits'[j].status = deposits[j].status
         /\ deposits'[i].status = s
BY SetStatusRows DEF BookInv, Recipient

LEMMA RecordKeepsFair ==
  ASSUME BookInv, Ledger!Record PROVE BookInv'
<1>1. /\ deposits' \in Seq(Row) /\ UNCHANGED <<grants, executions>>
      /\ Len(deposits') > Len(deposits)
      /\ SubSeq(deposits', 1, Len(deposits)) = deposits
      /\ \A i \in Len(deposits) + 1 .. Len(deposits') : deposits'[i] \in NewRow
  BY DEF Ledger!Record, Ledger!Row, Ledger!NewRow, Ledger!DepositStatus, Row,
    NewRow, DepositStatus, grants, executions
<1>2. deposits \in Seq(Row)
  BY DEF BookInv
<1>3. /\ DOMAIN deposits \subseteq DOMAIN deposits'
      /\ \A i \in DOMAIN deposits : deposits'[i] = deposits[i]
  <2>1. \A i \in 1..Len(deposits) :
          SubSeq(deposits', 1, Len(deposits))[i] = deposits'[i]
    BY <1>1, <1>2
  <2>2. QED
    BY <1>1, <1>2, <2>1
<1>4. \A i \in DOMAIN deposits' \ DOMAIN deposits :
        deposits'[i].status \in {"unprocessed", "ignore"}
  <2>1. \A i \in DOMAIN deposits' \ DOMAIN deposits : deposits'[i] \in NewRow
    BY <1>1, <1>2
  <2>2. QED
    BY <2>1 DEF NewRow
<1>5. \A i \in DOMAIN deposits : Recipient(i)' = Recipient(i)
  BY <1>3 DEF Recipient
<1> HIDE DEF grants, executions
<1>6. LedgerIsFair'
  BY <1>1, <1>3, <1>4, <1>5 DEF BookInv, LedgerIsFair
<1>7. QED
  BY <1>1, <1>6 DEF BookInv

LEMMA GrantKeepsFair ==
  ASSUME BookInv, NEW i \in DOMAIN deposits, Ledger!Grant(i) PROVE BookInv'
<1>1. /\ deposits[i].status = "unprocessed"
      /\ \A g \in grants : g[1] # i /\ g[2] # Recipient(i)
      /\ deposits' = [deposits EXCEPT ![i].status = "processing"]
      /\ grants' = grants \cup {<<i, Recipient(i)>>} /\ executions' = executions
  BY DEF Ledger!Grant, Ledger!Beneficiary, Recipient, grants, executions
<1>2. /\ deposits' \in Seq(Row) /\ DOMAIN deposits' = DOMAIN deposits
      /\ \A j \in DOMAIN deposits : Recipient(j)' = Recipient(j)
      /\ \A j \in DOMAIN deposits \ {i} : deposits'[j].status = deposits[j].status
      /\ deposits'[i].status = "processing"
  BY <1>1, StatusMoves DEF DepositStatus
<1> DEFINE n == <<i, Recipient(i)>>
<1>3. n[1] = i /\ n[2] = Recipient(i)
  OBVIOUS
<1> HIDE DEF n
<1>4. grants' = grants \cup {n}
  BY <1>1 DEF n
<1>5. \A g \in grants' : g[1] \in DOMAIN deposits' /\ g[2] = Recipient(g[1])'
  BY <1>2, <1>3, <1>4 DEF BookInv, LedgerIsFair
<1>6. \A g, h \in grants' : g[1] = h[1] \/ g[2] = h[2] => g = h
  BY <1>1, <1>3, <1>4 DEF BookInv, LedgerIsFair
<1>7. \A j \in DOMAIN deposits' :
        /\ deposits'[j].status \in {"processing", "done"} <=> \E g \in grants' : g[1] = j
        /\ deposits'[j].status = "done" => j \in executions'
  BY <1>1, <1>2, <1>3, <1>4 DEF BookInv, LedgerIsFair
<1>8. executions' \subseteq {g[1] : g \in grants'}
  BY <1>1, <1>4 DEF BookInv, LedgerIsFair
<1>9. QED
  BY <1>2, <1>5, <1>6, <1>7, <1>8 DEF BookInv, LedgerIsFair

LEMMA LedgerIsFairInductive ==
  BookInv /\ [Ledger!LedgerNext]_Ledger!ledger => BookInv'
<1> SUFFICES ASSUME BookInv, [Ledger!LedgerNext]_Ledger!ledger PROVE BookInv'
  OBVIOUS
<1>1. CASE Ledger!Record
  BY <1>1, RecordKeepsFair
<1>2. ASSUME NEW i \in DOMAIN deposits, Ledger!Grant(i) PROVE BookInv'
  BY <1>2, GrantKeepsFair
<1>3. ASSUME NEW i \in DOMAIN deposits, Ledger!Decline(i) PROVE BookInv'
  <2>1. /\ deposits[i].status = "unprocessed"
        /\ deposits' = [deposits EXCEPT ![i].status = "ignore"]
        /\ UNCHANGED <<grants, executions>>
    BY <1>3 DEF Ledger!Decline, grants, executions
  <2>2. /\ deposits' \in Seq(Row) /\ DOMAIN deposits' = DOMAIN deposits
        /\ \A j \in DOMAIN deposits : Recipient(j)' = Recipient(j)
        /\ \A j \in DOMAIN deposits \ {i} : deposits'[j].status = deposits[j].status
        /\ deposits'[i].status = "ignore"
    BY <2>1, StatusMoves DEF DepositStatus
  <2> HIDE DEF grants, executions
  <2>3. QED
    BY <2>1, <2>2 DEF BookInv, LedgerIsFair
<1>4. ASSUME NEW i \in DOMAIN deposits, Ledger!Execute(i) PROVE BookInv'
  <2>1. /\ \E g \in grants : g[1] = i
        /\ executions' = executions \cup {i} /\ UNCHANGED <<deposits, grants>>
    BY <1>4 DEF Ledger!Execute, grants, executions
  <2> HIDE DEF grants, executions
  <2>2. QED
    BY <2>1 DEF BookInv, LedgerIsFair, Recipient
<1>5. ASSUME NEW i \in DOMAIN deposits, Ledger!Close(i) PROVE BookInv'
  <2>1. /\ deposits[i].status = "processing" /\ i \in executions
        /\ deposits' = [deposits EXCEPT ![i].status = "done"]
        /\ UNCHANGED <<grants, executions>>
    BY <1>5 DEF Ledger!Close, grants, executions
  <2>2. /\ deposits' \in Seq(Row) /\ DOMAIN deposits' = DOMAIN deposits
        /\ \A j \in DOMAIN deposits : Recipient(j)' = Recipient(j)
        /\ \A j \in DOMAIN deposits \ {i} : deposits'[j].status = deposits[j].status
        /\ deposits'[i].status = "done"
    BY <2>1, StatusMoves DEF DepositStatus
  <2> HIDE DEF grants, executions
  <2>3. QED
    BY <2>1, <2>2 DEF BookInv, LedgerIsFair
<1>6. CASE UNCHANGED Ledger!ledger
  <2>1. UNCHANGED <<deposits, grants, executions>>
    BY <1>6 DEF Ledger!ledger, grants, executions
  <2> HIDE DEF grants, executions
  <2>2. QED
    BY <2>1 DEF BookInv, LedgerIsFair, Recipient
<1>7. QED
  BY <1>1, <1>2, <1>3, <1>4, <1>5, <1>6 DEF Ledger!LedgerNext

(* The abstract specification promises what its prose says: whoever keeps   *)
(* this ledger grants once, pays only what is granted and closes a deposit  *)
(* only when it is paid (the contract of faucet.go with its two tables).    *)
THEOREM LedgerMeansFairness == ImplementsLedger => []LedgerIsFair
<1>1. Ledger!LedgerInit => BookInv
  <2> SUFFICES ASSUME Ledger!LedgerInit PROVE BookInv
    OBVIOUS
  <2>1. deposits = <<>> /\ grants = {} /\ executions = {}
    BY DEF Ledger!LedgerInit, grants, executions
  <2> HIDE DEF grants, executions
  <2>2. QED
    BY <2>1 DEF BookInv, LedgerIsFair
<1>2. BookInv => LedgerIsFair
  BY DEF BookInv
<1>3. QED
  BY <1>1, <1>2, LedgerIsFairInductive, PTL DEF ImplementsLedger, Ledger!LedgerSpec
=============================================================================
