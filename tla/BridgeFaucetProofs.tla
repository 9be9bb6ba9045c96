------------------------- MODULE BridgeFaucetProofs -------------------------
(***************************************************************************)
(* Theorems about the whole process: neither goroutine disturbs what the   *)
(* other one promises, and only deposits that are due get a drip.          *)
(***************************************************************************)
EXTENDS BridgeFaucet, FaucetProofs, FiniteSetTheorems

(* The rows of the table and those about to be saved: what formatEvent      *)
(* makes of events.                                                         *)
SharedInv ==
  /\ deposits \in Seq(Row)
  /\ found \in Seq(NewRow)
  /\ \A i \in DOMAIN found : found[i] = Syncer!FormatEvent(found[i].event)

-----------------------------------------------------------------------------
LEMMA NewRowIsRow == NewRow \subseteq Row
BY DEF NewRow, Row, DepositStatus

LEMMA FormatEventIsNew ==
  ASSUME NEW e \in Event
  PROVE  Syncer!FormatEvent(e) \in NewRow /\ Syncer!FormatEvent(e).event = e
BY DEF Syncer!FormatEvent, NewRow

LEMMA SameCardinality ==
  ASSUME NEW S PROVE Syncer!Cardinality(S) = Cardinality(S)
BY DEF Syncer!Cardinality, Cardinality

LEMMA EventsInFinite ==
  ASSUME NEW m, NEW n
  PROVE  /\ Syncer!EventsIn(m, n) \subseteq Event
         /\ Cardinality(Syncer!EventsIn(m, n)) \in Nat
BY BridgeAssumption, FS_Subset, FS_CardinalityType DEF Syncer!EventsIn

LEMMA ConcatRows ==
  ASSUME NEW d \in Seq(Row), NEW r \in Seq(Row)
  PROVE  /\ d \o r \in Seq(Row)
         /\ DOMAIN (d \o r) = 1 .. Len(d) + Len(r)
         /\ \A i \in DOMAIN d : i \in DOMAIN (d \o r) /\ (d \o r)[i] = d[i]
         /\ \A i \in DOMAIN r : (d \o r)[Len(d) + i] = r[i]
         /\ \A k \in DOMAIN (d \o r) :
              k \in DOMAIN d \/ (k - Len(d) \in DOMAIN r /\ (d \o r)[k] = r[k - Len(d)])
<1> DEFINE c == d \o r
<1>1. c \in Seq(Row) /\ Len(c) = Len(d) + Len(r)
  OBVIOUS
<1>2. /\ DOMAIN c = 1..Len(c) /\ DOMAIN d = 1..Len(d) /\ DOMAIN r = 1..Len(r)
      /\ Len(d) \in Nat /\ Len(r) \in Nat
  BY <1>1
<1>3. \A i \in DOMAIN d : i \in DOMAIN c /\ c[i] = d[i]
  BY <1>1, <1>2
<1>4. \A i \in DOMAIN r : c[Len(d) + i] = r[i]
  BY <1>1, <1>2
<1>5. ASSUME NEW k \in DOMAIN c, k \notin DOMAIN d
      PROVE  k - Len(d) \in DOMAIN r /\ c[k] = r[k - Len(d)]
  BY <1>1, <1>2, <1>5
<1>6. QED
  BY <1>1, <1>2, <1>3, <1>4, <1>5

(* The rows about to be saved after FilterDepositFinalized.                 *)
LEMMA FilterFinds ==
  ASSUME Syncer!FilterEvents
  PROVE  /\ found' \in Seq(NewRow)
         /\ \A i \in DOMAIN found' :
              /\ found'[i] = Syncer!FormatEvent(found'[i].event)
              /\ found'[i].event \in Syncer!EventsIn(height, endHeight)
<1> DEFINE S == Syncer!EventsIn(height, endHeight)
<1>1. S \subseteq Event /\ Cardinality(S) \in Nat
  BY EventsInFinite
<1>2. PICK s \in Syncer!Listings(S) :
        found' = [i \in DOMAIN s |-> Syncer!FormatEvent(s[i])]
  BY DEF Syncer!FilterEvents
<1>3. s \in [1..Cardinality(S) -> S]
  BY <1>2, SameCardinality DEF Syncer!Listings
<1>4. /\ DOMAIN found' = 1..Cardinality(S)
      /\ \A i \in DOMAIN found' : s[i] \in S /\ found'[i] = Syncer!FormatEvent(s[i])
  BY <1>2, <1>3
<1>5. \A i \in DOMAIN found' : found'[i] \in NewRow /\ found'[i].event = s[i]
  BY <1>1, <1>4, FormatEventIsNew
<1>6. found' = [i \in 1..Cardinality(S) |-> Syncer!FormatEvent(s[i])]
  BY <1>2, <1>3
<1>7. \A i \in 1..Cardinality(S) : Syncer!FormatEvent(s[i]) \in NewRow
  BY <1>1, <1>3, FormatEventIsNew
<1>8. found' \in Seq(NewRow)
  BY <1>1, <1>6, <1>7
<1>9. ASSUME NEW i \in DOMAIN found'
      PROVE  /\ found'[i] = Syncer!FormatEvent(found'[i].event)
             /\ found'[i].event \in S
  <2>1. found'[i].event = s[i]
    BY <1>5
  <2>2. found'[i] = Syncer!FormatEvent(s[i]) /\ s[i] \in S
    BY <1>4
  <2> HIDE DEF S
  <2>3. QED
    BY <2>1, <2>2
<1>10. QED
  BY <1>8, <1>9

LEMMA NothingFound ==
  <<>> \in Seq(NewRow) /\ \A i \in DOMAIN <<>> : FALSE
OBVIOUS

-----------------------------------------------------------------------------
(* What the faucet does to the table: it changes the status of the row it   *)
(* is working on, if anything at all.                                       *)
FaucetUpdates ==
  \/ UNCHANGED deposits
  \/ /\ pc \in ItemCalls
     /\ \E s \in DepositStatus : deposits' = [deposits EXCEPT ![item].status = s]

LEMMA DripUpdates ==
  ASSUME DripLoop PROVE FaucetUpdates
<1> USE DEF dbVars, ItemCalls, FaucetUpdates
<1>1. CASE Initial
  BY <1>1 DEF Initial
<1>2. CASE SendingPass
  <2>1. CASE \/ StartSending \/ EndSending \/ SendingFails
             \/ \E i \in DOMAIN deposits : TakeDeposit(i)
             \/ JudgePasses \/ JudgeRefuses
             \/ ProbePasses \/ ProbeRefuses \/ MakeDripTx
             \/ SubmitDrip \/ SubmitDripFails
    BY <2>1 DEF StartSending, EndSending, SendingFails,
      TakeDeposit, JudgePasses, JudgeRefuses,
      ProbePasses, ProbeRefuses, MakeDripTx,
      SubmitDrip, SubmitDripFails
  <2>2. CASE SaveDrip \/ SaveDripUnacknowledged
    BY <2>2 DEF SaveDrip, SaveDripUnacknowledged, NewDrip,
      SetStatus, DepositStatus
  <2>3. CASE IgnoreDeposit \/ IgnoreDepositUnacknowledged
    BY <2>3 DEF IgnoreDeposit, IgnoreDepositUnacknowledged,
      NewDripNil, SetStatus, DepositStatus
  <2>4. QED
    BY <1>2, <2>1, <2>2, <2>3 DEF SendingPass
<1>3. CASE CheckingPass
  <2>1. CASE \/ StartChecking \/ EndChecking \/ CheckingFails
             \/ \E t \in drips : TakeDrip(t)
             \/ GetTxStatus \/ ResendDrip
    BY <2>1 DEF StartChecking, EndChecking, CheckingFails,
      TakeDrip, GetTxStatus, ResendDrip
  <2>2. CASE ConfirmDrip \/ ConfirmDripUnacknowledged
    BY <2>2 DEF ConfirmDrip, ConfirmDripUnacknowledged,
      UpdateDripStatus, SetStatus, DepositStatus
  <2>3. QED
    BY <1>3, <2>1, <2>2 DEF CheckingPass
<1>4. QED
  BY <1>1, <1>2, <1>3 DEF DripLoop

(* Such an update keeps the rows' events and every other row.               *)
LEMMA UpdateKeepsEvents ==
  ASSUME deposits \in Seq(Row), FaucetUpdates
  PROVE  /\ deposits' \in Seq(Row)
         /\ DOMAIN deposits' = DOMAIN deposits
         /\ \A j \in DOMAIN deposits : deposits'[j].event = deposits[j].event
         /\ \A j \in DOMAIN deposits :
              deposits'[j] = deposits[j] \/ (pc \in ItemCalls /\ j = item)
<1>1. CASE UNCHANGED deposits
  BY <1>1
<1>2. CASE \E s \in DepositStatus :
             pc \in ItemCalls /\ deposits' = [deposits EXCEPT ![item].status = s]
  <2> PICK s \in DepositStatus :
        pc \in ItemCalls /\ deposits' = [deposits EXCEPT ![item].status = s]
    BY <1>2
  <2>1. CASE item \in DOMAIN deposits
    <3>1. deposits[item] \in Row
      BY <2>1
    <3>2. [deposits[item] EXCEPT !.status = s] \in Row
      BY <3>1 DEF Row
    <3>3. deposits' \in Seq(Row)
      BY <2>1, <3>2
    <3>4. QED
      BY <2>1, <3>1, <3>3 DEF Row
  <2>2. CASE item \notin DOMAIN deposits
    <3>1. deposits' = deposits
      BY <2>2
    <3>2. QED
      BY <3>1
  <2>3. QED
    BY <2>1, <2>2
<1>3. QED
  BY <1>1, <1>2 DEF FaucetUpdates

(* What the syncer does to the table.                                       *)
LEMMA CommitAppends ==
  ASSUME Commit
  PROVE  /\ deposits' = deposits \o found /\ found' = <<>>
         /\ Syncer!Storable(found) /\ UNCHANGED faucetVars
BY DEF Commit, Syncer!SaveRange, Syncer!SaveRangeUnacknowledged,
  Syncer!SaveSyncedData

(* The other steps leave the table alone.                                   *)
LEMMA OthersLeaveTable ==
  ASSUME \/ SyncLoop \/ StartFails \/ Die \/ ComeBack \/ Mine \/ World
         \/ UNCHANGED bridgeVars
  PROVE  /\ UNCHANGED deposits
         /\ found' = found \/ found' = <<>> \/ Syncer!FilterEvents
<1> USE DEF Syncer!tables, Syncer!local, dbVars, syncVars
<1>1. CASE SyncLoop
  BY <1>1 DEF SyncLoop, Syncer!Prefight, Syncer!BlockNumber, Syncer!StartRange,
    Syncer!EndRun, Syncer!FilterEvents, Syncer!RunFails
<1>2. CASE StartFails \/ Die
  BY <1>2 DEF StartFails, Die, Syncer!PrefightFails, Syncer!Crash
<1>3. CASE ComeBack
  BY <1>3 DEF ComeBack, Syncer!Restart
<1>4. CASE Mine
  BY <1>4 DEF Mine, MineNext, MineDrip
<1>5. CASE World
  BY <1>5 DEF World, NodeActivity, Syncer!NewBlock, EvictDrip, AccountActivity
<1>6. CASE UNCHANGED bridgeVars
  BY <1>6 DEF bridgeVars
<1>7. QED
  BY <1>1, <1>2, <1>3, <1>4, <1>5, <1>6

LEMMA SharedInvInit == BridgeInit => SharedInv
BY NothingFound DEF BridgeInit, Syncer!Init, SharedInv

LEMMA SharedInvInductive == SharedInv /\ [BridgeNext]_bridgeVars => SharedInv'
<1> SUFFICES ASSUME SharedInv, [BridgeNext]_bridgeVars PROVE SharedInv'
  OBVIOUS
<1>1. CASE DripLoop
  <2>1. UNCHANGED found
    BY <1>1 DEF DripLoop, syncVars
  <2>2. QED
    BY <1>1, <2>1, DripUpdates, UpdateKeepsEvents DEF SharedInv, Syncer!FormatEvent
<1>2. CASE Commit
  <2>1. deposits' = deposits \o found /\ found' = <<>>
    BY <1>2, CommitAppends
  <2>2. deposits' \in Seq(Row)
    BY <2>1, NewRowIsRow DEF SharedInv
  <2>3. QED
    BY <2>1, <2>2, NothingFound DEF SharedInv
<1>3. CASE \/ SyncLoop \/ StartFails \/ Die \/ ComeBack \/ Mine \/ World
           \/ UNCHANGED bridgeVars
  <2>1. UNCHANGED deposits /\ (found' = found \/ found' = <<>> \/ Syncer!FilterEvents)
    BY <1>3, OthersLeaveTable
  <2>2. CASE found' = found
    BY <2>1, <2>2 DEF SharedInv, Syncer!FormatEvent
  <2>3. CASE found' = <<>>
    BY <2>1, <2>3, NothingFound DEF SharedInv
  <2>4. CASE Syncer!FilterEvents
    BY <2>1, <2>4, FilterFinds DEF SharedInv, Syncer!FormatEvent
  <2>5. QED
    BY <2>1, <2>2, <2>3, <2>4
<1>4. QED
  BY <1>1, <1>2, <1>3 DEF BridgeNext

LEMMA SharedAlways == BridgeSpec => []SharedInv
BY SharedInvInit, SharedInvInductive, PTL DEF BridgeSpec

-----------------------------------------------------------------------------
(* The syncer under the faucet's nose: seen as they were inserted, the rows *)
(* do not change when the faucet moves their status.                        *)

LEMMA SameEventsSameInserted ==
  ASSUME DOMAIN deposits' = DOMAIN deposits,
         \A j \in DOMAIN deposits : deposits'[j].event = deposits[j].event
  PROVE  UNCHANGED inserted
BY DEF inserted, Syncer!FormatEvent

LEMMA CommitInserts ==
  ASSUME SharedInv, deposits' = deposits \o found
  PROVE  inserted' = inserted \o found
<1>1. deposits \in Seq(Row) /\ found \in Seq(Row) /\ found \in Seq(NewRow)
  BY NewRowIsRow DEF SharedInv
<1> DEFINE F(e) == Syncer!FormatEvent(e)
<1>2. \A e : F(e)' = F(e)
  BY DEF Syncer!FormatEvent
<1>3. inserted = [i \in 1..Len(deposits) |-> F(deposits[i].event)]
  BY <1>1 DEF inserted
<1>4. /\ DOMAIN deposits' = 1 .. Len(deposits) + Len(found)
      /\ \A i \in 1..Len(deposits) : deposits'[i] = deposits[i]
      /\ \A i \in DOMAIN deposits' :
           i \in 1..Len(deposits)
           \/ (i - Len(deposits) \in DOMAIN found /\ deposits'[i] = found[i - Len(deposits)])
  BY <1>1, ConcatRows
<1>5. inserted' = [i \in 1 .. Len(deposits) + Len(found) |-> F(deposits'[i].event)]
  BY <1>4 DEF inserted, Syncer!FormatEvent
<1>6. \A i \in DOMAIN deposits : F(deposits[i].event) \in Row
  <2>1. \A i \in DOMAIN deposits : deposits[i] \in Row
    BY <1>1
  <2> \A i \in DOMAIN deposits : deposits[i].event \in Event
    BY <2>1 DEF Row
  <2>2. QED
    BY FormatEventIsNew, NewRowIsRow
<1>7. inserted \in Seq(Row) /\ Len(inserted) = Len(deposits)
  <2>1. \A i \in 1..Len(deposits) : F(deposits[i].event) \in Row
    BY <1>1, <1>6
  <2> HIDE DEF F
  <2>2. QED
    BY <1>1, <1>3, <2>1
<1>8. /\ DOMAIN (inserted \o found) = 1 .. Len(deposits) + Len(found)
      /\ \A i \in DOMAIN inserted : (inserted \o found)[i] = inserted[i]
      /\ \A i \in DOMAIN (inserted \o found) :
           i \in DOMAIN inserted
           \/ (inserted \o found)[i] = found[i - Len(deposits)]
  <2> PICK d \in Seq(Row) : d = inserted
    BY <1>7
  <2> PICK r \in Seq(Row) : r = found
    BY <1>1
  <2> DEFINE c == d \o r
  <2>1. Len(d) = Len(deposits)
    BY <1>7
  <2>2. /\ DOMAIN c = 1 .. Len(d) + Len(r)
        /\ \A i \in DOMAIN d : c[i] = d[i]
        /\ \A i \in DOMAIN c : i \in DOMAIN d \/ c[i] = r[i - Len(d)]
    BY ConcatRows
  <2>3. c = inserted \o found
    OBVIOUS
  <2> HIDE DEF c
  <2>4. QED
    BY <2>1, <2>2, <2>3
<1>9. ASSUME NEW i \in 1 .. Len(deposits) + Len(found)
      PROVE  F(deposits'[i].event) = (inserted \o found)[i]
  <2>1. CASE i \in 1..Len(deposits)
    BY <1>3, <1>4, <1>8, <2>1
  <2>2. CASE i \notin 1..Len(deposits)
    <3>1. /\ i - Len(deposits) \in DOMAIN found
          /\ deposits'[i] = found[i - Len(deposits)]
      BY <1>4, <2>2
    <3>2. found[i - Len(deposits)] = F(found[i - Len(deposits)].event)
      BY <3>1 DEF SharedInv
    <3>3. DOMAIN inserted = 1..Len(deposits)
      BY <1>3
    <3>4. (inserted \o found)[i] = found[i - Len(deposits)]
      BY <1>8, <2>2, <3>3
    <3> HIDE DEF F
    <3>5. QED
      BY <3>1, <3>2, <3>4
  <2>3. QED
    BY <2>1, <2>2
<1>10. inserted \o found = [i \in 1 .. Len(deposits) + Len(found) |-> (inserted \o found)[i]]
  <2> DEFINE c == inserted \o found
  <2>1. c \in Seq(Row)
    BY <1>1, <1>7
  <2>2. DOMAIN c = 1 .. Len(deposits) + Len(found)
    BY <1>8
  <2> HIDE DEF c
  <2>3. c = [i \in DOMAIN c |-> c[i]]
    BY <2>1
  <2>4. QED
    BY <2>2, <2>3 DEF c
<1> HIDE DEF F
<1>11. QED
  BY <1>5, <1>9, <1>10

LEMMA SameCardinalityInRecord ==
  ASSUME NEW S PROVE Record!Cardinality(S) = Syncer!Cardinality(S)
BY DEF Syncer!Cardinality, Record!Cardinality

LEMMA SameDefinitions ==
  /\ \A e : Record!FormatEvent(e) = Syncer!FormatEvent(e)
  /\ \A m, n : Record!EventsIn(m, n) = Syncer!EventsIn(m, n)
  /\ \A S : Record!Listings(S) = Syncer!Listings(S)
<1>1. \A e : Record!FormatEvent(e) = Syncer!FormatEvent(e)
  BY DEF Record!FormatEvent, Syncer!FormatEvent
<1>2. \A m, n : Record!EventsIn(m, n) = Syncer!EventsIn(m, n)
  BY DEF Record!EventsIn, Syncer!EventsIn
<1>3. \A S : Record!Listings(S) = Syncer!Listings(S)
  BY SameCardinalityInRecord DEF Record!Listings, Syncer!Listings
<1>4. QED
  BY <1>1, <1>2, <1>3

(* Syncer steps that leave the table alone, on the record.                  *)
LEMMA SyncMaps ==
  ASSUME SyncLoop PROVE Record!Next
<1> USE DEF Record!Next, Record!Process
<1>1. UNCHANGED inserted
  BY OthersLeaveTable DEF inserted, Syncer!FormatEvent
<1> USE DEF Syncer!tables, Syncer!local, Record!tables, Record!local
<1>2. CASE Syncer!Prefight
  BY <1>1, <1>2 DEF Syncer!Prefight, Record!Prefight, Syncer!InitHeight,
    Record!InitHeight, Syncer!NoRow, Record!NoRow, Syncer!HeightToStartWith,
    Record!HeightToStartWith
<1>3. CASE Syncer!BlockNumber
  BY <1>1, <1>3 DEF Syncer!BlockNumber, Record!BlockNumber
<1>4. CASE Syncer!StartRange
  BY <1>1, <1>4 DEF Syncer!StartRange, Record!StartRange, Syncer!Behind,
    Record!Behind, Syncer!Lower, Record!Lower
<1>5. CASE Syncer!EndRun
  BY <1>1, <1>5 DEF Syncer!EndRun, Record!EndRun, Syncer!Behind, Record!Behind
<1>6. CASE Syncer!FilterEvents
  <2>1. \E s \in Record!Listings(Record!EventsIn(height, endHeight)) :
          found' = [i \in DOMAIN s |-> Record!FormatEvent(s[i])]
    BY <1>6, SameDefinitions DEF Syncer!FilterEvents
  <2>2. Record!FilterEvents
    BY <1>1, <1>6, <2>1 DEF Syncer!FilterEvents, Record!FilterEvents
  <2>3. QED
    BY <2>2
<1>7. CASE Syncer!RunFails
  BY <1>1, <1>7 DEF Syncer!RunFails, Record!RunFails, Syncer!Fault, Record!Fault,
    Syncer!Storable, Record!Storable
<1>8. QED
  BY <1>2, <1>3, <1>4, <1>5, <1>6, <1>7 DEF SyncLoop

(* A commit inserts the same rows on the record.                            *)
LEMMA CommitMaps ==
  ASSUME SharedInv, Commit PROVE Record!Next
<1> USE DEF Record!Next, Record!Process
<1>1. inserted' = inserted \o found
  BY CommitAppends, CommitInserts
<1>2. CASE Syncer!SaveRange
  BY <1>1, <1>2 DEF Syncer!SaveRange, Record!SaveRange, Syncer!SaveSyncedData,
    Record!SaveSyncedData, Syncer!Storable, Record!Storable
<1>3. CASE Syncer!SaveRangeUnacknowledged
  BY <1>1, <1>3 DEF Syncer!SaveRangeUnacknowledged, Record!SaveRangeUnacknowledged,
    Syncer!SaveSyncedData, Record!SaveSyncedData, Syncer!Storable, Record!Storable,
    Syncer!Fault, Record!Fault
<1>4. QED
  BY <1>2, <1>3 DEF Commit

(* The steps both take together, and those of the environment.              *)
LEMMA TogetherMaps ==
  ASSUME StartFails \/ Die \/ ComeBack \/ Mine \/ World
  PROVE  Record!Next \/ UNCHANGED Record!vars
<1> USE DEF Record!Next, Record!Process
<1>1. UNCHANGED inserted
  BY OthersLeaveTable DEF inserted, Syncer!FormatEvent
<1> USE DEF Syncer!tables, Syncer!local, Record!tables, Record!local,
            Syncer!Fault, Record!Fault, Record!vars, syncVars
<1>2. CASE Syncer!PrefightFails
  BY <1>1, <1>2 DEF Syncer!PrefightFails, Record!PrefightFails,
    Syncer!InitHeight, Record!InitHeight, Syncer!NoRow, Record!NoRow
<1>3. CASE Syncer!Crash
  BY <1>1, <1>3 DEF Syncer!Crash, Record!Crash
<1>4. CASE Syncer!Restart
  BY <1>1, <1>4 DEF Syncer!Restart, Record!Restart
<1>5. CASE Syncer!NewBlock
  BY <1>1, <1>5 DEF Syncer!NewBlock, Record!NewBlock
<1>6. CASE UNCHANGED syncVars
  BY <1>1, <1>6
<1>7. QED
  BY <1>2, <1>3, <1>4, <1>5, <1>6 DEF StartFails, Die, ComeBack, Mine, World

(* The faucet's steps do nothing to the record.                             *)
LEMMA DripStutters ==
  ASSUME SharedInv, DripLoop PROVE UNCHANGED Record!vars
<1>1. UNCHANGED inserted
  BY DripUpdates, UpdateKeepsEvents, SameEventsSameInserted DEF SharedInv
<1>2. QED
  BY <1>1 DEF DripLoop, Record!vars, syncVars, Record!local

LEMMA StepMapsToRecord ==
  SharedInv /\ [BridgeNext]_bridgeVars => [Record!Next]_(Record!vars)
<1> SUFFICES ASSUME SharedInv, [BridgeNext]_bridgeVars
             PROVE  Record!Next \/ UNCHANGED Record!vars
  OBVIOUS
<1>1. CASE UNCHANGED bridgeVars
  <2>1. UNCHANGED inserted
    BY <1>1, OthersLeaveTable DEF inserted, Syncer!FormatEvent
  <2>2. QED
    BY <1>1, <2>1 DEF bridgeVars, syncVars, Record!vars, Record!local
<1>2. QED
  BY <1>1, SyncMaps, CommitMaps, TogetherMaps, DripStutters DEF BridgeNext

LEMMA InitMapsToRecord == BridgeInit => Record!Init
<1> SUFFICES ASSUME BridgeInit PROVE Record!Init
  OBVIOUS
<1>1. deposits = <<>>
  BY DEF BridgeInit, Syncer!Init
<1>2. inserted = <<>>
  BY <1>1 DEF inserted
<1>3. QED
  BY <1>2 DEF BridgeInit, Syncer!Init, Record!Init, Syncer!NoRow, Record!NoRow

(* The faucet's updates of the shared table do not disturb the syncer       *)
(* (datasync.go with faucet.go at work): seen as inserted, the rows and the *)
(* height go through steps of the syncer alone.                             *)
THEOREM SyncUndisturbed == BridgeSpec => ImplementsSync
BY InitMapsToRecord, StepMapsToRecord, SharedAlways, PTL
DEF BridgeSpec, ImplementsSync, Record!Spec

-----------------------------------------------------------------------------
(* The faucet, which knows of the syncer only that rows are appended.       *)

LEMMA AppendedIsFound ==
  ASSUME SharedInv, deposits' = deposits \o found
  PROVE  appended = found
<1>1. deposits \in Seq(Row) /\ found \in Seq(Row)
  BY NewRowIsRow DEF SharedInv
<1>2. SubSeq(deposits \o found, Len(deposits) + 1, Len(deposits \o found)) = found
  BY <1>1
<1>3. QED
  BY <1>2 DEF appended

LEMMA CommitMapsToFaucet ==
  ASSUME SharedInv, Commit PROVE FaucetStep
<1> USE DEF FaucetStep
<1>1. deposits' = deposits \o found /\ UNCHANGED faucetVars
  BY CommitAppends
<1>2. appended = found /\ found \in Seq(NewRow)
  BY <1>1, AppendedIsFound DEF SharedInv
<1>3. Len(deposits) + Len(found) <= MaxRows
  BY DEF Commit
<1>4. UNCHANGED <<drips, nodeVars, pc, localVars, historyVars>>
  BY <1>1 DEF faucetVars, nodeVars, localVars, historyVars
<1>5. DepositsSynced(found)
  BY <1>1, <1>3, <1>4 DEF DepositsSynced
<1>6. QED
  BY <1>2, <1>5

LEMMA SyncStuttersOnFaucet ==
  ASSUME SyncLoop \/ UNCHANGED bridgeVars PROVE UNCHANGED vars
<1>1. UNCHANGED deposits /\ UNCHANGED faucetVars
  BY OthersLeaveTable DEF SyncLoop, bridgeVars
<1>2. QED
  BY <1>1 DEF faucetVars, vars, dbVars, nodeVars,
    localVars, historyVars

LEMMA StepMapsToFaucet ==
  SharedInv /\ [BridgeNext]_bridgeVars => [FaucetStep]_vars
<1> SUFFICES ASSUME SharedInv, [BridgeNext]_bridgeVars
             PROVE  FaucetStep \/ UNCHANGED vars
  OBVIOUS
<1>1. CASE Commit
  BY <1>1, CommitMapsToFaucet
<1>2. CASE SyncLoop \/ UNCHANGED bridgeVars
  BY <1>2, SyncStuttersOnFaucet
<1>3. CASE DripLoop
  BY <1>3 DEF DripLoop, FaucetStep, Process
<1>4. CASE StartFails \/ Die \/ ComeBack \/ Mine
  BY <1>4 DEF StartFails, Die, ComeBack, Mine, FaucetStep, Process
<1>5. CASE World
  <2>1. CASE Syncer!NewBlock /\ UNCHANGED faucetVars
    <3>1. UNCHANGED deposits
      BY <1>5, OthersLeaveTable
    <3>2. QED
      BY <2>1, <3>1 DEF faucetVars, vars, dbVars, nodeVars,
        localVars, historyVars
  <2>2. QED
    BY <1>5, <2>1 DEF World, NodeActivity, FaucetStep
<1>6. QED
  BY <1>1, <1>2, <1>3, <1>4, <1>5 DEF BridgeNext

(* The syncer's insertions into the shared table are the appended rows the  *)
(* faucet was said to expect (SaveSyncedData beside faucet.go): the tables, *)
(* the wallet and the goroutine go through steps of the faucet alone.       *)
THEOREM FaucetUndisturbed == BridgeSpec => ImplementsFaucet
<1>1. BridgeInit => Init
  BY DEF BridgeInit
<1>2. QED
  BY <1>1, StepMapsToFaucet, SharedAlways, PTL DEF BridgeSpec, ImplementsFaucet

-----------------------------------------------------------------------------
(* From the event to the drip.                                              *)

DueRow(i) ==
  /\ i \in DOMAIN deposits
  /\ deposits[i].event \notin MetisEvents
  /\ Height[deposits[i].event] \in DripHeight..head

(* What the syncer is copying lies on the chain.                            *)
SeenInv ==
  /\ head \in Nat /\ number \in Int /\ height \in Int
  /\ targetHeight \in Int /\ targetHeight <= head
  /\ endHeight \in Int /\ endHeight <= head
  /\ \A i \in DOMAIN found : Height[found[i].event] \in 0..head

(* Only rows that were born ignored, or were refused, are not due; the      *)
(* faucet holds none of them.                                               *)
DueInv ==
  /\ \A i \in DOMAIN deposits : deposits[i].status # "ignore" => DueRow(i)
  /\ \A i \in page : DueRow(i)
  /\ pc \in ItemCalls => DueRow(item)
  /\ \A t \in drips : DueRow(t.pid)

LEMMA SeenInvInit == BridgeInit => SeenInv
BY BridgeAssumption DEF BridgeInit, Syncer!Init, SeenInv, Syncer!NoRow

LEMMA SeenInvInductive == SeenInv /\ [BridgeNext]_bridgeVars => SeenInv'
<1> SUFFICES ASSUME SeenInv, [BridgeNext]_bridgeVars PROVE SeenInv'
  OBVIOUS
<1> USE DEF SeenInv, Syncer!tables, Syncer!local
<1>1. CASE Syncer!Prefight
  BY <1>1 DEF Syncer!Prefight, Syncer!InitHeight, Syncer!HeightToStartWith
<1>2. CASE Syncer!PrefightFails
  BY <1>2 DEF Syncer!PrefightFails, Syncer!InitHeight
<1>3. CASE Syncer!BlockNumber \/ Syncer!EndRun \/ Syncer!Restart
  BY <1>3 DEF Syncer!BlockNumber, Syncer!EndRun, Syncer!Restart
<1>4. CASE Syncer!StartRange
  BY <1>4, BridgeAssumption DEF Syncer!StartRange, Syncer!Lower
<1>5. CASE Syncer!FilterEvents
  <2>1. \A i \in DOMAIN found' : found'[i].event \in Syncer!EventsIn(height, endHeight)
    BY <1>5, FilterFinds
  <2>2. \A e \in Syncer!EventsIn(height, endHeight) : Height[e] \in 0..head
    BY BridgeAssumption DEF Syncer!EventsIn
  <2>3. UNCHANGED <<head, number, height, targetHeight, endHeight>>
    BY <1>5 DEF Syncer!FilterEvents
  <2>4. QED
    BY <2>1, <2>2, <2>3
<1>6. CASE Syncer!SaveRange \/ Syncer!SaveRangeUnacknowledged
  BY <1>6, NothingFound DEF Syncer!SaveRange, Syncer!SaveRangeUnacknowledged,
    Syncer!SaveSyncedData
<1>7. CASE Syncer!RunFails
  BY <1>7, NothingFound DEF Syncer!RunFails
<1>8. CASE Syncer!Crash
  BY <1>8, NothingFound DEF Syncer!Crash
<1>9. CASE Syncer!NewBlock
  BY <1>9, BridgeAssumption DEF Syncer!NewBlock
<1>10. CASE UNCHANGED syncVars
  BY <1>10 DEF syncVars
<1>11. QED
  BY <1>1, <1>2, <1>3, <1>4, <1>5, <1>6, <1>7, <1>8, <1>9, <1>10
  DEF BridgeNext, SyncLoop, Commit, DripLoop, StartFails, Die, ComeBack, Mine,
    World, bridgeVars

(* A due row stays due.                                                     *)
LEMMA DueRowStays ==
  ASSUME SharedInv, SeenInv,
         DOMAIN deposits \subseteq DOMAIN deposits',
         \A j \in DOMAIN deposits : deposits'[j].event = deposits[j].event,
         head' \in Nat, head <= head',
         NEW i, DueRow(i)
  PROVE  DueRow(i)'
<1>1. deposits[i] \in Row
  BY DEF SharedInv, DueRow
<1>2. Height[deposits[i].event] \in Nat
  BY <1>1, BridgeAssumption DEF Row
<1>3. Height[deposits[i].event] \in DripHeight..head'
  BY <1>2, BridgeAssumption DEF DueRow, SeenInv
<1>4. QED
  BY <1>3 DEF DueRow

(* The chain only grows, the table too.                                     *)
LEMMA DueRowsStay ==
  ASSUME SharedInv, SeenInv, [BridgeNext]_bridgeVars
  PROVE  /\ \A i : DueRow(i) => DueRow(i)'
         /\ \A i \in DOMAIN deposits : i \in DOMAIN deposits'
<1>1. head' \in Nat /\ head <= head'
  BY DEF SeenInv, BridgeNext, bridgeVars, syncVars, SyncLoop, Commit, DripLoop, StartFails, Die,
    ComeBack, Mine, World, Syncer!Prefight, Syncer!PrefightFails,
    Syncer!BlockNumber, Syncer!StartRange, Syncer!EndRun, Syncer!FilterEvents,
    Syncer!RunFails, Syncer!SaveRange, Syncer!SaveRangeUnacknowledged,
    Syncer!Crash, Syncer!Restart, Syncer!NewBlock
<1>2. /\ DOMAIN deposits \subseteq DOMAIN deposits'
      /\ \A j \in DOMAIN deposits : deposits'[j].event = deposits[j].event
  <2>1. CASE Commit
    <3>1. deposits' = deposits \o found
      BY <2>1, CommitAppends
    <3>2. deposits \in Seq(Row) /\ found \in Seq(Row)
      BY NewRowIsRow DEF SharedInv
    <3>3. QED
      BY <3>1, <3>2, ConcatRows
  <2>2. CASE DripLoop
    BY <2>2, DripUpdates, UpdateKeepsEvents DEF SharedInv
  <2>3. CASE ~Commit /\ ~DripLoop
    <3>1. UNCHANGED deposits
      BY <2>3, OthersLeaveTable DEF BridgeNext
    <3>2. QED
      BY <3>1
  <2>4. QED
    BY <2>1, <2>2, <2>3
<1>3. QED
  BY <1>1, <1>2, DueRowStays

(* The rows a commit adds are due unless formatEvent ignores them.          *)
LEMMA CommittedRowsDue ==
  ASSUME SharedInv, SeenInv, DueInv, Commit
  PROVE  \A i \in DOMAIN deposits' : deposits'[i].status # "ignore" => DueRow(i)'
<1>1. deposits' = deposits \o found
  BY CommitAppends
<1>2. deposits \in Seq(Row) /\ found \in Seq(Row) /\ found \in Seq(NewRow)
  BY NewRowIsRow DEF SharedInv
<1>3. UNCHANGED head
  BY DEF Commit, Syncer!SaveRange, Syncer!SaveRangeUnacknowledged
<1> SUFFICES ASSUME NEW i \in DOMAIN deposits', deposits'[i].status # "ignore"
             PROVE  DueRow(i)'
  OBVIOUS
<1>4. CASE i \in DOMAIN deposits
  <2>1. deposits'[i] = deposits[i]
    BY <1>1, <1>2, <1>4, ConcatRows
  <2>2. DueRow(i)
    BY <1>4, <2>1 DEF DueInv
  <2>3. QED
    BY <2>2, DueRowsStay DEF BridgeNext
<1>5. CASE i \notin DOMAIN deposits
  <2> DEFINE k == i - Len(deposits)
  <2>1. k \in DOMAIN found /\ deposits'[i] = found[k]
    BY <1>1, <1>2, <1>5, ConcatRows
  <2>2. found[k] = Syncer!FormatEvent(found[k].event) /\ found[k] \in NewRow
    BY <1>2, <2>1 DEF SharedInv
  <2>3. found[k].status # "ignore"
    BY <2>1
  <2>4. /\ ~(DripHeight > Height[found[k].event])
        /\ found[k].event \notin MetisEvents
    BY <2>2, <2>3 DEF Syncer!FormatEvent
  <2>5. Height[found[k].event] \in 0..head
    BY <2>1 DEF SeenInv
  <2>6. Height[found[k].event] \in DripHeight..head
    BY <2>4, <2>5, BridgeAssumption
  <2>7. QED
    BY <1>3, <2>1, <2>4, <2>6 DEF DueRow
<1>6. QED
  BY <1>4, <1>5

(* What the faucet takes up: rows of a stream, which are not ignored, one   *)
(* of its page next, and a drip for the one in hand.                        *)
Streamed == {i \in DOMAIN deposits : deposits[i].status \in {"unprocessed", "processing"}}

LEMMA DripHolds ==
  ASSUME DripLoop
  PROVE  /\ page' \subseteq page \cup Streamed
         /\ pc' \in ItemCalls =>
              item' \in page \/ (pc \in ItemCalls /\ item' = item)
         /\ \A t \in drips' : t \in drips \/ (pc \in ItemCalls /\ t.pid = item)
<1> USE DEF ItemCalls, Streamed, dbVars, localVars, Goto,
            LeaveTo, NextItem
<1>1. CASE Initial
  BY <1>1 DEF Initial
<1>2. CASE StartSending
  BY <1>2 DEF StartSending, GetDepositTxStream, Page,
    RowsWith
<1>3. CASE \/ EndSending \/ SendingFails
           \/ \E i \in DOMAIN deposits : TakeDeposit(i)
  BY <1>3 DEF EndSending, SendingFails, TakeDeposit
<1>4. CASE \/ JudgePasses \/ JudgeRefuses
           \/ ProbePasses \/ ProbeRefuses \/ MakeDripTx
  BY <1>4 DEF JudgePasses, JudgeRefuses, ProbePasses,
    ProbeRefuses, MakeDripTx
<1>5. CASE SaveDrip \/ SaveDripUnacknowledged
  BY <1>5 DEF SaveDrip, SaveDripUnacknowledged, NewDrip
<1>6. CASE IgnoreDeposit \/ IgnoreDepositUnacknowledged
  BY <1>6 DEF IgnoreDeposit, IgnoreDepositUnacknowledged,
    NewDripNil
<1>7. CASE SubmitDrip \/ SubmitDripFails
  BY <1>7 DEF SubmitDrip, SubmitDripFails
<1>8. CASE StartChecking
  BY <1>8 DEF StartChecking, GetPendingDripsStream, Page,
    RowsWith
<1>9. CASE \/ EndChecking \/ CheckingFails
           \/ \E t \in drips : TakeDrip(t)
           \/ GetTxStatus \/ ResendDrip
  BY <1>9 DEF EndChecking, CheckingFails, TakeDrip,
    GetTxStatus, ResendDrip
<1>10. CASE ConfirmDrip \/ ConfirmDripUnacknowledged
  BY <1>10 DEF ConfirmDrip, ConfirmDripUnacknowledged,
    UpdateDripStatus
<1>11. QED
  BY <1>1, <1>2, <1>3, <1>4, <1>5, <1>6, <1>7, <1>8, <1>9, <1>10
  DEF DripLoop, SendingPass, CheckingPass

(* The other steps give it nothing new.                                     *)
LEMMA OthersHoldNothing ==
  ASSUME \/ SyncLoop \/ Commit \/ StartFails \/ Die \/ ComeBack \/ Mine
         \/ World \/ UNCHANGED bridgeVars
  PROVE  /\ page' \subseteq page
         /\ pc' \in ItemCalls => pc \in ItemCalls /\ item' = item
         /\ UNCHANGED drips
<1> USE DEF ItemCalls, dbVars, localVars, Goto
<1>1. CASE StartFails \/ Die
  BY <1>1 DEF StartFails, Die, InitialFails, Crash
<1>2. CASE ComeBack
  BY <1>2 DEF ComeBack, Restart
<1>3. CASE Mine
  BY <1>3 DEF Mine, MineNext, MineDrip
<1>4. CASE World
  BY <1>4 DEF World, NodeActivity, faucetVars, EvictDrip, AccountActivity
<1>5. CASE SyncLoop \/ Commit \/ UNCHANGED bridgeVars
  BY <1>5 DEF SyncLoop, Commit, bridgeVars, faucetVars
<1>6. QED
  BY <1>1, <1>2, <1>3, <1>4, <1>5

LEMMA DueInvInductive ==
  SharedInv /\ SeenInv /\ DueInv /\ [BridgeNext]_bridgeVars => DueInv'
<1> SUFFICES ASSUME SharedInv, SeenInv, DueInv, [BridgeNext]_bridgeVars PROVE DueInv'
  OBVIOUS
<1>1. \A i : DueRow(i) => DueRow(i)'
  BY DueRowsStay
<1>2. CASE DripLoop
  <2>1. \A i \in DOMAIN deposits' : deposits'[i].status # "ignore" => DueRow(i)'
    <3>1. /\ DOMAIN deposits' = DOMAIN deposits
          /\ \A j \in DOMAIN deposits :
               deposits'[j] = deposits[j] \/ (pc \in ItemCalls /\ j = item)
      BY <1>2, DripUpdates, UpdateKeepsEvents DEF SharedInv
    <3>2. QED
      BY <1>1, <3>1 DEF DueInv
  <2>2. \A i \in Streamed : DueRow(i)
    BY DEF Streamed, DueInv
  <2>3. \A i \in page' : DueRow(i)
    BY <1>2, <2>2, DripHolds DEF DueInv
  <2>4. pc' \in ItemCalls => DueRow(item')
    BY <1>2, DripHolds DEF DueInv
  <2>5. \A t \in drips' : DueRow(t.pid)
    BY <1>2, DripHolds DEF DueInv
  <2>6. QED
    BY <1>1, <2>1, <2>3, <2>4, <2>5 DEF DueInv, DueRow
<1>3. CASE ~DripLoop
  <2>1. \A i \in DOMAIN deposits' : deposits'[i].status # "ignore" => DueRow(i)'
    <3>1. CASE Commit
      BY <3>1, CommittedRowsDue
    <3>2. CASE ~Commit
      <4>1. UNCHANGED deposits
        BY <1>3, <3>2, OthersLeaveTable DEF BridgeNext
      <4>2. QED
        BY <1>1, <4>1 DEF DueInv
    <3>3. QED
      BY <3>1, <3>2
  <2>2. /\ page' \subseteq page
        /\ pc' \in ItemCalls => pc \in ItemCalls /\ item' = item
        /\ UNCHANGED drips
    BY <1>3, OthersHoldNothing DEF BridgeNext
  <2>3. QED
    BY <1>1, <2>1, <2>2 DEF DueInv, DueRow
<1>4. QED
  BY <1>2, <1>3

LEMMA DueInvInit == BridgeInit => DueInv
<1> SUFFICES ASSUME BridgeInit PROVE DueInv
  OBVIOUS
<1>1. /\ deposits = <<>> /\ drips = {} /\ page = {} /\ pc = "initial"
  BY DEF BridgeInit, Init
<1>2. QED
  BY <1>1, NothingFound DEF DueInv, ItemCalls

(* Whatever fails and whoever is restarted when (formatEvent before the     *)
(* table, shouldTransfer behind it): a drip is only ever granted for a      *)
(* deposit on the chain, not of METIS itself and not older than -height.    *)
THEOREM OnlyDueDrips == BridgeSpec => []DripsAreDue
<1>1. BridgeSpec => [](SharedInv /\ SeenInv /\ DueInv)
  <2>1. BridgeInit => SharedInv /\ SeenInv /\ DueInv
    BY SharedInvInit, SeenInvInit, DueInvInit
  <2>2. SharedInv /\ SeenInv /\ DueInv /\ [BridgeNext]_bridgeVars
          => (SharedInv /\ SeenInv /\ DueInv)'
    BY SharedInvInductive, SeenInvInductive, DueInvInductive
  <2>3. QED
    BY <2>1, <2>2, PTL DEF BridgeSpec
<1>2. DueInv => DripsAreDue
  BY DEF DueInv, DueRow, DripsAreDue
<1>3. QED
  BY <1>1, <1>2, PTL

-----------------------------------------------------------------------------
(* The faucet's own promises, of the faucet in the process.                 *)

(* Rows read off a step are rows Synced may choose; when there are none,    *)
(* nothing happens.                                                         *)
LEMMA AppendedIsSynced ==
  ASSUME deposits \in Seq(Row), appended \in Seq(NewRow), DepositsSynced(appended)
  PROVE  Synced \/ UNCHANGED vars
<1> PICK rows \in Seq(NewRow) : rows = appended
  OBVIOUS
<1>1. DepositsSynced(rows)
  OBVIOUS
<1>2. Len(deposits) \in Nat /\ Len(rows) \in Nat /\ rows \in [1..Len(rows) -> NewRow]
  OBVIOUS
<1>3. Len(deposits) + Len(rows) <= MaxRows /\ deposits' = deposits \o rows
  BY <1>1 DEF DepositsSynced
<1>4. CASE Len(rows) = 0
  <2>1. rows = <<>>
    BY <1>4
  <2>2. deposits' = deposits
    BY <1>3, <2>1
  <2>3. QED
    BY <1>1, <2>2 DEF DepositsSynced, vars, dbVars
<1>5. CASE Len(rows) # 0
  <2>1. Len(rows) \in 1..(MaxRows - Len(deposits))
    BY <1>2, <1>3, <1>5, BoundsAssumption
  <2>2. QED
    BY <1>1, <1>2, <2>1 DEF Synced
<1>6. QED
  BY <1>4, <1>5

LEMMA FaucetStepIsNext ==
  ASSUME deposits \in Seq(Row), [FaucetStep]_vars
  PROVE  [Next]_vars
BY AppendedIsSynced DEF FaucetStep, Next, Environment

(* The process, looked at through the faucet's variables, is the faucet of  *)
(* Faucet: with all that is proved of it (main.go, NewMetis).               *)
THEOREM ProcessIsFaucet == BridgeSpec => Spec
<1>1. BridgeInit => Init
  BY DEF BridgeInit
<1>2. SharedInv /\ [BridgeNext]_bridgeVars => [Next]_vars
  BY StepMapsToFaucet, FaucetStepIsNext DEF SharedInv
<1>3. QED
  BY <1>1, <1>2, SharedAlways, PTL DEF BridgeSpec, Spec

(* The real syncer beside it, and the process as a whole dying and coming   *)
(* back, leave the faucet's promise standing: deposits are judged once,     *)
(* an address is granted one drip, a drip is executed at most once.         *)
THEOREM ProcessKeepsLedger == BridgeSpec => ImplementsLedger
BY ProcessIsFaucet, FaucetImplementsLedger

(* Its safety invariants hold of the process, too.                          *)
THEOREM ProcessKeepsPromises ==
  BridgeSpec => /\ []OneDripPerAddress /\ []StatusMatchesDrips /\ []WriteAhead
                /\ []DoneMeansExecuted /\ []DripsGoToFreshAccounts
                /\ []NoNonceGap /\ []NoncesUniqueUnlessBehind
BY ProcessIsFaucet, OneDrip, StatusTellsDrips, WrittenAhead, DoneIsExecuted,
   RecipientsWereFresh, NoGap, NoncesUniqueOrBehind, PTL

(* From the bridge event to the money: each executed transfer pays the      *)
(* recipient of a deposit that is due, and no recipient is paid twice       *)
(* (formatEvent, shouldTransfer, makeDripTx, NewDrip before                 *)
(* SendTransaction; SaveSyncedData may have recorded the event twice).      *)
THEOREM TransfersDue == BridgeSpec => []TransfersAreDue
<1>1. BridgeSpec => [](PaysDepositor /\ WriteAhead /\ OneDripPerAddress)
  BY ProcessIsFaucet, DepositorIsPaid, WrittenAhead, OneDrip, PTL
<1>2. PaysDepositor /\ WriteAhead /\ OneDripPerAddress /\ DripsAreDue
        => TransfersAreDue
  <2> SUFFICES ASSUME PaysDepositor, WriteAhead, OneDripPerAddress, DripsAreDue,
                      NEW t \in mined
               PROVE  /\ t.to = To[deposits[t.pid].event]
                      /\ deposits[t.pid].event \notin MetisEvents
                      /\ Height[deposits[t.pid].event] \in DripHeight..head
                      /\ \A u \in mined : u.to = t.to => u = t
    BY DEF TransfersAreDue
  <2>1. mined \subseteq drips
    BY DEF WriteAhead
  <2>2. t.to = To[deposits[t.pid].event]
    BY <2>1 DEF PaysDepositor, Recipient
  <2>3. /\ deposits[t.pid].event \notin MetisEvents
        /\ Height[deposits[t.pid].event] \in DripHeight..head
    BY <2>1 DEF DripsAreDue
  <2>4. \A u \in mined : u.to = t.to => u = t
    BY <2>1 DEF OneDripPerAddress
  <2>5. QED
    BY <2>2, <2>3, <2>4
<1>3. QED
  BY <1>1, <1>2, OnlyDueDrips, PTL

(* However long the process runs and whatever fails, it pays for no more    *)
(* transfers than there are accounts (one drip per address, and nothing     *)
(* sent that is not a drip).                                                *)
SpendingIsBounded ==
  IsFiniteSet(Addr) => IsFiniteSet(mined) /\ Cardinality(mined) <= Cardinality(Addr)

THEOREM SpendingBounded == BridgeSpec => []SpendingIsBounded
<1>1. TypeOK /\ WriteAhead /\ OneDripPerAddress => SpendingIsBounded
  <2> SUFFICES ASSUME TypeOK, WriteAhead, OneDripPerAddress, IsFiniteSet(Addr)
               PROVE  IsFiniteSet(mined) /\ Cardinality(mined) <= Cardinality(Addr)
    BY DEF SpendingIsBounded
  <2> DEFINE payee == [t \in mined |-> t.to]
  <2>1. payee \in [mined -> Addr]
    BY DEF TypeOK, Drip
  <2>2. \A t, u \in mined : payee[t] = payee[u] => t = u
    BY DEF WriteAhead, OneDripPerAddress
  <2>3. payee \in Injection(mined, Addr)
    BY <2>1, <2>2 DEF Injection, IsInjective
  <2> HIDE DEF payee
  <2>4. QED
    BY <2>3, FS_Injection
<1>2. QED
  BY <1>1, ProcessIsFaucet, TypeCorrect, WrittenAhead, OneDrip, PTL
=============================================================================
