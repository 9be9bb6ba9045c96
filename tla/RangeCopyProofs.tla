--------------------------- MODULE RangeCopyProofs ---------------------------
(***************************************************************************)
(* Theorems about the copy of a range, call by call: it implements the two *)
(* strokes of DataSync and cleans up after itself, for every chain, every  *)
(* capacity of the channel and any number of faults.                       *)
(***************************************************************************)
EXTENDS RangeCopy, DataSyncProofs

(* The types of DataSync's variables.  The rows about to be saved are new.  *)
SyncTypes ==
  /\ number \in Nat \cup {NoRow}
  /\ head \in Nat
  /\ pc \in PC
  /\ height \in Nat /\ targetHeight \in Nat /\ endHeight \in Nat
  /\ found \in Seq(NewRow)

TypeInv == CallTypeOK /\ SyncTypes

(* The call is the stroke that pc names; only the deferred calls outlive it.*)
StepFitsPc ==
  /\ step = "none" => pc \notin {"filter", "save"}
  /\ step \in {"header", "query", "next"} => pc = "filter"
  /\ step \in {"begin", "insert", "commit"} => pc = "save"
  /\ step \in {"close", "closing", "cancel"} => pc \in {"wait", "range"}

(* The library's goroutine is gone when the call is about to return and     *)
(* until the next one has its answer.  The iterator has heard of its end    *)
(* only when it is gone and, as nobody told it to quit, has handed over all *)
(* logs.                                                                   *)
IteratorInv ==
  /\ sub = "gone" => rest = <<>>
  /\ step \in {"none", "header", "query", "cancel"} => sub = "gone"
  /\ step \in {"none", "header", "query"} => logs = <<>> /\ ~done /\ listed = <<>>
  /\ step = "next" => sub \in {"running", "gone"}
  /\ step = "next" /\ done => sub = "gone"

(* s is cut in three: what is listed, what waits in the channel and what is *)
(* still to be handed over.                                                 *)
IsAnswer(s) ==
  /\ Len(s) = Len(listed) + Len(logs) + Len(rest)
  /\ \A i \in 1..Len(listed) : listed[i] = FormatEvent(s[i])
  /\ \A i \in 1..Len(logs) : logs[i] = s[Len(listed) + i]
  /\ \A i \in 1..Len(rest) : rest[i] = s[Len(listed) + Len(logs) + i]

Answers == Listings(EventsIn(height, endHeight))

AnswerInv == step = "next" => \E s \in Answers : IsAnswer(s)

(* What the transaction has written is a part of the rows to be saved, and  *)
(* when it is to be committed, all of them, unless its context is done and  *)
(* it may have been rolled back.                                           *)
Written ==
  /\ Len(tx.rows) <= Len(found)
  /\ \A i \in 1..Len(tx.rows) : tx.rows[i] = found[i]
  /\ Storable(tx.rows)

TxInv ==
  /\ step \in {"none", "header", "query", "next", "begin"} => tx = NoTx
  /\ live /\ step \in {"insert", "commit"} => Written
  /\ live /\ step = "commit" => Len(tx.rows) = Len(found) /\ tx.tail = endHeight

CopyInv == TypeInv /\ StepFitsPc /\ IteratorInv /\ AnswerInv /\ TxInv

-----------------------------------------------------------------------------
LEMMA FormatEventIsNew ==
  ASSUME NEW e \in Event PROVE FormatEvent(e) \in NewRow
BY DEF FormatEvent, NewRow

LEMMA AnswerType ==
  ASSUME NEW s \in Answers
  PROVE  s \in Seq(Event)
<1> DEFINE S == EventsIn(height, endHeight)
<1>1. S \subseteq Event
  BY DEF EventsIn
<1>2. Cardinality(S) \in Nat
  BY <1>1, HeightAssumption, FS_Subset, FS_CardinalityType
<1>3. s \in [1..Cardinality(S) -> S]
  BY DEF Answers, Listings
<1>4. QED
  BY <1>1, <1>2, <1>3

(* What is left of a sequence when its first element is taken, and what is  *)
(* there when one is added.                                                 *)
LEMMA TakeFirst ==
  ASSUME NEW S, NEW q \in Seq(S), q # <<>>
  PROVE  /\ Head(q) \in S /\ Head(q) = q[1]
         /\ Tail(q) \in Seq(S)
         /\ Len(q) \in Nat \ {0} /\ Len(Tail(q)) = Len(q) - 1
         /\ \A i \in 1..Len(Tail(q)) : Tail(q)[i] = q[i + 1]
OBVIOUS

LEMMA AddLast ==
  ASSUME NEW S, NEW q \in Seq(S), NEW x \in S
  PROVE  /\ Append(q, x) \in Seq(S)
         /\ Len(q) \in Nat /\ Len(Append(q, x)) = Len(q) + 1
         /\ Append(q, x)[Len(q) + 1] = x
         /\ \A i \in 1..Len(q) : Append(q, x)[i] = q[i]
OBVIOUS

-----------------------------------------------------------------------------
(* Types.                                                                   *)
TxType == [rows : Seq(NewRow), tail : Nat \cup {NoRow}, open : BOOLEAN]

LEMMA NoTxType == NoTx \in TxType
BY DEF NoTx, TxType

LEMMA EmptyTypes == <<>> \in Seq(Event) /\ <<>> \in Seq(NewRow)
OBVIOUS

LEMMA LeaveCallTypes ==
  ASSUME CallTypeOK, NEW d \in BOOLEAN, LeaveCall(d),
         sub' \in {"running", "quit", "gone"}, rest' \in Seq(Event)
  PROVE  CallTypeOK'
<1>1. tx' \in TxType /\ logs' \in Seq(Event) /\ listed' \in Seq(NewRow)
  BY NoTxType, EmptyTypes DEF LeaveCall
<1>2. left' \subseteq LeftTx
  <2>1. [locked |-> tx.tail # NoRow, doomed |-> d] \in LeftTx
    BY DEF LeftTx
  <2>2. QED
    BY <2>1 DEF LeaveCall, CallTypeOK
<1>3. step' \in Steps /\ live' \in BOOLEAN /\ done' \in BOOLEAN
  BY DEF LeaveCall, Steps
<1>4. QED
  BY <1>1, <1>2, <1>3 DEF CallTypeOK, TxType

LEMMA LockHeightTypes ==
  ASSUME TypeInv, LockHeight \/ UNCHANGED tx
  PROVE  tx' \in TxType
<1>1. tx \in TxType /\ endHeight \in Nat
  BY DEF TypeInv, CallTypeOK, SyncTypes, TxType
<1>2. QED
  BY <1>1 DEF LockHeight, TxType

LEMMA OutsideTypes == TypeInv /\ Outside => TypeInv'
<1> SUFFICES ASSUME TypeInv, Outside PROVE TypeInv'
  OBVIOUS
<1>1. CallTypeOK'
  BY DEF TypeInv, CallTypeOK, Outside, callVars, iteratorVars, txVars
<1>2. SyncTypes'
  <2> USE DEF TypeInv, SyncTypes, PC, tables, local
  <2>1. CASE Prefight
    BY <2>1 DEF Prefight, InitHeight, HeightToStartWith, NoRow
  <2>2. CASE PrefightFails
    BY <2>2 DEF PrefightFails, InitHeight, NoRow
  <2>3. CASE Restart
    BY <2>3 DEF Restart
  <2>4. CASE BlockNumber
    BY <2>4 DEF BlockNumber
  <2>5. CASE EndRun
    BY <2>5 DEF EndRun
  <2>6. CASE RunFails
    BY <2>6 DEF RunFails
  <2>7. QED
    BY <2>1, <2>2, <2>3, <2>4, <2>5, <2>6 DEF Outside
<1>3. QED
  BY <1>1, <1>2 DEF TypeInv

LEMMA ReturnErrorTypes == TypeInv /\ ReturnError => SyncTypes' /\ step' \in Steps
BY DEF TypeInv, SyncTypes, ReturnError, PC, Steps, tables

LEMMA CommitTypes ==
  ASSUME TypeInv, Commit, height' = height \/ height' = endHeight + 1,
         pc' \in {"range", "wait"}
  PROVE  TypeInv'
<1>1. SyncTypes'
  BY DEF TypeInv, CallTypeOK, SyncTypes, Commit, PC
<1>2. CallTypeOK'
  BY NoTxType DEF TypeInv, CallTypeOK, Commit, iteratorVars, Steps, TxType
<1>3. QED
  BY <1>1, <1>2 DEF TypeInv

LEMMA CallTypes ==
  ASSUME TypeInv,
         \/ Call \/ CallFails \/ HeaderByNumber \/ NextFails
         \/ NextHearsEnd \/ NextEnds \/ InsertRefused
  PROVE  TypeInv'
<1> USE DEF TypeInv, Steps
<1>1. CASE Call
  <2>1. SyncTypes'
    BY <1>1, RangeAssumption, SyncBoundsAssumption DEF Call, StartRange, Lower, SyncTypes, PC,
      tables
  <2>2. CallTypeOK'
    BY <1>1 DEF Call, CallTypeOK, iteratorVars, txVars
  <2>3. QED
    BY <2>1, <2>2
<1>2. CASE CallFails \/ InsertRefused
  <2>1. ReturnError /\ UNCHANGED <<live, iteratorVars, left>>
    BY <1>2 DEF CallFails, InsertRefused, txVars
  <2>2. tx' \in TxType
    BY <1>2, LockHeightTypes DEF CallFails, InsertRefused, txVars
  <2>3. QED
    BY <2>1, <2>2, ReturnErrorTypes DEF CallTypeOK, iteratorVars, TxType
<1>3. CASE HeaderByNumber
  BY <1>3 DEF HeaderByNumber, CallTypeOK, SyncTypes, vars, local, tables,
     iteratorVars, txVars
<1>4. CASE NextFails
  <2>1. logs' \in Seq(Event)
    BY <1>4, TakeFirst DEF NextFails, CallTypeOK
  <2>2. ReturnError /\ UNCHANGED <<live, rest, sub, done, listed, tx, left>>
    BY <1>4 DEF NextFails, txVars
  <2>3. QED
    BY <2>1, <2>2, ReturnErrorTypes DEF CallTypeOK
<1>5. CASE NextHearsEnd
  BY <1>5 DEF NextHearsEnd, CallTypeOK, SyncTypes, vars, local, tables, txVars
<1>6. CASE NextEnds
  <2>1. SyncTypes'
    BY <1>6 DEF NextEnds, CallTypeOK, SyncTypes, tables, PC
  <2>2. CallTypeOK'
    BY <1>6 DEF NextEnds, CallTypeOK, iteratorVars, txVars
  <2>3. QED
    BY <2>1, <2>2
<1>7. QED
  BY <1>1, <1>2, <1>3, <1>4, <1>5, <1>6

LEMMA SyncTypesStay == SyncTypes /\ UNCHANGED vars => SyncTypes'
BY DEF SyncTypes, vars, local, tables

LEMMA IteratorTypes ==
  ASSUME TypeInv, FilterDepositFinalized \/ NextLog \/ HandOver \/ SubscriptionEnds
  PROVE  TypeInv'
<1> USE DEF TypeInv
<1>1. SyncTypes'
  <2>1. UNCHANGED vars
    BY DEF FilterDepositFinalized, NextLog, HandOver, SubscriptionEnds
  <2>2. QED
    BY <2>1, SyncTypesStay
<1>2. CASE FilterDepositFinalized
  <2>1. rest' \in Seq(Event)
    BY <1>2, AnswerType DEF FilterDepositFinalized, Answers
  <2>2. QED
    BY <1>1, <1>2, <2>1 DEF FilterDepositFinalized, CallTypeOK, Steps, txVars
<1>3. CASE NextLog
  <2>1. Head(logs) \in Event /\ logs' \in Seq(Event)
    BY <1>3, TakeFirst DEF NextLog, CallTypeOK
  <2>2. listed' \in Seq(NewRow)
    BY <1>3, <2>1, FormatEventIsNew, AddLast DEF NextLog, CallTypeOK
  <2>3. QED
    BY <1>1, <1>3, <2>1, <2>2 DEF NextLog, CallTypeOK, txVars
<1>4. CASE HandOver
  <2>1. Head(rest) \in Event /\ rest' \in Seq(Event)
    BY <1>4, TakeFirst DEF HandOver, CallTypeOK
  <2>2. logs' \in Seq(Event)
    BY <1>4, <2>1, AddLast DEF HandOver, CallTypeOK
  <2>3. QED
    BY <1>1, <1>4, <2>1, <2>2 DEF HandOver, CallTypeOK, txVars
<1>5. CASE SubscriptionEnds
  BY <1>1, <1>5, EmptyTypes DEF SubscriptionEnds, CallTypeOK, txVars
<1>6. QED
  BY <1>2, <1>3, <1>4, <1>5

LEMMA TxTypes ==
  ASSUME TypeInv, BeginTx \/ Insert \/ UpdateHeight \/ RollBack
  PROVE  TypeInv'
<1> USE DEF TypeInv
<1>1. SyncTypes'
  <2>1. UNCHANGED vars
    BY DEF BeginTx, Insert, UpdateHeight, RollBack, RollBackOpen, RollBackLeft
  <2>2. QED
    BY <2>1, SyncTypesStay
<1>2. CASE BeginTx
  <2>1. tx' \in TxType
    BY <1>2, NoTxType DEF BeginTx, TxType
  <2>2. QED
    BY <1>1, <1>2, <2>1 DEF BeginTx, CallTypeOK, Steps, iteratorVars, TxType
<1>3. CASE Insert
  <2>1. tx.rows \in Seq(NewRow) /\ found \in Seq(NewRow)
    BY DEF CallTypeOK, SyncTypes
  <2>2. NextRow \in NewRow
    BY <1>3, <2>1 DEF Insert, NextRow
  <2>3. Append(tx.rows, NextRow) \in Seq(NewRow)
    BY <2>1, <2>2, AddLast
  <2>4. tx' \in TxType
    BY <1>3, <2>3 DEF Insert, CallTypeOK, TxType
  <2>5. QED
    BY <1>1, <1>3, <2>4 DEF Insert, CallTypeOK, iteratorVars, TxType
<1>4. CASE UpdateHeight
  <2>1. tx' \in TxType
    BY <1>4, LockHeightTypes DEF UpdateHeight
  <2>2. QED
    BY <1>1, <1>4, <2>1 DEF UpdateHeight, CallTypeOK, Steps, iteratorVars, TxType
<1>5. CASE RollBackOpen
  BY <1>1, <1>5, NoTxType DEF RollBackOpen, CallTypeOK, iteratorVars, TxType
<1>6. CASE \E t \in left : RollBackLeft(t)
  BY <1>1, <1>6 DEF RollBackLeft, CallTypeOK, iteratorVars
<1>7. QED
  BY <1>2, <1>3, <1>4, <1>5, <1>6 DEF RollBack

LEMMA EndTypes ==
  ASSUME TypeInv, Expire \/ Close \/ Closed \/ Return
  PROVE  TypeInv'
<1> USE DEF TypeInv
<1>1. SyncTypes'
  <2>1. UNCHANGED vars
    BY DEF Expire, Close, Closed, Return
  <2>2. QED
    BY <2>1, SyncTypesStay
<1>2. CASE Expire
  BY <1>1, <1>2 DEF Expire, CallTypeOK, iteratorVars, txVars
<1>3. CASE Close
  BY <1>1, <1>3 DEF Close, CallTypeOK, Steps, txVars
<1>4. CASE Closed
  BY <1>1, <1>4 DEF Closed, CallTypeOK, Steps, iteratorVars, txVars
<1>5. CASE Return
  BY <1>1, <1>5, LeaveCallTypes DEF Return, CallTypeOK
<1>6. QED
  BY <1>2, <1>3, <1>4, <1>5

THEOREM TypeInvInductive == TypeInv /\ [CopyNext]_copyVars => TypeInv'
<1> SUFFICES ASSUME TypeInv, [CopyNext]_copyVars PROVE TypeInv'
  OBVIOUS
<1>1. CASE Outside
  BY <1>1, OutsideTypes
<1>2. CASE \/ Call \/ CallFails \/ HeaderByNumber \/ NextFails
           \/ NextHearsEnd \/ NextEnds \/ InsertRefused
  BY <1>2, CallTypes
<1>3. CASE FilterDepositFinalized \/ NextLog \/ Library
  BY <1>3, IteratorTypes DEF Library
<1>4. CASE \/ BeginTx \/ Insert \/ UpdateHeight \/ RollBack
           \/ Expire \/ Close \/ Closed \/ Return
  BY <1>4, TxTypes, EndTypes
<1>5. CASE CommitAnswered
  BY <1>5, CommitTypes DEF CommitAnswered
<1>6. CASE CommitUnanswered
  BY <1>6, CommitTypes DEF CommitUnanswered
<1>7. CASE CrashInCall
  <2>1. SyncTypes'
    BY <1>7 DEF CrashInCall, Crash, tables, TypeInv, SyncTypes, PC
  <2>2. CallTypeOK'
    BY <1>7, LeaveCallTypes, EmptyTypes DEF CrashInCall, TypeInv
  <2>3. QED
    BY <2>1, <2>2 DEF TypeInv
<1>8. CASE BlockArrives
  <2>1. SyncTypes'
    BY <1>8 DEF BlockArrives, NewBlock, tables, local, TypeInv, SyncTypes
  <2>2. CallTypeOK'
    BY <1>8 DEF BlockArrives, callVars, iteratorVars, txVars, TypeInv, CallTypeOK
  <2>3. QED
    BY <2>1, <2>2 DEF TypeInv
<1>9. CASE UNCHANGED copyVars
  BY <1>9, SyncTypesStay DEF copyVars, callVars, iteratorVars, txVars, TypeInv,
     CallTypeOK
<1>10. QED
  BY <1>1, <1>2, <1>3, <1>4, <1>5, <1>6, <1>7, <1>8, <1>9
     DEF CopyNext, CopyRange

LEMMA TypeInvInitially == CopyInit => TypeInv
<1> SUFFICES ASSUME CopyInit PROVE TypeInv
  OBVIOUS
<1>1. SyncTypes
  BY RangeAssumption, SyncBoundsAssumption DEF CopyInit, Init, SyncTypes, PC, NoRow
<1>2. CallTypeOK
  BY EmptyTypes, NoTxType DEF CopyInit, CallTypeOK, Steps, TxType
<1>3. QED
  BY <1>1, <1>2 DEF TypeInv

(* The variables of the call hold values of their types.                    *)
THEOREM CallTypeCorrect == CopySpec => []CallTypeOK
<1>1. TypeInv => CallTypeOK
  BY DEF TypeInv
<1>2. QED
  BY <1>1, TypeInvInitially, TypeInvInductive, PTL DEF CopySpec

-----------------------------------------------------------------------------
(* Control: the step of the call, its stroke, and the iterator's goroutine. *)
ControlInv == StepFitsPc /\ IteratorInv

LEMMA OutsideControls == ControlInv /\ Outside => ControlInv'
<1> SUFFICES ASSUME ControlInv, Outside PROVE ControlInv'
  OBVIOUS
<1>1. step = "none" /\ UNCHANGED callVars
  BY DEF Outside
<1>2. pc' \notin {"filter", "save"}
  BY DEF Outside, Prefight, PrefightFails, Restart,
         BlockNumber, EndRun, RunFails
<1>3. StepFitsPc'
  BY <1>1, <1>2 DEF callVars, StepFitsPc
<1>4. IteratorInv'
  BY <1>1 DEF ControlInv, IteratorInv, callVars, iteratorVars
<1>5. QED
  BY <1>3, <1>4 DEF ControlInv

LEMMA LibraryControls == ControlInv /\ Library => ControlInv'
<1> SUFFICES ASSUME ControlInv, Library PROVE ControlInv'
  OBVIOUS
<1> USE DEF ControlInv, IteratorInv
<1>1. StepFitsPc' /\ step' = step /\ done' = done
  BY DEF Library, HandOver, SubscriptionEnds, StepFitsPc, vars, local
<1>2. step \notin {"none", "header", "query", "cancel"}
  BY DEF Library, HandOver, SubscriptionEnds
<1>3. step = "next" => sub = "running"
  BY DEF Library, HandOver, SubscriptionEnds
<1>4. CASE HandOver
  BY <1>1, <1>2, <1>3, <1>4 DEF HandOver
<1>5. CASE SubscriptionEnds
  BY <1>1, <1>2, <1>3, <1>5 DEF SubscriptionEnds
<1>6. QED
  BY <1>4, <1>5 DEF Library

THEOREM ControlInvInductive == ControlInv /\ [CopyNext]_copyVars => ControlInv'
<1> SUFFICES ASSUME ControlInv, [CopyNext]_copyVars PROVE ControlInv'
  OBVIOUS
<1> USE DEF ControlInv
<1>1. CASE Outside
  BY <1>1, OutsideControls
<1>2. CASE Library
  BY <1>2, LibraryControls
<1>3. CASE Call \/ HeaderByNumber
  <2>1. StepFitsPc'
    BY <1>3 DEF Call, StartRange, HeaderByNumber, vars, local, StepFitsPc
  <2>2. IteratorInv'
    BY <1>3 DEF Call, HeaderByNumber, iteratorVars, IteratorInv
  <2>3. QED
    BY <2>1, <2>2
<1>4. CASE CallFails \/ NextFails \/ InsertRefused \/ CommitAnswered
           \/ CommitUnanswered
  <2>1. step' = "close" /\ pc' \in {"wait", "range"} /\ sub' = sub /\ rest' = rest
    BY <1>4 DEF CallFails, NextFails, InsertRefused, ReturnError,
                CommitAnswered, CommitUnanswered, Commit, iteratorVars
  <2>2. QED
    BY <2>1 DEF StepFitsPc, IteratorInv
<1>5. CASE FilterDepositFinalized
  <2>1. StepFitsPc'
    BY <1>5 DEF FilterDepositFinalized, vars, local, StepFitsPc
  <2>2. IteratorInv'
    BY <1>5 DEF FilterDepositFinalized, IteratorInv
  <2>3. QED
    BY <2>1, <2>2
<1>6. CASE NextLog \/ NextHearsEnd
  <2>1. StepFitsPc'
    BY <1>6 DEF NextLog, NextHearsEnd, vars, local, StepFitsPc
  <2>2. IteratorInv'
    BY <1>6 DEF NextLog, NextHearsEnd, IteratorInv
  <2>3. QED
    BY <2>1, <2>2
<1>7. CASE NextEnds \/ BeginTx \/ Insert \/ UpdateHeight
  <2>1. /\ StepFitsPc' /\ step' \in {"begin", "insert", "commit"}
        /\ sub' = sub /\ rest' = rest
    BY <1>7 DEF NextEnds, BeginTx, Insert, UpdateHeight, LockHeight, vars, local,
       StepFitsPc, iteratorVars
  <2>2. QED
    BY <2>1 DEF IteratorInv
<1>8. CASE Close \/ Closed
  <2>1. /\ StepFitsPc' /\ step' \in {"closing", "cancel"} /\ rest' = rest
        /\ sub' = "gone" => sub = "gone"
        /\ step' = "cancel" => sub' = "gone"
    BY <1>8 DEF Close, Closed, vars, local, StepFitsPc, iteratorVars
  <2>2. QED
    BY <2>1 DEF IteratorInv
<1>9. CASE Return \/ CrashInCall
  <2>1. StepFitsPc'
    BY <1>9 DEF Return, CrashInCall, LeaveCall, Crash, vars, local, StepFitsPc
  <2>2. IteratorInv'
    BY <1>9 DEF Return, CrashInCall, LeaveCall, IteratorInv
  <2>3. QED
    BY <2>1, <2>2
<1>10. CASE BlockArrives \/ Expire \/ RollBack \/ UNCHANGED copyVars
  <2>1. UNCHANGED <<pc, step, iteratorVars>>
    BY <1>10 DEF BlockArrives, NewBlock, Expire, RollBack, RollBackOpen, RollBackLeft,
       copyVars, vars, local, callVars
  <2>2. QED
    BY <2>1 DEF iteratorVars, StepFitsPc, IteratorInv
<1>11. QED
  BY <1>1, <1>2, <1>3, <1>4, <1>5, <1>6, <1>7, <1>8, <1>9, <1>10
     DEF CopyNext, CopyRange

-----------------------------------------------------------------------------
(* The answer: no log is lost or overtaken between the node and the list.   *)
LEMMA HandOverKeepsAnswer ==
  ASSUME CallTypeOK, HandOver, NEW s \in Seq(Event), IsAnswer(s)
  PROVE  IsAnswer(s)'
<1>1. /\ rest # <<>>
      /\ logs' = Append(logs, Head(rest)) /\ rest' = Tail(rest)
      /\ listed' = listed
      /\ logs \in Seq(Event) /\ rest \in Seq(Event) /\ Len(listed) \in Nat
  BY DEF HandOver, CallTypeOK
<1>2. /\ Head(rest) \in Event /\ Head(rest) = rest[1]
      /\ Len(rest) \in Nat \ {0} /\ Len(rest') = Len(rest) - 1
      /\ \A i \in 1..Len(rest') : rest'[i] = rest[i + 1]
  BY <1>1, TakeFirst
<1>3. /\ Len(logs) \in Nat /\ Len(logs') = Len(logs) + 1
      /\ logs'[Len(logs) + 1] = rest[1]
      /\ \A i \in 1..Len(logs) : logs'[i] = logs[i]
  BY <1>1, <1>2, AddLast
<1>4. Len(s) = Len(listed') + Len(logs') + Len(rest')
  BY <1>1, <1>2, <1>3 DEF IsAnswer
<1>5. \A i \in 1..Len(listed') : listed'[i] = FormatEvent(s[i])
  BY <1>1 DEF IsAnswer
<1>6. rest[1] = s[Len(listed) + Len(logs) + 1]
  BY <1>2 DEF IsAnswer
<1>7. ASSUME NEW i \in 1..Len(logs')
      PROVE  logs'[i] = s[Len(listed') + i]
  <2>1. CASE i \in 1..Len(logs)
    BY <1>1, <1>3, <2>1 DEF IsAnswer
  <2>2. CASE i = Len(logs) + 1
    BY <1>1, <1>3, <1>6, <2>2
  <2>3. QED
    BY <1>3, <2>1, <2>2
<1>8. ASSUME NEW i \in 1..Len(rest')
      PROVE  rest'[i] = s[Len(listed') + Len(logs') + i]
  <2>1. i + 1 \in 1..Len(rest) /\ rest'[i] = rest[i + 1]
    BY <1>2
  <2>2. rest[i + 1] = s[Len(listed) + Len(logs) + (i + 1)]
    BY <2>1 DEF IsAnswer
  <2>3. Len(listed) + Len(logs) + (i + 1) = Len(listed') + Len(logs') + i
    BY <1>1, <1>3
  <2>4. QED
    BY <2>1, <2>2, <2>3
<1>9. QED
  BY <1>4, <1>5, <1>7, <1>8 DEF IsAnswer

LEMMA NextLogKeepsAnswer ==
  ASSUME CallTypeOK, NextLog, NEW s \in Seq(Event), IsAnswer(s)
  PROVE  IsAnswer(s)'
<1>1. /\ logs # <<>>
      /\ listed' = Append(listed, FormatEvent(Head(logs)))
      /\ logs' = Tail(logs) /\ rest' = rest
      /\ logs \in Seq(Event) /\ listed \in Seq(NewRow) /\ Len(rest) \in Nat
  BY DEF NextLog, CallTypeOK
<1>2. /\ Head(logs) \in Event /\ Head(logs) = logs[1]
      /\ Len(logs) \in Nat \ {0} /\ Len(logs') = Len(logs) - 1
      /\ \A i \in 1..Len(logs') : logs'[i] = logs[i + 1]
  BY <1>1, TakeFirst
<1>3. /\ Len(listed) \in Nat /\ Len(listed') = Len(listed) + 1
      /\ listed'[Len(listed) + 1] = FormatEvent(logs[1])
      /\ \A i \in 1..Len(listed) : listed'[i] = listed[i]
  BY <1>1, <1>2, FormatEventIsNew, AddLast
<1>4. Len(s) = Len(listed') + Len(logs') + Len(rest')
  BY <1>1, <1>2, <1>3 DEF IsAnswer
<1>5. logs[1] = s[Len(listed) + 1]
  BY <1>2 DEF IsAnswer
<1>6. ASSUME NEW i \in 1..Len(listed')
      PROVE  listed'[i] = FormatEvent(s[i])
  <2>1. CASE i \in 1..Len(listed)
    BY <1>3, <2>1 DEF IsAnswer
  <2>2. CASE i = Len(listed) + 1
    BY <1>3, <1>5, <2>2
  <2>3. QED
    BY <1>3, <2>1, <2>2
<1>7. ASSUME NEW i \in 1..Len(logs')
      PROVE  logs'[i] = s[Len(listed') + i]
  <2>1. i + 1 \in 1..Len(logs) /\ logs'[i] = logs[i + 1]
    BY <1>2
  <2>2. logs[i + 1] = s[Len(listed) + (i + 1)]
    BY <2>1 DEF IsAnswer
  <2>3. Len(listed) + (i + 1) = Len(listed') + i
    BY <1>3
  <2>4. QED
    BY <2>1, <2>2, <2>3
<1>8. ASSUME NEW i \in 1..Len(rest')
      PROVE  rest'[i] = s[Len(listed') + Len(logs') + i]
  <2>1. Len(listed') + Len(logs') = Len(listed) + Len(logs)
    BY <1>2, <1>3
  <2>2. QED
    BY <1>1, <2>1 DEF IsAnswer
<1>9. QED
  BY <1>4, <1>6, <1>7, <1>8 DEF IsAnswer

LEMMA AnswersStay ==
  ASSUME height' = height, endHeight' = endHeight
  PROVE  Answers' = Answers
BY DEF Answers, Listings, EventsIn

LEMMA AnswerArrives ==
  ASSUME IteratorInv, FilterDepositFinalized
  PROVE  AnswerInv'
<1>1. /\ rest' \in Answers /\ Answers' = Answers
      /\ listed' = <<>> /\ logs' = <<>>
  BY AnswersStay DEF FilterDepositFinalized, IteratorInv, Answers, vars, local
<1>2. PICK s \in Answers : s = rest'
  BY <1>1
<1>3. s \in Seq(Event) /\ Len(s) \in Nat
  BY AnswerType
<1>4. Len(listed') = 0 /\ Len(logs') = 0 /\ rest' = s
  BY <1>1, <1>2
<1>5. IsAnswer(s)'
  BY <1>3, <1>4 DEF IsAnswer
<1>6. QED
  BY <1>1, <1>5 DEF AnswerInv

THEOREM AnswerInvInductive ==
  TypeInv /\ ControlInv /\ AnswerInv /\ [CopyNext]_copyVars => AnswerInv'
<1> SUFFICES ASSUME TypeInv, ControlInv, AnswerInv, [CopyNext]_copyVars PROVE AnswerInv'
  OBVIOUS
<1> USE DEF TypeInv, ControlInv
<1>1. CASE FilterDepositFinalized
  BY <1>1, AnswerArrives
<1>2. CASE HandOver \/ NextLog
  <2>1. (step = "next" /\ step' = step) \/ step' # "next"
    BY <1>2 DEF HandOver, NextLog
  <2>2. CASE step' # "next"
    BY <2>2 DEF AnswerInv
  <2>3. CASE step = "next" /\ step' = step
    <3>1. PICK s \in Answers : IsAnswer(s)
      BY <2>3 DEF AnswerInv
    <3>2. IsAnswer(s)'
      BY <1>2, <3>1, AnswerType, HandOverKeepsAnswer, NextLogKeepsAnswer
    <3>3. Answers' = Answers
      BY <1>2, AnswersStay DEF HandOver, NextLog, vars, local
    <3>4. QED
      BY <3>2, <3>3 DEF AnswerInv
  <2>4. QED
    BY <2>1, <2>2, <2>3
<1>3. CASE \/ SubscriptionEnds \/ NextHearsEnd \/ Expire \/ RollBack
           \/ BlockArrives \/ UNCHANGED copyVars
  <2>1. /\ height' = height /\ endHeight' = endHeight /\ step' = step
        /\ UNCHANGED <<listed, logs>>
    BY <1>3 DEF SubscriptionEnds, NextHearsEnd, Expire, RollBack, RollBackOpen,
       RollBackLeft, BlockArrives, NewBlock, local, vars, copyVars, callVars,
       iteratorVars
  <2>2. rest' = rest \/ step # "next"
    BY <1>3 DEF SubscriptionEnds, NextHearsEnd, Expire, RollBack, RollBackOpen,
       RollBackLeft, BlockArrives, copyVars, callVars, iteratorVars, IteratorInv
  <2>3. Answers' = Answers
    BY <2>1, AnswersStay
  <2>4. CASE step # "next"
    BY <2>1, <2>4 DEF AnswerInv
  <2>5. CASE rest' = rest
    <3>1. \A s : IsAnswer(s)' <=> IsAnswer(s)
      BY <2>1, <2>5 DEF IsAnswer
    <3>2. QED
      BY <2>1, <2>3, <3>1 DEF AnswerInv
  <2>6. QED
    BY <2>2, <2>4, <2>5
<1>4. CASE Outside \/ CrashInCall \/ Call \/ CallFails \/ HeaderByNumber \/ NextFails
           \/ NextEnds \/ BeginTx \/ Insert \/ InsertRefused \/ UpdateHeight
           \/ CommitAnswered \/ CommitUnanswered \/ Close \/ Closed \/ Return
  <2>1. step' # "next"
    BY <1>4 DEF Outside, callVars, CrashInCall, Call, CallFails, ReturnError,
       HeaderByNumber, NextFails, NextEnds, BeginTx, Insert, InsertRefused,
       UpdateHeight, CommitAnswered, CommitUnanswered, Commit, Close, Closed,
       Return, LeaveCall
  <2>2. QED
    BY <2>1 DEF AnswerInv
<1>5. QED
  BY <1>1, <1>2, <1>3, <1>4 DEF CopyNext, CopyRange, Library

(* At the end of the iteration the whole answer is listed, in its order.    *)
LEMMA ListIsComplete ==
  ASSUME TypeInv, ControlInv, AnswerInv, NextEnds
  PROVE  \E s \in Answers : listed = [i \in DOMAIN s |-> FormatEvent(s[i])]
<1>1. step = "next" /\ logs = <<>> /\ rest = <<>>
  BY DEF NextEnds, ControlInv, IteratorInv
<1>2. PICK s \in Answers : IsAnswer(s)
  BY <1>1 DEF AnswerInv
<1>3. s \in Seq(Event) /\ listed \in Seq(NewRow)
  BY AnswerType DEF TypeInv, CallTypeOK
<1>4. Len(s) = Len(listed)
  BY <1>1, <1>2, <1>3 DEF IsAnswer
<1>5. /\ DOMAIN s = 1..Len(listed) /\ DOMAIN listed = 1..Len(listed)
      /\ listed = [i \in DOMAIN listed |-> listed[i]]
  BY <1>3, <1>4
<1>6. \A i \in 1..Len(listed) : listed[i] = FormatEvent(s[i])
  BY <1>2 DEF IsAnswer
<1>7. listed = [i \in DOMAIN s |-> FormatEvent(s[i])]
  BY <1>5, <1>6
<1>8. QED
  BY <1>7

-----------------------------------------------------------------------------
(* The transaction.                                                         *)
LEMMA InsertWrites ==
  ASSUME TypeInv, TxInv, Insert
  PROVE  Written'
<1>1. /\ tx.rows \in Seq(NewRow) /\ found \in Seq(NewRow)
      /\ Len(tx.rows) \in Nat /\ Len(found) \in Nat
      /\ Len(tx.rows) < Len(found)
      /\ NextRow = found[Len(tx.rows) + 1]
      /\ NextRow.event \notin Unstorable
  BY DEF TypeInv, CallTypeOK, SyncTypes, Insert, NextRow, Storable
<1>2. NextRow \in NewRow
  BY <1>1
<1>3. tx'.rows = Append(tx.rows, NextRow) /\ found' = found
  BY DEF Insert, vars, local, TypeInv, CallTypeOK
<1>4. /\ Len(tx'.rows) = Len(tx.rows) + 1
      /\ tx'.rows[Len(tx.rows) + 1] = NextRow
      /\ \A i \in 1..Len(tx.rows) : tx'.rows[i] = tx.rows[i]
      /\ DOMAIN tx'.rows = 1..(Len(tx.rows) + 1)
  BY <1>1, <1>2, <1>3, AddLast
<1>5. Written
  BY DEF TxInv, Insert
<1>6. Len(tx'.rows) <= Len(found')
  BY <1>1, <1>3, <1>4
<1>7. ASSUME NEW i \in 1..(Len(tx.rows) + 1)
      PROVE  tx'.rows[i] = found'[i] /\ tx'.rows[i].event \notin Unstorable
  <2>1. CASE i = Len(tx.rows) + 1
    BY <1>1, <1>3, <1>4, <2>1
  <2>2. CASE i \in 1..Len(tx.rows)
    <3>1. i \in DOMAIN tx.rows
      BY <1>1, <2>2
    <3>2. tx.rows[i] = found[i] /\ tx.rows[i].event \notin Unstorable
      BY <1>5, <2>2, <3>1 DEF Written, Storable
    <3>3. QED
      BY <1>3, <1>4, <2>2, <3>2
  <2>3. QED
    BY <1>1, <2>1, <2>2
<1>8. QED
  BY <1>4, <1>6, <1>7 DEF Written, Storable

THEOREM TxInvInductive == TypeInv /\ TxInv /\ [CopyNext]_copyVars => TxInv'
<1> SUFFICES ASSUME TypeInv, TxInv, [CopyNext]_copyVars PROVE TxInv'
  OBVIOUS
<1>1. CASE Call \/ HeaderByNumber \/ FilterDepositFinalized \/ NextLog
           \/ NextHearsEnd \/ NextEnds
  <2>1. tx = NoTx /\ tx' = tx /\ step' \in {"header", "query", "next", "begin"}
    BY <1>1 DEF TxInv, Call, HeaderByNumber, FilterDepositFinalized, NextLog,
       NextHearsEnd, NextEnds, txVars
  <2>2. QED
    BY <2>1 DEF TxInv
<1>2. CASE CallFails \/ NextFails \/ InsertRefused \/ CommitAnswered
           \/ CommitUnanswered \/ Close \/ Closed
  <2>1. step' \in {"close", "closing", "cancel"}
    BY <1>2 DEF CallFails, NextFails, InsertRefused, ReturnError, CommitAnswered,
       CommitUnanswered, Commit, Close, Closed
  <2>2. QED
    BY <2>1 DEF TxInv
<1>3. CASE BeginTx
  <2>1. tx'.rows = <<>> /\ step' = "insert" /\ found' = found
    BY <1>3 DEF BeginTx, NoTx, vars, local
  <2>2. Len(found') \in Nat
    BY <2>1 DEF TypeInv, SyncTypes
  <2>3. QED
    BY <2>1, <2>2 DEF TxInv, Written, Storable
<1>4. CASE Insert
  <2>1. step' = "insert"
    BY <1>4 DEF Insert
  <2>2. QED
    BY <1>4, <2>1, InsertWrites DEF TxInv
<1>5. CASE UpdateHeight
  <2>1. /\ tx'.rows = tx.rows /\ tx'.tail = endHeight
        /\ live /\ step = "insert" /\ step' = "commit"
        /\ Len(tx.rows) = Len(found)
        /\ found' = found /\ endHeight' = endHeight
    BY <1>5 DEF UpdateHeight, LockHeight, vars, local, TypeInv, CallTypeOK
  <2>2. Written'
    BY <2>1 DEF TxInv, Written, Storable
  <2>3. QED
    BY <2>1, <2>2 DEF TxInv
<1>6. CASE Return \/ CrashInCall
  BY <1>6 DEF Return, CrashInCall, LeaveCall, TxInv
<1>7. CASE Outside
  BY <1>7 DEF Outside, callVars, txVars, TxInv
<1>8. CASE Expire \/ RollBackOpen
  <2>1. ~live' /\ step' = step /\ (tx' = tx \/ tx' = NoTx)
    BY <1>8 DEF Expire, RollBackOpen, txVars
  <2>2. QED
    BY <2>1 DEF TxInv
<1>9. CASE Library \/ (\E t \in left : RollBackLeft(t)) \/ BlockArrives
           \/ UNCHANGED copyVars
  <2>1. /\ step' = step /\ live' = live /\ tx' = tx
        /\ found' = found /\ endHeight' = endHeight
    BY <1>9 DEF Library, HandOver, SubscriptionEnds, RollBackLeft, BlockArrives,
       NewBlock, local, copyVars, callVars, txVars, vars
  <2>2. QED
    BY <2>1 DEF TxInv, Written, Storable
<1>10. QED
  BY <1>1, <1>2, <1>3, <1>4, <1>5, <1>6, <1>7, <1>8, <1>9
     DEF CopyNext, CopyRange, RollBack

-----------------------------------------------------------------------------
LEMMA Initially == CopyInit => CopyInv
<1> SUFFICES ASSUME CopyInit PROVE CopyInv
  OBVIOUS
<1>1. step = "none" /\ pc = "preflight" /\ tx = NoTx
  BY DEF CopyInit, Init
<1>2. IteratorInv
  BY DEF CopyInit, IteratorInv
<1>3. QED
  BY <1>1, <1>2, TypeInvInitially DEF CopyInv, StepFitsPc, AnswerInv, TxInv

THEOREM CopyInvariant == CopySpec => []CopyInv
<1>1. CopyInv /\ [CopyNext]_copyVars => CopyInv'
  BY TypeInvInductive, ControlInvInductive, AnswerInvInductive, TxInvInductive
     DEF CopyInv, ControlInv
<1>2. QED
  BY <1>1, Initially, PTL DEF CopySpec

(* However a call ends, with however many logs the channel has room for and *)
(* however many are still to come, the library's goroutine is gone when it  *)
(* has returned (defer iter.Close(), datasync.go:105).                      *)
THEOREM GoroutineIsGone == CopySpec => []NoGoroutineIsLeft
<1>1. CopyInv => NoGoroutineIsLeft
  BY DEF CopyInv, IteratorInv, NoGoroutineIsLeft
<1>2. QED
  BY <1>1, CopyInvariant, PTL

-----------------------------------------------------------------------------
(* The refinement: every step is one of DataSync or leaves it alone.        *)
LEMMA CommitSaves ==
  ASSUME CopyInv, step = "commit", live, Commit
  PROVE  SaveSyncedData(found, endHeight)
<1>1. tx.rows \in Seq(NewRow) /\ found \in Seq(NewRow)
  BY DEF CopyInv, TypeInv, CallTypeOK, SyncTypes
<1>2. /\ Len(tx.rows) = Len(found) /\ tx.tail = endHeight
      /\ \A i \in 1..Len(tx.rows) : tx.rows[i] = found[i]
      /\ Storable(tx.rows)
  BY DEF CopyInv, TxInv, Written
<1>3. tx.rows = found
  BY <1>1, <1>2
<1>4. QED
  BY <1>2, <1>3 DEF Commit, SaveSyncedData, Storable

LEMMA RefusedIsUnstorable ==
  ASSUME CopyInv, InsertRefused
  PROVE  ~Storable(found)
<1>1. /\ tx.rows \in Seq(NewRow) /\ found \in Seq(NewRow)
      /\ Len(tx.rows) < Len(found)
  BY DEF CopyInv, TypeInv, CallTypeOK, SyncTypes, InsertRefused
<1>2. Len(tx.rows) + 1 \in DOMAIN found
  BY <1>1
<1>3. found[Len(tx.rows) + 1].event \in Unstorable
  BY DEF InsertRefused, NextRow, Storable
<1>4. QED
  BY <1>2, <1>3 DEF Storable

THEOREM StepRefines == CopyInv /\ [CopyNext]_copyVars => [Next]_vars
<1> SUFFICES ASSUME CopyInv, [CopyNext]_copyVars PROVE Next \/ UNCHANGED vars
  OBVIOUS
<1> USE DEF Next, Process
<1>1. CASE Outside
  BY <1>1 DEF Outside
<1>2. CASE Call
  BY <1>2 DEF Call
<1>3. CASE CallFails \/ NextFails \/ InsertRefused
  <2>1. pc \in {"filter", "save"}
    BY <1>3 DEF CallFails, NextFails, InsertRefused, CopyInv, StepFitsPc
  <2>2. ReturnError
    BY <1>3 DEF CallFails, NextFails, InsertRefused
  <2>3. Fault \/ (pc = "save" /\ ~Storable(found) /\ UNCHANGED faults)
    BY <1>3, RefusedIsUnstorable DEF CallFails, NextFails, InsertRefused, CopyInv,
       StepFitsPc
  <2>4. RunFails
    BY <2>1, <2>2, <2>3 DEF RunFails, ReturnError, tables
  <2>5. QED
    BY <2>4
<1>4. CASE NextEnds
  <2>1. \E s \in Answers : found' = [i \in DOMAIN s |-> FormatEvent(s[i])]
    BY <1>4, ListIsComplete DEF CopyInv, ControlInv, NextEnds
  <2>2. pc = "filter"
    BY <1>4 DEF NextEnds, CopyInv, StepFitsPc
  <2>3. FilterEvents
    BY <1>4, <2>1, <2>2 DEF NextEnds, FilterEvents, Answers, tables
  <2>4. QED
    BY <2>3
<1>5. CASE CommitAnswered
  <2>1. pc = "save" /\ SaveSyncedData(found, endHeight)
    BY <1>5, CommitSaves DEF CommitAnswered, CopyInv, StepFitsPc
  <2>2. SaveRange
    BY <1>5, <2>1 DEF CommitAnswered, Commit, SaveRange
  <2>3. QED
    BY <2>2
<1>6. CASE CommitUnanswered
  <2>1. pc = "save" /\ SaveSyncedData(found, endHeight)
    BY <1>6, CommitSaves DEF CommitUnanswered, CopyInv, StepFitsPc
  <2>2. SaveRangeUnacknowledged
    BY <1>6, <2>1 DEF CommitUnanswered, Commit, SaveRangeUnacknowledged
  <2>3. QED
    BY <2>2
<1>7. CASE CrashInCall \/ BlockArrives
  BY <1>7 DEF CrashInCall, BlockArrives
<1>8. CASE \/ HeaderByNumber \/ FilterDepositFinalized \/ NextLog \/ NextHearsEnd
           \/ BeginTx \/ Insert \/ UpdateHeight \/ Close \/ Closed \/ Return
           \/ Library \/ Expire \/ RollBack \/ UNCHANGED copyVars
  <2>1. UNCHANGED vars
    BY <1>8 DEF HeaderByNumber, FilterDepositFinalized, NextLog, NextHearsEnd,
       BeginTx, Insert, UpdateHeight, Close, Closed, Return, Library, HandOver,
       SubscriptionEnds, Expire, RollBack, RollBackOpen, RollBackLeft, copyVars
  <2>2. QED
    BY <2>1 DEF vars, tables, local
<1>9. QED
  BY <1>1, <1>2, <1>3, <1>4, <1>5, <1>6, <1>7, <1>8 DEF CopyNext, CopyRange

(* The copy call by call implements the two strokes of DataSync: an         *)
(* iteration without error has found every log of the range once and in     *)
(* order, rows and height become visible together or not at all, and an     *)
(* error is answered unless they are (syncWithRange, SaveSyncedData).  This *)
(* is the safety half of ImplementsSync.                                    *)
THEOREM CopyImplementsSync == CopySpec => Spec
<1>1. CopyInit => Init
  BY DEF CopyInit
<1>2. QED
  BY <1>1, CopyInvariant, StepRefines, PTL DEF CopySpec, Spec

(* So all that is proved of DataSync holds of the copy call by call: no     *)
(* deposit is skipped, the rows of one are counted by the commits reported  *)
(* as failures, memory is never ahead and the height never falls.           *)
THEOREM CopyKeepsSyncPromises ==
  CopySpec => /\ [](HeightTellsWhatIsRecorded /\ DuplicatesNeedLostAcks)
              /\ []MemoryNeverAhead
              /\ HeightNeverFalls
BY CopyImplementsSync, NothingSkipped, DuplicatesCounted, NeverAhead, NeverFalls,
   PTL
=============================================================================
