------------------------------ MODULE RangeCopy ------------------------------
(***************************************************************************)
(* syncWithRange (internal/services/datasync.go) call by call, where       *)
(* DataSync takes it in two strokes: the tail's header, the log query, the *)
(* iterator of the contract binding over its answer                        *)
(* (internal/goabi/metisl2/L2StandardBridge.go), the statements of the     *)
(* transaction of SaveSyncedData (internal/repository/dbsync.go), and the  *)
(* deferred Close and cancel.                                              *)
(*                                                                         *)
(* Behind the iterator a goroutine of the ethereum library hands the logs  *)
(* over, through a channel with room for a few of them, and closes a       *)
(* second channel when it is through; which of the two the iterator hears  *)
(* first is not determined.                                                *)
(*                                                                         *)
(* Nothing here calls Rollback: the errors of the statements shadow the    *)
(* err that the deferred function of SaveSyncedData looks at.  The return  *)
(* of syncWithRange cancels the context of the open transaction, and no    *)
(* more: a goroutine of database/sql rolls it back some time later.  Until *)
(* then it keeps its locks, that on the row of `height` among them if the  *)
(* UPDATE had been executed, and the next range may find it locked.  When  *)
(* the process dies, or the connection breaks, the database does the same  *)
(* as soon as it notices.                                                  *)
(***************************************************************************)
EXTENDS DataSync

CONSTANT Capacity   \* room in the channel of logs, 128 in the library

ASSUME CapacityAssumption == Capacity \in Nat \ {0}

VARIABLES
  step,     \* the next thing syncWithRange does, "none" outside of it
  live,     \* the context of the call in progress is not done
  rest,     \* the logs of the answer that are still to be handed over
  logs,     \* the channel of logs
  sub,      \* the goroutine behind it: running, told to quit or gone
  done,     \* L2StandardBridgeDepositFinalizedIterator.done
  listed,   \* the local `deposits`
  tx,       \* what the call's transaction has written so far, or NoTx
  left      \* the transactions that earlier calls have left open

iteratorVars == <<rest, logs, sub, done, listed>>
txVars == <<tx, left>>
callVars == <<step, live, iteratorVars, txVars>>
copyVars == <<vars, callVars>>

NoTx == [rows |-> <<>>, tail |-> NoRow, open |-> FALSE]

(* What matters of a transaction left open: whether it has the row of       *)
(* `height` locked, and whether its context is done, so that it is going to *)
(* be rolled back.  Those that agree in both count as one.                  *)
LeftTx == [locked : BOOLEAN, doomed : BOOLEAN]

Steps == {"none", "header", "query", "next", "begin", "insert", "commit",
          "close", "closing", "cancel"}

CopyInit ==
  /\ Init
  /\ step = "none" /\ live = FALSE
  /\ rest = <<>> /\ logs = <<>> /\ sub = "gone"
  /\ done = FALSE /\ listed = <<>>
  /\ tx = NoTx /\ left = {}

-----------------------------------------------------------------------------
Call ==
  /\ step = "none"
  /\ StartRange
  /\ step' = "header" /\ live' = TRUE
  /\ UNCHANGED <<iteratorVars, txVars>>

(* The minute is over, or the process was told to end.  The call that fails *)
(* of it counts as the fault.                                              *)
Expire ==
  /\ live /\ faults < MaxFaults
  /\ live' = FALSE
  /\ UNCHANGED <<vars, step, iteratorVars, txVars>>

(* An error return, here and in Run: the deferred calls are still to come.  *)
ReturnError ==
  /\ pc' = "wait" /\ found' = <<>>
  /\ step' = "close"
  /\ UNCHANGED <<tables, head, height, targetHeight, endHeight, lostAcks>>

(* The UPDATE waits for whoever has the row of `height` locked.             *)
HeightFree == \A t \in left : ~t.locked

LockHeight ==
  /\ step = "insert" /\ live
  /\ Len(tx.rows) = Len(found)
  /\ HeightFree
  /\ tx' = [tx EXCEPT !.tail = endHeight]

(* A call fails on its own account or because its context is done; the      *)
(* UPDATE may have been executed nevertheless.  The transaction stays open. *)
CallFails ==
  /\ step \in {"header", "query", "begin", "insert", "commit"}
  /\ Fault
  /\ ReturnError
  /\ LockHeight \/ UNCHANGED tx
  /\ UNCHANGED <<live, left, iteratorVars>>

HeaderByNumber ==
  /\ step = "header" /\ live
  /\ step' = "query"
  /\ UNCHANGED <<vars, live, iteratorVars, txVars>>

(* FilterDepositFinalized: the whole answer is there before the goroutine   *)
(* starts.  Neither it nor Next looks at the context.                      *)
FilterDepositFinalized ==
  /\ step = "query" /\ live
  /\ rest' \in Listings(EventsIn(height, endHeight))
  /\ sub' = "running"
  /\ step' = "next"
  /\ UNCHANGED <<vars, live, logs, done, listed, txVars>>

(* The library's goroutine: hand over the next log, or end.                 *)
HandOver ==
  /\ sub \in {"running", "quit"}
  /\ rest # <<>> /\ Len(logs) < Capacity
  /\ logs' = Append(logs, Head(rest))
  /\ rest' = Tail(rest)
  /\ UNCHANGED <<vars, step, live, sub, done, listed, txVars>>

SubscriptionEnds ==
  /\ sub = "quit" \/ (sub = "running" /\ rest = <<>>)
  /\ sub' = "gone" /\ rest' = <<>>
  /\ UNCHANGED <<vars, step, live, logs, done, listed, txVars>>

(* Variant with a bug: the row is born as if its drip were on the way.      *)
NextLogProcessing ==
  /\ step = "next"
  /\ logs # <<>>
  /\ listed' = Append(listed, [event |-> Head(logs), status |-> "processing"])
  /\ logs' = Tail(logs)
  /\ UNCHANGED <<vars, step, live, rest, sub, done, txVars>>

(* Next finds a log, while the iterator is in progress or after the end of  *)
(* the subscription, and the loop's body appends its row.                   *)
NextLog ==
  /\ step = "next"
  /\ logs # <<>>
  /\ listed' = Append(listed, FormatEvent(Head(logs)))
  /\ logs' = Tail(logs)
  /\ UNCHANGED <<vars, step, live, rest, sub, done, txVars>>

(* A log that UnpackLog cannot read: Next is false and Error is not nil.    *)
NextFails ==
  /\ step = "next"
  /\ logs # <<>>
  /\ Fault
  /\ ReturnError
  /\ logs' = Tail(logs)
  /\ UNCHANGED <<live, rest, sub, done, listed, txVars>>

(* Variant with a bug: the end of the subscription ends the iteration.      *)
NextHearsEndAndStops ==
  /\ step = "next" /\ ~done
  /\ sub = "gone"
  /\ found' = listed
  /\ pc' = "save" /\ step' = "begin"
  /\ UNCHANGED <<tables, head, height, targetHeight, endHeight, faults,
                 lostAcks, live, iteratorVars, txVars>>

(* Next hears of the end of the subscription, maybe before the logs that    *)
(* are left in the channel, and calls itself to take these.                 *)
NextHearsEnd ==
  /\ step = "next" /\ ~done
  /\ sub = "gone"
  /\ done' = TRUE
  /\ UNCHANGED <<vars, step, live, rest, logs, sub, listed, txVars>>

(* Next is false and Error is nil: the rows go to SaveSyncedData.           *)
NextEnds ==
  /\ step = "next" /\ done
  /\ logs = <<>>
  /\ found' = listed
  /\ pc' = "save" /\ step' = "begin"
  /\ UNCHANGED <<tables, head, height, targetHeight, endHeight, faults,
                 lostAcks, live, iteratorVars, txVars>>

-----------------------------------------------------------------------------
BeginTx ==
  /\ step = "begin" /\ live
  /\ tx' = [NoTx EXCEPT !.open = TRUE]
  /\ step' = "insert"
  /\ UNCHANGED <<vars, live, iteratorVars, left>>

NextRow == found[Len(tx.rows) + 1]

Insert ==
  /\ step = "insert" /\ live /\ Len(tx.rows) < Len(found)
  /\ Storable(<<NextRow>>)
  /\ tx' = [tx EXCEPT !.rows = Append(@, NextRow)]
  /\ UNCHANGED <<vars, step, live, iteratorVars, left>>

InsertRefused ==
  /\ step = "insert" /\ live /\ Len(tx.rows) < Len(found)
  /\ ~Storable(<<NextRow>>)
  /\ ReturnError
  /\ UNCHANGED <<faults, live, iteratorVars, txVars>>

UpdateHeight ==
  /\ LockHeight
  /\ step' = "commit"
  /\ UNCHANGED <<vars, live, iteratorVars, left>>

(* What the transaction wrote becomes visible, all at once, and its locks   *)
(* are gone.                                                               *)
Commit ==
  /\ deposits' = deposits \o tx.rows
  /\ number' = tx.tail
  /\ tx' = NoTx /\ found' = <<>>
  /\ step' = "close"
  /\ UNCHANGED <<head, targetHeight, endHeight, live, iteratorVars, left>>

(* The caller goes on with the next range (the assignment to s.height       *)
(* follows the deferred calls, which do not look at it).  Commit looks at   *)
(* the context first.                                                       *)
CommitAnswered ==
  /\ step = "commit" /\ live
  /\ Commit
  /\ height' = endHeight + 1
  /\ pc' = "range"
  /\ UNCHANGED <<faults, lostAcks>>

CommitUnanswered ==
  /\ step = "commit" /\ live
  /\ Fault
  /\ Commit
  /\ lostAcks' = lostAcks + 1
  /\ pc' = "wait"
  /\ UNCHANGED height

-----------------------------------------------------------------------------
(* Variant with a bug: no Close.                                            *)
CloseForgotten ==
  /\ step = "close"
  /\ step' = "cancel"
  /\ UNCHANGED <<vars, live, iteratorVars, txVars>>

(* defer iter.Close(), if the iterator was made: tell the goroutine to quit *)
(* and wait until it is gone.                                              *)
Close ==
  /\ step = "close"
  /\ sub' = IF sub = "running" THEN "quit" ELSE sub
  /\ step' = "closing"
  /\ UNCHANGED <<vars, live, rest, logs, done, listed, txVars>>

Closed ==
  /\ step = "closing" /\ sub = "gone"
  /\ step' = "cancel"
  /\ UNCHANGED <<vars, live, iteratorVars, txVars>>

(* The call is over, but for its transaction if that is still open.         *)
LeaveCall(doomed) ==
  /\ left' = IF tx.open
             THEN left \cup {[locked |-> tx.tail # NoRow, doomed |-> doomed]}
             ELSE left
  /\ tx' = NoTx
  /\ logs' = <<>> /\ done' = FALSE /\ listed' = <<>>
  /\ step' = "none" /\ live' = FALSE

(* Variant with a bug: the call has no context of its own to cancel.        *)
ReturnUncancelled ==
  /\ step = "cancel"
  /\ LeaveCall(FALSE)
  /\ UNCHANGED <<vars, rest, sub>>

(* defer cancel(): it only tells database/sql's goroutine.                  *)
Return ==
  /\ step = "cancel"
  /\ LeaveCall(TRUE)
  /\ UNCHANGED <<vars, rest, sub>>

(* database/sql (Tx.awaitDone) waits for the end of the context and rolls   *)
(* back a transaction that is not committed by then, during the call or     *)
(* after it.                                                               *)
RollBackOpen ==
  /\ tx.open /\ ~live
  /\ tx' = NoTx
  /\ UNCHANGED <<vars, step, live, iteratorVars, left>>

RollBackLeft(t) ==
  /\ t \in left /\ t.doomed
  /\ left' = left \ {t}
  /\ UNCHANGED <<vars, step, live, iteratorVars, tx>>

(* The goroutines die with the process; the database sees the connection    *)
(* close and rolls back in its time.                                       *)
CrashInCall ==
  /\ Crash
  /\ LeaveCall(TRUE)
  /\ rest' = <<>> /\ sub' = "gone"

-----------------------------------------------------------------------------
(* What DataSync does outside of the call.                                  *)
Outside ==
  /\ step = "none"
  /\ \/ Prefight \/ PrefightFails \/ Restart
     \/ BlockNumber \/ EndRun \/ (pc = "wait" /\ RunFails)
  /\ UNCHANGED callVars

BlockArrives == NewBlock /\ UNCHANGED callVars

CopyRange ==
  \/ Call \/ CallFails \/ HeaderByNumber \/ FilterDepositFinalized
  \/ NextLog \/ NextFails \/ NextHearsEnd \/ NextEnds
  \/ BeginTx \/ Insert \/ InsertRefused \/ UpdateHeight
  \/ CommitAnswered \/ CommitUnanswered \/ Close \/ Closed \/ Return

Library == HandOver \/ SubscriptionEnds

RollBack == RollBackOpen \/ \E t \in left : RollBackLeft(t)

CopyNext ==
  \/ Outside \/ CopyRange \/ Library \/ Expire \/ RollBack
  \/ CrashInCall \/ BlockArrives

(* The goroutines are scheduled, those of database/sql among them, of which *)
(* every transaction has its own, and every call they make has a deadline.  *)
CopySpec ==
  /\ CopyInit /\ [][CopyNext]_copyVars
  /\ WF_copyVars(Outside \/ CopyRange) /\ WF_copyVars(Library)
  /\ \A t \in LeftTx : WF_copyVars(RollBackLeft(t))

-----------------------------------------------------------------------------
(* Properties.                                                              *)

CallTypeOK ==
  /\ step \in Steps
  /\ live \in BOOLEAN
  /\ sub \in {"running", "quit", "gone"}
  /\ done \in BOOLEAN
  /\ rest \in Seq(Event) /\ logs \in Seq(Event) /\ listed \in Seq(NewRow)
  /\ tx \in [rows : Seq(NewRow), tail : Nat \cup {NoRow}, open : BOOLEAN]
  /\ left \subseteq LeftTx

(* The call by call copy implements the two strokes of DataSync, and ends   *)
(* whenever these do: an iteration without error has found every log of the *)
(* range once and in order, though the end may be heard before the last     *)
(* logs; rows and height become visible together or not at all; the answer  *)
(* is an error unless they are, even when the context ends and database/sql *)
(* rolls back between two statements; and no goroutine waits for ever, not  *)
(* even for a row that a transaction of an earlier call has locked.         *)
ImplementsSync == FairSpec

(* A call that has returned has left no goroutine behind, though its        *)
(* iteration may have stopped with the channel full and logs to come        *)
(* (defer iter.Close(), datasync.go:105).                                  *)
NoGoroutineIsLeft == step = "none" => sub = "gone"

(* No transaction stays open, though Rollback is never called: that of the  *)
(* call in progress is committed, rolled back or left when the call         *)
(* returns, and one that was left, with the row of `height` locked or not,  *)
(* ends while the process waits, goes on or is started again (defer         *)
(* cancel(), datasync.go:73, and the shadowed err of dbsync.go:46).         *)
EveryTransactionEnds ==
  /\ tx.open ~> ~tx.open
  /\ \A t \in LeftTx : t \in left ~> t \notin left
=============================================================================
