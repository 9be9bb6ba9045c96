----------------------------- MODULE RowStream -----------------------------
(***************************************************************************)
(* GetDepositTxStream and GetPendingDripsStream of                         *)
(* internal/repository/faucet.go with the pass that ranges over them: a    *)
(* producer goroutine reads the rows of a query and hands them over        *)
(* through a channel of five.  The two share nothing but that channel and  *)
(* the context of the pass, which is done when its five minutes are over,  *)
(* when the process is told to stop, and when the pass returns.            *)
(*                                                                         *)
(* Rows are numbered in the order of the query's answer.                   *)
(***************************************************************************)
EXTENDS Naturals, Sequences, Functions

CONSTANTS
  PageLimit,   \* the LIMIT of the query, 20 in the code
  Capacity     \* of the channel, 5 in the code

ASSUME StreamAssumption == PageLimit \in Nat /\ Capacity \in Nat \ {0}

VARIABLES
  result,      \* the number of rows of the answer
  read,        \* how many of them rows.Next has passed
  producer,    \* what the producer is about to do
  connection,  \* does it hold a connection of the pool?
  stream,      \* the channel
  consumer,    \* what the pass is about to do
  received,    \* the rows the pass has received
  done,        \* is the context done?
  upset        \* history: has a call failed or the time run out?

producerVars == <<result, read, producer, connection>>
consumerVars == <<consumer, received>>
vars == <<producerVars, stream, consumerVars, done, upset>>

(* The item that carries an error.  It comes after every row.               *)
ErrorItem == PageLimit + 1

Init ==
  /\ result \in 0..PageLimit /\ read = 0
  /\ producer = "query" /\ connection = FALSE
  /\ stream = <<>>
  /\ consumer = "range" /\ received = <<>>
  /\ done = FALSE /\ upset = FALSE

-----------------------------------------------------------------------------
(* The producer.                                                            *)

Query ==
  /\ producer = "query"
  /\ \/ producer' = "next" /\ connection' = TRUE /\ UNCHANGED upset
     \/ producer' = "error" /\ upset' = TRUE /\ UNCHANGED connection
  /\ UNCHANGED <<result, read, stream, consumerVars, done>>

(* Variant with a bug: one variable for all rows, so that the pointers that *)
(* wait in the channel show the row read last.                              *)
NextRowShared ==
  /\ producer = "next" /\ read < result
  /\ read' = read + 1
  /\ \/ producer' = "offer" /\ stream' = [i \in DOMAIN stream |-> read'] /\ UNCHANGED upset
     \/ producer' = "error" /\ upset' = TRUE /\ UNCHANGED stream
  /\ UNCHANGED <<result, connection, consumerVars, done>>

(* rows.Next and StructScan, which may fail.                                *)
NextRow ==
  /\ producer = "next" /\ read < result
  /\ read' = read + 1
  /\ \/ producer' = "offer" /\ UNCHANGED upset
     \/ producer' = "error" /\ upset' = TRUE
  /\ UNCHANGED <<result, connection, stream, consumerVars, done>>

(* rows.Next is false: the answer is read, or the context is done, or the   *)
(* connection failed.  Nobody asks rows.Err which of them it was.           *)
RowsEnd ==
  /\ producer = "next"
  /\ \/ read = result /\ UNCHANGED upset
     \/ read < result /\ upset' = TRUE
  /\ producer' = "close"
  /\ UNCHANGED <<result, read, connection, stream, consumerVars, done>>

Send(item, then) ==
  /\ Len(stream) < Capacity
  /\ stream' = Append(stream, item)
  /\ producer' = then

Skip(then) == producer' = then /\ UNCHANGED stream

(* Variant with a bug: a `default` case, so that a full channel drops rows. *)
OfferOrDrop ==
  /\ \/ producer = "offer" /\ Send(read, "next")
     \/ producer = "error" /\ Send(ErrorItem, "close")
     \/ producer = "offer" /\ Skip("next")
     \/ producer = "error" /\ Skip("close")
  /\ UNCHANGED <<result, read, connection, consumerVars, done, upset>>

(* The select: it waits while the channel is full, and may take either case *)
(* when there is room and the context is done.                             *)
Offer ==
  /\ \/ producer = "offer" /\ Send(read, "next")
     \/ producer = "error" /\ Send(ErrorItem, "close")
     \/ producer = "offer" /\ done /\ Skip("next")
     \/ producer = "error" /\ done /\ Skip("close")
  /\ UNCHANGED <<result, read, connection, consumerVars, done, upset>>

(* Variant with a bug: no `defer close(stream)`.                            *)
FinishUnclosed ==
  /\ producer = "close"
  /\ producer' = "returned" /\ connection' = FALSE
  /\ UNCHANGED <<result, read, stream, consumerVars, done, upset>>

(* The deferred rows.Close and close(stream).                               *)
Finish ==
  /\ producer = "close"
  /\ producer' = "closed" /\ connection' = FALSE
  /\ UNCHANGED <<result, read, stream, consumerVars, done, upset>>

-----------------------------------------------------------------------------
(* The consumer: the loops of tryToSendDrip and tryToCheckDrip.             *)

(* Variant with a bug: the error of an item is not looked at.               *)
ReceiveErrorIgnored ==
  /\ consumer = "range" /\ stream # <<>>
  /\ stream' = Tail(stream)
  /\ consumer' = "work" /\ received' = Append(received, Head(stream))
  /\ UNCHANGED <<producerVars, done, upset>>

Receive ==
  /\ consumer = "range" /\ stream # <<>>
  /\ stream' = Tail(stream)
  /\ IF Head(stream) = ErrorItem
     THEN consumer' = "return" /\ UNCHANGED received
     ELSE consumer' = "work" /\ received' = Append(received, Head(stream))
  /\ UNCHANGED <<producerVars, done, upset>>

(* The loop's body, which returns at its first error.                       *)
Work ==
  /\ consumer = "work"
  /\ \/ consumer' = "range" /\ UNCHANGED upset
     \/ consumer' = "return" /\ upset' = TRUE
  /\ UNCHANGED <<producerVars, stream, received, done>>

RangeEnds ==
  /\ consumer = "range" /\ stream = <<>> /\ producer = "closed"
  /\ consumer' = "return"
  /\ UNCHANGED <<producerVars, stream, received, done, upset>>

(* Variant with a bug: the context is left to its timer.                    *)
ReturnUncancelled ==
  /\ consumer = "return"
  /\ consumer' = "left"
  /\ UNCHANGED <<producerVars, stream, received, done, upset>>

(* The deferred cancel of SendDrips and CheckDrips.                         *)
Return ==
  /\ consumer = "return"
  /\ consumer' = "left" /\ done' = TRUE
  /\ UNCHANGED <<producerVars, stream, received, upset>>

(* The five minutes are over, or the process is told to stop.               *)
Expire ==
  /\ ~done /\ consumer # "left"
  /\ done' = TRUE /\ upset' = TRUE
  /\ UNCHANGED <<producerVars, stream, consumerVars>>

Over ==
  /\ consumer = "left" /\ producer = "closed"
  /\ UNCHANGED vars

-----------------------------------------------------------------------------
Producer == Query \/ NextRow \/ RowsEnd \/ Offer \/ Finish

Consumer == Receive \/ Work \/ RangeEnds \/ Return

Next == Producer \/ Consumer \/ Expire \/ Over

Spec == Init /\ [][Next]_vars

(* Goroutines are scheduled, and every call the loop's body makes has a     *)
(* deadline.  The timer of the context is not relied on.                    *)
FairSpec == Spec /\ WF_vars(Producer) /\ WF_vars(Consumer)

-----------------------------------------------------------------------------
(* Properties.                                                              *)

TypeOK ==
  /\ result \in 0..PageLimit /\ read \in 0..result
  /\ producer \in {"query", "next", "offer", "error", "close", "closed"}
  /\ connection \in BOOLEAN
  /\ stream \in Seq(1..ErrorItem) /\ Len(stream) <= Capacity
  /\ consumer \in {"range", "work", "return", "left"}
  /\ received \in Seq(1..result)
  /\ done \in BOOLEAN /\ upset \in BOOLEAN

(* No row is handled twice and none before an earlier one, also when some   *)
(* are dropped on the way (the fresh variable of each turn, the channel).   *)
ReceivedInOrder ==
  \A i, j \in DOMAIN received : i < j => received[i] < received[j]

(* Rows are passed over only when the context is done: a slow pass never    *)
(* loses one from the middle (the select of the producer).                  *)
NoGapWhileLive ==
  ~done => \A i \in DOMAIN received : received[i] = i

(* The stream is a cursor over a page: a row comes once, and a pass that    *)
(* ended with nothing wrong has had every row of the answer, although an    *)
(* early end of the rows is not told from their end.                        *)
Cursor ==
  INSTANCE PageCursor WITH
    page <- IF consumer = "left" THEN {} ELSE (1..result) \ Range(received),
    ended <- consumer = "left"

ImplementsCursor == Cursor!CursorSpec

(* A pass always ends.                                                      *)
PassEnds == <>(consumer = "left")

(* The producer and its connection are freed, however early the pass has    *)
(* returned: five rows in the channel and one in hand do not block it.      *)
StreamIsReleased == <>(producer = "closed" /\ ~connection)
=============================================================================
