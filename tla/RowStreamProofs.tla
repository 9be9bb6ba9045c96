-------------------------- MODULE RowStreamProofs --------------------------
(***************************************************************************)
(* Theorems about the streams, for every page and every channel.           *)
(***************************************************************************)
EXTENDS RowStream, TLAPS

(* What has been received, what waits and what is still to be offered are   *)
(* ascending in this order, and an error is the last thing that is sent.    *)
Ascending ==
  /\ ReceivedInOrder
  /\ \A i, j \in DOMAIN stream : i < j => stream[i] < stream[j]
  /\ \A i \in DOMAIN received, j \in DOMAIN stream : received[i] < stream[j]
  /\ \A i \in DOMAIN received : received[i] <= read
  /\ \A j \in DOMAIN stream :
       \/ stream[j] <= read
       \/ stream[j] = ErrorItem /\ producer \in {"close", "closed"}
  /\ producer = "query" => read = 0
  /\ producer = "offer" =>
       /\ read \in 1..result
       /\ \A i \in DOMAIN received : received[i] < read
       /\ \A j \in DOMAIN stream : stream[j] < read

StreamInv == TypeOK /\ Ascending

(* As long as the context is not done, every row that was read is with the  *)
(* pass, in the channel or in the producer's hand.                          *)
Gapless ==
  ~done =>
    /\ \A i \in DOMAIN received : received[i] = i
    /\ \A j \in DOMAIN stream : stream[j] \in {Len(received) + j, ErrorItem}
    /\ producer \in {"query", "next"} => read = Len(received) + Len(stream)
    /\ producer = "offer" => read = Len(received) + Len(stream) + 1

(* When nothing has gone wrong, the pass ends only with all of the page.    *)
Complete ==
  /\ producer = "error" => upset
  /\ \A j \in DOMAIN stream : stream[j] = ErrorItem => upset
  /\ done => upset \/ consumer = "left"
  /\ producer \in {"close", "closed"} /\ ~upset =>
       /\ read = result
       /\ consumer # "left" => read = Len(received) + Len(stream)
  /\ consumer \in {"return", "left"} =>
       upset \/ (producer = "closed" /\ Range(received) = 1..result)

-----------------------------------------------------------------------------
LEMMA AppendIsLast ==
  ASSUME NEW S, NEW s \in Seq(S), NEW e \in S
  PROVE  /\ Append(s, e) \in Seq(S)
         /\ Len(Append(s, e)) = Len(s) + 1
         /\ DOMAIN Append(s, e) = DOMAIN s \cup {Len(s) + 1}
         /\ Len(s) + 1 \notin DOMAIN s
         /\ \A i \in DOMAIN s : i \in 1..Len(s) /\ Append(s, e)[i] = s[i]
         /\ Append(s, e)[Len(s) + 1] = e
  OBVIOUS

LEMMA HeadThenTail ==
  ASSUME NEW S, NEW s \in Seq(S), s # <<>>
  PROVE  /\ Head(s) \in S /\ Head(s) = s[1] /\ 1 \in DOMAIN s
         /\ Tail(s) \in Seq(S) /\ Len(Tail(s)) = Len(s) - 1
         /\ \A j \in DOMAIN Tail(s) : j + 1 \in DOMAIN s /\ Tail(s)[j] = s[j + 1]
  OBVIOUS

(* The first item of the channel.                                           *)
LEMMA ReceiveTakesFirst ==
  ASSUME StreamInv, Receive, Head(stream) # ErrorItem
  PROVE  /\ Head(stream) \in 1..read /\ Head(stream) = stream[1]
         /\ \A i \in DOMAIN received : received[i] < Head(stream)
         /\ \A j \in DOMAIN Tail(stream) : Head(stream) < Tail(stream)[j]
<1>1. /\ stream \in Seq(1..ErrorItem) /\ stream # <<>>
      /\ result \in Nat /\ read \in Nat
  BY StreamAssumption DEF StreamInv, TypeOK, Receive
<1>2. Head(stream) = stream[1] /\ 1 \in DOMAIN stream /\ Head(stream) \in 1..ErrorItem
  BY <1>1, HeadThenTail
<1>3. \A j \in DOMAIN Tail(stream) : /\ j + 1 \in DOMAIN stream /\ 1 < j + 1
                                     /\ Tail(stream)[j] = stream[j + 1]
  BY <1>1, HeadThenTail
<1>4. \A j \in DOMAIN Tail(stream) : Head(stream) < Tail(stream)[j]
  BY <1>2, <1>3 DEF StreamInv, Ascending
<1>5. Head(stream) <= read
  BY <1>2 DEF StreamInv, Ascending
<1>6. QED
  BY <1>1, <1>2, <1>4, <1>5 DEF StreamInv, Ascending

-----------------------------------------------------------------------------
LEMMA Types ==
  ASSUME TypeOK
  PROVE  /\ result \in 0..PageLimit /\ read \in 0..result /\ PageLimit \in Nat
         /\ Capacity \in Nat /\ ErrorItem = PageLimit + 1
         /\ stream \in Seq(1..ErrorItem) /\ received \in Seq(1..result)
BY StreamAssumption DEF TypeOK, ErrorItem

LEMMA SendKeepsInv ==
  ASSUME StreamInv, producer \in {"offer", "error"},
         NEW item \in 1..ErrorItem, NEW then \in {"next", "close"}, Send(item, then),
         UNCHANGED <<result, read, connection, consumer, received, done, upset>>,
         \A i \in DOMAIN received : received[i] < item,
         \A j \in DOMAIN stream : stream[j] < item,
         item <= read \/ (item = ErrorItem /\ then = "close")
  PROVE  StreamInv'
<1> USE DEF StreamInv
<1>1. /\ stream' = Append(stream, item) /\ producer' = then
      /\ Len(stream) < Capacity
  BY DEF Send
<1>2. /\ stream' \in Seq(1..ErrorItem) /\ Len(stream') = Len(stream) + 1
      /\ DOMAIN stream' = DOMAIN stream \cup {Len(stream) + 1}
      /\ \A j \in DOMAIN stream : j \in 1..Len(stream) /\ stream'[j] = stream[j]
      /\ stream'[Len(stream) + 1] = item
  BY Types, <1>1, AppendIsLast
<1>3. TypeOK'
  BY Types, <1>1, <1>2 DEF TypeOK
<1>4. \A i, j \in DOMAIN stream' : i < j => stream'[i] < stream'[j]
  <2> SUFFICES ASSUME NEW i \in DOMAIN stream', NEW j \in DOMAIN stream', i < j
               PROVE  stream'[i] < stream'[j]
    OBVIOUS
  <2>1. i \in DOMAIN stream
    BY Types, <1>2
  <2>2. CASE j \in DOMAIN stream
    BY <1>2, <2>1, <2>2 DEF Ascending
  <2>3. CASE j = Len(stream) + 1
    BY <1>2, <2>1, <2>3
  <2>4. QED
    BY <1>2, <2>2, <2>3
<1>5. \A i \in DOMAIN received, j \in DOMAIN stream' : received[i] < stream'[j]
  BY <1>2 DEF Ascending
<1>6. \A j \in DOMAIN stream' :
        \/ stream'[j] <= read
        \/ stream'[j] = ErrorItem /\ producer' \in {"close", "closed"}
  BY <1>1, <1>2 DEF Ascending
<1>7. QED
  BY Types, <1>1, <1>3, <1>4, <1>5, <1>6 DEF Ascending, ReceivedInOrder

LEMMA OfferKeepsInv ==
  ASSUME StreamInv, Offer
  PROVE  StreamInv'
<1>1. UNCHANGED <<result, read, connection, consumer, received, done, upset>>
  BY DEF Offer, consumerVars
<1>2. CASE producer = "offer" /\ Send(read, "next")
  <2>1. PICK row \in 1..ErrorItem : row = read
    BY Types, <1>2 DEF StreamInv, Ascending
  <2>2. Send(row, "next") /\ row <= read
    BY Types, <1>2, <2>1 DEF Send, StreamInv
  <2>3. /\ \A i \in DOMAIN received : received[i] < row
        /\ \A j \in DOMAIN stream : stream[j] < row
    BY <1>2, <2>1 DEF StreamInv, Ascending
  <2>4. row \in 1..ErrorItem /\ producer \in {"offer", "error"} /\ "next" \in {"next", "close"}
    BY <1>2, <2>1
  <2>5. QED
    BY <1>1, <2>2, <2>3, <2>4, SendKeepsInv
<1>3. CASE producer = "error" /\ Send(ErrorItem, "close")
  <2>1. /\ \A i \in DOMAIN received : received[i] < ErrorItem
        /\ \A j \in DOMAIN stream : stream[j] < ErrorItem
    BY Types, <1>3 DEF StreamInv, Ascending
  <2>2. ErrorItem \in 1..ErrorItem /\ "close" \in {"next", "close"}
    BY StreamAssumption DEF ErrorItem
  <2>3. QED
    BY <1>1, <1>3, <2>1, <2>2, SendKeepsInv
<1>4. CASE \/ producer = "offer" /\ done /\ Skip("next")
           \/ producer = "error" /\ done /\ Skip("close")
  BY Types, <1>1, <1>4 DEF Skip, StreamInv, Ascending, ReceivedInOrder, TypeOK
<1>5. QED
  BY <1>2, <1>3, <1>4 DEF Offer

LEMMA ReceiveKeepsInv ==
  ASSUME StreamInv, Receive
  PROVE  StreamInv'
<1> USE DEF StreamInv, TypeOK
<1>0. /\ result \in 0..PageLimit /\ read \in 0..result /\ PageLimit \in Nat
      /\ Capacity \in Nat /\ ErrorItem = PageLimit + 1
      /\ stream \in Seq(1..ErrorItem) /\ received \in Seq(1..result)
      /\ stream # <<>> /\ stream' = Tail(stream)
      /\ UNCHANGED <<result, read, producer, connection, done, upset>>
  BY StreamAssumption DEF Receive, producerVars, ErrorItem
<1>1. /\ stream' \in Seq(1..ErrorItem) /\ Len(stream') = Len(stream) - 1
      /\ \A j \in DOMAIN stream' : j + 1 \in DOMAIN stream /\ stream'[j] = stream[j + 1]
  BY <1>0, HeadThenTail
<1>2. /\ \A i, j \in DOMAIN stream' : i < j => stream'[i] < stream'[j]
      /\ \A j \in DOMAIN stream' :
           \/ stream'[j] <= read
           \/ stream'[j] = ErrorItem /\ producer \in {"close", "closed"}
      /\ producer = "offer" => \A j \in DOMAIN stream' : stream'[j] < read
  BY <1>0, <1>1 DEF Ascending
<1>3. CASE Head(stream) = ErrorItem
  <2>1. received' = received /\ consumer' = "return"
    BY <1>3 DEF Receive
  <2>2. \A i \in DOMAIN received, j \in DOMAIN stream' : received[i] < stream'[j]
    BY <1>1 DEF Ascending
  <2>3. TypeOK'
    BY <1>0, <1>1, <2>1
  <2>4. QED
    BY <1>0, <1>2, <2>1, <2>2, <2>3 DEF Ascending, ReceivedInOrder
<1>4. CASE Head(stream) # ErrorItem
  <2>1. received' = Append(received, Head(stream)) /\ consumer' = "work"
    BY <1>4 DEF Receive
  <2>2. /\ Head(stream) \in 1..read /\ Head(stream) = stream[1]
        /\ \A i \in DOMAIN received : received[i] < Head(stream)
        /\ \A j \in DOMAIN stream' : Head(stream) < stream'[j]
    BY <1>0, <1>4, ReceiveTakesFirst
  <2>3. /\ received' \in Seq(1..result)
        /\ DOMAIN received' = DOMAIN received \cup {Len(received) + 1}
        /\ \A i \in DOMAIN received : i \in 1..Len(received) /\ received'[i] = received[i]
        /\ received'[Len(received) + 1] = Head(stream)
    <3>1. received \in Seq(1..result) /\ Head(stream) \in 1..result
      BY <1>0, <2>2
    <3>2. QED
      BY ONLY <2>1, <3>1, AppendIsLast
  <2>4. ReceivedInOrder'
    BY <1>0, <2>2, <2>3 DEF Ascending, ReceivedInOrder
  <2>5. \A i \in DOMAIN received', j \in DOMAIN stream' : received'[i] < stream'[j]
    BY <1>1, <2>2, <2>3 DEF Ascending
  <2>6. \A i \in DOMAIN received' : received'[i] <= read
    BY <1>0, <2>2, <2>3 DEF Ascending
  <2>7. producer = "offer" => \A i \in DOMAIN received' : received'[i] < read
    BY <1>0, <2>2, <2>3, HeadThenTail DEF Ascending
  <2>8. TypeOK'
    BY <1>0, <1>1, <2>1, <2>3
  <2>9. QED
    BY <1>0, <1>2, <2>4, <2>5, <2>6, <2>7, <2>8 DEF Ascending
<1>5. QED
  BY <1>3, <1>4

LEMMA StreamInvInductive == StreamInv /\ [Next]_vars => StreamInv'
<1> SUFFICES ASSUME StreamInv, [Next]_vars PROVE StreamInv'
  OBVIOUS
<1> USE DEF StreamInv, TypeOK
<1>0. /\ result \in 0..PageLimit /\ read \in 0..result /\ PageLimit \in Nat
      /\ ErrorItem = PageLimit + 1
  BY StreamAssumption DEF ErrorItem
<1>1. CASE Query
  BY <1>0, <1>1 DEF Query, consumerVars, Ascending, ReceivedInOrder
<1>2. CASE NextRow
  <2>1. /\ read' = read + 1 /\ read' \in 1..result
        /\ producer = "next" /\ producer' \in {"offer", "error"}
        /\ UNCHANGED <<result, connection, stream, consumer, received, done>>
    BY <1>0, <1>2 DEF NextRow, consumerVars
  <2>2. TypeOK'
    <3>1. upset' \in BOOLEAN
      BY <1>2 DEF NextRow
    <3>2. QED
      BY <1>0, <2>1, <3>1
  <2>3. /\ \A i \in DOMAIN received : received[i] < read'
        /\ \A j \in DOMAIN stream : stream[j] < read'
    BY <1>0, <2>1 DEF Ascending
  <2>4. Ascending'
    BY <1>0, <2>1, <2>3 DEF Ascending, ReceivedInOrder
  <2>5. QED
    BY <2>2, <2>4
<1>3. CASE RowsEnd
  BY <1>0, <1>3 DEF RowsEnd, consumerVars, Ascending, ReceivedInOrder
<1>4. CASE Offer
  BY <1>4, OfferKeepsInv
<1>5. CASE Finish
  BY <1>0, <1>5 DEF Finish, consumerVars, Ascending, ReceivedInOrder
<1>6. CASE Receive
  BY <1>6, ReceiveKeepsInv
<1>7. CASE Work \/ RangeEnds \/ Return \/ Expire \/ Over \/ UNCHANGED vars
  <2>1. /\ UNCHANGED <<result, read, producer, connection, stream, received>>
        /\ consumer' \in {"range", "work", "return", "left"}
        /\ done' \in BOOLEAN /\ upset' \in BOOLEAN
    BY <1>7 DEF Work, RangeEnds, Return, Expire, Over, vars, producerVars, consumerVars
  <2>2. TypeOK'
    BY <1>0, <2>1
  <2>3. Ascending'
    BY <2>1 DEF Ascending, ReceivedInOrder, ErrorItem
  <2>4. QED
    BY <2>2, <2>3
<1>8. QED
  BY <1>1, <1>2, <1>3, <1>4, <1>5, <1>6, <1>7 DEF Next, Producer, Consumer

LEMMA StreamInvariant == Spec => []StreamInv
<1>1. Init => StreamInv
  <2> SUFFICES ASSUME Init PROVE StreamInv
    OBVIOUS
  <2>1. TypeOK
    <3>1. /\ <<>> \in Seq(1..ErrorItem) /\ <<>> \in Seq(1..result) /\ Len(<<>>) = 0
      OBVIOUS
    <3>2. done \in BOOLEAN /\ upset \in BOOLEAN /\ connection \in BOOLEAN
      BY DEF Init
    <3>3. QED
      BY StreamAssumption, <3>1, <3>2 DEF Init, TypeOK
  <2>2. Ascending
    BY DEF Init, Ascending, ReceivedInOrder
  <2>3. QED
    BY <2>1, <2>2 DEF StreamInv
<1>2. QED
  BY <1>1, StreamInvInductive, PTL DEF Spec

(* The types of the state.                                                  *)
THEOREM TypeCorrect == Spec => []TypeOK
<1>1. StreamInv => TypeOK
  BY DEF StreamInv
<1>2. QED
  BY <1>1, StreamInvariant, PTL

(* No row is handled twice and none before an earlier one (the variable of  *)
(* each turn, the channel, the two range loops).                            *)
THEOREM NoRowTwice == Spec => []ReceivedInOrder
<1>1. StreamInv => ReceivedInOrder
  BY DEF StreamInv, Ascending
<1>2. QED
  BY <1>1, StreamInvariant, PTL

-----------------------------------------------------------------------------
LEMMA OfferKeepsGapless ==
  ASSUME StreamInv, Gapless, Offer
  PROVE  Gapless'
<1> USE DEF StreamInv
<1>0. /\ result \in 0..PageLimit /\ read \in 0..result /\ PageLimit \in Nat
      /\ ErrorItem = PageLimit + 1 /\ ErrorItem \in Nat
      /\ stream \in Seq(1..ErrorItem) /\ received \in Seq(1..result)
      /\ Len(stream) \in Nat /\ Len(received) \in Nat
      /\ DOMAIN stream = 1..Len(stream) /\ DOMAIN received = 1..Len(received)
  BY Types
<1>1. UNCHANGED <<read, received, done>>
  BY DEF Offer, consumerVars
<1>2. SUFFICES ASSUME ~done PROVE Gapless'
  BY <1>1 DEF Gapless
<1>3. \A j \in DOMAIN stream : j \in 1..Len(stream) /\ stream[j] \in {Len(received) + j, ErrorItem}
  BY <1>0, <1>2 DEF Gapless
<1>4. CASE producer = "offer" /\ Send(read, "next")
  <2>1. /\ stream' = Append(stream, read) /\ producer' = "next"
        /\ read \in 1..ErrorItem
    BY <1>0, <1>4 DEF Send, Ascending
  <2>2. read = Len(received) + Len(stream) + 1
    BY <1>2, <1>4 DEF Gapless
  <2>3. /\ Len(stream') = Len(stream) + 1
        /\ DOMAIN stream' = DOMAIN stream \cup {Len(stream) + 1}
        /\ \A j \in DOMAIN stream : stream'[j] = stream[j]
        /\ stream'[Len(stream) + 1] = read
    BY <1>0, <2>1, AppendIsLast
  <2>4. \A j \in DOMAIN stream' : stream'[j] \in {Len(received) + j, ErrorItem}
    <3> SUFFICES ASSUME NEW j \in DOMAIN stream'
                 PROVE  stream'[j] \in {Len(received) + j, ErrorItem}
      OBVIOUS
    <3>1. CASE j \in DOMAIN stream
      BY <1>3, <2>3, <3>1
    <3>2. CASE j = Len(stream) + 1
      BY <1>0, <2>2, <2>3, <3>2
    <3>3. QED
      BY <2>3, <3>1, <3>2
  <2>5. read = Len(received) + Len(stream')
    BY <1>0, <2>2, <2>3
  <2>6. QED
    BY <1>1, <1>2, <2>1, <2>4, <2>5 DEF Gapless
<1>5. CASE producer = "error" /\ Send(ErrorItem, "close")
  <2>1. /\ stream' = Append(stream, ErrorItem) /\ producer' = "close"
        /\ ErrorItem \in 1..ErrorItem
    BY <1>0, <1>5 DEF Send
  <2>2. /\ DOMAIN stream' = DOMAIN stream \cup {Len(stream) + 1}
        /\ \A j \in DOMAIN stream : stream'[j] = stream[j]
        /\ stream'[Len(stream) + 1] = ErrorItem
    BY <1>0, <2>1, AppendIsLast
  <2>3. \A j \in DOMAIN stream' : stream'[j] \in {Len(received) + j, ErrorItem}
    BY <1>3, <2>2
  <2>4. QED
    BY <1>1, <1>2, <2>1, <2>3 DEF Gapless
<1>6. QED
  BY <1>2, <1>4, <1>5 DEF Offer

LEMMA ReceiveKeepsGapless ==
  ASSUME StreamInv, Gapless, Receive
  PROVE  Gapless'
<1> USE DEF StreamInv
<1>0. /\ result \in 0..PageLimit /\ read \in 0..result /\ PageLimit \in Nat
      /\ ErrorItem = PageLimit + 1 /\ ErrorItem \in Nat
      /\ stream \in Seq(1..ErrorItem) /\ received \in Seq(1..result)
      /\ Len(stream) \in Nat /\ Len(received) \in Nat
      /\ DOMAIN stream = 1..Len(stream) /\ DOMAIN received = 1..Len(received)
  BY Types
<1>1. /\ UNCHANGED <<read, producer, done>>
      /\ stream # <<>> /\ stream' = Tail(stream)
  BY DEF Receive, producerVars
<1>2. SUFFICES ASSUME ~done PROVE Gapless'
  BY <1>1 DEF Gapless
<1>3. /\ Head(stream) = stream[1] /\ 1 \in DOMAIN stream
      /\ Len(stream') = Len(stream) - 1
      /\ \A j \in DOMAIN stream' : j + 1 \in DOMAIN stream /\ stream'[j] = stream[j + 1]
      /\ \A j \in DOMAIN stream' : j \in Nat /\ 1 < j + 1
  BY <1>0, <1>1, HeadThenTail
<1>4. \A j \in DOMAIN stream : /\ stream[j] \in {Len(received) + j, ErrorItem}
                               /\ stream[j] \in 1..ErrorItem
  BY <1>0, <1>2 DEF Gapless
<1>5. CASE Head(stream) = ErrorItem
  <2>1. received' = received
    BY <1>5 DEF Receive
  <2>2. producer \in {"close", "closed"}
    BY <1>0, <1>3, <1>5 DEF Ascending
  <2>3. DOMAIN stream' = {}
    <3> SUFFICES ASSUME NEW j \in DOMAIN stream' PROVE FALSE
      OBVIOUS
    <3>1. 1 < j + 1 /\ j + 1 \in DOMAIN stream
      BY <1>3
    <3>2. stream[1] < stream[j + 1] /\ stream[j + 1] \in 1..ErrorItem
      BY <1>3, <1>4, <3>1 DEF Ascending
    <3>3. QED
      BY <1>0, <1>3, <1>5, <3>2
  <2>4. QED
    BY <1>1, <1>2, <2>1, <2>2, <2>3 DEF Gapless
<1>6. CASE Head(stream) # ErrorItem
  <2>1. Head(stream) \in 1..result /\ Head(stream) = Len(received) + 1
    <3>1. Head(stream) \in 1..read
      BY <1>6, ReceiveTakesFirst
    <3>2. QED
      BY <1>0, <1>3, <1>6, <1>4, <3>1
  <2>2. received' = Append(received, Head(stream))
    BY <1>6 DEF Receive
  <2>3. /\ Len(received') = Len(received) + 1
        /\ DOMAIN received' = DOMAIN received \cup {Len(received) + 1}
        /\ \A i \in DOMAIN received : received'[i] = received[i]
        /\ received'[Len(received) + 1] = Head(stream)
    <3>1. received \in Seq(1..result) /\ Head(stream) \in 1..result
      BY <1>0, <2>1
    <3>2. QED
      BY ONLY <2>2, <3>1, AppendIsLast
  <2>4. \A i \in DOMAIN received' : received'[i] = i
    BY <1>2, <2>1, <2>3 DEF Gapless
  <2>5. \A j \in DOMAIN stream' : stream'[j] \in {Len(received') + j, ErrorItem}
    BY <1>0, <1>2, <1>3, <2>3 DEF Gapless
  <2>6. Len(received') + Len(stream') = Len(received) + Len(stream)
    BY <1>0, <1>3, <2>3
  <2>7. QED
    BY <1>0, <1>1, <1>2, <2>3, <2>4, <2>5, <2>6, <1>3 DEF Gapless
<1>7. QED
  BY <1>5, <1>6

LEMMA GaplessInductive == StreamInv /\ Gapless /\ [Next]_vars => Gapless'
<1> SUFFICES ASSUME StreamInv, Gapless, [Next]_vars PROVE Gapless'
  OBVIOUS
<1>1. CASE Query
  BY <1>1 DEF Query, consumerVars, Gapless
<1>2. CASE NextRow
  <2>1. /\ read' = read + 1 /\ producer = "next" /\ producer' \in {"offer", "error"}
        /\ UNCHANGED <<stream, received, done>>
    BY <1>2 DEF NextRow, consumerVars
  <2>2. QED
    BY <2>1 DEF Gapless
<1>3. CASE RowsEnd \/ Finish
  BY <1>3 DEF RowsEnd, Finish, consumerVars, Gapless
<1>4. CASE Offer
  BY <1>4, OfferKeepsGapless
<1>5. CASE Receive
  BY <1>5, ReceiveKeepsGapless
<1>6. CASE Work \/ RangeEnds \/ Return \/ Expire \/ Over \/ UNCHANGED vars
  <2>1. /\ UNCHANGED <<read, producer, stream, received>>
        /\ ~done' => ~done
    BY <1>6 DEF Work, RangeEnds, Return, Expire, Over, vars, producerVars, consumerVars
  <2>2. QED
    BY <2>1 DEF Gapless
<1>7. QED
  BY <1>1, <1>2, <1>3, <1>4, <1>5, <1>6 DEF Next, Producer, Consumer

LEMMA GaplessInvariant == Spec => []Gapless
<1>1. Init => Gapless
  BY DEF Init, Gapless
<1>2. QED
  BY <1>1, StreamInvariant, GaplessInductive, PTL DEF Spec

(* A slow pass loses no row from the middle of its page: as long as the     *)
(* context lives, the producer waits for room in the channel.               *)
THEOREM NothingPassedOver == Spec => []NoGapWhileLive
<1>1. Gapless => NoGapWhileLive
  BY DEF Gapless, NoGapWhileLive
<1>2. QED
  BY <1>1, GaplessInvariant, PTL

-----------------------------------------------------------------------------
LEMMA ReceiveKeepsComplete ==
  ASSUME StreamInv, Complete, Receive
  PROVE  Complete'
<1>1. /\ UNCHANGED <<result, read, producer, done, upset>>
      /\ stream # <<>> /\ stream' = Tail(stream) /\ consumer = "range"
      /\ consumer' \in {"work", "return"}
  BY DEF Receive, producerVars
<1>2. /\ stream \in Seq(1..ErrorItem) /\ received \in Seq(1..result)
      /\ Len(stream) \in Nat /\ Len(received) \in Nat
  BY Types DEF StreamInv
<1>3. /\ Head(stream) = stream[1] /\ 1 \in DOMAIN stream
      /\ Len(stream') = Len(stream) - 1
      /\ \A j \in DOMAIN stream' : j + 1 \in DOMAIN stream /\ stream'[j] = stream[j + 1]
  BY <1>1, <1>2, HeadThenTail
<1>4. \A j \in DOMAIN stream' : stream'[j] = ErrorItem => upset
  BY <1>3 DEF Complete
<1>5. CASE Head(stream) = ErrorItem
  <2>1. upset
    BY <1>3, <1>5 DEF Complete
  <2>2. QED
    BY <1>1, <1>4, <2>1 DEF Complete
<1>6. CASE Head(stream) # ErrorItem
  <2>1. received' = Append(received, Head(stream)) /\ consumer' = "work"
    BY <1>6 DEF Receive
  <2>2. Head(stream) \in 1..result
    <3>1. Head(stream) \in 1..read
      BY <1>1, <1>6, ReceiveTakesFirst
    <3>2. QED
      BY <3>1, Types DEF StreamInv
  <2>3. Len(received') = Len(received) + 1
    BY <1>2, <2>1, <2>2, AppendIsLast
  <2>4. Len(received') + Len(stream') = Len(received) + Len(stream)
    BY <1>2, <1>3, <2>3
  <2>5. QED
    BY <1>1, <1>4, <2>1, <2>4 DEF Complete
<1>7. QED
  BY <1>5, <1>6

LEMMA OfferKeepsComplete ==
  ASSUME StreamInv, Complete, Offer
  PROVE  Complete'
<1>0. UNCHANGED <<result, read, consumer, received, done, upset>>
  BY DEF Offer, consumerVars
<1>1. CASE producer = "offer" /\ Send(read, "next")
  <2>1. stream' = Append(stream, read) /\ producer' = "next" /\ read \in 1..ErrorItem
    BY <1>1, Types DEF Send, StreamInv, Ascending
  <2>2. read # ErrorItem
    BY Types DEF StreamInv
  <2>3. \A j \in DOMAIN stream' : stream'[j] = ErrorItem => upset
    BY Types, <2>1, <2>2, AppendIsLast DEF StreamInv, Complete
  <2>4. QED
    BY <1>0, <1>1, <2>1, <2>3 DEF Complete
<1>2. CASE producer = "error"
  <2>1. upset /\ producer' = "close"
    BY <1>2 DEF Complete, Offer, Send, Skip
  <2>2. QED
    BY <1>0, <2>1 DEF Complete
<1>3. CASE producer = "offer" /\ done /\ Skip("next")
  BY <1>0, <1>3 DEF Skip, Complete
<1>4. QED
  BY <1>1, <1>2, <1>3 DEF Offer

LEMMA CompleteInductive ==
  StreamInv /\ Gapless /\ Complete /\ [Next]_vars => Complete'
<1> SUFFICES ASSUME StreamInv, Gapless, Complete, [Next]_vars PROVE Complete'
  OBVIOUS
<1>1. CASE Query
  BY <1>1 DEF Query, consumerVars, Complete
<1>2. CASE NextRow
  BY <1>2 DEF NextRow, consumerVars, Complete
<1>3. CASE RowsEnd
  <2>1. /\ producer = "next" /\ producer' = "close"
        /\ UNCHANGED <<result, read, stream, consumer, received, done>>
        /\ ~upset' => read = result /\ ~upset
    BY <1>3 DEF RowsEnd, consumerVars
  <2>2. ~upset => consumer \notin {"return", "left"}
    BY <2>1 DEF Complete
  <2>3. ~upset => read = Len(received) + Len(stream)
    BY <2>1, <2>2 DEF Complete, Gapless
  <2>4. upset => upset'
    BY <1>3 DEF RowsEnd
  <2>5. QED
    BY <2>1, <2>2, <2>3, <2>4 DEF Complete
<1>4. CASE Offer
  BY <1>4, OfferKeepsComplete
<1>5. CASE Finish
  BY <1>5 DEF Finish, consumerVars, Complete
<1>6. CASE Receive
  BY <1>6, ReceiveKeepsComplete
<1>7. CASE Work
  BY <1>7 DEF Work, producerVars, Complete
<1>8. CASE RangeEnds
  <2>1. /\ consumer = "range" /\ stream = <<>> /\ producer = "closed" /\ consumer' = "return"
        /\ UNCHANGED <<result, read, producer, stream, received, done, upset>>
    BY <1>8 DEF RangeEnds, producerVars
  <2>2. ASSUME ~upset PROVE Range(received) = 1..result
    <3>1. ~done /\ result = Len(received)
      BY <2>1, <2>2, Types DEF Complete, StreamInv
    <3>2. DOMAIN received = 1..result /\ \A i \in DOMAIN received : received[i] = i
      BY <3>1, Types DEF Gapless, StreamInv
    <3>3. QED
      BY <3>2 DEF Range
  <2>3. QED
    BY <2>1, <2>2 DEF Complete
<1>9. CASE Return
  BY <1>9 DEF Return, producerVars, Complete
<1>10. CASE Expire
  BY <1>10 DEF Expire, producerVars, consumerVars, Complete
<1>11. CASE Over \/ UNCHANGED vars
  BY <1>11 DEF Over, vars, producerVars, consumerVars, Complete
<1>12. QED
  BY <1>1, <1>2, <1>3, <1>4, <1>5, <1>6, <1>7, <1>8, <1>9, <1>10, <1>11
  DEF Next, Producer, Consumer

LEMMA CompleteInvariant == Spec => []Complete
<1>1. Init => Complete
  BY DEF Init, Complete
<1>2. QED
  BY <1>1, StreamInvariant, GaplessInvariant, CompleteInductive, PTL DEF Spec

-----------------------------------------------------------------------------
(* What PageCursor sees of a state.                                         *)
Page == IF consumer = "left" THEN {} ELSE (1..result) \ Range(received)

LEMMA RowIsTaken ==
  ASSUME StreamInv, Receive, Head(stream) # ErrorItem
  PROVE  Cursor!CursorNext
<1>1. Head(stream) \in 1..result /\ \A i \in DOMAIN received : received[i] # Head(stream)
  <2>1. /\ Head(stream) \in 1..read
        /\ \A i \in DOMAIN received : received[i] < Head(stream)
    BY ReceiveTakesFirst
  <2>2. QED
    BY <2>1, Types DEF StreamInv
<1>2. /\ received' = Append(received, Head(stream))
      /\ consumer = "range" /\ consumer' = "work" /\ UNCHANGED <<result, upset>>
  BY DEF Receive, producerVars
<1>3. Range(received') = Range(received) \cup {Head(stream)}
  <2>1. received \in Seq(1..result)
    BY Types DEF StreamInv
  <2>2. /\ DOMAIN received' = DOMAIN received \cup {Len(received) + 1}
        /\ \A i \in DOMAIN received : received'[i] = received[i]
        /\ received'[Len(received) + 1] = Head(stream)
    BY <1>1, <1>2, <2>1, AppendIsLast
  <2>3. QED
    BY <2>2 DEF Range
<1>4. Head(stream) \in Page /\ Page' = Page \ {Head(stream)}
  BY <1>1, <1>2, <1>3 DEF Page, Range
<1>5. Cursor!Take(Head(stream))
  BY <1>2, <1>4 DEF Cursor!Take, Page
<1>6. QED
  BY <1>2, <1>4, <1>5 DEF Cursor!CursorNext, Page

LEMMA StepRefines ==
  ASSUME StreamInv, Complete, [Next]_vars
  PROVE  [Cursor!CursorNext]_(Cursor!cursor)
<1>1. CASE Receive
  <2>1. CASE Head(stream) = ErrorItem
    BY <1>1, <2>1 DEF Receive, producerVars, Cursor!cursor
  <2>2. QED
    BY <1>1, <2>1, RowIsTaken
<1>2. CASE Query \/ NextRow \/ RowsEnd \/ Work \/ Expire
  <2>1. /\ UNCHANGED <<result, received>>
        /\ consumer = "left" <=> consumer' = "left"
        /\ upset' = TRUE \/ UNCHANGED upset
    BY <1>2 DEF Query, NextRow, RowsEnd, Work, Expire, producerVars, consumerVars
  <2>2. consumer = "left" => UNCHANGED upset
    BY <1>2 DEF Complete, Query, NextRow, RowsEnd, Work, Expire
  <2>3. CASE UNCHANGED upset
    BY <2>1, <2>3 DEF Cursor!cursor
  <2>4. CASE upset' = TRUE /\ consumer # "left"
    BY <2>1, <2>4 DEF Cursor!CursorNext, Cursor!Upset
  <2>5. QED
    BY <2>1, <2>2, <2>3, <2>4
<1>3. CASE Return
  <2>1. /\ consumer = "return" /\ consumer' = "left"
        /\ UNCHANGED <<result, received, upset>>
    BY <1>3 DEF Return, producerVars
  <2>2. upset \/ (1..result) \ Range(received) = {}
    BY <2>1 DEF Complete
  <2>3. QED
    BY <2>1, <2>2 DEF Cursor!CursorNext, Cursor!End
<1>4. CASE Offer \/ Finish \/ RangeEnds \/ Over \/ UNCHANGED vars
  <2>1. /\ UNCHANGED <<result, received, upset>>
        /\ consumer = "left" <=> consumer' = "left"
    BY <1>4 DEF Offer, Finish, RangeEnds, Over, vars, producerVars, consumerVars
  <2>2. QED
    BY <2>1 DEF Cursor!cursor
<1>5. QED
  BY <1>1, <1>2, <1>3, <1>4 DEF Next, Producer, Consumer

(* A pass that ranges over a stream sees a cursor over the page: no row     *)
(* comes twice, and none is missing at the end unless a call failed or the  *)
(* time ran out (both stream functions with the loops over them).           *)
THEOREM StreamIsCursor == Spec => ImplementsCursor
<1>1. Init => Cursor!CursorInit
  <2> SUFFICES ASSUME Init PROVE Cursor!CursorInit
    OBVIOUS
  <2>1. Range(received) = {} /\ consumer # "left" /\ result \in 0..PageLimit
    BY DEF Init, Range
  <2>2. (1..result) \ Range(received) = 1..result
    BY <2>1
  <2>3. QED
    BY <2>1, <2>2 DEF Init, Cursor!CursorInit
<1>2. StreamInv /\ Complete /\ [Next]_vars => [Cursor!CursorNext]_(Cursor!cursor)
  BY StepRefines
<1>3. QED
  BY <1>1, <1>2, StreamInvariant, CompleteInvariant, PTL
  DEF Spec, ImplementsCursor, Cursor!CursorSpec
=============================================================================
