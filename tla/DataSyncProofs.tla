--------------------------- MODULE DataSyncProofs ---------------------------
(***************************************************************************)
(* Theorems about the syncer, for every chain, range and number of faults. *)
(***************************************************************************)
EXTENDS DataSync, FiniteSetTheorems, TLAPS

Running == {"wait", "range", "filter", "save"}

(* Where the goroutine is.  A commit that was reported as a failure leaves  *)
(* the table ahead of the memory, by one range at most.                     *)
Position ==
  /\ number <= head
  /\ pc \in Running =>
       /\ number \in Nat
       /\ height <= number + 1
       /\ number <= height + RangeSync
  /\ pc \in {"range", "filter", "save"} =>
       number <= targetHeight /\ targetHeight <= head
  /\ pc \in {"filter", "save"} =>
       /\ height < targetHeight
       /\ endHeight = Lower(height + RangeSync, targetHeight)

(* The rows about to be saved: one for each event of the range.             *)
FoundIsRange ==
  pc = "save" =>
    /\ \A i \in DOMAIN found : found[i].event \in EventsIn(height, endHeight)
    /\ \A e \in EventsIn(height, endHeight) :
         \E i \in DOMAIN found : found[i].event = e
    /\ \A i, j \in DOMAIN found : found[i].event = found[j].event => i = j

SyncInv == TypeOK /\ Position /\ FoundIsRange /\ HeightTellsWhatIsRecorded

-----------------------------------------------------------------------------
LEMMA FormatEventType ==
  \A e \in Event : FormatEvent(e) \in Row /\ FormatEvent(e).event = e
BY DEF FormatEvent, Row, DepositStatus

LEMMA EventsInFinite ==
  ASSUME NEW m, NEW n
  PROVE  /\ IsFiniteSet(EventsIn(m, n))
         /\ Cardinality(EventsIn(m, n)) \in Nat
BY HeightAssumption, FS_Subset, FS_CardinalityType DEF EventsIn

(* A listing names every event of a set exactly once.                       *)
LEMMA ListingOnce ==
  ASSUME NEW S, IsFiniteSet(S), NEW s \in Listings(S)
  PROVE  /\ Cardinality(S) \in Nat
         /\ s \in [1..Cardinality(S) -> S]
         /\ \A e \in S : \E i \in DOMAIN s : s[i] = e
         /\ \A i, j \in DOMAIN s : s[i] = s[j] => i = j
<1> DEFINE n == Cardinality(S)
<1>1. n \in Nat
  BY FS_CardinalityType
<1>2. s \in [1..n -> S] /\ \A e \in S : \E i \in DOMAIN s : s[i] = e
  BY DEF Listings
<1>3. s \in Surjection(1..n, S)
  BY <1>2 DEF Surjection
<1>4. IsFiniteSet(1..n) /\ Cardinality(1..n) = n
  BY <1>1, FS_Interval
<1>5. s \in Injection(1..n, S)
  BY <1>3, <1>4, FS_SurjSameCardinalityImpliesInj
<1>6. QED
  BY <1>1, <1>2, <1>5 DEF Injection, IsInjective

LEMMA ConcatRows ==
  ASSUME NEW d \in Seq(Row), NEW r \in Seq(Row)
  PROVE  /\ d \o r \in Seq(Row)
         /\ \A i \in DOMAIN d : i \in DOMAIN (d \o r) /\ (d \o r)[i] = d[i]
         /\ \A i \in DOMAIN r : /\ Len(d) + i \in DOMAIN (d \o r)
                                /\ (d \o r)[Len(d) + i] = r[i]
         /\ \A k \in DOMAIN (d \o r) :
              k \in DOMAIN d \/ \E i \in DOMAIN r : k = Len(d) + i
<1> DEFINE c == d \o r
<1>1. c \in Seq(Row) /\ Len(c) = Len(d) + Len(r)
  OBVIOUS
<1>2. /\ DOMAIN c = 1..Len(c) /\ DOMAIN d = 1..Len(d) /\ DOMAIN r = 1..Len(r)
      /\ Len(d) \in Nat /\ Len(r) \in Nat
  BY <1>1
<1>3. \A i \in DOMAIN d : i \in DOMAIN c /\ c[i] = d[i]
  BY <1>1, <1>2
<1>4. \A i \in DOMAIN r : Len(d) + i \in DOMAIN c /\ c[Len(d) + i] = r[i]
  BY <1>1, <1>2
<1>5. ASSUME NEW k \in DOMAIN c, k \notin DOMAIN d
      PROVE  \E i \in DOMAIN r : k = Len(d) + i
  <2>1. k - Len(d) \in DOMAIN r /\ k = Len(d) + (k - Len(d))
    BY <1>1, <1>2, <1>5
  <2>2. QED
    BY <2>1
<1>6. QED
  BY <1>1, <1>3, <1>4, <1>5

(* FilterDepositFinalized and formatEvent.                                  *)
LEMMA FilterFinds ==
  ASSUME SyncInv, FilterEvents
  PROVE  found' \in Seq(Row) /\ FoundIsRange'
<1> PICK s \in Listings(EventsIn(height, endHeight)) :
           found' = [i \in DOMAIN s |-> FormatEvent(s[i])]
  BY DEF FilterEvents
<1> DEFINE S == EventsIn(height, endHeight)
<1>1. /\ Cardinality(S) \in Nat
      /\ s \in [1..Cardinality(S) -> S]
      /\ \A e \in S : \E i \in DOMAIN s : s[i] = e
      /\ \A i, j \in DOMAIN s : s[i] = s[j] => i = j
  BY ListingOnce, EventsInFinite
<1>2. S \subseteq Event
  BY DEF EventsIn
<1>3. /\ DOMAIN found' = 1..Cardinality(S)
      /\ \A i \in DOMAIN found' : found'[i] \in Row /\ found'[i].event = s[i]
  BY <1>1, <1>2, FormatEventType
<1>4. found' \in Seq(Row)
  BY <1>1, <1>3
<1>5. UNCHANGED <<height, endHeight>>
  BY DEF FilterEvents
<1>6. QED
  BY <1>1, <1>3, <1>4, <1>5 DEF FoundIsRange, EventsIn

(* A commit of SaveSyncedData, reported or not: the height moves to the end *)
(* of the range and the events up to there are recorded.                    *)
LEMMA CommitRecords ==
  ASSUME SyncInv, pc = "save", SaveSyncedData(found, endHeight)
  PROVE  /\ deposits' \in Seq(Row)
         /\ number' = endHeight
         /\ number <= endHeight /\ endHeight <= head
         /\ HeightTellsWhatIsRecorded'
<1> USE DEF SyncInv, TypeOK
<1>1. /\ number \in Nat /\ height <= number + 1 /\ number <= height + RangeSync
      /\ number <= targetHeight /\ targetHeight <= head
      /\ endHeight = Lower(height + RangeSync, targetHeight)
  BY DEF Position, Running
<1>2. number <= endHeight /\ endHeight <= head
  BY <1>1, RangeAssumption DEF Lower
<1>3. number' = endHeight /\ deposits' = deposits \o found
  BY DEF SaveSyncedData
<1>4. deposits \in Seq(Row) /\ found \in Seq(Row)
  OBVIOUS
<1>5. /\ deposits' \in Seq(Row)
      /\ \A i \in DOMAIN deposits :
           i \in DOMAIN deposits' /\ deposits'[i] = deposits[i]
      /\ \A i \in DOMAIN found : /\ Len(deposits) + i \in DOMAIN deposits'
                                 /\ deposits'[Len(deposits) + i] = found[i]
      /\ \A k \in DOMAIN deposits' :
           \/ k \in DOMAIN deposits
           \/ \E i \in DOMAIN found : k = Len(deposits) + i
  BY <1>3, <1>4, ConcatRows, Zenon
<1>6. ASSUME NEW e \in Event
      PROVE  Recorded(e)' <=>
               Recorded(e) \/ \E i \in DOMAIN found : found[i].event = e
  BY <1>5 DEF Recorded, Copies
<1>7. ASSUME NEW e \in Event
      PROVE  (\E i \in DOMAIN found : found[i].event = e) <=>
               Height[e] >= height /\ Height[e] <= endHeight
  BY HeightAssumption DEF FoundIsRange, EventsIn
<1>8. ASSUME NEW e \in Event
      PROVE  Recorded(e)' <=> Height[e] <= endHeight
  BY <1>1, <1>2, <1>6, <1>7, HeightAssumption DEF HeightTellsWhatIsRecorded
<1>9. QED
  BY <1>2, <1>3, <1>5, <1>8 DEF HeightTellsWhatIsRecorded

(* Only a commit records events; the first start only writes block 0.       *)
LEMMA RecordedUnchanged ==
  ASSUME SyncInv, UNCHANGED deposits,
         number' = number \/ InitHeight
  PROVE  HeightTellsWhatIsRecorded'
<1>1. \A e \in Event : Recorded(e)' <=> Recorded(e)
  BY DEF Recorded, Copies
<1>2. \A e \in Event : Height[e] <= number' <=> Height[e] <= number
  BY HeightAssumption DEF InitHeight, NoRow, SyncInv, TypeOK
<1>3. QED
  BY <1>1, <1>2 DEF SyncInv, HeightTellsWhatIsRecorded

THEOREM SyncInvInductive ==
  SyncInv /\ [Next]_vars => SyncInv' /\ number' >= number
<1> SUFFICES ASSUME SyncInv, [Next]_vars PROVE SyncInv' /\ number' >= number
  OBVIOUS
<1> USE RangeAssumption, SyncBoundsAssumption
    DEF SyncInv, TypeOK, Position, FoundIsRange, PC, Running, NoRow, tables,
        local
<1>1. CASE Prefight \/ PrefightFails
  <2>1. HeightTellsWhatIsRecorded'
    BY <1>1, RecordedUnchanged DEF Prefight, PrefightFails, InitHeight
  <2>2. UNCHANGED <<deposits, head, targetHeight, endHeight, found, lostAcks>>
    BY <1>1 DEF Prefight, PrefightFails
  <2>3. number' \in Nat \cup {NoRow} /\ number' >= number /\ number' <= head
    BY <1>1 DEF Prefight, PrefightFails, InitHeight
  <2>4. CASE Prefight
    <3>1. number' \in Nat /\ height' \in Nat /\ height' = number + 1
      BY <2>4 DEF Prefight, InitHeight, HeightToStartWith
    <3>2. height' <= number' + 1 /\ number' <= height' + RangeSync
      BY <2>4, <3>1 DEF Prefight, InitHeight
    <3>3. pc' = "wait" /\ faults' = faults
      BY <2>4 DEF Prefight
    <3>4. QED
      BY <2>1, <2>2, <2>3, <3>1, <3>2, <3>3
  <2>5. CASE PrefightFails
    BY <2>1, <2>2, <2>3, <2>5 DEF PrefightFails, Fault
  <2>6. QED
    BY <1>1, <2>4, <2>5
<1>2. CASE FilterEvents
  <2>1. HeightTellsWhatIsRecorded'
    BY <1>2, RecordedUnchanged DEF FilterEvents
  <2>2. found' \in Seq(Row) /\ FoundIsRange'
    BY <1>2, FilterFinds
  <2>3. QED
    BY <1>2, <2>1, <2>2 DEF FilterEvents
<1>3. CASE SaveRange \/ SaveRangeUnacknowledged
  <2>1. /\ deposits' \in Seq(Row) /\ number' = endHeight
        /\ number <= endHeight /\ endHeight <= head
        /\ HeightTellsWhatIsRecorded'
    BY <1>3, CommitRecords DEF SaveRange, SaveRangeUnacknowledged
  <2>2. found' = <<>> /\ <<>> \in Seq(Row)
    BY <1>3 DEF SaveRange, SaveRangeUnacknowledged
  <2>3. CASE SaveRange
    BY <2>1, <2>2, <2>3 DEF SaveRange, Lower
  <2>4. CASE SaveRangeUnacknowledged
    BY <2>1, <2>2, <2>4 DEF SaveRangeUnacknowledged, Fault, Lower
  <2>5. QED
    BY <1>3, <2>3, <2>4
<1>4. CASE \/ BlockNumber \/ StartRange \/ EndRun \/ RunFails \/ Crash
           \/ Restart \/ NewBlock \/ UNCHANGED vars
  <2>1. HeightTellsWhatIsRecorded'
    BY <1>4, RecordedUnchanged
    DEF BlockNumber, StartRange, EndRun, RunFails, Crash, Restart, NewBlock,
        vars
  <2>2. <<>> \in Seq(Row)
    OBVIOUS
  <2>3. CASE BlockNumber
    BY <2>1, <2>3 DEF BlockNumber
  <2>4. CASE StartRange
    BY <2>1, <2>4 DEF StartRange, Behind, Lower
  <2>5. CASE EndRun \/ Restart \/ UNCHANGED vars
    <3>1. UNCHANGED <<deposits, number, head, height, targetHeight, endHeight,
                      found, faults, lostAcks>>
      BY <2>5 DEF EndRun, Restart, vars
    <3>2. \/ pc' = pc
          \/ pc = "range" /\ pc' = "wait"
          \/ pc' = "preflight"
      BY <2>5 DEF EndRun, Restart, vars
    <3>3. FoundIsRange'
      BY <3>1, <3>2 DEF FoundIsRange
    <3>4. Position'
      BY <3>1, <3>2 DEF Position
    <3>5. QED
      BY <2>1, <3>1, <3>2, <3>3, <3>4
  <2>6. CASE RunFails \/ Crash
    <3>1. UNCHANGED <<deposits, number, head, lostAcks>> /\ found' = <<>>
      BY <2>6 DEF RunFails, Crash
    <3>2. /\ pc' \in {"wait", "down"} /\ faults' \in Nat
          /\ height' \in Nat /\ targetHeight' \in Nat /\ endHeight' \in Nat
      BY <2>6 DEF RunFails, Crash, Fault
    <3>3. pc' = "wait" => pc \in Running /\ height' = height
      BY <2>6 DEF RunFails, Crash
    <3>4. FoundIsRange'
      BY <3>2 DEF FoundIsRange
    <3>5. Position'
      BY <3>1, <3>2, <3>3 DEF Position
    <3>6. QED
      BY <2>1, <2>2, <3>1, <3>2, <3>4, <3>5
  <2>7. CASE NewBlock
    <3>1. UNCHANGED <<deposits, number, pc, height, targetHeight, endHeight,
                      found, faults, lostAcks>>
      BY <2>7 DEF NewBlock
    <3>2. head' \in Nat /\ head' >= head
      BY <2>7 DEF NewBlock
    <3>3. FoundIsRange'
      BY <3>1 DEF FoundIsRange
    <3>4. Position'
      BY <3>1, <3>2 DEF Position
    <3>5. QED
      BY <2>1, <3>1, <3>2, <3>3, <3>4
  <2>8. QED
    BY <1>4, <2>3, <2>4, <2>5, <2>6, <2>7
<1>5. QED
  BY <1>1, <1>2, <1>3, <1>4 DEF Next, Process

LEMMA SyncInvInitially == Init => SyncInv
BY HeightAssumption, SyncBoundsAssumption
DEF Init, SyncInv, TypeOK, Position, FoundIsRange, HeightTellsWhatIsRecorded,
    Recorded, Copies, PC, Running, NoRow

THEOREM SyncInvariant == Spec => []SyncInv
<1>1. SyncInv /\ [Next]_vars => SyncInv'  BY SyncInvInductive
<1>2. QED  BY <1>1, SyncInvInitially, PTL DEF Spec

(* The types of the state, the rows about to be saved and the saved ones    *)
(* included.                                                                *)
THEOREM TypeCorrect == Spec => []TypeOK
<1>1. SyncInv => TypeOK  BY DEF SyncInv
<1>2. QED  BY <1>1, SyncInvariant, PTL

(* No deposit is skipped and none is recorded early, whatever fails: up to  *)
(* the recorded height all bridge events are rows of deposits, above it     *)
(* none is (tryToSync, syncWithRange, SaveSyncedData, InitHeight).          *)
THEOREM NothingSkipped == Spec => []HeightTellsWhatIsRecorded
<1>1. SyncInv => HeightTellsWhatIsRecorded  BY DEF SyncInv
<1>2. QED  BY <1>1, SyncInvariant, PTL

(* The next block in memory is at most one above the recorded height        *)
(* (tryToSync advances it only after SaveSyncedData).                       *)
THEOREM NeverAhead == Spec => []MemoryNeverAhead
<1>1. SyncInv => MemoryNeverAhead
  BY DEF SyncInv, Position, Running, MemoryNeverAhead
<1>2. QED  BY <1>1, SyncInvariant, PTL

(* The recorded height never falls, although a range whose commit was not   *)
(* acknowledged is copied again from its beginning.                         *)
THEOREM NeverFalls == Spec => HeightNeverFalls
<1>1. SyncInv /\ [Next]_vars => [number' >= number]_vars
  BY SyncInvInductive
<1>2. QED  BY <1>1, SyncInvariant, PTL DEF Spec, HeightNeverFalls

-----------------------------------------------------------------------------
(* Duplicates.  What lies at or above the block in memory has been recorded *)
(* only by commits that were reported as failures.                          *)

CopiesInv ==
  /\ DuplicatesNeedLostAcks
  /\ pc \in Running =>
       \A e \in Event :
         Height[e] >= height => Cardinality(Copies(e)) <= lostAcks

LEMMA CopiesFinite ==
  ASSUME NEW d \in Seq(Row), NEW e
  PROVE  /\ IsFiniteSet({i \in DOMAIN d : d[i].event = e})
         /\ Cardinality({i \in DOMAIN d : d[i].event = e}) \in Nat
<1>1. Len(d) \in Nat /\ DOMAIN d = 1..Len(d)
  OBVIOUS
<1>2. IsFiniteSet(DOMAIN d)
  BY <1>1, FS_Interval
<1>3. {i \in DOMAIN d : d[i].event = e} \subseteq DOMAIN d
  OBVIOUS
<1>4. QED
  BY <1>2, <1>3, FS_Subset, FS_CardinalityType

(* A commit adds one copy of each event of the range.                       *)
LEMMA CommitAddsOne ==
  ASSUME SyncInv, pc = "save", SaveSyncedData(found, endHeight), NEW e \in Event
  PROVE  /\ Height[e] \notin height..endHeight => Copies(e)' = Copies(e)
         /\ Cardinality(Copies(e)') <= Cardinality(Copies(e)) + 1
<1> USE DEF SyncInv
<1>1. /\ deposits \in Seq(Row) /\ found \in Seq(Row)
      /\ deposits' = deposits \o found
  BY DEF TypeOK, SaveSyncedData
<1>2. /\ \A i \in DOMAIN deposits :
           i \in DOMAIN deposits' /\ deposits'[i] = deposits[i]
      /\ \A i \in DOMAIN found : /\ Len(deposits) + i \in DOMAIN deposits'
                                 /\ deposits'[Len(deposits) + i] = found[i]
      /\ \A k \in DOMAIN deposits' :
           \/ k \in DOMAIN deposits
           \/ \E i \in DOMAIN found : k = Len(deposits) + i
  BY <1>1, ConcatRows, Zenon
<1>3. IsFiniteSet(Copies(e)) /\ Cardinality(Copies(e)) \in Nat
  BY <1>1, CopiesFinite DEF Copies
<1>4. CASE \A i \in DOMAIN found : found[i].event # e
  <2>1. Copies(e)' = Copies(e)
    BY <1>2, <1>4 DEF Copies
  <2>2. QED
    BY <2>1, <1>3
<1>5. CASE \E i \in DOMAIN found : found[i].event = e
  <2> PICK i \in DOMAIN found : found[i].event = e
    BY <1>5
  <2>1. Height[e] \in height..endHeight
    BY DEF FoundIsRange, EventsIn
  <2>2. \A j \in DOMAIN found : found[j].event = e => j = i
    BY DEF FoundIsRange
  <2>3. Copies(e)' = Copies(e) \cup {Len(deposits) + i}
    BY <1>2, <2>2 DEF Copies
  <2>4. Cardinality(Copies(e) \cup {Len(deposits) + i})
          <= Cardinality(Copies(e)) + 1
    <3> DEFINE C == Copies(e)
               k == Len(deposits) + i
    <3>1. Cardinality(C \cup {k}) = IF k \in C THEN Cardinality(C)
                                    ELSE Cardinality(C) + 1
      BY <1>3, FS_AddElement, Zenon
    <3>2. QED
      BY <1>3, <3>1
  <2>5. Cardinality(Copies(e)') <= Cardinality(Copies(e)) + 1
    BY <2>3, <2>4, Zenon
  <2>6. QED
    BY <2>1, <2>5
<1>6. QED
  BY <1>4, <1>5

THEOREM CopiesInvInductive == SyncInv /\ CopiesInv /\ [Next]_vars => CopiesInv'
<1> SUFFICES ASSUME SyncInv, CopiesInv, [Next]_vars PROVE CopiesInv'
  OBVIOUS
<1>1. \A e \in Event : IsFiniteSet(Copies(e)) /\ Cardinality(Copies(e)) \in Nat
  BY CopiesFinite DEF SyncInv, TypeOK, Copies
<1>2. lostAcks \in Nat /\ height \in Nat /\ endHeight \in Nat
  BY DEF SyncInv, TypeOK
<1>3. CASE SaveRange \/ SaveRangeUnacknowledged
  <2>1. pc = "save" /\ SaveSyncedData(found, endHeight)
    BY <1>3 DEF SaveRange, SaveRangeUnacknowledged
  <2>2. \A e \in Event :
          height <= Height[e] => Cardinality(Copies(e)) <= lostAcks
    BY <1>2, <2>1, HeightAssumption DEF CopiesInv, Running
  <2>3. \A e \in Event :
          /\ Height[e] \notin height..endHeight => Copies(e)' = Copies(e)
          /\ Cardinality(Copies(e)') <= Cardinality(Copies(e)) + 1
          /\ Cardinality(Copies(e)') \in Nat
    <3>1. deposits' \in Seq(Row)
      BY SyncInvInductive DEF SyncInv, TypeOK
    <3>2. \A e \in Event : Cardinality(Copies(e)') \in Nat
      BY <3>1, CopiesFinite DEF Copies
    <3>3. QED
      BY <2>1, <3>2, CommitAddsOne
  <2>4. \A e \in Event : /\ Cardinality(Copies(e)) <= 1 + lostAcks
                         /\ Height[e] \in Nat
    BY HeightAssumption DEF CopiesInv, DuplicatesNeedLostAcks
  <2>5. CASE SaveRange
    <3>1. height' = endHeight + 1 /\ lostAcks' = lostAcks
      BY <2>5 DEF SaveRange
    <3>2. \A e \in Event : Cardinality(Copies(e)') <= 1 + lostAcks
      BY <1>1, <1>2, <2>2, <2>3, <2>4
    <3>3. \A e \in Event : Height[e] >= endHeight + 1 =>
                             Cardinality(Copies(e)') <= lostAcks
      <4> SUFFICES ASSUME NEW e \in Event, Height[e] >= endHeight + 1
                   PROVE  Cardinality(Copies(e)') <= lostAcks
        OBVIOUS
      <4>1. Height[e] \notin height..endHeight /\ height <= Height[e]
        BY <1>2, <2>1, <2>4, RangeAssumption
        DEF SyncInv, TypeOK, Position, Lower
      <4>2. QED
        BY <4>1, <2>2, <2>3
    <3>4. QED
      BY <3>1, <3>2, <3>3 DEF CopiesInv, DuplicatesNeedLostAcks
  <2>6. CASE SaveRangeUnacknowledged
    BY <1>1, <1>2, <2>2, <2>3, <2>6, <2>4
    DEF SaveRangeUnacknowledged, CopiesInv, DuplicatesNeedLostAcks
  <2>7. QED
    BY <1>3, <2>5, <2>6
<1>4. CASE Prefight
  <2>1. \A e \in Event : Copies(e)' = Copies(e)
    BY <1>4 DEF Prefight, Copies
  <2>2. \A e \in Event : Height[e] >= number + 1 => ~(Height[e] <= number)
    BY HeightAssumption DEF SyncInv, TypeOK, NoRow
  <2>3. \A e \in Event : Height[e] >= number + 1 => Copies(e) = {}
    BY <2>2 DEF SyncInv, HeightTellsWhatIsRecorded, Recorded
  <2>4. \A e \in Event : Height[e] >= number + 1 => Cardinality(Copies(e)) = 0
    BY <2>3, FS_EmptySet
  <2>5. height' = number + 1 /\ lostAcks' = lostAcks
    BY <1>4 DEF Prefight, HeightToStartWith
  <2>6. QED
    BY <1>2, <2>1, <2>4, <2>5 DEF CopiesInv, DuplicatesNeedLostAcks
<1>5. CASE \/ PrefightFails \/ BlockNumber \/ StartRange \/ EndRun
           \/ FilterEvents \/ RunFails \/ Crash \/ Restart \/ NewBlock
           \/ UNCHANGED vars
  <2>1. \A e \in Event : Copies(e)' = Copies(e)
    BY <1>5
    DEF PrefightFails, BlockNumber, StartRange, EndRun, FilterEvents, RunFails,
        Crash, Restart, NewBlock, vars, tables, Copies
  <2>2. /\ lostAcks' = lostAcks
        /\ pc' \in Running => pc \in Running /\ height' = height
    BY <1>5
    DEF PrefightFails, BlockNumber, StartRange, EndRun, FilterEvents, RunFails,
        Crash, Restart, NewBlock, vars, local, Running
  <2>3. QED
    BY <2>1, <2>2 DEF CopiesInv, DuplicatesNeedLostAcks
<1>6. QED
  BY <1>3, <1>4, <1>5 DEF Next, Process

(* A deposit is recorded again only for a commit that was reported as a     *)
(* failure (InitHeight, SaveSyncedData, the loop of tryToSync).             *)
THEOREM DuplicatesCounted == Spec => []DuplicatesNeedLostAcks
<1>1. Init => CopiesInv
  <2> SUFFICES ASSUME Init PROVE CopiesInv
    OBVIOUS
  <2>1. \A e \in Event : Copies(e) = {}
    BY DEF Init, Copies
  <2>2. QED
    BY <2>1, FS_EmptySet DEF Init, CopiesInv, DuplicatesNeedLostAcks, Running
<1>2. CopiesInv => DuplicatesNeedLostAcks
  BY DEF CopiesInv
<1>3. QED
  BY <1>1, <1>2, SyncInvariant, CopiesInvInductive, PTL DEF Spec

(* As long as the answer of no commit is lost, every deposit up to the      *)
(* recorded height is recorded exactly once, whatever else fails and        *)
(* however often the process dies (syncWithRange, SaveSyncedData).          *)
ExactlyOnce ==
  lostAcks = 0 =>
    \A e \in Event : Cardinality(Copies(e)) = IF Height[e] <= number THEN 1 ELSE 0

THEOREM RecordedExactlyOnce == Spec => []ExactlyOnce
<1>1. SyncInv /\ DuplicatesNeedLostAcks => ExactlyOnce
  <2> SUFFICES ASSUME SyncInv, DuplicatesNeedLostAcks, lostAcks = 0, NEW e \in Event
               PROVE  Cardinality(Copies(e)) = IF Height[e] <= number THEN 1 ELSE 0
    BY DEF ExactlyOnce
  <2>1. IsFiniteSet(Copies(e)) /\ Cardinality(Copies(e)) \in Nat
    BY CopiesFinite DEF SyncInv, TypeOK, Copies
  <2>2. Cardinality(Copies(e)) = 0 <=> Copies(e) = {}
    BY <2>1, FS_EmptySet
  <2>3. Copies(e) = {} <=> ~ (Height[e] <= number)
    BY DEF SyncInv, HeightTellsWhatIsRecorded, Recorded, Copies
  <2>4. Cardinality(Copies(e)) <= 1
    BY DEF DuplicatesNeedLostAcks
  <2>5. QED
    BY <2>1, <2>2, <2>3, <2>4
<1>2. QED
  BY <1>1, SyncInvariant, DuplicatesCounted, PTL
=============================================================================
