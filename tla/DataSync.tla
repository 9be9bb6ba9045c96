------------------------------ MODULE DataSync ------------------------------
(***************************************************************************)
(* The sync goroutine (internal/services/datasync.go, started by main.go): *)
(* it reads the recorded height once, then every 30 seconds copies the     *)
(* bridge events of the new blocks into the deposits table, a range of     *)
(* blocks at a time, and records the height together with them.            *)
(*                                                                         *)
(* The chain grows meanwhile; the process may die at any point and is      *)
(* restarted; every call may fail, and SaveSyncedData may commit without   *)
(* its caller learning of it, in which case the copy of the height in      *)
(* memory falls behind the table and the range is copied once more.        *)
(*                                                                         *)
(* Blocks are final and the node answers all of HeaderByNumber and         *)
(* FilterLogs from the chain whose length BlockNumber told.                *)
(***************************************************************************)
EXTENDS SyncRepository, FiniteSets

CONSTANTS
  Height,       \* Height[e]: the block of event e
  MetisEvents,  \* the events whose L2 token is METIS itself
  DripHeight,   \* deposits below this block are ignored (flag -height)
  RangeSync,    \* flag -range
  MaxHead,      \* bound: the last block of the chain
  MaxFaults     \* bound: crashes, failed calls and lost answers

(* Block 0 is the genesis block, which carries no events.                   *)
ASSUME HeightAssumption == IsFiniteSet(Event) /\ Height \in [Event -> Nat \ {0}]
ASSUME RangeAssumption == RangeSync \in Nat /\ DripHeight \in Nat
ASSUME SyncBoundsAssumption == MaxHead \in Nat /\ MaxFaults \in Nat

VARIABLES
  head,          \* the latest block
  pc,            \* the call the goroutine is about to make
  height,        \* DataSync.height: the next block to copy
  targetHeight,  \* the latest block as this run read it
  endHeight,     \* the last block of the range being copied
  found,         \* the rows made of the events of that range
  faults,        \* history: faults so far
  lostAcks       \* history: commits of SaveSyncedData reported as failures

tables == <<deposits, number>>
local == <<height, targetHeight, endHeight, found>>
vars == <<deposits, number, head, pc, local, faults, lostAcks>>

PC == {"down", "preflight", "wait", "range", "filter", "save"}

Fault == faults < MaxFaults /\ faults' = faults + 1

Lower(a, b) == IF a < b THEN a ELSE b

Init ==
  /\ deposits = <<>> /\ number = NoRow
  /\ head \in 0..MaxHead
  /\ pc = "preflight"
  /\ height = 0 /\ targetHeight = 0 /\ endHeight = 0 /\ found = <<>>
  /\ faults = 0 /\ lostAcks = 0

-----------------------------------------------------------------------------
Prefight ==
  /\ pc = "preflight"
  /\ InitHeight
  /\ height' = HeightToStartWith
  /\ pc' = "wait"
  /\ UNCHANGED <<deposits, head, targetHeight, endHeight, found,
                 faults, lostAcks>>

(* The error of Prefight ends the process, whether its INSERT took effect   *)
(* or not.                                                                  *)
PrefightFails ==
  /\ pc = "preflight"
  /\ Fault
  /\ InitHeight \/ UNCHANGED number
  /\ pc' = "down"
  /\ UNCHANGED <<deposits, head, local, lostAcks>>

(* A run begins with BlockNumber.                                           *)
BlockNumber ==
  /\ pc = "wait"
  /\ targetHeight' = head
  /\ pc' = "range"
  /\ UNCHANGED <<tables, head, height, endHeight, found, faults, lostAcks>>

(* Variant with a bug: only full ranges are copied.                         *)
BehindAFullRange == height + RangeSync < targetHeight

Behind == height < targetHeight

(* The loop of tryToSync: both ends of a range belong to it.                *)
StartRange ==
  /\ pc = "range" /\ Behind
  /\ endHeight' = Lower(height + RangeSync, targetHeight)
  /\ pc' = "filter"
  /\ UNCHANGED <<tables, head, height, targetHeight, found, faults, lostAcks>>

EndRun ==
  /\ pc = "range" /\ ~Behind
  /\ pc' = "wait"
  /\ UNCHANGED <<tables, head, local, faults, lostAcks>>

(* Variant with a bug: a deposit of METIS itself is taken for a token's.    *)
FormatEventAnyToken(e) ==
  [event |-> e,
   status |-> IF DripHeight > Height[e] THEN "ignore" ELSE "unprocessed"]

(* formatEvent: old deposits and deposits of METIS get no drip.             *)
FormatEvent(e) ==
  [event |-> e,
   status |-> IF DripHeight > Height[e] \/ e \in MetisEvents
              THEN "ignore" ELSE "unprocessed"]

(* Variant with a bug: the last block is taken to be exclusive.             *)
EventsInExclusive(first, last) ==
  {e \in Event : Height[e] >= first /\ Height[e] < last}

EventsIn(first, last) == {e \in Event : Height[e] \in first..last}

(* The order of the node's answer: that of the blocks, then that of the     *)
(* logs within a block, which is left open.                                *)
Listings(events) ==
  {s \in [1..Cardinality(events) -> events] :
     /\ \A e \in events : \E i \in DOMAIN s : s[i] = e
     /\ \A i, j \in DOMAIN s : i < j => Height[s[i]] <= Height[s[j]]}

(* syncWithRange up to the end of the iterator: HeaderByNumber only hashes  *)
(* the last block, FilterDepositFinalized lists the events.                *)
FilterEvents ==
  /\ pc = "filter"
  /\ \E s \in Listings(EventsIn(height, endHeight)) :
       found' = [i \in DOMAIN s |-> FormatEvent(s[i])]
  /\ pc' = "save"
  /\ UNCHANGED <<tables, head, height, targetHeight, endHeight,
                 faults, lostAcks>>

SaveRange ==
  /\ pc = "save"
  /\ SaveSyncedData(found, endHeight)
  /\ height' = endHeight + 1
  /\ found' = <<>>
  /\ pc' = "range"
  /\ UNCHANGED <<head, targetHeight, endHeight, faults, lostAcks>>

(* Variant with a bug: the range counts as done whatever happened.          *)
RunFailsButAdvances ==
  /\ pc \in {"filter", "save"} /\ Fault
  /\ height' = endHeight + 1
  /\ found' = <<>>
  /\ pc' = "wait"
  /\ UNCHANGED <<tables, head, targetHeight, endHeight, lostAcks>>

(* An error, the node's, the database's or that of a row that cannot be     *)
(* stored, ends the run; the next one begins with the same block.           *)
RunFails ==
  /\ \/ pc \in {"wait", "filter", "save"} /\ Fault
     \/ pc = "save" /\ ~Storable(found) /\ UNCHANGED faults
  /\ found' = <<>>
  /\ pc' = "wait"
  /\ UNCHANGED <<tables, head, height, targetHeight, endHeight, lostAcks>>

SaveRangeUnacknowledged ==
  /\ pc = "save"
  /\ Fault
  /\ SaveSyncedData(found, endHeight)
  /\ lostAcks' = lostAcks + 1
  /\ found' = <<>>
  /\ pc' = "wait"
  /\ UNCHANGED <<head, height, targetHeight, endHeight>>

Crash ==
  /\ pc # "down"
  /\ Fault
  /\ pc' = "down"
  /\ height' = 0 /\ targetHeight' = 0 /\ endHeight' = 0 /\ found' = <<>>
  /\ UNCHANGED <<tables, head, lostAcks>>

(* docker-compose: restart unless-stopped.                                  *)
Restart ==
  /\ pc = "down"
  /\ pc' = "preflight"
  /\ UNCHANGED <<tables, head, local, faults, lostAcks>>

NewBlock ==
  /\ head < MaxHead
  /\ head' = head + 1
  /\ UNCHANGED <<tables, pc, local, faults, lostAcks>>

-----------------------------------------------------------------------------
Process ==
  \/ Prefight \/ PrefightFails \/ Restart
  \/ BlockNumber \/ StartRange \/ EndRun
  \/ FilterEvents \/ SaveRange \/ SaveRangeUnacknowledged \/ RunFails

Next == Process \/ Crash \/ NewBlock

Spec == Init /\ [][Next]_vars

(* The timer fires again after every run and every call has a deadline.     *)
(* The chain need not grow, and faults are only known to be finitely many.  *)
FairSpec == Spec /\ WF_vars(Process)

-----------------------------------------------------------------------------
(* Properties.                                                              *)

Copies(e) == {i \in DOMAIN deposits : deposits[i].event = e}

Recorded(e) == Copies(e) # {}

TypeOK ==
  /\ deposits \in Seq(Row)
  /\ number \in Nat \cup {NoRow}
  /\ head \in Nat
  /\ pc \in PC
  /\ height \in Nat /\ targetHeight \in Nat /\ endHeight \in Nat
  /\ found \in Seq(Row)
  /\ faults \in Nat /\ lostAcks \in Nat

(* No deposit is skipped: up to the recorded height every bridge event is a *)
(* row of deposits, and above it none is, whatever call failed and wherever *)
(* the process died (SaveSyncedData commits rows and height together).      *)
HeightTellsWhatIsRecorded ==
  \A e \in Event : Recorded(e) <=> Height[e] <= number

(* A deposit is recorded once more only for a commit that was reported as a *)
(* failure: neither a crash nor a failed call duplicates rows, although the *)
(* table has no unique key on the transaction.                              *)
DuplicatesNeedLostAcks ==
  \A e \in Event : Cardinality(Copies(e)) <= 1 + lostAcks

(* The copy of the height in memory is never ahead of the table: a block is *)
(* not passed over because a failed range was counted as done.              *)
MemoryNeverAhead ==
  pc \in {"wait", "range", "filter", "save"} => height <= number + 1

(* The recorded height never falls, not even when a range whose commit was  *)
(* not acknowledged is copied again with another end.                       *)
HeightNeverFalls == [][number' >= number]_vars

(* The flag's help text, main.go:39: "range sync at once".                  *)
RangeAtOnce == pc = "filter" => endHeight - height + 1 <= RangeSync

(* Every event below the latest block is eventually recorded, even if the   *)
(* chain stops there, unless an event that cannot be stored lies before it  *)
(* or in the same range.                                                    *)
EveryEventIsRecorded ==
  \A e \in Event :
    Height[e] < head ~>
      \/ Recorded(e)
      \/ \E u \in Unstorable : Height[u] <= Height[e] + RangeSync
=============================================================================
