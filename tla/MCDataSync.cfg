\* Copying under failures: five events in seven blocks, three faults; the
\* event in block 6 cannot be stored.
CONSTANTS
  Blocks <- MCBlocks
  Event <- MCEvent
  Height <- MCHeight
  MetisEvents = {2}
  DripHeight = 2
  RangeSync = 1
  MaxHead = 7
  MaxFaults = 3
  Unstorable = {5}
SPECIFICATION FairSpec
INVARIANTS
  TypeOK
  HeightTellsWhatIsRecorded
  DuplicatesNeedLostAcks
  MemoryNeverAhead
PROPERTIES
  HeightNeverFalls
  EveryEventIsRecorded
