\* One range of the syncer call by call, two faults.
CONSTANTS
  Blocks <- MCBlocks
  Event <- MCEvent
  Height <- MCHeight
  MetisEvents = {2}
  DripHeight = 0
  RangeSync = 1
  Unstorable = {4}
  Capacity = 1
  MaxHead = 3
  MaxFaults = 2
SPECIFICATION CopySpec
INVARIANTS
  CallTypeOK
  NoGoroutineIsLeft
PROPERTIES
  EveryTransactionEnds
  ImplementsSync
