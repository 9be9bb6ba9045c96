\* The size of a range.
CONSTANTS
  Blocks <- MCBlocks
  Event <- MCEvent
  Height <- MCHeight
  MetisEvents = {2}
  DripHeight = 2
  RangeSync = 20
  MaxHead = 41
  MaxFaults = 0
  Unstorable = {}
SPECIFICATION Spec
INVARIANT RangeAtOnce
