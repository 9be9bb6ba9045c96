\* The syncer and the faucet of one process over one table.
CONSTANTS
  a1 = a1
  a2 = a2
  Blocks <- MCBlocks
  Event <- MCEvent
  Addr = {a1, a2}
  Active = {}
  To <- MCTo
  Height <- MCHeight
  MetisEvents = {2}
  DripHeight = 2
  RangeSync = 0
  Unstorable = {5}
  Amount <- MCAmount
  Stable = {}
  Price <- MCPrice
  Unpriceable = {4}
  MinUSD = 5
  MaxRows = 6
  MaxHead = 5
  MaxFaults = 1
  PageLimit = 6
SPECIFICATION FairBridgeSpec
INVARIANTS
  DripsAreDue
  TransfersAreDue
PROPERTIES
  ImplementsSync
  ImplementsFaucet
  EveryEventIsSettled
