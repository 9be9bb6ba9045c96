\* Progress: no deposit and no drip is left behind.
CONSTANTS
  a1 = a1
  a2 = a2
  a3 = a3
  e1 = e1
  e2 = e2
  e3 = e3
  OldEvents = {e2}
  Event = {e1, e2, e3}
  Addr = {a1, a2, a3}
  Active = {}
  To <- MCTo
  Height <- MCHeight
  DripHeight = 100
  Amount <- MCAmount
  Stable = {e1}
  Price <- MCPrice
  Unpriceable = {e3}
  MinUSD = 5
  MaxRows = 3
  MaxFaults = 2
  PageLimit = 3
SPECIFICATION FairSpec
PROPERTIES
  EveryDepositIsJudged
  EveryLiveDripIsConfirmed
