\* A restart while a drip is not yet mined.
CONSTANTS
  a1 = a1
  a2 = a2
  a3 = a3
  e1 = e1
  e2 = e2
  e3 = e3
  OldEvents = {}
  Event = {e1, e2}
  Addr = {a1, a2}
  Active = {}
  To <- MCTo
  Height <- MCHeight
  DripHeight = 100
  Amount <- MCAmount
  Stable = {e1}
  Price <- MCPrice
  Unpriceable = {}
  MinUSD = 5
  MaxRows = 3
  MaxFaults = 1
  PageLimit = 3
SPECIFICATION Spec
INVARIANT TransferedBefore
