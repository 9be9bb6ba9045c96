\* Recipients whose accounts change while they are being judged.
CONSTANTS
  a1 = a1
  a2 = a2
  a3 = a3
  e1 = e1
  e2 = e2
  e3 = e3
  OldEvents = {}
  Event = {e1, e2}
  Addr = {a1, a2}
  Active = {a1, a2}
  To <- MCTo
  Height <- MCHeight
  DripHeight = 100
  Amount <- MCAmount
  Stable = {e1}
  Price <- MCPrice
  Unpriceable = {}
  MinUSD = 5
  MaxRows = 2
  MaxFaults = 1
  PageLimit = 2
SPECIFICATION Spec
INVARIANTS
  DripsGoToFreshAccounts
  DoneMeansExecuted
