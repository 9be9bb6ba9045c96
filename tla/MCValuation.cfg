\* Every shape of a reply, amounts around the width of an integer.
CONSTANTS
  Bits = 5
  Amounts = {0, 9, 10, 15, 16, 40}
  Decimal = {0, 1}
  Prices = {0, 1, 2}
  MinUSD = 10
  NoNumber = NoNumber
  Flags = {NoNumber, 0, 1, 49, 51, 149, 300}
  Default = 1000
SPECIFICATION Spec
INVARIANTS
  VerdictIsRight
  DripIsAsked
