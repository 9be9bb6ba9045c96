\* Three faults: a failure, a signal and a death in any order.
CONSTANTS
  MaxFaults = 3
SPECIFICATION FairSpec
INVARIANTS
  TypeOK
  ExitTellsWhy
  AtMostOneMore
PROPERTIES
  ProcessEnds
  ComesBack
