\* A page of eight rows: more than the channel, the producer's hand and the
\* consumer's hold together.
CONSTANTS
  PageLimit = 8
  Capacity = 5
SPECIFICATION FairSpec
INVARIANTS
  TypeOK
  ReceivedInOrder
  NoGapWhileLive
PROPERTIES
  ImplementsCursor
  PassEnds
  StreamIsReleased
