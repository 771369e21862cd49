SPECIFICATION Spec
CONSTANTS
  SeqSpace = 6
  ISN = 4
  MaxPos = 14
  MaxLen = 2
  Window = 4
INVARIANTS
  TypeOK
  StreamIsContiguous
  NextSeqTracksStream
  MidstreamLosslessIsComplete
PROPERTY
  ImplementsOrderedDelivery
CHECK_DEADLOCK FALSE
