SPECIFICATION Spec
CONSTANTS
  Streams <- MCHeaderOnlyStreams
  MaxMessages = 4
PROPERTY
  EveryMessageAdvances
CHECK_DEADLOCK FALSE
