SPECIFICATION SpecCommand
CONSTANTS
  SeqSpace = 8
  Packets = {}
  MaxPackets = 0
  Captures <- MCCaptures
  StrayMemory <- MCStrayMemory
  Decode <- MCDecode
  Endless <- MCEndless
INVARIANTS
  CommandTypeOK
  CleanStreamsReported
  DatagramsReported
  EveryEventHasItsFrames
PROPERTY
  CommandEnds
CHECK_DEADLOCK FALSE
