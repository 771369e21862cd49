SPECIFICATION SpecCommand
CONSTANTS
  SeqSpace = 8
  Packets = {}
  MaxPackets = 0
  Captures <- MCPaddedCaptures
  StrayMemory <- MCStrayMemory
  Decode <- MCDecode
  Endless <- MCEndless
INVARIANT
  PaddedStreamsReported
CHECK_DEADLOCK FALSE
