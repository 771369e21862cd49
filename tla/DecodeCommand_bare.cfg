SPECIFICATION SpecCommand
CONSTANTS
  SeqSpace = 8
  Packets = {}
  MaxPackets = 0
  Captures <- MCTcpCaptures
  StrayMemory <- MCStrayMemory
  Decode <- MCDecode
  Endless <- MCEndless
INVARIANT
  NeverCrashes
CHECK_DEADLOCK FALSE
