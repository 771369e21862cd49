SPECIFICATION Spec
CONSTANTS
  c1 = c1
  c2 = c2
  None = None
  Clients <- MCClients
  Payloads <- MCPayloads
  SendCap = 3
  AckCap = 6
  RecvMax = 2
  HeaderLen = 2
  AckLen = 2
INVARIANTS
  TypeOK
  CountedIsTaken
  NothingLostWhileOpen
  OneClientAtATime
PROPERTIES
  ImplementsSequentialReplay
  ReplaysEnd
CHECK_DEADLOCK FALSE
