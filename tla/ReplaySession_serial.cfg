SPECIFICATION Spec
CONSTANTS
  c1 = c1
  c2 = c2
  None = None
  Clients <- MCClients
  Payloads <- MCLongPayloads
  SendCap = 3
  AckCap = 2
  RecvMax = 2
  HeaderLen = 2
  AckLen = 2
PROPERTY
  EveryClientIsAccepted
CHECK_DEADLOCK FALSE
