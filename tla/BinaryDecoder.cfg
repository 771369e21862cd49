SPECIFICATION Spec
CONSTANTS
  Streams <- MCStreams
  MaxMessages = 12
INVARIANTS
  TypeOK
  WholeMessagesDecoded
  DatagramFieldsAgree
PROPERTY
  Terminates
CHECK_DEADLOCK FALSE
