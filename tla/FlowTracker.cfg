SPECIFICATION Spec
CONSTANTS
  SeqSpace = 4
  MaxPackets = 5
  Packets <- MCPackets
INVARIANTS
  TypeOK
  OneFlowPerConversation
  FlowsSummariseLog
  FlowsHoldTheirPackets
PROPERTY
  ImplementsConversationTable
CHECK_DEADLOCK FALSE
