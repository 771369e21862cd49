SPECIFICATION Spec
CONSTANTS
  c1 = c1
  c2 = c2
  NotANumber = NotANumber
  Clients <- MCClients
  Argvs <- MCArgvs
  Speeds <- MCSpeeds
  Targets <- MCTargets
  Addresses <- MCAddresses
  Files <- MCFiles
  PortSpace = 4
  Local = "lo"
  ServerPort = 1
  BufSize = 4
  ReportMin = 2
  ReportEnd = 4
  QueueCap = 2
  MaxDuplicates = 1
INVARIANTS
  TypeOK
  OptionsAsGiven
  ReportsAreOwn
  CountedLeft
PROPERTIES
  CountedIsPrintedOrLost
  ReplaysEnd
CHECK_DEADLOCK FALSE
