SPECIFICATION Spec
CONSTANTS
  b1 = b1
  b2 = b2
  b3 = b3
  m1 = m1
  m2 = m2
  m3 = m3
  Names <- MCNames
  Blocks <- MCBlocks
  Given <- MCGiven
  Bytes <- MCBytes
  SizeSpace = 6
  MaxBlock = 2
  Garbage = Garbage
  Null = Null
  Free = Free
  Lost = Lost
  None = None
SYMMETRY MCSymmetry
INVARIANTS
  EveryBlockHasOneOwner
PROPERTIES
  ImplementsBufferValues
CHECK_DEADLOCK FALSE
