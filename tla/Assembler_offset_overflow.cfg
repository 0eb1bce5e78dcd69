CONSTANTS
  ByteBase = 4
  WordBits = 6
  SizeMax = 63
  InitialCapacity = 2
  CdsgBytes = 14
  DtsgBytes = 6
  MaxLines = 2
  Names <- NamesUsed
  Programs <- CodePrograms
  Faults <- NoFaults
SPECIFICATION Spec
INVARIANTS OffsetIsTheDifference
