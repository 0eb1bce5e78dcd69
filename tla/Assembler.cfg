CONSTANTS
  ByteBase = 4
  WordBits = 6
  SizeMax = 63
  InitialCapacity = 2
  CdsgBytes = 14
  DtsgBytes = 6
  MaxLines = 4
  Names <- NamesUsed
  Programs <- AllPrograms
  Faults <- OpenFault
SPECIFICATION FairSpec
INVARIANTS TypeOK LayoutAgrees SegmentsFit IInv RInv
PROPERTIES KeepsPromise Termination
