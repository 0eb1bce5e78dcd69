CONSTANTS
  ByteBase = 4
  WordBits = 6
  SizeMax = 63
  InitialCapacity = 2
  CdsgBytes = 10
  DtsgBytes = 6
  MaxLines = 2
  Names <- NamesUsed
  Programs <- MainPrograms
  Faults <- NoFaults
  CommandLines <- SomeCommandLines
  Signature <- KMX
  OldTarget <- Leftover
  MainFaults <- OpenFault
  DataByte = 2
SPECIFICATION ProgramSpec
INVARIANTS FileHoldsTheSource ExitTellsTheFirstFault
PROPERTIES RunsAsMain Exits
