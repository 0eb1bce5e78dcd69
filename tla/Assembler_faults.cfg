CONSTANTS
  ByteBase = 4
  WordBits = 6
  SizeMax = 63
  InitialCapacity = 1
  CdsgBytes = 14
  DtsgBytes = 6
  MaxLines = 2
  MaxPrefix = 1
  Names <- NamesUsed
  Programs <- FaultPrograms
  Edits <- OneLineEdited
  Faults <- AnyFaults
SPECIFICATION SpecEdited
INVARIANTS SecondTextFirstAddresses AppendsStayInBuffer
PROPERTIES KeepsPromiseForOneText
