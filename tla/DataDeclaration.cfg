CONSTANTS
  ByteBase = 4
  WordBits = 4
  SizeMax = 15
  InitialCapacity = 2
  MaxParts = 3
  Declarations <- SomeDeclarations
  Faults <- NoMemory
SPECIFICATION Spec
INVARIANTS WritesItsMeaning SummaryIsRight ReadsWithinLine EachFreedOnce FillsWithinParts
