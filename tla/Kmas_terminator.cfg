CONSTANTS
  ByteBase = 2
  CommandLines <- SomeCommandLines
  Answers <- SomeAnswers
  Signature <- KMX
  OldTarget <- Leftover
  Faults <- NoFaults
SPECIFICATION Spec
INVARIANTS TerminatorUnlessHalt
