CONSTANTS
  ByteBase = 2
  CommandLines <- SomeCommandLines
  Answers <- SomeAnswers
  Signature <- KMX
  OldTarget <- Leftover
  Faults <- AllFaults
SPECIFICATION Spec
INVARIANTS WritesTheTarget RefusalKeepsTarget AssertionHolds LoadsWhatWasAssembled
