CONSTANTS
  Characters <- SomeCharacters
  Letters <- SomeLetters
  Digits <- SomeDigits
  Spaces <- SomeSpaces
  Single <- SomeSingle
  Keywords <- SomeKeywords
  InitLen = 2
  MaxLine = 4
  MaxValueLen = 4
  InitialTokens = 1
  Faults <- WithoutMemory
SPECIFICATION Spec
INVARIANTS TypeOK LineFitsBuffer EveryCharacterOnce WordsAreWhole TokensFitArray RefusedForItsText
