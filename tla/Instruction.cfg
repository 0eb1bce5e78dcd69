CONSTANTS
  Lines <- MCLines
  Symbols <- MCSymbols
  ByteBase = 16
  Registers = {"A", "SP"}
  Samples = {"MOV", "JMP", "NOP"}
  MaxStatements = 2
  MaxTokens = 4
SPECIFICATION Spec
INVARIANTS ReadsBack AcceptsTheGrammar
CHECK_DEADLOCK FALSE
