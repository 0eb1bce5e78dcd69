--------------------------- MODULE MCInstruction ---------------------------
(***************************************************************************)
(* The lines for InstructionStream: those of the shapes the instruction    *)
(* table has, and lines of any shape.                                      *)
(***************************************************************************)
EXTENDS InstructionStream, TLC, SequencesExt

CONSTANTS Registers,    \* names of registers that occur
          Samples,      \* mnemonics that occur in lines of any shape
          MaxTokens     \* bound on the tokens of a line of any shape

Bare(type)             == [type |-> type, text |-> "", number |-> 0]
Word(type, text)       == [type |-> type, text |-> text, number |-> 0]
Number(n)              == [type |-> "TOKEN_NUMBER", text |-> "", number |-> n]

Eof       == Bare("TOKEN_EOF")
Comma     == Bare("TOKEN_COMMA")
ToLabel   == Word("TOKEN_LABEL", "@l")
OffsetX   == <<Bare("TOKEN_OFFSET"), Word("TOKEN_IDENTIFIER", "x")>>

\* The addresses of the two symbols.
MCSymbols == "@l" :> 7 @@ "x" :> 3

Mnemonics == {INSTRUCTION_TABLE[i].mnemonic : i \in DOMAIN INSTRUCTION_TABLE}

Numbers == {Number(n) : n \in {Int32Min, -1, 0, ByteBase, Int32Max}}

RegisterTokens == {Word("TOKEN_REGISTER", r) : r \in Registers}

\* Lines of the shapes that some row of the table has.
RightHandSides ==
  {<<Eof>>, <<ToLabel, Eof>>}
    \cup {<<o, Eof>> : o \in RegisterTokens \cup Numbers}
    \cup {<<r, Comma, o, Eof>> : r \in RegisterTokens, o \in RegisterTokens \cup Numbers}
    \cup {<<r, Comma>> \o OffsetX \o <<Eof>> : r \in RegisterTokens}

InstructionLines ==
  {<<Word("TOKEN_INSTRUCTION", m)>> \o rhs : m \in Mnemonics, rhs \in RightHandSides}

\* Lines of any shape over one token of each kind and numbers out of range.
AnyTokens ==
  {Bare(type) : type \in {"TOKEN_KMA", "TOKEN_SECTION_CODE", "TOKEN_SECTION_DATA",
                            "TOKEN_COMMA", "TOKEN_OFFSET", "TOKEN_UNKNOWN"}}
    \cup {Word("TOKEN_REGISTER", "SP"), Word("TOKEN_IDENTIFIER", "x"), ToLabel,
          Number(Int32Min - 1), Number(Int32Max)}
    \cup {Word("TOKEN_INSTRUCTION", m) : m \in Samples}

\* Every sequence of at most MaxTokens of them, or a mnemonic and such a sequence.
\* A line that begins with an identifier is the subject of DataDeclaration.
AnyLines ==
  LET short == UNION {[1..k -> AnyTokens] : k \in 0..2}
      after == UNION {[1..k -> AnyTokens] : k \in 3..(MaxTokens - 1)}
      all   == short \cup {<<Word("TOKEN_INSTRUCTION", m)>> \o t :
                              m \in Samples, t \in short \cup after}
  IN  {Append(t, Eof) : t \in {u \in all : u = << >> \/ u[1].type # "TOKEN_IDENTIFIER"}}

\* A complete instruction and one token more.
LongLines ==
  {Append(Append(Front(line), token), Eof) :
     line \in {l \in InstructionLines : l[1].text \in Samples}, token \in AnyTokens}

MCLines == InstructionLines \cup AnyLines \cup LongLines
=============================================================================
