---------------------------- MODULE MCAssembler ----------------------------
(***************************************************************************)
(* Small sources for TLC: a prefix that opens the sections, then every     *)
(* sequence of at most MaxLines lines of an alphabet.                      *)
(***************************************************************************)
EXTENDS AssemblerRefinement, AssemblerClaims

CONSTANT MaxLines   \* bound on the lines after the prefix

Simple(kind)            == [kind |-> kind]
Decl(identifier, bytes) == [kind |-> "STMT_DATA_DECL", identifier |-> identifier, bytes |-> bytes]
Label(label)            == [kind |-> "STMT_LABEL_DEF", label |-> label]

Reg(n)       == [type |-> "OP_REG", specifier |-> "OPS_NONE", value |-> n, label |-> ""]
Num(n)       == [type |-> "OP_IMM32", specifier |-> "OPS_NONE", value |-> n, label |-> ""]
To(label)    == [type |-> "OP_IMM32", specifier |-> "OPS_LABEL", value |-> 0, label |-> label]
Offset(name) == [type |-> "OP_IMM32", specifier |-> "OPS_OFFSET", value |-> 0, label |-> name]

TypeOfOperand(ops, i) == IF i \in DOMAIN ops THEN ops[i].type ELSE "OP_NONE"

Instr(mnemonic, ops) ==
  [kind |-> "STMT_INSTRUCTION", ops |-> ops,
   desc |-> instruction_find(mnemonic, TypeOfOperand(ops, 1), TypeOfOperand(ops, 2))]

KMA  == Simple("STMT_KMA")
CODE == Simple("STMT_SECTION_CODE")
DATA == Simple("STMT_SECTION_DATA")

NamesUsed == {"@l", "@m", "x", "y"}

\* Code: two labels, jumps forwards and backwards, absolute and relative.
CodeAlphabet ==
  {Label("@l"), Label("@m"), Instr("JE", <<To("@l")>>), Instr("JMP", <<To("@m")>>),
   Instr("JNL", <<Num(Int32Min)>>), Instr("NOP", << >>), Instr("MOV", <<Reg(1), Offset("x")>>)}

\* Both sections, declarations that fit alone and not together.
MixedAlphabet ==
  {CODE, DATA, Decl("x", 2), Decl("y", 5), Label("@l"), Instr("JE", <<To("@l")>>),
   Instr("MOV", <<Reg(2), Offset("x")>>)}

\* Any beginning of a file, and lines without a statement.
StartAlphabet ==
  {Simple("NO_TOKENS"), Simple("NO_STATEMENT"), KMA, CODE, DATA, Decl("x", 2),
   Label("@l"), Instr("JE", <<To("@l")>>)}

\* Declarations around the limit of the segment and of a size_t.
SizesAlphabet ==
  {Decl(name, bytes) : name \in {"x", "y"},
     bytes \in {0, DtsgBytes - 1, DtsgBytes, DtsgBytes + 1,
                SizeMax, SizeMax + 1, SizeMax + 3}}
  \cup {CODE, DATA}

\* Sources of a prefix and some lines; an empty line makes them shorter.
After(prefix, alphabet, lines) ==
  {prefix \o s : s \in [1..lines -> alphabet \cup {Simple("STMT_NONE")}]}

CodeSources  == After(<<KMA, DATA, Decl("x", 2), CODE>>, CodeAlphabet, MaxLines)
MixedSources == After(<<KMA>>, MixedAlphabet, MaxLines)
StartSources == After(<< >>, StartAlphabet, MaxLines)
SizesSources == After(<<KMA, DATA>>, SizesAlphabet, MaxLines - 1)

AllSources   == UNION {CodeSources, MixedSources, StartSources, SizesSources}

\* TLC evaluates the sets above once, but what a .cfg puts in place of a constant
\* each time the constant is used.
AllPrograms   == AllSources
CodePrograms  == CodeSources
MixedPrograms == MixedSources

NoFaults == {}
OpenFault == {"open"}
ReadFaults == {"read"}
=============================================================================
