------------------------------ MODULE Assembly ------------------------------
(***************************************************************************)
(* What assembling a source promises, without passes, segments that grow   *)
(* or a table that fills: the assembler answers once, with the exit code   *)
(* of the first fault of the source or with a code segment in which the    *)
(* processor finds the instructions of the source. Everything is defined   *)
(* over the whole source at once.                                          *)
(***************************************************************************)
EXTENDS KMProcessor, FiniteSetsExt

CONSTANTS Programs, CdsgBytes, DtsgBytes, SizeMax,
          FaultExits  \* exit codes a failure of the environment may lead to

VARIABLES source,   \* the lines of the source file
          outcome   \* NotYet, or what the assembler answered

NotYet == [exit |-> -1]

-----------------------------------------------------------------------------
(* The source.                                                             *)

Kind(i) == source[i].kind

Before(i, kinds) == {j \in 1..(i - 1) : Kind(j) \in kinds}

Sections == {"STMT_SECTION_CODE", "STMT_SECTION_DATA"}

\* .KMA comes before line i; line i is in the given section.
Opened(i) == Before(i, {"STMT_KMA"}) # {}

Within(i, section) ==
  Before(i, Sections) # {} /\ Kind(Max(Before(i, Sections))) = section

\* A declaration counts as many bytes as a size_t can hold of it.
DeclSize(i) == source[i].bytes % (SizeMax + 1)

InstructionSize(i) == instruction_get_encoded_size(source[i].desc)

\* Where each of some things of the given sizes begins, and the last one ends,
\* when they are laid out one after the other.
Starts(sizes) ==
  LET start[i \in 1..(Len(sizes) + 1)] ==
        IF i = 1 THEN 0 ELSE start[i - 1] + sizes[i - 1]
  IN  start

\* The places of the lines in the segments; a line of another kind takes no room.
DataSizes ==
  [i \in 1..Len(source) |-> IF Kind(i) = "STMT_DATA_DECL" THEN DeclSize(i) ELSE 0]

CodeSizes ==
  [i \in 1..Len(source) |-> IF Kind(i) = "STMT_INSTRUCTION" THEN InstructionSize(i) ELSE 0]

DataAddress(i) == Starts(DataSizes)[i]

CodeAddress(i) == Starts(CodeSizes)[i]

Defined(i) == IF Kind(i) = "STMT_LABEL_DEF" THEN source[i].label ELSE source[i].identifier

Definitions(i) == Before(i, {"STMT_LABEL_DEF", "STMT_DATA_DECL"})

DefinesAgain(i) == \E j \in Definitions(i) : Defined(j) = Defined(i)

End == Len(source) + 1

\* The address of a symbol: the place of its first definition, which is the only
\* one in a source without a fault.
Address(name) ==
  LET i == Min({i \in Definitions(End) : Defined(i) = name})
  IN  IF Kind(i) = "STMT_LABEL_DEF" THEN CodeAddress(i) ELSE DataAddress(i)

-----------------------------------------------------------------------------
(* Faults of the source.                                                   *)

Syntax     == 3
Unresolved == 6
CodeFull   == 7
DataFull   == 8
OwnFailure == 42

\* What is wrong with line i, all lines before it being right: 0 for nothing.
LineFault(i) ==
  CASE Kind(i) = "NO_TOKENS"    -> OwnFailure
    [] Kind(i) = "NO_STATEMENT" -> Syntax
    [] Kind(i) = "STMT_NONE"    -> 0
    [] Kind(i) = "STMT_KMA" -> IF Before(i, {"STMT_KMA"} \cup Sections) = {} THEN 0 ELSE Syntax
    [] Kind(i) \in Sections -> IF Opened(i) THEN 0 ELSE Syntax
    [] Kind(i) = "STMT_DATA_DECL" ->
         IF ~Within(i, "STMT_SECTION_DATA") THEN Syntax
         ELSE IF DataAddress(i) + DeclSize(i) > DtsgBytes THEN DataFull
         ELSE IF DefinesAgain(i) THEN Syntax ELSE 0
    [] Kind(i) = "STMT_INSTRUCTION" ->
         IF ~Within(i, "STMT_SECTION_CODE") THEN Syntax
         ELSE IF CodeAddress(i) + InstructionSize(i) > CdsgBytes THEN CodeFull ELSE 0
    [] Kind(i) = "STMT_LABEL_DEF" ->
         IF ~Within(i, "STMT_SECTION_CODE") \/ DefinesAgain(i) THEN Syntax ELSE 0

Refers(i) == {o \in DOMAIN source[i].ops : source[i].ops[o].specifier # "OPS_NONE"}

\* What only the second look at a line that is right by itself can find.
LateFault(i) ==
  CASE Kind(i) = "STMT_INSTRUCTION"
         /\ \E o \in Refers(i) : source[i].ops[o].label
                                    \notin {Defined(j) : j \in Definitions(End)} -> Unresolved
    [] Kind(i) = "STMT_DATA_DECL" /\ source[i].bytes > SizeMax -> DataFull
    [] OTHER -> 0

\* The first fault of the lines, in the order of the lines; a fault of the
\* second kind is reported only when no line has one of the first.
SourceFault ==
  LET early == {i \in DOMAIN source : LineFault(i) # 0}
      late  == {i \in DOMAIN source : LateFault(i) # 0}
  IN  IF early # {} THEN LineFault(Min(early))
      ELSE IF late # {} THEN LateFault(Min(late))
      ELSE 0

-----------------------------------------------------------------------------
(* The code segment.                                                       *)

Meant(op) == IF op.specifier = "OPS_NONE" THEN op.value ELSE Address(op.label)

\* The processor reads instruction i of the source at the instruction's address,
\* its operands being values; a conditional jump leads to the address it names,
\* modulo 2^32.
ReadableAs(code, i, values) ==
  LET at   == CodeAddress(i)
      got  == Fetch(code, at)
  IN  /\ got.mnemonic = source[i].desc.mnemonic
      /\ got.next = at + InstructionSize(i)
      /\ IF got.mnemonic \in ConditionalJumps
         THEN (TargetOf(code, at) - values[1]) % DwordValues = 0
         ELSE got.operands = values

MeantValues(ops) == [o \in DOMAIN ops |-> Meant(ops[o])]

Readable(code, i) == ReadableAs(code, i, MeantValues(source[i].ops))

IsProgram(program) ==
  /\ program.data = DataAddress(End)
  /\ Len(program.code) = CodeAddress(End)
  /\ \A i \in Before(End, {"STMT_INSTRUCTION"}) : Readable(program.code, i)

Promised(answer) ==
  \/ answer.exit = SourceFault /\ (answer.exit = 0 => IsProgram(answer))
  \/ answer.exit \in FaultExits

-----------------------------------------------------------------------------

Init == source \in Programs /\ outcome = NotYet

Answer == outcome = NotYet /\ Promised(outcome') /\ UNCHANGED source

Spec == Init /\ [][Answer]_<<source, outcome>>
=============================================================================
