----------------------------- MODULE Assembler -----------------------------
(***************************************************************************)
(* The two passes of the assembler over a source file. Pass 1 walks the    *)
(* lines, checks the order of the sections and the sizes of the segments   *)
(* and gives every label and variable an address. Pass 2 walks the lines   *)
(* again from the start, looks the addresses up and appends the bytes.     *)
(*                                                                         *)
(* One action handles one line: everything the program does between two    *)
(* calls of fu_getline. What the lexer and the parser make of a line is    *)
(* part of the line here: a statement, or the way in which they refuse it. *)
(***************************************************************************)
EXTENDS Instruction, Segment, FiniteSets

CONSTANTS Names,      \* the symbols a source may use; a label's begins with @
          Programs,   \* the source files: sequences of lines
          CdsgBytes,  \* KMA_CDSG_BYTES
          DtsgBytes,  \* KMA_DTSG_BYTES
          Faults      \* what may fail around the assembler: see Fault

-----------------------------------------------------------------------------
(* Lines.                                                                  *)

\* enum Reg_Code
RegisterCodes == 1..6

NoLabel == ""

\* A register operand has its code in value, a number its value, which
\* token_parse_int32 has accepted, and a label or OFFSET operand the symbol in
\* label.
Operands ==
  [type : {"OP_REG"}, specifier : {"OPS_NONE"}, value : RegisterCodes, label : {NoLabel}]
  \cup [type : {"OP_IMM32"}, specifier : {"OPS_NONE", "OPS_LABEL", "OPS_OFFSET"},
        value : Int32Min..Int32Max, label : Names \cup {NoLabel}]

NamesSymbol(op) == op.specifier # "OPS_NONE"

\* The descriptor is one instruction_find returns for these operands.
OperandsAgree(desc, ops) ==
  /\ Len(ops) <= 2
  /\ desc.operand1 = IF Len(ops) >= 1 THEN ops[1].type ELSE "OP_NONE"
  /\ desc.operand2 = IF Len(ops) >= 2 THEN ops[2].type ELSE "OP_NONE"
  /\ \A i \in DOMAIN ops : NamesSymbol(ops[i]) => ops[i].label \in Names

\* bytes is the number of bytes a declaration describes, which no machine word
\* limits: 5000000000 DUP(0) DWORDs take four times that number.
Lines ==
  [kind : {"STMT_KMA", "STMT_SECTION_CODE", "STMT_SECTION_DATA", "STMT_NONE",
           "NO_TOKENS", "NO_STATEMENT"}]
  \cup [kind : {"STMT_DATA_DECL"}, identifier : Names, bytes : Nat]
  \cup [kind : {"STMT_LABEL_DEF"}, label : Names]
  \cup {line \in [kind : {"STMT_INSTRUCTION"}, desc : Descriptors, ops : Seq(Operands)] :
          OperandsAgree(line.desc, line.ops)}

\* open:   the source cannot be opened (again)
\* read:   fu_getline fails: an input error, or no memory for the line
\* memory: an allocation fails
Fault == {"open", "read", "memory"}

ASSUME AssemblerAssumption ==
  /\ Programs \subseteq Seq(Lines)
  /\ CdsgBytes \in Nat /\ MaxEncodedSize <= CdsgBytes
  /\ CdsgBytes + MaxEncodedSize < SizeMax
  /\ DtsgBytes \in Nat /\ DtsgBytes < SizeMax
  /\ CdsgBytes <= Int32Max /\ DtsgBytes <= Int32Max
  /\ Faults \subseteq Fault

-----------------------------------------------------------------------------
(* State.                                                                  *)

VARIABLES
  source,   \* the lines of the source file
  phase,    \* what process_assembler is doing
  ctx,      \* the section the current pass is in
  nl,       \* the line the current pass reads next
  symtab,   \* addresses of the labels and variables
  dtsg,     \* the data segment: bytes in use and allocated
  cdsg,     \* the code segment
  code,     \* the bytes of the code segment
  err,      \* the error that ended the run
  layout    \* history: where each segment stood before each line in pass 1

vars == <<source, phase, ctx, nl, symtab, dtsg, cdsg, code, err, layout>>

Phases == {"open1", "pass1", "open2", "pass2", "done"}

Contexts == {"ASC_FILE_START", "ASC_AFTER_KMA", "ASC_DATA", "ASC_CODE"}

Errors == {"ASM_NO_ERROR", "ASM_KMA_EXPECTED", "ASM_KMA_DOUBLE",
           "ASM_CANNOT_OPEN_FILE", "ASM_CREATING_TOKENS", "ASM_CREATING_PSTMT",
           "ASM_DATA_ABROAD", "ASM_CODE_ABROAD", "ASM_DTSG_CANNOT_ADVANCE",
           "ASM_SYMTAB_CANNOT_ADD", "ASM_SYMTAB_ALREADY_EXIST",
           "ASM_DTSG_TOO_LARGE", "ASM_CDSG_TOO_LARGE", "ASM_DTSG_CANNOT_APPEND",
           "ASM_CDSG_CANNOT_APPEND", "ASM_INVALID_OPERAND_LABEL"}

\* Seeded fault: an error the switch does not list counts as a success.
convert_errDefaultZero(e) ==
  CASE e \in {"ASM_KMA_EXPECTED", "ASM_KMA_DOUBLE", "ASM_DATA_ABROAD",
              "ASM_CODE_ABROAD", "ASM_SYMTAB_ALREADY_EXIST",
              "ASM_CREATING_PSTMT"} -> 3
    [] e = "ASM_CANNOT_OPEN_FILE" -> 4
    [] e = "ASM_INVALID_OPERAND_LABEL" -> 6
    [] e \in {"ASM_CDSG_TOO_LARGE", "ASM_CDSG_CANNOT_APPEND"} -> 7
    [] e \in {"ASM_DTSG_TOO_LARGE", "ASM_DTSG_CANNOT_APPEND",
              "ASM_DTSG_CANNOT_ADVANCE"} -> 8
    [] OTHER -> 0

\* The exit code of an error of the assembler.
convert_err(e) ==
  CASE e = "ASM_NO_ERROR" -> 0
    [] e \in {"ASM_KMA_EXPECTED", "ASM_KMA_DOUBLE", "ASM_DATA_ABROAD",
              "ASM_CODE_ABROAD", "ASM_SYMTAB_ALREADY_EXIST",
              "ASM_CREATING_PSTMT"} -> 3
    [] e = "ASM_CANNOT_OPEN_FILE" -> 4
    [] e = "ASM_INVALID_OPERAND_LABEL" -> 6
    [] e \in {"ASM_CDSG_TOO_LARGE", "ASM_CDSG_CANNOT_APPEND"} -> 7
    [] e \in {"ASM_DTSG_TOO_LARGE", "ASM_DTSG_CANNOT_APPEND",
              "ASM_DTSG_CANNOT_ADVANCE"} -> 8
    [] OTHER -> 42

\* asp_init: an empty table and two empty segments.
Init ==
  /\ source \in Programs
  /\ phase = "open1" /\ ctx = "ASC_FILE_START" /\ nl = 1
  /\ symtab = [name \in {} |-> 0]
  /\ dtsg = Empty /\ cdsg = Empty /\ code = << >>
  /\ err = "ASM_NO_ERROR"
  /\ layout = <<[code |-> 0, data |-> 0]>>

-----------------------------------------------------------------------------
(* The end of a step: the pass goes on to the next line, or the error ends *)
(* the run. In pass 1 the history notes where the segments stand now.      *)

NextLine ==
  /\ nl' = nl + 1
  /\ layout' = IF phase = "pass1"
               THEN Append(layout, [code |-> cdsg'.size, data |-> dtsg'.size])
               ELSE layout
  /\ UNCHANGED <<source, phase, err>>

Return(e) ==
  /\ e # "ASM_NO_ERROR"
  /\ phase' = "done" /\ err' = e
  /\ UNCHANGED <<source, nl, layout>>

\* NextLine without an error, Return(e) with one.
Proceed(e) == (e = "ASM_NO_ERROR" /\ NextLine) \/ Return(e)

Line == source[nl]

AtLine(p, kind) == phase = p /\ nl \in DOMAIN source /\ Line.kind = kind

InPass(kind) == AtLine("pass1", kind) \/ AtLine("pass2", kind)

AllocationFails == "memory" \in Faults

segments == <<dtsg, cdsg, code>>

-----------------------------------------------------------------------------
(* passes_any_pass: open the file, read to its end, close it.              *)

\* Seeded fault: the second pass goes on in the section the first one ended in.
OpenSourceSameSection ==
  /\ phase \in {"open1", "open2"}
  /\ phase' = IF phase = "open1" THEN "pass1" ELSE "pass2"
  /\ nl' = 1
  /\ UNCHANGED <<source, ctx, symtab, segments, err, layout>>

OpenSource ==
  /\ phase \in {"open1", "open2"}
  /\ phase' = IF phase = "open1" THEN "pass1" ELSE "pass2"
  /\ ctx' = "ASC_FILE_START" /\ nl' = 1
  /\ UNCHANGED <<source, symtab, segments, err, layout>>

CannotOpenSource ==
  /\ phase \in {"open1", "open2"} /\ "open" \in Faults
  /\ Return("ASM_CANNOT_OPEN_FILE")
  /\ UNCHANGED <<ctx, symtab, segments>>

\* Seeded fault: the end of the file is not noticed.
EndOfFileMissed == "read" \in Faults

\* fu_getline returns -1, at the end of the file and on a failure alike. If the
\* failure is an input error in the middle of a line, it first hands back what was
\* read of that line: the pass is given other lines than the file has, which is
\* for EditedSource.
EndOfFile == nl \notin DOMAIN source \/ "read" \in Faults

\* Between the passes process_assembler begins both segments again.
EndPass1 ==
  /\ phase = "pass1" /\ EndOfFile
  /\ phase' = "open2"
  /\ dtsg' = Begin(dtsg) /\ cdsg' = Begin(cdsg)
  /\ UNCHANGED <<source, ctx, nl, symtab, code, err, layout>>

EndPass2 ==
  /\ phase = "pass2" /\ EndOfFile
  /\ phase' = "done"
  /\ UNCHANGED <<source, ctx, nl, symtab, segments, err, layout>>

-----------------------------------------------------------------------------
(* passes_line: what both passes do with a line.                           *)

\* The lexer refuses the line, or cannot allocate its tokens.
NoTokens ==
  /\ phase \in {"pass1", "pass2"} /\ nl \in DOMAIN source
  /\ Line.kind = "NO_TOKENS" \/ AllocationFails
  /\ Return("ASM_CREATING_TOKENS")
  /\ UNCHANGED <<ctx, symtab, segments>>

\* The parser refuses the line, or cannot allocate the statement.
NoStatement ==
  /\ phase \in {"pass1", "pass2"} /\ nl \in DOMAIN source
  /\ \/ Line.kind = "NO_STATEMENT"
     \/ AllocationFails /\ Line.kind # "NO_TOKENS"
  /\ Return("ASM_CREATING_PSTMT")
  /\ UNCHANGED <<ctx, symtab, segments>>

passes_kma ==
  LET e == IF ctx = "ASC_FILE_START" THEN "ASM_NO_ERROR" ELSE "ASM_KMA_DOUBLE" IN
  /\ InPass("STMT_KMA")
  /\ ctx' = IF e = "ASM_NO_ERROR" THEN "ASC_AFTER_KMA" ELSE ctx
  /\ UNCHANGED <<symtab, segments>>
  /\ Proceed(e)

SectionError ==
  IF ctx # "ASC_FILE_START" THEN "ASM_NO_ERROR" ELSE "ASM_KMA_EXPECTED"

passes_code_section ==
  /\ InPass("STMT_SECTION_CODE")
  /\ ctx' = IF SectionError = "ASM_NO_ERROR" THEN "ASC_CODE" ELSE ctx
  /\ UNCHANGED <<symtab, segments>>
  /\ Proceed(SectionError)

passes_data_section ==
  /\ InPass("STMT_SECTION_DATA")
  /\ ctx' = IF SectionError = "ASM_NO_ERROR" THEN "ASC_DATA" ELSE ctx
  /\ UNCHANGED <<symtab, segments>>
  /\ Proceed(SectionError)

\* An empty line or a comment.
passes_none ==
  /\ InPass("STMT_NONE")
  /\ UNCHANGED <<ctx, symtab, segments>>
  /\ NextLine

-----------------------------------------------------------------------------
(* Symbols.                                                                *)

\* symtab_add appends an entry and symtab_find returns the first one of a name.
symtab_add(name, address) ==
  [n \in DOMAIN symtab \cup {name} |-> IF n \in DOMAIN symtab THEN symtab[n] ELSE address]

\* The array of symbols is full: the next one needs a larger one.
SymtabFull == Cardinality(DOMAIN symtab) \in Doublings(InitialCapacity)

\* The last step of a definition in pass 1, for one its checks found no fault in.
Define(name, address) ==
  \/ /\ symtab' = symtab_add(name, address)
     /\ NextLine
  \/ /\ AllocationFails /\ SymtabFull
     /\ Return("ASM_SYMTAB_CANNOT_ADD")
     /\ UNCHANGED symtab

-----------------------------------------------------------------------------
(* Pass 1.                                                                 *)

\* total_size of the statement: the parser adds it up in a size_t.
TotalSize(line) == line.bytes % (SizeMax + 1)

\* Seeded fault: the bytes are compared with the limit, not where they end.
DeclErrorSizeOnly(line) ==
  LET size == TotalSize(line) IN
  IF ctx # "ASC_DATA" THEN "ASM_DATA_ABROAD"
  ELSE IF size > DtsgBytes THEN "ASM_DTSG_TOO_LARGE"
  ELSE IF line.identifier \in DOMAIN symtab THEN "ASM_SYMTAB_ALREADY_EXIST"
  ELSE "ASM_NO_ERROR"

\* The first check of pass1_data_decl that fails.
DeclError(line) ==
  LET size == TotalSize(line)
      position == PositionOf(dtsg, size)
  IN  IF ctx # "ASC_DATA" THEN "ASM_DATA_ABROAD"
      ELSE IF position = SizeMax THEN "ASM_DTSG_CANNOT_ADVANCE"
      ELSE IF size > DtsgBytes \/ position > DtsgBytes - size THEN "ASM_DTSG_TOO_LARGE"
      ELSE IF line.identifier \in DOMAIN symtab THEN "ASM_SYMTAB_ALREADY_EXIST"
      ELSE "ASM_NO_ERROR"

\* The segment is advanced before the checks on its size.
pass1_data_decl ==
  LET e == DeclError(Line)
      size == TotalSize(Line)
  IN  /\ AtLine("pass1", "STMT_DATA_DECL")
      /\ dtsg' = IF e = "ASM_DATA_ABROAD" THEN dtsg ELSE Advance(dtsg, size)
      /\ UNCHANGED <<ctx, cdsg, code>>
      /\ \/ e = "ASM_NO_ERROR" /\ Define(Line.identifier, PositionOf(dtsg, size))
         \/ Return(e) /\ UNCHANGED symtab

\* The first check of pass1_instruction that fails.
InstructionError(line) ==
  LET size == instruction_get_encoded_size(line.desc) IN
  IF ctx # "ASC_CODE" THEN "ASM_CODE_ABROAD"
  ELSE IF PositionOf(cdsg, size) > CdsgBytes - size THEN "ASM_CDSG_TOO_LARGE"
  ELSE "ASM_NO_ERROR"

pass1_instruction ==
  LET e == InstructionError(Line) IN
  /\ AtLine("pass1", "STMT_INSTRUCTION")
  /\ cdsg' = IF e = "ASM_CODE_ABROAD" THEN cdsg
             ELSE Advance(cdsg, instruction_get_encoded_size(Line.desc))
  /\ UNCHANGED <<ctx, symtab, dtsg, code>>
  /\ Proceed(e)

\* The first check of pass1_label_def that fails.
LabelError(line) ==
  IF ctx # "ASC_CODE" THEN "ASM_CODE_ABROAD"
  ELSE IF PositionOf(cdsg, 0) > CdsgBytes THEN "ASM_CDSG_TOO_LARGE"
  ELSE IF line.label \in DOMAIN symtab THEN "ASM_SYMTAB_ALREADY_EXIST"
  ELSE "ASM_NO_ERROR"

\* A label takes no bytes: the segment is advanced by 0.
pass1_label_def ==
  LET e == LabelError(Line) IN
  /\ AtLine("pass1", "STMT_LABEL_DEF")
  /\ UNCHANGED <<ctx, segments>>
  /\ \/ e = "ASM_NO_ERROR" /\ Define(Line.label, PositionOf(cdsg, 0))
     \/ Return(e) /\ UNCHANGED symtab

-----------------------------------------------------------------------------
(* Pass 2.                                                                 *)

\* The appends of all parts of a declaration; one that fails ends the run, and
\* what the parts before it have appended is left out. DataDeclaration has the parts.
pass2_data_decl ==
  LET bytes == Line.bytes IN
  /\ AtLine("pass2", "STMT_DATA_DECL")
  /\ UNCHANGED <<ctx, symtab, cdsg, code>>
  /\ \/ Fits(dtsg, bytes) /\ dtsg' = Appended(dtsg, bytes) /\ NextLine
     \/ /\ ~Fits(dtsg, bytes) \/ (AllocationFails /\ MustGrow(dtsg, bytes))
        /\ Return("ASM_DTSG_CANNOT_APPEND")
        /\ UNCHANGED dtsg

\* convert_uint32, convert_size_t: the number as an int32_t.
Saturated(n) == IF n > Int32Max THEN Int32Max ELSE n

Unresolved(ops) ==
  \E i \in DOMAIN ops : NamesSymbol(ops[i]) /\ ops[i].label \notin DOMAIN symtab

OperandValue(op) == IF NamesSymbol(op) THEN Saturated(symtab[op.label]) ELSE op.value

\* Seeded fault: the offset counts from the jump itself.
OffsetFromJump(desc, ops, at) ==
  [i \in DOMAIN ops |->
     IF i = 1 /\ instruction_is_relative_jump(desc)
     THEN OperandValue(ops[i]) - Saturated(at)
     ELSE OperandValue(ops[i])]

\* The operands as they are appended at address at: the operand of a relative
\* jump counts from the end of the jump. A number given as the operand of a jump is treated
\* like a label's address, and the subtraction may leave the range of int32_t.
FinalValues(desc, ops, at) ==
  [i \in DOMAIN ops |->
     IF i = 1 /\ instruction_is_relative_jump(desc)
     THEN OperandValue(ops[i])
            - (Saturated(at) + Saturated(instruction_get_encoded_size(desc)))
     ELSE OperandValue(ops[i])]

\* bytes copied into the buffer at address at; cells nothing wrote are 0.
Overwrite(buffer, at, bytes) ==
  [i \in 1..(at + Len(bytes)) |->
     IF i > at THEN bytes[i - at] ELSE IF i <= Len(buffer) THEN buffer[i] ELSE 0]

\* The operands are looked up before anything is appended; cdsg grows by the
\* bytes it is given, whatever pass 1 reserved for them.
pass2_instruction ==
  LET desc  == Line.desc
      ops   == Line.ops
      bytes == Encode(desc, ops, FinalValues(desc, ops, cdsg.size))
      size  == Len(bytes)
  IN  /\ AtLine("pass2", "STMT_INSTRUCTION")
      /\ UNCHANGED <<ctx, symtab, dtsg>>
      /\ \/ /\ ~Unresolved(ops) /\ Fits(cdsg, size)
            /\ cdsg' = Appended(cdsg, size)
            /\ code' = Overwrite(code, cdsg.size, bytes)
            /\ NextLine
         \/ /\ Unresolved(ops)
            /\ Return("ASM_INVALID_OPERAND_LABEL")
            /\ UNCHANGED <<cdsg, code>>
         \/ /\ ~Unresolved(ops)
            /\ ~Fits(cdsg, size) \/ (AllocationFails /\ MustGrow(cdsg, size))
            /\ Return("ASM_CDSG_CANNOT_APPEND")
            /\ UNCHANGED <<cdsg, code>>

\* A label definition belongs to pass 1.
pass2_label_def ==
  /\ AtLine("pass2", "STMT_LABEL_DEF")
  /\ UNCHANGED <<ctx, symtab, segments>>
  /\ NextLine

-----------------------------------------------------------------------------

Files == OpenSource \/ CannotOpenSource \/ EndPass1 \/ EndPass2

BothPasses == NoTokens \/ NoStatement \/ passes_kma \/ passes_code_section
                \/ passes_data_section \/ passes_none

Pass1 == pass1_data_decl \/ pass1_instruction \/ pass1_label_def

Pass2 == pass2_data_decl \/ pass2_instruction \/ pass2_label_def

\* process_assembler has returned.
Returned == phase = "done" /\ UNCHANGED vars

Next == Files \/ BothPasses \/ Pass1 \/ Pass2 \/ Returned

Spec == Init /\ [][Next]_vars

\* The program is a single thread that waits for nothing.
FairSpec == Spec /\ WF_vars(Next)

-----------------------------------------------------------------------------
(* Properties.                                                             *)

TypeOK ==
  /\ source \in Programs
  /\ phase \in Phases
  /\ ctx \in Contexts
  /\ nl \in Nat \ {0}
  /\ DOMAIN symtab \subseteq Names /\ symtab \in [DOMAIN symtab -> 0..SizeMax]
  /\ dtsg \in Segments /\ cdsg \in Segments
  /\ code \in Seq(Nat)
  /\ err \in Errors
  /\ layout \in Seq([code : 0..SizeMax, data : 0..SizeMax])

\* The assembler has turned the source into the two segments of a program.
Success == phase = "done" /\ err = "ASM_NO_ERROR"

\* Line nl is one that pass 1 has read to its end.
WasInPass1 == nl \in DOMAIN source /\ nl < Len(layout)

\* The addresses the symbols got in pass 1 are those where pass 2 arrives at
\* their definitions: whatever pass2_instruction writes for a label or an
\* OFFSET is the place where the label's code or the variable's bytes are. The
\* two passes compute the sizes in different ways: pass 1 from total_size and
\* instruction_get_encoded_size, pass 2 by appending.
LayoutAgrees ==
  phase = "pass2" /\ WasInPass1 =>
    /\ Line.kind = "STMT_LABEL_DEF" =>
         Line.label \in DOMAIN symtab /\ symtab[Line.label] = cdsg.size
    /\ Line.kind = "STMT_DATA_DECL" =>
         Line.identifier \in DOMAIN symtab /\ symtab[Line.identifier] = dtsg.size

\* A program the assembler accepts fits the processor. Pass 2, which fills the
\* segments, compares nothing with the limits: it relies on pass 1, and on the
\* appends to refuse a declaration whose total_size is not its real size.
SegmentsFit ==
  Success => cdsg.size <= CdsgBytes /\ dtsg.size <= DtsgBytes

\* The assembler ends, with or without an error.
Termination == <>(phase = "done")

-----------------------------------------------------------------------------
(* The inductive invariant behind LayoutAgrees and SegmentsFit: what the   *)
(* history of pass 1 says about the symbol table, and what pass 2 repeats  *)
(* of it.                                                                  *)

\* The bytes a line takes in each segment, as pass 1 counts them.
CodeSize(line) ==
  IF line.kind = "STMT_INSTRUCTION" THEN instruction_get_encoded_size(line.desc) ELSE 0

DataSize(line) == IF line.kind = "STMT_DATA_DECL" THEN TotalSize(line) ELSE 0

\* The lines pass 1 has read to their end.
LinesRead == 1..(Len(layout) - 1)

\* Each line starts where the one before it ends, inside the segments.
LayoutIsRunningSum ==
  /\ layout # << >> /\ LinesRead \subseteq DOMAIN source
  /\ layout[1] = [code |-> 0, data |-> 0]
  /\ \A i \in DOMAIN layout : layout[i].code <= CdsgBytes /\ layout[i].data <= DtsgBytes
  /\ \A i \in LinesRead : /\ layout[i + 1].code = layout[i].code + CodeSize(source[i])
                          /\ layout[i + 1].data = layout[i].data + DataSize(source[i])

\* The table holds, for each definition read, the place of its line.
SymbolsAtTheirLines ==
  \A i \in LinesRead :
    /\ source[i].kind = "STMT_LABEL_DEF" =>
         source[i].label \in DOMAIN symtab /\ symtab[source[i].label] = layout[i].code
    /\ source[i].kind = "STMT_DATA_DECL" =>
         source[i].identifier \in DOMAIN symtab /\ symtab[source[i].identifier] = layout[i].data

StandsAt(i) == cdsg.size = layout[i].code /\ dtsg.size = layout[i].data

\* Pass 1 stands at the end of the history; pass 2, at the line it reads, as far
\* as the history goes.
PassesStand ==
  /\ phase = "open1" => Len(layout) = 1 /\ StandsAt(1)
  /\ phase = "pass1" => Len(layout) = nl /\ StandsAt(nl)
  /\ phase = "open2" => StandsAt(1)
  /\ phase = "pass2" /\ nl \in DOMAIN layout => StandsAt(nl)

\* Without input errors pass 1 has read every line when pass 2 starts.
WholeSourceRead ==
  "read" \notin Faults =>
    /\ phase \in {"open2", "pass2"} => Len(layout) = Len(source) + 1
    /\ phase = "pass2" => nl \in DOMAIN layout
    /\ Success => cdsg.size <= CdsgBytes /\ dtsg.size <= DtsgBytes

IInv == LayoutIsRunningSum /\ SymbolsAtTheirLines /\ PassesStand /\ WholeSourceRead
=============================================================================
