-------------------------- MODULE AssemblerProofs --------------------------
(***************************************************************************)
(* Theorems about the two passes, for sources, segments and words of any   *)
(* size and for any set of failures.                                       *)
(***************************************************************************)
EXTENDS AssemblerRefinement, CommonLemmas, TLAPS

-----------------------------------------------------------------------------
(* Facts about the operators.                                              *)

\* The capacity a segment grows to is a size_t and holds what is required.
LEMMA GrownCapacity ==
  ASSUME NEW capacity \in 0..SizeMax, NEW req \in 0..SizeMax
  PROVE  Grown(capacity, req) \in 0..SizeMax /\ Grown(capacity, req) >= req
<1> DEFINE from   == IF capacity = 0 THEN InitialCapacity ELSE capacity
           enough == {n \in Doublings(from) : n >= req}
<1>1. from \in 0..SizeMax
  BY SegmentAssumption
<1>2. SizeMax \in enough /\ enough \subseteq 0..SizeMax
  BY <1>1, SegmentAssumption DEF Doublings
<1>3. \E n \in enough : \A m \in enough : n <= m
  <2>1. enough \subseteq Nat /\ enough # {}
    BY <1>2, SegmentAssumption
  <2> HIDE DEF enough
  <2> QED
    BY <2>1, LeastNatural
<1>4. Grown(capacity, req) \in enough
  BY <1>3 DEF Grown
<1> QED
  BY <1>2, <1>4

\* An append that fits keeps a segment a segment and counts its bytes.
LEMMA AppendedSegment ==
  ASSUME NEW seg \in Segments, NEW n \in Nat, Fits(seg, n)
  PROVE  Appended(seg, n) \in Segments /\ Appended(seg, n).size = seg.size + n
<1>1. seg.size + n \in 0..SizeMax
  BY SegmentAssumption DEF Fits, Segments
<1>2. Grown(seg.capacity, seg.size + n) \in 0..SizeMax
  BY <1>1, GrownCapacity DEF Segments
<1> QED
  BY <1>1, <1>2 DEF Appended, Segments

\* An advance keeps a segment a segment, and counts the bytes that fit.
LEMMA AdvancedSegment ==
  ASSUME NEW seg \in Segments, NEW n \in Nat
  PROVE  /\ Advance(seg, n) \in Segments
         /\ Fits(seg, n) => Advance(seg, n).size = seg.size + n
BY SegmentAssumption DEF Advance, Fits, Segments

\* A segment that begins again is empty.
LEMMA BegunSegment ==
  ASSUME NEW seg \in Segments
  PROVE  Begin(seg) \in Segments /\ Begin(seg).size = 0
BY SegmentAssumption DEF Begin, Segments

\* What an operand of an instruction is.
LEMMA OperandTypesOf ==
  ASSUME NEW op \in Operands
  PROVE  /\ op.type \in {"OP_REG", "OP_IMM32"} /\ op.value \in Int
         /\ op.type = "OP_REG" => op.value \in RegisterCodes /\ ~NamesSymbol(op)
         /\ op.type = "OP_IMM32" => op.value \in Int32Min..Int32Max
<1>1. Int32Min \in Int /\ Int32Max \in Int
  <2>1. ByteBase \in Nat
    BY ByteBaseAssumption
  <2>2. DwordValues \in Nat
    BY <2>1 DEF DwordValues
  <2> QED
    BY <2>2 DEF Int32Max, Int32Min
<1>2. RegisterCodes \subseteq Int /\ Int32Min..Int32Max \subseteq Int
  BY <1>1 DEF RegisterCodes
<1> QED
  BY <1>2 DEF Operands, NamesSymbol

\* The operands of a line agree with its row in number and type.
LEMMA OperandsFormed ==
  ASSUME NEW desc, NEW ops \in Seq(Operands), OperandsAgree(desc, ops)
  PROVE  TypesAgree(desc, ops)
<1>1. Len(ops) \in 0..2 /\ DOMAIN ops = 1..Len(ops)
  <2>1. Len(ops) \in Nat /\ DOMAIN ops = 1..Len(ops)
    OBVIOUS
  <2>2. Len(ops) <= 2
    BY DEF OperandsAgree
  <2> QED
    BY <2>1, <2>2
<1>2. \A i \in DOMAIN ops : ops[i] \in Operands
  OBVIOUS
<1>3. \A i \in DOMAIN ops : ops[i].type \in {"OP_REG", "OP_IMM32"}
  BY <1>2, OperandTypesOf
<1>4. (1 \in DOMAIN ops <=> Len(ops) >= 1) /\ (2 \in DOMAIN ops <=> Len(ops) >= 2)
  BY <1>1
<1>5. /\ desc.operand1 = IF 1 \in DOMAIN ops THEN ops[1].type ELSE "OP_NONE"
      /\ desc.operand2 = IF 2 \in DOMAIN ops THEN ops[2].type ELSE "OP_NONE"
  BY <1>4 DEF OperandsAgree
<1> QED
  BY <1>1, <1>3, <1>5 DEF TypesAgree

\* The lines of a source, by their kinds.
LEMMA DeclLine ==
  ASSUME NEW line \in Lines, line.kind = "STMT_DATA_DECL"
  PROVE  line.identifier \in Names /\ line.bytes \in Nat /\ TotalSize(line) \in 0..SizeMax
<1>1. line.identifier \in Names /\ line.bytes \in Nat
  BY DEF Lines
<1> QED
  BY <1>1, SegmentAssumption DEF TotalSize

\* A label definition carries a name.
LEMMA LabelLine ==
  ASSUME NEW line \in Lines, line.kind = "STMT_LABEL_DEF"
  PROVE  line.label \in Names
BY DEF Lines

\* An instruction carries a descriptor and the operands it is for.
LEMMA InstructionLine ==
  ASSUME NEW line \in Lines, line.kind = "STMT_INSTRUCTION"
  PROVE  /\ line.desc \in Descriptors /\ line.ops \in Seq(Operands)
         /\ OperandsAgree(line.desc, line.ops)
BY DEF Lines

\* The line a pass reads is one of Lines.
LEMMA LineIsLine ==
  ASSUME source \in Programs, nl \in DOMAIN source
  PROVE  Line \in Lines
BY AssemblerAssumption DEF Line

-----------------------------------------------------------------------------
(* Type correctness.                                                       *)

\* What the end of a step has to keep typed.
ControlOK ==
  /\ source \in Programs /\ phase \in Phases /\ nl \in Nat \ {0} /\ err \in Errors
  /\ layout \in Seq([code : 0..SizeMax, data : 0..SizeMax])

\* Going on to the next line keeps the types of what it changes.
LEMMA NextLineTypes ==
  ASSUME TypeOK, NextLine, dtsg' \in Segments, cdsg' \in Segments
  PROVE  ControlOK'
<1> DEFINE Places == [code : 0..SizeMax, data : 0..SizeMax]
           place  == [code |-> cdsg'.size, data |-> dtsg'.size]
<1>1. place \in Places
  BY DEF Segments
<1>2. layout \in Seq(Places) /\ layout' \in {layout, Append(layout, place)}
  BY DEF NextLine, TypeOK
<1>3. layout' \in Seq(Places)
  <2> HIDE DEF Places, place
  <2> QED
    BY <1>1, <1>2
<1> QED
  BY <1>3 DEF NextLine, TypeOK, ControlOK

\* So does returning an error.
LEMMA ReturnTypes ==
  ASSUME TypeOK, NEW e \in Errors, Return(e)
  PROVE  ControlOK'
BY DEF Return, TypeOK, ControlOK, Phases

\* So does doing whichever of the two the error asks for.
LEMMA ProceedTypes ==
  ASSUME TypeOK, NEW e \in Errors, Proceed(e), dtsg' \in Segments, cdsg' \in Segments
  PROVE  ControlOK'
BY NextLineTypes, ReturnTypes DEF Proceed

\* A position a segment returns is an address.
LEMMA PositionIsAddress ==
  ASSUME NEW seg \in Segments, NEW n \in Nat
  PROVE  PositionOf(seg, n) \in 0..SizeMax
BY SegmentAssumption DEF PositionOf, Segments

SymtabOK == DOMAIN symtab \subseteq Names /\ symtab \in [DOMAIN symtab -> 0..SizeMax]

\* A definition keeps the table a function from names to addresses.
LEMMA DefineTypes ==
  ASSUME TypeOK, NEW name \in Names, NEW address \in 0..SizeMax, Define(name, address),
         dtsg' \in Segments, cdsg' \in Segments
  PROVE  ControlOK' /\ SymtabOK'
<1>1. CASE symtab' = symtab_add(name, address) /\ NextLine
  BY <1>1, NextLineTypes DEF TypeOK, SymtabOK, symtab_add
<1>2. CASE Return("ASM_SYMTAB_CANNOT_ADD") /\ UNCHANGED symtab
  <2>1. "ASM_SYMTAB_CANNOT_ADD" \in Errors
    BY DEF Errors
  <2> QED
    BY <1>2, <2>1, ReturnTypes DEF TypeOK, SymtabOK
<1> QED
  BY <1>1, <1>2 DEF Define

\* The values pass 2 appends are numbers.
LEMMA ValuesAreNumbers ==
  ASSUME SymtabOK, NEW at \in Nat,
         NEW line \in Lines, line.kind = "STMT_INSTRUCTION", ~Unresolved(line.ops)
  PROVE  /\ FinalValues(line.desc, line.ops, at) \in [DOMAIN line.ops -> Int]
         /\ \A i \in DOMAIN line.ops :
              line.ops[i].type = "OP_REG" => FinalValues(line.desc, line.ops, at)[i] \in Nat
<1> DEFINE ops == line.ops
<1>1. line.desc \in Descriptors /\ ops \in Seq(Operands) /\ OperandsAgree(line.desc, ops)
  BY InstructionLine
<1>2. Int32Max \in Int
  <2>1. ByteBase \in Nat
    BY ByteBaseAssumption
  <2>2. DwordValues \in Nat
    BY <2>1 DEF DwordValues
  <2> QED
    BY <2>2 DEF Int32Max
<1>3. ASSUME NEW n \in Nat
      PROVE  Saturated(n) \in Int
  BY <1>2 DEF Saturated
<1>4. ASSUME NEW i \in DOMAIN ops
      PROVE  OperandValue(ops[i]) \in Int
  <2>1. ops[i] \in Operands
    BY <1>1
  <2>2. CASE NamesSymbol(ops[i])
    <3>1. ops[i].label \in DOMAIN symtab
      BY <2>2 DEF Unresolved
    <3>2. symtab[ops[i].label] \in Nat
      BY <3>1, SegmentAssumption DEF SymtabOK
    <3> QED
      BY <2>2, <3>2, <1>3 DEF OperandValue
  <2>3. CASE ~NamesSymbol(ops[i])
    BY <2>1, <2>3, OperandTypesOf DEF OperandValue
  <2> QED
    BY <2>2, <2>3
<1>5. Saturated(at) \in Int
  BY <1>3
<1>6. Saturated(instruction_get_encoded_size(line.desc)) \in Int
  <2>1. instruction_get_encoded_size(line.desc) \in Nat
    BY <1>1, EncodedSize DEF MaxEncodedSize
  <2> QED
    BY <2>1, <1>3
<1>7. FinalValues(line.desc, ops, at) \in [DOMAIN ops -> Int]
  <2> HIDE DEF ops
  <2> QED
    BY <1>4, <1>5, <1>6 DEF FinalValues
<1>8. ASSUME NEW i \in DOMAIN ops, ops[i].type = "OP_REG"
      PROVE  FinalValues(line.desc, ops, at)[i] \in Nat
  <2>1. ops[i].value \in Nat /\ ~NamesSymbol(ops[i])
    BY <1>1, <1>8, OperandTypesOf DEF RegisterCodes
  <2>2. ~(i = 1 /\ instruction_is_relative_jump(line.desc))
    BY <1>1, <1>8, RelativeJumps DEF OperandsAgree
  <2> QED
    BY <2>1, <2>2 DEF FinalValues, OperandValue
<1> QED
  BY <1>7, <1>8

\* The bytes pass 2 writes are numbers, and as many as pass 1 has reserved.
LEMMA InstructionBytes ==
  ASSUME SymtabOK, NEW at \in Nat,
         NEW line \in Lines, line.kind = "STMT_INSTRUCTION", ~Unresolved(line.ops)
  PROVE  LET bytes == Encode(line.desc, line.ops, FinalValues(line.desc, line.ops, at))
         IN  /\ bytes \in Seq(Nat)
             /\ Len(bytes) = instruction_get_encoded_size(line.desc)
BY InstructionLine, ValuesAreNumbers, OperandsFormed, EncodedBytes

\* Bytes copied into a buffer leave a buffer.
LEMMA Overwritten ==
  ASSUME NEW buffer \in Seq(Nat), NEW at \in Nat, NEW bytes \in Seq(Nat)
  PROVE  Overwrite(buffer, at, bytes) \in Seq(Nat)
<1> DEFINE cell(i) == IF i > at THEN bytes[i - at] ELSE IF i <= Len(buffer) THEN buffer[i] ELSE 0
<1>1. ASSUME NEW i \in 1..(at + Len(bytes))
      PROVE  cell(i) \in Nat
  OBVIOUS
<1>2. at + Len(bytes) \in Nat
  OBVIOUS
<1> HIDE DEF cell
<1>3. [i \in 1..(at + Len(bytes)) |-> cell(i)] \in Seq(Nat)
  BY <1>1, <1>2
<1> QED
  BY <1>3 DEF Overwrite, cell

\* Every error an action returns is one of enum Err_Asm.
LEMMA ErrorsReturned ==
  ASSUME NEW line
  PROVE  /\ DeclError(line) \in Errors /\ InstructionError(line) \in Errors
         /\ LabelError(line) \in Errors /\ SectionError \in Errors
BY DEF DeclError, InstructionError, LabelError, SectionError, Errors

\* A step of the passes keeps the types.
LEMMA TypesKept ==
  ASSUME TypeOK, [Next]_vars
  PROVE  TypeOK'
<1>1. TypeOK' <=> ControlOK' /\ SymtabOK' /\ ctx' \in Contexts /\ dtsg' \in Segments
                    /\ cdsg' \in Segments /\ code' \in Seq(Nat)
  BY DEF TypeOK, ControlOK, SymtabOK
<1>2. ControlOK /\ SymtabOK
  BY DEF TypeOK, ControlOK, SymtabOK
<1>3. CASE UNCHANGED vars
  BY <1>3 DEF vars, TypeOK
<1>4. CASE OpenSource
  <2>1. ctx' \in Contexts /\ phase' \in Phases
    BY <1>4 DEF OpenSource, Contexts, Phases
  <2> QED
    BY <1>4, <2>1 DEF OpenSource, segments, TypeOK
<1>5. CASE CannotOpenSource
  <2>1. ControlOK'
    BY <1>5, ReturnTypes DEF CannotOpenSource, Errors
  <2> QED
    BY <1>5, <2>1, <1>1, <1>2 DEF CannotOpenSource, segments, TypeOK, SymtabOK
<1>6. CASE EndPass1
  <2>1. dtsg' \in Segments /\ cdsg' \in Segments
    BY <1>6, BegunSegment DEF EndPass1, TypeOK
  <2> QED
    BY <1>6, <2>1 DEF EndPass1, TypeOK, Phases
<1>7. CASE EndPass2
  BY <1>7 DEF EndPass2, segments, TypeOK, Phases
<1>8. CASE NoTokens
  <2>1. ControlOK'
    BY <1>8, ReturnTypes DEF NoTokens, Errors
  <2> QED
    BY <1>8, <2>1, <1>1, <1>2 DEF NoTokens, segments, TypeOK, SymtabOK
<1>9. CASE NoStatement
  <2>1. ControlOK'
    BY <1>9, ReturnTypes DEF NoStatement, Errors
  <2> QED
    BY <1>9, <2>1, <1>1, <1>2 DEF NoStatement, segments, TypeOK, SymtabOK
<1>10. CASE passes_kma
  <2> DEFINE e == IF ctx = "ASC_FILE_START" THEN "ASM_NO_ERROR" ELSE "ASM_KMA_DOUBLE"
  <2>1. UNCHANGED <<symtab, segments>> /\ Proceed(e)
    BY <1>10 DEF passes_kma
  <2>2. ctx' \in Contexts
    BY <1>10 DEF passes_kma, TypeOK, Contexts
  <2>3. e \in Errors
    BY DEF Errors
  <2> HIDE DEF e
  <2>4. ControlOK'
    BY <2>1, <2>3, ProceedTypes DEF TypeOK, segments
  <2> QED
    BY <2>1, <2>2, <2>4, <1>1, <1>2 DEF segments, TypeOK, SymtabOK
<1>11. CASE passes_code_section \/ passes_data_section
  <2>1. UNCHANGED <<symtab, segments>> /\ Proceed(SectionError)
    BY <1>11 DEF passes_code_section, passes_data_section
  <2>2. ctx' \in Contexts
    BY <1>11 DEF passes_code_section, passes_data_section, TypeOK, Contexts
  <2>3. ControlOK'
    BY <2>1, ErrorsReturned, ProceedTypes DEF TypeOK, segments
  <2> QED
    BY <2>1, <2>2, <2>3, <1>1, <1>2 DEF segments, TypeOK, SymtabOK
<1>12. CASE passes_none \/ pass2_label_def
  <2>1. UNCHANGED <<ctx, symtab, segments>> /\ NextLine
    BY <1>12 DEF passes_none, pass2_label_def
  <2>2. ControlOK'
    BY <2>1, NextLineTypes DEF TypeOK, segments
  <2> QED
    BY <2>1, <2>2, <1>1, <1>2 DEF segments, TypeOK, SymtabOK
<1>13. CASE pass1_data_decl
  <2>1. Line \in Lines /\ Line.kind = "STMT_DATA_DECL"
    BY <1>13, LineIsLine DEF pass1_data_decl, AtLine, TypeOK
  <2>2. Line.identifier \in Names /\ TotalSize(Line) \in Nat
    BY <2>1, DeclLine, SegmentAssumption
  <2>3. dtsg' \in Segments /\ UNCHANGED <<ctx, cdsg, code>>
    BY <1>13, <2>2, AdvancedSegment DEF pass1_data_decl, TypeOK
  <2>4. cdsg' \in Segments
    BY <2>3 DEF TypeOK
  <2>5. PositionOf(dtsg, TotalSize(Line)) \in 0..SizeMax
    BY <2>2, PositionIsAddress DEF TypeOK
  <2>6. CASE Define(Line.identifier, PositionOf(dtsg, TotalSize(Line)))
    BY <2>6, <2>2, <2>3, <2>4, <2>5, <1>1, DefineTypes DEF TypeOK
  <2>7. CASE Return(DeclError(Line)) /\ UNCHANGED symtab
    BY <2>7, <2>3, <2>4, <1>1, <1>2, ErrorsReturned, ReturnTypes DEF TypeOK, SymtabOK
  <2> QED
    BY <1>13, <2>6, <2>7 DEF pass1_data_decl
<1>14. CASE pass1_instruction
  <2>1. Line \in Lines /\ Line.kind = "STMT_INSTRUCTION"
    BY <1>14, LineIsLine DEF pass1_instruction, AtLine, TypeOK
  <2>2. instruction_get_encoded_size(Line.desc) \in Nat
    BY <2>1, InstructionLine, EncodedSize DEF MaxEncodedSize
  <2>3. cdsg' \in Segments /\ UNCHANGED <<ctx, symtab, dtsg, code>>
    BY <1>14, <2>2, AdvancedSegment DEF pass1_instruction, TypeOK
  <2>4. ControlOK'
    BY <1>14, <2>3, ErrorsReturned, ProceedTypes DEF pass1_instruction, TypeOK
  <2> QED
    BY <2>3, <2>4, <1>1, <1>2 DEF TypeOK, SymtabOK
<1>15. CASE pass1_label_def
  <2>1. Line.label \in Names
    BY <1>15, LineIsLine, LabelLine DEF pass1_label_def, AtLine, TypeOK
  <2>2. UNCHANGED <<ctx, segments>>
    BY <1>15 DEF pass1_label_def
  <2>3. dtsg' \in Segments /\ cdsg' \in Segments
    BY <2>2 DEF segments, TypeOK
  <2>4. PositionOf(cdsg, 0) \in 0..SizeMax
    BY PositionIsAddress DEF TypeOK
  <2>5. CASE Define(Line.label, PositionOf(cdsg, 0))
    BY <2>5, <2>1, <2>2, <2>3, <2>4, <1>1, DefineTypes DEF TypeOK, segments
  <2>6. CASE Return(LabelError(Line)) /\ UNCHANGED symtab
    BY <2>6, <2>2, <1>1, <1>2, ErrorsReturned, ReturnTypes DEF TypeOK, SymtabOK, segments
  <2> QED
    BY <1>15, <2>5, <2>6 DEF pass1_label_def
<1>16. CASE pass2_data_decl
  <2>1. Line.bytes \in Nat
    BY <1>16, LineIsLine, DeclLine DEF pass2_data_decl, AtLine, TypeOK
  <2>2. UNCHANGED <<ctx, symtab, cdsg, code>>
    BY <1>16 DEF pass2_data_decl
  <2>3. CASE Fits(dtsg, Line.bytes) /\ dtsg' = Appended(dtsg, Line.bytes) /\ NextLine
    <3>1. dtsg' \in Segments
      BY <2>1, <2>3, AppendedSegment DEF TypeOK
    <3>2. ControlOK'
      BY <2>2, <2>3, <3>1, NextLineTypes DEF TypeOK
    <3> QED
      BY <2>2, <3>1, <3>2, <1>1, <1>2 DEF TypeOK, SymtabOK
  <2>4. CASE Return("ASM_DTSG_CANNOT_APPEND") /\ UNCHANGED dtsg
    <3>1. ControlOK'
      BY <2>4, ReturnTypes DEF Errors
    <3> QED
      BY <2>2, <2>4, <3>1, <1>1, <1>2 DEF TypeOK, SymtabOK
  <2> QED
    BY <1>16, <2>3, <2>4 DEF pass2_data_decl
<1>17. CASE pass2_instruction
  <2> DEFINE bytes == Encode(Line.desc, Line.ops, FinalValues(Line.desc, Line.ops, cdsg.size))
  <2>1. Line \in Lines /\ Line.kind = "STMT_INSTRUCTION"
    BY <1>17, LineIsLine DEF pass2_instruction, AtLine, TypeOK
  <2>2. UNCHANGED <<ctx, symtab, dtsg>>
    BY <1>17 DEF pass2_instruction
  <2>3. CASE /\ ~Unresolved(Line.ops) /\ Fits(cdsg, Len(bytes)) /\ NextLine
             /\ cdsg' = Appended(cdsg, Len(bytes))
             /\ code' = Overwrite(code, cdsg.size, bytes)
    <3>1. cdsg.size \in Nat
      BY SegmentAssumption DEF TypeOK, Segments
    <3>2. bytes \in Seq(Nat) /\ Len(bytes) \in Nat
      BY <2>1, <2>3, <3>1, InstructionBytes DEF TypeOK, SymtabOK
    <3> HIDE DEF bytes
    <3>3. code' \in Seq(Nat)
      BY <2>3, <3>2, <3>1, Overwritten DEF TypeOK
    <3>4. cdsg' \in Segments
      BY <2>3, <3>2, AppendedSegment DEF TypeOK
    <3>5. ControlOK'
      BY <2>2, <2>3, <3>4, NextLineTypes DEF TypeOK
    <3> QED
      BY <2>2, <3>3, <3>4, <3>5, <1>1, <1>2 DEF TypeOK, SymtabOK
  <2>4. CASE /\ UNCHANGED <<cdsg, code>>
             /\ \/ Return("ASM_INVALID_OPERAND_LABEL")
                \/ Return("ASM_CDSG_CANNOT_APPEND")
    <3>1. ControlOK'
      BY <2>4, ReturnTypes DEF Errors
    <3> QED
      BY <2>2, <2>4, <3>1, <1>1, <1>2 DEF TypeOK, SymtabOK
  <2> QED
    BY <1>17, <2>3, <2>4 DEF pass2_instruction
<1> QED
  BY <1>3, <1>4, <1>5, <1>6, <1>7, <1>8, <1>9, <1>10, <1>11, <1>12, <1>13, <1>14,
     <1>15, <1>16, <1>17
  DEF Next, Files, BothPasses, Pass1, Pass2, Returned

\* asp_init gives everything its type.
LEMMA TypesBegin ==
  ASSUME Init
  PROVE  TypeOK
<1>1. dtsg \in Segments /\ cdsg \in Segments
  BY SegmentAssumption DEF Init, Empty, Segments
<1>2. layout \in Seq([code : 0..SizeMax, data : 0..SizeMax])
  <2>1. [code |-> 0, data |-> 0] \in [code : 0..SizeMax, data : 0..SizeMax]
    BY SegmentAssumption
  <2> QED
    BY <2>1 DEF Init
<1>3. err \in Errors /\ phase \in Phases /\ ctx \in Contexts
  BY DEF Init, Errors, Phases, Contexts
<1>4. symtab = [name \in {} |-> 0] /\ code = << >> /\ nl = 1 /\ source \in Programs
  BY DEF Init
<1> QED
  BY <1>1, <1>2, <1>3, <1>4 DEF TypeOK

\* Types, for every set of sources and of failures: the sizes and capacities
\* of the segments and every address stay within a size_t although nothing but
\* the checks of the code keeps them there, and a run ends with a known error.
THEOREM TypeCorrect == Spec => []TypeOK
<1>1. Init => TypeOK
  BY TypesBegin
<1>2. TypeOK /\ [Next]_vars => TypeOK'
  BY TypesKept
<1> QED
  BY <1>1, <1>2, PTL DEF Spec

-----------------------------------------------------------------------------
(* The layout: IInv is inductive, given the types.                         *)

Places == [code : 0..SizeMax, data : 0..SizeMax]

\* Where a segment stands is a number, now and in the history.
LEMMA PlacesAreNumbers ==
  ASSUME TypeOK
  PROVE  /\ layout \in Seq(Places)
         /\ \A i \in DOMAIN layout : layout[i].code \in Nat /\ layout[i].data \in Nat
         /\ cdsg.size \in Nat /\ dtsg.size \in Nat
<1>1. layout \in Seq(Places)
  BY DEF TypeOK, Places
<1>2. \A i \in DOMAIN layout : layout[i] \in Places
  BY <1>1
<1>3. \A i \in DOMAIN layout : layout[i].code \in Nat /\ layout[i].data \in Nat
  BY <1>2, SegmentAssumption DEF Places
<1>4. cdsg.size \in Nat /\ dtsg.size \in Nat
  BY SegmentAssumption DEF TypeOK, Segments
<1> QED
  BY <1>1, <1>3, <1>4

\* An error ends the run and leaves what pass 1 has found out.
LEMMA ReturnKeeps ==
  ASSUME IInv, NEW e, Return(e), UNCHANGED symtab
  PROVE  IInv'
BY DEF IInv, Return, LayoutIsRunningSum, SymbolsAtTheirLines, PassesStand, WholeSourceRead,
       LinesRead, Success

\* The end of a line in pass 1: the history grows by the place of the next line.
LEMMA Pass1Line ==
  ASSUME TypeOK, IInv, phase = "pass1", nl \in DOMAIN source, NextLine,
         cdsg' \in Segments, cdsg'.size = cdsg.size + CodeSize(Line),
         cdsg'.size <= CdsgBytes,
         dtsg' \in Segments, dtsg'.size = dtsg.size + DataSize(Line),
         dtsg'.size <= DtsgBytes,
         \A name \in DOMAIN symtab : name \in DOMAIN symtab' /\ symtab'[name] = symtab[name],
         Line.kind = "STMT_LABEL_DEF" =>
           Line.label \in DOMAIN symtab' /\ symtab'[Line.label] = cdsg.size,
         Line.kind = "STMT_DATA_DECL" =>
           Line.identifier \in DOMAIN symtab' /\ symtab'[Line.identifier] = dtsg.size
  PROVE  IInv'
<1> DEFINE place == [code |-> cdsg'.size, data |-> dtsg'.size]
<1>1. /\ layout \in Seq(Places) /\ layout # << >>
      /\ \A i \in DOMAIN layout : layout[i].code \in Nat /\ layout[i].data \in Nat
  BY PlacesAreNumbers DEF IInv, LayoutIsRunningSum
<1>2. /\ Len(layout) = nl /\ nl \in Nat \ {0} /\ StandsAt(nl) /\ nl \in 1..Len(source)
      /\ source \in Seq(Lines)
  BY AssemblerAssumption DEF IInv, PassesStand, TypeOK
<1>3. /\ layout' = Append(layout, place) /\ nl' = nl + 1 /\ phase' = "pass1"
      /\ source' = source /\ err' = err
  BY DEF NextLine
<1>4. place \in Places
  BY DEF Places, Segments
<1>5. /\ Len(layout') = nl + 1 /\ layout'[nl + 1] = place
      /\ \A i \in 1..nl : layout'[i] = layout[i]
  <2> HIDE DEF place
  <2> QED
    BY <1>1, <1>2, <1>3, <1>4
<1>6. LinesRead = 1..(nl - 1) /\ LinesRead' = 1..nl /\ DOMAIN layout = 1..nl
      /\ DOMAIN layout' = 1..(nl + 1)
  BY <1>1, <1>2, <1>3, <1>4, <1>5 DEF LinesRead
<1>7. LayoutIsRunningSum'
  <2>1. layout' # << >> /\ LinesRead' \subseteq DOMAIN source'
    BY <1>2, <1>3, <1>5, <1>6
  <2>2. layout'[1] = [code |-> 0, data |-> 0]
    BY <1>2, <1>5 DEF IInv, LayoutIsRunningSum
  <2>3. ASSUME NEW i \in DOMAIN layout'
        PROVE  layout'[i].code <= CdsgBytes /\ layout'[i].data <= DtsgBytes
    <3>1. CASE i = nl + 1
      BY <3>1, <1>5
    <3>2. CASE i \in 1..nl
      BY <3>2, <1>5, <1>6 DEF IInv, LayoutIsRunningSum
    <3> QED
      BY <3>1, <3>2, <1>6, <1>2
  <2>4. ASSUME NEW i \in LinesRead'
        PROVE  /\ layout'[i + 1].code = layout'[i].code + CodeSize(source'[i])
               /\ layout'[i + 1].data = layout'[i].data + DataSize(source'[i])
    <3>1. CASE i = nl
      BY <3>1, <1>2, <1>3, <1>5 DEF StandsAt, Line
    <3>2. CASE i \in 1..(nl - 1)
      <4>1. layout'[i] = layout[i] /\ layout'[i + 1] = layout[i + 1] /\ source'[i] = source[i]
        BY <3>2, <1>2, <1>3, <1>5
      <4> QED
        BY <4>1, <3>2, <1>6 DEF IInv, LayoutIsRunningSum
    <3> QED
      BY <3>1, <3>2, <1>6, <1>2
  <2>5. \A i \in LinesRead' : /\ layout'[i + 1].code = layout'[i].code + CodeSize(source'[i])
                              /\ layout'[i + 1].data = layout'[i].data + DataSize(source'[i])
    BY <2>4
  <2> QED
    BY <2>1, <2>2, <2>3, <2>5 DEF LayoutIsRunningSum, CodeSize, DataSize, TotalSize
<1>8. SymbolsAtTheirLines'
  <2> SUFFICES ASSUME NEW i \in LinesRead'
               PROVE  /\ source[i].kind = "STMT_LABEL_DEF" =>
                           /\ source[i].label \in DOMAIN symtab'
                           /\ symtab'[source[i].label] = layout'[i].code
                      /\ source[i].kind = "STMT_DATA_DECL" =>
                           /\ source[i].identifier \in DOMAIN symtab'
                           /\ symtab'[source[i].identifier] = layout'[i].data
    BY <1>3 DEF SymbolsAtTheirLines
  <2>1. CASE i = nl
    BY <2>1, <1>2, <1>5 DEF StandsAt, Line
  <2>2. CASE i \in 1..(nl - 1)
    <3>1. layout'[i] = layout[i] /\ i \in LinesRead
      BY <2>2, <1>2, <1>5, <1>6
    <3> QED
      BY <3>1 DEF IInv, SymbolsAtTheirLines
  <2> QED
    BY <2>1, <2>2, <1>6, <1>2
<1>9. PassesStand' /\ WholeSourceRead'
  <2>1. cdsg'.size = layout'[nl'].code /\ dtsg'.size = layout'[nl'].data
    BY <1>5, <1>3
  <2>2. Len(layout') = nl'
    BY <1>5, <1>3
  <2> QED
    BY <1>3, <2>1, <2>2 DEF PassesStand, WholeSourceRead, Success, StandsAt
<1> QED
  BY <1>7, <1>8, <1>9 DEF IInv

\* The end of a line in pass 2: it stands where pass 1 has noted.
LEMMA Pass2Line ==
  ASSUME TypeOK, IInv, phase = "pass2", nl \in DOMAIN source, NextLine, UNCHANGED symtab,
         nl \in DOMAIN layout /\ StandsAt(nl) =>
           /\ cdsg'.size = cdsg.size + CodeSize(Line)
           /\ dtsg'.size = dtsg.size + DataSize(Line)
  PROVE  IInv'
<1>1. /\ layout' = layout /\ nl' = nl + 1 /\ phase' = "pass2"
      /\ source' = source /\ err' = err /\ symtab' = symtab
  BY DEF NextLine
<1>2. LayoutIsRunningSum' /\ SymbolsAtTheirLines'
  BY <1>1 DEF IInv, LayoutIsRunningSum, SymbolsAtTheirLines, LinesRead
<1>3. /\ layout \in Seq(Places) /\ nl \in Nat \ {0}
      /\ source \in Seq(Lines) /\ nl \in 1..Len(source)
  BY PlacesAreNumbers, AssemblerAssumption DEF TypeOK
<1>4. ASSUME nl + 1 \in DOMAIN layout
      PROVE  cdsg'.size = layout[nl + 1].code /\ dtsg'.size = layout[nl + 1].data
  <2>1. nl \in DOMAIN layout /\ nl \in LinesRead
    BY <1>3, <1>4 DEF LinesRead
  <2>2. StandsAt(nl)
    BY <2>1 DEF IInv, PassesStand
  <2>3. /\ layout[nl + 1].code = layout[nl].code + CodeSize(Line)
        /\ layout[nl + 1].data = layout[nl].data + DataSize(Line)
    BY <2>1 DEF IInv, LayoutIsRunningSum, Line
  <2> QED
    BY <2>1, <2>2, <2>3, <1>1 DEF StandsAt
<1>5. PassesStand'
  BY <1>1, <1>4 DEF PassesStand, StandsAt
<1>6. WholeSourceRead'
  <2>1. ASSUME "read" \notin Faults
        PROVE  Len(layout) = Len(source) + 1 /\ nl + 1 \in DOMAIN layout
    BY <2>1, <1>3 DEF IInv, WholeSourceRead
  <2> QED
    BY <1>1, <2>1 DEF WholeSourceRead, Success
<1> QED
  BY <1>2, <1>5, <1>6 DEF IInv

\* A line that takes no bytes and defines nothing, in either pass.
LEMMA PlainLine ==
  ASSUME TypeOK, IInv, phase \in {"pass1", "pass2"}, nl \in DOMAIN source, NextLine,
         UNCHANGED <<symtab, segments>>,
         Line.kind \notin {"STMT_INSTRUCTION", "STMT_DATA_DECL"},
         phase = "pass1" => Line.kind # "STMT_LABEL_DEF"
  PROVE  IInv'
<1>1. CodeSize(Line) = 0 /\ DataSize(Line) = 0
  BY DEF CodeSize, DataSize
<1>2. cdsg' = cdsg /\ dtsg' = dtsg /\ symtab' = symtab
  BY DEF segments
<1>3. cdsg \in Segments /\ dtsg \in Segments /\ cdsg.size \in Nat /\ dtsg.size \in Nat
  BY PlacesAreNumbers DEF TypeOK
<1>4. CASE phase = "pass1"
  <2>1. Len(layout) = nl /\ StandsAt(nl) /\ nl \in DOMAIN layout
    BY <1>4, PlacesAreNumbers DEF IInv, PassesStand, TypeOK
  <2>2. cdsg.size <= CdsgBytes /\ dtsg.size <= DtsgBytes
    BY <2>1 DEF IInv, LayoutIsRunningSum, StandsAt
  <2> QED
    BY <1>1, <1>2, <1>3, <1>4, <2>2, Pass1Line
<1>5. CASE phase = "pass2"
  BY <1>1, <1>2, <1>3, <1>5, Pass2Line
<1> QED
  BY <1>4, <1>5

\* In pass 1 the segments are within the limits of the processor.
LEMMA WithinLimits ==
  ASSUME TypeOK, IInv, phase = "pass1"
  PROVE  cdsg.size <= CdsgBytes /\ dtsg.size <= DtsgBytes
<1>1. Len(layout) = nl /\ StandsAt(nl) /\ nl \in DOMAIN layout
  BY PlacesAreNumbers DEF IInv, PassesStand, TypeOK
<1> QED
  BY <1>1 DEF IInv, LayoutIsRunningSum, StandsAt

\* A symbol that is not there yet gets the address; the others keep theirs.
LEMMA SymbolAdded ==
  ASSUME NEW name, NEW address, name \notin DOMAIN symtab, symtab' = symtab_add(name, address)
  PROVE  /\ \A n \in DOMAIN symtab : n \in DOMAIN symtab' /\ symtab'[n] = symtab[n]
         /\ name \in DOMAIN symtab' /\ symtab'[name] = address
BY DEF symtab_add

\* Pass 1 keeps the invariant.
LEMMA Pass1Keeps ==
  ASSUME TypeOK, IInv, Pass1
  PROVE  IInv'
<1> DEFINE limits == cdsg.size <= CdsgBytes /\ dtsg.size <= DtsgBytes
<1>1. phase = "pass1" /\ nl \in DOMAIN source /\ Line \in Lines
  BY LineIsLine DEF Pass1, pass1_data_decl, pass1_instruction, pass1_label_def, AtLine, TypeOK
<1>2. /\ limits /\ cdsg \in Segments /\ dtsg \in Segments
      /\ cdsg.size \in Nat /\ dtsg.size \in Nat
  BY <1>1, WithinLimits, PlacesAreNumbers DEF TypeOK
<1>3. ASSUME NEW name, NEW address, Define(name, address), ~NextLine
      PROVE  IInv'
  BY <1>3, ReturnKeeps DEF Define
<1>4. CASE pass1_data_decl
  <2> DEFINE size == TotalSize(Line)
             position == PositionOf(dtsg, size)
  <2>1. Line.kind = "STMT_DATA_DECL" /\ size \in Nat /\ UNCHANGED <<ctx, cdsg, code>>
    BY <1>1, <1>4, DeclLine, SegmentAssumption DEF pass1_data_decl, AtLine
  <2>2. CASE DeclError(Line) = "ASM_NO_ERROR" /\ Define(Line.identifier, position) /\ NextLine
    <3>1. /\ position # SizeMax /\ position <= DtsgBytes - size
          /\ Line.identifier \notin DOMAIN symtab
      <4>1. position \in Int
        BY <2>1, <1>2, PositionIsAddress
      <4> HIDE DEF position, size
      <4>2. ~(size > DtsgBytes \/ position > DtsgBytes - size)
        BY <2>2 DEF DeclError, position, size
      <4>3. position # SizeMax /\ Line.identifier \notin DOMAIN symtab
        BY <2>2 DEF DeclError, position, size
      <4> QED
        BY <4>1, <4>2, <4>3, <2>1, AssemblerAssumption
    <3>2. Fits(dtsg, size) /\ position = dtsg.size
      BY <3>1 DEF PositionOf
    <3>3. dtsg' \in Segments /\ dtsg'.size = dtsg.size + size
      BY <1>2, <1>4, <2>1, <2>2, <3>2, AdvancedSegment DEF pass1_data_decl
    <3>4. symtab' = symtab_add(Line.identifier, position)
      BY <2>2 DEF Define, NextLine, Return
    <3>5. CodeSize(Line) = 0 /\ DataSize(Line) = size
      BY <2>1 DEF CodeSize, DataSize
    <3>6. dtsg'.size <= DtsgBytes
      BY <3>1, <3>2, <3>3, <2>1, <1>2, AssemblerAssumption
    <3> HIDE DEF size, position
    <3>7. /\ \A n \in DOMAIN symtab : n \in DOMAIN symtab' /\ symtab'[n] = symtab[n]
          /\ Line.identifier \in DOMAIN symtab' /\ symtab'[Line.identifier] = position
      BY <3>1, <3>4, SymbolAdded
    <3> QED
      BY <1>1, <1>2, <2>1, <2>2, <3>2, <3>3, <3>5, <3>6, <3>7, Pass1Line
  <2>3. CASE Define(Line.identifier, position) /\ ~NextLine
    BY <2>3, <1>3
  <2>4. CASE Return(DeclError(Line)) /\ UNCHANGED symtab
    BY <2>4, ReturnKeeps
  <2> QED
    BY <1>4, <2>2, <2>3, <2>4 DEF pass1_data_decl
<1>5. CASE pass1_instruction
  <2> DEFINE size == instruction_get_encoded_size(Line.desc)
  <2>1. /\ Line.kind = "STMT_INSTRUCTION" /\ size \in 1..9
        /\ UNCHANGED <<ctx, symtab, dtsg, code>>
    BY <1>1, <1>5, InstructionLine, EncodedSize DEF pass1_instruction, AtLine, MaxEncodedSize
  <2>2. CASE InstructionError(Line) = "ASM_NO_ERROR" /\ NextLine
    <3>1. PositionOf(cdsg, size) <= CdsgBytes - size
      <4>1. ~(PositionOf(cdsg, size) > CdsgBytes - size)
        BY <2>2 DEF InstructionError
      <4>2. PositionOf(cdsg, size) \in Int
        BY <2>1, <1>2, PositionIsAddress
      <4> QED
        BY <4>1, <4>2, <2>1, AssemblerAssumption
    <3>2. Fits(cdsg, size)
      BY <3>1, <2>1, SegmentAssumption, AssemblerAssumption DEF PositionOf, MaxEncodedSize
    <3>3. cdsg' \in Segments /\ cdsg'.size = cdsg.size + size /\ cdsg'.size <= CdsgBytes
      <4>1. cdsg' = Advance(cdsg, size)
        BY <1>5, <2>2 DEF pass1_instruction
      <4>2. cdsg.size <= CdsgBytes - size
        BY <3>1, <3>2 DEF PositionOf
      <4> HIDE DEF size
      <4>3. cdsg' \in Segments /\ cdsg'.size = cdsg.size + size
        BY <4>1, <2>1, <3>2, <1>2, AdvancedSegment
      <4> QED
        BY <4>2, <4>3, <2>1, <1>2, AssemblerAssumption
    <3>4. CodeSize(Line) = size /\ DataSize(Line) = 0
      BY <2>1 DEF CodeSize, DataSize
    <3> HIDE DEF size
    <3> QED
      BY <1>1, <1>2, <2>1, <2>2, <3>3, <3>4, Pass1Line
  <2>3. CASE Return(InstructionError(Line))
    BY <2>1, <2>3, ReturnKeeps
  <2> QED
    BY <1>5, <2>2, <2>3 DEF pass1_instruction, Proceed
<1>6. CASE pass1_label_def
  <2>1. /\ Line.kind = "STMT_LABEL_DEF" /\ UNCHANGED <<ctx, segments>>
    BY <1>6 DEF pass1_label_def, AtLine
  <2>2. CASE LabelError(Line) = "ASM_NO_ERROR" /\ Define(Line.label, PositionOf(cdsg, 0)) /\ NextLine
    <3>1. Line.label \notin DOMAIN symtab
      BY <2>2 DEF LabelError
    <3>2. PositionOf(cdsg, 0) = cdsg.size
      BY <1>2, SegmentAssumption DEF PositionOf, Fits, Segments
    <3>3. symtab' = symtab_add(Line.label, cdsg.size)
      BY <2>2, <3>2 DEF Define, NextLine, Return
    <3>4. CodeSize(Line) = 0 /\ DataSize(Line) = 0
      BY <2>1 DEF CodeSize, DataSize
    <3>5. cdsg' = cdsg /\ dtsg' = dtsg
      BY <2>1 DEF segments
    <3>6. /\ \A n \in DOMAIN symtab : n \in DOMAIN symtab' /\ symtab'[n] = symtab[n]
          /\ Line.label \in DOMAIN symtab' /\ symtab'[Line.label] = cdsg.size
      BY <3>1, <3>3, SymbolAdded
    <3> QED
      BY <1>1, <1>2, <2>1, <2>2, <3>4, <3>5, <3>6, Pass1Line
  <2>3. CASE Define(Line.label, PositionOf(cdsg, 0)) /\ ~NextLine
    BY <2>3, <1>3
  <2>4. CASE Return(LabelError(Line)) /\ UNCHANGED symtab
    BY <2>4, ReturnKeeps
  <2> QED
    BY <1>6, <2>2, <2>3, <2>4 DEF pass1_label_def
<1> QED
  BY <1>4, <1>5, <1>6 DEF Pass1

\* Pass 2 keeps the invariant.
LEMMA Pass2Keeps ==
  ASSUME TypeOK, IInv, Pass2
  PROVE  IInv'
<1>1. phase = "pass2" /\ nl \in DOMAIN source /\ Line \in Lines
  BY LineIsLine DEF Pass2, pass2_data_decl, pass2_instruction, pass2_label_def, AtLine, TypeOK
<1>2. /\ cdsg \in Segments /\ dtsg \in Segments
      /\ cdsg.size \in Nat /\ dtsg.size \in Nat
  BY PlacesAreNumbers DEF TypeOK
<1>3. CASE pass2_data_decl
  <2>1. /\ Line.kind = "STMT_DATA_DECL" /\ UNCHANGED <<symtab, cdsg>> /\ Line.bytes \in Nat
    BY <1>1, <1>3, DeclLine DEF pass2_data_decl, AtLine
  <2>2. CASE Fits(dtsg, Line.bytes) /\ dtsg' = Appended(dtsg, Line.bytes) /\ NextLine
    <3>1. dtsg'.size = dtsg.size + Line.bytes
      BY <1>2, <2>1, <2>2, AppendedSegment
    <3>2. Line.bytes \in 0..SizeMax
      BY <1>2, <2>1, <2>2, SegmentAssumption DEF Fits
    <3>3. TotalSize(Line) = Line.bytes
      BY <3>2, SegmentAssumption DEF TotalSize
    <3>4. CodeSize(Line) = 0 /\ DataSize(Line) = Line.bytes
      BY <2>1, <3>3 DEF CodeSize, DataSize
    <3> QED
      BY <1>1, <1>2, <2>1, <2>2, <3>1, <3>4, Pass2Line
  <2>3. CASE Return("ASM_DTSG_CANNOT_APPEND")
    BY <2>1, <2>3, ReturnKeeps
  <2> QED
    BY <1>3, <2>2, <2>3 DEF pass2_data_decl
<1>4. CASE pass2_instruction
  <2> DEFINE bytes == Encode(Line.desc, Line.ops, FinalValues(Line.desc, Line.ops, cdsg.size))
  <2>1. Line.kind = "STMT_INSTRUCTION" /\ UNCHANGED <<symtab, dtsg>>
    BY <1>4 DEF pass2_instruction, AtLine
  <2>2. CASE /\ ~Unresolved(Line.ops) /\ Fits(cdsg, Len(bytes)) /\ NextLine
             /\ cdsg' = Appended(cdsg, Len(bytes))
    <3>1. Len(bytes) \in Nat /\ Len(bytes) = instruction_get_encoded_size(Line.desc)
      BY <1>1, <1>2, <2>1, <2>2, InstructionBytes DEF TypeOK, SymtabOK
    <3>2. cdsg'.size = cdsg.size + Len(bytes)
      <4> HIDE DEF bytes
      <4> QED
        BY <1>2, <2>2, <3>1, AppendedSegment
    <3>3. CodeSize(Line) = Len(bytes) /\ DataSize(Line) = 0
      BY <2>1, <3>1 DEF CodeSize, DataSize
    <3> HIDE DEF bytes
    <3> QED
      BY <1>1, <1>2, <2>1, <2>2, <3>2, <3>3, Pass2Line
  <2>3. CASE Return("ASM_INVALID_OPERAND_LABEL") \/ Return("ASM_CDSG_CANNOT_APPEND")
    BY <2>1, <2>3, ReturnKeeps
  <2> QED
    BY <1>4, <2>2, <2>3 DEF pass2_instruction
<1>5. CASE pass2_label_def
  <2>1. /\ Line.kind = "STMT_LABEL_DEF" /\ NextLine /\ UNCHANGED <<symtab, segments>>
    BY <1>5 DEF pass2_label_def, AtLine
  <2> QED
    BY <1>1, <2>1, PlainLine
<1> QED
  BY <1>3, <1>4, <1>5 DEF Pass2

\* Opening the source and the end of a pass keep the invariant.
LEMMA FilesKeep ==
  ASSUME TypeOK, IInv, Files
  PROVE  IInv'
<1>1. /\ layout \in Seq(Places) /\ layout # << >> /\ Len(layout) \in Nat /\ 1 \in DOMAIN layout
      /\ layout[1] = [code |-> 0, data |-> 0]
      /\ cdsg \in Segments /\ dtsg \in Segments /\ nl \in Nat \ {0}
      /\ source \in Seq(Lines) /\ Len(source) \in Nat /\ DOMAIN source = 1..Len(source)
  BY PlacesAreNumbers, AssemblerAssumption DEF IInv, LayoutIsRunningSum, TypeOK
<1>2. ASSUME UNCHANGED <<source, layout, symtab>>
      PROVE  LayoutIsRunningSum' /\ SymbolsAtTheirLines'
  BY <1>2 DEF IInv, LayoutIsRunningSum, SymbolsAtTheirLines, LinesRead
<1>3. CASE OpenSource
  <2>1. /\ UNCHANGED <<source, layout, symtab, cdsg, dtsg, err>> /\ nl' = 1
        /\ \/ phase = "open1" /\ phase' = "pass1"
           \/ phase = "open2" /\ phase' = "pass2"
    BY <1>3 DEF OpenSource, segments
  <2>2. PassesStand'
    BY <1>1, <2>1 DEF IInv, PassesStand, StandsAt
  <2>3. WholeSourceRead'
    BY <1>1, <2>1 DEF IInv, WholeSourceRead, Success
  <2> QED
    BY <1>2, <2>1, <2>2, <2>3 DEF IInv
<1>4. CASE CannotOpenSource
  BY <1>4, ReturnKeeps DEF CannotOpenSource
<1>5. CASE EndPass1
  <2>1. /\ UNCHANGED <<source, layout, symtab, nl, err>> /\ EndOfFile
        /\ phase = "pass1" /\ phase' = "open2" /\ cdsg'.size = 0 /\ dtsg'.size = 0
    BY <1>1, <1>5, BegunSegment DEF EndPass1
  <2>2. PassesStand'
    BY <1>1, <2>1 DEF PassesStand, StandsAt
  <2>3. ASSUME "read" \notin Faults
        PROVE  Len(layout) = Len(source) + 1
    <3>1. nl \notin 1..Len(source) /\ Len(layout) = nl
      BY <1>1, <2>1, <2>3 DEF EndOfFile, IInv, PassesStand
    <3>2. 1..(nl - 1) \subseteq 1..Len(source)
      BY <1>1, <3>1 DEF IInv, LayoutIsRunningSum, LinesRead
    <3> QED
      BY <1>1, <3>1, <3>2
  <2>4. WholeSourceRead'
    BY <2>1, <2>3 DEF WholeSourceRead, Success
  <2> QED
    BY <1>2, <2>1, <2>2, <2>4 DEF IInv
<1>6. CASE EndPass2
  <2>1. /\ UNCHANGED <<source, layout, symtab, cdsg, dtsg>>
        /\ phase = "pass2" /\ phase' = "done"
    BY <1>6 DEF EndPass2, segments
  <2>2. PassesStand'
    BY <2>1 DEF PassesStand
  <2>3. ASSUME "read" \notin Faults
        PROVE  cdsg.size <= CdsgBytes /\ dtsg.size <= DtsgBytes
    <3>1. nl \in DOMAIN layout /\ StandsAt(nl)
      BY <2>1, <2>3 DEF IInv, WholeSourceRead, PassesStand
    <3> QED
      BY <3>1 DEF IInv, LayoutIsRunningSum, StandsAt
  <2>4. WholeSourceRead'
    BY <2>1, <2>3 DEF WholeSourceRead
  <2> QED
    BY <1>2, <2>1, <2>2, <2>4 DEF IInv
<1> QED
  BY <1>3, <1>4, <1>5, <1>6 DEF Files

\* What both passes do with a line keeps the invariant.
LEMMA BothPassesKeep ==
  ASSUME TypeOK, IInv, BothPasses
  PROVE  IInv'
<1>1. CASE NoTokens \/ NoStatement
  BY <1>1, ReturnKeeps DEF NoTokens, NoStatement
<1>2. CASE passes_kma \/ passes_code_section \/ passes_data_section \/ passes_none
  <2>1. /\ phase \in {"pass1", "pass2"} /\ nl \in DOMAIN source
        /\ Line.kind \in {"STMT_KMA", "STMT_SECTION_CODE", "STMT_SECTION_DATA", "STMT_NONE"}
        /\ UNCHANGED <<symtab, segments>>
    BY <1>2 DEF passes_kma, passes_code_section, passes_data_section, passes_none,
                InPass, AtLine
  <2>2. CASE NextLine
    BY <2>1, <2>2, PlainLine
  <2>3. CASE ~NextLine
    <3>1. \E e : Return(e)
      BY <1>2, <2>3 DEF passes_kma, passes_code_section, passes_data_section, passes_none, Proceed
    <3> QED
      BY <2>1, <3>1, ReturnKeeps
  <2> QED
    BY <2>2, <2>3
<1> QED
  BY <1>1, <1>2 DEF BothPasses

-----------------------------------------------------------------------------
(* The theorems.                                                           *)

\* A step of the passes keeps the invariant.
LEMMA InvariantKept ==
  ASSUME TypeOK, IInv, [Next]_vars
  PROVE  IInv'
<1>1. CASE UNCHANGED vars
  BY <1>1 DEF vars, IInv, LayoutIsRunningSum, SymbolsAtTheirLines, PassesStand,
              WholeSourceRead, LinesRead, StandsAt, Success
<1>2. CASE Next
  BY <1>1, <1>2, FilesKeep, BothPassesKeep, Pass1Keeps, Pass2Keeps DEF Next, Returned
<1> QED
  BY <1>1, <1>2

\* The invariant holds before the first line is read.
LEMMA InvariantBegins ==
  ASSUME Init
  PROVE  IInv
<1>1. /\ layout = <<[code |-> 0, data |-> 0]>> /\ phase = "open1"
      /\ cdsg.size = 0 /\ dtsg.size = 0
  BY DEF Init, Empty
<1>2. LinesRead = {} /\ DOMAIN layout = {1} /\ Len(layout) = 1
  BY <1>1 DEF LinesRead
<1>3. LayoutIsRunningSum
  BY <1>1, <1>2, AssemblerAssumption DEF LayoutIsRunningSum
<1>4. SymbolsAtTheirLines
  BY <1>2 DEF SymbolsAtTheirLines
<1>5. PassesStand /\ WholeSourceRead
  BY <1>1, <1>2 DEF PassesStand, WholeSourceRead, StandsAt, Success
<1> QED
  BY <1>3, <1>4, <1>5 DEF IInv

\* The history of pass 1, the symbol table and the place where pass 2 stands
\* agree, for every source and every set of failures.
THEOREM InvariantHolds == Spec => []IInv
<1>1. Init => IInv
  BY InvariantBegins
<1>2. TypeOK /\ IInv /\ [Next]_vars => IInv'
  BY InvariantKept
<1> QED
  BY <1>1, <1>2, TypeCorrect, PTL DEF Spec

\* Every label and every variable of a line both passes read is, in pass 2,
\* where the symbol table says: the size an instruction was given in pass 1 is
\* the number of bytes pass 2 writes for it, the wrapped total size of a
\* declaration is its real one or the append fails, and no symbol is moved.
THEOREM LayoutHolds == Spec => []LayoutAgrees
<1>1. TypeOK /\ IInv => LayoutAgrees
  <2> SUFFICES ASSUME TypeOK, IInv, phase = "pass2", WasInPass1
               PROVE  /\ Line.kind = "STMT_LABEL_DEF" =>
                           Line.label \in DOMAIN symtab /\ symtab[Line.label] = cdsg.size
                      /\ Line.kind = "STMT_DATA_DECL" =>
                           /\ Line.identifier \in DOMAIN symtab
                           /\ symtab[Line.identifier] = dtsg.size
    BY DEF LayoutAgrees
  <2>1. layout \in Seq(Places) /\ nl \in Nat \ {0} /\ nl \in DOMAIN source /\ nl < Len(layout)
    BY PlacesAreNumbers DEF WasInPass1, TypeOK
  <2>2. nl \in LinesRead /\ nl \in DOMAIN layout
    BY <2>1 DEF LinesRead
  <2>3. StandsAt(nl)
    BY <2>2 DEF IInv, PassesStand
  <2> QED
    BY <2>2, <2>3 DEF IInv, SymbolsAtTheirLines, StandsAt, Line
<1> QED
  BY <1>1, TypeCorrect, InvariantHolds, PTL

\* Without an input error a program the assembler accepts fits the processor,
\* although pass 2 compares nothing with the limits.
THEOREM AcceptedProgramsFit ==
  ASSUME "read" \notin Faults
  PROVE  Spec => []SegmentsFit
<1>1. IInv => SegmentsFit
  BY DEF IInv, WholeSourceRead, SegmentsFit
<1> QED
  BY <1>1, InvariantHolds, PTL

-----------------------------------------------------------------------------
(* What comes before a line.                                               *)

\* The lines of some kinds before the next line are those before this one, and
\* maybe this one.
LEMMA BeforeNext ==
  ASSUME NEW i \in Nat \ {0}, NEW kinds
  PROVE  Promise!Before(i + 1, kinds)
           = Promise!Before(i, kinds) \cup (IF source[i].kind \in kinds THEN {i} ELSE {})
<1>1. 1..((i + 1) - 1) = 1..(i - 1) \cup {i}
  OBVIOUS
<1> QED
  BY <1>1 DEF Promise!Before, Promise!Kind

\* A line that begins a section puts the next line in it; any other line leaves
\* the next one in its own section.
LEMMA InSectionNext ==
  ASSUME NEW i \in Nat \ {0}, NEW section \in Promise!Sections
  PROVE  InSection(i + 1, section) <=>
           \/ source[i].kind = section
           \/ source[i].kind \notin Promise!Sections /\ InSection(i, section)
<1>1. CASE source[i].kind = section
  BY <1>1 DEF InSection
<1>2. CASE source[i].kind \in Promise!Sections /\ source[i].kind # section
  <2>1. ASSUME NEW j \in 1..((i + 1) - 1), source[j].kind = section,
               \A k \in (j + 1)..((i + 1) - 1) : source[k].kind \notin Promise!Sections
        PROVE  FALSE
    <3>1. j # i
      BY <1>2, <2>1
    <3>2. i \in (j + 1)..((i + 1) - 1)
      BY <3>1
    <3> QED
      BY <1>2, <2>1, <3>2
  <2> QED
    BY <1>2, <2>1 DEF InSection
<1>3. CASE source[i].kind \notin Promise!Sections
  <2>1. ASSUME InSection(i, section)
        PROVE  InSection(i + 1, section)
    BY <1>3, <2>1 DEF InSection
  <2>2. ASSUME InSection(i + 1, section)
        PROVE  InSection(i, section)
    BY <1>3, <2>2 DEF InSection
  <2> QED
    BY <1>3, <2>1, <2>2
<1> QED
  BY <1>1, <1>2, <1>3

\* Nothing is before the first line.
LEMMA BeforeFirst ==
  ASSUME NEW kinds, NEW section
  PROVE  Promise!Before(1, kinds) = {} /\ ~InSection(1, section)
BY DEF Promise!Before, InSection

\* What a line says of the lines before it stays, as long as the source does.
LEMMA SameSource ==
  ASSUME source' = source
  PROVE  /\ \A i \in Nat : InPlace(i)' <=> InPlace(i)
         /\ \A i \in Nat : Promise!Definitions(i)' = Promise!Definitions(i)
         /\ \A i \in Nat : Promise!Defined(i)' = Promise!Defined(i)
BY DEF InPlace, InSection, Promise!Before, Promise!Kind, Promise!Opened, Promise!DefinesAgain,
       Promise!Definitions, Promise!Defined, Promise!Sections, StartOrSection

\* ContextOfLine after a step that leaves the line, or goes to the next one.
LEMMA ContextAfter ==
  ASSUME source' = source, NEW i \in Nat, nl' = i
  PROVE  ContextAt(nl)' <=>
           /\ ctx' = "ASC_FILE_START" <=> Promise!Before(i, StartOrSection) = {}
           /\ ctx' # "ASC_FILE_START" => Promise!Opened(i)
           /\ ctx' = "ASC_DATA" <=> InSection(i, "STMT_SECTION_DATA")
           /\ ctx' = "ASC_CODE" <=> InSection(i, "STMT_SECTION_CODE")
BY DEF ContextAt, InSection, Promise!Before, Promise!Kind, Promise!Opened, Promise!Sections,
       StartOrSection

\* The four ways in which a line that is right moves the context.
LEMMA ContextGoesOn ==
  ASSUME nl \in Nat \ {0}, ContextAt(nl), source' = source, nl' = nl + 1,
         \/ Line.kind = "STMT_KMA" /\ ctx = "ASC_FILE_START" /\ ctx' = "ASC_AFTER_KMA"
         \/ Line.kind = "STMT_SECTION_CODE" /\ ctx # "ASC_FILE_START" /\ ctx' = "ASC_CODE"
         \/ Line.kind = "STMT_SECTION_DATA" /\ ctx # "ASC_FILE_START" /\ ctx' = "ASC_DATA"
         \/ Line.kind \notin StartOrSection /\ ctx' = ctx
  PROVE  ContextAt(nl)'
<1> DEFINE next == nl + 1
<1>1. /\ Promise!Before(next, StartOrSection)
             = Promise!Before(nl, StartOrSection)
                 \cup (IF Line.kind \in StartOrSection THEN {nl} ELSE {})
      /\ Promise!Before(next, {"STMT_KMA"})
             = Promise!Before(nl, {"STMT_KMA"})
                 \cup (IF Line.kind = "STMT_KMA" THEN {nl} ELSE {})
  BY BeforeNext DEF Line
<1>2. ASSUME NEW section \in Promise!Sections
      PROVE  InSection(next, section) <=>
               \/ Line.kind = section
               \/ Line.kind \notin Promise!Sections /\ InSection(nl, section)
  BY InSectionNext DEF Line
<1>3. "STMT_SECTION_CODE" \in Promise!Sections /\ "STMT_SECTION_DATA" \in Promise!Sections
  BY DEF Promise!Sections
<1>4. /\ InSection(next, "STMT_SECTION_CODE") <=>
            \/ Line.kind = "STMT_SECTION_CODE"
            \/ Line.kind \notin Promise!Sections /\ InSection(nl, "STMT_SECTION_CODE")
      /\ InSection(next, "STMT_SECTION_DATA") <=>
            \/ Line.kind = "STMT_SECTION_DATA"
            \/ Line.kind \notin Promise!Sections /\ InSection(nl, "STMT_SECTION_DATA")
  BY <1>2, <1>3
<1>5. next \in Nat /\ nl' = next
  OBVIOUS
<1> HIDE DEF next
<1>6. ContextAt(nl)' <=>
           /\ ctx' = "ASC_FILE_START" <=> Promise!Before(next, StartOrSection) = {}
           /\ ctx' # "ASC_FILE_START" => Promise!Opened(next)
           /\ ctx' = "ASC_DATA" <=> InSection(next, "STMT_SECTION_DATA")
           /\ ctx' = "ASC_CODE" <=> InSection(next, "STMT_SECTION_CODE")
  BY <1>5, ContextAfter
<1>7. Promise!Opened(next) <=> Promise!Opened(nl) \/ Line.kind = "STMT_KMA"
  BY <1>1 DEF Promise!Opened
<1>8. Promise!Before(next, StartOrSection) = {} <=>
        Promise!Before(nl, StartOrSection) = {} /\ Line.kind \notin StartOrSection
  BY <1>1
<1> QED
  BY <1>4, <1>6, <1>7, <1>8 DEF ContextAt, StartOrSection, Promise!Sections

-----------------------------------------------------------------------------
(* RInv is inductive, given the types and IInv.                            *)

\* An error ends the run and leaves what pass 1 has found out.
LEMMA ReturnKeepsR ==
  ASSUME RInv, NEW e, Return(e), UNCHANGED symtab
  PROVE  RInv'
<1>1. source' = source /\ layout' = layout /\ phase' = "done" /\ symtab' = symtab
  BY DEF Return
<1>2. LinesInPlace'
  BY <1>1, SameSource DEF RInv, LinesInPlace, LinesRead
<1>3. OnlyDefinedSymbols'
  BY <1>1 DEF RInv, OnlyDefinedSymbols, Promise!Definitions, Promise!Defined, Promise!Before,
              Promise!Kind
<1> QED
  BY <1>1, <1>2, <1>3 DEF RInv, ContextOfLine, LinesWritten

\* The history of pass 1 grows by one line.
LEMMA HistoryGrows ==
  ASSUME TypeOK, TypeOK', IInv, phase = "pass1", nl \in DOMAIN source, NextLine
  PROVE  /\ nl \in Nat \ {0} /\ nl' = nl + 1 /\ source' = source /\ phase' = "pass1"
         /\ LinesRead = 1..(nl - 1) /\ LinesRead' = 1..nl
         /\ Len(layout) = nl /\ Len(layout') = nl + 1
<1> DEFINE place == [code |-> cdsg'.size, data |-> dtsg'.size]
<1>1. layout \in Seq(Places) /\ Len(layout) = nl /\ nl \in Nat \ {0}
  BY PlacesAreNumbers DEF IInv, PassesStand, TypeOK
<1>2. layout' = Append(layout, place) /\ nl' = nl + 1 /\ phase' = "pass1" /\ source' = source
  BY DEF NextLine
<1>3. place \in Places
  BY DEF Places, TypeOK, Segments
<1> HIDE DEF place
<1>4. Len(layout') = nl + 1
  BY <1>1, <1>2, <1>3
<1> QED
  BY <1>1, <1>2, <1>4 DEF LinesRead

\* A line pass 1 finds right.
LEMMA Pass1LineR ==
  ASSUME TypeOK, TypeOK', IInv, RInv, phase = "pass1", nl \in DOMAIN source, NextLine,
         InPlace(nl), ContextAt(nl)', code' = code,
         \A name \in DOMAIN symtab' :
           \/ name \in DOMAIN symtab
           \/ /\ Line.kind \in {"STMT_LABEL_DEF", "STMT_DATA_DECL"}
              /\ name = Promise!Defined(nl)
  PROVE  RInv'
<1>1. /\ nl \in Nat \ {0} /\ nl' = nl + 1 /\ source' = source /\ phase' = "pass1"
      /\ LinesRead = 1..(nl - 1) /\ LinesRead' = 1..nl
      /\ Len(layout) = nl /\ Len(layout') = nl + 1
  BY HistoryGrows
<1>2. LinesInPlace'
  <2>1. \A i \in 1..nl : InPlace(i)
    BY <1>1 DEF RInv, LinesInPlace
  <2>2. \A i \in 1..nl : InPlace(i)'
    BY <2>1, <1>1, SameSource
  <2> QED
    BY <2>2, <1>1 DEF LinesInPlace
<1>3. OnlyDefinedSymbols'
  <2>1. Promise!Definitions(nl + 1)
          = Promise!Definitions(nl)
              \cup (IF Line.kind \in {"STMT_LABEL_DEF", "STMT_DATA_DECL"} THEN {nl} ELSE {})
    BY <1>1, BeforeNext DEF Promise!Definitions, Line
  <2>2. ASSUME NEW name \in DOMAIN symtab'
        PROVE  \E i \in Promise!Definitions(nl + 1) : Promise!Defined(i) = name
    BY <2>1, <1>1 DEF RInv, OnlyDefinedSymbols
  <2>3. OnlyDefinedSymbols' <=>
          \A name \in DOMAIN symtab' :
            \E i \in Promise!Definitions(nl + 1) : Promise!Defined(i) = name
    BY <1>1 DEF OnlyDefinedSymbols, Promise!Definitions, Promise!Defined, Promise!Before,
                Promise!Kind
  <2> QED
    BY <2>2, <2>3
<1>4. LinesWritten'
  BY <1>1 DEF RInv, LinesWritten
<1> QED
  BY <1>1, <1>2, <1>3, <1>4 DEF RInv, ContextOfLine

\* The bytes a line stands for stay, as long as the table and the plan do.
LEMMA SameBytes ==
  ASSUME source' = source, symtab' = symtab, layout' = layout
  PROVE  \A i \in Nat : BytesOf(i)' = BytesOf(i)
BY DEF BytesOf, FinalValues, OperandValue

\* The bytes of a line stay where they are when others follow.
LEMMA WrittenStays ==
  ASSUME source' = source, symtab' = symtab, layout' = layout,
         NEW i \in Nat, Written(i), layout[i].code \in Nat, BytesOf(i) \in Seq(Nat),
         code \in Seq(Nat), Len(code') \in Nat, Len(code') >= Len(code),
         \A k \in 1..Len(code) : code'[k] = code[k]
  PROVE  Written(i)'
<1>1. BytesOf(i)' = BytesOf(i)
  BY SameBytes
<1> DEFINE at    == layout[i].code
           bytes == BytesOf(i)
<1>2. /\ at + Len(bytes) <= Len(code) /\ Len(bytes) \in Nat /\ DOMAIN bytes = 1..Len(bytes)
      /\ \A k \in DOMAIN bytes : code[at + k] = bytes[k]
  BY DEF Written
<1>3. \A k \in DOMAIN bytes : code'[at + k] = bytes[k]
  <2> HIDE DEF at, bytes
  <2> SUFFICES ASSUME NEW k \in 1..Len(bytes) PROVE code'[at + k] = bytes[k]
    BY <1>2
  <2>1. at \in Nat /\ Len(code) \in Nat
    BY DEF at
  <2>2. at + k \in 1..Len(code)
    BY <1>2, <2>1
  <2> QED
    BY <1>2, <2>2
<1>4. at + Len(bytes) <= Len(code')
  <2> HIDE DEF bytes
  <2> QED
    BY <1>2
<1> QED
  BY <1>1, <1>3, <1>4 DEF Written

\* The line pass 2 has just written.
LEMMA LineWritten ==
  ASSUME source' = source, symtab' = symtab, layout' = layout,
         NEW i \in Nat, layout[i].code \in Nat, BytesOf(i) \in Seq(Nat), code \in Seq(Nat),
         code' = Overwrite(code, layout[i].code, BytesOf(i))
  PROVE  Written(i)'
<1>1. BytesOf(i)' = BytesOf(i)
  BY SameBytes
<1> DEFINE at    == layout[i].code
           bytes == BytesOf(i)
<1>2. code' \in Seq(Nat) /\ DOMAIN code' = 1..(at + Len(bytes))
  <2> HIDE DEF bytes
  <2> QED
    BY Overwritten DEF Overwrite, bytes
<1>3. Len(code') = at + Len(bytes)
  <2> HIDE DEF bytes, at
  <2>1. at \in Nat /\ bytes \in Seq(Nat)
    BY DEF at, bytes
  <2> QED
    BY <1>2, <2>1
<1>4. \A k \in DOMAIN bytes : code'[at + k] = bytes[k]
  <2> HIDE DEF bytes, at
  <2>1. at \in Nat /\ bytes \in Seq(Nat)
    BY DEF at, bytes
  <2>2. code' = Overwrite(code, at, bytes)
    BY DEF at, bytes
  <2>3. ASSUME NEW k \in DOMAIN bytes
        PROVE  code'[at + k] = bytes[k]
    <3>1. at + k \in 1..(at + Len(bytes)) /\ at + k > at /\ (at + k) - at = k
      BY <2>1
    <3> QED
      BY <2>2, <3>1 DEF Overwrite
  <2> QED
    BY <2>3
<1> QED
  BY <1>1, <1>3, <1>4 DEF Written

\* A line pass 2 has gone over.
LEMMA Pass2LineR ==
  ASSUME TypeOK, TypeOK', IInv, IInv', RInv, phase = "pass2", nl \in DOMAIN source, NextLine,
         UNCHANGED symtab, ContextAt(nl)',
         \/ /\ Line.kind \notin {"STMT_INSTRUCTION", "STMT_DATA_DECL"}
            /\ UNCHANGED <<cdsg, code>>
         \/ /\ Line.kind = "STMT_DATA_DECL" /\ Line.bytes <= SizeMax
            /\ UNCHANGED <<cdsg, code>>
         \/ /\ Line.kind = "STMT_INSTRUCTION" /\ ~Unresolved(Line.ops)
            /\ code' = Overwrite(code, cdsg.size,
                         Encode(Line.desc, Line.ops, FinalValues(Line.desc, Line.ops, cdsg.size)))
  PROVE  RInv'
<1>1. /\ source' = source /\ layout' = layout /\ symtab' = symtab /\ nl' = nl + 1
      /\ phase' = "pass2" /\ nl \in Nat \ {0}
  BY DEF NextLine, TypeOK
<1>2. LinesInPlace'
  BY <1>1, SameSource DEF RInv, LinesInPlace, LinesRead
<1>3. OnlyDefinedSymbols'
  BY <1>1 DEF RInv, OnlyDefinedSymbols, Promise!Definitions, Promise!Defined, Promise!Before,
              Promise!Kind
<1>4. ASSUME nl + 1 \in DOMAIN layout
      PROVE  /\ Len(code') = cdsg'.size
             /\ \A i \in 1..nl :
                  /\ source[i].kind = "STMT_INSTRUCTION" =>
                       ~Unresolved(source[i].ops) /\ Written(i)'
                  /\ source[i].kind = "STMT_DATA_DECL" => source[i].bytes <= SizeMax
  <2>1. /\ layout \in Seq(Places) /\ nl \in DOMAIN layout /\ nl + 1 \in DOMAIN layout
        /\ \A i \in DOMAIN layout : layout[i].code \in Nat
        /\ code \in Seq(Nat) /\ code' \in Seq(Nat) /\ cdsg.size \in Nat
    BY <1>1, <1>4, PlacesAreNumbers DEF TypeOK
  <2>2. /\ Len(code) = cdsg.size /\ StandsAt(nl) /\ nl \in LinesRead
        /\ \A i \in 1..(nl - 1) :
             /\ source[i].kind = "STMT_INSTRUCTION" =>
                  ~Unresolved(source[i].ops) /\ Written(i)
             /\ source[i].kind = "STMT_DATA_DECL" => source[i].bytes <= SizeMax
    BY <1>1, <2>1 DEF RInv, LinesWritten, IInv, PassesStand, LinesRead
  <2>3. cdsg'.size = layout[nl + 1].code
    BY <1>1, <1>4 DEF IInv, PassesStand, StandsAt
  <2>4. layout[nl + 1].code = layout[nl].code + CodeSize(Line)
    BY <2>2 DEF IInv, LayoutIsRunningSum, Line
  <2>5. ASSUME NEW i \in 1..nl, source[i].kind = "STMT_INSTRUCTION", ~Unresolved(source[i].ops)
        PROVE  /\ BytesOf(i) \in Seq(Nat) /\ layout[i].code \in Nat
               /\ Len(BytesOf(i)) = CodeSize(source[i])
    <3>1. source \in Seq(Lines)
      BY AssemblerAssumption DEF TypeOK
    <3>2. nl <= Len(source) /\ nl <= Len(layout) /\ Len(source) \in Nat /\ Len(layout) \in Nat
      BY <3>1, <2>1, <1>1
    <3>3. i \in 1..Len(source) /\ i \in 1..Len(layout)
      BY <3>2, <1>1
    <3>4. source[i] \in Lines /\ i \in DOMAIN layout
      BY <3>1, <3>3, <2>1
    <3> QED
      BY <2>1, <2>5, <3>4, InstructionBytes DEF BytesOf, CodeSize, TypeOK, SymtabOK
  <2>7. CASE UNCHANGED <<cdsg, code>> /\ Line.kind # "STMT_INSTRUCTION"
                 /\ (Line.kind = "STMT_DATA_DECL" => Line.bytes <= SizeMax)
    <3>1. Len(code') = cdsg'.size
      BY <2>2, <2>7
    <3>2. ASSUME NEW i \in 1..(nl - 1), source[i].kind = "STMT_INSTRUCTION"
          PROVE  Written(i)'
      <4>1. i \in Nat /\ i \in 1..nl /\ Written(i) /\ ~Unresolved(source[i].ops)
        BY <1>1, <2>2, <3>2
      <4>2. BytesOf(i) \in Seq(Nat) /\ layout[i].code \in Nat
        BY <4>1, <3>2, <2>5
      <4>3. /\ Len(code') \in Nat /\ Len(code') >= Len(code)
            /\ \A k \in 1..Len(code) : code'[k] = code[k]
        BY <2>7, <2>1
      <4> QED
        BY <1>1, <2>1, <4>1, <4>2, <4>3, WrittenStays
    <3> QED
      BY <1>1, <2>2, <2>7, <3>1, <3>2 DEF Line
  <2>8. CASE /\ Line.kind = "STMT_INSTRUCTION" /\ ~Unresolved(Line.ops)
             /\ code' = Overwrite(code, layout[nl].code, BytesOf(nl))
    <3>1. BytesOf(nl) \in Seq(Nat) /\ layout[nl].code \in Nat /\ Len(BytesOf(nl)) = CodeSize(Line)
      BY <1>1, <2>5, <2>8 DEF Line
    <3>2. ASSUME NEW i \in Nat, i = nl
          PROVE  Written(i)'
      <4>1. BytesOf(i) \in Seq(Nat) /\ layout[i].code \in Nat
        BY <3>1, <3>2
      <4>2. code' = Overwrite(code, layout[i].code, BytesOf(i))
        BY <2>8, <3>2
      <4> QED
        BY <1>1, <2>1, <4>1, <4>2, LineWritten
    <3>3. /\ Len(code') = layout[nl].code + Len(BytesOf(nl))
          /\ \A k \in 1..Len(code) : code'[k] = code[k]
      <4> DEFINE bytes == BytesOf(nl)
                 at    == layout[nl].code
      <4>1. at = Len(code) /\ bytes \in Seq(Nat) /\ at \in Nat /\ code' = Overwrite(code, at, bytes)
        BY <2>2, <2>8, <3>1 DEF StandsAt
      <4> HIDE DEF bytes, at
      <4>2. DOMAIN code' = 1..(at + Len(bytes)) /\ at + Len(bytes) \in Nat
        BY <4>1 DEF Overwrite
      <4>3. Len(code') = at + Len(bytes)
        BY <4>2, <2>1
      <4>4. \A k \in 1..Len(code) : code'[k] = code[k]
        BY <4>1, <2>1 DEF Overwrite
      <4> QED
        BY <4>3, <4>4 DEF bytes, at
    <3>4. Len(code') = cdsg'.size
      BY <2>3, <2>4, <3>1, <3>3
    <3>5. Len(code') >= Len(code) /\ Len(code') \in Nat
      BY <2>1, <2>2, <3>1, <3>3 DEF StandsAt
    <3>6. ASSUME NEW i \in 1..(nl - 1), source[i].kind = "STMT_INSTRUCTION"
          PROVE  Written(i)'
      <4>1. i \in Nat /\ i \in 1..nl /\ Written(i) /\ ~Unresolved(source[i].ops)
        BY <1>1, <2>2, <3>6
      <4>2. BytesOf(i) \in Seq(Nat) /\ layout[i].code \in Nat
        BY <4>1, <3>6, <2>5
      <4> QED
        BY <1>1, <2>1, <3>3, <3>5, <4>1, <4>2, WrittenStays
    <3>7. ~Unresolved(source[nl].ops) /\ source[nl].kind = "STMT_INSTRUCTION"
      BY <2>8 DEF Line
    <3>8. ASSUME NEW i \in 1..nl
          PROVE  /\ source[i].kind = "STMT_INSTRUCTION" =>
                      ~Unresolved(source[i].ops) /\ Written(i)'
                 /\ source[i].kind = "STMT_DATA_DECL" => source[i].bytes <= SizeMax
      <4>1. CASE i = nl
        BY <4>1, <3>2, <3>7
      <4>2. CASE i \in 1..(nl - 1)
        BY <4>2, <2>2, <3>6
      <4> QED
        BY <1>1, <4>1, <4>2
    <3> QED
      BY <3>4, <3>8
  <2> QED
    BY <2>2, <2>7, <2>8 DEF BytesOf, StandsAt, Line
<1>5. LinesWritten'
  <2>1. \A i : Unresolved(source[i].ops)' <=> Unresolved(source[i].ops)
    BY <1>1 DEF Unresolved
  <2> QED
    BY <1>1, <1>4, <2>1 DEF LinesWritten
<1> QED
  BY <1>1, <1>2, <1>3, <1>5 DEF RInv, ContextOfLine

\* Opening the source and the end of a pass keep the invariant.
LEMMA FilesKeepR ==
  ASSUME TypeOK, IInv, RInv, Files
  PROVE  RInv'
<1>1. ASSUME UNCHANGED <<source, layout, symtab>>
      PROVE  LinesInPlace' /\ OnlyDefinedSymbols'
  <2>1. LinesInPlace'
    BY <1>1, SameSource DEF RInv, LinesInPlace, LinesRead
  <2>2. OnlyDefinedSymbols'
    BY <1>1 DEF RInv, OnlyDefinedSymbols, Promise!Definitions, Promise!Defined, Promise!Before,
                Promise!Kind
  <2> QED
    BY <2>1, <2>2
<1>2. CASE OpenSource
  <2>1. /\ UNCHANGED <<source, layout, symtab, cdsg, code>>
        /\ nl' = 1 /\ ctx' = "ASC_FILE_START"
        /\ \/ phase = "open1" /\ phase' = "pass1"
           \/ phase = "open2" /\ phase' = "pass2"
    BY <1>2 DEF OpenSource, segments
  <2>2. ContextAt(nl)' <=>
           /\ ctx' = "ASC_FILE_START" <=> Promise!Before(1, StartOrSection) = {}
           /\ ctx' # "ASC_FILE_START" => Promise!Opened(1)
           /\ ctx' = "ASC_DATA" <=> InSection(1, "STMT_SECTION_DATA")
           /\ ctx' = "ASC_CODE" <=> InSection(1, "STMT_SECTION_CODE")
    BY <2>1, ContextAfter
  <2>3. ContextAt(nl)'
    BY <2>1, <2>2, BeforeFirst
  <2>4. phase = "open2" => cdsg.size = 0
    BY DEF IInv, PassesStand, StandsAt, LayoutIsRunningSum
  <2>5. LinesWritten'
    BY <2>1, <2>4 DEF RInv, LinesWritten
  <2> QED
    BY <1>1, <2>1, <2>3, <2>5 DEF RInv, ContextOfLine
<1>3. CASE CannotOpenSource
  BY <1>3, ReturnKeepsR DEF CannotOpenSource
<1>4. CASE EndPass1
  BY <1>1, <1>4 DEF EndPass1, RInv, ContextOfLine, LinesWritten
<1>5. CASE EndPass2
  BY <1>1, <1>5 DEF EndPass2, RInv, ContextOfLine, LinesWritten
<1> QED
  BY <1>2, <1>3, <1>4, <1>5 DEF Files

\* So does what both passes do with a line.
LEMMA BothPassesKeepR ==
  ASSUME TypeOK, TypeOK', IInv, IInv', RInv, BothPasses
  PROVE  RInv'
<1>1. CASE NoTokens \/ NoStatement
  BY <1>1, ReturnKeepsR DEF NoTokens, NoStatement
<1>2. CASE passes_kma \/ passes_code_section \/ passes_data_section \/ passes_none
  <2>1. /\ phase \in {"pass1", "pass2"} /\ nl \in DOMAIN source /\ nl \in Nat \ {0}
        /\ Line.kind \in {"STMT_KMA", "STMT_SECTION_CODE", "STMT_SECTION_DATA", "STMT_NONE"}
        /\ UNCHANGED <<symtab, cdsg, code>> /\ ContextAt(nl)
    BY <1>2 DEF passes_kma, passes_code_section, passes_data_section, passes_none,
                InPass, AtLine, segments, TypeOK, RInv, ContextOfLine
  <2>2. CASE ~NextLine
    <3>1. \E e : Return(e)
      BY <1>2, <2>2 DEF passes_kma, passes_code_section, passes_data_section, passes_none, Proceed
    <3> QED
      BY <2>1, <3>1, ReturnKeepsR
  <2>3. CASE NextLine
    <3>1. /\ source' = source /\ nl' = nl + 1
          /\ \/ Line.kind = "STMT_KMA" /\ ctx = "ASC_FILE_START" /\ ctx' = "ASC_AFTER_KMA"
             \/ Line.kind = "STMT_SECTION_CODE" /\ ctx # "ASC_FILE_START" /\ ctx' = "ASC_CODE"
             \/ Line.kind = "STMT_SECTION_DATA" /\ ctx # "ASC_FILE_START" /\ ctx' = "ASC_DATA"
             \/ Line.kind = "STMT_NONE" /\ ctx' = ctx
      <4>1. phase' # "done"
        BY <2>1, <2>3 DEF NextLine
      <4>2. ~(\E e : Return(e))
        BY <4>1 DEF Return
      <4> QED
        BY <1>2, <2>3, <4>2 DEF passes_kma, passes_code_section, passes_data_section, passes_none,
                                InPass, AtLine, NextLine, Proceed, SectionError
    <3>2. ContextAt(nl)'
      BY <2>1, <3>1, ContextGoesOn DEF StartOrSection, Promise!Sections
    <3>3. InPlace(nl)
      BY <2>1, <3>1 DEF InPlace, ContextAt, Line, Promise!Sections
    <3>4. CASE phase = "pass1"
      BY <2>1, <2>3, <3>2, <3>3, <3>4, Pass1LineR
    <3>5. CASE phase = "pass2"
      BY <2>1, <2>3, <3>2, <3>5, Pass2LineR
    <3> QED
      BY <2>1, <3>4, <3>5
  <2> QED
    BY <2>2, <2>3
<1> QED
  BY <1>1, <1>2 DEF BothPasses

\* So does pass 1.
LEMMA Pass1KeepsR ==
  ASSUME TypeOK, TypeOK', IInv, RInv, Pass1
  PROVE  RInv'
<1>1. /\ phase = "pass1" /\ nl \in DOMAIN source /\ nl \in Nat \ {0} /\ code' = code
      /\ ctx' = ctx /\ ContextAt(nl)
      /\ Line.kind \in {"STMT_DATA_DECL", "STMT_INSTRUCTION", "STMT_LABEL_DEF"}
  BY DEF Pass1, pass1_data_decl, pass1_instruction, pass1_label_def, AtLine, segments, TypeOK,
         RInv, ContextOfLine
<1>2. ASSUME NextLine
      PROVE  ContextAt(nl)'
  BY <1>1, <1>2, ContextGoesOn DEF NextLine, StartOrSection, Promise!Sections
<1>3. Len(layout) = nl
  BY <1>1 DEF IInv, PassesStand
<1>4. ASSUME NEW name, name \notin DOMAIN symtab, Promise!Defined(nl) = name,
             Line.kind \in {"STMT_LABEL_DEF", "STMT_DATA_DECL"}
      PROVE  ~Promise!DefinesAgain(nl)
  <2> SUFFICES ASSUME NEW j \in Promise!Definitions(nl), Promise!Defined(j) = name
               PROVE  FALSE
    BY <1>4 DEF Promise!DefinesAgain
  <2>1. j \in 1..(nl - 1) /\ source[j].kind \in {"STMT_LABEL_DEF", "STMT_DATA_DECL"}
    BY DEF Promise!Definitions, Promise!Before, Promise!Kind
  <2>2. j \in LinesRead
    BY <1>3, <2>1 DEF LinesRead
  <2>3. name \in DOMAIN symtab
    BY <2>1, <2>2 DEF IInv, SymbolsAtTheirLines, Promise!Defined, Promise!Kind
  <2> QED
    BY <1>4, <2>3
<1>5. ASSUME NEW name, NEW address, Define(name, address), NextLine, name \notin DOMAIN symtab,
             Promise!Defined(nl) = name, Line.kind \in {"STMT_LABEL_DEF", "STMT_DATA_DECL"},
             InPlace(nl)
      PROVE  RInv'
  <2>1. symtab' = symtab_add(name, address)
    BY <1>1, <1>5 DEF Define, NextLine, Return
  <2>2. DOMAIN symtab' = DOMAIN symtab \cup {name}
    BY <2>1 DEF symtab_add
  <2> QED
    BY <1>1, <1>2, <1>5, <2>2, Pass1LineR
<1>6. ASSUME NEW name, NEW address, Define(name, address), ~NextLine
      PROVE  RInv'
  BY <1>6, ReturnKeepsR DEF Define
<1>7. CASE pass1_data_decl
  <2> DEFINE position == PositionOf(dtsg, TotalSize(Line))
  <2>1. Line.kind = "STMT_DATA_DECL"
    BY <1>7 DEF pass1_data_decl, AtLine
  <2>2. CASE DeclError(Line) = "ASM_NO_ERROR" /\ Define(Line.identifier, position) /\ NextLine
    <3>1. ctx = "ASC_DATA" /\ Line.identifier \notin DOMAIN symtab
      BY <2>2 DEF DeclError
    <3>2. Promise!Defined(nl) = Line.identifier
      BY <2>1 DEF Promise!Defined, Promise!Kind, Line
    <3>3. InPlace(nl)
      BY <1>1, <1>4, <2>1, <3>1, <3>2 DEF InPlace, ContextAt, Line, Promise!Sections
    <3> QED
      BY <1>5, <2>1, <2>2, <3>1, <3>2, <3>3
  <2>3. CASE Define(Line.identifier, position) /\ ~NextLine
    BY <2>3, <1>6
  <2>4. CASE Return(DeclError(Line)) /\ UNCHANGED symtab
    BY <2>4, ReturnKeepsR
  <2> QED
    BY <1>7, <2>2, <2>3, <2>4 DEF pass1_data_decl
<1>8. CASE pass1_instruction
  <2>1. Line.kind = "STMT_INSTRUCTION" /\ UNCHANGED symtab /\ Proceed(InstructionError(Line))
    BY <1>8 DEF pass1_instruction, AtLine
  <2>2. CASE InstructionError(Line) = "ASM_NO_ERROR" /\ NextLine
    <3>1. ctx = "ASC_CODE"
      BY <2>2 DEF InstructionError
    <3>2. InPlace(nl)
      BY <1>1, <2>1, <3>1 DEF InPlace, ContextAt, Line, Promise!Sections
    <3> QED
      BY <1>1, <1>2, <2>1, <2>2, <3>2, Pass1LineR
  <2>3. CASE Return(InstructionError(Line))
    BY <2>1, <2>3, ReturnKeepsR
  <2> QED
    BY <2>1, <2>2, <2>3 DEF Proceed
<1>9. CASE pass1_label_def
  <2> DEFINE position == PositionOf(cdsg, 0)
  <2>1. Line.kind = "STMT_LABEL_DEF"
    BY <1>9 DEF pass1_label_def, AtLine
  <2>2. CASE LabelError(Line) = "ASM_NO_ERROR" /\ Define(Line.label, position) /\ NextLine
    <3>1. ctx = "ASC_CODE" /\ Line.label \notin DOMAIN symtab
      BY <2>2 DEF LabelError
    <3>2. Promise!Defined(nl) = Line.label
      BY <2>1 DEF Promise!Defined, Promise!Kind, Line
    <3>3. InPlace(nl)
      BY <1>1, <1>4, <2>1, <3>1, <3>2 DEF InPlace, ContextAt, Line, Promise!Sections
    <3> QED
      BY <1>5, <2>1, <2>2, <3>1, <3>2, <3>3
  <2>3. CASE Define(Line.label, position) /\ ~NextLine
    BY <2>3, <1>6
  <2>4. CASE Return(LabelError(Line)) /\ UNCHANGED symtab
    BY <2>4, ReturnKeepsR
  <2> QED
    BY <1>9, <2>2, <2>3, <2>4 DEF pass1_label_def
<1> QED
  BY <1>7, <1>8, <1>9 DEF Pass1

\* So does pass 2.
LEMMA Pass2KeepsR ==
  ASSUME TypeOK, TypeOK', IInv, IInv', RInv, Pass2
  PROVE  RInv'
<1>1. /\ phase = "pass2" /\ nl \in DOMAIN source /\ nl \in Nat \ {0} /\ symtab' = symtab
      /\ ctx' = ctx /\ ContextAt(nl)
      /\ Line.kind \in {"STMT_DATA_DECL", "STMT_INSTRUCTION", "STMT_LABEL_DEF"}
  BY DEF Pass2, pass2_data_decl, pass2_instruction, pass2_label_def, AtLine, segments, TypeOK,
         RInv, ContextOfLine
<1>2. ASSUME NextLine
      PROVE  ContextAt(nl)'
  BY <1>1, <1>2, ContextGoesOn DEF NextLine, StartOrSection, Promise!Sections
<1>3. CASE pass2_data_decl
  <2>1. Line.kind = "STMT_DATA_DECL" /\ UNCHANGED <<cdsg, code>>
    BY <1>3 DEF pass2_data_decl, AtLine
  <2>2. CASE Fits(dtsg, Line.bytes) /\ NextLine
    <3>1. Line.bytes \in Nat /\ dtsg.size \in Nat
      BY <1>1, <2>1, LineIsLine, DeclLine, PlacesAreNumbers DEF TypeOK
    <3>2. Line.bytes <= SizeMax
      BY <2>2, <3>1, SegmentAssumption DEF Fits
    <3> QED
      BY <1>1, <1>2, <2>1, <2>2, <3>2, Pass2LineR
  <2>3. CASE Return("ASM_DTSG_CANNOT_APPEND")
    BY <1>1, <2>3, ReturnKeepsR
  <2> QED
    BY <1>3, <2>2, <2>3 DEF pass2_data_decl
<1>4. CASE pass2_instruction
  <2>1. Line.kind = "STMT_INSTRUCTION"
    BY <1>4 DEF pass2_instruction, AtLine
  <2>2. CASE NextLine
    <3>1. phase' # "done"
      BY <1>1, <2>2 DEF NextLine
    <3>2. ~(\E e : Return(e))
      BY <3>1 DEF Return
    <3>3. /\ ~Unresolved(Line.ops)
          /\ code' = Overwrite(code, cdsg.size,
                       Encode(Line.desc, Line.ops, FinalValues(Line.desc, Line.ops, cdsg.size)))
      BY <1>4, <3>2 DEF pass2_instruction
    <3> QED
      BY <1>1, <1>2, <2>1, <2>2, <3>3, Pass2LineR
  <2>3. CASE Return("ASM_INVALID_OPERAND_LABEL") \/ Return("ASM_CDSG_CANNOT_APPEND")
    BY <1>1, <2>3, ReturnKeepsR
  <2> QED
    BY <1>4, <2>2, <2>3 DEF pass2_instruction
<1>5. CASE pass2_label_def
  <2>1. Line.kind = "STMT_LABEL_DEF" /\ UNCHANGED <<cdsg, code>> /\ NextLine
    BY <1>5 DEF pass2_label_def, AtLine, segments
  <2> QED
    BY <1>1, <1>2, <2>1, Pass2LineR
<1> QED
  BY <1>3, <1>4, <1>5 DEF Pass2

\* A step of the passes keeps the invariant.
LEMMA RefinementKept ==
  ASSUME TypeOK, TypeOK', IInv, IInv', RInv, [Next]_vars
  PROVE  RInv'
<1>1. CASE UNCHANGED vars
  <2>1. UNCHANGED <<source, layout, symtab, code, cdsg, phase, ctx, nl>>
    BY <1>1 DEF vars
  <2>2. LinesInPlace'
    BY <2>1, SameSource DEF RInv, LinesInPlace, LinesRead
  <2>3. OnlyDefinedSymbols'
    BY <2>1 DEF RInv, OnlyDefinedSymbols, Promise!Definitions, Promise!Defined,
                Promise!Before, Promise!Kind
  <2>4. ContextOfLine'
    BY <2>1 DEF RInv, ContextOfLine, ContextAt, InSection, Promise!Before, Promise!Kind,
                Promise!Opened, Promise!Sections, StartOrSection
  <2>5. LinesWritten'
    BY <2>1 DEF RInv, LinesWritten, Written, BytesOf, FinalValues, OperandValue, Unresolved
  <2> QED
    BY <2>2, <2>3, <2>4, <2>5 DEF RInv
<1>2. CASE Next
  BY <1>1, <1>2, FilesKeepR, BothPassesKeepR, Pass1KeepsR, Pass2KeepsR DEF Next, Returned
<1> QED
  BY <1>1, <1>2

\* Nothing has been read or written at the start.
LEMMA RefinementBegins ==
  ASSUME Init
  PROVE  RInv
<1>1. /\ layout = <<[code |-> 0, data |-> 0]>> /\ phase = "open1"
      /\ DOMAIN symtab = {} /\ code = << >>
  BY DEF Init
<1>2. LinesRead = {}
  BY <1>1 DEF LinesRead
<1> QED
  BY <1>1, <1>2 DEF RInv, LinesInPlace, ContextOfLine, OnlyDefinedSymbols, LinesWritten

\* In every state the lines pass 1 has read are right, the context is the section
\* of the line being read, the table holds only what the source defines, and
\* the code segment holds the bytes of every instruction pass 2 has gone over.
THEOREM RefinementInvariant == Spec => []RInv
<1>1. Init => RInv
  BY RefinementBegins
<1>2. TypeOK /\ TypeOK' /\ IInv /\ IInv' /\ RInv /\ [Next]_vars => RInv'
  BY RefinementKept
<1> QED
  BY <1>1, <1>2, TypeCorrect, InvariantHolds, PTL DEF Spec

-----------------------------------------------------------------------------
(* What the processor reads where the assembler has written.               *)

\* The table and the sizes of the processor are those of the assembler.
LEMMA SameTable ==
  /\ Promise!INSTRUCTION_TABLE = INSTRUCTION_TABLE
  /\ \A desc : Promise!instruction_get_encoded_size(desc) = instruction_get_encoded_size(desc)
  /\ Promise!DwordValues = DwordValues
<1>1. Promise!INSTRUCTION_TABLE = INSTRUCTION_TABLE
  BY DEF INSTRUCTION_TABLE, Plain, OnReg, OnImm, RegImm, RegReg, Row,
         Promise!INSTRUCTION_TABLE, Promise!Plain, Promise!OnReg, Promise!OnImm, Promise!RegImm,
         Promise!RegReg, Promise!Row
<1>2. \A desc : Promise!instruction_get_encoded_size(desc) = instruction_get_encoded_size(desc)
  BY DEF instruction_get_encoded_size, OperandSize, Promise!instruction_get_encoded_size,
         Promise!OperandSize
<1>3. Promise!DwordValues = DwordValues
  BY DEF DwordValues, Promise!DwordValues
<1> QED
  BY <1>1, <1>2, <1>3

\* So it reads an instruction as the processor of the promise does.
LEMMA SameFetch ==
  ASSUME NEW buffer, NEW at
  PROVE  Promise!Fetch(buffer, at) = Fetch(buffer, at)
<1>1. \A opcode : Promise!RowOf(opcode) = RowOf(opcode)
  BY SameTable DEF Promise!RowOf, RowOf
<1>2. \A from : Promise!Dword(buffer, from) = Dword(buffer, from)
  BY SameTable DEF Promise!Dword, Dword
<1>3. \A from, type : Promise!OperandAt(buffer, from, type) = OperandAt(buffer, from, type)
  BY <1>2 DEF Promise!OperandAt, OperandAt
<1>4. \A type : Promise!Width(type) = Width(type)
  BY DEF Promise!Width, Width
<1> QED
  BY <1>1, <1>3, <1>4 DEF Promise!Fetch, Fetch

\* The mnemonics of the relative jumps are those with opcodes in their range.
LEMMA JumpsByMnemonic ==
  ASSUME NEW desc \in Descriptors
  PROVE  desc.mnemonic \in Promise!ConditionalJumps <=> instruction_is_relative_jump(desc)
<1>1. PICK i \in 1..53 : desc = INSTRUCTION_TABLE[i]
  BY DEF Descriptors, INSTRUCTION_TABLE
<1>2. INSTRUCTION_TABLE[i].mnemonic \in {"JE", "JNE", "JG", "JGE", "JNG", "JL", "JLE", "JNL"} <=>
        INSTRUCTION_TABLE[i].opcode \in \h72..\h7F
  BY SMTT(60) DEF INSTRUCTION_TABLE, Plain, OnReg, OnImm, RegImm, RegReg, Row
<1>3. desc.opcode \in \h72..\h7F <=> instruction_is_relative_jump(desc)
  BY TypesOfRows DEF instruction_is_relative_jump
<1> QED
  BY <1>1, <1>2, <1>3 DEF Promise!ConditionalJumps

-----------------------------------------------------------------------------
(* The addresses of the promise.                                           *)

\* f gives the places of the first things.
StartsUpTo(sizes, n, f) ==
  /\ f \in [1..n -> Nat] /\ f[1] = 0
  /\ \A i \in 1..(n - 1) : f[i + 1] = f[i] + sizes[i]

\* There are places for every list of sizes.
LEMMA StartsExist ==
  ASSUME NEW sizes \in Seq(Nat), NEW last, last = Len(sizes) + 1
  PROVE  \E f : StartsUpTo(sizes, last, f)
<1> DEFINE T == {n \in 1..last : ~\E f : StartsUpTo(sizes, n, f)}
<1>1. last \in Nat /\ last >= 1 /\ Len(sizes) \in Nat /\ DOMAIN sizes = 1..Len(sizes)
  OBVIOUS
<1>2. ASSUME T # {}
      PROVE  FALSE
  <2>1. T \subseteq Nat
    BY <1>1
  <2>2. PICK n \in T : \A m \in T : n <= m
    <3> HIDE DEF T
    <3> QED
      BY <1>2, <2>1, LeastNatural
  <2>3. n \in 1..last /\ ~\E f : StartsUpTo(sizes, n, f)
    BY <2>2
  <2>4. CASE n = 1
    <3>1. StartsUpTo(sizes, 1, [i \in 1..1 |-> 0])
      BY DEF StartsUpTo
    <3> QED
      BY <2>3, <2>4, <3>1
  <2>5. CASE n # 1
    <3>1. PICK m \in 1..last : m + 1 = n
      BY <1>1, <2>3, <2>5
    <3>2. m \notin T
      BY <1>1, <2>2, <3>1
    <3>3. PICK f : StartsUpTo(sizes, m, f)
      BY <3>2
    <3> DEFINE g == [i \in 1..n |-> IF i = n THEN f[m] + sizes[m] ELSE f[i]]
    <3>4. m \in 1..Len(sizes) /\ sizes[m] \in Nat
      BY <1>1, <2>3, <3>1
    <3>5. f \in [1..m -> Nat] /\ f[1] = 0 /\ \A i \in 1..(m - 1) : f[i + 1] = f[i] + sizes[i]
      BY <3>3 DEF StartsUpTo
    <3>6. g \in [1..n -> Nat] /\ g[1] = 0
      BY <1>1, <2>3, <2>5, <3>1, <3>4, <3>5
    <3>7. ASSUME NEW i \in 1..(n - 1)
          PROVE  g[i + 1] = g[i] + sizes[i]
      <4>1. CASE i = m
        BY <3>1, <4>1, <2>3
      <4>2. CASE i \in 1..(m - 1)
        BY <3>1, <3>5, <4>2, <2>3
      <4> QED
        BY <3>1, <4>1, <4>2
    <3>8. StartsUpTo(sizes, n, g)
      <4> HIDE DEF g
      <4> QED
        BY <3>6, <3>7 DEF StartsUpTo
    <3> QED
      BY <2>3, <3>8
  <2> QED
    BY <2>4, <2>5
<1> QED
  BY <1>1, <1>2

\* The function Starts defines by recursion exists, so the equation holds.
LEMMA StartsRecursion ==
  ASSUME NEW sizes \in Seq(Nat)
  PROVE  /\ Promise!Starts(sizes)[1] = 0
         /\ \A i \in 1..Len(sizes) :
              Promise!Starts(sizes)[i + 1] = Promise!Starts(sizes)[i] + sizes[i]
<1> DEFINE last == Len(sizes) + 1
           rule(start) ==
             start = [i \in 1..last |-> IF i = 1 THEN 0 ELSE start[i - 1] + sizes[i - 1]]
<1>1. last \in Nat /\ last >= 1 /\ Len(sizes) \in Nat /\ DOMAIN sizes = 1..Len(sizes)
  OBVIOUS
<1>2. PICK f : StartsUpTo(sizes, last, f)
  BY StartsExist
<1>3. rule(f)
  <2>1. ASSUME NEW i \in 1..last
        PROVE  f[i] = IF i = 1 THEN 0 ELSE f[i - 1] + sizes[i - 1]
    <3>1. CASE i = 1
      BY <1>2, <3>1 DEF StartsUpTo
    <3>2. CASE i # 1
      <4>1. PICK j \in 1..(last - 1) : i = j + 1
        BY <1>1, <3>2
      <4> QED
        BY <1>1, <1>2, <3>2, <4>1 DEF StartsUpTo
    <3> QED
      BY <3>1, <3>2
  <2> QED
    BY <1>2, <2>1 DEF StartsUpTo
<1>4. Promise!Starts(sizes) = CHOOSE start : rule(start)
  BY DEF Promise!Starts
<1>5. rule(Promise!Starts(sizes))
  <2> HIDE DEF rule
  <2> QED
    BY <1>3, <1>4
<1> QED
  BY <1>1, <1>5

\* Every line begins where the one before it ends, by the sizes the passes count.
LEMMA AddressSteps ==
  ASSUME source \in Seq(Lines)
  PROVE  /\ Promise!CodeAddress(1) = 0 /\ Promise!DataAddress(1) = 0
         /\ \A i \in 1..Len(source) :
              /\ Promise!CodeAddress(i + 1) = Promise!CodeAddress(i) + CodeSize(source[i])
              /\ Promise!DataAddress(i + 1) = Promise!DataAddress(i) + DataSize(source[i])
<1> DEFINE sizes == Promise!CodeSizes
           bytes == Promise!DataSizes
<1>1. Len(source) \in Nat /\ DOMAIN source = 1..Len(source)
  OBVIOUS
<1>2. sizes \in Seq(Nat) /\ Len(sizes) = Len(source)
  <2>1. ASSUME NEW i \in 1..Len(source)
        PROVE  (IF Promise!Kind(i) = "STMT_INSTRUCTION" THEN Promise!InstructionSize(i)
                ELSE 0) \in Nat
    <3>1. source[i] \in Lines
      BY <1>1
    <3> QED
      BY <3>1, InstructionLine, EncodedSize, SameTable
      DEF Promise!Kind, Promise!InstructionSize, MaxEncodedSize
  <2> QED
    BY <1>1, <2>1 DEF Promise!CodeSizes
<1>3. bytes \in Seq(Nat) /\ Len(bytes) = Len(source)
  <2>1. ASSUME NEW i \in 1..Len(source)
        PROVE  (IF Promise!Kind(i) = "STMT_DATA_DECL" THEN Promise!DeclSize(i) ELSE 0) \in Nat
    <3>1. source[i] \in Lines
      BY <1>1
    <3>2. source[i].kind = "STMT_DATA_DECL" => TotalSize(source[i]) \in Nat
      BY <3>1, DeclLine, SegmentAssumption
    <3> QED
      BY <3>2 DEF Promise!Kind, Promise!DeclSize, TotalSize
  <2> QED
    BY <1>1, <2>1 DEF Promise!DataSizes
<1>4. \A i \in 1..Len(source) : sizes[i] = CodeSize(source[i]) /\ bytes[i] = DataSize(source[i])
  BY <1>1, SameTable DEF Promise!CodeSizes, Promise!DataSizes, CodeSize, DataSize, TotalSize,
    Promise!Kind, Promise!InstructionSize, Promise!DeclSize
<1>5. /\ Promise!Starts(sizes)[1] = 0
      /\ \A i \in 1..Len(source) :
           Promise!Starts(sizes)[i + 1] = Promise!Starts(sizes)[i] + sizes[i]
  <2> HIDE DEF sizes
  <2> QED
    BY <1>2, StartsRecursion
<1>6. /\ Promise!Starts(bytes)[1] = 0
      /\ \A i \in 1..Len(source) :
           Promise!Starts(bytes)[i + 1] = Promise!Starts(bytes)[i] + bytes[i]
  <2> HIDE DEF bytes
  <2> QED
    BY <1>3, StartsRecursion
<1> QED
  BY <1>4, <1>5, <1>6 DEF Promise!CodeAddress, Promise!DataAddress

\* The places pass 1 has noted are the addresses of the promise.
LEMMA AddressesArePlaces ==
  ASSUME TypeOK, IInv
  PROVE  \A i \in DOMAIN layout : /\ Promise!CodeAddress(i) = layout[i].code
                                  /\ Promise!DataAddress(i) = layout[i].data
<1> DEFINE sizes == Promise!CodeSizes
           bytes == Promise!DataSizes
           T == {i \in DOMAIN layout : ~ /\ Promise!Starts(sizes)[i] = layout[i].code
                                         /\ Promise!Starts(bytes)[i] = layout[i].data}
<1>1. /\ layout \in Seq(Places) /\ layout # << >> /\ Len(layout) \in Nat
      /\ DOMAIN layout = 1..Len(layout)
      /\ layout[1] = [code |-> 0, data |-> 0]
      /\ source \in Seq(Lines) /\ Len(source) \in Nat /\ DOMAIN source = 1..Len(source)
  BY PlacesAreNumbers, AssemblerAssumption DEF IInv, LayoutIsRunningSum, TypeOK
<1>2. \A i \in LinesRead : /\ i \in 1..Len(source)
                           /\ layout[i + 1].code = layout[i].code + CodeSize(source[i])
                           /\ layout[i + 1].data = layout[i].data + DataSize(source[i])
  BY <1>1 DEF IInv, LayoutIsRunningSum
<1>3. /\ Promise!Starts(sizes)[1] = 0 /\ Promise!Starts(bytes)[1] = 0
      /\ \A i \in 1..Len(source) :
           /\ Promise!Starts(sizes)[i + 1] = Promise!Starts(sizes)[i] + CodeSize(source[i])
           /\ Promise!Starts(bytes)[i + 1] = Promise!Starts(bytes)[i] + DataSize(source[i])
  BY <1>1, AddressSteps DEF Promise!CodeAddress, Promise!DataAddress
<1> HIDE DEF sizes, bytes
<1>4. ASSUME T # {}
      PROVE  FALSE
  <2>1. T \subseteq Nat
    BY <1>1
  <2>2. PICK n \in T : \A m \in T : n <= m
    <3> HIDE DEF T
    <3> QED
      BY <1>4, <2>1, LeastNatural
  <2>3. n \in 1..Len(layout) /\ n # 1
    <3>1. layout[1].code = 0 /\ layout[1].data = 0
      BY <1>1
    <3> QED
      BY <1>1, <1>3, <2>2, <3>1
  <2>4. PICK m \in LinesRead : m + 1 = n
    <3>1. n - 1 \in 1..(Len(layout) - 1) /\ (n - 1) + 1 = n
      <4> HIDE DEF T
      <4> QED
        BY <1>1, <2>3
    <3> QED
      BY <3>1 DEF LinesRead
  <2>5. m \in DOMAIN layout /\ m < n
    BY <1>1, <2>4 DEF LinesRead
  <2>6. m \notin T
    BY <1>1, <2>2, <2>4, <2>5
  <2>7. /\ Promise!Starts(sizes)[m] = layout[m].code
        /\ Promise!Starts(bytes)[m] = layout[m].data
    BY <2>5, <2>6
  <2>8. /\ Promise!Starts(sizes)[n] = layout[n].code
        /\ Promise!Starts(bytes)[n] = layout[n].data
    BY <1>2, <1>3, <2>4, <2>7
  <2> QED
    BY <2>2, <2>8
<1> QED
  BY <1>4 DEF Promise!CodeAddress, Promise!DataAddress, sizes, bytes

-----------------------------------------------------------------------------
(* The faults of the source.                                               *)

\* A set of numbers up to n that is not empty has a greatest element.
LEMMA GreatestNatural ==
  ASSUME NEW n \in Nat, NEW T, T \subseteq 1..n, T # {}
  PROVE  \E m \in T : \A k \in T : m >= k
<1> DEFINE U == {n - m : m \in T}
<1>1. U \subseteq Nat /\ U # {}
  <2>1. \A m \in T : n - m \in Nat
    OBVIOUS
  <2>2. PICK m \in T : TRUE
    OBVIOUS
  <2> QED
    BY <2>1, <2>2
<1>2. PICK d \in U : \A e \in U : d <= e
  <2> HIDE DEF U
  <2> QED
    BY <1>1, LeastNatural
<1>3. PICK m \in T : d = n - m
  BY <1>2
<1>4. ASSUME NEW k \in T
      PROVE  m >= k
  <2>1. n - k \in U
    OBVIOUS
  <2>2. n - m <= n - k
    BY <1>2, <1>3, <2>1
  <2> QED
    BY <2>2
<1> QED
  BY <1>4

\* The section of a line, once as a greatest line before it, once without.
LEMMA WithinIsInSection ==
  ASSUME NEW i \in Nat \ {0}, NEW section \in Promise!Sections
  PROVE  Promise!Within(i, section) <=> InSection(i, section)
<1> DEFINE starts == Promise!Before(i, Promise!Sections)
           last   == Promise!Max(starts)
<1>1. /\ starts \subseteq 1..(i - 1) /\ i - 1 \in Nat
      /\ \A j \in 1..(i - 1) : j \in starts <=> source[j].kind \in Promise!Sections
  BY DEF Promise!Before, Promise!Kind
<1>2. ASSUME starts # {}
      PROVE  last \in starts /\ \A k \in starts : last >= k
  <2> HIDE DEF starts
  <2>1. \E m \in starts : \A k \in starts : m >= k
    BY <1>1, <1>2, GreatestNatural
  <2> QED
    BY <2>1 DEF Promise!Max
<1> HIDE DEF last
<1>3. ASSUME Promise!Within(i, section)
      PROVE  InSection(i, section)
  <2>1. starts # {} /\ source[last].kind = section
    BY <1>3 DEF Promise!Within, Promise!Kind, last
  <2>2. last \in 1..(i - 1) /\ \A k \in starts : last >= k
    BY <1>1, <1>2, <2>1
  <2>3. \A k \in (last + 1)..(i - 1) : source[k].kind \notin Promise!Sections
    BY <1>1, <2>2
  <2> QED
    BY <2>1, <2>2, <2>3 DEF InSection
<1>4. ASSUME InSection(i, section)
      PROVE  Promise!Within(i, section)
  <2>1. PICK j \in 1..(i - 1) :
          /\ source[j].kind = section
          /\ \A k \in (j + 1)..(i - 1) : source[k].kind \notin Promise!Sections
    BY <1>4 DEF InSection
  <2>2. j \in starts
    BY <1>1, <2>1
  <2>3. last \in 1..(i - 1) /\ source[last].kind \in Promise!Sections /\ last >= j
    BY <1>1, <1>2, <2>2
  <2>4. last = j
    BY <1>1, <2>1, <2>3
  <2> QED
    BY <2>1, <2>2, <2>4 DEF Promise!Within, Promise!Kind, last
<1> QED
  BY <1>3, <1>4

\* The kinds a line can be of.
LEMMA KindsOfLines ==
  ASSUME NEW line \in Lines
  PROVE  line.kind \in {"STMT_KMA", "STMT_SECTION_CODE", "STMT_SECTION_DATA", "STMT_NONE",
                        "NO_TOKENS", "NO_STATEMENT", "STMT_DATA_DECL", "STMT_LABEL_DEF",
                        "STMT_INSTRUCTION"}
BY DEF Lines

\* What LineFault says of a line of each kind.
LEMMA LineFaultByKind ==
  ASSUME NEW i \in Nat \ {0}, source[i] \in Lines
  PROVE  LET kind == source[i].kind IN
         /\ kind = "NO_TOKENS" => Promise!LineFault(i) = 42
         /\ kind = "NO_STATEMENT" => Promise!LineFault(i) = 3
         /\ kind = "STMT_NONE" => Promise!LineFault(i) = 0
         /\ kind = "STMT_KMA" =>
              Promise!LineFault(i) = IF Promise!Before(i, StartOrSection) = {} THEN 0 ELSE 3
         /\ kind \in Promise!Sections =>
              Promise!LineFault(i) = IF Promise!Opened(i) THEN 0 ELSE 3
         /\ kind = "STMT_DATA_DECL" =>
              Promise!LineFault(i) =
                IF ~InSection(i, "STMT_SECTION_DATA") THEN 3
                ELSE IF Promise!DataAddress(i) + TotalSize(source[i]) > DtsgBytes THEN 8
                ELSE IF Promise!DefinesAgain(i) THEN 3 ELSE 0
         /\ kind = "STMT_INSTRUCTION" =>
              Promise!LineFault(i) =
                IF ~InSection(i, "STMT_SECTION_CODE") THEN 3
                ELSE IF Promise!CodeAddress(i) + CodeSize(source[i]) > CdsgBytes THEN 7 ELSE 0
         /\ kind = "STMT_LABEL_DEF" =>
              Promise!LineFault(i) =
                IF ~InSection(i, "STMT_SECTION_CODE") \/ Promise!DefinesAgain(i) THEN 3 ELSE 0
<1>1. "STMT_SECTION_CODE" \in Promise!Sections /\ "STMT_SECTION_DATA" \in Promise!Sections
  BY DEF Promise!Sections
<1>2. /\ Promise!Within(i, "STMT_SECTION_CODE") <=> InSection(i, "STMT_SECTION_CODE")
      /\ Promise!Within(i, "STMT_SECTION_DATA") <=> InSection(i, "STMT_SECTION_DATA")
  BY <1>1, WithinIsInSection
<1>3. Promise!DeclSize(i) = TotalSize(source[i])
  BY DEF Promise!DeclSize, TotalSize
<1>4. source[i].kind = "STMT_INSTRUCTION" => Promise!InstructionSize(i) = CodeSize(source[i])
  BY SameTable DEF Promise!InstructionSize, CodeSize
<1>5. StartOrSection = {"STMT_KMA"} \cup Promise!Sections
  BY DEF StartOrSection
<1> DEFINE data  == Promise!DataAddress(i) + Promise!DeclSize(i) > DtsgBytes
           place == Promise!CodeAddress(i) + Promise!InstructionSize(i) > CdsgBytes
<1>6. Promise!LineFault(i) =
        CASE source[i].kind = "NO_TOKENS"    -> 42
          [] source[i].kind = "NO_STATEMENT" -> 3
          [] source[i].kind = "STMT_NONE"    -> 0
          [] source[i].kind = "STMT_KMA" ->
               IF Promise!Before(i, StartOrSection) = {} THEN 0 ELSE 3
          [] source[i].kind \in Promise!Sections -> IF Promise!Opened(i) THEN 0 ELSE 3
          [] source[i].kind = "STMT_DATA_DECL" ->
               IF ~Promise!Within(i, "STMT_SECTION_DATA") THEN 3
               ELSE IF data THEN 8
               ELSE IF Promise!DefinesAgain(i) THEN 3 ELSE 0
          [] source[i].kind = "STMT_INSTRUCTION" ->
               IF ~Promise!Within(i, "STMT_SECTION_CODE") THEN 3
               ELSE IF place THEN 7 ELSE 0
          [] source[i].kind = "STMT_LABEL_DEF" ->
               IF ~Promise!Within(i, "STMT_SECTION_CODE") \/ Promise!DefinesAgain(i) THEN 3 ELSE 0
  BY <1>5 DEF Promise!LineFault, Promise!Kind, Promise!OwnFailure, Promise!Syntax,
              Promise!DataFull, Promise!CodeFull
<1> HIDE DEF data, place
<1>7. /\ data <=> Promise!DataAddress(i) + TotalSize(source[i]) > DtsgBytes
      /\ source[i].kind = "STMT_INSTRUCTION" =>
           (place <=> Promise!CodeAddress(i) + CodeSize(source[i]) > CdsgBytes)
  BY <1>3, <1>4 DEF data, place
<1> QED
  BY <1>2, <1>6, <1>7 DEF Promise!Sections

\* Where the passes are, in numbers.
LEMMA SourceLines ==
  ASSUME TypeOK
  PROVE  /\ source \in Seq(Lines) /\ Len(source) \in Nat /\ DOMAIN source = 1..Len(source)
         /\ \A i \in DOMAIN source : i \in Nat \ {0} /\ source[i] \in Lines
<1>1. source \in Seq(Lines)
  BY AssemblerAssumption DEF TypeOK
<1> QED
  BY <1>1

\* A line pass 1 has read to its end has no fault that pass 1 finds.
LEMMA LinesReadAreRight ==
  ASSUME TypeOK, IInv, RInv, NEW i \in LinesRead
  PROVE  Promise!LineFault(i) = 0
<1>1. layout \in Seq(Places) /\ Len(layout) \in Nat /\ DOMAIN layout = 1..Len(layout)
  BY PlacesAreNumbers
<1>2. i \in Nat \ {0} /\ i \in DOMAIN layout /\ i + 1 \in DOMAIN layout
  BY <1>1 DEF LinesRead
<1>3. source[i] \in Lines
  BY SourceLines DEF IInv, LayoutIsRunningSum
<1>4. InPlace(i)
  BY DEF RInv, LinesInPlace
<1>5. /\ layout[i + 1].code = layout[i].code + CodeSize(source[i])
      /\ layout[i + 1].data = layout[i].data + DataSize(source[i])
      /\ layout[i + 1].code <= CdsgBytes /\ layout[i + 1].data <= DtsgBytes
  BY <1>2 DEF IInv, LayoutIsRunningSum
<1>6. Promise!CodeAddress(i) = layout[i].code /\ Promise!DataAddress(i) = layout[i].data
  BY <1>2, AddressesArePlaces
<1>7. layout[i].code \in Nat /\ layout[i].data \in Nat
  BY <1>2, PlacesAreNumbers
<1>8. CodeSize(source[i]) \in Nat
  <2>1. source[i].kind = "STMT_INSTRUCTION" =>
          instruction_get_encoded_size(source[i].desc) \in 1..MaxEncodedSize
    BY <1>3, InstructionLine, EncodedSize
  <2> QED
    BY <2>1 DEF CodeSize, MaxEncodedSize
<1>9. source[i].kind = "STMT_DATA_DECL" =>
        /\ TotalSize(source[i]) \in Nat
        /\ Promise!DataAddress(i) + TotalSize(source[i]) = layout[i + 1].data
  <2>1. source[i].kind = "STMT_DATA_DECL" => TotalSize(source[i]) \in Nat
    BY <1>3, DeclLine, SegmentAssumption
  <2> QED
    BY <1>5, <1>6, <2>1 DEF DataSize
<1>10. Promise!CodeAddress(i) + CodeSize(source[i]) = layout[i + 1].code
  BY <1>5, <1>6
<1>11. /\ source[i].kind = "STMT_DATA_DECL" =>
            ~(Promise!DataAddress(i) + TotalSize(source[i]) > DtsgBytes)
       /\ ~(Promise!CodeAddress(i) + CodeSize(source[i]) > CdsgBytes)
  <2>1. CdsgBytes \in Nat /\ DtsgBytes \in Nat
    BY AssemblerAssumption
  <2>2. layout[i + 1].code \in Nat /\ layout[i + 1].data \in Nat
    BY <1>2, PlacesAreNumbers
  <2> QED
    BY <1>5, <1>9, <1>10, <2>1, <2>2
<1>12. source[i].kind \in {"STMT_KMA", "STMT_SECTION_CODE", "STMT_SECTION_DATA", "STMT_NONE",
                           "NO_TOKENS", "NO_STATEMENT", "STMT_DATA_DECL", "STMT_LABEL_DEF",
                           "STMT_INSTRUCTION"}
  BY <1>3, KindsOfLines
<1> QED
  BY <1>2, <1>3, <1>4, <1>11, <1>12, LineFaultByKind DEF InPlace, Promise!Sections

\* The first line with a fault of the first kind decides.
LEMMA EarlyFaultDecides ==
  ASSUME TypeOK, NEW n \in DOMAIN source, Promise!LineFault(n) # 0,
         \A j \in 1..(n - 1) : Promise!LineFault(j) = 0
  PROVE  Promise!SourceFault = Promise!LineFault(n)
<1> DEFINE early == {i \in DOMAIN source : Promise!LineFault(i) # 0}
<1>1. DOMAIN source \subseteq Nat \ {0}
  BY SourceLines
<1>2. n \in early
  OBVIOUS
<1>3. \A j \in early : n <= j
  <2>1. ASSUME NEW j \in early, j < n
        PROVE  FALSE
    <3>1. j \in 1..(n - 1)
      BY <1>1, <2>1
    <3> QED
      BY <2>1, <3>1
  <2> QED
    BY <1>1, <2>1
<1>4. Promise!Min(early) = n
  <2>1. early \subseteq Nat
    BY <1>1
  <2> HIDE DEF early
  <2>2. \A x \in early : (\A y \in early : x <= y) => x = n
    BY <1>2, <1>3, <2>1
  <2> QED
    BY <1>2, <1>3, <2>2 DEF Promise!Min
<1> QED
  BY <1>2, <1>4 DEF Promise!SourceFault

\* With no fault of the first kind, the first line with one of the second decides.
LEMMA LateFaultDecides ==
  ASSUME TypeOK, NEW n \in DOMAIN source, Promise!LateFault(n) # 0,
         \A j \in DOMAIN source : Promise!LineFault(j) = 0,
         \A j \in 1..(n - 1) : Promise!LateFault(j) = 0
  PROVE  Promise!SourceFault = Promise!LateFault(n)
<1> DEFINE early == {i \in DOMAIN source : Promise!LineFault(i) # 0}
           late  == {i \in DOMAIN source : Promise!LateFault(i) # 0}
<1>1. DOMAIN source \subseteq Nat \ {0}
  BY SourceLines
<1>2. n \in late /\ early = {}
  OBVIOUS
<1>3. \A j \in late : n <= j
  <2>1. ASSUME NEW j \in late, j < n
        PROVE  FALSE
    <3>1. j \in 1..(n - 1)
      BY <1>1, <2>1
    <3> QED
      BY <2>1, <3>1
  <2> QED
    BY <1>1, <2>1
<1>4. Promise!Min(late) = n
  <2>1. late \subseteq Nat
    BY <1>1
  <2> HIDE DEF late, early
  <2>2. \A x \in late : (\A y \in late : x <= y) => x = n
    BY <1>2, <1>3, <2>1
  <2> QED
    BY <1>2, <1>3, <2>2 DEF Promise!Min
<1> QED
  BY <1>2, <1>4 DEF Promise!SourceFault

\* A source without a fault of either kind has none.
LEMMA NoFaultDecides ==
  ASSUME \A j \in DOMAIN source : Promise!LineFault(j) = 0 /\ Promise!LateFault(j) = 0
  PROVE  Promise!SourceFault = 0
BY DEF Promise!SourceFault

\* A fault of the line pass 1 reads is the first one.
LEMMA Pass1Decides ==
  ASSUME TypeOK, IInv, RInv, phase = "pass1", nl \in DOMAIN source, Promise!LineFault(nl) # 0
  PROVE  Promise!SourceFault = Promise!LineFault(nl)
<1>1. LinesRead = 1..(nl - 1)
  BY DEF LinesRead, IInv, PassesStand
<1>2. \A j \in 1..(nl - 1) : Promise!LineFault(j) = 0
  BY <1>1, LinesReadAreRight
<1> QED
  BY <1>2, EarlyFaultDecides

\* When the whole source has been read, the table holds what it defines.
LEMMA TableIsDefinitions ==
  ASSUME TypeOK, IInv, RInv, Len(layout) = Len(source) + 1
  PROVE  DOMAIN symtab = {Promise!Defined(j) : j \in Promise!Definitions(Promise!End)}
<1>1. Promise!End = Len(layout)
  BY DEF Promise!End
<1>2. LinesRead = 1..Len(source) /\ Len(source) \in Nat
  BY SourceLines DEF LinesRead
<1>3. ASSUME NEW j \in Promise!Definitions(Promise!End)
      PROVE  Promise!Defined(j) \in DOMAIN symtab
  <2>1. j \in LinesRead /\ source[j].kind \in {"STMT_LABEL_DEF", "STMT_DATA_DECL"}
    BY <1>2 DEF Promise!Definitions, Promise!Before, Promise!Kind, Promise!End
  <2> QED
    BY <2>1 DEF IInv, SymbolsAtTheirLines, Promise!Defined, Promise!Kind
<1> QED
  BY <1>1, <1>3 DEF RInv, OnlyDefinedSymbols

\* What LateFault says of a line, in the terms of pass 2.
LEMMA LateFaultByKind ==
  ASSUME TypeOK, IInv, RInv, Len(layout) = Len(source) + 1, NEW i \in DOMAIN source
  PROVE  Promise!LateFault(i) =
           IF source[i].kind = "STMT_INSTRUCTION" /\ Unresolved(source[i].ops) THEN 6
           ELSE IF source[i].kind = "STMT_DATA_DECL" /\ source[i].bytes > SizeMax THEN 8
           ELSE 0
<1>1. (\E o \in Promise!Refers(i) : source[i].ops[o].label
            \notin {Promise!Defined(j) : j \in Promise!Definitions(Promise!End)})
        <=> Unresolved(source[i].ops)
  <2> DEFINE defined == {Promise!Defined(j) : j \in Promise!Definitions(Promise!End)}
  <2>1. DOMAIN symtab = defined
    BY TableIsDefinitions
  <2> HIDE DEF defined
  <2>2. (\E o \in Promise!Refers(i) : source[i].ops[o].label \notin defined)
          <=> Unresolved(source[i].ops)
    BY <2>1 DEF Promise!Refers, Unresolved, NamesSymbol
  <2> QED
    BY <2>2 DEF defined
<1> DEFINE unresolved == \E o \in Promise!Refers(i) : source[i].ops[o].label
                           \notin {Promise!Defined(j) : j \in Promise!Definitions(Promise!End)}
           large      == source[i].bytes > SizeMax
<1>2. Promise!LateFault(i) =
        CASE source[i].kind = "STMT_INSTRUCTION" /\ unresolved -> 6
          [] source[i].kind = "STMT_DATA_DECL" /\ large -> 8
          [] OTHER -> 0
  BY DEF Promise!LateFault, Promise!Kind, Promise!Unresolved, Promise!DataFull
<1>3. unresolved <=> Unresolved(source[i].ops)
  BY <1>1
<1> HIDE DEF unresolved
<1>4. Promise!LateFault(i) =
        IF source[i].kind = "STMT_INSTRUCTION" /\ unresolved THEN 6
        ELSE IF source[i].kind = "STMT_DATA_DECL" /\ large THEN 8
        ELSE 0
  <2> HIDE DEF large
  <2> QED
    BY <1>2
<1> QED
  BY <1>3, <1>4

\* Pass 1 has read every line before pass 2 begins.
AllRead ==
  /\ phase \in {"open2", "pass2"} => Len(layout) = Len(source) + 1
  /\ phase = "pass2" => nl \in DOMAIN layout

\* So it is when no line fails to be read.
LEMMA NothingUnread ==
  ASSUME IInv, "read" \notin Faults
  PROVE  AllRead
BY DEF IInv, WholeSourceRead, AllRead

\* What pass 2 knows of the source when pass 1 has read it to its end.
LEMMA Pass2Knows ==
  ASSUME TypeOK, IInv, RInv, AllRead, phase = "pass2"
  PROVE  /\ Len(layout) = Len(source) + 1 /\ nl \in DOMAIN layout /\ nl \in Nat \ {0}
         /\ \A j \in DOMAIN source : Promise!LineFault(j) = 0
         /\ \A j \in 1..(nl - 1) : j \in DOMAIN source /\ Promise!LateFault(j) = 0
<1>1. Len(layout) = Len(source) + 1 /\ nl \in DOMAIN layout
  BY DEF AllRead
<1>2. nl \in 1..(Len(source) + 1) /\ Len(source) \in Nat
  BY <1>1, SourceLines, PlacesAreNumbers
<1>3. LinesRead = DOMAIN source
  BY <1>1, SourceLines DEF LinesRead
<1>4. \A j \in DOMAIN source : Promise!LineFault(j) = 0
  BY <1>3, LinesReadAreRight
<1>5. ASSUME NEW j \in 1..(nl - 1)
      PROVE  j \in DOMAIN source /\ Promise!LateFault(j) = 0
  <2>1. j \in DOMAIN source
    BY <1>2, SourceLines
  <2>2. /\ source[j].kind = "STMT_INSTRUCTION" => ~Unresolved(source[j].ops)
        /\ source[j].kind = "STMT_DATA_DECL" => source[j].bytes <= SizeMax
    BY <1>1 DEF RInv, LinesWritten
  <2>3. source[j].kind = "STMT_DATA_DECL" => ~(source[j].bytes > SizeMax)
    <3>1. source[j].kind = "STMT_DATA_DECL" => source[j].bytes \in Nat /\ SizeMax \in Nat
      BY <2>1, SourceLines, DeclLine, SegmentAssumption
    <3> QED
      BY <2>2, <3>1
  <2> QED
    BY <1>1, <2>1, <2>2, <2>3, LateFaultByKind
<1> QED
  BY <1>1, <1>2, <1>4, <1>5

-----------------------------------------------------------------------------
(* The errors of the passes are the faults of their lines.                 *)

\* An error a step may end the run with.
Justified(e) ==
  /\ e # "ASM_NO_ERROR" /\ convert_err(e) # 0
  /\ convert_err(e) = Promise!SourceFault \/ convert_err(e) \in ExitsOfFaults

\* The exit codes of the errors.
LEMMA ExitCodes ==
  /\ convert_err("ASM_NO_ERROR") = 0
  /\ convert_err("ASM_KMA_EXPECTED") = 3 /\ convert_err("ASM_KMA_DOUBLE") = 3
  /\ convert_err("ASM_DATA_ABROAD") = 3 /\ convert_err("ASM_CODE_ABROAD") = 3
  /\ convert_err("ASM_SYMTAB_ALREADY_EXIST") = 3 /\ convert_err("ASM_CREATING_PSTMT") = 3
  /\ convert_err("ASM_CANNOT_OPEN_FILE") = 4
  /\ convert_err("ASM_INVALID_OPERAND_LABEL") = 6
  /\ convert_err("ASM_CDSG_TOO_LARGE") = 7 /\ convert_err("ASM_CDSG_CANNOT_APPEND") = 7
  /\ convert_err("ASM_DTSG_TOO_LARGE") = 8 /\ convert_err("ASM_DTSG_CANNOT_APPEND") = 8
  /\ convert_err("ASM_DTSG_CANNOT_ADVANCE") = 8
  /\ convert_err("ASM_CREATING_TOKENS") = 42 /\ convert_err("ASM_SYMTAB_CANNOT_ADD") = 42
BY DEF convert_err

\* A failure of an allocation may lead to any of its exit codes.
LEMMA FaultsOfMemory ==
  ASSUME AllocationFails
  PROVE  {3, 7, 8, 42} \subseteq ExitsOfFaults
BY DEF AllocationFails, ExitsOfFaults

\* Where pass 1 reads a line, in the terms of the promise.
LEMMA Pass1Stands ==
  ASSUME TypeOK, IInv, RInv, phase = "pass1", nl \in DOMAIN source
  PROVE  /\ nl \in Nat \ {0} /\ source[nl] \in Lines /\ ContextAt(nl)
         /\ cdsg.size \in Nat /\ cdsg.size = Promise!CodeAddress(nl) /\ cdsg.size <= CdsgBytes
         /\ dtsg.size \in Nat /\ dtsg.size = Promise!DataAddress(nl) /\ dtsg.size <= DtsgBytes
         /\ Promise!Definitions(Len(layout)) = Promise!Definitions(nl)
<1>1. Len(layout) = nl /\ cdsg.size = layout[nl].code /\ dtsg.size = layout[nl].data
  BY DEF IInv, PassesStand, StandsAt
<1>2. nl \in DOMAIN layout
  BY <1>1, PlacesAreNumbers, SourceLines
<1> QED
  BY <1>1, <1>2, AddressesArePlaces, PlacesAreNumbers, SourceLines, WithinLimits
  DEF RInv, ContextOfLine

\* A name already in the table is one the lines before have defined.
LEMMA DefinedBefore ==
  ASSUME TypeOK, IInv, RInv, phase = "pass1", nl \in DOMAIN source,
         Promise!Defined(nl) \in DOMAIN symtab
  PROVE  Promise!DefinesAgain(nl)
BY Pass1Stands DEF RInv, OnlyDefinedSymbols, Promise!DefinesAgain

\* What pass 1 refuses a declaration for is the fault of its line.
LEMMA DeclErrorRight ==
  ASSUME TypeOK, IInv, RInv, AtLine("pass1", "STMT_DATA_DECL"), DeclError(Line) # "ASM_NO_ERROR"
  PROVE  convert_err(DeclError(Line)) = Promise!LineFault(nl) /\ Promise!LineFault(nl) # 0
<1>1. phase = "pass1" /\ nl \in DOMAIN source /\ Line = source[nl] /\ Line.kind = "STMT_DATA_DECL"
  BY DEF AtLine, Line
<1> DEFINE size     == TotalSize(Line)
           position == PositionOf(dtsg, size)
           end      == Promise!DataAddress(nl) + size
<1>2. /\ nl \in Nat \ {0} /\ Line \in Lines
      /\ dtsg.size \in Nat /\ dtsg.size = Promise!DataAddress(nl) /\ dtsg.size <= DtsgBytes
      /\ ctx = "ASC_DATA" <=> InSection(nl, "STMT_SECTION_DATA")
  BY <1>1, Pass1Stands DEF ContextAt
<1>3. size \in Nat /\ SizeMax \in Nat /\ DtsgBytes \in Nat /\ DtsgBytes < SizeMax
  BY <1>1, <1>2, DeclLine, SegmentAssumption, AssemblerAssumption
<1>4. Promise!LineFault(nl) =
        IF ~InSection(nl, "STMT_SECTION_DATA") THEN 3
        ELSE IF end > DtsgBytes THEN 8
        ELSE IF Promise!DefinesAgain(nl) THEN 3 ELSE 0
  BY <1>1, <1>2, LineFaultByKind
<1>5. DeclError(Line) =
        IF ctx # "ASC_DATA" THEN "ASM_DATA_ABROAD"
        ELSE IF position = SizeMax THEN "ASM_DTSG_CANNOT_ADVANCE"
        ELSE IF size > DtsgBytes \/ position > DtsgBytes - size THEN "ASM_DTSG_TOO_LARGE"
        ELSE IF Line.identifier \in DOMAIN symtab THEN "ASM_SYMTAB_ALREADY_EXIST"
        ELSE "ASM_NO_ERROR"
  BY DEF DeclError
<1>6. position = IF dtsg.size <= SizeMax - size THEN dtsg.size ELSE SizeMax
  BY DEF PositionOf, Fits
<1>7. /\ position = SizeMax => end > DtsgBytes
      /\ position # SizeMax => (end > DtsgBytes <=> size > DtsgBytes \/ position > DtsgBytes - size)
  <2> HIDE DEF size, position
  <2> QED
    BY <1>2, <1>3, <1>6
<1>8. Line.identifier \in DOMAIN symtab => Promise!DefinesAgain(nl)
  BY <1>1, DefinedBefore DEF Promise!Defined, Promise!Kind
<1> HIDE DEF size, position, end
<1> QED
  BY <1>2, <1>4, <1>5, <1>7, <1>8, ExitCodes

\* What pass 1 refuses an instruction for is the fault of its line.
LEMMA InstructionErrorRight ==
  ASSUME TypeOK, IInv, RInv, AtLine("pass1", "STMT_INSTRUCTION"),
         InstructionError(Line) # "ASM_NO_ERROR"
  PROVE  convert_err(InstructionError(Line)) = Promise!LineFault(nl) /\ Promise!LineFault(nl) # 0
<1>1. phase = "pass1" /\ nl \in DOMAIN source /\ Line = source[nl] /\ Line.kind = "STMT_INSTRUCTION"
  BY DEF AtLine, Line
<1> DEFINE size     == instruction_get_encoded_size(Line.desc)
           position == PositionOf(cdsg, size)
           end      == Promise!CodeAddress(nl) + size
<1>2. /\ nl \in Nat \ {0} /\ Line \in Lines
      /\ cdsg.size \in Nat /\ cdsg.size = Promise!CodeAddress(nl) /\ cdsg.size <= CdsgBytes
      /\ ctx = "ASC_CODE" <=> InSection(nl, "STMT_SECTION_CODE")
  BY <1>1, Pass1Stands DEF ContextAt
<1>3. /\ size \in Nat /\ size <= MaxEncodedSize /\ MaxEncodedSize \in Nat
      /\ SizeMax \in Nat /\ CdsgBytes \in Nat /\ CdsgBytes + MaxEncodedSize < SizeMax
  <2>1. size \in 1..MaxEncodedSize
    BY <1>1, <1>2, InstructionLine, EncodedSize
  <2>2. MaxEncodedSize \in Nat
    BY DEF MaxEncodedSize
  <2> HIDE DEF size
  <2> QED
    BY <2>1, <2>2, SegmentAssumption, AssemblerAssumption
<1>4. Promise!LineFault(nl) =
        IF ~InSection(nl, "STMT_SECTION_CODE") THEN 3
        ELSE IF end > CdsgBytes THEN 7 ELSE 0
  <2>1. CodeSize(source[nl]) = size
    BY <1>1 DEF CodeSize
  <2> QED
    BY <1>1, <1>2, <2>1, LineFaultByKind
<1>5. InstructionError(Line) =
        IF ctx # "ASC_CODE" THEN "ASM_CODE_ABROAD"
        ELSE IF position > CdsgBytes - size THEN "ASM_CDSG_TOO_LARGE"
        ELSE "ASM_NO_ERROR"
  BY DEF InstructionError
<1>6. position = IF cdsg.size <= SizeMax - size THEN cdsg.size ELSE SizeMax
  BY DEF PositionOf, Fits
<1>7. end > CdsgBytes <=> position > CdsgBytes - size
  <2> HIDE DEF size, position
  <2> QED
    BY <1>2, <1>3, <1>6
<1> HIDE DEF size, position, end
<1> QED
  BY <1>2, <1>4, <1>5, <1>7, ExitCodes

\* What pass 1 refuses a label for is the fault of its line.
LEMMA LabelErrorRight ==
  ASSUME TypeOK, IInv, RInv, AtLine("pass1", "STMT_LABEL_DEF"), LabelError(Line) # "ASM_NO_ERROR"
  PROVE  convert_err(LabelError(Line)) = Promise!LineFault(nl) /\ Promise!LineFault(nl) # 0
<1>1. phase = "pass1" /\ nl \in DOMAIN source /\ Line = source[nl] /\ Line.kind = "STMT_LABEL_DEF"
  BY DEF AtLine, Line
<1>2. /\ nl \in Nat \ {0} /\ Line \in Lines
      /\ cdsg.size \in Nat /\ cdsg.size <= CdsgBytes
      /\ ctx = "ASC_CODE" <=> InSection(nl, "STMT_SECTION_CODE")
  BY <1>1, Pass1Stands DEF ContextAt
<1>3. ~(PositionOf(cdsg, 0) > CdsgBytes)
  BY <1>2, SegmentAssumption, AssemblerAssumption DEF PositionOf, Fits, MaxEncodedSize
<1>4. Promise!LineFault(nl) =
        IF ~InSection(nl, "STMT_SECTION_CODE") \/ Promise!DefinesAgain(nl) THEN 3 ELSE 0
  BY <1>1, <1>2, LineFaultByKind
<1>5. LabelError(Line) =
        IF ctx # "ASC_CODE" THEN "ASM_CODE_ABROAD"
        ELSE IF Line.label \in DOMAIN symtab THEN "ASM_SYMTAB_ALREADY_EXIST"
        ELSE "ASM_NO_ERROR"
  BY <1>3 DEF LabelError
<1>6. Line.label \in DOMAIN symtab => Promise!DefinesAgain(nl)
  BY <1>1, DefinedBefore DEF Promise!Defined, Promise!Kind
<1> QED
  BY <1>2, <1>4, <1>5, <1>6, ExitCodes

\* A line that is not in its place ends the run in pass 1, or never reaches pass 2.
LEMMA PassDecides ==
  ASSUME TypeOK, IInv, RInv, AllRead, phase \in {"pass1", "pass2"},
         nl \in DOMAIN source, Promise!LineFault(nl) # 0
  PROVE  Promise!SourceFault = Promise!LineFault(nl)
BY Pass1Decides, Pass2Knows

-----------------------------------------------------------------------------
(* Every step answers what is promised, or answers nothing yet.            *)

\* A step of the passes as the promise sees it.
Kept == Promise!Answer \/ UNCHANGED <<source, Outcome>>

\* As long as process_assembler runs, it has answered nothing.
LEMMA GoesOn ==
  ASSUME phase # "done", phase' # "done", source' = source
  PROVE  Kept
BY DEF Kept, Outcome

\* So it does when it goes on to the next line.
LEMMA NextLineGoesOn ==
  ASSUME phase # "done", NextLine
  PROVE  Kept
BY GoesOn DEF NextLine

\* A run that ends with a justified error answers what is promised.
LEMMA ReturnAnswers ==
  ASSUME phase # "done", NEW e, Return(e), Justified(e)
  PROVE  Kept
<1>1. Outcome = Promise!NotYet
  BY DEF Outcome, Promise!NotYet
<1>2. Outcome' = [exit |-> convert_err(e)] /\ source' = source
  BY DEF Outcome, Return
<1>3. Promise!Promised(Outcome')
  <2>1. Outcome'.exit = convert_err(e)
    BY <1>2
  <2> QED
    BY <2>1 DEF Promise!Promised, Justified
<1> QED
  BY <1>1, <1>2, <1>3 DEF Kept, Promise!Answer

\* The line a pass reads justifies the error, when it has a fault of the first kind.
LEMMA LineJustifies ==
  ASSUME TypeOK, IInv, RInv, AllRead, phase \in {"pass1", "pass2"},
         nl \in DOMAIN source, Promise!LineFault(nl) # 0,
         NEW e, e # "ASM_NO_ERROR", convert_err(e) = Promise!LineFault(nl)
  PROVE  Justified(e)
BY PassDecides DEF Justified

\* A failed allocation justifies the errors it is reported as.
LEMMA MemoryJustifies ==
  ASSUME AllocationFails, NEW e, e # "ASM_NO_ERROR", convert_err(e) \in {3, 7, 8, 42}
  PROVE  Justified(e)
BY FaultsOfMemory DEF Justified

\* What both passes do with a line keeps the promise.
LEMMA BothPassesAnswer ==
  ASSUME TypeOK, IInv, RInv, AllRead, BothPasses
  PROVE  Kept
<1>1. /\ phase \in {"pass1", "pass2"} /\ nl \in DOMAIN source /\ Line = source[nl]
      /\ phase # "done"
  BY DEF BothPasses, NoTokens, NoStatement, passes_kma, passes_code_section,
         passes_data_section, passes_none, InPass, AtLine, Line
<1>2. nl \in Nat \ {0} /\ Line \in Lines
  BY <1>1, SourceLines
<1>3. ContextAt(nl)
  BY <1>1 DEF RInv, ContextOfLine
<1>4. CASE NoTokens
  <2>1. Justified("ASM_CREATING_TOKENS")
    <3>1. CASE Line.kind = "NO_TOKENS"
      <4>1. Promise!LineFault(nl) = 42
        BY <1>1, <1>2, <3>1, LineFaultByKind
      <4> QED
        BY <1>1, <4>1, LineJustifies, ExitCodes
    <3>2. CASE AllocationFails
      BY <3>2, MemoryJustifies, ExitCodes
    <3> QED
      BY <1>4, <3>1, <3>2 DEF NoTokens
  <2> QED
    BY <1>1, <1>4, <2>1, ReturnAnswers DEF NoTokens
<1>5. CASE NoStatement
  <2>1. Justified("ASM_CREATING_PSTMT")
    <3>1. CASE Line.kind = "NO_STATEMENT"
      <4>1. Promise!LineFault(nl) = 3
        BY <1>1, <1>2, <3>1, LineFaultByKind
      <4> QED
        BY <1>1, <4>1, LineJustifies, ExitCodes
    <3>2. CASE AllocationFails
      BY <3>2, MemoryJustifies, ExitCodes
    <3> QED
      BY <1>5, <3>1, <3>2 DEF NoStatement
  <2> QED
    BY <1>1, <1>5, <2>1, ReturnAnswers DEF NoStatement
<1>6. CASE passes_kma
  <2>1. Line.kind = "STMT_KMA"
    BY <1>6 DEF passes_kma, InPass, AtLine
  <2>2. CASE NextLine
    BY <1>1, <2>2, NextLineGoesOn
  <2>3. CASE ctx # "ASC_FILE_START" /\ Return("ASM_KMA_DOUBLE")
    <3>1. Promise!Before(nl, StartOrSection) # {}
      BY <1>3, <2>3 DEF ContextAt
    <3>2. Promise!LineFault(nl) = 3
      BY <1>1, <1>2, <2>1, <3>1, LineFaultByKind
    <3>3. Justified("ASM_KMA_DOUBLE")
      BY <1>1, <3>2, LineJustifies, ExitCodes
    <3> QED
      BY <1>1, <2>3, <3>3, ReturnAnswers
  <2> QED
    BY <1>6, <2>2, <2>3 DEF passes_kma, Proceed, Return
<1>7. CASE passes_code_section \/ passes_data_section
  <2>1. Line.kind \in Promise!Sections
    BY <1>7 DEF passes_code_section, passes_data_section, InPass, AtLine, Promise!Sections
  <2>2. CASE NextLine
    BY <1>1, <2>2, NextLineGoesOn
  <2>3. CASE ctx = "ASC_FILE_START" /\ Return("ASM_KMA_EXPECTED")
    <3>1. ~Promise!Opened(nl)
      BY <1>3, <2>3 DEF ContextAt, Promise!Opened, Promise!Before, StartOrSection
    <3>2. Promise!LineFault(nl) = 3
      BY <1>1, <1>2, <2>1, <3>1, LineFaultByKind
    <3>3. Justified("ASM_KMA_EXPECTED")
      BY <1>1, <3>2, LineJustifies, ExitCodes
    <3> QED
      BY <1>1, <2>3, <3>3, ReturnAnswers
  <2> QED
    BY <1>7, <2>2, <2>3
    DEF passes_code_section, passes_data_section, Proceed, Return, SectionError
<1>8. CASE passes_none
  BY <1>1, <1>8, NextLineGoesOn DEF passes_none
<1> QED
  BY <1>4, <1>5, <1>6, <1>7, <1>8 DEF BothPasses

\* So does the definition of a symbol,
LEMMA DefineAnswers ==
  ASSUME phase # "done", NEW name, NEW address, Define(name, address)
  PROVE  Kept
<1>1. CASE NextLine
  BY <1>1, NextLineGoesOn
<1>2. CASE AllocationFails /\ Return("ASM_SYMTAB_CANNOT_ADD")
  <2>1. Justified("ASM_SYMTAB_CANNOT_ADD")
    BY <1>2, MemoryJustifies, ExitCodes
  <2> QED
    BY <1>2, <2>1, ReturnAnswers
<1> QED
  BY <1>1, <1>2 DEF Define

\* what pass 1 does with a line,
LEMMA Pass1Answers ==
  ASSUME TypeOK, IInv, RInv, AllRead, Pass1
  PROVE  Kept
<1>1. phase = "pass1" /\ phase # "done" /\ nl \in DOMAIN source
  BY DEF Pass1, pass1_data_decl, pass1_instruction, pass1_label_def, AtLine
<1>2. CASE pass1_data_decl
  <2>1. AtLine("pass1", "STMT_DATA_DECL")
    BY <1>2 DEF pass1_data_decl
  <2>2. CASE Return(DeclError(Line))
    <3>1. DeclError(Line) # "ASM_NO_ERROR"
      BY <2>2 DEF Return
    <3>2. Justified(DeclError(Line))
      BY <1>1, <2>1, <3>1, DeclErrorRight, LineJustifies
    <3> QED
      BY <1>1, <2>2, <3>2, ReturnAnswers
  <2>3. CASE Define(Line.identifier, PositionOf(dtsg, TotalSize(Line)))
    BY <1>1, <2>3, DefineAnswers
  <2> QED
    BY <1>2, <2>2, <2>3 DEF pass1_data_decl
<1>3. CASE pass1_instruction
  <2>1. AtLine("pass1", "STMT_INSTRUCTION")
    BY <1>3 DEF pass1_instruction
  <2>2. CASE Return(InstructionError(Line))
    <3>1. InstructionError(Line) # "ASM_NO_ERROR"
      BY <2>2 DEF Return
    <3>2. Justified(InstructionError(Line))
      BY <1>1, <2>1, <3>1, InstructionErrorRight, LineJustifies
    <3> QED
      BY <1>1, <2>2, <3>2, ReturnAnswers
  <2>3. CASE NextLine
    BY <1>1, <2>3, NextLineGoesOn
  <2> QED
    BY <1>3, <2>2, <2>3 DEF pass1_instruction, Proceed
<1>4. CASE pass1_label_def
  <2>1. AtLine("pass1", "STMT_LABEL_DEF")
    BY <1>4 DEF pass1_label_def
  <2>2. CASE Return(LabelError(Line))
    <3>1. LabelError(Line) # "ASM_NO_ERROR"
      BY <2>2 DEF Return
    <3>2. Justified(LabelError(Line))
      BY <1>1, <2>1, <3>1, LabelErrorRight, LineJustifies
    <3> QED
      BY <1>1, <2>2, <3>2, ReturnAnswers
  <2>3. CASE Define(Line.label, PositionOf(cdsg, 0))
    BY <1>1, <2>3, DefineAnswers
  <2> QED
    BY <1>4, <2>2, <2>3 DEF pass1_label_def
<1> QED
  BY <1>2, <1>3, <1>4 DEF Pass1

\* A number that fits is its own remainder.
LEMMA OwnRemainder ==
  ASSUME NEW n \in Nat, NEW most \in Nat, n <= most
  PROVE  n % (most + 1) = n
OBVIOUS

\* Where pass 2 reads a line, in numbers.
LEMMA Pass2Stands ==
  ASSUME TypeOK, IInv, RInv, AllRead, phase = "pass2", nl \in DOMAIN source
  PROVE  /\ source[nl] \in Lines
         /\ cdsg.size \in Nat /\ cdsg.size + CodeSize(source[nl]) <= CdsgBytes
         /\ dtsg.size \in Nat /\ dtsg.size + DataSize(source[nl]) <= DtsgBytes
<1>1. nl \in DOMAIN layout /\ nl \in LinesRead /\ nl + 1 \in DOMAIN layout
  <2>1. Len(layout) = Len(source) + 1
    BY Pass2Knows
  <2> QED
    BY <2>1, SourceLines, PlacesAreNumbers DEF LinesRead
<1>2. cdsg.size = layout[nl].code /\ dtsg.size = layout[nl].data
  BY <1>1 DEF IInv, PassesStand, StandsAt
<1>3. /\ layout[nl + 1].code = layout[nl].code + CodeSize(source[nl])
      /\ layout[nl + 1].data = layout[nl].data + DataSize(source[nl])
      /\ layout[nl + 1].code <= CdsgBytes /\ layout[nl + 1].data <= DtsgBytes
  BY <1>1 DEF IInv, LayoutIsRunningSum
<1> QED
  BY <1>1, <1>2, <1>3, SourceLines, PlacesAreNumbers

\* A fault of the second kind in the line pass 2 reads is the first one.
LEMMA LateJustifies ==
  ASSUME TypeOK, IInv, RInv, AllRead, phase = "pass2", nl \in DOMAIN source,
         Promise!LateFault(nl) # 0,
         NEW e, e # "ASM_NO_ERROR", convert_err(e) = Promise!LateFault(nl)
  PROVE  Justified(e)
BY Pass2Knows, LateFaultDecides DEF Justified

\* the appends of a declaration,
LEMMA Pass2DeclAnswers ==
  ASSUME TypeOK, IInv, RInv, AllRead, pass2_data_decl
  PROVE  Kept
<1>1. phase = "pass2" /\ phase # "done" /\ nl \in DOMAIN source /\ Line = source[nl]
      /\ Line.kind = "STMT_DATA_DECL"
  BY DEF pass2_data_decl, AtLine, Line
<1>2. CASE NextLine
  BY <1>1, <1>2, NextLineGoesOn
<1>3. CASE Return("ASM_DTSG_CANNOT_APPEND")
  <2>1. CASE AllocationFails
    BY <1>1, <1>3, <2>1, MemoryJustifies, ReturnAnswers, ExitCodes
  <2>2. CASE ~Fits(dtsg, Line.bytes)
    <3>1. /\ Line \in Lines /\ dtsg.size \in Nat /\ dtsg.size + TotalSize(Line) <= DtsgBytes
      BY <1>1, Pass2Stands DEF DataSize
    <3>2. /\ Line.bytes \in Nat /\ SizeMax \in Nat /\ DtsgBytes \in Nat /\ DtsgBytes < SizeMax
      BY <1>1, <3>1, DeclLine, SegmentAssumption, AssemblerAssumption
    <3>3. Line.bytes <= SizeMax => TotalSize(Line) = Line.bytes
      BY <3>2, OwnRemainder DEF TotalSize
    <3>4. dtsg.size > SizeMax - Line.bytes
      BY <2>2, <3>1, <3>2 DEF Fits
    <3>5. Line.bytes > SizeMax
      BY <3>1, <3>2, <3>3, <3>4
    <3>6. Promise!LateFault(nl) = 8
      BY <1>1, <3>5, Pass2Knows, LateFaultByKind
    <3> QED
      BY <1>1, <1>3, <3>6, LateJustifies, ReturnAnswers, ExitCodes
  <2> QED
    BY <2>1, <2>2, <1>1, <1>3 DEF pass2_data_decl, Return, NextLine
<1> QED
  BY <1>2, <1>3 DEF pass2_data_decl

\* the appends of an instruction,
LEMMA Pass2InstructionAnswers ==
  ASSUME TypeOK, IInv, RInv, AllRead, pass2_instruction
  PROVE  Kept
<1>1. phase = "pass2" /\ phase # "done" /\ nl \in DOMAIN source /\ Line = source[nl]
      /\ Line.kind = "STMT_INSTRUCTION"
  BY DEF pass2_instruction, AtLine, Line
<1> DEFINE size == Len(Encode(Line.desc, Line.ops, FinalValues(Line.desc, Line.ops, cdsg.size)))
<1>2. CASE NextLine
  BY <1>1, <1>2, NextLineGoesOn
<1>3. CASE Unresolved(Line.ops) /\ Return("ASM_INVALID_OPERAND_LABEL")
  <2>1. Promise!LateFault(nl) = 6
    BY <1>1, <1>3, Pass2Knows, LateFaultByKind
  <2> QED
    BY <1>1, <1>3, <2>1, LateJustifies, ReturnAnswers, ExitCodes
<1>4. CASE /\ ~Unresolved(Line.ops)
           /\ ~Fits(cdsg, size) \/ (AllocationFails /\ MustGrow(cdsg, size))
           /\ Return("ASM_CDSG_CANNOT_APPEND")
  <2>1. Fits(cdsg, size)
    <3>1. /\ Line \in Lines /\ cdsg.size \in Nat
          /\ cdsg.size + instruction_get_encoded_size(Line.desc) <= CdsgBytes
      BY <1>1, Pass2Stands DEF CodeSize
    <3>2. size = instruction_get_encoded_size(Line.desc)
      BY <1>1, <1>4, <3>1, InstructionBytes DEF TypeOK, SymtabOK
    <3>3. instruction_get_encoded_size(Line.desc) \in 1..MaxEncodedSize
      BY <1>1, <3>1, InstructionLine, EncodedSize
    <3> HIDE DEF size
    <3> QED
      BY <3>1, <3>2, <3>3, SegmentAssumption, AssemblerAssumption DEF Fits, MaxEncodedSize
  <2>2. AllocationFails /\ Return("ASM_CDSG_CANNOT_APPEND")
    BY <1>4, <2>1
  <2> QED
    BY <1>1, <2>2, MemoryJustifies, ReturnAnswers, ExitCodes
<1> QED
  BY <1>2, <1>3, <1>4 DEF pass2_instruction

\* what pass 2 does with a line,
LEMMA Pass2Answers ==
  ASSUME TypeOK, IInv, RInv, AllRead, Pass2
  PROVE  Kept
<1>1. CASE pass2_label_def
  <2>1. phase # "done" /\ NextLine
    BY <1>1 DEF pass2_label_def, AtLine
  <2> QED
    BY <2>1, NextLineGoesOn
<1> QED
  BY <1>1, Pass2DeclAnswers, Pass2InstructionAnswers DEF Pass2

-----------------------------------------------------------------------------
(* The program of a source without a fault.                                *)

\* The bounds of an int32_t.
LEMMA Int32Bounds ==
  Int32Min \in Int /\ Int32Max \in Int /\ Int32Min <= 0
<1>1. ByteBase \in Nat
  BY ByteBaseAssumption
<1>2. DwordValues \in Nat
  BY <1>1 DEF DwordValues
<1> QED
  BY <1>2 DEF Int32Max, Int32Min

\* The place of a line is one an int32_t holds.
LEMMA PlacesSaturated ==
  ASSUME TypeOK, IInv, NEW i \in DOMAIN layout
  PROVE  /\ layout[i].code \in Nat /\ layout[i].code <= Int32Max
         /\ layout[i].data \in Nat /\ layout[i].data <= Int32Max
         /\ Saturated(layout[i].code) = layout[i].code
         /\ Saturated(layout[i].data) = layout[i].data
<1>1. /\ layout[i].code \in Nat /\ layout[i].code <= CdsgBytes
      /\ layout[i].data \in Nat /\ layout[i].data <= DtsgBytes
  BY PlacesAreNumbers DEF IInv, LayoutIsRunningSum
<1>2. /\ CdsgBytes \in Nat /\ CdsgBytes <= Int32Max
      /\ DtsgBytes \in Nat /\ DtsgBytes <= Int32Max
  BY AssemblerAssumption
<1> QED
  BY <1>1, <1>2, Int32Bounds DEF Saturated

\* The table holds the address of the promise for every symbol, also when pass 1
\* has not read the whole source: the first definition of a symbol is the one read.
LEMMA AddressInTable ==
  ASSUME TypeOK, IInv, RInv, NEW name \in DOMAIN symtab
  PROVE  /\ symtab[name] = Promise!Address(name)
         /\ symtab[name] \in Int32Min..Int32Max /\ Saturated(symtab[name]) = symtab[name]
<1> DEFINE all == {i \in Promise!Definitions(Promise!End) : Promise!Defined(i) = name}
<1>1. PICK found \in Promise!Definitions(Len(layout)) : Promise!Defined(found) = name
  BY DEF RInv, OnlyDefinedSymbols
<1>2. found \in LinesRead /\ source[found].kind \in {"STMT_LABEL_DEF", "STMT_DATA_DECL"}
  BY DEF Promise!Definitions, Promise!Before, Promise!Kind, LinesRead
<1>3. found \in DOMAIN source /\ found \in DOMAIN layout /\ found \in Nat
  <2>1. LinesRead \subseteq DOMAIN source
    BY DEF IInv, LayoutIsRunningSum
  <2>2. Len(layout) \in Nat /\ DOMAIN layout = 1..Len(layout)
    BY PlacesAreNumbers
  <2> QED
    BY <1>2, <2>1, <2>2 DEF LinesRead
<1>4. all \subseteq Nat /\ found \in all
  BY <1>1, <1>2, <1>3, SourceLines
  DEF Promise!Definitions, Promise!Before, Promise!Kind, Promise!End
<1>5. ASSUME NEW j \in all
      PROVE  found <= j
  <2>1. ~Promise!DefinesAgain(found)
    BY <1>2 DEF RInv, LinesInPlace, InPlace
  <2>2. /\ source[j].kind \in {"STMT_LABEL_DEF", "STMT_DATA_DECL"} /\ j \in Nat \ {0}
        /\ Promise!Defined(j) = name
    BY SourceLines DEF Promise!Definitions, Promise!Before, Promise!Kind, Promise!End
  <2>3. j < found => j \in Promise!Definitions(found)
    BY <1>3, <2>2 DEF Promise!Definitions, Promise!Before, Promise!Kind
  <2> QED
    BY <1>1, <1>3, <2>1, <2>2, <2>3 DEF Promise!DefinesAgain
<1>6. Promise!Min(all) = found
  <2> HIDE DEF all
  <2>1. \A x \in all : (\A y \in all : x <= y) => x = found
    BY <1>4, <1>5
  <2> QED
    BY <1>4, <1>5, <2>1 DEF Promise!Min
<1>7. Promise!Address(name) =
        IF source[found].kind = "STMT_LABEL_DEF" THEN Promise!CodeAddress(found)
        ELSE Promise!DataAddress(found)
  BY <1>6 DEF Promise!Address, Promise!Kind
<1>8. /\ Promise!CodeAddress(found) = layout[found].code
      /\ Promise!DataAddress(found) = layout[found].data
  BY <1>3, AddressesArePlaces
<1>9. symtab[name] = IF source[found].kind = "STMT_LABEL_DEF" THEN layout[found].code
                     ELSE layout[found].data
  BY <1>1, <1>2 DEF IInv, SymbolsAtTheirLines, Promise!Defined, Promise!Kind
<1>10. symtab[name] \in Nat /\ symtab[name] <= Int32Max /\ Saturated(symtab[name]) = symtab[name]
  BY <1>3, <1>9, PlacesSaturated
<1> QED
  BY <1>7, <1>8, <1>9, <1>10, Int32Bounds

\* So pass 2 looks up what the operands mean.
LEMMA OperandMeant ==
  ASSUME TypeOK, IInv, RInv,
         NEW op \in Operands, NamesSymbol(op) => op.label \in DOMAIN symtab
  PROVE  /\ OperandValue(op) = Promise!Meant(op) /\ OperandValue(op) \in Int
         /\ op.type = "OP_IMM32" => OperandValue(op) \in Int32Min..Int32Max
<1>1. CASE NamesSymbol(op)
  <2>1. OperandValue(op) = symtab[op.label]
    BY <1>1, AddressInTable DEF OperandValue
  <2>2. Promise!Meant(op) = Promise!Address(op.label)
    BY <1>1 DEF Promise!Meant, NamesSymbol
  <2> QED
    BY <1>1, <2>1, <2>2, AddressInTable, Int32Bounds
<1>2. CASE ~NamesSymbol(op)
  <2>1. OperandValue(op) = op.value /\ Promise!Meant(op) = op.value
    BY <1>2 DEF OperandValue, Promise!Meant, NamesSymbol
  <2> QED
    BY <2>1, OperandTypesOf
<1> QED
  BY <1>1, <1>2

\* A jump lands at the address it names, whatever its offset is reduced to.
LEMMA JumpLands ==
  ASSUME NEW next \in Int, NEW meant \in Int, NEW offset \in Int, NEW all,
         (offset - (meant - next)) % all = 0
  PROVE  ((next + offset) - meant) % all = 0
<1>1. (next + offset) - meant = offset - (meant - next)
  OBVIOUS
<1> QED
  BY <1>1

\* The processor finds the instruction of a line again, whatever the values are that
\* pass 2 has made of its operands.
LEMMA LineFetched ==
  ASSUME SymtabOK, NEW line \in Lines, line.kind = "STMT_INSTRUCTION", ~Unresolved(line.ops),
         NEW at \in Nat, NEW buffer, NEW values, values = FinalValues(line.desc, line.ops, at),
         HoldsAt(buffer, at, Encode(line.desc, line.ops, values))
  PROVE  LET got == Promise!Fetch(buffer, at) IN
         /\ got.mnemonic = line.desc.mnemonic
         /\ got.next = at + instruction_get_encoded_size(line.desc)
         /\ got.operands \in Seq(Int) /\ DOMAIN got.operands = DOMAIN line.ops
         /\ \A o \in DOMAIN line.ops : ReadAs(line.ops[o], values[o], got.operands[o])
<1>1. line.desc \in Descriptors /\ line.ops \in Seq(Operands) /\ OperandsAgree(line.desc, line.ops)
  BY InstructionLine
<1>2. /\ values \in [DOMAIN line.ops -> Int]
      /\ \A o \in DOMAIN line.ops : line.ops[o].type = "OP_REG" => values[o] \in Nat
  BY ValuesAreNumbers
<1>3. PICK desc, ops : desc = line.desc /\ ops = line.ops
  OBVIOUS
<1>4. /\ desc \in Descriptors /\ ops \in Seq(Operands) /\ OperandsAgree(desc, ops)
      /\ values \in [DOMAIN ops -> Int]
      /\ \A o \in DOMAIN ops : ops[o].type = "OP_REG" => values[o] \in Nat
      /\ HoldsAt(buffer, at, Encode(desc, ops, values))
  BY <1>1, <1>2, <1>3
<1> DEFINE got == Fetch(buffer, at)
<1>5. /\ got.mnemonic = desc.mnemonic
      /\ got.next = at + instruction_get_encoded_size(desc)
      /\ got.operands \in Seq(Int) /\ DOMAIN got.operands = DOMAIN ops
      /\ \A i \in DOMAIN ops : ReadAs(ops[i], values[i], got.operands[i])
  BY <1>4, OperandsFormed, FetchReads
<1> QED
  BY <1>3, <1>5, SameFetch

\* The processor reads an instruction where its bytes are, with the operands the
\* table and the line give it; a relative jump leads to its first operand.
LEMMA InstructionReads ==
  ASSUME SymtabOK, NEW line \in Lines, line.kind = "STMT_INSTRUCTION", ~Unresolved(line.ops),
         NEW at \in Nat, at <= Int32Max, NEW buffer,
         HoldsAt(buffer, at, Encode(line.desc, line.ops, FinalValues(line.desc, line.ops, at))),
         NEW meant \in [DOMAIN line.ops -> Int],
         \A o \in DOMAIN line.ops :
           /\ OperandValue(line.ops[o]) = meant[o]
           /\ line.ops[o].type = "OP_IMM32" => meant[o] \in Int32Min..Int32Max
  PROVE  LET got == Promise!Fetch(buffer, at) IN
         /\ got.mnemonic = line.desc.mnemonic
         /\ got.next = at + instruction_get_encoded_size(line.desc)
         /\ IF got.mnemonic \in Promise!ConditionalJumps
            THEN (Promise!TargetOf(buffer, at) - meant[1]) % DwordValues = 0
            ELSE got.operands = meant
<1> DEFINE desc   == line.desc
           ops    == line.ops
           size   == instruction_get_encoded_size(desc)
           values == FinalValues(desc, ops, at)
           got    == Promise!Fetch(buffer, at)
<1>1. desc \in Descriptors /\ ops \in Seq(Operands) /\ OperandsAgree(desc, ops)
  BY InstructionLine
<1>2. Saturated(at) = at
  BY Int32Bounds DEF Saturated
<1>3. size \in Nat /\ Saturated(size) = size
  <2>1. size \in 1..MaxEncodedSize
    BY <1>1, EncodedSize
  <2> HIDE DEF size
  <2> QED
    BY <2>1, Int32Bounds, AssemblerAssumption DEF Saturated, MaxEncodedSize
<1>4. /\ got.mnemonic = desc.mnemonic /\ got.next = at + size
      /\ got.operands \in Seq(Int) /\ DOMAIN got.operands = DOMAIN ops
      /\ \A o \in DOMAIN ops : ReadAs(ops[o], values[o], got.operands[o])
  BY LineFetched
<1>5. \A o \in DOMAIN ops :
        /\ meant[o] \in Int /\ ops[o].type \in {"OP_REG", "OP_IMM32"}
        /\ ops[o].type = "OP_IMM32" => meant[o] \in Int32Min..Int32Max
        /\ values[o] = IF o = 1 /\ instruction_is_relative_jump(desc)
                       THEN meant[o] - (at + size) ELSE meant[o]
  <2>1. \A o \in DOMAIN ops : ops[o] \in Operands
    BY <1>1
  <2> QED
    BY <1>2, <1>3, <2>1, OperandTypesOf DEF FinalValues
<1>6. Promise!TargetOf(buffer, at) =
         IF got.mnemonic \in Promise!ConditionalJumps THEN got.next + got.operands[1]
         ELSE got.operands[1]
  BY DEF Promise!TargetOf
<1>7. got.mnemonic \in Promise!ConditionalJumps <=> instruction_is_relative_jump(desc)
  BY <1>1, <1>4, JumpsByMnemonic
<1>8. DOMAIN meant = DOMAIN ops
  OBVIOUS
<1> HIDE DEF desc, ops, size, values, got
<1>9. CASE instruction_is_relative_jump(desc)
  <2>1. 1 \in DOMAIN ops
    BY <1>1, <1>9, RelativeJumps DEF OperandsAgree
  <2>2. values[1] = meant[1] - got.next /\ meant[1] \in Int /\ got.next \in Int
    BY <1>3, <1>4, <1>5, <1>9, <2>1
  <2>3. got.operands[1] \in Int /\ (got.operands[1] - values[1]) % DwordValues = 0
    BY <1>4, <2>1 DEF ReadAs
  <2>4. ((got.next + got.operands[1]) - meant[1]) % DwordValues = 0
    BY <2>2, <2>3, JumpLands
  <2> QED
    BY <1>4, <1>6, <1>7, <1>9, <2>4 DEF got, desc, size
<1>10. CASE ~instruction_is_relative_jump(desc)
  <2>1. ASSUME NEW o \in DOMAIN ops
        PROVE  got.operands[o] = meant[o]
    BY <1>4, <1>5, <1>10 DEF ReadAs
  <2>2. got.operands = meant
    <3>1. got.operands = [o \in DOMAIN ops |-> got.operands[o]]
      BY <1>4
    <3>2. meant = [o \in DOMAIN ops |-> meant[o]]
      BY <1>8
    <3> QED
      BY <2>1, <3>1, <3>2
  <2> QED
    BY <1>4, <1>7, <1>10, <2>2 DEF got, desc, size
<1> QED
  BY <1>9, <1>10

\* The processor finds instruction i of the source at its address, in any bytes
\* that have the instruction's there.
LEMMA InstructionReadable ==
  ASSUME TypeOK, IInv, RInv, NEW i \in LinesRead,
         source[i].kind = "STMT_INSTRUCTION", ~Unresolved(source[i].ops),
         NEW buffer, HoldsAt(buffer, layout[i].code, BytesOf(i))
  PROVE  Promise!Readable(buffer, i)
<1> DEFINE desc  == source[i].desc
           ops   == source[i].ops
           at    == layout[i].code
           meant == Promise!MeantValues(ops)
           got   == Promise!Fetch(buffer, at)
<1>1. source[i] \in Lines /\ i \in DOMAIN layout
  <2>1. LinesRead \subseteq DOMAIN source
    BY DEF IInv, LayoutIsRunningSum
  <2>2. Len(layout) \in Nat /\ DOMAIN layout = 1..Len(layout)
    BY PlacesAreNumbers
  <2> QED
    BY <2>1, <2>2, SourceLines DEF LinesRead
<1>2. ops \in Seq(Operands)
  BY <1>1, InstructionLine
<1>3. at \in Nat /\ at <= Int32Max /\ Promise!CodeAddress(i) = at
  BY <1>1, PlacesSaturated, AddressesArePlaces
<1>4. Promise!InstructionSize(i) = instruction_get_encoded_size(desc)
  BY SameTable DEF Promise!InstructionSize
<1>5. HoldsAt(buffer, at, Encode(desc, ops, FinalValues(desc, ops, at)))
  BY DEF BytesOf
<1>6. ASSUME NEW o \in DOMAIN ops
      PROVE  /\ OperandValue(ops[o]) = meant[o] /\ meant[o] \in Int
             /\ ops[o].type = "OP_IMM32" => meant[o] \in Int32Min..Int32Max
  <2>1. ops[o] \in Operands /\ (NamesSymbol(ops[o]) => ops[o].label \in DOMAIN symtab)
    BY <1>2 DEF Unresolved
  <2>2. meant[o] = Promise!Meant(ops[o])
    BY DEF Promise!MeantValues
  <2> HIDE DEF ops, meant
  <2> QED
    BY <2>1, <2>2, OperandMeant
<1>7. meant \in [DOMAIN ops -> Int]
  <2>1. meant = [o \in DOMAIN ops |-> meant[o]]
    BY DEF Promise!MeantValues
  <2> HIDE DEF meant
  <2> QED
    BY <1>6, <2>1
<1>8. /\ got.mnemonic = desc.mnemonic
      /\ got.next = at + instruction_get_encoded_size(desc)
      /\ IF got.mnemonic \in Promise!ConditionalJumps
         THEN (Promise!TargetOf(buffer, at) - meant[1]) % DwordValues = 0
         ELSE got.operands = meant
  <2>1. SymtabOK
    BY DEF TypeOK, SymtabOK
  <2> HIDE DEF meant, at
  <2> QED
    BY <1>1, <1>3, <1>5, <1>6, <1>7, <2>1, InstructionReads
<1> QED
  BY <1>3, <1>4, <1>8, SameTable DEF Promise!Readable, Promise!ReadableAs

\* No error before the end.
NoErrorYet == phase # "done" => err = "ASM_NO_ERROR"

\* A step that is not the last one brings no error.
LEMMA NoErrorKept ==
  ASSUME NoErrorYet, [Next]_vars
  PROVE  NoErrorYet'
<1>1. ASSUME NextLine \/ \E e : Return(e)
      PROVE  NoErrorYet'
  BY <1>1 DEF NoErrorYet, NextLine, Return
<1>2. CASE Files
  <2>1. CASE CannotOpenSource
    BY <1>1, <2>1 DEF CannotOpenSource
  <2> QED
    BY <1>2, <2>1 DEF NoErrorYet, Files, OpenSource, EndPass1, EndPass2
<1>3. CASE BothPasses
  BY <1>1, <1>3 DEF BothPasses, NoTokens, NoStatement, passes_kma, passes_code_section,
                    passes_data_section, passes_none, Proceed
<1>4. CASE Pass1
  BY <1>1, <1>4 DEF Pass1, pass1_data_decl, pass1_instruction, pass1_label_def, Proceed, Define
<1>5. CASE Pass2
  BY <1>1, <1>5 DEF Pass2, pass2_data_decl, pass2_instruction, pass2_label_def
<1>6. CASE Returned \/ UNCHANGED vars
  BY <1>6 DEF NoErrorYet, Returned, vars
<1> QED
  BY <1>2, <1>3, <1>4, <1>5, <1>6 DEF Next

\* A run goes on only as long as there is no error.
LEMMA ErrorsEndTheRun == Spec => []NoErrorYet
<1>1. Init => NoErrorYet
  BY DEF Init, NoErrorYet
<1>2. NoErrorYet /\ [Next]_vars => NoErrorYet'
  BY NoErrorKept
<1> QED
  BY <1>1, <1>2, PTL DEF Spec

\* A run that ends without an error answers with the program of the source.
LEMMA EndAnswers ==
  ASSUME TypeOK, IInv, RInv, NoErrorYet, AllRead, EndPass2, nl \notin DOMAIN source
  PROVE  Kept
<1>1. phase = "pass2" /\ phase # "done" /\ nl \notin DOMAIN source /\ err = "ASM_NO_ERROR"
  BY DEF EndPass2, NoErrorYet
<1>2. /\ Len(layout) = Len(source) + 1 /\ nl \in DOMAIN layout /\ nl = Promise!End
      /\ nl - 1 = Len(source)
  BY <1>1, Pass2Knows, SourceLines, PlacesAreNumbers DEF Promise!End
<1>3. Outcome = Promise!NotYet
  BY <1>1 DEF Outcome, Promise!NotYet
<1>4. Outcome' = [exit |-> 0, data |-> dtsg.size, code |-> code] /\ source' = source
  BY <1>1 DEF Outcome, EndPass2, segments
<1>5. Promise!SourceFault = 0
  <2>1. \A j \in DOMAIN source : j \in 1..(nl - 1)
    BY <1>2, SourceLines
  <2>2. \A j \in DOMAIN source : Promise!LineFault(j) = 0 /\ Promise!LateFault(j) = 0
    BY <1>1, <2>1, Pass2Knows
  <2> QED
    BY <2>2, NoFaultDecides
<1>6. dtsg.size = Promise!DataAddress(Promise!End)
  BY <1>1, <1>2, AddressesArePlaces DEF IInv, PassesStand, StandsAt
<1>7. Len(code) = Promise!CodeAddress(Promise!End)
  BY <1>1, <1>2, AddressesArePlaces DEF IInv, PassesStand, StandsAt, RInv, LinesWritten
<1>8. ASSUME NEW i \in Promise!Before(Promise!End, {"STMT_INSTRUCTION"})
      PROVE  Promise!Readable(code, i)
  <2>1. i \in LinesRead /\ i \in 1..(nl - 1) /\ source[i].kind = "STMT_INSTRUCTION"
    BY <1>2, SourceLines DEF Promise!Before, Promise!Kind, Promise!End, LinesRead
  <2>2. ~Unresolved(source[i].ops) /\ HoldsAt(code, layout[i].code, BytesOf(i))
    BY <1>1, <1>2, <2>1 DEF RInv, LinesWritten, Written, HoldsAt
  <2> QED
    BY <1>2, <2>1, <2>2, InstructionReadable
<1>9. Promise!Promised(Outcome')
  <2>1. Outcome'.exit = 0 /\ Outcome'.data = dtsg.size /\ Outcome'.code = code
    BY <1>4
  <2>2. Promise!IsProgram(Outcome')
    BY <1>6, <1>7, <1>8, <2>1 DEF Promise!IsProgram
  <2> QED
    BY <1>5, <2>1, <2>2 DEF Promise!Promised
<1> QED
  BY <1>3, <1>4, <1>9 DEF Kept, Promise!Answer

\* and opening the source or reaching its end.
LEMMA FilesAnswer ==
  ASSUME TypeOK, IInv, RInv, NoErrorYet, AllRead, Files, EndPass2 => nl \notin DOMAIN source
  PROVE  Kept
<1>1. CASE CannotOpenSource
  <2>1. Justified("ASM_CANNOT_OPEN_FILE")
    BY <1>1, ExitCodes DEF CannotOpenSource, Justified, ExitsOfFaults
  <2> QED
    BY <1>1, <2>1, ReturnAnswers DEF CannotOpenSource
<1>2. CASE OpenSource \/ EndPass1
  BY <1>2, GoesOn DEF OpenSource, EndPass1
<1> QED
  BY <1>1, <1>2, EndAnswers DEF Files

\* A step of the passes keeps the promise, whatever fails, as long as no pass has
\* ended before it has read every line.
LEMMA StepAnswers ==
  ASSUME TypeOK, IInv, RInv, NoErrorYet, AllRead, [Next]_vars,
         EndPass2 => nl \notin DOMAIN source
  PROVE  Kept
<1>1. CASE Next
  <2>1. CASE Returned
    BY <2>1 DEF Kept, Returned, vars, Outcome
  <2> QED
    BY <1>1, <2>1, FilesAnswer, BothPassesAnswer, Pass1Answers, Pass2Answers DEF Next
<1>2. CASE UNCHANGED vars
  BY <1>2 DEF Kept, vars, Outcome
<1> QED
  BY <1>1, <1>2

\* process_assembler keeps the promise of Assembly, for every set of sources and
\* whatever files and allocations fail: its two passes, with their segments,
\* table and checks of single lines, answer with the exit code of the first fault
\* of the source or with its program, in which the processor finds every
\* instruction at its address and with its operands. Failures to read a line are
\* excepted: the passes take them for the end of the file (run assembler_unvalidated).
THEOREM PassesKeepPromise ==
  ASSUME "read" \notin Faults
  PROVE  Spec => KeepsPromise
<1>1. Init => Promise!Init
  <2> SUFFICES ASSUME Init
               PROVE  Promise!Init
    OBVIOUS
  <2>1. source \in Programs /\ phase = "open1"
    BY DEF Init
  <2>2. Outcome = Promise!NotYet
    BY <2>1 DEF Outcome, Promise!NotYet
  <2> QED
    BY <2>1, <2>2 DEF Promise!Init
<1>2. TypeOK /\ IInv /\ RInv /\ NoErrorYet /\ [Next]_vars
        => [Promise!Answer]_<<source, Outcome>>
  <2> SUFFICES ASSUME TypeOK, IInv, RInv, NoErrorYet, [Next]_vars
               PROVE  Kept
    BY DEF Kept
  <2>1. AllRead /\ (EndPass2 => nl \notin DOMAIN source)
    BY NothingUnread DEF EndPass2, EndOfFile
  <2> QED
    BY <2>1, StepAnswers
<1> QED
  BY <1>1, <1>2, TypeCorrect, InvariantHolds, RefinementInvariant, ErrorsEndTheRun, PTL
  DEF Spec, KeepsPromise, Promise!Spec

-----------------------------------------------------------------------------
(* The promise in the steps of the program that uses the passes.           *)

\* What the promise says of a source stays, as long as the source does.
LEMMA SamePromise ==
  ASSUME source' = source
  PROVE  /\ Promise!SourceFault' = Promise!SourceFault
         /\ Promise!End' = Promise!End
         /\ \A i : Promise!DataAddress(i)' = Promise!DataAddress(i)
         /\ \A i : Promise!CodeAddress(i)' = Promise!CodeAddress(i)
         /\ \A i, kinds : Promise!Before(i, kinds)' = Promise!Before(i, kinds)
         /\ \A program, i : Promise!Readable(program, i)' <=> Promise!Readable(program, i)
         /\ \A answer : Promise!Promised(answer)' <=> Promise!Promised(answer)
<1>1. \A i, kinds : Promise!Before(i, kinds)' = Promise!Before(i, kinds)
  BY DEF Promise!Before, Promise!Kind
<1>2. \A i : /\ Promise!Kind(i)' = Promise!Kind(i) /\ Promise!DeclSize(i)' = Promise!DeclSize(i)
             /\ Promise!InstructionSize(i)' = Promise!InstructionSize(i)
             /\ Promise!Defined(i)' = Promise!Defined(i)
  BY DEF Promise!Kind, Promise!DeclSize, Promise!InstructionSize, Promise!Defined
<1>3. Promise!DataSizes' = Promise!DataSizes /\ Promise!CodeSizes' = Promise!CodeSizes
  BY <1>2 DEF Promise!DataSizes, Promise!CodeSizes
<1>4. \A i : /\ Promise!DataAddress(i)' = Promise!DataAddress(i)
             /\ Promise!CodeAddress(i)' = Promise!CodeAddress(i)
  BY <1>3 DEF Promise!DataAddress, Promise!CodeAddress
<1>5. Promise!End' = Promise!End
  BY DEF Promise!End
<1>6. \A i : /\ Promise!Opened(i)' <=> Promise!Opened(i)
             /\ Promise!Definitions(i)' = Promise!Definitions(i)
             /\ Promise!Refers(i)' = Promise!Refers(i)
  BY <1>1 DEF Promise!Opened, Promise!Definitions, Promise!Refers
<1>7. \A i : Promise!DefinesAgain(i)' <=> Promise!DefinesAgain(i)
  BY <1>2, <1>6 DEF Promise!DefinesAgain
<1>8. \A i, section : Promise!Within(i, section)' <=> Promise!Within(i, section)
  BY <1>1, <1>2 DEF Promise!Within
<1>9. \A i : Promise!LineFault(i)' = Promise!LineFault(i)
  BY <1>1, <1>2, <1>4, <1>6, <1>7, <1>8 DEF Promise!LineFault
<1>10. \A i : Promise!LateFault(i)' = Promise!LateFault(i)
  BY <1>2, <1>5, <1>6 DEF Promise!LateFault
<1>11. Promise!SourceFault' = Promise!SourceFault
  <2>1. PICK early, late : /\ early = {i \in DOMAIN source : Promise!LineFault(i) # 0}
                           /\ late = {i \in DOMAIN source : Promise!LateFault(i) # 0}
    OBVIOUS
  <2>2. /\ early = {i \in DOMAIN source' : Promise!LineFault(i)' # 0}
        /\ late = {i \in DOMAIN source' : Promise!LateFault(i)' # 0}
    BY <1>9, <1>10, <2>1
  <2>3. Promise!SourceFault = IF early # {} THEN Promise!LineFault(Promise!Min(early))
                              ELSE IF late # {} THEN Promise!LateFault(Promise!Min(late))
                              ELSE 0
    BY <2>1 DEF Promise!SourceFault
  <2>4. PICK first, second : first = Promise!Min(early) /\ second = Promise!Min(late)
    OBVIOUS
  <2>5. Promise!SourceFault' = IF early # {} THEN Promise!LineFault(first)'
                               ELSE IF late # {} THEN Promise!LateFault(second)'
                               ELSE 0
    BY <2>2, <2>4 DEF Promise!SourceFault
  <2>6. Promise!LineFault(first)' = Promise!LineFault(first)
    BY <1>9
  <2>7. Promise!LateFault(second)' = Promise!LateFault(second)
    BY <1>10
  <2> QED
    BY <2>3, <2>4, <2>5, <2>6, <2>7
<1>12. \A name : Promise!Address(name)' = Promise!Address(name)
  <2> SUFFICES ASSUME NEW name PROVE Promise!Address(name)' = Promise!Address(name)
    OBVIOUS
  <2>1. PICK definitions : definitions = Promise!Definitions(Promise!End)
    OBVIOUS
  <2>2. definitions = Promise!Definitions(Promise!End)'
    <3>1. PICK end : end = Promise!End
      OBVIOUS
    <3>2. Promise!Definitions(end)' = Promise!Definitions(end)
      BY <1>6
    <3> QED
      BY <1>5, <2>1, <3>1, <3>2
  <2>3. PICK all, line :
          /\ all = {i \in definitions : Promise!Defined(i) = name}
          /\ line = Promise!Min(all)
    OBVIOUS
  <2>4. all = {i \in definitions : Promise!Defined(i)' = name}
    BY <1>2, <2>3
  <2>5. Promise!Address(name) = IF Promise!Kind(line) = "STMT_LABEL_DEF"
                                THEN Promise!CodeAddress(line) ELSE Promise!DataAddress(line)
    BY <2>1, <2>3 DEF Promise!Address
  <2>6. Promise!Address(name)' = IF Promise!Kind(line)' = "STMT_LABEL_DEF"
                                 THEN Promise!CodeAddress(line)' ELSE Promise!DataAddress(line)'
    BY <2>2, <2>3, <2>4 DEF Promise!Address
  <2> QED
    BY <1>2, <1>4, <2>5, <2>6
<1>13. \A ops : Promise!MeantValues(ops)' = Promise!MeantValues(ops)
  BY <1>12 DEF Promise!MeantValues, Promise!Meant
<1>14. \A program, i : Promise!Readable(program, i)' <=> Promise!Readable(program, i)
  BY <1>2, <1>4, <1>13 DEF Promise!Readable, Promise!ReadableAs
<1>15. \A answer : Promise!IsProgram(answer)' <=> Promise!IsProgram(answer)
  <2> SUFFICES ASSUME NEW answer PROVE Promise!IsProgram(answer)' <=> Promise!IsProgram(answer)
    OBVIOUS
  <2>1. PICK end : end = Promise!End
    OBVIOUS
  <2>2. /\ Promise!DataAddress(end)' = Promise!DataAddress(end)
        /\ Promise!CodeAddress(end)' = Promise!CodeAddress(end)
        /\ Promise!Before(end, {"STMT_INSTRUCTION"})' = Promise!Before(end, {"STMT_INSTRUCTION"})
    BY <1>1, <1>4
  <2>3. Promise!End' = end
    BY <1>5, <2>1
  <2>4. \A i : Promise!Readable(answer.code, i)' <=> Promise!Readable(answer.code, i)
    BY <1>14
  <2> QED
    BY <2>1, <2>2, <2>3, <2>4 DEF Promise!IsProgram
<1>16. \A answer : Promise!Promised(answer)' <=> Promise!Promised(answer)
  BY <1>11, <1>15 DEF Promise!Promised, ExitsOfFaults
<1> QED
  BY <1>1, <1>4, <1>5, <1>11, <1>14, <1>16

-----------------------------------------------------------------------------
(* The program in the memory of the processor.                             *)

\* What the bytes of a program give the processor, with and without a HALT of
\* the file's own after them.
ProgramLoads ==
  Success =>
    /\ Len(code) = Promise!CodeAddress(Promise!End) /\ Len(code) <= CdsgBytes
    /\ \A loaded \in {code, Append(code, 0)} :
         \A i \in Promise!Before(Promise!End, {"STMT_INSTRUCTION"}) : Promise!Readable(loaded, i)

\* A run succeeds in one step: when pass 2 meets the end of the source.
LEMMA SuccessIsTheEnd ==
  ASSUME Next, Success'
  PROVE  EndPass2 \/ Returned
<1>1. ASSUME \E e : Return(e)
      PROVE  FALSE
  BY <1>1 DEF Return, Success
<1>2. ASSUME NextLine, phase # "done"
      PROVE  FALSE
  BY <1>2 DEF NextLine, Success
<1>3. CASE Files
  BY <1>1, <1>3 DEF Files, OpenSource, CannotOpenSource, EndPass1, Success
<1>4. CASE BothPasses
  BY <1>1, <1>2, <1>4 DEF BothPasses, NoTokens, NoStatement, passes_kma, passes_code_section,
                          passes_data_section, passes_none, Proceed, InPass, AtLine
<1>5. CASE Pass1
  BY <1>1, <1>2, <1>5 DEF Pass1, pass1_data_decl, pass1_instruction, pass1_label_def,
                          Proceed, Define, AtLine
<1>6. CASE Pass2
  BY <1>1, <1>2, <1>6 DEF Pass2, pass2_data_decl, pass2_instruction, pass2_label_def, AtLine
<1> QED
  BY <1>3, <1>4, <1>5, <1>6 DEF Next

\* Bytes in the code are where they were after one more byte.
LEMMA OneMoreByte ==
  ASSUME NEW buffer \in Seq(Nat), NEW at \in Nat, NEW bytes \in Seq(Nat),
         at + Len(bytes) <= Len(buffer), HoldsAt(buffer, at, bytes)
  PROVE  HoldsAt(Append(buffer, 0), at, bytes)
<1> SUFFICES ASSUME NEW k \in DOMAIN bytes
             PROVE  Append(buffer, 0)[at + k] = bytes[k]
  BY DEF HoldsAt
<1>1. at + k \in 1..Len(buffer)
  OBVIOUS
<1>2. Append(buffer, 0)[at + k] = buffer[at + k]
  BY <1>1
<1> QED
  BY <1>2 DEF HoldsAt

\* At the end of pass 2 all instructions are in the code.
LEMMA EndLoads ==
  ASSUME TypeOK, IInv, RInv, AllRead, EndPass2, nl \notin DOMAIN source
  PROVE  /\ Len(code) = Promise!CodeAddress(Promise!End) /\ Len(code) <= CdsgBytes
         /\ \A loaded \in {code, Append(code, 0)} :
              \A i \in Promise!Before(Promise!End, {"STMT_INSTRUCTION"}) :
                Promise!Readable(loaded, i)
<1>1. phase = "pass2" /\ nl \notin DOMAIN source
  BY DEF EndPass2
<1>2. /\ Len(layout) = Len(source) + 1 /\ nl \in DOMAIN layout /\ nl = Promise!End
      /\ nl - 1 = Len(source)
  BY <1>1, Pass2Knows, SourceLines, PlacesAreNumbers DEF Promise!End
<1>3. Len(code) = Promise!CodeAddress(Promise!End)
  BY <1>1, <1>2, AddressesArePlaces DEF IInv, PassesStand, StandsAt, RInv, LinesWritten
<1>4. Len(code) <= CdsgBytes
  BY <1>1, <1>2 DEF IInv, PassesStand, StandsAt, LayoutIsRunningSum, RInv, LinesWritten
<1>5. ASSUME NEW i \in Promise!Before(Promise!End, {"STMT_INSTRUCTION"})
      PROVE  Promise!Readable(code, i) /\ Promise!Readable(Append(code, 0), i)
  <2>1. i \in LinesRead /\ i \in 1..(nl - 1) /\ source[i].kind = "STMT_INSTRUCTION"
    BY <1>2, SourceLines DEF Promise!Before, Promise!Kind, Promise!End, LinesRead
  <2>2. ~Unresolved(source[i].ops) /\ Written(i)
    BY <1>1, <1>2, <2>1 DEF RInv, LinesWritten
  <2>3. HoldsAt(code, layout[i].code, BytesOf(i))
    BY <2>2 DEF Written, HoldsAt
  <2>4. HoldsAt(Append(code, 0), layout[i].code, BytesOf(i))
    <3>1. code \in Seq(Nat) /\ layout[i].code \in Nat /\ BytesOf(i) \in Seq(Nat)
      <4>1. source[i] \in Lines /\ i \in DOMAIN layout /\ layout[i].code \in Nat
        BY <2>1, SourceLines, PlacesAreNumbers DEF IInv, LayoutIsRunningSum, LinesRead
      <4> QED
        BY <2>1, <2>2, <4>1, InstructionBytes DEF TypeOK, SymtabOK, BytesOf
    <3> QED
      BY <2>2, <2>3, <3>1, OneMoreByte DEF Written
  <2> QED
    BY <1>2, <2>1, <2>2, <2>3, <2>4, InstructionReadable
<1> QED
  BY <1>3, <1>4, <1>5

\* and they stay there.
LEMMA ProgramsLoad ==
  ASSUME "read" \notin Faults
  PROVE  Spec => []ProgramLoads
<1>1. Init => ProgramLoads
  BY DEF Init, ProgramLoads, Success
<1>2. TypeOK /\ IInv /\ RInv /\ ProgramLoads /\ [Next]_vars => ProgramLoads'
  <2> SUFFICES ASSUME TypeOK, IInv, RInv, ProgramLoads, [Next]_vars, Success'
               PROVE  ProgramLoads'
    BY DEF ProgramLoads
  <2>1. EndPass2 \/ Returned \/ UNCHANGED vars
    BY SuccessIsTheEnd
  <2>2. code' = code /\ source' = source
    BY <2>1 DEF EndPass2, Returned, vars, segments
  <2>3. /\ Len(code) = Promise!CodeAddress(Promise!End) /\ Len(code) <= CdsgBytes
        /\ \A loaded \in {code, Append(code, 0)} :
             \A i \in Promise!Before(Promise!End, {"STMT_INSTRUCTION"}) :
               Promise!Readable(loaded, i)
    <3>1. CASE EndPass2
      BY <3>1, EndLoads, NothingUnread DEF EndPass2, EndOfFile
    <3>2. CASE Returned \/ UNCHANGED vars
      <4>1. Success
        BY <3>2 DEF Returned, vars, Success
      <4> QED
        BY <4>1 DEF ProgramLoads
    <3> QED
      BY <2>1, <3>1, <3>2
  <2>4. PICK end : end = Promise!End
    OBVIOUS
  <2>5. /\ Promise!End' = end
        /\ Promise!CodeAddress(end)' = Promise!CodeAddress(end)
        /\ Promise!Before(end, {"STMT_INSTRUCTION"})' = Promise!Before(end, {"STMT_INSTRUCTION"})
        /\ \A loaded, i : Promise!Readable(loaded, i)' <=> Promise!Readable(loaded, i)
    BY <2>2, <2>4, SamePromise
  <2>6. PICK bytes : bytes = code
    OBVIOUS
  <2>7. bytes = code'
    BY <2>2, <2>6
  <2> QED
    BY <2>3, <2>4, <2>5, <2>6, <2>7 DEF ProgramLoads
<1> QED
  BY <1>1, <1>2, TypeCorrect, InvariantHolds, RefinementInvariant, PTL DEF Spec
=============================================================================
