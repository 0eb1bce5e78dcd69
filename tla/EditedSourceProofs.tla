------------------------- MODULE EditedSourceProofs -------------------------
(***************************************************************************)
(* Theorems about a source that may be saved between the passes, for every *)
(* text and every set of failures.                                         *)
(***************************************************************************)
EXTENDS EditedSource, AssemblerProofs

-----------------------------------------------------------------------------
(* What the appends of pass 2 rest on: the passes begin with a segment     *)
(* without bytes, and nothing is written before pass 2.                    *)

TextsOK == text \in Programs /\ source \in {text} \cup Edits(text)

BufferTypes == SymtabOK /\ dtsg \in Segments /\ cdsg \in Segments /\ code \in Seq(Nat)

NothingWritten ==
  /\ phase \in {"open1", "pass1", "open2"} => code = << >>
  /\ phase = "open2" => cdsg.size = 0 /\ dtsg.size = 0

BufferInv == TextsOK /\ BufferTypes /\ NothingWritten /\ AppendsStayInBuffer

\* A step of the passes leaves the source alone.
LEMMA SourceUntouched ==
  ASSUME Next
  PROVE  source' = source
BY DEF Next, Files, OpenSource, CannotOpenSource, EndPass1, EndPass2, BothPasses, NoTokens,
       NoStatement, passes_kma, passes_code_section, passes_data_section, passes_none, Pass1,
       pass1_data_decl, pass1_instruction, pass1_label_def, Pass2, pass2_data_decl,
       pass2_instruction, pass2_label_def, Returned, vars, Define, Proceed, NextLine, Return

\* The line a pass reads is one of Lines, whichever text it reads.
LEMMA EditedLineIsLine ==
  ASSUME TextsOK, nl \in DOMAIN source
  PROVE  Line \in Lines
<1>1. source \in Seq(Lines)
  BY AssemblerAssumption, EditsAreTexts DEF TextsOK
<1> QED
  BY <1>1 DEF Line

\* An append that fits leaves the bytes of a segment inside what is allocated.
LEMMA AppendedInBuffer ==
  ASSUME NEW seg \in Segments, NEW n \in Nat, Fits(seg, n), seg.size <= seg.capacity
  PROVE  Appended(seg, n).size <= Appended(seg, n).capacity
<1>1. seg.size + n \in 0..SizeMax /\ seg.size \in Nat /\ seg.capacity \in 0..SizeMax
  BY SegmentAssumption DEF Fits, Segments
<1>2. Grown(seg.capacity, seg.size + n) >= seg.size + n
  BY <1>1, GrownCapacity
<1>3. CASE MustGrow(seg, n)
  BY <1>2, <1>3 DEF Appended
<1>4. CASE ~MustGrow(seg, n)
  <2>1. n = 0 \/ ~(seg.size + n > seg.capacity)
    BY <1>4 DEF MustGrow
  <2>2. seg.size + n <= seg.capacity
    BY <2>1, <1>1, SegmentAssumption
  <2> QED
    BY <2>2, <1>4 DEF Appended
<1> QED
  BY <1>3, <1>4

\* A buffer ends where the last copy ended.
LEMMA OverwrittenLength ==
  ASSUME NEW buffer \in Seq(Nat), NEW at \in Nat, NEW bytes \in Seq(Nat)
  PROVE  Len(Overwrite(buffer, at, bytes)) = at + Len(bytes)
<1>1. at + Len(bytes) \in Nat
  OBVIOUS
<1>2. Overwrite(buffer, at, bytes) \in Seq(Nat)
  BY Overwritten
<1>3. DOMAIN Overwrite(buffer, at, bytes) = 1..(at + Len(bytes))
  BY DEF Overwrite
<1> QED
  BY <1>1, <1>2, <1>3

\* A definition keeps the table a function from names to addresses.
LEMMA DefinedSymbol ==
  ASSUME SymtabOK, NEW name \in Names, NEW address \in 0..SizeMax, Define(name, address)
  PROVE  SymtabOK'
BY DEF Define, symtab_add, SymtabOK

\* Every step of the passes keeps the types, whichever text they read.
LEMMA BufferTypesKept ==
  ASSUME TextsOK, BufferTypes, Next
  PROVE  BufferTypes'
<1>1. CASE UNCHANGED <<symtab, segments>>
  BY <1>1 DEF BufferTypes, SymtabOK, segments
<1>2. CASE EndPass1
  BY <1>2, BegunSegment DEF EndPass1, BufferTypes, SymtabOK
<1>3. CASE pass1_data_decl
  <2>1. Line.identifier \in Names /\ TotalSize(Line) \in Nat
    BY <1>3, EditedLineIsLine, DeclLine, SegmentAssumption DEF pass1_data_decl, AtLine
  <2>2. dtsg' \in Segments /\ UNCHANGED <<cdsg, code>>
    BY <1>3, <2>1, AdvancedSegment DEF pass1_data_decl, BufferTypes
  <2>3. SymtabOK'
    BY <1>3, <2>1, PositionIsAddress, DefinedSymbol DEF pass1_data_decl, BufferTypes, SymtabOK
  <2> QED
    BY <2>2, <2>3 DEF BufferTypes
<1>4. CASE pass1_instruction
  <2>1. instruction_get_encoded_size(Line.desc) \in Nat
    BY <1>4, EditedLineIsLine, InstructionLine, EncodedSize
    DEF pass1_instruction, AtLine, MaxEncodedSize
  <2> QED
    BY <1>4, <2>1, AdvancedSegment DEF pass1_instruction, BufferTypes, SymtabOK
<1>5. CASE pass1_label_def
  <2>1. Line.label \in Names
    BY <1>5, EditedLineIsLine, LabelLine DEF pass1_label_def, AtLine
  <2>2. SymtabOK'
    BY <1>5, <2>1, PositionIsAddress, DefinedSymbol DEF pass1_label_def, BufferTypes, SymtabOK
  <2> QED
    BY <1>5, <2>2 DEF pass1_label_def, segments, BufferTypes
<1>6. CASE pass2_data_decl
  <2>1. Line.bytes \in Nat
    BY <1>6, EditedLineIsLine, DeclLine DEF pass2_data_decl, AtLine
  <2> QED
    BY <1>6, <2>1, AppendedSegment DEF pass2_data_decl, BufferTypes, SymtabOK
<1>7. CASE pass2_instruction
  <2> DEFINE bytes == Encode(Line.desc, Line.ops, FinalValues(Line.desc, Line.ops, cdsg.size))
  <2>1. UNCHANGED <<symtab, dtsg>>
    BY <1>7 DEF pass2_instruction
  <2>2. CASE /\ ~Unresolved(Line.ops) /\ Fits(cdsg, Len(bytes))
             /\ cdsg' = Appended(cdsg, Len(bytes)) /\ code' = Overwrite(code, cdsg.size, bytes)
    <3>1. cdsg.size \in Nat
      BY SegmentAssumption DEF BufferTypes, Segments
    <3>2. bytes \in Seq(Nat)
      BY <1>7, <2>2, <3>1, EditedLineIsLine, InstructionBytes
      DEF pass2_instruction, AtLine, BufferTypes
    <3> HIDE DEF bytes
    <3> QED
      BY <2>1, <2>2, <3>2, <3>1, AppendedSegment, Overwritten DEF BufferTypes, SymtabOK
  <2>3. CASE UNCHANGED <<cdsg, code>>
    BY <2>1, <2>3 DEF BufferTypes, SymtabOK
  <2> QED
    BY <1>7, <2>2, <2>3 DEF pass2_instruction
<1> QED
  BY <1>1, <1>2, <1>3, <1>4, <1>5, <1>6, <1>7
  DEF Next, Files, OpenSource, CannotOpenSource, EndPass2, BothPasses, NoTokens, NoStatement,
      passes_kma, passes_code_section, passes_data_section, passes_none, Pass1, Pass2,
      pass2_label_def, Returned, vars, segments

\* Every step of the passes keeps what is written inside what is allocated.
LEMMA BuffersKept ==
  ASSUME BufferInv, Next
  PROVE  NothingWritten' /\ AppendsStayInBuffer'
<1>1. CASE phase' = "done"
  BY <1>1 DEF NothingWritten, AppendsStayInBuffer
<1>2. CASE OpenSource
  <2>1. cdsg.capacity \in Nat /\ dtsg.capacity \in Nat
    BY SegmentAssumption DEF BufferInv, BufferTypes, Segments
  <2>2. /\ phase' \in {"pass1", "pass2"} /\ code' = << >> /\ UNCHANGED <<cdsg, dtsg>>
        /\ phase' = "pass2" => cdsg.size = 0 /\ dtsg.size = 0
    BY <1>2 DEF OpenSource, segments, BufferInv, NothingWritten
  <2> QED
    BY <2>1, <2>2 DEF NothingWritten, AppendsStayInBuffer
<1>3. CASE EndPass1
  BY <1>3, BegunSegment DEF EndPass1, BufferInv, BufferTypes, NothingWritten, AppendsStayInBuffer
<1>4. CASE UNCHANGED <<phase, segments>>
  BY <1>4 DEF segments, BufferInv, NothingWritten, AppendsStayInBuffer
<1>5. CASE Pass1 /\ phase' # "done"
  <2>1. phase = "pass1" /\ phase' = phase /\ code' = code
    BY <1>5 DEF Pass1, pass1_data_decl, pass1_instruction, pass1_label_def, AtLine, segments,
                Define, Proceed, NextLine, Return
  <2> QED
    BY <2>1 DEF BufferInv, NothingWritten, AppendsStayInBuffer
<1>6. CASE pass2_data_decl /\ phase' # "done"
  <2>1. phase = "pass2" /\ phase' = phase /\ UNCHANGED <<cdsg, code>>
    BY <1>6 DEF pass2_data_decl, AtLine, NextLine, Return
  <2>2. Line.bytes \in Nat /\ Fits(dtsg, Line.bytes) /\ dtsg' = Appended(dtsg, Line.bytes)
    BY <1>6, EditedLineIsLine, DeclLine DEF pass2_data_decl, AtLine, Return, BufferInv
  <2>3. dtsg'.size <= dtsg'.capacity
    BY <2>1, <2>2, AppendedInBuffer DEF BufferInv, BufferTypes, AppendsStayInBuffer
  <2> QED
    BY <2>1, <2>3 DEF BufferInv, NothingWritten, AppendsStayInBuffer
<1>7. CASE pass2_instruction /\ phase' # "done"
  <2> DEFINE bytes == Encode(Line.desc, Line.ops, FinalValues(Line.desc, Line.ops, cdsg.size))
  <2>1. phase = "pass2" /\ phase' = phase /\ UNCHANGED dtsg
    BY <1>7 DEF pass2_instruction, AtLine, NextLine, Return
  <2>2. /\ ~Unresolved(Line.ops) /\ Fits(cdsg, Len(bytes))
        /\ cdsg' = Appended(cdsg, Len(bytes)) /\ code' = Overwrite(code, cdsg.size, bytes)
    BY <1>7 DEF pass2_instruction, Return
  <2>3. cdsg.size <= cdsg.capacity /\ cdsg.size \in Nat /\ cdsg \in Segments /\ code \in Seq(Nat)
    BY <2>1, SegmentAssumption DEF BufferInv, BufferTypes, Segments, AppendsStayInBuffer
  <2>4. bytes \in Seq(Nat) /\ Len(bytes) \in Nat
    BY <1>7, <2>2, <2>3, EditedLineIsLine, InstructionBytes
    DEF pass2_instruction, AtLine, BufferInv, BufferTypes
  <2> HIDE DEF bytes
  <2>5. cdsg'.size <= cdsg'.capacity /\ cdsg'.size = cdsg.size + Len(bytes)
    BY <2>2, <2>3, <2>4, AppendedInBuffer, AppendedSegment
  <2>6. Len(code') = cdsg.size + Len(bytes) /\ code' \in Seq(Nat)
    BY <2>2, <2>3, <2>4, OverwrittenLength, Overwritten
  <2> QED
    BY <2>1, <2>5, <2>6 DEF BufferInv, NothingWritten, AppendsStayInBuffer
<1> QED
  BY <1>1, <1>2, <1>3, <1>4, <1>5, <1>6, <1>7
  DEF Next, Files, CannotOpenSource, EndPass2, BothPasses, NoTokens, NoStatement,
      passes_kma, passes_code_section, passes_data_section, passes_none, Pass1, Pass2,
      pass2_label_def, Returned, vars, segments, Proceed, NextLine, Return

\* All of it holds before the first step
LEMMA BufferBegins ==
  ASSUME InitEdited
  PROVE  BufferInv
<1>1. dtsg \in Segments /\ cdsg \in Segments
  BY SegmentAssumption DEF InitEdited, Init, Empty, Segments
<1> QED
  BY <1>1 DEF InitEdited, Init, BufferInv, TextsOK, BufferTypes, SymtabOK, NothingWritten,
              AppendsStayInBuffer

\* and after every step, one of the passes or an edit.
LEMMA BufferKept ==
  ASSUME BufferInv, [Assemble \/ Edit]_editVars
  PROVE  BufferInv'
<1>1. CASE Assemble
  <2>1. Next /\ source' = source /\ text' = text
    BY <1>1, SourceUntouched DEF Assemble
  <2>2. TextsOK'
    BY <2>1 DEF BufferInv, TextsOK
  <2> QED
    BY <2>1, <2>2, BufferTypesKept, BuffersKept DEF BufferInv
<1>2. CASE Edit
  <2>1. /\ source = text /\ source' \in Edits(text) /\ text' = text
        /\ UNCHANGED <<phase, symtab, segments>>
    BY <1>2 DEF Edit
  <2>2. TextsOK'
    BY <2>1 DEF BufferInv, TextsOK
  <2> QED
    BY <2>1, <2>2 DEF BufferInv, BufferTypes, SymtabOK, NothingWritten, AppendsStayInBuffer,
                      segments
<1>3. CASE UNCHANGED editVars
  BY <1>3 DEF editVars, vars, BufferInv, TextsOK, BufferTypes, SymtabOK, NothingWritten,
              AppendsStayInBuffer
<1> QED
  BY <1>1, <1>2, <1>3

-----------------------------------------------------------------------------
(* The first theorem.                                                      *)

\* Whatever is saved under the source's name between the passes, and whichever
\* failure ends a pass early: pass 2 does not write past what is allocated for a
\* segment, and counts for the code segment the bytes it has written.
THEOREM AppendsInBuffer == SpecEdited => []AppendsStayInBuffer
<1>1. InitEdited => BufferInv
  BY BufferBegins
<1>2. BufferInv /\ [Assemble \/ Edit]_editVars => BufferInv'
  BY BufferKept
<1>3. BufferInv => AppendsStayInBuffer
  BY DEF BufferInv
<1> QED
  BY <1>1, <1>2, <1>3, PTL DEF SpecEdited

-----------------------------------------------------------------------------
(* The promise for the text, while the source is the text.                 *)

\* What Assembly says without looking at the source is said once.
LEMMA SameProcessor ==
  /\ \A S : OneText!Min(S) = Promise!Min(S) /\ OneText!Max(S) = Promise!Max(S)
  /\ \A sizes : OneText!Starts(sizes) = Promise!Starts(sizes)
  /\ \A desc : OneText!instruction_get_encoded_size(desc) = instruction_get_encoded_size(desc)
  /\ \A buffer, at : /\ OneText!Fetch(buffer, at) = Promise!Fetch(buffer, at)
                     /\ OneText!TargetOf(buffer, at) = Promise!TargetOf(buffer, at)
  /\ OneText!ConditionalJumps = Promise!ConditionalJumps
  /\ OneText!DwordValues = Promise!DwordValues
<1>1. \A S : OneText!Min(S) = Promise!Min(S) /\ OneText!Max(S) = Promise!Max(S)
  BY DEF OneText!Min, Promise!Min, OneText!Max, Promise!Max
<1>2. \A sizes : OneText!Starts(sizes) = Promise!Starts(sizes)
  BY DEF OneText!Starts, Promise!Starts
<1>3. \A desc : OneText!instruction_get_encoded_size(desc) = instruction_get_encoded_size(desc)
  BY DEF OneText!instruction_get_encoded_size, OneText!OperandSize,
         instruction_get_encoded_size, OperandSize
<1>4. OneText!INSTRUCTION_TABLE = INSTRUCTION_TABLE
  BY DEF INSTRUCTION_TABLE, Plain, OnReg, OnImm, RegImm, RegReg, Row,
         OneText!INSTRUCTION_TABLE, OneText!Plain, OneText!OnReg, OneText!OnImm, OneText!RegImm,
         OneText!RegReg, OneText!Row
<1>5. OneText!DwordValues = Promise!DwordValues /\ OneText!ConditionalJumps = Promise!ConditionalJumps
  BY DEF OneText!DwordValues, Promise!DwordValues, OneText!ConditionalJumps,
         Promise!ConditionalJumps
<1>6. \A opcode : OneText!RowOf(opcode) = Promise!RowOf(opcode)
  BY <1>4, SameTable DEF OneText!RowOf, Promise!RowOf
<1>7. \A buffer, at : OneText!Dword(buffer, at) = Promise!Dword(buffer, at)
  BY <1>5 DEF OneText!Dword, Promise!Dword
<1>8. \A buffer, at, type : OneText!OperandAt(buffer, at, type) = Promise!OperandAt(buffer, at, type)
  BY <1>7 DEF OneText!OperandAt, Promise!OperandAt
<1>9. \A type : OneText!Width(type) = Promise!Width(type)
  BY DEF OneText!Width, Promise!Width
<1>10. \A buffer, at : OneText!Fetch(buffer, at) = Promise!Fetch(buffer, at)
  BY <1>6, <1>8, <1>9 DEF OneText!Fetch, Promise!Fetch
<1>11. \A buffer, at : OneText!TargetOf(buffer, at) = Promise!TargetOf(buffer, at)
  BY <1>5, <1>10 DEF OneText!TargetOf, Promise!TargetOf
<1> QED
  BY <1>1, <1>2, <1>3, <1>5, <1>10, <1>11

\* While the source is the text pass 1 reads, the promise for the text is the
\* promise for the source.
LEMMA SamePromiseForText ==
  ASSUME source = text
  PROVE  /\ \A name : OneText!Address(name) = Promise!Address(name)
         /\ \A answer : OneText!Promised(answer) <=> Promise!Promised(answer)
<1>1. \A i, kinds : OneText!Before(i, kinds) = Promise!Before(i, kinds)
  BY DEF OneText!Before, Promise!Before, OneText!Kind, Promise!Kind
<1>2. \A i : /\ OneText!Kind(i) = Promise!Kind(i) /\ OneText!DeclSize(i) = Promise!DeclSize(i)
             /\ OneText!InstructionSize(i) = Promise!InstructionSize(i)
             /\ OneText!Defined(i) = Promise!Defined(i)
  BY SameProcessor, SameTable
  DEF OneText!Kind, Promise!Kind, OneText!DeclSize, Promise!DeclSize, OneText!InstructionSize,
      Promise!InstructionSize, OneText!Defined, Promise!Defined
<1>3. OneText!DataSizes = Promise!DataSizes /\ OneText!CodeSizes = Promise!CodeSizes
  BY <1>2 DEF OneText!DataSizes, Promise!DataSizes, OneText!CodeSizes, Promise!CodeSizes
<1>4. \A i : /\ OneText!DataAddress(i) = Promise!DataAddress(i)
             /\ OneText!CodeAddress(i) = Promise!CodeAddress(i)
  BY <1>3, SameProcessor
  DEF OneText!DataAddress, Promise!DataAddress, OneText!CodeAddress, Promise!CodeAddress
<1>5. OneText!End = Promise!End /\ OneText!Sections = Promise!Sections
  BY DEF OneText!End, Promise!End, OneText!Sections, Promise!Sections
<1>6. \A i : /\ OneText!Opened(i) <=> Promise!Opened(i)
             /\ OneText!Definitions(i) = Promise!Definitions(i)
             /\ OneText!Refers(i) = Promise!Refers(i)
  BY <1>1 DEF OneText!Opened, Promise!Opened, OneText!Definitions, Promise!Definitions,
              OneText!Refers, Promise!Refers
<1>7. \A i : OneText!DefinesAgain(i) <=> Promise!DefinesAgain(i)
  BY <1>2, <1>6 DEF OneText!DefinesAgain, Promise!DefinesAgain
<1>8. \A i, section : OneText!Within(i, section) <=> Promise!Within(i, section)
  BY <1>1, <1>2, <1>5, SameProcessor DEF OneText!Within, Promise!Within
<1>9. \A i : OneText!LineFault(i) = Promise!LineFault(i)
  BY <1>1, <1>2, <1>4, <1>5, <1>6, <1>7, <1>8
  DEF OneText!LineFault, Promise!LineFault, OneText!Syntax, Promise!Syntax, OneText!CodeFull,
      Promise!CodeFull, OneText!DataFull, Promise!DataFull, OneText!OwnFailure,
      Promise!OwnFailure
<1>10. \A i : OneText!LateFault(i) = Promise!LateFault(i)
  BY <1>2, <1>5, <1>6
  DEF OneText!LateFault, Promise!LateFault, OneText!Unresolved, Promise!Unresolved,
      OneText!DataFull, Promise!DataFull
<1>11. OneText!SourceFault = Promise!SourceFault
  <2>1. PICK early, late : /\ early = {i \in DOMAIN source : Promise!LineFault(i) # 0}
                           /\ late = {i \in DOMAIN source : Promise!LateFault(i) # 0}
    OBVIOUS
  <2>2. /\ early = {i \in DOMAIN text : OneText!LineFault(i) # 0}
        /\ late = {i \in DOMAIN text : OneText!LateFault(i) # 0}
    BY <1>9, <1>10, <2>1
  <2>3. Promise!SourceFault = IF early # {} THEN Promise!LineFault(Promise!Min(early))
                              ELSE IF late # {} THEN Promise!LateFault(Promise!Min(late))
                              ELSE 0
    BY <2>1 DEF Promise!SourceFault
  <2>4. OneText!SourceFault = IF early # {} THEN OneText!LineFault(OneText!Min(early))
                              ELSE IF late # {} THEN OneText!LateFault(OneText!Min(late))
                              ELSE 0
    BY <2>2 DEF OneText!SourceFault
  <2> QED
    BY <1>9, <1>10, <2>3, <2>4, SameProcessor
<1>12. \A name : OneText!Address(name) = Promise!Address(name)
  <2> SUFFICES ASSUME NEW name PROVE OneText!Address(name) = Promise!Address(name)
    OBVIOUS
  <2>1. PICK all, line : /\ all = {i \in Promise!Definitions(Promise!End) : Promise!Defined(i) = name}
                         /\ line = Promise!Min(all)
    OBVIOUS
  <2>2. all = {i \in OneText!Definitions(OneText!End) : OneText!Defined(i) = name}
    BY <1>2, <1>5, <1>6, <2>1
  <2>3. Promise!Address(name) = IF Promise!Kind(line) = "STMT_LABEL_DEF"
                                THEN Promise!CodeAddress(line) ELSE Promise!DataAddress(line)
    BY <2>1 DEF Promise!Address
  <2>4. OneText!Address(name) = IF OneText!Kind(line) = "STMT_LABEL_DEF"
                                THEN OneText!CodeAddress(line) ELSE OneText!DataAddress(line)
    BY <2>1, <2>2, SameProcessor DEF OneText!Address
  <2> QED
    BY <1>2, <1>4, <2>3, <2>4
<1>13. \A ops : OneText!MeantValues(ops) = Promise!MeantValues(ops)
  BY <1>12 DEF OneText!MeantValues, Promise!MeantValues, OneText!Meant, Promise!Meant
<1>14. \A program, i : OneText!Readable(program, i) <=> Promise!Readable(program, i)
  BY <1>2, <1>4, <1>13, SameProcessor
  DEF OneText!Readable, Promise!Readable, OneText!ReadableAs, Promise!ReadableAs
<1>15. \A answer : OneText!IsProgram(answer) <=> Promise!IsProgram(answer)
  BY <1>1, <1>4, <1>5, <1>14 DEF OneText!IsProgram, Promise!IsProgram
<1>16. \A answer : OneText!Promised(answer) <=> Promise!Promised(answer)
  BY <1>11, <1>15 DEF OneText!Promised, Promise!Promised
<1> QED
  BY <1>12, <1>16

\* What the promise for the text sees as the answer of the passes.
AgreedOutcome == IF agree THEN Outcome ELSE [exit |-> -1]

\* While both passes have read the whole of one text, everything holds that holds
\* of a source nobody touches.
WhileAgreed ==
  agree => source = text /\ TypeOK /\ IInv /\ RInv /\ NoErrorYet /\ AllRead

\* How a step of the passes may change where they are.
LEMMA HowPhasesChange ==
  ASSUME Next
  PROVE  \/ EndPass1 \/ EndPass2 \/ OpenSource
         \/ phase' = "done" /\ layout' = layout
         \/ phase \in {"pass1", "pass2"} /\ nl \in DOMAIN source /\ NextLine
BY DEF Next, Files, CannotOpenSource, BothPasses, NoTokens, NoStatement, passes_kma,
       passes_code_section, passes_data_section, passes_none, Pass1, pass1_data_decl,
       pass1_instruction, pass1_label_def, Pass2, pass2_data_decl, pass2_instruction,
       pass2_label_def, Returned, vars, Define, Proceed, Return, InPass, AtLine

\* When pass 1 does not end early, it has read every line.
LEMMA AllReadKept ==
  ASSUME TypeOK, IInv, AllRead, Next, ~EndsEarly
  PROVE  AllRead'
<1>1. source' = source /\ source \in Seq(Lines) /\ Len(source) \in Nat
      /\ DOMAIN source = 1..Len(source)
  BY SourceUntouched, SourceLines
<1>2. nl \in Nat \ {0} /\ Len(layout) \in Nat /\ DOMAIN layout = 1..Len(layout) /\ Len(layout) >= 1
  BY PlacesAreNumbers DEF TypeOK, IInv, LayoutIsRunningSum
<1>3. CASE EndPass1
  <2>1. /\ phase = "pass1" /\ phase' = "open2" /\ layout' = layout /\ nl \notin 1..Len(source)
    BY <1>1, <1>3 DEF EndPass1, EndsEarly
  <2>2. Len(layout) = nl /\ 1..(Len(layout) - 1) \subseteq 1..Len(source)
    BY <1>1, <2>1 DEF IInv, PassesStand, LayoutIsRunningSum, LinesRead
  <2>3. Len(layout) = Len(source) + 1
    BY <1>1, <1>2, <2>1, <2>2
  <2> QED
    BY <1>1, <2>1, <2>3 DEF AllRead
<1>4. CASE EndPass2 \/ phase' = "done"
  BY <1>4 DEF EndPass2, AllRead
<1>5. CASE OpenSource
  <2>1. /\ layout' = layout /\ nl' = 1
        /\ \/ phase = "open1" /\ phase' = "pass1"
           \/ phase = "open2" /\ phase' = "pass2"
    BY <1>5 DEF OpenSource
  <2>2. 1 \in 1..Len(layout)
    BY <1>2
  <2>3. phase = "open2" => Len(layout) = Len(source) + 1
    BY DEF AllRead
  <2> QED
    BY <1>1, <1>2, <2>1, <2>2, <2>3 DEF AllRead
<1>6. CASE phase \in {"pass1", "pass2"} /\ nl \in DOMAIN source /\ NextLine
  <2>1. nl' = nl + 1 /\ phase' = phase /\ (phase = "pass2" => layout' = layout)
    BY <1>6 DEF NextLine
  <2>2. phase = "pass2" => nl + 1 \in DOMAIN layout
    BY <1>1, <1>2, <1>6 DEF AllRead
  <2> QED
    BY <1>1, <1>6, <2>1, <2>2 DEF AllRead
<1> QED
  BY <1>3, <1>4, <1>5, <1>6, HowPhasesChange

\* The passes keep what holds while they agree; an edit ends the agreement.
LEMMA AgreementKept ==
  ASSUME WhileAgreed, [Assemble \/ Edit]_editVars
  PROVE  WhileAgreed'
<1> SUFFICES ASSUME agree'
             PROVE  (source = text /\ TypeOK /\ IInv /\ RInv /\ NoErrorYet /\ AllRead)'
  BY DEF WhileAgreed
<1>1. CASE Assemble
  <2>1. Next /\ agree /\ ~EndsEarly /\ text' = text /\ source' = source
    BY <1>1, SourceUntouched DEF Assemble
  <2>2. TypeOK /\ IInv /\ RInv /\ NoErrorYet /\ AllRead /\ source = text
    BY <2>1 DEF WhileAgreed
  <2>3. TypeOK'
    BY <2>1, <2>2, TypesKept
  <2>4. IInv'
    BY <2>1, <2>2, InvariantKept
  <2>5. RInv'
    BY <2>1, <2>2, <2>3, <2>4, RefinementKept
  <2>6. NoErrorYet' /\ AllRead'
    BY <2>1, <2>2, NoErrorKept, AllReadKept
  <2> QED
    BY <2>1, <2>2, <2>3, <2>4, <2>5, <2>6
<1>2. CASE Edit
  BY <1>2 DEF Edit
<1>3. CASE UNCHANGED editVars
  <2>1. agree /\ UNCHANGED vars /\ text' = text /\ source' = source
    BY <1>3 DEF editVars, vars
  <2>2. TypeOK /\ IInv /\ RInv /\ NoErrorYet /\ AllRead /\ source = text
    BY <2>1 DEF WhileAgreed
  <2>3. TypeOK'
    BY <2>1, <2>2, TypesKept
  <2>4. IInv'
    BY <2>1, <2>2, InvariantKept
  <2>5. RInv'
    BY <2>1, <2>2, <2>3, <2>4, RefinementKept
  <2>6. NoErrorYet' /\ AllRead'
    BY <2>1, <2>2 DEF vars, NoErrorYet, AllRead
  <2> QED
    BY <2>1, <2>2, <2>3, <2>4, <2>5, <2>6
<1> QED
  BY <1>1, <1>2, <1>3

\* A step answers what the text promises, or answers nothing.
LEMMA StepAnswersText ==
  ASSUME WhileAgreed, [Assemble \/ Edit]_editVars
  PROVE  OneText!Answer \/ UNCHANGED <<text, AgreedOutcome>>
<1>1. text' = text
  BY DEF Assemble, Edit, editVars
<1>2. CASE UNCHANGED editVars
  BY <1>2 DEF editVars, vars, AgreedOutcome, Outcome
<1>3. CASE ~agree
  <2>1. ~agree'
    BY <1>3 DEF Assemble, Edit, editVars
  <2> QED
    BY <1>1, <1>3, <2>1 DEF AgreedOutcome
<1>4. CASE agree /\ ~agree' /\ (Assemble \/ Edit)
  <2>1. phase # "done"
    <3>1. CASE Assemble
      <4>1. Next /\ phase' # phase
        BY <1>4, <3>1 DEF Assemble, EndsEarly
      <4> QED
        BY <4>1 DEF Next, Files, OpenSource, CannotOpenSource, EndPass1, EndPass2, BothPasses,
                    NoTokens, NoStatement, passes_kma, passes_code_section,
                    passes_data_section, passes_none, Pass1, pass1_data_decl,
                    pass1_instruction, pass1_label_def, Pass2, pass2_data_decl,
                    pass2_instruction, pass2_label_def, Returned, vars, InPass, AtLine
    <3> QED
      BY <1>4, <3>1 DEF Edit
  <2> QED
    BY <1>1, <1>4, <2>1 DEF AgreedOutcome, Outcome
<1>5. CASE agree /\ agree' /\ (Assemble \/ Edit)
  <2>1. Next /\ ~EndsEarly
    BY <1>5 DEF Assemble, Edit
  <2>2. TypeOK /\ IInv /\ RInv /\ NoErrorYet /\ AllRead /\ source = text
    BY <1>5 DEF WhileAgreed
  <2>3. EndPass2 => nl \notin DOMAIN source
    BY <2>1 DEF EndPass2, EndsEarly
  <2>4. Promise!Answer \/ UNCHANGED <<source, Outcome>>
    BY <2>1, <2>2, <2>3, StepAnswers DEF Kept
  <2>5. AgreedOutcome = Outcome /\ AgreedOutcome' = Outcome'
    BY <1>5 DEF AgreedOutcome
  <2>6. CASE Promise!Answer
    <3>1. PICK answer : answer = Outcome'
      OBVIOUS
    <3>2. Outcome = Promise!NotYet /\ Promise!Promised(answer)
      BY <2>6, <3>1 DEF Promise!Answer
    <3>3. OneText!Promised(answer) /\ Promise!NotYet = OneText!NotYet
      BY <2>2, <3>2, SamePromiseForText DEF Promise!NotYet, OneText!NotYet
    <3> QED
      BY <1>1, <1>5, <3>1, <3>2, <3>3 DEF OneText!Answer
  <2> QED
    BY <1>1, <2>4, <2>5, <2>6
<1> QED
  BY <1>2, <1>3, <1>4, <1>5

\* Whatever fails, reading a line included, and whatever is saved between the
\* passes: a run whose passes have both read the whole of one text answers with
\* the exit code of its first fault or with its program, or its exit code stands
\* for a failure that may have happened.
THEOREM PassesKeepPromiseForOneText == SpecEdited => KeepsPromiseForOneText
<1>1. InitEdited => OneText!Init /\ WhileAgreed
  <2> SUFFICES ASSUME InitEdited PROVE OneText!Init /\ WhileAgreed
    OBVIOUS
  <2>1. Init /\ text = source /\ agree = TRUE /\ source \in Programs /\ phase = "open1"
        /\ err = "ASM_NO_ERROR"
    BY DEF InitEdited, Init
  <2>2. OneText!Init
    BY <2>1 DEF OneText!Init, OneText!NotYet, Outcome
  <2>3. NoErrorYet /\ AllRead
    BY <2>1 DEF NoErrorYet, AllRead
  <2> QED
    BY <2>1, <2>2, <2>3, TypesBegin, InvariantBegins, RefinementBegins DEF WhileAgreed
<1>2. WhileAgreed /\ [Assemble \/ Edit]_editVars => WhileAgreed'
  BY AgreementKept
<1>3. WhileAgreed /\ [Assemble \/ Edit]_editVars
        => [OneText!Answer]_<<text, IF agree THEN Outcome ELSE [exit |-> -1]>>
  BY StepAnswersText DEF AgreedOutcome
<1> QED
  BY <1>1, <1>2, <1>3, PTL DEF SpecEdited, KeepsPromiseForOneText, OneText!Spec

-----------------------------------------------------------------------------
(* A program whose passes have read different lines.                       *)

\* The symbols of the text pass 1 has read, each at its first definition.
SymbolsOfText ==
  \A name \in DOMAIN symtab :
    symtab[name] = OneText!Address(name) /\ symtab[name] \in Int32Min..Int32Max

\* What pass 2 makes of the instruction of line i of the text it reads.
SecondBytes(i) ==
  LET line == source[i]
  IN  Encode(line.desc, line.ops, FinalValues(line.desc, line.ops, Promise!CodeAddress(i)))

\* Its bytes are in the code, at the place the sizes of the lines before give it.
Placed(i) ==
  /\ Promise!CodeAddress(i) \in Nat /\ SecondBytes(i) \in Seq(Nat)
  /\ Promise!CodeAddress(i) + Len(SecondBytes(i)) <= Len(code)
  /\ HoldsAt(code, Promise!CodeAddress(i), SecondBytes(i))

\* Pass 2 stands where the lines it has read end.
SecondStands ==
  /\ nl \in 1..(Len(source) + 1)
  /\ dtsg.size = Promise!DataAddress(nl)
  /\ cdsg.size = Promise!CodeAddress(nl) /\ Len(code) = cdsg.size
  /\ \A i \in Instructions : ~Unresolved(source[i].ops) /\ Placed(i)

\* Until someone edits it, the source is the text and pass 1 works on it as on any
\* source; from then on the table is that of the text and the code that of the
\* source.
SecondInv ==
  /\ phase \in {"open1", "pass1"} => source = text /\ TypeOK /\ IInv /\ RInv
  /\ phase \in {"open2", "pass2"} \/ Success => SymbolsOfText
  /\ phase = "pass2" \/ Success => SecondStands

\* The text says the same of its symbols as long as it stays.
LEMMA SameAddresses ==
  ASSUME text' = text
  PROVE  \A name : OneText!Address(name)' = OneText!Address(name)
<1>1. \A i, kinds : OneText!Before(i, kinds)' = OneText!Before(i, kinds)
  BY DEF OneText!Before, OneText!Kind
<1>2. \A i : /\ OneText!Kind(i)' = OneText!Kind(i) /\ OneText!DeclSize(i)' = OneText!DeclSize(i)
             /\ OneText!InstructionSize(i)' = OneText!InstructionSize(i)
             /\ OneText!Defined(i)' = OneText!Defined(i)
  BY DEF OneText!Kind, OneText!DeclSize, OneText!InstructionSize, OneText!Defined
<1>3. OneText!DataSizes' = OneText!DataSizes /\ OneText!CodeSizes' = OneText!CodeSizes
  BY <1>2 DEF OneText!DataSizes, OneText!CodeSizes
<1>4. \A i : /\ OneText!DataAddress(i)' = OneText!DataAddress(i)
             /\ OneText!CodeAddress(i)' = OneText!CodeAddress(i)
  BY <1>3 DEF OneText!DataAddress, OneText!CodeAddress
<1> SUFFICES ASSUME NEW name PROVE OneText!Address(name)' = OneText!Address(name)
  OBVIOUS
<1>5. PICK end : end = OneText!End
  OBVIOUS
<1>6. OneText!End' = end
  BY <1>5 DEF OneText!End
<1>7. PICK all, line : /\ all = {i \in OneText!Definitions(end) : OneText!Defined(i) = name}
                       /\ line = OneText!Min(all)
  OBVIOUS
<1>8. all = {i \in OneText!Definitions(end)' : OneText!Defined(i)' = name}
  <2>1. OneText!Definitions(end)' = OneText!Definitions(end)
    BY <1>1 DEF OneText!Definitions
  <2> QED
    BY <1>2, <1>7, <2>1
<1>9. OneText!Address(name) = IF OneText!Kind(line) = "STMT_LABEL_DEF"
                              THEN OneText!CodeAddress(line) ELSE OneText!DataAddress(line)
  BY <1>5, <1>7 DEF OneText!Address
<1>10. OneText!Address(name)' = IF OneText!Kind(line)' = "STMT_LABEL_DEF"
                                THEN OneText!CodeAddress(line)' ELSE OneText!DataAddress(line)'
  BY <1>6, <1>7, <1>8 DEF OneText!Address
<1> QED
  BY <1>2, <1>4, <1>9, <1>10

\* So the table stays that of the text.
LEMMA SymbolsOfTextStay ==
  ASSUME SymbolsOfText, text' = text, symtab' = symtab
  PROVE  SymbolsOfText'
BY SameAddresses DEF SymbolsOfText

\* What pass 2 makes of a line stays, as long as the text and the table do.
LEMMA SameSecondBytes ==
  ASSUME source' = source, symtab' = symtab
  PROVE  /\ \A i : Promise!CodeAddress(i)' = Promise!CodeAddress(i)
         /\ \A i : Promise!DataAddress(i)' = Promise!DataAddress(i)
         /\ \A i : SecondBytes(i)' = SecondBytes(i)
         /\ \A ops : Unresolved(ops)' <=> Unresolved(ops)
<1>1. \A i : /\ Promise!CodeAddress(i)' = Promise!CodeAddress(i)
             /\ Promise!DataAddress(i)' = Promise!DataAddress(i)
  BY SamePromise
<1>2. \A ops : Unresolved(ops)' <=> Unresolved(ops)
  BY DEF Unresolved
<1>3. \A op : OperandValue(op)' = OperandValue(op)
  BY DEF OperandValue
<1>4. \A i : SecondBytes(i)' = SecondBytes(i)
  BY <1>1, <1>3 DEF SecondBytes, FinalValues
<1> QED
  BY <1>1, <1>2, <1>4

\* An instruction in the code stays there when others are appended.
LEMMA PlacedStays ==
  ASSUME source' = source, symtab' = symtab, NEW i, Placed(i), code \in Seq(Nat),
         Len(code') \in Nat, Len(code') >= Len(code), \A k \in 1..Len(code) : code'[k] = code[k]
  PROVE  Placed(i)'
<1>1. PICK at, bytes : at = Promise!CodeAddress(i) /\ bytes = SecondBytes(i)
  OBVIOUS
<1>2. at = Promise!CodeAddress(i)' /\ bytes = SecondBytes(i)'
  BY <1>1, SameSecondBytes
<1>3. /\ at \in Nat /\ bytes \in Seq(Nat) /\ at + Len(bytes) <= Len(code)
      /\ \A k \in DOMAIN bytes : code[at + k] = bytes[k]
  BY <1>1 DEF Placed, HoldsAt
<1>4. ASSUME NEW k \in DOMAIN bytes
      PROVE  code'[at + k] = bytes[k]
  <2>1. at + k \in 1..Len(code)
    BY <1>3
  <2> QED
    BY <1>3, <2>1
<1>5. at + Len(bytes) <= Len(code')
  BY <1>3
<1> QED
  BY <1>2, <1>3, <1>4, <1>5 DEF Placed, HoldsAt

\* Both texts are sequences of lines.
LEMMA LinesOfText ==
  ASSUME TextsOK
  PROVE  source \in Seq(Lines) /\ Len(source) \in Nat /\ DOMAIN source = 1..Len(source)
<1>1. source \in Seq(Lines)
  BY AssemblerAssumption, EditsAreTexts DEF TextsOK
<1> QED
  BY <1>1

\* Bytes appended at the end of the code leave it as it was, and are in it.
LEMMA AppendedBytes ==
  ASSUME NEW buffer \in Seq(Nat), NEW bytes \in Seq(Nat), NEW at, at = Len(buffer),
         NEW after, after = Overwrite(buffer, at, bytes)
  PROVE  /\ after \in Seq(Nat) /\ Len(after) = at + Len(bytes)
         /\ \A k \in 1..Len(buffer) : after[k] = buffer[k]
         /\ HoldsAt(after, at, bytes)
<1>1. at \in Nat /\ Len(bytes) \in Nat /\ DOMAIN bytes = 1..Len(bytes)
  OBVIOUS
<1>2. after \in Seq(Nat) /\ Len(after) = at + Len(bytes)
  BY <1>1, Overwritten, OverwrittenLength
<1>3. \A k \in 1..(at + Len(bytes)) :
        after[k] = IF k > at THEN bytes[k - at] ELSE IF k <= Len(buffer) THEN buffer[k] ELSE 0
  BY DEF Overwrite
<1>4. ASSUME NEW k \in 1..Len(buffer)
      PROVE  after[k] = buffer[k]
  <2>1. k \in 1..(at + Len(bytes)) /\ ~(k > at) /\ k <= Len(buffer)
    BY <1>1
  <2> QED
    BY <1>3, <2>1
<1>5. ASSUME NEW k \in DOMAIN bytes
      PROVE  after[at + k] = bytes[k]
  <2>1. at + k \in 1..(at + Len(bytes)) /\ at + k > at /\ (at + k) - at = k
    BY <1>1
  <2> QED
    BY <1>3, <2>1
<1> QED
  BY <1>2, <1>4, <1>5 DEF HoldsAt

\* Where pass 2 reads a line of its text.
LEMMA SecondLineStands ==
  ASSUME TextsOK, BufferTypes, SecondStands, nl \in DOMAIN source
  PROVE  /\ nl \in Nat \ {0} /\ Line \in Lines /\ nl + 1 \in 1..(Len(source) + 1)
         /\ cdsg.size \in Nat /\ dtsg.size \in Nat /\ code \in Seq(Nat)
         /\ Promise!CodeAddress(nl + 1) = cdsg.size + CodeSize(Line)
         /\ Promise!DataAddress(nl + 1) = dtsg.size + DataSize(Line)
<1>1. /\ source \in Seq(Lines) /\ Len(source) \in Nat /\ DOMAIN source = 1..Len(source)
      /\ Line \in Lines
  BY LinesOfText, EditedLineIsLine
<1>2. cdsg.size \in Nat /\ dtsg.size \in Nat /\ code \in Seq(Nat)
  BY SegmentAssumption DEF BufferTypes, Segments
<1>3. /\ Promise!CodeAddress(nl + 1) = Promise!CodeAddress(nl) + CodeSize(Line)
      /\ Promise!DataAddress(nl + 1) = Promise!DataAddress(nl) + DataSize(Line)
  BY <1>1, AddressSteps DEF Line
<1> QED
  BY <1>1, <1>2, <1>3 DEF SecondStands

\* The instruction pass 2 appends is placed, and moves none of those before it.
LEMMA InstructionPlaced ==
  ASSUME TextsOK, BufferTypes, SecondStands, nl \in DOMAIN source,
         Line.kind = "STMT_INSTRUCTION", ~Unresolved(Line.ops),
         source' = source, symtab' = symtab,
         code' = Overwrite(code, cdsg.size,
                           Encode(Line.desc, Line.ops, FinalValues(Line.desc, Line.ops, cdsg.size))),
         NEW n, n = nl
  PROVE  /\ Len(code') = cdsg.size + CodeSize(Line) /\ code' \in Seq(Nat)
         /\ \A k \in 1..Len(code) : code'[k] = code[k]
         /\ Placed(n)'
<1>1. PICK at, bytes : at = cdsg.size /\ bytes = SecondBytes(n)
  OBVIOUS
<1>2. /\ at = Promise!CodeAddress(nl) /\ at = Len(code) /\ at \in Nat /\ code \in Seq(Nat)
      /\ Line \in Lines
  BY <1>1, SecondLineStands DEF SecondStands
<1>3. bytes = Encode(Line.desc, Line.ops, FinalValues(Line.desc, Line.ops, at))
  BY <1>1, <1>2 DEF SecondBytes, Line
<1>4. bytes \in Seq(Nat) /\ Len(bytes) = CodeSize(Line)
  BY <1>2, <1>3, InstructionBytes DEF CodeSize, BufferTypes
<1>5. code' = Overwrite(code, at, bytes)
  BY <1>1, <1>3
<1>6. /\ code' \in Seq(Nat) /\ Len(code') = at + Len(bytes)
      /\ \A k \in 1..Len(code) : code'[k] = code[k]
      /\ HoldsAt(code', at, bytes)
  <2>1. PICK buffer, after : buffer = code /\ after = code'
    OBVIOUS
  <2> QED
    BY <1>2, <1>4, <1>5, <2>1, AppendedBytes
<1>7. at = Promise!CodeAddress(n)' /\ bytes = SecondBytes(n)'
  BY <1>1, <1>2, SameSecondBytes
<1> QED
  BY <1>1, <1>2, <1>4, <1>6, <1>7 DEF Placed, HoldsAt

\* The next line in pass 2: what the lines before it have left stays.
LEMMA SecondLine ==
  ASSUME TextsOK, BufferTypes, SecondStands, nl \in DOMAIN source,
         source' = source, symtab' = symtab, nl' = nl + 1,
         dtsg'.size = dtsg.size + DataSize(Line), cdsg'.size = cdsg.size + CodeSize(Line),
         Len(code') = cdsg'.size, Len(code') \in Nat, Len(code') >= Len(code),
         \A k \in 1..Len(code) : code'[k] = code[k],
         NEW n, n = nl,
         Line.kind = "STMT_INSTRUCTION" => ~Unresolved(Line.ops) /\ Placed(n)'
  PROVE  SecondStands'
<1>1. /\ n \in Nat \ {0} /\ n + 1 \in 1..(Len(source) + 1)
      /\ Promise!CodeAddress(n + 1) = cdsg.size + CodeSize(Line)
      /\ Promise!DataAddress(n + 1) = dtsg.size + DataSize(Line)
      /\ code \in Seq(Nat)
  BY SecondLineStands
<1>2. nl' = n + 1 /\ source' = source
  OBVIOUS
<1>3. PICK next : next = n + 1
  OBVIOUS
<1>4. /\ Promise!CodeAddress(next)' = Promise!CodeAddress(next)
      /\ Promise!DataAddress(next)' = Promise!DataAddress(next)
  BY SameSecondBytes
<1>5. nl' = next /\ Promise!CodeAddress(nl)' = Promise!CodeAddress(next)'
      /\ Promise!DataAddress(nl)' = Promise!DataAddress(next)'
  BY <1>2, <1>3 DEF Promise!CodeAddress, Promise!DataAddress
<1>6. ASSUME NEW i \in Instructions'
      PROVE  ~Unresolved(source[i].ops)' /\ Placed(i)'
  <2>1. i \in 1..n /\ source[i].kind = "STMT_INSTRUCTION"
    <3>1. i \in 1..((n + 1) - 1) /\ source[i].kind = "STMT_INSTRUCTION"
      BY <1>2 DEF Instructions
    <3> QED
      BY <1>1, <3>1
  <2>2. PICK ops : ops = source[i].ops
    OBVIOUS
  <2>3. ~Unresolved(ops) /\ Placed(i)'
    <3>1. CASE i = n
      BY <2>1, <2>2, <3>1 DEF Line
    <3>2. CASE i # n
      <4>1. i \in Instructions
        BY <1>1, <2>1, <3>2 DEF Instructions
      <4>2. ~Unresolved(ops) /\ Placed(i)
        BY <2>2, <4>1 DEF SecondStands
      <4> QED
        BY <1>1, <4>2, PlacedStays
    <3> QED
      BY <3>1, <3>2
  <2>4. ~Unresolved(ops)'
    BY <2>3, SameSecondBytes
  <2>5. ops = source'[i].ops
    BY <2>2
  <2> QED
    BY <2>3, <2>4, <2>5
<1>7. /\ nl' \in 1..(Len(source') + 1)
      /\ dtsg'.size = Promise!DataAddress(nl)' /\ cdsg'.size = Promise!CodeAddress(nl)'
  BY <1>1, <1>2, <1>3, <1>4, <1>5
<1> QED
  BY <1>6, <1>7 DEF SecondStands

\* What is in the code stays while nothing moves.
LEMMA SecondStays ==
  ASSUME BufferTypes, SecondStands, UNCHANGED <<source, nl, symtab, segments>>
  PROVE  SecondStands'
<1>1. /\ UNCHANGED <<source, nl, symtab, dtsg, cdsg, code>> /\ code \in Seq(Nat)
  BY DEF segments, BufferTypes
<1>2. Instructions' = Instructions
  BY <1>1 DEF Instructions
<1>3. ASSUME NEW i \in Instructions
      PROVE  ~Unresolved(source[i].ops)' /\ Placed(i)'
  <2>1. ~Unresolved(source[i].ops) /\ Placed(i)
    BY DEF SecondStands
  <2>2. Len(code') \in Nat /\ Len(code') >= Len(code) /\ \A k \in 1..Len(code) : code'[k] = code[k]
    BY <1>1
  <2>3. Placed(i)'
    BY <1>1, <2>1, <2>2, PlacedStays
  <2> QED
    BY <1>1, <2>1, <2>3 DEF Unresolved
<1>4. PICK n : n = nl
  OBVIOUS
<1>5. /\ Promise!CodeAddress(n)' = Promise!CodeAddress(n)
      /\ Promise!DataAddress(n)' = Promise!DataAddress(n)
  BY <1>1, SameSecondBytes
<1>6. nl' = n
  BY <1>1, <1>4
<1>7. /\ dtsg'.size = Promise!DataAddress(nl)' /\ cdsg'.size = Promise!CodeAddress(nl)'
      /\ Len(code') = cdsg'.size /\ nl' \in 1..(Len(source') + 1)
  BY <1>1, <1>4, <1>5, <1>6 DEF SecondStands
<1> QED
  BY <1>2, <1>3, <1>7 DEF SecondStands

\* When pass 2 opens its text, nothing is written and no address is used.
LEMMA SecondBegins ==
  ASSUME BufferInv, OpenSource, phase = "open2"
  PROVE  SecondStands'
<1>1. /\ nl' = 1 /\ UNCHANGED <<source, dtsg, cdsg, code>>
      /\ code = << >> /\ cdsg.size = 0 /\ dtsg.size = 0
  BY DEF OpenSource, segments, BufferInv, NothingWritten
<1>2. source \in Seq(Lines) /\ Len(source) \in Nat
  BY LinesOfText DEF BufferInv
<1>3. Promise!CodeAddress(1) = 0 /\ Promise!DataAddress(1) = 0
  BY <1>2, AddressSteps
<1>4. Promise!CodeAddress(1)' = 0 /\ Promise!DataAddress(1)' = 0
  BY <1>1, <1>3, SamePromise
<1>5. Promise!CodeAddress(nl)' = 0 /\ Promise!DataAddress(nl)' = 0
  BY <1>1, <1>4
<1>6. Instructions' = {} /\ nl' \in 1..(Len(source') + 1)
  BY <1>1, <1>2 DEF Instructions
<1>7. Len(code') = 0 /\ cdsg'.size = 0 /\ dtsg'.size = 0
  BY <1>1
<1> QED
  BY <1>5, <1>6, <1>7 DEF SecondStands

\* Pass 2 goes over a line.
LEMMA SecondPass ==
  ASSUME BufferInv, BufferInv', SecondStands, Next, phase = "pass2", nl \in DOMAIN source, NextLine
  PROVE  SecondStands' /\ symtab' = symtab
<1>1. /\ source' = source /\ nl' = nl + 1 /\ phase' = "pass2"
      /\ code' \in Seq(Nat) /\ code \in Seq(Nat)
      /\ dtsg \in Segments /\ cdsg \in Segments /\ dtsg.size \in Nat /\ cdsg.size \in Nat
      /\ Line \in Lines /\ Len(code) = cdsg.size /\ TextsOK /\ BufferTypes
  BY EditedLineIsLine, SegmentAssumption
  DEF NextLine, BufferInv, BufferTypes, SecondStands, Segments
<1>2. PICK n : n = nl
  OBVIOUS
<1>3. ASSUME \E e : Return(e)
      PROVE  FALSE
  BY <1>1, <1>3 DEF Return
<1>4. CASE /\ Line.kind \notin {"STMT_INSTRUCTION", "STMT_DATA_DECL"}
           /\ UNCHANGED <<symtab, segments>>
  <2>1. CodeSize(Line) = 0 /\ DataSize(Line) = 0
    BY <1>4 DEF CodeSize, DataSize
  <2>2. symtab' = symtab /\ dtsg' = dtsg /\ cdsg' = cdsg /\ code' = code
    BY <1>4 DEF segments
  <2>3. /\ dtsg'.size = dtsg.size + DataSize(Line) /\ cdsg'.size = cdsg.size + CodeSize(Line)
        /\ Len(code') = cdsg'.size /\ Len(code') \in Nat /\ Len(code') >= Len(code)
        /\ \A k \in 1..Len(code) : code'[k] = code[k]
    BY <1>1, <2>1, <2>2
  <2> QED
    BY <1>1, <1>2, <1>4, <2>2, <2>3, SecondLine
<1>5. CASE pass2_data_decl
  <2>1. /\ Line.kind = "STMT_DATA_DECL" /\ UNCHANGED <<symtab, cdsg, code>> /\ Line.bytes \in Nat
    BY <1>1, <1>5, DeclLine DEF pass2_data_decl, AtLine
  <2>2. Fits(dtsg, Line.bytes) /\ dtsg' = Appended(dtsg, Line.bytes)
    BY <1>3, <1>5 DEF pass2_data_decl
  <2>3. dtsg'.size = dtsg.size + Line.bytes
    BY <1>1, <2>1, <2>2, AppendedSegment
  <2>4. Line.bytes \in 0..SizeMax
    BY <1>1, <2>1, <2>2, SegmentAssumption DEF Fits
  <2>5. TotalSize(Line) = Line.bytes
    <3>1. PICK bytes \in 0..SizeMax : bytes = Line.bytes
      BY <2>4
    <3>2. bytes % (SizeMax + 1) = bytes
      BY SegmentAssumption
    <3> QED
      BY <3>1, <3>2 DEF TotalSize
  <2>6. CodeSize(Line) = 0 /\ DataSize(Line) = Line.bytes
    BY <2>1, <2>5 DEF CodeSize, DataSize
  <2>7. /\ dtsg'.size = dtsg.size + DataSize(Line) /\ cdsg'.size = cdsg.size + CodeSize(Line)
        /\ Len(code') = cdsg'.size /\ Len(code') \in Nat /\ Len(code') >= Len(code)
        /\ \A k \in 1..Len(code) : code'[k] = code[k]
    BY <1>1, <2>1, <2>3, <2>6
  <2> QED
    BY <1>1, <1>2, <2>1, <2>7, SecondLine
<1>6. CASE pass2_instruction
  <2> DEFINE bytes == Encode(Line.desc, Line.ops, FinalValues(Line.desc, Line.ops, cdsg.size))
  <2>1. /\ Line.kind = "STMT_INSTRUCTION" /\ UNCHANGED <<symtab, dtsg>>
    BY <1>6 DEF pass2_instruction, AtLine
  <2>2. /\ ~Unresolved(Line.ops) /\ Fits(cdsg, Len(bytes))
        /\ cdsg' = Appended(cdsg, Len(bytes)) /\ code' = Overwrite(code, cdsg.size, bytes)
    BY <1>3, <1>6 DEF pass2_instruction
  <2>3. Len(bytes) \in Nat /\ Len(bytes) = CodeSize(Line)
    BY <1>1, <2>1, <2>2, InstructionBytes DEF BufferTypes, CodeSize
  <2>4. /\ Len(code') = cdsg.size + CodeSize(Line)
        /\ \A k \in 1..Len(code) : code'[k] = code[k]
        /\ Placed(n)'
    BY <1>1, <1>2, <2>1, <2>2, InstructionPlaced
  <2> HIDE DEF bytes
  <2>5. cdsg'.size = cdsg.size + CodeSize(Line)
    BY <1>1, <2>2, <2>3, AppendedSegment
  <2>6. DataSize(Line) = 0
    BY <2>1 DEF DataSize
  <2>7. /\ dtsg'.size = dtsg.size + DataSize(Line)
        /\ Len(code') = cdsg'.size /\ Len(code') \in Nat /\ Len(code') >= Len(code)
    BY <1>1, <2>1, <2>3, <2>4, <2>5, <2>6
  <2> QED
    BY <1>1, <1>2, <2>1, <2>2, <2>4, <2>5, <2>7, SecondLine
<1>7. CASE BothPasses \/ pass2_label_def
  <2>1. /\ Line.kind \notin {"STMT_INSTRUCTION", "STMT_DATA_DECL"}
        /\ UNCHANGED <<symtab, segments>>
    BY <1>3, <1>7 DEF BothPasses, NoTokens, NoStatement, passes_kma, passes_code_section,
                      passes_data_section, passes_none, pass2_label_def, InPass, AtLine
  <2> QED
    BY <2>1, <1>4
<1>8. CASE Files \/ Pass1 \/ Returned
  BY <1>1, <1>3, <1>8 DEF Files, OpenSource, CannotOpenSource, EndPass1, EndPass2, Returned,
                          Pass1, pass1_data_decl, pass1_instruction, pass1_label_def, AtLine
<1>9. symtab' = symtab
  BY <1>3, <1>5, <1>6, <1>7, <1>8
  DEF Next, Pass2, pass2_data_decl, pass2_instruction, pass2_label_def, BothPasses, NoTokens,
      NoStatement, passes_kma, passes_code_section, passes_data_section, passes_none
<1> QED
  BY <1>5, <1>6, <1>7, <1>8, <1>9 DEF Next, Pass2

\* The table is that of the text from the end of pass 1 on
LEMMA SecondTable ==
  ASSUME BufferInv, BufferInv', SecondInv, Next, text' = text,
         phase' \in {"open2", "pass2"} \/ Success'
  PROVE  SymbolsOfText'
<1>1. source' = source
  BY SourceUntouched
<1>2. CASE EndPass1
  <2>1. source = text /\ TypeOK /\ IInv /\ RInv /\ symtab' = symtab
    BY <1>2 DEF EndPass1, SecondInv
  <2>2. SymbolsOfText
    BY <2>1, AddressInTable, SamePromiseForText DEF SymbolsOfText
  <2> QED
    BY <2>1, <2>2, SymbolsOfTextStay
<1>3. CASE OpenSource \/ EndPass2 \/ Returned
  <2>1. SymbolsOfText /\ symtab' = symtab
    BY <1>3 DEF OpenSource, EndPass2, Returned, vars, Success, SecondInv
  <2> QED
    BY <2>1, SymbolsOfTextStay
<1>4. CASE phase \in {"pass1", "pass2"} /\ nl \in DOMAIN source /\ NextLine
  <2>1. phase = "pass2"
    BY <1>4 DEF NextLine, Success
  <2>2. SymbolsOfText /\ SecondStands
    BY <2>1 DEF SecondInv
  <2>3. symtab' = symtab
    BY <1>4, <2>1, <2>2, SecondPass
  <2> QED
    BY <2>2, <2>3, SymbolsOfTextStay
<1>5. CASE phase' = "done" /\ layout' = layout
  BY <1>3, <1>5, SuccessIsTheEnd
<1> QED
  BY <1>2, <1>3, <1>4, <1>5, HowPhasesChange

\* and the code that of the source, as far as pass 2 has read it.
LEMMA SecondCode ==
  ASSUME BufferInv, BufferInv', SecondInv, Next, phase' = "pass2" \/ Success'
  PROVE  SecondStands'
<1>1. BufferTypes
  BY DEF BufferInv
<1>2. CASE OpenSource
  <2>1. phase = "open2"
    BY <1>2 DEF OpenSource, Success
  <2> QED
    BY <1>2, <2>1, SecondBegins
<1>3. CASE EndPass2 \/ Returned
  <2>1. SecondStands /\ UNCHANGED <<source, nl, symtab, segments>>
    BY <1>3 DEF EndPass2, Returned, vars, segments, Success, SecondInv
  <2> QED
    BY <1>1, <2>1, SecondStays
<1>4. CASE phase \in {"pass1", "pass2"} /\ nl \in DOMAIN source /\ NextLine
  <2>1. phase = "pass2"
    BY <1>4 DEF NextLine, Success
  <2>2. SecondStands
    BY <2>1 DEF SecondInv
  <2> QED
    BY <1>4, <2>1, <2>2, SecondPass
<1>5. CASE EndPass1
  BY <1>5 DEF EndPass1, Success
<1>6. CASE phase' = "done" /\ layout' = layout
  BY <1>3, <1>6, SuccessIsTheEnd
<1> QED
  BY <1>2, <1>3, <1>4, <1>5, <1>6, HowPhasesChange

\* SecondInv is inductive, given BufferInv.
LEMMA SecondInvKept ==
  ASSUME BufferInv, BufferInv', SecondInv, [Assemble \/ Edit]_editVars
  PROVE  SecondInv'
<1>1. CASE Assemble
  <2>1. Next /\ source' = source /\ text' = text
    BY <1>1, SourceUntouched DEF Assemble
  <2>2. ASSUME phase' \in {"open1", "pass1"}
        PROVE  source' = text' /\ TypeOK' /\ IInv' /\ RInv'
    <3>1. phase \in {"open1", "pass1"}
      BY <2>1, <2>2, HowPhasesChange DEF EndPass1, EndPass2, OpenSource, NextLine
    <3>2. source = text /\ TypeOK /\ IInv /\ RInv
      BY <3>1 DEF SecondInv
    <3>3. TypeOK' /\ IInv'
      BY <2>1, <3>2, TypesKept, InvariantKept
    <3> QED
      BY <2>1, <3>2, <3>3, RefinementKept
  <2> QED
    BY <2>1, <2>2, SecondTable, SecondCode DEF SecondInv
<1>2. CASE Edit
  <2>1. /\ phase' = "open2" /\ phase = "open2" /\ text' = text /\ symtab' = symtab
        /\ ~Success'
    BY <1>2 DEF Edit, Success
  <2>2. SymbolsOfText'
    BY <2>1, SymbolsOfTextStay DEF SecondInv
  <2> QED
    BY <2>1, <2>2 DEF SecondInv
<1>3. CASE UNCHANGED editVars
  <2>1. /\ UNCHANGED vars /\ text' = text
        /\ UNCHANGED <<source, nl, symtab, segments, phase, err>>
    BY <1>3 DEF editVars, vars, segments
  <2>2. ASSUME phase' \in {"open1", "pass1"}
        PROVE  source' = text' /\ TypeOK' /\ IInv' /\ RInv'
    <3>1. source = text /\ TypeOK /\ IInv /\ RInv
      BY <2>1, <2>2 DEF SecondInv
    <3>2. TypeOK' /\ IInv'
      BY <2>1, <3>1, TypesKept, InvariantKept
    <3> QED
      BY <2>1, <3>1, <3>2, RefinementKept
  <2>3. ASSUME phase' \in {"open2", "pass2"} \/ Success'
        PROVE  SymbolsOfText'
    <3>1. SymbolsOfText
      BY <2>1, <2>3 DEF SecondInv, Success
    <3> QED
      BY <2>1, <3>1, SymbolsOfTextStay
  <2>4. ASSUME phase' = "pass2" \/ Success'
        PROVE  SecondStands'
    <3>1. SecondStands
      BY <2>1, <2>4 DEF SecondInv, Success
    <3> QED
      BY <2>1, <3>1, SecondStays DEF BufferInv
  <2> QED
    BY <2>2, <2>3, <2>4 DEF SecondInv
<1> QED
  BY <1>1, <1>2, <1>3

\* What an operand of the second text is given is what the first text says of it.
LEMMA OperandOfText ==
  ASSUME SymbolsOfText, NEW op \in Operands, NamesSymbol(op) => op.label \in DOMAIN symtab
  PROVE  /\ OperandValue(op) = OneText!Meant(op) /\ OperandValue(op) \in Int
         /\ op.type = "OP_IMM32" => OperandValue(op) \in Int32Min..Int32Max
<1>1. CASE NamesSymbol(op)
  <2>1. /\ symtab[op.label] = OneText!Address(op.label)
        /\ symtab[op.label] \in Int32Min..Int32Max
    BY <1>1 DEF SymbolsOfText
  <2>2. Saturated(symtab[op.label]) = symtab[op.label] /\ symtab[op.label] \in Int
    BY <2>1, Int32Bounds DEF Saturated
  <2>3. OneText!Meant(op) = OneText!Address(op.label)
    BY <1>1 DEF OneText!Meant, NamesSymbol
  <2> QED
    BY <1>1, <2>1, <2>2, <2>3 DEF OperandValue
<1>2. CASE ~NamesSymbol(op)
  <2>1. OperandValue(op) = op.value /\ OneText!Meant(op) = op.value
    BY <1>2 DEF OperandValue, OneText!Meant, NamesSymbol
  <2> QED
    BY <2>1, OperandTypesOf
<1> QED
  BY <1>1, <1>2

\* The processor finds each instruction of the second text, with these operands.
LEMMA SecondReads ==
  ASSUME TextsOK, BufferTypes, SymbolsOfText, SecondStands, Len(code) <= Int32Max,
         NEW i \in Instructions
  PROVE  Promise!ReadableAs(code, i, OneText!MeantValues(source[i].ops))
<1> DEFINE line  == source[i]
           at    == Promise!CodeAddress(i)
           meant == OneText!MeantValues(line.ops)
           got   == Promise!Fetch(code, at)
<1>1. line \in Lines /\ line.kind = "STMT_INSTRUCTION"
  <2>1. i \in 1..(nl - 1) /\ nl \in 1..(Len(source) + 1)
    BY DEF Instructions, SecondStands
  <2>2. i \in 1..Len(source)
    BY <2>1, LinesOfText
  <2> QED
    BY <2>2, LinesOfText DEF Instructions
<1>2. line.ops \in Seq(Operands)
  BY <1>1, InstructionLine
<1>3. ~Unresolved(line.ops) /\ Placed(i)
  BY DEF SecondStands
<1>4. at \in Nat /\ at <= Int32Max
  <2>1. at \in Nat /\ Len(SecondBytes(i)) \in Nat /\ at + Len(SecondBytes(i)) <= Len(code)
    BY <1>3 DEF Placed
  <2>2. Len(code) \in Nat
    BY DEF BufferTypes
  <2> QED
    BY <2>1, <2>2, Int32Bounds
<1>5. HoldsAt(code, at, Encode(line.desc, line.ops, FinalValues(line.desc, line.ops, at)))
  BY <1>3 DEF Placed, SecondBytes
<1>6. ASSUME NEW o \in DOMAIN line.ops
      PROVE  /\ OperandValue(line.ops[o]) = meant[o] /\ meant[o] \in Int
             /\ line.ops[o].type = "OP_IMM32" => meant[o] \in Int32Min..Int32Max
  <2>1. /\ line.ops[o] \in Operands
        /\ NamesSymbol(line.ops[o]) => line.ops[o].label \in DOMAIN symtab
    BY <1>2, <1>3 DEF Unresolved
  <2>2. meant[o] = OneText!Meant(line.ops[o])
    BY DEF OneText!MeantValues
  <2> HIDE DEF line, meant
  <2> QED
    BY <2>1, <2>2, OperandOfText
<1>7. meant \in [DOMAIN line.ops -> Int]
  <2>1. meant = [o \in DOMAIN line.ops |-> meant[o]]
    BY DEF OneText!MeantValues
  <2> HIDE DEF line, meant
  <2> QED
    BY <1>6, <2>1
<1>8. Promise!InstructionSize(i) = instruction_get_encoded_size(line.desc)
  BY SameTable DEF Promise!InstructionSize
<1>9. SymtabOK
  BY DEF BufferTypes
<1>10. /\ got.mnemonic = line.desc.mnemonic
       /\ got.next = at + instruction_get_encoded_size(line.desc)
       /\ IF got.mnemonic \in Promise!ConditionalJumps
          THEN (Promise!TargetOf(code, at) - meant[1]) % DwordValues = 0
          ELSE got.operands = meant
  <2> HIDE DEF line, meant, at
  <2> QED
    BY <1>1, <1>3, <1>4, <1>5, <1>6, <1>7, <1>9, InstructionReads
<1> QED
  BY <1>8, <1>10, SameTable DEF Promise!ReadableAs

\* Whatever is saved under the source's name between the passes, and whichever
\* failure ends a pass early: in a program the assembler accepts, every instruction
\* pass 2 has read stands where the sizes of the lines before it put it, and its
\* operands are the addresses the first text gives their symbols.
THEOREM SecondTextAssembled == SpecEdited => []SecondTextFirstAddresses
<1>1. InitEdited => BufferInv /\ SecondInv
  <2> SUFFICES ASSUME InitEdited PROVE BufferInv /\ SecondInv
    OBVIOUS
  <2>1. Init /\ phase = "open1" /\ source = text
    BY DEF InitEdited, Init
  <2> QED
    BY <2>1, BufferBegins, TypesBegin, InvariantBegins, RefinementBegins DEF SecondInv, Success
<1>2. BufferInv /\ SecondInv /\ [Assemble \/ Edit]_editVars => (BufferInv /\ SecondInv)'
  BY BufferKept, SecondInvKept
<1>3. BufferInv /\ SecondInv => SecondTextFirstAddresses
  <2> SUFFICES ASSUME BufferInv, SecondInv, Success
               PROVE  /\ dtsg.size = Promise!DataAddress(nl)
                      /\ Len(code) = Promise!CodeAddress(nl)
                      /\ Len(code) <= Int32Max =>
                           \A i \in Instructions :
                             Promise!ReadableAs(code, i, OneText!MeantValues(source[i].ops))
    BY DEF SecondTextFirstAddresses
  <2>1. TextsOK /\ BufferTypes /\ SymbolsOfText /\ SecondStands
    BY DEF BufferInv, SecondInv
  <2>2. dtsg.size = Promise!DataAddress(nl) /\ Len(code) = Promise!CodeAddress(nl)
    BY <2>1 DEF SecondStands
  <2> QED
    BY <2>1, <2>2, SecondReads
<1> QED
  BY <1>1, <1>2, <1>3, PTL DEF SpecEdited
=============================================================================
