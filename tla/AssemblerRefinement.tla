------------------------ MODULE AssemblerRefinement ------------------------
(***************************************************************************)
(* The two passes implement the promise of Assembly.                       *)
(***************************************************************************)
EXTENDS Assembler

\* What process_assembler has answered: its exit code and, with 0, the data
\* segment's size and the code segment's bytes.
Outcome ==
  IF phase # "done" THEN [exit |-> -1]
  ELSE IF err = "ASM_NO_ERROR" THEN [exit |-> 0, data |-> dtsg.size, code |-> code]
  ELSE [exit |-> convert_err(err)]

\* A source that cannot be opened gives 4; an allocation that fails is reported
\* as whatever the function that needed it is for: tokens and the symbol table
\* 42, a statement 3, a segment 7 or 8.
ExitsOfFaults == (IF "open" \in Faults THEN {4} ELSE {})
                   \cup (IF "memory" \in Faults THEN {3, 7, 8, 42} ELSE {})

Promise == INSTANCE Assembly WITH outcome <- Outcome, FaultExits <- ExitsOfFaults

\* The exit code is that of the first fault of the source, with every fault
\* pass 1 finds before every fault pass 2 finds; a source without a fault gives
\* a code segment in which the processor reads its instructions, each at its
\* address and with its operands, every jump leading to its label. A failure of
\* the environment never turns a faulty source into a program.
KeepsPromise == Promise!Spec

-----------------------------------------------------------------------------
(* The inductive invariant behind KeepsPromise, besides IInv: what the     *)
(* passes have found right, and what pass 2 has written.                   *)

StartOrSection == {"STMT_KMA"} \cup Promise!Sections

\* The last section that begins before line i.
InSection(i, section) ==
  \E j \in 1..(i - 1) :
    /\ source[j].kind = section
    /\ \A k \in (j + 1)..(i - 1) : source[k].kind \notin Promise!Sections

\* Line i is in its place and defines no symbol again.
InPlace(i) ==
  LET kind == source[i].kind IN
  /\ kind \notin {"NO_TOKENS", "NO_STATEMENT"}
  /\ kind = "STMT_KMA" => Promise!Before(i, StartOrSection) = {}
  /\ kind \in Promise!Sections => Promise!Opened(i)
  /\ kind = "STMT_DATA_DECL" => InSection(i, "STMT_SECTION_DATA") /\ ~Promise!DefinesAgain(i)
  /\ kind = "STMT_INSTRUCTION" => InSection(i, "STMT_SECTION_CODE")
  /\ kind = "STMT_LABEL_DEF" => InSection(i, "STMT_SECTION_CODE") /\ ~Promise!DefinesAgain(i)

LinesInPlace == \A i \in LinesRead : InPlace(i)

\* The context is right for line i.
ContextAt(i) ==
  /\ ctx = "ASC_FILE_START" <=> Promise!Before(i, StartOrSection) = {}
  /\ ctx # "ASC_FILE_START" => Promise!Opened(i)
  /\ ctx = "ASC_DATA" <=> InSection(i, "STMT_SECTION_DATA")
  /\ ctx = "ASC_CODE" <=> InSection(i, "STMT_SECTION_CODE")

\* The context of a pass is the section of the line it reads.
ContextOfLine == phase \in {"pass1", "pass2"} => ContextAt(nl)

\* The table holds nothing but what the lines read in pass 1 define.
OnlyDefinedSymbols ==
  \A name \in DOMAIN symtab :
    \E i \in Promise!Definitions(Len(layout)) : Promise!Defined(i) = name

\* What pass 2 writes for the instruction of line i.
BytesOf(i) ==
  LET line == source[i]
  IN  Encode(line.desc, line.ops, FinalValues(line.desc, line.ops, layout[i].code))

\* The bytes of line i are in the code segment, where pass 1 has planned them.
Written(i) ==
  /\ layout[i].code + Len(BytesOf(i)) <= Len(code)
  /\ \A k \in DOMAIN BytesOf(i) : code[layout[i].code + k] = BytesOf(i)[k]

\* What pass 2 has checked and done for the lines before the one it reads.
LinesWritten ==
  /\ phase \in {"open1", "pass1", "open2"} => code = << >>
  /\ phase = "pass2" /\ nl \in DOMAIN layout =>
       /\ Len(code) = cdsg.size
       /\ \A i \in 1..(nl - 1) :
            /\ source[i].kind = "STMT_INSTRUCTION" => ~Unresolved(source[i].ops) /\ Written(i)
            /\ source[i].kind = "STMT_DATA_DECL" => source[i].bytes <= SizeMax

RInv == LinesInPlace /\ ContextOfLine /\ OnlyDefinedSymbols /\ LinesWritten
=============================================================================
