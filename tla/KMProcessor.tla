---------------------------- MODULE KMProcessor ----------------------------
(***************************************************************************)
(* How the virtual machine reads the code segment the assembler produces.  *)
(* The machine is not part of the repository: this module is written from  *)
(* the instruction table and from the comments of pass 2 on jumps. It is a *)
(* reader of bytes, independent of the operators that write them, and only *)
(* properties use it.                                                      *)
(***************************************************************************)
EXTENDS Instruction

\* The jumps whose operand counts from the next instruction: all but JMP.
ConditionalJumps == {"JE", "JNE", "JG", "JGE", "JNG", "JL", "JLE", "JNL"}

\* The only row with a given opcode.
RowOf(opcode) ==
  LET i == CHOOSE i \in DOMAIN INSTRUCTION_TABLE : INSTRUCTION_TABLE[i].opcode = opcode
  IN  INSTRUCTION_TABLE[i]

Width(type) == CASE type = "OP_NONE" -> 0 [] type = "OP_REG" -> 1 [] type = "OP_IMM32" -> 4

\* The signed 32-bit number stored at address at (addresses count from 0).
Dword(code, at) ==
  LET u == code[at + 1] + ByteBase * (code[at + 2]
             + ByteBase * (code[at + 3] + ByteBase * code[at + 4]))
  IN  IF 2 * code[at + 4] >= ByteBase THEN u - DwordValues ELSE u

OperandAt(code, at, type) ==
  CASE type = "OP_NONE"  -> << >>
    [] type = "OP_REG"   -> <<code[at + 1]>>
    [] type = "OP_IMM32" -> <<Dword(code, at)>>

\* The instruction at address pc and the address of the one after it.
Fetch(code, pc) ==
  LET row   == RowOf(code[pc + 1])
      first == pc + 1
      next  == first + Width(row.operand1)
  IN  [mnemonic |-> row.mnemonic,
       operands |-> OperandAt(code, first, row.operand1)
                      \o OperandAt(code, next, row.operand2),
       next     |-> next + Width(row.operand2)]

\* Where the jump or call at address pc continues.
TargetOf(code, pc) ==
  LET instruction == Fetch(code, pc)
  IN  IF instruction.mnemonic \in ConditionalJumps
      THEN instruction.next + instruction.operands[1]
      ELSE instruction.operands[1]
=============================================================================
