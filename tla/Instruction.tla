---------------------------- MODULE Instruction ----------------------------
(***************************************************************************)
(* The instruction set of the KM processor as the assembler knows it, and  *)
(* the bytes an instruction is turned into: an opcode byte, one byte for a *)
(* register operand, four little-endian bytes for a 32-bit operand.        *)
(***************************************************************************)
EXTENDS Integers, Sequences

CONSTANT ByteBase    \* number of values of a byte of a DWORD: 256 in the program

ASSUME ByteBaseAssumption == ByteBase \in Nat \ {0} /\ ByteBase % 2 = 0

-----------------------------------------------------------------------------
(* The table.                                                              *)

OperandTypes == {"OP_NONE", "OP_REG", "OP_IMM32"}

\* A row of the table; operand_count is not stored: it is the number of
\* operands whose type is not OP_NONE, in every row.
Row(mnemonic, opcode, operand1, operand2) ==
  [mnemonic |-> mnemonic, opcode |-> opcode,
   operand1 |-> operand1, operand2 |-> operand2]

Plain(mnemonic, opcode)    == Row(mnemonic, opcode, "OP_NONE", "OP_NONE")
OnReg(mnemonic, opcode)    == Row(mnemonic, opcode, "OP_REG", "OP_NONE")
OnImm(mnemonic, opcode)    == Row(mnemonic, opcode, "OP_IMM32", "OP_NONE")
RegImm(mnemonic, opcode)   == Row(mnemonic, opcode, "OP_REG", "OP_IMM32")
RegReg(mnemonic, opcode)   == Row(mnemonic, opcode, "OP_REG", "OP_REG")

INSTRUCTION_TABLE == <<
  Plain("HALT", \h00), Plain("NOP", \h90),
  RegImm("MOV", \h10), RegReg("MOV", \h11), RegReg("MOVSD", \h12),
  RegImm("LOAD", \h13), RegReg("LOAD", \h14),
  RegImm("STOR", \h15), RegReg("STOR", \h16),
  OnReg("PUSH", \h20), OnReg("POP", \h21),
  RegImm("ADD", \h30), RegReg("ADD", \h31), RegImm("SUB", \h32), RegReg("SUB", \h33),
  RegImm("MUL", \h34), RegReg("MUL", \h35), RegImm("DIV", \h36), RegReg("DIV", \h37),
  OnReg("INC", \h38), OnReg("DEC", \h39),
  RegImm("AND", \h40), RegReg("AND", \h41), RegImm("OR", \h42), RegReg("OR", \h43),
  RegImm("XOR", \h44), RegReg("XOR", \h45), OnReg("NOT", \h46),
  RegImm("SHL", \h50), RegReg("SHL", \h51), RegImm("SHR", \h52), RegReg("SHR", \h53),
  RegImm("CMP", \h60), RegReg("CMP", \h61),
  OnImm("JMP", \h70), OnReg("JMP", \h71),
  OnImm("JE", \h72), OnImm("JNE", \h73), OnImm("JG", \h74), OnImm("JGE", \h75),
  OnImm("JNG", \h76), OnImm("JL", \h77), OnImm("JLE", \h78), OnImm("JNL", \h79),
  OnImm("CALL", \h80), OnReg("CALL", \h81), Plain("RET", \h82),
  OnReg("OUTD", \hF0), OnReg("OUTC", \hF1), OnReg("OUTS", \hF2),
  OnReg("INPD", \hF3), OnReg("INPC", \hF4), OnReg("INPS", \hF5) >>

\* What instruction_find finds: the rows of the table.
Descriptors == {INSTRUCTION_TABLE[i] : i \in DOMAIN INSTRUCTION_TABLE}

\* The rows that agree with a mnemonic and the types of its operands.
Matching(mnemonic, operand1, operand2) ==
  {i \in DOMAIN INSTRUCTION_TABLE :
     /\ INSTRUCTION_TABLE[i].mnemonic = mnemonic
     /\ INSTRUCTION_TABLE[i].operand1 = operand1
     /\ INSTRUCTION_TABLE[i].operand2 = operand2}

\* What instruction_find returns when no row agrees (NULL in the program).
NoDescriptor == Row("", -1, "OP_NONE", "OP_NONE")

\* The first row that agrees, as the loop over the table meets it.
instruction_find(mnemonic, operand1, operand2) ==
  LET found == Matching(mnemonic, operand1, operand2)
  IN  IF found = {}
      THEN NoDescriptor
      ELSE INSTRUCTION_TABLE[CHOOSE i \in found : \A j \in found : i <= j]

-----------------------------------------------------------------------------
(* Sizes and bytes.                                                        *)

OperandSize(type) ==
  CASE type = "OP_REG"   -> 1
    [] type = "OP_IMM32" -> 4
    [] OTHER             -> 0

\* Seeded fault: the opcode byte is not counted.
SizeWithoutOpcode(desc) == OperandSize(desc.operand1) + OperandSize(desc.operand2)

instruction_get_encoded_size(desc) ==
  1 + OperandSize(desc.operand1) + OperandSize(desc.operand2)

MaxEncodedSize == 9

\* JMP takes an absolute address; every other jump, a relative one. The test
\* is on the range of opcodes.
instruction_is_relative_jump(desc) == \h72 <= desc.opcode /\ desc.opcode < \h80

\* The number of values of a DWORD: 2^32 in the program.
DwordValues == ByteBase * ByteBase * ByteBase * ByteBase

Int32Max == DwordValues \div 2 - 1
Int32Min == -(DwordValues \div 2)

\* Seeded fault: the bytes in the opposite order.
BigEndian(v) ==
  <<(v \div (ByteBase * ByteBase * ByteBase)) % ByteBase,
    (v \div (ByteBase * ByteBase)) % ByteBase, (v \div ByteBase) % ByteBase, v % ByteBase>>

\* (uint8_t)((v >> 8 * i) & 0xFF) for i = 0..3. \div and % round towards minus
\* infinity, so a negative v gives its two's complement, and a v that does not
\* fit into 32 bits the bytes of its remainder modulo 2^32.
cdsg_app_imm(v) ==
  <<v % ByteBase, (v \div ByteBase) % ByteBase, (v \div (ByteBase * ByteBase)) % ByteBase,
    (v \div (ByteBase * ByteBase * ByteBase)) % ByteBase>>

\* The bytes of operand i of an instruction, none when it has fewer operands.
OperandBytes(ops, values, i) ==
  IF i \notin DOMAIN ops THEN << >>
  ELSE IF ops[i].type = "OP_REG" THEN <<values[i]>>
  ELSE cdsg_app_imm(values[i])

\* What pass_2_instruction_ops_set appends to the code segment.
Encode(desc, ops, values) ==
  <<desc.opcode>> \o OperandBytes(ops, values, 1) \o OperandBytes(ops, values, 2)
=============================================================================
