-------------------------- MODULE AssemblerClaims --------------------------
(***************************************************************************)
(* Sentences of the headers and comments about the assembler, stated as    *)
(* properties; each is refuted by a run of its own.                        *)
(***************************************************************************)
EXTENDS Assembler, KMProcessor

\* "The assembler file is already validated in 1st pass" (assembler.h): pass 2
\* is only given lines that pass 1 has read and accepted. fu_getline reports an
\* input error and the end of the file alike, so pass 1 may end early and pass 2
\* go on, without the checks on sections and limits that only pass 1 makes.
ValidatedInFirstPass == phase = "pass2" /\ nl \in DOMAIN source => WasInPass1

\* "Relative offset = label address - (instruction address + size of
\* (instruction))" (pass_2.c): the offset written for a jump, added to the
\* address after the jump, is the operand. The difference is an int32_t, and a
\* number near INT32_MIN as the operand leaves its range.
OffsetIsTheDifference ==
  Success =>
    \A i \in DOMAIN source :
      source[i].kind = "STMT_INSTRUCTION" /\ instruction_is_relative_jump(source[i].desc) =>
        TargetOf(code, layout[i].code) = OperandValue(source[i].ops[1])
=============================================================================
