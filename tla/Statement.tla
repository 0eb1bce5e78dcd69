----------------------------- MODULE Statement -----------------------------
(***************************************************************************)
(* What the parser makes of the tokens of a line: grammar_line and the     *)
(* rules below it, except those for data declarations, which are the       *)
(* subject of DataDeclaration. A rule that does not match answers NoMatch. *)
(*                                                                         *)
(* A token is [type, text, number]: text is a mnemonic, a register or a    *)
(* symbol; number is the number the digits of a TOKEN_NUMBER spell, which  *)
(* no machine word limits.                                                 *)
(***************************************************************************)
EXTENDS Instruction, FiniteSets

NoMatch == [kind |-> "GRM_NO_MATCH"]

\* Seeded fault: the last type is not compared.
StartsWithButLast(tokens, types) ==
  /\ Len(types) <= Len(tokens)
  /\ \A i \in 1..(Len(types) - 1) : tokens[i].type = types[i]

\* tokens_start_with: the array ends with TOKEN_EOF, which no type in the middle
\* of types is, so a comparison never goes past it.
StartsWith(tokens, types) ==
  /\ Len(types) <= Len(tokens)
  /\ \A i \in DOMAIN types : tokens[i].type = types[i]

-----------------------------------------------------------------------------
(* Operands.                                                               *)

NoOperand == [type |-> "OP_NONE", specifier |-> "OPS_NONE", value |-> 0, label |-> ""]

\* calloc leaves a statement without operands.
FreshInstruction == [operand_count |-> 0, operands |-> <<NoOperand, NoOperand>>]

\* pass2_register_name_to_value. The name is kept until pass 2 asks for its code.
RegisterCode == [A |-> 1, B |-> 2, C |-> 3, D |-> 4, S |-> 5, SP |-> 6]

\* token_parse_int32 accepts the number.
Storable(token) == Int32Min <= token.number /\ token.number <= Int32Max

OperandOf(token) ==
  CASE token.type = "TOKEN_LABEL" ->
         [NoOperand EXCEPT !.type = "OP_IMM32", !.specifier = "OPS_LABEL", !.label = token.text]
    [] token.type = "TOKEN_REGISTER" ->
         [NoOperand EXCEPT !.type = "OP_REG", !.value = RegisterCode[token.text]]
    [] token.type = "TOKEN_NUMBER" ->
         [NoOperand EXCEPT !.type = "OP_IMM32", !.value = token.number]
    [] token.type = "TOKEN_IDENTIFIER" ->
         [NoOperand EXCEPT !.type = "OP_IMM32", !.specifier = "OPS_OFFSET", !.label = token.text]

\* _set_op_label, _set_op_register, _set_op_number, _set_op_offset; the count
\* only goes up, for the second operand is set before the first.
SetOperand(is, i, token) ==
  [operand_count |-> IF i > is.operand_count THEN i ELSE is.operand_count,
   operands |-> [is.operands EXCEPT ![i] = OperandOf(token)]]

\* The same, unless the token is a number that cannot be stored.
TrySetOperand(is, i, token) ==
  IF token.type = "TOKEN_NUMBER" /\ ~Storable(token) THEN NoMatch ELSE SetOperand(is, i, token)

-----------------------------------------------------------------------------
(* Instructions.                                                           *)

\* The second operand, and nothing after it.
grammar_instruction_rhs_after(is, tokens) ==
  CASE StartsWith(tokens, <<"TOKEN_REGISTER", "TOKEN_EOF">>) -> TrySetOperand(is, 2, tokens[1])
    [] StartsWith(tokens, <<"TOKEN_NUMBER", "TOKEN_EOF">>)   -> TrySetOperand(is, 2, tokens[1])
    [] StartsWith(tokens, <<"TOKEN_OFFSET", "TOKEN_IDENTIFIER", "TOKEN_EOF">>) ->
         TrySetOperand(is, 2, tokens[2])
    [] OTHER -> NoMatch

\* The tokens after the mnemonic.
grammar_instruction_rhs(is, tokens) ==
  CASE StartsWith(tokens, <<"TOKEN_EOF">>) -> FreshInstruction
    [] \E type \in {"TOKEN_LABEL", "TOKEN_REGISTER", "TOKEN_NUMBER"} :
         StartsWith(tokens, <<type, "TOKEN_EOF">>) -> TrySetOperand(is, 1, tokens[1])
    [] StartsWith(tokens, <<"TOKEN_REGISTER", "TOKEN_COMMA">>) ->
         LET after == grammar_instruction_rhs_after(is, SubSeq(tokens, 3, Len(tokens)))
         IN  IF after = NoMatch THEN NoMatch ELSE TrySetOperand(after, 1, tokens[1])
    [] OTHER -> NoMatch

\* A mnemonic and operands that no row of the table has are refused.
grammar_line_instruction(tokens) ==
  LET is   == grammar_instruction_rhs(FreshInstruction, Tail(tokens))
      desc == instruction_find(tokens[1].text, is.operands[1].type, is.operands[2].type)
  IN  IF is = NoMatch \/ desc = NoDescriptor THEN NoMatch
      ELSE [kind |-> "STMT_INSTRUCTION", desc |-> desc,
            ops  |-> SubSeq(is.operands, 1, is.operand_count)]

-----------------------------------------------------------------------------
(* Lines.                                                                  *)

\* The first rule that matches the line.
grammar_line(tokens) ==
  CASE StartsWith(tokens, <<"TOKEN_KMA", "TOKEN_EOF">>) -> [kind |-> "STMT_KMA"]
    [] StartsWith(tokens, <<"TOKEN_SECTION_CODE", "TOKEN_EOF">>) ->
         [kind |-> "STMT_SECTION_CODE"]
    [] StartsWith(tokens, <<"TOKEN_SECTION_DATA", "TOKEN_EOF">>) ->
         [kind |-> "STMT_SECTION_DATA"]
    [] StartsWith(tokens, <<"TOKEN_LABEL", "TOKEN_EOF">>) ->
         [kind |-> "STMT_LABEL_DEF", label |-> tokens[1].text]
    [] StartsWith(tokens, <<"TOKEN_INSTRUCTION">>) -> grammar_line_instruction(tokens)
    [] StartsWith(tokens, <<"TOKEN_EOF">>) -> [kind |-> "STMT_NONE"]
    [] OTHER -> NoMatch
=============================================================================
