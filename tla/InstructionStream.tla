------------------------- MODULE InstructionStream -------------------------
(***************************************************************************)
(* A stream of lines, given as their tokens, goes through the parser, the  *)
(* instruction table and the encoder; the processor reads the bytes back.  *)
(* A line that is not an instruction, or is refused, ends the stream. What *)
(* pass 2 subtracts from the operand of a relative jump is the subject of  *)
(* Assembler: here every operand is encoded as the line gives it.          *)
(***************************************************************************)
EXTENDS Statement, KMProcessor, FiniteSetsExt

CONSTANTS Lines,         \* the lines that may come, as their tokens
          Symbols,       \* the addresses of the labels and variables
          MaxStatements  \* bound on the length of the stream

TokenTypes == {"TOKEN_KMA", "TOKEN_SECTION_CODE", "TOKEN_SECTION_DATA", "TOKEN_INSTRUCTION",
               "TOKEN_LABEL", "TOKEN_IDENTIFIER", "TOKEN_REGISTER", "TOKEN_NUMBER",
               "TOKEN_COMMA", "TOKEN_OFFSET", "TOKEN_QUESTION", "TOKEN_STRING", "TOKEN_DATA_TYPE",
               "TOKEN_DUP", "TOKEN_LPAREN", "TOKEN_RPAREN", "TOKEN_UNKNOWN", "TOKEN_EOF"}

\* A word is a register because it is one of the six names. Where a symbol is not
\* defined pass 2 stops, which is the subject of Assembler.
Tokens ==
  {token \in [type : TokenTypes, text : STRING, number : Int] :
     /\ token.type = "TOKEN_REGISTER" => token.text \in DOMAIN RegisterCode
     /\ token.type \in {"TOKEN_LABEL", "TOKEN_IDENTIFIER"} => token.text \in DOMAIN Symbols}

\* TOKEN_EOF ends the tokens of a line and stands nowhere else. A line that begins
\* with an identifier is the subject of DataDeclaration.
ASSUME StreamAssumption ==
  /\ \A symbol \in DOMAIN Symbols : Symbols[symbol] \in Int32Min..Int32Max
  /\ \A line \in Lines :
       /\ line \in Seq(Tokens) /\ line # << >> /\ line[1].type # "TOKEN_IDENTIFIER"
       /\ \A i \in DOMAIN line : line[i].type = "TOKEN_EOF" <=> i = Len(line)

VARIABLES current,    \* the line read last, as its tokens
          statement,  \* what the parser made of it
          stmts,      \* the instructions so far, as the source means them
          code        \* the bytes of the code segment

vars == <<current, statement, stmts, code>>

Init == current = << >> /\ statement = NoMatch /\ stmts = << >> /\ code = << >>

-----------------------------------------------------------------------------
(* What a line means to the author of the source.                          *)

Meaning(token) ==
  CASE token.type = "TOKEN_REGISTER" ->
         CHOOSE n \in 1..6 : <<"A", "B", "C", "D", "S", "SP">>[n] = token.text
    [] token.type = "TOKEN_NUMBER"   -> token.number
    [] OTHER                         -> Symbols[token.text]

\* The tokens that stand for an operand; a line of the grammar has at most two.
OperandPlaces(line) ==
  {n \in 2..Len(line) :
     line[n].type \in {"TOKEN_REGISTER", "TOKEN_NUMBER", "TOKEN_LABEL", "TOKEN_IDENTIFIER"}}

OperandTokens(line) ==
  LET places == OperandPlaces(line)
  IN  IF places = {} THEN << >>
      ELSE IF Min(places) = Max(places) THEN <<line[Min(places)]>>
      ELSE <<line[Min(places)], line[Max(places)]>>

MeantOperands(line) ==
  [n \in DOMAIN OperandTokens(line) |-> Meaning(OperandTokens(line)[n])]

-----------------------------------------------------------------------------
(* Steps.                                                                  *)

\* pass2_intstruction_get_op: the value of an operand.
OperandValue(op) == IF op.specifier = "OPS_NONE" THEN op.value ELSE Symbols[op.label]

Values(ops) == [n \in DOMAIN ops |-> OperandValue(ops[n])]

\* pass_2_instruction_ops_set: an instruction that is accepted is encoded and appended.
Assemble(line) ==
  /\ Len(stmts) < MaxStatements
  /\ statement'.kind = "STMT_INSTRUCTION"
  /\ stmts' = Append(stmts, [mnemonic |-> line[1].text, operands |-> MeantOperands(line),
                next |-> Len(code) + instruction_get_encoded_size(statement'.desc)])
  /\ code' = code \o Encode(statement'.desc, statement'.ops, Values(statement'.ops))

\* Any other line ends the stream; only a first line is tried.
Stop ==
  /\ stmts = << >> /\ current = << >>
  /\ statement'.kind # "STMT_INSTRUCTION"
  /\ UNCHANGED <<stmts, code>>

\* The parser's work on each line, which TLC does once.
ParsedLines == {[line |-> line, statement |-> grammar_line(line)] : line \in Lines}

Instructions == {parsed \in ParsedLines : parsed.statement.kind = "STMT_INSTRUCTION"}

Read(parsed) ==
  /\ current' = parsed.line /\ statement' = parsed.statement
  /\ Assemble(parsed.line) \/ Stop

Next == \/ current = << >> /\ \E parsed \in ParsedLines : Read(parsed)
        \/ stmts # << >> /\ \E parsed \in Instructions : Read(parsed)

Spec == Init /\ [][Next]_vars

-----------------------------------------------------------------------------
(* Properties.                                                             *)

\* The processor finds in the bytes exactly the instructions of the lines, one
\* after the other: the order of the operands and their number survive the
\* parser, which sets the second one first; the opcode alone tells the operands
\* apart; no instruction is a prefix of another; the sizes pass 1 reserves are
\* those the bytes take; a negative number comes back negative.
ReadsBack ==
  \A i \in DOMAIN stmts :
    Fetch(code, IF i = 1 THEN 0 ELSE stmts[i - 1].next) = stmts[i]

\* Rules 1 to 5 and 14 to 16 of the grammar in parser_grammar.h, as the types of
\* the tokens of a line.
Grammar ==
  {<<"TOKEN_EOF">>,
   <<"TOKEN_KMA", "TOKEN_EOF">>,
   <<"TOKEN_SECTION_CODE", "TOKEN_EOF">>,
   <<"TOKEN_SECTION_DATA", "TOKEN_EOF">>,
   <<"TOKEN_LABEL", "TOKEN_EOF">>,
   <<"TOKEN_INSTRUCTION", "TOKEN_EOF">>,
   <<"TOKEN_INSTRUCTION", "TOKEN_LABEL", "TOKEN_EOF">>,
   <<"TOKEN_INSTRUCTION", "TOKEN_REGISTER", "TOKEN_EOF">>,
   <<"TOKEN_INSTRUCTION", "TOKEN_NUMBER", "TOKEN_EOF">>,
   <<"TOKEN_INSTRUCTION", "TOKEN_REGISTER", "TOKEN_COMMA", "TOKEN_REGISTER", "TOKEN_EOF">>,
   <<"TOKEN_INSTRUCTION", "TOKEN_REGISTER", "TOKEN_COMMA", "TOKEN_NUMBER", "TOKEN_EOF">>,
   <<"TOKEN_INSTRUCTION", "TOKEN_REGISTER", "TOKEN_COMMA", "TOKEN_OFFSET", "TOKEN_IDENTIFIER",
     "TOKEN_EOF">>}

Types(line) == [n \in DOMAIN line |-> line[n].type]

NumbersFit(line) ==
  \A n \in DOMAIN line :
    line[n].type = "TOKEN_NUMBER" => line[n].number \in Int32Min..Int32Max

\* What the table calls operand n of a line.
OperandType(line, n) ==
  IF n > Len(OperandTokens(line)) THEN "OP_NONE"
  ELSE IF OperandTokens(line)[n].type = "TOKEN_REGISTER" THEN "OP_REG" ELSE "OP_IMM32"

InTable(line) ==
  \E row \in Descriptors :
    /\ row.mnemonic = line[1].text
    /\ row.operand1 = OperandType(line, 1) /\ row.operand2 = OperandType(line, 2)

\* The parser accepts a line exactly when the grammar of parser_grammar.h has it,
\* its numbers are 32-bit numbers and the table has its instruction: nothing that
\* follows a complete statement is passed over, and no rule that is tried first
\* keeps a later one from matching.
AcceptsTheGrammar ==
  current # << >> =>
    (statement # NoMatch <=>
       /\ Types(current) \in Grammar /\ NumbersFit(current)
       /\ current[1].type = "TOKEN_INSTRUCTION" => InTable(current))
=============================================================================
