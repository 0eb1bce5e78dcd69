------------------------------- MODULE Lexer -------------------------------
(***************************************************************************)
(* lexer_tokenize_line: a line is cut into tokens. Characters are model    *)
(* values of a few classes and Keywords stands for the table of words; a   *)
(* position is the offset from the start of the line, as in the program.   *)
(***************************************************************************)
EXTENDS LineBuffer, FiniteSets

CONSTANTS Letters, Digits,   \* isalpha, isdigit
          Spaces,            \* isspace
          Single,            \* single characters: a function to their types
          Keywords,          \* lexer_classify_word: from words to their types
          MaxValueLen,       \* TOKEN_MAX_VALUE_LEN
          InitialTokens      \* TOKENS_INITIAL_CAPACITY

\* The characters the lexer names.
Named == {"NUL", "_", ".", "-", "@", "quote", ";"}

\* The types of single characters and of the words of the table.
SingleTypes  == {"TOKEN_COMMA", "TOKEN_LPAREN", "TOKEN_RPAREN", "TOKEN_QUESTION"}

KeywordTypes == {"TOKEN_KMA", "TOKEN_SECTION_DATA", "TOKEN_SECTION_CODE", "TOKEN_DATA_TYPE",
                 "TOKEN_REGISTER", "TOKEN_INSTRUCTION", "TOKEN_DUP", "TOKEN_OFFSET"}

TokenTypes == SingleTypes \cup KeywordTypes
                \cup {"TOKEN_NUMBER", "TOKEN_IDENTIFIER", "TOKEN_LABEL", "TOKEN_STRING",
                      "TOKEN_UNKNOWN", "TOKEN_EOF"}

\* A character belongs to one class at most.
ASSUME LexerAssumption ==
  /\ Letters \cup Digits \cup Spaces \cup DOMAIN Single \cup Named \subseteq Characters
  /\ (Letters \cup Digits \cup Spaces \cup DOMAIN Single) \cap Named = {}
  /\ Letters \cap Digits = {} /\ (Letters \cup Digits) \cap DOMAIN Single = {}
  /\ {"newline"} \subseteq Spaces
  /\ Single \in [DOMAIN Single -> SingleTypes]
  /\ DOMAIN Keywords \subseteq Seq(Characters) /\ Keywords \in [DOMAIN Keywords -> KeywordTypes]
  /\ MaxValueLen \in Nat \ {0, 1}
  /\ InitialTokens \in Nat \ {0}

VARIABLES
  lexing,    \* idle, tokens (in the loop), done, or refused: NULL returned
  pos,       \* *pos
  tokens,    \* the tokens set so far: type, value; from is a history of *pos
  capacity,  \* tokens the array has room for; 0 when it is freed
  starved    \* history: an allocation for this line has failed

lexVars == <<lexing, pos, tokens, capacity, starved>>

LexInit ==
  /\ lexing = "idle" /\ pos = 0 /\ tokens = << >> /\ capacity = 0 /\ starved = FALSE

-----------------------------------------------------------------------------
(* Characters.                                                             *)

\* strlen: the line ends at its first NUL, the terminator at the latest.
len == LET nuls == {i \in 0..(Len(line) - 1) : line[i + 1] = "NUL"}
       IN  IF nuls = {} THEN Len(line) ELSE CHOOSE i \in nuls : \A j \in nuls : i <= j

At(p) == IF p < len THEN line[p + 1] ELSE "NUL"

Alnum == Letters \cup Digits \cup {"_"}

\* The first position from p on that holds no character of a class.
After(p, class) ==
  CHOOSE q \in p..len : At(q) \notin class /\ \A r \in p..(q - 1) : At(r) \in class

Text(p, q) == SubSeq(line, p + 1, q)

\* Seeded fault: a position past the end of the line is not brought back.
SkipUnclamped(p) == IF p = len THEN len ELSE IF p > len THEN p ELSE After(p, Spaces)

\* _lexer_skip_to_next_token: where it leaves *pos.
Skip(p) == IF p >= len THEN len ELSE After(p, Spaces)

\* What _lexer_skip_to_next_token returns, given where it has arrived.
Found(p) == p # len /\ At(p) # ";"

-----------------------------------------------------------------------------
(* Tokens. A token is its type, its text and where the next one may start. *)

Refused == [type |-> "REFUSED", value |-> << >>, next |-> 0]

\* set_token_len: no empty text, and none that does not fit its array.
Token(type, p, q, next) ==
  IF q > p /\ q - p + 1 <= MaxValueLen
  THEN [type |-> type, value |-> Text(p, q), next |-> next]
  ELSE Refused

\* A string ends at the next quote, which has to be there.
set_token_string(p) ==
  LET q == After(p + 1, Characters \ {"quote", "NUL"})
  IN  IF At(q) = "NUL" THEN Refused ELSE Token("TOKEN_STRING", p + 1, q, q + 1)

\* Seeded fault: the colon and the space after it are taken for granted.
set_token_labelGreedy(p) ==
  LET q == After(p + 1, Alnum)
  IN  IF q - p < 2 THEN Refused ELSE Token("TOKEN_LABEL", p, q, q + 2)

\* The character after a label is passed over, whatever it is.
set_token_label(p) ==
  LET q == After(p + 1, Alnum)
  IN  IF q - p < 2 THEN Refused ELSE Token("TOKEN_LABEL", p, q, q + 1)

\* Seeded fault: the character after a number is passed over, as after a label.
set_token_numberSkips(p) ==
  LET q == After(IF At(p) = "-" THEN p + 1 ELSE p, Digits)
  IN  Token("TOKEN_NUMBER", p, q, q + 1)

set_token_number(p) ==
  LET q == After(IF At(p) = "-" THEN p + 1 ELSE p, Digits)
  IN  Token("TOKEN_NUMBER", p, q, q)

\* Seeded fault: a word is known by its beginning.
classifyByPrefix(word) ==
  IF \E k \in 1..Len(word) : SubSeq(word, 1, k) \in DOMAIN Keywords
  THEN Keywords[SubSeq(word, 1, CHOOSE k \in 1..Len(word) : SubSeq(word, 1, k) \in DOMAIN Keywords)]
  ELSE "TOKEN_IDENTIFIER"

lexer_classify_word(word) ==
  IF word \in DOMAIN Keywords THEN Keywords[word] ELSE "TOKEN_IDENTIFIER"

set_token_word(p) ==
  LET q == After(IF At(p) = "." THEN p + 1 ELSE p, Alnum)
  IN  Token(lexer_classify_word(Text(p, q)), p, q, q)

StartsNumber(p) == At(p) \in Digits \/ (At(p) = "-" /\ At(p + 1) \in Digits)

\* The kinds of tokens differ in their first characters.
set_next_token(p) ==
  CASE p >= len                           -> Refused
    [] At(p) \in DOMAIN Single            -> Token(Single[At(p)], p, p + 1, p + 1)
    [] At(p) = "quote"                    -> set_token_string(p)
    [] At(p) = "@"                        -> set_token_label(p)
    [] StartsNumber(p)                    -> set_token_number(p)
    [] At(p) \in Letters \cup {"."}       -> set_token_word(p)
    [] OTHER                              -> Token("TOKEN_UNKNOWN", p, p + 1, p + 1)

-----------------------------------------------------------------------------
(* The array of tokens.                                                    *)

Full == Len(tokens) + 1 > capacity

\* Seeded fault: the array grows one token too late.
ensure_capacityLate == IF Len(tokens) > capacity THEN 2 * capacity ELSE capacity

\* tok_arr_ensure_capacity for one more token.
ensure_capacity == IF Full THEN 2 * capacity ELSE capacity

\* tok_arr_deinit, and NULL is returned.
GiveUp(memory) ==
  /\ lexing' = "refused" /\ tokens' = << >> /\ capacity' = 0 /\ starved' = memory

tok_arr_init ==
  /\ reading = "line" /\ lexing = "idle" /\ pos' = 0
  /\ \/ /\ lexing' = "tokens" /\ tokens' = << >> /\ capacity' = InitialTokens
        /\ UNCHANGED starved
     \/ MemoryFails /\ GiveUp(TRUE)

\* One turn of the loop of lexer_tokenize_line.
NextToken ==
  LET p == Skip(pos)
      token == set_next_token(p)
  IN  /\ lexing = "tokens" /\ Found(p)
      /\ \/ /\ token # Refused
            /\ tokens' = Append(tokens, [type |-> token.type, value |-> token.value, from |-> p])
            /\ pos' = token.next
            /\ capacity' = ensure_capacity
            /\ UNCHANGED <<lexing, starved>>
         \/ token = Refused /\ GiveUp(FALSE) /\ pos' = p + 1
         \/ Full /\ MemoryFails /\ GiveUp(TRUE) /\ pos' = p

\* The loop has ended: TOKEN_EOF is appended.
EndOfTokens ==
  LET p == Skip(pos) IN
  /\ lexing = "tokens" /\ ~Found(p) /\ pos' = p
  /\ \/ /\ lexing' = "done" /\ capacity' = ensure_capacity /\ UNCHANGED starved
        /\ tokens' = Append(tokens, [type |-> "TOKEN_EOF", value |-> << >>, from |-> p])
     \/ Full /\ MemoryFails /\ GiveUp(TRUE)

lexer_tokenize_line == (tok_arr_init \/ NextToken \/ EndOfTokens) /\ UNCHANGED lineVars

\* passes_line has used the tokens and frees them; the pass reads the next line.
lexer_free_tokens ==
  /\ lexing = "done"
  /\ lexing' = "idle" /\ pos' = 0 /\ tokens' = << >> /\ capacity' = 0
  /\ reading' = "call"
  /\ UNCHANGED <<line, n, held, starved>>

\* A refused line ends the pass, and so does -1 from fu_getline.
Ended == (lexing = "refused" \/ reading = "over") /\ UNCHANGED <<lineVars, lexVars>>

-----------------------------------------------------------------------------

vars == <<lineVars, lexVars>>

Init == LineInit /\ LexInit

ReadLine == lexing = "idle" /\ fu_getline /\ UNCHANGED lexVars

Next == ReadLine \/ lexer_tokenize_line \/ lexer_free_tokens \/ Ended

Spec == Init /\ [][Next]_vars

-----------------------------------------------------------------------------
(* Properties.                                                             *)

TypeOK ==
  /\ LineTypeOK
  /\ lexing \in {"idle", "tokens", "done", "refused"}
  /\ pos \in 0..(len + 1)
  /\ tokens \in Seq([type : TokenTypes, value : Seq(Characters), from : Nat])
  /\ capacity \in Nat /\ starved \in BOOLEAN

\* Positions the text of token k takes, the quotes of a string included.
Span(k) ==
  LET length == Len(tokens[k].value) + (IF tokens[k].type = "TOKEN_STRING" THEN 2 ELSE 0)
  IN  tokens[k].from..(tokens[k].from + length - 1)

AfterLabel == {tokens[k].from + Len(tokens[k].value) :
                 k \in {j \in DOMAIN tokens : tokens[j].type = "TOKEN_LABEL"}}

\* Nothing of a line is lost before its first comment or NUL, and nothing is
\* read twice: a character is white space, part of exactly one token, or the
\* one character after a label that the lexer passes over.
EveryCharacterOnce ==
  lexing = "done" =>
    /\ \A p \in 0..(pos - 1) :
         At(p) \in Spaces \/ p \in AfterLabel \/ \E k \in DOMAIN tokens : p \in Span(k)
    /\ \A j, k \in DOMAIN tokens : j < k => \A p \in Span(j) : p < tokens[k].from
    /\ pos = len \/ At(pos) = ";"

\* No word, label or number stops while the text goes on with its characters,
\* and a word is a keyword exactly when the whole of it is in the table.
WordsAreWhole ==
  \A k \in DOMAIN tokens :
    LET token  == tokens[k]
        next   == At(token.from + Len(token.value))
        isWord == token.type # "TOKEN_STRING" /\ token.value # << >>
                    /\ token.value[1] \in Letters \cup {"."}
    IN  /\ token.type = "TOKEN_LABEL" \/ isWord => next \notin Alnum
        /\ token.type = "TOKEN_NUMBER" => next \notin Digits
        /\ isWord => token.type = IF token.value \in DOMAIN Keywords
                                 THEN Keywords[token.value] ELSE "TOKEN_IDENTIFIER"

\* The token array never holds more tokens than its memory, TOKEN_EOF included,
\* and the tokens handed to the parser end with the only TOKEN_EOF.
TokensFitArray ==
  /\ Len(tokens) <= capacity
  /\ \A k \in DOMAIN tokens :
       tokens[k].type = "TOKEN_EOF" <=> (lexing = "done" /\ k = Len(tokens))

\* Without a failed allocation a line is refused only for a text in it: a quote
\* or an @ that begins nothing, or a text that is too long. A label that ends
\* the line, whose position is past the terminator, is no reason.
RefusedForItsText ==
  lexing = "refused" /\ ~starved =>
    LET p == pos - 1 IN
    /\ p < len
    /\ \/ At(p) = "quote" /\ At(p + 1) = "quote"
       \/ At(p) = "quote" /\ \A q \in (p + 1)..len : At(q) # "quote"
       \/ At(p) = "@" /\ At(p + 1) \notin Alnum
       \/ At(p) \in Alnum \cup {".", "@", "quote", "-"} /\ len - p >= MaxValueLen
=============================================================================
