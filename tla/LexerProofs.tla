---------------------------- MODULE LexerProofs ----------------------------
(***************************************************************************)
(* Theorems about the line buffer and the lexer, for files of any          *)
(* characters, lines of any length and any table of words.                 *)
(***************************************************************************)
EXTENDS Lexer, CommonLemmas, TLAPS

\* Except where a first allocation has failed, *n is what the buffer holds; it is
\* NULL only before the first line or after that failure. The multiplication of
\* *n while the line is read keeps both equal, whichever call of fu_getline it is.
BufferInv ==
  /\ reading \in {"call", "chars", "line", "over"}
  /\ line \in Seq(Characters)
  /\ n \in Nat /\ held \in Nat
  /\ held # 0 => n = held
  /\ reading \in {"chars", "line"} => Len(line) < held

\* Every step of fu_getline keeps it.
LEMMA GetLineKeepsBuffer ==
  ASSUME BufferInv, fu_getline
  PROVE  BufferInv'
<1> USE DEF BufferInv
<1>1. CASE Begin
  BY <1>1, LineBufferAssumption DEF Begin
<1>2. CASE EndOfInput
  BY <1>2 DEF EndOfInput
<1>3. ASSUME NEW ch \in Characters, Store(ch)
      PROVE  BufferInv'
  <2>1. CASE line' = Append(line, ch)
    <3>1. line' \in Seq(Characters) /\ Len(line') = Len(line) + 1
      BY <2>1
    <3>2. CASE NoRoom
      BY <1>3, <2>1, <3>1, <3>2 DEF Store, NoRoom, Multiplier
    <3>3. CASE ~NoRoom
      BY <1>3, <2>1, <3>1, <3>3 DEF Store, NoRoom
    <3> QED
      BY <3>2, <3>3
  <2>2. CASE reading' = "over" /\ UNCHANGED <<line, n, held>>
    BY <2>2
  <2> QED
    BY <1>3, <2>1, <2>2 DEF Store
<1> QED
  BY <1>1, <1>2, <1>3 DEF fu_getline

\* Nothing else touches the buffer: the lexer only reads the line.
LEMMA StepKeepsBuffer ==
  ASSUME BufferInv, [Next]_vars
  PROVE  BufferInv'
<1>1. CASE ReadLine
  BY <1>1, GetLineKeepsBuffer DEF ReadLine
<1>2. CASE lexer_tokenize_line
  BY <1>2 DEF lexer_tokenize_line, lineVars, BufferInv
<1>3. CASE lexer_free_tokens
  BY <1>3 DEF lexer_free_tokens, BufferInv
<1>4. CASE Ended
  BY <1>4 DEF Ended, lineVars, BufferInv
<1>5. CASE UNCHANGED vars
  BY <1>5 DEF vars, lineVars, BufferInv
<1> QED
  BY <1>1, <1>2, <1>3, <1>4, <1>5 DEF Next

\* Over any number of calls of fu_getline with one buffer, for lines of any
\* length and with any allocation failing: the line and its terminator stay
\* within the memory that was allocated, and *n never promises more of it.
THEOREM LinesFitTheirBuffer == Spec => []LineFitsBuffer
<1>1. Init => BufferInv
  BY DEF Init, LineInit, BufferInv
<1>2. BufferInv /\ [Next]_vars => BufferInv'
  BY StepKeepsBuffer
<1>3. BufferInv => LineFitsBuffer
  BY DEF BufferInv, LineFitsBuffer
<1> QED
  BY <1>1, <1>2, <1>3, PTL DEF Spec

\* The length of the line: the first NUL in it, or its end.
LEMMA LengthOfLine ==
  ASSUME line \in Seq(Characters)
  PROVE  /\ len \in 0..Len(line) /\ At(len) = "NUL"
         /\ \A p \in 0..(len - 1) : At(p) # "NUL" /\ At(p) = line[p + 1] /\ At(p) \in Characters
<1> DEFINE nuls == {i \in 0..(Len(line) - 1) : line[i + 1] = "NUL"}
<1>1. CASE nuls = {}
  <2>1. len = Len(line)
    BY <1>1 DEF len
  <2>2. ASSUME NEW p \in 0..(Len(line) - 1)
        PROVE  line[p + 1] # "NUL" /\ line[p + 1] \in Characters
    <3>1. p \notin nuls
      BY <1>1
    <3> QED
      BY <3>1
  <2> QED
    BY <2>1, <2>2 DEF At
<1>2. CASE nuls # {}
  <2>1. \E i \in nuls : \A j \in nuls : i <= j
    <3>1. nuls \subseteq Nat
      OBVIOUS
    <3> HIDE DEF nuls
    <3> QED
      BY <1>2, <3>1, LeastNatural
  <2>2. len \in nuls /\ \A j \in nuls : len <= j
    <3>1. len = CHOOSE i \in nuls : \A j \in nuls : i <= j
      BY <1>2 DEF len
    <3> HIDE DEF nuls
    <3> QED
      BY <2>1, <3>1
  <2>3. /\ len \in 0..(Len(line) - 1)
        /\ \A p \in 0..(len - 1) : line[p + 1] # "NUL" /\ line[p + 1] \in Characters
    BY <2>2
  <2> QED
    BY <2>3 DEF At
<1> QED
  BY <1>1, <1>2

\* A class without NUL ends on the line.
LEMMA AfterClass ==
  ASSUME line \in Seq(Characters), NEW class, "NUL" \notin class, NEW p \in 0..len
  PROVE  /\ After(p, class) \in p..len /\ At(After(p, class)) \notin class
         /\ \A r \in p..(After(p, class) - 1) : At(r) \in class
<1> DEFINE out == {q \in p..len : At(q) \notin class}
<1>1. len \in Nat /\ At(len) = "NUL"
  BY LengthOfLine
<1>2. PICK q \in out : \A m \in out : q <= m
  <2>1. out \subseteq Nat /\ len \in out
    BY <1>1
  <2> HIDE DEF out
  <2> QED
    BY <2>1, LeastNatural
<1>3. \E s \in p..len : At(s) \notin class /\ \A r \in p..(s - 1) : At(r) \in class
  BY <1>1, <1>2
<1> QED
  BY <1>3 DEF After

\* The characters between two positions of a line.
LEMMA TextOfLine ==
  ASSUME line \in Seq(Characters), NEW p \in 0..len, NEW q \in p..len
  PROVE  /\ Text(p, q) \in Seq(Characters) /\ Len(Text(p, q)) = q - p
         /\ q > p => Text(p, q)[1] = At(p)
<1>1. len \in 0..Len(line)
  BY LengthOfLine
<1>2. p + 1 \in 1..(Len(line) + 1) /\ q \in Nat /\ q <= Len(line)
  BY <1>1
<1>3. Text(p, q) \in Seq(Characters) /\ Len(Text(p, q)) = q - p
  BY <1>2 DEF Text
<1>4. ASSUME q > p
      PROVE  Text(p, q)[1] = At(p)
  BY <1>1, <1>2, <1>4 DEF Text, At
<1> QED
  BY <1>3, <1>4

\* A token is refused for its text alone.
LEMMA TokenOfText ==
  ASSUME line \in Seq(Characters), NEW p \in 0..len, NEW q \in p..len,
         NEW type \in TokenTypes, NEW next
  PROVE  \/ /\ Token(type, p, q, next) = Refused
            /\ q = p \/ q - p >= MaxValueLen
         \/ /\ Token(type, p, q, next) = [type |-> type, value |-> Text(p, q), next |-> next]
            /\ Token(type, p, q, next) # Refused /\ q > p
<1>1. MaxValueLen \in Nat /\ q \in Int /\ p \in Int
  BY LexerAssumption, LengthOfLine
<1>2. [type |-> type, value |-> Text(p, q), next |-> next] # Refused
  <2>1. type # "REFUSED"
    BY DEF TokenTypes, SingleTypes, KeywordTypes
  <2> QED
    BY <2>1 DEF Refused
<1> QED
  BY <1>1, <1>2 DEF Token

SpanLength(t) == Len(t.value) + (IF t.type = "TOKEN_STRING" THEN 2 ELSE 0)

\* A token is a whole word, label or number of the line.
WholeText(t) ==
  LET next   == At(t.from + Len(t.value))
      isWord == t.type # "TOKEN_STRING" /\ t.value[1] \in Letters \cup {"."}
  IN  /\ t.type = "TOKEN_LABEL" \/ isWord => next \notin Alnum
      /\ t.type = "TOKEN_NUMBER" => next \notin Digits
      /\ isWord => t.type = IF t.value \in DOMAIN Keywords
                            THEN Keywords[t.value] ELSE "TOKEN_IDENTIFIER"

TokenRecords == [type : TokenTypes, value : Seq(Characters), from : Nat]

\* What set_next_token makes of the line at t.from.
OnLine(t) ==
  /\ t \in TokenRecords /\ t.type # "TOKEN_EOF"
  /\ Len(t.value) > 0 /\ t.from + SpanLength(t) <= len
  /\ WholeText(t)

TokenAt(p) == [type |-> set_next_token(p).type, value |-> set_next_token(p).value, from |-> p]

\* What set_next_token promises of a token it sets at p: where the next one may start.
SetAt(p) ==
  /\ OnLine(TokenAt(p))
  /\ set_next_token(p).next = IF TokenAt(p).type = "TOKEN_LABEL"
                              THEN p + Len(TokenAt(p).value) + 1 ELSE p + SpanLength(TokenAt(p))

\* What has to be wrong with the text at p when a token is refused.
BadText(p) ==
  \/ At(p) = "quote" /\ At(p + 1) = "quote"
  \/ At(p) = "quote" /\ \A q \in (p + 1)..len : At(q) # "quote"
  \/ At(p) = "@" /\ At(p + 1) \notin Alnum
  \/ At(p) \in Alnum \cup {".", "@", "quote", "-"} /\ len - p >= MaxValueLen

\* The classes as facts for the provers.
LEMMA Classes ==
  /\ \A c \in Named : c \notin Letters /\ c \notin Digits /\ c \notin Spaces /\ c \notin DOMAIN Single
  /\ \A c \in Letters : c \notin Digits /\ c \notin DOMAIN Single
  /\ \A c \in Digits : c \notin DOMAIN Single
  /\ Named \subseteq Characters /\ Alnum \subseteq Characters /\ "NUL" \notin Alnum
BY LexerAssumption DEF Named, Alnum

\* A token whose text begins at p and ends where its class of characters does.
LEMMA TokenSet ==
  ASSUME line \in Seq(Characters), NEW p \in 0..(len - 1), NEW q \in p..len,
         NEW type \in TokenTypes \ {"TOKEN_EOF", "TOKEN_STRING"},
         NEW next, next = IF type = "TOKEN_LABEL" THEN q + 1 ELSE q,
         set_next_token(p) = Token(type, p, q, next),
         type = "TOKEN_LABEL" => At(q) \notin Alnum,
         type = "TOKEN_NUMBER" => At(q) \notin Digits,
         At(p) \in Letters \cup {"."} =>
           /\ At(q) \notin Alnum
           /\ type = IF Text(p, q) \in DOMAIN Keywords THEN Keywords[Text(p, q)]
                     ELSE "TOKEN_IDENTIFIER"
  PROVE  \/ set_next_token(p) # Refused /\ SetAt(p)
         \/ set_next_token(p) = Refused /\ (q = p \/ q - p >= MaxValueLen)
<1>1. len \in Nat /\ p \in Nat /\ p \in 0..len /\ q \in Nat
  BY LengthOfLine
<1>2. SUFFICES ASSUME /\ set_next_token(p) = [type |-> type, value |-> Text(p, q), next |-> next]
                      /\ set_next_token(p) # Refused
                      /\ q > p
               PROVE  SetAt(p)
  BY <1>1, TokenOfText
<1>3. /\ Text(p, q) \in Seq(Characters) /\ Len(Text(p, q)) = q - p /\ Text(p, q)[1] = At(p)
  BY <1>1, <1>2, TextOfLine
<1>4. TokenAt(p) = [type |-> type, value |-> Text(p, q), from |-> p]
  BY <1>2 DEF TokenAt
<1> DEFINE t == TokenAt(p)
<1>5. t \in TokenRecords /\ t.type = type /\ t.value = Text(p, q) /\ t.from = p
  BY <1>1, <1>3, <1>4 DEF TokenRecords
<1> HIDE DEF t
<1>6. Len(t.value) = q - p /\ SpanLength(t) = q - p
  BY <1>1, <1>3, <1>5 DEF SpanLength
<1>7. Len(t.value) > 0 /\ t.from + SpanLength(t) <= len /\ t.from + Len(t.value) = q
  BY <1>1, <1>2, <1>5, <1>6
<1>8. WholeText(t)
  BY <1>3, <1>5, <1>7 DEF WholeText
<1>9. set_next_token(p).next = IF t.type = "TOKEN_LABEL" THEN p + Len(t.value) + 1 ELSE p + SpanLength(t)
  BY <1>1, <1>2, <1>5, <1>6
<1> QED
  BY <1>5, <1>7, <1>8, <1>9 DEF SetAt, OnLine, t

\* The text of a string begins after its quote and ends before the next one.
LEMMA StringSet ==
  ASSUME line \in Seq(Characters), NEW p \in 0..(len - 1), At(p) = "quote",
         set_next_token(p) = set_token_string(p)
  PROVE  \/ set_next_token(p) # Refused /\ SetAt(p)
         \/ set_next_token(p) = Refused /\ BadText(p)
<1> DEFINE class == Characters \ {"quote", "NUL"}
<1>1. len \in Nat /\ p \in Nat /\ p + 1 \in 0..len
  BY LengthOfLine
<1>2. PICK b \in 0..len : b = p + 1
  BY <1>1
<1>3. PICK q \in b..len : /\ q = After(b, class) /\ At(q) \notin class
                          /\ \A r \in b..(q - 1) : At(r) \in class
  <2>1. "NUL" \notin class
    OBVIOUS
  <2> HIDE DEF class
  <2> QED
    BY <2>1, <1>2, AfterClass
<1>4. At(q) \in {"quote", "NUL"}
  <2>1. At(q) \in Characters
    BY LengthOfLine, LineBufferAssumption
  <2> QED
    BY <1>3, <2>1
<1>5. set_next_token(p) = IF At(q) = "NUL" THEN Refused ELSE Token("TOKEN_STRING", b, q, q + 1)
  BY <1>2, <1>3 DEF set_token_string
<1>6. CASE At(q) = "NUL"
  <2>1. q = len
    BY <1>1, <1>2, <1>3, <1>6, LengthOfLine
  <2>2. ASSUME NEW r \in (p + 1)..len
        PROVE  At(r) # "quote"
    <3>1. r = q \/ r \in b..(q - 1)
      BY <1>1, <1>2, <2>1
    <3> QED
      BY <1>3, <1>6, <3>1
  <2> QED
    BY <1>5, <1>6, <2>2 DEF BadText
<1>7. CASE At(q) # "NUL"
  <2>1. At(q) = "quote" /\ q # len
    BY <1>4, <1>7, LengthOfLine
  <2>2. SUFFICES ASSUME /\ set_next_token(p) = [type |-> "TOKEN_STRING", value |-> Text(b, q), next |-> q + 1]
                        /\ set_next_token(p) # Refused
                        /\ q > b
                 PROVE  SetAt(p)
    <3> "TOKEN_STRING" \in TokenTypes
      BY DEF TokenTypes
    <3>1. \/ /\ set_next_token(p) = Refused
             /\ q = b \/ q - b >= MaxValueLen
          \/ /\ set_next_token(p) = [type |-> "TOKEN_STRING", value |-> Text(b, q), next |-> q + 1]
             /\ set_next_token(p) # Refused /\ q > b
      BY <1>5, <1>7, TokenOfText
    <3>2. q - b >= MaxValueLen => len - p >= MaxValueLen
      BY <1>1, <1>2, LexerAssumption
    <3> QED
      BY <1>2, <2>1, <3>1, <3>2 DEF BadText
  <2>3. Text(b, q) \in Seq(Characters) /\ Len(Text(b, q)) = q - b
    BY TextOfLine
  <2>4. TokenAt(p) = [type |-> "TOKEN_STRING", value |-> Text(b, q), from |-> p]
    BY <2>2 DEF TokenAt
  <2> DEFINE t == TokenAt(p)
  <2>5. t \in TokenRecords /\ t.type = "TOKEN_STRING" /\ t.value = Text(b, q) /\ t.from = p
    BY <1>1, <2>3, <2>4 DEF TokenRecords, TokenTypes
  <2> HIDE DEF t
  <2>6. Len(t.value) = q - b /\ SpanLength(t) = q - b + 2
    BY <2>3, <2>5 DEF SpanLength
  <2>7. Len(t.value) > 0 /\ t.from + SpanLength(t) <= len
    BY <1>1, <1>2, <2>1, <2>2, <2>5, <2>6
  <2>8. WholeText(t)
    BY <2>5 DEF WholeText
  <2>9. set_next_token(p).next = p + SpanLength(t)
    BY <1>1, <1>2, <2>2, <2>6
  <2> QED
    BY <2>5, <2>7, <2>8, <2>9 DEF SetAt, OnLine, t
<1> QED
  BY <1>6, <1>7

\* set_next_token sets a token that is whole, or there is a fault in the text.
LEMMA NextTokenSet ==
  ASSUME line \in Seq(Characters), NEW p \in 0..(len - 1)
  PROVE  \/ set_next_token(p) # Refused /\ SetAt(p)
         \/ set_next_token(p) = Refused /\ BadText(p)
<1> DEFINE c == At(p)
<1>1. len \in Nat /\ p \in Nat /\ p \in 0..len
  BY LengthOfLine
<1>2. PICK b \in p..len : b = p + 1
  BY <1>1
<1>3. b \in 0..len /\ b - p = 1 /\ MaxValueLen \in Nat /\ MaxValueLen > 1
  BY <1>1, <1>2, LexerAssumption
<1>4. "NUL" \notin Alnum /\ "NUL" \notin Digits
  BY Classes DEF Named, Alnum
<1>5. c \in Letters \/ c \in Digits => c \in Alnum
  BY DEF Alnum
<1>6. ASSUME NEW class \in {Alnum, Digits}, NEW from \in {p, b}
       PROVE  /\ After(from, class) \in p..len /\ At(After(from, class)) \notin class
              /\ from = b => After(from, class) \in b..len
              /\ from = p /\ c \in class => After(from, class) # p
  <2>1. "NUL" \notin class
    BY <1>4
  <2>2. from \in 0..len
    BY <1>1, <1>3
  <2>3. After(from, class) \in from..len /\ At(After(from, class)) \notin class
    BY <2>1, <2>2, AfterClass
  <2> HIDE DEF c
  <2> QED
    BY <1>1, <1>2, <2>3 DEF c
<1>7. CASE c \in DOMAIN Single
  <2>1. set_next_token(p) = Token(Single[c], p, b, b)
    <3>1. c \notin Named /\ c \notin Letters \cup Digits
      BY <1>7, Classes
    <3>2. c # "quote" /\ c # "@" /\ ~StartsNumber(p) /\ c \notin Letters \cup {"."}
      BY <3>1 DEF Named, StartsNumber
    <3>3. ~(p >= len)
      BY <1>1
    <3> QED
      BY <1>2, <1>7, <3>2, <3>3 DEF set_next_token
  <2>2. /\ Single[c] \in TokenTypes \ {"TOKEN_EOF", "TOKEN_STRING"}
        /\ Single[c] \notin {"TOKEN_LABEL", "TOKEN_NUMBER"}
    BY <1>7, LexerAssumption DEF TokenTypes, SingleTypes
  <2>3. c \notin Letters \cup {"."}
    BY <1>7, Classes DEF Named
  <2> HIDE DEF c
  <2> QED
    BY <1>2, <1>3, <2>1, <2>2, <2>3, TokenSet DEF c
<1>8. CASE c = "quote"
  <2>1. set_next_token(p) = set_token_string(p)
    <3>1. c \notin DOMAIN Single /\ c \notin Letters /\ c \notin Digits
      BY <1>8, Classes DEF Named
    <3>2. ~(p >= len) /\ c \notin DOMAIN Single /\ ~StartsNumber(p) /\ c \notin Letters \cup {"."}
      BY <1>1, <1>8, <3>1 DEF StartsNumber
    <3> QED
      BY <1>8, <3>2 DEF set_next_token
  <2> QED
    BY <1>8, <2>1, StringSet
<1>9. CASE c = "@"
  <2>1. set_next_token(p) = set_token_label(p)
    <3>1. c \notin DOMAIN Single /\ c \notin Letters /\ c \notin Digits
      BY <1>9, Classes DEF Named
    <3>2. ~(p >= len) /\ c \notin DOMAIN Single /\ ~StartsNumber(p) /\ c \notin Letters \cup {"."}
      BY <1>1, <1>9, <3>1 DEF StartsNumber
    <3> QED
      BY <1>9, <3>2 DEF set_next_token
  <2>2. PICK q \in b..len : q = After(b, Alnum) /\ At(q) \notin Alnum
    BY <1>6
  <2>3. set_next_token(p) = IF q - p < 2 THEN Refused ELSE Token("TOKEN_LABEL", p, q, q + 1)
    BY <1>2, <2>1, <2>2 DEF set_token_label
  <2>4. CASE q - p < 2
    <3>1. q = b
      BY <1>1, <1>2, <2>2, <2>4
    <3> QED
      BY <1>2, <1>9, <2>2, <2>3, <2>4, <3>1 DEF BadText
  <2>5. CASE ~(q - p < 2)
    <3>1. q \in p..len /\ q # p /\ (q - p >= MaxValueLen => len - p >= MaxValueLen)
      BY <1>1, <1>2, <1>3, <2>2
    <3>2. "TOKEN_LABEL" \in TokenTypes \ {"TOKEN_EOF", "TOKEN_STRING"}
      BY DEF TokenTypes
    <3>3. c \notin Letters \cup {"."}
      BY <1>9, Classes DEF Named
    <3>4. \/ set_next_token(p) # Refused /\ SetAt(p)
          \/ set_next_token(p) = Refused /\ (q = p \/ q - p >= MaxValueLen)
      BY <2>2, <2>3, <2>5, <3>1, <3>2, <3>3, TokenSet
    <3> QED
      BY <1>9, <3>1, <3>4 DEF BadText
  <2> QED
    BY <2>4, <2>5
<1>10. CASE StartsNumber(p)
  <2>1. c \in Digits \/ c = "-"
    BY <1>10 DEF StartsNumber
  <2>2. set_next_token(p) = set_token_number(p)
    <3>1. c \notin DOMAIN Single /\ c \notin Letters /\ c \notin {"quote", "@", "."}
      BY <2>1, Classes DEF Named
    <3>2. ~(p >= len) /\ c \notin DOMAIN Single /\ c # "quote" /\ c # "@" /\ c \notin Letters \cup {"."}
      BY <1>1, <3>1
    <3> QED
      BY <1>10, <3>2 DEF set_next_token
  <2>3. PICK q \in p..len : /\ q = After(IF c = "-" THEN b ELSE p, Digits)
                            /\ At(q) \notin Digits /\ q # p
    <3>1. CASE c = "-"
      BY <1>1, <1>2, <1>6, <3>1
    <3>2. CASE c # "-"
      BY <1>6, <2>1, <3>2
    <3> QED
      BY <3>1, <3>2
  <2>4. set_next_token(p) = Token("TOKEN_NUMBER", p, q, q)
    BY <1>2, <2>2, <2>3 DEF set_token_number
  <2>5. c \notin Letters \cup {"."} /\ c \in Alnum \cup {"-"}
    BY <1>5, <2>1, Classes DEF Named
  <2>6. "TOKEN_NUMBER" \in TokenTypes \ {"TOKEN_EOF", "TOKEN_STRING"}
    BY DEF TokenTypes
  <2>7. q - p >= MaxValueLen => len - p >= MaxValueLen
    BY <1>1, <1>3
  <2> QED
    BY <2>3, <2>4, <2>5, <2>6, <2>7, TokenSet DEF BadText
<1>11. CASE c \in Letters \cup {"."}
  <2>1. set_next_token(p) = set_token_word(p)
    <3>1. c \notin DOMAIN Single /\ c \notin Digits /\ c \notin {"quote", "@", "-"}
      BY <1>11, Classes DEF Named
    <3>2. ~(p >= len) /\ c \notin DOMAIN Single /\ c # "quote" /\ c # "@" /\ ~StartsNumber(p)
      BY <1>1, <3>1 DEF StartsNumber
    <3> QED
      BY <1>11, <3>2 DEF set_next_token
  <2>2. PICK q \in p..len : /\ q = After(IF c = "." THEN b ELSE p, Alnum)
                            /\ At(q) \notin Alnum /\ q # p
    <3>1. CASE c = "."
      BY <1>1, <1>2, <1>6, <3>1
    <3>2. CASE c # "."
      <4>1. c \in Alnum
        BY <1>11, <1>5, <3>2
      <4> QED
        BY <1>6, <3>2, <4>1
    <3> QED
      BY <3>1, <3>2
  <2> DEFINE type == lexer_classify_word(Text(p, q))
  <2>3. set_next_token(p) = Token(type, p, q, q)
    BY <1>2, <2>1, <2>2 DEF set_token_word
  <2>4. /\ type \in TokenTypes \ {"TOKEN_EOF", "TOKEN_STRING"}
        /\ type \notin {"TOKEN_LABEL", "TOKEN_NUMBER"}
    BY LexerAssumption DEF TokenTypes, KeywordTypes, lexer_classify_word
  <2>5. type = IF Text(p, q) \in DOMAIN Keywords THEN Keywords[Text(p, q)] ELSE "TOKEN_IDENTIFIER"
    BY DEF lexer_classify_word
  <2>6. q - p >= MaxValueLen => len - p >= MaxValueLen
    BY <1>1, <1>3
  <2> HIDE DEF type
  <2>7. \/ set_next_token(p) # Refused /\ SetAt(p)
        \/ set_next_token(p) = Refused /\ (q = p \/ q - p >= MaxValueLen)
    BY <2>2, <2>3, <2>4, <2>5, TokenSet
  <2> QED
    <3>1. c \in Alnum \cup {".", "@", "quote", "-"}
      BY <1>11, <1>5
    <3> QED
      BY <2>2, <2>6, <2>7, <3>1 DEF BadText
<1>12. CASE /\ c \notin DOMAIN Single /\ c \notin Letters \cup {"."} /\ c # "quote" /\ c # "@"
            /\ ~StartsNumber(p)
  <2>1. set_next_token(p) = Token("TOKEN_UNKNOWN", p, b, b)
    BY <1>1, <1>2, <1>12 DEF set_next_token
  <2>2. "TOKEN_UNKNOWN" \in TokenTypes \ {"TOKEN_EOF", "TOKEN_STRING"}
    BY DEF TokenTypes
  <2> QED
    BY <1>2, <1>3, <1>12, <2>1, <2>2, TokenSet
<1> QED
  BY <1>7, <1>8, <1>9, <1>10, <1>11, <1>12

\* Where the next token starts, if there is one.
LEMMA SkipsSpaces ==
  ASSUME line \in Seq(Characters), NEW p \in 0..(len + 1)
  PROVE  /\ Skip(p) \in 0..len
         /\ p <= len => p <= Skip(p)
         /\ \A r \in p..(Skip(p) - 1) : At(r) \in Spaces
         /\ Found(Skip(p)) => Skip(p) \in 0..(len - 1)
<1>1. len \in Nat
  BY LengthOfLine
<1>2. CASE p >= len
  BY <1>1, <1>2 DEF Skip, Found
<1>3. CASE p < len
  <2>1. p \in 0..len
    BY <1>1, <1>3
  <2>2. "NUL" \notin Spaces
    BY Classes DEF Named
  <2>3. Skip(p) = After(p, Spaces)
    BY <1>1, <1>3 DEF Skip
  <2>4. Skip(p) \in p..len /\ \A r \in p..(Skip(p) - 1) : At(r) \in Spaces
    BY <2>1, <2>2, <2>3, AfterClass
  <2>5. Found(Skip(p)) => Skip(p) # len
    BY DEF Found
  <2> QED
    BY <1>1, <2>1, <2>4, <2>5
<1> QED
  BY <1>1, <1>2, <1>3

-----------------------------------------------------------------------------
(* The invariant of the lexer.                                             *)

\* Types, and where the loop of lexer_tokenize_line may stand on the line.
TypesInv ==
  /\ line \in Seq(Characters)
  /\ lexing \in {"idle", "tokens", "done", "refused"}
  /\ tokens \in Seq(TokenRecords) /\ capacity \in Nat /\ starved \in BOOLEAN
  /\ pos \in Nat /\ (lexing = "idle" => pos = 0)
  /\ lexing # "idle" => reading = "line" /\ pos <= len + 1
  /\ lexing \in {"idle", "refused"} => Len(tokens) = 0

\* There is room for every token, and the array can grow as long as it has to.
ArrayInv ==
  /\ Len(tokens) <= capacity
  /\ lexing = "tokens" => capacity > 0
  /\ lexing = "done" => Len(tokens) > 0
  /\ \A k \in DOMAIN tokens :
       tokens[k].type = "TOKEN_EOF" <=> (lexing = "done" /\ k = Len(tokens))

EndOn(p) == [type |-> "TOKEN_EOF", value |-> << >>, from |-> p]

\* Every token is whole; the last one stands where the loop has ended.
TextInv ==
  /\ \A k \in DOMAIN tokens :
       \/ OnLine(tokens[k])
       \/ lexing = "done" /\ tokens[k] = EndOn(pos) /\ pos \in 0..len /\ ~Found(pos)

\* A token that ends before the loop stands, with the character after a label.
Before(t) == t.from + SpanLength(t) <= pos

\* Position p is not lost.
SeenAt(p) ==
  \/ At(p) \in Spaces
  \/ \E k \in DOMAIN tokens : tokens[k].type = "TOKEN_LABEL" /\ p = tokens[k].from + Len(tokens[k].value)
  \/ \E k \in DOMAIN tokens : p \in tokens[k].from..(tokens[k].from + SpanLength(tokens[k]) - 1)

\* Up to where the loop stands every character is seen, and none twice.
CoverInv ==
  lexing \in {"tokens", "done"} =>
    /\ \A p \in 0..(pos - 1) : p < len => SeenAt(p)
    /\ \A k \in DOMAIN tokens : Before(tokens[k])
    /\ \A j, k \in DOMAIN tokens : j < k => tokens[j].from + SpanLength(tokens[j]) <= tokens[k].from

\* A line refused for its text.
RefusalInv == lexing = "refused" /\ ~starved => pos - 1 \in 0..(len - 1) /\ BadText(pos - 1)

LexInv == TypesInv /\ ArrayInv /\ TextInv /\ CoverInv /\ RefusalInv

-----------------------------------------------------------------------------

\* While the line stays, so does all that is said of it.
LEMMA SameLine ==
  ASSUME line' = line
  PROVE  /\ len' = len /\ \A p : At(p)' = At(p) /\ (Found(p)' <=> Found(p))
         /\ \A t : OnLine(t)' <=> OnLine(t)
         /\ \A p : BadText(p)' <=> BadText(p)
<1>1. len' = len
  BY DEF len
<1>2. ASSUME NEW p
      PROVE  At(p)' = At(p) /\ (Found(p)' <=> Found(p))
  BY <1>1 DEF At, Found
<1>3. ASSUME NEW t
      PROVE  OnLine(t)' <=> OnLine(t)
  BY <1>1, <1>2 DEF OnLine, WholeText, SpanLength
<1>4. ASSUME NEW p
      PROVE  BadText(p)' <=> BadText(p)
  BY <1>1, <1>2 DEF BadText
<1> QED
  BY <1>1, <1>2, <1>3, <1>4

\* A step of the lexer that ends in a refusal.
LEMMA GiveUpKeeps ==
  ASSUME TypesInv, reading' = reading, line' = line, NEW memory \in BOOLEAN, GiveUp(memory),
         reading = "line", pos' \in Nat, pos' <= len + 1,
         ~memory => pos' - 1 \in 0..(len - 1) /\ BadText(pos' - 1)
  PROVE  LexInv'
<1>1. len' = len /\ \A p : BadText(p)' <=> BadText(p)
  BY SameLine
<1>2. lexing' = "refused" /\ tokens' = << >> /\ capacity' = 0 /\ starved' = memory
  BY DEF GiveUp
<1>3. tokens' \in Seq(TokenRecords) /\ Len(tokens') = 0 /\ DOMAIN tokens' = {}
  BY <1>2
<1>4. TypesInv'
  BY <1>1, <1>2, <1>3 DEF TypesInv
<1>5. ArrayInv' /\ TextInv'
  BY <1>2, <1>3 DEF ArrayInv, TextInv
<1>6. CoverInv'
  BY <1>2 DEF CoverInv
<1>7. RefusalInv'
  BY <1>1, <1>2 DEF RefusalInv
<1> QED
  BY <1>4, <1>5, <1>6, <1>7 DEF LexInv

\* The array begins empty.
LEMMA InitKeeps ==
  ASSUME LexInv, tok_arr_init, UNCHANGED lineVars
  PROVE  LexInv'
<1>1. /\ reading' = "line" /\ reading = "line" /\ line' = line /\ pos' = 0 /\ lexing = "idle"
      /\ line \in Seq(Characters) /\ len \in Nat
  BY LengthOfLine DEF tok_arr_init, lineVars, LexInv, TypesInv
<1>2. len' = len
  BY <1>1, SameLine
<1>3. CASE /\ lexing' = "tokens" /\ tokens' = << >> /\ capacity' = InitialTokens
           /\ UNCHANGED starved
  <2>1. tokens' \in Seq(TokenRecords) /\ Len(tokens') = 0 /\ DOMAIN tokens' = {}
    BY <1>3
  <2>2. TypesInv'
    BY <1>1, <1>2, <1>3, <2>1, LexerAssumption DEF LexInv, TypesInv
  <2>3. ArrayInv' /\ TextInv'
    BY <1>3, <2>1, LexerAssumption DEF ArrayInv, TextInv
  <2>4. CoverInv' /\ RefusalInv'
    BY <1>1, <1>3, <2>1 DEF CoverInv, RefusalInv
  <2> QED
    BY <2>2, <2>3, <2>4 DEF LexInv
<1>4. CASE GiveUp(TRUE)
  <2>1. TypesInv /\ pos' \in Nat /\ pos' <= len + 1
    BY <1>1 DEF LexInv
  <2> QED
    BY <1>1, <1>4, <2>1, GiveUpKeeps, Zenon
<1> QED
  BY <1>3, <1>4 DEF tok_arr_init

\* The array after a token is appended.
LEMMA AppendedToken ==
  ASSUME tokens \in Seq(TokenRecords), NEW t \in TokenRecords, tokens' = Append(tokens, t)
  PROVE  /\ tokens' \in Seq(TokenRecords) /\ Len(tokens') = Len(tokens) + 1
         /\ DOMAIN tokens' = DOMAIN tokens \cup {Len(tokens) + 1}
         /\ DOMAIN tokens = 1..Len(tokens) /\ Len(tokens) \in Nat
         /\ \A k \in DOMAIN tokens : tokens'[k] = tokens[k] /\ tokens[k] \in TokenRecords
         /\ tokens'[Len(tokens) + 1] = t
OBVIOUS

\* A position of a token and the length of its text are numbers.
LEMMA SpanIsNumber ==
  ASSUME NEW t \in TokenRecords
  PROVE  /\ t.from \in Nat /\ Len(t.value) \in Nat /\ SpanLength(t) \in Nat
         /\ t.type # "TOKEN_STRING" => SpanLength(t) = Len(t.value)
<1>1. t.from \in Nat /\ Len(t.value) \in Nat
  BY DEF TokenRecords
<1>2. SpanLength(t) = Len(t.value) + (IF t.type = "TOKEN_STRING" THEN 2 ELSE 0)
  BY DEF SpanLength
<1>3. CASE t.type = "TOKEN_STRING"
  BY <1>1, <1>2, <1>3
<1>4. CASE t.type # "TOKEN_STRING"
  BY <1>1, <1>2, <1>4
<1> QED
  BY <1>3, <1>4

\* One more token fits, and those before it have ended where it begins.
LEMMA AppendKeeps ==
  ASSUME LexInv, lexing = "tokens", lexing' \in {"tokens", "done"}, reading' = reading,
         line' = line, starved' = starved, capacity' = ensure_capacity,
         NEW t \in TokenRecords, tokens' = Append(tokens, t), t.from = Skip(pos),
         t.type = "TOKEN_EOF" <=> lexing' = "done",
         pos' \in Nat, pos' <= len + 1,
         OnLine(t) \/ (lexing' = "done" /\ t = EndOn(pos') /\ pos' \in 0..len /\ ~Found(pos')),
         t.from + SpanLength(t) <= pos',
         \A r \in t.from..(pos' - 1) : r < len =>
           \/ t.type = "TOKEN_LABEL" /\ r = t.from + Len(t.value)
           \/ r \in t.from..(t.from + SpanLength(t) - 1)
  PROVE  LexInv'
<1> DEFINE p == Skip(pos)
           n1 == Len(tokens) + 1
<1>1. /\ TypesInv /\ line \in Seq(Characters) /\ tokens \in Seq(TokenRecords) /\ capacity \in Nat
      /\ reading = "line" /\ starved \in BOOLEAN
  BY DEF LexInv, TypesInv
<1>2. /\ tokens' \in Seq(TokenRecords) /\ Len(tokens') = n1
      /\ DOMAIN tokens' = DOMAIN tokens \cup {n1}
      /\ DOMAIN tokens = 1..Len(tokens) /\ Len(tokens) \in Nat
      /\ \A k \in DOMAIN tokens : tokens'[k] = tokens[k] /\ tokens[k] \in TokenRecords
      /\ tokens'[n1] = t
  BY <1>1, AppendedToken
<1>3. len \in Nat /\ pos \in 0..(len + 1) /\ p \in 0..len
  BY <1>1, LengthOfLine, SkipsSpaces DEF LexInv, TypesInv
<1>4. (pos <= len => pos <= p) /\ \A r \in pos..(p - 1) : At(r) \in Spaces
  BY <1>1, <1>3, SkipsSpaces
<1>5. /\ len' = len /\ \A r : At(r)' = At(r) /\ (Found(r)' <=> Found(r))
      /\ \A u : OnLine(u)' <=> OnLine(u)
  BY SameLine
<1> HIDE DEF p, n1
<1>6. TypesInv'
  BY <1>1, <1>2, <1>5, LexerAssumption DEF TypesInv, LexInv, ensure_capacity
<1>7. ArrayInv'
  <2>1. Len(tokens) <= capacity /\ capacity > 0
    BY DEF LexInv, ArrayInv
  <2>2. n1 <= capacity' /\ capacity' > 0 /\ n1 > 0
    BY <1>1, <1>2, <2>1 DEF ensure_capacity, Full, n1
  <2>3. \A k \in DOMAIN tokens : tokens'[k].type # "TOKEN_EOF" /\ k # n1
    BY <1>2 DEF LexInv, ArrayInv, n1
  <2> QED
    BY <1>2, <2>2, <2>3 DEF ArrayInv
<1>8. \A k \in DOMAIN tokens : OnLine(tokens[k])
  BY DEF LexInv, TextInv
<1>9. TextInv'
  BY <1>2, <1>5, <1>8 DEF TextInv, EndOn
<1>10. ASSUME NEW k \in DOMAIN tokens
       PROVE  tokens[k].from + SpanLength(tokens[k]) <= p
  <2>1. tokens[k].from + SpanLength(tokens[k]) <= pos
    BY DEF LexInv, CoverInv, Before
  <2>2. tokens[k].from + SpanLength(tokens[k]) <= len
    BY <1>8 DEF OnLine
  <2>3. tokens[k].from + SpanLength(tokens[k]) \in Nat
    BY <1>2, SpanIsNumber
  <2>4. pos > len => p = len
    BY <1>3 DEF p, Skip
  <2> QED
    BY <1>3, <1>4, <2>1, <2>2, <2>3, <2>4
<1>11. CoverInv'
  <2>1. p <= pos'
    BY <1>3, SpanIsNumber DEF p
  <2>2. \A k \in DOMAIN tokens' : tokens'[k].from + SpanLength(tokens'[k]) <= pos'
    <3>1. ASSUME NEW k \in DOMAIN tokens
          PROVE  tokens[k].from + SpanLength(tokens[k]) <= pos'
      BY <1>2, <1>3, <1>10, <2>1, SpanIsNumber
    <3> QED
      BY <1>2, <3>1
  <2>3. \A j, k \in DOMAIN tokens' :
          j < k => tokens'[j].from + SpanLength(tokens'[j]) <= tokens'[k].from
    <3>1. SUFFICES ASSUME NEW j \in DOMAIN tokens', NEW k \in DOMAIN tokens', j < k
                   PROVE  tokens'[j].from + SpanLength(tokens'[j]) <= tokens'[k].from
      OBVIOUS
    <3>2. j \in DOMAIN tokens
      BY <1>2, <3>1 DEF n1
    <3>3. CASE k = n1
      BY <1>2, <1>10, <3>2, <3>3 DEF p
    <3>4. CASE k \in DOMAIN tokens
      BY <1>2, <3>1, <3>2, <3>4 DEF LexInv, CoverInv
    <3> QED
      BY <1>2, <3>3, <3>4
  <2>4. ASSUME NEW r \in 0..(pos' - 1), r < len
        PROVE  \/ At(r) \in Spaces
               \/ \E k \in DOMAIN tokens' : /\ tokens'[k].type = "TOKEN_LABEL"
                                            /\ r = tokens'[k].from + Len(tokens'[k].value)
               \/ \E k \in DOMAIN tokens' :
                    r \in tokens'[k].from..(tokens'[k].from + SpanLength(tokens'[k]) - 1)
    <3>1. CASE r < pos
      <4>1. SeenAt(r)
        BY <1>3, <2>4, <3>1 DEF LexInv, CoverInv
      <4> QED
        BY <1>2, <4>1 DEF SeenAt
    <3>2. CASE r \in pos..(p - 1)
      BY <1>4, <3>2
    <3>3. CASE r \in p..(pos' - 1)
      <4>1. \/ t.type = "TOKEN_LABEL" /\ r = t.from + Len(t.value)
            \/ r \in t.from..(t.from + SpanLength(t) - 1)
        BY <2>4, <3>3 DEF p
      <4> QED
        BY <1>2, <4>1
    <3> QED
      BY <1>3, <2>4, <3>1, <3>2, <3>3
  <2>5. \A r \in 0..(pos' - 1) : r < len' => SeenAt(r)'
    BY <1>5, <2>4 DEF SeenAt, SpanLength
  <2> QED
    BY <2>2, <2>3, <2>5 DEF CoverInv, Before, SpanLength
<1>12. RefusalInv'
  BY DEF RefusalInv
<1> QED
  BY <1>6, <1>7, <1>9, <1>11, <1>12 DEF LexInv

\* One turn of the loop.
LEMMA NextTokenKeeps ==
  ASSUME LexInv, NextToken, UNCHANGED lineVars
  PROVE  LexInv'
<1> DEFINE p == Skip(pos)
<1>1. /\ reading' = reading /\ line' = line /\ lexing = "tokens" /\ Found(p)
      /\ TypesInv /\ line \in Seq(Characters) /\ reading = "line" /\ pos \in Nat /\ pos <= len + 1
  BY DEF NextToken, lineVars, LexInv, TypesInv
<1>2. p \in 0..(len - 1) /\ len \in Nat /\ p \in Nat
  BY <1>1, LengthOfLine, SkipsSpaces
<1>3. \/ set_next_token(p) # Refused /\ SetAt(p)
      \/ set_next_token(p) = Refused /\ BadText(p)
  <2> HIDE DEF p
  <2> QED
    BY <1>1, <1>2, NextTokenSet
<1>4. CASE set_next_token(p) # Refused /\ UNCHANGED <<lexing, starved>>
           /\ tokens' = Append(tokens, TokenAt(p)) /\ pos' = set_next_token(p).next
           /\ capacity' = ensure_capacity
  <2> DEFINE t == TokenAt(p)
  <2>1. /\ OnLine(t) /\ t \in TokenRecords /\ t.type # "TOKEN_EOF" /\ t.from + SpanLength(t) <= len
    BY <1>3, <1>4 DEF SetAt, OnLine
  <2>2. t.from = p
    BY DEF TokenAt
  <2>3. /\ Len(t.value) \in Nat /\ SpanLength(t) \in Nat
        /\ t.type # "TOKEN_STRING" => SpanLength(t) = Len(t.value)
    BY <2>1, SpanIsNumber
  <2>4. pos' = IF t.type = "TOKEN_LABEL" THEN p + Len(t.value) + 1 ELSE p + SpanLength(t)
    BY <1>3, <1>4 DEF SetAt
  <2> HIDE DEF t, p
  <2>5. t.type = "TOKEN_LABEL" => pos' = p + SpanLength(t) + 1 /\ SpanLength(t) = Len(t.value)
    BY <2>3, <2>4
  <2>6. t.type # "TOKEN_LABEL" => pos' = p + SpanLength(t)
    BY <2>4
  <2>7. pos' \in Nat /\ pos' <= len + 1 /\ t.from + SpanLength(t) <= pos'
    BY <1>2, <2>1, <2>2, <2>3, <2>5, <2>6
  <2>8. ASSUME NEW r \in t.from..(pos' - 1), r < len
        PROVE  \/ t.type = "TOKEN_LABEL" /\ r = t.from + Len(t.value)
               \/ r \in t.from..(t.from + SpanLength(t) - 1)
    BY <1>2, <2>2, <2>3, <2>5, <2>6
  <2>9. lexing' = "tokens" /\ tokens' = Append(tokens, t) /\ t.from = Skip(pos)
    BY <1>1, <1>4, <2>2 DEF t, p
  <2> QED
    BY <1>1, <1>4, <2>1, <2>7, <2>8, <2>9, AppendKeeps
<1>5. CASE set_next_token(p) = Refused /\ GiveUp(FALSE) /\ pos' = p + 1
  <2>1. pos' \in Nat /\ pos' <= len + 1 /\ pos' - 1 = p
    BY <1>2, <1>5
  <2>2. BadText(p)
    BY <1>3, <1>5
  <2> HIDE DEF p
  <2> QED
    BY <1>1, <1>2, <1>5, <2>1, <2>2, GiveUpKeeps
<1>6. CASE GiveUp(TRUE) /\ pos' = p
  <2>1. pos' \in Nat /\ pos' <= len + 1
    BY <1>2, <1>6
  <2> QED
    BY <1>1, <1>6, <2>1, GiveUpKeeps, Zenon
<1> QED
  BY <1>4, <1>5, <1>6 DEF NextToken, TokenAt

\* The end of the loop: TOKEN_EOF has its place.
LEMMA EndOfTokensKeeps ==
  ASSUME LexInv, EndOfTokens, UNCHANGED lineVars
  PROVE  LexInv'
<1> DEFINE p == Skip(pos)
           t == EndOn(p)
<1>1. /\ reading' = reading /\ line' = line /\ lexing = "tokens" /\ ~Found(p) /\ pos' = p
      /\ TypesInv /\ line \in Seq(Characters) /\ reading = "line" /\ pos \in Nat /\ pos <= len + 1
  BY DEF EndOfTokens, lineVars, LexInv, TypesInv
<1>2. p \in 0..len /\ len \in Nat /\ p \in Nat /\ pos' \in Nat /\ pos' <= len + 1
  BY <1>1, LengthOfLine, SkipsSpaces
<1>3. CASE lexing' = "done" /\ capacity' = ensure_capacity /\ UNCHANGED starved
           /\ tokens' = Append(tokens, t)
  <2>1. t \in TokenRecords /\ t.from = p /\ t.type = "TOKEN_EOF" /\ Len(t.value) = 0
    BY <1>2 DEF EndOn, TokenRecords, TokenTypes
  <2>2. SpanLength(t) = 0
    BY <2>1 DEF SpanLength
  <2>3. t = EndOn(pos') /\ ~Found(pos') /\ pos' \in 0..len
    BY <1>1, <1>2
  <2> HIDE DEF t
  <2>4. t.from + SpanLength(t) <= pos' /\ \A r \in t.from..(pos' - 1) : FALSE
    BY <1>1, <1>2, <2>1, <2>2
  <2> QED
    BY <1>1, <1>2, <1>3, <2>1, <2>3, <2>4, AppendKeeps
<1>4. CASE GiveUp(TRUE)
  BY <1>1, <1>2, <1>4, GiveUpKeeps, Zenon
<1> QED
  BY <1>3, <1>4 DEF EndOfTokens, EndOn

\* Every step keeps the invariant of the lexer.
LEMMA StepKeepsLexer ==
  ASSUME LexInv, BufferInv', [Next]_vars
  PROVE  LexInv'
<1>1. CASE ReadLine
  <2>1. /\ lexing = "idle" /\ lexing' = "idle" /\ pos' = pos /\ tokens' = tokens
        /\ capacity' = capacity /\ starved' = starved
    BY <1>1 DEF ReadLine, lexVars
  <2>2. DOMAIN tokens = {} /\ tokens \in Seq(TokenRecords)
    BY <2>1 DEF LexInv, TypesInv
  <2>3. line' \in Seq(Characters)
    BY DEF BufferInv
  <2>4. TypesInv'
    BY <2>1, <2>3 DEF LexInv, TypesInv
  <2>5. ArrayInv' /\ TextInv' /\ CoverInv' /\ RefusalInv'
    BY <2>1, <2>2 DEF LexInv, ArrayInv, TextInv, CoverInv, RefusalInv
  <2> QED
    BY <2>4, <2>5 DEF LexInv
<1>2. CASE lexer_tokenize_line
  BY <1>2, InitKeeps, NextTokenKeeps, EndOfTokensKeeps DEF lexer_tokenize_line
<1>3. CASE lexer_free_tokens
  <2>1. /\ lexing' = "idle" /\ pos' = 0 /\ tokens' = << >> /\ capacity' = 0
        /\ line' = line /\ starved' = starved
    BY <1>3 DEF lexer_free_tokens
  <2>2. tokens' \in Seq(TokenRecords) /\ Len(tokens') = 0 /\ DOMAIN tokens' = {}
    BY <2>1
  <2>3. TypesInv'
    BY <2>1, <2>2 DEF LexInv, TypesInv
  <2>4. ArrayInv' /\ TextInv' /\ CoverInv' /\ RefusalInv'
    BY <2>1, <2>2 DEF ArrayInv, TextInv, CoverInv, RefusalInv
  <2> QED
    BY <2>3, <2>4 DEF LexInv
<1>4. CASE UNCHANGED <<lineVars, lexVars>>
  <2>1. line' = line /\ UNCHANGED <<reading, lexing, pos, tokens, capacity, starved>>
    BY <1>4 DEF lineVars, lexVars
  <2>2. /\ len' = len /\ \A r : At(r)' = At(r) /\ (Found(r)' <=> Found(r))
        /\ \A u : OnLine(u)' <=> OnLine(u)
        /\ \A r : BadText(r)' <=> BadText(r)
    BY <2>1, SameLine
  <2>3. TypesInv' /\ ArrayInv' /\ RefusalInv'
    BY <2>1, <2>2 DEF LexInv, TypesInv, ArrayInv, RefusalInv
  <2>4. TextInv'
    BY <2>1, <2>2 DEF LexInv, TextInv, EndOn
  <2>5. CoverInv'
    BY <2>1, <2>2 DEF LexInv, CoverInv, SeenAt, Before, SpanLength
  <2> QED
    BY <2>3, <2>4, <2>5 DEF LexInv
<1> QED
  BY <1>1, <1>2, <1>3, <1>4 DEF Next, Ended, vars

\* Where the lexer stands on the line, for lines of any length.
THEOREM LexerInvariant == Spec => [](BufferInv /\ LexInv)
<1>1. Init => BufferInv /\ LexInv
  <2> SUFFICES ASSUME Init PROVE BufferInv /\ LexInv
    OBVIOUS
  <2>1. BufferInv
    BY DEF Init, LineInit, BufferInv
  <2>2. /\ lexing = "idle" /\ pos = 0 /\ tokens = << >> /\ capacity = 0 /\ starved = FALSE
        /\ line \in Seq(Characters)
    BY DEF Init, LineInit, LexInit
  <2>3. tokens \in Seq(TokenRecords) /\ Len(tokens) = 0 /\ DOMAIN tokens = {}
    BY <2>2
  <2>4. TypesInv
    BY <2>2, <2>3 DEF TypesInv
  <2>5. ArrayInv /\ TextInv /\ CoverInv /\ RefusalInv
    BY <2>2, <2>3 DEF ArrayInv, TextInv, CoverInv, RefusalInv
  <2> QED
    BY <2>1, <2>4, <2>5 DEF LexInv
<1>2. BufferInv /\ LexInv /\ [Next]_vars => (BufferInv /\ LexInv)'
  BY StepKeepsBuffer, StepKeepsLexer
<1> QED
  BY <1>1, <1>2, PTL DEF Spec

\* Types: the position stays on the line or one past its end, however long the
\* line and whatever is passed over after a label.
THEOREM LexerTypeCorrect == Spec => []TypeOK
<1>1. BufferInv /\ LexInv => TypeOK
  <2> SUFFICES ASSUME BufferInv, LexInv PROVE TypeOK
    OBVIOUS
  <2>1. len \in Nat
    BY LengthOfLine DEF LexInv, TypesInv
  <2>2. pos \in 0..(len + 1)
    BY <2>1 DEF LexInv, TypesInv
  <2>3. LineTypeOK
    BY DEF BufferInv, LineTypeOK
  <2> QED
    BY <2>2, <2>3 DEF LexInv, TypesInv, TypeOK, TokenRecords
<1> QED
  BY <1>1, LexerInvariant, PTL

\* The array has room for every token and for TOKEN_EOF, which ends the array
\* handed to the parser and stands nowhere else in it.
THEOREM ArrayHoldsTokens == Spec => []TokensFitArray
<1>1. LexInv => TokensFitArray
  BY DEF LexInv, ArrayInv, TokensFitArray
<1> QED
  BY <1>1, LexerInvariant, PTL

\* No word, label or number of any length is cut short, and a word is a keyword
\* only as a whole.
THEOREM WordsStayWhole == Spec => []WordsAreWhole
<1>1. LexInv => WordsAreWhole
  <2> SUFFICES ASSUME LexInv, NEW k \in DOMAIN tokens
               PROVE  LET token  == tokens[k]
                          next   == At(token.from + Len(token.value))
                          isWord == token.type # "TOKEN_STRING" /\ token.value # << >>
                                      /\ token.value[1] \in Letters \cup {"."}
                      IN  /\ token.type = "TOKEN_LABEL" \/ isWord => next \notin Alnum
                          /\ token.type = "TOKEN_NUMBER" => next \notin Digits
                          /\ isWord => token.type = IF token.value \in DOMAIN Keywords
                                                    THEN Keywords[token.value] ELSE "TOKEN_IDENTIFIER"
    BY DEF WordsAreWhole
  <2>1. CASE OnLine(tokens[k])
    BY <2>1 DEF OnLine, WholeText
  <2>2. CASE tokens[k] = EndOn(pos)
    <3>1. tokens[k].type = "TOKEN_EOF" /\ tokens[k].value = << >>
      BY <2>2 DEF EndOn
    <3> QED
      BY <3>1
  <2> QED
    BY <2>1, <2>2 DEF LexInv, TextInv
<1> QED
  BY <1>1, LexerInvariant, PTL

\* Nothing of a line is lost or read twice, whatever its length and wherever its
\* comment, its NUL or the characters after its labels are.
THEOREM CharactersOnce == Spec => []EveryCharacterOnce
<1>1. LexInv => EveryCharacterOnce
  <2> SUFFICES ASSUME LexInv, lexing = "done"
               PROVE  /\ \A p \in 0..(pos - 1) :
                           At(p) \in Spaces \/ p \in AfterLabel \/ \E k \in DOMAIN tokens : p \in Span(k)
                      /\ \A j, k \in DOMAIN tokens : j < k => \A p \in Span(j) : p < tokens[k].from
                      /\ pos = len \/ At(pos) = ";"
    BY DEF EveryCharacterOnce
  <2>1. \A k \in DOMAIN tokens : /\ Span(k) = tokens[k].from..(tokens[k].from + SpanLength(tokens[k]) - 1)
                                 /\ tokens[k] \in TokenRecords
    BY DEF Span, SpanLength, LexInv, TypesInv
  <2>2. PICK k \in DOMAIN tokens : k = Len(tokens) /\ tokens[k].type = "TOKEN_EOF"
    <3>1. tokens \in Seq(TokenRecords) /\ Len(tokens) > 0
      BY DEF LexInv, ArrayInv, TypesInv
    <3>2. Len(tokens) \in DOMAIN tokens
      BY <3>1
    <3> QED
      BY <3>2 DEF LexInv, ArrayInv
  <2>3. pos \in 0..len /\ ~Found(pos)
    BY <2>2 DEF LexInv, TextInv, OnLine
  <2>4. pos = len \/ At(pos) = ";"
    BY <2>3 DEF Found
  <2>5. ASSUME NEW p \in 0..(pos - 1)
        PROVE  At(p) \in Spaces \/ p \in AfterLabel \/ \E j \in DOMAIN tokens : p \in Span(j)
    <3>1. SeenAt(p)
      BY <2>3, LengthOfLine DEF LexInv, TypesInv, CoverInv
    <3> QED
      BY <2>1, <3>1 DEF SeenAt, AfterLabel
  <2>6. ASSUME NEW i \in DOMAIN tokens, NEW j \in DOMAIN tokens, i < j, NEW p \in Span(i)
        PROVE  p < tokens[j].from
    <3>1. tokens[i].from + SpanLength(tokens[i]) <= tokens[j].from
      BY <2>6 DEF LexInv, CoverInv
    <3>2. tokens[i].from \in Nat /\ SpanLength(tokens[i]) \in Nat /\ tokens[j].from \in Nat
      BY <2>1, SpanIsNumber
    <3> QED
      BY <2>1, <2>6, <3>1, <3>2
  <2> QED
    BY <2>4, <2>5, <2>6
<1> QED
  BY <1>1, LexerInvariant, PTL

\* A line is refused for a fault of its own or for want of memory.
THEOREM RefusalsHaveReasons == Spec => []RefusedForItsText
<1>1. LexInv => RefusedForItsText
  <2> SUFFICES ASSUME LexInv, lexing = "refused", ~starved
               PROVE  pos - 1 < len /\ BadText(pos - 1)
    BY DEF RefusedForItsText, BadText
  <2> QED
    BY LengthOfLine DEF LexInv, RefusalInv, TypesInv
<1> QED
  BY <1>1, LexerInvariant, PTL
=============================================================================
