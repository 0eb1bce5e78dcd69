------------------------- MODULE InstructionProofs -------------------------
(***************************************************************************)
(* Theorems about the parser of instructions, the table and the encoder,   *)
(* for lines and streams of any length and numbers of any size.            *)
(***************************************************************************)
EXTENDS InstructionStream, SequenceTheorems, CommonLemmas

-----------------------------------------------------------------------------
(* Lines and the types of their tokens.                                    *)

\* The tokens of a line, the last of which is the only TOKEN_EOF.
LEMMA TokensOfLine ==
  ASSUME NEW line \in Lines
  PROVE  /\ line \in Seq(Tokens) /\ Len(line) \in Nat \ {0} /\ DOMAIN line = 1..Len(line)
         /\ \A i \in 1..Len(line) : line[i] \in Tokens /\ line[i].type \in TokenTypes
         /\ \A i \in 1..Len(line) : line[i].type = "TOKEN_EOF" <=> i = Len(line)
         /\ line[1].type # "TOKEN_IDENTIFIER"
<1>1. line \in Seq(Tokens) /\ line # << >> /\ line[1].type # "TOKEN_IDENTIFIER"
  BY StreamAssumption
<1>2. Len(line) \in Nat /\ DOMAIN line = 1..Len(line) /\ Len(line) # 0
  BY <1>1
<1>3. \A i \in 1..Len(line) : line[i] \in Tokens
  BY <1>1, <1>2
<1>4. \A t \in Tokens : t.type \in TokenTypes
  BY DEF Tokens
<1>5. \A i \in DOMAIN line : line[i].type = "TOKEN_EOF" <=> i = Len(line)
  BY StreamAssumption
<1> QED
  BY <1>1, <1>2, <1>3, <1>4, <1>5

\* rest is what follows the first k tokens of a line.
IsRest(line, k, rest) ==
  /\ k \in 0..(Len(line) - 1) /\ Len(rest) = Len(line) - k
  /\ \A i \in 1..(Len(line) - k) : rest[i] = line[k + i]

\* A rule that ends with TOKEN_EOF looks at the whole rest of a line.
LEMMA WholeRest ==
  ASSUME NEW line \in Lines, NEW k, NEW rest, IsRest(line, k, rest),
         NEW types \in Seq(TokenTypes), Len(types) # 0, types[Len(types)] = "TOKEN_EOF"
  PROVE  StartsWith(rest, types) <=>
           /\ Len(line) = k + Len(types)
           /\ \A i \in 1..(Len(types) - 1) : line[k + i].type = types[i]
<1> DEFINE n == Len(types)
<1>1. n \in Nat \ {0} /\ DOMAIN types = 1..n
  OBVIOUS
<1>2. k \in 0..(Len(line) - 1) /\ Len(rest) = Len(line) - k /\ Len(line) \in Nat \ {0}
  BY TokensOfLine DEF IsRest
<1>3. \A i \in 1..(Len(line) - k) : rest[i] = line[k + i]
  BY DEF IsRest
<1>4. \A i \in 1..(Len(line) - k) : k + i \in 1..Len(line)
  BY <1>2
<1>5. \A i \in 1..(Len(line) - k) : line[k + i].type = "TOKEN_EOF" <=> k + i = Len(line)
  BY <1>4, TokensOfLine
<1> HIDE DEF n
<1>6. ASSUME StartsWith(rest, types)
      PROVE  /\ Len(line) = k + n
             /\ \A i \in 1..(n - 1) : line[k + i].type = types[i]
  <2>1. n <= Len(line) - k /\ \A i \in 1..n : rest[i].type = types[i]
    BY <1>1, <1>2, <1>6 DEF StartsWith, n
  <2>2. \A i \in 1..n : i \in 1..(Len(line) - k)
    BY <1>1, <1>2, <2>1
  <2>3. \A i \in 1..n : line[k + i].type = types[i]
    BY <1>3, <2>1, <2>2
  <2>4. n \in 1..n
    BY <1>1
  <2>5. line[k + n].type = "TOKEN_EOF"
    BY <2>3, <2>4 DEF n
  <2>6. k + n = Len(line)
    BY <1>5, <2>2, <2>4, <2>5
  <2>7. \A i \in 1..(n - 1) : i \in 1..n
    BY <1>1
  <2> QED
    BY <2>3, <2>6, <2>7
<1>7. ASSUME Len(line) = k + n, \A i \in 1..(n - 1) : line[k + i].type = types[i]
      PROVE  StartsWith(rest, types)
  <2>1. n <= Len(rest) /\ Len(line) - k = n
    BY <1>1, <1>2, <1>7
  <2>2. ASSUME NEW i \in 1..n
        PROVE  rest[i].type = types[i]
    <3>1. rest[i] = line[k + i]
      BY <1>3, <2>1
    <3>2. CASE i = n
      <4>1. line[k + n].type = "TOKEN_EOF"
        BY <1>5, <1>7, <2>1, <3>2
      <4> QED
        BY <3>1, <3>2, <4>1 DEF n
    <3>3. CASE i # n
      <4>1. i \in 1..(n - 1)
        BY <1>1, <3>3
      <4> QED
        BY <1>7, <3>1, <4>1
    <3> QED
      BY <3>2, <3>3
  <2> QED
    BY <1>1, <2>1, <2>2 DEF StartsWith, n
<1> QED
  BY <1>6, <1>7 DEF n

\* The line itself, what follows its first token, and what follows three.
LEMMA RestsOfLine ==
  ASSUME NEW line \in Lines
  PROVE  /\ IsRest(line, 0, line)
         /\ Len(line) > 1 => IsRest(line, 1, Tail(line))
         /\ Len(line) > 3 =>
              IsRest(line, 3, SubSeq(Tail(line), 3, Len(Tail(line))))
<1>1. line \in Seq(Tokens) /\ Len(line) \in Nat \ {0}
  BY TokensOfLine
<1>2. IsRest(line, 0, line)
  BY <1>1 DEF IsRest
<1>3. ASSUME Len(line) > 1
      PROVE  /\ Tail(line) \in Seq(Tokens) /\ Len(Tail(line)) = Len(line) - 1
             /\ \A i \in 1..(Len(line) - 1) : Tail(line)[i] = line[1 + i]
  <2>1. line # << >>
    BY <1>1
  <2>2. /\ Tail(line) \in Seq(Tokens) /\ Len(Tail(line)) = Len(line) - 1
        /\ \A i \in 1..Len(Tail(line)) : Tail(line)[i] = line[i + 1]
    BY <1>1, <2>1, HeadTailProperties
  <2> QED
    BY <1>1, <2>2
<1>4. ASSUME Len(line) > 1
      PROVE  IsRest(line, 1, Tail(line))
  BY <1>1, <1>3, <1>4 DEF IsRest
<1>5. ASSUME Len(line) > 3
      PROVE  IsRest(line, 3, SubSeq(Tail(line), 3, Len(Tail(line))))
  <2> DEFINE t == Tail(line)
             u == SubSeq(t, 3, Len(t))
  <2>1. /\ t \in Seq(Tokens) /\ Len(t) = Len(line) - 1
        /\ \A i \in 1..(Len(line) - 1) : t[i] = line[1 + i]
    BY <1>1, <1>3, <1>5
  <2> HIDE DEF t
  <2>2. 3 \in 1..(Len(t) + 1) /\ Len(t) \in 0..Len(t) /\ Len(t) - 3 + 1 = Len(line) - 3
    BY <1>1, <1>5, <2>1
  <2>3. Len(u) = Len(line) - 3 /\ \A i \in 1..(Len(line) - 3) : u[i] = t[3 + i - 1]
    BY <1>1, <1>5, <2>1, <2>2
  <2>4. \A i \in 1..(Len(line) - 3) : 3 + i - 1 \in 1..(Len(line) - 1) /\ 1 + (3 + i - 1) = 3 + i
    BY <1>1
  <2>5. \A i \in 1..(Len(line) - 3) : u[i] = line[3 + i]
    BY <2>1, <2>3, <2>4
  <2> QED
    BY <1>1, <1>5, <2>3, <2>5 DEF IsRest, t
<1> QED
  BY <1>2, <1>4, <1>5

\* One, two and three types and the end of the line, after the first k tokens.
LEMMA EndsAfter ==
  ASSUME NEW line \in Lines, NEW k, NEW rest, IsRest(line, k, rest),
         NEW a \in TokenTypes, NEW b \in TokenTypes
  PROVE  /\ StartsWith(rest, <<"TOKEN_EOF">>) <=> Len(line) = k + 1
         /\ StartsWith(rest, <<a, "TOKEN_EOF">>) <=> Len(line) = k + 2 /\ line[k + 1].type = a
         /\ StartsWith(rest, <<a, b, "TOKEN_EOF">>) <=>
              Len(line) = k + 3 /\ line[k + 1].type = a /\ line[k + 2].type = b
<1>1. "TOKEN_EOF" \in TokenTypes
  BY DEF TokenTypes
<1>2. PICK one : one = <<"TOKEN_EOF">>
  OBVIOUS
<1>3. one \in Seq(TokenTypes) /\ Len(one) = 1 /\ one[1] = "TOKEN_EOF"
  BY <1>1, <1>2
<1>4. StartsWith(rest, one) <=> Len(line) = k + 1
  <2>1. Len(one) # 0 /\ one[Len(one)] = "TOKEN_EOF"
    BY <1>3
  <2>2. IsRest(line, k, rest) /\ one \in Seq(TokenTypes)
        /\ Len(one) # 0 /\ one[Len(one)] = "TOKEN_EOF"
    BY <1>3, <2>1
  <2>3. StartsWith(rest, one) <=>
           /\ Len(line) = k + Len(one)
           /\ \A i \in 1..(Len(one) - 1) : line[k + i].type = one[i]
    BY <2>2, WholeRest
  <2> QED
    BY <1>3, <2>3
<1>5. PICK two : two = <<a, "TOKEN_EOF">>
  OBVIOUS
<1>6. two \in Seq(TokenTypes) /\ Len(two) = 2 /\ two[1] = a /\ two[2] = "TOKEN_EOF"
  BY <1>1, <1>5
<1>7. StartsWith(rest, two) <=>
        Len(line) = k + 2 /\ \A i \in 1..1 : line[k + i].type = two[i]
  <2>1. Len(two) - 1 = 1 /\ Len(two) # 0 /\ two[Len(two)] = "TOKEN_EOF"
    BY <1>6
  <2>2. IsRest(line, k, rest) /\ two \in Seq(TokenTypes)
        /\ Len(two) # 0 /\ two[Len(two)] = "TOKEN_EOF"
    BY <1>6, <2>1
  <2>3. StartsWith(rest, two) <=>
           /\ Len(line) = k + Len(two)
           /\ \A i \in 1..(Len(two) - 1) : line[k + i].type = two[i]
    BY <2>2, WholeRest
  <2> QED
    BY <1>6, <2>1, <2>3
<1>8. PICK three : three = <<a, b, "TOKEN_EOF">>
  OBVIOUS
<1>9. three \in Seq(TokenTypes) /\ Len(three) = 3
      /\ three[1] = a /\ three[2] = b /\ three[3] = "TOKEN_EOF"
  BY <1>1, <1>8
<1>10. StartsWith(rest, three) <=>
         Len(line) = k + 3 /\ \A i \in 1..2 : line[k + i].type = three[i]
  <2>1. Len(three) - 1 = 2 /\ Len(three) # 0 /\ three[Len(three)] = "TOKEN_EOF"
    BY <1>9
  <2>2. IsRest(line, k, rest) /\ three \in Seq(TokenTypes)
        /\ Len(three) # 0 /\ three[Len(three)] = "TOKEN_EOF"
    BY <1>9, <2>1
  <2>3. StartsWith(rest, three) <=>
           /\ Len(line) = k + Len(three)
           /\ \A i \in 1..(Len(three) - 1) : line[k + i].type = three[i]
    BY <2>2, WholeRest
  <2> QED
    BY <1>9, <2>1, <2>3
<1>11. (\A i \in 1..1 : line[k + i].type = two[i]) <=> line[k + 1].type = a
  BY <1>6
<1>12. (\A i \in 1..2 : line[k + i].type = three[i]) <=>
         line[k + 1].type = a /\ line[k + 2].type = b
  BY <1>9
<1> QED
  BY <1>2, <1>4, <1>5, <1>7, <1>8, <1>10, <1>11, <1>12

\* The types of a line are a given sequence of types.
LEMMA TypesAre ==
  ASSUME NEW line \in Lines, NEW types \in Seq(TokenTypes)
  PROVE  Types(line) = types <=>
           /\ Len(line) = Len(types)
           /\ \A i \in 1..Len(types) : line[i].type = types[i]
<1>1. Types(line) \in Seq(TokenTypes) /\ Len(Types(line)) = Len(line)
  BY TokensOfLine DEF Types
<1>2. \A i \in 1..Len(line) : Types(line)[i] = line[i].type
  BY TokensOfLine DEF Types
<1>3. ASSUME Len(line) = Len(types), \A i \in 1..Len(types) : line[i].type = types[i]
      PROVE  Types(line) = types
  <2>1. \A i \in 1..Len(Types(line)) : Types(line)[i] = types[i]
    BY <1>1, <1>2, <1>3
  <2> QED
    BY <1>1, <1>3, <2>1, SeqEqual
<1> QED
  BY <1>1, <1>2, <1>3

\* The lines of the grammar, by their length.
LEMMA GrammarByLength ==
  ASSUME NEW line \in Lines
  PROVE  Types(line) \in Grammar <=>
           \/ Len(line) = 1
           \/ /\ Len(line) = 2
              /\ line[1].type \in {"TOKEN_KMA", "TOKEN_SECTION_CODE", "TOKEN_SECTION_DATA",
                                   "TOKEN_LABEL", "TOKEN_INSTRUCTION"}
           \/ /\ Len(line) = 3 /\ line[1].type = "TOKEN_INSTRUCTION"
              /\ line[2].type \in {"TOKEN_LABEL", "TOKEN_REGISTER", "TOKEN_NUMBER"}
           \/ /\ Len(line) = 5 /\ line[1].type = "TOKEN_INSTRUCTION"
              /\ line[2].type = "TOKEN_REGISTER" /\ line[3].type = "TOKEN_COMMA"
              /\ line[4].type \in {"TOKEN_REGISTER", "TOKEN_NUMBER"}
           \/ /\ Len(line) = 6 /\ line[1].type = "TOKEN_INSTRUCTION"
              /\ line[2].type = "TOKEN_REGISTER" /\ line[3].type = "TOKEN_COMMA"
              /\ line[4].type = "TOKEN_OFFSET" /\ line[5].type = "TOKEN_IDENTIFIER"
<1> DEFINE e == "TOKEN_EOF"
           i == "TOKEN_INSTRUCTION"
<1>1. /\ Len(line) \in Nat \ {0}
      /\ \A n \in 1..Len(line) : line[n].type = "TOKEN_EOF" <=> n = Len(line)
  BY TokensOfLine
<1>2. Types(line) = <<e>> <=> Len(line) = 1
  <2>1. PICK types : types = <<e>>
    OBVIOUS
  <2>2. types \in Seq(TokenTypes) /\ Len(types) = 1 /\ types[1] = e
    BY <2>1 DEF TokenTypes
  <2>3. Types(line) = types <=>
          Len(line) = Len(types) /\ \A n \in 1..Len(types) : line[n].type = types[n]
    BY <2>2, TypesAre
  <2> QED
    BY <1>1, <2>1, <2>2, <2>3
<1>3. ASSUME NEW a \in TokenTypes
      PROVE  Types(line) = <<a, e>> <=> Len(line) = 2 /\ line[1].type = a
  <2>1. PICK types : types = <<a, e>>
    OBVIOUS
  <2>2. types \in Seq(TokenTypes) /\ Len(types) = 2 /\ types[1] = a /\ types[2] = e
    BY <2>1 DEF TokenTypes
  <2>3. Len(line) = 2 => line[2].type = e
    BY <1>1
  <2>4. Types(line) = types <=>
          Len(line) = Len(types) /\ \A n \in 1..Len(types) : line[n].type = types[n]
    BY <2>2, TypesAre
  <2> QED
    BY <2>1, <2>2, <2>3, <2>4
<1>4. ASSUME NEW a \in TokenTypes
      PROVE  Types(line) = <<i, a, e>> <=>
               Len(line) = 3 /\ line[1].type = i /\ line[2].type = a
  <2>1. PICK types : types = <<i, a, e>>
    OBVIOUS
  <2>2. /\ types \in Seq(TokenTypes) /\ Len(types) = 3
        /\ types[1] = i /\ types[2] = a /\ types[3] = e
    BY <2>1 DEF TokenTypes
  <2>3. Len(line) = 3 => line[3].type = e
    BY <1>1
  <2>4. Types(line) = types <=>
          Len(line) = Len(types) /\ \A n \in 1..Len(types) : line[n].type = types[n]
    BY <2>2, TypesAre
  <2> QED
    BY <2>1, <2>2, <2>3, <2>4
<1>5. ASSUME NEW a \in TokenTypes
      PROVE  Types(line) = <<i, "TOKEN_REGISTER", "TOKEN_COMMA", a, e>> <=>
               /\ Len(line) = 5 /\ line[1].type = i /\ line[2].type = "TOKEN_REGISTER"
               /\ line[3].type = "TOKEN_COMMA" /\ line[4].type = a
  <2>1. PICK types : types = <<i, "TOKEN_REGISTER", "TOKEN_COMMA", a, e>>
    OBVIOUS
  <2>2. /\ types \in Seq(TokenTypes) /\ Len(types) = 5
        /\ types[1] = i /\ types[2] = "TOKEN_REGISTER" /\ types[3] = "TOKEN_COMMA"
        /\ types[4] = a /\ types[5] = e
    BY <2>1 DEF TokenTypes
  <2>3. Len(line) = 5 => line[5].type = e
    BY <1>1
  <2>4. Types(line) = types <=>
          Len(line) = Len(types) /\ \A n \in 1..Len(types) : line[n].type = types[n]
    BY <2>2, TypesAre
  <2> QED
    BY <2>1, <2>2, <2>3, <2>4
<1>6. Types(line) = <<i, "TOKEN_REGISTER", "TOKEN_COMMA", "TOKEN_OFFSET", "TOKEN_IDENTIFIER", e>> <=>
        /\ Len(line) = 6 /\ line[1].type = i /\ line[2].type = "TOKEN_REGISTER"
        /\ line[3].type = "TOKEN_COMMA" /\ line[4].type = "TOKEN_OFFSET"
        /\ line[5].type = "TOKEN_IDENTIFIER"
  <2>1. PICK types : types = <<i, "TOKEN_REGISTER", "TOKEN_COMMA", "TOKEN_OFFSET",
                               "TOKEN_IDENTIFIER", e>>
    OBVIOUS
  <2>2. /\ types \in Seq(TokenTypes) /\ Len(types) = 6
        /\ types[1] = i /\ types[2] = "TOKEN_REGISTER" /\ types[3] = "TOKEN_COMMA"
        /\ types[4] = "TOKEN_OFFSET" /\ types[5] = "TOKEN_IDENTIFIER" /\ types[6] = e
    BY <2>1 DEF TokenTypes
  <2>3. Len(line) = 6 => line[6].type = e
    BY <1>1
  <2>4. Types(line) = types <=>
          Len(line) = Len(types) /\ \A n \in 1..Len(types) : line[n].type = types[n]
    BY <2>2, TypesAre
  <2> QED
    BY <2>1, <2>2, <2>3, <2>4
<1> DEFINE Is(types) == Types(line) = types
<1>7. Types(line) \in Grammar <=>
        \/ Is(<<e>>) \/ Is(<<"TOKEN_KMA", e>>) \/ Is(<<"TOKEN_SECTION_CODE", e>>)
        \/ Is(<<"TOKEN_SECTION_DATA", e>>) \/ Is(<<"TOKEN_LABEL", e>>) \/ Is(<<i, e>>)
        \/ Is(<<i, "TOKEN_LABEL", e>>) \/ Is(<<i, "TOKEN_REGISTER", e>>)
        \/ Is(<<i, "TOKEN_NUMBER", e>>)
        \/ Is(<<i, "TOKEN_REGISTER", "TOKEN_COMMA", "TOKEN_REGISTER", e>>)
        \/ Is(<<i, "TOKEN_REGISTER", "TOKEN_COMMA", "TOKEN_NUMBER", e>>)
        \/ Is(<<i, "TOKEN_REGISTER", "TOKEN_COMMA", "TOKEN_OFFSET", "TOKEN_IDENTIFIER", e>>)
  BY Zenon DEF Grammar
<1>8. {"TOKEN_KMA", "TOKEN_SECTION_CODE", "TOKEN_SECTION_DATA", "TOKEN_LABEL",
       "TOKEN_INSTRUCTION", "TOKEN_REGISTER", "TOKEN_NUMBER"} \subseteq TokenTypes
  BY DEF TokenTypes
<1>9. /\ Is(<<"TOKEN_KMA", e>>) <=> Len(line) = 2 /\ line[1].type = "TOKEN_KMA"
      /\ Is(<<"TOKEN_SECTION_CODE", e>>) <=> Len(line) = 2 /\ line[1].type = "TOKEN_SECTION_CODE"
      /\ Is(<<"TOKEN_SECTION_DATA", e>>) <=> Len(line) = 2 /\ line[1].type = "TOKEN_SECTION_DATA"
      /\ Is(<<"TOKEN_LABEL", e>>) <=> Len(line) = 2 /\ line[1].type = "TOKEN_LABEL"
      /\ Is(<<i, e>>) <=> Len(line) = 2 /\ line[1].type = i
  BY <1>3, <1>8
<1>10. \A a \in {"TOKEN_LABEL", "TOKEN_REGISTER", "TOKEN_NUMBER"} :
         Is(<<i, a, e>>) <=> Len(line) = 3 /\ line[1].type = i /\ line[2].type = a
  BY <1>4, <1>8
<1>11. \A a \in {"TOKEN_REGISTER", "TOKEN_NUMBER"} :
         Is(<<i, "TOKEN_REGISTER", "TOKEN_COMMA", a, e>>) <=>
           /\ Len(line) = 5 /\ line[1].type = i /\ line[2].type = "TOKEN_REGISTER"
           /\ line[3].type = "TOKEN_COMMA" /\ line[4].type = a
  BY <1>5, <1>8
<1> HIDE DEF Is
<1> QED
  BY <1>2, <1>6, <1>7, <1>9, <1>10, <1>11, Zenon DEF Is

\* The tokens of a line of the grammar that stand for its operands.
LEMMA OperandTokensOf ==
  ASSUME NEW line \in Lines, line[1].type = "TOKEN_INSTRUCTION", Types(line) \in Grammar
  PROVE  /\ Len(line) \in {2, 3, 5, 6}
         /\ Len(line) = 2 => OperandTokens(line) = << >>
         /\ Len(line) = 3 => OperandTokens(line) = <<line[2]>>
         /\ Len(line) = 5 => OperandTokens(line) = <<line[2], line[4]>>
         /\ Len(line) = 6 => OperandTokens(line) = <<line[2], line[5]>>
<1> DEFINE P == OperandPlaces(line)
<1>1. /\ Len(line) \in Nat \ {0}
      /\ \A n \in 1..Len(line) : line[n].type = "TOKEN_EOF" <=> n = Len(line)
  BY TokensOfLine
<1>2. Len(line) \in {2, 3, 5, 6}
  <2>1. Len(line) # 1
    BY <1>1
  <2> QED
    BY <2>1, GrammarByLength
<1>3. \A n : n \in P <=> n \in 2..Len(line) /\ line[n].type \in
                {"TOKEN_REGISTER", "TOKEN_NUMBER", "TOKEN_LABEL", "TOKEN_IDENTIFIER"}
  BY DEF OperandPlaces
<1> HIDE DEF P
<1>4. ASSUME NEW a \in Int, NEW b \in Int, a <= b, P = {a, b}
      PROVE  Min(P) = a /\ Max(P) = b /\ P # {}
  <2>1. \A x \in P : (\A y \in P : x <= y) <=> x = a
    BY <1>4
  <2>2. \A x \in P : (\A y \in P : x >= y) <=> x = b
    BY <1>4
  <2>3. Min(P) = a
    BY <2>1, <1>4 DEF Min
  <2>4. Max(P) = b
    BY <2>2, <1>4 DEF Max
  <2> QED
    BY <2>3, <2>4, <1>4
<1>5. ASSUME NEW a \in Int, NEW b \in Int, a <= b, P = {a, b}
      PROVE  OperandTokens(line) = IF a = b THEN <<line[a]>> ELSE <<line[a], line[b]>>
  BY <1>4, <1>5 DEF OperandTokens, P
<1>6. CASE Len(line) = 2
  <2>1. line[2].type = "TOKEN_EOF" /\ 2..Len(line) = {2}
    BY <1>1, <1>6
  <2>2. P = {}
    BY <1>3, <2>1
  <2> QED
    BY <1>6, <2>2 DEF OperandTokens, P
<1>7. CASE Len(line) = 3
  <2>1. line[3].type = "TOKEN_EOF" /\ 2..Len(line) = {2, 3}
    BY <1>1, <1>7
  <2>2. line[2].type \in {"TOKEN_LABEL", "TOKEN_REGISTER", "TOKEN_NUMBER"}
    BY <1>7, GrammarByLength
  <2>3. P = {2, 2}
    BY <1>3, <2>1, <2>2
  <2> QED
    BY <1>5, <1>7, <2>3
<1>8. CASE Len(line) = 5
  <2>1. line[5].type = "TOKEN_EOF" /\ 2..Len(line) = {2, 3, 4, 5}
    BY <1>1, <1>8
  <2>2. /\ line[2].type = "TOKEN_REGISTER" /\ line[3].type = "TOKEN_COMMA"
        /\ line[4].type \in {"TOKEN_REGISTER", "TOKEN_NUMBER"}
    BY <1>8, GrammarByLength
  <2>3. P = {2, 4}
    BY <1>3, <2>1, <2>2
  <2> QED
    BY <1>5, <1>8, <2>3
<1>9. CASE Len(line) = 6
  <2>1. line[6].type = "TOKEN_EOF" /\ 2..Len(line) = {2, 3, 4, 5, 6}
    BY <1>1, <1>9
  <2>2. /\ line[2].type = "TOKEN_REGISTER" /\ line[3].type = "TOKEN_COMMA"
        /\ line[4].type = "TOKEN_OFFSET" /\ line[5].type = "TOKEN_IDENTIFIER"
    BY <1>9, GrammarByLength
  <2>3. P = {2, 5}
    BY <1>3, <2>1, <2>2
  <2> QED
    BY <1>5, <1>9, <2>3
<1> QED
  BY <1>2, <1>6, <1>7, <1>8, <1>9

\* The second operand of an instruction, by what follows the comma.
LEMMA SecondOperand ==
  ASSUME NEW line \in Lines, NEW rest, IsRest(line, 3, rest), NEW is
  PROVE  LET after == grammar_instruction_rhs_after(is, rest) IN
         /\ Len(line) = 5 /\ line[4].type \in {"TOKEN_REGISTER", "TOKEN_NUMBER"} =>
              after = TrySetOperand(is, 2, line[4])
         /\ Len(line) = 6 /\ line[4].type = "TOKEN_OFFSET" /\ line[5].type = "TOKEN_IDENTIFIER" =>
              after = TrySetOperand(is, 2, line[5])
         /\ \/ Len(line) = 5 /\ line[4].type \in {"TOKEN_REGISTER", "TOKEN_NUMBER"}
            \/ /\ Len(line) = 6 /\ line[4].type = "TOKEN_OFFSET"
               /\ line[5].type = "TOKEN_IDENTIFIER"
            \/ after = NoMatch
<1>1. /\ Len(line) \in Nat
      /\ Len(line) \in {5, 6} => rest[1] = line[4]
      /\ Len(line) = 6 => rest[2] = line[5]
  BY TokensOfLine DEF IsRest
<1>2. {"TOKEN_REGISTER", "TOKEN_NUMBER", "TOKEN_OFFSET", "TOKEN_IDENTIFIER"} \subseteq TokenTypes
  BY DEF TokenTypes
<1>3. /\ StartsWith(rest, <<"TOKEN_REGISTER", "TOKEN_EOF">>) <=>
           Len(line) = 5 /\ line[4].type = "TOKEN_REGISTER"
      /\ StartsWith(rest, <<"TOKEN_NUMBER", "TOKEN_EOF">>) <=>
           Len(line) = 5 /\ line[4].type = "TOKEN_NUMBER"
      /\ StartsWith(rest, <<"TOKEN_OFFSET", "TOKEN_IDENTIFIER", "TOKEN_EOF">>) <=>
           Len(line) = 6 /\ line[4].type = "TOKEN_OFFSET" /\ line[5].type = "TOKEN_IDENTIFIER"
  <2>1. PICK k : k = 3
    OBVIOUS
  <2>2. ASSUME NEW a \in TokenTypes, NEW b \in TokenTypes
        PROVE  /\ StartsWith(rest, <<a, "TOKEN_EOF">>) <=>
                    Len(line) = 5 /\ line[4].type = a
               /\ StartsWith(rest, <<a, b, "TOKEN_EOF">>) <=>
                    Len(line) = 6 /\ line[4].type = a /\ line[5].type = b
    <3>1. IsRest(line, k, rest)
      BY <2>1
    <3>2. /\ StartsWith(rest, <<a, "TOKEN_EOF">>) <=>
               Len(line) = k + 2 /\ line[k + 1].type = a
          /\ StartsWith(rest, <<a, b, "TOKEN_EOF">>) <=>
               Len(line) = k + 3 /\ line[k + 1].type = a /\ line[k + 2].type = b
      BY <3>1, EndsAfter
    <3>3. k + 1 = 4 /\ k + 2 = 5 /\ k + 3 = 6
      BY <2>1
    <3> QED
      BY <3>2, <3>3, Zenon
  <2> QED
    BY <1>2, <2>2, Zenon
<1> DEFINE R == StartsWith(rest, <<"TOKEN_REGISTER", "TOKEN_EOF">>)
           N == StartsWith(rest, <<"TOKEN_NUMBER", "TOKEN_EOF">>)
           O == StartsWith(rest, <<"TOKEN_OFFSET", "TOKEN_IDENTIFIER", "TOKEN_EOF">>)
           after == grammar_instruction_rhs_after(is, rest)
<1>4. after = CASE R -> TrySetOperand(is, 2, rest[1])
                [] N -> TrySetOperand(is, 2, rest[1])
                [] O -> TrySetOperand(is, 2, rest[2])
                [] OTHER -> NoMatch
  BY DEF grammar_instruction_rhs_after
<1> HIDE DEF R, N, O, after
<1>5. (R \/ N) /\ ~O => after = TrySetOperand(is, 2, rest[1])
  BY <1>4
<1>6. O /\ ~R /\ ~N => after = TrySetOperand(is, 2, rest[2])
  BY <1>4
<1>7. ~R /\ ~N /\ ~O => after = NoMatch
  BY <1>4
<1>8. /\ R \/ N <=> Len(line) = 5 /\ line[4].type \in {"TOKEN_REGISTER", "TOKEN_NUMBER"}
      /\ O <=> Len(line) = 6 /\ line[4].type = "TOKEN_OFFSET" /\ line[5].type = "TOKEN_IDENTIFIER"
  BY <1>3 DEF R, N, O
<1> QED
  BY <1>1, <1>5, <1>6, <1>7, <1>8 DEF after

\* A register and a comma after the mnemonic.
LEMMA RegisterAndComma ==
  ASSUME NEW line \in Lines, Len(line) > 1
  PROVE  StartsWith(Tail(line), <<"TOKEN_REGISTER", "TOKEN_COMMA">>) <=>
           Len(line) > 3 /\ line[2].type = "TOKEN_REGISTER" /\ line[3].type = "TOKEN_COMMA"
<1>1. /\ line \in Seq(Tokens) /\ Len(line) \in Nat \ {0}
      /\ \A n \in 1..Len(line) : line[n].type = "TOKEN_EOF" <=> n = Len(line)
  BY TokensOfLine
<1>2. /\ Len(Tail(line)) = Len(line) - 1
      /\ \A i \in 1..(Len(line) - 1) : Tail(line)[i] = line[1 + i]
  BY RestsOfLine DEF IsRest
<1>3. PICK types : types = <<"TOKEN_REGISTER", "TOKEN_COMMA">>
  OBVIOUS
<1>4. /\ Len(types) = 2 /\ DOMAIN types = {1, 2}
      /\ types[1] = "TOKEN_REGISTER" /\ types[2] = "TOKEN_COMMA"
  BY <1>3
<1>5. Len(line) > 2 => Tail(line)[1] = line[2] /\ Tail(line)[2] = line[3]
  <2>1. Len(line) > 2 => 1 \in 1..(Len(line) - 1) /\ 2 \in 1..(Len(line) - 1)
    BY <1>1
  <2>2. 1 + 1 = 2 /\ 1 + 2 = 3
    OBVIOUS
  <2> QED
    BY <1>2, <2>1, <2>2, Zenon
<1>6. 2 <= Len(Tail(line)) <=> Len(line) > 2
  <2>1. PICK n \in Nat : n = Len(line)
    BY <1>1
  <2>2. Len(Tail(line)) = n - 1
    BY <1>2, <2>1, Zenon
  <2>3. PICK m : m = Len(Tail(line))
    OBVIOUS
  <2>4. m = n - 1
    BY <2>2, <2>3, Zenon
  <2>5. 2 <= m <=> n > 2
    BY <2>1, <2>4
  <2> QED
    BY <2>1, <2>3, <2>5, Zenon
<1>7. StartsWith(Tail(line), types) <=>
        Len(line) > 2 /\ line[2].type = "TOKEN_REGISTER" /\ line[3].type = "TOKEN_COMMA"
  BY <1>4, <1>5, <1>6 DEF StartsWith
<1>8. Len(line) > 2 /\ line[3].type = "TOKEN_COMMA" => Len(line) > 3
  BY <1>1
<1> QED
  BY <1>1, <1>3, <1>7, <1>8

\* What the parser makes of the tokens after a mnemonic, by the shape of the line.
LEMMA OperandsByLength ==
  ASSUME NEW line \in Lines, line[1].type = "TOKEN_INSTRUCTION"
  PROVE  LET is == grammar_instruction_rhs(FreshInstruction, Tail(line))
             two(token) ==
               LET after == TrySetOperand(FreshInstruction, 2, token)
               IN  IF after = NoMatch THEN NoMatch ELSE TrySetOperand(after, 1, line[2])
         IN
         /\ Len(line) > 1
         /\ Types(line) \notin Grammar => is = NoMatch
         /\ Types(line) \in Grammar =>
              /\ Len(line) = 2 => is = FreshInstruction
              /\ Len(line) = 3 => is = TrySetOperand(FreshInstruction, 1, line[2])
              /\ Len(line) = 5 => is = two(line[4])
              /\ Len(line) = 6 => is = two(line[5])
<1> DEFINE rest == Tail(line)
           is == grammar_instruction_rhs(FreshInstruction, rest)
           two(token) ==
             LET after == TrySetOperand(FreshInstruction, 2, token)
             IN  IF after = NoMatch THEN NoMatch ELSE TrySetOperand(after, 1, line[2])
           Operand == {"TOKEN_LABEL", "TOKEN_REGISTER", "TOKEN_NUMBER"}
<1>1. line \in Seq(Tokens) /\ Len(line) \in Nat /\ Len(line) > 1
  <2>1. /\ line \in Seq(Tokens) /\ Len(line) \in Nat \ {0}
        /\ \A n \in 1..Len(line) : line[n].type = "TOKEN_EOF" <=> n = Len(line)
    BY TokensOfLine
  <2>2. Len(line) # 1
    BY <2>1
  <2> QED
    BY <2>1, <2>2
<1>2. IsRest(line, 1, rest) /\ (Len(line) > 2 => rest[1] = line[2])
  <2>1. IsRest(line, 1, rest)
    BY <1>1, RestsOfLine
  <2>2. \A i \in 1..(Len(line) - 1) : rest[i] = line[1 + i]
    BY <2>1 DEF IsRest
  <2> QED
    BY <1>1, <2>1, <2>2
<1>3. Operand \subseteq TokenTypes /\ "TOKEN_REGISTER" \in TokenTypes
  BY DEF TokenTypes
<1> DEFINE E == StartsWith(rest, <<"TOKEN_EOF">>)
           O == \E type \in Operand : StartsWith(rest, <<type, "TOKEN_EOF">>)
           C == StartsWith(rest, <<"TOKEN_REGISTER", "TOKEN_COMMA">>)
           after == grammar_instruction_rhs_after(FreshInstruction, SubSeq(rest, 3, Len(rest)))
           last == IF after = NoMatch THEN NoMatch ELSE TrySetOperand(after, 1, rest[1])
<1>4. /\ E <=> Len(line) = 2
      /\ O <=> Len(line) = 3 /\ line[2].type \in Operand
      /\ C <=> Len(line) > 3 /\ line[2].type = "TOKEN_REGISTER" /\ line[3].type = "TOKEN_COMMA"
  <2>1. PICK k : k = 1
    OBVIOUS
  <2>2. IsRest(line, k, rest)
    BY <1>2, <2>1
  <2>3. k + 1 = 2 /\ k + 2 = 3
    BY <2>1
  <2> HIDE DEF rest
  <2>4. ASSUME NEW a \in TokenTypes
        PROVE  /\ StartsWith(rest, <<"TOKEN_EOF">>) <=> Len(line) = 2
               /\ StartsWith(rest, <<a, "TOKEN_EOF">>) <=> Len(line) = 3 /\ line[2].type = a
    <3>1. /\ StartsWith(rest, <<"TOKEN_EOF">>) <=> Len(line) = k + 1
          /\ StartsWith(rest, <<a, "TOKEN_EOF">>) <=> Len(line) = k + 2 /\ line[k + 1].type = a
      BY <2>2, EndsAfter
    <3> QED
      BY <2>3, <3>1, Zenon
  <2>5. E <=> Len(line) = 2
    BY <1>3, <2>4
  <2>6. O <=> Len(line) = 3 /\ line[2].type \in Operand
    BY <1>3, <2>4, Zenon
  <2>7. C <=> Len(line) > 3 /\ line[2].type = "TOKEN_REGISTER" /\ line[3].type = "TOKEN_COMMA"
    BY <1>1, RegisterAndComma DEF rest
  <2> QED
    BY <2>5, <2>6, <2>7
<1>5. is = CASE E -> FreshInstruction
             [] O -> TrySetOperand(FreshInstruction, 1, rest[1])
             [] C -> last
             [] OTHER -> NoMatch
  BY DEF grammar_instruction_rhs
<1>6. Len(line) > 3 =>
        /\ Len(line) = 5 /\ line[4].type \in {"TOKEN_REGISTER", "TOKEN_NUMBER"} =>
             after = TrySetOperand(FreshInstruction, 2, line[4])
        /\ Len(line) = 6 /\ line[4].type = "TOKEN_OFFSET" /\ line[5].type = "TOKEN_IDENTIFIER" =>
             after = TrySetOperand(FreshInstruction, 2, line[5])
        /\ \/ Len(line) = 5 /\ line[4].type \in {"TOKEN_REGISTER", "TOKEN_NUMBER"}
           \/ /\ Len(line) = 6 /\ line[4].type = "TOKEN_OFFSET"
              /\ line[5].type = "TOKEN_IDENTIFIER"
           \/ after = NoMatch
  <2>1. Len(line) > 3 => IsRest(line, 3, SubSeq(rest, 3, Len(rest)))
    BY RestsOfLine
  <2> QED
    BY <2>1, SecondOperand
<1> HIDE DEF rest, is, E, O, C, after
<1>7. E /\ ~O /\ ~C => is = FreshInstruction
  BY <1>5
<1>8. ~E /\ O /\ ~C => is = TrySetOperand(FreshInstruction, 1, rest[1])
  BY <1>5
<1>9. ~E /\ ~O /\ C => is = last
  BY <1>5
<1>10. ~E /\ ~O /\ ~C => is = NoMatch
  BY <1>5
<1> HIDE DEF last
<1>11. CASE Len(line) = 2
  <2>1. is = FreshInstruction
    BY <1>4, <1>7, <1>11
  <2>2. Types(line) \in Grammar
    BY <1>11, GrammarByLength
  <2> QED
    BY <1>11, <2>1, <2>2 DEF is, rest
<1>12. CASE Len(line) = 3
  <2>1. Types(line) \in Grammar <=> line[2].type \in Operand
    BY <1>12, GrammarByLength
  <2>2. ~E /\ ~C /\ (O <=> line[2].type \in Operand)
    BY <1>4, <1>12
  <2>3. line[2].type \in Operand => is = TrySetOperand(FreshInstruction, 1, line[2])
    BY <1>2, <1>8, <1>12, <2>2
  <2>4. line[2].type \notin Operand => is = NoMatch
    BY <1>10, <2>2
  <2> QED
    BY <1>1, <1>12, <2>1, <2>3, <2>4 DEF is, rest
<1>13. CASE Len(line) > 3
  <2>len. PICK n \in Nat : n = Len(line)
    BY <1>1
  <2>big. n > 3 /\ n # 1 /\ n # 2 /\ n # 3
    BY <1>13, <2>len
  <2>1. ~E /\ ~O /\ (C <=> line[2].type = "TOKEN_REGISTER" /\ line[3].type = "TOKEN_COMMA")
    BY <1>4, <2>len, <2>big
  <2>2. Types(line) \in Grammar <=>
          /\ C
          /\ \/ Len(line) = 5 /\ line[4].type \in {"TOKEN_REGISTER", "TOKEN_NUMBER"}
             \/ /\ Len(line) = 6 /\ line[4].type = "TOKEN_OFFSET"
                /\ line[5].type = "TOKEN_IDENTIFIER"
    <3>1. Len(line) # 1 /\ Len(line) # 2 /\ Len(line) # 3
      BY <2>len, <2>big, Zenon
    <3>2. Types(line) \in Grammar <=>
            \/ /\ Len(line) = 5 /\ line[2].type = "TOKEN_REGISTER" /\ line[3].type = "TOKEN_COMMA"
               /\ line[4].type \in {"TOKEN_REGISTER", "TOKEN_NUMBER"}
            \/ /\ Len(line) = 6 /\ line[2].type = "TOKEN_REGISTER" /\ line[3].type = "TOKEN_COMMA"
               /\ line[4].type = "TOKEN_OFFSET" /\ line[5].type = "TOKEN_IDENTIFIER"
      BY <3>1, GrammarByLength
    <3> QED
      BY <2>1, <3>2
  <2>3. rest[1] = line[2]
    BY <1>1, <1>2, <1>13
  <2>4. ~C => is = NoMatch
    BY <1>10, <2>1
  <2>5. C => is = IF after = NoMatch THEN NoMatch ELSE TrySetOperand(after, 1, line[2])
    BY <1>9, <2>1, <2>3 DEF last
  <2>6. Types(line) \notin Grammar => is = NoMatch
    BY <1>6, <1>13, <2>2, <2>4, <2>5
  <2>7. Types(line) \in Grammar /\ Len(line) = 5 => is = two(line[4])
    BY <1>6, <1>13, <2>2, <2>5
  <2>8. Types(line) \in Grammar /\ Len(line) = 6 => is = two(line[5])
    BY <1>6, <1>13, <2>2, <2>5
  <2>9. Len(line) # 2 /\ Len(line) # 3
    BY <2>len, <2>big, Zenon
  <2> QED
    BY <1>1, <2>6, <2>7, <2>8, <2>9 DEF is, rest
<1>14. Len(line) = 2 \/ Len(line) = 3 \/ Len(line) > 3
  <2>1. PICK n \in Nat : n = Len(line)
    BY <1>1
  <2>2. n > 1
    BY <1>1, <2>1
  <2> QED
    BY <2>1, <2>2
<1> QED
  BY <1>11, <1>12, <1>13, <1>14

-----------------------------------------------------------------------------
(* Operands of an instruction.                                             *)

OperandTokenTypes == {"TOKEN_REGISTER", "TOKEN_NUMBER", "TOKEN_LABEL", "TOKEN_IDENTIFIER"}

\* The statement of an instruction with one operand, and with two, the second of
\* which was set first.
LEMMA OperandsSet ==
  ASSUME NEW a, NEW b
  PROVE  /\ SetOperand(FreshInstruction, 1, a) =
              [operand_count |-> 1, operands |-> <<OperandOf(a), NoOperand>>]
         /\ SetOperand(SetOperand(FreshInstruction, 2, b), 1, a) =
              [operand_count |-> 2, operands |-> <<OperandOf(a), OperandOf(b)>>]
<1> DEFINE x == OperandOf(a)
           y == OperandOf(b)
           none == NoOperand
<1>1. FreshInstruction.operand_count = 0 /\ FreshInstruction.operands = <<none, none>>
  BY DEF FreshInstruction
<1> HIDE DEF x, y, none
<1>2. /\ [<<none, none>> EXCEPT ![1] = x] = <<x, none>>
      /\ [<<none, none>> EXCEPT ![2] = y] = <<none, y>>
      /\ [<<none, y>> EXCEPT ![1] = x] = <<x, y>>
  OBVIOUS
<1>3. SetOperand(FreshInstruction, 1, a) = [operand_count |-> 1, operands |-> <<x, none>>]
  BY <1>1, <1>2 DEF SetOperand, x
<1>4. PICK after : after = SetOperand(FreshInstruction, 2, b)
  OBVIOUS
<1>5. after = [operand_count |-> 2, operands |-> <<none, y>>]
  BY <1>1, <1>2, <1>4 DEF SetOperand, y
<1>6. after.operand_count = 2 /\ after.operands = <<none, y>>
  BY <1>5
<1>7. SetOperand(after, 1, a) = [operand_count |-> 2, operands |-> <<x, y>>]
  BY <1>2, <1>6 DEF SetOperand, x
<1> QED
  BY <1>3, <1>4, <1>7 DEF x, y, none

\* No statement of an instruction is the answer of a rule that does not match.
LEMMA InstructionIsNoMatch ==
  ASSUME NEW count, NEW ops
  PROVE  [operand_count |-> count, operands |-> ops] # NoMatch
<1>1. DOMAIN [operand_count |-> count, operands |-> ops] = {"operand_count", "operands"}
  OBVIOUS
<1>2. DOMAIN NoMatch = {"kind"}
  BY DEF NoMatch
<1>3. {"operand_count", "operands"} # {"kind"}
  OBVIOUS
<1> QED
  BY <1>1, <1>2, <1>3

\* The tokens of the operands are tokens of the line.
LEMMA OperandTokensAre ==
  ASSUME NEW line \in Lines, line[1].type = "TOKEN_INSTRUCTION", Types(line) \in Grammar
  PROVE  LET tokens == OperandTokens(line) IN
         /\ tokens \in Seq(Tokens) /\ Len(tokens) \in {0, 1, 2} /\ DOMAIN tokens = 1..Len(tokens)
         /\ Len(line) = 2 => Len(tokens) = 0
         /\ Len(line) = 3 => Len(tokens) = 1 /\ tokens[1] = line[2]
         /\ Len(line) = 5 => Len(tokens) = 2 /\ tokens[1] = line[2] /\ tokens[2] = line[4]
         /\ Len(line) = 6 => Len(tokens) = 2 /\ tokens[1] = line[2] /\ tokens[2] = line[5]
         /\ \A i \in DOMAIN tokens : tokens[i] \in Tokens /\ tokens[i].type \in OperandTokenTypes
<1>1. Len(line) \in {2, 3, 5, 6} /\ \A i \in 1..Len(line) : line[i] \in Tokens
  BY OperandTokensOf, TokensOfLine
<1>2. PICK tokens : tokens = OperandTokens(line)
  OBVIOUS
<1>3. CASE Len(line) = 2
  <2>1. tokens = << >>
    BY <1>2, <1>3, OperandTokensOf
  <2> QED
    BY <1>2, <1>3, <2>1
<1>4. CASE Len(line) = 3
  <2>1. tokens = <<line[2]>>
    BY <1>2, <1>4, OperandTokensOf
  <2>2. line[2] \in Tokens
    BY <1>1, <1>4
  <2>3. line[2].type \in OperandTokenTypes
    BY <1>4, GrammarByLength DEF OperandTokenTypes
  <2> QED
    BY <1>2, <1>4, <2>1, <2>2, <2>3
<1>5. CASE Len(line) = 5
  <2>1. tokens = <<line[2], line[4]>>
    BY <1>2, <1>5, OperandTokensOf
  <2>2. line[2] \in Tokens /\ line[4] \in Tokens
    BY <1>1, <1>5
  <2>3. line[2].type \in OperandTokenTypes /\ line[4].type \in OperandTokenTypes
    BY <1>5, GrammarByLength DEF OperandTokenTypes
  <2> QED
    BY <1>2, <1>5, <2>1, <2>2, <2>3
<1>6. CASE Len(line) = 6
  <2>1. tokens = <<line[2], line[5]>>
    BY <1>2, <1>6, OperandTokensOf
  <2>2. line[2] \in Tokens /\ line[5] \in Tokens
    BY <1>1, <1>6
  <2>3. line[2].type \in OperandTokenTypes /\ line[5].type \in OperandTokenTypes
    BY <1>6, GrammarByLength DEF OperandTokenTypes
  <2> QED
    BY <1>2, <1>6, <2>1, <2>2, <2>3
<1> QED
  BY <1>1, <1>3, <1>4, <1>5, <1>6

\* The numbers of a line of the grammar are among its operands.
LEMMA NumbersOfOperands ==
  ASSUME NEW line \in Lines, line[1].type = "TOKEN_INSTRUCTION", Types(line) \in Grammar
  PROVE  /\ Len(line) \in {2, 6} => NumbersFit(line)
         /\ Len(line) = 3 =>
              (NumbersFit(line) <=> (line[2].type = "TOKEN_NUMBER" => Storable(line[2])))
         /\ Len(line) = 5 =>
              (NumbersFit(line) <=> (line[4].type = "TOKEN_NUMBER" => Storable(line[4])))
<1>1. /\ Len(line) \in {2, 3, 5, 6} /\ DOMAIN line = 1..Len(line)
      /\ \A i \in 1..Len(line) :
           line[i] \in Tokens /\ (line[i].type = "TOKEN_EOF" <=> i = Len(line))
  BY OperandTokensOf, TokensOfLine
<1>2. ASSUME NEW token \in Tokens
      PROVE  token.number \in Int32Min..Int32Max <=> Storable(token)
  <2>1. token.number \in Int
    BY DEF Tokens
  <2>2. Int32Min \in Int /\ Int32Max \in Int
    BY ByteBaseAssumption DEF Int32Min, Int32Max, DwordValues
  <2> QED
    BY <2>1, <2>2 DEF Storable
<1>3. CASE Len(line) = 2
  <2>1. \A i \in 1..2 : line[i].type # "TOKEN_NUMBER"
    BY <1>1, <1>3
  <2> QED
    BY <1>1, <1>3, <2>1 DEF NumbersFit
<1>4. CASE Len(line) = 3
  <2>1. line[3].type # "TOKEN_NUMBER" /\ line[2] \in Tokens
    BY <1>1, <1>4
  <2>2. \A i \in 1..3 : line[i].type = "TOKEN_NUMBER" => i = 2
    BY <2>1
  <2> QED
    BY <1>1, <1>2, <1>4, <2>1, <2>2 DEF NumbersFit
<1>5. CASE Len(line) = 5
  <2>1. line[5].type # "TOKEN_NUMBER" /\ line[4] \in Tokens
    BY <1>1, <1>5
  <2>2. line[2].type = "TOKEN_REGISTER" /\ line[3].type = "TOKEN_COMMA"
    BY <1>5, GrammarByLength
  <2>3. \A i \in 1..5 : line[i].type = "TOKEN_NUMBER" => i = 4
    BY <2>1, <2>2
  <2> QED
    BY <1>1, <1>2, <1>5, <2>1, <2>3 DEF NumbersFit
<1>6. CASE Len(line) = 6
  <2>1. line[6].type # "TOKEN_NUMBER"
    BY <1>1, <1>6
  <2>2. /\ line[2].type = "TOKEN_REGISTER" /\ line[3].type = "TOKEN_COMMA"
        /\ line[4].type = "TOKEN_OFFSET" /\ line[5].type = "TOKEN_IDENTIFIER"
    BY <1>6, GrammarByLength
  <2>3. \A i \in 1..6 : line[i].type # "TOKEN_NUMBER"
    BY <2>1, <2>2
  <2> QED
    BY <1>1, <1>6, <2>3 DEF NumbersFit
<1> QED
  BY <1>1, <1>3, <1>4, <1>5, <1>6

\* What the parser makes of the tokens after a mnemonic: nothing when the grammar
\* does not have the line or a number does not fit, else the operands the line
\* names, in their order.
LEMMA OperandsParsed ==
  ASSUME NEW line \in Lines, line[1].type = "TOKEN_INSTRUCTION"
  PROVE  LET is     == grammar_instruction_rhs(FreshInstruction, Tail(line))
             tokens == OperandTokens(line)
         IN
         /\ is # NoMatch <=> Types(line) \in Grammar /\ NumbersFit(line)
         /\ is # NoMatch =>
              /\ is.operand_count = Len(tokens) /\ \E x, y : is.operands = <<x, y>>
              /\ \A i \in DOMAIN tokens : is.operands[i] = OperandOf(tokens[i])
              /\ \A i \in {1, 2} \ DOMAIN tokens : is.operands[i] = NoOperand
<1> DEFINE is == grammar_instruction_rhs(FreshInstruction, Tail(line))
           tokens == OperandTokens(line)
           Made == /\ is.operand_count = Len(tokens) /\ \E x, y : is.operands = <<x, y>>
                   /\ \A i \in DOMAIN tokens : is.operands[i] = OperandOf(tokens[i])
                   /\ \A i \in {1, 2} \ DOMAIN tokens : is.operands[i] = NoOperand
<1>1. Types(line) \notin Grammar => is = NoMatch
  BY OperandsByLength
<1>2. ASSUME Types(line) \in Grammar
      PROVE  (is # NoMatch <=> NumbersFit(line)) /\ (is # NoMatch => Made)
  <2>1. /\ Len(line) \in {2, 3, 5, 6}
        /\ Len(tokens) \in {0, 1, 2} /\ DOMAIN tokens = 1..Len(tokens)
    BY <1>2, OperandTokensOf, OperandTokensAre
  <2>2. CASE Len(line) = 2
    <3>1. is = [operand_count |-> 0, operands |-> <<NoOperand, NoOperand>>]
      BY <1>2, <2>2, OperandsByLength DEF FreshInstruction
    <3>2. Len(tokens) = 0 /\ DOMAIN tokens = {}
      BY <1>2, <2>1, <2>2, OperandTokensAre
    <3>3. is # NoMatch /\ NumbersFit(line)
      BY <1>2, <2>2, <3>1, InstructionIsNoMatch, NumbersOfOperands
    <3> HIDE DEF tokens, is
    <3>4. Made
      BY <3>1, <3>2
    <3> QED
      BY <3>3, <3>4
  <2>3. CASE Len(line) = 3
    <3>1. is = TrySetOperand(FreshInstruction, 1, line[2])
      BY <1>2, <2>3, OperandsByLength
    <3>2. Len(tokens) = 1 /\ tokens[1] = line[2]
      BY <1>2, <2>3, OperandTokensAre
    <3>3. DOMAIN tokens = {1}
      BY <2>1, <3>2
    <3>4. NumbersFit(line) <=> ~(line[2].type = "TOKEN_NUMBER" /\ ~Storable(line[2]))
      BY <1>2, <2>3, NumbersOfOperands
    <3> HIDE DEF tokens, is
    <3>5. ~NumbersFit(line) => is = NoMatch
      BY <3>1, <3>4 DEF TrySetOperand
    <3>6. NumbersFit(line) =>
            is = [operand_count |-> 1, operands |-> <<OperandOf(line[2]), NoOperand>>]
      BY <3>1, <3>4, OperandsSet DEF TrySetOperand
    <3>7. NumbersFit(line) => is # NoMatch
      BY <3>6, InstructionIsNoMatch
    <3>8. NumbersFit(line) => Made
      BY <3>2, <3>3, <3>6
    <3> QED
      BY <3>5, <3>7, <3>8
  <2>4. ASSUME Len(line) \in {5, 6}
        PROVE  (is # NoMatch <=> NumbersFit(line)) /\ (is # NoMatch => Made)
    <3>1. Len(tokens) = 2 /\ tokens[1] = line[2]
      BY <1>2, <2>4, OperandTokensAre
    <3>2. DOMAIN tokens = {1, 2}
      BY <2>1, <3>1
    <3>3. PICK after : after = TrySetOperand(FreshInstruction, 2, tokens[2])
      OBVIOUS
    <3>4. is = IF after = NoMatch THEN NoMatch ELSE TrySetOperand(after, 1, line[2])
      <4>1. /\ Len(line) = 5 => tokens[2] = line[4]
            /\ Len(line) = 6 => tokens[2] = line[5]
        BY <1>2, OperandTokensAre
      <4> QED
        BY <1>2, <2>4, <3>3, <4>1, OperandsByLength
    <3>5. line[2].type = "TOKEN_REGISTER"
      BY <1>2, <2>4, GrammarByLength
    <3>6. NumbersFit(line) <=> ~(tokens[2].type = "TOKEN_NUMBER" /\ ~Storable(tokens[2]))
      <4>1. CASE Len(line) = 5
        BY <1>2, <4>1, OperandTokensAre, NumbersOfOperands
      <4>2. CASE Len(line) = 6
        <5>1. tokens[2] = line[5]
          BY <1>2, <4>2, OperandTokensAre
        <5>2. line[5].type = "TOKEN_IDENTIFIER"
          BY <1>2, <4>2, GrammarByLength
        <5>3. NumbersFit(line)
          BY <1>2, <4>2, NumbersOfOperands
        <5> QED
          BY <5>1, <5>2, <5>3
      <4> QED
        BY <2>4, <4>1, <4>2
    <3> HIDE DEF tokens, is
    <3>7. ~NumbersFit(line) => is = NoMatch
      BY <3>3, <3>4, <3>6 DEF TrySetOperand
    <3>8. NumbersFit(line) => after = SetOperand(FreshInstruction, 2, tokens[2])
      BY <3>3, <3>6 DEF TrySetOperand
    <3>9. NumbersFit(line) => after # NoMatch
      BY <3>8, InstructionIsNoMatch DEF SetOperand
    <3>10. TrySetOperand(after, 1, line[2]) = SetOperand(after, 1, line[2])
      BY <3>5 DEF TrySetOperand
    <3>11. NumbersFit(line) =>
             is = [operand_count |-> 2,
                   operands |-> <<OperandOf(line[2]), OperandOf(tokens[2])>>]
      BY <3>4, <3>8, <3>9, <3>10, OperandsSet
    <3>12. NumbersFit(line) => is # NoMatch
      BY <3>11, InstructionIsNoMatch
    <3>13. NumbersFit(line) => Made
      BY <3>1, <3>2, <3>11
    <3> QED
      BY <3>7, <3>12, <3>13
  <2> QED
    BY <2>1, <2>2, <2>3, <2>4
<1> QED
  BY <1>1, <1>2

\* The kind of operand a token stands for, and its value.
LEMMA OperandOfToken ==
  ASSUME NEW token \in Tokens, token.type \in OperandTokenTypes,
         token.type = "TOKEN_NUMBER" => token.number \in Int32Min..Int32Max
  PROVE  LET op == OperandOf(token) IN
         /\ op.type = IF token.type = "TOKEN_REGISTER" THEN "OP_REG" ELSE "OP_IMM32"
         /\ OperandValue(op) = Meaning(token) /\ OperandValue(op) \in Int
         /\ op.type = "OP_REG" => OperandValue(op) \in Nat
         /\ op.type = "OP_IMM32" => OperandValue(op) \in Int32Min..Int32Max
<1>1. Int32Min \in Int /\ Int32Max \in Int
  BY ByteBaseAssumption DEF Int32Min, Int32Max, DwordValues
<1>2. CASE token.type = "TOKEN_REGISTER"
  <2>1. OperandOf(token) = [NoOperand EXCEPT !.type = "OP_REG", !.value = RegisterCode[token.text]]
    BY <1>2 DEF OperandOf
  <2>2. PICK op : op = OperandOf(token)
    OBVIOUS
  <2>3. op.type = "OP_REG" /\ op.specifier = "OPS_NONE" /\ op.value = RegisterCode[token.text]
    BY <2>1, <2>2 DEF NoOperand
  <2>4. token.text \in {"A", "B", "C", "D", "S", "SP"}
    <3>1. token.text \in DOMAIN RegisterCode
      BY <1>2 DEF Tokens
    <3> QED
      BY <3>1 DEF RegisterCode
  <2>5. Meaning(token) =
          CHOOSE n \in 1..6 : <<"A", "B", "C", "D", "S", "SP">>[n] = token.text
    BY <1>2 DEF Meaning
  <2>6. \A n \in 1..6 : <<"A", "B", "C", "D", "S", "SP">>[n] = token.text
                          <=> n = RegisterCode[token.text]
    BY <2>4 DEF RegisterCode
  <2>7. RegisterCode[token.text] \in 1..6
    BY <2>4 DEF RegisterCode
  <2>8. Meaning(token) = RegisterCode[token.text]
    BY <2>5, <2>6, <2>7
  <2> QED
    BY <1>2, <2>2, <2>3, <2>7, <2>8 DEF OperandValue
<1>3. CASE token.type = "TOKEN_NUMBER"
  <2>1. OperandOf(token) = [NoOperand EXCEPT !.type = "OP_IMM32", !.value = token.number]
    BY <1>3 DEF OperandOf
  <2>2. PICK op : op = OperandOf(token)
    OBVIOUS
  <2>3. op.type = "OP_IMM32" /\ op.specifier = "OPS_NONE" /\ op.value = token.number
    BY <2>1, <2>2 DEF NoOperand
  <2>4. token.number \in Int /\ Meaning(token) = token.number
    BY <1>3 DEF Tokens, Meaning
  <2> QED
    BY <1>3, <2>2, <2>3, <2>4 DEF OperandValue
<1>4. ASSUME token.type \in {"TOKEN_LABEL", "TOKEN_IDENTIFIER"}
      PROVE  /\ OperandOf(token).type = "OP_IMM32"
             /\ OperandValue(OperandOf(token)) = Meaning(token)
             /\ OperandValue(OperandOf(token)) \in Int32Min..Int32Max
  <2>1. PICK op : op = OperandOf(token)
    OBVIOUS
  <2>2. op.type = "OP_IMM32" /\ op.specifier # "OPS_NONE" /\ op.label = token.text
    BY <1>4, <2>1 DEF OperandOf, NoOperand
  <2>3. token.text \in DOMAIN Symbols
    BY <1>4 DEF Tokens
  <2>4. Symbols[token.text] \in Int32Min..Int32Max
    BY <2>3, StreamAssumption
  <2>5. Meaning(token) = Symbols[token.text]
    BY <1>4 DEF Meaning
  <2> QED
    BY <2>1, <2>2, <2>4, <2>5 DEF OperandValue
<1> QED
  BY <1>1, <1>2, <1>3, <1>4 DEF OperandTokenTypes

-----------------------------------------------------------------------------
(* Lines.                                                                  *)

\* The table finds a row that agrees when there is one, and only then.
LEMMA InstructionFound ==
  ASSUME NEW mnemonic, NEW operand1, NEW operand2
  PROVE  LET desc == instruction_find(mnemonic, operand1, operand2) IN
         /\ desc # NoDescriptor <=>
              \E row \in Descriptors :
                row.mnemonic = mnemonic /\ row.operand1 = operand1 /\ row.operand2 = operand2
         /\ desc # NoDescriptor =>
              /\ desc \in Descriptors /\ desc.mnemonic = mnemonic
              /\ desc.operand1 = operand1 /\ desc.operand2 = operand2
<1> DEFINE found == Matching(mnemonic, operand1, operand2)
           desc == instruction_find(mnemonic, operand1, operand2)
<1>1. \A i : i \in found <=>
        /\ i \in DOMAIN INSTRUCTION_TABLE /\ INSTRUCTION_TABLE[i].mnemonic = mnemonic
        /\ INSTRUCTION_TABLE[i].operand1 = operand1 /\ INSTRUCTION_TABLE[i].operand2 = operand2
  BY DEF Matching
<1>2. desc = IF found = {} THEN NoDescriptor
             ELSE INSTRUCTION_TABLE[CHOOSE i \in found : \A j \in found : i <= j]
  BY DEF instruction_find
<1> HIDE DEF found
<1>3. (\E row \in Descriptors :
         row.mnemonic = mnemonic /\ row.operand1 = operand1 /\ row.operand2 = operand2)
      <=> found # {}
  BY <1>1 DEF Descriptors
<1>4. ASSUME found # {}
      PROVE  /\ desc \in Descriptors /\ desc # NoDescriptor /\ desc.mnemonic = mnemonic
             /\ desc.operand1 = operand1 /\ desc.operand2 = operand2
  <2>1. found \subseteq Nat
    <3>1. DOMAIN INSTRUCTION_TABLE \subseteq Nat
      BY DEF INSTRUCTION_TABLE
    <3> QED
      BY <1>1, <3>1
  <2>2. \E i \in found : \A j \in found : i <= j
    BY <1>4, <2>1, LeastNatural
  <2>3. (CHOOSE i \in found : \A j \in found : i <= j) \in found
    BY <2>2
  <2>4. PICK i \in found : desc = INSTRUCTION_TABLE[i]
    BY <1>2, <1>4, <2>3
  <2>5. desc \in Descriptors
    BY <1>1, <2>4 DEF Descriptors
  <2>6. desc # NoDescriptor
    <3>1. desc.opcode \in Nat
      BY <2>5, TypesOfRows
    <3>2. NoDescriptor.opcode = -1
      BY DEF NoDescriptor, Row
    <3> QED
      BY <3>1, <3>2
  <2> QED
    BY <1>1, <2>4, <2>5, <2>6
<1>5. found = {} => desc = NoDescriptor
  BY <1>2
<1> QED
  BY <1>3, <1>4, <1>5

\* The types by which the table looks an instruction up.
LEMMA TypesLookedUp ==
  ASSUME NEW line \in Lines, line[1].type = "TOKEN_INSTRUCTION",
         Types(line) \in Grammar, NumbersFit(line)
  PROVE  LET is == grammar_instruction_rhs(FreshInstruction, Tail(line)) IN
         /\ is.operands[1].type = OperandType(line, 1)
         /\ is.operands[2].type = OperandType(line, 2)
<1> DEFINE is == grammar_instruction_rhs(FreshInstruction, Tail(line))
           tokens == OperandTokens(line)
<1>1. /\ \A i \in DOMAIN tokens : is.operands[i] = OperandOf(tokens[i])
      /\ \A i \in {1, 2} \ DOMAIN tokens : is.operands[i] = NoOperand
  BY OperandsParsed
<1>2. /\ Len(tokens) \in {0, 1, 2} /\ DOMAIN tokens = 1..Len(tokens)
      /\ \A i \in DOMAIN tokens : tokens[i] \in Tokens /\ tokens[i].type \in OperandTokenTypes
  BY OperandTokensAre
<1>3. ASSUME NEW token \in Tokens, token.type \in OperandTokenTypes
      PROVE  OperandOf(token).type =
               IF token.type = "TOKEN_REGISTER" THEN "OP_REG" ELSE "OP_IMM32"
  BY <1>3 DEF OperandOf, OperandTokenTypes, NoOperand
<1>4. NoOperand.type = "OP_NONE"
  BY DEF NoOperand
<1> HIDE DEF is, tokens
<1>5. ASSUME NEW i \in {1, 2}
      PROVE  is.operands[i].type = IF i > Len(tokens) THEN "OP_NONE"
               ELSE IF tokens[i].type = "TOKEN_REGISTER" THEN "OP_REG" ELSE "OP_IMM32"
  <2>1. CASE i \in DOMAIN tokens
    <3>1. ~(i > Len(tokens))
      BY <1>2, <2>1
    <3>2. tokens[i] \in Tokens /\ tokens[i].type \in OperandTokenTypes
      BY <1>2, <2>1
    <3> QED
      BY <1>1, <1>3, <2>1, <3>1, <3>2
  <2>2. CASE i \notin DOMAIN tokens
    <3>1. i > Len(tokens)
      BY <1>2, <2>2
    <3> QED
      BY <1>1, <1>4, <2>2, <3>1
  <2> QED
    BY <2>1, <2>2
<1> QED
  BY <1>5 DEF OperandType, is, tokens

\* A line that begins with a mnemonic.
LEMMA InstructionLine ==
  ASSUME NEW line \in Lines, line[1].type = "TOKEN_INSTRUCTION"
  PROVE  LET result == grammar_line_instruction(line)
             is     == grammar_instruction_rhs(FreshInstruction, Tail(line))
         IN
         /\ result # NoMatch <=> Types(line) \in Grammar /\ NumbersFit(line) /\ InTable(line)
         /\ result # NoMatch =>
              /\ result.kind = "STMT_INSTRUCTION" /\ result.desc \in Descriptors
              /\ result.desc.mnemonic = line[1].text
              /\ result.desc.operand1 = OperandType(line, 1)
              /\ result.desc.operand2 = OperandType(line, 2)
              /\ result.ops = SubSeq(is.operands, 1, is.operand_count)
<1> DEFINE is == grammar_instruction_rhs(FreshInstruction, Tail(line))
           desc == instruction_find(line[1].text, is.operands[1].type, is.operands[2].type)
           ops == SubSeq(is.operands, 1, is.operand_count)
           result == grammar_line_instruction(line)
<1>1. result = IF is = NoMatch \/ desc = NoDescriptor THEN NoMatch
               ELSE [kind |-> "STMT_INSTRUCTION", desc |-> desc, ops |-> ops]
  BY DEF grammar_line_instruction
<1>2. is # NoMatch <=> Types(line) \in Grammar /\ NumbersFit(line)
  BY OperandsParsed
<1>3. is # NoMatch =>
        is.operands[1].type = OperandType(line, 1) /\ is.operands[2].type = OperandType(line, 2)
  BY <1>2, TypesLookedUp
<1>4. /\ desc # NoDescriptor <=>
           \E row \in Descriptors :
             /\ row.mnemonic = line[1].text
             /\ row.operand1 = is.operands[1].type /\ row.operand2 = is.operands[2].type
      /\ desc # NoDescriptor =>
           /\ desc \in Descriptors /\ desc.mnemonic = line[1].text
           /\ desc.operand1 = is.operands[1].type /\ desc.operand2 = is.operands[2].type
  BY InstructionFound
<1>5. [kind |-> "STMT_INSTRUCTION", desc |-> desc, ops |-> ops] # NoMatch
  BY DEF NoMatch
<1> HIDE DEF is, desc, ops, result
<1>6. is # NoMatch => (desc # NoDescriptor <=> InTable(line))
  BY <1>3, <1>4 DEF InTable
<1>7. result # NoMatch <=> is # NoMatch /\ desc # NoDescriptor
  BY <1>1, <1>5
<1>8. result # NoMatch =>
        result.kind = "STMT_INSTRUCTION" /\ result.desc = desc /\ result.ops = ops
  BY <1>1
<1>9. result # NoMatch <=> Types(line) \in Grammar /\ NumbersFit(line) /\ InTable(line)
  BY <1>2, <1>6, <1>7
<1>10. result # NoMatch =>
         /\ result.kind = "STMT_INSTRUCTION" /\ result.desc \in Descriptors
         /\ result.desc.mnemonic = line[1].text
         /\ result.desc.operand1 = OperandType(line, 1)
         /\ result.desc.operand2 = OperandType(line, 2)
         /\ result.ops = ops
  BY <1>3, <1>4, <1>7, <1>8
<1> QED
  BY <1>9, <1>10 DEF result, ops, is

\* What grammar_line makes of a line, by its first token.
LEMMA GrammarLine ==
  ASSUME NEW line \in Lines
  PROVE  LET first == line[1].type
             short == {"TOKEN_KMA", "TOKEN_SECTION_CODE", "TOKEN_SECTION_DATA", "TOKEN_LABEL"}
         IN
         /\ first = "TOKEN_INSTRUCTION" => grammar_line(line) = grammar_line_instruction(line)
         /\ first # "TOKEN_INSTRUCTION" =>
              /\ grammar_line(line) # NoMatch <=>
                   Len(line) = 1 \/ (Len(line) = 2 /\ first \in short)
              /\ grammar_line(line).kind # "STMT_INSTRUCTION"
<1> DEFINE first == line[1].type
           short == {"TOKEN_KMA", "TOKEN_SECTION_CODE", "TOKEN_SECTION_DATA", "TOKEN_LABEL"}
           K == StartsWith(line, <<"TOKEN_KMA", "TOKEN_EOF">>)
           C == StartsWith(line, <<"TOKEN_SECTION_CODE", "TOKEN_EOF">>)
           D == StartsWith(line, <<"TOKEN_SECTION_DATA", "TOKEN_EOF">>)
           L == StartsWith(line, <<"TOKEN_LABEL", "TOKEN_EOF">>)
           I == StartsWith(line, <<"TOKEN_INSTRUCTION">>)
           E == StartsWith(line, <<"TOKEN_EOF">>)
           result == grammar_line(line)
<1>1. /\ Len(line) \in Nat \ {0}
      /\ \A n \in 1..Len(line) : line[n].type = "TOKEN_EOF" <=> n = Len(line)
  BY TokensOfLine
<1>2. /\ K <=> Len(line) = 2 /\ first = "TOKEN_KMA"
      /\ C <=> Len(line) = 2 /\ first = "TOKEN_SECTION_CODE"
      /\ D <=> Len(line) = 2 /\ first = "TOKEN_SECTION_DATA"
      /\ L <=> Len(line) = 2 /\ first = "TOKEN_LABEL"
      /\ E <=> Len(line) = 1
  <2>1. PICK k : k = 0
    OBVIOUS
  <2>2. IsRest(line, k, line) /\ k + 1 = 1 /\ k + 2 = 2
    BY <2>1, RestsOfLine
  <2>3. ASSUME NEW a \in TokenTypes
        PROVE  /\ StartsWith(line, <<"TOKEN_EOF">>) <=> Len(line) = 1
               /\ StartsWith(line, <<a, "TOKEN_EOF">>) <=> Len(line) = 2 /\ line[1].type = a
    <3>1. /\ StartsWith(line, <<"TOKEN_EOF">>) <=> Len(line) = k + 1
          /\ StartsWith(line, <<a, "TOKEN_EOF">>) <=> Len(line) = k + 2 /\ line[k + 1].type = a
      BY <2>2, EndsAfter
    <3> QED
      BY <2>2, <3>1, Zenon
  <2>4. short \subseteq TokenTypes
    BY DEF TokenTypes
  <2> QED
    BY <2>3, <2>4, Zenon
<1>3. I <=> first = "TOKEN_INSTRUCTION"
  <2>1. PICK types : types = <<"TOKEN_INSTRUCTION">>
    OBVIOUS
  <2>2. Len(types) = 1 /\ DOMAIN types = {1} /\ types[1] = "TOKEN_INSTRUCTION"
    BY <2>1
  <2>3. 1 <= Len(line)
    BY <1>1
  <2>4. StartsWith(line, types) <=> first = "TOKEN_INSTRUCTION"
    BY <2>2, <2>3 DEF StartsWith
  <2> QED
    BY <2>1, <2>4
<1>4. Len(line) = 1 <=> first = "TOKEN_EOF"
  <2>1. 1 \in 1..Len(line)
    BY <1>1
  <2> QED
    BY <1>1, <2>1, Zenon
<1>5. result = CASE K -> [kind |-> "STMT_KMA"]
                 [] C -> [kind |-> "STMT_SECTION_CODE"]
                 [] D -> [kind |-> "STMT_SECTION_DATA"]
                 [] L -> [kind |-> "STMT_LABEL_DEF", label |-> line[1].text]
                 [] I -> grammar_line_instruction(line)
                 [] E -> [kind |-> "STMT_NONE"]
                 [] OTHER -> NoMatch
  BY DEF grammar_line
<1> HIDE DEF K, C, D, L, I, E, result
<1>6. /\ K => ~C /\ ~D /\ ~L /\ ~I /\ ~E
      /\ C => ~K /\ ~D /\ ~L /\ ~I /\ ~E
      /\ D => ~K /\ ~C /\ ~L /\ ~I /\ ~E
      /\ L => ~K /\ ~C /\ ~D /\ ~I /\ ~E
      /\ E => ~K /\ ~C /\ ~D /\ ~L /\ ~I
      /\ I => ~K /\ ~C /\ ~D /\ ~L /\ ~E
  BY <1>2, <1>3, <1>4
<1>7. I => result = grammar_line_instruction(line)
  BY <1>5, <1>6
<1>8. ~I => /\ K \/ C \/ D \/ L \/ E => result # NoMatch
            /\ ~(K \/ C \/ D \/ L \/ E) => result = NoMatch
            /\ result.kind # "STMT_INSTRUCTION"
  <2>1. /\ K => result.kind = "STMT_KMA"
        /\ C => result.kind = "STMT_SECTION_CODE"
        /\ D => result.kind = "STMT_SECTION_DATA"
        /\ L => result.kind = "STMT_LABEL_DEF"
        /\ E => result.kind = "STMT_NONE"
    BY <1>5, <1>6
  <2>2. ~I /\ ~(K \/ C \/ D \/ L \/ E) => result = NoMatch
    BY <1>5
  <2>3. NoMatch.kind = "GRM_NO_MATCH"
    BY DEF NoMatch
  <2> QED
    BY <2>1, <2>2, <2>3
<1>9. K \/ C \/ D \/ L \/ E <=> Len(line) = 1 \/ (Len(line) = 2 /\ first \in short)
  BY <1>2
<1> QED
  BY <1>3, <1>7, <1>8, <1>9 DEF result

\* The parser accepts the lines of the grammar and no other.
LEMMA ParserAccepts ==
  ASSUME NEW line \in Lines
  PROVE  grammar_line(line) # NoMatch <=>
           /\ Types(line) \in Grammar /\ NumbersFit(line)
           /\ line[1].type = "TOKEN_INSTRUCTION" => InTable(line)
<1>1. CASE line[1].type = "TOKEN_INSTRUCTION"
  BY <1>1, GrammarLine, InstructionLine
<1>2. CASE line[1].type # "TOKEN_INSTRUCTION"
  <2>1. Types(line) \in Grammar <=>
          \/ Len(line) = 1
          \/ /\ Len(line) = 2
             /\ line[1].type \in
                  {"TOKEN_KMA", "TOKEN_SECTION_CODE", "TOKEN_SECTION_DATA", "TOKEN_LABEL"}
    BY <1>2, GrammarByLength
  <2>2. grammar_line(line) # NoMatch <=> Types(line) \in Grammar
    BY <1>2, <2>1, GrammarLine
  <2>3. Types(line) \in Grammar => NumbersFit(line)
    <3>1. /\ Len(line) \in Nat \ {0} /\ DOMAIN line = 1..Len(line)
          /\ \A n \in 1..Len(line) : line[n].type = "TOKEN_EOF" <=> n = Len(line)
      BY TokensOfLine
    <3>2. CASE Len(line) = 1
      <4>1. \A n \in DOMAIN line : line[n].type = "TOKEN_EOF"
        BY <3>1, <3>2
      <4> QED
        BY <4>1 DEF NumbersFit
    <3>3. ASSUME Len(line) = 2, line[1].type # "TOKEN_NUMBER"
          PROVE  NumbersFit(line)
      <4>1. line[2].type = "TOKEN_EOF" /\ DOMAIN line = {1, 2}
        BY <3>1, <3>3
      <4>2. \A n \in DOMAIN line : line[n].type # "TOKEN_NUMBER"
        BY <3>3, <4>1
      <4> QED
        BY <4>2 DEF NumbersFit
    <3> QED
      BY <2>1, <3>2, <3>3
  <2> QED
    BY <1>2, <2>2, <2>3
<1> QED
  BY <1>1, <1>2

\* The operands of an instruction that is accepted are those of the row and of the
\* line: their number, their order, their types and their values.
LEMMA AcceptedInstruction ==
  ASSUME NEW line \in Lines, grammar_line(line).kind = "STMT_INSTRUCTION"
  PROVE  LET desc   == grammar_line(line).desc
             ops    == grammar_line(line).ops
             values == Values(ops)
         IN
         /\ desc \in Descriptors /\ desc.mnemonic = line[1].text /\ line[1].text \in STRING
         /\ TypesAgree(desc, ops)
         /\ values \in [DOMAIN ops -> Int] /\ values = MeantOperands(line)
         /\ MeantOperands(line) \in Seq(Int)
         /\ \A i \in DOMAIN ops :
              /\ ops[i].type = "OP_REG" => values[i] \in Nat
              /\ ops[i].type = "OP_IMM32" => values[i] \in Int32Min..Int32Max
<1> DEFINE result == grammar_line(line)
           is     == grammar_instruction_rhs(FreshInstruction, Tail(line))
           tokens == OperandTokens(line)
           ops    == result.ops
           values == Values(ops)
<1>1. line[1].type = "TOKEN_INSTRUCTION" /\ result = grammar_line_instruction(line)
  BY GrammarLine
<1>2. result # NoMatch
  BY DEF NoMatch
<1>3. /\ Types(line) \in Grammar /\ NumbersFit(line)
      /\ result.desc \in Descriptors /\ result.desc.mnemonic = line[1].text
      /\ result.desc.operand1 = OperandType(line, 1)
      /\ result.desc.operand2 = OperandType(line, 2)
      /\ ops = SubSeq(is.operands, 1, is.operand_count)
  BY <1>1, <1>2, InstructionLine
<1>4. /\ Len(tokens) \in {0, 1, 2} /\ DOMAIN tokens = 1..Len(tokens)
      /\ \A i \in DOMAIN tokens : tokens[i] \in Tokens /\ tokens[i].type \in OperandTokenTypes
  BY <1>1, <1>3, OperandTokensAre
<1>5. /\ is.operand_count = Len(tokens) /\ \E x, y : is.operands = <<x, y>>
      /\ \A i \in DOMAIN tokens : is.operands[i] = OperandOf(tokens[i])
  BY <1>1, <1>3, OperandsParsed
<1>6. \A i \in DOMAIN tokens :
        tokens[i].type = "TOKEN_NUMBER" => tokens[i].number \in Int32Min..Int32Max
  <2>1. /\ Len(line) \in {2, 3, 5, 6} /\ DOMAIN line = 1..Len(line)
        /\ Len(line) = 2 => Len(tokens) = 0
        /\ Len(line) = 3 => Len(tokens) = 1 /\ tokens[1] = line[2]
        /\ Len(line) = 5 => Len(tokens) = 2 /\ tokens[1] = line[2] /\ tokens[2] = line[4]
        /\ Len(line) = 6 => Len(tokens) = 2 /\ tokens[1] = line[2] /\ tokens[2] = line[5]
    BY <1>1, <1>3, OperandTokensOf, OperandTokensAre, TokensOfLine
  <2> HIDE DEF tokens
  <2>2. ASSUME NEW i \in DOMAIN tokens
        PROVE  \E n \in DOMAIN line : tokens[i] = line[n]
    BY <1>4, <2>1
  <2> QED
    BY <1>3, <2>2 DEF NumbersFit
<1>7. \A i \in DOMAIN tokens :
        LET op == OperandOf(tokens[i]) IN
        /\ op.type = IF tokens[i].type = "TOKEN_REGISTER" THEN "OP_REG" ELSE "OP_IMM32"
        /\ OperandValue(op) = Meaning(tokens[i]) /\ OperandValue(op) \in Int
        /\ op.type = "OP_REG" => OperandValue(op) \in Nat
        /\ op.type = "OP_IMM32" => OperandValue(op) \in Int32Min..Int32Max
  BY <1>4, <1>6, OperandOfToken
<1>8. MeantOperands(line) = [i \in DOMAIN tokens |-> Meaning(tokens[i])]
  BY DEF MeantOperands
<1>9. line[1].text \in STRING
  <2>1. 1 \in 1..Len(line) /\ \A i \in 1..Len(line) : line[i] \in Tokens
    BY TokensOfLine
  <2> QED
    BY <2>1 DEF Tokens
<1>10. OperandType(line, 1) = IF 1 > Len(tokens) THEN "OP_NONE"
         ELSE IF tokens[1].type = "TOKEN_REGISTER" THEN "OP_REG" ELSE "OP_IMM32"
  BY DEF OperandType
<1>11. OperandType(line, 2) = IF 2 > Len(tokens) THEN "OP_NONE"
         ELSE IF tokens[2].type = "TOKEN_REGISTER" THEN "OP_REG" ELSE "OP_IMM32"
  BY DEF OperandType
<1>12. Len(ops) = Len(tokens) /\ DOMAIN ops = DOMAIN tokens
       /\ \A i \in DOMAIN tokens : ops[i] = OperandOf(tokens[i])
  <2> HIDE DEF tokens, is, ops
  <2>1. PICK x, y : is.operands = <<x, y>>
    BY <1>5
  <2>2. PICK n \in {0, 1, 2} : n = Len(tokens)
    BY <1>4
  <2>3. ops = SubSeq(<<x, y>>, 1, n)
    BY <1>3, <1>5, <2>1, <2>2
  <2>4. /\ Len(ops) = n /\ DOMAIN ops = 1..n
        /\ \A i \in 1..n : ops[i] = <<x, y>>[i]
    BY <2>2, <2>3
  <2> QED
    BY <1>4, <1>5, <2>1, <2>2, <2>4
<1> HIDE DEF result, is, tokens, ops
<1>13. TypesAgree(result.desc, ops)
  <2>1. Len(ops) \in 0..2 /\ DOMAIN ops = 1..Len(ops)
    BY <1>4, <1>12
  <2>2. \A i \in DOMAIN ops :
          ops[i].type = IF tokens[i].type = "TOKEN_REGISTER" THEN "OP_REG" ELSE "OP_IMM32"
    BY <1>7, <1>12
  <2>3. /\ 1 > Len(tokens) <=> 1 \notin DOMAIN ops
        /\ 2 > Len(tokens) <=> 2 \notin DOMAIN ops
    BY <1>4, <1>12
  <2>4. result.desc.operand1 = IF 1 \in DOMAIN ops THEN ops[1].type ELSE "OP_NONE"
    BY <1>3, <1>10, <2>2, <2>3
  <2>5. result.desc.operand2 = IF 2 \in DOMAIN ops THEN ops[2].type ELSE "OP_NONE"
    BY <1>3, <1>11, <2>2, <2>3
  <2> QED
    BY <2>1, <2>2, <2>4, <2>5 DEF TypesAgree
<1>14. values = [i \in DOMAIN ops |-> OperandValue(ops[i])]
  BY DEF Values
<1> HIDE DEF values
<1>15. values \in [DOMAIN ops -> Int] /\ values = MeantOperands(line)
  BY <1>7, <1>8, <1>12, <1>14
<1>16. MeantOperands(line) \in Seq(Int)
  <2>1. DOMAIN ops = 1..Len(tokens) /\ Len(tokens) \in Nat
    BY <1>4, <1>12
  <2> QED
    BY <1>15, <2>1
<1>17. \A i \in DOMAIN ops :
         /\ ops[i].type = "OP_REG" => values[i] \in Nat
         /\ ops[i].type = "OP_IMM32" => values[i] \in Int32Min..Int32Max
  BY <1>7, <1>12, <1>14
<1> QED
  BY <1>3, <1>9, <1>13, <1>15, <1>16, <1>17 DEF values, ops, result

-----------------------------------------------------------------------------
(* Streams.                                                                *)

\* Where instruction n of the stream begins.
Address(n) == IF n = 1 THEN 0 ELSE stmts[n - 1].next

\* The bytes of an instruction line.
LineBytes(line) ==
  LET parsed == grammar_line(line) IN Encode(parsed.desc, parsed.ops, Values(parsed.ops))

\* Instruction n of the stream is that of a line, and its bytes are in their place.
Placed(n, line) ==
  /\ grammar_line(line).kind = "STMT_INSTRUCTION"
  /\ stmts[n] = [mnemonic |-> line[1].text, operands |-> MeantOperands(line),
                 next |-> Address(n) + Len(LineBytes(line))]
  /\ stmts[n].next <= Len(code)
  /\ HoldsAt(code, Address(n), LineBytes(line))

\* The line read last was parsed; every instruction is placed; the next one will
\* begin where the code ends.
StreamInv ==
  /\ current # << >> => current \in Lines /\ statement = grammar_line(current)
  /\ code \in Seq(Nat)
  /\ stmts \in Seq([mnemonic : STRING, operands : Seq(Int), next : Nat])
  /\ Address(Len(stmts) + 1) = Len(code)
  /\ \A n \in DOMAIN stmts : \E line \in Lines : Placed(n, line)

\* The bytes of a line that is accepted are as many as pass 1 reserves.
LEMMA BytesOfLine ==
  ASSUME NEW line \in Lines, grammar_line(line).kind = "STMT_INSTRUCTION"
  PROVE  /\ LineBytes(line) \in Seq(Nat)
         /\ Len(LineBytes(line)) = instruction_get_encoded_size(grammar_line(line).desc)
<1>1. PICK parsed : parsed = grammar_line(line)
  OBVIOUS
<1>2. /\ parsed.desc \in Descriptors /\ TypesAgree(parsed.desc, parsed.ops)
      /\ Values(parsed.ops) \in [DOMAIN parsed.ops -> Int]
      /\ \A i \in DOMAIN parsed.ops :
           parsed.ops[i].type = "OP_REG" => Values(parsed.ops)[i] \in Nat
  BY <1>1, AcceptedInstruction
<1>3. /\ Encode(parsed.desc, parsed.ops, Values(parsed.ops)) \in Seq(Nat)
      /\ Len(Encode(parsed.desc, parsed.ops, Values(parsed.ops)))
           = instruction_get_encoded_size(parsed.desc)
  BY <1>2, EncodedBytes
<1> QED
  BY <1>1, <1>3 DEF LineBytes

\* What is appended leaves the bytes before it alone, and follows them.
LEMMA AppendedBytes ==
  ASSUME NEW before \in Seq(Nat), NEW bytes \in Seq(Nat)
  PROVE  /\ before \o bytes \in Seq(Nat) /\ Len(before \o bytes) = Len(before) + Len(bytes)
         /\ HoldsAt(before \o bytes, Len(before), bytes)
         /\ \A at \in Nat, part \in Seq(Nat) :
              at + Len(part) <= Len(before) /\ HoldsAt(before, at, part) =>
                HoldsAt(before \o bytes, at, part)
<1>1. /\ before \o bytes \in Seq(Nat) /\ Len(before \o bytes) = Len(before) + Len(bytes)
      /\ \A k \in 1..Len(before) : (before \o bytes)[k] = before[k]
  OBVIOUS
<1>2. ASSUME NEW k \in DOMAIN bytes
      PROVE  (before \o bytes)[Len(before) + k] = bytes[k]
  OBVIOUS
<1>3. ASSUME NEW at \in Nat, NEW part \in Seq(Nat), at + Len(part) <= Len(before),
             HoldsAt(before, at, part)
      PROVE  HoldsAt(before \o bytes, at, part)
  <2>1. \A k \in DOMAIN part : at + k \in 1..Len(before)
    BY <1>3
  <2>2. \A k \in DOMAIN part : before[at + k] = part[k]
    BY <1>3 DEF HoldsAt
  <2> QED
    BY <1>1, <2>1, <2>2 DEF HoldsAt
<1> QED
  BY <1>1, <1>2, <1>3 DEF HoldsAt

\* Every step keeps the instructions where they are and places the new one.
LEMMA StreamStep ==
  ASSUME StreamInv, [Next]_vars
  PROVE  StreamInv'
<1>1. /\ current # << >> => current \in Lines /\ statement = grammar_line(current)
      /\ code \in Seq(Nat)
      /\ stmts \in Seq([mnemonic : STRING, operands : Seq(Int), next : Nat])
      /\ Address(Len(stmts) + 1) = Len(code)
      /\ \A n \in DOMAIN stmts : \E line \in Lines : Placed(n, line)
  BY DEF StreamInv
<1>2. CASE UNCHANGED vars
  BY <1>1, <1>2 DEF StreamInv, Address, Placed, vars
<1>3. ASSUME NEW line \in Lines, current' = line, statement' = grammar_line(line),
             Assemble(line)
      PROVE  StreamInv'
  <2> DEFINE bytes == LineBytes(line)
             record == [mnemonic |-> line[1].text, operands |-> MeantOperands(line),
                        next |-> Len(code) + Len(bytes)]
  <2>1. grammar_line(line).kind = "STMT_INSTRUCTION"
    BY <1>3 DEF Assemble
  <2>2. bytes \in Seq(Nat)
        /\ Len(bytes) = instruction_get_encoded_size(grammar_line(line).desc)
    BY <2>1, BytesOfLine
  <2>3. line[1].text \in STRING /\ MeantOperands(line) \in Seq(Int)
    BY <2>1, AcceptedInstruction
  <2>4. stmts' = Append(stmts, record) /\ code' = code \o bytes
    BY <1>3, <2>2 DEF Assemble, LineBytes
  <2> HIDE DEF bytes
  <2>5. record \in [mnemonic : STRING, operands : Seq(Int), next : Nat]
    BY <1>1, <2>2, <2>3
  <2>6. record.mnemonic = line[1].text /\ record.operands = MeantOperands(line)
        /\ record.next = Len(code) + Len(bytes)
    OBVIOUS
  <2> HIDE DEF record
  <2>7. /\ stmts' \in Seq([mnemonic : STRING, operands : Seq(Int), next : Nat])
        /\ Len(stmts) \in Nat /\ DOMAIN stmts = 1..Len(stmts)
        /\ Len(stmts') = Len(stmts) + 1 /\ DOMAIN stmts' = 1..(Len(stmts) + 1)
        /\ stmts'[Len(stmts) + 1] = record
        /\ \A n \in 1..Len(stmts) : stmts'[n] = stmts[n] /\ stmts[n].next \in Nat
    <3>1. PICK R : R = [mnemonic : STRING, operands : Seq(Int), next : Nat]
      OBVIOUS
    <3>2. stmts \in Seq(R) /\ record \in R
      BY <1>1, <2>5, <3>1
    <3>3. \A r \in R : r.next \in Nat
      BY <3>1
    <3>4. /\ stmts' \in Seq(R)
          /\ Len(stmts) \in Nat /\ DOMAIN stmts = 1..Len(stmts)
          /\ Len(stmts') = Len(stmts) + 1 /\ DOMAIN stmts' = 1..(Len(stmts) + 1)
          /\ stmts'[Len(stmts) + 1] = record
          /\ \A n \in 1..Len(stmts) : stmts'[n] = stmts[n] /\ stmts[n] \in R
      BY <2>4, <3>2
    <3> QED
      BY <3>1, <3>3, <3>4
  <2>8. /\ code' \in Seq(Nat) /\ Len(code') = Len(code) + Len(bytes)
        /\ Len(code) \in Nat /\ Len(bytes) \in Nat
        /\ HoldsAt(code', Len(code), bytes)
        /\ \A at \in Nat, part \in Seq(Nat) :
             at + Len(part) <= Len(code) /\ HoldsAt(code, at, part) => HoldsAt(code', at, part)
    BY <1>1, <2>2, <2>4, AppendedBytes
  <2>9. ASSUME NEW n \in 1..(Len(stmts) + 1)
        PROVE  Address(n)' = Address(n) /\ Address(n) \in Nat
    <3>1. CASE n = 1
      BY <3>1 DEF Address
    <3>2. CASE n # 1
      <4>1. n - 1 \in 1..Len(stmts)
        BY <2>7, <3>2
      <4>2. stmts'[n - 1] = stmts[n - 1] /\ stmts[n - 1].next \in Nat
        BY <2>7, <4>1
      <4> QED
        BY <3>2, <4>2 DEF Address
    <3> QED
      BY <3>1, <3>2
  <2>10. ASSUME NEW n \in 1..Len(stmts)
         PROVE  \E l \in Lines : Placed(n, l)'
    <3>1. PICK l \in Lines : Placed(n, l)
      BY <1>1, <2>7
    <3>2. /\ grammar_line(l).kind = "STMT_INSTRUCTION"
          /\ stmts[n] = [mnemonic |-> l[1].text, operands |-> MeantOperands(l),
                         next |-> Address(n) + Len(LineBytes(l))]
          /\ stmts[n].next <= Len(code) /\ HoldsAt(code, Address(n), LineBytes(l))
      BY <3>1 DEF Placed
    <3>3. n \in 1..(Len(stmts) + 1) /\ stmts'[n] = stmts[n]
      BY <2>7
    <3>4. Address(n)' = Address(n) /\ Address(n) \in Nat
      BY <2>9, <3>3
    <3>5. LineBytes(l) \in Seq(Nat) /\ stmts[n].next = Address(n) + Len(LineBytes(l))
      BY <3>2, BytesOfLine
    <3>6. HoldsAt(code', Address(n), LineBytes(l))
      BY <2>8, <3>2, <3>4, <3>5
    <3>7. stmts'[n].next <= Len(code')
      <4>1. stmts[n].next \in Nat
        BY <2>7
      <4> QED
        BY <2>8, <3>2, <3>3, <4>1
    <3>8. stmts'[n] = [mnemonic |-> l[1].text, operands |-> MeantOperands(l),
                       next |-> Address(n)' + Len(LineBytes(l))]
      BY <3>2, <3>3, <3>4, Zenon
    <3>9. HoldsAt(code', Address(n)', LineBytes(l))
      BY <3>4, <3>6, Zenon
    <3>10. Placed(n, l)'
      BY <3>2, <3>7, <3>8, <3>9, Zenon DEF Placed
    <3> QED
      BY <3>10
  <2>11. PICK last : last = Len(stmts) + 1
    OBVIOUS
  <2>12. Placed(last, line)'
    <3>1. last \in 1..(Len(stmts) + 1) /\ stmts'[last] = record /\ Address(last) = Len(code)
      BY <1>1, <2>7, <2>11
    <3>2. Address(last)' = Len(code)
      BY <2>9, <3>1
    <3>3. stmts'[last] = [mnemonic |-> line[1].text, operands |-> MeantOperands(line),
                          next |-> Address(last)' + Len(bytes)]
      BY <3>1, <3>2, Zenon DEF record
    <3>4. stmts'[last].next <= Len(code')
      BY <2>6, <2>8, <3>1
    <3>5. HoldsAt(code', Address(last)', bytes)
      BY <2>8, <3>2, Zenon
    <3> QED
      BY <2>1, <3>3, <3>4, <3>5, Zenon DEF Placed, bytes
  <2>13. Address(Len(stmts) + 1)' = Len(code')
    <3>1. Len(stmts') + 1 # 1 /\ (Len(stmts') + 1) - 1 = Len(stmts) + 1
      BY <2>7
    <3>2. Address(Len(stmts) + 1)' = stmts'[Len(stmts) + 1].next
      BY <3>1 DEF Address
    <3> QED
      BY <2>6, <2>7, <2>8, <3>2
  <2>14. \A n \in DOMAIN stmts' : \E l \in Lines : Placed(n, l)'
    <3>1. \A n \in DOMAIN stmts' : n \in 1..Len(stmts) \/ n = last
      BY <2>7, <2>11
    <3> QED
      BY <2>10, <2>12, <3>1, Zenon
  <2>15. current' \in Lines /\ statement' = grammar_line(current')
    BY <1>3
  <2> QED
    BY <2>7, <2>8, <2>13, <2>14, <2>15 DEF StreamInv
<1>4. ASSUME NEW line \in Lines, current' = line, statement' = grammar_line(line), Stop
      PROVE  StreamInv'
  <2>1. stmts' = stmts /\ code' = code
    BY <1>4 DEF Stop
  <2>2. \A n : Address(n)' = Address(n)
    BY <2>1 DEF Address
  <2>3. \A n, l : Placed(n, l) => Placed(n, l)'
    BY <2>1, <2>2 DEF Placed
  <2> QED
    BY <1>1, <1>4, <2>1, <2>2, <2>3 DEF StreamInv
<1>5. ASSUME NEW parsed \in ParsedLines, Read(parsed)
      PROVE  StreamInv'
  <2>1. PICK line \in Lines : parsed = [line |-> line, statement |-> grammar_line(line)]
    BY <1>5 DEF ParsedLines
  <2>2. parsed.line = line /\ parsed.statement = grammar_line(line)
    BY <2>1
  <2> QED
    BY <1>3, <1>4, <1>5, <2>2 DEF Read
<1>6. CASE Next
  <2>1. \E parsed \in ParsedLines : Read(parsed)
    BY <1>6 DEF Next, Instructions
  <2> QED
    BY <1>5, <2>1
<1> QED
  BY <1>2, <1>6

\* The parser's result is that of the line read last, and the code segment is the
\* bytes of the instructions, each where the one before it ends.
THEOREM StreamInvariant == Spec => []StreamInv
<1>1. Init => StreamInv
  <2> SUFFICES ASSUME Init
               PROVE  StreamInv
    OBVIOUS
  <2>1. current = << >> /\ stmts = << >> /\ code = << >>
    BY DEF Init
  <2>2. Len(stmts) = 0 /\ Len(code) = 0 /\ DOMAIN stmts = {}
    BY <2>1
  <2>3. Address(Len(stmts) + 1) = 0
    BY <2>2 DEF Address
  <2>4. code \in Seq(Nat) /\ stmts \in Seq([mnemonic : STRING, operands : Seq(Int), next : Nat])
    BY <2>1
  <2> QED
    BY <2>1, <2>2, <2>3, <2>4 DEF StreamInv
<1>2. StreamInv /\ [Next]_vars => StreamInv'
  BY StreamStep
<1> QED
  BY <1>1, <1>2, PTL DEF Spec

\* The parser accepts a line, of any length, exactly when the grammar has it, its
\* numbers fit into 32 bits and the table has its instruction.
THEOREM GrammarAccepted == Spec => []AcceptsTheGrammar
<1>1. StreamInv => AcceptsTheGrammar
  BY ParserAccepts DEF StreamInv, AcceptsTheGrammar
<1> QED
  BY <1>1, StreamInvariant, PTL

\* The processor reads back, from the bytes of a stream of any length, the
\* instructions of its lines, with any 32-bit number as an operand.
THEOREM StreamReadsBack == Spec => []ReadsBack
<1>1. ASSUME StreamInv, NEW n \in DOMAIN stmts
      PROVE  Fetch(code, Address(n)) = stmts[n]
  <2>1. PICK line \in Lines : Placed(n, line)
    BY <1>1 DEF StreamInv
  <2>2. PICK desc, ops : desc = grammar_line(line).desc /\ ops = grammar_line(line).ops
    OBVIOUS
  <2>3. PICK values : values = Values(ops)
    OBVIOUS
  <2>4. PICK at : at = Address(n)
    OBVIOUS
  <2>5. /\ grammar_line(line).kind = "STMT_INSTRUCTION"
        /\ stmts[n] = [mnemonic |-> line[1].text, operands |-> MeantOperands(line),
                       next |-> at + Len(LineBytes(line))]
        /\ HoldsAt(code, at, Encode(desc, ops, values))
    BY <2>1, <2>2, <2>3, <2>4 DEF Placed, LineBytes
  <2>6. Len(LineBytes(line)) = instruction_get_encoded_size(desc)
    BY <2>2, <2>5, BytesOfLine
  <2>7. /\ desc \in Descriptors /\ desc.mnemonic = line[1].text
        /\ TypesAgree(desc, ops)
        /\ values \in [DOMAIN ops -> Int] /\ values = MeantOperands(line)
        /\ \A i \in DOMAIN ops :
             /\ ops[i].type = "OP_REG" => values[i] \in Nat
             /\ ops[i].type = "OP_IMM32" => values[i] \in Int32Min..Int32Max
    BY <2>2, <2>3, <2>5, AcceptedInstruction
  <2>8. at \in Nat
    <3>1. CASE n = 1
      BY <2>4, <3>1 DEF Address
    <3>2. CASE n # 1
      <4>1. PICK R : R = [mnemonic : STRING, operands : Seq(Int), next : Nat]
        OBVIOUS
      <4>2. stmts \in Seq(R)
        BY <1>1, <4>1 DEF StreamInv
      <4>3. n - 1 \in DOMAIN stmts
        BY <1>1, <3>2, <4>2
      <4>4. stmts[n - 1] \in R
        BY <4>2, <4>3
      <4>5. stmts[n - 1].next \in Nat
        BY <4>1, <4>4
      <4> QED
        BY <2>4, <3>2, <4>5 DEF Address
    <3> QED
      BY <3>1, <3>2
  <2>9. PICK got : got = Fetch(code, at)
    OBVIOUS
  <2>10. /\ got.mnemonic = desc.mnemonic
         /\ got.next = at + instruction_get_encoded_size(desc)
         /\ got.operands \in Seq(Int) /\ DOMAIN got.operands = DOMAIN ops
         /\ \A i \in DOMAIN ops : ReadAs(ops[i], values[i], got.operands[i])
    BY <2>5, <2>7, <2>8, <2>9, FetchReads
  <2>11. \A i \in DOMAIN ops : got.operands[i] = values[i]
    <3>1. \A i \in DOMAIN ops : ops[i].type \in {"OP_REG", "OP_IMM32"}
      BY <2>7 DEF TypesAgree
    <3> QED
      BY <2>7, <2>10, <3>1 DEF ReadAs
  <2>12. got.operands = values
    BY <2>7, <2>10, <2>11
  <2>13. got = [mnemonic |-> got.mnemonic, operands |-> got.operands, next |-> got.next]
    BY <2>9 DEF Fetch
  <2> QED
    BY <2>4, <2>5, <2>6, <2>7, <2>9, <2>10, <2>12, <2>13, Zenon
<1>2. StreamInv => ReadsBack
  BY <1>1 DEF ReadsBack, Address
<1> QED
  BY <1>2, StreamInvariant, PTL

=============================================================================
