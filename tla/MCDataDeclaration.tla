-------------------------- MODULE MCDataDeclaration --------------------------
(***************************************************************************)
(* Declarations for TLC: every list of at most MaxParts parts, of each     *)
(* form, around each limit, and broken off or mixed up in every place.     *)
(***************************************************************************)
EXTENDS DeclarationMeaning

CONSTANT MaxParts   \* bound on the parts between commas

Type(type) == <<[type |-> "TOKEN_DATA_TYPE", value |-> type]>>
Num(n)     == <<[type |-> "TOKEN_NUMBER", value |-> n]>>
Text(s)    == <<[type |-> "TOKEN_STRING", value |-> s]>>
Sign(type) == <<[type |-> type, value |-> 0]>>

Q    == Sign("TOKEN_QUESTION")
Word == Sign("TOKEN_IDENTIFIER")

Dup(count, part) ==
  Num(count) \o Sign("TOKEN_DUP") \o Sign("TOKEN_LPAREN") \o part \o Sign("TOKEN_RPAREN")

\* (SizeMax + 1) \div 4 elements of a DWORD are as many bytes as a size_t has values.
GoodParts ==
  {Num(1), Num(Int32Min), Num(ByteBase), Q, Text(<<1, 3>>), Dup(0, Q),
   Dup(2, Num(-2)), Dup(-SizeMax, Q), Dup((SizeMax + 1) \div 4, Num(1)), Dup(SizeMax, Num(1))}

BadParts ==
  {<< >>, Word, Num(Int32Max + 1), Num(1) \o Num(1), Dup(SizeMax + 1, Q),
   Dup(2, Num(Int32Min - 1)), Dup(2, Text(<<1>>))}
  \cup {SubSeq(Dup(2, Q), 1, n) : n \in 2..4}

Joined(parts) ==
  FlattenSeq([k \in DOMAIN parts |->
                IF k = 1 THEN parts[k] ELSE Sign("TOKEN_COMMA") \o parts[k]])

SomeDeclarations ==
  {head \o Joined(parts) \o Sign("TOKEN_EOF") :
     head \in {Type("DW"), Type("DB")},
     parts \in UNION {[1..n -> GoodParts \cup BadParts] : n \in 1..MaxParts}}
  \cup {Word \o Q \o Sign("TOKEN_EOF"), Sign("TOKEN_EOF")}

NoFaults == {}
NoMemory == {"memory"}
=============================================================================
