------------------------- MODULE DeclarationMeaning -------------------------
(***************************************************************************)
(* What a declaration means, read off the whole line at once: its parts    *)
(* are what lies between the commas, each is of one of four forms, and     *)
(* each stands for bytes of its own. No descent, no counting, no filling.  *)
(***************************************************************************)
EXTENDS DataDeclaration, SequencesExt

Separators == {"TOKEN_COMMA", "TOKEN_EOF"}

\* The places where a part begins: after the data type and after every comma.
Firsts == {n \in 2..Len(tokens) : n = 2 \/ tokens[n - 1].type = "TOKEN_COMMA"}

\* The comma, or the end of the line, that is next.
EndOf(n) == Min({m \in n..Len(tokens) : tokens[m].type \in Separators})

Part(n) == SubSeq(tokens, n, EndOf(n) - 1)

HasForm(part, types) == [k \in DOMAIN part |-> part[k].type] = types

DupOf(type) == <<"TOKEN_NUMBER", "TOKEN_DUP", "TOKEN_LPAREN", type, "TOKEN_RPAREN">>

IsDup(part) ==
  (HasForm(part, DupOf("TOKEN_NUMBER")) \/ HasForm(part, DupOf("TOKEN_QUESTION")))
    /\ ParsesSize(part[1].value)

\* A value that is to be stored is a 32-bit number, for DB as well.
Storable(token) == token.type = "TOKEN_NUMBER" => ParsesInt32(token.value)

IsPart(part) ==
  \/ HasForm(part, <<"TOKEN_NUMBER">>) /\ Storable(part[1])
  \/ HasForm(part, <<"TOKEN_QUESTION">>)
  \/ HasForm(part, <<"TOKEN_STRING">>) /\ tokens[1].value = "DB"
  \/ IsDup(part) /\ Storable(part[4])

IsDeclaration ==
  tokens[1].type = "TOKEN_DATA_TYPE" /\ \A n \in Firsts : IsPart(Part(n))

\* What the bytes of an element count, the least significant first.
PlaceValues == <<1, ByteBase, ByteBase * ByteBase, ByteBase * ByteBase * ByteBase>>

\* One element: the value modulo 2^32 or 2^8.
ElementBytes(token) ==
  LET v == IF token.type = "TOKEN_NUMBER" THEN token.value ELSE 0
      width == IF tokens[1].value = "DW" THEN 4 ELSE 1
  IN  [b \in 1..width |-> (v \div PlaceValues[b]) % ByteBase]

PartBytes(part) ==
  CASE HasForm(part, <<"TOKEN_STRING">>) -> part[1].value
    [] Len(part) = 5 -> FlattenSeq([n \in 1..Size(part[1].value) |-> ElementBytes(part[4])])
    [] OTHER -> ElementBytes(part[1])

\* What begins at each token of the line: most often nothing.
BytesAt == [n \in 1..Len(tokens) |-> IF n \in Firsts THEN PartBytes(Part(n)) ELSE << >>]

Meaning == FlattenSeq(BytesAt)

-----------------------------------------------------------------------------
(* Properties.                                                             *)

\* A declaration gives the bytes it means, in the order of its parts although
\* they are filled from the last to the first; what is not a declaration is
\* refused, however much of it the descent has already accepted.
WritesItsMeaning ==
  pc = "done" =>
    /\ result = "accepted" => IsDeclaration /\ data = Meaning
    /\ result = "cannot append" =>
         IsDeclaration /\ (AllocationFails \/ Len(Meaning) > SizeMax)
    /\ result = "refused" /\ ~AllocationFails => ~IsDeclaration

\* Pass 1 reserves what pass 2 appends: total_size is the number of bytes the
\* declaration means, as far as a size_t holds it; and only a declaration of
\* nothing but ? is one that needs no initial value.
SummaryIsRight ==
  pc = "append" =>
    /\ pstmt.total_size = Len(Meaning) % (SizeMax + 1)
    /\ pstmt.is_fully_uninit <=>
         \A n \in Firsts : \E k \in DOMAIN Part(n) : Part(n)[k].type = "TOKEN_QUESTION"

-----------------------------------------------------------------------------
(* The inductive invariant behind the two of them.                         *)

\* Where part k begins, going from separator to separator; the end of the last
\* part is the end of the line, and behind it no part begins.
PartStart[k \in 1..(Len(tokens) + 1)] ==
  IF k = 1 THEN 2
  ELSE IF PartStart[k - 1] > Len(tokens) THEN PartStart[k - 1]
  ELSE EndOf(PartStart[k - 1]) + 1

\* The call that reads the part at token n, and what it has read when the part
\* is one of the forms. Matched, it is a part when a separator follows.
CallAt(n) == [kind |-> PartAt(n), at |-> n]

ReadUpTo(n, end) ==
  \/ /\ PartAt(n) \in {"INIT_SEG_VALUE", "INIT_SEG_UNINIT", "INIT_SEG_STRING"}
     /\ end = n + 1
  \/ /\ PartAt(n) = "INIT_SEG_DUP"
     /\ TypeAt(n + 2) = "TOKEN_LPAREN" /\ TypeAt(n + 4) = "TOKEN_RPAREN"
     /\ TypeAt(n + 3) \in {"TOKEN_NUMBER", "TOKEN_QUESTION"}
     /\ end = n + 5

Formed(n) ==
  n \in 2..Len(tokens) /\ \E end \in {n + 1, n + 5} :
                             ReadUpTo(n, end) /\ TypeAt(end) \in Separators

\* The calls and the place in the line, on the way down: part k is that of call k.
OnTheWayDown ==
  /\ pc = "create" => Len(calls) = 0
  /\ pc \in Descending => tokens[1].type = "TOKEN_DATA_TYPE"
  /\ pc \in Descending \cup {"fill"} =>
       \A k \in 1..Len(calls) : calls[k] = CallAt(PartStart[k])
  /\ pc = "dec" => /\ Len(calls) + 1 \in DOMAIN PartStart
                   /\ pos = PartStart[Len(calls) + 1]
                   /\ \A k \in 1..Len(calls) : Formed(PartStart[k])
  /\ pc = "dup" => /\ Len(calls) \in DOMAIN PartStart
                   /\ pos = PartStart[Len(calls)] /\ PartAt(pos) = "INIT_SEG_DUP"
                   /\ \A k \in 1..(Len(calls) - 1) : Formed(PartStart[k])
  /\ pc = "dec2" => /\ Len(calls) \in DOMAIN PartStart
                    /\ PartStart[Len(calls)] \in 2..Len(tokens)
                    /\ ReadUpTo(PartStart[Len(calls)], pos)
                    /\ \A k \in 1..(Len(calls) - 1) : Formed(PartStart[k])

\* A line whose descent or filling fails is no declaration, or an allocation failed.
FailsForItsText ==
  pc \in {"refuse", "fail"} => AllocationFails \/ ~IsDeclaration

\* The parts allocated are all parts of the line.
AllCounted ==
  pc \in {"fill", "append"} =>
    /\ tokens[1].type = "TOKEN_DATA_TYPE"
    /\ pstmt.segment_count + 1 \in DOMAIN PartStart
    /\ PartStart[pstmt.segment_count + 1] = Len(tokens) + 1
    /\ \A k \in 1..pstmt.segment_count : Formed(PartStart[k])

\* The parts whose calls have returned; those still to be filled are the first ones.
FilledParts ==
  IF pc = "fill" THEN (Len(calls) + 1)..pstmt.segment_count ELSE 1..pstmt.segment_count

AllFilled ==
  pc \in {"fill", "append"} =>
    /\ \A k \in FilledParts :
         /\ PartParses(CallAt(PartStart[k]))
         /\ pstmt.segments[k] = FilledSegment(CallAt(PartStart[k]))
    /\ pstmt.is_fully_uninit \in BOOLEAN
    /\ pstmt.is_fully_uninit <=> \A k \in FilledParts : pstmt.segments[k].is_uninit

\* What the tokens up to the one at n stand for.
MeaningUpTo[n \in 1..Len(BytesAt)] ==
  IF n = 1 THEN BytesAt[n] ELSE MeaningUpTo[n - 1] \o BytesAt[n]

Appending ==
  /\ pc \in {"create", "refuse", "fail", "fill"} \cup Descending =>
       i = 1 /\ data = << >> /\ dtsg.size = 0
  /\ pc = "append" =>
       /\ pstmt.total_size = Len(Meaning) % (SizeMax + 1)
       /\ i \in 1..(pstmt.segment_count + 1)
       /\ data = MeaningUpTo[PartStart[i] - 1] /\ dtsg.size = Len(data)

\* The outcome is known before the statement is freed.
Outcome ==
  pc \in {"free", "done"} =>
    /\ result = "accepted" => IsDeclaration /\ data = Meaning
    /\ result = "cannot append" =>
         IsDeclaration /\ (AllocationFails \/ Len(Meaning) > SizeMax)
    /\ result = "refused" /\ ~AllocationFails => ~IsDeclaration

MInv ==
  OnTheWayDown /\ FailsForItsText /\ AllCounted /\ AllFilled /\ Appending /\ Outcome
=============================================================================
