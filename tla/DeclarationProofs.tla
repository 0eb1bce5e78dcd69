-------------------------- MODULE DeclarationProofs --------------------------
(***************************************************************************)
(* Proofs about a line of the data section, for every set of lines and     *)
(* every choice of failing allocations: its blocks are freed once each,    *)
(* the parser stays on the line and the filling stays in the parts.        *)
(***************************************************************************)
EXTENDS DeclarationMeaning, SequenceTheorems, CommonLemmas, TLAPS

-----------------------------------------------------------------------------
(* The line.                                                               *)

\* A line is an array of tokens, ended by TOKEN_EOF and by nothing else: what
\* has a type is on the line, and after what has another type the line goes on.
LEMMA OnTheLine ==
  ASSUME tokens \in Declarations
  PROVE  /\ Len(tokens) \in Nat \ {0}
         /\ DOMAIN tokens = 1..Len(tokens)
         /\ \A n \in Int : TypeAt(n) # "NULL" => n \in 1..Len(tokens)
         /\ \A n \in Int : TypeAt(n) \notin {"NULL", "TOKEN_EOF"} => n + 1 \in 1..Len(tokens)
<1>1. /\ Len(tokens) \in Nat \ {0} /\ DOMAIN tokens = 1..Len(tokens)
      /\ \A n \in DOMAIN tokens : tokens[n].type = "TOKEN_EOF" <=> n = Len(tokens)
  BY DeclarationAssumption
<1>2. \A n \in Int : TypeAt(n) # "NULL" => n \in 1..Len(tokens)
  BY <1>1 DEF TypeAt
<1>3. ASSUME NEW n \in Int, TypeAt(n) \notin {"NULL", "TOKEN_EOF"}
      PROVE  n + 1 \in 1..Len(tokens)
  <2>1. n \in 1..Len(tokens) /\ tokens[n].type # "TOKEN_EOF"
    BY <1>1, <1>2, <1>3 DEF TypeAt
  <2>2. n # Len(tokens)
    BY <1>1, <2>1
  <2>3. Len(tokens) \in Nat /\ n \in 1..Len(tokens)
    BY <1>1, <2>1
  <2> QED
    BY <2>2, <2>3
<1> QED
  BY <1>1, <1>2, <1>3

\* The kind _grammar_identifier_dec finds tells what stands at its token.
LEMMA KindTells ==
  ASSUME NEW n \in Int
  PROVE  /\ PartAt(n) \in SegmentKinds
         /\ PartAt(n) = "INIT_SEG_DUP" =>
              TypeAt(n) = "TOKEN_NUMBER" /\ TypeAt(n + 1) = "TOKEN_DUP"
         /\ PartAt(n) # "INIT_SEG_NONE" =>
              TypeAt(n) \in {"TOKEN_NUMBER", "TOKEN_QUESTION", "TOKEN_STRING"}
BY DEF PartAt, SegmentKinds

\* A step that leaves the line alone leaves the types at its places alone.
LEMMA SameLine ==
  ASSUME tokens' = tokens, NEW n
  PROVE  TypeAt(n)' = TypeAt(n)
BY DEF TypeAt

-----------------------------------------------------------------------------
(* The invariant of blocks and places, action by action.                   *)

\* calloc leaves a statement without parts, and no call has been made.
LEMMA DeclarationStarts == Init => DInv
<1> SUFFICES ASSUME Init PROVE DInv
  OBVIOUS
<1>1. calls \in Seq([kind : SegmentKinds, at : Nat]) /\ Len(calls) = 0
  BY DEF Init
<1>2. Len(tokens) \in Nat \ {0}
  BY OnTheLine DEF Init
<1>3. Kinds
  BY <1>1 DEF Kinds, Init, FreshStatement, Descending
<1>4. Blocks
  BY DEF Blocks, Init, FreshStatement, Descending
<1>5. Places
  BY <1>2 DEF Places, Init
<1>6. Counted
  BY <1>1 DEF Counted, Init, FreshStatement, Descending
<1> QED
  BY <1>3, <1>4, <1>5, <1>6 DEF DInv

\* parse_tokens and grammar_identifier_def, up to the first part.
LEMMA CreateKeeps ==
  ASSUME DInv, p_stmt_create
  PROVE  DInv'
<1>1. tokens \in Declarations /\ tokens' = tokens
  BY DEF DInv, Kinds, Descending, p_stmt_create, GoTo
<1>2. tokens[1].type = "TOKEN_DATA_TYPE" => 2 \in 1..Len(tokens)
  <2>1. 1 \in DOMAIN tokens
    BY <1>1, OnTheLine
  <2> QED
    BY <1>1, <2>1, OnTheLine DEF TypeAt
<1>3. Kinds'
  BY DEF DInv, Kinds, Descending, p_stmt_create, GoTo
<1>4. Blocks'
  BY DEF DInv, Kinds, Blocks, Descending, p_stmt_create, GoTo
<1>5. Places'
  BY <1>1, <1>2 DEF DInv, Places, p_stmt_create, GoTo
<1>6. Counted'
  <2>1. pc = "create" /\ pstmt' = pstmt /\ calls' = calls /\ pc' \in {"dec", "refuse", "done"}
    BY DEF p_stmt_create, GoTo
  <2>2. pstmt.segment_count = Len(calls)
    BY <2>1 DEF DInv, Counted
  <2>3. \A k \in 1..Len(calls) : Matched(calls[k])
    BY <2>1 DEF DInv, Counted
  <2> QED
    BY <1>1, <2>1, <2>2, <2>3 DEF Counted, Descending, Matched
<1> QED
  BY <1>3, <1>4, <1>5, <1>6 DEF DInv

\* _grammar_identifier_dec: one part and one call more. The call of a DUP is
\* not matched yet, which is why its place is all that is known of it.
LEMMA DecKeeps ==
  ASSUME DInv, identifier_dec
  PROVE  DInv'
<1>1. /\ tokens \in Declarations /\ tokens' = tokens /\ pos \in Nat /\ read \in Nat
      /\ calls \in Seq([kind : SegmentKinds, at : Nat])
  BY DEF DInv, Kinds, identifier_dec, GoTo
<1>2. /\ pos \in 1..Len(tokens) /\ pstmt.segment_count = Len(calls)
      /\ \A k \in 1..Len(calls) : Matched(calls[k])
  BY DEF DInv, Places, Counted, Descending, identifier_dec
<1>3. PICK kind \in SegmentKinds : kind = PartAt(pos)
  BY <1>1, KindTells
<1>4. calls' = Append(calls, [kind |-> kind, at |-> pos])
  BY <1>3 DEF identifier_dec
<1>5. /\ calls' \in Seq([kind : SegmentKinds, at : Nat]) /\ Len(calls') = Len(calls) + 1
      /\ \A k \in 1..Len(calls) : calls'[k] = calls[k]
      /\ calls'[Len(calls) + 1] = [kind |-> kind, at |-> pos]
  BY <1>1, <1>3, <1>4
<1>6. Kinds'
  <2>1. pstmt'.segment_count \in Nat /\ DOMAIN pstmt' = DOMAIN pstmt
    BY DEF DInv, Kinds, identifier_dec, FreshStatement
  <2>2. pos' \in Nat /\ read' \in Nat
    BY <1>1 DEF identifier_dec, GoTo, DecReads
  <2> QED
    BY <1>1, <1>5, <2>1, <2>2 DEF DInv, Kinds, Descending, identifier_dec, GoTo
<1>7. Blocks'
  <2>1. /\ pc = "dec" /\ pc' \in {"fail", "dup", "dec2"} /\ heap' = heap
        /\ pstmt'.allocated = pstmt.allocated /\ pstmt'.type = pstmt.type
    BY DEF DInv, Kinds, identifier_dec, GoTo, FreshStatement
  <2>2. heap.pstmt = "live" /\ heap.segments = "none" /\ ~pstmt.allocated
        /\ pstmt.type = "STMT_NONE"
    BY <2>1 DEF DInv, Blocks, Descending
  <2> QED
    BY <2>1, <2>2 DEF Blocks
<1>8. Places'
  <2>1. Len(tokens) \in Nat \ {0}
    BY <1>1, OnTheLine
  <2>2. TypeAt(pos) = "TOKEN_NUMBER" => pos + 1 \in 1..Len(tokens)
    BY <1>1, OnTheLine
  <2>3. read' <= Len(tokens) + 1
    BY <1>1, <1>2, <2>1, <2>2 DEF DInv, Places, identifier_dec, DecReads
  <2>4. ASSUME pc' = "dup"
        PROVE  TypeAt(pos)' = "TOKEN_NUMBER" /\ TypeAt(pos + 1)' = "TOKEN_DUP"
    <3>1. kind = "INIT_SEG_DUP" /\ pos' = pos
      BY <2>4, <1>3 DEF identifier_dec, GoTo
    <3>2. PartAt(pos) = "INIT_SEG_DUP" /\ pos \in Int
      BY <1>1, <1>3, <3>1
    <3>3. TypeAt(pos) = "TOKEN_NUMBER" /\ TypeAt(pos + 1) = "TOKEN_DUP"
      BY <3>2, KindTells
    <3> QED
      BY <1>1, <3>1, <3>3 DEF TypeAt
  <2>5. ASSUME pc' = "dec2" PROVE pos' \in 1..Len(tokens)
    <3>1. kind # "INIT_SEG_NONE" /\ pos' = pos + 1
      BY <2>5, <1>3 DEF identifier_dec, GoTo
    <3>2. TypeAt(pos) \notin {"NULL", "TOKEN_EOF"}
      BY <1>1, <1>3, <3>1, KindTells
    <3> QED
      BY <1>1, <3>1, <3>2, OnTheLine
  <2>6. pc' # "dec"
    BY DEF identifier_dec, GoTo
  <2> QED
    BY <1>1, <2>3, <2>4, <2>5, <2>6 DEF Places
<1>9. Counted'
  <2> DEFINE OnLine(c) == /\ c.at \in 1..Len(tokens)
                          /\ c.kind = "INIT_SEG_DUP" => c.at + 4 \in 1..Len(tokens)
  <2>1. pstmt'.segment_count = Len(calls')
    BY <1>2, <1>5 DEF DInv, Kinds, identifier_dec, FreshStatement
  <2>2. Len(calls) \in Nat /\ Len(calls') - 1 = Len(calls)
    BY <1>1, <1>5
  <2>3. \A k \in 1..Len(calls) : OnLine(calls'[k])
    BY <1>2, <1>5 DEF Matched
  <2>4. CASE pc' = "fail"
    BY <2>1, <2>2, <2>4 DEF Counted, Descending
  <2>5. CASE pc' = "dup"
    <3>1. calls'[Len(calls')].at = pos'
      BY <1>3, <1>5, <2>2, <2>5 DEF identifier_dec, GoTo
    <3>2. \A k \in 1..(Len(calls') - 1) : OnLine(calls'[k])
      BY <2>2, <2>3
    <3>3. Len(calls') > 0
      BY <2>2
    <3> QED
      BY <1>1, <2>1, <2>5, <3>1, <3>2, <3>3 DEF Counted, Descending, Matched
  <2>6. CASE pc' = "dec2"
    <3>1. kind # "INIT_SEG_DUP"
      BY <1>3, <2>6 DEF identifier_dec, GoTo
    <3>2. OnLine(calls'[Len(calls')])
      BY <1>2, <1>5, <2>2, <3>1
    <3>3. \A k \in 1..Len(calls') : OnLine(calls'[k])
      <4> HIDE DEF OnLine
      <4> QED
        BY <2>2, <2>3, <3>2
    <3> QED
      BY <1>1, <2>1, <2>6, <3>3 DEF Counted, Descending, Matched
  <2> QED
    BY <2>4, <2>5, <2>6 DEF identifier_dec, GoTo
<1> QED
  BY <1>6, <1>7, <1>8, <1>9 DEF DInv

\* _grammar_identifier_dup: && stops before the array does, and a DUP that
\* matches has all of its five tokens on the line.
LEMMA DupKeeps ==
  ASSUME DInv, identifier_dup
  PROVE  DInv'
<1>1. /\ tokens \in Declarations /\ tokens' = tokens /\ pos \in Nat /\ read \in Nat
      /\ calls \in Seq([kind : SegmentKinds, at : Nat])
      /\ calls' = calls /\ pstmt' = pstmt /\ heap' = heap
  BY DEF DInv, Kinds, identifier_dup, GoTo, OnlyPosition
<1>2. pc = "dup" /\ pc' \in {"dec2", "fail"}
  BY DEF identifier_dup, GoTo
<1>3. Len(tokens) \in Nat \ {0} /\ pos + 2 \in 1..Len(tokens)
  <2>1. TypeAt(pos + 1) = "TOKEN_DUP"
    BY <1>2 DEF DInv, Places
  <2> QED
    BY <1>1, <2>1, OnTheLine
<1>4. DupReads \in Nat /\ DupReads <= Len(tokens) + 1
  <2>1. CASE TypeAt(pos + 2) = "TOKEN_LPAREN"
    <3>1. pos + 3 \in 1..Len(tokens)
      BY <1>1, <2>1, OnTheLine
    <3> QED
      BY <1>1, <1>3, <2>1, <3>1 DEF DupReads
  <2>2. CASE TypeAt(pos + 2) # "TOKEN_LPAREN"
    BY <1>1, <1>3, <2>2 DEF DupReads
  <2> QED
    BY <2>1, <2>2
<1>5. ASSUME pc' = "dec2"
      PROVE  pos' = pos + 5 /\ pos + 4 \in 1..Len(tokens) /\ pos + 5 \in 1..Len(tokens)
  <2>1. pos' = pos + 5 /\ TypeAt(pos + 4) = "TOKEN_RPAREN"
    BY <1>2, <1>5 DEF identifier_dup, GoTo, DupMatches
  <2> QED
    BY <1>1, <2>1, OnTheLine
<1>6. Kinds'
  <2>1. pos' \in Nat /\ read' \in Nat
    BY <1>1, <1>4 DEF identifier_dup, GoTo
  <2> QED
    BY <1>1, <1>2, <2>1 DEF DInv, Kinds, Descending
<1>7. Blocks'
  BY <1>1, <1>2 DEF DInv, Blocks, Descending
<1>8. Places'
  <2>1. read' <= Len(tokens) + 1
    BY <1>4 DEF DInv, Places, identifier_dup
  <2> QED
    BY <1>1, <1>2, <1>5, <2>1 DEF Places
<1>9. Counted'
  <2>1. /\ pstmt.segment_count = Len(calls) /\ Len(calls) \in Nat \ {0}
        /\ calls[Len(calls)].at = pos
        /\ \A k \in 1..(Len(calls) - 1) : Matched(calls[k])
    BY <1>1, <1>2 DEF DInv, Counted, Descending
  <2>2. ASSUME pc' = "dec2" PROVE \A k \in 1..Len(calls) : Matched(calls[k])
    <3>1. pos \in 1..Len(tokens)
      BY <1>1, <1>2, OnTheLine DEF DInv, Places
    <3>2. Matched(calls[Len(calls)])
      BY <1>5, <2>1, <2>2, <3>1 DEF Matched
    <3> QED
      BY <2>1, <3>2
  <2> QED
    BY <1>1, <1>2, <2>1, <2>2 DEF Counted, Descending, Matched
<1> QED
  BY <1>6, <1>7, <1>8, <1>9 DEF DInv

\* _grammar_identifier_dec2: on to the next part, or the parts are allocated.
LEMMA Dec2Keeps ==
  ASSUME DInv, identifier_dec2
  PROVE  DInv'
<1>1. /\ tokens \in Declarations /\ tokens' = tokens /\ pos \in Nat /\ read \in Nat
      /\ calls \in Seq([kind : SegmentKinds, at : Nat]) /\ calls' = calls
      /\ DOMAIN pstmt = DOMAIN FreshStatement /\ pstmt.segment_count \in Nat
      /\ DOMAIN heap = {"pstmt", "segments"}
  BY DEF DInv, Kinds, identifier_dec2, GoTo
<1>2. /\ pc = "dec2" /\ pos \in 1..Len(tokens)
      /\ heap.pstmt = "live" /\ heap.segments = "none"
      /\ ~pstmt.allocated /\ pstmt.type = "STMT_NONE"
      /\ pstmt.segment_count = Len(calls)
      /\ \A k \in 1..Len(calls) : Matched(calls[k])
  BY DEF DInv, Blocks, Places, Counted, Descending, identifier_dec2
<1>3. Len(tokens) \in Nat \ {0} /\ Len(calls) \in Nat
  BY <1>1, OnTheLine
<1>4. read' \in Nat /\ read' <= Len(tokens) + 1
  BY <1>1, <1>2, <1>3 DEF DInv, Places, identifier_dec2
<1>5. CASE TypeAt(pos) = "TOKEN_COMMA"
  <2>1. pc' = "dec" /\ pos' = pos + 1 /\ pstmt' = pstmt /\ heap' = heap
    BY <1>5 DEF identifier_dec2, GoTo
  <2>2. pos + 1 \in 1..Len(tokens)
    BY <1>1, <1>5, OnTheLine
  <2>3. Kinds'
    BY <1>1, <1>4, <2>1 DEF DInv, Kinds, Descending
  <2>4. Blocks'
    BY <1>2, <2>1 DEF Blocks, Descending
  <2>5. Places'
    BY <1>1, <1>4, <2>1, <2>2 DEF Places
  <2>6. Counted'
    BY <1>1, <1>2, <2>1 DEF Counted, Descending, Matched
  <2> QED
    BY <2>3, <2>4, <2>5, <2>6 DEF DInv
<1>6. CASE pc' = "fill"
  <2>1. /\ pos' = pos /\ heap' = [heap EXCEPT !.segments = "live"]
        /\ pstmt' = [pstmt EXCEPT !.allocated = TRUE, !.is_fully_uninit = TRUE,
                        !.segments = [k \in 1..pstmt.segment_count |-> NoSegment]]
    BY <1>6 DEF identifier_dec2, GoTo
  <2>2. /\ DOMAIN pstmt' = DOMAIN FreshStatement /\ pstmt'.segment_count = pstmt.segment_count
        /\ pstmt'.type = "STMT_NONE" /\ pstmt'.allocated
        /\ DOMAIN pstmt'.segments = 1..pstmt.segment_count
    BY <1>1, <1>2, <2>1 DEF FreshStatement
  <2>3. DOMAIN heap' = DOMAIN heap /\ heap'.pstmt = "live" /\ heap'.segments = "live"
    BY <1>1, <1>2, <2>1
  <2>4. Kinds'
    BY <1>1, <1>4, <1>6, <2>1, <2>2, <2>3 DEF DInv, Kinds, Descending
  <2>5. Blocks'
    BY <1>6, <2>2, <2>3 DEF Blocks, Descending
  <2>6. Places'
    BY <1>1, <1>4, <1>6 DEF Places
  <2>7. Counted'
    BY <1>1, <1>2, <1>3, <1>6, <2>2 DEF Counted, Descending, Matched
  <2> QED
    BY <2>4, <2>5, <2>6, <2>7 DEF DInv
<1>7. CASE pc' = "fail"
  <2>1. pos' = pos /\ pstmt' = pstmt /\ heap' = heap
    BY <1>7 DEF identifier_dec2, GoTo
  <2>2. Kinds'
    BY <1>1, <1>4, <1>7, <2>1 DEF DInv, Kinds, Descending
  <2>3. Blocks'
    BY <1>2, <1>7, <2>1 DEF Blocks, Descending
  <2>4. Places'
    BY <1>1, <1>4, <1>7 DEF Places
  <2>5. Counted'
    BY <1>1, <1>2, <1>3, <1>7, <2>1 DEF Counted, Descending
  <2> QED
    BY <2>2, <2>3, <2>4, <2>5 DEF DInv
<1> QED
  BY <1>5, <1>6, <1>7 DEF identifier_dec2, GoTo

\* A stack without its last call is a stack of calls that it had.
LEMMA WithoutLast ==
  ASSUME NEW S, NEW s \in Seq(S), s # << >>
  PROVE  LET t == SubSeq(s, 1, Len(s) - 1) IN
         /\ t \in Seq(S) /\ Len(s) \in Nat \ {0} /\ Len(t) = Len(s) - 1
         /\ \A k \in 1..Len(t) : t[k] = s[k]
<1>1. Len(s) \in Nat \ {0}
  BY EmptySeq
<1>2. PICK n \in Nat : n = Len(s) - 1
  BY <1>1
<1>3. \A k \in 1..n : s[k] \in S
  BY <1>1, <1>2, ElementOfSeq
<1>4. /\ SubSeq(s, 1, n) \in Seq(S) /\ Len(SubSeq(s, 1, n)) = IF 1 <= n THEN n - 1 + 1 ELSE 0
      /\ \A k \in 1..(n - 1 + 1) : SubSeq(s, 1, n)[k] = s[1 + k - 1]
  BY <1>3, SubSeqProperties
<1>5. Len(SubSeq(s, 1, n)) = n
  BY <1>4
<1>6. \A k \in 1..n : SubSeq(s, 1, n)[k] = s[k]
  BY <1>4
<1> QED
  BY <1>1, <1>2, <1>4, <1>5, <1>6

\* A part that is filled: a part that does not parse sends the line back, one
\* that does is stored at its own place and its call returns.
LEMMA FillKeeps ==
  ASSUME DInv, FillSegment
  PROVE  DInv'
<1>1. /\ tokens \in Declarations /\ tokens' = tokens /\ pos \in Nat /\ read \in Nat
      /\ calls \in Seq([kind : SegmentKinds, at : Nat]) /\ calls # << >>
      /\ DOMAIN pstmt = DOMAIN FreshStatement /\ pstmt.segment_count \in Nat
      /\ pos' = pos /\ heap' = heap /\ read' = read
  BY DEF DInv, Kinds, FillSegment, GoTo
<1>2. /\ pc = "fill" /\ heap.pstmt = "live" /\ heap.segments = "live"
      /\ pstmt.allocated /\ pstmt.type = "STMT_NONE"
      /\ Len(calls) <= pstmt.segment_count
      /\ DOMAIN pstmt.segments = 1..pstmt.segment_count
      /\ \A k \in 1..Len(calls) : Matched(calls[k])
  BY DEF DInv, Blocks, Counted, FillSegment
<1>3. Places'
  BY <1>1, <1>2 DEF DInv, Places, FillSegment, GoTo
<1>4. CASE pc' = "fail"
  <2>1. calls' = calls /\ pstmt' = pstmt
    BY <1>2, <1>4 DEF FillSegment, GoTo
  <2>2. Kinds'
    BY <1>1, <1>4, <2>1 DEF DInv, Kinds, Descending
  <2>3. Blocks'
    BY <1>1, <1>2, <1>4, <2>1 DEF Blocks, Descending
  <2>4. Counted'
    BY <1>2, <1>4, <2>1 DEF Counted, Descending
  <2> QED
    BY <1>3, <2>2, <2>3, <2>4 DEF DInv
<1>5. CASE pc' = "fill"
  <2>1. PICK part, uninit :
          pstmt' = [pstmt EXCEPT !.segments[SegmentIndex] = part, !.is_fully_uninit = uninit]
    <3>1. ~(pc' = "fail")
      BY <1>5
    <3>2. pstmt' = [pstmt EXCEPT !.segments[SegmentIndex] = FilledSegment(call),
                                 !.is_fully_uninit = @ /\ FilledSegment(call).is_uninit]
      BY <3>1, Zenon DEF FillSegment, GoTo
    <3> QED
      BY <3>2, Zenon
  <2>2. calls' = SubSeq(calls, 1, Len(calls) - 1)
    BY <1>2, <1>5 DEF FillSegment, GoTo
  <2>3. /\ DOMAIN pstmt' = DOMAIN FreshStatement /\ pstmt'.segment_count = pstmt.segment_count
        /\ pstmt'.type = pstmt.type /\ pstmt'.allocated = pstmt.allocated
        /\ DOMAIN pstmt'.segments = DOMAIN pstmt.segments
    BY <1>1, <2>1 DEF FreshStatement
  <2>4. /\ calls' \in Seq([kind : SegmentKinds, at : Nat])
        /\ Len(calls) \in Nat \ {0} /\ Len(calls') = Len(calls) - 1
        /\ \A k \in 1..Len(calls') : calls'[k] = calls[k]
    BY <1>1, <2>2, WithoutLast
  <2>5. Kinds'
    BY <1>1, <1>5, <2>3, <2>4 DEF DInv, Kinds, Descending
  <2>6. Blocks'
    BY <1>1, <1>2, <1>5, <2>3 DEF Blocks, Descending
  <2>7. Counted'
    <3>1. /\ Len(calls') <= pstmt'.segment_count
          /\ DOMAIN pstmt'.segments = 1..pstmt'.segment_count
      BY <1>1, <1>2, <2>3, <2>4
    <3>2. \A k \in 1..Len(calls') : k \in 1..Len(calls) /\ calls'[k] = calls[k]
      BY <2>4
    <3> QED
      BY <1>1, <1>2, <1>5, <3>1, <3>2 DEF Counted, Descending, Matched
  <2> QED
    BY <1>3, <2>5, <2>6, <2>7 DEF DInv
<1> QED
  BY <1>2, <1>4, <1>5 DEF FillSegment, GoTo

\* A call that fails takes its part off the count, and the count was no smaller
\* than the number of calls.
LEMMA RemoveKeeps ==
  ASSUME DInv, segment_remove_last
  PROVE  DInv'
<1>1. /\ tokens' = tokens /\ pos' = pos /\ read' = read /\ heap' = heap /\ pc' = pc
      /\ pc = "fail"
      /\ calls \in Seq([kind : SegmentKinds, at : Nat]) /\ calls # << >>
      /\ calls' = SubSeq(calls, 1, Len(calls) - 1)
      /\ DOMAIN pstmt = DOMAIN FreshStatement /\ pstmt.segment_count \in Nat
  BY DEF DInv, Kinds, segment_remove_last
<1>2. Len(calls) <= pstmt.segment_count
  BY <1>1 DEF DInv, Counted
<1>3. /\ calls' \in Seq([kind : SegmentKinds, at : Nat])
      /\ Len(calls) \in Nat \ {0} /\ Len(calls') = Len(calls) - 1
  BY <1>1, WithoutLast
<1>4. /\ DOMAIN pstmt' = DOMAIN FreshStatement
      /\ pstmt'.segment_count = pstmt.segment_count - 1
      /\ pstmt'.allocated = pstmt.allocated /\ pstmt'.type = pstmt.type
  BY <1>1 DEF segment_remove_last, FreshStatement
<1>5. Kinds'
  BY <1>1, <1>2, <1>3, <1>4 DEF DInv, Kinds, Descending
<1>6. Blocks'
  BY <1>1, <1>4 DEF DInv, Blocks, Descending
<1>7. Places'
  BY <1>1 DEF DInv, Places
<1>8. Counted'
  BY <1>1, <1>2, <1>3, <1>4 DEF Counted, Descending
<1> QED
  BY <1>5, <1>6, <1>7, <1>8 DEF DInv

\* The line is refused: the statement has not got its type, so p_stmt_deinit
\* leaves the parts alone that grammar_identifier_def has freed.
LEMMA RefuseKeeps ==
  ASSUME DInv, Refuse
  PROVE  DInv'
<1>1. /\ tokens' = tokens /\ pos' = pos /\ read' = read /\ calls' = calls /\ pstmt' = pstmt
      /\ pc \in {"refuse", "fail"} /\ pc' = "done"
  BY DEF Refuse, GoTo
<1>2. /\ heap.pstmt = "live" /\ pstmt.type = "STMT_NONE"
      /\ heap.segments = IF pstmt.allocated THEN "live" ELSE "none"
  BY <1>1 DEF DInv, Blocks
<1>3. heap' = [pstmt |-> "freed", segments |-> IF pstmt.allocated THEN "freed" ELSE "none"]
  BY <1>2 DEF Refuse, Freed, Deinit
<1>4. Kinds'
  BY <1>1, <1>3 DEF DInv, Kinds, Descending
<1>5. Blocks'
  BY <1>1, <1>3 DEF Blocks, Descending
<1>6. Places' /\ Counted'
  BY <1>1 DEF DInv, Places, Counted, Descending
<1> QED
  BY <1>4, <1>5, <1>6 DEF DInv

\* All calls have returned: the statement gets its type and its size.
LEMMA TotalKeeps ==
  ASSUME DInv, segment_set_dd_total_size
  PROVE  DInv'
<1>1. /\ tokens' = tokens /\ pos' = pos /\ read' = read /\ calls' = calls /\ heap' = heap
      /\ pc = "fill" /\ pc' = "append"
      /\ DOMAIN pstmt = DOMAIN FreshStatement
  BY DEF DInv, Kinds, segment_set_dd_total_size, GoTo
<1>2. /\ DOMAIN pstmt' = DOMAIN FreshStatement
      /\ pstmt'.segment_count = pstmt.segment_count
      /\ pstmt'.allocated = pstmt.allocated /\ pstmt'.type = "STMT_DATA_DECL"
  <2>1. PICK total : pstmt' = [pstmt EXCEPT !.type = "STMT_DATA_DECL", !.total_size = total]
    BY DEF segment_set_dd_total_size
  <2> QED
    BY <1>1, <2>1 DEF FreshStatement
<1>3. Kinds'
  BY <1>1, <1>2 DEF DInv, Kinds, Descending
<1>4. Blocks'
  BY <1>1, <1>2 DEF DInv, Blocks, Descending
<1>5. Places' /\ Counted'
  BY <1>1 DEF DInv, Places, Counted, Descending
<1> QED
  BY <1>3, <1>4, <1>5 DEF DInv

\* The bytes are appended, and the statement is kept until all are.
LEMMA AppendKeeps ==
  ASSUME DInv, AppendSegment \/ AllAppended
  PROVE  DInv'
<1>1. /\ tokens' = tokens /\ pos' = pos /\ read' = read /\ calls' = calls
      /\ pstmt' = pstmt /\ heap' = heap
      /\ pc = "append" /\ pc' \in {"append", "free"}
  BY DEF AppendSegment, AllAppended, GoTo
<1>2. Kinds'
  BY <1>1 DEF DInv, Kinds, Descending
<1>3. Blocks'
  BY <1>1 DEF DInv, Blocks, Descending
<1>4. Places' /\ Counted'
  BY <1>1 DEF DInv, Places, Counted, Descending
<1> QED
  BY <1>2, <1>3, <1>4 DEF DInv

\* passes_line frees a statement that has its type, and with it its parts.
LEMMA FreeKeeps ==
  ASSUME DInv, p_stmt_free
  PROVE  DInv'
<1>1. /\ tokens' = tokens /\ pos' = pos /\ read' = read /\ calls' = calls /\ pstmt' = pstmt
      /\ pc = "free" /\ pc' = "done"
  BY DEF p_stmt_free, GoTo
<1>2. heap' = [pstmt |-> "freed", segments |-> "freed"]
  BY <1>1 DEF DInv, Blocks, p_stmt_free, Freed, Deinit
<1>3. Kinds'
  BY <1>1, <1>2 DEF DInv, Kinds, Descending
<1>4. Blocks'
  BY <1>1, <1>2 DEF Blocks, Descending
<1>5. Places' /\ Counted'
  BY <1>1 DEF DInv, Places, Counted, Descending
<1> QED
  BY <1>3, <1>4, <1>5 DEF DInv

\* A step that changes nothing.
LEMMA DeclarationStutters ==
  ASSUME DInv, UNCHANGED vars
  PROVE  DInv'
<1>1. /\ tokens' = tokens /\ pos' = pos /\ read' = read /\ calls' = calls
      /\ pstmt' = pstmt /\ heap' = heap /\ pc' = pc
  BY DEF vars
<1>2. Kinds' /\ Blocks'
  BY <1>1 DEF DInv, Kinds, Blocks
<1>3. Places' /\ Counted'
  BY <1>1 DEF DInv, Places, Counted, TypeAt, Matched
<1> QED
  BY <1>2, <1>3 DEF DInv

-----------------------------------------------------------------------------
(* The theorems about the blocks and the places.                           *)

\* At every step of the descent, the return and the appends, the blocks, the
\* place in the line and the counted parts are as pc tells.
THEOREM DeclarationInvariant == Spec => []DInv
<1>1. DInv /\ [Next]_vars => DInv'
  <2> SUFFICES ASSUME DInv, [Next]_vars PROVE DInv'
    OBVIOUS
  <2>1. CASE p_stmt_create
    BY <2>1, CreateKeeps
  <2>2. CASE identifier_dec
    BY <2>2, DecKeeps
  <2>3. CASE identifier_dup
    BY <2>3, DupKeeps
  <2>4. CASE identifier_dec2
    BY <2>4, Dec2Keeps
  <2>5. CASE FillSegment
    BY <2>5, FillKeeps
  <2>6. CASE segment_remove_last
    BY <2>6, RemoveKeeps
  <2>7. CASE Refuse
    BY <2>7, RefuseKeeps
  <2>8. CASE segment_set_dd_total_size
    BY <2>8, TotalKeeps
  <2>9. CASE AppendSegment \/ AllAppended
    BY <2>9, AppendKeeps
  <2>10. CASE p_stmt_free
    BY <2>10, FreeKeeps
  <2>11. CASE Done \/ UNCHANGED vars
    BY <2>11, DeclarationStutters DEF Done
  <2> QED
    BY <2>1, <2>2, <2>3, <2>4, <2>5, <2>6, <2>7, <2>8, <2>9, <2>10, <2>11 DEF Next
<1> QED
  BY DeclarationStarts, <1>1, PTL DEF Spec

\* p_stmt_destroy and the cleanup of grammar_identifier_def: whichever call or
\* allocation fails, the statement and its parts are freed, and once each.
THEOREM BlocksFreedOnce == Spec => []EachFreedOnce
<1>1. DInv => EachFreedOnce
  <2> SUFFICES ASSUME DInv PROVE EachFreedOnce
    OBVIOUS
  <2>1. heap.pstmt \in {"none", "live", "freed"}
    BY DEF DInv, Blocks
  <2>2. heap.segments \in {"none", "live", "freed"}
    BY DEF DInv, Kinds, Blocks, Descending
  <2>3. pc = "done" => {heap.pstmt, heap.segments} \subseteq {"none", "freed"}
    BY DEF DInv, Blocks
  <2> QED
    BY <2>1, <2>2, <2>3 DEF EachFreedOnce
<1> QED
  BY DeclarationInvariant, <1>1, PTL

\* No rule of a declaration looks past the NULL pointer after the last token,
\* whatever the line and wherever it breaks off.
THEOREM ParserStaysOnLine == Spec => []ReadsWithinLine
<1>1. DInv => ReadsWithinLine
  BY DEF DInv, Places, ReadsWithinLine
<1> QED
  BY DeclarationInvariant, <1>1, PTL

\* segment_idx, counted on the way down, is the index of a part allocated when
\* the part is filled on the way up, and the tokens it is filled from exist.
THEOREM FillingStaysInParts == Spec => []FillsWithinParts
<1>1. DInv => FillsWithinParts
  <2> SUFFICES ASSUME DInv, pc = "fill", calls # << >>
               PROVE  /\ SegmentIndex \in DOMAIN pstmt.segments
                      /\ call.at \in DOMAIN tokens
                      /\ call.kind = "INIT_SEG_DUP" => call.at + 3 \in DOMAIN tokens
    BY DEF FillsWithinParts
  <2>1. calls \in Seq([kind : SegmentKinds, at : Nat]) /\ tokens \in Declarations
    BY DEF DInv, Kinds, Descending
  <2>2. Len(calls) \in Nat \ {0}
    BY <2>1, EmptySeq
  <2>3. DOMAIN pstmt.segments = 1..pstmt.segment_count /\ Len(calls) <= pstmt.segment_count
        /\ pstmt.segment_count \in Nat
    BY DEF DInv, Kinds, Counted
  <2>4. Matched(calls[Len(calls)])
    BY <2>2 DEF DInv, Counted
  <2>5. call.at \in Nat
    <3>1. PICK n \in 1..Len(calls) : n = Len(calls)
      BY <2>2
    <3>2. calls[n] \in [kind : SegmentKinds, at : Nat]
      BY <2>1, ElementOfSeq
    <3> QED
      BY <3>1, <3>2 DEF call
  <2>6. Len(tokens) \in Nat \ {0} /\ DOMAIN tokens = 1..Len(tokens)
    BY <2>1, OnTheLine
  <2>7. SegmentIndex \in DOMAIN pstmt.segments
    BY <2>2, <2>3 DEF SegmentIndex
  <2> QED
    BY <2>4, <2>5, <2>6, <2>7 DEF Matched, call
<1> QED
  BY DeclarationInvariant, <1>1, PTL

-----------------------------------------------------------------------------
(* Sequences put one after the other.                                     *)

\* The function by which FlattenSeq puts sequences one after the other.
Flat(s) ==
  LET flatten[k \in 1..Len(s)] == IF k = 1 THEN s[k] ELSE flatten[k - 1] \o s[k]
  IN  flatten

\* The recursion of that function.
LEMMA FlatRecursion ==
  ASSUME NEW S, NEW s \in Seq(Seq(S)), Len(s) # 0
  PROVE  /\ Flat(s) \in [1..Len(s) -> Seq(S)]
         /\ Flat(s)[1] = s[1]
         /\ \A k \in 1..(Len(s) - 1) : Flat(s)[k + 1] = Flat(s)[k] \o s[k + 1]
         /\ FlattenSeq(s) = Flat(s)[Len(s)]
<1> DEFINE n == Len(s)
           rule(f) == f = [k \in 1..n |-> IF k = 1 THEN s[k] ELSE f[k - 1] \o s[k]]
           step == [p \in (1..n) \X Seq(S) |-> IF p[1] = n THEN p[2] ELSE p[2] \o s[p[1] + 1]]
<1>1. n \in Nat \ {0} /\ \A k \in 1..n : s[k] \in Seq(S)
  OBVIOUS
<1>2. step \in [(1..n) \X Seq(S) -> Seq(S)]
  <2>1. ASSUME NEW k \in 1..n, NEW t \in Seq(S)
        PROVE  (IF k = n THEN t ELSE t \o s[k + 1]) \in Seq(S)
    <3>1. CASE k # n
      <4>1. s[k + 1] \in Seq(S)
        BY <1>1, <3>1
      <4> QED
        BY <3>1, <4>1
    <3> QED
      BY <3>1
  <2> HIDE DEF n
  <2> QED
    BY <2>1
<1>3. PICK f \in [1..n -> Seq(S)] : Follows(f, n, s[1], step)
  <2> HIDE DEF step
  <2>1. s[1] \in Seq(S)
    BY <1>1
  <2> QED
    BY <1>1, <1>2, <2>1, Iterates
<1>4. f[1] = s[1] /\ \A k \in 1..(n - 1) : f[k + 1] = f[k] \o s[k + 1]
  <2>1. ASSUME NEW k \in 1..(n - 1)
        PROVE  f[k + 1] = f[k] \o s[k + 1]
    <3>1. f[k + 1] = step[<<k, f[k]>>]
      BY <1>3 DEF Follows
    <3>2. <<k, f[k]>> \in (1..n) \X Seq(S) /\ k # n
      BY <1>1, <1>3
    <3> HIDE DEF n
    <3> QED
      BY <3>1, <3>2
  <2> QED
    BY <1>3, <2>1 DEF Follows
<1>5. rule(f)
  <2>1. ASSUME NEW k \in 1..n
        PROVE  f[k] = IF k = 1 THEN s[k] ELSE f[k - 1] \o s[k]
    <3>1. CASE k # 1
      <4>1. PICK l \in 1..(n - 1) : k = l + 1
        BY <1>1, <3>1
      <4>2. k - 1 = l /\ l + 1 = k
        BY <1>1, <4>1
      <4>3. f[l + 1] = f[l] \o s[l + 1]
        BY <1>4, <4>1
      <4>4. f[k] = f[k - 1] \o s[k]
        BY <4>2, <4>3, Zenon
      <4> QED
        BY <3>1, <4>4, Zenon
    <3> QED
      BY <1>4, <3>1
  <2> HIDE DEF n
  <2> QED
    BY <1>3, <2>1
<1>6. Flat(s) = CHOOSE g : rule(g)
  BY DEF Flat
<1>7. rule(Flat(s))
  <2> HIDE DEF rule
  <2> QED
    BY <1>5, <1>6
<1>8. /\ DOMAIN Flat(s) = 1..n
      /\ \A k \in 1..n : Flat(s)[k] = IF k = 1 THEN s[k] ELSE Flat(s)[k - 1] \o s[k]
  BY <1>7
<1>9. Flat(s) = f
  <2> DEFINE F == {k \in 1..n : Flat(s)[k] # f[k]}
  <2>1. ASSUME F # {}
        PROVE  FALSE
    <3>1. PICK k \in F : \A l \in F : k <= l
      <4>1. F \subseteq Nat
        OBVIOUS
      <4> HIDE DEF F
      <4> QED
        BY <2>1, <4>1, LeastNatural
    <3>2. CASE k = 1
      BY <1>1, <1>4, <1>8, <3>1, <3>2
    <3>3. CASE k # 1
      <4>1. PICK l \in 1..(n - 1) : k = l + 1
        BY <1>1, <3>1, <3>3
      <4>2. Flat(s)[l] = f[l]
        BY <3>1, <4>1
      <4>3. k - 1 = l /\ l + 1 = k /\ f[l + 1] = f[l] \o s[l + 1] /\ k \in 1..n /\ Flat(s)[k] # f[k]
        <5>1. k \in 1..n /\ Flat(s)[k] # f[k]
          BY <3>1
        <5>2. k - 1 = l /\ l + 1 = k
          BY <1>1, <4>1
        <5> QED
          BY <1>4, <4>1, <5>1, <5>2, Zenon
      <4>4. Flat(s)[k] = Flat(s)[k - 1] \o s[k]
        BY <1>8, <3>3, <4>3
      <4>5. f[k] = f[k - 1] \o s[k] /\ Flat(s)[k - 1] = f[k - 1]
        BY <4>1, <4>2, <4>3, Zenon
      <4> HIDE DEF n
      <4> QED
        BY <4>3, <4>4, <4>5, Zenon
    <3> QED
      BY <3>2, <3>3
  <2>2. \A k \in 1..n : Flat(s)[k] = f[k]
    BY <2>1
  <2>3. Flat(s) = [k \in 1..n |-> Flat(s)[k]]
    BY <1>7
  <2> QED
    BY <1>3, <2>2, <2>3
<1>10. FlattenSeq(s) = Flat(s)[n]
  BY DEF FlattenSeq, Flat
<1> QED
  BY <1>3, <1>4, <1>9, <1>10

-----------------------------------------------------------------------------
(* The parts of a line.                                                    *)

\* The next separator is on the line, and none is before it.
LEMMA NextSeparator ==
  ASSUME tokens \in Declarations, NEW n \in 1..Len(tokens)
  PROVE  /\ EndOf(n) \in n..Len(tokens) /\ TypeAt(EndOf(n)) \in Separators
         /\ \A m \in n..(EndOf(n) - 1) : TypeAt(m) \notin Separators
<1> DEFINE T == {m \in n..Len(tokens) : tokens[m].type \in Separators}
<1>1. /\ Len(tokens) \in Nat \ {0} /\ DOMAIN tokens = 1..Len(tokens)
      /\ tokens[Len(tokens)].type = "TOKEN_EOF"
  BY OnTheLine, DeclarationAssumption
<1>2. Len(tokens) \in T
  BY <1>1 DEF Separators
<1>3. PICK n0 \in T : \A l \in T : n0 <= l
  <2>1. T \subseteq Nat
    BY <1>1
  <2> HIDE DEF T
  <2> QED
    BY <1>2, <2>1, LeastNatural
<1>4. EndOf(n) \in T /\ \A l \in T : EndOf(n) <= l
  BY <1>3 DEF EndOf, Min
<1> DEFINE e == EndOf(n)
<1>5. e \in n..Len(tokens) /\ tokens[e].type \in Separators /\ \A l \in T : e <= l
  BY <1>4
<1> HIDE DEF e
<1>6. TypeAt(e) \in Separators
  BY <1>1, <1>5 DEF TypeAt
<1>7. ASSUME NEW m \in n..(e - 1), TypeAt(m) \in Separators
      PROVE  FALSE
  <2>1. m \in n..Len(tokens) /\ m \in DOMAIN tokens
    BY <1>1, <1>5
  <2>2. m \in T
    BY <1>7, <2>1 DEF TypeAt
  <2> QED
    BY <1>1, <1>5, <2>1, <2>2
<1> QED
  BY <1>5, <1>6, <1>7 DEF e

\* A separator with none before it is the next one.
LEMMA SeparatorFound ==
  ASSUME tokens \in Declarations, NEW n \in 1..Len(tokens), NEW e \in Int, e >= n,
         TypeAt(e) \in Separators, \A m \in n..(e - 1) : TypeAt(m) \notin Separators
  PROVE  EndOf(n) = e
<1>1. Len(tokens) \in Nat
  BY OnTheLine
<1>2. e \in 1..Len(tokens)
  BY OnTheLine DEF Separators
<1>3. PICK f \in n..Len(tokens) : f = EndOf(n)
  BY NextSeparator
<1>4. TypeAt(f) \in Separators /\ \A m \in n..(f - 1) : TypeAt(m) \notin Separators
  BY <1>3, NextSeparator
<1>5. ~(f < e) /\ ~(e < f)
  BY <1>1, <1>2, <1>3, <1>4
<1> QED
  BY <1>1, <1>2, <1>3, <1>5

\* The recursion of PartStart.
LEMMA PartStartRecursion ==
  ASSUME tokens \in Declarations
  PROVE  /\ PartStart \in [1..(Len(tokens) + 1) -> Nat]
         /\ PartStart[1] = 2
         /\ \A k \in 1..Len(tokens) :
              PartStart[k + 1] = IF PartStart[k] > Len(tokens) THEN PartStart[k]
                                 ELSE EndOf(PartStart[k]) + 1
         /\ \A k \in 1..(Len(tokens) + 1) : PartStart[k] >= 2
<1> DEFINE N == {n \in Nat : n >= 2}
           last == Len(tokens) + 1
           step == [p \in (1..last) \X N |->
                      IF p[2] > Len(tokens) THEN p[2] ELSE EndOf(p[2]) + 1]
           rule(f) == f = [k \in 1..last |->
                             IF k = 1 THEN 2
                             ELSE IF f[k - 1] > Len(tokens) THEN f[k - 1]
                             ELSE EndOf(f[k - 1]) + 1]
<1>1. Len(tokens) \in Nat /\ last \in Nat \ {0} /\ 2 \in N
  BY OnTheLine
<1>2. step \in [(1..last) \X N -> N]
  <2>1. ASSUME NEW n \in N
        PROVE  (IF n > Len(tokens) THEN n ELSE EndOf(n) + 1) \in N
    <3>1. CASE ~(n > Len(tokens))
      <4>1. n \in 1..Len(tokens)
        BY <1>1, <3>1
      <4>2. PICK e \in n..Len(tokens) : e = EndOf(n)
        BY <4>1, NextSeparator
      <4> QED
        BY <1>1, <3>1, <4>2
    <3> QED
      BY <3>1
  <2> HIDE DEF N, last
  <2> QED
    BY <2>1
<1>3. PICK f \in [1..last -> N] : Follows(f, last, 2, step)
  <2> HIDE DEF step, N, last
  <2> QED
    BY <1>1, <1>2, Iterates
<1>4. ASSUME NEW k \in 1..(last - 1)
      PROVE  f[k + 1] = IF f[k] > Len(tokens) THEN f[k] ELSE EndOf(f[k]) + 1
  <2>1. f[k + 1] = step[<<k, f[k]>>]
    BY <1>3, <1>4 DEF Follows
  <2>2. <<k, f[k]>> \in (1..last) \X N
    <3> HIDE DEF N
    <3> QED
      BY <1>1, <1>3
  <2> HIDE DEF N, last
  <2> QED
    BY <2>1, <2>2
<1>5. f[1] = 2
  BY <1>3 DEF Follows
<1>6. rule(f)
  <2>1. ASSUME NEW k \in 1..last
        PROVE  f[k] = IF k = 1 THEN 2
                      ELSE IF f[k - 1] > Len(tokens) THEN f[k - 1] ELSE EndOf(f[k - 1]) + 1
    <3>1. CASE k # 1
      <4>1. PICK l \in 1..(last - 1) : k = l + 1
        BY <1>1, <3>1
      <4>2. k - 1 = l /\ l + 1 = k
        BY <1>1, <4>1
      <4>3. f[l + 1] = IF f[l] > Len(tokens) THEN f[l] ELSE EndOf(f[l]) + 1
        BY <1>4, <4>1
      <4> QED
        BY <3>1, <4>2, <4>3, Zenon
    <3> QED
      BY <1>5, <3>1
  <2> HIDE DEF last, N
  <2> QED
    BY <1>3, <2>1
<1>7. PartStart = CHOOSE g : rule(g)
  BY DEF PartStart
<1>8. rule(PartStart)
  <2> HIDE DEF rule
  <2> QED
    BY <1>6, <1>7
<1>9. /\ DOMAIN PartStart = 1..last
      /\ \A k \in 1..last : PartStart[k] = IF k = 1 THEN 2
                      ELSE IF PartStart[k - 1] > Len(tokens) THEN PartStart[k - 1]
                      ELSE EndOf(PartStart[k - 1]) + 1
  BY <1>8
<1> HIDE DEF last
<1>10. \A k \in 1..(last - 1) :
         PartStart[k + 1] = IF PartStart[k] > Len(tokens) THEN PartStart[k]
                            ELSE EndOf(PartStart[k]) + 1
  <2> TAKE k \in 1..(last - 1)
  <2>1. PICK l \in 1..last : l = k + 1 /\ l # 1 /\ l - 1 = k
    BY <1>1
  <2>2. PartStart[l] = IF PartStart[l - 1] > Len(tokens) THEN PartStart[l - 1]
                       ELSE EndOf(PartStart[l - 1]) + 1
    BY <1>9, <2>1
  <2> QED
    BY <2>1, <2>2, Zenon
<1>11. \A k \in 1..last : PartStart[k] \in N
  <2> DEFINE F == {k \in 1..last : PartStart[k] \notin N}
  <2>1. ASSUME F # {}
        PROVE  FALSE
    <3>1. PICK k \in F : \A l \in F : k <= l
      <4>1. F \subseteq Nat
        BY <1>1
      <4> HIDE DEF F
      <4> QED
        BY <2>1, <4>1, LeastNatural
    <3>2. CASE k = 1
      BY <1>1, <1>9, <3>1, <3>2
    <3>3. CASE k # 1
      <4>1. PICK l \in 1..(last - 1) : k = l + 1
        BY <1>1, <3>1, <3>3
      <4>2. PartStart[l] \in N
        BY <1>1, <3>1, <4>1
      <4>3. PartStart[k] = step[<<l, PartStart[l]>>]
        <5>1. <<l, PartStart[l]>> \in (1..last) \X N
          <6> HIDE DEF N
          <6> QED
            BY <1>1, <4>1, <4>2
        <5>2. step[<<l, PartStart[l]>>] = IF PartStart[l] > Len(tokens) THEN PartStart[l]
                                          ELSE EndOf(PartStart[l]) + 1
          <6> HIDE DEF N
          <6> QED
            BY <5>1
        <5> HIDE DEF step
        <5> QED
          BY <1>10, <4>1, <5>2
      <4>4. PartStart[k] \in N
        <5>1. <<l, PartStart[l]>> \in (1..last) \X N
          <6> HIDE DEF N
          <6> QED
            BY <1>1, <4>1, <4>2
        <5> HIDE DEF step, N
        <5> QED
          BY <1>2, <4>3, <5>1
      <4> QED
        BY <3>1, <4>4
    <3> QED
      BY <3>2, <3>3
  <2> HIDE DEF N
  <2> QED
    BY <2>1
<1>12. PartStart \in [1..last -> Nat] /\ \A k \in 1..last : PartStart[k] >= 2
  <2>1. PartStart = [k \in 1..last |-> PartStart[k]]
    <3> HIDE DEF N
    <3> QED
      BY <1>8
  <2> HIDE DEF rule
  <2> QED
    BY <1>9, <1>11, <2>1
<1>13. PartStart[1] = 2
  BY <1>1, <1>9
<1>14. last - 1 = Len(tokens)
  BY <1>1 DEF last
<1> QED
  BY <1>10, <1>12, <1>13, <1>14, Zenon DEF last

-----------------------------------------------------------------------------
\* A part is the tokens from its first one to the next separator.
LEMMA TokensOfPart ==
  ASSUME tokens \in Declarations, NEW n \in 1..Len(tokens), NEW e, e = EndOf(n)
  PROVE  /\ e \in n..Len(tokens) /\ Len(Part(n)) = e - n /\ DOMAIN Part(n) = 1..(e - n)
         /\ \A k \in 1..(e - n) : n + k - 1 \in DOMAIN tokens /\ Part(n)[k] = tokens[n + k - 1]
<1> DEFINE S == {tokens[m] : m \in 1..Len(tokens)}
           p == SubSeq(tokens, n, e - 1)
<1>1. e \in n..Len(tokens) /\ Len(tokens) \in Nat /\ DOMAIN tokens = 1..Len(tokens)
  BY NextSeparator, OnTheLine
<1>2. n \in Int /\ e - 1 \in Int /\ \A m \in n..(e - 1) : tokens[m] \in S
  BY <1>1
<1>3. /\ p \in Seq(S) /\ Len(p) = IF n <= e - 1 THEN e - 1 - n + 1 ELSE 0
      /\ \A k \in 1..(e - 1 - n + 1) : p[k] = tokens[n + k - 1]
  <2> HIDE DEF S
  <2> QED
    BY <1>2, SubSeqProperties
<1>4. Len(p) = e - n /\ e - 1 - n + 1 = e - n
  BY <1>1, <1>3
<1>5. DOMAIN p = 1..(e - n)
  <2> HIDE DEF p, S
  <2> QED
    BY <1>3, <1>4
<1>6. \A k \in 1..(e - n) : n + k - 1 \in DOMAIN tokens
  BY <1>1
<1>7. Part(n) = p
  BY DEF Part
<1> HIDE DEF p, S
<1> QED
  BY <1>1, <1>3, <1>4, <1>5, <1>6, <1>7

\* A part has a form when its tokens have the types of the form and a separator
\* is behind them.
LEMMA FormIs ==
  ASSUME tokens \in Declarations, NEW n \in 1..Len(tokens), NEW size \in Nat, NEW types,
         types = [k \in 1..size |-> types[k]], \A k \in 1..size : types[k] \notin Separators
  PROVE  /\ HasForm(Part(n), types) <=>
              TypeAt(n + size) \in Separators /\ \A k \in 1..size : TypeAt(n + k - 1) = types[k]
         /\ HasForm(Part(n), types) =>
              /\ EndOf(n) = n + size /\ DOMAIN Part(n) = 1..size /\ Len(Part(n)) = size
              /\ \A k \in 1..size : Part(n)[k] = tokens[n + k - 1]
<1>1. PICK e : e = EndOf(n)
  OBVIOUS
<1>2. /\ e \in n..Len(tokens) /\ Len(Part(n)) = e - n /\ DOMAIN Part(n) = 1..(e - n)
      /\ \A k \in 1..(e - n) : n + k - 1 \in DOMAIN tokens /\ Part(n)[k] = tokens[n + k - 1]
  BY <1>1, TokensOfPart
<1>3. Len(tokens) \in Nat
  BY OnTheLine
<1>4. ASSUME HasForm(Part(n), types)
      PROVE  /\ e = n + size
             /\ TypeAt(n + size) \in Separators
             /\ \A k \in 1..size : TypeAt(n + k - 1) = types[k]
  <2>1. [k \in 1..(e - n) |-> Part(n)[k].type] = types
    BY <1>2, <1>4 DEF HasForm
  <2>2. DOMAIN types = 1..size /\ DOMAIN types = 1..(e - n)
    BY <2>1
  <2>3. size = e - n
    <3>1. PICK d \in Nat : d = e - n
      BY <1>2
    <3>2. 1..size = 1..d
      BY <2>2, <3>1
    <3>3. size = d
      BY <3>2
    <3> QED
      BY <3>1, <3>3
  <2>4. e = n + size
    BY <1>2, <2>3
  <2>5. \A k \in 1..size : Part(n)[k].type = types[k]
    BY <2>1, <2>3
  <2>6. \A k \in 1..size : TypeAt(n + k - 1) = types[k]
    BY <1>2, <2>3, <2>5 DEF TypeAt
  <2> QED
    BY <1>1, <2>4, <2>6, NextSeparator
<1>5. ASSUME TypeAt(n + size) \in Separators, \A k \in 1..size : TypeAt(n + k - 1) = types[k]
      PROVE  HasForm(Part(n), types)
  <2>1. ASSUME NEW m \in n..(n + size - 1)
        PROVE  TypeAt(m) \notin Separators
    <3>1. PICK k \in Int : k = m - n + 1
      OBVIOUS
    <3>2. k \in 1..size /\ n + k - 1 = m
      BY <3>1
    <3> QED
      BY <1>5, <3>2
  <2>2. PICK f \in Int : f = n + size /\ f >= n
    OBVIOUS
  <2>3. e = f
    <3>1. \A m \in n..(f - 1) : TypeAt(m) \notin Separators
      BY <2>1, <2>2
    <3> QED
      BY <1>1, <1>5, <2>2, <3>1, SeparatorFound
  <2>4. e - n = size
    BY <2>2, <2>3
  <2>5. ASSUME NEW k \in 1..size
        PROVE  Part(n)[k].type = types[k]
    <3>1. k \in 1..(e - n)
      BY <2>4
    <3>2. n + k - 1 \in DOMAIN tokens /\ Part(n)[k] = tokens[n + k - 1]
      BY <1>2, <3>1
    <3>3. TypeAt(n + k - 1) = types[k]
      BY <1>5
    <3> QED
      BY <3>2, <3>3 DEF TypeAt
  <2>6. [k \in DOMAIN Part(n) |-> Part(n)[k].type] = types
    BY <1>2, <2>4, <2>5
  <2> QED
    BY <2>6 DEF HasForm
<1>6. e = n + size => e - n = size
  BY <1>2
<1> QED
  BY <1>1, <1>2, <1>4, <1>5, <1>6

\* The five forms.
LEMMA OneTokenForm ==
  ASSUME tokens \in Declarations, NEW n \in 1..Len(tokens),
         NEW type, type \notin Separators
  PROVE  /\ HasForm(Part(n), <<type>>) <=> TypeAt(n) = type /\ TypeAt(n + 1) \in Separators
         /\ HasForm(Part(n), <<type>>) =>
              /\ EndOf(n) = n + 1 /\ DOMAIN Part(n) = 1..1 /\ Len(Part(n)) = 1
              /\ Part(n)[1] = tokens[n]
<1> DEFINE types == <<type>>
<1>1. types = [k \in 1..1 |-> types[k]] /\ \A k \in 1..1 : types[k] \notin Separators
  OBVIOUS
<1>2. types[1] = type /\ 1 \in Nat
  OBVIOUS
<1> HIDE DEF types
<1>3. /\ HasForm(Part(n), types) <=>
              TypeAt(n + 1) \in Separators /\ \A k \in 1..1 : TypeAt(n + k - 1) = types[k]
      /\ HasForm(Part(n), types) =>
              /\ EndOf(n) = n + 1 /\ DOMAIN Part(n) = 1..1 /\ Len(Part(n)) = 1
              /\ \A k \in 1..1 : Part(n)[k] = tokens[n + k - 1]
  BY <1>1, <1>2, FormIs
<1>4. n + 1 - 1 = n /\ \A k \in 1..1 : k = 1
  OBVIOUS
<1> QED
  BY <1>2, <1>3, <1>4 DEF types

\* The same for a DUP.
LEMMA DupForm ==
  ASSUME tokens \in Declarations, NEW n \in 1..Len(tokens),
         NEW type, type \notin Separators
  PROVE  /\ HasForm(Part(n), DupOf(type)) <=>
              /\ TypeAt(n) = "TOKEN_NUMBER" /\ TypeAt(n + 1) = "TOKEN_DUP"
              /\ TypeAt(n + 2) = "TOKEN_LPAREN" /\ TypeAt(n + 3) = type
              /\ TypeAt(n + 4) = "TOKEN_RPAREN" /\ TypeAt(n + 5) \in Separators
         /\ HasForm(Part(n), DupOf(type)) =>
              /\ EndOf(n) = n + 5 /\ DOMAIN Part(n) = 1..5 /\ Len(Part(n)) = 5
              /\ \A k \in 1..5 : Part(n)[k] = tokens[n + k - 1]
<1> DEFINE types == DupOf(type)
<1>1. /\ types[1] = "TOKEN_NUMBER" /\ types[2] = "TOKEN_DUP" /\ types[3] = "TOKEN_LPAREN"
      /\ types[4] = type /\ types[5] = "TOKEN_RPAREN"
      /\ types = [k \in 1..5 |-> types[k]]
  BY DEF DupOf
<1>2. \A k \in 1..5 : k \in {1, 2, 3, 4, 5}
  OBVIOUS
<1>3. \A k \in 1..5 : types[k] \notin Separators
  <2> HIDE DEF types
  <2> QED
    BY <1>1, <1>2 DEF Separators
<1> HIDE DEF types
<1>4. 5 \in Nat
  OBVIOUS
<1>5. /\ HasForm(Part(n), types) <=>
              TypeAt(n + 5) \in Separators /\ \A k \in 1..5 : TypeAt(n + k - 1) = types[k]
      /\ HasForm(Part(n), types) =>
              /\ EndOf(n) = n + 5 /\ DOMAIN Part(n) = 1..5 /\ Len(Part(n)) = 5
              /\ \A k \in 1..5 : Part(n)[k] = tokens[n + k - 1]
  BY <1>1, <1>3, <1>4, FormIs
<1>6. /\ n + 1 - 1 = n /\ n + 2 - 1 = n + 1 /\ n + 3 - 1 = n + 2 /\ n + 4 - 1 = n + 3
      /\ n + 5 - 1 = n + 4 /\ {1, 2, 3, 4, 5} = 1..5
  OBVIOUS
<1>7. (\A k \in 1..5 : TypeAt(n + k - 1) = types[k]) <=>
        /\ TypeAt(n) = types[1] /\ TypeAt(n + 1) = types[2] /\ TypeAt(n + 2) = types[3]
        /\ TypeAt(n + 3) = types[4] /\ TypeAt(n + 4) = types[5]
  <2>1. ASSUME \A k \in 1..5 : TypeAt(n + k - 1) = types[k]
        PROVE  /\ TypeAt(n) = types[1] /\ TypeAt(n + 1) = types[2] /\ TypeAt(n + 2) = types[3]
               /\ TypeAt(n + 3) = types[4] /\ TypeAt(n + 4) = types[5]
    <3>1. 1 \in 1..5 /\ 2 \in 1..5 /\ 3 \in 1..5 /\ 4 \in 1..5 /\ 5 \in 1..5
      OBVIOUS
    <3> QED
      BY <1>6, <2>1, <3>1
  <2>2. ASSUME /\ TypeAt(n) = types[1] /\ TypeAt(n + 1) = types[2] /\ TypeAt(n + 2) = types[3]
               /\ TypeAt(n + 3) = types[4] /\ TypeAt(n + 4) = types[5],
               NEW k \in 1..5
        PROVE  TypeAt(n + k - 1) = types[k]
    BY <1>2, <1>6, <2>2
  <2> QED
    BY <2>1, <2>2
<1> QED
  BY <1>1, <1>5, <1>7 DEF types

-----------------------------------------------------------------------------
\* The tokens that tell what a part is, and where it ends.
LEMMA KindsOfParts ==
  ASSUME tokens \in Declarations, NEW n \in 2..Len(tokens)
  PROVE  /\ Formed(n) <=>
              \/ /\ PartAt(n) \in {"INIT_SEG_VALUE", "INIT_SEG_UNINIT", "INIT_SEG_STRING"}
                 /\ TypeAt(n + 1) \in Separators
              \/ /\ PartAt(n) = "INIT_SEG_DUP"
                 /\ TypeAt(n + 2) = "TOKEN_LPAREN" /\ TypeAt(n + 4) = "TOKEN_RPAREN"
                 /\ TypeAt(n + 3) \in {"TOKEN_NUMBER", "TOKEN_QUESTION"}
                 /\ TypeAt(n + 5) \in Separators
<1>1. n + 1 \in Int /\ n + 5 \in Int /\ n + 1 # n + 5
  OBVIOUS
<1> QED
  BY <1>1 DEF Formed, ReadUpTo

\* What the descent takes for a part and can store is a part of a declaration,
\* and nothing else is.
LEMMA PartsAreRead ==
  ASSUME tokens \in Declarations, tokens[1].type = "TOKEN_DATA_TYPE", NEW n \in 2..Len(tokens)
  PROVE  IsPart(Part(n)) <=> Formed(n) /\ PartParses(CallAt(n))
<1>1. /\ Len(tokens) \in Nat /\ DOMAIN tokens = 1..Len(tokens) /\ 1 \in DOMAIN tokens
      /\ n \in 1..Len(tokens) /\ n \in DOMAIN tokens
      /\ "TOKEN_NUMBER" \notin Separators /\ "TOKEN_QUESTION" \notin Separators
      /\ "TOKEN_STRING" \notin Separators
  BY OnTheLine DEF Separators
<1>2. tokens[1].value = "DB" <=> ~is_dw
  <2>1. tokens[1].value \in {"DB", "DW"}
    BY <1>1, DeclarationAssumption DEF IsToken
  <2> QED
    BY <2>1 DEF is_dw
<1> DEFINE p == Part(n)
           number == HasForm(p, <<"TOKEN_NUMBER">>)
           question == HasForm(p, <<"TOKEN_QUESTION">>)
           text == HasForm(p, <<"TOKEN_STRING">>)
           some == HasForm(p, DupOf("TOKEN_NUMBER"))
           none == HasForm(p, DupOf("TOKEN_QUESTION"))
<1>3. number <=> TypeAt(n) = "TOKEN_NUMBER" /\ TypeAt(n + 1) \in Separators
  BY <1>1, OneTokenForm
<1>4. question <=> TypeAt(n) = "TOKEN_QUESTION" /\ TypeAt(n + 1) \in Separators
  BY <1>1, OneTokenForm
<1>5. text <=> TypeAt(n) = "TOKEN_STRING" /\ TypeAt(n + 1) \in Separators
  BY <1>1, OneTokenForm
<1>6. some <=>
        /\ TypeAt(n) = "TOKEN_NUMBER" /\ TypeAt(n + 1) = "TOKEN_DUP"
        /\ TypeAt(n + 2) = "TOKEN_LPAREN" /\ TypeAt(n + 3) = "TOKEN_NUMBER"
        /\ TypeAt(n + 4) = "TOKEN_RPAREN" /\ TypeAt(n + 5) \in Separators
  BY <1>1, DupForm
<1>7. none <=>
        /\ TypeAt(n) = "TOKEN_NUMBER" /\ TypeAt(n + 1) = "TOKEN_DUP"
        /\ TypeAt(n + 2) = "TOKEN_LPAREN" /\ TypeAt(n + 3) = "TOKEN_QUESTION"
        /\ TypeAt(n + 4) = "TOKEN_RPAREN" /\ TypeAt(n + 5) \in Separators
  BY <1>1, DupForm
<1>8. number \/ question \/ text \/ some \/ none => p[1] = tokens[n]
  <2>1. some \/ none => p[1] = tokens[n + 1 - 1]
    BY <1>1, DupForm
  <2>2. number \/ question \/ text => p[1] = tokens[n]
    BY <1>1, OneTokenForm
  <2>3. n + 1 - 1 = n
    OBVIOUS
  <2> QED
    BY <2>1, <2>2, <2>3
<1>9. some \/ none => p[4] = tokens[n + 3]
  <2>1. some \/ none => p[4] = tokens[n + 4 - 1]
    BY <1>1, DupForm
  <2>2. n + 4 - 1 = n + 3
    OBVIOUS
  <2> QED
    BY <2>1, <2>2
<1>10. TypeAt(n) = tokens[n].type
  BY <1>1 DEF TypeAt
<1>11. TypeAt(n + 3) \in {"TOKEN_NUMBER", "TOKEN_QUESTION"} => TypeAt(n + 3) = tokens[n + 3].type
  BY DEF TypeAt
<1>12. IsPart(p) <=>
         \/ number /\ ParsesInt32(tokens[n].value)
         \/ question
         \/ text /\ ~is_dw
         \/ some /\ ParsesSize(tokens[n].value) /\ ParsesInt32(tokens[n + 3].value)
         \/ none /\ ParsesSize(tokens[n].value)
  <2> HIDE DEF p, number, question, text, some, none
  <2>1. number => (Storable(p[1]) <=> ParsesInt32(tokens[n].value))
    BY <1>3, <1>8, <1>10 DEF Storable
  <2>2. some => (Storable(p[4]) <=> ParsesInt32(tokens[n + 3].value))
    BY <1>6, <1>9, <1>11 DEF Storable
  <2>3. none => Storable(p[4])
    BY <1>7, <1>9, <1>11 DEF Storable
  <2>4. IsPart(p) <=> \/ number /\ Storable(p[1])
                      \/ question
                      \/ text /\ tokens[1].value = "DB"
                      \/ (some \/ none) /\ ParsesSize(p[1].value) /\ Storable(p[4])
    BY DEF IsPart, IsDup, number, question, text, some, none
  <2> QED
    BY <1>2, <1>8, <2>1, <2>2, <2>3, <2>4
<1>13. CallAt(n).kind = PartAt(n) /\ CallAt(n).at = n
  BY DEF CallAt
<1> HIDE DEF p, number, question, text, some, none
<1>14. PartParses(CallAt(n)) <=>
         /\ PartAt(n) = "INIT_SEG_VALUE" => ParsesInt32(tokens[n].value)
         /\ PartAt(n) = "INIT_SEG_DUP" =>
              /\ ParsesSize(tokens[n].value)
              /\ tokens[n + 3].type = "TOKEN_NUMBER" => ParsesInt32(tokens[n + 3].value)
  BY <1>13 DEF PartParses
<1>15. CASE TypeAt(n) = "TOKEN_NUMBER" /\ TypeAt(n + 1) = "TOKEN_DUP"
  <2>1. PartAt(n) = "INIT_SEG_DUP" /\ ~question /\ ~text /\ ~number
    BY <1>3, <1>4, <1>5, <1>15 DEF PartAt, Separators
  <2> QED
    BY <1>6, <1>7, <1>11, <1>12, <1>14, <1>15, <2>1, KindsOfParts DEF p
<1>16. CASE TypeAt(n) = "TOKEN_NUMBER" /\ TypeAt(n + 1) # "TOKEN_DUP"
  <2>1. PartAt(n) = "INIT_SEG_VALUE" /\ ~question /\ ~text /\ ~some /\ ~none
    BY <1>4, <1>5, <1>6, <1>7, <1>16 DEF PartAt
  <2> QED
    BY <1>3, <1>12, <1>14, <1>16, <2>1, KindsOfParts DEF p
<1>17. CASE TypeAt(n) = "TOKEN_QUESTION"
  <2>1. PartAt(n) = "INIT_SEG_UNINIT" /\ ~number /\ ~text /\ ~some /\ ~none
    BY <1>3, <1>5, <1>6, <1>7, <1>17 DEF PartAt
  <2> QED
    BY <1>4, <1>12, <1>14, <1>17, <2>1, KindsOfParts DEF p
<1>18. CASE TypeAt(n) = "TOKEN_STRING"
  <2>1. ~number /\ ~question /\ ~some /\ ~none
    BY <1>3, <1>4, <1>6, <1>7, <1>18
  <2>2. PartAt(n) = IF is_dw THEN "INIT_SEG_NONE" ELSE "INIT_SEG_STRING"
    BY <1>18 DEF PartAt
  <2> QED
    BY <1>5, <1>12, <1>14, <1>18, <2>1, <2>2, KindsOfParts DEF p
<1>19. CASE TypeAt(n) \notin {"TOKEN_NUMBER", "TOKEN_QUESTION", "TOKEN_STRING"}
  <2>1. PartAt(n) = "INIT_SEG_NONE" /\ ~number /\ ~question /\ ~text /\ ~some /\ ~none
    BY <1>3, <1>4, <1>5, <1>6, <1>7, <1>19 DEF PartAt
  <2> QED
    BY <1>12, <2>1, KindsOfParts DEF p
<1> QED
  BY <1>15, <1>16, <1>17, <1>18, <1>19

\* A part that is formed ends where the descent looks for a separator.
LEMMA EndOfFormed ==
  ASSUME tokens \in Declarations, NEW n, Formed(n), NEW end \in {n + 1, n + 5},
         ReadUpTo(n, end), TypeAt(end) \in Separators
  PROVE  n \in 2..Len(tokens) /\ EndOf(n) = end
<1>1. n \in 2..Len(tokens) /\ n \in 1..Len(tokens) /\ Len(tokens) \in Nat
  BY OnTheLine DEF Formed
<1>2. CASE end = n + 1
  <2>1. PartAt(n) \in {"INIT_SEG_VALUE", "INIT_SEG_UNINIT", "INIT_SEG_STRING"}
    <3>1. n + 1 # n + 5
      BY <1>1
    <3> QED
      BY <1>2, <3>1 DEF ReadUpTo
  <2>2. TypeAt(n) \in {"TOKEN_NUMBER", "TOKEN_QUESTION", "TOKEN_STRING"}
    BY <1>1, <2>1, KindTells
  <2>3. HasForm(Part(n), <<TypeAt(n)>>) => EndOf(n) = n + 1
    BY <1>1, <2>2, OneTokenForm DEF Separators
  <2>4. HasForm(Part(n), <<TypeAt(n)>>)
    BY <1>1, <1>2, <2>2, OneTokenForm DEF Separators
  <2> QED
    BY <1>1, <1>2, <2>3, <2>4
<1>3. CASE end = n + 5
  <2>1. /\ PartAt(n) = "INIT_SEG_DUP" /\ TypeAt(n + 2) = "TOKEN_LPAREN"
        /\ TypeAt(n + 4) = "TOKEN_RPAREN" /\ TypeAt(n + 3) \in {"TOKEN_NUMBER", "TOKEN_QUESTION"}
    <3>1. n + 1 # n + 5
      BY <1>1
    <3> QED
      BY <1>3, <3>1 DEF ReadUpTo
  <2>2. TypeAt(n) = "TOKEN_NUMBER" /\ TypeAt(n + 1) = "TOKEN_DUP"
    BY <1>1, <2>1, KindTells
  <2>3. TypeAt(n + 3) \notin Separators
    BY <2>1 DEF Separators
  <2>4. HasForm(Part(n), DupOf(TypeAt(n + 3)))
    BY <1>1, <1>3, <2>1, <2>2, <2>3, DupForm
  <2> QED
    BY <1>1, <1>3, <2>3, <2>4, DupForm
<1> QED
  BY <1>2, <1>3

-----------------------------------------------------------------------------
(* The bytes of a part.                                                    *)

\* The place in a copy of the k-th byte of copies.
LEMMA PlaceInCopy ==
  ASSUME NEW size \in Nat \ {0}, NEW c \in Nat, NEW k \in 1..size
  PROVE  (c * size + k - 1) % size = k - 1
<1>1. PICK n \in Int : n = c * size + k - 1
  OBVIOUS
<1>2. n = size * c + (k - 1) /\ k - 1 \in 0..(size - 1) /\ c \in Int
  BY <1>1
<1>3. n % size = k - 1
  BY <1>2, QuotientIsUnique
<1> QED
  BY <1>1, <1>3

\* One copy more.
LEMMA OneMoreCopy ==
  ASSUME NEW S, NEW bytes \in Seq(S), Len(bytes) # 0, NEW c \in Nat, Repeat(c, bytes) \in Seq(S)
  PROVE  Repeat(c + 1, bytes) = Repeat(c, bytes) \o bytes /\ Repeat(c + 1, bytes) \in Seq(S)
<1> DEFINE size == Len(bytes)
           r == Repeat(c, bytes)
           t == Repeat(c + 1, bytes)
<1>1. size \in Nat \ {0} /\ c * size \in Nat /\ (c + 1) * size = c * size + size
  OBVIOUS
<1>2. PICK m \in Nat : m = c * size
  BY <1>1
<1>3. /\ DOMAIN r = 1..m /\ \A k \in 1..m : r[k] = bytes[1 + ((k - 1) % size)]
      /\ t = [k \in 1..(m + size) |-> bytes[1 + ((k - 1) % size)]]
  BY <1>1, <1>2 DEF Repeat
<1>4. \A k \in 1..size : bytes[k] \in S
  OBVIOUS
<1>5. Len(r) = m
  <2> HIDE DEF r
  <2> QED
    BY <1>3
<1> HIDE DEF r, t, size
<1>6. r \o bytes \in Seq(S) /\ Len(r \o bytes) = m + size
  BY <1>5 DEF size, r
<1>7. \A k \in 1..m : (r \o bytes)[k] = r[k]
  BY <1>5, <1>1, <1>2 DEF r, size
<1>8. \A k \in 1..size : (r \o bytes)[m + k] = bytes[k]
  BY <1>5, <1>1, <1>2 DEF r, size
<1>9. ASSUME NEW k \in 1..(m + size)
      PROVE  t[k] = (r \o bytes)[k]
  <2>1. CASE k \in 1..m
    BY <1>3, <1>7, <2>1
  <2>2. CASE k \notin 1..m
    <3>1. PICK j \in 1..size : k = m + j
      <4>1. PICK j \in Int : j = k - m
        BY <1>2
      <4> QED
        BY <1>1, <1>2, <1>9, <2>2, <4>1
    <3>2. (m + j - 1) % size = j - 1
      BY <1>1, <1>2, PlaceInCopy
    <3>3. t[k] = bytes[1 + ((k - 1) % size)]
      BY <1>3
    <3>4. k - 1 = m + j - 1 /\ 1 + (j - 1) = j
      BY <1>2, <3>1
    <3>5. t[k] = bytes[j]
      BY <3>2, <3>3, <3>4
    <3> QED
      BY <1>8, <3>1, <3>5
  <2> QED
    BY <2>1, <2>2
<1>10. t = [k \in 1..(m + size) |-> t[k]] /\ DOMAIN t = 1..(m + size)
  BY <1>3
<1>11. r \o bytes = [k \in 1..(m + size) |-> (r \o bytes)[k]]
  <2>1. PICK u \in Seq(S) : u = r \o bytes /\ Len(u) = m + size
    BY <1>6
  <2>2. u = [k \in 1..Len(u) |-> u[k]]
    OBVIOUS
  <2> QED
    BY <2>1, <2>2, Zenon
<1>12. t = r \o bytes
  BY <1>9, <1>10, <1>11
<1> QED
  BY <1>6, <1>12 DEF r, t

\* Copies one after the other are what Repeat makes.
LEMMA CopiesFlattened ==
  ASSUME NEW S, NEW bytes \in Seq(S), Len(bytes) # 0, NEW count \in Nat
  PROVE  /\ Repeat(count, bytes) \in Seq(S)
         /\ FlattenSeq([n \in 1..count |-> bytes]) = Repeat(count, bytes)
<1> DEFINE copies == [n \in 1..count |-> bytes]
<1>1. Repeat(0, bytes) = << >>
  BY DEF Repeat
<1>2. copies \in Seq(Seq(S)) /\ Len(copies) = count /\ \A n \in 1..count : copies[n] = bytes
  OBVIOUS
<1> HIDE DEF copies
<1>3. CASE count = 0
  <2>1. copies = << >>
    BY <1>2, <1>3
  <2>2. FlattenSeq(copies) = copies
    BY <1>2, <1>3 DEF FlattenSeq
  <2>3. FlattenSeq(copies) = Repeat(count, bytes)
    BY <1>1, <1>3, <2>1, <2>2
  <2>4. Repeat(count, bytes) \in Seq(S)
    <3>1. << >> \in Seq(S)
      OBVIOUS
    <3> QED
      BY <1>1, <1>3, <3>1
  <2> QED
    BY <2>3, <2>4 DEF copies
<1>4. CASE count # 0
  <2>1. /\ Flat(copies)[1] = bytes
        /\ \A k \in 1..(count - 1) : Flat(copies)[k + 1] = Flat(copies)[k] \o bytes
        /\ FlattenSeq(copies) = Flat(copies)[count]
    <3>1. /\ Flat(copies)[1] = copies[1]
          /\ \A k \in 1..(Len(copies) - 1) : Flat(copies)[k + 1] = Flat(copies)[k] \o copies[k + 1]
          /\ FlattenSeq(copies) = Flat(copies)[Len(copies)]
      BY <1>2, <1>4, FlatRecursion
    <3>2. \A k \in 1..(count - 1) : k + 1 \in 1..count
      OBVIOUS
    <3>3. 1 \in 1..count
      BY <1>4
    <3> QED
      BY <1>2, <3>1, <3>2, <3>3
  <2> DEFINE Right(c) == Flat(copies)[c] = Repeat(c, bytes) /\ Repeat(c, bytes) \in Seq(S)
             T == {c \in 1..count : ~Right(c)}
  <2>2. ASSUME T # {}
        PROVE  FALSE
    <3>1. PICK c \in T : \A d \in T : c <= d
      <4>1. T \subseteq Nat
        OBVIOUS
      <4> HIDE DEF T
      <4> QED
        BY <2>2, <4>1, LeastNatural
    <3>2. CASE c = 1
      <4>1. << >> \in Seq(S) /\ << >> \o bytes = bytes /\ 0 \in Nat /\ 0 + 1 = 1
        OBVIOUS
      <4>2. Repeat(1, bytes) = bytes /\ Repeat(1, bytes) \in Seq(S)
        BY <1>1, <4>1, OneMoreCopy
      <4> QED
        BY <2>1, <3>1, <3>2, <4>2
    <3>3. CASE c # 1
      <4>1. PICK d \in 1..(count - 1) : c = d + 1
        BY <3>1, <3>3
      <4>2. d \notin T /\ d \in 1..count /\ d \in Nat
        BY <3>1, <4>1
      <4>3. Right(d)
        BY <4>2
      <4>4. Repeat(d + 1, bytes) = Repeat(d, bytes) \o bytes /\ Repeat(d + 1, bytes) \in Seq(S)
        BY <4>2, <4>3, OneMoreCopy
      <4>5. Flat(copies)[d + 1] = Flat(copies)[d] \o bytes
        BY <2>1
      <4>6. Right(c)
        BY <4>1, <4>3, <4>4, <4>5
      <4> QED
        BY <3>1, <4>6
    <3> QED
      BY <3>2, <3>3
  <2>3. Right(count)
    BY <1>4, <2>2
  <2> QED
    BY <2>1, <2>3 DEF copies
<1> QED
  BY <1>3, <1>4

\* A number divided by one.
LEMMA DividedByOne ==
  ASSUME NEW v \in Int
  PROVE  v \div 1 = v
OBVIOUS

\* The bytes of a value are those of its place values.
LEMMA ElementIsMeant ==
  ASSUME NEW token, NEW v \in Int, v = IF token.type = "TOKEN_NUMBER" THEN token.value ELSE 0
  PROVE  /\ Element(v) = ElementBytes(token) /\ Element(v) \in Seq(Nat)
         /\ Len(Element(v)) = ElementSize
<1>1. ByteBase \in Nat \ {0}
  BY ByteBaseAssumption
<1>2. PICK b2, b3 \in Nat \ {0} : b2 = ByteBase * ByteBase /\ b3 = ByteBase * ByteBase * ByteBase
  BY <1>1
<1>3. \A x \in Int : x % ByteBase \in Nat
  BY <1>1
<1>4. v \div ByteBase \in Int /\ v \div b2 \in Int /\ v \div b3 \in Int /\ v \div 1 = v
  BY <1>1, <1>2
<1>5. PlaceValues = <<1, ByteBase, b2, b3>>
  BY <1>2 DEF PlaceValues
<1>6. cdsg_app_imm(v) = <<v % ByteBase, (v \div ByteBase) % ByteBase, (v \div b2) % ByteBase,
                          (v \div b3) % ByteBase>>
  BY <1>2 DEF cdsg_app_imm
<1>7. CASE is_dw
  <2>1. ElementBytes(token) = [b \in 1..4 |-> (v \div PlaceValues[b]) % ByteBase]
    BY <1>7 DEF ElementBytes, is_dw
  <2>2. /\ (v \div PlaceValues[1]) % ByteBase = v % ByteBase
        /\ (v \div PlaceValues[2]) % ByteBase = (v \div ByteBase) % ByteBase
        /\ (v \div PlaceValues[3]) % ByteBase = (v \div b2) % ByteBase
        /\ (v \div PlaceValues[4]) % ByteBase = (v \div b3) % ByteBase
    BY <1>4, <1>5
  <2>3. PICK w1, w2, w3, w4 \in Nat : /\ w1 = v % ByteBase /\ w2 = (v \div ByteBase) % ByteBase
                                 /\ w3 = (v \div b2) % ByteBase /\ w4 = (v \div b3) % ByteBase
    BY <1>3, <1>4
  <2>4. cdsg_app_imm(v) = <<w1, w2, w3, w4>>
    BY <1>6, <2>3
  <2>5. \A b \in 1..4 : b \in {1, 2, 3, 4}
    OBVIOUS
  <2>6. \A b \in 1..4 : (v \div PlaceValues[b]) % ByteBase = <<w1, w2, w3, w4>>[b]
    BY <2>2, <2>3, <2>5
  <2>7. ElementBytes(token) = <<w1, w2, w3, w4>>
    BY <2>1, <2>6
  <2>8. Element(v) = <<w1, w2, w3, w4>> /\ ElementSize = 4
    BY <1>7, <2>4 DEF Element, ElementSize
  <2>9. <<w1, w2, w3, w4>> \in Seq(Nat) /\ Len(<<w1, w2, w3, w4>>) = 4
    BY <2>3
  <2> QED
    BY <2>7, <2>8, <2>9, Zenon
<1>8. CASE ~is_dw
  <2>1. ElementBytes(token) = [b \in 1..1 |-> (v \div PlaceValues[b]) % ByteBase]
    BY <1>8 DEF ElementBytes, is_dw
  <2>2. (v \div PlaceValues[1]) % ByteBase = v % ByteBase
    BY <1>4, <1>5
  <2>3. PICK w \in Nat : w = v % ByteBase
    BY <1>3
  <2>4. ElementBytes(token) = <<w>>
    BY <2>1, <2>2, <2>3
  <2>5. Element(v) = <<w>> /\ ElementSize = 1
    BY <1>8, <2>3 DEF Element, ElementSize
  <2>6. <<w>> \in Seq(Nat) /\ Len(<<w>>) = 1
    BY <2>3
  <2> QED
    BY <2>4, <2>5, <2>6, Zenon
<1> QED
  BY <1>7, <1>8

-----------------------------------------------------------------------------
\* What pass 2 appends for a part that was filled is what the part means.
LEMMA PartIsWritten ==
  ASSUME tokens \in Declarations, tokens[1].type = "TOKEN_DATA_TYPE", NEW n, Formed(n),
         PartParses(CallAt(n)), NEW segment, segment = FilledSegment(CallAt(n))
  PROVE  /\ BytesOf(segment) = PartBytes(Part(n))
         /\ BytesOf(segment) \in Seq(Nat)
         /\ segment.element_count \in Nat
         /\ Len(BytesOf(segment)) = segment.element_count * ElementSize
         /\ segment.is_uninit \in BOOLEAN
         /\ segment.is_uninit <=> \E k \in DOMAIN Part(n) : Part(n)[k].type = "TOKEN_QUESTION"
<1>1. /\ Len(tokens) \in Nat /\ DOMAIN tokens = 1..Len(tokens)
      /\ n \in 1..Len(tokens) /\ n \in 2..Len(tokens) /\ n \in DOMAIN tokens
      /\ TypeAt(n) = tokens[n].type /\ IsToken(tokens[n])
  BY OnTheLine, DeclarationAssumption DEF Formed, TypeAt
<1>2. CallAt(n).kind = PartAt(n) /\ CallAt(n).at = n
  BY DEF CallAt
<1>3. PICK p : p = Part(n)
  OBVIOUS
<1>4. ASSUME NEW type \in {"TOKEN_NUMBER", "TOKEN_QUESTION", "TOKEN_STRING"},
             TypeAt(n) = type, TypeAt(n + 1) \in Separators
      PROVE  /\ HasForm(p, <<type>>) /\ DOMAIN p = 1..1 /\ Len(p) = 1 /\ p[1] = tokens[n]
             /\ HasForm(p, <<"TOKEN_STRING">>) <=> type = "TOKEN_STRING"
  <2>1. type \notin Separators
    BY DEF Separators
  <2>2. HasForm(p, <<type>>) /\ DOMAIN p = 1..1 /\ Len(p) = 1 /\ p[1] = tokens[n]
    BY <1>1, <1>3, <1>4, <2>1, OneTokenForm
  <2>3. HasForm(p, <<"TOKEN_STRING">>) <=>
          TypeAt(n) = "TOKEN_STRING" /\ TypeAt(n + 1) \in Separators
    BY <1>1, <1>3, OneTokenForm DEF Separators
  <2> QED
    BY <1>4, <2>2, <2>3
<1>5. CASE PartAt(n) \in {"INIT_SEG_VALUE", "INIT_SEG_UNINIT"}
  <2>1. TypeAt(n + 1) \in Separators
    BY <1>1, <1>5, KindsOfParts
  <2>2. /\ PartAt(n) = "INIT_SEG_VALUE" => TypeAt(n) = "TOKEN_NUMBER"
        /\ PartAt(n) = "INIT_SEG_UNINIT" => TypeAt(n) = "TOKEN_QUESTION"
    BY DEF PartAt
  <2>3. /\ DOMAIN p = 1..1 /\ Len(p) = 1 /\ p[1] = tokens[n]
        /\ ~HasForm(p, <<"TOKEN_STRING">>)
    <3>1. CASE PartAt(n) = "INIT_SEG_VALUE"
      BY <1>4, <2>1, <2>2, <3>1
    <3>2. CASE PartAt(n) = "INIT_SEG_UNINIT"
      BY <1>4, <2>1, <2>2, <3>2
    <3> QED
      BY <1>5, <3>1, <3>2
  <2>4. PICK v \in Int : v = IF tokens[n].type = "TOKEN_NUMBER" THEN tokens[n].value ELSE 0
    BY <1>1 DEF IsToken
  <2> DEFINE uninit == PartAt(n) = "INIT_SEG_UNINIT"
  <2>5. segment = [type |-> PartAt(n), element_count |-> 1, is_uninit |-> uninit, value |-> v]
    <3>1. CASE PartAt(n) = "INIT_SEG_VALUE"
      BY <1>1, <1>2, <2>2, <2>4, <3>1 DEF FilledSegment
    <3>2. CASE PartAt(n) = "INIT_SEG_UNINIT"
      BY <1>1, <1>2, <2>2, <2>4, <3>2 DEF FilledSegment
    <3> QED
      BY <1>5, <3>1, <3>2
  <2>6. /\ segment.type # "INIT_SEG_STRING" /\ segment.element_count = 1
        /\ (segment.is_uninit <=> PartAt(n) = "INIT_SEG_UNINIT") /\ segment.value = v
        /\ segment.is_uninit \in BOOLEAN
    <3>1. PartAt(n) # "INIT_SEG_STRING"
      BY <1>5
    <3>2. PICK u : u = uninit /\ u \in BOOLEAN
      OBVIOUS
    <3>3. segment = [type |-> PartAt(n), element_count |-> 1, is_uninit |-> u, value |-> v]
      BY <2>5, <3>2, Zenon
    <3>4. segment.is_uninit = u
      BY <3>3
    <3> HIDE DEF uninit
    <3>5. segment.is_uninit = uninit /\ segment.is_uninit \in BOOLEAN
      BY <3>2, <3>4, Zenon
    <3>6. /\ segment.type # "INIT_SEG_STRING" /\ segment.element_count = 1
          /\ segment.value = v
      BY <3>1, <3>3
    <3> QED
      BY <3>5, <3>6, Zenon DEF uninit
  <2>7. /\ Element(v) = ElementBytes(tokens[n]) /\ Element(v) \in Seq(Nat)
        /\ Len(Element(v)) = ElementSize
    BY <2>4, ElementIsMeant
  <2>8. Repeat(1, Element(v)) = Element(v)
    <3>1. PICK e \in Seq(Nat) : e = Element(v)
      BY <2>7
    <3>2. Len(e) # 0 => Repeat(1, e) = e
      <4>1. Repeat(0, e) = << >> /\ << >> \in Seq(Nat) /\ << >> \o e = e /\ 0 + 1 = 1 /\ 0 \in Nat
        BY DEF Repeat
      <4> QED
        BY <4>1, OneMoreCopy
    <3>3. Len(Element(v)) # 0
      BY <2>7 DEF ElementSize
    <3> QED
      BY <3>1, <3>2, <3>3
  <2>9. BytesOf(segment) = Element(v)
    BY <2>6, <2>8 DEF BytesOf
  <2>10. PartBytes(Part(n)) = ElementBytes(tokens[n])
    BY <1>3, <2>3 DEF PartBytes
  <2>11. ElementSize \in Nat /\ 1 * ElementSize = ElementSize
    BY DEF ElementSize
  <2>12. (\E k \in DOMAIN Part(n) : Part(n)[k].type = "TOKEN_QUESTION") <=> segment.is_uninit
    <3>1. (\E k \in 1..1 : p[k].type = "TOKEN_QUESTION") <=> tokens[n].type = "TOKEN_QUESTION"
      BY <2>3
    <3>2. tokens[n].type = "TOKEN_QUESTION" <=> PartAt(n) = "INIT_SEG_UNINIT"
      BY <1>1, <1>5, <2>2
    <3> QED
      BY <1>3, <2>3, <2>6, <3>1, <3>2
  <2> QED
    BY <2>6, <2>7, <2>9, <2>10, <2>11, <2>12
<1>6. CASE PartAt(n) = "INIT_SEG_STRING"
  <2>1. TypeAt(n + 1) \in Separators
    BY <1>1, <1>6, KindsOfParts
  <2>2. TypeAt(n) = "TOKEN_STRING" /\ ~is_dw
    BY <1>6 DEF PartAt
  <2>3. DOMAIN p = 1..1 /\ p[1] = tokens[n] /\ HasForm(p, <<"TOKEN_STRING">>)
    BY <1>4, <2>1, <2>2
  <2>4. PICK text \in Seq(Nat) : text = tokens[n].value
    BY <1>1, <2>2 DEF IsToken
  <2>5. segment = [type |-> "INIT_SEG_STRING", element_count |-> Len(text),
                   is_uninit |-> FALSE, value |-> text]
    BY <1>2, <1>6, <2>4 DEF FilledSegment
  <2>6. /\ segment.type = "INIT_SEG_STRING" /\ segment.element_count = Len(text)
        /\ segment.is_uninit = FALSE /\ segment.value = text
    BY <2>5
  <2>7. BytesOf(segment) = text
    BY <2>6 DEF BytesOf
  <2>8. PartBytes(Part(n)) = text
    BY <1>3, <2>3, <2>4 DEF PartBytes
  <2>9. ElementSize = 1 /\ Len(text) \in Nat /\ Len(text) * 1 = Len(text)
    BY <2>2 DEF ElementSize
  <2>10. ~\E k \in DOMAIN Part(n) : Part(n)[k].type = "TOKEN_QUESTION"
    <3>1. p[1].type # "TOKEN_QUESTION"
      BY <1>1, <2>2, <2>3
    <3>2. \A k \in 1..1 : k = 1
      OBVIOUS
    <3> QED
      BY <1>3, <2>3, <3>1, <3>2
  <2> QED
    BY <2>6, <2>7, <2>8, <2>9, <2>10
<1>7. CASE PartAt(n) = "INIT_SEG_DUP"
  <2>1. /\ TypeAt(n) = "TOKEN_NUMBER" /\ TypeAt(n + 1) = "TOKEN_DUP"
        /\ TypeAt(n + 2) = "TOKEN_LPAREN" /\ TypeAt(n + 4) = "TOKEN_RPAREN"
        /\ TypeAt(n + 3) \in {"TOKEN_NUMBER", "TOKEN_QUESTION"} /\ TypeAt(n + 5) \in Separators
    BY <1>1, <1>7, KindsOfParts, KindTells
  <2>2. PICK type \in {"TOKEN_NUMBER", "TOKEN_QUESTION"} : type = TypeAt(n + 3)
    BY <2>1
  <2>3. type \notin Separators
    BY DEF Separators
  <2>4. HasForm(p, DupOf(type))
    BY <1>1, <1>3, <2>1, <2>2, <2>3, DupForm
  <2>5. DOMAIN p = 1..5 /\ Len(p) = 5 /\ \A k \in 1..5 : p[k] = tokens[n + k - 1]
    BY <1>1, <1>3, <2>3, <2>4, DupForm
  <2>6. p[1] = tokens[n] /\ p[4] = tokens[n + 3]
    <3>1. 1 \in 1..5 /\ 4 \in 1..5 /\ n + 1 - 1 = n /\ n + 4 - 1 = n + 3
      BY <1>1
    <3> QED
      BY <2>5, <3>1
  <2>7. ~HasForm(p, <<"TOKEN_STRING">>)
    BY <1>1, <1>3, <2>1, OneTokenForm DEF Separators
  <2>8. n + 3 \in DOMAIN tokens /\ tokens[n + 3].type = type /\ IsToken(tokens[n + 3])
    BY <1>1, <2>2, DeclarationAssumption DEF TypeAt
  <2>9. PICK v \in Int : v = IF tokens[n + 3].type = "TOKEN_NUMBER" THEN tokens[n + 3].value ELSE 0
    BY <2>8 DEF IsToken
  <2>10. PICK count \in Nat : count = Size(tokens[n].value)
    <3>1. tokens[n].value \in Int
      BY <1>1, <2>1 DEF IsToken
    <3>2. SizeMax \in Nat
      BY SegmentAssumption
    <3> QED
      BY <3>1, <3>2 DEF Size
  <2> DEFINE uninit == type = "TOKEN_QUESTION"
  <2>11. segment = [type |-> "INIT_SEG_DUP", element_count |-> count, is_uninit |-> uninit,
                    value |-> v]
    <3>1. CASE type = "TOKEN_QUESTION"
      BY <1>2, <1>7, <2>8, <2>9, <2>10, <3>1 DEF FilledSegment
    <3>2. CASE type = "TOKEN_NUMBER"
      BY <1>2, <1>7, <2>8, <2>9, <2>10, <3>2 DEF FilledSegment
    <3> QED
      BY <3>1, <3>2
  <2>12. /\ segment.type = "INIT_SEG_DUP" /\ segment.element_count = count
         /\ (segment.is_uninit <=> type = "TOKEN_QUESTION") /\ segment.value = v
         /\ segment.is_uninit \in BOOLEAN
    <3>1. PICK u : u = uninit /\ u \in BOOLEAN
      OBVIOUS
    <3>2. segment = [type |-> "INIT_SEG_DUP", element_count |-> count, is_uninit |-> u,
                     value |-> v]
      BY <2>11, <3>1, Zenon
    <3>3. segment.is_uninit = u
      BY <3>2
    <3> HIDE DEF uninit
    <3>4. segment.is_uninit = uninit /\ segment.is_uninit \in BOOLEAN
      BY <3>1, <3>3, Zenon
    <3>5. /\ segment.type = "INIT_SEG_DUP" /\ segment.element_count = count
          /\ segment.value = v
      BY <3>2
    <3> QED
      BY <3>4, <3>5, Zenon DEF uninit
  <2>13. /\ Element(v) = ElementBytes(tokens[n + 3]) /\ Element(v) \in Seq(Nat)
         /\ Len(Element(v)) = ElementSize
    BY <2>9, ElementIsMeant
  <2>14. PICK e \in Seq(Nat) : e = Element(v)
    BY <2>13
  <2>15. Len(e) # 0 /\ Len(e) = ElementSize
    BY <2>13, <2>14 DEF ElementSize
  <2>16. Repeat(count, e) \in Seq(Nat) /\ FlattenSeq([k \in 1..count |-> e]) = Repeat(count, e)
    BY <2>15, CopiesFlattened
  <2>17. BytesOf(segment) = Repeat(count, e)
    BY <2>12, <2>14 DEF BytesOf
  <2>18. PartBytes(Part(n)) = Repeat(count, e)
    <3>1. PartBytes(p) = FlattenSeq([k \in 1..Size(p[1].value) |-> ElementBytes(p[4])])
      BY <2>5, <2>7 DEF PartBytes
    <3> QED
      BY <1>3, <2>6, <2>10, <2>13, <2>14, <2>16, <3>1
  <2>19. Len(Repeat(count, e)) = count * ElementSize
    <3>1. PICK m \in Nat : m = count * Len(e)
      OBVIOUS
    <3>2. DOMAIN Repeat(count, e) = 1..m
      BY <3>1 DEF Repeat
    <3>3. Len(Repeat(count, e)) = m
      BY <2>16, <3>2
    <3> QED
      BY <2>15, <3>1, <3>3
  <2>20. (\E k \in DOMAIN Part(n) : Part(n)[k].type = "TOKEN_QUESTION") <=>
           type = "TOKEN_QUESTION"
    <3>1. ASSUME NEW k \in 1..5, p[k].type = "TOKEN_QUESTION"
          PROVE  type = "TOKEN_QUESTION"
      <4>1. k \in {1, 2, 3, 4, 5}
        OBVIOUS
      <4>2. n + k - 1 \in DOMAIN tokens
        <5>1. n + 4 \in DOMAIN tokens
          BY <2>1 DEF TypeAt
        <5> QED
          BY <1>1, <5>1
      <4>3. TypeAt(n + k - 1) = "TOKEN_QUESTION"
        BY <2>5, <3>1, <4>2 DEF TypeAt
      <4>4. /\ n + 1 - 1 = n /\ n + 2 - 1 = n + 1 /\ n + 3 - 1 = n + 2 /\ n + 4 - 1 = n + 3
            /\ n + 5 - 1 = n + 4
        BY <1>1
      <4>5. k = 4
        BY <2>1, <4>1, <4>3, <4>4
      <4> QED
        BY <2>2, <4>3, <4>4, <4>5
    <3>2. 4 \in 1..5
      OBVIOUS
    <3> QED
      BY <1>3, <2>5, <2>6, <2>8, <3>1, <3>2
  <2> QED
    BY <2>12, <2>16, <2>17, <2>18, <2>19, <2>20
<1> QED
  BY <1>1, <1>5, <1>6, <1>7, KindsOfParts

-----------------------------------------------------------------------------
(* Going from part to part.                                                *)

\* Between a part and the next separator no other part begins; behind a comma
\* the next one does.
LEMMA NextFirst ==
  ASSUME tokens \in Declarations, NEW n \in 2..Len(tokens), NEW e, e = EndOf(n)
  PROVE  /\ e \in n..Len(tokens)
         /\ \A m \in (n + 1)..e : m \notin Firsts
         /\ e # Len(tokens) => e + 1 \in Firsts
<1>1. /\ e \in n..Len(tokens) /\ n \in 1..Len(tokens) /\ Len(tokens) \in Nat
      /\ TypeAt(e) \in Separators /\ DOMAIN tokens = 1..Len(tokens)
      /\ \A m \in n..(e - 1) : TypeAt(m) \notin Separators
  BY NextSeparator, OnTheLine
<1>2. ASSUME NEW m \in (n + 1)..e, m \in Firsts
      PROVE  FALSE
  <2>1. m - 1 \in n..(e - 1) /\ m # 2 /\ m - 1 \in DOMAIN tokens
    BY <1>1
  <2>2. tokens[m - 1].type = "TOKEN_COMMA"
    BY <1>2, <2>1 DEF Firsts
  <2> QED
    BY <1>1, <2>1, <2>2 DEF TypeAt, Separators
<1>3. ASSUME e # Len(tokens)
      PROVE  e + 1 \in Firsts
  <2>1. e \in DOMAIN tokens /\ e + 1 \in 2..Len(tokens) /\ e + 1 - 1 = e
    BY <1>1, <1>3
  <2>2. tokens[e].type # "TOKEN_EOF"
    BY <1>3, <2>1, DeclarationAssumption
  <2>3. tokens[e].type = "TOKEN_COMMA"
    BY <1>1, <2>1, <2>2 DEF TypeAt, Separators
  <2> QED
    BY <2>1, <2>3 DEF Firsts
<1> QED
  BY <1>1, <1>2, <1>3

\* Where PartStart is on the line, a part begins.
LEMMA StartsAreFirsts ==
  ASSUME tokens \in Declarations, NEW k \in 1..(Len(tokens) + 1), PartStart[k] <= Len(tokens)
  PROVE  PartStart[k] \in Firsts /\ PartStart[k] \in 2..Len(tokens)
<1>1. Len(tokens) \in Nat
  BY OnTheLine
<1>2. /\ PartStart \in [1..(Len(tokens) + 1) -> Nat] /\ PartStart[1] = 2
      /\ \A l \in 1..Len(tokens) :
           PartStart[l + 1] = IF PartStart[l] > Len(tokens) THEN PartStart[l]
                              ELSE EndOf(PartStart[l]) + 1
      /\ \A l \in 1..(Len(tokens) + 1) : PartStart[l] >= 2
  BY PartStartRecursion
<1>3. PartStart[k] \in 2..Len(tokens)
  BY <1>1, <1>2
<1>4. CASE k = 1
  BY <1>2, <1>3, <1>4 DEF Firsts
<1>5. CASE k # 1
  <2>1. PICK l \in 1..Len(tokens) : k = l + 1
    BY <1>1, <1>5
  <2>2. PICK n \in Nat : n = PartStart[l] /\ n >= 2
    BY <1>1, <1>2, <2>1
  <2>3. ~(n > Len(tokens)) /\ PartStart[k] = EndOf(n) + 1
    BY <1>1, <1>2, <1>3, <2>1, <2>2
  <2>4. n \in 2..Len(tokens)
    BY <1>1, <2>2, <2>3
  <2>5. PICK e \in n..Len(tokens) : e = EndOf(n)
    BY <2>4, NextFirst
  <2>6. e # Len(tokens)
    BY <1>1, <1>3, <2>3, <2>5
  <2> QED
    BY <1>3, <2>3, <2>4, <2>5, <2>6, NextFirst
<1> QED
  BY <1>4, <1>5

\* Every part takes a token at least: there are not more parts than tokens.
LEMMA StartsAdvance ==
  ASSUME tokens \in Declarations, NEW k \in 1..(Len(tokens) + 1), PartStart[k] <= Len(tokens)
  PROVE  k + 1 <= PartStart[k]
<1> DEFINE T == {l \in 1..(Len(tokens) + 1) : PartStart[l] <= Len(tokens) /\ l + 1 > PartStart[l]}
<1>1. Len(tokens) \in Nat
  BY OnTheLine
<1>2. /\ PartStart \in [1..(Len(tokens) + 1) -> Nat] /\ PartStart[1] = 2
      /\ \A l \in 1..Len(tokens) :
           PartStart[l + 1] = IF PartStart[l] > Len(tokens) THEN PartStart[l]
                              ELSE EndOf(PartStart[l]) + 1
      /\ \A l \in 1..(Len(tokens) + 1) : PartStart[l] >= 2
  BY PartStartRecursion
<1>3. ASSUME T # {}
      PROVE  FALSE
  <2>1. PICK m \in T : \A l \in T : m <= l
    <3>1. T \subseteq Nat
      BY <1>1
    <3> HIDE DEF T
    <3> QED
      BY <1>3, <3>1, LeastNatural
  <2>2. m \in 1..(Len(tokens) + 1) /\ PartStart[m] <= Len(tokens) /\ m + 1 > PartStart[m]
    BY <2>1
  <2>3. m # 1
    BY <1>2, <2>2
  <2>4. PICK l \in 1..Len(tokens) : m = l + 1
    BY <1>1, <2>2, <2>3
  <2>5. PICK n \in Nat : n = PartStart[l] /\ n >= 2
    BY <1>1, <1>2, <2>4
  <2>6. n <= Len(tokens) /\ PartStart[m] = EndOf(n) + 1
    BY <1>1, <1>2, <2>2, <2>4, <2>5
  <2>7. PICK e \in n..Len(tokens) : e = EndOf(n)
    BY <1>1, <2>5, <2>6, NextFirst
  <2>8. l \notin T /\ l \in 1..(Len(tokens) + 1)
    BY <1>1, <2>1, <2>4
  <2>9. l + 1 <= n
    BY <1>1, <2>5, <2>6, <2>8
  <2> QED
    BY <1>1, <2>2, <2>4, <2>6, <2>7, <2>9
<1>4. k \notin T /\ PartStart[k] \in Nat
  BY <1>2, <1>3
<1> QED
  BY <1>1, <1>4

\* A list of parts that goes from the first one to the end of the line has every
\* part of the line.
LEMMA NoPartIsMissed ==
  ASSUME tokens \in Declarations, NEW count \in Nat, count + 1 \in 1..(Len(tokens) + 1),
         PartStart[count + 1] = Len(tokens) + 1, NEW n \in Firsts
  PROVE  \E k \in 1..count : PartStart[k] = n
<1> DEFINE T == {l \in 1..(count + 1) : PartStart[l] > n}
<1>1. Len(tokens) \in Nat /\ n \in 2..Len(tokens)
  BY OnTheLine DEF Firsts
<1>2. /\ PartStart \in [1..(Len(tokens) + 1) -> Nat] /\ PartStart[1] = 2
      /\ \A l \in 1..Len(tokens) :
           PartStart[l + 1] = IF PartStart[l] > Len(tokens) THEN PartStart[l]
                              ELSE EndOf(PartStart[l]) + 1
      /\ \A l \in 1..(Len(tokens) + 1) : PartStart[l] >= 2
  BY PartStartRecursion
<1>3. count + 1 \in T /\ T \subseteq Nat
  BY <1>1
<1>4. PICK m \in T : \A l \in T : m <= l
  <2> HIDE DEF T
  <2> QED
    BY <1>3, LeastNatural
<1>5. m \in 1..(count + 1) /\ PartStart[m] > n
  BY <1>4
<1>6. m # 1
  BY <1>1, <1>2, <1>5
<1>7. PICK l \in 1..count : m = l + 1
  BY <1>5, <1>6
<1>8. l \in 1..(count + 1) /\ l \in 1..Len(tokens) /\ l \in 1..(Len(tokens) + 1) /\ l < m
  BY <1>1, <1>7
<1>9. PICK s \in Nat : s = PartStart[l] /\ s >= 2
  BY <1>2, <1>8
<1>10. s <= n
  BY <1>1, <1>4, <1>8, <1>9
<1>11. s \in 2..Len(tokens) /\ PartStart[m] = EndOf(s) + 1
  BY <1>1, <1>2, <1>7, <1>8, <1>9, <1>10
<1>12. PICK e \in s..Len(tokens) : e = EndOf(s)
  BY <1>11, NextFirst
<1>13. \A j \in (s + 1)..e : j \notin Firsts
  BY <1>11, <1>12, NextFirst
<1>14. n <= e
  BY <1>1, <1>5, <1>11, <1>12
<1>15. n = s
  BY <1>1, <1>10, <1>11, <1>12, <1>13, <1>14
<1> QED
  BY <1>7, <1>9, <1>15

-----------------------------------------------------------------------------
(* The bytes of a line.                                                    *)

\* When every part of the line stands for bytes, the bytes up to a token are
\* those up to the token before and, where a part begins, those of the part.
LEMMA BytesUpTo ==
  ASSUME tokens \in Declarations, \A n \in Firsts : PartBytes(Part(n)) \in Seq(Nat)
  PROVE  /\ MeaningUpTo \in [1..Len(tokens) -> Seq(Nat)]
         /\ MeaningUpTo[1] = << >>
         /\ Meaning = MeaningUpTo[Len(tokens)]
         /\ \A n \in 1..(Len(tokens) - 1) :
              /\ n + 1 \in Firsts => MeaningUpTo[n + 1] = MeaningUpTo[n] \o PartBytes(Part(n + 1))
              /\ n + 1 \notin Firsts => MeaningUpTo[n + 1] = MeaningUpTo[n]
<1>1. Len(tokens) \in Nat \ {0} /\ 1 \notin Firsts
  BY OnTheLine DEF Firsts
<1>2. ASSUME NEW n \in 1..Len(tokens)
      PROVE  (IF n \in Firsts THEN PartBytes(Part(n)) ELSE << >>) \in Seq(Nat)
  <2>1. << >> \in Seq(Nat)
    OBVIOUS
  <2> QED
    BY <2>1
<1>3. BytesAt \in Seq(Seq(Nat)) /\ Len(BytesAt) = Len(tokens)
  BY <1>1, <1>2 DEF BytesAt
<1>4. MeaningUpTo = Flat(BytesAt)
  BY DEF MeaningUpTo, Flat
<1>5. /\ Flat(BytesAt) \in [1..Len(tokens) -> Seq(Nat)] /\ Flat(BytesAt)[1] = BytesAt[1]
      /\ \A k \in 1..(Len(tokens) - 1) : Flat(BytesAt)[k + 1] = Flat(BytesAt)[k] \o BytesAt[k + 1]
      /\ FlattenSeq(BytesAt) = Flat(BytesAt)[Len(tokens)]
  <2>1. /\ Flat(BytesAt) \in [1..Len(BytesAt) -> Seq(Nat)] /\ Flat(BytesAt)[1] = BytesAt[1]
        /\ \A k \in 1..(Len(BytesAt) - 1) :
             Flat(BytesAt)[k + 1] = Flat(BytesAt)[k] \o BytesAt[k + 1]
        /\ FlattenSeq(BytesAt) = Flat(BytesAt)[Len(BytesAt)]
    <3>1. BytesAt \in Seq(Seq(Nat)) /\ Len(BytesAt) # 0
      BY <1>1, <1>3
    <3> QED
      BY <3>1, FlatRecursion
  <2> QED
    BY <1>3, <2>1, Zenon
<1>6. BytesAt[1] = << >>
  BY <1>1 DEF BytesAt
<1>7. ASSUME NEW n \in 1..(Len(tokens) - 1)
      PROVE  /\ n + 1 \in Firsts => MeaningUpTo[n + 1] = MeaningUpTo[n] \o PartBytes(Part(n + 1))
             /\ n + 1 \notin Firsts => MeaningUpTo[n + 1] = MeaningUpTo[n]
  <2>1. n + 1 \in 1..Len(tokens) /\ n \in 1..Len(tokens)
    BY <1>1
  <2>2. BytesAt[n + 1] = IF n + 1 \in Firsts THEN PartBytes(Part(n + 1)) ELSE << >>
    BY <2>1 DEF BytesAt
  <2>3. MeaningUpTo[n + 1] = MeaningUpTo[n] \o BytesAt[n + 1]
    BY <1>4, <1>5, Zenon
  <2>4. PICK u \in Seq(Nat) : u = MeaningUpTo[n]
    BY <1>4, <1>5, <2>1
  <2>5. u \o << >> = u
    BY <2>4
  <2> QED
    BY <2>2, <2>3, <2>4, <2>5, Zenon
<1> QED
  BY <1>4, <1>5, <1>6, <1>7, Zenon DEF Meaning

\* The bytes up to the end of a part are those before it and its own.
LEMMA BytesOfNextPart ==
  ASSUME tokens \in Declarations, \A n \in Firsts : PartBytes(Part(n)) \in Seq(Nat),
         NEW n \in Firsts, NEW e, e = EndOf(n)
  PROVE  /\ n - 1 \in 1..Len(tokens) /\ e \in 1..Len(tokens)
         /\ MeaningUpTo[e] = MeaningUpTo[n - 1] \o PartBytes(Part(n))
<1>1. Len(tokens) \in Nat \ {0} /\ n \in 2..Len(tokens)
  BY OnTheLine DEF Firsts
<1>2. e \in n..Len(tokens) /\ \A m \in (n + 1)..e : m \notin Firsts
  BY <1>1, NextFirst
<1>3. \A m \in 1..(Len(tokens) - 1) :
        /\ m + 1 \in Firsts => MeaningUpTo[m + 1] = MeaningUpTo[m] \o PartBytes(Part(m + 1))
        /\ m + 1 \notin Firsts => MeaningUpTo[m + 1] = MeaningUpTo[m]
  BY BytesUpTo
<1>4. MeaningUpTo[n] = MeaningUpTo[n - 1] \o PartBytes(Part(n))
  <2>1. PICK m \in 1..(Len(tokens) - 1) : m + 1 = n /\ n - 1 = m
    BY <1>1
  <2>2. m + 1 \in Firsts
    BY <2>1
  <2>3. MeaningUpTo[m + 1] = MeaningUpTo[m] \o PartBytes(Part(m + 1))
    BY <1>3, <2>2, Zenon
  <2> QED
    BY <2>1, <2>3, Zenon
<1> DEFINE T == {m \in n..e : MeaningUpTo[m] # MeaningUpTo[n]}
<1>5. ASSUME T # {}
      PROVE  FALSE
  <2>1. PICK m \in T : \A l \in T : m <= l
    <3>1. T \subseteq Nat
      BY <1>1
    <3> HIDE DEF T
    <3> QED
      BY <1>5, <3>1, LeastNatural
  <2>2. m \in n..e /\ MeaningUpTo[m] # MeaningUpTo[n] /\ m # n
    BY <2>1
  <2>3. PICK l \in 1..(Len(tokens) - 1) : l + 1 = m
    BY <1>1, <1>2, <2>2
  <2>4. l \notin T /\ l \in n..e
    BY <1>1, <1>2, <2>1, <2>2, <2>3
  <2>5. MeaningUpTo[l] = MeaningUpTo[n]
    BY <2>4
  <2>6. l + 1 \notin Firsts
    BY <1>1, <1>2, <2>2, <2>3
  <2>7. MeaningUpTo[l + 1] = MeaningUpTo[l]
    BY <1>3, <2>6, Zenon
  <2> QED
    BY <2>2, <2>3, <2>5, <2>7, Zenon
<1>6. MeaningUpTo[e] = MeaningUpTo[n]
  <2>1. e \in n..e
    BY <1>1, <1>2
  <2> QED
    BY <1>5, <2>1
<1>7. n - 1 \in 1..Len(tokens) /\ e \in 1..Len(tokens)
  BY <1>1, <1>2
<1> QED
  BY <1>4, <1>6, <1>7, Zenon

\* No part takes bytes away.
LEMMA BytesOnlyGrow ==
  ASSUME tokens \in Declarations, \A n \in Firsts : PartBytes(Part(n)) \in Seq(Nat),
         NEW m \in 1..Len(tokens)
  PROVE  Len(MeaningUpTo[m]) <= Len(Meaning)
<1>1. Len(tokens) \in Nat \ {0}
  BY OnTheLine
<1>2. /\ MeaningUpTo \in [1..Len(tokens) -> Seq(Nat)] /\ Meaning = MeaningUpTo[Len(tokens)]
      /\ \A n \in 1..(Len(tokens) - 1) :
           /\ n + 1 \in Firsts => MeaningUpTo[n + 1] = MeaningUpTo[n] \o PartBytes(Part(n + 1))
           /\ n + 1 \notin Firsts => MeaningUpTo[n + 1] = MeaningUpTo[n]
  BY BytesUpTo
<1> DEFINE T == {l \in m..Len(tokens) : Len(MeaningUpTo[l]) < Len(MeaningUpTo[m])}
<1>3. PICK size \in Nat : size = Len(MeaningUpTo[m])
  BY <1>2
<1>4. ASSUME T # {}
      PROVE  FALSE
  <2>1. PICK k \in T : \A l \in T : k <= l
    <3>1. T \subseteq Nat
      BY <1>1
    <3> HIDE DEF T
    <3> QED
      BY <1>4, <3>1, LeastNatural
  <2>2. k \in m..Len(tokens) /\ Len(MeaningUpTo[k]) < size /\ k # m
    BY <1>3, <2>1
  <2>3. PICK l \in 1..(Len(tokens) - 1) : l + 1 = k
    BY <1>1, <2>2
  <2>4. l \notin T /\ l \in m..Len(tokens) /\ l \in 1..Len(tokens)
    BY <1>1, <2>1, <2>2, <2>3
  <2>5. PICK u \in Seq(Nat) : u = MeaningUpTo[l]
    BY <1>2, <2>4
  <2>6. Len(u) \in Nat /\ Len(u) >= size
    BY <1>3, <2>4, <2>5
  <2>7. CASE l + 1 \in Firsts
    <3>1. PICK v \in Seq(Nat) : v = PartBytes(Part(l + 1))
      BY <2>7
    <3>2. MeaningUpTo[k] = u \o v
      BY <1>2, <2>3, <2>5, <2>7, <3>1, Zenon
    <3>3. Len(u \o v) = Len(u) + Len(v) /\ Len(v) \in Nat
      BY <2>5, <3>1
    <3> QED
      BY <1>3, <2>2, <2>6, <3>2, <3>3
  <2>8. CASE l + 1 \notin Firsts
    <3>1. MeaningUpTo[k] = u
      BY <1>2, <2>3, <2>5, <2>8, Zenon
    <3> QED
      BY <1>3, <2>2, <2>6, <3>1
  <2> QED
    BY <2>7, <2>8
<1>5. Len(tokens) \notin T /\ Len(tokens) \in m..Len(tokens)
  BY <1>1, <1>4
<1>6. PICK all \in Nat : all = Len(MeaningUpTo[Len(tokens)])
  BY <1>1, <1>2
<1> QED
  BY <1>2, <1>3, <1>5, <1>6

-----------------------------------------------------------------------------
(* A line whose parts are all read.                                        *)

\* A line whose parts are all read and can all be stored is a declaration, and
\* each of its parts stands for bytes.
LEMMA AllPartsRead ==
  ASSUME tokens \in Declarations, tokens[1].type = "TOKEN_DATA_TYPE",
         NEW count \in Nat, count + 1 \in 1..(Len(tokens) + 1),
         PartStart[count + 1] = Len(tokens) + 1,
         \A k \in 1..count : Formed(PartStart[k]) /\ PartParses(CallAt(PartStart[k]))
  PROVE  IsDeclaration /\ \A n \in Firsts : PartBytes(Part(n)) \in Seq(Nat)
<1>1. ASSUME NEW n \in Firsts
      PROVE  n \in 2..Len(tokens) /\ Formed(n) /\ PartParses(CallAt(n))
  <2>1. PICK k \in 1..count : PartStart[k] = n
    BY NoPartIsMissed
  <2>2. n \in 2..Len(tokens)
    BY DEF Firsts
  <2>3. Formed(PartStart[k]) /\ PartParses(CallAt(PartStart[k]))
    BY <2>1
  <2> QED
    BY <2>1, <2>2, <2>3, Zenon
<1>2. ASSUME NEW n \in Firsts
      PROVE  IsPart(Part(n)) /\ PartBytes(Part(n)) \in Seq(Nat)
  <2>1. n \in 2..Len(tokens) /\ Formed(n) /\ PartParses(CallAt(n))
    BY <1>1
  <2>2. IsPart(Part(n))
    BY <2>1, PartsAreRead
  <2>3. PICK segment : segment = FilledSegment(CallAt(n))
    OBVIOUS
  <2>4. BytesOf(segment) = PartBytes(Part(n)) /\ BytesOf(segment) \in Seq(Nat)
    BY <2>1, <2>3, PartIsWritten
  <2> QED
    BY <2>2, <2>4, Zenon
<1> QED
  BY <1>2 DEF IsDeclaration

\* A part that is not one of the forms, or that cannot be stored, makes a line
\* no declaration.
LEMMA OnePartFails ==
  ASSUME tokens \in Declarations, tokens[1].type = "TOKEN_DATA_TYPE",
         NEW k \in 1..(Len(tokens) + 1), PartStart[k] <= Len(tokens),
         ~(Formed(PartStart[k]) /\ PartParses(CallAt(PartStart[k])))
  PROVE  ~IsDeclaration
<1>1. PICK n : n = PartStart[k]
  OBVIOUS
<1>2. n \in Firsts /\ n \in 2..Len(tokens)
  <2>1. PartStart[k] \in Firsts /\ PartStart[k] \in 2..Len(tokens)
    BY StartsAreFirsts
  <2> QED
    BY <1>1, <2>1, Zenon
<1>3. ~(Formed(n) /\ PartParses(CallAt(n)))
  BY <1>1, Zenon
<1>4. ~IsPart(Part(n))
  BY <1>2, <1>3, PartsAreRead
<1> QED
  BY <1>2, <1>4 DEF IsDeclaration

\* The recursion of SizeBefore, for parts whose elements are counted.
LEMMA SizeRecursion ==
  ASSUME NEW count \in Nat, count = pstmt.segment_count,
         \A k \in 1..count : pstmt.segments[k].element_count \in Nat
  PROVE  /\ SizeBefore[1] = 0
         /\ \A k \in 1..count :
              SizeBefore[k + 1] =
                Size(SizeBefore[k] + Size(pstmt.segments[k].element_count * ElementSize))
<1> DEFINE last == count + 1
           more(k, size) == Size(size + Size(pstmt.segments[k].element_count * ElementSize))
           step == [p \in (1..last) \X Nat |-> IF p[1] = last THEN p[2] ELSE more(p[1], p[2])]
           rule(f) == f = [k \in 1..last |-> IF k = 1 THEN 0 ELSE more(k - 1, f[k - 1])]
<1>1. last \in Nat \ {0} /\ ElementSize \in Nat /\ \A k \in 1..last : k # last => k \in 1..count
  BY DEF ElementSize
<1>2. \A n \in Nat : Size(n) \in Nat
  BY SegmentAssumption DEF Size
<1>3. ASSUME NEW k \in 1..count, NEW size \in Nat
      PROVE  more(k, size) \in Nat
  <2>1. PICK el \in Nat : el = pstmt.segments[k].element_count
    OBVIOUS
  <2>2. PICK z \in Nat : z = ElementSize
    BY <1>1
  <2>3. el * z \in Nat
    BY <2>1, <2>2
  <2>4. Size(el * z) \in Nat
    BY <1>2, <2>3
  <2>5. size + Size(el * z) \in Nat
    BY <2>4
  <2>6. Size(size + Size(el * z)) \in Nat
    BY <1>2, <2>5
  <2> QED
    BY <2>1, <2>2, <2>6, Zenon
<1> HIDE DEF more
<1>4. step \in [(1..last) \X Nat -> Nat]
  <2>1. ASSUME NEW k \in 1..last, NEW size \in Nat
        PROVE  (IF k = last THEN size ELSE more(k, size)) \in Nat
    BY <1>1, <1>3
  <2> HIDE DEF last
  <2> QED
    BY <2>1
<1>5. PICK f \in [1..last -> Nat] : Follows(f, last, 0, step)
  <2> HIDE DEF step, last
  <2> QED
    BY <1>1, <1>4, Iterates
<1>6. f[1] = 0 /\ \A k \in 1..(last - 1) : f[k + 1] = more(k, f[k])
  <2>1. ASSUME NEW k \in 1..(last - 1)
        PROVE  f[k + 1] = more(k, f[k])
    <3>1. f[k + 1] = step[<<k, f[k]>>]
      BY <1>5 DEF Follows
    <3>2. <<k, f[k]>> \in (1..last) \X Nat /\ k # last
      BY <1>1, <1>5
    <3> HIDE DEF last
    <3> QED
      BY <3>1, <3>2
  <2> QED
    BY <1>5, <2>1 DEF Follows
<1>7. rule(f)
  <2>1. ASSUME NEW k \in 1..last
        PROVE  f[k] = IF k = 1 THEN 0 ELSE more(k - 1, f[k - 1])
    <3>1. CASE k # 1
      <4>1. PICK l \in 1..(last - 1) : k = l + 1
        BY <1>1, <3>1
      <4>2. k - 1 = l /\ l + 1 = k
        BY <1>1, <4>1
      <4>3. f[l + 1] = more(l, f[l])
        BY <1>6, <4>1
      <4> QED
        BY <3>1, <4>2, <4>3, Zenon
    <3> QED
      BY <1>6, <3>1
  <2> HIDE DEF last
  <2> QED
    BY <1>5, <2>1
<1>8. SizeBefore = CHOOSE g : rule(g)
  BY Zenon DEF SizeBefore, more
<1>9. rule(SizeBefore)
  <2> HIDE DEF rule
  <2> QED
    BY <1>7, <1>8
<1>10. \A k \in 1..last : SizeBefore[k] = IF k = 1 THEN 0 ELSE more(k - 1, SizeBefore[k - 1])
  <2> HIDE DEF last
  <2> QED
    BY <1>9
<1>11. ASSUME NEW k \in 1..count
       PROVE  SizeBefore[k + 1] = more(k, SizeBefore[k])
  <2>1. PICK l \in 1..last : l = k + 1 /\ l # 1 /\ l - 1 = k
    OBVIOUS
  <2>2. SizeBefore[l] = more(l - 1, SizeBefore[l - 1])
    <3> HIDE DEF last
    <3> QED
      BY <1>10, <2>1
  <2> QED
    BY <2>1, <2>2, Zenon
<1>12. SizeBefore[1] = 0
  <2>1. 1 \in 1..last
    OBVIOUS
  <2> HIDE DEF last
  <2> QED
    BY <1>10, <2>1, Zenon
<1> QED
  BY <1>11, <1>12, Zenon DEF more

\* The sizes of the parts add up to the number of bytes the line stands for, as
\* far as a size_t holds it, from the first part to any other.
LEMMA SizesAddUp ==
  ASSUME tokens \in Declarations, tokens[1].type = "TOKEN_DATA_TYPE",
         NEW count \in Nat, count = pstmt.segment_count, count + 1 \in 1..(Len(tokens) + 1),
         PartStart[count + 1] = Len(tokens) + 1,
         \A k \in 1..count : Formed(PartStart[k]) /\ PartParses(CallAt(PartStart[k])),
         \A k \in 1..count : pstmt.segments[k] = FilledSegment(CallAt(PartStart[k]))
  PROVE  SizeBefore[count + 1] = Size(Len(Meaning))
<1>1. \A n \in Firsts : PartBytes(Part(n)) \in Seq(Nat)
  BY AllPartsRead
<1>2. /\ Len(tokens) \in Nat \ {0} /\ SizeMax \in Nat
      /\ PartStart \in [1..(Len(tokens) + 1) -> Nat] /\ PartStart[1] = 2
      /\ \A k \in 1..Len(tokens) :
           PartStart[k + 1] = IF PartStart[k] > Len(tokens) THEN PartStart[k]
                              ELSE EndOf(PartStart[k]) + 1
  BY PartStartRecursion, OnTheLine, SegmentAssumption
<1>3. /\ MeaningUpTo \in [1..Len(tokens) -> Seq(Nat)] /\ MeaningUpTo[1] = << >>
      /\ Meaning = MeaningUpTo[Len(tokens)]
  BY <1>1, BytesUpTo
\* Part k, where it begins and what it counts.
<1>4. ASSUME NEW k \in 1..count
      PROVE  \E n \in Firsts, c \in Nat, u, v \in Seq(Nat) :
               /\ n = PartStart[k] /\ c = pstmt.segments[k].element_count * ElementSize
               /\ pstmt.segments[k].element_count \in Nat
               /\ u = MeaningUpTo[n - 1] /\ Len(v) = c
               /\ MeaningUpTo[PartStart[k + 1] - 1] = u \o v
  <2>1. PICK n : n = PartStart[k]
    OBVIOUS
  <2>2. Formed(n) /\ PartParses(CallAt(n))
    BY <2>1, Zenon
  <2>3. PICK segment : segment = FilledSegment(CallAt(n))
    OBVIOUS
  <2>4. pstmt.segments[k] = segment
    BY <2>1, <2>3, Zenon
  <2>5. /\ BytesOf(segment) = PartBytes(Part(n)) /\ BytesOf(segment) \in Seq(Nat)
        /\ segment.element_count \in Nat
        /\ Len(BytesOf(segment)) = segment.element_count * ElementSize
    BY <2>2, <2>3, PartIsWritten
  <2>6. k \in 1..(Len(tokens) + 1) /\ k \in 1..Len(tokens) /\ n \in 2..Len(tokens)
        /\ PartStart[k] <= Len(tokens)
    <3>1. n \in 2..Len(tokens)
      BY <2>2 DEF Formed
    <3>2. k \in 1..Len(tokens) /\ k \in 1..(Len(tokens) + 1)
      BY <1>2
    <3> QED
      BY <1>2, <2>1, <3>1, <3>2
  <2>7. n \in Firsts
    <3>1. PartStart[k] \in Firsts
      BY <2>6, StartsAreFirsts
    <3> QED
      BY <2>1, <3>1, Zenon
  <2>8. PICK e : e = EndOf(n)
    OBVIOUS
  <2>9. n - 1 \in 1..Len(tokens) /\ e \in 1..Len(tokens)
        /\ MeaningUpTo[e] = MeaningUpTo[n - 1] \o PartBytes(Part(n))
    BY <1>1, <2>7, <2>8, BytesOfNextPart
  <2>10. PartStart[k + 1] = e + 1
    <3>1. PartStart[k + 1] = EndOf(n) + 1
      BY <1>2, <2>1, <2>6
    <3> QED
      BY <2>8, <3>1, Zenon
  <2>11. PartStart[k + 1] - 1 = e
    BY <2>9, <2>10
  <2>12. PICK u \in Seq(Nat) : u = MeaningUpTo[n - 1]
    BY <1>3, <2>9
  <2>13. PICK v \in Seq(Nat) : v = PartBytes(Part(n))
    BY <1>1, <2>7
  <2>14. Len(v) = segment.element_count * ElementSize /\ Len(v) \in Nat
    <3>1. Len(v) \in Nat
      BY <2>13
    <3>2. Len(v) = segment.element_count * ElementSize
      BY <2>5, <2>13, Zenon
    <3> QED
      BY <3>1, <3>2
  <2>15. MeaningUpTo[PartStart[k + 1] - 1] = u \o v
    BY <2>9, <2>11, <2>12, <2>13, Zenon
  <2>16. PICK c \in Nat : c = Len(v)
    BY <2>14
  <2>17. pstmt.segments[k].element_count \in Nat
         /\ c = pstmt.segments[k].element_count * ElementSize /\ Len(v) = c
    BY <2>4, <2>5, <2>14, <2>16, Zenon
  <2> QED
    BY <2>1, <2>7, <2>12, <2>13, <2>15, <2>16, <2>17, Zenon
<1>5. /\ SizeBefore[1] = 0
      /\ \A k \in 1..count :
           SizeBefore[k + 1] =
             Size(SizeBefore[k] + Size(pstmt.segments[k].element_count * ElementSize))
  <2>1. \A k \in 1..count : pstmt.segments[k].element_count \in Nat
    BY <1>4, Zenon
  <2> QED
    BY <2>1, SizeRecursion
<1> DEFINE T == {k \in 1..(count + 1) :
                   ~(/\ PartStart[k] - 1 \in 1..Len(tokens)
                     /\ SizeBefore[k] = Size(Len(MeaningUpTo[PartStart[k] - 1])))}
<1>6. ASSUME T # {}
      PROVE  FALSE
  <2>1. PICK k \in T : \A l \in T : k <= l
    <3>1. T \subseteq Nat
      OBVIOUS
    <3> HIDE DEF T
    <3> QED
      BY <1>6, <3>1, LeastNatural
  <2>2. k \in 1..(count + 1)
    BY <2>1
  <2>3. CASE k = 1
    <3>1. PartStart[1] - 1 = 1 /\ 1 \in 1..Len(tokens)
      BY <1>2
    <3>2. Len(MeaningUpTo[1]) = 0
      BY <1>3
    <3>3. Size(0) = 0
      BY SegmentAssumption DEF Size
    <3>4. SizeBefore[1] = Size(Len(MeaningUpTo[PartStart[1] - 1]))
      BY <1>5, <3>1, <3>2, <3>3, Zenon
    <3> HIDE DEF Size
    <3> QED
      BY <2>1, <2>3, <3>1, <3>4
  <2>4. CASE k # 1
    <3>1. PICK l \in 1..count : k = l + 1
      BY <2>2, <2>4
    <3>2. l \notin T /\ l \in 1..(count + 1)
      BY <2>1, <3>1
    <3>3. SizeBefore[l] = Size(Len(MeaningUpTo[PartStart[l] - 1]))
      BY <3>2
    <3>4. PICK n \in Firsts, c \in Nat, u, v \in Seq(Nat) :
               /\ n = PartStart[l] /\ c = pstmt.segments[l].element_count * ElementSize
               /\ pstmt.segments[l].element_count \in Nat
               /\ u = MeaningUpTo[n - 1] /\ Len(v) = c
               /\ MeaningUpTo[PartStart[l + 1] - 1] = u \o v
      BY <1>4, <3>1, Zenon
    <3>5. SizeBefore[l + 1] = Size(Size(Len(u)) + Size(c))
      BY <1>5, <3>1, <3>3, <3>4, Zenon
    <3>6. PICK a \in Nat : a = Len(u)
      BY <3>4
    <3>7. Len(u \o v) = a + c
      <4>1. u \in Seq(Nat) /\ v \in Seq(Nat) /\ Len(v) = c
        BY <3>4
      <4>2. Len(u \o v) = Len(u) + Len(v)
        BY <4>1, ConcatProperties, Zenon
      <4> QED
        BY <3>6, <4>1, <4>2, Zenon
    <3>8. Size(Size(a) + Size(c)) = Size(a + c)
      <4>1. SizeMax + 1 \in Nat \ {0}
        BY <1>2
      <4>2. ((a % (SizeMax + 1)) + (c % (SizeMax + 1))) % (SizeMax + 1) = (a + c) % (SizeMax + 1)
        <5>1. a \in Nat /\ c \in Nat
          BY <3>4, <3>6
        <5>2. PICK m \in Nat \ {0} : m = SizeMax + 1
          BY <4>1
        <5>3. ((a % m) + (c % m)) % m = (a + c) % m
          BY <5>1, <5>2, RemaindersAdd
        <5> QED
          BY <5>2, <5>3, Zenon
      <4> QED
        BY <4>2, Zenon DEF Size
    <3>9. SizeBefore[k] = Size(Len(MeaningUpTo[PartStart[k] - 1]))
      BY <3>1, <3>4, <3>5, <3>6, <3>7, <3>8, Zenon
    <3>10. PartStart[k] - 1 \in 1..Len(tokens)
      <4>1. l \in 1..Len(tokens) /\ n \in 2..Len(tokens)
        BY <1>2, <3>4 DEF Firsts
      <4>2. PICK e \in n..Len(tokens) : e = EndOf(n)
        BY <4>1, NextFirst
      <4>3. PartStart[k] = e + 1
        <5>1. ~(PartStart[l] > Len(tokens))
          BY <1>2, <3>4, <4>1
        <5>2. PartStart[l + 1] = EndOf(n) + 1
          <6>1. EndOf(PartStart[l]) = EndOf(n)
            BY <3>4, Zenon
          <6>2. PartStart[l + 1] = EndOf(PartStart[l]) + 1
            BY <1>2, <4>1, <5>1, Zenon
          <6> QED
            BY <6>1, <6>2, Zenon
        <5> QED
          BY <3>1, <4>2, <5>2, Zenon
      <4>4. Len(tokens) \in Nat
        BY <1>2
      <4>5. e \in 1..Len(tokens)
        BY <4>1, <4>2, <4>4
      <4>6. (e + 1) - 1 = e
        BY <4>5
      <4> QED
        BY <4>3, <4>5, <4>6
    <3> QED
      BY <2>1, <3>9, <3>10
  <2> QED
    BY <2>3, <2>4
<1>7. count + 1 \notin T /\ count + 1 \in 1..(count + 1)
  BY <1>6
<1>8. SizeBefore[count + 1] = Size(Len(MeaningUpTo[PartStart[count + 1] - 1]))
  BY <1>7
<1>9. PartStart[count + 1] - 1 = Len(tokens)
  BY <1>2
<1> QED
  BY <1>3, <1>8, <1>9, Zenon

-----------------------------------------------------------------------------
(* A step that leaves the line alone leaves what the line means alone.     *)

\* The parts begin where they began.
LEMMA SameStarts ==
  ASSUME tokens' = tokens
  PROVE  PartStart' = PartStart
BY SMT DEF PartStart, EndOf, Separators

\* The line is a declaration or not, and means the same bytes.
LEMMA SameMeaning ==
  ASSUME tokens' = tokens
  PROVE  /\ BytesAt' = BytesAt /\ Meaning' = Meaning /\ MeaningUpTo' = MeaningUpTo
         /\ IsDeclaration' <=> IsDeclaration
<1>1. ASSUME NEW p
      PROVE  PartBytes(p)' = PartBytes(p) /\ (IsPart(p)' <=> IsPart(p))
  <2>1. PartBytes(p)' = PartBytes(p)
    BY Zenon DEF PartBytes, HasForm, ElementBytes
  <2>2. IsPart(p)' <=> IsPart(p)
    BY Zenon DEF IsPart, HasForm, IsDup, Storable, ParsesSize, ParsesInt32
  <2> QED
    BY <2>1, <2>2
<1>2. IsDeclaration' <=> IsDeclaration
  BY Zenon DEF IsDeclaration, Firsts, IsPart, Part, EndOf, Separators
<1>3. BytesAt' = BytesAt
  BY SMT DEF BytesAt, Firsts, PartBytes, HasForm, ElementBytes, Part, EndOf, Separators
<1> QED
  BY <1>2, <1>3, Zenon DEF Meaning, MeaningUpTo

\* A part is of the same kind and is filled with the same.
LEMMA SamePart ==
  ASSUME tokens' = tokens, NEW n
  PROVE  /\ CallAt(n)' = CallAt(n) /\ PartAt(n)' = PartAt(n) /\ TypeAt(n)' = TypeAt(n)
         /\ Formed(n)' <=> Formed(n)
         /\ \A e : ReadUpTo(n, e)' <=> ReadUpTo(n, e)
         /\ PartParses(CallAt(n))' <=> PartParses(CallAt(n))
         /\ FilledSegment(CallAt(n))' = FilledSegment(CallAt(n))
<1>1. CallAt(n)' = CallAt(n) /\ PartAt(n)' = PartAt(n) /\ TypeAt(n)' = TypeAt(n)
  BY Zenon DEF CallAt, PartAt, TypeAt, is_dw
<1>2. Formed(n)' <=> Formed(n)
  BY Zenon DEF Formed, ReadUpTo, PartAt, TypeAt, is_dw, Separators
<1>3. \A e : ReadUpTo(n, e)' <=> ReadUpTo(n, e)
  BY Zenon DEF ReadUpTo, PartAt, TypeAt, is_dw
<1>4. PartParses(CallAt(n))' <=> PartParses(CallAt(n))
  BY Zenon DEF PartParses, CallAt, PartAt, TypeAt, is_dw
<1>5. FilledSegment(CallAt(n))' = FilledSegment(CallAt(n))
  BY Zenon DEF FilledSegment, CallAt, PartAt, TypeAt, is_dw
<1> QED
  BY <1>1, <1>2, <1>3, <1>4, <1>5

\* The same for the parts one after the other.
LEMMA SameParts ==
  ASSUME tokens' = tokens
  PROVE  \A k : /\ CallAt(PartStart[k])' = CallAt(PartStart[k])
                /\ Formed(PartStart[k])' <=> Formed(PartStart[k])
                /\ \A e : ReadUpTo(PartStart[k], e)' <=> ReadUpTo(PartStart[k], e)
                /\ PartParses(CallAt(PartStart[k]))' <=> PartParses(CallAt(PartStart[k]))
                /\ FilledSegment(CallAt(PartStart[k]))' = FilledSegment(CallAt(PartStart[k]))
<1> TAKE k
<1>1. PICK n : n = PartStart[k]
  OBVIOUS
<1>2. PartStart[k]' = n
  BY <1>1, SameStarts, Zenon
<1>3. CallAt(PartStart[k])' = CallAt(PartStart[k])
  BY <1>1, <1>2, SamePart, Zenon
<1>4. Formed(PartStart[k])' <=> Formed(PartStart[k])
  BY <1>1, <1>2, SamePart, Zenon
<1>5. \A e : ReadUpTo(PartStart[k], e)' <=> ReadUpTo(PartStart[k], e)
  BY <1>1, <1>2, SamePart, Zenon
<1>6. PartParses(CallAt(PartStart[k]))' <=> PartParses(CallAt(PartStart[k]))
  BY <1>1, <1>2, SamePart, Zenon
<1>7. FilledSegment(CallAt(PartStart[k]))' = FilledSegment(CallAt(PartStart[k]))
  BY <1>1, <1>2, SamePart, Zenon
<1> QED
  BY <1>3, <1>4, <1>5, <1>6, <1>7

-----------------------------------------------------------------------------
(* The invariant of the meaning, action by action.                         *)

\* At first nothing is read, and nothing is written.
LEMMA MeaningStarts == Init => MInv
<1> SUFFICES ASSUME Init PROVE MInv
  OBVIOUS
<1>1. pc = "create" /\ Len(calls) = 0 /\ i = 1 /\ data = << >> /\ dtsg.size = 0
  BY DEF Init, Empty
<1>2. OnTheWayDown
  BY <1>1 DEF OnTheWayDown, Descending
<1>3. FailsForItsText /\ AllCounted /\ AllFilled
  BY <1>1 DEF FailsForItsText, AllCounted, AllFilled
<1>4. Appending /\ Outcome
  BY <1>1 DEF Appending, Outcome
<1> QED
  BY <1>2, <1>3, <1>4 DEF MInv

\* A line without a data type is refused, and it is no declaration.
LEMMA CreateMeans ==
  ASSUME DInv, MInv, p_stmt_create
  PROVE  MInv'
<1>1. /\ tokens \in Declarations /\ tokens' = tokens /\ calls' = calls
      /\ i' = i /\ data' = data /\ dtsg' = dtsg
      /\ pc = "create" /\ pc' \in {"dec", "refuse", "done"}
  BY DEF DInv, Kinds, p_stmt_create, GoTo
<1>2. Len(calls) = 0 /\ i = 1 /\ data = << >> /\ dtsg.size = 0
  BY <1>1 DEF MInv, OnTheWayDown, Appending
<1>3. IsDeclaration' <=> IsDeclaration
  BY <1>1, SameMeaning
<1>4. OnTheWayDown'
  <2>1. CASE pc' = "dec"
    <3>1. tokens'[1].type = "TOKEN_DATA_TYPE" /\ pos' = 2
      BY <2>1 DEF p_stmt_create, GoTo
    <3>2. /\ Len(tokens) \in Nat \ {0} /\ PartStart[1] = 2
          /\ PartStart \in [1..(Len(tokens) + 1) -> Nat]
      BY <1>1, OnTheLine, PartStartRecursion
    <3>3. PartStart' = PartStart /\ 1 \in DOMAIN PartStart
      BY <1>1, <3>2, SameStarts
    <3> QED
      BY <1>1, <1>2, <2>1, <3>1, <3>2, <3>3 DEF OnTheWayDown, Descending
  <2>2. CASE pc' # "dec"
    BY <1>1, <2>2 DEF OnTheWayDown, Descending
  <2> QED
    BY <2>1, <2>2
<1>5. FailsForItsText'
  <2>1. pc' = "refuse" => ~IsDeclaration
    BY DEF p_stmt_create, GoTo, IsDeclaration
  <2> QED
    BY <1>1, <1>3, <2>1 DEF FailsForItsText
<1>6. AllCounted' /\ AllFilled'
  BY <1>1 DEF AllCounted, AllFilled
<1>7. Appending'
  BY <1>1, <1>2 DEF Appending, Descending
<1>8. Outcome'
  <2>1. pc' = "done" => result' = "refused" /\ AllocationFails
    BY DEF p_stmt_create, GoTo
  <2> QED
    BY <1>1, <2>1 DEF Outcome, AllocationFails
<1> QED
  BY <1>4, <1>5, <1>6, <1>7, <1>8 DEF MInv

\* On the way back of a line that fails, and where it is refused.
LEMMA RefuseMeans ==
  ASSUME MInv, segment_remove_last \/ Refuse
  PROVE  MInv'
<1>1. tokens' = tokens /\ i' = i /\ data' = data /\ dtsg' = dtsg
  BY DEF segment_remove_last, Refuse, GoTo
<1>2. IsDeclaration' <=> IsDeclaration
  BY <1>1, SameMeaning
<1>3. pc \in {"refuse", "fail"} /\ (AllocationFails \/ ~IsDeclaration)
  BY DEF MInv, FailsForItsText, segment_remove_last, Refuse
<1>4. CASE segment_remove_last
  <2>1. pc' = "fail"
    BY <1>4 DEF segment_remove_last
  <2>2. Appending'
    BY <1>1, <2>1, <1>3 DEF MInv, Appending
  <2> QED
    BY <1>2, <1>3, <2>1, <2>2 DEF MInv, OnTheWayDown, FailsForItsText, AllCounted, AllFilled,
                                  Outcome, Descending, AllocationFails
<1>5. CASE Refuse
  <2>1. pc' = "done" /\ result' = "refused"
    BY <1>5 DEF Refuse, GoTo
  <2> QED
    BY <1>2, <1>3, <2>1 DEF MInv, OnTheWayDown, FailsForItsText, AllCounted, AllFilled,
                            Appending, Outcome, Descending, AllocationFails
<1> QED
  BY <1>4, <1>5

\* The outcome is not changed by freeing the statement.
LEMMA FreeMeans ==
  ASSUME MInv, p_stmt_free
  PROVE  MInv'
<1>1. /\ tokens' = tokens /\ data' = data /\ result' = result
      /\ pc = "free" /\ pc' = "done"
  BY DEF p_stmt_free, GoTo
<1>2. (IsDeclaration' <=> IsDeclaration) /\ Meaning' = Meaning
  BY <1>1, SameMeaning
<1>3. Outcome'
  BY <1>1, <1>2 DEF MInv, Outcome, AllocationFails
<1> QED
  BY <1>1, <1>3 DEF MInv, OnTheWayDown, FailsForItsText, AllCounted, AllFilled,
                    Appending, Descending

\* A step that changes nothing.
LEMMA MeaningStutters ==
  ASSUME MInv, UNCHANGED vars
  PROVE  MInv'
<1>1. /\ tokens' = tokens /\ pc' = pc /\ pos' = pos /\ calls' = calls /\ pstmt' = pstmt
      /\ i' = i /\ data' = data /\ dtsg' = dtsg /\ result' = result
  BY DEF vars
<1>2. /\ PartStart' = PartStart /\ Meaning' = Meaning /\ MeaningUpTo' = MeaningUpTo
      /\ IsDeclaration' <=> IsDeclaration
  BY <1>1, SameStarts, SameMeaning
<1>3. \A k : /\ CallAt(PartStart[k])' = CallAt(PartStart[k])
             /\ Formed(PartStart[k])' <=> Formed(PartStart[k])
             /\ \A e : ReadUpTo(PartStart[k], e)' <=> ReadUpTo(PartStart[k], e)
             /\ PartParses(CallAt(PartStart[k]))' <=> PartParses(CallAt(PartStart[k]))
             /\ FilledSegment(CallAt(PartStart[k]))' = FilledSegment(CallAt(PartStart[k]))
  BY <1>1, SameParts
<1>4. FailsForItsText' /\ Appending' /\ Outcome'
  BY <1>1, <1>2 DEF MInv, FailsForItsText, Appending, Outcome, AllocationFails
<1>5. AllCounted'
  BY <1>1, <1>2, <1>3, Zenon DEF MInv, AllCounted
<1>6. AllFilled'
  BY <1>1, <1>2, <1>3, Zenon DEF MInv, AllFilled, FilledParts
<1>7. OnTheWayDown'
  BY <1>1, <1>2, <1>3, Zenon DEF MInv, OnTheWayDown, PartAt, TypeAt, is_dw
<1> QED
  BY <1>4, <1>5, <1>6, <1>7 DEF MInv

\* On the way down the call that is made reads the part at the place where the
\* line is; what is none of the forms is no part of a declaration.
LEMMA DecMeans ==
  ASSUME DInv, MInv, identifier_dec
  PROVE  MInv'
<1>1. /\ tokens \in Declarations /\ tokens' = tokens /\ pos \in Nat
      /\ calls \in Seq([kind : SegmentKinds, at : Nat])
      /\ i' = i /\ data' = data /\ dtsg' = dtsg
      /\ pc = "dec" /\ pos \in 1..Len(tokens)
  BY DEF DInv, Kinds, Places, identifier_dec, GoTo
<1>2. PICK l \in Nat : l = Len(calls)
  BY <1>1
<1>3. /\ tokens[1].type = "TOKEN_DATA_TYPE" /\ l + 1 \in DOMAIN PartStart
      /\ pos = PartStart[l + 1]
      /\ \A k \in 1..l : calls[k] = CallAt(PartStart[k])
      /\ \A k \in 1..l : Formed(PartStart[k])
      /\ i = 1 /\ data = << >> /\ dtsg.size = 0
  BY <1>1, <1>2 DEF MInv, OnTheWayDown, Appending, Descending
<1>4. /\ Len(tokens) \in Nat \ {0} /\ l + 1 \in 1..(Len(tokens) + 1)
      /\ pos \in 2..Len(tokens) /\ DOMAIN PartStart = 1..(Len(tokens) + 1)
  <2>1. /\ Len(tokens) \in Nat \ {0}
        /\ PartStart \in [1..(Len(tokens) + 1) -> Nat]
        /\ \A k \in 1..(Len(tokens) + 1) : PartStart[k] >= 2
    BY <1>1, OnTheLine, PartStartRecursion
  <2>2. l + 1 \in 1..(Len(tokens) + 1)
    BY <1>3, <2>1
  <2> QED
    BY <1>1, <1>3, <2>1, <2>2
<1>5. PICK kind \in SegmentKinds : kind = PartAt(pos)
  BY <1>1, KindTells
<1>6. /\ Len(calls') = l + 1 /\ calls'[l + 1] = [kind |-> kind, at |-> pos]
      /\ \A k \in 1..l : calls'[k] = calls[k]
  <2>1. calls' = Append(calls, [kind |-> kind, at |-> pos])
    BY <1>5 DEF identifier_dec
  <2> QED
    BY <1>1, <1>2, <1>5, <2>1
<1>7. /\ PartStart' = PartStart /\ (IsDeclaration' <=> IsDeclaration)
      /\ \A k : /\ CallAt(PartStart[k])' = CallAt(PartStart[k])
                /\ Formed(PartStart[k])' <=> Formed(PartStart[k])
                /\ \A e : ReadUpTo(PartStart[k], e)' <=> ReadUpTo(PartStart[k], e)
  BY <1>1, SameStarts, SameMeaning, SameParts
<1>8. PartStart'[l + 1] = pos
  BY <1>3, <1>7, Zenon
<1>9. \A k \in 1..(l + 1) : calls'[k] = CallAt(PartStart[k])'
  <2>1. [kind |-> kind, at |-> pos] = CallAt(PartStart[l + 1])
    BY <1>3, <1>5, Zenon DEF CallAt
  <2>2. \A k \in 1..(l + 1) : k = l + 1 \/ k \in 1..l
    OBVIOUS
  <2> QED
    BY <1>3, <1>6, <1>7, <2>1, <2>2, Zenon
<1>10. pc' \in {"fail", "dup", "dec2"}
  BY DEF identifier_dec, GoTo
<1>11. CASE pc' = "fail"
  <2>1. kind = "INIT_SEG_NONE"
    BY <1>5, <1>11 DEF identifier_dec, GoTo
  <2>2. ~Formed(pos)
    BY <1>5, <2>1 DEF Formed, ReadUpTo
  <2>3. ~IsDeclaration
    <3>1. PartStart[l + 1] <= Len(tokens) /\ ~Formed(PartStart[l + 1])
      BY <1>3, <1>4, <2>2
    <3> QED
      BY <1>1, <1>3, <1>4, <3>1, OnePartFails
  <2>4. Appending'
    BY <1>1, <1>3, <1>11 DEF Appending
  <2> QED
    BY <1>7, <1>11, <2>3, <2>4 DEF MInv, OnTheWayDown, FailsForItsText, AllCounted, AllFilled,
                                   Outcome, Descending
<1>12. CASE pc' = "dup"
  <2>1. kind = "INIT_SEG_DUP" /\ pos' = pos
    BY <1>5, <1>12 DEF identifier_dec, GoTo
  <2>2. PartAt(pos)' = "INIT_SEG_DUP"
    <3>1. PICK n : n = pos
      OBVIOUS
    <3>2. PartAt(n)' = PartAt(n)
      BY <1>1, SamePart
    <3> QED
      BY <1>5, <2>1, <3>1, <3>2, Zenon
  <2>3. \A k \in 1..l : Formed(PartStart[k])'
    BY <1>3, <1>7, Zenon
  <2>4. l + 1 - 1 = l /\ l + 1 \in DOMAIN PartStart'
    BY <1>3, <1>7
  <2>5. tokens'[1].type = "TOKEN_DATA_TYPE"
    BY <1>1, <1>3
  <2>6. OnTheWayDown'
    <3>1. \A k \in 1..Len(calls') : calls'[k] = CallAt(PartStart[k])'
      BY <1>6, <1>9, Zenon
    <3>2. \A k \in 1..(Len(calls') - 1) : Formed(PartStart[k])'
      <4>1. Len(calls') - 1 = l
        BY <1>2, <1>6
      <4> QED
        BY <2>3, <4>1, Zenon
    <3>3. Len(calls') \in DOMAIN PartStart' /\ pos' = PartStart'[Len(calls')]
      BY <1>6, <1>8, <2>1, <2>4, Zenon
    <3> QED
      BY <1>12, <2>2, <2>5, <3>1, <3>2, <3>3 DEF OnTheWayDown, Descending
  <2>7. Appending'
    BY <1>1, <1>3, <1>12 DEF Appending, Descending
  <2> QED
    BY <1>12, <2>6, <2>7 DEF MInv, FailsForItsText, AllCounted, AllFilled, Outcome
<1>13. CASE pc' = "dec2"
  <2>1. kind \in {"INIT_SEG_VALUE", "INIT_SEG_UNINIT", "INIT_SEG_STRING"} /\ pos' = pos + 1
    BY <1>5, <1>13 DEF identifier_dec, GoTo, SegmentKinds
  <2>2. ReadUpTo(PartStart[l + 1], pos + 1)
    <3>1. ReadUpTo(pos, pos + 1)
      BY <1>5, <2>1 DEF ReadUpTo
    <3> QED
      BY <1>3, <3>1, Zenon
  <2>3. ReadUpTo(PartStart[l + 1], pos)'
    <3>1. PICK e : e = pos + 1
      OBVIOUS
    <3>2. ReadUpTo(PartStart[l + 1], e)'
      BY <1>7, <2>2, <3>1, Zenon
    <3> QED
      BY <2>1, <3>1, <3>2, Zenon
  <2>4. \A k \in 1..l : Formed(PartStart[k])'
    BY <1>3, <1>7, Zenon
  <2>5. l + 1 - 1 = l /\ l + 1 \in DOMAIN PartStart' /\ PartStart'[l + 1] \in 2..Len(tokens')
    BY <1>1, <1>3, <1>4, <1>7
  <2>6. tokens'[1].type = "TOKEN_DATA_TYPE"
    BY <1>1, <1>3
  <2>7. OnTheWayDown'
    <3>1. \A k \in 1..Len(calls') : calls'[k] = CallAt(PartStart[k])'
      BY <1>6, <1>9, Zenon
    <3>2. \A k \in 1..(Len(calls') - 1) : Formed(PartStart[k])'
      <4>1. Len(calls') - 1 = l
        BY <1>2, <1>6
      <4> QED
        BY <2>4, <4>1, Zenon
    <3>3. Len(calls') \in DOMAIN PartStart' /\ PartStart'[Len(calls')] \in 2..Len(tokens')
      BY <1>6, <2>5, Zenon
    <3>4. ReadUpTo(PartStart[Len(calls)], pos)'
      BY <1>6, <2>3, Zenon
    <3> QED
      BY <1>13, <2>6, <3>1, <3>2, <3>3, <3>4 DEF OnTheWayDown, Descending
  <2>8. Appending'
    BY <1>1, <1>3, <1>13 DEF Appending, Descending
  <2> QED
    BY <1>13, <2>7, <2>8 DEF MInv, FailsForItsText, AllCounted, AllFilled, Outcome
<1> QED
  BY <1>10, <1>11, <1>12, <1>13

\* A DUP is read to its end, or is none, and then the line is no declaration.
LEMMA DupMeans ==
  ASSUME DInv, MInv, identifier_dup
  PROVE  MInv'
<1>1. /\ tokens \in Declarations /\ tokens' = tokens /\ pos \in Nat
      /\ calls \in Seq([kind : SegmentKinds, at : Nat]) /\ calls' = calls
      /\ i' = i /\ data' = data /\ dtsg' = dtsg
      /\ pc = "dup" /\ pc' \in {"dec2", "fail"} /\ TypeAt(pos) = "TOKEN_NUMBER"
  BY DEF DInv, Kinds, Places, identifier_dup, GoTo, OnlyPosition
<1>2. PICK l \in Nat : l = Len(calls)
  BY <1>1
<1>3. /\ tokens[1].type = "TOKEN_DATA_TYPE" /\ l \in DOMAIN PartStart
      /\ pos = PartStart[l] /\ PartAt(pos) = "INIT_SEG_DUP"
      /\ \A k \in 1..l : calls[k] = CallAt(PartStart[k])
      /\ \A k \in 1..(l - 1) : Formed(PartStart[k])
      /\ i = 1 /\ data = << >> /\ dtsg.size = 0
  BY <1>1, <1>2 DEF MInv, OnTheWayDown, Appending, Descending
<1>4. /\ Len(tokens) \in Nat \ {0} /\ l \in 1..(Len(tokens) + 1)
      /\ pos \in 2..Len(tokens)
  <2>1. /\ Len(tokens) \in Nat \ {0}
        /\ PartStart \in [1..(Len(tokens) + 1) -> Nat]
        /\ \A k \in 1..(Len(tokens) + 1) : PartStart[k] >= 2
    BY <1>1, OnTheLine, PartStartRecursion
  <2>2. l \in 1..(Len(tokens) + 1)
    BY <1>3, <2>1
  <2>3. pos \in 1..Len(tokens)
    BY <1>1, OnTheLine
  <2> QED
    BY <1>3, <2>1, <2>2, <2>3
<1>5. /\ PartStart' = PartStart /\ (IsDeclaration' <=> IsDeclaration)
      /\ \A k : /\ CallAt(PartStart[k])' = CallAt(PartStart[k])
                /\ Formed(PartStart[k])' <=> Formed(PartStart[k])
                /\ \A e : ReadUpTo(PartStart[k], e)' <=> ReadUpTo(PartStart[k], e)
  BY <1>1, SameStarts, SameMeaning, SameParts
<1>6. CASE pc' = "fail"
  <2>1. ~DupMatches
    BY <1>6 DEF identifier_dup, GoTo
  <2>2. ~Formed(pos)
    BY <1>3, <2>1 DEF Formed, ReadUpTo, DupMatches
  <2>3. ~IsDeclaration
    <3>1. PartStart[l] <= Len(tokens) /\ ~Formed(PartStart[l])
      BY <1>3, <1>4, <2>2
    <3> QED
      BY <1>1, <1>3, <1>4, <3>1, OnePartFails
  <2>4. Appending'
    BY <1>1, <1>3, <1>6 DEF Appending
  <2> QED
    BY <1>5, <1>6, <2>3, <2>4 DEF MInv, OnTheWayDown, FailsForItsText, AllCounted, AllFilled,
                                  Outcome, Descending
<1>7. CASE pc' = "dec2"
  <2>1. DupMatches /\ pos' = pos + 5
    BY <1>7 DEF identifier_dup, GoTo
  <2>2. ReadUpTo(PartStart[l], pos + 5)
    <3>1. ReadUpTo(pos, pos + 5)
      BY <1>3, <2>1 DEF ReadUpTo, DupMatches
    <3> QED
      BY <1>3, <3>1, Zenon
  <2>3. ReadUpTo(PartStart[l], pos)'
    <3>1. PICK e : e = pos + 5
      OBVIOUS
    <3>2. ReadUpTo(PartStart[l], e)'
      BY <1>5, <2>2, <3>1, Zenon
    <3> QED
      BY <2>1, <3>1, <3>2, Zenon
  <2>4. \A k \in 1..(l - 1) : Formed(PartStart[k])'
    BY <1>3, <1>5, Zenon
  <2>5. l \in DOMAIN PartStart' /\ PartStart'[l] \in 2..Len(tokens')
    BY <1>1, <1>3, <1>4, <1>5
  <2>6. Len(calls') = l /\ tokens'[1].type = "TOKEN_DATA_TYPE"
    BY <1>1, <1>2, <1>3
  <2>7. OnTheWayDown'
    <3>1. \A k \in 1..Len(calls') : calls'[k] = CallAt(PartStart[k])'
      BY <1>1, <1>3, <1>5, <2>6, Zenon
    <3>2. \A k \in 1..(Len(calls') - 1) : Formed(PartStart[k])'
      BY <2>4, <2>6, Zenon
    <3>3. Len(calls') \in DOMAIN PartStart' /\ PartStart'[Len(calls')] \in 2..Len(tokens')
      BY <2>5, <2>6, Zenon
    <3>4. ReadUpTo(PartStart[Len(calls)], pos)'
      BY <2>3, <2>6, Zenon
    <3> QED
      BY <1>7, <2>6, <3>1, <3>2, <3>3, <3>4 DEF OnTheWayDown, Descending
  <2>8. Appending'
    BY <1>1, <1>3, <1>7 DEF Appending, Descending
  <2> QED
    BY <1>7, <2>7, <2>8 DEF MInv, FailsForItsText, AllCounted, AllFilled, Outcome
<1> QED
  BY <1>1, <1>6, <1>7

\* A part that is followed by a separator is a part of the line, and the next
\* one begins behind it.
LEMMA PartEnds ==
  ASSUME tokens \in Declarations, NEW l \in DOMAIN PartStart, PartStart[l] \in 2..Len(tokens),
         NEW e \in Int, ReadUpTo(PartStart[l], e), TypeAt(e) \in Separators
  PROVE  /\ Formed(PartStart[l]) /\ l \in 1..Len(tokens) /\ l + 1 \in DOMAIN PartStart
         /\ e \in 1..Len(tokens) /\ PartStart[l + 1] = e + 1
<1>1. /\ Len(tokens) \in Nat \ {0} /\ DOMAIN PartStart = 1..(Len(tokens) + 1)
      /\ \A k \in 1..Len(tokens) :
           PartStart[k + 1] = IF PartStart[k] > Len(tokens) THEN PartStart[k]
                              ELSE EndOf(PartStart[k]) + 1
  <2>1. Len(tokens) \in Nat \ {0} /\ PartStart \in [1..(Len(tokens) + 1) -> Nat]
    BY OnTheLine, PartStartRecursion
  <2> QED
    BY <2>1, PartStartRecursion
<1>2. PICK n \in 2..Len(tokens) : n = PartStart[l]
  OBVIOUS
<1>3. ReadUpTo(n, e)
  BY <1>2, Zenon
<1>4. e \in {n + 1, n + 5}
  BY <1>3 DEF ReadUpTo
<1>5. Formed(n)
  BY <1>2, <1>3, <1>4 DEF Formed
<1>6. EndOf(n) = e
  BY <1>3, <1>4, <1>5, EndOfFormed
<1>7. e \in 1..Len(tokens)
  BY OnTheLine DEF Separators
<1>8. l \in 1..(Len(tokens) + 1) /\ PartStart[l] <= Len(tokens)
  BY <1>1, <1>2
<1>9. l + 1 <= PartStart[l]
  BY <1>8, StartsAdvance
<1>10. l \in 1..Len(tokens) /\ l + 1 \in DOMAIN PartStart
  BY <1>1, <1>2, <1>8, <1>9
<1>11. PartStart[l + 1] = EndOf(PartStart[l]) + 1
  <2>1. ~(PartStart[l] > Len(tokens))
    BY <1>1, <1>2
  <2> QED
    BY <1>1, <1>10, <2>1, Zenon
<1> QED
  BY <1>2, <1>5, <1>6, <1>7, <1>10, <1>11, Zenon

\* At a comma the next part begins; at the end of the line every part of the
\* line has been read, and none is filled yet; at anything else the part that
\* has been read is none.
LEMMA Dec2Means ==
  ASSUME DInv, MInv, identifier_dec2
  PROVE  MInv'
<1>1. /\ tokens \in Declarations /\ tokens' = tokens /\ pos \in Int
      /\ calls \in Seq([kind : SegmentKinds, at : Nat]) /\ calls' = calls
      /\ i' = i /\ data' = data /\ dtsg' = dtsg
      /\ pc = "dec2" /\ pc' \in {"dec", "fill", "fail"} /\ pos \in 1..Len(tokens)
      /\ DOMAIN pstmt = DOMAIN FreshStatement
  BY DEF DInv, Kinds, Places, identifier_dec2, GoTo
<1>2. PICK l \in Nat : l = Len(calls)
  BY <1>1
<1>3. /\ tokens[1].type = "TOKEN_DATA_TYPE" /\ l \in DOMAIN PartStart
      /\ PartStart[l] \in 2..Len(tokens) /\ ReadUpTo(PartStart[l], pos)
      /\ \A k \in 1..l : calls[k] = CallAt(PartStart[k])
      /\ \A k \in 1..(l - 1) : Formed(PartStart[k])
      /\ i = 1 /\ data = << >> /\ dtsg.size = 0 /\ pstmt.segment_count = l
  BY <1>1, <1>2 DEF DInv, Counted, MInv, OnTheWayDown, Appending, Descending
<1>4. Len(tokens) \in Nat \ {0} /\ l \in 1..(Len(tokens) + 1)
  <2>1. Len(tokens) \in Nat \ {0} /\ PartStart \in [1..(Len(tokens) + 1) -> Nat]
    BY <1>1, OnTheLine, PartStartRecursion
  <2> QED
    BY <1>3, <2>1
<1>5. /\ PartStart' = PartStart /\ (IsDeclaration' <=> IsDeclaration)
      /\ \A k : /\ CallAt(PartStart[k])' = CallAt(PartStart[k])
                /\ Formed(PartStart[k])' <=> Formed(PartStart[k])
  BY <1>1, SameStarts, SameMeaning, SameParts
<1>6. Len(calls') = l /\ tokens'[1].type = "TOKEN_DATA_TYPE" /\ l - 1 + 1 = l
  BY <1>1, <1>2, <1>3
<1>7. \A k \in 1..Len(calls') : calls'[k] = CallAt(PartStart[k])'
  BY <1>1, <1>3, <1>5, <1>6, Zenon
\* What is known when a separator follows.
<1>8. ASSUME TypeAt(pos) \in Separators
      PROVE  /\ \A k \in 1..l : Formed(PartStart[k])' /\ Formed(PartStart[k])
             /\ l + 1 \in DOMAIN PartStart /\ PartStart[l + 1] = pos + 1
  <2>1. /\ Formed(PartStart[l]) /\ l + 1 \in DOMAIN PartStart
        /\ PartStart[l + 1] = pos + 1
    BY <1>1, <1>3, <1>8, PartEnds
  <2>2. \A k \in 1..l : k = l \/ k \in 1..(l - 1)
    BY <1>4
  <2>3. \A k \in 1..l : Formed(PartStart[k])
    BY <1>3, <2>1, <2>2, Zenon
  <2> QED
    BY <1>5, <2>1, <2>3, Zenon
<1>9. CASE pc' = "dec"
  <2>1. TypeAt(pos) = "TOKEN_COMMA" /\ pos' = pos + 1
    BY <1>9 DEF identifier_dec2, GoTo
  <2>2. TypeAt(pos) \in Separators
    BY <2>1 DEF Separators
  <2>3. \A k \in 1..Len(calls') : Formed(PartStart[k])'
    BY <1>6, <1>8, <2>2, Zenon
  <2>4. Len(calls') + 1 \in DOMAIN PartStart' /\ pos' = PartStart'[Len(calls') + 1]
    BY <1>5, <1>6, <1>8, <2>1, <2>2, Zenon
  <2>5. OnTheWayDown'
    BY <1>6, <1>7, <1>9, <2>3, <2>4 DEF OnTheWayDown, Descending
  <2>6. Appending'
    BY <1>1, <1>3, <1>9 DEF Appending, Descending
  <2> QED
    BY <1>9, <2>5, <2>6 DEF MInv, FailsForItsText, AllCounted, AllFilled, Outcome
<1>10. CASE pc' = "fill"
  <2>1. /\ TypeAt(pos) = "TOKEN_EOF"
        /\ pstmt' = [pstmt EXCEPT !.allocated = TRUE, !.is_fully_uninit = TRUE,
                        !.segments = [k \in 1..pstmt.segment_count |-> NoSegment]]
    BY <1>10 DEF identifier_dec2, GoTo
  <2>2. TypeAt(pos) \in Separators
    BY <2>1 DEF Separators
  <2>3. pstmt'.segment_count = l /\ pstmt'.is_fully_uninit = TRUE
    BY <1>1, <1>3, <2>1 DEF FreshStatement
  <2>4. pos = Len(tokens)
    <3>1. pos \in DOMAIN tokens /\ tokens[pos].type = "TOKEN_EOF"
      BY <1>1, <2>1, OnTheLine DEF TypeAt
    <3> QED
      BY <1>1, <3>1, DeclarationAssumption
  <2>5. \A k \in 1..pstmt'.segment_count : Formed(PartStart[k])'
    BY <1>8, <2>2, <2>3, Zenon
  <2>6. PartStart'[pstmt'.segment_count + 1] = Len(tokens') + 1
        /\ pstmt'.segment_count + 1 \in DOMAIN PartStart'
    BY <1>1, <1>5, <1>8, <2>2, <2>3, <2>4, Zenon
  <2>7. AllCounted'
    BY <1>6, <2>5, <2>6 DEF AllCounted
  <2>8. OnTheWayDown'
    BY <1>6, <1>7, <1>10 DEF OnTheWayDown, Descending
  <2>9. AllFilled'
    <3>1. FilledParts' = {}
      BY <1>4, <1>6, <1>10, <2>3 DEF FilledParts
    <3> QED
      BY <1>10, <2>3, <3>1, Zenon DEF AllFilled
  <2>10. Appending'
    BY <1>1, <1>3, <1>10 DEF Appending, Descending
  <2> QED
    BY <1>10, <2>7, <2>8, <2>9, <2>10 DEF MInv, FailsForItsText, Outcome
<1>11. CASE pc' = "fail"
  <2>1. AllocationFails \/ TypeAt(pos) \notin {"TOKEN_COMMA", "TOKEN_EOF"}
    BY <1>11 DEF identifier_dec2, GoTo
  <2>2. ASSUME TypeAt(pos) \notin {"TOKEN_COMMA", "TOKEN_EOF"}
        PROVE  ~IsDeclaration
    <3>1. PICK n : n = PartStart[l]
      OBVIOUS
    <3>2. ReadUpTo(n, pos)
      BY <1>3, <3>1, Zenon
    <3>3. ~Formed(n)
      <4>1. ASSUME NEW e, ReadUpTo(n, e)
            PROVE  e = pos
        BY <3>2, <4>1 DEF ReadUpTo
      <4> QED
        BY <2>2, <4>1 DEF Formed, Separators
    <3>4. PartStart[l] <= Len(tokens) /\ ~Formed(PartStart[l])
      BY <1>3, <1>4, <3>1, <3>3
    <3> QED
      BY <1>1, <1>3, <1>4, <3>4, OnePartFails
  <2>3. AllocationFails' \/ ~IsDeclaration'
    BY <1>5, <2>1, <2>2 DEF AllocationFails
  <2>4. Appending'
    BY <1>1, <1>3, <1>11 DEF Appending
  <2> QED
    BY <1>11, <2>3, <2>4 DEF MInv, OnTheWayDown, FailsForItsText, AllCounted, AllFilled,
                             Outcome, Descending
<1> QED
  BY <1>1, <1>9, <1>10, <1>11

\* A part is stored as its tokens say, at the place of the call that returns; a
\* part whose numbers do not fit makes the line no declaration.
LEMMA FillMeans ==
  ASSUME DInv, MInv, FillSegment
  PROVE  MInv'
<1>1. /\ tokens \in Declarations /\ tokens' = tokens
      /\ calls \in Seq([kind : SegmentKinds, at : Nat]) /\ calls # << >>
      /\ i' = i /\ data' = data /\ dtsg' = dtsg /\ pc = "fill" /\ pc' \in {"fill", "fail"}
      /\ DOMAIN pstmt = DOMAIN FreshStatement /\ pstmt.segment_count \in Nat
      /\ Len(calls) <= pstmt.segment_count /\ DOMAIN pstmt.segments = 1..pstmt.segment_count
  BY DEF DInv, Kinds, Counted, FillSegment, GoTo
<1>2. PICK l \in Nat \ {0} : l = Len(calls)
  BY <1>1, WithoutLast
<1>3. PICK count \in Nat : count = pstmt.segment_count /\ l <= count
  BY <1>1, <1>2
<1>4. /\ tokens[1].type = "TOKEN_DATA_TYPE" /\ count + 1 \in DOMAIN PartStart
      /\ PartStart[count + 1] = Len(tokens) + 1
      /\ \A k \in 1..count : Formed(PartStart[k])
      /\ \A k \in 1..l : calls[k] = CallAt(PartStart[k])
      /\ i = 1 /\ data = << >> /\ dtsg.size = 0
  BY <1>1, <1>2, <1>3 DEF MInv, OnTheWayDown, AllCounted, Appending, Descending
<1>5. /\ \A k \in (l + 1)..count : /\ PartParses(CallAt(PartStart[k]))
                                   /\ pstmt.segments[k] = FilledSegment(CallAt(PartStart[k]))
      /\ pstmt.is_fully_uninit \in BOOLEAN
      /\ pstmt.is_fully_uninit <=> \A k \in (l + 1)..count : pstmt.segments[k].is_uninit
  <2>1. FilledParts = (l + 1)..count
    BY <1>1, <1>2, <1>3, Zenon DEF FilledParts
  <2> QED
    BY <1>1, <2>1, Zenon DEF MInv, AllFilled
<1>6. PICK n : n = PartStart[l] /\ Formed(n) /\ call = CallAt(n)
  <2>1. l \in 1..count /\ l \in 1..l
    BY <1>2, <1>3
  <2> QED
    BY <1>2, <1>4, <2>1, Zenon DEF call
<1>7. /\ PartStart' = PartStart /\ (IsDeclaration' <=> IsDeclaration)
      /\ \A k : /\ CallAt(PartStart[k])' = CallAt(PartStart[k])
                /\ Formed(PartStart[k])' <=> Formed(PartStart[k])
                /\ PartParses(CallAt(PartStart[k]))' <=> PartParses(CallAt(PartStart[k]))
                /\ FilledSegment(CallAt(PartStart[k]))' = FilledSegment(CallAt(PartStart[k]))
  BY <1>1, SameStarts, SameMeaning, SameParts
<1>8. CASE pc' = "fail"
  <2>1. ~PartParses(CallAt(n))
    BY <1>1, <1>6, <1>8 DEF FillSegment
  <2>2. l \in 1..(Len(tokens) + 1) /\ PartStart[l] <= Len(tokens)
    <3>1. Len(tokens) \in Nat /\ DOMAIN PartStart = 1..(Len(tokens) + 1)
      BY <1>1, OnTheLine, PartStartRecursion
    <3>2. n \in 2..Len(tokens)
      BY <1>6 DEF Formed
    <3> QED
      BY <1>2, <1>3, <1>4, <1>6, <3>1, <3>2
  <2>3. ~PartParses(CallAt(PartStart[l]))
    BY <1>6, <2>1, Zenon
  <2>4. ~IsDeclaration
    BY <1>1, <1>4, <2>2, <2>3, OnePartFails
  <2>5. Appending'
    BY <1>1, <1>4, <1>8 DEF Appending
  <2> QED
    BY <1>7, <1>8, <2>4, <2>5 DEF MInv, OnTheWayDown, FailsForItsText, AllCounted, AllFilled,
                                  Outcome, Descending
<1>9. CASE pc' = "fill"
  <2>1. PICK f : f = FilledSegment(CallAt(n))
    OBVIOUS
  <2>2. /\ PartParses(CallAt(n)) /\ calls' = SubSeq(calls, 1, Len(calls) - 1)
        /\ pstmt' = [pstmt EXCEPT !.segments[l] = f, !.is_fully_uninit = @ /\ f.is_uninit]
    <3>1. ~(pc' = "fail")
      BY <1>9
    <3>2. /\ PartParses(call) /\ calls' = SubSeq(calls, 1, Len(calls) - 1)
          /\ pstmt' = [pstmt EXCEPT !.segments[l] = FilledSegment(call),
                                    !.is_fully_uninit = @ /\ FilledSegment(call).is_uninit]
      BY <1>2, <3>1, Zenon DEF FillSegment, GoTo, SegmentIndex
    <3> QED
      BY <1>6, <2>1, <3>2, Zenon
  <2>3. f.is_uninit \in BOOLEAN
    BY <1>1, <1>4, <1>6, <2>1, <2>2, PartIsWritten
  <2>4. PICK u \in BOOLEAN : u = (pstmt.is_fully_uninit /\ f.is_uninit)
    BY <1>5, <2>3
  <2>5. pstmt' = [pstmt EXCEPT !.segments[l] = f, !.is_fully_uninit = u]
    BY <2>2, <2>4, Zenon
  <2>6. /\ pstmt'.segment_count = count
        /\ pstmt'.segments = [pstmt.segments EXCEPT ![l] = f]
        /\ pstmt'.is_fully_uninit = u
    BY <1>1, <1>3, <2>5 DEF FreshStatement
  <2>7. /\ \A k \in (l + 1)..count : pstmt'.segments[k] = pstmt.segments[k]
        /\ pstmt'.segments[l] = f
    BY <1>1, <1>2, <1>3, <2>6
  <2>8. Len(calls') = l - 1 /\ \A k \in 1..(l - 1) : calls'[k] = calls[k]
    BY <1>1, <1>2, <2>2, WithoutLast
  <2>9. \A k \in l..count : k = l \/ k \in (l + 1)..count
    BY <1>2, <1>3
  <2>10. FilledParts' = l..count
    <3>1. Len(calls') + 1 = l
      BY <1>2, <2>8
    <3> QED
      BY <1>9, <2>6, <3>1, Zenon DEF FilledParts
  <2>11. \A k \in l..count : /\ PartParses(CallAt(PartStart[k]))'
                             /\ pstmt'.segments[k] = FilledSegment(CallAt(PartStart[k]))'
    <3>1. PartParses(CallAt(PartStart[l])) /\ f = FilledSegment(CallAt(PartStart[l]))
      BY <1>6, <2>1, <2>2, Zenon
    <3> QED
      BY <1>5, <1>7, <2>7, <2>9, <3>1, Zenon
  <2>12. u <=> \A k \in l..count : pstmt'.segments[k].is_uninit
    <3>1. l \in l..count /\ \A k \in (l + 1)..count : k \in l..count
      BY <1>2, <1>3
    <3> QED
      BY <1>5, <2>4, <2>7, <2>9, <3>1, Zenon
  <2>13. AllFilled'
    BY <1>9, <2>6, <2>10, <2>11, <2>12, Zenon DEF AllFilled
  <2>14. AllCounted'
    <3>1. /\ tokens'[1].type = "TOKEN_DATA_TYPE" /\ pstmt'.segment_count + 1 \in DOMAIN PartStart'
          /\ PartStart'[pstmt'.segment_count + 1] = Len(tokens') + 1
      BY <1>1, <1>4, <1>7, <2>6, Zenon
    <3>2. \A k \in 1..pstmt'.segment_count : Formed(PartStart[k])'
      BY <1>4, <1>7, <2>6, Zenon
    <3> QED
      BY <3>1, <3>2 DEF AllCounted
  <2>15. OnTheWayDown'
    <3>1. \A k \in 1..(l - 1) : k \in 1..l
      BY <1>2
    <3>2. \A k \in 1..Len(calls') : calls'[k] = CallAt(PartStart[k])'
      BY <1>4, <1>7, <2>8, <3>1, Zenon
    <3> QED
      BY <1>9, <3>2 DEF OnTheWayDown, Descending
  <2>16. Appending'
    BY <1>1, <1>4, <1>9 DEF Appending
  <2> QED
    BY <1>9, <2>13, <2>14, <2>15, <2>16 DEF MInv, FailsForItsText, Outcome
<1> QED
  BY <1>1, <1>8, <1>9

\* When all calls have returned the statement gets the size of what it means.
LEMMA TotalMeans ==
  ASSUME DInv, MInv, segment_set_dd_total_size
  PROVE  MInv'
<1>1. /\ tokens \in Declarations /\ tokens' = tokens /\ calls' = calls
      /\ i' = i /\ data' = data /\ dtsg' = dtsg /\ pc = "fill" /\ pc' = "append"
      /\ DOMAIN pstmt = DOMAIN FreshStatement
  BY DEF DInv, Kinds, segment_set_dd_total_size, GoTo
<1>2. PICK count \in Nat : count = pstmt.segment_count
  BY DEF DInv, Kinds
<1>3. PICK size : size = SizeBefore[count + 1]
  OBVIOUS
<1>4. pstmt' = [pstmt EXCEPT !.type = "STMT_DATA_DECL", !.total_size = size]
  BY <1>2, <1>3, Zenon DEF segment_set_dd_total_size
<1>5. /\ pstmt'.segment_count = count /\ pstmt'.segments = pstmt.segments
      /\ pstmt'.is_fully_uninit = pstmt.is_fully_uninit /\ pstmt'.total_size = size
  BY <1>1, <1>2, <1>4 DEF FreshStatement
<1>6. /\ tokens[1].type = "TOKEN_DATA_TYPE" /\ count + 1 \in DOMAIN PartStart
      /\ PartStart[count + 1] = Len(tokens) + 1
      /\ \A k \in 1..count : Formed(PartStart[k])
      /\ i = 1 /\ data = << >> /\ dtsg.size = 0
  BY <1>1, <1>2 DEF MInv, AllCounted, Appending
<1>7. FilledParts = 1..count /\ FilledParts' = 1..count
  <2>1. Len(calls) + 1 = 1
    <3>1. calls = << >>
      BY DEF segment_set_dd_total_size
    <3> QED
      BY <3>1
  <2> QED
    BY <1>1, <1>2, <1>5, <2>1 DEF FilledParts
<1>8. /\ \A k \in 1..count : /\ PartParses(CallAt(PartStart[k]))
                             /\ pstmt.segments[k] = FilledSegment(CallAt(PartStart[k]))
      /\ pstmt.is_fully_uninit \in BOOLEAN
      /\ pstmt.is_fully_uninit <=> \A k \in 1..count : pstmt.segments[k].is_uninit
  BY <1>1, <1>7, Zenon DEF MInv, AllFilled
<1>9. /\ PartStart' = PartStart /\ Meaning' = Meaning /\ MeaningUpTo' = MeaningUpTo
      /\ \A k : /\ Formed(PartStart[k])' <=> Formed(PartStart[k])
                /\ PartParses(CallAt(PartStart[k]))' <=> PartParses(CallAt(PartStart[k]))
                /\ FilledSegment(CallAt(PartStart[k]))' = FilledSegment(CallAt(PartStart[k]))
  BY <1>1, SameStarts, SameMeaning, SameParts
<1>10. /\ Len(tokens) \in Nat \ {0} /\ DOMAIN PartStart = 1..(Len(tokens) + 1)
       /\ PartStart[1] = 2
  BY <1>1, OnTheLine, PartStartRecursion
<1>11. count + 1 \in 1..(Len(tokens) + 1)
  BY <1>6, <1>10
<1>12. \A n \in Firsts : PartBytes(Part(n)) \in Seq(Nat)
  BY <1>1, <1>2, <1>6, <1>8, <1>11, AllPartsRead
<1>13. size = Len(Meaning) % (SizeMax + 1)
  <2>1. SizeBefore[count + 1] = Size(Len(Meaning))
    BY <1>1, <1>2, <1>6, <1>8, <1>11, SizesAddUp
  <2> QED
    BY <1>3, <2>1, Zenon DEF Size
<1>14. AllFilled'
  BY <1>1, <1>5, <1>7, <1>8, <1>9, Zenon DEF AllFilled
<1>15. AllCounted'
  <2>1. /\ tokens'[1].type = "TOKEN_DATA_TYPE" /\ pstmt'.segment_count + 1 \in DOMAIN PartStart'
        /\ PartStart'[pstmt'.segment_count + 1] = Len(tokens') + 1
    BY <1>1, <1>5, <1>6, <1>9, Zenon
  <2>2. \A k \in 1..pstmt'.segment_count : Formed(PartStart[k])'
    BY <1>5, <1>6, <1>9, Zenon
  <2> QED
    BY <2>1, <2>2 DEF AllCounted
<1>16. Appending'
  <2>1. MeaningUpTo'[PartStart'[1] - 1] = << >>
    <3>1. MeaningUpTo[1] = << >>
      BY <1>1, <1>12, BytesUpTo
    <3>2. PartStart[1] - 1 = 1
      BY <1>10
    <3> QED
      BY <1>9, <3>1, <3>2, Zenon
  <2>2. pstmt'.total_size = Len(Meaning') % (SizeMax + 1)
    BY <1>5, <1>9, <1>13, Zenon
  <2>3. i' \in 1..(pstmt'.segment_count + 1)
    BY <1>1, <1>2, <1>5, <1>6
  <2>4. data' = MeaningUpTo'[PartStart'[i'] - 1] /\ dtsg'.size = Len(data')
    <3>1. data' = MeaningUpTo'[PartStart'[i'] - 1]
      BY <1>1, <1>6, <2>1, Zenon
    <3> QED
      BY <1>1, <1>6, <3>1
  <2> QED
    BY <1>1, <2>2, <2>3, <2>4 DEF Appending, Descending
<1> QED
  BY <1>1, <1>14, <1>15, <1>16 DEF MInv, OnTheWayDown, FailsForItsText, Outcome, Descending

\* The bytes of a part follow those of the parts before it; when they do not fit
\* the line means more than the segment holds.
LEMMA AppendMeans ==
  ASSUME DInv, MInv, AppendSegment
  PROVE  MInv'
<1>1. /\ tokens \in Declarations /\ tokens' = tokens /\ calls' = calls /\ pstmt' = pstmt
      /\ pc = "append" /\ pc' \in {"append", "free"} /\ SizeMax \in Nat
  BY SegmentAssumption DEF DInv, Kinds, AppendSegment
<1>2. PICK count \in Nat : count = pstmt.segment_count
  BY DEF DInv, Kinds
<1>3. /\ tokens[1].type = "TOKEN_DATA_TYPE" /\ count + 1 \in DOMAIN PartStart
      /\ PartStart[count + 1] = Len(tokens) + 1
      /\ \A k \in 1..count : Formed(PartStart[k])
      /\ data = MeaningUpTo[PartStart[i] - 1] /\ dtsg.size = Len(data)
      /\ pstmt.total_size = Len(Meaning) % (SizeMax + 1)
      /\ i \in 1..(count + 1)
  BY <1>1, <1>2 DEF MInv, AllCounted, Appending
<1>4. PICK m \in 1..count : m = i
  <2>1. i <= count
    BY <1>2 DEF AppendSegment
  <2> QED
    BY <1>3, <2>1
<1>5. \A k \in 1..count : /\ PartParses(CallAt(PartStart[k]))
                          /\ pstmt.segments[k] = FilledSegment(CallAt(PartStart[k]))
  <2>1. FilledParts = 1..count
    BY <1>1, <1>2 DEF FilledParts
  <2> QED
    BY <1>1, <2>1, Zenon DEF MInv, AllFilled
<1>6. /\ Len(tokens) \in Nat \ {0} /\ DOMAIN PartStart = 1..(Len(tokens) + 1)
      /\ count + 1 \in 1..(Len(tokens) + 1)
  <2>1. Len(tokens) \in Nat \ {0} /\ DOMAIN PartStart = 1..(Len(tokens) + 1)
    BY <1>1, OnTheLine, PartStartRecursion
  <2> QED
    BY <1>3, <2>1
<1>7. IsDeclaration /\ \A n \in Firsts : PartBytes(Part(n)) \in Seq(Nat)
  BY <1>1, <1>3, <1>5, <1>6, AllPartsRead
<1>8. PICK n \in 2..Len(tokens) : n = PartStart[m] /\ Formed(n) /\ PartParses(CallAt(n))
  <2>1. PICK n : n = PartStart[m]
    OBVIOUS
  <2>2. Formed(n) /\ PartParses(CallAt(n))
    BY <1>3, <1>4, <1>5, <2>1, Zenon
  <2>3. n \in 2..Len(tokens)
    BY <2>2 DEF Formed
  <2> QED
    BY <2>1, <2>2, <2>3
<1>9. PICK e : e = EndOf(n)
  OBVIOUS
<1>10. m \in 1..Len(tokens) /\ PartStart[m + 1] = e + 1 /\ PartStart[m] <= Len(tokens)
  <2>1. m \in 1..Len(tokens) /\ ~(PartStart[m] > Len(tokens)) /\ PartStart[m] <= Len(tokens)
    BY <1>2, <1>4, <1>6, <1>8
  <2>2. PartStart[m + 1] = EndOf(PartStart[m]) + 1
    BY <1>1, <2>1, PartStartRecursion
  <2> QED
    BY <1>8, <1>9, <2>1, <2>2, Zenon
<1>11. n \in Firsts
  <2>1. m \in 1..(Len(tokens) + 1)
    BY <1>6, <1>10
  <2>2. PartStart[m] \in Firsts
    BY <1>1, <1>10, <2>1, StartsAreFirsts
  <2> QED
    BY <1>8, <2>2, Zenon
<1>12. n - 1 \in 1..Len(tokens) /\ e \in 1..Len(tokens)
       /\ MeaningUpTo[e] = MeaningUpTo[n - 1] \o PartBytes(Part(n))
  BY <1>1, <1>7, <1>9, <1>11, BytesOfNextPart
<1>13. PICK v \in Seq(Nat) : v = PartBytes(Part(n))
  BY <1>7, <1>11
<1>14. PICK u \in Seq(Nat) : u = MeaningUpTo[n - 1]
  <2>1. MeaningUpTo \in [1..Len(tokens) -> Seq(Nat)]
    BY <1>1, <1>7, BytesUpTo
  <2> QED
    BY <1>12, <2>1
<1>15. BytesOf(pstmt.segments[i]) = v
  <2>1. PICK segment : segment = FilledSegment(CallAt(n))
    OBVIOUS
  <2>2. pstmt.segments[m] = segment
    BY <1>4, <1>5, <1>8, <2>1, Zenon
  <2>3. BytesOf(segment) = PartBytes(Part(n))
    BY <1>1, <1>3, <1>8, <2>1, PartIsWritten
  <2> QED
    BY <1>4, <1>13, <2>2, <2>3, Zenon
<1>16. data = u /\ dtsg.size = Len(u) /\ MeaningUpTo[e] = u \o v
  <2>1. data = u /\ MeaningUpTo[e] = u \o v
    BY <1>3, <1>4, <1>8, <1>12, <1>13, <1>14, Zenon
  <2> QED
    BY <1>3, <2>1, Zenon
<1>17. Len(u \o v) = Len(u) + Len(v) /\ Len(u) \in Nat /\ Len(v) \in Nat
  <2>1. Len(u \o v) = Len(u) + Len(v)
    BY <1>13, <1>14, ConcatProperties, Zenon
  <2> QED
    BY <1>13, <1>14, <2>1
<1>18. /\ PartStart' = PartStart /\ Meaning' = Meaning /\ MeaningUpTo' = MeaningUpTo
       /\ IsDeclaration' <=> IsDeclaration
       /\ \A k : /\ Formed(PartStart[k])' <=> Formed(PartStart[k])
                 /\ PartParses(CallAt(PartStart[k]))' <=> PartParses(CallAt(PartStart[k]))
                 /\ FilledSegment(CallAt(PartStart[k]))' = FilledSegment(CallAt(PartStart[k]))
  BY <1>1, SameStarts, SameMeaning, SameParts
<1>19. CASE pc' = "append"
  <2>1. dtsg' = Appended(dtsg, Len(v)) /\ data' = data \o v /\ i' = i + 1
    <3>1. /\ dtsg' = Appended(dtsg, Len(BytesOf(pstmt.segments[i])))
          /\ data' = data \o BytesOf(pstmt.segments[i]) /\ i' = i + 1
      BY <1>19 DEF AppendSegment
    <3> QED
      BY <1>15, <3>1, Zenon
  <2>2. data' = u \o v /\ dtsg'.size = Len(u) + Len(v)
    <3>1. data' = u \o v
      BY <1>16, <2>1, Zenon
    <3>2. dtsg'.size = dtsg.size + Len(v)
      BY <2>1 DEF Appended
    <3> QED
      BY <1>16, <3>1, <3>2, Zenon
  <2>3. data' = MeaningUpTo'[PartStart'[i'] - 1]
    <3>1. i' = m + 1 /\ PartStart[m + 1] - 1 = e
      BY <1>4, <1>10, <1>12, <2>1
    <3> QED
      BY <1>16, <1>18, <2>2, <3>1, Zenon
  <2>4. dtsg'.size = Len(data')
    BY <1>17, <2>2, Zenon
  <2>5. i' \in 1..(pstmt'.segment_count + 1)
    BY <1>1, <1>2, <1>4, <2>1
  <2>6. pstmt'.total_size = Len(Meaning') % (SizeMax + 1)
    BY <1>1, <1>3, <1>18, Zenon
  <2>7. Appending'
    BY <1>19, <2>3, <2>4, <2>5, <2>6 DEF Appending, Descending
  <2>8. AllCounted'
    BY <1>1, <1>18, <1>19, Zenon DEF MInv, AllCounted
  <2>9. AllFilled'
    BY <1>1, <1>18, <1>19, Zenon DEF MInv, AllFilled, FilledParts
  <2> QED
    BY <1>19, <2>7, <2>8, <2>9 DEF MInv, OnTheWayDown, FailsForItsText, Outcome, Descending
<1>20. CASE pc' = "free"
  <2>1. result' = "cannot append"
        /\ (~Fits(dtsg, Len(v)) \/ AllocationFails)
    <3>1. /\ result' = "cannot append"
          /\ ~Fits(dtsg, Len(BytesOf(pstmt.segments[i]))) \/ AllocationFails
      BY <1>1, <1>20 DEF AppendSegment
    <3> QED
      BY <1>15, <3>1, Zenon
  <2>2. ASSUME ~Fits(dtsg, Len(v))
        PROVE  Len(Meaning) > SizeMax
    <3>1. ~(Len(u) <= SizeMax - Len(v))
      BY <1>16, <2>2 DEF Fits
    <3>2. Len(u) + Len(v) > SizeMax
      BY <1>1, <1>17, <3>1
    <3>3. Len(MeaningUpTo[e]) <= Len(Meaning)
      BY <1>1, <1>7, <1>12, BytesOnlyGrow
    <3>4. Len(MeaningUpTo[e]) = Len(u) + Len(v)
      BY <1>16, <1>17, Zenon
    <3>5. Len(Meaning) \in Nat
      <4>1. Meaning \in Seq(Nat)
        <5>1. MeaningUpTo \in [1..Len(tokens) -> Seq(Nat)] /\ Meaning = MeaningUpTo[Len(tokens)]
          BY <1>1, <1>7, BytesUpTo
        <5>2. Len(tokens) \in 1..Len(tokens)
          BY <1>6
        <5> QED
          BY <5>1, <5>2
      <4> QED
        BY <4>1
    <3> QED
      BY <1>1, <1>17, <3>2, <3>3, <3>4, <3>5
  <2>3. Outcome'
    <3>1. IsDeclaration' /\ (AllocationFails' \/ Len(Meaning') > SizeMax)
      BY <1>7, <1>18, <2>1, <2>2, Zenon DEF AllocationFails
    <3> QED
      BY <2>1, <3>1 DEF Outcome
  <2> QED
    BY <1>20, <2>3 DEF MInv, OnTheWayDown, FailsForItsText, AllCounted, AllFilled,
                       Appending, Descending
<1> QED
  BY <1>1, <1>19, <1>20

\* After the last part every byte the line means is written.
LEMMA AllAppendedMeans ==
  ASSUME DInv, MInv, AllAppended
  PROVE  MInv'
<1>1. /\ tokens \in Declarations /\ tokens' = tokens /\ data' = data
      /\ pc = "append" /\ pc' = "free" /\ result' = "accepted"
  BY DEF DInv, Kinds, AllAppended, GoTo
<1>2. PICK count \in Nat : count = pstmt.segment_count
  BY DEF DInv, Kinds
<1>3. /\ tokens[1].type = "TOKEN_DATA_TYPE" /\ count + 1 \in DOMAIN PartStart
      /\ PartStart[count + 1] = Len(tokens) + 1
      /\ \A k \in 1..count : Formed(PartStart[k])
      /\ data = MeaningUpTo[PartStart[i] - 1] /\ i \in 1..(count + 1)
  BY <1>1, <1>2 DEF MInv, AllCounted, Appending
<1>4. i = count + 1
  BY <1>2, <1>3 DEF AllAppended
<1>5. \A k \in 1..count : PartParses(CallAt(PartStart[k]))
  <2>1. FilledParts = 1..count
    BY <1>1, <1>2 DEF FilledParts
  <2> QED
    BY <1>1, <2>1, Zenon DEF MInv, AllFilled
<1>6. /\ Len(tokens) \in Nat \ {0} /\ count + 1 \in 1..(Len(tokens) + 1)
  <2>1. Len(tokens) \in Nat \ {0} /\ DOMAIN PartStart = 1..(Len(tokens) + 1)
    BY <1>1, OnTheLine, PartStartRecursion
  <2> QED
    BY <1>3, <2>1
<1>7. IsDeclaration /\ \A n \in Firsts : PartBytes(Part(n)) \in Seq(Nat)
  BY <1>1, <1>3, <1>5, <1>6, AllPartsRead
<1>8. data = Meaning
  <2>1. Meaning = MeaningUpTo[Len(tokens)]
    BY <1>1, <1>7, BytesUpTo
  <2>2. PartStart[count + 1] - 1 = Len(tokens)
    BY <1>3, <1>6
  <2> QED
    BY <1>3, <1>4, <2>1, <2>2, Zenon
<1>9. (IsDeclaration' <=> IsDeclaration) /\ Meaning' = Meaning
  BY <1>1, SameMeaning
<1>10. Outcome'
  BY <1>1, <1>7, <1>8, <1>9 DEF Outcome
<1> QED
  BY <1>1, <1>10 DEF MInv, OnTheWayDown, FailsForItsText, AllCounted, AllFilled,
                     Appending, Descending

-----------------------------------------------------------------------------
(* The theorems about the meaning.                                         *)

\* At every step the calls are those of the parts of the line, the parts stored
\* are what their tokens say, and the bytes written are those meant so far.
THEOREM MeaningInvariant == Spec => [](DInv /\ MInv)
<1>1. Init => DInv /\ MInv
  BY DeclarationStarts, MeaningStarts
<1>2. DInv /\ MInv /\ [Next]_vars => (DInv /\ MInv)'
  <2> SUFFICES ASSUME DInv, MInv, [Next]_vars PROVE DInv' /\ MInv'
    OBVIOUS
  <2>1. CASE p_stmt_create
    BY <2>1, CreateKeeps, CreateMeans
  <2>2. CASE identifier_dec
    BY <2>2, DecKeeps, DecMeans
  <2>3. CASE identifier_dup
    BY <2>3, DupKeeps, DupMeans
  <2>4. CASE identifier_dec2
    BY <2>4, Dec2Keeps, Dec2Means
  <2>5. CASE FillSegment
    BY <2>5, FillKeeps, FillMeans
  <2>6. CASE segment_remove_last
    BY <2>6, RemoveKeeps, RefuseMeans
  <2>7. CASE Refuse
    BY <2>7, RefuseKeeps, RefuseMeans
  <2>8. CASE segment_set_dd_total_size
    BY <2>8, TotalKeeps, TotalMeans
  <2>9. CASE AppendSegment
    BY <2>9, AppendKeeps, AppendMeans
  <2>10. CASE AllAppended
    BY <2>10, AppendKeeps, AllAppendedMeans
  <2>11. CASE p_stmt_free
    BY <2>11, FreeKeeps, FreeMeans
  <2>12. CASE Done \/ UNCHANGED vars
    BY <2>12, DeclarationStutters, MeaningStutters DEF Done
  <2> QED
    BY <2>1, <2>2, <2>3, <2>4, <2>5, <2>6, <2>7, <2>8, <2>9, <2>10, <2>11, <2>12 DEF Next
<1> QED
  BY <1>1, <1>2, PTL DEF Spec

\* Pass 2 gives every line of the data section, of any length, the bytes it
\* means, in the order of its parts, and refuses what is not a declaration.
THEOREM DeclarationsGiveTheirBytes == Spec => []WritesItsMeaning
<1>1. MInv => WritesItsMeaning
  BY DEF MInv, Outcome, WritesItsMeaning
<1> QED
  BY MeaningInvariant, <1>1, PTL

\* A statement needs no initial value when each part of the line is a ?.
LEMMA UninitIsMeant ==
  ASSUME DInv, MInv, pc = "append"
  PROVE  pstmt.is_fully_uninit <=>
           \A n \in Firsts : \E k \in DOMAIN Part(n) : Part(n)[k].type = "TOKEN_QUESTION"
<1> DEFINE Q(n) == \E k \in DOMAIN Part(n) : Part(n)[k].type = "TOKEN_QUESTION"
<1>1. tokens \in Declarations
  BY DEF DInv, Kinds
<1>2. PICK count \in Nat : count = pstmt.segment_count
  BY DEF DInv, Kinds
<1>3. /\ tokens[1].type = "TOKEN_DATA_TYPE" /\ count + 1 \in DOMAIN PartStart
      /\ PartStart[count + 1] = Len(tokens) + 1
      /\ \A k \in 1..count : Formed(PartStart[k])
  BY <1>2 DEF MInv, AllCounted
<1>4. /\ Len(tokens) \in Nat \ {0} /\ DOMAIN PartStart = 1..(Len(tokens) + 1)
      /\ count + 1 \in 1..(Len(tokens) + 1)
  <2>1. Len(tokens) \in Nat \ {0} /\ DOMAIN PartStart = 1..(Len(tokens) + 1)
    BY <1>1, OnTheLine, PartStartRecursion
  <2> QED
    BY <1>3, <2>1
<1>5. FilledParts = 1..count
  BY <1>2 DEF FilledParts
<1>6. /\ \A k \in 1..count : /\ PartParses(CallAt(PartStart[k]))
                             /\ pstmt.segments[k] = FilledSegment(CallAt(PartStart[k]))
      /\ pstmt.is_fully_uninit <=> \A k \in 1..count : pstmt.segments[k].is_uninit
  BY <1>5, Zenon DEF MInv, AllFilled
<1>7. ASSUME NEW k \in 1..count
      PROVE  PartStart[k] \in Firsts /\ (pstmt.segments[k].is_uninit <=> Q(PartStart[k]))
  <2>1. PICK n : n = PartStart[k]
    OBVIOUS
  <2>2. Formed(n) /\ PartParses(CallAt(n))
    BY <1>3, <1>6, <2>1, Zenon
  <2>3. PICK segment : segment = FilledSegment(CallAt(n))
    OBVIOUS
  <2>4. segment.is_uninit <=> Q(n)
    BY <1>1, <1>3, <2>2, <2>3, PartIsWritten
  <2>5. PartStart[k] \in Firsts
    <3>1. n \in 2..Len(tokens)
      BY <2>2 DEF Formed
    <3>2. k \in 1..(Len(tokens) + 1) /\ PartStart[k] <= Len(tokens)
      BY <1>2, <1>4, <2>1, <3>1
    <3> QED
      BY <1>1, <3>2, StartsAreFirsts
  <2> HIDE DEF Q
  <2> QED
    BY <1>6, <2>1, <2>3, <2>4, <2>5, Zenon
<1>8. \A n \in Firsts : \E k \in 1..count : PartStart[k] = n
  BY <1>1, <1>3, <1>4, NoPartIsMissed
<1>9. pstmt.is_fully_uninit <=> \A n \in Firsts : Q(n)
  <2> HIDE DEF Q
  <2> QED
    BY <1>6, <1>7, <1>8, Zenon
<1> QED
  BY <1>9

\* What pass 1 reserves for a line of the data section is what pass 2 appends,
\* and only a line of nothing but ? needs no initial value.
THEOREM SummariesAreRight == Spec => []SummaryIsRight
<1>1. DInv /\ MInv => SummaryIsRight
  BY UninitIsMeant DEF MInv, Appending, SummaryIsRight
<1> QED
  BY MeaningInvariant, <1>1, PTL
=============================================================================
