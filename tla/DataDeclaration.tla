-------------------------- MODULE DataDeclaration --------------------------
(***************************************************************************)
(* A line of the data section in pass 2: the recursive descent over the    *)
(* tokens after the variable's name, which only counts the parts, the      *)
(* allocation of the parts at the end of the line, their filling on the    *)
(* way back, last part first, and the bytes appended for them.             *)
(*                                                                         *)
(* One action is one call of _grammar_identifier_dec, _dec2 or _dup on the *)
(* way down, one return on the way up, and one part appended. How a token  *)
(* is spelled is left out; a number keeps the value its digits spell.      *)
(***************************************************************************)
EXTENDS Instruction, Segment

CONSTANTS Declarations,  \* the tokens after the name, ended by TOKEN_EOF
          Faults         \* "memory": an allocation may fail

TokenTypes == {"TOKEN_DATA_TYPE", "TOKEN_NUMBER", "TOKEN_QUESTION", "TOKEN_STRING",
               "TOKEN_DUP", "TOKEN_LPAREN", "TOKEN_RPAREN", "TOKEN_COMMA",
               "TOKEN_IDENTIFIER", "TOKEN_EOF"}

\* value is the type's name, the number, or the characters of the string.
IsToken(token) ==
  /\ token.type \in TokenTypes /\ DOMAIN token = {"type", "value"}
  /\ token.type = "TOKEN_DATA_TYPE" => token.value \in {"DB", "DW"}
  /\ token.type = "TOKEN_NUMBER" => token.value \in Int
  /\ token.type = "TOKEN_STRING" => token.value \in Seq(Nat)

ASSUME DeclarationAssumption ==
  /\ \A d \in Declarations :
       /\ Len(d) \in Nat \ {0} /\ DOMAIN d = 1..Len(d)
       /\ \A i \in DOMAIN d : IsToken(d[i]) /\ (d[i].type = "TOKEN_EOF" <=> i = Len(d))
  /\ Faults \subseteq {"memory"}

-----------------------------------------------------------------------------
(* State.                                                                  *)

VARIABLES
  tokens,  \* the tokens of the line, without the name
  pc,      \* what the parser, or pass 2, does next
  pos,     \* TOK_CURR
  calls,   \* the calls of _grammar_identifier_dec that have not returned
  pstmt,   \* the statement being filled
  heap,    \* what became of the two allocations
  i,       \* the part pass2_data_decl appends next
  dtsg,    \* size and capacity of the data segment
  data,    \* its bytes
  result,  \* what became of the line
  read     \* history: the furthest token looked at

vars == <<tokens, pc, pos, calls, pstmt, heap, i, dtsg, data, result, read>>

NoSegment == [type |-> "INIT_SEG_NONE", element_count |-> 0, is_uninit |-> FALSE, value |-> 0]

\* Seeded fault: the statement has its type before its parts are parsed.
FreshDeclaration ==
  [type |-> "STMT_DATA_DECL", segments |-> << >>, allocated |-> FALSE,
   segment_count |-> 0, total_size |-> 0, is_fully_uninit |-> FALSE]

\* calloc leaves a statement of zeros; its type is STMT_NONE. allocated tells
\* whether the pointer to the parts is set.
FreshStatement ==
  [type |-> "STMT_NONE", segments |-> << >>, allocated |-> FALSE,
   segment_count |-> 0, total_size |-> 0, is_fully_uninit |-> FALSE]

Init ==
  /\ tokens \in Declarations
  /\ pc = "create" /\ pos = 1 /\ calls = << >>
  /\ pstmt = FreshStatement
  /\ heap = [pstmt |-> "none", segments |-> "none"]
  /\ i = 1 /\ dtsg = Empty /\ data = << >>
  /\ result = "none" /\ read = 1

AllocationFails == "memory" \in Faults

\* A block that is not live must not be freed.
Freed(state) == IF state = "live" THEN "freed" ELSE "freed twice"

\* The type of a token of the array, which a NULL pointer follows.
TypeAt(n) == IF n \in DOMAIN tokens THEN tokens[n].type ELSE "NULL"

is_dw == tokens[1].value = "DW"

\* Seeded fault: an element counts as a byte.
ElementSizeOne == 1

ElementSize == IF is_dw THEN 4 ELSE 1

GoTo(label) == pc' = label /\ UNCHANGED tokens

OnlyPosition == UNCHANGED <<pstmt, heap, i, dtsg, data, result>>

-----------------------------------------------------------------------------
(* On the way down.                                                        *)

\* parse_tokens creates the statement; grammar_identifier_def looks at the type.
p_stmt_create ==
  /\ pc = "create"
  /\ UNCHANGED <<calls, pstmt, i, dtsg, data, read>>
  /\ \/ heap' = [heap EXCEPT !.pstmt = "live"] /\ UNCHANGED result
        /\ IF tokens[1].type = "TOKEN_DATA_TYPE"
           THEN GoTo("dec") /\ pos' = 2
           ELSE GoTo("refuse") /\ UNCHANGED pos
     \/ AllocationFails /\ GoTo("done") /\ result' = "refused" /\ UNCHANGED <<heap, pos>>

\* The kind of part that begins at token n.
PartAt(n) ==
  IF TypeAt(n) = "TOKEN_NUMBER" /\ TypeAt(n + 1) = "TOKEN_DUP" THEN "INIT_SEG_DUP"
  ELSE IF TypeAt(n) = "TOKEN_NUMBER" THEN "INIT_SEG_VALUE"
  ELSE IF TypeAt(n) = "TOKEN_QUESTION" THEN "INIT_SEG_UNINIT"
  ELSE IF TypeAt(n) = "TOKEN_STRING" /\ ~is_dw THEN "INIT_SEG_STRING"
  ELSE "INIT_SEG_NONE"

\* tokens_start_with looks at the second token only after a number.
DecReads == IF TypeAt(pos) = "TOKEN_NUMBER" THEN pos + 1 ELSE pos

\* segment_append counts the part. The length of a line keeps the count far
\* below SIZE_MAX, where segment_append would refuse.
identifier_dec ==
  LET kind == PartAt(pos) IN
  /\ pc = "dec"
  /\ pstmt' = [pstmt EXCEPT !.segment_count = @ + 1]
  /\ calls' = Append(calls, [kind |-> kind, at |-> pos])
  /\ read' = IF DecReads > read THEN DecReads ELSE read
  /\ UNCHANGED <<heap, i, dtsg, data, result>>
  /\ \/ kind = "INIT_SEG_NONE" /\ GoTo("fail") /\ UNCHANGED pos
     \/ kind = "INIT_SEG_DUP" /\ GoTo("dup") /\ UNCHANGED pos
     \/ kind \notin {"INIT_SEG_NONE", "INIT_SEG_DUP"} /\ GoTo("dec2") /\ pos' = pos + 1

\* The tokens after NUMBER DUP, in the order of the tests.
DupMatches ==
  /\ TypeAt(pos + 2) = "TOKEN_LPAREN" /\ TypeAt(pos + 4) = "TOKEN_RPAREN"
  /\ TypeAt(pos + 3) \in {"TOKEN_NUMBER", "TOKEN_QUESTION"}

\* Seeded fault: both parentheses are looked for, whichever is there.
DupReadsBoth == pos + 4

\* && stops at the first test that fails.
DupReads == IF TypeAt(pos + 2) = "TOKEN_LPAREN" THEN pos + 4 ELSE pos + 2

identifier_dup ==
  /\ pc = "dup"
  /\ read' = IF DupReads > read THEN DupReads ELSE read
  /\ UNCHANGED calls /\ OnlyPosition
  /\ IF DupMatches THEN GoTo("dec2") /\ pos' = pos + 5
     ELSE GoTo("fail") /\ UNCHANGED pos

\* At the end of the line segments_finalize allocates the parts counted.
identifier_dec2 ==
  /\ pc = "dec2"
  /\ read' = IF pos > read THEN pos ELSE read
  /\ UNCHANGED <<calls, i, dtsg, data, result>>
  /\ \/ /\ TypeAt(pos) = "TOKEN_COMMA"
        /\ GoTo("dec") /\ pos' = pos + 1 /\ UNCHANGED <<pstmt, heap>>
     \/ /\ TypeAt(pos) = "TOKEN_EOF"
        /\ pstmt' = [pstmt EXCEPT !.allocated = TRUE, !.is_fully_uninit = TRUE,
                                  !.segments = [k \in 1..pstmt.segment_count |-> NoSegment]]
        /\ heap' = [heap EXCEPT !.segments = "live"]
        /\ GoTo("fill") /\ UNCHANGED pos
     \/ /\ TypeAt(pos) = "TOKEN_EOF" /\ AllocationFails
        /\ GoTo("fail") /\ UNCHANGED <<pos, pstmt, heap>>
     \/ /\ TypeAt(pos) \notin {"TOKEN_COMMA", "TOKEN_EOF"}
        /\ GoTo("fail") /\ UNCHANGED <<pos, pstmt, heap>>

-----------------------------------------------------------------------------
(* On the way up.                                                          *)

\* strtoimax and the limits of an int32_t.
ParsesInt32(v) == Int32Min <= v /\ v <= Int32Max

\* strtoull negates a number with a minus sign in the unsigned type.
ParsesSize(v) == -SizeMax <= v /\ v <= SizeMax

Size(v) == v % (SizeMax + 1)

call == calls[Len(calls)]

\* The numbers of the part of a call can be stored.
PartParses(c) ==
  CASE c.kind = "INIT_SEG_VALUE" -> ParsesInt32(tokens[c.at].value)
    [] c.kind = "INIT_SEG_DUP" ->
         /\ ParsesSize(tokens[c.at].value)
         /\ tokens[c.at + 3].type = "TOKEN_NUMBER" => ParsesInt32(tokens[c.at + 3].value)
    [] OTHER -> TRUE

\* segment_set_number, _uninit, _string, _dup. Nothing stores the value of a DUP
\* of ?, which calloc has left 0.
FilledSegment(c) ==
  LET Segment(count, uninit, value) ==
        [type |-> c.kind, element_count |-> count, is_uninit |-> uninit, value |-> value]
  IN  CASE c.kind = "INIT_SEG_VALUE"  -> Segment(1, FALSE, tokens[c.at].value)
        [] c.kind = "INIT_SEG_UNINIT" -> Segment(1, TRUE, 0)
        [] c.kind = "INIT_SEG_STRING" ->
             Segment(Len(tokens[c.at].value), FALSE, tokens[c.at].value)
        [] c.kind = "INIT_SEG_DUP" ->
             IF tokens[c.at + 3].type = "TOKEN_QUESTION"
             THEN Segment(Size(tokens[c.at].value), TRUE, 0)
             ELSE Segment(Size(tokens[c.at].value), FALSE, tokens[c.at + 3].value)

\* Seeded fault: the parts are filled from the first one on.
FillFromFirst == pstmt.segment_count - Len(calls) + 1

\* Seeded fault: the part is the one after those of the calls before it and its own.
SegmentAfter == Len(calls) + 1

\* The part of the call that returns: segment_idx, counted from 1.
SegmentIndex == Len(calls)

\* What a part that does not parse has stored before is left out: it is freed.
FillSegment ==
  /\ pc = "fill" /\ calls # << >>
  /\ UNCHANGED <<pos, heap, i, dtsg, data, result, read>>
  /\ \/ /\ PartParses(call)
        /\ pstmt' = [pstmt EXCEPT !.segments[SegmentIndex] = FilledSegment(call),
                                  !.is_fully_uninit = @ /\ FilledSegment(call).is_uninit]
        /\ calls' = SubSeq(calls, 1, Len(calls) - 1)
        /\ UNCHANGED <<tokens, pc>>
     \/ ~PartParses(call) /\ GoTo("fail") /\ UNCHANGED <<calls, pstmt>>

\* A call that returns GRM_NO_MATCH removes its part from the count.
segment_remove_last ==
  /\ pc = "fail" /\ calls # << >>
  /\ calls' = SubSeq(calls, 1, Len(calls) - 1)
  /\ pstmt' = [pstmt EXCEPT !.segment_count = @ - 1]
  /\ UNCHANGED <<tokens, pc, pos, heap, i, dtsg, data, result, read>>

\* What p_stmt_deinit makes of the parts: the type of the statement decides.
Deinit(state) ==
  IF pstmt.type = "STMT_DATA_DECL" /\ pstmt.allocated THEN Freed(state) ELSE state

\* grammar_identifier_def frees the parts and keeps the pointer to them;
\* parse_tokens frees the statement, whose type is still STMT_NONE.
Refuse ==
  LET segments == IF pstmt.allocated THEN Freed(heap.segments) ELSE heap.segments IN
  /\ pc \in {"refuse", "fail"} /\ calls = << >>
  /\ heap' = [pstmt |-> Freed(heap.pstmt), segments |-> Deinit(segments)]
  /\ result' = "refused" /\ GoTo("done")
  /\ UNCHANGED <<pos, calls, pstmt, i, dtsg, data, read>>

\* The sizes of the parts before part n, added up in a size_t.
SizeBefore[n \in 1..(pstmt.segment_count + 1)] ==
  IF n = 1 THEN 0
  ELSE Size(SizeBefore[n - 1] + Size(pstmt.segments[n - 1].element_count * ElementSize))

segment_set_dd_total_size ==
  /\ pc = "fill" /\ calls = << >>
  /\ pstmt' = [pstmt EXCEPT !.type = "STMT_DATA_DECL",
                            !.total_size = SizeBefore[pstmt.segment_count + 1]]
  /\ GoTo("append")
  /\ UNCHANGED <<pos, calls, heap, i, dtsg, data, result, read>>

-----------------------------------------------------------------------------
(* pass2_data_decl.                                                        *)

\* count copies of bytes.
Repeat(count, bytes) ==
  [k \in 1..(count * Len(bytes)) |-> bytes[1 + ((k - 1) % Len(bytes))]]

\* A value as an element: dtsg_app_dw, or the lowest byte.
Element(v) == IF is_dw THEN cdsg_app_imm(v) ELSE <<v % ByteBase>>

\* The bytes pass2_data_decl_uninit, _value, _string, _dup append.
BytesOf(segment) ==
  IF segment.type = "INIT_SEG_STRING" THEN segment.value
  ELSE Repeat(segment.element_count, Element(segment.value))

AppendSegment ==
  LET bytes == BytesOf(pstmt.segments[i]) IN
  /\ pc = "append" /\ i <= pstmt.segment_count
  /\ UNCHANGED <<tokens, pos, calls, pstmt, heap, read>>
  /\ \/ /\ Fits(dtsg, Len(bytes))
        /\ dtsg' = Appended(dtsg, Len(bytes)) /\ data' = data \o bytes
        /\ i' = i + 1 /\ UNCHANGED <<pc, result>>
     \/ /\ ~Fits(dtsg, Len(bytes)) \/ (AllocationFails /\ MustGrow(dtsg, Len(bytes)))
        /\ pc' = "free" /\ result' = "cannot append" /\ UNCHANGED <<dtsg, data, i>>

AllAppended ==
  /\ pc = "append" /\ i > pstmt.segment_count
  /\ result' = "accepted" /\ GoTo("free")
  /\ UNCHANGED <<pos, calls, pstmt, heap, i, dtsg, data, read>>

\* passes_line frees the statement.
p_stmt_free ==
  /\ pc = "free"
  /\ heap' = [pstmt |-> Freed(heap.pstmt), segments |-> Deinit(heap.segments)]
  /\ GoTo("done")
  /\ UNCHANGED <<pos, calls, pstmt, i, dtsg, data, result, read>>

Done == pc = "done" /\ UNCHANGED vars

Next == p_stmt_create \/ identifier_dec \/ identifier_dup \/ identifier_dec2
          \/ FillSegment \/ segment_remove_last \/ Refuse \/ segment_set_dd_total_size
          \/ AppendSegment \/ AllAppended \/ p_stmt_free \/ Done

Spec == Init /\ [][Next]_vars

-----------------------------------------------------------------------------
(* Properties; those about the bytes are in DeclarationMeaning.            *)

\* Whichever call of the descent fails, and whenever: the statement and its
\* parts are freed, each of them once. The pointer to parts that
\* grammar_identifier_def has freed stays in a statement still to be freed.
EachFreedOnce ==
  /\ "freed twice" \notin {heap.pstmt, heap.segments}
  /\ pc = "done" => "live" \notin {heap.pstmt, heap.segments}

\* The parser never looks past the NULL pointer after the last token, on a line
\* that ends in the middle of a DUP as little as on any other.
ReadsWithinLine == read <= Len(tokens) + 1

\* The parts are counted on the way down and filled on the way up, from what the
\* calls in between have kept: a part that is filled is one of those allocated,
\* and the tokens it is filled from are tokens of the line.
FillsWithinParts ==
  pc = "fill" /\ calls # << >> =>
    /\ SegmentIndex \in DOMAIN pstmt.segments
    /\ call.at \in DOMAIN tokens
    /\ call.kind = "INIT_SEG_DUP" => call.at + 3 \in DOMAIN tokens

-----------------------------------------------------------------------------
(* The inductive invariant behind the three of them.                       *)

SegmentKinds ==
  {"INIT_SEG_NONE", "INIT_SEG_VALUE", "INIT_SEG_UNINIT", "INIT_SEG_STRING", "INIT_SEG_DUP"}

Descending == {"dec", "dup", "dec2"}

\* The kinds of values the variables have, as far as the steps rely on them.
Kinds ==
  /\ tokens \in Declarations
  /\ pc \in {"create", "refuse", "fail", "fill", "append", "free", "done"} \cup Descending
  /\ pos \in Nat /\ read \in Nat
  /\ calls \in Seq([kind : SegmentKinds, at : Nat])
  /\ DOMAIN pstmt = DOMAIN FreshStatement /\ pstmt.segment_count \in Nat
  /\ DOMAIN heap = {"pstmt", "segments"}

\* Who holds which block, at each place of the descent and of the return.
Blocks ==
  /\ pc = "create" => heap.pstmt = "none"
  /\ pc \notin {"create", "done"} => heap.pstmt = "live"
  /\ pc \in {"create", "refuse"} \cup Descending =>
       heap.segments = "none" /\ ~pstmt.allocated
  /\ pc = "fail" => heap.segments = IF pstmt.allocated THEN "live" ELSE "none"
  /\ pc \in {"fill", "append", "free"} => heap.segments = "live" /\ pstmt.allocated
  /\ pc = "done" => {heap.pstmt, heap.segments} \subseteq {"none", "freed"}
  /\ pc \in {"append", "free"} => pstmt.type = "STMT_DATA_DECL"
  /\ pc \notin {"append", "free", "done"} => pstmt.type = "STMT_NONE"

\* Where the descent stands in the line.
Places ==
  /\ read <= Len(tokens) + 1
  /\ pc = "dec" => pos \in 1..Len(tokens)
  /\ pc = "dup" => TypeAt(pos) = "TOKEN_NUMBER" /\ TypeAt(pos + 1) = "TOKEN_DUP"
  /\ pc = "dec2" => pos \in 1..Len(tokens)

\* The tokens a call comes back to are tokens of the line.
Matched(c) ==
  c.at \in 1..Len(tokens) /\ (c.kind = "INIT_SEG_DUP" => c.at + 4 \in 1..Len(tokens))

\* The parts counted are those of the calls; a DUP is matched by its own step.
Counted ==
  /\ pc \in {"create", "refuse"} \cup Descending => pstmt.segment_count = Len(calls)
  /\ pc \in {"fail", "fill"} => Len(calls) <= pstmt.segment_count
  /\ pc = "fill" => DOMAIN pstmt.segments = 1..pstmt.segment_count
  /\ pc \in {"create", "dec", "dec2", "fill"} => \A k \in 1..Len(calls) : Matched(calls[k])
  /\ pc = "dup" => /\ Len(calls) > 0 /\ calls[Len(calls)].at = pos
                   /\ \A k \in 1..(Len(calls) - 1) : Matched(calls[k])

DInv == Kinds /\ Blocks /\ Places /\ Counted
=============================================================================
