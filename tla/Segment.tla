------------------------------ MODULE Segment ------------------------------
(***************************************************************************)
(* The growable byte buffer behind the code and the data segment           *)
(* (struct Code_Segment and struct Data_Segment have the same fields and   *)
(* the same operations): how many bytes are in use, how many are           *)
(* allocated, and how the two change. Pass 1 only advances the size, pass 2 *)
(* begins again from zero and appends bytes.                               *)
(***************************************************************************)
EXTENDS Integers

CONSTANTS WordBits,         \* bits of a size_t: 64
          SizeMax,          \* SIZE_MAX
          InitialCapacity   \* CDSG_INITIAL_CAPACITY = DTSG_INITIAL_CAPACITY

ASSUME SegmentAssumption ==
  /\ WordBits \in Nat
  /\ SizeMax \in Nat
  /\ SizeMax = 2 ^ WordBits - 1
  /\ InitialCapacity \in 1..SizeMax

Segments == [size : 0..SizeMax, capacity : 0..SizeMax]

\* dtsg_create, cdsg_create
Empty == [size |-> 0, capacity |-> InitialCapacity]

\* Seeded fault: the segment goes on where pass 1 left it.
NoReset(seg) == seg

\* dtsg_begin, cdsg_begin
Begin(seg) == [seg EXCEPT !.size = 0]

\* n more bytes can be counted without passing SIZE_MAX. n is the number of
\* bytes meant, which may itself be beyond SIZE_MAX.
Fits(seg, n) == seg.size <= SizeMax - n

\* What dtsg_advance returns: the position of the n bytes, SIZE_MAX for none.
PositionOf(seg, n) == IF Fits(seg, n) THEN seg.size ELSE SizeMax

\* Seeded fault: the size wraps round instead of staying where it is.
AdvanceUnchecked(seg, n) == [seg EXCEPT !.size = @ + n]

\* dtsg_advance, cdsg_advance: the size moves, the buffer does not grow.
Advance(seg, n) == IF Fits(seg, n) THEN [seg EXCEPT !.size = @ + n] ELSE seg

\* The capacities doubling goes through; SIZE_MAX stands in for the first one
\* beyond it.
Doublings(from) ==
  {n \in from..SizeMax : n = SizeMax \/ \E k \in 0..WordBits : n = from * 2 ^ k}

\* Seeded fault: the capacity doubles once, whatever is asked for.
GrownOnce(capacity, req) ==
  CHOOSE n \in Doublings(capacity) : n = 2 * capacity \/ n = SizeMax

\* The capacity _dtsg_ensure_capacity asks for: the first one that holds req.
Grown(capacity, req) ==
  LET from   == IF capacity = 0 THEN InitialCapacity ELSE capacity
      enough == {n \in Doublings(from) : n >= req}
  IN  CHOOSE n \in enough : \A m \in enough : n <= m

\* An append of n bytes has to reallocate the buffer.
MustGrow(seg, n) == n # 0 /\ Fits(seg, n) /\ seg.size + n > seg.capacity

\* _dtsg_ensure_capacity followed by the copy of n bytes, for n that fits.
Appended(seg, n) ==
  [size     |-> seg.size + n,
   capacity |-> IF MustGrow(seg, n) THEN Grown(seg.capacity, seg.size + n)
                ELSE seg.capacity]
=============================================================================
