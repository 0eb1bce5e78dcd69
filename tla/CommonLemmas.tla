--------------------------- MODULE CommonLemmas ---------------------------
(***************************************************************************)
(* Facts that the proofs of several modules cite: about numbers and        *)
(* sequences, and about the bytes of an instruction, which are written by  *)
(* the assembler and read by the processor.                                *)
(***************************************************************************)
EXTENDS KMProcessor, WellFoundedInduction, TLAPS

\* A set of natural numbers that is not empty has a least element.
LEMMA LeastNatural ==
  ASSUME NEW T, T \subseteq Nat, T # {}
  PROVE  \E n \in T : \A m \in T : n <= m
<1>1. PICK n \in T : \A m \in T : ~(<<m, n>> \in OpToRel(<, Nat))
  BY NatLessThanWellFounded, WFMin
<1>2. ASSUME NEW m \in T, m < n
      PROVE  FALSE
  <2>1. <<m, n>> \in OpToRel(<, Nat)
    BY <1>2 DEF OpToRel
  <2> QED
    BY <2>1, <1>1
<1> QED
  BY <1>2

-----------------------------------------------------------------------------
(* The last four digits of a number, and the signed word they make.        *)

\* Dividing a number leaves a quotient and a remainder.
LEMMA QuotientAndRemainder ==
  ASSUME NEW n \in Int, NEW d \in Nat \ {0}, NEW q, NEW r, q = n \div d, r = n % d
  PROVE  q \in Int /\ r \in 0..(d - 1) /\ n = d * q + r
OBVIOUS

\* The only multiple of d between -d and d is 0.
LEMMA SmallMultiple ==
  ASSUME NEW d \in Nat \ {0}, NEW k \in Int, d * k < d, -d < d * k
  PROVE  k = 0
<1>1. CASE k >= 1
  BY <1>1
<1>2. CASE k <= -1
  BY <1>2
<1> QED
  BY <1>1, <1>2

\* There is one quotient and one remainder.
LEMMA QuotientIsUnique ==
  ASSUME NEW n \in Int, NEW d \in Nat \ {0}, NEW q \in Int, NEW r \in 0..(d - 1), n = d * q + r
  PROVE  n \div d = q /\ n % d = r
<1> DEFINE p == n \div d
           s == n % d
<1>1. p \in Int /\ s \in 0..(d - 1) /\ n = d * p + s
  OBVIOUS
<1> HIDE DEF p, s
<1>2. d * (p - q) = r - s
  BY <1>1
<1>3. p - q = 0
  BY <1>1, <1>2, SmallMultiple
<1> QED
  BY <1>1, <1>2, <1>3 DEF p, s

\* Dividing by a product is dividing by one factor and then by the other.
LEMMA DividedTwice ==
  ASSUME NEW n \in Int, NEW d \in Nat \ {0}, NEW c \in Nat \ {0}
  PROVE  n \div (d * c) = (n \div d) \div c
<1> DEFINE q == n \div d
           r == n % d
           p == q \div c
           s == q % c
<1>1. q \in Int /\ r \in 0..(d - 1) /\ n = d * q + r
  BY QuotientAndRemainder
<1> HIDE DEF q, r
<1>2. p \in Int /\ s \in 0..(c - 1) /\ q = c * p + s
  BY <1>1, QuotientAndRemainder
<1> HIDE DEF p, s
<1>3. n = d * (c * p + s) + r
  BY <1>1, <1>2
<1>4. d * (c * p + s) = (d * c) * p + d * s
  BY <1>1, <1>2
<1>5. d * s >= 0 /\ d * s <= d * (c - 1)
  BY <1>2
<1>6. d * (c - 1) = d * c - d
  OBVIOUS
<1>7. d * s + r \in 0..(d * c - 1)
  BY <1>1, <1>2, <1>5, <1>6
<1>8. n = (d * c) * p + (d * s + r)
  BY <1>1, <1>2, <1>3, <1>4
<1>9. d * c \in Nat \ {0}
  OBVIOUS
<1> QED
  BY <1>2, <1>7, <1>8, <1>9, QuotientIsUnique DEF p, q

\* A multiple of d leaves nothing when it is divided by d.
LEMMA MultipleHasNoRemainder ==
  ASSUME NEW d \in Nat \ {0}, NEW k \in Int
  PROVE  (d * k) % d = 0
<1>1. d * k \in Int /\ d * k = d * k + 0
  OBVIOUS
<1> QED
  BY <1>1, QuotientIsUnique

\* Four digits and what is beyond them.
LEMMA Horner ==
  ASSUME NEW b \in Int, NEW q4 \in Int,
         NEW r0 \in Int, NEW r1 \in Int, NEW r2 \in Int, NEW r3 \in Int
  PROVE  r0 + b * (r1 + b * (r2 + b * (r3 + b * q4)))
           = r0 + b * (r1 + b * (r2 + b * r3)) + (b * b * b * b) * q4
OBVIOUS

\* The last digit of a number to base b and the number before it.
LEMMA OneDigit ==
  ASSUME NEW n \in Int, NEW b \in Nat \ {0}
  PROVE  \E q \in Int, r \in 0..(b - 1) : q = n \div b /\ r = n % b /\ n = b * q + r
<1> DEFINE q == n \div b
           r == n % b
<1>1. q \in Int /\ r \in 0..(b - 1) /\ n = b * q + r
  BY QuotientAndRemainder
<1>2. q = n \div b /\ r = n % b
  OBVIOUS
<1> HIDE DEF q, r
<1> QED
  BY <1>1, <1>2

\* The last four digits of a number to base b, as shifts and masks find them.
LEMMA FourDigits ==
  ASSUME NEW b \in Nat \ {0}, NEW v \in Int
  PROVE  \E r0, r1, r2, r3 \in 0..(b - 1), k \in Int :
           /\ r0 = v % b
           /\ r1 = (v \div b) % b
           /\ r2 = (v \div (b * b)) % b
           /\ r3 = (v \div (b * b * b)) % b
           /\ v = r0 + b * (r1 + b * (r2 + b * r3)) + (b * b * b * b) * k
<1>1. PICK q1 \in Int, r0 \in 0..(b - 1) : q1 = v \div b /\ r0 = v % b /\ v = b * q1 + r0
  BY OneDigit
<1>2. PICK q2 \in Int, r1 \in 0..(b - 1) : q2 = q1 \div b /\ r1 = q1 % b /\ q1 = b * q2 + r1
  BY OneDigit
<1>3. PICK q3 \in Int, r2 \in 0..(b - 1) : q3 = q2 \div b /\ r2 = q2 % b /\ q2 = b * q3 + r2
  BY OneDigit
<1>4. PICK q4 \in Int, r3 \in 0..(b - 1) : q4 = q3 \div b /\ r3 = q3 % b /\ q3 = b * q4 + r3
  BY OneDigit
<1>5. b * b \in Nat \ {0} /\ b \in Int
  OBVIOUS
<1>6. q2 = v \div (b * b)
  BY <1>1, <1>2, DividedTwice
<1>7. q3 = v \div (b * b * b)
  BY <1>3, <1>5, <1>6, DividedTwice
<1>8. v = r0 + b * (r1 + b * (r2 + b * (r3 + b * q4)))
  BY <1>1, <1>2, <1>3, <1>4
<1>9. v = r0 + b * (r1 + b * (r2 + b * r3)) + (b * b * b * b) * q4
  BY <1>8, Horner
<1>10. r0 = v % b
  BY <1>1
<1>11. r1 = (v \div b) % b
  BY <1>1, <1>2
<1>12. r2 = (v \div (b * b)) % b
  BY <1>3, <1>6
<1>13. r3 = (v \div (b * b * b)) % b
  BY <1>4, <1>7
<1> QED
  BY <1>9, <1>10, <1>11, <1>12, <1>13

\* The number four digits to base b stand for, and the number of such numbers.
FromDigits(b, r0, r1, r2, r3) == r0 + b * (r1 + b * (r2 + b * r3))
Fourth(b) == b * b * b * b

\* A digit and a number below c make a number below b * c.
LEMMA BelowProduct ==
  ASSUME NEW b \in Nat \ {0}, NEW c \in Nat \ {0}, NEW r \in 0..(b - 1), NEW x \in 0..(c - 1)
  PROVE  r + b * x \in 0..(b * c - 1)
<1>1. b * x >= 0 /\ b * x <= b * (c - 1) /\ b * (c - 1) = b * c - b
  OBVIOUS
<1> QED
  BY <1>1

\* Half of the numbers of four digits begin with a digit from the upper half.
LEMMA SignOfDigits ==
  ASSUME NEW b \in Nat \ {0}, b % 2 = 0,
         NEW r0 \in 0..(b - 1), NEW r1 \in 0..(b - 1), NEW r2 \in 0..(b - 1), NEW r3 \in 0..(b - 1)
  PROVE  /\ Fourth(b) \in Nat \ {0} /\ Fourth(b) % 2 = 0
         /\ FromDigits(b, r0, r1, r2, r3) \in 0..(Fourth(b) - 1)
         /\ 2 * r3 >= b => 2 * FromDigits(b, r0, r1, r2, r3) >= Fourth(b)
         /\ 2 * r3 < b => 2 * FromDigits(b, r0, r1, r2, r3) < Fourth(b)
<1> DEFINE c == b * b * b
           w == r0 + b * (r1 + b * r2)
           h == b \div 2
           u == FromDigits(b, r0, r1, r2, r3)
           all == Fourth(b)
<1>1. b * b \in Nat \ {0} /\ c \in Nat \ {0}
  OBVIOUS
<1>2. r1 + b * r2 \in 0..(b * b - 1)
  BY BelowProduct
<1>3. b * (b * b) = c
  OBVIOUS
<1>4. w \in 0..(c - 1)
  <2>1. w \in 0..(b * (b * b) - 1)
    BY <1>1, <1>2, BelowProduct
  <2> QED
    BY <2>1, <1>3
<1>5. u = w + c * r3
  <2>1. r0 + b * (r1 + b * (r2 + b * r3)) = r0 + b * (r1 + b * r2) + (b * b * b) * r3
    OBVIOUS
  <2> QED
    BY <2>1 DEF FromDigits
<1>6. all = c * b
  BY DEF Fourth
<1>7. h \in Nat /\ b = 2 * h
  OBVIOUS
<1> HIDE DEF c, w, h, u, all
<1>8. u \in 0..(all - 1)
  <2>1. w + c * r3 \in 0..(c * b - 1)
    BY <1>1, <1>4, BelowProduct
  <2> QED
    BY <2>1, <1>5, <1>6
<1>9. all = 2 * (c * h)
  BY <1>1, <1>6, <1>7
<1>10. c * h \in Nat
  BY <1>1, <1>7
<1>11. all \in Nat /\ all % 2 = 0
  BY <1>9, <1>10
<1>12. ASSUME 2 * r3 >= b
       PROVE  2 * u >= all
  <2>1. r3 >= h
    BY <1>7, <1>12
  <2>2. c * r3 >= c * h
    BY <1>1, <1>7, <2>1
  <2> QED
    BY <1>1, <1>4, <1>5, <1>9, <1>10, <2>2
<1>13. ASSUME 2 * r3 < b
       PROVE  2 * u < all
  <2>1. r3 <= h - 1
    BY <1>7, <1>13
  <2>2. c * r3 <= c * (h - 1) /\ c * (h - 1) = c * h - c
    BY <1>1, <1>7, <2>1
  <2>3. c * r3 \in Int
    BY <1>1
  <2> QED
    BY <1>1, <1>4, <1>5, <1>9, <1>10, <2>2, <2>3
<1>14. all # 0
  BY <1>8, <1>11
<1> QED
  BY <1>8, <1>11, <1>12, <1>13, <1>14 DEF u, all

\* The numbers of the upper half, read as negative, are right for what a signed
\* word holds, and right up to a multiple of the word otherwise.
LEMMA SignedResidue ==
  ASSUME NEW all \in Nat \ {0}, all % 2 = 0, NEW u \in 0..(all - 1), NEW v \in Int,
         \E k \in Int : v = u + all * k,
         NEW d, (d = u - all /\ 2 * u >= all) \/ (d = u /\ 2 * u < all)
  PROVE  /\ d \in Int /\ (d - v) % all = 0
         /\ v \in (-(all \div 2))..(all \div 2 - 1) => d = v
<1>1. PICK j \in Int : d - v = all * j
  <2> PICK k \in Int : v = u + all * k
    OBVIOUS
  <2>1. all * k \in Int /\ all * (-k) = -(all * k) /\ all * (-(k + 1)) = -(all * k) - all
    OBVIOUS
  <2>2. d - v = all * (-k) \/ d - v = all * (-(k + 1))
    BY <2>1
  <2>3. -k \in Int /\ -(k + 1) \in Int
    OBVIOUS
  <2> QED
    BY <2>2, <2>3, Zenon
<1>2. PICK h \in Nat : all = 2 * h /\ all \div 2 = h
  OBVIOUS
<1>3. d \in Int /\ -h <= d /\ d <= h - 1
  BY <1>2
<1>4. (d - v) % all = 0
  BY <1>1, MultipleHasNoRemainder
<1>5. ASSUME v \in (-(all \div 2))..(all \div 2 - 1)
      PROVE  d = v
  <2>1. d - v < all /\ -all < d - v
    BY <1>2, <1>3, <1>5
  <2>2. j = 0
    BY <1>1, <2>1, SmallMultiple
  <2> QED
    BY <1>1, <1>3, <2>2
<1> QED
  BY <1>3, <1>4, <1>5

\* Four digits read as a signed word.
Signed(b, r0, r1, r2, r3) ==
  IF 2 * r3 >= b THEN FromDigits(b, r0, r1, r2, r3) - Fourth(b) ELSE FromDigits(b, r0, r1, r2, r3)

\* Four digits written from a number and read back as a signed word.
LEMMA SignedDigits ==
  ASSUME NEW b \in Nat \ {0}, b % 2 = 0, NEW v \in Int
  PROVE  \E r0, r1, r2, r3 \in 0..(b - 1) :
           /\ r0 = v % b /\ r1 = (v \div b) % b
           /\ r2 = (v \div (b * b)) % b /\ r3 = (v \div (b * b * b)) % b
           /\ Signed(b, r0, r1, r2, r3) \in Int
           /\ (Signed(b, r0, r1, r2, r3) - v) % Fourth(b) = 0
           /\ v \in (-(Fourth(b) \div 2))..(Fourth(b) \div 2 - 1) =>
                Signed(b, r0, r1, r2, r3) = v
<1>1. PICK r0, r1, r2, r3 \in 0..(b - 1), k \in Int :
           /\ r0 = v % b
           /\ r1 = (v \div b) % b
           /\ r2 = (v \div (b * b)) % b
           /\ r3 = (v \div (b * b * b)) % b
           /\ v = r0 + b * (r1 + b * (r2 + b * r3)) + (b * b * b * b) * k
  BY FourDigits
<1> DEFINE u   == FromDigits(b, r0, r1, r2, r3)
           all == Fourth(b)
           d   == Signed(b, r0, r1, r2, r3)
<1>2. d = IF 2 * r3 >= b THEN u - all ELSE u
  BY DEF Signed
<1>3. /\ all \in Nat \ {0} /\ all % 2 = 0 /\ u \in 0..(all - 1)
      /\ 2 * r3 >= b => 2 * u >= all
      /\ 2 * r3 < b => 2 * u < all
  BY SignOfDigits
<1>4. v = u + all * k
  BY <1>1 DEF FromDigits, Fourth
<1> HIDE DEF u, all, d
<1>5. (d = u - all /\ 2 * u >= all) \/ (d = u /\ 2 * u < all)
  BY <1>2, <1>3
<1>6. /\ d \in Int /\ (d - v) % all = 0
      /\ v \in (-(all \div 2))..(all \div 2 - 1) => d = v
  <2>1. \E m \in Int : v = u + all * m
    BY <1>4
  <2> QED
    BY <1>3, <1>5, <2>1, SignedResidue
<1> QED
  BY <1>1, <1>6 DEF d, all

-----------------------------------------------------------------------------
(* A file put together from parts.                                         *)

\* A sequence found in another one, element by element, is a part of it.
LEMMA PartOf ==
  ASSUME NEW part \in Seq(Nat), NEW file \in Seq(Nat), NEW at \in Nat,
         at + Len(part) <= Len(file), \A k \in 1..Len(part) : file[at + k] = part[k]
  PROVE  SubSeq(file, at + 1, at + Len(part)) = part
<1> DEFINE sub == SubSeq(file, at + 1, at + Len(part))
           n   == Len(part)
<1>1. n \in Nat /\ Len(file) \in Nat
  OBVIOUS
<1>2. sub \in Seq(Nat) /\ Len(sub) = n
  BY <1>1
<1>3. \A k \in 1..n : sub[k] = file[at + k]
  <2> TAKE k \in 1..n
  <2>1. at + 1 \in Nat /\ at + n \in Nat /\ k \in 1..((at + n) - (at + 1) + 1)
    BY <1>1
  <2>2. sub[k] = file[at + 1 + k - 1]
    BY <2>1
  <2>3. at + 1 + k - 1 = at + k
    BY <1>1
  <2> QED
    BY <2>2, <2>3
<1> HIDE DEF sub
<1>4. \A k \in 1..n : sub[k] = part[k]
  BY <1>3
<1>5. sub = [k \in 1..n |-> sub[k]] /\ part = [k \in 1..n |-> part[k]]
  BY <1>2
<1>6. sub = part
  BY <1>4, <1>5
<1> QED
  BY <1>6 DEF sub

\* The parts can be taken out of the file again.
HasParts(file, signature, length, data, tail) ==
  /\ file \in Seq(Nat)
  /\ Len(file) = Len(signature) + Len(length) + Len(data) + Len(tail)
  /\ SubSeq(file, 1, Len(signature)) = signature
  /\ \A k \in DOMAIN length : file[Len(signature) + k] = length[k]
  /\ SubSeq(file, Len(signature) + Len(length) + 1, Len(signature) + Len(length) + Len(data)) = data
  /\ SubSeq(file, Len(signature) + Len(length) + Len(data) + 1, Len(file)) = tail

\* They can when the file was put together from them.
LEMMA FileParts ==
  ASSUME NEW signature \in Seq(Nat), NEW length \in Seq(Nat), NEW data \in Seq(Nat),
         NEW tail \in Seq(Nat)
  PROVE  HasParts(((signature \o length) \o data) \o tail, signature, length, data, tail)
<1> DEFINE file == ((signature \o length) \o data) \o tail
           s == Len(signature)
           l == Len(length)
           d == Len(data)
           t == Len(tail)
<1>1. /\ file \in Seq(Nat) /\ Len(file) = s + l + d + t
      /\ s \in Nat /\ l \in Nat /\ d \in Nat /\ t \in Nat
  OBVIOUS
<1>2. \A k \in 1..s : file[k] = signature[k]
  OBVIOUS
<1>3. \A k \in 1..l : file[s + k] = length[k]
  OBVIOUS
<1>4. \A k \in 1..d : file[s + l + k] = data[k]
  OBVIOUS
<1>5. \A k \in 1..t : file[s + l + d + k] = tail[k]
  OBVIOUS
<1> HIDE DEF file
<1>6. SubSeq(file, 1, s) = signature
  <2>1. 0 + s <= Len(file) /\ \A k \in 1..s : file[0 + k] = signature[k]
    BY <1>1, <1>2
  <2>2. SubSeq(file, 0 + 1, 0 + s) = signature
    BY <1>1, <2>1, PartOf
  <2> QED
    BY <1>1, <2>2
<1>7. SubSeq(file, s + l + 1, s + l + d) = data
  <2>1. s + l \in Nat /\ (s + l) + d <= Len(file)
    BY <1>1
  <2> QED
    BY <1>1, <1>4, <2>1, PartOf
<1>8. SubSeq(file, s + l + d + 1, s + l + d + t) = tail
  <2>1. s + l + d \in Nat /\ (s + l + d) + t <= Len(file)
    BY <1>1
  <2> QED
    BY <1>1, <1>5, <2>1, PartOf
<1> QED
  <2>1. SubSeq(file, s + l + d + 1, Len(file)) = tail
    <3>1. Len(file) = s + l + d + t
      BY <1>1
    <3> QED
      BY <1>8, <3>1, Zenon
  <2>2. \A k \in DOMAIN length : file[s + k] = length[k]
    <3>1. DOMAIN length = 1..l
      OBVIOUS
    <3> QED
      BY <1>3, <3>1
  <2> QED
    BY <1>1, <1>6, <1>7, <2>1, <2>2 DEF HasParts, file
\* One more element at the end of a sequence ends a longer one, too.
LEMMA LongerEnd ==
  ASSUME NEW first \in Seq(Nat), NEW last \in Seq(Nat), NEW x \in Nat
  PROVE  (first \o last) \o <<x>> = first \o Append(last, x)
<1> DEFINE left == (first \o last) \o <<x>>
           right == first \o Append(last, x)
           n == Len(first) + Len(last) + 1
<1>1. left \in Seq(Nat) /\ Len(left) = n
  OBVIOUS
<1>2. right \in Seq(Nat) /\ Len(right) = n
  OBVIOUS
<1>3. ASSUME NEW i \in 1..n
      PROVE  left[i] = right[i]
  <2>1. CASE i \in 1..Len(first)
    <3>1. left[i] = first[i]
      BY <2>1
    <3>2. right[i] = first[i]
      BY <2>1
    <3> QED
      BY <3>1, <3>2
  <2>2. CASE i - Len(first) \in 1..Len(last)
    <3>1. left[i] = last[i - Len(first)]
      BY <2>2
    <3>2. right[i] = last[i - Len(first)]
      BY <2>2
    <3> QED
      BY <3>1, <3>2
  <2>3. CASE i = n
    <3>1. left[i] = x
      BY <2>3
    <3>2. right[i] = x
      BY <2>3
    <3> QED
      BY <3>1, <3>2
  <2>4. i \in 1..Len(first) \/ i - Len(first) \in 1..Len(last) \/ i = n
    OBVIOUS
  <2> QED
    BY <2>1, <2>2, <2>3, <2>4
<1> HIDE DEF left, right, n
<1> QED
  <2>1. left = right
    BY <1>1, <1>2, <1>3
  <2> QED
    BY <2>1 DEF left, right

-----------------------------------------------------------------------------
(* Functions given step by step, and sums in a word.                       *)

\* f begins with a and goes on by step.
Follows(f, n, a, step) ==
  f[1] = a /\ \A k \in 1..(n - 1) : f[k + 1] = step[<<k, f[k]>>]

\* What is given step by step on 1..n exists.
LEMMA Iterates ==
  ASSUME NEW S, NEW a \in S, NEW n \in Nat \ {0}, NEW step \in [(1..n) \X S -> S]
  PROVE  \E f \in [1..n -> S] : Follows(f, n, a, step)
<1> DEFINE T == {m \in 1..n : ~\E f \in [1..m -> S] : Follows(f, m, a, step)}
<1>1. ASSUME T # {}
      PROVE  FALSE
  <2>1. T \subseteq Nat
    OBVIOUS
  <2>2. PICK m \in T : \A l \in T : m <= l
    <3> HIDE DEF T
    <3> QED
      BY <1>1, <2>1, LeastNatural
  <2>3. m \in 1..n /\ ~\E f \in [1..m -> S] : Follows(f, m, a, step)
    BY <2>2
  <2>4. CASE m = 1
    <3>1. [k \in 1..1 |-> a] \in [1..1 -> S] /\ Follows([k \in 1..1 |-> a], 1, a, step)
      BY DEF Follows
    <3> QED
      BY <2>3, <2>4, <3>1
  <2>5. CASE m # 1
    <3>1. PICK l \in 1..n : l + 1 = m
      BY <2>3, <2>5
    <3>2. l \notin T
      BY <2>2, <3>1
    <3>3. PICK f \in [1..l -> S] : Follows(f, l, a, step)
      BY <3>2
    <3> DEFINE g == [k \in 1..m |-> IF k = m THEN step[<<l, f[l]>>] ELSE f[k]]
    <3>4. f[l] \in S /\ step[<<l, f[l]>>] \in S
      BY <3>1, <3>3
    <3>5. f[1] = a /\ \A k \in 1..(l - 1) : f[k + 1] = step[<<k, f[k]>>]
      BY <3>3 DEF Follows
    <3>6. g \in [1..m -> S] /\ g[1] = a
      BY <2>3, <2>5, <3>1, <3>3, <3>4, <3>5
    <3>7. ASSUME NEW k \in 1..(m - 1)
          PROVE  g[k + 1] = step[<<k, g[k]>>]
      <4>1. k \in 1..l /\ g[k] = f[k]
        BY <2>3, <3>1
      <4>2. CASE k = l
        <5>1. g[k + 1] = step[<<l, f[l]>>]
          BY <2>3, <3>1, <4>2
        <5> HIDE DEF g
        <5> QED
          BY <4>1, <4>2, <5>1
      <4>3. CASE k \in 1..(l - 1)
        BY <3>1, <3>5, <4>1, <4>3, <2>3
      <4> QED
        BY <3>1, <4>1, <4>2, <4>3
    <3>8. Follows(g, m, a, step)
      <4> HIDE DEF g
      <4> QED
        BY <3>6, <3>7 DEF Follows
    <3> QED
      BY <2>3, <3>6, <3>8
  <2> QED
    BY <2>4, <2>5
<1>2. n \notin T
  BY <1>1
<1> QED
  BY <1>2

\* A sum of two divisions.
LEMMA DivisionsAdd ==
  ASSUME NEW m \in Int, NEW q \in Int, NEW p \in Int, NEW o \in Int,
         NEW r \in Int, NEW s \in Int, NEW t \in Int, r + s = m * o + t
  PROVE  (m * q + r) + (m * p + s) = m * (q + p + o) + t
OBVIOUS

\* A sum in a size_t is the sum of what a size_t keeps of the terms.
LEMMA RemaindersAdd ==
  ASSUME NEW m \in Nat \ {0}, NEW a \in Nat, NEW b \in Nat
  PROVE  ((a % m) + (b % m)) % m = (a + b) % m
<1>1. ASSUME NEW n \in Int
      PROVE  \E q \in Int, r \in 0..(m - 1) : r = n % m /\ n = m * q + r
  <2>1. \E q \in Int, r \in 0..(m - 1) : q = n \div m /\ r = n % m /\ n = m * q + r
    BY OneDigit
  <2> QED
    BY <2>1, Zenon
<1>2. PICK q \in Int, r \in 0..(m - 1) : r = a % m /\ a = m * q + r
  <2>1. a \in Int
    OBVIOUS
  <2> QED
    BY <1>1, <2>1, Zenon
<1>3. PICK p \in Int, s \in 0..(m - 1) : s = b % m /\ b = m * p + s
  <2>1. b \in Int
    OBVIOUS
  <2> QED
    BY <1>1, <2>1, Zenon
<1>4. r + s \in Int
  BY <1>2, <1>3
<1>5. PICK o \in Int, t \in 0..(m - 1) : t = (r + s) % m /\ r + s = m * o + t
  BY <1>1, <1>4, Zenon
<1>6. PICK n \in Int, k \in Int : n = a + b /\ k = q + p + o
  BY <1>2, <1>3, <1>5
<1>7. n = m * k + t
  <2>1. /\ m \in Int /\ r \in Int /\ s \in Int /\ t \in Int
        /\ q \in Int /\ p \in Int /\ o \in Int
    BY <1>2, <1>3, <1>5
  <2>2. r + s = m * o + t
    BY <1>5
  <2>3. (m * q + r) + (m * p + s) = m * (q + p + o) + t
    BY <2>1, <2>2, DivisionsAdd
  <2> QED
    BY <1>2, <1>3, <1>6, <2>3, Zenon
<1>8. n % m = t
  <2>1. n \in Int /\ k \in Int /\ t \in 0..(m - 1)
    BY <1>5, <1>6, Zenon
  <2> QED
    BY <1>7, <2>1, QuotientIsUnique
<1> QED
  BY <1>2, <1>3, <1>5, <1>6, <1>8, Zenon

-----------------------------------------------------------------------------
(* Instructions: their rows, their bytes, and what the processor reads.    *)

\* What stands in the rows of the table.
LEMMA TypesOfRows ==
  ASSUME NEW desc \in Descriptors
  PROVE  /\ desc.opcode \in 0..255 /\ desc.opcode \in Nat
         /\ desc.operand1 \in OperandTypes /\ desc.operand2 \in OperandTypes
<1>1. PICK i \in 1..53 : desc = INSTRUCTION_TABLE[i]
  BY DEF Descriptors, INSTRUCTION_TABLE
<1>2. INSTRUCTION_TABLE[i].opcode \in 0..255
  BY DEF INSTRUCTION_TABLE, Plain, OnReg, OnImm, RegImm, RegReg, Row
<1>3. INSTRUCTION_TABLE[i].operand1 \in OperandTypes
  BY DEF INSTRUCTION_TABLE, Plain, OnReg, OnImm, RegImm, RegReg, Row, OperandTypes
<1>4. INSTRUCTION_TABLE[i].operand2 \in OperandTypes
  BY DEF INSTRUCTION_TABLE, Plain, OnReg, OnImm, RegImm, RegReg, Row, OperandTypes
<1> QED
  BY <1>1, <1>2, <1>3, <1>4

\* The operand of a relative jump is an address.
LEMMA RelativeJumps ==
  ASSUME NEW desc \in Descriptors, instruction_is_relative_jump(desc)
  PROVE  desc.operand1 = "OP_IMM32" /\ desc.operand2 = "OP_NONE"
<1>1. PICK i \in 1..53 : desc = INSTRUCTION_TABLE[i]
  BY DEF Descriptors, INSTRUCTION_TABLE
<1>2. INSTRUCTION_TABLE[i].opcode \in \h72..\h7F =>
        INSTRUCTION_TABLE[i].operand1 = "OP_IMM32" /\ INSTRUCTION_TABLE[i].operand2 = "OP_NONE"
  BY DEF INSTRUCTION_TABLE, Plain, OnReg, OnImm, RegImm, RegReg, Row
<1>3. desc.opcode \in \h72..\h7F
  BY TypesOfRows DEF instruction_is_relative_jump
<1> QED
  BY <1>1, <1>2, <1>3

\* An instruction takes at least one byte and at most MaxEncodedSize.
LEMMA EncodedSize ==
  ASSUME NEW desc \in Descriptors
  PROVE  instruction_get_encoded_size(desc) \in 1..MaxEncodedSize
BY TypesOfRows DEF OperandTypes, instruction_get_encoded_size, OperandSize, MaxEncodedSize

\* A DWORD is four bytes.
LEMMA FourBytes ==
  ASSUME NEW v \in Int
  PROVE  cdsg_app_imm(v) \in Seq(Nat) /\ Len(cdsg_app_imm(v)) = 4
<1>1. ByteBase \in Nat \ {0}
  BY ByteBaseAssumption
<1>2. ByteBase * ByteBase \in Nat \ {0}
  BY <1>1
<1>3. ByteBase * ByteBase * ByteBase \in Nat \ {0}
  BY <1>1, <1>2
<1>4. \A d \in Nat \ {0} : (v \div d) % ByteBase \in Nat
  BY <1>1
<1>5. v % ByteBase \in Nat
  BY <1>1
<1> QED
  BY <1>1, <1>2, <1>3, <1>4, <1>5 DEF cdsg_app_imm

\* The operands are of the types the row of the table has.
TypesAgree(desc, ops) ==
  /\ Len(ops) \in 0..2 /\ DOMAIN ops = 1..Len(ops)
  /\ \A i \in DOMAIN ops : ops[i].type \in {"OP_REG", "OP_IMM32"}
  /\ desc.operand1 = IF 1 \in DOMAIN ops THEN ops[1].type ELSE "OP_NONE"
  /\ desc.operand2 = IF 2 \in DOMAIN ops THEN ops[2].type ELSE "OP_NONE"

\* The bytes of the two operands of an instruction, none for one it has not.
LEMMA OperandBytesOf ==
  ASSUME NEW desc \in Descriptors, NEW ops, TypesAgree(desc, ops),
         NEW values \in [DOMAIN ops -> Int],
         \A i \in DOMAIN ops : ops[i].type = "OP_REG" => values[i] \in Nat
  PROVE  /\ OperandBytes(ops, values, 1) \in Seq(Nat)
         /\ Len(OperandBytes(ops, values, 1)) = OperandSize(desc.operand1)
         /\ OperandBytes(ops, values, 2) \in Seq(Nat)
         /\ Len(OperandBytes(ops, values, 2)) = OperandSize(desc.operand2)
<1> DEFINE type(i) == IF i \in DOMAIN ops THEN ops[i].type ELSE "OP_NONE"
<1>1. ASSUME NEW i \in {1, 2}
      PROVE  /\ OperandBytes(ops, values, i) \in Seq(Nat)
             /\ Len(OperandBytes(ops, values, i)) = OperandSize(type(i))
  <2>1. CASE i \notin DOMAIN ops
    BY <2>1 DEF OperandBytes, OperandSize
  <2>2. CASE i \in DOMAIN ops
    <3>1. values[i] \in Int
      BY <2>2
    <3>2. ops[i].type \in {"OP_REG", "OP_IMM32"}
      BY <2>2 DEF TypesAgree
    <3>3. CASE ops[i].type = "OP_REG"
      BY <2>2, <3>1, <3>3 DEF OperandBytes, OperandSize
    <3>4. CASE ops[i].type = "OP_IMM32"
      BY <2>2, <3>1, <3>4, FourBytes DEF OperandBytes, OperandSize
    <3> QED
      BY <3>2, <3>3, <3>4
  <2> QED
    BY <2>1, <2>2
<1>2. desc.operand1 = type(1) /\ desc.operand2 = type(2)
  BY DEF TypesAgree
<1> QED
  BY <1>1, <1>2

\* An opcode and two operands, put together.
LEMMA OpcodeAndOperands ==
  ASSUME NEW x \in Nat, NEW first \in Seq(Nat), NEW second \in Seq(Nat)
  PROVE  /\ <<x>> \o first \o second \in Seq(Nat)
         /\ Len(<<x>> \o first \o second) = 1 + Len(first) + Len(second)
<1>1. <<x>> \in Seq(Nat) /\ Len(<<x>>) = 1
  OBVIOUS
<1>2. <<x>> \o first \in Seq(Nat) /\ Len(<<x>> \o first) = 1 + Len(first)
  BY <1>1
<1> QED
  BY <1>2

\* The bytes of an instruction are as many as its encoded size: what pass 2
\* appends is what pass 1 has reserved.
LEMMA EncodedBytes ==
  ASSUME NEW desc \in Descriptors, NEW ops, TypesAgree(desc, ops),
         NEW values \in [DOMAIN ops -> Int],
         \A i \in DOMAIN ops : ops[i].type = "OP_REG" => values[i] \in Nat
  PROVE  /\ Encode(desc, ops, values) \in Seq(Nat)
         /\ Len(Encode(desc, ops, values)) = instruction_get_encoded_size(desc)
<1>1. desc.opcode \in Nat
  BY TypesOfRows
<1>2. <<desc.opcode>> \in Seq(Nat) /\ Len(<<desc.opcode>>) = 1
  BY <1>1
<1> DEFINE first  == OperandBytes(ops, values, 1)
           second == OperandBytes(ops, values, 2)
<1>3. /\ first \in Seq(Nat) /\ Len(first) = OperandSize(desc.operand1)
      /\ second \in Seq(Nat) /\ Len(second) = OperandSize(desc.operand2)
  BY OperandBytesOf
<1>4. /\ Encode(desc, ops, values) = <<desc.opcode>> \o first \o second
      /\ instruction_get_encoded_size(desc)
           = 1 + OperandSize(desc.operand1) + OperandSize(desc.operand2)
  BY DEF Encode, instruction_get_encoded_size
<1> HIDE DEF first, second
<1>5. OperandSize(desc.operand1) \in Nat /\ OperandSize(desc.operand2) \in Nat
  BY <1>3
<1>6. /\ <<desc.opcode>> \o first \o second \in Seq(Nat)
      /\ Len(<<desc.opcode>> \o first \o second)
           = 1 + OperandSize(desc.operand1) + OperandSize(desc.operand2)
  <2>1. first \in Seq(Nat) /\ second \in Seq(Nat)
    BY <1>3
  <2>2. Len(first) = OperandSize(desc.operand1) /\ Len(second) = OperandSize(desc.operand2)
    BY <1>3
  <2>3. /\ <<desc.opcode>> \o first \o second \in Seq(Nat)
        /\ Len(<<desc.opcode>> \o first \o second) = 1 + Len(first) + Len(second)
    BY <1>1, <2>1, OpcodeAndOperands
  <2> QED
    BY <2>2, <2>3
<1> QED
  BY <1>4, <1>6, Zenon

\* The four bytes of a DWORD, read back: the number again if 32 bits hold it,
\* and a number that differs by a multiple of 2^32 otherwise.
LEMMA DwordReadsBack ==
  ASSUME NEW v \in Int, NEW buffer, NEW at \in Nat,
         \A k \in 1..4 : buffer[at + k] = cdsg_app_imm(v)[k]
  PROVE  /\ Dword(buffer, at) \in Int
         /\ (Dword(buffer, at) - v) % DwordValues = 0
         /\ v \in Int32Min..Int32Max => Dword(buffer, at) = v
<1> DEFINE b == ByteBase
           d == Dword(buffer, at)
<1>1. b \in Nat \ {0} /\ b % 2 = 0
  BY ByteBaseAssumption
<1>2. PICK r0, r1, r2, r3 \in 0..(b - 1) :
           /\ r0 = v % b /\ r1 = (v \div b) % b
           /\ r2 = (v \div (b * b)) % b /\ r3 = (v \div (b * b * b)) % b
           /\ Signed(b, r0, r1, r2, r3) \in Int
           /\ (Signed(b, r0, r1, r2, r3) - v) % Fourth(b) = 0
           /\ v \in (-(Fourth(b) \div 2))..(Fourth(b) \div 2 - 1) =>
                Signed(b, r0, r1, r2, r3) = v
  <2> HIDE DEF b
  <2> QED
    BY <1>1, SignedDigits
<1>3. /\ buffer[at + 1] = r0 /\ buffer[at + 2] = r1
      /\ buffer[at + 3] = r2 /\ buffer[at + 4] = r3
  BY <1>2 DEF cdsg_app_imm
<1>4. d = Signed(b, r0, r1, r2, r3)
  BY <1>3 DEF Dword, DwordValues, Signed, FromDigits, Fourth
<1>5. DwordValues = Fourth(b) /\ Int32Max = Fourth(b) \div 2 - 1 /\ Int32Min = -(Fourth(b) \div 2)
  BY DEF DwordValues, Int32Max, Int32Min, Fourth
<1> HIDE DEF d, b
<1> QED
  BY <1>2, <1>4, <1>5 DEF d

\* buffer has the bytes from address at on.
HoldsAt(buffer, at, bytes) == \A k \in DOMAIN bytes : buffer[at + k] = bytes[k]

\* Bytes that hold two parts hold each of them.
LEMMA TwoParts ==
  ASSUME NEW s \in Seq(Nat), NEW t \in Seq(Nat), NEW buffer, NEW at \in Nat,
         HoldsAt(buffer, at, s \o t)
  PROVE  HoldsAt(buffer, at, s) /\ HoldsAt(buffer, at + Len(s), t)
<1>1. /\ Len(s) \in Nat /\ Len(t) \in Nat
      /\ DOMAIN s = 1..Len(s) /\ DOMAIN t = 1..Len(t)
  OBVIOUS
<1>2. ASSUME NEW k \in 1..Len(s)
      PROVE  buffer[at + k] = s[k]
  <2>1. k \in DOMAIN (s \o t) /\ (s \o t)[k] = s[k]
    OBVIOUS
  <2> QED
    BY <2>1 DEF HoldsAt
<1>3. ASSUME NEW k \in 1..Len(t)
      PROVE  buffer[(at + Len(s)) + k] = t[k]
  <2>1. Len(s) + k \in DOMAIN (s \o t) /\ (s \o t)[Len(s) + k] = t[k]
    OBVIOUS
  <2>2. at + (Len(s) + k) = (at + Len(s)) + k
    BY <1>1
  <2>3. buffer[at + (Len(s) + k)] = (s \o t)[Len(s) + k]
    BY <2>1 DEF HoldsAt
  <2> QED
    BY <2>1, <2>2, <2>3
<1> QED
  BY <1>1, <1>2, <1>3 DEF HoldsAt

\* Bytes that hold an opcode and two operands hold each of them.
LEMMA ThreeParts ==
  ASSUME NEW x \in Nat, NEW first \in Seq(Nat), NEW second \in Seq(Nat),
         NEW buffer, NEW at \in Nat, HoldsAt(buffer, at, <<x>> \o first \o second)
  PROVE  /\ buffer[at + 1] = x
         /\ HoldsAt(buffer, at + 1, first)
         /\ HoldsAt(buffer, at + 1 + Len(first), second)
<1> DEFINE head == <<x>>
           both == head \o first
<1>1. /\ head \in Seq(Nat) /\ Len(head) = 1 /\ head[1] = x /\ 1 \in DOMAIN head
      /\ both \in Seq(Nat) /\ Len(both) = 1 + Len(first)
  OBVIOUS
<1>2. HoldsAt(buffer, at, both \o second)
  OBVIOUS
<1>3. at + (1 + Len(first)) = at + 1 + Len(first)
  OBVIOUS
<1>4. both = head \o first
  OBVIOUS
<1> HIDE DEF head, both
<1>5. HoldsAt(buffer, at, both) /\ HoldsAt(buffer, at + Len(both), second)
  BY <1>1, <1>2, TwoParts
<1>6. HoldsAt(buffer, at, head) /\ HoldsAt(buffer, at + Len(head), first)
  BY <1>1, <1>4, <1>5, TwoParts
<1>7. buffer[at + 1] = x
  BY <1>1, <1>6 DEF HoldsAt
<1> QED
  BY <1>1, <1>3, <1>5, <1>6, <1>7

\* No two rows have the same opcode.
LEMMA OpcodesDiffer ==
  ASSUME NEW i \in 1..53, NEW j \in 1..53,
         INSTRUCTION_TABLE[i].opcode = INSTRUCTION_TABLE[j].opcode
  PROVE  i = j
BY SMTT(60) DEF INSTRUCTION_TABLE, Plain, OnReg, OnImm, RegImm, RegReg, Row

\* The processor finds the row an opcode belongs to.
LEMMA RowOfOpcode ==
  ASSUME NEW desc \in Descriptors
  PROVE  RowOf(desc.opcode) = desc
<1>1. PICK i \in 1..53 : desc = INSTRUCTION_TABLE[i]
  BY DEF Descriptors, INSTRUCTION_TABLE
<1>2. DOMAIN INSTRUCTION_TABLE = 1..53
  BY DEF INSTRUCTION_TABLE
<1> DEFINE found == CHOOSE j \in DOMAIN INSTRUCTION_TABLE :
                      INSTRUCTION_TABLE[j].opcode = desc.opcode
<1>3. \E j \in DOMAIN INSTRUCTION_TABLE : INSTRUCTION_TABLE[j].opcode = desc.opcode
  BY <1>1, <1>2
<1>4. found \in 1..53 /\ INSTRUCTION_TABLE[found].opcode = desc.opcode
  BY <1>2, <1>3
<1> HIDE DEF found
<1>5. found = i
  BY <1>1, <1>4, OpcodesDiffer
<1>6. RowOf(desc.opcode) = INSTRUCTION_TABLE[found]
  BY DEF RowOf, found
<1> QED
  BY <1>1, <1>5, <1>6

\* The processor takes as many bytes for an operand as the assembler writes.
LEMMA WidthIsSize ==
  ASSUME NEW type \in OperandTypes
  PROVE  Width(type) = OperandSize(type)
BY DEF OperandTypes, Width, OperandSize

\* Operand i, read where its bytes are.
LEMMA OperandReads ==
  ASSUME NEW ops, NEW values \in [DOMAIN ops -> Int],
         NEW i \in DOMAIN ops, ops[i].type \in {"OP_REG", "OP_IMM32"}, NEW buffer, NEW at \in Nat,
         HoldsAt(buffer, at, OperandBytes(ops, values, i))
  PROVE  \E x \in Int :
           /\ OperandAt(buffer, at, ops[i].type) = <<x>>
           /\ (x - values[i]) % DwordValues = 0
           /\ (ops[i].type = "OP_REG" \/ values[i] \in Int32Min..Int32Max) => x = values[i]
<1>1. ops[i].type \in {"OP_REG", "OP_IMM32"} /\ values[i] \in Int
  OBVIOUS
<1>2. DwordValues \in Nat \ {0}
  <2>1. ByteBase \in Nat \ {0} /\ ByteBase % 2 = 0
    BY ByteBaseAssumption
  <2> QED
    BY <2>1 DEF DwordValues
<1>3. CASE ops[i].type = "OP_REG"
  <2>1. OperandBytes(ops, values, i) = <<values[i]>>
    BY <1>3 DEF OperandBytes
  <2>2. buffer[at + 1] = values[i]
    BY <2>1 DEF HoldsAt
  <2>3. OperandAt(buffer, at, ops[i].type) = <<values[i]>>
    BY <1>3, <2>2 DEF OperandAt
  <2>4. (values[i] - values[i]) % DwordValues = 0
    BY <1>1, <1>2
  <2> QED
    BY <1>1, <2>3, <2>4
<1>4. CASE ops[i].type = "OP_IMM32"
  <2>1. OperandBytes(ops, values, i) = cdsg_app_imm(values[i])
    BY <1>4 DEF OperandBytes
  <2>2. \A k \in 1..4 : buffer[at + k] = cdsg_app_imm(values[i])[k]
    <3>1. DOMAIN cdsg_app_imm(values[i]) = 1..4
      BY DEF cdsg_app_imm
    <3> QED
      BY <2>1, <3>1 DEF HoldsAt
  <2>3. /\ Dword(buffer, at) \in Int
        /\ (Dword(buffer, at) - values[i]) % DwordValues = 0
        /\ values[i] \in Int32Min..Int32Max => Dword(buffer, at) = values[i]
    BY <1>1, <2>2, DwordReadsBack
  <2>4. OperandAt(buffer, at, ops[i].type) = <<Dword(buffer, at)>>
    BY <1>4 DEF OperandAt
  <2>5. ops[i].type # "OP_REG"
    BY <1>4
  <2> QED
    BY <2>3, <2>4, <2>5, Zenon
<1> QED
  BY <1>1, <1>3, <1>4

\* What Fetch makes of the bytes of an operand that stands for value.
ReadAs(op, value, x) ==
  /\ x \in Int /\ (x - value) % DwordValues = 0
  /\ (op.type = "OP_REG" \/ value \in Int32Min..Int32Max) => x = value

\* What it makes of operand i, nothing when there is none.
PartRead(ops, values, i, part) ==
  IF i \in DOMAIN ops THEN \E x : part = <<x>> /\ ReadAs(ops[i], values[i], x) ELSE part = << >>

\* The operands of an instruction, put together.
LEMMA OperandsRead ==
  ASSUME NEW desc, NEW ops, TypesAgree(desc, ops), NEW values, NEW one, NEW two,
         PartRead(ops, values, 1, one), PartRead(ops, values, 2, two)
  PROVE  /\ one \o two \in Seq(Int) /\ DOMAIN (one \o two) = DOMAIN ops
         /\ \A i \in DOMAIN ops : ReadAs(ops[i], values[i], (one \o two)[i])
<1>1. Len(ops) \in {0, 1, 2} /\ DOMAIN ops = 1..Len(ops)
  BY DEF TypesAgree
<1>2. CASE Len(ops) = 0
  <2>1. one = << >> /\ two = << >> /\ DOMAIN ops = {}
    BY <1>1, <1>2 DEF PartRead
  <2> QED
    BY <2>1
<1>3. CASE Len(ops) = 1
  <2>1. DOMAIN ops = {1}
    BY <1>1, <1>3
  <2>2. PICK x : one = <<x>> /\ ReadAs(ops[1], values[1], x)
    BY <2>1 DEF PartRead
  <2>3. one \o two = <<x>>
    BY <2>1, <2>2 DEF PartRead
  <2>4. DOMAIN <<x>> = {1} /\ <<x>>[1] = x
    OBVIOUS
  <2>5. x \in Int
    BY <2>2 DEF ReadAs
  <2>6. <<x>> \in Seq(Int)
    BY <2>5
  <2> QED
    BY <2>1, <2>2, <2>3, <2>4, <2>6
<1>4. CASE Len(ops) = 2
  <2>1. DOMAIN ops = {1, 2}
    BY <1>1, <1>4
  <2>2. PICK x : one = <<x>> /\ ReadAs(ops[1], values[1], x)
    BY <2>1 DEF PartRead
  <2>3. PICK y : two = <<y>> /\ ReadAs(ops[2], values[2], y)
    BY <2>1 DEF PartRead
  <2>4. DOMAIN (<<x>> \o <<y>>) = {1, 2} /\ (<<x>> \o <<y>>)[1] = x /\ (<<x>> \o <<y>>)[2] = y
    OBVIOUS
  <2>5. x \in Int /\ y \in Int
    BY <2>2, <2>3 DEF ReadAs
  <2>6. <<x>> \o <<y>> \in Seq(Int)
    BY <2>5
  <2> QED
    BY <2>1, <2>2, <2>3, <2>4, <2>6
<1> QED
  BY <1>1, <1>2, <1>3, <1>4

\* The processor, put at an instruction's bytes, finds the instruction again.
LEMMA FetchReads ==
  ASSUME NEW desc \in Descriptors, NEW ops, TypesAgree(desc, ops),
         NEW values \in [DOMAIN ops -> Int],
         \A i \in DOMAIN ops : ops[i].type = "OP_REG" => values[i] \in Nat,
         NEW buffer, NEW at \in Nat, HoldsAt(buffer, at, Encode(desc, ops, values))
  PROVE  LET got == Fetch(buffer, at) IN
         /\ got.mnemonic = desc.mnemonic
         /\ got.next = at + instruction_get_encoded_size(desc)
         /\ got.operands \in Seq(Int) /\ DOMAIN got.operands = DOMAIN ops
         /\ \A i \in DOMAIN ops : ReadAs(ops[i], values[i], got.operands[i])
<1> DEFINE first  == OperandBytes(ops, values, 1)
           second == OperandBytes(ops, values, 2)
           width1 == OperandSize(desc.operand1)
           width2 == OperandSize(desc.operand2)
<1>1. /\ desc.opcode \in Nat /\ desc.operand1 \in OperandTypes /\ desc.operand2 \in OperandTypes
  BY TypesOfRows
<1>2. /\ first \in Seq(Nat) /\ Len(first) = width1
      /\ second \in Seq(Nat) /\ Len(second) = width2
  BY OperandBytesOf
<1>3. width1 \in Nat /\ width2 \in Nat
  BY <1>1 DEF OperandTypes, OperandSize
<1>4. /\ Width(desc.operand1) = width1 /\ Width(desc.operand2) = width2
  BY <1>1, WidthIsSize
<1>5. HoldsAt(buffer, at, <<desc.opcode>> \o first \o second)
  BY DEF Encode
<1> HIDE DEF first, second
<1>6. /\ buffer[at + 1] = desc.opcode
      /\ HoldsAt(buffer, at + 1, first)
      /\ HoldsAt(buffer, at + 1 + Len(first), second)
  BY <1>1, <1>2, <1>5, ThreeParts
<1>7. RowOf(buffer[at + 1]) = desc
  BY <1>6, RowOfOpcode
<1> DEFINE got == Fetch(buffer, at)
           one == OperandAt(buffer, at + 1, desc.operand1)
           two == OperandAt(buffer, at + 1 + width1, desc.operand2)
<1>8. /\ got.mnemonic = desc.mnemonic
      /\ got.next = at + 1 + width1 + width2
      /\ got.operands = one \o two
  BY <1>4, <1>7 DEF Fetch
<1>9. /\ desc.operand1 = IF 1 \in DOMAIN ops THEN ops[1].type ELSE "OP_NONE"
      /\ desc.operand2 = IF 2 \in DOMAIN ops THEN ops[2].type ELSE "OP_NONE"
      /\ \A i \in DOMAIN ops : ops[i].type \in {"OP_REG", "OP_IMM32"}
  BY DEF TypesAgree
<1> HIDE DEF got
<1>10. PartRead(ops, values, 1, one)
  <2>1. CASE 1 \in DOMAIN ops
    <3>1. at + 1 \in Nat /\ HoldsAt(buffer, at + 1, OperandBytes(ops, values, 1))
      BY <1>6 DEF first
    <3> QED
      BY <1>9, <2>1, <3>1, OperandReads DEF ReadAs, PartRead
  <2>2. CASE 1 \notin DOMAIN ops
    BY <1>9, <2>2 DEF OperandAt, PartRead
  <2> QED
    BY <2>1, <2>2
<1>11. PartRead(ops, values, 2, two)
  <2>1. CASE 2 \in DOMAIN ops
    <3>1. /\ at + 1 + width1 \in Nat
          /\ HoldsAt(buffer, at + 1 + width1, OperandBytes(ops, values, 2))
      BY <1>2, <1>3, <1>6 DEF second
    <3> QED
      BY <1>9, <2>1, <3>1, OperandReads DEF ReadAs, PartRead
  <2>2. CASE 2 \notin DOMAIN ops
    BY <1>9, <2>2 DEF OperandAt, PartRead
  <2> QED
    BY <2>1, <2>2
<1> HIDE DEF one, two
<1>12. /\ got.operands \in Seq(Int) /\ DOMAIN got.operands = DOMAIN ops
       /\ \A i \in DOMAIN ops : ReadAs(ops[i], values[i], got.operands[i])
  <2>1. /\ one \o two \in Seq(Int) /\ DOMAIN (one \o two) = DOMAIN ops
        /\ \A i \in DOMAIN ops : ReadAs(ops[i], values[i], (one \o two)[i])
    BY <1>10, <1>11, OperandsRead
  <2> QED
    BY <1>8, <2>1, Zenon
<1>13. got.next = at + instruction_get_encoded_size(desc)
  BY <1>3, <1>8 DEF instruction_get_encoded_size
<1> QED
  BY <1>8, <1>12, <1>13 DEF got
=============================================================================
