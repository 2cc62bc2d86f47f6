-------------------------- MODULE LifoQueue_proofs --------------------------
(***************************************************************************)
(* The ring with its wrapping counters implements the work-stealing deque, *)
(* for any number of workers and items, any ring size, any first value of  *)
(* the counters and any values of count_fn, as long as the ring has a slot *)
(* for every item and the counters do not come round to a value a thief    *)
(* may still remember.                                                     *)
(***************************************************************************)
EXTENDS LifoQueue, SequenceTheorems, FiniteSetTheorems, TLAPS

D == INSTANCE StealDeque_proofs WITH
    deque <- [w \in Workers |-> Content(w)],
    transit <- [w \in Workers |-> InTransit(w)]

(* Every item fits into every ring, as tasks fit into the static executor's
   queues, and no counter comes round to its first value. *)
Roomy == Cardinality(Items) <= N /\ MaxPushes + N <= Wrap

----------------------------------------------------------------------------
(* Words.  A counter that has moved by a from its first value is Ctr(a), and
   push_count, which starts at twice that value, is PCtr(a). *)

Ctr(a) == Plus(Start, a)
PCtr(a) == Plus(Plus(Start, Start), a)
Moves(c) == Minus(c, Start)
PMoves(c) == Minus(c, Plus(Start, Start))

LEMMA Sizes ==
  /\ N \in Nat /\ N >= 1 /\ Wrap \in Nat /\ Wrap > 2 * N /\ Wrap >= 1 /\ Wrap % N = 0
  /\ Start \in Counters /\ MaxPushes \in Nat
  /\ \A c \in Counters : c \in Int /\ 0 <= c /\ c < Wrap
  /\ \A c \in Int : 0 <= c /\ c < Wrap => c \in Counters
  BY SizeAssumption DEF Counters

(* wrapping_add and wrapping_sub of two words *)
LEMMA WordFacts ==
  ASSUME NEW a \in Counters, NEW b \in Counters
  PROVE  /\ Plus(a, b) = IF a + b < Wrap THEN a + b ELSE a + b - Wrap
         /\ Minus(a, b) = IF b <= a THEN a - b ELSE a - b + Wrap
         /\ Plus(a, b) \in Counters /\ Minus(a, b) \in Counters
<1>1. a \in Int /\ b \in Int /\ 0 <= a /\ a < Wrap /\ 0 <= b /\ b < Wrap /\ Wrap \in Nat
  BY Sizes
<1>2. /\ \A x \in 0..(Wrap - 1) : x % Wrap = x
      /\ \A x \in Wrap..(2 * Wrap - 1) : x % Wrap = x - Wrap
      /\ \A x \in (0 - Wrap)..(0 - 1) : x % Wrap = x + Wrap
  <2>1. ASSUME NEW x \in 0..(Wrap - 1) PROVE x % Wrap = x
    BY <1>1
  <2>2. ASSUME NEW x \in Wrap..(2 * Wrap - 1) PROVE x % Wrap = x - Wrap
    BY <1>1
  <2>3. ASSUME NEW x \in (0 - Wrap)..(0 - 1) PROVE x % Wrap = x + Wrap
    BY <1>1
  <2> QED  BY <2>1, <2>2, <2>3
<1>3. Plus(a, b) = IF a + b < Wrap THEN a + b ELSE a + b - Wrap
  <2>1. CASE a + b < Wrap
    <3>1. a + b \in 0..(Wrap - 1)  BY <1>1, <2>1
    <3> QED  BY <1>2, <2>1, <3>1 DEF Plus
  <2>2. CASE ~(a + b < Wrap)
    <3>1. a + b \in Wrap..(2 * Wrap - 1)  BY <1>1, <2>2
    <3> QED  BY <1>1, <1>2, <2>2, <3>1 DEF Plus
  <2> QED  BY <2>1, <2>2
<1>4. Minus(a, b) = IF b <= a THEN a - b ELSE a - b + Wrap
  <2>1. CASE b <= a
    <3>1. a - b \in 0..(Wrap - 1)  BY <1>1, <2>1
    <3> QED  BY <1>2, <2>1, <3>1 DEF Minus
  <2>2. CASE ~(b <= a)
    <3>1. a - b \in (0 - Wrap)..(0 - 1)  BY <1>1, <2>2
    <3> QED  BY <1>2, <2>2, <3>1 DEF Minus
  <2> QED  BY <2>1, <2>2
<1> QED  BY <1>1, <1>3, <1>4 DEF Counters

(* A word is the counter that has moved by its distance from the start. *)
LEMMA MovesFacts ==
  ASSUME NEW c \in Counters
  PROVE  /\ Ctr(c) \in Counters /\ PCtr(c) \in Counters
         /\ Moves(c) \in Counters /\ c = Ctr(Moves(c)) /\ Moves(Ctr(c)) = c
         /\ PMoves(c) \in Counters /\ c = PCtr(PMoves(c)) /\ PMoves(PCtr(c)) = c
<1>1. Start \in Counters /\ Plus(Start, Start) \in Counters
  BY Sizes, WordFacts
<1>2. ASSUME NEW s \in Counters
      PROVE  /\ Plus(s, c) \in Counters /\ Minus(c, s) \in Counters
             /\ c = Plus(s, Minus(c, s)) /\ Minus(Plus(s, c), s) = c
  <2>1. Plus(s, c) \in Counters /\ Minus(c, s) \in Counters
    BY WordFacts
  <2>2. /\ Plus(s, c) = IF s + c < Wrap THEN s + c ELSE s + c - Wrap
        /\ Minus(c, s) = IF s <= c THEN c - s ELSE c - s + Wrap
    BY WordFacts
  <2>3. Plus(s, Minus(c, s)) = IF s + Minus(c, s) < Wrap THEN s + Minus(c, s)
                               ELSE s + Minus(c, s) - Wrap
    BY <2>1, WordFacts
  <2>4. Minus(Plus(s, c), s) = IF s <= Plus(s, c) THEN Plus(s, c) - s ELSE Plus(s, c) - s + Wrap
    BY <2>1, WordFacts
  <2> QED  BY <2>1, <2>2, <2>3, <2>4, Sizes
<1> QED  BY <1>1, <1>2 DEF Ctr, PCtr, Moves, PMoves

(* The arithmetic of the queue, on how far the counters have moved. *)
LEMMA CtrFacts ==
  ASSUME NEW a \in Counters, NEW b \in Counters
  PROVE  /\ a + b \in Counters => Plus(Ctr(a), b) = Ctr(a + b) /\ Plus(PCtr(a), b) = PCtr(a + b)
         /\ b <= a => /\ Minus(Ctr(a), b) = Ctr(a - b) /\ Minus(Ctr(a), Ctr(b)) = a - b
                      /\ Minus(PCtr(a), Ctr(b)) = Ctr(a - b)
<1> DEFINE two == Plus(Start, Start)
<1>1. /\ two \in Counters /\ Ctr(a) \in Counters /\ Ctr(b) \in Counters /\ PCtr(a) \in Counters
      /\ Start \in Counters
  BY Sizes, WordFacts, MovesFacts
<1>2. /\ two = IF Start + Start < Wrap THEN Start + Start ELSE Start + Start - Wrap
      /\ Ctr(a) = IF Start + a < Wrap THEN Start + a ELSE Start + a - Wrap
      /\ Ctr(b) = IF Start + b < Wrap THEN Start + b ELSE Start + b - Wrap
      /\ PCtr(a) = IF two + a < Wrap THEN two + a ELSE two + a - Wrap
  BY <1>1, WordFacts DEF Ctr, PCtr
<1> HIDE DEF two
<1>3. ASSUME a + b \in Counters
      PROVE  Plus(Ctr(a), b) = Ctr(a + b) /\ Plus(PCtr(a), b) = PCtr(a + b)
  <2>1. /\ Ctr(a + b) = IF Start + (a + b) < Wrap THEN Start + (a + b) ELSE Start + (a + b) - Wrap
        /\ PCtr(a + b) = IF two + (a + b) < Wrap THEN two + (a + b) ELSE two + (a + b) - Wrap
    BY <1>1, <1>3, WordFacts DEF Ctr, PCtr, two
  <2>2. /\ Plus(Ctr(a), b) = IF Ctr(a) + b < Wrap THEN Ctr(a) + b ELSE Ctr(a) + b - Wrap
        /\ Plus(PCtr(a), b) = IF PCtr(a) + b < Wrap THEN PCtr(a) + b ELSE PCtr(a) + b - Wrap
    BY <1>1, WordFacts
  <2> QED  BY <1>1, <1>2, <1>3, <2>1, <2>2, Sizes
<1>4. ASSUME b <= a
      PROVE  /\ Minus(Ctr(a), b) = Ctr(a - b) /\ Minus(Ctr(a), Ctr(b)) = a - b
             /\ Minus(PCtr(a), Ctr(b)) = Ctr(a - b)
  <2>1. a - b \in Counters
    BY <1>4, Sizes
  <2>2. Ctr(a - b) = IF Start + (a - b) < Wrap THEN Start + (a - b) ELSE Start + (a - b) - Wrap
    BY <1>1, <2>1, WordFacts DEF Ctr
  <2>3. /\ Minus(Ctr(a), b) = IF b <= Ctr(a) THEN Ctr(a) - b ELSE Ctr(a) - b + Wrap
        /\ Minus(Ctr(a), Ctr(b)) = IF Ctr(b) <= Ctr(a) THEN Ctr(a) - Ctr(b) ELSE Ctr(a) - Ctr(b) + Wrap
        /\ Minus(PCtr(a), Ctr(b)) = IF Ctr(b) <= PCtr(a) THEN PCtr(a) - Ctr(b) ELSE PCtr(a) - Ctr(b) + Wrap
    BY <1>1, WordFacts
  <2> QED  BY <1>1, <1>2, <1>4, <2>1, <2>2, <2>3, Sizes
<1> QED  BY <1>3, <1>4

----------------------------------------------------------------------------
(* Slots. *)

LEMMA Division ==
  ASSUME NEW n \in Nat, n >= 1, NEW x \in Int
  PROVE  x \div n \in Int /\ x % n \in 0..(n - 1) /\ x % n = x - n * (x \div n)
<1>1. x \div n \in Int /\ x % n \in 0..(n - 1)
  OBVIOUS
<1>2. x % n = x - n * (x \div n)
  BY Z3T(60)
<1> QED  BY <1>1, <1>2

(* A multiple of n more or less does not change the remainder. *)
LEMMA SameRemainder ==
  ASSUME NEW n \in Nat, n >= 1, NEW x \in Int, NEW k \in Int
  PROVE  (x + n * k) % n = x % n
<1> DEFINE q == x \div n  r == x % n
<1>1. r = x - n * q /\ q \in Int /\ r \in 0..(n - 1)
  BY Division
<1> HIDE DEF q, r
<1>2. x + n * k = n * (q + k) + r /\ q + k \in Int
  BY <1>1
<1>3. ASSUME NEW y \in Int, NEW p \in Int, y = n * p + r PROVE y % n = r
  BY <1>1, <1>3
<1>4. x + n * k \in Int
  OBVIOUS
<1>5. (x + n * k) % n = r
  BY <1>2, <1>3, <1>4
<1> QED  BY <1>5 DEF r

(* Neighbours closer than n have different remainders. *)
LEMMA OtherRemainder ==
  ASSUME NEW n \in Nat, n >= 1, NEW x \in Int, NEW y \in Int, x < y, y < x + n
  PROVE  x % n # y % n
<1> DEFINE q == x \div n  r == x % n  p == y \div n  s == y % n
<1>1. r = x - n * q /\ q \in Int /\ r \in 0..(n - 1)
  BY Division
<1>2. s = y - n * p /\ p \in Int /\ s \in 0..(n - 1)
  BY Division
<1> HIDE DEF q, r, p, s
<1>a. x = n * q + r
  BY <1>1
<1>b. y = n * p + s
  BY <1>2
<1> SUFFICES ASSUME r = s PROVE FALSE
  BY DEF r, s
<1>3. y - x = n * (p - q)
  BY <1>a, <1>b, <1>1, <1>2
<1>4. CASE p - q >= 1
  <2>1. n * (p - q) >= n  BY <1>1, <1>2, <1>4
  <2> QED  BY <1>3, <2>1
<1>5. CASE p - q <= 0
  <2>1. n * (p - q) <= 0  BY <1>1, <1>2, <1>5
  <2> QED  BY <1>3, <2>1
<1> QED  BY <1>1, <1>2, <1>4, <1>5

(* The slot of the item a counter Ctr(a) points at. *)
Slot(a) == Ctr(a) % N

(* Across the wrap-around too, less than N items in a row are in different
   slots. *)
LEMMA SlotFacts ==
  ASSUME NEW a \in Counters, NEW b \in Counters
  PROVE  /\ Slot(a) \in 0..(N - 1)
         /\ a < b /\ b < a + N => Slot(a) # Slot(b)
<1>1. PICK q \in Int : Wrap = N * q
  <2> DEFINE d == Wrap \div N
  <2>1. N \in Nat /\ N >= 1 /\ Wrap \in Int /\ Wrap % N = 0
    BY Sizes
  <2>2. d \in Int /\ 0 = Wrap - N * d
    BY <2>1, Division
  <2> HIDE DEF d
  <2>3. Wrap = N * d
    BY <2>1, <2>2
  <2> QED  BY <2>2, <2>3
<1>2. ASSUME NEW c \in Counters PROVE Slot(c) = (Start + c) % N
  <2>1. Ctr(c) = IF Start + c < Wrap THEN Start + c ELSE Start + c - Wrap
    BY Sizes, WordFacts, <1>2 DEF Ctr
  <2>2. CASE Start + c < Wrap
    BY <2>1, <2>2 DEF Slot
  <2>3. CASE ~(Start + c < Wrap)
    <3> DEFINE x == Start + c  k == 0 - q
    <3>1. x \in Int /\ k \in Int /\ Ctr(c) = x - Wrap /\ N * k = 0 - Wrap
      BY <1>1, <1>2, <2>1, <2>3, Sizes
    <3>2. x - Wrap = x + N * k
      BY <3>1, Sizes
    <3> HIDE DEF x, k
    <3>3. (x + N * k) % N = x % N
      BY <3>1, Sizes, SameRemainder
    <3> QED  BY <3>1, <3>2, <3>3 DEF Slot, x
  <2> QED  BY <2>2, <2>3
<1>3. Start + a \in Int /\ Start + b \in Int
  BY Sizes
<1>4. Slot(a) \in 0..(N - 1)
  BY <1>2, <1>3, Sizes, Division
<1>5. ASSUME a < b, b < a + N PROVE (Start + a) % N # (Start + b) % N
  <2>1. Start + a < Start + b /\ Start + b < Start + a + N
    BY <1>5, Sizes
  <2> DEFINE x == Start + a  y == Start + b
  <2>2. x \in Int /\ y \in Int /\ x < y /\ y < x + N
    BY <1>3, <2>1
  <2> HIDE DEF x, y
  <2>3. x % N # y % N
    BY <2>2, Sizes, OtherRemainder
  <2> QED  BY <2>3 DEF x, y
<1> QED  BY <1>2, <1>4, <1>5

(* n items of a ring, from the a-th on. *)
Ring(b, a, n) == [i \in 1..n |-> b[Slot(a + i - 1)]]

LEMMA RingFacts ==
  ASSUME NEW S, NEW b \in [0..(N - 1) -> S], NEW a \in Nat, NEW n \in Nat, a + n <= Wrap
  PROVE  Ring(b, a, n) \in Seq(S) /\ Len(Ring(b, a, n)) = n
<1>1. ASSUME NEW i \in 1..n PROVE a + i - 1 \in Counters /\ b[Slot(a + i - 1)] \in S
  <2>1. a + i - 1 \in Counters
    BY Sizes, <1>1
  <2>2. Slot(a + i - 1) \in 0..(N - 1)
    BY <2>1, SlotFacts
  <2> QED  BY <2>1, <2>2
<1>2. Ring(b, a, n) \in [1..n -> S]
  BY <1>1 DEF Ring
<1>3. Ring(b, a, n) \in Seq(S) /\ Len(Ring(b, a, n)) = n
  BY <1>2
<1> QED  BY <1>3

(* A sequence, as the function it is. *)
LEMMA AsFunction ==
  ASSUME NEW S, NEW q \in Seq(S), NEW n, Len(q) = n PROVE q = [i \in 1..n |-> q[i]]
  BY LenProperties

(* Two neighbouring pieces of the ring. *)
LEMMA RingJoin ==
  ASSUME NEW S, NEW b \in [0..(N - 1) -> S], NEW a \in Nat, NEW m \in Nat, NEW n \in Nat,
         a + m + n <= Wrap
  PROVE  Ring(b, a, m) \o Ring(b, a + m, n) = Ring(b, a, m + n)
<1> DEFINE q == Ring(b, a, m)  r == Ring(b, a + m, n)  j == q \o r
<1>1. /\ a + m \in Nat /\ m + n \in Nat /\ a + m <= Wrap /\ (a + m) + n <= Wrap
      /\ a + (m + n) <= Wrap
  BY Sizes
<1>2. /\ q \in Seq(S) /\ Len(q) = m
      /\ r \in Seq(S) /\ Len(r) = n
  <2>1. q \in Seq(S) /\ Len(q) = m
    BY <1>1, RingFacts, ZenonT(40)
  <2>2. r \in Seq(S) /\ Len(r) = n
    BY <1>1, RingFacts, ZenonT(40)
  <2> QED  BY <2>1, <2>2
<1>3. /\ \A i \in 1..m : q[i] = b[Slot(a + i - 1)]
      /\ \A i \in 1..n : r[i] = b[Slot(a + m + i - 1)]
  BY DEF Ring
<1> HIDE DEF q, r
<1>4. /\ j \in Seq(S) /\ Len(j) = m + n
      /\ \A i \in 1..(m + n) : j[i] = IF i <= m THEN q[i] ELSE r[i - m]
  <2>1. \A i \in 1..(Len(q) + Len(r)) : j[i] = IF i <= Len(q) THEN q[i] ELSE r[i - Len(q)]
    BY <1>2, ConcatProperties
  <2>2. j \in Seq(S) /\ Len(j) = Len(q) + Len(r)
    BY <1>2, ConcatProperties
  <2> QED  BY <1>2, <2>1, <2>2
<1> HIDE DEF j
<1>5. ASSUME NEW i \in 1..(m + n) PROVE j[i] = b[Slot(a + i - 1)]
  <2>1. CASE i <= m
    <3>1. i \in 1..m
      BY <2>1
    <3> QED  BY <1>3, <1>4, <2>1, <3>1
  <2>2. CASE i > m
    <3>1. i - m \in 1..n /\ a + m + (i - m) - 1 = a + i - 1 /\ ~(i <= m)
      BY <2>2
    <3>2. r[i - m] = b[Slot(a + m + (i - m) - 1)]
      BY <1>3, <3>1
    <3> QED  BY <1>4, <3>1, <3>2
  <2> QED  BY <2>1, <2>2
<1>6. j = Ring(b, a, m + n)
  <2>1. j = [i \in 1..(m + n) |-> j[i]]
    BY <1>4, AsFunction
  <2> QED  BY <1>5, <2>1 DEF Ring
<1> QED  BY <1>6 DEF j, q, r

(* A piece of the ring cut in two. *)
LEMMA RingCut ==
  ASSUME NEW S, NEW b \in [0..(N - 1) -> S], NEW a \in Nat, NEW n \in Nat, NEW k \in 0..n,
         a + n <= Wrap
  PROVE  /\ SubSeq(Ring(b, a, n), 1, k) = Ring(b, a, k)
         /\ SubSeq(Ring(b, a, n), k + 1, n) = Ring(b, a + k, n - k)
<1> DEFINE q == Ring(b, a, n)  pre == SubSeq(q, 1, k)  rest == SubSeq(q, k + 1, Len(q))
<1>0. q \in Seq(S) /\ Len(q) = n
  BY RingFacts
<1>1. \A i \in 1..n : q[i] = b[Slot(a + i - 1)]
  BY DEF Ring
<1> HIDE DEF q
<1>2. /\ pre \in Seq(S) /\ rest \in Seq(S) /\ Len(pre) = k /\ Len(rest) = n - k
      /\ \A i \in 1..k : pre[i] = q[i]
      /\ \A i \in 1..(n - k) : rest[i] = q[k + i]
  BY <1>0, D!SplitFacts
<1> HIDE DEF pre, rest
<1>3. /\ k \in Nat /\ n - k \in Nat /\ a + k \in Nat /\ a + k <= Wrap
      /\ (a + k) + (n - k) <= Wrap
  BY Sizes
<1>4. \A i \in 1..k : pre[i] = b[Slot(a + i - 1)]
  <2>1. \A i \in 1..k : i \in 1..n
    BY <1>3
  <2> QED  BY <1>1, <1>2, <2>1
<1>5. \A i \in 1..(n - k) : rest[i] = b[Slot(a + k + i - 1)]
  <2> SUFFICES ASSUME NEW i \in 1..(n - k) PROVE rest[i] = b[Slot(a + k + i - 1)]
    OBVIOUS
  <2>1. k + i \in 1..n /\ a + (k + i) - 1 = a + k + i - 1
    BY <1>3
  <2> QED  BY <1>1, <1>2, <2>1
<1>6. pre = Ring(b, a, k)
  <2>1. pre = [i \in 1..k |-> pre[i]]
    BY <1>2, AsFunction
  <2> QED  BY <1>4, <2>1 DEF Ring
<1>7. rest = Ring(b, a + k, n - k)
  <2>1. rest = [i \in 1..(n - k) |-> rest[i]]
    BY <1>2, AsFunction
  <2> QED  BY <1>5, <2>1 DEF Ring
<1> QED  BY <1>0, <1>6, <1>7 DEF pre, rest, q

LEMMA WriteFacts ==
  ASSUME NEW I, NEW S, NEW b \in [I -> S], NEW j \in I, NEW x \in S
  PROVE  [b EXCEPT ![j] = x] \in [I -> S] /\ [b EXCEPT ![j] = x][j] = x
  OBVIOUS

(* As many different items as there are slots at most. *)
LEMMA DistinctFit ==
  ASSUME Roomy, NEW q \in Seq(Items), D!NoRepeat(q)
  PROVE  Len(q) <= N
<1> DEFINE n == Len(q)
<1>1. n \in Nat /\ q \in [1..n -> Items]
  BY LenProperties
<1>2. q \in Injection(1..n, Items)
  BY <1>1 DEF D!NoRepeat, Injection, IsInjective
<1>3. Cardinality(1..n) = n
  <2>1. 1 \in Int /\ n \in Int
    BY <1>1
  <2> HIDE DEF n
  <2>2. Cardinality(1..n) = IF 1 > n THEN 0 ELSE n - 1 + 1
    BY <2>1, FS_Interval
  <2> QED  BY <1>1, <2>2
<1>4. Cardinality(1..n) <= Cardinality(Items) /\ Cardinality(Items) \in Nat
  BY <1>2, SizeAssumption, FS_Injection, FS_CardinalityType
<1> QED  BY <1>1, <1>3, <1>4, Sizes DEF Roomy

(* Three sequences of different items. *)
LEMMA ThreeFit ==
  ASSUME Roomy, NEW q \in Seq(Items), NEW r \in Seq(Items), NEW s \in Seq(Items),
         D!NoRepeat(q), D!NoRepeat(r), D!NoRepeat(s), D!ToSet(q) \cap D!ToSet(r) = {},
         D!ToSet(q) \cap D!ToSet(s) = {}, D!ToSet(r) \cap D!ToSet(s) = {}
  PROVE  Len(q) + Len(r) + Len(s) <= N
<1>1. /\ q \o r \in Seq(Items) /\ Len(q \o r) = Len(q) + Len(r)
      /\ D!ToSet(q \o r) = D!ToSet(q) \cup D!ToSet(r) /\ D!NoRepeat(q \o r)
  BY D!JoinFacts
<1> DEFINE j == q \o r
<1> HIDE DEF j
<1>2. j \in Seq(Items) /\ D!NoRepeat(j) /\ D!ToSet(j) \cap D!ToSet(s) = {}
  BY <1>1 DEF j
<1>3. j \o s \in Seq(Items) /\ Len(j \o s) = Len(j) + Len(s) /\ D!NoRepeat(j \o s)
  BY <1>2, D!JoinFacts
<1>4. Len(j \o s) <= N
  BY <1>3, DistinctFit
<1> QED  BY <1>1, <1>3, <1>4 DEF j

----------------------------------------------------------------------------
(* The inductive invariant. *)

P(w) == PMoves(push[w])
O(w) == Moves(pcah[w].pop)
H(w) == Moves(pcah[w].head)
T(w) == Moves(head[w])
End(w) == P(w) - O(w)

Words == [pop : Counters, head : Counters]

Ops == [at : {"idle", "push", "pop", "head", "count", "cas", "copy", "done"},
        kind : {"none", "steal", "steal_and_pop", "drain"},
        victim : Workers \cup {Null}, snap : Words, old : Counters, want : Nat,
        max : Nat, count : Nat, batch : Seq(Items), got : Seq(Items)]

(* The thieves' head, the booked head and the tail are in this order. *)
Ordered == \A w \in Workers : T(w) <= H(w) /\ H(w) <= End(w) /\ P(w) < MaxPushes + N

(* The items that go to the own ring; Transfer(w) for a call r. *)
Moved(r) == CASE r.kind = "steal" -> r.count
              [] r.kind = "steal_and_pop" -> r.count - 1
              [] r.kind = "drain" -> 0

Taking(r) == r.at \in {"copy", "done"}
Stealing(r) == r.at \in {"head", "count", "cas"}

(* What worker w knows in call r: of the items it pushes, which are in hand and
   written up to `count`; *)
PushOK(w, r) == r.at = "push" =>
    /\ D!ToSet(r.batch) \subseteq held[w] /\ D!NoRepeat(r.batch)
    /\ Len(r.batch) \in 1..2 /\ r.count <= Len(r.batch)
    /\ \A i \in 1..r.count : buffer[w][Slot(End(w) + i - 1)] = r.batch[i]

(* that its bound was checked and that only drain() takes from the own queue; *)
CallOK(w, r) ==
    /\ r.at = "push" => P(w) < MaxPushes
    /\ (Stealing(r) \/ r.at = "copy") /\ r.kind # "drain" => P(w) < MaxPushes
    /\ Stealing(r) \/ Taking(r) =>
          r.victim \in Workers /\ r.kind # "none" /\ (r.kind = "drain" <=> r.victim = w)

(* that the counters it has read have not moved back since; *)
SnapOK(r) ==
    /\ Stealing(r) => /\ Moves(r.snap.pop) <= O(r.victim) /\ Moves(r.snap.head) <= H(r.victim)
                      /\ r.got = <<>>
    /\ r.at \in {"count", "cas"} => Moves(r.old) <= T(r.victim)
    /\ r.at = "cas" => /\ r.old = r.snap.head /\ r.count >= 1
                       /\ r.count <= P(r.victim) - Moves(r.snap.pop) - Moves(r.snap.head)

(* that what it has booked lies between the two heads of its victim; *)
TakeOK(r) == Taking(r) =>
    /\ r.count >= 1 /\ r.old = head[r.victim]
    /\ T(r.victim) + r.count = H(r.victim)

(* and that what it has copied is beyond its tail. *)
CopyOK(w, r) == r.at = "copy" =>
    /\ Len(r.got) <= r.count
    /\ \A i \in 1..Len(r.got) : i <= Moved(r) => buffer[w][Slot(End(w) + i - 1)] = r.got[i]

OpOK(w, r) == PushOK(w, r) /\ CallOK(w, r) /\ SnapOK(r) /\ TakeOK(r) /\ CopyOK(w, r)

(* At most one thief has booked items of a queue and not let go of it. *)
OneTaker == \A v, w \in Workers :
    v # w /\ Taking(op[v]) /\ Taking(op[w]) => op[v].victim # op[w].victim

Calls == op \in [Workers -> Ops] /\ \A w \in Workers : OpOK(w, op[w])

IInv == TypeOK /\ Ordered /\ Calls /\ OneTaker /\ D!IInv

----------------------------------------------------------------------------
(* The state, read through the counters' moves. *)

Moving(p, q) == PMoves(p) - Moves(q.pop)

ContentOf(p, q, b) ==
    [i \in 1..Minus(Minus(p, q.pop), q.head) |-> b[Plus(q.head, i - 1) % N]]

LEMMA TailIs ==
  ASSUME NEW p \in Counters, NEW q \in Words, Moves(q.head) <= Moving(p, q)
  PROVE  /\ PMoves(p) \in Counters /\ Moves(q.pop) \in Counters /\ Moves(q.head) \in Counters
         /\ Moving(p, q) \in Counters /\ Moving(p, q) <= PMoves(p)
         /\ Minus(p, q.pop) = Ctr(Moving(p, q))
         /\ Minus(Minus(p, q.pop), q.head) = Moving(p, q) - Moves(q.head)
<1> DEFINE a == PMoves(p)  o == Moves(q.pop)  h == Moves(q.head)
<1>1. q.pop \in Counters /\ q.head \in Counters
  BY DEF Words
<1>2. /\ a \in Counters /\ o \in Counters /\ h \in Counters
      /\ p = PCtr(a) /\ q.pop = Ctr(o) /\ q.head = Ctr(h)
  BY <1>1, MovesFacts
<1>3. Moving(p, q) = a - o /\ h <= a - o
  BY DEF Moving
<1> HIDE DEF a, o, h
<1>4. a - o \in Counters /\ o <= a /\ a - o <= a
  BY <1>2, <1>3, Sizes
<1>5. Minus(PCtr(a), Ctr(o)) = Ctr(a - o)
  BY <1>2, <1>4, CtrFacts
<1>6. Minus(Ctr(a - o), Ctr(h)) = (a - o) - h
  <2> DEFINE e == a - o
  <2>1. e \in Counters /\ h <= e
    BY <1>3, <1>4
  <2> HIDE DEF e
  <2>2. Minus(Ctr(e), Ctr(h)) = e - h
    BY <1>2, <2>1, CtrFacts
  <2> QED  BY <2>2 DEF e
<1> QED  BY <1>2, <1>3, <1>4, <1>5, <1>6 DEF a, o, h

LEMMA ContentOfIs ==
  ASSUME NEW p \in Counters, NEW q \in Words, NEW b, Moves(q.head) <= Moving(p, q)
  PROVE  ContentOf(p, q, b) = Ring(b, Moves(q.head), Moving(p, q) - Moves(q.head))
<1> DEFINE h == Moves(q.head)  e == Moving(p, q)
<1>1. /\ h \in Counters /\ e \in Counters /\ h <= e /\ q.head = Ctr(h)
      /\ Minus(Minus(p, q.pop), q.head) = e - h
  BY TailIs, MovesFacts DEF Words
<1> HIDE DEF h, e
<1>2. ASSUME NEW i \in 1..(e - h) PROVE Plus(q.head, i - 1) = Ctr(h + i - 1)
  <2>1. i - 1 \in Counters /\ h + (i - 1) \in Counters /\ h + (i - 1) = h + i - 1
    BY <1>1, <1>2, Sizes
  <2>2. Plus(Ctr(h), i - 1) = Ctr(h + (i - 1))
    BY <1>1, <2>1, CtrFacts
  <2> QED  BY <1>1, <2>1, <2>2
<1>3. ContentOf(p, q, b) = [i \in 1..(e - h) |-> b[Plus(q.head, i - 1) % N]]
  BY <1>1 DEF ContentOf
<1>4. \A i \in 1..(e - h) : b[Plus(q.head, i - 1) % N] = b[Slot(h + i - 1)]
  BY <1>2 DEF Slot
<1>5. ContentOf(p, q, b) = Ring(b, h, e - h)
  BY <1>3, <1>4 DEF Ring
<1> QED  BY <1>5 DEF h, e

LEMMA Numbers ==
  ASSUME Roomy, TypeOK, Ordered, NEW w \in Workers
  PROVE  /\ push[w] = PCtr(P(w)) /\ pcah[w] \in Words /\ head[w] = Ctr(T(w))
         /\ pcah[w].pop = Ctr(O(w)) /\ pcah[w].head = Ctr(H(w)) /\ TailOf(w) = Ctr(End(w))
         /\ P(w) \in Counters /\ O(w) \in Counters /\ H(w) \in Counters /\ T(w) \in Counters
         /\ End(w) \in Counters /\ End(w) <= P(w) /\ End(w) = P(w) - O(w)
         /\ T(w) <= H(w) /\ H(w) <= End(w) /\ P(w) < MaxPushes + N /\ MaxPushes + N <= Wrap
<1>1. push[w] \in Counters /\ pcah[w] \in Words /\ head[w] \in Counters
  BY DEF TypeOK, Words
<1>2. pcah[w].pop \in Counters /\ pcah[w].head \in Counters
  BY <1>1 DEF Words
<1>3. /\ push[w] = PCtr(P(w)) /\ pcah[w].pop = Ctr(O(w)) /\ pcah[w].head = Ctr(H(w))
      /\ head[w] = Ctr(T(w)) /\ T(w) \in Counters
  BY <1>1, <1>2, MovesFacts DEF P, O, H, T
<1>4. T(w) <= H(w) /\ H(w) <= End(w) /\ P(w) < MaxPushes + N /\ MaxPushes + N <= Wrap
  BY DEF Ordered, Roomy
<1>5. Moving(push[w], pcah[w]) = End(w)
  BY DEF Moving, End, P, O
<1>6. /\ P(w) \in Counters /\ O(w) \in Counters /\ H(w) \in Counters
      /\ End(w) \in Counters /\ End(w) <= P(w) /\ Minus(push[w], pcah[w].pop) = Ctr(End(w))
  <2>1. Moves(pcah[w].head) <= Moving(push[w], pcah[w])
    BY <1>4, <1>5 DEF H
  <2> QED  BY <1>1, <1>5, <2>1, TailIs DEF P, O, H
<1> QED  BY <1>1, <1>3, <1>4, <1>6 DEF TailOf, End

(* What the owner sees is the ring from the booked head to the tail. *)
LEMMA ContentIs ==
  ASSUME TypeOK, Ordered, NEW w \in Workers
  PROVE  Content(w) = Ring(buffer[w], H(w), End(w) - H(w))
<1>1. push[w] \in Counters /\ pcah[w] \in Words
  BY DEF TypeOK, Words
<1>2. Moves(pcah[w].head) <= Moving(push[w], pcah[w])
  BY DEF Ordered, H, End, P, O, Moving
<1>3. Content(w) = ContentOf(push[w], pcah[w], buffer[w])
  BY DEF Content, ContentOf, TailOf, ReadAt
<1> QED  BY <1>1, <1>2, <1>3, ContentOfIs DEF H, End, P, O, Moving

LEMMA ContentThen ==
  ASSUME TypeOK', Ordered', NEW w \in Workers
  PROVE  Content(w)' = Ring(buffer'[w], H(w)', End(w)' - H(w)')
<1>1. push'[w] \in Counters /\ pcah'[w] \in Words
  BY DEF TypeOK, Words
<1>2. Moves(pcah'[w].head) <= Moving(push'[w], pcah'[w])
  BY DEF Ordered, H, End, P, O, Moving
<1>3. Content(w)' = ContentOf(push'[w], pcah'[w], buffer'[w])
  BY DEF Content, ContentOf, TailOf, ReadAt
<1> QED  BY <1>1, <1>2, <1>3, ContentOfIs DEF H, End, P, O, Moving

(* The places of the items, in the terms of the ring. *)
LEMMA Places ==
  ASSUME D!IInv
  PROVE  \A w \in Workers :
           /\ Content(w) \in Seq(Items) /\ InTransit(w) \in Seq(Items) /\ held[w] \in SUBSET Items
           /\ D!NoRepeat(Content(w)) /\ D!NoRepeat(InTransit(w))
           /\ \A v \in Workers :
                /\ D!ToSet(Content(v)) \cap held[w] = {}
                /\ D!ToSet(Content(v)) \cap D!ToSet(InTransit(w)) = {}
                /\ held[v] \cap D!ToSet(InTransit(w)) = {}
                /\ v # w => D!ToSet(InTransit(v)) \cap D!ToSet(InTransit(w)) = {}
  BY DEF D!IInv, D!TypeOK, D!OnePlace, D!InDeque, D!InTransit

(* What a thief has booked is as long as it counts. *)
LEMMA TransitIs ==
  ASSUME Roomy, IInv, NEW w \in Workers, op[w].at = "copy"
  PROVE  LET v == op[w].victim IN
         /\ v \in Workers /\ op[w].count \in Nat /\ op[w].count >= 1
         /\ T(v) + op[w].count = H(v) /\ op[w].got \in Seq(Items)
         /\ Len(op[w].got) \in Nat /\ Len(op[w].got) <= op[w].count
         /\ InTransit(w) \in Seq(Items) /\ Len(InTransit(w)) = op[w].count
         /\ \A i \in 1..op[w].count : /\ Plus(op[w].old, i - 1) = Ctr(T(v) + i - 1)
                                      /\ T(v) + i - 1 \in Counters
<1> DEFINE r == op[w]  v == op[w].victim
<1>1. r \in Ops /\ OpOK(w, r) /\ Taking(r)
  BY DEF IInv, Calls, Taking
<1>2. /\ v \in Workers /\ r.count \in Nat /\ r.got \in Seq(Items) /\ Len(r.got) \in Nat
      /\ r.count >= 1 /\ r.old = head[v] /\ T(v) + r.count = H(v) /\ Len(r.got) <= r.count
  <2>1. r.count \in Nat /\ r.got \in Seq(Items)
    BY <1>1 DEF Ops
  <2>2. v \in Workers /\ r.count >= 1 /\ r.old = head[v] /\ T(v) + r.count = H(v) /\ Len(r.got) <= r.count
    BY <1>1 DEF OpOK, CallOK, TakeOK, CopyOK
  <2> QED  BY <2>1, <2>2, LenProperties
<1>3. /\ head[v] = Ctr(T(v)) /\ T(v) \in Counters /\ H(v) \in Counters
  BY <1>2, Numbers DEF IInv
<1>4. InTransit(w) \in Seq(Items)
  BY Places DEF IInv
<1>5. Len(InTransit(w)) = r.count
  <2>1. DOMAIN InTransit(w) = 1..r.count
    BY DEF InTransit
  <2>2. DOMAIN InTransit(w) = 1..Len(InTransit(w)) /\ Len(InTransit(w)) \in Nat
    BY <1>4, LenProperties
  <2> QED  BY <1>2, <2>1, <2>2
<1>6. ASSUME NEW i \in 1..r.count
      PROVE  Plus(r.old, i - 1) = Ctr(T(v) + i - 1) /\ T(v) + i - 1 \in Counters
  <2> HIDE DEF r, v
  <2>1. i - 1 \in Counters /\ T(v) + (i - 1) \in Counters /\ T(v) + (i - 1) = T(v) + i - 1
    BY <1>2, <1>3, <1>6, Sizes
  <2>2. Plus(Ctr(T(v)), i - 1) = Ctr(T(v) + (i - 1))
    BY <1>3, <2>1, CtrFacts
  <2> QED  BY <1>2, <1>3, <2>1, <2>2
<1> QED  BY <1>2, <1>4, <1>5, <1>6

(* Different items that are not in w's ring have room behind its tail, and
   behind what a thief has booked of it. *)
LEMMA RoomFor ==
  ASSUME Roomy, IInv, NEW w \in Workers, NEW s \in Seq(Items), D!NoRepeat(s),
         D!ToSet(s) \cap D!ToSet(Content(w)) = {},
         \A z \in Workers \ {w} : D!ToSet(s) \cap D!ToSet(InTransit(z)) = {}
  PROVE  /\ Len(s) \in Nat /\ End(w) - H(w) + Len(s) <= N
         /\ \A z \in Workers \ {w} :
               op[z].at = "copy" /\ op[z].victim = w => End(w) - T(w) + Len(s) <= N
<1>1. /\ Content(w) \in Seq(Items) /\ D!NoRepeat(Content(w)) /\ Len(s) \in Nat
      /\ D!ToSet(Content(w)) \cap D!ToSet(s) = {}
  BY Places, LenProperties DEF IInv
<1>2. /\ H(w) \in Counters /\ T(w) \in Counters /\ End(w) \in Counters /\ End(w) \in Nat
      /\ H(w) <= End(w) /\ T(w) <= H(w) /\ Content(w) = Ring(buffer[w], H(w), End(w) - H(w))
  BY Numbers, ContentIs, Sizes DEF IInv
<1>3. Len(Content(w)) = End(w) - H(w)
  <2>1. Len(Content(w)) \in Nat /\ DOMAIN Content(w) = 1..Len(Content(w))
    BY <1>1, LenProperties
  <2>2. DOMAIN Content(w) = 1..(End(w) - H(w))
    BY <1>2 DEF Ring
  <2> QED  BY <1>2, <2>1, <2>2, Sizes
<1>4. /\ <<>> \in Seq(Items) /\ Len(<<>>) = 0 /\ D!ToSet(<<>>) = {} /\ D!NoRepeat(<<>>)
  BY D!EmptyFacts
<1>5. Len(<<>>) + Len(Content(w)) + Len(s) <= N
  BY <1>1, <1>4, ThreeFit
<1>6. ASSUME NEW z \in Workers \ {w}, op[z].at = "copy", op[z].victim = w
      PROVE  End(w) - T(w) + Len(s) <= N
  <2>1. /\ InTransit(z) \in Seq(Items) /\ Len(InTransit(z)) = op[z].count
        /\ T(w) + op[z].count = H(w) /\ op[z].count \in Nat
    BY <1>6, TransitIs
  <2>2. /\ D!NoRepeat(InTransit(z)) /\ D!ToSet(InTransit(z)) \cap D!ToSet(Content(w)) = {}
        /\ D!ToSet(InTransit(z)) \cap D!ToSet(s) = {}
    BY <1>6, Places DEF IInv
  <2>3. Len(InTransit(z)) + Len(Content(w)) + Len(s) <= N
    BY <1>1, <2>1, <2>2, ThreeFit
  <2>4. End(w) \in Int /\ T(w) \in Int /\ H(w) \in Int /\ N \in Int
    BY <1>2, Sizes
  <2>5. op[z].count + (End(w) - H(w)) + Len(s) <= N
    BY <1>3, <2>1, <2>3
  <2>6. T(w) + op[z].count = H(w) /\ op[z].count \in Nat /\ Len(s) \in Nat
    BY <1>1, <2>1
  <2> QED  BY <2>4, <2>5, <2>6
<1> QED  BY <1>1, <1>2, <1>3, <1>4, <1>5, <1>6, Sizes

(* The write of one more item behind the tail: nothing anybody can still read is
   overwritten, neither the items of the queue nor those a thief copies. *)
LEMMA WriteBeyond ==
  ASSUME Roomy, IInv, NEW w \in Workers, NEW s \in Seq(Items), D!NoRepeat(s),
         D!ToSet(s) \cap D!ToSet(Content(w)) = {},
         \A z \in Workers \ {w} : D!ToSet(s) \cap D!ToSet(InTransit(z)) = {},
         P(w) < MaxPushes, NEW k \in Nat, k < Len(s), NEW x \in Items,
         buffer' = [buffer EXCEPT ![w] = WriteAt(@, Plus(TailOf(w), k), x)],
         UNCHANGED <<push, pcah, head, held>>,
         \A z \in Workers \ {w} : op'[z] = op[z]
  PROVE  /\ TypeOK' /\ \A z \in Workers : Content(z)' = Content(z)
         /\ \A z \in Workers \ {w} : buffer'[z] = buffer[z] /\ InTransit(z)' = InTransit(z)
         /\ \A i \in 1..k : buffer'[w][Slot(End(w) + i - 1)] = buffer[w][Slot(End(w) + i - 1)]
         /\ buffer'[w][Slot(End(w) + (k + 1) - 1)] = x
<1> DEFINE e == End(w)  c == e + k
<1>1. /\ TailOf(w) = Ctr(e) /\ e \in Counters /\ H(w) \in Counters /\ T(w) \in Counters
      /\ e <= P(w) /\ P(w) \in Counters /\ MaxPushes + N <= Wrap /\ H(w) <= e /\ T(w) <= H(w)
  BY Numbers DEF IInv
<1>2. /\ Len(s) \in Nat /\ e - H(w) + Len(s) <= N
      /\ \A z \in Workers \ {w} :
            op[z].at = "copy" /\ op[z].victim = w => e - T(w) + Len(s) <= N
  BY RoomFor
<1> HIDE DEF e
<1>3. k \in Counters /\ c \in Counters /\ c < H(w) + N /\ H(w) <= e /\ e <= c /\ Plus(Ctr(e), k) = Ctr(c)
  <2>1. k \in Counters /\ c \in Counters /\ c < H(w) + N /\ e <= c
    <3>1. /\ e \in Nat /\ H(w) \in Int /\ P(w) \in Int /\ N \in Nat /\ Wrap \in Nat
          /\ MaxPushes \in Nat
      BY <1>1, Sizes
    <3>2. c < H(w) + N /\ e <= c /\ k < N
      BY <1>1, <1>2, <3>1
    <3>3. c < Wrap /\ k < Wrap /\ c \in Nat
      BY <1>1, <3>1, <3>2
    <3> QED  BY <3>1, <3>2, <3>3 DEF Counters
  <2> QED  BY <1>1, <2>1, CtrFacts
<1>0. /\ e \in Nat /\ H(w) \in Nat /\ T(w) \in Nat /\ c \in Nat /\ c = e + k
      /\ H(w) <= e /\ T(w) <= H(w)
  BY <1>1, Sizes
<1> HIDE DEF c
<1>4. /\ buffer[w] \in [0..(N - 1) -> Items \cup {Null}] /\ Slot(c) \in 0..(N - 1)
  BY <1>3, SlotFacts DEF IInv, TypeOK
<1>5. buffer'[w] = [buffer[w] EXCEPT ![Slot(c)] = x] /\ \A z \in Workers \ {w} : buffer'[z] = buffer[z]
  BY <1>1, <1>3 DEF IInv, TypeOK, WriteAt, Slot
<1>12. buffer'[w] \in [0..(N - 1) -> Items \cup {Null}] /\ buffer'[w][Slot(c)] = x
  <2> DEFINE b == buffer[w]  S == Items \cup {Null}  I == 0..(N - 1)  j == Slot(c)
  <2>1. b \in [I -> S] /\ j \in I /\ x \in S
    BY <1>4
  <2> HIDE DEF b, S, I, j
  <2>2. [b EXCEPT ![j] = x] \in [I -> S] /\ [b EXCEPT ![j] = x][j] = x
    BY <2>1, WriteFacts
  <2> QED  BY <1>5, <2>2, Zenon DEF b, S, I, j
<1>6. TypeOK'
  <2>2. buffer' \in [Workers -> [0..(N - 1) -> Items \cup {Null}]]
    BY <1>12 DEF IInv, TypeOK
  <2> QED  BY <2>2 DEF IInv, TypeOK
<1>7. ASSUME NEW a \in Counters, c < a + N, NEW d \in Nat, a <= d, d < c
      PROVE  buffer'[w][Slot(d)] = buffer[w][Slot(d)]
  <2>1. d \in Counters /\ c < d + N
    BY <1>0, <1>3, <1>7, Sizes
  <2>2. Slot(d) # Slot(c) /\ Slot(d) \in 0..(N - 1)
    BY <1>3, <1>7, <2>1, SlotFacts
  <2>3. [buffer[w] EXCEPT ![Slot(c)] = x][Slot(d)] = buffer[w][Slot(d)]
    BY <1>4, <2>2
  <2> QED  BY <1>5, <2>3
<1>8. ASSUME NEW z \in Workers PROVE Content(z)' = Content(z)
  <2>0. pcah' = pcah /\ push' = push
    OBVIOUS
  <2>1. CASE z # w
    <3>1. buffer'[z] = buffer[z]
      BY <1>5, <2>1
    <3> QED  BY <2>0, <3>1 DEF Content, TailOf, ReadAt
  <2>2. CASE z = w
    <3>1. Ordered' /\ H(w)' = H(w) /\ End(w)' = End(w)
      BY <2>0 DEF IInv, Ordered, H, T, End, P, O
    <3>2. Content(w)' = Ring(buffer'[w], H(w), e - H(w)) /\ Content(w) = Ring(buffer[w], H(w), e - H(w))
      BY <1>6, <3>1, ContentIs, ContentThen DEF IInv, e
    <3>3. ASSUME NEW i \in 1..(e - H(w))
          PROVE  buffer'[w][Slot(H(w) + i - 1)] = buffer[w][Slot(H(w) + i - 1)]
      <4>1. H(w) + i - 1 \in Nat /\ H(w) <= H(w) + i - 1 /\ H(w) + i - 1 < c
        BY <1>0
      <4> QED  BY <1>1, <1>3, <1>7, <4>1
    <3>4. Ring(buffer'[w], H(w), e - H(w)) = Ring(buffer[w], H(w), e - H(w))
      BY <3>3 DEF Ring
    <3> QED  BY <2>2, <3>2, <3>4
  <2> QED  BY <2>1, <2>2
<1>9. ASSUME NEW z \in Workers \ {w} PROVE InTransit(z)' = InTransit(z)
  <2>0. op'[z] = op[z]
    OBVIOUS
  <2>1. CASE op[z].at # "copy"
    BY <2>0, <2>1 DEF InTransit
  <2>2. CASE op[z].at = "copy" /\ op[z].victim # w
    <3>1. op[z].victim \in Workers
      BY <2>2, TransitIs
    <3>2. buffer'[op[z].victim] = buffer[op[z].victim]
      BY <1>5, <2>2, <3>1
    <3> QED  BY <2>0, <2>2, <3>2 DEF InTransit, ReadAt
  <2>3. CASE op[z].at = "copy" /\ op[z].victim = w
    <3>1. /\ T(w) + op[z].count = H(w) /\ op[z].count \in Nat
          /\ \A i \in 1..op[z].count : Plus(op[z].old, i - 1) = Ctr(T(w) + i - 1)
      BY <2>3, TransitIs
    <3>2. c < T(w) + N
      <4>1. e - T(w) + Len(s) <= N /\ Len(s) \in Nat
        BY <1>2, <2>3
      <4> QED  BY <1>0, <4>1, Sizes
    <3>3. ASSUME NEW i \in 1..op[z].count
          PROVE  buffer'[w][Plus(op[z].old, i - 1) % N] = buffer[w][Plus(op[z].old, i - 1) % N]
      <4>1. T(w) + i - 1 \in Nat /\ T(w) <= T(w) + i - 1 /\ T(w) + i - 1 < c
        <5>1. T(w) + op[z].count <= e /\ op[z].count \in Nat
          BY <1>0, <3>1
        <5>2. T(w) \in Nat /\ e \in Nat /\ c = e + k
          BY <1>0
        <5> QED  BY <5>1, <5>2
      <4>2. buffer'[w][Slot(T(w) + i - 1)] = buffer[w][Slot(T(w) + i - 1)]
        BY <1>1, <1>7, <3>2, <4>1
      <4> QED  BY <3>1, <4>2 DEF Slot
    <3> QED  BY <2>0, <2>3, <3>3 DEF InTransit, ReadAt
  <2> QED  BY <2>1, <2>2, <2>3
<1>10. ASSUME NEW i \in 1..k
       PROVE  buffer'[w][Slot(e + i - 1)] = buffer[w][Slot(e + i - 1)]
  <2>1. e + i - 1 \in Nat /\ H(w) <= e + i - 1 /\ e + i - 1 < c
    BY <1>0
  <2> QED  BY <1>1, <1>3, <1>7, <2>1
<1>11. buffer'[w][Slot(e + (k + 1) - 1)] = x
  <2>1. e + (k + 1) - 1 = c
    BY <1>0
  <2> QED  BY <1>12, <2>1
<1> QED  BY <1>5, <1>6, <1>8, <1>9, <1>10, <1>11 DEF e

----------------------------------------------------------------------------
(* Steps of one worker, seen by the others. *)

(* The counters only ever move on. *)
Forward == \A u \in Workers : P(u) <= P(u)' /\ O(u) <= O(u)' /\ H(u) <= H(u)' /\ T(u) <= T(u)'

(* What a worker knows stays true while the others work, as long as what it has
   booked stays booked. *)
LEMMA OthersOK ==
  ASSUME Roomy, IInv, TypeOK', Forward, NEW z \in Workers, op'[z] = op[z],
         push'[z] = push[z], pcah'[z].pop = pcah[z].pop, held'[z] = held[z],
         buffer'[z] = buffer[z],
         Taking(op[z]) => /\ head'[op[z].victim] = head[op[z].victim]
                          /\ H(op[z].victim)' = H(op[z].victim)
  PROVE  OpOK(z, op[z])'
<1> DEFINE r == op[z]
<1>1. OpOK(z, r) /\ r \in Ops
  BY DEF IInv, Calls
<1>2. P(z)' = P(z) /\ End(z)' = End(z)
  BY DEF P, End, O
<1>3. PushOK(z, op[z])'
  BY <1>1, <1>2 DEF OpOK, PushOK
<1>4. CallOK(z, op[z])'
  BY <1>1, <1>2 DEF OpOK, CallOK, Stealing, Taking
<1>5. SnapOK(op[z])'
  <2>0. PICK c \in Ops : c = op[z]
    BY <1>1
  <2>1. op'[z] = c /\ c.count \in Int /\ SnapOK(c) /\ CallOK(z, c)
    BY <1>1, <2>0 DEF Ops, OpOK
  <2>2. CASE Stealing(c)
    <3>1. PICK v \in Workers : v = c.victim
      BY <2>1, <2>2 DEF CallOK
    <3>2. /\ P(v) \in Int /\ O(v) \in Int /\ H(v) \in Int /\ T(v) \in Int
          /\ Moves(c.snap.pop) \in Int /\ Moves(c.snap.head) \in Int /\ Moves(c.old) \in Int
      <4>1. c.snap.pop \in Counters /\ c.snap.head \in Counters /\ c.old \in Counters
        BY DEF Ops, Words
      <4> QED  BY <4>1, Numbers, MovesFacts, Sizes DEF IInv
    <3>3. P(v)' \in Int /\ O(v)' \in Int /\ H(v)' \in Int /\ T(v)' \in Int
      <4>1. /\ push'[v] \in Counters /\ pcah'[v].pop \in Counters /\ pcah'[v].head \in Counters
            /\ head'[v] \in Counters
        BY DEF TypeOK
      <4> QED  BY <4>1, MovesFacts, Sizes DEF P, O, H, T
    <3>4. P(v) <= P(v)' /\ O(v) <= O(v)' /\ H(v) <= H(v)' /\ T(v) <= T(v)'
      BY DEF Forward
    <3>5. SnapOK(c)'
      BY <2>1, <3>1, <3>2, <3>3, <3>4 DEF SnapOK, Stealing
    <3> QED  BY <2>1, <3>5 DEF SnapOK, Stealing
  <2>3. CASE ~Stealing(c)
    BY <2>1, <2>3 DEF SnapOK, Stealing
  <2> QED  BY <2>2, <2>3
<1>6. TakeOK(op[z])'
  BY <1>1 DEF OpOK, TakeOK, Taking, T
<1>7. CopyOK(z, op[z])'
  BY <1>1, <1>2 DEF OpOK, CopyOK, Moved
<1> QED  BY <1>3, <1>4, <1>5, <1>6, <1>7 DEF OpOK

(* The invariant after a step that the deque takes too, or does not see. *)
LEMMA Assemble ==
  ASSUME IInv, TypeOK', Ordered', op' \in [Workers -> Ops], \A z \in Workers : OpOK(z, op[z])',
         OneTaker', [D!Next]_(D!vars)
  PROVE  IInv'
<1>1. D!IInv'
  BY D!StepKeeps DEF D!Kept, IInv
<1> QED  BY <1>1 DEF IInv, Calls

(* A step that changes nothing but where its worker is in a call that has booked
   nothing. *)
LEMMA LocalStep ==
  ASSUME Roomy, IInv, NEW w \in Workers, NEW r \in Ops, op' = [op EXCEPT ![w] = r],
         UNCHANGED <<push, pcah, head, buffer, held>>,
         ~Taking(r), ~Taking(op[w]), OpOK(w, r)
  PROVE  IInv' /\ UNCHANGED D!vars
<1>1. op \in [Workers -> Ops]
  BY DEF IInv, Calls
<1>2. op'[w] = r /\ (\A z \in Workers \ {w} : op'[z] = op[z]) /\ op' \in [Workers -> Ops]
  BY <1>1
<1>3. TypeOK' /\ Ordered'
  BY DEF IInv, TypeOK, Ordered, P, O, H, T, End
<1>4. \A u \in Workers : P(u)' = P(u) /\ O(u)' = O(u) /\ H(u)' = H(u) /\ T(u)' = T(u) /\ End(u)' = End(u)
  BY DEF P, O, H, T, End
<1>5. Forward
  <2>1. \A u \in Workers : P(u) \in Int /\ O(u) \in Int /\ H(u) \in Int /\ T(u) \in Int
    BY Numbers, Sizes DEF IInv
  <2> QED  BY <1>4, <2>1 DEF Forward
<1>6. OpOK(w, op[w])'
  <2>1. OpOK(w, r)'
    BY DEF OpOK, PushOK, CallOK, SnapOK, TakeOK, CopyOK, P, O, H, T, End
  <2> QED  BY <1>2, <2>1 DEF OpOK, PushOK, CallOK, SnapOK, TakeOK, CopyOK
<1>7. ASSUME NEW z \in Workers \ {w} PROVE OpOK(z, op[z])'
  <2>1. Taking(op[z]) => op[z].victim \in Workers
    BY DEF IInv, Calls, OpOK, CallOK
  <2>2. Taking(op[z]) => H(op[z].victim)' = H(op[z].victim)
    BY <1>4, <2>1
  <2> QED  BY <1>2, <1>3, <1>5, <2>2, OthersOK
<1>8. OneTaker'
  BY <1>2 DEF IInv, OneTaker, Taking
<1>9. \A z \in Workers : Content(z)' = Content(z)
  BY DEF Content, TailOf, ReadAt
<1>10. \A z \in Workers : InTransit(z)' = InTransit(z)
  <2>1. InTransit(w)' = <<>> /\ InTransit(w) = <<>>
    BY <1>2 DEF InTransit, Taking
  <2>2. \A z \in Workers \ {w} : InTransit(z)' = InTransit(z)
    BY <1>2 DEF InTransit, ReadAt
  <2> QED  BY <2>1, <2>2
<1>11. UNCHANGED D!vars
  BY <1>9, <1>10 DEF D!vars
<1>12. IInv'
  BY <1>2, <1>3, <1>6, <1>7, <1>8, <1>11, Assemble
<1> QED  BY <1>11, <1>12

Quiet == IInv' /\ UNCHANGED D!vars

LEMMA IdleFacts ==
  /\ Idle \in Ops /\ ~Taking(Idle) /\ Idle.at = "idle" /\ Idle.count = 0 /\ Idle.got = <<>>
  /\ \A w \in Workers : OpOK(w, Idle)
<1>1. <<>> \in Seq(Items) /\ [pop |-> 0, head |-> 0] \in Words /\ 0 \in Counters
  BY EmptySeq, Sizes DEF Words
<1>2. Idle \in Ops
  BY <1>1 DEF Idle, Ops
<1>3. ~Taking(Idle) /\ ~Stealing(Idle) /\ Idle.at = "idle" /\ Idle.count = 0 /\ Idle.got = <<>>
  BY DEF Idle, Taking, Stealing
<1> QED  BY <1>2, <1>3 DEF OpOK, PushOK, CallOK, SnapOK, TakeOK, CopyOK

(* A call returns. *)
LEMMA BackToIdle ==
  ASSUME Roomy, IInv, NEW w \in Workers, ~Taking(op[w]), op' = [op EXCEPT ![w] = Idle],
         UNCHANGED <<push, pcah, head, buffer, held>>
  PROVE  Quiet
  BY IdleFacts, LocalStep DEF Quiet

(* push() and extend() have found room. *)
LEMMA StartPush ==
  ASSUME Roomy, IInv, NEW w \in Workers, op[w].at = "idle", InBounds(w), NEW s \in Seq(Items),
         D!ToSet(s) \subseteq held[w], D!NoRepeat(s), Len(s) \in 1..2,
         op' = [op EXCEPT ![w] = [Idle EXCEPT !.at = "push", !.batch = s]],
         UNCHANGED <<push, pcah, head, buffer, held>>
  PROVE  Quiet
<1> DEFINE r == [Idle EXCEPT !.at = "push", !.batch = s]
<1>1. r \in Ops /\ r.at = "push" /\ r.batch = s /\ r.count = 0
  BY IdleFacts DEF Ops
<1> HIDE DEF r
<1>2. PushOK(w, r)
  BY <1>1 DEF PushOK
<1>3. OpOK(w, r)
  BY <1>1, <1>2 DEF OpOK, CallOK, SnapOK, TakeOK, CopyOK, Stealing, Taking, InBounds, P, PMoves
<1>4. ~Taking(r) /\ ~Taking(op[w]) /\ op' = [op EXCEPT ![w] = r]
  BY <1>1 DEF Taking, r
<1> QED  BY <1>1, <1>3, <1>4, LocalStep DEF Quiet

LEMMA PushCheckQuiet == ASSUME Roomy, IInv, NEW w \in Workers, PushCheck(w) PROVE Quiet
<1>1. PICK x \in held[w] : op' = [op EXCEPT ![w] = [Idle EXCEPT !.at = "push", !.batch = <<x>>]]
  BY DEF PushCheck
<1>2. x \in Items
  BY Places DEF IInv
<1>3. <<x>> \in Seq(Items) /\ D!ToSet(<<x>>) = {x, x} /\ D!NoRepeat(<<x>>) /\ Len(<<x>>) = 1
  BY <1>2, D!PairFacts
<1> DEFINE s == <<x>>
<1>4. /\ s \in Seq(Items) /\ D!ToSet(s) \subseteq held[w] /\ D!NoRepeat(s) /\ Len(s) \in 1..2
      /\ op' = [op EXCEPT ![w] = [Idle EXCEPT !.at = "push", !.batch = s]]
  BY <1>1, <1>3
<1> HIDE DEF s
<1> QED  BY <1>4, StartPush DEF PushCheck

LEMMA ExtendCheckQuiet == ASSUME Roomy, IInv, NEW w \in Workers, ExtendCheck(w) PROVE Quiet
<1> DEFINE room == Minus(Plus(head[w], N), TailOf(w))
           iters == {<<x>> : x \in held[w]} \cup
                    {<<p[1], p[2]>> : p \in {q \in held[w] \X held[w] : q[1] # q[2]}}
<1>1. room \in Counters
  <2>1. N \in Counters /\ head[w] \in Counters /\ TailOf(w) \in Counters
    BY Sizes, Numbers, MovesFacts DEF IInv
  <2> QED  BY <2>1, WordFacts
<1>2. PICK s \in iters :
         /\ room > 0
         /\ op' = [op EXCEPT ![w] =
                     [Idle EXCEPT !.at = "push",
                                  !.batch = SubSeq(s, 1, IF room < Len(s) THEN room ELSE Len(s))]]
  BY DEF ExtendCheck
<1> HIDE DEF room
<1> DEFINE n == IF room < Len(s) THEN room ELSE Len(s)  b == SubSeq(s, 1, n)
<1>3. held[w] \in SUBSET Items
  BY Places DEF IInv
<1>4. s \in Seq(Items) /\ D!ToSet(s) \subseteq held[w] /\ D!NoRepeat(s) /\ Len(s) \in 1..2
  <2>1. CASE \E x \in held[w] : s = <<x>>
    <3>1. PICK x \in held[w] : s = <<x>>
      BY <2>1
    <3>2. <<x>> \in Seq(Items) /\ D!ToSet(<<x>>) = {x, x} /\ D!NoRepeat(<<x>>) /\ Len(<<x>>) = 1
      BY <1>3, D!PairFacts
    <3> QED  BY <3>1, <3>2
  <2>2. CASE \E x, y \in held[w] : x # y /\ s = <<x, y>>
    <3>1. PICK x \in held[w], y \in held[w] : x # y /\ s = <<x, y>>
      BY <2>2
    <3>2. <<x, y>> \in Seq(Items) /\ D!ToSet(<<x, y>>) = {x, y} /\ D!NoRepeat(<<x, y>>)
      BY <1>3, <3>1, D!PairFacts
    <3>3. Len(<<x, y>>) = 2
      OBVIOUS
    <3> QED  BY <3>1, <3>2, <3>3
  <2> QED  BY <2>1, <2>2
<1>5. n \in 0..Len(s) /\ n \in 1..2
  <2> DEFINE m == Len(s)
  <2>1. room \in Nat /\ room >= 1 /\ m \in 1..2 /\ n = IF room < m THEN room ELSE m
    BY <1>1, <1>2, <1>4, Sizes
  <2> HIDE DEF m, n, iters
  <2>2. n \in 0..m /\ n \in 1..2
    BY <2>1
  <2> QED  BY <2>2 DEF m
<1> HIDE DEF n
<1>6. b \in Seq(Items) /\ Len(b) = n /\ D!ToSet(b) \subseteq D!ToSet(s) /\ D!NoRepeat(b)
  BY <1>4, <1>5, D!SplitFacts
<1>7. op' = [op EXCEPT ![w] = [Idle EXCEPT !.at = "push", !.batch = b]]
  BY <1>2 DEF n
<1> HIDE DEF b
<1>8. D!ToSet(b) \subseteq held[w] /\ Len(b) \in 1..2
  BY <1>4, <1>5, <1>6
<1> QED  BY <1>6, <1>7, <1>8, StartPush DEF ExtendCheck

LEMMA PopLoadQuiet == ASSUME Roomy, IInv, NEW w \in Workers, PopLoad(w) PROVE Quiet
<1> DEFINE r == [Idle EXCEPT !.at = "pop", !.snap = pcah[w]]
<1>1. pcah[w] \in Words
  BY DEF IInv, TypeOK, Words
<1>2. r \in Ops /\ r.at = "pop" /\ op' = [op EXCEPT ![w] = r] /\ ~Taking(op[w])
  BY <1>1, IdleFacts DEF Ops, PopLoad, Taking
<1> HIDE DEF r
<1>3. ~Taking(r) /\ OpOK(w, r)
  BY <1>2 DEF OpOK, PushOK, CallOK, SnapOK, TakeOK, CopyOK, Stealing, Taking
<1> QED  BY <1>2, <1>3, LocalStep DEF Quiet, PopLoad

LEMMA PopEmptyQuiet == ASSUME Roomy, IInv, NEW w \in Workers, PopEmpty(w) PROVE Quiet
  BY BackToIdle DEF PopEmpty, Taking

(* pop()'s compare-exchange fails: it goes round with what it has read. *)
LEMMA PopAgainQuiet ==
  ASSUME Roomy, IInv, NEW w \in Workers, PopCas(w), pcah[w] # op[w].snap PROVE Quiet
<1> DEFINE r == [op[w] EXCEPT !.snap = pcah[w]]
<1>1. pcah[w] \in Words /\ op[w] \in Ops
  BY DEF IInv, TypeOK, Words, Calls
<1>2. r \in Ops /\ r.at = "pop" /\ op' = [op EXCEPT ![w] = r] /\ ~Taking(op[w])
  BY <1>1 DEF Ops, PopCas, Taking
<1> HIDE DEF r
<1>3. ~Taking(r) /\ OpOK(w, r)
  BY <1>2 DEF OpOK, PushOK, CallOK, SnapOK, TakeOK, CopyOK, Stealing, Taking
<1>4. UNCHANGED <<push, pcah, head, buffer, held>>
  BY DEF PopCas
<1> QED  BY <1>2, <1>3, <1>4, LocalStep DEF Quiet

(* A thief takes its first look at its victim. *)
LEMMA BookLoadQuiet ==
  ASSUME Roomy, IInv, NEW w \in Workers, NEW v \in Workers,
         NEW k \in {"steal", "steal_and_pop", "drain"}, BookLoad(w, v, k)
  PROVE  Quiet
<1> DEFINE room == Minus(N, Minus(TailOf(w), head[w]))
           max == CASE k = "steal" -> room [] k = "steal_and_pop" -> room + 1
                    [] k = "drain" -> Wrap - 1
<1>1. max \in Nat
  <2>1. room \in Counters
    <3>1. N \in Counters /\ head[w] \in Counters /\ TailOf(w) \in Counters
      <4>1. N \in Counters
        BY Sizes
      <4>2. head[w] \in Counters
        BY DEF IInv, TypeOK
      <4>3. TailOf(w) = Ctr(End(w)) /\ End(w) \in Counters
        BY Numbers DEF IInv
      <4> QED  BY <4>1, <4>2, <4>3, MovesFacts
    <3>2. Minus(TailOf(w), head[w]) \in Counters
      BY <3>1, WordFacts
    <3> QED  BY <3>1, <3>2, WordFacts
  <2> HIDE DEF room
  <2>2. room \in Nat /\ Wrap - 1 \in Nat
    BY <2>1, Sizes
  <2> QED  BY <2>2
<1>2. PICK n \in Counts :
         op' = [op EXCEPT ![w] = [Idle EXCEPT !.at = "head", !.kind = k, !.victim = v,
                                              !.snap = pcah[v], !.want = n, !.max = max]]
  BY DEF BookLoad
<1>3. n \in Nat
  BY SizeAssumption
<1> HIDE DEF max
<1> DEFINE r == [Idle EXCEPT !.at = "head", !.kind = k, !.victim = v, !.snap = pcah[v],
                             !.want = n, !.max = max]
<1>4. pcah[v] \in Words /\ pcah[v].pop \in Counters /\ pcah[v].head \in Counters
  BY DEF IInv, TypeOK, Words
<1>5. /\ r \in Ops /\ r.at = "head" /\ r.kind = k /\ r.victim = v /\ r.snap = pcah[v]
      /\ r.got = <<>>
  BY <1>1, <1>3, <1>4, IdleFacts DEF Ops
<1>6. op' = [op EXCEPT ![w] = r] /\ op[w].at = "idle"
  BY <1>2 DEF BookLoad
<1> HIDE DEF r
<1>7. CallOK(w, r)
  <2>1. (k # "drain" => P(w) < MaxPushes) /\ (k = "drain" <=> v = w)
    BY DEF BookLoad, InBounds, P, PMoves
  <2> QED  BY <1>5, <2>1 DEF CallOK, Stealing, Taking
<1>8. SnapOK(r)
  <2>1. O(v) \in Int /\ H(v) \in Int /\ O(v) <= O(v) /\ H(v) <= H(v)
    BY Numbers, Sizes DEF IInv
  <2> QED  BY <1>5, <2>1 DEF SnapOK, O, H
<1>9. OpOK(w, r) /\ ~Taking(r) /\ ~Taking(op[w])
  BY <1>5, <1>6, <1>7, <1>8 DEF OpOK, PushOK, TakeOK, CopyOK, Taking
<1> QED  BY <1>5, <1>6, <1>9, LocalStep DEF Quiet, BookLoad

(* What a thief at work knows of its victim. *)
LEMMA ThiefFacts ==
  ASSUME Roomy, IInv, NEW w \in Workers, Stealing(op[w])
  PROVE  LET r == op[w]  v == op[w].victim IN
         /\ r \in Ops /\ OpOK(w, r) /\ v \in Workers /\ r.snap \in Words /\ r.old \in Counters
         /\ Moves(r.snap.pop) \in Counters /\ Moves(r.snap.head) \in Counters
         /\ Moves(r.old) \in Counters
         /\ P(v) \in Counters /\ O(v) \in Counters /\ H(v) \in Counters /\ T(v) \in Counters
         /\ End(v) = P(v) - O(v) /\ T(v) <= H(v) /\ H(v) <= End(v)
<1> DEFINE r == op[w]  v == op[w].victim
<1>1. r \in Ops /\ OpOK(w, r)
  BY DEF IInv, Calls
<1>2. v \in Workers
  BY <1>1 DEF OpOK, CallOK
<1>3. r.snap \in Words /\ r.old \in Counters /\ r.snap.pop \in Counters /\ r.snap.head \in Counters
  BY <1>1 DEF Ops, Words
<1>4. /\ Moves(r.snap.pop) \in Counters /\ Moves(r.snap.head) \in Counters
      /\ Moves(r.old) \in Counters
  BY <1>3, MovesFacts
<1>5. /\ P(v) \in Counters /\ O(v) \in Counters /\ H(v) \in Counters /\ T(v) \in Counters
      /\ End(v) = P(v) - O(v) /\ T(v) <= H(v) /\ H(v) <= End(v)
  BY <1>2, Numbers DEF IInv
<1> QED  BY <1>1, <1>2, <1>3, <1>4, <1>5

(* The load of the thieves' head. *)
LEMMA BookHeadQuiet == ASSUME Roomy, IInv, NEW w \in Workers, BookHead(w) PROVE Quiet
<1>0. op[w].at = "head" /\ Stealing(op[w]) /\ ~Taking(op[w])
  BY DEF BookHead, Stealing, Taking
<1> DEFINE v == op[w].victim  r == [op[w] EXCEPT !.old = head[v], !.at = "count"]
<1>1. op[w] \in Ops /\ OpOK(w, op[w]) /\ v \in Workers /\ T(v) \in Counters
  BY <1>0, ThiefFacts
<1>2. head[v] \in Counters
  BY <1>1 DEF IInv, TypeOK
<1>3. /\ r \in Ops /\ r.at = "count" /\ r.kind = op[w].kind /\ r.victim = v
      /\ r.snap = op[w].snap /\ r.got = op[w].got /\ r.old = head[v]
  BY <1>1, <1>2 DEF Ops
<1>4. op' = [op EXCEPT ![w] = r]
  BY DEF BookHead, IInv, Calls
<1> HIDE DEF r
<1>5. CallOK(w, r)
  BY <1>0, <1>1, <1>3 DEF OpOK, CallOK, Stealing, Taking
<1>6. SnapOK(r)
  <2>1. T(v) <= T(v)
    BY <1>1, Sizes
  <2> QED  BY <1>0, <1>1, <1>3, <2>1 DEF OpOK, SnapOK, Stealing, T
<1>7. OpOK(w, r) /\ ~Taking(r)
  BY <1>3, <1>5, <1>6 DEF OpOK, PushOK, TakeOK, CopyOK, Taking
<1> QED  BY <1>0, <1>3, <1>4, <1>7, LocalStep DEF Quiet, BookHead

LEMMA BookFailsQuiet == ASSUME Roomy, IInv, NEW w \in Workers, BookFails(w) PROVE Quiet
  BY BackToIdle DEF BookFails, Taking

(* The load of push_count: no thief counts more than there is, however old its
   copy of the packed word. *)
LEMMA BookCountQuiet == ASSUME Roomy, IInv, NEW w \in Workers, BookCount(w) PROVE Quiet
<1>0. op[w].at = "count" /\ Stealing(op[w]) /\ ~Taking(op[w])
  BY DEF BookCount, Stealing, Taking
<1> DEFINE v == op[w].victim  c == Booked(w)
           r == [op[w] EXCEPT !.count = c, !.at = "cas"]
           sp == Moves(op[w].snap.pop)  sh == Moves(op[w].snap.head)
<1>1. /\ op[w] \in Ops /\ OpOK(w, op[w]) /\ v \in Workers /\ op[w].snap \in Words
      /\ sp \in Int /\ sh \in Int /\ P(v) \in Int /\ O(v) \in Int /\ H(v) \in Int
      /\ H(v) <= P(v) - O(v)
  BY <1>0, ThiefFacts, Sizes
<1>2. sp <= O(v) /\ sh <= H(v)
  BY <1>0, <1>1 DEF OpOK, SnapOK
<1>3. push[v] \in Counters /\ sh <= Moving(push[v], op[w].snap)
  <2>1. Moving(push[v], op[w].snap) = P(v) - sp
    BY DEF Moving, P
  <2>2. sh <= P(v) - sp
    BY <1>1, <1>2
  <2> QED  BY <1>1, <2>1, <2>2 DEF IInv, TypeOK
<1>4. SnapCount(w) = P(v) - sp - sh /\ SnapCount(w) \in Nat
  <2>1. SnapCount(w) = Moving(push[v], op[w].snap) - sh
    BY <1>1, <1>3, TailIs DEF SnapCount
  <2>2. Moving(push[v], op[w].snap) = P(v) - sp
    BY DEF Moving, P
  <2> QED  BY <1>1, <1>2, <2>1, <2>2
<1>5. c \in Nat /\ c >= 1 /\ c <= SnapCount(w)
  <2>1. op[w].want \in Nat /\ op[w].max \in Nat
    BY <1>1 DEF Ops
  <2>2. c \in Nat /\ c <= SnapCount(w)
    BY <1>4, <2>1 DEF Booked
  <2>3. c > 0
    BY DEF BookCount
  <2> HIDE DEF c
  <2> QED  BY <2>2, <2>3
<1> HIDE DEF c
<1>6. /\ r \in Ops /\ r.at = "cas" /\ r.kind = op[w].kind /\ r.victim = v /\ r.count = c
      /\ r.snap = op[w].snap /\ r.got = op[w].got /\ r.old = op[w].old
  BY <1>1, <1>5 DEF Ops
<1>7. op' = [op EXCEPT ![w] = r] /\ op[w].old = op[w].snap.head
  BY DEF BookCount, IInv, Calls, c
<1> HIDE DEF r
<1>8. CallOK(w, r)
  BY <1>0, <1>1, <1>6 DEF OpOK, CallOK, Stealing, Taking
<1>9. SnapOK(r)
  BY <1>0, <1>1, <1>4, <1>5, <1>6, <1>7 DEF OpOK, SnapOK, Stealing
<1>10. OpOK(w, r) /\ ~Taking(r)
  BY <1>6, <1>8, <1>9 DEF OpOK, PushOK, TakeOK, CopyOK, Taking
<1> QED  BY <1>0, <1>6, <1>7, <1>10, LocalStep DEF Quiet, BookCount

(* book_items()'s compare-exchange fails: it looks again. *)
LEMMA BookAgainQuiet ==
  ASSUME Roomy, IInv, NEW w \in Workers, BookCas(w), pcah[op[w].victim] # op[w].snap PROVE Quiet
<1>0. op[w].at = "cas" /\ Stealing(op[w]) /\ ~Taking(op[w])
  BY DEF BookCas, Stealing, Taking
<1> DEFINE v == op[w].victim  r == [op[w] EXCEPT !.snap = pcah[v], !.count = 0, !.at = "count"]
<1>1. op[w] \in Ops /\ OpOK(w, op[w]) /\ v \in Workers /\ O(v) \in Int /\ H(v) \in Int
  BY <1>0, ThiefFacts, Sizes
<1>2. pcah[v] \in Words
  BY <1>1 DEF IInv, TypeOK, Words
<1>3. /\ r \in Ops /\ r.at = "count" /\ r.kind = op[w].kind /\ r.victim = v
      /\ r.snap = pcah[v] /\ r.got = op[w].got /\ r.old = op[w].old
  BY <1>1, <1>2 DEF Ops
<1>4. op' = [op EXCEPT ![w] = r] /\ UNCHANGED <<push, pcah, head, buffer, held>>
  BY DEF BookCas, IInv, Calls
<1> HIDE DEF r
<1>5. CallOK(w, r)
  BY <1>0, <1>1, <1>3 DEF OpOK, CallOK, Stealing, Taking
<1>6. SnapOK(r)
  <2>1. O(v) <= O(v) /\ H(v) <= H(v)
    BY <1>1
  <2> QED  BY <1>0, <1>1, <1>3, <2>1 DEF OpOK, SnapOK, Stealing, O, H
<1>7. OpOK(w, r) /\ ~Taking(r)
  BY <1>3, <1>5, <1>6 DEF OpOK, PushOK, TakeOK, CopyOK, Taking
<1> QED  BY <1>0, <1>3, <1>4, <1>7, LocalStep DEF Quiet

----------------------------------------------------------------------------
(* Writes into the own ring. *)

LEMMA CountersStill ==
  ASSUME Roomy, IInv, UNCHANGED <<push, pcah, head>>
  PROVE  /\ Ordered' /\ Forward
         /\ \A u \in Workers : /\ P(u)' = P(u) /\ O(u)' = O(u) /\ H(u)' = H(u) /\ T(u)' = T(u)
                               /\ End(u)' = End(u)
<1>1. \A u \in Workers : P(u)' = P(u) /\ O(u)' = O(u) /\ H(u)' = H(u) /\ T(u)' = T(u) /\ End(u)' = End(u)
  BY DEF P, O, H, T, End
<1>2. \A u \in Workers : P(u) \in Int /\ O(u) \in Int /\ H(u) \in Int /\ T(u) \in Int
  BY Numbers, Sizes DEF IInv
<1>3. Forward
  BY <1>1, <1>2 DEF Forward
<1> QED  BY <1>1, <1>3 DEF IInv, Ordered

(* A step of w that changes at most its own ring and its own call, which stays in
   the same phase, and that the deque does not see. *)
LEMMA RingStep ==
  ASSUME Roomy, IInv, NEW w \in Workers, NEW r \in Ops, op' = [op EXCEPT ![w] = r],
         UNCHANGED <<push, pcah, head, held>>, TypeOK', r.at = op[w].at, r.victim = op[w].victim,
         \A z \in Workers \ {w} : buffer'[z] = buffer[z] /\ InTransit(z)' = InTransit(z),
         \A z \in Workers : Content(z)' = Content(z), InTransit(w)' = InTransit(w),
         OpOK(w, r)'
  PROVE  Quiet
<1>1. op \in [Workers -> Ops]
  BY DEF IInv, Calls
<1>2. op'[w] = r /\ (\A z \in Workers \ {w} : op'[z] = op[z]) /\ op' \in [Workers -> Ops]
  BY <1>1
<1>3. Ordered' /\ Forward /\ \A u \in Workers : H(u)' = H(u)
  BY CountersStill
<1>4. OpOK(w, op[w])'
  BY <1>2 DEF OpOK, PushOK, CallOK, SnapOK, TakeOK, CopyOK
<1>5. ASSUME NEW z \in Workers \ {w} PROVE OpOK(z, op[z])'
  <2>1. Taking(op[z]) => H(op[z].victim)' = H(op[z].victim)
    BY <1>2, <1>3 DEF IInv, Calls, OpOK, CallOK
  <2> QED  BY <1>2, <1>3, <2>1, OthersOK
<1>6. OneTaker'
  BY <1>2 DEF IInv, OneTaker, Taking
<1>7. UNCHANGED D!vars
  BY DEF D!vars
<1>8. IInv'
  BY <1>2, <1>3, <1>4, <1>5, <1>6, <1>7, Assemble
<1> QED  BY <1>7, <1>8 DEF Quiet

LEMMA PushWriteQuiet == ASSUME Roomy, IInv, NEW w \in Workers, PushWrite(w) PROVE Quiet
<1>0. PICK c \in Ops : c = op[w]
  BY DEF IInv, Calls
<1> DEFINE k == c.count  s == c.batch  x == s[k + 1]
<1>1. /\ c.at = "push" /\ op[w] = c /\ k \in Nat /\ s \in Seq(Items) /\ k < Len(s) /\ Len(s) \in Nat
      /\ D!ToSet(s) \subseteq held[w] /\ D!NoRepeat(s) /\ Len(s) \in 1..2 /\ P(w) < MaxPushes
      /\ \A i \in 1..k : buffer[w][Slot(End(w) + i - 1)] = s[i]
  <2>1. k \in Nat /\ s \in Seq(Items)
    BY DEF Ops
  <2>2. c.at = "push" /\ k < Len(s) /\ OpOK(w, c)
    BY <1>0 DEF PushWrite, IInv, Calls
  <2>3. Len(s) \in Nat
    BY <2>1, LenProperties
  <2>4. PushOK(w, c) /\ P(w) < MaxPushes
    BY <2>2 DEF OpOK, CallOK
  <2> QED  BY <1>0, <2>1, <2>2, <2>3, <2>4 DEF PushOK
<1>2. x \in Items /\ k + 1 \in 1..Len(s)
  BY <1>1, ElementOfSeq
<1>3. /\ buffer' = [buffer EXCEPT ![w] = WriteAt(@, Plus(TailOf(w), k), x)]
      /\ UNCHANGED <<push, pcah, head, held>>
  BY <1>0 DEF PushWrite
<1> DEFINE r == [c EXCEPT !.count = k + 1]
<1>4. /\ r \in Ops /\ r.at = "push" /\ r.batch = s /\ r.count = k + 1 /\ r.victim = c.victim
      /\ op' = [op EXCEPT ![w] = r] /\ \A z \in Workers \ {w} : op'[z] = op[z]
      /\ op'[w] = r
  <2>1. r \in Ops /\ r.at = "push" /\ r.batch = s /\ r.count = k + 1 /\ r.victim = c.victim
    <3>1. c.at = "push" /\ k + 1 \in Nat
      BY <1>1
    <3> HIDE DEF k
    <3> QED  BY <3>1 DEF Ops
  <2>2. op' = [op EXCEPT ![w] = r]
    BY <1>0 DEF PushWrite, IInv, Calls
  <2> HIDE DEF r
  <2> QED  BY <2>1, <2>2 DEF IInv, Calls
<1>5. /\ D!ToSet(s) \cap D!ToSet(Content(w)) = {}
      /\ \A z \in Workers \ {w} : D!ToSet(s) \cap D!ToSet(InTransit(z)) = {}
  BY <1>1, Places DEF IInv
<1> HIDE DEF k, s, x, r
<1>6. /\ TypeOK' /\ \A z \in Workers : Content(z)' = Content(z)
      /\ \A z \in Workers \ {w} : buffer'[z] = buffer[z] /\ InTransit(z)' = InTransit(z)
      /\ \A i \in 1..k : buffer'[w][Slot(End(w) + i - 1)] = buffer[w][Slot(End(w) + i - 1)]
      /\ buffer'[w][Slot(End(w) + (k + 1) - 1)] = x
  <2>1. /\ k \in Nat /\ s \in Seq(Items) /\ k < Len(s) /\ D!NoRepeat(s) /\ P(w) < MaxPushes
        /\ x \in Items /\ \A z \in Workers \ {w} : op'[z] = op[z]
    BY <1>1, <1>2, <1>4
  <2> QED  BY <1>3, <1>5, <2>1, WriteBeyond
<1>7. P(w)' = P(w) /\ End(w)' = End(w)
  BY <1>3 DEF P, End, O
<1>8. PushOK(w, r)'
  <2>1. ASSUME NEW i \in 1..(k + 1) PROVE buffer'[w][Slot(End(w) + i - 1)] = s[i]
    <3>1. CASE i \in 1..k
      BY <1>1, <1>6, <3>1
    <3>2. CASE i = k + 1
      BY <1>6, <3>2 DEF x
    <3> QED  BY <1>1, <3>1, <3>2
  <2>2. held' = held /\ k + 1 <= Len(s)
    BY <1>2, <1>3
  <2> QED  BY <1>1, <1>4, <1>7, <2>1, <2>2 DEF PushOK
<1>9. OpOK(w, r)'
  BY <1>1, <1>4, <1>7, <1>8 DEF OpOK, CallOK, SnapOK, TakeOK, CopyOK, Stealing, Taking
<1>10. InTransit(w)' = InTransit(w)
  BY <1>1, <1>4 DEF InTransit
<1> QED  BY <1>1, <1>3, <1>4, <1>6, <1>9, <1>10, RingStep

(* A thief reads one more of its booked items and, unless it keeps it in hand,
   writes it behind its own tail. *)
LEMMA CopyQuiet == ASSUME Roomy, IInv, NEW w \in Workers, Copy(w) PROVE Quiet
<1>0. PICK c \in Ops : c = op[w]
  BY DEF IInv, Calls
<1>a. OpOK(w, c) /\ c.at = "copy"
  BY <1>0 DEF IInv, Calls, Copy
<1> DEFINE v == c.victim  k == Len(c.got)  s == InTransit(w)  m == Moved(c)
<1>1. /\ v \in Workers /\ c.count \in Nat /\ c.got \in Seq(Items) /\ k \in Nat
      /\ s \in Seq(Items) /\ Len(s) = c.count /\ op[w] = c
  BY <1>0, <1>a, TransitIs
<1>2. k < c.count /\ k + 1 \in 1..c.count
  <2>1. k < c.count
    BY <1>0 DEF Copy
  <2> HIDE DEF k
  <2> QED  BY <1>1, <2>1
<1>3. s = [i \in 1..c.count |-> IF i <= k THEN c.got[i] ELSE ReadAt(v, Plus(c.old, i - 1))]
  BY <1>0, <1>a DEF InTransit
<1>4. PICK x \in Items : x = ReadAt(v, Plus(c.old, k))
  <2> DEFINE y == ReadAt(v, Plus(c.old, k))
  <2>1. ~(k + 1 <= k) /\ k + 1 - 1 = k
    BY <1>1
  <2>2. s[k + 1] = y
    <3>1. \A i \in 1..c.count : s[i] = IF i <= k THEN c.got[i] ELSE ReadAt(v, Plus(c.old, i - 1))
      BY <1>3
    <3> DEFINE j == k + 1
    <3>2. j \in 1..c.count /\ ~(j <= k) /\ j - 1 = k
      BY <1>2, <2>1
    <3> HIDE DEF j, k, s
    <3>3. s[j] = ReadAt(v, Plus(c.old, j - 1))
      BY <3>1, <3>2
    <3> QED  BY <3>2, <3>3 DEF j
  <2> HIDE DEF s, k, y
  <2>3. y \in Items
    BY <1>1, <1>2, <2>2, ElementOfSeq
  <2> QED  BY <2>3 DEF y
<1>5. m \in Int /\ (c.kind = "drain" <=> v = w) /\ (c.kind = "drain" => m = 0)
      /\ (c.kind # "drain" => P(w) < MaxPushes)
  <2>1. c.kind \in {"steal", "steal_and_pop", "drain"} /\ (c.kind = "drain" <=> v = w)
        /\ (c.kind # "drain" => P(w) < MaxPushes)
    BY <1>a DEF OpOK, CallOK, Taking, Ops
  <2> QED  BY <1>1, <2>1 DEF Moved
<1>6. /\ buffer' = IF k < m THEN [buffer EXCEPT ![w] = WriteAt(@, Plus(TailOf(w), k), x)] ELSE buffer
      /\ UNCHANGED <<push, pcah, head, held>>
  BY <1>0, <1>4 DEF Copy, Transfer, Moved
<1> DEFINE g == Append(c.got, x)  r == [c EXCEPT !.got = g]
<1>7. g \in Seq(Items) /\ Len(g) = k + 1 /\ (\A i \in 1..k : g[i] = c.got[i]) /\ g[k + 1] = x
  BY <1>1, <1>4, AppendProperties
<1>8. op' = [op EXCEPT ![w] = r]
  BY <1>0, <1>4 DEF Copy, IInv, Calls
<1> HIDE DEF k, s, m, g
<1>9. /\ r \in Ops /\ r.at = "copy" /\ r.got = g /\ r.count = c.count /\ r.victim = v
      /\ r.kind = c.kind /\ r.old = c.old /\ Moved(r) = m
  BY <1>a, <1>7 DEF Ops, Moved, m
<1> HIDE DEF r, v
<1>10. op'[w] = r /\ \A z \in Workers \ {w} : op'[z] = op[z]
  BY <1>8, <1>9 DEF IInv, Calls
<1>11. /\ P(w)' = P(w) /\ End(w)' = End(w) /\ \A u \in Workers : H(u)' = H(u) /\ T(u)' = T(u)
  BY <1>6 DEF P, End, O, H, T
<1>12. CopyOK(w, c)
  BY <1>a DEF OpOK
<1>13. /\ TypeOK' /\ \A z \in Workers : Content(z)' = Content(z)
       /\ \A z \in Workers \ {w} : buffer'[z] = buffer[z] /\ InTransit(z)' = InTransit(z)
       /\ \A i \in 1..(k + 1) : i <= m => buffer'[w][Slot(End(w) + i - 1)] = g[i]
       /\ buffer'[v] = buffer[v]
  <2>0. \A i \in 1..k : i <= m => buffer[w][Slot(End(w) + i - 1)] = g[i]
    BY <1>7, <1>12, <1>a DEF CopyOK, k, m
  <2>1. CASE k < m
    <3>1. /\ D!NoRepeat(s) /\ D!ToSet(s) \cap D!ToSet(Content(w)) = {}
          /\ \A z \in Workers \ {w} : D!ToSet(s) \cap D!ToSet(InTransit(z)) = {}
      BY Places DEF IInv, s
    <3>2. P(w) < MaxPushes /\ v # w
      BY <1>1, <1>5, <2>1
    <3>3. buffer' = [buffer EXCEPT ![w] = WriteAt(@, Plus(TailOf(w), k), x)]
      BY <1>6, <2>1
    <3>4. k \in Nat /\ k < Len(s) /\ x \in Items /\ s \in Seq(Items) /\ UNCHANGED <<push, pcah, head, held>>
      BY <1>1, <1>2, <1>4, <1>6
    <3>5. /\ TypeOK' /\ \A z \in Workers : Content(z)' = Content(z)
          /\ \A z \in Workers \ {w} : buffer'[z] = buffer[z] /\ InTransit(z)' = InTransit(z)
          /\ \A i \in 1..k : buffer'[w][Slot(End(w) + i - 1)] = buffer[w][Slot(End(w) + i - 1)]
          /\ buffer'[w][Slot(End(w) + (k + 1) - 1)] = x
      BY <1>10, <3>1, <3>2, <3>3, <3>4, WriteBeyond
    <3>6. ASSUME NEW i \in 1..(k + 1), i <= m PROVE buffer'[w][Slot(End(w) + i - 1)] = g[i]
      <4>1. CASE i \in 1..k
        BY <2>0, <3>5, <3>6, <4>1
      <4>2. CASE i = k + 1
        BY <1>7, <3>5, <4>2
      <4> QED  BY <1>1, <4>1, <4>2
    <3> QED  BY <1>1, <3>2, <3>5, <3>6
  <2>2. CASE ~(k < m)
    <3>1. UNCHANGED <<push, pcah, head, buffer, held>>
      BY <1>6, <2>2
    <3>2. TypeOK' /\ \A z \in Workers : Content(z)' = Content(z)
      BY <3>1 DEF IInv, TypeOK, Content, TailOf, ReadAt
    <3>3. \A z \in Workers \ {w} : InTransit(z)' = InTransit(z)
      BY <1>10, <3>1 DEF InTransit, ReadAt
    <3>4. \A i \in 1..(k + 1) : i <= m => i \in 1..k
      BY <1>1, <1>5, <2>2
    <3> QED  BY <2>0, <3>1, <3>2, <3>3, <3>4
  <2> QED  BY <2>1, <2>2
<1>14. InTransit(w)' = InTransit(w)
  <2>1. InTransit(w)' = [i \in 1..c.count |-> IF i <= k + 1 THEN g[i]
                                              ELSE buffer'[v][Plus(c.old, i - 1) % N]]
    BY <1>7, <1>9, <1>10 DEF InTransit, ReadAt
  <2>2. ASSUME NEW i \in 1..c.count
        PROVE  (IF i <= k + 1 THEN g[i] ELSE buffer'[v][Plus(c.old, i - 1) % N])
               = IF i <= k THEN c.got[i] ELSE ReadAt(v, Plus(c.old, i - 1))
    <3>1. CASE i <= k
      BY <1>1, <1>7, <3>1
    <3>2. CASE i = k + 1
      <4>1. ~(i <= k) /\ i <= k + 1 /\ i - 1 = k
        BY <1>1, <3>2
      <4> QED  BY <1>4, <1>7, <3>2, <4>1
    <3>3. CASE i > k + 1
      <4>1. ~(i <= k) /\ ~(i <= k + 1)
        BY <1>1, <3>3
      <4> QED  BY <1>13, <4>1 DEF ReadAt
    <3> QED  BY <1>1, <3>1, <3>2, <3>3
  <2> QED  BY <1>3, <2>1, <2>2 DEF s
<1>15. CopyOK(w, r)'
  BY <1>1, <1>2, <1>7, <1>9, <1>11, <1>13 DEF CopyOK
<1>16. TakeOK(r)'
  <2>1. head' = head /\ T(v)' = T(v) /\ H(v)' = H(v)
    BY <1>1, <1>6, <1>11
  <2>2. c.count >= 1 /\ c.old = head[v] /\ T(v) + c.count = H(v)
    BY <1>a DEF OpOK, TakeOK, Taking, v
  <2> QED  BY <1>9, <2>1, <2>2 DEF TakeOK
<1>17. CallOK(w, r)'
  BY <1>a, <1>9, <1>11 DEF OpOK, CallOK, Stealing, Taking, v
<1>18. OpOK(w, r)'
  BY <1>9, <1>15, <1>16, <1>17 DEF OpOK, PushOK, SnapOK, Stealing
<1> QED  BY <1>1, <1>6, <1>8, <1>9, <1>13, <1>14, <1>18, <1>a, RingStep DEF v

----------------------------------------------------------------------------
(* The steps that the deque takes too. *)

Step == IInv' /\ [D!Next]_(D!vars)

LEMMA IdleThen == \A w \in Workers : OpOK(w, Idle)'
<1>1. ~Taking(Idle) /\ ~Stealing(Idle) /\ Idle.at = "idle"
  BY DEF Idle, Taking, Stealing
<1> QED  BY <1>1 DEF OpOK, PushOK, CallOK, SnapOK, TakeOK, CopyOK

LEMMA SameSet == ASSUME NEW s PROVE ToSet(s) = D!ToSet(s)
  BY DEF ToSet, D!ToSet

(* One item, or two different ones. *)
LEMMA PairIs ==
  ASSUME NEW S, NEW s \in Seq(S), D!NoRepeat(s), Len(s) \in 1..2
  PROVE  \E x, y \in D!ToSet(s) : /\ s = IF x = y THEN <<x>> ELSE <<x, y>>
                                  /\ D!ToSet(s) = {x, y}
<1>1. D!ToSet(s) = {s[i] : i \in 1..Len(s)} /\ s = [i \in 1..Len(s) |-> s[i]]
  BY D!ToSetFacts, LenProperties
<1>2. CASE Len(s) = 1
  <2>1. 1..1 = {1}
    OBVIOUS
  <2>2. D!ToSet(s) = {s[1]} /\ s = <<s[1]>>
    BY <1>1, <1>2, <2>1
  <2> QED  BY <2>2
<1>3. CASE Len(s) = 2
  <2>1. 1..2 = {1, 2}
    OBVIOUS
  <2>2. D!ToSet(s) = {s[1], s[2]} /\ s = <<s[1], s[2]>>
    BY <1>1, <1>3, <2>1
  <2>3. s[1] # s[2]
    BY <1>3 DEF D!NoRepeat
  <2> QED  BY <2>2, <2>3
<1> QED  BY <1>2, <1>3

(* push_count.store(push_count + n): the n items behind the tail enter the queue. *)
LEMMA Publish ==
  ASSUME Roomy, IInv, NEW w \in Workers, NEW n \in Nat, P(w) + n < MaxPushes + N,
         push' = [push EXCEPT ![w] = Plus(@, n)], UNCHANGED <<pcah, head, buffer>>,
         held' \in [Workers -> SUBSET Items],
         NEW q \in Seq(Items), Len(q) = n,
         \A i \in 1..n : buffer[w][Slot(End(w) + i - 1)] = q[i]
  PROVE  /\ TypeOK' /\ Ordered' /\ Forward
         /\ \A u \in Workers : O(u)' = O(u) /\ H(u)' = H(u) /\ T(u)' = T(u)
         /\ \A z \in Workers \ {w} : push'[z] = push[z] /\ Content(z)' = Content(z)
         /\ Content(w)' = Content(w) \o q
<1>1. /\ push[w] = PCtr(P(w)) /\ P(w) \in Counters /\ H(w) \in Counters /\ End(w) \in Counters
      /\ T(w) \in Counters /\ O(w) \in Counters
      /\ T(w) <= H(w) /\ H(w) <= End(w) /\ MaxPushes + N <= Wrap /\ End(w) <= P(w)
      /\ End(w) = P(w) - O(w)
  BY Numbers DEF IInv
<1>2. P(w) + n \in Counters /\ n \in Counters
  BY <1>1, Sizes
<1>3. push'[w] = PCtr(P(w) + n) /\ \A z \in Workers \ {w} : push'[z] = push[z]
  <2>1. Plus(PCtr(P(w)), n) = PCtr(P(w) + n)
    BY <1>1, <1>2, CtrFacts
  <2>2. push'[w] = Plus(push[w], n) /\ \A z \in Workers \ {w} : push'[z] = push[z]
    BY DEF IInv, TypeOK
  <2> QED  BY <1>1, <2>1, <2>2
<1>4. push'[w] \in Counters /\ P(w)' = P(w) + n
  BY <1>2, <1>3, MovesFacts DEF P
<1>5. TypeOK'
  BY <1>3, <1>4 DEF IInv, TypeOK
<1>6. /\ \A u \in Workers : O(u)' = O(u) /\ H(u)' = H(u) /\ T(u)' = T(u)
      /\ \A z \in Workers \ {w} : P(z)' = P(z) /\ End(z)' = End(z)
      /\ End(w)' = End(w) + n
  <2>1. \A u \in Workers : O(u)' = O(u) /\ H(u)' = H(u) /\ T(u)' = T(u)
    BY DEF O, H, T
  <2>2. \A z \in Workers \ {w} : P(z)' = P(z) /\ End(z)' = End(z)
    BY <1>3, <2>1 DEF P, End
  <2>3. End(w)' = End(w) + n
    BY <1>1, <1>4, <2>1, Sizes DEF End
  <2> QED  BY <2>1, <2>2, <2>3
<1>7. Ordered' /\ Forward
  <2>1. T(w)' <= H(w)' /\ H(w)' <= End(w)' /\ P(w)' < MaxPushes + N /\ P(w) <= P(w)'
    BY <1>1, <1>4, <1>6, Sizes
  <2>2. \A u \in Workers : P(u) \in Int /\ O(u) \in Int /\ H(u) \in Int /\ T(u) \in Int
    BY Numbers, Sizes DEF IInv
  <2>3. Ordered'
    BY <1>6, <2>1 DEF IInv, Ordered
  <2>4. Forward
    BY <1>6, <2>1, <2>2 DEF Forward
  <2> QED  BY <2>3, <2>4
<1>8. \A z \in Workers \ {w} : Content(z)' = Content(z)
  BY <1>3 DEF Content, TailOf, ReadAt
<1>9. Content(w)' = Content(w) \o q
  <2>1. H(w) \in Nat /\ End(w) \in Nat /\ H(w) <= End(w) /\ End(w) + n <= Wrap
    <3>1. P(w) + n < Wrap /\ P(w) \in Int /\ H(w) \in Nat /\ End(w) \in Nat /\ Wrap \in Nat
      BY <1>1, <1>2, Sizes DEF Counters
    <3> QED  BY <1>1, <3>1
  <2>2. PICK b \in [0..(N - 1) -> Items \cup {Null}], h \in Nat, e \in Nat, m \in Nat :
           /\ b = buffer[w] /\ h = H(w) /\ e = End(w) /\ m = e - h /\ h + m = e
           /\ h + m + n <= Wrap /\ m + n = e + n - h
    <3>1. buffer[w] \in [0..(N - 1) -> Items \cup {Null}]
      BY DEF IInv, TypeOK
    <3>2. /\ End(w) - H(w) \in Nat /\ H(w) + (End(w) - H(w)) = End(w)
          /\ H(w) + (End(w) - H(w)) + n <= Wrap
          /\ (End(w) - H(w)) + n = End(w) + n - H(w)
      BY <2>1, Sizes
    <3> QED  BY <2>1, <3>1, <3>2
  <2>3. Content(w) = Ring(b, h, m) /\ Content(w)' = Ring(b, h, m + n)
    <3>1. Content(w) = Ring(buffer[w], H(w), End(w) - H(w))
      BY ContentIs DEF IInv
    <3>2. Content(w)' = Ring(buffer'[w], H(w)', End(w)' - H(w)')
      BY <1>5, <1>7, ContentThen
    <3>3. buffer'[w] = b /\ H(w)' = h /\ End(w)' - H(w)' = m + n
      BY <1>6, <2>2
    <3> QED  BY <2>2, <3>1, <3>2, <3>3
  <2>4. q = Ring(b, e, n)
    <3>1. q = [i \in 1..n |-> q[i]]
      BY AsFunction
    <3> QED  BY <2>2, <3>1 DEF Ring
  <2>5. Ring(b, h, m) \o Ring(b, h + m, n) = Ring(b, h, m + n)
    <3>1. h + m + n <= Wrap
      BY <2>2
    <3> QED  BY <3>1, RingJoin, ZenonT(40)
  <2> QED  BY <2>2, <2>3, <2>4, <2>5
<1> QED  BY <1>3, <1>5, <1>6, <1>7, <1>8, <1>9

(* push(), extend(): the batch is appended. *)
LEMMA PushPublishStep == ASSUME Roomy, IInv, NEW w \in Workers, PushPublish(w) PROVE Step
<1>0. PICK c \in Ops : c = op[w]
  BY DEF IInv, Calls
<1> DEFINE s == c.batch  n == c.count
<1>1. /\ c.at = "push" /\ n \in Nat /\ s \in Seq(Items) /\ n = Len(s) /\ PushOK(w, c)
      /\ P(w) < MaxPushes
  <2>1. n \in Nat /\ s \in Seq(Items)
    BY DEF Ops
  <2>2. c.at = "push" /\ n = Len(s) /\ OpOK(w, c)
    BY <1>0 DEF PushPublish, IInv, Calls
  <2> QED  BY <2>1, <2>2 DEF OpOK, CallOK
<1>2. /\ D!ToSet(s) \subseteq held[w] /\ D!NoRepeat(s) /\ Len(s) \in 1..2
      /\ \A i \in 1..n : buffer[w][Slot(End(w) + i - 1)] = s[i]
  BY <1>1 DEF PushOK
<1>3. /\ push' = [push EXCEPT ![w] = Plus(@, n)]
      /\ held' = [held EXCEPT ![w] = held[w] \ D!ToSet(s)]
      /\ op' = [op EXCEPT ![w] = Idle]
      /\ UNCHANGED <<pcah, head, buffer>>
  <2>1. ToSet(s) = D!ToSet(s)
    BY SameSet
  <2> QED  BY <1>0, <2>1 DEF PushPublish
<1> HIDE DEF s, n
<1>4. held' \in [Workers -> SUBSET Items] /\ \A z \in Workers \ {w} : held'[z] = held[z]
  BY <1>3 DEF IInv, TypeOK
<1>5. P(w) + n < MaxPushes + N
  <2>1. Len(s) <= N
    BY <1>1, <1>2, DistinctFit
  <2>2. P(w) \in Counters
    BY Numbers DEF IInv
  <2> QED  BY <1>1, <2>1, <2>2, Sizes
<1>6. /\ TypeOK' /\ Ordered' /\ Forward
      /\ \A u \in Workers : O(u)' = O(u) /\ H(u)' = H(u) /\ T(u)' = T(u)
      /\ \A z \in Workers \ {w} : push'[z] = push[z] /\ Content(z)' = Content(z)
      /\ Content(w)' = Content(w) \o s
  BY <1>1, <1>2, <1>3, <1>4, <1>5, Publish
<1>7. op'[w] = Idle /\ (\A z \in Workers \ {w} : op'[z] = op[z]) /\ op' \in [Workers -> Ops]
  BY <1>3, IdleFacts DEF IInv, Calls
<1>8. \A z \in Workers : InTransit(z)' = InTransit(z)
  <2>1. InTransit(w)' = <<>> /\ InTransit(w) = <<>>
    BY <1>0, <1>1, <1>7, IdleFacts DEF InTransit
  <2>2. \A z \in Workers \ {w} : InTransit(z)' = InTransit(z)
    BY <1>3, <1>7 DEF InTransit, ReadAt
  <2> QED  BY <2>1, <2>2
<1>9. PICK x \in D!ToSet(s), y \in D!ToSet(s) :
         s = (IF x = y THEN <<x>> ELSE <<x, y>>) /\ D!ToSet(s) = {x, y}
  BY <1>1, <1>2, PairIs
<1>10. D!Push(w)
  <2> DEFINE dq == [z \in Workers |-> Content(z)]
  <2>1. dq' = [dq EXCEPT ![w] = dq[w] \o s]
    BY <1>6
  <2>2. [z \in Workers |-> InTransit(z)]' = [z \in Workers |-> InTransit(z)]
    BY <1>8
  <2>3. x \in held[w] /\ y \in held[w] /\ held' = [held EXCEPT ![w] = held[w] \ {x, y}]
    BY <1>2, <1>3, <1>9
  <2> QED  BY <1>9, <2>1, <2>2, <2>3 DEF D!Push
<1>11. ASSUME NEW z \in Workers PROVE OpOK(z, op[z])'
  <2>1. CASE z = w
    BY <1>7, <2>1, IdleThen DEF OpOK, PushOK, CallOK, SnapOK, TakeOK, CopyOK
  <2>2. CASE z # w
    <3>1. Taking(op[z]) => H(op[z].victim)' = H(op[z].victim)
      BY <1>6, <1>7, <2>2 DEF IInv, Calls, OpOK, CallOK
    <3> QED  BY <1>3, <1>4, <1>6, <1>7, <2>2, <3>1, OthersOK
  <2> QED  BY <2>1, <2>2
<1>12. OneTaker'
  BY <1>7, IdleFacts DEF IInv, OneTaker
<1>13. [D!Next]_(D!vars)
  BY <1>10 DEF D!Next
<1> QED  BY <1>6, <1>7, <1>11, <1>12, <1>13, Assemble DEF Step

(* A step of w that the deque takes too: what the other workers need. *)
LEMMA SeenStep ==
  ASSUME Roomy, IInv, NEW w \in Workers, NEW r \in Ops, op' = [op EXCEPT ![w] = r],
         TypeOK', Ordered', Forward, OpOK(w, r)', OneTaker', [D!Next]_(D!vars),
         \A z \in Workers \ {w} : /\ push'[z] = push[z] /\ pcah'[z].pop = pcah[z].pop
                                  /\ held'[z] = held[z] /\ buffer'[z] = buffer[z],
         \A z \in Workers \ {w} :
             Taking(op[z]) => /\ head'[op[z].victim] = head[op[z].victim]
                              /\ H(op[z].victim)' = H(op[z].victim)
  PROVE  Step
<1>1. op'[w] = r /\ (\A z \in Workers \ {w} : op'[z] = op[z]) /\ op' \in [Workers -> Ops]
  BY DEF IInv, Calls
<1>2. OpOK(w, op[w])'
  BY <1>1 DEF OpOK, PushOK, CallOK, SnapOK, TakeOK, CopyOK
<1>3. \A z \in Workers \ {w} : OpOK(z, op[z])'
  BY <1>1, OthersOK
<1>4. IInv'
  BY <1>1, <1>2, <1>3, Assemble
<1> QED  BY <1>4 DEF Step

(* pop() wins the compare-exchange: the youngest item is the owner's. *)
LEMMA PopStep ==
  ASSUME Roomy, IInv, NEW w \in Workers, PopCas(w), pcah[w] = op[w].snap PROVE Step
<1>1. /\ TailOf(w) # pcah[w].head /\ pcah' = [pcah EXCEPT ![w].pop = Plus(@, 1)]
      /\ held' = [held EXCEPT ![w] = held[w] \cup {ReadAt(w, Minus(TailOf(w), 1))}]
      /\ op' = [op EXCEPT ![w] = Idle] /\ UNCHANGED <<push, head, buffer>>
      /\ ~Taking(op[w]) /\ op[w].at = "pop"
  BY DEF PopCas, Taking
<1>2. /\ TailOf(w) = Ctr(End(w)) /\ pcah[w].head = Ctr(H(w)) /\ pcah[w].pop = Ctr(O(w))
      /\ P(w) \in Counters /\ H(w) \in Counters /\ End(w) \in Counters /\ O(w) \in Counters
      /\ T(w) \in Counters /\ T(w) <= H(w) /\ H(w) <= End(w) /\ End(w) = P(w) - O(w)
      /\ P(w) < MaxPushes + N
  BY Numbers DEF IInv
<1>3. /\ P(w) \in Int /\ O(w) \in Int /\ T(w) \in Int /\ H(w) \in Nat /\ End(w) \in Nat
      /\ End(w) < Wrap /\ P(w) < Wrap /\ 0 <= O(w) /\ Wrap \in Nat
  BY <1>2, Sizes DEF Counters
<1>4. H(w) < End(w) /\ O(w) + 1 < Wrap
  <2>1. H(w) # End(w)
    BY <1>1, <1>2
  <2> QED  BY <1>2, <1>3, <2>1
<1>5. O(w) + 1 \in Counters /\ 1 \in Counters /\ 1 <= End(w)
  BY <1>3, <1>4, Sizes DEF Counters
<1>6. /\ pcah'[w].pop = Ctr(O(w) + 1) /\ pcah'[w].head = pcah[w].head /\ pcah'[w] \in Words
      /\ \A z \in Workers \ {w} : pcah'[z] = pcah[z]
  <2>1. Plus(Ctr(O(w)), 1) = Ctr(O(w) + 1) /\ Ctr(O(w) + 1) \in Counters
    BY <1>2, <1>5, CtrFacts, MovesFacts
  <2>2. pcah[w] \in Words /\ pcah \in [Workers -> Words]
    BY DEF IInv, TypeOK, Words
  <2>3. pcah'[w] = [pcah[w] EXCEPT !.pop = Ctr(O(w) + 1)] /\ \A z \in Workers \ {w} : pcah'[z] = pcah[z]
    BY <1>1, <1>2, <2>1, <2>2
  <2> QED  BY <2>1, <2>2, <2>3 DEF Words
<1>7. /\ O(w)' = O(w) + 1 /\ \A z \in Workers \ {w} : O(z)' = O(z) /\ End(z)' = End(z)
      /\ \A u \in Workers : P(u)' = P(u) /\ H(u)' = H(u) /\ T(u)' = T(u)
      /\ End(w)' = End(w) - 1
  <2>1. O(w)' = O(w) + 1
    BY <1>5, <1>6, MovesFacts DEF O
  <2>2. \A u \in Workers : P(u)' = P(u) /\ H(u)' = H(u) /\ T(u)' = T(u)
    BY <1>1, <1>6 DEF P, H, T
  <2>3. \A z \in Workers \ {w} : O(z)' = O(z) /\ End(z)' = End(z)
    BY <1>1, <1>6 DEF O, P, End
  <2>4. End(w)' = P(w)' - O(w)'
    BY DEF End
  <2>5. End(w)' = End(w) - 1
    BY <1>2, <1>3, <2>1, <2>2, <2>4
  <2> QED  BY <2>1, <2>2, <2>3, <2>5
<1>8. Ordered' /\ Forward
  <2>1. H(w)' <= End(w)' /\ O(w) <= O(w)'
    BY <1>3, <1>4, <1>7
  <2>2. \A u \in Workers : P(u) \in Int /\ O(u) \in Int /\ H(u) \in Int /\ T(u) \in Int
    BY Numbers, Sizes DEF IInv
  <2>3. Ordered'
    BY <1>7, <2>1 DEF IInv, Ordered
  <2>4. Forward
    BY <1>7, <2>1, <2>2 DEF Forward
  <2> QED  BY <2>3, <2>4
<1>9. PICK b \in [0..(N - 1) -> Items \cup {Null}], h \in Nat, m \in Nat :
         /\ b = buffer[w] /\ h = H(w) /\ m = End(w) - H(w) /\ m >= 1 /\ h + m = End(w)
         /\ h + m <= Wrap /\ m - 1 \in 0..m /\ m \in 1..m
  <2>1. buffer[w] \in [0..(N - 1) -> Items \cup {Null}]
    BY DEF IInv, TypeOK
  <2>2. PICK m \in Nat : m = End(w) - H(w) /\ m >= 1 /\ H(w) + m = End(w)
    BY <1>3, <1>4
  <2>3. H(w) \in Nat /\ H(w) + m <= Wrap
    BY <1>3, <2>2
  <2>4. m - 1 \in 0..m /\ m \in 1..m
    BY <2>2
  <2> QED  BY <2>1, <2>2, <2>3, <2>4
<1>10. PICK q \in Seq(Items) : q = Content(w) /\ q = Ring(b, h, m) /\ Len(q) = m /\ q # <<>>
  <2>1. Content(w) = Ring(b, h, m)
    BY <1>9, ContentIs DEF IInv
  <2>2. Content(w) \in Seq(Items)
    BY Places DEF IInv
  <2>3. Len(Ring(b, h, m)) = m
    <3>1. h + m <= Wrap
      BY <1>9
    <3> QED  BY <3>1, RingFacts, ZenonT(40)
  <2>4. Content(w) # <<>>
    BY <1>9, <2>1, <2>3, EmptySeq
  <2> QED  BY <2>1, <2>2, <2>3, <2>4
<1>11. ReadAt(w, Minus(TailOf(w), 1)) = D!Last(q)
  <2>1. Minus(Ctr(End(w)), 1) = Ctr(End(w) - 1)
    BY <1>2, <1>5, CtrFacts
  <2>2. ReadAt(w, Minus(TailOf(w), 1)) = b[Slot(End(w) - 1)]
    BY <1>2, <1>9, <2>1 DEF ReadAt, Slot
  <2>3. q[m] = b[Slot(h + m - 1)]
    BY <1>9, <1>10 DEF Ring
  <2>4. h + m - 1 = End(w) - 1
    BY <1>9
  <2>5. Len(q) = m
    BY <1>10
  <2>6. D!Last(q) = q[m]
    BY <2>5 DEF D!Last
  <2> QED  BY <2>2, <2>3, <2>4, <2>6
<1>12. D!Last(q) \in Items
  BY <1>10, D!LastFacts
<1>13. held' = [held EXCEPT ![w] = held[w] \cup {D!Last(q)}]
  BY <1>1, <1>11
<1>14. TypeOK'
  BY <1>1, <1>6, <1>12, <1>13 DEF IInv, TypeOK, Words
<1>15. Content(w)' = D!Front(q) /\ \A z \in Workers \ {w} : Content(z)' = Content(z)
  <2>1. SubSeq(Ring(b, h, m), 1, m - 1) = Ring(b, h, m - 1)
    BY <1>9, RingCut
  <2>2. D!Front(q) = Ring(b, h, m - 1)
    BY <1>10, <2>1 DEF D!Front
  <2>3. Content(w)' = Ring(buffer'[w], H(w)', End(w)' - H(w)')
    BY <1>8, <1>14, ContentThen
  <2>4. buffer'[w] = b /\ H(w)' = h /\ End(w)' - H(w)' = m - 1
    BY <1>1, <1>3, <1>7, <1>9
  <2>5. \A z \in Workers \ {w} : Content(z)' = Content(z)
    BY <1>1, <1>6 DEF Content, TailOf, ReadAt
  <2> QED  BY <2>2, <2>3, <2>4, <2>5
<1>16. op'[w] = Idle /\ (\A z \in Workers \ {w} : op'[z] = op[z])
  BY <1>1 DEF IInv, Calls
<1>17. \A z \in Workers : InTransit(z)' = InTransit(z)
  <2>1. InTransit(w)' = <<>> /\ InTransit(w) = <<>>
    BY <1>1, <1>16, IdleFacts DEF InTransit
  <2>2. \A z \in Workers \ {w} : InTransit(z)' = InTransit(z)
    BY <1>1, <1>16 DEF InTransit, ReadAt
  <2> QED  BY <2>1, <2>2
<1>18. D!Pop(w)
  <2> DEFINE dq == [z \in Workers |-> Content(z)]
  <2>1. dq[w] = q /\ dq' = [dq EXCEPT ![w] = D!Front(q)]
    BY <1>10, <1>15
  <2>2. [z \in Workers |-> InTransit(z)]' = [z \in Workers |-> InTransit(z)]
    BY <1>17
  <2> QED  BY <1>10, <1>13, <2>1, <2>2 DEF D!Pop
<1>19. OneTaker'
  BY <1>16, IdleFacts DEF IInv, OneTaker
<1>20. ASSUME NEW z \in Workers \ {w}
       PROVE  /\ push'[z] = push[z] /\ pcah'[z].pop = pcah[z].pop
              /\ held'[z] = held[z] /\ buffer'[z] = buffer[z]
              /\ Taking(op[z]) => /\ head'[op[z].victim] = head[op[z].victim]
                                  /\ H(op[z].victim)' = H(op[z].victim)
  BY <1>1, <1>6, <1>7, <1>13 DEF IInv, TypeOK, Calls, OpOK, CallOK
<1>21. [D!Next]_(D!vars) /\ OpOK(w, Idle)'
  BY <1>18, IdleThen DEF D!Next
<1> QED  BY <1>1, <1>8, <1>14, <1>19, <1>20, <1>21, IdleFacts, SeenStep

(* book_items() wins the compare-exchange: nobody else is taking from the queue,
   and the oldest items are the thief's. *)
LEMMA BookStep ==
  ASSUME Roomy, IInv, NEW w \in Workers, BookCas(w), pcah[op[w].victim] = op[w].snap PROVE Step
<1>0. PICK c \in Ops, v \in Workers : c = op[w] /\ v = c.victim /\ c.at = "cas" /\ OpOK(w, c)
  <2>1. op[w] \in Ops /\ op[w].at = "cas" /\ OpOK(w, op[w])
    BY DEF IInv, Calls, BookCas
  <2>2. op[w].victim \in Workers
    BY <2>1 DEF OpOK, CallOK, Stealing
  <2> QED  BY <2>1, <2>2
<1>1. PICK n \in Nat : n = c.count
  BY DEF Ops
<1>2. /\ n >= 1 /\ n <= P(v) - O(v) - H(v) /\ H(v) <= T(v) /\ c.old = pcah[v].head
      /\ pcah[v] = c.snap /\ c.got = <<>>
  <2>1. SnapOK(c) /\ pcah[v] = c.snap
    BY <1>0 DEF OpOK
  <2> QED  BY <1>0, <1>1, <2>1 DEF SnapOK, Stealing, O, H
<1>3. /\ pcah' = [pcah EXCEPT ![v].head = Plus(@, n)] /\ op' = [op EXCEPT ![w] = [c EXCEPT !.at = "copy"]]
      /\ UNCHANGED <<push, head, buffer, held>>
  <2>1. op \in [Workers -> Ops]
    BY DEF IInv, Calls
  <2> QED  BY <1>0, <1>1, <2>1 DEF BookCas
<1>4. /\ pcah[v].head = Ctr(H(v)) /\ head[v] = Ctr(T(v)) /\ P(v) \in Counters
      /\ H(v) \in Counters /\ End(v) \in Counters /\ O(v) \in Counters /\ T(v) \in Counters
      /\ T(v) <= H(v) /\ H(v) <= End(v) /\ End(v) = P(v) - O(v)
  BY Numbers DEF IInv
<1>5. /\ P(v) \in Int /\ O(v) \in Int /\ T(v) \in Int /\ H(v) \in Nat /\ End(v) \in Nat
      /\ End(v) < Wrap /\ Wrap \in Nat
  BY <1>4, Sizes DEF Counters
<1>6. T(v) = H(v) /\ H(v) + n <= End(v) /\ head[v] = c.old
  <2>1. T(v) = H(v) /\ H(v) + n <= End(v)
    BY <1>2, <1>4, <1>5
  <2> QED  BY <1>2, <1>4, <2>1
<1>7. H(v) + n \in Counters /\ n \in Counters
  BY <1>5, <1>6, Sizes DEF Counters
<1>8. /\ pcah'[v].head = Ctr(H(v) + n) /\ pcah'[v].pop = pcah[v].pop /\ pcah'[v] \in Words
      /\ \A z \in Workers \ {v} : pcah'[z] = pcah[z]
  <2>1. Plus(Ctr(H(v)), n) = Ctr(H(v) + n) /\ Ctr(H(v) + n) \in Counters
    BY <1>4, <1>7, CtrFacts, MovesFacts
  <2>2. pcah[v] \in Words /\ pcah \in [Workers -> Words]
    BY DEF IInv, TypeOK, Words
  <2>3. pcah'[v] = [pcah[v] EXCEPT !.head = Ctr(H(v) + n)] /\ \A z \in Workers \ {v} : pcah'[z] = pcah[z]
    BY <1>3, <1>4, <2>1, <2>2
  <2> QED  BY <2>1, <2>2, <2>3 DEF Words
<1>9. /\ H(v)' = H(v) + n /\ \A z \in Workers \ {v} : H(z)' = H(z)
      /\ \A u \in Workers : P(u)' = P(u) /\ O(u)' = O(u) /\ T(u)' = T(u) /\ End(u)' = End(u)
  <2>1. H(v)' = H(v) + n
    BY <1>7, <1>8, MovesFacts DEF H
  <2>2. \A u \in Workers : pcah'[u].pop = pcah[u].pop
    BY <1>8
  <2>3. \A u \in Workers : P(u)' = P(u) /\ O(u)' = O(u) /\ T(u)' = T(u) /\ End(u)' = End(u)
    BY <1>3, <2>2 DEF P, O, T, End
  <2>4. \A z \in Workers \ {v} : H(z)' = H(z)
    BY <1>8 DEF H
  <2> QED  BY <2>1, <2>3, <2>4
<1>10. Ordered' /\ Forward
  <2>1. T(v)' <= H(v)' /\ H(v)' <= End(v)' /\ H(v) <= H(v)'
    BY <1>4, <1>5, <1>6, <1>9
  <2>2. \A u \in Workers : P(u) \in Int /\ O(u) \in Int /\ H(u) \in Int /\ T(u) \in Int
    BY Numbers, Sizes DEF IInv
  <2>3. Ordered'
    BY <1>9, <2>1 DEF IInv, Ordered
  <2>4. Forward
    BY <1>9, <2>1, <2>2 DEF Forward
  <2> QED  BY <2>3, <2>4
<1>11. TypeOK'
  BY <1>3, <1>8 DEF IInv, TypeOK, Words
<1>12. PICK b \in [0..(N - 1) -> Items \cup {Null}], h \in Nat, m \in Nat :
         /\ b = buffer[v] /\ h = H(v) /\ m = End(v) - H(v) /\ h + m = End(v)
         /\ h + m <= Wrap /\ n \in 0..m /\ n \in 1..m
  <2>1. buffer[v] \in [0..(N - 1) -> Items \cup {Null}]
    BY DEF IInv, TypeOK
  <2>2. PICK m \in Nat : m = End(v) - H(v) /\ H(v) + m = End(v) /\ n <= m
    BY <1>5, <1>6
  <2>3. H(v) \in Nat /\ H(v) + m <= Wrap
    BY <1>5, <2>2
  <2>4. n >= 1 /\ n \in 0..m /\ n \in 1..m
    BY <1>2, <2>2
  <2> QED  BY <2>1, <2>2, <2>3, <2>4
<1>13. PICK q \in Seq(Items) : q = Content(v) /\ q = Ring(b, h, m) /\ Len(q) = m
  <2>1. Content(v) = Ring(b, h, m)
    BY <1>12, ContentIs DEF IInv
  <2>2. Content(v) \in Seq(Items)
    BY Places DEF IInv
  <2>3. Len(Ring(b, h, m)) = m
    <3>1. h + m <= Wrap
      BY <1>12
    <3> QED  BY <3>1, RingFacts, ZenonT(40)
  <2> QED  BY <2>1, <2>2, <2>3
<1>14. SubSeq(q, 1, n) = Ring(b, h, n) /\ SubSeq(q, n + 1, Len(q)) = Ring(b, h + n, m - n)
  <2>1. n \in 0..m /\ h + m <= Wrap
    BY <1>12
  <2>2. /\ SubSeq(Ring(b, h, m), 1, n) = Ring(b, h, n)
        /\ SubSeq(Ring(b, h, m), n + 1, m) = Ring(b, h + n, m - n)
    BY <2>1, RingCut, ZenonT(40)
  <2> QED  BY <1>13, <2>2
<1>15. /\ Content(v)' = SubSeq(q, n + 1, Len(q))
       /\ \A z \in Workers \ {v} : Content(z)' = Content(z)
  <2>1. Content(v)' = Ring(buffer'[v], H(v)', End(v)' - H(v)')
    BY <1>10, <1>11, ContentThen
  <2>2. buffer'[v] = b /\ H(v)' = h + n /\ End(v)' - H(v)' = m - n
    BY <1>3, <1>5, <1>9, <1>12
  <2>3. \A z \in Workers \ {v} : Content(z)' = Content(z)
    BY <1>3, <1>8 DEF Content, TailOf, ReadAt
  <2> QED  BY <1>14, <2>1, <2>2, <2>3
<1>16. PICK r \in Ops : /\ r.at = "copy" /\ r.kind = c.kind /\ r.victim = v /\ r.old = c.old
                        /\ r.count = n /\ r.got = <<>> /\ op' = [op EXCEPT ![w] = r]
  <2> DEFINE r == [c EXCEPT !.at = "copy"]
  <2>1. r \in Ops /\ r.at = "copy" /\ r.kind = c.kind /\ r.victim = c.victim /\ r.old = c.old
        /\ r.count = c.count /\ r.got = c.got
    BY DEF Ops
  <2>2. op' = [op EXCEPT ![w] = r]
    BY <1>3
  <2> HIDE DEF r
  <2> QED  BY <1>0, <1>1, <1>2, <2>1, <2>2
<1>17. op'[w] = r /\ (\A z \in Workers \ {w} : op'[z] = op[z])
  BY <1>16 DEF IInv, Calls
<1>18. InTransit(w)' = SubSeq(q, 1, n)
  <2>1. InTransit(w)' = [i \in 1..n |-> IF i <= Len(<<>>) THEN <<>>[i]
                                        ELSE b[Plus(c.old, i - 1) % N]]
    <3>1. /\ op'[w].at = "copy" /\ op'[w].victim = v /\ op'[w].count = n
          /\ op'[w].old = c.old /\ op'[w].got = <<>> /\ buffer'[v] = b
      BY <1>3, <1>12, <1>16, <1>17
    <3> QED  BY <3>1 DEF InTransit, ReadAt
  <2>2. ASSUME NEW i \in 1..n
        PROVE  ~(i <= Len(<<>>)) /\ Plus(c.old, i - 1) = Ctr(h + i - 1)
    <3>1. /\ i - 1 \in Counters /\ h + (i - 1) \in Counters /\ h + (i - 1) = h + i - 1
          /\ h \in Counters /\ ~(i <= 0)
      <4>1. h + n < Wrap /\ Wrap \in Nat
        BY <1>5, <1>6, <1>12
      <4> QED  BY <4>1 DEF Counters
    <3>2. Plus(Ctr(h), i - 1) = Ctr(h + (i - 1))
      BY <3>1, CtrFacts
    <3>3. Len(<<>>) = 0 /\ c.old = Ctr(h)
      BY <1>2, <1>4, <1>12, EmptySeq
    <3> QED  BY <3>1, <3>2, <3>3
  <2> QED  BY <1>14, <2>1, <2>2 DEF Ring, Slot
<1>19. \A z \in Workers \ {w} : InTransit(z)' = InTransit(z)
  BY <1>3, <1>17 DEF InTransit, ReadAt
<1>20. D!Book(w, v)
  <2> DEFINE dq == [z \in Workers |-> Content(z)]  tr == [z \in Workers |-> InTransit(z)]
  <2>1. dq[v] = q /\ dq' = [dq EXCEPT ![v] = SubSeq(q, n + 1, Len(q))]
    BY <1>13, <1>15
  <2>2. tr[w] = <<>>
    BY <1>0 DEF InTransit
  <2>3. tr' = [tr EXCEPT ![w] = SubSeq(q, 1, n)]
    BY <1>18, <1>19
  <2>4. n \in 1..Len(q) /\ held' = held
    BY <1>3, <1>12, <1>13
  <2> QED  BY <2>1, <2>2, <2>3, <2>4 DEF D!Book
<1>21. ASSUME NEW z \in Workers, Taking(op[z]) PROVE op[z].victim # v /\ op[z].victim \in Workers
  <2>1. op[z] \in Ops /\ OpOK(z, op[z])
    BY DEF IInv, Calls
  <2>2. op[z].count \in Nat /\ op[z].victim \in Workers /\ op[z].count >= 1
        /\ T(op[z].victim) + op[z].count = H(op[z].victim)
    BY <1>21, <2>1 DEF Ops, OpOK, CallOK, TakeOK
  <2> QED  BY <1>5, <1>6, <2>2
<1>22. OneTaker'
  BY <1>0, <1>16, <1>17, <1>21 DEF IInv, OneTaker, Taking
<1>23. OpOK(w, r)'
  <2>1. TakeOK(r)'
    <3>1. n >= 1 /\ c.old = head'[v] /\ T(v)' + n = H(v)'
      BY <1>2, <1>3, <1>6, <1>9
    <3> QED  BY <1>16, <3>1 DEF TakeOK
  <2>2. CallOK(w, r)'
    BY <1>0, <1>9, <1>16 DEF OpOK, CallOK, Stealing, Taking
  <2>3. CopyOK(w, r)'
    <3>1. Len(<<>>) = 0 /\ Len(<<>>) <= n
      BY EmptySeq
    <3> QED  BY <1>16, <3>1 DEF CopyOK
  <2> QED  BY <1>16, <2>1, <2>2, <2>3 DEF OpOK, PushOK, SnapOK, Stealing
<1>24. ASSUME NEW z \in Workers \ {w}
       PROVE  /\ push'[z] = push[z] /\ pcah'[z].pop = pcah[z].pop
              /\ held'[z] = held[z] /\ buffer'[z] = buffer[z]
              /\ Taking(op[z]) => /\ head'[op[z].victim] = head[op[z].victim]
                                  /\ H(op[z].victim)' = H(op[z].victim)
  BY <1>3, <1>8, <1>9, <1>21
<1>25. [D!Next]_(D!vars)
  BY <1>20 DEF D!Next
<1> QED  BY <1>10, <1>11, <1>16, <1>22, <1>23, <1>24, <1>25, SeenStep

(* The copied items enter the own queue in order; what was not transferred is
   returned. *)
LEMMA DeliverStep == ASSUME Roomy, IInv, NEW w \in Workers, Deliver(w) PROVE Step
<1>0. PICK c \in Ops, v \in Workers : c = op[w] /\ v = c.victim /\ c.at = "copy" /\ OpOK(w, c)
  <2>1. op[w] \in Ops /\ op[w].at = "copy" /\ OpOK(w, op[w])
    BY DEF IInv, Calls, Deliver
  <2>2. op[w].victim \in Workers
    BY <2>1, TransitIs
  <2> QED  BY <2>1, <2>2
<1>1. PICK n \in Nat, g \in Seq(Items) : n = c.count /\ g = c.got /\ n >= 1 /\ Len(g) = n
  <2>1. Len(c.got) = c.count
    BY <1>0 DEF Deliver
  <2> QED  BY <1>0, <2>1, TransitIs
<1>2. PICK k \in 0..n : k = Moved(c) /\ k \in {0, n - 1, n} /\ (c.kind # "drain" => P(w) < MaxPushes)
                        /\ (c.kind = "drain" => k = 0)
  <2>1. c.kind \in {"steal", "steal_and_pop", "drain"} /\ (c.kind # "drain" => P(w) < MaxPushes)
    BY <1>0 DEF OpOK, CallOK, Taking, Ops
  <2>2. Moved(c) \in {0, n - 1, n} /\ (c.kind = "drain" => Moved(c) = 0)
    BY <1>1, <2>1 DEF Moved
  <2> QED  BY <1>1, <2>1, <2>2
<1>3. PICK q \in Seq(Items), s \in Seq(Items) :
         /\ q = SubSeq(g, 1, k) /\ s = SubSeq(g, k + 1, n) /\ Len(q) = k
         /\ \A i \in 1..k : q[i] = g[i]
  <2>1. k \in 0..Len(g)
    BY <1>1
  <2>2. /\ SubSeq(g, 1, k) \in Seq(Items) /\ SubSeq(g, k + 1, Len(g)) \in Seq(Items)
        /\ Len(SubSeq(g, 1, k)) = k /\ \A i \in 1..k : SubSeq(g, 1, k)[i] = g[i]
    BY <2>1, D!SplitFacts
  <2> QED  BY <1>1, <2>2
<1>4. PICK r \in Ops : /\ r.at = "done" /\ r.kind = c.kind /\ r.victim = v /\ r.old = c.old
                       /\ r.count = n /\ op' = [op EXCEPT ![w] = r]
  <2> DEFINE r == [c EXCEPT !.at = "done", !.got = <<>>]
  <2>1. <<>> \in Seq(Items)
    BY EmptySeq
  <2>2. r \in Ops /\ r.at = "done" /\ r.kind = c.kind /\ r.victim = c.victim /\ r.old = c.old
        /\ r.count = c.count
    BY <2>1 DEF Ops
  <2>3. op' = [op EXCEPT ![w] = r]
    BY <1>0 DEF Deliver, IInv, Calls
  <2> HIDE DEF r
  <2> QED  BY <1>0, <1>1, <2>2, <2>3
<1>5. /\ push' = [push EXCEPT ![w] = Plus(@, k)]
      /\ held' = [held EXCEPT ![w] = held[w] \cup D!ToSet(s)]
      /\ UNCHANGED <<pcah, head, buffer>>
  <2>1. Transfer(w) = k
    BY <1>0, <1>2 DEF Transfer, Moved
  <2>2. ToSet(s) = D!ToSet(s)
    BY SameSet
  <2>3. SubSeq(op[w].got, Transfer(w) + 1, op[w].count) = s
    BY <1>0, <1>1, <1>3, <2>1
  <2> QED  BY <2>1, <2>2, <2>3 DEF Deliver
<1>6. held' \in [Workers -> SUBSET Items] /\ \A z \in Workers \ {w} : held'[z] = held[z]
  <2>1. D!ToSet(s) \in SUBSET Items
    BY D!ToSetFacts
  <2> QED  BY <1>5, <2>1 DEF IInv, TypeOK
<1>7. InTransit(w) = g
  <2>1. InTransit(w) = [i \in 1..n |-> IF i <= n THEN g[i] ELSE ReadAt(v, Plus(c.old, i - 1))]
    BY <1>0, <1>1 DEF InTransit
  <2>2. g = [i \in 1..n |-> g[i]]
    BY <1>1, AsFunction
  <2>3. InTransit(w) = [i \in 1..n |-> g[i]]
    BY <2>1
  <2> QED  BY <2>2, <2>3
<1>8. P(w) + k < MaxPushes + N
  <2>1. D!NoRepeat(g)
    BY <1>7, Places DEF IInv
  <2>2. n <= N
    BY <1>1, <2>1, DistinctFit
  <2>3. P(w) < MaxPushes + N /\ P(w) \in Counters
    BY Numbers DEF IInv
  <2>4. P(w) \in Int /\ N \in Int /\ MaxPushes \in Int /\ k <= n
    BY <1>1, <2>3, Sizes
  <2> QED  BY <1>1, <1>2, <2>2, <2>3, <2>4
<1>9. \A i \in 1..k : buffer[w][Slot(End(w) + i - 1)] = q[i]
  <2>1. \A i \in 1..n : i <= k => buffer[w][Slot(End(w) + i - 1)] = g[i]
    BY <1>0, <1>1, <1>2 DEF OpOK, CopyOK
  <2>2. \A i \in 1..k : i \in 1..n /\ i <= k
    BY <1>1
  <2> QED  BY <1>3, <2>1, <2>2
<1>10. /\ TypeOK' /\ Ordered' /\ Forward
       /\ \A u \in Workers : O(u)' = O(u) /\ H(u)' = H(u) /\ T(u)' = T(u)
       /\ \A z \in Workers \ {w} : push'[z] = push[z] /\ Content(z)' = Content(z)
       /\ Content(w)' = Content(w) \o q
  <2>1. k \in Nat
    BY <1>1
  <2> QED  BY <1>3, <1>5, <1>6, <1>8, <1>9, <2>1, Publish
<1>11. op'[w] = r /\ (\A z \in Workers \ {w} : op'[z] = op[z])
  BY <1>4 DEF IInv, Calls
<1>12. InTransit(w)' = <<>> /\ \A z \in Workers \ {w} : InTransit(z)' = InTransit(z)
  <2>1. InTransit(w)' = <<>>
    BY <1>4, <1>11 DEF InTransit
  <2> QED  BY <1>5, <1>11, <2>1 DEF InTransit, ReadAt
<1>13. D!Deliver(w)
  <2> DEFINE dq == [z \in Workers |-> Content(z)]  tr == [z \in Workers |-> InTransit(z)]
  <2>1. dq' = [dq EXCEPT ![w] = dq[w] \o SubSeq(g, 1, k)]
    BY <1>3, <1>10
  <2>2. tr[w] = g /\ g # <<>>
    BY <1>1, <1>7, EmptySeq
  <2>3. tr' = [tr EXCEPT ![w] = <<>>]
    BY <1>12
  <2>4. k \in {0, Len(g) - 1, Len(g)}
    BY <1>1, <1>2
  <2>5. held' = [held EXCEPT ![w] = held[w] \cup D!ToSet(SubSeq(g, k + 1, Len(g)))]
    BY <1>1, <1>3, <1>5
  <2> HIDE DEF dq, tr
  <2>6. /\ dq' = [dq EXCEPT ![w] = dq[w] \o SubSeq(tr[w], 1, k)]
        /\ k \in {0, Len(tr[w]) - 1, Len(tr[w])} /\ tr[w] # <<>>
        /\ held' = [held EXCEPT ![w] = held[w] \cup D!ToSet(SubSeq(tr[w], k + 1, Len(tr[w])))]
    BY <2>1, <2>2, <2>4, <2>5
  <2> QED  BY <2>3, <2>6 DEF D!Deliver, dq, tr
<1>14. OneTaker'
  BY <1>0, <1>4, <1>11 DEF IInv, OneTaker, Taking
<1>15. OpOK(w, r)'
  <2>1. TakeOK(r)'
    <3>1. c.old = head[v] /\ T(v) + n = H(v)
      BY <1>0, <1>1 DEF OpOK, TakeOK, Taking
    <3>2. c.old = head'[v] /\ T(v)' + n = H(v)'
      BY <1>5, <1>10, <3>1
    <3> QED  BY <1>1, <1>4, <3>2 DEF TakeOK
  <2>2. CallOK(w, r)'
    BY <1>0, <1>4 DEF OpOK, CallOK, Stealing, Taking
  <2> QED  BY <1>4, <2>1, <2>2 DEF OpOK, PushOK, SnapOK, CopyOK, Stealing
<1>16. ASSUME NEW z \in Workers \ {w}
       PROVE  /\ push'[z] = push[z] /\ pcah'[z].pop = pcah[z].pop
              /\ held'[z] = held[z] /\ buffer'[z] = buffer[z]
              /\ Taking(op[z]) => /\ head'[op[z].victim] = head[op[z].victim]
                                  /\ H(op[z].victim)' = H(op[z].victim)
  <2>1. Taking(op[z]) => op[z].victim \in Workers
    BY DEF IInv, Calls, OpOK, CallOK
  <2> QED  BY <1>5, <1>6, <1>10, <1>11, <2>1
<1>17. [D!Next]_(D!vars)
  BY <1>13 DEF D!Next
<1> QED  BY <1>4, <1>10, <1>14, <1>15, <1>16, <1>17, SeenStep

(* The thieves' head catches up: the next thief may book.  The deque does not see
   it. *)
LEMMA StoreHeadStep == ASSUME Roomy, IInv, NEW w \in Workers, StoreHead(w) PROVE Step
<1>0. PICK c \in Ops, v \in Workers : c = op[w] /\ v = c.victim /\ c.at = "done" /\ OpOK(w, c)
  <2>1. op[w] \in Ops /\ op[w].at = "done" /\ OpOK(w, op[w])
    BY DEF IInv, Calls, StoreHead
  <2>2. op[w].victim \in Workers
    BY <2>1 DEF OpOK, CallOK, Taking
  <2> QED  BY <2>1, <2>2
<1>1. PICK n \in Nat : n = c.count
  BY DEF Ops
<1>2. c.old = head[v] /\ T(v) + n = H(v)
  BY <1>0, <1>1 DEF OpOK, TakeOK, Taking
<1>3. /\ head[v] = Ctr(T(v)) /\ T(v) \in Counters /\ H(v) \in Counters
  BY Numbers DEF IInv
<1>4. T(v) \in Int /\ H(v) \in Int /\ T(v) <= H(v) /\ n \in Counters
  <2>1. /\ T(v) \in Int /\ H(v) \in Int /\ 0 <= T(v) /\ H(v) < Wrap /\ Wrap \in Nat
    BY <1>3, Sizes DEF Counters
  <2> QED  BY <1>2, <2>1 DEF Counters
<1>5. /\ head' = [head EXCEPT ![v] = Plus(c.old, n)] /\ op' = [op EXCEPT ![w] = Idle]
      /\ UNCHANGED <<push, pcah, buffer, held>>
  BY <1>0, <1>1 DEF StoreHead
<1>6. /\ head'[v] = Ctr(H(v)) /\ Ctr(H(v)) \in Counters
      /\ \A z \in Workers \ {v} : head'[z] = head[z]
  <2>1. Plus(Ctr(T(v)), n) = Ctr(T(v) + n) /\ Ctr(H(v)) \in Counters
    BY <1>2, <1>3, <1>4, CtrFacts, MovesFacts
  <2>2. head'[v] = Plus(c.old, n) /\ \A z \in Workers \ {v} : head'[z] = head[z]
    BY <1>5 DEF IInv, TypeOK
  <2> QED  BY <1>2, <1>3, <2>1, <2>2
<1>7. /\ T(v)' = H(v) /\ \A z \in Workers \ {v} : T(z)' = T(z)
      /\ \A u \in Workers : P(u)' = P(u) /\ O(u)' = O(u) /\ H(u)' = H(u) /\ End(u)' = End(u)
  <2>1. T(v)' = H(v)
    BY <1>3, <1>6, MovesFacts DEF T
  <2>2. \A z \in Workers \ {v} : T(z)' = T(z)
    BY <1>6 DEF T
  <2>3. \A u \in Workers : P(u)' = P(u) /\ O(u)' = O(u) /\ H(u)' = H(u) /\ End(u)' = End(u)
    BY <1>5 DEF P, O, H, End
  <2> QED  BY <2>1, <2>2, <2>3
<1>8. Ordered' /\ Forward
  <2>1. T(v)' <= H(v)' /\ T(v) <= T(v)'
    BY <1>4, <1>7
  <2>2. \A u \in Workers : P(u) \in Int /\ O(u) \in Int /\ H(u) \in Int /\ T(u) \in Int
    BY Numbers, Sizes DEF IInv
  <2>3. Ordered'
    BY <1>7, <2>1 DEF IInv, Ordered
  <2>4. Forward
    BY <1>7, <2>1, <2>2 DEF Forward
  <2> QED  BY <2>3, <2>4
<1>9. TypeOK'
  BY <1>5, <1>6 DEF IInv, TypeOK
<1>10. op'[w] = Idle /\ (\A z \in Workers \ {w} : op'[z] = op[z])
  BY <1>5 DEF IInv, Calls
<1>11. UNCHANGED D!vars
  <2>1. \A z \in Workers : Content(z)' = Content(z)
    BY <1>5 DEF Content, TailOf, ReadAt
  <2>2. InTransit(w)' = <<>> /\ InTransit(w) = <<>>
    BY <1>0, <1>10, IdleFacts DEF InTransit
  <2>3. \A z \in Workers \ {w} : InTransit(z)' = InTransit(z)
    BY <1>5, <1>10 DEF InTransit, ReadAt
  <2> QED  BY <1>5, <2>1, <2>2, <2>3 DEF D!vars
<1>12. OneTaker'
  BY <1>10, IdleFacts DEF IInv, OneTaker
<1>13. ASSUME NEW z \in Workers \ {w}
       PROVE  /\ push'[z] = push[z] /\ pcah'[z].pop = pcah[z].pop
              /\ held'[z] = held[z] /\ buffer'[z] = buffer[z]
              /\ Taking(op[z]) => /\ head'[op[z].victim] = head[op[z].victim]
                                  /\ H(op[z].victim)' = H(op[z].victim)
  <2>1. ASSUME Taking(op[z]) PROVE op[z].victim \in Workers \ {v}
    <3>1. Taking(op[w]) /\ op[w].victim = v
      BY <1>0 DEF Taking
    <3>2. op[z].victim \in Workers
      BY <2>1 DEF IInv, Calls, OpOK, CallOK
    <3> QED  BY <2>1, <3>1, <3>2 DEF IInv, OneTaker
  <2> QED  BY <1>5, <1>6, <1>7, <2>1
<1>14. OpOK(w, Idle)'
  BY IdleThen
<1> QED  BY <1>5, <1>8, <1>9, <1>11, <1>12, <1>13, <1>14, IdleFacts, SeenStep

----------------------------------------------------------------------------
(* The theorems. *)

LEMMA StepAll == ASSUME Roomy, IInv, Next PROVE Step
<1>1. ASSUME Quiet PROVE Step
  BY <1>1 DEF Quiet, Step
<1>2. PICK w \in Workers :
        \/ PushCheck(w) \/ ExtendCheck(w) \/ PushWrite(w) \/ PushPublish(w)
        \/ PopLoad(w) \/ PopEmpty(w) \/ PopCas(w)
        \/ \E v \in Workers, k \in {"steal", "steal_and_pop", "drain"} : BookLoad(w, v, k)
        \/ BookHead(w) \/ BookFails(w) \/ BookCount(w) \/ BookCas(w)
        \/ Copy(w) \/ Deliver(w) \/ StoreHead(w)
  BY Zenon DEF Next
<1>3. CASE PushCheck(w)
  BY <1>1, <1>3, PushCheckQuiet
<1>4. CASE ExtendCheck(w)
  BY <1>1, <1>4, ExtendCheckQuiet
<1>5. CASE PushWrite(w)
  BY <1>1, <1>5, PushWriteQuiet
<1>6. CASE PushPublish(w)
  BY <1>6, PushPublishStep
<1>7. CASE PopLoad(w)
  BY <1>1, <1>7, PopLoadQuiet
<1>8. CASE PopEmpty(w)
  BY <1>1, <1>8, PopEmptyQuiet
<1>9. CASE PopCas(w)
  BY <1>1, <1>9, PopAgainQuiet, PopStep
<1>10. CASE \E v \in Workers, k \in {"steal", "steal_and_pop", "drain"} : BookLoad(w, v, k)
  BY <1>1, <1>10, BookLoadQuiet
<1>11. CASE BookHead(w)
  BY <1>1, <1>11, BookHeadQuiet
<1>12. CASE BookFails(w)
  BY <1>1, <1>12, BookFailsQuiet
<1>13. CASE BookCount(w)
  BY <1>1, <1>13, BookCountQuiet
<1>14. CASE BookCas(w)
  BY <1>1, <1>14, BookAgainQuiet, BookStep
<1>15. CASE Copy(w)
  BY <1>1, <1>15, CopyQuiet
<1>16. CASE Deliver(w)
  BY <1>16, DeliverStep
<1>17. CASE StoreHead(w)
  BY <1>17, StoreHeadStep
<1> QED
  BY <1>2, <1>3, <1>4, <1>5, <1>6, <1>7, <1>8, <1>9, <1>10, <1>11, <1>12, <1>13, <1>14, <1>15,
     <1>16, <1>17

LEMMA StutterAll == ASSUME Roomy, IInv, UNCHANGED vars PROVE Step
<1>1. UNCHANGED <<push, pcah, head, buffer, held, op>>
  BY DEF vars
<1>2. TypeOK' /\ Ordered' /\ OneTaker' /\ op' \in [Workers -> Ops]
  BY <1>1 DEF IInv, TypeOK, Ordered, OneTaker, Calls, P, O, H, T, End
<1>3. UNCHANGED D!vars
  <2>1. \A z \in Workers : Content(z)' = Content(z) /\ InTransit(z)' = InTransit(z)
    BY <1>1 DEF Content, TailOf, ReadAt, InTransit
  <2> QED  BY <1>1, <2>1 DEF D!vars
<1>4. \A z \in Workers : OpOK(z, op[z])'
  BY <1>1 DEF IInv, Calls, OpOK, PushOK, CallOK, SnapOK, TakeOK, CopyOK, P, O, H, T, End
<1>5. IInv'
  BY <1>2, <1>3, <1>4, Assemble
<1> QED  BY <1>3, <1>5 DEF Step

(* At first every queue is empty and every item in one hand. *)
LEMMA InitAll == ASSUME Roomy, Init PROVE IInv /\ D!Init
<1>1. /\ 0 \in Counters /\ Start \in Counters /\ Plus(Start, Start) \in Counters
      /\ Moves(Start) = 0 /\ PMoves(Plus(Start, Start)) = 0
  <2>1. 0 \in Counters /\ Start \in Counters
    BY Sizes
  <2>2. Plus(Start, Start) \in Counters
    BY <2>1, WordFacts
  <2>3. Minus(Start, Start) = Start - Start
    <3>1. Start <= Start
      BY <2>1, Sizes
    <3> QED  BY <2>1, <3>1, WordFacts
  <2>4. Minus(Plus(Start, Start), Plus(Start, Start)) = Plus(Start, Start) - Plus(Start, Start)
    <3>1. Plus(Start, Start) <= Plus(Start, Start)
      BY <2>2, Sizes
    <3> QED  BY <2>2, <3>1, WordFacts
  <2>5. Start \in Int /\ Plus(Start, Start) \in Int
    BY <2>1, <2>2, Sizes
  <2> QED  BY <2>1, <2>2, <2>3, <2>4, <2>5 DEF Moves, PMoves
<1>2. TypeOK
  BY <1>1 DEF Init, TypeOK
<1>3. \A w \in Workers : P(w) = 0 /\ O(w) = 0 /\ H(w) = 0 /\ T(w) = 0 /\ End(w) = 0
  <2>1. \A w \in Workers : P(w) = 0 /\ O(w) = 0 /\ H(w) = 0 /\ T(w) = 0
    BY <1>1 DEF Init, P, O, H, T
  <2> QED  BY <2>1 DEF End
<1>4. Ordered
  BY <1>3, Sizes DEF Ordered
<1>5. Calls /\ OneTaker
  BY IdleFacts DEF Init, Calls, OneTaker
<1>6. \A w \in Workers : Content(w) = <<>> /\ InTransit(w) = <<>>
  <2> SUFFICES ASSUME NEW w \in Workers PROVE Content(w) = <<>> /\ InTransit(w) = <<>>
    OBVIOUS
  <2>1. Content(w) = Ring(buffer[w], 0, 0)
    BY <1>2, <1>3, <1>4, ContentIs
  <2>2. 1..0 = {}
    OBVIOUS
  <2>3. Ring(buffer[w], 0, 0) = <<>>
    BY <2>2 DEF Ring
  <2>4. op[w].at = "idle"
    BY IdleFacts DEF Init
  <2> QED  BY <2>1, <2>3, <2>4 DEF InTransit
<1>7. \A v, w \in Workers : v # w => held[v] \cap held[w] = {}
  <2> SUFFICES ASSUME NEW v \in Workers, NEW w \in Workers, v # w,
                      NEW x \in Items, x \in held[v], x \in held[w]
               PROVE  FALSE
    BY DEF Init
  <2> DEFINE S == {u \in Workers : x \in held[u]}
  <2>1. Cardinality(S) = 1
    BY DEF Init
  <2>2. IsFiniteSet(S)
    <3>1. S \subseteq Workers
      OBVIOUS
    <3> HIDE DEF S
    <3> QED  BY <3>1, SizeAssumption, FS_Subset
  <2>3. v \in S /\ w \in S
    OBVIOUS
  <2> HIDE DEF S
  <2>4. \E y : S = {y}
    BY <2>1, <2>2, FS_Singleton
  <2> QED  BY <2>3, <2>4
<1>8. D!Init
  BY <1>6, <1>7 DEF D!Init, Init
<1>9. D!IInv
  BY <1>8, D!InitOnePlace
<1> QED  BY <1>2, <1>4, <1>5, <1>8, <1>9 DEF IInv

LEMMA Invariant == ASSUME Roomy PROVE Spec => []IInv
<1>1. Init => IInv
  BY InitAll
<1>2. IInv /\ [Next]_vars => IInv'
  BY StepAll, StutterAll DEF Step
<1> QED  BY <1>1, <1>2, PTL DEF Spec

(* The counters stay words, no slot is ever read that holds no item, and a worker
   only ever gets items: pop() and the thieves never return an empty slot. *)
THEOREM TypeCorrect == ASSUME Roomy PROVE Spec => []TypeOK
<1>1. IInv => TypeOK
  BY DEF IInv
<1> QED  BY <1>1, Invariant, PTL

(* book_items(): at most one thief takes from a queue at a time, and what it has
   booked lies between the two heads until it lets go. *)
THEOREM OneThiefAtATime == ASSUME Roomy PROVE Spec => []OneThief
<1>1. ASSUME IInv PROVE OneThief
  <2> SUFFICES ASSUME NEW w \in Workers, op[w].at \in {"copy", "done"}
               PROVE  LET v == op[w].victim IN
                      /\ head[v] = op[w].old
                      /\ Plus(head[v], op[w].count) = pcah[v].head
                      /\ \A z \in Workers \ {w} :
                            op[z].at \in {"copy", "done"} => op[z].victim # v
    BY DEF OneThief
  <2>1. PICK c \in Ops, v \in Workers : c = op[w] /\ v = c.victim /\ OpOK(w, c) /\ Taking(c)
    <3>1. op[w] \in Ops /\ OpOK(w, op[w]) /\ Taking(op[w])
      BY <1>1 DEF IInv, Calls, Taking
    <3>2. op[w].victim \in Workers
      BY <3>1 DEF OpOK, CallOK
    <3> QED  BY <3>1, <3>2
  <2>2. PICK n \in Nat : n = c.count
    BY DEF Ops
  <2>3. c.old = head[v] /\ T(v) + n = H(v)
    BY <2>1, <2>2 DEF OpOK, TakeOK
  <2>4. head[v] = Ctr(T(v)) /\ pcah[v].head = Ctr(H(v)) /\ T(v) \in Counters /\ H(v) \in Counters
    BY <1>1, Numbers DEF IInv
  <2>5. n \in Counters
    <3>1. T(v) \in Int /\ 0 <= T(v) /\ H(v) < Wrap /\ Wrap \in Nat
      BY <2>4, Sizes DEF Counters
    <3> QED  BY <2>3, <3>1 DEF Counters
  <2>6. Plus(head[v], n) = pcah[v].head
    <3>1. Plus(Ctr(T(v)), n) = Ctr(T(v) + n)
      BY <2>3, <2>4, <2>5, CtrFacts
    <3> QED  BY <2>3, <2>4, <3>1
  <2>7. \A z \in Workers \ {w} : op[z].at \in {"copy", "done"} => op[z].victim # v
    BY <1>1, <2>1 DEF IInv, OneTaker, Taking
  <2> QED  BY <2>1, <2>2, <2>3, <2>6, <2>7
<1> QED  BY <1>1, Invariant, PTL

(* The ring with its counters implements the work-stealing deque: push() and
   extend() append, pop() takes the youngest item, thieves take the oldest ones in
   order, and every other step leaves the deque alone. *)
THEOREM Refinement == ASSUME Roomy PROVE Spec => ImplementsDeque
<1>1. Init => Deque!Init
  <2>1. D!Init <=> Deque!Init
    BY DEF D!Init, Deque!Init
  <2> QED  BY <2>1, InitAll
<1>2. IInv /\ [Next]_vars => [Deque!Next]_(Deque!vars)
  <2>1. D!vars = Deque!vars
    BY DEF D!vars, Deque!vars
  <2>2. D!Next <=> Deque!Next
    BY DEF D!Next, Deque!Next, D!Push, Deque!Push, D!Pop, Deque!Pop, D!Book, Deque!Book,
           D!Deliver, Deque!Deliver, ToSet, Deque!ToSet, D!ToSet, D!Last, Deque!Last,
           D!Front, Deque!Front
  <2>3. D!vars' = Deque!vars'
    BY DEF D!vars, Deque!vars
  <2>4. IInv /\ [Next]_vars => [D!Next]_(D!vars)
    BY StepAll, StutterAll DEF Step
  <2> QED  BY <2>1, <2>2, <2>3, <2>4
<1> QED  BY <1>1, <1>2, Invariant, PTL DEF Spec, ImplementsDeque, Deque!Spec

(* No interleaving of the owner and the thieves loses an item or makes a second
   copy: each is in one hand, in one queue or with one thief, and only once. *)
THEOREM NoItemTwice == ASSUME Roomy PROVE Spec => [](D!OnePlace)
<1>1. IInv => D!OnePlace
  BY DEF IInv, D!IInv
<1> QED  BY <1>1, Invariant, PTL

(* ... and none is lost; those that extend() has no room for were never in. *)
THEOREM NoItemLost == ASSUME Roomy PROVE Spec => [][D!Everything' = D!Everything]_vars
<1>1. IInv /\ [Next]_vars => D!Everything' = D!Everything
  <2>1. ASSUME IInv, [D!Next]_(D!vars) PROVE D!Everything' = D!Everything
    BY <2>1, D!StepKeeps DEF D!Kept, IInv
  <2> QED  BY <2>1, StepAll, StutterAll DEF Step
<1> QED  BY <1>1, Invariant, PTL DEF Spec
=============================================================================
