----------------------- MODULE DynamicExecutor_proofs -----------------------
(***************************************************************************)
(* No task of the dynamic executor is lost or owned twice, a cancelled one *)
(* is polled at most once more, and the registry stays bounded, for any    *)
(* number of cores, stealers and tasks and any queue capacity.             *)
(***************************************************************************)
EXTENDS DynamicExecutor, SequenceTheorems, FiniteSetTheorems, WellFoundedInduction, TLAPS

----------------------------------------------------------------------------
(* Queues of boxes. *)

Items(q) == {q[k] : k \in 1..Len(q)}
NoRepeat(q) == \A j, k \in 1..Len(q) : q[j] = q[k] => j = k

(* Worker::push adds the box and nothing else. *)
LEMMA PushFacts ==
  ASSUME NEW S, NEW q \in Seq(S), NEW v \in S
  PROVE  /\ Append(q, v) \in Seq(S) /\ Len(Append(q, v)) = Len(q) + 1
         /\ Items(Append(q, v)) = Items(q) \cup {v}
         /\ NoRepeat(q) /\ v \notin Items(q) => NoRepeat(Append(q, v))
<1> DEFINE a == Append(q, v)  n == Len(q)
<1>1. /\ n \in Nat /\ a \in Seq(S) /\ Len(a) = n + 1
      /\ \A i \in 1..n : a[i] = q[i]
      /\ a[n + 1] = v
  BY AppendProperties, LenProperties
<1> HIDE DEF a
<1>2. Items(a) = Items(q) \cup {v}
  BY <1>1 DEF Items
<1>3. ASSUME NoRepeat(q), v \notin Items(q), NEW j \in 1..(n + 1), NEW k \in 1..(n + 1), a[j] = a[k]
      PROVE  j = k
  <2>1. CASE j = n + 1 /\ k = n + 1
    BY <2>1
  <2>2. CASE j = n + 1 /\ k \in 1..n
    BY <1>1, <1>3, <2>2 DEF Items
  <2>3. CASE j \in 1..n /\ k = n + 1
    BY <1>1, <1>3, <2>3 DEF Items
  <2>4. CASE j \in 1..n /\ k \in 1..n
    BY <1>1, <1>3, <2>4 DEF NoRepeat
  <2> QED  BY <1>1, <2>1, <2>2, <2>3, <2>4
<1>4. NoRepeat(q) /\ v \notin Items(q) => NoRepeat(a)
  BY <1>1, <1>3 DEF NoRepeat
<1> QED  BY <1>1, <1>2, <1>4 DEF a

(* Worker::pop takes the last box out of the queue. *)
LEMMA PopFacts ==
  ASSUME NEW S, NEW q \in Seq(S), q # <<>>
  PROVE  LET r == SubSeq(q, 1, Len(q) - 1)  v == q[Len(q)] IN
         /\ r \in Seq(S) /\ Len(q) \in Nat /\ Len(r) = Len(q) - 1 /\ v \in Items(q)
         /\ NoRepeat(q) => NoRepeat(r) /\ Items(r) = Items(q) \ {v}
<1> DEFINE n == Len(q)  m == n - 1  r == SubSeq(q, 1, m)  v == q[n]
<1>1. n \in Nat /\ n >= 1 /\ m \in Int /\ 1 \in Int /\ \A i \in 1..n : q[i] \in S
  BY EmptySeq, ElementOfSeq, LenProperties
<1>2. \A i \in 1..m : q[i] \in S
  BY <1>1
<1> HIDE DEF m
<1>3. /\ r \in Seq(S) /\ Len(r) = IF 1 <= m THEN m - 1 + 1 ELSE 0
      /\ \A i \in 1..(m - 1 + 1) : r[i] = q[1 + i - 1]
  BY <1>1, <1>2, SubSeqProperties
<1> HIDE DEF r
<1>4. Len(r) = m /\ \A i \in 1..m : r[i] = q[i]
  <2>1. m >= 0 /\ m - 1 + 1 = m /\ \A i \in 1..m : 1 + i - 1 = i
    BY <1>1 DEF m
  <2> QED  BY <1>1, <1>3, <2>1
<1>5. v \in Items(q)
  BY <1>1 DEF Items
<1>6. ASSUME NoRepeat(q) PROVE NoRepeat(r) /\ Items(r) = Items(q) \ {v}
  <2>1. NoRepeat(r)
    BY <1>1, <1>4, <1>6 DEF NoRepeat, m
  <2>2. \A i \in 1..m : q[i] # v
    BY <1>1, <1>6 DEF NoRepeat, m
  <2>3. \A i \in 1..n : i = n \/ i \in 1..m
    BY <1>1 DEF m
  <2>4. \A i \in 1..m : i \in 1..n
    BY <1>1 DEF m
  <2>5. Items(r) = {q[i] : i \in 1..m}
    BY <1>4 DEF Items
  <2> QED  BY <2>1, <2>2, <2>3, <2>4, <2>5 DEF Items
<1> QED  BY <1>1, <1>3, <1>4, <1>5, <1>6 DEF r, m

(* Two queues joined end to end. *)
LEMMA JoinFacts ==
  ASSUME NEW S, NEW q \in Seq(S), NEW r \in Seq(S)
  PROVE  /\ q \o r \in Seq(S) /\ Len(q \o r) = Len(q) + Len(r)
         /\ Len(q) \in Nat /\ Len(r) \in Nat
         /\ Items(q \o r) = Items(q) \cup Items(r)
         /\ NoRepeat(q \o r) <=>
               NoRepeat(q) /\ NoRepeat(r) /\ Items(q) \cap Items(r) = {}
<1> DEFINE a == q \o r  m == Len(q)  n == Len(r)
<1>1. /\ m \in Nat /\ n \in Nat /\ a \in Seq(S) /\ Len(a) = m + n
      /\ \A i \in 1..(m + n) : a[i] = IF i <= m THEN q[i] ELSE r[i - m]
  BY LenProperties, ConcatProperties
<1> HIDE DEF a, m, n
<1>2. /\ \A i \in 1..m : i \in 1..(m + n) /\ a[i] = q[i]
      /\ \A i \in 1..n : m + i \in 1..(m + n) /\ a[m + i] = r[i]
  BY <1>1
<1>3. ASSUME NEW i \in 1..(m + n)
      PROVE  \/ i \in 1..m /\ a[i] = q[i]
             \/ \E k \in 1..n : i = m + k /\ a[i] = r[k]
  <2>1. CASE i <= m  BY <1>1, <2>1
  <2>2. CASE i > m
    <3>1. i - m \in 1..n /\ i = m + (i - m) /\ a[i] = r[i - m]
      BY <1>1, <2>2
    <3> QED  BY <3>1
  <2> QED  BY <1>1, <2>1, <2>2
<1>4. Items(a) = Items(q) \cup Items(r)
  <2>1. \A i \in 1..(m + n) : a[i] \in Items(q) \cup Items(r)
    BY <1>3 DEF Items, m, n
  <2>2. \A i \in 1..m : q[i] \in Items(a)
    BY <1>1, <1>2 DEF Items
  <2>3. \A i \in 1..n : r[i] \in Items(a)
    BY <1>1, <1>2 DEF Items
  <2> QED  BY <1>1, <2>1, <2>2, <2>3 DEF Items, m, n
<1>5. ASSUME NoRepeat(a) PROVE NoRepeat(q) /\ NoRepeat(r) /\ Items(q) \cap Items(r) = {}
  <2>0. \A j, k \in 1..(m + n) : a[j] = a[k] => j = k
    BY <1>1, <1>5 DEF NoRepeat
  <2>1. \A j, k \in 1..m : q[j] = q[k] => j = k
    BY <1>2, <2>0
  <2>2. ASSUME NEW j \in 1..n, NEW k \in 1..n, r[j] = r[k] PROVE j = k
    <3>1. m + j = m + k  BY <1>2, <2>0, <2>2
    <3> QED  BY <1>1, <3>1
  <2>3. ASSUME NEW j \in 1..m, NEW k \in 1..n, q[j] = r[k] PROVE FALSE
    <3>1. j = m + k  BY <1>2, <2>0, <2>3
    <3> QED  BY <1>1, <3>1
  <2> QED  BY <2>1, <2>2, <2>3 DEF NoRepeat, Items, m, n
<1>6. ASSUME NoRepeat(q), NoRepeat(r), Items(q) \cap Items(r) = {},
             NEW i \in 1..(m + n), NEW j \in 1..(m + n), a[i] = a[j]
      PROVE  i = j
  <2>0. \A x \in 1..m, y \in 1..n : q[x] # r[y]
    BY <1>6 DEF Items, m, n
  <2>1. CASE i \in 1..m /\ a[i] = q[i] /\ j \in 1..m /\ a[j] = q[j]
    BY <1>6, <2>1 DEF NoRepeat, m
  <2>2. CASE (\E k \in 1..n : i = m + k /\ a[i] = r[k]) /\ (\E k \in 1..n : j = m + k /\ a[j] = r[k])
    BY <1>6, <2>2 DEF NoRepeat, n
  <2>3. CASE i \in 1..m /\ a[i] = q[i] /\ (\E k \in 1..n : j = m + k /\ a[j] = r[k])
    BY <1>6, <2>0, <2>3
  <2>4. CASE (\E k \in 1..n : i = m + k /\ a[i] = r[k]) /\ j \in 1..m /\ a[j] = q[j]
    BY <1>6, <2>0, <2>4
  <2> QED  BY <1>3, <2>1, <2>2, <2>3, <2>4
<1>7. NoRepeat(q) /\ NoRepeat(r) /\ Items(q) \cap Items(r) = {} => NoRepeat(a)
  BY <1>1, <1>6 DEF NoRepeat
<1> QED  BY <1>1, <1>4, <1>5, <1>7 DEF a, m, n

(* A queue is what a thief takes followed by what it leaves. *)
LEMMA SplitFacts ==
  ASSUME NEW S, NEW q \in Seq(S), NEW n \in 0..Len(q)
  PROVE  /\ SubSeq(q, 1, n) \in Seq(S) /\ SubSeq(q, n + 1, Len(q)) \in Seq(S)
         /\ Len(SubSeq(q, 1, n)) = n /\ Len(SubSeq(q, n + 1, Len(q))) = Len(q) - n
         /\ q = SubSeq(q, 1, n) \o SubSeq(q, n + 1, Len(q))
<1> DEFINE m == Len(q)  a == n + 1
<1>1. m \in Nat /\ n \in Nat /\ n <= m /\ \A i \in 1..m : q[i] \in S
  BY LenProperties, ElementOfSeq
<1>2. n \in Int /\ m \in Int /\ a \in Int /\ 1 \in Int
  BY <1>1
<1>3. (\A i \in 1..n : q[i] \in S) /\ (\A i \in a..m : q[i] \in S)
  BY <1>1
<1>4. SubSeq(q, 1, n) \in Seq(S) /\ Len(SubSeq(q, 1, n)) = IF 1 <= n THEN n - 1 + 1 ELSE 0
  BY <1>2, <1>3, SubSeqProperties
<1> HIDE DEF a, m
<1>5. SubSeq(q, a, m) \in Seq(S) /\ Len(SubSeq(q, a, m)) = IF a <= m THEN m - a + 1 ELSE 0
  BY <1>2, <1>3, SubSeqProperties
<1>6. Len(SubSeq(q, 1, n)) = n /\ Len(SubSeq(q, a, m)) = m - n
  BY <1>1, <1>2, <1>4, <1>5 DEF a
<1>7. SubSeq(q, 1, n) \o SubSeq(q, n + 1, m) = SubSeq(q, 1, m)
  <2>1. 1 \in 1..(Len(q) + 1) /\ n \in (1 - 1)..Len(q) /\ m \in n..Len(q)
    BY <1>1 DEF m
  <2> QED  BY <2>1, ConcatAdjacentSubSeq
<1>8. SubSeq(q, 1, m) = q
  BY SubSeqFull DEF m
<1> QED  BY <1>4, <1>5, <1>6, <1>7, <1>8 DEF a, m

(* Stealer::steal moves boxes from one queue to the end of another: none is
   left behind, none appears twice. *)
LEMMA MoveFacts ==
  ASSUME NEW S, NEW q \in Seq(S), NEW r \in Seq(S), NEW n \in 0..Len(r),
         NoRepeat(q), NoRepeat(r), Items(q) \cap Items(r) = {}
  PROVE  LET join == q \o SubSeq(r, 1, n)  rest == SubSeq(r, n + 1, Len(r)) IN
         /\ join \in Seq(S) /\ NoRepeat(join) /\ Len(join) = Len(q) + n
         /\ rest \in Seq(S) /\ NoRepeat(rest) /\ Len(rest) = Len(r) - n
         /\ Items(join) \cup Items(rest) = Items(q) \cup Items(r)
         /\ Items(join) \cap Items(rest) = {}
<1> DEFINE pre == SubSeq(r, 1, n)  rest == SubSeq(r, n + 1, Len(r))  join == q \o pre
<1>0. pre \in Seq(S) /\ rest \in Seq(S)
  BY SplitFacts
<1>1. Len(pre) = n /\ Len(rest) = Len(r) - n /\ r = pre \o rest
  <2>1. Len(pre) = n /\ Len(rest) = Len(r) - n
    BY SplitFacts
  <2>2. r = SubSeq(r, 1, n) \o SubSeq(r, n + 1, Len(r))
    BY SplitFacts, Zenon
  <2> QED  BY <2>1, <2>2, Zenon
<1> HIDE DEF pre, rest
<1>2. /\ Items(pre \o rest) = Items(pre) \cup Items(rest)
      /\ NoRepeat(pre \o rest) <=>
            NoRepeat(pre) /\ NoRepeat(rest) /\ Items(pre) \cap Items(rest) = {}
  BY <1>0, JoinFacts
<1>3. /\ Items(r) = Items(pre) \cup Items(rest)
      /\ NoRepeat(pre) /\ NoRepeat(rest) /\ Items(pre) \cap Items(rest) = {}
  BY <1>1, <1>2
<1>4. /\ join \in Seq(S) /\ Len(join) = Len(q) + Len(pre) /\ Items(join) = Items(q) \cup Items(pre)
      /\ NoRepeat(join) <=> NoRepeat(q) /\ NoRepeat(pre) /\ Items(q) \cap Items(pre) = {}
  BY <1>0, JoinFacts
<1> HIDE DEF join
<1>5. NoRepeat(join)
  BY <1>3, <1>4
<1>6. /\ Items(join) \cup Items(rest) = Items(q) \cup Items(r)
      /\ Items(join) \cap Items(rest) = {}
  BY <1>3, <1>4
<1>7. Len(join) = Len(q) + n
  BY <1>1, <1>4
<1> QED  BY <1>0, <1>1, <1>3, <1>4, <1>5, <1>6, <1>7 DEF join, rest, pre

----------------------------------------------------------------------------
(* The registry. *)

(* A set of indices that is not empty has a first one. *)
LEMMA FirstIndex ==
  ASSUME NEW T \in SUBSET Nat, T # {}
  PROVE  \E k \in T : \A j \in T : k <= j
<1>1. \E k \in T : \A j \in T : ~(<<j, k>> \in OpToRel(<, Nat))
  BY NatLessThanWellFounded, WFMin, Zenon
<1>2. PICK k \in T : \A j \in T : ~(<<j, k>> \in OpToRel(<, Nat))
  BY <1>1, Zenon
<1>3. \A j \in T : ~(j < k)
  BY <1>2 DEF OpToRel
<1> QED  BY <1>3

AliveIn(reg, i) == \E k \in 1..Len(reg) : reg[k].alive /\ reg[k].id = i
CancelledIn(reg, i) == \E k \in 1..Len(reg) : reg[k].alive /\ reg[k].id = i /\ reg[k].cancelled
UniqueIds(reg) == \A j, k \in 1..Len(reg) : reg[j].id = reg[k].id => j = k

(* with_slot() finds the one slot of a live task. *)
LEMMA SlotOfFacts ==
  ASSUME UniqueIds(registry), registry \in Seq(Slot), NEW i, IsAlive(i)
  PROVE  /\ SlotOf(i) \in 1..Len(registry)
         /\ registry[SlotOf(i)] \in Slot
         /\ registry[SlotOf(i)].alive /\ registry[SlotOf(i)].id = i
<1>1. PICK k \in 1..Len(registry) : Live(i, k)
  BY DEF IsAlive
<1>2. \A j \in 1..(k - 1) : ~Live(i, j)
  <2> SUFFICES ASSUME NEW j \in 1..(k - 1), Live(i, j) PROVE FALSE
    OBVIOUS
  <2>1. j \in 1..Len(registry) /\ j # k
    BY LenProperties
  <2> QED  BY <1>1, <2>1 DEF Live, UniqueIds
<1>3. SlotOf(i) \in 1..Len(registry) /\ Live(i, SlotOf(i))
  BY <1>1, <1>2 DEF SlotOf
<1> QED  BY <1>3, ElementOfSeq DEF Live

(* What the critical sections read, in terms of slots. *)
LEMMA AliveFacts ==
  ASSUME UniqueIds(registry), registry \in Seq(Slot), NEW i
  PROVE  /\ IsAlive(i) <=> AliveIn(registry, i)
         /\ CancelSeen(i) <=> CancelledIn(registry, i)
         /\ IsAlive(i) => (registry[SlotOf(i)].cancelled <=> CancelledIn(registry, i))
<1>1. IsAlive(i) <=> AliveIn(registry, i)
  BY DEF IsAlive, Live, AliveIn
<1>2. IsAlive(i) => (registry[SlotOf(i)].cancelled <=> CancelledIn(registry, i))
  BY SlotOfFacts DEF CancelledIn, UniqueIds
<1>3. CancelledIn(registry, i) => IsAlive(i)
  BY <1>1 DEF CancelledIn, AliveIn
<1> QED  BY <1>1, <1>2, <1>3 DEF CancelSeen

(* A write to one field of a slot, other than its id. *)
LEMMA SlotWrite ==
  ASSUME NEW reg \in Seq(Slot), UniqueIds(reg), NEW k \in 1..Len(reg), NEW s \in Slot,
         s.id = reg[k].id
  PROVE  LET new == [reg EXCEPT ![k] = s] IN
         /\ new \in Seq(Slot) /\ Len(new) = Len(reg) /\ UniqueIds(new)
         /\ \A j \in 1..Len(reg) : new[j].id = reg[j].id
         /\ \A i : AliveIn(new, i) <=> IF i = s.id THEN s.alive ELSE AliveIn(reg, i)
         /\ \A i : CancelledIn(new, i) <=>
                      IF i = s.id THEN s.alive /\ s.cancelled ELSE CancelledIn(reg, i)
<1> DEFINE new == [reg EXCEPT ![k] = s]
<1>1. /\ new \in Seq(Slot) /\ Len(new) = Len(reg)
      /\ \A j \in 1..Len(reg) : new[j] = IF j = k THEN s ELSE reg[j]
  BY ExceptSeq
<1> HIDE DEF new
<1>2. \A j \in 1..Len(reg) : new[j].id = reg[j].id
  BY <1>1
<1>3. UniqueIds(new)
  BY <1>1, <1>2 DEF UniqueIds
<1>4. \A j \in 1..Len(reg) : reg[j].id = s.id => j = k
  BY DEF UniqueIds
<1>5. ASSUME NEW i PROVE AliveIn(new, i) <=> IF i = s.id THEN s.alive ELSE AliveIn(reg, i)
  BY <1>1, <1>4 DEF AliveIn
<1>6. ASSUME NEW i PROVE CancelledIn(new, i) <=>
                            IF i = s.id THEN s.alive /\ s.cancelled ELSE CancelledIn(reg, i)
  BY <1>1, <1>4 DEF CancelledIn
<1> QED  BY <1>1, <1>2, <1>3, <1>5, <1>6 DEF new

(* Retiring a live task kills its slot and leaves every other as it is. *)
LEMMA RetiredFacts ==
  ASSUME registry \in Seq(Slot), UniqueIds(registry), NEW i, IsAlive(i)
  PROVE  /\ Retired(i) \in Seq(Slot) /\ Len(Retired(i)) = Len(registry)
         /\ UniqueIds(Retired(i))
         /\ \A j \in 1..Len(registry) : Retired(i)[j].id = registry[j].id
         /\ \A e : AliveIn(Retired(i), e) <=> e # i /\ AliveIn(registry, e)
         /\ \A e : e # i => (CancelledIn(Retired(i), e) <=> CancelledIn(registry, e))
<1>1. PICK k \in 1..Len(registry) : registry[k].id = i
  BY DEF IsAlive, Live
<1>2. \A j \in 1..(k - 1) : registry[j].id # i
  <2> SUFFICES ASSUME NEW j \in 1..(k - 1), registry[j].id = i PROVE FALSE
    OBVIOUS
  <2>1. j \in 1..Len(registry) /\ j # k
    BY LenProperties
  <2> QED  BY <1>1, <2>1 DEF UniqueIds
<1> DEFINE c == CHOOSE x \in 1..Len(registry) :
                    registry[x].id = i /\ \A j \in 1..(x - 1) : registry[j].id # i
<1>3. c \in 1..Len(registry) /\ registry[c].id = i
  BY <1>1, <1>2
<1>4. Retired(i) = [registry EXCEPT ![c].alive = FALSE]
  BY <1>1 DEF Retired
<1> HIDE DEF c
<1> DEFINE s == [registry[c] EXCEPT !.alive = FALSE]
<1>5. s \in Slot /\ s.id = i /\ s.alive = FALSE
  <2>1. registry[c] \in Slot  BY <1>3, ElementOfSeq
  <2> QED  BY <1>3, <2>1 DEF Slot
<1>6. Retired(i) = [registry EXCEPT ![c] = s]
  BY <1>4
<1> HIDE DEF s
<1> DEFINE new == [registry EXCEPT ![c] = s]
<1>7. /\ new \in Seq(Slot) /\ Len(new) = Len(registry) /\ UniqueIds(new)
      /\ \A j \in 1..Len(registry) : new[j].id = registry[j].id
      /\ \A e : AliveIn(new, e) <=> IF e = s.id THEN s.alive ELSE AliveIn(registry, e)
      /\ \A e : CancelledIn(new, e) <=>
                   IF e = s.id THEN s.alive /\ s.cancelled ELSE CancelledIn(registry, e)
  BY <1>3, <1>5, SlotWrite
<1>8. new = Retired(i)
  BY <1>6
<1> HIDE DEF new
<1>9. /\ \A e : AliveIn(new, e) <=> e # i /\ AliveIn(registry, e)
      /\ \A e : e # i => (CancelledIn(new, e) <=> CancelledIn(registry, e))
  BY <1>5, <1>7
<1> QED  BY <1>7, <1>8, <1>9

(* spawn() registers a fresh id and takes over at most a dead slot. *)
LEMMA RegisteredFacts ==
  ASSUME registry \in Seq(Slot), UniqueIds(registry), NEW s \in Slot,
         s.alive, ~s.cancelled,
         \A j \in 1..Len(registry) : registry[j].id # s.id
  PROVE  LET new == Registered(s) IN
         /\ new \in Seq(Slot) /\ UniqueIds(new)
         /\ \A j \in 1..Len(new) :
               new[j].id = s.id \/ \E k \in 1..Len(registry) : new[j].id = registry[k].id
         /\ \A i : AliveIn(new, i) <=> i = s.id \/ AliveIn(registry, i)
         /\ \A i : CancelledIn(new, i) <=> CancelledIn(registry, i)
         /\ \/ Len(new) = Len(registry)
            \/ /\ Len(new) = Len(registry) + 1
               /\ \A k \in 1..Len(registry) : registry[k].alive
<1> DEFINE n == Len(registry)  new == Registered(s)
<1>0. n \in Nat /\ \A j \in 1..n : registry[j] \in Slot
  BY LenProperties, ElementOfSeq
<1>1. CASE \E k \in 1..n : ~registry[k].alive
  <2> DEFINE T == {k \in 1..n : ~registry[k].alive}
  <2>1. PICK k \in T : \A j \in T : k <= j
    <3>1. T \in SUBSET Nat /\ T # {}  BY <1>1
    <3> HIDE DEF T
    <3> QED  BY <3>1, FirstIndex
  <2>2. \A j \in 1..(k - 1) : registry[j].alive
    BY <1>0, <2>1
  <2> DEFINE c == CHOOSE x \in 1..n : ~registry[x].alive /\ \A j \in 1..(x - 1) : registry[j].alive
  <2>3. c \in 1..n /\ ~registry[c].alive
    BY <2>1, <2>2
  <2>4. new = [registry EXCEPT ![c] = s]
    BY <1>1 DEF Registered
  <2> HIDE DEF c, new
  <2>5. /\ new \in Seq(Slot) /\ Len(new) = n
        /\ \A j \in 1..n : new[j] = IF j = c THEN s ELSE registry[j]
    BY <2>3, <2>4, ExceptSeq
  <2>6. UniqueIds(new)
    BY <2>5 DEF UniqueIds
  <2>7. \A i : AliveIn(new, i) <=> i = s.id \/ AliveIn(registry, i)
    BY <2>3, <2>5 DEF AliveIn
  <2>8. \A i : CancelledIn(new, i) <=> CancelledIn(registry, i)
    BY <2>3, <2>5 DEF CancelledIn
  <2> QED  BY <2>5, <2>6, <2>7, <2>8 DEF new
<1>2. CASE \A k \in 1..n : registry[k].alive
  <2>1. new = Append(registry, s)
    BY <1>2 DEF Registered
  <2> HIDE DEF new
  <2>2. /\ new \in Seq(Slot) /\ Len(new) = n + 1
        /\ (\A j \in 1..n : new[j] = registry[j]) /\ new[n + 1] = s
    BY <2>1, AppendProperties
  <2>3. (\A j \in 1..(n + 1) : j = n + 1 \/ j \in 1..n) /\ n + 1 \in 1..(n + 1) /\ n + 1 \notin 1..n
        /\ \A j \in 1..n : j \in 1..(n + 1)
    BY <1>0
  <2> HIDE DEF n
  <2>4. UniqueIds(new)
    BY <2>2, <2>3 DEF UniqueIds, n
  <2>5. \A i : AliveIn(new, i) <=> i = s.id \/ AliveIn(registry, i)
    BY <2>2, <2>3 DEF AliveIn, n
  <2>6. \A i : CancelledIn(new, i) <=> CancelledIn(registry, i)
    BY <2>2, <2>3 DEF CancelledIn, n
  <2> QED  BY <1>2, <2>2, <2>3, <2>4, <2>5, <2>6 DEF new, n
<1> QED  BY <1>1, <1>2

----------------------------------------------------------------------------
(* The inductive invariant. *)

(* The type invariant by parts, each touched by few actions. *)
QueueType == queue \in [Cores -> Seq(Ids)] /\ \A c \in Cores : Len(queue[c]) <= Capacity
ControlType ==
    /\ pc \in [Cores -> Locations]
    /\ hand \in [Cores -> Ids \cup {0}]
    /\ \A c \in Cores : hand[c] = 0 <=> pc[c] \in {"idle", "step"}
RegistryType == registry \in Seq(Slot) /\ nextId \in 1..(MaxTasks + 1) /\ peak \in 0..MaxTasks
TaskType == nextRun \in [Ids -> Nat] /\ polled \in [Ids -> 0..Polls] /\ late \in [Ids -> 0..2]
StepType ==
    /\ now \in 0..MaxTime
    /\ time \in [Cores -> 0..MaxTime]
    /\ budget \in [Cores -> 0..Capacity]
    /\ DOMAIN stealers = Cores /\ DOMAIN todo = Cores
    /\ \A c \in Cores : stealers[c] \in Seq(Siblings[c]) /\ todo[c] \in Seq(Siblings[c])

(* A core that popped a box has room to push it back: thieves only take, and
   nobody else pushes to its queue.  This is why no requeue is ever refused. *)
Room == \A c \in Cores :
    pc[c] \in {"sync", "poll", "retire", "requeue"} => Len(queue[c]) < Capacity

(* One owner for each box, by sets. *)
Own ==
    /\ \A c \in Cores : NoRepeat(queue[c])
    /\ \A c, e \in Cores : c # e => Items(queue[c]) \cap Items(queue[e]) = {}
    /\ \A c, e \in Cores : hand[c] \notin Items(queue[e])
    /\ \A c, e \in Cores : hand[c] = hand[e] /\ hand[c] # 0 => c = e

(* The ids in the registry have been given out, and none twice. *)
RegistryIds ==
    /\ UniqueIds(registry)
    /\ \A k \in 1..Len(registry) : registry[k].id < nextId

(* A task polled after its cancel is still marked, and past its poll: the next
   look at the registry ends it. *)
LateIsCancelled == \A i \in Ids :
    /\ late[i] \in 0..1
    /\ late[i] = 1 => /\ CancelledIn(registry, i)
                      /\ \A c \in Cores : hand[c] = i => pc[c] # "poll"

IInv ==
    /\ QueueType /\ ControlType /\ RegistryType /\ TaskType /\ StepType
    /\ Room /\ Own /\ RegistryIds /\ NoTaskLost /\ LateIsCancelled /\ RegistryBounded

(* The parts are the whole. *)
LEMMA TypeParts ==
  QueueType /\ ControlType /\ RegistryType /\ TaskType /\ StepType <=> TypeOK
  BY DEF TypeOK, QueueType, ControlType, RegistryType, TaskType, StepType

(* Boxes and live ids, before and after a step, in terms of sets and slots. *)
LEMMA BoxFacts ==
  ASSUME NEW i
  PROVE  /\ HasBox(i) <=> \E c \in Cores : hand[c] = i \/ i \in Items(queue[c])
         /\ HasBox(i)' <=> \E c \in Cores : hand'[c] = i \/ i \in Items(queue'[c])
         /\ IsAlive(i) <=> AliveIn(registry, i)
         /\ IsAlive(i)' <=> AliveIn(registry', i)
<1>1. HasBox(i) <=> \E c \in Cores : hand[c] = i \/ i \in Items(queue[c])
  BY DEF HasBox, Items
<1>2. HasBox(i)' <=> \E c \in Cores : hand'[c] = i \/ i \in Items(queue'[c])
  BY DEF HasBox, Items
<1>3. IsAlive(i) <=> AliveIn(registry, i)
  BY DEF IsAlive, Live, AliveIn
<1>4. IsAlive(i)' <=> AliveIn(registry', i)
  BY DEF IsAlive, Live, AliveIn
<1> QED  BY <1>1, <1>2, <1>3, <1>4

(* A step of a core that moves no box and writes no slot. *)
LEMMA StayInv ==
  ASSUME IInv, UNCHANGED <<nextId, registry, queue, hand, peak>>,
         ControlType', TaskType', StepType', Room', LateIsCancelled'
  PROVE  IInv'
<1>1. QueueType' /\ RegistryType' /\ Own' /\ RegistryIds' /\ RegistryBounded'
  BY DEF IInv, QueueType, RegistryType, Own, RegistryIds, RegistryBounded
<1>2. NoTaskLost'
  BY BoxFacts DEF IInv, NoTaskLost
<1> QED  BY <1>1, <1>2 DEF IInv

(* A successful push of the box in hand. *)
LEMMA PushInv ==
  ASSUME IInv, NEW c \in Cores, hand[c] \in Ids, Len(queue[c]) < Capacity,
         queue' = [queue EXCEPT ![c] = Append(@, hand[c])],
         Hold(c, 0), NEW l \in {"idle", "step"}, Goto(c, l),
         UNCHANGED <<nextId, registry, nextRun, polled, now, time, stealers, todo, budget, late, peak>>
  PROVE  IInv'
<1> USE DEF Hold, Goto
<1> DEFINE i == hand[c]  q == queue[c]  new == Append(q, i)
<1>0. /\ queue \in [Cores -> Seq(Ids)] /\ hand \in [Cores -> Ids \cup {0}]
      /\ pc \in [Cores -> Locations] /\ 0 \notin Ids /\ Capacity \in Nat /\ Len(q) \in Nat
  BY LenProperties, ConstantsAssumption DEF IInv, QueueType, ControlType, Ids
<1>1. /\ new \in Seq(Ids) /\ Len(new) = Len(q) + 1 /\ Items(new) = Items(q) \cup {i}
      /\ NoRepeat(q) /\ i \notin Items(q) => NoRepeat(new)
  BY <1>0, PushFacts
<1>2. NoRepeat(new)
  BY <1>1 DEF IInv, Own
<1> HIDE DEF new
<1>3. /\ \A e \in Cores : queue'[e] = IF e = c THEN new ELSE queue[e]
      /\ \A e \in Cores : hand'[e] = IF e = c THEN 0 ELSE hand[e]
      /\ \A e \in Cores : pc'[e] = IF e = c THEN l ELSE pc[e]
      /\ queue' = [queue EXCEPT ![c] = new]
  BY <1>0 DEF new
<1>4. QueueType'
  BY <1>0, <1>1, <1>3 DEF IInv, QueueType
<1>5. ControlType'
  BY <1>0 DEF IInv, ControlType, Locations
<1>6. RegistryType' /\ TaskType' /\ StepType' /\ RegistryIds' /\ RegistryBounded'
  BY DEF IInv, RegistryType, TaskType, StepType, RegistryIds, RegistryBounded
<1>7. Room'
  BY <1>3 DEF IInv, Room
<1>8. Own'
  <2>0. \A e \in Cores : Items(queue'[e]) = IF e = c THEN Items(queue[c]) \cup {i} ELSE Items(queue[e])
    BY <1>1, <1>3
  <2>1. \A e \in Cores : NoRepeat(queue'[e])
    BY <1>2, <1>3 DEF IInv, Own
  <2>2. \A e, f \in Cores : e # f => Items(queue'[e]) \cap Items(queue'[f]) = {}
    <3> SUFFICES ASSUME NEW e \in Cores, NEW f \in Cores, e # f,
                        NEW x \in Items(queue'[e]), x \in Items(queue'[f])
                 PROVE  FALSE
      OBVIOUS
    <3>1. \A g \in Cores : i \notin Items(queue[g])
      BY DEF IInv, Own
    <3>2. Items(queue[e]) \cap Items(queue[f]) = {}
      BY DEF IInv, Own
    <3> QED  BY <2>0, <3>1, <3>2
  <2>3. \A e, f \in Cores : hand'[e] \notin Items(queue'[f])
    <3>1. \A f \in Cores : 0 \notin Items(queue'[f])
      <4>1. \A f \in Cores : queue'[f] \in Seq(Ids)
        BY <1>4 DEF QueueType
      <4> QED  BY <1>0, <4>1, ElementOfSeq DEF Items
    <3>2. ASSUME NEW e \in Cores, NEW f \in Cores, e # c, hand[e] \in Items(queue'[f]) PROVE FALSE
      <4>1. hand[e] = i
        BY <2>0, <3>2 DEF IInv, Own
      <4> QED  BY <1>0, <3>2, <4>1 DEF IInv, Own
    <3> QED  BY <1>3, <3>1, <3>2
  <2>4. \A e, f \in Cores : hand'[e] = hand'[f] /\ hand'[e] # 0 => e = f
    BY <1>3 DEF IInv, Own
  <2> QED  BY <2>1, <2>2, <2>3, <2>4 DEF Own
<1>9. NoTaskLost'
  <2>1. \A e \in Cores : Items(queue'[e]) = IF e = c THEN Items(queue[c]) \cup {i} ELSE Items(queue[e])
    BY <1>1, <1>3
  <2>2. ASSUME NEW t \in Ids PROVE HasBox(t)' <=> HasBox(t)
    <3>1. HasBox(t) <=> \E e \in Cores : hand[e] = t \/ t \in Items(queue[e])
      BY BoxFacts
    <3>2. HasBox(t)' <=> \E e \in Cores : hand'[e] = t \/ t \in Items(queue'[e])
      BY BoxFacts
    <3>3. (\E e \in Cores : hand[e] = t \/ t \in Items(queue[e]))
          => \E e \in Cores : hand'[e] = t \/ t \in Items(queue'[e])
      BY <1>3, <2>1
    <3>4. (\E e \in Cores : hand'[e] = t \/ t \in Items(queue'[e]))
          => \E e \in Cores : hand[e] = t \/ t \in Items(queue[e])
      BY <1>0, <1>3, <2>1
    <3> QED  BY <3>1, <3>2, <3>3, <3>4
  <2> QED  BY <2>2, BoxFacts DEF IInv, NoTaskLost
<1>10. LateIsCancelled'
  BY <1>0, <1>3 DEF IInv, LateIsCancelled
<1> QED  BY <1>4, <1>5, <1>6, <1>7, <1>8, <1>9, <1>10 DEF IInv

(* worker.pop() hands the last box to the core. *)
LEMMA PopInv == ASSUME IInv, NEW c \in Cores, Pop(c) PROVE IInv'
<1> USE DEF Hold, Goto
<1> DEFINE q == queue[c]  i == q[Len(q)]  new == SubSeq(q, 1, Len(q) - 1)
<1>0. /\ queue \in [Cores -> Seq(Ids)] /\ hand \in [Cores -> Ids \cup {0}]
      /\ pc \in [Cores -> Locations] /\ 0 \notin Ids /\ Capacity \in Nat /\ Len(q) \in Nat
      /\ Len(q) <= Capacity
  BY LenProperties, ConstantsAssumption DEF IInv, QueueType, ControlType, Ids
<1>1. /\ pc[c] = "step" /\ hand[c] = 0 /\ q # <<>> /\ q \in Seq(Ids) /\ budget[c] > 0
      /\ queue' = [queue EXCEPT ![c] = new] /\ hand' = [hand EXCEPT ![c] = i]
      /\ pc' = [pc EXCEPT ![c] = "sync"] /\ budget' = [budget EXCEPT ![c] = @ - 1]
      /\ UNCHANGED <<nextId, registry, nextRun, polled, now, time, stealers, todo, late, peak>>
  BY <1>0 DEF Pop, IInv, ControlType
<1>2. new \in Seq(Ids) /\ Len(new) = Len(q) - 1 /\ i \in Items(q) /\ NoRepeat(new)
      /\ Items(new) = Items(q) \ {i}
  BY <1>1, PopFacts DEF IInv, Own
<1>3. i \in Ids
  BY <1>1, <1>2, ElementOfSeq DEF Items
<1> HIDE DEF new, i
<1>4. /\ \A e \in Cores : queue'[e] = IF e = c THEN new ELSE queue[e]
      /\ \A e \in Cores : hand'[e] = IF e = c THEN i ELSE hand[e]
      /\ \A e \in Cores : pc'[e] = IF e = c THEN "sync" ELSE pc[e]
      /\ \A e \in Cores : Items(queue'[e]) = IF e = c THEN Items(q) \ {i} ELSE Items(queue[e])
  BY <1>0, <1>1, <1>2
<1>5. QueueType'
  BY <1>0, <1>1, <1>2, <1>4 DEF IInv, QueueType
<1>6. ControlType'
  BY <1>0, <1>1, <1>3 DEF IInv, ControlType, Locations
<1>7. RegistryType' /\ TaskType' /\ RegistryIds' /\ RegistryBounded'
  BY <1>1 DEF IInv, RegistryType, TaskType, RegistryIds, RegistryBounded
<1>8. StepType'
  <2>1. budget' \in [Cores -> 0..Capacity]
    BY <1>0, <1>1 DEF IInv, StepType
  <2> QED  BY <1>1, <2>1 DEF IInv, StepType
<1>9. Room'
  BY <1>0, <1>2, <1>4 DEF IInv, Room
<1>10. \A e \in Cores : e # c => i \notin Items(queue[e])
  BY <1>2 DEF IInv, Own
<1>11. Own'
  <2>1. \A e \in Cores : NoRepeat(queue'[e])
    BY <1>2, <1>4 DEF IInv, Own
  <2>2. \A e, f \in Cores : e # f => Items(queue'[e]) \cap Items(queue'[f]) = {}
    BY <1>4 DEF IInv, Own
  <2>3. \A e, f \in Cores : hand'[e] \notin Items(queue'[f])
    BY <1>4, <1>10 DEF IInv, Own
  <2>4. \A e, f \in Cores : hand'[e] = hand'[f] /\ hand'[e] # 0 => e = f
    <3>1. \A e \in Cores : hand[e] # i
      BY <1>2 DEF IInv, Own
    <3> QED  BY <1>4, <3>1 DEF IInv, Own
  <2> QED  BY <2>1, <2>2, <2>3, <2>4 DEF Own
<1>12. NoTaskLost'
  <2>1. ASSUME NEW t \in Ids PROVE HasBox(t)' <=> HasBox(t)
    <3>1. HasBox(t) <=> \E e \in Cores : hand[e] = t \/ t \in Items(queue[e])
      BY BoxFacts
    <3>2. HasBox(t)' <=> \E e \in Cores : hand'[e] = t \/ t \in Items(queue'[e])
      BY BoxFacts
    <3>3. (\E e \in Cores : hand[e] = t \/ t \in Items(queue[e]))
          => \E e \in Cores : hand'[e] = t \/ t \in Items(queue'[e])
      BY <1>0, <1>1, <1>4
    <3>4. (\E e \in Cores : hand'[e] = t \/ t \in Items(queue'[e]))
          => \E e \in Cores : hand[e] = t \/ t \in Items(queue[e])
      BY <1>2, <1>4
    <3> QED  BY <3>1, <3>2, <3>3, <3>4
  <2> QED  BY <1>1, <2>1, BoxFacts DEF IInv, NoTaskLost
<1>13. LateIsCancelled'
  BY <1>0, <1>1, <1>4 DEF IInv, LateIsCancelled
<1> QED  BY <1>5, <1>6, <1>7, <1>8, <1>9, <1>11, <1>12, <1>13 DEF IInv

(* stealer.steal() moves the oldest boxes of a sibling to the own queue. *)
LEMMA StealInv == ASSUME IInv, NEW c \in Cores, NEW v \in Cores, Steal(c, v) PROVE IInv'
<1>0. /\ queue \in [Cores -> Seq(Ids)] /\ Capacity \in Nat /\ StealBatch \in Nat
      /\ Len(queue[c]) \in Nat /\ Len(queue[v]) \in Nat /\ Len(queue[c]) <= Capacity
      /\ todo[c] \in Seq(Siblings[c]) /\ Siblings[c] \subseteq Cores /\ DOMAIN todo = Cores
  BY LenProperties, ConstantsAssumption DEF IInv, QueueType, StepType
<1>1. PICK n \in Stealable(c, v) :
        queue' = [queue EXCEPT ![c] = @ \o SubSeq(queue[v], 1, n),
                               ![v] = SubSeq(@, n + 1, Len(@))]
  BY DEF Steal
<1>2. /\ pc[c] = "step" /\ todo[c] # <<>> /\ v = Head(todo[c])
      /\ todo' = [todo EXCEPT ![c] = Tail(@)]
      /\ UNCHANGED <<nextId, registry, nextRun, polled, now, pc, hand, time, budget, late,
                     peak, stealers>>
  BY DEF Steal
<1>3. v \in Siblings[c] /\ Tail(todo[c]) \in Seq(Siblings[c])
  BY <1>0, <1>2, HeadTailProperties
<1>4. v # c
  BY <1>3, ConstantsAssumption
<1> DEFINE q == queue[c]  r == queue[v]
           join == q \o SubSeq(r, 1, n)  rest == SubSeq(r, n + 1, Len(r))
<1>5. n \in 0..Len(r) /\ n <= Capacity - Len(q)
  BY <1>0 DEF Stealable
<1>6. /\ q \in Seq(Ids) /\ r \in Seq(Ids) /\ NoRepeat(q) /\ NoRepeat(r)
      /\ Items(q) \cap Items(r) = {}
  BY <1>0, <1>4 DEF IInv, Own
<1>7. queue' = [queue EXCEPT ![c] = join, ![v] = rest]
  BY <1>0, <1>1, <1>4
<1>8. /\ join \in Seq(Ids) /\ NoRepeat(join) /\ Len(join) = Len(q) + n
      /\ rest \in Seq(Ids) /\ NoRepeat(rest) /\ Len(rest) = Len(r) - n
      /\ Items(join) \cup Items(rest) = Items(q) \cup Items(r)
      /\ Items(join) \cap Items(rest) = {}
  <2> HIDE DEF q, r
  <2> QED  BY <1>5, <1>6, MoveFacts
<1> HIDE DEF join, rest
<1>9. \A e \in Cores : queue'[e] = IF e = v THEN rest ELSE IF e = c THEN join ELSE queue[e]
  BY <1>0, <1>7
<1>10. QueueType'
  <2>1. queue' \in [Cores -> Seq(Ids)]
    BY <1>0, <1>7, <1>8
  <2>2. Len(rest) <= Capacity /\ Len(join) <= Capacity
    BY <1>0, <1>5, <1>8 DEF IInv, QueueType
  <2> QED  BY <1>9, <2>1, <2>2 DEF IInv, QueueType
<1>11. ControlType' /\ RegistryType' /\ TaskType' /\ RegistryIds' /\ RegistryBounded' /\ LateIsCancelled'
  BY <1>2 DEF IInv, ControlType, RegistryType, TaskType, RegistryIds, RegistryBounded, LateIsCancelled
<1>12. StepType'
  BY <1>0, <1>2, <1>3 DEF IInv, StepType
<1>13. Room'
  <2> SUFFICES ASSUME NEW e \in Cores, pc[e] \in {"sync", "poll", "retire", "requeue"}
               PROVE  Len(queue'[e]) < Capacity
    BY <1>2 DEF Room
  <2>1. e # c /\ Len(queue[e]) < Capacity
    BY <1>2 DEF IInv, Room
  <2>2. CASE e = v
    BY <1>0, <1>5, <1>8, <1>9, <2>1, <2>2
  <2>3. CASE e # v
    BY <1>9, <2>1, <2>3
  <2> QED  BY <2>2, <2>3
<1>14. Own'
  <2>1. \A e \in Cores : NoRepeat(queue'[e])
    BY <1>8, <1>9 DEF IInv, Own
  <2>2. ASSUME NEW e \in Cores, NEW f \in Cores, e # f,
               NEW x \in Items(queue'[e]), x \in Items(queue'[f])
        PROVE  FALSE
    <3>1. \A g, h \in Cores : g # h => ~(x \in Items(queue[g]) /\ x \in Items(queue[h]))
      BY DEF IInv, Own
    <3>2. /\ ~(x \in Items(join) /\ x \in Items(rest))
          /\ x \in Items(join) \/ x \in Items(rest) => x \in Items(q) \/ x \in Items(r)
      BY <1>8
    <3> QED  BY <1>4, <1>9, <2>2, <3>1, <3>2
  <2>3. \A e, f \in Cores : hand[e] \notin Items(queue'[f])
    BY <1>8, <1>9 DEF IInv, Own
  <2> QED  BY <1>2, <2>1, <2>2, <2>3 DEF IInv, Own
<1>15. NoTaskLost'
  <2>1. ASSUME NEW t \in Ids PROVE HasBox(t)' <=> HasBox(t)
    <3>1. ASSUME NEW e \in Cores, t \in Items(queue[e])
          PROVE  \E f \in Cores : t \in Items(queue'[f])
      <4>1. CASE e \notin {c, v}  BY <1>9, <3>1, <4>1
      <4>2. CASE e \in {c, v}
        <5>1. t \in Items(join) \/ t \in Items(rest)  BY <1>8, <3>1, <4>2
        <5> QED  BY <1>4, <1>9, <5>1
      <4> QED  BY <4>1, <4>2
    <3>2. ASSUME NEW e \in Cores, t \in Items(queue'[e])
          PROVE  \E f \in Cores : t \in Items(queue[f])
      <4>1. CASE e \notin {c, v}  BY <1>9, <3>2, <4>1
      <4>2. CASE e \in {c, v}
        <5>1. t \in Items(q) \/ t \in Items(r)  BY <1>8, <1>9, <3>2, <4>2
        <5> QED  BY <5>1
      <4> QED  BY <4>1, <4>2
    <3> QED  BY <1>2, <3>1, <3>2, BoxFacts
  <2> QED  BY <1>2, <2>1, BoxFacts DEF IInv, NoTaskLost
<1> QED  BY <1>10, <1>11, <1>12, <1>13, <1>14, <1>15 DEF IInv

(* A box in hand is freed and its slot retired in one step. *)
LEMMA KillInv ==
  ASSUME IInv, NEW c \in Cores, NEW i \in Ids, hand[c] = i,
         registry' \in Seq(Slot), Len(registry') = Len(registry), UniqueIds(registry'),
         \A j \in 1..Len(registry) : registry'[j].id = registry[j].id,
         \A e : AliveIn(registry', e) <=> e # i /\ AliveIn(registry, e),
         \A e : e # i => (CancelledIn(registry', e) <=> CancelledIn(registry, e)),
         Hold(c, 0), DropBox(i), NEW l \in {"idle", "step"}, Goto(c, l),
         UNCHANGED <<nextId, queue, now, time, stealers, todo, budget, peak>>
  PROVE  IInv'
<1> USE DEF Hold, Goto, DropBox
<1>0. /\ queue \in [Cores -> Seq(Ids)] /\ hand \in [Cores -> Ids \cup {0}]
      /\ pc \in [Cores -> Locations] /\ 0 \notin Ids
  BY ConstantsAssumption DEF IInv, QueueType, ControlType, Ids
<1>1. /\ \A e \in Cores : hand'[e] = IF e = c THEN 0 ELSE hand[e]
      /\ \A e \in Cores : pc'[e] = IF e = c THEN l ELSE pc[e]
  BY <1>0
<1>2. QueueType' /\ RegistryType' /\ StepType' /\ RegistryBounded'
  BY DEF IInv, QueueType, RegistryType, StepType, RegistryBounded
<1>3. ControlType'
  BY <1>0 DEF IInv, ControlType, Locations
<1>4. TaskType'
  BY ConstantsAssumption DEF IInv, TaskType
<1>5. Room'
  BY <1>1 DEF IInv, Room
<1>6. \A f \in Cores : 0 \notin Items(queue[f])
  BY <1>0, ElementOfSeq DEF Items
<1>7. Own'
  <2>1. \A e, f \in Cores : hand'[e] \notin Items(queue[f])
    BY <1>1, <1>6 DEF IInv, Own
  <2>2. \A e, f \in Cores : hand'[e] = hand'[f] /\ hand'[e] # 0 => e = f
    BY <1>1 DEF IInv, Own
  <2> QED  BY <2>1, <2>2 DEF IInv, Own
<1>8. RegistryIds'
  BY DEF IInv, RegistryIds
<1>9. NoTaskLost'
  <2> SUFFICES ASSUME NEW t \in Ids PROVE IsAlive(t)' <=> HasBox(t)'
    BY DEF NoTaskLost
  <2>1. CASE t = i
    <3>1. \A e \in Cores : hand'[e] # t /\ t \notin Items(queue'[e])
      BY <1>0, <1>1, <2>1 DEF IInv, Own
    <3> QED  BY <2>1, <3>1, BoxFacts
  <2>2. CASE t # i
    <3>1. (\E e \in Cores : hand[e] = t \/ t \in Items(queue[e]))
          <=> (\E e \in Cores : hand'[e] = t \/ t \in Items(queue'[e]))
      BY <1>0, <1>1, <2>2
    <3> QED  BY <2>2, <3>1, BoxFacts DEF IInv, NoTaskLost
  <2> QED  BY <2>1, <2>2
<1>10. LateIsCancelled'
  <2> SUFFICES ASSUME NEW t \in Ids
               PROVE  /\ late'[t] \in 0..1
                      /\ late'[t] = 1 => /\ CancelledIn(registry', t)
                                         /\ \A e \in Cores : hand'[e] = t => pc'[e] # "poll"
    BY DEF LateIsCancelled
  <2>1. late'[t] = IF t = i THEN 0 ELSE late[t]
    BY DEF IInv, TaskType
  <2>2. CASE t = i  BY <2>1, <2>2
  <2>3. CASE t # i  BY <1>0, <1>1, <2>1, <2>3 DEF IInv, LateIsCancelled
  <2> QED  BY <2>2, <2>3
<1> QED  BY <1>2, <1>3, <1>4, <1>5, <1>7, <1>8, <1>9, <1>10 DEF IInv

(* cancel() and set_freq() write a field of a live slot and no box. *)
LEMMA MarkInv ==
  ASSUME IInv, NEW i \in Ids, IsAlive(i), NEW s \in Slot, s.id = i, s.alive,
         CancelledIn(registry, i) => s.cancelled,
         registry' = [registry EXCEPT ![SlotOf(i)] = s],
         UNCHANGED <<nextId, queue, nextRun, polled, now, pc, hand, time, stealers, todo,
                     budget, late, peak>>
  PROVE  IInv'
<1> DEFINE k == SlotOf(i)
<1>0. registry \in Seq(Slot) /\ UniqueIds(registry)
  BY DEF IInv, RegistryType, RegistryIds
<1>1. k \in 1..Len(registry) /\ s.id = registry[k].id
  BY <1>0, SlotOfFacts
<1> DEFINE new == [registry EXCEPT ![k] = s]
<1>2. /\ new \in Seq(Slot) /\ Len(new) = Len(registry) /\ UniqueIds(new)
      /\ \A j \in 1..Len(registry) : new[j].id = registry[j].id
      /\ \A e : AliveIn(new, e) <=> IF e = s.id THEN s.alive ELSE AliveIn(registry, e)
      /\ \A e : CancelledIn(new, e) <=>
                   IF e = s.id THEN s.alive /\ s.cancelled ELSE CancelledIn(registry, e)
  <2> HIDE DEF k
  <2> QED  BY <1>0, <1>1, SlotWrite
<1>3. registry' = new
  OBVIOUS
<1> HIDE DEF new, k
<1>4. AliveIn(registry, i)
  BY BoxFacts
<1>5. \A e : AliveIn(registry', e) <=> AliveIn(registry, e)
  BY <1>2, <1>3, <1>4
<1>6. \A e : CancelledIn(registry, e) => CancelledIn(registry', e)
  BY <1>2, <1>3
<1>7. QueueType' /\ ControlType' /\ TaskType' /\ StepType' /\ Room' /\ Own'
  BY DEF IInv, QueueType, ControlType, TaskType, StepType, Room, Own
<1>8. RegistryType' /\ RegistryIds' /\ RegistryBounded'
  BY <1>2, <1>3 DEF IInv, RegistryType, RegistryIds, RegistryBounded
<1>9. NoTaskLost'
  BY <1>5, BoxFacts DEF IInv, NoTaskLost
<1>10. LateIsCancelled'
  BY <1>6 DEF IInv, LateIsCancelled
<1> QED  BY <1>7, <1>8, <1>9, <1>10 DEF IInv

(* Every box belongs to an id that was given out; so the next id has none, and
   one box more still fits the ids. *)
LEMMA BoxCount ==
  ASSUME IInv, nextId \in Ids
  PROVE  LET B == {i \in Ids : HasBox(i)} IN
         /\ IsFiniteSet(B) /\ Cardinality(B) \in Nat /\ nextId \notin B
         /\ Cardinality(B) + 1 <= MaxTasks
<1> DEFINE B == {i \in Ids : HasBox(i)}
<1>0. nextId \in Nat /\ MaxTasks \in Nat
  BY ConstantsAssumption DEF Ids
<1>1. nextId \notin B
  <2> SUFFICES ASSUME HasBox(nextId) PROVE FALSE
    OBVIOUS
  <2>1. IsAlive(nextId)
    BY DEF IInv, NoTaskLost
  <2>2. PICK k \in 1..Len(registry) : registry[k].id = nextId
    BY <2>1 DEF IsAlive, Live
  <2>3. nextId < nextId
    BY <2>2 DEF IInv, RegistryIds
  <2> QED  BY <1>0, <2>3
<1>2. IsFiniteSet(Ids) /\ Cardinality(Ids) = MaxTasks
  <2>1. 1 \in Int /\ MaxTasks \in Int
    BY <1>0
  <2>2. IsFiniteSet(1..MaxTasks) /\ Cardinality(1..MaxTasks) = IF 1 > MaxTasks THEN 0 ELSE MaxTasks - 1 + 1
    BY <2>1, FS_Interval
  <2> QED  BY <1>0, <2>2 DEF Ids
<1>3. B \subseteq Ids /\ B \cup {nextId} \subseteq Ids
  OBVIOUS
<1> HIDE DEF B
<1>4. IsFiniteSet(B)
  BY <1>2, <1>3, FS_Subset
<1>5. Cardinality(B) \in Nat /\ Cardinality(B \cup {nextId}) = Cardinality(B) + 1
  BY <1>1, <1>4, FS_CardinalityType, FS_AddElement
<1>6. Cardinality(B \cup {nextId}) <= MaxTasks
  BY <1>2, <1>3, FS_Subset
<1>7. Cardinality(B) + 1 <= MaxTasks
  BY <1>5, <1>6
<1> QED  BY <1>1, <1>4, <1>5, <1>7 DEF B

(* A registry without dead slots has no more slots than there are boxes. *)
LEMMA FullRegistry ==
  ASSUME IInv, nextId \in Ids, \A k \in 1..Len(registry) : registry[k].alive
  PROVE  Len(registry) <= Cardinality({i \in Ids : HasBox(i)})
<1> DEFINE B == {i \in Ids : HasBox(i)}  n == Len(registry)
           f == [k \in 1..n |-> registry[k].id]
<1>0. n \in Nat /\ \A k \in 1..n : registry[k] \in Slot
  BY LenProperties, ElementOfSeq DEF IInv, RegistryType
<1>1. \A k \in 1..n : registry[k].id \in B
  <2> SUFFICES ASSUME NEW k \in 1..n PROVE registry[k].id \in B
    OBVIOUS
  <2>1. registry[k].id \in Ids
    BY <1>0 DEF Slot
  <2>2. IsAlive(registry[k].id)
    BY DEF IsAlive, Live
  <2> QED  BY <2>1, <2>2 DEF IInv, NoTaskLost
<1>2. f \in Injection(1..n, B)
  BY <1>1 DEF Injection, IsInjective, IInv, RegistryIds, UniqueIds
<1>3. IsFiniteSet(B) /\ Cardinality(B) \in Nat
  BY BoxCount
<1>4. Cardinality(1..n) = n
  <2>1. 1 \in Int /\ n \in Int
    BY <1>0
  <2> HIDE DEF n
  <2>2. Cardinality(1..n) = IF 1 > n THEN 0 ELSE n - 1 + 1
    BY <2>1, FS_Interval
  <2> QED  BY <1>0, <2>2
<1> HIDE DEF B, f, n
<1>5. Cardinality(1..n) <= Cardinality(B)
  BY <1>2, <1>3, FS_Injection
<1> QED  BY <1>4, <1>5 DEF B, n

(* spawn() gives out an id, takes a slot and makes a box. *)
LEMMA RegisterInv ==
  ASSUME IInv, NEW c \in Cores, NEW f \in Freqs, SpawnRegister(c, f) PROVE IInv'
<1> USE DEF Hold, Goto
<1> DEFINE s == [id |-> nextId, alive |-> TRUE, cancelled |-> FALSE, freq_hz |-> f]
           B == {i \in Ids : HasBox(i)}
<1>0. /\ queue \in [Cores -> Seq(Ids)] /\ hand \in [Cores -> Ids \cup {0}]
      /\ pc \in [Cores -> Locations] /\ 0 \notin Ids /\ MaxTasks \in Nat
      /\ registry \in Seq(Slot) /\ UniqueIds(registry) /\ peak \in Nat
  BY ConstantsAssumption DEF IInv, QueueType, ControlType, Ids, RegistryType, RegistryIds
<1>1. /\ pc[c] = "idle" /\ nextId \in Ids /\ nextId' = nextId + 1 /\ registry' = Registered(s)
      /\ hand' = [hand EXCEPT ![c] = nextId] /\ pc' = [pc EXCEPT ![c] = "push"]
      /\ UNCHANGED <<queue, nextRun, polled, now, time, stealers, todo, budget, late>>
  BY DEF SpawnRegister
<1>2. peak' = IF Cardinality(B) + 1 > peak THEN Cardinality(B) + 1 ELSE peak
  BY DEF SpawnRegister
<1>3. /\ IsFiniteSet(B) /\ Cardinality(B) \in Nat /\ nextId \notin B
      /\ Cardinality(B) + 1 <= MaxTasks
  BY <1>1, BoxCount
<1>4. s \in Slot /\ s.id = nextId /\ s.alive /\ ~s.cancelled
  BY <1>1 DEF Slot
<1>5. nextId \in Nat /\ \A j \in 1..Len(registry) : registry[j].id < nextId /\ registry[j].id # nextId
  BY <1>1, ConstantsAssumption DEF IInv, RegistryIds, Ids
<1> HIDE DEF s
<1>6. /\ registry' \in Seq(Slot) /\ UniqueIds(registry')
      /\ \A j \in 1..Len(registry') : registry'[j].id = nextId
            \/ \E k \in 1..Len(registry) : registry'[j].id = registry[k].id
      /\ \A i : AliveIn(registry', i) <=> i = nextId \/ AliveIn(registry, i)
      /\ \A i : CancelledIn(registry', i) <=> CancelledIn(registry, i)
      /\ \/ Len(registry') = Len(registry)
         \/ /\ Len(registry') = Len(registry) + 1
            /\ \A k \in 1..Len(registry) : registry[k].alive
  <2>1. \A j \in 1..Len(registry) : registry[j].id # s.id
    BY <1>4, <1>5
  <2> DEFINE new == Registered(s)
  <2>2. /\ new \in Seq(Slot) /\ UniqueIds(new)
        /\ \A j \in 1..Len(new) :
              new[j].id = s.id \/ \E k \in 1..Len(registry) : new[j].id = registry[k].id
        /\ \A i : AliveIn(new, i) <=> i = s.id \/ AliveIn(registry, i)
        /\ \A i : CancelledIn(new, i) <=> CancelledIn(registry, i)
        /\ \/ Len(new) = Len(registry)
           \/ /\ Len(new) = Len(registry) + 1
              /\ \A k \in 1..Len(registry) : registry[k].alive
    BY <1>0, <1>4, <2>1, RegisteredFacts
  <2>3. registry' = new /\ s.id = nextId
    BY <1>1, <1>4
  <2> HIDE DEF new
  <2> QED  BY <2>2, <2>3
<1>7. \A e \in Cores : hand[e] # nextId /\ nextId \notin Items(queue[e])
  BY <1>1, <1>3, BoxFacts
<1>8. /\ \A e \in Cores : hand'[e] = IF e = c THEN nextId ELSE hand[e]
      /\ \A e \in Cores : pc'[e] = IF e = c THEN "push" ELSE pc[e]
      /\ hand[c] = 0
  BY <1>0, <1>1 DEF IInv, ControlType
<1>9. QueueType' /\ TaskType' /\ StepType'
  BY <1>1 DEF IInv, QueueType, TaskType, StepType
<1>10. ControlType'
  BY <1>0, <1>1 DEF IInv, ControlType, Locations
<1>11. RegistryType'
  <2>1. peak' \in 0..MaxTasks
    BY <1>0, <1>2, <1>3 DEF IInv, RegistryType
  <2>2. nextId' \in 1..(MaxTasks + 1)
    BY <1>0, <1>1 DEF Ids
  <2> QED  BY <1>6, <2>1, <2>2 DEF RegistryType
<1>12. Room'
  BY <1>1, <1>8 DEF IInv, Room
<1>13. Own'
  <2>1. \A e, g \in Cores : hand'[e] \notin Items(queue[g])
    BY <1>7, <1>8 DEF IInv, Own
  <2>2. \A e, g \in Cores : hand'[e] = hand'[g] /\ hand'[e] # 0 => e = g
    BY <1>7, <1>8 DEF IInv, Own
  <2> QED  BY <1>1, <2>1, <2>2 DEF IInv, Own
<1>14. RegistryIds'
  <2> SUFFICES ASSUME NEW j \in 1..Len(registry') PROVE registry'[j].id < nextId + 1
    BY <1>1, <1>6 DEF RegistryIds
  <2>1. CASE registry'[j].id = nextId
    BY <1>5, <2>1
  <2>2. ASSUME NEW k \in 1..Len(registry), registry'[j].id = registry[k].id
        PROVE  registry'[j].id < nextId + 1
    <3>0. registry[k] \in Slot  BY <1>0, ElementOfSeq
    <3>1. registry[k].id \in Ids  BY <3>0 DEF Slot
    <3>2. registry[k].id \in Nat  BY <3>1, ConstantsAssumption DEF Ids
    <3> QED  BY <1>5, <2>2, <3>2
  <2> QED  BY <1>6, <2>1, <2>2
<1>15. NoTaskLost'
  <2> SUFFICES ASSUME NEW t \in Ids PROVE IsAlive(t)' <=> HasBox(t)'
    BY DEF NoTaskLost
  <2>1. HasBox(t)' <=> t = nextId \/ HasBox(t)
    <3>1. (\E e \in Cores : hand'[e] = t \/ t \in Items(queue'[e]))
          <=> t = nextId \/ (\E e \in Cores : hand[e] = t \/ t \in Items(queue[e]))
      BY <1>0, <1>1, <1>8
    <3> QED  BY <3>1, BoxFacts
  <2> QED  BY <1>6, <2>1, BoxFacts DEF IInv, NoTaskLost
<1>16. LateIsCancelled'
  BY <1>1, <1>6, <1>8 DEF IInv, LateIsCancelled
<1>17. RegistryBounded'
  <2>0. Len(registry) \in Nat /\ Len(registry) <= peak
    BY <1>0, LenProperties DEF IInv, RegistryBounded
  <2>1. CASE Len(registry') = Len(registry)
    BY <1>0, <1>2, <1>3, <2>0, <2>1 DEF RegistryBounded
  <2>2. CASE Len(registry') = Len(registry) + 1 /\ \A k \in 1..Len(registry) : registry[k].alive
    <3>1. Len(registry) <= Cardinality(B)
      BY <1>1, <2>2, FullRegistry
    <3> HIDE DEF B
    <3> QED  BY <1>0, <1>2, <1>3, <2>0, <2>2, <3>1 DEF RegistryBounded
  <2> QED  BY <1>6, <2>1, <2>2
<1> QED  BY <1>9, <1>10, <1>11, <1>12, <1>13, <1>14, <1>15, <1>16, <1>17 DEF IInv

(* poll_one()'s critical section: a cancelled task is ended, another goes on to
   its poll or back to the queue. *)
LEMMA SyncInv == ASSUME IInv, NEW c \in Cores, Sync(c) PROVE IInv'
<1> USE DEF Hold, Goto
<1> DEFINE i == hand[c]  k == SlotOf(i)
<1>0. /\ hand \in [Cores -> Ids \cup {0}] /\ pc \in [Cores -> Locations]
      /\ registry \in Seq(Slot) /\ UniqueIds(registry) /\ pc[c] = "sync"
  BY DEF IInv, ControlType, RegistryType, RegistryIds, Sync
<1>1. i \in Ids
  BY <1>0 DEF IInv, ControlType
<1>2. IsAlive(i)
  <2>1. HasBox(i)  BY BoxFacts
  <2> QED  BY <1>1, <2>1 DEF IInv, NoTaskLost
<1>3. /\ k \in 1..Len(registry) /\ registry[k] \in Slot /\ registry[k].id = i
      /\ registry[k].cancelled <=> CancelledIn(registry, i)
  BY <1>0, <1>2, SlotOfFacts, AliveFacts
<1>4. CASE registry[k].cancelled
  <2> DEFINE s == [registry[k] EXCEPT !.alive = FALSE]  new == [registry EXCEPT ![k] = s]
  <2>1. /\ registry' = [registry EXCEPT ![k].alive = FALSE]
        /\ Hold(c, 0) /\ Goto(c, "step") /\ DropBox(i)
        /\ UNCHANGED <<nextId, queue, now, time, stealers, todo, budget, peak>>
    BY <1>2, <1>4 DEF Sync
  <2>2. s \in Slot /\ s.id = registry[k].id /\ s.alive = FALSE
    BY <1>3 DEF Slot
  <2>3. registry' = new
    BY <2>1
  <2> HIDE DEF s, k
  <2>4. /\ new \in Seq(Slot) /\ Len(new) = Len(registry) /\ UniqueIds(new)
        /\ \A j \in 1..Len(registry) : new[j].id = registry[j].id
        /\ \A e : AliveIn(new, e) <=> IF e = s.id THEN s.alive ELSE AliveIn(registry, e)
        /\ \A e : CancelledIn(new, e) <=>
                     IF e = s.id THEN s.alive /\ s.cancelled ELSE CancelledIn(registry, e)
    BY <1>0, <1>3, <2>2, SlotWrite
  <2> HIDE DEF new
  <2>5. /\ \A e : AliveIn(new, e) <=> e # i /\ AliveIn(registry, e)
        /\ \A e : e # i => (CancelledIn(new, e) <=> CancelledIn(registry, e))
    BY <1>3, <2>2, <2>4
  <2>6. hand[c] = i
    OBVIOUS
  <2> HIDE DEF i
  <2>7. /\ registry' \in Seq(Slot) /\ Len(registry') = Len(registry) /\ UniqueIds(registry')
        /\ \A j \in 1..Len(registry) : registry'[j].id = registry[j].id
        /\ \A e : AliveIn(registry', e) <=> e # i /\ AliveIn(registry, e)
        /\ \A e : e # i => (CancelledIn(registry', e) <=> CancelledIn(registry, e))
    BY <2>3, <2>4, <2>5
  <2>8. Hold(c, 0) /\ Goto(c, "step")
    BY <2>1
  <2> QED  BY <1>1, <2>1, <2>6, <2>7, <2>8, KillInv
<1>5. CASE ~registry[k].cancelled
  <2>1. /\ registry' = registry /\ hand' = [hand EXCEPT ![c] = i]
        /\ pc' = [pc EXCEPT ![c] = IF time[c] < nextRun[i] THEN "requeue" ELSE "poll"]
        /\ nextRun' = [nextRun EXCEPT ![i] = IF time[c] < @ THEN @
                          ELSE time[c] + Ticks(registry[k].freq_hz)]
        /\ UNCHANGED <<nextId, queue, now, time, stealers, todo, budget, peak, polled, late>>
    BY <1>2, <1>5 DEF Sync
  <2>2. hand' = hand
    BY <1>0, <2>1
  <2>3. \A e \in Cores : pc'[e] = IF e = c
                                  THEN IF time[c] < nextRun[i] THEN "requeue" ELSE "poll"
                                  ELSE pc[e]
    BY <1>0, <2>1
  <2>4. ControlType'
    BY <1>0, <2>1, <2>2, <2>3 DEF IInv, ControlType, Locations
  <2>5. TaskType'
    <3>1. registry[k].freq_hz \in Nat
      BY <1>3, ConstantsAssumption DEF Slot
    <3>2. Ticks(registry[k].freq_hz) \in Nat
      BY <3>1, ConstantsAssumption DEF Ticks
    <3>3. time[c] \in Nat
      BY ConstantsAssumption DEF IInv, StepType
    <3>4. time[c] + Ticks(registry[k].freq_hz) \in Nat
      BY <3>2, <3>3
    <3> QED  BY <2>1, <3>4 DEF IInv, TaskType
  <2>6. StepType'
    BY <2>1 DEF IInv, StepType
  <2>7. Room'
    BY <1>0, <2>1, <2>3 DEF IInv, Room
  <2>8. LateIsCancelled'
    <3>1. late[i] # 1
      BY <1>1, <1>3, <1>5 DEF IInv, LateIsCancelled
    <3> QED  BY <2>1, <2>2, <2>3, <3>1 DEF IInv, LateIsCancelled
  <2> QED  BY <2>1, <2>2, <2>4, <2>5, <2>6, <2>7, <2>8, StayInv
<1> QED  BY <1>4, <1>5

(* A poll, which is counted if the task was cancelled since its core looked. *)
LEMMA PollInv == ASSUME IInv, NEW c \in Cores, PollReady(c) \/ PollPending(c) PROVE IInv'
<1> USE DEF Goto
<1> DEFINE i == hand[c]
<1>0. /\ hand \in [Cores -> Ids \cup {0}] /\ pc \in [Cores -> Locations]
      /\ late \in [Ids -> 0..2] /\ pc[c] = "poll" /\ hand' = hand /\ CountLate(i)
      /\ UNCHANGED <<nextId, registry, queue, nextRun, now, hand, time, stealers, todo, budget, peak>>
  BY DEF IInv, ControlType, TaskType, PollReady, PollPending
<1>1. i \in Ids
  BY <1>0 DEF IInv, ControlType
<1>2. PICK l \in {"retire", "requeue"} : Goto(c, l)
  BY DEF PollReady, PollPending
<1>3. \A e \in Cores : pc'[e] = IF e = c THEN l ELSE pc[e]
  BY <1>0, <1>2
<1>4. ControlType'
  BY <1>0, <1>2, <1>3 DEF IInv, ControlType, Locations
<1>5. late[i] = 0
  <2>1. late[i] \in 0..1 /\ late[i] # 1
    BY <1>0, <1>1 DEF IInv, LateIsCancelled
  <2> QED  BY <2>1
<1>6. /\ late'[i] \in 0..1 /\ (late'[i] = 1 => CancelSeen(i))
      /\ \A t \in Ids : t # i => late'[t] = late[t]
      /\ late' \in [Ids -> 0..2]
  BY <1>0, <1>1, <1>5 DEF CountLate
<1>7. TaskType'
  <2>1. polled' \in [Ids -> 0..Polls]
    <3>1. CASE PollReady(c)  BY <3>1 DEF PollReady, IInv, TaskType
    <3>2. CASE PollPending(c)
      <4>1. polled' = [polled EXCEPT ![i] = IF @ < Polls THEN @ + 1 ELSE @]
        BY <3>2 DEF PollPending
      <4>2. polled \in [Ids -> 0..Polls] /\ polled[i] \in 0..Polls /\ Polls \in Nat
        BY <1>1, ConstantsAssumption DEF IInv, TaskType
      <4>3. (IF polled[i] < Polls THEN polled[i] + 1 ELSE polled[i]) \in 0..Polls
        BY <4>2
      <4> QED  BY <4>1, <4>2, <4>3
    <3> QED  BY <3>1, <3>2
  <2> QED  BY <1>0, <1>6, <2>1 DEF IInv, TaskType
<1>8. StepType'
  BY <1>0 DEF IInv, StepType
<1>9. Room'
  BY <1>0, <1>3 DEF IInv, Room
<1>10. LateIsCancelled'
  <2> SUFFICES ASSUME NEW t \in Ids
               PROVE  /\ late'[t] \in 0..1
                      /\ late'[t] = 1 => /\ CancelledIn(registry, t)
                                         /\ \A e \in Cores : hand[e] = t => pc'[e] # "poll"
    BY <1>0 DEF LateIsCancelled
  <2>1. CASE t = i
    <3>1. late'[t] = 1 => CancelledIn(registry, t)
      BY <1>6, <2>1, AliveFacts DEF IInv, RegistryType, RegistryIds
    <3>2. \A e \in Cores : hand[e] = t => e = c
      BY <1>0, <1>1, <2>1, ConstantsAssumption DEF IInv, Own, Ids
    <3> QED  BY <1>3, <1>6, <2>1, <3>1, <3>2
  <2>2. CASE t # i
    BY <1>3, <1>6, <2>2 DEF IInv, LateIsCancelled
  <2> QED  BY <2>1, <2>2
<1> QED  BY <1>0, <1>4, <1>7, <1>8, <1>9, <1>10, StayInv

(* What a core does between boxes moves none of them. *)
LEMMA ControlInv ==
  ASSUME IInv, NEW c \in Cores, SpawnFull(c) \/ StepBegin(c) \/ StepEnd(c)
  PROVE  IInv'
<1> USE DEF Goto
<1>0. /\ hand \in [Cores -> Ids \cup {0}] /\ pc \in [Cores -> Locations]
      /\ UNCHANGED <<nextId, registry, queue, hand, peak, nextRun, polled, late, now, stealers>>
  BY DEF IInv, ControlType, SpawnFull, StepBegin, StepEnd
<1>1. PICK l \in {"reject", "step", "idle"} : pc' = [pc EXCEPT ![c] = l]
  BY DEF SpawnFull, StepBegin, StepEnd
<1>2. ControlType'
  <2>1. CASE SpawnFull(c)  BY <1>0, <2>1 DEF SpawnFull, IInv, ControlType, Locations
  <2>2. CASE StepBegin(c)  BY <1>0, <2>2 DEF StepBegin, IInv, ControlType, Locations
  <2>3. CASE StepEnd(c)    BY <1>0, <2>3 DEF StepEnd, IInv, ControlType, Locations
  <2> QED  BY <2>1, <2>2, <2>3
<1>3. TaskType'
  BY <1>0 DEF IInv, TaskType
<1>4. StepType'
  <2>1. CASE SpawnFull(c)
    BY <2>1 DEF SpawnFull, IInv, StepType
  <2>2. CASE StepBegin(c)
    <3>1. time' \in [Cores -> 0..MaxTime] /\ budget' \in [Cores -> 0..Capacity]
      BY <2>2, ConstantsAssumption DEF StepBegin, IInv, StepType
    <3>2. DOMAIN todo' = Cores /\ \A e \in Cores : todo'[e] \in Seq(Siblings[e])
      BY <2>2 DEF StepBegin, IInv, StepType
    <3> QED  BY <1>0, <3>1, <3>2 DEF IInv, StepType
  <2>3. CASE StepEnd(c)
    <3>1. time' \in [Cores -> 0..MaxTime] /\ budget' \in [Cores -> 0..Capacity]
      BY <2>3, ConstantsAssumption DEF StepEnd, IInv, StepType
    <3>2. todo' = todo
      BY <2>3 DEF StepEnd
    <3> QED  BY <1>0, <3>1, <3>2 DEF IInv, StepType
  <2> QED  BY <2>1, <2>2, <2>3
<1>5. Room'
  BY <1>0, <1>1 DEF IInv, Room
<1>6. LateIsCancelled'
  BY <1>0, <1>1 DEF IInv, LateIsCancelled
<1> QED  BY <1>0, <1>2, <1>3, <1>4, <1>5, <1>6, StayInv

(* Nor do the clock and add_stealer(). *)
LEMMA OutsideInv ==
  ASSUME IInv, Tick \/ \E c, v \in Cores : AddStealer(c, v)
  PROVE  IInv'
<1>0. UNCHANGED <<nextId, registry, queue, hand, peak, pc, nextRun, polled, late, time, todo, budget>>
  BY DEF Tick, AddStealer
<1>1. ControlType' /\ TaskType' /\ Room' /\ LateIsCancelled'
  BY <1>0 DEF IInv, ControlType, TaskType, Room, LateIsCancelled
<1>2. StepType'
  <2>1. CASE Tick
    <3>1. now' \in 0..MaxTime /\ stealers' = stealers
      BY <2>1, ConstantsAssumption DEF Tick, IInv, StepType
    <3> QED  BY <1>0, <3>1 DEF IInv, StepType
  <2>2. ASSUME NEW c \in Cores, NEW v \in Cores, AddStealer(c, v) PROVE StepType'
    <3>1. /\ stealers' = [stealers EXCEPT ![c] = Append(@, v)] /\ now' = now
          /\ v \in Siblings[c] /\ stealers[c] \in Seq(Siblings[c])
      BY <2>2 DEF AddStealer, IInv, StepType
    <3>2. Append(stealers[c], v) \in Seq(Siblings[c])
      BY <3>1, AppendProperties
    <3> QED  BY <1>0, <3>1, <3>2 DEF IInv, StepType
  <2> QED  BY <2>1, <2>2
<1> QED  BY <1>0, <1>1, <1>2, StayInv

----------------------------------------------------------------------------
(* The executors before anything was spawned satisfy the invariant. *)
LEMMA InitInv == Init => IInv
<1> SUFFICES ASSUME Init PROVE IInv
  OBVIOUS
<1> USE ConstantsAssumption DEF Init
<1>0. Len(<<>>) = 0 /\ (\A S : <<>> \in Seq(S)) /\ Items(<<>>) = {} /\ NoRepeat(<<>>)
  BY EmptySeq DEF Items, NoRepeat
<1>1. QueueType /\ ControlType /\ RegistryType /\ TaskType
  BY <1>0 DEF QueueType, ControlType, RegistryType, TaskType, Locations
<1>2. StepType
  BY <1>0 DEF StepType
<1>3. Room /\ Own /\ RegistryIds /\ RegistryBounded
  BY <1>0 DEF Room, Own, RegistryIds, UniqueIds, RegistryBounded
<1>4. NoTaskLost
  BY <1>0, BoxFacts DEF NoTaskLost, AliveIn, Ids
<1>5. LateIsCancelled
  BY DEF LateIsCancelled
<1> QED  BY <1>1, <1>2, <1>3, <1>4, <1>5 DEF IInv

(* Retiring the task in hand, after a rejected spawn or a finished future. *)
LEMMA RetireInv == ASSUME IInv, NEW c \in Cores, SpawnReject(c) \/ Retire(c) PROVE IInv'
<1> DEFINE i == hand[c]
<1>1. PICK l \in {"idle", "step"} :
        /\ registry' = Retired(i) /\ Hold(c, 0) /\ DropBox(i) /\ Goto(c, l)
        /\ UNCHANGED <<nextId, queue, now, time, stealers, todo, budget, peak>>
  BY DEF SpawnReject, Retire
<1>2. i \in Ids
  BY DEF IInv, ControlType, SpawnReject, Retire
<1>3. IsAlive(i)
  <2>1. HasBox(i)  BY BoxFacts
  <2> QED  BY <1>2, <2>1 DEF IInv, NoTaskLost
<1>4. registry \in Seq(Slot) /\ UniqueIds(registry)
  BY DEF IInv, RegistryType, RegistryIds
<1>5. hand[c] = i
  OBVIOUS
<1> HIDE DEF i
<1>6. /\ registry' \in Seq(Slot) /\ Len(registry') = Len(registry) /\ UniqueIds(registry')
      /\ \A j \in 1..Len(registry) : registry'[j].id = registry[j].id
      /\ \A e : AliveIn(registry', e) <=> e # i /\ AliveIn(registry, e)
      /\ \A e : e # i => (CancelledIn(registry', e) <=> CancelledIn(registry, e))
  BY <1>1, <1>3, <1>4, RetiredFacts
<1> QED  BY <1>1, <1>2, <1>5, <1>6, KillInv

(* cancel() and set_freq() of a live task. *)
LEMMA WriteInv ==
  ASSUME IInv, NEW i \in Ids, Cancel(i) \/ \E f \in Retunes : SetFreq(i, f)
  PROVE  IInv'
<1>0. registry \in Seq(Slot) /\ UniqueIds(registry) /\ IsAlive(i)
  BY DEF IInv, RegistryType, RegistryIds, Cancel, SetFreq
<1> DEFINE k == SlotOf(i)
<1>1. /\ registry[k] \in Slot /\ registry[k].id = i /\ registry[k].alive
      /\ CancelledIn(registry, i) => registry[k].cancelled
  BY <1>0, SlotOfFacts, AliveFacts
<1>2. CASE Cancel(i)
  <2> DEFINE s == [registry[k] EXCEPT !.cancelled = TRUE]
  <2>1. s \in Slot /\ s.id = i /\ s.alive /\ s.cancelled
    BY <1>1 DEF Slot
  <2>2. registry' = [registry EXCEPT ![SlotOf(i)] = s]
    BY <1>2 DEF Cancel
  <2>3. UNCHANGED <<nextId, queue, nextRun, polled, now, pc, hand, time, stealers, todo,
                    budget, late, peak>>
    BY <1>2 DEF Cancel
  <2> HIDE DEF s
  <2> QED  BY <1>0, <2>1, <2>2, <2>3, MarkInv
<1>3. ASSUME NEW f \in Retunes, SetFreq(i, f) PROVE IInv'
  <2> DEFINE s == [registry[k] EXCEPT !.freq_hz = f]
  <2>1. s \in Slot /\ s.id = i /\ s.alive /\ (CancelledIn(registry, i) => s.cancelled)
    BY <1>1 DEF Slot
  <2>2. registry' = [registry EXCEPT ![SlotOf(i)] = s]
    BY <1>3 DEF SetFreq
  <2>3. UNCHANGED <<nextId, queue, nextRun, polled, now, pc, hand, time, stealers, todo,
                    budget, late, peak>>
    BY <1>3 DEF SetFreq
  <2> HIDE DEF s
  <2> QED  BY <1>0, <2>1, <2>2, <2>3, MarkInv
<1> QED  BY <1>2, <1>3

(* Every step of every core and of the control plane preserves the invariant. *)
LEMMA NextInv == IInv /\ [Next]_vars => IInv'
<1> SUFFICES ASSUME IInv, [Next]_vars PROVE IInv'
  OBVIOUS
<1>1. CASE UNCHANGED vars
  <2>1. ControlType' /\ TaskType' /\ StepType' /\ Room' /\ LateIsCancelled'
    BY <1>1 DEF vars, IInv, ControlType, TaskType, StepType, Room, LateIsCancelled
  <2> QED  BY <1>1, <2>1, StayInv DEF vars
<1>2. ASSUME NEW c \in Cores, SpawnPush(c) PROVE IInv'
  <2>1. hand[c] \in Ids
    BY <1>2 DEF SpawnPush, IInv, ControlType
  <2> QED  BY <1>2, <2>1, PushInv DEF SpawnPush
<1>3. ASSUME NEW c \in Cores, Requeue(c) PROVE IInv'
  <2>1. hand[c] \in Ids /\ Len(queue[c]) < Capacity
    BY <1>3 DEF Requeue, IInv, ControlType, Room
  <2>2. queue' = [queue EXCEPT ![c] = Append(@, hand[c])]
    BY <1>3, <2>1 DEF Requeue
  <2> QED  BY <1>3, <2>1, <2>2, PushInv DEF Requeue
<1>4. ASSUME NEW c \in Cores, SpawnFull(c) \/ StepBegin(c) \/ StepEnd(c) PROVE IInv'
  BY <1>4, ControlInv
<1>5. ASSUME NEW c \in Cores, SpawnReject(c) \/ Retire(c) PROVE IInv'
  BY <1>5, RetireInv
<1>6. ASSUME NEW c \in Cores, NEW v \in Cores, Steal(c, v) PROVE IInv'
  BY <1>6, StealInv
<1>7. ASSUME NEW c \in Cores, Pop(c) PROVE IInv'
  BY <1>7, PopInv
<1>8. ASSUME NEW c \in Cores, Sync(c) PROVE IInv'
  BY <1>8, SyncInv
<1>9. ASSUME NEW c \in Cores, PollReady(c) \/ PollPending(c) PROVE IInv'
  BY <1>9, PollInv
<1>10. ASSUME NEW c \in Cores, NEW f \in Freqs, SpawnRegister(c, f) PROVE IInv'
  BY <1>10, RegisterInv
<1>11. ASSUME Tick \/ \E c, v \in Cores : AddStealer(c, v) PROVE IInv'
  BY <1>11, OutsideInv
<1>12. ASSUME NEW i \in Ids, Cancel(i) \/ \E f \in Retunes : SetFreq(i, f) PROVE IInv'
  BY <1>12, WriteInv
<1> QED  BY <1>1, <1>2, <1>3, <1>4, <1>5, <1>6, <1>7, <1>8, <1>9, <1>10, <1>11, <1>12 DEF Next, Run

(* The invariant holds of every behaviour of the executors. *)
THEOREM Invariance == Spec => []IInv
  BY InitInv, NextInv, PTL DEF Spec

(* Every variable keeps its type, no queue exceeds its capacity, and a core has a
   box in hand exactly where its code has one. *)
THEOREM TypeCorrect == Spec => []TypeOK
<1>1. IInv => TypeOK
  BY TypeParts DEF IInv
<1> QED  BY <1>1, Invariance, PTL

(* Exactly the live slots have a box: neither stealing, nor a full queue, nor
   the discarded result of the requeueing push loses a task, and none runs on
   after its slot was retired. *)
THEOREM BoxIffAlive == Spec => []NoTaskLost
<1>1. IInv => NoTaskLost
  BY DEF IInv
<1> QED  BY <1>1, Invariance, PTL

(* A box has one owner and a live id one slot, whoever steals from whom. *)
THEOREM Ownership == Spec => []OneOwner
<1>1. IInv => OneOwner
  <2> SUFFICES ASSUME IInv PROVE OneOwner
    OBVIOUS
  <2>1. \A c, e \in Cores : \A j \in 1..Len(queue[c]), k \in 1..Len(queue[e]) :
           queue[c][j] = queue[e][k] => c = e
    BY DEF IInv, Own, Items
  <2>2. \A c \in Cores : \A j, k \in 1..Len(queue[c]) : queue[c][j] = queue[c][k] => j = k
    BY DEF IInv, Own, NoRepeat
  <2>3. \A c, e \in Cores : \A k \in 1..Len(queue[e]) : hand[c] # queue[e][k]
    BY DEF IInv, Own, Items
  <2>4. \A c, e \in Cores : hand[c] = hand[e] /\ hand[c] # 0 => c = e
    BY DEF IInv, Own
  <2>5. \A j, k \in 1..Len(registry) : registry[j].id = registry[k].id => j = k
    BY DEF IInv, RegistryIds, UniqueIds
  <2> QED  BY <2>1, <2>2, <2>3, <2>4, <2>5 DEF OneOwner
<1> QED  BY <1>1, Invariance, PTL

(* After cancel() returned true the future is polled at most once more. *)
THEOREM CancelBounded == Spec => []CancelStops
<1>1. IInv => CancelStops
  BY DEF IInv, LateIsCancelled, CancelStops
<1> QED  BY <1>1, Invariance, PTL

(* The registry never has more slots than there were boxes at one time. *)
THEOREM RegistryStaysBounded == Spec => []RegistryBounded
<1>1. IInv => RegistryBounded
  BY DEF IInv
<1> QED  BY <1>1, Invariance, PTL
=============================================================================
