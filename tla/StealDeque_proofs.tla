------------------------- MODULE StealDeque_proofs -------------------------
(***************************************************************************)
(* What the work-stealing deque's steps add up to: an item is in the hand  *)
(* of one worker, or once in one deque, or once among the items one thief  *)
(* has booked, and no step changes which items there are.  For any number  *)
(* of workers and items.                                                   *)
(***************************************************************************)
EXTENDS StealDeque, SequenceTheorems, TLAPS

NoRepeat(q) == \A j, k \in 1..Len(q) : q[j] = q[k] => j = k

TypeOK ==
    /\ deque \in [Workers -> Seq(Items)]
    /\ held \in [Workers -> SUBSET Items]
    /\ transit \in [Workers -> Seq(Items)]

InDeque(w) == ToSet(deque[w])
InTransit(w) == ToSet(transit[w])

(* Every item is in at most one place, and there at most once. *)
OnePlace ==
    /\ \A w \in Workers : NoRepeat(deque[w]) /\ NoRepeat(transit[w])
    /\ \A v, w \in Workers :
          /\ InDeque(v) \cap held[w] = {}
          /\ InDeque(v) \cap InTransit(w) = {}
          /\ held[v] \cap InTransit(w) = {}
          /\ v # w => /\ InDeque(v) \cap InDeque(w) = {}
                      /\ held[v] \cap held[w] = {}
                      /\ InTransit(v) \cap InTransit(w) = {}

(* The items that are anywhere. *)
With(w) == InDeque(w) \cup held[w] \cup InTransit(w)
Everything == UNION {With(w) : w \in Workers}

IInv == TypeOK /\ OnePlace

----------------------------------------------------------------------------
(* Sequences of items. *)

LEMMA ToSetFacts ==
  ASSUME NEW S, NEW q \in Seq(S)
  PROVE  Len(q) \in Nat /\ ToSet(q) = {q[i] : i \in 1..Len(q)} /\ ToSet(q) \in SUBSET S
<1>1. Len(q) \in Nat /\ DOMAIN q = 1..Len(q) /\ \A i \in 1..Len(q) : q[i] \in S
  BY LenProperties, ElementOfSeq
<1>2. ToSet(q) = {q[i] : i \in 1..Len(q)}
  BY <1>1 DEF ToSet
<1> QED  BY <1>1, <1>2

(* No item in the empty sequence. *)
LEMMA EmptyFacts ==
  ASSUME NEW S PROVE <<>> \in Seq(S) /\ Len(<<>>) = 0 /\ ToSet(<<>>) = {} /\ NoRepeat(<<>>)
<1>1. <<>> \in Seq(S) /\ Len(<<>>) = 0
  BY EmptySeq
<1>2. ToSet(<<>>) = {<<>>[i] : i \in 1..0}
  BY <1>1, ToSetFacts
<1>3. 1..0 = {}
  OBVIOUS
<1> QED  BY <1>1, <1>2, <1>3 DEF NoRepeat

(* One item, or two different ones. *)
LEMMA PairFacts ==
  ASSUME NEW S, NEW x \in S, NEW y \in S
  PROVE  LET b == IF x = y THEN <<x>> ELSE <<x, y>> IN
         b \in Seq(S) /\ ToSet(b) = {x, y} /\ NoRepeat(b)
<1> DEFINE b == IF x = y THEN <<x>> ELSE <<x, y>>
<1>1. CASE x = y
  BY <1>1 DEF ToSet, NoRepeat
<1>2. CASE x # y
  <2>1. b \in Seq(S) /\ Len(b) = 2 /\ b[1] = x /\ b[2] = y
    BY <1>2
  <2> HIDE DEF b
  <2>2. ToSet(b) = {b[i] : i \in 1..2}
    BY <2>1, ToSetFacts
  <2>3. 1..2 = {1, 2}
    OBVIOUS
  <2>4. b \in Seq(S) /\ ToSet(b) = {x, y} /\ NoRepeat(b)
    BY <1>2, <2>1, <2>2, <2>3 DEF NoRepeat
  <2> QED  BY <2>4 DEF b
<1> QED  BY <1>1, <1>2

(* Two sequences joined end to end. *)
LEMMA JoinFacts ==
  ASSUME NEW S, NEW q \in Seq(S), NEW r \in Seq(S)
  PROVE  /\ q \o r \in Seq(S) /\ Len(q \o r) = Len(q) + Len(r)
         /\ ToSet(q \o r) = ToSet(q) \cup ToSet(r)
         /\ NoRepeat(q \o r) <=>
               NoRepeat(q) /\ NoRepeat(r) /\ ToSet(q) \cap ToSet(r) = {}
<1> DEFINE a == q \o r  m == Len(q)  n == Len(r)
<1>1. /\ m \in Nat /\ n \in Nat /\ a \in Seq(S) /\ Len(a) = m + n
      /\ \A i \in 1..(m + n) : a[i] = IF i <= m THEN q[i] ELSE r[i - m]
  BY LenProperties, ConcatProperties
<1>0. /\ ToSet(q) = {q[i] : i \in 1..m} /\ ToSet(r) = {r[i] : i \in 1..n}
      /\ ToSet(a) = {a[i] : i \in 1..(m + n)}
  BY <1>1, ToSetFacts
<1> HIDE DEF a, m, n
<1>2. /\ \A i \in 1..m : i \in 1..(m + n) /\ a[i] = q[i]
      /\ \A i \in 1..n : m + i \in 1..(m + n) /\ a[m + i] = r[i]
  BY <1>1
<1>3. ASSUME NEW i \in 1..(m + n)
      PROVE  \/ i \in 1..m /\ a[i] = q[i]
             \/ \E k \in 1..n : i = m + k /\ a[i] = r[k]
  <2>1. CASE i <= m  BY <1>1, <2>1
  <2>2. CASE i > m
    <3>1. i - m \in 1..n /\ i = m + (i - m) /\ a[i] = r[i - m]
      BY <1>1, <2>2
    <3> QED  BY <3>1
  <2> QED  BY <1>1, <2>1, <2>2
<1>4. ToSet(a) = ToSet(q) \cup ToSet(r)
  <2>1. \A i \in 1..(m + n) : a[i] \in ToSet(q) \cup ToSet(r)
    BY <1>0, <1>3
  <2>2. (\A i \in 1..m : q[i] \in ToSet(a)) /\ \A i \in 1..n : r[i] \in ToSet(a)
    BY <1>0, <1>2
  <2> QED  BY <1>0, <2>1, <2>2
<1>5. ASSUME NoRepeat(a) PROVE NoRepeat(q) /\ NoRepeat(r) /\ ToSet(q) \cap ToSet(r) = {}
  <2>0. \A j, k \in 1..(m + n) : a[j] = a[k] => j = k
    BY <1>1, <1>5 DEF NoRepeat
  <2>1. \A j, k \in 1..m : q[j] = q[k] => j = k
    BY <1>2, <2>0
  <2>2. ASSUME NEW j \in 1..n, NEW k \in 1..n, r[j] = r[k] PROVE j = k
    <3>1. m + j = m + k  BY <1>2, <2>0, <2>2
    <3> QED  BY <1>1, <3>1
  <2>3. ASSUME NEW j \in 1..m, NEW k \in 1..n, q[j] = r[k] PROVE FALSE
    <3>1. j = m + k  BY <1>2, <2>0, <2>3
    <3> QED  BY <1>1, <3>1
  <2> QED  BY <1>0, <2>1, <2>2, <2>3 DEF NoRepeat, m, n
<1>6. ASSUME NoRepeat(q), NoRepeat(r), ToSet(q) \cap ToSet(r) = {},
             NEW i \in 1..(m + n), NEW j \in 1..(m + n), a[i] = a[j]
      PROVE  i = j
  <2>0. \A x \in 1..m, y \in 1..n : q[x] # r[y]
    BY <1>0, <1>6
  <2>1. CASE i \in 1..m /\ a[i] = q[i] /\ j \in 1..m /\ a[j] = q[j]
    BY <1>6, <2>1 DEF NoRepeat, m
  <2>2. CASE (\E k \in 1..n : i = m + k /\ a[i] = r[k]) /\ (\E k \in 1..n : j = m + k /\ a[j] = r[k])
    BY <1>6, <2>2 DEF NoRepeat, n
  <2>3. CASE i \in 1..m /\ a[i] = q[i] /\ (\E k \in 1..n : j = m + k /\ a[j] = r[k])
    BY <1>6, <2>0, <2>3
  <2>4. CASE (\E k \in 1..n : i = m + k /\ a[i] = r[k]) /\ j \in 1..m /\ a[j] = q[j]
    BY <1>6, <2>0, <2>4
  <2> QED  BY <1>3, <2>1, <2>2, <2>3, <2>4
<1>7. NoRepeat(q) /\ NoRepeat(r) /\ ToSet(q) \cap ToSet(r) = {} => NoRepeat(a)
  BY <1>1, <1>6 DEF NoRepeat
<1> QED  BY <1>1, <1>4, <1>5, <1>7 DEF a, m, n

(* A sequence is its first n items followed by the rest. *)
LEMMA SplitFacts ==
  ASSUME NEW S, NEW q \in Seq(S), NEW n \in 0..Len(q)
  PROVE  LET pre == SubSeq(q, 1, n)  rest == SubSeq(q, n + 1, Len(q)) IN
         /\ pre \in Seq(S) /\ rest \in Seq(S) /\ Len(pre) = n /\ Len(rest) = Len(q) - n
         /\ \A i \in 1..n : pre[i] = q[i]
         /\ \A i \in 1..(Len(q) - n) : rest[i] = q[n + i]
         /\ ToSet(q) = ToSet(pre) \cup ToSet(rest)
         /\ NoRepeat(q) <=> /\ NoRepeat(pre) /\ NoRepeat(rest)
                            /\ ToSet(pre) \cap ToSet(rest) = {}
<1> DEFINE m == Len(q)  a == n + 1  pre == SubSeq(q, 1, n)  rest == SubSeq(q, a, m)
<1>1. m \in Nat /\ n \in Nat /\ n <= m /\ \A i \in 1..m : q[i] \in S
  BY LenProperties, ElementOfSeq
<1>2. n \in Int /\ m \in Int /\ a \in Int /\ 1 \in Int
  BY <1>1
<1>3. (\A i \in 1..n : q[i] \in S) /\ (\A i \in a..m : q[i] \in S)
  BY <1>1
<1>4. /\ pre \in Seq(S) /\ Len(pre) = IF 1 <= n THEN n - 1 + 1 ELSE 0
      /\ \A i \in 1..(n - 1 + 1) : pre[i] = q[1 + i - 1]
  BY <1>2, <1>3, SubSeqProperties
<1> HIDE DEF a, m
<1>5. /\ rest \in Seq(S) /\ Len(rest) = IF a <= m THEN m - a + 1 ELSE 0
      /\ \A i \in 1..(m - a + 1) : rest[i] = q[a + i - 1]
  BY <1>2, <1>3, SubSeqProperties
<1>7. SubSeq(q, 1, n) \o SubSeq(q, n + 1, m) = SubSeq(q, 1, m)
  <2>1. 1 \in 1..(Len(q) + 1) /\ n \in (1 - 1)..Len(q) /\ m \in n..Len(q)
    BY <1>1 DEF m
  <2> QED  BY <2>1, ConcatAdjacentSubSeq
<1>8. SubSeq(q, 1, m) = q
  BY SubSeqFull DEF m
<1>9. q = pre \o rest
  BY <1>7, <1>8, Zenon DEF a
<1> HIDE DEF pre, rest
<1>6. Len(pre) = n /\ Len(rest) = m - n /\ \A i \in 1..n : pre[i] = q[i]
  BY <1>1, <1>2, <1>4, <1>5 DEF a
<1>10. \A i \in 1..(m - n) : rest[i] = q[n + i]
  <2>1. m - a + 1 = m - n /\ \A i \in 1..(m - n) : a + i - 1 = n + i
    BY <1>1 DEF a
  <2> QED  BY <1>5, <2>1
<1>11. /\ ToSet(pre \o rest) = ToSet(pre) \cup ToSet(rest)
       /\ NoRepeat(pre \o rest) <=>
             NoRepeat(pre) /\ NoRepeat(rest) /\ ToSet(pre) \cap ToSet(rest) = {}
  BY <1>4, <1>5, JoinFacts
<1> QED  BY <1>4, <1>5, <1>6, <1>9, <1>10, <1>11 DEF a, m, pre, rest

(* A sequence is all but its last item, and its last item. *)
LEMMA LastFacts ==
  ASSUME NEW S, NEW q \in Seq(S), q # <<>>
  PROVE  /\ Len(q) \in Nat /\ Len(q) >= 1 /\ Last(q) \in S
         /\ Front(q) \in Seq(S) /\ Len(Front(q)) = Len(q) - 1
         /\ \A i \in 1..(Len(q) - 1) : Front(q)[i] = q[i]
         /\ ToSet(q) = ToSet(Front(q)) \cup {Last(q)}
         /\ NoRepeat(q) => NoRepeat(Front(q)) /\ Last(q) \notin ToSet(Front(q))
<1> DEFINE k == Len(q) - 1
<1>1. Len(q) \in Nat /\ Len(q) >= 1 /\ Last(q) \in S
  BY EmptySeq, ElementOfSeq DEF Last
<1>2. k \in 0..Len(q) /\ k + 1 = Len(q) /\ Len(q) - k = 1 /\ Front(q) = SubSeq(q, 1, k)
  BY <1>1 DEF Front
<1> HIDE DEF k
<1> DEFINE pre == SubSeq(q, 1, k)  rest == SubSeq(q, k + 1, Len(q))
<1>3. /\ pre \in Seq(S) /\ rest \in Seq(S) /\ Len(pre) = k /\ Len(rest) = Len(q) - k
      /\ \A i \in 1..k : pre[i] = q[i]
      /\ \A i \in 1..(Len(q) - k) : rest[i] = q[k + i]
      /\ ToSet(q) = ToSet(pre) \cup ToSet(rest)
      /\ NoRepeat(q) => NoRepeat(pre) /\ ToSet(pre) \cap ToSet(rest) = {}
  BY <1>2, SplitFacts
<1> HIDE DEF pre, rest
<1>4. ToSet(rest) = {Last(q)}
  <2>1. ToSet(rest) = {rest[i] : i \in 1..1}
    BY <1>2, <1>3, ToSetFacts
  <2>2. 1..1 = {1} /\ 1 \in 1..1
    OBVIOUS
  <2>3. rest[1] = Last(q)
    BY <1>2, <1>3, <2>2 DEF Last
  <2> QED  BY <2>1, <2>2, <2>3
<1>5. pre = Front(q)
  BY <1>2 DEF pre
<1> QED  BY <1>1, <1>3, <1>4, <1>5 DEF k

----------------------------------------------------------------------------
(* What is at one place. *)
LEMMA PlaceFacts ==
  ASSUME TypeOK, NEW w \in Workers
  PROVE  /\ deque[w] \in Seq(Items) /\ transit[w] \in Seq(Items) /\ held[w] \in SUBSET Items
         /\ Len(deque[w]) \in Nat /\ Len(transit[w]) \in Nat
         /\ InDeque(w) \in SUBSET Items /\ InTransit(w) \in SUBSET Items
<1>1. deque[w] \in Seq(Items) /\ transit[w] \in Seq(Items) /\ held[w] \in SUBSET Items
  BY DEF TypeOK
<1> QED  BY <1>1, ToSetFacts DEF InDeque, InTransit

Kept == IInv' /\ Everything' = Everything

(* Every item of the pushed batch leaves the hand and enters the deque. *)
LEMMA PushKeeps == ASSUME IInv, NEW w \in Workers, Push(w) PROVE Kept
<1>1. PICK x \in held[w], y \in held[w] :
         /\ deque' = [deque EXCEPT ![w] = @ \o IF x = y THEN <<x>> ELSE <<x, y>>]
         /\ held' = [held EXCEPT ![w] = @ \ {x, y}]
         /\ transit' = transit
  BY DEF Push
<1> DEFINE b == IF x = y THEN <<x>> ELSE <<x, y>>
<1>2. x \in Items /\ y \in Items /\ {x, y} \subseteq held[w]
  BY PlaceFacts DEF IInv
<1>3. b \in Seq(Items) /\ ToSet(b) = {x, y} /\ NoRepeat(b)
  BY <1>2, PairFacts
<1> HIDE DEF b
<1>4. /\ deque' = [deque EXCEPT ![w] = deque[w] \o b]
      /\ held' = [held EXCEPT ![w] = held[w] \ {x, y}]
      /\ transit' = transit
  BY <1>1 DEF b
<1>5. /\ deque[w] \o b \in Seq(Items) /\ ToSet(deque[w] \o b) = InDeque(w) \cup {x, y}
      /\ NoRepeat(deque[w] \o b)
  <2>1. deque[w] \in Seq(Items) /\ NoRepeat(deque[w]) /\ ToSet(deque[w]) \cap {x, y} = {}
    BY <1>2, PlaceFacts DEF IInv, OnePlace, InDeque
  <2> QED  BY <1>3, <2>1, JoinFacts DEF InDeque
<1>6. TypeOK'
  BY <1>4, <1>5 DEF IInv, TypeOK
<1>7. /\ \A v \in Workers : /\ deque'[v] = IF v = w THEN deque[w] \o b ELSE deque[v]
                            /\ held'[v] = IF v = w THEN held[w] \ {x, y} ELSE held[v]
                            /\ transit'[v] = transit[v]
  BY <1>4 DEF IInv, TypeOK
<1>8. \A v \in Workers : /\ InDeque(v)' = IF v = w THEN InDeque(w) \cup {x, y} ELSE InDeque(v)
                         /\ InTransit(v)' = InTransit(v)
  BY <1>5, <1>7 DEF InDeque, InTransit
<1>9. \A v \in Workers : NoRepeat(deque'[v]) /\ NoRepeat(transit'[v])
  BY <1>5, <1>7 DEF IInv, OnePlace
<1>10. OnePlace'
  BY <1>2, <1>7, <1>8, <1>9 DEF IInv, OnePlace
<1>11. \A v \in Workers : With(v)' = With(v)
  BY <1>2, <1>7, <1>8 DEF With
<1> QED  BY <1>6, <1>10, <1>11 DEF Kept, IInv, Everything

(* The youngest item goes from the deque into the hand. *)
LEMMA PopKeeps == ASSUME IInv, NEW w \in Workers, Pop(w) PROVE Kept
<1> DEFINE q == deque[w]  x == Last(q)  pre == Front(q)
<1>1. q \in Seq(Items) /\ q # <<>>
  BY PlaceFacts DEF IInv, Pop
<1>2. /\ deque' = [deque EXCEPT ![w] = pre]
      /\ held' = [held EXCEPT ![w] = held[w] \cup {x}]
      /\ transit' = transit
  BY DEF Pop
<1>3. /\ pre \in Seq(Items) /\ x \in Items /\ ToSet(q) = ToSet(pre) \cup {x}
      /\ NoRepeat(q) => NoRepeat(pre) /\ x \notin ToSet(pre)
  BY <1>1, LastFacts
<1>5. NoRepeat(pre) /\ InDeque(w) = ToSet(pre) \cup {x} /\ x \notin ToSet(pre)
  BY <1>3 DEF IInv, OnePlace, InDeque
<1>6. TypeOK'
  BY <1>1, <1>2, <1>3 DEF IInv, TypeOK
<1> HIDE DEF q, x, pre
<1>7. /\ \A v \in Workers : /\ deque'[v] = IF v = w THEN pre ELSE deque[v]
                            /\ held'[v] = IF v = w THEN held[w] \cup {x} ELSE held[v]
                            /\ transit'[v] = transit[v]
  BY <1>2 DEF IInv, TypeOK
<1>8. \A v \in Workers : /\ InDeque(v)' = IF v = w THEN ToSet(pre) ELSE InDeque(v)
                         /\ InTransit(v)' = InTransit(v)
  BY <1>7 DEF InDeque, InTransit
<1>9. \A v \in Workers : NoRepeat(deque'[v]) /\ NoRepeat(transit'[v])
  BY <1>5, <1>7 DEF IInv, OnePlace
<1>10. OnePlace'
  BY <1>5, <1>7, <1>8, <1>9 DEF IInv, OnePlace
<1>11. \A v \in Workers : With(v)' = With(v)
  BY <1>5, <1>7, <1>8 DEF With
<1> QED  BY <1>6, <1>10, <1>11 DEF Kept, IInv, Everything

(* A thief's booking takes the oldest items out of the deque. *)
LEMMA BookKeeps == ASSUME IInv, NEW w \in Workers, NEW v \in Workers, Book(w, v) PROVE Kept
<1>1. PICK n \in 1..Len(deque[v]) :
         /\ transit' = [transit EXCEPT ![w] = SubSeq(deque[v], 1, n)]
         /\ deque' = [deque EXCEPT ![v] = SubSeq(deque[v], n + 1, Len(deque[v]))]
         /\ held' = held
         /\ transit[w] = <<>>
  BY DEF Book
<1> DEFINE q == deque[v]  pre == SubSeq(q, 1, n)  rest == SubSeq(q, n + 1, Len(q))
<1>2. q \in Seq(Items) /\ n \in 0..Len(q)
  BY PlaceFacts DEF IInv
<1>3. /\ pre \in Seq(Items) /\ rest \in Seq(Items) /\ ToSet(q) = ToSet(pre) \cup ToSet(rest)
      /\ NoRepeat(q) => NoRepeat(pre) /\ NoRepeat(rest) /\ ToSet(pre) \cap ToSet(rest) = {}
  BY <1>2, SplitFacts
<1>4. /\ InDeque(v) = ToSet(pre) \cup ToSet(rest) /\ ToSet(pre) \cap ToSet(rest) = {}
      /\ NoRepeat(pre) /\ NoRepeat(rest) /\ InTransit(w) = {}
  BY <1>1, <1>3, EmptyFacts DEF IInv, OnePlace, InDeque, InTransit
<1> HIDE DEF q, pre, rest
<1>5. /\ transit' = [transit EXCEPT ![w] = pre]
      /\ deque' = [deque EXCEPT ![v] = rest]
      /\ held' = held
  BY <1>1 DEF q, pre, rest
<1>6. TypeOK'
  BY <1>3, <1>5 DEF IInv, TypeOK
<1>7. /\ \A u \in Workers : /\ deque'[u] = IF u = v THEN rest ELSE deque[u]
                            /\ transit'[u] = IF u = w THEN pre ELSE transit[u]
                            /\ held'[u] = held[u]
  BY <1>5 DEF IInv, TypeOK
<1>8. \A u \in Workers : /\ InDeque(u)' = IF u = v THEN ToSet(rest) ELSE InDeque(u)
                         /\ InTransit(u)' = IF u = w THEN ToSet(pre) ELSE InTransit(u)
  BY <1>7 DEF InDeque, InTransit
<1>9. \A u \in Workers : NoRepeat(deque'[u]) /\ NoRepeat(transit'[u])
  BY <1>4, <1>7 DEF IInv, OnePlace
<1>10. OnePlace'
  BY <1>4, <1>7, <1>8, <1>9 DEF IInv, OnePlace
<1>11. /\ \A u \in Workers \ {v, w} : With(u)' = With(u)
       /\ With(v)' \cup With(w)' = With(v) \cup With(w)
  BY <1>4, <1>7, <1>8 DEF With
<1>12. Everything' = Everything
  <2>1. \A z : (\E u \in Workers : z \in With(u)') <=> (\E u \in Workers : z \in With(u))
    BY <1>11
  <2> QED  BY <2>1 DEF Everything
<1> QED  BY <1>6, <1>10, <1>12 DEF Kept, IInv

(* What a thief booked ends in its deque or in its hand. *)
LEMMA DeliverKeeps == ASSUME IInv, NEW w \in Workers, Deliver(w) PROVE Kept
<1>1. PICK n \in {0, Len(transit[w]) - 1, Len(transit[w])} :
         /\ deque' = [deque EXCEPT ![w] = deque[w] \o SubSeq(transit[w], 1, n)]
         /\ held' = [held EXCEPT ![w] =
                        held[w] \cup ToSet(SubSeq(transit[w], n + 1, Len(transit[w])))]
         /\ transit' = [transit EXCEPT ![w] = <<>>]
         /\ transit[w] # <<>>
  BY DEF Deliver
<1> DEFINE q == transit[w]  pre == SubSeq(q, 1, n)  rest == SubSeq(q, n + 1, Len(q))
           join == deque[w] \o pre
<1>2. q \in Seq(Items) /\ n \in 0..Len(q)
  BY <1>1, PlaceFacts, EmptySeq DEF IInv
<1>3. /\ pre \in Seq(Items) /\ rest \in Seq(Items) /\ ToSet(q) = ToSet(pre) \cup ToSet(rest)
      /\ NoRepeat(q) => NoRepeat(pre) /\ NoRepeat(rest) /\ ToSet(pre) \cap ToSet(rest) = {}
  BY <1>2, SplitFacts
<1>4. /\ InTransit(w) = ToSet(pre) \cup ToSet(rest) /\ ToSet(pre) \cap ToSet(rest) = {}
      /\ NoRepeat(pre) /\ InDeque(w) \cap ToSet(pre) = {}
      /\ deque[w] \in Seq(Items) /\ NoRepeat(deque[w]) /\ held[w] \in SUBSET Items
  BY <1>3, PlaceFacts DEF IInv, OnePlace, InTransit
<1>5. join \in Seq(Items) /\ NoRepeat(join) /\ ToSet(join) = InDeque(w) \cup ToSet(pre)
  <2> HIDE DEF pre
  <2> QED  BY <1>3, <1>4, JoinFacts DEF InDeque
<1>6. ToSet(rest) \in SUBSET Items /\ ToSet(<<>>) = {} /\ NoRepeat(<<>>) /\ <<>> \in Seq(Items)
  BY <1>3, ToSetFacts, EmptyFacts
<1> HIDE DEF q, pre, rest, join
<1>7. /\ deque' = [deque EXCEPT ![w] = join]
      /\ held' = [held EXCEPT ![w] = held[w] \cup ToSet(rest)]
      /\ transit' = [transit EXCEPT ![w] = <<>>]
  BY <1>1 DEF q, pre, rest, join
<1>8. TypeOK'
  BY <1>4, <1>5, <1>6, <1>7 DEF IInv, TypeOK
<1>9. /\ \A v \in Workers : /\ deque'[v] = IF v = w THEN join ELSE deque[v]
                            /\ held'[v] = IF v = w THEN held[w] \cup ToSet(rest) ELSE held[v]
                            /\ transit'[v] = IF v = w THEN <<>> ELSE transit[v]
  BY <1>7 DEF IInv, TypeOK
<1>10. \A v \in Workers :
          /\ InDeque(v)' = IF v = w THEN InDeque(w) \cup ToSet(pre) ELSE InDeque(v)
          /\ InTransit(v)' = IF v = w THEN {} ELSE InTransit(v)
  BY <1>5, <1>6, <1>9 DEF InDeque, InTransit
<1>11. \A v \in Workers : NoRepeat(deque'[v]) /\ NoRepeat(transit'[v])
  BY <1>5, <1>6, <1>9 DEF IInv, OnePlace
<1>12. OnePlace'
  BY <1>4, <1>9, <1>10, <1>11 DEF IInv, OnePlace
<1>13. \A v \in Workers : With(v)' = With(v)
  BY <1>4, <1>9, <1>10 DEF With
<1> QED  BY <1>8, <1>12, <1>13 DEF Kept, IInv, Everything

(* A step, or none, keeps every item and keeps it in one place. *)
LEMMA StepKeeps == ASSUME IInv, [Next]_vars PROVE Kept
<1>1. CASE Next
  BY <1>1, PushKeeps, PopKeeps, BookKeeps, DeliverKeeps DEF Next
<1>2. CASE UNCHANGED vars
  <2>1. deque' = deque /\ held' = held /\ transit' = transit
    BY <1>2 DEF vars
  <2>2. IInv'
    BY <2>1 DEF IInv, TypeOK, OnePlace, InDeque, InTransit
  <2>3. Everything' = Everything
    BY <2>1 DEF Everything, With, InDeque, InTransit
  <2> QED  BY <2>2, <2>3 DEF Kept
<1> QED  BY <1>1, <1>2

(* Empty deques, and no item in two hands. *)
LEMMA InitOnePlace == ASSUME Init PROVE IInv
<1>1. <<>> \in Seq(Items) /\ ToSet(<<>>) = {} /\ NoRepeat(<<>>)
  BY EmptyFacts
<1>2. TypeOK
  BY <1>1 DEF Init, TypeOK
<1>3. \A w \in Workers : deque[w] = <<>> /\ transit[w] = <<>>
  BY DEF Init
<1>4. \A w \in Workers : InDeque(w) = {} /\ InTransit(w) = {}
  BY <1>1, <1>3 DEF InDeque, InTransit
<1>5. OnePlace
  BY <1>1, <1>3, <1>4 DEF Init, OnePlace
<1> QED  BY <1>2, <1>5 DEF IInv

(* Every item is in at most one place, whatever pushes, pops and steals are
   interleaved. *)
THEOREM ItemsOnePlace == Spec => [](TypeOK /\ OnePlace)
<1>1. Init => IInv
  BY InitOnePlace
<1>2. IInv /\ [Next]_vars => IInv'
  BY StepKeeps DEF Kept
<1> QED  BY <1>1, <1>2, PTL DEF Spec, IInv

(* No step loses an item or makes one up. *)
THEOREM ItemsKept == Spec => [][Everything' = Everything]_vars
<1>1. IInv /\ [Next]_vars => Everything' = Everything
  BY StepKeeps DEF Kept
<1>2. Spec => []IInv
  BY ItemsOnePlace, PTL DEF IInv
<1> QED  BY <1>1, <1>2, PTL DEF Spec
=============================================================================
