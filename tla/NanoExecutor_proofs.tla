------------------------ MODULE NanoExecutor_proofs ------------------------
(***************************************************************************)
(* The walk of run_step() over the list that it takes nodes out of looks   *)
(* at no node twice, loses none, and passes over at most one for each that *)
(* it removes, for any number of nodes, rates and ticks.                   *)
(***************************************************************************)
EXTENDS NanoExecutor, SequenceTheorems, FiniteSetTheorems, TLAPS

NoRepeat(q) == \A j, k \in 1..Len(q) : q[j] = q[k] => j = k

(* The set of a list by its positions. *)
LEMMA ToSetFacts ==
  ASSUME NEW S, NEW q \in Seq(S)
  PROVE  ToSet(q) = {q[k] : k \in 1..Len(q)} /\ ToSet(q) \subseteq S /\ Len(q) \in Nat
  BY LenProperties, ElementOfSeq DEF ToSet

(* Bridging a node out closes the gap and leaves the others in order. *)
LEMMA RemoveFacts ==
  ASSUME NEW S, NEW q \in Seq(S), NEW k \in 1..Len(q)
  PROVE  /\ RemoveAt(q, k) \in Seq(S) /\ Len(RemoveAt(q, k)) = Len(q) - 1
         /\ \A j \in 1..(Len(q) - 1) : RemoveAt(q, k)[j] = IF j < k THEN q[j] ELSE q[j + 1]
<1> DEFINE n == Len(q)  a == k - 1  b == k + 1
           left == SubSeq(q, 1, a)  right == SubSeq(q, b, n)
<1>1. /\ n \in Nat /\ k \in 1..n /\ a \in Nat /\ b \in Nat /\ n \in Int /\ a \in Int /\ b \in Int
      /\ \A i \in 1..n : q[i] \in S
  BY LenProperties, ElementOfSeq
<1>2. (\A i \in 1..a : q[i] \in S) /\ (\A i \in b..n : q[i] \in S) /\ 1 \in Int
  BY <1>1
<1>3. RemoveAt(q, k) = left \o right
  BY DEF RemoveAt
<1> HIDE DEF a, b, n
<1>4. /\ left \in Seq(S) /\ Len(left) = IF 1 <= a THEN a - 1 + 1 ELSE 0
      /\ \A i \in 1..(a - 1 + 1) : left[i] = q[1 + i - 1]
  BY <1>1, <1>2, SubSeqProperties
<1>5. /\ right \in Seq(S) /\ Len(right) = IF b <= n THEN n - b + 1 ELSE 0
      /\ \A i \in 1..(n - b + 1) : right[i] = q[b + i - 1]
  BY <1>1, <1>2, SubSeqProperties
<1> HIDE DEF left, right
<1>6. Len(left) = a /\ \A i \in 1..a : left[i] = q[i]
  <2>1. a - 1 + 1 = a /\ \A i \in 1..a : 1 + i - 1 = i
    BY <1>1
  <2> QED  BY <1>1, <1>4, <2>1
<1>7. Len(right) = n - k /\ \A i \in 1..(n - k) : right[i] = q[k + i]
  <2>1. n - b + 1 = n - k /\ \A i \in 1..(n - k) : b + i - 1 = k + i
    BY <1>1 DEF b
  <2>2. n - k >= 0 /\ (b <= n <=> n - k >= 1)
    BY <1>1 DEF b
  <2>3. Len(right) = n - k
    BY <1>1, <1>5, <2>1, <2>2
  <2>4. ASSUME NEW i \in 1..(n - k) PROVE right[i] = q[k + i]
    <3>1. i \in 1..(n - b + 1) /\ b + i - 1 = k + i
      BY <2>1
    <3> QED  BY <1>5, <3>1
  <2> QED  BY <2>3, <2>4
<1>8. /\ left \o right \in Seq(S) /\ Len(left \o right) = Len(left) + Len(right)
      /\ \A i \in 1..(Len(left) + Len(right)) :
            (left \o right)[i] = IF i <= Len(left) THEN left[i] ELSE right[i - Len(left)]
  BY <1>4, <1>5, ConcatProperties
<1> DEFINE r == left \o right
<1>9. Len(r) = n - 1 /\ \A i \in 1..(n - 1) : r[i] = IF i <= a THEN left[i] ELSE right[i - a]
  <2>1. Len(left) + Len(right) = n - 1
    BY <1>1, <1>6, <1>7 DEF a
  <2> QED  BY <1>6, <1>8, <2>1
<1> HIDE DEF r
<1>10. ASSUME NEW j \in 1..(n - 1) PROVE r[j] = IF j < k THEN q[j] ELSE q[j + 1]
  <2>1. CASE j < k
    <3>1. j \in 1..a  BY <1>1, <2>1 DEF a
    <3> QED  BY <1>1, <1>6, <1>9, <2>1, <3>1
  <2>2. CASE j >= k
    <3>1. ~(j <= a) /\ j - a \in 1..(n - k) /\ k + (j - a) = j + 1
      BY <1>1, <2>2 DEF a
    <3> QED  BY <1>1, <1>7, <1>9, <2>2, <3>1
  <2> QED  BY <1>1, <2>1, <2>2
<1> QED  BY <1>3, <1>8, <1>9, <1>10 DEF r, n

(* An interval is at most one second. *)
LEMMA TicksFacts == ASSUME NEW f \in Freqs PROVE Ticks(f) \in 0..FreqBase
<1>1. f \in Nat /\ FreqBase \in Nat
  BY ConstantsAssumption
<1>2. CASE f = 0
  BY <1>1, <1>2 DEF Ticks
<1>3. CASE f # 0
  <2>1. FreqBase \div f \in 0..FreqBase
    BY <1>1, <1>3
  <2> QED  BY <1>3, <2>1 DEF Ticks
<1> QED  BY <1>2, <1>3

----------------------------------------------------------------------------
(* The nodes of the list up to the cursor, without those the pass looked at: the
   ones that the walk stepped over behind a removed node. *)
Before == {list[k] : k \in {j \in 1..Len(list) : j < cursor}}
Missed == Before \ visited

(* The list has each node once and no fresh one, the walk is at most one step
   past its last turn, what lies ahead has not been looked at, what was removed
   is not in the list, and there are no more misses than removals. *)
ListType ==
    /\ list \in Seq(Tasks) /\ NoRepeat(list)
    /\ \A k \in 1..Len(list) : list[k] \notin fresh
ValueType ==
    /\ interval \in [Tasks -> 0..FreqBase]
    /\ nextRun \in [Tasks -> 0..(MaxTime + FreqBase)]
    /\ fresh \subseteq Tasks
    /\ time \in 0..MaxTime
    /\ visited \subseteq Tasks /\ gone \subseteq Tasks
CursorType == cursor \in 0..(Len(list) + 2)
Ahead == cursor > 0 => \A k \in 1..Len(list) : k >= cursor => list[k] \notin visited
GoneIsOut == cursor > 0 => \A k \in 1..Len(list) : list[k] \notin gone
MissesPaid == cursor > 0 => Cardinality(Missed) <= Cardinality(gone)

IInv == ListType /\ ValueType /\ CursorType /\ Ahead /\ GoneIsOut /\ MissesPaid

(* Sets of nodes are finite. *)
LEMMA NodesFinite ==
  ASSUME NEW T \in SUBSET Tasks
  PROVE  IsFiniteSet(T) /\ Cardinality(T) \in Nat /\ Cardinality(T) <= Cardinality(Tasks)
         /\ Cardinality(Tasks) \in Nat
  BY ConstantsAssumption, FS_Subset, FS_CardinalityType

(* A list without repetition is no longer than the set of nodes. *)
LEMMA ListLength == ASSUME ListType PROVE Len(list) <= Cardinality(Tasks) /\ Len(list) \in Nat
<1> DEFINE n == Len(list)
<1>1. n \in Nat /\ list \in [1..n -> Tasks]
  BY LenProperties DEF ListType
<1>2. list \in Injection(1..n, Tasks)
  BY <1>1 DEF ListType, NoRepeat, Injection, IsInjective
<1>3. Cardinality(1..n) = n
  <2>1. 1 \in Int /\ n \in Int
    BY <1>1
  <2> HIDE DEF n
  <2>2. Cardinality(1..n) = IF 1 > n THEN 0 ELSE n - 1 + 1
    BY <2>1, FS_Interval
  <2> QED  BY <1>1, <2>2
<1>4. Cardinality(1..n) <= Cardinality(Tasks)
  BY <1>2, ConstantsAssumption, FS_Injection
<1> QED  BY <1>1, <1>3, <1>4

(* An empty executor satisfies the invariant. *)
LEMMA InitInv == Init => IInv
<1> SUFFICES ASSUME Init PROVE IInv
  OBVIOUS
<1> USE ConstantsAssumption DEF Init
<1>0. <<>> \in Seq(Tasks) /\ Len(<<>>) = 0
  BY EmptySeq
<1>1. ListType /\ CursorType
  BY <1>0 DEF ListType, NoRepeat, CursorType
<1>2. ValueType
  BY DEF ValueType
<1>3. Ahead /\ GoneIsOut /\ MissesPaid
  BY DEF Ahead, GoneIsOut, MissesPaid
<1> QED  BY <1>1, <1>2, <1>3 DEF IInv

(* add() puts a node in front of the list, between passes. *)
LEMMA AddInv == ASSUME IInv, NEW t \in Tasks, NEW f \in Freqs, Add(t, f) PROVE IInv'
<1> DEFINE n == Len(list)
<1>0. /\ cursor = 0 /\ t \in fresh /\ fresh' = fresh \ {t} /\ list' = <<t>> \o list
      /\ interval' = [interval EXCEPT ![t] = Ticks(f)]
      /\ UNCHANGED <<nextRun, time, cursor, visited, gone>>
  BY DEF Add
<1>1. list \in Seq(Tasks) /\ n \in Nat /\ <<t>> \in Seq(Tasks) /\ Len(<<t>>) = 1 /\ <<t>>[1] = t
  BY LenProperties DEF IInv, ListType
<1>2. /\ <<t>> \o list \in Seq(Tasks) /\ Len(<<t>> \o list) = 1 + n
      /\ \A i \in 1..(1 + n) : (<<t>> \o list)[i] = IF i <= 1 THEN <<t>>[i] ELSE list[i - 1]
  BY <1>1, ConcatProperties
<1>3. /\ list' \in Seq(Tasks) /\ Len(list') = n + 1
      /\ \A i \in 1..(n + 1) : list'[i] = IF i = 1 THEN t ELSE list[i - 1]
  BY <1>0, <1>1, <1>2
<1>4. \A i \in 2..(n + 1) : i - 1 \in 1..n /\ list'[i] = list[i - 1] /\ list[i - 1] # t
  BY <1>0, <1>1, <1>3 DEF IInv, ListType
<1>5. ListType'
  <2>1. NoRepeat(list')
    <3> SUFFICES ASSUME NEW j \in 1..(n + 1), NEW k \in 1..(n + 1), list'[j] = list'[k]
                 PROVE  j = k
      BY <1>3 DEF NoRepeat
    <3>1. CASE j = 1 \/ k = 1
      BY <1>1, <1>3, <1>4, <3>1
    <3>2. CASE j \in 2..(n + 1) /\ k \in 2..(n + 1)
      <4>1. j - 1 = k - 1
        BY <1>4, <3>2 DEF IInv, ListType, NoRepeat
      <4> QED  BY <3>2, <4>1
    <3> QED  BY <1>1, <3>1, <3>2
  <2>2. \A k \in 1..(n + 1) : list'[k] \notin fresh'
    <3> SUFFICES ASSUME NEW k \in 1..(n + 1) PROVE list'[k] \notin fresh'
      OBVIOUS
    <3>1. CASE k = 1
      BY <1>0, <1>3, <3>1
    <3>2. CASE k \in 2..(n + 1)
      BY <1>0, <1>4, <3>2 DEF IInv, ListType
    <3> QED  BY <1>1, <3>1, <3>2
  <2> QED  BY <1>3, <2>1, <2>2 DEF ListType
<1>6. ValueType'
  BY <1>0, TicksFacts DEF IInv, ValueType
<1>7. CursorType' /\ Ahead' /\ GoneIsOut' /\ MissesPaid'
  BY <1>0, <1>1, <1>3 DEF CursorType, Ahead, GoneIsOut, MissesPaid
<1> QED  BY <1>5, <1>6, <1>7 DEF IInv

(* A pass begins with nothing looked at and nothing removed. *)
LEMMA BeginInv == ASSUME IInv, StepBegin PROVE IInv'
<1>0. /\ cursor' = 1 /\ visited' = {} /\ gone' = {} /\ time' \in time..MaxTime
      /\ UNCHANGED <<list, interval, nextRun, fresh>>
  BY DEF StepBegin
<1>1. Len(list) \in Nat
  BY ListLength DEF IInv
<1>2. ListType' /\ CursorType' /\ Ahead' /\ GoneIsOut'
  BY <1>0, <1>1 DEF IInv, ListType, CursorType, Ahead, GoneIsOut
<1>3. ValueType'
  BY <1>0, ConstantsAssumption DEF IInv, ValueType
<1>4. Missed' = {}
  <2>1. Before' = {}
    BY <1>0, <1>1 DEF Before
  <2> QED  BY <2>1 DEF Missed
<1>5. MissesPaid'
  BY <1>0, <1>4, FS_EmptySet DEF MissesPaid
<1> QED  BY <1>2, <1>3, <1>5 DEF IInv

(* A turn that leaves the node in the list, due or not. *)
LEMMA PassInv == ASSUME IInv, NotYet \/ Pending PROVE IInv'
<1> DEFINE n == Len(list)  t == list[cursor]
<1>0. /\ cursor \in 1..n /\ visited' = visited \cup {t} /\ cursor' = cursor + 1
      /\ UNCHANGED <<list, interval, fresh, time, gone>>
  BY DEF NotYet, Pending, Walking
<1>1. n \in Nat /\ list \in Seq(Tasks) /\ t \in Tasks
  BY <1>0, ListLength, ElementOfSeq DEF IInv, ListType
<1>2. ListType'
  BY <1>0 DEF IInv, ListType
<1>3. ValueType'
  <2>1. nextRun' \in [Tasks -> 0..(MaxTime + FreqBase)]
    <3>1. CASE NotYet  BY <3>1 DEF NotYet, IInv, ValueType
    <3>2. CASE Pending
      <4>1. time + interval[t] \in 0..(MaxTime + FreqBase)
        BY <1>1, ConstantsAssumption DEF IInv, ValueType
      <4> QED  BY <3>2, <4>1 DEF Pending, IInv, ValueType
    <3> QED  BY <3>1, <3>2
  <2> QED  BY <1>0, <1>1, <2>1 DEF IInv, ValueType
<1>4. CursorType' /\ GoneIsOut'
  BY <1>0, <1>1 DEF IInv, CursorType, GoneIsOut
<1>5. Ahead'
  BY <1>0, <1>1 DEF IInv, ListType, NoRepeat, Ahead
<1>6. Missed' \subseteq Missed
  <2> SUFFICES ASSUME NEW k \in 1..n, k < cursor + 1, list[k] \notin visited', list[k] \notin Missed
               PROVE  FALSE
    BY <1>0 DEF Missed, Before
  <2>1. k # cursor
    BY <1>0
  <2>2. k < cursor
    BY <1>0, <1>1, <2>1
  <2> QED  BY <1>0, <2>2 DEF Missed, Before
<1>7. MissesPaid'
  <2>1. Missed \in SUBSET Tasks /\ gone \in SUBSET Tasks
    BY <1>1, ElementOfSeq DEF Missed, Before, IInv, ValueType
  <2>2. /\ IsFiniteSet(Missed) /\ Cardinality(Missed) \in Nat
        /\ Cardinality(gone) \in Nat /\ gone' = gone
    BY <1>0, <2>1, NodesFinite
  <2>3. Cardinality(Missed') <= Cardinality(Missed) /\ Cardinality(Missed') \in Nat
    BY <1>6, <2>2, FS_Subset, FS_CardinalityType
  <2> QED  BY <1>0, <1>1, <2>2, <2>3 DEF IInv, MissesPaid
<1> QED  BY <1>2, <1>3, <1>4, <1>5, <1>7 DEF IInv

(* What the turn of a node that is Ready does to the list. *)
LEMMA ReadyFacts ==
  ASSUME IInv, Ready
  PROVE  /\ cursor \in 1..Len(list) /\ Len(list) \in Nat /\ list[cursor] \in Tasks
         /\ list' \in Seq(Tasks) /\ Len(list') = Len(list) - 1
         /\ \A k \in 1..Len(list') : list'[k] = IF k < cursor THEN list[k] ELSE list[k + 1]
         /\ \A k \in 1..Len(list') : list'[k] # list[cursor]
<1> DEFINE n == Len(list)  r == RemoveAt(list, cursor)
<1>0. cursor \in 1..n /\ list' = r
  BY DEF Ready, Walking
<1>1. n \in Nat /\ list \in Seq(Tasks) /\ list[cursor] \in Tasks
  BY <1>0, ListLength, ElementOfSeq DEF IInv, ListType
<1>2. /\ r \in Seq(Tasks) /\ Len(r) = n - 1
      /\ \A j \in 1..(n - 1) : r[j] = IF j < cursor THEN list[j] ELSE list[j + 1]
  BY <1>0, <1>1, RemoveFacts
<1> HIDE DEF r
<1>3. \A j \in 1..(n - 1) : r[j] # list[cursor]
  BY <1>0, <1>1, <1>2 DEF IInv, ListType, NoRepeat
<1> QED  BY <1>0, <1>1, <1>2, <1>3

(* A turn that takes the node out steps over its successor: one removal more pays
   for one miss more. *)
LEMMA ReadyInv == ASSUME IInv, Ready PROVE IInv'
<1> DEFINE n == Len(list)  t == list[cursor]  m == Len(list')
<1>0. /\ visited' = visited \cup {t} /\ gone' = gone \cup {t} /\ cursor' = cursor + 1
      /\ UNCHANGED <<interval, nextRun, fresh, time>>
  BY DEF Ready
<1>1. /\ cursor \in 1..n /\ n \in Nat /\ t \in Tasks /\ list' \in Seq(Tasks) /\ m = n - 1
      /\ \A k \in 1..m : list'[k] = IF k < cursor THEN list[k] ELSE list[k + 1]
      /\ \A k \in 1..m : list'[k] # t
  BY ReadyFacts
<1> HIDE DEF t, m
<1>2. ListType'
  <2>1. NoRepeat(list')
    <3> SUFFICES ASSUME NEW j \in 1..m, NEW k \in 1..m, list'[j] = list'[k] PROVE j = k
      BY DEF NoRepeat, m
    <3> DEFINE a == IF j < cursor THEN j ELSE j + 1
               b == IF k < cursor THEN k ELSE k + 1
    <3>1. a \in 1..n /\ b \in 1..n /\ list[a] = list[b]
      BY <1>1
    <3>2. a = b
      BY <3>1 DEF IInv, ListType, NoRepeat
    <3> QED  BY <1>1, <3>2
  <2>2. \A k \in 1..m : list'[k] \notin fresh'
    BY <1>0, <1>1 DEF IInv, ListType
  <2> QED  BY <1>1, <2>1, <2>2 DEF ListType, m
<1>3. ValueType'
  BY <1>0, <1>1 DEF IInv, ValueType
<1>4. CursorType'
  BY <1>0, <1>1 DEF CursorType, m
<1>5. Ahead'
  <2> SUFFICES ASSUME NEW k \in 1..m, k >= cursor + 1 PROVE list'[k] \notin visited'
    BY <1>0 DEF Ahead, m
  <2>1. list'[k] = list[k + 1] /\ k + 1 \in 1..n /\ k + 1 >= cursor /\ cursor > 0
    BY <1>1
  <2>2. list[k + 1] \notin visited
    BY <2>1 DEF IInv, Ahead
  <2> QED  BY <1>0, <1>1, <2>1, <2>2
<1>6. GoneIsOut'
  <2> SUFFICES ASSUME NEW k \in 1..m PROVE list'[k] \notin gone'
    BY DEF GoneIsOut, m
  <2> DEFINE j == IF k < cursor THEN k ELSE k + 1
  <2>1. j \in 1..n /\ list'[k] = list[j] /\ cursor > 0
    BY <1>1
  <2>2. list[j] \notin gone
    BY <2>1 DEF IInv, GoneIsOut
  <2> QED  BY <1>0, <1>1, <2>1, <2>2
<1>7. Missed' \subseteq Missed \cup {list'[cursor]}
  <2> SUFFICES ASSUME NEW k \in 1..m, k < cursor + 1, list'[k] \notin visited', k # cursor
               PROVE  list'[k] \in Missed
    BY <1>0 DEF Missed, Before, m
  <2>1. k < cursor /\ k \in 1..n /\ list'[k] = list[k]
    BY <1>1
  <2> QED  BY <1>0, <2>1 DEF Missed, Before
<1>8. MissesPaid'
  <2>1. Missed \in SUBSET Tasks /\ gone \in SUBSET Tasks
    <3>1. \A k \in 1..n : list[k] \in Tasks
      BY ElementOfSeq DEF IInv, ListType
    <3> QED  BY <3>1 DEF Missed, Before, IInv, ValueType
  <2>2. /\ IsFiniteSet(Missed) /\ Cardinality(Missed) \in Nat
        /\ IsFiniteSet(gone) /\ Cardinality(gone) \in Nat
    BY <2>1, NodesFinite
  <2>3. t \notin gone
    BY <1>1 DEF IInv, GoneIsOut, t
  <2>4. Cardinality(gone') = Cardinality(gone) + 1
    BY <1>0, <2>2, <2>3, FS_AddElement
  <2> DEFINE M == Missed \cup {list'[cursor]}
  <2>5. IsFiniteSet(M) /\ Cardinality(M) \in Nat /\ Cardinality(M) <= Cardinality(Missed) + 1
    <3>1. CASE list'[cursor] \in Missed
      <4>1. M = Missed
        BY <3>1
      <4> QED  BY <2>2, <4>1
    <3>2. CASE list'[cursor] \notin Missed
      <4>1. IsFiniteSet(M) /\ Cardinality(M) = Cardinality(Missed) + 1
        BY <2>2, <3>2, FS_AddElement
      <4> QED  BY <2>2, <4>1
    <3> QED  BY <3>1, <3>2
  <2> HIDE DEF M
  <2>6. Cardinality(Missed') <= Cardinality(M) /\ Cardinality(Missed') \in Nat
    <3>1. Missed' \subseteq M
      BY <1>7 DEF M
    <3> QED  BY <2>5, <3>1, FS_Subset, FS_CardinalityType
  <2>7. Cardinality(Missed) <= Cardinality(gone)
    BY <1>1 DEF IInv, MissesPaid
  <2> QED  BY <2>2, <2>4, <2>5, <2>6, <2>7 DEF MissesPaid
<1> QED  BY <1>2, <1>3, <1>4, <1>5, <1>6, <1>8 DEF IInv

(* Every step keeps the invariant. *)
LEMMA NextInv == IInv /\ [Next]_vars => IInv'
<1> SUFFICES ASSUME IInv, [Next]_vars PROVE IInv'
  OBVIOUS
<1>1. CASE StepEnd
  <2>1. Len(list) \in Nat
    BY ListLength DEF IInv
  <2>2. cursor' = 0 /\ UNCHANGED <<list, interval, nextRun, fresh, time, visited, gone>>
    BY <1>1 DEF StepEnd
  <2> QED
    BY <2>1, <2>2 DEF IInv, ListType, ValueType, CursorType, Ahead, GoneIsOut, MissesPaid
<1>2. CASE UNCHANGED vars
  BY <1>2 DEF vars, IInv, ListType, ValueType, CursorType, Ahead, GoneIsOut, MissesPaid,
              Missed, Before
<1> QED  BY AddInv, BeginInv, PassInv, ReadyInv, <1>1, <1>2 DEF Next, Step

(* The invariant holds in every state of run_step() and add(). *)
THEOREM Invariance == Spec => []IInv
<1> QED  BY InitInv, NextInv, PTL DEF Spec

(* Every variable has its type, an interval is at most one second, and the walk
   ends at most two links past the last node. *)
THEOREM TypeCorrect == Spec => []TypeOK
<1>1. IInv => TypeOK
  <2> SUFFICES ASSUME IInv PROVE TypeOK
    OBVIOUS
  <2>1. Cardinality(Tasks) \in Nat /\ Len(list) \in Nat /\ Len(list) <= Cardinality(Tasks)
    BY ListLength, NodesFinite DEF IInv
  <2>2. cursor \in 0..(Cardinality(Tasks) + 2)
    BY <2>1 DEF IInv, CursorType
  <2> QED  BY <2>2 DEF IInv, ListType, ValueType, TypeOK
<1> QED  BY <1>1, Invariance, PTL

(* run_step() is a single pass: the walk never comes back to a node it has
   already looked at, although nodes are removed under it. *)
THEOREM SinglePass == Spec => []OncePerPass
<1>1. IInv => OncePerPass
  <2> SUFFICES ASSUME IInv, Walking PROVE list[cursor] \notin visited
    BY DEF OncePerPass
  <2>1. cursor \in 1..Len(list) /\ cursor > 0 /\ cursor >= cursor
    BY ListLength DEF IInv, Walking
  <2> QED  BY <2>1 DEF IInv, Ahead
<1> QED  BY <1>1, Invariance, PTL

(* At the end of a pass the nodes that the walk passed over are no more than
   those it removed. *)
THEOREM MissesBounded == Spec => []MissesAreBounded
<1>1. IInv => MissesAreBounded
  <2> SUFFICES ASSUME IInv, cursor > Len(list)
               PROVE  Cardinality(ToSet(list) \ visited) <= Cardinality(gone)
    BY DEF MissesAreBounded
  <2>1. list \in Seq(Tasks) /\ Len(list) \in Nat /\ cursor \in Nat
    BY ListLength DEF IInv, ListType, CursorType
  <2>2. cursor > 0 /\ \A j \in 1..Len(list) : j < cursor
    BY <2>1
  <2>3. ToSet(list) = {list[k] : k \in 1..Len(list)}
    BY <2>1, ToSetFacts
  <2>4. ToSet(list) = Before
    BY <2>2, <2>3 DEF Before
  <2> QED  BY <2>2, <2>4 DEF IInv, MissesPaid, Missed
<1> QED  BY <1>1, Invariance, PTL

(* What NoNodeLost says of one step. *)
NodeKept == /\ ToSet(list) \ ToSet(list') \subseteq (gone' \ gone)
            /\ Cardinality(ToSet(list) \ ToSet(list')) <= 1

(* A turn takes no node out of the list but the one that was polled Ready. *)
LEMMA NextKeeps == IInv /\ [Next]_vars => [NodeKept]_vars
<1> DEFINE out == ToSet(list) \ ToSet(list')
<1> SUFFICES ASSUME IInv, [Next]_vars
             PROVE  [out \subseteq (gone' \ gone) /\ Cardinality(out) <= 1]_vars
  BY DEF NodeKept
<1>0. list \in Seq(Tasks) /\ ToSet(list) = {list[k] : k \in 1..Len(list)} /\ Len(list) \in Nat
  <2>1. list \in Seq(Tasks)
    BY DEF IInv, ListType
  <2> QED  BY <2>1, ToSetFacts
<1>1. CASE list' = list
  BY <1>1, FS_EmptySet
<1>2. CASE Ready
  <2> DEFINE t == list[cursor]
  <2>1. /\ cursor \in 1..Len(list) /\ Len(list) \in Nat /\ t \in Tasks
        /\ list' \in Seq(Tasks) /\ Len(list') = Len(list) - 1
        /\ \A k \in 1..Len(list') : list'[k] = IF k < cursor THEN list[k] ELSE list[k + 1]
    BY <1>2, ReadyFacts
  <2>2. gone' = gone \cup {t}
    BY <1>2 DEF Ready
  <2> HIDE DEF t
  <2>3. ToSet(list') = {list'[k] : k \in 1..Len(list')}
    BY <2>1, ToSetFacts
  <2>4. out \subseteq {t}
    <3> SUFFICES ASSUME NEW k \in 1..Len(list), k # cursor PROVE list[k] \in ToSet(list')
      BY <1>0 DEF t
    <3>1. CASE k < cursor
      <4>1. k \in 1..Len(list') /\ list'[k] = list[k]
        BY <2>1, <3>1
      <4> QED  BY <2>3, <4>1
    <3>2. CASE k > cursor
      <4>1. k - 1 \in 1..Len(list') /\ list'[k - 1] = list[k]
        <5>1. k - 1 \in 1..Len(list') /\ ~(k - 1 < cursor) /\ (k - 1) + 1 = k
          BY <2>1, <3>2
        <5> QED  BY <2>1, <5>1
      <4> QED  BY <2>3, <4>1
    <3> QED  BY <2>1, <3>1, <3>2
  <2>5. t \notin gone
    BY <2>1 DEF IInv, GoneIsOut, t
  <2>6. IsFiniteSet({t}) /\ Cardinality({t}) = 1
    BY FS_Singleton
  <2>7. Cardinality(out) <= 1
    BY <2>4, <2>6, FS_Subset
  <2> QED  BY <2>2, <2>4, <2>5, <2>7
<1>3. ASSUME NEW t \in Tasks, NEW f \in Freqs, Add(t, f)
      PROVE  out = {}
  <2>1. list' = <<t>> \o list /\ <<t>> \in Seq(Tasks) /\ Len(<<t>>) = 1
    BY <1>3 DEF Add
  <2>2. /\ list' \in Seq(Tasks) /\ Len(list') = 1 + Len(list)
        /\ \A i \in 1..(1 + Len(list)) :
              list'[i] = IF i <= 1 THEN <<t>>[i] ELSE list[i - 1]
    BY <1>0, <2>1, ConcatProperties
  <2>3. ToSet(list') = {list'[k] : k \in 1..Len(list')}
    BY <2>2, ToSetFacts
  <2>4. ASSUME NEW k \in 1..Len(list) PROVE list[k] \in ToSet(list')
    <3>1. k + 1 \in 1..Len(list') /\ ~(k + 1 <= 1) /\ (k + 1) - 1 = k
      BY <1>0, <2>2
    <3>2. list'[k + 1] = list[k]
      BY <2>2, <3>1
    <3> QED  BY <2>3, <3>1, <3>2
  <2> QED  BY <1>0, <2>4
<1>4. CASE \E t \in Tasks, f \in Freqs : Add(t, f)
  BY <1>3, <1>4, FS_EmptySet
<1>5. CASE StepBegin \/ NotYet \/ Pending \/ StepEnd \/ UNCHANGED vars
  BY <1>1, <1>5 DEF StepBegin, NotYet, Pending, StepEnd, vars
<1> QED  BY <1>2, <1>4, <1>5 DEF Next, Step

(* Every node stays in the list from add() until its future is Ready, and no
   turn takes out more than the node it polled. *)
THEOREM NodesKept == Spec => NoNodeLost
<1> QED  BY NextKeeps, Invariance, PTL DEF Spec, NoNodeLost, NodeKept
=============================================================================
