--------------------------- MODULE Channels_proofs ---------------------------
(***************************************************************************)
(* No channel loses, repeats or reorders a value, for any number of        *)
(* senders, receivers and values and any capacity.                         *)
(***************************************************************************)
EXTENDS Channels, SequenceTheorems, FiniteSetTheorems, TLAPS

----------------------------------------------------------------------------
(* The fields of the nine disciplines. *)

(* What the proofs use of a discipline: the bound is a number, and a channel
   whose poll takes two steps is a slot that its receivers do not own. *)
LEMMA DisciplineFacts ==
  ASSUME kind \in Kinds
  PROVE  d.bound \in Nat /\ (d.twoStep => d.slot /\ ~d.owned)
<1> USE ConstantsAssumption
<1>1. kind \in {"SingleOneshot", "SingleUnbounded", "SingleBounded", "MultiOneshot",
                "MultiUnbounded", "MultiBounded", "StaticChannel", "Signal", "UnsafeSignal"}
  BY KindsAssumption DEF Discipline
<1>2. CASE kind = "SingleOneshot" \/ kind = "MultiOneshot"
  <2>1. d = SingleOneshot  BY <1>2 DEF d, Discipline, SingleOneshot, MultiOneshot
  <2> QED  BY <2>1 DEF SingleOneshot, Queue
<1>3. CASE kind = "SingleUnbounded" \/ kind = "MultiUnbounded"
  <2>1. d = Queue  BY <1>3 DEF d, Discipline, SingleUnbounded, MultiUnbounded
  <2> QED  BY <2>1 DEF Queue
<1>4. CASE kind = "SingleBounded"
  <2>1. d = SingleBounded  BY <1>4 DEF d, Discipline
  <2> QED  BY <2>1 DEF SingleBounded, Queue
<1>5. CASE kind = "MultiBounded"
  <2>1. d = MultiBounded  BY <1>5 DEF d, Discipline
  <2> QED  BY <2>1 DEF MultiBounded, Queue
<1>6. CASE kind = "StaticChannel"
  <2>1. d = StaticChannel  BY <1>6 DEF d, Discipline
  <2> QED  BY <2>1 DEF StaticChannel, Queue
<1>7. CASE kind = "Signal"
  <2>1. d = Signal  BY <1>7 DEF d, Discipline
  <2> QED  BY <2>1 DEF Signal, Queue
<1>8. CASE kind = "UnsafeSignal"
  <2>1. d = UnsafeSignal  BY <1>8 DEF d, Discipline
  <2> QED  BY <2>1 DEF UnsafeSignal, Signal, Queue
<1> QED  BY <1>1, <1>2, <1>3, <1>4, <1>5, <1>6, <1>7, <1>8

----------------------------------------------------------------------------
(* Sequences of values. *)

Ordered(q) == \A i, j \in 1..Len(q) : i < j /\ q[i][1] = q[j][1] => q[i][2] < q[j][2]

(* A value is a sender and a number, and none is the empty tuple. *)
LEMMA ValueFacts ==
  ASSUME NEW v \in Values
  PROVE  v[1] \in Senders /\ v[2] \in 1..MaxSends /\ v = <<v[1], v[2]>> /\ v # <<>>
  BY ConstantsAssumption DEF Values

(* Appending a value adds it to the elements, and keeps the order if it is newer
   than all that its sender has in the sequence. *)
LEMMA AppendFacts ==
  ASSUME NEW q \in Seq(Values), NEW v \in Values
  PROVE  /\ Append(q, v) \in Seq(Values) /\ Len(Append(q, v)) = Len(q) + 1
         /\ Elements(Append(q, v)) = Elements(q) \cup {v}
         /\ Ordered(q) /\ (\A w \in Elements(q) : w[1] = v[1] => w[2] < v[2])
               => Ordered(Append(q, v))
<1> DEFINE a == Append(q, v)  n == Len(q)
<1>1. /\ n \in Nat /\ a \in Seq(Values) /\ Len(a) = n + 1
      /\ \A i \in 1..n : a[i] = q[i]
      /\ a[n + 1] = v
  BY AppendProperties, LenProperties
<1> HIDE DEF a
<1>2. Elements(a) = Elements(q) \cup {v}
  BY <1>1 DEF Elements
<1>3. ASSUME Ordered(q), \A w \in Elements(q) : w[1] = v[1] => w[2] < v[2],
             NEW i \in 1..Len(a), NEW j \in 1..Len(a), i < j, a[i][1] = a[j][1]
      PROVE  a[i][2] < a[j][2]
  <2>1. i \in 1..n /\ a[i] = q[i]
    BY <1>1, <1>3
  <2>2. CASE j = n + 1
    BY <1>1, <1>3, <2>1, <2>2 DEF Elements
  <2>3. CASE j \in 1..n
    BY <1>1, <1>3, <2>1, <2>3 DEF Ordered
  <2> QED  BY <1>1, <2>2, <2>3
<1>4. Ordered(q) /\ (\A w \in Elements(q) : w[1] = v[1] => w[2] < v[2]) => Ordered(a)
  BY <1>3 DEF Ordered
<1> QED  BY <1>1, <1>2, <1>4 DEF a

(* A prefix of an ordered sequence is ordered and shares nothing with the rest. *)
LEMMA PrefixFacts ==
  ASSUME NEW q \in Seq(Values), NEW r \in Seq(Values)
  PROVE  /\ q \o r \in Seq(Values)
         /\ Elements(q \o r) = Elements(q) \cup Elements(r)
         /\ Ordered(q \o r) => Ordered(q) /\ Ordered(r) /\ Elements(q) \cap Elements(r) = {}
<1> DEFINE a == q \o r  m == Len(q)  n == Len(r)
<1>1. /\ m \in Nat /\ n \in Nat /\ a \in Seq(Values) /\ Len(a) = m + n
      /\ \A i \in 1..m : a[i] = q[i]
      /\ \A i \in 1..n : m + i \in 1..(m + n) /\ a[m + i] = r[i]
  <2>1. m \in Nat /\ n \in Nat  BY LenProperties
  <2>2. /\ a \in Seq(Values) /\ Len(a) = m + n
        /\ \A i \in 1..(m + n) : a[i] = IF i <= m THEN q[i] ELSE r[i - m]
    BY ConcatProperties
  <2> HIDE DEF a, m, n
  <2> QED  BY <2>1, <2>2
<1> HIDE DEF a
<1>2. Elements(a) = Elements(q) \cup Elements(r)
  <2>1. ASSUME NEW i \in 1..Len(a) PROVE a[i] \in Elements(q) \cup Elements(r)
    <3>1. CASE i <= m  BY <1>1, <3>1 DEF Elements
    <3>2. CASE i > m
      <4>1. i - m \in 1..n /\ i = m + (i - m)  BY <1>1, <3>2
      <4> QED  BY <1>1, <4>1 DEF Elements
    <3> QED  BY <1>1, <3>1, <3>2
  <2>2. \A i \in 1..m : q[i] \in Elements(a)
    BY <1>1 DEF Elements
  <2>3. \A i \in 1..n : r[i] \in Elements(a)
    BY <1>1 DEF Elements
  <2> QED  BY <2>1, <2>2, <2>3 DEF Elements
<1>3. ASSUME Ordered(a) PROVE Ordered(q) /\ Ordered(r) /\ Elements(q) \cap Elements(r) = {}
  <2>1. Ordered(q)
    BY <1>1, <1>3 DEF Ordered
  <2>2. Ordered(r)
    <3> SUFFICES ASSUME NEW i \in 1..n, NEW j \in 1..n, i < j, r[i][1] = r[j][1]
                 PROVE  r[i][2] < r[j][2]
      BY DEF Ordered
    <3>1. /\ m + i \in 1..Len(a) /\ m + j \in 1..Len(a) /\ m + i < m + j
          /\ a[m + i] = r[i] /\ a[m + j] = r[j]
      BY <1>1
    <3> HIDE DEF m, n
    <3> QED  BY <1>3, <3>1 DEF Ordered
  <2>3. ASSUME NEW i \in 1..m, NEW j \in 1..n, q[i] = r[j] PROVE FALSE
    <3>1. i \in 1..Len(a) /\ m + j \in 1..Len(a) /\ i < m + j /\ a[i] = q[i] /\ a[m + j] = q[i]
      BY <1>1, <2>3
    <3>2. q[i][2] < q[i][2]
      BY <1>3, <3>1 DEF Ordered
    <3>3. q[i] \in Values  BY ElementOfSeq
    <3> QED  BY <3>2, <3>3, ValueFacts, ConstantsAssumption
  <2> QED  BY <2>1, <2>2, <2>3 DEF Elements
<1> QED  BY <1>1, <1>2, <1>3 DEF a

----------------------------------------------------------------------------
(* What the channel has delivered or still holds, in the order of sending. *)
All == taken \o store

(* The values that sending futures hold, and those that were given to send(). *)
InFutures == {future[s] : s \in Senders} \ {<<>>}
Begun == {v \in Values : v[2] <= sent[v[1]]}

(* A sending future holds the last value of its sender. *)
FutureIsLast == \A s \in Senders : future[s] # <<>> => future[s] = <<s, sent[s]>>

(* The values begun are split between the channel and its receivers, the sending
   futures, and the lost ones. *)
Partition ==
    /\ Elements(All) \cup InFutures \cup lost = Begun
    /\ Elements(All) \cap InFutures = {}
    /\ Elements(All) \cap lost = {}
    /\ InFutures \cap lost = {}

(* At most one poll is between looking and taking, and only UnsafeSignal's. *)
OneLooks ==
    /\ looking # {} => d.twoStep
    /\ \A a, b \in looking : a = b

IInv == TypeOK /\ OneLooks /\ FutureIsLast /\ Partition /\ Ordered(All)

(* Storing a value, by overwriting the slot or by a push: the value is at the
   end of what receivers will have got, and nothing but overwritten values is
   lost. *)
LEMMA StoredFacts ==
  ASSUME TypeOK, Ordered(All), Elements(All) \cap lost = {}, NEW v \in Values,
         v \notin lost, \A w \in Elements(All) : w[1] = v[1] => w[2] < v[2],
         Stored(v), UNCHANGED <<kind, taken>>
  PROVE  /\ store' \in Seq(Values) /\ store' # <<>> /\ lost' \subseteq Values
         /\ d.slot => Len(store') <= 1
         /\ d.bound > 0 => Len(store') <= d.bound
         /\ Ordered(All')
         /\ Elements(All') \cup lost' = Elements(All) \cup lost \cup {v}
         /\ Elements(All') \cap lost' = {}
<1>0. /\ store \in Seq(Values) /\ taken \in Seq(Values) /\ lost \subseteq Values
      /\ kind \in Kinds /\ d.bound \in Nat /\ taken' = taken
  BY DisciplineFacts DEF TypeOK
<1>1. v \notin Elements(All)
  BY ValueFacts, ConstantsAssumption
<1>2. /\ Elements(All) = Elements(taken) \cup Elements(store)
      /\ Elements(taken) \cap Elements(store) = {}
      /\ Ordered(taken) /\ All \in Seq(Values)
  BY <1>0, PrefixFacts DEF All
<1>3. CASE d.slot
  <2>1. store' = <<v>> /\ lost' = lost \cup Elements(store)
    BY <1>3 DEF Stored
  <2>2. All' = Append(taken, v)
    BY <1>0, <2>1, AppendIsConcat DEF All
  <2>3. Elements(All') = Elements(taken) \cup {v} /\ Ordered(All')
    BY <1>0, <1>2, <2>2, AppendFacts
  <2>4. Elements(store) \subseteq Values
    BY <1>0, ElementOfSeq DEF Elements
  <2>5. store' \in Seq(Values) /\ store' # <<>> /\ Len(store') = 1
    BY <2>1
  <2>6. d.bound > 0 => Len(store') <= d.bound
    BY <1>0, <2>5
  <2> QED  BY <1>0, <1>1, <1>2, <2>1, <2>3, <2>4, <2>5, <2>6
<1>4. CASE ~d.slot
  <2>1. store' = Append(store, v) /\ lost' = lost /\ HasRoom
    BY <1>4 DEF Stored
  <2>2. Append(store, v) = store \o <<v>> /\ Append(All, v) = All \o <<v>> /\ <<v>> \in Seq(Values)
    BY <1>0, <1>2, AppendIsConcat
  <2>3. All' = Append(All, v)
    BY <1>0, <2>1, <2>2, ConcatAssociative DEF All
  <2>4. Elements(All') = Elements(All) \cup {v} /\ Ordered(All')
    BY <1>2, <2>3, AppendFacts
  <2>5. store' \in Seq(Values) /\ Len(store') = Len(store) + 1 /\ store' # <<>>
    BY <1>0, <2>1, AppendProperties
  <2>6. d.bound > 0 => Len(store') <= d.bound
    BY <1>0, <2>1, <2>5, LenProperties DEF HasRoom
  <2> QED  BY <1>0, <1>1, <1>4, <2>1, <2>4, <2>5, <2>6
<1> QED  BY <1>3, <1>4

(* Taking the oldest value moves it from the channel to the receivers. *)
LEMMA TakeFacts ==
  ASSUME NEW q \in Seq(Values), NEW r \in Seq(Values), r # <<>>
  PROVE  /\ Append(q, Head(r)) \o Tail(r) = q \o r
         /\ Append(q, Head(r)) \in Seq(Values) /\ Tail(r) \in Seq(Values)
         /\ Len(Tail(r)) = Len(r) - 1 /\ Len(r) \in Nat
<1>1. /\ Head(r) \in Values /\ Tail(r) \in Seq(Values) /\ Len(Tail(r)) = Len(r) - 1
      /\ Len(r) \in Nat /\ <<Head(r)>> \in Seq(Values)
  BY HeadTailProperties, LenProperties
<1>2. Append(q, Head(r)) = q \o <<Head(r)>> /\ Append(q, Head(r)) \in Seq(Values)
  BY <1>1, AppendIsConcat, AppendProperties
<1>3. r = <<Head(r)>> \o Tail(r)
  BY <1>1
<1>4. (q \o <<Head(r)>>) \o Tail(r) = q \o (<<Head(r)>> \o Tail(r))
  BY <1>1, ConcatAssociative
<1> QED  BY <1>1, <1>2, <1>3, <1>4

(* A value that is about to be sent is new: its number follows all that its
   sender has in the channel, and it is neither lost nor in a future. *)
LEMMA BeginFacts ==
  ASSUME IInv, NEW s \in Senders, Begin(s)
  PROVE  /\ NextValue(s) \in Values
         /\ sent' \in [Senders -> 0..MaxSends]
         /\ sent[s] \in 0..MaxSends /\ sent'[s] = sent[s] + 1
         /\ Begun' = Begun \cup {NextValue(s)} /\ NextValue(s) \notin Begun
         /\ \A w \in Begun : w[1] = s => w[2] < NextValue(s)[2]
         /\ future[s] = <<>>
<1>1. sent \in [Senders -> 0..MaxSends] /\ sent[s] < MaxSends /\ future[s] = <<>>
      /\ sent' = [sent EXCEPT ![s] = @ + 1]
  BY ConstantsAssumption DEF IInv, TypeOK, Begin
<1>2. sent[s] \in Nat /\ sent[s] + 1 \in 1..MaxSends
  BY <1>1, ConstantsAssumption
<1>3. NextValue(s) \in Values /\ NextValue(s)[1] = s /\ NextValue(s)[2] = sent[s] + 1
  BY <1>2 DEF NextValue, Values
<1>4. sent' \in [Senders -> 0..MaxSends] /\ sent'[s] = sent[s] + 1
  BY <1>1, <1>2
<1>5. ASSUME NEW w \in Values PROVE w \in Begun' <=> w \in Begun \/ w = NextValue(s)
  <2>1. w[1] \in Senders /\ w[2] \in 1..MaxSends /\ w = <<w[1], w[2]>>
    BY ValueFacts
  <2>2. CASE w[1] # s
    BY <1>1, <1>3, <2>1, <2>2 DEF Begun
  <2>3. CASE w[1] = s
    <3>1. w \in Begun' <=> w[2] <= sent[s] + 1
      BY <1>4, <2>3 DEF Begun
    <3>2. w \in Begun <=> w[2] <= sent[s]
      BY <2>3 DEF Begun
    <3>3. w = NextValue(s) <=> w[2] = sent[s] + 1
      BY <2>1, <2>3 DEF NextValue
    <3> QED  BY <1>2, <2>1, <3>1, <3>2, <3>3, ConstantsAssumption
  <2> QED  BY <2>2, <2>3
<1>6. Begun' = Begun \cup {NextValue(s)}
  BY <1>3, <1>5 DEF Begun
<1>7. \A w \in Begun : w[1] = s => w[2] < NextValue(s)[2]
  BY <1>2, <1>3, ValueFacts, ConstantsAssumption DEF Begun
<1>8. NextValue(s) \notin Begun
  BY <1>2, <1>3 DEF Begun
<1> QED  BY <1>1, <1>2, <1>3, <1>4, <1>6, <1>7, <1>8

(* send(), signal() and try_send() preserve the invariant. *)
LEMMA SendInv ==
  ASSUME IInv, NEW s \in Senders, Begin(s), Stored(NextValue(s)),
         UNCHANGED <<kind, future, looking, gone, taken>>
  PROVE  IInv'
<1> DEFINE v == NextValue(s)
<1>0. Elements(All) \subseteq Begun /\ lost \subseteq Begun /\ InFutures \subseteq Begun
  BY DEF IInv, Partition
<1>1. /\ v \in Values /\ v \notin Begun /\ Begun' = Begun \cup {v}
      /\ \A w \in Begun : w[1] = s => w[2] < v[2]
      /\ sent' \in [Senders -> 0..MaxSends] /\ future[s] = <<>>
  BY BeginFacts
<1>2. v[1] = s
  BY DEF NextValue
<1> HIDE DEF v
<1>3. /\ store' \in Seq(Values) /\ store' # <<>> /\ lost' \subseteq Values
      /\ d.slot => Len(store') <= 1
      /\ d.bound > 0 => Len(store') <= d.bound
      /\ Ordered(All')
      /\ Elements(All') \cup lost' = Elements(All) \cup lost \cup {v}
      /\ Elements(All') \cap lost' = {}
  <2>1. Stored(v)  BY DEF v
  <2> QED  BY <1>0, <1>1, <1>2, <2>1, StoredFacts DEF IInv, Partition
<1>4. d' = d /\ InFutures' = InFutures
  BY DEF d, InFutures
<1>5. TypeOK'
  BY <1>1, <1>3, <1>4 DEF IInv, TypeOK
<1>6. OneLooks'
  BY <1>3, <1>4 DEF IInv, OneLooks
<1>7. FutureIsLast'
  <2> SUFFICES ASSUME NEW e \in Senders, future[e] # <<>> PROVE future[e] = <<e, sent'[e]>>
    BY DEF FutureIsLast
  <2>1. e # s  BY <1>1
  <2>2. sent'[e] = sent[e]  BY <2>1 DEF Begin, IInv, TypeOK
  <2> QED  BY <2>2 DEF IInv, FutureIsLast
<1>8. Partition'
  BY <1>0, <1>1, <1>3, <1>4 DEF IInv, Partition
<1> QED  BY <1>3, <1>5, <1>6, <1>7, <1>8 DEF IInv

(* Creating a sending future preserves it. *)
LEMMA SendFutureInv == ASSUME IInv, NEW s \in Senders, SendFuture(s) PROVE IInv'
<1> DEFINE v == NextValue(s)
<1>0. /\ Begin(s) /\ future' = [future EXCEPT ![s] = v]
      /\ UNCHANGED <<kind, store, looking, gone, taken, lost>>
  BY DEF SendFuture
<1>1. /\ v \in Values /\ v \notin Begun /\ Begun' = Begun \cup {v}
      /\ sent' \in [Senders -> 0..MaxSends] /\ future[s] = <<>> /\ sent'[s] = sent[s] + 1
  BY <1>0, BeginFacts
<1>2. v # <<>> /\ v = <<s, sent'[s]>>
  BY <1>1, ValueFacts DEF NextValue
<1> HIDE DEF v
<1>3. d' = d /\ All' = All /\ lost' = lost
  BY <1>0 DEF d, All
<1>4. InFutures' = InFutures \cup {v}
  <2>1. \A e \in Senders : future'[e] = IF e = s THEN v ELSE future[e]
    BY <1>0 DEF IInv, TypeOK
  <2> QED  BY <1>1, <1>2, <2>1 DEF InFutures
<1>5. TypeOK'
  BY <1>0, <1>1, <1>3 DEF IInv, TypeOK
<1>6. OneLooks'
  BY <1>0, <1>3 DEF IInv, OneLooks
<1>7. FutureIsLast'
  <2> SUFFICES ASSUME NEW e \in Senders, future'[e] # <<>> PROVE future'[e] = <<e, sent'[e]>>
    BY DEF FutureIsLast
  <2>1. CASE e = s  BY <1>0, <1>2, <2>1 DEF IInv, TypeOK
  <2>2. CASE e # s
    <3>1. sent'[e] = sent[e] /\ future'[e] = future[e]
      BY <1>0, <2>2 DEF Begin, IInv, TypeOK
    <3> QED  BY <3>1 DEF IInv, FutureIsLast
  <2> QED  BY <2>1, <2>2
<1>8. Partition'
  BY <1>1, <1>3, <1>4 DEF IInv, Partition
<1> QED  BY <1>3, <1>5, <1>6, <1>7, <1>8 DEF IInv

(* A future that is polled with success or dropped gives its value up, which no
   other future holds. *)
LEMMA FutureEnds ==
  ASSUME IInv, NEW s \in Senders, future[s] # <<>>, future' = [future EXCEPT ![s] = <<>>],
         UNCHANGED sent
  PROVE  /\ future' \in [Senders -> Values \cup {<<>>}]
         /\ future[s] \in Values /\ future[s] = <<s, sent[s]>> /\ future[s] \in InFutures
         /\ InFutures' = InFutures \ {future[s]}
         /\ FutureIsLast' /\ Begun' = Begun
<1>1. future \in [Senders -> Values \cup {<<>>}]
  BY DEF IInv, TypeOK
<1>2. \A e \in Senders : future'[e] = IF e = s THEN <<>> ELSE future[e]
  BY <1>1
<1>3. FutureIsLast'
  BY <1>2 DEF IInv, FutureIsLast
<1>4. \A e \in Senders : e # s /\ future[e] # <<>> => future[e] # future[s]
  BY DEF IInv, FutureIsLast
<1>5. InFutures' = InFutures \ {future[s]}
  BY <1>2, <1>4 DEF InFutures
<1>6. future[s] \in Values /\ future[s] = <<s, sent[s]>> /\ future[s] \in InFutures
  BY <1>1 DEF IInv, FutureIsLast, InFutures
<1> QED  BY <1>1, <1>3, <1>5, <1>6 DEF Begun

(* A poll of a sending future that gets its value in preserves the invariant. *)
LEMMA PollSendInv == ASSUME IInv, NEW s \in Senders, PollSend(s) PROVE IInv'
<1> DEFINE v == future[s]
<1>0. /\ v # <<>> /\ Stored(v) /\ future' = [future EXCEPT ![s] = <<>>]
      /\ UNCHANGED <<kind, sent, looking, gone, taken>>
  BY DEF PollSend
<1>1. /\ future' \in [Senders -> Values \cup {<<>>}]
      /\ v \in Values /\ v = <<s, sent[s]>> /\ v \in InFutures
      /\ InFutures' = InFutures \ {v} /\ FutureIsLast' /\ Begun' = Begun
  BY <1>0, FutureEnds
<1>2. v[1] = s /\ v[2] = sent[s] /\ sent[s] \in Nat
  BY <1>1, ConstantsAssumption DEF IInv, TypeOK
<1> HIDE DEF v
<1>3. v \notin lost /\ v \notin Elements(All)
  BY <1>1 DEF IInv, Partition
<1>4. ASSUME NEW w \in Elements(All), w[1] = v[1] PROVE w[2] < v[2]
  <2>1. w \in Values /\ w[2] <= sent[s] /\ w # v
    BY <1>2, <1>3, <1>4 DEF IInv, Partition, Begun
  <2>2. w[2] \in Nat /\ w = <<w[1], w[2]>>
    BY <2>1, ValueFacts, ConstantsAssumption
  <2>3. w[2] # sent[s]
    BY <1>1, <1>2, <1>4, <2>1, <2>2
  <2> QED  BY <1>2, <2>1, <2>2, <2>3
<1>5. /\ store' \in Seq(Values) /\ store' # <<>> /\ lost' \subseteq Values
      /\ d.slot => Len(store') <= 1
      /\ d.bound > 0 => Len(store') <= d.bound
      /\ Ordered(All')
      /\ Elements(All') \cup lost' = Elements(All) \cup lost \cup {v}
      /\ Elements(All') \cap lost' = {}
  BY <1>0, <1>1, <1>3, <1>4, StoredFacts DEF IInv, Partition
<1>6. d' = d
  BY <1>0 DEF d
<1>7. TypeOK'
  BY <1>0, <1>1, <1>5, <1>6 DEF IInv, TypeOK
<1>8. OneLooks'
  BY <1>0, <1>5, <1>6 DEF IInv, OneLooks
<1>9. Partition'
  BY <1>1, <1>5 DEF IInv, Partition
<1> QED  BY <1>1, <1>5, <1>7, <1>8, <1>9 DEF IInv

(* So does dropping the future: its value is lost, and no other. *)
LEMMA DropSendInv == ASSUME IInv, NEW s \in Senders, DropSend(s) PROVE IInv'
<1> DEFINE v == future[s]
<1>0. /\ v # <<>> /\ future' = [future EXCEPT ![s] = <<>>] /\ lost' = lost \cup {v}
      /\ UNCHANGED <<kind, store, sent, looking, gone, taken>>
  BY DEF DropSend
<1>1. /\ future' \in [Senders -> Values \cup {<<>>}]
      /\ v \in Values /\ v \in InFutures
      /\ InFutures' = InFutures \ {v} /\ FutureIsLast' /\ Begun' = Begun
  BY <1>0, FutureEnds
<1> HIDE DEF v
<1>2. d' = d /\ All' = All
  BY <1>0 DEF d, All
<1>3. TypeOK'
  BY <1>0, <1>1, <1>2 DEF IInv, TypeOK
<1>4. OneLooks'
  BY <1>0, <1>2 DEF IInv, OneLooks
<1>5. Partition'
  BY <1>0, <1>1, <1>2 DEF IInv, Partition
<1> QED  BY <1>1, <1>2, <1>3, <1>4, <1>5 DEF IInv

(* A poll of a receiver preserves the invariant: what it moves stays in place
   in the order, and what UnsafeSignal's poll has seen nobody else takes. *)
LEMMA PollInv == ASSUME IInv, NEW r \in Receivers, Poll(r) PROVE IInv'
<1>0. kind \in Kinds /\ store \in Seq(Values) /\ taken \in Seq(Values) /\ d.bound \in Nat
  BY DisciplineFacts DEF IInv, TypeOK
<1>1. CASE Look(r)
  <2> USE <1>1 DEF Look
  <2>1. d' = d /\ All' = All /\ InFutures' = InFutures /\ Begun' = Begun
    BY DEF d, All, InFutures, Begun
  <2>2. TypeOK'
    BY <2>1 DEF IInv, TypeOK
  <2>3. OneLooks'
    BY <2>1 DEF IInv, OneLooks
  <2>4. FutureIsLast' /\ Partition'
    BY <2>1 DEF IInv, FutureIsLast, Partition
  <2> QED  BY <2>1, <2>2, <2>3, <2>4 DEF IInv
<1>2. CASE Recv(r) \/ Take(r)
  <2>1. /\ store # <<>> /\ taken' = Append(taken, Head(store)) /\ store' = Tail(store)
        /\ UNCHANGED <<kind, sent, future, gone, lost>>
    BY <1>2 DEF Recv, Take
  <2>2. /\ Append(taken, Head(store)) \o Tail(store) = taken \o store
        /\ taken' \in Seq(Values) /\ store' \in Seq(Values)
        /\ Len(store') = Len(store) - 1 /\ Len(store) \in Nat
    BY <1>0, <2>1, TakeFacts
  <2>3. d' = d /\ All' = All /\ InFutures' = InFutures /\ Begun' = Begun
    BY <2>1, <2>2 DEF d, All, InFutures, Begun
  <2>4. looking' = {}
    <3>1. CASE Recv(r)  BY <3>1 DEF Recv, IInv, OneLooks
    <3>2. CASE Take(r)  BY <3>2 DEF Take, IInv, OneLooks
    <3> QED  BY <1>2, <3>1, <3>2
  <2>5. (d.slot => Len(store') <= 1) /\ (d.bound > 0 => Len(store') <= d.bound)
    BY <1>0, <2>2 DEF IInv, TypeOK
  <2>6. TypeOK'
    BY <2>1, <2>2, <2>3, <2>4, <2>5 DEF IInv, TypeOK
  <2>7. OneLooks'
    BY <2>4 DEF OneLooks
  <2>8. FutureIsLast' /\ Partition'
    BY <2>1, <2>3 DEF IInv, FutureIsLast, Partition
  <2> QED  BY <2>3, <2>6, <2>7, <2>8 DEF IInv
<1> QED  BY <1>1, <1>2 DEF Poll

(* So does dropping a receiver: where it owns the storage, what is in it is lost. *)
LEMMA DropReceiverInv == ASSUME IInv, NEW r \in Receivers, DropReceiver(r) PROVE IInv'
<1>0. /\ kind \in Kinds /\ store \in Seq(Values) /\ taken \in Seq(Values) /\ lost \subseteq Values
      /\ d.bound \in Nat /\ (d.twoStep => ~d.owned)
  BY DisciplineFacts DEF IInv, TypeOK
<1>1. gone' = gone \cup {r} /\ UNCHANGED <<kind, sent, future, looking, taken>>
  BY DEF DropReceiver
<1>2. d' = d /\ InFutures' = InFutures /\ Begun' = Begun
  BY <1>1 DEF d, InFutures, Begun
<1>3. CASE ~d.owned
  <2>1. UNCHANGED <<store, lost>>
    BY <1>3 DEF DropReceiver
  <2>2. All' = All
    BY <1>1, <2>1 DEF All
  <2>3. TypeOK'
    BY <1>1, <1>2, <2>1 DEF IInv, TypeOK
  <2>4. OneLooks'
    BY <1>1, <1>2, <2>1 DEF IInv, OneLooks
  <2>5. FutureIsLast' /\ Partition'
    BY <1>1, <1>2, <2>1, <2>2 DEF IInv, FutureIsLast, Partition
  <2> QED  BY <2>2, <2>3, <2>4, <2>5 DEF IInv
<1>4. CASE d.owned
  <2>1. store' = <<>> /\ lost' = lost \cup Elements(store)
    BY <1>4 DEF DropReceiver
  <2>2. /\ Elements(All) = Elements(taken) \cup Elements(store)
        /\ Elements(taken) \cap Elements(store) = {}
        /\ Ordered(taken)
    BY <1>0, PrefixFacts DEF IInv, All
  <2>3. All' = taken
    BY <1>0, <1>1, <2>1, ConcatEmptySeq DEF All
  <2>4. Elements(store) \subseteq Values /\ store' \in Seq(Values) /\ Len(store') = 0
    BY <1>0, <2>1, ElementOfSeq, EmptySeq DEF Elements
  <2>5. TypeOK'
    BY <1>0, <1>1, <1>2, <2>1, <2>4 DEF IInv, TypeOK
  <2>6. OneLooks'
    BY <1>0, <1>1, <1>2, <1>4 DEF IInv, OneLooks
  <2>7. FutureIsLast' /\ Partition'
    BY <1>1, <1>2, <2>1, <2>2, <2>3 DEF IInv, FutureIsLast, Partition
  <2> QED  BY <2>2, <2>3, <2>5, <2>6, <2>7 DEF IInv
<1> QED  BY <1>3, <1>4

----------------------------------------------------------------------------
(* A new channel satisfies the invariant. *)
LEMMA InitInv == Init => IInv
<1> SUFFICES ASSUME Init PROVE IInv
  OBVIOUS
<1> USE DEF Init
<1>0. /\ kind \in Kinds /\ d.bound \in Nat /\ <<>> \in Seq(Values) /\ Len(<<>>) = 0
      /\ 0 \in 0..MaxSends
  BY DisciplineFacts, EmptySeq, ConstantsAssumption
<1>1. TypeOK
  BY <1>0 DEF TypeOK
<1>2. OneLooks /\ FutureIsLast
  BY DEF OneLooks, FutureIsLast
<1>3. All = <<>>
  BY <1>0, ConcatEmptySeq DEF All
<1>4. Elements(All) = {} /\ Ordered(All)
  BY <1>0, <1>3 DEF Elements, Ordered
<1>5. InFutures = {}
  BY DEF InFutures
<1>6. Begun = {}
  <2> SUFFICES ASSUME NEW v \in Values, v[2] <= sent[v[1]] PROVE FALSE
    BY DEF Begun
  <2> QED  BY ValueFacts, ConstantsAssumption
<1>7. Partition
  BY <1>4, <1>5, <1>6 DEF Partition
<1> QED  BY <1>1, <1>2, <1>4, <1>7 DEF IInv

(* Every step of a sender, a receiver or an interrupt handler preserves it. *)
LEMMA NextInv == IInv /\ [Next]_vars => IInv'
<1> SUFFICES ASSUME IInv, [Next]_vars PROVE IInv'
  OBVIOUS
<1>1. CASE UNCHANGED vars
  <2> USE <1>1 DEF vars
  <2>1. d' = d /\ All' = All /\ InFutures' = InFutures /\ Begun' = Begun
    BY DEF d, All, InFutures, Begun
  <2> QED  BY <2>1 DEF IInv, TypeOK, OneLooks, FutureIsLast, Partition
<1>2. ASSUME NEW s \in Senders, Send(s) \/ TrySend(s) PROVE IInv'
  BY <1>2, SendInv DEF Send, TrySend
<1>3. ASSUME NEW s \in Senders, SendFuture(s) PROVE IInv'
  BY <1>3, SendFutureInv
<1>4. ASSUME NEW s \in Senders, PollSend(s) PROVE IInv'
  BY <1>4, PollSendInv
<1>5. ASSUME NEW s \in Senders, DropSend(s) PROVE IInv'
  BY <1>5, DropSendInv
<1>6. ASSUME NEW r \in Receivers, Poll(r) PROVE IInv'
  BY <1>6, PollInv
<1>7. ASSUME NEW r \in Receivers, DropReceiver(r) PROVE IInv'
  BY <1>7, DropReceiverInv
<1> QED  BY <1>1, <1>2, <1>3, <1>4, <1>5, <1>6, <1>7 DEF Next

(* The invariant holds of every behaviour of every channel. *)
THEOREM Invariance == Spec => []IInv
  BY InitInv, NextInv, PTL DEF Spec

(* Every variable keeps its type and no push is taken beyond the bound. *)
THEOREM TypeCorrect == Spec => []TypeOK
<1>1. IInv => TypeOK
  BY DEF IInv
<1> QED  BY <1>1, Invariance, PTL

(* The values of one sender are received in the order they were sent. *)
THEOREM OrderKept == Spec => []SenderOrder
<1>1. IInv => SenderOrder
  BY DEF IInv, Ordered, All, SenderOrder
<1> QED  BY <1>1, Invariance, PTL

(* In an ordered sequence a value occurs once or not at all. *)
LEMMA OccursOnce ==
  ASSUME NEW q \in Seq(Values), Ordered(q), NEW v \in Values
  PROVE  Occurrences(v, q) = IF v \in Elements(q) THEN 1 ELSE 0
<1> DEFINE I == {i \in 1..Len(q) : q[i] = v}
<1>1. CASE v \notin Elements(q)
  <2>1. I = {}  BY <1>1 DEF Elements
  <2> QED  BY <1>1, <2>1, FS_EmptySet DEF Occurrences
<1>2. CASE v \in Elements(q)
  <2>1. PICK i \in 1..Len(q) : q[i] = v
    BY <1>2 DEF Elements
  <2>2. ASSUME NEW j \in 1..Len(q), q[j] = v PROVE j = i
    <3>1. v[2] \in Nat /\ ~(v[2] < v[2])
      BY ValueFacts, ConstantsAssumption
    <3>2. ~(i < j) /\ ~(j < i)
      BY <2>1, <2>2, <3>1 DEF Ordered
    <3> QED  BY <3>2, LenProperties
  <2>3. I = {i}
    BY <2>1, <2>2
  <2> HIDE DEF I
  <2>4. Cardinality(I) = 1
    BY <2>3, FS_Singleton
  <2> QED  BY <1>2, <2>4 DEF Occurrences, I
<1> QED  BY <1>1, <1>2

(* Every value given to a channel is in exactly one place: with the future that
   retries it, in the channel, with one receiver, or lost with the slot, the
   future or the storage it was in. *)
THEOREM DeliveredOnce == Spec => []ExactlyOnce
<1>1. IInv => ExactlyOnce
  <2> SUFFICES ASSUME IInv, NEW s \in Senders, NEW k \in 1..sent[s]
               PROVE  LET v == <<s, k>> IN
                      Occurrences(v, store) + Occurrences(v, taken)
                        + (IF future[s] = v THEN 1 ELSE 0) + (IF v \in lost THEN 1 ELSE 0) = 1
    BY DEF ExactlyOnce
  <2> DEFINE v == <<s, k>>
  <2>1. v \in Begun /\ v \in Values
    BY ConstantsAssumption DEF IInv, TypeOK, Begun, Values
  <2>2. future[s] = v <=> v \in InFutures
    <3>1. ASSUME NEW e \in Senders, future[e] = v PROVE e = s
      BY <2>1, <3>1, ValueFacts DEF IInv, FutureIsLast
    <3> QED  BY <2>1, <3>1, ValueFacts DEF InFutures
  <2>3. store \in Seq(Values) /\ taken \in Seq(Values)
    BY DEF IInv, TypeOK
  <2>4. /\ Elements(All) = Elements(taken) \cup Elements(store)
        /\ Elements(taken) \cap Elements(store) = {}
        /\ Ordered(taken) /\ Ordered(store)
    BY <2>3, PrefixFacts DEF IInv, All
  <2> HIDE DEF v
  <2>5. /\ Occurrences(v, store) = IF v \in Elements(store) THEN 1 ELSE 0
        /\ Occurrences(v, taken) = IF v \in Elements(taken) THEN 1 ELSE 0
    BY <2>1, <2>3, <2>4, OccursOnce
  <2>6. \/ v \in Elements(store) /\ v \notin Elements(taken) /\ v \notin InFutures /\ v \notin lost
        \/ v \notin Elements(store) /\ v \in Elements(taken) /\ v \notin InFutures /\ v \notin lost
        \/ v \notin Elements(store) /\ v \notin Elements(taken) /\ v \in InFutures /\ v \notin lost
        \/ v \notin Elements(store) /\ v \notin Elements(taken) /\ v \notin InFutures /\ v \in lost
    BY <2>1, <2>4 DEF IInv, Partition
  <2>7. Occurrences(v, store) + Occurrences(v, taken)
           + (IF future[s] = v THEN 1 ELSE 0) + (IF v \in lost THEN 1 ELSE 0) = 1
    BY <2>2, <2>5, <2>6
  <2> QED  BY <2>7 DEF v
<1> QED  BY <1>1, Invariance, PTL
=============================================================================
