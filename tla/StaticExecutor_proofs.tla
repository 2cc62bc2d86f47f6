------------------------ MODULE StaticExecutor_proofs ------------------------
(***************************************************************************)
(* A future whose waker nobody calls is polled by one core at a time and   *)
(* never after it has returned Ready, for any number of cores, tasks,      *)
(* adds, duplicated queue entries and wake-ups of other tasks.             *)
(***************************************************************************)
EXTENDS StaticExecutor, SequenceTheorems, FiniteSetTheorems, TLAPS

Quiet == Tasks \ Wakeable

(* A core inside a quiet future has claimed it: the state stays Running from
   the compare-exchange until that same core stores what came of the poll. *)
PollIsRunning == \A c \in Cores, t \in Quiet : Polling(c, t) => state[t] = "Running"

(* A quiet future that returned Ready is Unreachable, or about to be. *)
DoneIsFinal ==
    \A t \in Quiet : done[t] =>
        \/ state[t] = "Unreachable"
        \/ \E c \in Cores : pc[c] = "finish" /\ hand[c] = t

(* The inductive invariant: who polls holds Running, so Ready -> Running can be
   won by no second core, and nothing makes a finished task Ready again. *)
IInv == TypeOK /\ PollIsRunning /\ QuietExclusive /\ DoneIsFinal

(* Removing an entry at either end of a queue leaves a shorter queue. *)
LEMMA EndsRemoved ==
  ASSUME NEW S, NEW q \in Seq(S), q # <<>>
  PROVE  /\ q[1] \in S /\ q[Len(q)] \in S
         /\ SubSeq(q, 1, Len(q) - 1) \in Seq(S) /\ Len(SubSeq(q, 1, Len(q) - 1)) = Len(q) - 1
         /\ SubSeq(q, 2, Len(q)) \in Seq(S) /\ Len(SubSeq(q, 2, Len(q))) = Len(q) - 1
<1>1. Len(q) \in Nat /\ Len(q) >= 1 /\ \A i \in 1..Len(q) : q[i] \in S
  BY EmptySeq, ElementOfSeq, LenProperties
<1> DEFINE n == Len(q)  m == n - 1
<1>2. n \in Int /\ m \in Int /\ 1 \in Int /\ 2 \in Int
  BY <1>1
<1>3. \A i \in 1..m : q[i] \in S
  BY <1>1
<1>4. \A i \in 2..n : q[i] \in S
  BY <1>1
<1>5. q[1] \in S /\ q[n] \in S /\ 1 <= n
  BY <1>1
<1> HIDE DEF m, n
<1>6. SubSeq(q, 1, m) \in Seq(S) /\ Len(SubSeq(q, 1, m)) = IF 1 <= m THEN m - 1 + 1 ELSE 0
  BY <1>2, <1>3, SubSeqProperties
<1>7. SubSeq(q, 2, n) \in Seq(S) /\ Len(SubSeq(q, 2, n)) = IF 2 <= n THEN n - 2 + 1 ELSE 0
  BY <1>2, <1>4, SubSeqProperties
<1>8. Len(SubSeq(q, 1, m)) = m /\ Len(SubSeq(q, 2, n)) = m
  BY <1>2, <1>5, <1>6, <1>7 DEF m
<1> QED  BY <1>5, <1>6, <1>7, <1>8 DEF m, n

(* A push leaves queues of pointers, none longer than QUEUE_SIZE. *)
LEMMA PushedType ==
  ASSUME TypeOK, NEW c \in Cores, NEW t \in Tasks
  PROVE  /\ Pushed(c, t) \in [Cores -> Seq(Tasks)]
         /\ \A e \in Cores : Len(Pushed(c, t)[e]) <= QueueSize
<1> DEFINE q == queue[c]
<1>1. q \in Seq(Tasks) /\ Len(q) \in Nat /\ Len(q) <= QueueSize /\ QueueSize \in Nat
  BY LenProperties, ConstantsAssumption DEF TypeOK
<1>2. Append(q, t) \in Seq(Tasks) /\ Len(Append(q, t)) = Len(q) + 1
  BY <1>1, AppendProperties
<1> DEFINE new == IF Len(q) < QueueSize THEN Append(q, t) ELSE q
<1>3. new \in Seq(Tasks) /\ Len(new) <= QueueSize
  BY <1>1, <1>2
<1>4. Pushed(c, t) = [queue EXCEPT ![c] = new]
  BY DEF Pushed
<1> HIDE DEF new
<1> QED  BY <1>3, <1>4 DEF TypeOK

(* The empty pool satisfies the invariant. *)
LEMMA InitInv == Init => IInv
<1> SUFFICES ASSUME Init PROVE IInv
  OBVIOUS
<1> USE DEF Init
<1>0. <<>> \in Seq(Tasks) /\ Len(<<>>) = 0
  BY EmptySeq
<1>1. TypeOK
  BY <1>0, ConstantsAssumption DEF TypeOK, States, Locations, Actors
<1>2. PollIsRunning /\ QuietExclusive /\ DoneIsFinal
  BY DEF PollIsRunning, QuietExclusive, Exclusive, DoneIsFinal, Polling, Quiet, Actors
<1> QED  BY <1>1, <1>2 DEF IInv

(* The type invariant survives every step of a core. *)
LEMMA RunType == ASSUME TypeOK, NEW c \in Cores, Run(c) PROVE TypeOK'
<1> USE ConstantsAssumption DEF Goto, Actors, Locations, States
<1>0. c \in Actors /\ hand[c] \in Tasks \cup {NoTask}
  BY DEF TypeOK
<1>1. CASE AddPush(c)
  <2>1. hand[c] \in Tasks  BY <1>1 DEF AddPush, TypeOK
  <2> QED  BY <1>1, <2>1, PushedType DEF AddPush, TypeOK
<1>2. CASE Pop(c)
  <2>1. queue[c] \in Seq(Tasks) /\ queue[c] # <<>>
    BY <1>2 DEF Pop, TypeOK
  <2> DEFINE q == queue[c]  new == SubSeq(q, 1, Len(q) - 1)  t == q[Len(q)]
  <2>2. t \in Tasks /\ new \in Seq(Tasks) /\ Len(new) <= QueueSize
    BY <2>1, EndsRemoved, LenProperties DEF TypeOK
  <2>3. queue' = [queue EXCEPT ![c] = new] /\ Goto(c, "run", t)
    BY <1>2 DEF Pop
  <2>4. UNCHANGED <<state, adds, wakes, polls, done>>
    BY <1>2 DEF Pop
  <2> HIDE DEF new, t
  <2>5. queue' \in [Cores -> Seq(Tasks)] /\ \A e \in Cores : Len(queue'[e]) <= QueueSize
    BY <2>2, <2>3 DEF TypeOK
  <2> QED  BY <2>2, <2>3, <2>4, <2>5 DEF TypeOK
<1>3. ASSUME NEW v \in Cores, TrySteal(c, v) PROVE TypeOK'
  <2>1. queue[v] \in Seq(Tasks) /\ queue[v] # <<>>
    BY <1>3 DEF TrySteal, TypeOK
  <2> DEFINE q == queue[v]  new == SubSeq(q, 2, Len(q))  t == q[1]
  <2>2. t \in Tasks /\ new \in Seq(Tasks) /\ Len(new) <= QueueSize
    BY <2>1, EndsRemoved, LenProperties DEF TypeOK
  <2>3. queue' = [queue EXCEPT ![v] = new] /\ Goto(c, "run", t)
    BY <1>3 DEF TrySteal
  <2>4. UNCHANGED <<state, adds, wakes, polls, done>>
    BY <1>3 DEF TrySteal
  <2> HIDE DEF new, t
  <2>5. queue' \in [Cores -> Seq(Tasks)] /\ \A e \in Cores : Len(queue'[e]) <= QueueSize
    BY <2>2, <2>3 DEF TypeOK
  <2> QED  BY <2>2, <2>3, <2>4, <2>5 DEF TypeOK
<1>4. CASE RunTask(c)
  <2>1. pc[c] = "run" /\ hand[c] \in Tasks
    BY <1>0, <1>4 DEF RunTask, TypeOK
  <2>2. state' \in [Tasks -> States] /\ UNCHANGED <<queue, adds, wakes, polls, done>>
    BY <1>4 DEF RunTask, TypeOK
  <2>3. Goto(c, "poll", hand[c]) \/ Goto(c, "idle", NoTask)
    BY <1>4 DEF RunTask
  <2> QED  BY <1>0, <2>1, <2>2, <2>3 DEF TypeOK
<1>5. CASE PollReady(c)
  <2>1. done' \in [Tasks -> BOOLEAN]
    BY <1>5 DEF PollReady, TypeOK
  <2>2. Goto(c, "finish", hand[c]) /\ UNCHANGED <<state, queue, adds, wakes, polls>>
    BY <1>5 DEF PollReady
  <2>3. pc[c] # "idle"
    BY <1>5 DEF PollReady
  <2> QED  BY <1>0, <2>1, <2>2, <2>3 DEF TypeOK
<1>6. CASE PollPending(c)
  <2>1. polls' \in [Tasks -> 0..MaxPolls]
    BY <1>6 DEF PollPending, TypeOK
  <2>2. Goto(c, "pending", hand[c]) /\ UNCHANGED <<state, queue, adds, wakes, done>>
    BY <1>6 DEF PollPending
  <2>3. pc[c] # "idle"
    BY <1>6 DEF PollPending
  <2> QED  BY <1>0, <2>1, <2>2, <2>3 DEF TypeOK
<1>7. CASE Finish(c)
  BY <1>0, <1>7 DEF Finish, TypeOK
<1>8. CASE StoreReady(c)
  BY <1>0, <1>8 DEF StoreReady, TypeOK
<1>9. CASE Requeue(c)
  <2>1. hand[c] \in Tasks  BY <1>9 DEF Requeue, TypeOK
  <2> QED  BY <1>9, <2>1, PushedType DEF Requeue, TypeOK
<1> QED  BY <1>1, <1>2, <1>3, <1>4, <1>5, <1>6, <1>7, <1>8, <1>9 DEF Run

(* Every step of a core, of add(), of init() and of a waker preserves it. *)
LEMMA NextType == ASSUME TypeOK, [Next]_vars PROVE TypeOK'
<1> USE ConstantsAssumption DEF Goto, Actors, Locations, States
<1>1. CASE UNCHANGED vars
  BY <1>1 DEF vars, TypeOK
<1>2. ASSUME NEW c \in Cores, Run(c) PROVE TypeOK'
  BY <1>2, RunType
<1>3. ASSUME NEW c \in Cores, NEW t \in Tasks, InitTask(c, t) PROVE TypeOK'
  BY <1>3 DEF InitTask, TypeOK
<1>4. ASSUME NEW c \in Cores, NEW t \in Tasks, Add(c, t) PROVE TypeOK'
  <2>1. adds' \in [Tasks -> 0..MaxAdds]
    BY <1>4 DEF Add, TypeOK
  <2>2. state' \in [Tasks -> States]
    BY <1>4 DEF Add, TypeOK
  <2> QED  BY <1>4, <2>1, <2>2 DEF Add, TypeOK
<1>5. ASSUME NEW k \in Wakers, WakePush(k) PROVE TypeOK'
  <2>1. hand[k] \in Tasks  BY <1>5 DEF WakePush, TypeOK
  <2> QED  BY <1>5, <2>1, PushedType DEF WakePush, TypeOK
<1>6. ASSUME NEW k \in Wakers, NEW t \in Tasks, Wake(k, t) PROVE TypeOK'
  BY <1>6 DEF Wake, TypeOK
<1> QED  BY <1>1, <1>2, <1>3, <1>4, <1>5, <1>6 DEF Next

(* What the polling core holds, and what nobody does to a quiet task: the steps
   of a core preserve exclusion. *)
LEMMA RunSafe ==
  ASSUME IInv, NEW c \in Cores, Run(c)
  PROVE  PollIsRunning' /\ QuietExclusive' /\ DoneIsFinal'
<1> USE DEF IInv, Goto, Quiet, Polling
<1>0. /\ c \in Actors /\ Cores \subseteq Actors /\ Quiet \subseteq Tasks
      /\ state \in [Tasks -> States] /\ done \in [Tasks -> BOOLEAN]
      /\ pc \in [Actors -> Locations] /\ hand \in [Actors -> Tasks \cup {NoTask}]
  BY DEF TypeOK, Actors
<1>1. CASE AddPush(c) \/ Pop(c) \/ (\E v \in Cores : TrySteal(c, v)) \/ Requeue(c)
  <2>1. PICK l, t : l \in {"idle", "run"} /\ Goto(c, l, t) /\ UNCHANGED <<state, done>>
    BY <1>1 DEF AddPush, Pop, TrySteal, Requeue
  <2>2. pc[c] # "finish"
    BY <1>1 DEF AddPush, Pop, TrySteal, Requeue
  <2>3. PollIsRunning'   BY <1>0, <2>1 DEF PollIsRunning
  <2>4. QuietExclusive'  BY <1>0, <2>1 DEF QuietExclusive, Exclusive
  <2>5. DoneIsFinal'     BY <1>0, <2>1, <2>2 DEF DoneIsFinal
  <2> QED  BY <2>3, <2>4, <2>5
<1>2. CASE RunTask(c)
  <2> USE <1>0, <1>2 DEF RunTask
  <2>1. PollIsRunning'   BY DEF PollIsRunning
  <2>2. QuietExclusive'  BY DEF QuietExclusive, Exclusive, PollIsRunning
  <2>3. DoneIsFinal'     BY DEF DoneIsFinal, PollIsRunning
  <2> QED  BY <2>1, <2>2, <2>3
<1>3. CASE PollReady(c)
  <2> USE <1>0, <1>3 DEF PollReady
  <2>1. PollIsRunning'   BY DEF PollIsRunning
  <2>2. QuietExclusive'  BY DEF QuietExclusive, Exclusive
  <2>3. DoneIsFinal'     BY DEF DoneIsFinal
  <2> QED  BY <2>1, <2>2, <2>3
<1>4. CASE PollPending(c)
  <2> USE <1>0, <1>4 DEF PollPending
  <2>1. PollIsRunning'   BY DEF PollIsRunning
  <2>2. QuietExclusive'  BY DEF QuietExclusive, Exclusive
  <2>3. DoneIsFinal'     BY DEF DoneIsFinal
  <2> QED  BY <2>1, <2>2, <2>3
<1>5. CASE Finish(c)
  <2> USE <1>0, <1>5 DEF Finish
  <2>1. PollIsRunning'   BY DEF PollIsRunning, QuietExclusive, Exclusive
  <2>2. QuietExclusive'  BY DEF QuietExclusive, Exclusive
  <2>3. DoneIsFinal'     BY DEF DoneIsFinal, PollIsRunning
  <2> QED  BY <2>1, <2>2, <2>3
<1>6. CASE StoreReady(c)
  <2> USE <1>0, <1>6 DEF StoreReady
  <2>1. PollIsRunning'   BY DEF PollIsRunning, QuietExclusive, Exclusive
  <2>2. QuietExclusive'  BY DEF QuietExclusive, Exclusive
  <2>3. DoneIsFinal'     BY DEF DoneIsFinal, PollIsRunning, QuietExclusive, Exclusive
  <2> QED  BY <2>1, <2>2, <2>3
<1> QED  BY <1>1, <1>2, <1>3, <1>4, <1>5, <1>6 DEF Run

(* So do init(), add() and the wakers, which touch no quiet task that runs. *)
LEMMA NextInv == IInv /\ [Next]_vars => IInv'
<1> SUFFICES ASSUME IInv, [Next]_vars PROVE IInv'
  OBVIOUS
<1> SUFFICES PollIsRunning' /\ QuietExclusive' /\ DoneIsFinal'
  BY NextType DEF IInv
<1> USE DEF IInv, Goto, Quiet, Polling
<1>0. /\ Cores \subseteq Actors /\ Wakers \subseteq Actors /\ Quiet \subseteq Tasks
      /\ state \in [Tasks -> States] /\ done \in [Tasks -> BOOLEAN]
      /\ pc \in [Actors -> Locations] /\ hand \in [Actors -> Tasks \cup {NoTask}]
  BY DEF TypeOK, Actors
<1>1. CASE UNCHANGED vars
  BY <1>1 DEF vars, PollIsRunning, QuietExclusive, Exclusive, DoneIsFinal
<1>2. ASSUME NEW c \in Cores, Run(c) PROVE PollIsRunning' /\ QuietExclusive' /\ DoneIsFinal'
  BY <1>2, RunSafe
<1>3. ASSUME NEW c \in Cores, NEW t \in Tasks, InitTask(c, t) \/ Add(c, t)
      PROVE  PollIsRunning' /\ QuietExclusive' /\ DoneIsFinal'
  <2> USE <1>0, <1>3 DEF InitTask, Add
  <2>1. PollIsRunning'   BY DEF PollIsRunning
  <2>2. QuietExclusive'  BY DEF QuietExclusive, Exclusive
  <2>3. DoneIsFinal'     BY DEF DoneIsFinal, PollIsRunning
  <2> QED  BY <2>1, <2>2, <2>3
<1>4. ASSUME NEW k \in Wakers, NEW t \in Tasks, Wake(k, t)
      PROVE  PollIsRunning' /\ QuietExclusive' /\ DoneIsFinal'
  <2> USE <1>0, <1>4 DEF Wake
  <2>1. PollIsRunning'   BY DEF PollIsRunning
  <2>2. QuietExclusive'  BY DEF QuietExclusive, Exclusive
  <2>3. DoneIsFinal'     BY DEF DoneIsFinal
  <2> QED  BY <2>1, <2>2, <2>3
<1>5. ASSUME NEW k \in Wakers, WakePush(k)
      PROVE  PollIsRunning' /\ QuietExclusive' /\ DoneIsFinal'
  <2> USE <1>0, <1>5 DEF WakePush
  <2>1. PollIsRunning'   BY DEF PollIsRunning
  <2>2. QuietExclusive'  BY DEF QuietExclusive, Exclusive
  <2>3. DoneIsFinal'     BY DEF DoneIsFinal
  <2> QED  BY <2>1, <2>2, <2>3
<1> QED  BY <1>1, <1>2, <1>3, <1>4, <1>5 DEF Next

(* The invariant holds of every behaviour of the executor. *)
THEOREM Invariance == Spec => []IInv
  BY InitInv, NextInv, PTL DEF Spec

(* Slots, queues and program counters keep their types, no queue is longer than
   QUEUE_SIZE, and a core has a pointer in hand exactly while it works on it. *)
THEOREM TypeCorrect == Spec => []TypeOK
<1>1. IInv => TypeOK
  BY DEF IInv
<1> QED  BY <1>1, Invariance, PTL

(* "No other core is polling the same task", as TaskSlot::poll relies on for its
   `&mut`: it holds of every task whose waker nobody calls. *)
THEOREM Exclusion == Spec => []QuietExclusive
<1>1. IInv => QuietExclusive
  BY DEF IInv
<1> QED  BY <1>1, Invariance, PTL

(* run_task() never polls such a future again once it has returned Ready. *)
THEOREM ReadyOnce == Spec => []NoPollAfterReady
<1>1. IInv => NoPollAfterReady
  <2> SUFFICES ASSUME IInv, NEW c \in Cores, pc[c] = "poll", hand[c] \notin Wakeable, done[hand[c]]
               PROVE  FALSE
    BY DEF NoPollAfterReady
  <2>1. hand[c] \in Quiet
    BY DEF IInv, TypeOK, Quiet, Actors
  <2>2. state[hand[c]] = "Running"
    BY <2>1 DEF IInv, PollIsRunning, Polling
  <2>3. PICK e \in Cores : pc[e] = "finish" /\ hand[e] = hand[c]
    BY <2>1, <2>2 DEF IInv, DoneIsFinal
  <2> QED  BY <2>1, <2>3 DEF IInv, QuietExclusive, Exclusive, Polling, Quiet
<1> QED  BY <1>1, Invariance, PTL

----------------------------------------------------------------------------
(***************************************************************************)
(* That no Ready task is forgotten depends on the room in the queues, for  *)
(* the requeueing push of run_task() and the push of waker_wake() discard  *)
(* their result.  Every queue entry, and every pointer a core or a waker   *)
(* works on, stems from one call of add() or of a waker.                   *)
(***************************************************************************)
Entries == {p \in Cores \X (1..QueueSize) : p[2] <= Len(queue[p[1]])}
Busy == {a \in Actors : pc[a] # "idle"}
Issued == {p \in Tasks \X (1..MaxAdds) : p[2] <= adds[p[1]]}

Counted == Cardinality(Entries) + Cardinality(Busy) <= Cardinality(Issued) + wakes

(* Each queue has room for one entry from every call. *)
EnoughRoom == QueueSize >= Cardinality(Tasks) * MaxAdds + MaxWakes

(* The sets counted are finite. *)
LEMMA CountsFinite ==
  /\ IsFiniteSet(Entries) /\ IsFiniteSet(Busy) /\ IsFiniteSet(Issued)
  /\ Cardinality(Entries) \in Nat /\ Cardinality(Busy) \in Nat
  /\ Cardinality(Issued) \in Nat /\ Cardinality(Tasks) \in Nat
  /\ Cardinality(Issued) <= Cardinality(Tasks) * MaxAdds
<1> USE ConstantsAssumption
<1>1. IsFiniteSet(1..QueueSize)
  BY 1 \in Int, QueueSize \in Int, FS_Interval
<1>2. IsFiniteSet(1..MaxAdds) /\ Cardinality(1..MaxAdds) = MaxAdds
  <2>1. IsFiniteSet(1..MaxAdds) /\ Cardinality(1..MaxAdds) = IF 1 > MaxAdds THEN 0 ELSE MaxAdds - 1 + 1
    BY 1 \in Int, MaxAdds \in Int, FS_Interval
  <2> QED  BY <2>1
<1>3. IsFiniteSet(Cores \X (1..QueueSize))
  BY <1>1, FS_Product
<1>4. IsFiniteSet(Tasks \X (1..MaxAdds)) /\ Cardinality(Tasks \X (1..MaxAdds)) = Cardinality(Tasks) * MaxAdds
  BY <1>2, FS_Product
<1>5. IsFiniteSet(Actors)
  BY FS_Union DEF Actors
<1>6. Entries \in SUBSET (Cores \X (1..QueueSize)) /\ Busy \in SUBSET Actors
      /\ Issued \in SUBSET (Tasks \X (1..MaxAdds))
  BY DEF Entries, Busy, Issued
<1>7. IsFiniteSet(Entries) /\ IsFiniteSet(Busy)
  BY <1>3, <1>5, <1>6, FS_Subset
<1>8. IsFiniteSet(Issued) /\ Cardinality(Issued) <= Cardinality(Tasks) * MaxAdds
  BY <1>4, <1>6, FS_Subset
<1> QED  BY <1>7, <1>8, FS_CardinalityType

(* Who begins a call is busy, who ends it is not. *)
LEMMA BusyStep ==
  ASSUME TypeOK, NEW a \in Actors, NEW l \in Locations, pc' = [pc EXCEPT ![a] = l]
  PROVE  /\ pc[a] = "idle" /\ l # "idle" => Cardinality(Busy') = Cardinality(Busy) + 1
         /\ pc[a] # "idle" /\ l = "idle" => Cardinality(Busy') = Cardinality(Busy) - 1
         /\ pc[a] # "idle" /\ l # "idle" => Cardinality(Busy') = Cardinality(Busy)
<1>0. pc \in [Actors -> Locations] /\ IsFiniteSet(Busy)
  BY CountsFinite DEF TypeOK
<1>1. CASE pc[a] = "idle" /\ l # "idle"
  <2>1. Busy' = Busy \cup {a} /\ a \notin Busy
    BY <1>0, <1>1 DEF Busy, Actors
  <2> QED  BY <1>0, <1>1, <2>1, FS_AddElement
<1>2. CASE pc[a] # "idle" /\ l = "idle"
  <2>1. Busy' = Busy \ {a} /\ a \in Busy
    BY <1>0, <1>2 DEF Busy, Actors
  <2> QED  BY <1>0, <1>2, <2>1, FS_RemoveElement
<1>3. CASE pc[a] # "idle" /\ l # "idle"
  <2>1. Busy' = Busy
    BY <1>0, <1>3 DEF Busy, Actors
  <2> QED  BY <1>3, <2>1
<1> QED  BY <1>1, <1>2, <1>3

(* A push adds at most one entry, and exactly at the end of its queue. *)
LEMMA PushCounts ==
  ASSUME TypeOK, NEW c \in Cores, NEW t \in Tasks, queue' = Pushed(c, t)
  PROVE  Cardinality(Entries') <= Cardinality(Entries) + 1
<1> DEFINE q == queue[c]  n == Len(q)  e == <<c, n + 1>>
<1>0. /\ queue \in [Cores -> Seq(Tasks)] /\ q \in Seq(Tasks) /\ n \in Nat /\ QueueSize \in Nat
      /\ IsFiniteSet(Entries) /\ Cardinality(Entries) \in Nat
  BY CountsFinite, LenProperties, ConstantsAssumption DEF TypeOK
<1>1. CASE n < QueueSize
  <2>1. queue' = [queue EXCEPT ![c] = Append(q, t)] /\ Len(Append(q, t)) = n + 1
    BY <1>0, <1>1, AppendProperties DEF Pushed
  <2>2. \A d \in Cores : Len(queue'[d]) = IF d = c THEN n + 1 ELSE Len(queue[d])
    BY <1>0, <2>1
  <2>3. ASSUME NEW d \in Cores, NEW i \in 1..QueueSize
        PROVE  <<d, i>> \in Entries' <=> <<d, i>> \in Entries \/ (d = c /\ i = n + 1)
    BY <1>0, <2>2 DEF Entries
  <2>4. Entries' = Entries \cup {e}
    <3>1. e \in Cores \X (1..QueueSize)
      BY <1>0, <1>1
    <3> QED  BY <2>3, <3>1 DEF Entries
  <2>5. e \notin Entries
    BY <1>0 DEF Entries
  <2>6. Cardinality(Entries \cup {e}) = Cardinality(Entries) + 1
    BY <1>0, <2>5, FS_AddElement
  <2> QED  BY <1>0, <2>4, <2>6
<1>2. CASE ~(n < QueueSize)
  <2>1. queue' = queue
    BY <1>0, <1>2 DEF Pushed
  <2>2. Entries' = Entries
    BY <2>1 DEF Entries
  <2> QED  BY <1>0, <2>2
<1> QED  BY <1>1, <1>2

(* Taking an entry out, at either end, leaves one less. *)
LEMMA PopCounts ==
  ASSUME TypeOK, NEW v \in Cores, queue[v] # <<>>, NEW new, queue' = [queue EXCEPT ![v] = new],
         Len(new) = Len(queue[v]) - 1
  PROVE  Cardinality(Entries') = Cardinality(Entries) - 1
<1> DEFINE n == Len(queue[v])  e == <<v, n>>
<1>0. /\ queue \in [Cores -> Seq(Tasks)] /\ n \in Nat /\ n >= 1 /\ n <= QueueSize /\ QueueSize \in Nat
      /\ IsFiniteSet(Entries) /\ Cardinality(Entries) \in Nat
  BY CountsFinite, LenProperties, EmptySeq, ConstantsAssumption DEF TypeOK
<1>1. \A d \in Cores : Len(queue'[d]) = IF d = v THEN n - 1 ELSE Len(queue[d])
  BY <1>0
<1>2. ASSUME NEW d \in Cores, NEW i \in 1..QueueSize
      PROVE  <<d, i>> \in Entries' <=> <<d, i>> \in Entries /\ ~(d = v /\ i = n)
  BY <1>0, <1>1 DEF Entries
<1>3. Entries' = Entries \ {e} /\ e \in Entries
  <2>1. e \in Entries
    BY <1>0 DEF Entries
  <2> QED  BY <1>2, <2>1 DEF Entries
<1> QED  BY <1>0, <1>3, FS_RemoveElement

(* Every step keeps the account: a call that begins is entered on both sides,
   and a pointer moves between queues and hands or is dropped. *)
LEMMA NextCounted == ASSUME TypeOK, Counted, [Next]_vars PROVE Counted'
<1> USE DEF Goto, Locations
<1>0. /\ Cardinality(Entries) \in Nat /\ Cardinality(Busy) \in Nat
      /\ Cardinality(Issued) \in Nat /\ wakes \in Nat
      /\ Cardinality(Entries') \in Nat /\ Cardinality(Busy') \in Nat
      /\ Cardinality(Issued') \in Nat
      /\ Cardinality(Entries) + Cardinality(Busy) <= Cardinality(Issued) + wakes
  <2>1. wakes \in Nat
    BY ConstantsAssumption DEF TypeOK
  <2>2. (Cardinality(Entries) \in Nat /\ Cardinality(Busy) \in Nat /\ Cardinality(Issued) \in Nat)'
    BY CountsFinite, PTL
  <2> QED  BY <2>1, <2>2, CountsFinite DEF Counted
<1>1. Cores \subseteq Actors /\ Wakers \subseteq Actors
  BY DEF Actors
<1>2. CASE UNCHANGED vars
  BY <1>2 DEF vars, Counted, Entries, Busy, Issued
<1>3. (UNCHANGED queue => Cardinality(Entries') = Cardinality(Entries))
      /\ (UNCHANGED adds => Cardinality(Issued') = Cardinality(Issued))
      /\ (UNCHANGED pc => Cardinality(Busy') = Cardinality(Busy))
  BY DEF Entries, Busy, Issued
<1>4. ASSUME NEW a \in Actors, pc[a] # "idle", NEW c \in Cores, queue' = Pushed(c, hand[a]),
             Goto(a, "idle", NoTask), UNCHANGED <<adds, wakes>>
      PROVE  Counted'
  <2>1. hand[a] \in Tasks
    BY <1>4 DEF TypeOK
  <2>2. Cardinality(Entries') <= Cardinality(Entries) + 1
    BY <1>4, <2>1, PushCounts
  <2>3. Cardinality(Busy') = Cardinality(Busy) - 1
    BY <1>4, BusyStep
  <2> QED  BY <1>0, <1>3, <1>4, <2>2, <2>3 DEF Counted
<1>5. ASSUME NEW c \in Cores, Run(c) PROVE Counted'
  <2>0. c \in Actors
    BY <1>1
  <2>1. CASE AddPush(c)
    BY <1>4, <2>0, <2>1 DEF AddPush
  <2>2. CASE Pop(c)
    <3> DEFINE q == queue[c]  new == SubSeq(q, 1, Len(q) - 1)
    <3>1. q # <<>> /\ q \in Seq(Tasks) /\ queue' = [queue EXCEPT ![c] = new]
      BY <2>2 DEF Pop, TypeOK
    <3>2. Len(new) = Len(q) - 1
      BY <3>1, EndsRemoved
    <3>3. Cardinality(Entries') = Cardinality(Entries) - 1
      BY <3>1, <3>2, PopCounts
    <3>4. Cardinality(Busy') = Cardinality(Busy) + 1 /\ UNCHANGED <<adds, wakes>>
      BY <2>0, <2>2, BusyStep DEF Pop
    <3> QED  BY <1>0, <1>3, <3>3, <3>4 DEF Counted
  <2>3. ASSUME NEW v \in Cores, TrySteal(c, v) PROVE Counted'
    <3> DEFINE q == queue[v]  new == SubSeq(q, 2, Len(q))
    <3>1. q # <<>> /\ q \in Seq(Tasks) /\ queue' = [queue EXCEPT ![v] = new]
      BY <2>3 DEF TrySteal, TypeOK
    <3>2. Len(new) = Len(q) - 1
      BY <3>1, EndsRemoved
    <3>3. Cardinality(Entries') = Cardinality(Entries) - 1
      BY <3>1, <3>2, PopCounts
    <3>4. Cardinality(Busy') = Cardinality(Busy) + 1 /\ UNCHANGED <<adds, wakes>>
      BY <2>0, <2>3, BusyStep DEF TrySteal
    <3> QED  BY <1>0, <1>3, <3>3, <3>4 DEF Counted
  <2>4. CASE RunTask(c) \/ PollReady(c) \/ PollPending(c) \/ Finish(c) \/ StoreReady(c)
    <3>1. PICK l \in Locations : pc' = [pc EXCEPT ![c] = l]
      BY <2>4 DEF RunTask, PollReady, PollPending, Finish, StoreReady
    <3>2. pc[c] # "idle" /\ UNCHANGED <<queue, adds, wakes>>
      BY <2>4 DEF RunTask, PollReady, PollPending, Finish, StoreReady
    <3>3. Cardinality(Busy') <= Cardinality(Busy)
      <4>1. CASE l = "idle"
        <5>1. Cardinality(Busy') = Cardinality(Busy) - 1
          BY <2>0, <3>1, <3>2, <4>1, BusyStep
        <5> QED  BY <1>0, <5>1
      <4>2. CASE l # "idle"
        <5>1. Cardinality(Busy') = Cardinality(Busy)
          BY <2>0, <3>1, <3>2, <4>2, BusyStep
        <5> QED  BY <1>0, <5>1
      <4> QED  BY <4>1, <4>2
    <3> QED  BY <1>0, <1>3, <3>2, <3>3 DEF Counted
  <2>5. CASE Requeue(c)
    BY <1>4, <2>0, <2>5 DEF Requeue
  <2> QED  BY <1>5, <2>1, <2>2, <2>3, <2>4, <2>5 DEF Run
<1>6. ASSUME NEW c \in Cores, NEW t \in Tasks, InitTask(c, t) PROVE Counted'
  BY <1>0, <1>3, <1>6 DEF InitTask, Counted
<1>7. ASSUME NEW c \in Cores, NEW t \in Tasks, Add(c, t) PROVE Counted'
  <2> DEFINE e == <<t, adds[t] + 1>>
  <2>0. /\ adds \in [Tasks -> 0..MaxAdds] /\ MaxAdds \in Nat /\ IsFiniteSet(Issued)
        /\ adds' = [adds EXCEPT ![t] = @ + 1] /\ adds[t] < MaxAdds
    BY <1>7, CountsFinite, ConstantsAssumption DEF TypeOK, Add
  <2>1. ASSUME NEW u \in Tasks, NEW i \in 1..MaxAdds
        PROVE  <<u, i>> \in Issued' <=> <<u, i>> \in Issued \/ (u = t /\ i = adds[t] + 1)
    BY <2>0 DEF Issued
  <2>2. Issued' = Issued \cup {e} /\ e \notin Issued
    <3>1. e \in Tasks \X (1..MaxAdds) /\ e \notin Issued
      BY <2>0 DEF Issued
    <3> QED  BY <2>1, <3>1 DEF Issued
  <2>3. Cardinality(Issued') = Cardinality(Issued) + 1
    BY <2>0, <2>2, FS_AddElement
  <2>4. Cardinality(Busy') = Cardinality(Busy) + 1 /\ UNCHANGED <<queue, wakes>>
    BY <1>1, <1>7, BusyStep DEF Add
  <2> QED  BY <1>0, <1>3, <2>3, <2>4 DEF Counted
<1>8. ASSUME NEW k \in Wakers, WakePush(k) PROVE Counted'
  BY <1>1, <1>4, <1>8, ConstantsAssumption DEF WakePush
<1>9. ASSUME NEW k \in Wakers, NEW t \in Tasks, Wake(k, t) PROVE Counted'
  <2>1. Cardinality(Busy') = Cardinality(Busy) + 1
    BY <1>1, <1>9, BusyStep DEF Wake
  <2> QED  BY <1>0, <1>3, <1>9, <2>1 DEF Counted, Wake
<1> QED  BY <1>2, <1>5, <1>6, <1>7, <1>8, <1>9 DEF Next

(* With enough room a push is never refused: the pointer in the pusher's hand is
   counted too, so fewer entries than calls are queued. *)
LEMMA PushFits ==
  ASSUME TypeOK, Counted, EnoughRoom, NEW a \in Actors, pc[a] # "idle", NEW c \in Cores
  PROVE  Len(queue[c]) < QueueSize
<1> DEFINE mine == {c} \X (1..Len(queue[c]))
<1>0. /\ Len(queue[c]) \in Nat /\ Len(queue[c]) <= QueueSize /\ QueueSize \in Nat
      /\ MaxAdds \in Nat /\ MaxWakes \in Nat /\ wakes \in 0..MaxWakes
  BY LenProperties, ConstantsAssumption DEF TypeOK
<1>1. Cardinality(mine) = Len(queue[c]) /\ IsFiniteSet(mine)
  <2>1. IsFiniteSet({c}) /\ Cardinality({c}) = 1
    BY FS_Singleton
  <2> DEFINE n == Len(queue[c])
  <2>2. n \in Int /\ 1 \in Int
    BY <1>0
  <2> HIDE DEF n
  <2>3. IsFiniteSet(1..n) /\ Cardinality(1..n) = IF 1 > n THEN 0 ELSE n - 1 + 1
    BY <2>2, FS_Interval
  <2>4. Cardinality(1..n) = n
    BY <1>0, <2>3 DEF n
  <2>5. /\ IsFiniteSet({c} \X (1..n))
        /\ Cardinality({c} \X (1..n)) = Cardinality({c}) * Cardinality(1..n)
    BY <2>1, <2>3, FS_Product
  <2>6. Cardinality({c} \X (1..n)) = n
    BY <2>1, <2>2, <2>4, <2>5
  <2> QED  BY <2>5, <2>6 DEF n
<1>2. Cardinality(mine) <= Cardinality(Entries)
  <2>1. mine \subseteq Entries
    BY <1>0 DEF Entries
  <2> QED  BY <2>1, CountsFinite, FS_Subset
<1>3. Cardinality(Busy) >= 1
  <2>1. a \in Busy
    BY DEF Busy
  <2>2. Cardinality(Busy) # 0
    BY <2>1, CountsFinite, FS_EmptySet
  <2> QED  BY <2>2, CountsFinite
<1> DEFINE k == Cardinality(Tasks) * MaxAdds
<1>4. k \in Nat /\ QueueSize >= k + MaxWakes /\ Cardinality(Issued) <= k
  BY <1>0, CountsFinite DEF EnoughRoom
<1> HIDE DEF k, mine
<1>5. Cardinality(Entries) <= k + MaxWakes - 1
  BY <1>0, <1>3, <1>4, CountsFinite DEF Counted
<1> QED  BY <1>0, <1>1, <1>2, <1>4, <1>5, CountsFinite

(* Where the pointer of a task is, or is about to be put. *)
Queued(t) == \E c \in Cores : \E i \in 1..Len(queue[c]) : queue[c][i] = t
InWork(t) == \E a \in Actors : hand[a] = t /\ pc[a] \in {"add", "run", "requeue", "wake"}

(* A push with room puts its pointer into the queue and moves no other. *)
LEMMA PushQueues ==
  ASSUME TypeOK, NEW c \in Cores, NEW t \in Tasks, Len(queue[c]) < QueueSize,
         queue' = Pushed(c, t)
  PROVE  \A u \in Tasks : Queued(u)' <=> Queued(u) \/ u = t
<1> DEFINE q == queue[c]  n == Len(q)
<1>0. queue \in [Cores -> Seq(Tasks)] /\ q \in Seq(Tasks) /\ n \in Nat
  BY LenProperties DEF TypeOK
<1>1. queue' = [queue EXCEPT ![c] = Append(q, t)]
  BY DEF Pushed
<1>2. Len(Append(q, t)) = n + 1 /\ \A i \in 1..(n + 1) : Append(q, t)[i] = IF i <= n THEN q[i] ELSE t
  BY <1>0, AppendProperties
<1>3. \A d \in Cores : d # c => queue'[d] = queue[d]
  BY <1>0, <1>1
<1>4. Len(queue'[c]) = n + 1 /\ \A i \in 1..(n + 1) : queue'[c][i] = IF i <= n THEN q[i] ELSE t
  BY <1>0, <1>1, <1>2
<1> TAKE u \in Tasks
<1>5. ASSUME Queued(u)' PROVE Queued(u) \/ u = t
  <2>1. PICK d \in Cores : \E i \in 1..Len(queue'[d]) : queue'[d][i] = u
    BY <1>5 DEF Queued
  <2>2. PICK i \in 1..Len(queue'[d]) : queue'[d][i] = u
    BY <2>1
  <2>3. CASE d # c
    BY <1>3, <2>2, <2>3 DEF Queued
  <2>4. CASE d = c /\ i <= n
    <3>1. i \in 1..n /\ q[i] = u
      BY <1>0, <1>4, <2>2, <2>4
    <3> QED  BY <3>1 DEF Queued
  <2>5. CASE d = c /\ ~(i <= n)
    BY <1>0, <1>4, <2>2, <2>5
  <2> QED  BY <2>3, <2>4, <2>5
<1>6. ASSUME Queued(u) PROVE Queued(u)'
  <2>1. PICK d \in Cores : \E i \in 1..Len(queue[d]) : queue[d][i] = u
    BY <1>6 DEF Queued
  <2>2. PICK i \in 1..Len(queue[d]) : queue[d][i] = u
    BY <2>1
  <2>3. i \in 1..Len(queue'[d]) /\ queue'[d][i] = u
    <3>1. CASE d # c  BY <1>3, <2>2, <3>1
    <3>2. CASE d = c  BY <1>0, <1>4, <2>2, <3>2
    <3> QED  BY <3>1, <3>2
  <2> QED  BY <2>3 DEF Queued
<1>7. ASSUME u = t PROVE Queued(u)'
  <2>1. n + 1 \in 1..Len(queue'[c]) /\ queue'[c][n + 1] = t
    BY <1>0, <1>4
  <2> QED  BY <1>7, <2>1 DEF Queued
<1> QED  BY <1>5, <1>6, <1>7

(* Taking an entry at one end out leaves the others. *)
LEMMA PopLeaves ==
  ASSUME TypeOK, NEW v \in Cores, queue[v] # <<>>,
         NEW t, NEW new,
         \/ t = queue[v][Len(queue[v])] /\ new = SubSeq(queue[v], 1, Len(queue[v]) - 1)
         \/ t = queue[v][1] /\ new = SubSeq(queue[v], 2, Len(queue[v])),
         queue' = [queue EXCEPT ![v] = new]
  PROVE  \A u \in Tasks : Queued(u) => Queued(u)' \/ u = t
<1> DEFINE q == queue[v]  n == Len(q)  m == n - 1
<1>0. /\ queue \in [Cores -> Seq(Tasks)] /\ q \in Seq(Tasks) /\ n \in Nat /\ n >= 1
      /\ \A i \in 1..n : q[i] \in Tasks
  BY LenProperties, EmptySeq, ElementOfSeq DEF TypeOK
<1>1. /\ \A d \in Cores : d # v => queue'[d] = queue[d]
      /\ queue'[v] = new
  BY <1>0
<1>2. m \in Int /\ n \in Int /\ 1 \in Int /\ 2 \in Int
      /\ (\A i \in 1..m : q[i] \in Tasks) /\ (\A i \in 2..n : q[i] \in Tasks)
  BY <1>0
<1>3. Len(SubSeq(q, 1, m)) = m /\ Len(SubSeq(q, 2, n)) = m
  BY <1>0, EndsRemoved
<1> HIDE DEF n, m
<1>4. \A i \in 1..(m - 1 + 1) : SubSeq(q, 1, m)[i] = q[1 + i - 1]
  BY <1>2, SubSeqProperties
<1>5. \A i \in 1..(n - 2 + 1) : SubSeq(q, 2, n)[i] = q[2 + i - 1]
  BY <1>2, SubSeqProperties
<1> TAKE u \in Tasks
<1> SUFFICES ASSUME Queued(u), u # t PROVE Queued(u)'
  OBVIOUS
<1>6. PICK d \in Cores : \E i \in 1..Len(queue[d]) : queue[d][i] = u
  BY DEF Queued
<1>7. PICK i \in 1..Len(queue[d]) : queue[d][i] = u
  BY <1>6
<1>8. CASE d # v
  BY <1>1, <1>7, <1>8 DEF Queued
<1>9. CASE d = v /\ t = q[n] /\ new = SubSeq(q, 1, m)
  <2>1. i \in 1..m /\ i \in 1..(m - 1 + 1) /\ 1 + i - 1 = i
    BY <1>0, <1>7, <1>9 DEF n, m
  <2>2. new[i] = u /\ Len(new) = m
    BY <1>3, <1>4, <1>7, <1>9, <2>1
  <2> QED  BY <1>1, <2>1, <2>2 DEF Queued
<1>10. CASE d = v /\ t = q[1] /\ new = SubSeq(q, 2, n)
  <2>1. i - 1 \in 1..m /\ i - 1 \in 1..(n - 2 + 1) /\ 2 + (i - 1) - 1 = i
    BY <1>0, <1>7, <1>10 DEF n, m
  <2>2. new[i - 1] = u /\ Len(new) = m
    BY <1>3, <1>5, <1>7, <1>10, <2>1
  <2> QED  BY <1>1, <2>1, <2>2 DEF Queued
<1> QED  BY <1>8, <1>9, <1>10 DEF n, m

(* A Ready task keeps its entry, or moves with it from hand to hand. *)
LEMMA NextQueued ==
  ASSUME TypeOK, Counted, EnoughRoom, ReadyIsQueued, [Next]_vars
  PROVE  ReadyIsQueued'
<1> USE DEF Goto
<1>0. /\ Cores \subseteq Actors /\ Wakers \subseteq Actors /\ Home \in Cores
      /\ state \in [Tasks -> States] /\ pc \in [Actors -> Locations]
      /\ hand \in [Actors -> Tasks \cup {NoTask}]
      /\ \A t \in Tasks : state[t] = "Ready" => Queued(t) \/ InWork(t)
  BY ConstantsAssumption DEF TypeOK, Actors, ReadyIsQueued, Queued, InWork
<1> SUFFICES ASSUME NEW u \in Tasks, state'[u] = "Ready" PROVE Queued(u)' \/ InWork(u)'
  BY DEF ReadyIsQueued, Queued, InWork
<1>1. UNCHANGED queue => (Queued(u)' <=> Queued(u))
  BY DEF Queued
<1>2. ASSUME NEW a \in Actors, NEW l, NEW t, Goto(a, l, t), InWork(u),
             hand[a] # u \/ pc[a] \notin {"add", "run", "requeue", "wake"}
      PROVE  InWork(u)'
  BY <1>0, <1>2 DEF InWork
<1>3. ASSUME NEW a \in Actors, NEW l \in {"add", "run", "requeue", "wake"}, Goto(a, l, u)
      PROVE  InWork(u)'
  BY <1>0, <1>3 DEF InWork
<1>4. ASSUME NEW a \in Actors, pc[a] # "idle", NEW c \in Cores, queue' = Pushed(c, hand[a]),
             Goto(a, "idle", NoTask), UNCHANGED state
      PROVE  Queued(u)' \/ InWork(u)'
  <2>1. hand[a] \in Tasks
    BY <1>4 DEF TypeOK
  <2>2. Len(queue[c]) < QueueSize
    BY <1>4, PushFits
  <2>3. Queued(u)' <=> Queued(u) \/ u = hand[a]
    BY <1>4, <2>1, <2>2, PushQueues
  <2> QED  BY <1>0, <1>2, <1>4, <2>3
<1>5. CASE UNCHANGED vars
  BY <1>0, <1>5 DEF vars, Queued, InWork
<1>6. ASSUME NEW c \in Cores, Run(c) PROVE Queued(u)' \/ InWork(u)'
  <2>0. c \in Actors
    BY <1>0
  <2>1. CASE AddPush(c)
    BY <1>4, <2>0, <2>1 DEF AddPush
  <2>2. CASE Pop(c)
    <3> DEFINE t == queue[c][Len(queue[c])]  new == SubSeq(queue[c], 1, Len(queue[c]) - 1)
    <3>1. /\ queue[c] # <<>> /\ queue' = [queue EXCEPT ![c] = new] /\ Goto(c, "run", t)
          /\ UNCHANGED state /\ pc[c] = "idle"
      BY <2>2 DEF Pop
    <3>2. \/ t = queue[c][Len(queue[c])] /\ new = SubSeq(queue[c], 1, Len(queue[c]) - 1)
          \/ t = queue[c][1] /\ new = SubSeq(queue[c], 2, Len(queue[c]))
      OBVIOUS
    <3> HIDE DEF t, new
    <3>3. Queued(u) => Queued(u)' \/ u = t
      BY <3>1, <3>2, PopLeaves
    <3> QED  BY <1>0, <1>2, <1>3, <2>0, <3>1, <3>3
  <2>3. ASSUME NEW v \in Cores, TrySteal(c, v) PROVE Queued(u)' \/ InWork(u)'
    <3> DEFINE t == queue[v][1]  new == SubSeq(queue[v], 2, Len(queue[v]))
    <3>1. /\ queue[v] # <<>> /\ queue' = [queue EXCEPT ![v] = new] /\ Goto(c, "run", t)
          /\ UNCHANGED state /\ pc[c] = "idle"
      BY <2>3 DEF TrySteal
    <3>2. \/ t = queue[v][Len(queue[v])] /\ new = SubSeq(queue[v], 1, Len(queue[v]) - 1)
          \/ t = queue[v][1] /\ new = SubSeq(queue[v], 2, Len(queue[v]))
      OBVIOUS
    <3> HIDE DEF t, new
    <3>3. Queued(u) => Queued(u)' \/ u = t
      BY <3>1, <3>2, PopLeaves
    <3> QED  BY <1>0, <1>2, <1>3, <2>0, <3>1, <3>3
  <2>4. CASE RunTask(c)
    <3>1. PICK l, t : Goto(c, l, t)
      BY <2>4 DEF RunTask
    <3>2. hand[c] # u /\ state[u] = "Ready" /\ UNCHANGED queue
      BY <1>0, <2>4 DEF RunTask, TypeOK
    <3> QED  BY <1>0, <1>1, <1>2, <2>0, <3>1, <3>2
  <2>5. CASE PollReady(c) \/ PollPending(c) \/ Finish(c)
    <3>1. PICK l, t : Goto(c, l, t)
      BY <2>5 DEF PollReady, PollPending, Finish
    <3>2. pc[c] \in {"poll", "finish"} /\ UNCHANGED queue
      BY <2>5 DEF PollReady, PollPending, Finish
    <3>3. state[u] = "Ready"
      BY <1>0, <2>5 DEF PollReady, PollPending, Finish
    <3> QED  BY <1>0, <1>1, <1>2, <2>0, <3>1, <3>2, <3>3
  <2>6. CASE StoreReady(c)
    <3>1. CASE hand[c] = u
      BY <1>3, <2>0, <2>6, <3>1 DEF StoreReady
    <3>2. CASE hand[c] # u
      <4>1. state[u] = "Ready"
        BY <1>0, <2>6, <3>2 DEF StoreReady
      <4> QED  BY <1>0, <1>1, <1>2, <2>0, <2>6, <3>2, <4>1 DEF StoreReady
    <3> QED  BY <3>1, <3>2
  <2>7. CASE Requeue(c)
    BY <1>4, <2>0, <2>7 DEF Requeue
  <2> QED  BY <1>6, <2>1, <2>2, <2>3, <2>4, <2>5, <2>6, <2>7 DEF Run
<1>7. ASSUME NEW c \in Cores, NEW t \in Tasks, InitTask(c, t) PROVE Queued(u)' \/ InWork(u)'
  <2>1. state[u] = "Ready" /\ UNCHANGED <<queue, pc, hand>>
    BY <1>0, <1>7 DEF InitTask
  <2> QED  BY <1>0, <2>1 DEF Queued, InWork
<1>8. ASSUME NEW a \in Actors, pc[a] = "idle", NEW l \in {"add", "wake"}, NEW t \in Tasks,
             Goto(a, l, t), UNCHANGED queue, u # t => state'[u] = state[u]
      PROVE  Queued(u)' \/ InWork(u)'
  <2>1. CASE u = t
    BY <1>3, <1>8, <2>1
  <2>2. CASE u # t
    BY <1>0, <1>1, <1>2, <1>8, <2>2
  <2> QED  BY <2>1, <2>2
<1>9. ASSUME NEW c \in Cores, NEW t \in Tasks, Add(c, t) PROVE Queued(u)' \/ InWork(u)'
  BY <1>0, <1>8, <1>9 DEF Add
<1>10. ASSUME NEW k \in Wakers, WakePush(k) PROVE Queued(u)' \/ InWork(u)'
  BY <1>0, <1>4, <1>10 DEF WakePush
<1>11. ASSUME NEW k \in Wakers, NEW t \in Tasks, Wake(k, t) PROVE Queued(u)' \/ InWork(u)'
  BY <1>0, <1>8, <1>11 DEF Wake
<1> QED  BY <1>5, <1>6, <1>7, <1>9, <1>10, <1>11 DEF Next

(***************************************************************************)
(* Where each queue has room for one entry per call of add() and of a      *)
(* waker, no Ready task is forgotten, although the pushes of run_task()    *)
(* and of waker_wake() ignore a full queue.                                *)
(***************************************************************************)
THEOREM NotForgotten == ASSUME EnoughRoom PROVE Spec => []ReadyIsQueued
<1> DEFINE QInv == TypeOK /\ Counted /\ ReadyIsQueued
<1>1. Init => QInv
  <2> SUFFICES ASSUME Init PROVE QInv
    OBVIOUS
  <2>1. TypeOK
    BY InitInv DEF IInv
  <2>2. Entries = {} /\ Busy = {} /\ wakes = 0
    BY ConstantsAssumption, EmptySeq DEF Init, Entries, Busy, Actors
  <2>3. Counted
    BY <2>2, FS_EmptySet, CountsFinite DEF Counted
  <2>4. ReadyIsQueued
    BY DEF Init, ReadyIsQueued
  <2> QED  BY <2>1, <2>3, <2>4
<1>2. QInv /\ [Next]_vars => QInv'
  BY NextType, NextCounted, NextQueued
<1> QED  BY <1>1, <1>2, PTL DEF Spec
=============================================================================
