------------------------- MODULE AsyncMutex_proofs -------------------------
(***************************************************************************)
(* Exclusion, the soundness of the intrusive wait list and its FIFO order, *)
(* for any set of tasks and either kind of executor.                       *)
(***************************************************************************)
EXTENDS AsyncMutex, TLAPS

(* Where poll() is tells whether its node was linked, and a node that is not
   linked is a fresh one: what makes the append of link() safe. *)
FreshNode ==
    \A t \in Tasks :
        /\ pc[t] \in {"check", "rewake", "park", "won"} => linked[t]
        /\ pc[t] = "slow" => ~linked[t]
        /\ pc[t] \in {"pending", "slow"} /\ ~linked[t] => ~woken[t]

IInv == TypeOK /\ MutualExclusion /\ NoDanglingWaiter /\ FreshNode

Distinct(s) == \A i, j \in 1..Len(s) : s[i] = s[j] => i = j

(* u is s with some of its elements left out: position m of u is position
   f[m] of s. *)
Thinned(u, s) ==
    \E f \in [1..Len(u) -> 1..Len(s)] :
        /\ \A m, n \in 1..Len(u) : m < n => f[m] < f[n]
        /\ \A m \in 1..Len(u) : u[m] = s[f[m]]

----------------------------------------------------------------------------
(* A list is itself with nothing left out. *)
LEMMA ThinnedRefl == \A s \in Seq(Tasks) : Thinned(s, s)
<1> SUFFICES ASSUME NEW s \in Seq(Tasks) PROVE Thinned(s, s)
  OBVIOUS
<1> DEFINE f == [m \in 1..Len(s) |-> m]
<1>1. f \in [1..Len(s) -> 1..Len(s)]
  OBVIOUS
<1> QED  BY <1>1 DEF Thinned

(* unlink() yields a list, in the old order, in which the node no longer is. *)
LEMMA UnlinkThins ==
    ASSUME NEW s \in Seq(Tasks), Distinct(s), NEW t
    PROVE  /\ Unlink(s, t) \in Seq(Tasks)
           /\ Thinned(Unlink(s, t), s)
           /\ ~Listed(Unlink(s, t), t)
<1> DEFINE u == Unlink(s, t)
<1>1. CASE ~Listed(s, t)
  <2>1. u = s
    BY <1>1 DEF Unlink
  <2>2. Thinned(s, s)
    BY ThinnedRefl
  <2> QED  BY <1>1, <2>1, <2>2
<1>2. CASE Listed(s, t)
  <2>1. \E k \in 1..Len(s) : s[k] = t /\ \A j \in 1..(k - 1) : s[j] # t
    <3>1. PICK k \in 1..Len(s) : s[k] = t
      BY <1>2 DEF Listed
    <3>2. \A j \in 1..(k - 1) : j \in 1..Len(s) /\ j # k
      OBVIOUS
    <3> QED  BY <3>1, <3>2 DEF Distinct
  <2> DEFINE i == CHOOSE k \in 1..Len(s) : s[k] = t /\ \A j \in 1..(k - 1) : s[j] # t
  <2>2. i \in 1..Len(s) /\ s[i] = t
    BY <2>1
  <2>3. u = [j \in 1..(Len(s) - 1) |-> IF j < i THEN s[j] ELSE s[j + 1]]
    BY <1>2 DEF Unlink
  <2> HIDE DEF i, u
  <2>4. Len(s) - 1 \in Nat
    BY <2>2
  <2>5. u \in Seq(Tasks) /\ Len(u) = Len(s) - 1
    BY <2>2, <2>3, <2>4
  <2>6. \A m \in 1..Len(u) : u[m] = s[IF m < i THEN m ELSE m + 1]
    BY <2>2, <2>3, <2>5
  <2> DEFINE f == [m \in 1..Len(u) |-> IF m < i THEN m ELSE m + 1]
  <2>7. f \in [1..Len(u) -> 1..Len(s)]
    BY <2>2, <2>5
  <2>8. \A m, n \in 1..Len(u) : m < n => f[m] < f[n]
    BY <2>2, <2>5
  <2>9. \A m \in 1..Len(u) : u[m] = s[f[m]] /\ f[m] # i
    BY <2>2, <2>5, <2>6
  <2> HIDE DEF f
  <2>10. Thinned(u, s)
    BY <2>7, <2>8, <2>9 DEF Thinned
  <2>11. ~Listed(u, t)
    BY <2>2, <2>7, <2>9 DEF Listed, Distinct
  <2> QED  BY <2>5, <2>10, <2>11 DEF u
<1> QED  BY <1>1, <1>2

(* The list that unlock() leaves behind its pops is a suffix of the old one. *)
LEMMA SuffixThins ==
    ASSUME NEW s \in Seq(Tasks), NEW k \in 1..Len(s), Distinct(s)
    PROVE  LET u == SubSeq(s, k + 1, Len(s)) IN
           /\ u \in Seq(Tasks)
           /\ Thinned(u, s)
           /\ \A j \in 1..k : ~Listed(u, s[j])
<1> DEFINE u == SubSeq(s, k + 1, Len(s))
<1>1. u \in Seq(Tasks) /\ Len(u) = Len(s) - k
  OBVIOUS
<1>2. \A m \in 1..Len(u) : u[m] = s[k + m]
  BY <1>1
<1> DEFINE f == [m \in 1..Len(u) |-> k + m]
<1>3. f \in [1..Len(u) -> 1..Len(s)]
  BY <1>1
<1>f. /\ \A m, n \in 1..Len(u) : m < n => f[m] < f[n]
      /\ \A m \in 1..Len(u) : u[m] = s[f[m]]
  BY <1>1, <1>2
<1> HIDE DEF u, f
<1>4. Thinned(u, s)
  BY <1>3, <1>f DEF Thinned
<1>5. ASSUME NEW j \in 1..k PROVE ~Listed(u, s[j])
  BY <1>1, <1>2 DEF Listed, Distinct
<1> QED  BY <1>1, <1>4, <1>5 DEF u

(* Leaving elements out adds none, repeats none and swaps none. *)
LEMMA ThinnedKeeps ==
    ASSUME NEW s \in Seq(Tasks), NEW u \in Seq(Tasks), Thinned(u, s), Distinct(s)
    PROVE  /\ Distinct(u)
           /\ \A m \in 1..Len(u) : \E k \in 1..Len(s) : u[m] = s[k]
           /\ \A i, j \in 1..Len(s) : i < j =>
                 \A m, n \in 1..Len(u) : u[m] = s[i] /\ u[n] = s[j] => m < n
<1>1. PICK f \in [1..Len(u) -> 1..Len(s)] :
         /\ \A m, n \in 1..Len(u) : m < n => f[m] < f[n]
         /\ \A m \in 1..Len(u) : u[m] = s[f[m]]
  BY DEF Thinned
<1>2. \A m, n \in 1..Len(u) : m # n => f[m] # f[n]
  BY <1>1
<1>3. Distinct(u)
  BY <1>1, <1>2 DEF Distinct
<1>4. ASSUME NEW i \in 1..Len(s), NEW j \in 1..Len(s), i < j,
             NEW m \in 1..Len(u), NEW n \in 1..Len(u), u[m] = s[i], u[n] = s[j]
      PROVE  m < n
  <2>0. s[f[m]] = s[i] /\ s[f[n]] = s[j] /\ f[m] \in 1..Len(s) /\ f[n] \in 1..Len(s)
    BY <1>1, <1>4
  <2>1. f[m] = i /\ f[n] = j
    BY <2>0 DEF Distinct
  <2>2. m # n /\ ~(n < m)
    BY <1>1, <1>4, <2>1
  <2> QED  BY <2>2
<1> QED  BY <1>1, <1>3, <1>4

----------------------------------------------------------------------------
(* A new mutex satisfies the invariant. *)
LEMMA InitInv == Init => IInv
<1> SUFFICES ASSUME Init PROVE IInv
  OBVIOUS
<1>1. TypeOK
  <2>1. waiters \in Seq(Tasks)
    BY DEF Init
  <2>2. /\ pc \in [Tasks -> Locations]
        /\ target \in [Tasks -> Tasks \cup {NoTask}]
        /\ \A t \in Tasks : pc[t] # "wake"
    BY DEF Init, Locations
  <2>3. /\ locked \in BOOLEAN
        /\ linked \in [Tasks -> BOOLEAN]
        /\ woken \in [Tasks -> BOOLEAN]
        /\ waker \in [Tasks -> BOOLEAN]
        /\ notified \in [Tasks -> BOOLEAN]
    BY DEF Init
  <2> QED  BY <2>1, <2>2, <2>3 DEF TypeOK
<1>2. MutualExclusion /\ FreshNode
  BY DEF Init, MutualExclusion, HasGuard, FreshNode
<1>3. NoDanglingWaiter
  <2>1. 1..Len(waiters) = {}
    BY DEF Init
  <2> QED  BY <2>1 DEF NoDanglingWaiter
<1> QED  BY <1>1, <1>2, <1>3 DEF IInv

(* What the next list owes to the old one in a step that removes nodes and
   changes no other task's pc. *)
LEMMA ThinnedSafe ==
    ASSUME IInv, NEW t \in Tasks,
           waiters' \in Seq(Tasks), Thinned(waiters', waiters), ~Listed(waiters', t),
           \A u \in Tasks \ {t} : pc'[u] = pc[u] /\ linked'[u] = linked[u],
           \A u \in Tasks \ {t} : Listed(waiters', u) => woken'[u] = woken[u]
    PROVE  NoDanglingWaiter'
<1>1. Distinct(waiters) /\ waiters \in Seq(Tasks)
  BY DEF IInv, TypeOK, NoDanglingWaiter, Distinct
<1>2. /\ Distinct(waiters')
      /\ \A m \in 1..Len(waiters') : \E k \in 1..Len(waiters) : waiters'[m] = waiters[k]
  BY <1>1, ThinnedKeeps
<1>3. ASSUME NEW m \in 1..Len(waiters')
      PROVE  /\ pc'[waiters'[m]] \in {"pending", "check", "park", "won"}
             /\ linked'[waiters'[m]]
             /\ ~woken'[waiters'[m]]
  <2>1. waiters'[m] \in Tasks /\ Listed(waiters', waiters'[m])
    BY DEF Listed
  <2>2. waiters'[m] # t
    BY <2>1
  <2>3. PICK k \in 1..Len(waiters) : waiters'[m] = waiters[k]
    BY <1>2
  <2>4. /\ pc[waiters[k]] \in {"pending", "check", "park", "won"}
        /\ linked[waiters[k]]
        /\ ~woken[waiters[k]]
    BY DEF IInv, NoDanglingWaiter
  <2>5. /\ pc'[waiters'[m]] = pc[waiters[k]]
        /\ linked'[waiters'[m]] = linked[waiters[k]]
        /\ woken'[waiters'[m]] = woken[waiters[k]]
    BY <2>1, <2>2, <2>3
  <2> QED  BY <2>4, <2>5
<1> QED  BY <1>2, <1>3 DEF NoDanglingWaiter, Distinct

(* A step that leaves the list and the nodes' owners where they may be. *)
LEMMA SameListSafe ==
    ASSUME IInv, waiters' = waiters, linked' = linked, woken' = woken,
           \A u \in Tasks : Listed(waiters, u) /\ pc[u] \in {"pending", "check", "park", "won"}
                            /\ ~woken[u] /\ linked[u]
                            => pc'[u] \in {"pending", "check", "park", "won"}
    PROVE  NoDanglingWaiter'
<1>1. \A i \in 1..Len(waiters) : waiters[i] \in Tasks /\ Listed(waiters, waiters[i])
  BY DEF IInv, TypeOK, Listed
<1> QED  BY <1>1 DEF IInv, NoDanglingWaiter

(* A node whose future is at none of the four places is not in the list. *)
LEMMA NotListed ==
    ASSUME IInv, NEW t \in Tasks,
           \/ pc[t] \notin {"pending", "check", "park", "won"}
           \/ ~linked[t]
           \/ woken[t]
    PROVE  ~Listed(waiters, t)
  BY DEF IInv, NoDanglingWaiter, Listed

(* Every step of a poll(), an unlock(), a lock() or a drop preserves it. *)
LEMMA NextInv == IInv /\ [Next]_vars => IInv'
<1> SUFFICES ASSUME IInv, [Next]_vars PROVE IInv'
  OBVIOUS
<1> USE DEF IInv
<1>1. CASE UNCHANGED vars
  BY <1>1 DEF vars, TypeOK, MutualExclusion, HasGuard, NoDanglingWaiter, FreshNode
<1>2. ASSUME NEW t \in Tasks, TryLock(t) PROVE IInv'
  <2> USE <1>2 DEF TryLock
  <2>1. TypeOK'            BY DEF TypeOK, Locations
  <2>2. MutualExclusion'   BY DEF TypeOK, MutualExclusion, HasGuard
  <2>3. NoDanglingWaiter'  BY NotListed, SameListSafe DEF TypeOK
  <2>4. FreshNode'         BY DEF TypeOK, FreshNode
  <2> QED  BY <2>1, <2>2, <2>3, <2>4
<1>3. ASSUME NEW t \in Tasks, Lock(t) PROVE IInv'
  <2> USE <1>3 DEF Lock
  <2>1. TypeOK'            BY DEF TypeOK, Locations
  <2>2. MutualExclusion'   BY DEF TypeOK, MutualExclusion, HasGuard
  <2>3. NoDanglingWaiter'
    <3>1. ~Listed(waiters, t)  BY NotListed
    <3>2. \A i \in 1..Len(waiters) : waiters[i] \in Tasks /\ waiters[i] # t
      BY <3>1 DEF TypeOK, Listed
    <3> QED  BY <3>2 DEF TypeOK, NoDanglingWaiter
  <2>4. FreshNode'         BY DEF TypeOK, FreshNode
  <2> QED  BY <2>1, <2>2, <2>3, <2>4
<1>4. ASSUME NEW t \in Tasks, PollAcquire(t) PROVE IInv'
  <2> USE <1>4 DEF PollAcquire, CanPoll
  <2>1. TypeOK'            BY DEF TypeOK, Locations
  <2>2. MutualExclusion'   BY DEF TypeOK, MutualExclusion, HasGuard
  <2>3. NoDanglingWaiter'  BY SameListSafe DEF TypeOK
  <2>4. FreshNode'         BY DEF TypeOK, FreshNode
  <2> QED  BY <2>1, <2>2, <2>3, <2>4
<1>5. ASSUME NEW t \in Tasks, PollContended(t) PROVE IInv'
  <2> USE <1>5 DEF PollContended, CanPoll
  <2>1. TypeOK'            BY DEF TypeOK, Locations
  <2>2. MutualExclusion'   BY DEF TypeOK, MutualExclusion, HasGuard
  <2>3. NoDanglingWaiter'  BY SameListSafe DEF TypeOK
  <2>4. FreshNode'         BY DEF TypeOK, FreshNode
  <2> QED  BY <2>1, <2>2, <2>3, <2>4
<1>6. ASSUME NEW t \in Tasks, UnlinkWinner(t) PROVE IInv'
  <2> USE <1>6 DEF UnlinkWinner
  <2>0. /\ waiters' \in Seq(Tasks)
        /\ Thinned(waiters', waiters)
        /\ ~Listed(waiters', t)
    BY UnlinkThins DEF TypeOK, NoDanglingWaiter, Distinct
  <2>1. TypeOK'            BY <2>0 DEF TypeOK, Locations
  <2>2. MutualExclusion'   BY DEF TypeOK, MutualExclusion, HasGuard
  <2>3. NoDanglingWaiter'  BY <2>0, ThinnedSafe DEF TypeOK
  <2>4. FreshNode'         BY DEF TypeOK, FreshNode
  <2> QED  BY <2>1, <2>2, <2>3, <2>4
<1>7. ASSUME NEW t \in Tasks, LinkNode(t) PROVE IInv'
  <2> USE <1>7 DEF LinkNode, Link
  <2>1. TypeOK'            BY DEF TypeOK, Locations
  <2>2. MutualExclusion'   BY DEF TypeOK, MutualExclusion, HasGuard
  <2>3. NoDanglingWaiter'
    <3>1. ~Listed(waiters, t)  BY NotListed
    <3>2. \A i \in 1..Len(waiters) : waiters[i] \in Tasks /\ waiters[i] # t
      BY <3>1 DEF TypeOK, Listed
    <3>3. /\ Len(waiters') = Len(waiters) + 1
          /\ waiters'[Len(waiters) + 1] = t
          /\ \A i \in 1..Len(waiters) : waiters'[i] = waiters[i]
      BY DEF TypeOK
    <3>4. Len(waiters) \in Nat
      BY DEF TypeOK
    <3>5. ~woken[t]
      BY DEF FreshNode
    <3>6. \A i \in 1..Len(waiters') :
             \/ i \in 1..Len(waiters)
             \/ i = Len(waiters) + 1
      BY <3>3, <3>4
    <3>7. \A i \in 1..Len(waiters') :
             /\ pc'[waiters'[i]] \in {"pending", "check", "park", "won"}
             /\ linked'[waiters'[i]]
             /\ ~woken'[waiters'[i]]
      BY <3>2, <3>3, <3>5, <3>6 DEF TypeOK, NoDanglingWaiter
    <3>8. \A i, j \in 1..Len(waiters') : waiters'[i] = waiters'[j] => i = j
      BY <3>2, <3>3, <3>6 DEF NoDanglingWaiter
    <3> QED  BY <3>7, <3>8 DEF NoDanglingWaiter
  <2>4. FreshNode'         BY DEF TypeOK, FreshNode
  <2> QED  BY <2>1, <2>2, <2>3, <2>4
<1>8. ASSUME NEW t \in Tasks, CheckWoken(t) PROVE IInv'
  <2> USE <1>8 DEF CheckWoken
  <2>1. TypeOK'            BY DEF TypeOK, Locations
  <2>2. MutualExclusion'   BY DEF TypeOK, MutualExclusion, HasGuard
  <2>3. NoDanglingWaiter'  BY SameListSafe DEF TypeOK
  <2>4. FreshNode'         BY DEF TypeOK, FreshNode
  <2> QED  BY <2>1, <2>2, <2>3, <2>4
<1>9. ASSUME NEW t \in Tasks, Rewake(t) PROVE IInv'
  <2> USE <1>9 DEF Rewake
  <2>0. /\ waiters' \in Seq(Tasks)
        /\ Thinned(waiters', waiters)
        /\ ~Listed(waiters', t)
    BY UnlinkThins DEF TypeOK, NoDanglingWaiter, Distinct
  <2>1. TypeOK'            BY <2>0 DEF TypeOK, Locations
  <2>2. MutualExclusion'   BY DEF TypeOK, MutualExclusion, HasGuard
  <2>3. NoDanglingWaiter'  BY <2>0, ThinnedSafe DEF TypeOK
  <2>4. FreshNode'         BY DEF TypeOK, FreshNode
  <2> QED  BY <2>1, <2>2, <2>3, <2>4
<1>10. ASSUME NEW t \in Tasks, Park(t) PROVE IInv'
  <2> USE <1>10 DEF Park
  <2>1. TypeOK'            BY DEF TypeOK, Locations
  <2>2. MutualExclusion'   BY DEF TypeOK, MutualExclusion, HasGuard
  <2>3. NoDanglingWaiter'  BY SameListSafe DEF TypeOK
  <2>4. FreshNode'         BY DEF TypeOK, FreshNode
  <2> QED  BY <2>1, <2>2, <2>3, <2>4
<1>11. ASSUME NEW t \in Tasks, DropFuture(t) PROVE IInv'
  <2> USE <1>11 DEF DropFuture
  <2>0. /\ waiters' \in Seq(Tasks)
        /\ Thinned(waiters', waiters)
        /\ ~Listed(waiters', t)
    <3>1. waiters' = Unlink(waiters, t)
      BY NotListed DEF Unlink
    <3>2. waiters \in Seq(Tasks) /\ Distinct(waiters)
      BY DEF TypeOK, NoDanglingWaiter, Distinct
    <3> QED  BY <3>1, <3>2, UnlinkThins
  <2>1. TypeOK'            BY <2>0 DEF TypeOK, Locations
  <2>2. MutualExclusion'   BY DEF TypeOK, MutualExclusion, HasGuard
  <2>3. NoDanglingWaiter'  BY <2>0, ThinnedSafe DEF TypeOK
  <2>4. FreshNode'         BY DEF TypeOK, FreshNode
  <2> QED  BY <2>1, <2>2, <2>3, <2>4
<1>12. ASSUME NEW t \in Tasks, Release(t) PROVE IInv'
  <2> USE <1>12 DEF Release
  <2>1. TypeOK'            BY DEF TypeOK, Locations
  <2>2. MutualExclusion'   BY DEF TypeOK, MutualExclusion, HasGuard
  <2>3. NoDanglingWaiter'  BY SameListSafe DEF TypeOK
  <2>4. FreshNode'         BY DEF TypeOK, FreshNode
  <2> QED  BY <2>1, <2>2, <2>3, <2>4
<1>13. ASSUME NEW t \in Tasks, PopWaiter(t) PROVE IInv'
  <2>1. PICK k \in 1..Len(waiters) :
          /\ waiters' = SubSeq(waiters, k + 1, Len(waiters))
          /\ waker' = [waker EXCEPT ![waiters[k]] = FALSE]
          /\ woken' = [woken EXCEPT ![waiters[k]] = TRUE]
          /\ target' = [target EXCEPT ![t] = waiters[k]]
    BY <1>13 DEF PopWaiter
  <2>2. /\ pc[t] = "unlock"
        /\ pc' = [pc EXCEPT ![t] = "wake"]
        /\ UNCHANGED <<locked, linked, notified>>
    BY <1>13 DEF PopWaiter
  <2>3. waiters[k] \in Tasks
    BY DEF TypeOK
  <2>4. waiters[k] # t /\ linked[waiters[k]]
    BY <2>2 DEF NoDanglingWaiter
  <2>5. /\ waiters' \in Seq(Tasks)
        /\ Thinned(waiters', waiters)
        /\ ~Listed(waiters', waiters[k])
        /\ Distinct(waiters)
    <3>1. Distinct(waiters) /\ waiters \in Seq(Tasks)
      BY DEF TypeOK, NoDanglingWaiter, Distinct
    <3> QED  BY <2>1, <3>1, SuffixThins
  <2>6. ~Listed(waiters', t)
    <3>1. ~Listed(waiters, t)
      BY <2>2, NotListed
    <3>2. \A m \in 1..Len(waiters') : \E i \in 1..Len(waiters) : waiters'[m] = waiters[i]
      BY <2>5, ThinnedKeeps DEF TypeOK
    <3> QED  BY <3>1, <3>2 DEF Listed
  <2>7. TypeOK'            BY NoTaskAssumption, <2>1, <2>2, <2>3, <2>5 DEF TypeOK, Locations
  <2>8. MutualExclusion'   BY <2>2 DEF TypeOK, MutualExclusion, HasGuard
  <2>9. NoDanglingWaiter'
    <3>1. \A u \in Tasks \ {t} : pc'[u] = pc[u] /\ linked'[u] = linked[u]
      BY <2>2 DEF TypeOK
    <3>2. \A u \in Tasks \ {t} : Listed(waiters', u) => woken'[u] = woken[u]
      BY <2>1, <2>5 DEF TypeOK
    <3> QED  BY <2>5, <2>6, <3>1, <3>2, ThinnedSafe
  <2>10. FreshNode'        BY <2>1, <2>2, <2>3, <2>4 DEF TypeOK, FreshNode
  <2> QED  BY <2>7, <2>8, <2>9, <2>10
<1>14. ASSUME NEW t \in Tasks, PopNone(t) PROVE IInv'
  <2> USE <1>14 DEF PopNone
  <2>1. TypeOK'            BY DEF TypeOK, Locations
  <2>2. MutualExclusion'   BY DEF TypeOK, MutualExclusion, HasGuard
  <2>3. NoDanglingWaiter'
    <3>1. 1..Len(waiters') = {}
      OBVIOUS
    <3> QED  BY <3>1 DEF NoDanglingWaiter
  <2>4. FreshNode'         BY DEF TypeOK, FreshNode
  <2> QED  BY <2>1, <2>2, <2>3, <2>4
<1>15. ASSUME NEW t \in Tasks, Wake(t) PROVE IInv'
  <2> USE <1>15 DEF Wake
  <2>1. TypeOK'            BY DEF TypeOK, Locations
  <2>2. MutualExclusion'   BY DEF TypeOK, MutualExclusion, HasGuard
  <2>3. NoDanglingWaiter'  BY SameListSafe DEF TypeOK
  <2>4. FreshNode'         BY DEF TypeOK, FreshNode
  <2> QED  BY <2>1, <2>2, <2>3, <2>4
<1> QED
  BY <1>1, <1>2, <1>3, <1>4, <1>5, <1>6, <1>7, <1>8, <1>9, <1>10, <1>11, <1>12,
     <1>13, <1>14, <1>15 DEF Next, Run

(***************************************************************************)
(* The wait list and the exclusion of guards are sound in every reachable  *)
(* state: the inductive invariant of mutex.rs.                             *)
(***************************************************************************)
THEOREM Invariance == Spec => []IInv
  BY InitInv, NextInv, PTL DEF Spec

(* Every state is well-formed. *)
THEOREM TypeCorrect == Spec => []TypeOK
<1>1. IInv => TypeOK
  BY DEF IInv
<1> QED  BY <1>1, Invariance, PTL

(* At most one guard exists, and only while `locked` is set. *)
THEOREM Exclusion == Spec => []MutualExclusion
<1>1. IInv => MutualExclusion
  BY DEF IInv
<1> QED  BY <1>1, Invariance, PTL

(* No pointer of the wait list outlives the future its node lives in. *)
THEOREM ListSoundness == Spec => []NoDanglingWaiter
<1>1. IInv => NoDanglingWaiter
  BY DEF IInv
<1> QED  BY <1>1, Invariance, PTL

----------------------------------------------------------------------------
(* Only unlock()'s pop flags a listed node; a step that flags none and takes
   nodes out of the list keeps the order. *)
LEMMA QuietFifo ==
    ASSUME IInv, waiters' \in Seq(Tasks), Thinned(waiters', waiters),
           \A u \in Tasks : woken'[u] => woken[u]
    PROVE  FifoStep
<1>1. Distinct(waiters) /\ waiters \in Seq(Tasks)
  BY DEF IInv, TypeOK, NoDanglingWaiter, Distinct
<1>2. \A j \in 1..Len(waiters) : ~woken'[waiters[j]]
  BY DEF IInv, TypeOK, NoDanglingWaiter
<1>3. \A i, j \in 1..Len(waiters) : i < j =>
         \A m, n \in 1..Len(waiters') :
            waiters'[m] = waiters[i] /\ waiters'[n] = waiters[j] => m < n
  <2> HIDE DEF Distinct, Thinned
  <2> QED  BY ONLY <1>1, waiters' \in Seq(Tasks), Thinned(waiters', waiters), ThinnedKeeps
<1>4. \A n \in 1..Len(waiters') : Listed(waiters, waiters'[n])
  BY <1>1, ThinnedKeeps DEF Listed
<1> QED  BY ONLY <1>2, <1>3, <1>4 DEF FifoStep

(* No step flags a task past a parked one, or lets a node overtake another. *)
LEMMA NextFifo == IInv /\ [Next]_vars => [FifoStep]_vars
<1> SUFFICES ASSUME IInv, Next PROVE FifoStep
  OBVIOUS
<1>0. Distinct(waiters) /\ waiters \in Seq(Tasks) /\ Thinned(waiters, waiters)
  BY ThinnedRefl DEF IInv, TypeOK, NoDanglingWaiter, Distinct
<1>1. ASSUME NEW t \in Tasks,
             \/ TryLock(t) \/ Lock(t) \/ PollAcquire(t) \/ PollContended(t)
             \/ CheckWoken(t) \/ Park(t) \/ Release(t) \/ Wake(t)
      PROVE  FifoStep
  <2>1. waiters' = waiters
    BY <1>1 DEF TryLock, Lock, PollAcquire, PollContended, CheckWoken, Park, Release, Wake
  <2>2. \A u \in Tasks : woken'[u] => woken[u]
    BY <1>1 DEF IInv, TypeOK, TryLock, Lock, PollAcquire, PollContended, CheckWoken,
                Park, Release, Wake
  <2> QED  BY <1>0, <2>1, <2>2, QuietFifo
<1>2. ASSUME NEW t \in Tasks, UnlinkWinner(t) \/ Rewake(t) \/ DropFuture(t)
      PROVE  FifoStep
  <2>1. waiters' = Unlink(waiters, t) \/ waiters' = waiters
    BY <1>2 DEF UnlinkWinner, Rewake, DropFuture
  <2>2. waiters' \in Seq(Tasks) /\ Thinned(waiters', waiters)
    BY <1>0, <2>1, UnlinkThins
  <2>3. \A u \in Tasks : woken'[u] => woken[u]
    BY <1>2 DEF IInv, TypeOK, UnlinkWinner, Rewake, DropFuture
  <2> QED  BY <2>2, <2>3, QuietFifo
<1>3. ASSUME NEW t \in Tasks, LinkNode(t) PROVE FifoStep
  <2>1. waiters' = Append(waiters, t) /\ woken' = woken
    BY <1>3 DEF LinkNode, Link
  <2>2. ~Listed(waiters, t)
    BY <1>3, NotListed DEF LinkNode
  <2>3. Len(waiters') = Len(waiters) + 1 /\ Len(waiters) \in Nat
        /\ waiters'[Len(waiters) + 1] = t
        /\ \A i \in 1..Len(waiters) : waiters'[i] = waiters[i] /\ waiters[i] # t
    BY <1>0, <2>1, <2>2 DEF Listed
  <2>4. \A j \in 1..Len(waiters) : ~woken'[waiters[j]]
    BY <2>1 DEF IInv, NoDanglingWaiter
  <2>5. \A i, m \in Nat : i \in 1..Len(waiters) /\ m \in 1..Len(waiters')
                          /\ waiters'[m] = waiters[i] => m = i
    <3> SUFFICES ASSUME NEW i \in 1..Len(waiters), NEW m \in 1..Len(waiters'),
                        waiters'[m] = waiters[i]
                 PROVE  m = i
      OBVIOUS
    <3>1. m # Len(waiters) + 1
      BY <2>3
    <3>2. m \in 1..Len(waiters)
      BY <2>3, <3>1
    <3> QED  BY <1>0, <2>3, <3>2 DEF Distinct
  <2>6. ASSUME NEW m \in 1..Len(waiters'), NEW n \in 1..Len(waiters'),
               Listed(waiters, waiters'[m]), ~Listed(waiters, waiters'[n])
        PROVE  m < n
    <3>1. m # Len(waiters) + 1
      BY <2>2, <2>3, <2>6
    <3>2. n = Len(waiters) + 1
      BY <2>3, <2>6 DEF Listed
    <3> QED  BY <2>3, <3>1, <3>2
  <2> QED  BY <2>4, <2>5, <2>6 DEF FifoStep
<1>4. ASSUME NEW t \in Tasks, PopWaiter(t) PROVE FifoStep
  <2>1. PICK k \in 1..Len(waiters) :
          /\ FirstParked(k)
          /\ waiters' = SubSeq(waiters, k + 1, Len(waiters))
          /\ woken' = [woken EXCEPT ![waiters[k]] = TRUE]
    BY <1>4 DEF PopWaiter
  <2>2. waiters' \in Seq(Tasks) /\ Thinned(waiters', waiters)
    BY <1>0, <2>1, SuffixThins
  <2>3. ASSUME NEW i \in 1..Len(waiters), NEW j \in 1..Len(waiters), i < j,
               waker[waiters[i]], woken'[waiters[j]]
        PROVE  FALSE
    <3>1. ~woken[waiters[j]] /\ waiters[j] \in Tasks
      BY <1>0 DEF IInv, NoDanglingWaiter
    <3>2. waiters[j] = waiters[k]
      BY <2>1, <2>3, <3>1 DEF IInv, TypeOK
    <3>3. j = k
      BY <1>0, <3>2 DEF Distinct
    <3>4. i \in 1..(k - 1)
      BY <2>3, <3>3
    <3> QED  BY <2>1, <2>3, <3>4 DEF FirstParked
  <2>4. \A i, j \in 1..Len(waiters) : i < j =>
            \A m, n \in 1..Len(waiters') :
               waiters'[m] = waiters[i] /\ waiters'[n] = waiters[j] => m < n
    BY <1>0, <2>2, ThinnedKeeps
  <2>5. \A n \in 1..Len(waiters') : Listed(waiters, waiters'[n])
    BY <1>0, <2>2, ThinnedKeeps DEF Listed
  <2> QED  BY <2>3, <2>4, <2>5 DEF FifoStep
<1>5. ASSUME NEW t \in Tasks, PopNone(t) PROVE FifoStep
  <2>1. waiters' = <<>> /\ woken' = woken
    BY <1>5 DEF PopNone
  <2>2. 1..Len(waiters') = {}
    BY <2>1
  <2>3. \A j \in 1..Len(waiters) : ~woken'[waiters[j]]
    BY <2>1 DEF IInv, NoDanglingWaiter
  <2> QED  BY <2>2, <2>3 DEF FifoStep
<1> QED
  BY <1>1, <1>2, <1>3, <1>4, <1>5 DEF Next, Run

(* unlock() wakes parked waiters in the order in which they were linked. *)
THEOREM Fifo == Spec => FifoOrder
<1>1. IInv /\ [Next]_vars => [FifoStep]_vars
  BY NextFifo
<1> QED  BY <1>1, Invariance, PTL DEF Spec, FifoOrder
=============================================================================
