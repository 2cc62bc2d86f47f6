---------------------------- MODULE AsyncMutex ----------------------------
(***************************************************************************)
(* The cooperative mutex of async/src/common/mutex.rs, at the grain of its *)
(* atomic accesses: one step per access to `locked`, per critical section  *)
(* of the spin lock around the wait list, and per unlocked access to a     *)
(* waiter node (`woken` and `waker` are read and written by poll() without *)
(* the list lock while unlock() touches them under it).                    *)
(*                                                                         *)
(* A task runs lock().await: it creates a LockFuture, which its executor   *)
(* polls until it is Ready or drops at any await point.  The wait list is  *)
(* the sequence of its nodes from head to tail, a node is named by the     *)
(* task whose LockFuture it lives in, and a stored Waker is reduced to its *)
(* presence (the polls of one task always store equivalent wakers).        *)
(***************************************************************************)
EXTENDS Naturals, Sequences

CONSTANTS Tasks,    \* the tasks that use the mutex, on any cores
          NoTask,   \* no waker to call
          Repolls   \* TRUE: the executor polls Pending futures on every pass,
                    \* as the executors of this crate do;  FALSE: it polls
                    \* only a task whose waker was called

ASSUME RepollsAssumption == Repolls \in BOOLEAN

ASSUME NoTaskAssumption == NoTask \notin Tasks

VARIABLES locked,    \* AsyncMutex::locked
          waiters,   \* AsyncMutex::waiters, head first
          linked,    \* LockFuture::linked, per task
          woken,     \* Waiter::woken
          waker,     \* Waiter::waker is Some
          notified,  \* the executor has been asked to poll this task
          pc,        \* where the task is (see Locations)
          target     \* the task whose waker unlock() took out of the list

vars == <<locked, waiters, linked, woken, waker, notified, pc, target>>

(***************************************************************************)
(* idle     no future and no guard                                         *)
(* pending  a LockFuture exists and is not being polled                    *)
(* slow     poll(): try_lock failed                                        *)
(* check    poll(): the node is linked, `woken` not read yet               *)
(* rewake   poll(): `woken` was read as true                               *)
(* park     poll(): `woken` was read as false, the waker not stored yet    *)
(* won      poll(): try_lock succeeded, the node still has to be unlinked  *)
(* held     the task owns a Guard                                          *)
(* unlock   unlock(): `locked` is false again, the list not visited yet    *)
(* wake     unlock(): a waker was taken out, not called yet                *)
(***************************************************************************)
Locations == {"idle", "pending", "slow", "check", "rewake", "park", "won",
              "held", "unlock", "wake"}

----------------------------------------------------------------------------
Listed(s, t) == \E i \in 1..Len(s) : s[i] = t

(***************************************************************************)
(* unlink(): walk from the head and take the node out where it is found;   *)
(* leave the list alone when it is not in it.                              *)
(***************************************************************************)
Unlink(s, t) ==
    IF Listed(s, t)
    THEN LET i == CHOOSE k \in 1..Len(s) :
                      /\ s[k] = t
                      /\ \A j \in 1..(k - 1) : s[j] # t
         IN  [j \in 1..(Len(s) - 1) |-> IF j < i THEN s[j] ELSE s[j + 1]]
    ELSE s

(* link(): append the node at the tail. *)
Link(s, t) == Append(s, t)

(* Mutant: the loop of unlock() goes on past nodes that hold a waker. *)
LastParked(k) ==
    /\ waker[waiters[k]]
    /\ \A j \in (k + 1)..Len(waiters) : ~waker[waiters[j]]

(***************************************************************************)
(* The loop of unlock() pops nodes until one holds a waker: it stops at    *)
(* the first such node, or empties the list.                               *)
(***************************************************************************)
FirstParked(k) ==
    /\ waker[waiters[k]]
    /\ \A j \in 1..(k - 1) : ~waker[waiters[j]]

NoneParked == \A k \in 1..Len(waiters) : ~waker[waiters[k]]

----------------------------------------------------------------------------
Init ==
    /\ locked = FALSE
    /\ waiters = <<>>
    /\ linked = [t \in Tasks |-> FALSE]
    /\ woken = [t \in Tasks |-> FALSE]
    /\ waker = [t \in Tasks |-> FALSE]
    /\ notified = [t \in Tasks |-> FALSE]
    /\ pc = [t \in Tasks |-> "idle"]
    /\ target = [t \in Tasks |-> NoTask]

(* try_lock() called directly; a failed call changes nothing. *)
TryLock(t) ==
    /\ pc[t] = "idle"
    /\ ~locked
    /\ locked' = TRUE
    /\ pc' = [pc EXCEPT ![t] = "held"]
    /\ UNCHANGED <<waiters, linked, woken, waker, notified, target>>

(* lock(): a fresh, unlinked node; the running task polls it at once. *)
Lock(t) ==
    /\ pc[t] = "idle"
    /\ linked' = [linked EXCEPT ![t] = FALSE]
    /\ woken' = [woken EXCEPT ![t] = FALSE]
    /\ waker' = [waker EXCEPT ![t] = FALSE]
    /\ notified' = [notified EXCEPT ![t] = TRUE]
    /\ pc' = [pc EXCEPT ![t] = "pending"]
    /\ UNCHANGED <<locked, waiters, target>>

CanPoll(t) == pc[t] = "pending" /\ (Repolls \/ notified[t])

(* Mutant: the flag is tested, then set, by a poll that does not re-test. *)
PollAcquireRacy(t) ==
    /\ CanPoll(t)
    /\ locked' = TRUE
    /\ notified' = [notified EXCEPT ![t] = FALSE]
    /\ pc' = [pc EXCEPT ![t] = IF linked[t] THEN "won" ELSE "held"]
    /\ UNCHANGED <<waiters, linked, woken, waker, target>>

(* poll(), the try_lock that succeeds. *)
PollAcquire(t) ==
    /\ CanPoll(t)
    /\ ~locked
    /\ locked' = TRUE
    /\ notified' = [notified EXCEPT ![t] = FALSE]
    /\ pc' = [pc EXCEPT ![t] = IF linked[t] THEN "won" ELSE "held"]
    /\ UNCHANGED <<waiters, linked, woken, waker, target>>

(* poll(), the try_lock that fails. *)
PollContended(t) ==
    /\ CanPoll(t)
    /\ locked
    /\ notified' = [notified EXCEPT ![t] = FALSE]
    /\ pc' = [pc EXCEPT ![t] = IF linked[t] THEN "check" ELSE "slow"]
    /\ UNCHANGED <<locked, waiters, linked, woken, waker, target>>

(* poll(): the winner was linked, it unlinks its node and is Ready. *)
UnlinkWinner(t) ==
    /\ pc[t] = "won"
    /\ waiters' = Unlink(waiters, t)
    /\ linked' = [linked EXCEPT ![t] = FALSE]
    /\ pc' = [pc EXCEPT ![t] = "held"]
    /\ UNCHANGED <<locked, woken, waker, notified, target>>

(* poll(): link the node, once. *)
LinkNode(t) ==
    /\ pc[t] = "slow"
    /\ waiters' = Link(waiters, t)
    /\ linked' = [linked EXCEPT ![t] = TRUE]
    /\ pc' = [pc EXCEPT ![t] = "check"]
    /\ UNCHANGED <<locked, woken, waker, notified, target>>

(* poll(): read `woken` without the list lock. *)
CheckWoken(t) ==
    /\ pc[t] = "check"
    /\ pc' = [pc EXCEPT ![t] = IF woken[t] THEN "rewake" ELSE "park"]
    /\ UNCHANGED <<locked, waiters, linked, woken, waker, notified, target>>

(* poll(): it was popped; unlink, reset the node and ask for another poll. *)
Rewake(t) ==
    /\ pc[t] = "rewake"
    /\ waiters' = Unlink(waiters, t)
    /\ linked' = [linked EXCEPT ![t] = FALSE]
    /\ woken' = [woken EXCEPT ![t] = FALSE]
    /\ notified' = [notified EXCEPT ![t] = TRUE]
    /\ pc' = [pc EXCEPT ![t] = "pending"]
    /\ UNCHANGED <<locked, waker, target>>

(* poll(): store the waker, without the list lock, and return Pending. *)
Park(t) ==
    /\ pc[t] = "park"
    /\ waker' = [waker EXCEPT ![t] = TRUE]
    /\ pc' = [pc EXCEPT ![t] = "pending"]
    /\ UNCHANGED <<locked, waiters, linked, woken, notified, target>>

(* Mutant: dropping a LockFuture leaves its node in the list. *)
DropFutureLeak(t) ==
    /\ pc[t] = "pending"
    /\ linked' = [linked EXCEPT ![t] = FALSE]
    /\ woken' = [woken EXCEPT ![t] = FALSE]
    /\ waker' = [waker EXCEPT ![t] = FALSE]
    /\ notified' = [notified EXCEPT ![t] = FALSE]
    /\ pc' = [pc EXCEPT ![t] = "idle"]
    /\ UNCHANGED <<locked, waiters, target>>

(* Drop of a LockFuture between two polls (a lost select!, a timeout). *)
DropFuture(t) ==
    /\ pc[t] = "pending"
    /\ waiters' = IF linked[t] THEN Unlink(waiters, t) ELSE waiters
    /\ linked' = [linked EXCEPT ![t] = FALSE]
    /\ woken' = [woken EXCEPT ![t] = FALSE]
    /\ waker' = [waker EXCEPT ![t] = FALSE]
    /\ notified' = [notified EXCEPT ![t] = FALSE]
    /\ pc' = [pc EXCEPT ![t] = "idle"]
    /\ UNCHANGED <<locked, target>>

(* Mutant: unlock() visits the list without releasing the flag. *)
ReleaseKeepsFlag(t) ==
    /\ pc[t] = "held"
    /\ pc' = [pc EXCEPT ![t] = "unlock"]
    /\ UNCHANGED <<locked, waiters, linked, woken, waker, notified, target>>

(* Drop of the Guard: unlock() releases the flag first ... *)
Release(t) ==
    /\ pc[t] = "held"
    /\ locked' = FALSE
    /\ pc' = [pc EXCEPT ![t] = "unlock"]
    /\ UNCHANGED <<waiters, linked, woken, waker, notified, target>>

(* ... then pops the oldest node that holds a waker, under the list lock, *)
PopWaiter(t) ==
    /\ pc[t] = "unlock"
    /\ \E k \in 1..Len(waiters) :
          /\ FirstParked(k)
          /\ waiters' = SubSeq(waiters, k + 1, Len(waiters))
          /\ waker' = [waker EXCEPT ![waiters[k]] = FALSE]
          /\ woken' = [woken EXCEPT ![waiters[k]] = TRUE]
          /\ target' = [target EXCEPT ![t] = waiters[k]]
    /\ pc' = [pc EXCEPT ![t] = "wake"]
    /\ UNCHANGED <<locked, linked, notified>>

(* Mutant: unlock() calls the waker without having found one. *)
PopNoneWakes(t) ==
    /\ pc[t] = "unlock"
    /\ NoneParked
    /\ waiters' = <<>>
    /\ pc' = [pc EXCEPT ![t] = "wake"]
    /\ UNCHANGED <<locked, linked, woken, waker, notified, target>>

(* or, when none does, all the nodes there are, *)
PopNone(t) ==
    /\ pc[t] = "unlock"
    /\ NoneParked
    /\ waiters' = <<>>
    /\ pc' = [pc EXCEPT ![t] = "idle"]
    /\ UNCHANGED <<locked, linked, woken, waker, notified, target>>

(* and calls the waker outside the lock: the future may be gone by then. *)
Wake(t) ==
    /\ pc[t] = "wake"
    /\ notified' = [notified EXCEPT ![target[t]] = TRUE]
    /\ target' = [target EXCEPT ![t] = NoTask]
    /\ pc' = [pc EXCEPT ![t] = "idle"]
    /\ UNCHANGED <<locked, waiters, linked, woken, waker>>

(* The steps of a poll() or an unlock() that is under way, or due. *)
Run(t) ==
    \/ PollAcquire(t) \/ PollContended(t) \/ UnlinkWinner(t) \/ LinkNode(t)
    \/ CheckWoken(t) \/ Rewake(t) \/ Park(t)
    \/ PopWaiter(t) \/ PopNone(t) \/ Wake(t)

Next == \E t \in Tasks :
    Run(t) \/ TryLock(t) \/ Lock(t) \/ DropFuture(t) \/ Release(t)

Spec == Init /\ [][Next]_vars

(***************************************************************************)
(* A core never stops in the middle of a poll or an unlock, polls the      *)
(* futures it is to poll, and a task that owns the guard finally drops it. *)
(***************************************************************************)
Fairness == \A t \in Tasks : WF_vars(Run(t)) /\ WF_vars(Release(t))

FairSpec == Spec /\ Fairness

----------------------------------------------------------------------------
(* Every variable has its type, and unlock() wakes only with a waker. *)
TypeOK ==
    /\ locked \in BOOLEAN
    /\ waiters \in Seq(Tasks)
    /\ linked \in [Tasks -> BOOLEAN]
    /\ woken \in [Tasks -> BOOLEAN]
    /\ waker \in [Tasks -> BOOLEAN]
    /\ notified \in [Tasks -> BOOLEAN]
    /\ pc \in [Tasks -> Locations]
    /\ target \in [Tasks -> Tasks \cup {NoTask}]
    /\ \A t \in Tasks : pc[t] = "wake" => target[t] # NoTask

HasGuard(t) == pc[t] \in {"won", "held"}

(***************************************************************************)
(* `&mut T` is only handed out under exclusion: at most one guard, and     *)
(* only while `locked` is set, in spite of unlock() clearing the flag      *)
(* before it visits the list and of tasks that barge in.                   *)
(***************************************************************************)
MutualExclusion ==
    /\ \A t, u \in Tasks : HasGuard(t) /\ HasGuard(u) => t = u
    /\ locked <=> \E t \in Tasks : HasGuard(t)

(***************************************************************************)
(* The raw pointers of the list never dangle: whatever drops, wins and     *)
(* pops race, a node that is listed lives in a LockFuture that exists and  *)
(* knows it has to unlink it, and it is listed once.                       *)
(***************************************************************************)
NoDanglingWaiter ==
    /\ \A i \in 1..Len(waiters) :
          /\ pc[waiters[i]] \in {"pending", "check", "park", "won"}
          /\ linked[waiters[i]]
          /\ ~woken[waiters[i]]
    /\ \A i, j \in 1..Len(waiters) : waiters[i] = waiters[j] => i = j

(***************************************************************************)
(* Waiters are woken in FIFO order: no step flags a task as woken that     *)
(* stands in the list behind one that is parked (waker stored), no step    *)
(* swaps two nodes, and a new node comes after all that are there.         *)
(***************************************************************************)
FifoStep ==
    /\ \A i, j \in 1..Len(waiters) : i < j =>
          /\ ~(waker[waiters[i]] /\ woken'[waiters[j]])
          /\ \A m, n \in 1..Len(waiters') :
                waiters'[m] = waiters[i] /\ waiters'[n] = waiters[j] => m < n
    /\ \A m, n \in 1..Len(waiters') :
          Listed(waiters, waiters'[m]) /\ ~Listed(waiters, waiters'[n]) => m < n

FifoOrder == [][FifoStep]_vars

Waiting(t) == pc[t] \in {"pending", "slow", "check", "rewake", "park"}

(***************************************************************************)
(* As long as Pending futures are polled again, contention resolves: while *)
(* a task waits for the mutex, some task gets it (or this one gives up),   *)
(* whatever wakeups were lost.                                             *)
(***************************************************************************)
MutexProgress ==
    \A t \in Tasks :
        Waiting(t) ~> (\E u \in Tasks : HasGuard(u)) \/ pc[t] = "idle"

(***************************************************************************)
(* "No lost wakeup": when nothing is under way and the mutex is free, one  *)
(* of the tasks that wait for it has been asked to run.                    *)
(***************************************************************************)
NoLostWakeup ==
    /\ ~locked
    /\ \A t \in Tasks : pc[t] \in {"idle", "pending"}
    /\ \E t \in Tasks : pc[t] = "pending"
    => \E t \in Tasks : pc[t] = "pending" /\ notified[t]
===========================================================================
