--------------------------- MODULE StaticExecutor ---------------------------
(***************************************************************************)
(* The heapless executor of async/src/no_alloc: a TaskPool of static slots *)
(* (task.rs), one Executor per core with a work-stealing queue of slot     *)
(* pointers (executor.rs), and the wakers handed to the polled futures     *)
(* (waker.rs).  Each access to a slot's atomic state and each operation on *)
(* a queue is a step; the queues are taken at the level of StealDeque, to  *)
(* which module LifoQueue relates the code.                                *)
(*                                                                         *)
(* The same pointer may be queued more than once: add() and waker_wake()   *)
(* push without looking, and run_task() is to drop what is not Ready.      *)
(***************************************************************************)
EXTENDS Naturals, Sequences, FiniteSets

CONSTANTS Cores,
          Home,       \* GLOBAL_QUEUES[control], where wakers push (core 0)
          Tasks,      \* the slots of the pool
          QueueSize,  \* QUEUE_SIZE
          MaxAdds,    \* bound: add() is called at most this often per task
          Wakers,     \* who calls wakers: interrupt handlers, other tasks
          Wakeable,   \* tasks whose future hands its waker out
          MaxWakes,   \* bound: wakers are called at most this often
          MaxPolls,   \* polls after which a future is Ready at the latest
          Endless,    \* tasks whose future is never Ready
          NoTask

ASSUME ConstantsAssumption ==
    /\ IsFiniteSet(Cores) /\ IsFiniteSet(Wakers) /\ IsFiniteSet(Tasks)
    /\ Home \in Cores
    /\ QueueSize \in Nat /\ MaxAdds \in Nat /\ MaxPolls \in Nat /\ MaxWakes \in Nat
    /\ Wakeable \subseteq Tasks
    /\ Endless \subseteq Tasks
    /\ NoTask \notin Tasks

VARIABLES state,   \* TaskHeader::state
          queue,   \* GLOBAL_QUEUES, oldest entry first
          adds,    \* how often add() was called
          wakes,   \* how often a waker was called
          polls,   \* how often the future was polled, up to MaxPolls
          done,    \* the future has returned Ready
          pc,      \* where each core and each waker is
          hand     \* the pointer it works on

vars == <<state, queue, adds, wakes, polls, done, pc, hand>>

Actors == Cores \cup Wakers

(***************************************************************************)
(* idle     run(): about to pop       poll     inside the future's poll    *)
(* add      add(): push to come       finish   poll returned Ready         *)
(* run      run_task(): entered       pending  poll returned Pending       *)
(* wake     waker_wake(): push to come         requeue  Ready again, push  *)
(***************************************************************************)
Locations == {"idle", "add", "run", "poll", "finish", "pending", "requeue", "wake"}

Init ==
    /\ state = [t \in Tasks |-> "Free"]
    /\ queue = [c \in Cores |-> <<>>]
    /\ adds = [t \in Tasks |-> 0]
    /\ wakes = 0
    /\ polls = [t \in Tasks |-> 0]
    /\ done = [t \in Tasks |-> FALSE]
    /\ pc = [a \in Actors |-> "idle"]
    /\ hand = [a \in Actors |-> NoTask]

Goto(a, l, t) ==
    /\ pc' = [pc EXCEPT ![a] = l]
    /\ hand' = [hand EXCEPT ![a] = t]

(* Mutant: a push that does not look whether the queue is full. *)
PushedUnchecked(c, t) == [queue EXCEPT ![c] = Append(@, t)]

(* Queue::push; a full queue hands the pointer back, and the queue is as it was. *)
Pushed(c, t) ==
    [queue EXCEPT ![c] = IF Len(@) < QueueSize THEN Append(@, t) ELSE @]

(* TaskPool::init: claim a Free slot and write its future. *)
InitTask(c, t) ==
    /\ pc[c] = "idle"
    /\ state[t] = "Free"
    /\ state' = [state EXCEPT ![t] = "Initialized"]
    /\ UNCHANGED <<queue, adds, wakes, polls, done, pc, hand>>

(* add(): Initialized becomes Ready, any other state is left alone. *)
Add(c, t) ==
    /\ pc[c] = "idle"
    /\ state[t] # "Free"
    /\ adds[t] < MaxAdds
    /\ adds' = [adds EXCEPT ![t] = @ + 1]
    /\ state' = [state EXCEPT ![t] = IF @ = "Initialized" THEN "Ready" ELSE @]
    /\ Goto(c, "add", t)
    /\ UNCHANGED <<queue, wakes, polls, done>>

(* add(): worker.push(ptr); it panics on a full queue, which ends the core. *)
AddPush(c) ==
    /\ pc[c] = "add"
    /\ Len(queue[c]) < QueueSize
    /\ queue' = Pushed(c, hand[c])
    /\ Goto(c, "idle", NoTask)
    /\ UNCHANGED <<state, adds, wakes, polls, done>>

(* run(): worker.pop() *)
Pop(c) ==
    /\ pc[c] = "idle"
    /\ queue[c] # <<>>
    /\ Goto(c, "run", queue[c][Len(queue[c])])
    /\ queue' = [queue EXCEPT ![c] = SubSeq(@, 1, Len(@) - 1)]
    /\ UNCHANGED <<state, adds, wakes, polls, done>>

(* run(), try_steal(): the own queue is empty, take the oldest of another.  The
   code finds its queue empty first and steals then; the entry of a wake that
   pushes to it in between is popped after the stolen task. *)
TrySteal(c, v) ==
    /\ pc[c] = "idle"
    /\ queue[c] = <<>>
    /\ v # c /\ queue[v] # <<>>
    /\ Goto(c, "run", queue[v][1])
    /\ queue' = [queue EXCEPT ![v] = SubSeq(@, 2, Len(@))]
    /\ UNCHANGED <<state, adds, wakes, polls, done>>

(* Mutant: the state is tested and then stored, not compare-exchanged away
   from Ready alone. *)
RunTaskRacy(c) ==
    LET t == hand[c] IN
    /\ pc[c] = "run"
    /\ IF state[t] \in {"Ready", "Running"}
       THEN /\ state' = [state EXCEPT ![t] = "Running"]
            /\ Goto(c, "poll", t)
       ELSE /\ UNCHANGED state
            /\ Goto(c, "idle", NoTask)
    /\ UNCHANGED <<queue, adds, wakes, polls, done>>

(* run_task(): Ready -> Running, or the entry is dropped. *)
RunTask(c) ==
    LET t == hand[c] IN
    /\ pc[c] = "run"
    /\ IF state[t] = "Ready"
       THEN /\ state' = [state EXCEPT ![t] = "Running"]
            /\ Goto(c, "poll", t)
       ELSE /\ UNCHANGED state
            /\ Goto(c, "idle", NoTask)
    /\ UNCHANGED <<queue, adds, wakes, polls, done>>

(* TaskSlot::poll: the future returns Ready. *)
PollReady(c) ==
    /\ pc[c] = "poll"
    /\ hand[c] \notin Endless
    /\ done' = [done EXCEPT ![hand[c]] = TRUE]
    /\ Goto(c, "finish", hand[c])
    /\ UNCHANGED <<state, queue, adds, wakes, polls>>

(* TaskSlot::poll: the future returns Pending. *)
PollPending(c) ==
    LET t == hand[c] IN
    /\ pc[c] = "poll"
    /\ t \in Endless \/ polls[t] < MaxPolls
    /\ polls' = [polls EXCEPT ![t] = IF @ < MaxPolls THEN @ + 1 ELSE @]
    /\ Goto(c, "pending", t)
    /\ UNCHANGED <<state, queue, adds, wakes, done>>

(* Mutant: a finished task is stored as Ready. *)
FinishReady(c) ==
    /\ pc[c] = "finish"
    /\ state' = [state EXCEPT ![hand[c]] = "Ready"]
    /\ Goto(c, "idle", NoTask)
    /\ UNCHANGED <<queue, adds, wakes, polls, done>>

(* run_task(): Running -> Unreachable, unless a waker made it Ready. *)
Finish(c) ==
    /\ pc[c] = "finish"
    /\ state' = [state EXCEPT ![hand[c]] = IF @ = "Running" THEN "Unreachable" ELSE @]
    /\ Goto(c, "idle", NoTask)
    /\ UNCHANGED <<queue, adds, wakes, polls, done>>

(* run_task(): state.store(Ready) *)
StoreReady(c) ==
    /\ pc[c] = "pending"
    /\ state' = [state EXCEPT ![hand[c]] = "Ready"]
    /\ Goto(c, "requeue", hand[c])
    /\ UNCHANGED <<queue, adds, wakes, polls, done>>

(* Mutant: a Pending task is left to its wakers. *)
RequeueNot(c) ==
    /\ pc[c] = "requeue"
    /\ Goto(c, "idle", NoTask)
    /\ UNCHANGED <<state, queue, adds, wakes, polls, done>>

(* run_task(): let _ = worker.push(ptr) *)
Requeue(c) ==
    /\ pc[c] = "requeue"
    /\ queue' = Pushed(c, hand[c])
    /\ Goto(c, "idle", NoTask)
    /\ UNCHANGED <<state, adds, wakes, polls, done>>

(* waker_wake(), on a waker that some poll of the task handed out: the state
   is stored, whatever it was ... *)
Wake(k, t) ==
    /\ pc[k] = "idle"
    /\ t \in Wakeable
    /\ polls[t] > 0 \/ done[t] \/ state[t] = "Running"
    /\ wakes < MaxWakes
    /\ wakes' = wakes + 1
    /\ state' = [state EXCEPT ![t] = "Ready"]
    /\ Goto(k, "wake", t)
    /\ UNCHANGED <<queue, adds, polls, done>>

(* ... and the pointer is pushed to the queue of core `control`. *)
WakePush(k) ==
    /\ pc[k] = "wake"
    /\ queue' = Pushed(Home, hand[k])
    /\ Goto(k, "idle", NoTask)
    /\ UNCHANGED <<state, adds, wakes, polls, done>>

Run(c) ==
    \/ AddPush(c) \/ Pop(c) \/ (\E v \in Cores : TrySteal(c, v)) \/ RunTask(c)
    \/ PollReady(c) \/ PollPending(c) \/ Finish(c) \/ StoreReady(c) \/ Requeue(c)

Next ==
    \/ \E c \in Cores : Run(c) \/ \E t \in Tasks : InitTask(c, t) \/ Add(c, t)
    \/ \E k \in Wakers : WakePush(k) \/ \E t \in Tasks : Wake(k, t)

Spec == Init /\ [][Next]_vars

(* Every core is in run(). *)
FairSpec == Spec /\ \A c \in Cores : WF_vars(Run(c))

----------------------------------------------------------------------------
States == {"Free", "Initialized", "Ready", "Running", "Unreachable"}

(* Every variable has its type, no queue exceeds its size, whoever pushes, and
   a pointer is in hand exactly while it is worked on. *)
TypeOK ==
    /\ state \in [Tasks -> States]
    /\ queue \in [Cores -> Seq(Tasks)]
    /\ \A c \in Cores : Len(queue[c]) <= QueueSize
    /\ adds \in [Tasks -> 0..MaxAdds]
    /\ wakes \in 0..MaxWakes
    /\ polls \in [Tasks -> 0..MaxPolls]
    /\ done \in [Tasks -> BOOLEAN]
    /\ pc \in [Actors -> Locations]
    /\ hand \in [Actors -> Tasks \cup {NoTask}]
    /\ \A a \in Actors : hand[a] = NoTask <=> pc[a] = "idle"

Polling(c, t) == hand[c] = t /\ pc[c] \in {"poll", "finish", "pending"}

(* Two cores are never inside the future of the same task of S. *)
Exclusive(S) == \A c, d \in Cores, t \in S : Polling(c, t) /\ Polling(d, t) => c = d

(***************************************************************************)
(* TaskSlot::poll makes a `&mut` to the slot because "the Ready -> Running *)
(* transition guarantees that no other core is polling the same task": two *)
(* cores are never inside the same future.  Wakers break it.               *)
(***************************************************************************)
ExclusivePoll == Exclusive(Tasks)

(***************************************************************************)
(* It does hold of the tasks whose waker nobody calls, however often their *)
(* pointers are queued and whatever is woken beside them.                  *)
(***************************************************************************)
QuietExclusive == Exclusive(Tasks \ Wakeable)

(* Nor is such a future polled again once it has returned Ready. *)
NoPollAfterReady ==
    \A c \in Cores : pc[c] = "poll" /\ hand[c] \notin Wakeable => ~done[hand[c]]

(***************************************************************************)
(* A task that has been added and is not finished is not forgotten: while  *)
(* it is Ready some queue has its pointer or some core is about to push or *)
(* run it, whatever duplicates were dropped meanwhile.                     *)
(***************************************************************************)
ReadyIsQueued ==
    \A t \in Tasks : state[t] = "Ready" =>
        \/ \E c \in Cores : \E i \in 1..Len(queue[c]) : queue[c][i] = t
        \/ \E a \in Actors : hand[a] = t /\ pc[a] \in {"add", "run", "requeue", "wake"}

(* All futures being finite, every task that was added is finished: duplicates
   and steals do not keep it from running. *)
AddedFinishes == \A t \in Tasks : adds[t] > 0 ~> done[t]
=============================================================================
