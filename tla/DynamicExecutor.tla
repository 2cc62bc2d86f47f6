-------------------------- MODULE DynamicExecutor --------------------------
(***************************************************************************)
(* The work-stealing executor of async/src/dynamic/executor.rs: one per    *)
(* core, each with an st3 LIFO queue of boxed tasks that its siblings      *)
(* steal from, and one global registry behind a spin lock, through which   *)
(* tasks are spawned, cancelled, retuned and retired by id.                *)
(*                                                                         *)
(* A box is named by its task id.  Each operation on a queue and each      *)
(* critical section of the registry is one step; between them the cores    *)
(* interleave.  The queue is st3's (external): the owner pushes and pops   *)
(* at the end, thieves take the oldest items, and a contended steal may    *)
(* get nothing.                                                            *)
(***************************************************************************)
EXTENDS Naturals, Sequences, FiniteSets, Functions

CONSTANTS Cores,
          Siblings,    \* whose Stealers each core is given, sooner or later
          Capacity,    \* DEFAULT_CAPACITY
          StealBatch,  \* STEAL_BATCH
          MaxTasks,    \* bound: spawn() is called at most this often
          Freqs,       \* the rates asked of spawn(), in Hz
          Retunes,     \* the rates asked of set_freq()
          FreqBase,    \* ticks per second
          MaxTime,     \* bound: ticks that elapse
          Polls,       \* polls after which a future is Ready at the latest
          Endless      \* tasks whose future is never Ready

ASSUME ConstantsAssumption ==
    /\ Siblings \in [Cores -> SUBSET Cores]
    /\ \A c \in Cores : c \notin Siblings[c]
    /\ Capacity \in Nat \ {0}
    /\ StealBatch \in Nat \ {0}
    /\ MaxTasks \in Nat
    /\ Freqs \subseteq Nat /\ Retunes \subseteq Nat
    /\ FreqBase \in Nat
    /\ MaxTime \in Nat
    /\ Polls \in Nat

VARIABLES nextId,    \* NEXT_ID
          registry,  \* REGISTRY
          queue,     \* Executor::worker of each core, oldest task first
          nextRun,   \* TaskNode::next_run_time
          polled,    \* how often a future was polled, up to Polls
          now,       \* the tick counter
          pc,        \* what each core is doing
          hand,      \* the box a core owns outside the queues, 0 for none
          time,      \* the time argument of the run_step under way
          stealers,  \* Executor::stealers
          todo,      \* those that this step still has to steal from
          budget,    \* what is left of the drain's budget
          late,      \* history: polls begun after cancel() returned true
          peak       \* history: most boxes there ever were at a time

vars == <<nextId, registry, queue, nextRun, polled, now, pc, hand, time,
          stealers, todo, budget, late, peak>>

Ids == 1..MaxTasks

(***************************************************************************)
(* idle    between run_steps          sync    poll_one: registry not read  *)
(* push    spawn: slot taken          poll    poll_one: due, not polled    *)
(* reject  spawn: the push failed     retire  poll_one: future was Ready   *)
(* step    run_step: stealing, then draining; `hand` is empty              *)
(* requeue run_step: the task is to be pushed back                         *)
(***************************************************************************)
Locations == {"idle", "push", "reject", "step", "sync", "poll", "retire", "requeue"}

Slot == [id : Ids, alive : BOOLEAN, cancelled : BOOLEAN, freq_hz : Freqs \cup Retunes]

----------------------------------------------------------------------------
(* TaskNode::ticks() *)
Ticks(freq_hz) == IF freq_hz = 0 THEN 0 ELSE FreqBase \div freq_hz

(* The slot of a live task (with_slot), and its absence. *)
Live(i, k) == registry[k].alive /\ registry[k].id = i
IsAlive(i) == \E k \in 1..Len(registry) : Live(i, k)
SlotOf(i) == CHOOSE k \in 1..Len(registry) :
                 Live(i, k) /\ \A j \in 1..(k - 1) : ~Live(i, j)

(* find(|s| s.id == id), then alive = false: dead slots are found as well. *)
Retired(i) ==
    IF \E k \in 1..Len(registry) : registry[k].id = i
    THEN LET k == CHOOSE k \in 1..Len(registry) :
                      /\ registry[k].id = i
                      /\ \A j \in 1..(k - 1) : registry[j].id # i
         IN  [registry EXCEPT ![k].alive = FALSE]
    ELSE registry

(* Mutant: dead slots are not taken over. *)
RegisteredAtEnd(slot) == Append(registry, slot)

(* spawn(): the first dead slot is taken over, or a new one pushed. *)
Registered(slot) ==
    IF \E k \in 1..Len(registry) : ~registry[k].alive
    THEN LET k == CHOOSE k \in 1..Len(registry) :
                      /\ ~registry[k].alive
                      /\ \A j \in 1..(k - 1) : registry[j].alive
         IN  [registry EXCEPT ![k] = slot]
    ELSE Append(registry, slot)

----------------------------------------------------------------------------
Init ==
    /\ nextId = 1
    /\ registry = <<>>
    /\ queue = [c \in Cores |-> <<>>]
    /\ nextRun = [i \in Ids |-> 0]
    /\ polled = [i \in Ids |-> 0]
    /\ now = 0
    /\ pc = [c \in Cores |-> "idle"]
    /\ hand = [c \in Cores |-> 0]
    /\ time = [c \in Cores |-> 0]
    /\ stealers = [c \in Cores |-> <<>>]
    /\ todo = [c \in Cores |-> <<>>]
    /\ budget = [c \in Cores |-> 0]
    /\ late = [i \in Ids |-> 0]
    /\ peak = 0

(* Where a box can be: in a queue, or in a core's hand. *)
HasBox(i) == \E c \in Cores : hand[c] = i \/ \E k \in 1..Len(queue[c]) : queue[c][k] = i

Goto(c, l) == pc' = [pc EXCEPT ![c] = l]
Hold(c, i) == hand' = [hand EXCEPT ![c] = i]

(* The box of task i goes out of scope at the end of its turn and is freed, and
   its fields with it. *)
DropBox(i) ==
    /\ nextRun' = [nextRun EXCEPT ![i] = 0]
    /\ polled' = [polled EXCEPT ![i] = 0]
    /\ late' = [late EXCEPT ![i] = 0]

(* add_stealer(): takes `&mut self`, so never inside a step. *)
AddStealer(c, s) ==
    /\ pc[c] = "idle"
    /\ s \in Siblings[c] \ Range(stealers[c])
    /\ stealers' = [stealers EXCEPT ![c] = Append(@, s)]
    /\ UNCHANGED <<nextId, registry, queue, nextRun, polled, now, pc, hand, time,
                   todo, budget, late, peak>>

(* spawn(): a fresh id and its slot.  Only the owner of a queue spawns into
   it (an Executor is !Sync), and not while it runs a step. *)
SpawnRegister(c, freq) ==
    /\ pc[c] = "idle"
    /\ nextId \in Ids
    /\ nextId' = nextId + 1
    /\ registry' = Registered([id |-> nextId, alive |-> TRUE,
                               cancelled |-> FALSE, freq_hz |-> freq])
    /\ Hold(c, nextId)
    /\ LET boxes == Cardinality({i \in Ids : HasBox(i)}) + 1
       IN  peak' = IF boxes > peak THEN boxes ELSE peak
    /\ Goto(c, "push")
    /\ UNCHANGED <<queue, nextRun, polled, now, time, stealers, todo, budget, late>>

(* spawn(): worker.push(node) *)
SpawnPush(c) ==
    /\ pc[c] = "push"
    /\ Len(queue[c]) < Capacity
    /\ queue' = [queue EXCEPT ![c] = Append(@, hand[c])]
    /\ Hold(c, 0)
    /\ Goto(c, "idle")
    /\ UNCHANGED <<nextId, registry, nextRun, polled, now, time, stealers, todo, budget, late, peak>>

SpawnFull(c) ==
    /\ pc[c] = "push"
    /\ Len(queue[c]) >= Capacity
    /\ Goto(c, "reject")
    /\ UNCHANGED <<nextId, registry, queue, nextRun, polled, now, hand, time,
                   stealers, todo, budget, late, peak>>

(* spawn(): the queue was full; the box is dropped and the slot retired.  The code
   drops the box as it leaves the failed push, just before it locks the registry:
   one step here, as until then cancel() only marks the slot. *)
SpawnReject(c) ==
    /\ pc[c] = "reject"
    /\ registry' = Retired(hand[c])
    /\ Hold(c, 0)
    /\ DropBox(hand[c])
    /\ Goto(c, "idle")
    /\ UNCHANGED <<nextId, queue, now, time, stealers, todo, budget, peak>>

(* cancel(id), from anywhere at any time; on other ids it returns false. *)
Cancel(i) ==
    /\ IsAlive(i)
    /\ registry' = [registry EXCEPT ![SlotOf(i)].cancelled = TRUE]
    /\ UNCHANGED <<nextId, queue, nextRun, polled, now, pc, hand, time, stealers, todo, budget, late, peak>>

(* set_freq(id, freq_hz) *)
SetFreq(i, freq) ==
    /\ IsAlive(i)
    /\ registry' = [registry EXCEPT ![SlotOf(i)].freq_hz = freq]
    /\ UNCHANGED <<nextId, queue, nextRun, polled, now, pc, hand, time, stealers, todo, budget, late, peak>>

(* run_forever(): run_step(tick()) *)
StepBegin(c) ==
    /\ pc[c] = "idle"
    /\ time' = [time EXCEPT ![c] = now]
    /\ todo' = [todo EXCEPT ![c] = stealers[c]]
    /\ budget' = [budget EXCEPT ![c] = Capacity]
    /\ Goto(c, "step")
    /\ UNCHANGED <<nextId, registry, queue, nextRun, polled, now, hand, late, peak, stealers>>

(* run_step(): stealer.steal(&self.worker, |_| STEAL_BATCH), whatever it gets. *)
Stealable(c, s) ==
    {n \in 0..StealBatch : n <= Len(queue[s]) /\ n <= Capacity - Len(queue[c])}

(* Mutant: the stolen tasks stay in the victim's queue as well. *)
StealCopies(c, s) ==
    /\ pc[c] = "step"
    /\ todo[c] # <<>> /\ s = Head(todo[c])
    /\ todo' = [todo EXCEPT ![c] = Tail(@)]
    /\ \E n \in Stealable(c, s) :
          queue' = [queue EXCEPT ![c] = @ \o SubSeq(queue[s], 1, n)]
    /\ UNCHANGED <<nextId, registry, nextRun, polled, now, pc, hand, time, budget, late, peak, stealers>>

Steal(c, s) ==
    /\ pc[c] = "step"
    /\ todo[c] # <<>> /\ s = Head(todo[c])
    /\ todo' = [todo EXCEPT ![c] = Tail(@)]
    /\ \E n \in Stealable(c, s) :
          /\ n = 0 \/ n + 1 \notin Stealable(c, s)
          /\ queue' = [queue EXCEPT ![c] = @ \o SubSeq(queue[s], 1, n),
                                    ![s] = SubSeq(@, n + 1, Len(@))]
    /\ UNCHANGED <<nextId, registry, nextRun, polled, now, pc, hand, time, budget, late, peak, stealers>>

(* Mutant: the drain has no budget. *)
PopUnbounded(c) ==
    /\ pc[c] = "step" /\ todo[c] = <<>>
    /\ queue[c] # <<>>
    /\ Hold(c, queue[c][Len(queue[c])])
    /\ queue' = [queue EXCEPT ![c] = SubSeq(@, 1, Len(@) - 1)]
    /\ budget' = [budget EXCEPT ![c] = @ - 1]
    /\ Goto(c, "sync")
    /\ UNCHANGED <<nextId, registry, nextRun, polled, now, time, stealers, todo, late, peak>>

(* run_step(): worker.pop() *)
Pop(c) ==
    /\ pc[c] = "step" /\ todo[c] = <<>>
    /\ budget[c] > 0
    /\ queue[c] # <<>>
    /\ Hold(c, queue[c][Len(queue[c])])
    /\ queue' = [queue EXCEPT ![c] = SubSeq(@, 1, Len(@) - 1)]
    /\ budget' = [budget EXCEPT ![c] = @ - 1]
    /\ Goto(c, "sync")
    /\ UNCHANGED <<nextId, registry, nextRun, polled, now, time, stealers, todo, late, peak>>

(* run_step(): nothing left to pop, or the budget is used up. *)
StepEnd(c) ==
    /\ pc[c] = "step" /\ todo[c] = <<>>
    /\ budget[c] = 0 \/ queue[c] = <<>>
    /\ Goto(c, "idle")
    /\ time' = [time EXCEPT ![c] = 0]
    /\ budget' = [budget EXCEPT ![c] = 0]
    /\ UNCHANGED <<nextId, registry, queue, nextRun, polled, now, hand, stealers, todo, late, peak>>

(* Mutant: the cancel flag is not looked at. *)
SyncIgnoresCancel(c) ==
    LET i == hand[c] IN
    /\ pc[c] = "sync"
    /\ Hold(c, IF IsAlive(i) THEN i ELSE 0)
    /\ Goto(c, IF ~IsAlive(i) THEN "step"
               ELSE IF time[c] < nextRun[i] THEN "requeue" ELSE "poll")
    /\ nextRun' = [nextRun EXCEPT ![i] =
                      IF ~IsAlive(i) \/ time[c] < @ THEN @
                      ELSE time[c] + Ticks(registry[SlotOf(i)].freq_hz)]
    /\ UNCHANGED <<nextId, registry, queue, polled, now, time, stealers, todo, budget, late, peak>>

(* poll_one(): the critical section on the registry, and what follows from it
   before the future is polled.  A box whose slot is gone is dropped.  The
   interval is computed from the rate read here; next_run_time, which nothing
   reads before the box is back in a queue, is set here as well. *)
Sync(c) ==
    LET i == hand[c]
        gone == ~IsAlive(i)
        cancelled == ~gone /\ registry[SlotOf(i)].cancelled
    IN
    /\ pc[c] = "sync"
    /\ registry' = IF cancelled THEN [registry EXCEPT ![SlotOf(i)].alive = FALSE]
                                ELSE registry
    /\ Hold(c, IF gone \/ cancelled THEN 0 ELSE i)
    /\ Goto(c, IF gone \/ cancelled THEN "step"
               ELSE IF time[c] < nextRun[i] THEN "requeue" ELSE "poll")
    /\ IF gone \/ cancelled THEN DropBox(i)
       ELSE /\ nextRun' = [nextRun EXCEPT ![i] = IF time[c] < @ THEN @
                              ELSE time[c] + Ticks(registry[SlotOf(i)].freq_hz)]
            /\ UNCHANGED <<polled, late>>
    /\ UNCHANGED <<nextId, queue, now, time, stealers, todo, budget, peak>>

CancelSeen(i) == IsAlive(i) /\ registry[SlotOf(i)].cancelled

(* History: a poll of a task that cancel() has already accepted. *)
CountLate(i) == late' = [late EXCEPT ![i] = IF CancelSeen(i) /\ @ < 2 THEN @ + 1 ELSE @]

(* poll_one(): the future returns Ready. *)
PollReady(c) ==
    /\ pc[c] = "poll"
    /\ hand[c] \notin Endless
    /\ CountLate(hand[c])
    /\ Goto(c, "retire")
    /\ UNCHANGED <<nextId, registry, queue, nextRun, polled, now, hand, time, stealers, todo, budget, peak>>

(* poll_one(): the future returns Pending. *)
PollPending(c) ==
    /\ pc[c] = "poll"
    /\ hand[c] \in Endless \/ polled[hand[c]] < Polls
    /\ polled' = [polled EXCEPT ![hand[c]] = IF @ < Polls THEN @ + 1 ELSE @]
    /\ CountLate(hand[c])
    /\ Goto(c, "requeue")
    /\ UNCHANGED <<nextId, registry, queue, nextRun, now, hand, time, stealers, todo, budget, peak>>

(* Mutant: a finished task keeps its slot. *)
RetireLeaks(c) ==
    /\ pc[c] = "retire"
    /\ Hold(c, 0)
    /\ DropBox(hand[c])
    /\ Goto(c, "step")
    /\ UNCHANGED <<nextId, registry, queue, now, time, stealers, todo, budget, peak>>

(* poll_one(): retire the slot, drop the box. *)
Retire(c) ==
    /\ pc[c] = "retire"
    /\ registry' = Retired(hand[c])
    /\ Hold(c, 0)
    /\ DropBox(hand[c])
    /\ Goto(c, "step")
    /\ UNCHANGED <<nextId, queue, now, time, stealers, todo, budget, peak>>

(* Mutant: a task that is not finished is not pushed back. *)
RequeueDrops(c) ==
    /\ pc[c] = "requeue"
    /\ Hold(c, 0)
    /\ Goto(c, "step")
    /\ UNCHANGED <<nextId, registry, queue, nextRun, polled, now, time, stealers, todo, budget, late, peak>>

(* run_step(): let _ = worker.push(task); a full queue would drop the box. *)
Requeue(c) ==
    /\ pc[c] = "requeue"
    /\ queue' = [queue EXCEPT ![c] = IF Len(@) < Capacity THEN Append(@, hand[c]) ELSE @]
    /\ Hold(c, 0)
    /\ Goto(c, "step")
    /\ UNCHANGED <<nextId, registry, nextRun, polled, now, time, stealers, todo, budget, late, peak>>

Tick ==
    /\ now < MaxTime
    /\ now' = now + 1
    /\ UNCHANGED <<nextId, registry, queue, nextRun, polled, pc, hand, time,
                   stealers, todo, budget, late, peak>>

Run(c) ==
    \/ SpawnPush(c) \/ SpawnFull(c) \/ SpawnReject(c)
    \/ StepBegin(c) \/ (\E s \in Cores : Steal(c, s)) \/ Pop(c) \/ StepEnd(c)
    \/ Sync(c) \/ PollReady(c) \/ PollPending(c) \/ Retire(c) \/ Requeue(c)

Next ==
    \/ \E c \in Cores : Run(c) \/ \E f \in Freqs : SpawnRegister(c, f)
    \/ \E c, s \in Cores : AddStealer(c, s)
    \/ \E i \in Ids : Cancel(i) \/ \E f \in Retunes : SetFreq(i, f)
    \/ Tick

Spec == Init /\ [][Next]_vars

(* Every core is in run_forever(), and the clock runs. *)
FairSpec == Spec /\ WF_vars(Tick) /\ \A c \in Cores : WF_vars(Run(c))

----------------------------------------------------------------------------
(* Every variable has its type, no queue exceeds its capacity, and a core has a
   box in hand exactly where its code has one. *)
TypeOK ==
    /\ nextId \in 1..(MaxTasks + 1)
    /\ registry \in Seq(Slot)
    /\ queue \in [Cores -> Seq(Ids)]
    /\ \A c \in Cores : Len(queue[c]) <= Capacity
    /\ nextRun \in [Ids -> Nat]
    /\ polled \in [Ids -> 0..Polls]
    /\ now \in 0..MaxTime
    /\ pc \in [Cores -> Locations]
    /\ hand \in [Cores -> Ids \cup {0}]
    /\ time \in [Cores -> 0..MaxTime]
    /\ DOMAIN stealers = Cores /\ DOMAIN todo = Cores
    /\ \A c \in Cores : stealers[c] \in Seq(Siblings[c]) /\ todo[c] \in Seq(Siblings[c])
    /\ budget \in [Cores -> 0..Capacity]
    /\ late \in [Ids -> 0..2]
    /\ peak \in 0..MaxTasks
    /\ \A c \in Cores : hand[c] = 0 <=> pc[c] \in {"idle", "step"}

(***************************************************************************)
(* Exactly the live slots have a box (a box that spawn() could not push    *)
(* counts until its slot is retired): a task that is_alive() still exists  *)
(* somewhere (no steal, full queue or requeue loses it), and a box that    *)
(* exists has a live slot (so cancel() reaches it).                        *)
(***************************************************************************)
NoTaskLost == \A i \in Ids : IsAlive(i) <=> HasBox(i)

(***************************************************************************)
(* A box has one owner, so a future is never polled by two cores, and a    *)
(* live id has one slot, whatever slots were retired and reused meanwhile. *)
(***************************************************************************)
OneOwner ==
    /\ \A c, d \in Cores : hand[c] = hand[d] /\ hand[c] # 0 => c = d
    /\ \A c, d \in Cores : \A k \in 1..Len(queue[d]) : hand[c] # queue[d][k]
    /\ \A c, d \in Cores : \A j \in 1..Len(queue[c]), k \in 1..Len(queue[d]) :
          queue[c][j] = queue[d][k] => c = d /\ j = k
    /\ \A j, k \in 1..Len(registry) : registry[j].id = registry[k].id => j = k

(***************************************************************************)
(* spawn() retires dead slots "so the registry stays bounded": however     *)
(* many tasks are spawned, rejected, cancelled and finished, it has no     *)
(* more slots than there were boxes at one time.                           *)
(***************************************************************************)
RegistryBounded == Len(registry) <= peak

(* cancel() is cooperative: after it returned true, the future is polled at
   most once more (the poll that was already past its registry check). *)
CancelStops == \A i \in Ids : late[i] <= 1

(* Two cores that steal from each other. *)
Mutual == \E c, d \in Cores : d \in Range(stealers[c]) /\ c \in Range(stealers[d])

(***************************************************************************)
(* All futures being finite, every task that was spawned is retired in the *)
(* end, whichever core it is on and whether it was cancelled, retuned or   *)
(* stolen.  Excepted are a rate whose next run lies past the last tick of  *)
(* the model, and cores that have begun to steal from each other, which    *)
(* can hand a task back and forth.                                         *)
(***************************************************************************)
TasksFinish ==
    \A i \in Ids : IsAlive(i) ~> ~IsAlive(i) \/ nextRun[i] > MaxTime \/ Mutual

(***************************************************************************)
(* What executor.rs says of cancel(): it "takes effect at its next poll    *)
(* boundary", so a cancelled task is reaped.                               *)
(***************************************************************************)
CancelReaped == \A i \in Ids : CancelSeen(i) ~> ~IsAlive(i)
=============================================================================
