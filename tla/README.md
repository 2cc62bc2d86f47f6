# A TLA+ model of uefi-async

`uefi-async` is a `no_std` async runtime for UEFI: three executors, a few
synchronisation primitives and combinators that run on the boot processor and
on application processors without an operating system. This directory holds
TLA+ modules for its executors, primitives and futures, TLC configurations that check them, and
TLAPS proofs. Paths below are relative to the repository; `async/src/` is left
out where it is clear.

## 1. The system: inventory

| part | state | operations | what is hard about it | what makes it correct |
|---|---|---|---|---|
| `common/mutex.rs` AsyncMutex | `locked`, an intrusive wait list behind a spin lock, a node (`waker`, `woken`) and `linked` in each `LockFuture` | `try_lock`, `lock`, `poll`, drop of the future and of the guard (`unlock`) | `unlock` frees the flag before it visits the list; `poll` touches its node without the list lock; futures are dropped at any await | one guard; list pointers never dangle; FIFO wake-up; no lost wake-up |
| `common/signal.rs` MultiCoreSignal | `data` behind a spin lock, atomic `has_data` | `signal`, `reset`, `wait`, `poll` | flag and value are written separately, in opposite orders | a value is never hidden behind a cleared flag; one taker per value |
| `common/signal.rs` Signal, UnsafeSignal | one `RefCell` or `UnsafeCell` | `signal`, `wait`, `poll` | `UnsafeSignal` tests and then takes, and interrupt handlers may signal it in between | one taker per value; newest value wins |
| `dynamic/` work-stealing executor | a global registry of slots, `NEXT_ID`, one st3 queue per core, boxed task nodes | `add_stealer`, `spawn`, `cancel`, `set_freq`, `is_alive`, `run_step`, `poll_one` | registry and queues are separate; slots are reused; ids are looked up at several points of a poll; LIFO order | boxes and live slots agree, one owner, cancel stops a task, the registry is bounded, tasks finish |
| `no_alloc/lifo.rs` static queue | `push_count`, packed `pop_count_and_head`, the thieves' `head`, a ring | `push`, `extend`, `pop`, `drain`, `clear`, `steal`, `steal_and_pop` | lock-free, wrapping counters, two heads | it is a deque: nothing lost, nothing twice, LIFO for the owner, oldest first for thieves |
| `no_alloc/{executor,task,waker}.rs` static executor | slot states, one queue of pointers per core | `TaskPool::init`, `add`, `run`, `try_steal`, `run_task`, `waker_wake` | the same pointer may be queued several times; wakers store the state from any core | exclusive `&mut` to a future; a Ready task is in some queue |
| `nano_alloc/{executor,task}.rs` nano executor | a linked list of nodes with deadlines | `add`, `run_step` | removal while walking | each node once per pass, none lost, a missed one comes later |
| `nano_alloc/channel.rs` | `Rc`/`Arc` slots and queues | oneshot, unbounded, bounded; single- and multi-core: `send`, `try_send`, `send_async`, `poll`, drops | retries on a full queue, values in dropped futures, a receiver that owns what senders point to; no close | each value in one place; order per sender; no standstill |
| `no_alloc/channel.rs` | a borrowed MPMC queue | `try_send`, `send`, `try_recv`, `recv` and the futures | the item is kept in the future across polls, several receivers | the same |
| `common/control.rs`, `macros/src/nano.rs` | completion flags and results of Join, TryJoin, JoinAll, Select | `poll`, and the trees the macros build | no branch polled after Ready; short-circuit; nested `Either`s and tuples | all polled in each step; first error, first finisher, results in order |
| `common/time.rs`, `step.rs`, `tick.rs` | deadlines, countdowns, calibrated frequency | `poll`, `step`, `count_update`, `init_clock_freq` | boundaries, wrap-around, truncation, a result that comes with the deadline | timers not early, no late answers, pace within its bounds |
| `nano_alloc/uefi.rs` | - | `KeyInputFuture::poll` | - | a leaf future |
| `global_allocator.rs`, rest of `macros/`, `testy/`, `tools/qemu-test` | - | firmware I/O, code generation, demos | - | not modelled |

Interactions: tasks run inside one of the executors, which poll futures; the
nano and dynamic executors pass a no-op waker and simply poll again, the static
executor passes `waker_wake`, which pushes the task pointer to a static queue.
The mutex calls wakers. The dynamic executor's cores share the registry and
steal from each other's st3 queue; the static executor's cores share
`GLOBAL_QUEUES` of `lifo.rs`.

## 2. Modules

| module | models | grain |
|---|---|---|
| `AsyncMutex` | `common/mutex.rs` | one step per access to `locked`, per critical section of the list lock, per unlocked access to a node |
| `AsyncMutex_proofs` | theorems about it | |
| `Mailbox` | what a signal promises | abstract |
| `MultiCoreSignal` | `common/signal.rs`, mod `multiple` | one step per access to flag or value; `owner` is the spin lock where it is held across two accesses |
| `MultiCoreSignal_proofs` | theorems about it | |
| `DynamicExecutor` | `dynamic/executor.rs`, `dynamic/task.rs` | one step per critical section of the registry and per queue operation |
| `DynamicExecutor_proofs` | theorems about it | |
| `StealDeque` | what a work-stealing queue promises | abstract |
| `StealDeque_proofs` | theorems about it, and the lemmas on sequences of items | |
| `LifoQueue` | `no_alloc/lifo.rs` | one step per shared access |
| `LifoQueue_proofs` | theorems about it: the refinement of `StealDeque` | |
| `StaticExecutor` | `no_alloc/executor.rs`, `task.rs`, `waker.rs` | one step per access to a slot's state and per queue operation |
| `StaticExecutor_proofs` | theorems about it | |
| `NanoExecutor` | `nano_alloc/executor.rs`, `task.rs` | one step per turn of the walk |
| `NanoExecutor_proofs` | theorems about it | |
| `Channels` | `nano_alloc/channel.rs`, `no_alloc/channel.rs`, single-core part of `common/signal.rs` | one step per operation or poll; two for `UnsafeSignal`'s poll |
| `Channels_proofs` | theorems about it | |
| `Clock` | `common/tick.rs` and the arithmetic of `common/time.rs` | operators |
| `Futures` | `common/control.rs`, `time.rs`, `step.rs`, the join and select macros, `uefi.rs` | one step per poll of the task |
| `MC*` | model values and symmetry sets for TLC | |

How state corresponds to the code:

* **AsyncMutex.** `waiters` is the linked list from head to tail, a node being
  named by the task whose future it lives in; `linked`, `woken`, `waker` are the
  fields of that future and node. `waker` is reduced to its presence: two polls
  of a task store equivalent wakers. `pc` names the points of `poll()` and
  `unlock()` between two shared accesses. `Repolls` says which executor polls
  the future: the crate's own ones poll Pending tasks on every pass (`TRUE`), a
  waker-driven one polls only tasks that were woken (`FALSE`). The unlocked
  accesses to `woken` and `waker` are data races in the code; each is a step of
  its own, so every order of them with `unlock()` is explored.
* **MultiCoreSignal.** `poll()` matches on `data.lock().take()`; the guard of a
  `match` scrutinee lives to the end of the match, so the flag is cleared with
  the lock held. That detail carries `NoLostSignal` (mutant `TakeDataUnlocks`).
* **DynamicExecutor.** A box is its task id; `queue` and `hand` say who owns it.
  `registry` is the vector of slots, searched in order as `find` does; dead slots
  stay and are reused. st3's queue is external: owner LIFO, thieves take the
  oldest items, a contended steal gets nothing. `late` and `peak` are history
  variables. `Siblings` says which stealers `add_stealer` may register, in
  any order and at any time between two steps of that core; no core is its own
  sibling (the code's comment: "a sibling's Stealer"). Where the code retires a slot
  and then frees the box, or (a rejected `spawn`) frees it just before, both are one step. `Freqs` are the rates
  that `spawn` is given, `Retunes` those of `set_freq`.
* **LifoQueue.** `op[w]` holds the local variables of the call a worker is in.
  Counters wrap at `Wrap`; `Start` puts them next to the wrap-around.
  `compare_exchange_weak` may also fail spuriously: that goes round the same loop
  with the same values, a stutter. A failed push changes nothing and is not a
  step. `extend` is modelled for iterators of one or two items; items it has no room
  for stay with the caller, while the code drops the iterator and tells nobody, so
  "no item is lost" says nothing of them. `drain` is run to its end as `clear` runs it;
  an owner that pushes or pops between two `next()` calls is not modelled. All accesses are taken as
  sequentially consistent; the weaker orderings of the code are not modelled.
* **StaticExecutor.** Queues are atomic sequences with the order of `StealDeque`.
  `add()` on a full queue panics, which stops that core: its guard is "not full".
  A waker exists once the task has been polled, and may be called at any time and
  from anywhere. Finding the own queue empty and stealing is one step, two in the code.
* **NanoExecutor.** After a node is removed the cursor's link holds its
  successor, and the loop's last line steps over it: `Ready` removes position
  `cursor` and adds one to it.
* **Channels.** All nine kinds are one scheme: store, take, poll again. A record
  (`Discipline`) says for each whether it overwrites, where it is full, whether
  `send` consumes the sender, who may receive and who owns the storage; `kind`
  is chosen in `Init`. A future that waits for room holds its value in `future`;
  a failed `try_send` hands it back and changes nothing. `taken` and `lost` are
  history. A sender awaits a send before the next; a program that polls several
  `send()` futures of one handle at once (they take `&self`) is several senders, and
  has no order among them. That `UnsafeSignal`'s waiters share a core, so that no poll
  runs between another's `is_some()` and `take()`, is assumed of the program (the guard
  of `Look`): `unsafe impl Sync` does not enforce it, and without it the `expect` can
  fail. The queues of crossbeam and nblfq are external and linearizable.
* **Futures.** `fut` is the tree of futures the macros build, with the fields of
  the code; `PollOf` is `poll()`, mapping a future and what the step sees (tick,
  which leaves are ready, which fail) to the result and the future afterwards.
  `tick()` is read once per poll of the task. Leaves are foreign futures that may
  be Ready or fail in any poll, and are Ready after `Patience` of them; polling
  one, or an async block, after that is recorded as a panic. Expressions are
  evaluated at `start`, which the macros' async blocks delay to the first poll:
  any number of ticks, zero too, goes by in between.
* **Clock.** u64 is `0..Word-1`; the number of ms, us... in a second and of seconds
  in a minute, hour... are constants, so that a clock of 2 or 8 ticks a second
  meets truncation, `max(1)`, saturation and wrap-around.

## 3. Runs

Passing runs:

* `mutex` (325,490 states): `MutualExclusion`, `NoDanglingWaiter`, `FifoOrder`
  (nobody is flagged as woken past an older parked waiter, and the list is never
  reordered), `MutexProgress`. Three tasks are the fewest with a holder, a waiter
  and a barger, or a waiter popped between two others.
* `signal` (3,174): `NoLostSignal` and `ImplementsMailbox`, which includes that a
  waiter that keeps polling gets a value that stays. Three processes: signaller,
  resetter, waiter, or two waiters for one value.
* `dynamic` (216,413): `NoTaskLost`, `OneOwner`, `CancelStops`, `RegistryBounded`
  and `TasksFinish` with two cores, the first of which may register the second as
  its victim at any time, two tasks spawned at 1 Hz and retuned to 0, cancel at any
  time, and queues of one slot: spawns are rejected, steals find no room, a slot is
  retired and reused while the other core works. That the safety properties
  hold for any stealers, rates and capacities is proved (section 4). `TasksFinish`
  excepts `Mutual`: with `Siblings` set both ways there is a behaviour, fair in the
  sense below, in which the cores pass a batch to and fro and neither has it when
  it drains.
* `lifo` (228,608): `ImplementsDeque`, the refinement of `StealDeque`, and `OneThief`
  (`book_items()` keeps a second thief, or the owner's `drain()`, out until the
  first has stored the thieves' head), for two workers that push, extend, pop, drain and steal in both directions, a ring of
  two, counters modulo 8 that start at 7. Up to three items enter a queue (two
  calls, the second an `extend` of two): the counters wrap around and a slot of the
  ring is used again. It holds for as many items as the ring has slots, which is
  proved for any sizes (section 4); see `lifo_ring` for more items.
* `static` (429,652): `QuietExclusive` (a future that gave its waker to nobody is
  polled by one core at a time), `NoPollAfterReady`, `ReadyIsQueued` and
  `AddedFinishes` for two cores and two tasks added twice each, where one task's
  waker is called twice at any time. The queues hold five entries, one more than
  the additions, for the wakes' duplicates; see below for fewer.
* `nano` (157,226): `OncePerPass`, `MissesAreBounded`, `NoNodeLost`,
  `EveryNodeVisited` for three tasks, rates 0, 1 and 2 Hz at 2 ticks a second.
* `channels` (27,271): `ExactlyOnce` (a value is in one future, in the channel, with
  one receiver, or lost in one of the three ways there are), `SenderOrder`, and
  `ChannelProgress`: as long as someone receives, a send that waits for room sees its
  value or another one get in, and a value that waits sees the next one received,
  although nobody is woken. It is progress of the channel and not of each sender:
  nobody queues for room, so a rival that sends for ever can take it before every retry.
  Two senders of three values each for a capacity of two: both wait for room at once,
  and later values queue up behind retried ones.
* `futures` (45,168): `NeverRepolled`, `StepPollsAll` and `MacroOutcome` for each
  macro over three leaves, and nested with timeouts and timers; `ExpiredNotPolled`;
  `NotEarly` for 0 to 2 of every unit but `hz()`, uncalibrated and at two frequencies;
  `PacerRate` for counts 0 to 2 that change or not; `Ends`. Three branches are the
  fewest that nest; 16 ticks contain every deadline and the wrap-around.

Runs that show where code and comments disagree:

* `mutex_lostwake`: `unlock()` runs between the failed `try_lock` and `link` of a
  poll; the poll re-checks `woken`, not `locked`, and parks on a free mutex. The
  comments claim "no lost wakeup". With the crate's polling executors this costs
  only latency (`MutexProgress` holds); with a waker-driven one the task sleeps
  for ever, although the lock is "usable from any core and any executor".
* `dynamic_starved`: a task that stays Pending is popped again at once; a
  cancelled task below it is never reaped.
* `lifo_ring`: `push()` looks at the booked head only, so the ring can hold more
  than `N` items counted from the thieves' head; `N - len` underflows. With more
  than `N` items in play (three in a ring of two) `ImplementsDeque` fails too: an
  item that a thief is copying is overwritten.
* `static_wake`: a wake during a poll stores Ready over Running, and a second
  core polls the same future.

More that the same models show and that has no run of its own:

* A pacer's period is `count + 1` calls: `count` calls pass and the next one gives
  way. `common/step.rs` says "every `count` calls" (:164, :183), "once every 60
  iterations" for `Pacer::new(60)` (:176) and "every 10 chunks" for `Pacer::new(10)`
  (:196). `PacerRate` therefore claims the two bounds, at most once in `count` and at
  least once in `count + 1` calls, and settles nothing between them.
* `n.hz()` waits `n` seconds; its comment (`common/time.rs:266-267`) says "Represented
  as the period: 1 second / frequency". `NotEarly` leaves it out.
* `NotEarly` excepts deadlines past 2^64 ticks, where `after()` wraps and `Timeout`
  saturates. A unit's fraction of a tick is cut off (and with it all of a `ps` below
  1 THz); before calibration every timer expires at once, while `tick.rs` says timers
  "fail to progress".
* Values get lost where `ExactlyOnce` allows it: a sending future that `select!` or a
  timeout drops takes its item along.

And of the static executor: with
two tasks and a waker on a queue of two, duplicates fill the queue and the
ignored error of `run_task`'s push loses a Ready task; and the static executor
starves tasks below an endless one as the dynamic one does, while its comment
says round-robin.

**Bounds.** `MaxTasks`, `MaxTime`, `MaxAdds`, `MaxWakes`, `MaxPolls`/`Polls`,
`MaxPushes`, `MaxSends`, `MaxNow` and `Patience` bound what would be unbounded; each is in the guard of the action it bounds.
Queues are one to five long, so that full, empty and last-item cases occur.

**Deadlock** is checked except for the static executor, whose idle cores spin
on empty queues without changing any state, for channels, whose users may stop
sending, and for a task that has ended.

**Fairness.** Weak fairness of `Run(c)`: a core that is in its loop goes on; a
poll or an unlock that has begun ends; a Pending future is polled again. For the
mutex also of `Release`: a guard is dropped in the end. For channels, of
`PollSend` and `Poll`, and for a composed task of `PollTask`: a Pending task is
polled again and again. `PollSend` is enabled only while there is room, and weak
fairness of it asks for nothing while room comes and goes; strong fairness, which would
give every sender its turn, is nothing the code provides. The nano executor's walk guarantees that (run `nano`); the
LIFO executors do so only where no other task of the core stays Pending for ever
(`dynamic_starved`), so there a sender that retries can starve its receiver. The
tick counter runs. Nothing is assumed about
spawning, locking, signalling or cancelling, nor about relative speed.

## 4. Proofs

* **AsyncMutex_proofs**, for any set of tasks and both kinds of executor:
  `TypeCorrect`, `Exclusion`, `ListSoundness` (list pointers never dangle), and
  `Fifo` (`FifoOrder`). The inductive invariant `IInv` joins the type invariant, exclusion, the
  soundness of the list, and `FreshNode`: a future that is about to link is not
  linked and not flagged (so linking cannot list a node twice). `MutualExclusion`
  alone is inductive only because it ties guards to the flag; `NoDanglingWaiter`
  needs `FreshNode`. The list lemmas (`UnlinkThins`, `SuffixThins`,
  `ThinnedKeeps`) say that what `unlink` and `unlock` leave is the old list with
  elements left out; everything about order follows from that.
* **MultiCoreSignal_proofs**, for any processes and values: `TypeCorrect`, `SignalsAreFound`, and
  `Refinement`, that every step is a step of `Mailbox`'s safety part or a stutter.
  The invariant adds that the lock is owned exactly by the process between taking
  the value and clearing the flag, and that the slot is empty then.

* **DynamicExecutor_proofs**, for any cores, stealers, rates, queue capacity and
  number of spawns: `TypeCorrect`, `BoxIffAlive` (`NoTaskLost`), `Ownership` (`OneOwner`),
  `CancelBounded` (`CancelStops`) and `RegistryStaysBounded`. `poll_one` discards the
  result of the push that requeues a task; that it cannot fail is the conjunct `Room`
  of the invariant: a core that has popped a box has a free place, since thieves
  only take and nobody else pushes to its queue. `Own` states ownership by sets, so
  that a stolen batch is one set that changes places; `RegistryIds` says that ids in
  the registry were given out and differ, so that the slot found first is the only
  one; `LateIsCancelled` says that a task polled after its cancel is still marked and
  past that poll, so that the next look at the registry ends it. `RegistryBounded` is inductive
  because `spawn` appends only when the search for a dead slot failed, and then the
  slots are as many as the boxes. The search for the first slot needs that a
  nonempty set of naturals has a least element, which comes from the library's
  well-foundedness theorems.
* **StaticExecutor_proofs**, for any cores, wakers and tasks: `TypeCorrect`, `Exclusion`
  (`QuietExclusive`), `ReadyOnce` (`NoPollAfterReady`), `NotForgotten` (`ReadyIsQueued`).
  Exclusion needs `PollIsRunning`: a quiet task stays Running from the
  compare-exchange until that same core stores the outcome, so no other core wins
  Ready -> Running. `ReadyOnce` needs `DoneIsFinal`. `NotForgotten` is conditional, as it must
  be: in a queue that is too short the discarded pushes do lose a task (section 3). The
  condition is `EnoughRoom`, a queue with one place per call of `add()` and of a waker. Its
  invariant `Counted` counts queue entries and busy actors against the calls made, so
  that with a pointer in hand at least one place is free. TLC checks a queue one shorter.
* **Channels_proofs**, for any senders, receivers, number of sends and all nine kinds:
  `TypeCorrect`, `OrderKept` (`SenderOrder`) and `DeliveredOnce`
  (`ExactlyOnce`). The invariant's `Partition` says that the values begun are exactly those
  in the channel or received, in futures, and lost, and that these sets are disjoint;
  `FutureIsLast` that the value in a waiting future is the newest of its sender, which
  is why storing it late, after any number of retries, keeps the order.
* **NanoExecutor_proofs**, for any finite set of nodes, rates and clock: `TypeCorrect`,
  `SinglePass` (`OncePerPass`), `MissesBounded` (`MissesAreBounded`) and the action property
  `NodesKept` (`NoNodeLost`). The list has no repetition; `Ahead` says that nothing from the
  cursor on was looked at, `GoneIsOut` that what was removed is not in the list, and
  `MissesPaid` carries the bound through the pass: a removal steps over one node and
  enlarges `gone` by one.
* **StealDeque_proofs**, for any workers and items: `ItemsOnePlace` and the action
  property `ItemsKept`. `OnePlace` says that hands, queues and booked batches have no
  item in common and none twice; it is inductive with the types, from lemmas on what
  joining and cutting a sequence does to its set of items.
* **LifoQueue_proofs**, for any workers, items, ring size, word size, first value of the
  counters and values of `count_fn`: `TypeCorrect`, `OneThiefAtATime` (`OneThief`),
  `Refinement` (`ImplementsDeque`), and what follows from it, `NoItemTwice` and
  `NoItemLost`. The hypothesis is `Roomy`: the ring has a slot for every item, and
  no call begins once `Wrap - N` items have entered its worker's queue. The first half is where the code's
  promise ends: with more items `push()` overwrites what a thief is copying
  (`lifo_ring`). The second is the bound of a 32-bit counter: after 2^32 pushes a packed word
  may be equal to one that a thief read long before, and the compare-exchange cannot
  tell. The counters may wrap around once, from any first value. The instance of `lifo` satisfies `Roomy`.

  The argument: a counter is read as how far it has moved from its first value (`P`,
  `O`, `H`, `T` for the push count, the pop count and the two heads; `CtrFacts` and `SlotFacts` are
  the modular arithmetic, across the wrap-around), so that the queue is the piece of
  the ring from `H` to `End = P - O` (`ContentIs`). The inductive invariant is `Ordered`
  (`T <= H <= End`), `OpOK` for each worker, `OneTaker`, and the deque's own invariant `OnePlace` of
  the mapped state. `OpOK` is what a worker knows in the middle of a call: that the
  counters it has read have only moved on since (`SnapOK`), that what it has booked
  lies exactly between the two heads (`TakeOK`), and what it has written behind its
  tail (`PushOK`, `CopyOK`). From `SnapOK` a compare-exchange that succeeds proves
  `T = H`, so no other thief is under way. The item count enters in `WriteBeyond`: the
  items of the queue, those a thief is copying out of it and those being written are
  all different (`OnePlace`), hence no more than `N`, hence in different slots. That the
  refinement's own invariant is part of the induction is why the two proofs are one.

Assumptions: `NoTask` is not a task, `Repolls` is Boolean, `None` is neither a value nor a
process; sizes, bounds, rates and ticks are naturals (and `MaxSends` at least one); `Kinds` are
kinds of `Discipline`; cores, wakers and tasks of the static executor and nodes of the nano
executor and workers and items of the static queue are finite sets; the ring's size divides
the words', and is less than half of it; `Home` is a core; a core of the dynamic executor is not its own
sibling. TLC evaluates each of them.

Only model-checked:

* every liveness property (`MutexProgress`, the fairness part of `ImplementsMailbox`,
  `TasksFinish`, `AddedFinishes`, `ChannelProgress`, `EveryNodeVisited`, `Ends`): the
  proof system has no rules for fairness;
* `Futures`, which uses recursive operators over trees of futures, and `Clock`, which it uses;
* `LifoQueue` with more items than slots, where `TypeOK` and `ImplementsDeque` do not hold.

## 5. Not modelled

Page allocation (`global_allocator.rs`, glue to talc), the inline assembly that
reads the counters, the parsing parts of the procedural macros and the
attribute macros (no state at run time), the demos, self-tests and QEMU runner
(they exercise the crate), `WakePolicy` and `config.rs` (declared, read by
nothing), `calc_freq_blocking` (deprecated, unused), and the external crates st3, spin,
crossbeam, nblfq and talc, which appear by their contract. `init_clock_freq` is run by
every `Executor::new` and stores field by field; a timer reads one field once,
so `FREQ` is one value per task here. Panics end a core and are guards. Weak
memory orderings are not modelled.

## 6. Plan

1. Foreign producers on the static queue (`waker_wake` pushing into another core's
   queue), composed from `LifoQueue` and `StaticExecutor`.
2. Proofs: the arithmetic of `Clock`, on which `NotEarly` rests; for `NotForgotten`, a
   bound that counts only the entries of other tasks; `OneThief` without the bound on
   the items, from the counters alone.
