------------------------------ MODULE Futures ------------------------------
(***************************************************************************)
(* One task whose future is composed by join!, try_join!, join_all! and    *)
(* select! (macros/src/nano.rs, async/src/common/control.rs) of timeouts,  *)
(* timers, yields, skips and paced loops (async/src/common/time.rs,        *)
(* step.rs) and of leaves: foreign futures, such as KeyInputFuture, that   *)
(* are Ready when they like.  A step is one poll of the task by its        *)
(* executor, at one reading of the tick counter.                           *)
(*                                                                         *)
(* PollOf(f, env) is what poll() of f does: whether it is Ready, with what *)
(* value, what f has become, and which of its leaves were polled, in that  *)
(* order.                                                                  *)
(***************************************************************************)
EXTENDS Clock, Sequences, SequencesExt

CONSTANTS Programs,  \* the composed futures to look at
          Samples,   \* what calibration may measure
          Starts,    \* the tick at which the task is built
          MaxNow,    \* bound: the last tick
          Patience   \* a foreign future is Pending at most this often

VARIABLES prog,  \* what was written
          freq,  \* FREQ when it was evaluated
          start, \* and the tick
          fut,   \* the future
          now,   \* the tick counter
          out,   \* what the task returned, <<>> until then
          log    \* the leaves polled in the last step, in that order

vars == <<prog, freq, start, fut, now, out, log>>

----------------------------------------------------------------------------
(* What a program is written with. *)
Leaf(id) == [op |-> "leaf", id |-> id, left |-> Patience, res |-> "none"]
Timer(id, call, n) == [op |-> "timer", id |-> id, call |-> call, n |-> n]
Yield(id) == [op |-> "yield", id |-> id, yielded |-> FALSE]
Skip(id, n) == [op |-> "skip", id |-> id, n |-> n]
Timeout(e, ticks) == [op |-> "timeout", e |-> e, ticks |-> ticks]
Macro(name, args) == [op |-> name, args |-> args]

(* loop { pacer.count_update(update).step(i, repeat).await; }, `calls` times, with
   Pacer::new(first). *)
Paced(id, first, update, i, repeat, calls) ==
    [op |-> "paced", id |-> id, count |-> first, countdown |-> first, first |-> first,
     update |-> update, i |-> i, repeat |-> repeat, calls |-> calls, todo |-> calls,
     wait |-> <<>>, waits |-> 0]

Join(h, t) == [op |-> "Join", head |-> h, tail |-> t, head_done |-> FALSE, tail_done |-> FALSE]
TryJoin(h, t) == [Join(h, t) EXCEPT !.op = "TryJoin"]
JoinAll(h, t) == [op |-> "JoinAll", head |-> h, tail |-> t, head_res |-> <<>>, tail_res |-> <<>>]
Select(h, t) == [op |-> "Select", head |-> h, tail |-> t]

Node(op, h, t) ==
    CASE op = "Join" -> Join(h, t) [] op = "TryJoin" -> TryJoin(h, t)
      [] op = "JoinAll" -> JoinAll(h, t) [] op = "Select" -> Select(h, t)

(* build_join_tree: nested to the right. *)
BuildTree(op, fs) == FoldRight(LAMBDA h, t : Node(op, h, t), Front(fs), Last(fs))

(* What the macros expand to: an async block around the tree, where join_all! and
   select! make a tuple or an arm of its output. *)
Expanded(name, tree, count) == [op |-> name, tree |-> tree, count |-> count, res |-> "none"]

(* join!, try_join!; of nothing, async {} *)
ExpandJoin(op, fs) ==
    Expanded("block", IF fs = <<>> THEN [op |-> "async"] ELSE BuildTree(op, fs), Len(fs))

(* join_all!; of one future, what that returns and no tuple *)
JoinAllTree(fs) == BuildTree("JoinAll", fs)
ExpandJoinAll(fs) ==
    IF Len(fs) <= 1 THEN ExpandJoin("JoinAll", fs) ELSE Expanded("tuple", JoinAllTree(fs), Len(fs))

(* select! of two and more futures (of none it is Pending for ever, of one it does
   not compile).  It has no block of its own, and as a part is written in one. *)
SelectTree(fs) == BuildTree("Select", fs)
ExpandSelect(fs) == Expanded("match", SelectTree(fs), Len(fs))

(* The expressions are evaluated at tick `start`: in the macros' blocks that is
   the first poll, so no tick need go by before it. *)
RECURSIVE Build(_)
Build(e) ==
    LET fs == [i \in 1..Len(e.args) |-> Build(e.args[i])] IN
    CASE e.op = "join!" -> ExpandJoin("Join", fs)
      [] e.op = "try_join!" -> ExpandJoin("TryJoin", fs)
      [] e.op = "join_all!" -> ExpandJoinAll(fs)
      [] e.op = "select!" -> ExpandSelect(fs)
      [] e.op = "timeout" -> [op |-> "Timeout", future |-> Build(e.e),
                              deadline |-> TimeoutDeadline(start, e.ticks)]
      [] e.op = "timer" -> [op |-> "WaitTimer", id |-> e.id, call |-> e.call, n |-> e.n,
                            deadline |-> After(start, Dsl(e.call, e.n, freq)), at |-> <<>>]
      [] OTHER -> e

----------------------------------------------------------------------------
(* What a poll gives. *)
Ready(val, f, polled) == [ready |-> TRUE, val |-> val, f |-> f, log |-> polled]
Pending(f, polled) == [ready |-> FALSE, val |-> <<>>, f |-> f, log |-> polled]
NotPolled(f) == Pending(f, <<>>)
Unit == <<>>
IsErr(r) == r.ready /\ r.val[1] = "err"
IsOk(r) == r.ready /\ ~IsErr(r)

RECURSIVE PollOf(_, _)

(* A foreign future, such as KeyInputFuture::poll: Ready once the environment
   says so, and an error to poll again after that. *)
PollLeaf(f, env) ==
    IF f.res # "none" THEN Ready(<<"err", f.id>>, [f EXCEPT !.res = "panic"], <<f.id>>)
    ELSE IF f.id \in env.ready \/ f.left = 0
    THEN LET res == IF f.id \in env.fails THEN "err" ELSE "ok"
         IN  Ready(<<res, f.id>>, [f EXCEPT !.res = res], <<f.id>>)
    ELSE Pending([f EXCEPT !.left = @ - 1], <<f.id>>)

(* WaitTimer::poll *)
PollTimer(f, env) ==
    IF IsExpired(env.now, f.deadline)
    THEN Ready(Unit, [f EXCEPT !.at = <<env.now>>], <<f.id>>)
    ELSE Pending(f, <<f.id>>)

(* Mutant: a yield does not remember that it has yielded. *)
PollYieldForgets(f) == IF f.yielded THEN Ready(Unit, f, <<f.id>>) ELSE Pending(f, <<f.id>>)

(* _Yield::poll *)
PollYield(f) ==
    IF f.yielded THEN Ready(Unit, f, <<f.id>>)
                 ELSE Pending([f EXCEPT !.yielded = TRUE], <<f.id>>)

(* Mutant: the counter is decremented before it is looked at. *)
PollSkipPast(f) ==
    IF f.n < 0 THEN Ready(Unit, f, <<f.id>>) ELSE Pending([f EXCEPT !.n = @ - 1], <<f.id>>)

(* Skip::poll *)
PollSkip(f) ==
    IF f.n = 0 THEN Ready(Unit, f, <<f.id>>) ELSE Pending([f EXCEPT !.n = @ - 1], <<f.id>>)

(* Mutant: the countdown is not reloaded. *)
ReloadNever(f) == f

(* Pacer::count_update: the countdown that is running stays as it is. *)
CountUpdate(f) == [f EXCEPT !.count = f.update]

(* Pacer::step: the reload when the countdown has run out. *)
Reload(f) == IF f.repeat THEN [f EXCEPT !.countdown = f.count] ELSE f

(* The loop over Pacer::step up to its next await (throttle: i = 0, once; repeat:
   i = 0; burst: i > 0).  Yield.await is Pending once, Skip(i).await i times. *)
RECURSIVE PaceOn(_)
PaceOn(f) ==
    IF f.todo = 0 THEN Ready(Unit, f, <<f.id>>)
    ELSE IF f.countdown > 0
    THEN PaceOn([CountUpdate(f) EXCEPT !.countdown = @ - 1, !.todo = @ - 1])
    ELSE Pending([Reload(CountUpdate(f)) EXCEPT !.wait = <<IF f.i = 0 THEN 0 ELSE f.i - 1>>,
                                                !.waits = @ + 1], <<f.id>>)

PollPaced(f) ==
    IF f.wait = <<>> THEN PaceOn(f)
    ELSE IF f.wait[1] = 0 THEN PaceOn([f EXCEPT !.wait = <<>>, !.todo = @ - 1])
    ELSE Pending([f EXCEPT !.wait = <<f.wait[1] - 1>>, !.waits = @ + 1], <<f.id>>)

(* Mutant: the answer is looked for before the deadline. *)
PollTimeoutLate(f, env) ==
    LET r == PollOf(f.future, env)
        g == [f EXCEPT !.future = r.f]
    IN  IF r.ready THEN Ready(<<"ok", r.val>>, g, r.log)
        ELSE IF env.now >= f.deadline THEN Ready(<<"err", "elapsed">>, g, r.log)
        ELSE Pending(g, r.log)

(* Timeout::poll: the deadline first. *)
PollTimeout(f, env) ==
    IF env.now >= f.deadline THEN Ready(<<"err", "elapsed">>, f, <<>>)
    ELSE LET r == PollOf(f.future, env)
             g == [f EXCEPT !.future = r.f]
         IN  IF r.ready THEN Ready(<<"ok", r.val>>, g, r.log) ELSE Pending(g, r.log)

(* Mutant: a finished head is polled again. *)
PollJoinAgain(f, env) ==
    LET h == PollOf(f.head, env)
        t == IF f.tail_done THEN NotPolled(f.tail) ELSE PollOf(f.tail, env)
        g == [f EXCEPT !.head = h.f, !.head_done = @ \/ h.ready,
                       !.tail = t.f, !.tail_done = @ \/ t.ready]
    IN  IF g.head_done /\ g.tail_done THEN Ready(Unit, g, h.log \o t.log)
                                      ELSE Pending(g, h.log \o t.log)

(* Join::poll *)
PollJoin(f, env) ==
    LET h == IF f.head_done THEN NotPolled(f.head) ELSE PollOf(f.head, env)
        t == IF f.tail_done THEN NotPolled(f.tail) ELSE PollOf(f.tail, env)
        g == [f EXCEPT !.head = h.f, !.head_done = @ \/ h.ready,
                       !.tail = t.f, !.tail_done = @ \/ t.ready]
    IN  IF g.head_done /\ g.tail_done THEN Ready(Unit, g, h.log \o t.log)
                                      ELSE Pending(g, h.log \o t.log)

(* TryJoin::poll: an error returns at once. *)
PollTryJoin(f, env) ==
    LET h == IF f.head_done THEN NotPolled(f.head) ELSE PollOf(f.head, env)
        g == [f EXCEPT !.head = h.f, !.head_done = @ \/ IsOk(h)]
        t == IF f.tail_done THEN NotPolled(f.tail) ELSE PollOf(f.tail, env)
        k == [g EXCEPT !.tail = t.f, !.tail_done = @ \/ IsOk(t)]
    IN  IF IsErr(h) THEN Ready(h.val, g, h.log)
        ELSE IF IsErr(t) THEN Ready(t.val, k, h.log \o t.log)
        ELSE IF k.head_done /\ k.tail_done THEN Ready(<<"ok", Unit>>, k, h.log \o t.log)
        ELSE Pending(k, h.log \o t.log)

(* JoinAll::poll: the results are kept, and taken when both are there. *)
PollJoinAll(f, env) ==
    LET h == IF f.head_res # <<>> THEN NotPolled(f.head) ELSE PollOf(f.head, env)
        t == IF f.tail_res # <<>> THEN NotPolled(f.tail) ELSE PollOf(f.tail, env)
        hr == IF h.ready THEN <<h.val>> ELSE f.head_res
        tr == IF t.ready THEN <<t.val>> ELSE f.tail_res
        g == [f EXCEPT !.head = h.f, !.tail = t.f]
    IN  IF hr # <<>> /\ tr # <<>>
        THEN Ready(hr \o tr, [g EXCEPT !.head_res = <<>>, !.tail_res = <<>>], h.log \o t.log)
        ELSE Pending([g EXCEPT !.head_res = hr, !.tail_res = tr], h.log \o t.log)

(* Mutant: the tail is polled although the head is Ready. *)
PollSelectBoth(f, env) ==
    LET h == PollOf(f.head, env)
        t == PollOf(f.tail, env)
        g == [f EXCEPT !.head = h.f, !.tail = t.f]
    IN  IF h.ready THEN Ready(<<"Left", h.val>>, g, h.log \o t.log)
        ELSE IF t.ready THEN Ready(<<"Right", t.val>>, g, h.log \o t.log)
        ELSE Pending(g, h.log \o t.log)

(* Select::poll: the first that is Ready, the head before the tail. *)
PollSelect(f, env) ==
    LET h == PollOf(f.head, env)
        g == [f EXCEPT !.head = h.f]
        t == PollOf(f.tail, env)
        k == [g EXCEPT !.tail = t.f]
    IN  IF h.ready THEN Ready(<<"Left", h.val>>, g, h.log)
        ELSE IF t.ready THEN Ready(<<"Right", t.val>>, k, h.log \o t.log)
        ELSE Pending(k, h.log \o t.log)

(* join_all!: `let (r0, (r1, r2)) = tree.await; (r0, r1, r2)` *)
RECURSIVE Flattened(_, _)
Flattened(val, count) ==
    IF count = 1 THEN <<val>> ELSE <<val[1]>> \o Flattened(val[2], count - 1)

(* select!: arm i of the match, counted from 1, and the value it binds.  Its
   pattern is Left under i - 1 times Right; the last arm's is Right only. *)
RECURSIVE Arm(_, _)
Arm(val, count) ==
    IF count = 1 THEN <<1, val>>
    ELSE IF val[1] = "Left" THEN <<1, val[2]>>
    ELSE LET arm == Arm(val[2], count - 1) IN <<arm[1] + 1, arm[2]>>

(* Mutant: the patterns count the other way. *)
OutputReversed(f, val) ==
    CASE f.op = "block" -> val
      [] f.op = "tuple" -> Reverse(Flattened(val, f.count))
      [] f.op = "match" -> LET arm == Arm(val, f.count) IN <<f.count + 1 - arm[1], arm[2]>>

Output(f, val) ==
    CASE f.op = "block" -> val
      [] f.op = "tuple" -> Flattened(val, f.count)
      [] f.op = "match" -> Arm(val, f.count)

(* The async block: to poll it again once it has returned is a panic. *)
PollExpanded(f, env) ==
    LET r == PollOf(f.tree, env)
        g == [f EXCEPT !.tree = r.f]
    IN  IF f.res # "none" THEN Ready(Unit, [f EXCEPT !.res = "panic"], <<>>)
        ELSE IF r.ready THEN Ready(Output(f, r.val), [g EXCEPT !.res = "ok"], r.log)
        ELSE Pending(g, r.log)

PollOf(f, env) ==
    CASE f.op = "leaf" -> PollLeaf(f, env)
      [] f.op = "async" -> Ready(Unit, f, <<>>)
      [] f.op = "WaitTimer" -> PollTimer(f, env)
      [] f.op = "yield" -> PollYield(f)
      [] f.op = "skip" -> PollSkip(f)
      [] f.op = "paced" -> PollPaced(f)
      [] f.op = "Timeout" -> PollTimeout(f, env)
      [] f.op = "Join" -> PollJoin(f, env)
      [] f.op = "TryJoin" -> PollTryJoin(f, env)
      [] f.op = "JoinAll" -> PollJoinAll(f, env)
      [] f.op = "Select" -> PollSelect(f, env)
      [] f.op \in {"block", "tuple", "match"} -> PollExpanded(f, env)

(* The futures a composed future is made of, and its timeouts. *)
RECURSIVE Parts(_)
Parts(f) ==
    {f} \cup CASE f.op \in {"Join", "TryJoin", "JoinAll", "Select"} -> Parts(f.head) \cup Parts(f.tail)
               [] f.op = "Timeout" -> Parts(f.future)
               [] f.op \in {"block", "tuple", "match"} -> Parts(f.tree)
               [] OTHER -> {}

Leaves(f) == {p \in Parts(f) : p.op = "leaf"}
Ids(f) == {p.id : p \in {q \in Parts(f) : "id" \in DOMAIN q}}

----------------------------------------------------------------------------
Init ==
    /\ prog \in Programs
    /\ freq \in {Uncalibrated} \cup {Calibrated(s) : s \in Samples}
    /\ start \in Starts
    /\ fut = Build(prog)
    /\ now = start
    /\ out = <<>>
    /\ log = <<>>

(* The executor polls the task; it is not polled again once it is Ready. *)
PollTask ==
    /\ out = <<>>
    /\ \E ready \in SUBSET {l.id : l \in Leaves(fut)} : \E fails \in SUBSET ready :
          \E r \in {PollOf(fut, [now |-> now, ready |-> ready, fails |-> fails])} :
          /\ fut' = r.f
          /\ log' = r.log
          /\ out' = IF r.ready THEN <<r.val>> ELSE <<>>
    /\ UNCHANGED <<prog, freq, start, now>>

(* The tick counter runs; a task without timers and timeouts never reads it. *)
Tick ==
    /\ out = <<>>
    /\ \E p \in Parts(fut) : p.op \in {"WaitTimer", "Timeout"}
    /\ now < MaxNow
    /\ now' = now + 1
    /\ UNCHANGED <<prog, freq, start, fut, out, log>>

Next == PollTask \/ Tick

Spec == Init /\ [][Next]_vars /\ WF_vars(PollTask) /\ WF_vars(Tick)

----------------------------------------------------------------------------
(* The counters stay in range: no usize underflows, no deadline exceeds u64, no
   leaf is polled that the task does not have. *)
TypeOK ==
    /\ now \in start..MaxNow
    /\ log \in Seq(Ids(fut))
    /\ \A p \in Parts(fut) :
          /\ p.op = "skip" => p.n \in Nat
          /\ p.op = "paced" => p.countdown \in 0..Max({p.first, p.update}) /\ p.todo \in 0..p.calls
          /\ p.op \in {"WaitTimer", "Timeout"} => p.deadline \in 0..Most

(***************************************************************************)
(* No future is polled after it has returned Ready, however macros and     *)
(* timeouts are nested: an async block would panic, a SendFuture too.      *)
(***************************************************************************)
NeverRepolled == \A p \in Parts(fut) : "res" \in DOMAIN p => p.res # "panic"

(* The programs that apply one macro to foreign futures only. *)
Flat == prog.op \in {"join!", "try_join!", "join_all!", "select!"}
        /\ \A i \in 1..Len(prog.args) : prog.args[i].op = "leaf"
Args == [i \in 1..Len(prog.args) |-> prog.args[i].id]
ResOf(id) == (CHOOSE l \in Leaves(fut) : l.id = id).res

(* The results at which a macro stops polling. *)
Stopping == CASE prog.op = "try_join!" -> {"err", "panic"}
              [] prog.op = "select!" -> {"ok", "err", "panic"}
              [] OTHER -> {}

(***************************************************************************)
(* nano.rs: "All passed futures are polled within the same executor step". *)
(* A step polls the futures that are not finished, each once, in the order *)
(* they are written; try_join! stops at the first error and select! at the *)
(* first result.                                                           *)
(***************************************************************************)
StepPollsAll ==
    [][LET open == SelectSeq(Args, LAMBDA id : ResOf(id) = "none")
           after == {l \in Leaves(fut) : l.res \in Stopping}'
           stop == {l.id : l \in after}
       IN  Flat /\ fut' # fut =>
              /\ IsPrefix(log', open)
              /\ \A k \in 1..(Len(log') - 1) : log'[k] \notin stop
              /\ log' # open => log'[Len(log')] \in stop]_vars

(***************************************************************************)
(* What the macros promise: join! ends when all have; try_join! with the   *)
(* one error there was or when all succeeded; join_all! with the results   *)
(* in the order of its arguments; select! runs the arm of the one future   *)
(* that has finished.                                                      *)
(***************************************************************************)
MacroOutcome ==
    Flat /\ out # <<>> /\ Args # <<>> =>
        LET val == out[1]
            with(S) == {id \in Ids(fut) : ResOf(id) \in S}
        IN  CASE prog.op = "join!" -> with({"none"}) = {}
              [] prog.op = "try_join!" ->
                    IF val[1] = "err" THEN with({"err"}) = {val[2]}
                                      ELSE with({"none", "err"}) = {}
              [] prog.op = "join_all!" ->
                    val = [i \in 1..Len(Args) |-> <<ResOf(Args[i]), Args[i]>>]
              [] prog.op = "select!" ->
                    with({"ok", "err"}) = {Args[val[1]]} /\ val[2][2] = Args[val[1]]

(* The ticks that n units take at least: a unit's fraction of a tick is cut off,
   but a calibrated ms, us or ns is no less than one tick; a ps may be none. *)
Nominal(call, n) ==
    LET hz == freq.hz IN
    CASE call \in DOMAIN Seconds -> n * hz * Seconds[call]
      [] call = "s" -> n * hz
      [] call = "fps" -> hz \div Max({n, 1})
      [] call = "ps" \/ hz = 0 -> n * (hz \div PerSecond[call])
      [] OTHER -> n * Max({hz \div PerSecond[call], 1})

(***************************************************************************)
(* A timer does not expire early, in any unit, as long as its deadline is  *)
(* a tick count there is: past that after() wraps around and it expires at *)
(* once.  Nothing is claimed of hz(), which its comment calls a period of  *)
(* 1 second / frequency and which waits that many seconds.                 *)
(***************************************************************************)
NotEarly ==
    \A p \in Parts(fut) : p.op = "WaitTimer" /\ p.call # "hz" /\ p.at # <<>> =>
        LET due == start + Nominal(p.call, p.n) IN p.at[1] >= due \/ due >= Word

(* time.rs: "an already-expired timeout never polls (and never runs) its
   future", so a late answer is never returned. *)
ExpiredNotPolled ==
    [][\A p \in Parts(fut) : p.op = "Timeout" /\ now >= p.deadline /\ fut' # fut =>
          \A i \in 1..Len(log') : log'[i] \notin Ids(p.future)]_vars

(* The times a loop gives way if `free` calls pass first, and then one in `period`
   gives way. *)
Triggers(calls, free, period) ==
    IF calls <= free THEN 0 ELSE (calls - free - 1) \div period + 1

(***************************************************************************)
(* A paced loop gives way at its pace, each time for one pass of the       *)
(* executor or for i: without `repeat`, on every call once `first` calls   *)
(* went by; with it, at most once in `count` calls, which is the rate that *)
(* the comments give, and at least once in count + 1, which is the rate    *)
(* that step() has.  Changing the count restarts no countdown.             *)
(***************************************************************************)
PacerRate ==
    \A p \in Parts(fut) : p.op = "paced" /\ p.todo = 0 =>
        \E times \in 0..p.calls :
            /\ p.waits = times * Max({p.i, 1})
            /\ ~p.repeat => times = Triggers(p.calls, p.first, 1)
            /\ p.repeat =>
                  /\ times >= Triggers(p.calls, p.first, p.update + 1)
                  /\ times <= Triggers(p.calls, Max({p.first, 1}) - 1, Max({p.update, 1}))

(* Foreign futures being finite and the clock running, the task ends: no macro
   waits for something that nobody polls any more. *)
Ends == <>(out # <<>>)
=============================================================================
