------------------------------ MODULE Channels ------------------------------
(***************************************************************************)
(* The channels of async/src/nano_alloc/channel.rs and                     *)
(* async/src/no_alloc/channel.rs and the single-core signals of            *)
(* async/src/common/signal.rs.  They share one scheme: send() stores into  *)
(* a slot or a queue, the receiver's poll takes from it or is Pending, and *)
(* nobody is woken, because the executors poll Pending tasks again.  What  *)
(* tells the nine apart is a record, their discipline:                     *)
(*                                                                         *)
(*   slot     send() overwrites an Option instead of appending             *)
(*   bound    items at which a push fails, 0 for none                      *)
(*   once     send() consumes the sender                                   *)
(*   many     several tasks may receive                                    *)
(*   owned    the receiver owns the storage, the senders point to it       *)
(*   twoStep  poll looks for the value and then takes it                   *)
(*                                                                         *)
(* Access to the storage is atomic: single-core channels are used by tasks *)
(* that do not preempt each other, the others take a spin lock or use      *)
(* crossbeam's and nblfq's queues (external, linearizable).  UnsafeSignal  *)
(* is the exception, as interrupt handlers may signal it during a poll.    *)
(***************************************************************************)
EXTENDS Naturals, Sequences, FiniteSets

CONSTANTS Kinds,      \* the channels to look at
          Cap,        \* capacity asked for
          Senders,
          Receivers,
          MaxSends    \* bound: values each sender sends

ASSUME ConstantsAssumption ==
    /\ Cap \in Nat \ {0}
    /\ MaxSends \in Nat \ {0}

Queue == [slot |-> FALSE, bound |-> 0, once |-> FALSE, many |-> FALSE,
          owned |-> FALSE, twoStep |-> FALSE]

(* single: Rc<RefCell<Option>>, Rc<RefCell<VecDeque>>, and a boxed VecDeque
   whose capacity is a reservation and no bound. *)
SingleOneshot == [Queue EXCEPT !.slot = TRUE, !.once = TRUE]
SingleUnbounded == Queue
SingleBounded == [Queue EXCEPT !.owned = TRUE]

(* multiple: Arc<Mutex<Option>>, Arc<SegQueue>, Arc<ArrayQueue> *)
MultiOneshot == [Queue EXCEPT !.slot = TRUE, !.once = TRUE]
MultiUnbounded == Queue
MultiBounded == [Queue EXCEPT !.bound = Cap]

(* no_alloc: a borrowed nblfq queue, any number of handles on either side *)
StaticChannel == [Queue EXCEPT !.bound = Cap, !.many = TRUE]

(* Signal and UnsafeSignal: any task may wait() *)
Signal == [Queue EXCEPT !.slot = TRUE, !.many = TRUE]
UnsafeSignal == [Signal EXCEPT !.twoStep = TRUE]

Discipline ==
    [SingleOneshot |-> SingleOneshot, SingleUnbounded |-> SingleUnbounded,
     SingleBounded |-> SingleBounded, MultiOneshot |-> MultiOneshot,
     MultiUnbounded |-> MultiUnbounded, MultiBounded |-> MultiBounded,
     StaticChannel |-> StaticChannel, Signal |-> Signal, UnsafeSignal |-> UnsafeSignal]

ASSUME KindsAssumption == Kinds \subseteq DOMAIN Discipline

VARIABLES kind,     \* which channel this is
          store,    \* its storage, oldest value first; a slot holds at most one
          sent,     \* how many values each sender has begun to send
          future,   \* the value in a SendFuture (or send_async), <<>> for none
          looking,  \* the receiver that has seen a value and not yet taken it
          gone,     \* receivers that were dropped
          taken,    \* history: what the receivers got, in that order
          lost      \* history: values that were overwritten or dropped

vars == <<kind, store, sent, future, looking, gone, taken, lost>>

d == Discipline[kind]

Sources == IF d.once THEN {CHOOSE s \in Senders : TRUE} ELSE Senders
Sinks == IF d.many THEN Receivers ELSE {CHOOSE r \in Receivers : TRUE}

Init ==
    /\ kind \in Kinds
    /\ store = <<>>
    /\ sent = [s \in Senders |-> 0]
    /\ future = [s \in Senders |-> <<>>]
    /\ looking = {}
    /\ gone = {}
    /\ taken = <<>>
    /\ lost = {}

Elements(seq) == {seq[i] : i \in 1..Len(seq)}
HasRoom == d.bound = 0 \/ Len(store) < d.bound

(* Mutant: a full queue still takes the value. *)
StoredUnchecked(v) == store' = Append(store, v) /\ UNCHANGED lost

(* What storing v does: `*slot = Some(v)`, dropping what was there, or a push. *)
Stored(v) ==
    IF d.slot THEN store' = <<v>> /\ lost' = lost \cup Elements(store)
              ELSE HasRoom /\ store' = Append(store, v) /\ UNCHANGED lost

(* The next value of sender s.  A oneshot sender is consumed by send().  A sender
   awaits a send before it begins the next: a program that polls several send()
   futures of one handle, which &self allows, is several senders here. *)
Begin(s) ==
    /\ s \in Sources
    /\ sent[s] < IF d.once THEN 1 ELSE MaxSends
    /\ future[s] = <<>>
    /\ sent' = [sent EXCEPT ![s] = @ + 1]
NextValue(s) == <<s, sent[s] + 1>>

(* send(), signal(): synchronous and unbounded.  Where the receiver owns the
   storage, not calling it after the receiver is dropped is the caller's duty. *)
Send(s) ==
    /\ d.bound = 0
    /\ Begin(s)
    /\ ~(d.owned /\ gone # {})
    /\ Stored(NextValue(s))
    /\ UNCHANGED <<kind, future, looking, gone, taken>>

(* try_send(): on a full queue the value goes back to the caller. *)
TrySend(s) ==
    /\ d.bound > 0
    /\ Begin(s)
    /\ Stored(NextValue(s))
    /\ UNCHANGED <<kind, future, looking, gone, taken>>

(* send(), send_async(): a future that holds the value. *)
SendFuture(s) ==
    /\ d.bound > 0
    /\ Begin(s)
    /\ future' = [future EXCEPT ![s] = NextValue(s)]
    /\ UNCHANGED <<kind, store, looking, gone, taken, lost>>

(* Mutant: the value is not put back when the queue is full. *)
PollSendForgets(s) ==
    /\ future[s] # <<>>
    /\ IF HasRoom THEN Stored(future[s]) ELSE UNCHANGED <<store, lost>>
    /\ future' = [future EXCEPT ![s] = <<>>]
    /\ UNCHANGED <<kind, sent, looking, gone, taken>>

(* Mutant: a value that does not fit is put in front of the queue. *)
PollSendAhead(s) ==
    /\ future[s] # <<>>
    /\ HasRoom
    /\ store' = <<future[s]>> \o store
    /\ future' = [future EXCEPT ![s] = <<>>]
    /\ UNCHANGED <<kind, sent, looking, gone, taken, lost>>

(* Mutant: a send that is Pending is not polled again, as no waker is called. *)
PollSendOnce(s) == FALSE

(* Its poll: the value is taken out, pushed, and put back if the queue is full
   (Pending, then Yield or a later poll, and again).  The poll that fails changes
   nothing and is no step. *)
PollSend(s) ==
    /\ future[s] # <<>>
    /\ Stored(future[s])
    /\ future' = [future EXCEPT ![s] = <<>>]
    /\ UNCHANGED <<kind, sent, looking, gone, taken>>

(* The future is dropped before it is done, by select!, a timeout or a cancel. *)
DropSend(s) ==
    /\ future[s] # <<>>
    /\ future' = [future EXCEPT ![s] = <<>>]
    /\ lost' = lost \cup {future[s]}
    /\ UNCHANGED <<kind, store, sent, looking, gone, taken>>

(* poll() of a receiver, try_recv(): take() or pop_front(), Pending on None. *)
Recv(r) ==
    /\ ~d.twoStep
    /\ r \in Sinks \ gone
    /\ store # <<>>
    /\ taken' = Append(taken, Head(store))
    /\ store' = Tail(store)
    /\ UNCHANGED <<kind, sent, future, looking, gone, lost>>

(* UnsafeSignal's poll: is_some().  That no other poll runs before this one has
   returned is an assumption about the program, whose waiters have to share a
   core; `unsafe impl Sync` lets it break that. *)
Look(r) ==
    /\ d.twoStep
    /\ looking = {}
    /\ r \in Sinks \ gone
    /\ store # <<>>
    /\ looking' = {r}
    /\ UNCHANGED <<kind, store, sent, future, gone, taken, lost>>

(* ... and take().expect(), after whatever an interrupt handler stored. *)
Take(r) ==
    /\ r \in looking
    /\ store # <<>>
    /\ taken' = Append(taken, Head(store))
    /\ store' = Tail(store)
    /\ looking' = looking \ {r}
    /\ UNCHANGED <<kind, sent, future, gone, lost>>

(* A receiver is dropped, and the storage with it if it owns it.  No sender can
   find out. *)
DropReceiver(r) ==
    /\ r \in Sinks \ (gone \cup looking)
    /\ gone' = gone \cup {r}
    /\ IF d.owned THEN store' = <<>> /\ lost' = lost \cup Elements(store)
                  ELSE UNCHANGED <<store, lost>>
    /\ UNCHANGED <<kind, sent, future, looking, taken>>

Poll(r) == Recv(r) \/ Look(r) \/ Take(r)

Next ==
    \/ \E s \in Senders : Send(s) \/ TrySend(s) \/ SendFuture(s) \/ PollSend(s) \/ DropSend(s)
    \/ \E r \in Receivers : Poll(r) \/ DropReceiver(r)

Spec == Init /\ [][Next]_vars

(* The executors poll every Pending task again and again; sending, dropping and
   giving up are up to the program.  The fairness of PollSend is weak: a poll finds
   room if there is room from some time on, and need not if it comes and goes. *)
FairSpec ==
    /\ Spec
    /\ \A s \in Senders : WF_vars(PollSend(s))
    /\ \A r \in Receivers : WF_vars(Poll(r))

----------------------------------------------------------------------------
Values == Senders \X (1..MaxSends)

(* Every variable has its type, and what is in the storage is within the
   channel's bound: a push is never taken on a full queue, whoever pushes. *)
TypeOK ==
    /\ kind \in Kinds
    /\ store \in Seq(Values)
    /\ d.slot => Len(store) <= 1
    /\ d.bound > 0 => Len(store) <= d.bound
    /\ sent \in [Senders -> 0..MaxSends]
    /\ future \in [Senders -> Values \cup {<<>>}]
    /\ looking \subseteq Receivers /\ gone \subseteq Receivers
    /\ taken \in Seq(Values)
    /\ lost \subseteq Values

Occurrences(v, seq) == Cardinality({i \in 1..Len(seq) : seq[i] = v})

(***************************************************************************)
(* Every value given to a channel is in exactly one place: in the future   *)
(* that retries it, in the channel, with the one receiver that got it, or  *)
(* lost; and values are lost only where a slot is overwritten, a sending   *)
(* future is dropped, or the storage goes with its receiver.               *)
(***************************************************************************)
ExactlyOnce ==
    \A s \in Senders : \A k \in 1..sent[s] :
        LET v == <<s, k>> IN
        Occurrences(v, store) + Occurrences(v, taken)
            + (IF future[s] = v THEN 1 ELSE 0) + (IF v \in lost THEN 1 ELSE 0) = 1

(***************************************************************************)
(* Receivers get the values of one sender in the order they were sent,     *)
(* across retries on a full queue, several receivers and overwritten       *)
(* values; for a slot, nothing older is received after something newer,    *)
(* also when an interrupt handler signals between a poll's is_some() and   *)
(* its take().  A sender is one that awaits each send before the next.     *)
(***************************************************************************)
SenderOrder ==
    LET all == taken \o store IN
    \A i, j \in 1..Len(all) : i < j /\ all[i][1] = all[j][1] => all[i][2] < all[j][2]

NobodyReceives == Sinks \subseteq gone
Admitted == Len(taken) + Len(store)
Total == Cardinality(Senders) * MaxSends

(***************************************************************************)
(* While somebody receives, the channel as a whole moves on, although no   *)
(* waker is ever called: if a send waits for room, its value or another    *)
(* one gets in, and if values wait, a next one is received.  This is no    *)
(* promise to the single sender: rivals that go on for ever may take the   *)
(* room that is made before each of its polls.                             *)
(***************************************************************************)
ChannelProgress ==
    \A n \in 0..Total :
        /\ \A s \in Senders :
              future[s] # <<>> /\ Admitted = n
                  ~> future[s] = <<>> \/ Admitted > n \/ NobodyReceives
        /\ store # <<>> /\ Len(taken) = n ~> Len(taken) > n \/ NobodyReceives
=============================================================================
