----------------------------- MODULE LifoQueue -----------------------------
(***************************************************************************)
(* The lock-free work-stealing queue of async/src/no_alloc/lifo.rs, one    *)
(* step per access to what a thief and the owner share: `push_count`, the  *)
(* packed `pop_count_and_head`, the thieves' `head` and the ring buffer.   *)
(* tail = push_count - pop_count; the items are at head .. tail - 1.       *)
(*                                                                         *)
(* A worker is one core: it owns one queue and steals from the others into *)
(* it.  Items stand for task pointers; a worker pushes items it has in     *)
(* hand.  Counters wrap at Wrap (2^32 in the code) and start at Start, so  *)
(* that a run can cross the wrap-around.                                   *)
(***************************************************************************)
EXTENDS Integers, Sequences, FiniteSets, SequencesExt

CONSTANTS Workers,
          Items,
          N,        \* ring size, a power of two
          Wrap,     \* the counters are modulo Wrap, a multiple of N
          Start,    \* the counters' first value
          MaxPushes, \* bound: items that enter one queue
          Counts,   \* the values count_fn may return
          Null

ASSUME SizeAssumption ==
    /\ N \in Nat \ {0} /\ Wrap \in Nat /\ Start \in 0..(Wrap - 1)
    /\ Wrap > 2 * N /\ Wrap % N = 0
    /\ MaxPushes \in Nat /\ Counts \subseteq Nat
    /\ IsFiniteSet(Workers) /\ IsFiniteSet(Items) /\ Null \notin Items

VARIABLES push,    \* push_count
          pcah,    \* pop_count_and_head, unpacked
          head,    \* stealer_data.head
          buffer,  \* the ring
          held,    \* items a worker has in hand
          op       \* the call each worker is in, with its local variables

vars == <<push, pcah, head, buffer, held, op>>

(* u32 wrapping arithmetic *)
Plus(a, b) == (a + b) % Wrap
Minus(a, b) == (a - b) % Wrap

Idle == [at |-> "idle", kind |-> "none", victim |-> Null, snap |-> [pop |-> 0, head |-> 0],
         old |-> 0, want |-> 0, max |-> 0, count |-> 0, batch |-> <<>>, got |-> <<>>]

TailOf(w) == Minus(push[w], pcah[w].pop)

Init ==
    /\ push = [w \in Workers |-> Plus(Start, Start)]
    /\ pcah = [w \in Workers |-> [pop |-> Start, head |-> Start]]
    /\ head = [w \in Workers |-> Start]
    /\ buffer = [w \in Workers |-> [i \in 0..(N - 1) |-> Null]]
    /\ held \in [Workers -> SUBSET Items]
    /\ \A x \in Items : Cardinality({w \in Workers : x \in held[w]}) = 1
    /\ op = [w \in Workers |-> Idle]

ReadAt(w, p) == buffer[w][p % N]
WriteAt(b, p, x) == [b EXCEPT ![p % N] = x]

----------------------------------------------------------------------------
(* The bound on a worker's calls. *)
InBounds(w) == Minus(push[w], Plus(Start, Start)) < MaxPushes

(* push(): full against the booked head, not the thieves' head. *)
PushFull(w) == Minus(TailOf(w), pcah[w].head) >= N

PushCheck(w) ==
    /\ op[w].at = "idle"
    /\ InBounds(w)
    /\ ~PushFull(w)
    /\ \E x \in held[w] : op' = [op EXCEPT ![w] = [Idle EXCEPT !.at = "push", !.batch = <<x>>]]
    /\ UNCHANGED <<push, pcah, head, buffer, held>>

(* extend(): of one or two items those that fit before the thieves' head.  The
   code breaks off at the first that does not fit and drops the iterator: the
   pointers left over are the caller's, who is not told.  They stay in its hand
   here, so that nothing is lost says nothing of them. *)
ExtendCheck(w) ==
    LET room == Minus(Plus(head[w], N), TailOf(w))
        iters == {<<x>> : x \in held[w]} \cup
                 {<<p[1], p[2]>> : p \in {q \in held[w] \X held[w] : q[1] # q[2]}}
    IN
    /\ op[w].at = "idle"
    /\ InBounds(w)
    /\ room > 0
    /\ \E s \in iters :
          op' = [op EXCEPT ![w] =
                    [Idle EXCEPT !.at = "push",
                                 !.batch = SubSeq(s, 1, IF room < Len(s) THEN room ELSE Len(s))]]
    /\ UNCHANGED <<push, pcah, head, buffer, held>>

(* push(), extend(): write_at(tail, item).  Only the owner moves the tail. *)
PushWrite(w) ==
    LET k == op[w].count IN
    /\ op[w].at = "push"
    /\ k < Len(op[w].batch)
    /\ buffer' = [buffer EXCEPT ![w] = WriteAt(@, Plus(TailOf(w), k), op[w].batch[k + 1])]
    /\ op' = [op EXCEPT ![w].count = k + 1]
    /\ UNCHANGED <<push, pcah, head, held>>

(* push(), extend(): push_count.store(...) makes the items visible. *)
PushPublish(w) ==
    /\ op[w].at = "push"
    /\ op[w].count = Len(op[w].batch)
    /\ push' = [push EXCEPT ![w] = Plus(@, op[w].count)]
    /\ held' = [held EXCEPT ![w] = @ \ ToSet(op[w].batch)]
    /\ op' = [op EXCEPT ![w] = Idle]
    /\ UNCHANGED <<pcah, head, buffer>>

(* pop(): the first load of pop_count_and_head *)
PopLoad(w) ==
    /\ op[w].at = "idle"
    /\ op' = [op EXCEPT ![w] = [Idle EXCEPT !.at = "pop", !.snap = pcah[w]]]
    /\ UNCHANGED <<push, pcah, head, buffer, held>>

(* pop(): tail == head, None *)
PopEmpty(w) ==
    /\ op[w].at = "pop"
    /\ TailOf(w) = op[w].snap.head
    /\ op' = [op EXCEPT ![w] = Idle]
    /\ UNCHANGED <<push, pcah, head, buffer, held>>

(* Mutant: the slot at the tail is read, not the one below it. *)
PopCasAtTail(w) ==
    /\ op[w].at = "pop"
    /\ TailOf(w) # op[w].snap.head
    /\ IF pcah[w] = op[w].snap
       THEN /\ pcah' = [pcah EXCEPT ![w].pop = Plus(@, 1)]
            /\ held' = [held EXCEPT ![w] = @ \cup {ReadAt(w, TailOf(w))}]
            /\ op' = [op EXCEPT ![w] = Idle]
       ELSE /\ op' = [op EXCEPT ![w].snap = pcah[w]]
            /\ UNCHANGED <<pcah, held>>
    /\ UNCHANGED <<push, head, buffer>>

(* pop(): the compare-exchange, and the read of the slot it won *)
PopCas(w) ==
    /\ op[w].at = "pop"
    /\ TailOf(w) # op[w].snap.head
    /\ IF pcah[w] = op[w].snap
       THEN /\ pcah' = [pcah EXCEPT ![w].pop = Plus(@, 1)]
            /\ held' = [held EXCEPT ![w] = @ \cup {ReadAt(w, Minus(TailOf(w), 1))}]
            /\ op' = [op EXCEPT ![w] = Idle]
       ELSE /\ op' = [op EXCEPT ![w].snap = pcah[w]]
            /\ UNCHANGED <<pcah, held>>
    /\ UNCHANGED <<push, head, buffer>>

----------------------------------------------------------------------------
(* steal(), steal_and_pop(), drain(): the room at the destination, then
   book_items()'s first load. *)
BookLoad(w, v, kind) ==
    /\ op[w].at = "idle"
    /\ kind # "drain" => InBounds(w)
    /\ kind = "drain" <=> v = w
    /\ LET room == Minus(N, Minus(TailOf(w), head[w])) IN
       \E n \in Counts :
          op' = [op EXCEPT ![w] =
                    [Idle EXCEPT !.at = "head", !.kind = kind, !.victim = v,
                                 !.snap = pcah[v], !.want = n,
                                 !.max = CASE kind = "steal" -> room
                                           [] kind = "steal_and_pop" -> room + 1
                                           [] kind = "drain" -> Wrap - 1]]
    /\ UNCHANGED <<push, pcah, head, buffer, held>>

(* book_items(): the load of the thieves' head *)
BookHead(w) ==
    /\ op[w].at = "head"
    /\ op' = [op EXCEPT ![w].old = head[op[w].victim], ![w].at = "count"]
    /\ UNCHANGED <<push, pcah, head, buffer, held>>

SnapCount(w) == Minus(Minus(push[op[w].victim], op[w].snap.pop), op[w].snap.head)

Booked(w) == LET least(a, b) == IF a < b THEN a ELSE b
             IN  least(least(op[w].want, op[w].max), SnapCount(w))

(* book_items(): Busy while another thief is under way, or Empty *)
BookFails(w) ==
    /\ op[w].at = "count"
    /\ op[w].old # op[w].snap.head \/ Booked(w) = 0
    /\ op' = [op EXCEPT ![w] = Idle]
    /\ UNCHANGED <<push, pcah, head, buffer, held>>

(* Mutant: a thief does not look whether another one is under way. *)
BookCountNoBusy(w) ==
    /\ op[w].at = "count"
    /\ Booked(w) > 0
    /\ op' = [op EXCEPT ![w].count = Booked(w), ![w].at = "cas"]
    /\ UNCHANGED <<push, pcah, head, buffer, held>>

(* book_items(): the load of push_count and what follows from it *)
BookCount(w) ==
    /\ op[w].at = "count"
    /\ op[w].old = op[w].snap.head
    /\ Booked(w) > 0
    /\ op' = [op EXCEPT ![w].count = Booked(w), ![w].at = "cas"]
    /\ UNCHANGED <<push, pcah, head, buffer, held>>

(* Mutant: only the head half of the packed word is compared. *)
BookCasHeadOnly(w) ==
    LET v == op[w].victim IN
    /\ op[w].at = "cas"
    /\ IF pcah[v].head = op[w].snap.head
       THEN /\ pcah' = [pcah EXCEPT ![v].head = Plus(@, op[w].count)]
            /\ op' = [op EXCEPT ![w].at = "copy"]
       ELSE /\ op' = [op EXCEPT ![w].snap = pcah[v], ![w].count = 0, ![w].at = "count"]
            /\ UNCHANGED pcah
    /\ UNCHANGED <<push, head, buffer, held>>

(* book_items(): the compare-exchange; a failure goes round the loop *)
BookCas(w) ==
    LET v == op[w].victim IN
    /\ op[w].at = "cas"
    /\ IF pcah[v] = op[w].snap
       THEN /\ pcah' = [pcah EXCEPT ![v].head = Plus(@, op[w].count)]
            /\ op' = [op EXCEPT ![w].at = "copy"]
       ELSE /\ op' = [op EXCEPT ![w].snap = pcah[v], ![w].count = 0, ![w].at = "count"]
            /\ UNCHANGED pcah
    /\ UNCHANGED <<push, head, buffer, held>>

(* How many of the booked items stay in hand instead of being transferred. *)
Transfer(w) == CASE op[w].kind = "steal" -> op[w].count
                 [] op[w].kind = "steal_and_pop" -> op[w].count - 1
                 [] op[w].kind = "drain" -> 0

(* Read the next booked item; transfer it to the own ring beyond the tail.  For
   drain(), Drain::next(), called as clear() does it: the owner makes no other
   call until the iterator has ended. *)
Copy(w) ==
    LET v == op[w].victim
        k == Len(op[w].got)
        x == ReadAt(v, Plus(op[w].old, k))
    IN
    /\ op[w].at = "copy"
    /\ k < op[w].count
    /\ buffer' = IF k < Transfer(w)
                 THEN [buffer EXCEPT ![w] = WriteAt(@, Plus(TailOf(w), k), x)]
                 ELSE buffer
    /\ op' = [op EXCEPT ![w].got = Append(@, x)]
    /\ UNCHANGED <<push, pcah, head, held>>

(* dest.push_count.store(...); the item that is not transferred is returned. *)
Deliver(w) ==
    /\ op[w].at = "copy"
    /\ Len(op[w].got) = op[w].count
    /\ push' = [push EXCEPT ![w] = Plus(@, Transfer(w))]
    /\ held' = [held EXCEPT ![w] =
                   @ \cup ToSet(SubSeq(op[w].got, Transfer(w) + 1, op[w].count))]
    /\ op' = [op EXCEPT ![w].at = "done", ![w].got = <<>>]
    /\ UNCHANGED <<pcah, head, buffer>>

(* stealer_data.head.store(new_head): the next thief may book. *)
StoreHead(w) ==
    /\ op[w].at = "done"
    /\ head' = [head EXCEPT ![op[w].victim] = Plus(op[w].old, op[w].count)]
    /\ op' = [op EXCEPT ![w] = Idle]
    /\ UNCHANGED <<push, pcah, buffer, held>>

Next == \E w \in Workers :
    \/ PushCheck(w) \/ ExtendCheck(w) \/ PushWrite(w) \/ PushPublish(w)
    \/ PopLoad(w) \/ PopEmpty(w) \/ PopCas(w)
    \/ \E v \in Workers, k \in {"steal", "steal_and_pop", "drain"} : BookLoad(w, v, k)
    \/ BookHead(w) \/ BookFails(w) \/ BookCount(w) \/ BookCas(w)
    \/ Copy(w) \/ Deliver(w) \/ StoreHead(w)

Spec == Init /\ [][Next]_vars

----------------------------------------------------------------------------
Counters == 0..(Wrap - 1)

(* Counters are words, and a worker only ever gets items, never an empty slot. *)
TypeOK ==
    /\ push \in [Workers -> Counters]
    /\ pcah \in [Workers -> [pop : Counters, head : Counters]]
    /\ head \in [Workers -> Counters]
    /\ buffer \in [Workers -> [0..(N - 1) -> Items \cup {Null}]]
    /\ held \in [Workers -> SUBSET Items]

(* What the owner can see, and what a thief has booked and not delivered. *)
Content(w) ==
    [i \in 1..Minus(TailOf(w), pcah[w].head) |-> ReadAt(w, Plus(pcah[w].head, i - 1))]

InTransit(w) ==
    IF op[w].at # "copy" THEN <<>>
    ELSE [i \in 1..op[w].count |->
             IF i <= Len(op[w].got) THEN op[w].got[i]
             ELSE ReadAt(op[w].victim, Plus(op[w].old, i - 1))]

(***************************************************************************)
(* The ring with its counters implements the work-stealing deque: the      *)
(* owner's end is last-in first-out, thieves get the oldest items in       *)
(* order, and every item is in exactly one place.                          *)
(***************************************************************************)
Deque == INSTANCE StealDeque WITH
    deque <- [w \in Workers |-> Content(w)],
    transit <- [w \in Workers |-> InTransit(w)]

ImplementsDeque == Deque!Spec

(***************************************************************************)
(* book_items() lets one thief in at a time: while it takes, the thieves'  *)
(* head stays where it found it, what it has booked reaches from there to  *)
(* the booked head, and nobody else takes from the same queue.             *)
(***************************************************************************)
OneThief ==
    \A w \in Workers : op[w].at \in {"copy", "done"} =>
        LET v == op[w].victim IN
        /\ head[v] = op[w].old
        /\ Plus(head[v], op[w].count) = pcah[v].head
        /\ \A z \in Workers \ {w} : op[z].at \in {"copy", "done"} => op[z].victim # v

(***************************************************************************)
(* spare_capacity() returns `N - len`, and steal() and steal_and_pop()     *)
(* reckon the room at the destination as `N as u32 - ..`, with the thieves'*)
(* head: the subtraction is right as long as what lies between that head   *)
(* and the tail fits into the ring.                                        *)
(***************************************************************************)
RingFits == \A w \in Workers : Minus(TailOf(w), head[w]) <= N
=============================================================================
