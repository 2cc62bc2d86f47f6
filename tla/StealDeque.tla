----------------------------- MODULE StealDeque -----------------------------
(***************************************************************************)
(* What a work-stealing LIFO queue promises: each worker has a sequence of *)
(* items it pushes to and pops from at the end, thieves book items at the  *)
(* other end and deliver them in order, and no step loses or copies one.   *)
(***************************************************************************)
EXTENDS Naturals, Sequences, SequencesExt

CONSTANTS Workers, Items

VARIABLES deque,    \* per worker, oldest item first
          held,     \* the items a worker has in hand
          transit   \* the items a worker has booked and not delivered

vars == <<deque, held, transit>>

Init ==
    /\ deque = [w \in Workers |-> <<>>]
    /\ held \in [Workers -> SUBSET Items]
    /\ \A v, w \in Workers : v # w => held[v] \cap held[w] = {}
    /\ transit = [w \in Workers |-> <<>>]

(* The owner appends one or two items it has in hand. *)
Push(w) ==
    \E x, y \in held[w] :
        /\ deque' = [deque EXCEPT ![w] = @ \o IF x = y THEN <<x>> ELSE <<x, y>>]
        /\ held' = [held EXCEPT ![w] = @ \ {x, y}]
        /\ UNCHANGED transit

(* The owner takes the youngest item. *)
Pop(w) ==
    /\ deque[w] # <<>>
    /\ held' = [held EXCEPT ![w] = @ \cup {Last(deque[w])}]
    /\ deque' = [deque EXCEPT ![w] = Front(@)]
    /\ UNCHANGED transit

(* The n oldest items of v are booked for w. *)
Book(w, v) ==
    /\ transit[w] = <<>>
    /\ \E n \in 1..Len(deque[v]) :
          /\ transit' = [transit EXCEPT ![w] = SubSeq(deque[v], 1, n)]
          /\ deque' = [deque EXCEPT ![v] = SubSeq(@, n + 1, Len(@))]
    /\ UNCHANGED held

(* Booked items go to w's own queue, in order, from the n-th on into its hand. *)
Deliver(w) ==
    /\ transit[w] # <<>>
    /\ \E n \in {0, Len(transit[w]) - 1, Len(transit[w])} :
          /\ deque' = [deque EXCEPT ![w] = @ \o SubSeq(transit[w], 1, n)]
          /\ held' = [held EXCEPT ![w] =
                         @ \cup ToSet(SubSeq(transit[w], n + 1, Len(transit[w])))]
    /\ transit' = [transit EXCEPT ![w] = <<>>]

Next == \E w \in Workers :
    Push(w) \/ Pop(w) \/ Deliver(w) \/ \E v \in Workers : Book(w, v)

Spec == Init /\ [][Next]_vars
=============================================================================
