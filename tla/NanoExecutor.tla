---------------------------- MODULE NanoExecutor ----------------------------
(***************************************************************************)
(* The single-core executor of async/src/nano_alloc/executor.rs: a linked  *)
(* list of task nodes, walked once by every run_step().  One step of the   *)
(* model is one turn of the walk's loop.  Nodes are added between passes   *)
(* (add() and run_step() both borrow the executor mutably).                *)
(***************************************************************************)
EXTENDS Integers, Sequences, FiniteSets, SequencesExt

CONSTANTS Tasks,
          Freqs,    \* the frequencies asked for; 0 means every pass
          FreqBase, \* Executor::freq, ticks per second
          MaxTime   \* bound: the clock stops here

ASSUME ConstantsAssumption ==
    /\ IsFiniteSet(Tasks)
    /\ Freqs \subseteq Nat /\ FreqBase \in Nat /\ MaxTime \in Nat

VARIABLES list,      \* the nodes from Executor::head on
          interval,  \* TaskNode::interval, in ticks once added
          nextRun,   \* TaskNode::next_run_time
          fresh,     \* nodes not yet added
          time,      \* the time of the pass under way, or of the last one
          cursor,    \* position of the walk; 0 between passes
          visited,   \* history: nodes whose deadline this pass looked at
          gone       \* history: nodes this pass removed

vars == <<list, interval, nextRun, fresh, time, cursor, visited, gone>>

Due(t) == time >= nextRun[t]

Init ==
    /\ list = <<>>
    /\ interval = [t \in Tasks |-> 0]
    /\ nextRun = [t \in Tasks |-> 0]
    /\ fresh = Tasks
    /\ time = 0
    /\ cursor = 0
    /\ visited = {}
    /\ gone = {}

(* Mutant: the frequency is multiplied instead of divided by. *)
TicksInverse(f) == FreqBase * f

(* checked_div(..).unwrap_or(0): 0 Hz, and more than FreqBase, are every pass. *)
Ticks(f) == IF f = 0 THEN 0 ELSE FreqBase \div f

(* add(): to the front of the list *)
Add(t, f) ==
    /\ cursor = 0
    /\ t \in fresh
    /\ fresh' = fresh \ {t}
    /\ interval' = [interval EXCEPT ![t] = Ticks(f)]
    /\ list' = <<t>> \o list
    /\ UNCHANGED <<nextRun, time, cursor, visited, gone>>

(* run_step(tick(), cx): the clock does not go back, and may stand still. *)
StepBegin ==
    /\ cursor = 0
    /\ time' \in time..MaxTime
    /\ cursor' = 1
    /\ visited' = {}
    /\ gone' = {}
    /\ UNCHANGED <<list, interval, nextRun, fresh>>

Walking == cursor \in 1..Len(list)

(* Not due: on to the next node. *)
NotYet ==
    /\ Walking
    /\ ~Due(list[cursor])
    /\ visited' = visited \cup {list[cursor]}
    /\ cursor' = cursor + 1
    /\ UNCHANGED <<list, interval, nextRun, fresh, time, gone>>

(* Poll::Pending: the next run is one interval from this pass's time. *)
Pending ==
    /\ Walking
    /\ Due(list[cursor])
    /\ nextRun' = [nextRun EXCEPT ![list[cursor]] = time + interval[list[cursor]]]
    /\ visited' = visited \cup {list[cursor]}
    /\ cursor' = cursor + 1
    /\ UNCHANGED <<list, interval, fresh, time, gone>>

(* Mutant: the walk steps over two nodes behind the removed one. *)
ReadySkipsTwo ==
    /\ Walking
    /\ Due(list[cursor])
    /\ list' = RemoveAt(list, cursor)
    /\ visited' = visited \cup {list[cursor]}
    /\ gone' = gone \cup {list[cursor]}
    /\ cursor' = cursor + 2
    /\ UNCHANGED <<interval, nextRun, fresh, time>>

(* Mutant: bridging goes one node too far back. *)
ReadyStepsBack ==
    /\ Walking
    /\ Due(list[cursor])
    /\ list' = RemoveAt(list, cursor)
    /\ visited' = visited \cup {list[cursor]}
    /\ gone' = gone \cup {list[cursor]}
    /\ cursor' = IF cursor = 1 THEN 1 ELSE cursor - 1
    /\ UNCHANGED <<interval, nextRun, fresh, time>>

(* Mutant: bridging takes the rest of the list away. *)
ReadyCuts ==
    /\ Walking
    /\ Due(list[cursor])
    /\ list' = SubSeq(list, 1, cursor - 1)
    /\ visited' = visited \cup {list[cursor]}
    /\ gone' = gone \cup {list[cursor]}
    /\ cursor' = cursor + 1
    /\ UNCHANGED <<interval, nextRun, fresh, time>>

(* Poll::Ready: the node is bridged out.  The cursor's link now holds the
   successor, and the turn's last line steps over it. *)
Ready ==
    /\ Walking
    /\ Due(list[cursor])
    /\ list' = RemoveAt(list, cursor)
    /\ visited' = visited \cup {list[cursor]}
    /\ gone' = gone \cup {list[cursor]}
    /\ cursor' = cursor + 1
    /\ UNCHANGED <<interval, nextRun, fresh, time>>

(* The link at the cursor is None: the pass is over. *)
StepEnd ==
    /\ cursor > Len(list)
    /\ cursor' = 0
    /\ UNCHANGED <<list, interval, nextRun, fresh, time, visited, gone>>

Step == StepBegin \/ NotYet \/ Pending \/ Ready \/ StepEnd

Next == Step \/ \E t \in Tasks, f \in Freqs : Add(t, f)

Spec == Init /\ [][Next]_vars

(* run_forever() calls run_step() in a loop. *)
FairSpec == Spec /\ WF_vars(Step)

----------------------------------------------------------------------------
(* Every variable has its type, and an interval is at most one second. *)
TypeOK ==
    /\ list \in Seq(Tasks)
    /\ interval \in [Tasks -> 0..FreqBase]
    /\ nextRun \in [Tasks -> 0..(MaxTime + FreqBase)]
    /\ fresh \subseteq Tasks
    /\ time \in 0..MaxTime
    /\ cursor \in 0..(Cardinality(Tasks) + 2)
    /\ visited \subseteq Tasks /\ gone \subseteq Tasks

(* run_step() is a single pass: the walk never comes back to a node it has
   already looked at, although nodes are removed under it. *)
OncePerPass == Walking => list[cursor] \notin visited

(***************************************************************************)
(* "It might miss the next one", and no more than one: at the end of a     *)
(* pass the walk has passed over at most as many nodes as have finished.   *)
(***************************************************************************)
MissesAreBounded ==
    cursor > Len(list) => Cardinality(ToSet(list) \ visited) <= Cardinality(gone)

(* Every node stays in the list from add() until its future is Ready. *)
NoNodeLost ==
    [][ToSet(list) \ ToSet(list') \subseteq (gone' \ gone)
       /\ Cardinality(ToSet(list) \ ToSet(list')) <= 1]_vars

(* "... but it's not a problem for polling": a node in the list gets its turn
   in some later pass. *)
EveryNodeVisited == \A t \in Tasks : t \in ToSet(list) ~> t \in visited
=============================================================================
