------------------------------ MODULE Mailbox ------------------------------
(***************************************************************************)
(* What MultiCoreSignal promises ("a single-slot mailbox", last write      *)
(* wins, reset on read): a slot that is put into, cleared, and emptied by  *)
(* the one waiter that takes its value.                                    *)
(***************************************************************************)
CONSTANTS Procs, Data, None

VARIABLES slot,     \* the value left in the mailbox, or None
          waiting,  \* the processes with a wait() under way
          got       \* the value a process is being handed

vars == <<slot, waiting, got>>

Init ==
    /\ slot = None
    /\ waiting = {}
    /\ got = [p \in Procs |-> None]

(* The last value put is the one that counts. *)
Put(d) == slot' = d /\ UNCHANGED <<waiting, got>>

Clear == slot' = None /\ UNCHANGED <<waiting, got>>

Wait(p) ==
    /\ p \notin waiting /\ got[p] = None
    /\ waiting' = waiting \cup {p}
    /\ UNCHANGED <<slot, got>>

GiveUp(p) ==
    /\ p \in waiting
    /\ waiting' = waiting \ {p}
    /\ UNCHANGED <<slot, got>>

(* One waiter gets the value, and the slot no longer has it. *)
Take(p) ==
    /\ p \in waiting /\ slot # None
    /\ got' = [got EXCEPT ![p] = slot]
    /\ slot' = None
    /\ waiting' = waiting \ {p}

Done(p) ==
    /\ got[p] # None
    /\ got' = [got EXCEPT ![p] = None]
    /\ UNCHANGED <<slot, waiting>>

Next ==
    \/ \E d \in Data : Put(d)
    \/ Clear
    \/ \E p \in Procs : Wait(p) \/ GiveUp(p) \/ Take(p) \/ Done(p)

SafeSpec == Init /\ [][Next]_vars

(* A process that keeps waiting is handed a value that stays available. *)
Spec == SafeSpec /\ \A p \in Procs : WF_vars(Take(p))
=============================================================================
