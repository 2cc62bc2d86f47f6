-------------------------- MODULE MultiCoreSignal --------------------------
(***************************************************************************)
(* MultiCoreSignal of async/src/common/signal.rs: a value behind a spin    *)
(* lock, and an atomic flag that lets poll() skip the lock.  The flag and  *)
(* the value are written in separate steps, in opposite orders by signal() *)
(* and reset(); poll() clears the flag before the guard of its `match` is  *)
(* dropped, so while it still owns the lock.                               *)
(*                                                                         *)
(* Every process may signal, reset and wait in turn.  A critical section   *)
(* that is one access is one step, enabled when the lock is free; poll()'s *)
(* is two, with the lock owned in between.                                 *)
(***************************************************************************)
CONSTANTS Procs,   \* tasks and cores that share the signal
          Data,    \* the values signalled
          None     \* the empty Option

ASSUME NoneAssumption == None \notin Data /\ None \notin Procs

VARIABLES data,      \* MultiCoreSignal::data
          owner,     \* who holds data's spin lock across steps
          has_data,  \* MultiCoreSignal::has_data
          pc,        \* where each process is
          val        \* the value it signals or was handed

vars == <<data, owner, has_data, pc, val>>

(***************************************************************************)
(* idle    outside                                                         *)
(* write   signal(): value not stored yet                                  *)
(* flag    signal(): value stored, flag not set yet                        *)
(* unflag  reset(): nothing done yet                                       *)
(* clear   reset(): flag cleared, value not yet                            *)
(* wait    a future exists and is not being polled                         *)
(* take    poll(): the flag was read as set, the lock not acquired yet     *)
(* taken   poll(): the value was taken, flag not cleared, lock held        *)
(***************************************************************************)
Locations == {"idle", "write", "flag", "unflag", "clear", "wait", "take", "taken"}

Init ==
    /\ data = None
    /\ owner = None
    /\ has_data = FALSE
    /\ pc = [p \in Procs |-> "idle"]
    /\ val = [p \in Procs |-> None]

Goto(p, l) == pc' = [pc EXCEPT ![p] = l]

(* signal(data) *)
Signal(p) ==
    /\ pc[p] = "idle"
    /\ \E d \in Data : val' = [val EXCEPT ![p] = d]
    /\ Goto(p, "write")
    /\ UNCHANGED <<data, owner, has_data>>

(* signal(): *self.data.lock() = Some(data) *)
WriteData(p) ==
    /\ pc[p] = "write"
    /\ owner = None
    /\ data' = val[p]
    /\ val' = [val EXCEPT ![p] = None]
    /\ Goto(p, "flag")
    /\ UNCHANGED <<owner, has_data>>

(* signal(): has_data.store(true) *)
SetFlag(p) ==
    /\ pc[p] = "flag"
    /\ has_data' = TRUE
    /\ Goto(p, "idle")
    /\ UNCHANGED <<data, owner, val>>

(* reset() *)
Reset(p) ==
    /\ pc[p] = "idle"
    /\ Goto(p, "unflag")
    /\ UNCHANGED <<data, owner, has_data, val>>

(* reset(): has_data.store(false) *)
ClearFlag(p) ==
    /\ pc[p] = "unflag"
    /\ has_data' = FALSE
    /\ Goto(p, "clear")
    /\ UNCHANGED <<data, owner, val>>

(* reset(): *self.data.lock() = None *)
ClearData(p) ==
    /\ pc[p] = "clear"
    /\ owner = None
    /\ data' = None
    /\ Goto(p, "idle")
    /\ UNCHANGED <<owner, has_data, val>>

(* wait() *)
Wait(p) ==
    /\ pc[p] = "idle"
    /\ Goto(p, "wait")
    /\ UNCHANGED <<data, owner, has_data, val>>

(* The future has no state of its own; dropping it has no effect. *)
DropWait(p) ==
    /\ pc[p] = "wait"
    /\ Goto(p, "idle")
    /\ UNCHANGED <<data, owner, has_data, val>>

(* poll(): the load of has_data; Pending when it is false. *)
LoadFlag(p) ==
    /\ pc[p] = "wait"
    /\ has_data
    /\ Goto(p, "take")
    /\ UNCHANGED <<data, owner, has_data, val>>

(* Mutant: Ready is returned without looking for a value. *)
TakeDataUnchecked(p) ==
    /\ pc[p] = "take"
    /\ owner = None
    /\ val' = [val EXCEPT ![p] = data]
    /\ data' = None
    /\ owner' = p
    /\ Goto(p, "taken")
    /\ UNCHANGED has_data

(* Mutant: the guard is dropped right after take(). *)
TakeDataUnlocks(p) ==
    /\ pc[p] = "take"
    /\ owner = None
    /\ data # None
    /\ val' = [val EXCEPT ![p] = data]
    /\ data' = None
    /\ Goto(p, "taken")
    /\ UNCHANGED <<owner, has_data>>

(* Mutant: the value is copied out, not taken. *)
TakeDataCopies(p) ==
    /\ pc[p] = "take"
    /\ owner = None
    /\ data # None
    /\ val' = [val EXCEPT ![p] = data]
    /\ owner' = p
    /\ Goto(p, "taken")
    /\ UNCHANGED <<data, has_data>>

(* poll(): match self.data.lock().take() { Some ... *)
TakeData(p) ==
    /\ pc[p] = "take"
    /\ owner = None
    /\ data # None
    /\ val' = [val EXCEPT ![p] = data]
    /\ data' = None
    /\ owner' = p
    /\ Goto(p, "taken")
    /\ UNCHANGED has_data

(* poll(): ... None => Pending, another consumer was faster. *)
TakeNone(p) ==
    /\ pc[p] = "take"
    /\ owner = None
    /\ data = None
    /\ Goto(p, "wait")
    /\ UNCHANGED <<data, owner, has_data, val>>

(* poll(): has_data.store(false); the guard is dropped; Ready(data). *)
Ready(p) ==
    /\ pc[p] = "taken"
    /\ has_data' = FALSE
    /\ owner' = None
    /\ val' = [val EXCEPT ![p] = None]
    /\ Goto(p, "idle")
    /\ UNCHANGED data

(* The steps of a call or a poll that is under way, or due. *)
Run(p) ==
    \/ WriteData(p) \/ SetFlag(p) \/ ClearFlag(p) \/ ClearData(p)
    \/ LoadFlag(p) \/ TakeData(p) \/ TakeNone(p) \/ Ready(p)

Next == \E p \in Procs :
    Run(p) \/ Signal(p) \/ Reset(p) \/ Wait(p) \/ DropWait(p)

(* Calls run to their end, and the executors poll Pending futures again. *)
Spec == Init /\ [][Next]_vars /\ \A p \in Procs : WF_vars(Run(p))

----------------------------------------------------------------------------
(* Every variable has its type, and val holds a value where one is in hand. *)
TypeOK ==
    /\ data \in Data \cup {None}
    /\ owner \in Procs \cup {None}
    /\ has_data \in BOOLEAN
    /\ pc \in [Procs -> Locations]
    /\ val \in [Procs -> Data \cup {None}]
    /\ \A p \in Procs : pc[p] \in {"write", "taken"} <=> val[p] # None

(***************************************************************************)
(* A value that is in the signal can be found: the flag is set, or the     *)
(* signal() that is about to set it, or the reset() that is about to drop  *)
(* the value, has not returned yet.  poll() looks at nothing but the flag, *)
(* so a value left behind a cleared flag would be lost.                    *)
(***************************************************************************)
NoLostSignal ==
    data # None /\ ~has_data => \E p \in Procs : pc[p] \in {"flag", "clear"}

(***************************************************************************)
(* The signal is a mailbox: a value is handed to at most one waiter, is    *)
(* the last one put, and a waiter that keeps polling gets a value that     *)
(* stays there.                                                            *)
(***************************************************************************)
Box == INSTANCE Mailbox WITH
    slot <- data,
    waiting <- {p \in Procs : pc[p] \in {"wait", "take"}},
    got <- [p \in Procs |-> IF pc[p] = "taken" THEN val[p] ELSE None]

ImplementsMailbox == Box!Spec
=============================================================================
