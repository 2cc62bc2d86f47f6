----------------------- MODULE MultiCoreSignal_proofs -----------------------
(***************************************************************************)
(* No signal is lost and the signal implements the mailbox's safety part,  *)
(* for any number of processes and values.                                 *)
(***************************************************************************)
EXTENDS MultiCoreSignal, TLAPS

(* The spin lock is owned across steps exactly by the poll that took a value,
   and the slot it leaves is empty until it has cleared the flag: the reason
   why clearing the flag cannot hide a later value. *)
LockDiscipline ==
    /\ \A p \in Procs : pc[p] = "taken" <=> owner = p
    /\ owner # None => data = None

IInv == TypeOK /\ LockDiscipline /\ NoLostSignal

(* A new signal satisfies the invariant. *)
LEMMA InitInv == Init => IInv
  BY NoneAssumption DEF Init, IInv, TypeOK, Locations, LockDiscipline, NoLostSignal

(* Every step of signal(), reset(), wait() and poll() preserves it. *)
LEMMA NextInv == IInv /\ [Next]_vars => IInv'
<1> SUFFICES ASSUME IInv, [Next]_vars PROVE IInv'
  OBVIOUS
<1> USE NoneAssumption DEF IInv, Goto
<1>1. CASE UNCHANGED vars
  BY <1>1 DEF vars, TypeOK, LockDiscipline, NoLostSignal
<1>2. ASSUME NEW p \in Procs, Signal(p) PROVE IInv'
  <2> USE <1>2 DEF Signal
  <2>1. TypeOK'          BY DEF TypeOK, Locations
  <2>2. LockDiscipline'  BY DEF TypeOK, LockDiscipline
  <2>3. NoLostSignal'    BY DEF TypeOK, NoLostSignal
  <2> QED  BY <2>1, <2>2, <2>3
<1>3. ASSUME NEW p \in Procs, WriteData(p) PROVE IInv'
  <2> USE <1>3 DEF WriteData
  <2>1. TypeOK'          BY DEF TypeOK, Locations
  <2>2. LockDiscipline'  BY DEF TypeOK, LockDiscipline
  <2>3. NoLostSignal'    BY DEF TypeOK, NoLostSignal
  <2> QED  BY <2>1, <2>2, <2>3
<1>4. ASSUME NEW p \in Procs, SetFlag(p) PROVE IInv'
  <2> USE <1>4 DEF SetFlag
  <2>1. TypeOK'          BY DEF TypeOK, Locations
  <2>2. LockDiscipline'  BY DEF TypeOK, LockDiscipline
  <2>3. NoLostSignal'    BY DEF TypeOK, NoLostSignal
  <2> QED  BY <2>1, <2>2, <2>3
<1>5. ASSUME NEW p \in Procs, Reset(p) PROVE IInv'
  <2> USE <1>5 DEF Reset
  <2>1. TypeOK'          BY DEF TypeOK, Locations
  <2>2. LockDiscipline'  BY DEF TypeOK, LockDiscipline
  <2>3. NoLostSignal'    BY DEF TypeOK, NoLostSignal
  <2> QED  BY <2>1, <2>2, <2>3
<1>6. ASSUME NEW p \in Procs, ClearFlag(p) PROVE IInv'
  <2> USE <1>6 DEF ClearFlag
  <2>1. TypeOK'          BY DEF TypeOK, Locations
  <2>2. LockDiscipline'  BY DEF TypeOK, LockDiscipline
  <2>3. NoLostSignal'    BY DEF TypeOK, NoLostSignal
  <2> QED  BY <2>1, <2>2, <2>3
<1>7. ASSUME NEW p \in Procs, ClearData(p) PROVE IInv'
  <2> USE <1>7 DEF ClearData
  <2>1. TypeOK'          BY DEF TypeOK, Locations
  <2>2. LockDiscipline'  BY DEF TypeOK, LockDiscipline
  <2>3. NoLostSignal'    BY DEF TypeOK, NoLostSignal
  <2> QED  BY <2>1, <2>2, <2>3
<1>8. ASSUME NEW p \in Procs, Wait(p) \/ DropWait(p) PROVE IInv'
  <2> USE <1>8 DEF Wait, DropWait
  <2>1. TypeOK'          BY DEF TypeOK, Locations
  <2>2. LockDiscipline'  BY DEF TypeOK, LockDiscipline
  <2>3. NoLostSignal'    BY DEF TypeOK, NoLostSignal
  <2> QED  BY <2>1, <2>2, <2>3
<1>9. ASSUME NEW p \in Procs, LoadFlag(p) \/ TakeNone(p) PROVE IInv'
  <2> USE <1>9 DEF LoadFlag, TakeNone
  <2>1. TypeOK'          BY DEF TypeOK, Locations
  <2>2. LockDiscipline'  BY DEF TypeOK, LockDiscipline
  <2>3. NoLostSignal'    BY DEF TypeOK, NoLostSignal
  <2> QED  BY <2>1, <2>2, <2>3
<1>10. ASSUME NEW p \in Procs, TakeData(p) PROVE IInv'
  <2> USE <1>10 DEF TakeData
  <2>1. TypeOK'          BY DEF TypeOK, Locations
  <2>2. LockDiscipline'  BY DEF TypeOK, LockDiscipline
  <2>3. NoLostSignal'    BY DEF TypeOK, NoLostSignal
  <2> QED  BY <2>1, <2>2, <2>3
<1>11. ASSUME NEW p \in Procs, Ready(p) PROVE IInv'
  <2> USE <1>11 DEF Ready
  <2>1. TypeOK'          BY DEF TypeOK, Locations
  <2>2. LockDiscipline'  BY DEF TypeOK, LockDiscipline
  <2>3. data = None      BY DEF TypeOK, LockDiscipline
  <2>4. NoLostSignal'    BY <2>3 DEF TypeOK, NoLostSignal
  <2> QED  BY <2>1, <2>2, <2>4
<1> QED
  BY <1>1, <1>2, <1>3, <1>4, <1>5, <1>6, <1>7, <1>8, <1>9, <1>10, <1>11 DEF Next, Run

(* The lock discipline and the flag protocol hold in every reachable state. *)
THEOREM Invariance == Spec => []IInv
<1>1. Init /\ [][Next]_vars => []IInv
  BY InitInv, NextInv, PTL
<1> QED  BY <1>1, PTL DEF Spec

(* Flag, value, lock and the calls under way are always well-formed. *)
THEOREM TypeCorrect == Spec => []TypeOK
<1>1. IInv => TypeOK
  BY DEF IInv
<1> QED  BY <1>1, Invariance, PTL

(* A value is never left where no poll() will look for it. *)
THEOREM SignalsAreFound == Spec => []NoLostSignal
<1>1. IInv => NoLostSignal
  BY DEF IInv
<1> QED  BY <1>1, Invariance, PTL

----------------------------------------------------------------------------
(* Every step is a step of the mailbox, or leaves it alone. *)
LEMMA NextRefines == IInv /\ [Next]_vars => [Box!Next]_(Box!vars)
<1> SUFFICES ASSUME IInv, [Next]_vars PROVE [Box!Next]_(Box!vars)
  OBVIOUS
<1> DEFINE W == {p \in Procs : pc[p] \in {"wait", "take"}}
           G == [p \in Procs |-> IF pc[p] = "taken" THEN val[p] ELSE None]
<1> USE NoneAssumption DEF IInv, Goto
<1>0. ASSUME UNCHANGED data, W' = W, G' = G PROVE [Box!Next]_(Box!vars)
  BY <1>0 DEF Box!vars
<1>1. CASE UNCHANGED vars
  <2>1. UNCHANGED data /\ W' = W /\ G' = G
    BY <1>1 DEF vars
  <2> QED  BY <1>0, <2>1
<1>2. ASSUME NEW p \in Procs, Signal(p) \/ SetFlag(p) \/ Reset(p) \/ ClearFlag(p)
                              \/ LoadFlag(p) \/ TakeNone(p)
      PROVE  [Box!Next]_(Box!vars)
  <2>1. UNCHANGED data /\ W' = W
    BY <1>2 DEF Signal, SetFlag, Reset, ClearFlag, LoadFlag, TakeNone, TypeOK
  <2>2. G' = G
    BY <1>2 DEF Signal, SetFlag, Reset, ClearFlag, LoadFlag, TakeNone, TypeOK
  <2> QED  BY <1>0, <2>1, <2>2
<1>3. ASSUME NEW p \in Procs, WriteData(p) PROVE [Box!Next]_(Box!vars)
  <2>1. val[p] \in Data /\ data' = val[p]
    BY <1>3 DEF WriteData, TypeOK
  <2>2. W' = W
    BY <1>3 DEF WriteData, TypeOK
  <2>3. G' = G
    BY <1>3 DEF WriteData, TypeOK
  <2> QED  BY <2>1, <2>2, <2>3 DEF Box!Next, Box!Put
<1>4. ASSUME NEW p \in Procs, ClearData(p) PROVE [Box!Next]_(Box!vars)
  <2>1. data' = None /\ W' = W
    BY <1>4 DEF ClearData, TypeOK
  <2>2. G' = G
    BY <1>4 DEF ClearData, TypeOK
  <2> QED  BY <2>1, <2>2 DEF Box!Next, Box!Clear
<1>5. ASSUME NEW p \in Procs, Wait(p) PROVE [Box!Next]_(Box!vars)
  <2>1. UNCHANGED data /\ p \notin W /\ W' = W \cup {p}
    BY <1>5 DEF Wait, TypeOK
  <2>2. G' = G /\ G[p] = None
    BY <1>5 DEF Wait, TypeOK
  <2>3. Box!Wait(p)
    BY <2>1, <2>2 DEF Box!Wait
  <2> QED  BY <2>3 DEF Box!Next
<1>6. ASSUME NEW p \in Procs, DropWait(p) PROVE [Box!Next]_(Box!vars)
  <2>1. UNCHANGED data /\ p \in W /\ W' = W \ {p}
    BY <1>6 DEF DropWait, TypeOK
  <2>2. G' = G
    BY <1>6 DEF DropWait, TypeOK
  <2>3. Box!GiveUp(p)
    BY <2>1, <2>2 DEF Box!GiveUp
  <2> QED  BY <2>3 DEF Box!Next
<1>7. ASSUME NEW p \in Procs, TakeData(p) PROVE [Box!Next]_(Box!vars)
  <2>1. data # None /\ data' = None /\ p \in W /\ W' = W \ {p}
    BY <1>7 DEF TakeData, TypeOK
  <2>2. G' = [G EXCEPT ![p] = data]
    BY <1>7 DEF TakeData, TypeOK
  <2>3. Box!Take(p)
    BY <2>1, <2>2 DEF Box!Take
  <2> QED  BY <2>3 DEF Box!Next
<1>8. ASSUME NEW p \in Procs, Ready(p) PROVE [Box!Next]_(Box!vars)
  <2>1. UNCHANGED data /\ W' = W
    BY <1>8 DEF Ready, TypeOK
  <2>2. G[p] # None /\ G' = [G EXCEPT ![p] = None]
    BY <1>8 DEF Ready, TypeOK
  <2>3. Box!Done(p)
    BY <2>1, <2>2 DEF Box!Done
  <2> QED  BY <2>3 DEF Box!Next
<1> QED
  BY <1>1, <1>2, <1>3, <1>4, <1>5, <1>6, <1>7, <1>8 DEF Next, Run

(* Values are put, cleared and handed over exactly as a mailbox does it. *)
THEOREM Refinement == Spec => Box!SafeSpec
<1>1. Init => Box!Init
  BY DEF Init, Box!Init
<1>2. Init /\ [][Next]_vars /\ []IInv => Box!SafeSpec
  BY <1>1, NextRefines, PTL DEF Box!SafeSpec
<1> QED  BY <1>2, Invariance, PTL DEF Spec
=============================================================================
