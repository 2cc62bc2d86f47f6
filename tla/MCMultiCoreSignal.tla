------------------------- MODULE MCMultiCoreSignal -------------------------
(* Three processes and two values. *)
EXTENDS MultiCoreSignal

CONSTANTS p1, p2, p3, d1, d2

MCProcs == {p1, p2, p3}
MCData == {d1, d2}
=============================================================================
