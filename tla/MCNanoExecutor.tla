--------------------------- MODULE MCNanoExecutor ---------------------------
(* Three tasks on one executor. *)
EXTENDS NanoExecutor

CONSTANTS t1, t2, t3

MCTasks == {t1, t2, t3}
=============================================================================
