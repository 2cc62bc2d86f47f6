---------------------------- MODULE MCAsyncMutex ----------------------------
(* Three tasks contending for one mutex. *)
EXTENDS AsyncMutex

CONSTANTS t1, t2, t3

MCTasks == {t1, t2, t3}
=============================================================================
