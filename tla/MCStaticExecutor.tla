-------------------------- MODULE MCStaticExecutor --------------------------
(* Two cores and a source of wakeups: one of two tasks, or the only one, is
   woken. *)
EXTENDS StaticExecutor

CONSTANTS c1, c2, t1, t2, k1

TwoCores == {c1, c2}
MCTasks == {t1, t2}
OneTask == {t1}
OneWaker == {k1}
=============================================================================
