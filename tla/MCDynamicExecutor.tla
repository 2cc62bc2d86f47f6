------------------------- MODULE MCDynamicExecutor -------------------------
(* One core alone, or two of which the first may come to steal from the second. *)
EXTENDS DynamicExecutor

CONSTANTS c1, c2

OneCore == {c1}
NoSiblings == [c \in Cores |-> {}]
TwoCores == {c1, c2}
OneWay == [c \in Cores |-> IF c = c1 THEN {c2} ELSE {}]
=============================================================================
