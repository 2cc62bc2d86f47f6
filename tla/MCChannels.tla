----------------------------- MODULE MCChannels -----------------------------
(* All nine channels, each with two senders and, where it can, two receivers. *)
EXTENDS Channels

CONSTANTS s1, s2, r1, r2

AllKinds == DOMAIN Discipline
TwoSenders == {s1, s2}
TwoReceivers == {r1, r2}
=============================================================================
