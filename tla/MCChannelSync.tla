---------------------------- MODULE MCChannelSync ----------------------------
(* Small instances of ChannelSync for TLC. *)
EXTENDS ChannelSync

CONSTANTS p1, p2, i1, i2, o1, o2, f1, f2

Changes == <<2, 1>>  \* of the first and of the second night
=============================================================================
