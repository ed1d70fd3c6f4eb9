---------------------------- MODULE MCCollection ----------------------------
(* A small instance of Collection for TLC. *)
EXTENDS Collection, TLC

CONSTANTS c1, c2

OneChannel == {c1}
TwoChannels == {c1, c2}
=============================================================================
