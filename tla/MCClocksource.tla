---------------------------- MODULE MCClocksource ----------------------------
(* Numbers of four and eight bits for TLC. *)
EXTENDS Clocksource

MCPmReports == {NoPm} \cup [port : {0, 1}, len : {3, 4}, bits : {PmBits, W}]
==============================================================================
