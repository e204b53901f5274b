---------------------------- MODULE MCPacingDaemon ----------------------------
(***************************************************************************)
(* PacingDaemon for TLC: one launching thread, three blocks on a ring of   *)
(* two slots, one submission entry and a bucket smaller than two blocks.   *)
(***************************************************************************)
EXTENDS PacingDaemon
===============================================================================
