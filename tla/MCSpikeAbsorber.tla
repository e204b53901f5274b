--------------------------- MODULE MCSpikeAbsorber ---------------------------
(* Three producers race for a ring of two slots.  Producers outnumber the  *)
(* slots and every slot is reused, so laps, stale positions and refusals   *)
(* all happen.                                                             *)
EXTENDS SpikeAbsorber
===============================================================================
