--------------------------- MODULE MCTEMPOScheduler ---------------------------
(* Small instances of TEMPOScheduler: see the .cfg files.                  *)
EXTENDS TEMPOScheduler
===============================================================================
