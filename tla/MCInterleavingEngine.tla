------------------------- MODULE MCInterleavingEngine -------------------------
EXTENDS InterleavingEngine, TLC
===============================================================================
