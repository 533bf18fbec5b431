--------------------------- MODULE MCNetMessages ---------------------------
(* Instance of NetMessages for TLC.                                        *)
EXTENDS NetMessages, TLC

CONSTANTS m1, m2
=============================================================================
