---------------------------- MODULE MCNetSession ----------------------------
(* Instance of NetSession for TLC.                                         *)
EXTENDS NetSession, TLC
=============================================================================
