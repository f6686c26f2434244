----------------------------- MODULE MCWsCalls -----------------------------
(* Small instances of WsCalls for TLC.                                     *)
EXTENDS WsCalls
=============================================================================
