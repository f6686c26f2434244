--------------------------- MODULE MCWsInFlight ---------------------------
(* Small instances of WsInFlight for TLC.                                  *)
EXTENDS WsInFlight, TLC

\* The application's tasks are interchangeable.
Symmetry == Permutations(Senders)
=============================================================================
