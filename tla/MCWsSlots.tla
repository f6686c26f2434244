----------------------------- MODULE MCWsSlots -----------------------------
(* Small instances of WsSlots for TLC.                                     *)
EXTENDS WsSlots, TLC

\* Sockets are interchangeable: no action orders them.  Used only by runs
\* without liveness properties.
Symmetry == Permutations(Fds)
=============================================================================
