------------------------------ MODULE WsHandles ------------------------------
(***************************************************************************)
(* What the WebSocket slot pool of src/src/ws_server.c promises its users: *)
(* a table that binds every connected socket to one handle.  A handle is   *)
(* never bound to two sockets at a time, and a handle that was once bound  *)
(* to a socket is never bound to another one, so that an application that  *)
(* still holds it cannot address a stranger.                               *)
(***************************************************************************)

CONSTANTS Handles, Fds

VARIABLES
    bound,   \* the <<handle, fd>> pairs of the sockets that have a handle now
    issued   \* every pair that was ever bound

vars == <<bound, issued>>

Init == bound = {} /\ issued = {}

\* A socket without a handle receives one that is free and that no other
\* socket ever had.
Bind(h, f) ==
    /\ \A p \in bound : p[1] # h /\ p[2] # f
    /\ \A p \in issued : p[1] = h => p[2] = f
    /\ bound' = bound \cup {<<h, f>>}
    /\ issued' = issued \cup {<<h, f>>}

Release(h, f) ==
    /\ <<h, f>> \in bound
    /\ bound' = bound \ {<<h, f>>}
    /\ UNCHANGED issued

Next == \E h \in Handles, f \in Fds : Bind(h, f) \/ Release(h, f)

Spec == Init /\ [][Next]_vars
=============================================================================
