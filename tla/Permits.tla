------------------------------- MODULE Permits -------------------------------
(***************************************************************************)
(* What the semaphore of a client in src/src/ws_server.c promises: at most *)
(* Max permits, each either free or out.  One is taken from the free ones  *)
(* and comes back at most once; one that is lost, with the connection it   *)
(* was taken for or with an answer nobody read, never comes back.          *)
(***************************************************************************)
EXTENDS Integers

CONSTANT Max

VARIABLES
    free,   \* permits in the semaphore
    out     \* permits that somebody will give back

vars == <<free, out>>

Init == free = Max /\ out = 0

Take == free > 0 /\ free' = free - 1 /\ out' = out + 1
Return == out > 0 /\ free' = free + 1 /\ out' = out - 1
Lose == out' \in 0 .. out - 1 /\ UNCHANGED free

Next == Take \/ Return \/ Lose

Spec == Init /\ [][Next]_vars
=============================================================================
