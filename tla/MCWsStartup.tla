----------------------------- MODULE MCWsStartup -----------------------------
(* Small instances of WsStartup for TLC.                                   *)
EXTENDS WsStartup

\* The task is started after the callbacks, as ws_server.h:118 asks, and the
\* handler is registered after them.
CallbacksFirst == {<<"callbacks", "serve", "start">>, <<"callbacks", "start", "serve">>}

\* The order of examples/full/main/main.c:360-364 (refuted properties only).
OrderOfExample == {<<"serve", "callbacks", "start">>}
=============================================================================
