------------------------------- MODULE WsSlots -------------------------------
(***************************************************************************)
(* The connection pool of the WebSocket server, src/src/ws_server.c: the   *)
(* array s_slots, the mutex s_lock, the handles built from a slot's index  *)
(* and generation, and the three kinds of task that use them:              *)
(*   - the HTTP server task, which runs ws_handler for one socket at a     *)
(*     time (handshake, CLOSE frame, TEXT frame);                          *)
(*   - the receive task, which takes queued jobs and looks their handle up;*)
(*   - application tasks, which send with a handle on_open_cb gave them.   *)
(* A critical section of s_lock is one action, enabled when the mutex is   *)
(* free; "locked" is TRUE between actions only after a task has returned   *)
(* without giving the mutex back.                                          *)
(***************************************************************************)
EXTENDS Integers, Sequences

CONSTANTS
    MaxClients,    \* CONFIG_MAX_WS_CLIENTS
    Fds,           \* socket descriptors the HTTP server can be given
    NoFd,          \* fd of a slot that was never allocated (0)
    Senders,       \* application tasks
    Rx,            \* the ws_rx task
    QueueSize,     \* CONFIG_WS_RX_QUEUE_SIZE
    GenMod,        \* number of values of the uint16_t generation
    MaxGen,        \* bound: generations a slot goes through in a behaviour
    SocketErrors   \* whether sockets fail, or are closed without a CLOSE frame

ASSUME PoolAssumption ==
    /\ MaxClients \in Nat \ {0}
    /\ QueueSize \in Nat \ {0}
    /\ GenMod \in Nat \ {0, 1}
    /\ MaxGen \in Nat
    /\ NoFd \notin Fds
    /\ Rx \notin Senders
    /\ SocketErrors \in BOOLEAN

VARIABLES
    slots,    \* s_slots: used, gen and fd
    locked,   \* s_lock was taken and will never be given
    conn,     \* the sockets the HTTP server has open
    httpd,    \* where the HTTP server task is in ws_handler, and for whom
    rxq,      \* ws_rx_q: jobs, with the socket they came from (history)
    task,     \* the receive task and the senders
    given,    \* handles the application was ever given by on_open_cb
    opened,   \* handles it was not yet told are closed
    issued    \* history: every <<handle, fd>> ws_slot_alloc returned

vars == <<slots, locked, conn, httpd, rxq, task, given, opened, issued>>

Slots == 1 .. MaxClients
Tasks == Senders \cup {Rx}
NoHandle == <<0, 0>>                 \* the invalid handle, 0
Handles == Slots \X (0 .. GenMod - 1)
-----------------------------------------------------------------------------
(* Helpers.                                                                *)

\* Mutants, the definitions M_... in this module, are never part of Next: each
\* is the definition that follows it with a plausible bug.

M_make_handle(i) == <<i + 1, slots[i].gen>>           \* index+1 never undone
\* index+1 and generation, side by side in one 32-bit word
make_handle(i) == <<i, slots[i].gen>>

M_NextGen(g) == IF g = 0 THEN 1 ELSE g                \* no bump on reallocation
\* (gen + 1) ? (gen + 1) : 1, computed in int and stored in a uint16_t
NextGen(g) == (IF g + 1 # 0 THEN g + 1 ELSE 1) % GenMod

\* the element of S a loop over the slots stops at
IsFirst(i, S) == i \in S /\ \A j \in S : i <= j

Names(h, i) == slots[i].used /\ make_handle(i) = h

M_HandleOfFd(f) ==                                    \* the fd is not compared
    make_handle(CHOOSE i \in Slots : slots[i].used)

\* The used slots of a socket, and the handle of the first, 0 if none.
UsedFor(f) == {i \in Slots : slots[i].used /\ slots[i].fd = f}
HandleOfFd(f) ==
    IF UsedFor(f) = {} THEN NoHandle
    ELSE make_handle(CHOOSE i \in Slots : IsFirst(i, UsedFor(f)))

At(pc, f, h) == [pc |-> pc, fd |-> f, handle |-> h]
Idle == At("idle", NoFd, NoHandle)
-----------------------------------------------------------------------------
Init ==
    /\ slots = [i \in Slots |-> [used |-> FALSE, gen |-> 0, fd |-> NoFd]]
    /\ locked = FALSE
    /\ conn = {}
    /\ httpd = Idle
    /\ rxq = << >>
    /\ task = [t \in Tasks |-> [pc |-> "idle", handle |-> NoHandle, slot |-> 1]]
    /\ given = {}
    /\ opened = {}
    /\ issued = {}

(* The HTTP server hands a request to ws_handler.                          *)

\* An upgrade request on a new socket.  The bound keeps generations finite:
\* a socket that needs a fresh slot comes only while every slot has room.
Handshake(f) ==
    /\ httpd.pc = "idle"
    /\ f \notin conn
    /\ (\E i \in Slots : slots[i].fd = f) \/ (\A i \in Slots : slots[i].gen < MaxGen)
    /\ conn' = conn \cup {f}
    /\ httpd' = At("alloc", f, NoHandle)
    /\ UNCHANGED <<slots, locked, rxq, task, given, opened, issued>>

\* A frame on an open socket.
Frame(f, kind) ==
    /\ httpd.pc = "idle"
    /\ f \in conn
    /\ httpd' = At(kind, f, NoHandle)
    /\ UNCHANGED <<slots, locked, conn, rxq, task, given, opened, issued>>

\* The handler returns; the HTTP server closes the socket if "close".
Return(close) ==
    /\ httpd' = Idle
    /\ conn' = IF close THEN conn \ {httpd.fd} ELSE conn

(* Handshake: ws_slot_alloc, on_open_cb, and the undo when it fails.       *)

Occupy(i, slot) ==
    /\ slots' = [slots EXCEPT ![i] = slot]
    /\ issued' = issued \cup {<<<<i, slot.gen>>, slot.fd>>}
    /\ httpd' = At("opened", httpd.fd, <<i, slot.gen>>)
    /\ UNCHANGED <<locked, conn>>

M_SameFd == UsedFor(httpd.fd)                          \* only used slots are searched
SameFd == {i \in Slots : slots[i].fd = httpd.fd}
Unused == {i \in Slots : ~slots[i].used}
Untouched == {i \in Unused : slots[i].gen = 0}

\* The socket's last slot is free again: same generation, same handle.
ReuseSlot == \E i \in Slots :
    /\ IsFirst(i, SameFd)
    /\ ~slots[i].used
    /\ Occupy(i, [slots[i] EXCEPT !.used = TRUE])

\* The socket's slot is still in use: return with s_lock held.
RefuseBusyFd == \E i \in Slots :
    /\ IsFirst(i, SameFd)
    /\ slots[i].used
    /\ locked' = TRUE
    /\ Return(TRUE)
    /\ UNCHANGED <<slots, issued>>

\* A slot for a new socket: one that was never used, else any free one.
NewSlot == \E i \in Slots :
    /\ SameFd = {}
    /\ IsFirst(i, IF Untouched # {} THEN Untouched ELSE Unused)
    /\ Occupy(i, [used |-> TRUE, gen |-> NextGen(slots[i].gen), fd |-> httpd.fd])

M_RefusePoolFull ==                                    \* s_lock kept on the error path
    /\ SameFd = {} /\ Unused = {}
    /\ locked' = TRUE
    /\ Return(TRUE)
    /\ UNCHANGED <<slots, issued>>

RefusePoolFull ==
    /\ SameFd = {} /\ Unused = {}
    /\ Return(TRUE)
    /\ UNCHANGED <<slots, locked, issued>>

ws_slot_alloc ==
    /\ httpd.pc = "alloc" /\ ~locked
    /\ ReuseSlot \/ RefuseBusyFd \/ NewSlot \/ RefusePoolFull
    /\ UNCHANGED <<rxq, task, given, opened>>

M_OnOpen(accepted) ==                                  \* a refused client keeps its slot
    /\ httpd.pc = "opened"
    /\ given' = given \cup {httpd.handle}
    /\ opened' = IF accepted THEN opened \cup {httpd.handle} ELSE opened
    /\ Return(~accepted)
    /\ UNCHANGED <<slots, locked, rxq, task, issued>>

\* on_open_cb accepts the client, or refuses it and the slot is freed.
OnOpen(accepted) ==
    /\ httpd.pc = "opened"
    /\ given' = given \cup {httpd.handle}
    /\ IF accepted
       THEN opened' = opened \cup {httpd.handle} /\ Return(FALSE)
       ELSE /\ httpd' = [httpd EXCEPT !.pc = "free"]
            /\ UNCHANGED <<opened, conn>>
    /\ UNCHANGED <<slots, locked, rxq, task, issued>>

ws_slot_free_by_sockfd ==
    /\ httpd.pc = "free" /\ ~locked
    /\ slots' = [i \in Slots |-> IF IsFirst(i, UsedFor(httpd.fd))
                                 THEN [slots[i] EXCEPT !.used = FALSE]
                                 ELSE slots[i]]
    /\ Return(TRUE)
    /\ UNCHANGED <<locked, rxq, task, given, opened, issued>>

(* CLOSE frame: echo it, tell the application, free the slot.              *)
OnClose ==
    /\ httpd.pc = "close" /\ ~locked
    /\ opened' = opened \ {HandleOfFd(httpd.fd)}
    /\ httpd' = [httpd EXCEPT !.pc = "free"]
    /\ UNCHANGED <<slots, locked, conn, rxq, task, given, issued>>

\* The payload of a CLOSE frame cannot be received: free without a callback.
ClosePayloadError ==
    /\ SocketErrors /\ httpd.pc = "close"
    /\ httpd' = [httpd EXCEPT !.pc = "free"]
    /\ UNCHANGED <<slots, locked, conn, rxq, task, given, opened, issued>>

(* TEXT frame: look the handle up, then queue the job or drop it.          *)
TextLookup ==
    /\ httpd.pc = "text" /\ ~locked
    /\ httpd' = [httpd EXCEPT !.pc = "enqueue", !.handle = HandleOfFd(httpd.fd)]
    /\ UNCHANGED <<slots, locked, conn, rxq, task, given, opened, issued>>

Enqueue ==
    /\ httpd.pc = "enqueue"
    /\ Len(rxq) < QueueSize
    /\ rxq' = Append(rxq, [handle |-> httpd.handle, fd |-> httpd.fd])
    /\ Return(FALSE)
    /\ UNCHANGED <<slots, locked, task, given, opened, issued>>

\* The queue stayed full for 10 ms.
DropJob ==
    /\ httpd.pc = "enqueue"
    /\ Len(rxq) = QueueSize
    /\ Return(FALSE)
    /\ UNCHANGED <<slots, locked, rxq, task, given, opened, issued>>

\* A frame cannot be received and ws_handler returns the error, or the HTTP
\* server drops the socket by itself (LRU purge, httpd_stop): no close_fn is
\* registered, so nothing of ws_server.c runs.
SocketError(f) ==
    /\ SocketErrors
    /\ f \in conn
    /\ httpd.pc = "idle" \/ (httpd.pc \in {"close", "text"} /\ httpd.fd = f)
    /\ httpd' = Idle
    /\ conn' = conn \ {f}
    /\ UNCHANGED <<slots, locked, rxq, task, given, opened, issued>>
-----------------------------------------------------------------------------
(* Senders and the receive task: ws_slot_get_by_handle, then use the slot. *)

SetTask(t, pc, h, i) == task' = [task EXCEPT ![t] = [pc |-> pc, handle |-> h, slot |-> i]]

StartSend(t, h) ==
    /\ task[t].pc = "idle"
    /\ SetTask(t, "lookup", h, 1)
    /\ UNCHANGED <<slots, locked, conn, httpd, rxq, given, opened, issued>>

RxTake ==
    /\ task[Rx].pc = "idle"
    /\ rxq # << >>
    /\ SetTask(Rx, "lookup", Head(rxq).handle, 1)
    /\ rxq' = Tail(rxq)
    /\ UNCHANGED <<slots, locked, conn, httpd, given, opened, issued>>

ws_slot_get_by_handle(t) ==
    /\ task[t].pc = "lookup"
    /\ IF task[t].handle = NoHandle
       THEN SetTask(t, "idle", NoHandle, 1)
       ELSE /\ ~locked
            /\ LET i == task[t].handle[1]
               IN  IF Names(task[t].handle, i)
                   THEN SetTask(t, "use", task[t].handle, i)
                   ELSE SetTask(t, "idle", NoHandle, 1)
    /\ UNCHANGED <<slots, locked, conn, httpd, rxq, given, opened, issued>>

\* Outside the lock: send on slot->hd, slot->fd, or act on the slot's tables.
UseSlot(t) ==
    /\ task[t].pc = "use"
    /\ SetTask(t, "idle", NoHandle, 1)
    /\ UNCHANGED <<slots, locked, conn, httpd, rxq, given, opened, issued>>
-----------------------------------------------------------------------------
\* Steps the HTTP server task takes by itself, once a request has arrived.
HttpdStep ==
    \/ ws_slot_alloc \/ ws_slot_free_by_sockfd
    \/ OnOpen(TRUE) \/ OnOpen(FALSE) \/ OnClose \/ ClosePayloadError
    \/ TextLookup \/ Enqueue \/ DropJob

TaskStep(t) == ws_slot_get_by_handle(t) \/ UseSlot(t)

Next ==
    \/ \E f \in Fds : \/ Handshake(f) \/ SocketError(f)
                      \/ \E kind \in {"close", "text"} : Frame(f, kind)
    \/ HttpdStep
    \/ \E t \in Senders, h \in given : StartSend(t, h)
    \/ RxTake
    \/ \E t \in Tasks : TaskStep(t)

Spec == Init /\ [][Next]_vars

\* The tasks are scheduled; clients and the application need not do anything.
FairSpec ==
    /\ Spec
    /\ WF_vars(HttpdStep)
    /\ WF_vars(RxTake)
    /\ \A t \in Tasks : WF_vars(TaskStep(t))
-----------------------------------------------------------------------------
TypeOK ==
    /\ slots \in [Slots -> [used : BOOLEAN, gen : 0 .. GenMod - 1, fd : Fds \cup {NoFd}]]
    /\ locked \in BOOLEAN
    /\ conn \subseteq Fds
    /\ httpd \in [pc : {"idle", "alloc", "opened", "free", "close", "text", "enqueue"},
                  fd : Fds \cup {NoFd}, handle : Handles \cup {NoHandle}]
    /\ rxq \in Seq([handle : Handles \cup {NoHandle}, fd : Fds])
    /\ task \in [Tasks -> [pc : {"idle", "lookup", "use"},
                           handle : Handles \cup {NoHandle}, slot : Slots]]
    /\ given \subseteq Handles
    /\ opened \subseteq given
    /\ issued \subseteq Handles \X Fds

\* No two slots are ever allocated to the same socket, in use or remembered:
\* the searches by fd in ws_slot_alloc, get_handle_for_sockfd and
\* ws_slot_free_by_sockfd find the only slot there is.
DistinctFds ==
    \A i, j \in Slots : slots[i].fd = slots[j].fd /\ slots[i].fd # NoFd => i = j

\* A handle that still passes the generation check of ws_slot_get_by_handle
\* leads to the socket it was issued for, however long it was kept.
HandleNamesItsSocket ==
    \A p \in issued : \A i \in Slots : Names(p[1], i) => slots[i].fd = p[2]

\* A message that waits in the queue carries a handle that was issued for the
\* socket it came from, so get_handle_for_sockfd never misses an open client.
QueuedJobsNamed ==
    \A k \in DOMAIN rxq : <<rxq[k].handle, rxq[k].fd>> \in issued

\* Between two requests, the clients the application believes connected (one
\* on_open_cb, no on_close_cb since) are the used slots, one for each socket.
AppSeesEveryClient ==
    httpd.pc = "idle" =>
        /\ opened = {make_handle(i) : i \in {j \in Slots : slots[j].used}}
        /\ conn = {slots[i].fd : i \in {j \in Slots : slots[j].used}}

\* Every request handed to ws_handler is finished and every task that looks a
\* handle up gets an answer: nobody returns with s_lock held.
EveryoneReturns ==
    /\ httpd.pc # "idle" ~> httpd.pc = "idle"
    /\ \A t \in Tasks : task[t].pc # "idle" ~> task[t].pc = "idle"

\* The pool implements the table of handles.
Pool == INSTANCE WsHandles WITH
    bound <- {<<make_handle(i), slots[i].fd>> : i \in {j \in Slots : slots[j].used}}
ImplementsHandleTable == Pool!Spec
-----------------------------------------------------------------------------
(* What comments of the code say and the code does not do.                 *)

\* "used to hand out the same handle if the same fd reconnects"
\* (ws_server.c:184): a reconnecting socket never makes the pool unusable.
LockGivenBack == ~locked

\* "Called when the WebSocket connection is closed." (ws_server.h:38)
ClosesAreReported ==
    httpd.pc = "idle" =>
        \A i \in Slots : make_handle(i) \in opened => slots[i].fd \in conn

\* "bump generation; avoid generation==0" (ws_server.c:129, 155)
UsedGenerationIsNotZero == \A i \in Slots : slots[i].used => slots[i].gen # 0

\* "don't clear generation - used to invalidate old handles" (ws_server.c:183):
\* what is done with a handle touches only the socket the handle was issued for.
HandleReachesItsSocket ==
    [][\A t \in Tasks : task[t].pc = "use" /\ task'[t].pc = "idle"
            => <<task[t].handle, slots[task[t].slot].fd>> \in issued]_vars
=============================================================================
