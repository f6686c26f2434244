------------------------------ MODULE WsStartup ------------------------------
(***************************************************************************)
(* How the WebSocket server of src/src/ws_server.c comes up.  Nobody has   *)
(* initialised the pool before: whichever task finds s_lock NULL runs      *)
(* ws_pool_init, one step at a time, and s_lock is set before the slots    *)
(* are wiped and the queue exists.  The application makes its three calls, *)
(* while the HTTP server runs already and serves clients from the moment   *)
(* their handler is registered.  The pool is reduced to the sockets that   *)
(* have a slot; WsSlots has the rest.  A critical section of s_lock is one *)
(* action, as two that overlap under two mutexes touch different data.     *)
(***************************************************************************)
EXTENDS Integers, Sequences

CONSTANTS
    Orders,      \* orders of the application's calls: "callbacks", "serve", "start"
    Fds,         \* sockets of clients, for which the pool has room
    NoFd,
    QueueSize    \* CONFIG_WS_RX_QUEUE_SIZE

ASSUME StartupAssumption ==
    /\ Orders \subseteq Seq({"callbacks", "serve", "start"})
    /\ NoFd \notin Fds
    /\ QueueSize \in Nat \ {0}

VARIABLES
    lock,       \* s_lock: the mutex created last, 0 is NULL
    queue,      \* ws_rx_q: the queue created last, 0 is NULL
    frames,     \* the frames in each queue there is, by the socket they are from
    slots,      \* sockets that have a slot
    callbacks,  \* g_on_open_cb and the others are set
    served,     \* the handler is registered with the HTTP server
    conn,       \* open sockets
    known,      \* sockets the application was told of
    todo,       \* calls the application has still to make
    pc,         \* where "app", "httpd" and "rx" are
    client,     \* the socket the HTTP server task is busy with
    rxq         \* the queue ws_rx waits on

vars == <<lock, queue, frames, slots, callbacks, served, conn, known, todo, pc, client, rxq>>
pool == <<lock, queue, frames, slots>>
http == <<served, conn, client>>

Goto(t, label) == pc' = [pc EXCEPT ![t] = label]

Init ==
    /\ lock = 0 /\ queue = 0 /\ frames = << >>
    /\ slots = {} /\ conn = {} /\ known = {}
    /\ callbacks = FALSE /\ served = FALSE
    /\ todo \in Orders
    /\ pc = [app |-> "next", httpd |-> "idle", rx |-> "none"]
    /\ client = NoFd
    /\ rxq = 0
-----------------------------------------------------------------------------
(* ws_pool_init, in the task of the call that came first.                  *)

\* Mutants, the definitions M_... in this module, are never part of Next: each
\* is the definition that follows it with a plausible bug.
M_TestLock(t) ==                                       \* the application's calls do not test
    /\ pc[t] = "enter"
    /\ Goto(t, IF lock = 0 \/ t = "app" THEN "create" ELSE "ready")
    /\ UNCHANGED <<pool, callbacks, http, known, todo, rxq>>
\* if (!s_lock) ws_pool_init();
TestLock(t) ==
    /\ pc[t] = "enter"
    /\ Goto(t, IF lock = 0 THEN "create" ELSE "ready")
    /\ UNCHANGED <<pool, callbacks, http, known, todo, rxq>>

\* A second task that is in here finds s_lock set and does the rest again.
TestAgain(t) ==
    /\ pc[t] = "create"
    /\ Goto(t, IF lock = 0 THEN "assign" ELSE "wipe")
    /\ UNCHANGED <<pool, callbacks, http, known, todo, rxq>>

CreateLock(t) ==
    /\ pc[t] = "assign"
    /\ lock' = lock + 1
    /\ Goto(t, "wipe")
    /\ UNCHANGED <<queue, frames, slots, callbacks, http, known, todo, rxq>>

WipeSlots(t) ==
    /\ pc[t] = "wipe"
    /\ slots' = {}
    /\ Goto(t, "queue")
    /\ UNCHANGED <<lock, queue, frames, callbacks, http, known, todo, rxq>>

CreateQueue(t) ==
    /\ pc[t] = "queue"
    /\ frames' = Append(frames, << >>)
    /\ queue' = Len(frames')
    /\ Goto(t, "ready")
    /\ UNCHANGED <<lock, slots, callbacks, http, known, todo, rxq>>

PoolInit(t) == TestLock(t) \/ TestAgain(t) \/ CreateLock(t) \/ WipeSlots(t) \/ CreateQueue(t)
-----------------------------------------------------------------------------
(* The application: three calls.                                           *)

Call(label) ==
    /\ pc.app = "next" /\ todo # << >>
    /\ Head(todo) = label

Returned == Goto("app", "next") /\ todo' = Tail(todo)

\* wifi_register_http_handler: the server that runs serves it from now on.  (One
\* that is not up yet serves it later, as if the call had come later.)
Serve ==
    /\ Call("serve")
    /\ served' = TRUE
    /\ Returned
    /\ UNCHANGED <<pool, callbacks, conn, client, known, rxq>>

M_EnterCall ==                                         \* ws_register_callbacks does not
    /\ Call("callbacks") \/ Call("start")              \* initialise the pool
    /\ Goto("app", IF Head(todo) = "start" THEN "enter" ELSE "ready")
    /\ UNCHANGED <<pool, callbacks, http, known, todo, rxq>>
\* ws_register_callbacks and ws_start_task begin with the test of s_lock.
EnterCall ==
    /\ Call("callbacks") \/ Call("start")
    /\ Goto("app", "enter")
    /\ UNCHANGED <<pool, callbacks, http, known, todo, rxq>>

SetCallbacks ==
    /\ pc.app = "ready" /\ Head(todo) = "callbacks"
    /\ callbacks' = TRUE
    /\ Returned
    /\ UNCHANGED <<pool, http, known, rxq>>

StartTask ==
    /\ pc.app = "ready" /\ Head(todo) = "start"
    /\ pc' = [pc EXCEPT !.app = "next", !.rx = "receive"]
    /\ todo' = Tail(todo)
    /\ UNCHANGED <<pool, callbacks, http, known, rxq>>
-----------------------------------------------------------------------------
(* The HTTP server task in ws_handler.  s_lock is there in each later call. *)

Handshake(f) ==
    /\ served /\ pc.httpd = "idle" /\ f \notin conn
    /\ conn' = conn \cup {f}
    /\ client' = f
    /\ Goto("httpd", "enter")
    /\ UNCHANGED <<pool, callbacks, served, known, todo, rxq>>

AllocSlot ==
    /\ pc.httpd = "ready"
    /\ slots' = slots \cup {client}
    /\ Goto("httpd", "open")
    /\ UNCHANGED <<lock, queue, frames, callbacks, http, known, todo, rxq>>

Done == Goto("httpd", "idle") /\ client' = NoFd

\* The handle is looked up once more; without its slot the socket is closed.
OnOpen ==
    /\ pc.httpd = "open"
    /\ IF client \in slots
       THEN known' = (IF callbacks THEN known \cup {client} ELSE known) /\ UNCHANGED conn
       ELSE conn' = conn \ {client} /\ UNCHANGED known
    /\ Done
    /\ UNCHANGED <<pool, callbacks, served, todo, rxq>>

\* A TEXT frame, dropped if the queue is full.  On a queue that is NULL FreeRTOS
\* stops the device by an assertion: there is no such step.
Enqueue(f) ==
    /\ pc.httpd = "idle" /\ f \in conn /\ queue # 0
    /\ frames' = IF Len(frames[queue]) < QueueSize
                 THEN [frames EXCEPT ![queue] = Append(@, f)] ELSE frames
    /\ UNCHANGED <<lock, queue, slots, callbacks, http, known, todo, pc, rxq>>

\* A CLOSE frame: on_close_cb, then the slot.
OnClose(f) ==
    /\ pc.httpd = "idle" /\ f \in conn
    /\ known' = IF callbacks THEN known \ {f} ELSE known
    /\ slots' = slots \ {f}
    /\ conn' = conn \ {f}
    /\ UNCHANGED <<lock, queue, frames, callbacks, served, client, todo, pc, rxq>>
-----------------------------------------------------------------------------
(* ws_rx_task.                                                             *)

RxWait ==
    /\ pc.rx = "receive" /\ queue # 0
    /\ rxq' = queue
    /\ Goto("rx", "wait")
    /\ UNCHANGED <<pool, callbacks, http, known, todo>>

RxTake ==
    /\ pc.rx = "wait" /\ frames[rxq] # << >>
    /\ frames' = [frames EXCEPT ![rxq] = Tail(@)]
    /\ Goto("rx", "receive")
    /\ UNCHANGED <<lock, queue, slots, callbacks, http, known, todo, rxq>>

App == Serve \/ EnterCall \/ SetCallbacks \/ StartTask \/ PoolInit("app")
Httpd == PoolInit("httpd") \/ AllocSlot \/ OnOpen
RxTask == RxWait \/ RxTake

Next == App \/ Httpd \/ RxTask \/ \E f \in Fds : Handshake(f) \/ Enqueue(f) \/ OnClose(f)

Spec == Init /\ [][Next]_vars
\* The tasks are scheduled; clients owe nothing.
FairSpec == Spec /\ WF_vars(App) /\ WF_vars(Httpd) /\ WF_vars(RxTask)
-----------------------------------------------------------------------------
\* Between two requests the open sockets are those with a slot and those the
\* application was told of: no later call initialises the pool again under
\* clients that are connected.
ClientsSurviveStartup == pc.httpd = "idle" => conn = slots /\ conn = known

\* Whoever is about to use ws_rx_q finds a queue in it, whichever task came
\* first: s_lock alone, which is set earlier, would not say so.
QueueBeforeUse == pc.rx = "receive" \/ (pc.httpd = "idle" /\ conn # {}) => queue # 0

\* A frame that was queued is taken: the task that was started waits on the
\* queue that frames are put into, also those that came before the task did.
FramesAreTaken ==
    \A q \in {1, 2} : q \in DOMAIN frames /\ frames[q] # << >> ~> pc.rx = "receive" /\ rxq = q
-----------------------------------------------------------------------------
(* What a comment says, and the order of calls in the example does not do. *)

\* "Called when a client opens a new WebSocket connection." (ws_server.h:18)
EveryOpenIsTold == pc.httpd = "idle" => conn \subseteq known

\* The pool has one mutex, on which all critical sections exclude each other.
OneMutex == lock <= 1
=============================================================================
