--------------------------- MODULE WsStartupProofs ---------------------------
(***************************************************************************)
(* What the order of the application's calls is worth.  WsStartup's        *)
(* properties are checked for two orders and two clients; here they are    *)
(* proved for every order that begins with ws_register_callbacks, as       *)
(* ws_server.h:118 asks, whatever calls follow it and however often, for   *)
(* every set of clients and every length of the queue.                     *)
(*                                                                         *)
(* The argument: until the callbacks are set the application is alone,     *)
(* since nothing serves clients, and initialises the pool from end to end  *)
(* (Alone); from then on the pool is complete, so that whoever tests       *)
(* s_lock finds it set and initialises nothing (Complete), and what is     *)
(* open, what has a slot and what the application knows of only differ by  *)
(* the client that the HTTP server task is busy with (Agree).              *)
(***************************************************************************)
EXTENDS WsStartup, SequenceTheorems, TLAPS

\* The order ws_server.h:118 asks for.
CallbacksComeFirst == \A order \in Orders : order # << >> => Head(order) = "callbacks"

Before == {"next", "enter", "create", "assign"}
Within == {"wipe", "queue"}

Labels == Before \cup Within \cup {"ready", "idle", "open", "none", "receive", "wait"}

Types ==
    /\ lock \in Nat /\ queue \in Nat
    /\ callbacks \in BOOLEAN
    /\ todo \in Seq({"callbacks", "serve", "start"})
    /\ pc \in [app: Labels, httpd: Labels, rx: Labels]
    /\ client \in Fds \cup {NoFd}
    /\ conn \subseteq Fds
    /\ pc.app # "next" => todo # << >>

Unused ==
    /\ served = FALSE
    /\ conn = {} /\ slots = {} /\ known = {}
    /\ pc.httpd = "idle" /\ pc.rx = "none"

\* Before the callbacks are set: only the application has run, and it is at the
\* first of its calls.
Alone ==
    /\ Unused
    /\ frames \in Seq(Seq(Fds))
    /\ todo # << >> => Head(todo) = "callbacks"
    /\ pc.app \in Before \cup Within \cup {"ready"}
    /\ pc.app \in Before => lock = 0
    /\ pc.app \in Within => lock = 1
    /\ pc.app = "ready" => lock = 1 /\ queue # 0

\* After: nobody is inside ws_pool_init.
Complete ==
    /\ lock = 1 /\ queue # 0
    /\ pc.app \in {"next", "enter", "ready"}
    /\ pc.httpd \in {"idle", "enter", "ready", "open"}

\* The client that the HTTP server task is busy with gets its slot, then is told of.
Agree ==
    /\ pc.httpd = "idle" => conn = slots /\ known = slots
    /\ pc.httpd \in {"enter", "ready"} =>
           client \notin slots /\ conn = slots \cup {client} /\ known = slots
    /\ pc.httpd = "open" =>
           client \in slots /\ conn = slots /\ known = slots \ {client}

Inv ==
    /\ Types
    /\ ~callbacks => Alone
    /\ callbacks => Complete /\ Agree
-----------------------------------------------------------------------------
\* A step of one of the three tasks leaves the other two where they are.
LEMMA Moves ==
    ASSUME pc \in [app: Labels, httpd: Labels, rx: Labels], NEW l \in Labels
    PROVE  /\ Goto("app", l) =>
                  /\ pc' \in [app: Labels, httpd: Labels, rx: Labels]
                  /\ pc'.app = l /\ pc'.httpd = pc.httpd /\ pc'.rx = pc.rx
           /\ Goto("httpd", l) =>
                  /\ pc' \in [app: Labels, httpd: Labels, rx: Labels]
                  /\ pc'.app = pc.app /\ pc'.httpd = l /\ pc'.rx = pc.rx
           /\ Goto("rx", l) =>
                  /\ pc' \in [app: Labels, httpd: Labels, rx: Labels]
                  /\ pc'.app = pc.app /\ pc'.httpd = pc.httpd /\ pc'.rx = l
  BY DEF Goto

\* The start: nothing has run.
LEMMA InvInit == ASSUME CallbacksComeFirst, Init PROVE Inv
<1>1. Types
  BY StartupAssumption DEF Init, Types, Labels, Before, Within
<1>2. Alone
  BY DEF CallbacksComeFirst, Init, Alone, Unused, Before, Within
<1> QED BY <1>1, <1>2 DEF Inv, Init
-----------------------------------------------------------------------------
\* ws_pool_init, by the application that is alone: all of it.
LEMMA AppInit == ASSUME Inv, PoolInit("app") PROVE Inv'
<1> USE DEF Inv, Types, Alone, Unused, Complete, Agree, pool, http
<1>l. /\ "create" \in Labels /\ "assign" \in Labels /\ "wipe" \in Labels
      /\ "queue" \in Labels /\ "ready" \in Labels
  BY DEF Labels, Before, Within
<1>1. CASE TestLock("app")
  <2>1. pc.app = "enter" /\ Goto("app", IF lock = 0 THEN "create" ELSE "ready")
    BY <1>1 DEF TestLock
  <2>2. CASE lock = 0
    BY <1>1, <1>l, <2>1, <2>2, Moves DEF TestLock, Before, Within
  <2>3. CASE lock # 0
    BY <1>1, <1>l, <2>1, <2>3, Moves DEF TestLock, Before, Within
  <2> QED BY <2>2, <2>3
<1>2. CASE TestAgain("app")
  <2>1. pc.app = "create" /\ ~callbacks /\ lock = 0
    BY <1>2 DEF TestAgain, Before
  <2>2. Goto("app", "assign")
    BY <1>2, <2>1 DEF TestAgain
  <2> QED BY <1>2, <1>l, <2>1, <2>2, Moves DEF TestAgain, Before, Within
<1>3. CASE CreateLock("app")
  BY <1>3, <1>l, Moves DEF CreateLock, Before, Within
<1>4. CASE WipeSlots("app")
  BY <1>4, <1>l, Moves DEF WipeSlots, Before, Within
<1>5. CASE CreateQueue("app")
  <2>1. frames \in Seq(Seq(Fds)) /\ ~callbacks
    BY <1>5 DEF CreateQueue
  <2>2. /\ frames' \in Seq(Seq(Fds))
        /\ Len(frames') = Len(frames) + 1
        /\ queue' = Len(frames')
    BY <1>5, <2>1, AppendProperties DEF CreateQueue
  <2>3. queue' \in Nat /\ queue' # 0
    BY <2>1, <2>2, LenProperties
  <2> QED BY <1>5, <1>l, <2>1, <2>2, <2>3, Moves DEF CreateQueue, Before, Within
<1> QED BY <1>1, <1>2, <1>3, <1>4, <1>5 DEF PoolInit

\* By the HTTP server task: it finds a pool that is complete.
LEMMA HttpdInit == ASSUME Inv, PoolInit("httpd") PROVE Inv'
<1> USE DEF Inv, Types, Alone, Unused, Complete, Agree, pool, http
<1>1. TestLock("httpd")
  BY DEF PoolInit, TestLock, TestAgain, CreateLock, WipeSlots, CreateQueue
<1>2. pc.httpd = "enter" /\ callbacks /\ lock = 1
  BY <1>1 DEF TestLock
<1>3. "ready" \in Labels /\ Goto("httpd", "ready")
  BY <1>1, <1>2 DEF TestLock, Labels
<1> QED BY <1>1, <1>2, <1>3, Moves DEF TestLock

\* Every step of the application's task, of the HTTP server task and of ws_rx.
LEMMA InvStep == ASSUME Inv, [Next]_vars PROVE Inv'
<1> USE DEF Inv, Types, Alone, Unused, Complete, Agree, pool, http
<1>l. /\ "next" \in Labels /\ "enter" \in Labels /\ "receive" \in Labels /\ "wait" \in Labels
      /\ "idle" \in Labels /\ "open" \in Labels
  BY DEF Labels, Before
<1>1. CASE Serve
  <2>1. callbacks /\ Tail(todo) \in Seq({"callbacks", "serve", "start"})
    BY <1>1 DEF Serve, Call
  <2> QED BY <1>1, <1>l, <2>1, Moves DEF Serve, Call, Returned
<1>2. CASE EnterCall
  BY <1>2, <1>l, Moves DEF EnterCall, Call, Before, Within
<1>3. CASE SetCallbacks
  <2>1. todo # << >> /\ Tail(todo) \in Seq({"callbacks", "serve", "start"})
    BY <1>3 DEF SetCallbacks
  <2> QED BY <1>3, <1>l, <2>1, Moves DEF SetCallbacks, Returned, Before, Within
<1>4. CASE StartTask
  <2>1. callbacks /\ todo # << >> /\ Tail(todo) \in Seq({"callbacks", "serve", "start"})
    BY <1>4 DEF StartTask
  <2>2. /\ pc' \in [app: Labels, httpd: Labels, rx: Labels]
        /\ pc'.app = "next" /\ pc'.httpd = pc.httpd
    BY <1>4, <1>l DEF StartTask
  <2> QED BY <1>4, <2>1, <2>2 DEF StartTask
<1>5. CASE AllocSlot
  BY <1>5, <1>l, Moves DEF AllocSlot
<1>6. CASE OnOpen
  BY <1>6, <1>l, Moves, ZenonT(60) DEF OnOpen, Done
<1>7. CASE RxWait
  BY <1>7, <1>l, Moves DEF RxWait
<1>8. CASE RxTake
  BY <1>8, <1>l, Moves DEF RxTake
<1>9. ASSUME NEW f \in Fds, Handshake(f) PROVE Inv'
  BY <1>9, <1>l, Moves DEF Handshake
<1>10. ASSUME NEW f \in Fds, Enqueue(f) PROVE Inv'
  BY <1>10 DEF Enqueue
<1>11. ASSUME NEW f \in Fds, OnClose(f) PROVE Inv'
  BY <1>11 DEF OnClose
<1>12. CASE UNCHANGED vars
  BY <1>12 DEF vars
<1> HIDE DEF Inv
<1> QED BY <1>1, <1>2, <1>3, <1>4, <1>5, <1>6, <1>7, <1>8, <1>9, <1>10, <1>11, <1>12,
           AppInit, HttpdInit
        DEF Next, App, Httpd, RxTask
-----------------------------------------------------------------------------
LEMMA StartupInvariant == ASSUME CallbacksComeFirst PROVE Spec => []Inv
<1>1. Init => Inv
  BY InvInit
<1>2. Inv /\ [Next]_vars => Inv'
  BY InvStep
<1> QED BY <1>1, <1>2, PTL DEF Spec

\* Between two requests the open sockets are those with a slot and those the
\* application was told of (ws_pool_init, the opening handshake and the CLOSE
\* frame in ws_handler): under this order nobody wipes the slots of clients.
THEOREM ClientsSurvive ==
    ASSUME CallbacksComeFirst PROVE Spec => []ClientsSurviveStartup
<1>1. Inv => ClientsSurviveStartup
  BY DEF Inv, Alone, Unused, Agree, ClientsSurviveStartup
<1> QED BY <1>1, StartupInvariant, PTL

\* Whoever uses ws_rx_q, the handler for a frame or ws_rx_task to wait for one,
\* finds the queue there, though s_lock is set before it exists.
THEOREM QueueIsThere ==
    ASSUME CallbacksComeFirst PROVE Spec => []QueueBeforeUse
<1>1. Inv => QueueBeforeUse
  BY DEF Inv, Alone, Unused, Complete, QueueBeforeUse
<1> QED BY <1>1, StartupInvariant, PTL

\* The two things that go wrong under the order of the example (main.c:360-364)
\* do not under this one: the pool has one mutex, and the application is told of
\* every client whose connection is open.
THEOREM OrderIsEnough ==
    ASSUME CallbacksComeFirst PROVE Spec => [](OneMutex /\ EveryOpenIsTold)
<1>1. Inv => OneMutex /\ EveryOpenIsTold
  BY DEF Inv, Alone, Unused, Before, Within, Complete, Agree, OneMutex, EveryOpenIsTold
<1> QED BY <1>1, StartupInvariant, PTL
=============================================================================
