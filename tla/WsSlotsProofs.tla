--------------------------- MODULE WsSlotsProofs ---------------------------
(***************************************************************************)
(* Proofs about WsSlots, for every number of slots, sockets, senders and   *)
(* queue places, with and without socket errors.                           *)
(***************************************************************************)
EXTENDS WsSlots, SequenceTheorems, TLAPS

\* A request being handled belongs to a real socket.
Busy == httpd.pc # "idle" => httpd.fd \in Fds

\* A handle still to be told to the application is a real one.
ToldHandle == httpd.pc = "opened" => httpd.handle \in Handles

Core == TypeOK /\ Busy /\ ToldHandle /\ DistinctFds
-----------------------------------------------------------------------------
\* With at most one slot for each socket, the search by descriptor returns the
\* slot that is in use for it: an issued kind of handle, or none.
LEMMA HandleOfFdFound ==
    ASSUME TypeOK, DistinctFds, NEW f \in Fds
    PROVE  /\ HandleOfFd(f) \in Handles \cup {NoHandle}
           /\ \A i \in UsedFor(f) : HandleOfFd(f) = make_handle(i)
<1>1. \A i, j \in UsedFor(f) : i = j
  BY PoolAssumption DEF DistinctFds, UsedFor
<1>2. \A i \in UsedFor(f) : IsFirst(i, UsedFor(f))
  BY <1>1 DEF IsFirst, Slots, UsedFor
<1>3. \A i \in Slots : make_handle(i) \in Handles
  BY DEF TypeOK, make_handle, Handles
<1>4. ASSUME NEW i \in UsedFor(f) PROVE HandleOfFd(f) = make_handle(i)
  <2>1. i \in Slots /\ \A j \in Slots : IsFirst(j, UsedFor(f)) => j = i
    BY <1>1, <1>4 DEF IsFirst, UsedFor
  <2>2. (CHOOSE j \in Slots : IsFirst(j, UsedFor(f))) = i
    BY <2>1, <1>2, <1>4
  <2> QED
    BY <2>2, <1>4 DEF HandleOfFd
<1>5. CASE UsedFor(f) # {}
  BY <1>3, <1>4, <1>5 DEF UsedFor
<1>6. CASE UsedFor(f) = {}
  BY <1>6 DEF HandleOfFd
<1> QED
  BY <1>5, <1>6

\* A generation stays within its width.
LEMMA NextGenType == ASSUME NEW g \in 0 .. GenMod - 1 PROVE NextGen(g) \in 0 .. GenMod - 1
  BY PoolAssumption DEF NextGen

\* Each of the three ways to allocate a slot keeps the descriptors distinct.
LEMMA OccupyCore ==
    ASSUME Core, NEW i \in Slots, NEW s, Occupy(i, s), httpd.pc = "alloc",
           s.used = TRUE, s.gen \in 0 .. GenMod - 1, s.fd = httpd.fd,
           s \in [used : BOOLEAN, gen : 0 .. GenMod - 1, fd : Fds \cup {NoFd}],
           \A j \in Slots : slots[j].fd = httpd.fd => j = i,
           UNCHANGED <<rxq, task, given, opened>>
    PROVE  Core'
<1> USE DEF Core
<1>1. httpd.fd \in Fds
  BY DEF Busy
<1>2. <<i, s.gen>> \in Handles
  BY DEF Handles
<1>3. TypeOK'
  <2>1. slots' \in [Slots -> [used : BOOLEAN, gen : 0 .. GenMod - 1, fd : Fds \cup {NoFd}]]
    BY DEF TypeOK, Occupy
  <2>2. issued' \subseteq Handles \X Fds
    <3>1. <<<<i, s.gen>>, s.fd>> \in Handles \X Fds
      BY <1>1, <1>2
    <3> QED
      BY <3>1 DEF TypeOK, Occupy
  <2>3. httpd' \in [pc : {"idle", "alloc", "opened", "free", "close", "text", "enqueue"},
                   fd : Fds \cup {NoFd}, handle : Handles \cup {NoHandle}]
    <3>1. httpd' = [pc |-> "opened", fd |-> httpd.fd, handle |-> <<i, s.gen>>]
      BY DEF Occupy, At
    <3> QED
      BY <1>1, <1>2, <3>1
  <2>4. UNCHANGED <<locked, conn, rxq, task, given, opened>>
    BY DEF Occupy
  <2> QED
    BY <2>1, <2>2, <2>3, <2>4 DEF TypeOK
<1>4. Busy' /\ ToldHandle'
  BY <1>1, <1>2 DEF Busy, ToldHandle, Occupy, At
<1>5. DistinctFds'
  BY <1>1 DEF DistinctFds, Occupy, TypeOK
<1> QED
  BY <1>3, <1>4, <1>5

LEMMA AllocCore == ASSUME Core, ws_slot_alloc PROVE Core'
<1> USE DEF Core
<1>1. httpd.pc = "alloc" /\ httpd.fd \in Fds /\ UNCHANGED <<rxq, task, given, opened>>
  BY DEF ws_slot_alloc, Busy
<1>2. CASE ReuseSlot
  <2>1. PICK i \in Slots : /\ IsFirst(i, SameFd) 
                           /\ Occupy(i, [slots[i] EXCEPT !.used = TRUE])
    BY <1>2 DEF ReuseSlot
  <2> DEFINE s == [slots[i] EXCEPT !.used = TRUE]
  <2>2. /\ s \in [used : BOOLEAN, gen : 0 .. GenMod - 1, fd : Fds \cup {NoFd}]
        /\ s.used = TRUE /\ s.gen = slots[i].gen /\ s.fd = slots[i].fd
    BY DEF TypeOK
  <2>3. slots[i].fd = httpd.fd
    BY <2>1 DEF IsFirst, SameFd
  <2>4. \A j \in Slots : slots[j].fd = httpd.fd => j = i
    BY <1>1, <2>3, PoolAssumption DEF DistinctFds
  <2>5. s.gen \in 0 .. GenMod - 1
    BY <2>2 DEF TypeOK
  <2> HIDE DEF s
  <2> QED
    BY <1>1, <2>1, <2>2, <2>3, <2>4, <2>5, OccupyCore DEF s
<1>3. CASE NewSlot
  <2>1. PICK i \in Slots :
            /\ SameFd = {}
            /\ Occupy(i, [used |-> TRUE, gen |-> NextGen(slots[i].gen), fd |-> httpd.fd])
    BY <1>3 DEF NewSlot
  <2> DEFINE s == [used |-> TRUE, gen |-> NextGen(slots[i].gen), fd |-> httpd.fd]
  <2>2. NextGen(slots[i].gen) \in 0 .. GenMod - 1
    BY NextGenType DEF TypeOK
  <2>3. /\ s \in [used : BOOLEAN, gen : 0 .. GenMod - 1, fd : Fds \cup {NoFd}]
        /\ s.used = TRUE /\ s.gen \in 0 .. GenMod - 1 /\ s.fd = httpd.fd
    BY <1>1, <2>2
  <2>4. \A j \in Slots : slots[j].fd = httpd.fd => j = i
    BY <2>1 DEF SameFd
  <2> HIDE DEF s
  <2> QED
    BY <1>1, <2>1, <2>3, <2>4, OccupyCore DEF s
<1>4. CASE RefuseBusyFd \/ RefusePoolFull
  <2>1. slots' = slots /\ issued' = issued /\ locked' \in BOOLEAN /\ Return(TRUE)
    BY <1>4 DEF RefuseBusyFd, RefusePoolFull, TypeOK
  <2>2. TypeOK'
    BY <1>1, <2>1 DEF TypeOK, Return, Idle, At
  <2> QED
    BY <2>1, <2>2 DEF Busy, ToldHandle, DistinctFds, Return, Idle, At
<1> QED
  BY <1>2, <1>3, <1>4 DEF ws_slot_alloc

LEMMA FreeCore == ASSUME Core, ws_slot_free_by_sockfd PROVE Core'
<1> USE DEF Core
<1>1. /\ Return(TRUE)
      /\ UNCHANGED <<locked, rxq, task, given, opened, issued>>
  BY DEF ws_slot_free_by_sockfd
<1>2. \A i \in Slots : /\ slots'[i] \in [used : BOOLEAN, gen : 0 .. GenMod - 1,
                                         fd : Fds \cup {NoFd}]
                       /\ slots'[i].fd = slots[i].fd
  BY ZenonT(60) DEF ws_slot_free_by_sockfd, TypeOK
<1>3. slots' \in [Slots -> [used : BOOLEAN, gen : 0 .. GenMod - 1, fd : Fds \cup {NoFd}]]
  BY <1>2 DEF ws_slot_free_by_sockfd
<1>4. TypeOK'
  BY <1>1, <1>3 DEF TypeOK, Return, Idle, At
<1>5. DistinctFds'
  BY <1>2 DEF DistinctFds
<1> QED
  BY <1>1, <1>4, <1>5 DEF Busy, ToldHandle, Return, Idle, At

\* The steps that change neither the slots nor the mutex.
LEMMA OtherCore ==
    ASSUME Core, Next, slots' = slots, ~ws_slot_alloc, ~ws_slot_free_by_sockfd
    PROVE  Core'
<1> USE DEF Core
<1>1. DistinctFds'
  BY DEF DistinctFds
<1>2. ASSUME NEW f \in Fds, Handshake(f) PROVE TypeOK' /\ Busy' /\ ToldHandle'
  BY <1>2 DEF Handshake, TypeOK, Busy, ToldHandle, At
<1>3. ASSUME NEW f \in Fds, SocketError(f) PROVE TypeOK' /\ Busy' /\ ToldHandle'
  BY <1>3 DEF SocketError, TypeOK, Busy, ToldHandle, At, Idle
<1>4. ASSUME NEW f \in Fds, NEW kind \in {"close", "text"}, Frame(f, kind)
      PROVE TypeOK' /\ Busy' /\ ToldHandle'
  BY <1>4 DEF Frame, TypeOK, Busy, ToldHandle, At
<1>5. ASSUME NEW a \in BOOLEAN, OnOpen(a) PROVE TypeOK' /\ Busy' /\ ToldHandle'
  <2>1. given' = given \cup {httpd.handle} /\ httpd.handle \in Handles
    BY <1>5 DEF OnOpen, ToldHandle
  <2>2. CASE a
    BY <1>5, <2>1, <2>2 DEF OnOpen, TypeOK, Busy, ToldHandle, Return, Idle, At
  <2>3. CASE ~a
    BY <1>5, <2>1, <2>3 DEF OnOpen, TypeOK, Busy, ToldHandle
  <2> QED
    BY <2>2, <2>3
<1>6. CASE OnClose \/ ClosePayloadError
  BY <1>1, <1>6 DEF OnClose, ClosePayloadError, TypeOK, Busy, ToldHandle
<1>7. CASE TextLookup
  <2>1. HandleOfFd(httpd.fd) \in Handles \cup {NoHandle}
    BY <1>7, HandleOfFdFound DEF TextLookup, Busy
  <2> QED
    BY <1>1, <1>7, <2>1 DEF TextLookup, TypeOK, Busy, ToldHandle
<1>8. CASE Enqueue
  <2>1. [handle |-> httpd.handle, fd |-> httpd.fd]
            \in [handle : Handles \cup {NoHandle}, fd : Fds]
    BY <1>8 DEF Enqueue, TypeOK, Busy
  <2>2. rxq' \in Seq([handle : Handles \cup {NoHandle}, fd : Fds])
    BY <1>8, <2>1 DEF Enqueue, TypeOK
  <2> QED
    BY <1>1, <1>8, <2>2 DEF Enqueue, TypeOK, Busy, ToldHandle, Return, Idle, At
<1>9. CASE DropJob
  BY <1>1, <1>9 DEF DropJob, TypeOK, Busy, ToldHandle, Return, Idle, At
<1> DEFINE Task == [pc : {"idle", "lookup", "use"}, handle : Handles \cup {NoHandle},
                    slot : Slots]
<1>10. 1 \in Slots
  BY PoolAssumption DEF Slots
<1>11. ASSUME NEW t \in Tasks, NEW pc \in {"idle", "lookup", "use"},
              NEW h \in Handles \cup {NoHandle}, NEW i \in Slots,
              SetTask(t, pc, h, i), rxq' \in Seq([handle : Handles \cup {NoHandle}, fd : Fds]),
              UNCHANGED <<locked, conn, httpd, given, opened, issued>>
       PROVE  TypeOK' /\ Busy' /\ ToldHandle'
  <2>1. task' \in [Tasks -> Task]
    BY <1>11 DEF SetTask, TypeOK
  <2> QED
    BY <1>11, <2>1 DEF TypeOK, Busy, ToldHandle
<1>12. ASSUME NEW t \in Senders, NEW h \in given, StartSend(t, h)
       PROVE TypeOK' /\ Busy' /\ ToldHandle'
  BY <1>10, <1>11, <1>12 DEF StartSend, Tasks, TypeOK
<1>13. CASE RxTake
  <2> DEFINE Job == [handle : Handles \cup {NoHandle}, fd : Fds]
  <2>1. rxq \in Seq(Job) /\ rxq # << >> /\ rxq' = Tail(rxq)
    BY <1>13 DEF RxTake, TypeOK
  <2>2. Head(rxq) \in Job /\ rxq' \in Seq(Job)
    BY <2>1, HeadTailProperties
  <2>3. Head(rxq).handle \in Handles \cup {NoHandle}
    BY <2>2
  <2> QED
    BY <1>1, <1>10, <1>11, <1>13, <2>2, <2>3 DEF RxTake, Tasks
<1>14. ASSUME NEW t \in Tasks, ws_slot_get_by_handle(t)
       PROVE TypeOK' /\ Busy' /\ ToldHandle'
  <2>1. task[t].handle \in Handles \cup {NoHandle}
    BY DEF TypeOK
  <2>2. task[t].handle # NoHandle => task[t].handle[1] \in Slots
    BY <2>1 DEF Handles
  <2>3. rxq' \in Seq([handle : Handles \cup {NoHandle}, fd : Fds])
    BY <1>14 DEF ws_slot_get_by_handle, TypeOK
  <2>4. UNCHANGED <<locked, conn, httpd, given, opened, issued>>
    BY <1>14 DEF ws_slot_get_by_handle
  <2>5. \/ SetTask(t, "idle", NoHandle, 1)
        \/ /\ task[t].handle # NoHandle
           /\ SetTask(t, "use", task[t].handle, task[t].handle[1])
    BY <1>14 DEF ws_slot_get_by_handle
  <2> QED
    BY <1>10, <1>11, <2>1, <2>2, <2>3, <2>4, <2>5
<1>15. ASSUME NEW t \in Tasks, UseSlot(t) PROVE TypeOK' /\ Busy' /\ ToldHandle'
  BY <1>10, <1>11, <1>15 DEF UseSlot, TypeOK
<1> QED
  BY <1>1, <1>2, <1>3, <1>4, <1>5, <1>6, <1>7, <1>8, <1>9, <1>12, <1>13, <1>14, <1>15
     DEF Next, HttpdStep, TaskStep

\* Only the pool's two operations write the slots.
LEMMA SlotsChange ==
    ASSUME Next, ~ws_slot_alloc, ~ws_slot_free_by_sockfd
    PROVE  slots' = slots /\ issued' = issued
  BY DEF Next, HttpdStep, TaskStep, Handshake, SocketError, Frame, OnOpen, OnClose,
     ClosePayloadError, TextLookup, Enqueue, DropJob, StartSend, RxTake,
     ws_slot_get_by_handle, UseSlot

LEMMA CoreStep == ASSUME Core, [Next]_vars PROVE Core'
<1>1. CASE UNCHANGED vars
  BY <1>1 DEF vars, Core, TypeOK, Busy, ToldHandle, DistinctFds
<1>2. CASE Next /\ ~ws_slot_alloc /\ ~ws_slot_free_by_sockfd
  <2>1. slots' = slots
    BY <1>2, SlotsChange
  <2> QED
    BY <1>2, <2>1, OtherCore
<1> QED
  BY <1>1, <1>2, AllocCore, FreeCore

LEMMA CoreInit == ASSUME Init PROVE Core
<1>1. \A t \in Tasks : task[t] \in [pc : {"idle", "lookup", "use"},
                                    handle : Handles \cup {NoHandle}, slot : Slots]
  BY PoolAssumption DEF Init, Slots
<1>2. TypeOK
  <2>1. slots \in [Slots -> [used : BOOLEAN, gen : 0 .. GenMod - 1, fd : Fds \cup {NoFd}]]
    BY PoolAssumption DEF Init
  <2>2. httpd \in [pc : {"idle", "alloc", "opened", "free", "close", "text", "enqueue"},
                  fd : Fds \cup {NoFd}, handle : Handles \cup {NoHandle}]
    BY DEF Init, Idle, At
  <2>3. rxq \in Seq([handle : Handles \cup {NoHandle}, fd : Fds])
    BY DEF Init
  <2> QED
    BY <1>1, <2>1, <2>2, <2>3 DEF Init, TypeOK
<1> QED
  BY <1>2 DEF Init, Core, Busy, ToldHandle, DistinctFds, Idle, At

LEMMA CoreInvariant == Spec => []Core
<1> QED
  BY CoreInit, CoreStep, PTL DEF Spec

\* Every variable keeps its type, whatever the tasks and sockets do.
THEOREM TypeCorrect == Spec => []TypeOK
  BY CoreInvariant, PTL DEF Core

\* No socket ever has two slots: what the three searches by descriptor rely on.
THEOREM SlotsAreDistinct == Spec => []DistinctFds
  BY CoreInvariant, PTL DEF Core
-----------------------------------------------------------------------------
(* Queued jobs: the chain from an open socket to its slot to its handle.   *)

OpenHasSlot == \A f \in conn : UsedFor(f) # {} \/ (httpd.pc = "alloc" /\ httpd.fd = f)
UsedIsIssued == \A i \in Slots : slots[i].used => <<make_handle(i), slots[i].fd>> \in issued
HandlingOpen == httpd.pc # "idle" => httpd.fd \in conn
EnqueueNamed == httpd.pc = "enqueue" => <<httpd.handle, httpd.fd>> \in issued

Jobs == OpenHasSlot /\ UsedIsIssued /\ HandlingOpen /\ EnqueueNamed /\ QueuedJobsNamed

LEMMA JobsAlloc == ASSUME Core, Jobs, ws_slot_alloc PROVE Jobs'
<1> USE DEF Core, Jobs
<1>1. httpd.pc = "alloc" /\ rxq' = rxq
  BY DEF ws_slot_alloc
<1>2. ASSUME NEW i \in Slots, NEW s, Occupy(i, s), s.used, s.fd = httpd.fd, ~slots[i].used
      PROVE  Jobs'
  <2>1. /\ slots' = [slots EXCEPT ![i] = s] /\ conn' = conn
        /\ issued' = issued \cup {<<<<i, s.gen>>, httpd.fd>>}
        /\ httpd'.pc = "opened" /\ httpd'.fd = httpd.fd
    BY <1>2 DEF Occupy, At
  <2>2. OpenHasSlot'
    BY <1>2, <2>1 DEF OpenHasSlot, UsedFor, TypeOK
  <2>3. UsedIsIssued'
    BY <1>2, <2>1 DEF UsedIsIssued, make_handle, TypeOK
  <2> QED
    BY <1>1, <2>1, <2>2, <2>3 DEF HandlingOpen, EnqueueNamed, QueuedJobsNamed
<1>3. CASE ReuseSlot
  <2>1. PICK i \in Slots : /\ slots[i].fd = httpd.fd /\ ~slots[i].used
                           /\ Occupy(i, [slots[i] EXCEPT !.used = TRUE])
    BY <1>3 DEF ReuseSlot, IsFirst, SameFd
  <2> DEFINE s == [slots[i] EXCEPT !.used = TRUE]
  <2>2. s.used /\ s.fd = httpd.fd
    BY <2>1 DEF TypeOK
  <2> HIDE DEF s
  <2> QED
    BY <1>2, <2>1, <2>2 DEF s
<1>4. CASE NewSlot
  <2>1. PICK i \in Slots :
            /\ ~slots[i].used
            /\ Occupy(i, [used |-> TRUE, gen |-> NextGen(slots[i].gen), fd |-> httpd.fd])
    BY <1>4 DEF NewSlot, IsFirst, Unused, Untouched
  <2> DEFINE s == [used |-> TRUE, gen |-> NextGen(slots[i].gen), fd |-> httpd.fd]
  <2>2. s.used /\ s.fd = httpd.fd
    OBVIOUS
  <2> HIDE DEF s
  <2> QED
    BY <1>2, <2>1, <2>2 DEF s
<1>5. CASE RefuseBusyFd \/ RefusePoolFull
  <2>1. /\ slots' = slots /\ issued' = issued /\ conn' = conn \ {httpd.fd}
        /\ httpd'.pc = "idle"
    BY <1>5 DEF RefuseBusyFd, RefusePoolFull, Return, Idle, At
  <2> QED
    BY <1>1, <2>1 DEF OpenHasSlot, UsedFor, UsedIsIssued, make_handle, HandlingOpen,
       EnqueueNamed, QueuedJobsNamed
<1> QED
  BY <1>3, <1>4, <1>5 DEF ws_slot_alloc

LEMMA JobsFree == ASSUME Core, Jobs, ws_slot_free_by_sockfd PROVE Jobs'
<1> USE DEF Core, Jobs
<1>1. /\ conn' = conn \ {httpd.fd} /\ httpd'.pc = "idle" /\ issued' = issued /\ rxq' = rxq
  BY DEF ws_slot_free_by_sockfd, Return, Idle, At
<1>2. \A i \in Slots : /\ slots'[i].fd = slots[i].fd /\ slots'[i].gen = slots[i].gen
                       /\ slots'[i].used => slots[i].used
                       /\ slots[i].fd # httpd.fd => slots'[i] = slots[i]
  BY DEF ws_slot_free_by_sockfd, IsFirst, UsedFor, TypeOK
<1>3. OpenHasSlot'
  <2> SUFFICES ASSUME NEW f \in conn, f # httpd.fd PROVE UsedFor(f)' # {}
    BY <1>1 DEF OpenHasSlot
  <2>1. PICK i \in Slots : slots[i].used /\ slots[i].fd = f
    BY DEF OpenHasSlot, UsedFor
  <2> QED
    BY <1>2, <2>1 DEF UsedFor
<1>4. UsedIsIssued'
  BY <1>1, <1>2 DEF UsedIsIssued, make_handle
<1> QED
  BY <1>1, <1>3, <1>4 DEF HandlingOpen, EnqueueNamed, QueuedJobsNamed

LEMMA JobsOther ==
    ASSUME Core, Jobs, Next, slots' = slots, ~ws_slot_alloc, ~ws_slot_free_by_sockfd
    PROVE  Jobs'
<1> USE DEF Core, Jobs
<1>1. issued' = issued
  BY DEF Next, HttpdStep, TaskStep, Handshake, SocketError, Frame, OnOpen, OnClose,
     ClosePayloadError, TextLookup, Enqueue, DropJob, StartSend, RxTake,
     ws_slot_get_by_handle, UseSlot
<1>2. UsedIsIssued' /\ \A f : UsedFor(f)' = UsedFor(f)
  BY <1>1 DEF UsedIsIssued, UsedFor, make_handle
<1>3. CASE \E f \in Fds : Handshake(f)
  BY <1>1, <1>2, <1>3 DEF Handshake, OpenHasSlot, HandlingOpen, EnqueueNamed,
     QueuedJobsNamed, At
<1>4. CASE \E f \in Fds : SocketError(f)
  BY <1>1, <1>2, <1>4 DEF SocketError, OpenHasSlot, HandlingOpen, EnqueueNamed,
     QueuedJobsNamed, Idle, At
<1>5. CASE \E f \in Fds, kind \in {"close", "text"} : Frame(f, kind)
  BY <1>1, <1>2, <1>5 DEF Frame, OpenHasSlot, HandlingOpen, EnqueueNamed,
     QueuedJobsNamed, Idle, At
<1>6. ASSUME NEW a \in BOOLEAN, OnOpen(a) PROVE Jobs'
  <2>1. /\ httpd.pc = "opened" /\ rxq' = rxq /\ conn' \subseteq conn
        /\ httpd'.pc = "idle" \/ (httpd'.pc = "free" /\ httpd'.fd = httpd.fd /\ conn' = conn)
    <3>1. CASE a
      BY <1>6, <3>1 DEF OnOpen, Return, Idle, At
    <3>2. CASE ~a
      BY <1>6, <3>2 DEF OnOpen, TypeOK
    <3> QED
      BY <3>1, <3>2
  <2> QED
    BY <1>1, <1>2, <2>1 DEF OpenHasSlot, HandlingOpen, EnqueueNamed, QueuedJobsNamed
<1>7. CASE OnClose \/ ClosePayloadError
  <2>1. /\ httpd.pc = "close" /\ rxq' = rxq /\ conn' = conn
        /\ httpd'.pc = "free" /\ httpd'.fd = httpd.fd
    BY <1>7 DEF OnClose, ClosePayloadError, TypeOK
  <2> QED
    BY <1>1, <1>2, <2>1 DEF OpenHasSlot, HandlingOpen, EnqueueNamed, QueuedJobsNamed
<1>8. CASE TextLookup
  <2>1. /\ httpd.pc = "text" /\ rxq' = rxq /\ conn' = conn /\ httpd'.pc = "enqueue"
        /\ httpd'.fd = httpd.fd /\ httpd'.handle = HandleOfFd(httpd.fd)
    BY <1>8 DEF TextLookup, TypeOK
  <2>2. PICK i \in UsedFor(httpd.fd) : TRUE
    BY <2>1 DEF OpenHasSlot, HandlingOpen
  <2>3. HandleOfFd(httpd.fd) = make_handle(i) /\ i \in Slots /\ slots[i].used
        /\ slots[i].fd = httpd.fd
    BY <2>1, <2>2, HandleOfFdFound DEF Busy, UsedFor
  <2> QED
    BY <1>1, <1>2, <2>1, <2>3 DEF OpenHasSlot, HandlingOpen, EnqueueNamed, QueuedJobsNamed,
       UsedIsIssued
<1>9. CASE Enqueue
  <2>1. /\ httpd.pc = "enqueue" /\ conn' = conn /\ httpd'.pc = "idle"
        /\ rxq' = Append(rxq, [handle |-> httpd.handle, fd |-> httpd.fd])
    BY <1>9 DEF Enqueue, Return, Idle, At
  <2>2. QueuedJobsNamed'
    <3> DEFINE job == [handle |-> httpd.handle, fd |-> httpd.fd]
    <3>1. <<job.handle, job.fd>> \in issued
      BY <2>1 DEF EnqueueNamed
    <3>2. \A k \in DOMAIN rxq' : rxq'[k] = job \/ (k \in DOMAIN rxq /\ rxq'[k] = rxq[k])
      <4> HIDE DEF job
      <4>1. rxq' = Append(rxq, job)
        BY <2>1 DEF job
      <4> QED
        BY <4>1 DEF TypeOK
    <3> QED
      BY <1>1, <3>1, <3>2 DEF QueuedJobsNamed
  <2> QED
    BY <1>1, <1>2, <2>1, <2>2 DEF OpenHasSlot, HandlingOpen, EnqueueNamed
<1>10. CASE DropJob
  BY <1>1, <1>2, <1>10 DEF DropJob, OpenHasSlot, HandlingOpen, EnqueueNamed,
     QueuedJobsNamed, Return, Idle, At
<1>11. CASE RxTake
  <2>1. \A k \in DOMAIN rxq' : k + 1 \in DOMAIN rxq /\ rxq'[k] = rxq[k + 1]
    <3> DEFINE Job == [handle : Handles \cup {NoHandle}, fd : Fds]
    <3>1. rxq \in Seq(Job) /\ rxq # << >> /\ rxq' = Tail(rxq)
      BY <1>11 DEF RxTake, TypeOK
    <3> HIDE DEF Job
    <3> QED
      BY <3>1
  <2> QED
    BY <1>1, <1>2, <1>11, <2>1 DEF RxTake, OpenHasSlot, HandlingOpen, EnqueueNamed,
       QueuedJobsNamed
<1>12. CASE \/ \E t \in Senders, h \in given : StartSend(t, h)
            \/ \E t \in Tasks : TaskStep(t)
  <2>1. UNCHANGED <<conn, httpd, rxq>>
    BY <1>12 DEF StartSend, TaskStep, ws_slot_get_by_handle, UseSlot
  <2> QED
    BY <1>1, <1>2, <2>1 DEF OpenHasSlot, HandlingOpen, EnqueueNamed, QueuedJobsNamed
<1> QED
  BY <1>3, <1>4, <1>5, <1>6, <1>7, <1>8, <1>9, <1>10, <1>11, <1>12 DEF Next, HttpdStep

LEMMA JobsStep == ASSUME Core, Jobs, [Next]_vars PROVE Jobs'
<1>1. CASE UNCHANGED vars
  BY <1>1 DEF vars, Jobs, OpenHasSlot, UsedFor, UsedIsIssued, make_handle, HandlingOpen,
     EnqueueNamed, QueuedJobsNamed
<1> QED
  BY <1>1, SlotsChange, JobsAlloc, JobsFree, JobsOther

\* A client that is heard is a client the server can answer: every job in the
\* receive queue carries a handle issued for the socket it came from.
THEOREM JobsAreNamed == Spec => []QueuedJobsNamed
<1>1. Init => Jobs
  BY DEF Init, Jobs, OpenHasSlot, UsedIsIssued, HandlingOpen, EnqueueNamed,
     QueuedJobsNamed, Idle, At
<1> QED
  BY <1>1, CoreInvariant, JobsStep, PTL DEF Spec, Jobs
-----------------------------------------------------------------------------
(* Handles, while no generation wraps.                                     *)

\* A handle issued for a slot is not newer than the slot, and names the slot's
\* socket if it is of the slot's own generation.
Named == \A i \in Slots, g \in 0 .. GenMod - 1, f \in Fds :
            <<<<i, g>>, f>> \in issued =>
                /\ g <= slots[i].gen
                /\ g = slots[i].gen => slots[i].fd = f

\* The bound on generations, as Handshake establishes it and ws_slot_alloc uses it.
Room == /\ \A i \in Slots : slots[i].gen <= MaxGen
        /\ httpd.pc = "alloc" => \/ \E i \in Slots : slots[i].fd = httpd.fd
                                 \/ \A i \in Slots : slots[i].gen < MaxGen

Naming == Named /\ Room

LEMMA NamingImplies == ASSUME TypeOK, Naming PROVE HandleNamesItsSocket
  BY DEF TypeOK, Naming, Named, HandleNamesItsSocket, Names, make_handle, Handles

\* The bindings of the pool, and what an allocation or a release does to them.
Bound == {<<make_handle(i), slots[i].fd>> : i \in {j \in Slots : slots[j].used}}

LEMMA OccupyBinds ==
    ASSUME Core, Naming, NEW i \in Slots, NEW s, Occupy(i, s), httpd.pc = "alloc",
           s.used, s.fd = httpd.fd, s.gen \in 0 .. MaxGen, ~slots[i].used,
           \/ s.gen = slots[i].gen /\ s.fd = slots[i].fd
           \/ s.gen = slots[i].gen + 1 /\ SameFd = {}
    PROVE  Naming' /\ Pool!Bind(<<i, s.gen>>, s.fd)
<1> USE DEF Core
<1>1. /\ slots' = [slots EXCEPT ![i] = s] /\ httpd'.pc = "opened"
      /\ issued' = issued \cup {<<<<i, s.gen>>, s.fd>>}
      /\ httpd.fd \in Fds
  BY DEF Occupy, At, Busy
<1>2. \A j \in Slots : slots'[j] = IF j = i THEN s ELSE slots[j]
  BY <1>1 DEF TypeOK
<1>4. \A j \in Slots : slots[j].gen \in Nat
  BY PoolAssumption DEF TypeOK
<1>5. Named'
  <2> SUFFICES ASSUME NEW j \in Slots, NEW g \in 0 .. GenMod - 1, NEW f \in Fds,
                      <<<<j, g>>, f>> \in issued'
               PROVE  g <= slots'[j].gen /\ (g = slots'[j].gen => slots'[j].fd = f)
    BY DEF Named
  <2>1. CASE <<<<j, g>>, f>> \in issued
    BY <1>2, <1>4, <2>1 DEF Naming, Named
  <2>2. CASE j = i /\ g = s.gen /\ f = s.fd
    BY <1>2, <2>2
  <2> QED
    BY <1>1, <2>1, <2>2
<1>6. Room'
  BY <1>1, <1>2, <1>4 DEF Naming, Room
<1>7. \A p \in Bound : p[1] # <<i, s.gen>> /\ p[2] # s.fd
  <2> SUFFICES ASSUME NEW j \in Slots, slots[j].used
               PROVE  make_handle(j) # <<i, s.gen>> /\ slots[j].fd # s.fd
    BY DEF Bound
  <2>1. j # i
    OBVIOUS
  <2>2. slots[j].fd # s.fd
    BY <1>1, <2>1, PoolAssumption DEF DistinctFds, SameFd
  <2> QED
    BY <2>1, <2>2 DEF make_handle
<1>8. \A p \in issued : p[1] = <<i, s.gen>> => p[2] = s.fd
  <2> SUFFICES ASSUME NEW p \in issued, p[1] = <<i, s.gen>> PROVE p[2] = s.fd
    OBVIOUS
  <2>1. PICK g \in 0 .. GenMod - 1, f \in Fds : p = <<<<i, g>>, f>>
    BY DEF TypeOK, Handles
  <2>2. g = s.gen
    BY <2>1
  <2>3. g <= slots[i].gen /\ (g = slots[i].gen => slots[i].fd = f)
    BY <2>1 DEF Naming, Named
  <2> QED
    BY <1>4, <2>1, <2>2, <2>3
<1>9. Bound' = Bound \cup {<<<<i, s.gen>>, s.fd>>}
  BY <1>2 DEF Bound, make_handle
<1> QED
  BY <1>1, <1>5, <1>6, <1>7, <1>8, <1>9 DEF Pool!Bind, Naming, Bound

LEMMA AllocBinds ==
    ASSUME MaxGen < GenMod, Core, Naming, ws_slot_alloc
    PROVE  /\ Naming'
           /\ \/ \E h \in Handles, f \in Fds : Pool!Bind(h, f)
              \/ UNCHANGED <<slots, issued>>
<1> USE DEF Core
<1>1. httpd.pc = "alloc" /\ httpd.fd \in Fds
  BY DEF ws_slot_alloc, Busy
<1>2. \A j \in Slots : slots[j].gen \in 0 .. MaxGen
  BY PoolAssumption DEF TypeOK, Naming, Room
<1>3. \A i \in Slots, g \in 0 .. MaxGen : <<i, g>> \in Handles
  BY PoolAssumption DEF Handles
<1>4. CASE ReuseSlot
  <2>1. PICK i \in Slots : /\ slots[i].fd = httpd.fd /\ ~slots[i].used
                           /\ Occupy(i, [slots[i] EXCEPT !.used = TRUE])
    BY <1>4 DEF ReuseSlot, IsFirst, SameFd
  <2>0. PICK s : s = [slots[i] EXCEPT !.used = TRUE]
    OBVIOUS
  <2>2. s.used /\ s.fd = httpd.fd /\ s.fd = slots[i].fd /\ s.gen = slots[i].gen
    BY <2>0, <2>1 DEF TypeOK
  <2>3. Occupy(i, s)
    BY <2>0, <2>1
  <2>4. s.gen \in 0 .. MaxGen
    BY <1>2, <2>2
  <2>5. Naming' /\ Pool!Bind(<<i, s.gen>>, s.fd)
    BY <1>1, <2>1, <2>2, <2>3, <2>4, OccupyBinds
  <2>6. <<i, s.gen>> \in Handles /\ s.fd \in Fds
    BY <1>1, <1>3, <2>2, <2>4
  <2> QED
    BY <2>5, <2>6
<1>5. CASE NewSlot
  <2>1. PICK i \in Slots :
            /\ ~slots[i].used /\ SameFd = {}
            /\ Occupy(i, [used |-> TRUE, gen |-> NextGen(slots[i].gen), fd |-> httpd.fd])
    BY <1>5 DEF NewSlot, IsFirst, Unused, Untouched
  <2>0. PICK s : s = [used |-> TRUE, gen |-> NextGen(slots[i].gen), fd |-> httpd.fd]
    OBVIOUS
  <2>2. slots[i].gen < MaxGen
    BY <1>1, <2>1 DEF Naming, Room, SameFd
  <2>3. NextGen(slots[i].gen) = slots[i].gen + 1
    BY <1>2, <2>2, PoolAssumption DEF NextGen
  <2>4. s.used /\ s.fd = httpd.fd /\ s.gen = slots[i].gen + 1 /\ s.gen \in 0 .. MaxGen
    BY <1>2, <2>0, <2>2, <2>3, PoolAssumption
  <2>5. Occupy(i, s)
    BY <2>0, <2>1
  <2>6. Naming' /\ Pool!Bind(<<i, s.gen>>, s.fd)
    BY <1>1, <2>1, <2>4, <2>5, OccupyBinds
  <2>7. <<i, s.gen>> \in Handles /\ s.fd \in Fds
    BY <1>1, <1>3, <2>4
  <2> QED
    BY <2>6, <2>7
<1>6. CASE RefuseBusyFd \/ RefusePoolFull
  BY <1>6 DEF RefuseBusyFd, RefusePoolFull, Return, Idle, At, Naming, Named, Room
<1> QED
  BY <1>4, <1>5, <1>6 DEF ws_slot_alloc

LEMMA FreeReleases ==
    ASSUME Core, Naming, ws_slot_free_by_sockfd
    PROVE  /\ Naming'
           /\ \/ \E h \in Handles, f \in Fds : Pool!Release(h, f)
              \/ UNCHANGED <<slots, issued>>
<1> USE DEF Core
<1>1. issued' = issued /\ httpd'.pc = "idle" /\ httpd.fd \in Fds
  BY DEF ws_slot_free_by_sockfd, Return, Idle, At, Busy
<1>2. \A j \in Slots :
          slots'[j] = IF IsFirst(j, UsedFor(httpd.fd)) THEN [slots[j] EXCEPT !.used = FALSE]
                                                      ELSE slots[j]
  BY DEF ws_slot_free_by_sockfd
<1>3. \A j \in Slots : slots'[j].fd = slots[j].fd /\ slots'[j].gen = slots[j].gen
  BY <1>2 DEF TypeOK
<1>4. Naming'
  BY <1>1, <1>3 DEF Naming, Named, Room
<1>5. CASE UsedFor(httpd.fd) = {}
  <2>1. slots' = slots
    BY <1>5 DEF ws_slot_free_by_sockfd, IsFirst, TypeOK
  <2> QED
    BY <1>1, <1>4, <2>1
<1>6. CASE UsedFor(httpd.fd) # {}
  <2>1. PICK i \in UsedFor(httpd.fd) : TRUE
    BY <1>6
  <2>2. /\ i \in Slots /\ slots[i].used /\ slots[i].fd = httpd.fd
        /\ \A j \in UsedFor(httpd.fd) : j = i
    BY <1>1, <2>1, PoolAssumption DEF UsedFor, DistinctFds
  <2>3. \A j \in Slots : IsFirst(j, UsedFor(httpd.fd)) <=> j = i
    BY <2>1, <2>2 DEF IsFirst, Slots
  <2>4. \A j \in Slots : slots'[j].used <=> slots[j].used /\ j # i
    BY <1>2, <2>3 DEF TypeOK
  <2>5. Bound' = Bound \ {<<make_handle(i), httpd.fd>>}
    BY <1>3, <2>2, <2>4 DEF Bound, make_handle
  <2>6. <<make_handle(i), httpd.fd>> \in Bound
    BY <2>2 DEF Bound
  <2>7. make_handle(i) \in Handles
    BY <2>2 DEF make_handle, Handles, TypeOK
  <2>8. PICK h \in Handles, f \in Fds : h = make_handle(i) /\ f = httpd.fd
    BY <1>1, <2>7
  <2>9. Pool!Release(h, f)
    BY <1>1, <2>5, <2>6, <2>8 DEF Pool!Release, Bound
  <2> QED
    BY <1>4, <2>9
<1> QED
  BY <1>5, <1>6

LEMMA NamingOther ==
    ASSUME Core, Naming, Next, slots' = slots, issued' = issued,
           ~ws_slot_alloc, ~ws_slot_free_by_sockfd
    PROVE  Naming'
<1>1. CASE \E f \in Fds : Handshake(f)
  BY <1>1 DEF Handshake, At, Naming, Named, Room
<1>2. CASE ~ \E f \in Fds : Handshake(f)
  <2>1. ASSUME OnOpen(TRUE) \/ OnOpen(FALSE) PROVE httpd'.pc # "alloc"
    BY <2>1 DEF OnOpen, Return, Idle, At, Core, TypeOK
  <2>2. ASSUME OnClose \/ ClosePayloadError \/ TextLookup PROVE httpd'.pc # "alloc"
    BY <2>2 DEF OnClose, ClosePayloadError, TextLookup, Core, TypeOK
  <2>3. ASSUME Enqueue \/ DropJob \/ \E f \in Fds : SocketError(f)
        PROVE  httpd'.pc # "alloc"
    BY <2>3 DEF Enqueue, DropJob, SocketError, Return, Idle, At
  <2>4. ASSUME NEW f \in Fds, NEW kind \in {"close", "text"}, Frame(f, kind)
        PROVE  httpd'.pc # "alloc"
    BY <2>4 DEF Frame, At
  <2>5. ASSUME \/ \E t \in Senders, h \in given : StartSend(t, h)
               \/ RxTake
               \/ \E t \in Tasks : TaskStep(t)
        PROVE  httpd' = httpd
    BY <2>5 DEF StartSend, RxTake, TaskStep, ws_slot_get_by_handle, UseSlot
  <2>6. httpd'.pc # "alloc" \/ httpd' = httpd
    BY <1>2, <2>1, <2>2, <2>3, <2>4, <2>5 DEF Next, HttpdStep
  <2> QED
    BY <2>6 DEF Naming, Named, Room
<1> QED
  BY <1>1, <1>2

LEMMA NamingStep ==
    ASSUME MaxGen < GenMod, Core, Naming, [Next]_vars
    PROVE  Naming' /\ [Pool!Next]_(Pool!vars)
<1>1. ASSUME UNCHANGED <<slots, issued>> PROVE UNCHANGED Pool!vars
  BY <1>1 DEF Pool!vars, make_handle
<1>2. CASE UNCHANGED vars
  BY <1>1, <1>2 DEF vars, Naming, Named, Room
<1>3. CASE ws_slot_alloc
  BY <1>1, <1>3, AllocBinds DEF Pool!Next
<1>4. CASE ws_slot_free_by_sockfd
  BY <1>1, <1>4, FreeReleases DEF Pool!Next
<1> QED
  BY <1>1, <1>2, <1>3, <1>4, SlotsChange, NamingOther

LEMMA NamingInit == ASSUME Init PROVE Naming
  BY PoolAssumption DEF Init, Naming, Named, Room, Idle, At

\* A handle that resolves leads to the socket it was issued for.
THEOREM HandlesNameSockets ==
    ASSUME MaxGen < GenMod
    PROVE  Spec => []HandleNamesItsSocket
<1>1. Core /\ Naming /\ [Next]_vars => Core' /\ Naming'
  BY CoreStep, NamingStep
<1>2. Core /\ Naming => HandleNamesItsSocket
  BY NamingImplies DEF Core
<1> QED
  BY <1>1, <1>2, CoreInit, NamingInit, PTL DEF Spec

\* The pool is a table of handles: an allocation binds, a release unbinds, and
\* nothing else of the server touches the bindings.
THEOREM PoolIsHandleTable ==
    ASSUME MaxGen < GenMod
    PROVE  Spec => ImplementsHandleTable
<1>1. Init => Pool!Init
  BY DEF Init, Pool!Init
<1>2. Core /\ Naming /\ [Next]_vars => Core' /\ Naming' /\ [Pool!Next]_(Pool!vars)
  BY CoreStep, NamingStep
<1> QED
  BY <1>1, <1>2, CoreInit, NamingInit, PTL DEF Spec, ImplementsHandleTable, Pool!Spec

-----------------------------------------------------------------------------
(* What the application was told, if every socket ends with a CLOSE frame. *)

\* The slot of a client that the application knows: on_open_cb has returned, and
\* on_close_cb has not.
Known(i) ==
    slots[i].used /\ ~(httpd.pc \in {"opened", "free"} /\ slots[i].fd = httpd.fd)

\* Between the allocation of a slot and on_open_cb, and between on_close_cb and the
\* release, the application knows every client but the one being handled.
Clients ==
    /\ \A h \in Handles : h \in opened <=> \E i \in Slots : Known(i) /\ make_handle(i) = h
    /\ \A f \in Fds : f \in conn <=> \/ httpd.pc = "alloc" /\ httpd.fd = f
                                     \/ \E i \in Slots : slots[i].used /\ slots[i].fd = f
    /\ \A i \in Slots : slots[i].used => slots[i].fd \in Fds
    /\ httpd.pc # "idle" => httpd.fd \in conn
    /\ httpd.pc = "alloc" => \A i \in Slots : slots[i].used => slots[i].fd # httpd.fd
    /\ httpd.pc = "opened" =>
           \E i \in Slots : slots[i].used /\ slots[i].fd = httpd.fd /\ make_handle(i) = httpd.handle

LEMMA ClientsAlloc == ASSUME Core, Clients, ws_slot_alloc PROVE Clients'
<1> USE DEF Core, Clients
<1>1. httpd.pc = "alloc" /\ httpd.fd \in Fds /\ opened' = opened
  BY DEF ws_slot_alloc, Busy
<1>2. ASSUME NEW i \in Slots, NEW s, Occupy(i, s), s.used, s.fd = httpd.fd, ~slots[i].used
      PROVE  Clients'
  <2>1. /\ conn' = conn /\ httpd'.pc = "opened" /\ httpd'.fd = httpd.fd /\ httpd'.handle = <<i, s.gen>>
        /\ \A j \in Slots : slots'[j] = IF j = i THEN s ELSE slots[j]
    BY <1>2 DEF Occupy, At, TypeOK
  <2>2. \A j \in Slots : Known(j)' <=> Known(j)
    BY <1>1, <1>2, <2>1 DEF Known
  <2>3. \A j \in Slots : Known(j) => make_handle(j)' = make_handle(j)
    BY <1>2, <2>1 DEF Known, make_handle
  <2>4. \A h \in Handles : h \in opened' <=> \E j \in Slots : Known(j)' /\ make_handle(j)' = h
    BY <1>1, <2>2, <2>3
  <2>5. make_handle(i)' = httpd'.handle
    BY <2>1 DEF make_handle
  <2> QED BY <1>1, <1>2, <2>1, <2>4, <2>5
<1>3. CASE ReuseSlot
  <2>1. PICK i \in Slots : /\ IsFirst(i, SameFd) /\ ~slots[i].used
                           /\ Occupy(i, [slots[i] EXCEPT !.used = TRUE])
    BY <1>3 DEF ReuseSlot
  <2> DEFINE s == [slots[i] EXCEPT !.used = TRUE]
  <2>2. s.used /\ s.fd = httpd.fd
    BY <2>1 DEF TypeOK, IsFirst, SameFd
  <2> HIDE DEF s
  <2> QED BY <1>2, <2>1, <2>2 DEF s
<1>4. CASE NewSlot
  <2>1. PICK i \in Slots :
            /\ IsFirst(i, IF Untouched # {} THEN Untouched ELSE Unused)
            /\ Occupy(i, [used |-> TRUE, gen |-> NextGen(slots[i].gen), fd |-> httpd.fd])
    BY <1>4 DEF NewSlot
  <2> DEFINE s == [used |-> TRUE, gen |-> NextGen(slots[i].gen), fd |-> httpd.fd]
  <2>2. s.used /\ s.fd = httpd.fd /\ ~slots[i].used
    BY <2>1 DEF IsFirst, Untouched, Unused
  <2> HIDE DEF s
  <2> QED BY <1>2, <2>1, <2>2 DEF s
<1>5. CASE RefuseBusyFd
  BY <1>1, <1>5 DEF RefuseBusyFd, IsFirst, SameFd
<1>6. CASE RefusePoolFull
  <2>1. slots' = slots /\ conn' = conn \ {httpd.fd} /\ httpd'.pc = "idle"
    BY <1>6 DEF RefusePoolFull, Return, Idle, At
  <2> QED BY <1>1, <2>1 DEF Known, make_handle
<1> QED BY <1>3, <1>4, <1>5, <1>6 DEF ws_slot_alloc

LEMMA ClientsFree == ASSUME Core, Clients, ws_slot_free_by_sockfd PROVE Clients'
<1> USE DEF Core, Clients
<1>1. /\ httpd.pc = "free" /\ opened' = opened /\ conn' = conn \ {httpd.fd} /\ httpd'.pc = "idle"
      /\ httpd.fd \in Fds
  BY DEF ws_slot_free_by_sockfd, Return, Idle, At, Busy
<1>2. \A i \in Slots : /\ slots'[i].fd = slots[i].fd /\ slots'[i].gen = slots[i].gen
                       /\ slots'[i].used <=> slots[i].used /\ slots[i].fd # httpd.fd
  <2> TAKE i \in Slots
  <2>1. slots'[i] = IF IsFirst(i, UsedFor(httpd.fd)) THEN [slots[i] EXCEPT !.used = FALSE] ELSE slots[i]
    BY DEF ws_slot_free_by_sockfd
  <2>2. IsFirst(i, UsedFor(httpd.fd)) <=> slots[i].used /\ slots[i].fd = httpd.fd
    BY <1>1, PoolAssumption DEF IsFirst, UsedFor, DistinctFds, Slots
  <2> QED BY <2>1, <2>2 DEF TypeOK
<1>3. \A i \in Slots : (Known(i)' <=> Known(i)) /\ make_handle(i)' = make_handle(i)
  BY <1>1, <1>2 DEF Known, make_handle
<1> QED BY <1>1, <1>2, <1>3

LEMMA ClientsOther ==
    ASSUME ~SocketErrors, Core, Clients, Next, slots' = slots, ~ws_slot_alloc, ~ws_slot_free_by_sockfd
    PROVE  Clients'
<1> USE DEF Core, Clients
<1>1. \A i \in Slots : make_handle(i)' = make_handle(i)
  BY DEF make_handle
<1>2. ASSUME NEW f \in Fds, Handshake(f) PROVE Clients'
  BY <1>1, <1>2 DEF Handshake, At, Known
<1>3. ASSUME NEW f \in Fds, NEW kind \in {"close", "text"}, Frame(f, kind) PROVE Clients'
  BY <1>1, <1>3 DEF Frame, At, Known
<1>4. CASE OnOpen(TRUE)
  <2>1. /\ httpd.pc = "opened" /\ httpd.fd \in Fds /\ opened' = opened \cup {httpd.handle}
        /\ httpd'.pc = "idle" /\ conn' = conn
    BY <1>4 DEF OnOpen, Return, Idle, At, Busy
  <2>2. PICK i \in Slots : slots[i].used /\ slots[i].fd = httpd.fd /\ make_handle(i) = httpd.handle
    BY <2>1
  <2>3. \A j \in Slots : Known(j)' <=> Known(j) \/ j = i
    BY <2>1, <2>2, PoolAssumption DEF Known, DistinctFds
  <2> QED BY <1>1, <2>1, <2>2, <2>3
<1>5. CASE OnOpen(FALSE)
  <2>1. httpd.pc = "opened" /\ httpd'.pc = "free" /\ httpd'.fd = httpd.fd /\ UNCHANGED <<opened, conn>>
    BY <1>5 DEF OnOpen, TypeOK
  <2> QED BY <1>1, <2>1 DEF Known
<1>6. CASE OnClose
  <2>1. /\ httpd.pc = "close" /\ httpd'.pc = "free" /\ httpd'.fd = httpd.fd /\ httpd.fd \in Fds
        /\ opened' = opened \ {HandleOfFd(httpd.fd)} /\ conn' = conn
    BY <1>6 DEF OnClose, TypeOK, Busy
  <2>2. PICK i \in Slots : slots[i].used /\ slots[i].fd = httpd.fd
    BY <2>1
  <2>3. HandleOfFd(httpd.fd) = make_handle(i)
    BY <2>1, <2>2, HandleOfFdFound DEF UsedFor
  <2>4. \A j \in Slots : Known(j)' <=> Known(j) /\ j # i
    BY <2>1, <2>2, PoolAssumption DEF Known, DistinctFds
  <2>5. \A j \in Slots : make_handle(j) = make_handle(i) => j = i
    BY DEF make_handle
  <2> QED BY <1>1, <2>1, <2>3, <2>4, <2>5
<1>7. CASE TextLookup
  BY <1>1, <1>7 DEF TextLookup, Known, TypeOK
<1>8. CASE Enqueue \/ DropJob
  BY <1>1, <1>8 DEF Enqueue, DropJob, Return, Idle, At, Known
<1>9. CASE \/ \E t \in Senders, h \in given : StartSend(t, h)
           \/ RxTake
           \/ \E t \in Tasks : TaskStep(t)
  <2>1. UNCHANGED <<conn, httpd, opened>>
    BY <1>9 DEF StartSend, RxTake, TaskStep, ws_slot_get_by_handle, UseSlot
  <2> QED BY <1>1, <2>1 DEF Known
<1> QED
  BY <1>2, <1>3, <1>4, <1>5, <1>6, <1>7, <1>8, <1>9 DEF Next, HttpdStep, ClosePayloadError, SocketError

LEMMA ClientsStep == ASSUME ~SocketErrors, Core, Clients, [Next]_vars PROVE Clients'
<1>1. CASE UNCHANGED vars
  BY <1>1 DEF vars, Clients, Known, make_handle
<1> QED BY <1>1, SlotsChange, ClientsAlloc, ClientsFree, ClientsOther

\* If every socket ends with a CLOSE frame, the clients that the application was
\* told of are, between two requests, the used slots and the open sockets: no
\* client that was refused or has left keeps a slot, none that is there has none.
THEOREM AppKnowsEveryClient ==
    ASSUME ~SocketErrors PROVE Spec => []AppSeesEveryClient
<1>1. Init => Clients
  BY DEF Init, Clients, Known, Idle, At
<1>2. Core /\ Clients => AppSeesEveryClient
  <2> SUFFICES ASSUME Core, Clients, httpd.pc = "idle" PROVE AppSeesEveryClient
    BY DEF AppSeesEveryClient
  <2>1. \A i \in Slots : (Known(i) <=> slots[i].used) /\ make_handle(i) \in Handles
    BY DEF Known, make_handle, Core, TypeOK, Handles
  <2>2. opened \subseteq Handles /\ conn \subseteq Fds
    BY DEF Core, TypeOK
  <2>3. opened = {make_handle(i) : i \in {j \in Slots : slots[j].used}}
    BY <2>1, <2>2 DEF Clients
  <2>4. conn = {slots[i].fd : i \in {j \in Slots : slots[j].used}}
    BY <2>2 DEF Clients
  <2> QED BY <2>3, <2>4 DEF AppSeesEveryClient
<1>3. ASSUME Core, Clients, [Next]_vars PROVE Clients'
  BY <1>3, ClientsStep
<1> QED BY <1>1, <1>2, <1>3, CoreInvariant, PTL DEF Spec
=============================================================================
