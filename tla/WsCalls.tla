------------------------------- MODULE WsCalls -------------------------------
(***************************************************************************)
(* Client-initiated messages, seen from both ends: the browser client      *)
(* src/examples/full/webpage/src/utilities/ws.js, and the cmd, req, sub    *)
(* and unsub branches of src/src/ws_server.c with their answers and the    *)
(* automatic ack.  One client, whose connections follow one another on one *)
(* slot.  A handler of the browser runs to its end, with the callbacks of  *)
(* the promises it settles, so it is one action; on the server a critical  *)
(* section of s_lock, a send and a callback are one action each.           *)
(***************************************************************************)
EXTENDS Integers, Sequences, FiniteSets, SequencesExt

CONSTANTS
    MaxInFlight,   \* opts.maxInFlight
    QueueSize,     \* CONFIG_WS_RX_QUEUE_SIZE
    Subs,          \* OutgoingSubscription objects the page may make
    NoSub,
    CallTypes,     \* what else the page sends: "cmd", "req"
    Reconnects,    \* how the client comes back: "same" handle, "other" handle
    MaxId,         \* bound: messages the page sends
    MaxSessions    \* bound: connections

ASSUME CallsAssumption ==
    /\ MaxInFlight \in Nat \ {0} /\ QueueSize \in Nat \ {0}
    /\ IsFiniteSet(Subs) /\ NoSub \notin Subs
    /\ CallTypes \subseteq {"cmd", "req"}
    /\ Reconnects \subseteq {"same", "other"}
    /\ MaxId \in Nat \ {0} /\ MaxSessions \in Nat \ {0}

VARIABLES
    ws,              \* readyState of the socket
    msgs,            \* every message made; the req_id of msgs[i] is i - 1
    queue,           \* req_ids that wait to be sent
    pending,         \* req_ids of the pending table
    acked,           \* those of them with acknowledged set
    inFlight,
    settled,         \* req_ids whose promise is settled
    subs,            \* fields of the OutgoingSubscription objects
    pendingOutSubs,  \* keys of _pendingOutSubs; the object is the message's
    outSubs,         \* outSubscriptions: by sub_id
    descriptors,     \* keys of _outSubDescriptors
    up, down,        \* frames on their way to the server, to the client
    slot,            \* the client's slot
    session,         \* history: number of connections so far
    rxq,             \* ws_rx_q
    rx,              \* the ws_rx task
    work,            \* answers an application task still owes
    streams,         \* subscriptions the application sends deltas for
    told,            \* history, of this connection: req_ids sent an ack or answer
    failed,          \* ... req_ids for which sending one failed
    mute             \* ... cmds the server was done with, and had sent neither

table == <<queue, pending, acked, inFlight>>
objects == <<subs, pendingOutSubs, outSubs, descriptors>>
client == <<ws, msgs, table, settled, objects>>
server == <<slot, session, rxq, rx, work, streams, told, failed, mute>>
vars == <<client, up, down, server>>

NoId == -1          \* null in _reqId
NoSid == 0          \* null in id; the server hands out sub_ids from 1
Ids == 0 .. MaxId - 1
Sids == 1 .. MaxId

Call(id) == msgs[id + 1]
lastId == Len(msgs)

Messages == [type : {"cmd", "req", "sub", "unsub"}, sub : Subs \cup {NoSub},
             sid : Sids \cup {NoSid}, again : BOOLEAN]
Answers == [type : {"ack", "resp", "err"}, id : Ids, sid : Sids \cup {NoSid}]
Objects == [reqId : Ids \cup {NoId}, id : Sids \cup {NoSid}, canceled : BOOLEAN,
            waiting : BOOLEAN]
Jobs == [gen : 1 .. MaxSessions, id : Ids, sess : 1 .. MaxSessions]
IdleRx == [pc |-> "idle", job |-> [gen |-> 1, id |-> 0, sess |-> 1], sid |-> NoSid]

Resolves(gen) == slot.used /\ slot.gen = gen
-----------------------------------------------------------------------------
Init ==
    /\ ws = "closed" /\ msgs = << >>
    /\ queue = << >> /\ pending = {} /\ acked = {} /\ inFlight = 0
    /\ settled = {}
    /\ subs = [o \in Subs |-> [reqId |-> NoId, id |-> NoSid, canceled |-> FALSE,
                               waiting |-> FALSE]]
    /\ pendingOutSubs = {} /\ descriptors = {}
    /\ outSubs = [sid \in Sids |-> NoSub]
    /\ up = << >> /\ down = << >>
    /\ slot = [used |-> FALSE, gen |-> 0, lastRecv |-> 0, acked |-> FALSE, nextSub |-> 0]
    /\ session = 0
    /\ rxq = << >> /\ rx = IdleRx /\ work = {} /\ streams = {}
    /\ told = {} /\ failed = {} /\ mute = {}
-----------------------------------------------------------------------------
(* The client: queue, pending table and connection.                        *)

\* _drain, from a queue q with n messages in flight and the table p.
Drain(q, n, p) ==
    LET room == IF ws' # "open" THEN 0 ELSE MaxInFlight - n
        k == IF Len(q) < room THEN Len(q) ELSE room
    IN  /\ queue' = SubSeq(q, k + 1, Len(q))
        /\ inFlight' = n + k
        /\ pending' = p \cup ToSet(SubSeq(q, 1, k))
        /\ up' = up \o SubSeq(q, 1, k)

M_InFlightWithout(id) == inFlight - 1           \* acknowledged is not looked at
\* What inFlight is when id stops being pending.
InFlightWithout(id) == inFlight - (IF id \in acked THEN 0 ELSE 1)

\* cmd, request
Send(type) ==
    /\ lastId < MaxId
    /\ ws' = ws
    /\ msgs' = Append(msgs, [type |-> type, sub |-> NoSub, sid |-> NoSid, again |-> FALSE])
    /\ Drain(Append(queue, lastId), inFlight, pending)
    /\ UNCHANGED <<acked, settled, objects, down, server>>

Subscribe(o) ==
    /\ lastId < MaxId
    /\ subs[o].reqId = NoId
    /\ ws' = ws
    /\ msgs' = Append(msgs, [type |-> "sub", sub |-> o, sid |-> NoSid, again |-> FALSE])
    /\ subs' = [subs EXCEPT ![o].reqId = lastId, ![o].waiting = (ws # "open")]
    /\ pendingOutSubs' = pendingOutSubs \cup {lastId}
    /\ descriptors' = descriptors \cup {o}
    /\ Drain(Append(queue, lastId), inFlight, pending)
    /\ UNCHANGED <<acked, settled, outSubs, down, server>>

\* unsubscribe of a subscription that has no sub_id yet
CancelPending(o) ==
    LET id == subs[o].reqId
    IN  /\ ~subs[o].canceled /\ subs[o].id = NoSid /\ id \in pendingOutSubs
        /\ ws' = ws
        /\ subs' = [subs EXCEPT ![o].canceled = TRUE]
        /\ pendingOutSubs' = pendingOutSubs \ {id}
        /\ descriptors' = descriptors \ {o}
        /\ IF id \in pending
           THEN /\ settled' = settled \cup {id}
                /\ acked' = acked \ {id}
                /\ Drain(queue, inFlight - 1, pending \ {id})
           ELSE UNCHANGED <<table, settled, up>>
        /\ UNCHANGED <<msgs, outSubs, down, server>>

\* unsubscribe of a subscription that has one, which it keeps
Unsubscribe(o) ==
    LET sid == subs[o].id
    IN  /\ lastId < MaxId
        /\ ~subs[o].canceled /\ sid # NoSid
        /\ ws' = ws
        /\ outSubs' = [outSubs EXCEPT ![sid] = NoSub]
        /\ descriptors' = descriptors \ {o}
        /\ msgs' = Append(msgs, [type |-> "unsub", sub |-> o, sid |-> sid, again |-> FALSE])
        /\ Drain(Append(queue, lastId), inFlight, pending)
        /\ UNCHANGED <<acked, settled, subs, pendingOutSubs, down, server>>

\* The catch of the promises of ids, all rejected: what subscribe was called
\* for is dropped altogether, what _resubscribeAll sent keeps its descriptor.
Forget(ids) ==
    /\ pendingOutSubs' = pendingOutSubs \ ids
    /\ descriptors' = descriptors \ {Call(id).sub : id \in {i \in ids \cap pendingOutSubs :
                                                             ~Call(i).again}}

M_Timeout(id) ==                                       \* without _drain
    /\ id \in pending
    /\ ws' = ws
    /\ Forget({id})
    /\ inFlight' = InFlightWithout(id) /\ pending' = pending \ {id}
    /\ settled' = settled \cup {id} /\ acked' = acked \ {id}
    /\ UNCHANGED <<msgs, queue, subs, outSubs, up, down, server>>
\* _onRequestTimeout: of the ack, or of the answer after an ack
Timeout(id) ==
    /\ id \in pending
    /\ ws' = ws
    /\ Forget({id})
    /\ settled' = settled \cup {id} /\ acked' = acked \ {id}
    /\ Drain(queue, InFlightWithout(id), pending \ {id})
    /\ UNCHANGED <<msgs, subs, outSubs, down, server>>

M_Rejected == pending                                  \* the queue is only emptied
\* What _clearPendingWithError rejects.
Rejected == pending \cup ToSet(queue)

ClearPending ==
    /\ settled' = settled \cup Rejected
    /\ Forget(Rejected)
    /\ queue' = << >> /\ pending' = {} /\ acked' = {} /\ inFlight' = 0

\* open, and the timer that onclose sets
Connect ==
    /\ ws = "closed"
    /\ ws' = "connecting"
    /\ UNCHANGED <<msgs, table, settled, objects, up, down, server>>

\* onclose of an attempt
ConnectFails ==
    /\ ws = "connecting"
    /\ ws' = "closed"
    /\ ClearPending
    /\ UNCHANGED <<msgs, subs, outSubs, up, down, server>>

\* The connection ends: onclose here, on_close_cb and ws_slot_free_by_sockfd
\* there.  What the server had not read and the client not received is lost.
ConnectionEnds ==
    /\ ws = "open"
    /\ ws' = "closed"
    /\ ClearPending
    /\ up' = << >> /\ down' = << >>
    /\ slot' = [slot EXCEPT !.used = FALSE]
    /\ streams' = {st \in streams : st.gen # slot.gen}
    /\ told' = {} /\ failed' = {} /\ mute' = {}
    /\ UNCHANGED <<msgs, subs, outSubs, session, rxq, rx, work>>

M_DropOutSubs(objs) == outSubs                         \* the old sub_id stays
\* The sub_ids of objs, which belong to an earlier connection, are dropped.
DropOutSubs(objs) == [sid \in Sids |-> IF sid \in {subs[o].id : o \in objs} THEN NoSub
                                       ELSE outSubs[sid]]

\* _resubscribeAll: a new request for each object but those that subscribed
\* before the socket was open, then _drain.
ResubscribeAll ==
    LET again == SetToSeq({o \in descriptors : ~subs[o].waiting})
        idOf(o) == lastId - 1 + CHOOSE i \in DOMAIN again : again[i] = o
        ids == [i \in DOMAIN again |-> lastId - 1 + i]
    IN  /\ lastId + Len(again) <= MaxId
        /\ pendingOutSubs' = (pendingOutSubs \ {subs[o].reqId : o \in descriptors}) \cup ToSet(ids)
        /\ outSubs' = DropOutSubs(descriptors)
        /\ subs' = [o \in Subs |->
               CASE o \notin descriptors -> subs[o]
                 [] o \in descriptors /\ subs[o].waiting -> [subs[o] EXCEPT !.waiting = FALSE]
                 [] OTHER -> [subs[o] EXCEPT !.id = NoSid, !.reqId = idOf(o)]]
        /\ msgs' = msgs \o [i \in DOMAIN again |->
               [type |-> "sub", sub |-> again[i], sid |-> NoSid, again |-> TRUE]]
        /\ Drain(queue \o ids, inFlight, pending)

\* The handshake: ws_slot_alloc finds the slot of the same socket number and
\* keeps its handle and last_recv_req_id, or gives the slot a new generation.
Opens(how) ==
    /\ ws = "connecting" /\ session < MaxSessions
    /\ session = 0 => how = "other"
    /\ ws' = "open"
    /\ session' = session + 1
    /\ slot' = [slot EXCEPT !.used = TRUE, !.nextSub = 0,
                            !.gen = IF how = "same" THEN @ ELSE @ + 1]
    /\ ResubscribeAll
    /\ UNCHANGED <<acked, settled, descriptors, down, rxq, rx, work, streams, told, failed, mute>>

\* _onMessage, ack
ReceiveAck ==
    LET id == Head(down).id
    IN  /\ down # << >> /\ Head(down).type = "ack"
        /\ ws' = ws
        /\ down' = Tail(down)
        /\ IF id \in pending
           THEN /\ acked' = acked \cup {id}
                /\ Drain(queue, InFlightWithout(id), pending)
           ELSE UNCHANGED <<table, up>>
        /\ UNCHANGED <<msgs, settled, objects, server>>

\* _onMessage, resp and err: a sub_id makes a pending subscription active, an
\* error ends it; then the request itself is settled.
ReceiveAnswer ==
    LET m == Head(down)
        o == Call(m.id).sub
        promoted == m.sid # NoSid /\ m.id \in pendingOutSubs
        refused == m.type = "err" /\ m.id \in pendingOutSubs /\ m.id \in pending
    IN  /\ down # << >> /\ m.type # "ack"
        /\ ws' = ws
        /\ down' = Tail(down)
        /\ subs' = IF promoted THEN [subs EXCEPT ![o].id = m.sid] ELSE subs
        /\ outSubs' = IF promoted THEN [outSubs EXCEPT ![m.sid] = o] ELSE outSubs
        /\ descriptors' = IF promoted THEN descriptors \cup {o}
                          ELSE IF refused THEN descriptors \ {o} ELSE descriptors
        /\ pendingOutSubs' = IF promoted \/ refused THEN pendingOutSubs \ {m.id}
                             ELSE pendingOutSubs
        /\ IF m.id \in pending
           THEN /\ settled' = settled \cup {m.id}
                /\ acked' = acked \ {m.id}
                /\ Drain(queue, InFlightWithout(m.id), pending \ {m.id})
           ELSE UNCHANGED <<table, settled, up>>
        /\ UNCHANGED <<msgs, server>>
-----------------------------------------------------------------------------
(* The server.                                                             *)

\* ws_handler, TEXT: the frame is queued with the handle of its socket; a full
\* queue makes it wait for 10 ms, then it is dropped.
HttpdRead ==
    /\ up # << >>
    /\ up' = Tail(up)
    /\ \/ /\ Len(rxq) < QueueSize
          /\ rxq' = Append(rxq, [gen |-> slot.gen, id |-> Head(up), sess |-> session])
       \/ Len(rxq) = QueueSize /\ UNCHANGED rxq
    /\ UNCHANGED <<client, down, slot, session, rx, work, streams, told, failed, mute>>

\* ws_send_json: the frame is sent; or there is no memory for it, or the send
\* fails; or the handle is stale.  No caller looks at the result.
SendJson(gen, type, id, sid) ==
    \/ /\ Resolves(gen)
       /\ down' = Append(down, [type |-> type, id |-> id, sid |-> sid])
       /\ told' = told \cup {id}
       /\ UNCHANGED failed
    \/ /\ Resolves(gen)
       /\ failed' = failed \cup {id}
       /\ UNCHANGED <<down, told>>
    \/ /\ ~Resolves(gen)
       /\ UNCHANGED <<down, told, failed>>

M_NoteReceived(job) == [slot EXCEPT !.lastRecv = job.id]     \* acked is not reset
\* last_recv_req_id and last_recv_req_acked for a message that is taken.
NoteReceived(job) == [slot EXCEPT !.lastRecv = job.id, !.acked = FALSE]

\* ws_respond, ws_send_error: after the send, also one that failed, the message
\* counts as acked.
MarkAcked(gen, id) ==
    slot' = IF Resolves(gen) /\ slot.lastRecv = id THEN [slot EXCEPT !.acked = TRUE] ELSE slot

RxTake ==
    LET job == Head(rxq)
        type == Call(job.id).type
    IN  /\ rx.pc = "idle" /\ rxq # << >>
        /\ rxq' = Tail(rxq)
        /\ slot' = IF Resolves(job.gen) THEN NoteReceived(job) ELSE slot
        /\ rx' = [IdleRx EXCEPT !.pc = IF type = "sub" THEN "assign" ELSE "callback", !.job = job]
        /\ UNCHANGED <<client, up, down, session, work, streams, told, failed, mute>>

\* sub: the server's id for the subscription; nothing if the handle is stale.
RxAssign ==
    /\ rx.pc = "assign"
    /\ IF Resolves(rx.job.gen)
       THEN /\ slot' = [slot EXCEPT !.nextSub = @ + 1]
            /\ rx' = [rx EXCEPT !.pc = "callback", !.sid = slot.nextSub + 1]
       ELSE rx' = IdleRx /\ UNCHANGED slot
    /\ UNCHANGED <<client, up, down, session, rxq, work, streams, told, failed, mute>>

\* After ws_dispatch_message: a cmd with a req_id may get its ack.
RxFinished == rx' = IdleRx /\ mute' = IF /\ Call(rx.job.id).type = "cmd"
                                         /\ slot.used /\ rx.job.sess = session
                                         /\ rx.job.id \notin told'
                                      THEN mute \cup {rx.job.id} ELSE mute
RxDispatched ==
    IF Call(rx.job.id).type = "cmd" /\ rx.job.id # 0
    THEN rx' = [rx EXCEPT !.pc = "check"] /\ UNCHANGED mute
    ELSE RxFinished

Stream(gen, id, sid) == [gen |-> gen, id |-> id, sid |-> sid]
\* The application takes note of a subscription it accepts, before it answers.
Accept(gen, id, sid, type) ==
    streams' = IF sid # NoSid /\ type = "resp" THEN streams \cup {Stream(gen, id, sid)} ELSE streams

\* The application's callback answers, which for a sub that is accepted
\* carries the sub_id.
CallbackAnswers(type) ==
    LET job == rx.job
        sid == IF type = "resp" THEN rx.sid ELSE NoSid
    IN  /\ rx.pc = "callback" /\ Call(job.id).type # "unsub"
        /\ Accept(job.gen, job.id, rx.sid, type)
        /\ SendJson(job.gen, type, job.id, sid)
        /\ rx' = [rx EXCEPT !.pc = "mark"]
        /\ UNCHANGED <<client, up, slot, session, rxq, work, mute>>

\* It leaves the answer to another task, or answers a cmd with nothing.
CallbackReturns ==
    LET job == rx.job
    IN  /\ rx.pc = "callback" /\ Call(job.id).type # "unsub"
        /\ \/ work' = work \cup {[gen |-> job.gen, id |-> job.id, sid |-> rx.sid, sent |-> FALSE]}
           \/ Call(job.id).type = "cmd" /\ UNCHANGED work
        /\ UNCHANGED <<told, failed>>
        /\ RxDispatched
        /\ UNCHANGED <<client, up, down, slot, session, rxq, streams>>

\* unsub: the application ends its stream, the server answers.
DispatchUnsub ==
    LET job == rx.job
    IN  /\ rx.pc = "callback" /\ Call(job.id).type = "unsub"
        /\ streams' = {st \in streams : ~(st.gen = job.gen /\ st.sid = Call(job.id).sid)}
        /\ SendJson(job.gen, "resp", job.id, NoSid)
        /\ rx' = [rx EXCEPT !.pc = "mark"]
        /\ UNCHANGED <<client, up, slot, session, rxq, work, mute>>

RxMark ==
    /\ rx.pc = "mark"
    /\ MarkAcked(rx.job.gen, rx.job.id)
    /\ UNCHANGED <<told, failed>>
    /\ RxDispatched
    /\ UNCHANGED <<client, up, down, session, rxq, work, streams>>

\* need_ack
RxCheck ==
    /\ rx.pc = "check"
    /\ UNCHANGED <<told, failed>>
    /\ IF Resolves(rx.job.gen) /\ slot.lastRecv = rx.job.id /\ ~slot.acked
       THEN rx' = [rx EXCEPT !.pc = "ack"] /\ UNCHANGED mute
       ELSE RxFinished
    /\ UNCHANGED <<client, up, down, slot, session, rxq, work, streams>>

\* ws_ack
RxAck ==
    /\ rx.pc = "ack"
    /\ SendJson(rx.job.gen, "ack", rx.job.id, NoSid)
    /\ RxFinished
    /\ UNCHANGED <<client, up, slot, session, rxq, work, streams>>

\* An application task answers what a callback left to it.
AppAnswers(w, type) ==
    /\ ~w.sent
    /\ Accept(w.gen, w.id, w.sid, type)
    /\ SendJson(w.gen, type, w.id, IF type = "resp" THEN w.sid ELSE NoSid)
    /\ work' = (work \ {w}) \cup {[w EXCEPT !.sent = TRUE]}
    /\ UNCHANGED <<client, up, slot, session, rxq, rx, mute>>

AppMarks(w) ==
    /\ w.sent
    /\ MarkAcked(w.gen, w.id)
    /\ work' = work \ {w}
    /\ UNCHANGED <<client, up, down, session, rxq, rx, streams, told, failed, mute>>
-----------------------------------------------------------------------------
Next ==
    \/ \E type \in CallTypes : Send(type)
    \/ \E o \in Subs : Subscribe(o) \/ CancelPending(o) \/ Unsubscribe(o)
    \/ \E id \in Ids : Timeout(id)
    \/ Connect \/ ConnectFails \/ ConnectionEnds
    \/ \E how \in Reconnects : Opens(how)
    \/ ReceiveAck \/ ReceiveAnswer
    \/ HttpdRead
    \/ RxTake \/ RxAssign \/ RxMark \/ RxCheck \/ RxAck
    \/ CallbackReturns \/ DispatchUnsub
    \/ \E type \in {"resp", "err"} : CallbackAnswers(type)
    \/ \E w \in work : AppMarks(w) \/ \E type \in {"resp", "err"} : AppAnswers(w, type)

Spec == Init /\ [][Next]_vars
-----------------------------------------------------------------------------
\* Every variable has its type; the count of messages in flight keeps its limit.
TypeOK ==
    /\ ws \in {"closed", "connecting", "open"}
    /\ msgs \in Seq(Messages) /\ lastId <= MaxId
    /\ queue \in Seq(Ids)
    /\ pending \subseteq Ids /\ acked \subseteq pending /\ settled \subseteq Ids
    /\ inFlight \in 0 .. MaxInFlight
    /\ subs \in [Subs -> Objects]
    /\ pendingOutSubs \subseteq Ids /\ descriptors \subseteq Subs
    /\ outSubs \in [Sids -> Subs \cup {NoSub}]
    /\ up \in Seq(Ids) /\ down \in Seq(Answers)
    /\ slot \in [used : BOOLEAN, gen : 0 .. MaxSessions, lastRecv : Ids, acked : BOOLEAN,
                 nextSub : 0 .. MaxId]
    /\ session \in 0 .. MaxSessions
    /\ rxq \in Seq(Jobs) /\ Len(rxq) <= QueueSize
    /\ rx \in [pc : {"idle", "assign", "callback", "mark", "check", "ack"}, job : Jobs,
               sid : Sids \cup {NoSid}]
    /\ work \subseteq [gen : 1 .. MaxSessions, id : Ids, sid : Sids \cup {NoSid}, sent : BOOLEAN]
    /\ streams \subseteq [gen : 1 .. MaxSessions, id : Ids, sid : Sids]
    /\ told \subseteq Ids /\ failed \subseteq Ids /\ mute \subseteq Ids

\* inFlight counts the pending messages that are neither acked nor answered,
\* through every order of acks, answers, timeouts, cancellations and
\* connections: a count too high stops the client, one too low floods the
\* server's queue.
InFlightIsUnacked == inFlight = Cardinality(pending \ acked)

\* A message waits in the queue of an open connection only for want of room:
\* whatever lowers inFlight also sends the next one.
QueueMoves == ws = "open" /\ queue # << >> => inFlight = MaxInFlight

\* No subscription is unsubscribed twice: DeltasAlwaysMatch, below, has the case.
UnsubscribedOnce ==
    \A i, j \in DOMAIN msgs :
        msgs[i].type = "unsub" /\ msgs[j].type = "unsub" /\ msgs[i].sub = msgs[j].sub => i = j

\* The sub_id by which the page routes deltas is the one the application
\* streams for that very subscription on this connection, although the server
\* numbers subscriptions from 1 on each: as long as every connection had a
\* handle of its own, and the page unsubscribes a subscription only once.
StreamsRouted ==
    \A sid \in Sids : outSubs[sid] # NoSub =>
        \E st \in streams : st.gen = slot.gen /\ st.sid = sid /\ Call(st.id).sub = outSubs[sid]
DeltasMatch == ws = "open" /\ slot.gen = session /\ UnsubscribedOnce => StreamsRouted

\* ws_server.h:22: a cmd that was taken from a connection that still lasts has
\* its answer or its ack when the receive task is done with it, whichever task
\* answers, unless a send for it failed, and except the message with req_id 0
\* (FailedCmdAcked and EveryCmdAnswered below).
CmdAnswered == mute \subseteq {0} \cup failed

\* No message of the page is forgotten: it waits, or is pending under its
\* timer, or its promise is settled, and is only one of these.  With QueueMoves
\* and timers that fire this is why every promise is settled in the end.
EveryCallAccounted ==
    /\ IsInjective(queue)
    /\ ToSet(queue) \cap pending = {} /\ (ToSet(queue) \cup pending) \cap settled = {}
    /\ ToSet(queue) \cup pending \cup settled = 0 .. lastId - 1
-----------------------------------------------------------------------------
(* Statements of the sources that the code does not keep.                  *)

\* ws_server.h:22: "Auto-acked if the callback does not call
\* ws_respond/ws_send_error": a cmd whose answer could not be sent counts as acked,
\* and gets no ack either.
FailedCmdAcked == mute \subseteq {0}

\* ws_server.h:22-23 for every cmd; the first of each page has req_id 0, which
\* ws_rx_task takes as no id.
EveryCmdAnswered == mute = {}

\* ws.js:393 "Already in queue": a subscription that was made before the socket
\* was open becomes active, or its request is still on its way.
EarlySubscriptionsKept ==
    \A o \in descriptors : subs[o].id = NoSid =>
        \/ subs[o].reqId \in pendingOutSubs
        \/ ws # "open"

\* RAP.v1.md:128 "remains valid until unsubscribed": a subscription that was
\* unsubscribed keeps its sub_id, and unsubscribed again on a later connection
\* it ends whichever stream has that sub_id now.
DeltasAlwaysMatch == ws = "open" /\ slot.gen = session => StreamsRouted

\* RAP.v1.md:121 a delta is "tied to a `sub_id`": no other subscription is streamed
\* under a sub_id the page routes by.  After a reconnection under the same handle the
\* answer to a message of the connection before, which resolves, may do that.
StreamsKeptApart ==
    ws = "open" /\ UnsubscribedOnce =>
        \A st \in streams :
            st.gen = slot.gen /\ outSubs[st.sid] # NoSub => Call(st.id).sub = outSubs[st.sid]

\* RAP.v1.md:108 "Deltas are sent only for active subscriptions.": the client
\* wants each stream of its connection, or its unsub is on its way.
StreamsAreWanted ==
    \A st \in streams : Resolves(st.gen) =>
        \/ Call(st.id).sub \in descriptors
        \/ \E id \in 0 .. lastId - 1 : Call(id).type = "unsub" /\ Call(id).sid = st.sid
=============================================================================
