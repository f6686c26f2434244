------------------------------ MODULE WsInFlight ------------------------------
(***************************************************************************)
(* Server-initiated messages of src/src/ws_server.c on one client slot:    *)
(* ws_send_cmd, ws_send_req and ws_subscribe (ws_send_out_req and          *)
(* ws_subscribe share their control flow), ws_unsubscribe, and the ack,    *)
(* resp and err branches of ws_dispatch_message.  Three kinds of task meet *)
(* here: application tasks that send, the ws_rx task that completes what   *)
(* was sent, and the HTTP server task that ends and restarts the           *)
(* connection.  A critical section of s_lock is one action; the semaphore  *)
(* is taken and given outside of it, and so are the sends.  A callback     *)
(* runs in the ws_rx task, which may send from it like another sender.     *)
(***************************************************************************)
EXTENDS Integers, Sequences, FiniteSets

CONSTANTS
    MaxInFlight,   \* CONFIG_MAX_IN_FLIGHT_MSGS
    Senders,       \* application tasks
    Rx,            \* the ws_rx task, where a callback sends
    NoTask,
    QueueSize,     \* CONFIG_WS_RX_QUEUE_SIZE
    CallbackSends, \* whether a callback sends a message of its own
    ClientAcks,    \* whether the client acks before or after it answers
    Reconnects,    \* how it may come back: "same" socket number, "other" one
    MaxId,         \* bound: request ids one slot hands out between resets
    MaxSessions    \* bound: connections of the slot in a behaviour

ASSUME InFlightAssumption ==
    /\ MaxInFlight \in Nat \ {0}
    /\ QueueSize \in Nat \ {0}
    /\ CallbackSends \in BOOLEAN /\ ClientAcks \in BOOLEAN
    /\ Reconnects \subseteq {"same", "other"}
    /\ MaxId \in Nat /\ MaxSessions \in Nat \ {0}
    /\ IsFiniteSet(Senders)
    /\ Rx \notin Senders
    /\ NoTask \notin Senders \cup {Rx}

VARIABLES
    used,     \* the slot is in use
    gen,      \* its generation, that is, its handle
    sess,     \* history: which connection of the slot this is
    lastId,   \* last_req_id
    sem,      \* count of in_flight_semaphore
    tab,      \* out_reqs ("req") and out_subs ("sub")
    inSubs,   \* sub_ids in in_subs
    sender,   \* each task that sends
    rx,       \* the ws_rx task
    jobs,     \* ws_rx_q, answers of the client only
    client,   \* messages the client has received and not finished with
    active    \* history: sub_ids whose snapshot_cb said success, not unsubscribed

vars == <<used, gen, sess, lastId, sem, tab, inSubs, sender, rx, jobs, client, active>>
conn == <<used, gen, sess>>

Tasks == Senders \cup {Rx}
Kinds == {"req", "sub"}
Idx == 1 .. MaxInFlight
Ids == 0 .. MaxId

\* "by" is history: the sender that filled the entry and is still sending it.
Entries == [in_use : BOOLEAN, acked : BOOLEAN, id : Ids, sess : 1 .. MaxSessions,
            by : Tasks \cup {NoTask}]
Blank == [in_use |-> FALSE, acked |-> FALSE, id |-> 0, sess |-> 1, by |-> NoTask]
Tables == [Kinds -> [Idx -> Entries]]
BlankTab == [k \in Kinds |-> [i \in Idx |-> Blank]]

Messages == [kind : Kinds \cup {"unsub"}, id : Ids, acked : BOOLEAN, answered : BOOLEAN]
Jobs == [type : {"ack", "resp", "err"}, sub : BOOLEAN, id : Ids, gen : 1 .. MaxSessions,
         sess : 1 .. MaxSessions]
NoJob == [type |-> "ack", sub |-> FALSE, id |-> 0, gen |-> 1, sess |-> 1]

\* The two kinds of task, and where each can be.
SenderStates == [pc : {"idle", "sem", "alloc", "unsub", "send", "fail", "give"},
                 gen : 1 .. MaxSessions, kind : Kinds \cup {"unsub"},
                 idx : Idx, id : Ids, sub : Ids]
RxStates == [pc : {"idle", "lookup", "match", "give", "callback", "sending"}, job : Jobs,
             hit : Entries, sub : Ids]
IdleSender == [pc |-> "idle", gen |-> 1, kind |-> "req", idx |-> 1, id |-> 0, sub |-> 0]
IdleRx == [pc |-> "idle", job |-> NoJob, hit |-> Blank, sub |-> 0]

Lowest(S) == CHOOSE i \in S : \A j \in S : i <= j
Resolves(g) == used /\ gen = g

\* xSemaphoreGive: a counting semaphore stays at its maximum.
Give(s) == IF s < MaxInFlight THEN s + 1 ELSE s
-----------------------------------------------------------------------------
Init ==
    /\ used = TRUE /\ gen = 1 /\ sess = 1
    /\ lastId = 0
    /\ sem = MaxInFlight
    /\ tab = BlankTab
    /\ inSubs = {}
    /\ sender = [s \in Tasks |-> IdleSender]
    /\ rx = IdleRx
    /\ jobs = << >>
    /\ client = {}
    /\ active = {}
-----------------------------------------------------------------------------
(* An application task sends a cmd or req ("req"), subscribes ("sub") or   *)
(* unsubscribes ("unsub").  The handle resolves, and the slot pointer is   *)
(* kept for the rest of the call.                                          *)

SetPc(s, pc) == sender' = [sender EXCEPT ![s].pc = pc]

\* The bound: every call that was started finds an id to use.
Claims == {s \in Tasks : sender[s].pc \in {"sem", "alloc", "unsub"}}
RoomForId == lastId + Cardinality(Claims) < MaxId

Started(s, kind) ==
    /\ sender[s].pc = "idle" /\ RoomForId
    /\ sender' = [sender EXCEPT ![s] = [IdleSender EXCEPT !.pc = "sem", !.gen = gen,
                                                         !.kind = kind]]
StartSend(s, kind) ==
    /\ used
    /\ Started(s, kind)
    /\ UNCHANGED <<conn, lastId, sem, tab, inSubs, rx, jobs, client, active>>

StartUnsubscribe(s, sub) ==
    /\ sender[s].pc = "idle" /\ used /\ RoomForId
    /\ active' = active \ {sub}
    /\ sender' = [sender EXCEPT ![s] = [IdleSender EXCEPT !.pc = "unsub", !.gen = gen,
                                                         !.kind = "unsub", !.sub = sub]]
    /\ UNCHANGED <<conn, lastId, sem, tab, inSubs, rx, jobs, client>>

TakePermit(s) ==
    /\ sender[s].pc = "sem" /\ sem > 0
    /\ sem' = sem - 1
    /\ SetPc(s, "alloc")
    /\ UNCHANGED <<conn, lastId, tab, inSubs, rx, jobs, client, active>>

\* Mutants, the definitions M_... in this module, are never part of Next: each
\* is the definition that follows it with a plausible bug.
M_PermitTimeout(s) == FALSE /\ UNCHANGED vars          \* waits with portMAX_DELAY
\* One second without a permit: ESP_ERR_TIMEOUT.
PermitTimeout(s) ==
    /\ sender[s].pc = "sem" /\ sem = 0
    /\ sender' = [sender EXCEPT ![s] = IdleSender]
    /\ UNCHANGED <<conn, lastId, sem, tab, inSubs, rx, jobs, client, active>>

\* First free entry of the table; acked keeps the value the last user left.
AllocEntry(s) ==
    LET k == sender[s].kind
        free == {i \in Idx : ~tab[k][i].in_use}
        i == Lowest(free)
    IN  /\ sender[s].pc = "alloc"
        /\ IF free = {}
           THEN SetPc(s, "give") /\ UNCHANGED <<lastId, tab>>
           ELSE /\ lastId' = lastId + 1
                /\ tab' = [tab EXCEPT ![k][i] =
                       [@ EXCEPT !.in_use = TRUE, !.id = lastId + 1, !.sess = sess, !.by = s]]
                /\ sender' = [sender EXCEPT ![s].pc = "send", ![s].idx = i, ![s].id = lastId + 1]
        /\ UNCHANGED <<conn, sem, inSubs, rx, jobs, client, active>>

\* The entry stops being "by" a sender when the sender's call is over.
Unown(s) == [k \in Kinds |-> [i \in Idx |->
                IF tab[k][i].by = s THEN [tab[k][i] EXCEPT !.by = NoTask] ELSE tab[k][i]]]

\* ws_send_json looks the handle up again and the frame goes out.
SendOk(s) ==
    /\ sender[s].pc = "send" /\ Resolves(sender[s].gen)
    /\ client' = client \cup {[kind |-> sender[s].kind, id |-> sender[s].id,
                               acked |-> sender[s].kind = "unsub", answered |-> FALSE]}
    /\ tab' = Unown(s)
    /\ sender' = [sender EXCEPT ![s] = IdleSender]
    /\ UNCHANGED <<conn, lastId, sem, inSubs, rx, jobs, active>>

\* The handle is stale, memory is short, or the socket refuses the frame.
SendFails(s) ==
    /\ sender[s].pc = "send"
    /\ IF sender[s].kind = "unsub"
       THEN sender' = [sender EXCEPT ![s] = IdleSender]
       ELSE SetPc(s, "fail")
    /\ UNCHANGED <<conn, lastId, sem, tab, inSubs, rx, jobs, client, active>>

M_ClearEntry(s) ==                                     \* the first entry, not the sender's
    /\ sender[s].pc = "fail"
    /\ tab' = [Unown(s) EXCEPT ![sender[s].kind][1].in_use = FALSE]
    /\ SetPc(s, "give")
    /\ UNCHANGED <<conn, lastId, sem, inSubs, rx, jobs, client, active>>

\* Whatever the entry holds by now is given up.
ClearEntry(s) ==
    /\ sender[s].pc = "fail"
    /\ tab' = [Unown(s) EXCEPT ![sender[s].kind][sender[s].idx].in_use = FALSE]
    /\ SetPc(s, "give")
    /\ UNCHANGED <<conn, lastId, sem, inSubs, rx, jobs, client, active>>

M_GiveBack(s) ==                                       \* the permit of a failed send is kept
    /\ sender[s].pc = "give"
    /\ sender' = [sender EXCEPT ![s] = IdleSender]
    /\ UNCHANGED <<conn, lastId, sem, tab, inSubs, rx, jobs, client, active>>
GiveBack(s) ==
    /\ sender[s].pc = "give"
    /\ sem' = Give(sem)
    /\ sender' = [sender EXCEPT ![s] = IdleSender]
    /\ UNCHANGED <<conn, lastId, tab, inSubs, rx, jobs, client, active>>

\* ws_unsubscribe forgets the subscription and uses an id, but no permit.
ForgetSub(s) ==
    /\ sender[s].pc = "unsub"
    /\ inSubs' = inSubs \ {sender[s].sub}
    /\ lastId' = lastId + 1
    /\ sender' = [sender EXCEPT ![s].pc = "send", ![s].id = lastId + 1]
    /\ UNCHANGED <<conn, sem, tab, rx, jobs, client, active>>

SenderStep(s) ==
    \/ TakePermit(s) \/ PermitTimeout(s) \/ AllocEntry(s) \/ ForgetSub(s)
    \/ SendOk(s) \/ SendFails(s) \/ ClearEntry(s) \/ GiveBack(s)
-----------------------------------------------------------------------------
(* The client, and the receive queue its messages enter or miss.           *)

Deliver(m, done, type) ==
    /\ client' = (client \ {m}) \cup (IF done.acked /\ done.answered THEN {} ELSE {done})
    /\ \/ /\ Len(jobs) < QueueSize
          /\ jobs' = Append(jobs, [type |-> type, sub |-> m.kind = "sub" /\ type = "resp",
                                   id |-> m.id, gen |-> gen, sess |-> sess])
       \/ /\ Len(jobs) = QueueSize
          /\ UNCHANGED jobs
    /\ UNCHANGED <<conn, lastId, sem, tab, inSubs, sender, rx, active>>

ClientAck(m) ==
    /\ ClientAcks /\ used /\ ~m.acked
    /\ Deliver(m, [m EXCEPT !.acked = TRUE], "ack")

ClientAnswer(m, type) ==
    /\ used /\ ~m.answered
    /\ Deliver(m, [m EXCEPT !.answered = TRUE, !.acked = @ \/ ~ClientAcks], type)
-----------------------------------------------------------------------------
(* ws_rx_task and ws_dispatch_message.                                     *)

RxTake ==
    /\ rx.pc = "idle" /\ jobs # << >>
    /\ rx' = [IdleRx EXCEPT !.pc = "lookup", !.job = Head(jobs)]
    /\ jobs' = Tail(jobs)
    /\ UNCHANGED <<conn, lastId, sem, tab, inSubs, sender, client, active>>

RxLookup ==
    /\ rx.pc = "lookup"
    /\ rx' = IF Resolves(rx.job.gen) THEN [rx EXCEPT !.pc = "match"] ELSE IdleRx
    /\ UNCHANGED <<conn, lastId, sem, tab, inSubs, sender, jobs, client, active>>

Pending(k) == {i \in Idx : tab[k][i].in_use /\ tab[k][i].id = rx.job.id}
Unacked(k) == {i \in Pending(k) : ~tab[k][i].acked}

NoMatch ==
    /\ rx' = IdleRx
    /\ UNCHANGED <<tab, inSubs>>

\* ack: out_reqs first, then out_subs; only an entry that is not acked yet.
MatchAck ==
    LET Hit(k) ==
            /\ tab' = [tab EXCEPT ![k][Lowest(Unacked(k))].acked = TRUE]
            /\ rx' = [rx EXCEPT !.pc = "give", !.hit = tab[k][Lowest(Unacked(k))]]
            /\ UNCHANGED inSubs
    IN  /\ rx.job.type = "ack"
        /\ IF Unacked("req") # {} THEN Hit("req")
           ELSE IF Unacked("sub") # {} THEN Hit("sub") ELSE NoMatch

M_Finish(k) ==                                         \* was_acked is not looked at
    LET i == Lowest(Pending(k))
    IN  /\ tab' = [tab EXCEPT ![k][i].in_use = FALSE]
        /\ rx' = [rx EXCEPT !.pc = "give", !.hit = tab[k][i]]
\* The entry is given up; its permit is still to be given unless it was acked.
Finish(k) ==
    LET i == Lowest(Pending(k))
    IN  /\ tab' = [tab EXCEPT ![k][i].in_use = FALSE]
        /\ rx' = [rx EXCEPT !.pc = IF tab[k][i].acked THEN "callback" ELSE "give",
                            !.hit = tab[k][i],
                            !.sub = IF rx.job.sub THEN rx.job.id ELSE 0]

\* resp with a sub_id: out_subs only, promoted to in_subs if it has room.  The
\* client numbers its sub_ids apart; the request id stands for the sub_id.
MatchSubscribed ==
    /\ rx.job.type = "resp" /\ rx.job.sub
    /\ IF Pending("sub") = {} THEN NoMatch
       ELSE /\ Finish("sub")
            /\ inSubs' = IF Cardinality(inSubs) < MaxInFlight
                         THEN inSubs \cup {rx.job.id} ELSE inSubs

\* err looks in out_subs first; both end in out_reqs.
MatchAnswer ==
    /\ rx.job.type \in {"resp", "err"} /\ ~rx.job.sub
    /\ IF rx.job.type = "err" /\ Pending("sub") # {} THEN Finish("sub") /\ UNCHANGED inSubs
       ELSE IF Pending("req") # {} THEN Finish("req") /\ UNCHANGED inSubs
       ELSE NoMatch

RxMatch ==
    /\ rx.pc = "match"
    /\ MatchAck \/ MatchSubscribed \/ MatchAnswer
    /\ UNCHANGED <<conn, lastId, sem, sender, jobs, client, active>>

RxGive ==
    /\ rx.pc = "give"
    /\ sem' = Give(sem)
    /\ rx' = IF rx.job.type = "ack" THEN IdleRx ELSE [rx EXCEPT !.pc = "callback"]
    /\ UNCHANGED <<conn, lastId, tab, inSubs, sender, jobs, client, active>>

\* snapshot_cb(sub_id, success) or the request's cb.
Callback ==
    /\ rx.pc = "callback"
    /\ active' = IF rx.sub # 0 THEN active \cup {rx.sub} ELSE active
    /\ UNCHANGED <<conn, lastId, sem, tab, inSubs, jobs, client>>

RxCallback == Callback /\ rx' = IdleRx /\ UNCHANGED sender

\* The callback sends to the client it was called for; the receive task does
\* nothing else until that call is over.
RxCallbackSends(kind) ==
    /\ CallbackSends /\ Resolves(rx.job.gen)
    /\ Callback
    /\ Started(Rx, kind)
    /\ rx' = [rx EXCEPT !.pc = "sending"]

RxCallbackReturns ==
    /\ rx.pc = "sending" /\ sender[Rx].pc = "idle"
    /\ rx' = IdleRx
    /\ UNCHANGED <<conn, lastId, sem, tab, inSubs, sender, jobs, client, active>>

RxStep ==
    \/ RxTake \/ RxLookup \/ RxMatch \/ RxGive \/ RxCallback \/ RxCallbackReturns
    \/ \E kind \in Kinds : RxCallbackSends(kind)
-----------------------------------------------------------------------------
(* The connection: ws_slot_free_by_sockfd, then ws_slot_alloc.             *)

Disconnect ==
    /\ used /\ Reconnects # {}
    /\ used' = FALSE
    /\ client' = {}
    /\ UNCHANGED <<gen, sess, lastId, sem, tab, inSubs, sender, rx, jobs, active>>

\* New connection, cleared tables; the semaphore stays as it is.
Restart ==
    /\ ~used /\ sess < MaxSessions
    /\ used' = TRUE
    /\ sess' = sess + 1
    /\ tab' = BlankTab
    /\ inSubs' = {}
    /\ active' = {}
    /\ UNCHANGED <<sem, sender, rx, jobs, client>>

M_ReconnectSame ==                                     \* last_req_id is cleared
    "same" \in Reconnects /\ Restart /\ lastId' = 0 /\ UNCHANGED gen
\* The same socket number: same handle, ids go on.
ReconnectSame == "same" \in Reconnects /\ Restart /\ UNCHANGED <<lastId, gen>>

\* The slot goes to another socket: next generation, ids start again.
ReconnectOther == "other" \in Reconnects /\ Restart /\ lastId' = 0 /\ gen' = gen + 1

Next ==
    \/ \E s \in Tasks : SenderStep(s)
    \/ \E s \in Senders : \/ \E k \in Kinds : StartSend(s, k)
                          \/ \E sub \in active : StartUnsubscribe(s, sub)
    \/ \E m \in client : ClientAck(m) \/ \E t \in {"resp", "err"} : ClientAnswer(m, t)
    \/ RxStep
    \/ Disconnect \/ ReconnectSame \/ ReconnectOther

Spec == Init /\ [][Next]_vars

\* The tasks are scheduled; the client owes nothing.
FairSpec == Spec /\ WF_vars(RxStep) /\ \A s \in Tasks : WF_vars(SenderStep(s))
-----------------------------------------------------------------------------
TypeOK ==
    /\ used \in BOOLEAN /\ gen \in 1 .. MaxSessions /\ sess \in 1 .. MaxSessions
    /\ lastId \in Ids
    /\ sem \in 0 .. MaxInFlight
    /\ tab \in Tables
    /\ inSubs \subseteq Ids
    /\ sender \in [Tasks -> SenderStates]
    /\ rx \in RxStates
    /\ jobs \in Seq(Jobs)
    /\ client \subseteq Messages
    /\ active \subseteq Ids

\* Permits out of the semaphore that some task or entry will still give back.
Holders == {s \in Tasks : /\ sender[s].pc \in {"alloc", "send", "fail", "give"}
                           /\ sender[s].kind # "unsub"}
Owed == {p \in Kinds \X Idx : LET e == tab[p[1]][p[2]]
                              IN  e.in_use /\ ~e.acked /\ e.by = NoTask}
Giving == IF rx.pc = "give" THEN 1 ELSE 0

\* No other socket has had the slot yet: it has been one client's, who may
\* have come back.
OneSocket == gen = 1

Out == Cardinality(Holders) + Cardinality(Owed) + Giving

\* The semaphore and whoever owes it a permit are an account that no step can
\* put in credit: a permit that is given was taken before, and given once, also
\* after a reconnection has lost some and a second give would go unnoticed.
\* This is Credits!Spec, up to the moment the slot goes to another socket.
Credits == INSTANCE Permits WITH Max <- MaxInFlight, free <- sem, out <- Out
ImplementsPermits == Credits!Init /\ [][OneSocket' => Credits!Next]_(Credits!vars)

\* The message s sends goes out from an entry that is still marked acked by an
\* earlier message, so nobody will give its permit back.
StaleAck(s) ==
    /\ SendOk(s) /\ sender[s].kind \in Kinds
    /\ tab[sender[s].kind][sender[s].idx].acked

\* With a client that acks and comes back, a permit is lost in three ways only:
\* the reconnection drops the pending entries, a call that lasted through it
\* clears or leaves an entry of the new connection, or a message is taken for
\* acked before it is sent, which alone happens on the first connection.  Failing
\* sends, full tables, acks and answers in any order lose none: the semaphore
\* "counts in-flight server-initiated requests" (ws_server.h:96).
LossesAreKnown ==
    [][OneSocket' /\ sem' + Out' < sem + Out =>
          \/ ReconnectSame
          \/ \E s \in Tasks : SenderStep(s) /\ (StaleAck(s) \/ sess > 1)]_vars

\* The client never has more than the limit of messages it has neither acked
\* nor answered, through sends that fail, late answers and reconnections.
ClientNotFlooded ==
    OneSocket => Cardinality({m \in client : m.kind # "unsub" /\ ~m.acked /\ ~m.answered}) <= MaxInFlight

\* An answer completes a request of the connection that the answer arrived on.
AnswersStayInSession ==
    OneSocket /\ rx.pc \in {"give", "callback"} => rx.hit.sess = rx.job.sess

\* Nobody is sending and nothing is pending.
Quiet == /\ \A s \in Tasks : sender[s].pc = "idle"
         /\ rx.pc = "idle"
         /\ \A k \in Kinds, i \in Idx : ~tab[k][i].in_use
\* When nothing is in flight every permit is back: in_flight_semaphore "counts
\* in-flight server-initiated requests" (ws_server.h:96).
PermitsReturn == Quiet => sem = MaxInFlight

\* A request that went out stops being pending only when its answer is taken
\* up, and then its callback follows; no other task may clear its entry.  The
\* header says so of a closed connection too: "success=false: payload is NULL
\* (request rejected or connection closed)" (ws_server.h:45).
RequestsEndByAnswer ==
    [][\A k \in Kinds, i \in Idx :
        tab[k][i].in_use /\ tab[k][i].by = NoTask /\ ~tab'[k][i].in_use
            => rx'.pc \in {"give", "callback"} /\ rx'.hit = tab[k][i]]_vars

\* Whether or not the client ever answers, a call to send comes back, and so does
\* the receive task to its queue, also when a callback sends and waits for a permit
\* that only an answer still in that queue would give: "1-second timeout to avoid
\* blocking callers forever" (ws_server.c:343).
EveryoneReturns ==
    /\ \A s \in Senders : sender[s].pc # "idle" ~> sender[s].pc = "idle"
    /\ rx.pc # "idle" ~> rx.pc = "idle"
-----------------------------------------------------------------------------
(* What comments of the code say and the code does not do.                 *)

\* "true once the client has sent an ack; semaphore already released"
\* (ws_server.h:61, 70): no entry starts its life acked.
AckedAfterSend ==
    \A k \in Kinds, i \in Idx : tab[k][i].in_use /\ tab[k][i].by # NoTask => ~tab[k][i].acked

\* "delta_cb is called for each subsequent delta" (ws_server.h:153): the deltas
\* of a subscription whose snapshot was reported find their entry in in_subs.
ReportedSubsAreKept == active \subseteq inSubs
=============================================================================
