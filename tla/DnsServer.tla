----------------------------- MODULE DnsServer ------------------------------
(***************************************************************************)
(* The portal's DNS server, src/priv_include/dns_server/dns_server.c: its  *)
(* handle, its task and its socket, among the socket numbers it shares     *)
(* with the HTTP server; and the reply it makes to a query.                *)
(* lwIP is external: a new socket has the lowest free number, a port is    *)
(* one socket's, and a socket outlives the task that made it.              *)
(***************************************************************************)
EXTENDS Integers, Sequences, FiniteSets, SequencesExt

CONSTANTS
    MaxHandles,     \* bound: how often start_dns_server is called
    MaxSockets,     \* CONFIG_LWIP_MAX_SOCKETS
    MaxSessions,    \* max_open_sockets of the HTTP server
    SocketErrors,   \* the calls that fail on a socket: subset of {"recv", "send"}
    NoMemory        \* the calls that find no memory: subset of {"calloc", "task"}

ASSUME DnsAssumption ==
    /\ MaxHandles \in Nat \ {0}
    /\ MaxSockets \in Nat \ {0}
    /\ MaxSessions \in Nat
    /\ SocketErrors \subseteq {"recv", "send"}
    /\ NoMemory \subseteq {"calloc", "task"}

VARIABLES
    dns,            \* each handle: its memory, its flag, its task and the task's socket
    s_dns_server,   \* the handle the portal keeps, 0 for NULL
    fds,            \* each socket number: "free", or who has it
    port53          \* the socket bound to the DNS port, or NoSocket

dnsVars == <<dns, s_dns_server>>
socketVars == <<fds, port53>>

Handles == 1 .. MaxHandles
Fds == 0 .. MaxSockets - 1
NoSocket == -1
FreeFds == {fd \in Fds : fds[fd] = "free"}
Lowest(S) == CHOOSE x \in S : \A y \in S : x <= y

\* mem: "new", "live", "freed".  pc: "none" before the task is created, "gone"
\* when it deleted itself or was deleted; "again" when its socket is closed already.
NoServer == [mem |-> "new", started |-> FALSE, pc |-> "none", sock |-> NoSocket]
Freed == [mem |-> "freed", started |-> FALSE, pc |-> "gone", sock |-> NoSocket]
Running(n) == dns[n].pc \notin {"none", "gone"}

\* Mutants, the definitions M_... in this module, are never part of a step:
\* each is the definition that follows it with a plausible bug.
-----------------------------------------------------------------------------
(* dns_server_task.                                                        *)

\* close() goes by the number, whoever has it now.
close(fd) ==
    /\ fds' = [fds EXCEPT ![fd] = "free"]
    /\ port53' = IF port53 = fd THEN NoSocket ELSE port53

TaskAt(n, pc) == dns[n].pc = pc
TaskTo(n, pc) == dns' = [dns EXCEPT ![n].pc = pc]

MakeSocket(n) ==
    /\ TaskAt(n, "outer") /\ dns[n].started /\ FreeFds # {}
    /\ fds' = [fds EXCEPT ![Lowest(FreeFds)] = "dns"]
    /\ dns' = [dns EXCEPT ![n].pc = "bind", ![n].sock = Lowest(FreeFds)]
    /\ UNCHANGED <<s_dns_server, port53>>

\* The flag is down, or no socket is left: the task deletes itself.
LeaveTask(n) ==
    /\ TaskAt(n, "outer") /\ (~dns[n].started \/ FreeFds = {})
    /\ dns' = [dns EXCEPT ![n].pc = "gone", ![n].sock = NoSocket]
    /\ UNCHANGED <<s_dns_server, socketVars>>

\* A bind that fails is logged, no more.
Bind(n) ==
    /\ TaskAt(n, "bind")
    /\ port53' = IF port53 = NoSocket THEN dns[n].sock ELSE port53
    /\ TaskTo(n, "inner")
    /\ UNCHANGED <<s_dns_server, fds>>

AwaitQuery(n) ==
    /\ TaskAt(n, "inner")
    /\ TaskTo(n, IF dns[n].started THEN "recv" ELSE "close")
    /\ UNCHANGED <<s_dns_server, socketVars>>

Receive(n) ==
    /\ TaskAt(n, "recv") /\ port53 = dns[n].sock
    /\ TaskTo(n, "reply")
    /\ UNCHANGED <<s_dns_server, socketVars>>

\* recvfrom fails: the socket is closed here, and once more after the loop.
ReceiveFails(n) ==
    /\ TaskAt(n, "recv") /\ "recv" \in SocketErrors
    /\ close(dns[n].sock)
    /\ TaskTo(n, "again")
    /\ UNCHANGED s_dns_server

\* A reply is sent, or none was made, or there is no memory for it just now.
Reply(n) ==
    /\ TaskAt(n, "reply")
    /\ TaskTo(n, "inner")
    /\ UNCHANGED <<s_dns_server, socketVars>>

M_SendFails(n) ==                                      \* closed like after recvfrom
    /\ TaskAt(n, "reply") /\ "send" \in SocketErrors
    /\ close(dns[n].sock)
    /\ TaskTo(n, "close")
    /\ UNCHANGED s_dns_server
SendFails(n) ==
    /\ TaskAt(n, "reply") /\ "send" \in SocketErrors
    /\ TaskTo(n, "close")
    /\ UNCHANGED <<s_dns_server, socketVars>>

M_CloseSocket(n) ==                                    \* a new socket is made all the same
    /\ TaskAt(n, "close") \/ TaskAt(n, "again")
    /\ TaskTo(n, "outer")
    /\ UNCHANGED <<s_dns_server, socketVars>>
CloseSocket(n) ==
    /\ TaskAt(n, "close") \/ TaskAt(n, "again")
    /\ close(dns[n].sock)
    /\ TaskTo(n, "outer")
    /\ UNCHANGED s_dns_server

\* What the task does by itself, and what a client or an error makes it do.
TaskRuns(n) ==
    \/ MakeSocket(n) \/ LeaveTask(n) \/ Bind(n) \/ AwaitQuery(n)
    \/ Reply(n) \/ SendFails(n) \/ CloseSocket(n)
TaskStep(n) == TaskRuns(n) \/ Receive(n) \/ ReceiveFails(n)
-----------------------------------------------------------------------------
(* start_dns_server and stop_dns_server, called by the listener.           *)

NewHandle == CHOOSE n \in Handles : dns[n].mem = "new" /\ \A m \in Handles : dns[m].mem = "new" => n <= m

\* The result of xTaskCreate is not looked at.
start_dns_server(created) ==
    /\ dns' = [dns EXCEPT ![NewHandle] =
                  [mem |-> "live", started |-> TRUE, pc |-> IF created THEN "outer" ELSE "none",
                   sock |-> NoSocket]]
    /\ s_dns_server' = NewHandle

LowerFlag == dns' = [dns EXCEPT ![s_dns_server].started = FALSE]

M_DeleteTask == UNCHANGED dns                          \* left to end by itself
\* vTaskDelete leaves the task's socket as it is.
DeleteTask == dns' = [dns EXCEPT ![s_dns_server].pc = "gone", ![s_dns_server].sock = NoSocket]

FreeHandle ==
    /\ dns' = [dns EXCEPT ![s_dns_server].mem = "freed", ![s_dns_server].started = FALSE]
    /\ s_dns_server' = 0
-----------------------------------------------------------------------------
(* parse_dns_request, for the portal's one rule: "*" with the address of   *)
(* the access point.  A query has a length, an opcode, whether one of the  *)
(* bits Z, AD, CD or the high one of RCODE is set, questions (the lengths  *)
(* of a name's labels, and a type), and bytes after the questions.         *)

M_DNS_MAX_LEN == 128                                   \* as long as the receive buffer
DNS_MAX_LEN == 256
RxLen == 127           \* what recvfrom takes
Header == 12
AnswerLen == 16

NameBytes(labels) == FoldSeq(LAMBDA l, sum : sum + l + 1, 0, labels)
QuestionBytes(question) == NameBytes(question.labels) + 1 + 4
QuestionsEnd(query) ==
    Header + FoldSeq(LAMBDA q, sum : sum + QuestionBytes(q), 0, query.questions)
QueryLen(query) == QuestionsEnd(query) + query.extra

\* parse_dns_name: the name with its dots must fit 128 bytes; the root's empty
\* name is read one byte too far, so that its type is not what was asked.
NameFits(labels) == NameBytes(labels) <= 128
TypeRead(question) == IF question.labels = << >> THEN "other" ELSE question.type

NoReply == [len |-> 0, an_count |-> 0, records |-> << >>, at |-> 0]

ReplyLen(query) == Len(query.questions) * AnswerLen + QueryLen(query)

\* OPCODE_MASK is put on the flags as they came from the network: it covers the
\* bits beside the opcode.  The pointers stay on the first question and the
\* first answer; the other answers are zeros.
parse_dns_request(query) ==
    LET count == Len(query.questions)
    IN  IF \/ query.beside
           \/ ReplyLen(query) > DNS_MAX_LEN
           \/ count > 0 /\ ~NameFits(query.questions[1].labels)
        THEN NoReply
        ELSE [len |-> ReplyLen(query), an_count |-> count, at |-> QueryLen(query),
              records |-> [i \in 1 .. count |->
                              IF i = 1 /\ TypeRead(query.questions[1]) = "A" THEN "address" ELSE "zeros"]]
-----------------------------------------------------------------------------
DnsInit ==
    /\ dns = [n \in Handles |-> NoServer]
    /\ s_dns_server = 0
    /\ fds = [fd \in Fds |-> "free"]
    /\ port53 = NoSocket

DnsTypeOK ==
    /\ dns \in [Handles -> [mem: {"new", "live", "freed"}, started: BOOLEAN,
                            pc: {"none", "outer", "bind", "inner", "recv", "reply", "close", "again", "gone"},
                            sock: Fds \cup {NoSocket}]]
    /\ s_dns_server \in 0 .. MaxHandles
    /\ fds \in [Fds -> {"free", "http", "dns"}]
    /\ port53 \in Fds \cup {NoSocket}
=============================================================================
