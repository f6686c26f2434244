--------------------------- MODULE PortalServices ---------------------------
(***************************************************************************)
(* The two servers of a mode and the listener task that starts and stops   *)
(* them: what wifi_flags_listener_task (src/src/Wifi.c) does to the HTTP   *)
(* server and to the DNS server when it switches to STA, AP or captive     *)
(* mode (src/src/STA.c, AP.c, Captive.c), while application tasks register *)
(* handlers, clients come and go, and the DNS task runs.  Why the listener *)
(* switches is in WifiModes.                                               *)
(***************************************************************************)
EXTENDS HttpHandlers, DnsServer

CONSTANTS
    DriverErrors,   \* whether calls to the radio driver, to httpd_start and to mDNS may fail
    Queries         \* DNS queries, as parse_dns_request is tried on them

\* A query is what DnsServer says; a label has at least one byte, or the name ends.
ASSUME ServicesAssumption ==
    /\ DriverErrors \in BOOLEAN
    /\ Queries \subseteq [questions: Seq([labels: Seq(Nat \ {0}), type: {"A", "other"}]),
                          opcode: 0 .. 15, beside: BOOLEAN, extra: Nat]

VARIABLES
    listener,   \* where it is; what it switches to; what it has yet to register
    serving     \* history: how its last switch ended

vars == <<serverVars, registryVars, iface, appVars, dnsVars, socketVars, listener, serving>>

Targets == {"sta", "ap", "portal"}
Idle == [pc |-> "idle", target |-> "sta", todo |-> << >>, next |-> 1, bad |-> FALSE, failed |-> FALSE]
At(pc) == listener.pc = pc
To(pc) == listener' = [listener EXCEPT !.pc = pc]
End(how) == listener' = Idle /\ serving' = how
RuntimeComplete == At("register") /\ listener.todo = << >> /\ listener.target # "portal"
-----------------------------------------------------------------------------
(* A switch.                                                               *)

Begin(target) ==
    /\ At("idle")
    /\ target = "portal" => \E n \in Handles : dns[n].mem = "new"
    /\ listener' = [Idle EXCEPT !.pc = IF server THEN "stop" ELSE "lower", !.target = target]
    /\ serving' = "none"
    /\ UNCHANGED <<serverVars, registryVars, iface, appVars, dnsVars, socketVars>>

\* server_mgr_stop: the server is gone before its handle is NULL.
StopServer ==
    /\ At("stop")
    /\ httpd' = Stopped
    /\ fds' = [fd \in Fds |-> IF fds[fd] = "http" THEN "free" ELSE fds[fd]]
    /\ To("null")
    /\ UNCHANGED <<server, registryVars, iface, appVars, dnsVars, port53, serving>>

ForgetServer ==
    /\ At("null")
    /\ server' = FALSE
    /\ IF listener.failed THEN End("failed") ELSE To("lower") /\ UNCHANGED serving
    /\ UNCHANGED <<httpd, registryVars, iface, appVars, dnsVars, socketVars>>

\* stop_dns_server, by wifi_stop_captive or by wifi_start_captive.
NoDnsServer ==
    /\ At("lower") /\ s_dns_server = 0
    /\ To("mode")
    /\ UNCHANGED <<serverVars, registryVars, iface, appVars, dnsVars, socketVars, serving>>

LowerDnsFlag ==
    /\ At("lower") /\ s_dns_server # 0
    /\ LowerFlag
    /\ To("delete")
    /\ UNCHANGED <<serverVars, registryVars, iface, appVars, s_dns_server, socketVars, serving>>

\* Without a task the handle holds NULL, and vTaskDelete(NULL) ends the caller.
DeleteDnsTask ==
    /\ At("delete")
    /\ IF dns[s_dns_server].pc = "none"
       THEN To("deleted") /\ UNCHANGED dns
       ELSE To("free") /\ DeleteTask
    /\ UNCHANGED <<serverVars, registryVars, iface, appVars, s_dns_server, socketVars, serving>>

FreeDnsHandle ==
    /\ At("free")
    /\ FreeHandle
    /\ To("mode")
    /\ UNCHANGED <<serverVars, registryVars, iface, appVars, socketVars, serving>>

\* esp_wifi_set_mode, then esp_wifi_set_config.
SetMode ==
    /\ At("mode")
    /\ iface' = [iface EXCEPT !.mode = IF listener.target = "sta" THEN "sta" ELSE "apsta"]
    /\ To("config")
    /\ UNCHANGED <<serverVars, registryVars, appVars, dnsVars, socketVars, serving>>

SetConfig ==
    /\ At("config")
    /\ iface' = [iface EXCEPT !.ssid = CASE listener.target = "sta"    -> iface.ssid
                                         [] listener.target = "ap"     -> "user"
                                         [] listener.target = "portal" -> "portal"]
    /\ To("start")
    /\ UNCHANGED <<serverVars, registryVars, appVars, dnsVars, socketVars, serving>>

\* A call to the driver fails, or httpd_start does, or mDNS after the server
\* is complete.
DriverFails ==
    /\ \/ DriverErrors /\ listener.pc \in {"mode", "config", "start"}
       \/ DriverErrors /\ RuntimeComplete
       \/ At("start") /\ FreeFds = {}
    /\ End("failed")
    /\ UNCHANGED <<serverVars, registryVars, iface, appVars, dnsVars, socketVars>>

\* httpd_start takes a socket to listen; its others count with it.
StartServer ==
    /\ At("start") /\ FreeFds # {}
    /\ fds' = [fds EXCEPT ![Lowest(FreeFds)] = "http"]
    /\ server' = TRUE
    /\ httpd' = [up |-> TRUE, uris |-> << >>]
    /\ listener' = [listener EXCEPT !.pc = "register",
                        !.todo = IF listener.target = "portal" THEN portal_handlers ELSE runtime_handlers]
    /\ UNCHANGED <<registryVars, iface, appVars, dnsVars, port53, serving>>

\* The runtime's errors leave the server as it is, the portal's stop it.
Fail ==
    IF listener.target = "portal"
    THEN listener' = [listener EXCEPT !.pc = "stop", !.failed = TRUE] /\ UNCHANGED serving
    ELSE End("failed")

Registering(by) == At("register") /\ listener.todo # << >> /\ Head(listener.todo).by = by
Registered == listener' = [listener EXCEPT !.todo = Tail(@)] /\ UNCHANGED serving

RegisterBuiltIn ==
    /\ Registering("wifi")
    /\ httpd_register_uri_handler(Head(listener.todo))
    /\ IF Outcome(Head(listener.todo)) = "ok" THEN Registered ELSE Fail
    /\ UNCHANGED <<server, registryVars, iface, appVars, dnsVars, socketVars>>

\* register_custom_http_handlers reads the count each time around.
RegisterCustom ==
    /\ Registering("registry") /\ listener.next <= custom_handler_count
    /\ LET h == custom_handlers[listener.next]
       IN  /\ httpd_register_uri_handler(h)
           /\ listener' = [listener EXCEPT !.next = @ + 1, !.bad = @ \/ Outcome(h) # "ok"]
    /\ UNCHANGED <<server, registryVars, iface, appVars, dnsVars, socketVars, serving>>

CustomsRegistered ==
    /\ Registering("registry") /\ listener.next > custom_handler_count
    /\ IF listener.bad THEN Fail ELSE Registered
    /\ UNCHANGED <<serverVars, registryVars, iface, appVars, dnsVars, socketVars>>

RuntimeServes ==
    /\ RuntimeComplete
    /\ End(listener.target)
    /\ UNCHANGED <<serverVars, registryVars, iface, appVars, dnsVars, socketVars>>

StartDns ==
    /\ At("register") /\ listener.todo = << >> /\ listener.target = "portal"
    /\ \E created \in IF "task" \in NoMemory THEN BOOLEAN ELSE {TRUE} : start_dns_server(created)
    /\ End("portal")
    /\ UNCHANGED <<serverVars, registryVars, iface, appVars, socketVars>>

\* calloc fails.
DnsFails ==
    /\ At("register") /\ listener.todo = << >> /\ listener.target = "portal"
    /\ "calloc" \in NoMemory
    /\ Fail
    /\ UNCHANGED <<serverVars, registryVars, iface, appVars, dnsVars, socketVars>>

Switch ==
    \/ \E target \in Targets : Begin(target)
    \/ StopServer \/ ForgetServer
    \/ NoDnsServer \/ LowerDnsFlag \/ DeleteDnsTask \/ FreeDnsHandle
    \/ SetMode \/ SetConfig \/ DriverFails \/ StartServer
    \/ RegisterBuiltIn \/ RegisterCustom \/ CustomsRegistered
    \/ RuntimeServes \/ StartDns \/ DnsFails
-----------------------------------------------------------------------------
(* The HTTP server's clients.  One of its sockets listens.                 *)

HttpFds == {fd \in Fds : fds[fd] = "http"}

ClientConnects ==
    /\ httpd.up /\ FreeFds # {} /\ Cardinality(HttpFds) <= MaxSessions
    /\ fds' = [fds EXCEPT ![Lowest(FreeFds)] = "http"]
    /\ UNCHANGED <<serverVars, registryVars, iface, appVars, dnsVars, port53, listener, serving>>

ClientLeaves ==
    /\ httpd.up /\ Cardinality(HttpFds) > 1
    /\ \E fd \in HttpFds : fds' = [fds EXCEPT ![fd] = "free"]
    /\ UNCHANGED <<serverVars, registryVars, iface, appVars, dnsVars, port53, listener, serving>>

Application(a) == AppStep(a) /\ UNCHANGED <<dnsVars, socketVars, listener, serving>>
DnsTask(n) == TaskStep(n) /\ UNCHANGED <<serverVars, registryVars, iface, appVars, listener, serving>>
DnsTaskRuns(n) == TaskRuns(n) /\ UNCHANGED <<serverVars, registryVars, iface, appVars, listener, serving>>

Init ==
    /\ HandlersInit /\ DnsInit
    /\ listener = Idle
    /\ serving = "none"

Next ==
    \/ Switch \/ ClientConnects \/ ClientLeaves
    \/ \E a \in Apps : Application(a)
    \/ \E n \in Handles : DnsTask(n)

Spec == Init /\ [][Next]_vars

\* The scheduler runs a DNS task that is not waiting for a query.
FairSpec == Spec /\ \A n \in Handles : WF_vars(DnsTaskRuns(n))
-----------------------------------------------------------------------------
(* Properties.                                                             *)

TypeOK ==
    /\ HandlersTypeOK /\ DnsTypeOK
    /\ listener.pc \in {"idle", "stop", "null", "lower", "delete", "free", "deleted",
                        "mode", "config", "start", "register"}
    /\ listener.target \in Targets
    /\ listener.next \in 1 .. MaxCustom + 1
    /\ serving \in {"none", "failed"} \cup Targets

RuntimeServing == serving \in {"sta", "ap"}

\* A request for a handler reaches that handler and no other: once a runtime
\* server is complete, each built-in one, and each one the application was told
\* is registered, whenever it called (Server-mgr.c:89, "registers it
\* immediately if the server is running").
EveryUriOwnHandler ==
    RuntimeServing =>
        \A h \in BuiltIns \cup {h \in Customs : told[h] = "ok"} : Dispatched(h.uri, h.method) = h

\* The table has room for the built-in handlers and a full registry, in
\* whatever order they come (Server-mgr.c:33).
TableHasRoom ==
    /\ Registering("wifi") => Outcome(Head(listener.todo)) # "full"
    /\ \A a \in Apps : Calling(a, "register") /\ httpd.up => Outcome(app[a].h) # "full"

\* Across switches only the task of the portal's handle runs, and it never has
\* a handle whose memory was freed (dns_server.c:292).
OnlyNamedTaskRuns ==
    \A n \in Handles : Running(n) => n = s_dns_server /\ dns[n].mem = "live"

\* The DNS task never closes a socket that the HTTP server or one of its clients
\* has by now (dns_server.c:270), except after recvfrom failed (line 230).
HttpKeepsSockets ==
    [][\A n \in Handles : DnsTask(n) /\ ~TaskAt(n, "again") =>
        \A fd \in Fds : fds[fd] = "http" => fds'[fd] = "http"]_vars

\* The sockets that stop_dns_server leaves: no task has them.
LostSockets == {fd \in Fds : fds[fd] = "dns" /\ \A n \in Handles : dns[n].sock # fd}
Hijacks == \E n \in Handles : TaskAt(n, "recv") /\ dns[n].sock = port53

\* While the portal serves, and no earlier one has left its socket, the DNS task
\* comes back to wait for queries on the DNS port, also after a reply that could
\* not be sent and after an error of recvfrom (dns_server.c:258, 228).
PortalAnswers == serving = "portal" /\ LostSockets = {} ~> Hijacks \/ serving # "portal"

\* What a resolver finds where it looks for answers, right after the questions.
AnswersFound(query) ==
    LET reply == parse_dns_request(query)
    IN  IF reply.at = QuestionsEnd(query) THEN reply.records ELSE << >>
Received == {query \in Queries : QueryLen(query) <= RxLen}
AsksOneAddress(query) == Len(query.questions) = 1 /\ query.questions[1].type = "A"

WellAnswered(query) ==
    /\ AnswersFound(query) = <<"address">>
    /\ parse_dns_request(query).len <= DNS_MAX_LEN
Plain(query) ==
    /\ AsksOneAddress(query) /\ query.questions[1].labels # << >>
    /\ ~query.beside /\ query.extra = 0
PlainAreAnswered == \A query \in Received : Plain(query) => WellAnswered(query)

\* Whenever the DNS task replies: a query for one address that the receive buffer
\* takes, with the bits beside the opcode clear and nothing after the question,
\* gets the address, whatever the length of its name (dns_server.c:126).
PlainQueryAnswered == \A n \in Handles : TaskAt(n, "reply") => PlainAreAnswered
-----------------------------------------------------------------------------
(* What the code does not ensure.  TLC refutes each of these definitions,  *)
(* under the constants the README names; none is a property of a run.      *)

\* An error of one custom handler does not end the start ("Logs errors but
\* continues on failure", Server-mgr.c:141).
StartsComplete == [][CustomsRegistered => serving' # "failed"]_vars

\* The application does not use a handle whose server was stopped.
AppUsesLiveServer == \A a \in Apps : Calling(a, "register") => server = httpd.up

\* The portal's server has no handler of the application ("not captive portal
\* mode", Server-mgr.c:90).
PortalServesOnlyItself ==
    serving = "portal" => \A i \in DOMAIN httpd.uris : httpd.uris[i].by = "wifi"

\* Two tasks that register at once do not overrun the registry (line 108).
RegistryBounded == custom_handler_count <= MaxCustom

\* Every portal answers, not only the first ("hijack all DNS queries",
\* Captive.c:628).
EveryPortalAnswers == serving = "portal" ~> Hijacks \/ serving # "portal"

\* A task that has deleted itself is not deleted again (dns_server.c:293).
TaskDeletedOnce == At("delete") => dns[s_dns_server].pc # "gone"

\* Stopping the DNS server does not end the listener.
ListenerLives == ~At("deleted")

\* A socket is closed by the task that has it.
SocketsClosedOnce ==
    [][(\E n \in Handles : DnsTask(n)) =>
        \A fd \in Fds : fds[fd] = "http" => fds'[fd] = "http"]_vars

\* "will respond to all A queries (IPv4)" (dns_server.h:70).
StandardQueriesAnswered ==
    \A query \in Received :
        AsksOneAddress(query) /\ query.opcode = 0 => AnswersFound(query) = <<"address">>

\* Only standard queries are answered (dns_server.c:115).
OnlyStandardQueriesAnswered ==
    \A query \in Received : query.opcode # 0 => parse_dns_request(query) = NoReply

\* A reply holds as many answers as it says.
AnswersAsCounted ==
    \A query \in Received :
        LET reply == parse_dns_request(query)
        IN  reply.an_count = Cardinality({i \in DOMAIN reply.records : reply.records[i] = "address"})
=============================================================================
