------------------------ MODULE PortalServicesProofs ------------------------
(***************************************************************************)
(* Proofs about PortalServices, for every number of sockets, sessions,     *)
(* portals, tasks and handlers, every place in the registry, every query,  *)
(* and every error that the constants allow.                               *)
(***************************************************************************)
EXTENDS PortalServices, FiniteSetTheorems, SequenceTheorems, WellFoundedInduction, TLAPS

\* Of the tasks that register handlers only one at a time is between storing its
\* handler and counting it: with two, the registry is overrun (RegistryBounded).
\* One task alone always takes its turn.
TakeTurns == \A a, b \in Apps : Calling(a, "count") /\ Calling(b, "count") => a = b

\* What the listener may still have to register.
Entries == BuiltIns \cup {TheRegistry}
Places == {"idle", "stop", "null", "lower", "delete", "free", "deleted",
           "mode", "config", "start", "register"}
ListenerStates ==
    [pc: Places, target: Targets, todo: Seq(Entries), next: Nat \ {0},
     bad: BOOLEAN, failed: BOOLEAN]
DnsStates ==
    [mem: {"new", "live", "freed"}, started: BOOLEAN,
     pc: {"none", "outer", "bind", "inner", "recv", "reply", "close", "again", "gone"},
     sock: Fds \cup {NoSocket}]

DnsTypes ==
    /\ listener \in ListenerStates
    /\ dns \in [Handles -> DnsStates]
    /\ s_dns_server \in 0 .. MaxHandles
    /\ fds \in [Fds -> {"free", "http", "dns"}]
    /\ port53 \in Fds \cup {NoSocket}
-----------------------------------------------------------------------------
(* The DNS server.                                                         *)

\* The handle that the portal keeps names memory that is there, and its task is
\* the only one.
Named ==
    /\ s_dns_server # 0 => dns[s_dns_server].mem = "live"
    /\ \A n \in Handles : Running(n) => n = s_dns_server

\* The listener is past stop_dns_server when it starts anything, and inside it
\* when it deletes; a portal it has begun has a handle to come.
Switching ==
    /\ listener.pc \in {"mode", "config", "start", "register"} => s_dns_server = 0
    /\ listener.pc \in {"delete", "free"} => s_dns_server # 0
    /\ listener.pc = "free" => ~Running(s_dns_server)
    /\ listener.pc # "idle" /\ listener.target = "portal" => \E n \in Handles : dns[n].mem = "new"

\* A DNS task has the socket it is about to use, unless recvfrom failed.
HasSocket(n) == dns[n].pc \in {"bind", "inner", "recv", "reply", "close"}
Sockets == \A n \in Handles : HasSocket(n) => dns[n].sock \in Fds /\ fds[dns[n].sock] = "dns"

DnsInv == DnsTypes /\ Named /\ Switching /\ Sockets
-----------------------------------------------------------------------------
(* The registry and the table.                                             *)

AppStates ==
    [pc: {"idle", "count", "server", "mode", "ssid", "register"}, h: Customs \cup {NoHandler}]
RegistryTypes ==
    /\ custom_handlers \in [1 .. MaxCustom -> Customs \cup {NoHandler}]
    /\ custom_handler_count \in 0 .. MaxCustom
    /\ app \in [Apps -> AppStates]
    /\ told \in [Customs -> {"new", "ok", "no_mem", "error"}]
ServerTypes ==
    /\ server \in BOOLEAN
    /\ httpd \in [up: BOOLEAN, uris: Seq(Customs \cup BuiltIns)]
    /\ Len(httpd.uris) <= Capacity
    /\ iface \in [mode: {"null", "sta", "apsta"}, ssid: {"user", "portal"}]
    /\ listener.next \in 1 .. MaxCustom + 1
    /\ serving \in {"none", "failed"} \cup Targets

Stored == {custom_handlers[i] : i \in 1 .. MaxCustom}
Counted(h) == \E i \in 1 .. custom_handler_count : custom_handlers[i] = h
InTable(h) == \E i \in DOMAIN httpd.uris : httpd.uris[i] = h

\* The registry is filled from its start, an entry before it is counted.
Registry ==
    /\ \A i \in 1 .. MaxCustom :
           IF i <= custom_handler_count THEN custom_handlers[i] \in Customs
           ELSE \/ custom_handlers[i] = NoHandler
                \/ i = custom_handler_count + 1 /\ \E a \in Apps : Calling(a, "count")
    /\ \A a \in Apps : Calling(a, "count") =>
           custom_handler_count < MaxCustom /\ custom_handlers[custom_handler_count + 1] = app[a].h

\* What a task is registering, or was told is registered, is in the registry.
Registrations ==
    /\ \A a \in Apps : IF Calling(a, "idle") THEN app[a].h = NoHandler ELSE app[a].h \in Customs
    /\ \A a \in Apps : app[a].pc \in {"server", "mode", "ssid", "register"} => Counted(app[a].h)
    /\ \A h \in Customs : told[h] = "ok" => Counted(h)

\* The table of a server: nothing in it hides what comes later, and nothing else
\* is in it than built-in handlers and stored ones.
Table ==
    /\ \A i, j \in DOMAIN httpd.uris :
           i < j => ~Matches(httpd.uris[i], httpd.uris[j].uri, httpd.uris[j].method)
    /\ \A i \in DOMAIN httpd.uris : httpd.uris[i] \in BuiltIns \cup (Stored \ {NoHandler})

\* Where the listener is says whether there is a server, and in which mode.
Server ==
    /\ ~httpd.up => httpd.uris = << >>
    /\ httpd.up <=> server /\ listener.pc # "null"
    /\ listener.pc \in {"stop", "null", "register"} => server
    /\ listener.pc \in {"lower", "delete", "free", "deleted", "mode", "config", "start"} => ~server
    /\ listener.pc # "idle" => serving = "none"
    /\ RuntimeServing => server
    /\ listener.pc \notin {"stop", "null"} => ~listener.failed
    /\ listener.pc # "register" /\ ~listener.failed => listener.next = 1

Modes ==
    /\ serving = "sta" => iface.mode = "sta"
    /\ serving = "ap" => iface.ssid = "user"
    /\ listener.pc \in {"config", "start", "register"} /\ listener.target = "sta" => iface.mode = "sta"
    /\ listener.pc \in {"start", "register"} /\ listener.target = "ap" => iface.ssid = "user"

\* A runtime server has the handler, or the listener has still to come to it.
Filling == listener.pc = "register" /\ listener.target # "portal"
ToCome(entry) == \E i \in DOMAIN listener.todo : listener.todo[i] = entry
Awaited(h) == \E i \in listener.next .. custom_handler_count : custom_handlers[i] = h
CustomServed(h) ==
    /\ RuntimeServing => InTable(h)
    /\ Filling => InTable(h) \/ (ToCome(TheRegistry) /\ (listener.bad \/ Awaited(h)))

\* The application was told that the handler is registered, or is about to be.
Owed(h) == \/ told[h] = "ok"
           \/ \E a \in Apps : Calling(a, "ssid") /\ iface.ssid = "portal" /\ app[a].h = h

Served ==
    /\ \A h \in BuiltIns : (RuntimeServing => InTable(h)) /\ (Filling => InTable(h) \/ ToCome(h))
    /\ \A h \in Customs : Owed(h) => CustomServed(h)

RegInv == RegistryTypes /\ Registry /\ Registrations
ServerInv == ServerTypes /\ Server /\ Modes
-----------------------------------------------------------------------------
(* What the listener registers.                                            *)

\* The sequence that register_runtime_handlers goes through, in two parts.
Begun ==
    common_handlers \o captive_portal_handlers
    \o <<Wifi("/index.html", "GET"), Wifi("/wifi-status.json", "GET")>>
Rest ==
    CASE SdCard = "present" -> <<TheRegistry, Wifi("/*", "GET")>>
                                  \o (IF Spa THEN <<Wifi("/*", "HEAD")>> ELSE << >>)
         [] SdCard = "absent"  -> <<Wifi("/*", "GET")>>
         [] SdCard = "off"     -> << >>
\* The entries that occur in it.
Pages ==
    {Wifi("/restart", "POST"), Wifi("/captive", "GET"), Wifi("/captive", "POST"),
     Wifi("/captive.json", "GET"), Wifi("/scan.json", "GET"),
     Wifi("/index.html", "GET"), Wifi("/wifi-status.json", "GET")}
Listed == Pages \cup {TheRegistry, Wifi("/*", "GET"), Wifi("/*", "HEAD")}

\* What the first part holds, whatever the build.
LEMMA BegunHandlers ==
    /\ Begun \in Seq(Listed) /\ Len(Begun) = 7
    /\ Begun[1] = Wifi("/restart", "POST")
    /\ Begun[2] = Wifi("/captive", "GET") /\ Begun[3] = Wifi("/captive", "POST")
    /\ Begun[4] = Wifi("/captive.json", "GET") /\ Begun[5] = Wifi("/scan.json", "GET")
    /\ Begun[6] = Wifi("/index.html", "GET") /\ Begun[7] = Wifi("/wifi-status.json", "GET")
<1>1. common_handlers \in Seq(Listed) /\ Len(common_handlers) = 1
  BY DEF Listed, Pages, common_handlers
<1>2. captive_portal_handlers \in Seq(Listed) /\ Len(captive_portal_handlers) = 4
  BY DEF Listed, Pages, captive_portal_handlers
<1> DEFINE pages == <<Wifi("/index.html", "GET"), Wifi("/wifi-status.json", "GET")>>
           first == common_handlers \o captive_portal_handlers
<1>3. pages \in Seq(Listed) /\ Len(pages) = 2
  BY DEF Listed, Pages
<1>4. first \in Seq(Listed) /\ Len(first) = 5
      /\ first[1] = common_handlers[1]
      /\ first[2] = captive_portal_handlers[1] /\ first[3] = captive_portal_handlers[2]
      /\ first[4] = captive_portal_handlers[3] /\ first[5] = captive_portal_handlers[4]
  <2>1. /\ first \in Seq(Listed) /\ Len(first) = 1 + 4
        /\ \A i \in 1 .. 1 + 4 : first[i] = IF i <= 1 THEN common_handlers[i] ELSE captive_portal_handlers[i - 1]
    <3>1. /\ first \in Seq(Listed)
          /\ Len(first) = Len(common_handlers) + Len(captive_portal_handlers)
          /\ \A i \in 1 .. Len(common_handlers) + Len(captive_portal_handlers) :
                 first[i] = IF i <= Len(common_handlers) THEN common_handlers[i]
                            ELSE captive_portal_handlers[i - Len(common_handlers)]
      BY <1>1, <1>2, ConcatProperties, Zenon
    <3> HIDE DEF first
    <3> QED BY <3>1, <1>1, <1>2
  <2> HIDE DEF first
  <2> QED BY <2>1
<1>5. /\ Begun = first \o pages
  BY DEF Begun
<1> QED BY <1>1, <1>2, <1>3, <1>4, <1>5 DEF common_handlers, captive_portal_handlers

\* What the second part holds in each build.
LEMMA RestHandlers ==
    /\ Rest \in Seq(Listed)
    /\ SdCard = "present" => 
         /\ Len(Rest) = IF Spa THEN 3 ELSE 2
         /\ Rest[1] = TheRegistry /\ Rest[2] = Wifi("/*", "GET")
         /\ Spa => Rest[3] = Wifi("/*", "HEAD")
    /\ SdCard = "absent" => Rest = <<Wifi("/*", "GET")>>
    /\ SdCard = "off" => Rest = << >>
<1>1. CASE SdCard = "present" /\ Spa
  BY <1>1 DEF Listed, Pages, Rest
<1>2. CASE SdCard = "present" /\ ~Spa
  BY <1>2 DEF Listed, Pages, Rest
<1>3. CASE SdCard = "absent"
  BY <1>3 DEF Listed, Pages, Rest
<1>4. CASE SdCard = "off"
  BY <1>4 DEF Rest, Wifi, Listed, TheRegistry
<1> QED BY <1>1, <1>2, <1>3, <1>4, HandlersAssumption

\* The whole, place by place.
LEMMA RuntimeHandlers ==
    /\ runtime_handlers \in Seq(Listed)
    /\ \A i \in 1 .. 7 : i \in DOMAIN runtime_handlers /\ runtime_handlers[i] = Begun[i]
    /\ Len(runtime_handlers) = 7 + Len(Rest)
    /\ \A i \in 1 .. Len(Rest) : runtime_handlers[7 + i] = Rest[i]
<1>1. runtime_handlers = Begun \o Rest
  BY DEF runtime_handlers, Begun, Rest
<1>2. Begun \in Seq(Listed) /\ Rest \in Seq(Listed) /\ Len(Rest) \in Nat
  BY BegunHandlers, RestHandlers
<1>3. /\ runtime_handlers \in Seq(Listed) /\ Len(runtime_handlers) = 7 + Len(Rest)
      /\ \A i \in 1 .. 7 + Len(Rest) : runtime_handlers[i] = IF i <= 7 THEN Begun[i] ELSE Rest[i - 7]
  <2>1. /\ runtime_handlers \in Seq(Listed)
        /\ Len(runtime_handlers) = Len(Begun) + Len(Rest)
        /\ \A i \in 1 .. Len(Begun) + Len(Rest) :
               runtime_handlers[i] = IF i <= Len(Begun) THEN Begun[i] ELSE Rest[i - Len(Begun)]
    BY <1>1, <1>2, ConcatProperties, Zenon
  <2> QED BY <2>1, BegunHandlers
<1> QED BY <1>2, <1>3, LenProperties, SMTT(30)

\* The seven of every build are built in.
LEMMA PagesAreBuiltIn == Pages \subseteq BuiltIns
<1>1. \A h \in Pages : \E i \in 1 .. 7 : Begun[i] = h
  BY BegunHandlers DEF Pages
<1>2. \A h \in Pages : h.by = "wifi"
  BY DEF Pages, Wifi
<1> QED BY <1>1, <1>2, RuntimeHandlers DEF BuiltIns

\* All that is built in is the component's own; without the single-page build
\* there are eight.
LEMMA BuiltInTypes == 
   /\ \A h \in BuiltIns : h.by = "wifi"
   /\ BuiltIns \subseteq Listed \ {TheRegistry}
   /\ ~(SdCard = "present" /\ Spa) => BuiltIns \subseteq Pages \cup {Wifi("/*", "GET")}
<1>1. \A h \in BuiltIns : h.by = "wifi" /\ \E i \in DOMAIN runtime_handlers : runtime_handlers[i] = h
  BY DEF BuiltIns
<1>2. \A h \in BuiltIns : h \in Listed \ {TheRegistry}
  BY <1>1, RuntimeHandlers DEF TheRegistry
<1>3. ASSUME ~(SdCard = "present" /\ Spa), NEW h \in BuiltIns PROVE h \in Pages \cup {Wifi("/*", "GET")}
  <2>1. PICK i \in 1 .. 7 + Len(Rest) : runtime_handlers[i] = h
    BY <1>1, RuntimeHandlers, RestHandlers
  <2>2. CASE i \in 1 .. 7
    BY <2>1, <2>2, RuntimeHandlers, BegunHandlers DEF Pages
  <2>3. CASE i \in 8 .. 7 + Len(Rest)
    <3>1. h = Rest[i - 7] /\ i - 7 \in 1 .. Len(Rest)
      BY <2>1, <2>3, RuntimeHandlers, RestHandlers
    <3> QED BY <3>1, <1>2, <1>3, RestHandlers, HandlersAssumption
  <2> QED BY <2>1, <2>2, <2>3, RestHandlers
<1> QED BY <1>1, <1>2, <1>3

\* The listener only registers what is built in, and the registry.
LEMMA ListsTyped == runtime_handlers \in Seq(Entries) /\ portal_handlers \in Seq(Entries)
<1>1. \A i \in 1 .. 7 : runtime_handlers[i] \in Entries
  BY PagesAreBuiltIn, RuntimeHandlers, BegunHandlers DEF Entries, Pages
<1>2. \A i \in DOMAIN runtime_handlers : runtime_handlers[i] \in Listed
  BY RuntimeHandlers
<1>3. \A h \in Listed : h = TheRegistry \/ h.by = "wifi"
  BY DEF Listed, Pages, Wifi
<1>4. \A i \in DOMAIN runtime_handlers : runtime_handlers[i] \in Entries
  BY <1>2, <1>3 DEF Entries, BuiltIns
<1>5. common_handlers \in Seq(Entries) /\ captive_portal_handlers \in Seq(Entries)
  BY PagesAreBuiltIn DEF Pages, Entries, common_handlers, captive_portal_handlers
<1>6. runtime_handlers \in Seq(Entries)
  <2>1. runtime_handlers \in [1 .. Len(runtime_handlers) -> Entries] /\ Len(runtime_handlers) \in Nat
    BY <1>4, RuntimeHandlers, LenProperties
  <2> QED BY <2>1, SeqDef
<1> QED BY <1>5, <1>6 DEF portal_handlers
-----------------------------------------------------------------------------
(* The DNS server: proofs.                                                 *)

\* The lowest of some numbers is one of them.
LEMMA LowestIsMember ==
    ASSUME NEW S \in SUBSET Nat, S # {}
    PROVE  Lowest(S) \in S /\ \A y \in S : Lowest(S) <= y
<1> DEFINE R == OpToRel(<, Nat)
<1>1. \A x, y \in S : ~(<<y, x>> \in R) => x <= y
  BY DEF OpToRel
<1>2. IsWellFoundedOn(R, Nat)
  BY NatLessThanWellFounded
<1> HIDE DEF R
<1>3. \E x \in S : \A y \in S : ~(<<y, x>> \in R)
  BY <1>2, WFMin
<1> QED
  BY <1>1, <1>3 DEF Lowest

\* A socket that is made is one that was free.
LEMMA NewSocketIsFree == ASSUME FreeFds # {} PROVE Lowest(FreeFds) \in Fds /\ fds[Lowest(FreeFds)] = "free"
<1>1. FreeFds \in SUBSET Nat
  BY DnsAssumption DEF FreeFds, Fds
<1> QED
  BY <1>1, LowestIsMember DEF FreeFds

\* start_dns_server has a handle that was not used before.
LEMMA NewHandleIsNew ==
    ASSUME \E n \in Handles : dns[n].mem = "new"
    PROVE  NewHandle \in Handles /\ dns[NewHandle].mem = "new"
<1> DEFINE S == {n \in Handles : dns[n].mem = "new"}
<1>1. S \in SUBSET Nat /\ S # {}
  BY DnsAssumption DEF Handles
<1>2. Lowest(S) \in S /\ \A y \in S : Lowest(S) <= y
  BY <1>1, LowestIsMember
<1> QED
  BY <1>2 DEF NewHandle

\* A step of a DNS task changes that task and its socket alone.
LEMMA TaskEffect ==
    ASSUME DnsTypes, NEW n \in Handles, TaskStep(n)
    PROVE  /\ dns' \in [Handles -> DnsStates]
           /\ dns'[n].mem = dns[n].mem
           /\ \A m \in Handles : m # n => dns'[m] = dns[m]
           /\ s_dns_server' = s_dns_server
           /\ Running(n)
<1> USE DEF DnsTypes, DnsStates, TaskAt, TaskTo, Running
<1>1. CASE MakeSocket(n)
  BY <1>1, NewSocketIsFree, ZenonT(60) DEF MakeSocket
<1>2. CASE LeaveTask(n)
  BY <1>2, ZenonT(60) DEF LeaveTask
<1>3. CASE Bind(n)
  BY <1>3 DEF Bind
<1>4. CASE AwaitQuery(n)
  BY <1>4 DEF AwaitQuery
<1>5. CASE Receive(n)
  BY <1>5 DEF Receive
<1>6. CASE ReceiveFails(n)
  BY <1>6 DEF ReceiveFails
<1>7. CASE Reply(n)
  BY <1>7 DEF Reply
<1>8. CASE SendFails(n)
  BY <1>8 DEF SendFails
<1>9. CASE CloseSocket(n)
  BY <1>9 DEF CloseSocket
<1> QED BY <1>1, <1>2, <1>3, <1>4, <1>5, <1>6, <1>7, <1>8, <1>9 DEF TaskStep, TaskRuns

\* What it does to the sockets: it takes one that was free, and closes one, its own
\* unless recvfrom failed; and it goes on with the one it has.
LEMMA TaskSockets ==
    ASSUME DnsTypes, Sockets, NEW n \in Handles, TaskStep(n)
    PROVE  /\ fds' \in [Fds -> {"free", "http", "dns"}]
           /\ port53' \in Fds \cup {NoSocket}
           /\ \A fd \in Fds : fds[fd] = "http" /\ ~TaskAt(n, "again") => fds'[fd] = "http"
           /\ (dns[n].pc \in {"bind", "inner", "recv", "reply", "close"})' =>
                 dns'[n].sock \in Fds /\ fds'[dns'[n].sock] = "dns"
<1> USE DEF DnsTypes, DnsStates, TaskAt, TaskTo, Sockets, HasSocket
<1>1. CASE MakeSocket(n)
  BY <1>1, NewSocketIsFree DEF MakeSocket
<1>2. CASE LeaveTask(n)
  BY <1>2 DEF LeaveTask, socketVars
<1>3. CASE Bind(n)
  BY <1>3 DEF Bind
<1>4. CASE AwaitQuery(n)
  BY <1>4 DEF AwaitQuery, socketVars
<1>5. CASE Receive(n)
  BY <1>5 DEF Receive, socketVars
<1>6. CASE ReceiveFails(n)
  BY <1>6 DEF ReceiveFails, close
<1>7. CASE Reply(n)
  BY <1>7 DEF Reply, socketVars
<1>8. CASE SendFails(n)
  BY <1>8 DEF SendFails, socketVars
<1>9. CASE CloseSocket(n)
  BY <1>9 DEF CloseSocket, close
<1> QED BY <1>1, <1>2, <1>3, <1>4, <1>5, <1>6, <1>7, <1>8, <1>9 DEF TaskStep, TaskRuns

\* So a DNS task keeps the invariant.
LEMMA TaskKeepsDns == ASSUME DnsInv, NEW n \in Handles, DnsTask(n) PROVE DnsInv'
<1> USE DEF DnsInv
<1>1. /\ TaskStep(n) /\ UNCHANGED listener
  BY DEF DnsTask
<1>2. DnsTypes'
  BY <1>1, TaskEffect, TaskSockets DEF DnsTypes
<1>3. n = s_dns_server
  BY <1>1, TaskEffect DEF Named
<1>4. Named'
  BY <1>1, <1>3, TaskEffect DEF Named, Running
<1>5. Switching'
  <2>1. \A m \in Handles : dns'[m].mem = dns[m].mem
    BY <1>1, TaskEffect
  <2>2. listener.pc # "free"
    BY <1>1, <1>3, TaskEffect DEF Switching
  <2> QED BY <1>1, <2>1, <2>2, TaskEffect DEF Switching
<1>6. Sockets'
  <2>1. \A m \in Handles : m # n => ~HasSocket(m)
    BY <1>3 DEF Named, Running, HasSocket
  <2>2. \A m \in Handles : m # n => dns'[m].pc = dns[m].pc
    BY <1>1, TaskEffect
  <2>3. \A m \in Handles : m # n =>
            ~(dns'[m].pc \in {"bind", "inner", "recv", "reply", "close"})
    BY <2>1, <2>2 DEF HasSocket
  <2>4. (dns[n].pc \in {"bind", "inner", "recv", "reply", "close"})' =>
                 dns'[n].sock \in Fds /\ fds'[dns'[n].sock] = "dns"
    BY <1>1, TaskSockets
  <2> QED BY <2>3, <2>4 DEF Sockets, HasSocket
<1> QED BY <1>2, <1>4, <1>5, <1>6

\* The listener moves on, with what it has, or is done.
LEMMA ListenerGoes ==
    ASSUME listener \in ListenerStates, NEW pc \in Places, To(pc)
    PROVE  /\ listener' \in ListenerStates
           /\ listener'.pc = pc /\ listener'.target = listener.target
           /\ listener'.todo = listener.todo /\ listener'.next = listener.next
           /\ listener'.bad = listener.bad /\ listener'.failed = listener.failed
  BY DEF To, ListenerStates

LEMMA IdleState == Idle \in ListenerStates /\ Idle.pc = "idle" /\ Idle.target = "sta" /\ Idle.next = 1
                   /\ Idle.todo = << >> /\ Idle.bad = FALSE /\ Idle.failed = FALSE
<1>1. << >> \in Seq(Entries)
  BY EmptySeq
<1> QED BY <1>1 DEF Idle, ListenerStates, Places, Targets

LEMMA Fails ==
    ASSUME listener \in ListenerStates, Fail
    PROVE  /\ listener' \in ListenerStates
           /\ listener.target = "portal" =>
                 listener'.pc = "stop" /\ listener'.target = "portal" /\ listener'.failed /\ UNCHANGED serving
           /\ listener.target # "portal" => listener' = Idle /\ serving' = "failed"
<1>1. CASE listener.target = "portal"
  BY <1>1 DEF Fail, ListenerStates, Places
<1>2. CASE listener.target # "portal"
  BY <1>2, IdleState DEF Fail, End
<1> QED BY <1>1, <1>2

LEMMA GoesOnRegistering ==
    ASSUME listener \in ListenerStates, listener.todo # << >>, Registered
    PROVE  /\ listener' \in ListenerStates
           /\ listener'.pc = listener.pc /\ listener'.target = listener.target
           /\ listener'.todo = Tail(listener.todo) /\ listener'.next = listener.next
           /\ listener'.bad = listener.bad /\ listener'.failed = listener.failed
           /\ UNCHANGED serving
<1>1. Tail(listener.todo) \in Seq(Entries)
  BY HeadTailProperties DEF ListenerStates
<1> QED BY <1>1 DEF Registered, ListenerStates

\* What a step of the listener does to the DNS server, while it does nothing to
\* its handle and its task.
LEMMA ListenerKeepsDns ==
    ASSUME DnsInv, listener' \in ListenerStates, UNCHANGED dnsVars,
           fds' \in [Fds -> {"free", "http", "dns"}], port53' \in Fds \cup {NoSocket},
           \A fd \in Fds : fds[fd] = "dns" => fds'[fd] = "dns",
           listener'.pc \in {"mode", "config", "start", "register"} => s_dns_server = 0,
           listener'.pc \in {"delete", "free"} => s_dns_server # 0,
           listener'.pc = "free" => ~Running(s_dns_server),
           listener'.pc # "idle" /\ listener'.target = "portal" => \E n \in Handles : dns[n].mem = "new"
    PROVE  DnsInv'
  BY DEF DnsInv, DnsTypes, Named, Switching, Sockets, HasSocket, Running, dnsVars

LEMMA DnsHandleMoves ==
    ASSUME DnsInv, \/ LowerDnsFlag \/ DeleteDnsTask \/ FreeDnsHandle \/ StartDns
    PROVE  DnsInv'
<1> USE DEF At, DnsInv, DnsTypes, socketVars
<1>1. CASE LowerDnsFlag
  <2>1. s_dns_server \in Handles /\ UNCHANGED s_dns_server
    BY <1>1 DEF LowerDnsFlag, Handles
  <2>2. dns' \in [Handles -> DnsStates] /\ \A n \in Handles : dns'[n].mem = dns[n].mem
            /\ dns'[n].pc = dns[n].pc /\ dns'[n].sock = dns[n].sock
    BY <1>1, <2>1 DEF LowerDnsFlag, LowerFlag, DnsStates
  <2>3. /\ listener' \in ListenerStates /\ listener'.pc = "delete" /\ listener'.target = listener.target
        /\ listener.pc # "idle"
    BY <1>1, ListenerGoes DEF LowerDnsFlag, Places
  <2> QED
    BY <1>1, <2>1, <2>2, <2>3 DEF LowerDnsFlag, Named, Switching, Sockets, HasSocket, Running
<1>2. CASE DeleteDnsTask
  <2>1. s_dns_server \in Handles /\ UNCHANGED s_dns_server /\ dns[s_dns_server].mem = "live"
    BY <1>2 DEF DeleteDnsTask, Handles, Named, Switching
  <2>2. /\ dns' \in [Handles -> DnsStates] /\ \A n \in Handles : dns'[n].mem = dns[n].mem
        /\ \A n \in Handles \ {s_dns_server} : dns'[n] = dns[n]
        /\ dns'[s_dns_server].pc \in {"none", "gone"}
    BY <1>2, <2>1 DEF DeleteDnsTask, DeleteTask, DnsStates
  <2>3. /\ listener' \in ListenerStates /\ listener'.pc \in {"deleted", "free"}
        /\ listener'.target = listener.target /\ listener.pc # "idle"
    BY <1>2, ListenerGoes DEF DeleteDnsTask, Places
  <2> QED
    BY <1>2, <2>1, <2>2, <2>3 DEF DeleteDnsTask, Named, Switching, Sockets, HasSocket, Running
<1>3. CASE FreeDnsHandle
  <2>1. s_dns_server \in Handles /\ s_dns_server' = 0 /\ dns[s_dns_server].mem = "live"
    BY <1>3 DEF FreeDnsHandle, FreeHandle, Handles, Named, Switching
  <2>2. /\ dns' \in [Handles -> DnsStates]
        /\ \A n \in Handles \ {s_dns_server} : dns'[n] = dns[n]
        /\ \A n \in Handles : dns'[n].pc = dns[n].pc /\ dns'[n].sock = dns[n].sock
    BY <1>3, <2>1, ZenonT(60) DEF FreeDnsHandle, FreeHandle, DnsStates
  <2>3. /\ listener' \in ListenerStates /\ listener'.pc = "mode"
        /\ listener'.target = listener.target /\ listener.pc = "free"
    BY <1>3, ListenerGoes DEF FreeDnsHandle, Places
  <2>4. \A n \in Handles : ~Running(n)
    BY <2>3 DEF Named, Switching
  <2> QED
    BY <1>3, <2>1, <2>2, <2>3, <2>4, DnsAssumption
    DEF FreeDnsHandle, Named, Switching, Sockets, HasSocket, Running
<1>4. CASE StartDns
  <2>1. PICK created \in BOOLEAN : start_dns_server(created)
    BY <1>4 DEF StartDns
  <2>2. NewHandle \in Handles /\ listener' = Idle /\ s_dns_server = 0 /\ UNCHANGED <<fds, port53>>
    BY <1>4, NewHandleIsNew DEF StartDns, End, Switching
  <2>3. /\ dns' \in [Handles -> DnsStates] /\ s_dns_server' = NewHandle
        /\ \A n \in Handles \ {NewHandle} : dns'[n] = dns[n]
        /\ dns'[NewHandle].mem = "live" /\ dns'[NewHandle].pc \in {"outer", "none"}
    BY <2>1, <2>2 DEF start_dns_server, DnsStates
  <2>4. \A n \in Handles : ~Running(n)
    BY <2>2 DEF Named, Handles
  <2> QED
    BY <2>2, <2>3, <2>4, IdleState, DnsAssumption
    DEF Named, Switching, Sockets, HasSocket, Running, Handles
<1> QED BY <1>1, <1>2, <1>3, <1>4

\* The listener's steps stay within their types.
LEMMA ListenerTypes == ASSUME listener \in ListenerStates, Switch PROVE listener' \in ListenerStates
<1> USE IdleState
<1> USE DEF At, End
<1>1. ASSUME NEW target \in Targets, Begin(target) PROVE listener' \in ListenerStates
  BY <1>1 DEF Begin, ListenerStates, Places, Targets
<1>2. CASE StopServer \/ ForgetServer \/ NoDnsServer \/ LowerDnsFlag \/ DeleteDnsTask \/ FreeDnsHandle
           \/ SetMode \/ SetConfig
  BY <1>2, ListenerGoes
  DEF StopServer, ForgetServer, NoDnsServer, LowerDnsFlag, DeleteDnsTask, FreeDnsHandle, SetMode,
      SetConfig, Places
<1>3. CASE DriverFails \/ RuntimeServes \/ StartDns
  BY <1>3 DEF DriverFails, RuntimeServes, StartDns
<1>4. CASE StartServer
  BY <1>4, ListsTyped DEF StartServer, ListenerStates, Places
<1>5. CASE RegisterBuiltIn \/ CustomsRegistered \/ DnsFails
  BY <1>5, Fails, GoesOnRegistering DEF RegisterBuiltIn, CustomsRegistered, DnsFails, Registering
<1>6. CASE RegisterCustom
  <2> DEFINE bad == listener.bad \/ Outcome(custom_handlers[listener.next]) # "ok"
  <2>1. bad \in BOOLEAN
    OBVIOUS
  <2>2. listener' = [listener EXCEPT !.next = @ + 1, !.bad = bad]
    BY <1>6 DEF RegisterCustom
  <2> HIDE DEF bad
  <2>3. listener.next + 1 \in Nat \ {0}
    BY DEF ListenerStates
  <2> QED BY <2>1, <2>2, <2>3 DEF ListenerStates
<1> QED BY <1>1, <1>2, <1>3, <1>4, <1>5, <1>6 DEF Switch

\* The listener frees only sockets of the HTTP server, and takes free ones.
LEMMA ListenerSockets ==
    ASSUME DnsTypes, Switch
    PROVE  /\ fds' \in [Fds -> {"free", "http", "dns"}] /\ port53' \in Fds \cup {NoSocket}
           /\ \A fd \in Fds : fds[fd] = "dns" => fds'[fd] = "dns"
<1> USE DEF DnsTypes
<1>1. CASE StopServer
  BY <1>1 DEF StopServer
<1>2. CASE StartServer
  BY <1>2, NewSocketIsFree DEF StartServer
<1>3. CASE UNCHANGED socketVars
  BY <1>3 DEF socketVars
<1> QED BY <1>1, <1>2, <1>3
        DEF Switch, Begin, ForgetServer, NoDnsServer, LowerDnsFlag, DeleteDnsTask, FreeDnsHandle,
            SetMode, SetConfig, DriverFails, RegisterBuiltIn, RegisterCustom, CustomsRegistered,
            RuntimeServes, StartDns, DnsFails

\* So the listener keeps the invariant of the DNS server.
LEMMA SwitchKeepsDns == ASSUME DnsInv, Switch PROVE DnsInv'
<1> USE DEF At, DnsInv, DnsTypes, Switching
<1>t. /\ listener' \in ListenerStates
      /\ fds' \in [Fds -> {"free", "http", "dns"}] /\ port53' \in Fds \cup {NoSocket}
      /\ \A fd \in Fds : fds[fd] = "dns" => fds'[fd] = "dns"
  BY ListenerTypes, ListenerSockets
<1>1. ASSUME NEW target \in Targets, Begin(target) PROVE DnsInv'
  <2>1. listener'.pc \in {"stop", "lower"} /\ listener'.target = target
    BY <1>1, IdleState DEF Begin, ListenerStates
  <2> QED BY <1>t, <1>1, <2>1, ListenerKeepsDns DEF Begin, dnsVars
<1>2. CASE StopServer
  <2>1. listener'.pc = "null" /\ listener'.target = listener.target /\ UNCHANGED dnsVars
    BY <1>2, ListenerGoes DEF StopServer, Places
  <2> QED BY <1>t, <1>2, <2>1, ListenerKeepsDns DEF StopServer
<1>3. CASE ForgetServer
  <2>1. listener'.pc \in {"idle", "lower"} /\ listener'.target \in {listener.target, "sta"} /\ UNCHANGED dnsVars
    BY <1>3, ListenerGoes, IdleState DEF ForgetServer, Places, End
  <2> QED BY <1>t, <1>3, <2>1, ListenerKeepsDns DEF ForgetServer
<1>4. CASE NoDnsServer
  <2>1. listener'.pc = "mode" /\ listener'.target = listener.target /\ UNCHANGED dnsVars
    BY <1>4, ListenerGoes DEF NoDnsServer, Places
  <2> QED BY <1>t, <1>4, <2>1, ListenerKeepsDns DEF NoDnsServer
<1>5. CASE SetMode \/ SetConfig
  <2>1. listener'.pc \in {"config", "start"} /\ listener'.target = listener.target /\ UNCHANGED dnsVars
    BY <1>5, ListenerGoes DEF SetMode, SetConfig, Places
  <2> QED BY <1>t, <1>5, <2>1, ListenerKeepsDns DEF SetMode, SetConfig
<1>6. CASE DriverFails \/ RuntimeServes
  <2>1. listener'.pc = "idle" /\ UNCHANGED dnsVars
    BY <1>6, IdleState DEF DriverFails, RuntimeServes, End
  <2> QED BY <1>t, <2>1, ListenerKeepsDns
<1>7. CASE StartServer
  <2>1. listener'.pc = "register" /\ listener'.target = listener.target /\ UNCHANGED dnsVars
    BY <1>7 DEF StartServer, ListenerStates
  <2> QED BY <1>t, <1>7, <2>1, ListenerKeepsDns DEF StartServer
<1>8. CASE RegisterBuiltIn \/ CustomsRegistered \/ DnsFails
  <2>1. /\ listener.pc = "register" /\ UNCHANGED dnsVars
        /\ Fail \/ (Registered /\ listener.todo # << >>)
    BY <1>8 DEF RegisterBuiltIn, CustomsRegistered, DnsFails, Registering
  <2>2. \/ listener'.pc \in {"register", "stop"} /\ listener'.target = listener.target
        \/ listener'.pc = "idle"
    BY <2>1, Fails, GoesOnRegistering, IdleState
  <2> QED BY <1>t, <2>1, <2>2, ListenerKeepsDns
<1>9. CASE RegisterCustom
  <2>1. listener'.pc = listener.pc /\ listener'.target = listener.target /\ UNCHANGED dnsVars
    BY <1>9 DEF RegisterCustom, ListenerStates
  <2> QED BY <1>t, <1>9, <2>1, ListenerKeepsDns DEF RegisterCustom, Registering
<1> HIDE DEF DnsInv
<1> QED BY <1>1, <1>2, <1>3, <1>4, <1>5, <1>6, <1>7, <1>8, <1>9, DnsHandleMoves DEF Switch

LEMMA ClientsKeepDns == ASSUME DnsInv, ClientConnects \/ ClientLeaves PROVE DnsInv'
<1> USE DEF DnsInv, DnsTypes, Switching
<1>1. /\ fds' \in [Fds -> {"free", "http", "dns"}]
      /\ \A fd \in Fds : fds[fd] = "dns" => fds'[fd] = "dns"
  BY NewSocketIsFree DEF ClientConnects, ClientLeaves, HttpFds
<1> QED BY <1>1, ListenerKeepsDns DEF ClientConnects, ClientLeaves, dnsVars

LEMMA NextKeepsDns == ASSUME DnsInv, [Next]_vars PROVE DnsInv'
<1>1. ASSUME NEW a \in Apps, Application(a) PROVE DnsInv'
  <2>1. UNCHANGED <<dnsVars, socketVars, listener>>
    BY <1>1 DEF Application
  <2> QED BY <2>1, ListenerKeepsDns DEF DnsInv, DnsTypes, Switching, socketVars
<1>2. CASE UNCHANGED vars
  BY <1>2, ListenerKeepsDns DEF vars, DnsInv, DnsTypes, Switching, socketVars
<1> QED BY <1>1, <1>2, SwitchKeepsDns, ClientsKeepDns, TaskKeepsDns DEF Next

LEMMA DnsInvariant == Spec => []DnsInv
<1>1. Init => DnsInv
  BY DnsAssumption, IdleState
  DEF Init, DnsInit, DnsInv, DnsTypes, DnsStates, NoServer, Named, Switching, Sockets, HasSocket, Running, Handles
<1>2. DnsInv /\ [Next]_vars => DnsInv'
  BY NextKeepsDns
<1> QED BY <1>1, <1>2, PTL DEF Spec

\* Whatever the modes are switched to, and wherever stop_dns_server meets the task
\* (dns_server.c:292), only the task of the portal's handle runs, and the memory
\* of that handle is there.
THEOREM OnlyThePortalsTask == Spec => []OnlyNamedTaskRuns
<1>1. DnsInv => OnlyNamedTaskRuns
  BY DEF DnsInv, DnsTypes, Named, OnlyNamedTaskRuns, Handles
<1> QED BY <1>1, DnsInvariant, PTL

\* close() in the DNS task goes by the number, and numbers are used again: but the
\* task never closes a socket of the HTTP server (dns_server.c:270), unless
\* recvfrom failed and it has closed its own before.
THEOREM OthersSocketsAreKept == Spec => HttpKeepsSockets
<1> DEFINE Step == \A n \in Handles : DnsTask(n) /\ ~TaskAt(n, "again") =>
                       \A fd \in Fds : fds[fd] = "http" => fds'[fd] = "http"
<1>1. DnsInv /\ [Next]_vars => [Step]_vars
  BY TaskSockets DEF DnsInv, DnsTask
<1> QED BY <1>1, DnsInvariant, PTL DEF Spec, HttpKeepsSockets

-----------------------------------------------------------------------------
(* The registry: proofs.                                                   *)

LEMMA Distinct ==
    /\ \A h \in Customs : h # NoHandler /\ h.by = "app"
    /\ \A h \in BuiltIns : h # NoHandler
    /\ NoHandler \notin Customs
<1>1. NoHandler.by = "none"
  BY DEF NoHandler
<1> QED BY <1>1, HandlersAssumption, BuiltInTypes

\* The call of wifi_register_http_handler goes on, with the handler it has.
LEMMA AppGoes ==
    ASSUME app \in [Apps -> AppStates], NEW a \in Apps, AppGo(a, "count") \/ AppGo(a, "server")
           \/ AppGo(a, "mode") \/ AppGo(a, "ssid") \/ AppGo(a, "register")
    PROVE  /\ app' \in [Apps -> AppStates]
           /\ app'[a].h = app[a].h /\ app'[a].pc \in {"count", "server", "mode", "ssid", "register"}
           /\ \A b \in Apps \ {a} : app'[b] = app[b]
  BY DEF AppGo, AppStates

LEMMA AppReturns ==
    ASSUME RegistryTypes, NEW a \in Apps, app[a].h \in Customs,
           NEW result \in {"ok", "error"}, Return(a, result)
    PROVE  /\ app' \in [Apps -> AppStates]
           /\ app'[a].h = NoHandler /\ app'[a].pc = "idle"
           /\ \A b \in Apps \ {a} : app'[b] = app[b]
           /\ told' \in [Customs -> {"new", "ok", "no_mem", "error"}]
           /\ told'[app[a].h] = result
           /\ \A h \in Customs \ {app[a].h} : told'[h] = told[h]
  BY DEF Return, AppStates, RegistryTypes

\* A step that leaves the registry, and ends the call or takes it past the count.
LEMMA CallKeepsRegistry ==
    ASSUME RegInv, NEW a \in Apps, Counted(app[a].h), app[a].h \in Customs, ~Calling(a, "count"),
           UNCHANGED registryVars,
           \/ /\ AppGo(a, "mode") \/ AppGo(a, "ssid") \/ AppGo(a, "register")
              /\ UNCHANGED told
           \/ \E result \in {"ok", "error"} : Return(a, result)
    PROVE  RegInv'
<1> USE DEF RegInv, RegistryTypes, Calling
<1>1. /\ app' \in [Apps -> AppStates]
      /\ \A b \in Apps \ {a} : app'[b] = app[b]
      /\ \/ app'[a].h = NoHandler /\ app'[a].pc = "idle"
         \/ app'[a].h = app[a].h /\ app'[a].pc \in {"mode", "ssid", "register"}
      /\ told' \in [Customs -> {"new", "ok", "no_mem", "error"}]
      /\ \A h \in Customs \ {app[a].h} : told'[h] = told[h]
  <2>1. CASE AppGo(a, "mode") \/ AppGo(a, "ssid") \/ AppGo(a, "register")
    BY <2>1, AppGoes, AppReturns DEF AppGo, AppStates
  <2>2. CASE \E result \in {"ok", "error"} : Return(a, result)
    BY <2>2, AppReturns
  <2> QED BY <2>1, <2>2
<1>2. \A h : Counted(h) => Counted(h)'
  BY DEF Counted, registryVars
<1>3. Registry'
  <2>1. \A b \in Apps : Calling(b, "count") <=> Calling(b, "count")'
    BY <1>1
  <2>2. \A b \in Apps : Calling(b, "count") => app'[b].h = app[b].h
    BY <1>1
  <2> QED BY <2>1, <2>2 DEF Registry, registryVars
<1>4. Registrations'
  BY <1>1, <1>2 DEF Registrations
<1> QED BY <1>1, <1>3, <1>4 DEF registryVars

LEMMA AppKeepsRegistry ==
    ASSUME TakeTurns, TakeTurns', RegInv, NEW a \in Apps, AppStep(a) PROVE RegInv'
<1> USE DEF RegInv, RegistryTypes, Calling
<1>0. ASSUME NEW b \in Apps, b # a
      PROVE  /\ app[b].pc = "count" => app[a].pc # "count"
             /\ app'[b].pc = "count" => app'[a].pc # "count"
  BY <1>0 DEF TakeTurns
<1>1. ASSUME NEW h \in Customs, RegistryFull(a, h) PROVE RegInv'
  BY <1>1 DEF RegistryFull, Registry, Registrations, Counted, registryVars
<1>2. ASSUME NEW h \in Customs, StoreHandler(a, h) PROVE RegInv'
  <2>1. /\ custom_handler_count < MaxCustom /\ custom_handler_count + 1 \in 1 .. MaxCustom
        /\ app[a].pc = "idle" /\ UNCHANGED <<told, custom_handler_count>>
    BY <1>2, HandlersAssumption DEF StoreHandler, MayCall
  <2>2. /\ custom_handlers' \in [1 .. MaxCustom -> Customs \cup {NoHandler}]
        /\ custom_handlers'[custom_handler_count + 1] = h
        /\ \A i \in 1 .. MaxCustom : i # custom_handler_count + 1 => custom_handlers'[i] = custom_handlers[i]
    BY <1>2, <2>1 DEF StoreHandler
  <2>3. /\ app' \in [Apps -> AppStates] /\ app'[a].pc = "count" /\ app'[a].h = h
    BY <1>2 DEF StoreHandler, AppStates
  <2>others. \A b \in Apps \ {a} : app'[b] = app[b] /\ app'[b].pc # "count"
    BY <1>0, <1>2, <2>3 DEF StoreHandler
  <2>4. \A g : Counted(g) => Counted(g)'
    BY <2>1, <2>2, HandlersAssumption DEF Counted
  <2>5. Registry'
    <3>1. \A i \in 1 .. MaxCustom :
              IF i <= custom_handler_count' THEN custom_handlers'[i] \in Customs
              ELSE custom_handlers'[i] = NoHandler \/ i = custom_handler_count' + 1
      BY <2>1, <2>2 DEF Registry
    <3>2. \A b \in Apps : app'[b].pc = "count" => b = a
      BY <2>others
    <3> QED BY <2>1, <2>2, <2>3, <3>1, <3>2 DEF Registry
  <2>6. Registrations'
    BY <2>1, <2>3, <2>others, <2>4 DEF Registrations
  <2> QED BY <2>1, <2>2, <2>3, <2>5, <2>6
<1>3. CASE CountHandler(a)
  <2>1. /\ app[a].pc = "count" /\ AppGo(a, "server") /\ UNCHANGED <<told, custom_handlers>>
        /\ custom_handler_count' = custom_handler_count + 1
    BY <1>3 DEF CountHandler
  <2>2. /\ custom_handler_count < MaxCustom /\ custom_handler_count' \in 0 .. MaxCustom
        /\ custom_handlers[custom_handler_count + 1] = app[a].h /\ app[a].h \in Customs
    BY <2>1, HandlersAssumption DEF Registry, Registrations
  <2>3. app' \in [Apps -> AppStates] /\ app'[a].pc = "server" /\ app'[a].h = app[a].h
    BY <2>1 DEF AppGo, AppStates
  <2>others. \A b \in Apps \ {a} : app'[b] = app[b] /\ app'[b].pc # "count"
    BY <1>0, <2>1 DEF AppGo
  <2>4. \A g : Counted(g) => Counted(g)'
    BY <2>1, <2>2, HandlersAssumption DEF Counted
  <2>5. Counted(app[a].h)'
    BY <2>1, <2>2, <2>3, HandlersAssumption DEF Counted
  <2>6. Registry'
    <3>1. \A i \in 1 .. MaxCustom :
              IF i <= custom_handler_count' THEN custom_handlers'[i] \in Customs
              ELSE custom_handlers'[i] = NoHandler
      BY <2>1, <2>2, HandlersAssumption DEF Registry
    <3>2. \A b \in Apps : app'[b].pc # "count"
      BY <2>3, <2>others
    <3> QED BY <3>1, <3>2 DEF Registry
  <2>7. Registrations'
    BY <2>1, <2>2, <2>3, <2>others, <2>4, <2>5 DEF Registrations
  <2> QED BY <2>1, <2>2, <2>3, <2>6, <2>7
<1>4. CASE LookForServer(a) \/ ReadMode(a) \/ ReadSsid(a) \/ RegisterNow(a)
  <2>1. /\ app[a].pc \in {"server", "mode", "ssid", "register"} /\ UNCHANGED registryVars
        /\ \/ (AppGo(a, "mode") \/ AppGo(a, "ssid") \/ AppGo(a, "register")) /\ UNCHANGED told
           \/ \E result \in {"ok", "error"} : Return(a, result)
    <3>1. CASE LookForServer(a)
      BY <3>1 DEF LookForServer
    <3>2. CASE ReadMode(a)
      BY <3>2 DEF ReadMode
    <3>3. CASE ReadSsid(a)
      BY <3>3 DEF ReadSsid
    <3>4. CASE RegisterNow(a)
      BY <3>4 DEF RegisterNow
    <3> QED BY <1>4, <3>1, <3>2, <3>3, <3>4
  <2>2. Counted(app[a].h) /\ app[a].h \in Customs
    BY <2>1 DEF Registrations
  <2> HIDE DEF RegInv
  <2> QED BY <2>1, <2>2, CallKeepsRegistry
<1> QED BY <1>1, <1>2, <1>3, <1>4 DEF AppStep

\* Nobody else touches the registry.
LEMMA OnlyAppsRegister == ASSUME [Next]_vars PROVE (\E a \in Apps : Application(a)) \/ UNCHANGED <<registryVars, appVars>>
  BY DEF Next, vars, Switch, Begin, StopServer, ForgetServer, NoDnsServer, LowerDnsFlag, DeleteDnsTask,
         FreeDnsHandle, SetMode, SetConfig, DriverFails, StartServer, RegisterBuiltIn, RegisterCustom,
         CustomsRegistered, RuntimeServes, StartDns, DnsFails, ClientConnects, ClientLeaves, DnsTask

LEMMA NextKeepsRegistry == ASSUME TakeTurns, TakeTurns', RegInv, [Next]_vars PROVE RegInv'
<1>1. CASE UNCHANGED <<registryVars, appVars>>
  BY <1>1 DEF RegInv, RegistryTypes, Registry, Registrations, Counted, Calling, registryVars, appVars
<1>2. ASSUME NEW a \in Apps, Application(a) PROVE RegInv'
  BY <1>2, AppKeepsRegistry DEF Application
<1> QED BY <1>1, <1>2, OnlyAppsRegister

-----------------------------------------------------------------------------
(* The server: proofs.                                                     *)

\* httpd_register_uri_handler puts a handler at the end, or changes nothing.
LEMMA RegisterEffect ==
    ASSUME ServerTypes, NEW h \in Customs \cup BuiltIns, httpd_register_uri_handler(h)
    PROVE  /\ httpd' \in [up: BOOLEAN, uris: Seq(Customs \cup BuiltIns)]
           /\ Len(httpd'.uris) <= Capacity
           /\ httpd'.up = httpd.up
           /\ Outcome(h) = "ok" => httpd'.uris = Append(httpd.uris, h)
           /\ Outcome(h) # "ok" => httpd'.uris = httpd.uris
<1> USE DEF ServerTypes, httpd_register_uri_handler
<1>1. CASE Outcome(h) = "ok"
  <2>1. Len(httpd.uris) < Capacity /\ Len(httpd.uris) \in Nat /\ Capacity \in Nat
    BY <1>1, HandlersAssumption, LenProperties DEF Outcome, Capacity
  <2>2. /\ Append(httpd.uris, h) \in Seq(Customs \cup BuiltIns)
        /\ Len(Append(httpd.uris, h)) = Len(httpd.uris) + 1
    BY AppendProperties
  <2>3. httpd' = [httpd EXCEPT !.uris = Append(httpd.uris, h)]
    BY <1>1
  <2>4. httpd'.uris = Append(httpd.uris, h) /\ httpd'.up = httpd.up
    BY <2>3
  <2>5. httpd' \in [up: BOOLEAN, uris: Seq(Customs \cup BuiltIns)]
    BY <2>2, <2>3
  <2>6. Len(httpd'.uris) <= Capacity
    BY <2>1, <2>2, <2>4
  <2> QED BY <1>1, <2>4, <2>5, <2>6
<1>2. CASE Outcome(h) # "ok"
  BY <1>2
<1> QED BY <1>1, <1>2

\* What is registered at each place is a handler.
LEMMA EntryIsHandler ==
    ASSUME DnsTypes, RegInv
    PROVE  /\ Registering("wifi") => Head(listener.todo) \in BuiltIns
           /\ listener.next \in 1 .. custom_handler_count => custom_handlers[listener.next] \in Customs
           /\ \A a \in Apps : Calling(a, "register") => app[a].h \in Customs
<1>1. Registering("wifi") => Head(listener.todo) \in BuiltIns
  <2>1. Registering("wifi") => Head(listener.todo) \in Entries
    BY HeadTailProperties DEF Registering, DnsTypes, ListenerStates
  <2> QED BY <2>1 DEF Registering, Entries, TheRegistry
<1>2. listener.next \in 1 .. custom_handler_count => custom_handlers[listener.next] \in Customs
  BY HandlersAssumption DEF RegInv, RegistryTypes, Registry
<1> QED BY <1>1, <1>2 DEF RegInv, Registrations, Calling

LEMMA AppKeepsServer == ASSUME DnsTypes, RegInv, ServerInv, NEW a \in Apps, Application(a) PROVE ServerInv'
<1> USE DEF ServerInv, Server, Modes, RuntimeServing
<1>1. UNCHANGED <<server, iface, listener, serving>>
  BY DEF Application, AppStep, RegistryFull, StoreHandler, CountHandler, LookForServer, ReadMode, ReadSsid,
         RegisterNow, serverVars
<1>2. CASE UNCHANGED httpd
  BY <1>1, <1>2 DEF ServerTypes
<1>3. CASE RegisterNow(a) /\ httpd.up
  <2>1. httpd_register_uri_handler(app[a].h) /\ app[a].h \in Customs
    BY <1>3, EntryIsHandler DEF RegisterNow
  <2> QED BY <1>1, <1>3, <2>1, RegisterEffect DEF ServerTypes
<1> QED BY <1>2, <1>3 DEF Application, AppStep, RegistryFull, StoreHandler, CountHandler, LookForServer,
         ReadMode, ReadSsid, RegisterNow, serverVars

LEMMA SwitchKeepsServer == ASSUME DnsTypes, RegInv, ServerInv, Switch PROVE ServerInv'
<1> USE DEF ServerInv, Server, Modes, RuntimeServing, At, ServerTypes, serverVars
<1>0. listener \in ListenerStates
  BY DEF DnsTypes
<1>1. ASSUME NEW target \in Targets, Begin(target) PROVE ServerInv'
  <2>1. /\ listener'.pc = (IF server THEN "stop" ELSE "lower") /\ listener'.target = target
        /\ listener'.next = 1 /\ ~listener'.failed
    BY <1>1, IdleState DEF Begin, ListenerStates
  <2> QED BY <1>1, <2>1, HandlersAssumption DEF Begin
<1>2. CASE StopServer
  <2>1. /\ listener'.pc = "null" /\ listener'.next = listener.next /\ listener.pc = "stop"
        /\ listener'.failed = listener.failed
    BY <1>0, <1>2, ListenerGoes DEF StopServer, Places
  <2>2. /\ httpd' = Stopped /\ Stopped.up = FALSE /\ Stopped.uris = << >>
        /\ Stopped \in [up: BOOLEAN, uris: Seq(Customs \cup BuiltIns)] /\ Len(Stopped.uris) <= Capacity
    BY <1>2, EmptySeq, HandlersAssumption DEF StopServer, Stopped, Capacity
  <2> QED BY <1>2, <2>1, <2>2 DEF StopServer
<1>3. CASE ForgetServer
  <2>1. CASE listener.failed
    <3>1. listener' = Idle /\ serving' = "failed" /\ server' = FALSE /\ UNCHANGED <<httpd, iface>>
      BY <1>3, <2>1 DEF ForgetServer, End
    <3>2. ~httpd.up
      BY <1>3 DEF ForgetServer
    <3>3. ServerTypes'
      <4>1. listener'.next = 1 /\ 1 \in 1 .. MaxCustom + 1
        BY <3>1, IdleState, HandlersAssumption
      <4>2. server' \in BOOLEAN
        BY <3>1
      <4>3. Capacity' = Capacity /\ BuiltIns' = BuiltIns
        OBVIOUS
      <4> QED BY <3>1, <4>1, <4>2, <4>3
    <3>4. Server'
      BY <3>1, <3>2, IdleState
    <3>5. Modes'
      BY <3>1, IdleState
    <3> QED BY <3>3, <3>4, <3>5
  <2>2. CASE ~listener.failed
    <3>1. listener'.pc = "lower" /\ listener'.next = listener.next /\ UNCHANGED serving
          /\ ~listener'.failed /\ listener.next = 1
      BY <1>0, <1>3, <2>2, ListenerGoes DEF ForgetServer, Places
    <3> QED BY <1>3, <3>1, HandlersAssumption DEF ForgetServer
  <2> QED BY <2>1, <2>2
<1>4. CASE NoDnsServer \/ LowerDnsFlag \/ DeleteDnsTask \/ FreeDnsHandle
  <2>1. /\ listener'.pc \in {"mode", "delete", "deleted", "free"} /\ listener'.next = listener.next
        /\ listener'.failed = listener.failed
        /\ listener.pc \in {"lower", "delete", "free"} /\ UNCHANGED <<serverVars, iface, serving>>
    BY <1>0, <1>4, ListenerGoes DEF NoDnsServer, LowerDnsFlag, DeleteDnsTask, FreeDnsHandle, Places
  <2> QED BY <2>1
<1>5. CASE SetMode
  <2>1. /\ listener'.pc = "config" /\ listener'.next = listener.next
        /\ listener'.failed = listener.failed /\ listener'.target = listener.target /\ listener.pc = "mode"
    BY <1>0, <1>5, ListenerGoes DEF SetMode, Places
  <2>2. /\ iface'.mode = (IF listener.target = "sta" THEN "sta" ELSE "apsta")
        /\ iface' \in [mode: {"null", "sta", "apsta"}, ssid: {"user", "portal"}]
    BY <1>5 DEF SetMode
  <2> QED BY <1>5, <2>1, <2>2 DEF SetMode
<1>6. CASE SetConfig
  <2>1. /\ listener'.pc = "start" /\ listener'.next = listener.next
        /\ listener'.failed = listener.failed /\ listener'.target = listener.target /\ listener.pc = "config"
    BY <1>0, <1>6, ListenerGoes DEF SetConfig, Places
  <2>2. /\ iface'.mode = iface.mode
        /\ listener.target = "ap" => iface'.ssid = "user"
        /\ iface' \in [mode: {"null", "sta", "apsta"}, ssid: {"user", "portal"}]
    <3>1. listener.target \in {"sta", "ap", "portal"}
      BY <1>0 DEF ListenerStates, Targets
    <3> QED BY <1>6, <3>1 DEF SetConfig
  <2> QED BY <1>6, <2>1, <2>2 DEF SetConfig
<1>7. CASE DriverFails
  <2>1. listener' = Idle /\ serving' = "failed" /\ UNCHANGED <<serverVars, iface>>
        /\ listener.pc \in {"mode", "config", "start", "register"}
    BY <1>7 DEF DriverFails, RuntimeComplete, End
  <2> QED BY <2>1, IdleState, HandlersAssumption
<1>8. CASE StartServer
  <2>1. /\ listener'.pc = "register" /\ listener'.next = listener.next /\ listener'.target = listener.target
        /\ listener'.failed = listener.failed /\ listener.pc = "start"
    BY <1>0, <1>8 DEF StartServer, ListenerStates
  <2>2. /\ httpd' \in [up: BOOLEAN, uris: Seq(Customs \cup BuiltIns)]
        /\ httpd'.up /\ Len(httpd'.uris) <= Capacity /\ server'
    BY <1>8, EmptySeq, HandlersAssumption DEF StartServer, Capacity
  <2> QED BY <1>8, <2>1, <2>2 DEF StartServer
<1>9. CASE RegisterBuiltIn \/ CustomsRegistered \/ DnsFails
  <2>1. /\ listener.pc = "register" /\ UNCHANGED <<server, iface>>
        /\ Fail \/ (Registered /\ listener.todo # << >>)
    BY <1>9 DEF RegisterBuiltIn, CustomsRegistered, DnsFails, Registering
  <2>2. /\ httpd' \in [up: BOOLEAN, uris: Seq(Customs \cup BuiltIns)]
        /\ Len(httpd'.uris) <= Capacity /\ httpd'.up = httpd.up
    BY <1>9, EntryIsHandler, RegisterEffect DEF RegisterBuiltIn, CustomsRegistered, DnsFails
  <2>3. \/ /\ listener'.pc = "register" /\ listener'.target = listener.target /\ UNCHANGED serving
           /\ listener'.next = listener.next /\ listener'.failed = listener.failed
        \/ listener'.pc = "stop" /\ listener'.failed /\ listener'.next = listener.next /\ UNCHANGED serving
        \/ listener' = Idle /\ serving' = "failed"
    <3>1. CASE Registered /\ listener.todo # << >>
      BY <1>0, <2>1, <3>1, GoesOnRegistering
    <3>2. CASE Fail /\ listener.target = "portal"
      BY <1>0, <2>1, <3>2, Fails DEF Fail, ListenerStates
    <3>3. CASE Fail /\ listener.target # "portal"
      BY <1>0, <2>1, <3>3, Fails
    <3> QED BY <2>1, <3>1, <3>2, <3>3
  <2> QED BY <2>1, <2>2, <2>3, IdleState, HandlersAssumption
<1>10. CASE RegisterCustom
  <2>1. /\ listener.pc = "register" /\ listener.next \in 1 .. custom_handler_count
        /\ UNCHANGED <<server, iface, serving>>
    BY <1>10 DEF RegisterCustom, Registering, RegInv, RegistryTypes
  <2>2. /\ listener'.pc = "register" /\ listener'.target = listener.target
        /\ listener'.next = listener.next + 1 /\ listener'.failed = listener.failed
    BY <1>0, <1>10, <2>1 DEF RegisterCustom, ListenerStates
  <2>3. /\ httpd' \in [up: BOOLEAN, uris: Seq(Customs \cup BuiltIns)]
        /\ Len(httpd'.uris) <= Capacity /\ httpd'.up = httpd.up
    BY <1>10, <2>1, EntryIsHandler, RegisterEffect DEF RegisterCustom
  <2>4. listener'.next \in 1 .. MaxCustom + 1
    BY <2>1, <2>2, HandlersAssumption DEF RegInv, RegistryTypes
  <2> QED BY <2>1, <2>2, <2>3, <2>4
<1>11. CASE RuntimeServes
  <2>1. /\ listener.pc = "register" /\ listener.target \in {"sta", "ap"}
        /\ listener' = Idle /\ serving' = listener.target /\ UNCHANGED <<serverVars, iface>>
    BY <1>0, <1>11 DEF RuntimeServes, RuntimeComplete, End, ListenerStates, Targets
  <2> QED BY <2>1, IdleState, HandlersAssumption DEF Targets
<1>12. CASE StartDns
  <2>1. /\ listener.pc = "register"
        /\ listener' = Idle /\ serving' = "portal" /\ UNCHANGED <<serverVars, iface>>
    BY <1>12 DEF StartDns, End
  <2> QED BY <2>1, IdleState, HandlersAssumption DEF Targets
<1> HIDE DEF ServerInv
<1> QED BY <1>1, <1>2, <1>3, <1>4, <1>5, <1>6, <1>7, <1>8, <1>9, <1>10, <1>11, <1>12 DEF Switch

LEMMA NextKeepsServer == ASSUME DnsTypes, RegInv, ServerInv, [Next]_vars PROVE ServerInv'
<1>1. CASE UNCHANGED <<serverVars, iface, listener, serving>>
  BY <1>1 DEF ServerInv, ServerTypes, Server, Modes, RuntimeServing, serverVars
<1> QED BY <1>1, AppKeepsServer, SwitchKeepsServer
        DEF Next, ClientConnects, ClientLeaves, DnsTask, vars

\* The types and the registry, given that the tasks that register take turns.
Sound == DnsInv /\ RegInv /\ ServerInv

LEMMA InitSound == Init => Sound
<1> SUFFICES ASSUME Init PROVE Sound
  OBVIOUS
<1>1. DnsInv
  BY DnsAssumption, IdleState
  DEF Init, DnsInit, DnsInv, DnsTypes, DnsStates, NoServer, Named, Switching, Sockets, HasSocket, Running, Handles
<1>2. RegInv
  BY HandlersAssumption
  DEF Init, HandlersInit, RegInv, RegistryTypes, AppStates, Registry, Registrations, Calling, Counted
<1>3. ServerInv
  <2>1. /\ httpd = Stopped /\ Stopped.up = FALSE /\ Stopped.uris = << >>
        /\ Stopped \in [up: BOOLEAN, uris: Seq(Customs \cup BuiltIns)] /\ Len(Stopped.uris) <= Capacity
    BY EmptySeq, HandlersAssumption DEF Init, HandlersInit, Stopped, Capacity
  <2>2. ServerTypes
    <3>1. listener.next = 1 /\ 1 \in 1 .. MaxCustom + 1
      BY IdleState, HandlersAssumption DEF Init
    <3>2. server \in BOOLEAN
      BY DEF Init, HandlersInit
    <3>3. /\ iface \in [mode: {"null", "sta", "apsta"}, ssid: {"user", "portal"}]
          /\ serving \in {"none", "failed"} \cup Targets
      BY DEF Init, HandlersInit
    <3> QED BY <2>1, <3>1, <3>2, <3>3 DEF ServerTypes
  <2> QED BY <2>1, <2>2, IdleState DEF Init, HandlersInit, ServerInv, Server, Modes, RuntimeServing
<1> QED BY <1>1, <1>2, <1>3 DEF Sound

LEMMA NextSound == ASSUME TakeTurns, TakeTurns', Sound, [Next]_vars PROVE Sound'
  BY NextKeepsDns, NextKeepsRegistry, NextKeepsServer DEF Sound, DnsInv

\* Every variable has its type: in particular the registry's count stays within
\* its array, and the listener's walk through it too (Server-mgr.c:104, 150), if
\* the tasks that register take turns at storing.
THEOREM ServicesTypeCorrect == Spec /\ []TakeTurns => []TypeOK
<1>1. Sound => TypeOK
  BY DEF Sound, DnsInv, DnsTypes, DnsStates, DnsTypeOK, RegInv, RegistryTypes, AppStates, ServerInv,
         ServerTypes, HandlersTypeOK, TypeOK, ListenerStates, Places
<1> QED BY <1>1, InitSound, NextSound, PTL DEF Spec
-----------------------------------------------------------------------------
(* The table: proofs.                                                      *)

\* A request reaches the first entry that matches, and none only if none does.
LEMMA DispatchedIsFirst ==
    ASSUME ServerTypes, NEW uri, NEW method
    PROVE  LET found == {i \in DOMAIN httpd.uris : Matches(httpd.uris[i], uri, method)}
           IN  /\ found = {} => Dispatched(uri, method) = NoHandler
               /\ found # {} => /\ Dispatched(uri, method) # NoHandler
                                /\ \E i \in found : /\ Dispatched(uri, method) = httpd.uris[i]
                                                    /\ \A j \in found : i <= j
<1> DEFINE found == {i \in DOMAIN httpd.uris : Matches(httpd.uris[i], uri, method)}
<1>1. /\ found \in SUBSET Nat
      /\ \A i \in found : httpd.uris[i] \in Customs \cup BuiltIns
  BY LenProperties DEF ServerTypes
<1>2. ASSUME found # {} PROVE \E i \in found : Dispatched(uri, method) = httpd.uris[i] /\ \A j \in found : i <= j
  <2>1. \E i \in found : \A j \in found : i <= j
    BY <1>1, <1>2, LowestIsMember, ZenonT(60)
  <2> DEFINE first == CHOOSE i \in found : \A j \in found : i <= j
  <2>2. first \in found /\ \A j \in found : first <= j
    BY <2>1
  <2>3. Dispatched(uri, method) = httpd.uris[first]
    BY <1>2 DEF Dispatched
  <2> QED BY <2>2, <2>3
<1> QED BY <1>1, <1>2, Distinct DEF Dispatched

\* A handler that is accepted goes where nothing that is there before hides it.
LEMMA TableGrows ==
    ASSUME ServerTypes, Table, NEW h \in Customs \cup BuiltIns, h \in BuiltIns \cup (Stored \ {NoHandler}),
           httpd_register_uri_handler(h), UNCHANGED custom_handlers
    PROVE  /\ Table'
           /\ \A g : InTable(g) => InTable(g)'
           /\ Outcome(h) = "ok" => InTable(h)'
<1>1. CASE Outcome(h) = "ok"
  <2>1. \A i \in DOMAIN httpd.uris : ~Matches(httpd.uris[i], h.uri, h.method)
    BY <1>1, DispatchedIsFirst DEF Outcome
  <2> DEFINE n == Len(httpd.uris)
  <2>2. /\ n \in Nat /\ DOMAIN httpd.uris = 1 .. n /\ DOMAIN httpd'.uris = 1 .. n + 1
        /\ httpd'.uris[n + 1] = h
        /\ \A i \in 1 .. n : httpd'.uris[i] = httpd.uris[i]
    BY <1>1, RegisterEffect, AppendProperties, LenProperties DEF ServerTypes
  <2> HIDE DEF n
  <2>3. Stored' = Stored /\ BuiltIns' = BuiltIns
    BY DEF Stored
  <2>4. \A i, j \in 1 .. n + 1 :
            i < j => ~Matches(httpd'.uris[i], httpd'.uris[j].uri, httpd'.uris[j].method)
    <3> TAKE i, j \in 1 .. n + 1
    <3> HAVE i < j
    <3>1. i \in 1 .. n /\ httpd'.uris[i] = httpd.uris[i]
      BY <2>2
    <3>2. CASE j \in 1 .. n
      BY <2>2, <3>1, <3>2 DEF Table
    <3>3. CASE j = n + 1
      BY <2>1, <2>2, <3>1, <3>3
    <3> QED BY <2>2, <3>2, <3>3
  <2>5. \A i \in 1 .. n + 1 : httpd'.uris[i] \in BuiltIns \cup (Stored \ {NoHandler})
    <3> TAKE i \in 1 .. n + 1
    <3>1. i \in 1 .. n \/ i = n + 1
      BY <2>2
    <3> QED BY <2>2, <3>1 DEF Table
  <2>6. Table'
    BY <2>2, <2>3, <2>4, <2>5 DEF Table, Matches
  <2>7. n + 1 \in 1 .. n + 1 /\ \A i \in 1 .. n : i \in 1 .. n + 1
    BY <2>2
  <2> QED BY <2>2, <2>6, <2>7 DEF InTable
<1>2. CASE Outcome(h) # "ok"
  BY <1>2, RegisterEffect DEF Table, Stored, InTable, Matches
<1> QED BY <1>1, <1>2

\* The entries that a table can have are no more than it has places, without the
\* single-page build, which has one built-in handler more.
RoomForAll == ~(SdCard = "present" /\ Spa)

LEMMA FewHandlers ==
    ASSUME RegistryTypes, RoomForAll
    PROVE  IsFiniteSet(BuiltIns \cup Stored) /\ Cardinality(BuiltIns \cup Stored) <= MaxCustom + 8
<1> DEFINE n == Len(Begun)
<1>1. n \in Nat /\ n = 7 /\ Begun \in [1 .. n -> Listed]
  BY BegunHandlers, LenProperties
<1>2. Begun \in [1 .. n -> Pages] /\ \A h \in Pages : \E i \in 1 .. n : Begun[i] = h
  BY <1>1, BegunHandlers DEF Pages
<1>3. IsFiniteSet(Pages) /\ Cardinality(Pages) <= 7 /\ Cardinality(Pages) \in Nat
  <2>1. Begun \in Surjection(1 .. n, Pages)
    BY <1>2 DEF Surjection
  <2> HIDE DEF n
  <2>2. n \in Nat
    BY <1>1
  <2>3. IsFiniteSet(1 .. n) /\ Cardinality(1 .. n) = n
    BY <2>2, FS_Interval
  <2> QED BY <1>1, <2>1, <2>3, FS_Surjection, FS_CardinalityType
<1>4. IsFiniteSet(BuiltIns) /\ Cardinality(BuiltIns) <= 8 /\ Cardinality(BuiltIns) \in Nat
  <2>1. IsFiniteSet(Pages \cup {Wifi("/*", "GET")}) /\ Cardinality(Pages \cup {Wifi("/*", "GET")}) \in Nat
        /\ Cardinality(Pages \cup {Wifi("/*", "GET")}) <= 8
    <3> DEFINE files == Wifi("/*", "GET")
    <3> HIDE DEF files
    <3>1. IsFiniteSet(Pages \cup {files})
      BY <1>3, FS_AddElement
    <3>2. Cardinality(Pages \cup {files}) = IF files \in Pages THEN Cardinality(Pages) ELSE Cardinality(Pages) + 1
      BY <1>3, FS_AddElement
    <3> QED BY <1>3, <3>1, <3>2 DEF files
  <2>2. BuiltIns \in SUBSET (Pages \cup {Wifi("/*", "GET")})
    BY BuiltInTypes DEF RoomForAll
  <2> QED BY <2>1, <2>2, FS_Subset, FS_CardinalityType
<1>5. IsFiniteSet(Stored) /\ Cardinality(Stored) <= MaxCustom /\ Cardinality(Stored) \in Nat
  <2>1. IsFiniteSet(1 .. MaxCustom) /\ Cardinality(1 .. MaxCustom) = MaxCustom
    BY FS_Interval, HandlersAssumption
  <2>2. custom_handlers \in Surjection(1 .. MaxCustom, Stored)
    BY DEF Surjection, Stored, RegistryTypes
  <2> QED BY <2>1, <2>2, FS_Surjection, FS_CardinalityType
<1>6. /\ IsFiniteSet(BuiltIns \cup Stored)
      /\ Cardinality(BuiltIns \cup Stored) =
             Cardinality(BuiltIns) + Cardinality(Stored) - Cardinality(BuiltIns \cap Stored)
      /\ Cardinality(BuiltIns \cap Stored) \in Nat
  BY <1>4, <1>5, FS_Union, FS_Intersection, FS_CardinalityType
<1> QED BY <1>4, <1>5, <1>6, HandlersAssumption

\* As no entry of a table is there twice, one that is still to come has a place.
LEMMA RoomForOneMore ==
    ASSUME RegistryTypes, RoomForAll, ServerTypes, Table, NEW h \in BuiltIns \cup Stored
    PROVE  Outcome(h) # "full"
<1> SUFFICES ASSUME Outcome(h) = "full" PROVE FALSE
  OBVIOUS
<1> DEFINE n == Len(httpd.uris)
           others == (BuiltIns \cup Stored) \ {h}
<1>1. n \in Nat /\ DOMAIN httpd.uris = 1 .. n /\ httpd.uris \in [1 .. n -> Customs \cup BuiltIns]
  BY LenProperties DEF ServerTypes
<1>2. n >= MaxCustom + 8 /\ \A i \in 1 .. n : ~Matches(httpd.uris[i], h.uri, h.method)
  <2>1. n >= Capacity /\ Dispatched(h.uri, h.method) = NoHandler
    BY DEF Outcome
  <2> QED BY <1>1, <2>1, DispatchedIsFirst DEF Capacity
<1>3. \A i \in 1 .. n : httpd.uris[i] \in others
  <2> TAKE i \in 1 .. n
  <2>1. httpd.uris[i] # h
    BY <1>2 DEF Matches
  <2> QED BY <1>1, <2>1 DEF Table
<1>4. \A i, j \in 1 .. n : httpd.uris[i] = httpd.uris[j] => i = j
  <2> TAKE i, j \in 1 .. n
  <2> HAVE httpd.uris[i] = httpd.uris[j]
  <2>1. ~(i < j) /\ ~(j < i)
    BY <1>1 DEF Table, Matches
  <2> QED BY <1>1, <2>1
<1>5. httpd.uris \in Injection(1 .. n, others)
  BY <1>1, <1>3, <1>4 DEF Injection, IsInjective
<1>6. IsFiniteSet(others) /\ Cardinality(others) <= MaxCustom + 7 /\ Cardinality(others) \in Nat
  <2>1. IsFiniteSet(BuiltIns \cup Stored) /\ Cardinality(BuiltIns \cup Stored) <= MaxCustom + 8
        /\ Cardinality(BuiltIns \cup Stored) \in Nat
    BY FewHandlers, FS_CardinalityType
  <2>2. IsFiniteSet(others) /\ Cardinality(others) = Cardinality(BuiltIns \cup Stored) - 1
    BY <2>1, FS_RemoveElement
  <2> QED BY <2>1, <2>2, HandlersAssumption, FS_CardinalityType
<1>7. Cardinality(1 .. n) = n /\ IsFiniteSet(1 .. n)
  BY <1>1, FS_Interval
<1>8. n <= Cardinality(others)
  BY <1>5, <1>6, <1>7, FS_Injection
<1> HIDE DEF n, others
<1> QED BY <1>1, <1>2, <1>6, <1>8, HandlersAssumption

\* A step leaves the table, empties it, or registers a handler that is built in or stored.
LEMMA TableSteps ==
    ASSUME Sound, [Next]_vars
    PROVE  \/ UNCHANGED httpd
           \/ /\ httpd'.uris = << >> /\ UNCHANGED <<custom_handlers, appVars>>
              /\ StopServer \/ StartServer
           \/ \E h \in Customs \cup BuiltIns :
                  /\ h \in BuiltIns \cup (Stored \ {NoHandler})
                  /\ httpd_register_uri_handler(h) /\ UNCHANGED custom_handlers
<1> USE DEF Sound, DnsInv
<1>0. \A h \in Customs : Counted(h) => h \in Stored \ {NoHandler}
  BY Distinct, HandlersAssumption DEF Counted, Stored, RegInv, RegistryTypes
<1>1. CASE StopServer \/ StartServer
  BY <1>1 DEF StopServer, StartServer, Stopped, registryVars
<1>2. CASE RegisterBuiltIn
  <2>1. Head(listener.todo) \in BuiltIns
    BY <1>2, EntryIsHandler DEF RegisterBuiltIn
  <2> QED BY <1>2, <2>1 DEF RegisterBuiltIn, registryVars
<1>3. CASE RegisterCustom
  <2>1. listener.next \in 1 .. custom_handler_count
    BY <1>3 DEF RegisterCustom, RegInv, RegistryTypes, DnsTypes, ListenerStates
  <2>2. custom_handlers[listener.next] \in Customs /\ Counted(custom_handlers[listener.next])
    BY <2>1, EntryIsHandler DEF Counted
  <2> QED BY <1>0, <1>3, <2>2 DEF RegisterCustom, registryVars
<1>4. ASSUME NEW a \in Apps, RegisterNow(a), httpd.up
      PROVE  \E h \in Customs \cup BuiltIns :
                  /\ h \in BuiltIns \cup (Stored \ {NoHandler})
                  /\ httpd_register_uri_handler(h) /\ UNCHANGED custom_handlers
  <2>1. app[a].h \in Customs /\ Counted(app[a].h)
    BY <1>4 DEF RegisterNow, Calling, RegInv, Registrations
  <2> QED BY <1>0, <1>4, <2>1 DEF RegisterNow, registryVars
<1>5. ASSUME NEW a \in Apps, RegisterNow(a), ~httpd.up PROVE UNCHANGED httpd
  BY <1>5 DEF RegisterNow
<1>6. ASSUME NEW a \in Apps, Application(a) PROVE UNCHANGED httpd \/ RegisterNow(a)
  BY <1>6 DEF Application, AppStep, RegistryFull, StoreHandler, CountHandler, LookForServer, ReadMode,
              ReadSsid, serverVars
<1>7. CASE Switch
  BY <1>1, <1>2, <1>3, <1>7
  DEF Switch, Begin, ForgetServer, NoDnsServer, LowerDnsFlag, DeleteDnsTask, FreeDnsHandle, SetMode, SetConfig,
      DriverFails, CustomsRegistered, RuntimeServes, StartDns, DnsFails, serverVars
<1> QED BY <1>4, <1>5, <1>6, <1>7 DEF Next, ClientConnects, ClientLeaves, DnsTask, vars, serverVars

\* What is stored stays stored, and in its place.
LEMMA StoredStays ==
    ASSUME TakeTurns', RegInv, [Next]_vars
    PROVE  /\ Stored \ {NoHandler} \subseteq Stored'
           /\ \A i \in 1 .. custom_handler_count : custom_handlers'[i] = custom_handlers[i]
           /\ custom_handler_count' \in Nat /\ custom_handler_count' >= custom_handler_count
<1> USE DEF RegInv, RegistryTypes
<1>1. ASSUME NEW a \in Apps, NEW h \in Customs, StoreHandler(a, h)
      PROVE  /\ custom_handler_count + 1 \in 1 .. MaxCustom
             /\ custom_handlers[custom_handler_count + 1] = NoHandler
             /\ \A i \in 1 .. MaxCustom : i # custom_handler_count + 1 => custom_handlers'[i] = custom_handlers[i]
             /\ UNCHANGED custom_handler_count
  <2>1. /\ custom_handler_count + 1 \in 1 .. MaxCustom /\ \A b \in Apps : ~Calling(b, "count")
    <3>1. app[a] \in AppStates /\ app[a].pc = "idle" /\ app' = [app EXCEPT ![a] = [pc |-> "count", h |-> h]]
      BY <1>1 DEF StoreHandler, MayCall, Calling
    <3>2. app'[a].pc = "count" /\ \A b \in Apps \ {a} : app'[b] = app[b]
      BY <3>1
    <3> QED BY <1>1, <3>1, <3>2, HandlersAssumption DEF StoreHandler, Calling, TakeTurns
  <2> QED BY <1>1, <2>1, HandlersAssumption DEF StoreHandler, Registry
<1>2. CASE \E a \in Apps, h \in Customs : StoreHandler(a, h)
  BY <1>1, <1>2, HandlersAssumption DEF Stored
<1>3. CASE UNCHANGED custom_handlers /\ custom_handler_count' \in {custom_handler_count, custom_handler_count + 1}
  BY <1>3, HandlersAssumption DEF Stored
<1>4. ASSUME NEW a \in Apps, Application(a)
      PROVE \/ \E h \in Customs : StoreHandler(a, h)
            \/ UNCHANGED custom_handlers /\ custom_handler_count' \in {custom_handler_count, custom_handler_count + 1}
  BY <1>4 DEF Application, AppStep, RegistryFull, CountHandler, LookForServer, ReadMode, ReadSsid, RegisterNow,
              registryVars
<1> QED BY <1>2, <1>3, <1>4, OnlyAppsRegister DEF registryVars

LEMMA NextKeepsTable == ASSUME TakeTurns', Sound, Table, [Next]_vars PROVE Table'
<1> USE DEF Sound, ServerInv
<1>1. CASE UNCHANGED httpd
  BY <1>1, StoredStays DEF Table, Matches
<1>2. CASE httpd'.uris = << >>
  BY <1>2 DEF Table
<1>3. ASSUME NEW h \in Customs \cup BuiltIns, h \in BuiltIns \cup (Stored \ {NoHandler}),
             httpd_register_uri_handler(h), UNCHANGED custom_handlers
      PROVE  Table'
  BY <1>3, TableGrows
<1> QED BY <1>1, <1>2, <1>3, TableSteps

LEMMA TableInvariant == Spec /\ []TakeTurns => [](Sound /\ Table)
<1>1. Init => Table
  BY DEF Init, HandlersInit, Stopped, Table
<1> QED BY <1>1, InitSound, NextSound, NextKeepsTable, PTL DEF Spec

\* The table has room for what the listener and the application register, in
\* whatever order they do (Server-mgr.c:33), unless the build is the single-page
\* one: no handler is refused for want of a place, if the tasks that register take
\* turns at storing.
THEOREM TableSuffices == ASSUME RoomForAll PROVE Spec /\ []TakeTurns => []TableHasRoom
<1>1. Sound /\ Table => TableHasRoom
  <2> SUFFICES ASSUME Sound, Table PROVE TableHasRoom
    OBVIOUS
  <2> USE DEF Sound, DnsInv, ServerInv
  <2>1. RegistryTypes
    BY DEF RegInv
  <2>2. Registering("wifi") => Outcome(Head(listener.todo)) # "full"
    BY <2>1, EntryIsHandler, RoomForOneMore
  <2>3. ASSUME NEW a \in Apps, Calling(a, "register") PROVE Outcome(app[a].h) # "full"
    <3>1. Counted(app[a].h)
      BY <2>3 DEF RegInv, Registrations, Calling
    <3>2. app[a].h \in Stored
      BY <2>1, <3>1, HandlersAssumption DEF Counted, Stored, RegistryTypes
    <3> QED BY <2>1, <3>2, RoomForOneMore
  <2> QED BY <2>2, <2>3 DEF TableHasRoom
<1> QED BY <1>1, TableInvariant, PTL

-----------------------------------------------------------------------------
(* Every handler is reached: proofs.                                       *)

\* Unless its server is emptied, the table keeps what it has.
LEMMA TableKeeps ==
    ASSUME Sound, Table, [Next]_vars, ~StopServer, ~StartServer
    PROVE  \A g : InTable(g) => InTable(g)'
<1> USE DEF Sound, ServerInv
<1>1. CASE UNCHANGED httpd
  BY <1>1 DEF InTable
<1>2. ASSUME NEW h \in Customs \cup BuiltIns, h \in BuiltIns \cup (Stored \ {NoHandler}),
             httpd_register_uri_handler(h), UNCHANGED custom_handlers
      PROVE  \A g : InTable(g) => InTable(g)'
  BY <1>2, TableGrows
<1> QED BY <1>1, <1>2, TableSteps

\* The next entry of the list is dealt with, the others are still to come.
LEMMA ListShrinks ==
    ASSUME listener \in ListenerStates, listener.todo # << >>, listener'.todo = Tail(listener.todo)
    PROVE  \A g : ToCome(g) => g = Head(listener.todo) \/ ToCome(g)'
<1> DEFINE s == listener.todo
<1>1. s \in Seq(Entries) /\ s # << >>
  BY DEF ListenerStates
<1>2. /\ Len(s) \in Nat /\ DOMAIN s = 1 .. Len(s) /\ DOMAIN Tail(s) = 1 .. Len(s) - 1
      /\ Head(s) = s[1] /\ \A i \in 1 .. Len(s) - 1 : Tail(s)[i] = s[i + 1]
  BY <1>1, LenProperties
<1>3. \A i \in DOMAIN s : i = 1 \/ (i - 1 \in DOMAIN Tail(s) /\ Tail(s)[i - 1] = s[i])
  BY <1>2
<1> HIDE DEF s
<1> QED BY <1>2, <1>3 DEF ToCome, s

\* The list that a runtime start begins with has all built-in handlers and, with a
\* card, the registry.
LEMMA ListIsComplete ==
    /\ \A h \in BuiltIns : \E i \in DOMAIN runtime_handlers : runtime_handlers[i] = h
    /\ SdCard = "present" => \E i \in DOMAIN runtime_handlers : runtime_handlers[i] = TheRegistry
<1>1. \A h \in BuiltIns : \E i \in DOMAIN runtime_handlers : runtime_handlers[i] = h
  BY DEF BuiltIns
<1>2. ASSUME SdCard = "present" PROVE 8 \in DOMAIN runtime_handlers /\ runtime_handlers[8] = TheRegistry
  <2>1. 1 \in 1 .. Len(Rest) /\ Rest[1] = TheRegistry /\ Len(Rest) \in Nat
    BY <1>2, RestHandlers
  <2>2. runtime_handlers[7 + 1] = Rest[1] /\ Len(runtime_handlers) = 7 + Len(Rest)
    BY <2>1, RuntimeHandlers
  <2>3. DOMAIN runtime_handlers = 1 .. Len(runtime_handlers)
    BY RuntimeHandlers, LenProperties
  <2> QED BY <2>1, <2>2, <2>3
<1> QED BY <1>1, <1>2

\* Steps of the listener that leave no runtime server, complete or being filled.
Leaves == ~Filling' /\ ~RuntimeServing'

\* A step of the listener that does: it starts one, registers, or is done.
LEMMA FillingSteps ==
    ASSUME Sound, Switch
    PROVE  \/ Leaves
           \/ StartServer /\ listener.target # "portal"
           \/ /\ Filling /\ ~RuntimeServing' /\ UNCHANGED <<appVars, iface, registryVars>>
              /\ \/ RegisterBuiltIn /\ Registered
                 \/ CustomsRegistered /\ Registered
                 \/ RegisterCustom
           \/ RuntimeServes
<1> USE DEF Sound, DnsInv, DnsTypes, Leaves, Filling, RuntimeServing, At
<1>1. ASSUME NEW target \in Targets, Begin(target) PROVE Leaves
  <2>1. listener'.pc \in {"stop", "lower"} /\ serving' = "none"
    BY <1>1, IdleState DEF Begin, ListenerStates
  <2> QED BY <2>1
<1>2. CASE StopServer \/ NoDnsServer \/ LowerDnsFlag \/ DeleteDnsTask \/ FreeDnsHandle \/ SetMode \/ SetConfig
  <2>1. listener'.pc # "register" /\ UNCHANGED serving /\ listener.pc # "idle"
    BY <1>2, ListenerGoes DEF StopServer, NoDnsServer, LowerDnsFlag, DeleteDnsTask, FreeDnsHandle, SetMode,
       SetConfig, Places
  <2> QED BY <2>1 DEF ServerInv, Server
<1>3. CASE ForgetServer
  <2>1. listener'.pc # "register" /\ serving' \in {serving, "failed"} /\ listener.pc # "idle"
    BY <1>3, ListenerGoes, IdleState DEF ForgetServer, Places, End
  <2> QED BY <2>1 DEF ServerInv, Server
<1>4. CASE DriverFails \/ StartDns
  <2>1. listener'.pc = "idle" /\ serving' \in {"failed", "portal"}
    BY <1>4, IdleState DEF DriverFails, StartDns, End
  <2> QED BY <2>1
<1>5. CASE StartServer /\ listener.target = "portal"
  <2>1. listener'.target = "portal" /\ UNCHANGED serving /\ listener.pc # "idle"
    BY <1>5 DEF StartServer, ListenerStates
  <2> QED BY <2>1 DEF ServerInv, Server
<1>6. ASSUME listener.pc = "register", Fail PROVE Leaves
  <2>1. listener'.pc # "register" /\ serving' \in {serving, "failed"}
    BY <1>6, Fails, IdleState
  <2> QED BY <1>6, <2>1 DEF ServerInv, Server
<1>7. ASSUME listener.pc = "register", RegisterBuiltIn \/ CustomsRegistered
      PROVE  \/ Leaves
             \/ /\ Filling /\ ~RuntimeServing' /\ UNCHANGED <<appVars, iface, registryVars>>
                /\ Registered
  <2>1. Fail \/ (Registered /\ listener.todo # << >>)
    BY <1>7 DEF RegisterBuiltIn, CustomsRegistered, Registering
  <2>2. UNCHANGED <<appVars, iface, registryVars>>
    BY <1>7 DEF RegisterBuiltIn, CustomsRegistered
  <2>3. CASE Registered /\ listener.todo # << >>
    <3>1. listener'.pc = listener.pc /\ listener'.target = listener.target /\ UNCHANGED serving
      BY <2>3, GoesOnRegistering
    <3> QED BY <1>7, <2>2, <2>3, <3>1 DEF ServerInv, Server
  <2> QED BY <1>6, <1>7, <2>1, <2>3
<1>8. CASE RegisterBuiltIn \/ CustomsRegistered
  BY <1>7, <1>8 DEF RegisterBuiltIn, CustomsRegistered, Registering
<1>9. CASE RegisterCustom
  <2>1. /\ listener.pc = "register" /\ listener'.pc = "register" /\ listener'.target = listener.target
        /\ UNCHANGED <<appVars, iface, registryVars, serving>>
    BY <1>9 DEF RegisterCustom, Registering, ListenerStates
  <2> QED BY <1>9, <2>1 DEF ServerInv, Server
<1>10. CASE DnsFails
  BY <1>6, <1>10 DEF DnsFails
<1> HIDE DEF Sound, Leaves, Filling, RuntimeServing
<1> QED BY <1>1, <1>2, <1>3, <1>4, <1>5, <1>8, <1>9, <1>10 DEF Switch

LEMMA OwedIsCounted == ASSUME RegInv, NEW h \in Customs, Owed(h) PROVE Counted(h)
  BY DEF RegInv, Registrations, Owed, Calling

LEMMA SwitchKeepsServed ==
    ASSUME TakeTurns', SdCard = "present", Sound, Table, Served, Switch PROVE Served'
<1> USE DEF Sound, DnsInv, DnsTypes
<1>n. [Next]_vars
  BY DEF Next
<1>1. CASE Leaves
  BY <1>1 DEF Leaves, Served, CustomServed
<1>2. CASE StartServer /\ listener.target # "portal"
  <2>1. /\ listener'.todo = runtime_handlers /\ listener'.next = 1 /\ ~RuntimeServing'
        /\ UNCHANGED <<appVars, iface, registryVars>>
    <3>1. listener'.todo = runtime_handlers /\ listener'.next = listener.next
      BY <1>2 DEF StartServer, ListenerStates
    <3>2. serving = "none" /\ listener.next = 1
      BY <1>2 DEF StartServer, At, ServerInv, Server
    <3>3. UNCHANGED <<appVars, iface, registryVars, serving>>
      BY <1>2 DEF StartServer
    <3> QED BY <3>1, <3>2, <3>3 DEF RuntimeServing
  <2>2. \A h \in BuiltIns : ToCome(h)'
    BY <2>1, ListIsComplete DEF ToCome
  <2>3. ToCome(TheRegistry)'
    BY <2>1, ListIsComplete DEF ToCome
  <2>4. ASSUME NEW h \in Customs, Owed(h)' PROVE Awaited(h)'
    <3>1. Owed(h)
      BY <2>1, <2>4 DEF Owed, Calling, appVars
    <3>2. Counted(h)
      BY <3>1, OwedIsCounted
    <3> QED BY <2>1, <3>2 DEF Counted, Awaited, registryVars
  <2> QED BY <2>1, <2>2, <2>3, <2>4 DEF Served, CustomServed
<1>3. ASSUME Filling, ~RuntimeServing', UNCHANGED <<appVars, iface, registryVars>>,
             \/ RegisterBuiltIn /\ Registered
             \/ CustomsRegistered /\ Registered
             \/ RegisterCustom
      PROVE  Served'
  <2>1. \A g : InTable(g) => InTable(g)'
    BY <1>n, <1>3, TableKeeps DEF RegisterBuiltIn, CustomsRegistered, RegisterCustom, Registering, At,
       StopServer, StartServer
  <2>2. \A h \in Customs : Owed(h)' => CustomServed(h)
    BY <1>3 DEF Owed, Calling, appVars, Served
  <2>3. CASE RegisterBuiltIn /\ Registered
    <3>1. /\ listener'.todo = Tail(listener.todo) /\ listener.todo # << >>
          /\ listener'.next = listener.next /\ listener'.bad = listener.bad
      BY <2>3, GoesOnRegistering DEF RegisterBuiltIn, Registering
    <3>2. \A g : ToCome(g) => g = Head(listener.todo) \/ ToCome(g)'
      BY <3>1, ListShrinks
    <3>3. \A g : g = Head(listener.todo) => InTable(g)'
      <4> TAKE g
      <4> HAVE g = Head(listener.todo)
      <4>1. g \in BuiltIns /\ httpd_register_uri_handler(g) /\ UNCHANGED custom_handlers /\ ServerTypes
        BY <2>3, EntryIsHandler DEF RegisterBuiltIn, registryVars, ServerInv
      <4>2. Outcome(g) = "ok"
        <5>1. listener'.pc = "register"
          BY <1>3, <2>3, GoesOnRegistering DEF RegisterBuiltIn, Registering, Filling
        <5>2. ~Fail
          BY <5>1, Fails, IdleState
        <5> QED BY <2>3, <5>2 DEF RegisterBuiltIn
      <4> QED BY <4>1, <4>2, TableGrows
    <3>4. Head(listener.todo) # TheRegistry
      BY <2>3 DEF RegisterBuiltIn, Registering, TheRegistry
    <3>5. \A h \in Customs : Awaited(h) => Awaited(h)'
      BY <1>3, <3>1 DEF Awaited, registryVars
    <3>6. \A h \in BuiltIns : InTable(h)' \/ ToCome(h)'
      BY <1>3, <2>1, <3>2, <3>3 DEF Served
    <3>7. ASSUME NEW h \in Customs, Owed(h)'
          PROVE  InTable(h)' \/ (ToCome(TheRegistry)' /\ (listener'.bad \/ Awaited(h)'))
      <4>1. InTable(h) \/ (ToCome(TheRegistry) /\ (listener.bad \/ Awaited(h)))
        BY <1>3, <2>2, <3>7 DEF CustomServed
      <4>2. ToCome(TheRegistry) => ToCome(TheRegistry)'
        BY <3>2, <3>4 DEF TheRegistry
      <4> QED BY <2>1, <3>1, <3>5, <4>1, <4>2
    <3> QED BY <1>3, <3>6, <3>7 DEF Served, CustomServed
  <2>4. CASE CustomsRegistered /\ Registered
    <3>1. /\ listener'.todo = Tail(listener.todo) /\ listener.todo # << >>
          /\ listener'.next = listener.next /\ listener'.bad = listener.bad
      BY <2>4, GoesOnRegistering DEF CustomsRegistered, Registering
    <3>2. \A g : ToCome(g) => g = Head(listener.todo) \/ ToCome(g)'
      BY <3>1, ListShrinks
    <3>3. \A h \in BuiltIns : h # Head(listener.todo)
      BY <2>4, BuiltInTypes DEF CustomsRegistered, Registering
    <3>4. ~listener.bad
      <4>1. listener'.pc = "register"
        BY <1>3, <2>4, GoesOnRegistering DEF CustomsRegistered, Registering, Filling
      <4>2. ~Fail
        BY <4>1, Fails, IdleState
      <4> QED BY <2>4, <4>2 DEF CustomsRegistered
    <3>5. \A h \in Customs : ~Awaited(h)
      BY <2>4 DEF CustomsRegistered, Awaited, RegInv, RegistryTypes, ListenerStates
    <3>6. \A h \in BuiltIns : InTable(h)' \/ ToCome(h)'
      BY <1>3, <2>1, <3>2, <3>3 DEF Served
    <3>7. \A h \in Customs : Owed(h)' => InTable(h)'
      BY <1>3, <2>1, <2>2, <3>4, <3>5 DEF CustomServed
    <3> QED BY <1>3, <3>6, <3>7 DEF Served, CustomServed
  <2>5. CASE RegisterCustom
    <3>0. PICK new : new = custom_handlers[listener.next]
      OBVIOUS
    <3>1. /\ listener'.todo = listener.todo /\ listener'.next = listener.next + 1
          /\ listener'.bad = (listener.bad \/ Outcome(new) # "ok")
      BY <2>5, <3>0 DEF RegisterCustom, ListenerStates
    <3>2. listener.next \in 1 .. custom_handler_count
      BY <2>5 DEF RegisterCustom, RegInv, RegistryTypes, ListenerStates
    <3>3. new \in Customs /\ new \in Stored \ {NoHandler}
      BY <3>0, <3>2, EntryIsHandler, Distinct, HandlersAssumption DEF Stored, RegInv, RegistryTypes
    <3>4. Outcome(new) = "ok" => InTable(new)'
      <4>1. httpd_register_uri_handler(new) /\ UNCHANGED custom_handlers /\ ServerTypes
        BY <2>5, <3>0 DEF RegisterCustom, ServerInv, registryVars
      <4> QED BY <3>3, <4>1, TableGrows
    <3>5. \A h \in Customs : Awaited(h) => h = new \/ Awaited(h)'
      <4> TAKE h \in Customs
      <4> HAVE Awaited(h)
      <4>1. PICK i \in listener.next .. custom_handler_count : custom_handlers[i] = h
        BY DEF Awaited
      <4>2. CASE i = listener.next
        BY <3>0, <4>1, <4>2
      <4>3. CASE i # listener.next
        <5>1. i \in listener.next + 1 .. custom_handler_count
          BY <3>2, <4>3 DEF RegInv, RegistryTypes
        <5> QED BY <1>3, <3>1, <4>1, <5>1 DEF Awaited, registryVars
      <4> QED BY <4>2, <4>3
    <3>6. ToCome(TheRegistry)' <=> ToCome(TheRegistry)
      BY <3>1 DEF ToCome
    <3>7. \A h \in BuiltIns : InTable(h)' \/ ToCome(h)'
      BY <1>3, <2>1, <3>1 DEF Served, ToCome
    <3>8. ASSUME NEW h \in Customs, Owed(h)'
          PROVE  InTable(h)' \/ (ToCome(TheRegistry)' /\ (listener'.bad \/ Awaited(h)'))
      <4>1. InTable(h) \/ (ToCome(TheRegistry) /\ (listener.bad \/ Awaited(h)))
        BY <1>3, <2>2, <3>8 DEF CustomServed
      <4>2. CASE h = new
        <5>1. InTable(new)' \/ ToCome(TheRegistry)'
          BY <2>1, <3>6, <4>1, <4>2
        <5>2. InTable(new)' \/ listener'.bad
          BY <3>1, <3>4
        <5> QED BY <4>2, <5>1, <5>2
      <4>3. CASE h # new
        BY <2>1, <3>1, <3>5, <3>6, <4>1, <4>3
      <4> QED BY <4>2, <4>3
    <3> QED BY <1>3, <3>7, <3>8 DEF Served, CustomServed
  <2> QED BY <1>3, <2>3, <2>4, <2>5
<1>4. CASE RuntimeServes
  <2>1. /\ Filling /\ listener.todo = << >> /\ ~Filling'
        /\ UNCHANGED <<httpd, appVars, iface>>
    BY <1>4, IdleState DEF RuntimeServes, RuntimeComplete, Filling, At, End, serverVars
  <2>2. \A g : ~ToCome(g)
    BY <2>1 DEF ToCome
  <2>3. \A g : InTable(g) => InTable(g)'
    BY <2>1 DEF InTable
  <2>4. \A h \in BuiltIns : InTable(h)'
    BY <2>1, <2>2, <2>3 DEF Served
  <2>5. \A h \in Customs : Owed(h)' => InTable(h)'
    BY <2>1, <2>2, <2>3 DEF Served, CustomServed, Owed, Calling, appVars
  <2> QED BY <2>1, <2>4, <2>5 DEF Served, CustomServed
<1> QED BY <1>1, <1>2, <1>3, <1>4, FillingSteps

\* With no runtime server there, or none to be, nothing is owed.
LEMMA NothingServed ==
    ASSUME NEW h \in Customs, ~RuntimeServing', ~Filling' PROVE CustomServed(h)'
  BY DEF CustomServed

\* A task that finds no server, or the portal's, is right that the handler is only
\* stored; one that finds a server registers it.
LEMMA AppKeepsServed ==
    ASSUME TakeTurns', Sound, Table, Served, NEW a \in Apps, Application(a) PROVE Served'
<1> USE DEF Sound, DnsInv, DnsTypes
<1>1. UNCHANGED <<server, iface, listener, serving>>
  BY DEF Application, AppStep, RegistryFull, StoreHandler, CountHandler, LookForServer, ReadMode, ReadSsid,
         RegisterNow, serverVars
<1>2. [Next]_vars
  BY DEF Next
<1>3. \A g : InTable(g) => InTable(g)'
  <2>1. ~StopServer /\ ~StartServer
    BY <1>1 DEF StopServer, StartServer, To, At, ListenerStates
  <2> QED BY <1>2, <2>1, TableKeeps
<1>4. \A h \in Customs : Awaited(h) => Awaited(h)'
  <2> TAKE h \in Customs
  <2> HAVE Awaited(h)
  <2>1. PICK i \in listener.next .. custom_handler_count : custom_handlers[i] = h
    BY DEF Awaited
  <2>2. i \in 1 .. custom_handler_count /\ i \in listener.next .. custom_handler_count'
    BY <1>2, StoredStays DEF ListenerStates, RegInv, RegistryTypes
  <2>3. custom_handlers'[i] = h
    BY <1>2, <2>1, <2>2, StoredStays
  <2> QED BY <1>1, <2>2, <2>3 DEF Awaited
<1>5. \A h \in Customs : CustomServed(h) => CustomServed(h)'
  BY <1>1, <1>3, <1>4 DEF CustomServed, RuntimeServing, Filling, ToCome
<1>6. \A h \in BuiltIns : (RuntimeServing => InTable(h))' /\ (Filling => InTable(h) \/ ToCome(h))'
  BY <1>1, <1>3 DEF Served, RuntimeServing, Filling, ToCome
<1>7. ASSUME NEW h \in Customs, Owed(h)', ~Owed(h) PROVE CustomServed(h)'
  <2>0. app[a] \in AppStates /\ app \in [Apps -> AppStates] /\ told \in [Customs -> {"new", "ok", "no_mem", "error"}]
    BY DEF RegInv, RegistryTypes
  <2>1. told'[h] = "ok" \/ (app'[a].pc = "ssid" /\ iface.ssid = "portal" /\ app'[a].h = h)
    <3>1. \A b \in Apps \ {a} : app'[b] = app[b]
      BY <2>0 DEF Application, AppStep, RegistryFull, StoreHandler, CountHandler, LookForServer, ReadMode,
                  ReadSsid, RegisterNow, AppGo, Return
    <3> QED BY <1>1, <1>7, <3>1 DEF Owed, Calling
  <2>2. told[h] # "ok" /\ ~(app[a].pc = "ssid" /\ iface.ssid = "portal" /\ app[a].h = h)
    BY <1>7 DEF Owed, Calling
  <2>3. CASE UNCHANGED told /\ app'[a].pc # "ssid"
    BY <2>1, <2>2, <2>3
  <2>4. ASSUME NEW g \in Customs, RegistryFull(a, g) PROVE FALSE
    <3>1. told'[h] = "ok" => told[h] = "ok"
      BY <2>0, <2>4 DEF RegistryFull
    <3>2. app' = app
      BY <2>4 DEF RegistryFull
    <3> QED BY <2>1, <2>2, <3>1, <3>2
  <2>5. CASE \E g \in Customs : StoreHandler(a, g)
    BY <2>0, <2>3, <2>5 DEF StoreHandler
  <2>6. CASE CountHandler(a)
    BY <2>0, <2>3, <2>6 DEF CountHandler, AppGo, AppStates
  <2>7. CASE LookForServer(a)
    <3>1. CASE server
      BY <2>0, <2>3, <2>7, <3>1 DEF LookForServer, AppGo, AppStates
    <3>2. CASE ~server
      BY <1>1, <3>2, NothingServed DEF ServerInv, Server, Filling, RuntimeServing
    <3> QED BY <3>1, <3>2
  <2>8. CASE ReadMode(a)
    <3>1. CASE iface.mode # "apsta"
      BY <2>0, <2>3, <2>8, <3>1 DEF ReadMode, AppGo, AppStates
    <3>2. CASE iface.mode = "apsta"
      <4>1. iface.ssid = "portal"
        BY <2>1, <2>2, <2>8 DEF ReadMode
      <4>2. ~RuntimeServing /\ ~Filling
        BY <3>2, <4>1 DEF ServerInv, Modes, RuntimeServing, Filling, ListenerStates, Targets
      <4> QED BY <1>1, <4>2, NothingServed DEF RuntimeServing, Filling
    <3> QED BY <3>1, <3>2
  <2>9. CASE ReadSsid(a)
    <3>1. CASE iface.ssid = "portal"
      <4>1. app[a].h \in Customs /\ app[a].h # h /\ app[a].pc = "ssid" /\ Return(a, "ok")
        BY <2>2, <2>9, <3>1 DEF ReadSsid, Calling, RegInv, Registrations
      <4>2. app'[a].pc = "idle" /\ told'[h] = told[h]
        BY <4>1, AppReturns DEF RegInv
      <4> QED BY <2>1, <2>2, <4>2
    <3>2. CASE iface.ssid # "portal"
      BY <2>0, <2>3, <2>9, <3>2 DEF ReadSsid, AppGo, AppStates
    <3> QED BY <3>1, <3>2
  <2>10. CASE RegisterNow(a)
    <3>1. app[a].h \in Customs /\ Counted(app[a].h)
      BY <2>10 DEF RegisterNow, Calling, RegInv, Registrations
    <3>2. PICK result \in {"ok", "error"} :
              /\ Return(a, result)
              /\ httpd.up /\ Outcome(app[a].h) # "ok" => result = "error"
      BY <2>10 DEF RegisterNow
    <3>3. app'[a].pc = "idle" /\ told'[app[a].h] = result /\ (h # app[a].h => told'[h] = told[h])
      BY <3>1, <3>2, AppReturns DEF RegInv
    <3>4. h = app[a].h /\ result = "ok"
      BY <2>1, <2>2, <3>3
    <3>5. CASE httpd.up
      <4>1. httpd_register_uri_handler(h) /\ UNCHANGED custom_handlers /\ Outcome(h) = "ok"
        BY <2>10, <3>2, <3>4, <3>5 DEF RegisterNow, registryVars
      <4>2. h \in Stored \ {NoHandler} /\ ServerTypes
        BY <3>1, <3>4, Distinct, HandlersAssumption DEF Counted, Stored, RegInv, RegistryTypes, ServerInv
      <4>3. InTable(h)'
        BY <4>1, <4>2, TableGrows
      <4> QED BY <4>3 DEF CustomServed
    <3>6. CASE ~httpd.up
      <4>1. ~RuntimeServing /\ ~Filling
        BY <3>6 DEF ServerInv, Server, RuntimeServing, Filling
      <4> QED BY <1>1, <4>1, NothingServed DEF RuntimeServing, Filling
    <3> QED BY <3>5, <3>6
  <2> QED BY <2>4, <2>5, <2>6, <2>7, <2>8, <2>9, <2>10 DEF Application, AppStep
<1>8. \A h \in Customs : Owed(h)' => CustomServed(h)'
  BY <1>5, <1>7 DEF Served
<1> QED BY <1>6, <1>8 DEF Served

LEMMA NextKeepsServed ==
    ASSUME TakeTurns', SdCard = "present", Sound, Table, Served, [Next]_vars PROVE Served'
<1>1. CASE ClientConnects \/ ClientLeaves \/ (\E n \in Handles : DnsTask(n)) \/ UNCHANGED vars
  <2>1. UNCHANGED <<serverVars, registryVars, iface, appVars, listener, serving>>
    BY <1>1 DEF ClientConnects, ClientLeaves, DnsTask, vars
  <2> QED BY <2>1 DEF Served, CustomServed, Owed, Calling, InTable, ToCome, Awaited, RuntimeServing, Filling,
         serverVars, registryVars, appVars
<1> QED BY <1>1, SwitchKeepsServed, AppKeepsServed DEF Next

\* Once a runtime server is complete, a request for each built-in handler reaches
\* that handler, and so does one for each handler that the application was told is
\* registered, whenever it called and from whichever of its tasks, if they take
\* turns at storing (Server-mgr.c:89).  The build has a card: without one the
\* registry is not gone through.
THEOREM HandlersAreReached ==
    ASSUME SdCard = "present" PROVE Spec /\ []TakeTurns => []EveryUriOwnHandler
<1>1. Init => Served
  BY IdleState DEF Init, HandlersInit, Served, CustomServed, Owed, Calling, RuntimeServing, Filling
<1>2. Sound /\ Table /\ Served => EveryUriOwnHandler
  <2> SUFFICES ASSUME Sound, Table, Served, RuntimeServing,
                      NEW h \in BuiltIns \cup {g \in Customs : told[g] = "ok"}
               PROVE  Dispatched(h.uri, h.method) = h
    BY DEF EveryUriOwnHandler
  <2>1. PICK k \in DOMAIN httpd.uris : httpd.uris[k] = h
    BY DEF Served, CustomServed, Owed, InTable
  <2>2. ServerTypes /\ DOMAIN httpd.uris \subseteq Nat
    BY LenProperties DEF Sound, ServerInv, ServerTypes
  <2>3. Matches(httpd.uris[k], h.uri, h.method)
    BY <2>1 DEF Matches
  <2>4. PICK i \in DOMAIN httpd.uris :
            /\ Matches(httpd.uris[i], h.uri, h.method)
            /\ Dispatched(h.uri, h.method) = httpd.uris[i] /\ i <= k
    BY <2>2, <2>3, DispatchedIsFirst
  <2>5. i = k
    BY <2>1, <2>2, <2>4 DEF Table
  <2> QED BY <2>1, <2>4, <2>5
<1>3. TakeTurns' /\ Sound /\ Table /\ Served /\ [Next]_vars => Served'
  BY NextKeepsServed
<1> QED BY <1>1, <1>2, <1>3, TableInvariant, PTL DEF Spec
-----------------------------------------------------------------------------
(* Queries: proofs.  What a fold computes takes two inductions, over the    *)
(* number of positions: that such a function is, and what values it has.    *)

\* Induction over a set of numbers: the library's theorem takes an operator.
LEMMA NumbersBySteps ==
    ASSUME NEW S, 0 \in S, \A n \in Nat : n \in S => n + 1 \in S
    PROVE  Nat \subseteq S
<1> DEFINE T == Nat \ S
           R == OpToRel(<, Nat)
<1>1. SUFFICES ASSUME T # {} PROVE FALSE
  OBVIOUS
<1>2. PICK n \in T : \A k \in T : <<k, n>> \notin R
  <2>1. IsWellFoundedOn(R, Nat)
    BY NatLessThanWellFounded
  <2>2. T \subseteq Nat
    OBVIOUS
  <2> HIDE DEF T, R
  <2> QED BY <1>1, <2>1, <2>2, WFMin
<1>3. n \in Nat /\ n # 0 /\ n - 1 \in Nat
  OBVIOUS
<1>4. n - 1 \in T
  BY <1>3
<1>5. <<n - 1, n>> \in R
  BY <1>3 DEF OpToRel
<1> QED BY <1>2, <1>4, <1>5


\* FoldSeq is a recursive function over sets of positions, one of which is taken
\* out at a time.
Chosen(S) == CHOOSE x \in S : TRUE
AddLabel(labels, f, S) == IF S = {} THEN 0 ELSE f[S \ {Chosen(S)}] + labels[Chosen(S)] + 1
AddQuestion(questions, f, S) ==
    IF S = {} THEN 0 ELSE f[S \ {Chosen(S)}] + QuestionBytes(questions[Chosen(S)])
LabelSums(labels, f) == f = [S \in SUBSET DOMAIN labels |-> AddLabel(labels, f, S)]
QuestionSums(questions, f) == f = [S \in SUBSET DOMAIN questions |-> AddQuestion(questions, f, S)]

LEMMA NameFold ==
    ASSUME NEW labels, NEW f, LabelSums(labels, f)
    PROVE  \E sums : LabelSums(labels, sums) /\ NameBytes(labels) = sums[DOMAIN labels]
<1>1. NameBytes(labels) = (CHOOSE g : LabelSums(labels, g))[DOMAIN labels]
  BY DEF NameBytes, FoldSeq, FoldFunction, FoldFunctionOnSet, MapThenFoldSet, LabelSums,
         AddLabel, Chosen
<1> QED BY <1>1

LEMMA QuestionFold ==
    ASSUME NEW query, NEW f, QuestionSums(query.questions, f)
    PROVE  \E sums : /\ QuestionSums(query.questions, sums)
                     /\ QuestionsEnd(query) = Header + sums[DOMAIN query.questions]
<1>1. QuestionsEnd(query) =
          Header + (CHOOSE g : QuestionSums(query.questions, g))[DOMAIN query.questions]
  BY DEF QuestionsEnd, FoldSeq, FoldFunction, FoldFunctionOnSet, MapThenFoldSet, QuestionSums,
         AddQuestion, Chosen
<1> QED BY <1>1

UpTo(n, I) == {S \in SUBSET I : Cardinality(S) <= n}

LEMMA SubsetsByOne ==
    ASSUME NEW I, IsFiniteSet(I), NEW n \in Nat
    PROVE  /\ UpTo(0, I) = {{}} /\ UpTo(Cardinality(I), I) = SUBSET I
           /\ {} \in UpTo(n, I) /\ UpTo(n, I) \subseteq UpTo(n + 1, I)
           /\ \A S \in UpTo(n + 1, I) : S # {} =>
                  S \ {Chosen(S)} \in UpTo(n, I) /\ Chosen(S) \in I
<1>1. \A S \in SUBSET I : IsFiniteSet(S) /\ Cardinality(S) \in Nat /\ Cardinality(S) <= Cardinality(I)
  BY FS_Subset, FS_CardinalityType
<1>2. \A S \in SUBSET I : Cardinality(S) = 0 <=> S = {}
  BY <1>1, FS_EmptySet
<1>3. ASSUME NEW S \in UpTo(n + 1, I), S # {}
      PROVE  S \ {Chosen(S)} \in UpTo(n, I) /\ Chosen(S) \in I
  <2>1. Chosen(S) \in S
    BY <1>3 DEF Chosen
  <2>2. S \in SUBSET I /\ Cardinality(S) <= n + 1
    BY DEF UpTo
  <2>3. Cardinality(S \ {Chosen(S)}) = Cardinality(S) - 1
    BY <1>1, <2>1, <2>2, FS_RemoveElement
  <2> QED BY <1>1, <2>1, <2>2, <2>3 DEF UpTo
<1> QED BY <1>1, <1>2, <1>3 DEF UpTo

PartSums(labels, f, n) ==
    /\ f \in [UpTo(n, DOMAIN labels) -> Nat]
    /\ \A S \in UpTo(n, DOMAIN labels) : f[S] = AddLabel(labels, f, S)

LEMMA OneMore ==
    ASSUME NEW labels, IsFiniteSet(DOMAIN labels), \A i \in DOMAIN labels : labels[i] \in Nat,
           NEW n \in Nat, NEW f, PartSums(labels, f, n)
    PROVE  \E g : PartSums(labels, g, n + 1)
<1> DEFINE I == DOMAIN labels
           g == [S \in UpTo(n + 1, I) |-> AddLabel(labels, f, S)]
<1>1. f \in [UpTo(n, I) -> Nat] /\ \A S \in UpTo(n, I) : f[S] = AddLabel(labels, f, S)
  BY DEF PartSums
<1>2. \A S \in UpTo(n, I) : g[S] = f[S]
  BY <1>1, SubsetsByOne
<1>3. \A S \in UpTo(n + 1, I) : S # {} => S \ {Chosen(S)} \in UpTo(n, I) /\ Chosen(S) \in I
  BY SubsetsByOne
<1>4. \A S \in UpTo(n + 1, I) : AddLabel(labels, f, S) = AddLabel(labels, g, S)
  BY <1>2, <1>3 DEF AddLabel
<1>5. \A S \in UpTo(n + 1, I) : AddLabel(labels, f, S) \in Nat
  <2> SUFFICES ASSUME NEW S \in UpTo(n + 1, I), S # {} PROVE AddLabel(labels, f, S) \in Nat
    BY DEF AddLabel
  <2>1. f[S \ {Chosen(S)}] \in Nat /\ labels[Chosen(S)] \in Nat
    BY <1>1, <1>3
  <2> QED BY <2>1 DEF AddLabel
<1>6. PartSums(labels, g, n + 1)
  BY <1>4, <1>5 DEF PartSums
<1> QED BY <1>6

\* A name has a number of bytes, whatever its labels.
LEMMA NameHasBytes == ASSUME NEW labels \in Seq(Nat) PROVE NameBytes(labels) \in Nat
<1> DEFINE I == DOMAIN labels
           N == {n \in Nat : \E f : PartSums(labels, f, n)}
<1>1. IsFiniteSet(I) /\ Cardinality(I) \in Nat /\ \A i \in I : labels[i] \in Nat
  <2>1. I = 1 .. Len(labels) /\ Len(labels) \in Nat /\ \A i \in I : labels[i] \in Nat
    BY LenProperties, ElementOfSeq
  <2>2. IsFiniteSet(I)
    BY <2>1, FS_Interval
  <2> QED BY <2>1, <2>2, FS_CardinalityType
<1>2. 0 \in N
  <2> DEFINE g == [S \in UpTo(0, I) |-> 0]
  <2>1. PartSums(labels, g, 0)
    BY <1>1, SubsetsByOne DEF PartSums, AddLabel
  <2> QED BY <2>1
<1>3. \A n \in Nat : n \in N => n + 1 \in N
  BY <1>1, OneMore
<1>4. Nat \subseteq N
  <2> HIDE DEF N
  <2> QED BY <1>2, <1>3, NumbersBySteps
<1>5. PICK f : PartSums(labels, f, Cardinality(I))
  BY <1>1, <1>4
<1>6. UpTo(Cardinality(I), I) = SUBSET I
  BY <1>1, SubsetsByOne
<1>7. LabelSums(labels, f)
  BY <1>5, <1>6 DEF LabelSums, PartSums
<1>8. PICK total : LabelSums(labels, total) /\ NameBytes(labels) = total[I]
  BY <1>7, NameFold
<1> DEFINE M == {n \in Nat : \A S \in UpTo(n, I) : total[S] \in Nat}
<1>9. \A S \in SUBSET I : total[S] = AddLabel(labels, total, S)
  BY <1>8 DEF LabelSums
<1>10. total[{}] \in Nat
  <2>1. total[{}] = AddLabel(labels, total, {})
    BY <1>9
  <2>2. AddLabel(labels, total, {}) = 0
    BY DEF AddLabel
  <2> QED BY <2>1, <2>2
<1>11. 0 \in M
  <2>1. UpTo(0, I) = {{}}
    BY <1>1, SubsetsByOne
  <2>2. \A S \in UpTo(0, I) : S = {}
    BY <2>1
  <2>3. \A S \in UpTo(0, I) : total[S] \in Nat
    BY <1>10, <2>2
  <2> QED BY <2>3
<1>12. ASSUME NEW n \in Nat, n \in M PROVE n + 1 \in M
  <2>1. ASSUME NEW S \in UpTo(n + 1, I), S # {} PROVE total[S] \in Nat
    <3>1. S \ {Chosen(S)} \in UpTo(n, I) /\ Chosen(S) \in I
      BY <1>1, <2>1, SubsetsByOne
    <3>2. S \in SUBSET I
      BY DEF UpTo
    <3>3. total[S] = total[S \ {Chosen(S)}] + labels[Chosen(S)] + 1
      BY <1>9, <2>1, <3>2 DEF AddLabel
    <3> QED BY <1>1, <1>12, <3>1, <3>3
  <2>2. \A S \in UpTo(n + 1, I) : S = {} => total[S] \in Nat
    BY <1>10
  <2>3. \A S \in UpTo(n + 1, I) : total[S] \in Nat
    BY <2>1, <2>2
  <2> QED BY <2>3
<1>13. Nat \subseteq M
  <2> HIDE DEF M
  <2> QED BY <1>11, <1>12, NumbersBySteps
<1>14. total[I] \in Nat
  <2>1. \A S \in UpTo(Cardinality(I), I) : total[S] \in Nat
    BY <1>1, <1>13
  <2> QED BY <1>6, <2>1
<1> QED BY <1>8, <1>14

\* The questions of a query with one question end where that one does.
LEMMA OneQuestion ==
    ASSUME NEW query, DOMAIN query.questions = {1}, QuestionBytes(query.questions[1]) \in Nat
    PROVE  QuestionsEnd(query) = Header + QuestionBytes(query.questions[1])
<1> DEFINE questions == query.questions
           bytes == QuestionBytes(questions[1])
           g == [S \in SUBSET {1} |-> IF S = {} THEN 0 ELSE bytes]
<1>1. \A S \in SUBSET {1} : S # {} => S = {1} /\ Chosen(S) = 1 /\ S \ {Chosen(S)} = {}
  BY DEF Chosen
<1>2. \A S \in SUBSET {1} : g[S] = AddQuestion(questions, g, S)
  BY <1>1 DEF AddQuestion
<1>3. QuestionSums(questions, g)
  BY <1>2 DEF QuestionSums
<1>4. PICK total : QuestionSums(questions, total) /\ QuestionsEnd(query) = Header + total[{1}]
  BY <1>3, QuestionFold
<1>5. \A S \in SUBSET {1} : total[S] = AddQuestion(questions, total, S)
  BY <1>4 DEF QuestionSums
<1>6. total[{}] = 0
  BY <1>5 DEF AddQuestion
<1>7. total[{1}] = total[{}] + bytes
  <2>1. {1} \in SUBSET {1} /\ {1} # {}
    OBVIOUS
  <2>2. Chosen({1}) = 1 /\ {1} \ {Chosen({1})} = {}
    BY <1>1, <2>1
  <2> QED BY <1>5, <2>1, <2>2 DEF AddQuestion
<1> QED BY <1>4, <1>6, <1>7

\* A query that the receive buffer takes is answered where the resolver looks: its
\* name fits parse_dns_name's buffer, and its reply the reply's.
LEMMA PlainFits ==
    ASSUME NEW query \in Received, Plain(query)
    PROVE  WellAnswered(query)
<1> DEFINE q == query.questions[1]
<1>1. /\ query.questions \in Seq([labels: Seq(Nat \ {0}), type: {"A", "other"}])
      /\ Len(query.questions) = 1 /\ query.extra = 0 /\ ~query.beside
      /\ q.type = "A" /\ q.labels # << >> /\ QueryLen(query) <= RxLen
  BY ServicesAssumption DEF Received, Plain, AsksOneAddress
<1>2. DOMAIN query.questions = {1} /\ q \in [labels: Seq(Nat \ {0}), type: {"A", "other"}]
  <2>1. DOMAIN query.questions = 1 .. 1
    BY <1>1, LenProperties
  <2>2. q \in [labels: Seq(Nat \ {0}), type: {"A", "other"}]
    <3>1. 1 \in 1 .. Len(query.questions)
      BY <1>1
    <3>2. query.questions \in Seq([labels: Seq(Nat \ {0}), type: {"A", "other"}])
      BY <1>1
    <3> QED BY <3>1, <3>2, ElementOfSeq
  <2> QED BY <2>1, <2>2
<1>3. q.labels \in Seq(Nat)
  <2> HIDE DEF q
  <2>1. q.labels \in Seq(Nat \ {0}) /\ Nat \ {0} \subseteq Nat
    BY <1>2
  <2> QED BY <2>1, SeqMonotonic
<1>4. NameBytes(q.labels) \in Nat
  BY <1>3, NameHasBytes
<1>5. QueryLen(query) = NameBytes(q.labels) + 17
  <2>1. QuestionBytes(q) = NameBytes(q.labels) + 5
    BY <1>4 DEF QuestionBytes
  <2>2. QuestionsEnd(query) = Header + QuestionBytes(q)
    BY <1>2, <1>4, <2>1, OneQuestion
  <2> QED BY <1>1, <1>4, <2>1, <2>2 DEF QueryLen, Header
<1>6. NameFits(q.labels) /\ ReplyLen(query) <= DNS_MAX_LEN
  BY <1>1, <1>4, <1>5 DEF NameFits, ReplyLen, DNS_MAX_LEN, RxLen, AnswerLen
<1>7. QueryLen(query) = QuestionsEnd(query)
  BY <1>1, <1>2, <1>4, OneQuestion, SMTT(30) DEF QueryLen, QuestionBytes, Header
<1>8. parse_dns_request(query) =
          [len |-> ReplyLen(query), an_count |-> 1, at |-> QueryLen(query),
           records |-> [i \in 1 .. 1 |-> IF i = 1 /\ TypeRead(q) = "A" THEN "address" ELSE "zeros"]]
  <2>1. ~(\/ query.beside \/ ReplyLen(query) > DNS_MAX_LEN
          \/ 1 > 0 /\ ~NameFits(q.labels))
    BY <1>1, <1>4, <1>5, <1>6 DEF ReplyLen, AnswerLen, DNS_MAX_LEN
  <2> QED BY <1>1, <2>1 DEF parse_dns_request
<1>9. [i \in 1 .. 1 |-> IF i = 1 /\ TypeRead(q) = "A" THEN "address" ELSE "zeros"] = <<"address">>
  BY <1>1 DEF TypeRead
<1> QED BY <1>6, <1>7, <1>8, <1>9 DEF WellAnswered, AnswersFound

\* A query for one address that the receive buffer takes gets the address, whatever
\* the length of its name and of its labels (dns_server.c:126).
THEOREM PlainQueriesAreAnswered == Spec => []PlainQueryAnswered
<1>1. PlainQueryAnswered
  BY PlainFits DEF PlainQueryAnswered, PlainAreAnswered
<1> QED BY <1>1, PTL
==============================================================================
