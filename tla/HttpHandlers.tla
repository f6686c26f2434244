---------------------------- MODULE HttpHandlers ----------------------------
(***************************************************************************)
(* The server manager, src/src/Server-mgr.c: the HTTP server's handle, its *)
(* table of URI handlers, the registry of the application's handlers, and  *)
(* the application tasks that fill the registry.  The listener task, which *)
(* starts and stops the server at the same time, is in PortalServices.     *)
(* esp_http_server is external: its table is a sequence, a request goes to *)
(* the first entry that matches.  The build has the captive portal.        *)
(***************************************************************************)
EXTENDS Integers, Sequences, FiniteSets

CONSTANTS
    Apps,        \* application tasks
    Customs,     \* the handlers they register: records of uri, method, by
    MaxCustom,   \* CONFIG_WIFI_MAX_CUSTOM_HTTP_HANDLERS
    SdCard,      \* "present", "absent", or "off": built without
    Spa          \* CONFIG_WIFI_SD_FILE_SERVING_MODE_SPA

ASSUME HandlersAssumption ==
    /\ \A h \in Customs : h.by = "app"
    /\ MaxCustom \in Nat \ {0}
    /\ SdCard \in {"present", "absent", "off"}
    /\ Spa \in BOOLEAN

VARIABLES
    server,                \* whether the handle `server` is not NULL
    httpd,                 \* whether the server it names runs, and its table
    custom_handlers,       \* the registry's array
    custom_handler_count,
    iface,                 \* mode and access-point ssid, as the driver gives them
    app,                   \* each task's call of wifi_register_http_handler
    told                   \* history: what the last call for each handler returned

serverVars == <<server, httpd>>
registryVars == <<custom_handlers, custom_handler_count>>
appVars == <<app, told>>

Wifi(uri, method) == [uri |-> uri, method |-> method, by |-> "wifi"]
NoHandler == [uri |-> "none", method |-> "none", by |-> "none"]
Stopped == [up |-> FALSE, uris |-> << >>]

\* Mutants, the definitions M_... in this module, are never part of a step:
\* each is the definition that follows it with a plausible bug.
-----------------------------------------------------------------------------
(* The HTTP server's table.                                                *)

M_Capacity == MaxCustom + 7                            \* one built-in was not counted
Capacity == MaxCustom + 8

\* httpd_uri_match_wildcard, for the patterns that occur.
Matches(entry, uri, method) == entry.method = method /\ entry.uri \in {uri, "/*"}

\* The handler a request reaches: the first that matches.
Dispatched(uri, method) ==
    LET found == {i \in DOMAIN httpd.uris : Matches(httpd.uris[i], uri, method)}
    IN  IF found = {} THEN NoHandler
        ELSE httpd.uris[CHOOSE i \in found : \A j \in found : i <= j]

\* httpd_register_uri_handler looks for a match of the new handler's uri first.
Outcome(h) ==
    IF Dispatched(h.uri, h.method) # NoHandler THEN "exists"
    ELSE IF Len(httpd.uris) >= Capacity THEN "full" ELSE "ok"

httpd_register_uri_handler(h) ==
    httpd' = IF Outcome(h) = "ok" THEN [httpd EXCEPT !.uris = Append(@, h)] ELSE httpd
-----------------------------------------------------------------------------
(* wifi_register_http_handler.  Nothing locks the registry or the server.  *)

Calling(a, pc) == app[a].pc = pc
AppGo(a, pc) == app' = [app EXCEPT ![a].pc = pc]
Return(a, result) ==
    /\ app' = [app EXCEPT ![a] = [pc |-> "idle", h |-> NoHandler]]
    /\ told' = [told EXCEPT ![app[a].h] = result]

\* A handler is registered once, and again when the call returned an error.
MayCall(a, h) ==
    /\ Calling(a, "idle") /\ told[h] \in {"new", "error"}
    /\ \A b \in Apps : app[b].h # h

RegistryFull(a, h) ==
    /\ MayCall(a, h) /\ custom_handler_count >= MaxCustom
    /\ told' = [told EXCEPT ![h] = "no_mem"]
    /\ UNCHANGED <<app, serverVars, registryVars, iface>>

M_StoreHandler(a, h) ==                                \* the limit is not checked
    /\ MayCall(a, h)
    /\ custom_handlers' = [custom_handlers EXCEPT ![custom_handler_count + 1] = h]
    /\ app' = [app EXCEPT ![a] = [pc |-> "count", h |-> h]]
    /\ UNCHANGED <<told, serverVars, custom_handler_count, iface>>
StoreHandler(a, h) ==
    /\ MayCall(a, h) /\ custom_handler_count < MaxCustom
    /\ custom_handlers' = [custom_handlers EXCEPT ![custom_handler_count + 1] = h]
    /\ app' = [app EXCEPT ![a] = [pc |-> "count", h |-> h]]
    /\ UNCHANGED <<told, serverVars, custom_handler_count, iface>>

CountHandler(a) ==
    /\ Calling(a, "count")
    /\ custom_handler_count' = custom_handler_count + 1
    /\ AppGo(a, "server")
    /\ UNCHANGED <<told, serverVars, custom_handlers, iface>>

LookForServer(a) ==
    /\ Calling(a, "server")
    /\ IF server THEN AppGo(a, "mode") /\ UNCHANGED told ELSE Return(a, "ok")
    /\ UNCHANGED <<serverVars, registryVars, iface>>

ReadMode(a) ==
    /\ Calling(a, "mode")
    /\ AppGo(a, IF iface.mode = "apsta" THEN "ssid" ELSE "register")
    /\ UNCHANGED <<told, serverVars, registryVars, iface>>

M_ReadSsid(a) ==                                       \* every access point is the portal
    /\ Calling(a, "ssid")
    /\ Return(a, "ok")
    /\ UNCHANGED <<serverVars, registryVars, iface>>
\* The portal is known by its ssid; there the handler is only stored.
ReadSsid(a) ==
    /\ Calling(a, "ssid")
    /\ IF iface.ssid = "portal" THEN Return(a, "ok") ELSE AppGo(a, "register") /\ UNCHANGED told
    /\ UNCHANGED <<serverVars, registryVars, iface>>

\* `server` is read again.  Between httpd_stop and the assignment of NULL the
\* handle dangles: the call may then return anything.
RegisterNow(a) ==
    /\ Calling(a, "register")
    /\ IF httpd.up
       THEN /\ httpd_register_uri_handler(app[a].h)
            /\ Return(a, IF Outcome(app[a].h) = "ok" THEN "ok" ELSE "error")
       ELSE /\ \E result \in IF server THEN {"ok", "error"} ELSE {"error"} : Return(a, result)
            /\ UNCHANGED httpd
    /\ UNCHANGED <<server, registryVars, iface>>

AppStep(a) ==
    \/ \E h \in Customs : RegistryFull(a, h) \/ StoreHandler(a, h)
    \/ CountHandler(a) \/ LookForServer(a) \/ ReadMode(a) \/ ReadSsid(a) \/ RegisterNow(a)
-----------------------------------------------------------------------------
(* What the listener registers.                                            *)

captive_portal_handlers ==
    <<Wifi("/captive", "GET"), Wifi("/captive", "POST"),
      Wifi("/captive.json", "GET"), Wifi("/scan.json", "GET")>>
common_handlers == <<Wifi("/restart", "POST")>>

\* Where the loop of register_custom_http_handlers comes in the sequence.
TheRegistry == [uri |-> "custom_handlers", method |-> "all", by |-> "registry"]

\* register_runtime_handlers: the registry only comes with a card.
runtime_handlers ==
    common_handlers \o captive_portal_handlers
    \o <<Wifi("/index.html", "GET"), Wifi("/wifi-status.json", "GET")>>
    \o CASE SdCard = "present" -> <<TheRegistry, Wifi("/*", "GET")>>
                                  \o (IF Spa THEN <<Wifi("/*", "HEAD")>> ELSE << >>)
         [] SdCard = "absent"  -> <<Wifi("/*", "GET")>>
         [] SdCard = "off"     -> << >>
portal_handlers == captive_portal_handlers \o common_handlers

BuiltIns == {h \in {runtime_handlers[i] : i \in DOMAIN runtime_handlers} : h.by = "wifi"}
-----------------------------------------------------------------------------
HandlersInit ==
    /\ server = FALSE
    /\ httpd = Stopped
    /\ custom_handlers = [i \in 1 .. MaxCustom |-> NoHandler]
    /\ custom_handler_count = 0
    /\ iface = [mode |-> "null", ssid |-> "user"]
    /\ app = [a \in Apps |-> [pc |-> "idle", h |-> NoHandler]]
    /\ told = [h \in Customs |-> "new"]

HandlersTypeOK ==
    /\ server \in BOOLEAN
    /\ httpd.up \in BOOLEAN
    /\ httpd.uris \in Seq(Customs \cup BuiltIns)
    /\ Len(httpd.uris) <= Capacity
    /\ custom_handlers \in [1 .. MaxCustom -> Customs \cup {NoHandler}]
    /\ custom_handler_count \in 0 .. MaxCustom
    /\ iface \in [mode: {"null", "sta", "apsta"}, ssid: {"user", "portal"}]
    /\ app \in [Apps -> [pc: {"idle", "count", "server", "mode", "ssid", "register"},
                         h: Customs \cup {NoHandler}]]
    /\ told \in [Customs -> {"new", "ok", "no_mem", "error"}]
=============================================================================
