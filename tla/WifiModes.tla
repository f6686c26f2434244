------------------------------ MODULE WifiModes ------------------------------
(***************************************************************************)
(* Which network mode the device is in, and how it gets there: the event   *)
(* group of src/src/Flags.c, and the three tasks that meet in it.          *)
(*   - wifi_flags_listener_task (src/src/Wifi.c) waits for request bits    *)
(*     and switches the mode (src/src/STA.c, AP.c, Captive.c);             *)
(*   - the default event loop runs wifi_event_handler on the events of the *)
(*     radio driver, in the order the driver posted them;                  *)
(*   - the HTTP server runs captive_post_handler, one request at a time.   *)
(* The build has STA, AP and captive mode.  SYNC_TIME_BIT is left out: no  *)
(* code sets it.  The radio driver and the network around it are external. *)
(***************************************************************************)
EXTENDS Integers, Sequences

CONSTANTS
    MaxReconnects,   \* CONFIG_WIFI_MAX_RECONNECTS
    Requests,        \* settings the form may change: subsets of Fields
    DriverErrors,    \* whether calls into ESP-IDF may fail
    MaxEvents        \* bound: events queued when a new one may be caused

Fields == {"sta", "ap", "mdns"}

ASSUME ModesAssumption ==
    /\ MaxReconnects \in Nat \ {0}
    /\ Requests \subseteq SUBSET Fields
    /\ DriverErrors \in BOOLEAN
    /\ MaxEvents \in Nat \ {0}

VARIABLES
    flags,      \* s_wifi_events
    listener,   \* wifi_flags_listener_task: where it is, eventBits and mode
    events,     \* events the driver has posted
    handler,    \* wifi_event_handler: the event, and the bits and mode it read
    fails,      \* sta_fails_count
    radio,      \* mode, whether it is started, and the station's link
    server,     \* HTTP server: "none", or the handlers it has
    dns,        \* whether the DNS server runs
    post,       \* captive_post_handler: the bits it is about to set
    formSent,   \* history: a form was ever accepted
    use,        \* history: what became of the settings in memory, see Uses
    lost        \* history: attempts and links that failed since the last success

vars == <<flags, listener, events, handler, fails, radio, server, dns, post,
          formSent, use, lost>>
eventVars == <<events, handler, fails>>
postVars == <<post, formSent>>

RequestBits == {"to_sta", "to_ap", "to_captive", "reconnect", "mdns"}
Bits == RequestBits \cup {"connected", "ap_mode"}
Events == {"AP_START", "AP_STOP", "STA_START", "STA_CONNECTED", "STA_DISCONNECTED", "GOT_IP"}
Modes == {"sta", "apsta"}

\* Settings in memory are in use where they matter; or an accepted form changed
\* them, and they are to be read; or only forms that were refused changed them;
\* or those were followed by an accepted form with the same values.
Uses == {"inUse", "asked", "left", "missed"}
PutToUse(fields) == use' = [f \in Fields |-> IF f \in fields THEN "inUse" ELSE use[f]]

\* Mutants, the definitions M_... in this module, are never part of Next: each
\* is the definition that follows it with a plausible bug.
-----------------------------------------------------------------------------
(* The radio driver.                                                       *)

\* What dropping the station's link posts: an attempt may end unannounced.
DropEvents ==
    CASE radio.link = "down"   -> {<< >>}
      [] radio.link = "trying" -> {<< >>, <<"STA_DISCONNECTED">>}
      [] OTHER                 -> {<<"STA_DISCONNECTED">>}

esp_wifi_disconnect ==
    /\ \E e \in DropEvents : events' = events \o e
    /\ radio' = [radio EXCEPT !.link = "down"]

esp_wifi_stop ==
    /\ \E e \in DropEvents :
        events' = events \o e
                  \o (IF radio.on /\ radio.mode = "apsta" THEN <<"AP_STOP">> ELSE << >>)
    /\ radio' = [radio EXCEPT !.on = FALSE, !.link = "down"]

esp_wifi_start(mode) ==
    /\ radio' = [mode |-> mode, on |-> TRUE, link |-> "down"]
    /\ events' = events \o (IF mode = "sta" THEN <<"STA_START">>
                            ELSE <<"STA_START", "AP_START">>)

esp_wifi_connect ==
    radio' = IF radio.on /\ radio.link = "down" THEN [radio EXCEPT !.link = "trying"] ELSE radio

\* The network around the device: attempts end, links get an address or break.
LinkStep(from, to, event) ==
    /\ radio.link = from /\ Len(events) < MaxEvents
    /\ radio' = [radio EXCEPT !.link = to]
    /\ events' = Append(events, event)
    /\ lost' = IF to # "down" THEN 0 ELSE IF lost < MaxReconnects THEN lost + 1 ELSE lost
    /\ UNCHANGED <<flags, listener, handler, fails, server, dns, postVars, use>>

AttemptSucceeds == LinkStep("trying", "assoc", "STA_CONNECTED")
AttemptFails == LinkStep("trying", "down", "STA_DISCONNECTED")
GetsAddress == LinkStep("assoc", "up", "GOT_IP")
LinkBreaks ==
    \/ LinkStep("assoc", "down", "STA_DISCONNECTED")
    \/ LinkStep("up", "down", "STA_DISCONNECTED")
-----------------------------------------------------------------------------
(* wifi_event_handler: it reads the bits and the mode, then acts.          *)

NoEvent == [pc |-> "idle", event |-> "AP_STOP", bits |-> {}, mode |-> "sta"]

TakeEvent ==
    /\ handler.pc = "idle" /\ events # << >>
    /\ handler' = [pc |-> "act", event |-> Head(events), bits |-> flags, mode |-> radio.mode]
    /\ events' = Tail(events)
    /\ UNCHANGED <<flags, listener, fails, radio, server, dns, postVars, use, lost>>

Handling(event) == handler.pc = "act" /\ handler.event = event
Handled ==
    /\ handler' = NoEvent
    /\ UNCHANGED <<listener, server, dns, postVars, use, lost>>

ApStart ==
    /\ Handling("AP_START") /\ Handled
    /\ flags' = flags \cup {"ap_mode"}
    /\ UNCHANGED <<events, fails, radio>>

M_ApStop ==                                            \* the bit stays
    /\ Handling("AP_STOP") /\ Handled
    /\ UNCHANGED <<flags, events, fails, radio>>
ApStop ==
    /\ Handling("AP_STOP") /\ Handled
    /\ flags' = flags \ {"ap_mode"}
    /\ UNCHANGED <<events, fails, radio>>

StaStart ==
    /\ Handling("STA_START") /\ Handled
    /\ IF handler.mode = "sta"
       THEN flags' = flags \ {"ap_mode"} /\ esp_wifi_connect
       ELSE UNCHANGED <<flags, radio>>
    /\ UNCHANGED <<events, fails>>

M_Connected ==                                         \* the count is not reset
    /\ Handling("STA_CONNECTED") \/ Handling("GOT_IP")
    /\ Handled
    /\ flags' = flags \cup {"connected"}
    /\ UNCHANGED <<events, fails, radio>>
\* STA_CONNECTED and GOT_IP.
Connected ==
    /\ Handling("STA_CONNECTED") \/ Handling("GOT_IP")
    /\ Handled
    /\ flags' = flags \cup {"connected"}
    /\ fails' = 0
    /\ UNCHANGED <<events, radio>>

\* A lost link counts unless the listener caused it or captive mode is coming.
Counts == /\ handler.bits \cap {"reconnect", "to_captive"} = {}
          /\ handler.mode = "sta"

\* Too many: captive mode is asked for, and the handler returns at once.
GiveUp ==
    /\ Handling("STA_DISCONNECTED") /\ Handled
    /\ Counts /\ fails + 1 >= MaxReconnects
    /\ esp_wifi_disconnect
    /\ fails' = 0
    /\ flags' = flags \cup {"to_captive"}

M_TryAgain ==                                          \* no attempt is made
    /\ Handling("STA_DISCONNECTED") /\ Handled
    /\ Counts /\ fails + 1 < MaxReconnects
    /\ fails' = fails + 1
    /\ flags' = flags \ {"connected"}
    /\ UNCHANGED <<events, radio>>
TryAgain ==
    /\ Handling("STA_DISCONNECTED") /\ Handled
    /\ Counts /\ fails + 1 < MaxReconnects
    /\ esp_wifi_connect
    /\ fails' = fails + 1
    /\ flags' = flags \ {"connected"}
    /\ UNCHANGED events

M_NoteLoss ==                                          \* the handler returns at once here too
    /\ Handling("STA_DISCONNECTED") /\ Handled
    /\ ~Counts
    /\ UNCHANGED <<flags, events, fails, radio>>
NoteLoss ==
    /\ Handling("STA_DISCONNECTED") /\ Handled
    /\ ~Counts
    /\ flags' = flags \ {"connected"}
    /\ UNCHANGED <<events, fails, radio>>

HandlerStep ==
    \/ TakeEvent \/ ApStart \/ ApStop \/ StaStart \/ Connected
    \/ GiveUp \/ TryAgain \/ NoteLoss
-----------------------------------------------------------------------------
(* captive_post_handler: the portal's form always names a wifi_mode.       *)

\* esp_wifi_get_mode never answers WIFI_MODE_AP: both AP modes use APSTA.
Requested(mode, changed) ==
    IF mode = "ap" THEN {"to_ap"}
    ELSE IF radio.mode # "sta" THEN {"to_sta"}
    ELSE (IF "sta" \in changed THEN {"reconnect"} ELSE {})
         \cup (IF "mdns" \in changed THEN {"mdns"} ELSE {})

\* A form is accepted: captive_cfg is changed and saved, under s_cfg_mutex.  What
\* is as it was in captive_cfg asks for nothing.
PostSave(mode, changed) ==
    /\ post.pc = "idle" /\ server # "none" /\ listener.pc # "stop"
    /\ formSent' = TRUE
    /\ use' = [f \in Fields |-> CASE f \in changed    -> "asked"
                               [] use[f] = "left"  -> "missed"
                               [] OTHER            -> use[f]]
    /\ post' = [pc |-> "flags", set |-> Requested(mode, changed)]
    /\ UNCHANGED <<flags, listener, eventVars, radio, server, dns, lost>>

\* The form's authmode or empty password is refused: the fields before it stay
\* changed in captive_cfg, without a request; those of mDNS come after it.
PostRefused(changed) ==
    /\ post.pc = "idle" /\ server # "none" /\ listener.pc # "stop"
    /\ use' = [f \in Fields |-> IF f \in changed \ {"mdns"} /\ use[f] = "inUse" THEN "left" ELSE use[f]]
    /\ UNCHANGED <<flags, listener, eventVars, radio, server, dns, post, formSent, lost>>

PostFlags ==
    /\ post.pc = "flags"
    /\ flags' = flags \cup post.set
    /\ post' = [pc |-> "idle", set |-> {}]
    /\ UNCHANGED <<listener, eventVars, radio, server, dns, formSent, use, lost>>
-----------------------------------------------------------------------------
(* wifi_flags_listener_task.                                               *)

\* The branches of the loop, in their order, each named for its bit.
Branches == <<"to_sta", "to_ap", "to_captive", "reconnect", "mdns">>
Switches == {"to_sta", "to_ap", "to_captive"}
Target(b) == IF b = "to_sta" THEN "sta" ELSE "apsta"

Waiting == [pc |-> "wait", branch |-> "to_sta", bits |-> {}, mode |-> "sta"]

\* The loop from its k-th branch on: the first one the bits that were read ask
\* for; RECONECT also goes by the mode that was read, before any switch.
From(k, bits, mode) ==
    LET asked == {i \in k .. 5 : /\ Branches[i] \in bits
                                 /\ Branches[i] = "reconnect" => mode = "sta"}
    IN  IF asked = {} THEN Waiting
        ELSE [pc |-> "branch", bits |-> bits, mode |-> mode,
              branch |-> Branches[CHOOSE i \in asked : \A j \in asked : i <= j]]

Proceed ==
    LET k == CHOOSE i \in 1 .. 5 : Branches[i] = listener.branch
    IN  listener' = From(k + 1, listener.bits, listener.mode)
Go(pc) == listener' = [listener EXCEPT !.pc = pc]
At(pc, b) == listener.pc = pc /\ listener.branch = b

\* Any request bit wakes it; the bits are read, not cleared; 100 ms pass before
\* the first branch.
Wake ==
    /\ listener.pc = "wait" /\ flags \cap RequestBits # {}
    /\ Len(events) < MaxEvents
    /\ listener' = From(1, flags, radio.mode)
    /\ UNCHANGED <<flags, eventVars, radio, server, dns, postVars, use, lost>>

\* "Already connected to AP, no need to switch."
AlreadyConnected ==
    /\ At("branch", "to_sta") /\ "connected" \in listener.bits
    /\ flags' = flags \ {"to_sta"}
    /\ listener' = Waiting
    /\ UNCHANGED <<eventVars, radio, server, dns, postVars, use, lost>>

\* server_mgr_stop: the server takes no request any more.
StopServer(b) ==
    /\ At("branch", b)
    /\ ~(b = "to_sta" /\ "connected" \in listener.bits)
    /\ Go("stop")
    /\ UNCHANGED <<flags, eventVars, radio, server, dns, postVars, use, lost>>

M_TearDown(b) ==                                       \* the DNS server is left to captive mode
    /\ At("stop", b) /\ post.pc = "idle"
    /\ server' = "none"
    /\ esp_wifi_stop
    /\ Go("radio")
    /\ UNCHANGED <<flags, handler, fails, dns, postVars, use, lost>>
\* The request being served has ended.  The radio stops, and the DNS server,
\* except that captive mode stops an old one only when it starts.
TearDown(b) ==
    /\ At("stop", b) /\ post.pc = "idle"
    /\ server' = "none"
    /\ esp_wifi_stop
    /\ dns' = (dns /\ b = "to_captive")
    /\ Go("radio")
    /\ UNCHANGED <<flags, handler, fails, postVars, use, lost>>

StopsOldDns(b) == dns' = (dns /\ b # "to_captive")
Reads(b) == CASE b = "to_sta" -> {"sta"} [] b = "to_ap" -> {"ap"} [] OTHER -> {}

\* The configuration is read, then esp_wifi_set_mode, _set_config and _start.
RadioUp(b) ==
    /\ At("radio", b) /\ StopsOldDns(b)
    /\ esp_wifi_start(Target(b))
    /\ PutToUse(Reads(b))
    /\ lost' = 0
    /\ Go("server")
    /\ UNCHANGED <<flags, handler, fails, server, postVars>>

\* A call fails, before or after the mode is set.
RadioFails(b) ==
    /\ DriverErrors /\ At("radio", b) /\ StopsOldDns(b)
    /\ \E m \in {radio.mode, Target(b)} : radio' = [radio EXCEPT !.mode = m]
    /\ Go("error")
    /\ UNCHANGED <<flags, eventVars, server, postVars, use, lost>>

\* server_mgr_start, the handlers, and mDNS or DNS.
ServerUp(b) ==
    /\ At("server", b)
    /\ server' = IF b = "to_captive" THEN "captive" ELSE "runtime"
    /\ dns' = (dns \/ b = "to_captive")
    /\ PutToUse(IF b = "to_captive" THEN {} ELSE {"mdns"})
    /\ Go("done")
    /\ UNCHANGED <<flags, eventVars, radio, postVars, lost>>

\* One of them fails.  Captive mode takes everything down again, the others
\* leave the server as far as it came.
ServerFails(b) ==
    /\ DriverErrors /\ At("server", b)
    /\ IF b = "to_captive"
       THEN esp_wifi_stop /\ UNCHANGED server
       ELSE /\ server' \in {"none", "runtime"}
            /\ UNCHANGED <<events, radio>>
    /\ Go("error")
    /\ UNCHANGED <<flags, handler, fails, dns, postVars, use, lost>>

\* The bit is cleared only now.
SwitchDone(b) ==
    /\ At("done", b)
    /\ flags' = flags \ {b}
    /\ Proceed
    /\ UNCHANGED <<eventVars, radio, server, dns, postVars, use, lost>>

\* STA mode leaves a reconnect request behind, the others nothing.
SwitchFailed(b) ==
    /\ At("error", b)
    /\ flags' = (flags \ {b}) \cup (IF b = "to_sta" THEN {"reconnect"} ELSE {})
    /\ Proceed
    /\ UNCHANGED <<eventVars, radio, server, dns, postVars, use, lost>>

DropLink ==
    /\ At("branch", "reconnect")
    /\ esp_wifi_disconnect
    /\ Go("drop")
    /\ UNCHANGED <<flags, handler, fails, server, dns, postVars, use, lost>>

\* Polled every 100 ms; the request is cleared before the settings are read.
LinkDropped ==
    /\ listener.pc = "drop" /\ "connected" \notin flags
    /\ flags' = flags \ {"reconnect"}
    /\ Go("reread")
    /\ UNCHANGED <<eventVars, radio, server, dns, postVars, use, lost>>

M_Reread ==                                            \* connects with what the driver has
    /\ listener.pc = "reread"
    /\ esp_wifi_connect
    /\ Proceed
    /\ UNCHANGED <<flags, eventVars, server, dns, postVars, use, lost>>
Reread ==
    /\ listener.pc = "reread"
    /\ PutToUse({"sta"})
    /\ esp_wifi_connect
    /\ Proceed
    /\ UNCHANGED <<flags, eventVars, server, dns, postVars, lost>>

ReadMdns ==
    /\ At("branch", "mdns")
    /\ PutToUse({"mdns"})
    /\ Go("mdns_set")
    /\ UNCHANGED <<flags, eventVars, radio, server, dns, postVars, lost>>

MdnsDone ==
    /\ listener.pc = "mdns_set"
    /\ flags' = flags \ {"mdns"}
    /\ listener' = Waiting
    /\ UNCHANGED <<eventVars, radio, server, dns, postVars, use, lost>>

ListenerStep ==
    \/ Wake \/ AlreadyConnected
    \/ \E b \in Switches : \/ StopServer(b) \/ TearDown(b)
                           \/ RadioUp(b) \/ RadioFails(b)
                           \/ ServerUp(b) \/ ServerFails(b)
                           \/ SwitchDone(b) \/ SwitchFailed(b)
    \/ DropLink \/ LinkDropped \/ Reread \/ ReadMdns \/ MdnsDone
-----------------------------------------------------------------------------
\* wifi_init has read the settings and set the first request.
Init ==
    /\ \E first \in Switches : flags = {first}
    /\ listener = Waiting
    /\ events = << >> /\ handler = NoEvent /\ fails = 0
    /\ radio = [mode |-> "sta", on |-> FALSE, link |-> "down"]
    /\ server = "none" /\ dns = FALSE
    /\ post = [pc |-> "idle", set |-> {}] /\ formSent = FALSE
    /\ use = [f \in Fields |-> "asked"] /\ lost = 0

Next ==
    \/ AttemptSucceeds \/ AttemptFails \/ GetsAddress \/ LinkBreaks
    \/ HandlerStep
    \/ \E changed \in Requests :
           (\E mode \in {"sta", "ap"} : PostSave(mode, changed)) \/ PostRefused(changed)
    \/ PostFlags
    \/ ListenerStep

Spec == Init /\ [][Next]_vars

\* The tasks are scheduled and the driver ends its attempts; nobody has to use
\* the form and no link has to come up or to break.
FairSpec ==
    /\ Spec
    /\ WF_vars(ListenerStep) /\ WF_vars(HandlerStep) /\ WF_vars(PostFlags)
    /\ WF_vars(AttemptSucceeds \/ AttemptFails)
-----------------------------------------------------------------------------
ListenerPcs == {"wait", "branch", "stop", "radio", "server", "done", "error",
                "drop", "reread", "mdns_set"}

TypeOK ==
    /\ flags \subseteq Bits
    /\ listener \in [pc : ListenerPcs, branch : RequestBits, bits : SUBSET Bits, mode : Modes]
    /\ events \in Seq(Events)
    /\ handler \in [pc : {"idle", "act"}, event : Events, bits : SUBSET Bits, mode : Modes]
    /\ fails \in 0 .. MaxReconnects - 1
    /\ radio \in [mode : Modes, on : BOOLEAN, link : {"down", "trying", "assoc", "up"}]
    /\ server \in {"none", "runtime", "captive"}
    /\ dns \in BOOLEAN
    /\ post \in [pc : {"idle", "flags"}, set : SUBSET RequestBits]
    /\ formSent \in BOOLEAN
    /\ use \in [Fields -> Uses]
    /\ lost \in 0 .. MaxReconnects

\* Nothing is asked for, posted or under way.
Quiet == /\ flags \cap RequestBits = {}
         /\ listener.pc = "wait" /\ events = << >> /\ handler.pc = "idle" /\ post.pc = "idle"

\* Once things have settled the status bits tell the truth about the radio:
\* CONNECTED_BIT the station's link, AP_MODE_BIT the access point.  CONNECTED_BIT
\* is "Event bit indicating WiFi is connected to an AP (STA mode)" (Flags.h:4).
StatusIsTrue ==
    Quiet => /\ "connected" \in flags <=> radio.link \in {"assoc", "up"}
             /\ "ap_mode" \in flags <=> radio.on /\ radio.mode = "apsta"

\* The DNS server that answers every name with the device's own address runs
\* exactly while the captive portal is served, whichever switches failed.
HijackOnlyInPortal ==
    listener.pc = "wait" => (dns <=> server = "captive")

\* Once things have settled in STA mode, no station setting that an accepted form
\* changed waits to be read.
StaSettingsApplied ==
    Quiet /\ server = "runtime" /\ radio.mode = "sta" => use["sta"] # "asked"

\* Until the first form, the event handler asks for captive mode only after
\* MaxReconnects attempts or links failed since the last success: "Maximum
\* reconnect attempts in standard operation mode before switching to AP mode"
\* (Kconfig.projbuild:43).
AsksForPortal == handler.pc = "act" /\ "to_captive" \in flags' \ flags
PortalOnlyAfterFailures == [][AsksForPortal /\ ~formSent => lost = MaxReconnects]_vars

\* Only an established link can keep the listener from coming back to wait for
\* the next request: the form's handler and the event handler never do.
OnlyLinkHoldsListener ==
    listener.pc # "wait" ~> listener.pc = "wait" \/ radio.link \in {"assoc", "up"}

\* A station without a network ends up connected or in the portal, if nobody
\* sends a form.
FallsBack ==
    radio.on /\ radio.mode = "sta" ~>
        radio.link \in {"assoc", "up"} \/ server = "captive" \/ formSent
-----------------------------------------------------------------------------
(* What comments of the code say and the code does not do.                 *)

\* The same with forms: "Maximum reconnect attempts" (Kconfig.projbuild:43) are
\* what brings the portal, and not a disconnection the listener asked for.
OnlyFailuresCount == [][AsksForPortal => lost = MaxReconnects]_vars

\* The POST handler "triggers reconnect or mDNS update as needed"
\* (Captive.c:224): the station settings of every form that was accepted and saved
\* are in use once things settle, also when a refused form brought them first.
AcceptedSettingsUsed ==
    Quiet /\ server = "runtime" /\ radio.mode = "sta" => use["sta"] \notin {"asked", "missed"}

\* The same of names: those that an accepted form changed are announced.
MdnsSettingsApplied ==
    Quiet /\ server = "runtime" /\ radio.mode = "sta" => use["mdns"] # "asked"

\* "AP SSID changed, restarting AP mode to apply..." (Captive.c:287)
ApSettingsApplied ==
    Quiet /\ server = "runtime" /\ radio.mode = "apsta" => use["ap"] # "asked"

\* "Already connected to AP, no need to switch." (Wifi.c:490): a switch to STA
\* mode is refused only in STA mode.
RefusedOnlyInSta ==
    [][AlreadyConnected => radio.mode = "sta"]_vars

\* The listener "Waits for event bits to be set and performs actions such as
\* switching" (Wifi.c:453): it comes back from each of them to do the next.
ListenerReturns == listener.pc # "wait" ~> listener.pc = "wait"

\* "Schedule a reconnect attempt and clear this switch request to avoid busy
\* looping" (Wifi.c:517): a bit that wakes the listener gives it work to do.
NeverSpins ==
    listener.pc = "wait" /\ flags \cap RequestBits # {} => From(1, flags, radio.mode) # Waiting
=============================================================================
