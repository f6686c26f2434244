---------------------------- MODULE CaptiveConfig ----------------------------
(***************************************************************************)
(* The Wi-Fi settings of src/src/Captive.c: captive_cfg in memory, guarded *)
(* by s_cfg_mutex, its copy in flash (src/src/nvs-mgr.c), and the settings *)
(* the network interfaces use.  captive_post_handler takes a form,         *)
(* changes captive_cfg field by field, writes what differs to flash and    *)
(* asks the listener task to put the change in effect; it may refuse the   *)
(* form half-way.  The device may lose power between any two steps.        *)
(*                                                                         *)
(* Of wifi_flags_listener_task this module has what the settings see: which *)
(* it reads for a request and when, and when it clears the request's bit.  *)
(* WifiModes has the rest: the order of a pass, the events, the calls of   *)
(* the driver that fail.  A form is the function from the parameters it    *)
(* has to their values; service_name is treated like mDNS_hostname and     *)
(* left out.  nvs_set_... is taken to reach the flash at once, as the      *)
(* library of ESP-IDF does.                                                *)
(***************************************************************************)
EXTENDS Integers, Sequences

CONSTANTS
    Forms,       \* forms the user may submit
    Saved,       \* the settings in flash at the start
    PowerLoss    \* whether the device may lose power or be restarted

\* The fields of captive_cfg, in the order set_nvs_wifi_settings writes them.
NvsOrder == <<"ssid", "password", "authmode", "ap_ssid", "ap_password", "use_static_ip",
              "use_mDNS", "static_ip", "mDNS_hostname", "wifi_mode">>
Keys == 1 .. Len(NvsOrder)
Fields == {NvsOrder[k] : k \in Keys}

ASSUME ConfigAssumption ==
    /\ Saved = [f \in Fields |-> Saved[f]]
    /\ Saved.wifi_mode \in {"sta", "ap"} /\ Saved.authmode \in {"open", "wpa"}
    /\ Saved.use_static_ip \in BOOLEAN /\ Saved.use_mDNS \in BOOLEAN
    /\ \A form \in Forms :
           /\ DOMAIN form \subseteq Fields
           /\ "wifi_mode" \in DOMAIN form => form.wifi_mode \in {"sta", "ap"}
           /\ \A box \in {"use_static_ip", "use_mDNS"} \cap DOMAIN form : form[box] \in BOOLEAN
    /\ PowerLoss \in BOOLEAN

VARIABLES
    ram,      \* captive_cfg
    nvs,      \* the wifi_settings namespace in flash
    held,     \* s_cfg_mutex is held
    save,     \* set_nvs_wifi_settings: the next key, and the requests that follow
    unsaved,  \* history: fields a refused form changed, not saved since
    pending,  \* requests: bits of the event group
    radio,    \* "off" until the first switch, then "sta", "ap" or "portal"
    serving,  \* what the listener serves: the bit, and what it has to do
    inUse,    \* the settings the interfaces that are up were given
    unasked   \* history: those that changed without a request of theirs

posting == <<ram, nvs, held, save, unsaved>>
listening == <<radio, serving, inUse>>
vars == <<posting, pending, listening, unasked>>

\* Mutants, the definitions M_... in this module, are never part of Next: each
\* is the definition that follows it with a plausible bug.
-----------------------------------------------------------------------------
(* captive_post_handler, parameter by parameter.  "st" is what it has so    *)
(* far: the settings, ssid_changed, the do_... flags, and a refusal.        *)

Has(form, f) == f \in DOMAIN form
Empty == ""

\* The do_... flags a change of this kind sets: some only in STA mode.
Do(st, act, change) == IF change THEN st.acts \cup {act} ELSE st.acts
DoInSta(st, act, change) == Do(st, act, change /\ radio = "sta")

\* esp_wifi_get_mode never answers WIFI_MODE_AP.
ParseMode(form, st) ==
    IF ~Has(form, "wifi_mode") THEN st
    ELSE [st EXCEPT !.cfg.wifi_mode = form.wifi_mode,
                    !.acts = IF form.wifi_mode = "ap" THEN {"to_ap"}
                             ELSE IF radio # "sta" THEN {"to_sta"} ELSE {}]

\* ap_ssid and ap_password; an empty password leaves it as it was.
ParseAp(form, f, st) ==
    LET changed == /\ Has(form, f)
                   /\ form[f] # st.cfg[f]
                   /\ f = "ap_password" => form[f] # Empty
    IN  IF ~changed THEN st
        ELSE [st EXCEPT !.cfg[f] = form[f],
                        !.acts = Do(st, "to_ap", st.cfg.wifi_mode = "ap")]

ParseSsid(form, st) ==
    IF ~Has(form, "ssid") \/ form.ssid = st.cfg.ssid THEN st
    ELSE [st EXCEPT !.cfg.ssid = form.ssid, !.ssid_changed = TRUE,
                    !.acts = DoInSta(st, "reconnect", TRUE)]

\* Enterprise networks and numbers out of range are refused.
ParseAuthmode(form, st) ==
    IF ~Has(form, "authmode") THEN st
    ELSE CASE form.authmode = Empty -> [st EXCEPT !.cfg.authmode = "invalid"]
           [] form.authmode \in {"open", "wpa"} ->
                [st EXCEPT !.cfg.authmode = form.authmode,
                           !.acts = DoInSta(st, "reconnect", form.authmode # st.cfg.authmode)]
           [] OTHER -> [st EXCEPT !.refused = TRUE]

\* A new network needs a password.  An empty one otherwise leaves the old one.
ParsePassword(form, st) ==
    LET new == form.password
        auth == st.cfg.authmode
    IN  IF st.refused \/ ~Has(form, "password") THEN st
        ELSE IF st.ssid_changed /\ new = Empty /\ auth = "wpa" THEN [st EXCEPT !.refused = TRUE]
        ELSE IF (auth # "open" /\ new \notin {Empty, st.cfg.password}) \/ auth = "invalid"
             THEN [st EXCEPT !.cfg.password = new, !.acts = DoInSta(st, "reconnect", TRUE)]
        ELSE IF auth = "open" THEN [st EXCEPT !.cfg.password = Empty] ELSE st

\* An authmode that was not named follows from the password.
FixAuthmode(st) ==
    IF st.refused \/ st.cfg.authmode # "invalid" THEN st
    ELSE [st EXCEPT !.cfg.authmode = IF st.cfg.password # Empty THEN "wpa" ELSE "open",
                    !.acts = DoInSta(st, "reconnect", TRUE)]

\* A box that is not ticked is not in the form.
Ticked(form, f) == Has(form, f) /\ form[f]

M_ParseBox(form, box, f, act, st) ==                   \* a new value alone goes unnoticed
    IF st.refused THEN st
    ELSE [st EXCEPT !.cfg[box] = Ticked(form, box), !.cfg[f] = IF Has(form, f) THEN form[f] ELSE @,
                    !.acts = DoInSta(st, act, Ticked(form, box) # st.cfg[box])]
\* use_static_ip and static_ip, use_mDNS and mDNS_hostname: the box first.
ParseBox(form, box, f, act, st) ==
    LET on == Ticked(form, box)
        changed == Has(form, f) /\ form[f] # st.cfg[f]
    IN  IF st.refused THEN st
        ELSE [st EXCEPT !.cfg[box] = on, !.cfg[f] = IF Has(form, f) THEN form[f] ELSE @,
                        !.acts = DoInSta(st, act, on # st.cfg[box] \/ (changed /\ on))]

Parsed(form) ==
    LET st0 == [cfg |-> ram, ssid_changed |-> FALSE, acts |-> {}, refused |-> FALSE]
        st1 == ParseAp(form, "ap_password", ParseAp(form, "ap_ssid", ParseMode(form, st0)))
        st2 == FixAuthmode(ParsePassword(form, ParseAuthmode(form, ParseSsid(form, st1))))
    IN  ParseBox(form, "use_mDNS", "mDNS_hostname", "mdns",
                 ParseBox(form, "use_static_ip", "static_ip", "reconnect", st2))

\* A switch to STA mode goes before a switch to AP mode, and either before
\* the requests that need no switch.
Bits(acts) ==
    IF "to_sta" \in acts THEN {"to_sta"}
    ELSE IF "to_ap" \in acts THEN {"to_ap"} ELSE acts
-----------------------------------------------------------------------------
(* The settings each interface is given, and the requests that give them.  *)

\* get_sta_wifi_config, get_ap_wifi_config (no password means an open network),
\* get_static_ip_config for each of the two, and get_mdns_config
StaConfig(c) == <<c.ssid, c.authmode, IF c.authmode = "open" THEN Empty ELSE c.password>>
ApConfig(c) == <<c.ap_ssid, c.ap_password>>
IpConfig(c) == IF c.use_static_ip THEN <<c.static_ip>> ELSE <<>>
MdnsConfig(c) == IF c.use_mDNS THEN <<c.mDNS_hostname>> ELSE <<>>

Config(c) == [sta |-> StaConfig(c), sta_ip |-> IpConfig(c),
              ap |-> ApConfig(c), ap_ip |-> IpConfig(c), mdns |-> MdnsConfig(c)]
Settings == {"sta", "sta_ip", "ap", "ap_ip", "mdns"}

\* The portal has settings of its own.
UsedIn(mode) == CASE mode = "sta" -> {"sta", "sta_ip", "mdns"}
                  [] mode = "ap"  -> {"ap", "ap_ip", "mdns"}
                  [] OTHER        -> {}
Changed(c) == {i \in UsedIn(radio) : Config(c)[i] # Config(ram)[i]}

Switches == {"to_sta", "to_ap", "to_portal"}
Requests == Switches \cup {"reconnect", "mdns"}

\* What serving a request reads.
Reads(bit) == CASE bit = "to_sta"    -> UsedIn("sta")
                [] bit = "to_ap"     -> UsedIn("ap")
                [] bit = "reconnect" -> {"sta", "sta_ip"}
                [] bit = "mdns"      -> {"mdns"}
                [] OTHER             -> {}
\* A switch changes the mode first.
Todo(bit) == Reads(bit) \cup (IF bit \in Switches THEN {"mode"} ELSE {})
Waiting == [bit |-> "none", todo |-> {}]
NotGiven == [i \in Settings |-> <<>>]

\* The bit that is cleared when it is served, whoever sets it before: RECONECT
\* is cleared before its settings are read, the others after.
Doomed == {serving.bit} \ {"reconnect"}
Late(bits) == UNION {Reads(bit) \ serving.todo : bit \in bits \cap Doomed}
-----------------------------------------------------------------------------
(* captive_post_handler, its steps.                                        *)

Idle == [key |-> 0, bits |-> {}]

\* set_nvs_wifi_settings(c) goes from one key to the next that differs in flash.
Same(k, c) == nvs[NvsOrder[k]] = c[NvsOrder[k]]
FirstFrom(k, c) ==
    {n \in k .. Len(NvsOrder) + 1 : (n \in Keys => ~Same(n, c)) /\ \A m \in k .. n - 1 : Same(m, c)}

\* A switch stops the server, and starts it again before it reads the settings
\* of mDNS.
Served == radio # "off" /\ (serving.bit \in Switches => serving.todo \subseteq {"mdns"})

\* The form is taken, under the mutex.
PostAccepted(form) ==
    /\ Served /\ save = Idle /\ ~held
    /\ LET st == Parsed(form)
       IN  /\ ~st.refused
           /\ ram' = st.cfg
           /\ \E n \in FirstFrom(1, st.cfg) : save' = [key |-> n, bits |-> Bits(st.acts)]
           /\ unasked' = (unasked \ Changed(st.cfg)) \cup (Changed(st.cfg) \cap Late(Bits(st.acts)))
    /\ held' = TRUE
    /\ UNCHANGED <<nvs, unsaved, pending, listening>>

M_PostRefused(form) ==                                 \* the mutex is not given back
    /\ Served /\ save = Idle /\ ~held
    /\ Parsed(form).refused
    /\ ram' = Parsed(form).cfg
    /\ unsaved' = unsaved \cup {f \in Fields : ram'[f] # ram[f]}
    /\ unasked' = unasked \cup Changed(ram')
    /\ held' = TRUE
    /\ UNCHANGED <<nvs, save, pending, listening>>
\* 400 Bad Request: the mutex is given back, captive_cfg stays as far as it came.
PostRefused(form) ==
    /\ Served /\ save = Idle /\ ~held
    /\ Parsed(form).refused
    /\ ram' = Parsed(form).cfg
    /\ unsaved' = unsaved \cup {f \in Fields : ram'[f] # ram[f]}
    /\ unasked' = unasked \cup Changed(ram')
    /\ UNCHANGED <<nvs, held, save, pending, listening>>

M_WriteKey ==                                          \* one key is forgotten
    /\ save.key \in Keys
    /\ LET f == NvsOrder[save.key]
       IN  nvs' = IF f = "mDNS_hostname" THEN nvs ELSE [nvs EXCEPT ![f] = ram[f]]
    /\ \E n \in FirstFrom(save.key + 1, ram) : save' = [save EXCEPT !.key = n]
    /\ UNCHANGED <<ram, held, unsaved, pending, listening, unasked>>
WriteKey ==
    /\ save.key \in Keys
    /\ LET f == NvsOrder[save.key] IN nvs' = [nvs EXCEPT ![f] = ram[f]]
    /\ \E n \in FirstFrom(save.key + 1, ram) : save' = [save EXCEPT !.key = n]
    /\ UNCHANGED <<ram, held, unsaved, pending, listening, unasked>>

AllKeys == save.key = Len(NvsOrder) + 1

\* The mutex is given back, then the bits are set.
GiveMutex ==
    /\ AllKeys /\ held
    /\ held' = FALSE
    /\ unsaved' = {}
    /\ UNCHANGED <<ram, nvs, save, pending, listening, unasked>>
PostDone ==
    /\ AllKeys /\ ~held
    /\ pending' = pending \cup save.bits
    /\ save' = Idle
    /\ UNCHANGED <<ram, nvs, held, unsaved, listening, unasked>>
-----------------------------------------------------------------------------
(* wifi_flags_listener_task.  A reconnect goes by the mode at the beginning *)
(* of the pass, which a switch of that pass may have changed.              *)

StartServing(bit) ==
    /\ serving = Waiting /\ bit \in pending
    /\ serving' = [bit |-> bit, todo |-> Todo(bit)]
    /\ pending' = IF bit = "reconnect" THEN pending \ {bit} ELSE pending
    /\ UNCHANGED <<posting, radio, inUse, unasked>>

\* server_mgr_stop waits for the handler to return; esp_wifi_stop and mdns_free
\* end what is up.
SwitchMode ==
    /\ "mode" \in serving.todo /\ save = Idle
    /\ serving' = [serving EXCEPT !.todo = @ \ {"mode"}]
    /\ radio' = CASE serving.bit = "to_sta" -> "sta"
                  [] serving.bit = "to_ap"  -> "ap"
                  [] OTHER                  -> "portal"
    /\ inUse' = NotGiven
    /\ unasked' = {}
    /\ UNCHANGED <<posting, pending>>

\* One of the settings is read, under the mutex, and given to its interface.
ReadSettings(i) ==
    /\ i \in serving.todo /\ ~held
    /\ "mode" \notin serving.todo
    /\ i = "mdns" => serving.todo = {"mdns"}
    /\ serving' = [serving EXCEPT !.todo = @ \ {i}]
    /\ inUse' = [inUse EXCEPT ![i] = Config(ram)[i]]
    /\ unasked' = unasked \ {i}
    /\ UNCHANGED <<posting, pending, radio>>

\* The bit is cleared, also if it was set again since its settings were read.
ServeDone ==
    /\ serving # Waiting /\ serving.todo = {}
    /\ pending' = pending \ Doomed
    /\ serving' = Waiting
    /\ UNCHANGED <<posting, radio, inUse, unasked>>

\* "Already connected to AP, no need to switch": by an event that is late.
DropRequest ==
    /\ serving = Waiting /\ "to_sta" \in pending /\ radio \in {"ap", "portal"}
    /\ pending' = pending \ {"to_sta"}
    /\ unasked' = UsedIn(radio)
    /\ UNCHANGED <<posting, listening>>

\* wifi_event_handler: too many attempts to connect have failed.
FallBack ==
    /\ radio = "sta" /\ {"reconnect", "to_portal"} \cap pending = {}
    /\ pending' = pending \cup {"to_portal"}
    /\ UNCHANGED <<posting, listening, unasked>>

\* wifi_init: the first mode.  With no network to join it is the portal.
Boot(c) == IF c.wifi_mode = "ap" THEN "to_ap" ELSE IF c.ssid = Empty THEN "to_portal" ELSE "to_sta"

\* A power loss or /restart: nothing in memory survives.
Restart ==
    /\ PowerLoss
    /\ ram' = nvs
    /\ held' = FALSE /\ save' = Idle
    /\ pending' = {Boot(nvs)}
    /\ radio' = "off" /\ serving' = Waiting /\ inUse' = NotGiven
    /\ unsaved' = {} /\ unasked' = {}
    /\ UNCHANGED nvs

Init ==
    /\ ram = Saved /\ nvs = Saved
    /\ held = FALSE /\ save = Idle
    /\ pending = {Boot(Saved)}
    /\ radio = "off" /\ serving = Waiting /\ inUse = NotGiven
    /\ unsaved = {} /\ unasked = {}

Next ==
    \/ \E form \in Forms : PostAccepted(form) \/ PostRefused(form)
    \/ WriteKey \/ GiveMutex \/ PostDone
    \/ \E bit \in Requests : StartServing(bit)
    \/ SwitchMode
    \/ \E i \in Settings : ReadSettings(i)
    \/ ServeDone \/ DropRequest \/ FallBack
    \/ Restart

Spec == Init /\ [][Next]_vars

\* The HTTP server ends a request it has begun.  A task waiting for the mutex
\* gets it although other requests take it in between: the mutex serves the
\* task of the higher priority, and the one that waited longest, first.  Each
\* pass of the listener looks at every bit, at RECONECT only in STA mode.  (That
\* a reconnect's wait for the disconnection ends is WifiModes' question.)
FairSpec ==
    /\ Spec
    /\ WF_vars(WriteKey \/ GiveMutex \/ PostDone)
    /\ \A bit \in Requests : SF_vars((bit = "reconnect" => radio = "sta") /\ StartServing(bit))
    /\ SF_vars(\E i \in Settings : ReadSettings(i))
    /\ WF_vars(SwitchMode)
    /\ WF_vars(ServeDone)
-----------------------------------------------------------------------------
\* In particular no settings are kept with an authmode that is not known.
TypeOK ==
    /\ \A c \in {ram, nvs} : /\ DOMAIN c = Fields
                             /\ c.wifi_mode \in {"sta", "ap"}
                             /\ c.authmode \in {"open", "wpa"}
                             /\ c.use_static_ip \in BOOLEAN /\ c.use_mDNS \in BOOLEAN
    /\ held \in BOOLEAN
    /\ save \in [key : 0 .. Len(NvsOrder) + 1, bits : SUBSET Requests]
    /\ unsaved \subseteq Fields
    /\ pending \subseteq Requests
    /\ radio \in {"off", "sta", "ap", "portal"}
    /\ serving \in [bit : Requests \cup {"none"}, todo : SUBSET (Settings \cup {"mode"})]
    /\ DOMAIN inUse = Settings
    /\ unasked \subseteq Settings

\* Memory and flash differ only in what a refused form left behind: no setting
\* that was accepted is lost with the power, none comes back, and saving a later
\* form saves what a refused one left (set_nvs_wifi_settings).
SavedSurvives == ~held => \A f \in Fields \ unsaved : nvs[f] = ram[f]

\* No request is being handled or waits to be served.  A reconnect request that
\* finds the device in an AP mode stays.
Settled ==
    /\ save = Idle /\ serving = Waiting
    /\ pending \subseteq (IF radio = "sta" THEN {} ELSE {"reconnect"})

\* Once the requests are served, each interface that is up uses the settings in
\* captive_cfg, but for those a refused form left there, those of a request that
\* was set while the one before it was cleared, and those of a switch that was
\* dropped: no accepted change goes without its request, and no request of an
\* earlier form undoes one.
AcceptedIsUsed == Settled => \A i \in UsedIn(radio) \ unasked : inUse[i] = Config(ram)[i]

\* Every request is served, the first switch included, if the device is not
\* restarted for ever: each way out of the handler gives the mutex back.
RequestsServed ==
    <>[][~Restart]_vars =>
        \A bit \in Requests : []<>(bit \notin pending \/ (bit = "reconnect" /\ radio # "sta"))
-----------------------------------------------------------------------------
(* What comments of the code say and the code does not do.  TLC refutes    *)
(* each of these definitions, under the constants the README names; none   *)
(* is a property of a run.                                                 *)

\* captive_post_handler "updates config, and triggers reconnect or mDNS update as
\* needed" (Captive.c:224): no interface is left with other settings.
AllInUse == Settled => \A i \in UsedIn(radio) : inUse[i] = Config(ram)[i]

\* "triggers reconnect or mDNS update as needed" (Captive.c:224): the mode that was
\* saved last is the one the device is in, or it is in the portal.
ModeAsSaved == Settled /\ radio \in {"sta", "ap"} => radio = nvs.wifi_mode

\* "Safety: If SSID changed and password is empty, reject the request"
\* (Captive.c:352), and the saved changes are committed atomically
\* (nvs-mgr.c:73): a password in flash was entered for the network it is
\* stored with.
Given == {<<f.ssid, f.password>> : f \in {g \in Forms : Has(g, "ssid") /\ Has(g, "password")}}
         \cup {<<Saved.ssid, Saved.password>>}
PasswordFitsNetwork ==
    ~held /\ nvs.authmode = "wpa" => <<nvs.ssid, nvs.password>> \in Given

\* "Leave empty for open network" (captive.html:68): submitting no password for
\* the access point opens it.
EmptyOpensAp ==
    [][\A form \in Forms :
        PostAccepted(form) /\ Has(form, "ap_password") /\ form.ap_password = Empty
            => ram'.ap_password = Empty]_vars
=============================================================================
