------------------------- MODULE CaptiveConfigProofs -------------------------
(***************************************************************************)
(* Proofs about CaptiveConfig, for all settings, forms and power losses.   *)
(*                                                                         *)
(* Saving: while set_nvs_wifi_settings is at work, the keys it has passed  *)
(* are in flash as they are in memory, and nobody changes either; outside, *)
(* the fields that differ are those a refused form changed.  Using: unless *)
(* a switch of the mode is due, each of the settings in use is the one in  *)
(* captive_cfg, or it is still to be read, by the request being served or  *)
(* by one whose bit is set or will be and does not go with that request's. *)
(***************************************************************************)
EXTENDS CaptiveConfig, TLAPS

\* A form that is taken while the device is an access point names the mode, as the
\* captive page's does.
ApModeNamed == \A form \in Forms : PostAccepted(form) /\ radio = "ap" => Has(form, "wifi_mode")

-----------------------------------------------------------------------------
(* The settings and what a handler makes of them.                          *)

SavedValues == {Saved[f] : f \in Fields}
FormsValues == UNION {{form[f] : f \in DOMAIN form} : form \in Forms}
Values == SavedValues \cup FormsValues \cup {Empty, "open", "wpa", "invalid"} \cup BOOLEAN
Configs == [Fields -> Values]

Modes(c) == c.wifi_mode \in {"sta", "ap"} /\ c.use_static_ip \in BOOLEAN /\ c.use_mDNS \in BOOLEAN
IsConfig(c) == c \in Configs /\ Modes(c) /\ c.authmode \in {"open", "wpa"}

States == [cfg : Configs, ssid_changed : BOOLEAN, acts : SUBSET Requests, refused : BOOLEAN]
IsState(st) ==
    st \in States /\ Modes(st.cfg) /\ st.cfg.authmode \in {"open", "wpa", "invalid"}

\* In STA mode, what differs from captive_cfg has its request; an authmode that is
\* not known yet will have it.
SameSta(c) ==
    /\ c.ssid = ram.ssid /\ c.authmode = ram.authmode
    /\ c.authmode # "open" => c.password = ram.password
    /\ c.use_static_ip = ram.use_static_ip /\ (c.use_static_ip => c.static_ip = ram.static_ip)
SameMdns(c) == c.use_mDNS = ram.use_mDNS /\ (c.use_mDNS => c.mDNS_hostname = ram.mDNS_hostname)
Tells(st) ==
    radio = "sta" =>
        /\ SameSta(st.cfg) \/ "reconnect" \in st.acts \/ st.cfg.authmode = "invalid"
        /\ SameMdns(st.cfg) \/ "mdns" \in st.acts

\* A form is refused only where its authmode is known.
Known(st) == st.refused => st.cfg.authmode # "invalid"

\* What a later part of the handler does to what an earlier one left.
Follows(st, next) ==
    /\ IsState(next) /\ (Tells(st) => Tells(next)) /\ (Known(st) => Known(next))
    /\ st.acts \subseteq next.acts /\ next.cfg.wifi_mode = st.cfg.wifi_mode
    /\ st.refused => next.refused

LEMMA FieldNames ==
    /\ Keys = 1 .. 10 /\ Len(NvsOrder) = 10
    /\ Fields = {"ssid", "password", "authmode", "ap_ssid", "ap_password", "use_static_ip",
                 "use_mDNS", "static_ip", "mDNS_hostname", "wifi_mode"}
<1>1. Len(NvsOrder) = 10
  BY DEF NvsOrder
<1>2. Keys = {1, 2, 3, 4, 5, 6, 7, 8, 9, 10}
  BY <1>1 DEF Keys
<1>3. Fields = {NvsOrder[1], NvsOrder[2], NvsOrder[3], NvsOrder[4], NvsOrder[5], NvsOrder[6],
                NvsOrder[7], NvsOrder[8], NvsOrder[9], NvsOrder[10]}
  BY <1>2 DEF Fields
<1> QED BY <1>1, <1>2, <1>3 DEF NvsOrder, Keys

LEMMA FormValues ==
    ASSUME NEW form \in Forms, NEW f, Has(form, f)
    PROVE  f \in Fields /\ form[f] \in Values
<1>1. f \in DOMAIN form
  BY DEF Has
<1>2. form[f] \in {form[g] : g \in DOMAIN form}
  BY <1>1
<1>3. form[f] \in UNION {{g[h] : h \in DOMAIN g} : g \in Forms}
  <2> DEFINE Of(g) == {g[h] : h \in DOMAIN g}
  <2>1. form[f] \in Of(form) /\ Of(form) \in {Of(g) : g \in Forms}
    BY <1>2
  <2> QED BY <2>1
<1>4. f \in Fields
  BY <1>1, ConfigAssumption
<1> QED BY <1>3, <1>4 DEF Values, FormsValues

LEMMA OwnValues == {Empty, "open", "wpa", "invalid"} \subseteq Values /\ BOOLEAN \subseteq Values
  BY DEF Values

LEMMA SavedIsConfig == IsConfig(Saved)
<1>1. Saved \in Configs
  BY ConfigAssumption DEF Configs, Values, SavedValues
<1> QED BY <1>1, ConfigAssumption DEF IsConfig, Modes

\* What captive_post_handler begins with.
Start == [cfg |-> ram, ssid_changed |-> FALSE, acts |-> {}, refused |-> FALSE]

LEMMA ModeParsed ==
    ASSUME IsConfig(ram), NEW form \in Forms
    PROVE  /\ IsState(ParseMode(form, Start)) /\ Tells(ParseMode(form, Start))
           /\ ~Has(form, "wifi_mode") => ParseMode(form, Start) = Start
           /\ Has(form, "wifi_mode") =>
                  /\ ParseMode(form, Start).cfg.wifi_mode = form.wifi_mode
                  /\ form.wifi_mode = "ap" => "to_ap" \in ParseMode(form, Start).acts
                  /\ form.wifi_mode = "sta" /\ radio # "sta" =>
                         "to_sta" \in ParseMode(form, Start).acts
<1>1. IsState(Start) /\ Tells(Start)
  <2>1. Start \in States
    BY DEF Start, States, IsConfig
  <2> QED BY <2>1 DEF Start, IsState, IsConfig, Modes, Tells, SameSta, SameMdns
<1>2. CASE ~Has(form, "wifi_mode")
  BY <1>1, <1>2 DEF ParseMode
<1>3. CASE Has(form, "wifi_mode")
  <2> DEFINE acts == IF form.wifi_mode = "ap" THEN {"to_ap"}
                     ELSE IF radio # "sta" THEN {"to_sta"} ELSE {}
             next == [Start EXCEPT !.cfg.wifi_mode = form.wifi_mode, !.acts = acts]
  <2>1. ParseMode(form, Start) = next
    BY <1>3 DEF ParseMode
  <2>2. form.wifi_mode \in Values /\ form.wifi_mode \in {"sta", "ap"}
    BY <1>3, FormValues, ConfigAssumption DEF Has
  <2>3. acts \in SUBSET Requests
    BY DEF Requests, Switches
  <2>4. next \in States
    BY <1>1, <2>2, <2>3, FieldNames DEF IsState, States, Configs
  <2>5. /\ next.cfg.wifi_mode = form.wifi_mode /\ next.acts = acts
        /\ \A f \in Fields : f # "wifi_mode" => next.cfg[f] = ram[f]
    BY <1>1, <2>3, FieldNames DEF IsState, States, Configs, Start
  <2> HIDE DEF next
  <2>6. IsState(next) /\ Tells(next)
    BY <1>1, <2>2, <2>4, <2>5, FieldNames
       DEF IsState, Modes, Tells, SameSta, SameMdns, IsConfig, Start
  <2> QED BY <1>3, <2>1, <2>2, <2>5, <2>6
<1> QED BY <1>2, <1>3

LEMMA ApParsed ==
    ASSUME NEW form \in Forms, NEW st, IsState(st), NEW f \in {"ap_ssid", "ap_password"}
    PROVE  /\ Follows(st, ParseAp(form, f, st))
           /\ ParseAp(form, f, st).cfg.authmode = st.cfg.authmode
           /\ ParseAp(form, f, st).refused = st.refused
<1> DEFINE changed == Has(form, f) /\ form[f] # st.cfg[f]
                      /\ (f = "ap_password" => form[f] # Empty)
           acts == Do(st, "to_ap", st.cfg.wifi_mode = "ap")
           next == [st EXCEPT !.cfg[f] = form[f], !.acts = acts]
<1>1. CASE ~changed
  BY <1>1 DEF ParseAp, Follows
<1>2. CASE changed
  <2>1. ParseAp(form, f, st) = next
    BY <1>2 DEF ParseAp
  <2>2. acts \in SUBSET Requests /\ st.acts \subseteq acts
    BY DEF Do, IsState, States, Requests, Switches
  <2>3. /\ next \in States /\ next.acts = acts /\ next.refused = st.refused
        /\ \A g \in Fields : g # f => next.cfg[g] = st.cfg[g]
    BY <1>2, <2>2, FormValues, FieldNames DEF IsState, States, Configs
  <2> HIDE DEF next, acts
  <2> QED BY <2>1, <2>2, <2>3, FieldNames
          DEF Follows, IsState, Modes, Tells, Known, SameSta, SameMdns
<1> QED BY <1>1, <1>2

LEMMA SsidParsed ==
    ASSUME NEW form \in Forms, NEW st, IsState(st)
    PROVE  /\ Follows(st, ParseSsid(form, st))
           /\ ParseSsid(form, st).cfg.authmode = st.cfg.authmode
           /\ ParseSsid(form, st).refused = st.refused
<1> DEFINE acts == DoInSta(st, "reconnect", TRUE)
           next == [st EXCEPT !.cfg.ssid = form.ssid, !.ssid_changed = TRUE, !.acts = acts]
<1>1. CASE ~Has(form, "ssid") \/ form.ssid = st.cfg.ssid
  BY <1>1 DEF ParseSsid, Follows
<1>2. CASE ~(~Has(form, "ssid") \/ form.ssid = st.cfg.ssid)
  <2>1. ParseSsid(form, st) = next
    BY <1>2 DEF ParseSsid
  <2>2. /\ acts \in SUBSET Requests /\ st.acts \subseteq acts
        /\ radio = "sta" => "reconnect" \in acts
    BY DEF DoInSta, Do, IsState, States, Requests, Switches
  <2>3. /\ next \in States /\ next.acts = acts /\ next.refused = st.refused
        /\ \A g \in Fields : g # "ssid" => next.cfg[g] = st.cfg[g]
    BY <1>2, <2>2, FormValues, FieldNames DEF IsState, States, Configs
  <2> HIDE DEF next, acts
  <2> QED BY <2>1, <2>2, <2>3, FieldNames
          DEF Follows, IsState, Modes, Tells, Known, SameSta, SameMdns
<1> QED BY <1>1, <1>2

LEMMA AuthmodeParsed ==
    ASSUME NEW form \in Forms, NEW st, IsState(st), st.cfg.authmode # "invalid", ~st.refused
    PROVE  Follows(st, ParseAuthmode(form, st))
<1> DEFINE acts == DoInSta(st, "reconnect", form.authmode # st.cfg.authmode)
           empty == [st EXCEPT !.cfg.authmode = "invalid"]
           named == [st EXCEPT !.cfg.authmode = form.authmode, !.acts = acts]
           refused == [st EXCEPT !.refused = TRUE]
<1>1. CASE ~Has(form, "authmode")
  BY <1>1 DEF ParseAuthmode, Follows
<1>2. CASE Has(form, "authmode") /\ form.authmode = Empty
  <2>1. ParseAuthmode(form, st) = empty
    BY <1>2 DEF ParseAuthmode, Empty
  <2>2. /\ empty \in States /\ empty.acts = st.acts /\ empty.refused = st.refused
        /\ empty.cfg.authmode = "invalid"
        /\ \A g \in Fields : g # "authmode" => empty.cfg[g] = st.cfg[g]
    BY OwnValues, FieldNames DEF IsState, States, Configs
  <2> HIDE DEF empty
  <2> QED BY <2>1, <2>2, FieldNames DEF Follows, IsState, Modes, Tells, Known, SameMdns
<1>3. CASE Has(form, "authmode") /\ form.authmode \in {"open", "wpa"}
  <2>1. ParseAuthmode(form, st) = named
    BY <1>3 DEF ParseAuthmode, Empty
  <2>2. /\ acts \in SUBSET Requests /\ st.acts \subseteq acts
        /\ radio = "sta" => "reconnect" \in acts \/ form.authmode = st.cfg.authmode
    BY DEF DoInSta, Do, IsState, States, Requests, Switches
  <2>3. /\ named \in States /\ named.acts = acts /\ named.refused = st.refused
        /\ named.cfg.authmode = form.authmode
        /\ \A g \in Fields : g # "authmode" => named.cfg[g] = st.cfg[g]
    BY <2>2, <1>3, FormValues, FieldNames DEF IsState, States, Configs
  <2> HIDE DEF named, acts
  <2> QED BY <1>3, <2>1, <2>2, <2>3, FieldNames
          DEF Follows, IsState, Modes, Tells, Known, SameSta, SameMdns
<1>4. CASE Has(form, "authmode") /\ form.authmode \notin {Empty, "open", "wpa"}
  <2>1. ParseAuthmode(form, st) = refused
    BY <1>4 DEF ParseAuthmode
  <2>2. /\ refused \in States /\ refused.acts = st.acts /\ refused.refused /\ refused.cfg = st.cfg
    BY DEF IsState, States
  <2> HIDE DEF refused
  <2> QED BY <2>1, <2>2 DEF Follows, IsState, Tells, Known
<1> QED BY <1>1, <1>2, <1>3, <1>4

LEMMA PasswordParsed ==
    ASSUME NEW form \in Forms, NEW st, IsState(st)
    PROVE  Follows(st, ParsePassword(form, st))
<1> DEFINE new == form.password
           auth == st.cfg.authmode
           acts == DoInSta(st, "reconnect", TRUE)
           refused == [st EXCEPT !.refused = TRUE]
           taken == [st EXCEPT !.cfg.password = new, !.acts = acts]
           none == [st EXCEPT !.cfg.password = Empty]
<1>1. \/ ParsePassword(form, st) = st
      \/ auth = "wpa" /\ ParsePassword(form, st) = refused
      \/ Has(form, "password") /\ ParsePassword(form, st) = taken
      \/ auth = "open" /\ ParsePassword(form, st) = none
  BY DEF ParsePassword
<1>2. CASE ParsePassword(form, st) = st
  BY <1>2 DEF Follows
<1>3. CASE auth = "wpa" /\ ParsePassword(form, st) = refused
  <2>1. /\ refused \in States /\ refused.acts = st.acts /\ refused.refused /\ refused.cfg = st.cfg
    BY DEF IsState, States
  <2> HIDE DEF refused
  <2> QED BY <1>3, <2>1 DEF Follows, IsState, Tells, Known
<1>4. CASE Has(form, "password") /\ ParsePassword(form, st) = taken
  <2>1. /\ acts \in SUBSET Requests /\ st.acts \subseteq acts
        /\ radio = "sta" => "reconnect" \in acts
    BY DEF DoInSta, Do, IsState, States, Requests, Switches
  <2>2. /\ taken \in States /\ taken.acts = acts /\ taken.refused = st.refused
        /\ \A g \in Fields : g # "password" => taken.cfg[g] = st.cfg[g]
    BY <1>4, <2>1, FormValues, FieldNames DEF IsState, States, Configs
  <2> HIDE DEF taken, acts
  <2> QED BY <1>4, <2>1, <2>2, FieldNames
          DEF Follows, IsState, Modes, Tells, Known, SameSta, SameMdns
<1>5. CASE auth = "open" /\ ParsePassword(form, st) = none
  <2>1. /\ none \in States /\ none.acts = st.acts /\ none.refused = st.refused
        /\ \A g \in Fields : g # "password" => none.cfg[g] = st.cfg[g]
    BY OwnValues, FieldNames DEF IsState, States, Configs
  <2> HIDE DEF none
  <2> QED BY <1>5, <2>1, FieldNames
          DEF Follows, IsState, Modes, Tells, Known, SameSta, SameMdns
<1> QED BY <1>1, <1>2, <1>3, <1>4, <1>5

LEMMA AuthmodeFixed ==
    ASSUME NEW st, IsState(st)
    PROVE  /\ Follows(st, FixAuthmode(st))
           /\ Known(FixAuthmode(st)) => FixAuthmode(st).cfg.authmode # "invalid"
<1> DEFINE auth == IF st.cfg.password # Empty THEN "wpa" ELSE "open"
           acts == DoInSta(st, "reconnect", TRUE)
           next == [st EXCEPT !.cfg.authmode = auth, !.acts = acts]
<1>1. CASE st.refused \/ st.cfg.authmode # "invalid"
  BY <1>1 DEF FixAuthmode, Follows, Known
<1>2. CASE ~(st.refused \/ st.cfg.authmode # "invalid")
  <2>1. FixAuthmode(st) = next
    BY <1>2 DEF FixAuthmode
  <2>2. /\ acts \in SUBSET Requests /\ st.acts \subseteq acts
        /\ radio = "sta" => "reconnect" \in acts
    BY DEF DoInSta, Do, IsState, States, Requests, Switches
  <2>3. auth \in {"open", "wpa"} /\ auth \in Values
    BY OwnValues
  <2> HIDE DEF auth
  <2>4. /\ next \in States /\ next.acts = acts /\ next.refused = st.refused
        /\ next.cfg.authmode = auth
        /\ \A g \in Fields : g # "authmode" => next.cfg[g] = st.cfg[g]
    BY <2>2, <2>3, FieldNames DEF IsState, States, Configs
  <2> HIDE DEF next, acts
  <2> QED BY <2>1, <2>2, <2>3, <2>4, FieldNames
          DEF Follows, IsState, Modes, Tells, Known, SameSta, SameMdns
<1> QED BY <1>1, <1>2

LEMMA BoxParsed ==
    ASSUME NEW form \in Forms, NEW st, IsState(st), NEW box, NEW f, NEW act,
           \/ box = "use_static_ip" /\ f = "static_ip" /\ act = "reconnect"
           \/ box = "use_mDNS" /\ f = "mDNS_hostname" /\ act = "mdns"
    PROVE  /\ Follows(st, ParseBox(form, box, f, act, st))
           /\ ParseBox(form, box, f, act, st).cfg.authmode = st.cfg.authmode
           /\ ParseBox(form, box, f, act, st).refused = st.refused
<1> DEFINE on == Ticked(form, box)
           changed == Has(form, f) /\ form[f] # st.cfg[f]
           acts == DoInSta(st, act, on # st.cfg[box] \/ (changed /\ on))
           v == IF Has(form, f) THEN form[f] ELSE st.cfg[f]
           next == [st EXCEPT !.cfg[box] = on, !.cfg[f] = IF Has(form, f) THEN form[f] ELSE @,
                              !.acts = acts]
<1>1. CASE st.refused
  BY <1>1 DEF ParseBox, Follows
<1>2. CASE ~st.refused
  <2>1. ParseBox(form, box, f, act, st) = next
    BY <1>2 DEF ParseBox
  <2>2. on \in BOOLEAN /\ on \in Values
    BY OwnValues, ConfigAssumption DEF Ticked, Has
  <2>3. v \in Values
    BY FormValues, FieldNames DEF IsState, States, Configs
  <2>4. acts \in SUBSET Requests /\ st.acts \subseteq acts
    BY DEF DoInSta, Do, IsState, States, Requests, Switches
  <2>5. radio = "sta" => act \in acts \/ (on = st.cfg[box] /\ (on => v = st.cfg[f]))
    BY DEF DoInSta, Do
  <2> HIDE DEF on, acts
  <2>6. /\ next \in States /\ next.acts = acts /\ next.refused = st.refused
        /\ next.cfg[box] = on /\ next.cfg[f] = v
        /\ \A g \in Fields : g # f /\ g # box => next.cfg[g] = st.cfg[g]
    BY <2>2, <2>3, <2>4, FieldNames DEF IsState, States, Configs
  <2> HIDE DEF v
  <2> HIDE DEF next
  <2>7. CASE box = "use_static_ip" /\ f = "static_ip" /\ act = "reconnect"
    BY <2>1, <2>2, <2>4, <2>5, <2>6, <2>7, FieldNames
       DEF Follows, IsState, Modes, Tells, Known, SameSta, SameMdns
  <2>8. CASE box = "use_mDNS" /\ f = "mDNS_hostname" /\ act = "mdns"
    BY <2>1, <2>2, <2>4, <2>5, <2>6, <2>8, FieldNames
       DEF Follows, IsState, Modes, Tells, Known, SameSta, SameMdns
  <2> QED BY <2>7, <2>8
<1> QED BY <1>1, <1>2

\* What a form that is taken leaves: settings of the right kind, whose mode is the
\* form's, and the requests for what differs.
LEMMA FormParsed ==
    ASSUME IsConfig(ram), NEW form \in Forms
    PROVE  LET st == Parsed(form) IN
           /\ st \in States /\ IsConfig(st.cfg) /\ Tells(st)
           /\ Has(form, "wifi_mode") =>
                  /\ st.cfg.wifi_mode = form.wifi_mode
                  /\ form.wifi_mode = "ap" => "to_ap" \in st.acts
                  /\ form.wifi_mode = "sta" /\ radio # "sta" => "to_sta" \in st.acts
<1> DEFINE st0 == ParseMode(form, Start)
           st1 == ParseAp(form, "ap_ssid", st0)
           st2 == ParseAp(form, "ap_password", st1)
           st3 == ParseSsid(form, st2)
           st4 == ParseAuthmode(form, st3)
           st5 == ParsePassword(form, st4)
           st6 == FixAuthmode(st5)
           st7 == ParseBox(form, "use_static_ip", "static_ip", "reconnect", st6)
           st8 == ParseBox(form, "use_mDNS", "mDNS_hostname", "mdns", st7)
<1>1. Parsed(form) = st8
  BY DEF Parsed, Start
<1>2. /\ IsState(st0) /\ Tells(st0)
      /\ Has(form, "wifi_mode") =>
             /\ st0.cfg.wifi_mode = form.wifi_mode
             /\ form.wifi_mode = "ap" => "to_ap" \in st0.acts
             /\ form.wifi_mode = "sta" /\ radio # "sta" => "to_sta" \in st0.acts
  BY ModeParsed
<1>3. st0.cfg.authmode # "invalid" /\ ~st0.refused
  BY FieldNames DEF ParseMode, Start, IsConfig, Configs
<1> HIDE DEF st0
<1>4. Follows(st0, st1) /\ st1.cfg.authmode # "invalid" /\ ~st1.refused
  <2> HIDE DEF st1
  <2> QED BY <1>2, <1>3, ApParsed DEF st1
<1>5. Follows(st1, st2) /\ st2.cfg.authmode # "invalid" /\ ~st2.refused
  <2>1. IsState(st1)
    BY <1>4 DEF Follows
  <2> HIDE DEF st1, st2
  <2> QED BY <2>1, <1>4, ApParsed DEF st2
<1>6. Follows(st2, st3) /\ st3.cfg.authmode # "invalid" /\ ~st3.refused
  <2>1. IsState(st2)
    BY <1>5 DEF Follows
  <2> HIDE DEF st2, st3
  <2> QED BY <2>1, <1>5, SsidParsed DEF st3
<1> HIDE DEF st3
<1>7. Follows(st3, st4)
  <2>1. IsState(st3)
    BY <1>6 DEF Follows
  <2> QED BY <1>6, <2>1, AuthmodeParsed
<1> HIDE DEF st4
<1>8. Follows(st4, st5)
  BY <1>7, PasswordParsed DEF Follows
<1> HIDE DEF st5
<1>9. Follows(st5, st6) /\ (Known(st6) => st6.cfg.authmode # "invalid")
  BY <1>8, AuthmodeFixed DEF Follows
<1> HIDE DEF st6
<1>10. Follows(st6, st7) /\ st7.cfg.authmode = st6.cfg.authmode /\ st7.refused = st6.refused
  BY <1>9, BoxParsed DEF Follows
<1> HIDE DEF st7
<1>11. Follows(st7, st8) /\ st8.cfg.authmode = st7.cfg.authmode /\ st8.refused = st7.refused
  BY <1>10, BoxParsed DEF Follows
<1> HIDE DEF st1, st2, st8
<1>12. /\ Tells(st8) /\ IsState(st8)
       /\ st0.acts \subseteq st8.acts /\ st8.cfg.wifi_mode = st0.cfg.wifi_mode
  BY <1>2, <1>4, <1>5, <1>6, <1>7, <1>8, <1>9, <1>10, <1>11 DEF Follows
<1>13. st8.cfg.authmode # "invalid"
  <2>1. Known(st3)
    BY <1>6 DEF Known
  <2> QED BY <2>1, <1>7, <1>8, <1>9, <1>10, <1>11 DEF Follows
<1>14. st8.cfg \in Configs
  BY <1>12 DEF IsState, States
<1> QED BY <1>1, <1>2, <1>12, <1>13, <1>14 DEF IsState, IsConfig

-----------------------------------------------------------------------------
(* Steps.                                                                      *)

Types ==
    /\ IsConfig(ram) /\ IsConfig(nvs)
    /\ held \in BOOLEAN
    /\ save \in [key : 0 .. Len(NvsOrder) + 1, bits : SUBSET Requests]
    /\ unsaved \subseteq Fields
    /\ pending \subseteq Requests
    /\ radio \in {"off", "sta", "ap", "portal"}
    /\ serving \in [bit : Requests \cup {"none"}, todo : SUBSET (Settings \cup {"mode"})]
    /\ inUse = [i \in Settings |-> inUse[i]]
    /\ unasked \subseteq Settings

\* The mutex is held from the first key to the last.
Locked ==
    /\ save = Idle <=> save.key = 0
    /\ held => save # Idle
    /\ save.key \in Keys => held

\* The keys set_nvs_wifi_settings has passed are in flash as they are in memory.
Saving ==
    /\ save = Idle => \A f \in Fields \ unsaved : nvs[f] = ram[f]
    /\ \A k \in Keys : k < save.key => nvs[NvsOrder[k]] = ram[NvsOrder[k]]

\* The requests to come, without those that go with the one being served.
Due == (pending \cup save.bits) \ Doomed
SwitchDue == "mode" \in serving.todo \/ Switches \cap Due # {}
Asked(i) == i \in serving.todo \/ \E bit \in Due : i \in Reads(bit)

\* A switch that has changed the mode has yet to read what it has not read.
Switching ==
    IF "mode" \in serving.todo
    THEN serving.bit \in Switches /\ Reads(serving.bit) \subseteq serving.todo
    ELSE /\ serving.bit = "to_sta" => radio = "sta"
         /\ serving.bit = "to_ap" => radio = "ap"

\* What is in use is what captive_cfg has, or it will be read.
Using ==
    ~SwitchDue => \A i \in UsedIn(radio) \ unasked : inUse[i] = Config(ram)[i] \/ Asked(i)

LEMMA SettingNames ==
    /\ UsedIn("sta") = {"sta", "sta_ip", "mdns"} /\ UsedIn("ap") = {"ap", "ap_ip", "mdns"}
    /\ UsedIn("portal") = {} /\ UsedIn("off") = {}
    /\ \A mode : UsedIn(mode) \subseteq Settings
    /\ \A bit : Reads(bit) \subseteq Settings
    /\ Reads("to_sta") = UsedIn("sta") /\ Reads("to_ap") = UsedIn("ap")
    /\ Reads("reconnect") = {"sta", "sta_ip"} /\ Reads("mdns") = {"mdns"}
    /\ Requests = {"to_sta", "to_ap", "to_portal", "reconnect", "mdns"}
    /\ Idle.key = 0 /\ Idle.bits = {}
    /\ Waiting.bit = "none" /\ Waiting.todo = {}
  BY DEF UsedIn, Reads, Settings, Requests, Switches, Idle, Waiting

LEMMA NewConfig ==
    ASSUME NEW c, ram' = c
    PROVE  Config(ram)' = Config(c)
  BY DEF Config, StaConfig, ApConfig, IpConfig, MdnsConfig

LEMMA TypesStep ==
    ASSUME Types, Locked, [Next]_vars
    PROVE  Types' /\ Locked'
<1> USE SettingNames
<1>1. ASSUME NEW form \in Forms, PostAccepted(form) PROVE Types' /\ Locked'
  <2>1. /\ IsConfig(Parsed(form).cfg) /\ Parsed(form).acts \subseteq Requests
    BY <1>1, FormParsed DEF PostAccepted, Types, States
  <2>2. Bits(Parsed(form).acts) \subseteq Requests
    BY <2>1 DEF Bits, Requests, Switches
  <2>3. PICK n \in FirstFrom(1, Parsed(form).cfg) :
            save' = [key |-> n, bits |-> Bits(Parsed(form).acts)]
    BY <1>1 DEF PostAccepted
  <2>4. n \in 1 .. 11
    BY FieldNames DEF FirstFrom
  <2>5. /\ ram' = Parsed(form).cfg /\ held' /\ held' \in BOOLEAN
        /\ UNCHANGED <<nvs, unsaved, pending, radio, serving, inUse>>
        /\ unasked' \subseteq unasked \cup Changed(Parsed(form).cfg)
    BY <1>1 DEF PostAccepted, listening
  <2>6. unasked' \subseteq Settings
    BY <2>5 DEF Types, Changed
  <2>7. save' \in [key : 0 .. 11, bits : SUBSET Requests] /\ save'.key # 0 /\ save' # Idle
    BY <2>2, <2>3, <2>4
  <2> QED BY <2>1, <2>5, <2>6, <2>7, FieldNames DEF Types, Locked, IsConfig, Modes
<1>2. ASSUME NEW form \in Forms, PostRefused(form) PROVE Types' /\ Locked'
  <2>1. IsConfig(Parsed(form).cfg)
    BY FormParsed DEF Types
  <2>2. /\ ram' = Parsed(form).cfg /\ UNCHANGED <<nvs, held, save, pending, radio, serving, inUse>>
        /\ unsaved' \subseteq unsaved \cup Fields /\ unasked' = unasked \cup Changed(ram')
    BY <1>2 DEF PostRefused, listening
  <2>3. unasked' \subseteq Settings
    BY <2>2 DEF Types, Changed
  <2> QED BY <2>1, <2>2, <2>3 DEF Types, Locked, IsConfig, Modes
<1>3. CASE WriteKey
  <2>1. /\ save.key \in 1 .. 10 /\ nvs' = [nvs EXCEPT ![NvsOrder[save.key]] = ram[NvsOrder[save.key]]]
        /\ UNCHANGED <<ram, held, unsaved, pending, radio, serving, inUse, unasked>>
    BY <1>3, FieldNames DEF WriteKey, listening
  <2>2. NvsOrder[save.key] \in Fields
    BY <1>3 DEF WriteKey, Fields
  <2>3. IsConfig(nvs')
    BY <2>1, <2>2, FieldNames DEF Types, IsConfig, Modes, Configs
  <2>4. PICK n \in FirstFrom(save.key + 1, ram) : save' = [save EXCEPT !.key = n]
    BY <1>3 DEF WriteKey
  <2>5. n \in save.key + 1 .. 11
    BY FieldNames DEF FirstFrom
  <2>6. save' \in [key : 0 .. 11, bits : SUBSET Requests] /\ save'.key # 0 /\ save.key # 0
    BY <2>1, <2>4, <2>5, FieldNames DEF Types
  <2>7. held /\ save' # Idle
    BY <2>1, <2>6, FieldNames DEF Locked
  <2> QED BY <2>1, <2>3, <2>6, <2>7, FieldNames DEF Types, Locked, IsConfig, Modes
<1>4. CASE GiveMutex
  <2>1. save.key = 11 /\ save.key \notin Keys
    BY <1>4, FieldNames DEF GiveMutex, AllKeys
  <2>2. /\ held' = FALSE /\ held' \in BOOLEAN /\ unsaved' \subseteq Fields
        /\ UNCHANGED <<ram, nvs, save, pending, radio, serving, inUse, unasked>>
    BY <1>4 DEF GiveMutex, listening
  <2>3. Types'
    BY <2>2 DEF Types, IsConfig, Modes
  <2>4. Locked'
    BY <2>1, <2>2 DEF Locked
  <2> QED BY <2>3, <2>4
<1>5. CASE PostDone
  <2>1. Idle \in [key : 0 .. Len(NvsOrder) + 1, bits : SUBSET Requests] /\ Idle.key \notin Keys
    BY FieldNames DEF Idle
  <2> QED BY <1>5, <2>1 DEF PostDone, listening, Types, Locked, IsConfig, Modes
<1>6. ASSUME NEW bit \in Requests, StartServing(bit) PROVE Types' /\ Locked'
  <2>1. Todo(bit) \subseteq Settings \cup {"mode"}
    BY DEF Todo
  <2> QED BY <1>6, <2>1 DEF StartServing, posting, Types, Locked, IsConfig, Modes
<1>7. CASE SwitchMode
  BY <1>7 DEF SwitchMode, NotGiven, posting, Types, Locked, IsConfig, Modes
<1>8. ASSUME NEW i \in Settings, ReadSettings(i) PROVE Types' /\ Locked'
  <2>1. inUse' = [inUse EXCEPT ![i] = Config(ram)[i]]
    BY <1>8 DEF ReadSettings
  <2>2. inUse' = [j \in Settings |-> inUse'[j]]
    BY <2>1 DEF Types
  <2> QED BY <1>8, <2>2 DEF ReadSettings, posting, Types, Locked, IsConfig, Modes
<1>9. CASE ServeDone
  BY <1>9 DEF ServeDone, Waiting, posting, Types, Locked, IsConfig, Modes
<1>10. CASE DropRequest
  BY <1>10 DEF DropRequest, posting, listening, Types, Locked, IsConfig, Modes
<1>11. CASE FallBack
  BY <1>11 DEF FallBack, posting, listening, Types, Locked, IsConfig, Modes
<1>12. CASE Restart
  <2>1. /\ Idle \in [key : 0 .. Len(NvsOrder) + 1, bits : SUBSET Requests] /\ Idle.key \notin Keys
        /\ Boot(nvs) \in Requests
    BY FieldNames DEF Idle, Boot
  <2> QED BY <1>12, <2>1 DEF Restart, NotGiven, Waiting, Types, Locked, IsConfig, Modes
<1>13. CASE UNCHANGED vars
  BY <1>13 DEF vars, posting, listening, Types, Locked, IsConfig, Modes
<1> QED BY <1>1, <1>2, <1>3, <1>4, <1>5, <1>6, <1>7, <1>8, <1>9, <1>10, <1>11, <1>12, <1>13 DEF Next

LEMMA SavingStep ==
    ASSUME Types, Locked, Saving, [Next]_vars
    PROVE  Saving'
<1> USE SettingNames
<1>1. ASSUME NEW form \in Forms, PostAccepted(form) PROVE Saving'
  <2>1. PICK n \in FirstFrom(1, Parsed(form).cfg) :
            save' = [key |-> n, bits |-> Bits(Parsed(form).acts)]
    BY <1>1 DEF PostAccepted
  <2>2. n \in 1 .. 11 /\ \A m \in 1 .. n - 1 : Same(m, Parsed(form).cfg)
    BY FieldNames DEF FirstFrom
  <2>3. ram' = Parsed(form).cfg /\ nvs' = nvs /\ save'.key = n /\ save' # Idle
    BY <1>1, <2>1, <2>2 DEF PostAccepted
  <2>4. ASSUME NEW k \in Keys, k < n PROVE nvs'[NvsOrder[k]] = ram'[NvsOrder[k]]
    <3>1. k \in 1 .. n - 1
      BY <2>2, <2>4, FieldNames
    <3> QED BY <2>2, <2>3, <3>1 DEF Same
  <2> QED BY <2>3, <2>4 DEF Saving
<1>2. ASSUME NEW form \in Forms, PostRefused(form) PROVE Saving'
  <2>1. /\ save' = save /\ save = Idle /\ nvs' = nvs
        /\ unsaved' = unsaved \cup {f \in Fields : ram'[f] # ram[f]}
    BY <1>2 DEF PostRefused
  <2>2. \A k \in Keys : ~(k < save'.key)
    BY <2>1, FieldNames
  <2>3. \A f \in Fields \ unsaved' : nvs'[f] = ram'[f]
    BY <2>1 DEF Saving
  <2> QED BY <2>2, <2>3 DEF Saving
<1>3. CASE WriteKey
  <2>1. /\ save.key \in 1 .. 10 /\ nvs' = [nvs EXCEPT ![NvsOrder[save.key]] = ram[NvsOrder[save.key]]]
        /\ ram' = ram
    BY <1>3, FieldNames DEF WriteKey
  <2>2. PICK n \in FirstFrom(save.key + 1, ram) : save' = [save EXCEPT !.key = n]
    BY <1>3 DEF WriteKey
  <2>3. n \in save.key + 1 .. 11 /\ \A m \in save.key + 1 .. n - 1 : Same(m, ram)
    BY FieldNames DEF FirstFrom
  <2>4. save'.key = n /\ save' # Idle
    BY <2>1, <2>2, <2>3 DEF Types
  <2>5. ASSUME NEW k \in Keys, k < n PROVE nvs'[NvsOrder[k]] = ram'[NvsOrder[k]]
    <3>1. NvsOrder[k] \in Fields
      BY DEF Fields
    <3>2. k = save.key \/ k < save.key \/ k \in save.key + 1 .. n - 1
      BY <2>1, <2>3, <2>5, FieldNames
    <3>3. k = save.key \/ nvs[NvsOrder[k]] = ram[NvsOrder[k]]
      BY <2>3, <3>2 DEF Saving, Same
    <3> QED BY <2>1, <3>1, <3>3 DEF Types, IsConfig, Configs
  <2> QED BY <2>4, <2>5 DEF Saving
<1>4. CASE GiveMutex
  <2>1. save' = save /\ save # Idle /\ ram' = ram /\ nvs' = nvs
    BY <1>4 DEF GiveMutex, Locked
  <2> QED BY <2>1 DEF Saving
<1>5. CASE PostDone
  <2>1. save.key = 11 /\ save' = Idle /\ ram' = ram /\ nvs' = nvs
    BY <1>5, FieldNames DEF PostDone, AllKeys
  <2>2. \A f \in Fields : nvs[f] = ram[f]
    <3>1. \A k \in Keys : nvs[NvsOrder[k]] = ram[NvsOrder[k]]
      BY <2>1, FieldNames DEF Saving
    <3> QED BY <3>1 DEF Fields
  <2>3. \A k \in Keys : ~(k < save'.key)
    BY <2>1, FieldNames
  <2> QED BY <2>1, <2>2, <2>3 DEF Saving
<1>6. CASE Restart
  <2>1. save' = Idle /\ ram' = nvs /\ nvs' = nvs
    BY <1>6 DEF Restart
  <2> QED BY <2>1 DEF Saving
<1>7. ASSUME UNCHANGED posting PROVE Saving'
  BY <1>7 DEF posting, Saving
<1> QED BY <1>1, <1>2, <1>3, <1>4, <1>5, <1>6, <1>7
        DEF Next, vars, StartServing, SwitchMode, ReadSettings, ServeDone, DropRequest, FallBack

LEMMA SameIsUsed ==
    ASSUME NEW c, IsConfig(c), IsConfig(ram)
    PROVE  /\ SameSta(c) => Config(c)["sta"] = Config(ram)["sta"]
                            /\ Config(c)["sta_ip"] = Config(ram)["sta_ip"]
           /\ SameMdns(c) => Config(c)["mdns"] = Config(ram)["mdns"]
  BY DEF SameSta, SameMdns, Config, StaConfig, IpConfig, MdnsConfig, IsConfig, Modes

LEMMA SwitchingStep ==
    ASSUME Types, Switching, [Next]_vars
    PROVE  Switching'
<1> USE SettingNames
<1>1. ASSUME NEW bit \in Requests, StartServing(bit) PROVE Switching'
  <2>1. serving' = [bit |-> bit, todo |-> Todo(bit)]
    BY <1>1 DEF StartServing
  <2>2. "mode" \notin Reads(bit)
    BY DEF Settings
  <2>3. "mode" \in Todo(bit) <=> bit \in Switches
    BY <2>2 DEF Todo
  <2>4. Reads(bit) \subseteq Todo(bit)
    BY DEF Todo
  <2> QED BY <2>1, <2>3, <2>4 DEF Switching, Switches
<1>2. CASE SwitchMode
  BY <1>2 DEF SwitchMode, Switching, Types
<1>3. ASSUME NEW i \in Settings, ReadSettings(i) PROVE Switching'
  BY <1>3 DEF ReadSettings, Switching, Types
<1>4. CASE ServeDone
  BY <1>4 DEF ServeDone, Switching
<1>5. CASE Restart
  BY <1>5 DEF Restart, Switching
<1>6. ASSUME UNCHANGED listening PROVE Switching'
  BY <1>6 DEF listening, Switching
<1> QED BY <1>1, <1>2, <1>3, <1>4, <1>5, <1>6
        DEF Next, vars, PostAccepted, PostRefused, WriteKey, GiveMutex, PostDone, DropRequest, FallBack

\* More requests do not disturb what is used.
LEMMA MoreDue ==
    ASSUME Using, UNCHANGED <<ram, radio, serving, inUse, unasked>>, Due \subseteq Due'
    PROVE  Using'
<1> SUFFICES ASSUME ~SwitchDue', NEW i \in UsedIn(radio) \ unasked
             PROVE  inUse[i] = Config(ram)[i] \/ Asked(i)'
  <2>1. Config(ram)' = Config(ram)
    BY NewConfig
  <2> QED BY <2>1 DEF Using
<1>1. ~SwitchDue
  BY DEF SwitchDue
<1>2. inUse[i] = Config(ram)[i] \/ Asked(i)
  BY <1>1 DEF Using
<1> QED BY <1>2 DEF Asked

\* A form that is taken.
LEMMA TakenUsing ==
    ASSUME Types, Switching, Using, NEW form \in Forms, PostAccepted(form), [ApModeNamed]_vars
    PROVE  Using'
<1> USE SettingNames
<1> DEFINE c == Parsed(form).cfg
           acts == Parsed(form).acts
           bits == Bits(acts)
<1>1. /\ ram' = c /\ save = Idle /\ Served /\ held' /\ ~held
      /\ UNCHANGED <<pending, radio, serving, inUse>>
      /\ unasked' = (unasked \ Changed(c)) \cup (Changed(c) \cap Late(bits))
  BY DEF PostAccepted, listening
<1>2. save'.bits = bits
  BY DEF PostAccepted
<1>3. /\ IsConfig(c) /\ Tells(Parsed(form))
      /\ Has(form, "wifi_mode") =>
             /\ form.wifi_mode = "ap" => "to_ap" \in acts
             /\ form.wifi_mode = "sta" /\ radio # "sta" => "to_sta" \in acts
  BY FormParsed DEF Types
<1> HIDE DEF c, acts
<1>4. Due' = Due \cup (bits \ Doomed)
  BY <1>1, <1>2 DEF Due, Doomed
<1>5. Config(ram)' = Config(c)
  BY <1>1, NewConfig
<1> SUFFICES ASSUME ~SwitchDue', NEW i \in UsedIn(radio) \ unasked'
             PROVE  inUse[i] = Config(c)[i] \/ Asked(i)'
  BY <1>1, <1>5 DEF Using
<1>6. ~SwitchDue /\ "mode" \notin serving.todo
  BY <1>1, <1>4 DEF SwitchDue
<1>7. CASE i \notin Changed(c)
  <2>1. Config(c)[i] = Config(ram)[i] /\ i \notin unasked
    BY <1>1, <1>7 DEF Changed
  <2>2. inUse[i] = Config(ram)[i] \/ Asked(i)
    BY <1>6, <2>1 DEF Using
  <2>3. Asked(i) => Asked(i)'
    BY <1>1, <1>4 DEF Asked
  <2> QED BY <2>1, <2>2, <2>3
<1>8. CASE i \in Changed(c)
  <2>1. i \notin Late(bits)
    BY <1>1, <1>8
  <2>2. SUFFICES ASSUME NEW bit \in bits, i \in Reads(bit)
                 PROVE  Asked(i)'
    <3>1. \E bit \in bits : i \in Reads(bit)
      <4>1. CASE "to_sta" \in acts
        <5>1. bits = {"to_sta"}
          BY <4>1 DEF Bits
        <5>2. radio = "sta"
          <6>1. "to_sta" \in Doomed
            BY <1>4, <1>6, <5>1 DEF SwitchDue, Switches, Doomed, Due
          <6> QED BY <1>6, <6>1 DEF Doomed, Switching
        <5> QED BY <5>1, <5>2
      <4>2. CASE "to_sta" \notin acts /\ "to_ap" \in acts
        <5>1. bits = {"to_ap"}
          BY <4>2 DEF Bits
        <5>2. radio = "ap"
          <6>1. "to_ap" \in Doomed
            BY <1>1, <1>4, <5>1 DEF SwitchDue, Switches
          <6> QED BY <1>6, <6>1 DEF Doomed, Switching
        <5> QED BY <5>1, <5>2
      <4>3. CASE "to_sta" \notin acts /\ "to_ap" \notin acts
        <5>1. bits = acts
          BY <4>3 DEF Bits
        <5>2. radio # "ap"
          <6>1. SUFFICES ASSUME radio = "ap" PROVE FALSE
            OBVIOUS
          <6>2. ram' # ram \/ held' # held
            BY <1>1
          <6>3. Has(form, "wifi_mode") /\ form.wifi_mode \in {"sta", "ap"}
            BY <6>1, <6>2, ConfigAssumption DEF ApModeNamed, vars, posting, Has
          <6> QED BY <1>3, <4>3, <6>1, <6>3
        <5>3. radio = "sta"
          BY <5>2 DEF Types
        <5>4. i = "mdns" => "mdns" \in acts
          BY <1>3, <1>8, <5>3, SameIsUsed DEF Tells, Changed, Types, c, acts
        <5>5. i \in {"sta", "sta_ip"} => "reconnect" \in acts
          BY <1>3, <1>8, <5>3, SameIsUsed DEF Tells, Changed, Types, IsConfig, c, acts
        <5> QED BY <5>1, <5>3, <5>4, <5>5
      <4> QED BY <4>1, <4>2, <4>3
    <3> QED BY <2>2, <3>1
  <2>3. CASE bit \notin Doomed
    BY <1>4, <2>2, <2>3 DEF Asked
  <2>4. CASE bit \in Doomed
    <3>1. i \in Reads(bit) \ serving.todo => i \in Late(bits)
      BY <2>2, <2>4 DEF Late
    <3> QED BY <1>1, <2>1, <2>2, <3>1 DEF Asked
  <2> QED BY <2>3, <2>4
<1> QED BY <1>7, <1>8

LEMMA UsingStep ==
    ASSUME Types, Switching, Using, [Next]_vars, [ApModeNamed]_vars
    PROVE  Using'
<1> USE SettingNames
<1>1. ASSUME NEW form \in Forms, PostRefused(form) PROVE Using'
  <2>1. /\ UNCHANGED <<save, pending, radio, serving, inUse>>
        /\ unasked' = unasked \cup Changed(ram')
    BY <1>1 DEF PostRefused, listening
  <2>2. Due' = Due /\ (SwitchDue' <=> SwitchDue)
    BY <2>1 DEF Due, Doomed, SwitchDue
  <2>3. SUFFICES ASSUME ~SwitchDue, NEW i \in UsedIn(radio) \ unasked'
                 PROVE  inUse[i] = (Config(ram)')[i] \/ Asked(i)'
    BY <2>1, <2>2 DEF Using
  <2>4. Config(ram)' = Config(ram')
    BY NewConfig
  <2>5. Config(ram')[i] = Config(ram)[i] /\ i \notin unasked
    BY <2>1, <2>3 DEF Changed
  <2> QED BY <2>1, <2>2, <2>3, <2>4, <2>5 DEF Using, Asked
<1>2. CASE WriteKey
  <2>1. save'.bits = save.bits
    BY <1>2 DEF WriteKey, Types
  <2> QED BY <1>2, <2>1, MoreDue DEF WriteKey, listening, Due, Doomed
<1>3. CASE GiveMutex
  BY <1>3, MoreDue DEF GiveMutex, listening, Due, Doomed
<1>4. CASE PostDone
  <2>1. Due' = Due
    BY <1>4 DEF PostDone, listening, Due, Doomed
  <2> QED BY <1>4, <2>1, MoreDue DEF PostDone, listening
<1>5. ASSUME NEW bit \in Requests, StartServing(bit) PROVE Using'
  <2>1. /\ serving = Waiting /\ serving' = [bit |-> bit, todo |-> Todo(bit)]
        /\ pending \ {bit} \subseteq pending' /\ UNCHANGED <<ram, save, radio, inUse, unasked>>
    BY <1>5 DEF StartServing, posting
  <2>2. Due \ {bit} \subseteq Due'
    BY <2>1 DEF Due, Doomed
  <2>3. bit \in Switches => SwitchDue'
    BY <2>1 DEF SwitchDue, Todo
  <2>4. SUFFICES ASSUME ~SwitchDue', NEW i \in UsedIn(radio) \ unasked
                 PROVE  inUse[i] = Config(ram)[i] \/ Asked(i)'
    <3>1. Config(ram)' = Config(ram)
      BY <2>1, NewConfig
    <3> QED BY <2>1, <2>4, <3>1 DEF Using
  <2>5. ~SwitchDue
    BY <2>1, <2>2, <2>3, <2>4 DEF SwitchDue
  <2>6. inUse[i] = Config(ram)[i] \/ Asked(i)
    BY <2>4, <2>5 DEF Using
  <2>7. Asked(i) => Asked(i)'
    BY <2>1, <2>2 DEF Asked, Todo
  <2> QED BY <2>6, <2>7
<1>6. CASE SwitchMode
  <2>1. /\ serving' = [serving EXCEPT !.todo = @ \ {"mode"}] /\ "mode" \in serving.todo
        /\ radio' = CASE serving.bit = "to_sta" -> "sta"
                      [] serving.bit = "to_ap"  -> "ap"
                      [] OTHER                  -> "portal"
    BY <1>6 DEF SwitchMode
  <2>2. serving.bit \in Switches /\ Reads(serving.bit) \subseteq serving.todo
    BY <2>1 DEF Switching
  <2>3. UsedIn(radio') \subseteq Reads(serving.bit)
    BY <2>1, <2>2 DEF Switches
  <2>4. "mode" \notin Reads(serving.bit) /\ serving'.todo = serving.todo \ {"mode"}
    BY <2>1 DEF Types, Settings
  <2>5. UsedIn(radio') \subseteq serving'.todo
    BY <2>2, <2>3, <2>4
  <2> QED BY <2>5 DEF Using, Asked
<1>7. ASSUME NEW i \in Settings, ReadSettings(i) PROVE Using'
  <2>1. /\ serving' = [serving EXCEPT !.todo = @ \ {i}] /\ "mode" \notin serving.todo
        /\ inUse' = [inUse EXCEPT ![i] = Config(ram)[i]] /\ unasked' = unasked \ {i}
        /\ UNCHANGED <<ram, save, pending, radio>>
    BY <1>7 DEF ReadSettings, posting
  <2>2. serving'.todo = serving.todo \ {i} /\ serving'.bit = serving.bit
    BY <2>1 DEF Types
  <2>3. Due' = Due /\ (SwitchDue' <=> SwitchDue)
    BY <2>1, <2>2 DEF Due, Doomed, SwitchDue
  <2>4. SUFFICES ASSUME ~SwitchDue, NEW j \in UsedIn(radio) \ unasked'
                 PROVE  inUse'[j] = Config(ram)[j] \/ Asked(j)'
    <3>1. Config(ram)' = Config(ram)
      BY <2>1, NewConfig
    <3> QED BY <2>1, <2>3, <2>4, <3>1 DEF Using
  <2>5. CASE j = i
    BY <2>1, <2>5 DEF Types
  <2>6. CASE j # i
    <3>1. inUse[j] = Config(ram)[j] \/ Asked(j)
      BY <2>1, <2>4, <2>6 DEF Using
    <3>2. inUse'[j] = inUse[j]
      BY <2>1, <2>4, <2>6 DEF Types
    <3> QED BY <2>2, <2>3, <2>6, <3>1, <3>2 DEF Asked
  <2> QED BY <2>5, <2>6
<1>8. CASE ServeDone
  <2>1. /\ serving.todo = {} /\ serving' = Waiting /\ pending' = pending \ Doomed
        /\ UNCHANGED <<ram, save, radio, inUse, unasked>>
    BY <1>8 DEF ServeDone, posting
  <2>2. Due \subseteq Due'
    BY <2>1 DEF Due, Doomed, Types
  <2>3. SUFFICES ASSUME ~SwitchDue', NEW i \in UsedIn(radio) \ unasked
                 PROVE  inUse[i] = Config(ram)[i] \/ Asked(i)'
    <3>1. Config(ram)' = Config(ram)
      BY <2>1, NewConfig
    <3> QED BY <2>1, <2>3, <3>1 DEF Using
  <2>4. ~SwitchDue
    BY <2>1, <2>2, <2>3 DEF SwitchDue
  <2> QED BY <2>1, <2>2, <2>3, <2>4 DEF Using, Asked
<1>9. CASE DropRequest
  <2>1. UsedIn(radio') \ unasked' = {}
    BY <1>9 DEF DropRequest, listening
  <2> QED BY <2>1 DEF Using
<1>10. CASE FallBack
  <2>1. Due \subseteq Due'
    BY <1>10 DEF FallBack, posting, listening, Due, Doomed
  <2> QED BY <1>10, <2>1, MoreDue DEF FallBack, posting, listening
<1>11. CASE Restart
  BY <1>11 DEF Restart, Using
<1>12. CASE UNCHANGED vars
  <2>1. Due' = Due
    BY <1>12 DEF vars, posting, listening, Due, Doomed
  <2> QED BY <1>12, <2>1, MoreDue DEF vars, posting, listening
<1> QED BY <1>1, <1>2, <1>3, <1>4, <1>5, <1>6, <1>7, <1>8, <1>9, <1>10, <1>11, <1>12, TakenUsing
        DEF Next

LEMMA Begins == Init => Types /\ Locked /\ Saving /\ Switching /\ Using
<1> SUFFICES ASSUME Init PROVE Types /\ Locked /\ Saving /\ Switching /\ Using
  OBVIOUS
<1> USE SettingNames
<1>1. /\ Idle \in [key : 0 .. Len(NvsOrder) + 1, bits : SUBSET Requests] /\ Idle.key \notin Keys
      /\ Boot(Saved) \in Requests
  BY FieldNames DEF Idle, Boot
<1>2. Types /\ Locked
  BY <1>1, SavedIsConfig DEF Init, NotGiven, Waiting, Types, Locked, IsConfig, Modes
<1>3. Saving
  BY FieldNames DEF Init, Saving
<1>4. Switching /\ Using
  BY DEF Init, Switching, Using
<1> QED BY <1>2, <1>3, <1>4
-----------------------------------------------------------------------------
(* Theorems.                                                                   *)

\* Type correctness, and with it that no settings are kept or saved with an
\* authmode that is not known, refused forms included (captive_post_handler).
THEOREM ConfigTypeCorrect == Spec => []TypeOK
<1>1. Types => TypeOK
  BY FieldNames DEF Types, IsConfig, Modes, Configs, TypeOK
<1> QED BY <1>1, Begins, TypesStep, PTL DEF Spec

\* What a restart would read is what the device has, whenever no form is being
\* saved and wherever the power was lost before (set_nvs_wifi_settings), but for
\* the fields that a refused form changed; the next form that is taken saves those.
THEOREM SavedIsKept == Spec => []SavedSurvives
<1>1. Types /\ Locked /\ Saving /\ [Next]_vars => Types' /\ Locked' /\ Saving'
  BY TypesStep, SavingStep
<1>2. Types /\ Locked /\ Saving => SavedSurvives
  <2> SUFFICES ASSUME Types, Locked, Saving, ~held, NEW f \in Fields \ unsaved
               PROVE  nvs[f] = ram[f]
    BY DEF SavedSurvives
  <2>1. CASE save = Idle
    BY <2>1 DEF Saving
  <2>2. CASE save # Idle
    <3>1. save.key = 11
      BY <2>2, FieldNames DEF Types, Locked
    <3>2. \A k \in Keys : nvs[NvsOrder[k]] = ram[NvsOrder[k]]
      BY <3>1, FieldNames DEF Saving
    <3> QED BY <3>2 DEF Fields
  <2> QED BY <2>1, <2>2
<1> QED BY <1>1, <1>2, Begins, PTL DEF Spec

\* Once the requests are served, what is up uses the settings of the forms that were
\* taken, whatever they changed and in whatever order they came, also while the
\* listener was serving another (captive_post_handler and wifi_flags_listener_task),
\* if those an access point takes name the mode.  Left out are the settings a refused
\* form left, those of a request set between the reading and the clearing, and those
\* of a switch that was dropped: unasked.
THEOREM SettingsAreUsed == Spec /\ [][ApModeNamed]_vars => []AcceptedIsUsed
<1>1. Types /\ Locked /\ Switching /\ Using /\ [Next]_vars /\ [ApModeNamed]_vars
          => Types' /\ Locked' /\ Switching' /\ Using'
  BY TypesStep, SwitchingStep, UsingStep
<1>2. Types /\ Using => AcceptedIsUsed
  <2> SUFFICES ASSUME Types, Using, Settled, NEW i \in UsedIn(radio) \ unasked
               PROVE  inUse[i] = Config(ram)[i]
    BY DEF AcceptedIsUsed
  <2>1. /\ Due \subseteq {"reconnect"} /\ serving.todo = {}
        /\ radio = "sta" => Due = {}
    BY SettingNames DEF Settled, Due
  <2>2. ~SwitchDue
    BY <2>1 DEF SwitchDue, Switches
  <2>3. ~Asked(i)
    BY <2>1, SettingNames DEF Asked, Types
  <2> QED BY <2>2, <2>3 DEF Using
<1> QED BY <1>1, <1>2, Begins, PTL DEF Spec
=============================================================================
