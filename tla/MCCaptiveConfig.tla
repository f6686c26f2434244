--------------------------- MODULE MCCaptiveConfig ---------------------------
(* Small instances of CaptiveConfig for TLC: two networks, the forms of the *)
(* captive page, which names every field that is not a box, and the forms   *)
(* the handler refuses.                                                     *)
EXTENDS CaptiveConfig, TLC

HomeAp == [ssid |-> "home", password |-> "p1", authmode |-> "wpa",
           ap_ssid |-> "esp", ap_password |-> "", use_static_ip |-> FALSE, use_mDNS |-> FALSE,
           static_ip |-> "ip0", mDNS_hostname |-> "esp32", wifi_mode |-> "sta"]

\* What the page sends of the station's network: a network with a password,
\* one without, and one typed in, whose authmode the page does not know.
Wpa(ssid, password) == [ssid |-> ssid, authmode |-> "wpa", password |-> password]
Open(ssid) == [ssid |-> ssid, authmode |-> "open"]
Typed(ssid, password) == [ssid |-> ssid, authmode |-> "", password |-> password]

Page(mode, net, ap, ip, host, boxes) ==
    [wifi_mode |-> mode, ap_ssid |-> "esp", ap_password |-> ap,
     static_ip |-> ip, mDNS_hostname |-> host] @@ net @@ [b \in boxes |-> TRUE]

\* Each names the password of its network.
GoodPages == {
    Page("sta", Typed("home", "p2"), "", "ip0", "lamp", {"use_mDNS"}),
    Page("sta", Open("cafe"), "", "ip1", "esp32", {"use_mDNS", "use_static_ip"}),
    Page("ap", Wpa("home", "p1"), "p3", "ip1", "lamp", {"use_mDNS", "use_static_ip"})}

\* Refused half-way: one whose network's authmode is not taken, and one that
\* gives no password.
RefusedPages == {
    Page("sta", [ssid |-> "work", authmode |-> "enterprise"], "", "ip0", "esp32", {}),
    Page("sta", Wpa("work", ""), "", "ip0", "esp32", {})}
AllForms == GoodPages \cup RefusedPages

\* "Unchanged" for the saved network: refused if a form of another page came
\* first.
SavedNetwork == {Page("sta", Wpa(ssid, ""), "", "ip0", "esp32", {}) : ssid \in {"home", "work"}}

StaPages == SavedNetwork \cup {
    Page("sta", Wpa("home", "p1"), "", "ip0", "lamp", {"use_mDNS"}),
    Page("sta", Wpa("work", "p2"), "", "ip1", "esp32", {"use_static_ip"}),
    Page("sta", [ssid |-> "work", authmode |-> "enterprise"], "", "ip0", "esp32", {})}

\* With both boxes ticked from the start: a form for each mode, which differ in the
\* address and each bring something new, and one that is refused after its network
\* was taken.
HomeBoxes == [HomeAp EXCEPT !.use_static_ip = TRUE, !.use_mDNS = TRUE]
EachMode == {
    Page("sta", Typed("home", "p2"), "", "ip0", "lamp", {"use_mDNS", "use_static_ip"}),
    Page("ap", Wpa("home", "p2"), "p3", "ip1", "lamp", {"use_mDNS", "use_static_ip"}),
    [ssid |-> "work", authmode |-> "enterprise"]}
=============================================================================
