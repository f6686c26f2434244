-------------------------- MODULE WifiModesProofs --------------------------
(***************************************************************************)
(* Proofs about WifiModes, for every number of attempts, every form, every *)
(* queue of events, and with and without errors of the driver.             *)
(***************************************************************************)
EXTENDS WifiModes, SequenceTheorems, TLAPS

ListenerStates == [pc : ListenerPcs, branch : RequestBits, bits : SUBSET Bits, mode : Modes]
HandlerStates == [pc : {"idle", "act"}, event : Events, bits : SUBSET Bits, mode : Modes]
RadioStates == [mode : Modes, on : BOOLEAN, link : {"down", "trying", "assoc", "up"}]
-----------------------------------------------------------------------------
(* The invariants.                                                         *)

\* Where the listener is says which servers run.  While it waits, and until a
\* switch has ended them, the DNS server is the portal's.
Servers ==
    /\ listener.pc \in {"wait", "branch", "drop", "reread", "mdns_set", "stop", "done"} =>
           (dns <=> server = "captive")
    /\ listener.pc \in {"radio", "server"} => server = "none"
    /\ listener.pc = "radio" /\ dns => listener.branch = "to_captive"
    /\ listener.pc = "server" => ~dns
    /\ listener.pc = "error" => ~dns /\ server # "captive"

\* The branches that are no switch.
Branching ==
    /\ listener.pc \in {"stop", "radio", "server", "done", "error"} => listener.branch \in Switches
    /\ listener.pc \in {"drop", "reread"} => listener.branch = "reconnect"

\* A request for station settings that are saved and not yet read: the switch to
\* AP mode ends the station, the reconnection reads them.
Asked ==
    \/ {"to_ap", "reconnect"} \cap (flags \cup post.set) # {}
    \/ listener.pc = "reread"

\* A station that runs has read its settings, or has been asked to.
Settings ==
    /\ server = "runtime" /\ radio.mode = "sta" => use["sta"] # "asked" \/ Asked
    /\ listener.pc \in {"server", "done"} => radio.mode = Target(listener.branch)
    /\ listener.pc = "error" /\ server = "runtime" => radio.mode = Target(listener.branch)
    /\ listener.pc = "server" /\ listener.branch = "to_sta" => use["sta"] # "asked"
    /\ post.pc = "idle" => post.set = {}

\* Events that set or clear a bit, the two that clear AP_MODE_BIT or may do so.
LinkUp == {"STA_CONNECTED", "GOT_IP"}
LinkDown == {"STA_DISCONNECTED"}
ApUp == {"AP_START"}
ApDown == {"AP_STOP"}
ApMayGo == {"AP_STOP", "STA_START"}

\* No event of q is in S or in C; or the last one that is, is in S.
Silent(q, S, C) == \A i \in DOMAIN q : q[i] \notin S \cup C
Ends(q, S, C) == \E i \in DOMAIN q : q[i] \in S /\ \A j \in DOMAIN q : j > i => q[j] \notin C

\* What the bits are once the event being handled has been.
ConnectedBit ==
    IF handler.pc = "act" /\ handler.event \in LinkUp THEN TRUE
    ELSE IF handler.pc = "act" /\ handler.event = "STA_DISCONNECTED" THEN FALSE
    ELSE "connected" \in flags
ApBit ==
    IF handler.pc = "act" /\ handler.event = "AP_START" THEN TRUE
    ELSE IF handler.pc = "act" /\ handler.event = "AP_STOP" THEN FALSE
    ELSE IF handler.pc = "act" /\ handler.event = "STA_START" /\ handler.mode = "sta" THEN FALSE
    ELSE "ap_mode" \in flags

Linked == radio.link \in {"assoc", "up"}
ApOn == radio.on /\ radio.mode = "apsta"

\* The bits will be true when the events under way have been handled.  A station
\* start clears AP_MODE_BIT or not, as the mode is by then: it makes no difference.
Status ==
    /\ Ends(events, LinkUp, LinkDown) \/ (Silent(events, LinkUp, LinkDown) /\ ConnectedBit) <=> Linked
    /\ Ends(events, ApUp, ApDown) \/ (Silent(events, ApUp, ApDown) /\ ApBit) <=> ApOn
    /\ Ends(events, ApUp, ApMayGo) \/ (Silent(events, ApUp, ApMayGo) /\ ApBit) <=> ApOn
    /\ fails > 0 => "connected" \notin flags
    /\ ~radio.on => radio.link = "down"
    /\ listener.pc = "radio" => ~radio.on

-----------------------------------------------------------------------------
(* Sequences of events.                                                    *)

LEMMA Disjoint ==
    /\ LinkUp \cap LinkDown = {} /\ ApUp \cap ApDown = {} /\ ApUp \cap ApMayGo = {}
    /\ ApDown \subseteq ApMayGo
  BY DEF LinkUp, LinkDown, ApUp, ApDown, ApMayGo

\* The last event decides, if it sets or clears the bit.
LEMMA LastDecides ==
    ASSUME NEW q \in Seq(Events), NEW a, NEW S, NEW C, S \cap C = {}
    PROVE  /\ a \in S \cup C => ~Silent(Append(q, a), S, C)
           /\ a \in S => Ends(Append(q, a), S, C)
           /\ a \in C => ~Ends(Append(q, a), S, C)
           /\ a \notin S \cup C => /\ Silent(Append(q, a), S, C) <=> Silent(q, S, C)
                                   /\ Ends(Append(q, a), S, C) <=> Ends(q, S, C)
<1> DEFINE n == Len(q)
           r == Append(q, a)
<1>1. /\ n \in Nat /\ DOMAIN q = 1 .. n /\ DOMAIN r = 1 .. n + 1
      /\ r[n + 1] = a /\ \A i \in 1 .. n : r[i] = q[i]
  BY LenProperties
<1> HIDE DEF n, r
<1>2. n + 1 \in 1 .. n + 1 /\ \A i \in 1 .. n + 1 : i = n + 1 \/ (i \in 1 .. n /\ n + 1 > i)
  BY <1>1
<1>3. \A i \in 1 .. n : i \in 1 .. n + 1 /\ ~(i > n + 1)
  BY <1>1
<1>4. a \in S \cup C => ~Silent(r, S, C)
  BY <1>1, <1>2 DEF Silent
<1>5. a \in S => Ends(r, S, C)
  BY <1>1, <1>2 DEF Ends
<1>6. a \in C => ~Ends(r, S, C)
  BY <1>1, <1>2 DEF Ends
<1>7. ASSUME a \notin S \cup C
      PROVE  (Silent(r, S, C) <=> Silent(q, S, C)) /\ (Ends(r, S, C) <=> Ends(q, S, C))
  <2>1. Silent(r, S, C) <=> Silent(q, S, C)
    BY <1>1, <1>2, <1>3, <1>7 DEF Silent
  <2>2. ASSUME NEW i \in 1 .. n
        PROVE  (\A j \in 1 .. n + 1 : j > i => r[j] \notin C) <=> (\A j \in 1 .. n : j > i => q[j] \notin C)
    BY <1>1, <1>2, <1>3, <1>7
  <2>3. Ends(r, S, C) <=> Ends(q, S, C)
    BY <1>1, <1>2, <1>3, <1>7, <2>2 DEF Ends
  <2> QED BY <2>1, <2>3
<1> QED BY <1>4, <1>5, <1>6, <1>7 DEF r

\* The first event decides what the others start from.
LEMMA FirstDecides ==
    ASSUME NEW q \in Seq(Events), q # << >>, NEW S, NEW C, S \cap C = {}
    PROVE  /\ Head(q) \in S \cup C => ~Silent(q, S, C)
           /\ Head(q) \in S => (Ends(q, S, C) <=> Ends(Tail(q), S, C) \/ Silent(Tail(q), S, C))
           /\ Head(q) \notin S => (Ends(q, S, C) <=> Ends(Tail(q), S, C))
           /\ Head(q) \notin S \cup C => (Silent(q, S, C) <=> Silent(Tail(q), S, C))
<1> DEFINE n == Len(q)
           r == Tail(q)
<1>1. /\ n \in Nat \ {0} /\ DOMAIN q = 1 .. n /\ DOMAIN r = 1 .. n - 1
      /\ Head(q) = q[1] /\ \A i \in 1 .. n - 1 : r[i] = q[i + 1]
  BY LenProperties, EmptySeq
<1> HIDE DEF n, r
<1>2. /\ 1 \in 1 .. n
      /\ \A i \in 1 .. n : i = 1 \/ (i - 1 \in 1 .. n - 1 /\ r[i - 1] = q[i] /\ i > 1)
      /\ \A i \in 1 .. n - 1 : i + 1 \in 1 .. n /\ r[i] = q[i + 1] /\ i + 1 # 1
  BY <1>1
<1>3. Silent(q, S, C) <=> q[1] \notin S \cup C /\ Silent(r, S, C)
  BY <1>1, <1>2 DEF Silent
<1>4. ASSUME NEW i \in 1 .. n - 1
      PROVE  (\A j \in 1 .. n : j > i + 1 => q[j] \notin C) <=> (\A j \in 1 .. n - 1 : j > i => r[j] \notin C)
  <2>1. ASSUME \A j \in 1 .. n : j > i + 1 => q[j] \notin C, NEW j \in 1 .. n - 1, j > i
        PROVE  r[j] \notin C
    BY <1>1, <1>2, <2>1
  <2>2. ASSUME \A j \in 1 .. n - 1 : j > i => r[j] \notin C, NEW j \in 1 .. n, j > i + 1
        PROVE  q[j] \notin C
    <3>1. j - 1 \in 1 .. n - 1 /\ r[j - 1] = q[j] /\ j - 1 > i
      BY <1>1, <2>2
    <3> QED BY <2>2, <3>1
  <2> QED BY <2>1, <2>2
<1>5. Ends(q, S, C) <=> Ends(r, S, C) \/ (q[1] \in S /\ \A j \in 1 .. n - 1 : r[j] \notin C)
  <2> DEFINE Last(i) == q[i] \in S /\ \A j \in 1 .. n : j > i => q[j] \notin C
             LastOfTail(i) == r[i] \in S /\ \A j \in 1 .. n - 1 : j > i => r[j] \notin C
  <2>1. \A i \in 1 .. n - 1 : Last(i + 1) <=> LastOfTail(i)
    BY <1>2, <1>4
  <2>2. Last(1) <=> q[1] \in S /\ \A j \in 1 .. n - 1 : r[j] \notin C
    BY <1>1, <1>2
  <2>3. (Ends(q, S, C) <=> \E i \in 1 .. n : Last(i)) /\ (Ends(r, S, C) <=> \E i \in 1 .. n - 1 : LastOfTail(i))
    BY <1>1 DEF Ends
  <2> HIDE DEF Last, LastOfTail
  <2>4. (\E i \in 1 .. n : Last(i)) <=> Last(1) \/ \E i \in 1 .. n - 1 : LastOfTail(i)
    <3>1. ASSUME NEW i \in 1 .. n, Last(i) PROVE Last(1) \/ \E k \in 1 .. n - 1 : LastOfTail(k)
      <4>1. i = 1 \/ (i - 1 \in 1 .. n - 1 /\ (i - 1) + 1 = i)
        BY <1>1
      <4> QED BY <2>1, <3>1, <4>1
    <3>2. ASSUME NEW i \in 1 .. n - 1, LastOfTail(i) PROVE \E k \in 1 .. n : Last(k)
      BY <1>2, <2>1, <3>2
    <3> QED BY <1>2, <3>1, <3>2
  <2> QED BY <2>2, <2>3, <2>4
<1>6. (\A j \in 1 .. n - 1 : r[j] \notin C) => Silent(r, S, C) \/ Ends(r, S, C)
  BY <1>1 DEF Silent, Ends
<1>7. Silent(r, S, C) => \A j \in 1 .. n - 1 : r[j] \notin C
  BY <1>1 DEF Silent
<1> QED BY <1>1, <1>3, <1>5, <1>6, <1>7 DEF r

\* The more events clear the bit, the fewer sequences are silent or set it.
LEMMA ClearedByMore ==
    ASSUME NEW q, NEW S, NEW C, NEW D, C \subseteq D
    PROVE  (Silent(q, S, D) => Silent(q, S, C)) /\ (Ends(q, S, D) => Ends(q, S, C))
  BY DEF Silent, Ends

\* The sequences that are posted, event by event.
LEMMA Posted ==
    ASSUME NEW q \in Seq(Events)
    PROVE  /\ q \o << >> = q
           /\ \A a \in Events : q \o <<a>> = Append(q, a) /\ Append(q, a) \in Seq(Events)
           /\ \A a, b \in Events : q \o <<a, b>> = Append(Append(q, a), b)
<1>1. q \o << >> = q
  BY ConcatEmptySeq
<1>2. \A a \in Events : q \o <<a>> = Append(q, a) /\ Append(q, a) \in Seq(Events)
  BY AppendIsConcat, AppendProperties
<1>3. \A a, b \in Events : q \o <<a, b>> = Append(Append(q, a), b)
  <2> TAKE a, b \in Events
  <2>1. <<a, b>> = <<a>> \o <<b>> /\ <<a>> \in Seq(Events) /\ <<b>> \in Seq(Events)
    <3>1. <<a>> \in Seq(Events) /\ <<b>> \in Seq(Events)
      OBVIOUS
    <3>2. Append(<<a>>, b) = <<a>> \o <<b>>
      BY <3>1, AppendIsConcat
    <3>3. Append(<<a>>, b) = <<a, b>>
      <4> DEFINE s == Append(<<a>>, b)
                 r == <<a, b>>
      <4>1. s \in Seq(Events) /\ Len(s) = 2 /\ s[1] = a /\ s[2] = b
        BY <3>1, AppendProperties
      <4>2. r \in Seq(Events) /\ Len(r) = 2 /\ r[1] = a /\ r[2] = b
        OBVIOUS
      <4> HIDE DEF s, r
      <4>3. \A i \in 1 .. Len(s) : s[i] = r[i]
        BY <4>1, <4>2
      <4> QED BY <4>1, <4>2, <4>3, SeqEqual DEF s, r
    <3> QED BY <3>1, <3>2, <3>3
  <2>2. q \o <<a, b>> = (q \o <<a>>) \o <<b>>
    BY <2>1, ConcatAssociative
  <2> QED BY <1>2, <2>2
<1> QED BY <1>1, <1>2, <1>3

-----------------------------------------------------------------------------
(* What calls into the driver do.                                          *)

LEMMA Drops ==
    ASSUME TypeOK, NEW e \in DropEvents
    PROVE  /\ events \o e \in {events, Append(events, "STA_DISCONNECTED")}
           /\ Linked => events \o e = Append(events, "STA_DISCONNECTED")
<1>1. events \in Seq(Events) /\ "STA_DISCONNECTED" \in Events
  BY DEF TypeOK, Events
<1>2. e = << >> \/ e = <<"STA_DISCONNECTED">>
  BY DEF DropEvents
<1>3. Linked => e = <<"STA_DISCONNECTED">>
  BY DEF DropEvents, Linked
<1>4. /\ events \o << >> = events
      /\ events \o <<"STA_DISCONNECTED">> = Append(events, "STA_DISCONNECTED")
  BY <1>1, Posted
<1> QED BY <1>2, <1>3, <1>4

LEMMA Disconnects ==
    ASSUME TypeOK, esp_wifi_disconnect
    PROVE  /\ radio' \in RadioStates /\ radio'.mode = radio.mode /\ radio'.on = radio.on
           /\ radio'.link = "down"
           /\ events' \in {events, Append(events, "STA_DISCONNECTED")}
           /\ Linked => events' = Append(events, "STA_DISCONNECTED")
  BY Drops DEF esp_wifi_disconnect, TypeOK, RadioStates

LEMMA Stops ==
    ASSUME TypeOK, esp_wifi_stop
    PROVE  /\ radio' \in RadioStates /\ radio'.mode = radio.mode /\ radio'.on = FALSE
           /\ radio'.link = "down"
           /\ \E q \in {events, Append(events, "STA_DISCONNECTED")} :
                  /\ Linked => q = Append(events, "STA_DISCONNECTED")
                  /\ events' = IF ApOn THEN Append(q, "AP_STOP") ELSE q
<1>1. PICK e \in DropEvents :
          events' = (events \o e) \o (IF radio.on /\ radio.mode = "apsta" THEN <<"AP_STOP">> ELSE << >>)
  <2>1. PICK e \in DropEvents :
            events' = events \o e \o (IF radio.on /\ radio.mode = "apsta" THEN <<"AP_STOP">> ELSE << >>)
    BY DEF esp_wifi_stop
  <2> QED BY <2>1
<1> DEFINE q == events \o e
<1>2. q \in {events, Append(events, "STA_DISCONNECTED")} /\ (Linked => q = Append(events, "STA_DISCONNECTED"))
  BY Drops
<1>3. q \in Seq(Events)
  <2>1. events \in Seq(Events) /\ "STA_DISCONNECTED" \in Events
    BY DEF TypeOK, Events
  <2> QED BY <1>2, <2>1, Posted
<1>4. q \o << >> = q /\ q \o <<"AP_STOP">> = Append(q, "AP_STOP")
  <2>1. "AP_STOP" \in Events
    BY DEF Events
  <2> HIDE DEF q
  <2> QED BY <1>3, <2>1, Posted
<1>5. events' = IF ApOn THEN Append(q, "AP_STOP") ELSE q
  BY <1>1, <1>4 DEF ApOn
<1>6. /\ radio' \in RadioStates /\ radio'.mode = radio.mode /\ radio'.on = FALSE
      /\ radio'.link = "down"
  BY DEF esp_wifi_stop, TypeOK, RadioStates
<1> HIDE DEF q
<1> QED BY <1>2, <1>5, <1>6

LEMMA Starts ==
    ASSUME TypeOK, NEW mode \in Modes, esp_wifi_start(mode)
    PROVE  /\ radio' \in RadioStates /\ radio'.mode = mode /\ radio'.on = TRUE /\ radio'.link = "down"
           /\ mode = "sta" => events' = Append(events, "STA_START")
           /\ mode = "apsta" => events' = Append(Append(events, "STA_START"), "AP_START")
<1>1. events \in Seq(Events) /\ "STA_START" \in Events /\ "AP_START" \in Events
  BY DEF TypeOK, Events
<1>2. /\ events \o <<"STA_START">> = Append(events, "STA_START")
      /\ events \o <<"STA_START", "AP_START">> = Append(Append(events, "STA_START"), "AP_START")
  BY <1>1, Posted
<1>3. /\ mode = "sta" => events' = events \o <<"STA_START">>
      /\ mode = "apsta" => events' = events \o <<"STA_START", "AP_START">>
  BY DEF esp_wifi_start
<1>4. radio' \in RadioStates /\ radio'.mode = mode /\ radio'.on = TRUE /\ radio'.link = "down"
  BY DEF esp_wifi_start, RadioStates
<1> QED BY <1>2, <1>3, <1>4

LEMMA Connects ==
    ASSUME TypeOK, esp_wifi_connect
    PROVE  /\ radio' \in RadioStates /\ radio'.mode = radio.mode /\ radio'.on = radio.on
           /\ Linked' <=> Linked
           /\ ~radio.on => radio' = radio
  BY DEF esp_wifi_connect, TypeOK, RadioStates, Linked

\* Where the listener goes.
LEMMA Goes ==
    ASSUME TypeOK, NEW pc \in ListenerPcs, Go(pc)
    PROVE  listener' \in ListenerStates /\ listener'.pc = pc /\ listener'.branch = listener.branch
  BY DEF Go, TypeOK, ListenerStates

LEMMA Waits == Waiting \in ListenerStates /\ Waiting.pc = "wait" /\ Waiting.branch = "to_sta"
  BY DEF Waiting, ListenerStates, ListenerPcs, RequestBits, Modes

LEMMA LoopGoes ==
    ASSUME NEW k \in 1 .. 6, NEW bits \in SUBSET Bits, NEW mode \in Modes
    PROVE  /\ From(k, bits, mode) \in ListenerStates /\ From(k, bits, mode).pc \in {"wait", "branch"}
           /\ From(k, bits, mode).pc = "branch" =>
                  /\ From(k, bits, mode).bits = bits
                  /\ From(k, bits, mode).branch \in bits
                  /\ k # 1 => From(k, bits, mode).branch # "to_sta"
<1> DEFINE asked == {i \in k .. 5 : /\ Branches[i] \in bits
                                    /\ Branches[i] = "reconnect" => mode = "sta"}
           first == CHOOSE i \in asked : \A j \in asked : i <= j
<1>1. CASE asked = {}
  BY <1>1, Waits DEF From
<1>2. CASE asked # {}
  <2>1. asked \subseteq {1, 2, 3, 4, 5}
    OBVIOUS
  <2> HIDE DEF asked
  <2>2. \E i \in asked : \A j \in asked : i <= j
    <3>1. CASE 1 \in asked
      BY <2>1, <3>1
    <3>2. CASE 1 \notin asked /\ 2 \in asked
      BY <2>1, <3>2
    <3>3. CASE 1 \notin asked /\ 2 \notin asked /\ 3 \in asked
      BY <2>1, <3>3
    <3>4. CASE 1 \notin asked /\ 2 \notin asked /\ 3 \notin asked /\ 4 \in asked
      BY <2>1, <3>4
    <3>5. CASE asked = {5}
      BY <3>5
    <3> QED BY <1>2, <2>1, <3>1, <3>2, <3>3, <3>4, <3>5
  <2>3. first \in {1, 2, 3, 4, 5}
    BY <2>1, <2>2
  <2> HIDE DEF first
  <2>4. Branches[first] \in RequestBits /\ (first # 1 => Branches[first] # "to_sta")
    BY <2>3 DEF Branches, RequestBits
  <2>6. first \in asked
    BY <2>2 DEF first
  <2>7. Branches[first] \in bits /\ (k # 1 => first # 1)
    BY <2>6 DEF asked
  <2>5. From(k, bits, mode) = [pc |-> "branch", bits |-> bits, mode |-> mode, branch |-> Branches[first]]
    BY <1>2 DEF From, asked, first
  <2> QED BY <2>4, <2>5, <2>7 DEF ListenerStates, ListenerPcs
<1> QED BY <1>1, <1>2

LEMMA Proceeds ==
    ASSUME TypeOK, Proceed
    PROVE  /\ listener' \in ListenerStates /\ listener'.pc \in {"wait", "branch"}
           /\ listener'.pc = "branch" =>
                  /\ listener'.bits = listener.bits
                  /\ listener'.branch \in listener.bits \ {"to_sta"}
<1> DEFINE k == CHOOSE i \in 1 .. 5 : Branches[i] = listener.branch
<1>1. listener.branch \in RequestBits /\ listener.bits \in SUBSET Bits /\ listener.mode \in Modes
  BY DEF TypeOK
<1>2. \E i \in 1 .. 5 : Branches[i] = listener.branch
  <2>1. /\ Branches[1] = "to_sta" /\ Branches[2] = "to_ap" /\ Branches[3] = "to_captive"
        /\ Branches[4] = "reconnect" /\ Branches[5] = "mdns"
    BY DEF Branches
  <2>2. 1 \in 1 .. 5 /\ 2 \in 1 .. 5 /\ 3 \in 1 .. 5 /\ 4 \in 1 .. 5 /\ 5 \in 1 .. 5
    OBVIOUS
  <2> QED BY <1>1, <2>1, <2>2 DEF RequestBits
<1>3. k \in 1 .. 5
  BY <1>2
<1> HIDE DEF k
<1>4. k + 1 \in 1 .. 6 /\ k + 1 # 1
  BY <1>3
<1>5. listener' = From(k + 1, listener.bits, listener.mode)
  BY DEF Proceed, k
<1> QED BY <1>1, <1>4, <1>5, LoopGoes
-----------------------------------------------------------------------------
(* Types.                                                                  *)

LEMMA NetworkTypes ==
    ASSUME TypeOK, NEW from, NEW to \in {"down", "assoc", "up"}, NEW event \in Events,
           LinkStep(from, to, event)
    PROVE  TypeOK'
<1>1. events' \in Seq(Events)
  BY AppendProperties DEF LinkStep, TypeOK
<1>2. radio' \in [mode : Modes, on : BOOLEAN, link : {"down", "trying", "assoc", "up"}]
  BY DEF LinkStep, TypeOK
<1>3. lost' \in 0 .. MaxReconnects
  BY ModesAssumption DEF LinkStep, TypeOK
<1> QED BY <1>1, <1>2, <1>3 DEF TypeOK, LinkStep, postVars

LEMMA HandlerTypes == ASSUME TypeOK, HandlerStep PROVE TypeOK'
<1>1. CASE TakeEvent
  <2>1. Head(events) \in Events /\ Tail(events) \in Seq(Events)
    BY <1>1, HeadTailProperties DEF TakeEvent, TypeOK
  <2>2. handler' \in [pc : {"idle", "act"}, event : Events, bits : SUBSET Bits, mode : Modes]
    BY <1>1, <2>1 DEF TakeEvent, TypeOK
  <2> QED BY <1>1, <2>1, <2>2 DEF TakeEvent, TypeOK, postVars
<1>2. NoEvent \in [pc : {"idle", "act"}, event : Events, bits : SUBSET Bits, mode : Modes]
  BY DEF NoEvent, Events, Modes
<1>3. CASE ApStart \/ ApStop \/ Connected \/ NoteLoss
  <2>1. /\ flags' \subseteq Bits /\ fails' \in 0 .. MaxReconnects - 1 /\ UNCHANGED <<events, radio>> /\ Handled
    BY <1>3, ModesAssumption DEF ApStart, ApStop, Connected, NoteLoss, TypeOK, Bits
  <2> QED BY <1>2, <2>1 DEF TypeOK, Handled, postVars
<1>4. CASE StaStart
  <2>1. radio' \in RadioStates
    BY <1>4, Connects DEF StaStart, TypeOK, RadioStates
  <2>2. flags' \subseteq Bits /\ UNCHANGED <<events, fails>> /\ Handled
    BY <1>4 DEF StaStart, TypeOK
  <2> QED BY <1>2, <2>1, <2>2 DEF TypeOK, Handled, postVars, RadioStates
<1>5. CASE TryAgain
  <2>1. radio' \in RadioStates
    BY <1>5, Connects DEF TryAgain
  <2>2. flags' \subseteq Bits /\ fails' \in 0 .. MaxReconnects - 1 /\ UNCHANGED events /\ Handled
    BY <1>5, ModesAssumption DEF TryAgain, TypeOK
  <2> QED BY <1>2, <2>1, <2>2 DEF TypeOK, Handled, postVars, RadioStates
<1>6. CASE GiveUp
  <2>1. radio' \in RadioStates /\ events' \in {events, Append(events, "STA_DISCONNECTED")}
    BY <1>6, Disconnects DEF GiveUp
  <2>2. events' \in Seq(Events)
    <3>1. events \in Seq(Events) /\ "STA_DISCONNECTED" \in Events
      BY DEF TypeOK, Events
    <3>2. Append(events, "STA_DISCONNECTED") \in Seq(Events)
      BY <3>1, AppendProperties
    <3> QED BY <2>1, <3>1, <3>2
  <2>3. flags' \subseteq Bits /\ fails' \in 0 .. MaxReconnects - 1 /\ Handled
    BY <1>6, ModesAssumption DEF GiveUp, TypeOK, Bits, RequestBits
  <2> QED BY <1>2, <2>1, <2>2, <2>3 DEF TypeOK, Handled, postVars, RadioStates
<1> QED BY <1>1, <1>3, <1>4, <1>5, <1>6 DEF HandlerStep

\* What the form's handler does.
FormStep ==
    \/ PostFlags
    \/ \E changed \in Requests :
           (\E mode \in {"sta", "ap"} : PostSave(mode, changed)) \/ PostRefused(changed)

LEMMA PostTypes ==
    ASSUME TypeOK, FormStep
    PROVE  TypeOK'
<1>1. CASE PostFlags
  BY <1>1 DEF PostFlags, TypeOK, Bits, eventVars
<1>2. ASSUME NEW mode \in {"sta", "ap"}, NEW changed \in Requests, PostSave(mode, changed) PROVE TypeOK'
  <2>1. Requested(mode, changed) \subseteq RequestBits
    BY DEF Requested, RequestBits
  <2>2. use' \in [Fields -> Uses]
    BY <1>2 DEF PostSave, TypeOK, Uses
  <2> QED BY <1>2, <2>1, <2>2 DEF PostSave, TypeOK, eventVars
<1>3. ASSUME NEW changed \in Requests, PostRefused(changed) PROVE TypeOK'
  <2>1. use' \in [Fields -> Uses]
    BY <1>3 DEF PostRefused, TypeOK, Uses
  <2> QED BY <1>3, <2>1 DEF PostRefused, TypeOK, eventVars
<1> QED BY <1>1, <1>2, <1>3 DEF FormStep

LEMMA PutTypes == ASSUME TypeOK, NEW F, PutToUse(F) PROVE use' \in [Fields -> Uses]
  BY DEF TypeOK, PutToUse, Uses

LEMMA ListenerTypes == ASSUME TypeOK, ListenerStep PROVE TypeOK'
<1>1. ASSUME UNCHANGED <<events, radio>>, flags' \subseteq Bits, listener' \in ListenerStates,
             server' \in {"none", "runtime", "captive"}, dns' \in BOOLEAN, use' \in [Fields -> Uses],
             lost' \in 0 .. MaxReconnects, UNCHANGED <<handler, fails, postVars>>
      PROVE  TypeOK'
  BY <1>1 DEF TypeOK, ListenerStates, postVars
<1>2. ASSUME radio' \in RadioStates, events' \in Seq(Events), flags' \subseteq Bits, listener' \in ListenerStates,
             server' \in {"none", "runtime", "captive"}, dns' \in BOOLEAN, use' \in [Fields -> Uses],
             lost' \in 0 .. MaxReconnects, UNCHANGED <<handler, fails, postVars>>
      PROVE  TypeOK'
  BY <1>2 DEF TypeOK, ListenerStates, RadioStates, postVars
<1>3. \A q \in Seq(Events), e \in Events : Append(q, e) \in Seq(Events)
  BY AppendProperties
<1>p. /\ events \in Seq(Events)
      /\ "STA_DISCONNECTED" \in Events /\ "AP_STOP" \in Events /\ "STA_START" \in Events /\ "AP_START" \in Events
  BY DEF TypeOK, Events
<1>s. ASSUME esp_wifi_stop PROVE radio' \in RadioStates /\ events' \in Seq(Events)
  <2>1. PICK q \in {events, Append(events, "STA_DISCONNECTED")} : events' \in {q, Append(q, "AP_STOP")}
    BY <1>s, Stops
  <2> QED BY <1>3, <1>p, <1>s, <2>1, Stops
<1>4. CASE Wake
  <2>1. listener' \in ListenerStates
    BY <1>4, LoopGoes DEF Wake, TypeOK
  <2> QED BY <1>1, <1>4, <2>1 DEF Wake, TypeOK, eventVars
<1>5. CASE AlreadyConnected \/ MdnsDone
  BY <1>1, <1>5, Waits DEF AlreadyConnected, MdnsDone, TypeOK, eventVars
<1>6. CASE (\E b \in Switches : StopServer(b) \/ ServerUp(b)) \/ LinkDropped \/ ReadMdns
  <2>1. /\ \E pc \in ListenerPcs : Go(pc)
        /\ flags' \subseteq Bits /\ server' \in {"none", "runtime", "captive"} /\ dns' \in BOOLEAN
        /\ use' \in [Fields -> Uses] /\ UNCHANGED <<eventVars, radio, postVars, lost>>
    BY <1>6, PutTypes DEF StopServer, ServerUp, LinkDropped, ReadMdns, TypeOK, ListenerPcs
  <2> QED BY <1>1, <2>1, Goes DEF TypeOK, eventVars
<1>7. ASSUME NEW b \in Switches, TearDown(b) PROVE TypeOK'
  <2>1. radio' \in RadioStates /\ events' \in Seq(Events)
    BY <1>7, <1>s DEF TearDown
  <2>2. listener' \in ListenerStates
    BY <1>7, Goes DEF TearDown, ListenerPcs
  <2>3. dns' \in BOOLEAN /\ server' = "none" /\ UNCHANGED <<flags, handler, fails, postVars, use, lost>>
    BY <1>7 DEF TearDown, TypeOK
  <2> QED BY <1>2, <2>1, <2>2, <2>3 DEF TypeOK
<1>8. ASSUME NEW b \in Switches, RadioUp(b) PROVE TypeOK'
  <2>1. radio' \in RadioStates /\ events' \in Seq(Events)
    <3>1. Target(b) \in {"sta", "apsta"} /\ esp_wifi_start(Target(b))
      BY <1>8 DEF RadioUp, Target
    <3>2. radio' \in RadioStates
      BY <3>1, Starts DEF Modes
    <3>3. events' = Append(events, "STA_START") \/ events' = Append(Append(events, "STA_START"), "AP_START")
      BY <3>1, Starts DEF Modes
    <3> QED BY <1>3, <1>p, <3>2, <3>3
  <2>2. listener' \in ListenerStates
    BY <1>8, Goes DEF RadioUp, ListenerPcs
  <2>3. /\ dns' \in BOOLEAN /\ lost' \in 0 .. MaxReconnects /\ use' \in [Fields -> Uses]
        /\ UNCHANGED <<flags, handler, fails, server, postVars>>
    BY <1>8, PutTypes, ModesAssumption DEF RadioUp, StopsOldDns, TypeOK
  <2> QED BY <1>2, <2>1, <2>2, <2>3 DEF TypeOK
<1>9. ASSUME NEW b \in Switches, RadioFails(b) PROVE TypeOK'
  <2>1. radio' \in RadioStates
    BY <1>9 DEF RadioFails, TypeOK, RadioStates, Target, Modes
  <2>2. listener' \in ListenerStates
    BY <1>9, Goes DEF RadioFails, ListenerPcs
  <2>3. dns' \in BOOLEAN /\ UNCHANGED <<flags, eventVars, server, postVars, use, lost>>
    BY <1>9 DEF RadioFails, StopsOldDns, TypeOK
  <2> QED BY <1>2, <2>1, <2>2, <2>3 DEF TypeOK, eventVars
<1>10. ASSUME NEW b \in Switches, ServerFails(b) PROVE TypeOK'
  <2>1. radio' \in RadioStates /\ events' \in Seq(Events) /\ server' \in {"none", "runtime", "captive"}
    <3>1. CASE b = "to_captive"
      BY <1>10, <1>s, <3>1 DEF ServerFails, TypeOK
    <3>2. CASE b # "to_captive"
      BY <1>10, <3>2 DEF ServerFails, TypeOK, RadioStates
    <3> QED BY <3>1, <3>2
  <2>2. listener' \in ListenerStates
    BY <1>10, Goes DEF ServerFails, ListenerPcs
  <2>3. UNCHANGED <<flags, handler, fails, dns, postVars, use, lost>>
    BY <1>10 DEF ServerFails
  <2> QED BY <1>2, <2>1, <2>2, <2>3 DEF TypeOK
<1>11. CASE \E b \in Switches : SwitchDone(b) \/ SwitchFailed(b)
  <2>1. flags' \subseteq Bits /\ Proceed /\ UNCHANGED <<eventVars, radio, server, dns, postVars, use, lost>>
    BY <1>11 DEF SwitchDone, SwitchFailed, TypeOK, Bits, RequestBits
  <2> QED BY <1>1, <2>1, Proceeds DEF TypeOK, eventVars
<1>12. CASE DropLink
  <2>1. radio' \in RadioStates /\ events' \in Seq(Events)
    BY <1>3, <1>12, Disconnects DEF DropLink, TypeOK, Events
  <2>2. listener' \in ListenerStates
    BY <1>12, Goes DEF DropLink, ListenerPcs
  <2> QED BY <1>2, <1>12, <2>1, <2>2 DEF DropLink, TypeOK
<1>13. CASE Reread
  <2>1. radio' \in RadioStates /\ listener' \in ListenerStates
    BY <1>13, Connects, Proceeds DEF Reread
  <2>2. use' \in [Fields -> Uses]
    BY <1>13, PutTypes DEF Reread
  <2> QED BY <1>2, <1>13, <2>1, <2>2 DEF Reread, TypeOK, eventVars
<1> QED BY <1>4, <1>5, <1>6, <1>7, <1>8, <1>9, <1>10, <1>11, <1>12, <1>13 DEF ListenerStep

LEMMA TypesStep == ASSUME TypeOK, [Next]_vars PROVE TypeOK'
<1>1. CASE UNCHANGED vars
  BY <1>1 DEF vars, eventVars, postVars, TypeOK
<1>2. CASE AttemptSucceeds \/ AttemptFails \/ GetsAddress \/ LinkBreaks
  BY <1>2, NetworkTypes DEF AttemptSucceeds, AttemptFails, GetsAddress, LinkBreaks, Events
<1> QED BY <1>1, <1>2, HandlerTypes, PostTypes, ListenerTypes DEF Next, FormStep

\* Every variable has its type: in particular the count of failures stays below
\* its limit.
THEOREM ModesTypeCorrect == Spec => []TypeOK
<1>1. ASSUME Init PROVE TypeOK
  <2>1. flags \subseteq Bits /\ << >> \in Seq(Events) /\ use \in [Fields -> Uses]
    BY <1>1 DEF Init, Bits, RequestBits, Switches, Uses
  <2>2. NoEvent \in [pc : {"idle", "act"}, event : Events, bits : SUBSET Bits, mode : Modes]
    BY DEF NoEvent, Events, Modes
  <2>3. radio \in [mode : Modes, on : BOOLEAN, link : {"down", "trying", "assoc", "up"}]
    BY <1>1 DEF Init, Modes
  <2>4. 0 \in 0 .. MaxReconnects - 1 /\ 0 \in 0 .. MaxReconnects
    BY ModesAssumption
  <2> QED BY <1>1, <2>1, <2>2, <2>3, <2>4, Waits DEF Init, TypeOK, ListenerStates
<1> QED BY <1>1, TypesStep, PTL DEF Spec

-----------------------------------------------------------------------------
(* The servers of each mode.                                               *)

\* Nobody but the listener moves it, or touches the servers.
LEMMA OnlyListenerSwitches ==
    ASSUME [Next]_vars PROVE ListenerStep \/ UNCHANGED <<listener, server, dns>>
  BY DEF Next, vars, LinkStep, AttemptSucceeds, AttemptFails, GetsAddress, LinkBreaks, HandlerStep, TakeEvent,
         ApStart, ApStop, StaStart, Connected, GiveUp, TryAgain, NoteLoss, Handled, PostSave, PostRefused, PostFlags

\* The loop comes to "reconnect" and "mdns" without a switch.
LEMMA BranchingStep == ASSUME TypeOK, Branching, [Next]_vars PROVE Branching'
<1> USE DEF Branching
<1>1. CASE UNCHANGED <<listener, server, dns>>
  BY <1>1
<1>2. CASE Wake
  <2>1. listener'.pc \in {"wait", "branch"}
    BY <1>2, LoopGoes DEF Wake, TypeOK
  <2> QED BY <2>1
<1>3. CASE AlreadyConnected \/ MdnsDone
  BY <1>3, Waits DEF AlreadyConnected, MdnsDone
<1>4. ASSUME NEW b \in Switches,
             StopServer(b) \/ TearDown(b) \/ RadioUp(b) \/ RadioFails(b) \/ ServerUp(b) \/ ServerFails(b)
      PROVE  Branching'
  <2>1. listener.branch = b /\ \E pc \in {"stop", "radio", "server", "done", "error"} : Go(pc)
    BY <1>4 DEF StopServer, TearDown, RadioUp, RadioFails, ServerUp, ServerFails, At
  <2> QED BY <2>1, Goes DEF ListenerPcs
<1>5. CASE (\E b \in Switches : SwitchDone(b) \/ SwitchFailed(b)) \/ Reread
  <2>1. Proceed
    BY <1>5 DEF SwitchDone, SwitchFailed, Reread
  <2> QED BY <2>1, Proceeds
<1>6. CASE DropLink \/ LinkDropped \/ ReadMdns
  <2>1. \/ Go("drop") /\ listener.branch = "reconnect"
        \/ Go("reread") /\ listener.branch = "reconnect"
        \/ Go("mdns_set")
    BY <1>6 DEF DropLink, LinkDropped, ReadMdns, At
  <2> QED BY <2>1, Goes DEF ListenerPcs
<1> QED BY <1>1, <1>2, <1>3, <1>4, <1>5, <1>6, OnlyListenerSwitches DEF ListenerStep

LEMMA ServersStep == ASSUME TypeOK, Servers, [Next]_vars PROVE Servers'
<1> USE DEF Servers
<1>1. CASE UNCHANGED <<listener, server, dns>>
  BY <1>1
<1>2. CASE Wake
  <2>1. listener'.pc \in {"wait", "branch"} /\ listener.pc = "wait" /\ UNCHANGED <<server, dns>>
    BY <1>2, LoopGoes DEF Wake, TypeOK
  <2> QED BY <2>1
<1>3. CASE AlreadyConnected \/ MdnsDone
  <2>1. listener'.pc = "wait" /\ listener.pc \in {"branch", "mdns_set"} /\ UNCHANGED <<server, dns>>
    BY <1>3, Waits DEF AlreadyConnected, MdnsDone, At
  <2> QED BY <2>1
<1>4. ASSUME NEW b \in Switches, StopServer(b) PROVE Servers'
  <2>1. listener'.pc = "stop" /\ listener.pc = "branch" /\ UNCHANGED <<server, dns>>
    BY <1>4, Goes DEF StopServer, At, ListenerPcs
  <2> QED BY <2>1
<1>5. ASSUME NEW b \in Switches, TearDown(b) PROVE Servers'
  <2>1. /\ listener'.pc = "radio" /\ listener'.branch = b /\ server' = "none"
        /\ dns' = (dns /\ b = "to_captive")
    BY <1>5, Goes DEF TearDown, At, ListenerPcs
  <2> QED BY <2>1
<1>6. ASSUME NEW b \in Switches, RadioUp(b) PROVE Servers'
  <2>1. /\ listener'.pc = "server" /\ listener.pc = "radio" /\ listener.branch = b /\ server' = server
        /\ dns' = (dns /\ b # "to_captive")
    BY <1>6, Goes DEF RadioUp, StopsOldDns, At, ListenerPcs
  <2> QED BY <2>1
<1>7. ASSUME NEW b \in Switches, RadioFails(b) PROVE Servers'
  <2>1. /\ listener'.pc = "error" /\ listener.pc = "radio" /\ listener.branch = b /\ server' = server
        /\ dns' = (dns /\ b # "to_captive")
    BY <1>7, Goes DEF RadioFails, StopsOldDns, At, ListenerPcs
  <2> QED BY <2>1
<1>8. ASSUME NEW b \in Switches, ServerUp(b) PROVE Servers'
  <2>1. /\ listener'.pc = "done" /\ listener.pc = "server"
        /\ server' = (IF b = "to_captive" THEN "captive" ELSE "runtime")
        /\ dns' = (dns \/ b = "to_captive")
    BY <1>8, Goes DEF ServerUp, At, ListenerPcs
  <2> QED BY <2>1
<1>9. ASSUME NEW b \in Switches, ServerFails(b) PROVE Servers'
  <2>1. /\ listener'.pc = "error" /\ listener.pc = "server"
        /\ server' \in {server, "none", "runtime"} /\ dns' = dns
    BY <1>9, Goes DEF ServerFails, At, ListenerPcs
  <2> QED BY <2>1
<1>10. CASE (\E b \in Switches : SwitchDone(b) \/ SwitchFailed(b)) \/ Reread
  <2>1. Proceed /\ UNCHANGED <<server, dns>> /\ listener.pc \in {"done", "error", "reread"}
    BY <1>10 DEF SwitchDone, SwitchFailed, Reread, At
  <2> QED BY <2>1, Proceeds
<1>11. CASE DropLink \/ LinkDropped \/ ReadMdns
  <2>1. /\ Go("drop") \/ Go("reread") \/ Go("mdns_set")
        /\ listener.pc \in {"branch", "drop"} /\ UNCHANGED <<server, dns>>
    BY <1>11 DEF DropLink, LinkDropped, ReadMdns, At
  <2> QED BY <2>1, Goes DEF ListenerPcs
<1> QED BY <1>1, <1>2, <1>3, <1>4, <1>5, <1>6, <1>7, <1>8, <1>9, <1>10, <1>11, OnlyListenerSwitches
        DEF ListenerStep

\* Whenever the listener waits for a request, the DNS server that answers every
\* name runs if the portal is served and only then, whichever calls failed on the
\* way (Captive.c:496, 565, 630).
THEOREM HijackIsThePortals == Spec => []HijackOnlyInPortal
<1>1. Init => Servers
  BY Waits DEF Init, Servers
<1>2. Servers => HijackOnlyInPortal
  BY DEF Servers, HijackOnlyInPortal
<1> QED BY <1>1, <1>2, ModesTypeCorrect, ServersStep, PTL DEF Spec
-----------------------------------------------------------------------------
(* Saved settings.                                                         *)

\* A step that leaves the radio's mode and the servers, forgets no setting and
\* drops no request for the station.
LEMMA SettingsKept ==
    ASSUME Settings, UNCHANGED <<server, listener, post>>, radio'.mode = radio.mode,
           (use["sta"] # "asked" => use'["sta"] # "asked"), flags \cap {"to_ap", "reconnect"} \subseteq flags'
    PROVE  Settings'
  BY DEF Settings, Asked

\* What the handlers of events do is such a step.
LEMMA SettingsEvents ==
    ASSUME TypeOK, Settings, \/ AttemptSucceeds \/ AttemptFails \/ GetsAddress \/ LinkBreaks
                             \/ HandlerStep
    PROVE  Settings'
<1>1. CASE AttemptSucceeds \/ AttemptFails \/ GetsAddress \/ LinkBreaks
  BY <1>1, SettingsKept DEF AttemptSucceeds, AttemptFails, GetsAddress, LinkBreaks, LinkStep, TypeOK, postVars
<1>2. CASE TakeEvent
  BY <1>2, SettingsKept DEF TakeEvent, postVars
<1>3. CASE ApStart \/ ApStop \/ Connected \/ NoteLoss
  BY <1>3, SettingsKept DEF ApStart, ApStop, Connected, NoteLoss, Handled, postVars
<1>4. CASE StaStart \/ TryAgain
  <2>1. radio'.mode = radio.mode
    BY <1>4, Connects DEF StaStart, TryAgain
  <2> QED BY <1>4, <2>1, SettingsKept DEF StaStart, TryAgain, Handled, postVars
<1>5. CASE GiveUp
  BY <1>5, Disconnects, SettingsKept DEF GiveUp, Handled, postVars
<1> QED BY <1>1, <1>2, <1>3, <1>4, <1>5 DEF HandlerStep

\* A form that changes the station's settings asks for them to be read, unless the
\* device has no station then.
LEMMA SettingsForms ==
    ASSUME TypeOK, Servers, Settings,
           FormStep
    PROVE  Settings'
<1>1. CASE PostFlags
  BY <1>1 DEF PostFlags, Settings, Asked, eventVars
<1>2. ASSUME NEW mode \in {"sta", "ap"}, NEW changed \in Requests, PostSave(mode, changed) PROVE Settings'
  <2>1. /\ post.pc = "idle" /\ server # "none" /\ UNCHANGED <<flags, listener, radio, server>>
        /\ post'.set = Requested(mode, changed) /\ post'.pc = "flags"
    BY <1>2 DEF PostSave, eventVars
  <2>2. radio.mode = "sta" /\ "sta" \in changed => {"to_ap", "reconnect"} \cap post'.set # {}
    BY <2>1 DEF Requested
  <2>0. "sta" \notin changed => (use["sta"] # "asked" => use'["sta"] # "asked")
    BY <1>2 DEF PostSave, Fields
  <2>3. "sta" \notin changed => (Asked => Asked')
    BY <2>1 DEF Settings, Asked
  <2>4. server' = "runtime" /\ radio'.mode = "sta" => use'["sta"] # "asked" \/ Asked'
    BY <2>0, <2>1, <2>2, <2>3 DEF Settings, Asked
  <2> QED BY <2>1, <2>4 DEF Settings, Servers
<1>3. ASSUME NEW changed \in Requests, PostRefused(changed) PROVE Settings'
  <2>1. use["sta"] # "asked" => use'["sta"] # "asked"
    BY <1>3 DEF PostRefused, Fields
  <2> QED BY <1>3, <2>1, SettingsKept DEF PostRefused
<1> QED BY <1>1, <1>2, <1>3 DEF FormStep

LEMMA SettingsListener ==
    ASSUME TypeOK, Servers, Branching, Settings, ListenerStep PROVE Settings'
<1> USE DEF Settings, Servers, Branching
<1>1. CASE Wake
  <2>1. listener'.pc \in {"wait", "branch"} /\ listener.pc = "wait" /\ UNCHANGED <<flags, radio, server, post, use>>
    BY <1>1, LoopGoes DEF Wake, TypeOK, postVars
  <2> QED BY <2>1 DEF Asked
<1>2. CASE AlreadyConnected \/ MdnsDone
  <2>1. /\ listener'.pc = "wait" /\ listener.pc \in {"branch", "mdns_set"}
        /\ UNCHANGED <<radio, server, post, use>> /\ flags \cap {"to_ap", "reconnect"} \subseteq flags'
    BY <1>2, Waits DEF AlreadyConnected, MdnsDone, At, postVars
  <2> QED BY <2>1 DEF Asked
<1>3. ASSUME NEW b \in Switches, StopServer(b) PROVE Settings'
  <2>1. listener'.pc = "stop" /\ listener.pc = "branch" /\ UNCHANGED <<flags, radio, server, post, use>>
    BY <1>3, Goes DEF StopServer, At, ListenerPcs, postVars
  <2> QED BY <2>1 DEF Asked
<1>4. ASSUME NEW b \in Switches, TearDown(b) PROVE Settings'
  <2>1. listener'.pc = "radio" /\ server' = "none" /\ UNCHANGED post
    BY <1>4, Goes DEF TearDown, ListenerPcs, postVars
  <2> QED BY <2>1
<1>5. ASSUME NEW b \in Switches, RadioUp(b) PROVE Settings'
  <2>1. /\ listener'.pc = "server" /\ listener'.branch = b /\ server' = "none" /\ UNCHANGED post
        /\ b = "to_sta" => use'["sta"] # "asked"
    BY <1>5, Goes DEF RadioUp, Reads, PutToUse, Fields, At, ListenerPcs, postVars
  <2>2. radio'.mode = Target(b)
    BY <1>5, Starts DEF RadioUp, Target, Modes
  <2> QED BY <2>1, <2>2
<1>6. ASSUME NEW b \in Switches, RadioFails(b) PROVE Settings'
  <2>1. listener'.pc = "error" /\ server' = "none" /\ UNCHANGED post
    BY <1>6, Goes DEF RadioFails, At, ListenerPcs, postVars
  <2> QED BY <2>1
<1>7. ASSUME NEW b \in Switches, ServerUp(b) PROVE Settings'
  <2>1. /\ listener'.pc = "done" /\ listener.pc = "server" /\ listener.branch = b /\ listener'.branch = b
        /\ (use["sta"] # "asked" => use'["sta"] # "asked") /\ UNCHANGED <<radio, post>>
    BY <1>7, Goes DEF ServerUp, PutToUse, Fields, At, ListenerPcs, postVars
  <2> QED BY <2>1 DEF Target
<1>8. ASSUME NEW b \in Switches, ServerFails(b) PROVE Settings'
  <2>1. /\ listener'.pc = "error" /\ listener.pc = "server" /\ listener.branch = b /\ listener'.branch = b
        /\ UNCHANGED <<use, post>>
    BY <1>8, Goes DEF ServerFails, At, ListenerPcs, postVars
  <2>2. radio'.mode = radio.mode
    <3>1. CASE b = "to_captive"
      BY <1>8, <3>1, Stops DEF ServerFails
    <3>2. CASE b # "to_captive"
      BY <1>8, <3>2 DEF ServerFails
    <3> QED BY <3>1, <3>2
  <2> QED BY <2>1, <2>2 DEF Target
<1>9. ASSUME NEW b \in Switches, SwitchDone(b) \/ SwitchFailed(b) PROVE Settings'
  <2>1. /\ Proceed /\ listener.pc \in {"done", "error"} /\ listener.branch = b
        /\ UNCHANGED <<radio, server, post, use>>
    BY <1>9 DEF SwitchDone, SwitchFailed, At, postVars
  <2>2. b # "to_ap" => flags \cap {"to_ap", "reconnect"} \subseteq flags'
    <3>1. b # "reconnect" /\ flags \ {b} \subseteq flags'
      BY <1>9 DEF SwitchDone, SwitchFailed, Switches
    <3> QED BY <3>1
  <2>3. listener'.pc \in {"wait", "branch"}
    BY <2>1, Proceeds
  <2>4. CASE b = "to_ap"
    BY <2>1, <2>3, <2>4 DEF Target
  <2>5. CASE b # "to_ap"
    BY <2>1, <2>2, <2>3, <2>5 DEF Asked
  <2> QED BY <2>4, <2>5
<1>10. CASE DropLink
  <2>1. listener'.pc = "drop" /\ listener.pc = "branch" /\ UNCHANGED <<flags, server, post, use>>
    BY <1>10, Goes DEF DropLink, At, ListenerPcs, postVars
  <2>2. radio'.mode = radio.mode
    BY <1>10, Disconnects DEF DropLink
  <2> QED BY <2>1, <2>2 DEF Asked
<1>11. CASE LinkDropped
  <2>1. listener'.pc = "reread" /\ UNCHANGED post
    BY <1>11, Goes DEF LinkDropped, ListenerPcs, postVars
  <2> QED BY <2>1 DEF Asked
<1>12. CASE Reread
  <2>1. listener'.pc \in {"wait", "branch"} /\ use'["sta"] # "asked" /\ UNCHANGED post
    BY <1>12, Proceeds DEF Reread, PutToUse, Fields, postVars
  <2> QED BY <2>1
<1>13. CASE ReadMdns
  <2>1. /\ listener'.pc = "mdns_set" /\ listener.pc = "branch" /\ UNCHANGED <<flags, radio, server, post>>
        /\ (use["sta"] # "asked" => use'["sta"] # "asked")
    BY <1>13, Goes DEF ReadMdns, PutToUse, Fields, At, ListenerPcs, postVars
  <2> QED BY <2>1 DEF Asked
<1> QED BY <1>1, <1>2, <1>3, <1>4, <1>5, <1>6, <1>7, <1>8, <1>9, <1>10, <1>11, <1>12, <1>13 DEF ListenerStep

\* Station settings that an accepted form changed have been read, once all is quiet
\* in STA mode, whatever other forms were accepted or refused, in any order, and
\* whichever switch failed: no request is lost between the form that saves the
\* settings and the listener that reads them (Captive.c:496, Wifi.c:599).  What a
\* refused form changed is not among them (Captive.c:337, 353).
THEOREM SavedSettingsAreUsed == Spec => []StaSettingsApplied
<1>1. Init => Servers /\ Branching /\ Settings
  BY Waits DEF Init, Servers, Branching, Settings
<1>2. ASSUME TypeOK, Servers, Branching, Settings, [Next]_vars PROVE Servers' /\ Branching' /\ Settings'
  <2>1. ASSUME UNCHANGED vars PROVE Settings'
    BY <1>2, <2>1, SettingsKept DEF vars, postVars
  <2>2. Settings'
    BY <1>2, <2>1, SettingsEvents, SettingsForms, SettingsListener DEF Next, FormStep
  <2> QED BY <1>2, <2>2, ServersStep, BranchingStep
<1>3. Settings => StaSettingsApplied
  BY DEF Settings, Asked, StaSettingsApplied, Quiet, RequestBits
<1> QED BY <1>1, <1>2, <1>3, ModesTypeCorrect, PTL DEF Spec

-----------------------------------------------------------------------------
(* Status bits.                                                            *)

\* Nothing is posted, and the bits come out as they did.
LEMMA StatusKept ==
    ASSUME Status, UNCHANGED events, ConnectedBit' <=> ConnectedBit, ApBit' <=> ApBit,
           Linked' <=> Linked, ApOn' <=> ApOn,
           fails' > 0 => "connected" \notin flags',
           ~radio'.on => radio'.link = "down", listener'.pc = "radio" => ~radio'.on
    PROVE  Status'
  BY DEF Status

\* The bits are those that were to come of the event that has been handled.
LEMMA StatusHandled ==
    ASSUME TypeOK, Status, Handled, UNCHANGED events,
           radio' = radio \/ esp_wifi_connect,
           "connected" \in flags' <=> ConnectedBit, "ap_mode" \in flags' <=> ApBit,
           fails' > 0 => "connected" \notin flags'
    PROVE  Status'
<1>1. ConnectedBit' <=> ConnectedBit
  BY DEF Handled, NoEvent, ConnectedBit
<1>2. ApBit' <=> ApBit
  BY DEF Handled, NoEvent, ApBit
<1>3. /\ Linked' <=> Linked
      /\ radio'.on = radio.on /\ radio'.mode = radio.mode /\ (~radio.on => radio' = radio)
  BY Connects DEF Linked
<1> QED BY <1>1, <1>2, <1>3, StatusKept DEF Handled, Status, ApOn

\* An event of the station's link is posted.
LEMMA StatusPosts ==
    ASSUME TypeOK, Status, NEW a \in LinkUp \cup LinkDown, events' = Append(events, a),
           Linked' <=> a \in LinkUp, ConnectedBit' <=> ConnectedBit, ApBit' <=> ApBit,
           ApOn' <=> ApOn, fails' > 0 => "connected" \notin flags',
           ~radio'.on => radio'.link = "down", listener'.pc = "radio" => ~radio'.on
    PROVE  Status'
<1>1. /\ events \in Seq(Events)
      /\ a \notin ApUp \cup ApDown /\ a \notin ApUp \cup ApMayGo
  BY DEF TypeOK, LinkUp, LinkDown, ApUp, ApDown, ApMayGo
<1>2. /\ ~Silent(Append(events, a), LinkUp, LinkDown)
      /\ Ends(Append(events, a), LinkUp, LinkDown) <=> a \in LinkUp
  BY <1>1, Disjoint, LastDecides
<1>3. /\ Silent(Append(events, a), ApUp, ApDown) <=> Silent(events, ApUp, ApDown)
      /\ Silent(Append(events, a), ApUp, ApMayGo) <=> Silent(events, ApUp, ApMayGo)
      /\ Ends(Append(events, a), ApUp, ApDown) <=> Ends(events, ApUp, ApDown)
      /\ Ends(Append(events, a), ApUp, ApMayGo) <=> Ends(events, ApUp, ApMayGo)
  BY <1>1, Disjoint, LastDecides
<1> QED BY <1>2, <1>3 DEF Status

LEMMA StatusNetwork ==
    ASSUME TypeOK, Status, AttemptSucceeds \/ AttemptFails \/ GetsAddress \/ LinkBreaks PROVE Status'
<1>1. ASSUME NEW from \in {"trying", "assoc", "up"}, NEW to \in {"down", "assoc", "up"},
             NEW a \in LinkUp \cup LinkDown, to = "down" <=> a \in LinkDown,
             LinkStep(from, to, a)
      PROVE  Status'
  <2>1. /\ events' = Append(events, a) /\ radio.on
        /\ radio' = [radio EXCEPT !.link = to] /\ UNCHANGED <<flags, listener, handler, fails>>
    BY <1>1 DEF LinkStep, Status
  <2>2. (ConnectedBit' <=> ConnectedBit) /\ (ApBit' <=> ApBit)
    BY <2>1 DEF ConnectedBit, ApBit
  <2>3. radio'.link = to /\ radio'.on = radio.on /\ radio'.mode = radio.mode
    BY <2>1 DEF TypeOK
  <2>4. (Linked' <=> a \in LinkUp) /\ (ApOn' <=> ApOn)
    BY <1>1, <2>3 DEF Linked, ApOn, LinkUp, LinkDown
  <2> QED BY <2>1, <2>2, <2>3, <2>4, StatusPosts DEF Status
<1> QED BY <1>1 DEF AttemptSucceeds, AttemptFails, GetsAddress, LinkBreaks, LinkUp, LinkDown

\* The link is dropped: nobody is told only when there was none.
LEMMA StatusDrops ==
    ASSUME TypeOK, Status, esp_wifi_disconnect, ConnectedBit' <=> ConnectedBit, ApBit' <=> ApBit,
           fails' > 0 => "connected" \notin flags', listener'.pc = "radio" => listener.pc = "radio"
    PROVE  Status'
<1>1. /\ radio'.mode = radio.mode /\ radio'.on = radio.on /\ radio'.link = "down"
      /\ events' = events \/ events' = Append(events, "STA_DISCONNECTED")
      /\ Linked => events' = Append(events, "STA_DISCONNECTED")
  BY Disconnects
<1>2. ~Linked' /\ (ApOn' <=> ApOn) /\ (listener'.pc = "radio" => ~radio'.on)
  BY <1>1 DEF Linked, ApOn, Status
<1>3. "STA_DISCONNECTED" \in LinkDown /\ "STA_DISCONNECTED" \notin LinkUp
  BY DEF LinkUp, LinkDown
<1>4. CASE events' = Append(events, "STA_DISCONNECTED")
  BY <1>1, <1>2, <1>3, <1>4, StatusPosts
<1>5. CASE events' = events /\ ~Linked
  BY <1>1, <1>2, <1>5, StatusKept
<1> QED BY <1>1, <1>4, <1>5

\* An event is taken: it counts among the bits and no more among the events.
LEMMA StatusTakes == ASSUME TypeOK, Status, TakeEvent PROVE Status'
<1> DEFINE head == Head(events)
<1>1. /\ events \in Seq(Events) /\ events # << >> /\ events' = Tail(events) /\ handler.pc = "idle"
      /\ handler'.pc = "act" /\ handler'.event = head /\ handler'.mode = radio.mode
      /\ UNCHANGED <<flags, listener, fails, radio>>
  BY DEF TakeEvent, TypeOK
<1>2. /\ head \in LinkUp => ConnectedBit'
      /\ head \in LinkDown => ~ConnectedBit'
      /\ head \notin LinkUp \cup LinkDown => (ConnectedBit' <=> ConnectedBit)
  BY <1>1 DEF ConnectedBit, LinkUp, LinkDown
<1>3. /\ head \in ApUp => ApBit'
      /\ head \in ApDown => ~ApBit'
      /\ head \in ApMayGo => (ApBit' => ApBit)
      /\ head \notin ApUp \cup ApMayGo => (ApBit' <=> ApBit)
  BY <1>1 DEF ApBit, ApUp, ApDown, ApMayGo
<1>4. Ends(Tail(events), LinkUp, LinkDown) \/ (Silent(Tail(events), LinkUp, LinkDown) /\ ConnectedBit') <=> Linked
  <2> HIDE DEF head
  <2>1. Ends(events, LinkUp, LinkDown) \/ (Silent(events, LinkUp, LinkDown) /\ ConnectedBit) <=> Linked
    BY DEF Status
  <2> QED BY <1>1, <1>2, <2>1, Disjoint, FirstDecides DEF head
<1>5. /\ Ends(Tail(events), ApUp, ApDown) \/ (Silent(Tail(events), ApUp, ApDown) /\ ApBit') <=> ApOn
      /\ Ends(Tail(events), ApUp, ApMayGo) \/ (Silent(Tail(events), ApUp, ApMayGo) /\ ApBit') <=> ApOn
  <2>1. /\ Ends(events, ApUp, ApDown) \/ (Silent(events, ApUp, ApDown) /\ ApBit) <=> ApOn
        /\ Ends(events, ApUp, ApMayGo) \/ (Silent(events, ApUp, ApMayGo) /\ ApBit) <=> ApOn
    BY DEF Status
  <2>2. /\ Silent(Tail(events), ApUp, ApMayGo) => Silent(Tail(events), ApUp, ApDown)
        /\ Ends(Tail(events), ApUp, ApMayGo) => Ends(Tail(events), ApUp, ApDown)
    BY Disjoint, ClearedByMore
  <2>3. ApUp \cap ApDown = {} /\ ApUp \cap ApMayGo = {} /\ ApDown \subseteq ApMayGo
    BY Disjoint
  <2> HIDE DEF head
  <2>4. CASE head \in ApUp
    BY <1>1, <1>3, <2>1, <2>3, <2>4, FirstDecides DEF head
  <2>5. CASE head \in ApDown
    <3>1. head \in ApMayGo /\ head \notin ApUp
      BY <2>3, <2>5
    <3> QED BY <1>1, <1>3, <2>1, <2>3, <2>5, <3>1, FirstDecides DEF head
  <2>6. CASE head \in ApMayGo /\ head \notin ApDown
    <3>1. head \notin ApUp /\ head \notin ApUp \cup ApDown
      BY <2>3, <2>6
    <3>2. /\ Ends(Tail(events), ApUp, ApDown) \/ (Silent(Tail(events), ApUp, ApDown) /\ ApBit) <=> ApOn
          /\ Ends(Tail(events), ApUp, ApMayGo) <=> ApOn
      BY <1>1, <2>1, <2>3, <2>6, <3>1, FirstDecides DEF head
    <3> QED BY <1>3, <2>2, <2>6, <3>2
  <2>7. CASE head \notin ApUp \cup ApMayGo
    <3>1. head \notin ApUp \cup ApDown
      BY <2>3, <2>7
    <3> QED BY <1>1, <1>3, <2>1, <2>3, <2>7, <3>1, FirstDecides DEF head
  <2> QED BY <2>4, <2>5, <2>6, <2>7
<1>6. (Linked' <=> Linked) /\ (ApOn' <=> ApOn)
  BY <1>1 DEF Linked, ApOn
<1> QED BY <1>1, <1>4, <1>5, <1>6 DEF Status

LEMMA StatusHandler ==
    ASSUME TypeOK, Status, MaxReconnects >= 2, HandlerStep PROVE Status'
<1>1. CASE TakeEvent
  BY <1>1, StatusTakes
<1>2. CASE ApStart \/ ApStop \/ Connected \/ NoteLoss
  <2>1. Handled /\ UNCHANGED <<events, radio>>
    BY <1>2 DEF ApStart, ApStop, Connected, NoteLoss
  <2>2. "connected" \in flags' <=> ConnectedBit
    BY <1>2 DEF ApStart, ApStop, Connected, NoteLoss, Handling, ConnectedBit, LinkUp
  <2>3. "ap_mode" \in flags' <=> ApBit
    BY <1>2 DEF ApStart, ApStop, Connected, NoteLoss, Handling, ApBit
  <2>4. fails' > 0 => "connected" \notin flags'
    BY <1>2 DEF ApStart, ApStop, Connected, NoteLoss, Status
  <2> QED BY <2>1, <2>2, <2>3, <2>4, StatusHandled
<1>3. CASE StaStart
  <2>1. Handled /\ UNCHANGED <<events, fails>> /\ (radio' = radio \/ esp_wifi_connect)
    BY <1>3 DEF StaStart
  <2>2. ("connected" \in flags' <=> ConnectedBit) /\ ("ap_mode" \in flags' <=> ApBit)
    BY <1>3 DEF StaStart, Handling, ConnectedBit, ApBit, LinkUp
  <2>3. fails' > 0 => "connected" \notin flags'
    BY <1>3 DEF StaStart, Status
  <2> QED BY <2>1, <2>2, <2>3, StatusHandled
<1>4. CASE TryAgain
  <2>1. Handled /\ UNCHANGED events /\ esp_wifi_connect
    BY <1>4 DEF TryAgain
  <2>2. /\ "connected" \in flags' <=> ConnectedBit
        /\ "ap_mode" \in flags' <=> ApBit
        /\ "connected" \notin flags'
    BY <1>4 DEF TryAgain, Handling, ConnectedBit, ApBit, LinkUp
  <2> QED BY <2>1, <2>2, StatusHandled
<1>5. CASE GiveUp
  <2>1. "connected" \notin flags /\ fails' = 0
    <3>1. fails \in Nat /\ MaxReconnects \in Nat
      BY ModesAssumption DEF TypeOK
    <3>2. fails + 1 >= MaxReconnects /\ fails' = 0
      BY <1>5 DEF GiveUp
    <3> QED BY <3>1, <3>2 DEF Status
  <2>2. (ConnectedBit' <=> ConnectedBit) /\ (ApBit' <=> ApBit)
    BY <1>5, <2>1 DEF GiveUp, Handling, Handled, NoEvent, ConnectedBit, ApBit, LinkUp
  <2>3. esp_wifi_disconnect /\ listener' = listener
    BY <1>5 DEF GiveUp, Handled
  <2> QED BY <2>1, <2>2, <2>3, StatusDrops
<1> QED BY <1>1, <1>2, <1>3, <1>4, <1>5 DEF HandlerStep

\* The radio stops: the events of the link and of the access point say so.
LEMMA StatusStops ==
    ASSUME TypeOK, Status, esp_wifi_stop, UNCHANGED <<flags, handler, fails>> PROVE Status'
<1>1. PICK q \in {events, Append(events, "STA_DISCONNECTED")} :
          /\ Linked => q = Append(events, "STA_DISCONNECTED")
          /\ events' = IF ApOn THEN Append(q, "AP_STOP") ELSE q
  BY Stops
<1>2. ~Linked' /\ ~ApOn' /\ ~radio'.on /\ radio'.link = "down"
  BY Stops DEF Linked, ApOn
<1>3. (ConnectedBit' <=> ConnectedBit) /\ (ApBit' <=> ApBit)
  BY DEF ConnectedBit, ApBit
<1>4. events \in Seq(Events) /\ "STA_DISCONNECTED" \in Events /\ "AP_STOP" \in Events
  BY DEF TypeOK, Events
<1>5. q \in Seq(Events)
  BY <1>4, Posted
<1>6. /\ "STA_DISCONNECTED" \in LinkDown /\ "STA_DISCONNECTED" \notin ApUp \cup ApDown
      /\ "STA_DISCONNECTED" \notin ApUp \cup ApMayGo /\ "AP_STOP" \notin LinkUp \cup LinkDown
      /\ "AP_STOP" \in ApDown /\ "AP_STOP" \in ApMayGo
  BY DEF LinkUp, LinkDown, ApUp, ApDown, ApMayGo
<1>7. ~(Ends(q, LinkUp, LinkDown) \/ (Silent(q, LinkUp, LinkDown) /\ ConnectedBit))
  <2>1. CASE q = Append(events, "STA_DISCONNECTED")
    BY <1>4, <1>6, <2>1, Disjoint, LastDecides
  <2>2. CASE q = events /\ ~Linked
    BY <2>2 DEF Status
  <2> QED BY <1>1, <2>1, <2>2
<1>8. /\ Ends(q, ApUp, ApDown) \/ (Silent(q, ApUp, ApDown) /\ ApBit) <=> ApOn
      /\ Ends(q, ApUp, ApMayGo) \/ (Silent(q, ApUp, ApMayGo) /\ ApBit) <=> ApOn
  <2>1. /\ Silent(q, ApUp, ApDown) <=> Silent(events, ApUp, ApDown)
        /\ Silent(q, ApUp, ApMayGo) <=> Silent(events, ApUp, ApMayGo)
        /\ Ends(q, ApUp, ApDown) <=> Ends(events, ApUp, ApDown)
        /\ Ends(q, ApUp, ApMayGo) <=> Ends(events, ApUp, ApMayGo)
    <3>1. CASE q = Append(events, "STA_DISCONNECTED")
      BY <1>4, <1>6, <3>1, Disjoint, LastDecides
    <3>2. CASE q = events
      BY <3>2
    <3> QED BY <1>1, <3>1, <3>2
  <2> QED BY <2>1 DEF Status
<1>9. ~(Ends(events', LinkUp, LinkDown) \/ (Silent(events', LinkUp, LinkDown) /\ ConnectedBit'))
  <2>1. CASE ApOn
    <3>1. /\ Silent(Append(q, "AP_STOP"), LinkUp, LinkDown) <=> Silent(q, LinkUp, LinkDown)
          /\ Ends(Append(q, "AP_STOP"), LinkUp, LinkDown) <=> Ends(q, LinkUp, LinkDown)
      BY <1>5, <1>6, Disjoint, LastDecides
    <3> QED BY <1>1, <1>3, <1>7, <2>1, <3>1
  <2>2. CASE ~ApOn
    BY <1>1, <1>3, <1>7, <2>2
  <2> QED BY <2>1, <2>2
<1>10. /\ ~(Ends(events', ApUp, ApDown) \/ (Silent(events', ApUp, ApDown) /\ ApBit'))
       /\ ~(Ends(events', ApUp, ApMayGo) \/ (Silent(events', ApUp, ApMayGo) /\ ApBit'))
  <2>1. CASE ApOn
    <3>1. /\ ~Silent(Append(q, "AP_STOP"), ApUp, ApDown) /\ ~Ends(Append(q, "AP_STOP"), ApUp, ApDown)
          /\ ~Silent(Append(q, "AP_STOP"), ApUp, ApMayGo) /\ ~Ends(Append(q, "AP_STOP"), ApUp, ApMayGo)
      BY <1>5, <1>6, Disjoint, LastDecides
    <3> QED BY <1>1, <2>1, <3>1
  <2>2. CASE ~ApOn
    BY <1>1, <1>3, <1>8, <2>2
  <2> QED BY <2>1, <2>2
<1> QED BY <1>2, <1>9, <1>10 DEF Status

\* The radio starts, with its link down: the access point says so after the
\* station, and a station alone says nothing of it.
LEMMA StatusStarts ==
    ASSUME TypeOK, Status, ~radio.on, NEW mode \in Modes, esp_wifi_start(mode),
           UNCHANGED <<flags, handler, fails>>, listener'.pc # "radio"
    PROVE  Status'
<1>1. /\ mode = "sta" => events' = Append(events, "STA_START")
      /\ mode = "apsta" => events' = Append(Append(events, "STA_START"), "AP_START")
  BY Starts
<1>2. ~Linked /\ ~ApOn /\ ~Linked' /\ (ApOn' <=> mode = "apsta") /\ radio'.on
  BY Starts DEF Linked, ApOn, Status
<1>3. (ConnectedBit' <=> ConnectedBit) /\ (ApBit' <=> ApBit)
  BY DEF ConnectedBit, ApBit
<1> DEFINE q == Append(events, "STA_START")
<1>4. events \in Seq(Events) /\ q \in Seq(Events)
  BY Posted DEF TypeOK, Events
<1>5. /\ "STA_START" \notin LinkUp \cup LinkDown /\ "STA_START" \notin ApUp \cup ApDown
      /\ "STA_START" \in ApMayGo /\ "AP_START" \notin LinkUp \cup LinkDown /\ "AP_START" \in ApUp
  BY DEF LinkUp, LinkDown, ApUp, ApDown, ApMayGo
<1>6. /\ Silent(q, LinkUp, LinkDown) <=> Silent(events, LinkUp, LinkDown)
      /\ Ends(q, LinkUp, LinkDown) <=> Ends(events, LinkUp, LinkDown)
      /\ Silent(q, ApUp, ApDown) <=> Silent(events, ApUp, ApDown)
      /\ Ends(q, ApUp, ApDown) <=> Ends(events, ApUp, ApDown)
      /\ ~Silent(q, ApUp, ApMayGo) /\ ~Ends(q, ApUp, ApMayGo)
  BY <1>4, <1>5, Disjoint, LastDecides
<1> HIDE DEF q
<1>7. CASE mode = "sta"
  BY <1>1, <1>2, <1>3, <1>6, <1>7 DEF Status, q
<1>8. CASE mode = "apsta"
  <2>1. /\ Silent(Append(q, "AP_START"), LinkUp, LinkDown) <=> Silent(q, LinkUp, LinkDown)
        /\ Ends(Append(q, "AP_START"), LinkUp, LinkDown) <=> Ends(q, LinkUp, LinkDown)
        /\ Ends(Append(q, "AP_START"), ApUp, ApDown) /\ Ends(Append(q, "AP_START"), ApUp, ApMayGo)
    BY <1>4, <1>5, Disjoint, LastDecides
  <2>2. events' = Append(q, "AP_START")
    BY <1>1, <1>8 DEF q
  <2> QED BY <1>2, <1>3, <1>6, <1>8, <2>1, <2>2 DEF Status
<1> QED BY <1>7, <1>8 DEF Modes

\* The listener posts no event, and sets and clears no status bit, but where the
\* radio stops or starts and where the link is dropped.
LEMMA StatusListener ==
    ASSUME TypeOK, Branching, Status, ListenerStep PROVE Status'
<1>1. ASSUME UNCHANGED eventVars, flags' \cap {"connected", "ap_mode"} = flags \cap {"connected", "ap_mode"},
             radio' = radio \/ esp_wifi_connect, listener'.pc # "radio"
      PROVE  Status'
  <2>1. (ConnectedBit' <=> ConnectedBit) /\ (ApBit' <=> ApBit)
    BY <1>1 DEF eventVars, ConnectedBit, ApBit
  <2>2. /\ Linked' <=> Linked
        /\ radio'.on = radio.on /\ radio'.mode = radio.mode /\ (~radio.on => radio' = radio)
    BY <1>1, Connects DEF Linked
  <2>3. fails' > 0 => "connected" \notin flags'
    BY <1>1 DEF eventVars, Status
  <2> QED BY <1>1, <2>1, <2>2, <2>3, StatusKept DEF eventVars, Status, ApOn
<1>2. CASE Wake
  BY <1>1, <1>2, LoopGoes DEF Wake, TypeOK
<1>3. CASE AlreadyConnected \/ MdnsDone
  BY <1>1, <1>3, Waits DEF AlreadyConnected, MdnsDone
<1>4. ASSUME NEW b \in Switches, StopServer(b) \/ ServerUp(b) PROVE Status'
  <2>1. Go("stop") \/ Go("done")
    BY <1>4 DEF StopServer, ServerUp
  <2>2. listener'.pc # "radio"
    BY <2>1, Goes DEF ListenerPcs
  <2> QED BY <1>1, <1>4, <2>2 DEF StopServer, ServerUp
<1>5. ASSUME NEW b \in Switches, TearDown(b) PROVE Status'
  BY <1>5, StatusStops DEF TearDown
<1>6. ASSUME NEW b \in Switches, RadioUp(b) PROVE Status'
  <2>1. listener.pc = "radio" /\ listener'.pc = "server"
    BY <1>6, Goes DEF RadioUp, At, ListenerPcs
  <2> QED BY <1>6, <2>1, StatusStarts DEF RadioUp, Status, Target, Modes
<1>7. ASSUME NEW b \in Switches, RadioFails(b) PROVE Status'
  <2>1. listener.pc = "radio" /\ listener'.pc = "error"
    BY <1>7, Goes DEF RadioFails, At, ListenerPcs
  <2>2. radio'.on = radio.on /\ radio'.link = radio.link /\ ~radio.on
    BY <1>7, <2>1 DEF RadioFails, TypeOK, Status
  <2>3. (ConnectedBit' <=> ConnectedBit) /\ (ApBit' <=> ApBit)
    BY <1>7 DEF RadioFails, eventVars, ConnectedBit, ApBit
  <2>4. (Linked' <=> Linked) /\ (ApOn' <=> ApOn)
    BY <2>2 DEF Linked, ApOn
  <2> QED BY <1>7, <2>1, <2>2, <2>3, <2>4, StatusKept DEF RadioFails, eventVars, Status
<1>8. ASSUME NEW b \in Switches, ServerFails(b) PROVE Status'
  <2>1. listener'.pc = "error"
    BY <1>8, Goes DEF ServerFails, ListenerPcs
  <2>2. CASE b = "to_captive"
    BY <1>8, <2>2, StatusStops DEF ServerFails
  <2>3. CASE b # "to_captive"
    BY <1>1, <1>8, <2>1, <2>3 DEF ServerFails, eventVars
  <2> QED BY <2>2, <2>3
<1>9. ASSUME NEW b \in Switches, SwitchDone(b) \/ SwitchFailed(b) PROVE Status'
  <2>1. listener'.pc # "radio"
    BY <1>9, Proceeds DEF SwitchDone, SwitchFailed
  <2>2. b \notin {"connected", "ap_mode"}
    BY <1>9 DEF Switches
  <2> QED BY <1>1, <1>9, <2>1, <2>2 DEF SwitchDone, SwitchFailed
<1>10. CASE DropLink
  <2>1. listener'.pc = "drop"
    BY <1>10, Goes DEF DropLink, ListenerPcs
  <2>2. (ConnectedBit' <=> ConnectedBit) /\ (ApBit' <=> ApBit)
    BY <1>10 DEF DropLink, ConnectedBit, ApBit
  <2> QED BY <1>10, <2>1, <2>2, StatusDrops DEF DropLink, Status
<1>11. CASE LinkDropped \/ ReadMdns
  <2>1. Go("reread") \/ Go("mdns_set")
    BY <1>11 DEF LinkDropped, ReadMdns
  <2>2. listener'.pc # "radio"
    BY <2>1, Goes DEF ListenerPcs
  <2> QED BY <1>1, <1>11, <2>2 DEF LinkDropped, ReadMdns
<1>12. CASE Reread
  BY <1>1, <1>12, Proceeds DEF Reread
<1> QED BY <1>2, <1>3, <1>4, <1>5, <1>6, <1>7, <1>8, <1>9, <1>10, <1>11, <1>12 DEF ListenerStep

\* Once all has settled, CONNECTED_BIT is set exactly if the station has a link and
\* AP_MODE_BIT exactly if the access point runs: whatever the listener and the
\* event handler did in between, and in whatever order the events of the radio were
\* handled (Wifi.c:678-750).  With one attempt, the handler gives up at once and
\* returns before it clears CONNECTED_BIT, and this is false.
THEOREM StatusBitsAreTrue ==
    ASSUME MaxReconnects >= 2 PROVE Spec => []StatusIsTrue
<1>1. ASSUME Init PROVE Branching /\ Status
  <2>1. DOMAIN events = {} /\ listener.pc = "wait"
    BY <1>1, Waits DEF Init
  <2>2. /\ Silent(events, LinkUp, LinkDown) /\ ~Ends(events, LinkUp, LinkDown)
        /\ ~Ends(events, ApUp, ApDown) /\ ~Ends(events, ApUp, ApMayGo)
    BY <2>1 DEF Silent, Ends
  <2>3. ~ConnectedBit /\ ~ApBit /\ ~Linked /\ ~ApOn
    BY <1>1 DEF Init, Switches, NoEvent, ConnectedBit, ApBit, Linked, ApOn
  <2> QED BY <1>1, <2>1, <2>2, <2>3 DEF Init, Branching, Status
<1>2. ASSUME TypeOK, Branching, Status, [Next]_vars PROVE Branching' /\ Status'
  <2>1. ASSUME UNCHANGED <<flags, events, handler, fails, radio, listener>> PROVE Status'
    BY <1>2, <2>1, StatusKept DEF Status, ConnectedBit, ApBit, Linked, ApOn
  <2>2. ASSUME PostFlags PROVE Status'
    <3>1. /\ post.set \subseteq RequestBits /\ flags' = flags \cup post.set
          /\ UNCHANGED <<listener, eventVars, radio>>
      BY <1>2, <2>2 DEF PostFlags, TypeOK
    <3>2. ("connected" \in flags' <=> "connected" \in flags) /\ ("ap_mode" \in flags' <=> "ap_mode" \in flags)
      BY <3>1 DEF RequestBits
    <3> QED BY <1>2, <3>1, <3>2, StatusKept DEF eventVars, Status, ConnectedBit, ApBit, Linked, ApOn
  <2>3. Status'
    BY <1>2, <2>1, <2>2, StatusNetwork, StatusHandler, StatusListener DEF Next, vars, PostSave, PostRefused, eventVars
  <2> QED BY <1>2, <2>3, BranchingStep
<1>3. Status => StatusIsTrue
  <2> SUFFICES ASSUME Status, Quiet PROVE StatusIsTrue
    BY DEF StatusIsTrue
  <2>1. DOMAIN events = {} /\ handler.pc = "idle"
    BY DEF Quiet
  <2>2. /\ Silent(events, LinkUp, LinkDown) /\ ~Ends(events, LinkUp, LinkDown)
        /\ Silent(events, ApUp, ApDown) /\ ~Ends(events, ApUp, ApDown)
    BY <2>1 DEF Silent, Ends
  <2> QED BY <2>1, <2>2 DEF StatusIsTrue, Status, ConnectedBit, ApBit, Linked, ApOn
<1> QED BY <1>1, <1>2, <1>3, ModesTypeCorrect, PTL DEF Spec

-----------------------------------------------------------------------------
(* Falling back to the portal, until the first form.                           *)
(*                                                                             *)
(* The device is in one of three phases: the radio has not been started        *)
(* (Before), it is a station (InSta), or it is asked to be, or is, an access   *)
(* point (InPortal), which without a form it does not leave.  A station has    *)
(* one thing going on at a time (OneLoss): between the loss of a link and the  *)
(* next attempt the handler has taken every event.                             *)

Asks == flags \cap RequestBits
InHand(S) == handler.pc = "act" /\ handler.event \in S
Coming(S) == InHand(S) \/ \E i \in DOMAIN events : events[i] \in S

Before ==
    /\ radio = [mode |-> "sta", on |-> FALSE, link |-> "down"]
    /\ events = << >> /\ handler.pc = "idle" /\ fails = 0
    /\ "connected" \notin flags
    /\ \E b \in Switches :
        /\ Asks = {b}
        /\ \/ listener.pc = "wait"
           \/ /\ listener.pc \in {"branch", "stop", "radio"}
              /\ listener.branch = b /\ listener.bits = flags

\* The listener is about to finish the switch to STA mode.
EntersSta == /\ listener.pc \in {"server", "done"} /\ listener.branch = "to_sta"
             /\ listener.bits \cap RequestBits = {"to_sta"}

\* A loss is the last event there is, and so is the start; no event waits while
\* an attempt is made.
OneLoss ==
    /\ \A i \in DOMAIN events : events[i] \in LinkDown => i = Len(events) /\ radio.link = "down"
    /\ InHand(LinkDown) => events = << >> /\ radio.link = "down"
    /\ Coming({"STA_START"}) => radio.link = "down" /\ Len(events) = IF handler.pc = "act" THEN 0 ELSE 1
    /\ radio.link = "trying" => events = << >> /\ handler.pc = "idle"

\* The losses that are counted, or will be, since the last success were losses.
LossesCounted ==
    /\ Coming(LinkDown) => lost >= 1
    /\ ~Coming(LinkUp) => fails <= lost /\ (Coming(LinkDown) => fails + 1 <= lost)

InSta ==
    /\ radio.mode = "sta"
    /\ \/ listener.pc = "wait" /\ Asks = {}
       \/ EntersSta /\ Asks = {"to_sta"}
    /\ OneLoss /\ LossesCounted

InPortal ==
    /\ "to_captive" \in flags \/ radio.mode = "apsta"
    /\ handler.pc = "act" => handler.mode = "apsta" \/ "to_captive" \in handler.bits
    /\ Asks \subseteq Switches
    /\ \/ EntersSta
       \/ /\ "to_sta" \notin flags
          /\ \/ listener.pc = "wait"
             \/ /\ listener.pc \in {"branch", "stop", "radio", "server", "done"}
                /\ listener.bits \cap RequestBits \subseteq {"to_ap", "to_captive"}
                /\ listener.branch \in {"to_ap", "to_captive"}
                /\ listener.pc \in {"server", "done"} => radio.mode = "apsta"

\* The form is not sent.
NoForm == \A mode \in {"sta", "ap"}, changed \in Requests : ~PostSave(mode, changed)

\* A form that is refused moves nothing here.
Stands == UNCHANGED <<flags, listener, eventVars, radio, post, formSent, lost>>

Phases == ~formSent => post.pc = "idle" /\ (Before \/ InSta \/ InPortal)

\* Without a form and without errors only these steps are taken.
LEMMA PlainSteps ==
    ASSUME ~DriverErrors, post.pc = "idle", NoForm, [Next]_vars
    PROVE  /\ \/ Stands
              \/ AttemptSucceeds \/ AttemptFails \/ GetsAddress \/ LinkBreaks
              \/ HandlerStep
              \/ Wake \/ AlreadyConnected
              \/ \E b \in Switches : \/ StopServer(b) \/ TearDown(b) \/ RadioUp(b)
                                     \/ ServerUp(b) \/ SwitchDone(b) \/ SwitchFailed(b)
              \/ DropLink \/ LinkDropped \/ Reread \/ ReadMdns \/ MdnsDone
           /\ post' = post /\ formSent' = formSent
<1>1. ~PostFlags /\ \A mode \in {"sta", "ap"}, changed \in Requests : ~PostSave(mode, changed)
  BY DEF PostFlags, NoForm
<1>2. \A b \in Switches : ~RadioFails(b) /\ ~ServerFails(b)
  BY DEF RadioFails, ServerFails
<1>3. \/ Stands
      \/ AttemptSucceeds \/ AttemptFails \/ GetsAddress \/ LinkBreaks
      \/ HandlerStep \/ ListenerStep
  BY <1>1 DEF Next, Stands, PostRefused, vars, eventVars
<1>4. UNCHANGED postVars \/ Stands
  <2>1. CASE ListenerStep
    BY <1>2, <2>1 DEF ListenerStep, Wake, AlreadyConnected, StopServer, TearDown, RadioUp, ServerUp,
       SwitchDone, SwitchFailed, DropLink, LinkDropped, Reread, ReadMdns, MdnsDone
  <2>2. CASE HandlerStep
    BY <2>2 DEF HandlerStep, TakeEvent, ApStart, ApStop, StaStart, Connected, GiveUp, TryAgain, NoteLoss, Handled
  <2>3. CASE AttemptSucceeds \/ AttemptFails \/ GetsAddress \/ LinkBreaks
    BY <2>3 DEF AttemptSucceeds, AttemptFails, GetsAddress, LinkBreaks, LinkStep
  <2> QED BY <1>3, <2>1, <2>2, <2>3
<1> QED BY <1>2, <1>3, <1>4 DEF ListenerStep, postVars, Stands

LEMMA ComingPosts ==
    ASSUME TypeOK, NEW a \in Events, events' = Append(events, a), handler' = handler, NEW S
    PROVE  Coming(S)' <=> Coming(S) \/ a \in S
<1> DEFINE n == Len(events)
           q == Append(events, a)
<1>1. /\ n \in Nat /\ DOMAIN events = 1 .. n /\ DOMAIN q = 1 .. n + 1
      /\ q[n + 1] = a /\ \A i \in 1 .. n : q[i] = events[i]
  BY LenProperties DEF TypeOK
<1>2. events' = q
  OBVIOUS
<1> HIDE DEF n, q
<1>3. n + 1 \in 1 .. n + 1 /\ \A i \in 1 .. n + 1 : i = n + 1 \/ i \in 1 .. n
  BY <1>1
<1>4. \A i \in 1 .. n : i \in 1 .. n + 1
  BY <1>1
<1>5. (\E i \in DOMAIN q : q[i] \in S) <=> (\E i \in DOMAIN events : events[i] \in S) \/ a \in S
  BY <1>1, <1>3, <1>4
<1> QED BY <1>2, <1>5 DEF Coming, InHand

LEMMA ComingTaken ==
    ASSUME TypeOK, TakeEvent, NEW S
    PROVE  Coming(S)' <=> Coming(S)
<1> DEFINE n == Len(events)
           q == Tail(events)
<1>1. /\ n \in Nat \ {0} /\ DOMAIN events = 1 .. n /\ DOMAIN q = 1 .. n - 1
      /\ Head(events) = events[1] /\ \A i \in 1 .. n - 1 : q[i] = events[i + 1]
  BY LenProperties, EmptySeq DEF TypeOK, TakeEvent
<1>2. /\ events' = q /\ handler.pc = "idle"
      /\ handler'.pc = "act" /\ handler'.event = Head(events)
  BY DEF TakeEvent
<1> HIDE DEF n, q
<1>3. /\ 1 \in 1 .. n
      /\ \A i \in 1 .. n : i = 1 \/ (i - 1 \in 1 .. n - 1 /\ q[i - 1] = events[i])
      /\ \A i \in 1 .. n - 1 : i + 1 \in 1 .. n
  BY <1>1
<1>4. (\E i \in DOMAIN q : q[i] \in S) \/ events[1] \in S <=> \E i \in DOMAIN events : events[i] \in S
  BY <1>1, <1>3
<1> QED BY <1>1, <1>2, <1>4 DEF Coming, InHand

LEMMA ComingHandled ==
    ASSUME handler.pc = "act", handler' = NoEvent, events' = events, NEW S
    PROVE  (Coming(S)' => Coming(S)) /\ (Coming(S) => Coming(S)' \/ handler.event \in S)
  BY DEF Coming, InHand, NoEvent

LEMMA BeforeStep ==
    ASSUME TypeOK, ~DriverErrors, post.pc = "idle", NoForm, Before, [Next]_vars
    PROVE  Before' \/ InSta' \/ InPortal'
<1>1. PICK b \in Switches :
          /\ Asks = {b}
          /\ \/ listener.pc = "wait"
             \/ /\ listener.pc \in {"branch", "stop", "radio"}
                /\ listener.branch = b /\ listener.bits = flags
  BY DEF Before
<1>2. /\ radio.mode = "sta" /\ ~radio.on /\ radio.link = "down" /\ "connected" \notin flags
      /\ events = << >> /\ handler.pc = "idle" /\ fails = 0 /\ b \in flags
      /\ flags \subseteq Bits
  BY <1>1 DEF Before, Asks, TypeOK
<1>3. ASSUME UNCHANGED <<flags, events, handler, fails, radio>>,
             \/ listener'.pc = "wait"
             \/ /\ listener'.pc \in {"branch", "stop", "radio"}
                /\ listener'.branch = b /\ listener'.bits = flags
      PROVE  Before'
  BY <1>1, <1>3 DEF Before, Asks
<1>4. CASE Stands
  BY <1>1, <1>3, <1>4 DEF Stands, eventVars
<1>5. CASE AttemptSucceeds \/ AttemptFails \/ GetsAddress \/ LinkBreaks \/ HandlerStep
  BY <1>2, <1>5 DEF AttemptSucceeds, AttemptFails, GetsAddress, LinkBreaks, LinkStep, HandlerStep,
     TakeEvent, ApStart, ApStop, StaStart, Connected, GiveUp, TryAgain, NoteLoss, Handling
<1>6. CASE Wake
  <2>1. listener' = From(1, flags, "sta") /\ UNCHANGED <<flags, events, handler, fails, radio>>
    BY <1>2, <1>6 DEF Wake, eventVars
  <2>2. 1 \in 1 .. 6 /\ "sta" \in Modes
    BY DEF Modes
  <2>3. /\ listener' \in ListenerStates /\ listener'.pc \in {"wait", "branch"}
        /\ listener'.pc = "branch" => listener'.bits = flags /\ listener'.branch \in flags
    BY <1>2, <2>1, <2>2, LoopGoes
  <2>4. listener'.branch \in RequestBits
    BY <2>3 DEF ListenerStates
  <2> QED BY <1>1, <1>3, <2>1, <2>3, <2>4 DEF Asks
<1>7. ASSUME NEW c \in Switches, StopServer(c) PROVE Before'
  <2>1. Go("stop") /\ UNCHANGED <<flags, events, handler, fails, radio>>
    BY <1>7 DEF StopServer, eventVars
  <2>2. /\ listener'.pc = "stop" /\ listener'.branch = listener.branch
        /\ listener'.bits = listener.bits /\ listener.pc = "branch"
    BY <1>7, <2>1 DEF Go, StopServer, At, TypeOK
  <2> QED BY <1>1, <1>3, <2>1, <2>2
<1>8. ASSUME NEW c \in Switches, TearDown(c) PROVE Before'
  <2>1. Go("radio") /\ esp_wifi_stop /\ UNCHANGED <<flags, handler, fails>> /\ listener.pc = "stop"
    BY <1>8 DEF TearDown, At
  <2>2. listener'.pc = "radio" /\ listener'.branch = listener.branch /\ listener'.bits = listener.bits
    BY <2>1 DEF Go, TypeOK
  <2>3. radio' = radio
    <3>1. radio' = [radio EXCEPT !.on = FALSE, !.link = "down"]
      BY <2>1 DEF esp_wifi_stop
    <3>2. radio \in RadioStates /\ radio.on = FALSE /\ radio.link = "down"
      BY <1>2 DEF TypeOK, RadioStates
    <3> QED BY <3>1, <3>2 DEF RadioStates
  <2>4. events' = events
    <3>1. DropEvents = {<< >>}
      BY <1>2 DEF DropEvents
    <3>2. \E e \in DropEvents : events' = events \o e \o << >>
      BY <1>2, <2>1 DEF esp_wifi_stop
    <3>3. events \o << >> = events
      BY Posted DEF TypeOK
    <3> QED BY <3>1, <3>2, <3>3
  <2> QED BY <1>1, <1>3, <2>1, <2>2, <2>3, <2>4
<1>9. ASSUME NEW c \in Switches, RadioUp(c) PROVE InSta' \/ InPortal'
  <2>1. /\ esp_wifi_start(Target(b)) /\ lost' = 0 /\ Go("server")
        /\ UNCHANGED <<flags, handler, fails>> /\ listener.pc = "radio" /\ listener.branch = b
    BY <1>1, <1>9 DEF RadioUp, At
  <2>2. /\ listener'.pc = "server" /\ listener'.branch = b /\ listener'.bits = flags
        /\ listener'.bits \cap RequestBits = {b}
    BY <1>1, <2>1 DEF Go, TypeOK, Asks
  <2>3. Target(b) \in Modes /\ Asks' = {b}
    BY <1>1, <2>1 DEF Target, Modes, Asks
  <2>4. CASE b = "to_sta"
    <3>1. radio'.mode = "sta" /\ radio'.link = "down" /\ events' = Append(events, "STA_START")
      BY <2>1, <2>3, <2>4, Starts DEF Target
    <3>2. \A S : Coming(S)' <=> "STA_START" \in S
      <4>1. \A S : Coming(S)' <=> Coming(S) \/ "STA_START" \in S
        BY <2>1, <3>1, ComingPosts DEF Events
      <4>2. \A S : ~Coming(S)
        <5>1. DOMAIN events = {}
          BY <1>2
        <5> QED BY <1>2, <5>1 DEF Coming, InHand
      <4> QED BY <4>1, <4>2
    <3>3. Len(events') = 1 /\ handler'.pc = "idle" /\ fails' = 0
      BY <1>2, <2>1, <3>1
    <3>4. ~Coming(LinkDown)' /\ ~InHand(LinkDown)' /\ \A i \in DOMAIN events' : events'[i] \notin LinkDown
      BY <3>2 DEF LinkDown, Coming
    <3>5. OneLoss'
      BY <3>1, <3>3, <3>4 DEF OneLoss
    <3>6. LossesCounted'
      BY <2>1, <3>3, <3>4 DEF LossesCounted
    <3> QED BY <2>2, <2>3, <2>4, <3>1, <3>5, <3>6 DEF InSta, EntersSta
  <2>5. CASE b # "to_sta"
    <3>1. radio'.mode = "apsta" /\ "to_sta" \notin flags' /\ b \in {"to_ap", "to_captive"}
      <4>1. radio'.mode = "apsta"
        BY <2>1, <2>3, <2>5, Starts DEF Target
      <4> QED BY <1>1, <2>1, <2>5, <4>1 DEF Asks, RequestBits, Switches
    <3>2. handler'.pc = "idle"
      BY <1>2, <2>1
    <3> QED BY <2>2, <2>3, <3>1, <3>2 DEF InPortal
  <2> QED BY <2>4, <2>5
<1>10. CASE \/ AlreadyConnected \/ DropLink \/ LinkDropped \/ Reread \/ ReadMdns \/ MdnsDone
            \/ \E c \in Switches : ServerUp(c) \/ SwitchDone(c) \/ SwitchFailed(c)
  BY <1>1, <1>2, <1>10 DEF AlreadyConnected, DropLink, LinkDropped, Reread, ReadMdns, MdnsDone,
     ServerUp, SwitchDone, SwitchFailed, At, Switches
<1> QED BY <1>4, <1>5, <1>6, <1>7, <1>8, <1>9, <1>10, PlainSteps
-----------------------------------------------------------------------------
(* The station.                                                                *)

\* A link that is not down has no loss to come and no start.
LEMMA LinkIsQuiet ==
    ASSUME TypeOK, OneLoss, radio.link # "down"
    PROVE  ~Coming(LinkDown) /\ ~Coming({"STA_START"})
  BY DEF OneLoss, Coming

LEMMA AtTheEnd ==
    ASSUME TypeOK, NEW a \in Events, events' = Append(events, a),
           \A i \in DOMAIN events : events[i] \notin LinkDown
    PROVE  \A i \in DOMAIN events' : events'[i] \in LinkDown => i = Len(events') /\ a \in LinkDown
<1> DEFINE n == Len(events)
           q == Append(events, a)
<1>1. /\ n \in Nat /\ DOMAIN events = 1 .. n /\ DOMAIN q = 1 .. n + 1 /\ Len(q) = n + 1
      /\ q[n + 1] = a /\ \A i \in 1 .. n : q[i] = events[i]
  BY LenProperties DEF TypeOK
<1>2. events' = q
  OBVIOUS
<1> HIDE DEF n, q
<1>3. \A i \in 1 .. n + 1 : i = n + 1 \/ i \in 1 .. n
  BY <1>1
<1> QED BY <1>1, <1>2, <1>3

\* An attempt ends, or the link gets its address or breaks.
LEMMA StationLink ==
    ASSUME TypeOK, OneLoss, LossesCounted,
           NEW from \in {"trying", "assoc", "up"}, NEW to \in {"down", "assoc", "up"},
           NEW a \in {"STA_CONNECTED", "GOT_IP", "STA_DISCONNECTED"},
           to = "down" <=> a \in LinkDown, LinkStep(from, to, a)
    PROVE  OneLoss' /\ LossesCounted'
<1>1. /\ radio.link = from /\ radio'.link = to /\ a \in Events
      /\ events' = Append(events, a) /\ handler' = handler /\ fails' = fails
      /\ lost' = IF to # "down" THEN 0 ELSE IF lost < MaxReconnects THEN lost + 1 ELSE lost
  BY DEF LinkStep, TypeOK, Events
<1>2. ~Coming(LinkDown) /\ ~Coming({"STA_START"})
  BY <1>1, LinkIsQuiet
<1>3. /\ Coming(LinkDown)' <=> a \in LinkDown
      /\ ~Coming({"STA_START"})'
      /\ Coming(LinkUp)' <=> Coming(LinkUp) \/ a \in LinkUp
  <2>1. \A S : Coming(S)' <=> Coming(S) \/ a \in S
    BY <1>1, ComingPosts
  <2> QED BY <1>2, <2>1
<1>4. \A i \in DOMAIN events : events[i] \notin LinkDown
  BY <1>2 DEF Coming
<1>5. \A i \in DOMAIN events' : events'[i] \in LinkDown => i = Len(events') /\ a \in LinkDown
  BY <1>1, <1>4, AtTheEnd
<1>6. ~InHand(LinkDown)'
  BY <1>1, <1>2 DEF Coming, InHand
<1>7. OneLoss'
  BY <1>1, <1>3, <1>5, <1>6 DEF OneLoss
<1>8. LossesCounted'
  <2>1. /\ lost \in 0 .. MaxReconnects /\ fails \in 0 .. MaxReconnects - 1
        /\ MaxReconnects \in Nat \ {0}
    BY ModesAssumption DEF TypeOK
  <2>2. CASE to = "down"
    <3>1. ~Coming(LinkUp) => fails <= lost
      BY DEF LossesCounted
    <3>2. lost' >= 1 /\ (fails <= lost => fails + 1 <= lost' /\ fails <= lost')
      BY <1>1, <2>1, <2>2
    <3> QED BY <1>1, <1>3, <3>1, <3>2 DEF LossesCounted
  <2>3. CASE to # "down"
    <3>1. a \in LinkUp /\ a \notin LinkDown
      BY <2>3 DEF LinkUp, LinkDown
    <3> QED BY <1>3, <3>1 DEF LossesCounted
  <2> QED BY <2>2, <2>3
<1> QED BY <1>7, <1>8

LEMMA StationTakes ==
    ASSUME TypeOK, OneLoss, LossesCounted, TakeEvent PROVE OneLoss' /\ LossesCounted'
<1> DEFINE n == Len(events)
           q == Tail(events)
<1>1. /\ n \in Nat \ {0} /\ DOMAIN events = 1 .. n /\ DOMAIN q = 1 .. n - 1 /\ Len(q) = n - 1
      /\ Head(events) = events[1] /\ \A i \in 1 .. n - 1 : q[i] = events[i + 1]
      /\ n = 1 => q = << >>
  <2>1. events \in Seq(Events) /\ events # << >>
    BY DEF TypeOK, TakeEvent
  <2>2. q \in Seq(Events)
    BY <2>1
  <2>3. Len(q) = 0 => q = << >>
    <3> HIDE DEF q
    <3> QED BY <2>2, EmptySeq
  <2> QED BY <2>1, <2>2, <2>3, LenProperties, EmptySeq
<1>2. /\ events' = q /\ handler.pc = "idle" /\ handler'.pc = "act" /\ handler'.event = events[1]
      /\ radio' = radio /\ fails' = fails /\ lost' = lost /\ events # << >>
  BY <1>1 DEF TakeEvent
<1>3. \A S : Coming(S)' <=> Coming(S)
  BY ComingTaken
<1> HIDE DEF n, q
<1>4. \A i \in 1 .. n - 1 : i + 1 \in 1 .. n /\ (i + 1 = n => i = n - 1)
  BY <1>1
<1>5. 1 \in 1 .. n
  BY <1>1
<1>6. \A i \in 1 .. n : events[i] \in LinkDown => i = n /\ radio.link = "down"
  BY <1>1 DEF OneLoss, n
<1>7. \A i \in DOMAIN events' : events'[i] \in LinkDown => i = Len(events') /\ radio'.link = "down"
  BY <1>1, <1>2, <1>4, <1>6
<1>8. InHand(LinkDown)' => events' = << >> /\ radio'.link = "down"
  BY <1>1, <1>2, <1>5, <1>6 DEF InHand
<1>9. Coming({"STA_START"})' => radio'.link = "down" /\ Len(events') = 0
  <2>1. Coming({"STA_START"})' => radio.link = "down" /\ n = 1
    BY <1>2, <1>3 DEF OneLoss, n
  <2> QED BY <1>1, <1>2, <2>1
<1>10. radio'.link # "trying"
  BY <1>2 DEF OneLoss
<1> QED BY <1>2, <1>3, <1>7, <1>8, <1>9, <1>10 DEF OneLoss, LossesCounted

\* The handler deals with the event it has in hand.
LEMMA StationHandles ==
    ASSUME TypeOK, OneLoss, LossesCounted, HandlerStep, ~TakeEvent, ~GiveUp
    PROVE  OneLoss' /\ LossesCounted'
<1>1. handler.pc = "act" /\ Handled /\ events' = events /\ handler' = NoEvent /\ lost' = lost
  BY DEF HandlerStep, ApStart, ApStop, StaStart, Connected, TryAgain, NoteLoss, Handled, Handling
<1>2. \A S : (Coming(S)' => Coming(S)) /\ (Coming(S) => Coming(S)' \/ handler.event \in S)
  BY <1>1, ComingHandled
<1>3. handler'.pc = "idle" /\ ~InHand(LinkDown)'
  BY <1>1 DEF NoEvent, InHand
<1>4. radio.link # "trying"
  BY <1>1 DEF OneLoss
<1>5. lost \in Nat /\ fails \in Nat
  BY ModesAssumption DEF TypeOK
<1>6. ~Coming({"STA_START"})'
  <2>1. SUFFICES ASSUME Coming({"STA_START"})' PROVE FALSE
    OBVIOUS
  <2>2. Len(events) = 0
    BY <1>1, <1>2, <2>1 DEF OneLoss
  <2>3. events' = << >>
    BY <1>1, <2>2, EmptySeq DEF TypeOK
  <2> QED BY <1>3, <2>1, <2>3 DEF Coming, InHand
<1>7. CASE ApStart \/ ApStop \/ Connected \/ NoteLoss
  <2>1. radio' = radio /\ (fails' = fails \/ fails' = 0)
    BY <1>7 DEF ApStart, ApStop, Connected, NoteLoss
  <2>2. OneLoss'
    BY <1>1, <1>3, <1>4, <1>6, <2>1 DEF OneLoss
  <2>3. handler.event \in LinkUp => fails' = 0
    BY <1>7 DEF ApStart, ApStop, Connected, NoteLoss, Handling, LinkUp
  <2>4. LossesCounted'
    BY <1>1, <1>2, <1>5, <2>1, <2>3 DEF LossesCounted
  <2> QED BY <2>2, <2>4
<1>8. CASE StaStart \/ TryAgain
  <2>1. events = << >> /\ handler.event \notin LinkUp
    <3>1. CASE StaStart
      <4>1. Coming({"STA_START"}) /\ handler.event = "STA_START"
        BY <3>1 DEF StaStart, Handling, Coming, InHand
      <4> QED BY <1>1, <4>1, EmptySeq DEF OneLoss, TypeOK, LinkUp
    <3>2. CASE TryAgain
      BY <3>2 DEF TryAgain, Handling, InHand, OneLoss, LinkDown, LinkUp
    <3> QED BY <1>8, <3>1, <3>2
  <2>2. /\ DOMAIN events = {} /\ DOMAIN events' = {} /\ events' = << >>
        /\ \A S : ~Coming(S)'
    BY <1>1, <1>3, <2>1 DEF Coming, InHand
  <2>3. OneLoss'
    BY <1>3, <2>2 DEF OneLoss
  <2>4. ~Coming(LinkUp)
    BY <1>2, <2>1, <2>2
  <2>5. fails' <= lost
    <3>1. CASE StaStart
      BY <2>4, <3>1 DEF StaStart, LossesCounted
    <3>2. CASE TryAgain
      BY <2>4, <3>2 DEF TryAgain, Handling, LossesCounted, Coming, InHand, LinkDown
    <3> QED BY <1>8, <3>1, <3>2
  <2> QED BY <1>1, <2>2, <2>3, <2>5 DEF LossesCounted
<1> QED BY <1>7, <1>8 DEF HandlerStep

\* It gives up on a loss that is the last event there is.
LEMMA StationGivesUp ==
    ASSUME TypeOK, OneLoss, LossesCounted, GiveUp
    PROVE  events' = events /\ lost = MaxReconnects
<1>1. events = << >> /\ radio.link = "down" /\ handler.pc = "act" /\ handler.event = "STA_DISCONNECTED"
  BY DEF GiveUp, Handling, OneLoss, InHand, LinkDown
<1>2. events' = events
  <2>1. \E e \in {<< >>} : events' = events \o e
    BY <1>1 DEF GiveUp, esp_wifi_disconnect, DropEvents
  <2> QED BY <2>1, Posted DEF TypeOK
<1>3. Coming(LinkDown) /\ ~Coming(LinkUp)
  <2>1. DOMAIN events = {}
    BY <1>1
  <2> QED BY <1>1, <2>1 DEF Coming, InHand, LinkDown, LinkUp
<1>4. fails + 1 <= lost
  BY <1>3 DEF LossesCounted
<1>5. fails + 1 >= MaxReconnects
  BY DEF GiveUp
<1> QED BY <1>2, <1>4, <1>5, ModesAssumption DEF TypeOK

LEMMA InStaStep ==
    ASSUME TypeOK, ~DriverErrors, post.pc = "idle", NoForm, InSta, [Next]_vars
    PROVE  InSta' \/ InPortal'
<1>1. /\ radio.mode = "sta" /\ OneLoss /\ LossesCounted
      /\ listener.pc \in {"wait", "server", "done"}
      /\ listener.pc = "wait" => Asks = {}
      /\ listener.pc # "wait" => EntersSta /\ Asks = {"to_sta"} /\ listener.branch = "to_sta"
  BY DEF InSta, EntersSta
<1>2. ASSUME UNCHANGED listener, Asks' = Asks, radio'.mode = "sta", OneLoss', LossesCounted'
      PROVE  InSta'
  BY <1>1, <1>2 DEF InSta, EntersSta
<1>3. ASSUME UNCHANGED <<events, handler, fails, radio, lost>> PROVE OneLoss' /\ LossesCounted'
  BY <1>1, <1>3 DEF OneLoss, LossesCounted, Coming, InHand
<1>4. CASE Stands
  BY <1>1, <1>2, <1>3, <1>4 DEF Stands, eventVars, Asks
<1>5. ASSUME NEW from \in {"trying", "assoc", "up"}, NEW to \in {"down", "assoc", "up"},
             NEW a \in {"STA_CONNECTED", "GOT_IP", "STA_DISCONNECTED"},
             to = "down" <=> a \in LinkDown, LinkStep(from, to, a)
      PROVE  InSta'
  <2>1. OneLoss' /\ LossesCounted'
    BY <1>1, <1>5, StationLink
  <2>2. listener' = listener /\ flags' = flags /\ radio'.mode = "sta"
    BY <1>1, <1>5 DEF LinkStep, TypeOK
  <2> QED BY <1>2, <2>1, <2>2 DEF Asks
<1>6. CASE AttemptSucceeds \/ AttemptFails \/ GetsAddress \/ LinkBreaks
  <2>1. "STA_DISCONNECTED" \in LinkDown /\ "STA_CONNECTED" \notin LinkDown /\ "GOT_IP" \notin LinkDown
    BY DEF LinkDown
  <2> QED BY <1>5, <1>6, <2>1 DEF AttemptSucceeds, AttemptFails, GetsAddress, LinkBreaks
<1>7. CASE HandlerStep /\ ~GiveUp
  <2>1. OneLoss' /\ LossesCounted'
    BY <1>1, <1>7, StationTakes, StationHandles
  <2>2. listener' = listener
    BY <1>7 DEF HandlerStep, TakeEvent, ApStart, ApStop, StaStart, Connected, TryAgain, NoteLoss, Handled
  <2>3. Asks' = Asks
    BY <1>7 DEF HandlerStep, TakeEvent, ApStart, ApStop, StaStart, Connected, TryAgain, NoteLoss,
       Asks, RequestBits
  <2>4. radio' = radio \/ esp_wifi_connect
    BY <1>7 DEF HandlerStep, TakeEvent, ApStart, ApStop, StaStart, Connected, TryAgain, NoteLoss
  <2> QED BY <1>1, <1>2, <2>1, <2>2, <2>3, <2>4, Connects
<1>8. CASE GiveUp
  <2>1. /\ flags' = flags \cup {"to_captive"} /\ handler' = NoEvent /\ listener' = listener
    BY <1>8 DEF GiveUp, Handled
  <2>2. handler'.pc = "idle" /\ Asks' = Asks \cup {"to_captive"}
    BY <2>1 DEF NoEvent, Asks, RequestBits
  <2>3. Asks' \subseteq Switches /\ (listener.pc = "wait" => "to_sta" \notin flags')
    BY <1>1, <2>1, <2>2 DEF Switches, Asks, RequestBits
  <2> QED BY <1>1, <2>1, <2>2, <2>3 DEF InPortal, EntersSta
<1>9. ASSUME NEW b \in Switches, ServerUp(b) PROVE InSta'
  <2>1. Go("done") /\ listener.pc = "server" /\ flags' = flags
    BY <1>9 DEF ServerUp, At
  <2>2. listener'.pc = "done" /\ listener'.branch = listener.branch /\ listener'.bits = listener.bits
    BY <2>1 DEF Go, TypeOK
  <2>3. OneLoss' /\ LossesCounted' /\ radio' = radio
    BY <1>3, <1>9 DEF ServerUp, eventVars
  <2> QED BY <1>1, <2>1, <2>2, <2>3 DEF InSta, EntersSta, Asks
<1>10. ASSUME NEW b \in Switches, SwitchDone(b) PROVE InSta'
  <2>1. Proceed /\ flags' = flags \ {"to_sta"} /\ listener.pc = "done"
    BY <1>1, <1>10 DEF SwitchDone, At
  <2>2. listener' \in ListenerStates /\ listener.bits \cap RequestBits = {"to_sta"}
    BY <1>1, <2>1, Proceeds DEF EntersSta
  <2>3. listener'.pc = "wait"
    <3>1. listener'.branch \in RequestBits
      BY <2>2 DEF ListenerStates
    <3> QED BY <2>1, <2>2, <3>1, Proceeds
  <2>4. Asks' = {}
    BY <1>1, <2>1 DEF Asks
  <2>5. OneLoss' /\ LossesCounted' /\ radio' = radio
    BY <1>3, <1>10 DEF SwitchDone, eventVars
  <2> QED BY <1>1, <2>3, <2>4, <2>5 DEF InSta
<1>11. CASE \/ Wake \/ AlreadyConnected \/ DropLink \/ LinkDropped \/ Reread \/ ReadMdns \/ MdnsDone
            \/ \E b \in Switches : StopServer(b) \/ TearDown(b) \/ RadioUp(b) \/ SwitchFailed(b)
  BY <1>1, <1>11 DEF Wake, AlreadyConnected, DropLink, LinkDropped, Reread, ReadMdns, MdnsDone,
     StopServer, TearDown, RadioUp, SwitchFailed, At, Asks
<1> QED BY <1>4, <1>6, <1>7, <1>8, <1>9, <1>10, <1>11, PlainSteps
-----------------------------------------------------------------------------
(* The portal.                                                                 *)

LEMMA PortalHandles ==
    ASSUME TypeOK, InPortal PROVE ~GiveUp /\ ~TryAgain
  BY DEF InPortal, GiveUp, TryAgain, Handling, Counts

LEMMA InPortalStep ==
    ASSUME TypeOK, ~DriverErrors, post.pc = "idle", NoForm, InPortal, [Next]_vars
    PROVE  InPortal'
<1> DEFINE Switching(pc, branch, bits, mode) ==
              /\ pc \in {"branch", "stop", "radio", "server", "done"}
              /\ bits \cap RequestBits \subseteq {"to_ap", "to_captive"}
              /\ branch \in {"to_ap", "to_captive"}
              /\ pc \in {"server", "done"} => mode = "apsta"
           Leads(l, mode) == l.pc = "wait" \/ Switching(l.pc, l.branch, l.bits, mode)
<1>1. /\ "to_captive" \in flags \/ radio.mode = "apsta"
      /\ handler.pc = "act" => handler.mode = "apsta" \/ "to_captive" \in handler.bits
      /\ Asks \subseteq Switches
      /\ EntersSta \/ ("to_sta" \notin flags /\ Leads(listener, radio.mode))
  BY DEF InPortal
<1>2. ASSUME "to_captive" \in flags' \/ radio'.mode = "apsta",
             handler'.pc = "act" => handler'.mode = "apsta" \/ "to_captive" \in handler'.bits,
             Asks' \subseteq Switches,
             EntersSta' \/ ("to_sta" \notin flags' /\ Leads(listener', radio'.mode))
      PROVE  InPortal'
  BY <1>2 DEF InPortal
<1> HIDE DEF Leads
<1>3. ASSUME UNCHANGED listener, radio'.mode = radio.mode, Asks' = Asks,
             handler'.pc = "act" => handler'.mode = "apsta" \/ "to_captive" \in handler'.bits
      PROVE  InPortal'
  <2>1. ("to_captive" \in flags' <=> "to_captive" \in flags) /\ ("to_sta" \in flags' <=> "to_sta" \in flags)
    BY <1>3 DEF Asks, RequestBits
  <2> QED BY <1>1, <1>2, <1>3, <2>1 DEF EntersSta
<1>4. CASE Stands
  BY <1>1, <1>3, <1>4 DEF Stands, eventVars, Asks
<1>5. CASE AttemptSucceeds \/ AttemptFails \/ GetsAddress \/ LinkBreaks
  <2>1. \E from, to, a : LinkStep(from, to, a)
    BY <1>5 DEF AttemptSucceeds, AttemptFails, GetsAddress, LinkBreaks
  <2>2. UNCHANGED <<listener, flags, handler>> /\ radio'.mode = radio.mode
    BY <2>1 DEF LinkStep, TypeOK
  <2> QED BY <1>1, <1>3, <2>2 DEF Asks
<1>6. CASE TakeEvent
  BY <1>1, <1>3, <1>6 DEF TakeEvent, Asks
<1>7. CASE ApStart \/ ApStop \/ StaStart \/ Connected \/ NoteLoss
  <2>1. handler'.pc = "idle" /\ listener' = listener
    BY <1>7 DEF ApStart, ApStop, StaStart, Connected, NoteLoss, Handled, NoEvent
  <2>2. Asks' = Asks
    BY <1>7 DEF ApStart, ApStop, StaStart, Connected, NoteLoss, Asks, RequestBits
  <2>3. radio' = radio \/ esp_wifi_connect
    BY <1>7 DEF ApStart, ApStop, StaStart, Connected, NoteLoss
  <2> QED BY <1>3, <2>1, <2>2, <2>3, Connects
<1>8. CASE HandlerStep
  BY <1>6, <1>7, <1>8, PortalHandles DEF HandlerStep
<1>9. CASE Wake
  <2>1. /\ listener' = From(1, flags, radio.mode) /\ listener.pc = "wait"
        /\ UNCHANGED <<flags, handler, radio>>
    BY <1>9 DEF Wake, eventVars
  <2>2. "to_sta" \notin flags
    BY <1>1, <2>1 DEF EntersSta
  <2>3. flags \in SUBSET Bits /\ radio.mode \in Modes /\ 1 \in 1 .. 6
    BY DEF TypeOK
  <2>4. /\ listener' \in ListenerStates /\ listener'.pc \in {"wait", "branch"}
        /\ listener'.pc = "branch" => listener'.bits = flags /\ listener'.branch \in flags
    BY <2>1, <2>3, LoopGoes
  <2>5. flags \cap RequestBits \subseteq {"to_ap", "to_captive"}
    BY <1>1, <2>2 DEF Asks, Switches
  <2>6. listener'.pc = "branch" => listener'.branch \in {"to_ap", "to_captive"}
    BY <2>4, <2>5 DEF ListenerStates
  <2>7. Leads(listener', radio'.mode)
    BY <2>4, <2>5, <2>6 DEF Leads
  <2>8. Asks' = Asks
    BY <2>1 DEF Asks
  <2> QED BY <1>1, <1>2, <2>1, <2>2, <2>7, <2>8
<1>10. ASSUME NEW b \in Switches, StopServer(b) PROVE InPortal'
  <2>1. Go("stop") /\ listener.pc = "branch" /\ UNCHANGED <<flags, handler, radio>>
    BY <1>10 DEF StopServer, At, eventVars
  <2>2. listener'.pc = "stop" /\ listener'.branch = listener.branch /\ listener'.bits = listener.bits
    BY <2>1 DEF Go, TypeOK
  <2>3. "to_sta" \notin flags /\ Leads(listener', radio'.mode)
    BY <1>1, <2>1, <2>2 DEF Leads, EntersSta
  <2> QED BY <1>1, <1>2, <2>1, <2>3 DEF Asks
<1>11. ASSUME NEW b \in Switches, TearDown(b) PROVE InPortal'
  <2>1. Go("radio") /\ listener.pc = "stop" /\ UNCHANGED <<flags, handler>> /\ esp_wifi_stop
    BY <1>11 DEF TearDown, At
  <2>2. listener'.pc = "radio" /\ listener'.branch = listener.branch /\ listener'.bits = listener.bits
    BY <2>1 DEF Go, TypeOK
  <2>3. "to_sta" \notin flags /\ Leads(listener', radio'.mode)
    BY <1>1, <2>1, <2>2 DEF Leads, EntersSta
  <2>4. radio'.mode = radio.mode
    BY <2>1, Stops
  <2> QED BY <1>1, <1>2, <2>1, <2>3, <2>4 DEF Asks
<1>12. ASSUME NEW b \in Switches, RadioUp(b) PROVE InPortal'
  <2>1. /\ Go("server") /\ listener.pc = "radio" /\ UNCHANGED <<flags, handler>>
        /\ esp_wifi_start(Target(b)) /\ listener.branch = b
    BY <1>12 DEF RadioUp, At
  <2>2. listener'.pc = "server" /\ listener'.branch = listener.branch /\ listener'.bits = listener.bits
    BY <2>1 DEF Go, TypeOK
  <2>3. "to_sta" \notin flags /\ b \in {"to_ap", "to_captive"}
    BY <1>1, <2>1 DEF Leads, EntersSta
  <2>4. radio'.mode = "apsta"
    BY <2>1, <2>3, Starts DEF Target, Modes
  <2>5. Leads(listener', radio'.mode)
    BY <1>1, <2>1, <2>2, <2>4 DEF Leads, EntersSta
  <2> QED BY <1>1, <1>2, <2>1, <2>3, <2>4, <2>5 DEF Asks
<1>13. ASSUME NEW b \in Switches, ServerUp(b) PROVE InPortal'
  <2>1. Go("done") /\ listener.pc = "server" /\ UNCHANGED <<flags, handler, radio>>
    BY <1>13 DEF ServerUp, At, eventVars
  <2>2. listener'.pc = "done" /\ listener'.branch = listener.branch /\ listener'.bits = listener.bits
    BY <2>1 DEF Go, TypeOK
  <2>3. EntersSta' \/ ("to_sta" \notin flags' /\ Leads(listener', radio'.mode))
    BY <1>1, <2>1, <2>2 DEF Leads, EntersSta
  <2> QED BY <1>1, <1>2, <2>1, <2>3 DEF Asks
<1>14. ASSUME NEW b \in Switches, SwitchDone(b) PROVE InPortal'
  <2>1. /\ Proceed /\ flags' = flags \ {b} /\ listener.pc = "done" /\ listener.branch = b
        /\ UNCHANGED <<handler, radio>>
    BY <1>14 DEF SwitchDone, At, eventVars
  <2>2. /\ listener' \in ListenerStates /\ listener'.pc \in {"wait", "branch"}
        /\ listener'.pc = "branch" =>
               listener'.bits = listener.bits /\ listener'.branch \in listener.bits \ {"to_sta"}
    BY <2>1, Proceeds
  <2>3. listener'.branch \in RequestBits
    BY <2>2 DEF ListenerStates
  <2>4. Asks' \subseteq Asks
    BY <2>1 DEF Asks
  <2>5. CASE EntersSta
    <3>1. b = "to_sta" /\ listener'.pc = "wait"
      BY <2>1, <2>2, <2>3, <2>5 DEF EntersSta
    <3> QED BY <1>1, <1>2, <2>1, <2>4, <3>1 DEF Leads
  <2>6. CASE ~EntersSta
    <3>1. /\ "to_sta" \notin flags /\ radio.mode = "apsta"
          /\ listener.bits \cap RequestBits \subseteq {"to_ap", "to_captive"}
      BY <1>1, <2>1, <2>6 DEF Leads
    <3>2. Leads(listener', radio'.mode)
      BY <2>2, <2>3, <3>1 DEF Leads
    <3> QED BY <1>1, <1>2, <2>1, <2>4, <3>1, <3>2
  <2> QED BY <2>5, <2>6
<1>15. CASE \/ AlreadyConnected \/ DropLink \/ LinkDropped \/ Reread \/ ReadMdns \/ MdnsDone
            \/ \E b \in Switches : SwitchFailed(b)
  BY <1>1, <1>15 DEF AlreadyConnected, DropLink, LinkDropped, Reread, ReadMdns, MdnsDone,
     SwitchFailed, At, EntersSta, Leads
<1> QED BY <1>4, <1>5, <1>8, <1>9, <1>10, <1>11, <1>12, <1>13, <1>14, <1>15, PlainSteps

-----------------------------------------------------------------------------

LEMMA PhasesStep ==
    ASSUME TypeOK, ~DriverErrors, Phases, [Next]_vars PROVE Phases'
<1> SUFFICES ASSUME ~formSent' PROVE post'.pc = "idle" /\ (Before' \/ InSta' \/ InPortal')
  BY DEF Phases
<1>1. NoForm
  BY DEF NoForm, PostSave
<1>2. CASE ~formSent
  <2>1. post.pc = "idle" /\ (Before \/ InSta \/ InPortal)
    BY <1>2 DEF Phases
  <2>2. post' = post
    BY <1>1, <2>1, PlainSteps
  <2> QED BY <1>1, <2>1, <2>2, BeforeStep, InStaStep, InPortalStep
<1>3. CASE formSent
  <2>1. formSent' = formSent
    BY <1>1, <1>3 DEF Next, vars, postVars, AttemptSucceeds, AttemptFails, GetsAddress, LinkBreaks,
       LinkStep, NoForm, PostFlags, HandlerStep, TakeEvent, ApStart, ApStop, StaStart, Connected,
       GiveUp, TryAgain, NoteLoss, Handled, PostRefused, ListenerStep, Wake, AlreadyConnected, StopServer, TearDown,
       RadioUp, RadioFails, ServerUp, ServerFails, SwitchDone, SwitchFailed, DropLink, LinkDropped,
       Reread, ReadMdns, MdnsDone
  <2> QED BY <1>3, <2>1
<1> QED BY <1>2, <1>3

\* Of the steps without a form, giving up alone asks for captive mode.
LEMMA OnlyGiveUpAsks ==
    ASSUME ~DriverErrors, post.pc = "idle", NoForm, [Next]_vars, AsksForPortal PROVE GiveUp
<1>1. "to_captive" \in flags' /\ "to_captive" \notin flags
  BY DEF AsksForPortal
<1>2. CASE Stands \/ AttemptSucceeds \/ AttemptFails \/ GetsAddress \/ LinkBreaks
  BY <1>1, <1>2 DEF Stands, AttemptSucceeds, AttemptFails, GetsAddress, LinkBreaks, LinkStep
<1>3. CASE HandlerStep
  BY <1>1, <1>3 DEF HandlerStep, TakeEvent, ApStart, ApStop, StaStart, Connected, TryAgain, NoteLoss
<1>4. CASE \/ Wake \/ AlreadyConnected
           \/ \E b \in Switches : \/ StopServer(b) \/ TearDown(b) \/ RadioUp(b)
                                  \/ ServerUp(b) \/ SwitchDone(b) \/ SwitchFailed(b)
           \/ DropLink \/ LinkDropped \/ Reread \/ ReadMdns \/ MdnsDone
  BY <1>1, <1>4 DEF Wake, AlreadyConnected, StopServer, TearDown, RadioUp, ServerUp, SwitchDone,
     SwitchFailed, DropLink, LinkDropped, Reread, ReadMdns, MdnsDone
<1> QED BY <1>2, <1>3, <1>4, PlainSteps

\* Until the first form, and as long as no call of the driver fails, the event
\* handler asks for the portal only after MaxReconnects attempts or links failed
\* one after the other (Wifi.c:713-737): neither a link that the listener drops,
\* nor a loss that is counted twice, nor one from before the last success brings
\* it.  With driver errors a failed switch leaves a reconnect request behind, the
\* listener drops links by itself, and this is false.
THEOREM PortalFollowsFailures ==
    ASSUME ~DriverErrors PROVE Spec => PortalOnlyAfterFailures
<1>1. ASSUME Init PROVE Phases
  <2>1. PICK b \in {"to_sta", "to_ap", "to_captive"} : flags = {b}
    BY <1>1 DEF Init, Switches
  <2>2. Asks = {b} /\ "connected" \notin flags
    BY <2>1 DEF Asks, RequestBits
  <2>3. listener.pc = "wait" /\ handler.pc = "idle" /\ post.pc = "idle"
    BY <1>1, Waits DEF Init, NoEvent
  <2>4. Before
    BY <1>1, <2>2, <2>3 DEF Init, Before, Switches
  <2> QED BY <2>3, <2>4 DEF Phases
<1>2. ASSUME TypeOK, Phases, [Next]_vars, AsksForPortal, ~formSent
      PROVE  lost = MaxReconnects
  <2>1. post.pc = "idle" /\ (Before \/ InSta \/ InPortal)
    BY <1>2 DEF Phases
  <2>2. NoForm
    BY <1>2 DEF NoForm, PostSave, AsksForPortal
  <2>3. GiveUp
    BY <1>2, <2>1, <2>2, OnlyGiveUpAsks
  <2>4. handler.pc = "act"
    BY <1>2 DEF AsksForPortal
  <2>5. InSta
    BY <1>2, <2>1, <2>3, <2>4, PortalHandles DEF Before
  <2> QED BY <1>2, <2>3, <2>5, StationGivesUp DEF InSta
<1>3. TypeOK /\ Phases /\ [Next]_vars => [AsksForPortal /\ ~formSent => lost = MaxReconnects]_vars
  BY <1>2
<1> QED BY <1>1, <1>3, PhasesStep, ModesTypeCorrect, PTL DEF Spec, PortalOnlyAfterFailures
=============================================================================
