# esp32-captive-wifi-manager: a TLA+ development

Paths are relative to the repository; `ws_server.c`, `Wifi.c` and the other
C files without a directory are in its `src/` directory (`src/src/` from the
directory above).

The component runs on FreeRTOS under ESP-IDF.  Five kinds of task meet in it:
the HTTP server task (all URI handlers, one request at a time, WebSocket frames
included), the `ws_rx` task (messages of WebSocket clients), the
`wifi_flags` listener task (mode switches), the default event loop
(`wifi_event_handler`), and the tasks of the application, which call the
public functions.  A small DNS task runs while the captive portal is up.

## 1. Inventory

| Component | State | Operations | What makes it correct |
|---|---|---|---|
| WebSocket connection pool (`ws_server.c`) | `s_slots` (used, gen, sockfd), `s_lock`, `ws_rx_q` | lazy initialisation, handshake (`ws_slot_alloc`, `on_open_cb`), CLOSE (`ws_slot_free_by_sockfd`, `on_close_cb`), TEXT (enqueue), lookups by handle and by socket | a handle names one connection; the application sees the clients there are; nobody keeps `s_lock` |
| Server-initiated messages (`ws_server.c`) | `out_reqs`, `out_subs`, `in_subs`, `last_req_id`, `in_flight_semaphore` of a slot | `ws_send_cmd`, `ws_send_req`, `ws_subscribe`, `ws_unsubscribe`; ack, resp and err from the client | permits neither made up nor lost; an answer completes its own request, once; senders come back |
| Client-initiated messages (`ws_server.c`) | `last_recv_req_id`, `acked`, sub_ids handed out | cmd, req, sub and unsub dispatched to the application, `ws_respond`, auto-ack | one ack and one answer for each message, to the client that sent it |
| Wi-Fi modes and events (`Wifi.c`, `Flags.c`, `STA.c`, `AP.c`, `Captive.c`) | event group, `sta_fails_count`, driver mode and link, server, DNS | listener loop, event handler, switches to STA, AP and captive AP, reconnect, mDNS | every request is served once and with the saved settings; the portal comes up when it should, only then; status bits are true |
| Captive settings and flash (`Captive.c`, `nvs-mgr.c`) | `captive_cfg`, `s_cfg_mutex`, NVS namespace | POST of the form, saving, reading at start, configuration given to each interface | memory, flash and interfaces agree, whatever forms were refused |
| HTTP server manager (`Server-mgr.c`) | server handle, `custom_handlers` and their count; the server's table of URI handlers | `server_mgr_start`, `server_mgr_stop`, `wifi_register_http_handler` by the application, `register_custom_http_handlers` by the listener | a registered handler is the one its requests reach, in STA and AP mode; the table has room |
| Runtime handlers (`Runtime-handlers.c`) | the mounted card; what clients keep of it | registration of the built-ins; files with ETag and Last-Modified, 304, 404 | a 304 is only said of the page that is on the card; dates survive their header |
| Common handlers, SD card, LED | mount state, LED | `/restart`, mount, blink | - |
| DNS server (`priv_include/dns_server/dns_server.c`) | handle with its flag, task, socket on port 53 | start, stop, receive and answer A queries, recover from socket errors | stopped from any point, one task at a time; the portal answers; other sockets are left alone |
| Browser client (`examples/full/webpage/src/utilities/ws.js`) | pending table, queue, inFlight | open, close, send, retry, resubscribe | the protocol's other end |
| Captive page, examples, build tools | - | - | - |

Interactions: the form's handler and the event handler ask the listener for
work by setting bits of one event group; the listener stops and starts the
HTTP server whose task runs the form's handler; the event handler reacts to
what the listener does to the radio driver, later, from a queue.  In the
WebSocket server the HTTP server task passes messages to `ws_rx` through a
queue, `ws_rx` gives the permits application tasks wait for, and all of them
reach a slot through a handle that is checked under `s_lock` and used outside.
The application registers its handlers from its own task, under no lock, while
the listener stops one server and fills the table of the next; the HTTP server
and the DNS server take their sockets from the same few numbers.

What is hard here, line by line, is the list `hazards` of PROJECT.json: slots
that change hands between a lookup and its use, permits through lost answers
and reconnections, events handled after the mode they belong to, bits that are
read at one moment and cleared at another, forms refused half-way, power lost
between two keys, a server that is gone before its handle is, a socket number
that belongs to somebody else by the time it is closed.

## 2. Modules

| Module | Models | Notes |
|---|---|---|
| `WsHandles` | what a pool of handles promises: a handle is bound to at most one socket, and is not bound again to another | abstract specification |
| `WsSlots` | the connection pool | implements `WsHandles` (`Pool == INSTANCE WsHandles WITH bound <- ...`) |
| `WsStartup` | `ws_pool_init` in whichever task comes first, `ws_register_callbacks`, `ws_start_task`, first clients | the pool reduced to the sockets that have a slot |
| `Permits` | what a semaphore of permits promises: each is free, out or lost, and comes back at most once | abstract specification |
| `WsInFlight` | server-initiated messages on one slot | implements `Permits` (`Credits == INSTANCE Permits WITH free <- sem, out <- ...`) while the slot is one socket's; the slot is the one of `WsSlots`, reduced to used, gen and its sessions |
| `WifiModes` | listener, event handler, form requests, radio driver | the driver is external |
| `CaptiveConfig` | settings: form, flash, restart, interfaces | of the listener it has what the settings see: when it reads them, and when it clears the bit; `WifiModes` has the rest |
| `WsCalls` | client-initiated messages, from both ends: the browser client and the server's receive task | the slot again reduced to used, gen, `last_recv_req_id`, acked, `next_sub_id` |
| `HttpHandlers` | the registry, the server's handle and table, the application's tasks | no behaviour of its own: `PortalServices` composes it |
| `DnsServer` | the DNS server's handle, task and socket; its reply to a query | likewise; the reply is an operator |
| `PortalServices` | the listener's switches, which start and stop both servers, with clients that take sockets | `EXTENDS HttpHandlers, DnsServer` |
| `SiteFiles` | files over HTTP, with a client that validates its copies | date arithmetic as operators |
| `WsSlotsProofs`, `WsStartupProofs`, `WsInFlightProofs`, `WsCallsProofs`, `WifiModesProofs`, `CaptiveConfigProofs`, `PortalServicesProofs`, `SiteFilesProofs` | theorems about the module each is named after | section 4 |
| `MC...` | instances for TLC | |

How the code appears in them:

- A critical section of `s_lock`, and one of `s_cfg_mutex`, is one action.
  `WsSlots.locked` and `CaptiveConfig.held` are there for the ways out of a
  section: `locked` becomes TRUE where `ws_slot_alloc` returns without giving
  the mutex.
- `WsSlots`: `httpd` is the HTTP server task inside `ws_handler` (pc: which
  call comes next), `task[t]` an application task or `ws_rx` between
  `ws_slot_get_by_handle` and the use of the pointer it returned.  Handles are
  pairs of index and generation; the `uint16_t` keeps its width as `GenMod`.
- `WsInFlight`: `sender[s].pc` is where an application task is in
  `ws_send_out_req`/`ws_subscribe` (permit, entry, send, failure paths) or
  `ws_unsubscribe`; `rx` is `ws_dispatch_message`; `client` is what the other
  end has received.  `tab` holds both tables, which share their control flow.
  A callback that sends is the same sequence of steps, taken by `rx` itself:
  `rx.pc` is "sending" and `sender[Rx].pc` is where it is.
- `WsStartup`: `pc[t]` is where a task is in `ws_pool_init` ("enter" the test of
  `s_lock` in front of the call, "create" the one inside), `todo` the calls
  `app_main` has still to make.  `frames` holds every queue ever created; a task
  that waits on one does not notice that `ws_rx_q` is another by now.
- `WsCalls`: a handler of the browser (a call of the page, `_onMessage`, a
  timer, `onclose`) runs to its end, with the `catch` of the promises it rejects
  (`Forget`), so it is one action; every one of them ends in `_drain` (`Drain`).
  `pending` and `acked` are the pending table, `queue` the req_ids not sent yet.
  On the server `rx.pc` is where `ws_rx_task` is: noting the message, giving a
  sub its id, the callback and its send, marking the message as acked, reading
  that mark, sending the ack.  `work` holds answers a callback left to another
  task.  A send on a handle that resolves may fail (`SendJson`: no memory, or the
  frame is not sent); `told`, `failed` and `mute` record for which messages, and which
  commands got nothing.  `ws_respond` marks the message all the same.  When the answer
  cannot even be built (`ws_server.c:263, 287`) it returns without marking, which is
  no step here: the automatic ack then follows as for a callback that said nothing.
  The end of a connection is one action for both ends: frames the server
  has read before it are in `rxq` and survive, the rest is lost.
- `WifiModes`: `listener` holds the local `eventBits` and `mode` of the loop
  and the branch it is in; each call that changes the driver, the server or
  the bits is a step.  `handler` holds the bits and the mode
  `wifi_event_handler` read before it acts.  `events` is the driver's queue.
  `Init` is the state `wifi_init` leaves.  `use` is a
  history of each kind of setting: in use, asked for and still to be read, left in
  `captive_cfg` by forms that were refused (`PostRefused`), or missed, when such a
  form was sent again and accepted.
- `CaptiveConfig`: a form is a function from the parameters it has to their
  values; `Parsed` is the chain of `httpd_query_key_value` blocks of
  `captive_post_handler` in their order.  Saving writes one key a step.
  `serving` is the request the listener serves and what it has still to do
  for it: change the mode, read each setting under the mutex (`ReadSettings`), clear
  the bit (`ServeDone`), also if it was set again meanwhile.  `inUse` is what the
  interfaces were given.  Two histories say what a refused form did: `unsaved`, the fields
  that memory and flash do not share since, and `unasked`, the settings that changed
  without a request that will read them.
- `HttpHandlers`: `app[a].pc` is where an application task is in
  `wifi_register_http_handler`: each read of shared state (`server`, the mode,
  the access point's ssid, `server` again) is a step, and so are the two writes
  of the registry, for no lock is held.  `httpd.uris` is the table of
  `esp_http_server`: `Dispatched` is the first entry that matches,
  `Outcome` what `httpd_register_uri_handler` returns.  A table and its handle
  are two variables, because `server_mgr_stop` ends the one before the other.
- `DnsServer`: `dns[n]` is the handle of the n-th `start_dns_server` with the
  local `sock` of its task; `pc` is the call the task comes to next
  (`outer` and `inner` are the tests of its two loops; `again` is the way out of
  `recvfrom`'s error, where the socket is closed before the loop closes it).
  `fds` are the socket numbers of lwIP, shared with the HTTP server.
- `PortalServices`: `listener.pc` goes through `server_mgr_stop`,
  `stop_dns_server` (flag, task, memory), `esp_wifi_set_mode`,
  `esp_wifi_set_config`, `server_mgr_start` and the registrations that `todo`
  still holds; `Fail` is each way out of them.  `serving` is a history of how
  the last switch ended.  A query is its number of questions, the lengths of
  their labels, and the header's flags: `parse_dns_request` works on lengths.
- `SiteFiles`: `card` is what `stat` and `fopen` find, `copies` what the client
  has stored and under which headers.  `request.pc` separates `stat` from
  `fopen`: a file can be replaced between the two.  A file's contents are a
  number that no other file has, so that a stale copy is seen as one.

## 3. Runs

| Run | Question | Result |
|---|---|---|
| `pool_clean` | Clients open, send and close in any order, more than there are slots: do application, pool and sockets agree, does everyone return? | holds |
| `pool_faults` | Sockets fail and come back at any moment: do handles and searches stay right, does the pool implement `WsHandles`? | holds |
| `pool_lock` | Does a reconnecting socket always find a usable pool? | no |
| `startup_order` | Callbacks registered first: is the pool initialised once, before it is used, and are early frames taken? | holds |
| `flight_reconnect` | Do semaphore and tables implement `Permits`, is the client never flooded, do answers stay in their connection, and by which steps alone can a permit be lost? | holds while the slot is one socket's |
| `flight_steady` | On one connection, with callbacks that send: are permits back, do requests end by their answer only, do senders and the receive task return? | holds |
| `calls` | A page that sends, subscribes, cancels and reconnects; a server that answers at once, later or never: is the client's count of messages in flight right and its queue moving, is no message forgotten, do deltas reach their subscription, are commands acked? | holds; commands but for `req_id` 0 and sends that fail |
| `modes_errors` | Forms that are taken or refused half-way, and failing calls: are DNS and status bits right, and does no station setting that an accepted form changed wait unread when all is quiet? | holds |
| `modes_links` | Links come and go, forms are sent: can anything but a link hold the listener? Until the first form: portal after the configured number of failures, and only then? | no; yes |
| `config_saved` | Forms that are taken or refused half-way, a listener that reads and clears in steps, power losses: do memory, flash and interfaces agree, and is every request served? | holds, but for what a refused form left (`unsaved`, `unasked`) and for settings whose request was set just before its bit was cleared |
| `services` | Switches between all modes with calls that fail, an application that registers at any moment, HTTP clients, queries: does every handler get its requests, does the table suffice, is one DNS task running, are the HTTP server's sockets left alone, does the portal answer? | holds |
| `files` | Files replaced by later ones while a client validates its copies, in both builds: is a 304 right, do all dates come back? | holds |

Bounds, each named in its module.

- `WsSlots`: 2 slots and 3 sockets, so that the pool fills, a client is
  refused, and a slot changes hands; 1 sender and the receive task, since
  tasks meet only in the slots; a queue of 1, full as soon as a message waits;
  `MaxGen = 2` generations for a slot in a width of `GenMod = 4`: a handle
  becomes stale, and the generation does not wrap (the width itself is treated
  in section 6).
- `WsInFlight`: 2 senders.  The run with reconnections has 1 permit and 3
  request ids: the three messages it takes to flood a client are one that was
  acked and two that a permit given twice would let out.  The run with one
  connection has 2 permits and 4 ids: each table holds two entries, a failing
  sender can hit another's, and a third send waits and times out.  Two
  connections of the slot, of the same socket number or another; a queue of 1,
  full as soon as an answer waits.
- `WsStartup`: two clients, a queue of 2; the application's calls in the two orders
  that begin with the callbacks.
- `WsCalls`: one subscription and commands, three messages, two connections of
  the same handle or of another, one message in flight, so that the second
  waits: a subscription, its renewal after a reconnection and a command; or a
  command, a subscription and its end.  A receive queue of 1.  `DeltasMatch` holds
  with two subscriptions and four messages as well (the instance of
  `DeltasAlwaysMatch` in section 6, one million states): two subscriptions are
  what it takes to confuse them.
- `WifiModes`: `MaxReconnects = 2` (its default is 5): the count reaches and
  misses its limit, and a link is lost with attempts left.  `MaxEvents = 1`
  bounds when the network or the listener may add an event, not how many a call
  posts: an event is handled while the next one waits.  `Requests` are the sets of
  settings a form may change; a form with one of them is taken, or refused after some
  were.  `SameOrNewSta` (section 6) has the empty set too: a form sent again.
- `CaptiveConfig`: a form for each mode and one that is refused half-way, after its
  network was taken (`EachMode`); between them they change every field but the access
  point's name and the two boxes, and each changes something the other undoes.  The
  two invariants also hold, in four million states, with forms that tick and untick
  the boxes and an open network, and with refusals before the password is looked at and
  by it (`SPECIFICATION Spec`, `Saved <- HomeAp`, `Forms <- AllForms`).
- `PortalServices`: one application task with two handlers, the POST and the
  WebSocket of `examples/full`, which fill a registry of `MaxCustom = 2`; tasks
  meet in the registry, and two of them overrun it (section 6).  `MaxHandles = 2`
  portals, so that one DNS server follows another and closes what it had;
  `MaxSockets = 3` with one HTTP session: the listening socket, a client and the
  DNS task's own, no number to spare, so that a number that is closed is at once
  another's.  Names of all lengths the 127 bytes of the receive buffer hold, in
  one label or two; at most two questions; both sides of every flag.
- `SiteFiles`: two files and three contents, so that a copy can be two behind;
  dates two seconds apart, which is the resolution of FAT, on the days around a
  leap day; all days of the years 1980 to 2107 for the arithmetic.

`CHECK_DEADLOCK FALSE` stands where the system may stop: all bounds used up,
a client that is silent, a network that is stable, a pool that is locked.
`pool_clean`, `startup_order`, `services` and `files` are checked for deadlocks.

Fairness.  Tasks of FreeRTOS are scheduled, so each task has weak fairness
(`WF_vars(RxStep)`, `HttpdStep`, `ListenerStep`, ...); waits with a limit
(permit, queue) end by `PermitTimeout`; `EveryoneReturns` of
`WsInFlight` rests on it, since clients owe nothing.  Nothing is assumed of clients,
users or networks, except that an attempt to connect ends
(`WF_vars(AttemptSucceeds \/ AttemptFails)`: the driver reports one or the
other).  `WsCalls` assumes none: its
properties are invariants, and `QueueMoves` with `EveryCallAccounted` leave to
the browser's timers alone that every promise is settled.  In `CaptiveConfig` the form's handler and the listener's own steps have weak
fairness; taking up each bit, and reading settings under the mutex, have strong
fairness: the mutex, which forms take in between, is a FreeRTOS mutex that serves the
waiting task of the highest priority, longest waiting first, and each pass of
the listener looks at every bit.  In `PortalServices` each DNS task has weak
fairness for what it does by itself (`WF_vars(DnsTaskRuns(n))`); that a query
comes or that `recvfrom` fails is never assumed, and neither is that the
listener goes on.  `SiteFiles` has no liveness: a request is answered by
straight-line code.

Each property of a passing run has a mutant, a definition `M_...` with a
plausible bug in front of the one it stands for, under which TLC refutes the
property (`mutants` of PROJECT.json).

## 4. Proofs

Eight modules hold the proofs, each for every value of the constants of its model
that the named assumption there admits (`PoolAssumption`, `CallsAssumption`, ...,
which only say what the code's configuration can be), and for what the table adds:

| Theorem | States | Assumes besides |
|---|---|---|
| **`WsSlotsProofs`** | any number of slots, sockets, tasks, queue places, generations | |
| `TypeCorrect` | `[]TypeOK` | |
| `SlotsAreDistinct` | `[]DistinctFds`: no two slots remember one socket | |
| `JobsAreNamed` | `[]QueuedJobsNamed` | |
| `HandlesNameSockets` | `[]HandleNamesItsSocket` | `MaxGen < GenMod` |
| `PoolIsHandleTable` | `ImplementsHandleTable`, the refinement of `WsHandles` | `MaxGen < GenMod` |
| `AppKnowsEveryClient` | `[]AppSeesEveryClient` | `~SocketErrors` |
| **`WsStartupProofs`** | any clients, any queue, any orders of calls that begin with the callbacks | |
| `ClientsSurvive`, `QueueIsThere` | `[]ClientsSurviveStartup`, `[]QueueBeforeUse` | `CallbacksComeFirst` |
| `OrderIsEnough` | `[](OneMutex /\ EveryOpenIsTold)`, which the example's order breaks (section 6) | `CallbacksComeFirst` |
| **`WsInFlightProofs`** | any number of permits, senders, ids, connections, queue places | |
| `TypeCorrect` | `[]TypeOK` | |
| `AnswersInSession` | `[]AnswersStayInSession` | |
| `SemaphoreIsAnAccount` | `ImplementsPermits`, the refinement of `Permits` | |
| `ClientIsNotFlooded` | `[]ClientNotFlooded` | |
| `RequestsEnd` | `RequestsEndByAnswer`, an action property | `Reconnects = {}` |
| `PermitLosses` | `LossesAreKnown`, an action property: how a permit can be lost | |
| **`WsCallsProofs`** | any limit, queue, page, number of connections | |
| `CallsTypeCorrect` | `[]TypeOK` | |
| `CounterIsExact` | `[]InFlightIsUnacked` | |
| `NothingIsStuck` | `[]QueueMoves` | |
| `NoCallIsLost` | `[]EveryCallAccounted` | |
| `EveryCmdIsAnswered` | `[]CmdAnswered`, which excepts `req_id` 0 and sends that fail | |
| `DeltasAreRouted` | `[]DeltasMatch`, on connections that have a handle of their own, with one unsub a subscription | |
| **`WifiModesProofs`** | any number of attempts, forms, queue of events, with and without driver errors | |
| `ModesTypeCorrect` | `[]TypeOK` | |
| `HijackIsThePortals` | `[]HijackOnlyInPortal` | |
| `SavedSettingsAreUsed` | `[]StaSettingsApplied`, refused forms included | |
| `StatusBitsAreTrue` | `[]StatusIsTrue` | `MaxReconnects >= 2` |
| `PortalFollowsFailures` | `PortalOnlyAfterFailures`, an action property | `~DriverErrors` |
| **`CaptiveConfigProofs`** | any settings, forms and losses of power | |
| `ConfigTypeCorrect` | `[]TypeOK` | |
| `SavedIsKept` | `[]SavedSurvives`, refused forms included | |
| `SettingsAreUsed` | `[]AcceptedIsUsed`, refused forms included | `[][ApModeNamed]_vars` |
| **`PortalServicesProofs`** | any number of sockets, sessions, portals, tasks, handlers, places in the registry, queries, with and without errors | |
| `OnlyThePortalsTask` | `[]OnlyNamedTaskRuns` | |
| `OthersSocketsAreKept` | `HttpKeepsSockets`, an action property | |
| `ServicesTypeCorrect` | `[]TypeOK` | `[]TakeTurns` |
| `TableSuffices` | `[]TableHasRoom` | `[]TakeTurns`, `RoomForAll` |
| `HandlersAreReached` | `[]EveryUriOwnHandler` | `[]TakeTurns`, `SdCard = "present"` |
| `PlainQueriesAreAnswered` | `[]PlainQueryAnswered` | |
| **`SiteFilesProofs`** | any paths, uris, dates, sizes, number of contents, both builds | |
| `ValidatedCopiesAreCurrent` | `ValidatedIsCurrent`, an action property | `~Backwards`, `~OpenErrors`, `OneFile` |
| `DatesAreTold` | `[]DatesComeBack` | |

Every assumption in the last column marks a place where the statement is false
without it, and the case is described in section 6 unless it is named here.
`ApModeNamed`, `TakeTurns` and `OneFile` are assumed of the behaviour, not of the constants: the
theorem speaks of every behaviour in which the case does not come up.

- `MaxGen < GenMod`: no slot is reallocated so often (65535 times) that its
  generation wraps; the code's guard against that does not work.
- `~SocketErrors`: a connection that ends without a CLOSE frame is not reported.
- `CallbacksComeFirst`: the order `ws_server.h:118` asks for; `examples/full`
  registers a handler first.
- `Reconnects = {}` (one connection): a reconnection clears the tables and with them
  the requests that are pending.  `ImplementsPermits`, `LossesAreKnown`,
  `ClientNotFlooded` and `AnswersStayInSession` do without it: they speak of the
  slot as long as it is one socket's (`OneSocket`), however often that socket comes
  back, and of clients that ack and answer as they like.
- `MaxReconnects >= 2`: with 1, the event handler gives up and returns before it
  clears `CONNECTED_BIT` (`Wifi.c:724`).  The default is 5, and
  `Kconfig.projbuild` names no range.
- `TakeTurns`: of the tasks that register handlers one at a time is between storing
  its handler and counting it; the rest of the call may overlap.  Two at once overrun
  the registry.
- `RoomForAll`, not the single-page build with a card: it has nine built-in
  handlers for eight places.
- `SdCard = "present"`: without a card the registry is not gone through.
- `~DriverErrors`: a switch to station mode that fails leaves `RECONECT_BIT` behind;
  the listener then drops the next link itself, and that loss is counted.
- `ApModeNamed`: a form without the mode that changes the static address in AP mode
  sets no request.  The captive page's form always names it.
- `~Backwards`, `~OpenErrors`: files are written later than those before them, and
  can be opened.  `OneFile`: in the single-page build files have extensions; it
  answers one without with itself or with `index.html`.  The static build needs no
  such thing.

**`WsSlots`.**
The invariant is inductive only in parts that support each other:
`Core` (types, `DistinctFds`, and what the HTTP server task holds between two
of its steps), `Jobs` (every used slot's handle has been issued for its
socket, hence so is what is queued), and `Naming` (issued handles have a
generation no larger than their slot's now, and of the same generation only
for the slot's present socket).  `DistinctFds` alone is not preserved, for
`ws_slot_alloc` may reuse the slot that remembers a socket only because the
search by socket came before the search for a free slot; `HandleNamesItsSocket`
alone is not, for a slot that is free now may be used again under the
generation it has.  `Core` is preserved action by action, then `Jobs` given
`Core`, then `Naming` given both; the refinement follows from `Naming`.
`Clients` says what the application was told of while a request is being handled.

**`WsStartup`.**  Until the callbacks are set the application is alone, since
nothing serves clients, and initialises the pool from end to end (`Alone`); from
then on nobody is inside `ws_pool_init` (`Complete`), and what is open, what has a
slot and what the application knows of differ only by the client that the HTTP
server task is busy with (`Agree`).

**`WsInFlight`.**  `TypeOK` is not inductive by itself: an entry that is still a
sender's must be the one that sender holds (`Owned`), only unsubscribing does
without a permit (`Roles`), and whoever has begun to send must find an id
(`Bounds`).  While the slot is one socket's, an id names one message among the
tables, the client and what is on its way (`IdsAreNames`), and what is pending is
of this connection, as is every answer to it (`Sessions`): this is why an answer
of an earlier connection finds nothing.  For the semaphore, `Account` counts free
permits, holders, entries that owe one and the one being given; it would not be
preserved if two entries could owe the same one, which `IdsAreNames` excludes.
For the client, each permit is charged once, either to an entry that owes it
or to a message the client knows nothing else about (`Charges`, with
`IdsChargedOnce`): the number of such messages can exceed neither.  `Kept`, which
holds on the first connection, says that a sender finds the entry as it left it.  From it
follows what a sender's step may lose there (`SenderFull`): the permit of a message
that goes out from an entry still marked acked, and nothing else.  The account of
`Permits` lets any permit be lost; `LossesAreKnown` says which are.

**`WsCalls`.**  `Core` is one invariant of ten parts, because the two ends hold
each other up.  `Table` counts: queue, pending and settled partition the ids, in
increasing order, and `inFlight` is the pending without an ack; with `QueueMoves`
it is preserved by `_drain` from any state (`Accounts`).  That an ack or an
answer changes the right entry needs to know which messages there are (`Kinds`,
`Entries`) and that messages are sent, queued, taken and answered in the order
they were made (`Line`).  `Numbers` bounds the sub_ids handed out by the messages
still to come, which is what keeps `next_sub_id` in its type.  For `CmdAnswered`,
`Link` and `Handles` say that a job of the present connection has the slot's
handle, and `Current` that `last_recv_req_id` and `acked` are the receive task's
message's while it is at work: an answer another task gave before cannot have
marked a later one, since it is strictly earlier in the line.  So the mark of a
command was set for an answer to it that was sent, or whose send failed.  For `DeltasMatch`,
a sub_id is held by one request from the moment the server gives it until the page
takes the answer (`OneHolder`), an unsub is made for a sub_id that no earlier
request can still get (`UnsubsEnd`), and the streams of later ones begin behind it
in the line (`AnswersStream`).

**`WifiModes`.**  `Servers` says, for every place of the listener, which servers
run, and gives `HijackOnlyInPortal`.  `Settings`: if an accepted
form changed the settings of a station that runs and they are still to be read, a bit
that makes the listener read them is set or in its hand
(`Asked`); `Branching` is what the branches that are no switch know of the mode.
`Status`: the two bits will be true once the events that are queued, and the one
in the handler's hand, have been handled (`ConnectedBit` and `ApBit` are what the
bits will be then), so that it holds in between too, and says what
`StatusIsTrue` says when nothing is queued.  For `PortalOnlyAfterFailures`, until
a form is sent the device has not started, is a station, or is on its way to the
portal and in it (`Phases`).  As a station it has one loss at a time: between a loss
and the next attempt the handler has taken every event (`OneLoss`), so that what is
counted never exceeds what was lost (`LossesCounted`).

**`CaptiveConfig`.**  While `set_nvs_wifi_settings` is at work it has the mutex
(`Locked`), and the keys it has passed are in flash as they are in memory; when it is
not at work, memory and flash differ only in what a refused form changed (`Saving`).
Each setting in use that is not as in `captive_cfg` is still to be read, by the
request being served or by one that is set, or about to be, and will not be cleared
with that request (`Using`, `Due`, `Asked`); a switch that has not read its settings yet
makes up for all others (`Switching`).  What a form changes and which requests it makes is
carried through the parts of `captive_post_handler` in their order (`FormParsed`).

**`PortalServices`.**  `DnsInv`: the handle the portal keeps names memory that is
there and its task is the only one (`Named`), the listener is past
`stop_dns_server` when it starts anything (`Switching`), and a task has the socket
it is about to use unless `recvfrom` failed (`Sockets`).  `RegInv`: the registry is
filled from its start, an entry before it is counted.  `Table` adds that what is in
the server's table hides nothing that comes later, and is a built-in or a
registered handler, so that its length is bounded by their number; `Served` that a
handler the application was told of is in the table, or the listener still has to
come to it.  All this is kept by several tasks that register, one storing at a
time.  `PlainQueryAnswered` is about a query of any number of labels: a plain one of
at most 127 bytes has a name that fits `parse_dns_name`'s buffer and a reply of at
most 143 bytes, which begins where the resolver looks.  The length of a name is a
fold, a recursive function over sets of positions.  That there is such a function,
and that its values are numbers, is an induction each over how many positions a set
has (`NameHasBytes`).

**`SiteFiles`.**  The headers of a copy, and those of an answer on its way, have the
time of a file that was on the card (`Heads`).  No file that is there now is older,
and one of the same time is the very file the copy is of (`Written`, `Copied`,
`Requested`).  Both ways of confirming a copy, by tag and by date, then find the same
file; headers that a 404 page took from the stack match none.  That a date comes
back from its header is a fact about two ways to count days, `days_from_civil`, which
starts the year in March and works by eras of 400 years, and the calendar, which adds
up years and months.  Both are brought to one form: the leap years since 1970 are
counted by induction over the years (`LeapsCounted`), the days before a month are
added up month by month (`MonthsCounted`), and what is left is arithmetic
(`CalendarIsRight`, for every year from 1970).

Induction over numbers.  The library's induction theorems take an operator, which the
provers here cannot instantiate; that a set of numbers with no least element is empty
(`WFMin` with `NatLessThanWellFounded`) takes none, and gives `NumbersBySteps`: a set
that has 0, and n + 1 with every n, has all numbers.

Model-checked only.  Liveness is out of the prover's reach: `EveryoneReturns`,
`FramesAreTaken`, `PortalAnswers`, `FallsBack`, `OnlyLinkHoldsListener` and
`RequestsServed`.  Every invariant and every action property of a run is proved but
`PermitsReturn`, which `flight_steady` checks on one connection with a client that
answers without acks: it is false of the others, and `LossesAreKnown` says why.
`TypeOK` of `WsInFlight`, `WsCalls`, `WifiModes` and `CaptiveConfig`, which no run
lists, is proved.  TLC finds the inductive invariants of all proofs true on the
instances of the runs.

## 5. Not modelled

- Messages that are malformed, and `close()` by the page, which ends the client.
  Scanning, the status and the other JSON answers change no state.  Mounting the
  card and the LED are input and output; whether there is a card is `SdCard`.
- Of `Runtime-handlers.c`: content types, `Cache-Control`, the redirect and the
  text of the 404 page, which no property depends on.
- Of `dns_server.c`: rules with names or fixed addresses, which the portal's one
  rule (`"*"`, the access point's address) does not use, and queries longer than
  the receive buffer, which `recvfrom` cuts.
- Why the listener switches: `PortalServices` lets it switch at any time, to any
  mode; `WifiModes` has the reasons.  Its clients take a socket each; what they
  send is in the other modules.
- `SYNC_TIME_BIT`: no code sets it.  The build options STA, AP and captive
  portal are taken to be on.
- Start-up of the WebSocket pool outside of `WsStartup`: the other models start with
  it initialised.  What the device does after an assertion of FreeRTOS.
- A user's access point that is named `ESP32_Captive_Portal`, which `Server-mgr.c:120`
  takes for the portal, so that a handler registered then is stored only.  Names in
  DNS queries, which the portal's rule does not look at.
- `services` and `PortalAnswers` are about an HTTP server that leaves the DNS task a
  socket number, `MaxSessions + 1 < MaxSockets`.  ESP-IDF's defaults, 7 sessions and the
  server's own 3 out of 10, do not (section 6).
- Results of `nvs_set_...` that fail, forms that arrive in two parts: listed as
  hazards, without a property.
- ESP-IDF and lwIP are external.  `httpd_register_uri_handler` refuses a handler
  that an earlier one matches, or one too many; a request goes to the first
  handler that matches.  A new socket has the lowest free number, `close` goes by
  the number, a port is one socket's, and a deleted task leaves its socket open.
  A client keeps a response under its headers and goes on using it after a 304;
  FAT keeps no date for the card's root.  `httpd_stop` lets the handler that runs finish and
  takes no request after that; `nvs_set_...` reaches the flash at once; dropping
  a link that is up posts a disconnection, dropping an attempt may or may not;
  `esp_wifi_get_mode` gives the mode set last.

## 6. Where the code and its comments disagree

One has a run that shows it (`findings` of PROJECT.json).

`pool_lock`:
`ws_server.c:100` returns inside the critical section when the slot of a socket
is still in use, and `s_lock` is never given.  A socket that ended without a
CLOSE frame and comes back under its number does this, and every later call
blocks.

More are stated at the end of the modules, or are properties of a run that fail
under other constants.  TLC refutes them, but no run lists them; the table gives
the instance, by what differs from a cfg here.  `Config_saved.cfg` and the others
stand for themselves with the definition in place of their properties.
`Flight_one` stands for `InFlight_reconnect.cfg` with `Senders = {s1}`, `MaxId = 2`,
and `Startup_example` for `Startup_order.cfg` with `Orders <- OrderOfExample`: the full
example registers its handler before its callbacks (`main.c:360-364`), while the
server may be up already.  `Config_pages` stands for `Config_saved.cfg` with
`SPECIFICATION Spec`, `Saved <- HomeAp`, `Forms <- GoodPages`: forms that all name the
password of their network, and are never refused.

| Definition | Refuted by | What happens |
|---|---|---|
| `ClosesAreReported` | `WsSlots_lock.cfg` | a connection that ends without a CLOSE frame is never reported to `on_close_cb` ("Called when the WebSocket connection is closed.", `ws_server.h:38`), and its slot stays used |
| `UsedGenerationIsNotZero` | `WsSlots_clean.cfg` with `MaxClients = 1`, `GenMod = 3`, `MaxGen = 3` | `(gen + 1) ? (gen + 1) : 1` is computed in int (`ws_server.c:130, 156`): the wrap to 0 is not seen |
| `HandleReachesItsSocket` | `WsSlots_clean.cfg` with `MaxClients = 1`, `MaxGen = 3` | the pointer from `ws_slot_get_by_handle` is used when the slot is another socket's |
| `EveryOpenIsTold` | `Startup_example` | a client that connects before the callbacks are registered is never reported ("Called when a client opens a new WebSocket connection.", `ws_server.h:18`) |
| `ClientsSurviveStartup` | `Startup_example` | likewise; and a second task inside `ws_pool_init` wipes the slots of a client that is connected |
| `QueueBeforeUse` | `Startup_example` | `s_lock` is set (`ws_server.c:56`) before the queue is created (line 73): a client's first frame finds `ws_rx_q` NULL |
| `OneMutex` | `Startup_example` | two tasks pass the test of `s_lock` before either has created it, and each creates one |
| `AckedAfterSend` | `Flight_one` with `Reconnects = {}`, `MaxSessions = 1` | a new request starts with the `acked` of the entry's last one (`ws_server.c:369`), and its permit does not come back |
| `ReportedSubsAreKept` | `Flight_one` with `ClientAcks = FALSE`, `Reconnects = {}`, `MaxSessions = 1` | a subscription accepted while `in_subs` is full is reported as a success and its deltas dropped (`ws_server.c:749`) |
| `PermitsReturn` | `Flight_one` with `ClientAcks = FALSE` | a reconnection clears the tables (`ws_server.c:104`) and leaves the semaphore without the permits of what was pending ("counts in-flight server-initiated requests", `ws_server.h:96`) |
| `RequestsEndByAnswer` | `Flight_one` with `ClientAcks = FALSE` | requests that are pending when the connection ends are forgotten without a callback (`ws_server.h:45`: "or connection closed") |
| `EveryCmdAnswered` | `Calls_both.cfg` | the first message of a page has `req_id` 0, which `ws_server.c:945` takes as no id: a command with it is never acked ("Auto-acked if the callback does not call ws_respond/ws_send_error", `ws_server.h:22`) |
| `FailedCmdAcked` | `Calls_both.cfg` | an answer whose send failed marks its message as acked all the same (`ws_server.c:274-300`): the command gets neither, although it is "Auto-acked if the callback does not call ws_respond/ws_send_error" (`ws_server.h:22`) and the call did not reach the client |
| `EarlySubscriptionsKept` | `Calls_both.cfg` | a subscription made before the socket opens stays in the queue, but `ws.js:390` has dropped the entry its answer is looked up by: it never becomes active ("Already in queue", `ws.js:393`) |
| `StreamsAreWanted` | `Calls_both.cfg` | a subscription cancelled before its answer is sent all the same, and the server streams for nobody ("Deltas are sent only for active subscriptions", `RAP.v1.md:108`) |
| `DeltasAlwaysMatch` | `Calls_both.cfg` with `Subs = {o1, o2}`, `CallTypes = {}`, `Reconnects = {"other"}`, `MaxId = 4` | a subscription keeps its sub_id when it is unsubscribed; unsubscribed once more on a later connection, it ends another subscription's stream, which has that number there ("remains valid until unsubscribed", `RAP.v1.md:128`) |
| `StreamsKeptApart` | `Calls_both.cfg` with `Subs = {o1, o2}`, `CallTypes = {}`, `MaxId = 4` | sub_ids start at 1 again on a connection under the same handle (`ws_server.c:103`); an answer to a subscription of the connection before still reaches the slot and streams under a number that is another's by now ("tied to a `sub_id`", `RAP.v1.md:121`) |
| `RefusedOnlyInSta` | `Modes_links.cfg` with `MaxReconnects = 1` | the handler returns before it clears `CONNECTED_BIT` (`Wifi.c:724`), `StatusIsTrue` fails too, and the portal's request for STA mode is dropped: "Already connected to AP" (`Wifi.c:490`) |
| `MdnsSettingsApplied` | `Modes_links.cfg` with `Requests <- MdnsForm` | `mDNS_CHANGE_BIT` set while the names are announced is cleared with the old request (`Wifi.c:658`) |
| `ApSettingsApplied` | `Modes_links.cfg` with `Requests <- ApForm` | likewise `SWITCH_TO_AP_BIT` (`Wifi.c:537`) |
| `OnlyFailuresCount` | `Modes_links.cfg` | the disconnection the listener caused is counted as a failed attempt |
| `ListenerReturns` | `Modes_links.cfg` | the poll of `CONNECTED_BIT` (`Wifi.c:594`) does not end when the event handler reconnects meanwhile and succeeds |
| `PortalOnlyAfterFailures` | `Modes_links.cfg` with `DriverErrors = TRUE` | a switch that failed leaves `RECONECT_BIT`, the listener drops the next link for it, and the portal opens one failure early |
| `NeverSpins` | `Modes_links.cfg` | `RECONECT_BIT` left in an AP mode wakes the listener for ever |
| `AcceptedSettingsUsed` | `Modes_errors.cfg` with `Requests <- SameOrNewSta` | a form with a new network and no password is refused (`Captive.c:353`) after its name and authmode were put in `captive_cfg` (lines 315, 346); sent once more it is accepted and saved, for the name is not new any more (line 309), no `RECONECT_BIT` is set either, and the station stays on its old network ("triggers reconnect or mDNS update as needed", line 224) |
| `AllInUse` | `Config_saved.cfg` | likewise |
| `AllInUse` | `Config_pages` | without any refused form, a request that was set while the one before it was being served is cleared with it (`Wifi.c:658`) |
| `ModeAsSaved` | `Config_pages` | two forms before the first is served: the access point's mode wins, while that of the station is saved |
| `PasswordFitsNetwork` | `Config_pages` with `Forms <- StaPages`, `PowerLoss = FALSE` | a refused form leaves its network name in `captive_cfg` (`Captive.c:353`: "reject the request"); submitted again, the old password is saved for it |
| `PasswordFitsNetwork` | `Config_pages` | a power loss between two keys leaves a new name with the old password, although `nvs-mgr.c:73` says "Commits changes atomically." |
| `EmptyOpensAp` | `Config_saved.cfg` | an empty access-point password keeps the old one (`captive.html:68`: "Leave empty for open network") |
| `EveryUriOwnHandler` | `Services_portal.cfg` with `SdCard = "off"` (or `"absent"`) | the stored handlers are registered only with a card (`Runtime-handlers.c:541`): one that came before the server never answers ("re-registered automatically when switching modes", `Server-mgr.c:91`) |
| `TableHasRoom` | `Services_portal.cfg` with `Spa = TRUE` | the single-page build has nine built-in handlers, the table eight places for them ("built-in handlers, which is 8", `Kconfig.projbuild:57`) |
| `StartsComplete` | `Services_portal.cfg` | a handler that the application registers while the listener registers the stored ones is there twice: the error ends the start, `"/*"` is never registered ("Logs errors but continues on failure", `Server-mgr.c:141`) |
| `AppUsesLiveServer` | `Services_portal.cfg` | between `httpd_stop` and the assignment of NULL the application uses a handle that dangles |
| `PortalServesOnlyItself` | `Services_portal.cfg` | the mode is read before the listener changes it, the handler is registered with the portal's server ("not captive portal mode", `Server-mgr.c:90`) |
| `RegistryBounded` | `Services_portal.cfg` with `Apps = {a1, a2}`, `Customs <- OneTooMany` | two tasks pass the test of the count before either has counted (`Server-mgr.c:104`); the next one writes behind the array |
| `EveryPortalAnswers` | `Services_portal.cfg` | `vTaskDelete` leaves the first task's socket on port 53, so that the next portal's cannot be bound ("hijack all DNS queries", `Captive.c:628`) |
| `PortalAnswers` | `Services_portal.cfg` with `MaxSessions = 2` | the HTTP server may take every socket there is: the DNS task that closed its own to make a new one finds none and ends |
| `TaskDeletedOnce` | `Services_portal.cfg` | a task that has ended is deleted once more (`dns_server.c:293`) |
| `ListenerLives` | `Services_portal.cfg` with `NoMemory = {"task"}` | the result of `xTaskCreate` is not looked at; `vTaskDelete(NULL)` then ends the listener |
| `SocketsClosedOnce` | `Services_portal.cfg` | after an error of `recvfrom` the socket is closed twice (`dns_server.c:230, 270`), and in between its number can have become a client's |
| `StandardQueriesAnswered` | `Services_portal.cfg` | a query with AD or CD set is refused, one with an OPT record gets its answer behind that record, one for the root is misread ("will respond to all A queries", `dns_server.h:70`) |
| `OnlyStandardQueriesAnswered` | `Services_portal.cfg` | the opcode's mask is put on the flags in network order and misses it ("Not a standard query", `dns_server.c:115`) |
| `AnswersAsCounted` | `Services_portal.cfg` | `an_count` counts every question, while the pointers stay on the first |
| `DirectoryIndexServed` | `Files_cached.cfg` | the static build works out `index.html` and then does not use it (`Runtime-handlers.c:435`: "Directory index handling") |
| `ExtensionAppended` | `Files_cached.cfg` with `Uris = {"/page"}`, `Paths = {"/index.html", "/page.html"}` | likewise for `.html` (line 437: "Automatic .html extension appending") |
| `EtagDecides` | `Files_cached.cfg` with `Backwards = TRUE` | If-Modified-Since is looked at when If-None-Match did not match (line 334): a file put back with an older date is not seen |
| `ValidatedIsCurrent` | `Files_cached.cfg` with `Paths = {"/index.html", "/page"}`, `Uris = {"/page"}` | the single-page build answers `/page` with the file or with `index.html`, as Accept asks (`Runtime-handlers.c:445-470`); a copy of one is confirmed for the other |
| `ValidatedIsCurrent` | `Files_cached.cfg` with `OpenErrors = TRUE` | when the file cannot be opened its 404 page goes out under the file's ETag, and is confirmed by a 304 later |

## 7. Plan

1. Proofs: what is left is liveness (section 4), and weaker hypotheses in place of
   constants such as `~DriverErrors` and `Reconnects = {}`, as `TakeTurns` is for the
   tasks and `LossesAreKnown` does without for the permits.
2. `WsCalls` and `WsInFlight` together: a client that sends and answers over one
   receive queue.
3. Composition of `WifiModes` with `CaptiveConfig` and `PortalServices`: their
   listeners, which serve any request at any time, as what `WifiModes` promises.
