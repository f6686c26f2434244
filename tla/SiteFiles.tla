----------------------------- MODULE SiteFiles ------------------------------
(***************************************************************************)
(* The files of the SD card over HTTP: sd_file_handler and send_sd_file of *)
(* src/src/Runtime-handlers.c, with a client that keeps copies and asks    *)
(* for them by ETag and by date, while the files are replaced.             *)
(* The HTTP server handles one request at a time.  The file system and the *)
(* client are external: a copy is stored with the headers it came with,    *)
(* and a 304 lets the client go on using it.                               *)
(***************************************************************************)
EXTENDS Integers, Sequences, FiniteSets

CONSTANTS
    Paths,        \* paths on the card that may hold a file
    Uris,         \* what the client asks for
    Dates,        \* when files are written: y, m, d and the second of the day
    Sizes,        \* how long they are
    MaxBodies,    \* bound: contents written
    Backwards,    \* whether a file may get the date of an earlier one, or one before
    OpenErrors,   \* whether fopen or malloc may fail for a file that is there
    Years         \* the years days_from_civil is tried on

ASSUME FilesAssumption ==
    /\ "/index.html" \in Paths
    /\ MaxBodies \in Nat \ {0}
    /\ Backwards \in BOOLEAN /\ OpenErrors \in BOOLEAN
    /\ Years \subseteq 1970 .. 2107

VARIABLES
    spa,      \* the build's CONFIG_WIFI_SD_FILE_SERVING_MODE
    card,     \* each path: nothing, a directory, or a file
    bodies,   \* contents written so far
    clock,    \* history: the latest time at which a file was written
    copies,   \* the client's copy for each uri
    request   \* the request under way

vars == <<spa, card, bodies, clock, copies, request>>

Nothing == [kind |-> "nothing"]
\* The card's root: FAT keeps no date for it.
Directory == [kind |-> "dir", date |-> [y |-> 1970, m |-> 1, d |-> 1, s |-> 0], size |-> 0]
File(date, size, body) == [kind |-> "file", date |-> date, size |-> size, body |-> body]

\* Mutants, the definitions M_... in this module, are never part of Next: each
\* is the definition that follows it with a plausible bug.
-----------------------------------------------------------------------------
(* Dates.  Times are a day since 1970-01-01 and a second of the day.       *)

M_days_from_civil(year, m, d) ==                       \* centuries are leap years
    LET y == IF m <= 2 THEN year - 1 ELSE year
        era == y \div 400
        yoe == y - era * 400
        doy == (153 * (m + (IF m > 2 THEN -3 ELSE 9)) + 2) \div 5 + d - 1
    IN  era * 146097 + yoe * 365 + yoe \div 4 + doy - 719468
days_from_civil(year, m, d) ==
    LET y == IF m <= 2 THEN year - 1 ELSE year
        era == y \div 400
        yoe == y - era * 400
        doy == (153 * (m + (IF m > 2 THEN -3 ELSE 9)) + 2) \div 5 + d - 1
        doe == yoe * 365 + yoe \div 4 - yoe \div 100 + doy
    IN  era * 146097 + doe - 719468

portable_timegm(date) == <<days_from_civil(date.y, date.m, date.d), date.s>>

\* The calendar, by counting: what gmtime_r and the file system go by.
Leap(y) == y % 4 = 0 /\ (y % 100 # 0 \/ y % 400 = 0)
MonthDays(y, m) == IF m = 2 THEN IF Leap(y) THEN 29 ELSE 28
                   ELSE IF m \in {4, 6, 9, 11} THEN 30 ELSE 31
DaysBefore(y, m) ==
    365 * (y - 1970) + Cardinality({k \in 1970 .. y - 1 : Leap(k)})
    + Cardinality({md \in (1 .. m - 1) \X (1 .. 31) : md[2] <= MonthDays(y, md[1])})
ASSUME DatesAssumption ==
    \A date \in Dates : /\ date \in [y : Years, m : 1 .. 12, d : 1 .. 31, s : Nat]
                        /\ date.d <= MonthDays(date.y, date.m)

mtime(file) == <<DaysBefore(file.date.y, file.date.m) + file.date.d - 1, file.date.s>>

NotBefore(t, u) == t[1] > u[1] \/ (t[1] = u[1] /\ t[2] >= u[2])
-----------------------------------------------------------------------------
(* The client and the card.                                                *)

NoCopy == [kind |-> "none"]
Garbled == [tag |-> << >>, date |-> [y |-> 0, m |-> 0, d |-> 0, s |-> 0]]
NoRequest == [pc |-> "idle"]
Has(copy) == copy.kind # "none"

M_build_weak_etag(file) == <<file.size>>               \* of the size only
build_weak_etag(file) == <<mtime(file), file.size>>

\* "/*" is registered for GET, in the SPA build for HEAD too.
Methods == {"GET"} \cup (IF spa THEN {"HEAD"} ELSE {})

\* The client names the tag of its copy, the date, both, or neither.
Ask(uri, method, html, tagged, dated) ==
    /\ request.pc = "idle" /\ method \in Methods
    /\ (tagged \/ dated) => Has(copies[uri])
    /\ request' = [pc |-> "stat", uri |-> uri, method |-> method, html |-> html,
                   tagged |-> tagged, dated |-> dated]
    /\ UNCHANGED <<spa, card, bodies, clock, copies>>

\* A file is written over another or anew, or taken away.
Write(path, date, size) ==
    /\ bodies < MaxBodies
    /\ card[path].kind # "dir"
    /\ LET file == File(date, size, bodies + 1)
       IN  /\ Backwards \/ ~NotBefore(clock, mtime(file))
           /\ clock' = IF NotBefore(clock, mtime(file)) THEN clock ELSE mtime(file)
           /\ card' = [card EXCEPT ![path] = file]
    /\ bodies' = bodies + 1
    /\ UNCHANGED <<spa, copies, request>>

Remove(path) ==
    /\ card[path].kind = "file"
    /\ card' = [card EXCEPT ![path] = Nothing]
    /\ UNCHANGED <<spa, bodies, clock, copies, request>>
-----------------------------------------------------------------------------
(* sd_file_handler and send_sd_file.                                       *)

\* Whether the last part of a uri has an extension.
HasExtension(uri) == uri \notin {"/", "/page"}

\* In the SPA build a request for a page is one for index.html.  The path that
\* the static build works out is not used: it serves the uri as it came.
Served(r) == IF spa /\ ~HasExtension(r.uri) /\ r.html THEN "/index.html" ELSE r.uri
Stated == card[Served(request)]

\* If-None-Match, and If-Modified-Since when that did not match; parse_rfc1123
\* refuses what is no date.
Unmodified(file, copy) ==
    \/ request.tagged /\ copy.tag = build_weak_etag(file)
    \/ request.dated /\ copy.date # Garbled.date
       /\ NotBefore(portable_timegm(copy.date), mtime(file))

Stating == request.pc = "stat"
Answered == request' = NoRequest

\* not_found_handler, with no header of a file set.
NotThere ==
    /\ Stating /\ Stated.kind = "nothing"
    /\ copies' = [copies EXCEPT ![request.uri] = NoCopy]
    /\ Answered
    /\ UNCHANGED <<spa, card, bodies, clock>>

NotModified ==
    /\ Stating /\ Stated.kind # "nothing"
    /\ Has(copies[request.uri]) /\ Unmodified(Stated, copies[request.uri])
    /\ Answered
    /\ UNCHANGED <<spa, card, bodies, clock, copies>>

Modified ==
    /\ Stating /\ Stated.kind # "nothing"
    /\ ~(Has(copies[request.uri]) /\ Unmodified(Stated, copies[request.uri]))

\* Headers only: the client's copy stays.
HeadersOnly ==
    /\ Modified /\ request.method = "HEAD"
    /\ Answered
    /\ UNCHANGED <<spa, card, bodies, clock, copies>>

\* The headers are those of the file that stat saw.
SetHeaders ==
    /\ Modified /\ request.method = "GET"
    /\ request' = [pc |-> "open", uri |-> request.uri, html |-> request.html,
                   tag |-> build_weak_etag(Stated), date |-> Stated.date]
    /\ UNCHANGED <<spa, card, bodies, clock, copies>>

Store(kind, headers, body) ==
    copies' = [copies EXCEPT ![request.uri] =
                  [kind |-> kind, tag |-> headers.tag, date |-> headers.date, body |-> body]]

\* The file that is there now is sent.
SendBody ==
    /\ request.pc = "open" /\ Stated.kind = "file"
    /\ Store("page", request, Stated.body)
    /\ Answered
    /\ UNCHANGED <<spa, card, bodies, clock>>

\* not_found_handler sends its page under the headers that are set.  Their text is
\* on the stack of send_sd_file, which has returned: it may be intact or not.
OpenFails ==
    /\ request.pc = "open"
    /\ Stated.kind # "file" \/ OpenErrors
    /\ \E headers \in {request, Garbled} : Store("404", headers, 0)
    /\ Answered
    /\ UNCHANGED <<spa, card, bodies, clock>>

\* The client closes while the body is sent.
ClientGone ==
    /\ request.pc = "open" /\ Stated.kind = "file"
    /\ Answered
    /\ UNCHANGED <<spa, card, bodies, clock, copies>>
-----------------------------------------------------------------------------
Init ==
    /\ spa \in BOOLEAN
    /\ card = [p \in Paths \cup Uris |-> IF p = "/" THEN Directory ELSE Nothing]
    /\ bodies = 0
    /\ clock = <<0, 0>>
    /\ copies = [u \in Uris |-> NoCopy]
    /\ request = NoRequest

Next ==
    \/ \E u \in Uris, method \in {"GET", "HEAD"}, html, tagged, dated \in BOOLEAN :
          Ask(u, method, html, tagged, dated)
    \/ \E p \in Paths, date \in Dates, size \in Sizes : Write(p, date, size)
    \/ \E p \in Paths : Remove(p)
    \/ NotThere \/ NotModified \/ HeadersOnly \/ SetHeaders
    \/ SendBody \/ OpenFails \/ ClientGone

Spec == Init /\ [][Next]_vars
-----------------------------------------------------------------------------
(* Properties.                                                             *)

\* A client that is told "304 Not Modified" has the page that is on the card, as
\* long as a file that is written has a later date than the others, also when a
\* file is replaced between stat and fopen (Runtime-handlers.c:294, 393).
ValidatedIsCurrent ==
    [][NotModified /\ Stated.kind = "file" =>
        /\ copies[request.uri].kind = "page"
        /\ copies[request.uri].body = Stated.body]_vars

CalendarAgrees ==
    \A y \in Years, m \in 1 .. 12 : \A d \in 1 .. MonthDays(y, m) :
        days_from_civil(y, m, d) = DaysBefore(y, m) + d - 1

\* The date of every file, of any day FAT can store, comes back from the header
\* it was sent in (Runtime-handlers.c:198).
DatesComeBack == Stating /\ request.dated => CalendarAgrees
-----------------------------------------------------------------------------
(* What the code does not ensure.  TLC refutes each of these definitions,  *)
(* under the constants the README names; none is a property of a run.      *)

\* "Directory index handling (serves index.html for directories)"
\* (Runtime-handlers.c:435), in the static build.
DirectoryIndexServed ==
    [][OpenFails /\ ~spa /\ card[request.uri].kind = "dir" =>
        card["/index.html"].kind # "file"]_vars

\* "Automatic .html extension appending for extensionless paths" (line 437).
ExtensionAppended ==
    [][NotThere /\ ~spa /\ request.uri = "/page" => card["/page.html"].kind # "file"]_vars

\* A copy whose ETag is not the file's is not confirmed.
EtagDecides ==
    [][NotModified /\ request.tagged => copies[request.uri].tag = build_weak_etag(Stated)]_vars
=============================================================================
