--------------------------- MODULE SiteFilesProofs ---------------------------
(***************************************************************************)
(* Proofs about SiteFiles, for any paths, uris, dates, sizes and number of *)
(* contents, and both builds.                                              *)
(*                                                                         *)
(* The headers of a copy, or of an answer that is being sent, have the     *)
(* time of a file that was on the card: no file that is there now is       *)
(* older, and one of the same time is the very file the copy is of.  That  *)
(* the dates of the headers are those times is the calendar's part.        *)
(***************************************************************************)
EXTENDS SiteFiles, FiniteSetTheorems, WellFoundedInduction, TLAPS

\* In the SPA build files have extensions, so that a uri leads to one file only:
\* without them it serves /page as itself or as index.html, as the request asks.
\* The static build serves each uri as it came.
FilesHaveExtensions == \A p \in Paths : HasExtension(p)
OneFile == spa => FilesHaveExtensions
FileOf(build, uri) == IF HasExtension(uri) \/ ~build THEN uri ELSE "/index.html"

Times == Int \X Int
Epoch == <<0, 0>>
Time(h) == portable_timegm(h.date)
IsFile(p) == card[p].kind = "file"

\* The card: what is written is later than all that was, and than a directory.
Written ==
    /\ card = [p \in Paths \cup Uris |-> card[p]]
    /\ \A p \in Paths \cup Uris :
           \/ card[p] \in {Nothing, Directory}
           \/ /\ IsFile(p) /\ p \in Paths /\ card[p].date \in Dates
              /\ NotBefore(clock, mtime(card[p])) /\ ~NotBefore(Epoch, mtime(card[p]))
    /\ clock \in Times /\ NotBefore(clock, Epoch)

\* Headers for a uri: the stack's garbage, or of a time that the file which is there
\* now is not before; if it is its time, "same" holds.
Heads(build, files, now, uri, h, same) ==
    \/ h.tag = Garbled.tag /\ h.date = Garbled.date
    \/ /\ h.tag[1] = Time(h) /\ Time(h) \in Times
       /\ NotBefore(now, Time(h))
       /\ files[FileOf(build, uri)].kind = "file" =>
              /\ NotBefore(mtime(files[FileOf(build, uri)]), Time(h))
              /\ mtime(files[FileOf(build, uri)]) = Time(h) => same

Current(build, files, uri, copy) ==
    copy.kind = "page" /\ copy.body = files[FileOf(build, uri)].body
Copied ==
    /\ copies = [u \in Uris |-> copies[u]]
    /\ \A u \in Uris :
           Has(copies[u]) => Heads(spa, card, clock, u, copies[u], Current(spa, card, u, copies[u]))

Requested ==
    /\ request.pc \in {"idle", "stat", "open"}
    /\ request.pc # "idle" => request.uri \in Uris
    /\ request.pc = "open" =>
           Heads(spa, card, clock, request.uri, request, Served(request) = FileOf(spa, request.uri))
-----------------------------------------------------------------------------
(* The calendar.                                                               *)

\* Induction over a set of numbers: the library's theorem takes an operator.
LEMMA NumbersBySteps ==
    ASSUME NEW S, 0 \in S, \A n \in Nat : n \in S => n + 1 \in S
    PROVE  Nat \subseteq S
<1> DEFINE T == Nat \ S
           R == OpToRel(<, Nat)
<1>1. SUFFICES ASSUME T # {} PROVE FALSE
  OBVIOUS
<1>2. PICK n \in T : \A k \in T : <<k, n>> \notin R
  <2>1. IsWellFoundedOn(R, Nat)
    BY NatLessThanWellFounded
  <2>2. T \subseteq Nat
    OBVIOUS
  <2> HIDE DEF T, R
  <2> QED BY <1>1, <2>1, <2>2, WFMin
<1>3. n \in Nat /\ n # 0 /\ n - 1 \in Nat
  OBVIOUS
<1>4. n - 1 \in T
  BY <1>3
<1>5. <<n - 1, n>> \in R
  BY <1>3 DEF OpToRel
<1> QED BY <1>2, <1>4, <1>5

LeapsTo(y) == {k \in 1970 .. y - 1 : Leap(k)}

LEMMA LeapsCounted ==
    ASSUME NEW n \in Nat
    PROVE  /\ IsFiniteSet(LeapsTo(1970 + n))
           /\ Cardinality(LeapsTo(1970 + n)) =
                (1969 + n) \div 4 - (1969 + n) \div 100 + (1969 + n) \div 400 - 477
<1> DEFINE Count(i) == (1969 + i) \div 4 - (1969 + i) \div 100 + (1969 + i) \div 400 - 477
           S == {i \in Nat : IsFiniteSet(LeapsTo(1970 + i)) /\ Cardinality(LeapsTo(1970 + i)) = Count(i)}
<1>1. 0 \in S
  <2>1. LeapsTo(1970 + 0) = {}
    BY DEF LeapsTo
  <2>2. Count(0) = 0
    OBVIOUS
  <2> QED BY <2>1, <2>2, FS_EmptySet
<1>2. ASSUME NEW i \in Nat, i \in S
      PROVE  i + 1 \in S
  <2> DEFINE y == 1970 + i
  <2>1. LeapsTo(1970 + (i + 1)) = IF Leap(y) THEN LeapsTo(1970 + i) \cup {y} ELSE LeapsTo(1970 + i)
    BY DEF LeapsTo
  <2>2. y \notin LeapsTo(1970 + i)
    BY DEF LeapsTo
  <2>3. IsFiniteSet(LeapsTo(1970 + i)) /\ Cardinality(LeapsTo(1970 + i)) = Count(i)
    BY <1>2
  <2>4. Count(i + 1) = IF Leap(y) THEN Count(i) + 1 ELSE Count(i)
    <3>1. (1970 + i) \div 4 = (1969 + i) \div 4 + (IF y % 4 = 0 THEN 1 ELSE 0)
      OBVIOUS
    <3>2. (1970 + i) \div 100 = (1969 + i) \div 100 + (IF y % 100 = 0 THEN 1 ELSE 0)
      OBVIOUS
    <3>3. (1970 + i) \div 400 = (1969 + i) \div 400 + (IF y % 400 = 0 THEN 1 ELSE 0)
      OBVIOUS
    <3>4. (y % 400 = 0 => y % 100 = 0) /\ (y % 100 = 0 => y % 4 = 0)
      OBVIOUS
    <3> QED BY <3>1, <3>2, <3>3, <3>4 DEF Leap
  <2>5. IsFiniteSet(LeapsTo(1970 + (i + 1))) /\ Cardinality(LeapsTo(1970 + (i + 1))) = Count(i + 1)
    BY <2>1, <2>2, <2>3, <2>4, FS_AddElement
  <2> QED BY <2>5
<1> HIDE DEF S
<1>3. n \in S
  BY <1>1, <1>2, NumbersBySteps
<1> QED BY <1>3 DEF S

\* The days of the months before m.
DaysTo(y, m) == {md \in (1 .. m - 1) \X (1 .. 31) : md[2] <= MonthDays(y, md[1])}

LEMMA MonthCounted ==
    ASSUME NEW y \in Int, NEW m \in 1 .. 12, IsFiniteSet(DaysTo(y, m))
    PROVE  /\ IsFiniteSet(DaysTo(y, m + 1))
           /\ Cardinality(DaysTo(y, m + 1)) = Cardinality(DaysTo(y, m)) + MonthDays(y, m)
<1> DEFINE last == MonthDays(y, m)
           new == {m} \X (1 .. last)
<1>1. last \in 1 .. 31
  BY DEF MonthDays
<1>2. DaysTo(y, m + 1) = DaysTo(y, m) \cup new
  <2>1. ASSUME NEW md \in DaysTo(y, m + 1) PROVE md \in DaysTo(y, m) \cup new
    <3>1. /\ md \in (1 .. m) \X (1 .. 31) /\ md[2] <= MonthDays(y, md[1])
      BY DEF DaysTo
    <3>2. PICK a \in 1 .. m, b \in 1 .. 31 : md = <<a, b>>
      BY <3>1
    <3>3. CASE a = m
      <4>1. md[1] = m /\ md[2] = b
        BY <3>2, <3>3
      <4>2. b \in 1 .. last
        BY <1>1, <3>1, <4>1
      <4> HIDE DEF last
      <4> QED BY <3>2, <3>3, <4>2
    <3>4. CASE a # m
      <4>1. a \in 1 .. m - 1
        BY <3>2, <3>4
      <4>2. md \in (1 .. m - 1) \X (1 .. 31)
        BY <3>2, <4>1
      <4> QED BY <3>1, <4>2 DEF DaysTo
    <3> QED BY <3>3, <3>4
  <2>2. ASSUME NEW md \in new PROVE md \in DaysTo(y, m + 1)
    <3>1. PICK b \in 1 .. last : md = <<m, b>>
      <4> HIDE DEF last
      <4> QED OBVIOUS
    <3>2. b \in 1 .. 31 /\ b <= last
      BY <1>1
    <3>3. md \in (1 .. m + 1 - 1) \X (1 .. 31) /\ md[1] = m /\ md[2] = b
      BY <3>1, <3>2
    <3> QED BY <3>2, <3>3 DEF DaysTo
  <2>3. DaysTo(y, m) \subseteq DaysTo(y, m + 1)
    BY DEF DaysTo
  <2> QED BY <2>1, <2>2, <2>3
<1>3. DaysTo(y, m) \cap new = {}
  BY DEF DaysTo
<1>4. IsFiniteSet(new) /\ Cardinality(new) = last
  <2>1. IsFiniteSet({m}) /\ Cardinality({m}) = 1
    BY FS_Singleton
  <2>2. IsFiniteSet(1 .. last) /\ Cardinality(1 .. last) = last
    <3> HIDE DEF last
    <3>1. 1 \in Int /\ last \in Int /\ ~(1 > last)
      BY <1>1
    <3>2. IsFiniteSet(1 .. last) /\ Cardinality(1 .. last) = IF 1 > last THEN 0 ELSE last - 1 + 1
      BY <3>1, FS_Interval, Zenon
    <3> QED BY <3>1, <3>2
  <2>3. IsFiniteSet(new) /\ Cardinality(new) = Cardinality({m}) * Cardinality(1 .. last)
    BY <2>1, <2>2, FS_Product, Zenon
  <2> HIDE DEF last, new
  <2> QED BY <1>1, <2>1, <2>2, <2>3
<1> HIDE DEF new
<1>5. Cardinality(DaysTo(y, m) \cap new) = 0
  BY <1>3, FS_EmptySet
<1>6. Cardinality(DaysTo(y, m)) \in Nat
  BY FS_CardinalityType
<1>7. /\ IsFiniteSet(DaysTo(y, m) \cup new)
      /\ Cardinality(DaysTo(y, m) \cup new)
         = Cardinality(DaysTo(y, m)) + Cardinality(new) - Cardinality(DaysTo(y, m) \cap new)
  BY <1>4, FS_Union, Zenon
<1> HIDE DEF last
<1>8. last \in Int /\ last = MonthDays(y, m)
  BY <1>1 DEF last
<1>9. Cardinality(DaysTo(y, m) \cup new) = Cardinality(DaysTo(y, m)) + last
  BY <1>4, <1>5, <1>6, <1>7, <1>8
<1> QED BY <1>2, <1>7, <1>8, <1>9

\* Days of a year before its m-th month: 31, 28 or 29, 31, 30, ...
Before(y, m) ==
    (153 * (m + (IF m > 2 THEN -3 ELSE 9)) + 2) \div 5
    - (IF m > 2 THEN 306 - 365 ELSE 306) + (IF m > 2 /\ Leap(y) THEN 1 ELSE 0)

LEMMA MonthsCounted ==
    ASSUME NEW y \in Int, NEW m \in 1 .. 12
    PROVE  Cardinality(DaysTo(y, m)) = Before(y, m)
<1> DEFINE Good(i) == IsFiniteSet(DaysTo(y, i)) /\ Cardinality(DaysTo(y, i)) = Before(y, i)
<1>1. Good(1)
  <2>1. DaysTo(y, 1) = {}
    BY DEF DaysTo
  <2> QED BY <2>1, FS_EmptySet DEF Before
<1>2. ASSUME NEW i \in 1 .. 12, Good(i)
      PROVE  i < 12 => Good(i + 1)
  <2>1. /\ IsFiniteSet(DaysTo(y, i + 1))
        /\ Cardinality(DaysTo(y, i + 1)) = Before(y, i) + MonthDays(y, i)
    BY <1>2, MonthCounted
  <2>2. i < 12 => Before(y, i + 1) = Before(y, i) + MonthDays(y, i)
    <3>1. i \in {1, 2, 3, 4, 5, 6, 7, 8, 9, 10, 11, 12}
      OBVIOUS
    <3> QED BY <3>1 DEF Before, MonthDays
  <2> QED BY <2>1, <2>2
<1> HIDE DEF Good
<1>3. Good(2) /\ Good(3) /\ Good(4) /\ Good(5) /\ Good(6) /\ Good(7)
  <2>1. Good(2)
    BY <1>1, <1>2
  <2>2. Good(3)
    BY <2>1, <1>2
  <2>3. Good(4)
    BY <2>2, <1>2
  <2>4. Good(5)
    BY <2>3, <1>2
  <2>5. Good(6)
    BY <2>4, <1>2
  <2>6. Good(7)
    BY <2>5, <1>2
  <2> QED BY <2>1, <2>2, <2>3, <2>4, <2>5, <2>6
<1>4. Good(8) /\ Good(9) /\ Good(10) /\ Good(11) /\ Good(12)
  <2>1. Good(8)
    BY <1>3, <1>2
  <2>2. Good(9)
    BY <2>1, <1>2
  <2>3. Good(10)
    BY <2>2, <1>2
  <2>4. Good(11)
    BY <2>3, <1>2
  <2>5. Good(12)
    BY <2>4, <1>2
  <2> QED BY <2>1, <2>2, <2>3, <2>4, <2>5
<1>5. m \in {1, 2, 3, 4, 5, 6, 7, 8, 9, 10, 11, 12}
  OBVIOUS
<1>6. Good(m)
  BY <1>1, <1>3, <1>4, <1>5
<1> QED BY <1>6 DEF Good

\* Eras of 400 years and years of an era, or all years at once.
LEMMA Eras ==
    ASSUME NEW y \in Nat
    PROVE  LET era == y \div 400
               yoe == y - era * 400
           IN  era * 146097 + yoe * 365 + yoe \div 4 - yoe \div 100
               = y * 365 + y \div 4 - y \div 100 + y \div 400
<1> DEFINE era == y \div 400
           yoe == y - era * 400
<1>1. era \in Nat /\ yoe \in 0 .. 399
  OBVIOUS
<1>2. y = era * 400 + yoe
  BY <1>1
<1>3. y \div 4 = era * 100 + yoe \div 4
  BY <1>1, <1>2
<1>4. y \div 100 = era * 4 + yoe \div 100
  BY <1>1, <1>2
<1> QED BY <1>1, <1>2, <1>3, <1>4

LEMMA CalendarIsRight ==
    ASSUME NEW y \in Nat, y >= 1970, NEW m \in 1 .. 12, NEW d \in Int
    PROVE  days_from_civil(y, m, d) = DaysBefore(y, m) + d - 1
<1> DEFINE k == IF m <= 2 THEN y - 1 ELSE y
           era == k \div 400
           yoe == k - era * 400
           doy == (153 * (m + (IF m > 2 THEN -3 ELSE 9)) + 2) \div 5 + d - 1
           leaps == (y - 1) \div 4 - (y - 1) \div 100 + (y - 1) \div 400
<1>1. k \in Nat
  OBVIOUS
<1>2. days_from_civil(y, m, d) =
        k * 365 + k \div 4 - k \div 100 + k \div 400 + doy - 719468
  <2>1. era * 146097 + yoe * 365 + yoe \div 4 - yoe \div 100
        = k * 365 + k \div 4 - k \div 100 + k \div 400
    <3> HIDE DEF k
    <3> QED BY <1>1, Eras
  <2>2. days_from_civil(y, m, d) = era * 146097 + (yoe * 365 + yoe \div 4 - yoe \div 100 + doy) - 719468
    BY DEF days_from_civil
  <2>3. era \in Int /\ yoe \in Int /\ yoe \div 4 \in Int /\ yoe \div 100 \in Int /\ doy \in Int
    <3>1. doy \in Int
      OBVIOUS
    <3> HIDE DEF k, doy
    <3>2. era \in Int
      BY <1>1
    <3> HIDE DEF era
    <3>3. yoe \in Int
      BY <1>1, <3>2
    <3> HIDE DEF yoe
    <3> QED BY <3>1, <3>2, <3>3
  <2> HIDE DEF k, era, yoe, doy
  <2> QED BY <1>1, <2>1, <2>2, <2>3
<1>3. DaysBefore(y, m) = 365 * (y - 1970) + (leaps - 477) + Before(y, m)
  <2>1. y - 1970 \in Nat
    OBVIOUS
  <2>2. Cardinality(LeapsTo(y)) = leaps - 477
    <3> DEFINE n == y - 1970
    <3>1. n \in Nat /\ 1969 + n = y - 1 /\ 1970 + n = y
      OBVIOUS
    <3> HIDE DEF n
    <3>2. Cardinality(LeapsTo(1970 + n)) = (1969 + n) \div 4 - (1969 + n) \div 100 + (1969 + n) \div 400 - 477
      BY <3>1, LeapsCounted
    <3> QED BY <3>1, <3>2
  <2>3. Cardinality(DaysTo(y, m)) = Before(y, m)
    BY MonthsCounted
  <2>4. DaysBefore(y, m) = 365 * (y - 1970) + Cardinality(LeapsTo(y)) + Cardinality(DaysTo(y, m))
    BY DEF DaysBefore, DaysTo, LeapsTo
  <2> HIDE DEF leaps
  <2> QED BY <2>2, <2>3, <2>4
<1>4. k * 365 + k \div 4 - k \div 100 + k \div 400 + doy - 719468
      = 365 * (y - 1970) + (leaps - 477) + Before(y, m) + d - 1
  <2>1. CASE m <= 2
    <3>1. k = y - 1 /\ doy = (153 * (m + 9) + 2) \div 5 + d - 1
      BY <2>1
    <3>2. Before(y, m) = (153 * (m + 9) + 2) \div 5 - 306
      BY <2>1 DEF Before
    <3> DEFINE months == (153 * (m + 9) + 2) \div 5
               a == (y - 1) \div 4
               b == (y - 1) \div 100
               c == (y - 1) \div 400
    <3>3. months \in Int /\ a \in Int /\ b \in Int /\ c \in Int
      OBVIOUS
    <3>4. /\ k = y - 1 /\ doy = months + d - 1 /\ Before(y, m) = months - 306
          /\ leaps = a - b + c /\ k \div 4 = a /\ k \div 100 = b /\ k \div 400 = c
      BY <3>1, <3>2
    <3> HIDE DEF months, a, b, c, k, doy, leaps
    <3> QED BY <3>3, <3>4
  <2>2. CASE m > 2
    <3>1. y \div 4 = (y - 1) \div 4 + (IF y % 4 = 0 THEN 1 ELSE 0)
      OBVIOUS
    <3>2. y \div 100 = (y - 1) \div 100 + (IF y % 100 = 0 THEN 1 ELSE 0)
      OBVIOUS
    <3>3. y \div 400 = (y - 1) \div 400 + (IF y % 400 = 0 THEN 1 ELSE 0)
      OBVIOUS
    <3>4. (y % 400 = 0 => y % 100 = 0) /\ (y % 100 = 0 => y % 4 = 0)
      OBVIOUS
    <3> DEFINE months == (153 * (m - 3) + 2) \div 5
               a == (y - 1) \div 4
               b == (y - 1) \div 100
               c == (y - 1) \div 400
    <3>5. months \in Int /\ a \in Int /\ b \in Int /\ c \in Int
      OBVIOUS
    <3>6. Before(y, m) = months + 59 + (IF Leap(y) THEN 1 ELSE 0)
      BY <2>2 DEF Before
    <3>7. k = y /\ doy = months + d - 1 /\ leaps = a - b + c
      BY <2>2
    <3>8. k \div 4 - k \div 100 + k \div 400 = a - b + c + (IF Leap(y) THEN 1 ELSE 0)
      BY <3>1, <3>2, <3>3, <3>4, <3>5, <3>7 DEF Leap
    <3>9. k \div 4 \in Int /\ k \div 100 \in Int /\ k \div 400 \in Int
      BY <3>7
    <3> HIDE DEF months, a, b, c, k, doy, leaps
    <3> QED BY <3>5, <3>6, <3>7, <3>8, <3>9
  <2> QED BY <2>1, <2>2
<1> HIDE DEF k, doy, leaps
<1> QED BY <1>2, <1>3, <1>4

LEMMA Agreed == CalendarAgrees
<1> SUFFICES ASSUME NEW y \in Years, NEW m \in 1 .. 12, NEW d \in 1 .. MonthDays(y, m)
             PROVE  days_from_civil(y, m, d) = DaysBefore(y, m) + d - 1
  BY DEF CalendarAgrees
<1>1. y \in Nat /\ y >= 1970
  BY FilesAssumption
<1>2. d \in Int
  OBVIOUS
<1> QED BY <1>1, <1>2, CalendarIsRight
-----------------------------------------------------------------------------
(* Times.                                                                      *)

LEMMA Order ==
    ASSUME NEW t \in Times, NEW u \in Times, NEW v \in Times
    PROVE  /\ NotBefore(t, t)
           /\ NotBefore(t, u) \/ NotBefore(u, t)
           /\ NotBefore(t, u) /\ NotBefore(u, t) => t = u
           /\ NotBefore(t, u) /\ NotBefore(u, v) => NotBefore(t, v)
<1>1. PICK t1, t2, u1, u2, v1, v2 \in Int : t = <<t1, t2>> /\ u = <<u1, u2>> /\ v = <<v1, v2>>
  BY DEF Times
<1> QED BY <1>1 DEF NotBefore

\* A later time, and one that is not before it.
LEMMA Later ==
    ASSUME NEW t \in Times, NEW u \in Times, NEW v \in Times, ~NotBefore(t, u), NotBefore(t, v)
    PROVE  NotBefore(u, v) /\ u # v /\ NotBefore(u, t)
  BY Order

LEMMA DaysAreNumbers ==
    ASSUME NEW year \in Int, NEW m \in Int, NEW d \in Int
    PROVE  days_from_civil(year, m, d) \in Int
<1> DEFINE y == IF m <= 2 THEN year - 1 ELSE year
           era == y \div 400
           yoe == y - era * 400
           mp == m + (IF m > 2 THEN -3 ELSE 9)
           doy == (153 * mp + 2) \div 5 + d - 1
           doe == yoe * 365 + yoe \div 4 - yoe \div 100 + doy
<1>1. y \in Int /\ mp \in Int
  OBVIOUS
<1> HIDE DEF y, mp
<1>2. era \in Int
  BY <1>1
<1> HIDE DEF era
<1>3. yoe \in Int
  BY <1>1, <1>2
<1> HIDE DEF yoe
<1>4. doy \in Int
  BY <1>1
<1> HIDE DEF doy
<1>5. doe \in Int
  BY <1>3, <1>4
<1> HIDE DEF doe
<1>6. era * 146097 + doe - 719468 \in Int
  BY <1>2, <1>5
<1>7. days_from_civil(year, m, d) = era * 146097 + doe - 719468
  BY DEF days_from_civil, doe, doy, yoe, era, mp, y
<1> QED BY <1>6, <1>7

\* The calendar of the code is that of the file system.
LEMMA DateTold ==
    ASSUME NEW file, file.date \in Dates
    PROVE  portable_timegm(file.date) = mtime(file) /\ mtime(file) \in Times
<1> DEFINE day == file.date
<1>1. day \in [y : Years, m : 1 .. 12, d : 1 .. 31, s : Nat]
  BY DatesAssumption
<1>2. day.d <= MonthDays(day.y, day.m)
  BY DatesAssumption
<1> HIDE DEF day
<1>3. day.y \in Years /\ day.m \in 1 .. 12 /\ day.d \in 1 .. 31 /\ day.s \in Nat
  <2>1. day.y \in Years
    BY <1>1
  <2>2. day.m \in 1 .. 12
    BY <1>1
  <2>3. day.d \in 1 .. 31
    BY <1>1
  <2>4. day.s \in Nat
    BY <1>1
  <2> QED BY <2>1, <2>2, <2>3, <2>4
<1>4. MonthDays(day.y, day.m) \in Int
  BY DEF MonthDays
<1>5. day.d \in 1 .. MonthDays(day.y, day.m)
  BY <1>2, <1>3, <1>4
<1>6. days_from_civil(day.y, day.m, day.d) = DaysBefore(day.y, day.m) + day.d - 1
  BY <1>3, <1>5, Agreed DEF CalendarAgrees
<1>7. portable_timegm(day) = mtime(file)
  BY <1>6 DEF portable_timegm, mtime, day
<1>8. portable_timegm(day) \in Times
  <2>1. day.y \in Int /\ day.m \in Int /\ day.d \in Int
    <3>1. Years \subseteq Int
      BY FilesAssumption
    <3>2. day.y \in Int
      BY <1>3, <3>1
    <3>3. day.m \in Int
      BY <1>3
    <3>4. day.d \in Int
      BY <1>3
    <3> QED BY <3>2, <3>3, <3>4
  <2>2. days_from_civil(day.y, day.m, day.d) \in Int
    BY <2>1, DaysAreNumbers
  <2> QED BY <1>3, <2>2 DEF portable_timegm, Times
<1> QED BY <1>7, <1>8 DEF day

LEMMA DirectoryTold ==
    portable_timegm(Directory.date) = Epoch /\ mtime(Directory) = Epoch /\ Epoch \in Times
<1>1. days_from_civil(1970, 1, 1) = 0
  BY DEF days_from_civil
<1>2. DaysBefore(1970, 1) = 0
  <2>1. {k \in 1970 .. 1970 - 1 : Leap(k)} = {} /\ (1 .. 1 - 1) \X (1 .. 31) = {}
    OBVIOUS
  <2>2. {md \in (1 .. 1 - 1) \X (1 .. 31) : md[2] <= MonthDays(1970, md[1])} = {}
    BY <2>1
  <2>3. Cardinality({}) = 0
    BY FS_EmptySet
  <2> QED BY <2>1, <2>2, <2>3, SMTT(30) DEF DaysBefore
<1> QED BY <1>1, <1>2 DEF portable_timegm, mtime, Directory, Epoch, Times

\* What is on the card has a time.
LEMMA FileTimes ==
    ASSUME Written, NEW p, IsFile(p), p \in Paths \cup Uris
    PROVE  /\ p \in Paths /\ card[p].date \in Dates
           /\ Time(card[p]) = mtime(card[p]) /\ mtime(card[p]) \in Times
           /\ NotBefore(clock, mtime(card[p])) /\ ~NotBefore(Epoch, mtime(card[p]))
<1>1. card[p] \notin {Nothing, Directory}
  BY DEF IsFile, Nothing, Directory
<1>2. /\ p \in Paths /\ card[p].date \in Dates
      /\ NotBefore(clock, mtime(card[p])) /\ ~NotBefore(Epoch, mtime(card[p]))
  BY <1>1 DEF Written
<1> QED BY <1>2, DateTold DEF Time

\* A uri leads to its own file or to none.
LEMMA Leads ==
    ASSUME OneFile, Written, request.uri \in Uris
    PROVE  /\ Served(request) \in Paths \cup Uris /\ FileOf(spa, request.uri) \in Paths \cup Uris
           /\ Stated.kind = "file" => Served(request) = FileOf(spa, request.uri) /\ IsFile(Served(request))
           /\ Stated.kind \in {"nothing", "dir", "file"}
           /\ Stated.kind = "dir" => Stated = Directory
<1>1. Served(request) \in Paths \cup Uris /\ FileOf(spa, request.uri) \in Paths \cup Uris
  BY FilesAssumption DEF Served, FileOf
<1>2. \/ Stated \in {Nothing, Directory}
      \/ IsFile(Served(request)) /\ Served(request) \in Paths
  BY <1>1 DEF Written, Stated
<1>3. Served(request) \in Paths => Served(request) = FileOf(spa, request.uri)
  BY DEF OneFile, FilesHaveExtensions, Served, FileOf, HasExtension
<1> QED BY <1>1, <1>2, <1>3 DEF Stated, IsFile, Nothing, Directory
-----------------------------------------------------------------------------
(* Steps.                                                                      *)

\* A file is written: it is later than all there was.
LEMMA WriteStep ==
    ASSUME ~Backwards, Written,
           NEW path \in Paths, NEW date \in Dates, NEW size \in Sizes, Write(path, date, size)
    PROVE  /\ Written'
           /\ card'[path].kind = "file" /\ \A p \in Paths \cup Uris : p # path => card'[p] = card[p]
           /\ ~NotBefore(clock, mtime(card'[path])) /\ clock' = mtime(card'[path])
           /\ clock' \in Times
<1> DEFINE file == File(date, size, bodies + 1)
<1>1. /\ ~NotBefore(clock, mtime(file)) /\ clock' = mtime(file) /\ card' = [card EXCEPT ![path] = file]
  BY DEF Write
<1>2. file.kind = "file" /\ file.date = date
  BY DEF File
<1> HIDE DEF file
<1>3. mtime(file) \in Times
  BY <1>2, DateTold
<1>4. /\ card'[path] = file /\ \A p \in Paths \cup Uris : p # path => card'[p] = card[p]
      /\ card' = [p \in Paths \cup Uris |-> card'[p]]
  BY <1>1 DEF Written
<1>5. clock \in Times /\ NotBefore(clock, Epoch) /\ Epoch \in Times
  BY DirectoryTold DEF Written
<1>6. \A t \in Times : NotBefore(clock, t) => NotBefore(clock', t)
  BY <1>1, <1>3, <1>5, Order
<1>7. ASSUME NEW p \in Paths \cup Uris
      PROVE  \/ card'[p] \in {Nothing, Directory}
             \/ /\ card'[p].kind = "file" /\ p \in Paths /\ card'[p].date \in Dates
                /\ NotBefore(clock', mtime(card'[p])) /\ ~NotBefore(Epoch, mtime(card'[p]))
  <2>1. CASE p = path
    <3>1. ~NotBefore(Epoch, mtime(file))
      BY <1>1, <1>3, <1>5, Order
    <3>2. NotBefore(clock', mtime(file))
      BY <1>1, <1>3, Order
    <3> QED BY <1>2, <1>4, <2>1, <3>1, <3>2
  <2>2. CASE p # path
    <3>1. card'[p] = card[p]
      BY <1>4, <2>2
    <3>2. card[p] \in {Nothing, Directory} \/ IsFile(p)
      BY DEF Written
    <3>3. CASE IsFile(p)
      BY <1>6, <3>1, <3>3, FileTimes DEF IsFile
    <3> QED BY <3>1, <3>2, <3>3
  <2> QED BY <2>1, <2>2
<1>8. Written'
  BY <1>1, <1>3, <1>4, <1>5, <1>6, <1>7 DEF Written, IsFile
<1> QED BY <1>1, <1>2, <1>3, <1>4, <1>8

LEMMA HeadsWritten ==
    ASSUME ~Backwards, Written,
           NEW path \in Paths, NEW date \in Dates, NEW size \in Sizes, Write(path, date, size),
           NEW uri \in Uris, NEW h, NEW same, NEW same2, Heads(spa, card, clock, uri, h, same),
           FileOf(spa, uri) # path => (same => same2)
    PROVE  Heads(spa, card', clock', uri, h, same2)
<1>1. /\ card'[path].kind = "file" /\ \A p \in Paths \cup Uris : p # path => card'[p] = card[p]
      /\ ~NotBefore(clock, mtime(card'[path])) /\ clock' = mtime(card'[path])
      /\ clock' \in Times /\ clock \in Times
  BY WriteStep DEF Written
<1>2. FileOf(spa, uri) \in Paths \cup Uris
  BY FilesAssumption DEF FileOf
<1>3. CASE h.tag = Garbled.tag /\ h.date = Garbled.date
  BY <1>3 DEF Heads
<1>4. CASE ~(h.tag = Garbled.tag /\ h.date = Garbled.date)
  <2>1. /\ h.tag[1] = Time(h) /\ Time(h) \in Times /\ NotBefore(clock, Time(h))
        /\ card[FileOf(spa, uri)].kind = "file" =>
              /\ NotBefore(mtime(card[FileOf(spa, uri)]), Time(h))
              /\ mtime(card[FileOf(spa, uri)]) = Time(h) => same
    BY <1>4 DEF Heads
  <2>2. NotBefore(clock', Time(h)) /\ clock' # Time(h)
    BY <1>1, <2>1, Later
  <2>3. CASE FileOf(spa, uri) = path
    BY <1>1, <2>1, <2>2, <2>3 DEF Heads
  <2>4. CASE FileOf(spa, uri) # path
    <3>1. card'[FileOf(spa, uri)] = card[FileOf(spa, uri)]
      BY <1>1, <1>2, <2>4
    <3> QED BY <2>1, <2>2, <2>4, <3>1 DEF Heads
  <2> QED BY <2>3, <2>4
<1> QED BY <1>3, <1>4

LEMMA RemoveStep ==
    ASSUME Written, NEW path \in Paths, Remove(path)
    PROVE  /\ Written' /\ clock' = clock
           /\ \A p \in Paths \cup Uris : card'[p].kind = "file" => card'[p] = card[p]
<1>1. card' = [card EXCEPT ![path] = Nothing] /\ clock' = clock
  BY DEF Remove
<1>2. \A p \in Paths \cup Uris : card'[p] = card[p] \/ card'[p] = Nothing
  BY <1>1 DEF Written
<1>3. card' = [p \in Paths \cup Uris |-> card'[p]]
  BY <1>1 DEF Written
<1> QED BY <1>1, <1>2, <1>3 DEF Written, IsFile, Nothing

\* The headers of an answer are those of what stat saw (send_sd_file).
LEMMA HeadersSet ==
    ASSUME OneFile, Written, Requested, SetHeaders
    PROVE  Requested'
<1>1. /\ request.uri \in Uris /\ request'.pc = "open" /\ request'.uri = request.uri
      /\ request'.tag = <<mtime(Stated), Stated.size>> /\ request'.date = Stated.date
      /\ Served(request)' = Served(request) /\ card' = card /\ clock' = clock /\ spa' = spa
      /\ Stated.kind # "nothing"
  BY DEF SetHeaders, Modified, Stating, Requested, build_weak_etag, Served
<1>2. request'.tag[1] = mtime(Stated) /\ Time(request') = portable_timegm(Stated.date)
  BY <1>1 DEF Time
<1>3. Heads(spa, card, clock, request.uri, request', Served(request) = FileOf(spa, request.uri))
  <2>1. CASE Stated.kind = "file"
    <3>1. Served(request) = FileOf(spa, request.uri) /\ Served(request) \in Paths \cup Uris /\ IsFile(Served(request))
      BY <1>1, <2>1, Leads
    <3>2. /\ portable_timegm(Stated.date) = mtime(Stated) /\ mtime(Stated) \in Times
          /\ NotBefore(clock, mtime(Stated))
      BY <3>1, FileTimes DEF Stated, Time
    <3>3. NotBefore(mtime(Stated), mtime(Stated))
      BY <3>2, Order
    <3> QED BY <1>2, <3>1, <3>2, <3>3 DEF Heads, Stated
  <2>2. CASE Stated.kind = "dir"
    <3>1. Stated = Directory /\ FileOf(spa, request.uri) \in Paths \cup Uris
      BY <1>1, <2>2, Leads
    <3>2. /\ request'.tag[1] = Epoch /\ Time(request') = Epoch /\ Epoch \in Times
          /\ NotBefore(clock, Epoch)
      BY <1>2, <3>1, DirectoryTold DEF Written
    <3>3. ASSUME card[FileOf(spa, request.uri)].kind = "file"
          PROVE  /\ NotBefore(mtime(card[FileOf(spa, request.uri)]), Epoch)
                 /\ mtime(card[FileOf(spa, request.uri)]) # Epoch
      <4> DEFINE t == mtime(card[FileOf(spa, request.uri)])
      <4>1. t \in Times /\ ~NotBefore(Epoch, t)
        BY <3>1, <3>3, FileTimes DEF IsFile
      <4> HIDE DEF t
      <4>2. NotBefore(t, Epoch) /\ t # Epoch
        BY <3>2, <4>1, Order
      <4> QED BY <4>2 DEF t
    <3> QED BY <3>2, <3>3 DEF Heads
  <2> QED BY <1>1, <2>1, <2>2, Leads
<1> QED BY <1>1, <1>3 DEF Requested

\* A copy is stored under the headers of the answer.
LEMMA Stores ==
    ASSUME Copied, Requested, request.pc = "open", NEW kind, NEW headers, NEW body,
           Store(kind, headers, body), UNCHANGED <<spa, card, clock>>,
           Heads(spa, card, clock, request.uri, headers,
                 kind = "page" /\ body = card[FileOf(spa, request.uri)].body)
    PROVE  Copied'
<1> DEFINE copy == [kind |-> kind, tag |-> headers.tag, date |-> headers.date, body |-> body]
<1>1. request.uri \in Uris /\ copies' = [copies EXCEPT ![request.uri] = copy]
  BY DEF Requested, Store
<1>2. /\ copies' = [u \in Uris |-> copies'[u]]
      /\ copies'[request.uri] = copy /\ \A u \in Uris : u # request.uri => copies'[u] = copies[u]
  BY <1>1 DEF Copied
<1>3. copy.kind = kind /\ copy.tag = headers.tag /\ copy.date = headers.date /\ copy.body = body
  OBVIOUS
<1> HIDE DEF copy
<1>4. Heads(spa, card, clock, request.uri, copy, Current(spa, card, request.uri, copy))
  BY <1>3 DEF Heads, Time, Current
<1> QED BY <1>2, <1>4 DEF Copied

LEMMA BodySent ==
    ASSUME OneFile, Written, Copied, Requested, SendBody
    PROVE  Copied'
<1>1. /\ request.pc = "open" /\ request.uri \in Uris /\ Stated.kind = "file"
      /\ Store("page", request, Stated.body) /\ UNCHANGED <<spa, card, clock>>
  BY DEF SendBody, Requested
<1>2. Served(request) = FileOf(spa, request.uri)
  BY <1>1, Leads
<1>3. Heads(spa, card, clock, request.uri, request,
            "page" = "page" /\ Stated.body = card[FileOf(spa, request.uri)].body)
  BY <1>1, <1>2 DEF Requested, Heads, Stated
<1> QED BY <1>1, <1>3, Stores

LEMMA PageOf404 ==
    ASSUME ~OpenErrors, OneFile, Written, Copied, Requested, OpenFails
    PROVE  Copied'
<1>1. /\ request.pc = "open" /\ request.uri \in Uris /\ Stated.kind # "file"
      /\ UNCHANGED <<spa, card, clock>>
  BY DEF OpenFails, Requested
<1>2. PICK headers \in {request, Garbled} : Store("404", headers, 0)
  BY DEF OpenFails
<1>3. Heads(spa, card, clock, request.uri, headers,
            "404" = "page" /\ 0 = card[FileOf(spa, request.uri)].body)
  <2>1. CASE headers = Garbled
    BY <2>1 DEF Heads
  <2>2. CASE headers = request
    <3>1. Served(request) = FileOf(spa, request.uri) => card[FileOf(spa, request.uri)].kind # "file"
      BY <1>1 DEF Stated
    <3> QED BY <1>1, <2>2, <3>1 DEF Requested, Heads
  <2> QED BY <1>2, <2>1, <2>2
<1> QED BY <1>1, <1>2, <1>3, Stores

LEMMA FilesStep ==
    ASSUME ~Backwards, ~OpenErrors, OneFile,
           Written, Copied, Requested, [Next]_vars
    PROVE  OneFile' /\ Written' /\ Copied' /\ Requested'
<1>0. spa' = spa
  BY DEF Next, vars, Ask, Write, Remove, NotThere, NotModified, HeadersOnly, SetHeaders, SendBody,
     OpenFails, ClientGone
<1> SUFFICES Written' /\ Copied' /\ Requested'
  BY <1>0 DEF OneFile
<1>1. ASSUME UNCHANGED <<spa, card, clock>> PROVE Written'
  BY <1>1 DEF Written, IsFile
<1>2. ASSUME UNCHANGED <<spa, card, clock, copies>> PROVE Copied'
  BY <1>2 DEF Copied
<1>3. ASSUME Answered PROVE Requested'
  BY <1>3 DEF Answered, NoRequest, Requested
<1>4. CASE UNCHANGED vars
  <2>1. Requested'
    BY <1>4 DEF vars, Requested, Served
  <2> QED BY <1>1, <1>2, <1>4, <2>1 DEF vars
<1>5. ASSUME NEW u \in Uris, NEW method, NEW html, NEW tagged, NEW dated,
             Ask(u, method, html, tagged, dated)
      PROVE  Written' /\ Copied' /\ Requested'
  <2>1. Requested'
    BY <1>5 DEF Ask, Requested
  <2> QED BY <1>1, <1>2, <1>5, <2>1 DEF Ask
<1>6. ASSUME NEW p \in Paths, NEW date \in Dates, NEW size \in Sizes, Write(p, date, size)
      PROVE  Written' /\ Copied' /\ Requested'
  <2>1. /\ Written' /\ \A q \in Paths \cup Uris : q # p => card'[q] = card[q]
        /\ copies' = copies /\ request' = request /\ spa' = spa
    BY <1>6, WriteStep DEF Write
  <2>2. \A u \in Uris : FileOf(spa, u) \in Paths \cup Uris
    BY FilesAssumption DEF FileOf
  <2>3. ASSUME NEW u \in Uris, Has(copies[u])
        PROVE  Heads(spa, card', clock', u, copies[u], Current(spa, card', u, copies[u]))
    <3>1. Heads(spa, card, clock, u, copies[u], Current(spa, card, u, copies[u]))
      BY <2>3 DEF Copied
    <3>2. FileOf(spa, u) # p => (Current(spa, card, u, copies[u]) => Current(spa, card', u, copies[u]))
      BY <2>1, <2>2 DEF Current
    <3> QED BY <1>6, <3>1, <3>2, HeadsWritten
  <2>4. ASSUME request.pc = "open"
        PROVE  Heads(spa, card', clock', request.uri, request, Served(request) = FileOf(spa, request.uri))
    BY <1>6, <2>4, HeadsWritten DEF Requested
  <2> QED BY <2>1, <2>3, <2>4 DEF Copied, Requested, Served
<1>7. ASSUME NEW p \in Paths, Remove(p) PROVE Written' /\ Copied' /\ Requested'
  <2>1. /\ Written' /\ clock' = clock
        /\ \A q \in Paths \cup Uris : card'[q].kind = "file" => card'[q] = card[q]
        /\ copies' = copies /\ request' = request /\ spa' = spa
    BY <1>7, RemoveStep DEF Remove
  <2>2. ASSUME NEW u \in Uris, NEW h, NEW same, NEW same2, Heads(spa, card, clock, u, h, same),
               card'[FileOf(spa, u)] = card[FileOf(spa, u)] => (same => same2)
        PROVE  Heads(spa, card', clock, u, h, same2)
    <3>1. FileOf(spa, u) \in Paths \cup Uris
      BY FilesAssumption DEF FileOf
    <3> QED BY <2>1, <2>2, <3>1 DEF Heads
  <2>3. ASSUME NEW u \in Uris, Has(copies[u])
        PROVE  Heads(spa, card', clock, u, copies[u], Current(spa, card', u, copies[u]))
    BY <2>2, <2>3 DEF Copied, Current
  <2>4. ASSUME request.pc = "open"
        PROVE  Heads(spa, card', clock, request.uri, request, Served(request) = FileOf(spa, request.uri))
    BY <2>2, <2>4 DEF Requested
  <2> QED BY <2>1, <2>3, <2>4 DEF Copied, Requested, Served
<1>8. CASE NotThere
  <2>1. /\ request.uri \in Uris /\ copies' = [copies EXCEPT ![request.uri] = NoCopy]
        /\ UNCHANGED <<spa, card, clock>> /\ Answered
    BY <1>8 DEF NotThere, Stating, Requested
  <2>2. /\ copies' = [u \in Uris |-> copies'[u]]
        /\ \A u \in Uris : Has(copies'[u]) => copies'[u] = copies[u]
    BY <2>1 DEF Copied, Has, NoCopy
  <2> QED BY <1>1, <1>3, <2>1, <2>2 DEF Copied
<1>9. CASE NotModified \/ HeadersOnly \/ ClientGone
  BY <1>1, <1>2, <1>3, <1>9 DEF NotModified, HeadersOnly, ClientGone
<1>10. CASE SetHeaders
  BY <1>1, <1>2, <1>10, HeadersSet DEF SetHeaders
<1>11. CASE SendBody
  BY <1>1, <1>3, <1>11, BodySent DEF SendBody
<1>12. CASE OpenFails
  BY <1>1, <1>3, <1>12, PageOf404 DEF OpenFails
<1> QED BY <1>4, <1>5, <1>6, <1>7, <1>8, <1>9, <1>10, <1>11, <1>12 DEF Next

LEMMA FilesInit == Init => Written /\ Copied /\ Requested
<1> SUFFICES ASSUME Init PROVE Written /\ Copied /\ Requested
  OBVIOUS
<1>1. Written
  <2>1. NotBefore(Epoch, Epoch) /\ Epoch \in Times
    BY DirectoryTold, Order
  <2> QED BY <2>1 DEF Init, Written, Epoch
<1>2. Copied
  BY DEF Init, Copied, Has, NoCopy
<1> QED BY <1>1, <1>2 DEF Init, Requested, NoRequest
-----------------------------------------------------------------------------
\* A date that the file system can store comes back from the header it was sent in,
\* whichever years from 1970 to 2107 files are dated with: days_from_civil counts the
\* days as the calendar does (Runtime-handlers.c:198).
THEOREM DatesAreTold == Spec => []DatesComeBack
<1>1. DatesComeBack
  BY Agreed DEF DatesComeBack
<1> QED BY <1>1, PTL

\* A client that is told "304 Not Modified" has the page that is on the card, also
\* when files are replaced or removed between stat and fopen, and whichever headers
\* a 404 page went out with (Runtime-handlers.c:294, 393).  TLC refutes it when files
\* come back with earlier dates, cannot be opened, or when, in a build that answers
\* uris without an extension with index.html, a file has such a uri as well.
THEOREM ValidatedCopiesAreCurrent ==
    ASSUME ~Backwards, ~OpenErrors PROVE Spec /\ OneFile => ValidatedIsCurrent
<1>1. ASSUME OneFile, Written, Copied, Requested, NotModified, Stated.kind = "file"
      PROVE  copies[request.uri].kind = "page" /\ copies[request.uri].body = Stated.body
  <2> DEFINE copy == copies[request.uri]
             t == mtime(Stated)
  <2>1. request.uri \in Uris /\ Has(copy) /\ Unmodified(Stated, copy)
    BY <1>1 DEF NotModified, Stating, Requested
  <2>2. /\ Served(request) = FileOf(spa, request.uri) /\ IsFile(Served(request))
        /\ Served(request) \in Paths \cup Uris
    BY <1>1, <2>1, Leads
  <2>3. t \in Times
    BY <1>1, <2>2, FileTimes DEF Stated
  <2>4. Heads(spa, card, clock, request.uri, copy, Current(spa, card, request.uri, copy))
    BY <1>1, <2>1 DEF Copied
  <2>5. (copy.tag = <<t, Stated.size>>) \/ (copy.date # Garbled.date /\ NotBefore(Time(copy), t))
    BY <2>1 DEF Unmodified, build_weak_etag, Time
  <2>6. copy.tag = <<t, Stated.size>> => copy.tag # Garbled.tag /\ copy.tag[1] = t
    BY DEF Garbled
  <2> HIDE DEF copy
  <2>7. /\ copy.tag[1] = Time(copy) /\ Time(copy) \in Times
        /\ NotBefore(t, Time(copy)) /\ (t = Time(copy) => Current(spa, card, request.uri, copy))
    BY <2>2, <2>4, <2>5, <2>6 DEF Heads, IsFile, Stated
  <2> HIDE DEF t
  <2>8. t = Time(copy)
    BY <2>3, <2>5, <2>6, <2>7, Order
  <2> QED BY <2>2, <2>7, <2>8 DEF Current, Stated, copy
<1>2. OneFile /\ Written /\ Copied /\ Requested /\ [Next]_vars =>
          [NotModified /\ Stated.kind = "file" =>
              /\ copies[request.uri].kind = "page"
              /\ copies[request.uri].body = Stated.body]_vars
  BY <1>1
<1> QED BY <1>2, FilesInit, FilesStep, PTL DEF Spec, ValidatedIsCurrent
=============================================================================
