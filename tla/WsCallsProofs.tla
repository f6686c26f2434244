--------------------------- MODULE WsCallsProofs ---------------------------
(***************************************************************************)
(* Proofs about WsCalls, for every limit of messages in flight, every size *)
(* of the server's queue, every page and every number of connections.      *)
(***************************************************************************)
EXTENDS WsCalls, FiniteSetTheorems, SequenceTheorems, TLAPS

-----------------------------------------------------------------------------
(* Sequences of ids.                                                       *)

Increasing(q) == \A i, j \in 1 .. Len(q) : i < j => q[i] < q[j]
\* Every id of q is less than every one of r.
Before(q, r) == \A a \in ToSet(q), b \in ToSet(r) : a < b

LEMMA Members ==
    ASSUME NEW S, NEW q \in Seq(S)
    PROVE  /\ ToSet(q) \subseteq S
           /\ \A a : a \in ToSet(q) <=> \E i \in 1 .. Len(q) : q[i] = a
           /\ q = << >> <=> ToSet(q) = {}
<1>1. DOMAIN q = 1 .. Len(q) /\ Len(q) \in Nat /\ \A i \in 1 .. Len(q) : q[i] \in S
  BY LenProperties, ElementOfSeq
<1>2. q # << >> => 1 \in 1 .. Len(q)
  BY <1>1, EmptySeq
<1>3. q = << >> <=> Len(q) = 0
  BY EmptySeq
<1>4. \A a : a \in ToSet(q) <=> \E i \in 1 .. Len(q) : q[i] = a
  BY <1>1 DEF ToSet
<1>5. ToSet(q) \subseteq S
  BY <1>1, <1>4
<1>6. CASE q = << >>
  BY <1>3, <1>4, <1>5, <1>6
<1>7. CASE q # << >>
  BY <1>2, <1>4, <1>5, <1>7
<1> QED BY <1>6, <1>7

LEMMA Appended ==
    ASSUME NEW S, NEW q \in Seq(S), NEW a \in S
    PROVE  /\ Append(q, a) \in Seq(S)
           /\ ToSet(Append(q, a)) = ToSet(q) \cup {a}
           /\ Len(Append(q, a)) = Len(q) + 1
<1>1. /\ Append(q, a) \in Seq(S) /\ Len(Append(q, a)) = Len(q) + 1 /\ Len(q) \in Nat
      /\ \A i \in 1 .. Len(q) : Append(q, a)[i] = q[i]
      /\ Append(q, a)[Len(q) + 1] = a
  BY AppendProperties, LenProperties
<1> DEFINE r == Append(q, a)
<1> HIDE DEF r
<1>2. \A i \in 1 .. Len(q) + 1 : i \in 1 .. Len(q) \/ i = Len(q) + 1
  BY <1>1
<1>3. 1 .. Len(q) \subseteq 1 .. Len(q) + 1 /\ Len(q) + 1 \in 1 .. Len(q) + 1
  BY <1>1
<1>4. ASSUME NEW b PROVE b \in ToSet(r) <=> b \in ToSet(q) \cup {a}
  <2>1. b \in ToSet(r) <=> \E i \in 1 .. Len(q) + 1 : r[i] = b
    BY <1>1, Members DEF r
  <2>2. b \in ToSet(q) <=> \E i \in 1 .. Len(q) : q[i] = b
    BY Members
  <2> QED BY <1>1, <1>2, <1>3, <2>1, <2>2 DEF r
<1> QED BY <1>1, <1>4 DEF r

LEMMA AppendedIncreasing ==
    ASSUME NEW q \in Seq(Nat), NEW a \in Nat, Increasing(q), \A b \in ToSet(q) : b < a
    PROVE  Increasing(Append(q, a))
<1>1. /\ Len(Append(q, a)) = Len(q) + 1 /\ Len(q) \in Nat
      /\ \A i \in 1 .. Len(q) : Append(q, a)[i] = q[i] /\ q[i] \in ToSet(q)
      /\ Append(q, a)[Len(q) + 1] = a
  BY AppendProperties, LenProperties, Members
<1> DEFINE r == Append(q, a)
<1> HIDE DEF r
<1>2. \A i, j \in 1 .. Len(q) + 1 : i < j => i \in 1 .. Len(q) /\ (j \in 1 .. Len(q) \/ j = Len(q) + 1)
  BY <1>1
<1> QED BY <1>1, <1>2 DEF r, Increasing

LEMMA Shifted ==
    ASSUME NEW S, NEW q \in Seq(S), q # << >>
    PROVE  /\ Head(q) \in ToSet(q) /\ Tail(q) \in Seq(S) /\ ToSet(Tail(q)) \subseteq ToSet(q)
           /\ Len(Tail(q)) = Len(q) - 1
<1>1. /\ Head(q) = q[1] /\ Tail(q) \in Seq(S) /\ Len(Tail(q)) = Len(q) - 1 /\ Len(q) \in Nat \ {0}
      /\ \A i \in 1 .. Len(q) - 1 : Tail(q)[i] = q[i + 1]
  BY HeadTailProperties, EmptySeq
<1> DEFINE r == Tail(q)
<1> HIDE DEF r
<1>2. ASSUME NEW a \in ToSet(r) PROVE a \in ToSet(q)
  <2>1. PICK i \in 1 .. Len(q) - 1 : r[i] = a
    BY <1>1, <1>2, Members DEF r
  <2>2. i + 1 \in 1 .. Len(q) /\ q[i + 1] = a
    BY <1>1, <2>1 DEF r
  <2> QED BY <2>2, Members
<1>3. Head(q) \in ToSet(q)
  BY <1>1, Members
<1> QED BY <1>1, <1>2, <1>3 DEF r

LEMMA ShiftedIncreasing ==
    ASSUME NEW q \in Seq(Nat), q # << >>, Increasing(q)
    PROVE  Increasing(Tail(q)) /\ \A b \in ToSet(Tail(q)) : Head(q) < b
<1>1. /\ Head(q) = q[1] /\ Tail(q) \in Seq(Nat) /\ Len(Tail(q)) = Len(q) - 1 /\ Len(q) \in Nat \ {0}
      /\ \A i \in 1 .. Len(q) - 1 : Tail(q)[i] = q[i + 1]
  BY HeadTailProperties, EmptySeq
<1> DEFINE r == Tail(q)
<1> HIDE DEF r
<1>2. \A i \in 1 .. Len(q) - 1 : i + 1 \in 1 .. Len(q) /\ 1 < i + 1 /\ 1 \in 1 .. Len(q)
  BY <1>1
<1>3. Increasing(r)
  <2> SUFFICES ASSUME NEW i \in 1 .. Len(r), NEW j \in 1 .. Len(r), i < j PROVE r[i] < r[j]
    BY DEF Increasing
  <2>1. i + 1 \in 1 .. Len(q) /\ j + 1 \in 1 .. Len(q) /\ i + 1 < j + 1 /\ r[i] = q[i + 1] /\ r[j] = q[j + 1]
    BY <1>1, <1>2 DEF r
  <2> QED BY <2>1 DEF Increasing
<1>4. ASSUME NEW b \in ToSet(r) PROVE Head(q) < b
  <2>1. PICK i \in 1 .. Len(q) - 1 : r[i] = b
    BY <1>1, <1>4, Members DEF r
  <2>2. i + 1 \in 1 .. Len(q) /\ 1 < i + 1 /\ 1 \in 1 .. Len(q) /\ q[i + 1] = b
    BY <1>1, <1>2, <2>1 DEF r
  <2> QED BY <1>1, <2>2 DEF Increasing
<1> QED BY <1>3, <1>4 DEF r

LEMMA Joined ==
    ASSUME NEW S, NEW q \in Seq(S), NEW r \in Seq(S)
    PROVE  /\ q \o r \in Seq(S) /\ ToSet(q \o r) = ToSet(q) \cup ToSet(r)
           /\ Len(q \o r) = Len(q) + Len(r)
<1> DEFINE s == q \o r
<1>1. /\ s \in Seq(S) /\ Len(s) = Len(q) + Len(r) /\ Len(q) \in Nat /\ Len(r) \in Nat
      /\ \A i \in 1 .. Len(q) + Len(r) : s[i] = IF i <= Len(q) THEN q[i] ELSE r[i - Len(q)]
  BY ConcatProperties, LenProperties
<1> HIDE DEF s
<1>2. ASSUME NEW a \in ToSet(s) PROVE a \in ToSet(q) \cup ToSet(r)
  <2>1. PICK i \in 1 .. Len(q) + Len(r) : s[i] = a
    BY <1>1, <1>2, Members
  <2>2. CASE i <= Len(q)
    BY <1>1, <2>1, <2>2, Members
  <2>3. CASE ~(i <= Len(q))
    <3>1. i - Len(q) \in 1 .. Len(r) /\ r[i - Len(q)] = a
      BY <1>1, <2>1, <2>3
    <3> QED BY <3>1, Members
  <2> QED BY <2>2, <2>3
<1>3. ASSUME NEW a \in ToSet(q) PROVE a \in ToSet(s)
  <2>1. PICK i \in 1 .. Len(q) : q[i] = a
    BY <1>3, Members
  <2>2. i \in 1 .. Len(s) /\ s[i] = a
    BY <1>1, <2>1
  <2> QED BY <1>1, <2>2, Members
<1>4. ASSUME NEW a \in ToSet(r) PROVE a \in ToSet(s)
  <2>1. PICK i \in 1 .. Len(r) : r[i] = a
    BY <1>4, Members
  <2>2. i + Len(q) \in 1 .. Len(s) /\ ~(i + Len(q) <= Len(q)) /\ (i + Len(q)) - Len(q) = i
    BY <1>1, <2>1
  <2>3. s[i + Len(q)] = a
    BY <1>1, <2>1, <2>2
  <2> QED BY <1>1, <2>2, <2>3, Members
<1> QED BY <1>1, <1>2, <1>3, <1>4 DEF s

LEMMA JoinedIncreasing ==
    ASSUME NEW q \in Seq(Nat), NEW r \in Seq(Nat), Increasing(q), Increasing(r), Before(q, r)
    PROVE  Increasing(q \o r)
<1> DEFINE s == q \o r
<1>1. /\ s \in Seq(Nat) /\ Len(s) = Len(q) + Len(r) /\ Len(q) \in Nat /\ Len(r) \in Nat
      /\ \A i \in 1 .. Len(q) + Len(r) : s[i] = IF i <= Len(q) THEN q[i] ELSE r[i - Len(q)]
  BY ConcatProperties, LenProperties
<1>2. (\A i \in 1 .. Len(q) : q[i] \in ToSet(q)) /\ (\A i \in 1 .. Len(r) : r[i] \in ToSet(r))
  BY Members
<1> HIDE DEF s
<1> SUFFICES ASSUME NEW i \in 1 .. Len(s), NEW j \in 1 .. Len(s), i < j PROVE s[i] < s[j]
  BY DEF s, Increasing
<1>3. CASE j <= Len(q)
  <2>1. i \in 1 .. Len(q) /\ j \in 1 .. Len(q) /\ s[i] = q[i] /\ s[j] = q[j]
    BY <1>1, <1>3
  <2> QED BY <2>1 DEF Increasing
<1>4. CASE i <= Len(q) /\ ~(j <= Len(q))
  <2>1. i \in 1 .. Len(q) /\ j - Len(q) \in 1 .. Len(r) /\ s[i] = q[i] /\ s[j] = r[j - Len(q)]
    BY <1>1, <1>4
  <2> QED BY <1>2, <2>1 DEF Before
<1>5. CASE ~(i <= Len(q)) /\ ~(j <= Len(q))
  <2>1. /\ i - Len(q) \in 1 .. Len(r) /\ j - Len(q) \in 1 .. Len(r) /\ i - Len(q) < j - Len(q)
        /\ s[i] = r[i - Len(q)] /\ s[j] = r[j - Len(q)]
    BY <1>1, <1>5, SMTT(60)
  <2> QED BY <2>1 DEF Increasing
<1> QED BY <1>1, <1>3, <1>4, <1>5

\* A queue cut in two: its first k ids and the others.
LEMMA Cut ==
    ASSUME NEW q \in Seq(Nat), NEW k \in 0 .. Len(q), Increasing(q)
    PROVE  LET f == SubSeq(q, 1, k)
               r == SubSeq(q, k + 1, Len(q))
           IN  /\ f \in Seq(Nat) /\ r \in Seq(Nat) /\ Len(f) = k /\ Len(r) = Len(q) - k
               /\ ToSet(q) = ToSet(f) \cup ToSet(r)
               /\ Increasing(f) /\ Increasing(r) /\ Before(f, r)
<1> DEFINE f == SubSeq(q, 1, k)
           r == SubSeq(q, k + 1, Len(q))
           n == Len(q)
<1>1. n \in Nat /\ k \in Nat /\ k <= n /\ \A i \in 1 .. n : q[i] \in Nat
  BY LenProperties, ElementOfSeq
<1>2. /\ f \in Seq(Nat) /\ Len(f) = k
      /\ \A i \in 1 .. k : f[i] = q[i]
  <2>1. \A i \in 1 .. k : q[i] \in Nat
    BY <1>1
  <2>2. /\ f \in Seq(Nat) /\ Len(f) = IF 1 <= k THEN k - 1 + 1 ELSE 0
        /\ \A i \in 1 .. k - 1 + 1 : f[i] = q[1 + i - 1]
    BY <1>1, <2>1, SubSeqProperties
  <2> HIDE DEF f
  <2> QED BY <1>1, <2>2
<1>3. /\ r \in Seq(Nat) /\ Len(r) = n - k
      /\ \A i \in 1 .. n - k : r[i] = q[k + i]
  <2>1. \A i \in k + 1 .. n : q[i] \in Nat
    BY <1>1
  <2>2. /\ r \in Seq(Nat) /\ Len(r) = IF k + 1 <= n THEN n - (k + 1) + 1 ELSE 0
        /\ \A i \in 1 .. n - (k + 1) + 1 : r[i] = q[(k + 1) + i - 1]
    BY <1>1, <2>1, SubSeqProperties
  <2> HIDE DEF r
  <2> QED BY <1>1, <2>2
<1> HIDE DEF f, r, n
<1>4. ASSUME NEW a PROVE a \in ToSet(q) <=> a \in ToSet(f) \cup ToSet(r)
  <2>1. ASSUME NEW i \in 1 .. n, q[i] = a PROVE a \in ToSet(f) \cup ToSet(r)
    <3>1. CASE i <= k
      <4>1. i \in 1 .. k /\ f[i] = a
        BY <1>1, <1>2, <2>1, <3>1
      <4> QED BY <1>2, <4>1, Members
    <3>2. CASE ~(i <= k)
      <4>1. i - k \in 1 .. n - k /\ r[i - k] = a
        BY <1>1, <1>3, <2>1, <3>2
      <4> QED BY <1>3, <4>1, Members
    <3> QED BY <3>1, <3>2
  <2>2. ASSUME NEW i \in 1 .. k, f[i] = a PROVE a \in ToSet(q)
    <3>1. i \in 1 .. n /\ q[i] = a
      BY <1>1, <1>2, <2>2
    <3> QED BY <3>1, Members DEF n
  <2>3. ASSUME NEW i \in 1 .. n - k, r[i] = a PROVE a \in ToSet(q)
    <3>1. k + i \in 1 .. n /\ q[k + i] = a
      BY <1>1, <1>3, <2>3
    <3> QED BY <3>1, Members DEF n
  <2> QED BY <1>2, <1>3, <2>1, <2>2, <2>3, Members DEF n
<1>5. Increasing(f)
  <2> SUFFICES ASSUME NEW i \in 1 .. k, NEW j \in 1 .. k, i < j PROVE f[i] < f[j]
    BY <1>2 DEF Increasing
  <2>1. i \in 1 .. n /\ j \in 1 .. n /\ f[i] = q[i] /\ f[j] = q[j]
    BY <1>1, <1>2
  <2> QED BY <2>1 DEF Increasing, n
<1>6. Increasing(r)
  <2> SUFFICES ASSUME NEW i \in 1 .. n - k, NEW j \in 1 .. n - k, i < j PROVE r[i] < r[j]
    BY <1>3 DEF Increasing
  <2>1. k + i \in 1 .. n /\ k + j \in 1 .. n /\ k + i < k + j /\ r[i] = q[k + i] /\ r[j] = q[k + j]
    BY <1>1, <1>3
  <2> QED BY <2>1 DEF Increasing, n
<1>7. Before(f, r)
  <2> SUFFICES ASSUME NEW a \in ToSet(f), NEW b \in ToSet(r) PROVE a < b
    BY DEF Before
  <2>1. PICK i \in 1 .. k : f[i] = a
    BY <1>2, Members
  <2>2. PICK j \in 1 .. n - k : r[j] = b
    BY <1>3, Members
  <2>3. i \in 1 .. n /\ k + j \in 1 .. n /\ i < k + j
    BY <1>1, <2>1, <2>2
  <2>4. q[i] = a /\ q[k + j] = b
    BY <1>2, <1>3, <2>1, <2>2
  <2> QED BY <2>3, <2>4 DEF Increasing, n
<1> QED BY <1>2, <1>3, <1>4, <1>5, <1>6, <1>7 DEF f, r, n

\* As many ids as places, where none stands twice.
LEMMA Counted ==
    ASSUME NEW q \in Seq(Nat), Increasing(q)
    PROVE  IsFiniteSet(ToSet(q)) /\ Cardinality(ToSet(q)) = Len(q)
<1>1. Len(q) \in Nat /\ DOMAIN q = 1 .. Len(q) /\ q \in [1 .. Len(q) -> ToSet(q)]
  BY LenProperties DEF ToSet
<1>2. \A i, j \in 1 .. Len(q) : q[i] = q[j] => i = j
  <2> SUFFICES ASSUME NEW i \in 1 .. Len(q), NEW j \in 1 .. Len(q), i < j \/ j < i PROVE q[i] # q[j]
    BY <1>1
  <2>1. q[i] \in Nat /\ q[j] \in Nat
    BY ElementOfSeq
  <2> QED BY <2>1 DEF Increasing
<1>3. \A a \in ToSet(q) : \E i \in 1 .. Len(q) : q[i] = a
  BY Members
<1>4. q \in Bijection(1 .. Len(q), ToSet(q))
  BY <1>1, <1>2, <1>3 DEF Bijection, Injection, Surjection, IsInjective
<1>5. ExistsBijection(1 .. Len(q), ToSet(q))
  BY <1>4 DEF ExistsBijection
<1>6. IsFiniteSet(1 .. Len(q)) /\ Cardinality(1 .. Len(q)) = Len(q)
  BY <1>1, FS_Interval
<1> QED BY <1>5, <1>6, FS_Bijection

-----------------------------------------------------------------------------
(* The accounts of the client: q waits, p is pending, a of it acknowledged, s   *)
(* is settled, n messages are in flight, and m were made.                       *)

Accounts(q, n, p, a, s, m) ==
    /\ q \in Seq(Nat) /\ Increasing(q)
    /\ ToSet(q) \cap p = {} /\ (ToSet(q) \cup p) \cap s = {}
    /\ ToSet(q) \cup p \cup s = 0 .. m - 1
    /\ a \subseteq p /\ n = Cardinality(p \ a)

LEMMA PendingIsFinite ==
    ASSUME NEW q, NEW n, NEW p, NEW a, NEW s, NEW m \in Nat, Accounts(q, n, p, a, s, m)
    PROVE  IsFiniteSet(p) /\ IsFiniteSet(p \ a) /\ n \in Nat
<1>1. IsFiniteSet(0 .. m - 1) /\ p \subseteq 0 .. m - 1
  BY FS_Interval DEF Accounts
<1>2. IsFiniteSet(p)
  BY <1>1, FS_Subset
<1>3. IsFiniteSet(p \ a)
  BY <1>2, FS_Subset
<1> QED BY <1>2, <1>3, FS_CardinalityType DEF Accounts

\* _drain moves the first messages of the queue to the pending table and to the
\* connection, as many as there is room for, and keeps the accounts.
LEMMA Drained ==
    ASSUME NEW q, NEW n, NEW p, NEW a, NEW s, NEW m \in Nat,
           Accounts(q, n, p, a, s, m), n <= MaxInFlight, Drain(q, n, p)
    PROVE  /\ Accounts(queue', inFlight', pending', a, s, m)
           /\ inFlight' <= MaxInFlight
           /\ ws' = "open" /\ queue' # << >> => inFlight' = MaxInFlight
           /\ \E f \in Seq(Nat) :
                  /\ ToSet(q) = ToSet(f) \cup ToSet(queue') /\ Increasing(f) /\ Before(f, queue')
                  /\ up' = up \o f /\ pending' = p \cup ToSet(f)
                  /\ ws' # "open" => f = << >> /\ queue' = q
<1>1. q \in Seq(Nat) /\ Increasing(q) /\ Len(q) \in Nat /\ n \in Nat /\ MaxInFlight \in Nat
  BY PendingIsFinite, CallsAssumption, LenProperties DEF Accounts
<1> DEFINE room == IF ws' # "open" THEN 0 ELSE MaxInFlight - n
           k == IF Len(q) < room THEN Len(q) ELSE room
           f == SubSeq(q, 1, k)
           r == SubSeq(q, k + 1, Len(q))
<1>2. /\ k \in 0 .. Len(q) /\ n + k <= MaxInFlight
      /\ ws' = "open" => k = Len(q) \/ n + k = MaxInFlight
      /\ ws' # "open" => k = 0
  BY <1>1
<1>3. queue' = r /\ inFlight' = n + k /\ pending' = p \cup ToSet(f) /\ up' = up \o f
  BY DEF Drain
<1> HIDE DEF room, k
<1>4. /\ f \in Seq(Nat) /\ r \in Seq(Nat) /\ Len(f) = k /\ Len(r) = Len(q) - k
      /\ ToSet(q) = ToSet(f) \cup ToSet(r)
      /\ Increasing(f) /\ Increasing(r) /\ Before(f, r)
  BY <1>1, <1>2, Cut
<1>5. ws' # "open" => f = << >> /\ r = q
  <2>1. ASSUME k = 0 PROVE SubSeq(q, 1, k) = << >> /\ SubSeq(q, k + 1, Len(q)) = q
    BY <1>1, <2>1, SubSeqEmpty, SubSeqFull
  <2> QED BY <1>2, <2>1
<1> HIDE DEF f, r
<1>6. ToSet(f) \cap ToSet(r) = {}
  <2>1. \A b \in ToSet(f) : b \in Nat
    BY <1>4, Members
  <2> QED BY <1>4, <2>1 DEF Before
<1>7. r # << >> => Len(r) > 0
  BY <1>4, EmptySeq
<1>8. IsFiniteSet(ToSet(f)) /\ Cardinality(ToSet(f)) = k
  BY <1>4, Counted
<1>9. n + k = Cardinality((p \cup ToSet(f)) \ a)
  <2>1. (p \cup ToSet(f)) \ a = (p \ a) \cup ToSet(f) /\ (p \ a) \cap ToSet(f) = {}
    BY <1>4 DEF Accounts
  <2>2. IsFiniteSet(p \ a) /\ Cardinality(p \ a) = n
    BY PendingIsFinite DEF Accounts
  <2>3. Cardinality((p \ a) \cup ToSet(f)) = Cardinality(p \ a) + Cardinality(ToSet(f)) - Cardinality({})
    BY <1>8, <2>1, <2>2, FS_Union
  <2>4. Cardinality((p \cup ToSet(f)) \ a) = Cardinality(p \ a) + Cardinality(ToSet(f)) - Cardinality({})
    BY <2>1, <2>3, Zenon
  <2> QED BY <1>1, <1>2, <1>8, <2>2, <2>4, FS_EmptySet
<1>10. Accounts(r, n + k, p \cup ToSet(f), a, s, m)
  BY <1>4, <1>6, <1>9 DEF Accounts
<1>11. ws' = "open" /\ r # << >> => n + k = MaxInFlight
  BY <1>1, <1>2, <1>4, <1>7, SMTT(60)
<1> QED BY <1>2, <1>3, <1>4, <1>5, <1>10, <1>11

\* A message that is made waits.
LEMMA MadeAccounts ==
    ASSUME NEW q, NEW n, NEW p, NEW a, NEW s, NEW m \in Nat, Accounts(q, n, p, a, s, m)
    PROVE  Accounts(Append(q, m), n, p, a, s, m + 1)
<1>1. q \in Seq(Nat) /\ Increasing(q) /\ ToSet(q) \subseteq 0 .. m - 1
  BY DEF Accounts
<1>2. Append(q, m) \in Seq(Nat) /\ ToSet(Append(q, m)) = ToSet(q) \cup {m}
  BY <1>1, Appended
<1>3. Increasing(Append(q, m))
  BY <1>1, AppendedIncreasing
<1>4. 0 .. (m + 1) - 1 = (0 .. m - 1) \cup {m} /\ m \notin 0 .. m - 1
  OBVIOUS
<1> QED BY <1>2, <1>3, <1>4 DEF Accounts

\* A pending message that is settled leaves the table, and the messages in flight
\* unless it was acknowledged.
LEMMA SettledAccounts ==
    ASSUME NEW q, NEW n, NEW p, NEW a, NEW s, NEW m \in Nat, Accounts(q, n, p, a, s, m),
           NEW id \in p
    PROVE  Accounts(q, n - (IF id \in a THEN 0 ELSE 1), p \ {id}, a \ {id}, s \cup {id}, m)
<1>1. IsFiniteSet(p \ a) /\ n = Cardinality(p \ a) /\ n \in Nat
  BY PendingIsFinite DEF Accounts
<1>2. n - (IF id \in a THEN 0 ELSE 1) = Cardinality((p \ {id}) \ (a \ {id}))
  <2>1. CASE id \in a
    <3>1. (p \ {id}) \ (a \ {id}) = p \ a
      BY <2>1 DEF Accounts
    <3> QED BY <1>1, <2>1, <3>1
  <2>2. CASE id \notin a
    <3>1. (p \ {id}) \ (a \ {id}) = (p \ a) \ {id} /\ id \in p \ a
      BY <2>2 DEF Accounts
    <3> QED BY <1>1, <2>2, <3>1, FS_RemoveElement
  <2> QED BY <2>1, <2>2
<1> QED BY <1>2 DEF Accounts

\* One that is acknowledged is in flight no more.
LEMMA AckedAccounts ==
    ASSUME NEW q, NEW n, NEW p, NEW a, NEW s, NEW m \in Nat, Accounts(q, n, p, a, s, m),
           NEW id \in p
    PROVE  Accounts(q, n - (IF id \in a THEN 0 ELSE 1), p, a \cup {id}, s, m)
<1>1. IsFiniteSet(p \ a) /\ n = Cardinality(p \ a) /\ n \in Nat
  BY PendingIsFinite DEF Accounts
<1>2. n - (IF id \in a THEN 0 ELSE 1) = Cardinality(p \ (a \cup {id}))
  <2>1. CASE id \in a
    <3>1. a \cup {id} = a
      BY <2>1
    <3>2. n = Cardinality(p \ (a \cup {id}))
      BY <1>1, <3>1, Zenon
    <3> QED BY <1>1, <2>1, <3>2
  <2>2. CASE id \notin a
    <3>1. p \ (a \cup {id}) = (p \ a) \ {id} /\ id \in p \ a
      BY <2>2
    <3> QED BY <1>1, <2>2, <3>1, FS_RemoveElement
  <2> QED BY <2>1, <2>2
<1> QED BY <1>2 DEF Accounts

\* Everything is rejected, what waits with what is pending.
LEMMA ClearedAccounts ==
    ASSUME NEW q, NEW n, NEW p, NEW a, NEW s, NEW m \in Nat, Accounts(q, n, p, a, s, m)
    PROVE  Accounts(<< >>, 0, {}, {}, s \cup (p \cup ToSet(q)), m)
<1>1. << >> \in Seq(Nat) /\ Len(<< >>) = 0 /\ ToSet(<< >>) = {}
  BY EmptySeq, Members
<1>2. Increasing(<< >>)
  BY <1>1 DEF Increasing
<1>3. Cardinality({} \ {}) = 0
  BY FS_EmptySet
<1> QED BY <1>1, <1>2, <1>3 DEF Accounts

-----------------------------------------------------------------------------
(* The messages that are made.                                             *)

LEMMA SeqOfSet ==
    ASSUME NEW S, IsFiniteSet(S)
    PROVE  SetToSeq(S) \in Seq(S) /\ ToSet(SetToSeq(S)) = S /\ IsInjective(SetToSeq(S))
<1> DEFINE n == Cardinality(S)
           q == SetToSeq(S)
<1>1. n \in Nat /\ \E f \in [1 .. n -> S] : IsInjective(f)
  <2>1. n \in Nat /\ ExistsBijection(1 .. n, S)
    BY FS_CardinalityType
  <2> QED BY <2>1 DEF ExistsBijection, Bijection, Injection
<1>2. q \in [1 .. n -> S] /\ IsInjective(q)
  BY <1>1 DEF SetToSeq
<1>3. IsFiniteSet(1 .. n) /\ Cardinality(1 .. n) = n
  BY <1>1, FS_Interval
<1>4. q \in Surjection(1 .. n, S)
  <2>1. q \in Injection(1 .. n, S)
    BY <1>2 DEF Injection
  <2> QED BY <1>3, <2>1, FS_Injection
<1>5. ToSet(q) = S
  BY <1>2, <1>4 DEF Surjection, ToSet
<1> HIDE DEF n
<1> QED BY <1>1, <1>2, <1>5

\* A sequence is one of the elements it has.
LEMMA SeqOfMembers ==
    ASSUME NEW q \in Seq(Nat), NEW S, ToSet(q) \subseteq S PROVE q \in Seq(S)
<1>1. q \in [1 .. Len(q) -> S] /\ Len(q) \in Nat
  BY LenProperties DEF ToSet
<1> HIDE DEF ToSet
<1> QED BY <1>1

\* The objects of the page and of the client.
ClientTypes ==
    /\ ws \in {"closed", "connecting", "open"}
    /\ msgs \in Seq(Messages) /\ lastId <= MaxId
    /\ subs \in [Subs -> Objects]
    /\ pendingOutSubs \subseteq Ids /\ descriptors \subseteq Subs
    /\ outSubs \in [Sids -> Subs \cup {NoSub}]

\* The messages there are stay, others are added.
Grown ==
    /\ msgs' \in Seq(Messages) /\ lastId \in Nat /\ lastId' \in Nat /\ lastId <= lastId'
    /\ \A id \in 0 .. lastId - 1 : Call(id)' = Call(id)

LEMMA GrownKept == ASSUME ClientTypes, UNCHANGED msgs PROVE Grown /\ lastId' = lastId
  BY LenProperties DEF ClientTypes, Grown, Call, lastId

LEMMA GrownByOne ==
    ASSUME ClientTypes, NEW m \in Messages, msgs' = Append(msgs, m)
    PROVE  Grown /\ lastId' = lastId + 1 /\ \A id : id = lastId => Call(id)' = m
<1>1. /\ msgs' \in Seq(Messages) /\ Len(msgs') = Len(msgs) + 1 /\ Len(msgs) \in Nat
      /\ \A i \in 1 .. Len(msgs) : msgs'[i] = msgs[i]
      /\ msgs'[Len(msgs) + 1] = m
  BY AppendProperties, LenProperties DEF ClientTypes
<1>2. \A id \in 0 .. Len(msgs) - 1 : id + 1 \in 1 .. Len(msgs)
  BY <1>1
<1>3. lastId = Len(msgs) /\ lastId' = Len(msgs')
  BY DEF lastId
<1>4. Grown /\ lastId' = lastId + 1
  BY <1>1, <1>2, <1>3 DEF Grown, Call
<1>5. \A id : id = lastId => Call(id)' = m
  BY <1>1, <1>3 DEF Call
<1> QED BY <1>4, <1>5

\* What _resubscribeAll makes: one message for each object there is to subscribe
\* again, numbered from lastId.
LEMMA Resubscribed ==
    ASSUME ClientTypes, ResubscribeAll
    PROVE  \E again \in Seq(Subs), ids \in Seq(Nat) :
               /\ ToSet(again) = {o \in descriptors : ~subs[o].waiting}
               /\ Len(ids) = Len(again) /\ Increasing(ids)
               /\ lastId' = lastId + Len(again) /\ lastId' <= MaxId /\ Grown
               /\ ToSet(ids) = lastId .. lastId' - 1
               /\ \A i \in 1 .. Len(again) :
                      /\ ids[i] = lastId - 1 + i
                      /\ msgs'[lastId + i] = [type |-> "sub", sub |-> again[i], sid |-> NoSid, again |-> TRUE]
                      /\ subs'[again[i]] = [subs[again[i]] EXCEPT !.id = NoSid, !.reqId = lastId - 1 + i]
               /\ \A o \in Subs : o \notin ToSet(again) =>
                      subs'[o] = IF o \in descriptors THEN [subs[o] EXCEPT !.waiting = FALSE] ELSE subs[o]
               /\ DOMAIN subs' = Subs
               /\ pendingOutSubs' = (pendingOutSubs \ {subs[o].reqId : o \in descriptors}) \cup ToSet(ids)
               /\ Drain(queue \o ids, inFlight, pending)
<1> DEFINE A == {o \in descriptors : ~subs[o].waiting}
           again == SetToSeq(A)
           ids == [i \in DOMAIN again |-> lastId - 1 + i]
           m == [i \in DOMAIN again |-> [type |-> "sub", sub |-> again[i], sid |-> NoSid, again |-> TRUE]]
           n == Len(again)
           idOf(o) == lastId - 1 + CHOOSE i \in DOMAIN again : again[i] = o
<1>1. /\ lastId + n <= MaxId
      /\ pendingOutSubs' = (pendingOutSubs \ {subs[o].reqId : o \in descriptors}) \cup ToSet(ids)
      /\ msgs' = msgs \o m
      /\ Drain(queue \o ids, inFlight, pending)
      /\ subs' = [o \in Subs |->
             CASE o \notin descriptors -> subs[o]
               [] o \in descriptors /\ subs[o].waiting -> [subs[o] EXCEPT !.waiting = FALSE]
               [] OTHER -> [subs[o] EXCEPT !.id = NoSid, !.reqId = idOf(o)]]
  BY DEF ResubscribeAll
<1>2. again \in Seq(Subs) /\ ToSet(again) = A /\ IsInjective(again)
  <2>1. A \subseteq Subs /\ IsFiniteSet(A)
    <3>1. A \subseteq Subs /\ IsFiniteSet(Subs)
      BY CallsAssumption DEF ClientTypes
    <3> QED BY <3>1, FS_Subset
  <2> HIDE DEF A
  <2>2. again \in Seq(A) /\ ToSet(again) = A /\ IsInjective(again)
    BY <2>1, SeqOfSet
  <2> QED BY <2>1, <2>2, SeqMonotonic
<1> HIDE DEF again
<1>3. n \in Nat /\ DOMAIN again = 1 .. n /\ \A i \in 1 .. n : again[i] \in Subs
  BY <1>2, LenProperties, ElementOfSeq
<1> HIDE DEF n
<1>4. lastId \in Nat /\ lastId = Len(msgs)
  BY LenProperties DEF ClientTypes, lastId
<1>5. /\ ids \in Seq(Nat) /\ Len(ids) = n /\ \A i \in 1 .. n : ids[i] = lastId - 1 + i
  BY <1>3, <1>4
<1>6. m \in Seq(Messages) /\ Len(m) = n
      /\ \A i \in 1 .. n : m[i] = [type |-> "sub", sub |-> again[i], sid |-> NoSid, again |-> TRUE]
  <2>1. m \in [1 .. n -> Messages]
    BY <1>3 DEF Messages, NoSid
  <2> QED BY <1>3, <2>1
<1> HIDE DEF ids, m, idOf
<1>7. Increasing(ids)
  BY <1>3, <1>4, <1>5 DEF Increasing
<1>8. lastId' = lastId + n /\ Grown /\ \A i \in 1 .. n : msgs'[lastId + i] = m[i]
  <2>1. /\ msgs' \in Seq(Messages) /\ Len(msgs') = Len(msgs) + n
        /\ \A i \in 1 .. Len(msgs) + n : msgs'[i] = IF i <= Len(msgs) THEN msgs[i] ELSE m[i - Len(msgs)]
    BY <1>1, <1>6, ConcatProperties DEF ClientTypes
  <2>2. lastId' = lastId + n
    BY <1>4, <2>1 DEF lastId
  <2>3. \A id \in 0 .. lastId - 1 : Call(id)' = Call(id)
    BY <1>3, <1>4, <2>1 DEF Call
  <2>4. \A i \in 1 .. n : msgs'[lastId + i] = m[i]
    <3> TAKE i \in 1 .. n
    <3>1. lastId + i \in 1 .. Len(msgs) + n /\ ~(lastId + i <= Len(msgs)) /\ (lastId + i) - Len(msgs) = i
      BY <1>3, <1>4
    <3> QED BY <2>1, <3>1
  <2>5. lastId' \in Nat /\ lastId <= lastId'
    BY <1>3, <1>4, <2>2
  <2>6. Grown
    BY <1>4, <2>1, <2>3, <2>5 DEF Grown
  <2> QED BY <2>2, <2>4, <2>6
<1>9. ToSet(ids) = lastId .. lastId' - 1
  <2>1. \A a : a \in ToSet(ids) <=> \E i \in 1 .. n : lastId - 1 + i = a
    BY <1>5, Members
  <2>2. \A a \in lastId .. lastId' - 1 : a - lastId + 1 \in 1 .. n /\ lastId - 1 + (a - lastId + 1) = a
    BY <1>3, <1>4, <1>8
  <2>3. \A i \in 1 .. n : lastId - 1 + i \in lastId .. lastId' - 1
    BY <1>3, <1>4, <1>8
  <2> QED BY <2>1, <2>2, <2>3, ZenonT(60)
<1>10. \A i \in 1 .. n : idOf(again[i]) = lastId - 1 + i
  <2> TAKE i \in 1 .. n
  <2>1. \A j \in 1 .. n : again[j] = again[i] => j = i
    BY <1>2, <1>3 DEF IsInjective
  <2>2. (CHOOSE j \in DOMAIN again : again[j] = again[i]) = i
    BY <1>3, <2>1
  <2> QED BY <2>2 DEF idOf
<1>11. \A i \in 1 .. n : again[i] \in A
  BY <1>2, <1>3, Members DEF n
<1>12. \A i \in 1 .. n : subs'[again[i]] = [subs[again[i]] EXCEPT !.id = NoSid, !.reqId = lastId - 1 + i]
  <2> TAKE i \in 1 .. n
  <2>1. again[i] \in Subs /\ again[i] \in descriptors /\ ~subs[again[i]].waiting
    BY <1>3, <1>11
  <2>2. subs'[again[i]] = [subs[again[i]] EXCEPT !.id = NoSid, !.reqId = idOf(again[i])]
    BY <1>1, <2>1
  <2> QED BY <1>10, <2>2
<1>13. \A o \in Subs : o \notin ToSet(again) =>
           subs'[o] = IF o \in descriptors THEN [subs[o] EXCEPT !.waiting = FALSE] ELSE subs[o]
  BY <1>1, <1>2
<1>14. DOMAIN subs' = Subs
  BY <1>1
<1>15. lastId' <= MaxId
  BY <1>1, <1>8
<1>16. \A i \in 1 .. n : msgs'[lastId + i] = [type |-> "sub", sub |-> again[i], sid |-> NoSid, again |-> TRUE]
  BY <1>6, <1>8
<1> HIDE DEF A
<1>17. ToSet(again) = {o \in descriptors : ~subs[o].waiting}
  BY <1>2 DEF A
<1> USE <1>2, <1>5
<1> WITNESS again \in Seq(Subs), ids \in Seq(Nat)
<1> QED BY <1>1, <1>5, <1>7, <1>8, <1>9, <1>12, <1>13, <1>14, <1>15, <1>16, <1>17 DEF n

-----------------------------------------------------------------------------
(* The client's steps.                                                     *)

Table == Accounts(queue, inFlight, pending, acked, settled, lastId) /\ inFlight <= MaxInFlight

\* Which messages the ids name: only commands are acknowledged.
IsA(id, type) == id \in 0 .. lastId - 1 /\ Call(id).type = type
Kinds ==
    /\ \A id \in acked : IsA(id, "cmd")
    /\ \A m \in ToSet(down) : m.type = "ack" => IsA(m.id, "cmd")
    /\ rx.pc \in {"check", "ack"} => IsA(rx.job.id, "cmd")
    /\ \A id \in pendingOutSubs : IsA(id, "sub")

\* What goes onto the connection was waiting, or has just been made, and goes in
\* the order it was made.
Moves ==
    \E f \in Seq(Nat) :
        /\ Increasing(f) /\ Before(f, queue')
        /\ ToSet(f) \cup ToSet(queue') \subseteq ToSet(queue) \cup (lastId .. lastId' - 1)
        /\ up' = up \o f \/ (f = << >> /\ up' \in {up, << >>})
        /\ ws' # "open" => f = << >>

LEMMA InFlightIsNat == ASSUME ClientTypes, Table PROVE inFlight \in Nat
<1>1. lastId \in Nat
  BY GrownKept, LenProperties DEF ClientTypes, lastId
<1> QED BY <1>1, PendingIsFinite DEF Table

LEMMA NothingMoves ==
    ASSUME UNCHANGED queue, up' \in {up, << >>} PROVE Moves
<1>1. << >> \in Seq(Nat) /\ Len(<< >>) = 0 /\ ToSet(<< >>) = {}
  BY EmptySeq, Members
<1>2. Increasing(<< >>) /\ Before(<< >>, queue')
  BY <1>1 DEF Increasing, Before
<1> QED BY <1>1, <1>2 DEF Moves

LEMMA DrainMoves ==
    ASSUME NEW q, NEW n, NEW p, Accounts(q, n, p, acked', settled', lastId'), lastId' \in Nat,
           n <= MaxInFlight, Drain(q, n, p), ToSet(q) \subseteq ToSet(queue) \cup (lastId .. lastId' - 1)
    PROVE  Table' /\ QueueMoves' /\ Moves
<1>1. /\ Accounts(queue', inFlight', pending', acked', settled', lastId')
      /\ inFlight' <= MaxInFlight
      /\ ws' = "open" /\ queue' # << >> => inFlight' = MaxInFlight
      /\ \E f \in Seq(Nat) :
             /\ ToSet(q) = ToSet(f) \cup ToSet(queue') /\ Increasing(f) /\ Before(f, queue')
             /\ up' = up \o f /\ pending' = p \cup ToSet(f)
             /\ ws' # "open" => f = << >> /\ queue' = q
  BY Drained
<1> QED BY <1>1 DEF Table, QueueMoves, Moves

\* A step that keeps the table, and opens no connection.
LEMMA TableKept ==
    ASSUME Table, QueueMoves, UNCHANGED <<table, settled, msgs>>, ws' = ws \/ ws' # "open",
           up' \in {up, << >>}
    PROVE  Table' /\ QueueMoves' /\ Moves
<1>1. Moves
  BY NothingMoves DEF table
<1> QED BY <1>1 DEF Table, QueueMoves, table, lastId

LEMMA SendMoves ==
    ASSUME ClientTypes, Table, NEW m \in Messages, msgs' = Append(msgs, m),
           Drain(Append(queue, lastId), inFlight, pending), UNCHANGED <<acked, settled>>
    PROVE  Table' /\ QueueMoves' /\ Moves
<1>1. lastId' = lastId + 1 /\ lastId \in Nat /\ lastId' \in Nat
  BY GrownByOne DEF Grown
<1>2. Accounts(Append(queue, lastId), inFlight, pending, acked', settled', lastId')
  BY <1>1, MadeAccounts DEF Table
<1>3. ToSet(Append(queue, lastId)) = ToSet(queue) \cup {lastId}
  BY <1>1, Appended DEF Table, Accounts
<1>4. ToSet(Append(queue, lastId)) \subseteq ToSet(queue) \cup (lastId .. lastId' - 1)
  BY <1>1, <1>3
<1> QED BY <1>1, <1>2, <1>4, DrainMoves DEF Table

LEMMA SettleMoves ==
    ASSUME ClientTypes, Table, NEW id \in pending, UNCHANGED msgs,
           acked' = acked \ {id}, settled' = settled \cup {id},
           Drain(queue, InFlightWithout(id), pending \ {id})
    PROVE  Table' /\ QueueMoves' /\ Moves
<1>1. lastId' = lastId /\ lastId \in Nat
  BY GrownKept DEF Grown
<1>2. Accounts(queue, InFlightWithout(id), pending \ {id}, acked', settled', lastId')
  BY <1>1, SettledAccounts DEF Table, InFlightWithout
<1>3. InFlightWithout(id) <= MaxInFlight
  BY <1>1, InFlightIsNat, CallsAssumption DEF Table, InFlightWithout
<1> QED BY <1>1, <1>2, <1>3, DrainMoves

LEMMA ClearMoves ==
    ASSUME ClientTypes, Table, UNCHANGED msgs, ClearPending, ws' # "open", up' \in {up, << >>}
    PROVE  Table' /\ QueueMoves' /\ Moves
<1>1. lastId' = lastId /\ lastId \in Nat
  BY GrownKept DEF Grown
<1>2. Accounts(<< >>, 0, {}, {}, settled \cup (pending \cup ToSet(queue)), lastId)
  BY <1>1, ClearedAccounts DEF Table
<1>3. /\ queue' = << >> /\ pending' = {} /\ acked' = {} /\ inFlight' = 0
      /\ settled' = settled \cup (pending \cup ToSet(queue))
  BY DEF ClearPending, Rejected
<1>4. << >> \in Seq(Nat) /\ Len(<< >>) = 0 /\ ToSet(<< >>) = {}
  BY EmptySeq, Members
<1>5. Moves
  <2>1. Increasing(<< >>) /\ Before(<< >>, queue')
    BY <1>4 DEF Increasing, Before
  <2> QED BY <1>3, <1>4, <2>1 DEF Moves
<1> QED BY <1>1, <1>2, <1>3, <1>5, CallsAssumption DEF Table, QueueMoves

LEMMA OpenMoves ==
    ASSUME ClientTypes, Table, ResubscribeAll, UNCHANGED <<acked, settled>>
    PROVE  Table' /\ QueueMoves' /\ Moves
<1>1. PICK ids \in Seq(Nat) :
          /\ Increasing(ids) /\ ToSet(ids) = lastId .. lastId' - 1
          /\ Drain(queue \o ids, inFlight, pending)
  BY Resubscribed
<1>2. lastId \in Nat /\ lastId' \in Nat /\ lastId <= lastId'
  BY Resubscribed DEF Grown
<1>3. /\ queue \in Seq(Nat) /\ Increasing(queue)
      /\ ToSet(queue) \subseteq 0 .. lastId - 1
  BY DEF Table, Accounts
<1>4. queue \o ids \in Seq(Nat) /\ ToSet(queue \o ids) = ToSet(queue) \cup (lastId .. lastId' - 1)
  <2>1. queue \o ids \in Seq(Nat) /\ ToSet(queue \o ids) = ToSet(queue) \cup ToSet(ids)
    BY <1>3, Joined
  <2> QED BY <1>1, <2>1
<1>5. Increasing(queue \o ids)
  <2>1. Before(queue, ids)
    BY <1>1, <1>2, <1>3 DEF Before
  <2> QED BY <1>1, <1>3, <2>1, JoinedIncreasing
<1>6. 0 .. lastId' - 1 = (0 .. lastId - 1) \cup (lastId .. lastId' - 1)
      /\ (0 .. lastId - 1) \cap (lastId .. lastId' - 1) = {}
  <2>1. \A a : a \in 0 .. lastId' - 1 <=> a \in 0 .. lastId - 1 \/ a \in lastId .. lastId' - 1
    BY <1>2
  <2>2. \A a : ~(a \in 0 .. lastId - 1 /\ a \in lastId .. lastId' - 1)
    BY <1>2
  <2> QED BY <2>1, <2>2
<1>7. Accounts(queue \o ids, inFlight, pending, acked', settled', lastId')
  BY <1>4, <1>5, <1>6 DEF Table, Accounts
<1> QED BY <1>1, <1>2, <1>4, <1>7, DrainMoves DEF Table

\* Every step keeps the table, and the queue moves.
LEMMA TableStep ==
    ASSUME ClientTypes, Table, QueueMoves, Kinds, [Next]_vars
    PROVE  Table' /\ QueueMoves' /\ (Moves \/ (UNCHANGED queue /\ HttpdRead))
<1>1. ASSUME NEW type \in CallTypes, Send(type) PROVE Table' /\ QueueMoves' /\ Moves
  <2>1. [type |-> type, sub |-> NoSub, sid |-> NoSid, again |-> FALSE] \in Messages
    BY CallsAssumption DEF Messages, NoSid
  <2> QED BY <1>1, <2>1, SendMoves DEF Send
<1>2. ASSUME NEW o \in Subs, Subscribe(o) PROVE Table' /\ QueueMoves' /\ Moves
  <2>1. [type |-> "sub", sub |-> o, sid |-> NoSid, again |-> FALSE] \in Messages
    BY DEF Messages, NoSid
  <2> QED BY <1>2, <2>1, SendMoves DEF Subscribe
<1>3. ASSUME NEW o \in Subs, Unsubscribe(o) PROVE Table' /\ QueueMoves' /\ Moves
  <2>1. [type |-> "unsub", sub |-> o, sid |-> subs[o].id, again |-> FALSE] \in Messages
    BY DEF Messages, ClientTypes, Objects
  <2> QED BY <1>3, <2>1, SendMoves DEF Unsubscribe
<1>4. ASSUME NEW o \in Subs, CancelPending(o) PROVE Table' /\ QueueMoves' /\ Moves
  <2>1. CASE subs[o].reqId \in pending
    <3>1. subs[o].reqId \notin acked
      BY <1>4 DEF CancelPending, Kinds, IsA
    <3>2. InFlightWithout(subs[o].reqId) = inFlight - 1
      BY <3>1 DEF InFlightWithout
    <3> QED BY <1>4, <2>1, <3>2, SettleMoves DEF CancelPending
  <2>2. CASE subs[o].reqId \notin pending
    BY <1>4, <2>2, TableKept DEF CancelPending
  <2> QED BY <2>1, <2>2
<1>5. ASSUME NEW id \in Ids, Timeout(id) PROVE Table' /\ QueueMoves' /\ Moves
  BY <1>5, SettleMoves DEF Timeout
<1>6. CASE Connect
  BY <1>6, TableKept DEF Connect
<1>7. CASE ConnectFails
  BY <1>7, ClearMoves DEF ConnectFails
<1>8. CASE ConnectionEnds
  BY <1>8, ClearMoves DEF ConnectionEnds
<1>9. ASSUME NEW how \in Reconnects, Opens(how) PROVE Table' /\ QueueMoves' /\ Moves
  BY <1>9, OpenMoves DEF Opens
<1>10. CASE ReceiveAck
  <2> DEFINE id == Head(down).id
  <2>1. CASE id \in pending
    <3>1. /\ acked' = acked \cup {id} /\ UNCHANGED <<msgs, settled>>
          /\ Drain(queue, InFlightWithout(id), pending)
      BY <1>10, <2>1 DEF ReceiveAck
    <3> HIDE DEF id
    <3>2. lastId' = lastId /\ lastId \in Nat
      BY <3>1, GrownKept DEF Grown
    <3>3. Accounts(queue, InFlightWithout(id), pending, acked', settled', lastId')
      BY <2>1, <3>1, <3>2, AckedAccounts DEF Table, InFlightWithout
    <3>4. InFlightWithout(id) <= MaxInFlight
      BY InFlightIsNat, CallsAssumption DEF Table, InFlightWithout
    <3> QED BY <3>1, <3>2, <3>3, <3>4, DrainMoves
  <2>2. CASE id \notin pending
    BY <1>10, <2>2, TableKept DEF ReceiveAck
  <2> QED BY <2>1, <2>2
<1>11. CASE ReceiveAnswer
  <2>1. CASE Head(down).id \in pending
    BY <1>11, <2>1, SettleMoves DEF ReceiveAnswer
  <2>2. CASE Head(down).id \notin pending
    BY <1>11, <2>2, TableKept DEF ReceiveAnswer
  <2> QED BY <2>1, <2>2
<1>12. ASSUME UNCHANGED client PROVE Table' /\ QueueMoves' /\ UNCHANGED <<queue, ws>>
  BY <1>12 DEF client, table, Table, QueueMoves, lastId
<1>13. CASE HttpdRead
  BY <1>12, <1>13 DEF HttpdRead
<1>14. ASSUME UNCHANGED <<client, up>> PROVE Table' /\ QueueMoves' /\ Moves
  BY <1>12, <1>14, NothingMoves
<1>15. CASE RxTake \/ RxAssign \/ RxMark \/ RxCheck \/ RxAck \/ CallbackReturns \/ DispatchUnsub
  BY <1>14, <1>15 DEF RxTake, RxAssign, RxMark, RxCheck, RxAck, CallbackReturns, DispatchUnsub
<1>16. CASE \/ \E type \in {"resp", "err"} : CallbackAnswers(type)
            \/ \E w \in work : AppMarks(w) \/ \E type \in {"resp", "err"} : AppAnswers(w, type)
  BY <1>14, <1>16 DEF CallbackAnswers, AppMarks, AppAnswers
<1>17. CASE UNCHANGED vars
  BY <1>14, <1>17 DEF vars
<1> QED BY <1>1, <1>2, <1>3, <1>4, <1>5, <1>6, <1>7, <1>8, <1>9, <1>10, <1>11, <1>12, <1>13, <1>15, <1>16, <1>17 DEF Next

-----------------------------------------------------------------------------
(* What is on its way: messages to the server, through its queue to the task,  *)
(* and their answers back.                                                     *)

Sorted(q) == \A i, j \in 1 .. Len(q) : i < j => q[i].id < q[j].id

\* The ids the server has not read.
Coming == ToSet(up) \cup ToSet(queue)
\* id was made before everything the receive task has still to take.
Ahead(id) ==
    /\ id < lastId
    /\ \A job \in ToSet(rxq) : id < job.id
    /\ \A c \in Coming : id < c

\* Messages are sent, queued, taken and answered in the order they were made.
Line ==
    /\ up \in Seq(Nat) /\ Increasing(up) /\ Before(up, queue)
    /\ \A c \in Coming : c < lastId
    /\ Sorted(rxq)
    /\ \A job \in ToSet(rxq) : job.id < lastId /\ \A c \in Coming : job.id < c
    /\ rx.pc # "idle" => Ahead(rx.job.id)
    /\ \A w \in work : /\ Ahead(w.id)
                       /\ rx.pc # "idle" => w.id <= rx.job.id
                       /\ rx.pc \in {"assign", "callback", "mark"} => w.id < rx.job.id
    /\ \A m \in ToSet(down) : /\ Ahead(m.id)
                              /\ rx.pc \in {"assign", "callback"} => m.id < rx.job.id
    /\ \A st \in streams : st.id < lastId

ServerTypes ==
    /\ down \in Seq(Answers)
    /\ slot \in [used : BOOLEAN, gen : 0 .. MaxSessions, lastRecv : Ids, acked : BOOLEAN,
                 nextSub : 0 .. MaxId]
    /\ session \in 0 .. MaxSessions
    /\ rxq \in Seq(Jobs) /\ Len(rxq) <= QueueSize
    /\ rx \in [pc : {"idle", "assign", "callback", "mark", "check", "ack"}, job : Jobs,
               sid : Sids \cup {NoSid}]
    /\ work \subseteq [gen : 1 .. MaxSessions, id : Ids, sid : Sids \cup {NoSid}, sent : BOOLEAN]
    /\ streams \subseteq [gen : 1 .. MaxSessions, id : Ids, sid : Sids]
    /\ told \subseteq Ids /\ failed \subseteq Ids /\ mute \subseteq Ids

\* The two ends of the connection; each connection has one more handle at most.
Link ==
    /\ slot.used <=> ws = "open"
    /\ ws # "open" => up = << >> /\ down = << >>
    /\ slot.gen <= session /\ (session > 0 => slot.gen > 0) /\ (ws = "open" => session > 0)

\* The server numbers no more subscriptions than there were messages.
Numbers ==
    /\ slot.nextSub <= lastId
    /\ \A c \in Coming : slot.nextSub <= c
    /\ \A job \in ToSet(rxq) : slot.nextSub <= job.id
    /\ rx.pc = "assign" => slot.nextSub <= rx.job.id

\* A job of a connection has the handle the slot had then.
OfItsTime(job) ==
    /\ job.sess <= session /\ job.gen <= slot.gen
    /\ job.sess = session => job.gen = slot.gen
Handles ==
    /\ \A job \in ToSet(rxq) : OfItsTime(job)
    /\ rx.pc # "idle" => OfItsTime(rx.job)
    /\ \A w \in work : w.gen <= slot.gen

\* The message the receive task is at, while its connection lasts.
Current ==
    rx.pc # "idle" /\ slot.used /\ rx.job.sess = session =>
        /\ slot.lastRecv = rx.job.id
        /\ slot.acked \/ rx.pc = "mark" => rx.job.id \in told \cup failed
        /\ \A w \in work : w.id = rx.job.id => w.gen = rx.job.gen /\ (w.sent => w.id \in told \cup failed)


Types == ClientTypes /\ ServerTypes

LEMMA SortedTail ==
    ASSUME NEW S, NEW q \in Seq(S), q # << >>, Sorted(q)
    PROVE  Sorted(Tail(q)) /\ \A b \in ToSet(Tail(q)) : Head(q).id < b.id
<1>1. /\ Head(q) = q[1] /\ Tail(q) \in Seq(S) /\ Len(Tail(q)) = Len(q) - 1 /\ Len(q) \in Nat \ {0}
      /\ \A i \in 1 .. Len(q) - 1 : Tail(q)[i] = q[i + 1]
  BY HeadTailProperties, EmptySeq
<1> DEFINE r == Tail(q)
<1> HIDE DEF r
<1>2. \A i \in 1 .. Len(q) - 1 : i + 1 \in 1 .. Len(q) /\ 1 < i + 1 /\ 1 \in 1 .. Len(q)
  BY <1>1
<1>3. Sorted(r)
  <2> SUFFICES ASSUME NEW i \in 1 .. Len(r), NEW j \in 1 .. Len(r), i < j PROVE r[i].id < r[j].id
    BY DEF Sorted
  <2>1. i + 1 \in 1 .. Len(q) /\ j + 1 \in 1 .. Len(q) /\ i + 1 < j + 1 /\ r[i] = q[i + 1] /\ r[j] = q[j + 1]
    BY <1>1, <1>2 DEF r
  <2> QED BY <2>1 DEF Sorted
<1>4. ASSUME NEW b \in ToSet(r) PROVE Head(q).id < b.id
  <2>1. PICK i \in 1 .. Len(q) - 1 : r[i] = b
    BY <1>1, <1>4, Members DEF r
  <2>2. i + 1 \in 1 .. Len(q) /\ 1 < i + 1 /\ 1 \in 1 .. Len(q) /\ q[i + 1] = b
    BY <1>1, <1>2, <2>1 DEF r
  <2> QED BY <1>1, <2>2 DEF Sorted
<1> QED BY <1>3, <1>4 DEF r

LEMMA SortedAppend ==
    ASSUME NEW S, NEW q \in Seq(S), NEW a \in S, Sorted(q), \A b \in ToSet(q) : b.id < a.id
    PROVE  Sorted(Append(q, a))
<1>1. /\ Len(Append(q, a)) = Len(q) + 1 /\ Len(q) \in Nat
      /\ \A i \in 1 .. Len(q) : Append(q, a)[i] = q[i] /\ q[i] \in ToSet(q)
      /\ Append(q, a)[Len(q) + 1] = a
  BY AppendProperties, LenProperties, Members
<1> DEFINE r == Append(q, a)
<1> HIDE DEF r
<1>2. \A i, j \in 1 .. Len(q) + 1 : i < j => i \in 1 .. Len(q) /\ (j \in 1 .. Len(q) \/ j = Len(q) + 1)
  BY <1>1
<1> QED BY <1>1, <1>2 DEF r, Sorted

\* What is on its way comes from what was, and from what has just been made.
LEMMA ComingMoves ==
    ASSUME Line, Moves, Grown, ToSet(queue) \subseteq Nat
    PROVE  /\ up' \in Seq(Nat) /\ Increasing(up') /\ Before(up', queue')
           /\ Coming' \subseteq Coming \cup (lastId .. lastId' - 1)
           /\ \A c \in Coming' : c < lastId'
<1>1. PICK f \in Seq(Nat) :
          /\ Increasing(f) /\ Before(f, queue')
          /\ ToSet(f) \cup ToSet(queue') \subseteq ToSet(queue) \cup (lastId .. lastId' - 1)
          /\ up' = up \o f \/ (f = << >> /\ up' \in {up, << >>})
  BY DEF Moves
<1>2. /\ up \in Seq(Nat) /\ Increasing(up) /\ Before(up, queue) /\ ToSet(up) \subseteq Nat
      /\ \A c \in ToSet(up) \cup ToSet(queue) : c < lastId
      /\ lastId \in Nat /\ lastId' \in Nat /\ lastId <= lastId'
  BY Members DEF Line, Coming, Grown
<1>6. \A c \in Coming \cup (lastId .. lastId' - 1) : c < lastId'
  BY <1>2 DEF Coming
<1>3. Before(up, f) /\ Before(up, queue')
  BY <1>1, <1>2 DEF Before
<1>4. CASE up' = up \o f
  <2>1. up \o f \in Seq(Nat) /\ Increasing(up \o f) /\ ToSet(up \o f) = ToSet(up) \cup ToSet(f)
    BY <1>1, <1>2, <1>3, Joined, JoinedIncreasing
  <2>2. up' \in Seq(Nat) /\ Increasing(up') /\ ToSet(up') = ToSet(up) \cup ToSet(f)
    BY <1>4, <2>1
  <2>3. Before(up', queue')
    BY <1>1, <1>3, <2>2 DEF Before
  <2>4. Coming' \subseteq Coming \cup (lastId .. lastId' - 1)
    BY <1>1, <2>2 DEF Coming
  <2> QED BY <1>6, <2>2, <2>3, <2>4
<1>5. CASE up' \in {up, << >>}
  <2>1. << >> \in Seq(Nat) /\ Len(<< >>) = 0 /\ ToSet(<< >>) = {}
    BY EmptySeq, Members
  <2>2. up' \in Seq(Nat) /\ Increasing(up') /\ ToSet(up') \subseteq ToSet(up)
    <3>1. CASE up' = up
      BY <1>2, <3>1
    <3>2. CASE up' = << >>
      <4>1. Increasing(<< >>)
        BY <2>1 DEF Increasing
      <4> QED BY <2>1, <3>2, <4>1
    <3> QED BY <1>5, <3>1, <3>2
  <2>3. Before(up', queue')
    BY <1>3, <2>2 DEF Before
  <2>4. Coming' \subseteq Coming \cup (lastId .. lastId' - 1)
    BY <1>1, <2>2 DEF Coming
  <2> QED BY <1>6, <2>2, <2>3, <2>4
<1> QED BY <1>1, <1>4, <1>5

\* Everything on the server names a message.
LEMMA IdsOfServer ==
    ASSUME Types
    PROVE  /\ \A job \in ToSet(rxq) : job \in Jobs /\ job.id \in Ids
           /\ rx.job \in Jobs /\ rx.job.id \in Ids
           /\ \A w \in work : w.id \in Ids
           /\ \A m \in ToSet(down) : m \in Answers /\ m.id \in Ids
           /\ \A st \in streams : st.id \in Ids
<1>1. \A job \in ToSet(rxq) : job \in Jobs
  BY Members DEF Types, ServerTypes
<1>2. \A m \in ToSet(down) : m \in Answers
  BY Members DEF Types, ServerTypes
<1>3. rx.job \in Jobs /\ (\A w \in work : w.id \in Ids) /\ (\A st \in streams : st.id \in Ids)
  BY DEF Types, ServerTypes
<1> QED BY <1>1, <1>2, <1>3 DEF Jobs, Answers

\* A step of the client, which leaves the server's queue and tasks alone.
LEMMA LineOfClient ==
    ASSUME Types, Line, Moves, Grown, ToSet(queue) \subseteq Nat, UNCHANGED <<rxq, rx, work>>,
           ToSet(down') \subseteq ToSet(down), streams' \subseteq streams
    PROVE  Line'
<1>1. /\ up' \in Seq(Nat) /\ Increasing(up') /\ Before(up', queue')
      /\ Coming' \subseteq Coming \cup (lastId .. lastId' - 1)
      /\ \A c \in Coming' : c < lastId'
  BY ComingMoves
<1>2. lastId \in Nat /\ lastId' \in Nat /\ lastId <= lastId'
  BY DEF Grown
<1>3. ASSUME NEW id \in Ids, Ahead(id) PROVE Ahead(id)'
  BY <1>1, <1>2, <1>3 DEF Ahead, Ids
<1>4. /\ \A job \in ToSet(rxq) : job.id \in Ids
      /\ rx.job.id \in Ids
      /\ \A w \in work : w.id \in Ids
      /\ \A m \in ToSet(down) : m.id \in Ids
      /\ \A st \in streams : st.id \in Ids
  BY IdsOfServer
<1>5. \A job \in ToSet(rxq)' : job.id < lastId' /\ \A c \in Coming' : job.id < c
  BY <1>1, <1>2, <1>4 DEF Line, Ids
<1>6. (\A st \in streams' : st.id < lastId') /\ Sorted(rxq')
  BY <1>2, <1>4 DEF Line, Ids
<1>7. (rx.pc # "idle" => Ahead(rx.job.id))'
  BY <1>1, <1>2, <1>4 DEF Line, Ahead, Ids
<1> QED BY <1>1, <1>3, <1>4, <1>5, <1>6, <1>7 DEF Line

LEMMA LineOfRead ==
    ASSUME Types, Line, Table, HttpdRead
    PROVE  Line'
<1>1. /\ up \in Seq(Nat) /\ Increasing(up) /\ Before(up, queue) /\ up # << >>
      /\ up' = Tail(up) /\ UNCHANGED <<queue, msgs, rx, work, down, streams>> /\ lastId' = lastId
  BY DEF Line, HttpdRead, client, table, lastId
<1> DEFINE u == Head(up)
           job == [gen |-> slot.gen, id |-> u, sess |-> session]
<1>2. /\ u \in ToSet(up) /\ up' \in Seq(Nat) /\ ToSet(up') \subseteq ToSet(up)
      /\ Increasing(up') /\ \A b \in ToSet(up') : u < b
  BY <1>1, Shifted, ShiftedIncreasing
<1>3. /\ u \in Coming /\ Coming' \subseteq Coming /\ \A c \in Coming' : u < c
      /\ Before(up', queue')
  BY <1>1, <1>2 DEF Coming, Before
<1>4. ToSet(rxq') \subseteq ToSet(rxq) \cup {job} /\ Sorted(rxq')
  <2>1. CASE UNCHANGED rxq
    BY <2>1 DEF Line
  <2>2. CASE rxq' = Append(rxq, job)
    <3>1. \A b \in ToSet(rxq) : b.id < job.id
      BY <1>3 DEF Line
    <3> DEFINE S == [gen : Int, id : Nat, sess : Int]
    <3>2. job \in S /\ rxq \in Seq(S)
      <4>1. u \in Nat /\ slot.gen \in Int /\ session \in Int
        BY <1>1, <1>2, Members, CallsAssumption, SMTT(60) DEF Types, ServerTypes
      <4>2. Jobs \subseteq S
        BY CallsAssumption DEF Jobs, Ids
      <4>3. rxq \in Seq(S)
        BY <4>2, SeqMonotonic DEF Types, ServerTypes
      <4> QED BY <4>1, <4>3
    <3> HIDE DEF job, S
    <3>3. Sorted(Append(rxq, job))
      BY <3>1, <3>2, SortedAppend DEF Line
    <3>4. ToSet(Append(rxq, job)) = ToSet(rxq) \cup {job}
      BY <3>2, Appended
    <3> QED BY <2>2, <3>3, <3>4
  <2> QED BY <2>1, <2>2 DEF HttpdRead
<1>5. job.id = u
  OBVIOUS
<1> HIDE DEF job, u
<1>6. ASSUME NEW id, Ahead(id) PROVE Ahead(id)'
  BY <1>1, <1>3, <1>4, <1>5, <1>6 DEF Ahead
<1>7. \A b \in ToSet(rxq') : b.id < lastId' /\ \A c \in Coming' : b.id < c
  BY <1>1, <1>3, <1>4, <1>5 DEF Line
<1>8. (rx.pc # "idle" => Ahead(rx.job.id))'
  BY <1>1, <1>3, <1>4, <1>5 DEF Line, Ahead
<1>9. \A c \in Coming' : c < lastId'
  BY <1>1, <1>3 DEF Line
<1> QED BY <1>1, <1>2, <1>3, <1>4, <1>6, <1>7, <1>8, <1>9 DEF Line

LEMMA LineOfTake ==
    ASSUME Types, Line, RxTake
    PROVE  Line'
<1>1. /\ rx.pc = "idle" /\ rxq # << >> /\ rxq' = Tail(rxq) /\ rx'.job = Head(rxq)
      /\ UNCHANGED <<queue, msgs, up, work, down, streams>> /\ lastId' = lastId
  BY DEF RxTake, client, table, lastId, IdleRx
<1>2. rxq \in Seq(Jobs)
  BY DEF Types, ServerTypes
<1>3. /\ Head(rxq) \in ToSet(rxq) /\ ToSet(rxq') \subseteq ToSet(rxq)
      /\ Sorted(rxq') /\ \A b \in ToSet(rxq') : Head(rxq).id < b.id
  BY <1>1, <1>2, Shifted, SortedTail DEF Line
<1>4. Coming' = Coming
  BY <1>1 DEF Coming
<1>5. ASSUME NEW id, Ahead(id) PROVE Ahead(id)' /\ id < rx'.job.id
  BY <1>1, <1>3, <1>4, <1>5 DEF Ahead
<1>6. (rx.pc # "idle" => Ahead(rx.job.id))'
  BY <1>1, <1>3, <1>4 DEF Line, Ahead
<1>7. \A b \in ToSet(rxq') : b.id < lastId' /\ \A c \in Coming' : b.id < c
  BY <1>1, <1>3, <1>4 DEF Line
<1>8. \A w \in work' : /\ Ahead(w.id)'
                       /\ w.id <= rx'.job.id /\ w.id < rx'.job.id
  <2>1. \A w \in work : Ahead(w.id) /\ w.id \in Int
    BY IdsOfServer, CallsAssumption DEF Line, Ids
  <2>2. rx'.job.id \in Int
    BY <1>1, <1>3, IdsOfServer, CallsAssumption DEF Ids
  <2> QED BY <1>1, <1>5, <2>1, <2>2
<1>9. \A m \in ToSet(down') : Ahead(m.id)' /\ m.id < rx'.job.id
  BY <1>1, <1>5 DEF Line
<1> QED BY <1>1, <1>3, <1>4, <1>6, <1>7, <1>8, <1>9 DEF Line

\* The other steps of the receive task, and those of the application.
LEMMA LineOfAnswer ==
    ASSUME Types, Line, UNCHANGED <<client, up, rxq>>,
           rx'.pc # "idle" =>
               /\ rx.pc # "idle" /\ rx'.job = rx.job
               /\ rx'.pc \in {"assign", "callback", "mark"} => rx.pc \in {"assign", "callback", "mark"}
               /\ rx'.pc \in {"assign", "callback"} => rx.pc \in {"assign", "callback"},
           \A w \in work' :
               \/ \E v \in work : v.id = w.id
               \/ rx.pc # "idle" /\ w.id = rx.job.id /\ rx'.pc \notin {"assign", "callback", "mark"},
           \A m \in ToSet(down') :
               \/ m \in ToSet(down) \/ \E v \in work : v.id = m.id
               \/ rx.pc # "idle" /\ m.id = rx.job.id /\ rx'.pc \notin {"assign", "callback"},
           \A st \in streams' :
               \/ st \in streams \/ \E v \in work : v.id = st.id
               \/ rx.pc # "idle" /\ st.id = rx.job.id
    PROVE  Line'
<1>1. UNCHANGED <<queue, msgs, up, rxq>> /\ lastId' = lastId /\ Coming' = Coming
  BY DEF client, table, lastId, Coming
<1>2. ASSUME NEW id, Ahead(id) PROVE Ahead(id)' /\ id < lastId
  BY <1>1, <1>2 DEF Ahead
<1>3. (rx.pc # "idle" => Ahead(rx.job.id))'
  BY <1>1 DEF Line, Ahead
<1>4. rx.job.id \in Int
  BY IdsOfServer, CallsAssumption DEF Ids
<1>5. ASSUME NEW w \in work'
      PROVE  /\ Ahead(w.id)'
             /\ rx'.pc # "idle" => w.id <= rx'.job.id
             /\ rx'.pc \in {"assign", "callback", "mark"} => w.id < rx'.job.id
  <2>1. ASSUME NEW v \in work, v.id = w.id
        PROVE  /\ Ahead(v.id)'
               /\ rx'.pc # "idle" => v.id <= rx'.job.id
               /\ rx'.pc \in {"assign", "callback", "mark"} => v.id < rx'.job.id
    BY <1>2 DEF Line
  <2>2. ASSUME rx.pc # "idle", rx'.pc \notin {"assign", "callback", "mark"}
        PROVE  Ahead(rx.job.id) /\ (rx'.pc # "idle" => rx.job.id <= rx'.job.id)
    BY <1>4, <2>2 DEF Line
  <2> QED BY <1>2, <2>1, <2>2
<1>6. ASSUME NEW m \in ToSet(down')
      PROVE  Ahead(m.id)' /\ (rx'.pc \in {"assign", "callback"} => m.id < rx'.job.id)
  <2>1. CASE m \in ToSet(down)
    BY <1>2, <2>1 DEF Line
  <2>2. ASSUME NEW v \in work, v.id = m.id
        PROVE  Ahead(v.id)' /\ (rx'.pc \in {"assign", "callback"} => v.id < rx'.job.id)
    BY <1>2 DEF Line
  <2>3. ASSUME rx.pc # "idle" PROVE Ahead(rx.job.id)
    BY <2>3 DEF Line
  <2> QED BY <1>2, <2>1, <2>2, <2>3
<1>7. \A st \in streams' : st.id < lastId'
  BY <1>1, <1>2 DEF Line
<1> QED BY <1>1, <1>3, <1>5, <1>6, <1>7 DEF Line

LEMMA Sent ==
    ASSUME Types, NEW gen, NEW type, NEW id, NEW sid,
           [type |-> type, id |-> id, sid |-> sid] \in Answers, SendJson(gen, type, id, sid)
    PROVE  /\ down' \in Seq(Answers) /\ told' \in SUBSET Ids /\ failed' \in SUBSET Ids
           /\ told \subseteq told' /\ failed \subseteq failed'
           /\ ToSet(down') \subseteq ToSet(down) \cup {[type |-> type, id |-> id, sid |-> sid]}
           /\ \A m \in ToSet(down') : m \in ToSet(down) \/ m.id = id
           /\ Resolves(gen) => id \in told' \cup failed'
           /\ ~Resolves(gen) => UNCHANGED down
<1> DEFINE m == [type |-> type, id |-> id, sid |-> sid]
<1>1. m \in Answers /\ m.id = id /\ id \in Ids /\ down \in Seq(Answers) /\ told \subseteq Ids /\ failed \subseteq Ids
  BY DEF Types, ServerTypes, Answers
<1> HIDE DEF m
<1>2. Append(down, m) \in Seq(Answers) /\ ToSet(Append(down, m)) = ToSet(down) \cup {m}
  BY <1>1, Appended
<1>3. CASE Resolves(gen)
  <2>1. \/ down' = Append(down, m) /\ told' = told \cup {id} /\ failed' = failed
        \/ down' = down /\ told' = told /\ failed' = failed \cup {id}
    BY <1>3 DEF SendJson, m
  <2> QED BY <1>1, <1>2, <1>3, <2>1 DEF m
<1>4. CASE ~Resolves(gen)
  BY <1>1, <1>4 DEF SendJson
<1> QED BY <1>3, <1>4

\* The task is done with the message, or looks whether it owes an ack.
LEMMA Finished ==
    ASSUME Types, RxDispatched \/ RxFinished
    PROVE  /\ \/ rx' = IdleRx
              \/ rx' = [rx EXCEPT !.pc = "check"] /\ Call(rx.job.id).type = "cmd"
           /\ mute' \subseteq mute \cup {rx.job.id}
  BY DEF RxDispatched, RxFinished

LEMMA IdleIsTyped ==
    IdleRx \in [pc : {"idle", "assign", "callback", "mark", "check", "ack"}, job : Jobs,
                sid : Sids \cup {NoSid}] /\ IdleRx.pc = "idle"
<1>1. 0 \in Ids /\ 1 \in 1 .. MaxSessions
  BY CallsAssumption DEF Ids
<1> QED BY <1>1 DEF IdleRx, Jobs

\* The other variables of the server, when the task goes on to pc.
LEMMA RxTyped ==
    ASSUME Types, NEW pc \in {"idle", "assign", "callback", "mark", "check", "ack"},
           rx' = IdleRx \/ rx' = [rx EXCEPT !.pc = pc]
    PROVE  rx' \in [pc : {"idle", "assign", "callback", "mark", "check", "ack"}, job : Jobs,
                    sid : Sids \cup {NoSid}]
           /\ (rx'.pc # "idle" => rx'.pc = pc /\ rx'.job = rx.job)
  BY IdleIsTyped DEF Types, ServerTypes

LEMMA TypesOfAssign ==
    ASSUME Types, Line, Numbers, Table, RxAssign
    PROVE  ServerTypes' /\ Line'
<1>1. /\ rx.pc = "assign" /\ UNCHANGED <<client, up, down, session, rxq, work, streams, told, failed, mute>>
  BY DEF RxAssign
<1>2. slot.nextSub + 1 \in Sids
  <2>1. slot.nextSub \in Nat /\ rx.job.id \in Nat /\ slot.nextSub <= rx.job.id
    BY <1>1, IdsOfServer, CallsAssumption DEF Numbers, Types, ServerTypes, Ids
  <2>2. rx.job.id < lastId /\ lastId <= MaxId /\ lastId \in Nat
    BY <1>1, GrownKept, LenProperties DEF Line, Ahead, Types, ClientTypes, lastId
  <2> QED BY <2>1, <2>2, CallsAssumption DEF Sids
<1>3. /\ slot' \in [used : BOOLEAN, gen : 0 .. MaxSessions, lastRecv : Ids, acked : BOOLEAN,
                    nextSub : 0 .. MaxId]
      /\ rx' \in [pc : {"idle", "assign", "callback", "mark", "check", "ack"}, job : Jobs,
                  sid : Sids \cup {NoSid}]
      /\ rx'.pc # "idle" => rx'.pc = "callback" /\ rx'.job = rx.job
  <2>1. CASE Resolves(rx.job.gen)
    <3>1. /\ slot' = [slot EXCEPT !.nextSub = slot.nextSub + 1]
          /\ rx' = [rx EXCEPT !.pc = "callback", !.sid = slot.nextSub + 1]
      BY <2>1 DEF RxAssign
    <3>2. slot.nextSub + 1 \in 0 .. MaxId
      BY <1>2, CallsAssumption DEF Sids
    <3>3. /\ slot' \in [used : BOOLEAN, gen : 0 .. MaxSessions, lastRecv : Ids, acked : BOOLEAN,
                        nextSub : 0 .. MaxId]
      BY <3>1, <3>2 DEF Types, ServerTypes
    <3>4. /\ rx' \in [pc : {"idle", "assign", "callback", "mark", "check", "ack"}, job : Jobs,
                      sid : Sids \cup {NoSid}]
          /\ rx'.pc = "callback" /\ rx'.job = rx.job
      BY <1>2, <3>1 DEF Types, ServerTypes
    <3> QED BY <3>3, <3>4
  <2>2. CASE ~Resolves(rx.job.gen)
    <3>1. slot' = slot /\ rx' = IdleRx
      BY <2>2 DEF RxAssign
    <3> QED BY <3>1, IdleIsTyped DEF Types, ServerTypes
  <2> QED BY <2>1, <2>2
<1>4. ServerTypes'
  BY <1>1, <1>3 DEF Types, ServerTypes
<1>5. Line'
  BY <1>1, <1>3, LineOfAnswer
<1> QED BY <1>4, <1>5

LEMMA TypesOfCallback ==
    ASSUME Types, Line, NEW answer \in {"resp", "err"}, CallbackAnswers(answer) \/ DispatchUnsub
    PROVE  ServerTypes' /\ Line'
<1>1. /\ rx.pc = "callback" /\ UNCHANGED <<client, up, slot, session, rxq, work, mute>>
      /\ rx' = [rx EXCEPT !.pc = "mark"]
      /\ \/ SendJson(rx.job.gen, "resp", rx.job.id, rx.sid)
         \/ SendJson(rx.job.gen, "resp", rx.job.id, NoSid)
         \/ SendJson(rx.job.gen, "err", rx.job.id, NoSid)
  BY DEF CallbackAnswers, DispatchUnsub, Types, ServerTypes
<1>2. /\ rx.job.id \in Ids /\ rx.job \in Jobs
      /\ \A m \in ToSet(down) : m \in Answers
      /\ rx.job.gen \in 1 .. MaxSessions /\ rx.sid \in Sids \cup {NoSid}
  BY IdsOfServer DEF Types, ServerTypes, Jobs
<1>3. /\ down' \in Seq(Answers) /\ told' \in SUBSET Ids /\ failed' \in SUBSET Ids
      /\ \A m \in ToSet(down') : m \in ToSet(down) \/ m.id = rx.job.id
  <2>1. /\ [type |-> "resp", id |-> rx.job.id, sid |-> rx.sid] \in Answers
        /\ [type |-> "resp", id |-> rx.job.id, sid |-> NoSid] \in Answers
        /\ [type |-> "err", id |-> rx.job.id, sid |-> NoSid] \in Answers
    BY <1>2 DEF Answers
  <2>2. CASE SendJson(rx.job.gen, "resp", rx.job.id, rx.sid)
    BY <2>1, <2>2, Sent
  <2>3. CASE SendJson(rx.job.gen, "resp", rx.job.id, NoSid)
    BY <2>1, <2>3, Sent
  <2>4. CASE SendJson(rx.job.gen, "err", rx.job.id, NoSid)
    BY <2>1, <2>4, Sent
  <2> QED BY <1>1, <2>2, <2>3, <2>4
<1>4. \A st \in streams' : st \in streams \/
          (st.id = rx.job.id /\ st \in [gen : 1 .. MaxSessions, id : Ids, sid : Sids])
  <2>1. CASE CallbackAnswers(answer)
    BY <1>2, <2>1 DEF CallbackAnswers, Accept, Stream
  <2>2. CASE DispatchUnsub
    BY <2>2 DEF DispatchUnsub
  <2> QED BY <2>1, <2>2
<1>5. /\ rx'.pc = "mark" /\ rx'.job = rx.job
      /\ rx' \in [pc : {"idle", "assign", "callback", "mark", "check", "ack"}, job : Jobs,
                  sid : Sids \cup {NoSid}]
  BY <1>1 DEF Types, ServerTypes
<1>6. ServerTypes'
  BY <1>1, <1>3, <1>4, <1>5 DEF Types, ServerTypes
<1>7. Line'
  BY <1>1, <1>3, <1>4, <1>5, LineOfAnswer
<1> QED BY <1>6, <1>7

LEMMA TypesOfReturn ==
    ASSUME Types, Line, CallbackReturns
    PROVE  ServerTypes' /\ Line'
<1> DEFINE w0 == [gen |-> rx.job.gen, id |-> rx.job.id, sid |-> rx.sid, sent |-> FALSE]
<1>1. /\ rx.pc = "callback" /\ UNCHANGED <<client, up, down, slot, session, rxq, streams, told, failed>>
      /\ work' \subseteq work \cup {w0} /\ RxDispatched
  BY DEF CallbackReturns
<1>2. /\ w0 \in [gen : 1 .. MaxSessions, id : Ids, sid : Sids \cup {NoSid}, sent : BOOLEAN]
      /\ w0.id = rx.job.id /\ rx.job.id \in Ids
  BY IdsOfServer DEF Types, ServerTypes, Jobs
<1> HIDE DEF w0
<1>3. /\ rx' \in [pc : {"idle", "assign", "callback", "mark", "check", "ack"}, job : Jobs,
                  sid : Sids \cup {NoSid}]
      /\ rx'.pc # "idle" => rx'.pc = "check" /\ rx'.job = rx.job
      /\ rx'.pc \in {"idle", "check"}
      /\ mute' \subseteq mute \cup {rx.job.id}
  BY <1>1, Finished, RxTyped, IdleIsTyped
<1>4. ServerTypes'
  BY <1>1, <1>2, <1>3 DEF Types, ServerTypes
<1>5. Line'
  BY <1>1, <1>2, <1>3, LineOfAnswer
<1> QED BY <1>4, <1>5

LEMMA TypesOfMark ==
    ASSUME Types, Line, RxMark \/ RxCheck \/ RxAck
    PROVE  ServerTypes' /\ Line'
<1>1. /\ rx.pc \in {"mark", "check", "ack"} /\ UNCHANGED <<client, up, session, rxq, work, streams>>
      /\ rx' = IdleRx \/ \E pc \in {"check", "ack"} : rx' = [rx EXCEPT !.pc = pc]
      /\ mute' \subseteq mute \cup {rx.job.id}
  <2>1. CASE RxMark
    BY <2>1, Finished DEF RxMark
  <2>2. CASE RxCheck
    BY <2>2, Finished DEF RxCheck
  <2>3. CASE RxAck
    BY <2>3, Finished DEF RxAck, RxFinished
  <2> QED BY <2>1, <2>2, <2>3
<1>2. /\ slot' \in [used : BOOLEAN, gen : 0 .. MaxSessions, lastRecv : Ids, acked : BOOLEAN,
                    nextSub : 0 .. MaxId]
  BY DEF RxMark, RxCheck, RxAck, MarkAcked, Types, ServerTypes
<1>3. rx.job.id \in Ids
  BY IdsOfServer
<1>4. /\ down' \in Seq(Answers) /\ told' \in SUBSET Ids /\ failed' \in SUBSET Ids
      /\ \A m \in ToSet(down') : m \in ToSet(down) \/ m.id = rx.job.id
      /\ ~RxAck => UNCHANGED <<down, told, failed>>
  <2>1. CASE RxMark \/ RxCheck
    BY <2>1 DEF RxMark, RxCheck, Types, ServerTypes
  <2>2. CASE RxAck
    <3> DEFINE m0 == [type |-> "ack", id |-> rx.job.id, sid |-> NoSid]
    <3>1. SendJson(rx.job.gen, "ack", rx.job.id, NoSid)
      BY <2>2 DEF RxAck
    <3>2. m0 \in Answers
      BY <1>3 DEF Answers
    <3> QED BY <2>2, <3>1, <3>2, Sent
  <2> QED BY <2>1, <2>2
<1>5. /\ rx' \in [pc : {"idle", "assign", "callback", "mark", "check", "ack"}, job : Jobs,
                  sid : Sids \cup {NoSid}]
      /\ rx'.pc # "idle" => rx'.pc \in {"check", "ack"} /\ rx'.job = rx.job
  BY <1>1, RxTyped, IdleIsTyped
<1>6. ServerTypes'
  BY <1>1, <1>2, <1>3, <1>4, <1>5 DEF Types, ServerTypes
<1>7. Line'
  BY <1>1, <1>4, <1>5, LineOfAnswer
<1> QED BY <1>6, <1>7

LEMMA TypesOfApp ==
    ASSUME Types, Line, NEW w \in work, AppMarks(w) \/ AppAnswers(w, "resp") \/ AppAnswers(w, "err")
    PROVE  ServerTypes' /\ Line'
<1> DEFINE W == [gen : 1 .. MaxSessions, id : Ids, sid : Sids \cup {NoSid}, sent : BOOLEAN]
<1>1. /\ w \in W /\ w.id \in Ids /\ work \subseteq W
      /\ [type |-> "resp", id |-> w.id, sid |-> w.sid] \in Answers
      /\ [type |-> "err", id |-> w.id, sid |-> NoSid] \in Answers
  BY DEF Types, ServerTypes, Answers
<1>2. /\ UNCHANGED <<client, up, session, rxq, rx, mute>>
      /\ \A v \in work' : v \in W /\ \E x \in work : x.id = v.id
  <2>1. CASE AppMarks(w)
    BY <1>1, <2>1 DEF AppMarks
  <2>2. CASE AppAnswers(w, "resp") \/ AppAnswers(w, "err")
    <3>1. work' \subseteq work \cup {[w EXCEPT !.sent = TRUE]}
      BY <2>2 DEF AppAnswers
    <3>2. [w EXCEPT !.sent = TRUE] \in W /\ [w EXCEPT !.sent = TRUE].id = w.id
      BY <1>1
    <3>3. UNCHANGED <<client, up, session, rxq, rx, mute>>
      BY <2>2 DEF AppAnswers
    <3> QED BY <1>1, <3>1, <3>2, <3>3
  <2> QED BY <2>1, <2>2
<1>3. /\ slot' \in [used : BOOLEAN, gen : 0 .. MaxSessions, lastRecv : Ids, acked : BOOLEAN,
                    nextSub : 0 .. MaxId]
  BY DEF AppMarks, AppAnswers, MarkAcked, Types, ServerTypes
<1>4. /\ down' \in Seq(Answers) /\ told' \in SUBSET Ids /\ failed' \in SUBSET Ids
      /\ \A m \in ToSet(down') : m \in ToSet(down) \/ m.id = w.id
  <2>1. CASE AppMarks(w)
    BY <2>1 DEF AppMarks, Types, ServerTypes
  <2>2. CASE AppAnswers(w, "resp")
    <3>1. SendJson(w.gen, "resp", w.id, w.sid)
      BY <2>2 DEF AppAnswers
    <3> QED BY <1>1, <3>1, Sent
  <2>3. CASE AppAnswers(w, "err")
    <3>1. SendJson(w.gen, "err", w.id, NoSid)
      BY <2>3 DEF AppAnswers
    <3> QED BY <1>1, <3>1, Sent
  <2> QED BY <2>1, <2>2, <2>3
<1>5. \A st \in streams' : st \in streams \/
          (st.id = w.id /\ st \in [gen : 1 .. MaxSessions, id : Ids, sid : Sids])
  <2>1. CASE AppMarks(w)
    BY <2>1 DEF AppMarks
  <2>2. CASE AppAnswers(w, "resp") \/ AppAnswers(w, "err")
    BY <1>1, <2>2 DEF AppAnswers, Accept, Stream
  <2> QED BY <2>1, <2>2
<1>6. ServerTypes'
  BY <1>2, <1>3, <1>4, <1>5 DEF Types, ServerTypes
<1> HIDE DEF W
<1>7. Line'
  BY <1>2, <1>4, <1>5, LineOfAnswer
<1> QED BY <1>6, <1>7

LEMMA TypesOfTake ==
    ASSUME Types, RxTake PROVE ServerTypes'
<1>1. /\ rxq # << >> /\ rxq' = Tail(rxq) /\ rxq \in Seq(Jobs) /\ Len(rxq) <= QueueSize
      /\ UNCHANGED <<down, session, work, streams, told, failed, mute>>
  BY DEF RxTake, Types, ServerTypes
<1>2. Head(rxq) \in Jobs /\ Head(rxq).id \in Ids /\ rxq' \in Seq(Jobs) /\ Len(rxq') <= QueueSize
  <2>1. Head(rxq) \in ToSet(rxq) /\ Tail(rxq) \in Seq(Jobs) /\ Len(Tail(rxq)) = Len(rxq) - 1
        /\ Len(rxq) \in Nat
    BY <1>1, Shifted, LenProperties
  <2> QED BY <1>1, <2>1, IdsOfServer, CallsAssumption
<1>3. slot' \in [used : BOOLEAN, gen : 0 .. MaxSessions, lastRecv : Ids, acked : BOOLEAN,
                 nextSub : 0 .. MaxId]
  BY <1>2 DEF RxTake, NoteReceived, Types, ServerTypes
<1>4. rx' \in [pc : {"idle", "assign", "callback", "mark", "check", "ack"}, job : Jobs,
               sid : Sids \cup {NoSid}]
  BY <1>2, IdleIsTyped DEF RxTake
<1> QED BY <1>1, <1>2, <1>3, <1>4 DEF Types, ServerTypes

LEMMA TypesOfRead ==
    ASSUME Types, Line, Table, Link, HttpdRead PROVE ServerTypes'
<1> DEFINE job == [gen |-> slot.gen, id |-> Head(up), sess |-> session]
<1>1. /\ up # << >> /\ (rxq' = rxq \/ (Len(rxq) < QueueSize /\ rxq' = Append(rxq, job)))
      /\ rxq \in Seq(Jobs) /\ Len(rxq) <= QueueSize
      /\ UNCHANGED <<down, slot, session, rx, work, streams, told, failed, mute>>
  BY DEF HttpdRead, Types, ServerTypes
<1>2. job \in Jobs
  <2>1. Head(up) \in Coming /\ Head(up) \in Nat
    <3>1. up \in Seq(Nat)
      BY DEF Line
    <3> QED BY <1>1, <3>1, Shifted, Members DEF Coming
  <2>2. lastId \in Nat /\ lastId <= MaxId
    BY LenProperties DEF Types, ClientTypes, lastId
  <2>3. Head(up) \in Ids
    BY <2>1, <2>2, CallsAssumption DEF Line, Ids
  <2>4. slot.gen \in 1 .. MaxSessions /\ session \in 1 .. MaxSessions
    <3>1. session > 0 /\ slot.gen > 0 /\ slot.gen <= session
      BY <1>1 DEF Link
    <3>2. slot.gen \in 0 .. MaxSessions /\ session \in 0 .. MaxSessions
      BY DEF Types, ServerTypes
    <3> QED BY <3>1, <3>2, CallsAssumption
  <2> QED BY <2>3, <2>4 DEF Jobs
<1> HIDE DEF job
<1>3. rxq' \in Seq(Jobs) /\ Len(rxq') <= QueueSize
  <2>1. Append(rxq, job) \in Seq(Jobs) /\ Len(Append(rxq, job)) = Len(rxq) + 1 /\ Len(rxq) \in Nat
    BY <1>1, <1>2, Appended, LenProperties
  <2> QED BY <1>1, <2>1, CallsAssumption
<1> QED BY <1>1, <1>3 DEF Types, ServerTypes

\* A step of the client that lets the server alone.
LEMMA TypesOfClient ==
    ASSUME Types, UNCHANGED server, down' = down \/ (down # << >> /\ down' = Tail(down))
    PROVE  ServerTypes' /\ ToSet(down') \subseteq ToSet(down)
           /\ UNCHANGED <<slot, session, rxq, rx, work, streams, told, failed, mute>>
<1>1. UNCHANGED <<slot, session, rxq, rx, work, streams, told, failed, mute>>
  BY DEF server
<1>2. down' \in Seq(Answers) /\ ToSet(down') \subseteq ToSet(down)
  <2>1. down \in Seq(Answers)
    BY DEF Types, ServerTypes
  <2> QED BY <2>1, Shifted
<1> QED BY <1>1, <1>2 DEF Types, ServerTypes

LEMMA TypesOfEnd ==
    ASSUME Types, ConnectionEnds
    PROVE  ServerTypes' /\ ToSet(down') = {} /\ UNCHANGED <<session, rxq, rx, work>> /\ told' = {} /\ failed' = {} /\ mute' = {}
           /\ streams' \subseteq streams
<1>1. << >> \in Seq(Answers) /\ ToSet(<< >>) = {}
  BY EmptySeq, Members
<1>2. /\ down' = << >> /\ slot' = [slot EXCEPT !.used = FALSE] /\ streams' \subseteq streams
      /\ UNCHANGED <<session, rxq, rx, work>> /\ told' = {} /\ failed' = {} /\ mute' = {}
  BY DEF ConnectionEnds
<1> QED BY <1>1, <1>2 DEF Types, ServerTypes

LEMMA TypesOfOpens ==
    ASSUME Types, Link, NEW how, Opens(how)
    PROVE  ServerTypes' /\ UNCHANGED <<down, rxq, rx, work, streams, told, failed, mute>>
<1>1. /\ session < MaxSessions /\ session' = session + 1
      /\ slot' = [slot EXCEPT !.used = TRUE, !.nextSub = 0,
                              !.gen = IF how = "same" THEN slot.gen ELSE slot.gen + 1]
      /\ UNCHANGED <<down, rxq, rx, work, streams, told, failed, mute>>
  BY DEF Opens
<1>2. /\ session \in 0 .. MaxSessions /\ slot.gen \in 0 .. MaxSessions /\ slot.gen <= session
      /\ MaxSessions \in Nat /\ MaxId \in Nat
  BY CallsAssumption DEF Types, ServerTypes, Link
<1>3. session + 1 \in 0 .. MaxSessions /\ 0 \in 0 .. MaxId /\ slot.gen + 1 \in 0 .. MaxSessions
  BY <1>1, <1>2
<1>4. slot' \in [used : BOOLEAN, gen : 0 .. MaxSessions, lastRecv : Ids, acked : BOOLEAN,
                 nextSub : 0 .. MaxId]
  BY <1>1, <1>3 DEF Types, ServerTypes
<1> QED BY <1>1, <1>3, <1>4 DEF Types, ServerTypes

-----------------------------------------------------------------------------
(* The objects of the page.                                                    *)

\* A request for a sub_id that is still wanted is its object's last one.
PendingEntries ==
    \A id \in pendingOutSubs :
        /\ Call(id).sub \in descriptors
        /\ subs[Call(id).sub].reqId = id /\ subs[Call(id).sub].id = NoSid
\* An object that is known by a sub_id has it.
ActiveEntries ==
    \A sid \in Sids : outSubs[sid] # NoSub =>
        outSubs[sid] \in descriptors /\ subs[outSubs[sid]].id = sid
\* An object without a request, or that waits for the socket, has no sub_id, and
\* one that has is wanted or was unsubscribed.
Unsubs(o) == \E id \in 0 .. lastId - 1 : IsA(id, "unsub") /\ Call(id).sub = o
ObjectEntries ==
    \A o \in Subs :
        /\ subs[o].reqId = NoId \/ subs[o].waiting => subs[o].id = NoSid
        /\ subs[o].waiting /\ o \in descriptors => ws # "open"
        /\ subs[o].id # NoSid => o \in descriptors \/ Unsubs(o)
UnsubsNameOne == \A id \in 0 .. lastId - 1 : Call(id).type = "unsub" => Call(id).sid # NoSid
Entries == PendingEntries /\ ActiveEntries /\ ObjectEntries /\ UnsubsNameOne

LEMMA Wider ==
    ASSUME NEW a \in Nat, NEW b \in Nat, a <= b
    PROVE  0 .. a - 1 \subseteq 0 .. b - 1 /\ \A i \in 0 .. b - 1 : i \in 0 .. a - 1 \/ i \in a .. b - 1
  OBVIOUS

LEMMA CallsStay ==
    ASSUME Grown
    PROVE  /\ \A id, type : IsA(id, type) => IsA(id, type)' /\ Call(id)' = Call(id)
           /\ \A o : Unsubs(o) => Unsubs(o)'
<1>1. \A id \in 0 .. lastId - 1 : id \in 0 .. lastId' - 1 /\ Call(id)' = Call(id)
  <2>1. lastId \in Nat /\ lastId' \in Nat /\ lastId <= lastId'
    BY DEF Grown
  <2>2. 0 .. lastId - 1 \subseteq 0 .. lastId' - 1
    BY <2>1, Wider
  <2> QED BY <2>2 DEF Grown
<1>2. \A id, type : IsA(id, type) => IsA(id, type)' /\ Call(id)' = Call(id)
  BY <1>1 DEF IsA
<1>3. \A o : Unsubs(o) => Unsubs(o)'
  BY <1>1, <1>2 DEF Unsubs
<1> QED BY <1>2, <1>3

LEMMA KindsOfClient ==
    ASSUME Kinds, Grown, UNCHANGED rx, ToSet(down') \subseteq ToSet(down),
           \A id \in acked' : id \in acked \/ IsA(id, "cmd"),
           \A id \in pendingOutSubs' : id \in pendingOutSubs \/ IsA(id, "sub")'
    PROVE  Kinds'
<1>1. \A id, type : IsA(id, type) => IsA(id, type)'
  BY CallsStay
<1>2. \A id \in acked' : IsA(id, "cmd")'
  BY <1>1 DEF Kinds
<1>3. \A m \in ToSet(down') : m.type = "ack" => IsA(m.id, "cmd")'
  BY <1>1 DEF Kinds
<1>4. rx.pc \in {"check", "ack"} => IsA(rx.job.id, "cmd")
  BY DEF Kinds
<1>5. (rx.pc \in {"check", "ack"} => IsA(rx.job.id, "cmd"))'
  <2>1. lastId \in Nat /\ lastId' \in Nat /\ lastId <= lastId'
    BY DEF Grown
  <2>2. 0 .. lastId - 1 \subseteq 0 .. lastId' - 1
    BY <2>1, Wider
  <2>3. \A id \in 0 .. lastId - 1 : Call(id)' = Call(id)
    BY DEF Grown
  <2> QED BY <1>4, <2>2, <2>3 DEF IsA, Call
<1>6. \A id \in pendingOutSubs' : IsA(id, "sub")'
  BY <1>1 DEF Kinds
<1> QED BY <1>2, <1>3, <1>5, <1>6 DEF Kinds

\* Objects are dropped, or lose the request they waited for.
LEMMA EntriesShrink ==
    ASSUME ClientTypes, Entries, Kinds, Grown,
           \A o \in Subs : /\ subs'[o].reqId = subs[o].reqId /\ subs'[o].id = subs[o].id
                           /\ subs'[o].waiting = subs[o].waiting,
           UNCHANGED outSubs, pendingOutSubs' \subseteq pendingOutSubs,
           descriptors' \subseteq descriptors,
           \A o \in descriptors \ descriptors' :
               subs[o].id = NoSid /\ subs[o].reqId \notin pendingOutSubs',
           \A id \in lastId .. lastId' - 1 : Call(id)'.type = "unsub" => Call(id)'.sid # NoSid,
           ws' = "open" => ws = "open"
    PROVE  Entries'
<1>1. /\ \A id, type : IsA(id, type) => IsA(id, type)' /\ Call(id)' = Call(id)
      /\ \A o : Unsubs(o) => Unsubs(o)'
  BY CallsStay
<1>2. descriptors \subseteq Subs /\ \A sid \in Sids : outSubs[sid] \in Subs \cup {NoSub}
  BY DEF ClientTypes
<1>3. ASSUME NEW id \in pendingOutSubs'
      PROVE  /\ Call(id)'.sub \in descriptors'
             /\ subs'[Call(id)'.sub].reqId = id /\ subs'[Call(id)'.sub].id = NoSid
  <2>1. id \in pendingOutSubs /\ IsA(id, "sub")
    BY DEF Kinds
  <2>2. Call(id)' = Call(id)
    BY <1>1, <2>1
  <2>3. Call(id).sub \in descriptors /\ subs[Call(id).sub].reqId = id /\ subs[Call(id).sub].id = NoSid
    BY <2>1 DEF Entries, PendingEntries
  <2> QED BY <1>2, <2>2, <2>3
<1>4. PendingEntries'
  BY <1>3 DEF PendingEntries
<1>5. ActiveEntries'
  <2> SUFFICES ASSUME NEW sid \in Sids, outSubs[sid] # NoSub
               PROVE  outSubs[sid] \in descriptors' /\ subs'[outSubs[sid]].id = sid
    BY DEF ActiveEntries
  <2>1. outSubs[sid] \in descriptors /\ subs[outSubs[sid]].id = sid
    BY DEF Entries, ActiveEntries
  <2> QED BY <1>2, <2>1 DEF Sids, NoSid
<1>6. ObjectEntries'
  <2> SUFFICES ASSUME NEW o \in Subs
               PROVE  /\ subs'[o].reqId = NoId \/ subs'[o].waiting => subs'[o].id = NoSid
                      /\ subs'[o].waiting /\ o \in descriptors' => ws' # "open"
                      /\ subs'[o].id # NoSid => o \in descriptors' \/ Unsubs(o)'
    BY DEF ObjectEntries
  <2> QED BY <1>1 DEF Entries, ObjectEntries
<1>7. UnsubsNameOne'
  <2>0. lastId \in Nat /\ lastId' \in Nat /\ lastId <= lastId'
    BY DEF Grown
  <2>1. \A id \in 0 .. lastId' - 1 : id \in 0 .. lastId - 1 \/ id \in lastId .. lastId' - 1
    BY <2>0, Wider
  <2> QED BY <2>1 DEF Entries, UnsubsNameOne, Grown
<1> QED BY <1>4, <1>5, <1>6, <1>7 DEF Entries

\* What Forget drops of the objects.
LEMMA Forgotten ==
    ASSUME ClientTypes, Entries, NEW ids, Forget(ids)
    PROVE  /\ pendingOutSubs' = pendingOutSubs \ ids /\ descriptors' \subseteq descriptors
           /\ \A o \in descriptors \ descriptors' :
                  subs[o].id = NoSid /\ subs[o].reqId \notin pendingOutSubs'
<1>1. /\ pendingOutSubs' = pendingOutSubs \ ids
      /\ descriptors' = descriptors \ {Call(id).sub : id \in {i \in ids \cap pendingOutSubs : ~Call(i).again}}
  BY DEF Forget
<1>2. ASSUME NEW o \in descriptors \ descriptors'
      PROVE  subs[o].id = NoSid /\ subs[o].reqId \notin pendingOutSubs'
  <2>1. PICK id \in ids \cap pendingOutSubs : o = Call(id).sub
    BY <1>1, <1>2
  <2> QED BY <1>1, <2>1 DEF Entries, PendingEntries
<1> QED BY <1>1, <1>2

LEMMA EntriesOfSubscribe ==
    ASSUME ClientTypes, Entries, Kinds, NEW o \in Subs, Subscribe(o)
    PROVE  ClientTypes' /\ Entries' /\ \A id \in pendingOutSubs' : id \in pendingOutSubs \/ IsA(id, "sub")'
<1> DEFINE m == [type |-> "sub", sub |-> o, sid |-> NoSid, again |-> FALSE]
<1>1. /\ lastId < MaxId /\ subs[o].reqId = NoId /\ ws' = ws /\ msgs' = Append(msgs, m)
      /\ subs' = [subs EXCEPT ![o].reqId = lastId, ![o].waiting = (ws # "open")]
      /\ pendingOutSubs' = pendingOutSubs \cup {lastId}
      /\ descriptors' = descriptors \cup {o} /\ outSubs' = outSubs
  BY DEF Subscribe
<1>2. m \in Messages
  BY DEF Messages
<1>3. Grown /\ lastId' = lastId + 1 /\ \A id : id = lastId => Call(id)' = m
  <2> HIDE DEF m
  <2> QED BY <1>1, <1>2, GrownByOne
<1>4. /\ \A id, type : IsA(id, type) => IsA(id, type)' /\ Call(id)' = Call(id)
      /\ \A x : Unsubs(x) => Unsubs(x)'
  BY <1>3, CallsStay
<1>5. lastId \in Ids /\ lastId \in Nat /\ lastId' <= MaxId
  BY <1>1, <1>3, CallsAssumption DEF Ids, Grown
<1>6. /\ subs' \in [Subs -> Objects]
      /\ subs'[o].reqId = lastId /\ subs'[o].id = subs[o].id /\ subs'[o].waiting = (ws # "open")
      /\ \A x \in Subs \ {o} : subs'[x] = subs[x]
  <2>1. [subs[o] EXCEPT !.reqId = lastId, !.waiting = (ws # "open")] \in Objects
    BY <1>5 DEF ClientTypes, Objects
  <2>2. /\ subs \in [Subs -> Objects] /\ (ws # "open") \in BOOLEAN
    BY DEF ClientTypes
  <2>3. /\ subs'[o] = [subs[o] EXCEPT !.reqId = lastId, !.waiting = (ws # "open")]
        /\ \A x \in Subs \ {o} : subs'[x] = subs[x]
        /\ subs' \in [Subs -> Objects]
    BY <1>1, <2>1, <2>2
  <2>4. subs[o] \in Objects
    BY <2>2
  <2>5. /\ subs'[o].reqId = lastId /\ subs'[o].id = subs[o].id /\ subs'[o].waiting = (ws # "open")
    BY <2>3, <2>4 DEF Objects
  <2> QED BY <2>3, <2>5
<1>7. ClientTypes'
  BY <1>1, <1>3, <1>5, <1>6 DEF ClientTypes, Grown
<1>8. subs[o].id = NoSid
  BY <1>1 DEF Entries, ObjectEntries
<1>9. \A id : id = lastId => Call(id)'.sub = o /\ Call(id)'.type = "sub"
  BY <1>3
<1>10. \A id \in pendingOutSubs' : id \in pendingOutSubs \/ IsA(id, "sub")'
  <2>1. \A id : id = lastId => IsA(id, "sub")'
    BY <1>3, <1>5, <1>9 DEF IsA
  <2> QED BY <1>1, <2>1
<1>11. ASSUME NEW id \in pendingOutSubs'
       PROVE  /\ Call(id)'.sub \in descriptors'
              /\ subs'[Call(id)'.sub].reqId = id /\ subs'[Call(id)'.sub].id = NoSid
  <2>1. CASE id = lastId
    BY <1>1, <1>6, <1>8, <1>9, <2>1
  <2>2. CASE id \in pendingOutSubs
    <3>1. IsA(id, "sub") /\ Call(id)' = Call(id)
      BY <1>4, <2>2 DEF Kinds
    <3>2. Call(id).sub \in descriptors /\ subs[Call(id).sub].reqId = id /\ subs[Call(id).sub].id = NoSid
      BY <2>2 DEF Entries, PendingEntries
    <3>3. id \in Nat /\ id # NoId
      BY <3>1, <1>5 DEF IsA, NoId
    <3>4. Call(id).sub # o
      BY <1>1, <3>2, <3>3
    <3> QED BY <1>1, <1>6, <3>1, <3>2, <3>4 DEF ClientTypes
  <2> QED BY <1>1, <2>1, <2>2
<1>12. PendingEntries'
  BY <1>11 DEF PendingEntries
<1>13. ActiveEntries'
  <2> SUFFICES ASSUME NEW sid \in Sids, outSubs[sid] # NoSub
               PROVE  outSubs[sid] \in descriptors' /\ subs'[outSubs[sid]].id = sid
    BY <1>1 DEF ActiveEntries
  <2>1. outSubs[sid] \in descriptors /\ subs[outSubs[sid]].id = sid
    BY DEF Entries, ActiveEntries
  <2> QED BY <1>1, <1>6, <2>1 DEF ClientTypes
<1>14. ObjectEntries'
  <2> SUFFICES ASSUME NEW x \in Subs
               PROVE  /\ subs'[x].reqId = NoId \/ subs'[x].waiting => subs'[x].id = NoSid
                      /\ subs'[x].waiting /\ x \in descriptors' => ws' # "open"
                      /\ subs'[x].id # NoSid => x \in descriptors' \/ Unsubs(x)'
    BY DEF ObjectEntries
  <2>1. CASE x = o
    BY <1>1, <1>6, <1>8, <2>1
  <2>2. CASE x # o
    BY <1>1, <1>4, <1>6, <2>2 DEF Entries, ObjectEntries
  <2> QED BY <2>1, <2>2
<1>15. UnsubsNameOne'
  <2>1. \A id \in 0 .. lastId' - 1 : id \in 0 .. lastId - 1 \/ id = lastId
    BY <1>3, <1>5
  <2>2. \A id \in 0 .. lastId - 1 : Call(id)' = Call(id)
    BY <1>3 DEF Grown
  <2>3. \A id \in 0 .. lastId' - 1 : Call(id)'.type = "unsub" => Call(id)'.sid # NoSid
    BY <1>9, <2>1, <2>2 DEF Entries, UnsubsNameOne
  <2> QED BY <2>3 DEF UnsubsNameOne
<1> QED BY <1>7, <1>10, <1>12, <1>13, <1>14, <1>15 DEF Entries

LEMMA EntriesOfUnsubscribe ==
    ASSUME ClientTypes, Entries, Kinds, NEW o \in Subs, Unsubscribe(o)
    PROVE  ClientTypes' /\ Entries' /\ pendingOutSubs' = pendingOutSubs
<1> DEFINE sid0 == subs[o].id
           m == [type |-> "unsub", sub |-> o, sid |-> sid0, again |-> FALSE]
<1>1. /\ lastId < MaxId /\ sid0 # NoSid /\ ws' = ws /\ msgs' = Append(msgs, m)
      /\ outSubs' = [outSubs EXCEPT ![sid0] = NoSub] /\ descriptors' = descriptors \ {o}
      /\ UNCHANGED <<subs, pendingOutSubs>>
  BY DEF Unsubscribe
<1>2. m \in Messages /\ sid0 \in Sids /\ m.sid # NoSid /\ m.type = "unsub" /\ m.sub = o
  BY <1>1 DEF Messages, ClientTypes, Objects
<1>3. Grown /\ lastId' = lastId + 1 /\ \A id : id = lastId => Call(id)' = m
  <2> HIDE DEF m
  <2> QED BY <1>1, <1>2, GrownByOne
<1>4. /\ \A id, type : IsA(id, type) => IsA(id, type)' /\ Call(id)' = Call(id)
      /\ \A x : Unsubs(x) => Unsubs(x)'
  BY <1>3, CallsStay
<1>5. lastId \in Nat /\ lastId' <= MaxId
  BY <1>1, <1>3, CallsAssumption DEF Grown
<1>6. ClientTypes'
  BY <1>1, <1>3, <1>5 DEF ClientTypes, Grown
<1> HIDE DEF m
<1>7. Unsubs(o)'
  <2>1. \A id : id = lastId => id \in 0 .. lastId' - 1 /\ Call(id)'.type = "unsub" /\ Call(id)'.sub = o
    BY <1>2, <1>3, <1>5
  <2> QED BY <2>1 DEF Unsubs, IsA
<1> HIDE DEF sid0
<1>8. ASSUME NEW id \in pendingOutSubs'
      PROVE  /\ Call(id)'.sub \in descriptors'
             /\ subs'[Call(id)'.sub].reqId = id /\ subs'[Call(id)'.sub].id = NoSid
  <2>1. IsA(id, "sub") /\ Call(id)' = Call(id)
    BY <1>1, <1>4 DEF Kinds
  <2>2. Call(id).sub \in descriptors /\ subs[Call(id).sub].reqId = id /\ subs[Call(id).sub].id = NoSid
    BY <1>1 DEF Entries, PendingEntries
  <2> QED BY <1>1, <2>1, <2>2 DEF sid0
<1>9. PendingEntries'
  BY <1>8 DEF PendingEntries
<1>10. ActiveEntries'
  <2> SUFFICES ASSUME NEW sid \in Sids, outSubs'[sid] # NoSub
               PROVE  outSubs'[sid] \in descriptors' /\ subs'[outSubs'[sid]].id = sid
    BY DEF ActiveEntries
  <2>1. sid # sid0 /\ outSubs'[sid] = outSubs[sid]
    BY <1>1, <1>2 DEF ClientTypes
  <2>2. outSubs[sid] \in descriptors /\ subs[outSubs[sid]].id = sid
    BY <2>1 DEF Entries, ActiveEntries
  <2> QED BY <1>1, <2>1, <2>2 DEF sid0
<1>11. ObjectEntries'
  <2> SUFFICES ASSUME NEW x \in Subs
               PROVE  /\ subs'[x].reqId = NoId \/ subs'[x].waiting => subs'[x].id = NoSid
                      /\ subs'[x].waiting /\ x \in descriptors' => ws' # "open"
                      /\ subs'[x].id # NoSid => x \in descriptors' \/ Unsubs(x)'
    BY DEF ObjectEntries
  <2> QED BY <1>1, <1>4, <1>7 DEF Entries, ObjectEntries
<1>12. UnsubsNameOne'
  <2>1. \A id \in 0 .. lastId' - 1 : id \in 0 .. lastId - 1 \/ id = lastId
    BY <1>3, <1>5
  <2>2. \A id \in 0 .. lastId - 1 : Call(id)' = Call(id)
    BY <1>3 DEF Grown
  <2>3. \A id \in 0 .. lastId' - 1 : Call(id)'.type = "unsub" => Call(id)'.sid # NoSid
    BY <1>2, <1>3, <2>1, <2>2 DEF Entries, UnsubsNameOne
  <2> QED BY <2>3 DEF UnsubsNameOne
<1> QED BY <1>1, <1>6, <1>9, <1>10, <1>11, <1>12 DEF Entries

\* An answer that carries a sub_id for a subscription that waits for it.
LEMMA EntriesOfPromotion ==
    ASSUME ClientTypes, Entries, Kinds, Link, NEW m, m \in Answers, down # << >>, Head(down) = m,
           m.sid # NoSid, m.id \in pendingOutSubs, ReceiveAnswer
    PROVE  ClientTypes' /\ Entries' /\ pendingOutSubs' = pendingOutSubs \ {m.id}
           /\ outSubs' = [outSubs EXCEPT ![m.sid] = Call(m.id).sub]
           /\ subs' = [subs EXCEPT ![Call(m.id).sub].id = m.sid]
           /\ descriptors' = descriptors /\ Call(m.id).sub \in descriptors
<1> DEFINE o == Call(m.id).sub
<1>1. /\ subs' = [subs EXCEPT ![o].id = m.sid] /\ outSubs' = [outSubs EXCEPT ![m.sid] = o]
      /\ descriptors' = descriptors \cup {o} /\ pendingOutSubs' = pendingOutSubs \ {m.id}
      /\ ws' = ws /\ msgs' = msgs
  BY DEF ReceiveAnswer
<1>2. o \in descriptors /\ o \in Subs /\ subs[o].reqId = m.id /\ subs[o].id = NoSid /\ IsA(m.id, "sub")
  BY DEF Entries, PendingEntries, Kinds, ClientTypes
<1>3. m.sid \in Sids /\ ws = "open" /\ m.id # NoId
  BY <1>2 DEF Answers, Link, IsA, NoId
<1> HIDE DEF o
<1>4. Grown /\ lastId' = lastId /\ \A id : Call(id)' = Call(id)
  BY <1>1, GrownKept DEF Call
<1>5. /\ \A id, type : IsA(id, type) => IsA(id, type)'
      /\ \A x : Unsubs(x) => Unsubs(x)'
  BY <1>4, CallsStay
<1>6. /\ subs' \in [Subs -> Objects] /\ \A x \in Subs \ {o} : subs'[x] = subs[x]
      /\ subs'[o].id = m.sid /\ subs'[o].reqId = m.id /\ subs'[o].waiting = subs[o].waiting
  <2>1. subs[o] \in Objects /\ [subs[o] EXCEPT !.id = m.sid] \in Objects
    BY <1>2, <1>3 DEF ClientTypes, Objects
  <2>2. /\ subs'[o] = [subs[o] EXCEPT !.id = m.sid]
        /\ \A x \in Subs \ {o} : subs'[x] = subs[x]
        /\ subs' \in [Subs -> Objects]
    BY <1>1, <1>2, <2>1 DEF ClientTypes
  <2> QED BY <1>2, <2>1, <2>2 DEF Objects
<1>7. descriptors' = descriptors
  BY <1>1, <1>2
<1>8. ClientTypes'
  BY <1>1, <1>2, <1>3, <1>4, <1>6, <1>7 DEF ClientTypes
<1>9. ASSUME NEW id \in pendingOutSubs'
      PROVE  /\ Call(id)'.sub \in descriptors'
             /\ subs'[Call(id)'.sub].reqId = id /\ subs'[Call(id)'.sub].id = NoSid
  <2>1. id \in pendingOutSubs /\ id # m.id
    BY <1>1
  <2>2. Call(id).sub \in descriptors /\ subs[Call(id).sub].reqId = id /\ subs[Call(id).sub].id = NoSid
    BY <2>1 DEF Entries, PendingEntries
  <2>3. Call(id).sub # o /\ Call(id).sub \in Subs
    BY <1>2, <2>1, <2>2 DEF ClientTypes
  <2> QED BY <1>4, <1>6, <1>7, <2>2, <2>3
<1>10. PendingEntries'
  BY <1>9 DEF PendingEntries
<1>11. ActiveEntries'
  <2> SUFFICES ASSUME NEW sid \in Sids, outSubs'[sid] # NoSub
               PROVE  outSubs'[sid] \in descriptors' /\ subs'[outSubs'[sid]].id = sid
    BY DEF ActiveEntries
  <2>1. CASE sid = m.sid
    <3>1. outSubs'[sid] = o
      BY <1>1, <2>1 DEF ClientTypes
    <3> QED BY <1>2, <1>6, <1>7, <2>1, <3>1
  <2>2. CASE sid # m.sid
    <3>1. outSubs'[sid] = outSubs[sid]
      BY <1>1, <2>2 DEF ClientTypes
    <3>2. outSubs[sid] \in descriptors /\ subs[outSubs[sid]].id = sid
      BY <3>1 DEF Entries, ActiveEntries
    <3>3. outSubs[sid] # o /\ outSubs[sid] \in Subs
      BY <1>2, <3>2 DEF ClientTypes, Sids, NoSid
    <3> QED BY <1>6, <1>7, <3>1, <3>2, <3>3
  <2> QED BY <2>1, <2>2
<1>12. ObjectEntries'
  <2> SUFFICES ASSUME NEW x \in Subs
               PROVE  /\ subs'[x].reqId = NoId \/ subs'[x].waiting => subs'[x].id = NoSid
                      /\ subs'[x].waiting /\ x \in descriptors' => ws' # "open"
                      /\ subs'[x].id # NoSid => x \in descriptors' \/ Unsubs(x)'
    BY DEF ObjectEntries
  <2>1. CASE x = o
    BY <1>2, <1>3, <1>6, <1>7, <2>1 DEF Entries, ObjectEntries
  <2>2. CASE x # o
    BY <1>1, <1>5, <1>6, <1>7, <2>2 DEF Entries, ObjectEntries
  <2> QED BY <2>1, <2>2
<1>13. UnsubsNameOne'
  BY <1>4 DEF Entries, UnsubsNameOne
<1> QED BY <1>1, <1>2, <1>7, <1>8, <1>10, <1>11, <1>12, <1>13 DEF Entries, o

LEMMA EntriesOfOpens ==
    ASSUME ClientTypes, Entries, Kinds, NEW how, Opens(how)
    PROVE  ClientTypes' /\ Entries' /\ Grown
           /\ pendingOutSubs' = lastId .. lastId' - 1
           /\ (\A id \in pendingOutSubs' : IsA(id, "sub")')
           /\ (\A sid \in Sids : outSubs'[sid] = NoSub)
           /\ (\A o \in descriptors' : subs'[o].id = NoSid)
<1>1. /\ ws' = "open" /\ ResubscribeAll /\ UNCHANGED descriptors
  BY DEF Opens
<1>2. PICK again \in Seq(Subs), ids \in Seq(Nat) :
               /\ ToSet(again) = {o \in descriptors : ~subs[o].waiting}
               /\ Len(ids) = Len(again) /\ Increasing(ids)
               /\ lastId' = lastId + Len(again) /\ lastId' <= MaxId /\ Grown
               /\ ToSet(ids) = lastId .. lastId' - 1
               /\ \A i \in 1 .. Len(again) :
                      /\ ids[i] = lastId - 1 + i
                      /\ msgs'[lastId + i] = [type |-> "sub", sub |-> again[i], sid |-> NoSid, again |-> TRUE]
                      /\ subs'[again[i]] = [subs[again[i]] EXCEPT !.id = NoSid, !.reqId = lastId - 1 + i]
               /\ \A o \in Subs : o \notin ToSet(again) =>
                      subs'[o] = IF o \in descriptors THEN [subs[o] EXCEPT !.waiting = FALSE] ELSE subs[o]
               /\ DOMAIN subs' = Subs
               /\ pendingOutSubs' = (pendingOutSubs \ {subs[o].reqId : o \in descriptors}) \cup ToSet(ids)
               /\ Drain(queue \o ids, inFlight, pending)
  BY <1>1, Resubscribed
<1>3. lastId \in Nat /\ lastId' \in Nat /\ lastId' <= MaxId /\ Len(again) \in Nat
  BY <1>2, LenProperties DEF Grown
<1>4. pendingOutSubs' = ToSet(ids)
  <2>1. \A id \in pendingOutSubs : \E o \in descriptors : subs[o].reqId = id
    BY DEF Entries, PendingEntries
  <2>2. pendingOutSubs' = (pendingOutSubs \ {subs[o].reqId : o \in descriptors}) \cup ToSet(ids)
    BY <1>2
  <2> QED BY <2>1, <2>2
<1>18. \A id \in ToSet(ids) : /\ id \in 0 .. lastId' - 1 /\ id \in Ids
                              /\ id - lastId + 1 \in 1 .. Len(again)
  <2>1. PICK n \in Nat : n = lastId'
    BY <1>3
  <2>2. ToSet(ids) = lastId .. n - 1 /\ n = lastId + Len(again) /\ n <= MaxId
    BY <1>2, <2>1, Zenon
  <2>3. \A id \in ToSet(ids) : id \in 0 .. n - 1 /\ id \in Ids /\ id - lastId + 1 \in 1 .. Len(again)
    BY <1>3, <2>2, CallsAssumption DEF Ids
  <2> QED BY <2>1, <2>3, Zenon
<1>5. /\ \A id, type : IsA(id, type) => IsA(id, type)' /\ Call(id)' = Call(id)
      /\ \A x : Unsubs(x) => Unsubs(x)'
  BY <1>2, CallsStay
<1>6. ASSUME NEW i \in 1 .. Len(again)
      PROVE  /\ again[i] \in descriptors /\ again[i] \in Subs /\ ~subs[again[i]].waiting
             /\ subs'[again[i]] \in Objects
             /\ subs'[again[i]].id = NoSid /\ subs'[again[i]].reqId = lastId - 1 + i
             /\ subs'[again[i]].waiting = FALSE
  <2>1. again[i] \in ToSet(again)
    BY Members
  <2>2. again[i] \in descriptors /\ again[i] \in Subs /\ ~subs[again[i]].waiting /\ subs[again[i]] \in Objects
    BY <1>2, <2>1 DEF ClientTypes
  <2>3. lastId - 1 + i \in Ids
    <3>1. ids[i] \in ToSet(ids) /\ ids[i] = lastId - 1 + i
      BY <1>2, Members
    <3> QED BY <1>18, <3>1
  <2>4. subs'[again[i]] = [subs[again[i]] EXCEPT !.id = NoSid, !.reqId = lastId - 1 + i]
    BY <1>2
  <2> QED BY <2>2, <2>3, <2>4 DEF Objects
<1>7. ASSUME NEW o \in Subs, o \notin ToSet(again)
      PROVE  /\ subs'[o] \in Objects /\ subs'[o].id = subs[o].id /\ subs'[o].reqId = subs[o].reqId
             /\ o \in descriptors => subs[o].waiting /\ subs'[o].waiting = FALSE
             /\ o \notin descriptors => subs'[o] = subs[o]
  <2>1. subs[o] \in Objects
    BY DEF ClientTypes
  <2>2. CASE o \in descriptors
    <3>1. subs'[o] = [subs[o] EXCEPT !.waiting = FALSE]
      BY <1>2, <1>7, <2>2
    <3>2. subs[o].waiting
      BY <1>2, <1>7, <2>2
    <3> QED BY <2>1, <2>2, <3>1, <3>2 DEF Objects
  <2>3. CASE o \notin descriptors
    BY <1>2, <1>7, <2>1, <2>3
  <2> QED BY <2>2, <2>3
<1>8. \A o \in ToSet(again) : \E i \in 1 .. Len(again) : again[i] = o
  BY Members
<1>9. subs' \in [Subs -> Objects]
  <2>1. \A o \in Subs : subs'[o] \in Objects
    BY <1>6, <1>7, <1>8
  <2>2. subs' = [o \in Subs |-> subs'[o]]
    <3> DEFINE f(o) ==
            CASE o \notin descriptors -> subs[o]
              [] o \in descriptors /\ subs[o].waiting -> [subs[o] EXCEPT !.waiting = FALSE]
              [] OTHER -> [subs[o] EXCEPT !.id = NoSid,
                              !.reqId = lastId - 1 + CHOOSE i \in DOMAIN SetToSeq({x \in descriptors : ~subs[x].waiting}) :
                                            SetToSeq({x \in descriptors : ~subs[x].waiting})[i] = o]
    <3>1. subs' = [o \in Subs |-> f(o)]
      BY <1>1 DEF ResubscribeAll
    <3> HIDE DEF f
    <3> QED BY <3>1
  <2> QED BY <2>1, <2>2
<1>10. \A o \in descriptors' : subs'[o].id = NoSid
  <2> SUFFICES ASSUME NEW o \in descriptors PROVE subs'[o].id = NoSid
    BY <1>1
  <2>1. o \in Subs
    BY DEF ClientTypes
  <2>2. CASE o \in ToSet(again)
    BY <1>6, <1>8, <2>2, ZenonT(60)
  <2>3. CASE o \notin ToSet(again)
    BY <1>7, <2>1, <2>3 DEF Entries, ObjectEntries
  <2> QED BY <2>2, <2>3
<1>11. \A sid \in Sids : outSubs'[sid] = NoSub
  <2> SUFFICES ASSUME NEW sid \in Sids PROVE outSubs'[sid] = NoSub
    OBVIOUS
  <2>1. outSubs'[sid] = IF sid \in {subs[o].id : o \in descriptors} THEN NoSub ELSE outSubs[sid]
    BY <1>1 DEF ResubscribeAll, DropOutSubs
  <2>2. outSubs[sid] # NoSub => sid \in {subs[o].id : o \in descriptors}
    BY DEF Entries, ActiveEntries
  <2> QED BY <2>1, <2>2
<1>12. ClientTypes'
  <2>1. outSubs' \in [Sids -> Subs \cup {NoSub}]
    BY <1>1, <1>11 DEF ResubscribeAll, DropOutSubs
  <2>2. pendingOutSubs' \subseteq Ids
    BY <1>4, <1>18
  <2> QED BY <1>1, <1>2, <1>3, <1>9, <2>1, <2>2 DEF ClientTypes, Grown
<1>13. ASSUME NEW id \in pendingOutSubs'
       PROVE  /\ Call(id)'.sub \in descriptors' /\ IsA(id, "sub")'
              /\ subs'[Call(id)'.sub].reqId = id /\ subs'[Call(id)'.sub].id = NoSid
  <2> DEFINE i == id - lastId + 1
  <2>0. id \in ToSet(ids) /\ id \in Nat
    BY <1>4, <1>18 DEF Ids
  <2>1. i \in 1 .. Len(again) /\ id = lastId - 1 + i /\ lastId + i = id + 1 /\ id \in 0 .. lastId' - 1
    <3>1. id = lastId - 1 + i /\ lastId + i = id + 1
      BY <1>3, <2>0
    <3>2. i \in 1 .. Len(again) /\ id \in 0 .. lastId' - 1
      BY <1>18, <2>0
    <3> QED BY <3>1, <3>2
  <2> HIDE DEF i
  <2>2. msgs'[id + 1] = [type |-> "sub", sub |-> again[i], sid |-> NoSid, again |-> TRUE]
    BY <1>2, <2>1
  <2>3. Call(id)'.sub = again[i] /\ Call(id)'.type = "sub"
    BY <2>2 DEF Call
  <2> QED BY <1>1, <1>6, <2>1, <2>3 DEF IsA
<1>14. PendingEntries'
  BY <1>13 DEF PendingEntries
<1>15. ActiveEntries'
  BY <1>11 DEF ActiveEntries
<1>16. ObjectEntries'
  <2> SUFFICES ASSUME NEW o \in Subs
               PROVE  /\ subs'[o].reqId = NoId \/ subs'[o].waiting => subs'[o].id = NoSid
                      /\ subs'[o].waiting => o \notin descriptors'
                      /\ subs'[o].id # NoSid => o \in descriptors' \/ Unsubs(o)'
    BY DEF ObjectEntries
  <2>1. CASE o \in ToSet(again)
    BY <1>6, <1>8, <2>1, ZenonT(60)
  <2>2. CASE o \notin ToSet(again)
    BY <1>1, <1>5, <1>7, <2>2 DEF Entries, ObjectEntries
  <2> QED BY <2>1, <2>2
<1>17. UnsubsNameOne'
  <2>1. \A id \in 0 .. lastId' - 1 : id \in 0 .. lastId - 1 \/ id \in pendingOutSubs'
    <3>1. \A id \in 0 .. lastId' - 1 : id \in 0 .. lastId - 1 \/ id \in lastId .. lastId' - 1
      BY <1>2, Wider DEF Grown
    <3> QED BY <1>2, <1>4, <3>1
  <2>2. \A id \in 0 .. lastId - 1 : Call(id)' = Call(id)
    BY <1>2 DEF Grown
  <2>3. \A id \in pendingOutSubs' : Call(id)'.type = "sub"
    BY <1>13 DEF IsA
  <2>4. \A id \in 0 .. lastId' - 1 : Call(id)'.type = "unsub" => Call(id)'.sid # NoSid
    BY <2>1, <2>2, <2>3 DEF Entries, UnsubsNameOne
  <2> QED BY <2>4 DEF UnsubsNameOne
<1>19. pendingOutSubs' = lastId .. lastId' - 1
  BY <1>2, <1>4, Zenon
<1> QED BY <1>2, <1>19, <1>10, <1>11, <1>12, <1>13, <1>14, <1>15, <1>16, <1>17 DEF Entries

\* The steps of the server.
LEMMA KindsOfServer ==
    ASSUME Types, Kinds, Line, UNCHANGED client,
           rx'.pc \in {"check", "ack"} =>
               rx'.job = rx.job /\ rx.pc # "idle" /\ Call(rx.job.id).type = "cmd",
           \A m \in ToSet(down') : m.type = "ack" => m \in ToSet(down) \/ IsA(m.id, "cmd")
    PROVE  Kinds'
<1>1. /\ \A id, type : IsA(id, type) => IsA(id, type)'
      /\ UNCHANGED <<acked, pendingOutSubs, msgs>> /\ lastId' = lastId
  BY DEF client, table, objects, IsA, Call, lastId
<1>2. ASSUME rx'.pc \in {"check", "ack"} PROVE IsA(rx.job.id, "cmd")
  <2>1. rx.job.id < lastId /\ rx.job.id \in Ids /\ Call(rx.job.id).type = "cmd" /\ lastId \in Nat
    BY <1>2, IdsOfServer, LenProperties DEF Line, Ahead, Types, ClientTypes, lastId
  <2> QED BY <2>1, CallsAssumption DEF IsA, Ids
<1>3. (rx.pc \in {"check", "ack"} => IsA(rx.job.id, "cmd"))'
  BY <1>1, <1>2 DEF IsA, Call
<1>4. \A m \in ToSet(down') : m.type = "ack" => IsA(m.id, "cmd")'
  BY <1>1 DEF Kinds
<1> QED BY <1>1, <1>3, <1>4 DEF Kinds

LEMMA KindsOfRx ==
    ASSUME Types, Kinds, Line,
           \/ HttpdRead \/ RxTake \/ RxAssign \/ RxMark \/ RxCheck \/ RxAck
           \/ CallbackReturns \/ DispatchUnsub
           \/ \E type \in {"resp", "err"} : CallbackAnswers(type)
           \/ \E w \in work : AppMarks(w) \/ \E type \in {"resp", "err"} : AppAnswers(w, type)
    PROVE  Kinds'
<1>1. CASE HttpdRead
  BY <1>1, KindsOfServer DEF HttpdRead, Kinds, IsA
<1>2. CASE RxTake
  <2>1. rx'.pc \in {"assign", "callback"} /\ UNCHANGED <<client, down>>
    BY <1>2 DEF RxTake, IdleRx
  <2> QED BY <2>1, KindsOfServer
<1>3. CASE RxAssign
  <2>1. rx'.pc \in {"idle", "callback"} /\ UNCHANGED <<client, down>>
    BY <1>3, IdleIsTyped DEF RxAssign, Types, ServerTypes
  <2> QED BY <2>1, KindsOfServer
<1>4. CASE RxMark \/ CallbackReturns
  <2>1. RxDispatched /\ rx.pc # "idle" /\ UNCHANGED <<client, down>>
    BY <1>4 DEF RxMark, CallbackReturns
  <2>2. rx'.pc \in {"check", "ack"} => rx'.job = rx.job /\ Call(rx.job.id).type = "cmd"
    BY <2>1, Finished, IdleIsTyped DEF Types, ServerTypes
  <2> QED BY <2>1, <2>2, KindsOfServer
<1>5. CASE RxCheck
  <2>1. Call(rx.job.id).type = "cmd" /\ rx.pc # "idle" /\ UNCHANGED <<client, down>>
    BY <1>5 DEF RxCheck, Kinds, IsA
  <2>2. rx'.pc \in {"check", "ack"} => rx'.job = rx.job
    BY <1>5, IdleIsTyped DEF RxCheck, RxFinished, Types, ServerTypes
  <2> QED BY <2>1, <2>2, KindsOfServer
<1>6. CASE RxAck
  <2> DEFINE m0 == [type |-> "ack", id |-> rx.job.id, sid |-> NoSid]
  <2>1. /\ rx' = IdleRx /\ UNCHANGED client /\ SendJson(rx.job.gen, "ack", rx.job.id, NoSid)
        /\ IsA(rx.job.id, "cmd") /\ rx.job.id \in Ids
    BY <1>6, IdsOfServer DEF RxAck, RxFinished, Kinds
  <2>2. m0 \in Answers /\ m0.id = rx.job.id
    BY <2>1 DEF Answers
  <2>3. ToSet(down') \subseteq ToSet(down) \cup {m0}
    BY <2>1, <2>2, Sent
  <2> HIDE DEF m0
  <2>4. \A m \in ToSet(down') : m \in ToSet(down) \/ IsA(m.id, "cmd")
    BY <2>1, <2>2, <2>3
  <2> QED BY <2>1, <2>4, IdleIsTyped, KindsOfServer
<1>7. ASSUME NEW gen, NEW type, NEW id, NEW sid, [type |-> type, id |-> id, sid |-> sid] \in Answers,
             type # "ack", SendJson(gen, type, id, sid)
      PROVE  \A m \in ToSet(down') : m.type = "ack" => m \in ToSet(down)
  <2>1. ToSet(down') \subseteq ToSet(down) \cup {[type |-> type, id |-> id, sid |-> sid]}
    BY <1>7, Sent
  <2> QED BY <1>7, <2>1
<1>8. /\ \A m \in {rx.job} \cup work : [type |-> "resp", id |-> m.id, sid |-> NoSid] \in Answers
                                       /\ [type |-> "err", id |-> m.id, sid |-> NoSid] \in Answers
      /\ [type |-> "resp", id |-> rx.job.id, sid |-> rx.sid] \in Answers
      /\ \A w \in work : [type |-> "resp", id |-> w.id, sid |-> w.sid] \in Answers
  BY IdsOfServer DEF Answers, Types, ServerTypes
<1>9. CASE DispatchUnsub
  <2>1. rx'.pc = "mark" /\ UNCHANGED client /\ SendJson(rx.job.gen, "resp", rx.job.id, NoSid)
    BY <1>9 DEF DispatchUnsub, Types, ServerTypes
  <2>2. \A m \in ToSet(down') : m.type = "ack" => m \in ToSet(down)
    BY <1>7, <1>8, <2>1
  <2> QED BY <2>1, <2>2, KindsOfServer
<1>10. CASE CallbackAnswers("resp")
  <2>1. rx'.pc = "mark" /\ UNCHANGED client /\ SendJson(rx.job.gen, "resp", rx.job.id, rx.sid)
    BY <1>10 DEF CallbackAnswers, Types, ServerTypes
  <2>2. \A m \in ToSet(down') : m.type = "ack" => m \in ToSet(down)
    BY <1>7, <1>8, <2>1
  <2> QED BY <2>1, <2>2, KindsOfServer
<1>11. CASE CallbackAnswers("err")
  <2>1. rx'.pc = "mark" /\ UNCHANGED client /\ SendJson(rx.job.gen, "err", rx.job.id, NoSid)
    BY <1>11 DEF CallbackAnswers, Types, ServerTypes
  <2>2. \A m \in ToSet(down') : m.type = "ack" => m \in ToSet(down)
    BY <1>7, <1>8, <2>1
  <2> QED BY <2>1, <2>2, KindsOfServer
<1>12. ASSUME UNCHANGED <<client, rx>>, \A m \in ToSet(down') : m.type = "ack" => m \in ToSet(down)
       PROVE  Kinds'
  BY <1>12, KindsOfServer DEF Kinds, IsA
<1>13. ASSUME NEW w \in work, AppMarks(w) PROVE Kinds'
  BY <1>12, <1>13 DEF AppMarks
<1>14. ASSUME NEW w \in work, AppAnswers(w, "resp") PROVE Kinds'
  <2>1. UNCHANGED <<client, rx>> /\ SendJson(w.gen, "resp", w.id, w.sid)
    BY <1>14 DEF AppAnswers
  <2>2. \A m \in ToSet(down') : m.type = "ack" => m \in ToSet(down)
    BY <1>7, <1>8, <2>1
  <2> QED BY <1>12, <2>1, <2>2
<1>15. ASSUME NEW w \in work, AppAnswers(w, "err") PROVE Kinds'
  <2>1. UNCHANGED <<client, rx>> /\ SendJson(w.gen, "err", w.id, NoSid)
    BY <1>15 DEF AppAnswers
  <2>2. \A m \in ToSet(down') : m.type = "ack" => m \in ToSet(down)
    BY <1>7, <1>8, <2>1
  <2> QED BY <1>12, <2>1, <2>2
<1> QED BY <1>1, <1>2, <1>3, <1>4, <1>5, <1>6, <1>9, <1>10, <1>11, <1>13, <1>14, <1>15

\* The objects are only dropped, and nothing is made.
LEMMA ObjectsDrop ==
    ASSUME Types, Entries, Kinds, UNCHANGED <<msgs, outSubs, rx>>,
           ws' \in {"closed", "connecting", "open"}, ws' = "open" => ws = "open",
           subs' \in [Subs -> Objects],
           \A o \in Subs : /\ subs'[o].reqId = subs[o].reqId /\ subs'[o].id = subs[o].id
                           /\ subs'[o].waiting = subs[o].waiting,
           pendingOutSubs' \subseteq pendingOutSubs, descriptors' \subseteq descriptors,
           \A o \in descriptors \ descriptors' :
               subs[o].id = NoSid /\ subs[o].reqId \notin pendingOutSubs',
           ToSet(down') \subseteq ToSet(down),
           \A id \in acked' : id \in acked \/ IsA(id, "cmd")
    PROVE  ClientTypes' /\ Entries' /\ Kinds' /\ Grown
<1>1. Grown /\ lastId' = lastId
  BY GrownKept DEF Types
<1>2. ClientTypes'
  BY <1>1 DEF Types, ClientTypes
<1>3. Kinds'
  BY <1>1, KindsOfClient
<1>4. \A id \in lastId .. lastId' - 1 : Call(id)'.type = "unsub" => Call(id)'.sid # NoSid
  <2>1. lastId \in Nat /\ lastId .. lastId - 1 = {}
    BY <1>1 DEF Grown
  <2>2. lastId .. lastId' - 1 = {}
    BY <1>1, <2>1, Zenon
  <2> QED BY <2>2
<1>5. Entries'
  BY <1>1, <1>4, EntriesShrink DEF Types
<1> QED BY <1>1, <1>2, <1>3, <1>5

LEMMA ObjectsOfSend ==
    ASSUME Types, Entries, Kinds, NEW type \in CallTypes, Send(type)
    PROVE  ClientTypes' /\ Entries' /\ Kinds' /\ Grown
<1> DEFINE m == [type |-> type, sub |-> NoSub, sid |-> NoSid, again |-> FALSE]
<1>1. /\ lastId < MaxId /\ msgs' = Append(msgs, m) /\ ws' = ws
      /\ UNCHANGED <<acked, subs, pendingOutSubs, outSubs, descriptors, down, rx>>
  BY DEF Send, objects, server
<1>2. m \in Messages /\ m.type # "unsub"
  BY CallsAssumption DEF Messages
<1> HIDE DEF m
<1>3. Grown /\ lastId' = lastId + 1 /\ \A id : id = lastId => Call(id)' = m
  BY <1>1, <1>2, GrownByOne DEF Types
<1>4. lastId \in Nat /\ lastId' <= MaxId
  BY <1>1, <1>3, CallsAssumption DEF Grown
<1>5. ClientTypes'
  BY <1>1, <1>3, <1>4 DEF Types, ClientTypes, Grown
<1>6. Kinds'
  BY <1>1, <1>3, KindsOfClient
<1>7. \A id \in lastId .. lastId' - 1 : Call(id)'.type = "unsub" => Call(id)'.sid # NoSid
  <2>1. \A id \in lastId .. (lastId + 1) - 1 : id = lastId
    BY <1>4
  <2>2. \A id \in lastId .. lastId' - 1 : id = lastId
    BY <1>3, <2>1, Zenon
  <2> QED BY <1>2, <1>3, <2>2
<1>8. Entries'
  BY <1>1, <1>3, <1>7, EntriesShrink DEF Types
<1> QED BY <1>3, <1>5, <1>6, <1>8

LEMMA ObjectsOfAnswer ==
    ASSUME Types, Entries, Kinds, Link, ReceiveAnswer
    PROVE  ClientTypes' /\ Entries' /\ Kinds' /\ Grown
<1> DEFINE m == Head(down)
           o == Call(m.id).sub
<1>1. /\ down # << >> /\ ws' = ws /\ down' = Tail(down) /\ UNCHANGED <<msgs, rx>>
      /\ acked' \subseteq acked
  <2>1. down # << >> /\ ws' = ws /\ down' = Tail(down) /\ UNCHANGED <<msgs, rx>>
    BY DEF ReceiveAnswer, server
  <2>2. acked' \subseteq acked
    BY DEF ReceiveAnswer, table
  <2> QED BY <2>1, <2>2
<1>2. m \in Answers /\ ToSet(down') \subseteq ToSet(down)
  <2>1. down \in Seq(Answers)
    BY DEF Types, ServerTypes
  <2>2. m \in ToSet(down) /\ ToSet(Tail(down)) \subseteq ToSet(down)
    BY <1>1, <2>1, Shifted
  <2> QED BY <1>1, <2>2, IdsOfServer
<1>3. CASE m.sid # NoSid /\ m.id \in pendingOutSubs
  <2>1. /\ ClientTypes' /\ Entries' /\ pendingOutSubs' = pendingOutSubs \ {m.id}
    <3> HIDE DEF m
    <3>1. m = Head(down)
      BY DEF m
    <3> QED BY <1>1, <1>2, <1>3, <3>1, EntriesOfPromotion DEF Types
  <2>2. Grown
    BY <1>1, GrownKept DEF Types
  <2>3. Kinds'
    BY <1>1, <1>2, <2>1, <2>2, KindsOfClient
  <2> QED BY <2>1, <2>2, <2>3
<1>4. CASE ~(m.sid # NoSid /\ m.id \in pendingOutSubs)
  <2>1. /\ UNCHANGED <<subs, outSubs>>
        /\ pendingOutSubs' \subseteq pendingOutSubs /\ descriptors' \subseteq descriptors
        /\ \A x \in descriptors \ descriptors' :
               x = o /\ m.id \in pendingOutSubs /\ pendingOutSubs' = pendingOutSubs \ {m.id}
    <3>1. CASE m.type = "err" /\ m.id \in pendingOutSubs /\ m.id \in pending
      BY <1>4, <3>1 DEF ReceiveAnswer
    <3>2. CASE ~(m.type = "err" /\ m.id \in pendingOutSubs /\ m.id \in pending)
      BY <1>4, <3>2 DEF ReceiveAnswer
    <3> QED BY <3>1, <3>2
  <2>2. \A x \in descriptors \ descriptors' :
            subs[x].id = NoSid /\ subs[x].reqId \notin pendingOutSubs'
    BY <2>1 DEF Entries, PendingEntries
  <2>3. ws \in {"closed", "connecting", "open"} /\ subs \in [Subs -> Objects]
    BY DEF Types, ClientTypes
  <2> HIDE DEF m, o
  <2>4. subs' \in [Subs -> Objects] /\ ws' \in {"closed", "connecting", "open"}
    BY <1>1, <2>1, <2>3
  <2> QED BY <1>1, <1>2, <2>1, <2>2, <2>4, ObjectsDrop
<1> QED BY <1>3, <1>4

\* Every step keeps the objects and what the ids name.
LEMMA ObjectsStep ==
    ASSUME Types, Entries, Kinds, Link, Line, [Next]_vars
    PROVE  ClientTypes' /\ Entries' /\ Kinds' /\ Grown
<1> USE DEF objects, server, table
<1>0. ws \in {"closed", "connecting", "open"} /\ subs \in [Subs -> Objects] /\ down \in Seq(Answers)
  BY DEF Types, ClientTypes, ServerTypes
<1>1. ASSUME NEW type \in CallTypes, Send(type) PROVE ClientTypes' /\ Entries' /\ Kinds' /\ Grown
  BY <1>1, ObjectsOfSend
<1>2. ASSUME NEW o \in Subs, Subscribe(o) PROVE ClientTypes' /\ Entries' /\ Kinds' /\ Grown
  <2>1. ClientTypes' /\ Entries' /\ \A id \in pendingOutSubs' : id \in pendingOutSubs \/ IsA(id, "sub")'
    BY <1>2, EntriesOfSubscribe DEF Types
  <2>2. Grown
    <3>1. [type |-> "sub", sub |-> o, sid |-> NoSid, again |-> FALSE] \in Messages
      BY DEF Messages
    <3> QED BY <1>2, <3>1, GrownByOne DEF Subscribe, Types
  <2>3. UNCHANGED <<rx, down, acked>>
    BY <1>2 DEF Subscribe
  <2> QED BY <2>1, <2>2, <2>3, KindsOfClient
<1>3. ASSUME NEW o \in Subs, Unsubscribe(o) PROVE ClientTypes' /\ Entries' /\ Kinds' /\ Grown
  <2>1. ClientTypes' /\ Entries' /\ pendingOutSubs' = pendingOutSubs
    BY <1>3, EntriesOfUnsubscribe DEF Types
  <2>2. Grown
    <3>1. [type |-> "unsub", sub |-> o, sid |-> subs[o].id, again |-> FALSE] \in Messages
      BY <1>0 DEF Messages, Objects
    <3> QED BY <1>3, <3>1, GrownByOne DEF Unsubscribe, Types
  <2>3. UNCHANGED <<rx, down, acked>>
    BY <1>3 DEF Unsubscribe
  <2> QED BY <2>1, <2>2, <2>3, KindsOfClient
<1>4. ASSUME NEW o \in Subs, CancelPending(o) PROVE ClientTypes' /\ Entries' /\ Kinds' /\ Grown
  <2>1. /\ subs[o].id = NoSid /\ UNCHANGED <<msgs, outSubs, rx, down>> /\ ws' = ws
        /\ subs' = [subs EXCEPT ![o].canceled = TRUE]
        /\ pendingOutSubs' = pendingOutSubs \ {subs[o].reqId} /\ descriptors' = descriptors \ {o}
        /\ acked' \subseteq acked
    BY <1>4 DEF CancelPending
  <2>2. /\ subs' \in [Subs -> Objects]
        /\ \A x \in Subs : /\ subs'[x].reqId = subs[x].reqId /\ subs'[x].id = subs[x].id
                           /\ subs'[x].waiting = subs[x].waiting
    <3>1. /\ \A x \in Subs \ {o} : subs'[x] = subs[x]
          /\ subs'[o] = [subs[o] EXCEPT !.canceled = TRUE] /\ subs[o] \in Objects
      BY <1>0, <2>1
    <3>2. [subs[o] EXCEPT !.canceled = TRUE] \in Objects
      BY <3>1 DEF Objects
    <3>3. subs' \in [Subs -> Objects]
      BY <1>0, <2>1, <3>2
    <3>4. /\ subs'[o].reqId = subs[o].reqId /\ subs'[o].id = subs[o].id
          /\ subs'[o].waiting = subs[o].waiting
      BY <3>1 DEF Objects
    <3> QED BY <3>1, <3>3, <3>4
  <2>3. \A x \in descriptors \ descriptors' :
            subs[x].id = NoSid /\ subs[x].reqId \notin pendingOutSubs'
    BY <2>1
  <2> QED BY <1>0, <2>1, <2>2, <2>3, ObjectsDrop
<1>5. ASSUME NEW ids, Forget(ids), UNCHANGED <<msgs, subs, outSubs, rx>>,
             ws' \in {"closed", "connecting", "open"}, ws' = "open" => ws = "open",
             ToSet(down') \subseteq ToSet(down), acked' \subseteq acked
      PROVE  ClientTypes' /\ Entries' /\ Kinds' /\ Grown
  <2>1. /\ pendingOutSubs' \subseteq pendingOutSubs /\ descriptors' \subseteq descriptors
        /\ \A x \in descriptors \ descriptors' :
               subs[x].id = NoSid /\ subs[x].reqId \notin pendingOutSubs'
    BY <1>5, Forgotten DEF Types
  <2> QED BY <1>0, <1>5, <2>1, ObjectsDrop
<1>6. ASSUME NEW id \in Ids, Timeout(id) PROVE ClientTypes' /\ Entries' /\ Kinds' /\ Grown
  BY <1>0, <1>5, <1>6 DEF Timeout
<1>7. CASE ConnectFails \/ ConnectionEnds
  <2>1. Forget(Rejected) /\ acked' = {} /\ ws' = "closed" /\ UNCHANGED <<msgs, subs, outSubs, rx>>
    BY <1>7 DEF ConnectFails, ConnectionEnds, ClearPending
  <2>2. ToSet(down') \subseteq ToSet(down)
    BY <1>7, TypesOfEnd DEF ConnectFails
  <2> QED BY <1>5, <2>1, <2>2
<1>8. CASE Connect
  BY <1>0, <1>8, ObjectsDrop DEF Connect
<1>9. ASSUME NEW how \in Reconnects, Opens(how) PROVE ClientTypes' /\ Entries' /\ Kinds' /\ Grown
  <2>1. ClientTypes' /\ Entries' /\ Grown /\ \A id \in pendingOutSubs' : IsA(id, "sub")'
    BY <1>9, EntriesOfOpens DEF Types
  <2>2. UNCHANGED <<rx, down, acked>>
    BY <1>9 DEF Opens
  <2> QED BY <2>1, <2>2, KindsOfClient
<1>10. CASE ReceiveAck
  <2>1. /\ UNCHANGED <<msgs, subs, outSubs, pendingOutSubs, descriptors, rx>> /\ ws' = ws
        /\ down # << >> /\ down' = Tail(down) /\ Head(down).type = "ack"
        /\ acked' \subseteq acked \cup {Head(down).id}
    BY <1>10 DEF ReceiveAck
  <2>2. Head(down) \in ToSet(down) /\ ToSet(down') \subseteq ToSet(down)
    BY <1>0, <2>1, Shifted
  <2>3. IsA(Head(down).id, "cmd")
    BY <2>1, <2>2 DEF Kinds
  <2>4. \A id \in acked' : id \in acked \/ IsA(id, "cmd")
    BY <2>1, <2>3
  <2> QED BY <1>0, <2>1, <2>2, <2>4, ObjectsDrop
<1>11. CASE ReceiveAnswer
  BY <1>11, ObjectsOfAnswer
<1>12. ASSUME UNCHANGED client PROVE ClientTypes' /\ Entries' /\ Grown
  <2>1. UNCHANGED <<ws, msgs, subs, outSubs, pendingOutSubs, descriptors>>
    BY <1>12 DEF client
  <2>2. Grown /\ lastId' = lastId /\ \A id : Call(id)' = Call(id)
    BY <2>1, GrownKept DEF Types, Call
  <2>3. ClientTypes'
    BY <2>1, <2>2 DEF Types, ClientTypes
  <2>4. PendingEntries' /\ ActiveEntries' /\ UnsubsNameOne'
    BY <2>1, <2>2 DEF Entries, PendingEntries, ActiveEntries, UnsubsNameOne
  <2>5. ObjectEntries'
    BY <2>1, <2>2, CallsStay DEF Entries, ObjectEntries
  <2> QED BY <2>2, <2>3, <2>4, <2>5 DEF Entries
<1>13. CASE \/ HttpdRead \/ RxTake \/ RxAssign \/ RxMark \/ RxCheck \/ RxAck
            \/ CallbackReturns \/ DispatchUnsub
            \/ \E type \in {"resp", "err"} : CallbackAnswers(type)
            \/ \E w \in work : AppMarks(w) \/ \E type \in {"resp", "err"} : AppAnswers(w, type)
  <2>1. UNCHANGED client
    BY <1>13 DEF HttpdRead, RxTake, RxAssign, RxMark, RxCheck, RxAck, CallbackReturns,
                 DispatchUnsub, CallbackAnswers, AppMarks, AppAnswers
  <2> QED BY <1>12, <1>13, <2>1, KindsOfRx
<1>14. CASE UNCHANGED vars
  <2>1. UNCHANGED <<client, rx, down>>
    BY <1>14 DEF vars
  <2>2. UNCHANGED <<acked, pendingOutSubs>>
    BY <2>1 DEF client
  <2>3. Kinds'
    BY <1>12, <2>1, <2>2, KindsOfClient
  <2> QED BY <1>12, <2>1, <2>3
<1> QED BY <1>1, <1>2, <1>3, <1>4, <1>6, <1>7, <1>8, <1>9, <1>10, <1>11, <1>13, <1>14 DEF Next

-----------------------------------------------------------------------------
(* The connection and the server.                                              *)

Core ==
    /\ Types /\ Table /\ QueueMoves /\ Kinds /\ Entries
    /\ Line /\ Link /\ Numbers /\ Handles /\ Current

\* A step of the client leaves the server alone, or begins or ends a connection.
ClientStep ==
    /\ UNCHANGED server /\ (ws' = "open" <=> ws = "open")
    /\ UNCHANGED down \/ (down # << >> /\ down' = Tail(down))
AppStep(w) == AppMarks(w) \/ AppAnswers(w, "resp") \/ AppAnswers(w, "err")
LEMMA Classes ==
    ASSUME [Next]_vars
    PROVE  \/ ClientStep \/ ConnectionEnds \/ \E how \in Reconnects : Opens(how)
           \/ HttpdRead \/ RxTake \/ RxAssign \/ RxMark \/ RxCheck \/ RxAck
           \/ CallbackReturns \/ DispatchUnsub \/ CallbackAnswers("resp") \/ CallbackAnswers("err")
           \/ \E w \in work : AppStep(w)
<1>1. ASSUME NEW type \in CallTypes, Send(type) PROVE ClientStep
  BY <1>1 DEF Send, ClientStep
<1>2. ASSUME NEW o \in Subs, Subscribe(o) \/ CancelPending(o) \/ Unsubscribe(o) PROVE ClientStep
  BY <1>2 DEF Subscribe, CancelPending, Unsubscribe, ClientStep
<1>3. ASSUME NEW id \in Ids, Timeout(id) PROVE ClientStep
  BY <1>3 DEF Timeout, ClientStep
<1>4. CASE Connect \/ ConnectFails
  BY <1>4 DEF Connect, ConnectFails, ClientStep, server
<1>5. CASE ReceiveAck
  BY <1>5 DEF ReceiveAck, ClientStep
<1>6. CASE ReceiveAnswer
  BY <1>6 DEF ReceiveAnswer, ClientStep
<1>7. CASE UNCHANGED vars
  BY <1>7 DEF vars, client, ClientStep
<1> QED BY <1>1, <1>2, <1>3, <1>4, <1>5, <1>6, <1>7 DEF Next, AppStep

LEMMA LineStep ==
    ASSUME Types, Table, QueueMoves, Kinds, Entries, Line, Link, Numbers, [Next]_vars
    PROVE  ServerTypes' /\ Line'
<1>1. Grown
  BY ObjectsStep
<1>2. (Moves \/ HttpdRead) /\ ToSet(queue) \subseteq Nat
  <2>1. Moves \/ HttpdRead
    BY TableStep DEF Types
  <2>2. ToSet(queue) \subseteq Nat
    BY Members DEF Table, Accounts
  <2> QED BY <2>1, <2>2
<1>3. CASE HttpdRead
  BY <1>3, LineOfRead, TypesOfRead
<1>4. CASE ~HttpdRead /\ ClientStep
  <2>1. /\ ServerTypes' /\ ToSet(down') \subseteq ToSet(down)
        /\ UNCHANGED <<slot, session, rxq, rx, work, streams, told, failed, mute>>
    BY <1>4, TypesOfClient DEF ClientStep
  <2> QED BY <1>1, <1>2, <1>4, <2>1, LineOfClient
<1>5. CASE ~HttpdRead /\ ConnectionEnds
  BY <1>1, <1>2, <1>5, TypesOfEnd, LineOfClient
<1>6. ASSUME ~HttpdRead, NEW how \in Reconnects, Opens(how) PROVE ServerTypes' /\ Line'
  BY <1>1, <1>2, <1>6, TypesOfOpens, LineOfClient
<1>7. CASE RxTake
  BY <1>7, TypesOfTake, LineOfTake
<1>8. CASE RxAssign
  BY <1>8, TypesOfAssign
<1>9. CASE RxMark \/ RxCheck \/ RxAck
  BY <1>9, TypesOfMark
<1>10. CASE CallbackReturns
  BY <1>10, TypesOfReturn
<1>11. CASE DispatchUnsub \/ CallbackAnswers("resp") \/ CallbackAnswers("err")
  <2>1. \A type \in {"resp", "err"} : CallbackAnswers(type) \/ DispatchUnsub => ServerTypes' /\ Line'
    BY TypesOfCallback
  <2> QED BY <1>11, <2>1
<1>12. ASSUME NEW w \in work, AppStep(w) PROVE ServerTypes' /\ Line'
  BY <1>12, TypesOfApp DEF AppStep
<1> QED BY <1>3, <1>4, <1>5, <1>6, <1>7, <1>8, <1>9, <1>10, <1>11, <1>12, Classes

LEMMA ClosedIsEmpty ==
    ASSUME Moves, ws' # "open", up = << >> PROVE up' = << >>
<1>1. PICK f : f = << >> /\ (up' = up \o f \/ up' \in {up, << >>})
  BY DEF Moves
<1>2. << >> \o << >> = << >>
  OBVIOUS
<1> QED BY <1>1, <1>2

LEMMA LinkStep ==
    ASSUME Types, Table, QueueMoves, Kinds, Entries, Line, Link, [Next]_vars
    PROVE  Link'
<1>1. /\ slot \in [used : BOOLEAN, gen : 0 .. MaxSessions, lastRecv : Ids, acked : BOOLEAN,
                   nextSub : 0 .. MaxId]
      /\ session \in Nat /\ slot.gen \in Nat
  BY CallsAssumption DEF Types, ServerTypes
<1>2. Moves \/ HttpdRead
  BY TableStep DEF Types
<1>3. CASE ClientStep
  <2>1. slot' = slot /\ session' = session
    BY <1>3 DEF ClientStep, server
  <2>2. ws' # "open" => up' = << >> /\ down' = << >>
    <3> SUFFICES ASSUME ws' # "open" PROVE up' = << >> /\ down' = << >>
      OBVIOUS
    <3>1. ws # "open" /\ up = << >> /\ down = << >>
      BY <1>3 DEF ClientStep, Link
    <3> QED BY <1>2, <1>3, <3>1, ClosedIsEmpty DEF ClientStep, HttpdRead
  <2> QED BY <1>3, <2>1, <2>2 DEF ClientStep, Link
<1>4. CASE ConnectionEnds
  <2>1. slot' = [slot EXCEPT !.used = FALSE] /\ ws' = "closed" /\ up' = << >> /\ down' = << >>
        /\ session' = session
    BY <1>4 DEF ConnectionEnds
  <2> QED BY <1>1, <2>1 DEF Link
<1>5. ASSUME NEW how \in Reconnects, Opens(how) PROVE Link'
  <2>1. /\ ws' = "open" /\ session' = session + 1
        /\ slot' = [slot EXCEPT !.used = TRUE, !.nextSub = 0,
                                !.gen = IF how = "same" THEN slot.gen ELSE slot.gen + 1]
        /\ (session = 0 => how = "other")
    BY <1>5 DEF Opens
  <2>2. slot'.used = TRUE /\ slot'.gen = IF how = "same" THEN slot.gen ELSE slot.gen + 1
    BY <1>1, <2>1
  <2> QED BY <1>1, <2>1, <2>2 DEF Link
<1>6. ASSUME UNCHANGED <<ws, session>>, slot'.used = slot.used, slot'.gen = slot.gen,
             up' = up \/ ws = "open", down' = down \/ slot.used
      PROVE  Link'
  BY <1>6 DEF Link
<1>7. CASE HttpdRead
  <2>1. UNCHANGED <<ws, session, slot, down>> /\ ws = "open"
    BY <1>7 DEF HttpdRead, client, Link
  <2> QED BY <1>6, <2>1
<1>8. ASSUME UNCHANGED <<client, up, session>>, slot'.used = slot.used, slot'.gen = slot.gen,
             down' = down \/ slot.used
      PROVE  Link'
  BY <1>6, <1>8 DEF client
<1>9. CASE RxTake
  BY <1>1, <1>8, <1>9 DEF RxTake, NoteReceived
<1>10. CASE RxAssign
  BY <1>1, <1>8, <1>10 DEF RxAssign
<1>11. CASE RxMark
  BY <1>1, <1>8, <1>11 DEF RxMark, MarkAcked
<1>12. CASE RxCheck \/ CallbackReturns
  BY <1>8, <1>12 DEF RxCheck, CallbackReturns
<1>13. CASE RxAck \/ DispatchUnsub \/ CallbackAnswers("resp") \/ CallbackAnswers("err")
  BY <1>8, <1>13 DEF RxAck, DispatchUnsub, CallbackAnswers, SendJson, Resolves
<1>14. ASSUME NEW w \in work, AppStep(w) PROVE Link'
  BY <1>1, <1>8, <1>14 DEF AppStep, AppMarks, AppAnswers, MarkAcked, SendJson, Resolves
<1> QED BY <1>3, <1>4, <1>5, <1>7, <1>9, <1>10, <1>11, <1>12, <1>13, <1>14, Classes

LEMMA NumbersStep ==
    ASSUME Types, Table, QueueMoves, Kinds, Entries, Line, Link, Numbers, [Next]_vars
    PROVE  Numbers'
<1>1. /\ slot \in [used : BOOLEAN, gen : 0 .. MaxSessions, lastRecv : Ids, acked : BOOLEAN,
                   nextSub : 0 .. MaxId]
      /\ slot.nextSub \in Nat /\ rx.job.id \in Nat
      /\ \A job \in ToSet(rxq) : job.id \in Nat
  BY IdsOfServer, CallsAssumption DEF Types, ServerTypes, Ids
<1>2. Grown /\ lastId \in Nat /\ lastId' \in Nat /\ lastId <= lastId'
  BY ObjectsStep DEF Grown
<1>3. ToSet(queue) \subseteq Nat /\ Coming \subseteq Nat
  BY Members DEF Table, Accounts, Line, Coming
<1>4. \A c \in Coming' : c \in Coming \/ (c \in Nat /\ lastId <= c)
  <2>1. CASE Moves
    <3>1. Coming' \subseteq Coming \cup (lastId .. lastId' - 1)
      BY <1>2, <1>3, <2>1, ComingMoves
    <3>2. \A c \in lastId .. lastId' - 1 : c \in Nat /\ lastId <= c
      BY <1>2
    <3> QED BY <3>1, <3>2
  <2>2. CASE HttpdRead
    <3>1. queue' = queue /\ up # << >> /\ up' = Tail(up) /\ up \in Seq(Nat)
      BY <2>2 DEF HttpdRead, client, table, Line
    <3>2. ToSet(up') \subseteq ToSet(up)
      BY <3>1, Shifted
    <3> QED BY <3>1, <3>2 DEF Coming
  <2> QED BY <2>1, <2>2, TableStep DEF Types
<1>5. ASSUME slot'.nextSub = slot.nextSub \/ slot'.nextSub = 0,
             \A job \in ToSet(rxq') : job \in ToSet(rxq) \/ job.id \in Coming,
             rx'.pc = "assign" => (rx'.job.id = rx.job.id /\ rx.pc = "assign") \/ rx'.job \in ToSet(rxq)
      PROVE  Numbers'
  <2>1. slot'.nextSub <= slot.nextSub /\ slot'.nextSub \in Nat
    BY <1>1, <1>5
  <2>2. \A n \in Nat : slot.nextSub <= n => slot'.nextSub <= n
    BY <1>1, <2>1
  <2>3. slot'.nextSub <= lastId'
    BY <1>1, <1>2, <2>1 DEF Numbers
  <2>4. \A c \in Coming' : slot'.nextSub <= c
    <3>1. \A c \in Coming' : c \in Nat /\ slot.nextSub <= c
      <4> SUFFICES ASSUME NEW c \in Coming' PROVE c \in Nat /\ slot.nextSub <= c
        OBVIOUS
      <4>1. CASE c \in Coming
        BY <1>3, <4>1 DEF Numbers
      <4>2. CASE c \in Nat /\ lastId <= c
        <5>1. slot.nextSub \in Nat /\ lastId \in Nat /\ slot.nextSub <= lastId
          BY <1>1, <1>2 DEF Numbers
        <5> QED BY <4>2, <5>1
      <4> QED BY <1>4, <4>1, <4>2
    <3> QED BY <2>2, <3>1
  <2>5. \A job \in ToSet(rxq') : slot'.nextSub <= job.id
    BY <1>1, <1>3, <1>5, <2>2 DEF Numbers
  <2>6. rx'.pc = "assign" => slot'.nextSub <= rx'.job.id
    BY <1>1, <1>5, <2>2 DEF Numbers
  <2> QED BY <2>3, <2>4, <2>5, <2>6 DEF Numbers
<1>6. CASE ClientStep
  BY <1>5, <1>6 DEF ClientStep, server
<1>7. CASE ConnectionEnds
  BY <1>1, <1>5, <1>7 DEF ConnectionEnds
<1>8. ASSUME NEW how \in Reconnects, Opens(how) PROVE Numbers'
  BY <1>1, <1>5, <1>8 DEF Opens
<1>9. CASE HttpdRead
  <2> DEFINE job == [gen |-> slot.gen, id |-> Head(up), sess |-> session]
  <2>1. /\ UNCHANGED <<slot, rx>> /\ (rxq' = rxq \/ rxq' = Append(rxq, job)) /\ up # << >>
        /\ up \in Seq(Nat) /\ rxq' \in Seq(Jobs) /\ rxq \in Seq(Jobs)
    BY <1>9, TypesOfRead DEF HttpdRead, Line, Types, ServerTypes
  <2>2. job.id \in Coming
    BY <2>1, Shifted DEF Coming
  <2>3. ASSUME NEW j \in ToSet(rxq') PROVE j \in ToSet(rxq) \/ j = job
    <3>1. CASE rxq' = Append(rxq, job)
      <4> HIDE DEF job
      <4>1. /\ Len(Append(rxq, job)) = Len(rxq) + 1 /\ Len(rxq) \in Nat
            /\ \A i \in 1 .. Len(rxq) : Append(rxq, job)[i] = rxq[i]
            /\ Append(rxq, job)[Len(rxq) + 1] = job
        BY <2>1, LenProperties
      <4>4. Append(rxq, job) \in Seq(Jobs) /\ j \in ToSet(Append(rxq, job))
        BY <2>1, <2>3, <3>1
      <4>5. PICK i \in 1 .. Len(Append(rxq, job)) : Append(rxq, job)[i] = j
        BY <4>4, Members
      <4>2. i \in 1 .. Len(rxq) + 1 /\ Append(rxq, job)[i] = j
        BY <4>1, <4>5
      <4>3. i \in 1 .. Len(rxq) \/ i = Len(rxq) + 1
        BY <4>1
      <4> QED BY <2>1, <4>1, <4>2, <4>3, Members
    <3> QED BY <2>1, <2>3, <3>1
  <2> HIDE DEF job
  <2> QED BY <1>5, <2>1, <2>2, <2>3
<1>10. CASE RxTake
  <2>1. /\ rxq' = Tail(rxq) /\ rxq # << >> /\ rxq \in Seq(Jobs) /\ rx'.job = Head(rxq)
        /\ slot'.nextSub = slot.nextSub
    BY <1>1, <1>10 DEF RxTake, NoteReceived, IdleRx, Types, ServerTypes
  <2>2. Head(rxq) \in ToSet(rxq) /\ ToSet(rxq') \subseteq ToSet(rxq)
    BY <2>1, Shifted
  <2> QED BY <1>5, <2>1, <2>2
<1>11. CASE RxAssign
  <2>1. CASE Resolves(rx.job.gen)
    <3>1. /\ rx.pc = "assign" /\ slot'.nextSub = slot.nextSub + 1 /\ rx'.pc = "callback"
          /\ UNCHANGED <<rxq, client, up>>
      BY <1>1, <1>11, <2>1 DEF RxAssign, Types, ServerTypes
    <3>2. Coming' = Coming /\ lastId' = lastId
      BY <3>1 DEF client, table, Coming, lastId
    <3>3. Ahead(rx.job.id) /\ slot.nextSub <= rx.job.id
      BY <3>1 DEF Line, Numbers
    <3> QED BY <1>1, <1>2, <1>3, <3>1, <3>2, <3>3 DEF Numbers, Ahead
  <2>2. CASE ~Resolves(rx.job.gen)
    BY <1>5, <1>11, <2>2, IdleIsTyped DEF RxAssign
  <2> QED BY <2>1, <2>2
<1>12. ASSUME slot'.nextSub = slot.nextSub, UNCHANGED rxq, rx'.pc # "assign" \/ UNCHANGED rx
       PROVE  Numbers'
  BY <1>5, <1>12
<1>13. CASE RxMark \/ CallbackReturns
  <2>1. RxDispatched
    BY <1>13 DEF RxMark, CallbackReturns
  <2>2. rx'.pc # "assign"
    BY <2>1, Finished, IdleIsTyped DEF Types, ServerTypes
  <2> QED BY <1>1, <1>12, <1>13, <2>2 DEF RxMark, CallbackReturns, MarkAcked
<1>14. CASE RxCheck \/ RxAck
  <2>1. rx'.pc # "assign"
    BY <1>14, IdleIsTyped DEF RxCheck, RxAck, RxFinished, Types, ServerTypes
  <2> QED BY <1>1, <1>12, <1>14, <2>1 DEF RxCheck, RxAck
<1>15. CASE DispatchUnsub \/ CallbackAnswers("resp") \/ CallbackAnswers("err")
  BY <1>12, <1>15 DEF DispatchUnsub, CallbackAnswers, Types, ServerTypes
<1>16. ASSUME NEW w \in work, AppStep(w) PROVE Numbers'
  BY <1>1, <1>12, <1>16 DEF AppStep, AppMarks, AppAnswers, MarkAcked
<1> QED BY <1>6, <1>7, <1>8, <1>9, <1>10, <1>11, <1>13, <1>14, <1>15, <1>16, Classes

LEMMA HandlesStep ==
    ASSUME Types, Link, Handles, [Next]_vars
    PROVE  Handles'
<1>1. /\ slot \in [used : BOOLEAN, gen : 0 .. MaxSessions, lastRecv : Ids, acked : BOOLEAN,
                   nextSub : 0 .. MaxId]
      /\ session \in Nat /\ slot.gen \in Nat
      /\ \A job \in Jobs : job.gen \in Nat /\ job.sess \in Nat
      /\ rx.job \in Jobs /\ (\A job \in ToSet(rxq) : job \in Jobs) /\ \A w \in work : w.gen \in Nat
  BY IdsOfServer, CallsAssumption DEF Types, ServerTypes, Jobs
<1>2. ASSUME session' = session, slot'.gen = slot.gen,
             \A job \in ToSet(rxq') : job \in ToSet(rxq) \/ OfItsTime(job),
             rx'.pc # "idle" => (rx.pc # "idle" /\ rx'.job = rx.job) \/ rx'.job \in ToSet(rxq),
             \A w \in work' : \/ \E v \in work : w.gen = v.gen
                              \/ rx.pc # "idle" /\ w.gen = rx.job.gen
      PROVE  Handles'
  <2>1. \A job : OfItsTime(job) => OfItsTime(job)'
    BY <1>2 DEF OfItsTime
  <2>2. \A job \in ToSet(rxq') : OfItsTime(job)'
    BY <1>2, <2>1 DEF Handles
  <2>3. (rx.pc # "idle" => OfItsTime(rx.job))'
    BY <1>2 DEF Handles, OfItsTime
  <2>4. \A w \in work' : w.gen <= slot'.gen
    BY <1>2 DEF Handles, OfItsTime
  <2> QED BY <2>2, <2>3, <2>4 DEF Handles
<1>3. CASE ClientStep
  BY <1>2, <1>3 DEF ClientStep, server
<1>4. CASE ConnectionEnds
  BY <1>1, <1>2, <1>4 DEF ConnectionEnds
<1>5. ASSUME NEW how \in Reconnects, Opens(how) PROVE Handles'
  <2>1. /\ session' = session + 1 /\ UNCHANGED <<rxq, rx, work>>
        /\ slot'.gen \in {slot.gen, slot.gen + 1}
    BY <1>1, <1>5 DEF Opens
  <2>2. slot.gen <= slot'.gen /\ slot'.gen \in Nat
    BY <1>1, <2>1
  <2>3. ASSUME NEW job \in Jobs, OfItsTime(job)
        PROVE  job.sess <= session' /\ job.gen <= slot'.gen /\ job.sess # session'
    BY <1>1, <2>1, <2>2, <2>3 DEF OfItsTime
  <2>4. \A job \in ToSet(rxq') : OfItsTime(job)'
    BY <1>1, <2>1, <2>3 DEF Handles, OfItsTime
  <2>5. (rx.pc # "idle" => OfItsTime(rx.job))'
    BY <1>1, <2>1, <2>3 DEF Handles, OfItsTime
  <2>6. \A w \in work' : w.gen <= slot'.gen
    BY <1>1, <2>1, <2>2 DEF Handles
  <2> QED BY <2>4, <2>5, <2>6 DEF Handles
<1>6. CASE HttpdRead
  <2> DEFINE job == [gen |-> slot.gen, id |-> Head(up), sess |-> session]
  <2>1. /\ UNCHANGED <<slot, session, rx, work>> /\ (rxq' = rxq \/ rxq' = Append(rxq, job))
    BY <1>6 DEF HttpdRead
  <2>2. OfItsTime(job)
    BY <1>1 DEF OfItsTime
  <2> HIDE DEF job
  <2>3. rxq \in Seq(ToSet(rxq) \cup {job})
    <3>1. \A i \in 1 .. Len(rxq) : rxq[i] \in ToSet(rxq)
      BY Members DEF Types, ServerTypes
    <3>2. rxq = [i \in 1 .. Len(rxq) |-> rxq[i]] /\ Len(rxq) \in Nat
      BY LenProperties DEF Types, ServerTypes
    <3> HIDE DEF ToSet
    <3> QED BY <3>1, <3>2, IsASeq
  <2>4. ToSet(Append(rxq, job)) = ToSet(rxq) \cup {job}
    BY <2>3, Appended
  <2> QED BY <1>2, <2>1, <2>2, <2>4
<1>7. CASE RxTake
  <2>1. /\ rxq' = Tail(rxq) /\ rxq # << >> /\ rxq \in Seq(Jobs) /\ rx'.job = Head(rxq)
        /\ slot'.gen = slot.gen /\ UNCHANGED <<session, work>>
    BY <1>1, <1>7 DEF RxTake, NoteReceived, IdleRx, Types, ServerTypes
  <2>2. Head(rxq) \in ToSet(rxq) /\ ToSet(rxq') \subseteq ToSet(rxq)
    BY <2>1, Shifted
  <2> QED BY <1>2, <2>1, <2>2
<1>8. ASSUME UNCHANGED <<rxq, session>>, slot'.gen = slot.gen,
             rx'.pc # "idle" => rx.pc # "idle" /\ rx'.job = rx.job,
             \A w \in work' : \/ \E v \in work : w.gen = v.gen
                              \/ rx.pc # "idle" /\ w.gen = rx.job.gen
      PROVE  Handles'
  BY <1>2, <1>8
<1>9. CASE RxAssign
  <2>1. rx'.pc # "idle" => rx.pc # "idle" /\ rx'.job = rx.job
    BY <1>9, IdleIsTyped DEF RxAssign, Types, ServerTypes
  <2> QED BY <1>1, <1>8, <1>9, <2>1 DEF RxAssign
<1>10. CASE RxMark \/ CallbackReturns
  <2>1. RxDispatched /\ rx.pc # "idle"
    BY <1>10 DEF RxMark, CallbackReturns
  <2>2. rx'.pc # "idle" => rx'.job = rx.job
    BY <2>1, Finished, IdleIsTyped DEF Types, ServerTypes
  <2>3. UNCHANGED <<rxq, session>> /\ slot'.gen = slot.gen
    BY <1>1, <1>10 DEF RxMark, CallbackReturns, MarkAcked
  <2>4. \A w \in work' : \/ w \in work \/ w.gen = rx.job.gen
    BY <1>10 DEF RxMark, CallbackReturns
  <2> QED BY <1>8, <2>1, <2>2, <2>3, <2>4
<1>11. CASE RxCheck \/ RxAck
  <2>1. rx'.pc # "idle" => rx.pc # "idle" /\ rx'.job = rx.job
    BY <1>11, IdleIsTyped DEF RxCheck, RxAck, RxFinished, Types, ServerTypes
  <2> QED BY <1>8, <1>11, <2>1 DEF RxCheck, RxAck
<1>12. CASE DispatchUnsub \/ CallbackAnswers("resp") \/ CallbackAnswers("err")
  BY <1>8, <1>12 DEF DispatchUnsub, CallbackAnswers, Types, ServerTypes
<1>13. ASSUME NEW w \in work, AppStep(w) PROVE Handles'
  <2>1. UNCHANGED <<rxq, rx, session>> /\ slot'.gen = slot.gen
    BY <1>1, <1>13 DEF AppStep, AppMarks, AppAnswers, MarkAcked
  <2>2. \A x \in work' : x \in work \/ x = [w EXCEPT !.sent = TRUE]
    BY <1>13 DEF AppStep, AppMarks, AppAnswers
  <2>3. [w EXCEPT !.sent = TRUE].gen = w.gen
    BY DEF Types, ServerTypes
  <2> QED BY <1>8, <2>1, <2>2, <2>3
<1> QED BY <1>3, <1>4, <1>5, <1>6, <1>7, <1>9, <1>10, <1>11, <1>12, <1>13, Classes

LEMMA CurrentStep ==
    ASSUME Types, Kinds, Line, Link, Handles, Current, CmdAnswered, [Next]_vars
    PROVE  Current' /\ CmdAnswered'
<1>1. /\ slot \in [used : BOOLEAN, gen : 0 .. MaxSessions, lastRecv : Ids, acked : BOOLEAN,
                   nextSub : 0 .. MaxId]
      /\ session \in Nat /\ slot.gen \in Nat
      /\ rx.job \in Jobs /\ rx.job.id \in Ids /\ rx.job.sess \in Nat
  BY IdsOfServer, CallsAssumption DEF Types, ServerTypes, Jobs
<1>2. ASSUME rx.pc # "idle", slot.used, rx.job.sess = session
      PROVE  /\ rx.job.gen = slot.gen /\ Resolves(rx.job.gen) /\ slot.lastRecv = rx.job.id
             /\ slot.acked \/ rx.pc = "mark" => rx.job.id \in told \cup failed
             /\ \A w \in work : w.id = rx.job.id => w.gen = rx.job.gen /\ (w.sent => w.id \in told \cup failed)
  BY <1>2 DEF Handles, OfItsTime, Resolves, Current
<1>3. CASE ClientStep
  BY <1>3 DEF ClientStep, server, Current, CmdAnswered
<1>4. CASE ConnectionEnds
  BY <1>1, <1>4 DEF ConnectionEnds, Current, CmdAnswered
<1>5. ASSUME NEW how \in Reconnects, Opens(how) PROVE Current' /\ CmdAnswered'
  <2>1. session' = session + 1 /\ UNCHANGED <<rx, failed, mute>>
    BY <1>5 DEF Opens
  <2>2. rx.pc # "idle" => rx.job.sess <= session
    BY DEF Handles, OfItsTime
  <2> QED BY <1>1, <2>1, <2>2 DEF Current, CmdAnswered
<1>6. CASE HttpdRead
  BY <1>6 DEF HttpdRead, Current, CmdAnswered
<1>7. CASE RxTake
  <2>1. /\ rxq # << >> /\ rxq \in Seq(Jobs) /\ rx'.job = Head(rxq) /\ rx'.pc \in {"assign", "callback"}
        /\ UNCHANGED <<session, work, told, failed, mute>>
        /\ slot' = IF Resolves(rx'.job.gen) THEN NoteReceived(rx'.job) ELSE slot
    BY <1>7 DEF RxTake, IdleRx, Types, ServerTypes
  <2>2. Head(rxq) \in ToSet(rxq) /\ Head(rxq).id \in Ids
    BY <2>1, Shifted, IdsOfServer
  <2>3. \A w \in work : w.id # rx'.job.id
    <3>1. \A w \in work : w.id < Head(rxq).id /\ w.id \in Int /\ Head(rxq).id \in Int
      BY <2>2, IdsOfServer, CallsAssumption DEF Line, Ahead, Ids
    <3> QED BY <2>1, <3>1
  <2>4. ASSUME slot'.used, rx'.job.sess = session'
        PROVE  slot'.lastRecv = rx'.job.id /\ ~slot'.acked
    <3>1. slot.used
      BY <1>1, <2>1, <2>4 DEF NoteReceived
    <3>2. Resolves(rx'.job.gen)
      BY <2>1, <2>2, <2>4, <3>1 DEF Handles, OfItsTime, Resolves
    <3>3. slot' = [slot EXCEPT !.lastRecv = rx'.job.id, !.acked = FALSE]
      BY <2>1, <3>2 DEF NoteReceived
    <3> QED BY <1>1, <3>3
  <2> QED BY <2>1, <2>3, <2>4 DEF Current, CmdAnswered
<1>8. CASE RxAssign
  <2>1. /\ UNCHANGED <<session, work, told, failed, mute>> /\ rx.pc = "assign"
        /\ slot'.used = slot.used /\ slot'.lastRecv = slot.lastRecv /\ slot'.acked = slot.acked
        /\ rx'.pc = "idle" \/ (rx'.pc = "callback" /\ rx'.job = rx.job)
    BY <1>1, <1>8, IdleIsTyped DEF RxAssign, Types, ServerTypes
  <2> QED BY <1>2, <2>1 DEF Current, CmdAnswered
\* The end of a message that is no cmd, or has no id.
<1>9. ASSUME RxDispatched, UNCHANGED failed PROVE CmdAnswered' /\ (rx'.pc = "idle" \/ (rx'.pc = "check" /\ rx'.job = rx.job))
  <2>1. mute' \subseteq {0} \cup failed
    BY <1>9 DEF RxDispatched, RxFinished, CmdAnswered
  <2>2. rx'.pc = "idle" \/ (rx'.pc = "check" /\ rx'.job = rx.job)
    BY <1>9, Finished, IdleIsTyped DEF Types, ServerTypes
  <2> QED BY <1>9, <2>1, <2>2 DEF CmdAnswered
<1>10. CASE RxMark
  <2>1. /\ UNCHANGED <<session, work, told, failed>> /\ rx.pc = "mark" /\ RxDispatched
        /\ slot'.used = slot.used /\ slot'.lastRecv = slot.lastRecv
    BY <1>1, <1>10 DEF RxMark, MarkAcked
  <2> QED BY <1>2, <1>9, <2>1 DEF Current
<1>11. CASE CallbackReturns
  <2> DEFINE w0 == [gen |-> rx.job.gen, id |-> rx.job.id, sid |-> rx.sid, sent |-> FALSE]
  <2>1. /\ UNCHANGED <<session, slot, told, failed>> /\ rx.pc = "callback" /\ RxDispatched
        /\ work' \subseteq work \cup {w0}
    BY <1>11 DEF CallbackReturns
  <2>2. w0.gen = rx.job.gen /\ w0.sent = FALSE
    OBVIOUS
  <2> HIDE DEF w0
  <2> QED BY <1>2, <1>9, <2>1, <2>2 DEF Current
<1>12. CASE RxCheck
  <2>1. UNCHANGED <<session, slot, work, told, failed>> /\ rx.pc = "check" /\ Call(rx.job.id).type = "cmd"
    BY <1>12 DEF RxCheck, Kinds, IsA
  <2>2. CASE Resolves(rx.job.gen) /\ slot.lastRecv = rx.job.id /\ ~slot.acked
    <3>1. rx'.pc = "ack" /\ rx'.job = rx.job /\ mute' = mute
      BY <1>12, <2>2 DEF RxCheck, Types, ServerTypes
    <3> QED BY <1>2, <2>1, <3>1 DEF Current, CmdAnswered
  <2>3. CASE ~(Resolves(rx.job.gen) /\ slot.lastRecv = rx.job.id /\ ~slot.acked)
    <3>1. RxFinished
      BY <1>12, <2>3 DEF RxCheck
    <3>2. slot.used /\ rx.job.sess = session => rx.job.id \in told' \cup failed'
      BY <1>2, <2>1, <2>3
    <3>3. mute' \subseteq mute \cup failed' /\ rx'.pc = "idle"
      BY <3>1, <3>2, IdleIsTyped DEF RxFinished
    <3> QED BY <2>1, <3>3 DEF Current, CmdAnswered
  <2> QED BY <2>2, <2>3
<1>13. CASE RxAck
  <2>1. RxFinished /\ rx.pc = "ack" /\ SendJson(rx.job.gen, "ack", rx.job.id, NoSid)
    BY <1>13 DEF RxAck
  <2>2. /\ failed \subseteq failed'
        /\ slot.used /\ rx.job.sess = session => rx.job.id \in told' \cup failed'
    BY <1>2, <2>1 DEF SendJson
  <2>3. mute' \subseteq mute \cup failed' /\ rx'.pc = "idle"
    BY <2>1, <2>2, IdleIsTyped DEF RxFinished
  <2> QED BY <2>2, <2>3 DEF Current, CmdAnswered
<1>14. CASE DispatchUnsub \/ CallbackAnswers("resp") \/ CallbackAnswers("err")
  <2>1. /\ UNCHANGED <<slot, session, work, mute>> /\ rx.pc = "callback" /\ rx'.pc = "mark"
        /\ rx'.job = rx.job
    BY <1>14 DEF DispatchUnsub, CallbackAnswers, Types, ServerTypes
  <2>2. /\ told \subseteq told' /\ failed \subseteq failed'
        /\ Resolves(rx.job.gen) => rx.job.id \in told' \cup failed'
    BY <1>14 DEF DispatchUnsub, CallbackAnswers, SendJson
  <2> QED BY <1>2, <2>1, <2>2 DEF Current, CmdAnswered
<1>15. ASSUME NEW w \in work, AppMarks(w) PROVE Current' /\ CmdAnswered'
  <2>1. /\ UNCHANGED <<session, rx, told, failed, mute>> /\ work' \subseteq work /\ w.sent
        /\ slot'.used = slot.used /\ slot'.lastRecv = slot.lastRecv
        /\ slot'.acked => slot.acked \/ slot.lastRecv = w.id
    BY <1>1, <1>15 DEF AppMarks, MarkAcked
  <2> QED BY <1>2, <2>1 DEF Current, CmdAnswered
<1>16. ASSUME NEW w \in work, AppAnswers(w, "resp") \/ AppAnswers(w, "err")
       PROVE  Current' /\ CmdAnswered'
  <2> DEFINE v == [w EXCEPT !.sent = TRUE]
  <2>1. /\ UNCHANGED <<session, slot, rx, mute>> /\ work' \subseteq work \cup {v}
        /\ told \subseteq told' /\ failed \subseteq failed'
        /\ Resolves(w.gen) => w.id \in told' \cup failed'
    BY <1>16 DEF AppAnswers, SendJson
  <2>2. v.id = w.id /\ v.gen = w.gen
    BY DEF Types, ServerTypes
  <2> HIDE DEF v
  <2> QED BY <1>2, <2>1, <2>2 DEF Current, CmdAnswered
<1> QED BY <1>3, <1>4, <1>5, <1>6, <1>7, <1>8, <1>10, <1>11, <1>12, <1>13, <1>14, <1>15, <1>16, Classes
       DEF AppStep

LEMMA CoreInit == ASSUME Init PROVE Core /\ CmdAnswered
<1> USE DEF Init
<1>1. << >> \in Seq(Nat) /\ << >> \in Seq(Messages) /\ << >> \in Seq(Answers) /\ << >> \in Seq(Jobs)
      /\ Len(<< >>) = 0 /\ ToSet(<< >>) = {}
  BY EmptySeq, Members
<1>2. lastId = 0 /\ lastId \in Nat /\ 0 .. lastId - 1 = {}
  BY <1>1 DEF lastId
<1>3. 0 \in Ids /\ 0 \in 0 .. MaxSessions /\ 0 \in 0 .. MaxId /\ 0 <= MaxId /\ 0 <= QueueSize /\ 0 <= MaxInFlight
  BY CallsAssumption DEF Ids
<1>4. Types
  <2>1. ClientTypes
    BY <1>1, <1>2, <1>3 DEF ClientTypes, Objects, NoId, NoSid
  <2>2. ServerTypes
    BY <1>1, <1>3, IdleIsTyped DEF ServerTypes
  <2> QED BY <2>1, <2>2 DEF Types
<1>5. Table
  <2>1. Increasing(<< >>) /\ Cardinality({} \ {}) = 0
    BY <1>1, FS_EmptySet DEF Increasing
  <2> QED BY <1>1, <1>2, <1>3, <2>1 DEF Table, Accounts
<1>6. QueueMoves /\ Kinds
  BY <1>1, IdleIsTyped DEF QueueMoves, Kinds
<1>7. Entries
  BY <1>2 DEF Entries, PendingEntries, ActiveEntries, ObjectEntries, UnsubsNameOne
<1>8. Line
  BY <1>1, IdleIsTyped DEF Line, Coming, Sorted, Increasing, Before
<1>9. Link /\ Handles /\ Current
  BY <1>1, IdleIsTyped DEF Link, Handles, Current
<1>10. Numbers
  BY <1>1, <1>2, IdleIsTyped DEF Numbers, Coming
<1> QED BY <1>4, <1>5, <1>6, <1>7, <1>8, <1>9, <1>10 DEF Core, CmdAnswered

LEMMA CoreStep == ASSUME Core, CmdAnswered, [Next]_vars PROVE Core' /\ CmdAnswered'
<1> USE DEF Core
<1>1. ClientTypes' /\ Entries' /\ Kinds'
  BY ObjectsStep
<1>2. Table' /\ QueueMoves'
  BY TableStep DEF Types
<1>3. ServerTypes' /\ Line'
  BY LineStep
<1>4. Link' /\ Numbers'
  BY LinkStep, NumbersStep
<1>5. Handles' /\ Current' /\ CmdAnswered'
  BY HandlesStep, CurrentStep
<1> QED BY <1>1, <1>2, <1>3, <1>4, <1>5 DEF Types

LEMMA CoreHolds == Spec => [](Core /\ CmdAnswered)
<1>1. Init => Core /\ CmdAnswered
  BY CoreInit
<1>2. Core /\ CmdAnswered /\ [Next]_vars => Core' /\ CmdAnswered'
  BY CoreStep
<1> QED BY <1>1, <1>2, PTL DEF Spec

-----------------------------------------------------------------------------
(* What the page can rely on.                                                  *)

\* Every variable of both ends keeps its type, for any page, and no more than
\* MaxInFlight messages are in flight (ws.js, _drain).
THEOREM CallsTypeCorrect == Spec => []TypeOK
<1>1. ASSUME Core PROVE TypeOK
  <2>1. /\ queue \in Seq(Nat) /\ ToSet(queue) \subseteq 0 .. lastId - 1
        /\ pending \subseteq 0 .. lastId - 1 /\ settled \subseteq 0 .. lastId - 1 /\ acked \subseteq pending
    BY <1>1 DEF Core, Table, Accounts
  <2>2. up \in Seq(Nat) /\ ToSet(up) \subseteq Nat /\ \A c \in ToSet(up) : c < lastId
    BY <1>1, Members DEF Core, Line, Coming
  <2>3. lastId \in Nat /\ lastId <= MaxId
    BY <1>1, LenProperties DEF Core, Types, ClientTypes, lastId
  <2>4. 0 .. lastId - 1 \subseteq Ids /\ ToSet(up) \subseteq Ids
    BY <2>2, <2>3, CallsAssumption DEF Ids
  <2>5. queue \in Seq(Ids) /\ up \in Seq(Ids)
    <3>1. ToSet(queue) \subseteq Ids
      BY <2>1, <2>4
    <3> HIDE DEF Ids
    <3> QED BY <2>1, <2>2, <2>4, <3>1, SeqOfMembers
  <2>6. inFlight \in 0 .. MaxInFlight
    BY <1>1, InFlightIsNat, CallsAssumption DEF Core, Types, Table
  <2> QED BY <1>1, <2>1, <2>4, <2>5, <2>6 DEF TypeOK, Core, Types, ClientTypes, ServerTypes
<1> QED BY <1>1, CoreHolds, PTL

\* The counter of the client is the number of pending messages without an ack
\* or an answer, whatever the order of acks, answers, timeouts, cancellations
\* and connections (ws.js, inFlight and _pending).
THEOREM CounterIsExact == Spec => []InFlightIsUnacked
<1>1. ASSUME Core PROVE InFlightIsUnacked
  BY <1>1 DEF Core, Table, Accounts, InFlightIsUnacked
<1> QED BY <1>1, CoreHolds, PTL

\* Nothing waits in the queue of an open connection while there is room: each
\* handler that lowers the counter drains the queue (ws.js, _drain).
THEOREM NothingIsStuck == Spec => []QueueMoves
<1>1. ASSUME Core PROVE QueueMoves
  BY <1>1 DEF Core
<1> QED BY <1>1, CoreHolds, PTL

\* Each message the page ever made is in one place: it waits, it is pending, or
\* its promise is settled (ws.js, _enqueue to _clearPendingWithError).
THEOREM NoCallIsLost == Spec => []EveryCallAccounted
<1>1. ASSUME Core PROVE EveryCallAccounted
  <2>1. /\ queue \in Seq(Nat) /\ Increasing(queue)
        /\ ToSet(queue) \cap pending = {} /\ (ToSet(queue) \cup pending) \cap settled = {}
        /\ ToSet(queue) \cup pending \cup settled = 0 .. lastId - 1
    BY <1>1 DEF Core, Table, Accounts
  <2>2. IsInjective(queue)
    <3>1. DOMAIN queue = 1 .. Len(queue) /\ Len(queue) \in Nat /\ \A i \in 1 .. Len(queue) : queue[i] \in Nat
      BY <2>1, LenProperties, ElementOfSeq
    <3>2. ASSUME NEW i \in 1 .. Len(queue), NEW j \in 1 .. Len(queue), i # j PROVE queue[i] # queue[j]
      <4>1. i < j \/ j < i
        BY <3>1, <3>2
      <4> QED BY <2>1, <3>1, <4>1 DEF Increasing
    <3> QED BY <3>1, <3>2 DEF IsInjective
  <2> QED BY <2>1, <2>2 DEF EveryCallAccounted
<1> QED BY <1>1, CoreHolds, PTL

\* A cmd that the server took from a connection that lasts has its answer or its
\* ack when the receive task is done with it, whoever answers and however the
\* two tasks interleave, unless a send for it failed, and but for the req_id 0
\* (ws_server.h:22, ws_server.c:230-249 and ws_rx_task).
THEOREM EveryCmdIsAnswered == Spec => []CmdAnswered
  BY CoreHolds, PTL
-----------------------------------------------------------------------------
(***************************************************************************)
(* Why deltas reach the subscription they belong to (DeltasMatch of        *)
(* WsCalls), for every page and every number of connections, as long as    *)
(* each connection has a handle of its own and no subscription is          *)
(* unsubscribed twice.                                                     *)
(*                                                                         *)
(* A sub_id is held by at most one request of the connection, from the     *)
(* moment the server gives it until the page takes the answer (OneHolder). *)
(* An unsub is made for a sub_id the page has, so no request made before   *)
(* it can still get that sub_id (UnsubsEnd), and those made after it are   *)
(* answered after it, in the order of the line.                            *)
(***************************************************************************)

\* The request p is to be answered, or has its answer under way, with sid.
Holds(p, sid) ==
    \/ rx.pc = "callback" /\ rx.job.gen = slot.gen /\ rx.job.id = p /\ rx.sid = sid
    \/ \E w \in work : ~w.sent /\ w.gen = slot.gen /\ w.id = p /\ w.sid = sid
    \/ \E m \in ToSet(down) : m.id = p /\ m.sid = sid

\* The message u has not come to the application on this connection.
Undispatched(u) ==
    \/ u \in Coming
    \/ \E job \in ToSet(rxq) : job.gen = slot.gen /\ job.id = u
    \/ rx.pc = "callback" /\ rx.job.gen = slot.gen /\ rx.job.id = u

\* What DeltasMatch is about: a connection with a handle of its own.
Live == ws = "open" /\ slot.gen = session /\ UnsubscribedOnce

\* An answer that makes a subscription active comes from a stream.
AnswersStream ==
    \A m \in ToSet(down) : m.sid # NoSid /\ m.id \in pendingOutSubs =>
        Stream(slot.gen, m.id, m.sid) \in streams

\* An unsub ends no stream that the page has or will still have.
UnsubsEnd ==
    \A u \in Ids : IsA(u, "unsub") /\ Undispatched(u) =>
        \A sid \in Sids : sid = Call(u).sid =>
            /\ outSubs[sid] = NoSub
            /\ \A p \in pendingOutSubs : p < u => sid <= slot.nextSub /\ ~Holds(p, sid)

\* A sub_id that an object has is given, and not for another request.
ActiveIds ==
    \A o \in descriptors, sid \in Sids : sid = subs[o].id =>
        sid <= slot.nextSub /\ \A p \in pendingOutSubs : ~Holds(p, sid)

OneHolder ==
    \A p \in Ids, sid \in Sids : Holds(p, sid) =>
        sid <= slot.nextSub /\ \A r \in Ids : Holds(r, sid) => r = p

Wanted == StreamsRouted /\ AnswersStream /\ UnsubsEnd /\ ActiveIds /\ OneHolder

\* Only a subscription waits for its sub_id.
Assigning == \A id \in Ids : rx.pc = "assign" /\ id = rx.job.id => IsA(id, "sub")
-----------------------------------------------------------------------------
(* Steps in general.                                                           *)

\* A step of the server leaves the client and the handle as they are.
LEMMA OfServer ==
    ASSUME Types,
           \/ HttpdRead \/ RxTake \/ RxAssign \/ RxMark \/ RxCheck \/ RxAck
           \/ CallbackReturns \/ DispatchUnsub \/ CallbackAnswers("resp") \/ CallbackAnswers("err")
           \/ \E w \in work : AppStep(w)
    PROVE  /\ UNCHANGED <<client, session>> /\ slot'.gen = slot.gen
           /\ ~RxAssign => slot'.nextSub = slot.nextSub
           /\ ~HttpdRead => UNCHANGED up
<1>1. slot \in [used : BOOLEAN, gen : 0 .. MaxSessions, lastRecv : Ids, acked : BOOLEAN,
                nextSub : 0 .. MaxId]
  BY DEF Types, ServerTypes
<1>2. CASE HttpdRead
  BY <1>2 DEF HttpdRead
<1>3. CASE RxTake
  BY <1>1, <1>3 DEF RxTake, NoteReceived
<1>4. CASE RxAssign
  BY <1>1, <1>4 DEF RxAssign
<1>5. CASE RxMark
  BY <1>1, <1>5 DEF RxMark, MarkAcked
<1>6. CASE RxCheck \/ CallbackReturns
  BY <1>6 DEF RxCheck, CallbackReturns
<1>7. CASE RxAck \/ DispatchUnsub \/ CallbackAnswers("resp") \/ CallbackAnswers("err")
  BY <1>7 DEF RxAck, DispatchUnsub, CallbackAnswers
<1>8. ASSUME NEW w \in work, AppStep(w)
      PROVE  UNCHANGED <<client, session, up>> /\ slot'.gen = slot.gen /\ slot'.nextSub = slot.nextSub
  BY <1>1, <1>8 DEF AppStep, AppMarks, AppAnswers, MarkAcked
<1> QED BY <1>2, <1>3, <1>4, <1>5, <1>6, <1>7, <1>8

\* What makes a connection one of a handle of its own was so before, unless the
\* connection has just begun.
LEMMA LiveBefore ==
    ASSUME Types, Link, Grown, [Next]_vars, Live'
    PROVE  Live \/ \E how \in Reconnects : Opens(how)
<1>1. UnsubscribedOnce
  <2>1. \A i \in 1 .. lastId : i \in 1 .. lastId' /\ msgs'[i] = msgs[i]
    <3> SUFFICES ASSUME NEW i \in 1 .. lastId PROVE i \in 1 .. lastId' /\ msgs'[i] = msgs[i]
      OBVIOUS
    <3>1. lastId \in Nat /\ lastId' \in Nat /\ lastId <= lastId'
      BY DEF Grown
    <3>2. i - 1 \in 0 .. lastId - 1 /\ i = i - 1 + 1 /\ i \in 1 .. lastId'
      BY <3>1
    <3>3. \A id \in 0 .. lastId - 1 : msgs'[id + 1] = msgs[id + 1]
      BY DEF Grown, Call
    <3>4. msgs'[i - 1 + 1] = msgs[i - 1 + 1]
      BY <3>2, <3>3
    <3> QED BY <3>2, <3>4
  <2>2. DOMAIN msgs = 1 .. lastId /\ DOMAIN msgs' = 1 .. lastId'
    BY LenProperties DEF Types, ClientTypes, Grown, lastId
  <2> QED BY <2>1, <2>2 DEF Live, UnsubscribedOnce
<1>2. CASE ClientStep
  BY <1>1, <1>2 DEF ClientStep, server, Live
<1>3. CASE ConnectionEnds
  BY <1>3 DEF ConnectionEnds, Live
<1>4. CASE \/ HttpdRead \/ RxTake \/ RxAssign \/ RxMark \/ RxCheck \/ RxAck
           \/ CallbackReturns \/ DispatchUnsub \/ CallbackAnswers("resp") \/ CallbackAnswers("err")
           \/ \E w \in work : AppStep(w)
  <2>1. UNCHANGED <<client, session>> /\ slot'.gen = slot.gen
    BY <1>4, OfServer
  <2> QED BY <1>1, <2>1 DEF client, Live
<1> QED BY <1>2, <1>3, <1>4, Classes

\* The requests that hold a sub_id are ahead of what is still to be taken.
LEMMA HoldersAreAhead ==
    ASSUME Types, Line
    PROVE  \A p : \A sid \in Sids : Holds(p, sid) => p \in Ids /\ p < lastId
<1> QED BY IdsOfServer DEF Line, Ahead, Holds

LEMMA AssigningStep ==
    ASSUME Types, Line, Grown, Assigning, [Next]_vars
    PROVE  Assigning'
<1>1. \A id, type : IsA(id, type) => IsA(id, type)'
  BY CallsStay
<1>2. ASSUME rx'.pc = "assign" => rx.pc = "assign" /\ rx'.job = rx.job PROVE Assigning'
  BY <1>1, <1>2 DEF Assigning
<1>3. CASE RxTake
  <2> DEFINE job == Head(rxq)
  <2>1. job \in ToSet(rxq) /\ job.id \in Ids /\ job.id < lastId
    BY <1>3, Shifted, IdsOfServer DEF RxTake, Types, ServerTypes, Line
  <2>2. /\ rx' = [IdleRx EXCEPT !.pc = IF Call(job.id).type = "sub" THEN "assign" ELSE "callback",
                                !.job = job]
        /\ lastId \in Nat
    BY <1>3 DEF RxTake, Grown
  <2> HIDE DEF job
  <2>3. rx'.job = job /\ (rx'.pc = "assign" => Call(job.id).type = "sub")
    BY <2>2 DEF IdleRx
  <2>4. rx'.pc = "assign" => IsA(job.id, "sub")
    BY <2>1, <2>2, <2>3 DEF IsA, Ids
  <2> QED BY <1>1, <2>3, <2>4 DEF Assigning
<1>4. CASE ClientStep \/ ConnectionEnds \/ (\E how \in Reconnects : Opens(how)) \/ HttpdRead
  <2>1. rx' = rx
    BY <1>4 DEF ClientStep, server, ConnectionEnds, Opens, HttpdRead
  <2> QED BY <1>2, <2>1
<1>5. CASE RxAssign \/ RxMark \/ RxCheck \/ RxAck \/ CallbackReturns
  <2>1. rx'.pc # "assign"
    <3>1. CASE RxAssign
      BY <3>1, IdleIsTyped DEF RxAssign, Types, ServerTypes
    <3>2. CASE RxMark \/ CallbackReturns
      BY <3>2, Finished, IdleIsTyped DEF RxMark, CallbackReturns, Types, ServerTypes
    <3>3. CASE RxCheck \/ RxAck
      BY <3>3, IdleIsTyped DEF RxCheck, RxAck, RxFinished, Types, ServerTypes
    <3> QED BY <1>5, <3>1, <3>2, <3>3
  <2> QED BY <1>2, <2>1
<1>6. CASE DispatchUnsub \/ CallbackAnswers("resp") \/ CallbackAnswers("err")
  BY <1>2, <1>6 DEF DispatchUnsub, CallbackAnswers, Types, ServerTypes
<1>7. ASSUME NEW w \in work, AppStep(w) PROVE Assigning'
  BY <1>2, <1>7 DEF AppStep, AppMarks, AppAnswers
<1> QED BY <1>3, <1>4, <1>5, <1>6, <1>7, Classes

-----------------------------------------------------------------------------
(* The server.                                                                 *)

\* Steps that only pass on what there is.
LEMMA WantedOfServer ==
    ASSUME Wanted, UNCHANGED client, slot'.gen = slot.gen, slot'.nextSub = slot.nextSub,
           \A u : Undispatched(u)' => Undispatched(u),
           \A p : \A sid \in Sids : Holds(p, sid)' => Holds(p, sid),
           StreamsRouted', AnswersStream'
    PROVE  Wanted'
<1>1. /\ UNCHANGED <<msgs, outSubs, pendingOutSubs, descriptors, subs>>
      /\ \A id : Call(id)' = Call(id)
      /\ \A id, type : IsA(id, type)' <=> IsA(id, type)
  BY DEF client, objects, Call, IsA, lastId
<1>2. UnsubsEnd'
  <2> SUFFICES ASSUME NEW u \in Ids, IsA(u, "unsub")', Undispatched(u)',
                      NEW sid \in Sids, sid = Call(u)'.sid
               PROVE  /\ outSubs'[sid] = NoSub
                      /\ \A p \in pendingOutSubs' : p < u => sid <= slot'.nextSub /\ ~Holds(p, sid)'
    BY DEF UnsubsEnd
  <2>1. IsA(u, "unsub") /\ Undispatched(u) /\ sid = Call(u).sid
    BY <1>1
  <2> QED BY <1>1, <2>1 DEF Wanted, UnsubsEnd
<1>3. ActiveIds'
  BY <1>1 DEF Wanted, ActiveIds
<1>4. OneHolder'
  BY <1>1 DEF Wanted, OneHolder
<1> QED BY <1>2, <1>3, <1>4 DEF Wanted

\* Streams are added, and answers that tell of one that is there.
LEMMA StreamsStay ==
    ASSUME Wanted, UNCHANGED client, slot'.gen = slot.gen, streams \subseteq streams',
           \A m \in ToSet(down') : \/ m \in ToSet(down) \/ m.sid = NoSid
                                   \/ Stream(slot.gen, m.id, m.sid) \in streams'
    PROVE  StreamsRouted' /\ AnswersStream'
<1>1. UNCHANGED <<msgs, outSubs, pendingOutSubs>>
  BY DEF client, objects
<1>2. StreamsRouted'
  BY <1>1 DEF Wanted, StreamsRouted, Call
<1>3. AnswersStream'
  BY <1>1 DEF Wanted, AnswersStream, Stream
<1> QED BY <1>2, <1>3

LEMMA WantedOfRead ==
    ASSUME Types, Line, Link, Wanted, HttpdRead
    PROVE  Wanted'
<1> DEFINE job == [gen |-> slot.gen, id |-> Head(up), sess |-> session]
<1>1. /\ up # << >> /\ up' = Tail(up) /\ (rxq' = rxq \/ rxq' = Append(rxq, job))
      /\ UNCHANGED <<client, down, slot, rx, work, streams>>
  BY DEF HttpdRead
<1>2. Head(up) \in ToSet(up) /\ ToSet(up') \subseteq ToSet(up)
  BY <1>1, Shifted DEF Line
<1>3. job \in Jobs
  <2>1. ws = "open" /\ session \in 1 .. MaxSessions /\ slot.gen \in 1 .. MaxSessions
    BY <1>1, CallsAssumption DEF Link, Types, ServerTypes
  <2>2. Head(up) \in Nat /\ Head(up) < lastId /\ lastId <= MaxId /\ lastId \in Nat
    <3>1. Head(up) \in Nat
      BY <1>2, Members DEF Line
    <3>2. Head(up) < lastId
      BY <1>2 DEF Line, Coming
    <3> QED BY <3>1, <3>2, LenProperties DEF Types, ClientTypes, lastId
  <2> QED BY <2>1, <2>2, CallsAssumption DEF Jobs, Ids
<1>4. ToSet(rxq') \subseteq ToSet(rxq) \cup {job}
  <2> HIDE DEF job
  <2>1. ToSet(Append(rxq, job)) = ToSet(rxq) \cup {job}
    BY <1>3, Appended DEF Types, ServerTypes
  <2> QED BY <1>1, <2>1
<1>5. job.id \in Coming /\ Coming' \subseteq Coming
  <2>1. queue' = queue
    BY <1>1 DEF client, table
  <2> QED BY <1>2, <2>1 DEF Coming
<1> HIDE DEF job
<1>6. \A u : Undispatched(u)' => Undispatched(u)
  BY <1>1, <1>4, <1>5 DEF Undispatched
<1>7. \A p : \A sid \in Sids : Holds(p, sid)' => Holds(p, sid)
  BY <1>1 DEF Holds
<1> QED BY <1>1, <1>6, <1>7, StreamsStay, WantedOfServer

LEMMA WantedOfTake ==
    ASSUME Types, Wanted, RxTake
    PROVE  Wanted'
<1> DEFINE job == Head(rxq)
<1>1. /\ rx.pc = "idle" /\ rxq # << >> /\ rxq' = Tail(rxq)
      /\ rx' = [IdleRx EXCEPT !.pc = IF Call(job.id).type = "sub" THEN "assign" ELSE "callback",
                              !.job = job]
      /\ UNCHANGED <<client, up, down, work, streams>>
  BY DEF RxTake
<1>2. job \in ToSet(rxq) /\ ToSet(rxq') \subseteq ToSet(rxq)
  BY <1>1, Shifted DEF Types, ServerTypes
<1>3. slot'.gen = slot.gen /\ slot'.nextSub = slot.nextSub
  <2>1. ~RxAssign
    BY <1>1 DEF RxAssign
  <2> QED BY <2>1, OfServer
<1>4. Coming' = Coming
  BY <1>1 DEF client, table, Coming
<1> HIDE DEF job
<1>5. rx'.job = job /\ rx'.sid = NoSid
  BY <1>1 DEF IdleRx
<1>6. \A u : Undispatched(u)' => Undispatched(u)
  BY <1>2, <1>3, <1>4, <1>5 DEF Undispatched
<1>7. \A p : \A sid \in Sids : Holds(p, sid)' => Holds(p, sid)
  BY <1>1, <1>3, <1>5 DEF Holds, Sids, NoSid
<1> QED
  BY <1>1, <1>3, <1>6, <1>7, StreamsStay, WantedOfServer

\* The task or another one marks a message, or acks it.
LEMMA WantedOfMark ==
    ASSUME Types, Wanted,
           \/ RxMark \/ RxCheck \/ RxAck \/ CallbackReturns
           \/ \E w \in work : AppMarks(w)
    PROVE  Wanted'
<1>1. /\ UNCHANGED <<client, up>> /\ slot'.gen = slot.gen /\ slot'.nextSub = slot.nextSub
      /\ UNCHANGED <<rxq, streams>>
  <2>1. ~RxAssign /\ ~HttpdRead
    BY DEF RxMark, RxCheck, RxAck, CallbackReturns, AppMarks, RxAssign, HttpdRead, server
  <2>2. UNCHANGED <<rxq, streams>>
    BY DEF RxMark, RxCheck, RxAck, CallbackReturns, AppMarks
  <2> QED BY <2>1, <2>2, OfServer DEF AppStep
<1>2. Coming' = Coming
  BY <1>1 DEF client, table, Coming
<1>3. rx'.pc = "callback" => UNCHANGED rx
  <2>1. CASE RxMark \/ CallbackReturns
    BY <2>1, Finished, IdleIsTyped DEF RxMark, CallbackReturns, Types, ServerTypes
  <2>2. CASE RxCheck \/ RxAck
    BY <2>2, IdleIsTyped DEF RxCheck, RxAck, RxFinished, Types, ServerTypes
  <2>3. CASE \E w \in work : AppMarks(w)
    BY <2>3 DEF AppMarks
  <2> QED BY <2>1, <2>2, <2>3
<1>4. /\ \A m \in ToSet(down') : m \in ToSet(down) \/ m.sid = NoSid
      /\ \A p : \A sid \in Sids : (\E m \in ToSet(down') : m.id = p /\ m.sid = sid) =>
                                      \E m \in ToSet(down) : m.id = p /\ m.sid = sid
  <2>1. \A m \in ToSet(down') : m \in ToSet(down) \/ m.sid = NoSid
    <3>1. CASE RxAck
      <4>1. [type |-> "ack", id |-> rx.job.id, sid |-> NoSid] \in Answers
        BY IdsOfServer DEF Answers
      <4> QED BY <3>1, <4>1, Sent DEF RxAck
    <3>2. CASE ~RxAck
      <4>1. down' = down
        BY <3>2 DEF RxMark, RxCheck, CallbackReturns, AppMarks
      <4> QED BY <4>1
    <3> QED BY <3>1, <3>2
  <2> QED BY <2>1 DEF Sids, NoSid
<1>5. \A w \in work' : ~w.sent /\ w.sid # NoSid =>
          \/ w \in work
          \/ rx.pc = "callback" /\ w.gen = rx.job.gen /\ w.id = rx.job.id /\ w.sid = rx.sid
  BY DEF RxMark, RxCheck, RxAck, CallbackReturns, AppMarks
<1>6. \A u : Undispatched(u)' => Undispatched(u)
  BY <1>1, <1>2, <1>3 DEF Undispatched
<1>7. \A p : \A sid \in Sids : Holds(p, sid)' => Holds(p, sid)
  <2> SUFFICES ASSUME NEW p, NEW sid \in Sids, Holds(p, sid)' PROVE Holds(p, sid)
    OBVIOUS
  <2>1. sid # NoSid
    BY DEF Sids, NoSid
  <2>2. CASE rx'.pc = "callback" /\ rx'.job.gen = slot'.gen /\ rx'.job.id = p /\ rx'.sid = sid
    BY <1>1, <1>3, <2>2 DEF Holds
  <2>3. ASSUME NEW w \in work', ~w.sent, w.gen = slot'.gen, w.id = p, w.sid = sid PROVE Holds(p, sid)
    BY <1>1, <1>5, <2>1, <2>3 DEF Holds
  <2>4. CASE \E m \in ToSet(down') : m.id = p /\ m.sid = sid
    BY <1>4, <2>4 DEF Holds
  <2> QED BY <2>2, <2>3, <2>4 DEF Holds
<1> QED BY <1>1, <1>4, <1>6, <1>7, StreamsStay, WantedOfServer

\* A subscription is accepted, or refused: by the callback, or by another task.
\* The answer is sent with the sub_id of the request, and of a stream.
LEMMA AnswerWanted ==
    ASSUME Types, Wanted, UNCHANGED <<client, up, rxq, slot>>,
           NEW answer \in {"resp", "err"}, NEW gen, NEW id, NEW sid0,
           id \in Ids, sid0 \in Sids \cup {NoSid},
           Accept(gen, id, sid0, answer),
           SendJson(gen, answer, id, IF answer = "resp" THEN sid0 ELSE NoSid),
           gen = slot.gen => \A sid \in Sids : sid = sid0 => Holds(id, sid),
           rx'.pc = "callback" => UNCHANGED rx,
           \A w \in work' : ~w.sent => w \in work
    PROVE  Wanted'
<1> DEFINE sid1 == IF answer = "resp" THEN sid0 ELSE NoSid
           a == [type |-> answer, id |-> id, sid |-> sid1]
<1>1. a \in Answers /\ a.id = id /\ a.sid = sid1
  BY DEF Answers
<1>2. /\ \A m \in ToSet(down') : m \in ToSet(down) \/ m = a
      /\ ~Resolves(gen) => down' = down
  BY <1>1, Sent
<1>3. /\ streams \subseteq streams'
      /\ sid1 # NoSid => Stream(gen, id, sid1) \in streams'
  BY DEF Accept
<1> HIDE DEF a
<1>4. sid1 # NoSid => sid1 = sid0 /\ sid1 \in Sids
  OBVIOUS
<1> HIDE DEF sid1
<1>5. Resolves(gen) => gen = slot.gen
  BY DEF Resolves
<1>6. \A m \in ToSet(down') : \/ m \in ToSet(down) \/ m.sid = NoSid
                              \/ Stream(slot.gen, m.id, m.sid) \in streams'
  BY <1>1, <1>2, <1>3, <1>5
<1>7. Coming' = Coming
  BY DEF client, table, Coming
<1>8. \A u : Undispatched(u)' => Undispatched(u)
  BY <1>7 DEF Undispatched
<1>9. \A p : \A sid \in Sids : Holds(p, sid)' => Holds(p, sid)
  <2> SUFFICES ASSUME NEW p, NEW sid \in Sids, Holds(p, sid)' PROVE Holds(p, sid)
    OBVIOUS
  <2>1. sid # NoSid
    BY DEF Sids, NoSid
  <2>2. ASSUME NEW m \in ToSet(down'), m.id = p, m.sid = sid PROVE Holds(p, sid)
    <3>1. CASE m \in ToSet(down)
      BY <2>2, <3>1 DEF Holds
    <3>2. CASE m \notin ToSet(down)
      <4>1. m = a /\ gen = slot.gen
        BY <1>2, <1>5, <3>2
      <4>2. p = id /\ sid = sid0
        BY <1>1, <1>4, <2>1, <2>2, <4>1
      <4> QED BY <4>1, <4>2
    <3> QED BY <3>1, <3>2
  <2>3. CASE rx'.pc = "callback" /\ rx'.job.gen = slot'.gen /\ rx'.job.id = p /\ rx'.sid = sid
    BY <2>3 DEF Holds
  <2>4. ASSUME NEW w \in work', ~w.sent, w.gen = slot'.gen, w.id = p, w.sid = sid PROVE Holds(p, sid)
    BY <2>4 DEF Holds
  <2> QED BY <2>2, <2>3, <2>4 DEF Holds
<1> QED BY <1>3, <1>6, <1>8, <1>9, StreamsStay, WantedOfServer

LEMMA WantedOfAnswers ==
    ASSUME Types, Wanted, NEW answer \in {"resp", "err"},
           CallbackAnswers(answer) \/ \E w \in work : AppAnswers(w, answer)
    PROVE  Wanted'
<1>1. CASE CallbackAnswers(answer)
  <2>1. /\ rx.pc = "callback" /\ UNCHANGED <<client, up, rxq, slot, work>>
        /\ Accept(rx.job.gen, rx.job.id, rx.sid, answer)
        /\ SendJson(rx.job.gen, answer, rx.job.id, IF answer = "resp" THEN rx.sid ELSE NoSid)
        /\ rx'.pc = "mark"
    BY <1>1 DEF CallbackAnswers, Types, ServerTypes
  <2>2. rx.job.id \in Ids /\ rx.sid \in Sids \cup {NoSid}
    BY IdsOfServer DEF Types, ServerTypes
  <2>3. rx.job.gen = slot.gen => \A sid \in Sids : sid = rx.sid => \A id : id = rx.job.id => Holds(id, sid)
    BY <2>1 DEF Holds
  <2> QED BY <2>1, <2>2, <2>3, AnswerWanted
<1>2. ASSUME NEW w \in work, AppAnswers(w, answer) PROVE Wanted'
  <2>1. /\ ~w.sent /\ UNCHANGED <<client, up, rxq, slot, rx>>
        /\ Accept(w.gen, w.id, w.sid, answer)
        /\ SendJson(w.gen, answer, w.id, IF answer = "resp" THEN w.sid ELSE NoSid)
        /\ work' = (work \ {w}) \cup {[w EXCEPT !.sent = TRUE]}
    BY <1>2 DEF AppAnswers
  <2>2. w.id \in Ids /\ w.sid \in Sids \cup {NoSid} /\ [w EXCEPT !.sent = TRUE].sent
    BY DEF Types, ServerTypes
  <2>3. w.gen = slot.gen => \A sid \in Sids : sid = w.sid => Holds(w.id, sid)
    BY <2>1 DEF Holds
  <2>4. \A x \in work' : ~x.sent => x \in work
    BY <2>1, <2>2
  <2> QED BY <2>1, <2>2, <2>3, <2>4, AnswerWanted
<1> QED BY <1>1, <1>2

\* An unsub ends a stream that neither the page has nor any answer tells of.
LEMMA WantedOfUnsub ==
    ASSUME Types, Line, Wanted, DispatchUnsub
    PROVE  Wanted'
<1> DEFINE u == rx.job.id
<1>1. /\ rx.pc = "callback" /\ Call(u).type = "unsub"
      /\ UNCHANGED <<client, up, slot, rxq, work>> /\ rx'.pc = "mark"
      /\ streams' = {st \in streams : ~(st.gen = rx.job.gen /\ st.sid = Call(u).sid)}
      /\ SendJson(rx.job.gen, "resp", u, NoSid)
  BY DEF DispatchUnsub, Types, ServerTypes
<1>2. u \in Ids /\ IsA(u, "unsub")
  <2>1. u \in Ids /\ u < lastId /\ lastId \in Nat
    BY <1>1, IdsOfServer, LenProperties DEF Line, Ahead, Types, ClientTypes, lastId
  <2> QED BY <1>1, <2>1 DEF IsA, Ids
<1> HIDE DEF u
<1>3. ASSUME rx.job.gen = slot.gen, NEW sid \in Sids, sid = Call(u).sid
      PROVE  outSubs[sid] = NoSub /\ \A p \in pendingOutSubs : p < u => ~Holds(p, sid)
  <2>1. Undispatched(u)
    BY <1>1, <1>3 DEF Undispatched, u
  <2> QED BY <1>2, <1>3, <2>1 DEF Wanted, UnsubsEnd
<1>4. /\ \A m \in ToSet(down') : m \in ToSet(down) \/ m.sid = NoSid
      /\ \A m \in ToSet(down) : m \in Answers
  <2>1. [type |-> "resp", id |-> u, sid |-> NoSid] \in Answers
    BY <1>2 DEF Answers
  <2> QED BY <1>1, <2>1, Sent, IdsOfServer
<1>5. UNCHANGED <<msgs, outSubs, pendingOutSubs>>
  BY <1>1 DEF client, objects
<1>6. StreamsRouted'
  <2> SUFFICES ASSUME NEW sid \in Sids, outSubs'[sid] # NoSub
               PROVE  \E st \in streams' : st.gen = slot'.gen /\ st.sid = sid
                                           /\ Call(st.id)'.sub = outSubs'[sid]
    BY DEF StreamsRouted, Call
  <2>1. PICK st \in streams : st.gen = slot.gen /\ st.sid = sid /\ Call(st.id).sub = outSubs[sid]
    BY <1>5 DEF Wanted, StreamsRouted
  <2>2. st \in streams'
    BY <1>1, <1>3, <1>5, <2>1
  <2> QED BY <1>1, <1>5, <2>1, <2>2 DEF Call
<1>7. AnswersStream'
  <2> SUFFICES ASSUME NEW m \in ToSet(down'), m.sid # NoSid, m.id \in pendingOutSubs'
               PROVE  Stream(slot'.gen, m.id, m.sid) \in streams'
    BY DEF AnswersStream, Stream
  <2>1. m \in ToSet(down) /\ m.sid \in Sids /\ m.id \in pendingOutSubs
    BY <1>4, <1>5 DEF Answers
  <2>2. m.id < u /\ Holds(m.id, m.sid)
    BY <1>1, <2>1 DEF Line, Holds, u
  <2>3. Stream(slot.gen, m.id, m.sid) \in streams
    BY <2>1 DEF Wanted, AnswersStream
  <2>4. ~(rx.job.gen = slot.gen /\ m.sid = Call(u).sid)
    BY <1>3, <2>1, <2>2
  <2> QED BY <1>1, <2>3, <2>4 DEF Stream
<1>8. Coming' = Coming
  BY <1>1 DEF client, table, Coming
<1>9. \A x : Undispatched(x)' => Undispatched(x)
  BY <1>1, <1>8 DEF Undispatched
<1>10. \A p : \A sid \in Sids : Holds(p, sid)' => Holds(p, sid)
  BY <1>1, <1>4 DEF Holds, Sids, NoSid
<1> QED BY <1>1, <1>6, <1>7, <1>9, <1>10, WantedOfServer

\* The sub_id that is given is greater than all that were.
LEMMA WantedOfAssign ==
    ASSUME Types, Line, Assigning, Wanted, RxAssign
    PROVE  Wanted'
<1>1. /\ rx.pc = "assign" /\ UNCHANGED <<client, up, down, rxq, work, streams>> /\ slot'.gen = slot.gen
  BY OfServer DEF RxAssign
<1>2. /\ slot.nextSub \in Nat /\ rx.job.id \in Ids
      /\ UNCHANGED <<msgs, outSubs, pendingOutSubs, descriptors, subs>>
      /\ \A id : Call(id)' = Call(id)
      /\ \A id, type : IsA(id, type)' <=> IsA(id, type)
  BY <1>1, IdsOfServer, CallsAssumption DEF client, objects, Call, IsA, lastId, Types, ServerTypes
<1>3. Coming' = Coming
  BY <1>1 DEF client, table, Coming
<1>4. StreamsRouted' /\ AnswersStream'
  BY <1>1, StreamsStay
<1>5. CASE Resolves(rx.job.gen)
  <2> DEFINE new == slot.nextSub + 1
  <2>1. slot'.nextSub = new /\ rx'.pc = "callback" /\ rx'.job = rx.job /\ rx'.sid = new
    BY <1>5 DEF RxAssign, Types, ServerTypes
  <2>2. new \in Nat /\ \A sid \in Sids : sid <= slot.nextSub => sid # new /\ sid <= new
    BY <1>2 DEF Sids
  <2>3. ~(new <= slot.nextSub)
    BY <1>2
  <2> HIDE DEF new
  <2>4. \A p : \A sid \in Sids : Holds(p, sid)' => Holds(p, sid) \/ (p = rx.job.id /\ sid = new)
    BY <1>1, <2>1 DEF Holds
  <2>5. \A u \in Ids : IsA(u, "unsub") /\ Undispatched(u)' => Undispatched(u)
    <3>1. \A u \in Ids : Undispatched(u)' => Undispatched(u) \/ u = rx.job.id
      BY <1>1, <1>3, <2>1 DEF Undispatched
    <3>2. \A u \in Ids : u = rx.job.id => ~IsA(u, "unsub")
      BY <1>1 DEF Assigning, IsA
    <3> QED BY <3>1, <3>2
  <2>6. UnsubsEnd'
    <3> SUFFICES ASSUME NEW u \in Ids, IsA(u, "unsub")', Undispatched(u)',
                        NEW sid \in Sids, sid = Call(u)'.sid
                 PROVE  /\ outSubs'[sid] = NoSub
                        /\ \A p \in pendingOutSubs' : p < u => sid <= slot'.nextSub /\ ~Holds(p, sid)'
      BY DEF UnsubsEnd
    <3>1. IsA(u, "unsub") /\ Undispatched(u) /\ sid = Call(u).sid
      BY <1>2, <2>5
    <3>2. /\ outSubs[sid] = NoSub
          /\ \A p \in pendingOutSubs : p < u => sid <= slot.nextSub /\ ~Holds(p, sid)
      BY <3>1 DEF Wanted, UnsubsEnd
    <3> QED BY <1>2, <2>1, <2>2, <2>4, <3>2
  <2>7. ActiveIds'
    <3> SUFFICES ASSUME NEW o \in descriptors', NEW sid \in Sids, sid = subs'[o].id
                 PROVE  sid <= slot'.nextSub /\ \A p \in pendingOutSubs' : ~Holds(p, sid)'
      BY DEF ActiveIds
    <3>1. sid <= slot.nextSub /\ \A p \in pendingOutSubs : ~Holds(p, sid)
      BY <1>2 DEF Wanted, ActiveIds
    <3> QED BY <1>2, <2>1, <2>2, <2>4, <3>1
  <2>8. OneHolder'
    <3> SUFFICES ASSUME NEW p \in Ids, NEW sid \in Sids, Holds(p, sid)'
                 PROVE  sid <= slot'.nextSub /\ \A r \in Ids : Holds(r, sid)' => r = p
      BY DEF OneHolder
    <3>1. \A r \in Ids : Holds(r, sid) => sid <= slot.nextSub /\ \A s \in Ids : Holds(s, sid) => s = r
      BY DEF Wanted, OneHolder
    <3>2. CASE sid = new
      <4>1. \A r \in Ids : ~Holds(r, sid)
        BY <2>3, <3>1, <3>2
      <4>2. sid <= slot'.nextSub
        BY <2>1, <2>2, <3>2
      <4> QED BY <2>4, <4>1, <4>2
    <3>3. CASE sid # new
      BY <2>1, <2>2, <2>4, <3>1, <3>3
    <3> QED BY <3>2, <3>3
  <2> QED BY <1>4, <2>6, <2>7, <2>8 DEF Wanted
<1>6. CASE ~Resolves(rx.job.gen)
  <2>1. rx'.pc = "idle" /\ slot' = slot
    BY <1>6, IdleIsTyped DEF RxAssign
  <2>2. \A u : Undispatched(u)' => Undispatched(u)
    BY <1>1, <1>3, <2>1 DEF Undispatched
  <2>3. \A p : \A sid \in Sids : Holds(p, sid)' => Holds(p, sid)
    BY <1>1, <2>1 DEF Holds
  <2> QED BY <1>1, <1>4, <2>1, <2>2, <2>3, WantedOfServer
<1> QED BY <1>5, <1>6

-----------------------------------------------------------------------------
(* The client.                                                                 *)

\* Coming gains only what the step made.
LEMMA ComingGrows ==
    ASSUME Table, Line, Grown, Moves
    PROVE  Coming' \subseteq Coming \cup (lastId .. lastId' - 1)
<1>1. ToSet(queue) \subseteq Nat
  BY Members DEF Table, Accounts
<1> QED BY <1>1, ComingMoves

\* Steps of the client that unsubscribe nothing and make nothing active.
LEMMA WantedOfClient ==
    ASSUME Types, Line, Wanted, Grown, UNCHANGED server, UNCHANGED outSubs,
           Coming' \subseteq Coming \cup (lastId .. lastId' - 1),
           ToSet(down') \subseteq ToSet(down),
           \A id \in lastId .. lastId' - 1 : Call(id)'.type # "unsub",
           \A p \in pendingOutSubs' : p \in pendingOutSubs \/ p \in lastId .. lastId' - 1,
           \A o \in descriptors', sid \in Sids :
               sid = subs'[o].id => o \in descriptors /\ sid = subs[o].id
    PROVE  Wanted'
<1>1. /\ UNCHANGED <<slot, rxq, rx, work, streams>>
      /\ lastId \in Nat /\ lastId' \in Nat /\ lastId <= lastId'
  BY DEF server, Grown
<1>2. \A p : \A sid \in Sids : Holds(p, sid)' => Holds(p, sid)
  BY <1>1 DEF Holds
<1>3. /\ \A p : \A sid \in Sids : Holds(p, sid) => p \notin lastId .. lastId' - 1
      /\ \A m \in ToSet(down) : m.id \notin lastId .. lastId' - 1
  <2>1. \A p : \A sid \in Sids : Holds(p, sid) => p \in Ids /\ p < lastId
    BY HoldersAreAhead
  <2>2. \A m \in ToSet(down) : m.id \in Ids /\ m.id < lastId
    BY IdsOfServer DEF Line, Ahead
  <2> QED BY <1>1, <2>1, <2>2 DEF Ids
<1>4. \A u \in 0 .. lastId' - 1 : u \in 0 .. lastId - 1 \/ u \in lastId .. lastId' - 1
  BY <1>1, Wider
<1>5. \A u \in Ids : IsA(u, "unsub")' /\ Undispatched(u)' =>
          IsA(u, "unsub") /\ Undispatched(u) /\ Call(u)' = Call(u)
  <2> SUFFICES ASSUME NEW u \in Ids, IsA(u, "unsub")', Undispatched(u)'
               PROVE  IsA(u, "unsub") /\ Undispatched(u) /\ Call(u)' = Call(u)
    OBVIOUS
  <2>1. u \in 0 .. lastId' - 1 /\ Call(u)'.type = "unsub"
    BY DEF IsA
  <2>2. u \in 0 .. lastId - 1 /\ u \notin lastId .. lastId' - 1
    BY <1>4, <2>1
  <2>3. Call(u)' = Call(u)
    BY <2>2 DEF Grown
  <2>4. Undispatched(u)
    BY <1>1, <2>2 DEF Undispatched
  <2> QED BY <2>1, <2>2, <2>3, <2>4 DEF IsA
<1>6. StreamsRouted'
  <2> SUFFICES ASSUME NEW sid \in Sids, outSubs'[sid] # NoSub
               PROVE  \E st \in streams' : st.gen = slot'.gen /\ st.sid = sid
                                           /\ Call(st.id)'.sub = outSubs'[sid]
    BY DEF StreamsRouted, Call
  <2>1. PICK st \in streams : st.gen = slot.gen /\ st.sid = sid /\ Call(st.id).sub = outSubs[sid]
    BY DEF Wanted, StreamsRouted
  <2>2. st.id \in 0 .. lastId - 1
    BY <1>1, IdsOfServer DEF Line, Ids
  <2>3. Call(st.id)' = Call(st.id)
    BY <2>2 DEF Grown
  <2> QED BY <1>1, <2>1, <2>3
<1>7. AnswersStream'
  BY <1>1, <1>3 DEF Wanted, AnswersStream, Stream
<1>8. UnsubsEnd'
  <2> SUFFICES ASSUME NEW u \in Ids, IsA(u, "unsub")', Undispatched(u)',
                      NEW sid \in Sids, sid = Call(u)'.sid
               PROVE  /\ outSubs'[sid] = NoSub
                      /\ \A p \in pendingOutSubs' : p < u => sid <= slot'.nextSub /\ ~Holds(p, sid)'
    BY DEF UnsubsEnd
  <2>1. IsA(u, "unsub") /\ Undispatched(u) /\ sid = Call(u).sid
    BY <1>5
  <2>2. /\ outSubs[sid] = NoSub
        /\ \A p \in pendingOutSubs : p < u => sid <= slot.nextSub /\ ~Holds(p, sid)
    BY <2>1 DEF Wanted, UnsubsEnd
  <2>3. \A p \in lastId .. lastId' - 1 : ~(p < u)
    <3>1. u \in Nat /\ u < lastId
      BY <1>1, <2>1 DEF IsA, Ids
    <3> QED BY <1>1, <3>1
  <2> QED BY <1>1, <1>2, <2>2, <2>3
<1>9. ActiveIds'
  <2> SUFFICES ASSUME NEW o \in descriptors', NEW sid \in Sids, sid = subs'[o].id
               PROVE  sid <= slot'.nextSub /\ \A p \in pendingOutSubs' : ~Holds(p, sid)'
    BY DEF ActiveIds
  <2>1. o \in descriptors /\ sid = subs[o].id
    OBVIOUS
  <2>2. sid <= slot.nextSub /\ \A p \in pendingOutSubs : ~Holds(p, sid)
    BY <2>1 DEF Wanted, ActiveIds
  <2> QED BY <1>1, <1>2, <1>3, <2>2
<1>10. OneHolder'
  BY <1>1, <1>2 DEF Wanted, OneHolder
<1> QED BY <1>6, <1>7, <1>8, <1>9, <1>10 DEF Wanted

\* The page unsubscribes o, which is known by sid0.
LEMMA WantedOfUnsubscribe ==
    ASSUME Types, Line, Entries, Kinds, Wanted, Live', NEW o \in Subs, Unsubscribe(o),
           Coming' \subseteq Coming \cup (lastId .. lastId' - 1)
    PROVE  Wanted'
<1> DEFINE sid0 == subs[o].id
           call == [type |-> "unsub", sub |-> o, sid |-> sid0, again |-> FALSE]
<1>1. /\ lastId < MaxId /\ sid0 # NoSid /\ msgs' = Append(msgs, call)
      /\ outSubs' = [outSubs EXCEPT ![sid0] = NoSub] /\ descriptors' = descriptors \ {o}
      /\ UNCHANGED <<subs, pendingOutSubs, down, slot, rxq, rx, work, streams>>
  BY DEF Unsubscribe, server
<1>2. call \in Messages /\ sid0 \in Sids /\ call.sid = sid0 /\ call.type = "unsub" /\ call.sub = o
  BY <1>1 DEF Messages, Types, ClientTypes, Objects
<1>3. Grown /\ lastId' = lastId + 1 /\ \A id : id = lastId => Call(id)' = call
  <2> HIDE DEF call
  <2> QED BY <1>1, <1>2, GrownByOne DEF Types
<1> HIDE DEF call
<1>4. lastId \in Nat /\ lastId .. lastId' - 1 = {lastId}
  <2>1. lastId \in Nat
    BY <1>3 DEF Grown
  <2>2. \A n \in Nat : n .. n + 1 - 1 = {n}
    OBVIOUS
  <2> QED BY <1>3, <2>1, <2>2
<1>5. o \in descriptors
  <2> SUFFICES ASSUME Unsubs(o) PROVE FALSE
    BY <1>1 DEF Entries, ObjectEntries
  <2>1. PICK id \in 0 .. lastId - 1 : IsA(id, "unsub") /\ Call(id).sub = o
    BY DEF Unsubs
  <2>2. Call(id)'.type = "unsub" /\ Call(id)'.sub = o
    BY <1>3, <2>1 DEF Grown, IsA
  <2>3. \A x : x = lastId => Call(x)'.type = "unsub" /\ Call(x)'.sub = o
    BY <1>2, <1>3
  <2>4. msgs'[id + 1].type = "unsub" /\ msgs'[id + 1].sub = o
    BY <2>2 DEF Call
  <2>5. PICK n \in Nat : n = lastId
    BY <1>4
  <2>6. msgs'[n + 1].type = "unsub" /\ msgs'[n + 1].sub = o
    BY <2>3, <2>5 DEF Call
  <2>7. id + 1 \in 1 .. n + 1 /\ n + 1 \in 1 .. n + 1 /\ id + 1 # n + 1
    BY <2>1, <2>5
  <2>8. DOMAIN msgs' = 1 .. n + 1
    BY <1>3, <2>5, LenProperties DEF Grown, lastId
  <2> QED BY <2>4, <2>6, <2>7, <2>8 DEF Live, UnsubscribedOnce
<1> HIDE DEF sid0
<1>6. outSubs'[sid0] = NoSub /\ \A sid \in Sids : sid # sid0 => outSubs'[sid] = outSubs[sid]
  BY <1>1, <1>2 DEF Types, ClientTypes
<1>7. \A p : \A sid \in Sids : Holds(p, sid)' <=> Holds(p, sid)
  BY <1>1 DEF Holds
<1>8. \A u : Undispatched(u)' => Undispatched(u) \/ u = lastId
  BY <1>1, <1>4 DEF Undispatched
<1>9. StreamsRouted'
  <2> SUFFICES ASSUME NEW sid \in Sids, outSubs'[sid] # NoSub
               PROVE  \E st \in streams' : st.gen = slot'.gen /\ st.sid = sid
                                           /\ Call(st.id)'.sub = outSubs'[sid]
    BY DEF StreamsRouted, Call
  <2>1. outSubs'[sid] = outSubs[sid]
    BY <1>6
  <2>2. PICK st \in streams : st.gen = slot.gen /\ st.sid = sid /\ Call(st.id).sub = outSubs[sid]
    BY <2>1 DEF Wanted, StreamsRouted
  <2>3. st.id \in 0 .. lastId - 1
    BY <1>4, IdsOfServer DEF Line, Ids
  <2>4. Call(st.id)' = Call(st.id)
    BY <1>3, <2>3 DEF Grown
  <2> QED BY <1>1, <2>1, <2>2, <2>4
<1>10. AnswersStream'
  BY <1>1 DEF Wanted, AnswersStream, Stream
<1>11. UnsubsEnd'
  <2> SUFFICES ASSUME NEW u \in Ids, IsA(u, "unsub")', Undispatched(u)',
                      NEW sid \in Sids, sid = Call(u)'.sid
               PROVE  /\ outSubs'[sid] = NoSub
                      /\ \A p \in pendingOutSubs' : p < u => sid <= slot'.nextSub /\ ~Holds(p, sid)'
    BY DEF UnsubsEnd
  <2>1. CASE u = lastId
    <3>1. sid = sid0
      BY <1>2, <1>3, <2>1
    <3>2. sid0 <= slot.nextSub /\ \A p \in pendingOutSubs : ~Holds(p, sid0)
      BY <1>2, <1>5 DEF Wanted, ActiveIds, sid0
    <3> QED BY <1>1, <1>2, <1>6, <1>7, <3>1, <3>2
  <2>2. CASE u # lastId
    <3>1. u \in 0 .. lastId - 1
      <4>1. u \in 0 .. lastId' - 1
        BY DEF IsA
      <4>2. PICK n \in Nat : n = lastId /\ u \in 0 .. n + 1 - 1 /\ u # n
        BY <1>3, <1>4, <2>2, <4>1
      <4>3. u \in 0 .. n - 1
        BY <4>2
      <4> QED BY <4>2, <4>3
    <3>2. Call(u)' = Call(u) /\ Undispatched(u)
      BY <1>3, <1>8, <2>2, <3>1 DEF Grown
    <3>3. IsA(u, "unsub") /\ sid = Call(u).sid
      BY <3>1, <3>2 DEF IsA
    <3>4. /\ outSubs[sid] = NoSub
          /\ \A p \in pendingOutSubs : p < u => sid <= slot.nextSub /\ ~Holds(p, sid)
      BY <3>2, <3>3 DEF Wanted, UnsubsEnd
    <3> QED BY <1>1, <1>6, <1>7, <3>4
  <2> QED BY <2>1, <2>2
<1>12. ActiveIds'
  BY <1>1, <1>7 DEF Wanted, ActiveIds
<1>13. OneHolder'
  BY <1>1, <1>7 DEF Wanted, OneHolder
<1> QED BY <1>9, <1>10, <1>11, <1>12, <1>13 DEF Wanted

\* A subscription becomes active.
LEMMA WantedOfPromotion ==
    ASSUME Types, Line, Entries, Kinds, Link, Wanted, NEW m, m \in Answers, down # << >>,
           Head(down) = m, m.sid # NoSid, m.id \in pendingOutSubs, ReceiveAnswer,
           Coming' \subseteq Coming
    PROVE  Wanted'
<1> DEFINE o == Call(m.id).sub
<1>1. /\ pendingOutSubs' = pendingOutSubs \ {m.id} /\ outSubs' = [outSubs EXCEPT ![m.sid] = o]
      /\ subs' = [subs EXCEPT ![o].id = m.sid] /\ descriptors' = descriptors /\ o \in descriptors
  BY EntriesOfPromotion DEF Types
<1>2. /\ UNCHANGED <<msgs, slot, rxq, rx, work, streams>>
      /\ m \in ToSet(down) /\ ToSet(down') \subseteq ToSet(down)
      /\ m.id \in Ids /\ m.sid \in Sids
  <2>1. UNCHANGED <<msgs, slot, rxq, rx, work, streams>> /\ down' = Tail(down)
    BY DEF ReceiveAnswer, server
  <2>2. m \in ToSet(down) /\ ToSet(Tail(down)) \subseteq ToSet(down)
    BY Shifted DEF Types, ServerTypes
  <2> QED BY <2>1, <2>2 DEF Answers
<1>3. Holds(m.id, m.sid)
  BY <1>2 DEF Holds
<1>4. m.sid <= slot.nextSub /\ \A r \in Ids : Holds(r, m.sid) => r = m.id
  BY <1>2, <1>3 DEF Wanted, OneHolder
<1>5. \A u : Undispatched(u) => m.id < u
  BY <1>2 DEF Undispatched, Line, Ahead
<1>6. \A p : \A sid \in Sids : Holds(p, sid)' => Holds(p, sid)
  BY <1>2 DEF Holds
<1>7. \A u : Undispatched(u)' => Undispatched(u)
  BY <1>2 DEF Undispatched
<1>8. /\ outSubs'[m.sid] = o /\ \A sid \in Sids : sid # m.sid => outSubs'[sid] = outSubs[sid]
      /\ subs'[o].id = m.sid /\ \A x \in descriptors : x # o => subs'[x].id = subs[x].id
  BY <1>1, <1>2 DEF Types, ClientTypes, Objects
<1>9. /\ \A id : Call(id)' = Call(id) /\ \A type : IsA(id, type)' <=> IsA(id, type)
  BY <1>2 DEF Call, IsA, lastId
<1> HIDE DEF o
<1>10. StreamsRouted'
  <2> SUFFICES ASSUME NEW sid \in Sids, outSubs'[sid] # NoSub
               PROVE  \E st \in streams' : st.gen = slot'.gen /\ st.sid = sid
                                           /\ Call(st.id)'.sub = outSubs'[sid]
    BY DEF StreamsRouted, Call
  <2>1. CASE sid = m.sid
    <3>1. Stream(slot.gen, m.id, m.sid) \in streams
      BY <1>2 DEF Wanted, AnswersStream
    <3> QED BY <1>2, <1>8, <1>9, <2>1, <3>1 DEF Stream, o
  <2>2. CASE sid # m.sid
    <3>1. PICK st \in streams : st.gen = slot.gen /\ st.sid = sid /\ Call(st.id).sub = outSubs[sid]
      BY <1>8, <2>2 DEF Wanted, StreamsRouted
    <3> QED BY <1>2, <1>8, <1>9, <2>2, <3>1
  <2> QED BY <2>1, <2>2
<1>11. AnswersStream'
  BY <1>1, <1>2 DEF Wanted, AnswersStream, Stream
<1>12. UnsubsEnd'
  <2> SUFFICES ASSUME NEW u \in Ids, IsA(u, "unsub")', Undispatched(u)',
                      NEW sid \in Sids, sid = Call(u)'.sid
               PROVE  /\ outSubs'[sid] = NoSub
                      /\ \A p \in pendingOutSubs' : p < u => sid <= slot'.nextSub /\ ~Holds(p, sid)'
    BY DEF UnsubsEnd
  <2>1. IsA(u, "unsub") /\ Undispatched(u) /\ sid = Call(u).sid
    BY <1>7, <1>9
  <2>2. /\ outSubs[sid] = NoSub
        /\ \A p \in pendingOutSubs : p < u => sid <= slot.nextSub /\ ~Holds(p, sid)
    BY <2>1 DEF Wanted, UnsubsEnd
  <2>3. sid # m.sid
    BY <1>3, <1>5, <2>1, <2>2
  <2> QED BY <1>1, <1>2, <1>6, <1>8, <2>2, <2>3
<1>13. ActiveIds'
  <2> SUFFICES ASSUME NEW x \in descriptors', NEW sid \in Sids, sid = subs'[x].id
               PROVE  sid <= slot'.nextSub /\ \A p \in pendingOutSubs' : ~Holds(p, sid)'
    BY DEF ActiveIds
  <2>1. CASE x = o
    <3>1. sid = m.sid
      BY <1>8, <2>1
    <3>2. pendingOutSubs \subseteq Ids
      BY DEF Types, ClientTypes
    <3> QED BY <1>1, <1>2, <1>4, <1>6, <3>1, <3>2
  <2>2. CASE x # o
    <3>1. x \in descriptors /\ sid = subs[x].id
      BY <1>1, <1>8, <2>2
    <3>2. sid <= slot.nextSub /\ \A p \in pendingOutSubs : ~Holds(p, sid)
      BY <3>1 DEF Wanted, ActiveIds
    <3> QED BY <1>1, <1>2, <1>6, <3>2
  <2> QED BY <2>1, <2>2
<1>14. OneHolder'
  BY <1>2, <1>6 DEF Wanted, OneHolder
<1> QED BY <1>10, <1>11, <1>12, <1>13, <1>14 DEF Wanted

\* A connection with a handle of its own begins with nothing under way.
LEMMA WantedOfOpens ==
    ASSUME Core, Live', NEW how \in Reconnects, Opens(how)
    PROVE  Wanted'
<1>1. /\ ClientTypes' /\ Grown /\ pendingOutSubs' = lastId .. lastId' - 1
      /\ \A id \in pendingOutSubs' : IsA(id, "sub")'
      /\ \A sid \in Sids : outSubs'[sid] = NoSub
      /\ \A o \in descriptors' : subs'[o].id = NoSid
  BY EntriesOfOpens DEF Core, Types
<1>2. UNCHANGED <<down, rxq, rx, work, streams>> /\ session' = session + 1 /\ ws # "open"
  BY DEF Opens
<1>3. ToSet(down') = {}
  <2>1. down = << >>
    BY <1>2 DEF Core, Link
  <2> QED BY <1>2, <2>1, Members DEF Core, Types, ServerTypes
<1>4. \A g \in Nat : g <= slot.gen => g # slot'.gen
  <2>1. slot'.gen = session + 1 /\ slot.gen <= session /\ slot.gen \in Nat /\ session \in Nat
    BY <1>2, CallsAssumption DEF Live, Core, Link, Types, ServerTypes
  <2> QED BY <2>1
<1>5. /\ rx.pc # "idle" => rx.job.gen # slot'.gen
      /\ \A w \in work : w.gen # slot'.gen
  <2>1. rx.job.gen \in Nat /\ \A w \in work : w.gen \in Nat
    BY DEF Core, Types, ServerTypes, Jobs
  <2> QED BY <1>4, <2>1 DEF Core, Handles, OfItsTime
<1>6. \A p : \A sid \in Sids : ~Holds(p, sid)'
  BY <1>2, <1>3, <1>5 DEF Holds
<1>7. \A u \in Ids : IsA(u, "unsub")' => \A p \in pendingOutSubs' : ~(p < u)
  <2> SUFFICES ASSUME NEW u \in Ids, IsA(u, "unsub")', NEW p \in pendingOutSubs', p < u PROVE FALSE
    OBVIOUS
  <2>1. u \in 0 .. lastId' - 1 /\ u \notin lastId .. lastId' - 1
    BY <1>1 DEF IsA
  <2>2. lastId \in Nat /\ lastId' \in Nat /\ lastId <= lastId'
    BY <1>1 DEF Grown
  <2>3. u \in 0 .. lastId - 1
    BY <2>1, <2>2, Wider
  <2> QED BY <1>1, <2>2, <2>3
<1>8. StreamsRouted'
  BY <1>1 DEF StreamsRouted
<1>9. AnswersStream'
  BY <1>3 DEF AnswersStream
<1>10. UnsubsEnd'
  <2> SUFFICES ASSUME NEW u \in Ids, IsA(u, "unsub")', Undispatched(u)',
                      NEW sid \in Sids, sid = Call(u)'.sid
               PROVE  /\ outSubs'[sid] = NoSub
                      /\ \A p \in pendingOutSubs' : p < u => sid <= slot'.nextSub /\ ~Holds(p, sid)'
    BY DEF UnsubsEnd
  <2> QED BY <1>1, <1>7
<1>11. ActiveIds'
  BY <1>1 DEF ActiveIds, Sids, NoSid
<1>12. OneHolder'
  BY <1>6 DEF OneHolder
<1> QED BY <1>8, <1>9, <1>10, <1>11, <1>12 DEF Wanted

-----------------------------------------------------------------------------
(* All steps.                                                                  *)

\* A step of the client on a connection that goes on.
LEMMA WantedOfPage ==
    ASSUME Core, Wanted, Live', ws = "open", Moves, [Next]_vars, ClientStep
    PROVE  Wanted'
<1>1. Grown
  BY ObjectsStep DEF Core
<1>2. Coming' \subseteq Coming \cup (lastId .. lastId' - 1)
  BY <1>1, ComingGrows DEF Core
<1>3. /\ UNCHANGED server /\ down \in Seq(Answers)
      /\ ToSet(down') \subseteq ToSet(down)
  BY TypesOfClient DEF ClientStep, Core, Types, ServerTypes
<1>4. PICK n \in Nat : n = lastId
  BY <1>1 DEF Grown
<1>5. ASSUME NEW m \in Messages, m.type # "unsub", msgs' = Append(msgs, m)
      PROVE  /\ \A id \in lastId .. lastId' - 1 : Call(id)'.type # "unsub"
             /\ lastId \in lastId .. lastId' - 1
  <2>1. lastId' = lastId + 1 /\ \A id : id = lastId => Call(id)' = m
    BY <1>5, GrownByOne DEF Core, Types
  <2>2. n .. n + 1 - 1 = {n}
    OBVIOUS
  <2> QED BY <1>4, <1>5, <2>1, <2>2
<1>6. ASSUME UNCHANGED <<msgs, outSubs>>, pendingOutSubs' \subseteq pendingOutSubs,
             descriptors' \subseteq descriptors, \A x \in Subs : subs'[x].id = subs[x].id
      PROVE  Wanted'
  <2>1. lastId .. lastId' - 1 = {}
    <3>1. n .. n - 1 = {}
      OBVIOUS
    <3> QED BY <1>4, <1>6, <3>1 DEF lastId
  <2>2. descriptors \subseteq Subs
    BY DEF Core, Types, ClientTypes
  <2> QED BY <1>1, <1>2, <1>3, <1>6, <2>1, <2>2, WantedOfClient DEF Core
<1>7. ASSUME NEW type \in CallTypes, Send(type) PROVE Wanted'
  <2> DEFINE m == [type |-> type, sub |-> NoSub, sid |-> NoSid, again |-> FALSE]
  <2>1. m \in Messages /\ m.type # "unsub"
    BY CallsAssumption DEF Messages
  <2>2. msgs' = Append(msgs, m) /\ UNCHANGED <<outSubs, pendingOutSubs, descriptors, subs>>
    BY <1>7 DEF Send, objects
  <2> HIDE DEF m
  <2> QED BY <1>1, <1>2, <1>3, <1>5, <2>1, <2>2, WantedOfClient DEF Core
<1>8. ASSUME NEW o \in Subs, Subscribe(o) PROVE Wanted'
  <2> DEFINE m == [type |-> "sub", sub |-> o, sid |-> NoSid, again |-> FALSE]
  <2>1. m \in Messages /\ m.type # "unsub"
    BY DEF Messages
  <2>2. /\ msgs' = Append(msgs, m) /\ UNCHANGED outSubs /\ subs[o].reqId = NoId
        /\ subs' = [subs EXCEPT ![o].reqId = lastId, ![o].waiting = (ws # "open")]
        /\ pendingOutSubs' = pendingOutSubs \cup {lastId} /\ descriptors' = descriptors \cup {o}
    BY <1>8 DEF Subscribe
  <2>3. \A x \in Subs : subs'[x].id = subs[x].id
    BY <2>2 DEF Core, Types, ClientTypes, Objects
  <2>4. subs[o].id \notin Sids /\ descriptors \subseteq Subs
    BY <2>2 DEF Core, Entries, ObjectEntries, Types, ClientTypes, Sids, NoSid
  <2>5. /\ \A id \in lastId .. lastId' - 1 : Call(id)'.type # "unsub"
        /\ lastId \in lastId .. lastId' - 1
    <3> HIDE DEF m
    <3> QED BY <1>5, <2>1, <2>2
  <2> HIDE DEF m
  <2>6. \A x \in descriptors', sid \in Sids :
            sid = subs'[x].id => x \in descriptors /\ sid = subs[x].id
    BY <2>2, <2>3, <2>4
  <2>7. \A p \in pendingOutSubs' : p \in pendingOutSubs \/ p \in lastId .. lastId' - 1
    BY <2>2, <2>5
  <2> QED BY <1>1, <1>2, <1>3, <2>2, <2>5, <2>6, <2>7, WantedOfClient DEF Core
<1>9. ASSUME NEW o \in Subs, CancelPending(o) PROVE Wanted'
  <2>1. /\ UNCHANGED <<msgs, outSubs>> /\ subs' = [subs EXCEPT ![o].canceled = TRUE]
        /\ pendingOutSubs' = pendingOutSubs \ {subs[o].reqId} /\ descriptors' = descriptors \ {o}
    BY <1>9 DEF CancelPending
  <2>2. \A x \in Subs : subs'[x].id = subs[x].id
    BY <2>1 DEF Core, Types, ClientTypes, Objects
  <2> QED BY <1>6, <2>1, <2>2
<1>10. ASSUME NEW o \in Subs, Unsubscribe(o) PROVE Wanted'
  BY <1>2, <1>10, WantedOfUnsubscribe DEF Core
<1>11. ASSUME NEW id \in Ids, Timeout(id) PROVE Wanted'
  <2>1. Forget({id}) /\ UNCHANGED <<msgs, subs, outSubs>>
    BY <1>11 DEF Timeout
  <2> QED BY <1>6, <2>1 DEF Forget
<1>12. CASE ReceiveAck
  BY <1>6, <1>12 DEF ReceiveAck, objects
<1>13. CASE ReceiveAnswer
  <2> DEFINE m == Head(down)
             o == Call(m.id).sub
  <2>1. down # << >> /\ UNCHANGED msgs
    BY <1>13 DEF ReceiveAnswer
  <2>2. m \in Answers
    BY <1>3, <2>1, Shifted, IdsOfServer DEF Core
  <2>3. Coming' \subseteq Coming
    <3>1. n .. n - 1 = {}
      OBVIOUS
    <3> QED BY <1>2, <1>4, <2>1, <3>1 DEF lastId
  <2>4. CASE m.sid # NoSid /\ m.id \in pendingOutSubs
    <3> HIDE DEF m
    <3>1. m = Head(down)
      BY DEF m
    <3> QED BY <1>13, <2>1, <2>2, <2>3, <2>4, <3>1, WantedOfPromotion DEF Core
  <2>5. CASE ~(m.sid # NoSid /\ m.id \in pendingOutSubs)
    <3>1. /\ UNCHANGED <<subs, outSubs>>
          /\ pendingOutSubs' \subseteq pendingOutSubs /\ descriptors' \subseteq descriptors
      <4>1. CASE m.type = "err" /\ m.id \in pendingOutSubs /\ m.id \in pending
        BY <1>13, <2>5, <4>1 DEF ReceiveAnswer
      <4>2. CASE ~(m.type = "err" /\ m.id \in pendingOutSubs /\ m.id \in pending)
        BY <1>13, <2>5, <4>2 DEF ReceiveAnswer
      <4> QED BY <4>1, <4>2
    <3> QED BY <1>6, <2>1, <3>1
  <2> QED BY <2>4, <2>5
<1>14. CASE UNCHANGED vars
  BY <1>6, <1>14 DEF vars, client, objects
<1>15. CASE Connect \/ ConnectFails \/ ConnectionEnds \/ \E how \in Reconnects : Opens(how)
  BY <1>15 DEF Connect, ConnectFails, ConnectionEnds, Opens, Live
<1>16. CASE UNCHANGED client
  BY <1>6, <1>16 DEF client, objects
<1>17. CASE \/ HttpdRead \/ RxTake \/ RxAssign \/ RxMark \/ RxCheck \/ RxAck
            \/ CallbackReturns \/ DispatchUnsub
            \/ \E type \in {"resp", "err"} : CallbackAnswers(type)
            \/ \E w \in work : AppMarks(w) \/ \E type \in {"resp", "err"} : AppAnswers(w, type)
  <2>1. UNCHANGED client
    BY <1>17 DEF HttpdRead, RxTake, RxAssign, RxMark, RxCheck, RxAck, CallbackReturns,
                 DispatchUnsub, CallbackAnswers, AppMarks, AppAnswers
  <2> QED BY <1>16, <2>1
<1> QED BY <1>7, <1>8, <1>9, <1>10, <1>11, <1>12, <1>13, <1>14, <1>15, <1>17 DEF Next

LEMMA WantedStep ==
    ASSUME Core, Assigning, Live => Wanted, Live', [Next]_vars
    PROVE  Wanted'
<1>1. Grown
  BY ObjectsStep DEF Core
<1>2. CASE \E how \in Reconnects : Opens(how)
  BY <1>2, WantedOfOpens
<1>3. CASE ~\E how \in Reconnects : Opens(how)
  <2>1. Live /\ Wanted
    BY <1>1, <1>3, LiveBefore DEF Core
  <2>2. Moves \/ HttpdRead
    BY TableStep DEF Core, Types
  <2>3. CASE HttpdRead
    BY <2>1, <2>3, WantedOfRead DEF Core
  <2>4. CASE ~HttpdRead /\ ClientStep
    BY <2>1, <2>2, <2>4, WantedOfPage DEF Live
  <2>5. CASE ConnectionEnds
    BY <2>5 DEF ConnectionEnds, Live
  <2>6. CASE RxTake
    BY <2>1, <2>6, WantedOfTake DEF Core
  <2>7. CASE RxAssign
    BY <2>1, <2>7, WantedOfAssign DEF Core
  <2>8. CASE RxMark \/ RxCheck \/ RxAck \/ CallbackReturns
    BY <2>1, <2>8, WantedOfMark DEF Core
  <2>9. CASE DispatchUnsub
    BY <2>1, <2>9, WantedOfUnsub DEF Core
  <2>10. CASE CallbackAnswers("resp") \/ CallbackAnswers("err")
    <3>1. \A answer \in {"resp", "err"} : CallbackAnswers(answer) => Wanted'
      BY <2>1, WantedOfAnswers DEF Core
    <3> QED BY <2>10, <3>1
  <2>11. ASSUME NEW w \in work, AppStep(w) PROVE Wanted'
    <3>1. \A answer \in {"resp", "err"} : AppAnswers(w, answer) => Wanted'
      BY <2>1, WantedOfAnswers DEF Core
    <3>2. AppMarks(w) => Wanted'
      BY <2>1, WantedOfMark DEF Core
    <3> QED BY <2>11, <3>1, <3>2 DEF AppStep
  <2> QED BY <1>3, <2>3, <2>4, <2>5, <2>6, <2>7, <2>8, <2>9, <2>10, <2>11, Classes
<1> QED BY <1>2, <1>3

\* A delta reaches the subscription it is meant for: on a connection with a handle
\* of its own, each sub_id by which the page routes deltas is streamed for that very
\* subscription, through unsubs, late answers and renewals (ws.js, _onMessage and
\* _resubscribeAll), if no subscription is unsubscribed twice.
THEOREM DeltasAreRouted == Spec => []DeltasMatch
<1> DEFINE Inv == Assigning /\ (Live => Wanted)
<1>1. Init => Inv
  BY DEF Init, Assigning, Live, IdleRx
<1>2. Core /\ Inv /\ [Next]_vars => Inv'
  <2>1. ASSUME Core, Inv, [Next]_vars PROVE Inv'
    <3>1. Assigning'
      BY <2>1, ObjectsStep, AssigningStep DEF Core
    <3>2. Live' => Wanted'
      BY <2>1, WantedStep
    <3> QED BY <3>1, <3>2
  <2> QED BY <2>1
<1>3. Inv => DeltasMatch
  BY DEF Live, Wanted, DeltasMatch
<1> QED BY <1>1, <1>2, <1>3, CoreHolds, PTL DEF Spec
=============================================================================
