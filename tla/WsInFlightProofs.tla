-------------------------- MODULE WsInFlightProofs --------------------------
(***************************************************************************)
(* Proofs about WsInFlight, for every number of permits, tasks, queue      *)
(* places, ids and connections: its types, the ids and the connections of  *)
(* messages, then what the in-flight semaphore promises (the account of    *)
(* Permits), and what that means for the client.                           *)
(***************************************************************************)
EXTENDS WsInFlight, FiniteSetTheorems, FunctionTheorems, TLAPS

\* A slot's generation is no later than its connection, and whoever has begun
\* to send finds an id to use.
Bounds == gen <= sess /\ lastId + Cardinality(Claims) <= MaxId

\* Only a task that unsubscribes does without a permit.
Roles ==
    \A s \in Tasks :
        /\ sender[s].pc \in {"sem", "alloc", "fail", "give"} => sender[s].kind \in Kinds
        /\ sender[s].pc = "unsub" => sender[s].kind = "unsub"

\* An entry that is still a sender's is the one that sender holds the place and
\* the id of.
Owned ==
    \A k \in Kinds, i \in Idx :
        tab[k][i].by # NoTask =>
            LET t == sender[tab[k][i].by]
            IN  t.pc \in {"send", "fail"} /\ t.kind = k /\ t.idx = i /\ t.id = tab[k][i].id

\* Tasks with a message that is not out, and the ids that are: with the client,
\* on their way back, or in the hands of the receive task.
Sending == {s \in Tasks : sender[s].pc \in {"send", "fail"}}
IsOut(id) ==
    \/ \E m \in client : m.id = id
    \/ \E n \in 1 .. Len(jobs) : jobs[n].id = id
    \/ rx.pc # "idle" /\ rx.job.id = id

\* While the slot is one socket's, ids name one message each: none that is out
\* or in a table is still to be given, none that is out is still to be sent.
IdsAreNames ==
    OneSocket =>
        /\ \A id \in Ids : IsOut(id) => id <= lastId /\ \A s \in Sending : sender[s].id # id
        /\ \A s \in Sending : sender[s].id <= lastId
        /\ \A s, t \in Sending : sender[s].id = sender[t].id => s = t

Core == TypeOK /\ Bounds /\ Roles /\ Owned

\* An answer to a message, that arrived on one connection, is on its way or taken.
IsAnswered(id, n) ==
    \/ \E i \in 1 .. Len(jobs) : jobs[i].id = id /\ jobs[i].sess = n
    \/ rx.pc # "idle" /\ rx.job.id = id /\ rx.job.sess = n

\* What is pending is of this connection, and so is every answer to it: an answer
\* of an earlier connection finds nothing pending under its id.
Sessions ==
    \A k \in Kinds, i \in Idx : tab[k][i].in_use =>
        /\ tab[k][i].sess = sess
        /\ OneSocket => \A id \in Ids, n \in 1 .. MaxSessions :
               tab[k][i].id = id /\ IsAnswered(id, n) => n = sess

-----------------------------------------------------------------------------
(* Operators of the model.                                                 *)

\* The first entry of a search that finds one is an entry it found.
LEMMA LowestIsMember ==
    ASSUME NEW S \in SUBSET Idx, S # {}
    PROVE  /\ Lowest(S) \in S
           /\ \A j \in S : Lowest(S) <= j
<1> DEFINE R == OpToRel(<, Nat)
<1>1. S \subseteq Nat /\ \A x, y \in S : ~(<<y, x>> \in R) => x <= y
  BY InFlightAssumption DEF Idx, OpToRel
<1>2. IsWellFoundedOn(R, Nat)
  BY NatLessThanWellFounded
<1> HIDE DEF R
<1>3. \E x \in S : \A y \in S : ~(<<y, x>> \in R)
  BY <1>1, <1>2, WFMin
<1>4. \E x \in S : \A y \in S : x <= y
  BY <1>1, <1>3
<1> QED
  BY <1>4 DEF Lowest

\* The tasks that have begun to send are finitely many.
LEMMA ClaimsFinite == IsFiniteSet(Tasks) /\ IsFiniteSet(Claims) /\ Cardinality(Claims) \in Nat
<1>1. IsFiniteSet(Tasks)
  BY InFlightAssumption, FS_AddElement DEF Tasks
<1>2. Claims \in SUBSET Tasks
  BY DEF Claims
<1> QED
  BY <1>1, <1>2, FS_Subset, FS_CardinalityType

\* A task that has begun to send leaves an id free, the next one.
LEMMA NextIdFree == ASSUME TypeOK, Bounds, Claims # {} PROVE lastId + 1 \in Ids
<1>1. Cardinality(Claims) > 0
  BY ClaimsFinite, FS_EmptySet
<1> QED
  BY <1>1, ClaimsFinite, InFlightAssumption DEF TypeOK, Bounds, Ids
-----------------------------------------------------------------------------
(* Types.                                                                  *)

\* The initial values have their types.
LEMMA InitialTypes ==
    /\ IdleSender \in SenderStates
    /\ Blank \in Entries
    /\ BlankTab \in Tables
    /\ NoJob \in Jobs
    /\ IdleRx \in RxStates
<1>1. 0 \in Ids /\ 1 \in 1 .. MaxSessions /\ 1 \in Idx
  BY InFlightAssumption DEF Ids, Idx
<1>2. Blank \in Entries
  BY <1>1 DEF Blank, Entries
<1>3. NoJob \in Jobs
  BY <1>1 DEF NoJob, Jobs
<1>4. IdleSender \in SenderStates
  BY <1>1 DEF IdleSender, SenderStates, Kinds
<1>5. IdleRx \in RxStates
  BY <1>1, <1>2, <1>3 DEF IdleRx, RxStates
<1>6. BlankTab \in Tables
  BY <1>2 DEF BlankTab, Tables
<1> QED
  BY <1>2, <1>3, <1>4, <1>5, <1>6

\* A task that sends moves on.
LEMMA SetPcType ==
    ASSUME TypeOK, NEW s \in Tasks,
           NEW pc \in {"idle", "sem", "alloc", "unsub", "send", "fail", "give"}, SetPc(s, pc)
    PROVE  sender' \in [Tasks -> SenderStates]
<1>1. [sender[s] EXCEPT !.pc = pc] \in SenderStates
  BY DEF TypeOK, SenderStates
<1>2. sender' = [sender EXCEPT ![s] = [sender[s] EXCEPT !.pc = pc]]
  BY DEF SetPc
<1> QED
  BY <1>1, <1>2 DEF TypeOK

\* A task begins to send.
LEMMA StartedType ==
    ASSUME TypeOK, NEW s \in Tasks, NEW kind \in Kinds, Started(s, kind)
    PROVE  sender' \in [Tasks -> SenderStates]
<1>1. [IdleSender EXCEPT !.pc = "sem", !.gen = gen, !.kind = kind] \in SenderStates
  BY InitialTypes DEF TypeOK, SenderStates
<1> QED
  BY <1>1 DEF Started, TypeOK

\* An entry that changes hands or is given up.
LEMMA EntryTypes ==
    ASSUME NEW e \in Entries, NEW id \in Ids, NEW n \in 1 .. MaxSessions, NEW s \in Tasks
    PROVE  /\ [e EXCEPT !.by = NoTask] \in Entries
           /\ [e EXCEPT !.in_use = FALSE] \in Entries
           /\ [e EXCEPT !.acked = TRUE] \in Entries
           /\ [e EXCEPT !.in_use = TRUE, !.id = id, !.sess = n, !.by = s] \in Entries
  BY DEF Entries

\* A table in which one entry is replaced.
LEMMA TableType ==
    ASSUME NEW T \in Tables, NEW k \in Kinds, NEW i \in Idx, NEW e \in Entries
    PROVE  [T EXCEPT ![k][i] = e] \in Tables
  BY DEF Tables

LEMMA UnownType == ASSUME TypeOK, NEW s \in Tasks PROVE Unown(s) \in Tables
<1>1. \A k \in Kinds, i \in Idx :
          (IF tab[k][i].by = s THEN [tab[k][i] EXCEPT !.by = NoTask] ELSE tab[k][i]) \in Entries
  <2> SUFFICES ASSUME NEW k \in Kinds, NEW i \in Idx
               PROVE  [tab[k][i] EXCEPT !.by = NoTask] \in Entries /\ tab[k][i] \in Entries
    OBVIOUS
  <2>1. tab[k][i] \in Entries
    BY DEF TypeOK, Tables
  <2> QED
    BY <2>1 DEF Entries
<1> QED
  BY <1>1 DEF Unown, Tables

\* A step of one task that sends, whatever else it changes.
LEMMA SenderSteps ==
    ASSUME TypeOK, Bounds, NEW s \in Tasks, SenderStep(s)
    PROVE  TypeOK'
<1> USE DEF TypeOK
<1>1. sender[s] \in SenderStates /\ IdleSender \in SenderStates
  BY InitialTypes
<1>2. /\ sender[s].kind \in Kinds \cup {"unsub"} /\ sender[s].idx \in Idx
      /\ sender[s].id \in Ids
  BY <1>1 DEF SenderStates
<1>3. Unown(s) \in Tables
  BY UnownType
<1>4. CASE TakePermit(s)
  <2>1. sem' \in 0 .. MaxInFlight
    BY <1>4, InFlightAssumption DEF TakePermit
  <2> QED
    BY <1>4, <2>1, SetPcType DEF TakePermit, conn
<1>5. CASE PermitTimeout(s)
  BY <1>1, <1>5 DEF PermitTimeout, conn
<1>6. CASE AllocEntry(s)
  <2> DEFINE k == sender[s].kind
             free == {i \in Idx : ~tab[k][i].in_use}
             i == Lowest(free)
             e == [tab[k][i] EXCEPT !.in_use = TRUE, !.id = lastId + 1, !.sess = sess, !.by = s]
             t == [sender[s] EXCEPT !.pc = "send", !.idx = i, !.id = lastId + 1]
  <2>1. CASE free = {}
    BY <1>6, <2>1, SetPcType DEF AllocEntry, conn
  <2>2. CASE free # {}
    <3>1. i \in Idx
      BY <2>2, LowestIsMember
    <3>2. lastId + 1 \in Ids
      BY <1>6, NextIdFree DEF AllocEntry, Claims
    <3>3. tab' = [tab EXCEPT ![k][i] = e]
      BY <1>6, <2>2 DEF AllocEntry
    <3>4. sender' = [sender EXCEPT ![s] = t]
      BY <1>6, <2>2 DEF AllocEntry
    <3>5. lastId' = lastId + 1 /\ UNCHANGED <<conn, sem, inSubs, rx, jobs, client, active>>
      BY <1>6, <2>2 DEF AllocEntry
    <3>6. ASSUME k \in Kinds PROVE e \in Entries
      <4>1. tab[k][i] \in Entries
        BY <3>1, <3>6 DEF Tables
      <4> QED
        BY <3>2, <4>1, EntryTypes
    <3>7. t \in SenderStates
      BY <1>1, <3>1, <3>2 DEF SenderStates
    <3> HIDE DEF i, k, e, t
    <3>8. tab' \in Tables
      <4>1. CASE k \in Kinds
        BY <3>1, <3>3, <3>6, <4>1, TableType
      <4>2. CASE k \notin Kinds
        BY <3>3, <4>2 DEF Tables
      <4> QED
        BY <4>1, <4>2
    <3>9. sender' \in [Tasks -> SenderStates]
      BY <3>4, <3>7
    <3> QED
      BY <3>2, <3>5, <3>8, <3>9 DEF conn
  <2> QED
    BY <2>1, <2>2
<1>7. CASE ForgetSub(s)
  <2> DEFINE t == [sender[s] EXCEPT !.pc = "send", !.id = lastId + 1]
  <2>1. lastId + 1 \in Ids
    BY <1>7, NextIdFree DEF ForgetSub, Claims
  <2>2. t \in SenderStates
    BY <1>1, <2>1 DEF SenderStates
  <2>3. sender' = [sender EXCEPT ![s] = t]
    BY <1>7 DEF ForgetSub
  <2> HIDE DEF t
  <2> QED
    BY <1>7, <2>1, <2>2, <2>3 DEF ForgetSub, conn
<1>8. CASE SendOk(s)
  <2>1. [kind |-> sender[s].kind, id |-> sender[s].id,
         acked |-> sender[s].kind = "unsub", answered |-> FALSE] \in Messages
    BY <1>2 DEF Messages
  <2> QED
    BY <1>1, <1>3, <1>8, <2>1 DEF SendOk, conn
<1>9. CASE SendFails(s)
  <2>1. sender' \in [Tasks -> SenderStates]
    BY <1>1, <1>9, SetPcType DEF SendFails
  <2> QED
    BY <1>9, <2>1 DEF SendFails, conn
<1>10. CASE ClearEntry(s)
  <2> DEFINE k == sender[s].kind
             i == sender[s].idx
  <2>1. [Unown(s) EXCEPT ![k][i].in_use = FALSE] \in Tables
    <3>1. CASE k \in Kinds
      <4>1. Unown(s)[k][i] \in Entries
        BY <1>2, <1>3, <3>1 DEF Tables
      <4>2. [Unown(s)[k][i] EXCEPT !.in_use = FALSE] \in Entries
        BY <4>1 DEF Entries
      <4> QED
        BY <1>2, <1>3, <3>1, <4>2, TableType
    <3>2. CASE k \notin Kinds
      BY <1>3, <3>2 DEF Tables
    <3> QED
      BY <3>1, <3>2
  <2> QED
    BY <1>10, <2>1, SetPcType DEF ClearEntry, conn
<1>11. CASE GiveBack(s)
  <2>1. sem' \in 0 .. MaxInFlight
    BY <1>11, InFlightAssumption DEF GiveBack, Give
  <2> QED
    BY <1>1, <1>11, <2>1 DEF GiveBack, conn
<1> QED
  BY <1>4, <1>5, <1>6, <1>7, <1>8, <1>9, <1>10, <1>11 DEF SenderStep

\* A task begins a call.
LEMMA SendersStart ==
    ASSUME TypeOK, NEW s \in Senders,
           \/ \E kind \in Kinds : StartSend(s, kind)
           \/ \E sub \in active : StartUnsubscribe(s, sub)
    PROVE  TypeOK'
<1> USE DEF TypeOK
<1>1. s \in Tasks
  BY DEF Tasks
<1>2. ASSUME NEW kind \in Kinds, StartSend(s, kind) PROVE TypeOK'
  BY <1>1, <1>2, StartedType DEF StartSend, conn
<1>3. ASSUME NEW sub \in active, StartUnsubscribe(s, sub) PROVE TypeOK'
  <2> DEFINE t == [IdleSender EXCEPT !.pc = "unsub", !.gen = gen, !.kind = "unsub", !.sub = sub]
  <2>1. t \in SenderStates
    BY InitialTypes DEF SenderStates
  <2>2. sender' = [sender EXCEPT ![s] = t]
    BY <1>3 DEF StartUnsubscribe
  <2> HIDE DEF t
  <2> QED
    BY <1>3, <2>1, <2>2 DEF StartUnsubscribe, conn
<1> QED
  BY <1>2, <1>3

\* What the client does with a message.
LEMMA ClientSteps ==
    ASSUME TypeOK, NEW m \in client,
           ClientAck(m) \/ \E t \in {"resp", "err"} : ClientAnswer(m, t)
    PROVE  TypeOK'
<1> USE DEF TypeOK
<1>1. m \in Messages
  OBVIOUS
<1>2. ASSUME NEW done \in Messages, NEW type \in {"ack", "resp", "err"}, Deliver(m, done, type)
      PROVE  TypeOK'
  <2>1. [type |-> type, sub |-> m.kind = "sub" /\ type = "resp", id |-> m.id,
         gen |-> gen, sess |-> sess] \in Jobs
    BY <1>1 DEF Messages, Jobs
  <2>2. jobs' \in Seq(Jobs)
    BY <1>2, <2>1 DEF Deliver
  <2>3. client' \subseteq Messages
    BY <1>2 DEF Deliver
  <2> QED
    BY <1>2, <2>2, <2>3 DEF Deliver, conn
<1>3. CASE ClientAck(m)
  <2>1. [m EXCEPT !.acked = TRUE] \in Messages
    BY <1>1 DEF Messages
  <2> QED
    BY <1>2, <1>3, <2>1 DEF ClientAck
<1>4. ASSUME NEW t \in {"resp", "err"}, ClientAnswer(m, t) PROVE TypeOK'
  <2>1. [m EXCEPT !.answered = TRUE, !.acked = @ \/ ~ClientAcks] \in Messages
    BY <1>1, InFlightAssumption DEF Messages
  <2> QED
    BY <1>2, <1>4, <2>1 DEF ClientAnswer
<1> QED
  BY <1>3, <1>4

\* The entry that an ack or an answer is for.
LEMMA PendingFound ==
    ASSUME NEW k \in Kinds
    PROVE  /\ Unacked(k) \subseteq Pending(k) /\ Pending(k) \subseteq Idx
           /\ Unacked(k) # {} => Lowest(Unacked(k)) \in Unacked(k)
           /\ Pending(k) # {} => Lowest(Pending(k)) \in Pending(k)
<1>1. Unacked(k) \subseteq Pending(k) /\ Pending(k) \subseteq Idx
  BY DEF Unacked, Pending
<1> QED
  BY <1>1, LowestIsMember

\* What the receive task does with an ack or an answer.
LEMMA MatchSteps ==
    ASSUME TypeOK, RxMatch
    PROVE  TypeOK'
<1> USE DEF TypeOK
<1>1. rx \in RxStates /\ rx.job.id \in Ids /\ rx.job \in Jobs /\ IdleRx \in RxStates
  BY InitialTypes DEF RxStates, Jobs
<1>2. UNCHANGED <<conn, lastId, sem, sender, jobs, client, active>>
  BY DEF RxMatch
<1>3. ASSUME NEW k \in Kinds, NEW i \in Idx PROVE tab[k][i] \in Entries
  BY DEF Tables
<1>4. ASSUME NEW k \in Kinds, Pending(k) # {}, Finish(k)
      PROVE  tab' \in Tables /\ rx' \in RxStates
  <2> DEFINE i == Lowest(Pending(k))
             e == [tab[k][i] EXCEPT !.in_use = FALSE]
             r == [rx EXCEPT !.pc = IF tab[k][i].acked THEN "callback" ELSE "give",
                             !.hit = tab[k][i], !.sub = IF rx.job.sub THEN rx.job.id ELSE 0]
  <2>1. i \in Idx
    BY <1>4, PendingFound
  <2>2. tab' = [tab EXCEPT ![k][i] = e] /\ rx' = r
    BY <1>4 DEF Finish
  <2>3. e \in Entries
    BY <1>3, <2>1 DEF Entries
  <2>4. 0 \in Ids
    BY InFlightAssumption DEF Ids
  <2>5. r \in RxStates
    BY <1>1, <1>3, <2>1, <2>4 DEF RxStates
  <2> HIDE DEF i, e, r
  <2> QED
    BY <2>1, <2>2, <2>3, <2>5, TableType
<1>5. CASE NoMatch
  BY <1>1, <1>2, <1>5 DEF NoMatch, conn
<1>6. CASE MatchAck
  <2>1. ASSUME NEW k \in Kinds, Unacked(k) # {},
               tab' = [tab EXCEPT ![k][Lowest(Unacked(k))].acked = TRUE],
               rx' = [rx EXCEPT !.pc = "give", !.hit = tab[k][Lowest(Unacked(k))]],
               UNCHANGED inSubs
        PROVE  TypeOK'
    <3> DEFINE i == Lowest(Unacked(k))
               e == [tab[k][i] EXCEPT !.acked = TRUE]
    <3>1. i \in Idx
      BY <2>1, PendingFound
    <3>2. e \in Entries
      BY <1>3, <3>1 DEF Entries
    <3>3. rx' \in RxStates
      BY <1>1, <1>3, <2>1, <3>1 DEF RxStates
    <3>4. tab' = [tab EXCEPT ![k][i] = e] /\ UNCHANGED inSubs
      BY <2>1
    <3> HIDE DEF i, e
    <3>5. tab' \in Tables
      BY <3>1, <3>2, <3>4, TableType
    <3> QED
      BY <1>2, <3>3, <3>4, <3>5 DEF conn
  <2> QED
    BY <1>5, <1>6, <2>1 DEF MatchAck, Kinds
<1>7. CASE MatchSubscribed
  <2>1. inSubs' \subseteq Ids
    BY <1>1, <1>7 DEF MatchSubscribed, NoMatch
  <2> QED
    BY <1>2, <1>4, <1>5, <1>7, <2>1 DEF MatchSubscribed, Kinds, conn
<1>8. CASE MatchAnswer
  BY <1>2, <1>4, <1>5, <1>8 DEF MatchAnswer, Kinds, conn
<1> QED
  BY <1>6, <1>7, <1>8 DEF RxMatch

\* The other steps of the receive task.
LEMMA RxSteps ==
    ASSUME TypeOK, RxStep
    PROVE  TypeOK'
<1> USE DEF TypeOK
<1>1. rx \in RxStates /\ IdleRx \in RxStates
  BY InitialTypes
<1>2. CASE RxTake
  <2>1. Head(jobs) \in Jobs /\ jobs' \in Seq(Jobs)
    BY <1>2 DEF RxTake
  <2>2. rx' \in RxStates
    BY <1>1, <1>2, <2>1 DEF RxTake, RxStates
  <2> QED
    BY <1>2, <2>1, <2>2 DEF RxTake, conn
<1>3. CASE RxLookup
  <2>1. rx' \in RxStates
    BY <1>1, <1>3 DEF RxLookup, RxStates
  <2> QED
    BY <1>3, <2>1 DEF RxLookup, conn
<1>4. CASE RxMatch
  BY <1>4, MatchSteps
<1>5. CASE RxGive
  <2>1. rx' \in RxStates /\ sem' \in 0 .. MaxInFlight
    BY <1>1, <1>5, InFlightAssumption DEF RxGive, RxStates, Give
  <2> QED
    BY <1>5, <2>1 DEF RxGive, conn
<1>6. ASSUME Callback PROVE active' \subseteq Ids
  BY <1>1, <1>6 DEF Callback, RxStates
<1>7. CASE RxCallback
  BY <1>1, <1>6, <1>7 DEF RxCallback, Callback, conn
<1>8. ASSUME NEW kind \in Kinds, RxCallbackSends(kind) PROVE TypeOK'
  <2>1. sender' \in [Tasks -> SenderStates]
    BY <1>8, StartedType DEF RxCallbackSends, Tasks
  <2>2. rx' \in RxStates
    BY <1>1, <1>8 DEF RxCallbackSends, RxStates
  <2> QED
    BY <1>6, <1>8, <2>1, <2>2 DEF RxCallbackSends, Callback, conn
<1>9. CASE RxCallbackReturns
  BY <1>1, <1>9 DEF RxCallbackReturns, conn
<1> QED
  BY <1>2, <1>3, <1>4, <1>5, <1>7, <1>8, <1>9 DEF RxStep
-----------------------------------------------------------------------------
(* What the steps do to a task and to an entry.                            *)

Count(b) == IF b THEN 1 ELSE 0

\* A set that gains or loses at most one element.
LEMMA CountChange ==
    ASSUME NEW S, IsFiniteSet(S), NEW T, NEW x, S \ {x} = T \ {x}
    PROVE  /\ IsFiniteSet(T)
           /\ Cardinality(S) \in Nat /\ Cardinality(T) \in Nat
           /\ Cardinality(T) = Cardinality(S) + Count(x \in T) - Count(x \in S)
<1> DEFINE R == S \ {x}
<1>1. /\ IsFiniteSet(R) /\ Cardinality(R) \in Nat /\ Cardinality(S) \in Nat
      /\ Cardinality(R) = IF x \in S THEN Cardinality(S) - 1 ELSE Cardinality(S)
  BY FS_RemoveElement, FS_CardinalityType
<1>2. x \notin R
  OBVIOUS
<1>3. CASE x \in T
  <2>1. T = R \cup {x}
    BY <1>3
  <2>2. IsFiniteSet(T) /\ Cardinality(T) = Cardinality(R) + 1
    BY <1>1, <1>2, <2>1, FS_AddElement
  <2> QED
    BY <1>1, <1>3, <2>2 DEF Count
<1>4. CASE x \notin T
  <2>1. T = R
    BY <1>4
  <2> QED
    BY <1>1, <1>4, <2>1 DEF Count
<1> QED
  BY <1>3, <1>4

\* A step that moves one task changes its counts by that task only.
LEMMA SenderCounts ==
    ASSUME NEW s \in Tasks, \A t \in Tasks \ {s} : sender'[t] = sender[t]
    PROVE  /\ Cardinality(Claims)' = Cardinality(Claims) + Count(s \in Claims') - Count(s \in Claims)
           /\ Cardinality(Holders)' = Cardinality(Holders) + Count(s \in Holders') - Count(s \in Holders)
           /\ Cardinality(Claims) \in Nat /\ Cardinality(Holders) \in Nat
<1>1. Claims \ {s} = Claims' \ {s} /\ Holders \ {s} = Holders' \ {s}
  BY DEF Claims, Holders
<1>2. IsFiniteSet(Claims) /\ IsFiniteSet(Holders)
  <2>1. Claims \in SUBSET Tasks /\ Holders \in SUBSET Tasks
    BY DEF Claims, Holders
  <2> QED
    BY <2>1, ClaimsFinite, FS_Subset
<1> QED
  BY <1>1, <1>2, CountChange

\* One entry of a table is replaced.
LEMMA TableAt ==
    ASSUME NEW T \in Tables, NEW k \in Kinds, NEW i \in Idx, NEW e
    PROVE  \A l \in Kinds, j \in Idx :
               [T EXCEPT ![k][i] = e][l][j] = IF l = k /\ j = i THEN e ELSE T[l][j]
  BY DEF Tables

\* AllocEntry: no entry is free, or one that was free is now the sender's.
LEMMA AllocEffect ==
    ASSUME TypeOK, Roles, NEW s \in Tasks, AllocEntry(s)
    PROVE  /\ sender[s].pc = "alloc" /\ sender[s].kind \in Kinds
           /\ UNCHANGED <<used, gen, sess, sem, inSubs, rx, jobs, client, active>>
           /\ \A t \in Tasks \ {s} : sender'[t] = sender[t]
           /\ sender'[s].kind = sender[s].kind /\ sender'[s].gen = sender[s].gen
           /\ \/ UNCHANGED <<lastId, tab>> /\ sender'[s].pc = "give"
              \/ /\ lastId' = lastId + 1
                 /\ sender'[s].pc = "send" /\ sender'[s].idx \in Idx
                 /\ sender'[s].id = lastId + 1
                 /\ ~tab[sender[s].kind][sender'[s].idx].in_use
                 /\ \A k \in Kinds, i \in Idx :
                        IF k = sender[s].kind /\ i = sender'[s].idx
                        THEN /\ tab'[k][i].in_use /\ tab'[k][i].by = s
                             /\ tab'[k][i].id = lastId + 1 /\ tab'[k][i].sess = sess
                             /\ tab'[k][i].acked = tab[k][i].acked
                        ELSE tab'[k][i] = tab[k][i]
<1> DEFINE k0 == sender[s].kind
           free == {i \in Idx : ~tab[k0][i].in_use}
           i0 == Lowest(free)
           e == [tab[k0][i0] EXCEPT !.in_use = TRUE, !.id = lastId + 1, !.sess = sess, !.by = s]
<1>1. sender[s].pc = "alloc" /\ UNCHANGED <<used, gen, sess, sem, inSubs, rx, jobs, client, active>>
  BY DEF AllocEntry, conn
<1>2. k0 \in Kinds
  BY <1>1 DEF Roles
<1>3. sender \in [Tasks -> SenderStates]
  BY DEF TypeOK
<1>4. CASE free = {}
  <2>1. sender' = [sender EXCEPT ![s].pc = "give"] /\ UNCHANGED <<lastId, tab>>
    BY <1>4 DEF AllocEntry, SetPc
  <2> QED
    BY <1>1, <1>2, <1>3, <2>1 DEF SenderStates
<1>5. CASE free # {}
  <2>1. i0 \in Idx /\ i0 \in free
    BY <1>5, LowestIsMember
  <2>2. /\ sender' = [sender EXCEPT ![s].pc = "send", ![s].idx = i0, ![s].id = lastId + 1]
        /\ tab' = [tab EXCEPT ![k0][i0] = e]
        /\ lastId' = lastId + 1
    BY <1>5 DEF AllocEntry
  <2>3. tab[k0][i0] \in Entries /\ tab \in Tables
    BY <1>2, <2>1 DEF TypeOK, Tables
  <2>4. /\ e.in_use /\ e.by = s /\ e.id = lastId + 1 /\ e.sess = sess
        /\ e.acked = tab[k0][i0].acked
    BY <2>3 DEF Entries
  <2>5. ~tab[k0][i0].in_use
    BY <2>1
  <2> HIDE DEF e, i0, k0
  <2>6. \A k \in Kinds, i \in Idx :
            tab'[k][i] = IF k = k0 /\ i = i0 THEN e ELSE tab[k][i]
    BY <1>2, <2>1, <2>2, <2>3, TableAt, SMTT(30)
  <2>7. /\ \A t \in Tasks \ {s} : sender'[t] = sender[t]
        /\ sender'[s].kind = sender[s].kind /\ sender'[s].gen = sender[s].gen
        /\ sender'[s].pc = "send" /\ sender'[s].idx = i0 /\ sender'[s].id = lastId + 1
    BY <1>3, <2>2 DEF SenderStates
  <2>8. \A k \in Kinds, i \in Idx :
            IF k = k0 /\ i = sender'[s].idx
            THEN /\ tab'[k][i].in_use /\ tab'[k][i].by = s
                 /\ tab'[k][i].id = lastId + 1 /\ tab'[k][i].sess = sess
                 /\ tab'[k][i].acked = tab[k][i].acked
            ELSE tab'[k][i] = tab[k][i]
    BY <2>4, <2>6, <2>7
  <2>9. sender'[s].idx \in Idx /\ ~tab[k0][sender'[s].idx].in_use /\ lastId' = lastId + 1
    BY <2>1, <2>2, <2>5, <2>7
  <2> QED
    BY <1>1, <1>2, <2>7, <2>8, <2>9 DEF k0
<1> QED
  BY <1>4, <1>5

\* Unown: the sender's entries are nobody's, and otherwise as they were.
LEMMA UnownAt ==
    ASSUME TypeOK, NEW s \in Tasks, NEW k \in Kinds, NEW i \in Idx
    PROVE  LET d == tab[k][i]
               e == Unown(s)[k][i]
           IN  /\ e.in_use = d.in_use /\ e.acked = d.acked /\ e.id = d.id /\ e.sess = d.sess
               /\ e.by = IF d.by = s THEN NoTask ELSE d.by
               /\ d.by # s => e = d
<1>1. tab[k][i] \in Entries
  BY DEF TypeOK, Tables
<1>2. Unown(s)[k][i] = IF tab[k][i].by = s THEN [tab[k][i] EXCEPT !.by = NoTask] ELSE tab[k][i]
  BY DEF Unown
<1> QED
  BY <1>1, <1>2 DEF Entries

\* SendOk: the call is over, its entry is nobody's, the client has the message.
LEMMA SendOkEffect ==
    ASSUME TypeOK, NEW s \in Tasks, SendOk(s)
    PROVE  /\ sender[s].pc = "send" /\ sender'[s] = IdleSender
           /\ \A t \in Tasks \ {s} : sender'[t] = sender[t]
           /\ UNCHANGED <<used, gen, sess, lastId, sem, inSubs, rx, jobs, active>>
           /\ \A k \in Kinds, i \in Idx : tab'[k][i] = Unown(s)[k][i]
           /\ client' = client \cup {[kind |-> sender[s].kind, id |-> sender[s].id,
                                      acked |-> sender[s].kind = "unsub", answered |-> FALSE]}
  BY DEF SendOk, TypeOK, conn

\* ClearEntry: the entry in the sender's place is given up.
LEMMA ClearEffect ==
    ASSUME TypeOK, Roles, NEW s \in Tasks, ClearEntry(s)
    PROVE  /\ sender[s].pc = "fail" /\ sender[s].kind \in Kinds /\ sender[s].idx \in Idx
           /\ sender'[s].pc = "give" /\ sender'[s].kind = sender[s].kind
           /\ \A t \in Tasks \ {s} : sender'[t] = sender[t]
           /\ UNCHANGED <<used, gen, sess, lastId, sem, inSubs, rx, jobs, client, active>>
           /\ \A k \in Kinds, i \in Idx :
                  IF k = sender[s].kind /\ i = sender[s].idx
                  THEN tab'[k][i] = [Unown(s)[k][i] EXCEPT !.in_use = FALSE]
                  ELSE tab'[k][i] = Unown(s)[k][i]
<1> DEFINE k0 == sender[s].kind
           i0 == sender[s].idx
           e == [Unown(s)[k0][i0] EXCEPT !.in_use = FALSE]
<1>1. sender \in [Tasks -> SenderStates] /\ Unown(s) \in Tables
  BY UnownType DEF TypeOK
<1>2. sender[s].pc = "fail" /\ k0 \in Kinds /\ i0 \in Idx
  BY <1>1 DEF ClearEntry, Roles, SenderStates
<1>3. /\ tab' = [Unown(s) EXCEPT ![k0][i0] = e]
      /\ sender' = [sender EXCEPT ![s].pc = "give"]
      /\ UNCHANGED <<used, gen, sess, lastId, sem, inSubs, rx, jobs, client, active>>
  BY DEF ClearEntry, SetPc, conn
<1>4. /\ sender'[s].pc = "give" /\ sender'[s].kind = k0
      /\ \A t \in Tasks \ {s} : sender'[t] = sender[t]
  BY <1>1, <1>3 DEF SenderStates
<1> HIDE DEF e, k0, i0
<1>5. \A k \in Kinds, i \in Idx :
          tab'[k][i] = IF k = k0 /\ i = i0 THEN e ELSE Unown(s)[k][i]
  BY <1>1, <1>2, <1>3, TableAt
<1>6. \A k \in Kinds, i \in Idx :
          IF k = k0 /\ i = i0 THEN tab'[k][i] = [Unown(s)[k][i] EXCEPT !.in_use = FALSE]
          ELSE tab'[k][i] = Unown(s)[k][i]
  BY <1>5 DEF e, k0, i0
<1> QED
  BY <1>2, <1>3, <1>4, <1>6 DEF k0, i0

\* The steps of a sender that leave the tables alone.
LEMMA PlainSenderEffect ==
    ASSUME TypeOK, NEW s \in Tasks,
           TakePermit(s) \/ PermitTimeout(s) \/ ForgetSub(s) \/ SendFails(s) \/ GiveBack(s)
    PROVE  /\ \A t \in Tasks \ {s} : sender'[t] = sender[t]
           /\ UNCHANGED <<used, gen, sess, tab, rx, jobs, client, active>>
           /\ \/ sender[s].pc = "sem" /\ sender'[s] = [sender[s] EXCEPT !.pc = "alloc"]
              \/ sender[s].pc \in {"sem", "give"} /\ sender'[s] = IdleSender
              \/ /\ sender[s].pc = "unsub" /\ lastId' = lastId + 1
                 /\ sender'[s] = [sender[s] EXCEPT !.pc = "send", !.id = lastId + 1]
              \/ /\ sender[s].pc = "send" /\ sender[s].kind = "unsub"
                 /\ sender'[s] = IdleSender
              \/ /\ sender[s].pc = "send" /\ sender[s].kind # "unsub"
                 /\ sender'[s] = [sender[s] EXCEPT !.pc = "fail"]
           /\ sender[s].pc # "unsub" => UNCHANGED lastId
<1> USE DEF TypeOK
<1>1. CASE TakePermit(s)
  BY <1>1 DEF TakePermit, SetPc, conn
<1>2. CASE PermitTimeout(s)
  BY <1>2 DEF PermitTimeout, conn
<1>3. CASE ForgetSub(s)
  BY <1>3 DEF ForgetSub, conn
<1>4. CASE SendFails(s)
  BY <1>4 DEF SendFails, SetPc, conn
<1>5. CASE GiveBack(s)
  BY <1>5 DEF GiveBack, conn
<1> QED
  BY <1>1, <1>2, <1>3, <1>4, <1>5

\* Finish: the entry that was found is given up and noted.
LEMMA FinishEffect ==
    ASSUME TypeOK, NEW k \in Kinds, Pending(k) # {}, Finish(k), rx.pc = "match"
    PROVE  \E i \in Pending(k) :
               /\ tab[k][i] \in Entries
               /\ rx'.hit = tab[k][i] /\ rx'.job = rx.job
               /\ rx'.pc = IF tab[k][i].acked THEN "callback" ELSE "give"
               /\ \A l \in Kinds, j \in Idx :
                      IF l = k /\ j = i THEN tab'[l][j] = [tab[l][j] EXCEPT !.in_use = FALSE]
                      ELSE tab'[l][j] = tab[l][j]
<1> DEFINE i0 == Lowest(Pending(k))
           e == [tab[k][i0] EXCEPT !.in_use = FALSE]
<1>1. i0 \in Pending(k) /\ i0 \in Idx
  BY PendingFound
<1>2. tab' = [tab EXCEPT ![k][i0] = e]
  BY DEF Finish
<1>3. /\ rx'.hit = tab[k][i0] /\ rx'.job = rx.job
      /\ rx'.pc = IF tab[k][i0].acked THEN "callback" ELSE "give"
  BY DEF Finish, TypeOK, RxStates
<1>4. tab[k][i0] \in Entries /\ tab \in Tables
  BY <1>1 DEF TypeOK, Tables
<1> HIDE DEF i0, e
<1>5. \A l \in Kinds, j \in Idx :
          tab'[l][j] = IF l = k /\ j = i0 THEN e ELSE tab[l][j]
  BY <1>1, <1>2, <1>4, TableAt
<1>6. \A l \in Kinds, j \in Idx :
          IF l = k /\ j = i0 THEN tab'[l][j] = [tab[l][j] EXCEPT !.in_use = FALSE]
          ELSE tab'[l][j] = tab[l][j]
  BY <1>5 DEF e
<1> QED
  BY <1>1, <1>3, <1>4, <1>6

\* RxMatch: nothing is found, an entry is acked, or an entry is finished.
LEMMA MatchEffect ==
    ASSUME TypeOK, RxMatch
    PROVE  /\ rx.pc = "match"
           /\ UNCHANGED <<used, gen, sess, lastId, sem, sender, jobs, client, active>>
           /\ \/ rx' = IdleRx /\ UNCHANGED tab
              \/ \E k \in Kinds : \E i \in Unacked(k) :
                     /\ rx.job.type = "ack"
                     /\ tab[k][i] \in Entries
                     /\ rx'.pc = "give" /\ rx'.hit = tab[k][i] /\ rx'.job = rx.job
                     /\ \A l \in Kinds, j \in Idx :
                            IF l = k /\ j = i
                            THEN tab'[l][j] = [tab[l][j] EXCEPT !.acked = TRUE]
                            ELSE tab'[l][j] = tab[l][j]
              \/ \E k \in Kinds : \E i \in Pending(k) :
                     /\ rx.job.type \in {"resp", "err"}
                     /\ tab[k][i] \in Entries
                     /\ rx'.hit = tab[k][i] /\ rx'.job = rx.job
                     /\ rx'.pc = IF tab[k][i].acked THEN "callback" ELSE "give"
                     /\ \A l \in Kinds, j \in Idx :
                            IF l = k /\ j = i
                            THEN tab'[l][j] = [tab[l][j] EXCEPT !.in_use = FALSE]
                            ELSE tab'[l][j] = tab[l][j]
<1>1. /\ rx.pc = "match"
      /\ UNCHANGED <<used, gen, sess, lastId, sem, sender, jobs, client, active>>
  BY DEF RxMatch, conn
<1>2. CASE NoMatch
  BY <1>1, <1>2 DEF NoMatch
<1>3. ASSUME MatchAck, NEW k \in Kinds, Unacked(k) # {},
             tab' = [tab EXCEPT ![k][Lowest(Unacked(k))].acked = TRUE],
             rx' = [rx EXCEPT !.pc = "give", !.hit = tab[k][Lowest(Unacked(k))]]
      PROVE  \E i \in Unacked(k) :
                 /\ rx.job.type = "ack"
                 /\ tab[k][i] \in Entries
                 /\ rx'.pc = "give" /\ rx'.hit = tab[k][i] /\ rx'.job = rx.job
                 /\ \A l \in Kinds, j \in Idx :
                        IF l = k /\ j = i
                        THEN tab'[l][j] = [tab[l][j] EXCEPT !.acked = TRUE]
                        ELSE tab'[l][j] = tab[l][j]
  <2> DEFINE i0 == Lowest(Unacked(k))
             e == [tab[k][i0] EXCEPT !.acked = TRUE]
  <2>1. i0 \in Unacked(k) /\ i0 \in Idx
    BY <1>3, PendingFound
  <2>2. tab' = [tab EXCEPT ![k][i0] = e]
    BY <1>3
  <2>3. rx'.pc = "give" /\ rx'.hit = tab[k][i0] /\ rx'.job = rx.job /\ rx.job.type = "ack"
    BY <1>3 DEF MatchAck, TypeOK, RxStates
  <2>4. tab[k][i0] \in Entries /\ tab \in Tables
    BY <2>1 DEF TypeOK, Tables
  <2> HIDE DEF i0, e
  <2>5. \A l \in Kinds, j \in Idx :
            tab'[l][j] = IF l = k /\ j = i0 THEN e ELSE tab[l][j]
    BY <2>1, <2>2, <2>4, TableAt, SMTT(30)
  <2>6. \A l \in Kinds, j \in Idx :
            IF l = k /\ j = i0 THEN tab'[l][j] = [tab[l][j] EXCEPT !.acked = TRUE]
            ELSE tab'[l][j] = tab[l][j]
    BY <2>5 DEF e
  <2> QED
    BY <2>1, <2>3, <2>4, <2>6
<1>4. CASE MatchAck
  BY <1>1, <1>2, <1>3, <1>4 DEF MatchAck, Kinds
<1>5. ASSUME NEW k \in Kinds, Pending(k) # {}, Finish(k), rx.job.type \in {"resp", "err"}
      PROVE  \E i \in Pending(k) :
                 /\ rx.job.type \in {"resp", "err"}
                 /\ tab[k][i] \in Entries
                 /\ rx'.hit = tab[k][i] /\ rx'.job = rx.job
                 /\ rx'.pc = IF tab[k][i].acked THEN "callback" ELSE "give"
                 /\ \A l \in Kinds, j \in Idx :
                        IF l = k /\ j = i
                        THEN tab'[l][j] = [tab[l][j] EXCEPT !.in_use = FALSE]
                        ELSE tab'[l][j] = tab[l][j]
  BY <1>1, <1>5, FinishEffect
<1>6. CASE MatchSubscribed
  BY <1>1, <1>2, <1>5, <1>6 DEF MatchSubscribed, Kinds
<1>7. CASE MatchAnswer
  BY <1>1, <1>2, <1>5, <1>7 DEF MatchAnswer, Kinds
<1> QED
  BY <1>4, <1>6, <1>7 DEF RxMatch
-----------------------------------------------------------------------------
(* Roles, owners and bounds.                                               *)

LEMMA OwnerIsTask ==
    ASSUME TypeOK, NEW k \in Kinds, NEW i \in Idx, tab[k][i].by # NoTask
    PROVE  tab[k][i].by \in Tasks
  BY DEF TypeOK, Tables, Entries

LEMMA PlainSenderCore ==
    ASSUME Core, NEW s \in Tasks,
           TakePermit(s) \/ PermitTimeout(s) \/ ForgetSub(s) \/ SendFails(s) \/ GiveBack(s)
    PROVE  Roles' /\ Owned' /\ Bounds'
<1> USE DEF Core
<1>1. sender[s] \in SenderStates
  BY DEF TypeOK
<1>2. /\ \A t \in Tasks \ {s} : sender'[t] = sender[t]
      /\ gen' = gen /\ sess' = sess /\ tab' = tab
  BY PlainSenderEffect
<1>3. /\ \/ sender[s].pc = "sem" /\ sender'[s] = [sender[s] EXCEPT !.pc = "alloc"]
         \/ sender[s].pc \in {"sem", "give"} /\ sender'[s] = IdleSender
         \/ /\ sender[s].pc = "unsub" /\ lastId' = lastId + 1
            /\ sender'[s] = [sender[s] EXCEPT !.pc = "send", !.id = lastId + 1]
         \/ /\ sender[s].pc = "send" /\ sender[s].kind = "unsub"
            /\ sender'[s] = IdleSender
         \/ /\ sender[s].pc = "send" /\ sender[s].kind # "unsub"
            /\ sender'[s] = [sender[s] EXCEPT !.pc = "fail"]
      /\ sender[s].pc # "unsub" => lastId' = lastId
  BY PlainSenderEffect
<1>4. /\ sender[s].kind \in Kinds \cup {"unsub"}
      /\ \/ /\ sender[s].pc = "sem" /\ lastId' = lastId
            /\ sender'[s].pc = "alloc" /\ sender'[s].kind = sender[s].kind
         \/ sender[s].pc \notin {"unsub", "alloc"} /\ lastId' = lastId /\ sender'[s].pc = "idle"
         \/ sender[s].pc = "unsub" /\ lastId' = lastId + 1 /\ sender'[s].pc = "send"
         \/ /\ sender[s].pc = "send" /\ sender[s].kind # "unsub" /\ lastId' = lastId
            /\ sender'[s].pc = "fail" /\ sender'[s].kind = sender[s].kind
  <2>1. IdleSender.pc = "idle"
    BY DEF IdleSender
  <2> QED
    BY <1>1, <1>3, <2>1 DEF SenderStates
<1>5. Roles'
  BY <1>2, <1>4 DEF Roles, Kinds
<1>6. Owned'
  <2> SUFFICES ASSUME NEW k \in Kinds, NEW i \in Idx, tab[k][i].by # NoTask
               PROVE  LET t == sender'[tab[k][i].by]
                      IN  t.pc \in {"send", "fail"} /\ t.kind = k /\ t.idx = i
                          /\ t.id = tab[k][i].id
    BY <1>2 DEF Owned
  <2>1. /\ tab[k][i].by \in Tasks
        /\ LET t == sender[tab[k][i].by]
           IN  t.pc \in {"send", "fail"} /\ t.kind = k /\ t.idx = i /\ t.id = tab[k][i].id
    BY OwnerIsTask DEF Owned
  <2>2. CASE tab[k][i].by # s
    BY <1>2, <2>1, <2>2
  <2>3. CASE tab[k][i].by = s
    BY <1>1, <1>3, <2>1, <2>3 DEF SenderStates, Kinds
  <2> QED
    BY <2>2, <2>3
<1>7. Bounds'
  <2>1. /\ Cardinality(Claims)' = Cardinality(Claims) + Count(s \in Claims') - Count(s \in Claims)
        /\ Cardinality(Claims) \in Nat
    BY <1>2, SenderCounts
  <2>2. /\ (s \in Claims' => s \in Claims)
        /\ (s \in Claims' => lastId' = lastId)
        /\ (lastId' # lastId => s \in Claims /\ lastId' = lastId + 1)
    BY <1>4 DEF Claims
  <2>3. lastId \in Nat
    BY DEF TypeOK, Ids
  <2> QED
    BY <1>2, <2>1, <2>2, <2>3, InFlightAssumption DEF Bounds, Count
<1> QED
  BY <1>5, <1>6, <1>7

LEMMA AllocCore ==
    ASSUME Core, NEW s \in Tasks, AllocEntry(s)
    PROVE  Roles' /\ Owned' /\ Bounds'
<1> USE DEF Core
<1>1. Roles'
  BY AllocEffect DEF Roles
<1>2. Owned'
  <2> SUFFICES ASSUME NEW k \in Kinds, NEW i \in Idx, tab'[k][i].by # NoTask
               PROVE  LET t == sender'[tab'[k][i].by]
                      IN  t.pc \in {"send", "fail"} /\ t.kind = k /\ t.idx = i
                          /\ t.id = tab'[k][i].id
    BY DEF Owned
  <2>1. tab[k][i].by # NoTask =>
            /\ tab[k][i].by \in Tasks
            /\ LET t == sender[tab[k][i].by]
               IN  t.pc \in {"send", "fail"} /\ t.kind = k /\ t.idx = i /\ t.id = tab[k][i].id
    BY OwnerIsTask DEF Owned
  <2>2. tab[k][i].by # NoTask => tab[k][i].by # s
    BY <2>1, AllocEffect
  <2>3. CASE tab'[k][i] = tab[k][i]
    BY <2>1, <2>2, <2>3, AllocEffect
  <2>4. CASE tab'[k][i] # tab[k][i]
    BY <2>4, AllocEffect
  <2> QED
    BY <2>3, <2>4
<1>3. Bounds'
  <2>1. /\ Cardinality(Claims)' = Cardinality(Claims) + Count(s \in Claims') - Count(s \in Claims)
        /\ Cardinality(Claims) \in Nat
    BY SenderCounts, AllocEffect
  <2>2. s \in Claims /\ s \notin Claims'
    BY AllocEffect DEF Claims
  <2>3. lastId \in Nat /\ lastId' \in {lastId, lastId + 1} /\ gen' = gen /\ sess' = sess
    BY AllocEffect DEF TypeOK, Ids
  <2> QED
    BY <2>1, <2>2, <2>3, InFlightAssumption DEF Bounds, Count
<1> QED
  BY <1>1, <1>2, <1>3

LEMMA SendOkCore ==
    ASSUME Core, NEW s \in Tasks, SendOk(s)
    PROVE  Roles' /\ Owned' /\ Bounds'
<1> USE DEF Core
<1>1. Roles'
  BY SendOkEffect DEF Roles, IdleSender
<1>2. Owned'
  <2> SUFFICES ASSUME NEW k \in Kinds, NEW i \in Idx, tab'[k][i].by # NoTask
               PROVE  LET t == sender'[tab'[k][i].by]
                      IN  t.pc \in {"send", "fail"} /\ t.kind = k /\ t.idx = i
                          /\ t.id = tab'[k][i].id
    BY DEF Owned
  <2>1. tab'[k][i] = Unown(s)[k][i]
    BY SendOkEffect
  <2>2. tab[k][i].by # NoTask /\ tab[k][i].by # s /\ tab'[k][i] = tab[k][i]
    BY <2>1, UnownAt
  <2> QED
    BY <2>2, OwnerIsTask, SendOkEffect DEF Owned
<1>3. Bounds'
  <2>1. /\ Cardinality(Claims)' = Cardinality(Claims) + Count(s \in Claims') - Count(s \in Claims)
        /\ Cardinality(Claims) \in Nat
    BY SenderCounts, SendOkEffect
  <2>2. s \notin Claims /\ s \notin Claims'
    BY SendOkEffect DEF Claims, IdleSender
  <2> QED
    BY <2>1, <2>2, SendOkEffect DEF Bounds, Count
<1> QED
  BY <1>1, <1>2, <1>3

LEMMA ClearCore ==
    ASSUME Core, NEW s \in Tasks, ClearEntry(s)
    PROVE  Roles' /\ Owned' /\ Bounds'
<1> USE DEF Core
<1>1. Roles'
  BY ClearEffect DEF Roles
<1>2. Owned'
  <2> SUFFICES ASSUME NEW k \in Kinds, NEW i \in Idx, tab'[k][i].by # NoTask
               PROVE  LET t == sender'[tab'[k][i].by]
                      IN  t.pc \in {"send", "fail"} /\ t.kind = k /\ t.idx = i
                          /\ t.id = tab'[k][i].id
    BY DEF Owned
  <2>1. Unown(s)[k][i] \in Entries
    BY UnownType DEF Tables
  <2>2. \/ tab'[k][i] = Unown(s)[k][i]
        \/ tab'[k][i] = [Unown(s)[k][i] EXCEPT !.in_use = FALSE]
    BY ClearEffect
  <2>3. tab'[k][i].by = Unown(s)[k][i].by /\ tab'[k][i].id = Unown(s)[k][i].id
    BY <2>1, <2>2 DEF Entries
  <2>4. tab[k][i].by # s /\ tab'[k][i].by = tab[k][i].by /\ tab'[k][i].id = tab[k][i].id
    BY <2>3, UnownAt
  <2> QED
    BY <2>4, OwnerIsTask, ClearEffect DEF Owned
<1>3. Bounds'
  <2>1. /\ Cardinality(Claims)' = Cardinality(Claims) + Count(s \in Claims') - Count(s \in Claims)
        /\ Cardinality(Claims) \in Nat
    BY SenderCounts, ClearEffect
  <2>2. s \notin Claims /\ s \notin Claims'
    BY ClearEffect DEF Claims
  <2> QED
    BY <2>1, <2>2, ClearEffect DEF Bounds, Count
<1> QED
  BY <1>1, <1>2, <1>3

\* A call begins in a task that was idle.
LEMMA StartCore ==
    ASSUME Core, NEW s \in Tasks, sender[s].pc = "idle", RoomForId,
           \A t \in Tasks \ {s} : sender'[t] = sender[t],
           \/ sender'[s].pc = "sem" /\ sender'[s].kind \in Kinds
           \/ sender'[s].pc = "unsub" /\ sender'[s].kind = "unsub",
           UNCHANGED <<gen, sess, lastId, tab>>
    PROVE  Roles' /\ Owned' /\ Bounds'
<1> USE DEF Core
<1>1. Roles'
  BY DEF Roles
<1>2. Owned'
  BY OwnerIsTask DEF Owned
<1>3. Bounds'
  <2>1. /\ Cardinality(Claims)' = Cardinality(Claims) + Count(s \in Claims') - Count(s \in Claims)
        /\ Cardinality(Claims) \in Nat
    BY SenderCounts
  <2>2. s \notin Claims /\ s \in Claims'
    BY DEF Claims
  <2>3. lastId \in Nat
    BY DEF TypeOK, Ids
  <2> QED
    BY <2>1, <2>2, <2>3, InFlightAssumption DEF Bounds, Count, RoomForId
<1> QED
  BY <1>1, <1>2, <1>3

\* A step that moves no task that sends and gives no entry a new owner.
LEMMA OtherCore ==
    ASSUME Core, UNCHANGED <<lastId, gen, sess, sender>>,
           \A k \in Kinds, i \in Idx :
               tab'[k][i].by = tab[k][i].by /\ tab'[k][i].id = tab[k][i].id
    PROVE  Roles' /\ Owned' /\ Bounds'
<1> USE DEF Core
<1>1. Claims' = Claims
  BY DEF Claims
<1> QED
  BY <1>1 DEF Roles, Owned, Bounds

LEMMA RxCore == ASSUME Core, RxStep PROVE Roles' /\ Owned' /\ Bounds'
<1> USE DEF Core
<1>1. CASE RxTake \/ RxLookup \/ RxGive \/ RxCallback \/ RxCallbackReturns
  <2>1. UNCHANGED <<lastId, gen, sess, sender, tab>>
    BY <1>1 DEF RxTake, RxLookup, RxGive, RxCallback, Callback, RxCallbackReturns, conn
  <2> QED
    BY <2>1, OtherCore
<1>2. CASE RxMatch
  <2>1. \A k \in Kinds, i \in Idx : tab[k][i] \in Entries
    BY DEF TypeOK, Tables
  <2>2. \A k \in Kinds, i \in Idx : \/ tab'[k][i] = tab[k][i]
                                    \/ tab'[k][i] = [tab[k][i] EXCEPT !.acked = TRUE]
                                    \/ tab'[k][i] = [tab[k][i] EXCEPT !.in_use = FALSE]
    BY <1>2, MatchEffect
  <2>3. \A k \in Kinds, i \in Idx :
            tab'[k][i].by = tab[k][i].by /\ tab'[k][i].id = tab[k][i].id
    <3> SUFFICES ASSUME NEW k \in Kinds, NEW i \in Idx
                 PROVE  tab'[k][i].by = tab[k][i].by /\ tab'[k][i].id = tab[k][i].id
      OBVIOUS
    <3>1. /\ tab[k][i] \in Entries
          /\ \/ tab'[k][i] = tab[k][i]
             \/ tab'[k][i] = [tab[k][i] EXCEPT !.acked = TRUE]
             \/ tab'[k][i] = [tab[k][i] EXCEPT !.in_use = FALSE]
      BY <2>1, <2>2
    <3> QED
      BY <3>1 DEF Entries
  <2>4. UNCHANGED <<lastId, gen, sess, sender>>
    BY <1>2, MatchEffect
  <2> QED
    BY <2>3, <2>4, OtherCore
<1>3. ASSUME NEW kind \in Kinds, RxCallbackSends(kind) PROVE Roles' /\ Owned' /\ Bounds'
  <2>1. Rx \in Tasks /\ Started(Rx, kind) /\ UNCHANGED <<gen, sess, lastId, tab>>
    BY <1>3 DEF RxCallbackSends, Callback, conn, Tasks
  <2>2. /\ sender[Rx].pc = "idle" /\ RoomForId
        /\ \A t \in Tasks \ {Rx} : sender'[t] = sender[t]
        /\ sender'[Rx].pc = "sem" /\ sender'[Rx].kind = kind
    BY <2>1 DEF Started, TypeOK, IdleSender
  <2> QED
    BY <2>1, <2>2, StartCore
<1> QED
  BY <1>1, <1>2, <1>3 DEF RxStep

LEMMA StartsCore ==
    ASSUME Core, NEW s \in Senders,
           \/ \E kind \in Kinds : StartSend(s, kind)
           \/ \E sub \in active : StartUnsubscribe(s, sub)
    PROVE  Roles' /\ Owned' /\ Bounds'
<1> USE DEF Core
<1>1. s \in Tasks
  BY DEF Tasks
<1>2. ASSUME NEW kind \in Kinds, StartSend(s, kind) PROVE Roles' /\ Owned' /\ Bounds'
  <2>1. Started(s, kind) /\ UNCHANGED <<gen, sess, lastId, tab>>
    BY <1>2 DEF StartSend, conn
  <2>2. /\ sender[s].pc = "idle" /\ RoomForId
        /\ \A t \in Tasks \ {s} : sender'[t] = sender[t]
        /\ sender'[s].pc = "sem" /\ sender'[s].kind = kind
    BY <1>1, <2>1 DEF Started, TypeOK, IdleSender
  <2> QED
    BY <1>1, <2>1, <2>2, StartCore
<1>3. ASSUME NEW sub \in active, StartUnsubscribe(s, sub) PROVE Roles' /\ Owned' /\ Bounds'
  <2>1. /\ sender[s].pc = "idle" /\ RoomForId
        /\ \A t \in Tasks \ {s} : sender'[t] = sender[t]
        /\ sender'[s].pc = "unsub" /\ sender'[s].kind = "unsub"
        /\ UNCHANGED <<gen, sess, lastId, tab>>
    BY <1>1, <1>3 DEF StartUnsubscribe, TypeOK, IdleSender, conn
  <2> QED
    BY <1>1, <2>1, StartCore
<1> QED
  BY <1>2, <1>3

\* The connection ends or is made again.
LEMMA ConnectionCore ==
    ASSUME Core, Disconnect \/ ReconnectSame \/ ReconnectOther
    PROVE  Core'
<1> USE DEF Core
<1>1. CASE Disconnect
  <2>1. UNCHANGED <<lastId, gen, sess, sender, tab>>
    BY <1>1 DEF Disconnect
  <2>2. TypeOK'
    BY <1>1 DEF Disconnect, TypeOK
  <2> QED
    BY <2>1, <2>2, OtherCore
<1>2. CASE ReconnectSame \/ ReconnectOther
  <2>1. /\ sess' = sess + 1 /\ sess < MaxSessions /\ used' = TRUE
        /\ tab' = BlankTab /\ inSubs' = {} /\ active' = {}
        /\ UNCHANGED <<sem, sender, rx, jobs, client>>
        /\ gen' \in {gen, gen + 1}
        /\ lastId' \in {0, lastId}
    BY <1>2 DEF ReconnectSame, ReconnectOther, Restart
  <2>2. gen \in Nat /\ sess \in Nat /\ lastId \in Nat /\ lastId' \in Ids
    BY <2>1, InFlightAssumption DEF TypeOK, Ids
  <2>3. Claims' = Claims
    BY <2>1 DEF Claims
  <2>4. Bounds'
    BY <2>1, <2>2, <2>3, ClaimsFinite, InFlightAssumption DEF Bounds, Ids
  <2>5. gen' \in 1 .. MaxSessions /\ sess' \in 1 .. MaxSessions
    BY <2>1, <2>2, InFlightAssumption DEF TypeOK, Bounds
  <2>6. TypeOK'
    BY <2>1, <2>2, <2>5, InitialTypes DEF TypeOK
  <2>7. Roles' /\ Owned'
    BY <2>1 DEF Roles, Owned, BlankTab, Blank
  <2> QED
    BY <2>4, <2>6, <2>7
<1> QED
  BY <1>1, <1>2

LEMMA InitCore == Init => Core
<1> SUFFICES ASSUME Init PROVE Core
  OBVIOUS
<1>1. TypeOK
  <2>1. /\ used \in BOOLEAN /\ gen \in 1 .. MaxSessions /\ sess \in 1 .. MaxSessions
        /\ lastId \in Ids /\ sem \in 0 .. MaxInFlight
    BY InFlightAssumption DEF Init, Ids
  <2>2. sender \in [Tasks -> SenderStates] /\ tab \in Tables /\ rx \in RxStates
    BY InitialTypes DEF Init
  <2> QED
    BY <2>1, <2>2 DEF Init, TypeOK
<1>2. Claims = {}
  BY DEF Init, Claims, IdleSender
<1>3. Bounds
  BY <1>2, FS_EmptySet, InFlightAssumption DEF Init, Bounds
<1>4. Roles
  BY DEF Init, Roles, IdleSender
<1>5. Owned
  BY DEF Init, Owned, BlankTab, Blank
<1> QED
  BY <1>1, <1>3, <1>4, <1>5 DEF Core

\* Every step keeps types, bounds, roles and owners.
LEMMA NextCore == Core /\ [Next]_vars => Core'
<1> SUFFICES ASSUME Core, [Next]_vars PROVE Core'
  OBVIOUS
<1>1. ASSUME NEW s \in Tasks, SenderStep(s) PROVE Core'
  <2>1. TypeOK'
    BY <1>1, SenderSteps DEF Core
  <2> QED
    BY <1>1, <2>1, PlainSenderCore, AllocCore, SendOkCore, ClearCore DEF SenderStep, Core
<1>2. ASSUME NEW s \in Senders,
             \/ \E kind \in Kinds : StartSend(s, kind)
             \/ \E sub \in active : StartUnsubscribe(s, sub)
      PROVE  Core'
  <2>1. TypeOK'
    BY <1>2, SendersStart DEF Core
  <2> QED
    BY <1>2, <2>1, StartsCore DEF Core
<1>3. ASSUME NEW m \in client, ClientAck(m) \/ \E t \in {"resp", "err"} : ClientAnswer(m, t)
      PROVE  Core'
  <2>1. TypeOK'
    BY <1>3, ClientSteps DEF Core
  <2>2. UNCHANGED <<lastId, gen, sess, sender, tab>>
    BY <1>3 DEF ClientAck, ClientAnswer, Deliver, conn
  <2> QED
    BY <2>1, <2>2, OtherCore DEF Core
<1>4. CASE RxStep
  <2>1. TypeOK'
    BY <1>4, RxSteps DEF Core
  <2> QED
    BY <1>4, <2>1, RxCore DEF Core
<1>5. CASE Disconnect \/ ReconnectSame \/ ReconnectOther
  BY <1>5, ConnectionCore
<1>6. CASE UNCHANGED vars
  <2>1. Claims' = Claims
    BY <1>6 DEF Claims, vars
  <2> QED
    BY <1>6, <2>1 DEF Core, TypeOK, Bounds, Roles, Owned, vars
<1> QED
  BY <1>1, <1>2, <1>3, <1>4, <1>5, <1>6 DEF Next

\* Ids, permits, tables, tasks, queue and messages have their types: in particular
\* the semaphore stays within its maximum and no id is beyond the bound.
THEOREM TypeCorrect == Spec => []TypeOK
<1>1. Core => TypeOK
  BY DEF Core
<1> QED
  BY InitCore, NextCore, <1>1, PTL DEF Spec
-----------------------------------------------------------------------------
(* Ids are names while the slot is one socket's.                           *)

LEMMA RxIsTask == Rx \in Tasks
  BY DEF Tasks

\* A step after which nothing more is out, and at most one task has a new id.
LEMMA IdsKept ==
    ASSUME TypeOK, IdsAreNames, gen' = gen, lastId' \in {lastId, lastId + 1},
           NEW s \in Tasks, \A t \in Tasks \ {s} : sender'[t] = sender[t],
           s \in Sending' => \/ s \in Sending /\ sender'[s].id = sender[s].id
                             \/ lastId' = lastId + 1 /\ sender'[s].id = lastId + 1,
           \A id \in Ids : IsOut(id)' => IsOut(id)
    PROVE  IdsAreNames'
<1> SUFFICES ASSUME OneSocket
             PROVE  /\ \A id \in Ids : IsOut(id)' => id <= lastId' /\ \A t \in Sending' : sender'[t].id # id
                    /\ \A t \in Sending' : sender'[t].id <= lastId'
                    /\ \A t, u \in Sending' : sender'[t].id = sender'[u].id => t = u
  BY DEF IdsAreNames, OneSocket
<1>1. /\ \A id \in Ids : IsOut(id) => id <= lastId /\ \A t \in Sending : sender[t].id # id
      /\ \A t \in Sending : sender[t].id <= lastId
      /\ \A t, u \in Sending : sender[t].id = sender[u].id => t = u
  BY DEF IdsAreNames
<1>2. lastId \in Nat /\ Ids \subseteq Nat /\ \A t \in Tasks : sender[t].id \in Ids
  BY DEF TypeOK, Ids, SenderStates
<1>3. Sending' \subseteq Tasks /\ Sending \subseteq Tasks
  BY DEF Sending
<1>4. \A t \in Sending' : \/ t \in Sending /\ sender'[t].id = sender[t].id
                          \/ t = s /\ lastId' = lastId + 1 /\ sender'[t].id = lastId + 1
  BY <1>3 DEF Sending
<1>5. \A id \in Ids : IsOut(id)' => id <= lastId' /\ \A t \in Sending' : sender'[t].id # id
  BY <1>1, <1>2, <1>4
<1>6. \A t \in Sending' : sender'[t].id <= lastId'
  <2> SUFFICES ASSUME NEW t \in Sending' PROVE sender'[t].id <= lastId'
    OBVIOUS
  <2>1. t \in Sending => sender[t].id \in Nat /\ sender[t].id <= lastId
    BY <1>1, <1>2, <1>3
  <2> QED
    BY <1>2, <1>4, <2>1
<1>7. \A t, u \in Sending' : sender'[t].id = sender'[u].id => t = u
  BY <1>1, <1>2, <1>3, <1>4
<1> QED
  BY <1>5, <1>6, <1>7

\* A message that goes out takes its id with it.
LEMMA IdsWhenSent ==
    ASSUME TypeOK, IdsAreNames, NEW s \in Tasks, SendOk(s)
    PROVE  IdsAreNames'
<1> SUFFICES ASSUME OneSocket
             PROVE  /\ \A id \in Ids : IsOut(id)' => id <= lastId' /\ \A t \in Sending' : sender'[t].id # id
                    /\ \A t \in Sending' : sender'[t].id <= lastId'
                    /\ \A t, u \in Sending' : sender'[t].id = sender'[u].id => t = u
  BY SendOkEffect DEF IdsAreNames, OneSocket
<1>1. /\ \A id \in Ids : IsOut(id) => id <= lastId /\ \A t \in Sending : sender[t].id # id
      /\ \A t \in Sending : sender[t].id <= lastId
      /\ \A t, u \in Sending : sender[t].id = sender[u].id => t = u
  BY DEF IdsAreNames
<1>2. s \in Sending /\ \A t \in Sending' : t \in Sending /\ t # s /\ sender'[t] = sender[t]
  BY SendOkEffect DEF Sending, IdleSender
<1>3. \A id \in Ids : IsOut(id)' => IsOut(id) \/ id = sender[s].id
  BY SendOkEffect DEF IsOut
<1>4. lastId' = lastId
  BY SendOkEffect
<1> QED
  BY <1>1, <1>2, <1>3, <1>4

\* What the receive task holds, and what is on its way to it.
LEMMA OutEffect ==
    ASSUME TypeOK, NEW id \in Ids, IsOut(id)',
           \/ RxStep \/ Disconnect \/ ReconnectSame
           \/ \E m \in client : ClientAck(m) \/ \E t \in {"resp", "err"} : ClientAnswer(m, t)
    PROVE  IsOut(id)
<1>1. CASE RxTake
  <2>1. /\ jobs \in Seq(Jobs) /\ jobs # << >>
        /\ rx'.pc # "idle" /\ rx'.job = jobs[1] /\ jobs' = Tail(jobs) /\ client' = client
    BY <1>1 DEF RxTake, TypeOK, IdleRx
  <2>2. 1 \in 1 .. Len(jobs) /\ \A n \in 1 .. Len(jobs') : n + 1 \in 1 .. Len(jobs) /\ jobs'[n] = jobs[n + 1]
    BY <2>1
  <2> QED
    BY <2>1, <2>2 DEF IsOut
<1>2. CASE RxLookup \/ RxGive \/ RxCallback \/ RxCallbackReturns
  <2>1. /\ jobs' = jobs /\ client' = client /\ rx.pc # "idle"
        /\ rx'.pc # "idle" => rx'.job = rx.job
    BY <1>2 DEF RxLookup, RxGive, RxCallback, Callback, RxCallbackReturns, TypeOK, RxStates,
                IdleRx
  <2> QED
    BY <2>1 DEF IsOut
<1>3. CASE RxMatch
  <2>1. /\ jobs' = jobs /\ client' = client /\ rx.pc # "idle"
        /\ rx'.pc # "idle" => rx'.job = rx.job
    BY <1>3, MatchEffect DEF IdleRx
  <2> QED
    BY <2>1 DEF IsOut
<1>4. ASSUME NEW kind \in Kinds, RxCallbackSends(kind) PROVE IsOut(id)
  <2>1. jobs' = jobs /\ client' = client /\ rx.pc # "idle" /\ rx'.job = rx.job
    BY <1>4 DEF RxCallbackSends, Callback, TypeOK, RxStates
  <2> QED
    BY <2>1 DEF IsOut
<1>5. CASE Disconnect \/ ReconnectSame
  <2>1. jobs' = jobs /\ rx' = rx /\ client' \subseteq client
    BY <1>5 DEF Disconnect, ReconnectSame, Restart
  <2> QED
    BY <2>1 DEF IsOut
<1>6. ASSUME NEW m \in client, NEW done, NEW type \in {"ack", "resp", "err"},
             done.id = m.id, Deliver(m, done, type)
      PROVE  IsOut(id)
  <2> DEFINE job == [type |-> type, sub |-> m.kind = "sub" /\ type = "resp", id |-> m.id,
                     gen |-> gen, sess |-> sess]
  <2>1. jobs' = Append(jobs, job) \/ jobs' = jobs
    BY <1>6 DEF Deliver
  <2>2. job.id = m.id /\ job \in Jobs /\ jobs \in Seq(Jobs)
    BY DEF TypeOK, Messages, Jobs
  <2> HIDE DEF job
  <2>3. \A n \in 1 .. Len(jobs') :
            \/ jobs'[n].id = m.id
            \/ n \in 1 .. Len(jobs) /\ jobs'[n] = jobs[n]
    <3>1. CASE jobs' = Append(jobs, job)
      <4>1. /\ Len(jobs') = Len(jobs) + 1 /\ Len(jobs) \in Nat
            /\ \A n \in 1 .. Len(jobs') : jobs'[n] = IF n <= Len(jobs) THEN jobs[n] ELSE job
        BY <2>2, <3>1
      <4>2. ASSUME NEW n \in 1 .. Len(jobs'), ~(n <= Len(jobs)) PROVE jobs'[n].id = m.id
        <5>1. jobs'[n] = job
          BY <4>1, <4>2
        <5> QED
          BY <2>2, <5>1
      <4> QED
        BY <4>1, <4>2
    <3> QED
      BY <2>1, <3>1
  <2>4. rx' = rx /\ \A x \in client' : \E y \in client : x.id = y.id
    BY <1>6 DEF Deliver
  <2> QED
    BY <2>3, <2>4 DEF IsOut
<1>7. ASSUME NEW m \in client, ClientAck(m) PROVE IsOut(id)
  <2>1. m \in Messages /\ [m EXCEPT !.acked = TRUE].id = m.id
    BY DEF TypeOK, Messages
  <2> QED
    BY <1>6, <1>7, <2>1 DEF ClientAck
<1>8. ASSUME NEW m \in client, NEW t \in {"resp", "err"}, ClientAnswer(m, t) PROVE IsOut(id)
  <2>1. m \in Messages /\ [m EXCEPT !.answered = TRUE, !.acked = @ \/ ~ClientAcks].id = m.id
    BY DEF TypeOK, Messages
  <2> QED
    BY <1>6, <1>8, <2>1 DEF ClientAnswer
<1> QED
  BY <1>1, <1>2, <1>3, <1>4, <1>5, <1>7, <1>8 DEF RxStep

\* A step of a sender other than SendOk leaves what is out as it is.
LEMMA IdsOfSenders ==
    ASSUME Core, IdsAreNames, NEW s \in Tasks, SenderStep(s)
    PROVE  IdsAreNames'
<1> USE DEF Core
<1>1. CASE SendOk(s)
  BY <1>1, IdsWhenSent
<1>2. CASE AllocEntry(s)
  <2>1. /\ gen' = gen /\ lastId' \in {lastId, lastId + 1}
        /\ \A t \in Tasks \ {s} : sender'[t] = sender[t]
        /\ UNCHANGED <<rx, jobs, client>>
    BY <1>2, AllocEffect
  <2>2. s \in Sending' => lastId' = lastId + 1 /\ sender'[s].id = lastId + 1
    BY <1>2, AllocEffect DEF Sending
  <2>3. \A id \in Ids : IsOut(id)' => IsOut(id)
    BY <2>1 DEF IsOut
  <2> QED
    BY <2>1, <2>2, <2>3, IdsKept
<1>3. CASE ClearEntry(s)
  <2>1. /\ gen' = gen /\ lastId' = lastId
        /\ \A t \in Tasks \ {s} : sender'[t] = sender[t]
        /\ UNCHANGED <<rx, jobs, client>>
        /\ sender'[s].pc = "give"
    BY <1>3, ClearEffect
  <2>2. s \notin Sending'
    BY <2>1 DEF Sending
  <2>3. \A id \in Ids : IsOut(id)' => IsOut(id)
    BY <2>1 DEF IsOut
  <2> QED
    BY <2>1, <2>2, <2>3, IdsKept
<1>4. CASE TakePermit(s) \/ PermitTimeout(s) \/ ForgetSub(s) \/ SendFails(s) \/ GiveBack(s)
  <2>1. /\ gen' = gen
        /\ \A t \in Tasks \ {s} : sender'[t] = sender[t]
        /\ UNCHANGED <<rx, jobs, client>>
    BY <1>4, PlainSenderEffect
  <2>2. /\ \/ sender'[s].pc = "alloc"
           \/ sender'[s] = IdleSender
           \/ lastId' = lastId + 1 /\ sender'[s].id = lastId + 1
           \/ sender[s].pc = "send" /\ sender'[s] = [sender[s] EXCEPT !.pc = "fail"]
        /\ sender[s].pc # "unsub" => lastId' = lastId
        /\ sender[s].pc = "unsub" => lastId' = lastId + 1
    <3>1. sender[s] \in SenderStates
      BY DEF TypeOK
    <3> QED
      BY <1>4, <3>1, PlainSenderEffect, ZenonT(60) DEF SenderStates
  <2>3. sender[s] \in SenderStates /\ IdleSender.pc = "idle"
    BY DEF TypeOK, IdleSender
  <2>4. s \in Sending' => \/ s \in Sending /\ sender'[s].id = sender[s].id
                          \/ lastId' = lastId + 1 /\ sender'[s].id = lastId + 1
    BY <2>2, <2>3 DEF Sending, SenderStates
  <2>5. \A id \in Ids : IsOut(id)' => IsOut(id)
    BY <2>1 DEF IsOut
  <2> QED
    BY <2>1, <2>2, <2>4, <2>5, IdsKept
<1> QED
  BY <1>1, <1>2, <1>3, <1>4 DEF SenderStep

\* A step by which no task comes to send and nothing goes out.
LEMMA IdsOtherwise ==
    ASSUME TypeOK, IdsAreNames, UNCHANGED <<gen, lastId>>, NEW s \in Tasks,
           \A t \in Tasks \ {s} : sender'[t] = sender[t],
           sender'[s] = sender[s] \/ sender'[s].pc \in {"sem", "unsub"},
           \A id \in Ids : IsOut(id)' => IsOut(id)
    PROVE  IdsAreNames'
<1>1. s \in Sending' => s \in Sending /\ sender'[s].id = sender[s].id
  BY DEF Sending
<1> QED
  BY <1>1, IdsKept

LEMMA NextIds == ASSUME Core, IdsAreNames, [Next]_vars PROVE IdsAreNames'
<1> USE DEF Core
<1>1. ASSUME NEW s \in Tasks, SenderStep(s) PROVE IdsAreNames'
  BY <1>1, IdsOfSenders
<1>2. ASSUME NEW s \in Senders, NEW kind \in Kinds, StartSend(s, kind) PROVE IdsAreNames'
  <2>1. /\ s \in Tasks /\ UNCHANGED <<gen, lastId, rx, jobs, client>>
        /\ \A t \in Tasks \ {s} : sender'[t] = sender[t]
        /\ sender'[s].pc = "sem"
    BY <1>2 DEF StartSend, Started, Tasks, TypeOK, IdleSender, conn
  <2>2. \A id \in Ids : IsOut(id)' => IsOut(id)
    BY <2>1 DEF IsOut
  <2> QED
    BY <2>1, <2>2, IdsOtherwise
<1>3. ASSUME NEW s \in Senders, NEW sub \in active, StartUnsubscribe(s, sub) PROVE IdsAreNames'
  <2>1. /\ s \in Tasks /\ UNCHANGED <<gen, lastId, rx, jobs, client>>
        /\ \A t \in Tasks \ {s} : sender'[t] = sender[t]
        /\ sender'[s].pc = "unsub"
    BY <1>3 DEF StartUnsubscribe, Tasks, TypeOK, IdleSender, conn
  <2>2. \A id \in Ids : IsOut(id)' => IsOut(id)
    BY <2>1 DEF IsOut
  <2> QED
    BY <2>1, <2>2, IdsOtherwise
<1>4. ASSUME NEW m \in client, ClientAck(m) \/ \E t \in {"resp", "err"} : ClientAnswer(m, t)
      PROVE  IdsAreNames'
  <2>1. UNCHANGED <<gen, lastId, sender>>
    BY <1>4 DEF ClientAck, ClientAnswer, Deliver, conn
  <2>2. \A id \in Ids : IsOut(id)' => IsOut(id)
    BY <1>4, OutEffect
  <2> QED
    BY <2>1, <2>2, RxIsTask, IdsOtherwise
<1>5. CASE RxStep
  <2>1. /\ UNCHANGED <<gen, lastId>>
        /\ \A t \in Tasks \ {Rx} : sender'[t] = sender[t]
        /\ sender'[Rx] = sender[Rx] \/ sender'[Rx].pc \in {"sem", "unsub"}
    <3>1. CASE RxMatch
      BY <3>1, MatchEffect
    <3>2. CASE RxTake \/ RxLookup \/ RxGive \/ RxCallback \/ RxCallbackReturns
      BY <3>2 DEF RxTake, RxLookup, RxGive, RxCallback, Callback, RxCallbackReturns, conn
    <3>3. ASSUME NEW kind \in Kinds, RxCallbackSends(kind)
          PROVE  /\ UNCHANGED <<gen, lastId>>
                 /\ \A t \in Tasks \ {Rx} : sender'[t] = sender[t]
                 /\ sender'[Rx].pc = "sem"
      BY <3>3, RxIsTask DEF RxCallbackSends, Callback, Started, TypeOK, IdleSender, conn
    <3> QED
      BY <1>5, <3>1, <3>2, <3>3 DEF RxStep
  <2>2. \A id \in Ids : IsOut(id)' => IsOut(id)
    BY <1>5, OutEffect
  <2> QED
    BY <2>1, <2>2, RxIsTask, IdsOtherwise
<1>6. CASE Disconnect \/ ReconnectSame
  <2>1. UNCHANGED <<gen, lastId, sender>>
    BY <1>6 DEF Disconnect, ReconnectSame, Restart
  <2>2. \A id \in Ids : IsOut(id)' => IsOut(id)
    BY <1>6, OutEffect
  <2> QED
    BY <2>1, <2>2, RxIsTask, IdsOtherwise
<1>7. CASE ReconnectOther
  <2>1. gen' # 1
    BY <1>7, InFlightAssumption DEF ReconnectOther, TypeOK
  <2> QED
    BY <2>1 DEF IdsAreNames, OneSocket
<1>8. CASE UNCHANGED vars
  BY <1>8 DEF vars, IdsAreNames, OneSocket, IsOut, Sending
<1> QED
  BY <1>1, <1>2, <1>3, <1>4, <1>5, <1>6, <1>7, <1>8 DEF Next

LEMMA InitIds == Init => IdsAreNames
<1> SUFFICES ASSUME Init PROVE IdsAreNames
  OBVIOUS
<1>1. Sending = {} /\ \A id \in Ids : ~IsOut(id)
  BY DEF Init, Sending, IsOut, IdleSender, IdleRx
<1> QED
  BY <1>1 DEF IdsAreNames
-----------------------------------------------------------------------------
(* Answers stay in their connection.                                       *)

\* The receive task answers nothing itself.
LEMMA RxAnswers ==
    ASSUME TypeOK, NEW id \in Ids, NEW n \in 1 .. MaxSessions, IsAnswered(id, n)', RxStep
    PROVE  IsAnswered(id, n)
<1>1. CASE RxTake
  <2>1. /\ jobs \in Seq(Jobs) /\ jobs # << >>
        /\ rx'.pc # "idle" /\ rx'.job = jobs[1] /\ jobs' = Tail(jobs)
    BY <1>1 DEF RxTake, TypeOK, IdleRx
  <2>2. 1 \in 1 .. Len(jobs) /\ \A i \in 1 .. Len(jobs') : i + 1 \in 1 .. Len(jobs) /\ jobs'[i] = jobs[i + 1]
    BY <2>1
  <2> QED
    BY <2>1, <2>2 DEF IsAnswered
<1>2. CASE RxLookup \/ RxGive \/ RxCallback \/ RxCallbackReturns
  <2>1. jobs' = jobs /\ rx.pc # "idle" /\ (rx'.pc # "idle" => rx'.job = rx.job)
    BY <1>2 DEF RxLookup, RxGive, RxCallback, Callback, RxCallbackReturns, TypeOK, RxStates,
                IdleRx
  <2> QED
    BY <2>1 DEF IsAnswered
<1>3. CASE RxMatch
  <2>1. jobs' = jobs /\ rx.pc # "idle" /\ (rx'.pc # "idle" => rx'.job = rx.job)
    BY <1>3, MatchEffect DEF IdleRx
  <2> QED
    BY <2>1 DEF IsAnswered
<1>4. ASSUME NEW kind \in Kinds, RxCallbackSends(kind) PROVE IsAnswered(id, n)
  <2>1. jobs' = jobs /\ rx.pc # "idle" /\ rx'.job = rx.job
    BY <1>4 DEF RxCallbackSends, Callback, TypeOK, RxStates
  <2> QED
    BY <2>1 DEF IsAnswered
<1> QED
  BY <1>1, <1>2, <1>3, <1>4 DEF RxStep

\* An answer is new only when the client gives it, on the connection there is.
LEMMA DeliverAnswers ==
    ASSUME TypeOK, NEW id \in Ids, NEW n \in 1 .. MaxSessions, IsAnswered(id, n)',
           NEW m \in client, NEW done, NEW type \in {"ack", "resp", "err"}, Deliver(m, done, type)
    PROVE  IsAnswered(id, n) \/ (id = m.id /\ n = sess)
<1> DEFINE job == [type |-> type, sub |-> m.kind = "sub" /\ type = "resp", id |-> m.id,
                   gen |-> gen, sess |-> sess]
<1>1. (jobs' = Append(jobs, job) \/ jobs' = jobs) /\ rx' = rx
  BY DEF Deliver
<1>2. job.sess = sess /\ job.id = m.id /\ job \in Jobs /\ jobs \in Seq(Jobs)
  BY DEF TypeOK, Messages, Jobs
<1> HIDE DEF job
<1>3. \A i \in 1 .. Len(jobs') :
          \/ jobs'[i].sess = sess /\ jobs'[i].id = m.id
          \/ i \in 1 .. Len(jobs) /\ jobs'[i] = jobs[i]
  <2>1. CASE jobs' = Append(jobs, job)
    <3>1. /\ Len(jobs') = Len(jobs) + 1 /\ Len(jobs) \in Nat
          /\ \A i \in 1 .. Len(jobs') : jobs'[i] = IF i <= Len(jobs) THEN jobs[i] ELSE job
      BY <1>2, <2>1
    <3>2. ASSUME NEW i \in 1 .. Len(jobs'), ~(i <= Len(jobs)) PROVE jobs'[i].sess = sess /\ jobs'[i].id = m.id
      <4>1. jobs'[i] = job
        BY <3>1, <3>2
      <4> QED
        BY <1>2, <4>1
    <3> QED
      BY <3>1, <3>2
  <2> QED
    BY <1>1, <2>1
<1> QED
  BY <1>1, <1>3 DEF IsAnswered

LEMMA AnswerEffect ==
    ASSUME TypeOK, NEW id \in Ids, NEW n \in 1 .. MaxSessions, IsAnswered(id, n)',
           \/ RxStep
           \/ \E m \in client : ClientAck(m) \/ \E t \in {"resp", "err"} : ClientAnswer(m, t)
    PROVE  IsAnswered(id, n) \/ n = sess
<1>1. ASSUME NEW m \in client, ClientAck(m) \/ \E t \in {"resp", "err"} : ClientAnswer(m, t)
      PROVE  IsAnswered(id, n) \/ n = sess
  BY <1>1, DeliverAnswers, ZenonT(60) DEF ClientAck, ClientAnswer
<1> QED
  BY <1>1, RxAnswers

LEMMA AnsweredIsOut ==
    ASSUME NEW id \in Ids, NEW n \in 1 .. MaxSessions, IsAnswered(id, n)
    PROVE  IsOut(id)
  BY DEF IsAnswered, IsOut

\* A step that makes no new entry.
LEMMA SessionsKept ==
    ASSUME TypeOK, Sessions, UNCHANGED <<gen, sess>>,
           \A k \in Kinds, i \in Idx : tab'[k][i].in_use =>
               /\ tab[k][i].in_use
               /\ tab'[k][i].id = tab[k][i].id /\ tab'[k][i].sess = tab[k][i].sess,
           \A id \in Ids : \A n \in 1 .. MaxSessions :
               IsAnswered(id, n)' => IsAnswered(id, n) \/ n = sess
    PROVE  Sessions'
<1>1. \A k \in Kinds, i \in Idx : tab[k][i].id \in Ids
  BY DEF TypeOK, Tables, Entries
<1>2. ASSUME NEW k \in Kinds, NEW i \in Idx, tab'[k][i].in_use
      PROVE  tab'[k][i].sess = sess'
  BY <1>2 DEF Sessions
<1>3. ASSUME NEW k \in Kinds, NEW i \in Idx, tab'[k][i].in_use, OneSocket',
             NEW id \in Ids, NEW n \in 1 .. MaxSessions, tab'[k][i].id = id, IsAnswered(id, n)'
      PROVE  n = sess'
  <2>1. tab[k][i].in_use /\ tab[k][i].id = id /\ OneSocket
    BY <1>3 DEF OneSocket
  <2>2. IsAnswered(id, n) \/ n = sess
    BY <1>3
  <2> QED
    BY <2>1, <2>2 DEF Sessions
<1> QED
  BY <1>2, <1>3 DEF Sessions

\* A new entry has an id nobody has answered to.
LEMMA SessionsWhenAllocated ==
    ASSUME Core, IdsAreNames, Sessions, NEW s \in Tasks, AllocEntry(s)
    PROVE  Sessions'
<1> USE DEF Core
<1>1. \A id \in Ids : \A n \in 1 .. MaxSessions : IsAnswered(id, n)' => IsAnswered(id, n)
  BY AllocEffect DEF IsAnswered
<1>2. gen' = gen /\ sess' = sess /\ lastId \in Nat
  BY AllocEffect DEF TypeOK, Ids
<1>3. ASSUME NEW k \in Kinds, NEW i \in Idx, tab'[k][i].in_use
      PROVE  tab'[k][i].sess = sess'
  BY <1>2, <1>3, AllocEffect DEF Sessions
<1>4. ASSUME NEW k \in Kinds, NEW i \in Idx, tab'[k][i].in_use, OneSocket',
             NEW id \in Ids, NEW n \in 1 .. MaxSessions, tab'[k][i].id = id, IsAnswered(id, n)'
      PROVE  n = sess'
  <2>1. OneSocket /\ IsAnswered(id, n)
    BY <1>1, <1>2, <1>4 DEF OneSocket
  <2>2. CASE tab'[k][i] = tab[k][i]
    BY <1>2, <1>4, <2>1, <2>2 DEF Sessions
  <2>3. CASE tab'[k][i] # tab[k][i]
    <3>1. id = lastId + 1
      BY <1>4, <2>3, AllocEffect
    <3>2. id <= lastId
      BY <2>1, AnsweredIsOut DEF IdsAreNames
    <3> QED
      BY <1>2, <3>1, <3>2
  <2> QED
    BY <2>2, <2>3
<1> QED
  BY <1>3, <1>4 DEF Sessions

\* No step but AllocEntry takes an entry into use or renames one in use.
LEMMA EntriesKept ==
    ASSUME Core, [Next]_vars, \A s \in Tasks : ~AllocEntry(s)
    PROVE  \A k \in Kinds, i \in Idx : tab'[k][i].in_use =>
               /\ tab[k][i].in_use
               /\ tab'[k][i].id = tab[k][i].id /\ tab'[k][i].sess = tab[k][i].sess
<1> SUFFICES ASSUME NEW k \in Kinds, NEW i \in Idx, tab'[k][i].in_use
             PROVE  /\ tab[k][i].in_use
                    /\ tab'[k][i].id = tab[k][i].id /\ tab'[k][i].sess = tab[k][i].sess
  OBVIOUS
<1> USE DEF Core
<1>1. tab[k][i] \in Entries
  BY DEF TypeOK, Tables
<1> DEFINE Kept == /\ tab[k][i].in_use
                   /\ tab'[k][i].id = tab[k][i].id /\ tab'[k][i].sess = tab[k][i].sess
<1>2. CASE tab' = tab
  BY <1>2
<1>3. ASSUME NEW s \in Tasks, SenderStep(s) PROVE Kept
  <2>1. CASE SendOk(s)
    BY <2>1, SendOkEffect, UnownAt
  <2>2. CASE ClearEntry(s)
    <3>1. Unown(s)[k][i] \in Entries
      BY UnownType DEF Tables
    <3>2. \/ tab'[k][i] = Unown(s)[k][i]
          \/ tab'[k][i] = [Unown(s)[k][i] EXCEPT !.in_use = FALSE]
      BY <2>2, ClearEffect
    <3>3. tab'[k][i] = Unown(s)[k][i]
      BY <3>1, <3>2 DEF Entries
    <3> QED
      BY <3>3, UnownAt
  <2>3. CASE TakePermit(s) \/ PermitTimeout(s) \/ ForgetSub(s) \/ SendFails(s) \/ GiveBack(s)
    BY <1>2, <2>3, PlainSenderEffect
  <2> QED
    BY <1>3, <2>1, <2>2, <2>3 DEF SenderStep
<1>4. CASE RxMatch
  <2>1. \/ tab'[k][i] = tab[k][i]
        \/ tab'[k][i] = [tab[k][i] EXCEPT !.acked = TRUE]
        \/ tab'[k][i] = [tab[k][i] EXCEPT !.in_use = FALSE]
    BY <1>4, MatchEffect
  <2> QED
    BY <1>1, <2>1 DEF Entries
<1>5. CASE RxStep /\ ~RxMatch
  BY <1>2, <1>5 DEF RxStep, RxTake, RxLookup, RxGive, RxCallback, RxCallbackSends, Callback,
                    RxCallbackReturns
<1>6. ASSUME NEW m \in client, ClientAck(m) \/ \E t \in {"resp", "err"} : ClientAnswer(m, t)
      PROVE  Kept
  BY <1>2, <1>6 DEF ClientAck, ClientAnswer, Deliver
<1>7. ASSUME NEW s \in Senders,
             \/ \E kind \in Kinds : StartSend(s, kind)
             \/ \E sub \in active : StartUnsubscribe(s, sub)
      PROVE  Kept
  BY <1>2, <1>7 DEF StartSend, StartUnsubscribe
<1>8. CASE Disconnect
  BY <1>2, <1>8 DEF Disconnect
<1>9. CASE ReconnectSame \/ ReconnectOther
  BY <1>9 DEF ReconnectSame, ReconnectOther, Restart, BlankTab, Blank
<1>10. CASE UNCHANGED vars
  BY <1>2, <1>10 DEF vars
<1> QED
  BY <1>3, <1>4, <1>5, <1>6, <1>7, <1>8, <1>9, <1>10 DEF Next

LEMMA NextSessions == ASSUME Core, IdsAreNames, Sessions, [Next]_vars PROVE Sessions'
<1> USE DEF Core
<1>1. CASE \E s \in Tasks : AllocEntry(s)
  BY <1>1, SessionsWhenAllocated
<1>2. CASE ReconnectSame \/ ReconnectOther
  <2>1. tab' = BlankTab
    BY <1>2 DEF ReconnectSame, ReconnectOther, Restart
  <2>2. \A k \in Kinds, i \in Idx : ~tab'[k][i].in_use
    BY <2>1 DEF BlankTab, Blank
  <2> QED
    BY <2>2 DEF Sessions
<1>3. CASE /\ \A s \in Tasks : ~AllocEntry(s)
           /\ ~ReconnectSame /\ ~ReconnectOther
  <2>1. UNCHANGED <<gen, sess>>
    <3>1. ASSUME NEW s \in Tasks, SenderStep(s) PROVE UNCHANGED <<gen, sess>>
      BY <3>1, AllocEffect, SendOkEffect, ClearEffect, PlainSenderEffect DEF SenderStep
    <3>2. RxMatch => UNCHANGED <<gen, sess>>
      BY MatchEffect
    <3>3. RxStep => UNCHANGED <<gen, sess>>
      BY <3>2 DEF RxStep, RxTake, RxLookup, RxGive, RxCallback, RxCallbackSends, Callback,
                  RxCallbackReturns, conn
    <3> QED
      BY <1>3, <3>1, <3>3 DEF Next, StartSend, StartUnsubscribe, ClientAck, ClientAnswer, Deliver,
                              Disconnect, vars, conn
  <2>2. \A id \in Ids : \A n \in 1 .. MaxSessions :
            IsAnswered(id, n)' => IsAnswered(id, n) \/ n = sess
    <3>1. ASSUME UNCHANGED <<rx, jobs>>
          PROVE  \A id \in Ids : \A n \in 1 .. MaxSessions : IsAnswered(id, n)' => IsAnswered(id, n)
      BY <3>1 DEF IsAnswered
    <3>2. ASSUME NEW s \in Tasks, SenderStep(s) PROVE UNCHANGED <<rx, jobs>>
      BY <3>2, AllocEffect, SendOkEffect, ClearEffect, PlainSenderEffect DEF SenderStep
    <3>3. ASSUME NEW s \in Senders,
                 \/ \E kind \in Kinds : StartSend(s, kind)
                 \/ \E sub \in active : StartUnsubscribe(s, sub)
          PROVE  UNCHANGED <<rx, jobs>>
      BY <3>3 DEF StartSend, StartUnsubscribe
    <3>4. Disconnect \/ UNCHANGED vars => UNCHANGED <<rx, jobs>>
      BY DEF Disconnect, vars
    <3> QED
      BY <1>3, <3>1, <3>2, <3>3, <3>4, AnswerEffect DEF Next
  <2> QED
    BY <1>3, <2>1, <2>2, EntriesKept, SessionsKept
<1> QED
  BY <1>1, <1>2, <1>3

LEMMA InitSessions == Init => Sessions
<1> SUFFICES ASSUME Init PROVE Sessions
  OBVIOUS
<1>1. \A k \in Kinds, i \in Idx : ~tab[k][i].in_use
  BY DEF Init, BlankTab, Blank
<1> QED
  BY <1>1 DEF Sessions

\* No step makes a slot one socket's again.
LEMMA GenerationKept ==
    ASSUME Core, [Next]_vars
    PROVE  /\ OneSocket' => OneSocket
           /\ OneSocket' => gen' = gen
<1> USE DEF Core
<1>1. ASSUME NEW s \in Tasks, SenderStep(s) PROVE gen' = gen
  BY <1>1, AllocEffect, SendOkEffect, ClearEffect, PlainSenderEffect DEF SenderStep
<1>2. CASE RxMatch
  BY <1>2, MatchEffect DEF OneSocket
<1>3. CASE RxStep /\ ~RxMatch
  BY <1>3 DEF RxStep, RxTake, RxLookup, RxGive, RxCallback, RxCallbackSends, Callback,
              RxCallbackReturns, conn, OneSocket
<1>4. ASSUME NEW m \in client, ClientAck(m) \/ \E t \in {"resp", "err"} : ClientAnswer(m, t)
      PROVE  gen' = gen
  BY <1>4 DEF ClientAck, ClientAnswer, Deliver, conn
<1>5. ASSUME NEW s \in Senders,
             \/ \E kind \in Kinds : StartSend(s, kind)
             \/ \E sub \in active : StartUnsubscribe(s, sub)
      PROVE  gen' = gen
  BY <1>5 DEF StartSend, StartUnsubscribe, conn
<1>6. CASE Disconnect \/ ReconnectSame
  BY <1>6 DEF Disconnect, ReconnectSame, OneSocket
<1>7. CASE ReconnectOther
  BY <1>7, InFlightAssumption DEF ReconnectOther, TypeOK, OneSocket
<1>8. CASE UNCHANGED vars
  BY <1>8 DEF vars, OneSocket
<1> QED
  BY <1>1, <1>2, <1>3, <1>4, <1>5, <1>6, <1>7, <1>8 DEF Next, OneSocket

\* Only its own steps move the receive task.
LEMMA RxMoves ==
    ASSUME Core, [Next]_vars
    PROVE  RxStep \/ rx' = rx
<1> USE DEF Core
<1>1. ASSUME NEW s \in Tasks, SenderStep(s) PROVE rx' = rx
  BY <1>1, AllocEffect, SendOkEffect, ClearEffect, PlainSenderEffect DEF SenderStep
<1>2. ASSUME NEW m \in client, ClientAck(m) \/ \E t \in {"resp", "err"} : ClientAnswer(m, t)
      PROVE  rx' = rx
  BY <1>2 DEF ClientAck, ClientAnswer, Deliver
<1>3. ASSUME NEW s \in Senders,
             \/ \E kind \in Kinds : StartSend(s, kind)
             \/ \E sub \in active : StartUnsubscribe(s, sub)
      PROVE  rx' = rx
  BY <1>3 DEF StartSend, StartUnsubscribe
<1>4. CASE Disconnect \/ ReconnectSame \/ ReconnectOther
  BY <1>4 DEF Disconnect, ReconnectSame, ReconnectOther, Restart
<1>5. CASE UNCHANGED vars
  BY <1>5 DEF vars
<1> QED
  BY <1>1, <1>2, <1>3, <1>4, <1>5 DEF Next

\* The entry that is taken up is of the connection its answer arrived on.
LEMMA NextAnswers ==
    ASSUME Core, Sessions, AnswersStayInSession, [Next]_vars
    PROVE  AnswersStayInSession'
<1> USE DEF Core
<1>1. OneSocket' => OneSocket
  BY GenerationKept
<1>2. rx \in RxStates /\ IdleRx.pc = "idle"
  BY DEF TypeOK, IdleRx
<1>3. CASE RxMatch
  <2> SUFFICES ASSUME OneSocket, rx'.pc \in {"give", "callback"} PROVE rx'.hit.sess = rx'.job.sess
    BY <1>1 DEF AnswersStayInSession
  <2>1. \/ \E k \in Kinds : \E i \in Unacked(k) : rx'.hit = tab[k][i] /\ rx'.job = rx.job
        \/ \E k \in Kinds : \E i \in Pending(k) : rx'.hit = tab[k][i] /\ rx'.job = rx.job
    BY <1>2, <1>3, MatchEffect
  <2>2. \E k \in Kinds : \E i \in Pending(k) : rx'.hit = tab[k][i] /\ rx'.job = rx.job
    BY <2>1, PendingFound
  <2>3. PICK k \in Kinds, i \in Idx :
            /\ tab[k][i].in_use /\ tab[k][i].id = rx.job.id
            /\ rx'.hit = tab[k][i] /\ rx'.job = rx.job
    BY <2>2 DEF Pending
  <2>4. rx.job.id \in Ids /\ rx.job.sess \in 1 .. MaxSessions /\ rx.pc = "match"
    BY <1>2, <1>3, MatchEffect DEF RxStates, Jobs
  <2>5. IsAnswered(rx.job.id, rx.job.sess)
    BY <2>4 DEF IsAnswered
  <2> QED
    BY <2>3, <2>4, <2>5 DEF Sessions
<1>4. CASE rx' = rx
  BY <1>1, <1>4 DEF AnswersStayInSession
<1>5. CASE rx'.pc \notin {"give", "callback"}
  BY <1>5 DEF AnswersStayInSession
<1>6. CASE RxTake \/ RxLookup
  <2>1. rx'.pc \notin {"give", "callback"}
    BY <1>2, <1>6 DEF RxTake, RxLookup, RxStates, IdleRx
  <2> QED
    BY <1>5, <2>1
<1>7. CASE RxGive
  <2>1. rx.pc = "give" /\ (rx' = IdleRx \/ rx' = [rx EXCEPT !.pc = "callback"])
    BY <1>7 DEF RxGive
  <2>2. rx'.pc = "idle" \/ (rx'.hit = rx.hit /\ rx'.job = rx.job)
    BY <1>2, <2>1 DEF RxStates
  <2> QED
    BY <1>1, <2>1, <2>2 DEF AnswersStayInSession
<1>8. CASE RxCallback \/ RxCallbackReturns
  <2>1. rx' = IdleRx
    BY <1>8 DEF RxCallback, RxCallbackReturns
  <2> QED
    BY <1>2, <1>5, <2>1
<1>9. ASSUME NEW kind \in Kinds, RxCallbackSends(kind) PROVE AnswersStayInSession'
  <2>1. rx'.pc = "sending"
    BY <1>2, <1>9 DEF RxCallbackSends, RxStates
  <2> QED
    BY <1>5, <2>1
<1> QED
  BY <1>3, <1>4, <1>6, <1>7, <1>8, <1>9, RxMoves DEF RxStep

\* An answer completes a request of the connection that the answer arrived on: an
\* ack or an answer of an earlier connection of a client who came back on the same
\* socket number finds no entry of the new one, because ws_slot_alloc lets the
\* request ids of the same socket go on.
THEOREM AnswersInSession == Spec => []AnswersStayInSession
<1> DEFINE Inv == Core /\ IdsAreNames /\ Sessions /\ AnswersStayInSession
<1>1. Init => Inv
  <2>1. Init => AnswersStayInSession
    BY DEF Init, AnswersStayInSession, IdleRx
  <2> QED
    BY <2>1, InitCore, InitIds, InitSessions
<1>2. Inv /\ [Next]_vars => Inv'
  BY NextCore, NextIds, NextSessions, NextAnswers
<1>3. Inv => AnswersStayInSession
  OBVIOUS
<1> QED
  BY <1>1, <1>2, <1>3, PTL DEF Spec
-----------------------------------------------------------------------------
(* The semaphore.                                                              *)

\* An entry that owes a permit.
Owes(k, i) == LET e == tab[k][i] IN e.in_use /\ ~e.acked /\ e.by = NoTask


\* Permits that are free, and those somebody owes, are no more than there were.
Account == OneSocket => sem + Out <= MaxInFlight

\* The messages the client knows nothing else about, and the ids of those and of
\* the entries that owe a permit.
Unheard == {m \in client : m.kind # "unsub" /\ ~m.acked /\ ~m.answered}
Charged == {id \in Ids : \/ \E m \in Unheard : id = m.id
                         \/ \E k \in Kinds, i \in Idx : Owes(k, i) /\ id = tab[k][i].id}

\* An answer to a message is on its way or taken.
IsHeardOf(id) == \E n \in 1 .. MaxSessions : IsAnswered(id, n)

\* No id is charged twice, and what was heard of is not charged as unheard.
ClientIds == \A m, n \in client : m.id = n.id => m = n
UnheardIds == \A m \in Unheard : ~IsHeardOf(m.id)
EntryIds ==
    \A k, l \in Kinds : \A i, j \in Idx :
        /\ tab[k][i].in_use => tab[k][i].id <= lastId
        /\ tab[k][i].in_use /\ tab[l][j].in_use /\ tab[k][i].id = tab[l][j].id
               => k = l /\ i = j
IdsChargedOnce == OneSocket => ClientIds /\ UnheardIds /\ EntryIds

\* A permit that is not back is charged to a message or an entry only once.
Charges ==
    OneSocket => sem + Cardinality(Holders) + Cardinality(Charged) + Giving <= MaxInFlight

-----------------------------------------------------------------------------
(* Counting.                                                               *)

LEMMA OwedAt == ASSUME NEW k \in Kinds, NEW i \in Idx PROVE <<k, i>> \in Owed <=> Owes(k, i)
  BY DEF Owed, Owes

LEMMA OwedPairs == ASSUME NEW p \in Owed PROVE \E k \in Kinds, i \in Idx : p = <<k, i>>
  BY DEF Owed

LEMMA PlacesFinite == IsFiniteSet(Kinds \X Idx)
<1>1. IsFiniteSet(Kinds)
  <2>1. IsFiniteSet({"req"})
    BY FS_Singleton
  <2>2. Kinds = {"req"} \cup {"sub"}
    BY DEF Kinds
  <2> QED
    BY <2>1, <2>2, FS_AddElement
<1>2. IsFiniteSet(Idx)
  BY FS_Interval, InFlightAssumption DEF Idx
<1> QED
  BY <1>1, <1>2, FS_Product

LEMMA OwedFinite == IsFiniteSet(Owed) /\ Cardinality(Owed) \in Nat
<1>1. Owed \in SUBSET (Kinds \X Idx)
  BY DEF Owed
<1> QED
  BY <1>1, PlacesFinite, FS_Subset, FS_CardinalityType

\* A step after which no other entry owes a permit than before.
LEMMA OwedShrinks ==
    ASSUME \A k \in Kinds, i \in Idx : Owes(k, i)' => Owes(k, i)
    PROVE  /\ Cardinality(Owed)' <= Cardinality(Owed)
           /\ Cardinality(Owed) \in Nat /\ Cardinality(Owed)' \in Nat
<1>1. Owed' \in SUBSET Owed
  <2> SUFFICES ASSUME NEW k \in Kinds, NEW i \in Idx, <<k, i>> \in Owed' PROVE <<k, i>> \in Owed
    BY DEF Owed
  <2>1. Owes(k, i)'
    BY DEF Owed, Owes
  <2> QED
    BY <2>1, OwedAt
<1> QED
  BY <1>1, OwedFinite, FS_Subset, FS_CardinalityType

\* A step after which one entry at most has come to owe a permit, or owes none.
LEMMA OwedChanges ==
    ASSUME NEW k \in Kinds, NEW i \in Idx,
           \A l \in Kinds, j \in Idx : ~(l = k /\ j = i) => (Owes(l, j)' <=> Owes(l, j))
    PROVE  /\ Cardinality(Owed)' = Cardinality(Owed) + Count(Owes(k, i)') - Count(Owes(k, i))
           /\ Cardinality(Owed) \in Nat /\ Cardinality(Owed)' \in Nat
<1>1. ASSUME NEW l \in Kinds, NEW j \in Idx
      PROVE  /\ <<l, j>> \in Owed <=> Owes(l, j)
             /\ <<l, j>> \in Owed' <=> Owes(l, j)'
  BY DEF Owed, Owes
<1>2. Owed \ {<<k, i>>} = Owed' \ {<<k, i>>}
  <2>1. ASSUME NEW p PROVE p \in Owed \ {<<k, i>>} => p \in Owed' \ {<<k, i>>}
    BY <1>1, OwedPairs
  <2>2. ASSUME NEW p PROVE p \in Owed' \ {<<k, i>>} => p \in Owed \ {<<k, i>>}
    <3>1. p \in Owed' => \E l \in Kinds, j \in Idx : p = <<l, j>>
      BY DEF Owed
    <3> QED
      BY <1>1, <3>1
  <2> QED
    BY <2>1, <2>2
<1>3. (<<k, i>> \in Owed <=> Owes(k, i)) /\ (<<k, i>> \in Owed' <=> Owes(k, i)')
  BY <1>1
<1> HIDE DEF Owes, Owed
<1>4. /\ Cardinality(Owed') = Cardinality(Owed) + Count(<<k, i>> \in Owed') - Count(<<k, i>> \in Owed)
      /\ Cardinality(Owed) \in Nat /\ Cardinality(Owed') \in Nat
  BY <1>2, OwedFinite, CountChange
<1> QED
  BY <1>3, <1>4 DEF Count
-----------------------------------------------------------------------------
(* What the steps of a sender do to the holders of permits and to the      *)
(* entries that owe one.                                                   *)

\* An entry in the sender's hands is the one in the place it holds.
LEMMA OwnEntry ==
    ASSUME Core, NEW s \in Tasks, NEW k \in Kinds, NEW i \in Idx, tab[k][i].by = s
    PROVE  k = sender[s].kind /\ i = sender[s].idx /\ tab[k][i].id = sender[s].id
<1>1. s # NoTask
  BY InFlightAssumption DEF Tasks
<1> QED
  BY <1>1 DEF Core, Owned

\* Only a message that goes out makes an entry owe a permit, the entry of its id.
LEMMA OwesAfterSender ==
    ASSUME Core, NEW s \in Tasks, SenderStep(s), NEW k \in Kinds, NEW i \in Idx, Owes(k, i)'
    PROVE  \/ Owes(k, i) /\ tab'[k][i] = tab[k][i]
           \/ /\ SendOk(s) /\ k = sender[s].kind /\ i = sender[s].idx
              /\ tab[k][i].by = s /\ tab'[k][i].id = sender[s].id
<1> USE DEF Core
<1>1. tab'[k][i].in_use /\ ~tab'[k][i].acked /\ tab'[k][i].by = NoTask
  BY DEF Owes
<1>2. s # NoTask
  BY InFlightAssumption DEF Tasks
<1>3. CASE tab'[k][i] = tab[k][i]
  BY <1>1, <1>3 DEF Owes
<1>4. CASE AllocEntry(s)
  BY <1>1, <1>2, <1>3, <1>4, AllocEffect
<1>5. CASE SendOk(s)
  <2>1. tab'[k][i] = Unown(s)[k][i]
    BY <1>5, SendOkEffect
  <2>2. CASE tab[k][i].by = s
    BY <1>5, <2>1, <2>2, UnownAt, OwnEntry
  <2>3. CASE tab[k][i].by # s
    BY <1>3, <2>1, <2>3, UnownAt
  <2> QED
    BY <2>2, <2>3
<1>6. CASE ClearEntry(s)
  <2>1. Unown(s)[k][i] \in Entries
    BY UnownType DEF Tables
  <2>2. IF k = sender[s].kind /\ i = sender[s].idx
        THEN tab'[k][i] = [Unown(s)[k][i] EXCEPT !.in_use = FALSE]
        ELSE tab'[k][i] = Unown(s)[k][i]
    BY <1>6, ClearEffect
  <2>3. ~(k = sender[s].kind /\ i = sender[s].idx)
    BY <1>1, <2>1, <2>2 DEF Entries
  <2> QED
    BY <1>3, <2>2, <2>3, UnownAt, OwnEntry
<1>7. CASE TakePermit(s) \/ PermitTimeout(s) \/ ForgetSub(s) \/ SendFails(s) \/ GiveBack(s)
  BY <1>3, <1>7, PlainSenderEffect
<1> QED
  BY <1>4, <1>5, <1>6, <1>7 DEF SenderStep

LEMMA HoldersFinite == Cardinality(Holders) \in Nat /\ IsFiniteSet(Holders)
<1>1. Holders \in SUBSET Tasks
  BY DEF Holders
<1> QED
  BY <1>1, ClaimsFinite, FS_Subset, FS_CardinalityType

\* How a sender's step changes the semaphore and the number of holders.
LEMMA HoldersAfterSender ==
    ASSUME Core, NEW s \in Tasks, SenderStep(s)
    PROVE  /\ Cardinality(Holders) \in Nat /\ Cardinality(Holders)' \in Nat
           /\ rx' = rx
           /\ \/ /\ sem > 0 /\ sem' = sem - 1 /\ UNCHANGED <<tab, client>>
                 /\ Cardinality(Holders)' = Cardinality(Holders) + 1
              \/ /\ sem' = Give(sem) /\ UNCHANGED <<tab, client>>
                 /\ Cardinality(Holders)' = Cardinality(Holders) - 1
              \/ /\ SendOk(s) /\ sender[s].kind \in Kinds /\ sem' = sem
                 /\ Cardinality(Holders)' = Cardinality(Holders) - 1
              \/ /\ SendOk(s) => sender[s].kind = "unsub"
                 /\ sem' = sem
                 /\ Cardinality(Holders)' = Cardinality(Holders)
<1> USE DEF Core
<1>0. Cardinality(Holders)' \in Nat
  <2>1. Cardinality(Holders)' = Cardinality(Holders')
    OBVIOUS
  <2>2. Holders' \in SUBSET Tasks
    BY DEF Holders
  <2> QED
    BY <2>1, <2>2, ClaimsFinite, FS_Subset, FS_CardinalityType
<1>1. sender[s] \in SenderStates /\ sender[s].kind \in Kinds \cup {"unsub"} /\ "unsub" \notin Kinds
  BY DEF TypeOK, SenderStates, Kinds
<1>2. /\ IdleSender.pc = "idle"
      /\ \A pc \in {"idle", "sem", "alloc", "unsub", "send", "fail", "give"} :
             [sender[s] EXCEPT !.pc = pc].pc = pc /\ [sender[s] EXCEPT !.pc = pc].kind = sender[s].kind
  BY <1>1 DEF SenderStates, IdleSender
<1>3. rx' = rx /\ \A t \in Tasks \ {s} : sender'[t] = sender[t]
  BY AllocEffect, SendOkEffect, ClearEffect, PlainSenderEffect DEF SenderStep
<1>4. /\ Cardinality(Holders)' = Cardinality(Holders) + Count(s \in Holders') - Count(s \in Holders)
      /\ Cardinality(Holders) \in Nat
  BY <1>3, SenderCounts
<1>5. /\ s \in Holders <=> sender[s].pc \in {"alloc", "send", "fail", "give"} /\ sender[s].kind # "unsub"
      /\ s \in Holders' <=> sender'[s].pc \in {"alloc", "send", "fail", "give"} /\ sender'[s].kind # "unsub"
  BY DEF Holders
<1>6. Roles
  OBVIOUS
<1>7. ASSUME s \in Holders' <=> s \in Holders
      PROVE  Cardinality(Holders)' = Cardinality(Holders)
  BY <1>4, <1>7 DEF Count
<1>8. CASE TakePermit(s)
  <2>1. /\ sender[s].pc = "sem" /\ sem > 0 /\ sem' = sem - 1 /\ UNCHANGED <<tab, client>>
        /\ sender'[s] = [sender[s] EXCEPT !.pc = "alloc"]
    BY <1>8, <1>1 DEF TakePermit, SetPc, TypeOK
  <2>2. s \notin Holders /\ s \in Holders'
    BY <1>1, <1>2, <1>5, <1>6, <2>1 DEF Roles
  <2> QED
    BY <1>0, <1>3, <1>4, <2>1, <2>2 DEF Count
<1>9. CASE GiveBack(s)
  <2>1. /\ sender[s].pc = "give" /\ sem' = Give(sem) /\ UNCHANGED <<tab, client>>
        /\ sender'[s] = IdleSender
    BY <1>9 DEF GiveBack, TypeOK
  <2>2. s \in Holders /\ s \notin Holders'
    BY <1>1, <1>2, <1>5, <1>6, <2>1 DEF Roles
  <2> QED
    BY <1>0, <1>3, <1>4, <2>1, <2>2 DEF Count
<1>10. CASE SendOk(s)
  <2>1. sender[s].pc = "send" /\ sem' = sem /\ sender'[s] = IdleSender
    BY <1>10, SendOkEffect
  <2>2. s \notin Holders' /\ (s \in Holders <=> sender[s].kind # "unsub")
    BY <1>2, <1>5, <2>1
  <2> QED
    BY <1>0, <1>1, <1>3, <1>4, <1>10, <2>1, <2>2 DEF Count
<1>11. ASSUME ~SendOk(s), sem' = sem, s \in Holders' <=> s \in Holders
       PROVE  /\ rx' = rx /\ sem' = sem
              /\ SendOk(s) => sender[s].kind = "unsub"
              /\ Cardinality(Holders)' = Cardinality(Holders)
  BY <1>3, <1>7, <1>11
<1>12. CASE PermitTimeout(s) /\ ~SendOk(s)
  <2>1. sender[s].pc = "sem" /\ sem' = sem /\ sender'[s] = IdleSender
    BY <1>12 DEF PermitTimeout, TypeOK
  <2> QED
    BY <1>2, <1>4, <1>5, <1>11, <1>12, <2>1
<1>13. CASE AllocEntry(s) /\ ~SendOk(s)
  <2>1. sender[s].pc = "alloc" /\ sem' = sem /\ sender'[s].pc \in {"send", "give"}
        /\ sender'[s].kind = sender[s].kind
    BY <1>13, AllocEffect
  <2> QED
    BY <1>4, <1>5, <1>11, <1>13, <2>1
<1>14. CASE ForgetSub(s) /\ ~SendOk(s)
  <2>1. sender[s].pc = "unsub" /\ sem' = sem /\ sender'[s].kind = sender[s].kind
    BY <1>1, <1>14 DEF ForgetSub, TypeOK, SenderStates
  <2>2. sender[s].kind = "unsub"
    BY <1>6, <2>1 DEF Roles
  <2> QED
    BY <1>4, <1>5, <1>11, <1>14, <2>1, <2>2
<1>15. CASE SendFails(s) /\ ~SendOk(s)
  <2>1. /\ sender[s].pc = "send" /\ sem' = sem
        /\ \/ sender[s].kind = "unsub" /\ sender'[s] = IdleSender
           \/ sender[s].kind # "unsub" /\ sender'[s] = [sender[s] EXCEPT !.pc = "fail"]
    BY <1>1, <1>15 DEF SendFails, SetPc, TypeOK
  <2>3. /\ sender'[s].pc = IF sender[s].kind = "unsub" THEN "idle" ELSE "fail"
        /\ sender[s].kind # "unsub" => sender'[s].kind = sender[s].kind
    BY <1>1, <2>1 DEF SenderStates, IdleSender
  <2>2. s \in Holders' <=> s \in Holders
    BY <1>5, <2>1, <2>3
  <2> QED
    BY <1>0, <1>4, <1>11, <1>15, <2>1, <2>2
<1>16. CASE ClearEntry(s) /\ ~SendOk(s)
  <2>1. sender[s].pc = "fail" /\ sem' = sem /\ sender'[s].pc = "give" /\ sender'[s].kind = sender[s].kind
    BY <1>16, ClearEffect
  <2> QED
    BY <1>4, <1>5, <1>11, <1>16, <2>1
<1> QED
  BY <1>4, <1>8, <1>9, <1>10, <1>12, <1>13, <1>14, <1>15, <1>16, <1>0 DEF SenderStep
-----------------------------------------------------------------------------
(* The account.                                                            *)

\* An entry that an ack or an answer finds is out of its sender's hands.
LEMMA HitIsNobodys ==
    ASSUME Core, IdsAreNames, OneSocket, rx.pc = "match", NEW k \in Kinds, NEW i \in Pending(k)
    PROVE  tab[k][i].by = NoTask
<1> SUFFICES ASSUME tab[k][i].by # NoTask PROVE FALSE
  OBVIOUS
<1>1. i \in Idx /\ tab[k][i].in_use /\ tab[k][i].id = rx.job.id
  BY DEF Pending
<1> DEFINE s == tab[k][i].by
<1>2. s \in Tasks
  BY <1>1, OwnerIsTask DEF Core
<1>3. sender[s].pc \in {"send", "fail"} /\ sender[s].id = tab[k][i].id
  BY <1>1 DEF Core, Owned
<1>4. s \in Sending
  BY <1>2, <1>3 DEF Sending
<1>5. rx.job.id \in Ids /\ IsOut(rx.job.id)
  BY DEF IsOut, Core, TypeOK, RxStates, Jobs
<1> QED
  BY <1>1, <1>3, <1>4, <1>5 DEF IdsAreNames

\* The permit of an entry that is found is given from now on by the receive task,
\* unless an ack has given it before.
LEMMA OwedAfterMatch ==
    ASSUME Core, IdsAreNames, OneSocket, RxMatch
    PROVE  /\ Cardinality(Owed) \in Nat /\ Cardinality(Owed)' \in Nat
           /\ Giving = 0 /\ Giving' \in {0, 1}
           /\ Cardinality(Owed)' + Giving' = Cardinality(Owed)
           /\ sem' = sem /\ Holders' = Holders
<1> USE DEF Core
<1>1. rx.pc = "match" /\ UNCHANGED <<sem, sender>>
  BY MatchEffect
<1>2. Giving = 0 /\ Giving' \in {0, 1} /\ Holders' = Holders
  BY <1>1 DEF Giving, Holders
<1>3. CASE rx' = IdleRx /\ UNCHANGED tab
  <2>1. Owed' = Owed /\ Giving' = 0
    BY <1>3 DEF Owed, Giving, IdleRx
  <2> QED
    BY <1>1, <1>2, <2>1, OwedFinite
<1>4. ASSUME NEW k \in Kinds, NEW i \in Idx, i \in Pending(k),
             \A l \in Kinds, j \in Idx : ~(l = k /\ j = i) => tab'[l][j] = tab[l][j],
             ~tab'[k][i].in_use \/ tab'[k][i].acked,
             rx'.pc = IF tab[k][i].acked THEN "callback" ELSE "give"
      PROVE  /\ Cardinality(Owed) \in Nat /\ Cardinality(Owed)' \in Nat
             /\ Cardinality(Owed)' + Giving' = Cardinality(Owed)
  <2>1. /\ Cardinality(Owed)' = Cardinality(Owed) + Count(Owes(k, i)') - Count(Owes(k, i))
        /\ Cardinality(Owed) \in Nat /\ Cardinality(Owed)' \in Nat
    <3>1. \A l \in Kinds, j \in Idx : ~(l = k /\ j = i) => (Owes(l, j)' <=> Owes(l, j))
      BY <1>4 DEF Owes
    <3> QED
      BY <3>1, OwedChanges
  <2>2. ~Owes(k, i)'
    BY <1>4 DEF Owes
  <2>3. Owes(k, i) <=> ~tab[k][i].acked
    BY <1>1, <1>4, HitIsNobodys DEF Owes, Pending
  <2>4. Giving' = IF tab[k][i].acked THEN 0 ELSE 1
    BY <1>4 DEF Giving
  <2> QED
    BY <2>1, <2>2, <2>3, <2>4 DEF Count
<1>5. ASSUME NEW k \in Kinds, NEW i \in Unacked(k), tab[k][i] \in Entries, rx'.pc = "give",
             \A l \in Kinds, j \in Idx : IF l = k /\ j = i
                                         THEN tab'[l][j] = [tab[l][j] EXCEPT !.acked = TRUE]
                                         ELSE tab'[l][j] = tab[l][j]
      PROVE  /\ Cardinality(Owed) \in Nat /\ Cardinality(Owed)' \in Nat
             /\ Cardinality(Owed)' + Giving' = Cardinality(Owed)
  <2>1. i \in Idx /\ i \in Pending(k) /\ ~tab[k][i].acked
    BY DEF Unacked, Pending
  <2>2. tab'[k][i].acked
    BY <1>5, <2>1 DEF Entries
  <2>3. \A l \in Kinds, j \in Idx : ~(l = k /\ j = i) => tab'[l][j] = tab[l][j]
    BY <1>5
  <2>4. rx'.pc = IF tab[k][i].acked THEN "callback" ELSE "give"
    BY <1>5, <2>1
  <2> QED
    BY <1>4, <2>1, <2>2, <2>3, <2>4
<1>6. ASSUME NEW k \in Kinds, NEW i \in Pending(k), tab[k][i] \in Entries,
             rx'.pc = IF tab[k][i].acked THEN "callback" ELSE "give",
             \A l \in Kinds, j \in Idx : IF l = k /\ j = i
                                         THEN tab'[l][j] = [tab[l][j] EXCEPT !.in_use = FALSE]
                                         ELSE tab'[l][j] = tab[l][j]
      PROVE  /\ Cardinality(Owed) \in Nat /\ Cardinality(Owed)' \in Nat
             /\ Cardinality(Owed)' + Giving' = Cardinality(Owed)
  <2>1. i \in Idx
    BY DEF Pending
  <2>2. ~tab'[k][i].in_use
    BY <1>6, <2>1 DEF Entries
  <2>3. \A l \in Kinds, j \in Idx : ~(l = k /\ j = i) => tab'[l][j] = tab[l][j]
    BY <1>6
  <2> QED
    BY <1>4, <1>6, <2>1, <2>2, <2>3
<1>7. CASE \E k \in Kinds : \E i \in Unacked(k) :
                /\ tab[k][i] \in Entries /\ rx'.pc = "give"
                /\ \A l \in Kinds, j \in Idx :
                       IF l = k /\ j = i
                       THEN tab'[l][j] = [tab[l][j] EXCEPT !.acked = TRUE]
                       ELSE tab'[l][j] = tab[l][j]
  BY <1>1, <1>2, <1>5, <1>7
<1>8. CASE \E k \in Kinds : \E i \in Pending(k) :
                /\ tab[k][i] \in Entries
                /\ rx'.pc = IF tab[k][i].acked THEN "callback" ELSE "give"
                /\ \A l \in Kinds, j \in Idx :
                       IF l = k /\ j = i
                       THEN tab'[l][j] = [tab[l][j] EXCEPT !.in_use = FALSE]
                       ELSE tab'[l][j] = tab[l][j]
  BY <1>1, <1>2, <1>6, <1>8
<1>9. TypeOK
  OBVIOUS
<1> HIDE DEF Core
<1> QED
  BY <1>1, <1>2, <1>3, <1>7, <1>8, <1>9, MatchEffect, ZenonT(60)

\* A step takes a permit that is free, gives one back that was out, or loses some.
PermitMoves ==
    \/ sem > 0 /\ sem' = sem - 1 /\ Out' = Out + 1
    \/ Out > 0 /\ sem' = sem + 1 /\ Out' = Out - 1
    \/ sem' = sem /\ Out' = Out
    \/ /\ sem' = sem /\ Out' < Out
       /\ ReconnectSame \/ \E s \in Tasks : SenderStep(s)

LEMMA OutType == Out \in Nat /\ Out' \in Nat
<1>1. Giving \in {0, 1} /\ Giving' \in {0, 1}
  BY DEF Giving
<1>2. Cardinality(Owed') \in Nat
  <2>1. IsFiniteSet(Kinds \X Idx)
    BY PlacesFinite
  <2>2. Owed' \in SUBSET (Kinds \X Idx)
    BY DEF Owed
  <2> QED
    BY <2>1, <2>2, FS_Subset, FS_CardinalityType
<1>3. Cardinality(Holders') \in Nat
  <2>1. Holders' \in SUBSET Tasks
    BY DEF Holders
  <2> QED
    BY <2>1, ClaimsFinite, FS_Subset, FS_CardinalityType
<1> QED
  BY <1>1, <1>2, <1>3, OwedFinite, HoldersFinite DEF Out

\* A sender's step is a move of the account.
LEMMA SenderMoves ==
    ASSUME Core, Account, OneSocket, NEW s \in Tasks, SenderStep(s)
    PROVE  PermitMoves
<1>1. /\ Cardinality(Holders) \in Nat /\ Cardinality(Holders)' \in Nat
      /\ rx' = rx
      /\ \/ /\ sem > 0 /\ sem' = sem - 1 /\ UNCHANGED <<tab, client>>
            /\ Cardinality(Holders)' = Cardinality(Holders) + 1
         \/ /\ sem' = Give(sem) /\ UNCHANGED <<tab, client>>
            /\ Cardinality(Holders)' = Cardinality(Holders) - 1
         \/ /\ SendOk(s) /\ sender[s].kind \in Kinds /\ sem' = sem
            /\ Cardinality(Holders)' = Cardinality(Holders) - 1
         \/ /\ SendOk(s) => sender[s].kind = "unsub"
            /\ sem' = sem
            /\ Cardinality(Holders)' = Cardinality(Holders)
  BY HoldersAfterSender
<1>2. Giving' = Giving /\ Giving \in {0, 1}
  BY <1>1 DEF Giving
<1>3. Cardinality(Owed) \in Nat /\ sem \in 0 .. MaxInFlight
  BY OwedFinite DEF Core, TypeOK
<1>4. CASE UNCHANGED <<tab, client>>
  <2>1. Owed' = Owed
    BY <1>4 DEF Owed
  <2>2. ASSUME sem' = Give(sem), Cardinality(Holders)' = Cardinality(Holders) - 1
        PROVE  sem' = sem + 1
    BY <1>1, <1>2, <1>3, <2>2, InFlightAssumption DEF Account, Give, Out
  <2> QED
    BY <1>1, <1>2, <1>3, <2>1, <2>2 DEF PermitMoves, Out
<1>5. CASE /\ SendOk(s) /\ sender[s].kind \in Kinds /\ sem' = sem
           /\ Cardinality(Holders)' = Cardinality(Holders) - 1
  <2>1. sender[s].idx \in Idx
    BY DEF Core, TypeOK, SenderStates
  <2>6. PICK k \in Kinds, i \in Idx : k = sender[s].kind /\ i = sender[s].idx
    BY <1>5, <2>1
  <2>2. ASSUME NEW l \in Kinds, NEW j \in Idx, ~(l = k /\ j = i)
        PROVE  Owes(l, j)' <=> Owes(l, j)
    <3>1. tab[l][j].by # s
      BY <2>2, <2>6, OwnEntry
    <3>2. tab'[l][j] = tab[l][j]
      BY <1>5, <3>1, SendOkEffect, UnownAt DEF Core
    <3> QED
      BY <3>2 DEF Owes
  <2>5. \A l \in Kinds, j \in Idx : ~(l = k /\ j = i) => (Owes(l, j)' <=> Owes(l, j))
    BY <2>2
  <2>3. /\ Cardinality(Owed)' = Cardinality(Owed) + Count(Owes(k, i)') - Count(Owes(k, i))
        /\ Cardinality(Owed)' \in Nat
    BY <2>5, OwedChanges
  <2>4. Cardinality(Owed)' <= Cardinality(Owed) + 1
    BY <1>3, <2>3 DEF Count
  <2> QED
    BY <1>1, <1>2, <1>3, <1>5, <2>3, <2>4, OutType DEF PermitMoves, Out
<1>6. CASE /\ SendOk(s) => sender[s].kind = "unsub"
           /\ sem' = sem
           /\ Cardinality(Holders)' = Cardinality(Holders)
  <2>1. ASSUME NEW k \in Kinds, NEW i \in Idx, Owes(k, i)' PROVE Owes(k, i)
    BY <1>6, <2>1, OwesAfterSender DEF Kinds
  <2>2. Cardinality(Owed)' <= Cardinality(Owed) /\ Cardinality(Owed)' \in Nat
    BY <2>1, OwedShrinks
  <2> QED
    BY <1>1, <1>2, <1>3, <1>6, <2>2, OutType DEF PermitMoves, Out
<1> QED
  BY <1>1, <1>4, <1>5, <1>6

\* So is every step, until the slot goes to another socket.
LEMMA NextMoves ==
    ASSUME Core, IdsAreNames, Account, [Next]_vars, OneSocket'
    PROVE  PermitMoves
<1>1. OneSocket
  BY GenerationKept
<1>2. ASSUME NEW s \in Tasks, SenderStep(s) PROVE PermitMoves
  BY <1>1, <1>2, SenderMoves
<1>3. ASSUME UNCHANGED <<sem, tab>>, Holders' = Holders, Giving' = Giving PROVE PermitMoves
  <2>1. Owed' = Owed
    BY <1>3 DEF Owed
  <2> QED
    BY <1>3, <2>1, OutType DEF PermitMoves, Out
<1>4. ASSUME NEW s \in Tasks, sender[s].pc = "idle", sender'[s].pc \in {"sem", "unsub"},
             \A t \in Tasks \ {s} : sender'[t] = sender[t]
      PROVE  Holders' = Holders
  BY <1>4 DEF Holders
<1>5. ASSUME NEW s \in Senders,
             \/ \E kind \in Kinds : StartSend(s, kind)
             \/ \E sub \in active : StartUnsubscribe(s, sub)
      PROVE  PermitMoves
  <2>1. /\ s \in Tasks /\ UNCHANGED <<sem, tab, rx>>
        /\ sender[s].pc = "idle" /\ sender'[s].pc \in {"sem", "unsub"}
        /\ \A t \in Tasks \ {s} : sender'[t] = sender[t]
    BY <1>5 DEF StartSend, StartUnsubscribe, Started, Tasks, Core, TypeOK, IdleSender
  <2> QED
    BY <1>3, <1>4, <2>1 DEF Giving
<1>6. ASSUME NEW m \in client, ClientAck(m) \/ \E t \in {"resp", "err"} : ClientAnswer(m, t)
      PROVE  PermitMoves
  BY <1>3, <1>6 DEF ClientAck, ClientAnswer, Deliver, Holders, Giving
<1>7. CASE RxMatch
  <2>1. /\ Cardinality(Owed) \in Nat /\ Cardinality(Owed)' \in Nat
        /\ Giving = 0 /\ Giving' \in {0, 1}
        /\ Cardinality(Owed)' + Giving' = Cardinality(Owed)
        /\ sem' = sem /\ Holders' = Holders
    BY <1>1, <1>7, OwedAfterMatch
  <2> QED
    BY <2>1, HoldersFinite DEF PermitMoves, Out
<1>8. CASE RxGive
  <2>1. /\ UNCHANGED <<tab, sender>> /\ sem' = Give(sem)
        /\ Giving = 1 /\ rx'.pc # "give"
    BY <1>8 DEF RxGive, Giving, IdleRx, Core, TypeOK, RxStates
  <2>2. Owed' = Owed /\ Holders' = Holders /\ Giving' = 0
    BY <2>1 DEF Owed, Holders, Giving
  <2>3. sem' = sem + 1
    BY <1>1, <2>1, OwedFinite, HoldersFinite, InFlightAssumption DEF Account, Give, Out, Core, TypeOK
  <2> QED
    BY <2>1, <2>2, <2>3, OwedFinite, HoldersFinite DEF PermitMoves, Out
<1>9. CASE RxTake \/ RxLookup \/ RxCallback \/ RxCallbackReturns
  <2>2. UNCHANGED <<sem, tab, sender>> /\ rx.pc # "give"
    BY <1>9 DEF RxTake, RxLookup, RxCallback, Callback, RxCallbackReturns
  <2>5. rx \in RxStates
    BY DEF Core, TypeOK
  <2>6. ASSUME RxTake PROVE rx'.pc # "give"
    BY <2>6 DEF RxTake, IdleRx
  <2>3. ASSUME RxLookup PROVE rx'.pc # "give"
    <3>1. rx' = [rx EXCEPT !.pc = "match"] \/ rx' = IdleRx
      BY <2>3 DEF RxLookup
    <3> QED
      BY <2>5, <3>1 DEF RxStates, IdleRx
  <2>4. RxCallback \/ RxCallbackReturns => rx'.pc # "give"
    BY DEF RxCallback, RxCallbackReturns, IdleRx
  <2>1. UNCHANGED <<sem, tab, sender>> /\ rx.pc # "give" /\ rx'.pc # "give"
    BY <1>9, <2>2, <2>3, <2>4, <2>6
  <2> QED
    BY <1>3, <2>1 DEF Holders, Giving
<1>10. ASSUME NEW kind \in Kinds, RxCallbackSends(kind) PROVE PermitMoves
  <2>1. /\ UNCHANGED <<sem, tab>>
        /\ rx.pc # "give" /\ rx'.pc # "give"
    BY <1>10 DEF RxCallbackSends, Callback, Core, TypeOK, RxStates
  <2>2. /\ sender[Rx].pc = "idle" /\ sender'[Rx].pc = "sem"
        /\ \A t \in Tasks \ {Rx} : sender'[t] = sender[t]
    BY <1>10, RxIsTask DEF RxCallbackSends, Started, Core, TypeOK, IdleSender
  <2> QED
    BY <1>3, <1>4, <2>1, <2>2, RxIsTask DEF Giving
<1>11. CASE Disconnect
  BY <1>3, <1>11 DEF Disconnect, Holders, Giving
<1>12. CASE ReconnectSame
  <2>1. UNCHANGED <<sem, sender, rx>> /\ tab' = BlankTab
    BY <1>12 DEF ReconnectSame, Restart
  <2>2. \A k \in Kinds, i \in Idx : ~Owes(k, i)'
    BY <2>1 DEF Owes, BlankTab, Blank
  <2>3. Cardinality(Owed)' <= Cardinality(Owed) /\ Cardinality(Owed)' \in Nat
    BY <2>2, OwedShrinks
  <2>4. Holders' = Holders /\ Giving' = Giving
    BY <2>1 DEF Holders, Giving
  <2> QED
    BY <1>12, <2>1, <2>3, <2>4, OutType, OwedFinite, HoldersFinite DEF PermitMoves, Out, Giving
<1>13. CASE ReconnectOther
  BY <1>1, <1>13, InFlightAssumption DEF ReconnectOther, OneSocket
<1>14. CASE UNCHANGED vars
  BY <1>3, <1>14 DEF vars, Holders, Giving
<1> QED
  BY <1>2, <1>5, <1>6, <1>7, <1>8, <1>9, <1>10, <1>11, <1>12, <1>13, <1>14 DEF Next, RxStep

\* No move puts the account in credit.
LEMMA NextAccount ==
    ASSUME Core, IdsAreNames, Account, [Next]_vars
    PROVE  Account'
<1> SUFFICES ASSUME OneSocket'
             PROVE  sem' + Out' <= MaxInFlight
  BY DEF Account
<1>1. PermitMoves /\ OneSocket
  BY NextMoves, GenerationKept
<1>2. sem \in Nat /\ sem + Out <= MaxInFlight
  BY <1>1, InFlightAssumption DEF Account, Core, TypeOK
<1> QED
  BY <1>1, <1>2, OutType, InFlightAssumption DEF PermitMoves

LEMMA InitAccount == Init => Account /\ Out = 0
<1> SUFFICES ASSUME Init PROVE Account /\ Out = 0
  OBVIOUS
<1>1. Holders = {} /\ Owed = {} /\ Giving = 0
  BY DEF Init, Holders, Owed, Giving, IdleSender, IdleRx, BlankTab, Blank
<1>2. Out = 0
  BY <1>1, FS_EmptySet DEF Out
<1> QED
  BY <1>1, <1>2, FS_EmptySet, InFlightAssumption DEF Init, Account

\* A step of WsInFlight is a step of Permits, or leaves its variables alone.
LEMMA StepIsCredit ==
    ASSUME Core, IdsAreNames, Account, [Next]_vars
    PROVE  [OneSocket' => Credits!Next]_(Credits!vars)
<1> SUFFICES ASSUME OneSocket' PROVE Credits!Next \/ UNCHANGED Credits!vars
  OBVIOUS
<1>1. PermitMoves
  BY NextMoves
<1>2. Out \in Nat /\ Out' \in Nat
  BY OutType
<1>3. CASE sem > 0 /\ sem' = sem - 1 /\ Out' = Out + 1
  BY <1>3 DEF Credits!Next, Credits!Take, Out
<1>4. CASE Out > 0 /\ sem' = sem + 1 /\ Out' = Out - 1
  BY <1>4 DEF Credits!Next, Credits!Return, Out
<1>5. CASE sem' = sem /\ Out' < Out
  <2>1. Out' \in 0 .. Out - 1
    BY <1>2, <1>5
  <2> QED
    BY <1>5, <2>1 DEF Credits!Next, Credits!Lose, Out
<1>6. CASE sem' = sem /\ Out' = Out
  BY <1>6 DEF Credits!vars, Out
<1> QED
  BY <1>1, <1>2, <1>3, <1>4, <1>5, <1>6 DEF PermitMoves

\* The semaphore and those who owe it a permit implement Permits, up to the moment
\* the slot goes to another socket: a permit that is given was taken before, and
\* given once, through failed sends, late answers and reconnections of one client.
THEOREM SemaphoreIsAnAccount == Spec => ImplementsPermits
<1> DEFINE Inv == Core /\ IdsAreNames /\ Account
<1>1. Init => Inv /\ Credits!Init
  <2>1. Init => Credits!Init
    BY InitAccount DEF Init, Credits!Init, Out
  <2> QED
    BY <2>1, InitCore, InitIds, InitAccount
<1>2. Inv /\ [Next]_vars => Inv'
  BY NextCore, NextIds, NextAccount
<1>3. Inv /\ [Next]_vars => [OneSocket' => Credits!Next]_(Credits!vars)
  BY StepIsCredit
<1> QED
  BY <1>1, <1>2, <1>3, PTL DEF Spec, ImplementsPermits
-----------------------------------------------------------------------------
(* The ids that permits are charged to.                                    *)

\* A message that is still to be sent is neither with the client nor heard of.
LEMMA SendingIsNew ==
    ASSUME Core, IdsAreNames, OneSocket, NEW s \in Sending
    PROVE  /\ sender[s].id \in Ids
           /\ \A m \in client : m.id # sender[s].id
           /\ ~IsHeardOf(sender[s].id)
<1>1. s \in Tasks
  BY DEF Sending
<1>2. sender[s].id \in Ids
  BY <1>1 DEF Core, TypeOK, SenderStates
<1>3. ~IsOut(sender[s].id)
  BY <1>2 DEF IdsAreNames
<1> QED
  BY <1>2, <1>3, AnsweredIsOut DEF IsOut, IsHeardOf

\* The client acks or answers a message that it has.
Told(m, done, type) == Deliver(m, done, type) /\ done.id = m.id /\ (done.acked \/ done.answered)

LEMMA ClientTells ==
    ASSUME TypeOK, NEW m \in client,
           ClientAck(m) \/ \E t \in {"resp", "err"} : ClientAnswer(m, t)
    PROVE  \E done \in Messages : \E type \in {"ack", "resp", "err"} : Told(m, done, type)
<1>1. m \in Messages
  BY DEF TypeOK
<1>2. CASE ClientAck(m)
  <2>1. /\ [m EXCEPT !.acked = TRUE] \in Messages
        /\ [m EXCEPT !.acked = TRUE].id = m.id /\ [m EXCEPT !.acked = TRUE].acked
    BY <1>1 DEF Messages
  <2> QED
    BY <1>2, <2>1 DEF ClientAck, Told
<1>3. ASSUME NEW t \in {"resp", "err"}, ClientAnswer(m, t)
      PROVE  \E done \in Messages : \E type \in {"ack", "resp", "err"} : Told(m, done, type)
  <2> DEFINE d == [m EXCEPT !.answered = TRUE, !.acked = @ \/ ~ClientAcks]
  <2>1. d \in Messages /\ d.id = m.id /\ d.answered
    BY <1>1, InFlightAssumption DEF Messages
  <2>2. Deliver(m, d, t)
    BY <1>3 DEF ClientAnswer
  <2> QED
    BY <2>1, <2>2 DEF Told
<1> QED
  BY <1>2, <1>3

\* What the client comes to have, and what it then knows.
LEMMA ClientEffect ==
    ASSUME Core, [Next]_vars
    PROVE  \/ client' \subseteq client
           \/ \E s \in Tasks :
                  /\ SendOk(s)
                  /\ client' = client \cup {[kind |-> sender[s].kind, id |-> sender[s].id,
                                             acked |-> sender[s].kind = "unsub",
                                             answered |-> FALSE]}
           \/ \E m \in client, done \in Messages : \E type \in {"ack", "resp", "err"} :
                  Told(m, done, type)
<1> USE DEF Core
<1>1. ASSUME NEW s \in Tasks, SenderStep(s), ~SendOk(s) PROVE client' = client
  BY <1>1, AllocEffect, ClearEffect, PlainSenderEffect DEF SenderStep
<1>2. ASSUME NEW s \in Tasks, SendOk(s)
      PROVE  client' = client \cup {[kind |-> sender[s].kind, id |-> sender[s].id,
                                     acked |-> sender[s].kind = "unsub", answered |-> FALSE]}
  BY <1>2, SendOkEffect
<1>3. ASSUME NEW m \in client, ClientAck(m) \/ \E t \in {"resp", "err"} : ClientAnswer(m, t)
      PROVE  \E done \in Messages : \E type \in {"ack", "resp", "err"} : Told(m, done, type)
  BY <1>3, ClientTells
<1>4. ASSUME NEW s \in Senders,
             \/ \E kind \in Kinds : StartSend(s, kind)
             \/ \E sub \in active : StartUnsubscribe(s, sub)
      PROVE  client' = client
  BY <1>4 DEF StartSend, StartUnsubscribe
<1>5. CASE RxMatch
  BY <1>5, MatchEffect
<1>6. CASE RxStep /\ ~RxMatch
  BY <1>6 DEF RxStep, RxTake, RxLookup, RxGive, RxCallback, RxCallbackSends, Callback,
              RxCallbackReturns
<1>7. CASE Disconnect \/ ReconnectSame \/ ReconnectOther
  BY <1>7 DEF Disconnect, ReconnectSame, ReconnectOther, Restart
<1>8. CASE UNCHANGED vars
  BY <1>8 DEF vars
<1> QED
  BY <1>1, <1>2, <1>3, <1>4, <1>5, <1>6, <1>7, <1>8 DEF Next

\* What a step hears of.
LEMMA HeardEffect ==
    ASSUME Core, [Next]_vars, NEW id \in Ids, IsHeardOf(id)'
    PROVE  \/ IsHeardOf(id)
           \/ \E m \in client, done \in Messages : \E type \in {"ack", "resp", "err"} :
                  Told(m, done, type)
<1> USE DEF Core
<1>1. PICK n \in 1 .. MaxSessions : IsAnswered(id, n)'
  BY DEF IsHeardOf
<1>2. CASE UNCHANGED <<rx, jobs>>
  BY <1>1, <1>2 DEF IsHeardOf, IsAnswered
<1>3. CASE RxStep
  BY <1>1, <1>3, RxAnswers DEF IsHeardOf
<1>4. ASSUME NEW m \in client, ClientAck(m) \/ \E t \in {"resp", "err"} : ClientAnswer(m, t)
      PROVE  \E done \in Messages : \E type \in {"ack", "resp", "err"} : Told(m, done, type)
  BY <1>4, ClientTells
<1>6. ASSUME NEW s \in Tasks, SenderStep(s) PROVE UNCHANGED <<rx, jobs>>
  BY <1>6, AllocEffect, SendOkEffect, ClearEffect, PlainSenderEffect DEF SenderStep
<1>7. ASSUME NEW s \in Senders,
             \/ \E kind \in Kinds : StartSend(s, kind)
             \/ \E sub \in active : StartUnsubscribe(s, sub)
      PROVE  UNCHANGED <<rx, jobs>>
  BY <1>7 DEF StartSend, StartUnsubscribe
<1>8. Disconnect \/ ReconnectSame \/ ReconnectOther \/ UNCHANGED vars => UNCHANGED <<rx, jobs>>
  BY DEF Disconnect, ReconnectSame, ReconnectOther, Restart, vars
<1> QED
  BY <1>2, <1>3, <1>4, <1>6, <1>7, <1>8 DEF Next

LEMMA NextClientIds ==
    ASSUME Core, IdsAreNames, OneSocket, ClientIds, [Next]_vars
    PROVE  ClientIds'
<1>1. CASE client' \subseteq client
  BY <1>1 DEF ClientIds
<1>2. ASSUME NEW s \in Tasks, SendOk(s),
             client' = client \cup {[kind |-> sender[s].kind, id |-> sender[s].id,
                                     acked |-> sender[s].kind = "unsub", answered |-> FALSE]}
      PROVE  ClientIds'
  <2>1. s \in Sending
    BY <1>2, SendOkEffect DEF Core, Sending
  <2>2. \A m \in client : m.id # sender[s].id
    BY <2>1, SendingIsNew
  <2> DEFINE r == [kind |-> sender[s].kind, id |-> sender[s].id,
                   acked |-> sender[s].kind = "unsub", answered |-> FALSE]
  <2>3. client' = client \cup {r} /\ r.id = sender[s].id
    BY <1>2
  <2> HIDE DEF r
  <2> QED
    BY <2>2, <2>3 DEF ClientIds
<1>3. ASSUME NEW m \in client, NEW done \in Messages, NEW type \in {"ack", "resp", "err"},
             Told(m, done, type)
      PROVE  ClientIds'
  BY <1>3 DEF ClientIds, Told, Deliver
<1> QED
  BY <1>1, <1>2, <1>3, ClientEffect

LEMMA NextUnheardIds ==
    ASSUME Core, IdsAreNames, OneSocket, ClientIds, UnheardIds, [Next]_vars
    PROVE  UnheardIds'
<1> USE DEF Core
<1>1. ASSUME NEW m \in client PROVE m.id \in Ids
  BY DEF TypeOK, Messages
<1>2. ASSUME NEW m \in client, NEW done \in Messages, NEW type \in {"ack", "resp", "err"},
             Told(m, done, type)
      PROVE  UnheardIds'
  <2>1. client' \subseteq (client \ {m}) \cup {done}
    BY <1>2 DEF Told, Deliver
  <2>2. \A x \in Unheard' : x \in Unheard /\ x # m
    BY <1>2, <2>1 DEF Unheard, Told
  <2>3. ASSUME NEW x \in client, IsHeardOf(x.id)', x # m PROVE IsHeardOf(x.id)
    <3>1. PICK n \in 1 .. MaxSessions : IsAnswered(x.id, n)'
      BY <2>3 DEF IsHeardOf
    <3>2. IsAnswered(x.id, n) \/ x.id = m.id
      BY <1>1, <1>2, <3>1, DeliverAnswers DEF Told
    <3> QED
      BY <2>3, <3>2 DEF ClientIds, IsHeardOf
  <2> QED
    BY <2>2, <2>3 DEF UnheardIds, Unheard
<1>3. CASE ~ \E m \in client, done \in Messages : \E type \in {"ack", "resp", "err"} :
               Told(m, done, type)
  <2>1. ASSUME NEW id \in Ids, IsHeardOf(id)' PROVE IsHeardOf(id)
    BY <1>3, <2>1, HeardEffect
  <2>2. CASE client' \subseteq client
    BY <1>1, <2>1, <2>2 DEF UnheardIds, Unheard
  <2>3. ASSUME NEW s \in Tasks, SendOk(s),
               client' = client \cup {[kind |-> sender[s].kind, id |-> sender[s].id,
                                       acked |-> sender[s].kind = "unsub", answered |-> FALSE]}
        PROVE  UnheardIds'
    <3>1. s \in Sending
      BY <2>3, SendOkEffect DEF Sending
    <3>2. sender[s].id \in Ids /\ ~IsHeardOf(sender[s].id)
      BY <3>1, SendingIsNew
    <3>3. \A x \in Unheard' : x \in Unheard \/ x.id = sender[s].id
      BY <2>3 DEF Unheard
    <3>4. \A x \in Unheard : x.id \in Ids
      BY <1>1 DEF Unheard
    <3> QED
      BY <2>1, <3>2, <3>3, <3>4 DEF UnheardIds
  <2> QED
    BY <1>3, <2>2, <2>3, ClientEffect
<1> QED
  BY <1>2, <1>3

LEMMA NextEntryIds ==
    ASSUME Core, IdsAreNames, OneSocket, OneSocket', EntryIds, [Next]_vars
    PROVE  EntryIds'
<1> USE DEF Core
<1>1. lastId \in Nat /\ \A k \in Kinds, i \in Idx : tab[k][i].id \in Nat
  BY DEF TypeOK, Ids, Tables, Entries
<1>2. ASSUME NEW s \in Tasks, AllocEntry(s) PROVE EntryIds'
  <2>1. CASE UNCHANGED <<lastId, tab>>
    BY <2>1 DEF EntryIds
  <2>2. CASE ~UNCHANGED <<lastId, tab>>
    <3>1. lastId' = lastId + 1
      BY <1>2, <2>2, AllocEffect
    <3>2. PICK k0 \in Kinds, i0 \in Idx : k0 = sender[s].kind /\ i0 = sender'[s].idx
      BY <1>2, <2>2, AllocEffect
    <3>3. /\ tab'[k0][i0].id = lastId + 1
          /\ \A k \in Kinds, i \in Idx : ~(k = k0 /\ i = i0) => tab'[k][i] = tab[k][i]
      BY <1>2, <2>2, <3>2, AllocEffect
    <3> QED
      BY <1>1, <3>1, <3>3 DEF EntryIds
  <2> QED
    BY <2>1, <2>2
<1>3. CASE \A s \in Tasks : ~AllocEntry(s)
  <2>1. \A k \in Kinds, i \in Idx :
            tab'[k][i].in_use => tab[k][i].in_use /\ tab'[k][i].id = tab[k][i].id
    BY <1>3, EntriesKept
  <2>2. lastId <= lastId'
    <3>1. ASSUME NEW s \in Tasks, SenderStep(s) PROVE lastId' \in {lastId, lastId + 1}
      BY <3>1, AllocEffect, SendOkEffect, ClearEffect, PlainSenderEffect DEF SenderStep
    <3>2. RxMatch => lastId' = lastId
      BY MatchEffect
    <3>3. RxStep => lastId' = lastId
      BY <3>2 DEF RxStep, RxTake, RxLookup, RxGive, RxCallback, RxCallbackSends, Callback,
                  RxCallbackReturns
    <3>4. ~ReconnectOther
      BY InFlightAssumption DEF ReconnectOther, OneSocket
    <3>5. lastId' \in {lastId, lastId + 1}
      BY <3>1, <3>3, <3>4 DEF Next, StartSend, StartUnsubscribe, ClientAck, ClientAnswer, Deliver,
                              Disconnect, ReconnectSame, vars
    <3> QED
      BY <1>1, <3>5
  <2>3. lastId' \in Nat
    BY NextCore DEF TypeOK, Ids
  <2> QED
    BY <1>1, <2>1, <2>2, <2>3 DEF EntryIds
<1> QED
  BY <1>2, <1>3

LEMMA NextIdsChargedOnce ==
    ASSUME Core, IdsAreNames, IdsChargedOnce, [Next]_vars
    PROVE  IdsChargedOnce'
  BY GenerationKept, NextClientIds, NextUnheardIds, NextEntryIds DEF IdsChargedOnce
-----------------------------------------------------------------------------
(* What is charged.                                                        *)

LEMMA ChargedFinite == IsFiniteSet(Charged) /\ Cardinality(Charged) \in Nat
<1>1. Charged \in SUBSET Ids
  BY DEF Charged
<1>2. IsFiniteSet(Ids)
  BY FS_Interval, InFlightAssumption DEF Ids
<1> QED
  BY <1>1, <1>2, FS_Subset, FS_CardinalityType

\* A step after which nothing is charged that was not before.
LEMMA ChargedShrinks ==
    ASSUME Core, Unheard' \subseteq Unheard,
           \A k \in Kinds, i \in Idx : Owes(k, i)' => Owes(k, i) /\ tab'[k][i].id = tab[k][i].id
    PROVE  /\ Charged' \subseteq Charged
           /\ Cardinality(Charged)' <= Cardinality(Charged)
           /\ Cardinality(Charged) \in Nat /\ Cardinality(Charged)' \in Nat
<1>1. Charged' \in SUBSET Charged
  BY DEF Charged
<1> QED
  BY <1>1, ChargedFinite, FS_Subset, FS_CardinalityType

\* The message that goes out is charged, no longer its sender.
LEMMA ChargedWhenSent ==
    ASSUME Core, NEW s \in Tasks, SendOk(s)
    PROVE  /\ Cardinality(Charged)' <= Cardinality(Charged) + 1
           /\ Cardinality(Charged) \in Nat /\ Cardinality(Charged)' \in Nat
<1>1. SenderStep(s) /\ sender[s] \in SenderStates
  BY DEF SenderStep, Core, TypeOK
<1> DEFINE r == [kind |-> sender[s].kind, id |-> sender[s].id,
                 acked |-> sender[s].kind = "unsub", answered |-> FALSE]
<1>2. client' = client \cup {r} /\ r.id = sender[s].id
  BY SendOkEffect DEF Core
<1> HIDE DEF r
<1>3. \A x \in Unheard' : x \in Unheard \/ x.id = sender[s].id
  BY <1>2 DEF Unheard
<1>4. \A k \in Kinds, i \in Idx : Owes(k, i)' =>
          \/ Owes(k, i) /\ tab'[k][i].id = tab[k][i].id
          \/ tab'[k][i].id = sender[s].id
  BY <1>1, OwesAfterSender
<1>5. Charged' \in SUBSET (Charged \cup {sender[s].id})
  BY <1>3, <1>4 DEF Charged
<1>6. /\ IsFiniteSet(Charged \cup {sender[s].id})
      /\ Cardinality(Charged \cup {sender[s].id}) <= Cardinality(Charged) + 1
      /\ Cardinality(Charged \cup {sender[s].id}) \in Nat
      /\ Cardinality(Charged) \in Nat
  <2>1. IsFiniteSet(Charged) /\ Cardinality(Charged) \in Nat
    BY ChargedFinite
  <2>2. /\ IsFiniteSet(Charged \cup {sender[s].id})
        /\ \/ Cardinality(Charged \cup {sender[s].id}) = Cardinality(Charged)
           \/ Cardinality(Charged \cup {sender[s].id}) = Cardinality(Charged) + 1
    BY <2>1, FS_AddElement
  <2> QED
    BY <2>1, <2>2
<1>7. /\ Cardinality(Charged') <= Cardinality(Charged \cup {sender[s].id})
      /\ Cardinality(Charged') \in Nat
  BY <1>5, <1>6, FS_Subset, FS_CardinalityType
<1> QED
  BY <1>6, <1>7

\* The permit that the receive task is about to give is charged no more.
LEMMA ChargedAfterMatch ==
    ASSUME Core, IdsAreNames, IdsChargedOnce, OneSocket, RxMatch
    PROVE  /\ Cardinality(Charged) \in Nat /\ Cardinality(Charged)' \in Nat
           /\ Giving = 0
           /\ Cardinality(Charged)' + Giving' <= Cardinality(Charged)
           /\ sem' = sem /\ Holders' = Holders
<1> USE DEF Core
<1>1. rx.pc = "match" /\ UNCHANGED <<sem, sender, client>>
  BY MatchEffect
<1>2. Giving = 0 /\ Giving' \in {0, 1} /\ Holders' = Holders /\ Unheard' = Unheard
  BY <1>1 DEF Giving, Holders, Unheard
<1>3. ASSUME NEW k \in Kinds, NEW i \in Idx, Owes(k, i)'
      PROVE  Owes(k, i) /\ tab'[k][i].id = tab[k][i].id
  <2>1. /\ tab[k][i] \in Entries
        /\ \/ tab'[k][i] = tab[k][i]
           \/ tab'[k][i] = [tab[k][i] EXCEPT !.acked = TRUE]
           \/ tab'[k][i] = [tab[k][i] EXCEPT !.in_use = FALSE]
    BY MatchEffect, SMTT(60) DEF TypeOK, Tables
  <2> QED
    BY <1>3, <2>1 DEF Owes, Entries
<1>4. /\ Charged' \subseteq Charged
      /\ Cardinality(Charged)' <= Cardinality(Charged)
      /\ Cardinality(Charged) \in Nat /\ Cardinality(Charged)' \in Nat
  BY <1>2, <1>3, ChargedShrinks
<1>5. CASE rx'.pc # "give"
  BY <1>1, <1>2, <1>4, <1>5 DEF Giving
<1>6. CASE rx'.pc = "give"
  <2>1. PICK k \in Kinds, i \in Idx :
            /\ i \in Pending(k) /\ ~tab[k][i].acked
            /\ tab'[k][i].acked \/ ~tab'[k][i].in_use
    <3>1. rx' # IdleRx
      BY <1>6 DEF IdleRx
    <3>2. ASSUME NEW k \in Kinds, NEW i \in Unacked(k), tab[k][i] \in Entries,
                 tab'[k][i] = [tab[k][i] EXCEPT !.acked = TRUE]
          PROVE  /\ i \in Idx /\ i \in Pending(k) /\ ~tab[k][i].acked
                 /\ tab'[k][i].acked \/ ~tab'[k][i].in_use
      BY <3>2 DEF Unacked, Pending, Entries
    <3>3. ASSUME NEW k \in Kinds, NEW i \in Pending(k), tab[k][i] \in Entries,
                 tab'[k][i] = [tab[k][i] EXCEPT !.in_use = FALSE],
                 rx'.pc = IF tab[k][i].acked THEN "callback" ELSE "give"
          PROVE  /\ i \in Idx /\ i \in Pending(k) /\ ~tab[k][i].acked
                 /\ tab'[k][i].acked \/ ~tab'[k][i].in_use
      BY <1>6, <3>3 DEF Pending, Entries
    <3>4. \/ \E k \in Kinds : \E i \in Unacked(k) :
                 tab[k][i] \in Entries /\ tab'[k][i] = [tab[k][i] EXCEPT !.acked = TRUE]
          \/ \E k \in Kinds : \E i \in Pending(k) :
                 /\ tab[k][i] \in Entries /\ tab'[k][i] = [tab[k][i] EXCEPT !.in_use = FALSE]
                 /\ rx'.pc = IF tab[k][i].acked THEN "callback" ELSE "give"
      <4>1. \A k \in Kinds : Pending(k) \subseteq Idx /\ Unacked(k) \subseteq Idx
        BY DEF Pending, Unacked
      <4> QED
        BY <3>1, <4>1, MatchEffect
    <3> QED
      BY <3>2, <3>3, <3>4
  <2> DEFINE id == tab[k][i].id
  <2>2. /\ tab[k][i].in_use /\ id = rx.job.id /\ tab[k][i].by = NoTask
    BY <1>1, <2>1, HitIsNobodys DEF Pending
  <2>3. Owes(k, i) /\ ~Owes(k, i)'
    BY <2>1, <2>2 DEF Owes
  <2>4. IsHeardOf(id)
    BY <1>1, <2>2 DEF IsHeardOf, IsAnswered, TypeOK, RxStates, Jobs
  <2>5. \A m \in Unheard : m.id # id
    BY <2>4 DEF IdsChargedOnce, UnheardIds
  <2>6. \A l \in Kinds, j \in Idx : Owes(l, j)' => tab'[l][j].id # id
    <3> SUFFICES ASSUME NEW l \in Kinds, NEW j \in Idx, Owes(l, j)', tab'[l][j].id = id
                 PROVE  FALSE
      OBVIOUS
    <3>1. tab[l][j].in_use /\ tab[l][j].id = id
      BY <1>3 DEF Owes
    <3>2. l = k /\ j = i
      BY <2>2, <3>1 DEF IdsChargedOnce, EntryIds
    <3> QED
      BY <2>3, <3>2
  <2>11. id \in Ids
    BY DEF TypeOK, Tables, Entries
  <2>7. id \in Charged /\ id \notin Charged'
    BY <1>2, <2>3, <2>5, <2>6, <2>11 DEF Charged
  <2> HIDE DEF id
  <2>8. /\ IsFiniteSet(Charged \ {id})
        /\ Cardinality(Charged \ {id}) = Cardinality(Charged) - 1
    BY <2>7, ChargedFinite, FS_RemoveElement
  <2>9. Charged' \in SUBSET (Charged \ {id})
    BY <1>4, <2>7
  <2>10. Cardinality(Charged') <= Cardinality(Charged \ {id})
    BY <2>8, <2>9, FS_Subset
  <2> QED
    BY <1>1, <1>2, <1>4, <1>6, <2>8, <2>10 DEF Giving
<1> QED
  BY <1>5, <1>6

\* A step by which no task, no permit and no entry is more of a charge.
LEMMA ChargesKept ==
    ASSUME Core, Charges, OneSocket, Unheard' \subseteq Unheard,
           \A k \in Kinds, i \in Idx : Owes(k, i)' => Owes(k, i) /\ tab'[k][i].id = tab[k][i].id,
           sem' = sem, Holders' = Holders, Giving' = Giving
    PROVE  Charges'
<1>1. /\ Cardinality(Charged)' <= Cardinality(Charged)
      /\ Cardinality(Charged) \in Nat /\ Cardinality(Charged)' \in Nat
  BY ChargedShrinks
<1>2. Giving \in {0, 1} /\ Cardinality(Holders) \in Nat /\ sem \in Nat
  BY HoldersFinite DEF Giving, Core, TypeOK
<1> QED
  BY <1>1, <1>2, InFlightAssumption DEF Charges

LEMMA SenderCharges ==
    ASSUME Core, Charges, OneSocket, NEW s \in Tasks, SenderStep(s)
    PROVE  Charges'
<1>1. /\ Cardinality(Holders) \in Nat /\ Cardinality(Holders)' \in Nat
      /\ rx' = rx
      /\ \/ /\ sem > 0 /\ sem' = sem - 1 /\ UNCHANGED <<tab, client>>
            /\ Cardinality(Holders)' = Cardinality(Holders) + 1
         \/ /\ sem' = Give(sem) /\ UNCHANGED <<tab, client>>
            /\ Cardinality(Holders)' = Cardinality(Holders) - 1
         \/ /\ SendOk(s) /\ sender[s].kind \in Kinds /\ sem' = sem
            /\ Cardinality(Holders)' = Cardinality(Holders) - 1
         \/ /\ SendOk(s) => sender[s].kind = "unsub"
            /\ sem' = sem
            /\ Cardinality(Holders)' = Cardinality(Holders)
  BY HoldersAfterSender
<1>2. Giving' = Giving /\ Giving \in {0, 1}
  BY <1>1 DEF Giving
<1>3. Cardinality(Charged) \in Nat /\ sem \in Nat /\ MaxInFlight \in Nat
  BY ChargedFinite, InFlightAssumption DEF Core, TypeOK
<1>4. CASE UNCHANGED <<tab, client>>
  <2>1. Charged' = Charged
    BY <1>4 DEF Charged, Unheard, Owes
  <2>2. Give(sem) \in {sem, sem + 1}
    BY DEF Give
  <2> QED
    BY <1>1, <1>2, <1>3, <2>1, <2>2 DEF Charges
<1>5. CASE /\ SendOk(s) /\ sem' = sem
           /\ Cardinality(Holders)' = Cardinality(Holders) - 1
  <2>1. Cardinality(Charged)' <= Cardinality(Charged) + 1 /\ Cardinality(Charged)' \in Nat
    BY <1>5, ChargedWhenSent
  <2> QED
    BY <1>1, <1>2, <1>3, <1>5, <2>1 DEF Charges
<1>6. CASE /\ SendOk(s) => sender[s].kind = "unsub"
           /\ sem' = sem
           /\ Cardinality(Holders)' = Cardinality(Holders)
  <2>1. ASSUME NEW k \in Kinds, NEW i \in Idx, Owes(k, i)'
        PROVE  Owes(k, i) /\ tab'[k][i].id = tab[k][i].id
    BY <1>6, <2>1, OwesAfterSender DEF Kinds
  <2>2. Unheard' \subseteq Unheard
    <3>1. CASE SendOk(s)
      <4> DEFINE r == [kind |-> sender[s].kind, id |-> sender[s].id,
                       acked |-> sender[s].kind = "unsub", answered |-> FALSE]
      <4>1. client' = client \cup {r} /\ r.kind = "unsub"
        BY <1>6, <3>1, SendOkEffect DEF Core
      <4> HIDE DEF r
      <4> QED
        BY <4>1 DEF Unheard
    <3>2. CASE ~SendOk(s)
      <4>1. client' = client
        BY <3>2, AllocEffect, ClearEffect, PlainSenderEffect DEF SenderStep, Core
      <4> QED
        BY <4>1 DEF Unheard
    <3> QED
      BY <3>1, <3>2
  <2>3. Cardinality(Charged)' <= Cardinality(Charged) /\ Cardinality(Charged)' \in Nat
    BY <2>1, <2>2, ChargedShrinks
  <2> QED
    BY <1>1, <1>2, <1>3, <1>6, <2>3 DEF Charges
<1> QED
  BY <1>1, <1>4, <1>5, <1>6

LEMMA NextCharges ==
    ASSUME Core, IdsAreNames, IdsChargedOnce, Charges, [Next]_vars
    PROVE  Charges'
<1> SUFFICES ASSUME OneSocket' PROVE Charges'
  BY DEF Charges
<1>1. OneSocket
  BY GenerationKept
<1>2. ASSUME NEW s \in Tasks, SenderStep(s) PROVE Charges'
  BY <1>1, <1>2, SenderCharges
<1>3. ASSUME UNCHANGED <<sem, tab>>, Unheard' \subseteq Unheard, Holders' = Holders,
             Giving' = Giving
      PROVE  Charges'
  BY <1>1, <1>3, ChargesKept DEF Owes
<1>4. ASSUME NEW s \in Tasks, sender[s].pc = "idle", sender'[s].pc \in {"sem", "unsub"},
             \A t \in Tasks \ {s} : sender'[t] = sender[t]
      PROVE  Holders' = Holders
  BY <1>4 DEF Holders
<1>5. ASSUME NEW s \in Senders,
             \/ \E kind \in Kinds : StartSend(s, kind)
             \/ \E sub \in active : StartUnsubscribe(s, sub)
      PROVE  Charges'
  <2>1. /\ s \in Tasks /\ UNCHANGED <<sem, tab, rx, client>>
        /\ sender[s].pc = "idle" /\ sender'[s].pc \in {"sem", "unsub"}
        /\ \A t \in Tasks \ {s} : sender'[t] = sender[t]
    BY <1>5 DEF StartSend, StartUnsubscribe, Started, Tasks, Core, TypeOK, IdleSender
  <2> QED
    BY <1>3, <1>4, <2>1 DEF Giving, Unheard
<1>6. ASSUME NEW m \in client, ClientAck(m) \/ \E t \in {"resp", "err"} : ClientAnswer(m, t)
      PROVE  Charges'
  <2>1. PICK done \in Messages, type \in {"ack", "resp", "err"} : Told(m, done, type)
    BY <1>6, ClientTells DEF Core
  <2>2. UNCHANGED <<sem, tab, sender, rx>> /\ Unheard' \subseteq Unheard
    BY <2>1 DEF Told, Deliver, Unheard
  <2> QED
    BY <1>3, <2>2 DEF Holders, Giving
<1>7. CASE RxMatch
  <2>1. /\ Cardinality(Charged) \in Nat /\ Cardinality(Charged)' \in Nat
        /\ Giving = 0
        /\ Cardinality(Charged)' + Giving' <= Cardinality(Charged)
        /\ sem' = sem /\ Holders' = Holders
    BY <1>1, <1>7, ChargedAfterMatch
  <2>2. sem \in Nat /\ MaxInFlight \in Nat /\ Giving' \in {0, 1}
    BY InFlightAssumption DEF Core, TypeOK, Giving
  <2> QED
    BY <1>1, <2>1, <2>2, HoldersFinite DEF Charges
<1>8. CASE RxGive
  <2>1. /\ UNCHANGED <<tab, sender, client>> /\ sem' \in {sem, sem + 1}
        /\ Giving = 1 /\ rx'.pc # "give"
    BY <1>8 DEF RxGive, Give, Giving, IdleRx, Core, TypeOK, RxStates
  <2>2. Charged' = Charged /\ Holders' = Holders /\ Giving' = 0
    BY <2>1 DEF Charged, Unheard, Owes, Holders, Giving
  <2>3. sem \in Nat /\ MaxInFlight \in Nat
    BY InFlightAssumption DEF Core, TypeOK
  <2> QED
    BY <1>1, <2>1, <2>2, <2>3, ChargedFinite, HoldersFinite DEF Charges
<1>9. CASE RxTake \/ RxLookup \/ RxCallback \/ RxCallbackReturns
  <2>1. UNCHANGED <<sem, tab, sender, client>> /\ rx.pc # "give"
    BY <1>9 DEF RxTake, RxLookup, RxCallback, Callback, RxCallbackReturns
  <2>2. rx'.pc # "give"
    <3>1. rx \in RxStates
      BY DEF Core, TypeOK
    <3>2. ASSUME RxTake PROVE rx'.pc # "give"
      BY <3>2 DEF RxTake, IdleRx
    <3>3. ASSUME RxLookup PROVE rx'.pc # "give"
      <4>1. rx' = [rx EXCEPT !.pc = "match"] \/ rx' = IdleRx
        BY <3>3 DEF RxLookup
      <4> QED
        BY <3>1, <4>1 DEF RxStates, IdleRx
    <3>4. RxCallback \/ RxCallbackReturns => rx'.pc # "give"
      BY DEF RxCallback, RxCallbackReturns, IdleRx
    <3> QED
      BY <1>9, <3>2, <3>3, <3>4
  <2> QED
    BY <1>3, <2>1, <2>2 DEF Holders, Giving, Unheard
<1>10. ASSUME NEW kind \in Kinds, RxCallbackSends(kind) PROVE Charges'
  <2>1. /\ UNCHANGED <<sem, tab, client>>
        /\ rx.pc # "give" /\ rx'.pc # "give"
    BY <1>10 DEF RxCallbackSends, Callback, Core, TypeOK, RxStates
  <2>2. /\ sender[Rx].pc = "idle" /\ sender'[Rx].pc = "sem"
        /\ \A t \in Tasks \ {Rx} : sender'[t] = sender[t]
    BY <1>10, RxIsTask DEF RxCallbackSends, Started, Core, TypeOK, IdleSender
  <2> QED
    BY <1>3, <1>4, <2>1, <2>2, RxIsTask DEF Giving, Unheard
<1>11. CASE Disconnect
  BY <1>3, <1>11 DEF Disconnect, Holders, Giving, Unheard
<1>12. CASE ReconnectSame
  <2>1. UNCHANGED <<sem, sender, rx, client>> /\ tab' = BlankTab
    BY <1>12 DEF ReconnectSame, Restart
  <2>2. \A k \in Kinds, i \in Idx : ~Owes(k, i)'
    BY <2>1 DEF Owes, BlankTab, Blank
  <2>3. Unheard' \subseteq Unheard /\ Holders' = Holders /\ Giving' = Giving
    BY <2>1 DEF Unheard, Holders, Giving
  <2> QED
    BY <1>1, <2>1, <2>2, <2>3, ChargesKept
<1>13. CASE ReconnectOther
  BY <1>1, <1>13, InFlightAssumption DEF ReconnectOther, OneSocket
<1>14. CASE UNCHANGED vars
  BY <1>3, <1>14 DEF vars, Holders, Giving, Unheard
<1> QED
  BY <1>2, <1>5, <1>6, <1>7, <1>8, <1>9, <1>10, <1>11, <1>12, <1>13, <1>14 DEF Next, RxStep

LEMMA InitCharges == Init => IdsChargedOnce /\ Charges
<1> SUFFICES ASSUME Init PROVE IdsChargedOnce /\ Charges
  OBVIOUS
<1>1. \A k \in Kinds, i \in Idx : ~tab[k][i].in_use
  BY DEF Init, BlankTab, Blank
<1>2. client = {} /\ Unheard = {} /\ Holders = {} /\ Giving = 0
  BY DEF Init, Unheard, Holders, Giving, IdleSender, IdleRx
<1>3. Charged = {}
  BY <1>1, <1>2 DEF Charged, Owes
<1>4. IdsChargedOnce
  BY <1>1, <1>2 DEF IdsChargedOnce, ClientIds, UnheardIds, EntryIds
<1> QED
  BY <1>2, <1>3, <1>4, FS_EmptySet, InFlightAssumption DEF Init, Charges

\* Messages with different ids that are charged are no more than what is charged.
LEMMA UnheardAreCharged ==
    ASSUME Core, OneSocket, IdsChargedOnce
    PROVE  Cardinality(Unheard) \in Nat /\ Cardinality(Unheard) <= Cardinality(Charged)
<1> DEFINE f == [m \in Unheard |-> m.id]
<1>1. \A m \in Unheard : m.id \in Charged
  BY DEF Core, TypeOK, Messages, Unheard, Charged
<1>2. \A m, n \in Unheard : m.id = n.id => m = n
  BY DEF IdsChargedOnce, ClientIds, Unheard
<1>3. f \in [Unheard -> Charged] /\ \A m, n \in Unheard : f[m] = f[n] => m = n
  BY <1>1, <1>2
<1>4. f \in Injection(Unheard, Charged)
  BY <1>3, Fun_IsInj
<1> HIDE DEF f
<1> QED
  BY <1>4, ChargedFinite, FS_Injection, FS_CardinalityType

\* Until the slot goes to another socket, the client never has more than the limit of
\* messages it has neither acked nor answered: whatever sends fail, whatever answers
\* come late or are lost with the queue, and however often it reconnects.
THEOREM ClientIsNotFlooded == Spec => []ClientNotFlooded
<1> DEFINE Inv == Core /\ IdsAreNames /\ IdsChargedOnce /\ Charges
<1>1. Init => Inv
  BY InitCore, InitIds, InitCharges
<1>2. Inv /\ [Next]_vars => Inv'
  BY NextCore, NextIds, NextIdsChargedOnce, NextCharges
<1>3. Inv => ClientNotFlooded
  <2> SUFFICES ASSUME Inv, OneSocket PROVE Cardinality(Unheard) <= MaxInFlight
    BY DEF ClientNotFlooded, Unheard
  <2>1. Giving \in {0, 1} /\ sem \in Nat
    BY DEF Giving, Core, TypeOK
  <2> QED
    BY <2>1, UnheardAreCharged, ChargedFinite, HoldersFinite, InFlightAssumption DEF Charges
<1> QED
  BY <1>1, <1>2, <1>3, PTL DEF Spec
-----------------------------------------------------------------------------
(* A slot whose client is never replaced.                                  *)

\* Whoever has an entry and its message still in hand finds the entry as it was left.
Kept ==
    \A s \in Tasks :
        sender[s].pc \in {"send", "fail"} /\ sender[s].kind \in Kinds =>
            LET e == tab[sender[s].kind][sender[s].idx] IN e.by = s /\ e.in_use

\* No sender touches an entry that is out of its sender's hands.
LEMMA NobodysKept ==
    ASSUME Core, Kept, NEW s \in Tasks, SenderStep(s), NEW k \in Kinds, NEW i \in Idx,
           tab[k][i].in_use, tab[k][i].by # s
    PROVE  tab'[k][i] = tab[k][i]
<1> USE DEF Core
<1>1. CASE AllocEntry(s)
  BY <1>1, AllocEffect
<1>2. CASE SendOk(s)
  BY <1>2, SendOkEffect, UnownAt
<1>3. CASE ClearEntry(s)
  <2>1. ~(k = sender[s].kind /\ i = sender[s].idx)
    BY <1>3, ClearEffect DEF Kept
  <2>2. IF k = sender[s].kind /\ i = sender[s].idx
        THEN tab'[k][i] = [Unown(s)[k][i] EXCEPT !.in_use = FALSE]
        ELSE tab'[k][i] = Unown(s)[k][i]
    BY <1>3, ClearEffect
  <2> QED
    BY <2>1, <2>2, UnownAt
<1>4. CASE TakePermit(s) \/ PermitTimeout(s) \/ ForgetSub(s) \/ SendFails(s) \/ GiveBack(s)
  BY <1>4, PlainSenderEffect
<1> QED
  BY <1>1, <1>2, <1>3, <1>4 DEF SenderStep

\* Nor does the receive task touch one that is in its sender's hands.
LEMMA OwnedKeptByRx ==
    ASSUME Core, IdsAreNames, OneSocket, RxStep, NEW k \in Kinds, NEW i \in Idx,
           tab[k][i].by # NoTask
    PROVE  tab'[k][i] = tab[k][i]
<1>1. CASE RxMatch
  <2>1. rx.pc = "match"
    BY <1>1, MatchEffect DEF Core
  <2>2. i \notin Pending(k) /\ i \notin Unacked(k)
    BY <2>1, HitIsNobodys DEF Unacked
  <2> QED
    BY <1>1, <2>2, MatchEffect DEF Core
<1>2. CASE ~RxMatch
  BY <1>2 DEF RxStep, RxTake, RxLookup, RxGive, RxCallback, RxCallbackSends, Callback,
              RxCallbackReturns
<1> QED
  BY <1>1, <1>2

\* A step in which every task that holds an entry stays where it is or leaves it, and
\* the entries in the hands of those who stay are left alone.
LEMMA KeptWhenStay ==
    ASSUME Core, Kept,
           \A t \in Tasks : sender'[t].pc \in {"send", "fail"} /\ sender'[t].kind \in Kinds =>
               /\ sender[t].pc \in {"send", "fail"}
               /\ sender'[t].kind = sender[t].kind /\ sender'[t].idx = sender[t].idx
               /\ \A k \in Kinds, i \in Idx :
                      tab[k][i].in_use /\ tab[k][i].by = t => tab'[k][i] = tab[k][i]
    PROVE  Kept'
<1> SUFFICES ASSUME NEW t \in Tasks, sender'[t].pc \in {"send", "fail"}, sender'[t].kind \in Kinds
             PROVE  /\ tab'[sender'[t].kind][sender'[t].idx].by = t
                    /\ tab'[sender'[t].kind][sender'[t].idx].in_use
  BY DEF Kept
<1>1. PICK k \in Kinds, i \in Idx : k = sender[t].kind /\ i = sender[t].idx
  BY DEF Core, TypeOK, SenderStates
<1>2. tab[k][i].by = t /\ tab[k][i].in_use
  BY <1>1 DEF Kept
<1>3. tab'[k][i] = tab[k][i]
  BY <1>2
<1> QED
  BY <1>1, <1>2, <1>3

\* No step but a reconnection begins a connection, so that the first one, once
\* over, does not come back.
LEMMA FirstStays ==
    ASSUME Core, [Next]_vars
    PROVE  /\ sess' = 1 => sess = 1 /\ OneSocket
           /\ Reconnects = {} => sess' = sess
<1> USE DEF Core
<1>1. ASSUME NEW s \in Tasks, SenderStep(s) PROVE sess' = sess
  BY <1>1, AllocEffect, SendOkEffect, ClearEffect, PlainSenderEffect DEF SenderStep
<1>2. RxMatch => sess' = sess
  BY MatchEffect
<1>3. RxStep => sess' = sess
  BY <1>2 DEF RxStep, RxTake, RxLookup, RxGive, RxCallback, RxCallbackSends, Callback,
              RxCallbackReturns, conn
<1>4. \/ sess' = sess
      \/ sess' = sess + 1 /\ Reconnects # {}
  BY <1>1, <1>3 DEF Next, StartSend, StartUnsubscribe, ClientAck, ClientAnswer, Deliver,
                    Disconnect, ReconnectSame, ReconnectOther, Restart, vars, conn
<1>5. sess \in Nat \ {0} /\ (sess = 1 => gen = 1)
  BY InFlightAssumption DEF TypeOK, Bounds
<1> QED
  BY <1>4, <1>5 DEF OneSocket

\* On the first connection every sender finds its entry as it was left.
LEMMA NextKept ==
    ASSUME Core, IdsAreNames, Kept, [Next]_vars, sess' = 1
    PROVE  Kept'
<1> USE DEF Core
<1>0. sess = 1 /\ OneSocket
  BY FirstStays
<1>1. ASSUME NEW s \in Tasks, SenderStep(s) PROVE Kept'
  <2>1. \A t \in Tasks \ {s} : sender'[t] = sender[t]
    BY <1>1, AllocEffect, SendOkEffect, ClearEffect, PlainSenderEffect DEF SenderStep
  <2>2. \A k \in Kinds, i \in Idx :
            tab[k][i].in_use /\ tab[k][i].by # s => tab'[k][i] = tab[k][i]
    BY <1>1, NobodysKept
  <2>3. CASE \/ sender'[s].pc \notin {"send", "fail"} \/ sender'[s].kind \notin Kinds
    <3>1. \A t \in Tasks : sender'[t].pc \in {"send", "fail"} /\ sender'[t].kind \in Kinds => t # s
      BY <2>3
    <3> QED
      BY <2>1, <2>2, <3>1, KeptWhenStay
  <2>4. CASE AllocEntry(s)
    <3>1. CASE sender'[s].pc = "give"
      BY <2>3, <3>1
    <3>2. CASE sender'[s].pc # "give"
      <4> SUFFICES ASSUME NEW t \in Tasks, sender'[t].pc \in {"send", "fail"}, sender'[t].kind \in Kinds
                   PROVE  /\ tab'[sender'[t].kind][sender'[t].idx].by = t
                          /\ tab'[sender'[t].kind][sender'[t].idx].in_use
        BY DEF Kept
      <4>1. CASE t = s
        BY <2>4, <3>2, <4>1, AllocEffect
      <4>2. CASE t # s
        <5>1. sender'[t] = sender[t]
          BY <2>1, <4>2
        <5>2. PICK k \in Kinds, i \in Idx : k = sender[t].kind /\ i = sender[t].idx
          BY <5>1 DEF TypeOK, SenderStates
        <5>3. tab[k][i].by = t /\ tab[k][i].in_use
          BY <5>1, <5>2 DEF Kept
        <5>4. tab'[k][i] = tab[k][i]
          BY <2>2, <4>2, <5>3
        <5> QED
          BY <5>1, <5>2, <5>3, <5>4
      <4> QED
        BY <4>1, <4>2
    <3> QED
      BY <3>1, <3>2
  <2>5. CASE SendOk(s)
    BY <2>3, <2>5, SendOkEffect DEF IdleSender
  <2>6. CASE ClearEntry(s)
    BY <2>3, <2>6, ClearEffect
  <2>7. CASE TakePermit(s) \/ PermitTimeout(s) \/ ForgetSub(s) \/ SendFails(s) \/ GiveBack(s)
    <3>1. /\ tab' = tab /\ sender[s] \in SenderStates /\ IdleSender.pc = "idle"
          /\ \/ sender[s].pc = "sem" /\ sender'[s] = [sender[s] EXCEPT !.pc = "alloc"]
             \/ sender'[s] = IdleSender
             \/ /\ sender[s].pc = "unsub"
                /\ sender'[s] = [sender[s] EXCEPT !.pc = "send", !.id = lastId + 1]
             \/ sender[s].pc = "send" /\ sender'[s] = [sender[s] EXCEPT !.pc = "fail"]
      BY <2>7, PlainSenderEffect DEF TypeOK, IdleSender
    <3>2. \/ sender'[s].pc \notin {"send", "fail"} \/ sender'[s].kind \notin Kinds
          \/ /\ sender[s].pc \in {"send", "fail"}
             /\ sender'[s].kind = sender[s].kind /\ sender'[s].idx = sender[s].idx
      <4>1. sender[s].pc = "unsub" => sender[s].kind \notin Kinds
        BY DEF Roles, Kinds
      <4> QED
        BY <3>1, <4>1 DEF SenderStates
    <3>3. CASE /\ sender[s].pc \in {"send", "fail"}
               /\ sender'[s].kind = sender[s].kind /\ sender'[s].idx = sender[s].idx
      <4>1. \A t \in Tasks : \/ t = s \/ sender'[t] = sender[t]
        BY <2>1
      <4>2. \A k \in Kinds, i \in Idx : tab'[k][i] = tab[k][i]
        BY <3>1
      <4> QED
        BY <3>3, <4>1, <4>2, KeptWhenStay
    <3> QED
      BY <2>3, <3>2, <3>3
  <2> QED
    BY <1>1, <2>4, <2>5, <2>6, <2>7 DEF SenderStep
<1>2. ASSUME \A t \in Tasks : \/ sender'[t] = sender[t] \/ sender'[t].pc \notin {"send", "fail"},
             \A k \in Kinds, i \in Idx : tab[k][i].by # NoTask => tab'[k][i] = tab[k][i]
      PROVE  Kept'
  <2>1. \A t \in Tasks : t # NoTask
    BY InFlightAssumption DEF Tasks
  <2> QED
    BY <1>2, <2>1, KeptWhenStay
<1>3. ASSUME NEW s \in Senders,
             \/ \E kind \in Kinds : StartSend(s, kind)
             \/ \E sub \in active : StartUnsubscribe(s, sub)
      PROVE  Kept'
  <2>1. /\ s \in Tasks /\ tab' = tab /\ sender'[s].pc \in {"sem", "unsub"}
        /\ \A t \in Tasks \ {s} : sender'[t] = sender[t]
    BY <1>3 DEF StartSend, StartUnsubscribe, Started, Tasks, TypeOK, IdleSender
  <2> QED
    BY <1>2, <2>1
<1>4. ASSUME NEW m \in client, ClientAck(m) \/ \E t \in {"resp", "err"} : ClientAnswer(m, t)
      PROVE  Kept'
  BY <1>2, <1>4 DEF ClientAck, ClientAnswer, Deliver
<1>5. CASE RxStep
  <2>1. \A k \in Kinds, i \in Idx : tab[k][i].by # NoTask => tab'[k][i] = tab[k][i]
    BY <1>0, <1>5, OwnedKeptByRx
  <2>2. \A t \in Tasks : \/ sender'[t] = sender[t] \/ sender'[t].pc \notin {"send", "fail"}
    <3>1. CASE RxMatch
      BY <3>1, MatchEffect
    <3>2. CASE RxTake \/ RxLookup \/ RxGive \/ RxCallback \/ RxCallbackReturns
      BY <3>2 DEF RxTake, RxLookup, RxGive, RxCallback, Callback, RxCallbackReturns
    <3>3. ASSUME NEW kind \in Kinds, RxCallbackSends(kind)
          PROVE  /\ \A t \in Tasks \ {Rx} : sender'[t] = sender[t]
                 /\ sender'[Rx].pc = "sem"
      BY <3>3, RxIsTask DEF RxCallbackSends, Started, TypeOK, IdleSender
    <3> QED
      BY <1>5, <3>1, <3>2, <3>3 DEF RxStep
  <2> QED
    BY <1>2, <2>1, <2>2
<1>6. ~ReconnectSame /\ ~ReconnectOther
  BY <1>0 DEF ReconnectSame, ReconnectOther, Restart
<1>7. CASE Disconnect \/ UNCHANGED vars
  BY <1>2, <1>7 DEF Disconnect, vars
<1> QED
  BY <1>1, <1>3, <1>4, <1>5, <1>6, <1>7 DEF Next

\* A request that went out stops being pending only when the receive task takes its
\* answer up, and then its callback follows.
LEMMA EndsByAnswer ==
    ASSUME Core, IdsAreNames, sess = 1, Kept, [Next]_vars, Reconnects = {},
           NEW k \in Kinds, NEW i \in Idx,
           tab[k][i].in_use, tab[k][i].by = NoTask, ~tab'[k][i].in_use
    PROVE  rx'.pc \in {"give", "callback"} /\ rx'.hit = tab[k][i]
<1>0. OneSocket
  BY FirstStays
<1>1. ASSUME NEW s \in Tasks, SenderStep(s) PROVE FALSE
  <2>1. s # NoTask
    BY InFlightAssumption DEF Tasks
  <2> QED
    BY <1>1, <2>1, NobodysKept
<1>2. CASE RxMatch
  <2>1. tab[k][i] \in Entries
    BY DEF Core, TypeOK, Tables
  <2>2. tab'[k][i] # tab[k][i] /\ tab'[k][i] # [tab[k][i] EXCEPT !.acked = TRUE]
    BY <2>1 DEF Entries
  <2> QED
    BY <1>2, <2>2, MatchEffect DEF Core
<1>3. CASE RxStep /\ ~RxMatch
  BY <1>3 DEF RxStep, RxTake, RxLookup, RxGive, RxCallback, RxCallbackSends, Callback,
              RxCallbackReturns
<1> QED
  BY <1>1, <1>2, <1>3 DEF Next, StartSend, StartUnsubscribe, ClientAck, ClientAnswer, Deliver,
                          Disconnect, ReconnectSame, ReconnectOther, vars

LEMMA InitKept == Init => sess = 1 /\ OneSocket /\ Kept
  BY DEF Init, OneSocket, Kept, IdleSender

\* On a connection that lasts, a request that went out stops being pending only when
\* its answer is taken up, and then its callback follows; no sender's failure and no
\* ack clears it.
THEOREM RequestsEnd == ASSUME Reconnects = {} PROVE Spec => RequestsEndByAnswer
<1> DEFINE Inv == Core /\ IdsAreNames /\ sess = 1 /\ Kept
<1>1. Init => Inv
  BY InitCore, InitIds, InitKept
<1>2. Inv /\ [Next]_vars => Inv'
  BY NextCore, NextIds, FirstStays, NextKept
<1>3. Inv /\ [Next]_vars =>
      [\A k \in Kinds, i \in Idx :
          tab[k][i].in_use /\ tab[k][i].by = NoTask /\ ~tab'[k][i].in_use
              => rx'.pc \in {"give", "callback"} /\ rx'.hit = tab[k][i]]_vars
  BY EndsByAnswer
<1> QED
  BY <1>1, <1>2, <1>3, PTL DEF Spec, RequestsEndByAnswer
-----------------------------------------------------------------------------
(* How permits are lost.                                                   *)

\* A sender hands its permit to the entry that its message leaves behind.
LEMMA SenderFull ==
    ASSUME Core, Account, OneSocket, Kept, NEW s \in Tasks, SenderStep(s), ~StaleAck(s)
    PROVE  sem' = sem => Out' >= Out
<1> SUFFICES ASSUME sem' = sem PROVE Out' >= Out
  OBVIOUS
<1>1. \A k \in Kinds, i \in Idx : Owes(k, i) => tab[k][i].in_use /\ tab[k][i].by # s
  BY InFlightAssumption DEF Owes, Tasks
<1>2. \A k \in Kinds, i \in Idx : Owes(k, i) => Owes(k, i)'
  <2> SUFFICES ASSUME NEW k \in Kinds, NEW i \in Idx, Owes(k, i) PROVE Owes(k, i)'
    OBVIOUS
  <2>1. tab'[k][i] = tab[k][i]
    BY <1>1, NobodysKept
  <2> QED
    BY <2>1 DEF Owes
<1>3. Cardinality(Owed) <= Cardinality(Owed') /\ Cardinality(Owed') \in Nat
  <2>1. Owed \in SUBSET Owed'
    BY <1>2 DEF Owed, Owes
  <2>2. Owed' \in SUBSET (Kinds \X Idx)
    BY DEF Owed
  <2> QED
    BY <2>1, <2>2, PlacesFinite, FS_Subset, FS_CardinalityType
<1>4. /\ Cardinality(Holders) \in Nat /\ Cardinality(Holders)' \in Nat
      /\ rx' = rx
      /\ \/ /\ sem > 0 /\ sem' = sem - 1 /\ UNCHANGED <<tab, client>>
            /\ Cardinality(Holders)' = Cardinality(Holders) + 1
         \/ /\ sem' = Give(sem) /\ UNCHANGED <<tab, client>>
            /\ Cardinality(Holders)' = Cardinality(Holders) - 1
         \/ /\ SendOk(s) /\ sender[s].kind \in Kinds /\ sem' = sem
            /\ Cardinality(Holders)' = Cardinality(Holders) - 1
         \/ /\ SendOk(s) => sender[s].kind = "unsub"
            /\ sem' = sem
            /\ Cardinality(Holders)' = Cardinality(Holders)
  BY HoldersAfterSender
<1>5. Giving' = Giving /\ Giving \in {0, 1}
  BY <1>4 DEF Giving
<1>6. sem \in Nat /\ MaxInFlight \in Nat /\ Cardinality(Owed) \in Nat
  BY OwedFinite, InFlightAssumption DEF Core, TypeOK
<1>7. CASE sem' = sem - 1
  BY <1>6, <1>7
<1>8. CASE sem' = Give(sem) /\ Cardinality(Holders)' = Cardinality(Holders) - 1
  BY <1>4, <1>5, <1>6, <1>8 DEF Account, Out, Give
<1>9. CASE /\ SendOk(s) /\ sender[s].kind \in Kinds
           /\ Cardinality(Holders)' = Cardinality(Holders) - 1
  <2>1. sender[s].idx \in Idx
    BY DEF Core, TypeOK, SenderStates
  <2>2. PICK k \in Kinds, i \in Idx : k = sender[s].kind /\ i = sender[s].idx
    BY <1>9, <2>1
  <2>3. tab[k][i].in_use /\ tab[k][i].by = s /\ ~tab[k][i].acked
    BY <1>9, <2>2, SendOkEffect DEF Kept, StaleAck, Core
  <2>4. ~Owes(k, i) /\ Owes(k, i)'
    <3>1. tab'[k][i] = Unown(s)[k][i]
      BY <1>9, SendOkEffect DEF Core
    <3> QED
      BY <1>1, <2>3, <3>1, UnownAt DEF Owes, Core
  <2>5. ASSUME NEW l \in Kinds, NEW j \in Idx, ~(l = k /\ j = i) PROVE Owes(l, j)' <=> Owes(l, j)
    <3>1. tab[l][j].by # s
      BY <2>2, <2>5, OwnEntry
    <3>2. tab'[l][j] = tab[l][j]
      BY <1>9, <3>1, SendOkEffect, UnownAt DEF Core
    <3> QED
      BY <3>2 DEF Owes
  <2>6. Cardinality(Owed)' = Cardinality(Owed) + Count(Owes(k, i)') - Count(Owes(k, i))
    BY <2>5, OwedChanges
  <2>7. Cardinality(Owed)' = Cardinality(Owed) + 1
    BY <1>6, <2>4, <2>6 DEF Count
  <2> QED
    BY <1>4, <1>5, <1>6, <1>9, <2>7 DEF Out
<1>10. CASE Cardinality(Holders)' = Cardinality(Holders)
  BY <1>3, <1>4, <1>5, <1>6, <1>10 DEF Out
<1> QED
  BY <1>4, <1>7, <1>8, <1>9, <1>10

\* A step that leaves fewer permits than there were is one of the three.
LEMMA NextLosses ==
    ASSUME Core, IdsAreNames, Account, sess = 1 => Kept, [Next]_vars,
           OneSocket', sem' + Out' < sem + Out
    PROVE  ReconnectSame \/ \E s \in Tasks : SenderStep(s) /\ (StaleAck(s) \/ sess > 1)
<1>1. sem \in Nat /\ sess \in Nat \ {0} /\ Out \in Nat /\ Out' \in Nat
  BY OutType, InFlightAssumption DEF Core, TypeOK
<1>2. PermitMoves /\ OneSocket
  BY NextMoves, GenerationKept
<1>3. sem' = sem /\ Out' < Out /\ (ReconnectSame \/ \E s \in Tasks : SenderStep(s))
  BY <1>1, <1>2 DEF PermitMoves
<1>4. ASSUME NEW s \in Tasks, SenderStep(s), sess = 1 PROVE StaleAck(s)
  BY <1>1, <1>2, <1>3, <1>4, SenderFull
<1> QED
  BY <1>1, <1>3, <1>4

\* Whatever the clients do and however often they come back under their socket
\* number: a permit is lost only when a reconnection drops a pending entry, by a
\* call that lasted through one, or when a message goes out from an entry that is
\* still marked acked.  On the first connection only the last of these happens.
THEOREM PermitLosses == Spec => LossesAreKnown
<1> DEFINE Inv == Core /\ IdsAreNames /\ Account /\ (sess = 1 => Kept)
<1>1. Init => Inv
  BY InitCore, InitIds, InitAccount, InitKept
<1>2. Inv /\ [Next]_vars => Inv'
  BY NextCore, NextIds, NextAccount, FirstStays, NextKept
<1>3. Inv /\ [Next]_vars =>
      [OneSocket' /\ sem' + Out' < sem + Out =>
          \/ ReconnectSame
          \/ \E s \in Tasks : SenderStep(s) /\ (StaleAck(s) \/ sess > 1)]_vars
  BY NextLosses
<1> QED
  BY <1>1, <1>2, <1>3, PTL DEF Spec, LossesAreKnown
=============================================================================
