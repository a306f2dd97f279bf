-------------------------- MODULE AsyncQueriesProofs --------------------------
(***************************************************************************)
(* Proofs about the server side of global async queries, and about the     *)
(* stream ids that it and its clients rely on.                             *)
(***************************************************************************)
EXTENDS AsyncQueries, Integers, TLAPS

\* The order of stream ids, on which every cursor relies, is a strict one.
LEMMA BeforeIsStrictOrder ==
    ASSUME NEW a \in StreamId, NEW b \in StreamId, NEW c \in StreamId
    PROVE  /\ ~ Before(a, a)
           /\ Before(a, b) /\ Before(b, c) => Before(a, c)
           /\ a = b \/ Before(a, b) \/ Before(b, a)
  BY DEF StreamId, Before

(***************************************************************************)
(* incrementId (superset-websocket/src/index.ts) yields the least id after *)
(* its argument: a range read from it repeats nothing and skips nothing.   *)
(* increment_id (async_query_manager.py) does the same up to the           *)
(* nineteenth entry of a millisecond; from then on it skips ids after each *)
(* one that ends in 9.                                                     *)
(***************************************************************************)
THEOREM IncrementIsSuccessor ==
    ASSUME NEW a \in StreamId, NEW b \in StreamId
    PROVE  /\ Before(a, b) <=> ~ Before(b, incrementId(a))
           /\ a.seq < 19 => increment_id(a) = incrementId(a)
           /\ a.seq % 10 # 9 => increment_id(a) = incrementId(a)
           /\ a.seq >= 19 /\ a.seq % 10 = 9 => Before(incrementId(a), increment_id(a))
  <1>0. /\ a.seq \in Nat /\ a.seq \div 10 \in Nat
        /\ a.seq % 10 = a.seq - 10 * (a.seq \div 10)
    <2>1. a.seq \in Int
      BY DEF StreamId
    <2>2. \A n \in Int : n % 10 = n - 10 * (n \div 10)
      BY SMT
    <2> QED
      BY <2>1, <2>2 DEF StreamId
  <1>1. incrementId(a) = [ms |-> a.ms, seq |-> a.seq + 1]
    BY DEF incrementId, StreamId
  <1>2. Before(b, incrementId(a)) <=> \/ b.ms < a.ms
                                      \/ b.ms = a.ms /\ b.seq < a.seq + 1
    BY <1>1 DEF Before
  <1>3. Before(a, b) <=> ~ Before(b, incrementId(a))
    BY <1>2 DEF Before, StreamId
  <1>4. ASSUME a.seq % 10 # 9 PROVE increment_id(a) = incrementId(a)
    BY <1>4 DEF increment_id, incrementId
  <1>5. ASSUME a.seq % 10 = 9
        PROVE  increment_id(a) = [ms |-> a.ms, seq |-> 100 * (a.seq \div 10) + 10]
    BY <1>0, <1>5 DEF increment_id, StreamId
  <1>6. ASSUME a.seq % 10 = 9, a.seq < 19 PROVE increment_id(a) = incrementId(a)
    <2>1. a.seq = 9 /\ a.seq \div 10 = 0
      BY <1>0, <1>6
    <2> QED
      BY <1>1, <1>5, <1>6, <2>1
  <1>7. ASSUME a.seq >= 19, a.seq % 10 = 9 PROVE Before(incrementId(a), increment_id(a))
    <2>1. a.seq + 1 < 100 * (a.seq \div 10) + 10
      BY <1>0, <1>7
    <2> QED
      BY <1>1, <1>5, <1>7, <2>1 DEF Before
  <1> QED
    BY <1>3, <1>4, <1>6, <1>7

-----------------------------------------------------------------------------

LEMMA LastIdType ==
    ASSUME NEW s \in Stream PROVE LastIdOf(s) \in StreamId
  <1>1. CASE s.log = <<>>
    BY <1>1 DEF LastIdOf, NoId, StreamId
  <1>2. CASE s.log # <<>>
    <2>1. s.log \in Seq(Entry)
      BY DEF Stream
    <2>2. Len(s.log) \in 1 .. Len(s.log)
      BY <1>2, <2>1
    <2>3. s.log[Len(s.log)] \in Entry
      BY <2>1, <2>2
    <2> QED
      BY <1>2, <2>3 DEF LastIdOf, Entry
  <1> QED
    BY <1>1, <1>2

\* The id that XADD gives is later than the newest one, and not in the past.
LEMMA NextIdIsLater ==
    ASSUME NEW s \in Stream, NEW t \in Nat
    PROVE  /\ NextId(s, t) \in StreamId
           /\ Before(LastIdOf(s), NextId(s, t))
           /\ NextId(s, t).ms >= t
           /\ LastIdOf(s).ms <= t => NextId(s, t).ms = t
  <1>1. PICK m \in Nat, q \in Nat : LastIdOf(s) = [ms |-> m, seq |-> q]
    BY LastIdType DEF StreamId
  <1>2. CASE m < t
    BY <1>1, <1>2 DEF NextId, StreamId, Before
  <1>3. CASE ~ (m < t)
    <2>1. NextId(s, t) = [ms |-> m, seq |-> q + 1]
      BY <1>1, <1>3 DEF NextId
    <2> QED
      BY <1>1, <1>3, <2>1 DEF StreamId, Before
  <1> QED
    BY <1>2, <1>3

\* XADD appends one entry and never brings back a trimmed one.
LEMMA XAddAppends ==
    ASSUME NEW s \in Stream, NEW d \in Data, NEW t \in Nat, NEW limit \in Nat,
           NEW r \in XAdd(s, d, t, limit)
    PROVE  /\ r \in Stream
           /\ r.log = Append(s.log, [id |-> NextId(s, t), data |-> d])
           /\ s.floor <= r.floor
  <1> DEFINE e == [id |-> NextId(s, t), data |-> d]
  <1>1. e \in Entry
    BY NextIdIsLater DEF Entry
  <1>2. s.log \in Seq(Entry) /\ s.floor \in Nat
    BY DEF Stream
  <1>3. PICK f \in s.floor .. Len(s.log) + 1 : r = [log |-> Append(s.log, e), floor |-> f]
    BY DEF XAdd
  <1>4. f \in Nat /\ s.floor <= f
    BY <1>2, <1>3
  <1>5. Append(s.log, e) \in Seq(Entry)
    BY <1>1, <1>2
  <1> QED
    BY <1>3, <1>4, <1>5 DEF Stream

-----------------------------------------------------------------------------
(***************************************************************************)
(* Type correctness.  The XADDs are the only steps that build new streams. *)
(***************************************************************************)
LEMMA EventType ==
    ASSUME ServerTypeOK, NEW j \in Jobs, status[j] # "pending"
    PROVE  Event(j) \in Data
  BY DEF ServerTypeOK, Statuses, Event, Data

\* Whoever is in update_job has a verdict to report.
Reporting == \A j \in Jobs : task[j] \in {"scoped", "full"} => status[j] # "pending"

LEMMA XAddScopedType ==
    ASSUME ServerTypeOK, NEW j \in Jobs, status[j] # "pending", XAddScoped(j)
    PROVE  /\ scoped' \in [Channels -> Stream]
           /\ \A c \in Channels \ {ChannelOf[j]} : scoped'[c] = scoped[c]
           /\ scoped'[ChannelOf[j]].log =
                  Append(scoped[ChannelOf[j]].log,
                         [id |-> NextId(scoped[ChannelOf[j]], now), data |-> Event(j)])
           /\ full' = full
  <1> DEFINE c == ChannelOf[j]
  <1>1. c \in Channels /\ StreamLimit \in Nat /\ now \in Nat
    BY AsyncQueriesAssumption DEF ServerTypeOK
  <1>2. scoped \in [Channels -> Stream] /\ scoped[c] \in Stream
    BY <1>1 DEF ServerTypeOK
  <1>3. PICK s \in XAdd(scoped[c], Event(j), now, StreamLimit) :
            scoped' = [scoped EXCEPT ![c] = s]
    BY DEF XAddScoped
  <1>4. s \in Stream /\ s.log = Append(scoped[c].log,
                                       [id |-> NextId(scoped[c], now), data |-> Event(j)])
    BY <1>1, <1>2, EventType, XAddAppends
  <1>5. full' = full
    BY DEF XAddScoped
  <1> QED
    BY <1>1, <1>2, <1>3, <1>4, <1>5

LEMMA XAddFullType ==
    ASSUME ServerTypeOK, NEW j \in Jobs, status[j] # "pending", XAddFull(j)
    PROVE  /\ full' \in Stream
           /\ full'.log = Append(full.log, [id |-> NextId(full, now), data |-> Event(j)])
           /\ scoped' = scoped
  <1>1. FirehoseLimit \in Nat /\ now \in Nat /\ full \in Stream
    BY AsyncQueriesAssumption DEF ServerTypeOK
  <1> QED
    BY <1>1, EventType, XAddAppends DEF XAddFull

\* The streams stay streams, and who reports has a verdict.
TypeInv == ServerTypeOK /\ Reporting

LEMMA TypeInvInit == ServerInit => TypeInv
  <1> SUFFICES ASSUME ServerInit PROVE TypeInv
    OBVIOUS
  <1>1. EmptyStream \in Stream
    BY DEF EmptyStream, Stream
  <1> QED
    BY <1>1, AsyncQueriesAssumption
    DEF ServerInit, TypeInv, ServerTypeOK, Reporting, Phases, Statuses

LEMMA TypeInvStep == TypeInv /\ [ServerNext]_serverVars => TypeInv'
  <1> SUFFICES ASSUME TypeInv, [ServerNext]_serverVars PROVE TypeInv'
    OBVIOUS
  <1> USE DEF TypeInv, ServerTypeOK, Reporting, Phases, Statuses, Moves
  <1>1. CASE Tick
    BY <1>1, AsyncQueriesAssumption DEF Tick
  <1>2. ASSUME NEW j \in Jobs, Submit(j) \/ StartTask(j) \/ UserFails(j)
                                  \/ SoftTimeout(j) \/ WorkerDies(j)
        PROVE  TypeInv'
    BY <1>2 DEF Submit, StartTask, UserFails, SoftTimeout, WorkerDies
  <1>3. ASSUME NEW j \in Jobs, NEW outcome \in {"done", "error"}, Load(j, outcome)
        PROVE  TypeInv'
    BY <1>3 DEF Load
  <1>4. ASSUME NEW j \in Jobs, AddScoped(j)
        PROVE  TypeInv'
    <2>1. scoped' \in [Channels -> Stream] /\ full' = full
      BY <1>4, XAddScopedType DEF AddScoped
    <2> QED
      BY <1>4, <2>1 DEF AddScoped
  <1>5. ASSUME NEW j \in Jobs, AddFull(j)
        PROVE  TypeInv'
    <2>1. full' \in Stream /\ scoped' = scoped
      BY <1>5, XAddFullType DEF AddFull
    <2> QED
      BY <1>5, <2>1 DEF AddFull
  <1>6. ASSUME NEW j \in Jobs, XAddRaises(j)
        PROVE  TypeInv'
    <2>1. status[j] # "pending"
      BY <1>6 DEF XAddRaises
    <2>2. scoped' \in [Channels -> Stream] /\ full' \in Stream
      BY <1>6, <2>1, XAddScopedType, XAddFullType DEF XAddRaises
    <2> QED
      BY <1>6, <2>1, <2>2 DEF XAddRaises
  <1>7. CASE UNCHANGED serverVars
    BY <1>7 DEF serverVars
  <1> QED
    BY <1>1, <1>2, <1>3, <1>4, <1>5, <1>6, <1>7 DEF ServerNext, TaskSteps, FaultSteps

(***************************************************************************)
(* The variables always have their types, for any number of jobs, channels *)
(* and faults.                                                             *)
(***************************************************************************)
THEOREM ServerTypeCorrect == ServerSpec => []ServerTypeOK
  <1>1. TypeInv => ServerTypeOK
    BY DEF TypeInv
  <1> QED
    BY <1>1, TypeInvInit, TypeInvStep, PTL DEF ServerSpec

-----------------------------------------------------------------------------
(***************************************************************************)
(* The global stream follows the streams of the channels.  Inductive with  *)
(* it: no channel has an entry from the future, and a task that is about   *)
(* to write to the global stream has written to its channel's.             *)
(***************************************************************************)
Entries(c) == DOMAIN scoped[c].log

PastInv == \A c \in Channels : \A k \in Entries(c) : scoped[c].log[k].id.ms <= now

WrittenInv ==
    \A j \in Jobs : task[j] = "full" =>
        \E k \in Entries(ChannelOf[j]) : scoped[ChannelOf[j]].log[k].data = Event(j)

FollowInv == TypeInv /\ PastInv /\ WrittenInv /\ FirehoseFollows

LEMMA AppendExtends ==
    ASSUME NEW S, NEW s \in Seq(S), NEW e \in S
    PROVE  /\ DOMAIN Append(s, e) = DOMAIN s \cup {Len(s) + 1}
           /\ Len(s) + 1 \notin DOMAIN s
           /\ \A k \in DOMAIN s : Append(s, e)[k] = s[k]
           /\ Append(s, e)[Len(s) + 1] = e
  OBVIOUS

LEMMA EntryType ==
    ASSUME TypeInv, NEW c \in Channels, NEW k \in Entries(c)
    PROVE  scoped[c].log[k] \in Entry
  <1>1. scoped[c].log \in Seq(Entry)
    BY DEF TypeInv, ServerTypeOK, Stream
  <1> QED
    BY <1>1 DEF Entries

\* What an XADD on the stream of j's channel does to the entries of all.
LEMMA XAddScopedEntries ==
    ASSUME TypeInv, NEW j \in Jobs, status[j] # "pending", XAddScoped(j)
    PROVE  LET c == ChannelOf[j]
               n == Len(scoped[c].log) + 1
           IN  /\ scoped' \in [Channels -> Stream]
               /\ full' = full
               /\ \A d \in Channels \ {c} : scoped'[d] = scoped[d]
               /\ DOMAIN scoped'[c].log = Entries(c) \cup {n}
               /\ n \notin Entries(c)
               /\ \A k \in Entries(c) : k < n /\ scoped'[c].log[k] = scoped[c].log[k]
               /\ scoped'[c].log[n].id = NextId(scoped[c], now)
               /\ scoped'[c].log[n].data = Event(j)
  <1> DEFINE c == ChannelOf[j]
             e == [id |-> NextId(scoped[c], now), data |-> Event(j)]
  <1>1. c \in Channels /\ now \in Nat /\ ServerTypeOK
    BY AsyncQueriesAssumption DEF TypeInv, ServerTypeOK
  <1>2. scoped[c] \in Stream /\ scoped[c].log \in Seq(Entry)
    BY <1>1 DEF ServerTypeOK, Stream
  <1>3. e \in Entry
    BY <1>1, <1>2, EventType, NextIdIsLater DEF Entry
  <1>4. /\ DOMAIN Append(scoped[c].log, e) = Entries(c) \cup {Len(scoped[c].log) + 1}
        /\ Len(scoped[c].log) + 1 \notin Entries(c)
        /\ \A k \in Entries(c) : Append(scoped[c].log, e)[k] = scoped[c].log[k]
        /\ Append(scoped[c].log, e)[Len(scoped[c].log) + 1] = e
    BY <1>2, <1>3, AppendExtends DEF Entries
  <1>5. \A k \in Entries(c) : k < Len(scoped[c].log) + 1
    BY <1>2 DEF Entries
  <1>6. e.id = NextId(scoped[c], now) /\ e.data = Event(j)
    OBVIOUS
  <1>7. scoped'[c].log = Append(scoped[c].log, e)
    BY <1>1, XAddScopedType
  <1> HIDE DEF e
  <1> QED
    BY <1>1, <1>4, <1>5, <1>6, <1>7, XAddScopedType

\* How update_job's first XADD ends: carried out, or caught, or raised.
Leaves(j) ==
    /\ task[j] = "scoped"
    /\ \/ task'[j] \in {"full", "lost"} /\ status'[j] = status[j]
       \/ task'[j] = "scoped" /\ status[j] = "done" /\ status'[j] = "error"

\* A step adds to a channel's stream only through XAddScoped.
LEMMA ScopedChanges ==
    ASSUME TypeInv, [ServerNext]_serverVars
    PROVE  \/ scoped' = scoped
           \/ \E j \in Jobs : Leaves(j) /\ status[j] # "pending" /\ XAddScoped(j)
  BY DEF TypeInv, ServerTypeOK, Reporting, Leaves, ServerNext, TaskSteps, FaultSteps, Tick, Submit, StartTask,
         UserFails, SoftTimeout, WorkerDies, Load, AddScoped, AddFull, XAddFull,
         XAddRaises, serverVars, Moves

LEMMA FullChanges ==
    ASSUME TypeInv, [ServerNext]_serverVars
    PROVE  \/ full' = full
           \/ \E j \in Jobs : task[j] = "full" /\ status[j] # "pending" /\ XAddFull(j)
  BY DEF TypeInv, Reporting, ServerNext, TaskSteps, FaultSteps, Tick, Submit, StartTask,
         UserFails, SoftTimeout, WorkerDies, Load, AddScoped, AddFull, XAddScoped,
         XAddRaises, serverVars, Moves

\* Streams are append-only: an entry that was ever added stays in the log.
LEMMA ScopedGrows ==
    ASSUME TypeInv, [ServerNext]_serverVars, NEW c \in Channels, NEW k \in Entries(c)
    PROVE  k \in DOMAIN scoped'[c].log /\ scoped'[c].log[k] = scoped[c].log[k]
  <1>1. CASE scoped' = scoped
    BY <1>1 DEF Entries
  <1>2. ASSUME NEW j \in Jobs, status[j] # "pending", XAddScoped(j)
        PROVE  k \in DOMAIN scoped'[c].log /\ scoped'[c].log[k] = scoped[c].log[k]
    <2>1. CASE c = ChannelOf[j]
      BY <1>2, <2>1, XAddScopedEntries
    <2>2. CASE c # ChannelOf[j]
      BY <1>2, <2>2, XAddScopedEntries DEF Entries
    <2> QED
      BY <2>1, <2>2
  <1> QED
    BY <1>1, <1>2, ScopedChanges

LEMMA NowGrows ==
    ASSUME TypeInv, [ServerNext]_serverVars
    PROVE  now \in Nat /\ now' \in Nat /\ now <= now'
  <1>1. now \in Nat
    BY AsyncQueriesAssumption DEF TypeInv, ServerTypeOK
  <1> QED
    BY <1>1 DEF ServerNext, TaskSteps, FaultSteps, Tick, Submit, StartTask,
         UserFails, SoftTimeout, WorkerDies, Load, AddScoped, AddFull, XAddRaises, serverVars

LEMMA PastInvStep ==
    ASSUME TypeInv, PastInv, [ServerNext]_serverVars
    PROVE  PastInv'
  <1> SUFFICES ASSUME NEW c \in Channels, NEW k \in DOMAIN scoped'[c].log
               PROVE  scoped'[c].log[k].id.ms <= now'
    BY DEF PastInv, Entries
  <1>1. ServerTypeOK /\ now \in Nat /\ now' \in Nat /\ now <= now'
    BY NowGrows DEF TypeInv
  <1>2. CASE k \in Entries(c)
    <2>1. scoped[c].log[k].id.ms \in Nat
      BY <1>2, EntryType DEF Entry, StreamId
    <2> QED
      BY <1>1, <1>2, <2>1, ScopedGrows DEF PastInv
  <1>3. CASE k \notin Entries(c)
    <2>1. PICK j \in Jobs : status[j] # "pending" /\ XAddScoped(j)
      BY <1>3, ScopedChanges DEF Entries
    <2>2. c = ChannelOf[j] /\ scoped'[c].log[k].id = NextId(scoped[c], now)
      <3>1. c = ChannelOf[j]
        BY <1>3, <2>1, XAddScopedEntries DEF Entries
      <3>2. k = Len(scoped[c].log) + 1
        BY <1>3, <2>1, <3>1, XAddScopedEntries
      <3> QED
        BY <2>1, <3>1, <3>2, XAddScopedEntries
    <2>3. scoped[c] \in Stream
      BY <1>1 DEF ServerTypeOK
    <2>4. LastIdOf(scoped[c]).ms <= now
      <3>1. CASE scoped[c].log = <<>>
        BY <1>1, <3>1 DEF LastIdOf, NoId
      <3>2. CASE scoped[c].log # <<>>
        <4>1. Len(scoped[c].log) \in Entries(c)
          BY <2>3, <3>2 DEF Stream, Entries
        <4> QED
          BY <3>2, <4>1 DEF LastIdOf, PastInv
      <3> QED
        BY <3>1, <3>2
    <2>5. NextId(scoped[c], now).ms = now
      BY <1>1, <2>3, <2>4, NextIdIsLater
    <2> QED
      BY <1>1, <2>2, <2>5
  <1> QED
    BY <1>2, <1>3

LEMMA WrittenInvStep ==
    ASSUME TypeInv, WrittenInv, [ServerNext]_serverVars
    PROVE  WrittenInv'
  <1> SUFFICES ASSUME NEW j \in Jobs, task'[j] = "full"
               PROVE  \E k \in DOMAIN scoped'[ChannelOf[j]].log :
                          scoped'[ChannelOf[j]].log[k].data = Event(j)'
    BY DEF WrittenInv, Entries
  <1> DEFINE c == ChannelOf[j]
  <1>1. c \in Channels
    BY AsyncQueriesAssumption
  <1>2. CASE task[j] = "full" /\ status'[j] = status[j]
    <2>1. PICK k \in Entries(c) : scoped[c].log[k].data = Event(j)
      BY <1>2 DEF WrittenInv
    <2> QED
      BY <1>1, <1>2, <2>1, ScopedGrows DEF Event
  <1>3. CASE AddScoped(j)
    <2>1. status[j] # "pending" /\ status' = status /\ XAddScoped(j)
      BY <1>3 DEF AddScoped, TypeInv, Reporting, Moves
    <2>2. /\ Len(scoped[c].log) + 1 \in DOMAIN scoped'[c].log
          /\ scoped'[c].log[Len(scoped[c].log) + 1].data = Event(j)
      BY <2>1, XAddScopedEntries
    <2> QED
      BY <2>1, <2>2 DEF Event
  <1>4. (task[j] = "full" /\ status'[j] = status[j]) \/ AddScoped(j)
    BY DEF TypeInv, ServerTypeOK, Phases, ServerNext, TaskSteps, FaultSteps, Tick, Submit,
           StartTask, UserFails, SoftTimeout, WorkerDies, Load, AddScoped, AddFull,
           XAddRaises, serverVars, Moves
  <1> QED
    BY <1>2, <1>3, <1>4

\* An entry of the global stream has one like it, of no later millisecond, in its channel's.
LEMMA FollowsStep ==
    ASSUME FollowInv, [ServerNext]_serverVars
    PROVE  FirehoseFollows'
  <1> SUFFICES ASSUME NEW i \in DOMAIN full'.log
               PROVE  LET c == ChannelOf[full'.log[i].data.job]
                      IN  \E k \in DOMAIN scoped'[c].log :
                              /\ scoped'[c].log[k].data = full'.log[i].data
                              /\ scoped'[c].log[k].id.ms <= full'.log[i].id.ms
    BY DEF FirehoseFollows
  <1>0. TypeInv /\ ServerTypeOK /\ now \in Nat
    BY NowGrows DEF FollowInv, TypeInv
  <1>1. full.log \in Seq(Entry)
    BY <1>0 DEF ServerTypeOK, Stream
  <1>2. CASE i \in DOMAIN full.log /\ full'.log[i] = full.log[i]
    <2> DEFINE c == ChannelOf[full.log[i].data.job]
    <2>0. full.log[i] \in Entry
      BY <1>1, <1>2
    <2>1. full.log[i].data.job \in Jobs /\ c \in Channels
      BY <2>0, AsyncQueriesAssumption DEF Entry, Data
    <2>2. PICK k \in Entries(c) : /\ scoped[c].log[k].data = full.log[i].data
                                  /\ scoped[c].log[k].id.ms <= full.log[i].id.ms
      BY <1>2 DEF FollowInv, FirehoseFollows, Entries
    <2> QED
      BY <1>0, <1>2, <2>1, <2>2, ScopedGrows
  <1>3. ASSUME NEW j \in Jobs, task[j] = "full", status[j] # "pending", XAddFull(j),
               ~ (i \in DOMAIN full.log /\ full'.log[i] = full.log[i])
        PROVE  LET c == ChannelOf[full'.log[i].data.job]
               IN  \E k \in DOMAIN scoped'[c].log :
                       /\ scoped'[c].log[k].data = full'.log[i].data
                       /\ scoped'[c].log[k].id.ms <= full'.log[i].id.ms
    <2> DEFINE e == [id |-> NextId(full, now), data |-> Event(j)]
               c == ChannelOf[j]
    <2>1. full'.log = Append(full.log, e) /\ scoped' = scoped
      BY <1>0, <1>3, XAddFullType
    <2>2. e \in Entry /\ e.id.ms \in Nat /\ now <= e.id.ms
      <3>1. full \in Stream
        BY <1>0 DEF ServerTypeOK
      <3>2. NextId(full, now) \in StreamId /\ now <= NextId(full, now).ms
        BY <1>0, <3>1, NextIdIsLater DEF StreamId
      <3> QED
        BY <1>0, <1>3, <3>2, EventType DEF Entry, StreamId
    <2>3. full'.log[i] = e
      BY <1>1, <1>3, <2>1, <2>2, AppendExtends
    <2>4. PICK k \in Entries(c) : scoped[c].log[k].data = Event(j)
      BY <1>3 DEF FollowInv, WrittenInv
    <2>5. c \in Channels /\ full'.log[i].data.job = j
      BY <2>3, AsyncQueriesAssumption DEF Event
    <2>6. scoped[c].log[k].id.ms \in Nat /\ scoped[c].log[k].id.ms <= now
      BY <1>0, <2>5, EntryType DEF FollowInv, PastInv, Entry, StreamId
    <2>7. scoped[c].log[k].id.ms <= e.id.ms
      BY <1>0, <2>2, <2>6
    <2>8. full'.log[i].data = Event(j) /\ full'.log[i].id = e.id
      BY <2>3
    <2>9. k \in DOMAIN scoped'[c].log /\ scoped'[c].log[k] = scoped[c].log[k]
      BY <2>1, <2>4 DEF Entries
    <2> HIDE DEF e
    <2> QED
      BY <2>4, <2>5, <2>7, <2>8, <2>9
  <1> QED
    BY <1>0, <1>2, <1>3, FullChanges

LEMMA FollowInvInit == ServerInit => FollowInv
  <1> SUFFICES ASSUME ServerInit PROVE FollowInv
    OBVIOUS
  <1>1. full.log = <<>> /\ \A c \in Channels : scoped[c].log = <<>>
    BY DEF ServerInit, EmptyStream
  <1>2. \A j \in Jobs : task[j] # "full"
    BY DEF ServerInit
  <1> QED
    BY <1>1, <1>2, TypeInvInit DEF FollowInv, PastInv, WrittenInv, FirehoseFollows, Entries

(***************************************************************************)
(* Whatever fails, and however many jobs, channels and workers there are:  *)
(* an event that the WebSocket server reads from the global stream is in   *)
(* the stream of its channel already, with an id of no later millisecond.  *)
(***************************************************************************)
THEOREM FirehoseAlwaysFollows == ServerSpec => []FirehoseFollows
  <1>1. FollowInv /\ [ServerNext]_serverVars => FollowInv'
    BY TypeInvStep, PastInvStep, WrittenInvStep, FollowsStep DEF FollowInv
  <1>2. FollowInv => FirehoseFollows
    BY DEF FollowInv
  <1> QED
    BY <1>1, <1>2, FollowInvInit, PTL DEF ServerSpec

-----------------------------------------------------------------------------
(***************************************************************************)
(* ERROR is the last word on a job.  Inductive with it: what a channel's   *)
(* stream may hold on a job, given where the job's task is.                *)
(***************************************************************************)
NoEntries(j) ==
    \A c \in Channels : \A k \in Entries(c) : scoped[c].log[k].data.job # j

OnlyDone(j) ==
    \A c \in Channels : \A k \in Entries(c) :
        scoped[c].log[k].data.job = j => scoped[c].log[k].data.status = "done"

VerdictInv ==
    \A j \in Jobs :
        /\ task[j] \in {"unsent", "queued", "running"} => NoEntries(j)
        /\ task[j] = "scoped" /\ status[j] = "done" => NoEntries(j)
        /\ task[j] = "scoped" /\ status[j] = "error" => OnlyDone(j)
        /\ task[j] = "full" /\ status[j] = "done" => OnlyDone(j)

ErrorInv == TypeInv /\ VerdictInv /\ ErrorIsLast

LEMMA ErrorInvInit == ServerInit => ErrorInv
  <1> SUFFICES ASSUME ServerInit PROVE ErrorInv
    OBVIOUS
  <1>1. \A c \in Channels : scoped[c].log = <<>>
    BY DEF ServerInit, EmptyStream
  <1> QED
    BY <1>1, TypeInvInit DEF ErrorInv, VerdictInv, NoEntries, OnlyDone, ErrorIsLast, Entries

\* Every entry is an old one, or the new one of the job that reports.
LEMMA NewEntry ==
    ASSUME TypeInv, [ServerNext]_serverVars,
           NEW c \in Channels, NEW k \in DOMAIN scoped'[c].log
    PROVE  \/ k \in Entries(c) /\ scoped'[c].log[k] = scoped[c].log[k]
           \/ \E j \in Jobs : /\ Leaves(j) /\ status[j] \in {"done", "error"}
                              /\ c = ChannelOf[j]
                              /\ k \in Nat /\ DOMAIN scoped'[c].log = Entries(c) \cup {k}
                              /\ scoped'[c].log[k].data = [job |-> j, status |-> status[j]]
  <1>1. CASE k \in Entries(c)
    BY <1>1, ScopedGrows
  <1>2. CASE k \notin Entries(c)
    <2>1. PICK j \in Jobs : Leaves(j) /\ status[j] # "pending" /\ XAddScoped(j)
      BY <1>2, ScopedChanges DEF Entries
    <2>2. c = ChannelOf[j]
      BY <1>2, <2>1, XAddScopedEntries DEF Entries
    <2>3. k = Len(scoped[c].log) + 1
      BY <1>2, <2>1, <2>2, XAddScopedEntries
    <2>4. /\ scoped'[c].log[k].data = Event(j)
          /\ DOMAIN scoped'[c].log = Entries(c) \cup {k}
      BY <2>1, <2>2, <2>3, XAddScopedEntries
    <2>6. k \in Nat
      BY <2>3 DEF TypeInv, ServerTypeOK, Stream
    <2>5. status[j] \in {"done", "error"}
      BY <2>1 DEF TypeInv, ServerTypeOK, Statuses
    <2> QED
      BY <2>1, <2>2, <2>4, <2>5, <2>6 DEF Event
  <1> QED
    BY <1>1, <1>2

LEMMA ErrorIsLastStep ==
    ASSUME ErrorInv, [ServerNext]_serverVars
    PROVE  ErrorIsLast'
  <1> SUFFICES ASSUME NEW c \in Channels,
                      NEW i \in DOMAIN scoped'[c].log, NEW k \in DOMAIN scoped'[c].log,
                      i < k,
                      scoped'[c].log[i].data.job = scoped'[c].log[k].data.job
               PROVE  /\ scoped'[c].log[i].data.status = "done"
                      /\ scoped'[c].log[k].data.status = "error"
    BY DEF ErrorIsLast
  <1>0. TypeInv
    BY DEF ErrorInv
  <1>1. CASE k \in Entries(c) /\ scoped'[c].log[k] = scoped[c].log[k]
    <2>1. i \in Entries(c) /\ scoped'[c].log[i] = scoped[c].log[i]
      <3>1. scoped[c].log \in Seq(Entry) /\ i \in Nat
        <4>1. scoped'[c].log \in Seq(Entry)
          BY <1>0, TypeInvStep DEF TypeInv, ServerTypeOK, Stream
        <4>2. scoped[c].log \in Seq(Entry)
          BY <1>0 DEF TypeInv, ServerTypeOK, Stream
        <4> QED
          BY <4>1, <4>2
      <3>2. i \in Entries(c)
        <4>1. i \in 1 .. Len(scoped'[c].log) /\ k \in 1 .. Len(scoped[c].log)
          <5>1. scoped'[c].log \in Seq(Entry)
            BY <1>0, TypeInvStep DEF TypeInv, ServerTypeOK, Stream
          <5> QED
            BY <1>1, <3>1, <5>1 DEF Entries
        <4> QED
          BY <3>1, <4>1 DEF Entries
      <3> QED
        BY <1>0, <3>2, ScopedGrows
    <2> QED
      BY <1>1, <2>1 DEF ErrorInv, ErrorIsLast, Entries
  <1>2. ASSUME NEW j \in Jobs, Leaves(j), status[j] \in {"done", "error"},
               k \in Nat, DOMAIN scoped'[c].log = Entries(c) \cup {k},
               scoped'[c].log[k].data = [job |-> j, status |-> status[j]]
        PROVE  /\ scoped'[c].log[i].data.status = "done"
               /\ scoped'[c].log[k].data.status = "error"
    <2>1. i \in Entries(c) /\ scoped'[c].log[i] = scoped[c].log[i]
      BY <1>0, <1>2, ScopedGrows
    <2>2. scoped[c].log[i].data.job = j
      BY <1>2, <2>1
    <2>3. status[j] # "done"
      BY <1>2, <2>1, <2>2 DEF ErrorInv, VerdictInv, NoEntries, Leaves
    <2>4. scoped[c].log[i].data.status = "done"
      BY <1>2, <2>1, <2>2, <2>3 DEF ErrorInv, VerdictInv, OnlyDone, Leaves
    <2> QED
      BY <1>2, <2>1, <2>3, <2>4
  <1> QED
    BY <1>0, <1>1, <1>2, NewEntry

LEMMA VerdictInvStep ==
    ASSUME ErrorInv, [ServerNext]_serverVars
    PROVE  VerdictInv'
  <1> SUFFICES ASSUME NEW j \in Jobs
               PROVE  /\ task'[j] \in {"unsent", "queued", "running"} => NoEntries(j)'
                      /\ task'[j] = "scoped" /\ status'[j] = "done" => NoEntries(j)'
                      /\ task'[j] = "scoped" /\ status'[j] = "error" => OnlyDone(j)'
                      /\ task'[j] = "full" /\ status'[j] = "done" => OnlyDone(j)'
    BY DEF VerdictInv
  <1>0. TypeInv /\ VerdictInv
    BY DEF ErrorInv
  <1>1. ASSUME NoEntries(j), ~ Leaves(j) PROVE NoEntries(j)'
    <2> SUFFICES ASSUME NEW c \in Channels, NEW k \in DOMAIN scoped'[c].log
                 PROVE  scoped'[c].log[k].data.job # j
      BY DEF NoEntries, Entries
    <2>1. CASE k \in Entries(c) /\ scoped'[c].log[k] = scoped[c].log[k]
      BY <1>1, <2>1 DEF NoEntries
    <2>2. ASSUME NEW h \in Jobs, Leaves(h),
                 scoped'[c].log[k].data = [job |-> h, status |-> status[h]]
          PROVE  scoped'[c].log[k].data.job # j
      <3>1. h # j
        BY <1>1, <2>2
      <3> QED
        BY <2>2, <3>1
    <2> QED
      BY <1>0, <2>1, <2>2, NewEntry
  <1>2. ASSUME OnlyDone(j), ~ Leaves(j) \/ status[j] = "done" PROVE OnlyDone(j)'
    <2> SUFFICES ASSUME NEW c \in Channels, NEW k \in DOMAIN scoped'[c].log,
                        scoped'[c].log[k].data.job = j
                 PROVE  scoped'[c].log[k].data.status = "done"
      BY DEF OnlyDone, Entries
    <2>1. CASE k \in Entries(c) /\ scoped'[c].log[k] = scoped[c].log[k]
      BY <1>2, <2>1 DEF OnlyDone
    <2>2. ASSUME NEW h \in Jobs, Leaves(h),
                 scoped'[c].log[k].data = [job |-> h, status |-> status[h]]
          PROVE  scoped'[c].log[k].data.status = "done"
      <3>1. h = j
        BY <2>2
      <3> QED
        BY <1>2, <2>2, <3>1
    <2> QED
      BY <1>0, <2>1, <2>2, NewEntry
  <1>3. NoEntries(j) => OnlyDone(j)
    BY DEF NoEntries, OnlyDone
  <1>4. \/ task'[j] = task[j] /\ status'[j] = status[j]
        \/ /\ task[j] \in {"unsent", "queued", "running"}
           /\ task'[j] \in {"queued", "running", "scoped", "lost"}
        \/ Leaves(j)
        \/ /\ task[j] = "full"
           /\ \/ task'[j] \in {"ended", "lost"}
              \/ task'[j] = "scoped" /\ status[j] = "done" /\ status'[j] = "error"
    BY <1>0 DEF TypeInv, ServerTypeOK, Phases, Leaves, ServerNext, TaskSteps, FaultSteps,
           Tick, Submit, StartTask, UserFails, SoftTimeout, WorkerDies, InTask, Load,
           AddScoped, AddFull, XAddRaises, serverVars, Moves
  <1>5. CASE task'[j] = task[j] /\ status'[j] = status[j]
    <2>1. ~ Leaves(j)
      BY <1>5 DEF Leaves
    <2> QED
      BY <1>0, <1>1, <1>2, <1>5, <2>1 DEF VerdictInv
  <1>6. CASE /\ task[j] \in {"unsent", "queued", "running"}
             /\ task'[j] \in {"queued", "running", "scoped", "lost"}
    <2>1. ~ Leaves(j) /\ NoEntries(j)
      BY <1>0, <1>6 DEF Leaves, VerdictInv
    <2> QED
      BY <1>1, <1>2, <1>3, <1>6, <2>1
  <1>7. CASE Leaves(j)
    <2>1. status[j] = "done" => OnlyDone(j)'
      BY <1>0, <1>2, <1>3, <1>7 DEF Leaves, VerdictInv
    <2> QED
      BY <1>7, <2>1 DEF Leaves
  <1>8. CASE /\ task[j] = "full"
             /\ \/ task'[j] \in {"ended", "lost"}
                \/ task'[j] = "scoped" /\ status[j] = "done" /\ status'[j] = "error"
    <2>1. ~ Leaves(j)
      BY <1>8 DEF Leaves
    <2> QED
      BY <1>0, <1>2, <1>8, <2>1 DEF VerdictInv
  <1> QED
    BY <1>4, <1>5, <1>6, <1>7, <1>8

(***************************************************************************)
(* Nothing follows an ERROR, and DONE is followed by one ERROR at most,    *)
(* also when update_job is interrupted between its two XADDs.              *)
(***************************************************************************)
THEOREM ErrorIsAlwaysLast == ServerSpec => []ErrorIsLast
  <1>1. ErrorInv /\ [ServerNext]_serverVars => ErrorInv'
    BY TypeInvStep, VerdictInvStep, ErrorIsLastStep DEF ErrorInv
  <1>2. ErrorInv => ErrorIsLast
    BY DEF ErrorInv
  <1> QED
    BY <1>1, <1>2, ErrorInvInit, PTL DEF ServerSpec

-----------------------------------------------------------------------------
(***************************************************************************)
(* What the clients of the streams rely on: the ids of a stream increase,  *)
(* and never reach a last digit that increment_id gets wrong; a stream     *)
(* tells of no job that was not submitted.                                 *)
(***************************************************************************)
Increases(s) ==
    \A i, k \in DOMAIN s.log : i < k => Before(s.log[i].id, s.log[k].id)

Numbered(s) ==
    \A i \in DOMAIN s.log : Before(NoId, s.log[i].id) /\ s.log[i].id.seq < PerMs

Ordered(s) == Increases(s) /\ Numbered(s)

OrderInv == (\A c \in Channels : Ordered(scoped[c])) /\ Ordered(full)

OfSubmitted(s) == \A i \in DOMAIN s.log : task[s.log[i].data.job] # "unsent"

SubmittedInv == (\A c \in Channels : OfSubmitted(scoped[c])) /\ OfSubmitted(full)

\* The id that XADD gives is later than every id of the stream.
LEMMA NextIdIsLatest ==
    ASSUME NEW s \in Stream, Increases(s), NEW t \in Nat \ {0}
    PROVE  /\ \A i \in DOMAIN s.log : Before(s.log[i].id, NextId(s, t))
           /\ Before(NoId, NextId(s, t))
  <1>1. s.log \in Seq(Entry) /\ t \in Nat
    BY DEF Stream
  <1>2. Before(LastIdOf(s), NextId(s, t)) /\ NextId(s, t) \in StreamId /\ NextId(s, t).ms >= t
    BY <1>1, NextIdIsLater
  <1>3. ASSUME NEW i \in DOMAIN s.log PROVE Before(s.log[i].id, NextId(s, t))
    <2>1. Len(s.log) \in DOMAIN s.log /\ i <= Len(s.log) /\ i \in Nat
      BY <1>1, <1>3
    <2>2. s.log # <<>>
      BY <1>1, <1>3
    <2>3. LastIdOf(s) = s.log[Len(s.log)].id
      BY <2>2 DEF LastIdOf
    <2>4. s.log[i] \in Entry /\ s.log[Len(s.log)] \in Entry
      BY <1>1, <1>3, <2>1
    <2>5. s.log[i].id \in StreamId /\ s.log[Len(s.log)].id \in StreamId
      BY <2>4 DEF Entry
    <2>6. CASE i = Len(s.log)
      BY <1>2, <2>3, <2>6
    <2>7. CASE i # Len(s.log)
      <3>1. Before(s.log[i].id, s.log[Len(s.log)].id)
        BY <1>1, <2>1, <2>7 DEF Increases
      <3> QED
        BY <1>2, <2>3, <2>5, <3>1, BeforeIsStrictOrder
    <2> QED
      BY <2>6, <2>7
  <1>4. Before(NoId, NextId(s, t))
    BY <1>1, <1>2 DEF NoId, Before, StreamId
  <1> QED
    BY <1>3, <1>4

LEMMA XAddKeepsOrder ==
    ASSUME NEW s \in Stream, Ordered(s), NEW t \in Nat \ {0}, NEW d \in Data,
           NEW limit \in Nat, NEW r \in XAdd(s, d, t, limit), NextId(s, t).seq < PerMs
    PROVE  Ordered(r)
  <1> DEFINE e == [id |-> NextId(s, t), data |-> d]
             n == Len(s.log) + 1
  <1>1. s.log \in Seq(Entry) /\ t \in Nat
    BY DEF Stream
  <1>2. r.log = Append(s.log, e)
    BY <1>1, XAddAppends
  <1>3. e \in Entry
    BY <1>1, NextIdIsLater DEF Entry
  <1>4. /\ DOMAIN r.log = DOMAIN s.log \cup {n}
        /\ \A i \in DOMAIN s.log : r.log[i] = s.log[i] /\ i < n
        /\ r.log[n].id = NextId(s, t)
    <2>1. \A i \in DOMAIN s.log : i < n
      BY <1>1
    <2> QED
      BY <1>1, <1>2, <1>3, <2>1, AppendExtends
  <1>5. /\ \A i \in DOMAIN s.log : Before(s.log[i].id, NextId(s, t))
        /\ Before(NoId, NextId(s, t))
    BY NextIdIsLatest DEF Ordered
  <1>6. n \in Nat /\ \A i \in DOMAIN s.log : i \in Nat
    BY <1>1
  <1> HIDE DEF e, n
  <1>7. Increases(r)
    BY <1>4, <1>5, <1>6 DEF Ordered, Increases
  <1>8. Numbered(r)
    BY <1>4, <1>5 DEF Ordered, Numbered
  <1> QED
    BY <1>7, <1>8 DEF Ordered

LEMMA OrderInvStep ==
    ASSUME TypeInv, OrderInv, [ServerNext]_serverVars
    PROVE  OrderInv'
  <1>1. /\ now \in Nat \ {0} /\ now \in Nat
        /\ StreamLimit \in Nat /\ FirehoseLimit \in Nat
        /\ scoped \in [Channels -> Stream] /\ full \in Stream
    BY AsyncQueriesAssumption DEF TypeInv, ServerTypeOK
  <1>2. \A c \in Channels : Ordered(scoped'[c])
    <2>1. CASE scoped' = scoped
      BY <2>1 DEF OrderInv
    <2>2. ASSUME NEW j \in Jobs, status[j] # "pending", XAddScoped(j)
          PROVE  \A c \in Channels : Ordered(scoped'[c])
      <3> DEFINE d == ChannelOf[j]
      <3>1. d \in Channels /\ Event(j) \in Data
        BY <2>2, EventType, AsyncQueriesAssumption DEF TypeInv
      <3>2. PICK s \in XAdd(scoped[d], Event(j), now, StreamLimit) :
                scoped' = [scoped EXCEPT ![d] = s]
        BY <2>2 DEF XAddScoped
      <3>3. NextId(scoped[d], now).seq < PerMs
        BY <2>2 DEF XAddScoped
      <3>4. scoped[d] \in Stream /\ Ordered(scoped[d])
        BY <1>1, <3>1 DEF OrderInv
      <3>5. Ordered(s)
        BY <1>1, <3>1, <3>3, <3>4, XAddKeepsOrder
      <3> QED
        BY <1>1, <3>1, <3>2, <3>5 DEF OrderInv
    <2> QED
      BY <2>1, <2>2, ScopedChanges
  <1>3. Ordered(full')
    <2>1. CASE full' = full
      BY <2>1 DEF OrderInv
    <2>2. ASSUME NEW j \in Jobs, status[j] # "pending", XAddFull(j)
          PROVE  Ordered(full')
      <3>1. Event(j) \in Data
        BY <2>2, EventType DEF TypeInv
      <3>2. full' \in XAdd(full, Event(j), now, FirehoseLimit) /\ NextId(full, now).seq < PerMs
        BY <2>2 DEF XAddFull
      <3> QED
        BY <1>1, <3>1, <3>2, XAddKeepsOrder DEF OrderInv
    <2> QED
      BY <2>1, <2>2, FullChanges
  <1> QED
    BY <1>2, <1>3 DEF OrderInv

\* Nobody takes a submission back.
LEMMA SubmittedStays ==
    ASSUME TypeInv, [ServerNext]_serverVars, NEW j \in Jobs, task[j] # "unsent"
    PROVE  task'[j] # "unsent"
  BY DEF TypeInv, ServerTypeOK, ServerNext, TaskSteps, FaultSteps, Tick, Submit,
         StartTask, UserFails, SoftTimeout, WorkerDies, Load, AddScoped, AddFull,
         XAddRaises, serverVars, Moves

LEMMA SubmittedInvStep ==
    ASSUME TypeInv, SubmittedInv, FirehoseFollows', [ServerNext]_serverVars
    PROVE  SubmittedInv'
  <1>1. ASSUME NEW c \in Channels, NEW k \in DOMAIN scoped'[c].log
        PROVE  task'[scoped'[c].log[k].data.job] # "unsent"
    <2>1. CASE k \in Entries(c) /\ scoped'[c].log[k] = scoped[c].log[k]
      <3>1. scoped[c].log[k].data.job \in Jobs
        BY <2>1, EntryType DEF Entry, Data
      <3>2. task[scoped[c].log[k].data.job] # "unsent"
        BY <2>1 DEF SubmittedInv, OfSubmitted, Entries
      <3> QED
        BY <2>1, <3>1, <3>2, SubmittedStays
    <2>2. ASSUME NEW j \in Jobs, Leaves(j),
                 scoped'[c].log[k].data = [job |-> j, status |-> status[j]]
          PROVE  task'[scoped'[c].log[k].data.job] # "unsent"
      <3>1. scoped'[c].log[k].data.job = j
        BY <2>2
      <3>2. task[j] # "unsent"
        BY <2>2 DEF Leaves
      <3> QED
        BY <3>1, <3>2, SubmittedStays
    <2> QED
      BY <2>1, <2>2, NewEntry
  <1>2. ASSUME NEW i \in DOMAIN full'.log
        PROVE  task'[full'.log[i].data.job] # "unsent"
    <2> DEFINE c == ChannelOf[full'.log[i].data.job]
    <2>1. PICK k \in DOMAIN scoped'[c].log : scoped'[c].log[k].data = full'.log[i].data
      BY DEF FirehoseFollows
    <2>2. full'.log \in Seq(Entry)
      BY TypeInvStep DEF TypeInv, ServerTypeOK, Stream
    <2>3. full'.log[i] \in Entry
      BY <2>2
    <2>4. c \in Channels
      BY <2>3, AsyncQueriesAssumption DEF Entry, Data
    <2>5. scoped'[c].log[k].data.job = full'.log[i].data.job
      BY <2>1
    <2> QED
      BY <1>1, <2>4, <2>5
  <1> QED
    BY <1>1, <1>2 DEF SubmittedInv, OfSubmitted

(***************************************************************************)
(* All of it, for the proofs about the clients.                            *)
(***************************************************************************)
ServerInv == FollowInv /\ VerdictInv /\ ErrorIsLast /\ OrderInv /\ SubmittedInv

LEMMA ServerInvInit == ServerInit => ServerInv
  <1> SUFFICES ASSUME ServerInit PROVE ServerInv
    OBVIOUS
  <1>1. full.log = <<>> /\ \A c \in Channels : scoped[c].log = <<>>
    BY DEF ServerInit, EmptyStream
  <1>2. OrderInv /\ SubmittedInv
    BY <1>1 DEF OrderInv, Ordered, Increases, Numbered, SubmittedInv, OfSubmitted
  <1> QED
    BY <1>2, FollowInvInit, ErrorInvInit DEF ServerInv, ErrorInv

LEMMA ServerInvStep == ServerInv /\ [ServerNext]_serverVars => ServerInv'
  <1> SUFFICES ASSUME ServerInv, [ServerNext]_serverVars PROVE ServerInv'
    OBVIOUS
  <1>1. TypeInv /\ ErrorInv
    BY DEF ServerInv, FollowInv, ErrorInv
  <1>2. FollowInv'
    BY <1>1, TypeInvStep, PastInvStep, WrittenInvStep, FollowsStep DEF ServerInv, FollowInv
  <1> QED
    BY <1>1, <1>2, VerdictInvStep, ErrorIsLastStep, OrderInvStep, SubmittedInvStep
    DEF ServerInv, FollowInv

=============================================================================
