--------------------------- MODULE AsyncClientProofs ---------------------------
(***************************************************************************)
(* Proofs about the browser side of global async queries, over polling and *)
(* over a WebSocket, for any number of jobs, channels, events, retries,    *)
(* breaks and reloads, whatever faults happen.                             *)
(***************************************************************************)
EXTENDS AsyncPolling, AsyncWebsocket, AsyncQueriesProofs, SequenceTheorems,
        FiniteSetTheorems

-----------------------------------------------------------------------------
(***************************************************************************)
(* The bag of timers: setting one adds its event, firing one takes away    *)
(* one copy of its event and nothing else.                                 *)
(***************************************************************************)
LEMMA AddOne ==
    ASSUME NEW B, IsABag(B), NEW e
    PROVE  /\ IsABag(B (+) SetToBag({e}))
           /\ DOMAIN (B (+) SetToBag({e})) = DOMAIN B \cup {e}
  BY DEF IsABag, SetToBag, (+)

LEMMA RemoveOne ==
    ASSUME NEW B, IsABag(B), NEW e
    PROVE  /\ IsABag(B (-) SetToBag({e}))
           /\ DOMAIN (B (-) SetToBag({e})) \subseteq DOMAIN B
           /\ \A x \in DOMAIN B : x # e => x \in DOMAIN (B (-) SetToBag({e}))
  <1> DEFINE R == [x \in DOMAIN B |-> IF x \in {e} THEN B[x] - 1 ELSE B[x]]
             P == {x \in DOMAIN B : R[x] > 0}
  <1>1. B (-) SetToBag({e}) = [x \in P |-> R[x]]
    BY DEF SetToBag, (-)
  <1>2. \A x \in DOMAIN B : B[x] \in Nat /\ B[x] > 0
    BY DEF IsABag
  <1>3. \A x \in P : R[x] \in Nat /\ R[x] > 0
    BY <1>2
  <1>4. \A x \in DOMAIN B : x # e => x \in P
    BY <1>2
  <1>5. P \subseteq DOMAIN B
    OBVIOUS
  <1> HIDE DEF R, P
  <1>6. DOMAIN [x \in P |-> R[x]] = P
    OBVIOUS
  <1>7. IsABag([x \in P |-> R[x]])
    BY <1>3 DEF IsABag
  <1> QED
    BY <1>1, <1>4, <1>5, <1>6, <1>7

-----------------------------------------------------------------------------
(***************************************************************************)
(* The invariant that both transports keep.  The page waits only for jobs  *)
(* that were submitted, and an event that it has on one of its jobs says   *)
(* what the stream of the session says.                                    *)
(***************************************************************************)
Asked == \A j \in Mine : promise[j] = "waiting" => task[j] # "unsent"

Announced(e) == e.data.job \in Mine => e.data.status \in Reported(e.data.job)

Truthful ==
    /\ \A k \in DOMAIN inbox : Announced(inbox[k])
    /\ \A e \in DOMAIN timers : Announced(e)
    /\ \A j \in fetching : "done" \in Reported(j) /\ promise[j] # "none"

PageInv == ClientTypeOK /\ ListensWhileWaiting /\ Asked /\ Truthful

(***************************************************************************)
(* Polling.  Whatever the page holds was read from its channel's stream,   *)
(* and an event that it has not accounted for yet is later than everything *)
(* it could ask for or fall back to.                                       *)
(***************************************************************************)
Held(e) == \E i \in DOMAIN Channel.log : Channel.log[i] = e

Cursor(id) == id = NoId \/ \E i \in DOMAIN Channel.log : Channel.log[i].id = id

FromChannel ==
    /\ Cursor(lastId) /\ Cursor(poll.last)
    /\ \A k \in DOMAIN inbox : Held(inbox[k])
    /\ \A e \in DOMAIN timers : Held(e)

Ahead(id) ==
    /\ Before(lastId, id)
    /\ poll.at = "sent" => Before(poll.last, id)
    /\ \A k \in DOMAIN inbox : Before(inbox[k].id, id)
    /\ \A e \in DOMAIN timers : Before(e.id, id)

\* A chart may still want to be told of the job.
Wanted(j) == j \in Mine /\ promise[j] \in {"none", "waiting"}

Accounted(e) ==
    \/ \E k \in DOMAIN inbox : inbox[k] = e
    \/ e \in DOMAIN timers
    \/ e.data.job \in fetching
    \/ e.data.job \in gaveUp

Frontier ==
    \A i \in DOMAIN Channel.log :
        \/ i <= Channel.floor
        \/ ~ Wanted(Channel.log[i].data.job)
        \/ Accounted(Channel.log[i])
        \/ Ahead(Channel.log[i].id)

PollType == poll \in [at : {"none", "sent"}, last : StreamId]

BusyIsAlone == inbox # <<>> => poll.at = "none"

PollingInv == ServerInv /\ PageInv /\ PollType /\ BusyIsAlone /\ FromChannel /\ Frontier

(***************************************************************************)
(* WebSocket.  An event that the server is past has been offered to the    *)
(* page, if the page has held its connection since it asked for the job.   *)
(***************************************************************************)
WireTruthful == \A k \in DOMAIN wire : Announced(wire[k])

Position(id) == id = NoId \/ \E i \in DOMAIN full.log : full.log[i].id = id

CursorInv ==
    /\ Position(firehoseId)
    /\ xread.at = "blocked" /\ firehoseId # NoId => xread.from = firehoseId

Retrying ==
    ws.at \in {"connecting", "open", "closed"} => connectRetries <= ConnectMaxRetries

HeldInv ==
    \A j \in Mine : line[j] = "held" =>
        ws.at = "open" /\ firehoseId # NoId /\ task[j] # "unsent"

Offered ==
    \A j \in Mine : line[j] = "held" /\ Wanted(j) /\ PassedOn(j) => JobInHand(j)

WebsocketInv ==
    /\ ServerInv /\ PageInv /\ WsTypeOK /\ Retrying
    /\ WireTruthful /\ CursorInv /\ HeldInv /\ Offered

-----------------------------------------------------------------------------
\* The page of a job is in the job's channel.
LEMMA MineType ==
    ASSUME NEW j \in Mine
    PROVE  j \in Jobs /\ ChannelOf[j] = Session /\ Session \in Channels
  BY ClientAssumption

(***************************************************************************)
(* What handling one event does, in processEvents or when a timer fires.   *)
(***************************************************************************)
LEMMA HandlingTypes ==
    ASSUME ClientTypeOK, NEW e \in Entry, NEW B, IsABag(B), DOMAIN B \subseteq DOMAIN timers,
           Deliver(e, B) \/ Retry(e, B)
    PROVE  /\ promise' \in [Mine -> {"none", "waiting", "resolved", "rejected", "gone"}]
           /\ listeners' \subseteq Mine
           /\ fetching' \subseteq Mine
           /\ retries' \in [Jobs -> 0 .. MaxRetries]
           /\ IsABag(timers')
           /\ DOMAIN B \subseteq DOMAIN timers'
           /\ DOMAIN timers' \subseteq DOMAIN B \cup {e}
           /\ gaveUp' \subseteq Jobs
  <1> DEFINE j == e.data.job
  <1>1. j \in Jobs
    BY DEF Entry, Data
  <1>2. MaxRetries \in Nat
    BY ClientAssumption
  <1>3. CASE Deliver(e, B)
    BY <1>1, <1>2, <1>3 DEF Deliver, Settle, ClientTypeOK
  <1>4. CASE Retry(e, B) /\ retries[j] < MaxRetries
    <2>1. timers' = B (+) SetToBag({e}) /\ retries' = [retries EXCEPT ![j] = @ + 1]
      BY <1>4 DEF Retry
    <2>2. retries[j] + 1 \in 0 .. MaxRetries
      BY <1>1, <1>2, <1>4 DEF ClientTypeOK
    <2>3. retries' \in [Jobs -> 0 .. MaxRetries]
      BY <2>1, <2>2 DEF ClientTypeOK
    <2>4. /\ IsABag(B (+) SetToBag({e}))
          /\ DOMAIN (B (+) SetToBag({e})) = DOMAIN B \cup {e}
      BY AddOne
    <2>5. IsABag(timers') /\ DOMAIN timers' = DOMAIN B \cup {e}
      BY <2>1, <2>4
    <2>6. UNCHANGED <<promise, listeners, fetching, gaveUp>>
      BY <1>4 DEF Retry
    <2> QED
      BY <2>3, <2>5, <2>6 DEF ClientTypeOK
  <1>5. CASE Retry(e, B) /\ ~ (retries[j] < MaxRetries)
    BY <1>1, <1>2, <1>5 DEF Retry, ClientTypeOK
  <1> QED
    BY <1>3, <1>4, <1>5

\* A promise changes only when an ERROR is handled that it waits for, and
\* the page still has the event unless the job needs it no more.
LEMMA HandlingEffects ==
    ASSUME ClientTypeOK, ListensWhileWaiting,
           NEW e \in Entry, NEW B, IsABag(B), Deliver(e, B) \/ Retry(e, B)
    PROVE  /\ \/ promise' = promise
              \/ /\ e.data.job \in Mine /\ e.data.status = "error"
                 /\ promise[e.data.job] = "waiting"
                 /\ promise' = [promise EXCEPT ![e.data.job] = "rejected"]
           /\ ListensWhileWaiting'
           /\ \/ fetching' = fetching
              \/ /\ e.data.job \in listeners /\ e.data.status = "done"
                 /\ fetching' = fetching \cup {e.data.job}
           /\ gaveUp \subseteq gaveUp'
           /\ \/ e.data.job \in Mine /\ promise'[e.data.job] \notin {"none", "waiting"}
              \/ e \in DOMAIN timers'
              \/ e.data.job \in fetching'
              \/ e.data.job \in gaveUp'
  <1> DEFINE j == e.data.job
  <1>1. CASE Deliver(e, B)
    <2>1. j \in Mine /\ promise[j] = "waiting"
      BY <1>1 DEF Deliver, ClientTypeOK, ListensWhileWaiting
    <2>2. CASE e.data.status = "done" /\ UNCHANGED <<promise, listeners>>
                 /\ fetching' = fetching \cup {j}
      BY <1>1, <2>1, <2>2 DEF Deliver, ListensWhileWaiting
    <2>3. CASE e.data.status = "error" /\ Settle(j, "rejected")
                 /\ listeners' = listeners \ {j} /\ UNCHANGED fetching
      <3>1. promise' = [promise EXCEPT ![j] = "rejected"]
        BY <2>1, <2>3 DEF Settle
      <3>2. ListensWhileWaiting'
        BY <2>1, <2>3, <3>1 DEF ListensWhileWaiting, ClientTypeOK
      <3>3. promise'[j] = "rejected"
        BY <2>1, <3>1 DEF ClientTypeOK
      <3> QED
        BY <1>1, <2>1, <2>3, <3>1, <3>2, <3>3 DEF Deliver
    <2> QED
      BY <1>1, <2>2, <2>3 DEF Deliver
  <1>2. CASE Retry(e, B)
    <2>1. UNCHANGED <<promise, listeners, fetching>> /\ gaveUp \subseteq gaveUp'
      BY <1>2 DEF Retry
    <2>2. e \in DOMAIN timers' \/ j \in gaveUp'
      <3>1. CASE retries[j] < MaxRetries
        <4>1. timers' = B (+) SetToBag({e})
          BY <1>2, <3>1 DEF Retry
        <4>2. DOMAIN (B (+) SetToBag({e})) = DOMAIN B \cup {e}
          BY AddOne
        <4> QED
          BY <4>1, <4>2
      <3>2. CASE ~ (retries[j] < MaxRetries)
        BY <1>2, <3>2 DEF Retry
      <3> QED
        BY <3>1, <3>2
    <2> QED
      BY <2>1, <2>2 DEF ListensWhileWaiting
  <1> QED
    BY <1>1, <1>2

-----------------------------------------------------------------------------
(***************************************************************************)
(* The page's invariant, kept by the page and by the server.               *)
(***************************************************************************)
LEMMA ReportedGrows ==
    ASSUME TypeInv, [ServerNext]_serverVars, NEW j \in Mine
    PROVE  Reported(j) \subseteq Reported(j)'
  <1>1. ChannelOf[j] \in Channels
    BY MineType
  <1> QED
    BY <1>1, ScopedGrows DEF Reported, Entries

LEMMA AnnouncedStays ==
    ASSUME TypeInv, [ServerNext]_serverVars, NEW e, Announced(e)
    PROVE  Announced(e)'
  BY ReportedGrows DEF Announced

LEMMA PageInvByServer ==
    ASSUME PageInv, TypeInv, [ServerNext]_serverVars, UNCHANGED pageVars
    PROVE  PageInv'
  <1> USE DEF pageVars
  <1>1. ClientTypeOK' /\ ListensWhileWaiting'
    BY DEF PageInv, ClientTypeOK, ListensWhileWaiting
  <1>2. Asked'
    BY SubmittedStays, MineType DEF PageInv, Asked
  <1>3. \A j \in fetching : j \in Mine
    BY DEF PageInv, ClientTypeOK
  <1>4. Truthful'
    BY <1>3, AnnouncedStays, ReportedGrows DEF PageInv, Truthful
  <1> QED
    BY <1>1, <1>2, <1>4 DEF PageInv

\* Handling an event that says what the stream says.
LEMMA HandlingKeeps ==
    ASSUME PageInv, UNCHANGED serverVars,
           NEW e \in Entry, Announced(e),
           NEW B, IsABag(B), DOMAIN B \subseteq DOMAIN timers, Deliver(e, B) \/ Retry(e, B)
    PROVE  /\ ListensWhileWaiting' /\ Asked'
           /\ \A t \in DOMAIN timers' : Announced(t)'
           /\ \A j \in fetching' : "done" \in Reported(j)' /\ promise'[j] # "none"
           /\ DOMAIN timers' \subseteq Entry
  <1> DEFINE j == e.data.job
  <1>1. ClientTypeOK /\ ListensWhileWaiting /\ Asked /\ Truthful
    BY DEF PageInv
  <1>2. /\ \/ promise' = promise
           \/ j \in Mine /\ promise[j] = "waiting" /\ promise' = [promise EXCEPT ![j] = "rejected"]
        /\ ListensWhileWaiting'
        /\ \/ fetching' = fetching
           \/ j \in listeners /\ e.data.status = "done" /\ fetching' = fetching \cup {j}
    BY <1>1, HandlingEffects
  <1>3. DOMAIN timers' \subseteq DOMAIN timers \cup {e}
    BY <1>1, HandlingTypes
  <1>4. \A x : Announced(x) => Announced(x)'
    BY DEF Announced, Reported, serverVars
  <1>5. \A i \in Mine : Reported(i)' = Reported(i)
    BY DEF Reported, serverVars
  <1>6. promise \in [Mine -> {"none", "waiting", "resolved", "rejected", "gone"}]
        /\ fetching \subseteq Mine /\ listeners \subseteq Mine /\ task' = task
    BY <1>1 DEF ClientTypeOK, serverVars
  <1>7. Asked'
    BY <1>1, <1>2, <1>6 DEF Asked
  <1>8. \A t \in DOMAIN timers' : Announced(t)'
    BY <1>1, <1>3, <1>4 DEF Truthful
  <1>9. ASSUME NEW i \in fetching'
        PROVE  "done" \in Reported(i)' /\ promise'[i] # "none"
    <2>1. CASE i \in fetching
      <3>1. i \in Mine /\ "done" \in Reported(i) /\ promise[i] # "none"
        BY <1>1, <1>6, <2>1 DEF Truthful
      <3>2. promise'[i] # "none"
        BY <1>2, <1>6, <3>1
      <3> QED
        BY <1>5, <3>1, <3>2
    <2>2. CASE i \notin fetching
      <3>1. i = j /\ j \in listeners /\ e.data.status = "done"
        BY <1>2, <1>9, <2>2
      <3>2. j \in Mine /\ promise[j] = "waiting"
        BY <1>1, <1>6, <3>1 DEF ListensWhileWaiting
      <3>3. "done" \in Reported(j)
        BY <3>1, <3>2 DEF Announced
      <3>4. promise'[j] # "none"
        BY <1>2, <1>6, <3>2
      <3> QED
        BY <1>5, <3>1, <3>2, <3>3, <3>4
    <2> QED
      BY <2>1, <2>2
  <1>10. DOMAIN timers' \subseteq Entry
    BY <1>1, <1>3 DEF ClientTypeOK
  <1> QED
    BY <1>2, <1>7, <1>8, <1>9, <1>10

\* The oldest event of the inbox, and the others.
LEMMA InboxSplits ==
    ASSUME ClientTypeOK, inbox # <<>>
    PROVE  /\ Head(inbox) \in Entry
           /\ 1 \in DOMAIN inbox /\ Head(inbox) = inbox[1]
           /\ Tail(inbox) \in Seq(Entry)
           /\ \A k \in DOMAIN Tail(inbox) :
                  k + 1 \in DOMAIN inbox /\ Tail(inbox)[k] = inbox[k + 1]
           /\ \A k \in DOMAIN inbox : k = 1 \/ k - 1 \in DOMAIN Tail(inbox)
           /\ \A k \in DOMAIN inbox : k \in Nat
  <1>1. inbox \in Seq(Entry)
    BY DEF ClientTypeOK
  <1>2. /\ Head(inbox) \in Entry /\ Tail(inbox) \in Seq(Entry)
        /\ Len(Tail(inbox)) = Len(inbox) - 1
        /\ \A i \in 1 .. Len(Tail(inbox)) : Tail(inbox)[i] = inbox[i + 1]
    BY <1>1, HeadTailProperties
  <1>3. Len(inbox) \in Nat /\ Len(inbox) > 0 /\ DOMAIN inbox = 1 .. Len(inbox)
    BY <1>1
  <1>4. DOMAIN Tail(inbox) = 1 .. Len(inbox) - 1
    BY <1>2
  <1>5. Head(inbox) = inbox[1]
    BY <1>1
  <1> QED
    BY <1>2, <1>3, <1>4, <1>5

LEMMA PageInvByHandling ==
    ASSUME PageInv, Process \/ (\E e \in DOMAIN timers : FireTimer(e)), UNCHANGED serverVars
    PROVE  PageInv'
  <1>1. ClientTypeOK /\ Truthful
    BY DEF PageInv
  <1>2. CASE Process
    <2> DEFINE e == Head(inbox)
    <2>1. inbox # <<>>
      BY <1>2 DEF Process, Idle
    <2>2. e \in Entry /\ Announced(e) /\ IsABag(timers)
      BY <1>1, <2>1, InboxSplits DEF Truthful, ClientTypeOK
    <2>3. Deliver(e, timers) \/ Retry(e, timers)
      BY <1>2 DEF Process
    <2>4. /\ ListensWhileWaiting' /\ Asked'
          /\ \A t \in DOMAIN timers' : Announced(t)'
          /\ \A j \in fetching' : "done" \in Reported(j)' /\ promise'[j] # "none"
          /\ DOMAIN timers' \subseteq Entry
      BY <2>2, <2>3, HandlingKeeps
    <2>5. inbox' = Tail(inbox) /\ lastId' = e.id /\ reloads' = reloads
      BY <1>2 DEF Process
    <2>6. /\ promise' \in [Mine -> {"none", "waiting", "resolved", "rejected", "gone"}]
          /\ listeners' \subseteq Mine /\ fetching' \subseteq Mine
          /\ retries' \in [Jobs -> 0 .. MaxRetries]
          /\ IsABag(timers') /\ gaveUp' \subseteq Jobs
      BY <1>1, <2>2, <2>3, HandlingTypes
    <2>7. ClientTypeOK'
      BY <1>1, <2>1, <2>2, <2>4, <2>5, <2>6, InboxSplits DEF ClientTypeOK, Entry
    <2>8. \A k \in DOMAIN inbox' : Announced(inbox[k])'
      <3>1. \A k \in DOMAIN inbox' : Announced(inbox'[k])
        BY <1>1, <2>1, <2>5, InboxSplits DEF Truthful
      <3>2. \A x : Announced(x) => Announced(x)'
        BY DEF Announced, Reported, serverVars
      <3> QED
        BY <3>1, <3>2
    <2> HIDE DEF e
    <2>9. Truthful'
      BY <2>4, <2>8 DEF Truthful
    <2> QED
      BY <2>4, <2>7, <2>9 DEF PageInv
  <1>3. ASSUME NEW e \in DOMAIN timers, FireTimer(e)
        PROVE  PageInv'
    <2> DEFINE B == timers (-) SetToBag({e})
    <2>1. e \in Entry /\ Announced(e) /\ IsABag(timers)
      BY <1>1, <1>3 DEF Truthful, ClientTypeOK
    <2>2. IsABag(B) /\ DOMAIN B \subseteq DOMAIN timers
      BY <2>1, RemoveOne
    <2>3. Deliver(e, B) \/ Retry(e, B)
      BY <1>3 DEF FireTimer
    <2> HIDE DEF B
    <2>4. /\ ListensWhileWaiting' /\ Asked'
          /\ \A t \in DOMAIN timers' : Announced(t)'
          /\ \A j \in fetching' : "done" \in Reported(j)' /\ promise'[j] # "none"
          /\ DOMAIN timers' \subseteq Entry
      BY <2>1, <2>2, <2>3, HandlingKeeps
    <2>5. inbox' = inbox /\ inbox = <<>> /\ lastId' = e.id /\ reloads' = reloads
      BY <1>3 DEF FireTimer, Idle
    <2>6. /\ promise' \in [Mine -> {"none", "waiting", "resolved", "rejected", "gone"}]
          /\ listeners' \subseteq Mine /\ fetching' \subseteq Mine
          /\ retries' \in [Jobs -> 0 .. MaxRetries]
          /\ IsABag(timers') /\ gaveUp' \subseteq Jobs
      BY <1>1, <2>1, <2>2, <2>3, HandlingTypes
    <2>7. ClientTypeOK'
      BY <1>1, <2>1, <2>4, <2>5, <2>6 DEF ClientTypeOK, Entry
    <2> QED
      BY <2>4, <2>5, <2>7 DEF PageInv, Truthful
  <1> QED
    BY <1>2, <1>3

LEMMA PageInvByPage ==
    ASSUME PageInv, PageStep, UNCHANGED serverVars
    PROVE  PageInv'
  <1>1. ClientTypeOK /\ ListensWhileWaiting /\ Asked /\ Truthful
    BY DEF PageInv
  <1>2. \A e : Announced(e) => Announced(e)'
    BY DEF Announced, Reported, serverVars
  <1>3. \A j \in Mine : Reported(j)' = Reported(j) /\ task' = task
    BY DEF Reported, serverVars
  <1>4. ASSUME NEW j \in Mine, WaitForAsyncData(j) PROVE PageInv'
    <2>1. ClientTypeOK'
      BY <1>1, <1>4 DEF WaitForAsyncData, ClientTypeOK
    <2>2. ListensWhileWaiting' /\ Asked'
      BY <1>1, <1>3, <1>4
      DEF WaitForAsyncData, ClientTypeOK, ListensWhileWaiting, Asked
    <2>3. \A i \in fetching' : i \in fetching /\ i \in Mine
      BY <1>1, <1>4 DEF WaitForAsyncData, ClientTypeOK
    <2>4. \A i \in fetching' : promise'[i] # "none"
      BY <1>1, <1>4, <2>3 DEF WaitForAsyncData, ClientTypeOK, Truthful
    <2>5. Truthful'
      BY <1>1, <1>2, <1>3, <1>4, <2>3, <2>4 DEF WaitForAsyncData, Truthful
    <2> QED
      BY <2>1, <2>2, <2>5 DEF PageInv
  <1>5. ASSUME NEW j \in Mine, FetchReturns(j) PROVE PageInv'
    <2>0. PICK o \in {"resolved", "rejected"} :
              promise' = [promise EXCEPT ![j] = IF @ = "waiting" THEN o ELSE @]
      BY <1>5 DEF FetchReturns, Settle
    <2>1. ClientTypeOK'
      BY <1>1, <1>5, <2>0 DEF FetchReturns, ClientTypeOK
    <2>2. ListensWhileWaiting' /\ Asked'
      BY <1>1, <1>3, <1>5, <2>0
      DEF FetchReturns, ClientTypeOK, ListensWhileWaiting, Asked
    <2>3. \A i \in fetching' : i \in fetching /\ i \in Mine
      BY <1>1, <1>5 DEF FetchReturns, ClientTypeOK
    <2>4. \A i \in fetching' : promise'[i] # "none"
      BY <1>1, <2>0, <2>3 DEF ClientTypeOK, Truthful
    <2>5. Truthful'
      BY <1>1, <1>2, <1>3, <1>5, <2>3, <2>4 DEF FetchReturns, Truthful
    <2> QED
      BY <2>1, <2>2, <2>5 DEF PageInv
  <1> QED
    BY <1>4, <1>5, PageInvByHandling DEF PageStep

-----------------------------------------------------------------------------
(***************************************************************************)
(* The refinement of AsyncJob.  The server's steps publish verdicts, and   *)
(* the page's settle promises on the strength of those published.          *)
(***************************************************************************)
LEMMA ReportStep ==
    ASSUME TypeInv, [ServerNext]_serverVars
    PROVE  \/ \A i \in Mine : Reported(i)' = Reported(i)
           \/ \E j \in Mine : /\ Leaves(j) /\ status[j] \in {"done", "error"}
                              /\ Reported(j)' = Reported(j) \cup {status[j]}
                              /\ \A i \in Mine \ {j} : Reported(i)' = Reported(i)
  <1>1. CASE scoped' = scoped
    BY <1>1 DEF Reported
  <1>2. ASSUME NEW h \in Jobs, Leaves(h), status[h] # "pending", XAddScoped(h)
        PROVE  \/ \A i \in Mine : Reported(i)' = Reported(i)
               \/ \E j \in Mine : /\ Leaves(j) /\ status[j] \in {"done", "error"}
                                  /\ Reported(j)' = Reported(j) \cup {status[j]}
                                  /\ \A i \in Mine \ {j} : Reported(i)' = Reported(i)
    <2>1. status[h] \in {"done", "error"}
      BY <1>2 DEF TypeInv, ServerTypeOK, Statuses
    <2>2. CASE ChannelOf[h] # Session
      <3>1. Session \in Channels \ {ChannelOf[h]}
        BY <2>2, ClientAssumption
      <3>2. scoped'[Session] = scoped[Session]
        BY <1>2, <3>1, XAddScopedEntries
      <3> QED
        BY <3>2, MineType DEF Reported
    <2>3. CASE ChannelOf[h] = Session
      <3> DEFINE n == Len(scoped[Session].log) + 1
      <3>1. /\ DOMAIN scoped'[Session].log = Entries(Session) \cup {n}
            /\ \A k \in Entries(Session) : scoped'[Session].log[k] = scoped[Session].log[k]
            /\ scoped'[Session].log[n].data = Event(h)
            /\ n \notin Entries(Session)
        BY <1>2, <2>3, XAddScopedEntries
      <3> HIDE DEF n
      <3>2. ASSUME NEW i \in Mine
            PROVE  Reported(i)' = Reported(i) \cup (IF i = h THEN {status[h]} ELSE {})
        BY <2>1, <3>1, MineType DEF Reported, Entries, Event
      <3> QED
        BY <1>2, <2>1, <3>2
    <2> QED
      BY <2>2, <2>3
  <1> QED
    BY <1>1, <1>2, ScopedChanges

LEMMA PublishStep ==
    ASSUME ServerInv, [ServerNext]_serverVars, promise' = promise
    PROVE  [Job!Next]_(Job!vars)
  <1> DEFINE V == [j \in Mine |-> Reported(j)]
  <1>0. TypeInv /\ VerdictInv
    BY DEF ServerInv, FollowInv
  <1>1. CASE \A i \in Mine : Reported(i)' = Reported(i)
    BY <1>1 DEF Job!vars
  <1>2. ASSUME NEW j \in Mine, Leaves(j), status[j] \in {"done", "error"},
               Reported(j)' = Reported(j) \cup {status[j]},
               \A i \in Mine \ {j} : Reported(i)' = Reported(i)
        PROVE  [Job!Next]_(Job!vars)
    <2>1. j \in Jobs /\ ChannelOf[j] \in Channels
      BY MineType
    <2>2. status[j] = "done" => Reported(j) = {}
      BY <1>0, <1>2, <2>1 DEF VerdictInv, Leaves, NoEntries, Reported, Entries
    <2>3. status[j] = "error" => "error" \notin Reported(j)
      BY <1>0, <1>2, <2>1 DEF VerdictInv, Leaves, OnlyDone, Reported, Entries
    <2>4. Reported(j) \subseteq {"done", "error"}
      BY DEF Reported
    <2>5. V' = [V EXCEPT ![j] = Reported(j) \cup {status[j]}] /\ V[j] = Reported(j)
      BY <1>2
    <2>6. CASE Reported(j) = {}
      <3>1. V[j] = {} /\ V' = [V EXCEPT ![j] = {status[j]}]
        BY <2>5, <2>6
      <3>2. Job!Publish(j)
        BY <1>2, <3>1 DEF Job!Publish
      <3> QED
        BY <3>2 DEF Job!Next
    <2>7. CASE Reported(j) # {}
      <3>1. status[j] = "error" /\ Reported(j) = {"done"}
        BY <1>2, <2>2, <2>3, <2>4, <2>7
      <3>2. V[j] = {"done"} /\ V' = [V EXCEPT ![j] = {"done", "error"}]
        BY <2>5, <3>1
      <3>3. Job!Publish(j)
        BY <3>2 DEF Job!Publish
      <3> QED
        BY <3>3 DEF Job!Next
    <2> QED
      BY <2>6, <2>7
  <1> QED
    BY <1>0, <1>1, <1>2, ReportStep

\* A step that rejects or resolves one promise that waits, or changes none.
LEMMA SettleStep ==
    ASSUME ClientTypeOK, UNCHANGED serverVars, NEW j \in Mine, promise[j] = "waiting",
           NEW to \in {"resolved", "rejected"},
           to = "resolved" => "done" \in Reported(j), Reported(j) # {},
           promise' = [promise EXCEPT ![j] = to]
    PROVE  Job!Next
  <1> DEFINE V == [i \in Mine |-> Reported(i)]
  <1>1. V' = V
    BY DEF Reported, serverVars
  <1>2. V[j] = Reported(j)
    OBVIOUS
  <1> HIDE DEF V
  <1>3. CASE to = "resolved"
    <2>1. Job!Resolve(j)
      BY <1>1, <1>2, <1>3 DEF Job!Resolve, Job!Becomes, V
    <2> QED
      BY <2>1 DEF Job!Next
  <1>4. CASE to = "rejected"
    <2>1. Job!Reject(j)
      BY <1>1, <1>2, <1>4 DEF Job!Reject, Job!Becomes, V
    <2> QED
      BY <2>1 DEF Job!Next
  <1> QED
    BY <1>3, <1>4

LEMMA PageStepSimulates ==
    ASSUME PageInv, PageStep, UNCHANGED serverVars
    PROVE  [Job!Next]_(Job!vars)
  <1> DEFINE V == [i \in Mine |-> Reported(i)]
  <1>1. ClientTypeOK /\ ListensWhileWaiting /\ Truthful
    BY DEF PageInv
  <1>2. V' = V
    BY DEF Reported, serverVars
  <1>3. ASSUME promise' = promise PROVE [Job!Next]_(Job!vars)
    BY <1>2, <1>3 DEF Job!vars
  <1>4. ASSUME NEW e \in Entry, Announced(e), NEW B, IsABag(B), Deliver(e, B) \/ Retry(e, B)
        PROVE  [Job!Next]_(Job!vars)
    <2>1. \/ promise' = promise
          \/ /\ e.data.job \in Mine /\ e.data.status = "error"
             /\ promise[e.data.job] = "waiting"
             /\ promise' = [promise EXCEPT ![e.data.job] = "rejected"]
      BY <1>1, <1>4, HandlingEffects
    <2> QED
      BY <1>1, <1>3, <1>4, <2>1, SettleStep DEF Announced
  <1>5. ASSUME NEW j \in Mine, WaitForAsyncData(j) PROVE [Job!Next]_(Job!vars)
    <2>1. Job!Wait(j)
      BY <1>2, <1>5 DEF WaitForAsyncData, Job!Wait, Job!Becomes
    <2> QED
      BY <2>1 DEF Job!Next
  <1>6. ASSUME NEW j \in Mine, FetchReturns(j) PROVE [Job!Next]_(Job!vars)
    <2>1. PICK o \in {"resolved", "rejected"} :
              promise' = [promise EXCEPT ![j] = IF @ = "waiting" THEN o ELSE @]
      BY <1>6 DEF FetchReturns, Settle
    <2>2. "done" \in Reported(j)
      BY <1>1, <1>6 DEF FetchReturns, Truthful
    <2>3. CASE promise[j] = "waiting"
      <3>1. promise' = [promise EXCEPT ![j] = o]
        BY <2>1, <2>3
      <3> QED
        BY <1>1, <2>2, <2>3, <3>1, SettleStep
    <2>4. CASE promise[j] # "waiting"
      <3>1. promise' = promise
        BY <1>1, <2>1, <2>4 DEF ClientTypeOK
      <3> QED
        BY <1>3, <3>1
    <2> QED
      BY <2>3, <2>4
  <1>7. CASE Process
    <2>1. inbox # <<>> /\ IsABag(timers)
      BY <1>1, <1>7 DEF Process, Idle, ClientTypeOK
    <2>2. Head(inbox) \in Entry /\ Announced(Head(inbox))
      BY <1>1, <2>1, InboxSplits DEF Truthful
    <2> QED
      BY <1>4, <1>7, <2>1, <2>2 DEF Process
  <1>8. ASSUME NEW e \in DOMAIN timers, FireTimer(e) PROVE [Job!Next]_(Job!vars)
    <2>1. e \in Entry /\ Announced(e) /\ IsABag(timers)
      BY <1>1 DEF Truthful, ClientTypeOK
    <2>2. IsABag(timers (-) SetToBag({e}))
      BY <2>1, RemoveOne
    <2> QED
      BY <1>4, <1>8, <2>1, <2>2 DEF FireTimer
  <1> QED
    BY <1>5, <1>6, <1>7, <1>8 DEF PageStep

LEMMA ReloadSimulates ==
    ASSUME PageInv, TypeInv, Reload, UNCHANGED serverVars
    PROVE  PageInv' /\ [Job!Next]_(Job!vars)
  <1> DEFINE V == [i \in Mine |-> Reported(i)]
             left == {j \in Mine : promise[j] \in {"none", "waiting"} /\ task[j] # "unsent"}
  <1>1. ClientTypeOK /\ Asked /\ Truthful
    BY DEF PageInv
  <1>2. V' = V
    BY DEF Reported, serverVars
  <1>3. promise' = [j \in Mine |-> IF j \in left THEN "gone" ELSE promise[j]]
    BY DEF Reload
  <1>4. left \in SUBSET {j \in Mine : promise[j] \in {"none", "waiting"}}
    OBVIOUS
  <1> HIDE DEF left
  <1>5. Job!Leave
    BY <1>2, <1>3, <1>4 DEF Job!Leave
  <1>6. \A j \in Mine : promise'[j] # "waiting"
    BY <1>1, <1>3 DEF left, Asked
  <1>7. DOMAIN timers' = {} /\ IsABag(timers')
    BY DEF Reload, EmptyBag, SetToBag, IsABag
  <1>8. ClientTypeOK' /\ ListensWhileWaiting' /\ Asked' /\ Truthful'
    <2>1. promise' \in [Mine -> {"none", "waiting", "resolved", "rejected", "gone"}]
      BY <1>1, <1>3 DEF ClientTypeOK
    <2>2. lastId' \in StreamId
      <3>1. \A i \in Entries(Session) : scoped[Session].log[i].id \in StreamId
        BY EntryType, ClientAssumption DEF Entry
      <3> QED
        BY <1>1, <3>1 DEF Reload, ClientTypeOK, Entries
    <2>3. retries' \in [Jobs -> 0 .. MaxRetries]
      BY ClientAssumption DEF Reload
    <2>4. ClientTypeOK'
      BY <1>1, <1>7, <2>1, <2>2, <2>3, ClientAssumption DEF Reload, ClientTypeOK
    <2>5. ListensWhileWaiting' /\ Asked'
      BY <1>6 DEF Reload, ListensWhileWaiting, Asked
    <2>6. inbox' = <<>> /\ fetching' = {}
      BY DEF Reload, Idle
    <2>7. Truthful'
      BY <1>7, <2>6 DEF Truthful
    <2> QED
      BY <2>4, <2>5, <2>7
  <1> QED
    BY <1>5, <1>8 DEF Job!Next, PageInv

-----------------------------------------------------------------------------
(***************************************************************************)
(* What XRANGE answers: entries of the stream, and every entry from start  *)
(* on that was not trimmed, but for some that are later than all of them.  *)
(***************************************************************************)
LEMMA RangeIsSlice ==
    ASSUME NEW s \in Stream, NEW start, NEW end, NEW count \in Nat,
           NEW events \in XRange(s, start, end, count)
    PROVE  \E first \in Nat, last \in Int :
               /\ s.floor < first /\ first - 1 <= last /\ last <= Len(s.log)
               /\ IsRange(s, start, end, count, first, last)
               /\ events \in Seq(Entry)
               /\ Len(events) = last - first + 1
               /\ \A k \in DOMAIN events : events[k] = s.log[first + k - 1]
  <1>1. PICK first \in s.floor + 1 .. Len(s.log) + 1 :
            \E last \in first - 1 .. Len(s.log) :
                IsRange(s, start, end, count, first, last) /\ events = SubSeq(s.log, first, last)
    BY DEF XRange
  <1>2. PICK last \in first - 1 .. Len(s.log) :
            IsRange(s, start, end, count, first, last) /\ events = SubSeq(s.log, first, last)
    BY <1>1
  <1>0. s.log \in Seq(Entry) /\ s.floor \in Nat /\ Len(s.log) \in Nat
    BY DEF Stream
  <1>3. /\ first \in Nat /\ first >= 1 /\ s.floor < first
        /\ last \in Int /\ last <= Len(s.log) /\ last >= first - 1
    BY <1>0
  <1>4. \A i \in first .. last : s.log[i] \in Entry
    BY <1>0, <1>3
  <1>5. /\ SubSeq(s.log, first, last) \in Seq(Entry)
        /\ Len(SubSeq(s.log, first, last)) = IF first <= last THEN last - first + 1 ELSE 0
        /\ \A i \in 1 .. last - first + 1 : SubSeq(s.log, first, last)[i] = s.log[first + i - 1]
    BY <1>3, <1>4, SubSeqProperties
  <1>6. events \in Seq(Entry) /\ Len(events) = last - first + 1
    BY <1>2, <1>3, <1>5
  <1>7. \A k \in DOMAIN events : events[k] = s.log[first + k - 1]
    BY <1>2, <1>5, <1>6
  <1> QED
    BY <1>2, <1>3, <1>6, <1>7

LEMMA RangeEntries ==
    ASSUME NEW s \in Stream, Increases(s), NEW start, NEW end, NEW count \in Nat,
           NEW events \in XRange(s, start, end, count)
    PROVE  /\ events \in Seq(Entry)
           /\ \A k \in DOMAIN events :
                  \E i \in DOMAIN s.log : s.floor < i /\ events[k] = s.log[i]
           /\ \A i \in DOMAIN s.log :
                  s.floor < i /\ ~ Before(s.log[i].id, start) =>
                      \/ \E k \in DOMAIN events : events[k] = s.log[i]
                      \/ \A k \in DOMAIN events : Before(events[k].id, s.log[i].id)
  <1>1. PICK first \in Nat, last \in Int :
            /\ s.floor < first /\ first - 1 <= last /\ last <= Len(s.log)
            /\ IsRange(s, start, end, count, first, last)
            /\ events \in Seq(Entry)
            /\ Len(events) = last - first + 1
            /\ \A k \in DOMAIN events : events[k] = s.log[first + k - 1]
    BY RangeIsSlice
  <1>2. s.log \in Seq(Entry) /\ s.floor \in Nat /\ Len(s.log) \in Nat
    BY DEF Stream
  <1>3. DOMAIN events = 1 .. last - first + 1 /\ DOMAIN s.log = 1 .. Len(s.log)
    BY <1>1, <1>2
  <1>4. /\ first \in Nat /\ s.floor < first /\ first >= 1 /\ last \in Int
        /\ last <= Len(s.log) /\ last >= first - 1
    BY <1>1, <1>2
  <1>5. \A k \in DOMAIN events : /\ first + k - 1 \in DOMAIN s.log
                                 /\ first + k - 1 \in first .. last
                                 /\ s.floor < first + k - 1
    BY <1>2, <1>3, <1>4
  <1>6. ASSUME NEW i \in DOMAIN s.log, s.floor < i, ~ Before(s.log[i].id, start)
        PROVE  \/ \E k \in DOMAIN events : events[k] = s.log[i]
               \/ \A k \in DOMAIN events : Before(events[k].id, s.log[i].id)
    <2>1. i \in Nat /\ first <= i
      <3>1. \A x \in s.floor + 1 .. first - 1 : Before(s.log[x].id, start)
        BY <1>1 DEF IsRange
      <3> QED
        BY <1>2, <1>3, <1>4, <1>6, <3>1
    <2>2. CASE i <= last
      <3>1. i - first + 1 \in DOMAIN events /\ first + (i - first + 1) - 1 = i
        BY <1>3, <1>4, <2>1, <2>2
      <3> QED
        BY <1>1, <3>1
    <2>3. CASE ~ (i <= last)
      <3>1. \A k \in DOMAIN events : first + k - 1 < i
        BY <1>4, <1>5, <2>1, <2>3
      <3> QED
        BY <1>1, <1>5, <1>6, <3>1 DEF Increases
    <2> QED
      BY <2>2, <2>3
  <1> QED
    BY <1>1, <1>5, <1>6

\* Trimming is not undone.
LEMMA FloorGrows ==
    ASSUME TypeInv, [ServerNext]_serverVars, NEW c \in Channels
    PROVE  scoped[c].floor \in Nat /\ scoped'[c].floor \in Nat
           /\ scoped[c].floor <= scoped'[c].floor
  <1>1. scoped \in [Channels -> Stream] /\ scoped[c].floor \in Nat
    BY DEF TypeInv, ServerTypeOK, Stream
  <1>2. scoped'[c].floor \in Nat
    BY TypeInvStep DEF TypeInv, ServerTypeOK, Stream
  <1>3. ASSUME NEW j \in Jobs, status[j] # "pending", XAddScoped(j)
        PROVE  scoped[c].floor <= scoped'[c].floor
    <2> DEFINE d == ChannelOf[j]
    <2>1. d \in Channels /\ StreamLimit \in Nat /\ now \in Nat /\ ServerTypeOK
      BY AsyncQueriesAssumption DEF TypeInv, ServerTypeOK
    <2>2. PICK s \in XAdd(scoped[d], Event(j), now, StreamLimit) :
              scoped' = [scoped EXCEPT ![d] = s]
      BY <1>3 DEF XAddScoped
    <2>3. scoped[d].floor <= s.floor
      BY <1>1, <1>3, <2>1, EventType, XAddAppends
    <2> QED
      BY <1>1, <2>1, <2>2, <2>3
  <1> QED
    BY <1>1, <1>2, <1>3, ScopedChanges

\* A new entry of a channel's stream is later than every cursor into it.
LEMMA NewIsLatest ==
    ASSUME TypeInv, OrderInv, [ServerNext]_serverVars, NEW c \in Channels,
           NEW i \in DOMAIN scoped'[c].log, i \notin Entries(c)
    PROVE  /\ Before(NoId, scoped'[c].log[i].id)
           /\ \A k \in Entries(c) : Before(scoped[c].log[k].id, scoped'[c].log[i].id)
  <1>1. Increases(scoped'[c]) /\ Numbered(scoped'[c])
    BY OrderInvStep DEF OrderInv, Ordered
  <1>2. scoped[c].log \in Seq(Entry)
    BY DEF TypeInv, ServerTypeOK, Stream
  <1>3. scoped'[c].log \in Seq(Entry)
    BY TypeInvStep DEF TypeInv, ServerTypeOK, Stream
  <1>4. \A k \in Entries(c) : k < i
    BY <1>2, <1>3 DEF Entries
  <1> QED
    BY <1>1, <1>4, ScopedGrows DEF Increases, Numbered

-----------------------------------------------------------------------------
(***************************************************************************)
(* PollingInv, one lemma for each kind of step.                            *)
(***************************************************************************)
LEMMA ChannelTypes ==
    ASSUME ServerInv, Session \in Channels
    PROVE  /\ Channel \in Stream /\ Increases(Channel) /\ Numbered(Channel)
           /\ DOMAIN Channel.log = Entries(Session)
           /\ \A i \in DOMAIN Channel.log : Channel.log[i] \in Entry
  <1>1. TypeInv /\ scoped \in [Channels -> Stream]
    BY DEF ServerInv, FollowInv, TypeInv, ServerTypeOK
  <1> QED
    BY <1>1, EntryType DEF ServerInv, OrderInv, Ordered, Channel, Entries

\* An entry of the channel's stream says what the stream says.
LEMMA HeldIsAnnounced ==
    ASSUME ServerInv, NEW e, Held(e)
    PROVE  e \in Entry /\ Announced(e)
  <1>1. Session \in Channels
    BY ClientAssumption
  <1>2. PICK i \in DOMAIN Channel.log : Channel.log[i] = e
    BY DEF Held
  <1>3. e \in Entry
    BY <1>1, <1>2, ChannelTypes
  <1>4. ASSUME e.data.job \in Mine PROVE e.data.status \in Reported(e.data.job)
    <2>1. e.data = [job |-> e.data.job, status |-> e.data.status]
          /\ e.data.status \in {"done", "error"}
      BY <1>3 DEF Entry, Data
    <2>2. ChannelOf[e.data.job] = Session
      BY <1>4, MineType
    <2> QED
      BY <1>2, <2>1, <2>2 DEF Reported, Channel
  <1> QED
    BY <1>3, <1>4 DEF Announced

LEMMA PollingByServer ==
    ASSUME PollingInv, ServerStep
    PROVE  PollingInv'
  <1>0. Session \in Channels
    BY ClientAssumption
  <1>1. /\ ServerInv /\ TypeInv /\ OrderInv /\ PageInv /\ [ServerNext]_serverVars
        /\ FromChannel /\ Frontier
        /\ UNCHANGED <<pageVars, poll>>
    BY DEF PollingInv, ServerStep, ServerInv, FollowInv
  <1>2. ServerInv' /\ PageInv'
    BY <1>1, ServerInvStep, PageInvByServer
  <1>3. \A i \in DOMAIN Channel.log :
            i \in DOMAIN Channel'.log /\ Channel'.log[i] = Channel.log[i]
    BY <1>0, <1>1, ScopedGrows DEF Channel, Entries
  <1>4. PollType' /\ BusyIsAlone'
    BY <1>1 DEF PollingInv, PollType, BusyIsAlone, pageVars
  <1>5. /\ \A id : Cursor(id) => Cursor(id)'
        /\ \A e : Held(e) => Held(e)'
    BY <1>3 DEF Cursor, Held
  <1>6. FromChannel'
    BY <1>1, <1>5 DEF FromChannel, pageVars
  <1>7. ASSUME NEW i \in DOMAIN Channel'.log, ~ (i <= Channel'.floor),
               Wanted(Channel'.log[i].data.job), ~ Accounted(Channel'.log[i])
        PROVE  Ahead(Channel'.log[i].id)
    <2>1. CASE i \in DOMAIN Channel.log
      <3>1. ~ (i <= Channel.floor)
        <4>1. Channel.floor \in Nat /\ Channel'.floor \in Nat /\ Channel.floor <= Channel'.floor
          BY <1>0, <1>1, FloorGrows DEF Channel
        <4>2. i \in Nat
          BY <1>0, <1>1, <2>1, ChannelTypes DEF Stream
        <4> QED
          BY <1>7, <4>1, <4>2
      <3> QED
        BY <1>1, <1>3, <1>7, <2>1, <3>1 DEF Frontier
    <2>2. CASE i \notin DOMAIN Channel.log
      <3>1. /\ Before(NoId, Channel'.log[i].id)
            /\ \A k \in DOMAIN Channel.log : Before(Channel.log[k].id, Channel'.log[i].id)
        BY <1>0, <1>1, <2>2, NewIsLatest DEF Channel, Entries
      <3>2. /\ \A id : Cursor(id) => Before(id, Channel'.log[i].id)
            /\ \A e : Held(e) => Before(e.id, Channel'.log[i].id)
        BY <3>1 DEF Cursor, Held
      <3> QED
        BY <1>1, <3>2 DEF FromChannel, Ahead
    <2> QED
      BY <2>1, <2>2
  <1>8. /\ \A j : Wanted(j)' <=> Wanted(j)
        /\ \A e : Accounted(e)' <=> Accounted(e)
        /\ \A id : Ahead(id)' <=> Ahead(id)
    BY <1>1 DEF Wanted, Accounted, Ahead, pageVars
  <1>9. Frontier'
    BY <1>7, <1>8 DEF Frontier
  <1> QED
    BY <1>2, <1>4, <1>6, <1>9 DEF PollingInv

\* An event is handled that the page holds; the others it held, it holds still.
LEMMA PollingByHandling ==
    ASSUME PollingInv, UNCHANGED <<serverVars, poll>>, PageInv',
           NEW e, Held(e), NEW B, IsABag(B), DOMAIN B \subseteq DOMAIN timers,
           \A t \in DOMAIN timers : t = e \/ t \in DOMAIN B,
           Deliver(e, B) \/ Retry(e, B),
           lastId' = e.id,
           \A k \in DOMAIN inbox' : \E h \in DOMAIN inbox : inbox'[k] = inbox[h],
           \A h \in DOMAIN inbox :
               inbox[h] = e \/ \E k \in DOMAIN inbox' : inbox'[k] = inbox[h],
           e \in DOMAIN timers \/ \E h \in DOMAIN inbox : inbox[h] = e,
           inbox = <<>> => inbox' = <<>>
    PROVE  PollingInv'
  <1>1. ServerInv /\ PageInv /\ FromChannel /\ Frontier /\ ClientTypeOK /\ ListensWhileWaiting
    BY DEF PollingInv, PageInv
  <1>2. e \in Entry
    BY <1>1, HeldIsAnnounced
  <1>3. ServerInv' /\ PollType' /\ BusyIsAlone'
    <2>1. ServerInv'
      BY <1>1, ServerInvStep
    <2> QED
      BY <2>1 DEF PollingInv, PollType, BusyIsAlone
  <1>4. /\ DOMAIN B \subseteq DOMAIN timers' /\ DOMAIN timers' \subseteq DOMAIN B \cup {e}
    BY <1>1, <1>2, HandlingTypes
  <1>5. /\ \/ promise' = promise
           \/ /\ e.data.job \in Mine /\ promise[e.data.job] = "waiting"
              /\ promise' = [promise EXCEPT ![e.data.job] = "rejected"]
        /\ fetching \subseteq fetching'
        /\ gaveUp \subseteq gaveUp'
        /\ \/ e.data.job \in Mine /\ promise'[e.data.job] \notin {"none", "waiting"}
           \/ e \in DOMAIN timers'
           \/ e.data.job \in fetching'
           \/ e.data.job \in gaveUp'
    BY <1>1, <1>2, HandlingEffects
  <1>6. /\ \A id : Cursor(id)' <=> Cursor(id)
        /\ \A x : Held(x)' <=> Held(x)
        /\ Channel' = Channel
    BY DEF Cursor, Held, Channel, serverVars
  <1>7. Cursor(e.id)
    BY DEF Held, Cursor
  <1>8. FromChannel'
    BY <1>1, <1>4, <1>6, <1>7 DEF FromChannel
  <1>9. \A j : Wanted(j)' => Wanted(j)
    BY <1>1, <1>5 DEF Wanted, ClientTypeOK
  <1>10. ASSUME NEW x, Accounted(x), Wanted(x.data.job)' PROVE Accounted(x)'
    <2>1. CASE x = e
      BY <1>5, <1>10, <2>1 DEF Wanted, Accounted
    <2>2. CASE x # e
      BY <1>4, <1>5, <1>10, <2>2 DEF Accounted
    <2> QED
      BY <2>1, <2>2
  <1>11. ASSUME NEW id, Ahead(id) PROVE Ahead(id)'
    <2>1. Before(e.id, id)
      BY <1>11 DEF Ahead
    <2> QED
      BY <1>4, <1>11, <2>1 DEF Ahead
  <1>12. Frontier'
    BY <1>1, <1>6, <1>9, <1>10, <1>11 DEF Frontier
  <1> QED
    BY <1>3, <1>8, <1>12 DEF PollingInv

LEMMA PollingByPage ==
    ASSUME PollingInv, PageStep, UNCHANGED <<serverVars, poll>>
    PROVE  PollingInv'
  <1>1. ServerInv /\ PageInv /\ FromChannel /\ Frontier /\ ClientTypeOK /\ Truthful
    BY DEF PollingInv, PageInv
  <1>2. PageInv'
    BY <1>1, PageInvByPage
  <1>3. CASE Process
    <2>1. inbox # <<>> /\ IsABag(timers)
      BY <1>1, <1>3 DEF Process, Idle, ClientTypeOK
    <2>2. /\ 1 \in DOMAIN inbox /\ Head(inbox) = inbox[1]
          /\ \A k \in DOMAIN Tail(inbox) :
                  k + 1 \in DOMAIN inbox /\ Tail(inbox)[k] = inbox[k + 1]
          /\ \A k \in DOMAIN inbox : k = 1 \/ k - 1 \in DOMAIN Tail(inbox)
          /\ \A k \in DOMAIN inbox : k \in Nat
      BY <1>1, <2>1, InboxSplits
    <2>3. Held(Head(inbox))
      BY <1>1, <2>2 DEF FromChannel
    <2>4. /\ Deliver(Head(inbox), timers) \/ Retry(Head(inbox), timers)
          /\ lastId' = Head(inbox).id /\ inbox' = Tail(inbox)
      BY <1>3 DEF Process
    <2>5. \A k \in DOMAIN inbox' : \E h \in DOMAIN inbox : inbox'[k] = inbox[h]
      BY <2>2, <2>4
    <2>6. \A h \in DOMAIN inbox :
              inbox[h] = Head(inbox) \/ \E k \in DOMAIN inbox' : inbox'[k] = inbox[h]
      <3> SUFFICES ASSUME NEW h \in DOMAIN inbox, h # 1
                   PROVE  h - 1 \in DOMAIN inbox' /\ inbox'[h - 1] = inbox[h]
        BY <2>2
      <3>1. h - 1 \in DOMAIN Tail(inbox) /\ (h - 1) + 1 = h
        BY <2>2
      <3> QED
        BY <2>2, <2>4, <3>1
    <2> QED
      BY <1>2, <2>1, <2>2, <2>3, <2>4, <2>5, <2>6, PollingByHandling
  <1>4. ASSUME NEW e \in DOMAIN timers, FireTimer(e)
        PROVE  PollingInv'
    <2>1. IsABag(timers) /\ Held(e)
      BY <1>1 DEF ClientTypeOK, FromChannel
    <2>2. /\ IsABag(timers (-) SetToBag({e}))
          /\ DOMAIN (timers (-) SetToBag({e})) \subseteq DOMAIN timers
          /\ \A x \in DOMAIN timers : x # e => x \in DOMAIN (timers (-) SetToBag({e}))
      BY <2>1, RemoveOne
    <2>3. /\ Deliver(e, timers (-) SetToBag({e})) \/ Retry(e, timers (-) SetToBag({e}))
          /\ lastId' = e.id /\ inbox' = inbox
      BY <1>4 DEF FireTimer
    <2> QED
      BY <1>2, <2>1, <2>2, <2>3, PollingByHandling
  <1>5. ASSUME NEW j \in Mine, WaitForAsyncData(j) \/ FetchReturns(j)
        PROVE  PollingInv'
    <2>1. /\ UNCHANGED <<timers, lastId, inbox, gaveUp>>
          /\ fetching' = fetching \/ (FetchReturns(j) /\ j \in fetching /\ fetching' = fetching \ {j})
      BY <1>5 DEF WaitForAsyncData, FetchReturns
    <2>2. \A i : Wanted(i)' => Wanted(i)
      BY <1>1, <1>5 DEF Wanted, WaitForAsyncData, FetchReturns, Settle, ClientTypeOK
    <2>3. FetchReturns(j) => ~ Wanted(j)'
      BY <1>1 DEF Wanted, FetchReturns, Settle, ClientTypeOK, Truthful
    <2>4. ASSUME NEW x, Accounted(x), Wanted(x.data.job)' PROVE Accounted(x)'
      BY <2>1, <2>3, <2>4 DEF Accounted
    <2>5. /\ \A id : Ahead(id)' <=> Ahead(id)
          /\ Channel' = Channel
          /\ FromChannel' <=> FromChannel
      BY <2>1 DEF Ahead, Channel, serverVars, FromChannel, Cursor, Held
    <2>6. Frontier'
      BY <1>1, <2>2, <2>4, <2>5 DEF Frontier
    <2>7. ServerInv' /\ PollType' /\ BusyIsAlone'
      <3>1. ServerInv'
        BY <1>1, ServerInvStep
      <3> QED
        BY <2>1, <3>1 DEF PollingInv, PollType, BusyIsAlone
    <2> QED
      BY <1>1, <1>2, <2>5, <2>6, <2>7 DEF PollingInv
  <1> QED
    BY <1>3, <1>4, <1>5 DEF PageStep

\* Whoever is left behind by a reload has no event in the stream.
LEMMA PollingByReload ==
    ASSUME PollingInv, Reload, poll' = NoPoll, UNCHANGED serverVars
    PROVE  PollingInv'
  <1>1. ServerInv /\ TypeInv /\ PageInv /\ FromChannel /\ ClientTypeOK
    BY DEF PollingInv, PageInv, ServerInv, FollowInv
  <1>2. PageInv'
    BY <1>1, ReloadSimulates
  <1>3. ServerInv' /\ PollType' /\ BusyIsAlone'
    <2>1. ServerInv'
      BY <1>1, ServerInvStep
    <2> QED
      BY <2>1 DEF PollType, BusyIsAlone, NoPoll, NoId, StreamId
  <1>4. FromChannel'
    <2>1. DOMAIN timers' = {} /\ inbox' = <<>>
      BY DEF Reload, EmptyBag, SetToBag, Idle
    <2>2. Cursor(lastId)'
      <3>1. Cursor(lastId') 
        BY <1>1 DEF Reload, FromChannel, Cursor, Channel
      <3> QED
        BY <3>1 DEF Cursor, Channel, serverVars
    <2>3. Cursor(poll.last)'
      BY DEF Cursor, NoPoll
    <2> QED
      BY <2>1, <2>2, <2>3 DEF FromChannel
  <1>5. ASSUME NEW i \in DOMAIN Channel'.log PROVE ~ Wanted(Channel.log[i].data.job)'
    <2>1. Channel' = Channel
      BY DEF Channel, serverVars
    <2>2. task[Channel.log[i].data.job] # "unsent"
      BY <1>1, <1>5, <2>1, ClientAssumption DEF ServerInv, SubmittedInv, OfSubmitted, Channel
    <2> QED
      BY <1>1, <2>1, <2>2 DEF Reload, Wanted, ClientTypeOK
  <1>6. Frontier'
    BY <1>5 DEF Frontier
  <1> QED
    BY <1>2, <1>3, <1>4, <1>6 DEF PollingInv

LEMMA PollingBySending ==
    ASSUME PollingInv, LoadEventsFromApi
    PROVE  PollingInv'
  <1>1. ServerInv /\ PageInv /\ FromChannel /\ Frontier /\ ClientTypeOK
    BY DEF PollingInv, PageInv
  <1>2. UNCHANGED <<serverVars, pageVars>> /\ inbox = <<>>
        /\ poll' = [at |-> "sent", last |-> lastId]
    BY DEF LoadEventsFromApi, Idle
  <1>3. ServerInv' /\ PageInv'
    BY <1>1, <1>2, ServerInvStep, PageInvByServer DEF ServerInv, FollowInv
  <1>4. PollType' /\ BusyIsAlone'
    BY <1>1, <1>2 DEF PollType, BusyIsAlone, ClientTypeOK, pageVars
  <1>5. Channel' = Channel
    BY <1>2 DEF Channel, serverVars
  <1>6. FromChannel'
    BY <1>1, <1>2, <1>5 DEF FromChannel, Cursor, Held, pageVars
  <1>7. /\ \A j : Wanted(j)' <=> Wanted(j)
        /\ \A e : Accounted(e)' <=> Accounted(e)
        /\ \A id : Ahead(id) => Ahead(id)'
    BY <1>2 DEF Wanted, Accounted, Ahead, pageVars
  <1>8. Frontier'
    BY <1>1, <1>5, <1>7 DEF Frontier
  <1> QED
    BY <1>3, <1>4, <1>6, <1>8 DEF PollingInv

\* Reading resumes after a cursor and skips nothing.
LEMMA StartIsAfter ==
    ASSUME ServerInv, NEW last \in StreamId, Cursor(last), NEW e \in Entry, Held(e), Before(last, e.id)
    PROVE  ~ Before(e.id, IF last = NoId THEN NoId ELSE increment_id(last))
  <1>1. e.id \in StreamId
    BY DEF Entry
  <1>2. CASE last = NoId
    BY <1>1, <1>2 DEF NoId, StreamId, Before
  <1>3. CASE last # NoId
    <2>1. PICK i \in DOMAIN Channel.log : Channel.log[i].id = last
      BY <1>3 DEF Cursor
    <2>2. last.seq < PerMs
      BY <2>1, ChannelTypes, ClientAssumption DEF Numbered
    <2>3. last.seq \in Nat /\ PerMs <= 20
      BY AsyncQueriesAssumption DEF StreamId
    <2>4. CASE last.seq < 19
      BY <1>1, <1>3, <2>4, IncrementIsSuccessor
    <2>5. CASE last.seq = 19
      <3>1. PICK k \in DOMAIN Channel.log : Channel.log[k] = e
        BY DEF Held
      <3>2. Session \in Channels
        BY ClientAssumption
      <3>3. e.id.seq < PerMs
        BY <3>1, <3>2, ChannelTypes DEF Numbered
      <3>4. e.id.seq \in Nat /\ e.id.seq <= 19
        BY <1>1, <2>3, <3>3, AsyncQueriesAssumption DEF StreamId
      <3>5. last.ms < e.id.ms
        BY <1>1, <2>5, <3>4 DEF Before, StreamId
      <3>6. increment_id(last).ms = last.ms
        BY DEF increment_id, StreamId
      <3>7. ~ Before(e.id, increment_id(last))
        BY <1>1, <3>5, <3>6 DEF Before, StreamId
      <3> QED
        BY <1>3, <3>7
    <2>6. PerMs \in Nat
      BY AsyncQueriesAssumption
    <2> QED
      BY <2>2, <2>3, <2>4, <2>5, <2>6
  <1> QED
    BY <1>2, <1>3

LEMMA PageInvByArrival ==
    ASSUME ServerInv, PageInv, UNCHANGED serverVars,
           UNCHANGED <<promise, listeners, fetching, retries, timers, lastId, gaveUp, reloads>>,
           inbox' \in Seq(Entry), \A k \in DOMAIN inbox' : Announced(inbox'[k])
    PROVE  PageInv'
  <1>1. ClientTypeOK /\ ListensWhileWaiting /\ Asked /\ Truthful
    BY DEF PageInv
  <1>2. \A x : Announced(x) => Announced(x)'
    BY DEF Announced, Reported, serverVars
  <1>3. \A j \in Mine : Reported(j)' = Reported(j) /\ task' = task
    BY DEF Reported, serverVars
  <1>4. ClientTypeOK' /\ ListensWhileWaiting' /\ Asked'
    BY <1>1, <1>3 DEF ClientTypeOK, ListensWhileWaiting, Asked
  <1>5. \A j \in fetching : j \in Mine
    BY <1>1 DEF ClientTypeOK
  <1>6. Truthful'
    BY <1>1, <1>2, <1>3, <1>5 DEF Truthful
  <1> QED
    BY <1>4, <1>6 DEF PageInv

LEMMA PollingByReading ==
    ASSUME PollingInv, ReadEvents
    PROVE  PollingInv'
  <1>0. Session \in Channels /\ MaxEventCount \in Nat
    BY ClientAssumption, PollingAssumption
  <1>1. ServerInv /\ PageInv /\ FromChannel /\ Frontier /\ ClientTypeOK /\ PollType
    BY DEF PollingInv, PageInv
  <1> DEFINE start == IF poll.last = NoId THEN NoId ELSE increment_id(poll.last)
  <1>2. /\ inbox = <<>> /\ poll.at = "sent" /\ poll' = NoPoll
        /\ inbox' \in XRange(Channel, start, Plus(now), MaxEventCount)
        /\ UNCHANGED serverVars
        /\ UNCHANGED <<promise, listeners, fetching, retries, timers, lastId, gaveUp, reloads>>
    BY DEF ReadEvents, Idle, Channel
  <1>3. Channel \in Stream /\ Increases(Channel) /\ \A i \in DOMAIN Channel.log : Channel.log[i] \in Entry
    BY <1>0, <1>1, ChannelTypes
  <1> HIDE DEF start
  <1>4. /\ inbox' \in Seq(Entry)
        /\ \A k \in DOMAIN inbox' :
               \E i \in DOMAIN Channel.log : Channel.floor < i /\ inbox'[k] = Channel.log[i]
        /\ \A i \in DOMAIN Channel.log :
               Channel.floor < i /\ ~ Before(Channel.log[i].id, start) =>
                   \/ \E k \in DOMAIN inbox' : inbox'[k] = Channel.log[i]
                   \/ \A k \in DOMAIN inbox' : Before(inbox'[k].id, Channel.log[i].id)
    BY <1>0, <1>2, <1>3, RangeEntries
  <1>5. \A k \in DOMAIN inbox' : Held(inbox'[k])
    BY <1>4 DEF Held
  <1>6. ServerInv' /\ PageInv'
    <2>1. \A k \in DOMAIN inbox' : Announced(inbox'[k])
      BY <1>1, <1>5, HeldIsAnnounced
    <2> QED
      BY <1>1, <1>2, <1>4, <2>1, PageInvByArrival, ServerInvStep
  <1>7. PollType' /\ BusyIsAlone'
    BY <1>2 DEF PollType, BusyIsAlone, NoPoll, NoId, StreamId
  <1>8. Channel' = Channel
    BY <1>2 DEF Channel, serverVars
  <1>9. FromChannel'
    BY <1>1, <1>2, <1>5, <1>8 DEF FromChannel, Cursor, Held, NoPoll
  <1>10. ASSUME NEW i \in DOMAIN Channel.log, ~ (i <= Channel.floor),
                Wanted(Channel.log[i].data.job), ~ Accounted(Channel.log[i])'
         PROVE  Ahead(Channel.log[i].id)'
    <2>1. ~ Accounted(Channel.log[i])
      BY <1>2, <1>8, <1>10 DEF Accounted
    <2>2. Ahead(Channel.log[i].id)
      BY <1>1, <1>10, <2>1 DEF Frontier
    <2>3. Before(lastId, Channel.log[i].id) /\ Before(poll.last, Channel.log[i].id)
          /\ \A e \in DOMAIN timers : Before(e.id, Channel.log[i].id)
      BY <1>2, <2>2 DEF Ahead
    <2>4. ~ Before(Channel.log[i].id, start)
      <3>1. Channel.log[i] \in Entry /\ Held(Channel.log[i])
        BY <1>3 DEF Held
      <3> QED
        BY <1>1, <2>3, <3>1, StartIsAfter DEF FromChannel, PollType, start
    <2>5. Channel.floor < i
      BY <1>3, <1>10 DEF Stream
    <2>6. \A k \in DOMAIN inbox' : inbox'[k] # Channel.log[i]
      BY <1>8, <1>10 DEF Accounted
    <2>7. \A k \in DOMAIN inbox' : Before(inbox'[k].id, Channel.log[i].id)
      BY <1>4, <2>4, <2>5, <2>6
    <2> QED
      BY <1>2, <1>8, <2>3, <2>7 DEF Ahead, NoPoll
  <1>11. Frontier'
    BY <1>2, <1>8, <1>10 DEF Frontier, Wanted
  <1> QED
    BY <1>6, <1>7, <1>9, <1>11 DEF PollingInv

LEMMA PollingInvStep == PollingInv /\ [Next]_vars => PollingInv'
  <1> SUFFICES ASSUME PollingInv, [Next]_vars PROVE PollingInv'
    OBVIOUS
  <1>1. CASE UNCHANGED vars
    <2>1. ServerStep \/ UNCHANGED vars
      BY <1>1
    <2>2. ServerInv' /\ PageInv'
      BY <1>1, ServerInvStep, PageInvByServer DEF vars, PollingInv, ServerInv, FollowInv
    <2>3. Channel' = Channel /\ UNCHANGED <<pageVars, poll>>
      BY <1>1 DEF vars, Channel, serverVars
    <2> QED
      BY <2>2, <2>3
      DEF PollingInv, PollType, BusyIsAlone, FromChannel, Cursor, Held, Frontier, Wanted,
          Accounted, Ahead, pageVars
  <1> QED
    BY <1>1, PollingByServer, PollingByPage, PollingByReload, PollingBySending,
       PollingByReading
    DEF Next

LEMMA PageInvInit == ServerInit /\ ClientInit => PageInv /\ Job!Init
  <1> SUFFICES ASSUME ServerInit, ClientInit PROVE PageInv /\ Job!Init
    OBVIOUS
  <1>1. DOMAIN timers = {} /\ IsABag(timers)
    BY DEF ClientInit, EmptyBag, SetToBag, IsABag
  <1>2. ClientTypeOK
    BY <1>1, ClientAssumption DEF ClientInit, ClientTypeOK, NoId, StreamId
  <1>3. ListensWhileWaiting /\ Asked /\ Truthful
    BY <1>1 DEF ClientInit, ListensWhileWaiting, Asked, Truthful
  <1>4. \A j \in Mine : Reported(j) = {}
    BY MineType DEF ServerInit, EmptyStream, Reported
  <1> QED
    BY <1>2, <1>3, <1>4 DEF PageInv, Job!Init, ClientInit

LEMMA PollingInvInit == Init => PollingInv
  <1> SUFFICES ASSUME Init PROVE PollingInv
    OBVIOUS
  <1>1. ServerInv /\ PageInv
    BY ServerInvInit, PageInvInit DEF Init
  <1>2. Channel.log = <<>> /\ DOMAIN timers = {} /\ inbox = <<>>
    BY ClientAssumption
    DEF Init, ServerInit, ClientInit, Channel, EmptyStream, EmptyBag, SetToBag
  <1>3. PollType /\ BusyIsAlone
    BY <1>2 DEF Init, PollType, BusyIsAlone, NoPoll, NoId, StreamId
  <1>4. FromChannel /\ Frontier
    BY <1>2 DEF Init, ClientInit, FromChannel, Frontier, Cursor, NoPoll
  <1> QED
    BY <1>1, <1>3, <1>4 DEF PollingInv

(***************************************************************************)
(* Whatever happens to the tasks and to Redis, and however many jobs,      *)
(* events, polls, retries and reloads there are: an event on a job that    *)
(* the page waits for is in its hands, or the page will ask for it, unless *)
(* it was trimmed or dropped after MAX_RETRIES.                            *)
(***************************************************************************)
THEOREM PollingLosesNothing == Spec => []NothingLost
  <1>1. PollingInv => NothingLost
    BY DEF PollingInv, NothingLost, Frontier, Wanted, Accounted, Ahead, InHand, BagIn, BagToSet
  <1> QED
    BY <1>1, PollingInvInit, PollingInvStep, PTL DEF Spec

\* Over polling, a listener stays registered as long as its promise waits.
THEOREM PollingListens == Spec => []ListensWhileWaiting
  <1>1. PollingInv => ListensWhileWaiting
    BY DEF PollingInv, PageInv
  <1> QED
    BY <1>1, PollingInvInit, PollingInvStep, PTL DEF Spec

\* The variables of the page and of its poll have their types.
THEOREM PollingTypeCorrect == Spec => []TypeOK
  <1>1. PollingInv => TypeOK
    BY DEF PollingInv, PageInv, PollType, ServerInv, FollowInv, TypeInv, TypeOK
  <1> QED
    BY <1>1, PollingInvInit, PollingInvStep, PTL DEF Spec

(***************************************************************************)
(* Polling implements AsyncJob: a chart is told once, and only what the    *)
(* server has reported in the session's stream.                            *)
(***************************************************************************)
THEOREM PollingImplementsAsyncJob == Spec => ImplementsAsyncJob
  <1>1. Init => Job!Init
    BY PageInvInit DEF Init
  <1>2. PollingInv /\ [Next]_vars => [Job!Next]_(Job!vars)
    <2> SUFFICES ASSUME PollingInv, [Next]_vars PROVE [Job!Next]_(Job!vars)
      OBVIOUS
    <2>1. ServerInv /\ TypeInv /\ PageInv
      BY DEF PollingInv, ServerInv, FollowInv
    <2>2. ASSUME [ServerNext]_serverVars, promise' = promise PROVE [Job!Next]_(Job!vars)
      BY <2>1, <2>2, PublishStep
    <2>3. CASE ServerStep \/ LoadEventsFromApi \/ ReadEvents \/ UNCHANGED vars
      BY <2>2, <2>3 DEF ServerStep, LoadEventsFromApi, ReadEvents, vars, pageVars
    <2> QED
      BY <2>1, <2>3, PageStepSimulates, ReloadSimulates DEF Next
  <1> QED
    BY <1>1, <1>2, PollingInvInit, PollingInvStep, PTL
    DEF Spec, ImplementsAsyncJob, Job!Spec

-----------------------------------------------------------------------------
(***************************************************************************)
(* WebSocket: the global stream, and what is sent to the page.             *)
(***************************************************************************)
LEMMA FullTypes ==
    ASSUME ServerInv
    PROVE  /\ full \in Stream /\ Increases(full) /\ Numbered(full)
           /\ \A i \in DOMAIN full.log : full.log[i] \in Entry /\ Announced(full.log[i])
  <1>1. full \in Stream /\ Increases(full) /\ Numbered(full) /\ FirehoseFollows
    BY DEF ServerInv, FollowInv, TypeInv, ServerTypeOK, OrderInv, Ordered
  <1>2. full.log \in Seq(Entry)
    BY <1>1 DEF Stream
  <1>3. ASSUME NEW i \in DOMAIN full.log PROVE full.log[i] \in Entry /\ Announced(full.log[i])
    <2>1. full.log[i] \in Entry
      BY <1>2
    <2>2. full.log[i].data = [job |-> full.log[i].data.job, status |-> full.log[i].data.status]
          /\ full.log[i].data.status \in {"done", "error"}
      BY <2>1 DEF Entry, Data
    <2>3. \E k \in DOMAIN scoped[ChannelOf[full.log[i].data.job]].log :
              scoped[ChannelOf[full.log[i].data.job]].log[k].data = full.log[i].data
      BY <1>1 DEF FirehoseFollows
    <2> QED
      BY <2>1, <2>2, <2>3 DEF Announced, Reported
  <1> QED
    BY <1>1, <1>3

LEMMA FullGrows ==
    ASSUME TypeInv, OrderInv, [ServerNext]_serverVars
    PROVE  /\ full.floor \in Nat /\ full'.floor \in Nat /\ full.floor <= full'.floor
           /\ \A i \in DOMAIN full.log : i \in DOMAIN full'.log /\ full'.log[i] = full.log[i]
           /\ \A i \in DOMAIN full'.log : i \notin DOMAIN full.log =>
                  /\ Before(NoId, full'.log[i].id)
                  /\ \A k \in DOMAIN full.log : Before(full.log[k].id, full'.log[i].id)
  <1>1. ServerTypeOK /\ full \in Stream /\ FirehoseLimit \in Nat /\ now \in Nat
    BY AsyncQueriesAssumption DEF TypeInv, ServerTypeOK
  <1>2. full' \in Stream /\ Increases(full') /\ Numbered(full')
    BY TypeInvStep, OrderInvStep DEF TypeInv, ServerTypeOK, OrderInv, Ordered
  <1>3. full.log \in Seq(Entry) /\ full'.log \in Seq(Entry) /\ full.floor \in Nat /\ full'.floor \in Nat
    BY <1>1, <1>2 DEF Stream
  <1>4. /\ full.floor <= full'.floor
        /\ \A i \in DOMAIN full.log : i \in DOMAIN full'.log /\ full'.log[i] = full.log[i]
    <2>1. CASE full' = full
      BY <1>3, <2>1
    <2>2. ASSUME NEW j \in Jobs, status[j] # "pending", XAddFull(j)
          PROVE  /\ full.floor <= full'.floor
                 /\ \A i \in DOMAIN full.log : i \in DOMAIN full'.log /\ full'.log[i] = full.log[i]
      <3> DEFINE e == [id |-> NextId(full, now), data |-> Event(j)]
      <3>1. full' \in XAdd(full, Event(j), now, FirehoseLimit) /\ Event(j) \in Data
        BY <1>1, <2>2, EventType DEF XAddFull
      <3>2. full'.log = Append(full.log, e) /\ full.floor <= full'.floor
        BY <1>1, <3>1, XAddAppends
      <3>3. e \in Entry
        BY <1>1, <3>1, NextIdIsLater DEF Entry
      <3> HIDE DEF e
      <3> QED
        BY <1>3, <3>2, <3>3, AppendExtends
    <2> QED
      BY <2>1, <2>2, FullChanges
  <1>5. ASSUME NEW i \in DOMAIN full'.log, i \notin DOMAIN full.log
        PROVE  /\ Before(NoId, full'.log[i].id)
               /\ \A k \in DOMAIN full.log : Before(full.log[k].id, full'.log[i].id)
    <2>1. \A k \in DOMAIN full.log : k < i
      BY <1>3, <1>5
    <2> QED
      BY <1>2, <1>4, <2>1 DEF Increases, Numbered
  <1> QED
    BY <1>3, <1>4, <1>5

\* The events of the session among events are some of them, and none is missing.
LEMMA OfSessionIs ==
    ASSUME NEW events \in Seq(Entry), NEW mine \in OfSession(events)
    PROVE  /\ mine \in Seq(Entry)
           /\ \A k \in DOMAIN mine : \E i \in DOMAIN events : mine[k] = events[i]
           /\ \A i \in DOMAIN events : ChannelOf[events[i].data.job] = Session =>
                  \E k \in DOMAIN mine : mine[k] = events[i]
  <1> DEFINE S == { i \in DOMAIN events : ChannelOf[events[i].data.job] = Session }
             n == Cardinality(S)
  <1>1. PICK order \in [1 .. n -> S] :
            /\ \A i \in S : \E k \in DOMAIN order : order[k] = i
            /\ mine = [k \in DOMAIN order |-> events[order[k]]]
    BY DEF OfSession
  <1>2. n \in Nat
    <2>1. Len(events) \in Nat /\ S \subseteq 1 .. Len(events)
      OBVIOUS
    <2>2. IsFiniteSet(1 .. Len(events))
      <3>1. 1 \in Int /\ Len(events) \in Int
        BY <2>1
      <3> QED
        BY <3>1, FS_Interval, Zenon
    <2> HIDE DEF S
    <2> QED
      BY <2>1, <2>2, FS_Subset, FS_CardinalityType
  <1>3. DOMAIN order = 1 .. n /\ \A k \in 1 .. n : order[k] \in S
    BY <1>1
  <1>4. mine \in Seq(Entry)
    <2>1. \A k \in 1 .. n : events[order[k]] \in Entry
      BY <1>3
    <2>2. mine \in [1 .. n -> Entry]
      BY <1>1, <1>3, <2>1
    <2> HIDE DEF n
    <2> QED
      BY <1>2, <2>2
  <1> QED
    BY <1>1, <1>3, <1>4

LEMMA SendKeeps ==
    ASSUME WireTruthful, wire \in Seq(Entry), NEW events \in Seq(Entry),
           \A k \in DOMAIN events : Announced(events[k]), SendToPage(events)
    PROVE  /\ wire' \in Seq(Entry)
           /\ \A k \in DOMAIN wire' : Announced(wire'[k])
           /\ \A k \in DOMAIN wire : k \in DOMAIN wire' /\ wire'[k] = wire[k]
           /\ ws.at = "open" =>
                  \A i \in DOMAIN events : ChannelOf[events[i].data.job] = Session =>
                      \E k \in DOMAIN wire' : wire'[k] = events[i]
  <1>1. CASE ws.at # "open"
    BY <1>1 DEF SendToPage, WireTruthful
  <1>2. CASE ws.at = "open"
    <2>1. PICK mine \in OfSession(events) : wire' = wire \o mine
      BY <1>2 DEF SendToPage
    <2>2. /\ mine \in Seq(Entry)
          /\ \A k \in DOMAIN mine : \E i \in DOMAIN events : mine[k] = events[i]
          /\ \A i \in DOMAIN events : ChannelOf[events[i].data.job] = Session =>
                 \E k \in DOMAIN mine : mine[k] = events[i]
      BY OfSessionIs
    <2>3. /\ wire' \in Seq(Entry)
          /\ Len(wire') = Len(wire) + Len(mine)
          /\ \A i \in 1 .. Len(wire) + Len(mine) :
                 wire'[i] = IF i <= Len(wire) THEN wire[i] ELSE mine[i - Len(wire)]
      BY <2>1, <2>2, ConcatProperties
    <2>4. /\ DOMAIN wire = 1 .. Len(wire) /\ Len(wire) \in Nat
          /\ DOMAIN mine = 1 .. Len(mine) /\ Len(mine) \in Nat
          /\ DOMAIN wire' = 1 .. Len(wire) + Len(mine)
      BY <2>2, <2>3
    <2>5. \A k \in DOMAIN wire : k \in DOMAIN wire' /\ wire'[k] = wire[k]
      BY <2>3, <2>4
    <2>6. \A k \in DOMAIN mine : Len(wire) + k \in DOMAIN wire' /\ wire'[Len(wire) + k] = mine[k]
      BY <2>3, <2>4
    <2>7. ASSUME NEW k \in DOMAIN wire' PROVE Announced(wire'[k])
      <3>1. CASE k <= Len(wire)
        BY <2>3, <2>4, <3>1 DEF WireTruthful
      <3>2. CASE ~ (k <= Len(wire))
        <4>1. k - Len(wire) \in DOMAIN mine /\ wire'[k] = mine[k - Len(wire)]
          BY <2>3, <2>4, <3>2
        <4> QED
          BY <2>2, <4>1
      <3> QED
        BY <3>1, <3>2
    <2> QED
      BY <2>2, <2>3, <2>5, <2>6, <2>7
  <1> QED
    BY <1>1, <1>2

-----------------------------------------------------------------------------
(***************************************************************************)
(* WebsocketInv, one lemma for each kind of step.                          *)
(***************************************************************************)

\* The page keeps an event on a job until it has no more need of one.
LEMMA JobStays ==
    ASSUME PageInv, PageStep, UNCHANGED <<serverVars, wire>>,
           NEW j \in Mine, Wanted(j)'
    PROVE  Wanted(j) /\ (JobInHand(j) => JobInHand(j)')
  <1>1. ClientTypeOK /\ ListensWhileWaiting /\ Truthful
    BY DEF PageInv
  <1>2. ASSUME NEW e \in Entry, NEW B, IsABag(B), DOMAIN B \subseteq DOMAIN timers,
               \A t \in DOMAIN timers : t = e \/ t \in DOMAIN B,
               Deliver(e, B) \/ Retry(e, B),
               \A h \in DOMAIN inbox :
                   inbox[h] = e \/ \E k \in DOMAIN inbox' : inbox'[k] = inbox[h]
        PROVE  Wanted(j) /\ (JobInHand(j) => JobInHand(j)')
    <2>1. DOMAIN B \subseteq DOMAIN timers'
      BY <1>1, <1>2, HandlingTypes
    <2>2. /\ \/ promise' = promise
             \/ /\ e.data.job \in Mine /\ promise[e.data.job] = "waiting"
                /\ promise' = [promise EXCEPT ![e.data.job] = "rejected"]
          /\ fetching \subseteq fetching'
          /\ gaveUp \subseteq gaveUp'
          /\ \/ e.data.job \in Mine /\ promise'[e.data.job] \notin {"none", "waiting"}
             \/ e \in DOMAIN timers'
             \/ e.data.job \in fetching'
             \/ e.data.job \in gaveUp'
      BY <1>1, <1>2, HandlingEffects
    <2>3. Wanted(j)
      BY <1>1, <2>2 DEF Wanted, ClientTypeOK
    <2>4. e.data.job = j => JobInHand(j)'
      BY <2>2 DEF Wanted, JobInHand
    <2>5. ASSUME NEW x, x # e, x.data.job = j, x \in DOMAIN timers PROVE JobInHand(j)'
      BY <1>2, <2>1, <2>5 DEF JobInHand
    <2>6. ASSUME NEW h \in DOMAIN inbox, inbox[h] # e, inbox[h].data.job = j PROVE JobInHand(j)'
      BY <1>2, <2>6 DEF JobInHand
    <2>7. (j \in fetching \/ j \in gaveUp \/ \E k \in DOMAIN wire : wire[k].data.job = j)
              => JobInHand(j)'
      BY <2>2 DEF JobInHand
    <2> QED
      BY <2>3, <2>4, <2>5, <2>6, <2>7 DEF JobInHand
  <1>3. CASE Process
    <2>1. inbox # <<>> /\ IsABag(timers)
      BY <1>1, <1>3 DEF Process, Idle, ClientTypeOK
    <2>2. /\ Head(inbox) \in Entry
          /\ 1 \in DOMAIN inbox /\ Head(inbox) = inbox[1]
          /\ \A k \in DOMAIN Tail(inbox) :
                  k + 1 \in DOMAIN inbox /\ Tail(inbox)[k] = inbox[k + 1]
          /\ \A k \in DOMAIN inbox : k = 1 \/ k - 1 \in DOMAIN Tail(inbox)
          /\ \A k \in DOMAIN inbox : k \in Nat
      BY <1>1, <2>1, InboxSplits
    <2>3. /\ Deliver(Head(inbox), timers) \/ Retry(Head(inbox), timers)
          /\ inbox' = Tail(inbox)
      BY <1>3 DEF Process
    <2>4. \A h \in DOMAIN inbox :
              inbox[h] = Head(inbox) \/ \E k \in DOMAIN inbox' : inbox'[k] = inbox[h]
      <3> SUFFICES ASSUME NEW h \in DOMAIN inbox, h # 1
                   PROVE  h - 1 \in DOMAIN inbox' /\ inbox'[h - 1] = inbox[h]
        BY <2>2
      <3>1. h - 1 \in DOMAIN Tail(inbox) /\ (h - 1) + 1 = h
        BY <2>2
      <3> QED
        BY <2>2, <2>3, <3>1
    <2> QED
      BY <1>2, <2>1, <2>2, <2>3, <2>4
  <1>4. ASSUME NEW e \in DOMAIN timers, FireTimer(e)
        PROVE  Wanted(j) /\ (JobInHand(j) => JobInHand(j)')
    <2>1. IsABag(timers) /\ e \in Entry
      BY <1>1 DEF ClientTypeOK
    <2>2. /\ IsABag(timers (-) SetToBag({e}))
          /\ DOMAIN (timers (-) SetToBag({e})) \subseteq DOMAIN timers
          /\ \A x \in DOMAIN timers : x # e => x \in DOMAIN (timers (-) SetToBag({e}))
      BY <2>1, RemoveOne
    <2>3. /\ Deliver(e, timers (-) SetToBag({e})) \/ Retry(e, timers (-) SetToBag({e}))
          /\ inbox' = inbox
      BY <1>4 DEF FireTimer
    <2> QED
      BY <1>2, <2>1, <2>2, <2>3
  <1>5. ASSUME NEW i \in Mine, WaitForAsyncData(i) \/ FetchReturns(i)
        PROVE  Wanted(j) /\ (JobInHand(j) => JobInHand(j)')
    <2>1. /\ UNCHANGED <<timers, inbox, gaveUp>>
          /\ fetching' = fetching \/ (FetchReturns(i) /\ i \in fetching /\ fetching' = fetching \ {i})
      BY <1>5 DEF WaitForAsyncData, FetchReturns
    <2>2. Wanted(j)
      BY <1>1, <1>5 DEF Wanted, WaitForAsyncData, FetchReturns, Settle, ClientTypeOK
    <2>3. FetchReturns(i) => ~ Wanted(i)'
      BY <1>1 DEF Wanted, FetchReturns, Settle, ClientTypeOK, Truthful
    <2> QED
      BY <2>1, <2>2, <2>3 DEF JobInHand
  <1> QED
    BY <1>3, <1>4, <1>5 DEF PageStep

\* Redis adds to the global stream behind the server's cursor only.
LEMMA PassedOnIsOld ==
    ASSUME ServerInv, Position(firehoseId), [ServerNext]_serverVars, firehoseId' = firehoseId,
           NEW j, PassedOn(j)'
    PROVE  PassedOn(j)
  <1>1. TypeInv /\ OrderInv
    BY DEF ServerInv, FollowInv
  <1>2. /\ full.floor \in Nat /\ full'.floor \in Nat /\ full.floor <= full'.floor
        /\ \A i \in DOMAIN full.log : i \in DOMAIN full'.log /\ full'.log[i] = full.log[i]
        /\ \A i \in DOMAIN full'.log : i \notin DOMAIN full.log =>
               /\ Before(NoId, full'.log[i].id)
               /\ \A k \in DOMAIN full.log : Before(full.log[k].id, full'.log[i].id)
    BY <1>1, FullGrows
  <1>3. full.log \in Seq(Entry) /\ full'.log \in Seq(Entry)
    BY <1>1, TypeInvStep DEF TypeInv, ServerTypeOK, Stream
  <1>4. PICK i \in full'.floor + 1 .. Len(full'.log) :
            full'.log[i].data.job = j /\ NotAfter(full'.log[i].id, firehoseId)
    BY DEF PassedOn
  <1>5. i \in DOMAIN full'.log /\ i \in Nat /\ full.floor + 1 <= i
    BY <1>2, <1>3, <1>4
  <1>6. full'.log[i].id \in StreamId /\ firehoseId \in StreamId
    <2>1. full'.log[i] \in Entry
      BY <1>3, <1>5
    <2>2. \A k \in DOMAIN full.log : full.log[k] \in Entry
      BY <1>3
    <2> QED
      BY <2>1, <2>2 DEF Position, Entry, NoId, StreamId
  <1>7. ~ Before(firehoseId, full'.log[i].id)
    BY <1>4, <1>6, BeforeIsStrictOrder DEF NotAfter
  <1>8. i \in DOMAIN full.log
    BY <1>2, <1>5, <1>7 DEF Position
  <1>9. i \in full.floor + 1 .. Len(full.log)
    BY <1>2, <1>3, <1>5, <1>8
  <1> QED
    BY <1>2, <1>4, <1>8, <1>9 DEF PassedOn

\* The server is past nothing that has not been submitted.
LEMMA PassedOnIsSubmitted ==
    ASSUME ServerInv, NEW j, PassedOn(j)
    PROVE  task[j] # "unsent"
  <1>1. full.log \in Seq(Entry) /\ full.floor \in Nat /\ OfSubmitted(full)
    BY DEF ServerInv, FollowInv, TypeInv, ServerTypeOK, Stream, SubmittedInv
  <1>2. PICK i \in full.floor + 1 .. Len(full.log) : full.log[i].data.job = j
    BY DEF PassedOn
  <1>3. i \in DOMAIN full.log
    BY <1>1
  <1> QED
    BY <1>1, <1>2, <1>3 DEF OfSubmitted

LEMMA WebsocketByServer ==
    ASSUME WebsocketInv, WsServerStep
    PROVE  WebsocketInv'
  <1>1. /\ ServerInv /\ TypeInv /\ OrderInv /\ PageInv /\ WsTypeOK
        /\ WireTruthful /\ CursorInv /\ HeldInv /\ Offered /\ Retrying
        /\ [ServerNext]_serverVars
        /\ UNCHANGED <<pageVars, firehoseId, xread, catchup, ws, wire, connectRetries, breaks>>
    BY DEF WebsocketInv, WsServerStep, ServerInv, FollowInv
  <1>2. \A j \in Mine : line'[j] = IF /\ task[j] = "unsent" /\ task'[j] # "unsent"
                                      /\ ws.at = "open" /\ firehoseId # NoId
                                   THEN "held"
                                   ELSE line[j]
    BY DEF WsServerStep
  <1>3. ServerInv' /\ PageInv'
    BY <1>1, ServerInvStep, PageInvByServer
  <1>4. WsTypeOK'
    <2>1. line' \in [Mine -> {"none", "held", "broken"}]
      BY <1>1 DEF WsServerStep, WsTypeOK
    <2> QED
      BY <1>1, <1>3, <2>1 DEF WsTypeOK, ServerInv, FollowInv, TypeInv, PageInv
  <1>5. WireTruthful'
    BY <1>1, AnnouncedStays DEF WireTruthful
  <1>6. CursorInv' /\ Retrying'
    <2>1. \A i \in DOMAIN full.log : i \in DOMAIN full'.log /\ full'.log[i] = full.log[i]
      BY <1>1, FullGrows
    <2> QED
      BY <1>1, <2>1 DEF CursorInv, Position, Retrying
  <1>7. HeldInv'
    BY <1>1, <1>2, SubmittedStays, MineType DEF HeldInv
  <1>8. ASSUME NEW j \in Mine, line'[j] = "held", Wanted(j)', PassedOn(j)'
        PROVE  JobInHand(j)'
    <2>1. PassedOn(j)
      BY <1>1, <1>8, PassedOnIsOld DEF CursorInv
    <2>2. task[j] # "unsent"
      BY <1>1, <2>1, PassedOnIsSubmitted
    <2>3. line[j] = "held" /\ Wanted(j)
      BY <1>1, <1>2, <1>8, <2>2 DEF Wanted, pageVars
    <2>4. JobInHand(j)
      BY <1>1, <2>1, <2>3 DEF Offered
    <2> QED
      BY <1>1, <2>4 DEF JobInHand, pageVars
  <1>9. Offered'
    BY <1>8 DEF Offered
  <1> QED
    BY <1>3, <1>4, <1>5, <1>6, <1>7, <1>9 DEF WebsocketInv

LEMMA WebsocketByPage ==
    ASSUME WebsocketInv, PageStep, UNCHANGED <<serverVars, wsVars>>
    PROVE  WebsocketInv'
  <1>1. /\ ServerInv /\ PageInv /\ WsTypeOK
        /\ WireTruthful /\ CursorInv /\ HeldInv /\ Offered /\ Retrying
    BY DEF WebsocketInv
  <1>2. ServerInv' /\ PageInv'
    BY <1>1, ServerInvStep, PageInvByPage
  <1>3. WsTypeOK'
    BY <1>1, <1>2 DEF WsTypeOK, ServerInv, FollowInv, TypeInv, PageInv, wsVars
  <1>4. WireTruthful' /\ CursorInv' /\ HeldInv' /\ Retrying'
    BY <1>1 DEF WireTruthful, Announced, Reported, CursorInv, Position, HeldInv, Retrying,
                wsVars, serverVars
  <1>5. ASSUME NEW j \in Mine, line'[j] = "held", Wanted(j)', PassedOn(j)'
        PROVE  JobInHand(j)'
    <2>1. line[j] = "held" /\ PassedOn(j)
      BY <1>5 DEF PassedOn, wsVars, serverVars
    <2>2. wire' = wire
      BY DEF wsVars
    <2>3. Wanted(j) /\ (JobInHand(j) => JobInHand(j)')
      BY <1>1, <1>5, <2>2, JobStays
    <2> QED
      BY <1>1, <2>1, <2>3 DEF Offered
  <1>6. Offered'
    BY <1>5 DEF Offered
  <1> QED
    BY <1>2, <1>3, <1>4, <1>6 DEF WebsocketInv

\* A step of the server or of the network, which takes no event away from a
\* page that holds its connection.
LEMMA WebsocketByServing ==
    ASSUME WebsocketInv, UNCHANGED <<serverVars, pageVars>>,
           WsTypeOK', Retrying', CursorInv', HeldInv',
           \A k \in DOMAIN wire' : Announced(wire'[k]),
           \A j \in Mine : line'[j] = "held" =>
               /\ line[j] = "held" /\ firehoseId' = firehoseId
               /\ \A k \in DOMAIN wire : k \in DOMAIN wire' /\ wire'[k] = wire[k]
    PROVE  WebsocketInv'
  <1>1. ServerInv /\ PageInv /\ TypeInv /\ Offered
    BY DEF WebsocketInv, ServerInv, FollowInv
  <1>2. ServerInv' /\ PageInv'
    BY <1>1, ServerInvStep, PageInvByServer
  <1>3. WireTruthful'
    <2>1. \A e : Announced(e) => Announced(e)'
      BY DEF Announced, Reported, serverVars
    <2> QED
      BY <2>1 DEF WireTruthful
  <1>4. ASSUME NEW j \in Mine, line'[j] = "held", Wanted(j)', PassedOn(j)'
        PROVE  JobInHand(j)'
    <2>1. line[j] = "held" /\ Wanted(j) /\ PassedOn(j)
      BY <1>4 DEF Wanted, PassedOn, pageVars, serverVars
    <2>2. JobInHand(j)
      BY <1>1, <2>1 DEF Offered
    <2> QED
      BY <1>4, <2>2 DEF JobInHand, pageVars
  <1>5. Offered'
    BY <1>4 DEF Offered
  <1> QED
    BY <1>2, <1>3, <1>5 DEF WebsocketInv

\* What is read from the channel's stream may be sent.
LEMMA ChannelRange ==
    ASSUME ServerInv, NEW start, NEW end, NEW count \in Nat,
           NEW events \in XRange(scoped[Session], start, end, count)
    PROVE  events \in Seq(Entry) /\ \A k \in DOMAIN events : Announced(events[k])
  <1>1. Session \in Channels
    BY ClientAssumption
  <1>2. Channel \in Stream /\ Increases(Channel) /\ Channel = scoped[Session]
    BY <1>1, ChannelTypes DEF Channel
  <1>3. /\ events \in Seq(Entry)
        /\ \A k \in DOMAIN events : \E i \in DOMAIN Channel.log : events[k] = Channel.log[i]
    BY <1>2, RangeEntries
  <1> QED
    BY <1>3, HeldIsAnnounced DEF Held

LEMMA IdTypes ==
    /\ NoId \in StreamId
    /\ \A id \in StreamId : incrementId(id) \in StreamId
    /\ Plus(MaxMs) \in StreamId
    /\ \A s \in Stream : LastIdOf(s) \in StreamId
    /\ \A s \in Stream : Len(s.log) \in Nat
  <1>1. MaxMs \in Nat
    BY AsyncQueriesAssumption
  <1>2. NoId \in StreamId /\ Plus(MaxMs) \in StreamId
    BY <1>1 DEF NoId, Plus, StreamId
  <1>3. \A id \in StreamId : incrementId(id) \in StreamId
    BY DEF incrementId, StreamId
  <1>4. \A s \in Stream : Len(s.log) \in Nat
    BY DEF Stream
  <1> QED
    BY <1>2, <1>3, <1>4, LastIdType

LEMMA WebsocketByCatchingUp ==
    ASSUME WebsocketInv, FetchRangeFromStream \/ OtherPageReconnects
    PROVE  WebsocketInv'
  <1>1. /\ ServerInv /\ PageInv /\ WsTypeOK
        /\ WireTruthful /\ CursorInv /\ HeldInv /\ Retrying
    BY DEF WebsocketInv
  <1>2. scoped[Session] \in Stream /\ Len(scoped[Session].log) \in Nat
    BY <1>1, ClientAssumption, ChannelTypes DEF Channel, Stream
  <1>3. UNCHANGED <<serverVars, pageVars, firehoseId, xread, ws, connectRetries, line>>
    BY DEF FetchRangeFromStream, OtherPageReconnects
  <1>4. /\ wire' \in Seq(Entry)
        /\ \A k \in DOMAIN wire' : Announced(wire'[k])
        /\ \A k \in DOMAIN wire : k \in DOMAIN wire' /\ wire'[k] = wire[k]
    <2>1. CASE FetchRangeFromStream
      <3>1. PICK events \in XRange(scoped[Session], catchup.start, catchup.end,
                                   Len(scoped[Session].log)) :
                SendToPage(events)
        BY <2>1 DEF FetchRangeFromStream
      <3>2. events \in Seq(Entry) /\ \A k \in DOMAIN events : Announced(events[k])
        BY <1>1, <1>2, ChannelRange
      <3> QED
        BY <1>1, <3>1, <3>2, SendKeeps DEF WsTypeOK
    <2>2. CASE OtherPageReconnects
      <3>1. PICK i \in DOMAIN scoped[Session].log :
                \E events \in XRange(scoped[Session], incrementId(scoped[Session].log[i].id),
                                     IF firehoseId = NoId THEN Plus(now) ELSE firehoseId,
                                     Len(scoped[Session].log)) :
                    SendToPage(events)
        BY <2>2 DEF OtherPageReconnects
      <3>2. PICK events \in XRange(scoped[Session], incrementId(scoped[Session].log[i].id),
                                   IF firehoseId = NoId THEN Plus(now) ELSE firehoseId,
                                   Len(scoped[Session].log)) :
                SendToPage(events)
        BY <3>1
      <3>3. events \in Seq(Entry) /\ \A k \in DOMAIN events : Announced(events[k])
        BY <1>1, <1>2, ChannelRange
      <3> QED
        BY <1>1, <3>2, <3>3, SendKeeps DEF WsTypeOK
    <2> QED
      BY <2>1, <2>2
  <1>5. WsTypeOK'
    <2>1. catchup' \in [at : {"idle", "due"}, start : StreamId, end : StreamId]
      BY <1>1, IdTypes DEF FetchRangeFromStream, OtherPageReconnects, WsTypeOK, NoCatchup
    <2>2. breaks' \in 0 .. MaxBreaks
      BY <1>1, WebsocketAssumption DEF FetchRangeFromStream, OtherPageReconnects, WsTypeOK
    <2>3. ServerTypeOK' /\ ClientTypeOK'
      BY <1>1, <1>3, ServerInvStep, PageInvByServer
      DEF WsTypeOK, ServerInv, FollowInv, TypeInv, PageInv
    <2> QED
      BY <1>1, <1>3, <1>4, <2>1, <2>2, <2>3 DEF WsTypeOK
  <1>6. CursorInv' /\ HeldInv' /\ Retrying'
    BY <1>1, <1>3 DEF CursorInv, Position, HeldInv, Retrying, serverVars
  <1> QED
    BY <1>3, <1>4, <1>5, <1>6, WebsocketByServing

\* The next entries of the global stream are sent, none of them left out.
LEMMA WebsocketByReading ==
    ASSUME WebsocketInv, XReadAnswers
    PROVE  WebsocketInv'
  <1>1. /\ ServerInv /\ TypeInv /\ PageInv /\ WsTypeOK
        /\ WireTruthful /\ CursorInv /\ HeldInv /\ Offered /\ Retrying
    BY DEF WebsocketInv, ServerInv, FollowInv
  <1>2. PICK events \in Newer : /\ events # <<>>
                                /\ SendToPage(events)
                                /\ firehoseId' = events[Len(events)].id
    BY DEF XReadAnswers
  <1>3. /\ full \in Stream /\ Increases(full) /\ Numbered(full)
        /\ \A i \in DOMAIN full.log : full.log[i] \in Entry /\ Announced(full.log[i])
    BY <1>1, FullTypes
  <1>4. /\ events \in Seq(Entry)
        /\ \A k \in DOMAIN events :
               \E i \in DOMAIN full.log : full.floor < i /\ events[k] = full.log[i]
        /\ \A i \in DOMAIN full.log :
               full.floor < i /\ ~ Before(full.log[i].id, incrementId(xread.from)) =>
                   \/ \E k \in DOMAIN events : events[k] = full.log[i]
                   \/ \A k \in DOMAIN events : Before(events[k].id, full.log[i].id)
    BY <1>3, RangeEntries, WebsocketAssumption DEF Newer
  <1>5. Len(events) \in DOMAIN events
    BY <1>2, <1>4
  <1>6. PICK m \in DOMAIN full.log : events[Len(events)] = full.log[m]
    BY <1>4, <1>5
  <1>7. /\ Position(firehoseId') /\ firehoseId' \in StreamId
        /\ Before(NoId, firehoseId') /\ firehoseId' # NoId
    <2>1. firehoseId' = full.log[m].id
      BY <1>2, <1>6
    <2>2. firehoseId' \in StreamId /\ Before(NoId, firehoseId')
      BY <1>3, <2>1 DEF Numbered, Entry
    <2>3. firehoseId' # NoId
      BY <2>2, IdTypes, BeforeIsStrictOrder
    <2> QED
      BY <2>1, <2>2, <2>3 DEF Position
  <1>8. /\ wire' \in Seq(Entry)
        /\ \A k \in DOMAIN wire' : Announced(wire'[k])
        /\ \A k \in DOMAIN wire : k \in DOMAIN wire' /\ wire'[k] = wire[k]
        /\ ws.at = "open" =>
               \A i \in DOMAIN events : ChannelOf[events[i].data.job] = Session =>
                   \E k \in DOMAIN wire' : wire'[k] = events[i]
    <2>1. \A k \in DOMAIN events : Announced(events[k])
      BY <1>3, <1>4
    <2> QED
      BY <1>1, <1>2, <1>4, <2>1, SendKeeps DEF WsTypeOK
  <1>9. /\ UNCHANGED <<serverVars, pageVars, catchup, ws, connectRetries, breaks, line>>
        /\ xread' = NoRead /\ xread.at = "blocked"
    BY DEF XReadAnswers
  <1>10. ServerInv' /\ PageInv'
    BY <1>1, <1>9, ServerInvStep, PageInvByServer
  <1>11. WsTypeOK'
    BY <1>1, <1>7, <1>8, <1>9, <1>10, IdTypes
    DEF WsTypeOK, ServerInv, FollowInv, TypeInv, PageInv, NoRead
  <1>12. WireTruthful'
    BY <1>8, <1>9 DEF WireTruthful, Announced, Reported, serverVars
  <1>13. CursorInv' /\ HeldInv' /\ Retrying'
    BY <1>1, <1>7, <1>9 DEF CursorInv, Position, HeldInv, Retrying, NoRead, serverVars
  <1>14. ASSUME NEW j \in Mine, line'[j] = "held", Wanted(j)', PassedOn(j)'
         PROVE  JobInHand(j)'
    <2>1. line[j] = "held" /\ Wanted(j) /\ ws.at = "open" /\ firehoseId # NoId
      BY <1>1, <1>9, <1>14 DEF Wanted, pageVars, HeldInv
    <2>2. xread.from = firehoseId
      BY <1>1, <1>9, <2>1 DEF CursorInv
    <2>3. PICK i \in full.floor + 1 .. Len(full.log) :
              full.log[i].data.job = j /\ NotAfter(full.log[i].id, firehoseId')
      BY <1>9, <1>14 DEF PassedOn, serverVars
    <2>4. i \in DOMAIN full.log /\ full.floor < i
      BY <1>3, <2>3 DEF Stream
    <2>5. /\ full.log[i].id \in StreamId /\ firehoseId \in StreamId
      BY <1>1, <1>3, <2>4 DEF Entry, WsTypeOK
    <2>6. CASE NotAfter(full.log[i].id, firehoseId)
      <3>1. PassedOn(j)
        BY <2>3, <2>6 DEF PassedOn
      <3>2. JobInHand(j)
        BY <1>1, <2>1, <3>1 DEF Offered
      <3> QED
        BY <1>8, <1>9, <3>2 DEF JobInHand, pageVars
    <2>7. CASE ~ NotAfter(full.log[i].id, firehoseId)
      <3>1. Before(firehoseId, full.log[i].id)
        BY <2>5, <2>7, BeforeIsStrictOrder DEF NotAfter
      <3>2. ~ Before(full.log[i].id, incrementId(xread.from))
        BY <2>2, <2>5, <3>1, IncrementIsSuccessor
      <3>3. ~ Before(firehoseId', full.log[i].id)
        BY <1>7, <2>3, <2>5, BeforeIsStrictOrder DEF NotAfter
      <3>4. PICK k \in DOMAIN events : events[k] = full.log[i]
        BY <1>2, <1>4, <1>5, <2>4, <3>2, <3>3
      <3>5. ChannelOf[events[k].data.job] = Session
        BY <2>3, <3>4, MineType
      <3>6. \E h \in DOMAIN wire' : wire'[h].data.job = j
        BY <1>8, <2>1, <2>3, <3>4, <3>5
      <3> QED
        BY <3>6 DEF JobInHand
    <2> QED
      BY <2>6, <2>7
  <1>15. Offered'
    BY <1>14 DEF Offered
  <1> QED
    BY <1>10, <1>11, <1>12, <1>13, <1>15 DEF WebsocketInv

LEMMA WebsocketByConnecting ==
    ASSUME WebsocketInv,
           \/ XReadStarts \/ XReadTimesOut \/ WsConnection
           \/ Break \/ ServerRestarts \/ Reconnect
    PROVE  WebsocketInv'
  <1>1. /\ ServerInv /\ PageInv /\ WsTypeOK
        /\ WireTruthful /\ CursorInv /\ HeldInv /\ Retrying
    BY DEF WebsocketInv
  <1>2. UNCHANGED <<serverVars, pageVars>>
    BY DEF XReadStarts, XReadTimesOut, WsConnection, Break, ServerRestarts, Reconnect
  <1>3. ServerTypeOK' /\ ClientTypeOK'
    BY <1>1, <1>2, ServerInvStep, PageInvByServer
    DEF ServerInv, FollowInv, TypeInv, PageInv
  <1>4. full \in Stream /\ lastId \in StreamId /\ ConnectMaxRetries \in Nat
        /\ MaxBreaks \in Nat
    BY <1>1, FullTypes, WebsocketAssumption DEF WsTypeOK, ClientTypeOK
  <1>5. wire' = wire \/ wire' = <<>>
    BY DEF XReadStarts, XReadTimesOut, WsConnection, Break, ServerRestarts, Reconnect
  <1>6. \A k \in DOMAIN wire' : Announced(wire'[k])
    BY <1>1, <1>5 DEF WireTruthful
  <1>7. firehoseId' \in StreamId /\ xread' \in [at : {"idle", "blocked"}, from : StreamId]
    BY <1>1, <1>4, IdTypes
    DEF WsTypeOK, XReadStarts, XReadTimesOut, WsConnection, Break, ServerRestarts, Reconnect,
        NoRead
  <1>8. catchup' \in [at : {"idle", "due"}, start : StreamId, end : StreamId]
    BY <1>1, IdTypes
    DEF WsTypeOK, XReadStarts, XReadTimesOut, WsConnection, Break, ServerRestarts, Reconnect,
        NoCatchup
  <1>9. /\ ws' \in [at : {"connecting", "open", "closed", "fallback", "over"}, last : StreamId]
        /\ connectRetries' \in 0 .. ConnectMaxRetries + 1
        /\ breaks' \in 0 .. MaxBreaks
        /\ Retrying'
    BY <1>1, <1>4
    DEF WsTypeOK, XReadStarts, XReadTimesOut, WsConnection, Break, ServerRestarts, Reconnect,
        Retrying
  <1>10. line' \in [Mine -> {"none", "held", "broken"}]
    BY <1>1
    DEF WsTypeOK, XReadStarts, XReadTimesOut, WsConnection, Break, ServerRestarts, Reconnect
  <1>11. WsTypeOK'
    <2>1. wire' \in Seq(Entry)
      <3>1. wire \in Seq(Entry) /\ <<>> \in Seq(Entry)
        BY <1>1 DEF WsTypeOK
      <3> QED
        BY <1>5, <3>1
    <2> QED
      BY <1>3, <1>7, <1>8, <1>9, <1>10, <2>1 DEF WsTypeOK
  <1>12. CursorInv'
    BY <1>1, <1>2
    DEF CursorInv, Position, XReadStarts, XReadTimesOut, WsConnection, Break, ServerRestarts,
        Reconnect, NoRead, serverVars
  <1>13. \A j \in Mine : line'[j] = "held" =>
             line[j] = "held" /\ firehoseId' = firehoseId /\ wire' = wire /\ ws'.at = "open"
    BY <1>1
    DEF XReadStarts, XReadTimesOut, WsConnection, Break, ServerRestarts, Reconnect, HeldInv,
        WsTypeOK
  <1>14. HeldInv'
    BY <1>1, <1>2, <1>13 DEF HeldInv, serverVars
  <1> QED
    BY <1>2, <1>6, <1>9, <1>11, <1>12, <1>13, <1>14, WebsocketByServing

LEMMA WebsocketByMessage ==
    ASSUME WebsocketInv, Message
    PROVE  WebsocketInv'
  <1>1. /\ ServerInv /\ PageInv /\ WsTypeOK
        /\ WireTruthful /\ CursorInv /\ HeldInv /\ Offered /\ Retrying
    BY DEF WebsocketInv
  <1>2. /\ UNCHANGED <<serverVars, promise, listeners, fetching, retries, timers, lastId,
                       gaveUp, reloads, firehoseId, xread, catchup, ws, connectRetries,
                       breaks, line>>
        /\ inbox = <<>> /\ wire # <<>>
        /\ inbox' = <<Head(wire)>> /\ wire' = Tail(wire)
    BY DEF Message, Idle
  <1>3. wire \in Seq(Entry)
    BY <1>1 DEF WsTypeOK
  <1>4. /\ Head(wire) = wire[1] /\ 1 \in DOMAIN wire
        /\ Head(wire) \in Entry /\ Tail(wire) \in Seq(Entry)
        /\ Len(Tail(wire)) = Len(wire) - 1
        /\ \A k \in 1 .. Len(Tail(wire)) : Tail(wire)[k] = wire[k + 1]
    BY <1>2, <1>3, HeadTailProperties
  <1>5. /\ \A k \in DOMAIN wire' : k + 1 \in DOMAIN wire /\ wire'[k] = wire[k + 1]
        /\ \A k \in DOMAIN wire : k = 1 \/ (k - 1 \in DOMAIN wire' /\ wire'[k - 1] = wire[k])
    BY <1>2, <1>3, <1>4
  <1>6. /\ inbox' \in Seq(Entry) /\ DOMAIN inbox' = {1} /\ inbox'[1] = wire[1]
    BY <1>2, <1>4
  <1>7. ServerInv' /\ PageInv'
    <2>1. \A k \in DOMAIN inbox' : Announced(inbox'[k])
      BY <1>1, <1>4, <1>6 DEF WireTruthful
    <2> QED
      BY <1>1, <1>2, <1>6, <2>1, PageInvByArrival, ServerInvStep
  <1>8. WsTypeOK'
    BY <1>1, <1>2, <1>4, <1>7 DEF WsTypeOK, ServerInv, FollowInv, TypeInv, PageInv
  <1>9. WireTruthful'
    <2>1. \A k \in DOMAIN wire' : Announced(wire'[k])
      BY <1>1, <1>5 DEF WireTruthful
    <2>2. \A e : Announced(e) => Announced(e)'
      BY <1>2 DEF Announced, Reported, serverVars
    <2> QED
      BY <2>1, <2>2 DEF WireTruthful
  <1>10. CursorInv' /\ HeldInv' /\ Retrying'
    BY <1>1, <1>2 DEF CursorInv, Position, HeldInv, Retrying, serverVars
  <1>11. ASSUME NEW j \in Mine, line'[j] = "held", Wanted(j)', PassedOn(j)'
         PROVE  JobInHand(j)'
    <2>1. line[j] = "held" /\ Wanted(j) /\ PassedOn(j)
      BY <1>2, <1>11 DEF Wanted, PassedOn, serverVars
    <2>2. JobInHand(j)
      BY <1>1, <2>1 DEF Offered
    <2>3. ASSUME NEW k \in DOMAIN wire, wire[k].data.job = j PROVE JobInHand(j)'
      <3>1. CASE k = 1
        <4>1. 1 \in DOMAIN inbox' /\ inbox'[1].data.job = j
          BY <1>6, <2>3, <3>1
        <4> QED
          BY <4>1 DEF JobInHand
      <3>2. CASE k # 1
        <4>1. k - 1 \in DOMAIN wire' /\ wire'[k - 1].data.job = j
          BY <1>5, <2>3, <3>2
        <4> QED
          BY <4>1 DEF JobInHand
      <3> QED
        BY <3>1, <3>2
    <2>4. ~ \E k \in DOMAIN inbox : inbox[k].data.job = j
      BY <1>2
    <2> QED
      BY <1>2, <2>2, <2>3, <2>4 DEF JobInHand
  <1>12. Offered'
    BY <1>11 DEF Offered
  <1> QED
    BY <1>7, <1>8, <1>9, <1>10, <1>12 DEF WebsocketInv

LEMMA WebsocketByFallBack ==
    ASSUME WebsocketInv, FallBack
    PROVE  WebsocketInv'
  <1>1. /\ ServerInv /\ PageInv /\ WsTypeOK
        /\ WireTruthful /\ CursorInv /\ HeldInv /\ Offered /\ Retrying
    BY DEF WebsocketInv
  <1>2. /\ UNCHANGED <<serverVars, promise, listeners, fetching, retries, timers, lastId,
                       gaveUp, reloads, firehoseId, xread, catchup, wire, connectRetries,
                       breaks, line>>
        /\ inbox = <<>> /\ ws.at = "fallback" /\ ws' = [ws EXCEPT !.at = "over"]
    BY DEF FallBack, Idle
  <1>3. /\ inbox' \in Seq(Entry)
        /\ \A k \in DOMAIN inbox' : Announced(inbox'[k])
    <2>1. CASE listeners = {}
      <3>1. inbox' = <<>>
        BY <1>2, <2>1 DEF FallBack
      <3> QED
        BY <3>1
    <2>2. CASE listeners # {}
      <3>1. \E start : inbox' \in XRange(scoped[Session], start, Plus(now), BatchSize)
        BY <2>2 DEF FallBack
      <3> QED
        BY <1>1, <3>1, ChannelRange, WebsocketAssumption
    <2> QED
      BY <2>1, <2>2
  <1>4. ServerInv' /\ PageInv'
    BY <1>1, <1>2, <1>3, PageInvByArrival, ServerInvStep
  <1>5. ws' \in [at : {"connecting", "open", "closed", "fallback", "over"}, last : StreamId]
        /\ ws'.at = "over"
    BY <1>1, <1>2 DEF WsTypeOK
  <1>6. WsTypeOK'
    BY <1>1, <1>2, <1>4, <1>5 DEF WsTypeOK, ServerInv, FollowInv, TypeInv, PageInv
  <1>7. WireTruthful' /\ CursorInv' /\ Retrying'
    BY <1>1, <1>2, <1>5
    DEF WireTruthful, Announced, Reported, CursorInv, Position, Retrying, serverVars
  <1>8. \A j \in Mine : line'[j] # "held"
    BY <1>1, <1>2 DEF HeldInv
  <1>9. HeldInv' /\ Offered'
    BY <1>8 DEF HeldInv, Offered
  <1> QED
    BY <1>4, <1>6, <1>7, <1>9 DEF WebsocketInv

LEMMA WebsocketInvStep == WebsocketInv /\ [WsNext]_allWsVars => WebsocketInv'
  <1> SUFFICES ASSUME WebsocketInv, [WsNext]_allWsVars PROVE WebsocketInv'
    OBVIOUS
  <1>1. CASE UNCHANGED allWsVars
    <2>1. UNCHANGED <<serverVars, pageVars, wsVars>>
      BY <1>1 DEF allWsVars
    <2>2. /\ ServerInv /\ PageInv /\ WsTypeOK
          /\ WireTruthful /\ CursorInv /\ HeldInv /\ Retrying
      BY DEF WebsocketInv
    <2>3. ServerTypeOK' /\ ClientTypeOK'
      BY <2>1, <2>2, ServerInvStep, PageInvByServer
      DEF ServerInv, FollowInv, TypeInv, PageInv
    <2>4. WsTypeOK' /\ CursorInv' /\ HeldInv' /\ Retrying'
      BY <2>1, <2>2, <2>3
      DEF WsTypeOK, CursorInv, Position, HeldInv, Retrying, wsVars, serverVars
    <2>5. wire' = wire /\ firehoseId' = firehoseId /\ line' = line
      BY <2>1 DEF wsVars
    <2> QED
      BY <2>1, <2>2, <2>4, <2>5, WebsocketByServing DEF WireTruthful
  <1> QED
    BY <1>1, WebsocketByServer, WebsocketByPage, WebsocketByReading, WebsocketByConnecting,
       WebsocketByCatchingUp, WebsocketByMessage, WebsocketByFallBack
    DEF WsNext, WebsocketStep

LEMMA WebsocketInvInit == WsInit => WebsocketInv
  <1> SUFFICES ASSUME WsInit PROVE WebsocketInv
    OBVIOUS
  <1>1. ServerInv /\ PageInv
    BY ServerInvInit, PageInvInit DEF WsInit
  <1>2. wire \in Seq(Entry) /\ wire = <<>>
    BY DEF WsInit
  <1>3. WsTypeOK
    BY <1>1, <1>2, IdTypes, WebsocketAssumption
    DEF WsInit, WsTypeOK, ServerInv, FollowInv, TypeInv, PageInv, NoRead, NoCatchup
  <1>4. WireTruthful /\ CursorInv /\ HeldInv /\ Offered /\ Retrying
    BY <1>2, WebsocketAssumption
    DEF WsInit, WireTruthful, CursorInv, Position, NoRead, HeldInv, Offered, Retrying
  <1> QED
    BY <1>1, <1>3, <1>4 DEF WebsocketInv

(***************************************************************************)
(* For any number of jobs, channels and events, in whatever order the two  *)
(* streams, the timers and the faults come: an event that the server has   *)
(* read for a job that the page asked for over the connection it has still *)
(* is on its way to the page or in its hands, while the page waits.        *)
(***************************************************************************)
THEOREM WebsocketLosesNothing == WsSpec => []SteadyNothingLost
  <1>1. WebsocketInv => SteadyNothingLost
    BY DEF WebsocketInv, Offered, Wanted, SteadyNothingLost
  <1> QED
    BY <1>1, WebsocketInvInit, WebsocketInvStep, PTL DEF WsSpec

\* Over a WebSocket, a listener stays registered as long as its promise waits.
THEOREM WebsocketListens == WsSpec => []ListensWhileWaiting
  <1>1. WebsocketInv => ListensWhileWaiting
    BY DEF WebsocketInv, PageInv
  <1> QED
    BY <1>1, WebsocketInvInit, WebsocketInvStep, PTL DEF WsSpec

\* The variables of the page, of its connection and of the server have their types.
THEOREM WebsocketTypeCorrect == WsSpec => []WsTypeOK
  <1>1. WebsocketInv => WsTypeOK
    BY DEF WebsocketInv
  <1> QED
    BY <1>1, WebsocketInvInit, WebsocketInvStep, PTL DEF WsSpec

(***************************************************************************)
(* The WebSocket transport implements AsyncJob as well: catching up, being *)
(* sent events twice and the server's restarts change nothing of it.       *)
(***************************************************************************)
THEOREM WebsocketImplementsAsyncJob == WsSpec => ImplementsAsyncJob
  <1>1. WsInit => Job!Init
    BY PageInvInit DEF WsInit
  <1>2. WebsocketInv /\ [WsNext]_allWsVars => [Job!Next]_(Job!vars)
    <2> SUFFICES ASSUME WebsocketInv, [WsNext]_allWsVars PROVE [Job!Next]_(Job!vars)
      OBVIOUS
    <2>1. ServerInv /\ PageInv
      BY DEF WebsocketInv
    <2>2. ASSUME [ServerNext]_serverVars, promise' = promise PROVE [Job!Next]_(Job!vars)
      BY <2>1, <2>2, PublishStep
    <2>3. CASE PageStep /\ UNCHANGED <<serverVars, wsVars>>
      BY <2>1, <2>3, PageStepSimulates
    <2>4. CASE ~ (PageStep /\ UNCHANGED <<serverVars, wsVars>>)
      <3>1. [ServerNext]_serverVars /\ promise' = promise
        BY <2>4
        DEF WsNext, WsServerStep, WebsocketStep, XReadStarts, XReadTimesOut, XReadAnswers,
            WsConnection, FetchRangeFromStream, Message, Break, ServerRestarts,
            OtherPageReconnects, Reconnect, FallBack, allWsVars, pageVars
      <3> QED
        BY <2>2, <3>1
    <2> QED
      BY <2>3, <2>4
  <1> QED
    BY <1>1, <1>2, WebsocketInvInit, WebsocketInvStep, PTL
    DEF WsSpec, ImplementsAsyncJob, Job!Spec

=============================================================================
