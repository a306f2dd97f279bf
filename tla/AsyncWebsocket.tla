---------------------------- MODULE AsyncWebsocket ----------------------------
(***************************************************************************)
(* Global async queries over the WebSocket transport: superset-websocket   *)
(* follows the global stream and sends each event to the sockets of its    *)
(* channel; a page that connects again says which event it received last   *)
(* and is sent what its channel's stream holds since then.                 *)
(*                                                                         *)
(* The server uses one Redis connection.  Node runs each callback to its   *)
(* end, so a batch is sent and the cursor set in one step.                 *)
(***************************************************************************)
EXTENDS AsyncEventClient, FiniteSets

CONSTANTS
    BatchSize,          \* MAX_EVENT_COUNT and redisStreamReadCount
    ConnectMaxRetries,  \* wsConnectMaxRetries
    MaxBreaks           \* bound: how often a connection breaks

ASSUME WebsocketAssumption ==
    /\ BatchSize \in Nat \ {0}
    /\ ConnectMaxRetries \in Nat
    /\ MaxBreaks \in Nat

VARIABLES
    firehoseId,      \* server: lastFirehoseId, NoId for '$'
    xread,           \* server: the blocking XREAD, and the id it waits past
    catchup,         \* server: the XRANGE of the last connection, until it runs
    ws,              \* page: its WebSocket, and the last_id it connected with
    wire,            \* the events on their way to the page
    connectRetries,  \* page: wsConnectRetries
    breaks,          \* how often a connection broke
    line             \* history: job -> the connection it was submitted over

wsVars == <<firehoseId, xread, catchup, ws, wire, connectRetries, breaks, line>>
allWsVars == <<serverVars, pageVars, wsVars>>

NoRead == [at |-> "idle", from |-> NoId]
NoCatchup == [at |-> "idle", start |-> NoId, end |-> NoId]

(***************************************************************************)
(* ws.at: connecting, open, closed until the reconnection timer fires,     *)
(* fallback while the one request for events is due, over after it.        *)
(***************************************************************************)
WsTypeOK ==
    /\ ServerTypeOK
    /\ ClientTypeOK
    /\ firehoseId \in StreamId
    /\ xread \in [at : {"idle", "blocked"}, from : StreamId]
    /\ catchup \in [at : {"idle", "due"}, start : StreamId, end : StreamId]
    /\ ws \in [at : {"connecting", "open", "closed", "fallback", "over"}, last : StreamId]
    /\ wire \in Seq(Entry)
    /\ connectRetries \in 0 .. ConnectMaxRetries + 1
    /\ breaks \in 0 .. MaxBreaks
    /\ line \in [Mine -> {"none", "held", "broken"}]

WsInit ==
    /\ ServerInit
    /\ ClientInit
    /\ firehoseId = NoId
    /\ xread = NoRead
    /\ catchup = NoCatchup
    /\ ws = [at |-> "connecting", last |-> NoId]
    /\ wire = <<>>
    /\ connectRetries = 0
    /\ breaks = 0
    /\ line = [j \in Mine |-> "none"]

-----------------------------------------------------------------------------
\* The events of the page's session among events, in their order: the one
\* element of the set.
OfSession(events) ==
    LET mine == { i \in DOMAIN events : ChannelOf[events[i].data.job] = Session }
    IN  { [k \in DOMAIN order |-> events[order[k]]] :
            order \in { order \in [1 .. Cardinality(mine) -> mine] :
                          /\ \A i \in mine : \E k \in DOMAIN order : order[k] = i
                          /\ \A k, l \in DOMAIN order : k < l => order[k] < order[l] } }

\* What sendToChannel does for the page, given the events in their order.
SendToPage(events) ==
    IF ws.at = "open"
    THEN \E mine \in OfSession(events) : wire' = wire \o mine
    ELSE UNCHANGED wire

\* Mutant of XReadStarts: every XREAD waits for events newer than '$'.
XReadFromNow ==
    /\ xread.at = "idle"
    /\ xread' = [at |-> "blocked", from |-> LastIdOf(full)]
    /\ UNCHANGED <<serverVars, pageVars, firehoseId, catchup, ws, wire,
                   connectRetries, breaks, line>>

\* XREAD BLOCK is issued; Redis takes '$' for the newest id of this moment.
XReadStarts ==
    /\ xread.at = "idle"
    /\ xread' = [at |-> "blocked",
                 from |-> IF firehoseId = NoId THEN LastIdOf(full) ELSE firehoseId]
    /\ UNCHANGED <<serverVars, pageVars, firehoseId, catchup, ws, wire,
                   connectRetries, breaks, line>>

Newer == XRange(full, incrementId(xread.from), Plus(now), BatchSize)

\* redisStreamReadBlockMs pass without an event: the loop starts over.
XReadTimesOut ==
    /\ xread.at = "blocked"
    /\ <<>> \in Newer
    /\ xread' = NoRead
    /\ UNCHANGED <<serverVars, pageVars, firehoseId, catchup, ws, wire,
                   connectRetries, breaks, line>>

\* Events arrive: processStreamResults, then setLastFirehoseId.
XReadAnswers ==
    /\ xread.at = "blocked"
    /\ \E events \in Newer :
           /\ events # <<>>
           /\ SendToPage(events)
           /\ firehoseId' = events[Len(events)].id
    /\ xread' = NoRead
    /\ UNCHANGED <<serverVars, pageVars, catchup, ws, connectRetries, breaks, line>>

(***************************************************************************)
(* The upgrade succeeds: wsConnection tracks the client and asks for the   *)
(* events between its last_id and the server's cursor.                     *)
(***************************************************************************)
WsConnection ==
    /\ ws.at = "connecting"
    /\ ws' = [ws EXCEPT !.at = "open"]
    /\ connectRetries' = 0
    /\ catchup' = IF ws.last = NoId
                  THEN NoCatchup
                  ELSE [at |-> "due", start |-> incrementId(ws.last),
                        end |-> IF firehoseId = NoId THEN Plus(MaxMs) ELSE firehoseId]
    /\ UNCHANGED <<serverVars, pageVars, firehoseId, xread, wire, breaks, line>>

\* fetchRangeFromStream: XRANGE on the channel's stream, sent to the channel.
FetchRangeFromStream ==
    /\ catchup.at = "due"
    /\ \E events \in XRange(scoped[Session], catchup.start, catchup.end,
                            Len(scoped[Session].log)) :
           SendToPage(events)
    /\ catchup' = NoCatchup
    /\ UNCHANGED <<serverVars, pageVars, firehoseId, xread, ws, connectRetries,
                   breaks, line>>

\* A message event: processEvents([e]).
Message ==
    /\ Idle
    /\ wire # <<>>
    /\ inbox' = <<Head(wire)>>
    /\ wire' = Tail(wire)
    /\ UNCHANGED <<serverVars, promise, listeners, fetching, retries, timers,
                   lastId, gaveUp, reloads, firehoseId, xread, catchup, ws,
                   connectRetries, breaks, line>>

\* The connection breaks, or is refused; what is on its way is lost.
Break ==
    /\ "network" \in Faults
    /\ breaks < MaxBreaks
    /\ ws.at \in {"connecting", "open"}
    /\ breaks' = breaks + 1
    /\ ws' = [ws EXCEPT !.at = "closed"]
    /\ wire' = <<>>
    /\ catchup' = NoCatchup
    /\ line' = [j \in Mine |-> IF line[j] = "held" THEN "broken" ELSE line[j]]
    /\ UNCHANGED <<serverVars, pageVars, firehoseId, xread, connectRetries>>

\* The server starts again and follows the stream from '$'.
ServerRestarts ==
    /\ "server" \in Faults
    /\ breaks < MaxBreaks
    /\ breaks' = breaks + 1
    /\ ws' = IF ws.at = "open" THEN [ws EXCEPT !.at = "closed"] ELSE ws
    /\ wire' = <<>>
    /\ catchup' = NoCatchup
    /\ firehoseId' = NoId
    /\ xread' = NoRead
    /\ line' = [j \in Mine |-> "none"]
    /\ UNCHANGED <<serverVars, pageVars, connectRetries>>

(***************************************************************************)
(* Another page of the session connects again: what is read for it goes    *)
(* to every socket of the channel, so this page receives events twice.     *)
(***************************************************************************)
OtherPageReconnects ==
    /\ "network" \in Faults
    /\ breaks < MaxBreaks
    /\ breaks' = breaks + 1
    /\ \E i \in DOMAIN scoped[Session].log :
       \E events \in XRange(scoped[Session], incrementId(scoped[Session].log[i].id),
                            IF firehoseId = NoId THEN Plus(now) ELSE firehoseId,
                            Len(scoped[Session].log)) :
           events # <<>> /\ SendToPage(events)
    /\ UNCHANGED <<serverVars, pageVars, firehoseId, xread, catchup, ws,
                   connectRetries, line>>

\* wsConnectErrorDelay after 'close': connect again, or give up.
Reconnect ==
    /\ Idle
    /\ ws.at = "closed"
    /\ connectRetries' = connectRetries + 1
    /\ ws' = IF connectRetries < ConnectMaxRetries
             THEN [at |-> "connecting", last |-> lastId]
             ELSE [ws EXCEPT !.at = "fallback"]
    /\ UNCHANGED <<serverVars, pageVars, firehoseId, xread, catchup, wire,
                   breaks, line>>

(***************************************************************************)
(* "WebSocket not available, falling back to async polling": one call of   *)
(* loadEventsFromApi, which sets its timer only for the other transport.   *)
(***************************************************************************)
FallBack ==
    /\ Idle
    /\ ws.at = "fallback"
    /\ ws' = [ws EXCEPT !.at = "over"]
    /\ IF listeners = {}
       THEN UNCHANGED inbox
       ELSE LET start == IF lastId = NoId THEN NoId ELSE increment_id(lastId)
            IN  inbox' \in XRange(scoped[Session], start, Plus(now), BatchSize)
    /\ UNCHANGED <<serverVars, promise, listeners, fetching, retries, timers,
                   lastId, gaveUp, reloads, firehoseId, xread, catchup, wire,
                   connectRetries, breaks, line>>

(***************************************************************************)
(* The history notes the jobs that are submitted while the page is         *)
(* connected to a server that has found its place in the stream.           *)
(***************************************************************************)
WsServerStep ==
    /\ ServerNext
    /\ line' = [j \in Mine |-> IF /\ task[j] = "unsent" /\ task'[j] # "unsent"
                                  /\ ws.at = "open" /\ firehoseId # NoId
                               THEN "held"
                               ELSE line[j]]
    /\ UNCHANGED <<pageVars, firehoseId, xread, catchup, ws, wire, connectRetries, breaks>>

WebsocketStep ==
    XReadStarts \/ XReadTimesOut \/ XReadAnswers \/ WsConnection \/ FetchRangeFromStream

WsNext ==
    \/ WsServerStep
    \/ PageStep /\ UNCHANGED <<serverVars, wsVars>>
    \/ WebsocketStep
    \/ Message
    \/ Break
    \/ ServerRestarts
    \/ OtherPageReconnects
    \/ Reconnect
    \/ FallBack

WsSpec == WsInit /\ [][WsNext]_allWsVars

(***************************************************************************)
(* Fairness: as for polling, and the server's loop goes round.  An XREAD   *)
(* that times out again and again is no progress and none is asked of it.  *)
(***************************************************************************)
WsPageOnly(A) == A /\ UNCHANGED <<serverVars, wsVars>>

WsFairness ==
    /\ \A j \in Jobs : WF_allWsVars(WsServerStep /\ TaskSteps(j))
    /\ \A j \in Mine : WF_allWsVars(WsPageOnly(WaitForAsyncData(j)))
    /\ \A j \in Mine : WF_allWsVars(WsPageOnly(FetchReturns(j)))
    /\ \A j \in Jobs : WF_allWsVars(WsPageOnly(\E e \in DOMAIN timers :
                                            e.data.job = j /\ FireTimer(e)))
    /\ WF_allWsVars(WsPageOnly(Process))
    /\ WF_allWsVars(XReadStarts)
    /\ WF_allWsVars(XReadAnswers)
    /\ WF_allWsVars(WsConnection)
    /\ WF_allWsVars(FetchRangeFromStream)
    /\ WF_allWsVars(Message)
    /\ WF_allWsVars(Reconnect)
    /\ WF_allWsVars(FallBack)

FairWsSpec == WsSpec /\ WsFairness

-----------------------------------------------------------------------------
\* The page has an event on the job, or one is on its way to it.
JobInHand(j) ==
    \/ \E k \in DOMAIN wire : wire[k].data.job = j
    \/ \E k \in DOMAIN inbox : inbox[k].data.job = j
    \/ \E e \in DOMAIN timers : e.data.job = j
    \/ j \in fetching
    \/ j \in gaveUp

\* The server is past an event on the job in the global stream, which holds it
\* still: one that was trimmed before it was read has gone to nobody.
PassedOn(j) ==
    \E i \in full.floor + 1 .. Len(full.log) :
        full.log[i].data.job = j /\ NotAfter(full.log[i].id, firehoseId)

(***************************************************************************)
(* While its connection holds, a page that waits for a job gets every      *)
(* event the server has read, or the event is still to be read; whichever  *)
(* order the job's two streams, other jobs and retries put them in.        *)
(***************************************************************************)
SteadyNothingLost ==
    \A j \in Mine : line[j] = "held" /\ promise[j] = "waiting" /\ PassedOn(j) => JobInHand(j)

(***************************************************************************)
(* A chart that waits for a job it submitted over a working connection is  *)
(* answered, unless the connection breaks or the event is dropped after    *)
(* MAX_RETRIES.                                                            *)
(***************************************************************************)
SteadyWaitEnds ==
    \A j \in Mine : promise[j] = "waiting" /\ line[j] = "held"
                        ~> promise[j] # "waiting" \/ j \in gaveUp \/ line[j] # "held"

(***************************************************************************)
(* superset-websocket/README.md, Reconnection: with a valid last_id,       *)
(* events sent unsuccessfully are read from the channel's stream and sent  *)
(* again, and the global stream takes over from there.  So once a new      *)
(* connection has caught up, no event that the server is past is missing,  *)
(* for jobs submitted when the page was connected already.                 *)
(***************************************************************************)
CaughtUp ==
    ws.at = "open" /\ ws.last # NoId /\ catchup.at = "idle" =>
        \A j \in Mine : line[j] # "none" /\ promise[j] = "waiting" /\ PassedOn(j)
                            => JobInHand(j)

(***************************************************************************)
(* asyncEvent.ts, the message of wsConnect's close handler: without a      *)
(* WebSocket the page falls back to polling.  So a chart that waits then   *)
(* is answered as with the polling transport.                              *)
(***************************************************************************)
FallbackPolls ==
    \A j \in Mine : promise[j] = "waiting" /\ ws.at = "fallback"
                        ~> promise[j] # "waiting" \/ j \in gaveUp

=============================================================================
