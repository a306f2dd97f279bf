----------------------------- MODULE AsyncPolling -----------------------------
(***************************************************************************)
(* Global async queries over the polling transport: loadEventsFromApi      *)
(* asks GET /api/v1/async_event/?last_id=... every pollingDelayMs while    *)
(* someone listens, and read_events answers from the channel's stream.     *)
(***************************************************************************)
EXTENDS AsyncEventClient

CONSTANTS
    MaxEventCount  \* MAX_EVENT_COUNT: events in an answer at most

ASSUME PollingAssumption == MaxEventCount \in Nat \ {0}

VARIABLES
    poll  \* the request in flight: none, or the last_id it carries

NoPoll == [at |-> "none", last |-> NoId]

vars == <<serverVars, pageVars, poll>>

TypeOK ==
    /\ ServerTypeOK
    /\ ClientTypeOK
    /\ poll \in [at : {"none", "sent"}, last : StreamId]

Init ==
    /\ ServerInit
    /\ ClientInit
    /\ poll = NoPoll

-----------------------------------------------------------------------------
\* The delay is over: loadEventsFromApi sends a request if there are listeners.
LoadEventsFromApi ==
    /\ Idle
    /\ poll.at = "none"
    /\ listeners # {}
    /\ poll' = [at |-> "sent", last |-> lastId]
    /\ UNCHANGED <<serverVars, pageVars>>

\* Mutant of ReadEvents: it resumes from the millisecond after last_id.
SkipsMillisecond ==
    /\ Idle
    /\ poll.at = "sent"
    /\ inbox' \in XRange(scoped[Session], Plus(poll.last.ms), Plus(now), MaxEventCount)
    /\ poll' = NoPoll
    /\ UNCHANGED <<serverVars, promise, listeners, fetching, retries, timers,
                   lastId, gaveUp, reloads>>

(***************************************************************************)
(* read_events(channel, last_id), and its answer arrives.  No step that    *)
(* the page takes between the two looks at the stream, so that what is     *)
(* added in between may as well be added later: one step stands for both.  *)
(* A request that fails leaves the page as if it had not been sent.        *)
(***************************************************************************)
ReadEvents ==
    /\ Idle
    /\ poll.at = "sent"
    /\ LET start == IF poll.last = NoId THEN NoId ELSE increment_id(poll.last)
       IN  inbox' \in XRange(scoped[Session], start, Plus(now), MaxEventCount)
    /\ poll' = NoPoll
    /\ UNCHANGED <<serverVars, promise, listeners, fetching, retries, timers,
                   lastId, gaveUp, reloads>>

ServerStep == ServerNext /\ UNCHANGED <<pageVars, poll>>

Next ==
    \/ ServerStep
    \/ PageStep /\ UNCHANGED <<serverVars, poll>>
    \/ Reload /\ poll' = NoPoll /\ UNCHANGED serverVars
    \/ LoadEventsFromApi
    \/ ReadEvents

Spec == Init /\ [][Next]_vars

(***************************************************************************)
(* Fairness.  Workers go on with a job they have; the browser runs timers  *)
(* and callbacks that are due, and requests are answered.  The answers to  *)
(* submissions and fetches wait while events are being processed, again    *)
(* and again: strong fairness says that their turn comes.  Submissions,    *)
(* faults and reloads may or may not happen.                               *)
(***************************************************************************)
PageOnly(A) == A /\ UNCHANGED <<serverVars, poll>>

Fairness ==
    /\ \A j \in Jobs : WF_vars(TaskSteps(j) /\ UNCHANGED <<pageVars, poll>>)
    /\ \A j \in Mine : SF_vars(PageOnly(WaitForAsyncData(j)))
    /\ \A j \in Mine : SF_vars(PageOnly(FetchReturns(j)))
    /\ \A j \in Jobs : WF_vars(PageOnly(\E e \in DOMAIN timers :
                                            e.data.job = j /\ FireTimer(e)))
    /\ WF_vars(PageOnly(Process))
    /\ WF_vars(LoadEventsFromApi)
    /\ WF_vars(ReadEvents)

FairSpec == Spec /\ Fairness

-----------------------------------------------------------------------------
Channel == scoped[Session]

\* The page has the i-th event of its channel, and will still act on it.
InHand(i) ==
    \/ \E k \in DOMAIN inbox : inbox[k] = Channel.log[i]
    \/ BagIn(Channel.log[i], timers)
    \/ Channel.log[i].data.job \in fetching

(***************************************************************************)
(* An event on a job the page still waits for is never lost: the page has  *)
(* it, or the page's next poll and the one in flight ask for ids up to it. *)
(* Retries move the last received id back, answers hold MAX_EVENT_COUNT    *)
(* events, and events arrive before their listeners.  The exceptions are   *)
(* an event trimmed from the stream and one dropped after MAX_RETRIES.     *)
(***************************************************************************)
NothingLost ==
    \A i \in DOMAIN Channel.log :
        LET e == Channel.log[i]
        IN  e.data.job \in Mine /\ promise[e.data.job] = "waiting" =>
                \/ InHand(i)
                \/ /\ Before(lastId, e.id)
                   /\ poll.at = "sent" => Before(poll.last, e.id)
                \/ e.data.job \in gaveUp
                \/ i <= Channel.floor

(***************************************************************************)
(* Every chart that waits for its query is answered, unless its event was  *)
(* dropped after MAX_RETRIES.                                              *)
(***************************************************************************)
EveryWaitEnds ==
    \A j \in Mine : promise[j] = "waiting"
                        ~> promise[j] # "waiting" \/ j \in gaveUp

(***************************************************************************)
(* The same where the server may fail to write to Redis: every chart whose *)
(* query was reported in its channel is answered.                          *)
(***************************************************************************)
EveryReportIsSettled ==
    \A j \in Mine : promise[j] = "waiting" /\ Reported(j) # {}
                        ~> promise[j] # "waiting" \/ j \in gaveUp

(***************************************************************************)
(* The retries of an event that nobody claims set the last received id     *)
(* back, so that events are read and retried again; they do not keep each  *)
(* other going for ever.                                                   *)
(***************************************************************************)
RetriesDieOut == <>[](timers = EmptyBag)

=============================================================================
