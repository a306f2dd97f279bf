--------------------------- MODULE AsyncEventClient ---------------------------
(***************************************************************************)
(* The browser side of global async queries, without its transport: the    *)
(* promises that waitForAsyncData returns, the listeners by job id, the    *)
(* retries of events nobody listens for yet, and the last received id.     *)
(* The transports, AsyncPolling and AsyncWebsocket, fill the inbox.        *)
(*                                                                         *)
(* JavaScript runs processEvents to its end before anything else of the    *)
(* page; here its forEach takes a step per event, and every other step of  *)
(* the page waits for the inbox to be empty.                               *)
(***************************************************************************)
EXTENDS AsyncQueries, Bags

CONSTANTS
    Mine,        \* the jobs this page asks for; others ask for the rest
    Session,     \* the page's channel
    MaxRetries,  \* MAX_RETRIES
    MaxReloads   \* bound: how often the page is reloaded

ASSUME ClientAssumption ==
    /\ Mine \subseteq Jobs
    /\ \A j \in Mine : ChannelOf[j] = Session
    /\ Session \in Channels
    /\ MaxRetries \in Nat
    /\ MaxReloads \in Nat

VARIABLES
    promise,    \* job -> its promise: none, waiting, resolved, rejected, gone
    listeners,  \* the jobs in listenersByJobId
    fetching,   \* the jobs whose DONE listener awaits fetchCachedData
    retries,    \* retriesByJobId, 0 for a job that is not in it
    timers,     \* the events whose retry timer is set, a bag
    lastId,     \* lastReceivedEventId and its copy in localStorage
    inbox,      \* what is left of the events processEvents was called with
    gaveUp,     \* history: the jobs with an event dropped after MAX_RETRIES
    reloads     \* how often the page was reloaded

pageVars == <<promise, listeners, fetching, retries, timers, lastId, inbox,
              gaveUp, reloads>>

ClientTypeOK ==
    /\ promise \in [Mine -> {"none", "waiting", "resolved", "rejected", "gone"}]
    /\ listeners \subseteq Mine
    /\ fetching \subseteq Mine
    /\ retries \in [Jobs -> 0 .. MaxRetries]
    /\ DOMAIN timers \subseteq Entry /\ IsABag(timers)
    /\ lastId \in StreamId
    /\ inbox \in Seq(Entry)
    /\ gaveUp \subseteq Jobs
    /\ reloads \in 0 .. MaxReloads

ClientInit ==
    /\ promise = [j \in Mine |-> "none"]
    /\ listeners = {}
    /\ fetching = {}
    /\ retries = [j \in Jobs |-> 0]
    /\ timers = EmptyBag
    /\ lastId = NoId
    /\ inbox = <<>>
    /\ gaveUp = {}
    /\ reloads = 0

Idle == inbox = <<>>

\* Mutant of Settle: a later call overrides an earlier one.
SettleAgain(j, outcome) == promise' = [promise EXCEPT ![j] = outcome]

\* resolve or reject; the first call counts.
Settle(j, outcome) ==
    promise' = [promise EXCEPT ![j] = IF @ = "waiting" THEN outcome ELSE @]

-----------------------------------------------------------------------------
(***************************************************************************)
(* The answer to the POST, status 202, arrives: waitForAsyncData creates   *)
(* the promise and registers its listener.                                 *)
(***************************************************************************)
WaitForAsyncData(j) ==
    /\ Idle
    /\ promise[j] = "none" /\ task[j] # "unsent"
    /\ promise' = [promise EXCEPT ![j] = "waiting"]
    /\ listeners' = listeners \cup {j}
    /\ UNCHANGED <<fetching, retries, timers, lastId, inbox, gaveUp, reloads>>

\* Mutant of Deliver: the listener resolves without looking at the status.
DeliverAnyStatus(e, remaining) ==
    /\ e.data.job \in listeners
    /\ Settle(e.data.job, "resolved")
    /\ listeners' = listeners \ {e.data.job}
    /\ retries' = [retries EXCEPT ![e.data.job] = 0]
    /\ timers' = remaining
    /\ UNCHANGED <<fetching, gaveUp>>

(***************************************************************************)
(* One event of processEvents, passed to its listener.  A DONE listener    *)
(* stays registered while it awaits fetchCachedData, an ERROR listener     *)
(* rejects and removes itself at once.  remaining are the timers without   *)
(* the one that is firing, if one is.                                      *)
(***************************************************************************)
Deliver(e, remaining) ==
    /\ e.data.job \in listeners
    /\ retries' = [retries EXCEPT ![e.data.job] = 0]
    /\ \/ /\ e.data.status = "done"
          /\ fetching' = fetching \cup {e.data.job}
          /\ UNCHANGED <<promise, listeners>>
       \/ /\ e.data.status = "error"
          /\ Settle(e.data.job, "rejected")
          /\ listeners' = listeners \ {e.data.job}
          /\ UNCHANGED fetching
    /\ timers' = remaining
    /\ UNCHANGED gaveUp

\* Mutant of Retry: an event is dropped when nobody listens for its job yet.
DropUnclaimed(e, remaining) ==
    /\ e.data.job \notin listeners
    /\ timers' = remaining
    /\ UNCHANGED <<promise, listeners, fetching, retries, gaveUp>>

\* Mutant of Retry: the retries are not counted.
RetryForever(e, remaining) ==
    /\ e.data.job \notin listeners
    /\ timers' = remaining (+) SetToBag({e})
    /\ UNCHANGED <<promise, listeners, fetching, retries, gaveUp>>

(***************************************************************************)
(* One event of processEvents that nobody listens for: it is processed     *)
(* again when a timer fires, MAX_RETRIES times for each job.               *)
(***************************************************************************)
Retry(e, remaining) ==
    LET j == e.data.job
    IN  /\ j \notin listeners
        /\ IF retries[j] < MaxRetries
           THEN /\ timers' = remaining (+) SetToBag({e})
                /\ retries' = [retries EXCEPT ![j] = @ + 1]
                /\ UNCHANGED gaveUp
           ELSE /\ timers' = remaining
                /\ retries' = [retries EXCEPT ![j] = 0]
                /\ gaveUp' = gaveUp \cup {j}
        /\ UNCHANGED <<promise, listeners, fetching>>

\* processEvents(events), one event; setLastId comes last for each of them.
Process ==
    /\ ~ Idle
    /\ Deliver(Head(inbox), timers) \/ Retry(Head(inbox), timers)
    /\ lastId' = Head(inbox).id
    /\ inbox' = Tail(inbox)
    /\ UNCHANGED reloads

(***************************************************************************)
(* A retry timer fires: processEvents([e]).  It moves the last received id *)
(* to e, which may be back.                                                *)
(***************************************************************************)
FireTimer(e) ==
    LET remaining == timers (-) SetToBag({e})
    IN  /\ Idle
        /\ BagIn(e, timers)
        /\ Deliver(e, remaining) \/ Retry(e, remaining)
        /\ lastId' = e.id
        /\ UNCHANGED <<inbox, reloads>>

\* Mutant of FetchReturns: the listener does not remove itself.
FetchKeepsListener(j) ==
    /\ Idle
    /\ j \in fetching
    /\ fetching' = fetching \ {j}
    /\ \E outcome \in {"resolved", "rejected"} : Settle(j, outcome)
    /\ UNCHANGED <<listeners, retries, timers, lastId, inbox, gaveUp, reloads>>

\* fetchCachedData returns: the listener settles its promise and goes.
FetchReturns(j) ==
    /\ Idle
    /\ j \in fetching
    /\ fetching' = fetching \ {j}
    /\ \E outcome \in {"resolved", "rejected"} : Settle(j, outcome)
    /\ listeners' = listeners \ {j}
    /\ UNCHANGED <<retries, timers, lastId, inbox, gaveUp, reloads>>

(***************************************************************************)
(* The page is loaded anew: init() starts from empty registries and from   *)
(* the id in localStorage, which another page of the session may have      *)
(* written.  The charts the old page waited for are gone.                  *)
(***************************************************************************)
Reload ==
    /\ Idle
    /\ reloads < MaxReloads
    /\ reloads' = reloads + 1
    /\ promise' = [j \in Mine |->
                     IF promise[j] \in {"none", "waiting"} /\ task[j] # "unsent"
                     THEN "gone"
                     ELSE promise[j]]
    /\ listeners' = {}
    /\ fetching' = {}
    /\ retries' = [j \in Jobs |-> 0]
    /\ timers' = EmptyBag
    /\ lastId' \in {lastId} \cup { scoped[Session].log[i].id : i \in DOMAIN scoped[Session].log }
    /\ UNCHANGED <<inbox, gaveUp>>

\* What the page does by itself, whatever its transport.
PageStep ==
    \/ \E j \in Mine : WaitForAsyncData(j) \/ FetchReturns(j)
    \/ Process
    \/ \E e \in DOMAIN timers : FireTimer(e)

-----------------------------------------------------------------------------
\* A listener stays registered exactly as long as its promise is unsettled.
ListensWhileWaiting ==
    \A j \in Mine : j \in listeners <=> promise[j] = "waiting"

(***************************************************************************)
(* What a chart sees of its query, whatever the streams, the retries and   *)
(* the transport do in between.                                            *)
(***************************************************************************)
Job == INSTANCE AsyncJob
       WITH Jobs <- Mine,
            verdicts <- [j \in Mine |-> Reported(j)],
            outcome <- promise

ImplementsAsyncJob == Job!Spec

=============================================================================
