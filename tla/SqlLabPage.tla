------------------------------ MODULE SqlLabPage ------------------------------
(***************************************************************************)
(* A query of SQL Lab as a page of the browser sees it: the page posts the *)
(* query, polls updated_since while it thinks that the query is running,   *)
(* fetches the results once it knows their key, and may ask to stop it.    *)
(* The answers to these requests arrive in any order, and each is reduced  *)
(* into the state the page shows.                                          *)
(*                                                                         *)
(*   runQuery, querySuccess, queryFailed          Run, PostReturns         *)
(*   QueryAutoRefresh, REFRESH_QUERIES            Poll, PollReturns        *)
(*   ResultSet, fetchQueryResults                 See, FetchReturns        *)
(*   postStopQuery, STOP_QUERY                    AskStop, StopReturns     *)
(***************************************************************************)
EXTENDS SqlLabQuery

VARIABLES
    shown,     \* the state of the query in the page's store
    key,       \* whether the store has the results key
    posted,    \* whether the answer to the query's POST is awaited
    stopping,  \* whether the answer to the POST that stops it is awaited
    poll,      \* the row that an answer to updated_since brings, or NoPoll
    fetches    \* how many requests for the results are under way

pageVars == <<shown, key, posted, stopping, poll, fetches>>
allVars == <<vars, pageVars>>

NoPoll == [status |-> "none", results |-> FALSE]

Running == {"pending", "running", "fetching"}
Concluded == {"stopped", "failed", "success"}

PageTypeOK ==
    /\ TypeOK
    /\ shown \in {"none"} \cup Running \cup Concluded
    /\ key \in BOOLEAN
    /\ posted \in BOOLEAN
    /\ stopping \in BOOLEAN
    /\ poll \in [status : Statuses, results : BOOLEAN]
    /\ fetches \in 0 .. 2

PageInit ==
    /\ Init
    /\ shown = "none"
    /\ key = FALSE
    /\ posted = FALSE
    /\ stopping = FALSE
    /\ poll = NoPoll
    /\ fetches = 0

\* The store gets state s and results key k. When that key is new the result
\* panel asks for the results at once, which makes the state "fetching".
See(s, k) ==
    /\ key' = k
    /\ IF k /\ ~ key
       THEN shown' = "fetching" /\ fetches' = fetches + 1
       ELSE shown' = s /\ UNCHANGED fetches

Run ==
    /\ shown = "none"
    /\ Submit
    /\ shown' = IF RunAsync THEN "pending" ELSE "running"
    /\ posted' = TRUE
    /\ UNCHANGED <<key, stopping, poll, fetches>>

\* Mutant: every answer is taken for the results.
AnswerMeansSuccess ==
    /\ posted
    /\ web \in {"answered", "refused"}
    /\ posted' = FALSE
    /\ See("success", key \/ row.results)
    /\ UNCHANGED <<vars, stopping, poll>>

\* QUERY_SUCCESS, and QUERY_FAILED: the query they carry is the one that was
\* passed to the request, so that a stop in between is not seen.
PostReturns ==
    /\ posted
    /\ web \in {"answered", "refused"}
    /\ posted' = FALSE
    /\ CASE web = "refused" \/ (~ RunAsync /\ task.pc \in {"failed", "escaped"}) ->
                See("failed", key)
         [] ~ RunAsync /\ task.pc = "succeeded" ->
                See("success", key \/ row.results)
         [] OTHER -> UNCHANGED <<shown, key, fetches>>
    /\ UNCHANGED <<vars, stopping, poll>>

\* QueryAutoRefresh has one request under way at a time.
Poll ==
    /\ shown \in Running
    /\ poll = NoPoll
    /\ row.status # "none"
    /\ poll' = [status |-> row.status, results |-> row.results]
    /\ UNCHANGED <<vars, shown, key, posted, stopping, fetches>>

\* Mutant: a query whose state is kept is not refreshed at all.
KeepsWholeEntry ==
    /\ poll # NoPoll
    /\ poll' = NoPoll
    /\ IF \/ shown \in {"stopped", "failed"}
          \/ poll.status = "success" /\ shown \in {"fetching", "success", "running"}
       THEN UNCHANGED <<shown, key, fetches>>
       ELSE See(poll.status, poll.results)
    /\ UNCHANGED <<vars, posted, stopping>>

\* REFRESH_QUERIES: everything but the state is taken over as it is.
PollReturns ==
    /\ poll # NoPoll
    /\ poll' = NoPoll
    /\ CASE shown \in {"stopped", "failed"} -> UNCHANGED <<shown, key, fetches>>
         [] poll.status = "success"
              /\ shown \in {"fetching", "success", "running"} ->
                See(shown, poll.results)
         [] OTHER -> See(poll.status, poll.results)
    /\ UNCHANGED <<vars, posted, stopping>>

\* SqlExecutionResultsCommand needs the results, and a row with their key.
FetchReturns ==
    /\ fetches > 0
    /\ fetches' = fetches - 1
    /\ \/ backend /\ row.results /\ shown' = "success"
       \/ ("fetch" \in Faults \/ ~ (backend /\ row.results))
            /\ shown' = "failed"
    /\ UNCHANGED <<vars, key, posted, stopping, poll>>

AskStop ==
    /\ shown \in {"pending", "running"}
    /\ ~ stopping
    /\ StopReads
    /\ stopping' = TRUE
    /\ UNCHANGED <<shown, key, posted, poll, fetches>>

StopReturns ==
    /\ stopping
    /\ stop.pc = "idle"
    /\ stopping' = FALSE
    /\ shown' = IF stop.answer = "ok" THEN "stopped" ELSE shown
    /\ UNCHANGED <<vars, key, posted, poll, fetches>>

-----------------------------------------------------------------------------
\* What the servers do without being asked by the page.
ServerStep ==
    /\ Refuse \/ Enqueue \/ Answer \/ TaskNext \/ StopProceeds \/ StopUnsaved
    /\ UNCHANGED pageVars

PageStep ==
    Run \/ PostReturns \/ Poll \/ PollReturns \/ FetchReturns \/ AskStop \/ StopReturns

PageNext == PageStep \/ ServerStep

PageSpec == PageInit /\ [][PageNext]_allVars

\* Fairness: the request, the task and the stop go on, a statement ends, and
\* every answer arrives; the user need not run or stop anything.
PageFairness ==
    /\ WF_allVars((Refuse \/ Enqueue \/ Answer) /\ UNCHANGED pageVars)
    /\ WF_allVars((TaskProceeds \/ StatementEnds) /\ UNCHANGED pageVars)
    /\ WF_allVars(StopProceeds /\ UNCHANGED pageVars)
    /\ WF_allVars(PostReturns)
    /\ WF_allVars(Poll)
    /\ WF_allVars(PollReturns)
    /\ WF_allVars(FetchReturns)
    /\ WF_allVars(StopReturns)

FairPageSpec == PageSpec /\ PageFairness

-----------------------------------------------------------------------------
(***************************************************************************)
(* Properties                                                              *)
(***************************************************************************)

\* The page shows success only for a query whose statements have all ended.
SuccessIsTrue == shown = "success" => task.pc = "succeeded"

\* A query that the page shows as being processed is concluded some time.
EveryQueryConcludes == shown \in Running ~> shown \in Concluded

\* A query that the page shows as stopped is not shown as successful when it
\* succeeds shortly after.
StoppedNeverSucceeds == [][shown = "stopped" => shown' # "success"]_allVars

\* A poll that is still under way when the results have come does not make
\* the page show the query as running again.
SuccessStaysShown ==
    [][shown = "success" => shown' \notin {"pending", "running"}]_allVars

=============================================================================
