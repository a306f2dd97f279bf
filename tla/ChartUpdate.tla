----------------------------- MODULE ChartUpdate -----------------------------
(***************************************************************************)
(* One chart of a dashboard or of Explore (src/components/Chart): the      *)
(* actions of chartAction.js, chartReducer.ts and Chart.jsx.  Queries      *)
(* are triggered, refreshed, stopped and answered in any order, an answer  *)
(* may take a job of its own, and a legacy chart has an annotation layer   *)
(* with a query for every query of the chart.                              *)
(***************************************************************************)
EXTENDS Naturals

CONSTANTS
  MaxRequests,  \* bound on the queries of the chart
  MaxForms,     \* bound on the form data (controls, filters) it is given
  None, Error

ASSUME ChartAssumption == MaxRequests \in Nat \ {0} /\ MaxForms \in Nat \ {0}

Requests == 1 .. MaxRequests
Forms == 1 .. MaxForms

VARIABLES
  page,     \* "dashboard" or "explore"
  async,    \* whether GLOBAL_ASYNC_QUERIES is on
  visible,  \* the chart is on the tab that is shown
  form,     \* its form data, versions numbered
  chart,    \* the state of the chart in the store
  request,  \* the chart data requests: phase and form data
  layer,    \* annotationQuery, annotationData and annotationError of the layer
  note      \* phase of the annotation query of each request

vars == <<page, async, visible, form, chart, request, layer, note>>

\* The alert is left out: it is taken away whenever the status becomes "success" or "", the
\* two that are rendered.
Chart ==
  [status : {"none", "", "loading", "success", "rendered", "stopped", "failed"},
   stack : BOOLEAN, trigger : BOOLEAN, controller : Requests \cup {None},
   response : Forms \cup {None, Error}, latest : Forms \cup {None}]

New(status, trigger, latest) ==
  [status |-> status, stack |-> FALSE, trigger |-> trigger,
   controller |-> None, response |-> None, latest |-> latest]

Init ==
  /\ page \in {"dashboard", "explore"} /\ async \in BOOLEAN /\ visible \in BOOLEAN
  /\ page = "explore" => visible
  /\ form = 1
  /\ chart = IF page = "explore" THEN New("loading", TRUE, 1) ELSE New("loading", TRUE, None)
  /\ request = [r \in Requests |-> [phase |-> "unsent", form |-> None]]
  /\ layer = [registered |-> None, data |-> None, error |-> FALSE]
  /\ note = [r \in Requests |-> "unsent"]

Queries == <<request, layer, note>>
Place == <<page, async, visible>>
Changes(c) == chart' = c
Over(r) == request' = [request EXCEPT ![r].phase = "over"]
----------------------------------------------------------------------------
(* What makes a chart query. *)

\* A control or a filter is changed; filters trigger the query at once.
Edits ==
  /\ form < MaxForms /\ form' = form + 1
  /\ Changes(IF page = "dashboard" THEN [chart EXCEPT !.trigger = TRUE, !.status = "loading"]
             ELSE chart)
  /\ UNCHANGED <<Place, Queries>>

\* onQuery, a drill, the tab of an OAuth2 dance: triggerQuery(true).
Triggers ==
  /\ ~ chart.trigger
  /\ Changes([chart EXCEPT !.trigger = TRUE, !.status = "loading"])
  /\ UNCHANGED <<Place, form, Queries>>

\* runAnnotationQuery: the reducer aborts the query that is registered.
Annotates(r) ==
  \/ /\ layer' = [layer EXCEPT !.registered = r]
     /\ note' = [s \in Requests |->
                  IF s = r THEN "sent" ELSE IF s = layer.registered THEN "aborted" ELSE note[s]]
  \/ UNCHANGED <<layer, note>>   \* no layers, or not the legacy API

\* exploreJSON
Starts(f) ==
  \E r \in Requests :
    /\ request[r].phase = "unsent" /\ \A s \in 1 .. r - 1 : request[s].phase # "unsent"
    /\ request' = [request EXCEPT ![r] = [phase |-> "sent", form |-> f]]
    /\ Changes([chart EXCEPT !.status = "loading", !.stack = FALSE,
                             !.controller = r, !.trigger = FALSE, !.latest = f])
    /\ Annotates(r)

\* Mutant: a chart queries when it is mounted, and not when it is updated.
RunsOnMount ==
  chart.trigger /\ visible /\ chart.controller = None /\ Starts(form) /\ UNCHANGED <<Place, form>>

\* componentDidMount and componentDidUpdate, of a chart that is visible.
Runs == chart.trigger /\ visible /\ Starts(form) /\ UNCHANGED <<Place, form>>

\* refreshChart, by hand or by the dashboard's timer, visible or not.
Refreshes ==
  /\ page = "dashboard" /\ chart.latest # None
  /\ Starts(chart.latest) /\ UNCHANGED <<Place, form>>

\* handlePopstate: the form data of an earlier entry of the history.
GoesBack ==
  /\ page = "explore"
  /\ \E f \in 1 .. form - 1 : form' = f /\ Starts(f)
  /\ UNCHANGED Place
----------------------------------------------------------------------------
(* What comes of a request. *)

Succeeded(r) ==
  /\ Over(r)
  /\ Changes([chart EXCEPT !.status = "success", !.response = request[r].form])
  /\ UNCHANGED <<Place, form, layer, note>>

Answers(r) == request[r].phase = "sent" /\ Succeeded(r)

\* Mutant: any answer of status 202 is awaited, whether or not the client listens.
AwaitsAlways(r) ==
  /\ request[r].phase = "sent"
  /\ request' = [request EXCEPT ![r].phase = "job"]
  /\ UNCHANGED <<Place, form, chart, layer, note>>

\* 202: the results are awaited, and the request can no longer be aborted.
Awaits(r) ==
  /\ async /\ request[r].phase = "sent"
  /\ request' = [request EXCEPT ![r].phase = "job"]
  /\ UNCHANGED <<Place, form, chart, layer, note>>

Completes(r) == request[r].phase = "job" /\ Succeeded(r)

Failed(r) ==
  /\ Over(r)
  /\ \E stack \in BOOLEAN :
       Changes([chart EXCEPT !.status = "failed", !.stack = stack, !.response = Error])
  /\ UNCHANGED <<Place, form, layer, note>>

\* An error, the timeout of the client, or a job that failed.
Fails(r) == request[r].phase \in {"sent", "job"} /\ Failed(r)

\* Mutant: an aborted request is dropped without a word.
StopsSilently ==
  /\ page = "explore" /\ chart.status = "loading" /\ chart.controller # None
  /\ request[chart.controller].phase = "sent"
  /\ Over(chart.controller)
  /\ UNCHANGED <<Place, form, chart, layer, note>>

\* onStop, while the button says so: the latest request is aborted if it is under way.
Stops ==
  LET r == chart.controller
  IN  /\ page = "explore" /\ chart.status = "loading" /\ r # None
      /\ request[r].phase = "sent"
      /\ IF async THEN Failed(r)
         ELSE /\ Over(r)
              /\ Changes([chart EXCEPT !.status = "stopped"])
              /\ UNCHANGED <<Place, form, layer, note>>

AnnotationAnswers(r) ==
  /\ note[r] = "sent" /\ note' = [note EXCEPT ![r] = "over"]
  /\ layer' = [registered |-> None, data |-> r, error |-> FALSE]
  /\ UNCHANGED <<Place, form, chart, request>>

\* Mutant: a failed annotation query stays registered.
StaysRegistered(r) ==
  /\ note[r] \in {"sent", "aborted"} /\ note' = [note EXCEPT ![r] = "over"]
  /\ layer' = [layer EXCEPT !.data = None, !.error = TRUE]
  /\ UNCHANGED <<Place, form, chart, request>>

\* Also the failure of a query that was aborted, since the statusText of an AbortError is
\* not "abort": it takes away the registration of the query that came after it.
AnnotationFails(r) ==
  /\ note[r] \in {"sent", "aborted"} /\ note' = [note EXCEPT ![r] = "over"]
  /\ layer' = [registered |-> None, data |-> None, error |-> TRUE]
  /\ UNCHANGED <<Place, form, chart, request>>
----------------------------------------------------------------------------
(* The renderer and the page. *)

\* handleRenderSuccess and handleRenderFailure
Renders ==
  /\ chart.status \in {"success", ""}
  /\ \/ Changes([chart EXCEPT !.status = "rendered"])
     \/ Changes([chart EXCEPT !.status = "failed", !.stack = TRUE])
  /\ UNCHANGED <<Place, form, Queries>>

\* SET_DATASOURCES, when the dashboard's datasets arrive.
SetsDatasources ==
  /\ page = "dashboard" /\ chart.status = "failed" /\ chart.stack
  /\ Changes([chart EXCEPT !.status = "", !.stack = FALSE])
  /\ UNCHANGED <<Place, form, Queries>>

Switches ==
  /\ page = "dashboard" /\ visible' = ~ visible
  /\ UNCHANGED <<page, async, form, chart, Queries>>

\* HYDRATE_EXPLORE: from the dashboard to the same chart in Explore, with the form data
\* saved or cached for it; requests of the dashboard are still under way.
HydratesExplore ==
  /\ page = "dashboard" /\ page' = "explore" /\ visible' = TRUE
  /\ form' \in Forms /\ Changes(New("none", FALSE, form'))
  /\ layer' = [registered |-> None, data |-> None, error |-> FALSE]
  /\ UNCHANGED <<async, request, note>>

Settles(r) == Answers(r) \/ Completes(r) \/ Fails(r)

Next ==
  \/ Edits \/ Triggers \/ Runs \/ Refreshes \/ GoesBack \/ Stops
  \/ \E r \in Requests :
       Settles(r) \/ Awaits(r) \/ AnnotationAnswers(r) \/ AnnotationFails(r)
  \/ Renders \/ SetsDatasources \/ Switches \/ HydratesExplore

Spec == Init /\ [][Next]_vars

\* The server's answer to a request, which the client's timeout bounds; a job's is not.
Responds(r) == request[r].phase = "sent" /\ (Answers(r) \/ Awaits(r) \/ Fails(r))

\* React updates the components, and requests are answered or time out.  Nothing bounds the
\* wait for a job: waitForAsyncData has no timeout.
Fairness == WF_vars(Runs) /\ \A r \in Requests : WF_vars(Responds(r))

FairSpec == Spec /\ Fairness
----------------------------------------------------------------------------
TypeOK ==
  /\ page \in {"dashboard", "explore"} /\ async \in BOOLEAN /\ visible \in BOOLEAN
  /\ form \in Forms /\ chart \in Chart
  /\ request \in [Requests -> [phase : {"unsent", "sent", "job", "over"}, form : Forms \cup {None}]]
  /\ layer \in [registered : Requests \cup {None}, data : Requests \cup {None}, error : BOOLEAN]
  /\ note \in [Requests -> {"unsent", "sent", "aborted", "over"}]
  /\ \A r \in Requests : request[r].phase = "job" => async

\* A spinner is for something: a query that is triggered or a request that is under way,
\* in whatever order requests overlap, are stopped and left behind on another page.
SpinnerIsForSomething ==
  chart.status = "loading" =>
    chart.trigger \/ \E r \in Requests : request[r].phase \in {"sent", "job"}

\* The bound of the model leaves a query that is triggered no request to send.
OutOfRequests == chart.trigger /\ \A r \in Requests : request[r].phase # "unsent"

\* A visible chart spins forever only while its latest query waits for an asynchronous
\* job: nothing older keeps the spinner, and no stop, trigger or change of page loses the
\* query it is for.
SpinnerEnds ==
  chart.status = "loading" ~>
    \/ chart.status # "loading" \/ ~ visible \/ OutOfRequests
    \/ chart.controller # None /\ request[chart.controller].phase = "job"

\* What one might expect of every visible chart, and what a job that reports nothing
\* (EveryWaitEnds of AsyncPolling) refutes.
EverySpinnerEnds ==
  chart.status = "loading" ~> chart.status # "loading" \/ ~ visible \/ OutOfRequests

\* The annotation query that is registered, to be aborted by the next, is under way.
RegisteredIsUnderWay == layer.registered # None => note[layer.registered] = "sent"

\* The reducer aborts an annotation query before the next one: no older annotations come
\* over newer ones.
NoOlderAnnotations ==
  [][layer.data # None /\ layer'.data # None => layer'.data >= layer.data]_vars

\* The comment on SET_DATASOURCES: it is for "some charts [that] may not have properly
\* handled missing datasource, causing a JS error": the error of a query stays.
QueryErrorsStay ==
  [][SetsDatasources => chart.response # Error]_vars

\* A filter that was applied reaches the database before the chart is shown as up to date.
FiltersAreApplied ==
  page = "dashboard" /\ visible /\ chart.status = "rendered" /\ ~ chart.trigger
    /\ (\A r \in Requests : request[r].phase \in {"unsent", "over"}) => chart.response = form
=============================================================================
