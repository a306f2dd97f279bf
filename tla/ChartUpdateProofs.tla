-------------------------- MODULE ChartUpdateProofs --------------------------
(***************************************************************************)
(* Proofs about the state of a chart, for any number of requests and of    *)
(* versions of its form data.                                              *)
(***************************************************************************)
EXTENDS ChartUpdate, TLAPS

RequestState == [phase : {"unsent", "sent", "job", "over"}, form : Forms \cup {None}]
Layer == [registered : Requests \cup {None}, data : Requests \cup {None}, error : BOOLEAN]

\* A query that starts leaves a chart, requests and annotations of the right types, with
\* a request that is under way, and an annotation query that is if one is registered.
LEMMA StartsIsTyped ==
    ASSUME NEW f \in Forms, TypeOK, Starts(f)
    PROVE  /\ chart' \in Chart
           /\ request' \in [Requests -> RequestState]
           /\ layer' \in Layer /\ note' \in [Requests -> {"unsent", "sent", "aborted", "over"}]
           /\ \E r \in Requests : request'[r].phase = "sent"
           /\ \A r \in Requests : request'[r].phase = "job" => request[r].phase = "job"
           /\ RegisteredIsUnderWay => RegisteredIsUnderWay'
  <1>1. PICK r \in Requests :
            /\ request[r].phase = "unsent"
            /\ request' = [request EXCEPT ![r] = [phase |-> "sent", form |-> f]]
            /\ chart' = [chart EXCEPT !.status = "loading", !.stack = FALSE,
                             !.controller = r, !.trigger = FALSE, !.latest = f]
            /\ Annotates(r)
    BY DEF Starts, Changes
  <1>2. chart \in Chart /\ request \in [Requests -> RequestState]
        /\ layer \in Layer /\ note \in [Requests -> {"unsent", "sent", "aborted", "over"}]
    BY DEF TypeOK, RequestState, Layer
  <1>3. chart' \in Chart
    BY <1>1, <1>2 DEF Chart
  <1>4. [phase |-> "sent", form |-> f] \in RequestState
    BY DEF RequestState
  <1>5. request' \in [Requests -> RequestState] /\ request'[r].phase = "sent"
        /\ \A s \in Requests : request'[s].phase = "job" => request[s].phase = "job"
    BY <1>1, <1>2, <1>4
  <1>6. /\ layer' \in Layer /\ note' \in [Requests -> {"unsent", "sent", "aborted", "over"}]
        /\ RegisteredIsUnderWay => RegisteredIsUnderWay'
    <2>1. CASE /\ layer' = [layer EXCEPT !.registered = r]
               /\ note' = [s \in Requests |-> IF s = r THEN "sent"
                               ELSE IF s = layer.registered THEN "aborted" ELSE note[s]]
      BY <1>2, <2>1 DEF Layer, RegisteredIsUnderWay
    <2>2. CASE UNCHANGED <<layer, note>>
      BY <1>2, <2>2 DEF RegisteredIsUnderWay
    <2> QED
      BY <1>1, <2>1, <2>2 DEF Annotates
  <1> QED
    BY <1>3, <1>5, <1>6

\* A request that has succeeded or failed leaves a chart that does not spin.
LEMMA OutcomeIsTyped ==
    ASSUME NEW r \in Requests, TypeOK, Succeeded(r) \/ Failed(r),
           request[r].phase \in {"sent", "job"}
    PROVE  /\ chart' \in Chart /\ chart'.status # "loading"
           /\ request' \in [Requests -> RequestState]
           /\ \A s \in Requests : request'[s].phase = "job" => request[s].phase = "job"
           /\ UNCHANGED <<page, async, visible, form, layer, note>>
  <1>1. chart \in Chart /\ request \in [Requests -> RequestState]
    BY DEF TypeOK, RequestState
  <1>2. request' = [request EXCEPT ![r].phase = "over"]
        /\ UNCHANGED <<page, async, visible, form, layer, note>>
    BY DEF Succeeded, Failed, Over, Place
  <1>3. request' \in [Requests -> RequestState]
        /\ \A s \in Requests : request'[s].phase = "job" => request[s].phase = "job"
    BY <1>1, <1>2 DEF RequestState
  <1>4. CASE Succeeded(r)
    <2>1. request[r].form \in Forms \cup {None}
      BY <1>1 DEF RequestState
    <2> QED
      BY <1>1, <1>2, <1>3, <1>4, <2>1 DEF Succeeded, Changes, Chart
  <1>5. CASE Failed(r)
    BY <1>1, <1>2, <1>3, <1>5 DEF Failed, Changes, Chart
  <1> QED
    BY <1>4, <1>5

\* Every variable keeps its type, and only an asynchronous chart waits for a job.
THEOREM TypeCorrect == Spec => []TypeOK
  <1> USE ChartAssumption
  <1>1. Init => TypeOK
    BY DEF Init, TypeOK, Chart, New, Requests, Forms
  <1>2. ASSUME TypeOK, [Next]_vars PROVE TypeOK'
    <2>0. /\ page \in {"dashboard", "explore"} /\ async \in BOOLEAN /\ visible \in BOOLEAN
          /\ form \in Forms /\ chart \in Chart /\ request \in [Requests -> RequestState]
          /\ layer \in Layer /\ note \in [Requests -> {"unsent", "sent", "aborted", "over"}]
          /\ \A r \in Requests : request[r].phase = "job" => async
      BY <1>2 DEF TypeOK, RequestState, Layer
    <2>r. ASSUME chart' \in Chart, request' \in [Requests -> RequestState],
                 UNCHANGED <<page, async, visible, form, layer, note>>,
                 \A r \in Requests : request'[r].phase = "job" => async
          PROVE  TypeOK'
      BY <2>0, <2>r DEF TypeOK, RequestState, Layer
    <2>1. CASE Edits
      <3>1. form' \in Forms
        BY <2>0, <2>1 DEF Edits, Forms
      <3>2. [chart EXCEPT !.trigger = TRUE, !.status = "loading"] \in Chart
        BY <2>0 DEF Chart
      <3>3. chart' \in Chart
        BY <2>0, <2>1, <3>2 DEF Edits, Changes
      <3> QED
        BY <2>0, <2>1, <3>1, <3>3 DEF Edits, TypeOK, Place, Queries, RequestState, Layer
    <2>2. CASE Triggers
      <3>1. chart' \in Chart
        BY <2>0, <2>2 DEF Triggers, Changes, Chart
      <3> QED
        BY <2>0, <2>2, <3>1 DEF Triggers, TypeOK, Place, Queries, RequestState, Layer
    <2>3. ASSUME NEW f \in Forms, Starts(f), form' \in Forms, UNCHANGED Place PROVE TypeOK'
      <3>1. /\ chart' \in Chart /\ request' \in [Requests -> RequestState]
            /\ layer' \in Layer /\ note' \in [Requests -> {"unsent", "sent", "aborted", "over"}]
            /\ \A r \in Requests : request'[r].phase = "job" => request[r].phase = "job"
        BY <1>2, <2>3, StartsIsTyped
      <3>2. UNCHANGED <<page, async, visible>>
        BY <2>3 DEF Place
      <3> QED
        BY <2>0, <2>3, <3>1, <3>2 DEF TypeOK, RequestState, Layer
    <2>4. CASE Runs
      BY <2>0, <2>3, <2>4 DEF Runs
    <2>5. CASE Refreshes
      <3>1. chart.latest \in Forms
        BY <2>0, <2>5 DEF Refreshes, Chart
      <3> QED
        BY <2>0, <2>3, <2>5, <3>1 DEF Refreshes
    <2>6. CASE GoesBack
      <3>1. PICK f \in 1 .. form - 1 : form' = f /\ Starts(f)
        BY <2>6 DEF GoesBack
      <3>2. f \in Forms
        BY <2>0, <3>1 DEF Forms
      <3> QED
        BY <2>3, <2>6, <3>1, <3>2 DEF GoesBack
    <2>7. ASSUME NEW r \in Requests, request[r].phase \in {"sent", "job"},
                 Succeeded(r) \/ Failed(r)
          PROVE  TypeOK'
      <3>1. /\ chart' \in Chart /\ request' \in [Requests -> RequestState]
            /\ \A s \in Requests : request'[s].phase = "job" => request[s].phase = "job"
            /\ UNCHANGED <<page, async, visible, form, layer, note>>
        BY <1>2, <2>7, OutcomeIsTyped
      <3> QED
        BY <2>0, <2>r, <3>1
    <2>8. ASSUME NEW r \in Requests, Settles(r) PROVE TypeOK'
      BY <2>7, <2>8 DEF Settles, Answers, Completes, Fails
    <2>9. CASE Stops
      <3>1. /\ chart.controller \in Requests /\ request[chart.controller].phase = "sent"
            /\ IF async THEN Failed(chart.controller)
               ELSE /\ Over(chart.controller)
                    /\ Changes([chart EXCEPT !.status = "stopped"])
                    /\ UNCHANGED <<Place, form, layer, note>>
        BY <2>0, <2>9 DEF Stops, Chart
      <3>2. CASE async
        BY <2>7, <3>1, <3>2
      <3>3. CASE ~ async
        <4>1. chart' \in Chart
          BY <2>0, <3>1, <3>3 DEF Changes, Chart
        <4>2. request' \in [Requests -> RequestState]
              /\ \A s \in Requests : request'[s].phase = "job" => request[s].phase = "job"
          BY <2>0, <3>1, <3>3 DEF Over, RequestState
        <4> QED
          BY <2>0, <2>r, <3>1, <3>3, <4>1, <4>2 DEF Place
      <3> QED
        BY <3>2, <3>3
    <2>10. ASSUME NEW r \in Requests, Awaits(r) PROVE TypeOK'
      <3>1. request' \in [Requests -> RequestState] /\ async
        BY <2>0, <2>10 DEF Awaits, RequestState
      <3> QED
        BY <2>0, <2>r, <2>10, <3>1 DEF Awaits, Place
    <2>11. ASSUME NEW r \in Requests, AnnotationAnswers(r) \/ AnnotationFails(r) PROVE TypeOK'
      <3>1. note' \in [Requests -> {"unsent", "sent", "aborted", "over"}]
        BY <2>0, <2>11 DEF AnnotationAnswers, AnnotationFails
      <3>2. layer' \in Layer
        <4>1. CASE AnnotationAnswers(r)
          BY <4>1 DEF AnnotationAnswers, Layer
        <4>2. CASE AnnotationFails(r)
          BY <4>2 DEF AnnotationFails, Layer
        <4> QED
          BY <2>11, <4>1, <4>2
      <3> QED
        BY <2>0, <2>11, <3>1, <3>2
           DEF AnnotationAnswers, AnnotationFails, Place, TypeOK, RequestState, Layer
    <2>12. CASE Renders \/ SetsDatasources
      <3>1. chart' \in Chart
        BY <2>0, <2>12 DEF Renders, SetsDatasources, Changes, Chart
      <3> QED
        BY <2>0, <2>12, <3>1
           DEF Renders, SetsDatasources, Place, Queries, TypeOK, RequestState, Layer
    <2>13. CASE Switches
      BY <2>0, <2>13 DEF Switches, Queries, TypeOK, RequestState, Layer
    <2>14. CASE HydratesExplore
      <3>1. chart' \in Chart /\ layer' \in Layer
        BY <2>0, <2>14 DEF HydratesExplore, Changes, New, Chart, Layer
      <3> QED
        BY <2>0, <2>14, <3>1 DEF HydratesExplore, TypeOK, RequestState, Layer
    <2>15. CASE UNCHANGED vars
      BY <2>0, <2>15 DEF vars, TypeOK, RequestState, Layer
    <2> QED
      BY <1>2, <2>1, <2>2, <2>4, <2>5, <2>6, <2>8, <2>9, <2>10, <2>11, <2>12, <2>13, <2>14,
         <2>15 DEF Next
  <1> QED
    BY <1>1, <1>2, PTL DEF Spec

\* A chart that spins has a query to send or one under way: each step that ends a request
\* ends the spinner with it, whichever request the spinner was for.
THEOREM SpinnerIsAlwaysForSomething == Spec => []SpinnerIsForSomething
  <1>1. Init => SpinnerIsForSomething
    BY DEF Init, New, SpinnerIsForSomething
  <1>2. ASSUME TypeOK, SpinnerIsForSomething, [Next]_vars PROVE SpinnerIsForSomething'
    <2>0. chart \in Chart /\ request \in [Requests -> RequestState]
      BY <1>2 DEF TypeOK, RequestState
    <2>s. ASSUME NEW f \in Forms, Starts(f) PROVE SpinnerIsForSomething'
      BY <1>2, <2>s, StartsIsTyped DEF SpinnerIsForSomething
    <2>e. ASSUME NEW r \in Requests, request[r].phase \in {"sent", "job"},
                 Succeeded(r) \/ Failed(r)
          PROVE  SpinnerIsForSomething'
      BY <1>2, <2>e, OutcomeIsTyped DEF SpinnerIsForSomething
    <2>1. CASE Edits
      <3>1. CASE page = "dashboard"
        BY <2>0, <2>1, <3>1 DEF Edits, Changes, Queries, Chart, SpinnerIsForSomething
      <3>2. CASE page # "dashboard"
        BY <1>2, <2>1, <3>2 DEF Edits, Changes, Queries, SpinnerIsForSomething
      <3> QED
        BY <3>1, <3>2
    <2>2. CASE Triggers
      BY <2>0, <2>2 DEF Triggers, Changes, Chart, SpinnerIsForSomething
    <2>3. CASE Runs
      BY <1>2, <2>s, <2>3 DEF Runs, TypeOK
    <2>4. CASE Refreshes
      BY <2>0, <2>s, <2>4 DEF Refreshes, Chart
    <2>5. CASE GoesBack
      <3>1. PICK f \in 1 .. form - 1 : Starts(f)
        BY <2>5 DEF GoesBack
      <3>2. f \in Forms
        BY <1>2, <3>1, ChartAssumption DEF Forms, TypeOK
      <3> QED
        BY <2>s, <3>1, <3>2
    <2>6. CASE Stops
      <3>1. CASE async
        BY <2>0, <2>6, <2>e, <3>1 DEF Stops, Chart
      <3>2. CASE ~ async
        BY <2>0, <2>6, <3>2 DEF Stops, Changes, Chart, SpinnerIsForSomething
      <3> QED
        BY <3>1, <3>2
    <2>7. ASSUME NEW r \in Requests, Settles(r) PROVE SpinnerIsForSomething'
      BY <2>e, <2>7 DEF Settles, Answers, Completes, Fails
    <2>8. ASSUME NEW r \in Requests, Awaits(r) PROVE SpinnerIsForSomething'
      <3>1. request'[r].phase = "job"
        BY <2>0, <2>8 DEF Awaits, RequestState
      <3> QED
        BY <3>1 DEF SpinnerIsForSomething
    <2>9. ASSUME NEW r \in Requests, AnnotationAnswers(r) \/ AnnotationFails(r)
          PROVE  SpinnerIsForSomething'
      BY <1>2, <2>9 DEF AnnotationAnswers, AnnotationFails, SpinnerIsForSomething
    <2>10. CASE Renders \/ SetsDatasources
      BY <2>0, <2>10 DEF Renders, SetsDatasources, Changes, Chart, SpinnerIsForSomething
    <2>11. CASE Switches
      BY <1>2, <2>11 DEF Switches, Queries, SpinnerIsForSomething
    <2>12. CASE HydratesExplore
      BY <2>12 DEF HydratesExplore, Changes, New, SpinnerIsForSomething
    <2>13. CASE UNCHANGED vars
      BY <1>2, <2>13 DEF vars, SpinnerIsForSomething
    <2> QED
      BY <1>2, <2>1, <2>2, <2>3, <2>4, <2>5, <2>6, <2>7, <2>8, <2>9, <2>10, <2>11, <2>12,
         <2>13 DEF Next
  <1> QED
    BY <1>1, <1>2, TypeCorrect, PTL DEF Spec

\* The annotation query that is registered has not ended: whatever ends one, its answer,
\* its failure or the next one, takes the registration away.
THEOREM RegisteredIsAlwaysUnderWay == Spec => []RegisteredIsUnderWay
  <1>1. Init => RegisteredIsUnderWay
    BY DEF Init, RegisteredIsUnderWay
  <1>2. ASSUME TypeOK, RegisteredIsUnderWay, [Next]_vars PROVE RegisteredIsUnderWay'
    <2>s. ASSUME NEW f \in Forms, Starts(f) PROVE RegisteredIsUnderWay'
      BY <1>2, <2>s, StartsIsTyped
    <2>u. ASSUME UNCHANGED <<layer, note>> PROVE RegisteredIsUnderWay'
      BY <1>2, <2>u DEF RegisteredIsUnderWay
    <2>1. CASE Edits \/ Triggers \/ Renders \/ SetsDatasources \/ Switches
      BY <2>1, <2>u DEF Edits, Triggers, Renders, SetsDatasources, Switches, Queries
    <2>2. CASE Runs
      BY <1>2, <2>s, <2>2 DEF Runs, TypeOK
    <2>3. CASE Refreshes
      BY <1>2, <2>s, <2>3 DEF Refreshes, TypeOK, Chart
    <2>4. CASE GoesBack
      <3>1. PICK f \in 1 .. form - 1 : Starts(f)
        BY <2>4 DEF GoesBack
      <3>2. f \in Forms
        BY <1>2, <3>1, ChartAssumption DEF Forms, TypeOK
      <3> QED
        BY <2>s, <3>1, <3>2
    <2>5. CASE Stops
      BY <2>5, <2>u DEF Stops, Failed
    <2>6. ASSUME NEW r \in Requests, Settles(r) \/ Awaits(r) PROVE RegisteredIsUnderWay'
      BY <2>6, <2>u DEF Settles, Answers, Completes, Fails, Succeeded, Failed, Awaits
    <2>7. ASSUME NEW r \in Requests, AnnotationAnswers(r) \/ AnnotationFails(r)
          PROVE  RegisteredIsUnderWay'
      BY <2>7 DEF AnnotationAnswers, AnnotationFails, RegisteredIsUnderWay
    <2>8. CASE HydratesExplore
      BY <2>8 DEF HydratesExplore, RegisteredIsUnderWay
    <2>9. CASE UNCHANGED vars
      BY <2>9, <2>u DEF vars
    <2> QED
      BY <1>2, <2>1, <2>2, <2>3, <2>4, <2>5, <2>6, <2>7, <2>8, <2>9 DEF Next
  <1> QED
    BY <1>1, <1>2, TypeCorrect, PTL DEF Spec
=============================================================================
