--------------------------- MODULE SqlLabQueryProofs ---------------------------
(***************************************************************************)
(* Proofs about a query of SQL Lab on the server, for every kind of        *)
(* engine, number of statements and stop requests, and choice of faults.   *)
(***************************************************************************)
EXTENDS SqlLabPage, TLAPS

\* Setting a field of a record of the model keeps the record's type.
LEMMA ExtraUpdates ==
    ASSUME NEW e \in Extra
    PROVE  /\ [e EXCEPT !.early = TRUE] \in Extra
           /\ \A k \in 0 .. Statements : [e EXCEPT !.key = k] \in Extra
  BY DEF Extra

LEMMA RowUpdates ==
    ASSUME NEW r \in Row
    PROVE  /\ \A s \in Statuses : [r EXCEPT !.status = s] \in Row
           /\ \A e \in Extra : [r EXCEPT !.extra = e] \in Row
           /\ \A b \in BOOLEAN :
                 [r EXCEPT !.status = "success", !.results = b] \in Row
  BY DEF Row, Statuses

LEMMA TaskUpdates ==
    ASSUME NEW t \in Task, NEW p \in Phases
    PROVE  /\ [t EXCEPT !.pc = p] \in Task
           /\ \A e \in Extra : [t EXCEPT !.pc = p, !.extra = e] \in Task
           /\ t.at < Statements => [t EXCEPT !.pc = p, !.at = @ + 1] \in Task
  <1>1. [t EXCEPT !.pc = p] \in Task
    BY DEF Task
  <1>2. \A e \in Extra : [t EXCEPT !.pc = p, !.extra = e] \in Task
    BY DEF Task
  <1>3. ASSUME t.at < Statements
        PROVE  [t EXCEPT !.pc = p, !.at = @ + 1] \in Task
    <2>1. t.at \in 1 .. Statements
      BY DEF Task
    <2>2. t.at + 1 \in 1 .. Statements
      BY <1>3, <2>1, SqlLabAssumption
    <2> QED
      BY <2>2 DEF Task
  <1> QED
    BY <1>1, <1>2, <1>3

LEMMA StopUpdates ==
    ASSUME NEW s \in Stop, NEW p \in StopPhases
    PROVE  /\ [s EXCEPT !.pc = p] \in Stop
           /\ \A a \in Answers : [s EXCEPT !.pc = p, !.answer = a] \in Stop
  BY DEF Stop

\* A step of the task from one phase to another keeps the task's type.
LEMMA TaskStepType ==
    ASSUME TypeOK, NEW p \in Phases, NEW q \in Phases, TaskStep(p, q)
    PROVE  task' \in Task /\ web' = web /\ stop' = stop /\ stops' = stops
  BY TaskUpdates DEF TypeOK, TaskStep, Task

-----------------------------------------------------------------------------
\* Every variable keeps its type.
THEOREM TypeCorrect == Spec => []TypeOK
  <1>1. Init => TypeOK
    <2> SUFFICES ASSUME Init PROVE TypeOK
      OBVIOUS
    <2>1. NoExtra \in Extra
      BY SqlLabAssumption DEF NoExtra, Extra
    <2>2. row \in Row
      BY <2>1 DEF Init, Row, Statuses
    <2>3. task \in Task
      BY <2>1, SqlLabAssumption DEF Init, Task, Phases
    <2>4. stop \in Stop
      BY <2>1 DEF Init, Stop, StopPhases, Answers
    <2>5. stops \in 0 .. MaxStops /\ afterStop \in Nat
      BY SqlLabAssumption DEF Init
    <2> QED
      BY <2>2, <2>3, <2>4, <2>5 DEF Init, TypeOK
  <1>2. ASSUME TypeOK, [Next]_vars PROVE TypeOK'
    <2>0. /\ row \in Row
          /\ row.extra \in Extra
          /\ task \in Task
          /\ task.extra \in Extra
          /\ task.at \in 1 .. Statements
          /\ stop \in Stop
          /\ stop.extra \in Extra
      BY <1>2 DEF TypeOK, Row, Task, Stop
    <2>p. Phases = {"none", "queued", "connecting", "checking", "ready",
                    "executing", "announced", "raised", "failing", "storing",
                    "finishing", "succeeded", "failed", "stopped", "dead", "escaped"}
      BY DEF Phases, Alive, Working, Ended
    <2>1. CASE Submit
      BY <1>2, <2>1, RowUpdates DEF Submit, WebStep, TypeOK, Statuses
    <2>2. CASE Refuse
      BY <1>2, <2>2 DEF Refuse, WebStep, TypeOK
    <2>3. CASE Enqueue
      BY <1>2, <2>3, <2>p, TaskUpdates, <2>0 DEF Enqueue, WebStep, TypeOK
    <2>4. CASE Answer
      <3>1. NoExtra \in Extra
        BY SqlLabAssumption DEF NoExtra, Extra
      <3> QED
        BY <1>2, <2>4, <2>0, <3>1, RowUpdates DEF Answer, WebStep, TypeOK
    <2>5. CASE SetRunning
      BY <1>2, <2>5, <2>0, <2>p, RowUpdates, TaskUpdates
      DEF SetRunning, TypeOK, Statuses
    <2>6. CASE Connect
      <3>1. [task.extra EXCEPT !.key = 1] \in Extra
        <4>1. 1 \in 0 .. Statements
          BY SqlLabAssumption
        <4> QED
          BY <2>0, <4>1, ExtraUpdates
      <3> QED
        BY <1>2, <2>6, <2>0, <2>p, <3>1, RowUpdates, TaskStepType
        DEF Connect, TypeOK
    <2>7. CASE Check
      <3>1. PICK p \in {"stopped", "ready"} :
                task' = [task EXCEPT !.pc = p, !.extra = row.extra]
        BY <2>7 DEF Check
      <3>2. task' \in Task
        BY <2>0, <2>p, <3>1, TaskUpdates
      <3> QED
        BY <1>2, <2>7, <3>2 DEF Check, TypeOK
    <2>8. CASE Begin
      <3>1. row' \in Row
        BY <2>0, <2>8, RowUpdates DEF Begin
      <3>2. task' \in Task /\ web' = web /\ stop' = stop /\ stops' = stops
        BY <1>2, <2>8, <2>p, TaskStepType DEF Begin
      <3>3. afterStop' \in Nat
        BY <1>2, <2>8 DEF Begin, TypeOK
      <3> QED
        BY <1>2, <2>8, <3>1, <3>2, <3>3 DEF Begin, TypeOK
    <2>9. CASE Announce
      <3>1. [task.extra EXCEPT !.key = task.at] \in Extra
        <4>1. task.at \in 0 .. Statements
          BY <2>0, SqlLabAssumption
        <4> QED
          BY <2>0, <4>1, ExtraUpdates
      <3> QED
        BY <1>2, <2>9, <2>0, <2>p, <3>1, RowUpdates, TaskStepType
        DEF Announce, TypeOK
    <2>10. CASE CancelItself
      BY <1>2, <2>10 DEF CancelItself, TypeOK
    <2>11. CASE StatementEnds
      BY <1>2, <2>11, <2>0, <2>p, TaskUpdates DEF StatementEnds, TypeOK
    <2>12. CASE StatementRaises
      BY <1>2, <2>12, <2>0, <2>p, TaskUpdates DEF StatementRaises, TypeOK
    <2>13. CASE Refresh
      BY <1>2, <2>13, <2>0, <2>p, TaskUpdates DEF Refresh, TypeOK
    <2>14. CASE TaskRaises \/ HandlerRaises
      BY <1>2, <2>14, <2>p, TaskStepType DEF TaskRaises, HandlerRaises, TypeOK
    <2>15. CASE SoftTimeout
      BY <1>2, <2>15, <2>p, TaskStepType DEF SoftTimeout, TypeOK, Alive, Working
    <2>16. CASE HandleError
      BY <1>2, <2>16, <2>0, <2>p, TaskStepType, RowUpdates
      DEF HandleError, TypeOK, Statuses
    <2>17. CASE Store
      BY <1>2, <2>17, <2>p, TaskStepType, SqlLabAssumption DEF Store, TypeOK
    <2>18. CASE Succeed
      BY <1>2, <2>18, <2>0, <2>p, TaskStepType, RowUpdates, SqlLabAssumption
      DEF Succeed, TypeOK, Statuses
    <2>19. CASE WorkerDies
      BY <1>2, <2>19, <2>p, TaskStepType DEF WorkerDies, TypeOK, Alive, Working
    <2>20. CASE StopReads
      <3>1. FirstStep \in StopPhases
        BY DEF FirstStep, StopPhases
      <3>2. stop' \in Stop
        <4>1. CASE Tells("ok")
          BY <2>0, <4>1, StopUpdates DEF Tells, StopPhases, Answers
        <4>2. CASE stop' = [pc |-> FirstStep, extra |-> row.extra, answer |-> "none"]
          BY <2>0, <3>1, <4>2 DEF Stop, Answers
        <4> QED
          BY <2>20, <4>1, <4>2 DEF StopReads
      <3>3. stops' \in 0 .. MaxStops
        BY <1>2, <2>20, SqlLabAssumption DEF StopReads, TypeOK
      <3> QED
        BY <1>2, <2>20, <3>2, <3>3 DEF StopReads, TypeOK
    <2>21. CASE StopPrepares
      <3>1. [stop.extra EXCEPT !.early = TRUE] \in Extra
        BY <2>0, ExtraUpdates
      <3> QED
        BY <1>2, <2>21, <2>0, <3>1, RowUpdates, StopUpdates
        DEF StopPrepares, StopStep, TypeOK, StopPhases
    <2>22. CASE StopKills \/ StopMisses
      BY <1>2, <2>22, <2>0, StopUpdates
      DEF StopKills, StopMisses, StopStep, TypeOK, StopPhases
    <2>23. CASE StopFails \/ StopUnsaved
      BY <1>2, <2>23, <2>0, StopUpdates
      DEF StopFails, StopUnsaved, Tells, StopStep, TypeOK, StopPhases, Answers
    <2>24. CASE StopMarks
      BY <1>2, <2>24, <2>0, StopUpdates, RowUpdates
      DEF StopMarks, Tells, StopStep, TypeOK, StopPhases, Answers, Statuses
    <2>25. CASE UNCHANGED vars
      BY <1>2, <2>25 DEF vars, TypeOK
    <2> QED
      BY <1>2, <2>1, <2>2, <2>3, <2>4, <2>5, <2>6, <2>7, <2>8, <2>9, <2>10,
         <2>11, <2>12, <2>13, <2>14, <2>15, <2>16, <2>17, <2>18, <2>19, <2>20,
         <2>21, <2>22, <2>23, <2>24, <2>25
      DEF Next, WebNext, TaskNext, TaskProceeds, StopNext, StopProceeds
  <1> QED
    BY <1>1, <1>2, PTL DEF Spec

-----------------------------------------------------------------------------
\* A RUNNING row always has a task at work on it, or one whose worker died or whose
\* error handler failed.
\* The property is inductive: every action that ends the task either has seen
\* another status in the row or writes one.
THEOREM RunningAlwaysProcessed == Spec => []RunningIsProcessed
  <1>1. Init => RunningIsProcessed
    BY DEF Init, RunningIsProcessed
  <1>2. ASSUME TypeOK, RunningIsProcessed, [Next]_vars
        PROVE  RunningIsProcessed'
    <2>0. row \in Row /\ task \in Task
      BY <1>2 DEF TypeOK
    <2> USE DEF RunningIsProcessed, Alive, Working, TaskStep
    <2>1. CASE WebNext
      BY <1>2, <2>0, <2>1
      DEF WebNext, Submit, Refuse, Enqueue, Answer, WebStep, Row, Task
    <2>2. CASE SetRunning \/ Connect \/ Begin \/ Announce
      BY <1>2, <2>0, <2>2 DEF SetRunning, Connect, Begin, Announce, Row, Task
    <2>3. CASE Check
      BY <2>0, <2>3 DEF Check, Task
    <2>4. CASE Refresh
      BY <2>0, <2>4 DEF Refresh, Task
    <2>5. CASE CancelItself \/ StatementEnds \/ StatementRaises
      BY <1>2, <2>0, <2>5
      DEF CancelItself, StatementEnds, StatementRaises, Task
    <2>6. CASE TaskRaises \/ HandlerRaises \/ SoftTimeout \/ WorkerDies \/ Store
      BY <1>2, <2>0, <2>6 DEF TaskRaises, HandlerRaises, SoftTimeout, WorkerDies, Store, Task
    <2>7. CASE HandleError \/ Succeed
      BY <2>0, <2>7 DEF HandleError, Succeed, Row
    <2>8. CASE StopNext
      BY <1>2, <2>0, <2>8
      DEF StopNext, StopProceeds, StopReads, StopPrepares, StopKills,
          StopMisses, StopFails, StopMarks, StopUnsaved, StopStep, Row
    <2>9. CASE UNCHANGED vars
      BY <1>2, <2>9 DEF vars
    <2> QED
      BY <1>2, <2>1, <2>2, <2>3, <2>4, <2>5, <2>6, <2>7, <2>8, <2>9
      DEF Next, TaskNext, TaskProceeds
  <1> QED
    BY <1>1, <1>2, TypeCorrect, PTL DEF Spec

-----------------------------------------------------------------------------
\* The results are in the backend before the task names their key.
StoredInv ==
    /\ KeyHasResults
    /\ task.pc = "finishing" /\ StoresResults => backend

\* A key in the row always has its results behind it.
THEOREM KeyAlwaysHasResults == Spec => []KeyHasResults
  <1>1. Init => StoredInv
    BY DEF Init, StoredInv, KeyHasResults
  <1>2. ASSUME TypeOK, StoredInv, [Next]_vars PROVE StoredInv'
    <2>0. row \in Row /\ task \in Task /\ backend \in BOOLEAN
      BY <1>2 DEF TypeOK
    <2> USE DEF StoredInv, KeyHasResults, TaskStep
    <2>1. CASE WebNext
      BY <1>2, <2>0, <2>1
      DEF WebNext, Submit, Refuse, Enqueue, Answer, WebStep, Row, Task
    <2>2. CASE SetRunning \/ Connect \/ Begin \/ Announce \/ HandleError
      BY <1>2, <2>0, <2>2
      DEF SetRunning, Connect, Begin, Announce, HandleError, Row, Task
    <2>3. CASE Check \/ Refresh
      BY <1>2, <2>0, <2>3 DEF Check, Refresh, Task
    <2>4. CASE CancelItself \/ StatementEnds \/ StatementRaises
      BY <1>2, <2>0, <2>4
      DEF CancelItself, StatementEnds, StatementRaises, Task
    <2>5. CASE TaskRaises \/ HandlerRaises \/ SoftTimeout \/ WorkerDies
      BY <1>2, <2>0, <2>5 DEF TaskRaises, HandlerRaises, SoftTimeout, WorkerDies, Task
    <2>6. CASE Store
      BY <1>2, <2>0, <2>6 DEF Store, Task
    <2>7. CASE Succeed
      BY <1>2, <2>0, <2>7 DEF Succeed, Row, Task
    <2>8. CASE StopNext
      BY <1>2, <2>0, <2>8
      DEF StopNext, StopProceeds, StopReads, StopPrepares, StopKills,
          StopMisses, StopFails, StopMarks, StopUnsaved, StopStep, Row
    <2>9. CASE UNCHANGED vars
      BY <1>2, <2>9 DEF vars
    <2> QED
      BY <1>2, <2>1, <2>2, <2>3, <2>4, <2>5, <2>6, <2>7, <2>8, <2>9
      DEF Next, TaskNext, TaskProceeds
  <1>3. StoredInv => KeyHasResults
    BY DEF StoredInv
  <1> QED
    BY <1>1, <1>2, <1>3, TypeCorrect, PTL DEF Spec

-----------------------------------------------------------------------------
\* A request that has not queued the task has none.
Unqueued == web \in {"new", "saved", "refused"} => task.pc = "none"

\* Once a statement has begun in spite of the stop, the row is marked as
\* stopped as long as the task may come to its next check, so that the check
\* finds it. Before that nothing has begun in spite of a stop.
MarkedInv ==
    /\ task.pc \in {"none", "queued", "connecting", "ready"} => afterStop = 0
    /\ task.pc \in {"checking", "executing", "announced", "raised"}
         => afterStop = 0 \/ row.status = "stopped"

BitesInv == Unqueued /\ StopBitesSoon /\ MarkedInv

\* After a running query was stopped at most one more statement begins.
THEOREM StopAlwaysBitesSoon == Spec => []StopBitesSoon
  <1>1. Init => BitesInv
    BY DEF Init, BitesInv, Unqueued, StopBitesSoon, MarkedInv
  <1>2. ASSUME TypeOK, BitesInv, [Next]_vars PROVE BitesInv'
    <2>0. row \in Row /\ task \in Task /\ afterStop \in Nat
      BY <1>2 DEF TypeOK
    <2> USE DEF BitesInv, Unqueued, StopBitesSoon, MarkedInv, TaskStep
    <2>1. CASE WebNext
      BY <1>2, <2>0, <2>1
      DEF WebNext, Submit, Refuse, Enqueue, Answer, WebStep, Row, Task
    <2>2. CASE SetRunning \/ Connect
      BY <1>2, <2>0, <2>2 DEF SetRunning, Connect, Row, Task
    <2>3. CASE Check
      BY <1>2, <2>0, <2>3 DEF Check, Task
    <2>4. CASE Begin
      BY <1>2, <2>0, <2>4 DEF Begin, Row, Task
    <2>5. CASE Announce \/ Refresh
      BY <1>2, <2>0, <2>5 DEF Announce, Refresh, Row, Task
    <2>6. CASE CancelItself \/ StatementEnds \/ StatementRaises
      <3>1. CASE CancelItself
        BY <1>2, <2>0, <3>1 DEF CancelItself
      <3>2. CASE StatementEnds
        <4>1. task.pc \in {"executing", "announced"}
          BY <3>2 DEF StatementEnds, InStatement
        <4>2. /\ task'.pc \in {"checking", "storing"}
              /\ UNCHANGED <<row, web, afterStop>>
          BY <2>0, <3>2 DEF StatementEnds, Task
        <4> QED
          BY <1>2, <4>1, <4>2
      <3>3. CASE StatementRaises
        BY <1>2, <2>0, <3>3 DEF StatementRaises, Task
      <3> QED
        BY <2>6, <3>1, <3>2, <3>3
    <2>7. CASE TaskRaises \/ HandlerRaises \/ SoftTimeout \/ WorkerDies \/ Store
      BY <1>2, <2>0, <2>7
      DEF TaskRaises, HandlerRaises, SoftTimeout, WorkerDies, Store, Task, Alive, Working
    <2>8. CASE HandleError \/ Succeed
      BY <1>2, <2>0, <2>8 DEF HandleError, Succeed, Task
    <2>9. CASE StopNext
      BY <1>2, <2>0, <2>9
      DEF StopNext, StopProceeds, StopReads, StopPrepares, StopKills,
          StopMisses, StopFails, StopMarks, StopUnsaved, StopStep, Row
    <2>10. CASE UNCHANGED vars
      BY <1>2, <2>10 DEF vars
    <2> QED
      BY <1>2, <2>1, <2>2, <2>3, <2>4, <2>5, <2>6, <2>7, <2>8, <2>9, <2>10
      DEF Next, TaskNext, TaskProceeds
  <1>3. BitesInv => StopBitesSoon
    BY DEF BitesInv
  <1> QED
    BY <1>1, <1>2, <1>3, TypeCorrect, PTL DEF Spec

-----------------------------------------------------------------------------
(***************************************************************************)
(* The page.  It acts on the server as any client does, so that what is    *)
(* true of the server alone is true of the two together.                   *)
(***************************************************************************)
LEMMA PageStepIsStep == [PageNext]_allVars => [Next]_vars
  <1> SUFFICES ASSUME [PageNext]_allVars PROVE [Next]_vars
    OBVIOUS
  <1>1. CASE Run
    BY <1>1 DEF Run, Next, WebNext
  <1>2. CASE AskStop
    BY <1>2 DEF AskStop, Next, StopNext
  <1>3. CASE PostReturns \/ Poll \/ PollReturns \/ FetchReturns \/ StopReturns
    BY <1>3 DEF PostReturns, Poll, PollReturns, FetchReturns, StopReturns
  <1>4. CASE ServerStep
    BY <1>4 DEF ServerStep, Next, WebNext, StopNext
  <1>5. CASE UNCHANGED allVars
    BY <1>5 DEF allVars
  <1> QED
    BY <1>1, <1>2, <1>3, <1>4, <1>5 DEF PageNext, PageStep

\* The page and the server together behave as the server's specification says.
THEOREM PageIsAClient == PageSpec => Spec
  <1>1. PageInit => Init
    BY DEF PageInit
  <1> QED
    BY <1>1, PageStepIsStep, PTL DEF PageSpec, Spec

(***************************************************************************)
(* Success.  The row says that the query succeeded, or names its results,  *)
(* only once the task has succeeded, which it does not take back; so does  *)
(* an answer to a poll, however late it is reduced.                        *)
(***************************************************************************)
TrueRow == row.status = "success" \/ row.results => task.pc = "succeeded"

TruePoll == poll.status = "success" \/ poll.results => task.pc = "succeeded"

SuccessInv == Unqueued /\ TrueRow /\ TruePoll /\ SuccessIsTrue

LEMMA ServerKeepsSuccess ==
    ASSUME TypeOK, Unqueued, TrueRow, [Next]_vars
    PROVE  /\ Unqueued' /\ TrueRow'
           /\ task.pc = "succeeded" => task'.pc = "succeeded"
  <1>0. row \in Row /\ task \in Task
    BY DEF TypeOK
  <1> USE DEF Unqueued, TrueRow, TaskStep
  <1>1. CASE WebNext
    BY <1>0, <1>1 DEF WebNext, Submit, Refuse, Enqueue, Answer, WebStep, Row, Task
  <1>2. CASE SetRunning \/ Connect \/ Begin \/ Announce
    BY <1>0, <1>2 DEF SetRunning, Connect, Begin, Announce, Row, Task
  <1>3. CASE Check \/ Refresh
    BY <1>0, <1>3 DEF Check, Refresh, Task
  <1>4. CASE CancelItself \/ StatementRaises
    BY <1>0, <1>4 DEF CancelItself, StatementRaises, Task
  <1>5. CASE StatementEnds
    <2>1. task.pc \in {"executing", "announced"}
      BY <1>5 DEF StatementEnds, InStatement
    <2>2. /\ task'.pc \in {"checking", "storing"}
          /\ UNCHANGED <<row, web>>
      BY <1>0, <1>5 DEF StatementEnds, Task
    <2> QED
      BY <2>1, <2>2
  <1>6. CASE TaskRaises \/ HandlerRaises \/ SoftTimeout \/ WorkerDies \/ Store
    BY <1>0, <1>6
    DEF TaskRaises, HandlerRaises, SoftTimeout, WorkerDies, Store, Task, Alive, Working
  <1>7. CASE HandleError \/ Succeed
    BY <1>0, <1>7 DEF HandleError, Succeed, Row, Task
  <1>8. CASE StopNext
    BY <1>0, <1>8
    DEF StopNext, StopProceeds, StopReads, StopPrepares, StopKills,
        StopMisses, StopFails, StopMarks, StopUnsaved, StopStep, Row
  <1>9. CASE UNCHANGED vars
    BY <1>9 DEF vars
  <1> QED
    BY <1>1, <1>2, <1>3, <1>4, <1>5, <1>6, <1>7, <1>8, <1>9
    DEF Next, TaskNext, TaskProceeds

LEMMA SuccessInvStep ==
    ASSUME TypeOK, SuccessInv, [PageNext]_allVars
    PROVE  SuccessInv'
  <1>1. Unqueued /\ TrueRow /\ TruePoll /\ SuccessIsTrue
    BY DEF SuccessInv
  <1>2. /\ Unqueued' /\ TrueRow'
        /\ task.pc = "succeeded" => task'.pc = "succeeded"
    BY <1>1, PageStepIsStep, ServerKeepsSuccess
  <1>3. CASE Run
    BY <1>1, <1>2, <1>3 DEF Run, SuccessInv, TruePoll, SuccessIsTrue
  <1>4. CASE PostReturns
    <2>1. task' = task /\ poll' = poll
      BY <1>4 DEF PostReturns, vars
    <2>2. shown' = "success" => task.pc = "succeeded" \/ shown = "success"
      BY <1>4 DEF PostReturns, See
    <2> QED
      BY <1>1, <1>2, <2>1, <2>2 DEF SuccessInv, TruePoll, SuccessIsTrue
  <1>5. CASE Poll
    BY <1>1, <1>2, <1>5 DEF Poll, vars, SuccessInv, TrueRow, TruePoll, SuccessIsTrue
  <1>6. CASE PollReturns
    <2>1. task' = task /\ poll' = NoPoll
      BY <1>6 DEF PollReturns, vars
    <2>2. shown' = "success" => poll.status = "success" \/ shown = "success"
      BY <1>6 DEF PollReturns, See
    <2> QED
      BY <1>1, <1>2, <2>1, <2>2 DEF SuccessInv, TruePoll, SuccessIsTrue, NoPoll
  <1>7. CASE FetchReturns
    BY <1>1, <1>2, <1>7 DEF FetchReturns, vars, SuccessInv, TrueRow, TruePoll, SuccessIsTrue
  <1>8. CASE AskStop \/ StopReturns
    BY <1>1, <1>2, <1>8 DEF AskStop, StopReturns, SuccessInv, TruePoll, SuccessIsTrue
  <1>9. CASE ServerStep \/ UNCHANGED allVars
    BY <1>1, <1>2, <1>9
    DEF ServerStep, pageVars, allVars, SuccessInv, TruePoll, SuccessIsTrue
  <1> QED
    BY <1>3, <1>4, <1>5, <1>6, <1>7, <1>8, <1>9 DEF PageNext, PageStep

(***************************************************************************)
(* The page never shows success for a query that has not succeeded, for    *)
(* any engine, number of statements and stop requests, whatever fails and  *)
(* in whatever order the answers to its requests arrive.                   *)
(***************************************************************************)
THEOREM SuccessIsAlwaysTrue == PageSpec => []SuccessIsTrue
  <1>1. PageInit => SuccessInv
    BY DEF PageInit, Init, SuccessInv, Unqueued, TrueRow, TruePoll, NoPoll, SuccessIsTrue
  <1>2. SuccessInv => SuccessIsTrue
    BY DEF SuccessInv
  <1>3. PageSpec => []TypeOK
    BY PageIsAClient, TypeCorrect, PTL
  <1> QED
    BY <1>1, <1>2, <1>3, SuccessInvStep, PTL DEF PageSpec

-----------------------------------------------------------------------------
(***************************************************************************)
(* Requests for the results.  The store may lose the results key once, to  *)
(* a poll that was answered before the task succeeded; only then is there  *)
(* a second request.                                                       *)
(***************************************************************************)
OldPoll == poll # NoPoll /\ ~ poll.results

FetchesInv ==
    /\ ~ row.results => fetches = 0 /\ ~ key /\ ~ poll.results
    /\ ~ key => fetches <= 1
    /\ OldPoll /\ ~ key => fetches = 0
    /\ OldPoll => fetches <= 1

PageTypeInv == PageTypeOK /\ Unqueued /\ TrueRow /\ FetchesInv

\* The key of the results, once in the row, stays there.
LEMMA ResultsStay ==
    ASSUME TypeOK, Unqueued, TrueRow, [Next]_vars, row.results
    PROVE  row'.results
  <1>0. row \in Row /\ task \in Task /\ task.pc = "succeeded"
    BY DEF TypeOK, TrueRow
  <1>1. web \notin {"saved"}
    BY <1>0 DEF Unqueued
  <1>2. CASE WebNext
    BY <1>0, <1>1, <1>2 DEF WebNext, Submit, Refuse, Enqueue, Answer, WebStep, Row
  <1>3. CASE TaskNext
    BY <1>0, <1>3
    DEF TaskNext, TaskProceeds, SetRunning, Connect, Check, Begin, Announce, CancelItself,
        StatementRaises, Refresh, HandleError, Store, Succeed, StatementEnds, InStatement,
        TaskRaises, HandlerRaises, SoftTimeout, WorkerDies, TaskStep, Alive, Working
  <1>4. CASE StopNext
    BY <1>0, <1>4
    DEF StopNext, StopProceeds, StopReads, StopPrepares, StopKills,
        StopMisses, StopFails, StopMarks, StopUnsaved, StopStep, Row
  <1>5. CASE UNCHANGED vars
    BY <1>5 DEF vars
  <1> QED
    BY <1>2, <1>3, <1>4, <1>5 DEF Next

LEMMA PageTypeInvStep ==
    ASSUME PageTypeInv, TypeOK', [PageNext]_allVars
    PROVE  PageTypeInv'
  <1>0. TypeOK /\ PageTypeOK /\ Unqueued /\ TrueRow /\ FetchesInv
    BY DEF PageTypeInv, PageTypeOK
  <1>1. Unqueued' /\ TrueRow' /\ (row.results => row'.results)
    BY <1>0, PageStepIsStep, ServerKeepsSuccess, ResultsStay
  <1>2. /\ row \in Row /\ row' \in Row /\ row.status \in Statuses /\ row.results \in BOOLEAN
        /\ row'.results \in BOOLEAN
    <2>1. row \in Row /\ row' \in Row
      BY <1>0 DEF TypeOK
    <2> QED
      BY <2>1 DEF Row
  <1>3. /\ shown \in {"none"} \cup Running \cup Concluded
        /\ key \in BOOLEAN /\ posted \in BOOLEAN /\ stopping \in BOOLEAN
        /\ poll \in [status : Statuses, results : BOOLEAN] /\ fetches \in 0 .. 2
        /\ poll.status \in Statuses /\ poll.results \in BOOLEAN
    BY <1>0 DEF PageTypeOK
  <1>4. Statuses \ {"none"} \subseteq Running \cup Concluded
    BY DEF Statuses, Running, Concluded
  <1>5. NoPoll \in [status : Statuses, results : BOOLEAN] /\ ~ NoPoll.results
    BY DEF NoPoll, Statuses
  <1>6. ASSUME NEW s \in {"none"} \cup Running \cup Concluded, NEW k \in BOOLEAN, See(s, k),
               k /\ ~ key => fetches <= 1
        PROVE  /\ shown' \in {"none"} \cup Running \cup Concluded
               /\ key' = k
               /\ fetches' \in 0 .. 2
               /\ fetches' = IF k /\ ~ key THEN fetches + 1 ELSE fetches
    BY <1>3, <1>6 DEF See, Running
  <1>7. CASE Run
    <2>1. PageTypeOK'
      BY <1>0, <1>3, <1>7 DEF Run, PageTypeOK, Running
    <2>2. FetchesInv'
      BY <1>0, <1>1, <1>7 DEF Run, Submit, FetchesInv, OldPoll
    <2> QED
      BY <1>1, <2>1, <2>2 DEF PageTypeInv
  <1>8. CASE PostReturns
    <2>1. UNCHANGED <<row, stopping, poll>> /\ posted' = FALSE
      BY <1>8 DEF PostReturns, vars
    <2>2. \/ UNCHANGED <<shown, key, fetches>>
          \/ \E s \in {"failed", "success"} : \E k \in {key, key \/ row.results} : See(s, k)
      BY <1>8 DEF PostReturns
    <2>3. CASE UNCHANGED <<shown, key, fetches>>
      BY <1>0, <1>1, <1>3, <2>1, <2>3 DEF PageTypeInv, PageTypeOK, FetchesInv, OldPoll
    <2>4. ASSUME NEW s \in {"failed", "success"}, NEW k \in {key, key \/ row.results}, See(s, k)
          PROVE  PageTypeInv'
      <3>1. k \in BOOLEAN /\ s \in {"none"} \cup Running \cup Concluded
        BY <1>2, <1>3 DEF Concluded
      <3>2. k /\ ~ key => fetches <= 1
        BY <1>0 DEF FetchesInv
      <3>3. /\ shown' \in {"none"} \cup Running \cup Concluded
            /\ key' = k
            /\ fetches' \in 0 .. 2
            /\ fetches' = IF k /\ ~ key THEN fetches + 1 ELSE fetches
        BY <1>6, <2>4, <3>1, <3>2
      <3>4. PageTypeOK'
        BY <1>0, <1>3, <2>1, <3>1, <3>3 DEF PageTypeOK
      <3>5. key => k
        BY <1>3
      <3>6. ~ row.results => k = key
        BY <1>3
      <3>7. FetchesInv'
        BY <1>0, <1>3, <2>1, <3>3, <3>5, <3>6 DEF FetchesInv, OldPoll
      <3> QED
        BY <1>1, <3>4, <3>7 DEF PageTypeInv
    <2> QED
      BY <2>2, <2>3, <2>4
  <1>9. CASE Poll
    <2>1. /\ UNCHANGED <<row, shown, key, posted, stopping, fetches>>
          /\ poll' = [status |-> row.status, results |-> row.results]
          /\ poll = NoPoll
      BY <1>9 DEF Poll, vars
    <2>2. PageTypeOK'
      BY <1>0, <1>2, <1>3, <2>1 DEF PageTypeOK
    <2>3. FetchesInv'
      BY <1>0, <1>3, <2>1 DEF FetchesInv, OldPoll
    <2> QED
      BY <1>1, <2>2, <2>3 DEF PageTypeInv
  <1>10. CASE PollReturns
    <2>1. UNCHANGED <<row, posted, stopping>> /\ poll' = NoPoll /\ poll # NoPoll
      BY <1>10 DEF PollReturns, vars
    <2>2. \/ UNCHANGED <<shown, key, fetches>>
          \/ See(shown, poll.results)
          \/ See(poll.status, poll.results)
      BY <1>10 DEF PollReturns
    <2>3. CASE UNCHANGED <<shown, key, fetches>>
      BY <1>0, <1>1, <1>3, <1>5, <2>1, <2>3 DEF PageTypeInv, PageTypeOK, FetchesInv, OldPoll
    <2>4. ASSUME NEW s \in {"none"} \cup Running \cup Concluded, See(s, poll.results)
          PROVE  PageTypeInv'
      <3>1. poll.results /\ ~ key => fetches <= 1
        BY <1>0 DEF FetchesInv
      <3>2. /\ shown' \in {"none"} \cup Running \cup Concluded
            /\ key' = poll.results
            /\ fetches' \in 0 .. 2
            /\ fetches' = IF poll.results /\ ~ key THEN fetches + 1 ELSE fetches
        BY <1>3, <1>6, <2>4, <3>1
      <3>3. PageTypeOK'
        BY <1>0, <1>3, <1>5, <2>1, <3>2 DEF PageTypeOK
      <3>4. FetchesInv'
        BY <1>0, <1>3, <1>5, <2>1, <3>2 DEF FetchesInv, OldPoll
      <3> QED
        BY <1>1, <3>3, <3>4 DEF PageTypeInv
    <2>5. poll.status \in {"none"} \cup Running \cup Concluded
      BY <1>3, <1>4
    <2> QED
      BY <1>3, <2>2, <2>3, <2>4, <2>5
  <1>11. CASE FetchReturns
    <2>1. /\ UNCHANGED <<row, key, posted, stopping, poll>>
          /\ fetches > 0 /\ fetches' = fetches - 1
          /\ shown' \in {"success", "failed"}
      BY <1>11 DEF FetchReturns, vars
    <2>2. PageTypeOK'
      BY <1>0, <1>3, <2>1 DEF PageTypeOK, Concluded
    <2>3. FetchesInv'
      BY <1>0, <1>3, <2>1 DEF FetchesInv, OldPoll
    <2> QED
      BY <1>1, <2>2, <2>3 DEF PageTypeInv
  <1>12. CASE AskStop \/ StopReturns
    <2>1. UNCHANGED <<row, key, posted, poll, fetches>>
      BY <1>12 DEF AskStop, StopReads, StopReturns, vars
    <2>2. stopping' \in BOOLEAN /\ shown' \in {"none"} \cup Running \cup Concluded
      BY <1>3, <1>12 DEF AskStop, StopReturns, Concluded
    <2>3. PageTypeOK'
      BY <1>0, <1>3, <2>1, <2>2 DEF PageTypeOK
    <2>4. FetchesInv'
      BY <1>0, <2>1 DEF FetchesInv, OldPoll
    <2> QED
      BY <1>1, <2>3, <2>4 DEF PageTypeInv
  <1>13. CASE ServerStep \/ UNCHANGED allVars
    <2>1. UNCHANGED <<shown, key, posted, stopping, poll, fetches>>
      BY <1>13 DEF ServerStep, pageVars, allVars
    <2>2. PageTypeOK'
      BY <1>0, <1>3, <2>1 DEF PageTypeOK
    <2>3. FetchesInv'
      BY <1>0, <1>1, <2>1 DEF FetchesInv, OldPoll
    <2> QED
      BY <1>1, <2>2, <2>3 DEF PageTypeInv
  <1> QED
    BY <1>7, <1>8, <1>9, <1>10, <1>11, <1>12, <1>13 DEF PageNext, PageStep

(***************************************************************************)
(* The variables of the page have their types; in particular there are     *)
(* never more than two requests for the results, although every poll that  *)
(* returns may change the key that the store has.                          *)
(***************************************************************************)
THEOREM PageTypeCorrect == PageSpec => []PageTypeOK
  <1>1. PageSpec => []TypeOK
    BY PageIsAClient, TypeCorrect, PTL
  <1>2. PageInit /\ TypeOK => PageTypeInv
    <2> SUFFICES ASSUME PageInit, TypeOK  PROVE PageTypeInv
      OBVIOUS
    <2>1. /\ shown = "none" /\ key = FALSE /\ posted = FALSE /\ stopping = FALSE
          /\ poll = [status |-> "none", results |-> FALSE] /\ fetches = 0
      BY DEF PageInit, NoPoll
    <2>2. task.pc = "none" /\ row.results = FALSE /\ row.status = "none"
      BY DEF PageInit, Init
    <2>3. poll \in [status : Statuses, results : BOOLEAN]
      BY <2>1 DEF Statuses
    <2>4. PageTypeOK
      <3>1. fetches \in 0 .. 2
        BY <2>1
      <3>2. key \in BOOLEAN /\ posted \in BOOLEAN /\ stopping \in BOOLEAN
        BY <2>1
      <3>3. shown \in {"none"} \cup Running \cup Concluded
        BY <2>1
      <3> QED
        BY <2>3, <3>1, <3>2, <3>3 DEF PageTypeOK
    <2>5. poll.results = FALSE /\ poll = NoPoll
      BY <2>1 DEF NoPoll
    <2>6. FetchesInv
      BY <2>1, <2>2, <2>5 DEF FetchesInv, OldPoll
    <2> QED
      BY <2>2, <2>4, <2>6 DEF PageTypeInv, Unqueued, TrueRow
  <1>3. PageTypeInv => PageTypeOK
    BY DEF PageTypeInv
  <1> QED
    BY <1>1, <1>2, <1>3, PageTypeInvStep, PTL DEF PageSpec

=============================================================================
