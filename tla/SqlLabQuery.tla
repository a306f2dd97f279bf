----------------------------- MODULE SqlLabQuery -----------------------------
(***************************************************************************)
(* One query of SQL Lab on the server. Three parties share its row of the  *)
(* metadata database: the request that submits it, the task that runs its  *)
(* statements (in a Celery worker, or called by the request itself), and   *)
(* the request that stops it. Each writes the columns it changed when it   *)
(* commits, over whatever the others committed since it read the row.      *)
(*                                                                         *)
(*   ExecuteSqlCommand, SqlJsonExecutor       Submit, Refuse, Enqueue,     *)
(*                                            Answer                       *)
(*   get_sql_results, execute_sql_statements  SetRunning .. Succeed        *)
(*   QueryDAO.stop_query, cancel_query        StopReads .. StopMarks       *)
(***************************************************************************)
EXTENDS Naturals

CONSTANTS
    Engines,        \* the engines its database may have, see EngineKinds
    Modes,          \* whether it may run asynchronously: a set of BOOLEANs
    StoresResults,  \* a results backend is configured, and no CTAS
    Statements,     \* how many statements the query has
    MaxStops,       \* bound: stop requests
    Faults          \* the faults that may happen, see FaultKinds

(***************************************************************************)
(*   implicit  the task polls the row and cancels its own cursor (Hive)    *)
(*   session   an id of the connection, known before the first statement,  *)
(*             which is killed as a whole (Postgres, MySQL)                *)
(*   late      an id of the statement, known once it runs (Trino)          *)
(***************************************************************************)
EngineKinds == {"implicit", "session", "late"}

(***************************************************************************)
(*   timeout  Celery raises SoftTimeLimitExceeded in the task              *)
(*   worker   the worker process dies, or reaches the hard time limit      *)
(*   handler  the error handler of the task fails: it cannot read or       *)
(*            commit the row, or the soft time limit strikes then          *)
(*   logger   the event logger fails to commit the stop request's session  *)
(*   kill     the database refuses to cancel                               *)
(*   fetch    the request for the results fails                            *)
(***************************************************************************)
FaultKinds == {"timeout", "worker", "handler", "logger", "kill", "fetch"}

ASSUME SqlLabAssumption ==
    /\ Engines \subseteq EngineKinds
    /\ Modes \subseteq BOOLEAN
    /\ StoresResults \in BOOLEAN
    /\ Statements \in Nat \ {0}
    /\ MaxStops \in Nat
    /\ Faults \subseteq FaultKinds

VARIABLES
    row,        \* the committed row: status, extra_json, results_key, database
    web,        \* where the submitting request is
    task,       \* where the task is, its statement, the extra_json it read
    engine,     \* what the database does for the task's connection
    backend,    \* whether the results backend holds the results
    stop,       \* the stop request: where it is, what it read, its answer
    stops,      \* how many stop requests there were
    afterStop   \* history: statements begun while the row said stopped

vars == <<row, web, task, engine, backend, stop, stops, afterStop>>

\* The keys of extra_json that matter: QUERY_CANCEL_KEY, 0 for none and
\* otherwise the statement it was set for, and QUERY_EARLY_CANCEL_KEY.
Extra == [key : 0 .. Statements, early : BOOLEAN]
NoExtra == [key |-> 0, early |-> FALSE]

Statuses == {"none", "pending", "running", "stopped", "failed", "success"}
Databases == [engine : Engines, async : Modes]
Row == [status : Statuses, extra : Extra, results : BOOLEAN,
        database : Databases]

\* How the query's database cancels a statement, and whether the query's task
\* runs in a Celery worker: the page asks for what the database allows.
Engine == row.database.engine
RunAsync == row.database.async

Working == {"checking", "ready", "executing", "announced", "raised",
            "failing", "storing", "finishing"}
Alive == {"queued", "connecting"} \cup Working
Ended == {"succeeded", "failed", "stopped", "dead", "escaped"}
Phases == {"none"} \cup Alive \cup Ended
Task == [pc : Phases, at : 1 .. Statements, extra : Extra]

StopPhases == {"idle", "preparing", "killing", "marking"}
Answers == {"none", "ok", "failed"}
Stop == [pc : StopPhases, extra : Extra, answer : Answers]

TypeOK ==
    /\ row \in Row
    /\ web \in {"new", "saved", "queued", "answered", "refused"}
    /\ task \in Task
    /\ engine \in {"idle", "executing", "killed"}
    /\ backend \in BOOLEAN
    /\ stop \in Stop
    /\ stops \in 0 .. MaxStops
    /\ afterStop \in Nat

Init ==
    /\ \E d \in Databases :
           row = [status |-> "none", extra |-> NoExtra, results |-> FALSE,
                  database |-> d]
    /\ web = "new"
    /\ task = [pc |-> "none", at |-> 1, extra |-> NoExtra]
    /\ engine = "idle"
    /\ backend = FALSE
    /\ stop = [pc |-> "idle", extra |-> NoExtra, answer |-> "none"]
    /\ stops = 0
    /\ afterStop = 0

-----------------------------------------------------------------------------
\* The request that submits the query.

WebStep(from, to) ==
    /\ web = from
    /\ web' = to
    /\ UNCHANGED <<engine, backend, stop, stops, afterStop>>

\* _save_new_query commits, so that the task can read the row.
Submit ==
    /\ WebStep("new", "saved")
    /\ row' = [row EXCEPT !.status = "pending"]
    /\ UNCHANGED task

\* The user has no access, the template does not render, or delay() raises:
\* the command sets the status to FAILED and raises, and its transaction
\* rolls that change back.
Refuse ==
    /\ WebStep("saved", "refused")
    /\ UNCHANGED <<row, task>>

Enqueue ==
    /\ WebStep("saved", "queued")
    /\ task' = [task EXCEPT !.pc = "queued"]
    /\ UNCHANGED row

\* save_metadata adds the columns to extra_json. In the session of a request
\* that only queued the task, this is the extra_json of the new row.
Answer ==
    /\ WebStep("queued", "answered")
    /\ IF RunAsync
       THEN row' = [row EXCEPT !.extra = NoExtra]
       ELSE task.pc \in Ended /\ UNCHANGED row
    /\ UNCHANGED task

-----------------------------------------------------------------------------
\* The task: get_sql_results.

TaskStep(from, to) ==
    /\ task.pc = from
    /\ task' = [task EXCEPT !.pc = to]
    /\ UNCHANGED <<web, stop, stops>>

\* The status is set to RUNNING whatever it was; the commit expires the
\* row, which is then read anew.
SetRunning ==
    /\ task.pc = "queued"
    /\ task' = [task EXCEPT !.pc = "connecting", !.extra = row.extra]
    /\ row' = [row EXCEPT !.status = "running"]
    /\ UNCHANGED <<web, engine, backend, stop, stops, afterStop>>

Connect ==
    /\ TaskStep("connecting", "checking")
    /\ row' = IF Engine = "session"
              THEN [row EXCEPT !.extra = [task.extra EXCEPT !.key = 1]]
              ELSE row
    /\ UNCHANGED <<engine, backend, afterStop>>

\* Mutant: the status is not looked at before each statement.
ChecksNothing ==
    /\ TaskStep("checking", "ready")
    /\ UNCHANGED <<row, engine, backend, afterStop>>

\* db.session.refresh(query), and the return if the query was stopped.
Check ==
    /\ task.pc = "checking"
    /\ task' = [task EXCEPT
                  !.pc = IF row.status = "stopped" THEN "stopped" ELSE "ready",
                  !.extra = row.extra]
    /\ UNCHANGED <<row, web, engine, backend, stop, stops, afterStop>>

\* The progress message is committed with the extra_json just read, and the
\* statement goes to the database.
Begin ==
    /\ TaskStep("ready", "executing")
    /\ row' = [row EXCEPT !.extra = task.extra]
    /\ engine' = IF engine = "killed" THEN "killed" ELSE "executing"
    /\ afterStop' = IF row.status = "stopped" THEN afterStop + 1 ELSE afterStop
    /\ UNCHANGED backend

\* handle_cursor of a "late" engine stores the id of the statement, in the
\* extra_json that was read when the statement began, and cancels the
\* statement itself if the intent to stop is in there.
Announce ==
    /\ Engine = "late"
    /\ TaskStep("executing", "announced")
    /\ row' = [row EXCEPT !.extra = [task.extra EXCEPT !.key = task.at]]
    /\ engine' = IF task.extra.early THEN "killed" ELSE engine
    /\ UNCHANGED <<backend, afterStop>>

\* handle_cursor of an "implicit" engine polls the row.
CancelItself ==
    /\ Engine = "implicit"
    /\ task.pc = "executing"
    /\ engine = "executing"
    /\ row.status = "stopped"
    /\ engine' = "killed"
    /\ UNCHANGED <<row, web, task, backend, stop, stops, afterStop>>

InStatement == task.pc = IF Engine = "late" THEN "announced" ELSE "executing"

\* Mutant: one statement too many.
EndsPastLast ==
    /\ InStatement
    /\ engine = "executing"
    /\ engine' = "idle"
    /\ task' = [task EXCEPT !.pc = "checking", !.at = @ + 1]
    /\ UNCHANGED <<row, web, backend, stop, stops, afterStop>>

StatementEnds ==
    /\ InStatement
    /\ engine = "executing"
    /\ engine' = "idle"
    /\ task' = IF task.at < Statements
               THEN [task EXCEPT !.pc = "checking", !.at = @ + 1]
               ELSE [task EXCEPT !.pc = "storing"]
    /\ UNCHANGED <<row, web, backend, stop, stops, afterStop>>

StatementRaises ==
    /\ task.pc \in {"executing", "announced"}
    /\ engine' = "idle"
    /\ task' = [task EXCEPT !.pc = "raised"]
    /\ UNCHANGED <<row, web, backend, stop, stops, afterStop>>

\* Mutant: every exception in a statement is taken for a stop.
RefreshAssumesStop ==
    /\ TaskStep("raised", "stopped")
    /\ UNCHANGED <<row, engine, backend, afterStop>>

\* A stop is expected to raise in the statement, and is no error then.
Refresh ==
    /\ task.pc = "raised"
    /\ task' = [task EXCEPT
                  !.pc = IF row.status = "stopped" THEN "stopped" ELSE "failing"]
    /\ UNCHANGED <<row, web, engine, backend, stop, stops, afterStop>>

\* Outside a statement every exception goes to get_sql_results: parsing, an
\* invalid CTAS, the connection, reading or committing the row, the results
\* backend.
TaskRaises ==
    /\ \E pc \in {"queued", "connecting", "checking", "ready", "raised", "storing",
                 "finishing"} : TaskStep(pc, "failing")
    /\ UNCHANGED <<row, engine, backend, afterStop>>

\* Celery's soft time limit, at any point of the task before its error handler
\* (there it is HandlerRaises). A query that is not asynchronous has a timeout of
\* its own, in a statement an error like others.
SoftTimeout ==
    /\ "timeout" \in Faults
    /\ \E pc \in Alive \ {"queued", "failing"} :
           /\ RunAsync \/ pc \notin {"executing", "announced"}
           /\ TaskStep(pc, "failing")
    /\ engine' = "idle"
    /\ UNCHANGED <<row, backend, afterStop>>

HandleError ==
    /\ TaskStep("failing", "failed")
    /\ row' = [row EXCEPT !.status = "failed"]
    /\ UNCHANGED <<engine, backend, afterStop>>

\* The handler of get_sql_results raises itself, and nothing catches that.
HandlerRaises ==
    /\ "handler" \in Faults
    /\ TaskStep("failing", "escaped")
    /\ UNCHANGED <<row, engine, backend, afterStop>>

\* Mutant: the row names the key before the results are in the backend.
NamesKeyFirst ==
    /\ TaskStep("storing", "finishing")
    /\ row' = [row EXCEPT !.results = StoresResults]
    /\ UNCHANGED <<engine, backend, afterStop>>

\* The results go to the backend before the row names their key. The code does
\* not look at what set() returns; that a backend fails without an exception is
\* left out.
Store ==
    /\ TaskStep("storing", "finishing")
    /\ backend' = (backend \/ StoresResults)
    /\ UNCHANGED <<row, engine, afterStop>>

\* The status is set to SUCCESS whatever it was.
Succeed ==
    /\ TaskStep("finishing", "succeeded")
    /\ row' = [row EXCEPT !.status = "success", !.results = StoresResults]
    /\ UNCHANGED <<engine, backend, afterStop>>

WorkerDies ==
    /\ "worker" \in Faults
    /\ RunAsync
    /\ \E pc \in Alive \ {"queued"} : TaskStep(pc, "dead")
    /\ engine' = "idle"
    /\ UNCHANGED <<row, backend, afterStop>>

-----------------------------------------------------------------------------
\* The request that stops the query: QueryDAO.stop_query.

Tells(a) == stop' = [stop EXCEPT !.pc = "idle", !.answer = a]

StopStep(from) ==
    /\ stop.pc = from
    /\ UNCHANGED <<web, task, backend, stops, afterStop>>

\* What cancel_query does first, with the row it has read.
FirstStep ==
    CASE Engine = "implicit" \/ row.extra.early -> "marking"
      [] Engine = "late" /\ row.extra.key = 0 -> "preparing"
      [] OTHER -> "killing"

\* A query that has ended is answered as if it had been stopped.
StopReads ==
    /\ stop.pc = "idle"
    /\ stops < MaxStops
    /\ row.status # "none"
    /\ stops' = stops + 1
    /\ \/ /\ row.status \in {"failed", "success"}
          /\ Tells("ok")
       \/ /\ row.status \in {"pending", "running", "stopped"}
          /\ stop' = [pc |-> FirstStep, extra |-> row.extra, answer |-> "none"]
    /\ UNCHANGED <<row, web, task, engine, backend, afterStop>>

\* prepare_cancel_query of a "late" engine records the intent.
StopPrepares ==
    /\ StopStep("preparing")
    /\ row' = [row EXCEPT !.extra = [stop.extra EXCEPT !.early = TRUE]]
    /\ stop' = [stop EXCEPT !.pc = "marking"]
    /\ UNCHANGED engine

\* Whether an id in extra_json still names something the database can kill.
Reaches(key) ==
    /\ key # 0
    /\ IF Engine = "session" THEN task.pc \in Working
                             ELSE task.pc = "announced" /\ key = task.at

\* Mutant: the answer of the database is not looked at.
KillsNothing ==
    /\ StopStep("killing")
    /\ stop' = [stop EXCEPT !.pc = "marking"]
    /\ UNCHANGED <<row, engine>>

StopKills ==
    /\ StopStep("killing")
    /\ Reaches(stop.extra.key)
    /\ engine' = "killed"
    /\ stop' = [stop EXCEPT !.pc = "marking"]
    /\ UNCHANGED row

\* Killing a connection that is gone is an error in some databases only.
StopMisses ==
    /\ StopStep("killing")
    /\ Engine = "session"
    /\ stop.extra.key # 0
    /\ ~ Reaches(stop.extra.key)
    /\ stop' = [stop EXCEPT !.pc = "marking"]
    /\ UNCHANGED <<row, engine>>

StopFails ==
    /\ StopStep("killing")
    /\ "kill" \in Faults \/ ~ Reaches(stop.extra.key)
    /\ Tells("failed")
    /\ UNCHANGED <<row, engine>>

\* The commit is the event logger's.
StopMarks ==
    /\ StopStep("marking")
    /\ row' = [row EXCEPT !.status = "stopped"]
    /\ Tells("ok")
    /\ UNCHANGED engine

StopUnsaved ==
    /\ "logger" \in Faults
    /\ StopStep("marking")
    /\ Tells("ok")
    /\ UNCHANGED <<row, engine>>

-----------------------------------------------------------------------------
WebNext == Submit \/ Refuse \/ Enqueue \/ Answer

\* What the task does by itself, apart from the end of a statement.
TaskProceeds ==
    \/ SetRunning \/ Connect \/ Check \/ Begin \/ Announce \/ CancelItself
    \/ (engine = "killed" /\ StatementRaises)
    \/ Refresh \/ HandleError \/ Store \/ Succeed

TaskNext ==
    \/ TaskProceeds
    \/ StatementEnds \/ StatementRaises
    \/ TaskRaises \/ HandlerRaises \/ SoftTimeout \/ WorkerDies

StopProceeds ==
    StopPrepares \/ StopKills \/ StopMisses \/ StopFails \/ StopMarks

StopNext == StopReads \/ StopProceeds \/ StopUnsaved

Next == WebNext \/ TaskNext \/ StopNext

Spec == Init /\ [][Next]_vars

\* Fairness: the processes run, the broker delivers the task and the database
\* reports a killed statement; no statement has to end by itself.
Fairness ==
    /\ WF_vars(WebNext)
    /\ WF_vars(TaskProceeds)
    /\ WF_vars(StopProceeds)

FairSpec == Spec /\ Fairness

-----------------------------------------------------------------------------
(***************************************************************************)
(* Properties                                                              *)
(***************************************************************************)

\* While a row says that its running query was stopped at most one more statement
\* begins: the one whose check of the row had just been passed. (A stop that
\* comes before SetRunning is overwritten: StoppedStaysStopped.)
StopBitesSoon == afterStop <= 1

\* A RUNNING row has a task at work on it. Every way out of the task, errors
\* included, settles the status first; only a dead worker, and an error handler
\* that raises itself, leave it behind.
RunningIsProcessed ==
    row.status = "running" => task.pc \in Alive \cup {"dead", "escaped"}

\* A results key in the row can be used: its results are in the backend.
\* A query that succeeded and stores results has such a key.
KeyHasResults ==
    /\ row.results => backend
    /\ task.pc = "succeeded" /\ StoresResults => row.results

\* When stopping a query of a "session" engine has been answered with OK, its
\* task ends, even if its statement would never end by itself.
StopEndsTask ==
    Engine = "session" /\ stop.answer = "ok" ~> task.pc \in Ended \cup {"none"}

\* What the API says of a request it answers with 200: "Query stopped".
StopTellsTruth ==
    [][stop'.answer = "ok" /\ stop' # stop => row'.status = "stopped"]_vars

\* A query that was stopped before it was executed stays stopped.
StoppedStaysStopped ==
    [][row.status = "stopped" => row'.status = "stopped"]_vars

\* A query is PENDING as long as it is still being processed.
PendingIsProcessed ==
    row.status = "pending" => web \in {"saved", "queued"} \/ task.pc = "queued"

\* While a statement of a "late" engine runs, its id can be used to cancel it.
RunningCanBeCancelled ==
    task.pc = "announced" /\ engine = "executing" => row.extra.key = task.at

=============================================================================
