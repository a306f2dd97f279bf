----------------------------- MODULE AsyncQueries -----------------------------
(***************************************************************************)
(* Global async queries, server side: the Flask app hands a chart query to *)
(* a Celery worker as a job, the worker loads the data into the cache and  *)
(* reports the outcome by appending an event to two Redis streams, first   *)
(* to the stream of the job's channel and then to the global one ("full"). *)
(*                                                                         *)
(*   submit_chart_data_job, submit_explore_json_job      Submit            *)
(*   load_chart_data_into_cache,                         StartTask, Load,  *)
(*   load_explore_json_into_cache                        SoftTimeout, ...  *)
(*   AsyncQueryManager.update_job                        AddScoped, AddFull*)
(***************************************************************************)
EXTENDS StreamIds

CONSTANTS
    Jobs,           \* the async queries
    Channels,       \* a channel is a browser session: the JWT's channel id
    ChannelOf,      \* [Jobs -> Channels]
    Faults,         \* the faults that may happen, see FaultKinds
    StreamLimit,    \* GLOBAL_ASYNC_QUERIES_REDIS_STREAM_LIMIT
    FirehoseLimit,  \* GLOBAL_ASYNC_QUERIES_REDIS_STREAM_LIMIT_FIREHOSE
    MaxMs,          \* bound: the Redis clock, in milliseconds
    PerMs           \* bound: entries a stream gets in one millisecond

(***************************************************************************)
(*   user     _load_user_from_job_metadata raises                          *)
(*   timeout  Celery raises SoftTimeLimitExceeded in the task              *)
(*   worker   the worker process dies; task_acks_late is False, so that    *)
(*            the broker does not deliver the job again                    *)
(*   redis    an XADD raises, with or without having been carried out      *)
(*   network  the page's connection or request to a server breaks          *)
(*   server   the WebSocket server restarts                                *)
(***************************************************************************)
FaultKinds == {"user", "timeout", "worker", "redis", "network",
               "server"}

\* PerMs <= 20: increment_id skips the twenty-first entry (IncrementIsSuccessor).
ASSUME AsyncQueriesAssumption ==
    /\ ChannelOf \in [Jobs -> Channels]
    /\ Faults \subseteq FaultKinds
    /\ StreamLimit \in Nat \ {0}
    /\ FirehoseLimit \in Nat \ {0}
    /\ MaxMs \in Nat \ {0}
    /\ PerMs \in 1 .. 20

VARIABLES
    now,     \* the Redis clock
    task,    \* job -> where its Celery task is, see Phases
    status,  \* job -> the status its task is reporting or has reported
    scoped,  \* channel -> its stream
    full     \* the global stream, the "firehose"

serverVars == <<now, task, status, scoped, full>>

(***************************************************************************)
(*   unsent   no request has been made                                     *)
(*   queued   in the broker                                                *)
(*   running  the worker loads the data                                    *)
(*   scoped   in update_job, before the XADD to the channel's stream       *)
(*   full     in update_job, before the XADD to the global stream          *)
(*   ended    returned, or raised after reporting                          *)
(*   lost     ended without an (entire) report                             *)
(***************************************************************************)
Phases == {"unsent", "queued", "running", "scoped", "full", "ended", "lost"}
Statuses == {"pending", "done", "error"}

Data == [job : Jobs, status : {"done", "error"}]
Entry == [id : StreamId, data : Data]
Stream == [log : Seq(Entry), floor : Nat]

ServerTypeOK ==
    /\ now \in 1 .. MaxMs
    /\ task \in [Jobs -> Phases]
    /\ status \in [Jobs -> Statuses]
    /\ scoped \in [Channels -> Stream]
    /\ full \in Stream

ServerInit ==
    /\ now = 1
    /\ task = [j \in Jobs |-> "unsent"]
    /\ status = [j \in Jobs |-> "pending"]
    /\ scoped = [c \in Channels |-> EmptyStream]
    /\ full = EmptyStream

Moves(j, from, to) ==
    /\ task[j] = from
    /\ task' = [task EXCEPT ![j] = to]

-----------------------------------------------------------------------------
\* The Flask app: init_job, and the task's delay().
Submit(j) ==
    /\ Moves(j, "unsent", "queued")
    /\ UNCHANGED <<now, status, scoped, full>>

\* A worker takes the job and impersonates its user.
StartTask(j) ==
    /\ Moves(j, "queued", "running")
    /\ UNCHANGED <<now, status, scoped, full>>

\* The user is loaded outside the try block: nothing reports the failure.
UserFails(j) ==
    /\ "user" \in Faults
    /\ Moves(j, "queued", "lost")
    /\ UNCHANGED <<now, status, scoped, full>>

\* Mutant of Load: the task reports STATUS_RUNNING.
LoadReportsRunning(j, outcome) ==
    /\ Moves(j, "running", "scoped")
    /\ status' = [status EXCEPT ![j] = "running"]
    /\ UNCHANGED <<now, scoped, full>>

\* The data is in the cache, or the query has failed: update_job is called.
Load(j, outcome) ==
    /\ Moves(j, "running", "scoped")
    /\ status' = [status EXCEPT ![j] = outcome]
    /\ UNCHANGED <<now, scoped, full>>

\* What update_job adds to both streams.
Event(j) == [job |-> j, status |-> status[j]]

XAddScoped(j) ==
    LET c == ChannelOf[j]
    IN  /\ NextId(scoped[c], now).seq < PerMs
        /\ \E s \in XAdd(scoped[c], Event(j), now, StreamLimit) :
                scoped' = [scoped EXCEPT ![c] = s]
        /\ UNCHANGED full

XAddFull(j) ==
    /\ NextId(full, now).seq < PerMs
    /\ full' \in XAdd(full, Event(j), now, FirehoseLimit)
    /\ UNCHANGED scoped

\* Mutants of AddScoped and AddFull: update_job writes the firehose first.
AddFullFirst(j) ==
    /\ Moves(j, "scoped", "full")
    /\ XAddFull(j)
    /\ UNCHANGED <<now, status>>

AddScoped(j) ==
    /\ Moves(j, "scoped", "full")
    /\ XAddScoped(j)
    /\ UNCHANGED <<now, status>>

AddFull(j) ==
    /\ Moves(j, "full", "ended")
    /\ XAddFull(j)
    /\ UNCHANGED <<now, status>>

\* Mutant of XAddRaises: the task reports the same status again.
ReportsAgain(j) ==
    /\ "redis" \in Faults
    /\ task[j] \in {"scoped", "full"}
    /\ XAddScoped(j) \/ UNCHANGED <<scoped, full>>
    /\ task' = [task EXCEPT ![j] = "scoped"]
    /\ UNCHANGED <<now, status>>

(***************************************************************************)
(* An XADD raises.  "except Exception" catches it while DONE is being      *)
(* reported, and calls update_job(ERROR); when that call raises too, the   *)
(* task ends.  The command may have been carried out all the same.         *)
(***************************************************************************)
XAddRaises(j) ==
    /\ "redis" \in Faults
    /\ \/ task[j] = "scoped" /\ (XAddScoped(j) \/ UNCHANGED <<scoped, full>>)
       \/ task[j] = "full" /\ (XAddFull(j) \/ UNCHANGED <<scoped, full>>)
    /\ IF status[j] = "done"
       THEN /\ task' = [task EXCEPT ![j] = "scoped"]
            /\ status' = [status EXCEPT ![j] = "error"]
       ELSE /\ task' = [task EXCEPT ![j] = "lost"]
            /\ UNCHANGED status
    /\ UNCHANGED now

InTask(j) == task[j] \in {"running", "scoped", "full"}

\* SoftTimeLimitExceeded is logged and raised again, never reported.
SoftTimeout(j) ==
    /\ "timeout" \in Faults
    /\ InTask(j)
    /\ task' = [task EXCEPT ![j] = "lost"]
    /\ UNCHANGED <<now, status, scoped, full>>

WorkerDies(j) ==
    /\ "worker" \in Faults
    /\ InTask(j)
    /\ task' = [task EXCEPT ![j] = "lost"]
    /\ UNCHANGED <<now, status, scoped, full>>

Tick ==
    /\ now < MaxMs
    /\ now' = now + 1
    /\ UNCHANGED <<task, status, scoped, full>>

\* What the job's task does when nothing goes wrong.
TaskSteps(j) ==
    \/ StartTask(j)
    \/ \E outcome \in {"done", "error"} : Load(j, outcome)
    \/ AddScoped(j)
    \/ AddFull(j)

FaultSteps(j) ==
    UserFails(j) \/ XAddRaises(j) \/ SoftTimeout(j) \/ WorkerDies(j)

ServerNext ==
    \/ Tick
    \/ \E j \in Jobs : Submit(j) \/ TaskSteps(j) \/ FaultSteps(j)

ServerSpec == ServerInit /\ [][ServerNext]_serverVars

-----------------------------------------------------------------------------
\* The verdicts on the job that its channel's stream has held.
Reported(j) ==
    { s \in {"done", "error"} :
        \E i \in DOMAIN scoped[ChannelOf[j]].log :
            scoped[ChannelOf[j]].log[i].data = [job |-> j, status |-> s] }

(***************************************************************************)
(* Every event of the firehose is already in the stream of its job's       *)
(* channel, where a client that reconnects looks for it, and was added     *)
(* there in no later a millisecond.  Within one millisecond its sequence   *)
(* number there may be the greater one: wsConnection, which reads the      *)
(* channel's stream up to a firehose id, has no exact bound.               *)
(***************************************************************************)
FirehoseFollows ==
    \A i \in DOMAIN full.log :
        \E k \in DOMAIN scoped[ChannelOf[full.log[i].data.job]].log :
            LET e == scoped[ChannelOf[full.log[i].data.job]].log[k]
            IN  e.data = full.log[i].data /\ e.id.ms <= full.log[i].id.ms

(***************************************************************************)
(* A client that has been told of a failure is told of nothing else: once  *)
(* ERROR is in the channel's stream nothing follows for the job, and DONE  *)
(* is followed by ERROR when the report of DONE was itself interrupted,    *)
(* never by a second DONE.                                                 *)
(***************************************************************************)
ErrorIsLast ==
    \A c \in Channels : \A i, k \in DOMAIN scoped[c].log :
        /\ i < k
        /\ scoped[c].log[i].data.job = scoped[c].log[k].data.job
        => /\ scoped[c].log[i].data.status = "done"
           /\ scoped[c].log[k].data.status = "error"

=============================================================================
