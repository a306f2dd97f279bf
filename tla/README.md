# Formal models of Superset's asynchronous core

TLA+ models of the parts of this repository (a fork of Apache Superset) in which several
processes share state: asynchronous chart queries and SQL Lab queries, from the
Celery worker to the page in the browser; alerts and reports; the distributed lock and the OAuth2
tokens it protects; the caches of filter states; the state of a chart in the browser. TLC checks the
models on small instances; TLAPS proves the main safety properties for every size. Every definition is
translated from the code; `PROJECT.json` gives, for each one, the lines it stands for.

To check a run: `tlc -workers 2 -config <cfg> <module>`; to check the proofs: `tlapm <module>.tla`.

Contents: [the system](#1-the-system) · [the modules](#2-the-modules-and-the-code) ·
[the runs](#3-the-runs) · [fairness](#4-fairness) · [the proofs](#5-the-proofs) ·
[known disagreements](#6-known-disagreements) · [not modelled](#7-what-is-not-modelled) · [plan](#8-plan)

## 1. The system

| component | its state | its operations | talks to |
|---|---|---|---|
| **Global async queries, server** (`superset/async_events`, `superset/tasks/async_queries.py`) | two Redis streams per event: the channel's and the global one, both trimmed; the data cache | `submit_chart_data_job`, `submit_explore_json_job`, the two Celery tasks, `update_job`, `read_events` | broker, Redis, cache |
| **Async event client** (`superset-frontend/src/middleware/asyncEvent.ts`) | listeners and retry counters by job id, retry timers, `lastReceivedEventId` (also in the local storage), the WebSocket | `waitForAsyncData`, `processEvents`, `loadEventsFromApi`, `wsConnect`, `init` | `/api/v1/async_event/`, WebSocket server |
| **WebSocket server** (`superset-websocket`) | `sockets`, `channels`, `lastFirehoseId` | `subscribeToGlobalStream`, `processStreamResults`, `sendToChannel`, `wsConnection`, `fetchRangeFromStream`, `checkSockets`, `cleanChannel`, `gc` | Redis, pages |
| **SQL Lab queries, server** (`sql_lab.py`, `commands/sql_lab`, `daos/query.py`) | the row of the query (status, `extra_json`, `results_key`), the results backend, the statement in the user's database | `ExecuteSqlCommand`, `get_sql_results`, `cancel_query`, `stop_query`, `SqlExecutionResultsCommand` | broker, metadata database, user's database, results backend |
| **SQL Lab, page** (`superset-frontend/src/SqlLab`) | the query in the Redux store, requests under way | `runQuery`, `QueryAutoRefresh`, `fetchQueryResults`, `postStopQuery`, the reducer | the SQL Lab and query APIs |
| **Alerts and reports** (`commands/report`) | `ReportSchedule.last_state`, the execution log | the state machine of `execute.py`, the cron scheduler, log pruning | broker, metadata database, mail |
| **Distributed lock, key-value store, metastore cache** | rows of the table `key_value` with a unique key and an expiry | create, get, delete, `set`, `add` | metadata database |
| **OAuth2 tokens** (`utils/oauth2.py`, `databases/api.py`) | a token per user and database | `get_oauth2_access_token`, `refresh_oauth2_token`, `oauth2` | the lock, the provider |
| **Temporary caches** of filter state and form data | two entries per key: the state, and the tab's current key | create, get, update, delete | metastore cache |
| Query cache | entries by cache key | get with or without `force`, set | cache |
| Embedded SDK, switchboard | the refresh timer of the guest token, pending calls | `embedDashboard`, `emit`, `get` | the host page |
| **Charts of the frontend** (`components/Chart`) | the chart in the Redux store, requests under way | `exploreJSON`, `runAnnotationQuery`, `refreshChart`, the reducer | chart data API, the async event client |
| Dashboards of the frontend | Redux stores | reducers and thunks | charts |
| CRUD commands, importers, databases, security, screenshots, engine specs, migrations, the fork's own `Text2Sql` and sample servers | rows, or none | one transaction or one request each | |

What is hard in them, and what would make them correct:

* **Async queries.** An event is added to two streams by two commands, by several workers, any
  of which may die, time out or fail in between, and the streams are read by two kinds of readers
  with different cursors. *The global stream follows the channel's, by milliseconds; nothing follows an
  error; a reader's cursor never passes what the page needs.*
* **Client.** Events arrive before the answer that tells the page which job it has started, more
  than once, and for other pages of the same session; retries move the cursor back. *No event is
  lost; a promise settles once, on the word of the server; every wait ends.*
* **WebSocket server.** Sockets come and go while lists of them are gone through, pings race
  timeouts. *Every open socket is served, a live page is not disconnected, a lost one is forgotten.*
* **SQL Lab, server.** The submitting request, the task and the stop requests each read the row,
  and write it later; a cancellation must hit the statement that runs at that moment. *A stop of a
  running query takes effect within one statement; every way out of the task settles the row; a results
  key is good.*
* **SQL Lab, page.** The answers to a POST, to polls, to a fetch of results and to a stop arrive in
  any order. *Every query comes to a conclusion, and success is shown only of what succeeded.*
* **Reports.** Executions overlap, the state is read long before it is written, and what is written
  is only what differs from what was read. *A schedule that says WORKING is worked on, or will be found
  out; an alert is not repeated in its grace period, which ends.*
* **Lock, tokens.** Looking, creating and releasing are separate transactions; holders outlive their
  lease, raise and die. *At most one holder within the lease; no older token over a newer one; a stale
  token is refreshed in the end.*
* **Temporary caches.** A set is a query and a later commit, and a tab's key and its entry are two
  rows. The tab is told apart by session and number, not by user. *A returned key serves; a tab's key never
  leads to another tab's entry.*
* **Charts.** Queries overlap, are stopped, and are answered in any order, on another page too.
  *A spinner is for something, and ends once its query has been answered.*

## 2. The modules and the code

```
StreamIds ── AsyncQueries ── AsyncEventClient ─┬─ AsyncPolling    (─ MCAsyncPolling)
                   │                           └─ AsyncWebsocket  (─ MCAsyncWebsocket)
                   └─ MCAsyncQueries                AsyncJob: refined by both transports
WebsocketRegistry
SqlLabQuery ── SqlLabPage
ReportExecution (─ MCReportExecution)
DistributedLock ── OAuth2Tokens
TemporaryCache (─ MCTemporaryCache)
ChartUpdate
proofs: AsyncQueriesProofs, AsyncClientProofs (both transports), WebsocketRegistryProofs,
        SqlLabQueryProofs (server and page), ReportExecutionProofs, OAuth2TokensProofs,
        TemporaryCacheProofs, ChartUpdateProofs
```

**StreamIds** – Redis streams (`XADD` with a trimming that may or may not take place, `XRANGE`),
the order of ids, and the two functions that step over an id: the Python `increment_id`, which adds
one to the *last digit*, and the TypeScript `incrementId`, which adds one to the number.

**AsyncQueries** – the server side of global async queries. `task[j]` says where a job's Celery
task is; `scoped` and `full` are the streams. One action per step that others can see: `Submit`,
`StartTask`, `Load`, and the two `XADD`s of `update_job` (`AddScoped`, `AddFull`). The ways things go
wrong are actions of their own: the user cannot be loaded (outside the `try`), an `XADD` raises with
or without effect (and the handler reports ERROR, even after DONE), the soft time limit, the death
of a worker. Both tasks have the same control, so one set of actions stands for both. Since
`task_acks_late` is off, a job whose worker dies is not delivered again.

**AsyncEventClient** – the page without its transport: promises, `listenersByJobId`, the retries of
events nobody listens for (up to `MAX_RETRIES`, counted by job), the timers, `lastReceivedEventId`.
`processEvents` runs to its end in JavaScript; its loop takes a step per event here, and all other
steps of the page wait (`Idle`). `Reload` starts a page with whatever id another page has left in the
local storage.

**AsyncPolling**, **AsyncWebsocket** – the two transports. In AsyncPolling the read of the stream
and the arrival of the answer are one step, because nothing the page does in between depends on the
stream. AsyncWebsocket has the server's loop over the global stream (with `$` resolved anew by each
`XREAD` as long as no event has been read), connections that break with events on the wire,
restarts of the server, catching up from `last_id`, and the events that are sent again because
another page of the session has reconnected.

**AsyncJob** – the abstract specification: what a chart may see of its query, whatever happens
between it and the worker. Both transports are checked, and proved, to implement it
(`ImplementsAsyncJob`, in AsyncEventClient).

**WebsocketRegistry** – the server's two registries with several sockets: connecting, closing and
vanishing pages, the loop of `sendToChannel` with `cleanChannel` inside it, `checkSockets` with pings
and timeouts, `gc`. `channels[c] = {}` stands for an absent entry. Time is an explicit `Tick`; timers
may fire up to `Late` too late. Closing a socket is no event for the server: it only looks at
`readyState`. AsyncWebsocket takes for granted what is shown here, that an event reaches every open
socket of its channel.

**SqlLabQuery** – one query and the three parties that write its row: the request that submits it
(`Submit`, `Refuse`, `Enqueue`, `Answer`), the task (`SetRunning` to `Succeed`, with each commit a
step), and the requests to stop it (`StopReads` to `StopMarks`). SQLAlchemy writes the columns that
changed over whatever was committed since, so each party remembers the `extra_json` it read.
The task's error handler may fail itself (`HandlerRaises`: the soft time limit strikes in it, or the row
cannot be committed), and nothing catches that. Engines differ in how a statement is cancelled:
`implicit` (Hive polls the row), `session` (Postgres and MySQL kill the connection), `late` (Trino cancels by an id known when the statement runs). The
query's database, with its engine and whether it runs queries asynchronously, is chosen initially and
is part of the row.

**SqlLabPage** – the same query as the page shows it: the POST, one poll at a time, the fetch of the
results that begins when the store gets a new key, one stop request at a time, and
the reducer's cases for their answers.

**ReportExecution** – one schedule, its row, its log, and executions of it by several workers. An
execution reads the row (`Validate`), decides by `last_state` and the log (`Decides`: the three state
classes), queries, sends and notifies, with one step per commit (`Commit`). SQLAlchemy writes `last_state`
only if it differs from the value that was loaded or committed last, so an execution remembers what it has
`seen`, and `Written` leaves the row alone otherwise. The log is kept as the ages of the newest
entries the DAO's three queries look for; `Tick` makes them older and `Prune` deletes them. A query on
the log and the commit that follows are one step. An execution may break off at any point without
committing anything more (`BreaksOff`): its worker dies or is killed at the hard limit, or an exception
escapes: between the commit of WORKING and the `try`, in a handler, or from a commit. An exception inside the
`try`, that of the soft limit among them, is `AlertFails` or `SendFails`.

**DistributedLock** – the lock's one row: `Look…` is `GetDistributedLock`, `Create…` the transaction that
deletes what has expired and inserts, `Release` deletes the row *whoever's it is*, `Abandon` leaves it. It
has no specification of its own: **OAuth2Tokens** composes it with those who take it.

**OAuth2Tokens** – the token of one user for one database. A request uses the token that is stored,
deletes one that cannot be refreshed (`Forgets` marks it in the session; `Deletes` is whatever commits that,
or does not), or refreshes it: `FindsStale` reads the row, `Looks` and `Creates` take
the lock, `Calls` loads the refresh token (the commit of the lock has expired the row's attributes),
`ProviderAnswers`, `Stores`. In `Stores` the new token and the deletion of the lock are one
transaction: the session commits both in `DeleteDistributedLock`. `Granted` and `Replaces` are the
two ends of the authorisation in `DatabaseRestApi.oauth2`, which commits when its event is logged.

**TemporaryCache** – the filter states of one dashboard, in the metastore cache. A set is `Looks` (the
query of `upsert_entry`) and `WritesEntry` or `WritesContext` (the commit), or `Fails` when a row has
appeared or gone in between. `loaded` is what the query found: an attribute that does not change is not
written. A *context* is what the contextual key is made of: the session's `_id`, a hash of address and
User-Agent, and the number of the tab. Users who log in one after the other share it, so that `UsersOf` gives
each context a set of users. A request without a tab always makes a new key. The reads before a set are steps
of their own (`Update` and `ReadsTab`, `Delete` and `DeletesContext`).
DELETE of the API passes no tab, so that the contextual key it deletes is the tabless one and the tab's own
stays. A PUT for an entry that is gone is answered with success and changes nothing. The isolation level is
READ COMMITTED.

**ChartUpdate** – one chart in the store. `Starts` is the whole of `exploreJSON` up to its answers,
dispatched by the chart when its query is triggered (`Runs`), by `refreshChart` and by `handlePopstate`;
an answer may be a job of the async event client (`Awaits`), which can no longer be aborted. Form data are
numbered versions. `Annotates` has the abort *inside the reducer*: the failure of the aborted query is
reported later (`AnnotationFails`), and removes the registration of the query that replaced it.

## 3. The runs

Every run is exhaustive for its bounds. `CHECK_DEADLOCK FALSE` is used where the life of what is modelled
is finite, or a bound ends it: a job, a query, the keys that may be drawn, the requests of a chart. The
registry, the reports and the tokens never come to rest, and deadlock is checked.

| run | instance | states | checks |
|---|---|---|---|
| `async_queries` | 2 jobs on 1 channel, streams trimmed to 2, clock of 2, faults user/timeout/worker/redis | 48 694 | `ServerTypeOK`, `FirehoseFollows`, `ErrorIsLast` |
| `polling` | 3 jobs, 2 of them the page's, trimmed to 1, 1 reload, answers of 2 events | 399 820 | `NothingLost`, `RetriesDieOut` |
| `polling_redis` | 2 jobs, 1 of them the page's, failing XADDs, answers of 2 events | 58 322 | `ListensWhileWaiting`, `ImplementsAsyncJob`, `EveryReportIsSettled` |
| `websocket` | 1 job of the page, 1 of another session, 2 breaks or restarts | 18 510 | `SteadyNothingLost`, `ImplementsAsyncJob`, `SteadyWaitEnds` |
| `websocket_registry` | 2 sockets, 1 channel, ping every 2, timeout 4, gc every 2, timers 1 late | 176 662 | `TypeOK`, `OpenIsRegistered`, `EveryPageIsOffered`, `PromptStays`, `LostIsForgotten` |
| `sqllab_query` | 3 statements, 3 engines, both modes, 2 stops, all server faults | 21 076 | `TypeOK`, `StopBitesSoon`, `RunningIsProcessed`, `KeyHasResults`, `StopEndsTask` |
| `sqllab_page` | 2 statements, 3 engines, both modes, 2 stops, faults timeout/kill/fetch/logger | 82 557 | `SuccessIsTrue`, `EveryQueryConcludes` |
| `reports` | 1 or 2 workers, 3 schedules, every fault, 1 execution that breaks off, ages up to 3 | 475 573 | `TypeOK`, `WorkingIsWorked`, `GraceHolds`, `WorkingEnds`, `GraceEnds` |
| `oauth2` | 3 processes, 1 of them serving the tab, leases of 2, 2 tries, 1 fault | 129 695 | `TypeOK`, `Exclusive`, `NoOlderToken`, `ReplacedStaysReplaced`, `StaleIsRefreshed` |
| `temporary_cache` | 2 requests at once, 2 users who share a tab, 3 keys | 2 491 974 | `TypeOK`, `KeysStayInTheirTab`, `AckedKeyServes` |
| `chart` | 3 requests, 2 form data, both pages, with and without async queries | 1 557 744 | `TypeOK`, `SpinnerIsForSomething`, `RegisteredIsUnderWay`, `SpinnerEnds` |
| `sqllab_early` | 1 statement, late engine, 1 stop | – | `StoppedStaysStopped` is **violated** |

The two transports and the page of SQL Lab define their types as well (`TypeOK`, `WsTypeOK`, `PageTypeOK`);
no run lists them, and section 5 has them as theorems.

Why these bounds are enough to be interesting:

* *Async queries.* Two jobs are what it takes for two workers to add to two streams in opposite
  orders, and a fault may strike one of them in between; the clock gives both ids of one
  millisecond and of two. Trimming to two entries lets the streams forget what a property still
  speaks of. `PerMs <= 20` is a real restriction: see `increment_id` below.
* *Polling.* Three jobs on one channel, of which the page knows two, are what makes a retry of one
  event move the cursor back over another and an answer too small for what is there. The third job
  is another tab's, whose events nobody claims. `MaxRetries` is 1 or 2 instead of 6: giving up must
  happen within the bounds. Trimming to one entry loses events by itself, which `NothingLost` names
  as an exception.
* *WebSocket.* Two breaks let a page reconnect and lose its connection again, or the server restart
  after it; one more job of another session moves the server's cursor without concerning the page.
* *Registry.* Two sockets on one list are what cleaning a list while going through it needs; the
  intervals are the smallest that satisfy the assumptions with every inequality strict (defaults: 20 s,
  60 s, 120 s). The theorems cover any number of sockets and channels and all intervals.
* *Reports.* Two workers are two executions that overlap; a third finds nothing new, since it is refused
  like the second. The three schedules have a grace period that is longer than the working timeout, one
  whose log is pruned, and a report. Ages from `Horizon` on are alike, every period being shorter. One
  execution that breaks off leaves a row behind in each phase.
* *Tokens.* Three processes: one that holds the lock, one that is refused, one that has looked before and
  creates now. Two tokens are issued before no more expire; refreshes number on from there.
* *Temporary cache.* Two requests conflict on a row; two contexts are a tab that both users share and the
  tabless context of one of them; three keys let a tab lose its own and get two new ones. Keys are
  never drawn twice (`random_key`), and keys and requests are symmetric.
* *Chart.* Three requests: one left behind, one that is stopped and one after it; two form data are an older
  and a newer one.
* *SQL Lab.* Three statements: the one that was checked when the stop came, the one that must not
  begin, and one in between; two stops, so that a second finds what the first has left. On the page
  two statements suffice, since it sees the row only.

`EagerSpec` (in the MC modules of both transports) leaves out interleavings that no reader can tell
apart: a task takes its steps between two XADDs at once. The page sees whether a job was submitted
and what the streams hold, nothing else of a task. `async_queries` uses the full interleaving.

What the properties say, in the order of their weight:

* `NothingLost`: an event for a job that the page waits for is in the page's hands, or after the
  cursor of the page *and* of the poll under way. Retries may move the cursor back, never past it.
* `ImplementsAsyncJob` (both transports): a promise is settled once, only after the server has
  published a verdict, and resolved only if one verdict was DONE.
* `SteadyNothingLost`, `SteadyWaitEnds`: over a WebSocket the same holds for jobs that were submitted
  over a connection that holds, to a server that has found its place in the stream. Without these
  conditions it does not: see below.
* `EveryReportIsSettled`: with failing XADDs every chart whose job was reported in its channel is answered,
  unless the event was dropped after `MAX_RETRIES`. `RetriesDieOut`: without faults events nobody
  claims stop being retried, although each retry makes the page read the later ones again.
* `FirehoseFollows`: what is in the global stream is in its channel's, with an id of no later *millisecond*.
  Two jobs that report in one millisecond may get 1-0 and 1-1 in one stream and 1-1 and 1-0 in the other, so that
  no more can be said of the ids, which a page that reconnects would like to rely on (`CaughtUp` below).
  `ErrorIsLast`: nothing follows an ERROR.
* `OpenIsRegistered`, `EveryPageIsOffered`, `PromptStays`, `LostIsForgotten`: see WebsocketRegistry.
* `StopBitesSoon`: while the row says that the running query was stopped at most one more statement begins. A
  stop that comes while the query is queued is not meant: it is overwritten (`sqllab_early`).
* `RunningIsProcessed`: a RUNNING row has a task at work, unless its worker died or its error handler
  failed.
* `KeyHasResults`: a results key is never visible before the results are.
* `StopEndsTask`: where a connection can be killed, a stop that was answered with OK ends the task
  even if its statement would run for ever.
* `EveryQueryConcludes`, `SuccessIsTrue`: the page ends every query, and tells the truth on success.
* `WorkingIsWorked`: a row that says WORKING has an execution at work, unless one broke off or failed to
  notify after it wrote that. A refused execution logs WORKING over and over without touching the row: this is
  what `Written` is for.
* `WorkingEnds`: with a working timeout and a log that is kept, WORKING ends, although refused executions
  log WORKING as well, and each commit makes the entry the timeout is counted from no younger.
* `GraceHolds`, `GraceEnds`: one worker does not repeat an alert in its grace period, whatever fails, and
  GRACE ends although each execution kept back writes to the log.
* `Exclusive`: one process is inside the lock unless some process has stayed for longer than its lease.
  `StaleIsRefreshed`: an expired token that can be refreshed is refreshed or replaced, though locks are left
  behind.
* `NoOlderToken`: in one row a token never gives way to an older one, as long as leases are kept.
  `ReplacedStaysReplaced`: a new row holds a newer authorisation than the rows before; a refresh that was
  under way does not bring the old one back. It is about a user who authorises in one tab at a time (`Tabs`);
  with two see `OneRow` below.
* `KeysStayInTheirTab`: the key a context leads to, still set or not, is the key of no other context, and
  what is under it is an entry of one of the context's users, whoever read, updated or revived it. Which of them
  is another matter: see `OwnersKeepTheirEntries` below.
  `AckedKeyServes`: a key that was returned has an entry until that is deleted or expires, whatever
  conflicts made other requests fail half way.
* `SpinnerIsForSomething`, `SpinnerEnds`: a chart that is loading has a query triggered or under way, and a
  visible one does not stay so unless its latest query waits for a job, which nothing bounds.
  `RegisteredIsUnderWay`: the annotation query that would be aborted is
  under way, although failures of aborted queries take away the registrations of others.

Each property has a mutant in `PROJECT.json`: a change of one definition, as a plausible bug would make
it (a dropped guard, writes in the wrong order, a key named before its results are stored), that
TLC finds to violate it.

## 4. Fairness

* *Tasks* (`AsyncPolling`, `AsyncWebsocket`): weak fairness for the steps of each job that was
  submitted: the broker delivers and the worker goes on. Submissions, faults, reloads and breaks have none.
* *Page*: weak fairness for callbacks and timers that are due, and for requests that are answered. The
  browser's event loop serves all of them. It is strong for the answers to submissions and fetches: they
  wait while events are being processed, and timers keep bringing new ones; the event loop does not
  put a callback off for ever. A WebSocket that is closed is opened again (`Reconnect`).
* *WebSocket server's loop*: weak fairness for `XREAD` being issued and for one that has events being
  answered, and for the catch-up. None is asked of an `XREAD` that times out.
* *Registry*: strong fairness for `CheckSockets`, `Gc`, `Tick` and the answer of a prompt page, each of which is
  disabled for the moments in which an event is being sent; Node's event loop comes back to its
  timers between any two callbacks.
* *SQL Lab, server*: the three processes go on and the database reports a killed statement. **No
  statement has to end by itself**, which is what `StopEndsTask` is about.
* *SQL Lab, page*: there statements end, and every request is answered; that the user runs or stops
  anything is not assumed. The fault `worker` is left out there: after it `EveryQueryConcludes` waits
  for the page's own cut-off of six hours.
* *Reports*: weak fairness for each worker taking up the schedule and going on, and for time: cron triggers
  the schedule again and again. Breaking off, faults and pruning have none.
* *Tokens*: charts keep asking, the provider answers or the call raises, a chosen authorisation is stored, and
  time passes. A refusal by the lock is an outcome, not something that has to end.
* *Chart*: React updates a component whose query is triggered and visible, and HTTP requests end, by an
  answer or by the client's timeout. **No job has to end**: `waitForAsyncData` has no timeout. Nobody has to
  click, switch tabs or render.

## 5. The proofs

All theorems hold for every value of the constants that satisfies the named assumptions of the modules.
The proofs have a module of their own for each component.

* **AsyncQueriesProofs**
  * `IncrementIsSuccessor`: `incrementId` gives the next id, so no entry lies between an id and its
    increment. The Python `increment_id` agrees with it up to 18, and later unless the last digit is a 9: `1-9` still
    becomes `1-10`, but `1-19` becomes `1-110`, and the ids in between are skipped. The twenty-first entry of
    a millisecond, `1-20`, is the first that a poll can miss: this is why the models assume `PerMs <= 20`.
  * `ServerTypeCorrect`, from `TypeInv`, which adds that a task in `update_job` has a verdict to report
    (`Reporting`): otherwise the streams would not stay streams of verdicts.
  * `FirehoseAlwaysFollows`, by millisecond, from `FollowInv`: the property itself says nothing of a task between its
    two XADDs. The strengthening says that no stream holds an id of the future (`PastInv`) and that a
    task about to write the global stream has its event in the channel's stream (`WrittenInv`).
  * `ErrorIsAlwaysLast`, from `ErrorInv`: the verdict a task is about to publish determines what the
    stream may hold on the job already (`VerdictInv`).
* **AsyncClientProofs** – both transports share what the page does with an event (`PageInv`): a listener is
  registered exactly while its promise waits, a promise waits only for a job that was submitted, and whatever the
  page holds on its jobs, in the queue, in a timer or in a fetch, the session's stream has reported
  (`Truthful`). These are proved once, for one event and for one step of the page, and used by both.
  * `PollingListens`, `PollingTypeCorrect`; `PollingLosesNothing` from `PollingInv`. `NothingLost` is not
    inductive: a retry moves `lastReceivedEventId` back to *its* event, an answer moves it on past events it
    has just put in the queue, and a poll under way was asked with an older id. What is inductive is
    `Frontier`: every entry the page still wants is in its hands, or given up, or trimmed, or *ahead of
    everything* the page could ask for or fall back to – its cursor, its poll, its queue and all its timers.
    That needs these to be ids of the channel's own stream (`FromChannel`), so that an increment of them
    skips nothing (`IncrementIsSuccessor`), and that no answer arrives while events are processed
    (`BusyIsAlone`). Trimming, reloads, failing XADDs and other pages' events are all included.
  * `WebsocketListens`, `WebsocketTypeCorrect`; `WebsocketLosesNothing` from `WebsocketInv`: the server's
    cursor is an id of the global stream and a blocked `XREAD` asks from it (`CursorInv`), a line that is
    held belongs to an open socket and a server that has found its place (`HeldInv`), and what the server has
    passed was put on the wire to the page (`Offered`). An event that was trimmed from the global stream before
    the server read it has gone to nobody: `PassedOn`, and with it `SteadyNothingLost`, is about events that
    are still there.
  * `PollingImplementsAsyncJob`, `WebsocketImplementsAsyncJob`: step simulation. An XADD to the session's
    stream is the abstract report, the end of a promise the abstract settling, justified by
    `Truthful`; every other step, a break, a restart and a reload among them, stutters or is the abstract reload.
    Breaks and restarts do not have to be excluded: they lose events, but never make the page believe one.
* **WebsocketRegistryProofs** – `OpenAlwaysRegistered` (inductive as it stands, given the types);
  `EveryPageIsAlwaysOffered` from `OfferInv`: while the loop runs, an open socket of the channel has
  been sent the event or is still in the list as it was at the beginning; `PromptAlwaysStays` from
  `SignInv`: the last sign of life of a prompt page is younger than the last ping, unless it owes an
  answer, and then that ping is as old as the debt. With `PongDelay < PingInterval` the debt is paid before the
  next ping, with `PingInterval + Late < SocketTimeout` no sign of life ever gets too old.
* **SqlLabQueryProofs** – on the server: `TypeCorrect`; `RunningAlwaysProcessed` (inductive as it stands, with
  failures at every step of the task and in its handler);
  `KeyAlwaysHasResults` from `StoredInv`: a task past storing has stored; `StopAlwaysBitesSoon` from
  `BitesInv`: there is no task before it was queued (`Unqueued`), so that it is set to RUNNING only once, and when
  a statement was begun with the row marked, the mark is still there at the next check
  (`MarkedInv`), since nobody but the task itself takes it away. On the page: `PageIsAClient`, every behaviour of
  SqlLabPage is one of SqlLabQuery (steps of the page alone stutter), which makes all of the above hold behind
  the page; `SuccessIsAlwaysTrue` from `SuccessInv`: a row that says success, has results, or was seen to
  in a poll that is still under way belongs to a task that has succeeded, and success is never taken back; and
  `PageTypeCorrect`, whose bound of two requests for the results needs `FetchesInv`: the key is forgotten only
  by a poll that was answered before the results were there, and there is at most one of these.
* **ReportExecutionProofs** – `TypeCorrect`; `WorkingIsAlwaysWorked` from `EnteredSees`: an execution that
  has entered WORKING has seen the row as WORKING ever since, so that what it commits next is written, and an
  execution that has not cannot write WORKING. `GraceAlwaysHolds` from `GraceInv`: with one worker the
  execution has seen what the row says, and outside of SUCCESS and GRACE the period is over: that is why
  only `ReportSuccessState` has to look.
* **OAuth2TokensProofs** – `TypeCorrect`; `LockIsExclusive` from `EntryOfHolder`: while no lease is overdue
  a process inside is the one of the entry, with time left. `NeverOlderToken`, an action property, from
  `TokenInv`: tokens are numbered as issued (`Numbered`), an answer that waits to be stored is held under the
  lock (`UnderLock`) and is newer than its row (`NewerThanRow`), which only another holder could change.
  `ReplacedAlwaysStaysReplaced` has the hypothesis `OneTab`, that the user authorises in one tab at a time (`Tabs`
  has one process at most), since it is false without it: a second tab may bring back an older authorisation. It is
  about a refresh under way for a row that was replaced, and follows from what a tab was granted being newer than
  every row (`GrantIsNewest`). That nothing in the code keeps a user to one tab is `OneRow` in section 6.
* **TemporaryCacheProofs** – `TypeCorrect`; `KeysAlwaysStayInTheirTab` from `OneHolder`: one context at most
  *stands* for a key from the moment it is drawn, by its row or by a request that is about to write it, and the
  users a key *names*, in its entry or in a request, are users of that context. A retrieval names a user and stands
  for no context. `AckedKeyAlwaysServes` from `Acknowledged`: an acknowledged key has its row. Both need what the
  requests under way know (`OwnTab`, `Sets`, `RequestsKnow`). Contexts may share users in any way.
* **ChartUpdateProofs** – `TypeCorrect`, `SpinnerIsAlwaysForSomething` and `RegisteredIsAlwaysUnderWay`,
  inductive given the types. The lemmas `StartsIsTyped` and `OutcomeIsTyped` serve all the actions that
  begin and end a request.

Every invariant and action property of a passing run is stated by a theorem. Model-checked only is all
liveness (`RetriesDieOut`, `EveryReportIsSettled`, `SteadyWaitEnds`, `StopEndsTask`,
`EveryQueryConcludes`, `LostIsForgotten`, `WorkingEnds`, `GraceEnds`, `StaleIsRefreshed`, `SpinnerEnds`):
TLAPS has no rules here for fairness and `ENABLED`.

## 6. Known disagreements

The run `sqllab_early` expects a violation and shows where the code does something else than the
repository says of it (`findings` in `PROJECT.json`): a query that is stopped while it is queued is executed
all the same.

The following are stated in the modules as properties, and TLC shows a counterexample for each, with the
configuration named or, where there is none, with the property in the place of those of the run's. Some
contradict a comment or docstring, which is quoted; the others concern what one might expect.

| configuration | property | what happens |
|---|---|---|
| `AsyncPolling_timeout.cfg` | `EveryWaitEnds` | A task at its soft time limit publishes nothing, and its chart waits for ever. `charts/data/api.py`: "Clients will either poll or be notified of query completion". |
| `AsyncPolling_redis.cfg` | `RetriesDieOut` | Another page's job has reported DONE and then ERROR. Giving up one event resets the job's counter, the retry of the other moves `lastReceivedEventId` back, and the first is read again: the two keep each other going for ever. |
| `AsyncWebsocket_caughtup.cfg` | `CaughtUp` | The page's `last_id` comes from the global stream when received over the socket, but is used as a start in the channel's stream, whose ids may be smaller: an event is skipped. `superset-websocket/README.md` promises that what was sent unsuccessfully is sent again. |
| `AsyncWebsocket_fallback.cfg` | `FallbackPolls` | When the WebSocket is given up the client calls `loadEventsFromApi` once; the timer for the next call is set for the polling transport only. |
| `SqlLabQuery_refused.cfg` | `PendingIsProcessed` | A query that is refused, or cannot be queued, is set to FAILED in a transaction that the exception rolls back: the row stays PENDING. |
| `SqlLabQuery_answer.cfg` | `StopTellsTruth` | A stop request for a query that has ended, or whose row cannot be committed, is answered with success. |
| `SqlLabQuery_cancelkey.cfg` | `RunningCanBeCancelled` | The submitting request writes the `extra_json` it read before queueing the task over the id the worker has stored. |
| `SqlLabPage_ctas.cfg` | `EveryQueryConcludes` | REFRESH_QUERIES keeps "running" when the server says "success" and leaves the conclusion to the fetch of the results, of which there is none for a CTAS query: it stays "running" on the page. |
| `SqlLabPage_late_poll.cfg` | `SuccessStaysShown` | A poll that was answered before the query ended sets the page back to running for a moment; the next poll repairs it. |
| `SqlLabPage_stopped.cfg` | `StoppedNeverSucceeds` | The guard of QUERY_SUCCESS looks at the query as it was when the request was sent, and compares it with a state that does not exist (`QueryState.STOPPED`). |
| `ReportExecution_recompute.cfg` | `RefusesToRecompute` | Two executions that read the row before either has committed WORKING, or of a report in state SUCCESS, which never commits it, both send. `commands/report/exceptions.py`: "Report Schedule is still working, refusing to re-compute." |
| `ReportExecution_grace.cfg` | `OneErrorNotification` | `find_last_error_notification` means to check "that only errors have occurred since the last email", but asks for entries *before* it (`<`): an alert that was ever quiet before is notified at each failure. |
| `ReportExecution_pruned.cfg` | `StaleIsReset` | The entry that tells when WORKING began is pruned before the timeout is looked at, and the schedule stays WORKING. `reports/schemas.py`: "how long until it's state is reset to error". |
| `OAuth2Tokens_lease.cfg` | `LeaseHolds` | A holder that outlives its lease deletes its successor's entry, so that a third is let in with the second: the lock is granted although it "is taken". The provider's timeout equals the lease. |
| `OAuth2Tokens_once.cfg` | `RefreshedOnce` | A request that found the token stale before the first refresh was stored takes the lock after it and refreshes again; the docstring says that "only the first process to acquire the lock will perform the refresh". |
| `OAuth2Tokens_tabs.cfg` | `OneRow` | Two authorisations at once leave two rows (the index is not unique), and `one_or_none` raises from then on. |
| `TemporaryCache_shared.cfg` | `OwnersKeepTheirEntries` | The contextual key does not name the user. After another user has logged in within the same browser, a POST finds the tab's key and overwrites the entry under it, owner and all: CREATE checks no owner, whereas UPDATE and DELETE answer others with "You don't have permission to modify the value" (`commands/temporary_cache/exceptions.py`). |
| `TemporaryCache_refresh.cfg` | `RetrievalOnlyResetsTimeout` | A retrieval that races an update inserts or writes back the older value; the comment in `config.py` asks only "Should the timeout be reset when retrieving a cached value?" |
| (`ChartUpdate.cfg`) | `EverySpinnerEnds` | A chart whose job reports nothing, or is reported to a client that has stopped asking (`EveryWaitEnds`, `FallbackPolls`), spins for ever: `waitForAsyncData` has no timeout. |
| (`ChartUpdate.cfg`) | `NoOlderAnnotations` | The abort of the third annotation query finds nothing registered, because the failure of the first has taken the second's registration, and the older answer comes last. |
| (`ChartUpdate.cfg`) | `QueryErrorsStay` | SET_DATASOURCES resets every failed chart with a stack trace, the error of a query too, although it is for "missing datasource, causing a JS error". |
| `ChartUpdate_filters.cfg` | `FiltersAreApplied` | The answer to an older query arrives last, and the chart shows it as up to date. |

`increment_id` is a further one: after the twentieth entry of one millisecond, with an id that ends in
`-19`, a poll asks for ids from `-110` on. It is stated by the theorem `IncrementIsSuccessor`.

## 7. What is not modelled

Within the modelled components:

* *Async queries*: a session's channel being chosen anew by `validate_session` when its cookie does
  not fit (it needs the browser's order of cookies), the JWT, and a submission that fails before
  there is a job. A reload in the WebSocket transport (it is in the polling model).
* *SQL Lab*: the browser repeats a POST whose connection failed, with the same client id; the texts
  kept in `extra_json`; a dead query's results that expire (as an effect it is the fault `fetch`);
  `CLEAR_INACTIVE_QUERIES`, which forgets running queries without progress, and would need the clocks of
  browser and server. The soft limit of a synchronous query inside a statement is an error of that statement.
  A query that was timed out is marked TIMED_OUT and then always FAILED by the handler of the same exception:
  there is one step for both. The code ignores what `results_backend.set` returns; that it fails without an
  exception is left out.
* *Reports*: the cron window (open at both ends, so that an eta exactly between two belongs to neither), the
  API scheduler of this fork, the upgrade of Slack recipients, schedules that are switched off, changed or
  deleted while they are executed, and what the alert's query returns.
* *Lock and tokens*: the provider's answer to an authorisation and the look-up of the old row that follows it
  are one step; the contents of the tokens, `update_entry`, and the permanent entries of permalinks.
* *Temporary caches*: the form data commands, whose steps are those of the filter state with other names
  for the keys; `add`; databases that serialise their transactions, where fewer interleavings are possible.
* *Charts*: REMOVE_CHART and UPDATE_CHART_ID, forced renders, several annotation layers (each has the
  state of the one that is modelled), and the layout and filters of a dashboard.
* *What the list of hazards leaves out*: a POST that the browser repeats with the same client id, the choice
  of a session's channel by two first requests, and queries without progress that the page forgets.

Whole components, with their reasons, are in `PROJECT.json`: CRUD commands, importers, security, engine
specs, migrations, screenshots and the fork's helper servers are single transactions, data
transformations or I/O. They are most of the repository by lines: forms, views, visualisations, engine
dialects and vendored data, in which no two actors share state and a model would only repeat the code.
The embedded SDK has state worth modelling and is next in the plan.

## 8. Plan

1. **Embedded SDK** (`GuestToken`): the chain of refreshes against the token's expiry. A guest token that
   cannot be fetched once ends the chain, and unmounting does not end it.
2. **Reports**: an abstract specification (each trigger is delivered at most once and ends in the log), which
   overlapping executions refute and one worker may implement; the cron window.
3. **Temporary caches**: the form data commands, whose contextual key includes the datasource; permalinks
   with the salt that two first requests may both create.
4. **Lock**: an abstract lock with a lease, and OAuth2Tokens shown to use no more of it.
5. **Client refinements**: validation of a session's channel; a reload in the WebSocket transport;
   `CLEAR_INACTIVE_QUERIES` with the clocks of browser and server.
6. **Proofs**: the conditional forms of the properties in section 6 that fail (what holds of a stop when the
   submitting request has ended, of two error notifications when no quiet execution lies between), and
   the specifications of items 2 and 4.
