-------------------------- MODULE ReportExecution --------------------------
(***************************************************************************)
(* Alerts and reports: one schedule, its row and its execution log, and    *)
(* the Celery workers that execute it (superset/commands/report/execute.py,*)
(* superset/daos/report.py).  An execution reads the row, decides by       *)
(* last_state what to do, and commits the row with a log entry several     *)
(* times on its way; other executions of the same schedule do the same.    *)
(* SQLAlchemy writes a column only if it differs from the value loaded, so *)
(* an execution remembers the state it has seen.  Time is the age of the   *)
(* log entries that the queries of the DAO look for.                       *)
(***************************************************************************)
EXTENDS Naturals

CONSTANTS
  Workers,     \* worker processes, each with one execution at a time
  Pools,       \* the sets of workers a deployment may have
  Schedules,   \* the schedules to choose from
  FaultKinds,  \* what may happen: "alert", "send", "notify", "break"
  Horizon,     \* ages from here on are not told apart
  MaxBreaks    \* bound on the executions that break off

Never == 0     \* a period that is not set (None)

Schedule == [type : {"ALERT", "REPORT"}, grace : Nat, timeout : Nat, retention : Nat]

ASSUME PoolAssumption == Pools \subseteq SUBSET Workers
ASSUME HorizonAssumption ==
  /\ Horizon \in Nat
  /\ Schedules \subseteq Schedule
  /\ \A s \in Schedules :
       s.grace < Horizon /\ s.timeout < Horizon /\ s.retention < Horizon
ASSUME BreakAssumption == MaxBreaks \in Nat

VARIABLES
  pool,      \* the workers there are
  schedule,  \* the schedule's type and periods
  row,       \* the committed last_state
  log,       \* the age of the newest log entry of each kind that is looked for
  exec,      \* what each worker's execution is about to do, and has seen
  abandoned, \* history: an execution left the row WORKING, and nobody has ended that since
  breaks

vars == <<pool, schedule, row, log, exec, abandoned, breaks>>

States == {"None", "NOOP", "WORKING", "SUCCESS", "GRACE", "ERROR"}

\* The entries the DAO's queries ask for: SUCCESS; WORKING without a message; the
\* notification marker; anything but ERROR and WORKING, and the same before the last marker.
Kinds == {"success", "entered", "marker", "settled", "before"}
Absent == Horizon + 1
Ages == 0 .. Absent

Phases == {"idle", "read", "check", "send", "sent", "notify", "complain", "mark"}
Execution == [phase : Phases, seen : States, entered : BOOLEAN, again : BOOLEAN]
Idle == [phase |-> "idle", seen |-> "None", entered |-> FALSE, again |-> FALSE]

Init ==
  /\ pool \in Pools /\ schedule \in Schedules
  /\ row = "NOOP"
  /\ log = [k \in Kinds |-> Absent]
  /\ exec = [w \in Workers |-> Idle]
  /\ abandoned = FALSE /\ breaks = 0

Const == UNCHANGED <<pool, schedule>>

\* Mutant: a refusal counts as entering WORKING (the filter on error_message is missing).
LogsRefusals(state, message) ==
  [k \in Kinds |->
     CASE k = "success" /\ state = "SUCCESS"                 -> 0
       [] k = "entered" /\ state = "WORKING"                 -> 0
       [] k = "marker"  /\ message = "marker"                -> 0
       [] k = "before"  /\ message = "marker"                -> log["settled"]
       [] k = "settled" /\ state \notin {"ERROR", "WORKING"} -> 0
       [] OTHER                                              -> log[k]]

\* Mutant: an alert kept back counts as the last success.
LogsGraceAsSuccess(state, message) ==
  [k \in Kinds |-> IF k = "success" /\ state \in {"SUCCESS", "GRACE"} THEN 0 ELSE
     CASE k = "entered" /\ state = "WORKING" /\ message = "none" -> 0
       [] k = "marker"  /\ message = "marker"                    -> 0
       [] k = "before"  /\ message = "marker"                    -> log["settled"]
       [] k = "settled" /\ state \notin {"ERROR", "WORKING"}     -> 0
       [] OTHER                                                  -> log[k]]

\* update_report_schedule_and_log: the row, if the state is new to this session, and a
\* log entry with its message, in one commit; the row is loaded again right afterwards.
\* The worker goes on with the execution next.
Logged(state, message) ==
  [k \in Kinds |->
     CASE k = "success" /\ state = "SUCCESS"                     -> 0
       [] k = "entered" /\ state = "WORKING" /\ message = "none" -> 0
       [] k = "marker"  /\ message = "marker"                    -> 0
       [] k = "before"  /\ message = "marker"                    -> log["settled"]
       [] k = "settled" /\ state \notin {"ERROR", "WORKING"}     -> 0
       [] OTHER                                                  -> log[k]]

\* Mutant: the column is written whatever was loaded.
WritesAlways(w, state) == state

Written(w, state) == IF state = exec[w].seen THEN row ELSE state

Commit(w, state, message, phase) ==
  /\ row' = Written(w, state)
  /\ log' = Logged(state, message)
  /\ abandoned' = (abandoned /\ row' = "WORKING")
  /\ exec' = [exec EXCEPT ![w] =
       IF phase = "idle" THEN Idle
       ELSE [phase |-> phase, seen |-> row', again |-> @.again,
             entered |-> state = "WORKING" /\ message = "none"]]
  /\ Const /\ UNCHANGED breaks

Goes(w, phase) ==
  /\ exec' = [exec EXCEPT ![w] = IF phase = "idle" THEN Idle ELSE [@ EXCEPT !.phase = phase]]
  /\ Const /\ UNCHANGED <<row, log, breaks>>

InPhase(w, phase) == w \in pool /\ exec[w].phase = phase
----------------------------------------------------------------------------
(* What the log says. *)
IsInGracePeriod == log["success"] < schedule.grace

\* find_last_error_notification gives nothing if an entry before the last marker is
\* neither ERROR nor WORKING.
IsInErrorGracePeriod == log["before"] = Absent /\ log["marker"] < schedule.grace

IsOnWorkingTimeout ==
  /\ log["entered"] # Absent /\ schedule.timeout # Never
  /\ log["entered"] > schedule.timeout
----------------------------------------------------------------------------
(* An execution: reading the row, then the state class that fits. *)
\* Mutant: only SUCCESS is handled by ReportSuccessState, and GRACE starts anew.
ForgetsGrace(w) ==
  /\ InPhase(w, "idle")
  /\ exec' = [exec EXCEPT ![w] = [Idle EXCEPT !.phase = "read", !.seen = row,
                                              !.again = row = "SUCCESS"]]
  /\ Const /\ UNCHANGED <<row, log, abandoned, breaks>>

Validate(w) ==
  /\ InPhase(w, "idle")
  /\ exec' = [exec EXCEPT ![w] = [Idle EXCEPT !.phase = "read", !.seen = row,
                                              !.again = row \in {"SUCCESS", "GRACE"}]]
  /\ Const /\ UNCHANGED <<row, log, abandoned, breaks>>

\* ReportWorkingState
TimesOut(w) ==
  /\ InPhase(w, "read") /\ exec[w].seen = "WORKING" /\ IsOnWorkingTimeout
  /\ Commit(w, "ERROR", "other", "idle")

Refuses(w) ==
  /\ InPhase(w, "read") /\ exec[w].seen = "WORKING" /\ ~ IsOnWorkingTimeout
  /\ Commit(w, "WORKING", "other", "idle")

\* Mutant: a state no class handles.
KeepsUnknown(w) ==
  /\ InPhase(w, "read") /\ exec[w].again /\ schedule.type = "ALERT" /\ IsInGracePeriod
  /\ Commit(w, "On Grace", "other", "idle")

\* ReportSuccessState in the grace period of an alert
KeepsGrace(w) ==
  /\ InPhase(w, "read") /\ exec[w].again /\ schedule.type = "ALERT" /\ IsInGracePeriod
  /\ Commit(w, "GRACE", "other", "idle")

\* ReportNotTriggeredErrorState, and ReportSuccessState of an alert
Enters(w) ==
  /\ InPhase(w, "read") /\ exec[w].seen # "WORKING"
  /\ exec[w].again => schedule.type = "ALERT" /\ ~ IsInGracePeriod
  /\ Commit(w, "WORKING", "none", IF schedule.type = "ALERT" THEN "check" ELSE "send")

\* ReportSuccessState of a report: nothing is committed before it is sent.
Resends(w) ==
  /\ InPhase(w, "read") /\ exec[w].again /\ schedule.type = "REPORT"
  /\ Goes(w, "send") /\ UNCHANGED abandoned
----------------------------------------------------------------------------
(* The alert's query, the report, and the notification about an error. *)
AlertStaysQuiet(w) == InPhase(w, "check") /\ Commit(w, "NOOP", "none", "idle")

AlertFires(w) == InPhase(w, "check") /\ Goes(w, "send") /\ UNCHANGED abandoned

Sends(w) == InPhase(w, "send") /\ Goes(w, "sent") /\ UNCHANGED abandoned

Succeeds(w) == InPhase(w, "sent") /\ Commit(w, "SUCCESS", "none", "idle")

\* Where the schedule had not succeeded before, the handler commits ERROR at once, and
\* then looks whether to notify the owners; an alert that had is committed after that.
AlertFails(w) ==
  /\ InPhase(w, "check") /\ "alert" \in FaultKinds
  /\ IF exec[w].again THEN Goes(w, "complain") /\ UNCHANGED abandoned
     ELSE Commit(w, "ERROR", "other", "notify")

SendFails(w) ==
  /\ InPhase(w, "send") /\ "send" \in FaultKinds
  /\ Commit(w, "ERROR", "other", IF exec[w].again THEN "idle" ELSE "notify")

KeepsQuiet(w) ==
  /\ InPhase(w, "notify") /\ IsInErrorGracePeriod
  /\ Goes(w, "idle") /\ UNCHANGED abandoned

Notifies(w) ==
  /\ \/ InPhase(w, "notify") /\ ~ IsInErrorGracePeriod
     \/ InPhase(w, "complain")
  /\ Goes(w, "mark") /\ UNCHANGED abandoned

Marks(w) == InPhase(w, "mark") /\ Commit(w, "ERROR", "marker", "idle")

NotifyFails(w) ==
  /\ InPhase(w, "notify") /\ ~ IsInErrorGracePeriod /\ "notify" \in FaultKinds
  /\ Commit(w, "ERROR", "other", "idle")

\* The exception of send_error leaves the handler before ERROR is committed.
ComplaintFails(w) ==
  /\ InPhase(w, "complain") /\ "notify" \in FaultKinds
  /\ Goes(w, "idle") /\ abandoned' = TRUE
----------------------------------------------------------------------------
(* The world around: time and pruning of the log.                          *)
Tick ==
  /\ log' = [k \in Kinds |-> IF log[k] < Horizon THEN log[k] + 1 ELSE log[k]]
  /\ Const /\ UNCHANGED <<row, exec, abandoned, breaks>>

Prune ==
  /\ schedule.retention # Never
  /\ log' = [k \in Kinds |-> IF log[k] > schedule.retention THEN Absent ELSE log[k]]
  /\ Const /\ UNCHANGED <<row, exec, abandoned, breaks>>

\* An execution ends without committing anything more: its worker dies or is killed at
\* the hard time limit, or an exception leaves the state class, one between the commit of
\* WORKING and the try or in a handler, or that of a commit which fails.
BreaksOff(w) ==
  /\ w \in pool /\ exec[w].phase # "idle" /\ "break" \in FaultKinds /\ breaks < MaxBreaks
  /\ breaks' = breaks + 1
  /\ abandoned' = (abandoned \/ exec[w].entered)
  /\ exec' = [exec EXCEPT ![w] = Idle]
  /\ Const /\ UNCHANGED <<row, log>>

Decides(w) == TimesOut(w) \/ Refuses(w) \/ KeepsGrace(w) \/ Enters(w) \/ Resends(w)
Works(w) == AlertStaysQuiet(w) \/ AlertFires(w) \/ Sends(w) \/ Succeeds(w)
Handles(w) ==
  \/ AlertFails(w) \/ SendFails(w) \/ KeepsQuiet(w) \/ Notifies(w) \/ Marks(w)
  \/ NotifyFails(w) \/ ComplaintFails(w)
Proceeds(w) == Decides(w) \/ Works(w) \/ Handles(w)

Next ==
  \/ \E w \in Workers : Validate(w) \/ Proceeds(w) \/ BreaksOff(w)
  \/ Tick \/ Prune

Spec == Init /\ [][Next]_vars

\* Cron triggers the schedule again and again, executions go on, and time passes.
Fairness ==
  /\ \A w \in Workers : WF_vars(Validate(w)) /\ WF_vars(Proceeds(w))
  /\ WF_vars(Tick)

FairSpec == Spec /\ Fairness
----------------------------------------------------------------------------
TypeOK ==
  /\ pool \in Pools /\ schedule \in Schedules
  /\ row \in States /\ log \in [Kinds -> Ages]
  /\ exec \in [Workers -> Execution]
  /\ abandoned \in BOOLEAN /\ breaks \in 0 .. MaxBreaks

\* A schedule whose row says WORKING is worked on by an execution that will commit the
\* outcome, unless that one broke off (its worker died, or an exception escaped) or failed
\* to notify the owners.  An execution that is refused must not put WORKING back over the
\* outcome of the one it found at work.
WorkingIsWorked ==
  row = "WORKING" => abandoned \/ \E w \in pool : exec[w].entered

\* With one worker, no alert is sent in the grace period of the last one, whatever
\* breaks off or fails.  (With several, executions that overlap pass each other.)
GraceHolds ==
  (\A w, v \in pool : w = v) /\ schedule.type = "ALERT" =>
    \A w \in pool : exec[w].phase \in {"check", "send", "sent"} => ~ IsInGracePeriod

\* WORKING ends, if there is a working timeout and the entry that tells when it began
\* is kept: a later execution declares it timed out.
WorkingEnds ==
  row = "WORKING" /\ schedule.timeout # Never /\ schedule.retention = Never
    ~> row # "WORKING"

\* working_timeout_description (reports/schemas.py): "If an alert is staled at a working
\* state, how long until it's state is reset to error", however long entries are kept.
StaleIsReset == row = "WORKING" /\ schedule.timeout # Never ~> row # "WORKING"

\* The grace period of an alert ends: executions in it do not prolong it.
GraceEnds == row = "GRACE" ~> row # "GRACE"

\* The comment of find_last_error_notification: within the grace period owners are
\* notified again only if something else than errors has occurred since.
OneErrorNotification ==
  [][\A w \in Workers :
       Notifies(w) => log["marker"] >= schedule.grace \/ log["settled"] <= log["marker"]]_vars

\* ReportSchedulePreviousWorkingError: "still working, refusing to re-compute".
AtWork(w) == exec[w].phase \in {"check", "send", "sent"}
RefusesToRecompute == \A w, v \in pool : w # v => ~ (AtWork(w) /\ AtWork(v))
=============================================================================
