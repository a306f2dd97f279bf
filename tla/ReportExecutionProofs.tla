------------------------ MODULE ReportExecutionProofs ------------------------
(***************************************************************************)
(* Proofs about the execution of a schedule, for any number of workers,    *)
(* any pools and schedules, and whatever fails.                            *)
(***************************************************************************)
EXTENDS ReportExecution, TLAPS

\* A worker that has entered WORKING has seen it committed, and is on its way to commit
\* the outcome.
EnteredSees ==
  \A w \in Workers :
    exec[w].entered => /\ exec[w].seen = "WORKING"
                       /\ exec[w].phase \in {"check", "send", "sent", "complain", "mark"}

\* The message that each commit comes with.
Messages == {"none", "marker", "other"}

LEMMA LoggedIsTyped ==
    ASSUME NEW state, NEW message, log \in [Kinds -> Ages]
    PROVE  Logged(state, message) \in [Kinds -> Ages]
  <1>1. 0 \in Ages
    BY HorizonAssumption DEF Ages, Absent
  <1>2. "settled" \in Kinds
    BY DEF Kinds
  <1>3. ASSUME NEW k \in Kinds
        PROVE  (CASE k = "success" /\ state = "SUCCESS"                     -> 0
                  [] k = "entered" /\ state = "WORKING" /\ message = "none" -> 0
                  [] k = "marker"  /\ message = "marker"                    -> 0
                  [] k = "before"  /\ message = "marker"                    -> log["settled"]
                  [] k = "settled" /\ state \notin {"ERROR", "WORKING"}     -> 0
                  [] OTHER                                                  -> log[k]) \in Ages
    <2>1. log[k] \in Ages /\ log["settled"] \in Ages
      BY <1>2
    <2> HIDE DEF Ages, Kinds
    <2> QED
      BY <1>1, <2>1
  <1> QED
    BY <1>3 DEF Logged

\* What a commit writes is typed, and keeps WORKING only if nothing was to be written.
LEMMA CommitIsTyped ==
    ASSUME NEW w \in Workers, NEW state \in States, NEW message, NEW phase \in Phases,
           TypeOK, Commit(w, state, message, phase)
    PROVE  /\ TypeOK'
           /\ row' = IF state = exec[w].seen THEN row ELSE state
           /\ \A v \in Workers : v # w => exec'[v] = exec[v]
           /\ phase = "idle" => exec'[w] = Idle
           /\ phase # "idle" => /\ exec'[w].phase = phase /\ exec'[w].seen = row'
                                /\ exec'[w].again = exec[w].again
                                /\ exec'[w].entered = (state = "WORKING" /\ message = "none")
           /\ abandoned' = (abandoned /\ row' = "WORKING")
           /\ log' = Logged(state, message) /\ pool' = pool /\ schedule' = schedule
  <1>0. /\ row \in States /\ log \in [Kinds -> Ages] /\ exec \in [Workers -> Execution]
        /\ pool \in Pools /\ schedule \in Schedules /\ abandoned \in BOOLEAN
        /\ breaks \in 0 .. MaxBreaks
    BY DEF TypeOK
  <1> DEFINE new == IF phase = "idle" THEN Idle
                    ELSE [phase |-> phase, seen |-> row', again |-> exec[w].again,
                          entered |-> state = "WORKING" /\ message = "none"]
  <1>1. /\ row' = (IF state = exec[w].seen THEN row ELSE state)
        /\ log' = Logged(state, message)
        /\ abandoned' = (abandoned /\ row' = "WORKING")
        /\ exec' = [exec EXCEPT ![w] = new]
        /\ UNCHANGED <<pool, schedule, breaks>>
    BY <1>0 DEF Commit, Written, Const
  <1>2. row' \in States
    BY <1>0, <1>1
  <1>3. new \in Execution
    <2>1. exec[w].again \in BOOLEAN
      BY <1>0 DEF Execution
    <2>2. (state = "WORKING" /\ message = "none") \in BOOLEAN
      OBVIOUS
    <2>3. Idle \in Execution
      BY DEF Idle, Execution, Phases, States
    <2> QED
      BY <1>2, <2>1, <2>2, <2>3 DEF Execution
  <1>4. exec' \in [Workers -> Execution] /\ exec'[w] = new
        /\ \A v \in Workers : v # w => exec'[v] = exec[v]
    BY <1>0, <1>1, <1>3
  <1>5. log' \in [Kinds -> Ages]
    BY <1>0, <1>1, LoggedIsTyped
  <1>6. abandoned' \in BOOLEAN
    BY <1>1
  <1>7. TypeOK'
    BY <1>0, <1>1, <1>2, <1>4, <1>5, <1>6 DEF TypeOK
  <1> QED
    BY <1>1, <1>4, <1>7

LEMMA GoesIsTyped ==
    ASSUME NEW w \in Workers, NEW phase \in Phases, TypeOK, Goes(w, phase), abandoned' \in BOOLEAN
    PROVE  /\ TypeOK'
           /\ \A v \in Workers : v # w => exec'[v] = exec[v]
           /\ phase = "idle" => exec'[w] = Idle
           /\ phase # "idle" => /\ exec'[w].phase = phase /\ exec'[w].seen = exec[w].seen
                                /\ exec'[w].again = exec[w].again
                                /\ exec'[w].entered = exec[w].entered
           /\ UNCHANGED <<pool, schedule, row, log, breaks>>
  <1>0. /\ row \in States /\ log \in [Kinds -> Ages] /\ exec \in [Workers -> Execution]
        /\ pool \in Pools /\ schedule \in Schedules /\ breaks \in 0 .. MaxBreaks
    BY DEF TypeOK
  <1> DEFINE new == IF phase = "idle" THEN Idle ELSE [exec[w] EXCEPT !.phase = phase]
  <1>1. exec' = [exec EXCEPT ![w] = new] /\ UNCHANGED <<pool, schedule, row, log, breaks>>
    BY <1>0 DEF Goes, Const
  <1>2. new \in Execution
    <2>1. Idle \in Execution
      BY DEF Idle, Execution, Phases, States
    <2>2. [exec[w] EXCEPT !.phase = phase] \in Execution
      BY <1>0 DEF Execution
    <2> QED
      BY <2>1, <2>2
  <1>3. exec' \in [Workers -> Execution] /\ exec'[w] = new
        /\ \A v \in Workers : v # w => exec'[v] = exec[v]
    BY <1>0, <1>1, <1>2
  <1>4. phase # "idle" => /\ new.phase = phase /\ new.seen = exec[w].seen
                          /\ new.again = exec[w].again /\ new.entered = exec[w].entered
    BY <1>0 DEF Execution
  <1>5. TypeOK'
    BY <1>0, <1>1, <1>3 DEF TypeOK
  <1> QED
    BY <1>1, <1>3, <1>4, <1>5

\* The commits of an execution, but for those of WORKING: a success, an alert kept back,
\* or an end after WORKING, which may be followed by the notification about an error.
Outcome(w) ==
  /\ w \in pool
  /\ \E message \in Messages :
       \/ Commit(w, "SUCCESS", message, "idle") \/ Commit(w, "GRACE", message, "idle")
       \/ /\ exec[w].phase \notin {"idle", "read"} \/ exec[w].seen = "WORKING"
          /\ \E state \in {"NOOP", "ERROR"}, phase \in {"idle", "notify"} :
               Commit(w, state, message, phase)

LEMMA OutcomeCommits ==
    ASSUME NEW w \in Workers, Outcome(w)
    PROVE  \E state \in States \ {"WORKING"}, message \in Messages, phase \in {"idle", "notify"} :
             Commit(w, state, message, phase)
  <1> DEFINE Ends(s) == \E message \in Messages, phase \in {"idle", "notify"} :
                          Commit(w, s, message, phase)
  <1>1. Ends("SUCCESS") \/ Ends("GRACE") \/ Ends("NOOP") \/ Ends("ERROR")
    BY DEF Outcome
  <1>2. {"SUCCESS", "GRACE", "NOOP", "ERROR"} \subseteq States \ {"WORKING"}
    BY DEF States
  <1> HIDE DEF Ends
  <1>3. \E s \in States \ {"WORKING"} : Ends(s)
    BY <1>1, <1>2
  <1> QED
    BY <1>3 DEF Ends

\* The steps without a commit that go on, and those that end an execution without one.
GoesOn(w) ==
  /\ \/ InPhase(w, "read") /\ schedule.type = "REPORT" /\ Goes(w, "send")
     \/ InPhase(w, "check") /\ (Goes(w, "send") \/ Goes(w, "complain"))
     \/ InPhase(w, "send") /\ Goes(w, "sent")
     \/ (InPhase(w, "notify") \/ InPhase(w, "complain")) /\ Goes(w, "mark")
  /\ UNCHANGED abandoned

GivesUp(w) ==
  \/ InPhase(w, "notify") /\ Goes(w, "idle") /\ UNCHANGED abandoned
  \/ InPhase(w, "complain") /\ Goes(w, "idle") /\ abandoned' = TRUE

\* Every step of an execution after it was read is of one of these kinds.
LEMMA KindsOfSteps ==
    ASSUME NEW w \in Workers, Proceeds(w)
    PROVE  Refuses(w) \/ Enters(w) \/ Outcome(w) \/ GoesOn(w) \/ GivesUp(w)
  <1>1. CASE Decides(w)
    BY <1>1 DEF Decides, TimesOut, KeepsGrace, Resends, Outcome, GoesOn, Messages, InPhase
  <1>2. CASE Works(w)
    BY <1>2 DEF Works, AlertStaysQuiet, AlertFires, Sends, Succeeds, Outcome, GoesOn, Messages, InPhase
  <1>3. CASE Handles(w)
    BY <1>3 DEF Handles, AlertFails, SendFails, KeepsQuiet, Notifies, Marks, NotifyFails,
                ComplaintFails, Outcome, GoesOn, GivesUp, Messages, InPhase
  <1> QED
    BY <1>1, <1>2, <1>3 DEF Proceeds

\* Reading a schedule.
LEMMA ValidateIsTyped ==
    ASSUME NEW w \in Workers, TypeOK, Validate(w)
    PROVE  /\ TypeOK' /\ w \in pool /\ exec[w].phase = "idle"
           /\ exec'[w].phase = "read" /\ exec'[w].seen = row
           /\ exec'[w].again = (row \in {"SUCCESS", "GRACE"}) /\ exec'[w].entered = FALSE
           /\ \A v \in Workers : v # w => exec'[v] = exec[v]
           /\ UNCHANGED <<pool, schedule, row, log, abandoned, breaks>>
  <1>0. row \in States /\ exec \in [Workers -> Execution]
    BY DEF TypeOK
  <1> DEFINE new == [Idle EXCEPT !.phase = "read", !.seen = row, !.again = row \in {"SUCCESS", "GRACE"}]
  <1>1. /\ w \in pool /\ exec[w].phase = "idle" /\ exec' = [exec EXCEPT ![w] = new]
        /\ UNCHANGED <<pool, schedule, row, log, abandoned, breaks>>
    BY DEF Validate, InPhase, Const
  <1>2. /\ new \in Execution /\ new.phase = "read" /\ new.seen = row
        /\ new.again = (row \in {"SUCCESS", "GRACE"}) /\ new.entered = FALSE
    <2>1. Idle \in Execution /\ Idle.entered = FALSE
      BY DEF Idle, Execution, Phases, States
    <2>2. (row \in {"SUCCESS", "GRACE"}) \in BOOLEAN /\ "read" \in Phases
      BY DEF Phases
    <2> QED
      BY <1>0, <2>1, <2>2 DEF Execution
  <1> HIDE DEF new
  <1>3. exec' \in [Workers -> Execution] /\ exec'[w] = new
        /\ \A v \in Workers : v # w => exec'[v] = exec[v]
    BY <1>0, <1>1, <1>2
  <1> QED
    BY <1>1, <1>2, <1>3 DEF TypeOK

\* Time and pruning leave everything but the log alone.
LEMMA AgesAreTyped ==
    ASSUME TypeOK, Tick \/ Prune
    PROVE  /\ TypeOK' /\ UNCHANGED <<pool, schedule, row, exec, abandoned, breaks>>
           /\ log["success"] >= schedule.grace => log'["success"] >= schedule.grace
  <1>0. /\ log \in [Kinds -> Ages] /\ schedule \in Schedules /\ "success" \in Kinds
        /\ schedule.grace \in Nat /\ schedule.grace < Horizon
    BY HorizonAssumption DEF TypeOK, Kinds, Schedule
  <1>1. UNCHANGED <<pool, schedule, row, exec, abandoned, breaks>>
    BY DEF Tick, Prune, Const
  <1>2. CASE Tick
    <2>1. log' = [k \in Kinds |-> IF log[k] < Horizon THEN log[k] + 1 ELSE log[k]]
      BY <1>2 DEF Tick
    <2>2. log' \in [Kinds -> Ages]
      BY <1>0, <2>1, HorizonAssumption DEF Ages, Absent
    <2>3. log["success"] >= schedule.grace => log'["success"] >= schedule.grace
      <3>1. log'["success"] = IF log["success"] < Horizon THEN log["success"] + 1 ELSE log["success"]
        BY <1>0, <2>1
      <3>2. log["success"] \in Nat
        BY <1>0, HorizonAssumption DEF Ages, Absent
      <3> QED
        BY <1>0, <3>1, <3>2
    <2> QED
      BY <1>1, <2>2, <2>3 DEF TypeOK
  <1>3. CASE Prune
    <2>1. log' = [k \in Kinds |-> IF log[k] > schedule.retention THEN Absent ELSE log[k]]
      BY <1>3 DEF Prune
    <2>2. log' \in [Kinds -> Ages]
      BY <1>0, <2>1, HorizonAssumption DEF Ages, Absent
    <2>3. log["success"] >= schedule.grace => log'["success"] >= schedule.grace
      BY <1>0, <2>1, HorizonAssumption DEF Absent
    <2> QED
      BY <1>1, <2>2, <2>3 DEF TypeOK
  <1> QED
    BY <1>2, <1>3

LEMMA BreakingOffIsTyped ==
    ASSUME NEW w \in Workers, TypeOK, BreaksOff(w)
    PROVE  /\ TypeOK' /\ exec'[w] = Idle /\ \A v \in Workers : v # w => exec'[v] = exec[v]
           /\ abandoned' = (abandoned \/ exec[w].entered)
           /\ UNCHANGED <<pool, schedule, row, log>>
  <1>0. exec \in [Workers -> Execution] /\ breaks \in 0 .. MaxBreaks /\ abandoned \in BOOLEAN
    BY DEF TypeOK
  <1>1. /\ exec' = [exec EXCEPT ![w] = Idle] /\ abandoned' = (abandoned \/ exec[w].entered)
        /\ breaks < MaxBreaks /\ breaks' = breaks + 1
        /\ UNCHANGED <<pool, schedule, row, log>>
    BY DEF BreaksOff, Const
  <1>2. exec' \in [Workers -> Execution]
    <2>1. Idle \in Execution
      BY DEF Idle, Execution, Phases, States
    <2> QED
      BY <1>0, <1>1, <2>1
  <1>3. breaks' \in 0 .. MaxBreaks
    BY <1>0, <1>1, BreakAssumption
  <1>4. abandoned' \in BOOLEAN
    BY <1>1
  <1> QED
    BY <1>0, <1>1, <1>2, <1>3, <1>4 DEF TypeOK

LEMMA StepIsTyped ==
    ASSUME TypeOK, [Next]_vars
    PROVE  TypeOK'
  <1>1. ASSUME NEW w \in Workers, Proceeds(w) PROVE TypeOK'
    <2>1. CASE Refuses(w)
      BY <2>1, CommitIsTyped DEF Refuses, States, Phases
    <2>2. CASE Enters(w)
      <3>1. PICK phase \in {"check", "send"} : Commit(w, "WORKING", "none", phase)
        BY <2>2 DEF Enters
      <3>2. phase \in Phases /\ "WORKING" \in States
        BY DEF Phases, States
      <3> QED
        BY <3>1, <3>2, CommitIsTyped
    <2>3. CASE Outcome(w)
      <3>1. PICK state \in States \ {"WORKING"}, message \in Messages, phase \in {"idle", "notify"} :
                 Commit(w, state, message, phase)
        BY <2>3, OutcomeCommits
      <3>2. phase \in Phases
        BY DEF Phases
      <3> QED
        BY <3>1, <3>2, CommitIsTyped
    <2>4. CASE GoesOn(w) \/ GivesUp(w)
      <3>1. \E phase \in Phases : Goes(w, phase)
        BY <2>4 DEF GoesOn, GivesUp, Phases
      <3>2. abandoned' \in BOOLEAN
        BY <2>4 DEF GoesOn, GivesUp, TypeOK
      <3> QED
        BY <3>1, <3>2, GoesIsTyped
    <2> QED
      BY <1>1, <2>1, <2>2, <2>3, <2>4, KindsOfSteps
  <1>2. ASSUME NEW w \in Workers, Validate(w) PROVE TypeOK'
    BY <1>2, ValidateIsTyped
  <1>3. ASSUME NEW w \in Workers, BreaksOff(w) PROVE TypeOK'
    BY <1>3, BreakingOffIsTyped
  <1>4. CASE Tick \/ Prune
    BY <1>4, AgesAreTyped
  <1>5. CASE UNCHANGED vars
    BY <1>5 DEF vars, TypeOK
  <1> QED
    BY <1>1, <1>2, <1>3, <1>4, <1>5 DEF Next

\* Every variable keeps its type; the row is in a state that some class handles.
THEOREM TypeCorrect == Spec => []TypeOK
  <1>1. Init => TypeOK
    <2>1. Idle \in Execution /\ "NOOP" \in States
      BY DEF Idle, Execution, Phases, States
    <2>2. Absent \in Ages /\ 0 \in 0 .. MaxBreaks
      BY HorizonAssumption, BreakAssumption DEF Absent, Ages
    <2> QED
      BY <2>1, <2>2 DEF Init, TypeOK
  <1> QED
    BY <1>1, StepIsTyped, PTL DEF Spec

\* A row that says WORKING has somebody who works on it: an execution that has seen
\* WORKING writes whatever it ends with, one that is refused writes nothing, and one that
\* was read before WORKING was committed ends in another state.
THEOREM WorkingIsAlwaysWorked == Spec => []WorkingIsWorked
  <1>1. Init => WorkingIsWorked /\ EnteredSees
    BY DEF Init, WorkingIsWorked, EnteredSees, Idle
  <1>2. ASSUME TypeOK, WorkingIsWorked, EnteredSees, [Next]_vars
        PROVE  WorkingIsWorked' /\ EnteredSees'
    <2>0. \A w \in Workers : exec[w].entered \in BOOLEAN
      BY <1>2 DEF TypeOK, Execution
    <2>p. pool \subseteq Workers
      BY <1>2, PoolAssumption DEF TypeOK
    \* The others go on, and w was not the one who worked or does so still.
    <2>k. ASSUME NEW w \in Workers, \A v \in Workers : v # w => exec'[v] = exec[v], pool' = pool,
                 row' = "WORKING" => row = "WORKING", abandoned => abandoned',
                 exec[w].entered => exec'[w].entered \/ abandoned' \/ row' # "WORKING",
                 exec'[w].entered =>
                   /\ exec'[w].seen = "WORKING"
                   /\ exec'[w].phase \in {"check", "send", "sent", "complain", "mark"}
          PROVE  WorkingIsWorked' /\ EnteredSees'
      BY <1>2, <2>k, <2>p DEF WorkingIsWorked, EnteredSees
    <2>i. Idle.entered = FALSE
      BY DEF Idle
    <2>1. ASSUME NEW w \in Workers, Refuses(w) PROVE WorkingIsWorked' /\ EnteredSees'
      <3>1. exec[w].seen = "WORKING" /\ ~ exec[w].entered
        BY <1>2, <2>0, <2>1 DEF Refuses, InPhase, EnteredSees
      <3>2. /\ row' = row /\ exec'[w] = Idle /\ \A v \in Workers : v # w => exec'[v] = exec[v]
            /\ abandoned' = (abandoned /\ row' = "WORKING") /\ pool' = pool
        BY <1>2, <2>1, <3>1, CommitIsTyped DEF Refuses, States, Phases
      <3>3. CASE row = "WORKING"
        BY <2>k, <2>i, <3>1, <3>2, <3>3
      <3>4. CASE row # "WORKING"
        BY <1>2, <2>i, <3>2, <3>4 DEF WorkingIsWorked, EnteredSees
      <3> QED
        BY <3>3, <3>4
    <2>2. ASSUME NEW w \in Workers, Enters(w) PROVE WorkingIsWorked' /\ EnteredSees'
      <3>1. PICK phase \in {"check", "send"} : Commit(w, "WORKING", "none", phase)
        BY <2>2 DEF Enters
      <3>2. phase \in Phases /\ "WORKING" \in States /\ phase # "idle"
        BY DEF Phases, States
      <3>3. /\ exec'[w].phase = phase /\ exec'[w].seen = row' /\ exec'[w].entered
            /\ row' = "WORKING" /\ \A v \in Workers : v # w => exec'[v] = exec[v]
        <4>1. exec[w].seen # "WORKING"
          BY <2>2 DEF Enters
        <4> QED
          BY <1>2, <3>1, <3>2, <4>1, CommitIsTyped
      <3>4. w \in pool /\ pool' = pool
        BY <1>2, <2>2, <3>1, <3>2, CommitIsTyped DEF Enters, InPhase
      <3> QED
        BY <1>2, <3>3, <3>4 DEF WorkingIsWorked, EnteredSees
    <2>3. ASSUME NEW w \in Workers, Outcome(w) PROVE WorkingIsWorked' /\ EnteredSees'
      <3>1. PICK state \in States \ {"WORKING"}, message \in Messages, phase \in {"idle", "notify"} :
                 Commit(w, state, message, phase)
        BY <2>3, OutcomeCommits
      <3>2. phase \in Phases
        BY DEF Phases
      <3>3. /\ row' = (IF state = exec[w].seen THEN row ELSE state) /\ ~ exec'[w].entered
            /\ \A v \in Workers : v # w => exec'[v] = exec[v]
            /\ abandoned' = (abandoned /\ row' = "WORKING") /\ pool' = pool
        BY <1>2, <2>i, <3>1, <3>2, CommitIsTyped
      <3>4. CASE row' = "WORKING"
        <4>1. row = "WORKING" /\ ~ exec[w].entered
          BY <1>2, <2>0, <3>1, <3>3, <3>4 DEF EnteredSees
        <4> QED
          BY <2>k, <3>3, <3>4, <4>1
      <3>5. CASE row' # "WORKING"
        BY <1>2, <3>3, <3>5 DEF WorkingIsWorked, EnteredSees
      <3> QED
        BY <3>4, <3>5
    <2>4. ASSUME NEW w \in Workers, GoesOn(w) PROVE WorkingIsWorked' /\ EnteredSees'
      <3>1. PICK phase \in {"send", "complain", "sent", "mark"} : Goes(w, phase)
        BY <2>4 DEF GoesOn
      <3>2. abandoned' = abandoned /\ abandoned \in BOOLEAN /\ phase \in Phases /\ phase # "idle"
        BY <1>2, <2>4 DEF GoesOn, TypeOK, Phases
      <3>3. /\ exec'[w].phase = phase /\ exec'[w].seen = exec[w].seen
            /\ exec'[w].entered = exec[w].entered
            /\ \A v \in Workers : v # w => exec'[v] = exec[v]
            /\ row' = row /\ pool' = pool
        BY <1>2, <3>1, <3>2, GoesIsTyped
      <3>4. exec[w].entered => exec[w].seen = "WORKING"
        BY <1>2 DEF EnteredSees
      <3> QED
        BY <2>k, <3>2, <3>3, <3>4
    <2>5. ASSUME NEW w \in Workers, GivesUp(w) PROVE WorkingIsWorked' /\ EnteredSees'
      <3>1. /\ Goes(w, "idle") /\ "idle" \in Phases /\ abandoned' \in BOOLEAN
            /\ abandoned => abandoned'
            /\ exec[w].entered => abandoned'
        BY <1>2, <2>0, <2>5 DEF GivesUp, TypeOK, Phases, InPhase, EnteredSees
      <3>2. /\ exec'[w] = Idle /\ \A v \in Workers : v # w => exec'[v] = exec[v]
            /\ row' = row /\ pool' = pool
        BY <1>2, <3>1, GoesIsTyped
      <3> QED
        BY <2>i, <2>k, <3>1, <3>2
    <2>6. ASSUME NEW w \in Workers, Proceeds(w) PROVE WorkingIsWorked' /\ EnteredSees'
      BY <2>1, <2>2, <2>3, <2>4, <2>5, <2>6, KindsOfSteps
    <2>7. ASSUME NEW w \in Workers, Validate(w) PROVE WorkingIsWorked' /\ EnteredSees'
      <3>1. ~ exec[w].entered
        BY <1>2, <2>0, <2>7, ValidateIsTyped DEF EnteredSees
      <3>2. /\ exec'[w].entered = FALSE /\ \A v \in Workers : v # w => exec'[v] = exec[v]
            /\ UNCHANGED <<pool, row, abandoned>>
        BY <1>2, <2>7, ValidateIsTyped
      <3> QED
        BY <2>k, <3>1, <3>2
    <2>8. ASSUME NEW w \in Workers, BreaksOff(w) PROVE WorkingIsWorked' /\ EnteredSees'
      BY <1>2, <2>8, <2>i, <2>k, BreakingOffIsTyped
    <2>9. CASE Tick \/ Prune
      BY <1>2, <2>9, AgesAreTyped DEF WorkingIsWorked, EnteredSees
    <2>10. CASE UNCHANGED vars
      BY <1>2, <2>10 DEF vars, WorkingIsWorked, EnteredSees
    <2> QED
      BY <1>2, <2>6, <2>7, <2>8, <2>9, <2>10 DEF Next
  <1> QED
    BY <1>1, <1>2, TypeCorrect, PTL DEF Spec

\* One worker, and an alert: outside SUCCESS and GRACE the grace period is over, and what
\* the worker has seen is what the row says.
Alone == (\A w, v \in pool : w = v) /\ schedule.type = "ALERT"

GraceInv ==
  Alone =>
    /\ row \notin {"SUCCESS", "GRACE"} => ~ IsInGracePeriod
    /\ \A w \in pool :
         /\ exec[w].phase # "idle" => exec[w].seen = row
         /\ exec[w].phase = "read" => exec[w].again = (row \in {"SUCCESS", "GRACE"})
         /\ exec[w].phase \notin {"idle", "read"} => ~ IsInGracePeriod

LEMMA OnlySuccessIsSuccess ==
    ASSUME NEW state \in States \ {"SUCCESS"}, NEW message
    PROVE  Logged(state, message)["success"] = log["success"]
  <1>1. "success" \in Kinds
    BY DEF Kinds
  <1> QED
    BY <1>1 DEF Logged

\* With one worker no alert is sent in the grace period of the last one: the worker comes
\* to WORKING from SUCCESS or GRACE only when the period is over, and from another state
\* only after it was over, because nothing but a success begins a new one.
THEOREM GraceAlwaysHolds == Spec => []GraceHolds
  <1>1. Init => GraceInv
    <2>1. ASSUME Init PROVE ~ IsInGracePeriod /\ \A w \in pool : exec[w].phase = "idle"
      BY <2>1, HorizonAssumption, PoolAssumption
         DEF Init, IsInGracePeriod, Kinds, Absent, Schedule, Idle
    <2> QED
      BY <2>1 DEF GraceInv
  <1>2. ASSUME TypeOK, GraceInv, [Next]_vars PROVE GraceInv'
    <2>p. pool \subseteq Workers
      BY <1>2, PoolAssumption DEF TypeOK
    \* The one worker of the pool commits, and the period goes on as it was.
    <2>c. ASSUME NEW w \in Workers, w \in pool, UNCHANGED <<pool, schedule>>,
                 Alone => log'["success"] = log["success"],
                 Alone => exec'[w].phase # "read",
                 Alone => (exec'[w].phase # "idle" => exec'[w].seen = row'),
                 Alone => (row' \notin {"SUCCESS", "GRACE"} \/ exec'[w].phase # "idle"
                             => ~ IsInGracePeriod)
          PROVE  GraceInv'
      BY <2>c DEF GraceInv, Alone, IsInGracePeriod
    <2>i. Idle.phase = "idle"
      BY DEF Idle
    <2>1. ASSUME NEW w \in Workers, Refuses(w) PROVE GraceInv'
      <3>1. /\ row' = row /\ exec'[w] = Idle /\ UNCHANGED <<pool, schedule>>
            /\ log' = Logged("WORKING", "other") /\ w \in pool
        BY <1>2, <2>1, CommitIsTyped DEF Refuses, States, Phases, InPhase
      <3>2. log'["success"] = log["success"]
        BY <3>1, OnlySuccessIsSuccess DEF States
      <3> QED
        BY <1>2, <2>c, <2>i, <3>1, <3>2 DEF GraceInv
    <2>2. ASSUME NEW w \in Workers, Enters(w) PROVE GraceInv'
      <3>1. PICK phase \in {"check", "send"} : Commit(w, "WORKING", "none", phase)
        BY <2>2 DEF Enters
      <3>2. phase \in Phases /\ "WORKING" \in States \ {"SUCCESS"} /\ phase # "idle"
        BY DEF Phases, States
      <3>3. /\ exec'[w].phase = phase /\ exec'[w].seen = row' /\ UNCHANGED <<pool, schedule>>
            /\ log' = Logged("WORKING", "none")
        BY <1>2, <3>1, <3>2, CommitIsTyped
      <3>4. log'["success"] = log["success"]
        BY <3>2, <3>3, OnlySuccessIsSuccess
      <3>5. /\ w \in pool /\ exec[w].phase = "read"
            /\ exec[w].again => ~ IsInGracePeriod
        BY <2>2 DEF Enters, InPhase
      <3>6. Alone => ~ IsInGracePeriod
        <4>1. CASE row \in {"SUCCESS", "GRACE"}
          BY <1>2, <3>5, <4>1 DEF GraceInv
        <4>2. CASE row \notin {"SUCCESS", "GRACE"}
          BY <1>2, <4>2 DEF GraceInv
        <4> QED
          BY <4>1, <4>2
      <3> QED
        BY <2>c, <3>3, <3>4, <3>5, <3>6
    <2>3. ASSUME NEW w \in Workers, NEW message \in Messages, NEW state \in {"SUCCESS", "GRACE"},
                 w \in pool, Commit(w, state, message, "idle"), exec[w].phase # "idle"
          PROVE  GraceInv'
      <3>1. /\ row' = (IF state = exec[w].seen THEN row ELSE state) /\ exec'[w] = Idle
            /\ UNCHANGED <<pool, schedule>>
        BY <1>2, <2>3, CommitIsTyped DEF States, Phases
      <3>2. Alone => row' \in {"SUCCESS", "GRACE"}
        BY <1>2, <2>3, <3>1 DEF GraceInv
      <3> QED
        BY <2>3, <2>i, <3>1, <3>2 DEF GraceInv, Alone
    <2>4. ASSUME NEW w \in Workers, NEW message \in Messages, NEW state \in {"NOOP", "ERROR"},
                 NEW phase \in {"idle", "notify"}, w \in pool, Commit(w, state, message, phase),
                 exec[w].phase # "idle", exec[w].phase # "read" \/ exec[w].seen = "WORKING"
          PROVE  GraceInv'
      <3>1. state \in States \ {"SUCCESS"} /\ phase \in Phases
        BY DEF States, Phases
      <3>2. /\ exec'[w].phase \in {"idle", "notify"}
            /\ exec'[w].phase # "idle" => exec'[w].seen = row'
            /\ UNCHANGED <<pool, schedule>> /\ log' = Logged(state, message)
        BY <1>2, <2>4, <2>i, <3>1, CommitIsTyped
      <3>3. log'["success"] = log["success"]
        BY <3>1, <3>2, OnlySuccessIsSuccess
      <3>4. Alone => ~ IsInGracePeriod
        BY <1>2, <2>4 DEF GraceInv
      <3> QED
        BY <2>4, <2>c, <3>2, <3>3, <3>4
    <2>5. ASSUME NEW w \in Workers, GoesOn(w) PROVE GraceInv'
      <3>1. PICK phase \in {"send", "complain", "sent", "mark"} : Goes(w, phase)
        BY <2>5 DEF GoesOn
      <3>2. abandoned' \in BOOLEAN /\ phase \in Phases /\ phase # "idle"
        BY <1>2, <2>5 DEF GoesOn, TypeOK, Phases
      <3>3. /\ exec'[w].phase = phase /\ exec'[w].seen = exec[w].seen
            /\ UNCHANGED <<pool, schedule, row, log>>
        BY <1>2, <3>1, <3>2, GoesIsTyped
      <3>4. /\ w \in pool /\ exec[w].phase # "idle"
            /\ exec[w].phase # "read" \/ schedule.type = "REPORT"
        BY <2>5 DEF GoesOn, InPhase
      <3>5. Alone => ~ IsInGracePeriod /\ exec[w].seen = row
        BY <1>2, <3>4 DEF GraceInv, Alone
      <3> QED
        BY <2>c, <3>3, <3>4, <3>5
    <2>6. ASSUME NEW w \in Workers, GivesUp(w) PROVE GraceInv'
      <3>1. /\ Goes(w, "idle") /\ "idle" \in Phases /\ abandoned' \in BOOLEAN /\ w \in pool
        BY <1>2, <2>6 DEF GivesUp, TypeOK, Phases, InPhase
      <3>2. exec'[w] = Idle /\ UNCHANGED <<pool, schedule, row, log>>
        BY <1>2, <3>1, GoesIsTyped
      <3> QED
        BY <1>2, <2>c, <2>i, <3>1, <3>2 DEF GraceInv
    <2>7. ASSUME NEW w \in Workers, Outcome(w), Proceeds(w) PROVE GraceInv'
      <3>1. exec[w].phase # "idle"
        BY <2>7 DEF Proceeds, Decides, Works, Handles, TimesOut, Refuses, KeepsGrace, Enters,
                    Resends, AlertStaysQuiet, AlertFires, Sends, Succeeds, AlertFails, SendFails,
                    KeepsQuiet, Notifies, Marks, NotifyFails, ComplaintFails, InPhase
      <3> QED
        BY <2>3, <2>4, <2>7, <3>1 DEF Outcome
    <2>8. ASSUME NEW w \in Workers, Proceeds(w) PROVE GraceInv'
      BY <2>1, <2>2, <2>5, <2>6, <2>7, <2>8, KindsOfSteps
    <2>9. ASSUME NEW w \in Workers, Validate(w) PROVE GraceInv'
      <3>1. /\ w \in pool /\ exec'[w].phase = "read" /\ exec'[w].seen = row
            /\ exec'[w].again = (row \in {"SUCCESS", "GRACE"})
            /\ UNCHANGED <<pool, schedule, row, log>>
        BY <1>2, <2>9, ValidateIsTyped
      <3> QED
        BY <1>2, <3>1 DEF GraceInv, Alone, IsInGracePeriod
    <2>10. ASSUME NEW w \in Workers, BreaksOff(w) PROVE GraceInv'
      <3>1. w \in pool
        BY <2>10 DEF BreaksOff
      <3>2. exec'[w] = Idle /\ UNCHANGED <<pool, schedule, row, log>>
        BY <1>2, <2>10, BreakingOffIsTyped
      <3> QED
        BY <1>2, <2>c, <2>i, <3>1, <3>2 DEF GraceInv
    <2>11. CASE Tick \/ Prune
      <3>1. /\ UNCHANGED <<pool, schedule, row, exec>>
            /\ log["success"] >= schedule.grace => log'["success"] >= schedule.grace
        BY <1>2, <2>11, AgesAreTyped
      <3>2. log["success"] \in Nat /\ log'["success"] \in Nat /\ schedule.grace \in Nat
        BY <1>2, StepIsTyped, HorizonAssumption DEF TypeOK, Kinds, Ages, Absent, Schedule
      <3>3. ~ IsInGracePeriod => ~ IsInGracePeriod'
        BY <3>1, <3>2 DEF IsInGracePeriod
      <3> QED
        BY <1>2, <3>1, <3>3 DEF GraceInv, Alone
    <2>12. CASE UNCHANGED vars
      BY <1>2, <2>12 DEF vars, GraceInv, Alone, IsInGracePeriod
    <2> QED
      BY <1>2, <2>8, <2>9, <2>10, <2>11, <2>12 DEF Next
  <1>3. GraceInv => GraceHolds
    BY DEF GraceInv, GraceHolds, Alone
  <1> QED
    BY <1>1, <1>2, <1>3, TypeCorrect, PTL DEF Spec
=============================================================================
