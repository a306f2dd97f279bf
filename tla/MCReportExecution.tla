------------------------- MODULE MCReportExecution -------------------------
(* Schedules and pools for TLC: an alert and a report, with or without      *)
(* periods, executed by one worker or by two.                               *)
EXTENDS ReportExecution

MCPools == {{CHOOSE w \in Workers : TRUE}, Workers}
OnePool == {Workers}

Of(type, grace, timeout, retention) ==
  [type |-> type, grace |-> grace, timeout |-> timeout, retention |-> retention]

MCSchedules ==
  {Of("ALERT", 2, 1, 0), Of("ALERT", 1, 0, 1), Of("REPORT", 1, 1, 0)}
PrunedSchedules == {Of("ALERT", 0, 1, 2)}
GraceSchedules == {Of("ALERT", 2, 0, 0)}
ReportSchedules == {Of("REPORT", 0, 0, 0)}
=============================================================================
