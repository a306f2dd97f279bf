---------------------------- MODULE MCAsyncPolling ----------------------------
(***************************************************************************)
(* AsyncPolling for TLC, with all jobs asked for by the page.  Until it    *)
(* knows of a job, it treats its events like those of another page's job.  *)
(***************************************************************************)
EXTENDS AsyncPolling

CONSTANTS j1, j2, j3, c1

OneJob == {j1}
TwoJobs == {j1, j2}
ThreeJobs == {j1, j2, j3}

OneChannelOf == [j \in OneJob |-> c1]
TwoChannelOf == [j \in TwoJobs |-> c1]
ThreeChannelOf == [j \in ThreeJobs |-> c1]

(***************************************************************************)
(* Fewer interleavings: a task goes on at once, except that it may take    *)
(* any time to get to its first XADD.  The page cannot tell: it sees       *)
(* whether a job was submitted and what its channel's stream holds.        *)
(***************************************************************************)
Urgent(j) == task[j] \in {"queued", "running", "full"}

Eager == \A j \in Jobs : Urgent(j) => \E k \in Jobs : Urgent(k) /\ task'[k] # task[k]

EagerSpec == Init /\ [][Next /\ Eager]_vars /\ Fairness

=============================================================================
