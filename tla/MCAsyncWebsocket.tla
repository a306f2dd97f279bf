--------------------------- MODULE MCAsyncWebsocket ---------------------------
(***************************************************************************)
(* AsyncWebsocket for TLC: jobs of the page, and one of another session,   *)
(* whose events the server meets in the global stream.                     *)
(***************************************************************************)
EXTENDS AsyncWebsocket

CONSTANTS j1, j2, j3, c1, c2

MCMine == {j1, j2}
MCJobs == {j1, j2, j3}
MCChannelOf == [j \in MCJobs |-> IF j = j3 THEN c2 ELSE c1]

OneMine == {j1}
OneJobs == {j1, j3}
OneChannelOf == [j \in OneJobs |-> IF j = j3 THEN c2 ELSE c1]

(***************************************************************************)
(* Fewer interleavings: a task goes on at once except before its XADDs,    *)
(* which are all that the page and the WebSocket server can tell.          *)
(***************************************************************************)
Urgent(j) == task[j] \in {"queued", "running"}

Eager == \A j \in Jobs : Urgent(j) => \E k \in Jobs : Urgent(k) /\ task'[k] # task[k]

EagerSpec == WsInit /\ [][WsNext /\ Eager]_allWsVars /\ WsFairness

=============================================================================
