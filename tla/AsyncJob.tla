------------------------------- MODULE AsyncJob -------------------------------
(***************************************************************************)
(* What an async query promises to the chart that asked for it: its        *)
(* promise settles at most once, and only on the word of the server.       *)
(***************************************************************************)
CONSTANTS
    Jobs  \* the queries that the page asks for

VARIABLES
    verdicts,  \* job -> the verdicts that the server has published on it
    outcome    \* job -> what has become of its promise

vars == <<verdicts, outcome>>

Init ==
    /\ verdicts = [j \in Jobs |-> {}]
    /\ outcome = [j \in Jobs |-> "none"]

\* The first verdict is either; only DONE may be taken back.
Publish(j) ==
    /\ \/ verdicts[j] = {} /\ \E s \in {"done", "error"} :
            verdicts' = [verdicts EXCEPT ![j] = {s}]
       \/ verdicts[j] = {"done"} /\ verdicts' = [verdicts EXCEPT ![j] = {"done", "error"}]
    /\ UNCHANGED outcome

Becomes(j, from, to) ==
    /\ outcome[j] = from
    /\ outcome' = [outcome EXCEPT ![j] = to]
    /\ UNCHANGED verdicts

Wait(j) == Becomes(j, "none", "waiting")

Resolve(j) == "done" \in verdicts[j] /\ Becomes(j, "waiting", "resolved")

\* The query failed, or its result could not be fetched any more.
Reject(j) == verdicts[j] # {} /\ Becomes(j, "waiting", "rejected")

\* The page is left, with everything it was waiting for.
Leave ==
    /\ \E left \in SUBSET { j \in Jobs : outcome[j] \in {"none", "waiting"} } :
           outcome' = [j \in Jobs |-> IF j \in left THEN "gone" ELSE outcome[j]]
    /\ UNCHANGED verdicts

Next ==
    \/ \E j \in Jobs : Publish(j) \/ Wait(j) \/ Resolve(j) \/ Reject(j)
    \/ Leave

Spec == Init /\ [][Next]_vars

=============================================================================
