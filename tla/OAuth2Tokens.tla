---------------------------- MODULE OAuth2Tokens ----------------------------
(***************************************************************************)
(* The OAuth2 tokens of one user for one database (superset/utils/         *)
(* oauth2.py, databases/api.py): a chart's request uses the stored access  *)
(* token, or refreshes it under the lock and stores the new one; the user  *)
(* may authorise anew, in several tabs, which replaces the row.            *)
(***************************************************************************)
EXTENDS DistributedLock, FiniteSets

CONSTANTS
  MaxTries,    \* max_tries of the backoff (5 in the code)
  MaxIssued,   \* bound: no authorisation and no expiry from this many tokens on
  MaxFaults,   \* bound on the failures of the provider, the logger and processes
  Tabs         \* processes that may serve an authorisation

ASSUME TriesAssumption == MaxTries \in Nat \ {0} /\ MaxFaults \in Nat /\ Tabs \subseteq Processes

VARIABLES
  rows,    \* rows of database_user_oauth2_tokens for this user and database
  request, \* what each process is doing
  issued,  \* access tokens the provider has issued so far; they are numbered
  faults

vars == <<entry, lease, lock, overdue, rows, request, issued, faults>>

\* A row is named after the first token in it.
Row == [id : Nat, access : Nat, fresh : BOOLEAN, renewable : BOOLEAN]
NoRow == 0

Phases == {"idle", "stale", "looked", "locked", "calling", "answered", "refused", "forgets",
           "granted"}
Request == [phase : Phases, row : Nat, got : Nat, tries : 0 .. MaxTries - 1]
Idle == [phase |-> "idle", row |-> NoRow, got |-> 0, tries |-> 0]

Init ==
  /\ LockInit
  /\ rows = {} /\ request = [p \in Processes |-> Idle]
  /\ issued = 0 /\ faults = 0

Goes(p, phase) == request' = [request EXCEPT ![p].phase = phase]
Ends(p) == request' = [request EXCEPT ![p] = Idle]
In(p, phase) == request[p].phase = phase
MyRow(p) == {r \in rows : r.id = request[p].row}
----------------------------------------------------------------------------
(* get_oauth2_access_token *)

\* Nothing stored, a token that is still good, or two rows, on which one_or_none raises.
AnswersAtOnce(p) ==
  /\ In(p, "idle") \/ In(p, "refused")
  /\ Cardinality(rows) # 1 \/ \A r \in rows : r.fresh
  /\ Ends(p) /\ UNCHANGED <<lockVars, rows, issued, faults>>

\* Expired, and it cannot be refreshed: the row is marked for deletion in the session...
Forgets(p) ==
  /\ In(p, "idle") \/ In(p, "refused")
  /\ \E r \in rows :
       /\ rows = {r} /\ ~ r.fresh /\ ~ r.renewable
       /\ request' = [request EXCEPT ![p].phase = "forgets", ![p].row = r.id]
  /\ UNCHANGED <<lockVars, rows, issued, faults>>

\* ... and deleted when something else of the request commits, or never.
Deletes(p) ==
  /\ In(p, "forgets")
  /\ rows' = rows \ MyRow(p) \/ rows' = rows
  /\ Ends(p) /\ UNCHANGED <<lockVars, issued, faults>>

FindsStale(p) ==
  /\ In(p, "idle") \/ In(p, "refused")
  /\ \E r \in rows :
       /\ rows = {r} /\ ~ r.fresh /\ r.renewable
       /\ request' = [request EXCEPT ![p].phase = "stale", ![p].row = r.id]
  /\ UNCHANGED <<lockVars, rows, issued, faults>>

\* Mutant: one try too many.
IsRefusedLate(p) ==
  LET tries == request[p].tries + 1
  IN  request' = [request EXCEPT ![p] =
        IF tries <= MaxTries THEN [Idle EXCEPT !.phase = "refused", !.tries = tries] ELSE Idle]

\* The backoff: another try, or the exception after the last one.
IsRefused(p) ==
  LET tries == request[p].tries + 1
  IN  request' = [request EXCEPT ![p] =
        IF tries < MaxTries THEN [Idle EXCEPT !.phase = "refused", !.tries = tries] ELSE Idle]

Looks(p) ==
  /\ In(p, "stale")
  /\ \/ LookFindsFree(p) /\ Goes(p, "looked")
     \/ LookFindsTaken(p) /\ IsRefused(p)
  /\ UNCHANGED <<rows, issued, faults>>

Creates(p) ==
  /\ In(p, "looked")
  /\ \/ CreateSucceeds(p) /\ Goes(p, "locked")
     \/ CreateFails(p) /\ IsRefused(p)
  /\ UNCHANGED <<rows, issued, faults>>

\* The commit of the lock has expired the row's attributes: they are loaded again, which
\* raises if the row is gone.
Calls(p) ==
  /\ In(p, "locked")
  /\ IF MyRow(p) # {} THEN Goes(p, "calling") /\ UNCHANGED lockVars
     ELSE Ends(p) /\ Abandon(p)
  /\ UNCHANGED <<rows, issued, faults>>

ProviderAnswers(p) ==
  /\ In(p, "calling")
  /\ issued' = issued + 1
  /\ request' = [request EXCEPT ![p].phase = "answered", ![p].got = issued + 1]
  /\ UNCHANGED <<lockVars, rows, faults>>

\* Mutant: the lock is released before the new token is committed.
ReleasesFirst(p) ==
  /\ In(p, "answered")
  /\ IF lock[p] = "held" THEN Release(p) /\ UNCHANGED <<rows, request>>
     ELSE /\ rows' = (rows \ MyRow(p)) \cup
               {[r EXCEPT !.access = request[p].got, !.fresh = TRUE] : r \in MyRow(p)}
          /\ Ends(p) /\ UNCHANGED lockVars
  /\ UNCHANGED <<issued, faults>>

\* Mutant: the row is merged, which inserts it again if it is gone.
StoresAnyway(p) ==
  /\ In(p, "answered")
  /\ Release(p)
  /\ rows' = (rows \ MyRow(p)) \cup
               {[id |-> request[p].row, access |-> request[p].got, fresh |-> TRUE,
                 renewable |-> TRUE]}
  /\ Ends(p) /\ UNCHANGED <<issued, faults>>

\* The new token and the deletion of the lock are committed in one transaction, which
\* fails as a whole if the row is gone.
Stores(p) ==
  /\ In(p, "answered")
  /\ IF MyRow(p) # {} THEN Release(p) ELSE Abandon(p)
  /\ rows' = (rows \ MyRow(p)) \cup
               {[r EXCEPT !.access = request[p].got, !.fresh = TRUE] : r \in MyRow(p)}
  /\ Ends(p) /\ UNCHANGED <<issued, faults>>
----------------------------------------------------------------------------
(* DatabaseRestApi.oauth2: the provider's token, the row there is (or the  *)
(* exception if there are two), and both changes committed later.  The     *)
(* look-up follows the provider's answer with no wait in between.          *)
Granted(p) ==
  /\ p \in Tabs /\ In(p, "idle") /\ issued < MaxIssued
  /\ issued' = issued + 1
  /\ \E old \in IF rows = {} THEN {NoRow} ELSE {r.id : r \in rows} :
       request' = [request EXCEPT ![p] = IF Cardinality(rows) > 1 THEN Idle
         ELSE [Idle EXCEPT !.phase = "granted", !.row = old, !.got = issued + 1]]
  /\ UNCHANGED <<lockVars, rows, faults>>

Replaces(p) ==
  /\ In(p, "granted")
  /\ \E renewable \in BOOLEAN :
       rows' = (rows \ MyRow(p)) \cup
         {[id |-> request[p].got, access |-> request[p].got, fresh |-> TRUE,
           renewable |-> renewable]}
  /\ Ends(p) /\ UNCHANGED <<lockVars, issued, faults>>
----------------------------------------------------------------------------
(* Time and failures. *)
Expires(r) ==
  /\ r.fresh /\ issued < MaxIssued
  /\ rows' = (rows \ {r}) \cup {[r EXCEPT !.fresh = FALSE]}
  /\ UNCHANGED <<lockVars, request, issued, faults>>

Tick == LockTick /\ UNCHANGED <<rows, request, issued, faults>>

Fault == faults < MaxFaults /\ faults' = faults + 1

\* The refresh token was revoked: None is returned from inside the block.
ProviderRefuses(p) ==
  /\ Fault /\ In(p, "calling")
  /\ Release(p) /\ Ends(p) /\ UNCHANGED <<rows, issued>>

\* The call raises or times out, the process dies, or the event logger, which commits
\* an authorisation, fails.
Fails(p) ==
  /\ Fault /\ request[p].phase \in {"locked", "calling", "answered", "granted"}
  /\ IF lock[p] = "held" THEN Abandon(p) ELSE UNCHANGED lockVars
  /\ Ends(p) /\ UNCHANGED <<rows, issued>>

Refreshes(p) ==
  \/ AnswersAtOnce(p) \/ Forgets(p) \/ Deletes(p) \/ FindsStale(p) \/ Looks(p) \/ Creates(p)
  \/ Calls(p) \/ ProviderAnswers(p) \/ Stores(p)

Next ==
  \/ \E p \in Processes :
       Refreshes(p) \/ Granted(p) \/ Replaces(p) \/ ProviderRefuses(p) \/ Fails(p)
  \/ \E r \in rows : Expires(r)
  \/ Tick

Spec == Init /\ [][Next]_vars

\* Charts keep asking, the provider answers, and time passes.
Fairness ==
  /\ \A p \in Processes : WF_vars(Refreshes(p)) /\ WF_vars(Replaces(p))
  /\ WF_vars(Tick)

FairSpec == Spec /\ Fairness
----------------------------------------------------------------------------
TypeOK ==
  /\ LockTypeOK
  /\ rows \subseteq Row /\ request \in [Processes -> Request]
  /\ issued \in Nat /\ faults \in 0 .. MaxFaults

\* A refresh never puts an older access token over a newer one in the same row, as long
\* as nobody has stayed in the lock for longer than its lease.
NoOlderToken ==
  [][\A r \in rows, s \in rows' : r.id = s.id /\ ~ overdue => s.access >= r.access]_vars

\* A row that an authorisation has replaced does not come back with the refresh that was
\* under way for it: as long as the user authorises in one tab at a time, a new row always
\* holds a newer authorisation.
ReplacedStaysReplaced ==
  [][\A s \in rows' : (\A r \in rows : r.id # s.id) => \A r \in rows : r.id < s.id]_vars

\* An expired token that can be refreshed is refreshed or replaced in the end, although
\* locks are left behind by those that failed.
StaleIsRefreshed ==
  (\E r \in rows : r.renewable /\ ~ r.fresh) ~> (\A r \in rows : r.renewable => r.fresh)

\* The docstring of get_oauth2_access_token: "in that case only the first process to
\* acquire the lock will perform the refresh".
RefreshedOnce == [][\A p \in Processes : Calls(p) => \A r \in MyRow(p) : ~ r.fresh]_vars

\* There is one row for a user and a database, as one_or_none expects.
OneRow == Cardinality(rows) <= 1
=============================================================================
