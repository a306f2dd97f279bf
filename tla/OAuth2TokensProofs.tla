-------------------------- MODULE OAuth2TokensProofs --------------------------
(***************************************************************************)
(* Proofs about the distributed lock and the tokens refreshed under it,    *)
(* for any number of processes, tries and failures.                        *)
(***************************************************************************)
EXTENDS OAuth2Tokens, TLAPS

USE DEF lockVars

\* Who holds the lock has the entry, and time left, unless some process was too slow.
EntryOfHolder ==
  ~ overdue => \A p \in Processes : lock[p] = "held" => entry = p /\ lease[p] > 0

\* What a process does to the lock, if anything, is one step of the lock's own.
LockStep ==
  \/ \E p \in Processes :
       LookFindsTaken(p) \/ LookFindsFree(p) \/ CreateSucceeds(p) \/ CreateFails(p)
         \/ Release(p) \/ Abandon(p)
  \/ LockTick \/ UNCHANGED lockVars

LEMMA LockInductive ==
    ASSUME LockTypeOK, EntryOfHolder, LockStep
    PROVE  LockTypeOK' /\ EntryOfHolder'
  <1> USE LockAssumption
  <1>0. /\ entry \in Processes \cup {None} /\ lease \in [Processes -> 0 .. Expiration]
        /\ lock \in [Processes -> {"out", "looked", "held"}] /\ overdue \in BOOLEAN
    BY DEF LockTypeOK
  <1>1. ASSUME NEW p \in Processes, LookFindsTaken(p) PROVE LockTypeOK' /\ EntryOfHolder'
    BY <1>0, <1>1 DEF LookFindsTaken, LockTypeOK, EntryOfHolder
  <1>2. ASSUME NEW p \in Processes, LookFindsFree(p) \/ CreateFails(p) \/ Abandon(p)
        PROVE  LockTypeOK' /\ EntryOfHolder'
    <2>1. /\ lock' = [lock EXCEPT ![p] = "looked"] \/ lock' = [lock EXCEPT ![p] = "out"]
          /\ UNCHANGED <<entry, lease, overdue>>
      BY <1>2 DEF LookFindsFree, CreateFails, Abandon
    <2>2. LockTypeOK'
      BY <1>0, <2>1 DEF LockTypeOK
    <2>3. \A q \in Processes : lock'[q] = "held" => lock[q] = "held"
      BY <1>0, <2>1
    <2> QED
      BY <2>1, <2>2, <2>3 DEF EntryOfHolder
  <1>3. ASSUME NEW p \in Processes, CreateSucceeds(p) PROVE LockTypeOK' /\ EntryOfHolder'
    <2>1. /\ ~ Taken /\ entry' = p /\ lease' = [lease EXCEPT ![p] = Expiration]
          /\ lock' = [lock EXCEPT ![p] = "held"] /\ overdue' = overdue
      BY <1>3 DEF CreateSucceeds
    <2>2. LockTypeOK'
      BY <1>0, <2>1 DEF LockTypeOK
    <2>3. ~ overdue => \A q \in Processes : lock[q] # "held"
      BY <1>0, <2>1 DEF Taken, EntryOfHolder
    <2>4. \A q \in Processes : q # p => lock'[q] = lock[q]
      BY <1>0, <2>1
    <2>5. lease'[p] > 0
      BY <1>0, <2>1
    <2> QED
      BY <2>1, <2>2, <2>3, <2>4, <2>5 DEF EntryOfHolder
  <1>4. ASSUME NEW p \in Processes, Release(p) PROVE LockTypeOK' /\ EntryOfHolder'
    <2>1. /\ lock[p] = "held" /\ entry' = None /\ lock' = [lock EXCEPT ![p] = "out"]
          /\ UNCHANGED <<lease, overdue>>
      BY <1>4 DEF Release
    <2>2. LockTypeOK'
      BY <1>0, <2>1 DEF LockTypeOK
    <2>3. \A q \in Processes : lock'[q] = "held" => q # p /\ lock[q] = "held"
      BY <1>0, <2>1
    <2>4. ~ overdue => \A q \in Processes : lock'[q] # "held"
      BY <2>1, <2>3 DEF EntryOfHolder
    <2> QED
      BY <2>1, <2>2, <2>4 DEF EntryOfHolder
  <1>5. CASE LockTick
    <2>1. /\ lease' = [p \in Processes |-> IF lease[p] = 0 THEN 0 ELSE lease[p] - 1]
          /\ overdue' = (overdue \/ \E p \in Processes : lock[p] = "held" /\ lease[p] <= 1)
          /\ UNCHANGED <<entry, lock>>
      BY <1>5 DEF LockTick
    <2>2. lease' \in [Processes -> 0 .. Expiration] /\ overdue' \in BOOLEAN
      BY <1>0, <2>1
    <2>3. ASSUME ~ overdue', NEW p \in Processes, lock'[p] = "held"
          PROVE  entry' = p /\ lease'[p] > 0
      <3>1. ~ overdue /\ lock[p] = "held" /\ ~ (lease[p] <= 1) /\ lease[p] \in 0 .. Expiration
        BY <1>0, <2>1, <2>3
      <3>2. lease'[p] = lease[p] - 1
        BY <2>1, <3>1
      <3>3. entry' = p
        BY <2>1, <3>1 DEF EntryOfHolder
      <3> QED
        BY <3>1, <3>2, <3>3
    <2> QED
      BY <1>0, <2>1, <2>2, <2>3 DEF LockTypeOK, EntryOfHolder
  <1>6. CASE UNCHANGED lockVars
    BY <1>0, <1>6 DEF LockTypeOK, EntryOfHolder
  <1> QED
    BY <1>1, <1>2, <1>3, <1>4, <1>5, <1>6 DEF LockStep

\* Requests and time do nothing else to the lock.
LEMMA StepsAreLockSteps ==
    ASSUME [Next]_vars
    PROVE  LockStep
  <1>1. ASSUME NEW p \in Processes,
               AnswersAtOnce(p) \/ Deletes(p) \/ Forgets(p) \/ FindsStale(p) \/ ProviderAnswers(p)
                 \/ Granted(p) \/ Replaces(p)
        PROVE  LockStep
    BY <1>1 DEF AnswersAtOnce, Deletes, Forgets, FindsStale, ProviderAnswers, Granted, Replaces,
                LockStep
  <1>2. ASSUME NEW p \in Processes, Looks(p) \/ Creates(p) PROVE LockStep
    BY <1>2 DEF Looks, Creates, LockStep
  <1>3. ASSUME NEW p \in Processes, Calls(p) \/ Stores(p) \/ ProviderRefuses(p) \/ Fails(p)
        PROVE  LockStep
    BY <1>3 DEF Calls, Stores, ProviderRefuses, Fails, LockStep
  <1>4. ASSUME NEW r \in rows, Expires(r) PROVE LockStep
    BY <1>4 DEF Expires, LockStep
  <1>5. CASE Tick
    BY <1>5 DEF Tick, LockStep
  <1>6. CASE UNCHANGED vars
    BY <1>6 DEF vars, LockStep
  <1> QED
    BY <1>1, <1>2, <1>3, <1>4, <1>5, <1>6 DEF Next, Refreshes

\* What the rows, requests and counters look like, lock aside.
TokensTypeOK ==
  /\ rows \subseteq Row /\ request \in [Processes -> Request]
  /\ issued \in Nat /\ faults \in 0 .. MaxFaults

LEMMA RefusedIsTyped ==
    ASSUME TokensTypeOK, NEW p \in Processes, IsRefused(p)
    PROVE  /\ request' \in [Processes -> Request]
           /\ \E r \in Request : /\ request' = [request EXCEPT ![p] = r]
                                /\ r.phase \in {"idle", "refused"} /\ r.row = NoRow /\ r.got = 0
  <1> DEFINE tries == request[p].tries + 1
             new == IF tries < MaxTries THEN [Idle EXCEPT !.phase = "refused", !.tries = tries]
                    ELSE Idle
  <1>1. tries \in Nat
    BY DEF TokensTypeOK, Request
  <1>2. new \in Request /\ new.phase \in {"idle", "refused"} /\ new.row = NoRow /\ new.got = 0
    <2>1. CASE tries < MaxTries
      <3>1. new = [phase |-> "refused", row |-> NoRow, got |-> 0, tries |-> tries]
        BY <2>1 DEF Idle
      <3>2. tries \in 0 .. MaxTries - 1
        BY <1>1, <2>1, TriesAssumption
      <3>3. "refused" \in Phases /\ NoRow \in Nat
        BY DEF Phases, NoRow
      <3> HIDE DEF tries, new
      <3> QED
        BY <3>1, <3>2, <3>3 DEF Request, NoRow
    <2>2. CASE ~ (tries < MaxTries)
      BY <2>2, TriesAssumption DEF Idle, Request, Phases, NoRow
    <2> QED
      BY <2>1, <2>2
  <1>3. request' = [request EXCEPT ![p] = new]
    BY DEF IsRefused
  <1> QED
    BY <1>2, <1>3 DEF TokensTypeOK

LEMMA GrantedRequest ==
    ASSUME NEW old \in Nat, NEW got \in Nat
    PROVE  LET new == [Idle EXCEPT !.phase = "granted", !.row = old, !.got = got]
           IN  new \in Request /\ new.phase = "granted" /\ new.row = old /\ new.got = got
  <1>1. Idle \in Request
    BY TriesAssumption DEF Idle, Request, Phases, NoRow
  <1>2. "granted" \in Phases
    BY DEF Phases
  <1> QED
    BY <1>1, <1>2 DEF Request

\* Rows and requests keep their types.
LEMMA TokensStepIsTyped ==
    ASSUME TokensTypeOK, [Next]_vars
    PROVE  TokensTypeOK'
  <1> USE TriesAssumption
  <1>0. /\ rows \subseteq Row /\ request \in [Processes -> Request]
        /\ issued \in Nat /\ faults \in 0 .. MaxFaults
    BY DEF TokensTypeOK
  <1>i. Idle \in Request
    BY DEF Idle, Request, Phases, NoRow
  <1>e. ASSUME NEW p \in Processes, Ends(p) PROVE request' \in [Processes -> Request]
    BY <1>0, <1>e, <1>i DEF Ends
  <1>g. ASSUME NEW p \in Processes, NEW phase \in Phases, Goes(p, phase)
        PROVE  request' \in [Processes -> Request]
    <2>1. [request[p] EXCEPT !.phase = phase] \in Request
      BY <1>0 DEF Request
    <2> QED
      BY <1>0, <1>g, <2>1 DEF Goes
  <1>1. ASSUME NEW p \in Processes, AnswersAtOnce(p) PROVE TokensTypeOK'
    BY <1>0, <1>1, <1>e DEF AnswersAtOnce, TokensTypeOK
  <1>2. ASSUME NEW p \in Processes, Deletes(p) PROVE TokensTypeOK'
    BY <1>0, <1>2, <1>e DEF Deletes, TokensTypeOK
  <1>3. ASSUME NEW p \in Processes, FindsStale(p) \/ Forgets(p) PROVE TokensTypeOK'
    <2>1. PICK r \in rows, phase \in {"stale", "forgets"} :
                request' = [request EXCEPT ![p].phase = phase, ![p].row = r.id]
      BY <1>3 DEF FindsStale, Forgets
    <2>2. [request[p] EXCEPT !.phase = phase, !.row = r.id] \in Request
      BY <1>0, <2>1 DEF Request, Phases, Row
    <2>3. request' = [request EXCEPT ![p] = [request[p] EXCEPT !.phase = phase, !.row = r.id]]
      BY <1>0, <2>1
    <2>4. request' \in [Processes -> Request]
      BY <1>0, <2>2, <2>3
    <2> QED
      BY <1>0, <1>3, <2>4 DEF FindsStale, Forgets, TokensTypeOK
  <1>4. ASSUME NEW p \in Processes, Looks(p) \/ Creates(p) PROVE TokensTypeOK'
    <2>1. /\ Goes(p, "looked") \/ Goes(p, "locked") \/ IsRefused(p)
          /\ UNCHANGED <<rows, issued, faults>>
      BY <1>4 DEF Looks, Creates
    <2>2. request' \in [Processes -> Request]
      BY <1>0, <1>g, <2>1, RefusedIsTyped DEF Phases, TokensTypeOK
    <2> QED
      BY <1>0, <2>1, <2>2 DEF TokensTypeOK
  <1>5. ASSUME NEW p \in Processes, Calls(p) PROVE TokensTypeOK'
    <2>1. (Goes(p, "calling") \/ Ends(p)) /\ UNCHANGED <<rows, issued, faults>>
      BY <1>5 DEF Calls
    <2> QED
      BY <1>0, <1>e, <1>g, <2>1 DEF Phases, TokensTypeOK
  <1>6. ASSUME NEW p \in Processes, ProviderAnswers(p) PROVE TokensTypeOK'
    <2> DEFINE new == [request[p] EXCEPT !.phase = "answered", !.got = issued + 1]
    <2>0. issued + 1 \in Nat /\ "answered" \in Phases
      BY <1>0 DEF Phases
    <2>1. new \in Request
      BY <1>0, <2>0 DEF Request
    <2>2. request' = [request EXCEPT ![p] = new]
      BY <1>0, <1>6 DEF ProviderAnswers
    <2> HIDE DEF new
    <2>3. request' \in [Processes -> Request]
      BY <1>0, <2>1, <2>2
    <2> QED
      BY <1>0, <1>6, <2>3 DEF ProviderAnswers, TokensTypeOK
  <1>7. ASSUME NEW p \in Processes, Stores(p) PROVE TokensTypeOK'
    <2>1. request[p].got \in Nat
      BY <1>0 DEF Request
    <2>2. \A r \in Row : [r EXCEPT !.access = request[p].got, !.fresh = TRUE] \in Row
      BY <2>1 DEF Row
    <2>3. rows' \subseteq Row
      BY <1>0, <1>7, <2>2 DEF Stores, MyRow
    <2> QED
      BY <1>0, <1>7, <1>e, <2>3 DEF Stores, TokensTypeOK
  <1>8. ASSUME NEW p \in Processes, Granted(p) PROVE TokensTypeOK'
    <2> DEFINE new(old) == [Idle EXCEPT !.phase = "granted", !.row = old, !.got = issued + 1]
               old0 == IF rows = {} THEN {NoRow} ELSE {r.id : r \in rows}
    <2>1. PICK old \in old0 :
              request' = [request EXCEPT ![p] = IF Cardinality(rows) > 1 THEN Idle ELSE new(old)]
      BY <1>8 DEF Granted
    <2>2. old \in Nat
      BY <1>0, <2>1 DEF Row, NoRow
    <2>3. new(old) \in Request
      <3>1. issued + 1 \in Nat
        BY <1>0
      <3> QED
        BY <2>2, <3>1, GrantedRequest
    <2> HIDE DEF new, old0
    <2>4. request' \in [Processes -> Request]
      BY <1>0, <1>i, <2>1, <2>3
    <2> QED
      BY <1>0, <1>8, <2>4 DEF Granted, TokensTypeOK
  <1>9. ASSUME NEW p \in Processes, Replaces(p) PROVE TokensTypeOK'
    <2>1. PICK renewable \in BOOLEAN :
            rows' = (rows \ MyRow(p)) \cup
              {[id |-> request[p].got, access |-> request[p].got, fresh |-> TRUE,
                renewable |-> renewable]}
      BY <1>9 DEF Replaces
    <2>2. [id |-> request[p].got, access |-> request[p].got, fresh |-> TRUE,
           renewable |-> renewable] \in Row
      BY <1>0 DEF Row, Request
    <2> QED
      BY <1>0, <1>9, <1>e, <2>1, <2>2 DEF Replaces, TokensTypeOK
  <1>10. ASSUME NEW r \in rows, Expires(r) PROVE TokensTypeOK'
    <2>1. [r EXCEPT !.fresh = FALSE] \in Row
      BY <1>0 DEF Row
    <2> QED
      BY <1>0, <1>10, <2>1 DEF Expires, TokensTypeOK
  <1>11. ASSUME NEW p \in Processes, ProviderRefuses(p) \/ Fails(p) PROVE TokensTypeOK'
    <2>1. /\ faults < MaxFaults /\ faults' = faults + 1 /\ Ends(p)
          /\ UNCHANGED <<rows, issued>>
      BY <1>11 DEF ProviderRefuses, Fails, Fault
    <2> QED
      BY <1>0, <1>e, <2>1 DEF TokensTypeOK
  <1>12. CASE Tick
    BY <1>0, <1>12 DEF Tick, TokensTypeOK
  <1>13. CASE UNCHANGED vars
    BY <1>0, <1>13 DEF vars, TokensTypeOK
  <1> QED
    BY <1>1, <1>2, <1>3, <1>4, <1>5, <1>6, <1>7, <1>8, <1>9, <1>10, <1>11, <1>12, <1>13
       DEF Next, Refreshes

LEMMA InitIsTyped == Init => TokensTypeOK /\ LockTypeOK /\ EntryOfHolder
  <1> USE LockAssumption, TriesAssumption
  <1>1. ASSUME Init PROVE TokensTypeOK
    <2>1. Idle \in Request
      BY DEF Idle, Request, Phases, NoRow
    <2> QED
      BY <1>1, <2>1 DEF Init, TokensTypeOK
  <1>2. ASSUME Init PROVE LockTypeOK /\ EntryOfHolder
    <2>1. /\ entry = None /\ lease = [p \in Processes |-> 0]
          /\ lock = [p \in Processes |-> "out"] /\ overdue = FALSE
      BY <1>2 DEF Init, LockInit
    <2>2. LockTypeOK
      <3>1. 0 \in 0 .. Expiration
        OBVIOUS
      <3> QED
        BY <2>1, <3>1 DEF LockTypeOK
    <2>3. \A p \in Processes : lock[p] # "held"
      BY <2>1
    <2> QED
      BY <2>2, <2>3 DEF EntryOfHolder
  <1> QED
    BY <1>1, <1>2

\* Every variable keeps its type.
THEOREM TypeCorrect == Spec => []TypeOK
  <1>1. TokensTypeOK /\ LockTypeOK /\ EntryOfHolder /\ [Next]_vars
          => TokensTypeOK' /\ LockTypeOK' /\ EntryOfHolder'
    BY LockInductive, StepsAreLockSteps, TokensStepIsTyped
  <1>2. TokensTypeOK /\ LockTypeOK => TypeOK
    BY DEF TokensTypeOK, TypeOK
  <1> QED
    BY InitIsTyped, <1>1, <1>2, PTL DEF Spec

\* Two processes are never inside together, as long as none stays longer than its lease:
\* a holder's entry is in the table, and not expired, so that nobody can create another.
THEOREM LockIsExclusive == Spec => []Exclusive
  <1>1. LockTypeOK /\ EntryOfHolder /\ [Next]_vars => LockTypeOK' /\ EntryOfHolder'
    BY LockInductive, StepsAreLockSteps
  <1>2. EntryOfHolder => Exclusive
    BY DEF EntryOfHolder, Exclusive
  <1> QED
    BY InitIsTyped, <1>1, <1>2, PTL DEF Spec
----------------------------------------------------------------------------
(* Why a refresh never puts an older token over a newer one. *)

\* Rows are named after tokens that were issued, and each has a name of its own.
Numbered ==
  /\ \A r \in rows : r.id <= issued /\ r.access <= issued
  /\ \A r, s \in rows : r.id = s.id => r = s
  /\ \A p \in Processes : request[p].row <= issued /\ request[p].got <= issued

\* The token of an authorisation that is not committed yet names no row.
Fresh ==
  \A q \in Processes :
    In(q, "granted") =>
      /\ request[q].got # NoRow
      /\ \A r \in rows : r.id # request[q].got
      /\ \A p \in Processes : request[p].row # request[q].got
      /\ \A p \in Processes \ {q} : In(p, "granted") => request[p].got # request[q].got

\* A refresh is under the lock from its creation to the commit.
UnderLock ==
  \A p \in Processes : request[p].phase \in {"locked", "calling", "answered"} => lock[p] = "held"

\* What the provider answered is newer than what is in the row.
NewerThanRow ==
  ~ overdue => \A p \in Processes :
    In(p, "answered") => \A r \in rows : r.id = request[p].row => r.access <= request[p].got

TokenInv == TokensTypeOK /\ LockTypeOK /\ EntryOfHolder /\ Numbered /\ Fresh /\ UnderLock /\ NewerThanRow

\* A request that neither gets a token nor stores one.
LEMMA QuietStep ==
    ASSUME TokenInv, NEW p \in Processes, NEW new \in Request,
           request' = [request EXCEPT ![p] = new], rows' \subseteq rows,
           UNCHANGED <<issued, overdue>>,
           new.phase \notin {"granted", "answered"}, new.got <= issued,
           new.row = NoRow \/ new.row = request[p].row \/ \E r \in rows : new.row = r.id
    PROVE  Numbered' /\ Fresh' /\ NewerThanRow'
  <1>0. /\ rows \subseteq Row /\ request \in [Processes -> Request] /\ issued \in Nat
        /\ Numbered /\ Fresh /\ NewerThanRow
    BY DEF TokenInv, TokensTypeOK
  <1>1. request'[p] = new /\ \A q \in Processes : q # p => request'[q] = request[q]
    BY <1>0
  <1>2. new.row <= issued
    BY <1>0 DEF Numbered, Row, NoRow, Request
  <1>3. Numbered'
    BY <1>0, <1>1, <1>2 DEF Numbered
  <1>4. Fresh'
    <2>1. ASSUME NEW q \in Processes, In(q, "granted")'
          PROVE  /\ q # p /\ In(q, "granted") /\ request'[q] = request[q]
      BY <1>1, <2>1 DEF In
    <2>2. ASSUME NEW q \in Processes, In(q, "granted") PROVE new.row # request[q].got
      BY <1>0, <2>2 DEF Fresh
    <2> QED
      BY <1>0, <1>1, <2>1, <2>2 DEF Fresh
  <1>5. NewerThanRow'
    BY <1>0, <1>1 DEF NewerThanRow, In
  <1> QED
    BY <1>3, <1>4, <1>5

\* A process leaves the lock only when its own refresh is over.
LEMMA UnderLockStep ==
    ASSUME TokensTypeOK, LockTypeOK, UnderLock, [Next]_vars
    PROVE  UnderLock'
  <1> DEFINE Inside == {"locked", "calling", "answered"}
  <1>0. /\ request \in [Processes -> Request]
        /\ lock \in [Processes -> {"out", "looked", "held"}]
    BY DEF TokensTypeOK, LockTypeOK
  <1>o. ASSUME NEW p \in Processes, UNCHANGED lock \/ \E x : lock' = [lock EXCEPT ![p] = x],
               \A q \in Processes : q # p => request'[q] = request[q],
               request'[p].phase \in Inside => lock'[p] = "held"
        PROVE  UnderLock'
    <2>1. \A q \in Processes : q # p => lock'[q] = lock[q]
      BY <1>0, <1>o
    <2> QED
      BY <1>o, <2>1 DEF UnderLock
  <1>e. ASSUME NEW p \in Processes, Ends(p)
        PROVE  /\ request'[p].phase \notin Inside
               /\ \A q \in Processes : q # p => request'[q] = request[q]
    BY <1>0, <1>e DEF Ends, Idle
  <1>g. ASSUME NEW p \in Processes, NEW phase, Goes(p, phase)
        PROVE  /\ request'[p].phase = phase
               /\ \A q \in Processes : q # p => request'[q] = request[q]
    BY <1>0, <1>g DEF Goes, Request
  <1>r. ASSUME NEW p \in Processes, IsRefused(p)
        PROVE  /\ request'[p].phase \notin Inside
               /\ \A q \in Processes : q # p => request'[q] = request[q]
    BY <1>0, <1>r, RefusedIsTyped
  <1>1. ASSUME NEW p \in Processes, AnswersAtOnce(p) \/ Deletes(p) \/ Replaces(p) PROVE UnderLock'
    BY <1>1, <1>e, <1>o DEF AnswersAtOnce, Deletes, Replaces, lockVars
  <1>2. ASSUME NEW p \in Processes, FindsStale(p) \/ Forgets(p) PROVE UnderLock'
    <2>1. PICK phase, id :
                /\ phase \in {"stale", "forgets"}
                /\ request' = [request EXCEPT ![p].phase = phase, ![p].row = id]
      BY <1>2 DEF FindsStale, Forgets
    <2>2. /\ request'[p].phase \in {"stale", "forgets"}
          /\ \A q \in Processes : q # p => request'[q] = request[q]
      BY <1>0, <2>1 DEF Request
    <2> QED
      BY <1>2, <1>o, <2>2 DEF FindsStale, Forgets, lockVars
  <1>3. ASSUME NEW p \in Processes, Looks(p) PROVE UnderLock'
    <2>1. CASE LookFindsFree(p) /\ Goes(p, "looked")
      <3>1. lock' = [lock EXCEPT ![p] = "looked"]
        BY <2>1 DEF LookFindsFree
      <3>2. /\ request'[p].phase \notin Inside
            /\ \A q \in Processes : q # p => request'[q] = request[q]
        BY <1>g, <2>1
      <3> QED
        BY <1>o, <3>1, <3>2
    <2>2. CASE LookFindsTaken(p) /\ IsRefused(p)
      BY <1>r, <1>o, <2>2 DEF LookFindsTaken, lockVars
    <2> QED
      BY <1>3, <2>1, <2>2 DEF Looks
  <1>4. ASSUME NEW p \in Processes, Creates(p) PROVE UnderLock'
    <2>1. CASE CreateSucceeds(p) /\ Goes(p, "locked")
      <3>1. lock' = [lock EXCEPT ![p] = "held"] /\ lock'[p] = "held"
        BY <1>0, <2>1 DEF CreateSucceeds
      <3> QED
        BY <1>g, <1>o, <2>1, <3>1
    <2>2. CASE CreateFails(p) /\ IsRefused(p)
      BY <1>r, <1>o, <2>2 DEF CreateFails
    <2> QED
      BY <1>4, <2>1, <2>2 DEF Creates
  <1>5. ASSUME NEW p \in Processes, Calls(p) PROVE UnderLock'
    <2>1. CASE Goes(p, "calling") /\ UNCHANGED lockVars
      <3>1. lock'[p] = "held"
        BY <1>5, <2>1 DEF Calls, In, UnderLock, lockVars
      <3> QED
        BY <1>g, <1>o, <2>1, <3>1 DEF lockVars
    <2>2. CASE Ends(p) /\ Abandon(p)
      BY <1>e, <1>o, <2>2 DEF Abandon
    <2> QED
      BY <1>5, <2>1, <2>2 DEF Calls
  <1>6. ASSUME NEW p \in Processes, ProviderAnswers(p) PROVE UnderLock'
    <2>1. /\ In(p, "calling") /\ UNCHANGED lock
          /\ request' = [request EXCEPT ![p].phase = "answered", ![p].got = issued + 1]
      BY <1>6 DEF ProviderAnswers, lockVars
    <2>2. \A q \in Processes : q # p => request'[q] = request[q]
      BY <1>0, <2>1
    <2>3. lock'[p] = "held"
      BY <2>1 DEF In, UnderLock
    <2> QED
      BY <1>o, <2>1, <2>2, <2>3
  <1>7. ASSUME NEW p \in Processes, Stores(p) \/ ProviderRefuses(p) \/ Fails(p) PROVE UnderLock'
    <2>1. Ends(p) /\ (UNCHANGED lock \/ \E x : lock' = [lock EXCEPT ![p] = x])
      BY <1>7 DEF Stores, ProviderRefuses, Fails, Release, Abandon, lockVars
    <2> QED
      BY <1>e, <1>o, <2>1
  <1>8. ASSUME NEW p \in Processes, Granted(p) PROVE UnderLock'
    <2>1. PICK old : request' = [request EXCEPT ![p] = IF Cardinality(rows) > 1 THEN Idle
            ELSE [Idle EXCEPT !.phase = "granted", !.row = old, !.got = issued + 1]]
      BY <1>8 DEF Granted
    <2>2. /\ request'[p].phase \notin Inside
          /\ \A q \in Processes : q # p => request'[q] = request[q]
      BY <1>0, <2>1 DEF Idle
    <2> QED
      BY <1>8, <1>o, <2>2 DEF Granted, lockVars
  <1>9. CASE Tick \/ (\E r \in rows : Expires(r)) \/ UNCHANGED vars
    BY <1>9 DEF Tick, LockTick, Expires, vars, lockVars, UnderLock
  <1> QED
    BY <1>1, <1>2, <1>3, <1>4, <1>5, <1>6, <1>7, <1>8, <1>9 DEF Next, Refreshes

LEMMA TokenStep ==
    ASSUME TokenInv, [Next]_vars
    PROVE  TokenInv'
  <1>0. /\ rows \subseteq Row /\ request \in [Processes -> Request] /\ issued \in Nat
        /\ Numbered /\ Fresh /\ NewerThanRow /\ UnderLock /\ EntryOfHolder
    BY DEF TokenInv, TokensTypeOK
  <1>i. Idle \in Request /\ Idle.phase = "idle" /\ Idle.got = 0 /\ Idle.row = NoRow
    BY TriesAssumption DEF Idle, Request, Phases, NoRow
  <1>t. TokensTypeOK' /\ LockTypeOK' /\ EntryOfHolder' /\ UnderLock'
    BY LockInductive, StepsAreLockSteps, TokensStepIsTyped, UnderLockStep DEF TokenInv
  <1> SUFFICES Numbered' /\ Fresh' /\ NewerThanRow'
    BY <1>t DEF TokenInv
  <1>e. ASSUME NEW p \in Processes, Ends(p), rows' \subseteq rows, UNCHANGED <<issued, overdue>>
        PROVE  Numbered' /\ Fresh' /\ NewerThanRow'
    <2>1. request' = [request EXCEPT ![p] = Idle]
      BY <1>e DEF Ends
    <2>2. Idle.got <= issued /\ Idle.phase \notin {"granted", "answered"}
      BY <1>0, <1>i
    <2> QED
      BY <1>e, <1>i, <2>1, <2>2, QuietStep
  <1>g. ASSUME NEW p \in Processes, NEW phase \in {"looked", "locked", "calling"}, Goes(p, phase),
               UNCHANGED <<rows, issued, overdue>>
        PROVE  Numbered' /\ Fresh' /\ NewerThanRow'
    <2> DEFINE new == [request[p] EXCEPT !.phase = phase]
    <2>1. /\ new \in Request /\ new.phase = phase /\ new.got = request[p].got
          /\ new.row = request[p].row
      BY <1>0 DEF Request, Phases
    <2>2. request' = [request EXCEPT ![p] = new]
      BY <1>0, <1>g DEF Goes
    <2>3. new.got <= issued
      BY <1>0, <2>1 DEF Numbered
    <2> HIDE DEF new
    <2> QED
      BY <1>g, <2>1, <2>2, <2>3, QuietStep
  <1>r. ASSUME NEW p \in Processes, IsRefused(p), UNCHANGED <<rows, issued, overdue>>
        PROVE  Numbered' /\ Fresh' /\ NewerThanRow'
    <2>1. PICK r \in Request : /\ request' = [request EXCEPT ![p] = r]
                               /\ r.phase \in {"idle", "refused"} /\ r.row = NoRow /\ r.got = 0
      BY <1>r, RefusedIsTyped DEF TokenInv
    <2>2. r.got <= issued /\ r.phase \notin {"granted", "answered"} /\ rows' \subseteq rows
      BY <1>0, <1>r, <2>1
    <2> QED
      BY <1>r, <2>1, <2>2, QuietStep
  <1>1. ASSUME NEW p \in Processes, AnswersAtOnce(p) \/ Deletes(p)
        PROVE  Numbered' /\ Fresh' /\ NewerThanRow'
    BY <1>1, <1>e DEF AnswersAtOnce, Deletes
  <1>2. ASSUME NEW p \in Processes, FindsStale(p) \/ Forgets(p)
        PROVE  Numbered' /\ Fresh' /\ NewerThanRow'
    <2>1. PICK r \in rows, phase \in {"stale", "forgets"} :
                request' = [request EXCEPT ![p].phase = phase, ![p].row = r.id]
      BY <1>2 DEF FindsStale, Forgets
    <2> DEFINE new == [request[p] EXCEPT !.phase = phase, !.row = r.id]
    <2>2. /\ new \in Request /\ new.phase = phase /\ new.row = r.id
          /\ new.got = request[p].got
      BY <1>0, <2>1 DEF Request, Phases, Row
    <2>3. request' = [request EXCEPT ![p] = new] /\ new.got <= issued
      BY <1>0, <2>1, <2>2 DEF Numbered
    <2> HIDE DEF new
    <2> QED
      BY <1>2, <2>2, <2>3, QuietStep DEF FindsStale, Forgets
  <1>3. ASSUME NEW p \in Processes, Looks(p) \/ Creates(p)
        PROVE  Numbered' /\ Fresh' /\ NewerThanRow'
    <2>1. /\ Goes(p, "looked") \/ Goes(p, "locked") \/ IsRefused(p)
          /\ UNCHANGED <<rows, issued, overdue>>
      BY <1>3 DEF Looks, Creates, LookFindsFree, LookFindsTaken, CreateSucceeds, CreateFails
    <2> QED
      BY <1>g, <1>r, <2>1
  <1>4. ASSUME NEW p \in Processes, Calls(p) PROVE Numbered' /\ Fresh' /\ NewerThanRow'
    <2>1. (Goes(p, "calling") \/ Ends(p)) /\ UNCHANGED <<rows, issued, overdue>>
      BY <1>4 DEF Calls, Abandon
    <2> QED
      BY <1>e, <1>g, <2>1
  <1>5. ASSUME NEW p \in Processes, ProviderRefuses(p) \/ Fails(p)
        PROVE  Numbered' /\ Fresh' /\ NewerThanRow'
    <2>1. Ends(p) /\ UNCHANGED <<rows, issued, overdue>>
      BY <1>5 DEF ProviderRefuses, Fails, Release, Abandon
    <2> QED
      BY <1>e, <2>1
  <1>6. ASSUME NEW p \in Processes, ProviderAnswers(p) PROVE Numbered' /\ Fresh' /\ NewerThanRow'
    <2> DEFINE new == [request[p] EXCEPT !.phase = "answered", !.got = issued + 1]
    <2>1. /\ request' = [request EXCEPT ![p] = new] /\ issued' = issued + 1
          /\ UNCHANGED <<rows, overdue>>
      BY <1>0, <1>6 DEF ProviderAnswers
    <2>2. new.phase = "answered" /\ new.row = request[p].row /\ new.got = issued + 1
      BY <1>0 DEF Request
    <2> HIDE DEF new
    <2>3. request'[p] = new /\ \A q \in Processes : q # p => request'[q] = request[q]
      BY <1>0, <2>1
    <2>4. \A q \in Processes : request[q].row \in Nat /\ request[q].got \in Nat
      BY <1>0 DEF Request
    <2>5. \A r \in rows : r.id \in Nat /\ r.access \in Nat
      BY <1>0 DEF Row
    <2>6. Numbered'
      BY <1>0, <2>1, <2>2, <2>3, <2>4, <2>5 DEF Numbered
    <2>7. Fresh'
      <3>1. ASSUME NEW q \in Processes, In(q, "granted")' PROVE q # p /\ In(q, "granted")
        BY <2>2, <2>3, <3>1 DEF In
      <3> QED
        BY <1>0, <2>1, <2>2, <2>3, <3>1 DEF Fresh
    <2>8. NewerThanRow'
      <3>1. \A r \in rows : r.access <= issued + 1
        BY <1>0, <2>5 DEF Numbered
      <3> QED
        BY <1>0, <2>1, <2>2, <2>3, <3>1 DEF NewerThanRow, In
    <2> QED
      BY <2>6, <2>7, <2>8
  <1>7. ASSUME NEW p \in Processes, Stores(p) PROVE Numbered' /\ Fresh' /\ NewerThanRow'
    <2> DEFINE got == request[p].got
    <2>1. /\ In(p, "answered") /\ Ends(p) /\ UNCHANGED <<issued, overdue>>
          /\ rows' = (rows \ MyRow(p)) \cup
               {[r EXCEPT !.access = got, !.fresh = TRUE] : r \in MyRow(p)}
      BY <1>7 DEF Stores, Release, Abandon
    <2>2. got \in Nat /\ got <= issued
      BY <1>0 DEF Numbered, Request
    <2>3. request'[p] = Idle /\ \A q \in Processes : q # p => request'[q] = request[q]
      BY <1>0, <2>1 DEF Ends
    <2> HIDE DEF got
    <2> DEFINE stored(r) == [r EXCEPT !.access = got, !.fresh = TRUE]
    <2>s. \A r \in rows : stored(r).id = r.id /\ stored(r).access = got
      BY <1>0 DEF Row
    <2>w. rows' = (rows \ MyRow(p)) \cup {stored(r) : r \in MyRow(p)}
      BY <2>1
    <2> HIDE DEF stored
    \* Every row comes from a row of the same name.
    <2>4. ASSUME NEW s \in rows'
          PROVE  \E r \in rows :
                   /\ r.id = s.id
                   /\ (r \notin MyRow(p) /\ s = r) \/ (r \in MyRow(p) /\ s = stored(r))
      BY <2>s, <2>w DEF MyRow
    <2>5. ASSUME NEW s \in rows' PROVE s.id <= issued /\ s.access <= issued
      BY <1>0, <2>2, <2>4, <2>s DEF Numbered
    <2>6. ASSUME NEW s \in rows', NEW t \in rows', s.id = t.id PROVE s = t
      BY <1>0, <2>4, <2>6 DEF Numbered
    <2>7. Numbered'
      <3>1. \A q \in Processes : request'[q].row <= issued /\ request'[q].got <= issued
        BY <1>0, <1>i, <2>3 DEF Numbered, NoRow
      <3> QED
        BY <2>1, <2>5, <2>6, <3>1 DEF Numbered
    <2>8. Fresh'
      <3>1. ASSUME NEW q \in Processes, In(q, "granted")'
            PROVE  q # p /\ In(q, "granted") /\ request'[q] = request[q]
        BY <1>i, <2>3, <3>1 DEF In
      <3>2. ASSUME NEW q \in Processes, In(q, "granted"), NEW s \in rows'
            PROVE  s.id # request[q].got
        BY <1>0, <2>4, <3>2 DEF Fresh
      <3>3. ASSUME NEW q \in Processes, In(q, "granted"), NEW r \in Processes
            PROVE  request'[r].row # request[q].got
        BY <1>0, <1>i, <2>3, <3>3 DEF Fresh
      <3> QED
        BY <1>0, <2>3, <3>1, <3>2, <3>3 DEF Fresh, In
    <2>9. NewerThanRow'
      \* Any other answered refresh is under the lock that p holds.
      <3>1. ASSUME ~ overdue, NEW q \in Processes, q # p, In(q, "answered") PROVE FALSE
        BY <1>0, <2>1, <3>1 DEF In, UnderLock, EntryOfHolder
      <3>2. \A q \in Processes : In(q, "answered")' => q # p /\ In(q, "answered")
        BY <1>i, <2>3 DEF In
      <3> QED
        BY <2>1, <3>1, <3>2 DEF NewerThanRow
    <2> QED
      BY <2>7, <2>8, <2>9
  <1>8. ASSUME NEW p \in Processes, Granted(p) PROVE Numbered' /\ Fresh' /\ NewerThanRow'
    <2> DEFINE olds == IF rows = {} THEN {NoRow} ELSE {r.id : r \in rows}
               new(old) == [Idle EXCEPT !.phase = "granted", !.row = old, !.got = issued + 1]
    <2>1. /\ issued' = issued + 1 /\ UNCHANGED <<rows, overdue>>
          /\ \E old \in olds :
               request' = [request EXCEPT ![p] = IF Cardinality(rows) > 1 THEN Idle ELSE new(old)]
      BY <1>8 DEF Granted
    <2>2. PICK old \in olds :
               request' = [request EXCEPT ![p] = IF Cardinality(rows) > 1 THEN Idle ELSE new(old)]
      BY <2>1
    <2>3. old \in Nat /\ old <= issued /\ (old = NoRow \/ \E r \in rows : old = r.id)
      BY <1>0, <2>2 DEF NoRow, Numbered, Row
    <2>4. issued + 1 \in Nat
      BY <1>0
    <2>5. /\ new(old).phase = "granted" /\ new(old).row = old /\ new(old).got = issued + 1
      BY <2>3, <2>4, GrantedRequest
    <2> HIDE DEF new, olds
    <2>6. /\ request'[p] = Idle \/ request'[p] = new(old)
          /\ \A q \in Processes : q # p => request'[q] = request[q]
      BY <1>0, <2>2
    <2>7. \A q \in Processes : request[q].row \in Nat /\ request[q].got \in Nat
      BY <1>0 DEF Request
    <2>8. \A r \in rows : r.id \in Nat /\ r.access \in Nat
      BY <1>0 DEF Row
    <2>9. \A q \in Processes : request'[q].row <= issued /\ request'[q].got <= issued + 1
      BY <1>0, <1>i, <2>3, <2>5, <2>6, <2>7 DEF Numbered, NoRow
    <2>10. Numbered'
      BY <1>0, <2>1, <2>7, <2>8, <2>9, <2>3, <2>4, <2>5, <2>6, <1>i DEF Numbered, NoRow
    <2>11. Fresh'
      <3>1. ASSUME NEW q \in Processes, In(q, "granted")'
            PROVE  /\ request'[q].got # NoRow
                   /\ \A r \in rows : r.id # request'[q].got
                   /\ \A r \in Processes : request'[r].row # request'[q].got
                   /\ \A r \in Processes \ {q} :
                        In(r, "granted")' => request'[r].got # request'[q].got
        <4>1. CASE q = p
          <5>1. request'[q].got = issued + 1
            BY <1>i, <2>5, <2>6, <3>1, <4>1 DEF In
          <5>2. \A r \in Processes : r # p => request'[r].got <= issued /\ request'[r].got \in Nat
            BY <1>0, <2>6, <2>7 DEF Numbered
          <5>3. \A r \in Processes : request'[r].row \in Nat
            BY <1>i, <2>3, <2>5, <2>6, <2>7 DEF NoRow
          <5> QED
            BY <1>0, <2>8, <2>9, <4>1, <5>1, <5>2, <5>3 DEF Numbered, NoRow
        <4>2. CASE q # p
          <5>1. In(q, "granted") /\ request'[q] = request[q]
            BY <2>6, <3>1, <4>2 DEF In
          <5>2. request'[p].row # request[q].got
            BY <1>0, <1>i, <2>3, <2>5, <2>6, <5>1 DEF Fresh
          <5>3. In(p, "granted")' => request'[p].got # request[q].got
            BY <1>0, <1>i, <2>5, <2>6, <2>7 DEF In, Numbered
          <5>4. \A r \in Processes \ {q} :
                  In(r, "granted")' => request'[r].got # request[q].got
            BY <1>0, <2>6, <5>1, <5>3 DEF Fresh, In
          <5>5. \A r \in Processes : request'[r].row # request[q].got
            BY <1>0, <2>6, <5>1, <5>2 DEF Fresh
          <5> QED
            BY <1>0, <5>1, <5>4, <5>5 DEF Fresh
        <4> QED
          BY <4>1, <4>2
      <3> QED
        BY <2>1, <3>1 DEF Fresh
    <2>12. NewerThanRow'
      BY <1>0, <1>i, <2>1, <2>5, <2>6 DEF NewerThanRow, In
    <2> QED
      BY <2>10, <2>11, <2>12
  <1>9. ASSUME NEW p \in Processes, Replaces(p) PROVE Numbered' /\ Fresh' /\ NewerThanRow'
    <2> DEFINE got == request[p].got
               new(b) == [id |-> got, access |-> got, fresh |-> TRUE, renewable |-> b]
    <2>1. /\ In(p, "granted") /\ Ends(p) /\ UNCHANGED <<issued, overdue>>
          /\ \E b \in BOOLEAN : rows' = (rows \ MyRow(p)) \cup {new(b)}
      BY <1>9 DEF Replaces, lockVars
    <2>2. PICK b \in BOOLEAN : rows' = (rows \ MyRow(p)) \cup {new(b)}
      BY <2>1
    <2>3. request'[p] = Idle /\ \A q \in Processes : q # p => request'[q] = request[q]
      BY <1>0, <2>1 DEF Ends
    <2>4. new(b).id = got /\ new(b).access = got /\ got <= issued
      BY <1>0 DEF Numbered
    <2>5. /\ \A r \in rows : r.id # got
          /\ \A q \in Processes : request[q].row # got
          /\ \A q \in Processes \ {p} : In(q, "granted") => request[q].got # got
      BY <1>0, <2>1 DEF Fresh
    <2> HIDE DEF new, got
    <2>6. Numbered'
      <3>1. \A q \in Processes : request'[q].row <= issued /\ request'[q].got <= issued
        BY <1>0, <1>i, <2>3 DEF Numbered, NoRow
      <3>2. \A r \in rows' : r.id <= issued /\ r.access <= issued
        BY <1>0, <2>2, <2>4 DEF Numbered
      <3>3. \A r, s \in rows' : r.id = s.id => r = s
        BY <1>0, <2>2, <2>4, <2>5 DEF Numbered
      <3> QED
        BY <2>1, <3>1, <3>2, <3>3 DEF Numbered
    <2>7. Fresh'
      <3>1. ASSUME NEW q \in Processes, In(q, "granted")'
            PROVE  q # p /\ In(q, "granted") /\ request'[q] = request[q]
        BY <1>i, <2>3, <3>1 DEF In
      <3>2. ASSUME NEW q \in Processes, q # p, In(q, "granted"), NEW s \in rows'
            PROVE  s.id # request[q].got
        BY <1>0, <2>2, <2>4, <2>5, <3>2 DEF Fresh
      <3>3. ASSUME NEW q \in Processes, In(q, "granted"), NEW r \in Processes
            PROVE  request'[r].row # request[q].got
        BY <1>0, <1>i, <2>3, <3>3 DEF Fresh
      <3> QED
        BY <1>0, <2>3, <3>1, <3>2, <3>3 DEF Fresh, In
    <2>8. NewerThanRow'
      <3>1. ASSUME ~ overdue, NEW q \in Processes, In(q, "answered")', NEW s \in rows',
                   s.id = request'[q].row
            PROVE  s.access <= request'[q].got
        <4>1. q # p /\ request'[q] = request[q] /\ In(q, "answered")
          BY <1>i, <2>3, <3>1 DEF In
        <4>2. s \in rows
          BY <2>2, <2>4, <2>5, <3>1, <4>1
        <4> QED
          BY <1>0, <3>1, <4>1, <4>2 DEF NewerThanRow
      <3> QED
        BY <2>1, <3>1 DEF NewerThanRow
    <2> QED
      BY <2>6, <2>7, <2>8
  <1>10. ASSUME NEW r \in rows, Expires(r) PROVE Numbered' /\ Fresh' /\ NewerThanRow'
    <2> DEFINE new == [r EXCEPT !.fresh = FALSE]
    <2>1. /\ rows' = (rows \ {r}) \cup {new} /\ UNCHANGED <<request, issued, overdue>>
      BY <1>10 DEF Expires, lockVars
    <2>2. new.id = r.id /\ new.access = r.access
      BY <1>0 DEF Row
    <2> HIDE DEF new
    <2>3. \A s \in rows' : \E t \in rows :
             s.id = t.id /\ s.access = t.access /\ (s = t \/ (t = r /\ s = new))
      BY <2>1, <2>2
    <2>4. Numbered'
      BY <1>0, <2>1, <2>2, <2>3 DEF Numbered
    <2>5. Fresh'
      BY <1>0, <2>1, <2>3 DEF Fresh, In
    <2>6. NewerThanRow'
      BY <1>0, <2>1, <2>3 DEF NewerThanRow, In
    <2> QED
      BY <2>4, <2>5, <2>6
  <1>11. CASE Tick
    BY <1>0, <1>11 DEF Tick, LockTick, Numbered, Fresh, NewerThanRow, In
  <1>12. CASE UNCHANGED vars
    BY <1>0, <1>12 DEF vars, Numbered, Fresh, NewerThanRow, In
  <1> QED
    BY <1>1, <1>2, <1>3, <1>4, <1>5, <1>6, <1>7, <1>8, <1>9, <1>10, <1>11, <1>12
       DEF Next, Refreshes

LEMMA InitIsTokenInv == Init => TokenInv
  <1>1. ASSUME Init PROVE Numbered /\ Fresh /\ UnderLock /\ NewerThanRow
    BY <1>1 DEF Init, Numbered, Fresh, UnderLock, NewerThanRow, Idle, NoRow, In
  <1> QED
    BY <1>1, InitIsTyped DEF TokenInv

\* As long as nobody stays in the lock for too long, no refresh puts an older access token
\* over a newer one in a row: the holder's answer is newer than the row, only the holder
\* writes into a row, and an authorisation makes a row of its own.
THEOREM NeverOlderToken == Spec => NoOlderToken
  <1>1. Init => TokenInv
    BY InitIsTokenInv
  <1>2. ASSUME TokenInv, [Next]_vars
        PROVE  [\A r \in rows, s \in rows' : r.id = s.id /\ ~ overdue => s.access >= r.access]_vars
    <2>0. /\ rows \subseteq Row /\ request \in [Processes -> Request]
          /\ Numbered /\ Fresh /\ NewerThanRow
      BY <1>2 DEF TokenInv, TokensTypeOK
    <2>1. ASSUME NEW p \in Processes, Stores(p), NEW r \in rows, NEW s \in rows',
                 r.id = s.id, ~ overdue
          PROVE  s.access >= r.access
      <3>1. PICK t \in rows : /\ t.id = s.id
                              /\ s = t \/ (t \in MyRow(p) /\ s.access = request[p].got)
        BY <2>0, <2>1 DEF Stores, MyRow, Row
      <3>2. t = r /\ r.access \in Nat
        BY <2>0, <2>1, <3>1 DEF Numbered, Row
      <3>3. t \in MyRow(p) => r.access <= request[p].got
        BY <2>0, <2>1, <3>2 DEF Stores, MyRow, NewerThanRow
      <3>4. request[p].got \in Nat
        BY <2>0 DEF Request
      <3> QED
        BY <3>1, <3>2, <3>3, <3>4
    <2>2. ASSUME NEW p \in Processes, Replaces(p), NEW r \in rows, NEW s \in rows', r.id = s.id
          PROVE  s.access >= r.access
      <3>1. s.id # request[p].got
        BY <2>0, <2>2 DEF Replaces, Fresh
      <3>2. s \in rows
        BY <2>2, <3>1 DEF Replaces
      <3> QED
        BY <2>0, <2>2, <3>2 DEF Numbered, Row
    <2>3. ASSUME NEW e \in rows, Expires(e), NEW r \in rows, NEW s \in rows', r.id = s.id
          PROVE  s.access >= r.access
      <3>1. PICK t \in rows : t.id = s.id /\ s.access = t.access
        BY <2>0, <2>3 DEF Expires, Row
      <3> QED
        BY <2>0, <2>3, <3>1 DEF Numbered, Row
    <2>4. ASSUME rows' \subseteq rows, NEW r \in rows, NEW s \in rows', r.id = s.id
          PROVE  s.access >= r.access
      BY <2>0, <2>4 DEF Numbered, Row
    <2>5. ASSUME NEW p \in Processes,
                 AnswersAtOnce(p) \/ Deletes(p) \/ Forgets(p) \/ FindsStale(p) \/ Looks(p)
                   \/ Creates(p) \/ Calls(p) \/ ProviderAnswers(p) \/ Granted(p) \/ ProviderRefuses(p) \/ Fails(p)
          PROVE  rows' \subseteq rows
      BY <2>5 DEF AnswersAtOnce, Deletes, Forgets, FindsStale, Looks, Creates, Calls,
                  ProviderAnswers, Granted, ProviderRefuses, Fails
    <2>6. Tick \/ UNCHANGED vars => rows' \subseteq rows
      BY DEF Tick, vars
    <2> QED
      BY <1>2, <2>1, <2>2, <2>3, <2>4, <2>5, <2>6 DEF Next, Refreshes
  <1> QED
    BY <1>1, <1>2, TokenStep, PTL DEF Spec, NoOlderToken
----------------------------------------------------------------------------
(* Why a row that was replaced does not come back. *)

\* One process at a time serves the user's authorisations.
OneTab == \A p, q \in Tabs : p = q

\* What a tab was granted is newer than every row, and it is a tab that was granted it.
GrantIsNewest ==
  \A q \in Processes :
    In(q, "granted") => q \in Tabs /\ \A r \in rows : r.id < request[q].got

LEMMA GrantStep ==
    ASSUME OneTab, TokenInv, GrantIsNewest, [Next]_vars
    PROVE  GrantIsNewest'
  <1>0. /\ rows \subseteq Row /\ request \in [Processes -> Request]
        /\ issued \in Nat /\ Numbered /\ TokensTypeOK
    BY DEF TokenInv, TokensTypeOK
  <1>k. ASSUME NEW p \in Processes, request'[p].phase # "granted",
               \A q \in Processes : q # p => request'[q] = request[q],
               \A s \in rows' : \E r \in rows : r.id = s.id
        PROVE  GrantIsNewest'
    BY <1>k DEF GrantIsNewest, In
  <1>e. ASSUME NEW p \in Processes, Ends(p)
        PROVE  /\ request'[p].phase # "granted"
               /\ \A q \in Processes : q # p => request'[q] = request[q]
    BY <1>0, <1>e DEF Ends, Idle
  <1>g. ASSUME NEW p \in Processes, NEW phase, phase # "granted", Goes(p, phase)
        PROVE  /\ request'[p].phase # "granted"
               /\ \A q \in Processes : q # p => request'[q] = request[q]
    BY <1>0, <1>g DEF Goes, Request
  <1>1. ASSUME NEW p \in Processes,
               AnswersAtOnce(p) \/ Deletes(p) \/ ProviderRefuses(p) \/ Fails(p)
        PROVE  GrantIsNewest'
    <2>1. Ends(p) /\ rows' \subseteq rows
      BY <1>1 DEF AnswersAtOnce, Deletes, ProviderRefuses, Fails
    <2> QED
      BY <1>k, <1>e, <2>1
  <1>2. ASSUME NEW p \in Processes, FindsStale(p) \/ Forgets(p) PROVE GrantIsNewest'
    <2>1. PICK phase, id :
                /\ phase \in {"stale", "forgets"}
                /\ request' = [request EXCEPT ![p].phase = phase, ![p].row = id]
      BY <1>2 DEF FindsStale, Forgets
    <2>2. /\ request'[p].phase \in {"stale", "forgets"}
          /\ \A q \in Processes : q # p => request'[q] = request[q]
      BY <1>0, <2>1 DEF Request
    <2> QED
      BY <1>2, <1>k, <2>2 DEF FindsStale, Forgets
  <1>3. ASSUME NEW p \in Processes, Looks(p) \/ Creates(p) PROVE GrantIsNewest'
    <2>1. /\ rows' = rows
          /\ Goes(p, "looked") \/ Goes(p, "locked") \/ IsRefused(p)
      BY <1>3 DEF Looks, Creates
    <2>2. CASE IsRefused(p)
      BY <1>0, <1>k, <2>1, <2>2, RefusedIsTyped
    <2> QED
      BY <1>k, <1>g, <2>1, <2>2
  <1>4. ASSUME NEW p \in Processes, Calls(p) PROVE GrantIsNewest'
    <2>1. (Goes(p, "calling") \/ Ends(p)) /\ rows' = rows
      BY <1>4 DEF Calls
    <2> QED
      BY <1>k, <1>g, <1>e, <2>1
  <1>5. ASSUME NEW p \in Processes, ProviderAnswers(p) PROVE GrantIsNewest'
    <2>1. /\ request' = [request EXCEPT ![p].phase = "answered", ![p].got = issued + 1]
          /\ rows' = rows
      BY <1>5 DEF ProviderAnswers
    <2>2. /\ request'[p].phase = "answered"
          /\ \A q \in Processes : q # p => request'[q] = request[q]
      BY <1>0, <2>1 DEF Request
    <2> QED
      BY <1>k, <2>1, <2>2
  <1>6. ASSUME NEW p \in Processes, Stores(p) PROVE GrantIsNewest'
    <2>1. Ends(p) /\ \A s \in rows' : \E r \in rows : r.id = s.id
      BY <1>0, <1>6 DEF Stores, MyRow, Row
    <2> QED
      BY <1>k, <1>e, <2>1
  <1>7. ASSUME NEW p \in Processes, Granted(p) PROVE GrantIsNewest'
    <2>1. /\ p \in Tabs /\ rows' = rows
          /\ \/ request' = [request EXCEPT ![p] = Idle]
             \/ \E old : request' = [request EXCEPT ![p] =
                  [Idle EXCEPT !.phase = "granted", !.row = old, !.got = issued + 1]]
      BY <1>7 DEF Granted
    <2>2. CASE request' = [request EXCEPT ![p] = Idle]
      BY <1>0, <1>k, <2>1, <2>2 DEF Idle
    <2>3. ASSUME NEW old, request' = [request EXCEPT ![p] =
                   [Idle EXCEPT !.phase = "granted", !.row = old, !.got = issued + 1]]
          PROVE  GrantIsNewest'
      <3>1. request'[p].got = issued + 1
        BY <1>0, <2>3 DEF Idle
      <3>2. \A q \in Processes : q # p => request'[q] = request[q]
        BY <1>0, <2>3
      <3>3. \A r \in rows : r.id < request'[p].got
        BY <1>0, <3>1 DEF Numbered, Row
      <3> QED
        BY <2>1, <3>2, <3>3 DEF GrantIsNewest, In
    <2> QED
      BY <2>1, <2>2, <2>3
  <1>8. ASSUME NEW p \in Processes, Replaces(p) PROVE GrantIsNewest'
    <2>1. In(p, "granted") /\ Ends(p)
      BY <1>8 DEF Replaces
    <2>2. \A q \in Processes : request'[q].phase # "granted"
      BY <1>e, <2>1 DEF GrantIsNewest, In, OneTab
    <2> QED
      BY <2>2 DEF GrantIsNewest, In
  <1>9. ASSUME NEW r \in rows, Expires(r) PROVE GrantIsNewest'
    <2>1. request' = request /\ \A s \in rows' : \E t \in rows : t.id = s.id
      BY <1>0, <1>9 DEF Expires, Row
    <2> QED
      BY <2>1 DEF GrantIsNewest, In
  <1>10. CASE Tick \/ UNCHANGED vars
    BY <1>10 DEF Tick, vars, GrantIsNewest, In
  <1> QED
    BY <1>1, <1>2, <1>3, <1>4, <1>5, <1>6, <1>7, <1>8, <1>9, <1>10 DEF Next, Refreshes

\* With one tab that authorises, a row is never followed by an older one: the refresh that
\* was under way for a row that an authorisation replaced does not insert it again.
THEOREM ReplacedAlwaysStaysReplaced ==
    ASSUME OneTab
    PROVE  Spec => ReplacedStaysReplaced
  <1>1. Init => TokenInv
    BY InitIsTokenInv
  <1>2. Init => GrantIsNewest
    BY DEF Init, Idle, In, GrantIsNewest
  <1>3. TokenInv /\ GrantIsNewest /\ [Next]_vars => GrantIsNewest'
    BY GrantStep
  <1>4. ASSUME TokenInv, GrantIsNewest, [Next]_vars
        PROVE  [\A s \in rows' :
                   (\A r \in rows : r.id # s.id) => \A r \in rows : r.id < s.id]_vars
    <2>0. rows \subseteq Row
      BY <1>4 DEF TokenInv, TokensTypeOK
    <2>1. ASSUME NEW p \in Processes, Replaces(p), NEW s \in rows',
                 \A r \in rows : r.id # s.id
          PROVE  \A r \in rows : r.id < s.id
      <3>1. s.id = request[p].got
        BY <2>1 DEF Replaces
      <3> QED
        BY <1>4, <2>1, <3>1 DEF Replaces, GrantIsNewest
    <2>2. ASSUME NEW p \in Processes, Stores(p), NEW s \in rows'
          PROVE  \E r \in rows : r.id = s.id
      BY <2>0, <2>2 DEF Stores, MyRow, Row
    <2>3. ASSUME NEW e \in rows, Expires(e), NEW s \in rows'
          PROVE  \E r \in rows : r.id = s.id
      BY <2>0, <2>3 DEF Expires, Row
    <2>4. ASSUME NEW p \in Processes,
                 AnswersAtOnce(p) \/ Deletes(p) \/ Forgets(p) \/ FindsStale(p) \/ Looks(p)
                   \/ Creates(p) \/ Calls(p) \/ ProviderAnswers(p) \/ Granted(p) \/ ProviderRefuses(p) \/ Fails(p)
          PROVE  rows' \subseteq rows
      BY <2>4 DEF AnswersAtOnce, Deletes, Forgets, FindsStale, Looks, Creates, Calls,
                  ProviderAnswers, Granted, ProviderRefuses, Fails
    <2>5. Tick \/ UNCHANGED vars => rows' \subseteq rows
      BY DEF Tick, vars
    <2> QED
      BY <1>4, <2>1, <2>2, <2>3, <2>4, <2>5 DEF Next, Refreshes
  <1> QED
    BY <1>1, <1>2, <1>3, <1>4, TokenStep, PTL DEF Spec, ReplacedStaysReplaced
=============================================================================
