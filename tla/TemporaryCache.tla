--------------------------- MODULE TemporaryCache ---------------------------
(***************************************************************************)
(* The filter states of one dashboard (superset/commands/dashboard/        *)
(* filter_state) in the metastore cache: an entry per key, and for every   *)
(* context a contextual key that leads to the tab's own key.  A context is *)
(* the session's _id, a hash of address and browser, with the number of    *)
(* the tab: it does not name the user, and users who log in one after the  *)
(* other share it.                                                         *)
(* Every set is an upsert: a query, and later a commit that fails if the   *)
(* row has appeared or gone in between.  Reads see what is committed.      *)
(***************************************************************************)
EXTENDS Naturals

CONSTANTS
  Workers,   \* requests that are served at the same time
  Users,     \* what get_user_id returns
  Contexts,  \* session _id and tab_id of a request
  Tabless,   \* the contexts of requests without a tab_id
  UsersOf,   \* the users whose requests come from each context
  Values,
  Keys,      \* bound: what random_key may return
  None

ASSUME ContextAssumption ==
  /\ Tabless \subseteq Contexts /\ UsersOf \in [Contexts -> SUBSET Users]
  /\ None \notin Keys \cup Values \cup Users

VARIABLES
  entry,    \* the row of every key: owner, value, not expired
  context,  \* the row of every contextual key: a key, not expired
  request,  \* what each worker is doing
  used,     \* keys drawn so far
  acked,    \* history: keys that a create or an update has returned
  removed   \* history: keys whose entry was deleted or has expired

vars == <<entry, context, request, used, acked, removed>>

NoEntry == [owner |-> None, value |-> None, alive |-> FALSE]
NoContext == [key |-> None, alive |-> FALSE]
Entry == [owner : Users, value : Values, alive : BOOLEAN] \cup {NoEntry}
ContextRow == [key : Keys, alive : BOOLEAN] \cup {NoContext}

\* loaded: what the query of an upsert has found, {} before it; the expiry, which is set
\* whatever it was, is left out.
Request ==
  [op : {"none", "create", "update", "get", "delete"},
   step : {"idle", "tab", "entry", "context", "forget", "delete"},
   at : Contexts \cup {None}, key : Keys \cup {None},
   owner : Users \cup {None}, value : Values \cup {None},
   loaded : SUBSET (Entry \cup ContextRow)]
Idle == [op |-> "none", step |-> "idle", at |-> None, key |-> None,
         owner |-> None, value |-> None, loaded |-> {}]

Init ==
  /\ entry = [k \in Keys |-> NoEntry] /\ context = [c \in Contexts |-> NoContext]
  /\ request = [w \in Workers |-> Idle]
  /\ used = {} /\ acked = {} /\ removed = {}

Ends(w) == request' = [request EXCEPT ![w] = Idle]
Goes(w, step) == request' = [request EXCEPT ![w].step = step, ![w].loaded = {}]
Begins(w, r) == request[w] = Idle /\ request' = [request EXCEPT ![w] = r]
----------------------------------------------------------------------------
(* The commands; the keys they are called with are keys that were returned. *)

HasKey(c) == c \notin Tabless /\ context[c].alive

\* The key of the tab, or a new one.
KeysFor(c) == IF HasKey(c) THEN {context[c].key} ELSE Keys \ used

\* CreateFilterStateCommand: the entry first, then the contextual key.  Nothing asks who
\* owns the entry that the tab's key leads to.
Create(w) ==
  \E c \in Contexts, v \in Values : \E u \in UsersOf[c], k \in KeysFor(c) :
    /\ Begins(w, [Idle EXCEPT !.op = "create", !.step = "entry", !.at = c, !.key = k,
                              !.owner = u, !.value = v])
    /\ used' = used \cup {k}
    /\ UNCHANGED <<entry, context, acked, removed>>

\* UpdateFilterStateCommand, if the entry of the key it was called with is there and the
\* user's own, ...
Update(w) ==
  \E c \in Contexts, v \in Values, known \in acked : \E u \in UsersOf[c] :
    /\ entry[known].alive /\ entry[known].owner = u
    /\ Begins(w, [Idle EXCEPT !.op = "update", !.step = "tab", !.at = c, !.owner = u, !.value = v])
    /\ UNCHANGED <<entry, context, used, acked, removed>>

\* Mutant: a tab without a key takes over any key that there is.
TakesKeyOver(w) ==
  LET c == request[w].at
  IN  /\ request[w].step = "tab"
      /\ \E k \in IF HasKey(c) THEN {context[c].key} ELSE acked :
           request' = [request EXCEPT ![w].step = IF HasKey(c) THEN "entry" ELSE "context",
                                      ![w].key = k]
      /\ UNCHANGED <<entry, context, used, acked, removed>>

\* ... writes to the tab's key, which may be another; a new one is made the tab's own
\* before its entry is written.
ReadsTab(w) ==
  LET c == request[w].at
  IN  /\ request[w].step = "tab"
      /\ \E k \in KeysFor(c) :
           /\ request' = [request EXCEPT ![w].step = IF HasKey(c) THEN "entry" ELSE "context",
                                         ![w].key = k]
           /\ used' = used \cup {k}
      /\ UNCHANGED <<entry, context, acked, removed>>

\* GetFilterStateCommand with REFRESH_TIMEOUT_ON_RETRIEVAL: what was read is set again.
Get(w) ==
  \E known \in acked :
    /\ entry[known].alive
    /\ Begins(w, [Idle EXCEPT !.op = "get", !.step = "entry", !.key = known,
                              !.owner = entry[known].owner, !.value = entry[known].value])
    /\ UNCHANGED <<entry, context, used, acked, removed>>

\* DeleteFilterStateCommand: the request has no tab_id, so that the contextual key it
\* deletes is that of its session without a tab.
Delete(w) ==
  \E c \in Tabless, known \in acked :
    /\ entry[known].alive /\ entry[known].owner \in UsersOf[c]
    /\ Begins(w, [Idle EXCEPT !.op = "delete", !.step = "forget", !.at = c, !.key = known])
    /\ UNCHANGED <<entry, context, used, acked, removed>>

DeletesContext(w) ==
  /\ request[w].step = "forget" /\ Goes(w, "delete")
  /\ context' = [context EXCEPT ![request[w].at] = NoContext]
  /\ UNCHANGED <<entry, used, acked, removed>>

DeletesEntry(w) ==
  LET k == request[w].key
  IN  /\ request[w].step = "delete" /\ Ends(w)
      /\ entry' = [entry EXCEPT ![k] = NoEntry] /\ removed' = removed \cup {k}
      /\ UNCHANGED <<context, used, acked>>
----------------------------------------------------------------------------
(* SupersetMetastoreCache.set: KeyValueDAO.upsert_entry and the commit. *)
Looks(w) ==
  LET r == request[w]
  IN  /\ r.step \in {"entry", "context"} /\ r.loaded = {}
      /\ LET row == IF r.step = "entry" THEN entry[r.key] ELSE context[r.at]
         IN  request' = [request EXCEPT ![w].loaded = {[row EXCEPT !.alive = FALSE]}]
      /\ UNCHANGED <<entry, context, used, acked, removed>>

\* The row that was updated is gone, or the one that was inserted is there: an error 500.
Fails(w) ==
  LET r == request[w]
  IN  /\ \/ r.step = "entry" /\ r.loaded # {} /\ (r.loaded = {NoEntry}) # (entry[r.key] = NoEntry)
         \/ r.step = "context" /\ r.loaded # {} /\ (r.loaded = {NoContext}) # (context[r.at] = NoContext)
      /\ Ends(w) /\ UNCHANGED <<entry, context, used, acked, removed>>

\* Only what differs from the loaded row is written; the expiry always does.
Merged(r, row) ==
  IF \E old \in r.loaded : old # NoEntry /\ old.owner = r.owner /\ old.value = r.value
  THEN [row EXCEPT !.alive = TRUE]
  ELSE [owner |-> r.owner, value |-> r.value, alive |-> TRUE]

\* Mutant: a retrieval goes on to set a contextual key.
GoesOnToContext(w) ==
  LET r == request[w]
  IN  /\ r.step = "entry" /\ r.loaded # {} /\ (r.loaded = {NoEntry}) = (entry[r.key] = NoEntry)
      /\ entry' = [entry EXCEPT ![r.key] = Merged(r, entry[r.key])]
      /\ IF r.op # "update" THEN Goes(w, "context") ELSE Ends(w)
      /\ UNCHANGED <<context, used, acked, removed>>

WritesEntry(w) ==
  LET r == request[w]
  IN  /\ r.step = "entry" /\ r.loaded # {} /\ (r.loaded = {NoEntry}) = (entry[r.key] = NoEntry)
      /\ entry' = [entry EXCEPT ![r.key] = Merged(r, entry[r.key])]
      /\ IF r.op = "create" THEN Goes(w, "context") ELSE Ends(w)
      /\ acked' = IF r.op = "update" THEN acked \cup {r.key} ELSE acked
      /\ UNCHANGED <<context, used, removed>>

\* Mutant: an update returns once it has a new key.
ReturnsEarly(w) ==
  LET r == request[w]
  IN  /\ r.step = "context" /\ r.loaded # {}
      /\ (r.loaded = {NoContext}) = (context[r.at] = NoContext)
      /\ context' = [context EXCEPT ![r.at] = [key |-> r.key, alive |-> TRUE]]
      /\ Ends(w) /\ acked' = acked \cup {r.key}
      /\ UNCHANGED <<entry, used, removed>>

\* A row whose value the upsert need not change keeps the key it has by now.
WritesContext(w) ==
  LET r == request[w]
      same == \E old \in r.loaded : old # NoContext /\ old.key = r.key
  IN  /\ r.step = "context" /\ r.loaded # {}
      /\ (r.loaded = {NoContext}) = (context[r.at] = NoContext)
      /\ context' = [context EXCEPT ![r.at] =
                       [key |-> IF same THEN context[r.at].key ELSE r.key, alive |-> TRUE]]
      /\ IF r.op = "update" THEN Goes(w, "entry") ELSE Ends(w)
      /\ acked' = IF r.op = "create" THEN acked \cup {r.key} ELSE acked
      /\ UNCHANGED <<entry, used, removed>>

ExpiresEntry(k) ==
  /\ entry[k].alive
  /\ entry' = [entry EXCEPT ![k].alive = FALSE] /\ removed' = removed \cup {k}
  /\ UNCHANGED <<context, request, used, acked>>

ExpiresContext(c) ==
  /\ context[c].alive
  /\ context' = [context EXCEPT ![c].alive = FALSE]
  /\ UNCHANGED <<entry, request, used, acked, removed>>

Next ==
  \/ \E w \in Workers :
       \/ Create(w) \/ Update(w) \/ ReadsTab(w) \/ Get(w)
       \/ Delete(w) \/ DeletesContext(w) \/ DeletesEntry(w)
       \/ Looks(w) \/ Fails(w) \/ WritesEntry(w) \/ WritesContext(w)
  \/ \E k \in Keys : ExpiresEntry(k)
  \/ \E c \in Contexts : ExpiresContext(c)

Spec == Init /\ [][Next]_vars
----------------------------------------------------------------------------
\* Types, and which requests set a contextual key.
TypeOK ==
  /\ entry \in [Keys -> Entry] /\ context \in [Contexts -> ContextRow]
  /\ request \in [Workers -> Request]
  /\ \A w \in Workers : request[w].step = "context" => request[w].op \in {"create", "update"}
  /\ used \subseteq Keys /\ acked \subseteq used /\ removed \subseteq Keys

\* A key stays with the tab it was drawn for, whoever has read, updated or revived the
\* entry under it: no other context leads to it, and the entry is of a user of that tab.
KeysStayInTheirTab ==
  \A c \in Contexts : context[c] # NoContext =>
    LET k == context[c].key
    IN  /\ \A d \in Contexts \ {c} : context[d].key # k
        /\ entry[k] # NoEntry => entry[k].owner \in UsersOf[c]

\* The message of TemporaryCacheAccessDeniedError, "You don't have permission to modify the
\* value": users do not write over each other's entries.
OwnersKeepTheirEntries ==
  [][\A k \in Keys : entry[k] # NoEntry /\ entry'[k] # NoEntry => entry'[k].owner = entry[k].owner]_vars

\* A key that was returned leads to an entry until it is deleted or expires, whatever
\* conflicts there were in between.
AckedKeyServes == \A k \in acked \ removed : entry[k].alive

\* The comment on REFRESH_TIMEOUT_ON_RETRIEVAL in config.py: the option has "the timeout
\* be reset when retrieving a cached value", and nothing else: a retrieval leaves owner
\* and value of every entry alone.
RetrievalOnlyResetsTimeout ==
  [][\A w \in Workers : request[w].op = "get" /\ WritesEntry(w) =>
       \A k \in Keys : entry[k] # NoEntry => entry'[k].value = entry[k].value]_vars
=============================================================================
