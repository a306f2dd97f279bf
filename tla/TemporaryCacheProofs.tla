------------------------- MODULE TemporaryCacheProofs -------------------------
(***************************************************************************)
(* Proofs about the filter states in the metastore cache, for any number   *)
(* of workers, users, tabs, keys and values.                               *)
(***************************************************************************)
EXTENDS TemporaryCache, TLAPS

\* Context c stands for key k: its contextual key leads to k, or a request is about to set
\* k in c.
Stands(k, c) ==
  \/ context[c].key = k
  \/ \E w \in Workers : /\ request[w].step \in {"entry", "context"}
                        /\ request[w].op \in {"create", "update"}
                        /\ request[w].at = c /\ request[w].key = k

\* Key k names user u: its entry is of u, or a request is about to set it in u's name.
Names(k, u) ==
  \/ entry[k] # NoEntry /\ entry[k].owner = u
  \/ \E w \in Workers : /\ request[w].step \in {"entry", "context"}
                        /\ request[w].key = k /\ request[w].owner = u

\* Nobody stands for a key that has not been drawn, and one context at most for any; a key
\* names only users of the context that stands for it.
OneHolder ==
  /\ \A k \in Keys, c, d \in Contexts : Stands(k, c) => k \in used /\ (Stands(k, d) => c = d)
  /\ \A k \in Keys, u \in Users : Names(k, u) =>
       k \in used /\ \A c \in Contexts : Stands(k, c) => u \in UsersOf[c]

\* A request that may set a contextual key sets it in a context of its own user's.
OwnTab ==
  \A w \in Workers :
    request[w].op \in {"create", "update"} => /\ request[w].at \in Contexts
                                             /\ request[w].owner \in UsersOf[request[w].at]

\* A request that sets something does so in the name of a user.
Sets ==
  \A w \in Workers :
    request[w].step \in {"tab", "entry", "context"} =>
      request[w].owner \in Users /\ request[w].value \in Values

\* What the requests under way know.
RequestsKnow ==
  /\ OwnTab /\ Sets
  /\ \A w \in Workers : /\ request[w].step \notin {"idle", "tab"} => request[w].key \in used
                        /\ request[w].step = "tab" => request[w].op = "update"

LEMMA Nothing ==
    /\ NoEntry \in Entry /\ NoContext \in ContextRow /\ Idle \in Request
    /\ \A o \in Users, v \in Values : NoEntry # [owner |-> o, value |-> v, alive |-> TRUE]
    /\ \A e \in Entry : e # NoEntry => e.owner \in Users /\ e.value \in Values /\ e.alive \in BOOLEAN
    /\ \A r \in ContextRow : r # NoContext => r.key \in Keys /\ r.alive \in BOOLEAN
    /\ None \notin Keys /\ None \notin Users /\ None \notin Values
    /\ \A c \in Contexts : UsersOf[c] \subseteq Users
  BY ContextAssumption DEF NoEntry, NoContext, Entry, ContextRow, Idle, Request

\* A row that is not there is the same whether it has expired or not.
LEMMA NothingExpires ==
    [NoEntry EXCEPT !.alive = FALSE] = NoEntry /\ [NoContext EXCEPT !.alive = FALSE] = NoContext
  <1>1. /\ NoEntry \in [owner : {None}, value : {None}, alive : {FALSE}]
        /\ NoContext \in [key : {None}, alive : {FALSE}]
    BY DEF NoEntry, NoContext
  <1>2. ASSUME NEW r \in [owner : {None}, value : {None}, alive : {FALSE}]
        PROVE  [r EXCEPT !.alive = FALSE] = r
    OBVIOUS
  <1>3. ASSUME NEW r \in [key : {None}, alive : {FALSE}] PROVE [r EXCEPT !.alive = FALSE] = r
    OBVIOUS
  <1> QED
    BY <1>1, <1>2, <1>3

\* The row that an upsert leaves is an entry of the request's user, or the row of an
\* earlier set in the same name, revived.
LEMMA MergedIsEntry ==
    ASSUME NEW r, r.owner \in Users, r.value \in Values, NEW row \in Entry,
           (r.loaded = {NoEntry}) = (row = NoEntry)
    PROVE  /\ Merged(r, row) \in Entry /\ Merged(r, row) # NoEntry
           /\ Merged(r, row).alive
           /\ Merged(r, row).owner = r.owner \/ (row # NoEntry /\ Merged(r, row).owner = row.owner)
  <1>1. CASE \E old \in r.loaded : old # NoEntry /\ old.owner = r.owner /\ old.value = r.value
    <2>1. row # NoEntry /\ Merged(r, row) = [row EXCEPT !.alive = TRUE]
      BY <1>1 DEF Merged
    <2>2. row \in [owner : Users, value : Values, alive : BOOLEAN]
      BY <2>1 DEF Entry
    <2>3. /\ Merged(r, row) \in [owner : Users, value : Values, alive : BOOLEAN]
          /\ Merged(r, row).alive /\ Merged(r, row).owner = row.owner
      BY <2>1, <2>2
    <2>4. Merged(r, row) # NoEntry
      BY <2>3 DEF NoEntry
    <2> QED
      BY <2>1, <2>3, <2>4 DEF Entry
  <1>2. CASE ~ \E old \in r.loaded : old # NoEntry /\ old.owner = r.owner /\ old.value = r.value
    <2> DEFINE new == [owner |-> r.owner, value |-> r.value, alive |-> TRUE]
    <2>1. Merged(r, row) = new
      BY <1>2 DEF Merged
    <2>2. new \in [owner : Users, value : Values, alive : BOOLEAN] /\ new.alive /\ new.owner = r.owner
      OBVIOUS
    <2>3. new # NoEntry
      BY DEF NoEntry
    <2> QED
      BY <2>1, <2>2, <2>3 DEF Entry
  <1> QED
    BY <1>1, <1>2

\* Every variable keeps its type, only creates and updates set a contextual key, and
\* requests know what they are about to set.
LEMMA TypesAndRequests == Spec => [](TypeOK /\ RequestsKnow)
  <1>1. Init => TypeOK /\ RequestsKnow
    <2>1. ASSUME Init PROVE TypeOK
      BY <2>1, Nothing DEF Init, TypeOK, Idle
    <2>2. ASSUME Init PROVE RequestsKnow
      BY <2>2 DEF Init, RequestsKnow, OwnTab, Sets, Idle
    <2> QED
      BY <2>1, <2>2
  <1>2. ASSUME TypeOK, RequestsKnow, [Next]_vars PROVE TypeOK' /\ RequestsKnow'
    <2>0. /\ entry \in [Keys -> Entry] /\ context \in [Contexts -> ContextRow]
          /\ request \in [Workers -> Request]
          /\ used \subseteq Keys /\ acked \subseteq used /\ removed \subseteq Keys
          /\ \A w \in Workers : request[w].step = "context" => request[w].op \in {"create", "update"}
      BY <1>2 DEF TypeOK
    <2>k. ASSUME NEW c \in Contexts, HasKey(c) PROVE context[c].key \in Keys
      BY <2>0, <2>k, Nothing DEF HasKey, NoContext
    \* A request that is replaced by one of the right form.
    <2>r. ASSUME NEW w \in Workers, NEW r \in Request, request' = [request EXCEPT ![w] = r],
                 used \subseteq used',
                 r.step = "context" => r.op \in {"create", "update"},
                 r.op \in {"create", "update"} => r.at \in Contexts /\ r.owner \in UsersOf[r.at],
                 r.step \in {"tab", "entry", "context"} =>
                   r.owner \in Users /\ r.value \in Values,
                 r.step \notin {"idle", "tab"} => r.key \in used',
                 r.step = "tab" => r.op = "update"
          PROVE  /\ request' \in [Workers -> Request] /\ RequestsKnow'
                 /\ \A v \in Workers : request'[v].step = "context" =>
                                        request'[v].op \in {"create", "update"}
      <3>1. request' \in [Workers -> Request]
        BY <2>0, <2>r
      <3>2. request'[w] = r /\ \A v \in Workers : v # w => request'[v] = request[v]
        BY <2>0, <2>r
      <3>3. OwnTab'
        BY <1>2, <2>r, <3>2 DEF RequestsKnow, OwnTab
      <3>4. Sets'
        BY <1>2, <2>r, <3>2 DEF RequestsKnow, Sets
      <3>5. \A v \in Workers :
              /\ request'[v].step \notin {"idle", "tab"} => request'[v].key \in used'
              /\ request'[v].step = "tab" => request'[v].op = "update"
        BY <1>2, <2>r, <3>2 DEF RequestsKnow
      <3> QED
        BY <2>0, <2>r, <3>1, <3>2, <3>3, <3>4, <3>5 DEF RequestsKnow
    \* The two shapes of a request that goes on.
    <2>g. ASSUME NEW w \in Workers, NEW step \in {"entry", "context"}, Goes(w, step),
                 request[w].op \in {"create", "update"},
                 request[w].step \in {"entry", "context"}, used \subseteq used'
          PROVE  /\ request' \in [Workers -> Request] /\ RequestsKnow'
                 /\ \A v \in Workers : request'[v].step = "context" =>
                                        request'[v].op \in {"create", "update"}
      <3> DEFINE old == request[w]
                 new == [old EXCEPT !.step = step, !.loaded = {}]
      <3>1. old \in Request /\ old.op \in {"create", "update"}
            /\ old.at \in Contexts /\ old.owner \in UsersOf[old.at]
            /\ old.key \in used /\ old.key \in Keys
            /\ old.owner \in Users /\ old.value \in Values
        BY <1>2, <2>0, <2>g DEF RequestsKnow, OwnTab, Sets
      <3>2. /\ new \in Request /\ new.op = old.op /\ new.at = old.at /\ new.key = old.key
            /\ new.owner = old.owner /\ new.value = old.value /\ new.step = step
        BY <3>1 DEF Request
      <3>3. request' = [request EXCEPT ![w] = new]
        BY <2>0, <2>g DEF Goes
      <3> HIDE DEF old, new
      <3> QED
        BY <2>g, <2>r, <3>1, <3>2, <3>3
    <2>e. ASSUME NEW w \in Workers, Ends(w), used \subseteq used'
          PROVE  /\ request' \in [Workers -> Request] /\ RequestsKnow'
                 /\ \A v \in Workers : request'[v].step = "context" =>
                                        request'[v].op \in {"create", "update"}
      <3>1. Idle \in Request /\ Idle.op = "none" /\ Idle.step = "idle"
        BY Nothing DEF Idle
      <3>2. request' = [request EXCEPT ![w] = Idle]
        BY <2>e DEF Ends
      <3> HIDE DEF Idle
      <3> QED
        BY <2>e, <2>r, <3>1, <3>2
    \* The entry or the contextual key that is written.
    <2>w. ASSUME NEW w \in Workers, request[w].step = "entry",
                 (request[w].loaded = {NoEntry}) = (entry[request[w].key] = NoEntry)
          PROVE  [entry EXCEPT ![request[w].key] = Merged(request[w], entry[request[w].key])]
                   \in [Keys -> Entry]
      <3>1. /\ request[w].key \in Keys /\ request[w].owner \in Users
            /\ request[w].value \in Values /\ entry[request[w].key] \in Entry
        BY <1>2, <2>0, <2>w DEF RequestsKnow, Sets
      <3>2. Merged(request[w], entry[request[w].key]) \in Entry
        BY <2>w, <3>1, MergedIsEntry
      <3> QED
        BY <2>0, <3>1, <3>2
    <2>1. ASSUME NEW w \in Workers, Create(w) PROVE TypeOK' /\ RequestsKnow'
      <3> DEFINE new(c, v, u, k) ==
                   [Idle EXCEPT !.op = "create", !.step = "entry", !.at = c, !.key = k,
                                !.owner = u, !.value = v]
      <3>1. PICK c \in Contexts, v \in Values : \E u \in UsersOf[c], k \in KeysFor(c) :
              /\ Begins(w, new(c, v, u, k))
              /\ used' = used \cup {k} /\ UNCHANGED <<entry, context, acked, removed>>
        BY <2>1 DEF Create
      <3>2. PICK u \in UsersOf[c], k \in KeysFor(c) :
              /\ Begins(w, new(c, v, u, k))
              /\ used' = used \cup {k} /\ UNCHANGED <<entry, context, acked, removed>>
        BY <3>1
      <3>3. k \in Keys /\ k \in used' /\ u \in Users
        BY <2>k, <3>2, Nothing DEF KeysFor
      <3>4. /\ new(c, v, u, k) \in Request /\ new(c, v, u, k).op = "create"
            /\ new(c, v, u, k).step = "entry" /\ new(c, v, u, k).at = c
            /\ new(c, v, u, k).key = k
            /\ new(c, v, u, k).owner = u /\ new(c, v, u, k).value = v
        BY <3>3 DEF Idle, Request
      <3>5. request' = [request EXCEPT ![w] = new(c, v, u, k)] /\ used \subseteq used'
        BY <3>2 DEF Begins
      <3> HIDE DEF new
      <3>6. /\ request' \in [Workers -> Request] /\ RequestsKnow'
            /\ \A x \in Workers : request'[x].step = "context" =>
                                   request'[x].op \in {"create", "update"}
        BY <2>r, <3>3, <3>4, <3>5
      <3> QED
        BY <2>0, <3>2, <3>3, <3>6 DEF TypeOK
    <2>2. ASSUME NEW w \in Workers, Update(w) PROVE TypeOK' /\ RequestsKnow'
      <3> DEFINE new(c, v, u) ==
                   [Idle EXCEPT !.op = "update", !.step = "tab", !.at = c, !.owner = u, !.value = v]
      <3>1. PICK c \in Contexts, v \in Values : \E u \in UsersOf[c] :
              Begins(w, new(c, v, u)) /\ UNCHANGED <<entry, context, used, acked, removed>>
        BY <2>2 DEF Update
      <3>2. PICK u \in UsersOf[c] :
              Begins(w, new(c, v, u)) /\ UNCHANGED <<entry, context, used, acked, removed>>
        BY <3>1
      <3>3. u \in Users
        BY <3>2, Nothing
      <3>4. /\ new(c, v, u) \in Request /\ new(c, v, u).op = "update"
            /\ new(c, v, u).step = "tab" /\ new(c, v, u).at = c
            /\ new(c, v, u).owner = u /\ new(c, v, u).value = v
        BY <3>3 DEF Idle, Request
      <3>5. request' = [request EXCEPT ![w] = new(c, v, u)] /\ used \subseteq used'
        BY <3>2 DEF Begins
      <3> HIDE DEF new
      <3>6. /\ request' \in [Workers -> Request] /\ RequestsKnow'
            /\ \A x \in Workers : request'[x].step = "context" =>
                                   request'[x].op \in {"create", "update"}
        BY <2>r, <3>2, <3>3, <3>4, <3>5
      <3> QED
        BY <2>0, <3>2, <3>6 DEF TypeOK
    <2>2a. ASSUME NEW w \in Workers, ReadsTab(w) PROVE TypeOK' /\ RequestsKnow'
      <3> DEFINE old == request[w]
                 first == IF HasKey(old.at) THEN "entry" ELSE "context"
                 new(k) == [old EXCEPT !.step = first, !.key = k]
      <3>1. PICK k \in KeysFor(old.at) :
              /\ request' = [request EXCEPT ![w].step = first, ![w].key = k]
              /\ used' = used \cup {k} /\ UNCHANGED <<entry, context, acked, removed>>
        BY <2>2a DEF ReadsTab
      <3>2. /\ old \in Request /\ old.op = "update" /\ old.owner \in Users
            /\ old.value \in Values /\ old.at \in Contexts /\ old.owner \in UsersOf[old.at]
        BY <1>2, <2>0, <2>2a DEF ReadsTab, RequestsKnow, OwnTab, Sets
      <3>3. k \in Keys /\ k \in used' /\ first \in {"entry", "context"}
        BY <2>k, <3>1, <3>2 DEF KeysFor
      <3>4. request' = [request EXCEPT ![w] = new(k)] /\ used \subseteq used'
        BY <2>0, <3>1
      <3> HIDE DEF first, old
      <3>5. /\ new(k) \in Request /\ new(k).op = "update" /\ new(k).at = old.at
            /\ new(k).step \in {"entry", "context"} /\ new(k).key = k
            /\ new(k).owner = old.owner /\ new(k).value = old.value
        BY <3>2, <3>3 DEF Request
      <3> HIDE DEF new
      <3>6. /\ request' \in [Workers -> Request] /\ RequestsKnow'
            /\ \A x \in Workers : request'[x].step = "context" =>
                                   request'[x].op \in {"create", "update"}
        BY <2>r, <3>2, <3>3, <3>4, <3>5
      <3> QED
        BY <2>0, <3>1, <3>3, <3>6 DEF TypeOK
    <2>3. ASSUME NEW w \in Workers, Get(w) PROVE TypeOK' /\ RequestsKnow'
      <3> DEFINE new(k) == [Idle EXCEPT !.op = "get", !.step = "entry", !.key = k,
                              !.owner = entry[k].owner, !.value = entry[k].value]
      <3>1. PICK k \in acked :
              /\ entry[k].alive /\ Begins(w, new(k))
              /\ UNCHANGED <<entry, context, used, acked, removed>>
        BY <2>3 DEF Get
      <3>2. k \in Keys /\ k \in used' /\ entry[k].owner \in Users /\ entry[k].value \in Values
        BY <2>0, <3>1, Nothing DEF NoEntry
      <3>3. /\ new(k) \in Request /\ new(k).op = "get" /\ new(k).step = "entry"
            /\ new(k).key = k /\ new(k).owner = entry[k].owner
            /\ new(k).value = entry[k].value
        BY <3>2 DEF Idle, Request
      <3>4. request' = [request EXCEPT ![w] = new(k)] /\ used \subseteq used'
        BY <3>1 DEF Begins
      <3> HIDE DEF new
      <3>5. /\ request' \in [Workers -> Request] /\ RequestsKnow'
            /\ \A x \in Workers : request'[x].step = "context" =>
                                   request'[x].op \in {"create", "update"}
        BY <2>r, <3>2, <3>3, <3>4
      <3> QED
        BY <2>0, <3>1, <3>5 DEF TypeOK
    <2>4. ASSUME NEW w \in Workers, Delete(w) PROVE TypeOK' /\ RequestsKnow'
      <3> DEFINE new(c, k) == [Idle EXCEPT !.op = "delete", !.step = "forget", !.at = c, !.key = k]
      <3>1. PICK c \in Tabless, k \in acked :
              Begins(w, new(c, k)) /\ UNCHANGED <<entry, context, used, acked, removed>>
        BY <2>4 DEF Delete
      <3>2. k \in Keys /\ k \in used /\ c \in Contexts
        BY <2>0, <3>1, ContextAssumption
      <3>3. /\ new(c, k) \in Request /\ new(c, k).op = "delete" /\ new(c, k).step = "forget"
            /\ new(c, k).key = k
        BY <3>2 DEF Idle, Request
      <3>4. request' = [request EXCEPT ![w] = new(c, k)] /\ used \subseteq used'
        BY <3>1 DEF Begins
      <3> HIDE DEF new
      <3>5. /\ request' \in [Workers -> Request] /\ RequestsKnow'
            /\ \A x \in Workers : request'[x].step = "context" =>
                                   request'[x].op \in {"create", "update"}
        BY <2>r, <3>1, <3>2, <3>3, <3>4
      <3> QED
        BY <2>0, <3>1, <3>5 DEF TypeOK
    <2>4a. ASSUME NEW w \in Workers, DeletesContext(w) PROVE TypeOK' /\ RequestsKnow'
      <3> DEFINE old == request[w]
                 new == [old EXCEPT !.step = "delete", !.loaded = {}]
      <3>1. /\ old.step = "forget" /\ Goes(w, "delete")
            /\ context' = [context EXCEPT ![old.at] = NoContext]
            /\ UNCHANGED <<entry, used, acked, removed>>
        BY <2>4a DEF DeletesContext
      <3>2. /\ old \in Request /\ old.key \in used
            /\ old.op \in {"create", "update"} => old.at \in Contexts /\ old.owner \in UsersOf[old.at]
        BY <1>2, <2>0, <3>1 DEF RequestsKnow, OwnTab
      <3>3. request' = [request EXCEPT ![w] = new]
        BY <2>0, <3>1 DEF Goes
      <3> HIDE DEF old
      <3>4. /\ new \in Request /\ new.op = old.op /\ new.at = old.at /\ new.key = old.key
            /\ new.owner = old.owner /\ new.step = "delete"
        BY <3>2 DEF Request
      <3> HIDE DEF new
      <3>5. /\ request' \in [Workers -> Request] /\ RequestsKnow'
            /\ \A x \in Workers : request'[x].step = "context" =>
                                   request'[x].op \in {"create", "update"}
        BY <2>r, <3>1, <3>2, <3>3, <3>4
      <3>6. context' \in [Contexts -> ContextRow]
        BY <2>0, <3>1, Nothing
      <3> QED
        BY <2>0, <3>1, <3>5, <3>6 DEF TypeOK
    <2>5. ASSUME NEW w \in Workers, DeletesEntry(w) PROVE TypeOK' /\ RequestsKnow'
      <3>1. /\ entry' = [entry EXCEPT ![request[w].key] = NoEntry]
            /\ removed' = removed \cup {request[w].key}
            /\ request[w].key \in used /\ Ends(w) /\ UNCHANGED <<context, used, acked>>
        BY <1>2, <2>5 DEF DeletesEntry, RequestsKnow
      <3>2. entry' \in [Keys -> Entry]
        BY <2>0, <3>1, Nothing
      <3> QED
        BY <2>0, <2>e, <3>1, <3>2 DEF TypeOK
    <2>6. ASSUME NEW w \in Workers, Looks(w) PROVE TypeOK' /\ RequestsKnow'
      <3> DEFINE old == request[w]
                 found == IF old.step = "entry" THEN entry[old.key] ELSE context[old.at]
                 row == [found EXCEPT !.alive = FALSE]
                 new == [old EXCEPT !.loaded = {row}]
      <3>1. /\ old \in Request /\ old.step \in {"entry", "context"}
            /\ old.key \in used /\ old.key \in Keys
            /\ old.owner \in Users /\ old.value \in Values
            /\ old.op \in {"create", "update"} => old.at \in Contexts /\ old.owner \in UsersOf[old.at]
            /\ old.step = "context" => old.op \in {"create", "update"}
        BY <1>2, <2>0, <2>6 DEF Looks, RequestsKnow, OwnTab, Sets
      <3>2. row \in Entry \cup ContextRow
        <4>1. CASE old.step = "entry"
          <5>1. found \in Entry
            <6>1. found = entry[old.key]
              BY <4>1
            <6> HIDE DEF found
            <6> QED
              BY <2>0, <3>1, <6>1
          <5>2. CASE found = NoEntry
            <6>1. row = NoEntry
              <7> HIDE DEF found
              <7> QED
                BY <5>2, NothingExpires
            <6> QED
              BY <6>1 DEF Entry
          <5>3. CASE found \in [owner : Users, value : Values, alive : BOOLEAN]
            <6>1. row \in [owner : Users, value : Values, alive : BOOLEAN]
              <7> HIDE DEF found
              <7> QED
                BY <5>3
            <6> QED
              BY <6>1 DEF Entry
          <5> QED
            BY <5>1, <5>2, <5>3 DEF Entry
        <4>2. CASE old.step # "entry"
          <5>1. found \in ContextRow
            <6>1. found = context[old.at] /\ old.at \in Contexts
              BY <3>1, <4>2
            <6> HIDE DEF found
            <6> QED
              BY <2>0, <6>1
          <5>2. CASE found = NoContext
            <6>1. row = NoContext
              <7> HIDE DEF found
              <7> QED
                BY <5>2, NothingExpires
            <6> QED
              BY <6>1 DEF ContextRow
          <5>3. CASE found \in [key : Keys, alive : BOOLEAN]
            <6>1. row \in [key : Keys, alive : BOOLEAN]
              <7> HIDE DEF found
              <7> QED
                BY <5>3
            <6> QED
              BY <6>1 DEF ContextRow
          <5> QED
            BY <5>1, <5>2, <5>3 DEF ContextRow
        <4> QED
          BY <4>1, <4>2
      <3>3. request' = [request EXCEPT ![w] = new] /\ UNCHANGED <<entry, context, used, acked, removed>>
        BY <2>0, <2>6 DEF Looks
      <3> HIDE DEF row, found, old
      <3>4. /\ new \in Request /\ new.op = old.op /\ new.at = old.at /\ new.key = old.key
            /\ new.owner = old.owner /\ new.value = old.value /\ new.step = old.step
        BY <3>1, <3>2 DEF Request
      <3> HIDE DEF new
      <3>5. /\ request' \in [Workers -> Request] /\ RequestsKnow'
            /\ \A x \in Workers : request'[x].step = "context" =>
                                   request'[x].op \in {"create", "update"}
        BY <2>r, <3>1, <3>3, <3>4
      <3> QED
        BY <2>0, <3>3, <3>5 DEF TypeOK
    <2>7. ASSUME NEW w \in Workers, Fails(w) PROVE TypeOK' /\ RequestsKnow'
      BY <2>0, <2>7, <2>e DEF Fails, TypeOK
    <2>8. ASSUME NEW w \in Workers, WritesEntry(w) PROVE TypeOK' /\ RequestsKnow'
      <3>1. /\ request[w].step = "entry"
            /\ (request[w].loaded = {NoEntry}) = (entry[request[w].key] = NoEntry)
            /\ entry' = [entry EXCEPT ![request[w].key] = Merged(request[w], entry[request[w].key])]
            /\ IF request[w].op = "create" THEN Goes(w, "context") ELSE Ends(w)
            /\ request[w].key \in used
            /\ acked' = IF request[w].op = "update" THEN acked \cup {request[w].key} ELSE acked
            /\ UNCHANGED <<context, used, removed>>
        BY <1>2, <2>8 DEF WritesEntry, RequestsKnow
      <3>2. entry' \in [Keys -> Entry]
        BY <2>w, <3>1
      <3>3. /\ request' \in [Workers -> Request] /\ RequestsKnow'
            /\ \A x \in Workers : request'[x].step = "context" =>
                                   request'[x].op \in {"create", "update"}
        BY <2>e, <2>g, <3>1
      <3> QED
        BY <2>0, <3>1, <3>2, <3>3 DEF TypeOK
    <2>9. ASSUME NEW w \in Workers, WritesContext(w) PROVE TypeOK' /\ RequestsKnow'
      <3> DEFINE same == \E old \in request[w].loaded : old # NoContext /\ old.key = request[w].key
                 key == IF same THEN context[request[w].at].key ELSE request[w].key
      <3>1. /\ request[w].step = "context" /\ request[w].loaded # {}
            /\ (request[w].loaded = {NoContext}) = (context[request[w].at] = NoContext)
            /\ context' = [context EXCEPT ![request[w].at] = [key |-> key, alive |-> TRUE]]
            /\ IF request[w].op = "update" THEN Goes(w, "entry") ELSE Ends(w)
            /\ acked' = IF request[w].op = "create" THEN acked \cup {request[w].key} ELSE acked
            /\ UNCHANGED <<entry, used, removed>>
        BY <2>9 DEF WritesContext
      <3>2. /\ request[w].key \in used /\ request[w].key \in Keys
            /\ request[w].at \in Contexts /\ request[w].op \in {"create", "update"}
        BY <1>2, <2>0, <3>1 DEF RequestsKnow, OwnTab
      <3>3. key \in Keys
        <4>1. CASE same
          <5>1. context[request[w].at] # NoContext
            BY <3>1, <4>1
          <5> QED
            BY <2>0, <3>2, <4>1, <5>1, Nothing
        <4>2. CASE ~ same
          BY <3>2, <4>2
        <4> QED
          BY <4>1, <4>2
      <3> HIDE DEF key
      <3>4. [key |-> key, alive |-> TRUE] \in ContextRow
        BY <3>3 DEF ContextRow
      <3>5. context' \in [Contexts -> ContextRow]
        BY <2>0, <3>1, <3>2, <3>4
      <3>6. /\ request' \in [Workers -> Request] /\ RequestsKnow'
            /\ \A x \in Workers : request'[x].step = "context" =>
                                   request'[x].op \in {"create", "update"}
        BY <2>e, <2>g, <3>1, <3>2
      <3> QED
        BY <2>0, <3>1, <3>2, <3>5, <3>6 DEF TypeOK
    <2>10. ASSUME NEW k \in Keys, ExpiresEntry(k) PROVE TypeOK' /\ RequestsKnow'
      <3>1. /\ entry[k].alive /\ entry' = [entry EXCEPT ![k].alive = FALSE]
            /\ removed' = removed \cup {k} /\ UNCHANGED <<context, request, used, acked>>
        BY <2>10 DEF ExpiresEntry
      <3>2. entry[k] \in [owner : Users, value : Values, alive : BOOLEAN]
        BY <2>0, <3>1 DEF Entry, NoEntry
      <3>3. [entry[k] EXCEPT !.alive = FALSE] \in Entry
        BY <3>2 DEF Entry
      <3>4. entry' \in [Keys -> Entry]
        BY <2>0, <3>1, <3>3
      <3> QED
        BY <1>2, <2>0, <3>1, <3>4 DEF TypeOK, RequestsKnow, OwnTab, Sets
    <2>11. ASSUME NEW c \in Contexts, ExpiresContext(c) PROVE TypeOK' /\ RequestsKnow'
      <3>1. /\ context[c].alive /\ context' = [context EXCEPT ![c].alive = FALSE]
            /\ UNCHANGED <<entry, request, used, acked, removed>>
        BY <2>11 DEF ExpiresContext
      <3>2. context[c] \in [key : Keys, alive : BOOLEAN]
        BY <2>0, <3>1 DEF ContextRow, NoContext
      <3>3. [context[c] EXCEPT !.alive = FALSE] \in ContextRow
        BY <3>2 DEF ContextRow
      <3>4. context' \in [Contexts -> ContextRow]
        BY <2>0, <3>1, <3>3
      <3> QED
        BY <1>2, <2>0, <3>1, <3>4 DEF TypeOK, RequestsKnow, OwnTab, Sets
    <2>12. CASE UNCHANGED vars
      BY <1>2, <2>0, <2>12 DEF vars, TypeOK, RequestsKnow, OwnTab, Sets
    <2> QED
      BY <1>2, <2>1, <2>2, <2>2a, <2>3, <2>4, <2>4a, <2>5, <2>6, <2>7, <2>8, <2>9, <2>10,
         <2>11, <2>12 DEF Next
  <1> QED
    BY <1>1, <1>2, PTL DEF Spec

\* Every variable keeps its type, and retrievals and deletions set no contextual key.
THEOREM TypeCorrect == Spec => []TypeOK
  BY TypesAndRequests, PTL

\* An entry that was revived or written is there for as long as its key is not deleted
\* and does not expire; that of a create precedes its contextual key.
Acknowledged ==
  /\ AckedKeyServes
  /\ \A w \in Workers :
       request[w].op = "create" /\ request[w].step = "context" =>
         request[w].key \in removed \/ entry[request[w].key].alive

\* A key that was returned leads to an entry until it is deleted or expires, although
\* sets are two transactions and conflicts make them fail in between.
THEOREM AckedKeyAlwaysServes == Spec => []AckedKeyServes
  <1>1. Init => Acknowledged
    BY DEF Init, Acknowledged, AckedKeyServes, Idle
  <1>2. ASSUME TypeOK, RequestsKnow, Acknowledged, [Next]_vars PROVE Acknowledged'
    <2>0. /\ entry \in [Keys -> Entry] /\ request \in [Workers -> Request]
          /\ used \subseteq Keys /\ acked \subseteq used /\ removed \subseteq Keys
          /\ \A k \in acked \ removed : entry[k].alive
          /\ \A w \in Workers : request[w].step \notin {"idle", "tab"} => request[w].key \in Keys
      BY <1>2 DEF TypeOK, RequestsKnow, Acknowledged, AckedKeyServes
    \* Whatever is written or removed, entries that are alive stay so unless removed.
    <2>a. ASSUME removed \subseteq removed', \A k \in Keys : entry[k].alive => k \in removed' \/ entry'[k].alive,
                 \A k \in acked' : k \in acked \/ k \in removed' \/ entry'[k].alive,
                 \A w \in Workers :
                   request'[w].op = "create" /\ request'[w].step = "context" =>
                     \/ /\ request[w].op = "create" /\ request[w].step = "context"
                        /\ request'[w].key = request[w].key
                     \/ request'[w].key \in removed' \/ entry'[request'[w].key].alive
          PROVE  Acknowledged'
      <3>1. AckedKeyServes'
        BY <2>0, <2>a DEF AckedKeyServes
      <3> QED
        BY <1>2, <2>0, <2>a, <3>1 DEF Acknowledged
    \* Steps that write no entry and return no key.
    <2>b. ASSUME UNCHANGED <<entry, acked, removed>>,
                 \A w \in Workers :
                   request'[w].op = "create" /\ request'[w].step = "context" =>
                     /\ request[w].op = "create" /\ request[w].step = "context"
                     /\ request'[w].key = request[w].key
          PROVE  Acknowledged'
      BY <2>a, <2>b
    <2>1. ASSUME NEW w \in Workers, Create(w) \/ Update(w) \/ Get(w) \/ Delete(w) PROVE Acknowledged'
      <3>1. ASSUME NEW r, Begins(w, r), ~ (r.op = "create" /\ r.step = "context"),
                   UNCHANGED <<entry, acked, removed>>
            PROVE  Acknowledged'
        <4>1. request'[w] = r /\ \A v \in Workers : v # w => request'[v] = request[v]
          BY <2>0, <3>1 DEF Begins
        <4> QED
          BY <2>b, <3>1, <4>1
      <3>2. CASE Create(w)
        <4> DEFINE new(c, v, u, k) ==
                     [Idle EXCEPT !.op = "create", !.step = "entry", !.at = c, !.key = k,
                                  !.owner = u, !.value = v]
        <4>1. PICK c, v, u, k : Begins(w, new(c, v, u, k)) /\ UNCHANGED <<entry, acked, removed>>
          BY <3>2 DEF Create
        <4>2. new(c, v, u, k).step = "entry"
          BY DEF Idle
        <4> HIDE DEF new
        <4> QED
          BY <3>1, <4>1, <4>2
      <3>3. CASE Update(w)
        <4> DEFINE new(c, v, u) ==
                     [Idle EXCEPT !.op = "update", !.step = "tab", !.at = c, !.owner = u, !.value = v]
        <4>1. PICK c, v, u : Begins(w, new(c, v, u)) /\ UNCHANGED <<entry, acked, removed>>
          BY <3>3 DEF Update
        <4>2. new(c, v, u).op = "update"
          BY DEF Idle
        <4> HIDE DEF new
        <4> QED
          BY <3>1, <4>1, <4>2
      <3>4. CASE Get(w)
        <4> DEFINE new(k) == [Idle EXCEPT !.op = "get", !.step = "entry", !.key = k,
                                !.owner = entry[k].owner, !.value = entry[k].value]
        <4>1. PICK k : Begins(w, new(k)) /\ UNCHANGED <<entry, acked, removed>>
          BY <3>4 DEF Get
        <4>2. new(k).op = "get"
          BY DEF Idle
        <4> HIDE DEF new
        <4> QED
          BY <3>1, <4>1, <4>2
      <3>5. CASE Delete(w)
        <4> DEFINE new(c, k) ==
                     [Idle EXCEPT !.op = "delete", !.step = "forget", !.at = c, !.key = k]
        <4>1. PICK c, k : Begins(w, new(c, k)) /\ UNCHANGED <<entry, acked, removed>>
          BY <3>5 DEF Delete
        <4>2. new(c, k).op = "delete"
          BY DEF Idle
        <4> HIDE DEF new
        <4> QED
          BY <3>1, <4>1, <4>2
      <3> QED
        BY <2>1, <3>2, <3>3, <3>4, <3>5
    <2>1a. ASSUME NEW w \in Workers, ReadsTab(w) PROVE Acknowledged'
      <3>1. /\ request[w].op = "update" /\ UNCHANGED <<entry, acked, removed>>
            /\ request'[w].op = request[w].op
            /\ \A v \in Workers : v # w => request'[v] = request[v]
        BY <1>2, <2>0, <2>1a DEF ReadsTab, RequestsKnow, Request
      <3> QED
        BY <2>b, <3>1
    <2>1b. ASSUME NEW w \in Workers, DeletesContext(w) PROVE Acknowledged'
      <3>1. /\ request'[w].step = "delete" /\ UNCHANGED <<entry, acked, removed>>
            /\ \A v \in Workers : v # w => request'[v] = request[v]
        BY <2>0, <2>1b DEF DeletesContext, Goes, Request
      <3> QED
        BY <2>b, <3>1
    <2>2. ASSUME NEW w \in Workers, Ends(w)
          PROVE  \A v \in Workers :
                   request'[v].op = "create" /\ request'[v].step = "context" =>
                     /\ request[v].op = "create" /\ request[v].step = "context"
                     /\ request'[v].key = request[v].key
      BY <2>0, <2>2 DEF Ends, Idle
    <2>3. ASSUME NEW w \in Workers, DeletesEntry(w) PROVE Acknowledged'
      <3>1. /\ entry' = [entry EXCEPT ![request[w].key] = NoEntry]
            /\ removed' = removed \cup {request[w].key} /\ Ends(w) /\ acked' = acked
        BY <2>3 DEF DeletesEntry
      <3>2. \A k \in Keys : entry[k].alive => k \in removed' \/ entry'[k].alive
        BY <2>0, <3>1
      <3> QED
        BY <2>2, <2>a, <3>1, <3>2
    <2>4. ASSUME NEW w \in Workers, Looks(w) PROVE Acknowledged'
      <3>1. /\ request'[w].op = request[w].op /\ request'[w].step = request[w].step
            /\ request'[w].key = request[w].key
            /\ \A v \in Workers : v # w => request'[v] = request[v]
            /\ UNCHANGED <<entry, acked, removed>>
        BY <2>0, <2>4 DEF Looks, Request
      <3> QED
        BY <2>b, <3>1
    <2>5. ASSUME NEW w \in Workers, Fails(w) PROVE Acknowledged'
      BY <2>2, <2>b, <2>5 DEF Fails
    <2>6. ASSUME NEW w \in Workers, WritesEntry(w) PROVE Acknowledged'
      <3> DEFINE key == request[w].key
                 merged == Merged(request[w], entry[key])
      <3>1. /\ request[w].step = "entry"
            /\ (request[w].loaded = {NoEntry}) = (entry[key] = NoEntry)
            /\ entry' = [entry EXCEPT ![key] = merged]
            /\ IF request[w].op = "create" THEN Goes(w, "context") ELSE Ends(w)
            /\ acked' = IF request[w].op = "update" THEN acked \cup {key} ELSE acked
            /\ UNCHANGED <<context, used, removed>>
        BY <2>6 DEF WritesEntry
      <3>2. key \in Keys /\ merged.alive
        <4>1. key \in Keys /\ request[w].owner \in Users /\ request[w].value \in Values
          BY <1>2, <2>0, <3>1 DEF RequestsKnow, Sets
        <4> QED
          BY <2>0, <3>1, <4>1, MergedIsEntry
      <3> HIDE DEF merged
      <3>3. entry'[key].alive /\ \A k \in Keys : entry[k].alive => entry'[k].alive
        BY <2>0, <3>1, <3>2
      <3>4. \A v \in Workers :
              request'[v].op = "create" /\ request'[v].step = "context" =>
                \/ /\ request[v].op = "create" /\ request[v].step = "context"
                   /\ request'[v].key = request[v].key
                \/ request'[v].key \in removed' \/ entry'[request'[v].key].alive
        <4>1. CASE request[w].op = "create"
          <5>1. request'[w].key = key /\ \A v \in Workers : v # w => request'[v] = request[v]
            BY <2>0, <3>1, <4>1 DEF Goes, Request
          <5> QED
            BY <3>3, <5>1
        <4>2. CASE request[w].op # "create"
          BY <2>2, <3>1, <4>2
        <4> QED
          BY <4>1, <4>2
      <3> QED
        BY <2>0, <2>a, <3>1, <3>3, <3>4
    <2>7. ASSUME NEW w \in Workers, WritesContext(w) PROVE Acknowledged'
      <3>1. /\ request[w].step = "context"
            /\ IF request[w].op = "update" THEN Goes(w, "entry") ELSE Ends(w)
            /\ acked' = IF request[w].op = "create" THEN acked \cup {request[w].key} ELSE acked
            /\ UNCHANGED <<entry, used, removed>>
        BY <2>7 DEF WritesContext
      <3>2. \A v \in Workers :
              request'[v].op = "create" /\ request'[v].step = "context" =>
                /\ request[v].op = "create" /\ request[v].step = "context"
                /\ request'[v].key = request[v].key
        <4>1. CASE request[w].op = "update"
          BY <2>0, <3>1, <4>1 DEF Goes, Request
        <4>2. CASE request[w].op # "update"
          BY <2>2, <3>1, <4>2
        <4> QED
          BY <4>1, <4>2
      <3>3. \A k \in acked' : k \in acked \/ k \in removed' \/ entry'[k].alive
        BY <1>2, <3>1 DEF Acknowledged
      <3> QED
        BY <2>a, <3>1, <3>2, <3>3
    <2>8. ASSUME NEW k \in Keys, ExpiresEntry(k) PROVE Acknowledged'
      <3>1. /\ entry' = [entry EXCEPT ![k].alive = FALSE] /\ removed' = removed \cup {k}
            /\ UNCHANGED <<request, acked>>
        BY <2>8 DEF ExpiresEntry
      <3>2. \A l \in Keys : entry[l].alive => l \in removed' \/ entry'[l].alive
        BY <2>0, <3>1
      <3> QED
        BY <2>a, <3>1, <3>2
    <2>9. ASSUME NEW c \in Contexts, ExpiresContext(c) PROVE Acknowledged'
      BY <2>9, <2>b DEF ExpiresContext
    <2>10. CASE UNCHANGED vars
      BY <2>10, <2>b DEF vars
    <2> QED
      BY <1>2, <2>1, <2>1a, <2>1b, <2>3, <2>4, <2>5, <2>6, <2>7, <2>8, <2>9, <2>10 DEF Next
  <1> QED
    BY <1>1, <1>2, TypesAndRequests, PTL DEF Spec, Acknowledged

\* The key a tab leads to stays in the tab: every way to come by a key, drawing it or
\* reading it from the tab's contextual key, keeps it with the one context that stands for
\* it, entries are written only for users of that context, and keys are never given back.
THEOREM KeysAlwaysStayInTheirTab == Spec => []KeysStayInTheirTab
  <1>1. Init => OneHolder
    BY Nothing DEF Init, OneHolder, Stands, Names, Idle, NoContext
  <1>2. ASSUME TypeOK, RequestsKnow, OneHolder, [Next]_vars PROVE OneHolder'
    <2>0. /\ entry \in [Keys -> Entry] /\ context \in [Contexts -> ContextRow]
          /\ request \in [Workers -> Request]
          /\ used \subseteq Keys /\ acked \subseteq used
          /\ \A w \in Workers : request[w].step \notin {"idle", "tab"} => request[w].key \in Keys
          /\ \A c \in Contexts : UsersOf[c] \subseteq Users
      BY <1>2, Nothing DEF TypeOK, RequestsKnow
    <2>h. ASSUME used \subseteq used',
                 \A k \in Keys, c \in Contexts : Stands(k, c)' => Stands(k, c),
                 \A k \in Keys, u \in Users : Names(k, u)' => Names(k, u)
          PROVE  OneHolder'
      BY <1>2, <2>h DEF OneHolder
    \* A request that comes by the key of context c for one of its users.
    <2>n. ASSUME NEW c \in Contexts, NEW o \in UsersOf[c], NEW new \in KeysFor(c),
                 used' = used \cup {new},
                 \A k \in Keys, d \in Contexts :
                   Stands(k, d)' => Stands(k, d) \/ (k = new /\ d = c),
                 \A k \in Keys, u \in Users :
                   Names(k, u)' => Names(k, u) \/ (k = new /\ u = o)
          PROVE  OneHolder'
      <3>1. CASE HasKey(c)
        <4>1. Stands(new, c)
          BY <2>n, <3>1 DEF KeysFor, Stands
        <4> QED
          BY <1>2, <2>0, <2>n, <4>1 DEF OneHolder
      <3>2. CASE ~ HasKey(c)
        <4>1. new \in Keys \ used
          BY <2>n, <3>2 DEF KeysFor
        <4> QED
          BY <1>2, <2>0, <2>n, <4>1 DEF OneHolder
      <3> QED
        BY <3>1, <3>2
    \* A request that begins, goes on or ends, and nothing else.
    <2>q. ASSUME NEW w \in Workers, NEW r, request' = [request EXCEPT ![w] = r],
                 UNCHANGED <<entry, context>>,
                 NEW k \in Keys, NEW c \in Contexts, Stands(k, c)'
          PROVE  Stands(k, c) \/ /\ r.step \in {"entry", "context"}
                                 /\ r.op \in {"create", "update"}
                                 /\ k = r.key /\ c = r.at
      <3>1. request'[w] = r /\ \A v \in Workers : v # w => request'[v] = request[v]
        BY <2>0, <2>q
      <3> QED
        BY <2>q, <3>1 DEF Stands
    <2>p. ASSUME NEW w \in Workers, NEW r, request' = [request EXCEPT ![w] = r],
                 UNCHANGED <<entry, context>>,
                 NEW k \in Keys, NEW u \in Users, Names(k, u)'
          PROVE  Names(k, u) \/ /\ r.step \in {"entry", "context"}
                                /\ k = r.key /\ u = r.owner
      <3>1. request'[w] = r /\ \A v \in Workers : v # w => request'[v] = request[v]
        BY <2>0, <2>p
      <3> QED
        BY <2>p, <3>1 DEF Names
    <2>i. ASSUME NEW w \in Workers, Ends(w),
                 request'[w].step \in {"entry", "context"}
          PROVE  FALSE
      BY <2>0, <2>i DEF Ends, Idle
    <2>1. ASSUME NEW w \in Workers, Create(w) PROVE OneHolder'
      <3> DEFINE new(c, v, u, k) ==
                   [Idle EXCEPT !.op = "create", !.step = "entry", !.at = c, !.key = k,
                                !.owner = u, !.value = v]
      <3>1. PICK c \in Contexts, v \in Values : \E u \in UsersOf[c], k \in KeysFor(c) :
              /\ Begins(w, new(c, v, u, k))
              /\ used' = used \cup {k} /\ UNCHANGED <<entry, context, acked, removed>>
        BY <2>1 DEF Create
      <3>2. PICK u \in UsersOf[c], k \in KeysFor(c) :
              /\ Begins(w, new(c, v, u, k))
              /\ used' = used \cup {k} /\ UNCHANGED <<entry, context, acked, removed>>
        BY <3>1
      <3>3. new(c, v, u, k).key = k /\ new(c, v, u, k).owner = u /\ new(c, v, u, k).at = c
        BY DEF Idle
      <3>4. request' = [request EXCEPT ![w] = new(c, v, u, k)]
        BY <3>2 DEF Begins
      <3> HIDE DEF new
      <3>5. \A l \in Keys, d \in Contexts : Stands(l, d)' => Stands(l, d) \/ (l = k /\ d = c)
        BY <2>q, <3>2, <3>3, <3>4
      <3>6. \A l \in Keys, x \in Users : Names(l, x)' => Names(l, x) \/ (l = k /\ x = u)
        BY <2>p, <3>2, <3>3, <3>4
      <3> QED
        BY <2>n, <3>2, <3>5, <3>6
    <2>2. ASSUME NEW w \in Workers, Update(w) PROVE OneHolder'
      <3> DEFINE new(c, v, u) ==
                   [Idle EXCEPT !.op = "update", !.step = "tab", !.at = c, !.owner = u, !.value = v]
      <3>1. PICK c, v, u :
              Begins(w, new(c, v, u)) /\ UNCHANGED <<entry, context, used, acked, removed>>
        BY <2>2 DEF Update
      <3>2. new(c, v, u).step = "tab"
        BY DEF Idle
      <3>3. request' = [request EXCEPT ![w] = new(c, v, u)]
        BY <3>1 DEF Begins
      <3> HIDE DEF new
      <3>4. \A l \in Keys, d \in Contexts : Stands(l, d)' => Stands(l, d)
        BY <2>q, <3>1, <3>2, <3>3
      <3>5. \A l \in Keys, x \in Users : Names(l, x)' => Names(l, x)
        BY <2>p, <3>1, <3>2, <3>3
      <3> QED
        BY <2>h, <3>1, <3>4, <3>5
    <2>2a. ASSUME NEW w \in Workers, ReadsTab(w) PROVE OneHolder'
      <3> DEFINE old == request[w]
                 first == IF HasKey(old.at) THEN "entry" ELSE "context"
                 new(k) == [old EXCEPT !.step = first, !.key = k]
      <3>1. PICK k \in KeysFor(old.at) :
              /\ request' = [request EXCEPT ![w].step = first, ![w].key = k]
              /\ used' = used \cup {k} /\ UNCHANGED <<entry, context, acked, removed>>
        BY <2>2a DEF ReadsTab
      <3>2. old \in Request /\ old.at \in Contexts /\ old.owner \in UsersOf[old.at]
        BY <1>2, <2>0, <2>2a DEF ReadsTab, RequestsKnow, OwnTab
      <3>3. request' = [request EXCEPT ![w] = new(k)]
        BY <2>0, <3>1
      <3> HIDE DEF first, old
      <3>4. new(k).key = k /\ new(k).owner = old.owner /\ new(k).at = old.at
        BY <3>2 DEF Request
      <3> HIDE DEF new
      <3>5. \A l \in Keys, d \in Contexts : Stands(l, d)' => Stands(l, d) \/ (l = k /\ d = old.at)
        BY <2>q, <3>1, <3>3, <3>4
      <3>6. \A l \in Keys, x \in Users : Names(l, x)' => Names(l, x) \/ (l = k /\ x = old.owner)
        BY <2>p, <3>1, <3>3, <3>4
      <3> QED
        BY <2>n, <3>1, <3>2, <3>5, <3>6
    <2>3. ASSUME NEW w \in Workers, Get(w) PROVE OneHolder'
      <3> DEFINE new(k) == [Idle EXCEPT !.op = "get", !.step = "entry", !.key = k,
                              !.owner = entry[k].owner, !.value = entry[k].value]
      <3>1. PICK k \in acked :
              /\ entry[k].alive /\ Begins(w, new(k))
              /\ UNCHANGED <<entry, context, used, acked, removed>>
        BY <2>3 DEF Get
      <3>2. Names(k, entry[k].owner)
        BY <3>1 DEF Names, NoEntry
      <3>3. new(k).key = k /\ new(k).owner = entry[k].owner /\ new(k).op = "get"
        BY DEF Idle
      <3>4. request' = [request EXCEPT ![w] = new(k)]
        BY <3>1 DEF Begins
      <3> HIDE DEF new
      <3>5. \A l \in Keys, d \in Contexts : Stands(l, d)' => Stands(l, d)
        BY <2>q, <3>1, <3>2, <3>3, <3>4
      <3>6. \A l \in Keys, x \in Users : Names(l, x)' => Names(l, x)
        BY <2>p, <3>1, <3>2, <3>3, <3>4
      <3> QED
        BY <2>h, <3>1, <3>5, <3>6
    <2>4. ASSUME NEW w \in Workers, Delete(w) PROVE OneHolder'
      <3> DEFINE new(c, k) == [Idle EXCEPT !.op = "delete", !.step = "forget", !.at = c, !.key = k]
      <3>1. PICK c, k :
              Begins(w, new(c, k)) /\ UNCHANGED <<entry, context, used, acked, removed>>
        BY <2>4 DEF Delete
      <3>2. new(c, k).step = "forget"
        BY DEF Idle
      <3>3. request' = [request EXCEPT ![w] = new(c, k)]
        BY <3>1 DEF Begins
      <3> HIDE DEF new
      <3>4. \A l \in Keys, d \in Contexts : Stands(l, d)' => Stands(l, d)
        BY <2>q, <3>1, <3>2, <3>3
      <3>5. \A l \in Keys, x \in Users : Names(l, x)' => Names(l, x)
        BY <2>p, <3>1, <3>2, <3>3
      <3> QED
        BY <2>h, <3>1, <3>4, <3>5
    <2>4a. ASSUME NEW w \in Workers, DeletesContext(w) PROVE OneHolder'
      <3>1. /\ context' = [context EXCEPT ![request[w].at] = NoContext]
            /\ UNCHANGED <<entry, used>>
        BY <2>4a DEF DeletesContext
      <3>2. request'[w].step = "delete" /\ \A v \in Workers : v # w => request'[v] = request[v]
        BY <2>0, <2>4a DEF DeletesContext, Goes, Request
      <3>3. \A d \in Contexts, k \in Keys : context'[d].key = k => context[d].key = k
        BY <2>0, <3>1, Nothing DEF NoContext
      <3> QED
        BY <2>h, <3>1, <3>2, <3>3 DEF Stands, Names
    <2>5. ASSUME NEW w \in Workers, DeletesEntry(w) PROVE OneHolder'
      <3>1. /\ entry' = [entry EXCEPT ![request[w].key] = NoEntry] /\ Ends(w)
            /\ UNCHANGED <<context, used>>
        BY <2>5 DEF DeletesEntry
      <3>2. \A k \in Keys : entry'[k] # NoEntry => entry'[k] = entry[k]
        BY <2>0, <3>1
      <3>3. \A v \in Workers : v # w => request'[v] = request[v]
        BY <2>0, <3>1 DEF Ends
      <3> QED
        BY <2>h, <2>i, <3>1, <3>2, <3>3 DEF Stands, Names
    <2>6. ASSUME NEW w \in Workers, Looks(w) PROVE OneHolder'
      <3>1. /\ request'[w].step = request[w].step /\ request'[w].key = request[w].key
            /\ request'[w].owner = request[w].owner /\ request'[w].op = request[w].op
            /\ request'[w].at = request[w].at
            /\ \A v \in Workers : v # w => request'[v] = request[v]
            /\ UNCHANGED <<entry, context, used>>
        BY <2>0, <2>6 DEF Looks, Request
      <3> QED
        BY <2>h, <3>1 DEF Stands, Names
    <2>7. ASSUME NEW w \in Workers, Fails(w) PROVE OneHolder'
      <3>1. Ends(w) /\ UNCHANGED <<entry, context, used>>
        BY <2>7 DEF Fails
      <3>2. \A v \in Workers : v # w => request'[v] = request[v]
        BY <2>0, <3>1 DEF Ends
      <3> QED
        BY <2>h, <2>i, <3>1, <3>2 DEF Stands, Names
    \* A request that has written goes on as it was, or ends.
    <2>g. ASSUME NEW w \in Workers, NEW step, Goes(w, step) \/ Ends(w),
                 request[w].step \in {"entry", "context"},
                 NEW v \in Workers, request'[v].step \in {"entry", "context"}
          PROVE  /\ request[v].step \in {"entry", "context"}
                 /\ request'[v].key = request[v].key /\ request'[v].owner = request[v].owner
                 /\ request'[v].at = request[v].at /\ request'[v].op = request[v].op
      <3>1. CASE Goes(w, step)
        BY <2>0, <2>g, <3>1 DEF Goes, Request
      <3>2. CASE Ends(w)
        BY <2>0, <2>g, <3>2 DEF Ends, Idle
      <3> QED
        BY <2>g, <3>1, <3>2
    <2>8. ASSUME NEW w \in Workers, WritesEntry(w) PROVE OneHolder'
      <3> DEFINE key == request[w].key
                 merged == Merged(request[w], entry[key])
      <3>1. /\ request[w].step = "entry"
            /\ (request[w].loaded = {NoEntry}) = (entry[key] = NoEntry)
            /\ entry' = [entry EXCEPT ![key] = merged]
            /\ Goes(w, "context") \/ Ends(w)
            /\ UNCHANGED <<context, used>>
        BY <2>8 DEF WritesEntry
      <3>2. key \in Keys /\ request[w].owner \in Users /\ request[w].value \in Values
        BY <1>2, <2>0, <3>1 DEF RequestsKnow, Sets
      <3>3. /\ merged.owner = request[w].owner
               \/ (entry[key] # NoEntry /\ merged.owner = entry[key].owner)
        BY <2>0, <3>1, <3>2, MergedIsEntry
      <3> HIDE DEF merged
      <3>4. Names(key, merged.owner)
        BY <3>1, <3>3 DEF Names
      <3>5. ASSUME NEW k \in Keys, NEW c \in Contexts, Stands(k, c)' PROVE Stands(k, c)
        BY <2>g, <3>1, <3>5 DEF Stands
      <3>6. ASSUME NEW k \in Keys, NEW u \in Users, Names(k, u)' PROVE Names(k, u)
        <4>1. CASE \E v \in Workers : /\ request'[v].step \in {"entry", "context"}
                                      /\ request'[v].key = k /\ request'[v].owner = u
          BY <2>g, <3>1, <4>1 DEF Names
        <4>2. CASE entry'[k] # NoEntry /\ entry'[k].owner = u
          <5>1. CASE k = key
            BY <2>0, <3>1, <3>2, <3>4, <4>2, <5>1
          <5>2. CASE k # key
            BY <2>0, <3>1, <4>2, <5>2 DEF Names
          <5> QED
            BY <5>1, <5>2
        <4> QED
          BY <3>6, <4>1, <4>2 DEF Names
      <3> QED
        BY <2>h, <3>1, <3>5, <3>6
    <2>9. ASSUME NEW w \in Workers, WritesContext(w) PROVE OneHolder'
      <3> DEFINE same == \E old \in request[w].loaded : old # NoContext /\ old.key = request[w].key
                 key == IF same THEN context[request[w].at].key ELSE request[w].key
      <3>1. /\ request[w].step = "context"
            /\ context' = [context EXCEPT ![request[w].at] = [key |-> key, alive |-> TRUE]]
            /\ Goes(w, "entry") \/ Ends(w)
            /\ UNCHANGED <<entry, used>>
        BY <2>9 DEF WritesContext
      <3>2. request[w].at \in Contexts /\ request[w].op \in {"create", "update"}
        BY <1>2, <3>1 DEF TypeOK, RequestsKnow, OwnTab
      <3>3. Stands(key, request[w].at)
        BY <3>1, <3>2 DEF Stands
      <3> HIDE DEF key
      <3>4. ASSUME NEW k \in Keys, NEW c \in Contexts, Stands(k, c)' PROVE Stands(k, c)
        <4>1. CASE context'[c].key = k
          <5>1. CASE c = request[w].at
            BY <2>0, <3>1, <3>3, <4>1, <5>1
          <5>2. CASE c # request[w].at
            BY <2>0, <3>1, <4>1, <5>2 DEF Stands
          <5> QED
            BY <5>1, <5>2
        <4>2. CASE \E v \in Workers : /\ request'[v].step \in {"entry", "context"}
                                      /\ request'[v].op \in {"create", "update"}
                                      /\ request'[v].at = c /\ request'[v].key = k
          BY <2>g, <3>1, <4>2 DEF Stands
        <4> QED
          BY <3>4, <4>1, <4>2 DEF Stands
      <3>5. ASSUME NEW k \in Keys, NEW u \in Users, Names(k, u)' PROVE Names(k, u)
        BY <2>g, <3>1, <3>5 DEF Names
      <3> QED
        BY <2>h, <3>1, <3>4, <3>5
    <2>10. ASSUME NEW e \in Keys, ExpiresEntry(e) PROVE OneHolder'
      <3>1. /\ entry[e].alive /\ entry' = [entry EXCEPT ![e].alive = FALSE]
            /\ UNCHANGED <<context, request, used>>
        BY <2>10 DEF ExpiresEntry
      <3>2. entry[e] # NoEntry /\ entry[e] \in [owner : Users, value : Values, alive : BOOLEAN]
        BY <2>0, <3>1 DEF Entry, NoEntry
      <3>3. \A k \in Keys : entry'[k] # NoEntry =>
                             entry[k] # NoEntry /\ entry'[k].owner = entry[k].owner
        BY <2>0, <3>1, <3>2
      <3> QED
        BY <2>h, <3>1, <3>3 DEF Stands, Names
    <2>11. ASSUME NEW c \in Contexts, ExpiresContext(c) PROVE OneHolder'
      <3>1. /\ context[c].alive /\ context' = [context EXCEPT ![c].alive = FALSE]
            /\ UNCHANGED <<entry, request, used>>
        BY <2>11 DEF ExpiresContext
      <3>2. context[c] \in [key : Keys, alive : BOOLEAN]
        BY <2>0, <3>1 DEF ContextRow, NoContext
      <3>3. \A d \in Contexts : context'[d].key = context[d].key
        BY <2>0, <3>1, <3>2
      <3> QED
        BY <2>h, <3>1, <3>3 DEF Stands, Names
    <2>12. CASE UNCHANGED vars
      BY <2>12, <2>h DEF vars, Stands, Names
    <2> QED
      BY <1>2, <2>1, <2>2, <2>2a, <2>3, <2>4, <2>4a, <2>5, <2>6, <2>7, <2>8, <2>9, <2>10,
         <2>11, <2>12 DEF Next
  <1>3. OneHolder /\ TypeOK => KeysStayInTheirTab
    <2>1. ASSUME OneHolder, TypeOK, NEW c \in Contexts, context[c] # NoContext
          PROVE  /\ \A d \in Contexts \ {c} : context[d].key # context[c].key
                 /\ entry[context[c].key] # NoEntry => entry[context[c].key].owner \in UsersOf[c]
      <3> DEFINE k == context[c].key
      <3>1. k \in Keys /\ Stands(k, c)
        BY <2>1, Nothing DEF TypeOK, Stands
      <3>2. \A d \in Contexts : context[d].key = k => Stands(k, d)
        BY DEF Stands
      <3>3. entry[k] # NoEntry => entry[k].owner \in Users /\ Names(k, entry[k].owner)
        BY <2>1, <3>1, Nothing DEF TypeOK, Names
      <3> QED
        BY <2>1, <3>1, <3>2, <3>3 DEF OneHolder
    <2> QED
      BY <2>1 DEF KeysStayInTheirTab
  <1> QED
    BY <1>1, <1>2, <1>3, TypesAndRequests, PTL DEF Spec
=============================================================================
