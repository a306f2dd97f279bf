-------------------------- MODULE DistributedLock --------------------------
(***************************************************************************)
(* KeyValueDistributedLock (superset/distributed_lock, commands/           *)
(* distributed_lock, daos/key_value.py): one entry in the key_value table, *)
(* under a unique uuid, with an expiry.  Acquiring looks for the entry in  *)
(* one transaction and creates it in a second one, which deletes expired   *)
(* entries first; releasing deletes the entry, whoever created it.         *)
(***************************************************************************)
EXTENDS Naturals

CONSTANTS
  Processes,   \* the web workers that take the lock
  Expiration,  \* lock_expiration
  None         \* no entry

ASSUME LockAssumption == Expiration \in Nat \ {0} /\ None \notin Processes

VARIABLES
  entry,    \* the process that created the entry, or None
  lease,    \* what is left of the time each process took the lock for
  lock,     \* where each process is: outside, between looking and creating, inside
  overdue   \* history: some process has been inside for longer than its lease

lockVars == <<entry, lease, lock, overdue>>

LockInit ==
  /\ entry = None
  /\ lease = [p \in Processes |-> 0]
  /\ lock = [p \in Processes |-> "out"]
  /\ overdue = FALSE

\* GetDistributedLock finds an entry that is not expired.
Taken == entry # None /\ lease[entry] > 0

LookFindsTaken(p) == lock[p] = "out" /\ Taken /\ UNCHANGED lockVars

LookFindsFree(p) ==
  /\ lock[p] = "out" /\ ~ Taken
  /\ lock' = [lock EXCEPT ![p] = "looked"]
  /\ UNCHANGED <<entry, lease, overdue>>

\* Mutant: another's entry is replaced, as if the uuid were not unique.
CreatesAnyway(p) ==
  /\ lock[p] = "looked"
  /\ entry' = p /\ lease' = [lease EXCEPT ![p] = Expiration]
  /\ lock' = [lock EXCEPT ![p] = "held"]
  /\ UNCHANGED overdue

\* Mutant: expired entries are not deleted, and violate the unique key.
CreatesIfAbsent(p) ==
  /\ lock[p] = "looked" /\ entry = None
  /\ entry' = p /\ lease' = [lease EXCEPT ![p] = Expiration]
  /\ lock' = [lock EXCEPT ![p] = "held"]
  /\ UNCHANGED overdue

\* CreateDistributedLock: an expired entry is deleted and a new one inserted, which
\* violates the unique key if there still is one.
CreateSucceeds(p) ==
  /\ lock[p] = "looked" /\ ~ Taken
  /\ entry' = p /\ lease' = [lease EXCEPT ![p] = Expiration]
  /\ lock' = [lock EXCEPT ![p] = "held"]
  /\ UNCHANGED overdue

CreateFails(p) ==
  /\ lock[p] = "looked" /\ Taken
  /\ lock' = [lock EXCEPT ![p] = "out"]
  /\ UNCHANGED <<entry, lease, overdue>>

\* DeleteDistributedLock
Release(p) ==
  /\ lock[p] = "held"
  /\ entry' = None
  /\ lock' = [lock EXCEPT ![p] = "out"]
  /\ UNCHANGED <<lease, overdue>>

\* The block raises, or the process dies: nothing is deleted.
Abandon(p) ==
  /\ lock' = [lock EXCEPT ![p] = "out"]
  /\ UNCHANGED <<entry, lease, overdue>>

LockTick ==
  /\ lease' = [p \in Processes |-> IF lease[p] = 0 THEN 0 ELSE lease[p] - 1]
  /\ overdue' = (overdue \/ \E p \in Processes : lock[p] = "held" /\ lease[p] <= 1)
  /\ UNCHANGED <<entry, lock>>
----------------------------------------------------------------------------
LockTypeOK ==
  /\ entry \in Processes \cup {None}
  /\ lease \in [Processes -> 0 .. Expiration]
  /\ lock \in [Processes -> {"out", "looked", "held"}]
  /\ overdue \in BOOLEAN

\* At most one process is inside, as long as none has stayed longer than its lease.
Exclusive ==
  ~ overdue => \A p, q \in Processes : lock[p] = "held" /\ lock[q] = "held" => p = q

\* The docstring of KeyValueDistributedLock: acquiring raises "if the lock is taken",
\* so that nobody is inside together with one whose lease is not over.
LeaseHolds ==
  \A p, q \in Processes :
    lock[p] = "held" /\ lock[q] = "held" /\ lease[p] > 0 /\ lease[q] > 0 => p = q
=============================================================================
