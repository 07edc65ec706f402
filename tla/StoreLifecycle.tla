--------------------------- MODULE StoreLifecycle ---------------------------
(***************************************************************************)
(* The life of the SQLite operational store: instances that open it under  *)
(* an application lease, back it up, restore it, and the one-way migration *)
(* into an empty PostgreSQL store that seals it.  Its contents are a set   *)
(* of business records; sessions, tokens and leases are "ephemeral".       *)
(***************************************************************************)
EXTENDS Naturals, FiniteSets

CONSTANTS
    Null,
    Instances, Migrators, Records,
    LeaseSeconds,   \* applicationLeaseSeconds
    MaxTime         \* bound on the clock

VARIABLES
    now,
    lease,       \* the row of operational_application_lease, or Null
    instance,    \* of each instance: state, and until when its lease was given
    file,        \* records of the SQLite file
    sealed,      \* it is read-only
    copy,        \* the backup file: records, stripped of ephemeral rows or not; or Null
    target,      \* committed records of the PostgreSQL store
    migration    \* of each migrator: at, and the records it read

vars == <<now, lease, instance, file, sealed, copy, target, migration>>

Closed == [at |-> "closed", until |-> 0]
Unlocked == {"open", "maintenance"}

\* acquireApplicationLease: no live lease of another token.
MayLease(i) == lease # Null => lease.until <= now

\* new SqliteOperationalStore; it writes, so a sealed file cannot be opened.
Open(i) ==
    /\ instance[i].at = "closed" /\ ~sealed /\ MayLease(i)
    /\ lease' = [by |-> i, until |-> now + LeaseSeconds]
    /\ instance' = [instance EXCEPT ![i] = [at |-> "open", until |-> now + LeaseSeconds]]
    /\ UNCHANGED <<now, file, sealed, copy, target, migration>>

\* Any operation that writes.  A file sealed under an open instance still takes its writes.
Write(i, x) ==
    /\ instance[i].at = "open"
    /\ x \notin file \union target
    /\ file' = file \union {x}
    /\ UNCHANGED <<now, lease, instance, sealed, copy, target, migration>>

EnterMaintenance(i) ==
    /\ instance[i].at = "open"
    /\ instance' = [instance EXCEPT ![i].at = "maintenance"]
    /\ UNCHANGED <<now, lease, file, sealed, copy, target, migration>>

\* close: the lease is deleted if it is still this instance's.
Close(i) ==
    /\ instance[i].at \in Unlocked
    /\ instance' = [instance EXCEPT ![i] = Closed]
    /\ lease' = IF lease # Null /\ lease.by = i /\ lease.until = instance[i].until THEN Null ELSE lease
    /\ UNCHANGED <<now, file, sealed, copy, target, migration>>

\* The process dies; the lease stays.
Crash(i) ==
    /\ instance[i].at \in Unlocked
    /\ instance' = [instance EXCEPT ![i] = Closed]
    /\ UNCHANGED <<now, lease, file, sealed, copy, target, migration>>

\* backup: the file is copied, and the ephemeral rows are deleted from the copy.
Backup(i) ==
    /\ instance[i].at \in Unlocked
    /\ copy' = [records |-> file, stripped |-> FALSE]
    /\ UNCHANGED <<now, lease, instance, file, sealed, target, migration>>

Strip(i) ==
    /\ instance[i].at \in Unlocked /\ copy # Null
    /\ ~copy.stripped
    /\ copy' = [copy EXCEPT !.stripped = TRUE]
    /\ UNCHANGED <<now, lease, instance, file, sealed, target, migration>>

\* restoreSqliteBackup: not while an instance has the file open, nor once its
\* migration has begun; without the ephemeral rows no lease is in it.
Restore ==
    /\ copy # Null /\ \A i \in Instances : instance[i].at = "closed"
    /\ \A m \in Migrators : migration[m].at = "idle"
    /\ copy.stripped
    /\ file' = copy.records /\ lease' = Null
    /\ UNCHANGED <<now, instance, sealed, copy, target, migration>>

\* migrateSqliteToPostgres: readSource.
ReadSource(m) ==
    /\ migration[m].at = "idle"
    /\ migration' = [migration EXCEPT ![m] = [at |-> "read", records |-> file]]
    /\ UNCHANGED <<now, lease, instance, file, sealed, copy, target>>

\* assertTargetEmpty.
TargetEmpty == target = {}

\* BEGIN and assertTargetEmpty; a refusal rolls back.
Begin(m) ==
    /\ migration[m].at = "read"
    /\ migration' = [migration EXCEPT ![m].at = IF TargetEmpty THEN "importing" ELSE "failed"]
    /\ UNCHANGED <<now, lease, instance, file, sealed, copy, target>>

\* importRows: a record that is there already violates its primary key, one
\* that another transaction holds makes this one wait for its end.
Import(m) ==
    /\ migration[m].at = "importing"
    /\ \A n \in Migrators : migration[n].at \in {"imported", "valid"}
                              => migration[n].records \intersect migration[m].records = {}
    /\ migration' = [migration EXCEPT
          ![m].at = IF target \intersect migration[m].records = {} THEN "imported" ELSE "failed"]
    /\ UNCHANGED <<now, lease, instance, file, sealed, copy, target>>

\* readTarget, validateParity: committed records and its own are what it read.
Parity(m) == target \union migration[m].records = migration[m].records

Validate(m) ==
    /\ migration[m].at = "imported"
    /\ migration' = [migration EXCEPT ![m].at = IF Parity(m) THEN "valid" ELSE "failed"]
    /\ UNCHANGED <<now, lease, instance, file, sealed, copy, target>>

Commit(m) ==
    /\ migration[m].at = "valid"
    /\ target' = target \union migration[m].records
    /\ migration' = [migration EXCEPT ![m].at = "committed"]
    /\ UNCHANGED <<now, lease, instance, file, sealed, copy>>

\* Fault: the rows are inserted in no transaction.
KeptOnFailure(m) == target \union migration[m].records

\* ROLLBACK: what is left in the target.
RolledBack(m) == target

\* A dry run, or a failure on the way.
Rollback(m) ==
    /\ migration[m].at \in {"importing", "imported", "valid"}
    /\ target' = RolledBack(m)
    /\ migration' = [migration EXCEPT ![m].at = "failed"]
    /\ UNCHANGED <<now, lease, instance, file, sealed, copy>>

\* sealSqliteArchive, after the commit.
Seal(m) ==
    /\ migration[m].at = "committed"
    /\ sealed' = TRUE
    /\ migration' = [migration EXCEPT ![m].at = "sealed"]
    /\ UNCHANGED <<now, lease, instance, file, copy, target>>

Tick ==
    /\ now < MaxTime /\ now' = now + 1
    /\ UNCHANGED <<lease, instance, file, sealed, copy, target, migration>>

Init ==
    /\ now = 0 /\ lease = Null /\ instance = [i \in Instances |-> Closed]
    /\ file = {} /\ sealed = FALSE /\ copy = Null /\ target = {}
    /\ migration = [m \in Migrators |-> [at |-> "idle", records |-> {}]]

Next ==
    \/ Tick \/ Restore
    \/ \E i \in Instances : \/ Open(i) \/ EnterMaintenance(i) \/ Close(i) \/ Crash(i)
                            \/ Backup(i) \/ Strip(i)
                            \/ \E x \in Records : Write(i, x)
    \/ \E m \in Migrators : \/ ReadSource(m) \/ Begin(m) \/ Import(m) \/ Validate(m)
                            \/ Commit(m) \/ Rollback(m) \/ Seal(m)

Spec == Init /\ [][Next]_vars
-----------------------------------------------------------------------------
\* Whoever has the file open within its lease is the holder the row names.  So
\* two are never within theirs at once, and one that outlived its lease, which is
\* never renewed, and goes on writing, neither frees its successor's by closing
\* nor lets a third instance in.
LeaseIsHonoured ==
    \A i \in Instances : instance[i].at \in Unlocked /\ instance[i].until > now =>
        lease = [by |-> i, until |-> instance[i].until]

\* What PostgreSQL holds is, whole, what one migrator read, however migrations
\* that overlap, fail or are retried interleave with the writes of an instance.
ImportIsWhole ==
    target # {} => \E m \in Migrators :
        migration[m].at \in {"committed", "sealed"} /\ target = migration[m].records

\* The file has one leaseholder at a time, and moves to PostgreSQL whole.
StoreIsWhole == LeaseIsHonoured /\ ImportIsWhole
=============================================================================
