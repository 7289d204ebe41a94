------------------------------ MODULE Migrate ------------------------------
(***************************************************************************)
(* Schema migration: migrate.Apply, which every sentinel-api replica calls *)
(* before it serves.  An advisory lock, held by a session of its own,      *)
(* orders the replicas; each file is executed and recorded in one          *)
(* transaction, on other connections of the pool than the lock's.          *)
(*                                                                         *)
(* Files are numbered in the order of their names.  A release has the      *)
(* files 1..n; replicas of several releases run during a rollout, and a    *)
(* rollback starts an older one.                                           *)
(***************************************************************************)
EXTENDS Integers, Sequences

CONSTANTS
  Replica,
  NoOne,      \* the holder of a free lock
  NumFiles,
  Releases,   \* the number of files in each release
  PoolSize,   \* connections a replica may open
  MaxFaults   \* bound: failed calls, lost connections and crashes of one behaviour

File == 1..NumFiles

ASSUME Constants ==
  /\ NumFiles \in Nat /\ MaxFaults \in Nat /\ PoolSize \in Nat
  /\ Releases \subseteq 0..NumFiles /\ NoOne \notin Replica

VARIABLES
  pc,        \* where each replica is
  files,     \* the number of files of its release
  at,        \* the file its loop is at
  failed,    \* the replicas whose Apply is returning an error
  holder,    \* whose session holds the advisory lock
  lost,      \* replicas whose lock connection died under them
  table,     \* {} until schema_migrations exists
  recorded,  \* the versions in schema_migrations
  schema,    \* history: the files committed, in that order
  faults

vars == <<pc, files, at, failed, holder, lost, table, recorded, schema, faults>>

Applying == {"ensure", "check", "exec", "insert", "commit", "unlock"}
PC == Applying \cup {"down", "lock", "serving"}

Init ==
  /\ pc = [r \in Replica |-> "down"]
  /\ files = [r \in Replica |-> 0]
  /\ at = [r \in Replica |-> 1]
  /\ failed = {}
  /\ holder = NoOne /\ lost = {}
  /\ table = {} /\ recorded = {} /\ schema = <<>>
  /\ faults = 0

Fault   == faults < MaxFaults /\ faults' = faults + 1
Go(r, to) == pc' = [pc EXCEPT ![r] = to]
lock == <<holder, lost>>
db   == <<table, recorded, schema>>

\* One connection is the lock's: a query needs another.
FreeConnection == PoolSize > 1

-----------------------------------------------------------------------------
\* A process starts, of any release.
Start(r) ==
  /\ pc[r] = "down"
  /\ \E n \in Releases : files' = [files EXCEPT ![r] = n]
  /\ at' = [at EXCEPT ![r] = 1]
  /\ failed' = failed \ {r}
  /\ lost' = lost \ {r}
  /\ Go(r, "lock")
  /\ UNCHANGED <<holder, db, faults>>

\* Mutant: pg_try_advisory_lock, whose answer is not looked at.
Lock_Try(r) ==
  /\ pc[r] = "lock"
  /\ holder' = IF holder = NoOne THEN r ELSE holder
  /\ Go(r, "ensure")
  /\ UNCHANGED <<files, at, failed, lost, db, faults>>

\* pg_advisory_lock waits for the session that has it.
Lock(r) ==
  /\ pc[r] = "lock" /\ holder = NoOne
  /\ holder' = r
  /\ Go(r, "ensure")
  /\ UNCHANGED <<files, at, failed, lost, db, faults>>

\* CREATE TABLE IF NOT EXISTS; then the directory is read.
Ensure(r) ==
  /\ pc[r] = "ensure" /\ FreeConnection
  /\ table' = {"schema_migrations"}
  /\ Go(r, "check")
  /\ UNCHANGED <<files, at, failed, lock, recorded, schema, faults>>

\* Mutant: a file that is recorded ends the loop.
Check_Break(r) ==
  /\ pc[r] = "check" /\ FreeConnection
  /\ Go(r, IF at[r] > files[r] \/ at[r] \in recorded THEN "unlock" ELSE "exec")
  /\ UNCHANGED <<files, at, failed, lock, db, faults>>

\* The loop: a file that is recorded is skipped; after the last Apply returns.
Check(r) ==
  /\ pc[r] = "check" /\ FreeConnection
  /\ IF at[r] > files[r] THEN Go(r, "unlock") /\ at' = at
     ELSE IF at[r] \in recorded THEN at' = [at EXCEPT ![r] = @ + 1] /\ pc' = pc
     ELSE Go(r, "exec") /\ at' = at
  /\ UNCHANGED <<files, failed, lock, db, faults>>

\* BEGIN and the statements of the file, which others see once committed.
Exec(r) ==
  /\ pc[r] = "exec" /\ FreeConnection
  /\ Go(r, "insert")
  /\ UNCHANGED <<files, at, failed, lock, db, faults>>

\* ROLLBACK and the error.
Abort(r) == Go(r, "unlock") /\ failed' = failed \cup {r}

\* Mutant: ON CONFLICT DO NOTHING.
Insert_OnConflict(r) ==
  /\ pc[r] = "insert"
  /\ \A q \in Replica : ~(pc[q] = "commit" /\ at[q] = at[r])
  /\ Go(r, "commit") /\ failed' = failed
  /\ UNCHANGED <<files, at, lock, db, faults>>

\* Mutant: a conflict is retried from the beginning of the transaction.
Insert_Retry(r) ==
  /\ pc[r] = "insert"
  /\ \A q \in Replica : ~(pc[q] = "commit" /\ at[q] = at[r])
  /\ Go(r, IF at[r] \in recorded THEN "exec" ELSE "commit") /\ failed' = failed
  /\ UNCHANGED <<files, at, lock, db, faults>>

\* The primary key: an insert waits for the transaction that has inserted the
\* same version, and fails if that one commits.
Insert(r) ==
  /\ pc[r] = "insert"
  /\ \A q \in Replica : ~(pc[q] = "commit" /\ at[q] = at[r])
  /\ IF at[r] \in recorded THEN Abort(r) ELSE Go(r, "commit") /\ failed' = failed
  /\ UNCHANGED <<files, at, lock, db, faults>>

\* The answer may be lost; the loop then ends with an error.
Commit(r) ==
  /\ pc[r] = "commit"
  /\ recorded' = recorded \cup {at[r]}
  /\ schema' = Append(schema, at[r])
  /\ \/ /\ Go(r, "check") /\ at' = [at EXCEPT ![r] = @ + 1]
        /\ UNCHANGED <<failed, faults>>
     \/ Fault /\ Abort(r) /\ at' = at
  /\ UNCHANGED <<files, lock, table>>

\* The deferred unlock; main serves, or dies of the error.
Unlock(r) ==
  /\ pc[r] = "unlock"
  /\ holder' = IF holder = r THEN NoOne ELSE holder
  /\ Go(r, IF r \in failed THEN "down" ELSE "serving")
  /\ UNCHANGED <<files, at, failed, lost, db, faults>>

\* A call fails and has no effect: log.Fatalf, or first the deferred unlock.
CallFails(r) ==
  /\ Fault
  /\ \/ pc[r] = "lock" /\ Go(r, "down") /\ failed' = failed
     \/ pc[r] \in {"ensure", "check", "exec", "insert", "commit"} /\ Abort(r)
  /\ UNCHANGED <<files, at, lock, db>>

\* The lock's session ends while the replica goes on with its files.
LockLost(r) ==
  /\ holder = r /\ Fault
  /\ holder' = NoOne /\ lost' = lost \cup {r}
  /\ UNCHANGED <<pc, files, at, failed, db>>

\* Its sessions end with the process: the transaction and the lock are gone.
Stop(r) ==
  /\ Go(r, "down")
  /\ holder' = IF holder = r THEN NoOne ELSE holder
  /\ UNCHANGED <<files, at, failed, lost, db>>

Crash(r)    == pc[r] # "down" /\ Fault /\ Stop(r)
Redeploy(r) == pc[r] = "serving" /\ faults' = faults /\ Stop(r)

-----------------------------------------------------------------------------
Apply(r) == Ensure(r) \/ Check(r) \/ Exec(r) \/ Insert(r) \/ Commit(r) \/ Unlock(r)

Next == \E r \in Replica :
  Start(r) \/ Lock(r) \/ Apply(r) \/ CallFails(r) \/ LockLost(r) \/ Crash(r) \/ Redeploy(r)

\* A replica goes on, is restarted by its supervisor, and Postgres serves
\* those that wait for the lock in turn.
Fairness == \A r \in Replica : WF_vars(Start(r)) /\ WF_vars(Apply(r)) /\ SF_vars(Lock(r))

Spec == Init /\ [][Next]_vars /\ Fairness

-----------------------------------------------------------------------------
(* Properties                                                              *)

\* Every variable has its type.
TypeOK ==
  /\ pc \in [Replica -> PC] /\ files \in [Replica -> 0..NumFiles]
  /\ at \in [Replica -> Nat] /\ failed \subseteq Replica
  /\ holder \in Replica \cup {NoOne} /\ lost \subseteq Replica
  /\ table \subseteq {"schema_migrations"} /\ recorded \subseteq File /\ schema \in Seq(File)
  /\ faults \in 0..MaxFaults

\* The schema is the first n files, each executed once and in order, and
\* schema_migrations says so: with any mix of releases, crashes anywhere,
\* commits whose answer is lost, and even when the lock is lost.
SchemaIsPrefix ==
  /\ \A i \in 1..Len(schema) : schema[i] = i
  /\ recorded = 1..Len(schema)

\* A replica serves only on a schema that has all its files.
ServesMigrated == \A r \in Replica : pc[r] = "serving" => 1..files[r] \subseteq recorded

\* Two replicas are inside Apply only if one of them has lost its lock.
OneApplier ==
  \A r, q \in Replica :
    r # q /\ pc[r] \in Applying /\ pc[q] \in Applying => r \in lost \/ q \in lost

\* Every replica serves, again after every fault, failed start and rollout:
\* no error path keeps the lock.
EveryReplicaServes == \A r \in Replica : []<>(pc[r] = "serving")
=============================================================================
