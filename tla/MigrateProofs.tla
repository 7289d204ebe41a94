--------------------------- MODULE MigrateProofs ---------------------------
(***************************************************************************)
(* The schema is migrated file by file, whatever the number of replicas,   *)
(* files, releases and faults.                                             *)
(***************************************************************************)
EXTENDS Migrate, TLAPS

\* What a replica has seen of the schema.  In the loop, all files before its
\* own are recorded; a transaction that has inserted its version is the only
\* one that has and its file is the next; a replica that returns without an
\* error has been through all its files.
Behind(r) ==
  /\ pc[r] \in {"check", "exec", "insert", "commit"} => at[r] >= 1 /\ at[r] <= Len(schema) + 1
  /\ pc[r] = "commit" => at[r] = Len(schema) + 1
  /\ pc[r] \in {"exec", "insert", "commit"} => at[r] <= files[r]
  /\ pc[r] = "unlock" /\ r \notin failed => files[r] <= Len(schema)
  /\ pc[r] = "serving" => files[r] <= Len(schema)
  /\ pc[r] \in {"lock", "ensure", "check", "exec", "insert", "commit"} => r \notin failed
  /\ pc[r] \in {"lock", "ensure"} => at[r] = 1

LoopIsBehind == \A r \in Replica : Behind(r)

\* Two transactions have not inserted the same version.
OneInserted ==
  \A r, q \in Replica : pc[r] = "commit" /\ pc[q] = "commit" => r = q

SchemaInv == TypeOK /\ SchemaIsPrefix /\ LoopIsBehind /\ OneInserted

\* The empty schema is a prefix, and no replica has begun.
LEMMA InitInv == Init => SchemaInv
<1> SUFFICES ASSUME Init PROVE SchemaInv
    OBVIOUS
<1>1. TypeOK
      BY Constants DEF Init, TypeOK, PC, Applying
<1>2. SchemaIsPrefix
      BY DEF Init, SchemaIsPrefix
<1>3. LoopIsBehind /\ OneInserted
      BY DEF Init, LoopIsBehind, Behind, OneInserted
<1> QED BY <1>1, <1>2, <1>3 DEF SchemaInv

\* Every step keeps the types.
LEMMA TypeStep == SchemaInv /\ [Next]_vars => TypeOK'
<1> SUFFICES ASSUME SchemaInv, [Next]_vars PROVE TypeOK'
    OBVIOUS
<1> DEFINE Locals == pc \in [Replica -> PC] /\ files \in [Replica -> 0..NumFiles]
                     /\ at \in [Replica -> Nat] /\ failed \subseteq Replica
           Shared == holder \in Replica \cup {NoOne} /\ lost \subseteq Replica
                     /\ table \subseteq {"schema_migrations"}
                     /\ recorded \subseteq File /\ schema \in Seq(File)
<1>0. Locals /\ Shared /\ faults \in 0..MaxFaults
      BY DEF SchemaInv, TypeOK
<1>1. ASSUME NEW r \in Replica, Start(r) \/ Lock(r) PROVE TypeOK'
  <2>1. Locals'
    <3>1. pc' \in [Replica -> PC]
          BY <1>0, <1>1 DEF Start, Lock, Go, PC, Applying
    <3>2. files' \in [Replica -> 0..NumFiles]
          BY <1>0, <1>1, Constants DEF Start, Lock
    <3>3. at' \in [Replica -> Nat]
      <4>1. at' = [at EXCEPT ![r] = 1] \/ at' = at
            BY <1>1 DEF Start, Lock
      <4> QED BY <1>0, <4>1
    <3>4. failed' \subseteq Replica
          BY <1>0, <1>1 DEF Start, Lock
    <3> QED BY <3>1, <3>2, <3>3, <3>4
  <2>2. Shared' /\ faults' = faults
        BY <1>0, <1>1 DEF Start, Lock, db
  <2> QED BY <1>0, <2>1, <2>2 DEF TypeOK
<1>2. ASSUME NEW r \in Replica, Ensure(r) \/ Check(r) \/ Exec(r) PROVE TypeOK'
  <2>1. Locals'
    <3>1. pc' \in [Replica -> PC]
          BY <1>0, <1>2 DEF Ensure, Check, Exec, Go, PC, Applying
    <3>2. files' = files /\ at' \in [Replica -> Nat] /\ failed' \subseteq Replica
          BY <1>0, <1>2 DEF Ensure, Check, Exec
    <3> QED BY <1>0, <3>1, <3>2
  <2>2. Shared' /\ faults' = faults
        BY <1>0, <1>2 DEF Ensure, Check, Exec, db, lock
  <2> QED BY <1>0, <2>1, <2>2 DEF TypeOK
<1>3. ASSUME NEW r \in Replica, Insert(r) \/ Unlock(r) PROVE TypeOK'
  <2>1. Locals'
    <3>1. pc' \in [Replica -> PC]
          BY <1>0, <1>3 DEF Insert, Unlock, Abort, Go, PC, Applying
    <3>2. files' = files /\ at' \in [Replica -> Nat] /\ failed' \subseteq Replica
          BY <1>0, <1>3 DEF Insert, Unlock, Abort
    <3> QED BY <1>0, <3>1, <3>2
  <2>2. Shared' /\ faults' = faults
        BY <1>0, <1>3 DEF Insert, Unlock, db, lock
  <2> QED BY <1>0, <2>1, <2>2 DEF TypeOK
<1>4. ASSUME NEW r \in Replica, Commit(r) PROVE TypeOK'
  <2>1. Locals'
    <3>1. pc' \in [Replica -> PC]
          BY <1>0, <1>4 DEF Commit, Abort, Go, PC, Applying
    <3>2. files' = files /\ failed' \subseteq Replica
          BY <1>0, <1>4 DEF Commit, Abort
    <3>3. at' = [at EXCEPT ![r] = @ + 1] \/ at' = at
          BY <1>4 DEF Commit
    <3>4. at' \in [Replica -> Nat]
          BY <1>0, <3>3
    <3> QED BY <1>0, <3>1, <3>2, <3>4
  <2>2. at[r] \in File
        BY <1>0, <1>4, Constants DEF Commit, SchemaInv, LoopIsBehind, Behind, File
  <2>3. Shared'
        BY <1>0, <1>4, <2>2 DEF Commit, lock
  <2>4. faults' \in 0..MaxFaults
        BY <1>0, <1>4, Constants DEF Commit, Fault
  <2> QED BY <2>1, <2>3, <2>4 DEF TypeOK
<1>5. ASSUME NEW r \in Replica, CallFails(r) \/ LockLost(r) PROVE TypeOK'
  <2>1. Locals'
    <3>1. pc' \in [Replica -> PC]
          BY <1>0, <1>5 DEF CallFails, LockLost, Abort, Go, PC, Applying
    <3>2. files' = files /\ at' \in [Replica -> Nat] /\ failed' \subseteq Replica
          BY <1>0, <1>5 DEF CallFails, LockLost, Abort
    <3> QED BY <1>0, <3>1, <3>2
  <2>2. Shared'
        BY <1>0, <1>5 DEF CallFails, LockLost, db, lock
  <2>3. faults' \in 0..MaxFaults
        BY <1>0, <1>5, Constants DEF CallFails, LockLost, Fault
  <2> QED BY <2>1, <2>2, <2>3 DEF TypeOK
<1>6. ASSUME NEW r \in Replica, Crash(r) \/ Redeploy(r) PROVE TypeOK'
  <2>1. Locals'
    <3>1. pc' \in [Replica -> PC]
          BY <1>0, <1>6 DEF Crash, Redeploy, Stop, Go, PC, Applying
    <3>2. files' = files /\ at' \in [Replica -> Nat] /\ failed' \subseteq Replica
          BY <1>0, <1>6 DEF Crash, Redeploy, Stop
    <3> QED BY <1>0, <3>1, <3>2
  <2>2. Shared'
        BY <1>0, <1>6 DEF Crash, Redeploy, Stop, db
  <2>3. faults' \in 0..MaxFaults
        BY <1>0, <1>6, Constants DEF Crash, Redeploy, Fault
  <2> QED BY <2>1, <2>2, <2>3 DEF TypeOK
<1>7. CASE UNCHANGED vars
      BY <1>0, <1>7 DEF vars, TypeOK
<1> QED BY <1>1, <1>2, <1>3, <1>4, <1>5, <1>6, <1>7 DEF Next, Apply

\* A commit is of the next file, and no other transaction is about to.
LEMMA CommitStep ==
  ASSUME SchemaInv, NEW r \in Replica, Commit(r)
  PROVE  SchemaIsPrefix' /\ LoopIsBehind' /\ OneInserted'
<1> USE Constants DEF SchemaInv, TypeOK, PC, Applying, Go, lock
<1>1. at[r] = Len(schema) + 1 /\ at[r] \in File
      BY DEF Commit, LoopIsBehind, Behind, File
<1>2. /\ Len(schema') = Len(schema) + 1
      /\ \A i \in 1..Len(schema) : schema'[i] = schema[i]
      /\ schema'[Len(schema) + 1] = at[r]
      BY <1>1 DEF Commit
<1>3. SchemaIsPrefix'
      BY <1>1, <1>2 DEF Commit, SchemaIsPrefix
<1>4. \A q \in Replica : q # r => pc'[q] = pc[q] /\ at'[q] = at[q] /\ (q \in failed' <=> q \in failed) /\ pc[q] # "commit"
      BY DEF Commit, Abort, OneInserted
<1>5. files' = files /\ Len(schema) \in Nat
      BY DEF Commit
<1>6. \/ pc'[r] = "check" /\ at'[r] = Len(schema) + 2 /\ r \notin failed'
      \/ pc'[r] = "unlock" /\ r \in failed'
      BY <1>1, <1>5 DEF Commit, Abort, LoopIsBehind, Behind
<1>7. LoopIsBehind'
      BY <1>2, <1>4, <1>5, <1>6 DEF LoopIsBehind, Behind
<1>8. OneInserted'
      BY <1>4, <1>6 DEF OneInserted
<1> QED BY <1>3, <1>7, <1>8

\* Only replica r moves, and the schema stays.
OnlyMoves(r) ==
  /\ schema' = schema /\ recorded' = recorded
  /\ \A q \in Replica \ {r} :
       /\ pc'[q] = pc[q] /\ at'[q] = at[q] /\ files'[q] = files[q]
       /\ q \in failed' <=> q \in failed

\* What the others know is as true as before.
LEMMA Frame ==
  ASSUME SchemaInv, NEW r \in Replica, OnlyMoves(r), Behind(r)',
         pc'[r] = "commit" => \A q \in Replica : pc[q] # "commit"
  PROVE  SchemaIsPrefix' /\ LoopIsBehind' /\ OneInserted'
<1>1. SchemaIsPrefix'
      BY DEF SchemaInv, OnlyMoves, SchemaIsPrefix
<1>2. ASSUME NEW q \in Replica PROVE Behind(q)'
  <2>1. CASE q = r
        BY <2>1
  <2>2. CASE q # r
        BY <2>2 DEF SchemaInv, LoopIsBehind, OnlyMoves, Behind
  <2> QED BY <2>1, <2>2
<1>3. OneInserted'
      BY DEF SchemaInv, OnlyMoves, OneInserted
<1> QED BY <1>1, <1>2, <1>3 DEF LoopIsBehind

\* Every step but a commit leaves the schema alone; only Insert makes a
\* transaction that has inserted, and of the next file.
LEMMA OtherStep ==
  ASSUME SchemaInv, NEW r \in Replica,
         \/ Start(r) \/ Lock(r) \/ Ensure(r) \/ Check(r) \/ Exec(r) \/ Insert(r) \/ Unlock(r)
         \/ CallFails(r) \/ LockLost(r) \/ Crash(r) \/ Redeploy(r)
  PROVE  SchemaIsPrefix' /\ LoopIsBehind' /\ OneInserted'
<1>0. /\ pc \in [Replica -> PC] /\ at \in [Replica -> Nat] /\ files \in [Replica -> 0..NumFiles]
      /\ Len(schema) \in Nat /\ recorded = 1..Len(schema) /\ NumFiles \in Nat
      /\ Behind(r)
      BY Constants DEF SchemaInv, TypeOK, SchemaIsPrefix, LoopIsBehind
<1>1. CASE Start(r) \/ Lock(r)
  <2>1. OnlyMoves(r)
        BY <1>0, <1>1 DEF Start, Lock, Go, db, OnlyMoves
  <2>2. \/ pc'[r] = "lock" /\ at'[r] = 1
        \/ pc'[r] = "ensure" /\ at'[r] = at[r] /\ pc[r] = "lock"
        BY <1>0, <1>1 DEF Start, Lock, Go
  <2>3. r \notin failed'
        BY <1>0, <1>1 DEF Start, Lock, Go, Behind
  <2>4. Behind(r)'
        BY <1>0, <2>2, <2>3 DEF Behind
  <2> QED BY <2>1, <2>2, <2>4, Frame
<1>2. CASE Ensure(r) \/ Exec(r)
  <2>1. OnlyMoves(r)
        BY <1>0, <1>2 DEF Ensure, Exec, Go, db, OnlyMoves
  <2>2. /\ \/ pc[r] = "ensure" /\ pc'[r] = "check"
           \/ pc[r] = "exec" /\ pc'[r] = "insert"
        /\ at'[r] = at[r] /\ files'[r] = files[r] /\ failed' = failed
        BY <1>0, <1>2 DEF Ensure, Exec, Go
  <2>3. Behind(r)'
        BY <1>0, <2>1, <2>2 DEF Behind, OnlyMoves
  <2> QED BY <2>1, <2>2, <2>3, Frame
<1>3. CASE Check(r)
  <2>1. OnlyMoves(r)
        BY <1>0, <1>3 DEF Check, Go, db, OnlyMoves
  <2>2. pc[r] = "check" /\ files' = files /\ failed' = failed
        BY <1>3 DEF Check
  <2>3. \/ pc'[r] = "unlock" /\ files[r] < at[r]
        \/ pc'[r] = "check" /\ at'[r] = at[r] + 1 /\ at[r] <= Len(schema)
        \/ pc'[r] = "exec" /\ at'[r] = at[r] /\ at[r] <= files[r]
        BY <1>0, <1>3 DEF Check, Go
  <2>4. Behind(r)'
        BY <1>0, <2>1, <2>2, <2>3 DEF Behind, OnlyMoves
  <2> QED BY <2>1, <2>3, <2>4, Frame
<1>4. CASE Insert(r)
  <2>1. OnlyMoves(r)
        BY <1>0, <1>4 DEF Insert, Abort, Go, db, OnlyMoves
  <2>2. /\ pc[r] = "insert" /\ files' = files /\ at' = at
        /\ \/ pc'[r] = "unlock" /\ r \in failed'
           \/ pc'[r] = "commit" /\ failed' = failed /\ at[r] \notin 1..Len(schema)
        BY <1>0, <1>4 DEF Insert, Abort, Go
  <2>3. at[r] >= 1
        BY <1>0, <2>2 DEF Behind
  <2>4. Behind(r)'
        BY <1>0, <2>1, <2>2, <2>3 DEF Behind, OnlyMoves
  <2>5. ASSUME pc'[r] = "commit", NEW q \in Replica PROVE pc[q] # "commit"
    <3>1. at[r] = Len(schema) + 1
          BY <1>0, <2>2, <2>3, <2>5 DEF Behind
    <3>2. pc[q] = "commit" => at[q] = Len(schema) + 1
          BY DEF SchemaInv, LoopIsBehind, Behind
    <3> QED BY <1>4, <3>1, <3>2 DEF Insert
  <2> QED BY <2>1, <2>4, <2>5, Frame
<1>5. CASE Unlock(r)
  <2>1. OnlyMoves(r)
        BY <1>0, <1>5 DEF Unlock, Go, db, OnlyMoves
  <2>2. /\ pc[r] = "unlock"
        /\ \/ pc'[r] = "down"
           \/ pc'[r] = "serving" /\ r \notin failed
        /\ files' = files
        BY <1>0, <1>5 DEF Unlock, Go
  <2>3. Behind(r)'
        BY <1>0, <1>5, <2>1, <2>2 DEF Unlock, Behind, OnlyMoves
  <2> QED BY <2>1, <2>2, <2>3, Frame
<1>6. CASE CallFails(r)
  <2>1. OnlyMoves(r)
        BY <1>0, <1>6 DEF CallFails, Abort, Go, db, OnlyMoves
  <2>2. \/ pc'[r] = "down"
        \/ pc'[r] = "unlock" /\ r \in failed'
        BY <1>0, <1>6 DEF CallFails, Abort, Go
  <2> QED BY <2>1, <2>2, Frame DEF Behind
<1>7. CASE LockLost(r)
      BY <1>7 DEF LockLost, db, SchemaInv, SchemaIsPrefix, LoopIsBehind, Behind, OneInserted
<1>8. CASE Crash(r) \/ Redeploy(r)
  <2>1. Stop(r)
        BY <1>8 DEF Crash, Redeploy
  <2>2. OnlyMoves(r) /\ pc'[r] = "down"
        BY <1>0, <2>1 DEF Stop, Go, db, OnlyMoves
  <2> QED BY <2>2, Frame DEF Behind
<1> QED BY <1>1, <1>2, <1>3, <1>4, <1>5, <1>6, <1>7, <1>8

\* Every action keeps SchemaInv.
LEMMA SchemaStep == SchemaInv /\ [Next]_vars => SchemaInv'
<1> SUFFICES ASSUME SchemaInv, [Next]_vars PROVE SchemaInv'
    OBVIOUS
<1>1. TypeOK'
      BY TypeStep
<1>2. CASE Next
      BY <1>1, <1>2, CommitStep, OtherStep DEF Next, Apply, SchemaInv
<1>3. CASE UNCHANGED vars
      BY <1>1, <1>3 DEF vars, SchemaInv, SchemaIsPrefix, LoopIsBehind, Behind, OneInserted
<1> QED BY <1>2, <1>3

\* The inductive invariant, from which the next three follow.
THEOREM SchemaInvariant == Spec => []SchemaInv
BY InitInv, SchemaStep, PTL DEF Spec

\* Every variable has its type.
THEOREM TypesKept == Spec => []TypeOK
<1>1. SchemaInv => TypeOK
      BY DEF SchemaInv
<1> QED BY <1>1, SchemaInvariant, PTL

\* Each file is executed once and in order, with or without the lock.
THEOREM SchemaInOrder == Spec => []SchemaIsPrefix
<1>1. SchemaInv => SchemaIsPrefix
      BY DEF SchemaInv
<1> QED BY <1>1, SchemaInvariant, PTL

\* A replica serves only on a schema that has all its files.
THEOREM ServingIsMigrated == Spec => []ServesMigrated
<1>1. SchemaInv => ServesMigrated
      BY Constants DEF SchemaInv, TypeOK, SchemaIsPrefix, LoopIsBehind, Behind, ServesMigrated
<1> QED BY <1>1, SchemaInvariant, PTL

\* Inside Apply a replica has the lock or has lost it.
HasLock == \A r \in Replica : pc[r] \in Applying => holder = r \/ r \in lost

\* Every action leaves a replica inside Apply with the lock, or among the lost.
LEMMA LockStep == TypeOK /\ HasLock /\ [Next]_vars => HasLock'
<1> SUFFICES ASSUME TypeOK, HasLock, [Next]_vars PROVE HasLock'
    OBVIOUS
<1> USE Constants DEF HasLock, TypeOK, PC, Applying, lock, Go
<1>1. ASSUME NEW r \in Replica, Start(r) \/ Lock(r) PROVE HasLock'
      BY <1>1 DEF Start, Lock
<1>2. ASSUME NEW r \in Replica, Apply(r) PROVE HasLock'
      BY <1>2 DEF Apply, Ensure, Check, Exec, Insert, Commit, Unlock, Abort
<1>3. ASSUME NEW r \in Replica, CallFails(r) \/ LockLost(r) PROVE HasLock'
      BY <1>3 DEF CallFails, LockLost, Abort
<1>4. ASSUME NEW r \in Replica, Crash(r) \/ Redeploy(r) PROVE HasLock'
      BY <1>4 DEF Crash, Redeploy, Stop
<1>5. CASE UNCHANGED vars
      BY <1>5 DEF vars
<1> QED BY <1>1, <1>2, <1>3, <1>4, <1>5 DEF Next

\* The advisory lock lets one replica in, unless a lock is lost.
THEOREM OneAtATime == Spec => []OneApplier
<1>1. Init => HasLock
      BY DEF Init, HasLock, Applying
<1>2. HasLock => OneApplier
      BY DEF HasLock, OneApplier
<1> QED BY <1>1, <1>2, LockStep, TypesKept, PTL DEF Spec
=============================================================================
