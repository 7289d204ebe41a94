-------------------------- MODULE EngineerRegistry --------------------------
(***************************************************************************)
(* The engineers table, the administration of engineers by the API         *)
(* replicas, and the registry: the snapshot of the active engineers that   *)
(* every process keeps and looks identities up in.                         *)
(*                                                                         *)
(* A snapshot is replaced by Load, called at startup, by the refresh       *)
(* ticker, and by every handler that changed the table.  Load queries      *)
(* without a lock and takes the mutex only to swap the snapshot, so loads  *)
(* of one process overlap.                                                 *)
(*                                                                         *)
(* A map from key to engineer is the set of its engineers.  Of a row the   *)
(* two unique keys, one budget and the active flag are kept.               *)
(***************************************************************************)
EXTENDS Integers, Sequences

CONSTANTS
  Email,
  Login,          \* GitHub usernames
  Budget,         \* budgets a request may give; 0 if the field is missing
  DefaultBudget,
  Seed,           \* the active rows at the beginning
  Api,            \* sentinel-api processes
  Worker,         \* sentinel-workers processes
  Handler,        \* request handlers of one API process
  MaxWrites,      \* bound: changes of the table in one behaviour
  MaxFaults       \* bound: failures and crashes of one behaviour

Process == Api \cup Worker
Thread  == Handler \cup {"main"}
Row     == [email : Email, github : Login, budget : Budget, active : BOOLEAN]

\* No two rows agree on a key: the UNIQUE constraints of the table.
Unique(rows) ==
  \A r, s \in rows : r.email = s.email \/ r.github = s.github => r = s

ASSUME Constants ==
  /\ Budget \subseteq Nat /\ DefaultBudget \in Budget
  /\ Seed \subseteq Row /\ Unique(Seed) /\ \A r \in Seed : r.active
  /\ "main" \notin Handler
  /\ MaxWrites \in Nat /\ MaxFaults \in Nat

VARIABLES
  table,      \* the rows of engineers
  history,    \* the active rows after each write
  proc,       \* each process: down, starting or up
  thread,     \* the Load each goroutine is in: where it is, what it read, of
              \* which entry of history, and the entry its own write made
  snap,       \* r.snap: the two maps
  snapOf,     \* the entry of history snap shows
  lastError,  \* stats.LastRefreshError is set
  returned,   \* history: of the newest write whose handler has returned the
              \* entry, the loads that had queried by then (older), and whether
              \* one of these stored last (stale)
  faults

vars == <<table, history, proc, thread, snap, snapOf, lastError, returned, faults>>

Idle == [pc |-> "idle", rows |-> {}, of |-> 0, wrote |-> 0]
NoSnap == [byEmail |-> {}, byGitHub |-> {}]
NoReturn == [entry |-> 0, older |-> {}, stale |-> FALSE]
Active(rows) == {r \in rows : r.active}

Init ==
  /\ table = Seed
  /\ history = <<Seed>>
  /\ proc = [p \in Process |-> "down"]
  /\ thread = [p \in Process |-> [t \in Thread |-> Idle]]
  /\ snap = [p \in Process |-> NoSnap]
  /\ snapOf = [p \in Process |-> 0]
  /\ lastError = [p \in Process |-> FALSE]
  /\ returned = [p \in Process |-> NoReturn]
  /\ faults = 0

Fault   == faults < MaxFaults /\ faults' = faults + 1
NoFault == faults' = faults

-----------------------------------------------------------------------------
(* Processes and the calls of Load                                         *)

\* Begin a Load for the entry of history the goroutine wrote, 0 for none.
BeginLoad(p, t, w) == thread' = [thread EXCEPT ![p][t] = [Idle EXCEPT !.pc = "query", !.wrote = w]]

\* main loads the registry before it starts anything else.
Start(p) ==
  /\ proc[p] = "down"
  /\ proc' = [proc EXCEPT ![p] = "starting"]
  /\ BeginLoad(p, "main", 0)
  /\ UNCHANGED <<table, history, snap, snapOf, lastError, returned, faults>>

\* Mutant: the ticker is stopped at once, ticker.Stop() without defer.
RefreshTick_Stopped(p) == FALSE /\ UNCHANGED vars

\* The ticker of StartRefresh.
RefreshTick(p) ==
  /\ proc[p] = "up" /\ thread[p]["main"].pc = "idle"
  /\ BeginLoad(p, "main", 0)
  /\ UNCHANGED <<table, history, proc, snap, snapOf, lastError, returned, faults>>

\* POST /admin/registry/refresh.
RefreshRegistry(p, h) ==
  /\ proc[p] = "up" /\ thread[p][h].pc = "idle"
  /\ BeginLoad(p, h, 0)
  /\ UNCHANGED <<table, history, proc, snap, snapOf, lastError, returned, faults>>

\* The process ends, by a crash, a signal or log.Fatalf.
End(p) ==
  /\ proc' = [proc EXCEPT ![p] = "down"]
  /\ thread' = [thread EXCEPT ![p] = [t \in Thread |-> Idle]]
  /\ snap' = [snap EXCEPT ![p] = NoSnap]
  /\ snapOf' = [snapOf EXCEPT ![p] = 0]
  /\ lastError' = [lastError EXCEPT ![p] = FALSE]
  /\ returned' = [returned EXCEPT ![p] = NoReturn]

Crash(p) ==
  /\ proc[p] # "down"
  /\ Fault /\ End(p)
  /\ UNCHANGED <<table, history>>

-----------------------------------------------------------------------------
(* Load                                                                    *)

\* One SELECT, which sees the table at one instant.
Query(p, t) ==
  /\ thread[p][t].pc = "query"
  /\ thread' = [thread EXCEPT ![p][t] = [@ EXCEPT !.pc = "store", !.rows = Active(table),
                                                  !.of = Len(history)]]
  /\ UNCHANGED <<table, history, proc, snap, snapOf, lastError, returned, faults>>

\* What a process has promised (r) once t's Load has ended, stored if ok: with
\* the Load of a handler that changed the table the handler returns, and
\* refreshRegistry only logs an error.
LoadReturns(r, p, t, ok) ==
  IF thread[p][t].wrote > r.entry
  THEN [entry |-> thread[p][t].wrote, stale |-> FALSE,
        older |-> {u \in Thread \ {t} : thread[p][u].pc = "store"}]
  ELSE [entry |-> r.entry, stale |-> IF ok THEN t \in r.older ELSE r.stale,
        older |-> r.older \ {t}]

\* Mutant: an error of rows.Err() is ignored, what was scanned is kept.
LoadFails_Partial(p, t) ==
  /\ thread[p][t].pc = "store" /\ Fault
  /\ \E r \in thread[p][t].rows : thread' = [thread EXCEPT ![p][t].rows = @ \ {r}]
  /\ UNCHANGED <<table, history, proc, snap, snapOf, lastError, returned>>

\* The query, or the connection while its rows are read, fails: the snapshot
\* stays and the error is recorded; at startup it is fatal.
LoadFails(p, t) ==
  /\ thread[p][t].pc \in {"query", "store"}
  /\ Fault
  /\ \/ proc[p] = "starting" /\ End(p)
     \/ /\ proc[p] = "up"
        /\ thread' = [thread EXCEPT ![p][t] = Idle]
        /\ lastError' = [lastError EXCEPT ![p] = TRUE]
        /\ returned' = [returned EXCEPT ![p] = LoadReturns(@, p, t, FALSE)]
        /\ UNCHANGED <<proc, snap, snapOf>>
  /\ UNCHANGED <<table, history>>

\* byEmail and byGitHub: one engineer per key.
ByEmail(rows)  == {CHOOSE r \in rows : r.email = k  : k \in {r.email : r \in rows}}
ByGitHub(rows) == {CHOOSE r \in rows : r.github = k : k \in {r.github : r \in rows}}

\* The swap, under the mutex; main goes on to serve.
StoreSnapshot(p, t) ==
  /\ thread[p][t].pc = "store"
  /\ snap' = [snap EXCEPT ![p] = [byEmail  |-> ByEmail(thread[p][t].rows),
                                  byGitHub |-> ByGitHub(thread[p][t].rows)]]
  /\ snapOf' = [snapOf EXCEPT ![p] = thread[p][t].of]
  /\ lastError' = [lastError EXCEPT ![p] = FALSE]
  /\ proc' = [proc EXCEPT ![p] = "up"]
  /\ returned' = [returned EXCEPT ![p] = LoadReturns(@, p, t, TRUE)]
  /\ thread' = [thread EXCEPT ![p][t] = Idle]
  /\ UNCHANGED <<table, history, faults>>

-----------------------------------------------------------------------------
(* Create, Update, Deactivate                                              *)

\* Mutant: what refreshRegistry stores was read before the statement.
Commit_ReadFirst(p, h, rows) ==
  /\ proc[p] = "up" /\ thread[p][h].pc = "idle"
  /\ Len(history) <= MaxWrites
  /\ table' = rows
  /\ history' = Append(history, Active(rows))
  /\ thread' = [thread EXCEPT ![p][h] = [pc |-> "store", rows |-> Active(table),
                                         of |-> Len(history), wrote |-> Len(history) + 1]]
  /\ UNCHANGED <<proc, snap, snapOf, lastError, returned, faults>>

\* A statement that commits, then refreshRegistry.  If only its reply is lost
\* the handler returns the error and reloads nothing.
Commit(p, h, rows) ==
  /\ proc[p] = "up" /\ thread[p][h].pc = "idle"
  /\ Len(history) <= MaxWrites
  /\ table' = rows
  /\ history' = Append(history, Active(rows))
  /\ \/ BeginLoad(p, h, Len(history) + 1) /\ NoFault
     \/ UNCHANGED thread /\ Fault
  /\ UNCHANGED <<proc, snap, snapOf, lastError, returned>>

\* Mutant: the default is lost and NULL, here -1, is stored.
Created_Null(e, u, b) ==
  [email |-> e, github |-> u, budget |-> IF b = 0 THEN -1 ELSE b, active |-> TRUE]

\* The new row: a budget of 0 is replaced by the default.
Created(e, u, b) ==
  [email |-> e, github |-> u, budget |-> IF b = 0 THEN DefaultBudget ELSE b, active |-> TRUE]

\* Neither key is taken, not even by an inactive engineer.
Free(e, u) == \A r \in table : r.email # e /\ r.github # u

\* ErrEngineerExists, like ErrEngineerNotFound below, changes nothing.
CreateEngineer(p, h) ==
  \E e \in Email, u \in Login, b \in Budget :
    Free(e, u) /\ Commit(p, h, table \cup {Created(e, u, b)})

\* A field that is nil keeps its value; 0 is a budget like any other.
UpdateEngineer(p, h) ==
  \E r \in Active(table), u \in Login, b \in Budget :
    /\ \A s \in table \ {r} : s.github # u
    /\ Commit(p, h, (table \ {r}) \cup {[r EXCEPT !.github = u, !.budget = b]})

DeactivateEngineer(p, h) ==
  \E r \in Active(table) :
    Commit(p, h, (table \ {r}) \cup {[r EXCEPT !.active = FALSE]})

-----------------------------------------------------------------------------
Load(p, t) == Query(p, t) \/ StoreSnapshot(p, t)
Admin(p, h) ==
  CreateEngineer(p, h) \/ UpdateEngineer(p, h) \/ DeactivateEngineer(p, h) \/ RefreshRegistry(p, h)

Next ==
  \/ \E p \in Process :
       \/ Start(p) \/ RefreshTick(p) \/ Crash(p)
       \/ \E t \in Thread : Load(p, t) \/ LoadFails(p, t)
  \/ \E p \in Api, h \in Handler : Admin(p, h)

Spec == Init /\ [][Next]_vars

\* The orchestrator restarts processes, the ticker ticks, and a goroutine in
\* Load goes on.
Fairness ==
  \A p \in Process :
    /\ WF_vars(Start(p)) /\ WF_vars(RefreshTick(p))
    /\ \A t \in Thread : WF_vars(Load(p, t))

FairSpec == Spec /\ Fairness

-----------------------------------------------------------------------------
(* Properties                                                              *)

ThreadState == [pc : {"idle", "query", "store"}, rows : SUBSET Row, of : Nat, wrote : Nat]
Snapshot == [byEmail : SUBSET Row, byGitHub : SUBSET Row]
Promise == [entry : Nat, older : SUBSET Thread, stale : BOOLEAN]

\* Every variable has its type.
TypeOK ==
  /\ table \subseteq Row
  /\ history \in Seq(SUBSET Row) /\ Len(history) \in 1..(MaxWrites + 1)
  /\ proc \in [Process -> {"down", "starting", "up"}]
  /\ thread \in [Process -> [Thread -> ThreadState]]
  /\ snap \in [Process -> Snapshot]
  /\ snapOf \in [Process -> Nat]
  /\ lastError \in [Process -> BOOLEAN]
  /\ returned \in [Process -> Promise]
  /\ faults \in 0..MaxFaults

View == INSTANCE RegistryView WITH view <- snap

\* However loads of one process overlap, fail or are cut off, a lookup sees a
\* state the table was in, as a whole, and byEmail and byGitHub show the same
\* engineers: who is billed is also scanned by the collector.
ServesPastState == View!Spec

\* Every process ends up with the table as it is, in whatever order the loads
\* that raced with the last write stored what they had read.
RegistryCatchesUp == View!CatchesUp

\* Once a handler has changed the table and returned, its process attributes by
\* a snapshot with the change, whatever loads begin, store or fail from then
\* on, but for two cases.  Its reload failed: the handler returns success all
\* the same (engineer.go:157), but the registry's status shows the error until
\* a Load stores.  Or a Load that had queried before it returned stored after
\* it (registry.go:93): no error shows that.  In either case the next Load that
\* begins and stores has the change.
ReadYourWrites ==
  \A p \in Process :
    snapOf[p] < returned[p].entry => lastError[p] \/ returned[p].stale
=============================================================================
