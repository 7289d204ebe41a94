----------------------- MODULE EngineerRegistryProofs -----------------------
(***************************************************************************)
(* EngineerRegistry implements RegistryView, for any number of processes,  *)
(* handlers, engineers and faults: type correctness first, then the        *)
(* invariant that every Load in flight holds a past state of the table and *)
(* that no state of the table has a key twice, then the simulation.        *)
(***************************************************************************)
EXTENDS EngineerRegistry, TLAPS

-----------------------------------------------------------------------------
(* Type correctness                                                        *)

\* A goroutine that begins a Load, or ends one, is well typed.
LEMMA BeginType ==
  ASSUME TypeOK, NEW p \in Process, NEW t \in Thread, NEW w \in Nat, BeginLoad(p, t, w)
  PROVE  thread' \in [Process -> [Thread -> ThreadState]]
<1>1. [Idle EXCEPT !.pc = "query", !.wrote = w] \in ThreadState
      BY DEF Idle, ThreadState
<1> QED BY <1>1 DEF TypeOK, BeginLoad

\* A process that ends leaves states of their types.
LEMMA EndType ==
  ASSUME TypeOK, NEW p \in Process, End(p)
  PROVE  /\ proc' \in [Process -> {"down", "starting", "up"}]
         /\ thread' \in [Process -> [Thread -> ThreadState]]
         /\ snap' \in [Process -> Snapshot]
         /\ snapOf' \in [Process -> Nat]
         /\ lastError' \in [Process -> BOOLEAN]
         /\ returned' \in [Process -> Promise]
<1>1. Idle \in ThreadState /\ NoSnap \in Snapshot /\ NoReturn \in Promise
      BY DEF Idle, NoSnap, NoReturn, ThreadState, Snapshot, Promise
<1>2. [t \in Thread |-> Idle] \in [Thread -> ThreadState]
      BY <1>1
<1> QED BY <1>1, <1>2 DEF TypeOK, End

\* A Load that ends for no newer write than has been promised.
LEMMA NothingNew ==
  ASSUME TypeOK, NEW p \in Process, NEW t \in Thread, NEW ok \in BOOLEAN,
         ~(thread[p][t].wrote > returned[p].entry)
  PROVE  LET r == returned[p] IN
         /\ LoadReturns(r, p, t, ok) \in Promise
         /\ LoadReturns(r, p, t, ok).entry = r.entry
         /\ LoadReturns(r, p, t, ok).older = r.older \ {t}
         /\ ok /\ t \in r.older => LoadReturns(r, p, t, ok).stale
<1> DEFINE r == returned[p]
           b == IF ok THEN t \in r.older ELSE r.stale
<1>1. r \in Promise
      BY DEF TypeOK
<1>2. r.entry \in Nat /\ r.older \ {t} \in SUBSET Thread /\ r.stale \in BOOLEAN
      BY <1>1 DEF Promise
<1>3. b \in BOOLEAN
  <2>1. CASE ok
        BY <2>1
  <2>2. CASE ~ok
        BY <1>2, <2>2
  <2> QED BY <2>1, <2>2
<1>4. LoadReturns(r, p, t, ok) = [entry |-> r.entry, stale |-> b, older |-> r.older \ {t}]
      BY DEF LoadReturns
<1>5. LoadReturns(r, p, t, ok) \in Promise
      BY <1>2, <1>3, <1>4 DEF Promise
<1>6. LoadReturns(r, p, t, ok).stale = b
      BY <1>4
<1>7. ok /\ t \in r.older => b
      OBVIOUS
<1> QED BY <1>4, <1>5, <1>6, <1>7

\* A Load that ends leaves what its process has promised well typed.
LEMMA ReturnsType ==
  ASSUME TypeOK, NEW p \in Process, NEW t \in Thread, NEW ok \in BOOLEAN
  PROVE  LoadReturns(returned[p], p, t, ok) \in Promise
<1>1. returned[p] \in Promise /\ thread[p][t] \in ThreadState
      BY DEF TypeOK
<1>2. CASE thread[p][t].wrote > returned[p].entry
      BY <1>1, <1>2 DEF LoadReturns, Promise, ThreadState
<1>3. CASE ~(thread[p][t].wrote > returned[p].entry)
      BY <1>3, NothingNew
<1> QED BY <1>2, <1>3

\* The maps hold rows that were read.
LEMMA MapsAreRows ==
  ASSUME NEW rows
  PROVE  ByEmail(rows) \subseteq rows /\ ByGitHub(rows) \subseteq rows
<1>1. ASSUME NEW k \in {r.email : r \in rows}
      PROVE  (CHOOSE r \in rows : r.email = k) \in rows
      BY <1>1
<1>2. ASSUME NEW k \in {r.github : r \in rows}
      PROVE  (CHOOSE r \in rows : r.github = k) \in rows
      BY <1>2
<1> QED BY <1>1, <1>2 DEF ByEmail, ByGitHub

\* A write of well-typed rows.
LEMMA CommitType ==
  ASSUME TypeOK, NEW p \in Api, NEW h \in Handler, NEW rows, rows \subseteq Row, Commit(p, h, rows)
  PROVE  TypeOK'
<1>1. p \in Process /\ h \in Thread
      BY DEF Process, Thread
<1>2. Active(rows) \subseteq Row
      BY DEF Active
<1>3. /\ Len(history) \in Nat /\ MaxWrites \in Nat
      /\ Append(history, Active(rows)) \in Seq(SUBSET Row)
      /\ Len(Append(history, Active(rows))) = Len(history) + 1
      BY <1>2, Constants DEF TypeOK
<1>4. history' \in Seq(SUBSET Row) /\ Len(history') \in 1..(MaxWrites + 1)
      BY <1>3 DEF Commit, TypeOK
<1>5. thread' \in [Process -> [Thread -> ThreadState]]
  <2>1. CASE BeginLoad(p, h, Len(history) + 1)
        BY <2>1, <1>1, <1>3, BeginType
  <2>2. CASE thread' = thread
        BY <2>2 DEF TypeOK
  <2> QED BY <2>1, <2>2 DEF Commit
<1>6. faults' \in 0..MaxFaults
      BY Constants DEF Commit, TypeOK, Fault, NoFault
<1> QED BY <1>4, <1>5, <1>6 DEF Commit, TypeOK

\* The rows a handler writes are rows.
LEMMA AdminRows ==
  ASSUME table \subseteq Row
  PROVE  /\ \A e \in Email, u \in Login, b \in Budget : table \cup {Created(e, u, b)} \subseteq Row
         /\ \A r \in Active(table), u \in Login, b \in Budget :
              (table \ {r}) \cup {[r EXCEPT !.github = u, !.budget = b]} \subseteq Row
         /\ \A r \in Active(table) : (table \ {r}) \cup {[r EXCEPT !.active = FALSE]} \subseteq Row
<1>1. \A e \in Email, u \in Login, b \in Budget : Created(e, u, b) \in Row
      BY Constants DEF Created, Row
<1>2. \A r \in Row, u \in Login, b \in Budget : [r EXCEPT !.github = u, !.budget = b] \in Row
      BY DEF Row
<1>3. \A r \in Row : [r EXCEPT !.active = FALSE] \in Row
      BY DEF Row
<1>4. Active(table) \subseteq Row
      BY DEF Active
<1>5. ASSUME NEW r \in Active(table), NEW u \in Login, NEW b \in Budget
      PROVE  (table \ {r}) \cup {[r EXCEPT !.github = u, !.budget = b]} \subseteq Row
  <2>1. [r EXCEPT !.github = u, !.budget = b] \in Row
        BY <1>2, <1>4, <1>5
  <2> QED BY ONLY <2>1, table \subseteq Row
<1>6. ASSUME NEW r \in Active(table)
      PROVE  (table \ {r}) \cup {[r EXCEPT !.active = FALSE]} \subseteq Row
  <2>1. [r EXCEPT !.active = FALSE] \in Row
        BY <1>3, <1>4, <1>6
  <2> QED BY ONLY <2>1, table \subseteq Row
<1>7. ASSUME NEW e \in Email, NEW u \in Login, NEW b \in Budget
      PROVE  table \cup {Created(e, u, b)} \subseteq Row
      BY <1>1, <1>7
<1> QED BY <1>5, <1>6, <1>7

\* The steps of the handlers.
LEMMA AdminType ==
  ASSUME TypeOK, NEW p \in Api, NEW h \in Handler, Admin(p, h)
  PROVE  TypeOK'
<1>0. table \subseteq Row
      BY DEF TypeOK
<1>1. CASE CreateEngineer(p, h)
  <2>1. PICK e \in Email, u \in Login, b \in Budget :
          Commit(p, h, table \cup {Created(e, u, b)})
        BY <1>1 DEF CreateEngineer
  <2>2. table \cup {Created(e, u, b)} \subseteq Row
        BY <2>1, <1>0, AdminRows
  <2> QED BY <2>1, <2>2, CommitType
<1>2. CASE UpdateEngineer(p, h)
  <2>1. PICK r \in Active(table), u \in Login, b \in Budget :
          Commit(p, h, (table \ {r}) \cup {[r EXCEPT !.github = u, !.budget = b]})
        BY <1>2 DEF UpdateEngineer
  <2>2. (table \ {r}) \cup {[r EXCEPT !.github = u, !.budget = b]} \subseteq Row
        BY <2>1, <1>0, AdminRows
  <2> QED BY <2>1, <2>2, CommitType
<1>3. CASE DeactivateEngineer(p, h)
  <2>1. PICK r \in Active(table) :
          Commit(p, h, (table \ {r}) \cup {[r EXCEPT !.active = FALSE]})
        BY <1>3 DEF DeactivateEngineer
  <2>2. (table \ {r}) \cup {[r EXCEPT !.active = FALSE]} \subseteq Row
        BY <2>1, <1>0, AdminRows
  <2> QED BY <2>1, <2>2, CommitType
<1>4. CASE RefreshRegistry(p, h)
  <2>1. p \in Process /\ h \in Thread
        BY DEF Process, Thread
  <2>2. thread' \in [Process -> [Thread -> ThreadState]]
        BY <1>4, <2>1, BeginType DEF RefreshRegistry
  <2> QED BY <1>4, <2>2 DEF RefreshRegistry, TypeOK
<1> QED BY <1>1, <1>2, <1>3, <1>4 DEF Admin

\* No step breaks a type.
LEMMA TypeStep == TypeOK /\ [Next]_vars => TypeOK'
<1> SUFFICES ASSUME TypeOK, [Next]_vars PROVE TypeOK'
    OBVIOUS
<1>a. ASSUME NEW p \in Api, NEW h \in Handler, Admin(p, h) PROVE TypeOK'
      BY <1>a, AdminType
<1> USE Constants DEF TypeOK
<1>0. "main" \in Thread /\ MaxFaults \in Nat
      BY DEF Thread
<1>1. ASSUME NEW p \in Process, Start(p) \/ RefreshTick(p) PROVE TypeOK'
  <2>1. thread' \in [Process -> [Thread -> ThreadState]]
        BY <1>0, <1>1, BeginType DEF Start, RefreshTick
  <2> QED BY <1>1, <2>1 DEF Start, RefreshTick
<1>2. ASSUME NEW p \in Process, Crash(p) PROVE TypeOK'
      BY <1>0, <1>2, EndType DEF Crash, Fault
<1>3. ASSUME NEW p \in Process, NEW t \in Thread, Query(p, t) PROVE TypeOK'
  <2>1. Active(table) \subseteq Row /\ Len(history) \in Nat
        BY DEF Active
  <2>2. thread[p][t] \in ThreadState
        BY <1>3
  <2>3. [thread[p][t] EXCEPT !.pc = "store", !.rows = Active(table), !.of = Len(history)] \in ThreadState
        BY <2>1, <2>2 DEF ThreadState
  <2>4. thread' \in [Process -> [Thread -> ThreadState]]
        BY <1>3, <2>3 DEF Query
  <2> QED BY <1>3, <2>4 DEF Query
<1>4. ASSUME NEW p \in Process, NEW t \in Thread, StoreSnapshot(p, t) PROVE TypeOK'
  <2>1. Idle \in ThreadState /\ thread[p][t] \in ThreadState
        BY <1>4 DEF Idle, ThreadState
  <2>2. /\ thread[p][t].rows \subseteq Row /\ thread[p][t].of \in Nat /\ thread[p][t].wrote \in Nat
        BY <2>1 DEF ThreadState
  <2>3. [byEmail |-> ByEmail(thread[p][t].rows), byGitHub |-> ByGitHub(thread[p][t].rows)] \in Snapshot
        BY <2>2, MapsAreRows DEF Snapshot
  <2>4. snap' \in [Process -> Snapshot]
        BY <1>4, <2>3 DEF StoreSnapshot
  <2>5. thread' \in [Process -> [Thread -> ThreadState]]
        BY <1>4, <2>1 DEF StoreSnapshot
  <2>6. returned' \in [Process -> Promise]
        BY <1>4, ReturnsType DEF StoreSnapshot
  <2> QED BY <1>4, <2>2, <2>4, <2>5, <2>6 DEF StoreSnapshot
<1>5. ASSUME NEW p \in Process, NEW t \in Thread, LoadFails(p, t) PROVE TypeOK'
  <2>1. /\ proc' \in [Process -> {"down", "starting", "up"}]
        /\ thread' \in [Process -> [Thread -> ThreadState]]
        /\ snap' \in [Process -> Snapshot]
        /\ snapOf' \in [Process -> Nat]
        /\ lastError' \in [Process -> BOOLEAN]
        /\ returned' \in [Process -> Promise]
    <3>1. CASE End(p)
          BY <3>1, EndType
    <3>2. CASE /\ thread' = [thread EXCEPT ![p][t] = Idle]
               /\ lastError' = [lastError EXCEPT ![p] = TRUE]
               /\ returned' = [returned EXCEPT ![p] = LoadReturns(returned[p], p, t, FALSE)]
               /\ UNCHANGED <<proc, snap, snapOf>>
      <4>1. Idle \in ThreadState /\ LoadReturns(returned[p], p, t, FALSE) \in Promise
            BY ReturnsType DEF Idle, ThreadState
      <4> QED BY <3>2, <4>1
    <3> QED BY <1>5, <3>1, <3>2 DEF LoadFails
  <2>2. table' = table /\ history' = history /\ faults' \in 0..MaxFaults
        BY <1>0, <1>5 DEF LoadFails, Fault
  <2> QED BY <2>1, <2>2
<1>6. CASE UNCHANGED vars
      BY <1>6 DEF vars
<1> QED BY <1>1, <1>2, <1>3, <1>4, <1>5, <1>a, <1>6 DEF Next, Load

\* Every variable of the registry keeps its type, whatever handlers, ticker
\* and faults do.
THEOREM TypeCorrect == Spec => []TypeOK
<1>1. Init => TypeOK
  <2> SUFFICES ASSUME Init PROVE TypeOK
      OBVIOUS
  <2>1. Idle \in ThreadState /\ NoSnap \in Snapshot /\ NoReturn \in Promise /\ Seed \subseteq Row
        BY Constants DEF Idle, NoSnap, NoReturn, ThreadState, Snapshot, Promise
  <2>2. <<Seed>> \in Seq(SUBSET Row) /\ Len(<<Seed>>) = 1
        BY <2>1
  <2> QED BY <2>1, <2>2, Constants DEF Init, TypeOK
<1> QED BY <1>1, TypeStep, PTL DEF Spec

-----------------------------------------------------------------------------
(* The registry implements its view                                        *)

\* No state of the table holds a key twice, and the last one is the present.
TableInv ==
  /\ Unique(table)
  /\ \A i \in 1..Len(history) : Unique(history[i])
  /\ history[Len(history)] = Active(table)

\* What a Load is about to store is a state of the table.
LoadInv ==
  \A p \in Process, t \in Thread :
    thread[p][t].pc = "store" => \E i \in 1..Len(history) : thread[p][t].rows = history[i]

\* Without a key twice, either map holds every row that was read.
LEMMA MapsAreComplete ==
  ASSUME NEW rows, Unique(rows)
  PROVE  ByEmail(rows) = rows /\ ByGitHub(rows) = rows
<1>1. ASSUME NEW r \in rows PROVE r = (CHOOSE s \in rows : s.email = r.email)
      BY <1>1 DEF Unique
<1>2. ASSUME NEW r \in rows PROVE r = (CHOOSE s \in rows : s.github = r.github)
      BY <1>2 DEF Unique
<1>3. rows \subseteq ByEmail(rows)
      BY <1>1 DEF ByEmail
<1>4. rows \subseteq ByGitHub(rows)
      BY <1>2 DEF ByGitHub
<1> QED BY <1>3, <1>4, MapsAreRows

\* A row with keys nobody else has.
LEMMA AddUnique ==
  ASSUME NEW rows, Unique(rows), NEW n, \A s \in rows : s.email # n.email /\ s.github # n.github
  PROVE  Unique(rows \cup {n})
<1> SUFFICES ASSUME NEW r \in rows \cup {n}, NEW s \in rows \cup {n},
                    r.email = s.email \/ r.github = s.github
             PROVE  r = s
    BY DEF Unique
<1>1. CASE r \in rows /\ s \in rows
      BY <1>1 DEF Unique
<1>2. CASE r = n \/ s = n
      BY <1>2
<1> QED BY <1>1, <1>2

\* What a handler writes has no key twice.
LEMMA AdminUnique ==
  ASSUME table \subseteq Row, Unique(table)
  PROVE  /\ \A e \in Email, u \in Login, b \in Budget :
              Free(e, u) => Unique(table \cup {Created(e, u, b)})
         /\ \A r \in Active(table), u \in Login, b \in Budget :
              (\A s \in table \ {r} : s.github # u)
                => Unique((table \ {r}) \cup {[r EXCEPT !.github = u, !.budget = b]})
         /\ \A r \in Active(table) : Unique((table \ {r}) \cup {[r EXCEPT !.active = FALSE]})
<1>1. ASSUME NEW e \in Email, NEW u \in Login, NEW b \in Budget, Free(e, u)
      PROVE  Unique(table \cup {Created(e, u, b)})
  <2>1. Created(e, u, b).email = e /\ Created(e, u, b).github = u
        BY DEF Created
  <2> QED BY <1>1, <2>1, AddUnique DEF Free
<1>0. ASSUME NEW r \in Active(table)
      PROVE  /\ r \in Row /\ Unique(table \ {r})
             /\ \A s \in table \ {r} : s.email # r.email /\ s.github # r.github
      BY <1>0 DEF Active, Unique
<1>2. ASSUME NEW r \in Active(table), NEW u \in Login, NEW b \in Budget,
             \A s \in table \ {r} : s.github # u
      PROVE  Unique((table \ {r}) \cup {[r EXCEPT !.github = u, !.budget = b]})
  <2> DEFINE n == [r EXCEPT !.github = u, !.budget = b]
  <2>1. n.email = r.email /\ n.github = u
        BY <1>0 DEF Row
  <2> HIDE DEF n
  <2>2. Unique((table \ {r}) \cup {n})
        BY <1>0, <1>2, <2>1, AddUnique
  <2> QED BY <2>2 DEF n
<1>3. ASSUME NEW r \in Active(table)
      PROVE  Unique((table \ {r}) \cup {[r EXCEPT !.active = FALSE]})
  <2> DEFINE n == [r EXCEPT !.active = FALSE]
  <2>1. n.email = r.email /\ n.github = r.github
        BY <1>0 DEF Row
  <2> HIDE DEF n
  <2>2. Unique((table \ {r}) \cup {n})
        BY <1>0, <1>3, <2>1, AddUnique
  <2> QED BY <2>2 DEF n
<1> QED BY <1>1, <1>2, <1>3

\* A write appends a state without a key twice, and is a write of the view.
LEMMA CommitStep ==
  ASSUME TypeOK, TableInv, LoadInv, NEW p \in Api, NEW h \in Handler, NEW rows,
         rows \subseteq Row, Unique(rows), Commit(p, h, rows)
  PROVE  TableInv' /\ LoadInv' /\ View!Write
<1> DEFINE s == Active(rows)
<1>1. s \subseteq Row /\ Unique(s)
      BY DEF Active, Unique
<1>2. p \in Process /\ h \in Thread
      BY DEF Process, Thread
<1>3. history' = Append(history, s) /\ table' = rows /\ snap' = snap
      BY DEF Commit
<1>4. /\ Len(history) \in Nat /\ history \in Seq(SUBSET Row)
      BY DEF TypeOK
<1> HIDE DEF s
<1>5. /\ Len(history') = Len(history) + 1
      /\ \A i \in 1..Len(history) : history'[i] = history[i]
      /\ history'[Len(history) + 1] = s
      BY <1>1, <1>3, <1>4
<1>6. TableInv'
      BY <1>1, <1>3, <1>4, <1>5 DEF TableInv, s
<1>7. LoadInv'
  <2> SUFFICES ASSUME NEW q \in Process, NEW t \in Thread, thread'[q][t].pc = "store"
               PROVE  \E i \in 1..Len(history') : thread'[q][t].rows = history'[i]
      BY DEF LoadInv
  <2>1. thread'[q][t] = thread[q][t]
    <3>1. CASE thread' = thread
          BY <3>1
    <3>2. CASE BeginLoad(p, h, Len(history) + 1)
          BY <1>2, <3>2 DEF BeginLoad, Idle, TypeOK
    <3> QED BY <3>1, <3>2 DEF Commit
  <2> QED BY <1>4, <1>5, <2>1 DEF LoadInv
<1>8. View!Write
      BY <1>3, <1>5 DEF View!Write
<1> QED BY <1>6, <1>7, <1>8

\* The steps of the handlers.
LEMMA AdminStep ==
  ASSUME TypeOK, TableInv, LoadInv, NEW p \in Api, NEW h \in Handler,
         CreateEngineer(p, h) \/ UpdateEngineer(p, h) \/ DeactivateEngineer(p, h)
  PROVE  TableInv' /\ LoadInv' /\ View!Write
<1>0. table \subseteq Row /\ Unique(table)
      BY DEF TypeOK, TableInv
<1>1. CASE CreateEngineer(p, h)
  <2>1. PICK e \in Email, u \in Login, b \in Budget :
          Free(e, u) /\ Commit(p, h, table \cup {Created(e, u, b)})
        BY <1>1 DEF CreateEngineer
  <2>2. table \cup {Created(e, u, b)} \subseteq Row /\ Unique(table \cup {Created(e, u, b)})
        BY <1>0, <2>1, AdminRows, AdminUnique
  <2> QED BY <2>1, <2>2, CommitStep
<1>2. CASE UpdateEngineer(p, h)
  <2>1. PICK r \in Active(table), u \in Login, b \in Budget :
          /\ \A s \in table \ {r} : s.github # u
          /\ Commit(p, h, (table \ {r}) \cup {[r EXCEPT !.github = u, !.budget = b]})
        BY <1>2 DEF UpdateEngineer
  <2>2. /\ (table \ {r}) \cup {[r EXCEPT !.github = u, !.budget = b]} \subseteq Row
        /\ Unique((table \ {r}) \cup {[r EXCEPT !.github = u, !.budget = b]})
        BY <1>0, <2>1, AdminRows, AdminUnique
  <2> QED BY <2>1, <2>2, CommitStep
<1>3. CASE DeactivateEngineer(p, h)
  <2>1. PICK r \in Active(table) :
          Commit(p, h, (table \ {r}) \cup {[r EXCEPT !.active = FALSE]})
        BY <1>3 DEF DeactivateEngineer
  <2>2. /\ (table \ {r}) \cup {[r EXCEPT !.active = FALSE]} \subseteq Row
        /\ Unique((table \ {r}) \cup {[r EXCEPT !.active = FALSE]})
        BY <1>0, <2>1, AdminRows, AdminUnique
  <2> QED BY <2>1, <2>2, CommitStep
<1> QED BY <1>1, <1>2, <1>3

\* Beginning a Load, ending a process and failing leave what is about to be
\* stored as it was, or drop it.
LEMMA KeepLoads ==
  ASSUME LoadInv, history' = history,
         \A q \in Process, t \in Thread :
           thread'[q][t].pc = "store" => thread'[q][t] = thread[q][t]
  PROVE  LoadInv'
BY DEF LoadInv

\* The swap replaces the view by a state of the table.
LEMMA StoreStep ==
  ASSUME TypeOK, TableInv, LoadInv, NEW p \in Process, NEW t \in Thread, StoreSnapshot(p, t)
  PROVE  TableInv' /\ LoadInv' /\ View!Refresh(p)
<1>1. history' = history /\ table' = table
      BY DEF StoreSnapshot
<1>2. LoadInv'
  <2>1. \A q \in Process, u \in Thread :
          thread'[q][u].pc = "store" => thread'[q][u] = thread[q][u]
        BY DEF StoreSnapshot, Idle, TypeOK
  <2> QED BY <1>1, <2>1, KeepLoads
<1>3. PICK i \in 1..Len(history) : thread[p][t].rows = history[i]
      BY DEF StoreSnapshot, LoadInv
<1>4. ByEmail(history[i]) = history[i] /\ ByGitHub(history[i]) = history[i]
      BY <1>3, MapsAreComplete DEF TableInv
<1>5. snap' = [snap EXCEPT ![p] = [byEmail |-> history[i], byGitHub |-> history[i]]]
      BY <1>3, <1>4 DEF StoreSnapshot
<1> QED BY <1>1, <1>2, <1>3, <1>5 DEF TableInv, View!Refresh, View!Both

\* A process that ends loses its view and its loads.
LEMMA EndStep ==
  ASSUME TypeOK, TableInv, LoadInv, NEW p \in Process, End(p), UNCHANGED <<table, history>>
  PROVE  TableInv' /\ LoadInv' /\ View!Stop(p)
<1>1. \A q \in Process, t \in Thread :
        thread'[q][t].pc = "store" => thread'[q][t] = thread[q][t]
      BY DEF End, Idle, TypeOK
<1>2. LoadInv'
      BY <1>1, KeepLoads
<1>3. View!Stop(p)
      BY DEF End, NoSnap, View!Stop, View!Both
<1> QED BY <1>2, <1>3 DEF TableInv

\* Every step is a step of the view or leaves it alone.
LEMMA Simulation ==
  TypeOK /\ TableInv /\ LoadInv /\ [Next]_vars => TableInv' /\ LoadInv' /\ [View!Next]_(View!vars)
<1> SUFFICES ASSUME TypeOK, TableInv, LoadInv, [Next]_vars
             PROVE  TableInv' /\ LoadInv' /\ [View!Next]_(View!vars)
    OBVIOUS
<1> DEFINE Quiet == UNCHANGED <<table, history, snap>>
<1>0. ASSUME Quiet, LoadInv' PROVE TableInv' /\ LoadInv' /\ UNCHANGED View!vars
      BY <1>0 DEF TableInv, View!vars
<1>1. ASSUME NEW p \in Process, NEW t \in Thread, NEW w, BeginLoad(p, t, w), Quiet
      PROVE  TableInv' /\ LoadInv' /\ UNCHANGED View!vars
  <2>1. \A q \in Process, u \in Thread :
          thread'[q][u].pc = "store" => thread'[q][u] = thread[q][u]
        BY <1>1 DEF BeginLoad, Idle, TypeOK
  <2> QED BY <1>0, <1>1, <2>1, KeepLoads
<1>2. ASSUME NEW p \in Process, Start(p) \/ RefreshTick(p)
      PROVE  TableInv' /\ LoadInv' /\ UNCHANGED View!vars
  <2>1. "main" \in Thread
        BY DEF Thread
  <2> QED BY <1>1, <1>2, <2>1 DEF Start, RefreshTick
<1>3. ASSUME NEW p \in Process, Crash(p)
      PROVE  TableInv' /\ LoadInv' /\ View!Stop(p)
      BY <1>3, EndStep DEF Crash
<1>4. ASSUME NEW p \in Process, NEW t \in Thread, Query(p, t)
      PROVE  TableInv' /\ LoadInv' /\ UNCHANGED View!vars
  <2>1. LoadInv'
    <3> SUFFICES ASSUME NEW q \in Process, NEW u \in Thread, thread'[q][u].pc = "store"
                 PROVE  \E i \in 1..Len(history) : thread'[q][u].rows = history[i]
        BY <1>4 DEF LoadInv, Query
    <3>1. CASE q = p /\ u = t
      <4>1. thread'[q][u].rows = Active(table)
            BY <1>4, <3>1 DEF Query, TypeOK, ThreadState
      <4>2. Len(history) \in 1..Len(history) /\ history[Len(history)] = Active(table)
            BY DEF TypeOK, TableInv
      <4> QED BY <4>1, <4>2
    <3>2. CASE ~(q = p /\ u = t)
      <4>1. thread'[q][u] = thread[q][u]
            BY <1>4, <3>2 DEF Query, TypeOK
      <4> QED BY <4>1 DEF LoadInv
    <3> QED BY <3>1, <3>2
  <2> QED BY <1>0, <1>4, <2>1 DEF Query
<1>5. ASSUME NEW p \in Process, NEW t \in Thread, LoadFails(p, t)
      PROVE  TableInv' /\ LoadInv' /\ (View!Stop(p) \/ UNCHANGED View!vars)
  <2>1. CASE End(p)
        BY <1>5, <2>1, EndStep DEF LoadFails
  <2>2. CASE thread' = [thread EXCEPT ![p][t] = Idle] /\ snap' = snap
    <3>1. \A q \in Process, u \in Thread :
            thread'[q][u].pc = "store" => thread'[q][u] = thread[q][u]
          BY <2>2 DEF Idle, TypeOK
    <3>2. Quiet
          BY <1>5, <2>2 DEF LoadFails
    <3> QED BY <1>0, <3>1, <3>2, KeepLoads
  <2> QED BY <1>5, <2>1, <2>2 DEF LoadFails
<1>6. ASSUME NEW p \in Api, NEW h \in Handler, RefreshRegistry(p, h)
      PROVE  TableInv' /\ LoadInv' /\ UNCHANGED View!vars
  <2>1. p \in Process /\ h \in Thread
        BY DEF Process, Thread
  <2> QED BY <1>1, <1>6, <2>1 DEF RefreshRegistry
<1>7. CASE UNCHANGED vars
  <2>1. LoadInv'
        BY <1>7 DEF vars, LoadInv
  <2> QED BY <1>0, <1>7, <2>1 DEF vars
<1>8. CASE \E p \in Process : \/ Start(p) \/ RefreshTick(p) \/ Crash(p)
                             \/ \E t \in Thread : Load(p, t) \/ LoadFails(p, t)
      BY <1>2, <1>3, <1>4, <1>5, <1>8, StoreStep DEF Load, View!Next
<1>9. CASE \E p \in Api, h \in Handler : Admin(p, h)
      BY <1>6, <1>9, AdminStep DEF Admin, View!Next
<1> QED BY <1>7, <1>8, <1>9 DEF Next

\* The registry implements its view: however loads overlap, fail or are cut
\* off by a crash, a lookup sees one state of the table, by either key.
THEOREM Implements == Spec => ServesPastState
<1>1. Init => TableInv /\ LoadInv /\ View!Init
  <2> SUFFICES ASSUME Init PROVE TableInv /\ LoadInv /\ View!Init
      OBVIOUS
  <2>1. Len(<<Seed>>) = 1 /\ <<Seed>>[1] = Seed /\ Active(Seed) = Seed
        BY Constants DEF Active
  <2>2. TableInv
        BY <2>1, Constants DEF Init, TableInv
  <2>3. LoadInv
        BY DEF Init, LoadInv, Idle
  <2>4. View!Init
        BY DEF Init, NoSnap, View!Init, View!Both
  <2> QED BY <2>2, <2>3, <2>4
<1> QED BY <1>1, TypeCorrect, Simulation, PTL DEF Spec, ServesPastState, View!Spec

-----------------------------------------------------------------------------
(* A handler that returns is seen                                          *)

\* A Load queries after the write it is for.
WroteInv ==
  \A p \in Process, t \in Thread :
    /\ thread[p][t].wrote <= Len(history)
    /\ thread[p][t].pc = "store" => thread[p][t].wrote <= thread[p][t].of

\* The interval 0..m is bounded by m.
LEMMA UpTo == \A m \in Nat : \A w \in 0..m : w <= m
OBVIOUS

\* One goroutine, while history grows from n entries to m.
LEMMA WroteOne ==
  ASSUME NEW x \in ThreadState, NEW y, NEW n \in Nat, NEW m \in Nat, n <= m,
         x.wrote <= n, x.pc = "store" => x.wrote <= x.of,
         \/ y = x \/ y = Idle
         \/ \E w \in 0..m : y = [Idle EXCEPT !.pc = "query", !.wrote = w]
         \/ y.wrote = x.wrote /\ y.of = n
  PROVE  y.wrote <= m /\ (y.pc = "store" => y.wrote <= y.of)
<1>1. x.wrote \in Nat
      BY DEF ThreadState
<1>2. CASE y = x
      BY <1>1, <1>2
<1>3. CASE y = Idle
      BY <1>3 DEF Idle
<1>4. CASE \E w \in 0..m : y = [Idle EXCEPT !.pc = "query", !.wrote = w]
  <2>1. PICK w \in 0..m : y = [Idle EXCEPT !.pc = "query", !.wrote = w]
        BY <1>4
  <2>2. y.wrote = w /\ y.pc = "query"
        BY <2>1 DEF Idle
  <2>3. w \in 0..m
        BY <2>1
  <2>4. w <= m
        BY <2>3, UpTo
  <2> QED BY <2>2, <2>4
<1>5. CASE y.wrote = x.wrote /\ y.of = n
      BY <1>1, <1>5
<1> QED BY <1>2, <1>3, <1>4, <1>5

\* The history of the table is as long as the number of its writes.
LEMMA HistoryLength == ASSUME TypeOK PROVE Len(history) \in Nat
BY Constants DEF TypeOK

\* Each goroutine stays as it is or ends, begins a Load for an entry that is
\* written, or has read the last entry; history only grows.
GoesOn(q, u) ==
  \/ thread'[q][u] = thread[q][u] \/ thread'[q][u] = Idle
  \/ \E w \in 0..Len(history') : thread'[q][u] = [Idle EXCEPT !.pc = "query", !.wrote = w]
  \/ thread'[q][u].wrote = thread[q][u].wrote /\ thread'[q][u].of = Len(history)

Grown ==
  /\ Len(history') \in Nat /\ Len(history) <= Len(history')
  /\ \A q \in Process, u \in Thread : GoesOn(q, u)

\* Where history stays, and goroutines go on, end, or begin a Load of no write.
LEMMA GrownSame ==
  ASSUME TypeOK, history' = history,
         \A q \in Process, u \in Thread :
           \/ thread'[q][u] = thread[q][u] \/ thread'[q][u] = Idle
           \/ thread'[q][u] = [Idle EXCEPT !.pc = "query", !.wrote = 0]
  PROVE  Grown
<1>1. Len(history) \in Nat /\ Len(history') = Len(history)
      BY HistoryLength
<1>2. 0 \in 0..Len(history') /\ Len(history') \in Nat /\ Len(history) <= Len(history')
      BY <1>1
<1>3. ASSUME NEW q \in Process, NEW u \in Thread PROVE GoesOn(q, u)
      BY <1>2 DEF GoesOn
<1> QED BY <1>2, <1>3 DEF Grown

\* A history that only grows keeps what loads have to read.
LEMMA WroteKept == ASSUME TypeOK, WroteInv, Grown PROVE WroteInv'
<1> SUFFICES ASSUME NEW q \in Process, NEW u \in Thread
             PROVE  /\ thread'[q][u].wrote <= Len(history')
                    /\ thread'[q][u].pc = "store" => thread'[q][u].wrote <= thread'[q][u].of
    BY DEF WroteInv
<1>1. thread[q][u] \in ThreadState
      BY DEF TypeOK
<1>2. /\ thread[q][u].wrote <= Len(history)
      /\ thread[q][u].pc = "store" => thread[q][u].wrote <= thread[q][u].of
      BY DEF WroteInv
<1>3. Len(history') \in Nat /\ Len(history) <= Len(history') /\ GoesOn(q, u)
      BY DEF Grown
<1> QED BY <1>1, <1>2, <1>3, HistoryLength, WroteOne DEF GoesOn

\* What a handler that has returned leaves behind: its entry exists, a Load
\* that has queried since shows it, and if the snapshot does not, the last Load
\* failed or had queried before.
ReturnedInv ==
  \A p \in Process :
    /\ returned[p].entry <= Len(history)
    /\ \A t \in Thread :
         thread[p][t].pc = "store" /\ t \notin returned[p].older
           => returned[p].entry <= thread[p][t].of
    /\ snapOf[p] < returned[p].entry => lastError[p] \/ returned[p].stale

\* No handler returns, and every Load that is to store has read the last entry
\* or is as it was.
LEMMA ReturnedKept ==
  ASSUME TypeOK, ReturnedInv, Grown, UNCHANGED <<returned, snapOf, lastError>>,
         \A q \in Process, u \in Thread :
           thread'[q][u].pc = "store" =>
             thread'[q][u] = thread[q][u] \/ thread'[q][u].of = Len(history)
  PROVE  ReturnedInv'
<1> SUFFICES ASSUME NEW q \in Process
             PROVE  /\ returned[q].entry <= Len(history')
                    /\ \A t \in Thread :
                         thread'[q][t].pc = "store" /\ t \notin returned[q].older
                           => returned[q].entry <= thread'[q][t].of
                    /\ snapOf[q] < returned[q].entry => lastError[q] \/ returned[q].stale
    BY DEF ReturnedInv
<1>1. /\ Len(history) \in Nat /\ Len(history') \in Nat /\ Len(history) <= Len(history')
      /\ returned[q].entry \in Nat /\ returned[q].entry <= Len(history)
      BY HistoryLength DEF TypeOK, Promise, Grown, ReturnedInv
<1>2. returned[q].entry <= Len(history')
      BY <1>1
<1>3. ASSUME NEW t \in Thread, thread'[q][t].pc = "store", t \notin returned[q].older
      PROVE  returned[q].entry <= thread'[q][t].of
      BY <1>1, <1>3 DEF ReturnedInv
<1>4. snapOf[q] < returned[q].entry => lastError[q] \/ returned[q].stale
      BY DEF ReturnedInv
<1> QED BY <1>2, <1>3, <1>4

\* A Load begins, for an entry that is written or for none.
LEMMA BeginKept ==
  ASSUME TypeOK, WroteInv, ReturnedInv, NEW p \in Process, NEW t \in Thread,
         BeginLoad(p, t, 0), UNCHANGED <<history, returned, snapOf, lastError>>
  PROVE  WroteInv' /\ ReturnedInv'
<1>1. \A q \in Process, u \in Thread :
        thread'[q][u] = thread[q][u] \/ thread'[q][u] = [Idle EXCEPT !.pc = "query", !.wrote = 0]
      BY DEF BeginLoad, TypeOK
<1>2. ASSUME NEW q \in Process, NEW u \in Thread, thread'[q][u].pc = "store"
      PROVE  thread'[q][u] = thread[q][u]
      BY <1>1, <1>2 DEF Idle
<1>3. Grown
      BY <1>1, GrownSame
<1> QED BY <1>2, <1>3, WroteKept, ReturnedKept

\* A process that ends has promised nothing.
LEMMA EndKept ==
  ASSUME TypeOK, WroteInv, ReturnedInv, NEW p \in Process, End(p), history' = history
  PROVE  WroteInv' /\ ReturnedInv'
<1>1. /\ \A q \in Process \ {p} : /\ thread'[q] = thread[q] /\ returned'[q] = returned[q]
                                  /\ snapOf'[q] = snapOf[q] /\ lastError'[q] = lastError[q]
      /\ thread'[p] = [t \in Thread |-> Idle] /\ returned'[p] = NoReturn /\ snapOf'[p] = 0
      BY DEF End, TypeOK
<1>2. Grown
      BY <1>1, GrownSame
<1>3. WroteInv'
      BY <1>2, WroteKept
<1>4. ReturnedInv'
  <2>1. Len(history) \in Nat
        BY HistoryLength
  <2>2. ASSUME NEW q \in Process \ {p}
        PROVE  /\ returned'[q].entry <= Len(history')
               /\ \A t \in Thread :
                    thread'[q][t].pc = "store" /\ t \notin returned'[q].older
                      => returned'[q].entry <= thread'[q][t].of
               /\ snapOf'[q] < returned'[q].entry => lastError'[q] \/ returned'[q].stale
        BY <1>1 DEF ReturnedInv
  <2>3. /\ returned'[p].entry <= Len(history')
        /\ \A t \in Thread : thread'[p][t].pc # "store"
        /\ ~(snapOf'[p] < returned'[p].entry)
        BY <1>1, <2>1 DEF NoReturn, Idle
  <2> QED BY <2>2, <2>3 DEF ReturnedInv
<1> QED BY <1>3, <1>4

\* A Load that ends, and the handler with it: it has stored what it read (ok)
\* or recorded the error.
LEMMA ReturnsKept ==
  ASSUME TypeOK, WroteInv, ReturnedInv, NEW p \in Process, NEW t \in Thread, NEW ok \in BOOLEAN,
         thread' = [thread EXCEPT ![p][t] = Idle], history' = history,
         returned' = [returned EXCEPT ![p] = LoadReturns(returned[p], p, t, ok)],
         IF ok THEN /\ thread[p][t].pc = "store"
                    /\ snapOf' = [snapOf EXCEPT ![p] = thread[p][t].of]
                    /\ lastError' = [lastError EXCEPT ![p] = FALSE]
               ELSE snapOf' = snapOf /\ lastError' = [lastError EXCEPT ![p] = TRUE]
  PROVE  WroteInv' /\ ReturnedInv'
<1> DEFINE x == thread[p][t]
           r == returned[p]
<1>1. /\ x \in ThreadState /\ x.wrote \in Nat /\ x.of \in Nat
      /\ r \in Promise /\ r.entry \in Nat /\ Len(history) \in Nat
      BY HistoryLength DEF TypeOK, ThreadState, Promise
<1>2. /\ x.wrote <= Len(history) /\ (ok => x.wrote <= x.of)
      /\ r.entry <= Len(history) /\ (ok /\ t \notin r.older => r.entry <= x.of)
      BY DEF WroteInv, ReturnedInv
<1>3. /\ \A q \in Process \ {p} : /\ thread'[q] = thread[q] /\ returned'[q] = returned[q]
                                  /\ snapOf'[q] = snapOf[q] /\ lastError'[q] = lastError[q]
      /\ \A u \in Thread \ {t} : thread'[p][u] = thread[p][u]
      /\ thread'[p][t] = Idle /\ returned'[p] = LoadReturns(r, p, t, ok)
      /\ ok => snapOf'[p] = x.of
      /\ ~ok => lastError'[p]
      BY DEF TypeOK
<1>4. WroteInv'
  <2>1. \A q \in Process, u \in Thread : thread'[q][u] = thread[q][u] \/ thread'[q][u] = Idle
        BY <1>3
  <2> QED BY <2>1, GrownSame, WroteKept
<1>5. ASSUME NEW q \in Process \ {p}
      PROVE  /\ returned'[q].entry <= Len(history')
             /\ \A u \in Thread :
                  thread'[q][u].pc = "store" /\ u \notin returned'[q].older
                    => returned'[q].entry <= thread'[q][u].of
             /\ snapOf'[q] < returned'[q].entry => lastError'[q] \/ returned'[q].stale
      BY <1>3 DEF ReturnedInv
<1>6. /\ returned'[p].entry <= Len(history')
      /\ \A u \in Thread :
           thread'[p][u].pc = "store" /\ u \notin returned'[p].older
             => returned'[p].entry <= thread'[p][u].of
      /\ snapOf'[p] < returned'[p].entry => lastError'[p] \/ returned'[p].stale
  <2>0. thread'[p][t].pc # "store"
        BY <1>3 DEF Idle
  <2>1. CASE x.wrote > r.entry
    <3>1. /\ returned'[p].entry = x.wrote
          /\ returned'[p].older = {u \in Thread \ {t} : thread[p][u].pc = "store"}
          BY <1>3, <2>1 DEF LoadReturns
    <3>2. \A u \in Thread : thread'[p][u].pc = "store" => u \in returned'[p].older
          BY <1>3, <2>0, <3>1
    <3>3. snapOf'[p] < returned'[p].entry => lastError'[p]
          BY <1>1, <1>2, <1>3, <3>1
    <3> QED BY <1>2, <3>1, <3>2, <3>3
  <2>2. CASE ~(x.wrote > r.entry)
    <3>1. /\ returned'[p].entry = r.entry /\ returned'[p].older = r.older \ {t}
          /\ ok /\ t \in r.older => returned'[p].stale
          BY <1>3, <2>2, NothingNew
    <3>2. ASSUME NEW u \in Thread, thread'[p][u].pc = "store", u \notin returned'[p].older
          PROVE  returned'[p].entry <= thread'[p][u].of
          BY <1>3, <2>0, <3>1, <3>2 DEF ReturnedInv
    <3>3. CASE ok
      <4>1. CASE t \in r.older
            BY <1>2, <3>1, <3>2, <3>3, <4>1
      <4>2. CASE t \notin r.older
        <5>1. snapOf'[p] = x.of /\ r.entry <= x.of
              BY <1>2, <1>3, <3>3, <4>2
        <5>2. ~(snapOf'[p] < returned'[p].entry)
              BY <1>1, <3>1, <5>1
        <5> QED BY <1>2, <3>1, <3>2, <5>2
      <4> QED BY <4>1, <4>2
    <3>4. CASE ~ok
          BY <1>2, <1>3, <3>1, <3>2, <3>4
    <3> QED BY <3>3, <3>4
  <2> QED BY <2>1, <2>2
<1>7. ReturnedInv'
      BY <1>5, <1>6 DEF ReturnedInv
<1> QED BY <1>4, <1>7

\* A handler's own write is the last entry when its Load begins.
LEMMA CommitKept ==
  ASSUME TypeOK, WroteInv, ReturnedInv, NEW p \in Api, NEW h \in Handler, NEW rows, Commit(p, h, rows)
  PROVE  WroteInv' /\ ReturnedInv'
<1>1. /\ Len(history) \in Nat /\ history \in Seq(SUBSET Row) /\ p \in Process /\ h \in Thread
      /\ thread \in [Process -> [Thread -> ThreadState]]
      BY HistoryLength DEF TypeOK, Process, Thread
<1>2. Len(history') = Len(history) + 1
      BY <1>1 DEF Commit
<1>3. ASSUME NEW q \in Process, NEW u \in Thread
      PROVE  \/ thread'[q][u] = thread[q][u]
             \/ thread'[q][u] = [Idle EXCEPT !.pc = "query", !.wrote = Len(history')]
      BY <1>1, <1>2 DEF Commit, BeginLoad
<1>4. Grown
  <2>1. Len(history') \in 0..Len(history') /\ Len(history') \in Nat /\ Len(history) <= Len(history')
        BY <1>1, <1>2
  <2>2. ASSUME NEW q \in Process, NEW u \in Thread PROVE GoesOn(q, u)
        BY <1>3, <2>1 DEF GoesOn
  <2> QED BY <2>1, <2>2 DEF Grown
<1>5. \A q \in Process, u \in Thread :
        thread'[q][u].pc = "store" => thread'[q][u] = thread[q][u]
      BY <1>3 DEF Idle
<1> QED BY <1>4, <1>5, WroteKept, ReturnedKept DEF Commit

\* A Load that queries reads the last entry.
LEMMA QueryKept ==
  ASSUME TypeOK, WroteInv, ReturnedInv, NEW p \in Process, NEW t \in Thread, Query(p, t)
  PROVE  WroteInv' /\ ReturnedInv'
<1>1. /\ thread' = [thread EXCEPT ![p][t] = [thread[p][t] EXCEPT !.pc = "store", !.rows = Active(table),
                                                                 !.of = Len(history)]]
      /\ UNCHANGED <<history, returned, snapOf, lastError>>
      BY DEF Query
<1>2. thread[p][t] \in ThreadState /\ thread \in [Process -> [Thread -> ThreadState]]
      BY DEF TypeOK
<1>3. /\ thread'[p][t].wrote = thread[p][t].wrote /\ thread'[p][t].of = Len(history)
      /\ \A q \in Process, u \in Thread : (q = p /\ u = t) \/ thread'[q][u] = thread[q][u]
      BY <1>1, <1>2 DEF ThreadState
<1>4. Grown
  <2>1. Len(history') \in Nat /\ Len(history) <= Len(history')
        BY <1>1, HistoryLength
  <2>2. ASSUME NEW q \in Process, NEW u \in Thread PROVE GoesOn(q, u)
        BY <1>3 DEF GoesOn
  <2> QED BY <2>1, <2>2 DEF Grown
<1> QED BY <1>1, <1>3, <1>4, WroteKept, ReturnedKept

\* Every step keeps the order of write and query, and what was promised.
LEMMA ReturnedStep ==
  TypeOK /\ WroteInv /\ ReturnedInv /\ [Next]_vars => WroteInv' /\ ReturnedInv'
<1> SUFFICES ASSUME TypeOK, WroteInv, ReturnedInv, [Next]_vars
             PROVE  WroteInv' /\ ReturnedInv'
    OBVIOUS
<1>1. ASSUME NEW p \in Process, Start(p) \/ RefreshTick(p)
      PROVE  WroteInv' /\ ReturnedInv'
  <2>1. "main" \in Thread
        BY DEF Thread
  <2> QED BY <1>1, <2>1, BeginKept DEF Start, RefreshTick
<1>2. ASSUME NEW p \in Process, Crash(p)
      PROVE  WroteInv' /\ ReturnedInv'
      BY <1>2, EndKept DEF Crash
<1>3. ASSUME NEW p \in Process, NEW t \in Thread, StoreSnapshot(p, t)
      PROVE  WroteInv' /\ ReturnedInv'
      BY <1>3, ReturnsKept DEF StoreSnapshot
<1>4. ASSUME NEW p \in Process, NEW t \in Thread, LoadFails(p, t)
      PROVE  WroteInv' /\ ReturnedInv'
  <2>1. CASE End(p)
        BY <1>4, <2>1, EndKept DEF LoadFails
  <2>2. CASE ~End(p)
        BY <1>4, <2>2, ReturnsKept DEF LoadFails
  <2> QED BY <2>1, <2>2
<1>5. ASSUME NEW p \in Api, NEW h \in Handler, Admin(p, h)
      PROVE  WroteInv' /\ ReturnedInv'
  <2>1. CASE RefreshRegistry(p, h)
    <3>1. p \in Process /\ h \in Thread
          BY DEF Process, Thread
    <3> QED BY <2>1, <3>1, BeginKept DEF RefreshRegistry
  <2>2. CASE \E rows : Commit(p, h, rows)
        BY <2>2, CommitKept
  <2> QED BY <1>5, <2>1, <2>2 DEF Admin, CreateEngineer, UpdateEngineer, DeactivateEngineer
<1>6. CASE UNCHANGED vars
      BY <1>6 DEF vars, WroteInv, ReturnedInv
<1> QED BY <1>1, <1>2, <1>3, <1>4, <1>5, <1>6, QueryKept DEF Next, Load

\* Once a handler has returned, its process has a snapshot with its change, but
\* for a reload that failed and shows it, and a Load that had queried before.
THEOREM HandlerSeesOwnWrite == Spec => []ReadYourWrites
<1>1. Init => WroteInv /\ ReturnedInv
  <2> SUFFICES ASSUME Init PROVE WroteInv /\ ReturnedInv
      OBVIOUS
  <2>1. /\ \A p \in Process, t \in Thread : thread[p][t] = Idle
        /\ \A p \in Process : returned[p] = NoReturn /\ snapOf[p] = 0
        /\ Len(history) = 1
        BY DEF Init
  <2> QED BY <2>1 DEF WroteInv, ReturnedInv, Idle, NoReturn
<1>2. ReturnedInv => ReadYourWrites
      BY DEF ReturnedInv, ReadYourWrites
<1> QED BY <1>1, <1>2, TypeCorrect, ReturnedStep, PTL DEF Spec

=============================================================================
