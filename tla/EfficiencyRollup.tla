-------------------------- MODULE EfficiencyRollup --------------------------
(***************************************************************************)
(* The efficiency rollup of sentinel-workers.  A run writes one row per    *)
(* engineer for the window that ends at the last midnight, and then ranks  *)
(* the engineers by dollars per pull request.  Every pod runs it, at its   *)
(* start and on a ticker of its own, once in 24 hours as shipped: nothing  *)
(* keeps two runs apart, usage and pull requests go on changing between    *)
(* the queries, and no run need follow in which a row is put right.        *)
(*                                                                         *)
(* The windows of a run are computed one after the other in the same way:  *)
(* one is modelled.  The columns that no rank depends on go with its cost. *)
(***************************************************************************)
EXTENDS Integers, Sequences, FiniteSets, SequencesExt

CONSTANTS
  Pod,
  Engineer,     \* the active engineers
  Orders,       \* the orders in which AllActive may return them, at each pod
  Facts,        \* [cost, merged, reverted]: what the queries may find of an engineer
  InitFacts,    \* at first, of each engineer
  Scale,        \* a common multiple of the pull request counts: $/PR is in 1/Scale
  MaxDay,       \* bound: midnights
  MaxChanges,   \* bound: changes of the facts
  MaxFaults     \* bound: failed calls and crashes of one behaviour

Null == -1
Day  == 0..MaxDay

ASSUME Constants ==
  /\ Facts \subseteq [cost : Nat, merged : Nat, reverted : Nat]
  /\ InitFacts \in [Engineer -> Facts] /\ Scale \in Nat \ {0}
  /\ \A p \in Pod : \A s \in Orders[p] : s \in Seq(Engineer) /\ IsInjective(s) /\ ToSet(s) = Engineer
  /\ MaxDay \in Nat /\ MaxChanges \in Nat /\ MaxFaults \in Nat
  /\ \A f, g \in Facts : f.merged > g.reverted => (f.cost * Scale) % (f.merged - g.reverted) = 0

VARIABLES
  facts,    \* usage_events and github_prs, for the window that ends on a day
  day,      \* today
  rows,     \* engineer_signals: by the day the window ends, and engineer
  run,      \* the locals of each pod's RunOnce
  quiet,    \* history: the windows whose facts have rested and whose calls
            \* have not failed since a run began that was alone
  changes,
  faults

vars == <<facts, day, rows, run, quiet, changes, faults>>

NoFacts == [cost |-> 0, merged |-> 0, reverted |-> 0]
NoRow   == [sig |-> NoFacts, median |-> Null, pct |-> Null]
Idle    == [pc |-> "idle", end |-> 0, todo |-> <<>>, sig |-> NoFacts, dprs |-> <<>>]

Init ==
  /\ facts = [d \in Day |-> InitFacts] /\ day = 0
  /\ rows = [d \in Day |-> [e \in Engineer |-> NoRow]]
  /\ run = [p \in Pod |-> Idle] /\ quiet = {}
  /\ changes = 0 /\ faults = 0

\* A call of a run of window d fails, or its pod dies.
Fault(d) == faults < MaxFaults /\ faults' = faults + 1 /\ quiet' = quiet \ {d}
NoFault  == UNCHANGED <<faults, quiet>>

Become(p, l) == run' = [run EXCEPT ![p] = l]

\* Pod p is in a run of window d.
UnderWay(p, d) == run[p].pc # "idle" /\ run[p].end = d

-----------------------------------------------------------------------------
(* Dollars per pull request, their median, and the rank in the cohort      *)

\* Null where $/PR is not defined.
Dpr(f) ==
  LET effectiveMerged == f.merged - f.reverted
  IN  IF effectiveMerged > 0 THEN (f.cost * Scale) \div effectiveMerged ELSE Null

\* A statement that sets the row of engineer e and window end d to r.
Write(d, e, r) == rows' = [rows EXCEPT ![d][e] = r]

\* A cohort is a function: the $/PR at each index, or of each engineer.
Size(cohort) == Cardinality(DOMAIN cohort)

\* sort.Float64s: place k holds the value that fewer than k are below and at
\* least k do not exceed.
Sorted(cohort) ==
  [k \in 1..Size(cohort) |->
     CHOOSE v \in Range(cohort) :
       /\ Cardinality({i \in DOMAIN cohort : cohort[i] < v}) < k
       /\ Cardinality({i \in DOMAIN cohort : cohort[i] <= v}) >= k]

\* Twice the median, which may lie between two values.
MedianOf(cohort) ==
  LET cp == Sorted(cohort)  mid == Size(cohort) \div 2
  IN  IF Size(cohort) % 2 = 1 THEN 2 * cp[mid + 1] ELSE cp[mid] + cp[mid + 1]

\* Mutant: the others are counted, but not those that pay the same.
PercentileRank_Strict(cohort, value) ==
  LET better == Cardinality({i \in DOMAIN cohort : cohort[i] > value})
  IN  (better * 100) \div Size(cohort)

\* Mutant: the share of the others.
PercentileRank_Others(cohort, value) ==
  LET better == Cardinality({i \in DOMAIN cohort : cohort[i] >= value})
  IN  (better * 100) \div (Size(cohort) - 1)

\* The percentage of the cohort that pays this much or more for a pull request.
PercentileRank(cohort, value) ==
  LET better == Cardinality({i \in DOMAIN cohort : cohort[i] >= value})
  IN  (better * 100) \div Size(cohort)

-----------------------------------------------------------------------------
(* The world                                                               *)

\* Usage of a window that has ended arrives late, or the collector finds a merge
\* or a revert in it.
FactsChange ==
  /\ changes < MaxChanges /\ changes' = changes + 1
  /\ \E d \in 0..day, e \in Engineer, f \in Facts :
       facts' = [facts EXCEPT ![d][e] = f] /\ quiet' = quiet \ {d}
  /\ UNCHANGED <<day, rows, run, faults>>

\* A run that began before midnight goes on with the old window.
Midnight ==
  /\ day < MaxDay /\ day' = day + 1
  /\ UNCHANGED <<facts, rows, run, quiet, changes, faults>>

-----------------------------------------------------------------------------
(* RunOnce                                                                 *)

\* At startup or on a tick: the window ends at the last midnight.
RunOnce(p) ==
  /\ run[p].pc = "idle"
  /\ \E s \in Orders[p] :
       Become(p, [Idle EXCEPT !.pc = "usage", !.end = day, !.todo = s])
  /\ quiet' = IF \E q \in Pod : UnderWay(q, day) THEN quiet ELSE quiet \cup {day}
  /\ UNCHANGED <<facts, day, rows, changes, faults>>

\* Pass 1, for each engineer: the usage,
EngineerUsageAggregate(p) ==
  /\ run[p].pc = "usage" /\ run[p].todo # <<>>
  /\ LET f == facts[run[p].end][Head(run[p].todo)]
     IN  Become(p, [run[p] EXCEPT !.pc = "prs", !.sig.cost = f.cost])
  /\ UNCHANGED <<facts, day, rows, quiet, changes, faults>>

\* ... the pull requests, in a query of their own,
PRCountsForEngineer(p) ==
  /\ run[p].pc = "prs"
  /\ LET f == facts[run[p].end][Head(run[p].todo)]
     IN  Become(p, [run[p] EXCEPT !.pc = "upsert", !.sig.merged = f.merged, !.sig.reverted = f.reverted])
  /\ UNCHANGED <<facts, day, rows, quiet, changes, faults>>

\* The engineer takes part in pass 2 if $/PR is defined.
Appended(dprs, e, dpr) == IF dpr = Null THEN dprs ELSE Append(dprs, [eng |-> e, dpr |-> dpr])

\* The loop of pass 1 goes on with the next engineer.
Continue(l) == [l EXCEPT !.pc = "usage", !.todo = Tail(@), !.sig = NoFacts]

\* Mutant: a rank that is there is kept.
Upserted_Keep(row, sig) == [row EXCEPT !.sig = sig]

\* The row the upsert leaves: EXCLUDED has neither a median nor a rank.
Upserted(row, sig) == [row EXCEPT !.sig = sig, !.median = Null, !.pct = Null]

\* ... and the row.  If its answer is lost the engineer is not in the cohort.
UpsertEngineerSignal(p) ==
  LET l == run[p]  e == Head(l.todo)
  IN  /\ l.pc = "upsert"
      /\ Write(l.end, e, Upserted(rows[l.end][e], l.sig))
      /\ \/ NoFault /\ Become(p, [Continue(l) EXCEPT !.dprs = Appended(@, e, Dpr(l.sig))])
         \/ Fault(l.end) /\ Become(p, Continue(l))
      /\ UNCHANGED <<facts, day, changes>>

\* The columns of the cohort, and the $/PR of one engineer.
Engineers(dprs) == [i \in DOMAIN dprs |-> dprs[i].eng]
Values(dprs) == [i \in DOMAIN dprs |-> dprs[i].dpr]
DprOf(dprs, e) == dprs[CHOOSE i \in DOMAIN dprs : dprs[i].eng = e].dpr

\* Pass 2, if the cohort has three.
Cohort(p) ==
  /\ run[p].pc = "usage" /\ run[p].todo = <<>>
  /\ Become(p, IF Len(run[p].dprs) < 3 THEN Idle
               ELSE [run[p] EXCEPT !.pc = "rank", !.todo = Engineers(run[p].dprs)])
  /\ UNCHANGED <<facts, day, rows, quiet, changes, faults>>

\* The loop of pass 2 goes on, or the run ends.
Ranked(l) == IF Len(l.todo) = 1 THEN Idle ELSE [l EXCEPT !.todo = Tail(@)]

\* The update of one row, by engineer and window.
SetPeerPercentile(p) ==
  LET l == run[p]  e == Head(l.todo)  valid == Values(l.dprs)
  IN  /\ l.pc = "rank"
      /\ Write(l.end, e, [rows[l.end][e] EXCEPT !.median = MedianOf(valid),
                                                !.pct = PercentileRank(valid, DprOf(l.dprs, e))])
      /\ Become(p, Ranked(l))
      /\ UNCHANGED <<facts, day, quiet, changes, faults>>

\* A call fails and has no effect: the run goes on with the next engineer.
CallFails(p) ==
  LET l == run[p]
  IN  /\ Fault(l.end)
      /\ \/ l.pc \in {"usage", "prs", "upsert"} /\ l.todo # <<>> /\ Become(p, Continue(l))
         \/ l.pc = "rank" /\ Become(p, Ranked(l))
      /\ UNCHANGED <<facts, day, rows, changes>>

\* The pod dies; the next one starts with a run.
PodCrash(p) ==
  /\ run[p].pc # "idle" /\ Fault(run[p].end)
  /\ Become(p, Idle)
  /\ UNCHANGED <<facts, day, rows, changes>>

-----------------------------------------------------------------------------
Rollup(p) ==
  \/ RunOnce(p) \/ EngineerUsageAggregate(p) \/ PRCountsForEngineer(p)
  \/ UpsertEngineerSignal(p) \/ Cohort(p) \/ SetPeerPercentile(p)

Next ==
  \/ FactsChange \/ Midnight
  \/ \E p \in Pod : Rollup(p) \/ CallFails(p) \/ PodCrash(p)

\* Without fairness: after the run of a day none need follow before midnight.
Spec == Init /\ [][Next]_vars

-----------------------------------------------------------------------------
(* Properties                                                              *)

DprType == Nat \cup {Null}
FactType == [cost : Nat, merged : Nat, reverted : Nat]

\* Every variable has its type.
TypeOK ==
  /\ facts \in [Day -> [Engineer -> Facts]] /\ day \in Day
  /\ rows \in [Day -> [Engineer -> [sig : FactType, median : DprType, pct : 0..100 \cup {Null}]]]
  /\ run \in [Pod -> [pc : {"idle", "usage", "prs", "upsert", "rank"}, end : Day,
                      todo : Seq(Engineer), sig : FactType,
                      dprs : Seq([eng : Engineer, dpr : Nat])]]
  /\ quiet \subseteq Day /\ changes \in 0..MaxChanges /\ faults \in 0..MaxFaults

\* A cohort is ranked by its costs, in one direction or the other: somebody gets
\* 100, and as many are at or below the median as at or above it.  Ranks are
\* whole per cents: up to a hundred engineers, they tell apart all that pay
\* differently, and nobody gets 0.
RanksByCost(xs) ==
  LET m == MedianOf(xs)
      rank(i) == PercentileRank(xs, xs[i])
  IN  /\ \/ \A i, j \in DOMAIN xs : xs[i] <= xs[j] => rank(i) <= rank(j)
         \/ \A i, j \in DOMAIN xs : xs[i] <= xs[j] => rank(i) >= rank(j)
      /\ \E i \in DOMAIN xs : rank(i) = 100
      /\ Size(xs) <= 100 =>
           \A i, j \in DOMAIN xs : rank(i) > 0 /\ (xs[i] # xs[j] => rank(i) # rank(j))
      /\ 2 * Cardinality({i \in DOMAIN xs : 2 * xs[i] <= m}) >= Size(xs)
      /\ 2 * Cardinality({i \in DOMAIN xs : 2 * xs[i] >= m}) >= Size(xs)

\* That is how every cohort a run meets is ranked, and every part of one, with
\* ties.  Which end is the good one the property leaves open: the comment at
\* rollup.go:203 has low ranks "doing well", the code gives them to who pays
\* most.
CohortRanks ==
  \A p \in Pod : run[p].pc = "rank" =>
    \A part \in (SUBSET DOMAIN run[p].dprs) \ {{}} :
      RanksByCost([i \in part |-> run[p].dprs[i].dpr])

\* What the row of engineer e for window d should hold, by the facts.
Reference(d, e) ==
  LET valid  == {f \in Engineer : Dpr(facts[d][f]) # Null}
      cohort == [f \in valid |-> Dpr(facts[d][f])]
      ranked == e \in valid /\ Size(cohort) >= 3
  IN  [sig    |-> facts[d][e],
       median |-> IF ranked THEN MedianOf(cohort) ELSE Null,
       pct    |-> IF ranked THEN PercentileRank(cohort, cohort[e]) ELSE Null]

\* Pods that roll up at once do each other no harm: whatever earlier runs left
\* in the rows of a window, half done or of other facts, once a run of it has
\* begun alone and it and all that overlap with it have ended, every row holds
\* the figures of its engineer, and the median and the rank of the whole
\* cohort, or none if there are not three.  That holds until the facts change
\* or a call of a later run fails: what these leave in the row is put right by
\* another run of the same window only, which the 24 hour ticker need not bring.
QuietRowsAgree ==
  \A d \in quiet :
    (\A p \in Pod : ~UnderWay(p, d)) => \A e \in Engineer : rows[d][e] = Reference(d, e)
=============================================================================
