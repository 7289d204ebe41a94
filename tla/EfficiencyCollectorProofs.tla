---------------------- MODULE EfficiencyCollectorProofs ----------------------
(***************************************************************************)
(* Proofs about EfficiencyCollector, for every set of collectors, logins   *)
(* and PRs, whatever titles and files match, and any number of faults:     *)
(* types, reverts are flagged for a reason, and the flag stays.            *)
(*                                                                         *)
(* The last part is about CollectorTriggers, what starts those runs, for   *)
(* every set of logins and any number of requests and faults: types, and   *)
(* no wake-up is lost.                                                     *)
(***************************************************************************)
EXTENDS EfficiencyCollector, CollectorTriggers, TLAPS

\* The record of a collector's locals.
Locals == [pc : PC, logins : SUBSET Login, login : Login \cup {None},
           left : SUBSET PR, page : [PR -> PRState], snap : Snapshot]

\* A collector that writes a snapshot has the login it is about.
AtLogin == \A c \in Collector : run[c].pc = "snapshot" => run[c].login \in Login

\* Between two runs, and between two logins, nothing is at hand.
LEMMA IdleType == Idle \in Locals
<1>1. NoPage \in [PR -> PRState]
      BY DEF NoPage, PRState
<1>2. NoSnapshot \in Snapshot
      BY DEF NoSnapshot, Snapshot
<1> QED BY <1>1, <1>2 DEF Idle, Locals, PC

\* The heuristics name PRs.
LEMMA DetectType == ASSUME NEW state PROVE DetectReverts(state) \subseteq PR
<1>1. \A q : Priors(q, state) \subseteq PR
      BY Constants DEF Priors
<1>2. \A q : DetectFromTitle(q, state) \subseteq Priors(q, state)
      BY DEF DetectFromTitle
<1>3. \A q : DetectFromFileOverlap(q, state) \subseteq Priors(q, state)
      BY DEF DetectFromFileOverlap
<1> QED BY <1>1, <1>2, <1>3 DEF DetectReverts

\* Faults are counted up to their bound.
LEMMA FaultType == ASSUME TypeOK, Fault \/ NoFault PROVE faults' \in 0..MaxFaults
BY FaultBound DEF TypeOK, Fault, NoFault

\* The merges, with one more.
LEMMA MergesAppend ==
  ASSUME merges \in Seq(PR), NEW p \in PR
  PROVE  /\ Append(merges, p) \in Seq(PR) /\ Len(merges) \in Nat
         /\ Len(Append(merges, p)) = Len(merges) + 1
         /\ Append(merges, p)[Len(merges) + 1] = p
         /\ \A i \in 1..Len(merges) : Append(merges, p)[i] = merges[i]
OBVIOUS

\* GitHub's steps keep the types.
LEMMA GitHubType ==
  ASSUME TypeOK, NEW p \in PR, OpenPR(p) \/ MergePR(p)
  PROVE  TypeOK'
<1>1. github' \in [PR -> PRState]
      BY DEF OpenPR, MergePR, TypeOK, PRState
<1>2. merges' \in Seq(PR)
  <2>1. merges' = merges \/ merges' = Append(merges, p)
        BY DEF OpenPR, MergePR
  <2> QED BY <2>1, MergesAppend DEF TypeOK
<1> QED BY <1>1, <1>2 DEF OpenPR, MergePR, TypeOK

\* The locals of a collector keep their type.
LEMMA RunType ==
  ASSUME TypeOK, NEW c \in Collector, RunOnce(c) \/ Crash(c)
  PROVE  run' \in [Collector -> Locals]
<1> DEFINE r == run[c]
<1>0. run \in [Collector -> Locals] /\ r \in Locals /\ Idle \in Locals
      BY IdleType DEF TypeOK, Locals
<1>1. CASE StartRun(c)
  <2>1. run' = [run EXCEPT ![c] = [r EXCEPT !.pc = "login", !.logins = Login]]
        BY <1>0, <1>1 DEF StartRun
  <2>2. [r EXCEPT !.pc = "login", !.logins = Login] \in Locals
        BY <1>0 DEF Locals, PC
  <2> QED BY <1>0, <2>1, <2>2
<1>2. CASE NextLogin(c)
  <2>1. CASE run' = [run EXCEPT ![c] = [Idle EXCEPT !.pc = "list"]]
    <3>1. [Idle EXCEPT !.pc = "list"] \in Locals
          BY <1>0 DEF Locals, PC
    <3> QED BY <1>0, <2>1, <3>1
  <2>2. ASSUME NEW l \in r.logins,
               run' = [run EXCEPT ![c].pc = "fetch", ![c].logins = @ \ {l}, ![c].login = l,
                                  ![c].left = {p \in PR : AuthorOf[p] = l}]
        PROVE  run' \in [Collector -> Locals]
    <3> DEFINE n == [r EXCEPT !.pc = "fetch", !.logins = @ \ {l}, !.login = l,
                              !.left = {p \in PR : AuthorOf[p] = l}]
    <3>1. n \in Locals
          BY <1>0 DEF Locals, PC
    <3>2. run' = [run EXCEPT ![c] = n]
          BY <1>0, <2>2
    <3> QED BY <1>0, <3>1, <3>2
  <2> QED BY <1>2, <2>1, <2>2 DEF NextLogin
<1>3. CASE FetchAuthoredPRs(c)
  <2>1. ASSUME NEW p \in r.left, run' = [run EXCEPT ![c].left = @ \ {p}, ![c].page[p] = github[p]]
        PROVE  run' \in [Collector -> Locals]
    <3> DEFINE n == [r EXCEPT !.left = @ \ {p}, !.page = [r.page EXCEPT ![p] = github[p]]]
    <3>1. [r.page EXCEPT ![p] = github[p]] \in [PR -> PRState]
          BY <1>0 DEF Locals, TypeOK
    <3>2. n \in Locals
          BY <1>0, <3>1 DEF Locals
    <3>3. run' = [run EXCEPT ![c] = n]
          BY <1>0, <2>1
    <3> QED BY <1>0, <3>2, <3>3
  <2>2. CASE run' = [run EXCEPT ![c].pc = "upsert", ![c].left = {p \in PR : r.page[p] # "absent"}]
    <3> DEFINE n == [r EXCEPT !.pc = "upsert", !.left = {p \in PR : r.page[p] # "absent"}]
    <3>1. n \in Locals
          BY <1>0 DEF Locals, PC
    <3>2. run' = [run EXCEPT ![c] = n]
          BY <1>0, <2>2
    <3> QED BY <1>0, <3>1, <3>2
  <2>3. CASE run' = [run EXCEPT ![c] = [Idle EXCEPT !.pc = "login", !.logins = r.logins]]
    <3>1. [Idle EXCEPT !.pc = "login", !.logins = r.logins] \in Locals
          BY <1>0 DEF Locals, PC
    <3> QED BY <1>0, <2>3, <3>1
  <2> QED BY <1>3, <2>1, <2>2, <2>3 DEF FetchAuthoredPRs
<1>4. CASE UpsertGitHubPR(c) \/ MarkPRReverted(c)
  <2>1. ASSUME NEW p \in r.left, run' = [run EXCEPT ![c].left = @ \ {p}]
        PROVE  run' \in [Collector -> Locals]
    <3>1. [r EXCEPT !.left = @ \ {p}] \in Locals
          BY <1>0 DEF Locals
    <3>2. run' = [run EXCEPT ![c] = [r EXCEPT !.left = @ \ {p}]]
          BY <1>0, <2>1
    <3> QED BY <1>0, <3>1, <3>2
  <2>2. CASE run' = [run EXCEPT ![c] = [Idle EXCEPT !.pc = "login", !.logins = r.logins]]
    <3>1. [Idle EXCEPT !.pc = "login", !.logins = r.logins] \in Locals
          BY <1>0 DEF Locals, PC
    <3> QED BY <1>0, <2>2, <3>1
  <2>3. CASE run' = [run EXCEPT ![c].pc = "compute", ![c].logins = Login]
    <3>1. [r EXCEPT !.pc = "compute", !.logins = Login] \in Locals
          BY <1>0 DEF Locals, PC
    <3>2. run' = [run EXCEPT ![c] = [r EXCEPT !.pc = "compute", !.logins = Login]]
          BY <1>0, <2>3
    <3> QED BY <1>0, <3>1, <3>2
  <2> QED BY <1>4, <2>1, <2>2, <2>3 DEF UpsertGitHubPR, MarkPRReverted
<1>5. CASE ListRecentPRsByRepo(c)
  <2>1. DetectReverts(githubPRs) \subseteq PR
        BY DetectType
  <2>2. /\ [r EXCEPT !.pc = "mark", !.left = DetectReverts(githubPRs)] \in Locals
        /\ [r EXCEPT !.pc = "mark"] \in Locals
        BY <1>0, <2>1 DEF Locals, PC
  <2>3. \/ run' = [run EXCEPT ![c] = [r EXCEPT !.pc = "mark", !.left = DetectReverts(githubPRs)]]
        \/ run' = [run EXCEPT ![c] = [r EXCEPT !.pc = "mark"]]
        BY <1>0, <1>5 DEF ListRecentPRsByRepo
  <2> QED BY <1>0, <2>2, <2>3
<1>6. CASE ListMergedPRs(c)
  <2>1. PICK l \in r.logins :
          \/ run' = [run EXCEPT ![c].pc = "snapshot", ![c].logins = @ \ {l}, ![c].login = l,
                                ![c].snap = SnapshotOf(l)]
          \/ run' = [run EXCEPT ![c].logins = @ \ {l}]
        BY <1>6 DEF ListMergedPRs
  <2>2. SnapshotOf(l) \in Snapshot
        BY DEF SnapshotOf, Snapshot
  <2>3. /\ [r EXCEPT !.pc = "snapshot", !.logins = @ \ {l}, !.login = l, !.snap = SnapshotOf(l)] \in Locals
        /\ [r EXCEPT !.logins = @ \ {l}] \in Locals
        BY <1>0, <2>2 DEF Locals, PC
  <2>4. \/ run' = [run EXCEPT ![c] = [r EXCEPT !.pc = "snapshot", !.logins = @ \ {l}, !.login = l,
                                               !.snap = SnapshotOf(l)]]
        \/ run' = [run EXCEPT ![c] = [r EXCEPT !.logins = @ \ {l}]]
        BY <1>0, <2>1
  <2> QED BY <1>0, <2>3, <2>4
<1>7. CASE WriteEfficiencySnapshot(c)
  <2>1. [Idle EXCEPT !.pc = "compute", !.logins = r.logins] \in Locals
        BY <1>0 DEF Locals, PC
  <2> QED BY <1>0, <1>7, <2>1 DEF WriteEfficiencySnapshot
<1>8. CASE FinishRun(c) \/ Crash(c)
      BY <1>0, <1>8 DEF FinishRun, Crash
<1> QED BY <1>1, <1>2, <1>3, <1>4, <1>5, <1>6, <1>7, <1>8 DEF RunOnce

\* What a collector writes to the database keeps its type.
LEMMA StoreType ==
  ASSUME TypeOK, AtLogin, NEW c \in Collector, RunOnce(c) \/ Crash(c)
  PROVE  /\ githubPRs' \in [PR -> PRState] /\ reverted' \subseteq PR
         /\ earlier' \in [Collector -> SUBSET Collector]
         /\ superseded' \in [Collector -> SUBSET Login]
         /\ shown' \in [Login -> Snapshot]
         /\ UNCHANGED <<github, merges>>
<1> DEFINE r == run[c]
<1>0. r \in Locals
      BY DEF TypeOK, Locals
<1>1. CASE StartRun(c) \/ NextLogin(c) \/ FetchAuthoredPRs(c) \/ ListRecentPRsByRepo(c) \/ ListMergedPRs(c)
      BY <1>1 DEF StartRun, NextLogin, FetchAuthoredPRs, ListRecentPRsByRepo, ListMergedPRs, TypeOK
<1>2. CASE UpsertGitHubPR(c)
  <2>1. \A p \in r.left : r.page[p] \in PRState
        BY <1>0 DEF Locals
  <2>2. githubPRs' \in [PR -> PRState]
        BY <1>2, <2>1 DEF UpsertGitHubPR, Upsert, TypeOK
  <2> QED BY <1>2, <2>2 DEF UpsertGitHubPR, Upsert, TypeOK
<1>3. CASE MarkPRReverted(c)
  <2>1. reverted' \subseteq PR
        BY <1>0, <1>3 DEF MarkPRReverted, TypeOK, Locals
  <2>2. /\ earlier' = earlier \/ \E S \in SUBSET Collector : earlier' = [earlier EXCEPT ![c] = S]
        /\ superseded' = superseded \/ superseded' = [superseded EXCEPT ![c] = {}]
    <3>1. {d \in Collector : run[d].pc \in {"compute", "snapshot"}} \in SUBSET Collector
          OBVIOUS
    <3> QED BY <1>3, <3>1 DEF MarkPRReverted
  <2>3. earlier \in [Collector -> SUBSET Collector] /\ superseded \in [Collector -> SUBSET Login]
        BY DEF TypeOK
  <2>4. \A S \in SUBSET Collector : [earlier EXCEPT ![c] = S] \in [Collector -> SUBSET Collector]
        BY <2>3
  <2>5. [superseded EXCEPT ![c] = {}] \in [Collector -> SUBSET Login]
        BY <2>3
  <2>6. earlier' \in [Collector -> SUBSET Collector] /\ superseded' \in [Collector -> SUBSET Login]
        BY <2>2, <2>3, <2>4, <2>5
  <2>7. UNCHANGED <<github, merges, githubPRs, shown>>
        BY <1>3 DEF MarkPRReverted
  <2> QED BY <2>1, <2>6, <2>7 DEF TypeOK
<1>4. CASE WriteEfficiencySnapshot(c)
  <2>1. shown' \in [Login -> Snapshot]
        BY <1>0, <1>4 DEF WriteEfficiencySnapshot, TypeOK, Locals
  <2>2. superseded' \in [Collector -> SUBSET Login]
        BY <1>4 DEF WriteEfficiencySnapshot, AtLogin, TypeOK
  <2> QED BY <1>4, <2>1, <2>2 DEF WriteEfficiencySnapshot, TypeOK
<1>5. CASE FinishRun(c) \/ Crash(c)
  <2>1. Leave(c)
        BY <1>5 DEF FinishRun, Crash
  <2>2. earlier' \in [Collector -> SUBSET Collector] /\ superseded' \in [Collector -> SUBSET Login]
        BY <2>1 DEF Leave, TypeOK
  <2> QED BY <1>5, <2>2 DEF FinishRun, Crash, TypeOK
<1> QED BY <1>1, <1>2, <1>3, <1>4, <1>5 DEF RunOnce

\* A step of the collectors concerns one of them.
LEMMA OneRuns ==
  ASSUME TypeOK, NEW c \in Collector, RunOnce(c) \/ Crash(c)
  PROVE  \A d \in Collector : d # c => run'[d] = run[d]
BY DEF TypeOK, RunOnce, Crash, StartRun, NextLogin, FetchAuthoredPRs, UpsertGitHubPR,
       ListRecentPRsByRepo, MarkPRReverted, ListMergedPRs, WriteEfficiencySnapshot, FinishRun

\* Only ListMergedPRs leads to a snapshot.
LEMMA OnlyListLeads ==
  ASSUME TypeOK, NEW c \in Collector, RunOnce(c) \/ Crash(c), ~ListMergedPRs(c)
  PROVE  run'[c].pc # "snapshot"
<1> DEFINE r == run[c]
<1>0. r \in Locals /\ run \in [Collector -> Locals] /\ Idle \in Locals
      BY IdleType DEF TypeOK, Locals
<1>1. CASE StartRun(c)
      BY <1>0, <1>1 DEF StartRun, Locals
<1>2. CASE NextLogin(c)
  <2>1. ASSUME NEW l \in r.logins,
               run' = [run EXCEPT ![c].pc = "fetch", ![c].logins = @ \ {l}, ![c].login = l,
                                  ![c].left = {p \in PR : AuthorOf[p] = l}]
        PROVE  run'[c].pc # "snapshot"
    <3>1. run' = [run EXCEPT ![c] = [r EXCEPT !.pc = "fetch", !.logins = @ \ {l}, !.login = l,
                                              !.left = {p \in PR : AuthorOf[p] = l}]]
          BY <1>0, <2>1
    <3> QED BY <1>0, <3>1 DEF Locals
  <2>2. CASE run' = [run EXCEPT ![c] = [Idle EXCEPT !.pc = "list"]]
        BY <1>0, <2>2 DEF Locals
  <2> QED BY <1>2, <2>1, <2>2 DEF NextLogin
<1>3. CASE FetchAuthoredPRs(c)
      BY <1>0, <1>3 DEF FetchAuthoredPRs, Locals
<1>4. CASE UpsertGitHubPR(c)
      BY <1>0, <1>4 DEF UpsertGitHubPR, Locals
<1>5. CASE ListRecentPRsByRepo(c)
      BY <1>0, <1>5 DEF ListRecentPRsByRepo, Locals
<1>6. CASE MarkPRReverted(c)
      BY <1>0, <1>6 DEF MarkPRReverted, Locals
<1>7. CASE WriteEfficiencySnapshot(c)
      BY <1>0, <1>7 DEF WriteEfficiencySnapshot, Locals
<1>8. CASE FinishRun(c) \/ Crash(c)
      BY <1>0, <1>8 DEF FinishRun, Crash, Locals, Idle
<1> QED BY <1>1, <1>2, <1>3, <1>4, <1>5, <1>6, <1>7, <1>8 DEF RunOnce

\* Its snapshot is that of a login, taken from the rows.
LEMMA SnapshotTaken ==
  ASSUME TypeOK, NEW c \in Collector, RunOnce(c) \/ Crash(c), run'[c].pc = "snapshot"
  PROVE  run'[c].login \in Login /\ run'[c].snap = SnapshotOf(run'[c].login)
<1> DEFINE r == run[c]
<1>0. r \in Locals /\ run \in [Collector -> Locals] /\ Idle \in Locals
      BY IdleType DEF TypeOK, Locals
<1>1. CASE ListMergedPRs(c)
  <2>1. PICK l \in r.logins :
          \/ run' = [run EXCEPT ![c].pc = "snapshot", ![c].logins = @ \ {l}, ![c].login = l,
                                ![c].snap = SnapshotOf(l)]
          \/ run' = [run EXCEPT ![c].logins = @ \ {l}]
        BY <1>1 DEF ListMergedPRs
  <2>2. r.pc = "compute" /\ l \in Login
        BY <1>0, <1>1 DEF ListMergedPRs, Locals
  <2>3. CASE run' = [run EXCEPT ![c].logins = @ \ {l}]
        BY <1>0, <2>2, <2>3 DEF Locals
  <2>4. CASE run' = [run EXCEPT ![c].pc = "snapshot", ![c].logins = @ \ {l}, ![c].login = l,
                                ![c].snap = SnapshotOf(l)]
    <3>1. run'[c] = [r EXCEPT !.pc = "snapshot", !.logins = @ \ {l}, !.login = l, !.snap = SnapshotOf(l)]
          BY <1>0, <2>4
    <3>2. run'[c].login = l /\ run'[c].snap = SnapshotOf(l)
          BY <1>0, <3>1 DEF Locals
    <3> QED BY <2>2, <3>2
  <2> QED BY <2>1, <2>3, <2>4
<1>2. CASE ~ListMergedPRs(c)
      BY <1>2, OnlyListLeads
<1> QED BY <1>1, <1>2

\* Whoever has a snapshot at hand has its login, too.
LEMMA LoginStep ==
  ASSUME TypeOK, AtLogin, NEW c \in Collector, RunOnce(c) \/ Crash(c)
  PROVE  AtLogin'
BY SnapshotTaken, OneRuns DEF AtLogin

\* Every step keeps the types.
LEMMA TypeStep == TypeOK /\ AtLogin /\ [Next]_vars => TypeOK' /\ AtLogin'
<1> SUFFICES ASSUME TypeOK, AtLogin, [Next]_vars PROVE TypeOK' /\ AtLogin'
    OBVIOUS
<1>1. ASSUME NEW p \in PR, OpenPR(p) \/ MergePR(p) PROVE TypeOK' /\ AtLogin'
  <2>1. run' = run
        BY <1>1 DEF OpenPR, MergePR
  <2> QED BY <1>1, <2>1, GitHubType DEF AtLogin
<1>2. ASSUME NEW c \in Collector, RunOnce(c) \/ Crash(c) PROVE TypeOK' /\ AtLogin'
  <2>1. run' \in [Collector -> Locals]
        BY <1>2, RunType
  <2>2. faults' = faults \/ Fault \/ NoFault
        BY <1>2 DEF RunOnce, Crash, StartRun, NextLogin, FetchAuthoredPRs, UpsertGitHubPR,
              ListRecentPRsByRepo, MarkPRReverted, ListMergedPRs, WriteEfficiencySnapshot, FinishRun
  <2>3. faults' \in 0..MaxFaults
        BY <2>2, FaultType DEF TypeOK
  <2>4. TypeOK'
        BY <1>2, <2>1, <2>3, StoreType DEF TypeOK, Locals
  <2> QED BY <1>2, <2>4, LoginStep
<1>3. CASE UNCHANGED vars
      BY <1>3 DEF vars, TypeOK, AtLogin
<1> QED BY <1>1, <1>2, <1>3 DEF Next

\* Nothing is known initially.
LEMMA TypeInit == Init => TypeOK /\ AtLogin
<1> SUFFICES ASSUME Init PROVE TypeOK /\ AtLogin
    OBVIOUS
<1>1. run \in [Collector -> Locals] /\ AtLogin
      BY IdleType DEF Init, Locals, AtLogin, Idle
<1>2. shown \in [Login -> Snapshot]
      BY DEF Init, NoSnapshot, Snapshot
<1>3. /\ github \in [PR -> PRState] /\ githubPRs \in [PR -> PRState]
      /\ merges \in Seq(PR) /\ faults \in 0..MaxFaults
      BY FaultBound DEF Init, PRState
<1> QED BY <1>1, <1>2, <1>3 DEF Init, TypeOK, Locals

\* Type correctness: what the heuristics find, and what is flagged, are PRs.
THEOREM TypeCorrect == Spec => []TypeOK
<1> QED BY TypeInit, TypeStep, PTL DEF Spec

-----------------------------------------------------------------------------
(* The reverted flag                                                       *)

\* Only MarkPRReverted writes the flag, and it sets it.
LEMMA FlagStep == [Next]_vars => [reverted \subseteq reverted']_reverted
<1> SUFFICES ASSUME Next, reverted' # reverted PROVE reverted \subseteq reverted'
    BY DEF vars
<1>1. ASSUME NEW p \in PR PROVE ~(OpenPR(p) \/ MergePR(p))
      BY DEF OpenPR, MergePR
<1>2. PICK c \in Collector : RunOnce(c) \/ Crash(c)
      BY <1>1 DEF Next
<1>3. MarkPRReverted(c)
      BY <1>2 DEF RunOnce, Crash, StartRun, NextLogin, FetchAuthoredPRs, UpsertGitHubPR, Upsert,
            ListRecentPRsByRepo, ListMergedPRs, WriteEfficiencySnapshot, FinishRun
<1> QED BY <1>3 DEF MarkPRReverted

\* No step takes a flag back.
THEOREM FlagStays == Spec => RevertedSticks
BY FlagStep, PTL DEF Spec, RevertedSticks

\* A merged PR, on GitHub, has its place among the merges, and only one.
MergesInv ==
  /\ \A p \in PR : github[p] = "merged" => \E i \in 1..Len(merges) : merges[i] = p
  /\ \A i \in 1..Len(merges) : github[merges[i]] = "merged"
  /\ \A i, j \in 1..Len(merges) : merges[i] = merges[j] => i = j

\* The database and the pages at hand may be stale, but what they show as
\* merged is: a merge is for good.
StaleInv ==
  /\ \A p \in PR : githubPRs[p] = "merged" => github[p] = "merged"
  /\ \A c \in Collector, p \in PR : run[c].page[p] = "merged" => github[p] = "merged"

\* A match of the PR was merged after it.
Justified(p) ==
  \E q \in PR :
    /\ p \in TitleMatch[q] \cup ToSet(Overlap[q])
    /\ \E i, j \in 1..Len(merges) : i < j /\ merges[i] = p /\ merges[j] = q

\* What a collector is about to flag is justified, also if the rows it was
\* found in have changed since.
FindingsInv ==
  \A c \in Collector : run[c].pc \in {"list", "mark"} => \A p \in run[c].left : Justified(p)

\* The time of a merge is its place.
LEMMA MergedAtPlace ==
  ASSUME MergesInv, NEW i \in 1..Len(merges)
  PROVE  MergedAt(merges[i]) = i
<1>1. {j \in 1..Len(merges) : merges[j] = merges[i]} = {i}
      BY DEF MergesInv
<1>2. \A n : Min({n}) = n
      BY DEF Min
<1> QED BY <1>1, <1>2 DEF MergedAt, SelectInSeq

\* What the heuristics find in the rows is justified by what happened.
LEMMA DetectJustified ==
  ASSUME MergesInv, StaleInv, NEW p \in DetectReverts(githubPRs)
  PROVE  Justified(p)
<1>1. PICK q \in Scanned : p \in DetectFromTitle(q, githubPRs) \cup DetectFromFileOverlap(q, githubPRs)
      BY DEF DetectReverts
<1>2. p \in Priors(q, githubPRs) /\ p \in TitleMatch[q] \cup ToSet(Overlap[q])
      BY <1>1 DEF DetectFromTitle, DetectFromFileOverlap, ToSet
<1>3. p \in PR /\ q \in PR /\ githubPRs[p] = "merged" /\ githubPRs[q] = "merged"
      BY <1>2, Constants DEF Priors
<1>4. MergedAt(p) < MergedAt(q)
      BY <1>2 DEF Priors
<1>5. PICK i \in 1..Len(merges) : merges[i] = p
      BY <1>3 DEF StaleInv, MergesInv
<1>6. PICK j \in 1..Len(merges) : merges[j] = q
      BY <1>3 DEF StaleInv, MergesInv
<1>7. i < j
      BY <1>4, <1>5, <1>6, MergedAtPlace
<1> QED BY <1>2, <1>3, <1>5, <1>6, <1>7 DEF Justified

\* GitHub moves on: the order of the earlier merges stays.
LEMMA GitHubStep ==
  ASSUME TypeOK, MergesInv, StaleInv, FindingsInv, FlagIsJustified,
         NEW p \in PR, OpenPR(p) \/ MergePR(p)
  PROVE  MergesInv' /\ StaleInv' /\ FindingsInv' /\ FlagIsJustified'
<1>0. github \in [PR -> PRState] /\ merges \in Seq(PR) /\ Len(merges) \in Nat
      BY DEF TypeOK
<1>1. UNCHANGED <<githubPRs, reverted, run>>
      BY DEF OpenPR, MergePR
<1>2. \A q \in PR : github[q] = "merged" => github'[q] = "merged"
      BY <1>0 DEF OpenPR, MergePR
<1>3. StaleInv'
      BY <1>1, <1>2 DEF StaleInv
<1>4. \/ merges' = merges /\ \A q \in PR : github'[q] = "merged" => github[q] = "merged"
      \/ /\ merges' = Append(merges, p) /\ github[p] = "open" /\ github'[p] = "merged"
         /\ \A q \in PR : github'[q] = "merged" => q = p \/ github[q] = "merged"
      BY <1>0 DEF OpenPR, MergePR
<1>5. /\ Len(merges) <= Len(merges') /\ Len(merges') \in Nat
      /\ \A i \in 1..Len(merges) : merges'[i] = merges[i]
      BY <1>0, <1>4, MergesAppend
<1>6. MergesInv'
  <2>1. CASE merges' = merges /\ \A q \in PR : github'[q] = "merged" => github[q] = "merged"
        BY <1>0, <1>2, <2>1 DEF MergesInv
  <2>2. CASE /\ merges' = Append(merges, p) /\ github[p] = "open" /\ github'[p] = "merged"
             /\ \A q \in PR : github'[q] = "merged" => q = p \/ github[q] = "merged"
    <3> DEFINE n == Len(merges)
    <3>1. /\ Len(merges') = n + 1 /\ merges'[n + 1] = p
          /\ \A i \in 1..n : merges'[i] = merges[i] /\ merges[i] # p /\ merges[i] \in PR
          /\ n \in Nat
          BY <1>0, <2>2, MergesAppend DEF MergesInv
    <3>2. \A i \in 1..(n + 1) : i \in 1..n \/ i = n + 1
          BY <3>1
    <3>3. \A q \in PR : github'[q] = "merged" => \E i \in 1..(n + 1) : merges'[i] = q
      <4> SUFFICES ASSUME NEW q \in PR, github'[q] = "merged" PROVE \E i \in 1..(n + 1) : merges'[i] = q
          OBVIOUS
      <4>1. CASE q = p
            BY <3>1, <4>1
      <4>2. CASE github[q] = "merged"
        <5>1. PICK i \in 1..n : merges[i] = q
              BY <4>2 DEF MergesInv
        <5> QED BY <3>1, <5>1
      <4> QED BY <2>2, <4>1, <4>2
    <3>4. \A i \in 1..(n + 1) : github'[merges'[i]] = "merged"
          BY <1>2, <2>2, <3>1, <3>2 DEF MergesInv
    <3>5. \A i, j \in 1..(n + 1) : merges'[i] = merges'[j] => i = j
          BY <3>1, <3>2 DEF MergesInv
    <3> QED BY <3>1, <3>3, <3>4, <3>5 DEF MergesInv
  <2> QED BY <1>4, <2>1, <2>2
<1>7. ASSUME NEW r, Justified(r) PROVE Justified(r)'
      BY <1>5, <1>7 DEF Justified
<1>8. FindingsInv'
      BY <1>1, <1>7 DEF FindingsInv
<1>9. FlagIsJustified'
      BY <1>1, <1>7 DEF FlagIsJustified, Justified
<1> QED BY <1>3, <1>6, <1>8, <1>9

\* What a collector has at hand after a step of its own.
LEMMA OwnRun ==
  ASSUME TypeOK, MergesInv, StaleInv, FindingsInv, NEW c \in Collector, RunOnce(c) \/ Crash(c)
  PROVE  /\ \A p \in PR : run'[c].page[p] = "merged" => github[p] = "merged"
         /\ run'[c].pc \in {"list", "mark"} => \A p \in run'[c].left : Justified(p)
<1> DEFINE r == run[c]
           Good(n) == /\ \A p \in PR : n.page[p] = "merged" => github[p] = "merged"
                      /\ n.pc \in {"list", "mark"} => \A p \in n.left : Justified(p)
<1> SUFFICES Good(run'[c])
    OBVIOUS
<1>0. r \in Locals /\ run \in [Collector -> Locals] /\ Idle \in Locals
      BY IdleType DEF TypeOK, Locals
<1>1. /\ \A p \in PR : r.page[p] = "merged" => github[p] = "merged"
      /\ r.pc \in {"list", "mark"} => \A p \in r.left : Justified(p)
      BY DEF StaleInv, FindingsInv
<1>2. Idle.left = {} /\ \A p \in PR : Idle.page[p] # "merged"
      BY DEF Idle, NoPage
<1>3. ASSUME NEW pc1 \in PC, NEW L \in SUBSET Login,
             run'[c] = [Idle EXCEPT !.pc = pc1, !.logins = L] \/ run'[c] = Idle
             \/ run'[c] = [Idle EXCEPT !.pc = pc1]
      PROVE  Good(run'[c])
      BY <1>0, <1>2, <1>3 DEF Locals
<1>4. r.logins \in SUBSET Login /\ Login \in SUBSET Login /\ {"login", "list", "compute"} \subseteq PC
      BY <1>0 DEF Locals, PC
<1>5. CASE StartRun(c)
  <2>1. run' = [run EXCEPT ![c] = [r EXCEPT !.pc = "login", !.logins = Login]]
        BY <1>0, <1>5 DEF StartRun
  <2> QED BY <1>0, <1>1, <2>1 DEF Locals
<1>6. CASE NextLogin(c)
  <2>1. ASSUME NEW l \in r.logins,
               run' = [run EXCEPT ![c].pc = "fetch", ![c].logins = @ \ {l}, ![c].login = l,
                                  ![c].left = {p \in PR : AuthorOf[p] = l}]
        PROVE  Good(run'[c])
    <3>1. run' = [run EXCEPT ![c] = [r EXCEPT !.pc = "fetch", !.logins = @ \ {l}, !.login = l,
                                              !.left = {p \in PR : AuthorOf[p] = l}]]
          BY <1>0, <2>1
    <3> QED BY <1>0, <1>1, <3>1 DEF Locals
  <2>2. CASE run' = [run EXCEPT ![c] = [Idle EXCEPT !.pc = "list"]]
        BY <1>0, <1>3, <1>4, <2>2
  <2> QED BY <1>6, <2>1, <2>2 DEF NextLogin
<1>7. CASE FetchAuthoredPRs(c)
  <2>0. r.pc = "fetch"
        BY <1>7 DEF FetchAuthoredPRs
  <2>1. ASSUME NEW p \in r.left, run' = [run EXCEPT ![c].left = @ \ {p}, ![c].page[p] = github[p]]
        PROVE  Good(run'[c])
    <3> DEFINE n == [r EXCEPT !.left = @ \ {p}, !.page = [r.page EXCEPT ![p] = github[p]]]
    <3>1. run'[c] = n
          BY <1>0, <2>1
    <3>2. n.pc = "fetch" /\ n.page = [r.page EXCEPT ![p] = github[p]]
          BY <1>0, <2>0 DEF Locals
    <3>3. r.page \in [PR -> PRState]
          BY <1>0 DEF Locals
    <3>4. \A q \in PR : n.page[q] = "merged" => github[q] = "merged"
          BY <1>1, <3>2, <3>3
    <3> QED BY <3>1, <3>2, <3>4
  <2>2. CASE run' = [run EXCEPT ![c].pc = "upsert", ![c].left = {p \in PR : r.page[p] # "absent"}]
    <3>1. run' = [run EXCEPT ![c] = [r EXCEPT !.pc = "upsert", !.left = {p \in PR : r.page[p] # "absent"}]]
          BY <1>0, <2>2
    <3> QED BY <1>0, <1>1, <3>1 DEF Locals
  <2>3. CASE run' = [run EXCEPT ![c] = [Idle EXCEPT !.pc = "login", !.logins = r.logins]]
        BY <1>0, <1>3, <1>4, <2>3
  <2> QED BY <1>7, <2>1, <2>2, <2>3 DEF FetchAuthoredPRs
<1>8. CASE UpsertGitHubPR(c) \/ MarkPRReverted(c)
  <2>1. ASSUME NEW p \in r.left, run' = [run EXCEPT ![c].left = @ \ {p}]
        PROVE  Good(run'[c])
    <3>1. run' = [run EXCEPT ![c] = [r EXCEPT !.left = @ \ {p}]]
          BY <1>0, <2>1
    <3> QED BY <1>0, <1>1, <3>1 DEF Locals
  <2>2. CASE run' = [run EXCEPT ![c] = [Idle EXCEPT !.pc = "login", !.logins = r.logins]]
        BY <1>0, <1>3, <1>4, <2>2
  <2>3. CASE run' = [run EXCEPT ![c].pc = "compute", ![c].logins = Login]
    <3>1. run' = [run EXCEPT ![c] = [r EXCEPT !.pc = "compute", !.logins = Login]]
          BY <1>0, <2>3
    <3> QED BY <1>0, <1>1, <3>1 DEF Locals
  <2> QED BY <1>8, <2>1, <2>2, <2>3 DEF UpsertGitHubPR, MarkPRReverted
<1>9. CASE ListRecentPRsByRepo(c)
  <2>1. r.pc = "list"
        BY <1>9 DEF ListRecentPRsByRepo
  <2>2. CASE run' = [run EXCEPT ![c].pc = "mark", ![c].left = DetectReverts(githubPRs)]
    <3>1. run' = [run EXCEPT ![c] = [r EXCEPT !.pc = "mark", !.left = DetectReverts(githubPRs)]]
          BY <1>0, <2>2
    <3>2. \A p \in DetectReverts(githubPRs) : Justified(p)
          BY DetectJustified
    <3> QED BY <1>0, <1>1, <3>1, <3>2 DEF Locals
  <2>3. CASE run' = [run EXCEPT ![c].pc = "mark"]
        BY <1>0, <1>1, <2>1, <2>3 DEF Locals
  <2> QED BY <1>9, <2>2, <2>3 DEF ListRecentPRsByRepo
<1>10. CASE ListMergedPRs(c)
  <2>1. PICK l \in r.logins :
          \/ run' = [run EXCEPT ![c].pc = "snapshot", ![c].logins = @ \ {l}, ![c].login = l,
                                ![c].snap = SnapshotOf(l)]
          \/ run' = [run EXCEPT ![c].logins = @ \ {l}]
        BY <1>10 DEF ListMergedPRs
  <2>2. \/ run' = [run EXCEPT ![c] = [r EXCEPT !.pc = "snapshot", !.logins = @ \ {l}, !.login = l,
                                               !.snap = SnapshotOf(l)]]
        \/ run' = [run EXCEPT ![c] = [r EXCEPT !.logins = @ \ {l}]]
        BY <1>0, <2>1
  <2>3. CASE run' = [run EXCEPT ![c] = [r EXCEPT !.pc = "snapshot", !.logins = @ \ {l}, !.login = l,
                                                 !.snap = SnapshotOf(l)]]
    <3>1. run'[c].pc = "snapshot" /\ run'[c].page = r.page
          BY <1>0, <2>3 DEF Locals
    <3> QED BY <1>1, <3>1
  <2>4. CASE run' = [run EXCEPT ![c] = [r EXCEPT !.logins = @ \ {l}]]
        BY <1>0, <1>1, <2>4 DEF Locals
  <2> QED BY <2>2, <2>3, <2>4
<1>11. CASE WriteEfficiencySnapshot(c)
       BY <1>0, <1>3, <1>4, <1>11 DEF WriteEfficiencySnapshot
<1>12. CASE FinishRun(c) \/ Crash(c)
       BY <1>0, <1>3, <1>4, <1>12 DEF FinishRun, Crash
<1> QED BY <1>5, <1>6, <1>7, <1>8, <1>9, <1>10, <1>11, <1>12 DEF RunOnce

\* A collector writes what it has at hand.
LEMMA CollectorStep ==
  ASSUME TypeOK, AtLogin, MergesInv, StaleInv, FindingsInv, FlagIsJustified,
         NEW c \in Collector, RunOnce(c) \/ Crash(c)
  PROVE  MergesInv' /\ StaleInv' /\ FindingsInv' /\ FlagIsJustified'
<1>1. UNCHANGED <<github, merges>>
      BY StoreType
<1>2. \A p : Justified(p) => Justified(p)'
      BY <1>1 DEF Justified
<1>3. \A p \in PR : githubPRs'[p] = "merged" => github[p] = "merged"
  <2>1. CASE UpsertGitHubPR(c)
    <3>1. \A p \in run[c].left : [githubPRs EXCEPT ![p] = run[c].page[p]] \in [PR -> PRState]
          BY DEF TypeOK
    <3> QED BY <2>1, <3>1 DEF UpsertGitHubPR, Upsert, StaleInv, TypeOK
  <2>2. CASE ~UpsertGitHubPR(c)
        BY <2>2 DEF RunOnce, Crash, StartRun, NextLogin, FetchAuthoredPRs, ListRecentPRsByRepo,
              MarkPRReverted, ListMergedPRs, WriteEfficiencySnapshot, FinishRun, StaleInv
  <2> QED BY <2>1, <2>2
<1>4. \A p \in reverted' : Justified(p)
  <2>0. \A p \in reverted : Justified(p)
        BY DEF FlagIsJustified, Justified
  <2>1. CASE MarkPRReverted(c)
    <3>1. \A p \in run[c].left : Justified(p)
          BY <2>1 DEF MarkPRReverted, FindingsInv
    <3> QED BY <2>0, <2>1, <3>1 DEF MarkPRReverted
  <2>2. CASE ~MarkPRReverted(c)
    <3>1. reverted' = reverted
          BY <2>2 DEF RunOnce, Crash, StartRun, NextLogin, FetchAuthoredPRs, ListRecentPRsByRepo,
                UpsertGitHubPR, Upsert, ListMergedPRs, WriteEfficiencySnapshot, FinishRun
    <3> QED BY <2>0, <3>1
  <2> QED BY <2>1, <2>2
<1>5. MergesInv'
      BY <1>1 DEF MergesInv
<1>6. StaleInv' /\ FindingsInv'
      BY <1>1, <1>2, <1>3, OneRuns, OwnRun DEF StaleInv, FindingsInv
<1>7. FlagIsJustified'
      BY <1>2, <1>4 DEF FlagIsJustified, Justified
<1> QED BY <1>5, <1>6, <1>7

\* What keeps the flags justified.
FlagInv == TypeOK /\ AtLogin /\ MergesInv /\ StaleInv /\ FindingsInv /\ FlagIsJustified

LEMMA FlagInvInit == Init => FlagInv
<1> SUFFICES ASSUME Init PROVE FlagInv
    OBVIOUS
<1>1. MergesInv /\ StaleInv
      BY DEF Init, MergesInv, StaleInv, Idle, NoPage
<1>2. FindingsInv /\ FlagIsJustified
      BY DEF Init, FindingsInv, FlagIsJustified, Idle
<1> QED BY <1>1, <1>2, TypeInit DEF FlagInv

LEMMA FlagInvStep == FlagInv /\ [Next]_vars => FlagInv'
<1> SUFFICES ASSUME FlagInv, [Next]_vars PROVE FlagInv'
    OBVIOUS
<1>0. TypeOK /\ AtLogin /\ MergesInv /\ StaleInv /\ FindingsInv /\ FlagIsJustified
      BY DEF FlagInv
<1>1. TypeOK' /\ AtLogin'
      BY <1>0, TypeStep
<1>2. CASE UNCHANGED vars
      BY <1>0, <1>1, <1>2 DEF vars, MergesInv, StaleInv, FindingsInv, FlagIsJustified, Justified, FlagInv
<1>3. CASE Next
      BY <1>0, <1>1, <1>3, GitHubStep, CollectorStep DEF Next, FlagInv
<1> QED BY <1>2, <1>3

\* A PR is flagged as reverted only if GitHub merged it and, later, a PR that
\* matches it: for any number of collectors whose pages and rows are stale,
\* overlapping runs, failed calls and crashes.
THEOREM FlaggedForAReason == Spec => []FlagIsJustified
<1>1. FlagInv => FlagIsJustified
      BY DEF FlagInv
<1> QED BY <1>1, FlagInvInit, FlagInvStep, PTL DEF Spec

-----------------------------------------------------------------------------
(* The leaderboard                                                         *)

\* What a collector has computed and is about to write is earned.
SnapInv ==
  \A c \in Collector : run[c].pc = "snapshot" => Earned(run[c].login, run[c].snap)

\* What the rows say is earned, however stale they are.
LEMMA SnapshotEarned ==
  ASSUME StaleInv, NEW l
  PROVE  Earned(l, SnapshotOf(l))
BY DEF StaleInv, Earned, SnapshotOf

\* A merge and a flag are for good.
LEMMA ForGood ==
  ASSUME TypeOK, AtLogin, [Next]_vars
  PROVE  /\ reverted \subseteq reverted'
         /\ \A p \in PR : github[p] = "merged" => github'[p] = "merged"
<1>1. reverted \subseteq reverted'
      BY FlagStep
<1>2. ASSUME NEW p \in PR, OpenPR(p) \/ MergePR(p)
      PROVE  \A q \in PR : github[q] = "merged" => github'[q] = "merged"
      BY <1>2 DEF OpenPR, MergePR, TypeOK
<1>3. ASSUME NEW c \in Collector, RunOnce(c) \/ Crash(c) PROVE github' = github
      BY <1>3, StoreType
<1>4. CASE UNCHANGED vars
      BY <1>4 DEF vars
<1> QED BY <1>1, <1>2, <1>3, <1>4 DEF Next

\* The leaderboard, and what is on its way to it, stays earned.
LEMMA SnapStep ==
  ASSUME TypeOK, AtLogin, StaleInv, SnapInv, LeaderboardIsEarned, [Next]_vars
  PROVE  SnapInv' /\ LeaderboardIsEarned'
<1> DEFINE Stays(l, s) == /\ s.counted \cup s.reverts \subseteq {p \in PR : AuthorOf[p] = l /\ github'[p] = "merged"}
                          /\ s.reverts \subseteq reverted'
<1>0. \A l, s : Earned(l, s) => Stays(l, s)
      BY ForGood DEF Earned
<1>1. \A c \in Collector : run'[c].pc = "snapshot" => Stays(run'[c].login, run'[c].snap)
  <2>1. CASE run' = run
        BY <1>0, <2>1 DEF SnapInv
  <2>2. ASSUME NEW c \in Collector, RunOnce(c) \/ Crash(c), NEW d \in Collector, run'[d].pc = "snapshot"
        PROVE  Stays(run'[d].login, run'[d].snap)
    <3>1. CASE d = c
      <4>1. Earned(run'[c].login, run'[c].snap)
            BY <2>2, <3>1, SnapshotTaken, SnapshotEarned
      <4> QED BY <1>0, <3>1, <4>1
    <3>2. CASE d # c
      <4>1. run'[d] = run[d] /\ Earned(run[d].login, run[d].snap)
            BY <2>2, <3>2, OneRuns DEF SnapInv
      <4> QED BY <1>0, <4>1
    <3> QED BY <3>1, <3>2
  <2>3. ASSUME NEW p \in PR, OpenPR(p) \/ MergePR(p) PROVE run' = run
        BY <2>3 DEF OpenPR, MergePR
  <2> HIDE DEF Stays
  <2> QED BY <2>1, <2>2, <2>3 DEF Next, vars
<1>2. \A l \in Login : Stays(l, shown'[l])
  <2>1. CASE shown' = shown
        BY <1>0, <2>1 DEF LeaderboardIsEarned
  <2>2. ASSUME NEW c \in Collector, WriteEfficiencySnapshot(c), NEW l \in Login
        PROVE  Stays(l, shown'[l])
    <3>1. Earned(run[c].login, run[c].snap)
          BY <2>2 DEF WriteEfficiencySnapshot, SnapInv
    <3>2. shown'[l] = shown[l] \/ (l = run[c].login /\ shown'[l] = run[c].snap)
          BY <2>2 DEF WriteEfficiencySnapshot, TypeOK
    <3> HIDE DEF Stays
    <3> QED BY <1>0, <3>1, <3>2 DEF LeaderboardIsEarned
  <2>3. shown' = shown \/ \E c \in Collector : WriteEfficiencySnapshot(c)
        BY DEF Next, vars, OpenPR, MergePR, RunOnce, Crash, StartRun, NextLogin, FetchAuthoredPRs,
              UpsertGitHubPR, ListRecentPRsByRepo, MarkPRReverted, ListMergedPRs, FinishRun
  <2> HIDE DEF Stays
  <2> QED BY <2>1, <2>2, <2>3
<1>3. SnapInv'
      BY <1>1 DEF SnapInv, Earned
<1>4. LeaderboardIsEarned'
      BY <1>2 DEF LeaderboardIsEarned, Earned
<1> QED BY <1>3, <1>4

\* The leaderboard credits a login with merged PRs of its own only, for any
\* number of collectors, stale pages and rows, overlapping runs and crashes.
THEOREM CreditIsEarned == Spec => []LeaderboardIsEarned
<1>1. Init => SnapInv /\ LeaderboardIsEarned
      BY DEF Init, SnapInv, LeaderboardIsEarned, Earned, Idle, NoSnapshot
<1>2. FlagInv /\ SnapInv /\ LeaderboardIsEarned /\ [Next]_vars => (SnapInv /\ LeaderboardIsEarned)'
      BY SnapStep DEF FlagInv
<1> QED BY <1>1, <1>2, FlagInvInit, FlagInvStep, PTL DEF Spec

-----------------------------------------------------------------------------
(* What starts a run: the triggers                                         *)

\* Steps of the requests keep the types; the empty username is not added.
LEMMA RequestType ==
  ASSUME TriggersTypeOK,
         \/ \E u \in Login \cup {NoName} : HandleCommit(u)
         \/ HandlerTrigger \/ PublishCollectorTrigger
         \/ Forward \/ Relay
         \/ TickerTick \/ DebounceElapses
  PROVE  TriggersTypeOK'
<1> USE DEF queues, Trigger, Fault, NoFault
<1>1. CASE \E u \in Login \cup {NoName} : HandleCommit(u)
  <2>1. PICK u \in Login \cup {NoName} : HandleCommit(u)
        BY <1>1
  <2>2. dirty' \subseteq Login
        BY <2>1 DEF HandleCommit, SAdd, TriggersTypeOK
  <2>3. faults' \in 0..MaxFaults
        BY <2>1, FaultBound DEF HandleCommit, TriggersTypeOK
  <2> QED BY <2>1, <2>2, <2>3 DEF HandleCommit, TriggersTypeOK
<1>2. CASE HandlerTrigger
      BY <1>2 DEF HandlerTrigger, TriggersTypeOK
<1>3. CASE PublishCollectorTrigger
  <2>1. faults' \in 0..MaxFaults
        BY <1>3, FaultBound DEF PublishCollectorTrigger, TriggersTypeOK
  <2> QED BY <1>3, <2>1 DEF PublishCollectorTrigger, TriggersTypeOK
<1>4. CASE Forward
      BY <1>4 DEF Forward, TriggersTypeOK
<1>5. CASE Relay
      BY <1>5 DEF Relay, TriggersTypeOK
<1>6. CASE TickerTick \/ DebounceElapses
      BY <1>6 DEF TickerTick, DebounceElapses, TriggersTypeOK
<1> QED BY <1>1, <1>2, <1>3, <1>4, <1>5, <1>6

\* Steps of the loop keep the types.
LEMMA LoopType ==
  ASSUME TriggersTypeOK, Run \/ WorkerCrash
  PROVE  TriggersTypeOK'
<1> USE DEF queues, LoopState, Fault, NoFault
<1>1. CASE Startup \/ Scan \/ Finish
      BY <1>1 DEF Startup, Scan, Finish, TriggersTypeOK
<1>2. CASE Select
      BY <1>2 DEF Select, TriggersTypeOK
<1>3. CASE Debounce
  <2>1. excused' \in BOOLEAN
        BY <1>3 DEF Debounce, TriggersTypeOK
  <2> QED BY <1>3, <2>1 DEF Debounce, TriggersTypeOK
<1>4. CASE SMembers
  <2>1. faults' \in 0..MaxFaults
        BY <1>4, FaultBound DEF SMembers, TriggersTypeOK
  <2> QED BY <1>4, <2>1 DEF SMembers, TriggersTypeOK
<1>5. CASE Del
  <2>1. faults' \in 0..MaxFaults
        BY <1>5, FaultBound DEF Del, TriggersTypeOK
  <2> QED BY <1>5, <2>1 DEF Del, TriggersTypeOK
<1>6. CASE WorkerCrash
  <2>1. faults' \in 0..MaxFaults
        BY <1>6, FaultBound DEF WorkerCrash, TriggersTypeOK
  <2> QED BY <1>6, <2>1 DEF WorkerCrash, TriggersTypeOK
<1> QED BY <1>1, <1>2, <1>3, <1>4, <1>5, <1>6 DEF Run

\* Type correctness of the collector's triggers: in particular the set of
\* dirty engineers never holds the empty username.
THEOREM TriggersTypeCorrect == TriggersSpec => []TriggersTypeOK
<1>1. TriggersInit => TriggersTypeOK
  <2> SUFFICES ASSUME TriggersInit PROVE TriggersTypeOK
      OBVIOUS
  <2>1. faults \in 0..MaxFaults
        BY FaultBound DEF TriggersInit
  <2> QED BY <2>1, Zenon DEF TriggersInit, TriggersTypeOK, LoopState
<1>2. TriggersTypeOK /\ [TriggersNext]_triggersVars => TriggersTypeOK'
  <2> SUFFICES ASSUME TriggersTypeOK, [TriggersNext]_triggersVars PROVE TriggersTypeOK'
      OBVIOUS
  <2>1. CASE TriggersNext
        BY <2>1, RequestType, LoopType DEF TriggersNext
  <2>2. CASE UNCHANGED triggersVars
        BY <2>2 DEF triggersVars, queues, TriggersTypeOK
  <2> QED BY <2>1, <2>2
<1> QED BY <1>1, <1>2, PTL DEF TriggersSpec

\* Steps of the requests: the token moves on, one channel after the other.
LEMMA RequestStep ==
  ASSUME NoLostWakeup,
         \/ \E u \in Login \cup {NoName} : HandleCommit(u)
         \/ HandlerTrigger \/ PublishCollectorTrigger
         \/ Forward \/ Relay
         \/ TickerTick \/ DebounceElapses
  PROVE  NoLostWakeup'
<1> USE DEF NoLostWakeup, Queued, Starting, queues
<1>1. CASE \E u \in Login \cup {NoName} : HandleCommit(u)
      BY <1>1 DEF HandleCommit
<1>2. CASE HandlerTrigger
      BY <1>2 DEF HandlerTrigger, Trigger
<1>3. CASE PublishCollectorTrigger
      BY <1>3 DEF PublishCollectorTrigger
<1>4. CASE Forward
      BY <1>4 DEF Forward
<1>5. CASE Relay
      BY <1>5 DEF Relay, Trigger
<1>6. CASE TickerTick \/ DebounceElapses
      BY <1>6 DEF TickerTick, DebounceElapses
<1> QED BY <1>1, <1>2, <1>3, <1>4, <1>5, <1>6

\* Steps of the loop: a token that is taken leads to a scan or is debounced,
\* and only a scan ends the request.
LEMMA LoopStep ==
  ASSUME NoLostWakeup, Run \/ WorkerCrash
  PROVE  NoLostWakeup'
<1> USE DEF NoLostWakeup, Queued, Starting, queues
<1>1. CASE Startup
      BY <1>1 DEF Startup
<1>2. CASE Select
      BY <1>2 DEF Select
<1>3. CASE Debounce
      BY <1>3 DEF Debounce
<1>4. CASE SMembers
      BY <1>4 DEF SMembers
<1>5. CASE Del
      BY <1>5 DEF Del
<1>6. CASE Scan
      BY <1>6 DEF Scan
<1>7. CASE Finish
      BY <1>7 DEF Finish
<1>8. CASE WorkerCrash
      BY <1>8 DEF WorkerCrash
<1> QED BY <1>1, <1>2, <1>3, <1>4, <1>5, <1>6, <1>7, <1>8 DEF Run

\* A request is queued, about to be answered, debounced or lost to a fault.
THEOREM WakeupKept == TriggersSpec => []NoLostWakeup
<1>1. TriggersInit => NoLostWakeup
      BY DEF TriggersInit, NoLostWakeup
<1>2. NoLostWakeup /\ [TriggersNext]_triggersVars => NoLostWakeup'
  <2> SUFFICES ASSUME NoLostWakeup, [TriggersNext]_triggersVars
               PROVE  NoLostWakeup'
      OBVIOUS
  <2>1. CASE TriggersNext
        BY <2>1, RequestStep, LoopStep DEF TriggersNext
  <2>2. CASE UNCHANGED triggersVars
        BY <2>2 DEF triggersVars, queues, NoLostWakeup,
                    Queued, Starting
  <2> QED BY <2>1, <2>2
<1> QED BY <1>1, <1>2, PTL DEF TriggersSpec
=============================================================================
