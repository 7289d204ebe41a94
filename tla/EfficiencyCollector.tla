------------------------- MODULE EfficiencyCollector -------------------------
(***************************************************************************)
(* One run of the efficiency collector of sentinel-workers:                *)
(*                                                                         *)
(*   fetchAndStore          PRs of every login, GitHub -> github_prs       *)
(*   detectAndMarkReverts   github_prs -> the reverted flag                *)
(*   computeSnapshots       github_prs -> efficiency_snapshots             *)
(*                                                                         *)
(* GitHub moves on between two calls, every call may fail, and a rolling   *)
(* update overlaps the collectors of two worker pods (inside a process     *)
(* runMu excludes it).  Why a run starts is the subject of                 *)
(* CollectorTriggers; here the cron tick may start one at any time.        *)
(*                                                                         *)
(* One window of the leaderboard is modelled, in which every PR lies, one  *)
(* configured repository, and of a snapshot the PRs it counts.             *)
(***************************************************************************)
EXTENDS CollectorFaults, Sequences, SequencesExt

CONSTANTS
  Collector,  \* collector processes
  PR,         \* pull requests
  AuthorOf,   \* their authors
  TitleMatch, \* PRs whose title matches that of a PR "Revert ..."
  Overlap,    \* PRs a PR may undo by its files, by falling similarity
  Scanned     \* PRs of the repository in cfg.Repos; other PRs are only counted

None == "none"

ASSUME Constants ==
  /\ AuthorOf \in [PR -> Login]
  /\ TitleMatch \in [PR -> SUBSET PR]
  /\ Overlap \in [PR -> Seq(PR)]
  /\ Scanned \subseteq PR

VARIABLES
  github,      \* state of each PR on GitHub
  merges,      \* the merged PRs in the order of their mergedAt
  githubPRs,   \* state of each PR in github_prs
  reverted,    \* PRs whose reverted flag is set
  run,         \* the locals of each collector's runOnce
  earlier,     \* the other collectors in computeSnapshots with an earlier computed_at
  superseded,  \* logins with a snapshot of a later computed_at than its own
  shown        \* the snapshot of each login with the latest computed_at

vars == <<github, merges, githubPRs, reverted, run, earlier, superseded, shown, faults>>

\* A PR closed without a merge counts for nothing, like an open one.
PRState == {"absent", "open", "merged"}
NoPage == [p \in PR |-> "absent"]
NoSnapshot == [counted |-> {}, reverts |-> {}]
Idle == [pc |-> "idle", logins |-> {}, login |-> None, left |-> {}, page |-> NoPage,
         snap |-> NoSnapshot]

PC == {"idle", "login", "fetch", "upsert", "list", "mark", "compute", "snapshot"}
Snapshot == [counted : SUBSET PR, reverts : SUBSET PR]

Init ==
  /\ github = [p \in PR |-> "absent"]
  /\ merges = <<>>
  /\ githubPRs = [p \in PR |-> "absent"]
  /\ reverted = {}
  /\ run = [c \in Collector |-> Idle]
  /\ earlier = [c \in Collector |-> {}]
  /\ superseded = [c \in Collector |-> {}]
  /\ shown = [l \in Login |-> NoSnapshot]
  /\ faults = 0

-----------------------------------------------------------------------------
(* GitHub                                                                  *)

OpenPR(p) ==
  /\ github[p] = "absent"
  /\ github' = [github EXCEPT ![p] = "open"]
  /\ UNCHANGED <<merges, githubPRs, reverted, run, earlier, superseded, shown, faults>>

MergePR(p) ==
  /\ github[p] = "open"
  /\ github' = [github EXCEPT ![p] = "merged"]
  /\ merges' = Append(merges, p)
  /\ UNCHANGED <<githubPRs, reverted, run, earlier, superseded, shown, faults>>

-----------------------------------------------------------------------------
(* runOnce: fetchAndStore                                                  *)

StartRun(c) ==
  /\ run[c].pc = "idle"
  /\ run' = [run EXCEPT ![c].pc = "login", ![c].logins = Login]
  /\ UNCHANGED <<github, merges, githubPRs, reverted, earlier, superseded, shown, faults>>

\* The loop over AllGitHubUsernames.
NextLogin(c) ==
  /\ run[c].pc = "login"
  /\ \/ \E l \in run[c].logins :
          run' = [run EXCEPT ![c].pc = "fetch", ![c].logins = @ \ {l}, ![c].login = l,
                             ![c].left = {p \in PR : AuthorOf[p] = l}]
     \/ /\ run[c].logins = {}
        /\ run' = [run EXCEPT ![c] = [Idle EXCEPT !.pc = "list"]]
  /\ UNCHANGED <<github, merges, githubPRs, reverted, earlier, superseded, shown, faults>>

\* FetchAuthoredPRs walks the pages of the search, here of one PR each.  An
\* error drops what the login's earlier pages held.
FetchAuthoredPRs(c) ==
  /\ run[c].pc = "fetch"
  /\ \/ /\ \E p \in run[c].left :
             run' = [run EXCEPT ![c].left = @ \ {p}, ![c].page[p] = github[p]]
        /\ NoFault
     \/ /\ run[c].left = {}
        /\ run' = [run EXCEPT ![c].pc = "upsert",
                              ![c].left = {p \in PR : run[c].page[p] # "absent"}]
        /\ NoFault
     \/ /\ run' = [run EXCEPT ![c] = [Idle EXCEPT !.pc = "login", !.logins = run[c].logins]]
        /\ Fault
  /\ UNCHANGED <<github, merges, githubPRs, reverted, earlier, superseded, shown>>

\* Mutant: ON CONFLICT DO NOTHING.
Upsert_Insert(p, s) ==
  /\ githubPRs' = [githubPRs EXCEPT ![p] = IF @ = "absent" THEN s ELSE @]
  /\ UNCHANGED reverted

\* Mutant: the update takes the reverted flag of the fetched PR, too.
Upsert_All(p, s) ==
  /\ githubPRs' = [githubPRs EXCEPT ![p] = s]
  /\ reverted' = reverted \ {p}

\* INSERT ... ON CONFLICT (repo, pr_number) DO UPDATE of everything but the
\* reverted flag.
Upsert(p, s) ==
  /\ githubPRs' = [githubPRs EXCEPT ![p] = s]
  /\ UNCHANGED reverted

UpsertGitHubPR(c) ==
  /\ run[c].pc = "upsert"
  /\ \/ \E p \in run[c].left :
          /\ run' = [run EXCEPT ![c].left = @ \ {p}]
          /\ \/ Upsert(p, run[c].page[p]) /\ NoFault
             \/ Fault /\ UNCHANGED <<githubPRs, reverted>>
     \/ /\ run[c].left = {}
        /\ run' = [run EXCEPT ![c] = [Idle EXCEPT !.pc = "login", !.logins = run[c].logins]]
        /\ NoFault /\ UNCHANGED <<githubPRs, reverted>>
  /\ UNCHANGED <<github, merges, earlier, superseded, shown>>

-----------------------------------------------------------------------------
(* runOnce: detectAndMarkReverts                                           *)

MergedAt(p) == SelectInSeq(merges, LAMBDA q : q = p)

\* The PRs q may undo: merged before it, as far as the rows state know.
Priors(q, state) ==
  IF state[q] # "merged" THEN {}
  ELSE {p \in Scanned \ {q} : state[p] = "merged" /\ MergedAt(p) < MergedAt(q)}

\* detectFromTitle takes the prior that was merged last.
DetectFromTitle(q, state) ==
  LET match == Priors(q, state) \cap TitleMatch[q]
  IN  {p \in match : \A o \in match : MergedAt(o) <= MergedAt(p)}

\* detectFromFileOverlap takes the most similar prior.
DetectFromFileOverlap(q, state) ==
  LET match == {i \in DOMAIN Overlap[q] : Overlap[q][i] \in Priors(q, state)}
  IN  {Overlap[q][i] : i \in {m \in match : \A n \in match : m <= n}}

\* Mutant: the time of the merge is not looked at.
DetectReverts_AnyOrder(state) ==
  UNION {{p \in TitleMatch[q] : state[p] = "merged" /\ state[q] = "merged"} : q \in Scanned}

\* Mutant: the zero value stands for no match.
DetectReverts_Zero(state) ==
  UNION {IF DetectFromTitle(q, state) = {} THEN {None} ELSE DetectFromTitle(q, state)
           : q \in {r \in Scanned : state[r] = "merged"}}

\* The originals found by either heuristic.
DetectReverts(state) ==
  UNION {DetectFromTitle(q, state) \cup DetectFromFileOverlap(q, state) : q \in Scanned}

ListRecentPRsByRepo(c) ==
  /\ run[c].pc = "list"
  /\ \/ /\ run' = [run EXCEPT ![c].pc = "mark",
                              ![c].left = DetectReverts(githubPRs)]
        /\ NoFault
     \/ run' = [run EXCEPT ![c].pc = "mark"] /\ Fault
  /\ UNCHANGED <<github, merges, githubPRs, reverted, earlier, superseded, shown>>

\* One UPDATE per finding; then computeSnapshots takes its computed_at.
MarkPRReverted(c) ==
  /\ run[c].pc = "mark"
  /\ \/ \E p \in run[c].left :
          /\ run' = [run EXCEPT ![c].left = @ \ {p}]
          /\ \/ reverted' = reverted \cup {p} /\ NoFault
             \/ Fault /\ UNCHANGED reverted
          /\ UNCHANGED <<earlier, superseded>>
     \/ /\ run[c].left = {}
        /\ run' = [run EXCEPT ![c].pc = "compute", ![c].logins = Login]
        /\ earlier' = [earlier EXCEPT ![c] = {d \in Collector : run[d].pc \in {"compute", "snapshot"}}]
        /\ superseded' = [superseded EXCEPT ![c] = {}]
        /\ NoFault /\ UNCHANGED reverted
  /\ UNCHANGED <<github, merges, githubPRs, shown>>

-----------------------------------------------------------------------------
(* runOnce: computeSnapshots                                               *)

\* Mutant: without merged_at IS NOT NULL, an open PR counts, too.
SnapshotOf_Open(l) ==
  LET mine == {p \in PR : AuthorOf[p] = l /\ githubPRs[p] # "absent"}
  IN  [counted |-> mine \ reverted, reverts |-> mine \cap reverted]

\* What a snapshot counts: merged PRs without the reverted ones, and these.
SnapshotOf(l) ==
  LET merged == {p \in PR : AuthorOf[p] = l /\ githubPRs[p] = "merged"}
  IN  [counted |-> merged \ reverted, reverts |-> merged \cap reverted]

\* ListMergedPRsByEngineerGitHub; a failed lookup of cost or PRs skips the
\* engineer.
ListMergedPRs(c) ==
  /\ run[c].pc = "compute"
  /\ \E l \in run[c].logins :
       \/ /\ run' = [run EXCEPT ![c].pc = "snapshot", ![c].logins = @ \ {l}, ![c].login = l,
                                ![c].snap = SnapshotOf(l)]
          /\ NoFault
       \/ run' = [run EXCEPT ![c].logins = @ \ {l}] /\ Fault
  /\ UNCHANGED <<github, merges, githubPRs, reverted, earlier, superseded, shown>>

\* The row is appended with the run's computed_at; Leaderboard reads the row
\* with the latest one.
WriteEfficiencySnapshot(c) ==
  /\ run[c].pc = "snapshot"
  /\ \/ /\ LET l == run[c].login
           IN  /\ shown' = [shown EXCEPT ![l] = IF l \in superseded[c] THEN @ ELSE run[c].snap]
               /\ superseded' = [d \in Collector |-> IF d \in earlier[c] THEN superseded[d] \cup {l}
                                                                    ELSE superseded[d]]
        /\ NoFault
     \/ Fault /\ UNCHANGED <<shown, superseded>>
  /\ run' = [run EXCEPT ![c] = [Idle EXCEPT !.pc = "compute", !.logins = run[c].logins]]
  /\ UNCHANGED <<github, merges, githubPRs, reverted, earlier>>

\* The run's computed_at matters no more.
Leave(c) ==
  /\ earlier' = [d \in Collector |-> IF d = c THEN {} ELSE earlier[d] \ {c}]
  /\ superseded' = [superseded EXCEPT ![c] = {}]

FinishRun(c) ==
  /\ run[c].pc = "compute" /\ run[c].logins = {}
  /\ run' = [run EXCEPT ![c] = Idle]
  /\ Leave(c)
  /\ UNCHANGED <<github, merges, githubPRs, reverted, shown, faults>>

Crash(c) ==
  /\ run[c].pc # "idle"
  /\ Fault
  /\ run' = [run EXCEPT ![c] = Idle]
  /\ Leave(c)
  /\ UNCHANGED <<github, merges, githubPRs, reverted, shown>>

-----------------------------------------------------------------------------
RunOnce(c) ==
  \/ StartRun(c) \/ NextLogin(c) \/ FetchAuthoredPRs(c) \/ UpsertGitHubPR(c)
  \/ ListRecentPRsByRepo(c) \/ MarkPRReverted(c) \/ ListMergedPRs(c)
  \/ WriteEfficiencySnapshot(c) \/ FinishRun(c)

Next ==
  \/ \E p \in PR : OpenPR(p) \/ MergePR(p)
  \/ \E c \in Collector : RunOnce(c) \/ Crash(c)

\* The ticker starts a run again and again, and a run goes on to its end.
Fairness == \A c \in Collector : WF_vars(RunOnce(c))

Spec == Init /\ [][Next]_vars /\ Fairness

-----------------------------------------------------------------------------
(* Properties                                                              *)

\* Every variable has its type.
TypeOK ==
  /\ github \in [PR -> PRState]
  /\ merges \in Seq(PR)
  /\ githubPRs \in [PR -> PRState]
  /\ reverted \subseteq PR
  /\ run \in [Collector -> [pc : PC, logins : SUBSET Login, login : Login \cup {None},
                           left : SUBSET PR, page : [PR -> PRState], snap : Snapshot]]
  /\ earlier \in [Collector -> SUBSET Collector]
  /\ superseded \in [Collector -> SUBSET Login]
  /\ shown \in [Login -> Snapshot]
  /\ faults \in 0..MaxFaults

\* A PR is flagged as reverted only if GitHub has merged it and, later, a PR
\* that matches it, however stale what the collectors fetched.
FlagIsJustified ==
  \A p \in reverted :
    \E q \in PR :
      /\ p \in TitleMatch[q] \cup ToSet(Overlap[q])
      /\ \E i, j \in 1..Len(merges) : i < j /\ merges[i] = p /\ merges[j] = q

\* The reverted flag is never taken back: GitHub knows nothing of it, and the
\* upsert of a later sync, or of an overlapping collector, leaves it alone.
RevertedSticks == [][reverted \subseteq reverted']_reverted

\* The PRs of a snapshot are the login's and merged, and its reverts flagged.
Earned(l, snap) ==
  /\ snap.counted \cup snap.reverts \subseteq {p \in PR : AuthorOf[p] = l /\ github[p] = "merged"}
  /\ snap.reverts \subseteq reverted

\* The leaderboard credits a login only with PRs of its own that GitHub has
\* merged, and holds only flagged ones against it, whatever the rows said when
\* its snapshot was computed and whichever collector wrote it last.
LeaderboardIsEarned == \A l \in Login : Earned(l, shown[l])

Truth(l) ==
  LET merged == {p \in PR : AuthorOf[p] = l /\ github[p] = "merged"}
      undone == DetectReverts(github)
  IN  [counted |-> merged \ undone, reverts |-> merged \cap undone]

\* The leaderboard converges to what happened on GitHub: failed calls, crashes
\* and the stale upserts of an overlapping collector are made good by later
\* runs, each of which scans everything (when a revert matches one PR only).
LeaderboardConverges == <>[](\A l \in Login : shown[l] = Truth(l))
=============================================================================
