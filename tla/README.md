# TLA+ models of the enterprise LLM tracker (Sentinel)

Sentinel tracks what engineers spend on Claude Code. `sentinel-api` receives
OpenTelemetry data, keeps spend counters in Redis and publishes every event to
Kafka; `sentinel-workers` consumes the topic with four consumer groups that
write Postgres, send budget alerts, look for unusual usage and start the GitHub
efficiency collector. This directory models the parts in which order, failure
and concurrency decide whether the numbers are right.

    OTLP -> sentinel-api (2..5 replicas) --INCRBYFLOAT--> Redis
                 |                                          ^   |
                 +--async producer--> Kafka                 |   | counters, claims,
                                        |                   |   v dirty set, Pub/Sub
                          sentinel-workers (1 pod, 2 during a rolling update)
                            postgres-writer   -> usage_events
                            threshold-checker -> claims, Slack, threshold_triggers
                            signal-detector   -> signal_events, Slack
                            github-trigger    -> collector -> github_prs,
                                                              efficiency_snapshots

Deployment facts the models rely on: `charts/sentinel/values.yaml` runs two API replicas
(up to five by autoscaling) and one workers pod, whose rolling update overlaps
two pods for a while; Redis is deployed without persistence.

## Inventory

| Component | State | Operations | Hard part | What makes it correct |
|---|---|---|---|---|
| OTLP ingest (`internal/ingest`, `service/ingest.go`) | none | RecordMetric, RecordLogEvent | two calls, either may fail | counted before visible; log events leave the counters alone |
| Redis counters (`store/store.go`, `record_event.lua`) | cost:today, cost:month, tokens:today per engineer | script, RebuildCounters, expiry | a rebuild races with ingest on another replica; expiry in the last second; calls that arrive a day late or twice; the duration of a SET runs from its arrival | an event is counted once and stays counted; a new period starts fresh |
| Kafka producer / consumer (`internal/kafka`) | writer buffer; topic; committed offset | Publish, Run | lost acknowledgements, crashes, rebalances, cumulative commits, LastOffset | at-least-once, nothing skipped |
| Persist (`service/persist.go`) | usage_events | HandleEvent | redelivery | one row per event_id |
| Threshold checker (`service/threshold.go`) | claim keys with TTL, threshold_triggers | HandleEvent, checkPeriod, fireThreshold | two workers, midnight, partial failure | one alert per tier and period, from below, none swallowed |
| Efficiency collector, run (`service/efficiency.go`, `store/github.go`, `internal/github`) | github_prs, efficiency_snapshots | fetchAndStore, detectAndMarkReverts, computeSnapshots | GitHub moves on between calls, two pods overlap, partial failure | flags justified and kept; leaderboard converges |
| Efficiency collector, triggers (`service/efficiency.go`, `cmd/sentinel-workers`) | triggerCh, lastRunAt, dirty set | Trigger, Run, Pub/Sub relay, drain | three lossy channels, debounce | no lost wake-up; every request answered |
| Engineer registry and administration (`internal/registry`, `service/engineer.go`) | snapshot pointer per process, engineers table | Load, Run, Create, Update, Deactivate | overlapping loads; only one replica refreshed; a failed reload is only logged | a process converges to the table; no older snapshot replaces a newer one for good |
| Signal detector, baselines (`service/signal_detector.go`, `baseline.go`, `store/signals.go`) | burst window, daily claims, signal_events, baseline | HandleEvent, checkBurst, checkZScore, checkRhythmBreak, fire, rebuild | the claim precedes the insert; a pipeline that is no transaction; redelivered and late events; window members `time:cost` collapse | one signal per kind, severity and day; a burst sums distinct events; a claim becomes a row |
| Rollup (`service/rollup.go`) | engineer_signals | both passes of each window | two pods overlap, facts change between queries, the upsert clears ranks, the next run is a day away; ties and small cohorts | overlapping pods leave right rows, ranks follow the costs |
| Migration (`internal/migrate`) | schema_migrations, the advisory lock | Apply | replicas of several releases start together; the lock's session is not the one the files run on; lost answers, crashes | every file applied, in order, once; nobody serves before; nobody waits for ever |
| HTTP, auth, daily rollup job, Slack client, GitHub client, config, dashboard, load tools | none of their own | | | not modelled, or part of the modules above |

`PROJECT.json` lists all components with their sources and what is left out, and
under `hazards` each place where this code can go wrong in a way a test would
hardly reach.

## Plan

Done:

1. `UsagePipeline`: ingest, counters, rebuild, Kafka, persist; with proofs.
2. `ThresholdAlerts`: the checker with its claims; with proofs.
3. `EfficiencyCollector`: the run, overlapping collectors; with proofs.
4. `CollectorTriggers`: when it runs; with proofs.
5. `EngineerRegistry`, which implements the abstract `RegistryView`; with proofs.
6. `SignalDetector`: window bump, daily claim, severities, row and DM, and the
   baselines it measures against; with proofs.
7. `BudgetCounters`: the counters over the ends of days and months, which
   `UsagePipeline` keeps within one day; with proofs.
8. `Migrate`: replicas that start together, the lock, failures; with proofs.
9. `EfficiencyRollup`: both passes with overlapping pods, ranks and medians; with
   proofs.

Left for later:

10. Revert matching (title containment, Jaccard, the file-count bound) against
    reference definitions.
11. An ambiguous revert in `EfficiencyCollector`: two PRs match, and the true
    original is synced late.

A composition of `UsagePipeline` with `ThresholdAlerts` is not planned: the
checker is shown correct for every value the counters may return, and
`VisibleIsCounted` is the only fact it needs from the pipeline.

## Modules

### UsagePipeline

Each API replica has a program counter (`apiPC`), and the locals of
`RebuildCounters` (`todo`, `cur`, `rows`). Each event has the next call of its
handler (`call`), its place in the producer (`outbox`) and the replica that
received it (`host`). Counters are kept as *how often each event is summed in
them*: amounts play no role, double or missing counting does. Kafka is one
partition log; the group's committed offset, the reader's position and the
message in hand are separate, as in kafka-go. `usageEvents` counts the rows with
an `event_id`.

| Action | Code |
|---|---|
| ApiStart, Serve, ApiShutdown, ApiCrash | `cmd/sentinel-api/main.go` |
| QueryToday, SetToday, QueryMonth, SetMonth | `RebuildCounters`, one step per query and per SET |
| Attribute, NextCall | `RecordMetric` / `RecordLogEvent` up to the first call, and the order of the calls |
| WriteEventRedis | the Lua script; may fail, may run twice (a retry of go-redis) |
| Publish, Deliver | the asynchronous `kafka.Writer`; may lose, may resend |
| WorkerStart, FetchMessage, SkipPoison, HandleEvent, CommitMessages | `Consumer.Run` with `PersistService.HandleEvent` |
| Rejoin, WorkerStop, RedisRestart, ForeignRecord | rebalance, crash or SIGTERM, Redis restart, a record that does not unmarshal |

An event of an unknown identity is dropped with a warning, that is, no step is
taken for it. The model stays within one UTC day, apart from `occurred_at`,
which may lie in an earlier day or month (`Occurs`). `last_otel_at` is left out:
nothing of this part reads it. The topic has several partitions; offsets,
assignment and order are per partition, an event lies in one of them, and one is
modelled.

### ThresholdAlerts

Each worker goes through `HandleEvent` -> `checkPeriod("daily")` ->
`checkPeriod("monthly")`; reading the counter, each turn of the loop, the SETNX,
each DM and the audit row are steps. A claim is the expiry of its key, in ticks
of a second. `EndOf` is any calendar in which the end of a period is the same
seen from each of its seconds (assumption `Calendar`).

Assumptions: `Tiers` increases, as in the shipped configuration
(`config.Validate` does not check it, and `LowestTierFirst` is about the order of
the list); `PromptClaims`, that the SETNX reaches Redis in the second its TTL
was computed. Without it the TTL counts from a later instant than it was
computed for and a claim of the last seconds may live into the next day:
`NextPeriodFresh` is then false by exactly that delay. The claim runs and
the theorems say so by carrying the assumption.

`GetCostCounter` may return any member of `Spends` at any call. An event of an
engineer whom the registry does not know is a stutter.

### EfficiencyCollector

`github` and `merges` are the truth on GitHub, `githubPRs` and `reverted` the
table, `run[c]` the locals of one collector's `runOnce`, `shown` what the
leaderboard reads: the row with the latest `computed_at`. Rows of a run with an
earlier `computed_at` that are inserted later are hidden (`earlier`,
`superseded`). Pages of the GitHub search hold one PR each, so that merges happen
between pages. Title containment, Jaccard similarity, the 14-day window and the
file-count bound are constants (`TitleMatch`, `Overlap`). Left out: the second
and third window, cost, several repositories, and `github_repo_sync`, which
nothing reads.

### CollectorTriggers

The token of a request travels: handler -> `triggerCh`, or Pub/Sub message ->
forwarder's channel -> relay goroutine -> `triggerCh`; each is a Boolean because
each holds one token and every send is non-blocking. A run is a step `Scan`
between the drain of the dirty set and `Finish`, which opens the debounce
window. `asked` and `excused` remember a request and that it was debounced, or
lost to a fault. `runMu` is only ever taken by the one goroutine of `Run`, so
`TryLock` always succeeds and is not modelled. Logins, the bound on faults and their
count are in `CollectorFaults`, which `EfficiencyCollector` extends, too.

### EngineerRegistry and RegistryView

`table` is the engineers table as a set of rows in which no two agree on email
or GitHub username (the UNIQUE constraints); `history` lists the active rows
after each write. Every process has a goroutine `main` (the initial load, then
the ticker's) and, in the API, request handlers. `Load` is two steps, `Query` and
`StoreSnapshot`, since the mutex is taken for the swap only; `LoadFails` is its
error at either place, fatal at startup. A handler's statement commits and its
own `Load` begins (`Commit`), or the statement commits and the reply is lost, and
nothing is reloaded. A handler returns when its `Load` has ended, well or not, since
`refreshRegistry` only logs an error (`LoadReturns`); the history variable `returned`
keeps the newest write whose handler has returned, the loads that had queried before
it did (`older`), and whether one of them stored last (`stale`). `lastError` is
`LastRefreshError`, which the status page shows (`router.go:79`). The maps `byEmail` and `byGitHub` are the sets of their
engineers. Left out: trimming and lower-casing of keys, validation errors (they
change nothing), names and Slack IDs, and the read-only views.

`RegistryView` is the promise to the rest of a process: a view that becomes, as a
whole, some state the table has been in, the same by email and by GitHub
username, empty when the process ends, and in the end the present table.
`EngineerRegistry` implements it with `view <- snap`. The abstract `Refresh`
deliberately allows a step back to an older state: overlapping loads make one.

### BudgetCounters

`value` and `expiry` are the two cost keys of one engineer; a key is there while
`now < expiry`, and `NoTTL` lies beyond the horizon. A counter is the set of
events summed in it (how often is `UsagePipeline`'s subject). `WriteEventRedis`
takes the time, `RecordEvent` is the script when Redis runs it, any number of
seconds later; `RebuildCounters` takes the time once, and `Query`, `TimeUntil` and
`SetCounter` follow for the day and for the month. `TimeUntil` is `time.Until(end)`,
evaluated on the client; `SetCounter` is the SET when it reaches Redis, any number of
seconds later, where the key gets that duration from then on. So a slow SET sets an
expiry that lies after the end of the period. `SET` with a duration that is not
positive sets no expiry, which is what go-redis does. Script and SET may also
execute with their answers lost, and go-redis sends them again as they were. `LastSecond` is any calendar
(assumption `Calendar`). Assumed: an event occurs when it is received, and the
clocks of API and Redis agree to the second. No promptness is assumed. `wrote`,
`overwrites` and `slow` are history: `slow` holds what the SET has left in a counter
that arrived two seconds or more after its duration was computed (one second later the
key still ends with 23:59:59 or its midnight), until a script of that period comes in
time and sets the expiry right.

### SignalDetector

One engineer (keys are per engineer), two workers. `HandleEvent` takes an event
for the first time or again, in any order; `checkBurst` is the three steps of its
pipeline (`ZAdd`, `Trim`, `ZRange`), which other workers may come between, and
`CheckBurst`; `CheckRhythmBreak` loads the baseline again, as the code does;
`fire` is `Fire` (the TTL), `SetNX`, `WriteSignalEvent`, `PostDM` twice and
`MarkSignalNotified`. Every call may fail, SETNX and INSERT also with a lost reply.
`RebuildBaseline` and `SaveHours` are the nightly job with the two HSETs of its
pipeline; `Series` is what its queries return. Fractions are exact: mean and
standard deviation as a sum and n^2 times the variance, `Sorted` says of each
place of the sorted samples which value is there, `RhythmBreakPct` is in per mille, the severity at 1.5 times the threshold by cross-multiplication. A z-score
of `ZLimit` or more does not fit `NUMERIC(6,2)` and fails the insert.

Left out: message texts and the context column, an event of an unknown engineer
(no step), `notify_burst_critical` off. Slack without a token is `Recipients = {}`.
`GetCostCounter` may return any member of `Spends`.

### Migrate

Each replica has a program counter through `Apply`; `holder` is whose session has
the advisory lock, `lost` who has lost it without noticing. A file's statements
and its row in `schema_migrations` are one transaction: `Exec`, `Insert`,
`Commit`; the primary key makes a second insert wait for the first transaction
and fail after it. `schema` is the history of committed files. `Releases` are the
numbers of files of the versions that are being rolled out or back. A replica
whose Apply fails ends (`log.Fatalf`) and is started again. `PoolSize` is that of
pgxpool, at least 4 as shipped; with 1 no query would ever get a connection
(`FreeConnection`), with more its size does not matter.

### EfficiencyRollup

`facts` is what the two queries find of an engineer in the window that ends on a day,
`rows` the table's rows of that window, `run[p]` the locals of a pod's
`RunOnce`, which keeps to the window it began with. Usage and PR counts are read in two queries, between which facts may
change. The upsert sets median and rank to NULL, as `EXCLUDED` does; the second
pass fills them in one row at a time. Facts of any day so far may change: usage
arrives late, the collector finds a merge or a revert. `quiet` is history: a window
enters it when a run of it begins while none is under way, and leaves it when its
facts change or a call of one of its runs fails.
`dprs` holds the entries whose $/PR is defined, the only ones pass 2 looks at.
Dollars per PR are exact in units of `1/Scale`, the median is kept twice as large.
A cohort is any function to such numbers, so that `MedianOf` and `PercentileRank`
serve the run's list, each part of it, and the reference by engineer; `Sorted` says
of each place which value sorting puts there.

## Runs

| Run | Instance | Checks | Result |
|---|---|---|---|
| rebuild | 2 replicas, 3 events, 1 fault | TypeOK, NoDoubleCount, VisibleIsCounted | pass |
| consume | 1 replica, 2 events, 2 faults, fairness | AtMostOneRow, CommittedIsHandled, NothingLost, EventuallyPersisted | pass |
| counters | 2 events, 2 days and 2 months in 6 seconds, 1 rebuild, 1 fault | TypeOK, CarriedIsLate, SpendStays | pass |
| claims | 2 workers, 2 tiers, 2 days of 2 ticks, 2 faults | TypeOK, ClaimedOnce, NextPeriodFresh, LowestTierFirst, NoSilentSkip, ManagerNotified | pass |
| signals | 2 workers, 2 events in 3 deliveries, 2 days of 2 ticks, 1 rebuild, 1 fault | TypeOK, OneSignalPerDay, BurstNotInflated, ClaimIsWritten, NearestRank | pass |
| overlap | 2 collectors, 2 logins, a PR and its revert, 1 fault, fairness | TypeOK, FlagIsJustified, LeaderboardIsEarned, RevertedSticks, LeaderboardConverges | pass |
| wakeup | 2 logins, 3 faults, fairness | NoLostWakeup, AskedIsScanned | pass |
| rollup | 2 pods, 3 engineers, 2 days, 1 change, 1 fault | TypeOK, CohortRanks, QuietRowsAgree | pass |
| registry | 1 API and 1 workers process, 1 handler, 2 emails, 2 logins, 2 writes, 1 fault, fairness | TypeOK, ServesPastState, RegistryCatchesUp, ReadYourWrites | pass |
| migrate | 3 replicas, releases of 1 and 2 files, 2 faults, fairness | SchemaIsPrefix, ServesMigrated, OneApplier, EveryReplicaServes | pass |
| redelivery | 1 replica, 2 events, 1 fault | FailedIsRedelivered | violated |
| rebuildloss | 2 replicas, 2 events, no fault | RebuildKeepsRecorded | violated |

The types of the triggers and of the migration are not checked again where their
theorems say it for every instance (`TriggersTypeCorrect`, `MigrateProofs!TypesKept`).

What the passing runs show:

- *rebuild*: `RebuildCounters` may run on one replica while another records the
  same event, and no interleaving of its reads and SETs with the script counts
  an event twice; what a consumer can see is already in the counters, unless the
  write failed or the counter was reset.
- *consume*: wherever a crash, rebalance, failed commit or duplicate falls, there
  is one row per event and the commit passes only handled records. A recorded event
  is at any moment with the writer, reported lost by it, or in the topic, ahead of
  the group or handled by it; in the end it is in Postgres, or is one of three named
  exceptions.
- *claims*: SETNX with the TTL gives one alert per tier and period per life of
  Redis, tiers from below, and no event that crosses a tier is swallowed; where
  managers have a Slack ID, the audit row claims a DM only if it was sent.
- *counters*: a counter loses its spend at the end of the period, however late the
  scripts; what is carried into the next period was written in the last second or
  after it, or by a SET that took two seconds or more to arrive. A late script never makes today's key expire, since the script sets an
  expiry only if it lies ahead.
- *signals*: the claim's extra hour ends exactly when `ClaimSignalFired` starts to
  refuse the day, so that no redelivery claims twice; a burst reports distinct
  events none of which is older than its window; a claim without a row was lost to
  a fault or to a z-score that does not fit its column.
- *overlap*: a stale upsert of an overlapping pod never takes back a flag, every
  flag names a PR that was merged before a matching one. At any moment the leaderboard
  credits a login only with PRs of its own that GitHub has merged, and it ends at the
  truth.
- *wakeup*: a full channel never loses a request; what the debounce or Pub/Sub
  drops is answered by the next cron tick.
- *registry*: loads may overlap, fail half-way or end with their process, and a
  lookup never sees a partial or mixed snapshot; every process ends with the
  present table, also the ones that no handler refreshed. Once a handler has changed
  the table and returned, its process serves the change, with two exceptions: its
  reload failed, which the status shows, or a load that had queried before it
  returned stored after it, which nothing shows. The next load ends either.
- *migrate*: each file is committed once and in order. The primary key of
  `schema_migrations` guarantees it even when the lock is lost; the lock spares
  the losers their errors. No error path keeps the lock: every replica serves.
- *rollup*: two pods may clear and fill each other's rows, but when runs of a window
  that overlapped have ended, every row holds the median and the rank of the whole
  cohort, whatever earlier runs had left there, unless a call of theirs failed or the
  facts changed. Ranks are monotone in the costs and medians halve the cohort, in every
  cohort a run meets and in each part of one.

What the violated ones show (each a finding in `PROJECT.json`, with the line that
says otherwise):

- *redelivery*: after a handler error the reader moves on and the commit of the
  next message passes the failed one: it is not redelivered.
- *rebuildloss*: a replica that starts while others serve overwrites the
  counters without what is still on its way to Postgres.

### Differences met while modelling, without a run of their own

- `RebuildCounters` sums every row of the engineer (`store.go:175`), log events
  included, whereas `RecordLogEvent` "skips Redis — the metric stream already
  covers counters" (`ingest.go:117`): after a rebuild a request counts twice, by its
  metrics and by its log event.
- `notified_manager` is TRUE when the manager has no Slack ID or Slack is not
  configured (`threshold.go:142`, `:161`); `src/README.md:95` says that alerts are
  then logged. `ManagerNotified` is stated for managers with an ID.
- A trigger inside the debounce window is dropped (`efficiency.go:107`); the comment
  at line 30 says "triggers never get lost". The cron tick answers it
  (`AskedIsScanned`).
- A load of the ticker that queried before a handler's write may store after the
  handler's own load (`registry.go:93`) and undo the change in that process until
  the next tick; a reload that fails is only logged, and the handler reports success
  (`engineer.go:158`). The comments at `engineer.go:56` and `:114` promise that the
  change is picked up "immediately". `ReadYourWrites` names both cases.
- `percentileRank` gives the cheapest engineer 100 and the most expensive one the
  least; its comment (`rollup.go:203`) says "a low rank reads as doing well". Which of
  them is meant the code does not tell: `CohortRanks` asks for an order of the costs in
  one direction or the other, and holds for both.
- A row that a failed call, a crash or facts that came late left wrong is put right
  only by another run of the same window. The ticker fires once in 24 hours as shipped
  (`config.go:158`, `charts/sentinel/values.yaml:157`), after the next midnight, when
  the window is another: such a row usually stays. No property says otherwise.
- `percentileRank` truncates to whole per cents (`rollup.go:214`): in a cohort of more
  than a hundred engineers two with different costs may share a rank, and the most
  expensive one get 0. `CohortRanks` asks for more only up to a hundred.
- `ListEngineerSignals` is "sorted by dollars-per-merged-PR" (`signals.go:64`) and
  orders by engineer_id.
- The burst sum of a late event runs from its own cutoff to the newest member, more
  than the "last `BurstWindowMinutes` of spend" (`signal_detector.go:81`).
- A z-score of 10000 or more fails the insert after the day's claim was taken
  (`signal_detector.go:199`): the signal is lost until the next day.
- A rebuild over midnight writes yesterday's sum without an expiry
  (`store.go:192`): it stays until an event of the new day sets one.
- A SET that reaches Redis two seconds or more after its duration was computed, delayed or
  sent again by go-redis, leaves a counter that outlives its period by the delay
  (`store.go:192`, `:197`, `:215`), whereas `record_event.lua` is given the end itself.
  A script of the new period that comes meanwhile adds to the old sum and carries it
  through the whole new period. `CarriedIsLate` names the case (`slow`).
- `detectFromFileOverlap` looks for "materially fewer changes" (`revert.go:117`)
  and lets a suspect through with up to 1.5 times as many.

### Bounds

`MaxFaults` bounds failures and crashes together: the bugs these parts can have
need one failure (the interleaving does the rest) or two (a failure and a crash);
the triggers are small enough for three. Two replicas, workers or collectors are
the least that can race, and the code never compares three. Two events show that
a commit passes another record; the third, of an unknown identity, shows that it
takes no step. In `claims` a day has two ticks, of which the second stands for
23:59:59: the claim's TTL is 1 in the first and not positive in the second, and
the next day starts inside the horizon. The monthly budget is off:
`checkPeriod` is the same for both, and the theorems cover both. In `overlap` one fault suffices
for a stale or partial run, the other collector supplies the overlap. In
`registry` one handler and the ticker are the two loads that overlap, and two
writes let a load be two states behind; the workers process has the ticker only.
In `counters` a day has four seconds, the last of which is 23:59:59, so that a duration
may be computed in the day and its SET arrive two seconds later, still in the day or in
the next; the first month ends with the first day, so that both keys meet
the end of their period within six seconds. In `signals` a day has two ticks and the claim's
hour is one: the event of the first day may be claimed, found claimed, and refused;
each event is in the other's window, the one delivered twice is the older; the
21 hourly samples are one more than a multiple of 20. In `migrate` three replicas
let one wait while another has lost its lock to a third; two faults are a lost
lock and a crash or a lost commit. In `rollup` three engineers are just a cohort,
and the change of facts breaks a tie or takes one out of it; with two days a run may go on
over midnight while the other pod begins the next window.

Symmetry is used for replicas and workers, only in runs without liveness.
Deadlock is checked but in `counters` and `signals`, where the modelled clock stops
at its horizon and the last events have been handled.

### Fairness

- `UsagePipeline.Fairness`: a handler that runs goes on (the clients of Redis and
  Kafka time out), the writer flushes every 50 ms (`BatchTimeout`), the consumer loop runs on and the orchestrator
  restarts it. Nothing is assumed of requests, API starts, shutdowns or faults.
- `EfficiencyCollector`: weak fairness of each collector's run, started by its
  ticker. Nothing is assumed of GitHub; the property quantifies over the state
  GitHub ends in.
- `CollectorTriggers`: weak fairness of the loop, of each goroutine, of the ticker
  and of the passing of the debounce window. Nothing is assumed of the choice
  `select` makes between a tick and a trigger.
- `EngineerRegistry`: weak fairness of the restart of a process, of its ticker and
  of a goroutine that is in `Load`. Nothing is assumed of handlers.
- `Migrate`: weak fairness of a restart (the orchestrator's) and of a replica inside
  Apply; strong fairness of taking the lock, because Postgres queues those who wait.

`EfficiencyRollup` and `BudgetCounters` have none. A pod's rollup is repeated once in 24
hours, so nothing can be promised that needs a second run before midnight: what the rollup
does is stated as an invariant of what runs leave that have ended.

## Proofs

For every value of the constants, and so for any number of replicas, workers,
engineers, events and faults:

| Theorem | States | Argument |
|---|---|---|
| UsagePipelineProofs!TypeCorrect | `[]TypeOK` | inductive as it stands |
| UsagePipelineProofs!NoDuplicateRows, CountedOnce | `[]AtMostOneRow`, `[]NoDoubleCount` | `CountInv` |
| UsagePipelineProofs!VisibleCounted | `[]VisibleIsCounted` | `WayInv`, `LogInv` |
| UsagePipelineProofs!CommitSafe | `[]CommittedIsHandled` | `ConsumeInv` |
| UsagePipelineProofs!EventsAccountedFor | `[]NothingLost` | `SentInv`, with CommitSafe |
| ThresholdAlertsProofs!TypeCorrect | `[]TypeOK` | with `CtlInv`, the range of the loop's index |
| ThresholdAlertsProofs!FreshPeriods, AlertedOnce | `[]NextPeriodFresh`, `[]ClaimedOnce`, given `PromptClaims` | `PeriodInv` |
| ThresholdAlertsProofs!AuditIsTrue | `[]ManagerNotified` | `AuditInv` |
| ThresholdAlertsProofs!AlertedFromBelow, NothingSwallowed | `[]LowestTierFirst`, `[]NoSilentSkip`, given `PromptClaims` | `TierInv` |
| EfficiencyCollectorProofs!TriggersTypeCorrect, WakeupKept | `[]TriggersTypeOK`, `[]NoLostWakeup` | each inductive as it stands |
| EfficiencyCollectorProofs!TypeCorrect | `[]TypeOK` | inductive as it stands |
| EfficiencyCollectorProofs!FlagStays | `RevertedSticks` | every action by itself |
| EfficiencyCollectorProofs!FlaggedForAReason | `[]FlagIsJustified` | `FlagInv`: `MergesInv`, `StaleInv`, `FindingsInv` |
| EfficiencyCollectorProofs!CreditIsEarned | `[]LeaderboardIsEarned` | `SnapInv`, with `FlagInv` |
| SignalDetectorProofs!TypeCorrect | `[]TypeOK` | `TypeInv`, lemma `SquareOfSum` |
| SignalDetectorProofs!RankIsNearest | `[]NearestRank` | `RankInv`, lemma `PercentileRank` |
| SignalDetectorProofs!ClaimedOnce | `[]OneSignalPerDay` | `TtlInv`, `OnceInv` |
| SignalDetectorProofs!WrittenOrExplained | `[]ClaimIsWritten` | inductive, given `TypeInv` |
| SignalDetectorProofs!BurstIsSpent | `[]BurstNotInflated` | `BurstInv` |
| EngineerRegistryProofs!TypeCorrect | `[]TypeOK` | inductive as it stands |
| EngineerRegistryProofs!Implements | `Spec => ServesPastState`, the refinement of `RegistryView` | `TableInv`, `LoadInv` |
| EngineerRegistryProofs!HandlerSeesOwnWrite | `[]ReadYourWrites` | `WroteInv`, `ReturnedInv` |
| BudgetCountersProofs!TypesKept, OnlyLateCarried | `[]TypeOK`, `[]CarriedIsLate` | `Inv` |
| BudgetCountersProofs!SpendIsKept | `SpendStays` | `Inv` |
| MigrateProofs!TypesKept, SchemaInOrder, ServingIsMigrated, OneAtATime | `[]TypeOK`, `[]SchemaIsPrefix`, `[]ServesMigrated`, `[]OneApplier` | `SchemaInv`, `HasLock` |
| EfficiencyRollupProofs!TypeCorrect | `[]TypeOK` | `LoopInv` |
| EfficiencyRollupProofs!RanksFollowCosts | `[]CohortRanks` | lemmas about cohorts |
| EfficiencyRollupProofs!OverlapsAgree | `[]QuietRowsAgree` | `QuietInv`, lemma `RenamedCohort` |

- **CountInv.** `NoDoubleCount` is not inductive: a SET of rows read earlier,
  followed by the script of an event among those rows, would count it twice.
  `OrderInv` excludes it: an event that is in a rebuild's rows is in the table,
  hence in the topic, hence has left the handler's Redis call. With one row per
  event (`AtMostOneRow`, `RowsInv`) the SET stores 0 or 1 and the script
  increments from 0.
- **WayInv, LogInv.** An event past its Redis call is counted, failed or reset,
  and only such events enter the topic.
- **SentInv.** What the writer calls delivered is in the topic, and a returned call has
  left its event with the writer. What is in the topic stays (`HandledStep`); if the
  commit has passed it, `CommittedIsHandled` says that it was handled.
- **ConsumeInv.** Every record the reader has passed is handled, or is the one in
  hand; so is every record below the one in hand, which a commit covers. A record
  once handled stays handled (`HandledStep`).
- **PeriodInv.** A live claim ends at the end of the current period (`ClaimInv`);
  a computed TTL, added to the clock, is the end of the worker's period (`TtlInv`);
  the end a worker holds is that of the period in which its event arrived
  (`EndInv`). A claim won for a period that has not ended keeps its key live
  until a Redis restart, so the count of wins is bounded by the restarts.
- **TableInv, LoadInv.** No past state of the table holds a key twice, and the last
  one is the present (`TableInv`); the rows that a load is about to store are one
  of them (`LoadInv`). With unique keys the two maps hold all of those rows (lemma
  `MapsAreComplete`), so a `StoreSnapshot` is a `Refresh` of the abstract view.
- **AuditInv.** While a worker is between the manager's DM and the audit row, its
  flag implies that the DM was sent, if every engineer has a manager with an ID.
- **TierInv.** `LowestTierFirst` and `NoSilentSkip` say nothing of how far a loop has
  come. `LoopInv` does: every tier below a worker's index that its spend reaches is
  claimed for the worker's period, or its SETNX failed, while the period lasts
  (`Settled`); a worker past the loop without an alert has tried all tiers. When a
  SETNX is refused the live key belongs to somebody who won it for the same period
  (`LiveInv` with `PeriodInv`), so the loop may go on. Claims are never taken back.
- **FindingsInv.** A flag is set long after the rows it was found in were read, when
  they may have changed. What stays true is about GitHub, not about the table: the
  match was merged after the PR (`Justified`), and merges are for good. `StaleInv`
  carries it over to old pages and rows: what they show as merged is merged.
  `MergesInv` makes the place among the merges the time of a merge (lemma
  `MergedAtPlace`).
- **SnapInv.** A snapshot lies in a collector's locals between its query and its
  insert, while the rows change. It was earned when it was taken, since the rows show
  as merged only what is merged (`SnapshotEarned`), and stays earned, since no step
  takes back a merge or a flag (`ForGood`).
- **TypeInv of SignalDetector.** The members of the window are finitely many, and
  Redis restarts no more often than faults are spent. The type of the baseline
  needs two facts about its figures, for samples of any length: the p95 exists in
  the samples (`PlaceExists`), and n times the sum of the squares is not less than
  the square of the sum, so that no variance is negative (`SquareOfSum`).
- **RankInv.** The p95 of a baseline is `Percentile(s.hourly, 95)` of a history `s`;
  lemma `PercentileRank` shows that this is a sample with enough samples at or below
  it and enough at or above it, for every length and every percentage.
- **TtlInv, OnceInv.** A worker that is about to claim holds a TTL that lasts at least
  until the instant from which `ClaimSignalFired` refuses the day (`Deadline`); a key
  won once since the last restart is there until then. So a second SETNX finds
  the key, and a later one is not tried. Lemma `DeadlineOf` is the arithmetic of day
  and extra hour.
- **ClaimIsWritten** is inductive: from the SETNX on a worker is at `insert` with the
  claim's key, and it leaves it with a row, or as one of the named exceptions.
- **BurstInv.** `BurstNotInflated` says nothing of what workers hold. `SourceInv`: a member
  of the window is an event that was seen. `Backed`: what a worker has read of the
  window, and may report, is at most the cost of the events seen in its reach.
  Lemma `RollingIsSpent` takes each member to an event of its own, and
  `TotInjects` compares the two sums.
- **Sums** are folds over finite sets. Their equation (`TotUnfolds`) and the induction on
  the size of a set (`SubsetInduction`) are proved from `Least`: a set of counterexamples
  has a least one. This needs no operator as a parameter, which the library's
  induction theorems do.
- **WroteInv, ReturnedInv.** A load that is for a write begins after it, so the state it
  reads is not older than the write (`WroteInv`). `ReadYourWrites` says nothing of loads
  under way: `ReturnedInv` adds that those which have queried since the handler returned
  hold its write, so that a snapshot without it comes from one of `older`.
- **Inv of BudgetCounters.** `CarriedIsLate` is not inductive: it says nothing of the
  expiry that makes old spend go. `InTimeOrLate` does: an event in a live counter was
  written in or after the last second of its period, or the key expires within a second
  of it, or later if a slow SET has left it; `UsedIsSent` and `TimesArePast` tie the times that calls hold to the clock.
  Lemma `SamePeriod` is the calendar: two times of the past whose periods are not over lie in
  the same period.
- **SchemaInv.** The files before the one a replica's loop is at are recorded, and
  the one it is about to commit is the next of the schema (`LoopIsBehind`); at most one replica is
  between `Insert` and `Commit` (`OneInserted`). So a commit appends the next file,
  with or without the lock. `OneApplier` rests on `HasLock`: inside Apply a replica
  holds the lock or is in `lost`.
- **LoopInv.** `TypeOK` of the rollup needs an engineer at hand in both loops and a
  cohort in the second: otherwise `Head`, the median and the division by the size of
  the cohort would be of nothing.
- **Cohorts.** `CohortRanks` is about functions from a finite set to numbers, whatever
  reached the state. Each place of the sorted cohort has its value (`PlaceExists`:
  the least of the values that enough others do not exceed; were too many below it,
  the greatest of those would do as well). So a median lies between two places
  (`MedianPlaces`) and has half of the cohort on each side (`MedianHalves`). Ranks
  are quotients: a rank grows with the engineers who pay as much or more
  (`DivisionMonotone`), and by one at least for each of them when a hundred times one
  engineer is no less than the cohort (`DivisionStep`, `RankStrict`).
- **QuietInv.** `QuietRowsAgree` speaks of windows without a run under way; the invariant
  says how runs get there. A run of a quiet window has read the facts as they are, and
  its entries are those of the engineers it has passed (`RightRun`); a row that some run
  under way has passed is right or lacks only median and rank (`Settled`); and each row
  is right unless some run under way has yet to write it (`ToWrite`). The median and the
  ranks of a run's list are those of the cohort by engineer, since one renames the
  other (`RenamedCohort`).
- **Triggers.** `EfficiencyCollectorProofs` proves about the collector's run and about
  what starts it: it extends both modules, which share the logins and the faults
  (`CollectorFaults`). The two are not composed: a theorem is about the behaviours of
  one of them (`Spec`, `TriggersSpec`).

The proofs use the assumptions `Constants`, `FaultBound` and `Calendar` of the modules,
and where the table says so `PromptClaims`. TLC evaluates the former in every run; the
claims run assumes `PromptClaims` as the theorems do.

Every safety property and action property of the runs above is a theorem. Only
model-checked are the liveness properties (`EventuallyPersisted`,
`LeaderboardConverges`, `AskedIsScanned`, `RegistryCatchesUp`, `EveryReplicaServes`),
which rest on fairness and are out of the prover's reach.

## Not modelled

OTLP decoding and the mapping of attributes to columns (input data); HTTP
routing, authentication and the read endpoints (stateless); message texts;
floating-point sums and cost; the topic's creation and its 7-day retention; the
GitHub client's rate-limit wait (a delay); the daily rollup job (one idempotent
statement); the strings of the revert heuristics; the dashboard and the load tools.
