--------------------------- MODULE SignalDetector ---------------------------
(***************************************************************************)
(* The signal-detector of sentinel-workers and the nightly job that gives  *)
(* it baselines.  For each event the detector looks for a burst in a       *)
(* rolling window kept in a Redis sorted set, for activity in an unusual   *)
(* hour, and for an unusual daily spend; a signal is claimed with SETNX,   *)
(* written to signal_events and, if it is a critical burst, sent to Slack. *)
(*                                                                         *)
(* Keys are per engineer and engineers do not interact: one is modelled.   *)
(* Its events reach one worker at a time, or two during a rebalance, may   *)
(* be redelivered, and arrive in any order of occurred_at.                 *)
(*                                                                         *)
(* Fractions of the code are kept exact: a mean and a standard deviation   *)
(* over n days as the sum and n^2 times the variance.                      *)
(***************************************************************************)
EXTENDS Integers, Sequences, FiniteSetsExt, SequencesExt

CONSTANTS
  Worker,
  Event,
  At,             \* occurred_at of each event, in ticks
  Cost,           \* cost_usd, 0 if the event has none
  Deliveries,     \* bound: how often Kafka delivers each event
  DayLen,         \* ticks of a day; the last one stands for 23:59:59
  Grace,          \* the hour that a claim outlives its day
  MaxTime,        \* bound: the horizon of the clock, within the 48 hours of a baseline
  Window,         \* cfg.BurstWindowMinutes
  Multiplier,     \* cfg.BurstMultiplier
  ZWarn, ZCritical,
  ZLimit,         \* the column z_score holds less than this
  RhythmBreak,    \* cfg.RhythmBreakPct, in per mille
  MinDays,        \* cfg.MinBaselineDays
  WindowDays,     \* cfg.BaselineWindowDays
  Series,         \* what the queries of computeBaseline may return
  Spends,         \* values GetCostCounter may return
  Recipients,     \* who has a Slack ID: "engineer", "manager"
  MaxRebuilds,    \* bound: runs of the rebuilder
  MaxFaults       \* bound: failures and crashes of one behaviour

Kind     == {"burst", "rhythm_break", "spend_zscore_high"}
Severity == {"info", "warn", "critical"}
Time     == 0..MaxTime
Day(t)   == t \div DayLen
Key      == Kind \X Severity \X {Day(t) : t \in Time}

ASSUME Constants ==
  /\ IsFiniteSet(Event) /\ At \in [Event -> Time] /\ Cost \in [Event -> Nat]
  /\ DayLen \in Nat \ {0} /\ Grace \in Nat \ {0} /\ Window \in Nat \ {0}
  /\ MaxTime \in Nat /\ MaxTime < 2 * DayLen /\ MaxFaults \in Nat /\ MaxRebuilds \in Nat /\ Deliveries \in [Event -> Nat]
  /\ Multiplier \in Nat \ {0} /\ RhythmBreak \in Nat /\ ZLimit \in Nat
  /\ ZWarn \in Nat \ {0} /\ ZCritical \in Nat \ {0}
  /\ MinDays \in Nat \ {0} /\ WindowDays \in Nat \ {0}
  /\ Series \subseteq [daily : Seq([ago : Nat, cost : Nat]), hourly : Seq(Nat), frac : 0..1000]
  /\ Spends \subseteq Nat
  /\ Recipients \subseteq {"engineer", "manager"}

VARIABLES
  now,        \* the clock
  left,       \* how often each event may still be delivered
  window,     \* the members of burst_window: time and cost
  windowExp,  \* when that key expires
  claim,      \* expiry of each signal_fired key; live while now < expiry
  baseline,   \* the hash engineer:baseline
  saving,     \* the hour fields SaveBaseline has still to write, -1 for none
  work,       \* the locals of each worker
  signals,    \* the rows of signal_events
  seen,       \* history: events whose cost has entered the window
  wins,       \* history: claims won before the key's deadline
  unwritten,  \* history: why a claim has no row
  restarts,   \* Redis restarts
  rebuilds,   \* runs of the rebuilder
  faults

vars == <<now, left, window, windowExp, claim, baseline, saving, work, signals,
          seen, wins, unwritten, restarts, rebuilds, faults>>
history == <<seen, wins, unwritten, restarts>>
redis   == <<window, windowExp, claim, baseline, saving, rebuilds>>

NoTTL == MaxTime + 1
NoBaseline == [p95 |-> 0, sum |-> 0, dev |-> 0, days |-> 0, frac |-> 0]
NoRow == [key |-> <<"burst", "info", 0>>, at |-> 0, observed |-> 0,
          sent |-> {}, notified |-> FALSE]
Idle == [pc |-> "idle", at |-> 0, cost |-> 0, rolling |-> 0, base |-> NoBaseline,
         kind |-> "burst", sev |-> "info", observed |-> 0, fits |-> TRUE, ttl |-> 0, row |-> NoRow]

Init ==
  /\ now = 0
  /\ left = Deliveries
  /\ window = {} /\ windowExp = NoTTL
  /\ claim = [k \in Key |-> 0]
  /\ baseline = NoBaseline /\ saving = -1
  /\ work = [w \in Worker |-> Idle]
  /\ signals = {}
  /\ seen = {}
  /\ wins = [k \in Key |-> 0]
  /\ unwritten = [k \in Key |-> "no"]
  /\ restarts = 0 /\ rebuilds = 0
  /\ faults = 0

Fault   == faults < MaxFaults /\ faults' = faults + 1
NoFault == faults' = faults

Become(w, l) == work' = [work EXCEPT ![w] = l]

EndOfDay(t) == Day(t) * DayLen + DayLen - 1

-----------------------------------------------------------------------------
(* The clock and Redis                                                     *)

Tick ==
  /\ now < MaxTime
  /\ now' = now + 1
  /\ UNCHANGED <<left, redis, work, signals, history, faults>>

\* Redis restarts empty.
RedisRestart ==
  /\ Fault
  /\ window' = {} /\ windowExp' = NoTTL
  /\ claim' = [k \in Key |-> 0]
  /\ baseline' = NoBaseline
  /\ restarts' = restarts + 1
  /\ UNCHANGED <<now, left, saving, rebuilds, work, signals, seen, wins, unwritten>>

-----------------------------------------------------------------------------
(* BaselineRebuilder                                                       *)

\* sort.Float64s: place k holds the sample that fewer than k are below and
\* at least k do not exceed.
Sorted(xs) ==
  [k \in DOMAIN xs |->
     CHOOSE x \in ToSet(xs) :
       /\ Cardinality({i \in DOMAIN xs : xs[i] < x}) < k
       /\ Cardinality({i \in DOMAIN xs : xs[i] <= x}) >= k]

\* Mutant: the rank is rounded down.
Percentile_Floor(xs, p) ==
  IF xs = <<>> THEN 0
  ELSE LET idx == (p * Len(xs)) \div 100 IN Sorted(xs)[IF idx < 1 THEN 1 ELSE idx]

\* percentile: nearest rank, p in per cent.
Percentile(xs, p) ==
  IF xs = <<>> THEN 0
  ELSE LET idx == (p * Len(xs) + 99) \div 100 IN Sorted(xs)[idx]

\* The days of the window by their age, zero where nothing was spent.
DailyCosts(daily) ==
  [d \in 0..(WindowDays - 1) |->
     LET of == {i \in DOMAIN daily : daily[i].ago = d}
     IN  IF of = {} THEN 0 ELSE daily[CHOOSE i \in of : TRUE].cost]

\* The sum, and n^2 times the variance, of meanStddev.
Sum(f) == FoldFunction(+, 0, f)

\* Mutant: the squares are not scaled.
Deviation_Unscaled(f) == Sum([d \in DOMAIN f |-> f[d] * f[d]]) - Sum(f) * Sum(f)

Deviation(f) == WindowDays * Sum([d \in DOMAIN f |-> f[d] * f[d]]) - Sum(f) * Sum(f)

\* computeBaseline but for the hours, which come from a query of their own.
ComputeBaseline(s) ==
  LET costs == DailyCosts(s.daily)
  IN  [p95 |-> Percentile(s.hourly, 95), sum |-> Sum(costs), dev |-> Deviation(costs),
       days |-> Len(s.daily), frac |-> baseline.frac]

\* RunOnce for the engineer, up to the first HSET of SaveBaseline.  Without
\* usage, or after an error of a query, nothing is written.
RebuildBaseline ==
  /\ saving = -1 /\ rebuilds < MaxRebuilds
  /\ rebuilds' = rebuilds + 1
  /\ \E s \in Series :
       /\ s.daily # <<>>
       /\ baseline' = ComputeBaseline(s)
       /\ saving' = s.frac
  /\ UNCHANGED <<now, left, window, windowExp, claim, work, signals, history, faults>>

\* The second HSET, unless the pipeline breaks.
SaveHours ==
  /\ saving # -1
  /\ \/ baseline' = [baseline EXCEPT !.frac = saving] /\ NoFault
     \/ UNCHANGED baseline /\ Fault
  /\ saving' = -1
  /\ UNCHANGED <<now, left, window, windowExp, claim, rebuilds, work, signals, history>>

-----------------------------------------------------------------------------
(* HandleEvent                                                             *)

\* An event of a known engineer arrives, for the first time or again.
HandleEvent(w) ==
  /\ work[w].pc = "idle"
  /\ \E e \in Event :
       /\ left[e] > 0 /\ At[e] <= now
       /\ left' = [left EXCEPT ![e] = @ - 1]
       /\ Become(w, [Idle EXCEPT !.pc = IF Cost[e] > 0 THEN "zadd" ELSE "load",
                                 !.at = At[e], !.cost = Cost[e]])
  /\ UNCHANGED <<now, redis, signals, history, faults>>

\* Where the handler goes on after a check, whose locals are gone.
Return(l) ==
  CASE l.kind = "burst"             -> [Idle EXCEPT !.pc = "load", !.at = l.at]
    [] l.kind = "rhythm_break"      -> [Idle EXCEPT !.pc = "zscore", !.at = l.at, !.base = l.base]
    [] l.kind = "spend_zscore_high" -> Idle

KeyOf(l) == <<l.kind, l.sev, Day(l.at)>>
Deadline(k) == EndOfDay(k[3] * DayLen) + Grace

\* fire up to the claim: a day that ended more than Grace ago is not claimed.
Fire(w, l) ==
  LET ttl == EndOfDay(l.at) + Grace - now
  IN  Become(w, IF ttl <= 0 THEN Return(l) ELSE [l EXCEPT !.pc = "setnx", !.ttl = ttl])

-----------------------------------------------------------------------------
(* checkBurst                                                              *)

Members == IF now < windowExp THEN window ELSE {}

\* Mutant: the member is unique to the call, as a uuid would make it.
Member_Unique(w) == [at |-> work[w].at, cost |-> work[w].cost, call |-> left]

\* A member is its time and its cost.
Member(w) == [at |-> work[w].at, cost |-> work[w].cost]

\* BumpBurstWindow: a pipeline of four commands, not a transaction.
ZAdd(w) ==
  /\ work[w].pc = "zadd"
  /\ window' = Members \cup {Member(w)}
  /\ windowExp' = IF Members = {} THEN NoTTL ELSE windowExp
  /\ seen' = seen \cup {e \in Event : At[e] = work[w].at /\ Cost[e] = work[w].cost}
  /\ Become(w, [work[w] EXCEPT !.pc = "trim"])
  /\ UNCHANGED <<now, left, claim, baseline, saving, rebuilds, signals, wins, unwritten, restarts, faults>>

\* ZREMRANGEBYSCORE and EXPIRE.
Trim(w) ==
  /\ work[w].pc = "trim"
  /\ window' = {m \in Members : m.at > work[w].at - Window}
  /\ windowExp' = IF window' = {} THEN NoTTL ELSE now + 2 * Window
  /\ Become(w, [work[w] EXCEPT !.pc = "range"])
  /\ UNCHANGED <<now, left, claim, baseline, saving, rebuilds, signals, history, faults>>

\* ZRANGEBYSCORE from the cutoff to +inf, and sumZMembers.
ZRange(w) ==
  /\ work[w].pc = "range"
  /\ Become(w, [work[w] EXCEPT !.pc = "burst", !.cost = 0,
       !.rolling = Sum([m \in {m \in Members : m.at >= work[w].at - Window} |-> m.cost])])
  /\ UNCHANGED <<now, left, redis, signals, history, faults>>

\* The rest: the baseline's p95 against the rolling sum.
CheckBurst(w) ==
  /\ work[w].pc = "burst"
  /\ LET warn == Multiplier * baseline.p95
         rolling == work[w].rolling
         l == [work[w] EXCEPT !.kind = "burst", !.observed = rolling, !.fits = TRUE,
                              !.sev = IF 2 * rolling >= 3 * warn THEN "critical" ELSE "warn"]
     IN  IF baseline.p95 <= 0 \/ rolling < warn THEN Become(w, Return(l)) ELSE Fire(w, l)
  /\ UNCHANGED <<now, left, redis, signals, history, faults>>

-----------------------------------------------------------------------------
(* checkRhythmBreak and checkZScore                                        *)

RhythmSeverity(frac) ==
  IF frac < 10 THEN "critical" ELSE IF frac < 20 THEN "warn" ELSE "info"

\* HandleEvent loads the baseline, again, and checks the hour.
CheckRhythmBreak(w) ==
  /\ work[w].pc = "load"
  /\ LET frac == baseline.frac
         l == [work[w] EXCEPT !.base = baseline, !.kind = "rhythm_break", !.observed = frac,
                              !.fits = TRUE, !.sev = RhythmSeverity(frac)]
     IN  IF baseline.days < MinDays THEN Become(w, Idle)
         ELSE IF frac = 0 \/ frac >= RhythmBreak THEN Become(w, Return(l)) ELSE Fire(w, l)
  /\ UNCHANGED <<now, left, redis, signals, history, faults>>

\* Today's spend is at least z standard deviations above the mean.
AtLeast(z, today, base) ==
  LET x == WindowDays * today - base.sum IN x >= 0 /\ x * x >= z * z * base.dev

CheckZScore(w) ==
  /\ work[w].pc = "zscore"
  /\ \E today \in Spends :
       LET base == work[w].base
           l == [work[w] EXCEPT !.kind = "spend_zscore_high", !.observed = today,
                                !.fits = ~AtLeast(ZLimit, today, base),
                                !.sev = IF AtLeast(ZCritical, today, base) THEN "critical" ELSE "warn"]
       IN  IF base.dev <= 0 \/ today <= 0 \/ ~AtLeast(ZWarn, today, base)
           THEN Become(w, Idle) ELSE Fire(w, l)
  /\ UNCHANGED <<now, left, redis, signals, history, faults>>

-----------------------------------------------------------------------------
(* fire                                                                    *)

\* Mutant: the TTL ends with the day and the check of it is dropped.
SetNX_Expired(w) ==
  LET l == work[w]  k == KeyOf(l)
  IN  /\ l.pc = "setnx"
      /\ claim' = [claim EXCEPT ![k] = 0]
      /\ wins' = [wins EXCEPT ![k] = @ + 1]
      /\ NoFault /\ Become(w, [l EXCEPT !.pc = "insert"])
      /\ UNCHANGED <<now, left, window, windowExp, baseline, saving, rebuilds, signals, seen, unwritten, restarts>>

\* ClaimSignalFired.  The reply may be lost.
SetNX(w) ==
  LET l == work[w]  k == KeyOf(l)  won == now >= claim[k]
  IN  /\ l.pc = "setnx"
      /\ claim' = IF won THEN [claim EXCEPT ![k] = now + l.ttl] ELSE claim
      /\ wins' = IF won /\ now < Deadline(k) THEN [wins EXCEPT ![k] = @ + 1] ELSE wins
      /\ \/ /\ NoFault /\ UNCHANGED unwritten
            /\ Become(w, IF won THEN [l EXCEPT !.pc = "insert"] ELSE Return(l))
         \/ /\ Fault /\ unwritten' = [unwritten EXCEPT ![k] = IF won THEN "fault" ELSE @]
            /\ Become(w, Return(l))
      /\ UNCHANGED <<now, left, window, windowExp, baseline, saving, rebuilds, signals, seen, restarts>>

\* Mutant: only what is sent to Slack is written.
Insert_Critical(row) == IF row.key[2] = "critical" THEN signals \cup {row} ELSE signals

\* WriteSignalEvent always inserts.
Insert(row) == signals \cup {row}

Notifies(l) == l.kind = "burst" /\ l.sev = "critical"

\* The insert; a z-score too large for its column is an error.  Again the
\* reply may be lost.
WriteSignalEvent(w) ==
  LET l == work[w]
      row == [key |-> KeyOf(l), at |-> l.at, observed |-> l.observed,
              sent |-> {}, notified |-> FALSE]
  IN  /\ l.pc = "insert"
      /\ IF l.fits
         THEN /\ signals' = Insert(row) /\ UNCHANGED unwritten
              /\ \/ /\ NoFault
                    /\ Become(w, IF Notifies(l) THEN [l EXCEPT !.pc = "engineer", !.row = row]
                                 ELSE Return(l))
                 \/ Fault /\ Become(w, Return(l))
         ELSE /\ unwritten' = [unwritten EXCEPT ![KeyOf(l)] = "overflow"]
              /\ NoFault /\ Become(w, Return(l)) /\ UNCHANGED signals
      /\ UNCHANGED <<now, left, redis, seen, wins, restarts>>

\* notifyBurst: the engineer, then the manager, each if there is a Slack ID.
\* What was sent is kept with the row, as history.
PostDM(w, r) ==
  LET l == work[w]
      told == [l.row EXCEPT !.sent = @ \cup {r}]
      then == IF r = "engineer" THEN "manager" ELSE "mark"
  IN  /\ l.pc = r
      /\ \/ /\ r \in Recipients /\ NoFault
            /\ signals' = (signals \ {l.row}) \cup {told}
            /\ Become(w, [l EXCEPT !.pc = then, !.row = told])
         \/ /\ IF r \in Recipients THEN Fault ELSE NoFault
            /\ Become(w, [l EXCEPT !.pc = then]) /\ UNCHANGED signals
      /\ UNCHANGED <<now, left, redis, history>>

\* Only if a message went out.
MarkSignalNotified(w) ==
  LET l == work[w]
  IN  /\ l.pc = "mark"
      /\ signals' = IF l.row.sent = {} THEN signals
                    ELSE {IF r.key = l.row.key /\ r.at = l.row.at THEN [r EXCEPT !.notified = TRUE]
                          ELSE r : r \in signals}
      /\ Become(w, Return(l))
      /\ UNCHANGED <<now, left, redis, history, faults>>

\* A call fails and takes no effect.  All errors are logged and the handler
\* goes on with the next check, or is done if the baseline or the counter
\* cannot be read.
CallFails(w) ==
  LET l == work[w]
  IN  /\ Fault
      /\ \/ l.pc \in {"zadd", "trim", "range", "burst"} /\ Become(w, Return([l EXCEPT !.kind = "burst"]))
         \/ l.pc \in {"load", "zscore"} /\ Become(w, Idle)
         \/ l.pc \in {"setnx", "insert", "mark"} /\ Become(w, Return(l))
      /\ unwritten' = IF l.pc = "insert" THEN [unwritten EXCEPT ![KeyOf(l)] = "fault"] ELSE unwritten
      /\ UNCHANGED <<now, left, redis, signals, seen, wins, restarts>>

WorkerCrash(w) ==
  LET l == work[w]
  IN  /\ l.pc # "idle" /\ Fault
      /\ Become(w, Idle)
      /\ unwritten' = IF l.pc = "insert" THEN [unwritten EXCEPT ![KeyOf(l)] = "fault"] ELSE unwritten
      /\ UNCHANGED <<now, left, redis, signals, seen, wins, restarts>>

-----------------------------------------------------------------------------
Next ==
  \/ Tick \/ RedisRestart \/ RebuildBaseline \/ SaveHours
  \/ \E w \in Worker :
       \/ HandleEvent(w) \/ ZAdd(w) \/ Trim(w) \/ ZRange(w) \/ CheckBurst(w)
       \/ CheckRhythmBreak(w) \/ CheckZScore(w) \/ SetNX(w) \/ WriteSignalEvent(w)
       \/ PostDM(w, "engineer") \/ PostDM(w, "manager") \/ MarkSignalNotified(w)
       \/ CallFails(w) \/ WorkerCrash(w)

Spec == Init /\ [][Next]_vars

-----------------------------------------------------------------------------
(* Properties                                                              *)

PC == {"idle", "zadd", "trim", "range", "burst", "load", "zscore", "setnx", "insert",
       "engineer", "manager", "mark"}
Row == [key : Key, at : Time, observed : Nat, sent : SUBSET {"engineer", "manager"},
        notified : BOOLEAN]
Baseline == [p95 : Nat, sum : Nat, dev : Nat, days : Nat, frac : 0..1000]

\* Every variable has its type.
TypeOK ==
  /\ now \in Time /\ left \in [Event -> Nat]
  /\ window \subseteq [at : Time, cost : Nat] /\ windowExp \in Nat
  /\ claim \in [Key -> Nat] /\ wins \in [Key -> Nat]
  /\ baseline \in Baseline /\ saving \in -1..1000
  /\ work \in [Worker -> [pc : PC, at : Time, cost : Nat, rolling : Nat, base : Baseline,
                          kind : Kind, sev : Severity, observed : Nat, fits : BOOLEAN,
                          ttl : Nat, row : Row]]
  /\ signals \subseteq Row /\ seen \subseteq Event
  /\ unwritten \in [Key -> {"no", "fault", "overflow"}]
  /\ restarts \in 0..MaxFaults /\ faults \in 0..MaxFaults /\ rebuilds \in 0..MaxRebuilds

\* However often an event is delivered, to one worker or to two, and long
\* after its day: a signal of one kind, severity and day is claimed once in
\* a life of Redis.  The key expires at the instant from which
\* ClaimSignalFired refuses its day.  (A SETNX that is delayed past that
\* instant is not counted.)
OneSignalPerDay == \A k \in Key : wins[k] <= 1 + restarts

\* A redelivered event adds nothing to the window: what a burst reports was
\* spent by different events, none of them older than the window.
BurstNotInflated ==
  \A r \in signals : r.key[1] = "burst" =>
    r.observed <= Sum([e \in {e \in seen : At[e] >= r.at - Window} |-> Cost[e]])

\* A claim that was won is on its way to its row, unless a call failed, a
\* worker crashed, or the z-score does not fit the column.
ClaimIsWritten ==
  \A k \in Key : wins[k] > 0 =>
    \/ \E r \in signals : r.key = k
    \/ unwritten[k] # "no"
    \/ \E w \in Worker : work[w].pc = "insert" /\ KeyOf(work[w]) = k

\* x is the least of the samples that p per cent of them do not exceed.
IsNearestRank(x, xs, p) ==
  LET upto(y) == 100 * Cardinality({i \in DOMAIN xs : xs[i] <= y}) >= p * Len(xs)
  IN  x \in ToSet(xs) /\ upto(x) /\ \A y \in ToSet(xs) : upto(y) => y >= x

\* Percentile gives it for the samples of every length up to the engineer's.
PercentileIsRank ==
  \A s \in Series : \A n \in DOMAIN s.hourly :
    LET xs == SubSeq(s.hourly, 1, n) IN IsNearestRank(Percentile(xs, 95), xs, 95)

\* The p95 a burst is measured against is the nearest rank of the engineer's
\* hourly samples, and would be so for every shorter history, whether or not
\* the number of samples is a multiple of 20.
NearestRank ==
  baseline.p95 # 0 =>
    PercentileIsRank /\ \E s \in Series : IsNearestRank(baseline.p95, s.hourly, 95)
=============================================================================
