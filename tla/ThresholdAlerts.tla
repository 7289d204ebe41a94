--------------------------- MODULE ThresholdAlerts ---------------------------
(***************************************************************************)
(* The threshold-checker of sentinel-workers: for each event it checks the *)
(* daily and the monthly budget of the engineer, claims the lowest tier    *)
(* that is reached and not yet claimed with SETNX, sends the Slack DMs and *)
(* writes the audit row.                                                   *)
(*                                                                         *)
(* Two workers may check the same engineer: a rolling update overlaps the  *)
(* old and the new pod, and Kafka redelivers.  The claim key carries no    *)
(* date: only its TTL separates one period from the next.  A period is     *)
(* identified by its end, the expireAt computed when the event arrives.    *)
(*                                                                         *)
(* GetCostCounter may return any value: expiry, rebuild and loss of the    *)
(* counters are the subject of BudgetCounters and UsagePipeline, and what  *)
(* is shown here holds whatever they do.                                   *)
(***************************************************************************)
EXTENDS Integers, Sequences

CONSTANTS
  Engineer,
  Worker,
  Tiers,         \* cfg.NotifyAtPercent, in the order of the configuration
  ManagerTiers,  \* cfg.NotifyManagerAtPercent
  Budget,        \* the engineer's budget of each period, 0 for none
  Spends,        \* values GetCostCounter may return
  SlackID,       \* engineers with a slack_user_id (none if Slack is not configured)
  ManagerID,     \* engineers with a manager_slack_id (likewise)
  MaxTime,       \* bound: the horizon of the clock, in ticks of a second
  EndOf,         \* endOfDayUTC and endOfMonthUTC: the last second of the period
  PromptClaims,  \* the SETNX runs in the tick in which its TTL was computed
  MaxFaults      \* bound: failures and crashes of one behaviour

Period == {"daily", "monthly"}
Time   == 0..MaxTime
Tier   == 1..Len(Tiers)

ASSUME Constants ==
  /\ Tiers \in Seq(Nat \ {0})
  /\ \A i, j \in Tier : i < j => Tiers[i] < Tiers[j]
  /\ ManagerTiers \subseteq Nat
  /\ Budget \in [Engineer -> [Period -> Nat]]
  /\ Spends \subseteq Nat
  /\ SlackID \subseteq Engineer /\ ManagerID \subseteq Engineer
  /\ MaxTime \in Nat /\ MaxFaults \in Nat
  /\ PromptClaims \in BOOLEAN

\* The last second of a period is the same seen from each of its seconds.
ASSUME Calendar ==
  /\ EndOf \in [Period -> [Time -> Time]]
  /\ \A p \in Period, t \in Time : t <= EndOf[p][t]
  /\ \A p \in Period, t \in Time, u \in Time :
       t <= u /\ u <= EndOf[p][t] => EndOf[p][u] = EndOf[p][t]

VARIABLES
  now,        \* the clock
  claim,      \* expiry of each threshold_fired key; live while now < expiry
  pc,         \* where each worker is
  eng,        \* the engineer of the event it handles
  period,     \* the budget it is at
  expireAt,   \* the end of both periods, computed when the event arrived
  spend,      \* what GetCostCounter returned
  tier,       \* the loop over NotifyAtPercent: its index
  ttl,        \* TTL computed for the claim
  notify,     \* notifyManager
  managerDM,  \* a manager DM was sent for this alert
  hit,        \* checkPeriod has fired a tier
  won,        \* history: claims won per key and period
  spoiled,    \* history: claims that failed or whose reply was lost
  lastRow,    \* the last row of threshold_triggers: its notified_manager, and
              \* whether a DM to the manager went before it
  restarts,   \* Redis restarts
  faults

Key == Engineer \X Period \X Tier
frame == <<spend, tier, ttl, notify, managerDM, hit>>   \* locals of checkPeriod
local == <<eng, period, expireAt, frame>>
vars  == <<now, claim, pc, local, won, spoiled, lastRow, restarts, faults>>

PC == {"idle", "read", "tiers", "setnx", "dm", "manager", "audit", "done"}
KeyOf(w)    == <<eng[w], period[w], tier[w]>>
ExpireAt(w) == expireAt[w][period[w]]

None == "none"
NoEnd == [p \in Period |-> 0]

Init ==
  /\ now = 0
  /\ claim = [k \in Key |-> 0]
  /\ pc = [w \in Worker |-> "idle"]
  /\ eng = [w \in Worker |-> None]
  /\ period = [w \in Worker |-> "daily"]
  /\ expireAt = [w \in Worker |-> NoEnd]
  /\ spend = [w \in Worker |-> 0]
  /\ tier = [w \in Worker |-> 1]
  /\ ttl = [w \in Worker |-> 0]
  /\ notify = [w \in Worker |-> FALSE]
  /\ managerDM = [w \in Worker |-> FALSE]
  /\ hit = [w \in Worker |-> FALSE]
  /\ won = [k \in Key |-> [x \in Time |-> 0]]
  /\ spoiled = {}
  /\ lastRow = [notified |-> FALSE, sent |-> FALSE]
  /\ restarts = 0
  /\ faults = 0

Fault   == faults < MaxFaults /\ faults' = faults + 1
NoFault == faults' = faults

Goto(w, l) == pc' = [pc EXCEPT ![w] = l]

\* checkPeriod's locals as it begins; they are gone when it returns.
NewFrame(w) ==
  /\ spend' = [spend EXCEPT ![w] = 0]
  /\ tier' = [tier EXCEPT ![w] = 1]
  /\ ttl' = [ttl EXCEPT ![w] = 0]
  /\ notify' = [notify EXCEPT ![w] = FALSE]
  /\ managerDM' = [managerDM EXCEPT ![w] = FALSE]
  /\ hit' = [hit EXCEPT ![w] = FALSE]

\* HandleEvent's locals between events.
Forget(w) ==
  /\ eng' = [eng EXCEPT ![w] = None]
  /\ period' = [period EXCEPT ![w] = "daily"]
  /\ expireAt' = [expireAt EXCEPT ![w] = NoEnd]

-----------------------------------------------------------------------------
(* The environment                                                         *)

Tick ==
  /\ now < MaxTime
  /\ PromptClaims => \A w \in Worker : pc[w] # "setnx"
  /\ now' = now + 1
  /\ UNCHANGED <<claim, pc, local, won, spoiled, lastRow, restarts, faults>>

\* Redis has no persistence: a restart forgets every claim.
RedisRestart ==
  /\ Fault
  /\ claim' = [k \in Key |-> 0]
  /\ restarts' = restarts + 1
  /\ UNCHANGED <<now, pc, local, won, spoiled, lastRow>>

-----------------------------------------------------------------------------
(* HandleEvent and checkPeriod                                             *)

\* An event of a registered engineer arrives.
HandleEvent(w, e) ==
  /\ pc[w] = "idle"
  /\ eng' = [eng EXCEPT ![w] = e]
  /\ period' = [period EXCEPT ![w] = "daily"]
  /\ expireAt' = [expireAt EXCEPT ![w] = [p \in Period |-> EndOf[p][now]]]
  /\ Goto(w, "read")
  /\ UNCHANGED <<now, claim, frame, won, spoiled, lastRow, restarts, faults>>

\* checkPeriod returns early without a budget, on an error and without spend;
\* otherwise the loop over the tiers starts.
GetCostCounter(w) ==
  /\ pc[w] = "read"
  /\ \/ /\ Budget[eng[w]][period[w]] > 0
        /\ \E s \in Spends : s > 0 /\ spend' = [spend EXCEPT ![w] = s]
        /\ Goto(w, "tiers") /\ NoFault
     \/ /\ Budget[eng[w]][period[w]] = 0 \/ 0 \in Spends
        /\ Goto(w, "done") /\ NoFault /\ UNCHANGED spend
     \/ /\ Budget[eng[w]][period[w]] > 0
        /\ Goto(w, "done") /\ Fault /\ UNCHANGED spend
  /\ UNCHANGED <<now, claim, eng, period, expireAt, tier, ttl, notify, managerDM, hit, won,
                 spoiled, lastRow, restarts>>

\* Mutant: only the highest tier that is reached counts.
Reached_Highest(w, j) ==
  /\ spend[w] * 100 >= Tiers[j] * Budget[eng[w]][period[w]]
  /\ \A i \in (j + 1)..Len(Tiers) : spend[w] * 100 < Tiers[i] * Budget[eng[w]][period[w]]

\* pct >= threshold, without the division.
Reached(w, j) == spend[w] * 100 >= Tiers[j] * Budget[eng[w]][period[w]]

\* Mutant: the period is not checked to be over.
Claimable_Always(w) == TRUE

\* ClaimThresholdFired computes the TTL first and skips a period that is over.
Claimable(w) == ExpireAt(w) - now > 0

\* One turn of the loop up to the call of SETNX.
NextTier(w) ==
  /\ pc[w] = "tiers"
  /\ IF tier[w] > Len(Tiers)
     THEN Goto(w, "done") /\ UNCHANGED <<tier, ttl>>
     ELSE IF Reached(w, tier[w]) /\ Claimable(w)
     THEN Goto(w, "setnx") /\ ttl' = [ttl EXCEPT ![w] = ExpireAt(w) - now] /\ UNCHANGED tier
     ELSE tier' = [tier EXCEPT ![w] = @ + 1] /\ UNCHANGED <<pc, ttl>>
  /\ UNCHANGED <<now, claim, eng, period, expireAt, spend, notify, managerDM, hit, won, spoiled,
                 lastRow, restarts, faults>>

Live(k) == now < claim[k]

\* Mutant: a claim held by somebody else ends the loop.
Continue_Break(w) == Goto(w, "done") /\ UNCHANGED tier

\* The claim is not ours: the loop goes on with the next tier.
Continue(w) == Goto(w, "tiers") /\ tier' = [tier EXCEPT ![w] = @ + 1]

\* Mutant: the TTL is a whole day instead of the rest of the period.
SetClaim_FixedTTL(w) == claim' = [claim EXCEPT ![KeyOf(w)] = now + EndOf["daily"][0] + 1]

\* SET key EX ttl: live from now until the end of the period.
SetClaim(w) == claim' = [claim EXCEPT ![KeyOf(w)] = now + ttl[w]]

\* SETNX with the TTL.  The call may fail before or after Redis set the key,
\* and a repeated call after a lost reply finds the key its first try set.
SetNX(w) ==
  /\ pc[w] = "setnx"
  /\ \/ /\ ~Live(KeyOf(w))
        /\ SetClaim(w) /\ Goto(w, "dm") /\ NoFault
        /\ won' = [won EXCEPT ![KeyOf(w)][ExpireAt(w)] = @ + 1]
        /\ hit' = [hit EXCEPT ![w] = TRUE]
        /\ UNCHANGED <<tier, spoiled>>
     \/ /\ Live(KeyOf(w))
        /\ Continue(w) /\ NoFault
        /\ UNCHANGED <<claim, won, spoiled, hit>>
     \/ /\ IF Live(KeyOf(w)) THEN UNCHANGED claim ELSE SetClaim(w) \/ UNCHANGED claim
        /\ spoiled' = spoiled \cup {<<KeyOf(w), ExpireAt(w)>>}
        /\ Goto(w, "tiers") /\ tier' = [tier EXCEPT ![w] = @ + 1] /\ Fault
        /\ UNCHANGED <<won, hit>>
  /\ UNCHANGED <<now, eng, period, expireAt, spend, ttl, notify, managerDM, lastRow, restarts>>

-----------------------------------------------------------------------------
(* fireThreshold                                                           *)

\* notifyManager is decided, then the engineer's DM is sent or logged; an
\* error of Slack is logged.
PostDM(w) ==
  /\ pc[w] = "dm"
  /\ notify' = [notify EXCEPT ![w] = Tiers[tier[w]] \in ManagerTiers]
  /\ \/ NoFault
     \/ eng[w] \in SlackID /\ Fault
  /\ Goto(w, "manager")
  /\ UNCHANGED <<now, claim, eng, period, expireAt, spend, tier, ttl, managerDM, hit, won, spoiled, lastRow, restarts>>

\* Mutant: an error is only logged.
PostManagerDM_Log(w) ==
  /\ pc[w] = "manager"
  /\ \/ /\ notify[w] /\ eng[w] \in ManagerID
        /\ \/ managerDM' = [managerDM EXCEPT ![w] = TRUE] /\ NoFault
           \/ Fault /\ UNCHANGED managerDM
     \/ /\ ~notify[w] \/ eng[w] \notin ManagerID
        /\ NoFault /\ UNCHANGED managerDM
  /\ Goto(w, "audit")
  /\ UNCHANGED <<now, claim, eng, period, expireAt, spend, tier, ttl, notify, hit, won, spoiled, lastRow, restarts>>

\* The manager's DM; an error clears notifyManager, a missing ID does not.
PostManagerDM(w) ==
  /\ pc[w] = "manager"
  /\ \/ /\ notify[w] /\ eng[w] \in ManagerID
        /\ \/ managerDM' = [managerDM EXCEPT ![w] = TRUE] /\ NoFault /\ UNCHANGED notify
           \/ notify' = [notify EXCEPT ![w] = FALSE] /\ Fault /\ UNCHANGED managerDM
     \/ /\ ~notify[w] \/ eng[w] \notin ManagerID
        /\ NoFault /\ UNCHANGED <<notify, managerDM>>
  /\ Goto(w, "audit")
  /\ UNCHANGED <<now, claim, eng, period, expireAt, spend, tier, ttl, hit, won, spoiled, lastRow, restarts>>

\* The audit row; then break.
WriteThresholdTrigger(w) ==
  /\ pc[w] = "audit"
  /\ \/ /\ lastRow' = [notified |-> notify[w], sent |-> managerDM[w]]
        /\ NoFault
     \/ UNCHANGED lastRow /\ Fault
  /\ Goto(w, "done")
  /\ UNCHANGED <<now, claim, local, won, spoiled, restarts>>

\* The end of checkPeriod: daily is followed by monthly, monthly ends the event.
EndPeriod(w) ==
  /\ pc[w] = "done"
  /\ NewFrame(w)
  /\ \/ /\ period[w] = "daily"
        /\ Goto(w, "read") /\ period' = [period EXCEPT ![w] = "monthly"]
        /\ UNCHANGED <<eng, expireAt>>
     \/ /\ period[w] = "monthly"
        /\ Goto(w, "idle") /\ Forget(w)
  /\ UNCHANGED <<now, claim, won, spoiled, lastRow, restarts, faults>>

\* A crash, or SIGTERM; the event may or may not be delivered again.
WorkerCrash(w) ==
  /\ pc[w] # "idle"
  /\ Fault
  /\ Goto(w, "idle") /\ NewFrame(w) /\ Forget(w)
  /\ UNCHANGED <<now, claim, won, spoiled, lastRow, restarts>>

-----------------------------------------------------------------------------
CheckPeriod(w) == GetCostCounter(w) \/ NextTier(w) \/ SetNX(w) \/ EndPeriod(w)
FireThreshold(w) == PostDM(w) \/ PostManagerDM(w) \/ WriteThresholdTrigger(w)

Next ==
  \/ Tick \/ RedisRestart
  \/ \E w \in Worker :
       \/ \E e \in Engineer : HandleEvent(w, e)
       \/ CheckPeriod(w) \/ FireThreshold(w) \/ WorkerCrash(w)

Spec == Init /\ [][Next]_vars

-----------------------------------------------------------------------------
(* Properties                                                              *)

\* Every variable has its type.
TypeOK ==
  /\ now \in Time
  /\ claim \in [Key -> Nat]
  /\ pc \in [Worker -> PC]
  /\ eng \in [Worker -> Engineer \cup {None}]
  /\ period \in [Worker -> Period]
  /\ expireAt \in [Worker -> [Period -> Time]]
  /\ spend \in [Worker -> Nat]
  /\ tier \in [Worker -> Nat]
  /\ ttl \in [Worker -> Nat]
  /\ notify \in [Worker -> BOOLEAN]
  /\ managerDM \in [Worker -> BOOLEAN]
  /\ hit \in [Worker -> BOOLEAN]
  /\ won \in [Key -> [Time -> Nat]]
  /\ spoiled \subseteq Key \X Time
  /\ lastRow \in [notified : BOOLEAN, sent : BOOLEAN]
  /\ restarts \in Nat
  /\ faults \in 0..MaxFaults

\* A tier of an engineer's budget is claimed, and hence alerted, at most once
\* per day or month, with any number of workers, redeliveries and crashes;
\* each restart of Redis, which forgets the claims, allows one more.
ClaimedOnce == \A k \in Key, x \in Time : won[k][x] <= restarts + 1

\* A claim key that is live belongs to the current period and ends with it
\* (the comment of ClaimThresholdFired: "expires at end of period so the next
\* period starts fresh").
NextPeriodFresh == \A k \in Key : Live(k) => claim[k] = EndOf[k[2]][now]

Claimed(k, x) == won[k][x] > 0 \/ <<k, x>> \in spoiled

\* Tiers are alerted from below: whoever claimed a tier, every lower one had
\* been claimed for the same period, unless the claim itself failed.
LowestTierFirst ==
  \A k \in Key, x \in Time :
    won[k][x] > 0 => \A j \in 1..(k[3] - 1) : Claimed(<<k[1], k[2], j>>, x)

\* checkPeriod never ends without an alert while a tier it reached is still
\* unclaimed and the period lasts: an event that crosses a tier is not
\* swallowed by the claims of others.
NoSilentSkip ==
  \A w \in Worker :
    (pc[w] = "done" /\ ~hit[w] /\ spend[w] > 0 /\ now < ExpireAt(w)) =>
      \A j \in Tier : Reached(w, j) => Claimed(<<eng[w], period[w], j>>, ExpireAt(w))

\* What the dashboard shows as "Manager notified": where every manager has a
\* Slack ID, the audit row says so only if the DM went out, also when Slack
\* fails between the two messages.  (For a manager without an ID it says so
\* although nothing was sent.)
ManagerNotified == ManagerID = Engineer => (lastRow.notified => lastRow.sent)
=============================================================================
