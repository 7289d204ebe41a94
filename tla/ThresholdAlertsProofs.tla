------------------------ MODULE ThresholdAlertsProofs ------------------------
(***************************************************************************)
(* Proofs about ThresholdAlerts, for every set of engineers and workers,   *)
(* every list of tiers, every calendar and every number of faults.  What   *)
(* depends on the TTL assumes PromptClaims.                                *)
(***************************************************************************)
EXTENDS ThresholdAlerts, TLAPS

\* A worker that handles an event has its engineer, and one that claims or
\* fires a tier has a tier: its key is a key.
CtlInv ==
  \A w \in Worker :
    /\ pc[w] # "idle" => eng[w] \in Engineer
    /\ pc[w] \in {"setnx", "dm", "manager", "audit"} => tier[w] \in Tier
    /\ tier[w] >= 1

\* The clock and its bounds are numbers.
LEMMA Numbers ==
  /\ MaxTime \in Nat /\ MaxFaults \in Nat /\ Len(Tiers) \in Nat
  /\ Time \subseteq Nat /\ 0 \in Time
  /\ EndOf \in [Period -> [Time -> Time]]
BY Constants, Calendar DEF Time

\* The key of a worker at the SETNX is one of the keys, its period one of the
\* periods.
LEMMA KeyType ==
  ASSUME TypeOK, CtlInv, NEW w \in Worker, pc[w] = "setnx"
  PROVE  KeyOf(w) \in Key /\ ExpireAt(w) \in Time
BY DEF TypeOK, CtlInv, KeyOf, Key, ExpireAt

\* The locals of checkPeriod start well typed.
LEMMA FrameType ==
  ASSUME TypeOK, NEW w \in Worker, NewFrame(w)
  PROVE  /\ spend' \in [Worker -> Nat] /\ tier' \in [Worker -> Nat] /\ ttl' \in [Worker -> Nat]
         /\ notify' \in [Worker -> BOOLEAN] /\ managerDM' \in [Worker -> BOOLEAN]
         /\ hit' \in [Worker -> BOOLEAN]
BY DEF TypeOK, NewFrame

\* HandleEvent's locals end well typed.
LEMMA ForgetType ==
  ASSUME TypeOK, NEW w \in Worker, Forget(w)
  PROVE  /\ eng' \in [Worker -> Engineer \cup {None}]
         /\ period' \in [Worker -> Period]
         /\ expireAt' \in [Worker -> [Period -> Time]]
<1>1. NoEnd \in [Period -> Time]
      BY Numbers DEF NoEnd
<1> QED BY <1>1 DEF TypeOK, Forget, Period

\* A step of SETNX keeps the types.
LEMMA SetNXType ==
  ASSUME TypeOK, CtlInv, NEW w \in Worker, SetNX(w)
  PROVE  TypeOK'
<1>1. KeyOf(w) \in Key /\ ExpireAt(w) \in Time
      BY KeyType DEF SetNX
<1>2. now + ttl[w] \in Nat
      BY Numbers DEF TypeOK
<1>3. SetClaim(w) => claim' \in [Key -> Nat]
      BY <1>2 DEF SetClaim, TypeOK
<1>4. claim' \in [Key -> Nat]
      BY <1>3 DEF SetNX, TypeOK
<1>5. won' \in [Key -> [Time -> Nat]]
  <2>1. CASE won' = [won EXCEPT ![KeyOf(w)][ExpireAt(w)] = @ + 1]
    <3>1. won[KeyOf(w)] \in [Time -> Nat]
          BY <1>1 DEF TypeOK
    <3>2. [won[KeyOf(w)] EXCEPT ![ExpireAt(w)] = @ + 1] \in [Time -> Nat]
          BY <1>1, <3>1
    <3> QED BY <1>1, <2>1, <3>2 DEF TypeOK
  <2> QED BY <2>1 DEF SetNX, TypeOK
<1>6. spoiled' \subseteq Key \X Time
      BY <1>1 DEF SetNX, TypeOK
<1>7. hit' \in [Worker -> BOOLEAN]
  <2>1. hit' = hit \/ hit' = [hit EXCEPT ![w] = TRUE]
        BY DEF SetNX
  <2> QED BY <2>1 DEF TypeOK
<1>10. tier' \in [Worker -> Nat]
  <2>1. tier' = tier \/ tier' = [tier EXCEPT ![w] = @ + 1]
        BY DEF SetNX, Continue
  <2>2. tier \in [Worker -> Nat]
        BY DEF TypeOK
  <2> QED BY <2>1, <2>2
<1>9. pc' \in [Worker -> PC]
  <2>1. pc' = [pc EXCEPT ![w] = "dm"] \/ pc' = [pc EXCEPT ![w] = "tiers"]
        BY DEF SetNX, Goto, Continue
  <2> QED BY <2>1 DEF TypeOK, PC
<1>8. faults' \in 0..MaxFaults
      BY Numbers DEF SetNX, TypeOK, Fault, NoFault
<1> QED BY <1>4, <1>5, <1>6, <1>7, <1>8, <1>9, <1>10 DEF SetNX, TypeOK

\* A step of the threshold checker keeps the types.
LEMMA TypeStep == TypeOK /\ CtlInv /\ [Next]_vars => TypeOK'
<1> SUFFICES ASSUME TypeOK, CtlInv, [Next]_vars PROVE TypeOK'
    OBVIOUS
<1> USE DEF local, frame
<1>1. CASE Tick
  <2>1. now' \in Time
        BY <1>1, Constants DEF Tick, TypeOK, Time
  <2> QED BY <1>1, <2>1 DEF Tick, TypeOK
<1>f. Fault \/ NoFault => faults' \in 0..MaxFaults
      BY Numbers DEF TypeOK, Fault, NoFault
<1>2. CASE RedisRestart
  <2>1. claim' \in [Key -> Nat] /\ restarts' \in Nat
        BY <1>2 DEF RedisRestart, TypeOK
  <2> QED BY <1>f, <1>2, <2>1 DEF RedisRestart, TypeOK
<1>3. ASSUME NEW w \in Worker, NEW e \in Engineer, HandleEvent(w, e) PROVE TypeOK'
  <2>1. [p \in Period |-> EndOf[p][now]] \in [Period -> Time]
        BY Numbers DEF TypeOK
  <2>2. expireAt' \in [Worker -> [Period -> Time]]
        BY <1>3, <2>1 DEF HandleEvent, TypeOK
  <2>3. /\ pc' \in [Worker -> PC]
        /\ eng' \in [Worker -> Engineer \cup {None}]
        /\ period' \in [Worker -> Period]
        BY <1>3 DEF HandleEvent, TypeOK, Goto, PC, Period
  <2> QED BY <1>3, <2>2, <2>3 DEF HandleEvent, TypeOK
<1>4. ASSUME NEW w \in Worker, GetCostCounter(w) PROVE TypeOK'
  <2>1. spend' \in [Worker -> Nat]
        BY <1>4, Constants DEF GetCostCounter, TypeOK
  <2>2. pc' \in [Worker -> PC]
        BY <1>4 DEF GetCostCounter, TypeOK, Goto, PC
  <2>3. faults' \in 0..MaxFaults
        BY <1>4, <1>f DEF GetCostCounter
  <2> QED BY <1>4, <2>1, <2>2, <2>3 DEF GetCostCounter, TypeOK
<1>5. ASSUME NEW w \in Worker, NextTier(w) PROVE TypeOK'
  <2>1. Claimable(w) => ExpireAt(w) - now \in Nat
    <3>1. ExpireAt(w) \in Time /\ now \in Time
          BY DEF TypeOK, ExpireAt
    <3>2. ExpireAt(w) \in Nat /\ now \in Nat
          BY <3>1, Numbers
    <3> QED BY <3>2 DEF Claimable
  <2>2. pc' \in [Worker -> PC]
    <3>1. pc' = pc \/ pc' = [pc EXCEPT ![w] = "done"] \/ pc' = [pc EXCEPT ![w] = "setnx"]
          BY <1>5 DEF NextTier, Goto
    <3> QED BY <3>1 DEF TypeOK, PC
  <2>3. ttl' \in [Worker -> Nat]
        BY <1>5, <2>1 DEF NextTier, TypeOK
  <2>4. tier' \in [Worker -> Nat]
        BY <1>5 DEF NextTier, TypeOK
  <2> QED BY <1>5, <2>2, <2>3, <2>4 DEF NextTier, TypeOK
<1>6. ASSUME NEW w \in Worker, SetNX(w) PROVE TypeOK'
      BY <1>6, SetNXType
<1>7. ASSUME NEW w \in Worker, PostDM(w) PROVE TypeOK'
  <2>1. notify' \in [Worker -> BOOLEAN] /\ pc' \in [Worker -> PC]
        BY <1>7 DEF PostDM, TypeOK, Goto, PC
  <2>2. faults' \in 0..MaxFaults
        BY <1>7, <1>f DEF PostDM
  <2> QED BY <1>7, <2>1, <2>2 DEF PostDM, TypeOK
<1>8. ASSUME NEW w \in Worker, PostManagerDM(w) PROVE TypeOK'
  <2>1. notify' \in [Worker -> BOOLEAN] /\ managerDM' \in [Worker -> BOOLEAN]
        BY <1>8 DEF PostManagerDM, TypeOK
  <2>2. pc' \in [Worker -> PC]
        BY <1>8 DEF PostManagerDM, TypeOK, Goto, PC
  <2>3. faults' \in 0..MaxFaults
        BY <1>8, <1>f DEF PostManagerDM
  <2> QED BY <1>8, <2>1, <2>2, <2>3 DEF PostManagerDM, TypeOK
<1>9. ASSUME NEW w \in Worker, WriteThresholdTrigger(w) PROVE TypeOK'
  <2>1. lastRow' \in [notified : BOOLEAN, sent : BOOLEAN]
        BY <1>9 DEF WriteThresholdTrigger, TypeOK
  <2>2. pc' \in [Worker -> PC]
        BY <1>9 DEF WriteThresholdTrigger, TypeOK, Goto, PC
  <2>3. faults' \in 0..MaxFaults
        BY <1>9, <1>f DEF WriteThresholdTrigger
  <2> QED BY <1>9, <2>1, <2>2, <2>3 DEF WriteThresholdTrigger, TypeOK
<1>10. ASSUME NEW w \in Worker, EndPeriod(w) PROVE TypeOK'
  <2>1. pc' \in [Worker -> PC]
    <3>1. pc' = [pc EXCEPT ![w] = "read"] \/ pc' = [pc EXCEPT ![w] = "idle"]
          BY <1>10 DEF EndPeriod, Goto
    <3> QED BY <3>1 DEF TypeOK, PC
  <2>2. /\ eng' \in [Worker -> Engineer \cup {None}]
        /\ period' \in [Worker -> Period]
        /\ expireAt' \in [Worker -> [Period -> Time]]
        BY <1>10, ForgetType DEF EndPeriod, TypeOK, Period
  <2> QED BY <1>10, <2>1, <2>2, FrameType DEF EndPeriod, TypeOK
<1>11. ASSUME NEW w \in Worker, WorkerCrash(w) PROVE TypeOK'
  <2>1. pc' \in [Worker -> PC]
        BY <1>11 DEF WorkerCrash, TypeOK, Goto, PC
  <2>2. faults' \in 0..MaxFaults
        BY <1>11, <1>f DEF WorkerCrash
  <2> QED BY <1>11, <2>1, <2>2, FrameType, ForgetType DEF WorkerCrash, TypeOK
<1>12. CASE UNCHANGED vars
       BY <1>12 DEF vars, TypeOK
<1> QED
    BY <1>1, <1>2, <1>3, <1>4, <1>5, <1>6, <1>7, <1>8, <1>9, <1>10, <1>11, <1>12
    DEF Next, CheckPeriod, FireThreshold

\* A step keeps the relation of pc to the locals.
LEMMA CtlStep == TypeOK /\ CtlInv /\ [Next]_vars => CtlInv'
<1> SUFFICES ASSUME TypeOK, CtlInv, [Next]_vars PROVE CtlInv'
    OBVIOUS
<1> USE DEF local, frame, Goto
<1>1. CASE Tick \/ RedisRestart \/ UNCHANGED vars
      BY <1>1 DEF Tick, RedisRestart, vars, CtlInv
<1>2. ASSUME NEW w \in Worker, NEW e \in Engineer, HandleEvent(w, e) PROVE CtlInv'
      BY <1>2 DEF HandleEvent, CtlInv, TypeOK
<1>3. ASSUME NEW w \in Worker, GetCostCounter(w) PROVE CtlInv'
  <2>1. \A v \in Worker : pc'[v] = pc[v] \/ (pc[v] # "idle" /\ pc'[v] \in {"tiers", "done"})
        BY <1>3 DEF GetCostCounter, TypeOK
  <2> QED BY <1>3, <2>1 DEF GetCostCounter, CtlInv
<1>4. ASSUME NEW w \in Worker, NextTier(w) PROVE CtlInv'
  <2>1. CASE tier[w] > Len(Tiers)
    <3>1. pc[w] = "tiers" /\ pc' = [pc EXCEPT ![w] = "done"] /\ tier' = tier /\ eng' = eng
          BY <1>4, <2>1 DEF NextTier
    <3> QED BY <3>1 DEF CtlInv, TypeOK
  <2>2. CASE ~(tier[w] > Len(Tiers)) /\ Reached(w, tier[w]) /\ Claimable(w)
    <3>1. tier[w] \in Tier
          BY <2>2, Numbers DEF Tier, TypeOK, CtlInv
    <3>2. /\ pc[w] = "tiers" /\ pc' = [pc EXCEPT ![w] = "setnx"]
          /\ tier' = tier /\ eng' = eng
          BY <1>4, <2>2 DEF NextTier
    <3> QED BY <3>1, <3>2 DEF CtlInv, TypeOK
  <2>3. CASE ~(tier[w] > Len(Tiers)) /\ ~(Reached(w, tier[w]) /\ Claimable(w))
    <3>1. /\ pc[w] = "tiers" /\ pc' = pc /\ eng' = eng
          /\ tier' = [tier EXCEPT ![w] = @ + 1]
          BY <1>4, <2>3 DEF NextTier
    <3> QED BY <3>1 DEF CtlInv, TypeOK
  <2> QED BY <2>1, <2>2, <2>3
<1>5. ASSUME NEW w \in Worker, SetNX(w) PROVE CtlInv'
  <2>1. \/ pc' = [pc EXCEPT ![w] = "dm"] /\ tier' = tier
        \/ pc' = [pc EXCEPT ![w] = "tiers"] /\ tier' = [tier EXCEPT ![w] = @ + 1]
        BY <1>5 DEF SetNX, Continue
  <2>2. pc[w] = "setnx" /\ eng' = eng
        BY <1>5 DEF SetNX
  <2> QED BY <2>1, <2>2 DEF CtlInv, TypeOK
<1>6. ASSUME NEW w \in Worker, PostDM(w) PROVE CtlInv'
      BY <1>6 DEF PostDM, CtlInv, TypeOK
<1>7. ASSUME NEW w \in Worker, PostManagerDM(w) PROVE CtlInv'
      BY <1>7 DEF PostManagerDM, CtlInv, TypeOK
<1>8. ASSUME NEW w \in Worker, WriteThresholdTrigger(w) PROVE CtlInv'
      BY <1>8 DEF WriteThresholdTrigger, CtlInv, TypeOK
<1>9. ASSUME NEW w \in Worker, EndPeriod(w) PROVE CtlInv'
      BY <1>9 DEF EndPeriod, NewFrame, Forget, CtlInv, TypeOK
<1>10. ASSUME NEW w \in Worker, WorkerCrash(w) PROVE CtlInv'
      BY <1>10 DEF WorkerCrash, NewFrame, Forget, CtlInv, TypeOK
<1> QED
    BY <1>1, <1>2, <1>3, <1>4, <1>5, <1>6, <1>7, <1>8, <1>9, <1>10
    DEF Next, CheckPeriod, FireThreshold

\* The initial state is well typed.
LEMMA TypeInit == Init => TypeOK /\ CtlInv
<1> SUFFICES ASSUME Init PROVE TypeOK /\ CtlInv
    OBVIOUS
<1>1. NoEnd \in [Period -> Time] /\ expireAt \in [Worker -> [Period -> Time]]
      BY Numbers DEF NoEnd, Init
<1>2. won \in [Key -> [Time -> Nat]]
      BY DEF Init
<1>3. faults \in 0..MaxFaults
      BY Numbers DEF Init
<1> QED BY <1>1, <1>2, <1>3, Numbers DEF Init, TypeOK, CtlInv, PC, Period

\* Type correctness of the threshold checker.
THEOREM TypeCorrect == Spec => []TypeOK
<1> QED BY TypeInit, TypeStep, CtlStep, PTL DEF Spec

-----------------------------------------------------------------------------
(* One alert per tier and period                                           *)

\* An event that is handled carries the end of the current period, until the
\* period is over.
EndInv ==
  \A w \in Worker, p \in Period :
    (pc[w] # "idle" /\ now <= expireAt[w][p]) => expireAt[w][p] = EndOf[p][now]

\* With prompt claims, the TTL of a SETNX is the rest of the period.
TtlInv ==
  \A w \in Worker : pc[w] = "setnx" => (now < ExpireAt(w) /\ ttl[w] = ExpireAt(w) - now)

\* A tier claimed since the last restart of Redis is still claimed while its
\* period lasts; hence no second claim.
ClaimInv ==
  \A k \in Key, x \in Time :
    /\ won[k][x] <= restarts + 1
    /\ (won[k][x] > restarts /\ now < x) => claim[k] >= x

PeriodInv == EndInv /\ TtlInv /\ NextPeriodFresh /\ ClaimInv

\* What the steps that neither touch Redis nor reach the SETNX have in common.
Quiet ==
  /\ UNCHANGED <<now, claim, won, spoiled, restarts>>
  /\ \A v \in Worker :
       /\ pc'[v] # "idle" => pc[v] # "idle" /\ expireAt'[v] = expireAt[v]
       /\ pc'[v] = "setnx" => pc[v] = "setnx" /\ ttl'[v] = ttl[v] /\ period'[v] = period[v]

\* The steps that are quiet.
LEMMA QuietSteps ==
  ASSUME TypeOK, NEW w \in Worker,
         \/ GetCostCounter(w) \/ EndPeriod(w) \/ FireThreshold(w) \/ WorkerCrash(w)
  PROVE  Quiet
<1> USE DEF Goto, local, frame
<1>1. CASE GetCostCounter(w)
  <2>1. \A v \in Worker : pc'[v] = pc[v] \/ (pc[v] # "idle" /\ pc'[v] \in {"tiers", "done"})
        BY <1>1 DEF GetCostCounter, TypeOK
  <2> QED BY <1>1, <2>1 DEF GetCostCounter, Quiet
<1>2. CASE EndPeriod(w)
  <2>1. \A v \in Worker : v = w \/ /\ pc'[v] = pc[v] /\ expireAt'[v] = expireAt[v]
                                   /\ ttl'[v] = ttl[v] /\ period'[v] = period[v]
    <3>1. UNCHANGED <<period, expireAt>> \/ Forget(w) \/ (expireAt' = expireAt /\ period' = [period EXCEPT ![w] = "monthly"])
          BY <1>2 DEF EndPeriod
    <3>2. \A v \in Worker : v = w \/ expireAt'[v] = expireAt[v]
          BY <3>1 DEF Forget, TypeOK
    <3>5. \A v \in Worker : v = w \/ period'[v] = period[v]
          BY <3>1 DEF Forget, TypeOK
    <3>3. \A v \in Worker : v = w \/ pc'[v] = pc[v]
          BY <1>2 DEF EndPeriod, TypeOK
    <3>4. \A v \in Worker : v = w \/ ttl'[v] = ttl[v]
          BY <1>2 DEF EndPeriod, NewFrame, TypeOK
    <3> QED BY <3>2, <3>3, <3>4, <3>5
  <2>2. /\ pc[w] # "idle"
        /\ pc'[w] = "idle" \/ (pc'[w] = "read" /\ expireAt' = expireAt)
        BY <1>2 DEF EndPeriod, TypeOK
  <2> QED BY <1>2, <2>1, <2>2 DEF EndPeriod, Quiet
<1>3. CASE PostDM(w)
      BY <1>3 DEF PostDM, Quiet, TypeOK
<1>4. CASE PostManagerDM(w)
      BY <1>4 DEF PostManagerDM, Quiet, TypeOK
<1>5. CASE WriteThresholdTrigger(w)
      BY <1>5 DEF WriteThresholdTrigger, Quiet, TypeOK
<1>6. CASE WorkerCrash(w)
  <2>1. \A v \in Worker : v = w \/ /\ pc'[v] = pc[v] /\ expireAt'[v] = expireAt[v]
                                   /\ ttl'[v] = ttl[v] /\ period'[v] = period[v]
    <3>1. UNCHANGED <<period, expireAt>> \/ Forget(w) \/ (expireAt' = expireAt /\ period' = [period EXCEPT ![w] = "monthly"])
          BY <1>6 DEF WorkerCrash
    <3>2. \A v \in Worker : v = w \/ expireAt'[v] = expireAt[v]
          BY <3>1 DEF Forget, TypeOK
    <3>5. \A v \in Worker : v = w \/ period'[v] = period[v]
          BY <3>1 DEF Forget, TypeOK
    <3>3. \A v \in Worker : v = w \/ pc'[v] = pc[v]
          BY <1>6 DEF WorkerCrash, TypeOK
    <3>4. \A v \in Worker : v = w \/ ttl'[v] = ttl[v]
          BY <1>6 DEF WorkerCrash, NewFrame, TypeOK
    <3> QED BY <3>2, <3>3, <3>4, <3>5
  <2>2. pc'[w] = "idle"
        BY <1>6 DEF WorkerCrash, TypeOK
  <2> QED BY <1>6, <2>1, <2>2 DEF WorkerCrash, Quiet
<1> QED BY <1>1, <1>2, <1>3, <1>4, <1>5, <1>6 DEF FireThreshold

\* Quiet steps keep the invariant.
LEMMA QuietPeriod == TypeOK /\ PeriodInv /\ Quiet => PeriodInv'
<1> SUFFICES ASSUME TypeOK, PeriodInv, Quiet PROVE PeriodInv'
    OBVIOUS
<1>1. EndInv'
      BY DEF PeriodInv, EndInv, Quiet
<1>2. TtlInv'
  <2> SUFFICES ASSUME NEW w \in Worker, pc'[w] = "setnx"
               PROVE  now' < ExpireAt(w)' /\ ttl'[w] = ExpireAt(w)' - now'
      BY DEF TtlInv
  <2>1. /\ pc[w] = "setnx" /\ ExpireAt(w)' = ExpireAt(w)
        /\ ttl'[w] = ttl[w] /\ now' = now
        BY DEF Quiet, ExpireAt
  <2> QED BY <2>1 DEF PeriodInv, TtlInv
<1>3. NextPeriodFresh' /\ ClaimInv'
      BY DEF PeriodInv, NextPeriodFresh, ClaimInv, Live, Quiet
<1> QED BY <1>1, <1>2, <1>3 DEF PeriodInv

\* The calendar, one second later in the same period.
LEMMA SamePeriod ==
  ASSUME NEW p \in Period, NEW t \in Time, NEW u \in Time, t <= u, u <= EndOf[p][t]
  PROVE  EndOf[p][u] = EndOf[p][t]
BY Calendar

\* The clock keeps the invariant: no claim is under way.
LEMMA TickPeriod == PromptClaims /\ TypeOK /\ PeriodInv /\ Tick => PeriodInv' 
<1> SUFFICES ASSUME PromptClaims, TypeOK, PeriodInv, Tick PROVE PeriodInv'
    OBVIOUS
<1>1. now \in Time /\ now' \in Time /\ now \in Nat /\ now' = now + 1
  <2>1. now \in Time /\ now < MaxTime /\ now' = now + 1
        BY DEF Tick, TypeOK
  <2> QED BY <2>1, Constants DEF Time
<1>2. UNCHANGED <<claim, pc, eng, period, expireAt, ttl, won, restarts>>
      BY DEF Tick, local, frame
<1>3. \A w \in Worker : pc[w] # "setnx"
      BY DEF Tick
<1>4. EndInv'
  <2> SUFFICES ASSUME NEW w \in Worker, NEW p \in Period,
                      pc[w] # "idle", now + 1 <= expireAt[w][p]
               PROVE  expireAt[w][p] = EndOf[p][now + 1]
      BY <1>1, <1>2 DEF EndInv
  <2>1. expireAt[w][p] \in Nat
    <3>1. expireAt[w][p] \in Time
          BY DEF TypeOK
    <3> QED BY <3>1, Numbers
  <2>2. expireAt[w][p] = EndOf[p][now]
        BY <1>1, <2>1 DEF PeriodInv, EndInv
  <2> QED BY <1>1, <2>1, <2>2, SamePeriod
<1>5. TtlInv'
      BY <1>2, <1>3 DEF TtlInv
<1>6. NextPeriodFresh'
  <2> SUFFICES ASSUME NEW k \in Key, now + 1 < claim[k]
               PROVE  claim[k] = EndOf[k[2]][now + 1]
      BY <1>1, <1>2 DEF NextPeriodFresh, Live
  <2>1. claim[k] \in Nat /\ k[2] \in Period
        BY DEF TypeOK, Key
  <2>2. claim[k] = EndOf[k[2]][now]
        BY <1>1, <2>1 DEF PeriodInv, NextPeriodFresh, Live
  <2> QED BY <1>1, <2>1, <2>2, SamePeriod
<1>7. ClaimInv'
  <2>1. \A x \in Time : now + 1 < x => now < x
        BY <1>1, Numbers
  <2> QED BY <1>1, <1>2, <2>1 DEF PeriodInv, ClaimInv
<1> QED BY <1>4, <1>5, <1>6, <1>7 DEF PeriodInv

\* The SETNX keeps the invariant: a key that is not live belongs to no claim
\* of the current period, and the new one ends with the period.
LEMMA SetNXPeriod ==
  ASSUME TypeOK, CtlInv, PeriodInv, NEW w \in Worker, SetNX(w)
  PROVE  PeriodInv'
<1> DEFINE k0 == KeyOf(w)
           x0 == ExpireAt(w)
<1>1. k0 \in Key /\ x0 \in Time /\ k0[2] = period[w] /\ period[w] \in Period
      BY KeyType DEF SetNX, KeyOf, TypeOK
<1>2. now \in Nat /\ x0 \in Nat /\ now < x0 /\ now + ttl[w] = x0
  <2>1. now < x0 /\ ttl[w] = x0 - now
        BY DEF SetNX, PeriodInv, TtlInv
  <2>2. now \in Nat /\ x0 \in Nat
        BY <1>1, Numbers DEF TypeOK
  <2> QED BY <2>1, <2>2
<1>3. x0 = EndOf[k0[2]][now]
  <2>1. pc[w] # "idle" /\ now <= expireAt[w][period[w]]
        BY <1>2 DEF SetNX, ExpireAt
  <2> QED BY <1>1, <2>1 DEF PeriodInv, EndInv, ExpireAt
<1>4. UNCHANGED <<now, eng, period, expireAt, ttl, restarts>>
      BY DEF SetNX
<1>5. \A v \in Worker : pc'[v] = pc[v] \/ (pc[v] = "setnx" /\ pc'[v] \in {"dm", "tiers"})
      BY DEF SetNX, Goto, Continue, TypeOK
<1>6. EndInv'
      BY <1>4, <1>5 DEF PeriodInv, EndInv
<1>7. TtlInv'
      BY <1>4, <1>5 DEF PeriodInv, TtlInv, ExpireAt
<1>8. \/ claim' = claim /\ won' = won
      \/ /\ ~Live(k0) /\ claim' = [claim EXCEPT ![k0] = x0]
         /\ won' = won \/ won' = [won EXCEPT ![k0][x0] = @ + 1]
      BY <1>2 DEF SetNX, SetClaim
<1>9. NextPeriodFresh'
  <2> SUFFICES ASSUME NEW k \in Key, now < claim'[k]
               PROVE  claim'[k] = EndOf[k[2]][now]
      BY <1>4 DEF NextPeriodFresh, Live
  <2>1. CASE claim'[k] = claim[k]
        BY <2>1 DEF PeriodInv, NextPeriodFresh, Live
  <2>2. CASE claim'[k] # claim[k]
    <3>1. k = k0 /\ claim'[k] = x0
          BY <1>1, <1>8, <2>2 DEF TypeOK
    <3> QED BY <1>3, <3>1
  <2> QED BY <2>1, <2>2
<1>10. ClaimInv'
  <2> SUFFICES ASSUME NEW k \in Key, NEW x \in Time
               PROVE  /\ won'[k][x] <= restarts + 1
                      /\ (won'[k][x] > restarts /\ now < x) => claim'[k] >= x
      BY <1>4 DEF ClaimInv
  <2>1. /\ won[k][x] \in Nat /\ restarts \in Nat /\ x \in Nat /\ claim[k] \in Nat
        /\ won[k][x] <= restarts + 1
        /\ (won[k][x] > restarts /\ now < x) => claim[k] >= x
        BY Numbers DEF TypeOK, PeriodInv, ClaimInv
  <2>2. CASE claim' = claim /\ won' = won
        BY <2>1, <2>2
  <2>3. CASE /\ ~Live(k0) /\ claim' = [claim EXCEPT ![k0] = x0]
             /\ won' = won \/ won' = [won EXCEPT ![k0][x0] = @ + 1]
    <3>1. CASE k # k0
      <4>1. claim'[k] = claim[k] /\ won'[k] = won[k]
            BY <1>1, <2>3, <3>1 DEF TypeOK
      <4> QED BY <2>1, <4>1
    <3>2. CASE k = k0
      <4>1. claim'[k] = x0 /\ claim[k] <= now
            BY <1>1, <1>2, <2>1, <2>3, <3>2 DEF TypeOK, Live
      <4>2. won[k][x] <= restarts \/ ~(now < x)
            BY <1>2, <2>1, <4>1
      <4>3. won[k] \in [Time -> Nat]
            BY DEF TypeOK
      <4>4. won'[k][x] = won[k][x] \/ (x = x0 /\ won'[k][x] = won[k][x] + 1)
            BY <1>1, <2>3, <3>2, <4>3 DEF TypeOK
      <4> QED BY <1>2, <2>1, <4>1, <4>2, <4>4
    <3> QED BY <3>1, <3>2
  <2> QED BY <1>8, <2>2, <2>3
<1> QED BY <1>6, <1>7, <1>9, <1>10 DEF PeriodInv

\* With prompt claims, every step keeps the invariant.
LEMMA PeriodStep ==
  PromptClaims /\ TypeOK /\ TypeOK' /\ CtlInv /\ PeriodInv /\ [Next]_vars => PeriodInv'
<1> SUFFICES ASSUME PromptClaims, TypeOK, TypeOK', CtlInv, PeriodInv, [Next]_vars PROVE PeriodInv'
    OBVIOUS
<1> USE DEF Goto, local, frame
<1>1. CASE Tick
      BY <1>1, TickPeriod
<1>2. CASE RedisRestart
  <2>1. /\ claim' = [k \in Key |-> 0] /\ restarts' = restarts + 1
        /\ UNCHANGED <<now, pc, expireAt, period, ttl, won>>
        BY <1>2 DEF RedisRestart
  <2>2. EndInv' /\ TtlInv'
        BY <2>1 DEF PeriodInv, EndInv, TtlInv, ExpireAt
  <2>3. NextPeriodFresh'
        BY <2>1, Numbers DEF NextPeriodFresh, Live, TypeOK
  <2>4. ClaimInv'
    <3> SUFFICES ASSUME NEW k \in Key, NEW x \in Time
                 PROVE  won[k][x] <= restarts + 2 /\ ~(won[k][x] > restarts + 1)
        BY <2>1 DEF ClaimInv, TypeOK
    <3> QED BY DEF PeriodInv, ClaimInv, TypeOK
  <2> QED BY <2>2, <2>3, <2>4 DEF PeriodInv
<1>3. ASSUME NEW w \in Worker, NEW e \in Engineer, HandleEvent(w, e) PROVE PeriodInv'
  <2>1. /\ UNCHANGED <<now, claim, won, restarts, ttl>>
        /\ pc' = [pc EXCEPT ![w] = "read"] /\ period' = [period EXCEPT ![w] = "daily"]
        /\ expireAt' = [expireAt EXCEPT ![w] = [p \in Period |-> EndOf[p][now]]]
        BY <1>3 DEF HandleEvent
  <2>2. EndInv'
        BY <2>1 DEF PeriodInv, EndInv, TypeOK
  <2>3. TtlInv'
    <3>1. \A v \in Worker : pc'[v] = "setnx" => pc[v] = "setnx" /\ ExpireAt(v)' = ExpireAt(v)
          BY <2>1 DEF TypeOK, ExpireAt
    <3> QED BY <2>1, <3>1 DEF PeriodInv, TtlInv
  <2>4. NextPeriodFresh' /\ ClaimInv'
        BY <2>1 DEF PeriodInv, NextPeriodFresh, ClaimInv, Live
  <2> QED BY <2>2, <2>3, <2>4 DEF PeriodInv
<1>4. ASSUME NEW w \in Worker, NextTier(w) PROVE PeriodInv'
  <2>1. UNCHANGED <<now, claim, won, restarts, expireAt, period, eng>>
        BY <1>4 DEF NextTier
  <2>2. \A v \in Worker : v # w => pc'[v] = pc[v] /\ ttl'[v] = ttl[v]
        BY <1>4 DEF NextTier, TypeOK
  <2>3. /\ pc[w] = "tiers"
        /\ pc'[w] = "setnx" => Claimable(w) /\ ttl'[w] = ExpireAt(w) - now
        BY <1>4 DEF NextTier, TypeOK
  <2>4. EndInv'
        BY <2>1, <2>2, <2>3 DEF PeriodInv, EndInv
  <2>5. TtlInv'
    <3> SUFFICES ASSUME NEW v \in Worker, pc'[v] = "setnx"
                 PROVE  now < ExpireAt(v) /\ ttl'[v] = ExpireAt(v) - now
        BY <2>1 DEF TtlInv, ExpireAt
    <3>1. CASE v = w
      <4>1. now \in Time /\ ExpireAt(w) \in Time
            BY DEF TypeOK, ExpireAt
      <4>2. now \in Nat /\ ExpireAt(w) \in Nat
            BY <4>1, Numbers
      <4> QED BY <2>3, <3>1, <4>2 DEF Claimable
    <3>2. CASE v # w
          BY <2>2, <3>2 DEF PeriodInv, TtlInv
    <3> QED BY <3>1, <3>2
  <2>6. NextPeriodFresh' /\ ClaimInv'
        BY <2>1 DEF PeriodInv, NextPeriodFresh, ClaimInv, Live
  <2> QED BY <2>4, <2>5, <2>6 DEF PeriodInv
<1>5. ASSUME NEW w \in Worker, SetNX(w) PROVE PeriodInv'
      BY <1>5, SetNXPeriod
<1>6. ASSUME NEW w \in Worker,
             GetCostCounter(w) \/ EndPeriod(w) \/ FireThreshold(w) \/ WorkerCrash(w)
      PROVE  PeriodInv'
      BY <1>6, QuietSteps, QuietPeriod
<1>7. CASE UNCHANGED vars
      BY <1>7, QuietPeriod DEF vars, Quiet
<1> QED BY <1>1, <1>2, <1>3, <1>4, <1>5, <1>6, <1>7 DEF Next, CheckPeriod

\* No event, no claim: the invariant holds initially.
LEMMA PeriodInit == Init => PeriodInv
<1> SUFFICES ASSUME Init PROVE PeriodInv
    OBVIOUS
<1>1. EndInv /\ TtlInv
      BY DEF Init, EndInv, TtlInv
<1>2. NextPeriodFresh /\ ClaimInv
      BY Numbers DEF Init, NextPeriodFresh, ClaimInv, Live
<1> QED BY <1>1, <1>2 DEF PeriodInv

\* A live claim always belongs to the current period and ends with it: the
\* next period starts fresh, for every calendar and number of workers.
THEOREM FreshPeriods ==
  ASSUME PromptClaims
  PROVE  Spec => []NextPeriodFresh
<1>1. PeriodInv => NextPeriodFresh
      BY DEF PeriodInv
<1>2. TypeOK /\ TypeOK' /\ CtlInv /\ PeriodInv /\ [Next]_vars => PeriodInv'
      BY PeriodStep
<1> QED BY <1>1, <1>2, TypeInit, TypeStep, CtlStep, PeriodInit, PTL DEF Spec

\* One alert per tier and period between two restarts of Redis, for every
\* number of workers, redeliveries, failures and crashes.
THEOREM AlertedOnce ==
  ASSUME PromptClaims
  PROVE  Spec => []ClaimedOnce
<1>1. PeriodInv => ClaimedOnce
      BY DEF PeriodInv, ClaimInv, ClaimedOnce
<1>2. TypeOK /\ TypeOK' /\ CtlInv /\ PeriodInv /\ [Next]_vars => PeriodInv'
      BY PeriodStep
<1> QED BY <1>1, <1>2, TypeInit, TypeStep, CtlStep, PeriodInit, PTL DEF Spec

-----------------------------------------------------------------------------
(* The audit row                                                           *)

\* With a Slack ID for every manager, a worker that writes the row has sent
\* what it says.
AuditInv ==
  \A w \in Worker : pc[w] = "audit" /\ notify[w] => managerDM[w]

\* A step keeps the audit row true.
LEMMA AuditStep ==
  ASSUME ManagerID = Engineer
  PROVE  TypeOK /\ CtlInv /\ AuditInv /\ ManagerNotified /\ [Next]_vars => AuditInv' /\ ManagerNotified'
<1> SUFFICES ASSUME TypeOK, CtlInv, AuditInv, ManagerNotified, [Next]_vars
             PROVE  AuditInv' /\ ManagerNotified'
    OBVIOUS
<1> DEFINE Same(w) == \A v \in Worker : v # w =>
                        pc'[v] = pc[v] /\ notify'[v] = notify[v] /\ managerDM'[v] = managerDM[v]
<1>0. /\ pc \in [Worker -> PC] /\ notify \in [Worker -> BOOLEAN] /\ managerDM \in [Worker -> BOOLEAN]
      BY DEF TypeOK
<1>1. ASSUME NEW w \in Worker, Same(w), lastRow' = lastRow, pc'[w] # "audit"
      PROVE  AuditInv' /\ ManagerNotified'
      BY <1>1 DEF AuditInv, ManagerNotified
<1>2. CASE Tick \/ RedisRestart \/ UNCHANGED vars
      BY <1>2 DEF Tick, RedisRestart, vars, local, frame, AuditInv, ManagerNotified
<1>3. ASSUME NEW w \in Worker,
             \/ \E e \in Engineer : HandleEvent(w, e)
             \/ GetCostCounter(w) \/ SetNX(w) \/ PostDM(w)
             \/ EndPeriod(w) \/ WorkerCrash(w)
      PROVE  AuditInv' /\ ManagerNotified'
  <2>1. pc' \in {[pc EXCEPT ![w] = l] : l \in PC \ {"audit"}}
        BY <1>3 DEF HandleEvent, GetCostCounter, SetNX, PostDM, EndPeriod, WorkerCrash, Goto, Continue, PC
  <2>2. lastRow' = lastRow
        BY <1>3 DEF HandleEvent, GetCostCounter, SetNX, PostDM, EndPeriod, WorkerCrash
  <2>3. Same(w)
        BY <1>0, <1>3, <2>1 DEF HandleEvent, GetCostCounter, SetNX, PostDM, EndPeriod, WorkerCrash,
                                NewFrame, frame
  <2>4. pc'[w] # "audit"
        BY <1>0, <2>1
  <2> QED BY <1>1, <2>2, <2>3, <2>4
<1>4. ASSUME NEW w \in Worker, NextTier(w) PROVE AuditInv' /\ ManagerNotified'
  <2>1. pc[w] = "tiers" /\ pc' \in {pc, [pc EXCEPT ![w] = "done"], [pc EXCEPT ![w] = "setnx"]}
        BY <1>4 DEF NextTier, Goto
  <2>2. UNCHANGED <<lastRow, notify, managerDM>>
        BY <1>4 DEF NextTier
  <2>3. Same(w) /\ pc'[w] # "audit"
        BY <1>0, <2>1, <2>2
  <2> QED BY <1>1, <2>2, <2>3
<1>5. ASSUME NEW w \in Worker, PostManagerDM(w) PROVE AuditInv' /\ ManagerNotified'
  <2>1. eng[w] \in ManagerID
        BY <1>5 DEF PostManagerDM, CtlInv
  <2>2. notify'[w] => managerDM'[w]
        BY <1>0, <1>5, <2>1 DEF PostManagerDM
  <2>3. Same(w)
        BY <1>0, <1>5 DEF PostManagerDM, Goto
  <2> QED BY <1>5, <2>2, <2>3 DEF PostManagerDM, AuditInv, ManagerNotified
<1>6. ASSUME NEW w \in Worker, WriteThresholdTrigger(w) PROVE AuditInv' /\ ManagerNotified'
  <2>1. pc[w] = "audit" /\ pc' = [pc EXCEPT ![w] = "done"] /\ UNCHANGED <<notify, managerDM>>
        BY <1>6 DEF WriteThresholdTrigger, Goto, local, frame
  <2>2. AuditInv'
        BY <1>0, <2>1 DEF AuditInv
  <2>3. notify[w] => managerDM[w]
        BY <2>1 DEF AuditInv
  <2>4. ManagerNotified'
        BY <1>6, <2>3 DEF WriteThresholdTrigger, ManagerNotified
  <2> QED BY <2>2, <2>4
<1> QED BY <1>2, <1>3, <1>4, <1>5, <1>6 DEF Next, CheckPeriod, FireThreshold

\* Where every manager has a Slack ID, threshold_triggers says that one was
\* notified only if the DM went out.
THEOREM AuditIsTrue == Spec => []ManagerNotified
<1>1. CASE ManagerID = Engineer
  <2>1. Init => AuditInv /\ ManagerNotified
        BY DEF Init, AuditInv, ManagerNotified
  <2>2. TypeOK /\ CtlInv /\ AuditInv /\ ManagerNotified /\ [Next]_vars => AuditInv' /\ ManagerNotified'
        BY <1>1, AuditStep
  <2> QED BY <2>1, <2>2, TypeInit, TypeStep, CtlStep, PTL DEF Spec
<1>2. CASE ManagerID # Engineer
  <2>1. ManagerNotified
        BY <1>2 DEF ManagerNotified
  <2> QED BY <2>1, PTL
<1> QED BY <1>1, <1>2

-----------------------------------------------------------------------------
(* The loop over the tiers                                                 *)

\* Every tier that the loop has passed and that is reached has been claimed
\* for the period, while the period lasts.
Settled(w) ==
  now < ExpireAt(w) =>
    \A j \in Tier : j < tier[w] /\ Reached(w, j) =>
      Claimed(<<eng[w], period[w], j>>, ExpireAt(w))

\* What the loop knows of one worker, at each of its places.
Loop(w) ==
  /\ pc[w] \in {"idle", "read"} => tier[w] = 1 /\ spend[w] = 0
  /\ pc[w] = "setnx" => Reached(w, tier[w])
  /\ pc[w] \in {"dm", "manager", "audit"} => hit[w]
  /\ pc[w] \in {"tiers", "setnx"} => Settled(w)
  /\ pc[w] = "done" /\ ~hit[w] /\ spend[w] > 0 => tier[w] > Len(Tiers) /\ Settled(w)

LoopInv == \A w \in Worker : Loop(w)

\* A claim that is live was won, or its SETNX failed.
LiveInv == \A k \in Key : Live(k) => Claimed(k, claim[k])

\* Claims are never taken back, not even by a restart of Redis.
ClaimedNext(k, x) == won'[k][x] > 0 \/ <<k, x>> \in spoiled'
Grows == \A k \in Key, x \in Time : Claimed(k, x) => ClaimedNext(k, x)

\* The locals of a worker, and what it does to them.
Still(v) ==
  /\ pc'[v] = pc[v] /\ eng'[v] = eng[v] /\ period'[v] = period[v]
  /\ expireAt'[v] = expireAt[v] /\ spend'[v] = spend[v] /\ tier'[v] = tier[v] /\ hit'[v] = hit[v]

\* Claims grow with every step.
LEMMA ClaimsGrow == TypeOK /\ CtlInv /\ [Next]_vars => Grows
<1> SUFFICES ASSUME TypeOK, CtlInv, [Next]_vars PROVE Grows
    OBVIOUS
<1>1. CASE won' = won /\ spoiled' = spoiled
      BY <1>1 DEF Grows, Claimed, ClaimedNext
<1>2. ASSUME NEW w \in Worker, SetNX(w) PROVE Grows
  <2>1. KeyOf(w) \in Key /\ ExpireAt(w) \in Time
        BY <1>2, KeyType DEF SetNX
  <2>2. spoiled \subseteq spoiled'
        BY <1>2 DEF SetNX
  <2>3. won' = won \/ won' = [won EXCEPT ![KeyOf(w)][ExpireAt(w)] = @ + 1]
        BY <1>2 DEF SetNX
  <2> SUFFICES ASSUME NEW k \in Key, NEW x \in Time, won[k][x] > 0 PROVE won'[k][x] > 0
      BY <2>2 DEF Grows, Claimed, ClaimedNext
  <2>4. won[k] \in [Time -> Nat] /\ won[k][x] \in Nat
        BY DEF TypeOK
  <2>5. won'[k][x] = won[k][x] \/ won'[k][x] = won[k][x] + 1
    <3>1. won'[k] = won[k] \/ won'[k] = [won[k] EXCEPT ![ExpireAt(w)] = @ + 1]
          BY <2>1, <2>3 DEF TypeOK
    <3> QED BY <2>1, <2>4, <3>1
  <2> QED BY <2>4, <2>5
<1>3. ASSUME NEW w \in Worker,
             \/ \E e \in Engineer : HandleEvent(w, e)
             \/ GetCostCounter(w) \/ NextTier(w) \/ EndPeriod(w)
             \/ PostDM(w) \/ PostManagerDM(w) \/ WriteThresholdTrigger(w) \/ WorkerCrash(w)
      PROVE  Grows
      BY <1>1, <1>3 DEF HandleEvent, GetCostCounter, NextTier, EndPeriod, PostDM, PostManagerDM,
                        WriteThresholdTrigger, WorkerCrash
<1>4. CASE Tick \/ RedisRestart \/ UNCHANGED vars
      BY <1>1, <1>4 DEF Tick, RedisRestart, vars
<1> QED BY <1>2, <1>3, <1>4 DEF Next, CheckPeriod, FireThreshold

\* A worker that does not move keeps what it knows: time and the claims of
\* others only help it.
LEMMA SettledKept ==
  ASSUME TypeOK, TypeOK', CtlInv, Grows, now <= now', NEW v \in Worker, pc[v] # "idle",
         eng'[v] = eng[v], period'[v] = period[v], expireAt'[v] = expireAt[v],
         spend'[v] = spend[v], tier'[v] = tier[v], Settled(v)
  PROVE  Settled(v)'
<1>1. ExpireAt(v)' = ExpireAt(v) /\ ExpireAt(v) \in Time
      BY DEF ExpireAt, TypeOK
<1>2. now \in Nat /\ now' \in Nat /\ ExpireAt(v) \in Nat
      BY <1>1, Numbers DEF TypeOK
<1> SUFFICES ASSUME now' < ExpireAt(v), NEW j \in Tier, j < tier[v], Reached(v, j)
             PROVE  ClaimedNext(<<eng[v], period[v], j>>, ExpireAt(v))
    BY <1>1 DEF Settled, Reached, Claimed, ClaimedNext
<1>3. Claimed(<<eng[v], period[v], j>>, ExpireAt(v))
      BY <1>2 DEF Settled
<1>4. <<eng[v], period[v], j>> \in Key
      BY DEF Key, TypeOK, CtlInv
<1> QED BY <1>1, <1>3, <1>4 DEF Grows, Claimed, ClaimedNext

\* So a worker that stands still keeps all of it.
LEMMA LoopKept ==
  ASSUME TypeOK, TypeOK', CtlInv, Grows, now <= now', NEW v \in Worker, Still(v), Loop(v)
  PROVE  Loop(v)'
<1>1. CASE pc[v] = "idle"
      BY <1>1 DEF Loop, Still
<1>2. CASE pc[v] # "idle"
  <2>1. Settled(v) => Settled(v)'
        BY <1>2, SettledKept DEF Still
  <2> QED BY <2>1 DEF Loop, Still, Reached
<1> QED BY <1>1, <1>2

\* The tiers rise: with one of them, every lower one is reached.
LEMMA ReachedBelow ==
  ASSUME TypeOK, CtlInv, NEW w \in Worker, pc[w] # "idle",
         NEW i \in Tier, NEW j \in Tier, j < i, Reached(w, i)
  PROVE  Reached(w, j)
<1> DEFINE b == Budget[eng[w]][period[w]]
<1>1. b \in Nat
      BY Constants DEF TypeOK, CtlInv
<1>2. Tiers[i] \in Nat /\ Tiers[j] \in Nat /\ Tiers[j] < Tiers[i]
      BY Constants DEF Tier
<1>3. Tiers[j] * b <= Tiers[i] * b
  <2> HIDE DEF b
  <2>1. \A m, n, c \in Nat : m < n => m * c <= n * c
        OBVIOUS
  <2> QED BY <1>1, <1>2, <2>1
<1>4. spend[w] * 100 \in Nat /\ Tiers[i] * b \in Nat /\ Tiers[j] * b \in Nat
      BY <1>1, <1>2 DEF TypeOK
<1> QED BY <1>3, <1>4 DEF Reached

\* The SETNX: what it passes is claimed by it, by another, or spoiled.
LEMMA SetNXLoop ==
  ASSUME TypeOK, TypeOK', CtlInv, PeriodInv, Grows, LiveInv, NEW w \in Worker, Loop(w), SetNX(w)
  PROVE  Loop(w)'
<1> DEFINE k0 == KeyOf(w)
           x0 == ExpireAt(w)
<1>1. /\ pc[w] = "setnx" /\ UNCHANGED <<now, eng, period, expireAt, spend>>
      /\ ExpireAt(w)' = x0
      BY DEF SetNX, ExpireAt
<1>2. k0 \in Key /\ x0 \in Time /\ period[w] \in Period /\ k0[2] = period[w] /\ tier[w] \in Nat
      BY <1>1, KeyType DEF TypeOK, KeyOf
<1>3. CASE pc'[w] = "dm" /\ hit'[w]
      BY <1>3 DEF Loop
<1>4. CASE pc'[w] = "tiers" /\ tier' = [tier EXCEPT ![w] = @ + 1] /\ ClaimedNext(k0, x0)
  <2>1. tier'[w] = tier[w] + 1
        BY <1>4 DEF TypeOK
  <2>2. Settled(w)'
    <3> SUFFICES ASSUME now < x0, NEW j \in Tier, j < tier[w] + 1, Reached(w, j)
                 PROVE  ClaimedNext(<<eng[w], period[w], j>>, x0)
        BY <1>1, <2>1 DEF Settled, Reached, Claimed, ClaimedNext
    <3>1. CASE j = tier[w]
          BY <1>4, <1>1, <3>1 DEF KeyOf, ClaimedNext
    <3>2. CASE j # tier[w]
      <4>1. j < tier[w]
            BY <1>2, <3>2, Numbers DEF Tier
      <4>2. Claimed(<<eng[w], period[w], j>>, x0)
            BY <1>1, <4>1 DEF Loop, Settled
      <4>3. <<eng[w], period[w], j>> \in Key
            BY <1>1 DEF Key, TypeOK, CtlInv
      <4> QED BY <1>2, <4>2, <4>3 DEF Grows, Claimed, ClaimedNext
    <3> QED BY <3>1, <3>2
  <2> QED BY <1>4, <2>2 DEF Loop
<1>5. Live(k0) => Claimed(k0, x0)
  <2>1. now < x0 /\ now \in Nat /\ x0 \in Nat
        BY <1>1, <1>2, Numbers DEF PeriodInv, TtlInv, TypeOK
  <2>2. x0 = EndOf[k0[2]][now]
        BY <1>1, <1>2, <2>1 DEF PeriodInv, EndInv, ExpireAt
  <2> QED BY <1>2, <2>2 DEF PeriodInv, NextPeriodFresh, LiveInv
<1>6. \/ pc'[w] = "dm" /\ hit'[w]
      \/ pc'[w] = "tiers" /\ tier' = [tier EXCEPT ![w] = @ + 1] /\ ClaimedNext(k0, x0)
  <2>1. CASE Live(k0) /\ Continue(w)
    <3>1. ClaimedNext(k0, x0)
          BY <1>2, <1>5, <2>1 DEF Grows, Claimed, ClaimedNext
    <3> QED BY <2>1, <3>1 DEF Continue, Goto, TypeOK
  <2>2. CASE Goto(w, "dm") /\ hit' = [hit EXCEPT ![w] = TRUE]
        BY <2>2 DEF Goto, TypeOK
  <2>3. CASE /\ spoiled' = spoiled \cup {<<KeyOf(w), ExpireAt(w)>>}
             /\ Goto(w, "tiers") /\ tier' = [tier EXCEPT ![w] = @ + 1]
    <3>1. ClaimedNext(k0, x0)
          BY <1>1, <2>3 DEF ClaimedNext
    <3> QED BY <2>3, <3>1 DEF Goto, TypeOK
  <2> QED BY <2>1, <2>2, <2>3 DEF SetNX
<1> QED BY <1>3, <1>4, <1>6

\* One turn of the loop passes a tier that is not reached, or whose period is
\* over.
LEMMA NextTierLoop ==
  ASSUME TypeOK, TypeOK', CtlInv, NEW w \in Worker, Loop(w), NextTier(w)
  PROVE  Loop(w)'
<1>1. /\ pc[w] = "tiers" /\ UNCHANGED <<now, eng, period, expireAt, spend, hit, won, spoiled>>
      /\ ExpireAt(w)' = ExpireAt(w) /\ tier[w] \in Nat
      BY DEF NextTier, ExpireAt, TypeOK
<1>2. Settled(w)
      BY <1>1 DEF Loop
<1>3. CASE tier' = tier
  <2>1. Settled(w)'
        BY <1>1, <1>2, <1>3 DEF Settled, Reached, Claimed
  <2>2. \/ pc'[w] = "done" /\ tier[w] > Len(Tiers)
        \/ pc'[w] = "setnx" /\ Reached(w, tier[w])
        BY <1>1, <1>3 DEF NextTier, Goto, TypeOK
  <2> QED BY <1>1, <1>3, <2>1, <2>2 DEF Loop, Reached
<1>4. CASE tier' # tier
  <2>1. /\ tier'[w] = tier[w] + 1 /\ pc'[w] = "tiers"
        /\ ~(Reached(w, tier[w]) /\ Claimable(w))
        BY <1>1, <1>4 DEF NextTier, TypeOK
  <2>2. now \in Nat /\ ExpireAt(w) \in Nat
    <3>1. now \in Time /\ ExpireAt(w) \in Time
          BY DEF TypeOK, ExpireAt
    <3> QED BY <3>1, Numbers
  <2>3. Settled(w)'
    <3> SUFFICES ASSUME now < ExpireAt(w), NEW j \in Tier, j < tier[w] + 1, Reached(w, j)
                 PROVE  Claimed(<<eng[w], period[w], j>>, ExpireAt(w))
        BY <1>1, <2>1 DEF Settled, Reached, Claimed
    <3>1. j # tier[w]
          BY <2>1, <2>2 DEF Claimable
    <3>2. j < tier[w]
          BY <1>1, <3>1, Numbers DEF Tier
    <3> QED BY <1>2, <3>2 DEF Settled
  <2> QED BY <2>1, <2>3 DEF Loop
<1> QED BY <1>3, <1>4

\* The worker itself, in every other of its steps.
LEMMA OwnLoop ==
  ASSUME TypeOK, TypeOK', CtlInv, Grows, NEW w \in Worker, Loop(w),
         \/ \E e \in Engineer : HandleEvent(w, e)
         \/ GetCostCounter(w) \/ EndPeriod(w) \/ FireThreshold(w) \/ WorkerCrash(w)
  PROVE  Loop(w)'
<1> USE DEF Goto, local, frame
<1>1. CASE \E e \in Engineer : HandleEvent(w, e)
      BY <1>1 DEF HandleEvent, Loop, TypeOK
<1>2. CASE GetCostCounter(w)
  <2>1. pc[w] = "read" /\ tier' = tier /\ tier[w] = 1 /\ spend[w] = 0
        BY <1>2 DEF GetCostCounter, Loop
  <2>2. Settled(w)'
    <3>1. \A j \in Tier : ~(j < 1)
          BY Numbers DEF Tier
    <3> QED BY <2>1, <3>1 DEF Settled
  <2>3. pc'[w] = "tiers" \/ (pc'[w] = "done" /\ spend'[w] = 0)
        BY <1>2, <2>1 DEF GetCostCounter, TypeOK
  <2> QED BY <2>2, <2>3 DEF Loop
<1>3. CASE EndPeriod(w)
  <2>1. pc'[w] \in {"idle", "read"} /\ tier'[w] = 1 /\ spend'[w] = 0
        BY <1>3 DEF EndPeriod, NewFrame, TypeOK
  <2> QED BY <2>1 DEF Loop
<1>4. CASE FireThreshold(w)
  <2>1. /\ pc[w] \in {"dm", "manager", "audit"} /\ hit' = hit
        /\ pc'[w] \in {"manager", "audit", "done"}
        BY <1>4 DEF FireThreshold, PostDM, PostManagerDM, WriteThresholdTrigger, TypeOK
  <2> QED BY <2>1 DEF Loop
<1>5. CASE WorkerCrash(w)
  <2>1. pc'[w] = "idle" /\ tier'[w] = 1 /\ spend'[w] = 0
        BY <1>5 DEF WorkerCrash, NewFrame, TypeOK
  <2> QED BY <2>1 DEF Loop
<1> QED BY <1>1, <1>2, <1>3, <1>4, <1>5

\* A step of a worker leaves the locals of the others alone, and the clock.
LEMMA OthersStill ==
  ASSUME TypeOK, NEW w \in Worker, NEW v \in Worker, v # w,
         \/ \E e \in Engineer : HandleEvent(w, e)
         \/ CheckPeriod(w) \/ FireThreshold(w) \/ WorkerCrash(w)
  PROVE  Still(v) /\ now' = now
<1> USE DEF Goto, local, frame, Still, TypeOK
<1>1. CASE \E e \in Engineer : HandleEvent(w, e)
      BY <1>1 DEF HandleEvent
<1>2. CASE GetCostCounter(w)
      BY <1>2 DEF GetCostCounter
<1>3. CASE NextTier(w)
      BY <1>3 DEF NextTier
<1>4. CASE SetNX(w)
      BY <1>4 DEF SetNX, Continue
<1>5. CASE EndPeriod(w)
      BY <1>5 DEF EndPeriod, NewFrame, Forget
<1>6. CASE FireThreshold(w)
      BY <1>6 DEF FireThreshold, PostDM, PostManagerDM, WriteThresholdTrigger
<1>7. CASE WorkerCrash(w)
      BY <1>7 DEF WorkerCrash, NewFrame, Forget
<1> QED BY <1>1, <1>2, <1>3, <1>4, <1>5, <1>6, <1>7 DEF CheckPeriod

\* Every step keeps what the workers know.
LEMMA LoopStep ==
  ASSUME TypeOK, TypeOK', CtlInv, PeriodInv, Grows, LiveInv, LoopInv, [Next]_vars
  PROVE  LoopInv'
<1>0. now \in Nat
      BY Numbers DEF TypeOK
<1>1. CASE Tick \/ RedisRestart \/ UNCHANGED vars
  <2>1. now <= now'
        BY <1>0, <1>1 DEF Tick, RedisRestart, vars
  <2>2. \A v \in Worker : Still(v)
        BY <1>1 DEF Tick, RedisRestart, vars, local, frame, Still
  <2> QED BY <2>1, <2>2, LoopKept DEF LoopInv
<1>2. ASSUME NEW w \in Worker,
             \/ \E e \in Engineer : HandleEvent(w, e)
             \/ CheckPeriod(w) \/ FireThreshold(w) \/ WorkerCrash(w)
      PROVE  LoopInv'
  <2>1. Loop(w)'
        BY <1>2, OwnLoop, NextTierLoop, SetNXLoop DEF CheckPeriod, LoopInv
  <2>2. ASSUME NEW v \in Worker, v # w PROVE Loop(v)'
        BY <1>0, <1>2, <2>2, OthersStill, LoopKept DEF LoopInv
  <2> QED BY <2>1, <2>2 DEF LoopInv
<1> QED BY <1>1, <1>2 DEF Next

\* A key that is live was set by a SETNX that won or whose reply was lost.
LEMMA LiveStep ==
  ASSUME TypeOK, TypeOK', CtlInv, PeriodInv, Grows, LiveInv, [Next]_vars
  PROVE  LiveInv'
<1>0. now \in Nat /\ now' \in Nat
      BY Numbers DEF TypeOK
<1>1. ASSUME claim' = claim, now <= now', NEW k \in Key, now' < claim'[k]
      PROVE  ClaimedNext(k, claim'[k])
  <2>1. claim[k] \in Nat /\ now < claim[k]
        BY <1>0, <1>1 DEF TypeOK
  <2>2. claim[k] = EndOf[k[2]][now] /\ k[2] \in Period
        BY <2>1 DEF PeriodInv, NextPeriodFresh, Live, Key
  <2>3. claim[k] \in Time
        BY <2>2, Numbers DEF TypeOK
  <2> QED BY <1>1, <2>1, <2>3 DEF LiveInv, Live, Grows
<1> SUFFICES ASSUME NEW k \in Key, now' < claim'[k] PROVE ClaimedNext(k, claim'[k])
    BY DEF LiveInv, Live, Claimed, ClaimedNext
<1>2. CASE Tick \/ UNCHANGED vars
  <2>1. claim' = claim /\ now <= now'
        BY <1>0, <1>2 DEF Tick, vars
  <2> QED BY <1>1, <2>1
<1>3. CASE RedisRestart
      BY <1>0, <1>3 DEF RedisRestart
<1>4. ASSUME NEW w \in Worker, SetNX(w) PROVE ClaimedNext(k, claim'[k])
  <2> DEFINE k0 == KeyOf(w)
             x0 == ExpireAt(w)
  <2>1. k0 \in Key /\ x0 \in Time /\ now' = now
        BY <1>4, KeyType DEF SetNX
  <2>2. now + ttl[w] = x0
    <3>1. ttl[w] = x0 - now
          BY <1>4 DEF SetNX, PeriodInv, TtlInv
    <3>2. x0 \in Nat
          BY <2>1, Numbers
    <3> QED BY <1>0, <3>1, <3>2
  <2>3. CASE claim' = claim
        BY <1>0, <1>1, <2>1, <2>3
  <2>4. CASE claim' = [claim EXCEPT ![k0] = x0] /\ ClaimedNext(k0, x0)
    <3>1. CASE k = k0
          BY <2>1, <2>4, <3>1 DEF TypeOK
    <3>2. CASE k # k0
      <4>1. claim'[k] = claim[k] /\ claim[k] \in Nat /\ now < claim[k]
            BY <2>1, <2>4, <3>2 DEF TypeOK
      <4>2. claim[k] \in Time
            BY <4>1, Numbers DEF PeriodInv, NextPeriodFresh, Live, Key, TypeOK
      <4> QED BY <4>1, <4>2 DEF LiveInv, Live, Grows
    <3> QED BY <3>1, <3>2
  <2>5. claim' = claim \/ (claim' = [claim EXCEPT ![k0] = x0] /\ ClaimedNext(k0, x0))
    <3>1. CASE won' = [won EXCEPT ![k0][x0] = @ + 1]
      <4>1. won[k0] \in [Time -> Nat] /\ won[k0][x0] \in Nat
            BY <2>1 DEF TypeOK
      <4>2. won'[k0] = [won[k0] EXCEPT ![x0] = @ + 1]
            BY <2>1, <3>1 DEF TypeOK
      <4>3. won'[k0][x0] = won[k0][x0] + 1
            BY <2>1, <4>1, <4>2
      <4>4. ClaimedNext(k0, x0)
            BY <4>1, <4>3 DEF ClaimedNext
      <4> QED BY <1>4, <2>2, <4>4 DEF SetNX, SetClaim
    <3>2. CASE spoiled' = spoiled \cup {<<k0, x0>>}
      <4>1. ClaimedNext(k0, x0)
            BY <3>2 DEF ClaimedNext
      <4> QED BY <1>4, <2>2, <4>1 DEF SetNX, SetClaim
    <3>3. CASE claim' = claim
          BY <3>3
    <3> QED BY <1>4, <3>1, <3>2, <3>3 DEF SetNX
  <2> QED BY <2>3, <2>4, <2>5
<1>5. ASSUME NEW w \in Worker,
             \/ \E e \in Engineer : HandleEvent(w, e)
             \/ GetCostCounter(w) \/ NextTier(w) \/ EndPeriod(w)
             \/ PostDM(w) \/ PostManagerDM(w) \/ WriteThresholdTrigger(w) \/ WorkerCrash(w)
      PROVE  ClaimedNext(k, claim'[k])
  <2>1. claim' = claim /\ now' = now
        BY <1>5 DEF HandleEvent, GetCostCounter, NextTier, EndPeriod, PostDM, PostManagerDM,
                    WriteThresholdTrigger, WorkerCrash
  <2> QED BY <1>0, <1>1, <2>1
<1> QED BY <1>2, <1>3, <1>4, <1>5 DEF Next, CheckPeriod, FireThreshold

\* A claim is won only for a tier below which everything is claimed.
LEMMA LowestStep ==
  ASSUME TypeOK, CtlInv, PeriodInv, Grows, LoopInv, LowestTierFirst, [Next]_vars
  PROVE  LowestTierFirst'
<1>1. ASSUME NEW k \in Key, NEW j \in 1..(k[3] - 1)
      PROVE  <<k[1], k[2], j>> \in Key
      BY Numbers DEF Key, Tier
<1>2. ASSUME NEW k \in Key, NEW x \in Time, won[k][x] > 0, NEW j \in 1..(k[3] - 1)
      PROVE  ClaimedNext(<<k[1], k[2], j>>, x)
      BY <1>1, <1>2 DEF LowestTierFirst, Grows
<1>3. CASE won' = won
      BY <1>2, <1>3 DEF LowestTierFirst, Claimed, ClaimedNext
<1>4. ASSUME NEW w \in Worker, SetNX(w), won' = [won EXCEPT ![KeyOf(w)][ExpireAt(w)] = @ + 1]
      PROVE  LowestTierFirst'
  <2> DEFINE k0 == KeyOf(w)
             x0 == ExpireAt(w)
  <2>1. k0 \in Key /\ x0 \in Time /\ pc[w] = "setnx" /\ tier[w] \in Tier
        BY <1>4, KeyType DEF SetNX, CtlInv
  <2>2. ASSUME NEW j \in 1..(k0[3] - 1) PROVE ClaimedNext(<<k0[1], k0[2], j>>, x0)
    <3>1. k0[1] = eng[w] /\ k0[2] = period[w] /\ k0[3] = tier[w]
          BY DEF KeyOf
    <3>2. j \in Tier /\ j < tier[w]
          BY <2>1, <3>1, Numbers DEF Tier
    <3>3. Reached(w, j)
          BY <2>1, <3>2, ReachedBelow DEF LoopInv, Loop
    <3>4. now < x0
          BY <2>1 DEF PeriodInv, TtlInv
    <3>5. Claimed(<<eng[w], period[w], j>>, x0)
          BY <2>1, <3>2, <3>3, <3>4 DEF LoopInv, Loop, Settled
    <3> QED BY <1>1, <2>1, <3>1, <3>5 DEF Grows
  <2> SUFFICES ASSUME NEW k \in Key, NEW x \in Time, won'[k][x] > 0, NEW j \in 1..(k[3] - 1)
               PROVE  ClaimedNext(<<k[1], k[2], j>>, x)
      BY DEF LowestTierFirst, Claimed, ClaimedNext
  <2>3. CASE k = k0 /\ x = x0
        BY <2>2, <2>3
  <2>4. CASE ~(k = k0 /\ x = x0)
    <3>1. won[k] \in [Time -> Nat]
          BY DEF TypeOK
    <3>2. won'[k] = won[k] \/ (k = k0 /\ won'[k] = [won[k] EXCEPT ![x0] = @ + 1])
          BY <1>4, <2>1 DEF TypeOK
    <3>3. won'[k][x] = won[k][x]
          BY <2>1, <2>4, <3>1, <3>2
    <3> QED BY <1>2, <3>3
  <2> QED BY <2>3, <2>4
<1>5. ASSUME NEW w \in Worker, SetNX(w) PROVE LowestTierFirst'
      BY <1>3, <1>4, <1>5 DEF SetNX
<1>6. ASSUME NEW w \in Worker,
             \/ \E e \in Engineer : HandleEvent(w, e)
             \/ GetCostCounter(w) \/ NextTier(w) \/ EndPeriod(w)
             \/ PostDM(w) \/ PostManagerDM(w) \/ WriteThresholdTrigger(w) \/ WorkerCrash(w)
      PROVE  LowestTierFirst'
      BY <1>3, <1>6 DEF HandleEvent, GetCostCounter, NextTier, EndPeriod, PostDM, PostManagerDM,
                        WriteThresholdTrigger, WorkerCrash
<1>7. CASE Tick \/ RedisRestart \/ UNCHANGED vars
      BY <1>3, <1>7 DEF Tick, RedisRestart, vars
<1> QED BY <1>5, <1>6, <1>7 DEF Next, CheckPeriod, FireThreshold

\* The invariant of the loop, with what it needs of claims and periods.
TierInv == TypeOK /\ CtlInv /\ PeriodInv /\ LiveInv /\ LoopInv /\ LowestTierFirst

\* It holds initially, with nothing claimed.
LEMMA TierInit == Init => TierInv
<1> SUFFICES ASSUME Init PROVE TierInv
    OBVIOUS
<1>1. LiveInv
      BY Numbers DEF Init, LiveInv, Live
<1>2. LoopInv
      BY DEF Init, LoopInv, Loop
<1>3. LowestTierFirst
      BY DEF Init, LowestTierFirst
<1> QED BY <1>1, <1>2, <1>3, TypeInit, PeriodInit DEF TierInv

\* With prompt claims, every step keeps the invariant of the loop.
LEMMA TierStep ==
  ASSUME PromptClaims
  PROVE  TierInv /\ [Next]_vars => TierInv'
<1> SUFFICES ASSUME TierInv, [Next]_vars PROVE TierInv'
    OBVIOUS
<1> USE DEF TierInv
<1>1. TypeOK' /\ CtlInv'
      BY TypeStep, CtlStep
<1>2. PeriodInv'
      BY <1>1, PeriodStep
<1>3. Grows
      BY ClaimsGrow
<1>4. LiveInv' /\ LoopInv' /\ LowestTierFirst'
      BY <1>1, <1>3, LiveStep, LoopStep, LowestStep
<1> QED BY <1>1, <1>2, <1>4

\* Alerts come from below: no worker alerts a tier while a lower one of the
\* same period is unclaimed, whatever GetCostCounter returned to whom.
THEOREM AlertedFromBelow ==
  ASSUME PromptClaims
  PROVE  Spec => []LowestTierFirst
<1>1. TierInv => LowestTierFirst
      BY DEF TierInv
<1>2. TierInv /\ [Next]_vars => TierInv'
      BY TierStep
<1> QED BY <1>1, <1>2, TierInit, PTL DEF Spec

\* checkPeriod never ends without an alert while it left a tier it reached
\* unclaimed in a period that lasts.
THEOREM NothingSwallowed ==
  ASSUME PromptClaims
  PROVE  Spec => []NoSilentSkip
<1>1. TierInv => NoSilentSkip
  <2> SUFFICES ASSUME TierInv, NEW w \in Worker, pc[w] = "done", ~hit[w], spend[w] > 0,
                      now < ExpireAt(w), NEW j \in Tier, Reached(w, j)
               PROVE  Claimed(<<eng[w], period[w], j>>, ExpireAt(w))
      BY DEF NoSilentSkip
  <2>1. tier[w] > Len(Tiers) /\ Settled(w)
        BY DEF TierInv, LoopInv, Loop
  <2>2. j < tier[w]
        BY <2>1, Numbers DEF TierInv, TypeOK, Tier
  <2> QED BY <2>1, <2>2 DEF Settled
<1>2. TierInv /\ [Next]_vars => TierInv'
      BY TierStep
<1> QED BY <1>1, <1>2, TierInit, PTL DEF Spec

=============================================================================
