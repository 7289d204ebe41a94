------------------------ MODULE BudgetCountersProofs ------------------------
(***************************************************************************)
(* A counter keeps the spend of its period and drops it with the period,   *)
(* for any calendar and any number of events, rebuilds and faults.         *)
(***************************************************************************)
EXTENDS BudgetCounters, TLAPS

\* Times that were taken are not in the future, and the rows of a rebuild
\* belong to the period it began in.
TimesArePast ==
  /\ \A e \in Event : sent[e] <= now
  /\ rebuild.start <= now /\ rebuild.at <= now
  /\ \A k \in Period, e \in Event : wrote[k][e] <= now
  /\ \A e \in rebuild.rows : EndOf(rebuild.period, sent[e]) = EndOf(rebuild.period, rebuild.start)

\* What is in use was sent.
UsedIsSent ==
  /\ \A e \in usage : call[e] # "new"
  /\ \A e \in rebuild.rows : call[e] # "new"
  /\ \A k \in Period : \A e \in value[k] : call[e] # "new"

\* An event of a counter was late, or its key expires with the period, which a
\* slow SET only delays.
InTime(k, e) ==
  LET end == EndOf(k, sent[e])
  IN  \/ wrote[k][e] >= end
      \/ expiry[k] >= end /\ (expiry[k] <= end + 1 \/ e \in slow[k])

InTimeOrLate == \A k \in Period : Exists(k) => \A e \in value[k] : InTime(k, e)

Inv == TypeOK /\ TimesArePast /\ UsedIsSent /\ InTimeOrLate

\* The end of a period is a number, and not before a time of that period.
LEMMA EndType == \A k \in Period, t \in Time : EndOf(k, t) \in Nat /\ t <= EndOf(k, t)
BY Calendar DEF EndOf

\* Two times of the past whose periods are not over lie in the same period.
LEMMA SamePeriod ==
  ASSUME NEW k \in Period, NEW t \in Time, NEW u \in Time, NEW n \in Time,
         t <= n, u <= n, n <= EndOf(k, t), n < EndOf(k, u)
  PROVE  EndOf(k, t) = EndOf(k, u)
<1>1. EndOf(k, t) \in Nat /\ EndOf(k, u) \in Nat /\ n \in Int
      BY EndType DEF Time
<1>2. EndOf(k, n) = EndOf(k, t)
      BY <1>1, Calendar DEF EndOf
<1>3. EndOf(k, n) = EndOf(k, u)
      BY <1>1, Calendar DEF EndOf
<1> QED BY <1>2, <1>3

\* Before the first event nothing is counted: Inv holds.
LEMMA InitInv == Init => Inv
<1> SUFFICES ASSUME Init PROVE Inv
    OBVIOUS
<1>1. TypeOK
      BY Calendar DEF Init, TypeOK, NotRebuilding, Time, Period
<1>2. TimesArePast
      BY DEF Init, TimesArePast, NotRebuilding
<1>3. UsedIsSent /\ InTimeOrLate
      BY DEF Init, UsedIsSent, InTimeOrLate, NotRebuilding, Exists
<1> QED BY <1>1, <1>2, <1>3 DEF Inv

\* What a rebuild goes on with has the type of its locals.
LEMMA NextPeriodType ==
  ASSUME TypeOK
  PROVE  /\ NotRebuilding \in [pc : {"idle", "query", "until", "set"}, period : Period, start : Time,
                               at : Time, rows : SUBSET Event]
         /\ NextPeriod \in [pc : {"idle", "query", "until", "set"}, period : Period, start : Time,
                            at : Time, rows : SUBSET Event]
         /\ NextPeriod.rows = {} /\ NextPeriod.at = 0 /\ NextPeriod.start \in {0, rebuild.start}
<1>1. rebuild.start \in Time /\ 0 \in Time /\ "today" \in Period /\ "month" \in Period
      BY Calendar DEF TypeOK, Time, Period
<1> QED BY <1>1 DEF NextPeriod, NotRebuilding

\* Every step keeps the types.
LEMMA TypeStep == TypeOK /\ [Next]_vars => TypeOK'
<1> SUFFICES ASSUME TypeOK, [Next]_vars PROVE TypeOK'
    OBVIOUS
<1> DEFINE Locals == [pc : {"idle", "query", "until", "set"}, period : Period, start : Time,
                      at : Time, rows : SUBSET Event]
<1> USE Calendar
<1>1. CASE Tick
      BY <1>1 DEF Tick, TypeOK, redis, Time
<1>2. CASE RedisRestart
      BY <1>2 DEF RedisRestart, Fault, TypeOK
<1>3. CASE RebuildCounters
  <2>1. rebuild' \in Locals
        BY <1>3, NextPeriodType DEF RebuildCounters, NotRebuilding, TypeOK
  <2> QED BY <1>3, <2>1 DEF RebuildCounters, TypeOK, redis
<1>4. ASSUME NEW e \in Event, WriteEventRedis(e) PROVE TypeOK'
      BY <1>4 DEF WriteEventRedis, TypeOK, redis
<1>5. ASSUME NEW e \in Event, RecordEvent(e) PROVE TypeOK'
  <2>1. now' = now /\ sent' = sent /\ overwrites' = overwrites /\ usage' = usage
        /\ rebuild' = rebuild /\ rebuilds' = rebuilds
        BY <1>5 DEF RecordEvent
  <2>2. call' \in [Event -> {"new", "sent", "done"}]
        BY <1>5 DEF RecordEvent, TypeOK
  <2>3. value' \in [Period -> SUBSET Event] /\ slow' \in [Period -> SUBSET Event]
    <3>1. value' \in [Period -> SUBSET Event]
          BY <1>5 DEF RecordEvent, TypeOK, Content
    <3>2. \A k \in Period : StillSlow(k, EndOf(k, sent[e])) \in SUBSET Event
          BY DEF TypeOK, StillSlow
    <3>3. slow' = [k \in Period |-> StillSlow(k, EndOf(k, sent[e]))] \/ slow' = slow
          BY <1>5 DEF RecordEvent
    <3>4. slow' \in [Period -> SUBSET Event]
          BY <3>2, <3>3 DEF TypeOK
    <3> QED BY <3>1, <3>4
  <2>4. expiry' \in [Period -> Nat]
    <3>1. ASSUME NEW k \in Period PROVE ExpireAt(k, EndOf(k, sent[e])) \in Nat
          BY EndType DEF TypeOK, ExpireAt, NoTTL
    <3> QED BY <1>5, <3>1 DEF RecordEvent, TypeOK
  <2>5. wrote' \in [Period -> [Event -> Time]]
    <3> DEFINE new(k) == [wrote[k] EXCEPT ![e] = now]
    <3>1. \A k \in Period : new(k) \in [Event -> Time]
          BY DEF TypeOK
    <3>2. wrote' = [k \in Period |-> new(k)] \/ wrote' = wrote
          BY <1>5 DEF RecordEvent
    <3> HIDE DEF new
    <3> QED BY <3>1, <3>2 DEF TypeOK
  <2>6. faults' \in 0..MaxFaults
        BY <1>5 DEF RecordEvent, TypeOK, Fault, NoFault
  <2> QED BY <2>1, <2>2, <2>3, <2>4, <2>5, <2>6 DEF TypeOK
<1>6. ASSUME NEW e \in Event, WriteEventPG(e) PROVE TypeOK'
      BY <1>6 DEF WriteEventPG, TypeOK, redis
<1>7. CASE Query
  <2>1. rebuild' \in Locals
    <3> DEFINE rows == {e \in usage : EndOf(rebuild.period, sent[e]) = EndOf(rebuild.period, rebuild.start)}
    <3>1. rebuild' = NotRebuilding \/ rebuild' = [rebuild EXCEPT !.pc = "until", !.rows = rows]
          BY <1>7 DEF Query
    <3>2. rows \in SUBSET Event
          BY DEF TypeOK
    <3> HIDE DEF rows
    <3> QED BY <3>1, <3>2, NextPeriodType DEF TypeOK
  <2>2. faults' \in 0..MaxFaults
        BY <1>7 DEF Query, TypeOK, Fault, NoFault
  <2> QED BY <1>7, <2>1, <2>2 DEF Query, TypeOK, redis
<1>8. CASE TimeUntil
  <2>1. rebuild' = NextPeriod \/ rebuild' = [rebuild EXCEPT !.pc = "set", !.at = now]
        BY <1>8 DEF TimeUntil
  <2>2. rebuild' \in Locals
        BY <2>1, NextPeriodType DEF TypeOK
  <2> QED BY <1>8, <2>2 DEF TimeUntil, TypeOK, redis
<1>9. CASE SetCounter
  <2> DEFINE k == rebuild.period
             end == EndOf(k, rebuild.start)
             new == [e \in Event |-> IF e \in rebuild.rows THEN now ELSE wrote[k][e]]
  <2>1. now' = now /\ call' = call /\ sent' = sent /\ usage' = usage /\ rebuilds' = rebuilds
        BY <1>9 DEF SetCounter
  <2>2. rebuild' \in Locals
    <3>1. rebuild' = NextPeriod \/ rebuild' = rebuild
          BY <1>9 DEF SetCounter
    <3> QED BY <3>1, NextPeriodType DEF TypeOK
  <2>3. \/ UNCHANGED redis
        \/ /\ value' = [value EXCEPT ![k] = rebuild.rows]
           /\ expiry' = [expiry EXCEPT ![k] = SetExpiry(end)]
           /\ wrote' = [wrote EXCEPT ![k] = new]
           /\ slow' = [slow EXCEPT ![k] = IF now >= rebuild.at + 2 THEN rebuild.rows ELSE {}]
           /\ overwrites' = [overwrites EXCEPT ![k] = @ + 1]
        BY <1>9 DEF SetCounter
  <2>4. k \in Period /\ end \in Nat /\ rebuild.rows \subseteq Event
        BY EndType DEF TypeOK
  <2>5. new \in [Event -> Time]
        BY <2>4 DEF TypeOK
  <2>6. SetExpiry(end) \in Nat
        BY <2>4 DEF TypeOK, SetExpiry, NoTTL, Time
  <2> HIDE DEF k, end, new
  <2>7. /\ value' \in [Period -> SUBSET Event] /\ slow' \in [Period -> SUBSET Event]
        /\ expiry' \in [Period -> Nat] /\ wrote' \in [Period -> [Event -> Time]]
        /\ overwrites' \in [Period -> Nat]
    <3>1. CASE UNCHANGED redis
          BY <3>1 DEF TypeOK, redis
    <3>2. CASE ~UNCHANGED redis
      <4> DEFINE late == IF now >= rebuild.at + 2 THEN rebuild.rows ELSE {}
      <4>1. late \in SUBSET Event
            BY <2>4
      <4>2. /\ value' = [value EXCEPT ![k] = rebuild.rows]
            /\ expiry' = [expiry EXCEPT ![k] = SetExpiry(end)]
            /\ wrote' = [wrote EXCEPT ![k] = new]
            /\ slow' = [slow EXCEPT ![k] = late]
            /\ overwrites' = [overwrites EXCEPT ![k] = @ + 1]
            BY <2>3, <3>2
      <4> HIDE DEF late
      <4>3. slow' \in [Period -> SUBSET Event]
            BY <4>1, <4>2 DEF TypeOK
      <4>4. value' \in [Period -> SUBSET Event]
            BY <2>4, <4>2 DEF TypeOK
      <4>5. wrote' \in [Period -> [Event -> Time]]
            BY <2>5, <4>2 DEF TypeOK
      <4>6. expiry' \in [Period -> Nat]
            BY <2>6, <4>2 DEF TypeOK
      <4>7. overwrites' \in [Period -> Nat]
        <5>1. overwrites[k] + 1 \in Nat /\ overwrites \in [Period -> Nat]
              BY <2>4 DEF TypeOK
        <5>2. overwrites' = [overwrites EXCEPT ![k] = overwrites[k] + 1]
              BY <4>2
        <5> QED BY <5>1, <5>2
      <4> QED BY <4>3, <4>4, <4>5, <4>6, <4>7
    <3> QED BY <3>1, <3>2
  <2>8. faults' \in 0..MaxFaults
        BY <1>9 DEF SetCounter, TypeOK, Fault, NoFault
  <2> QED BY <2>1, <2>2, <2>7, <2>8 DEF TypeOK
<1>10. CASE UNCHANGED vars
      BY <1>10 DEF vars, TypeOK
<1> QED BY <1>1, <1>2, <1>3, <1>4, <1>5, <1>6, <1>7, <1>8, <1>9, <1>10 DEF Next

\* Every variable has its type.
THEOREM TypesKept == Spec => []TypeOK
<1>1. Init => TypeOK
      BY InitInv DEF Inv
<1> QED BY <1>1, TypeStep, PTL DEF Spec

\* Times only lie further in the past, and no event is sent twice.
LEMMA TimesStep == Inv /\ [Next]_vars => TimesArePast' /\ UsedIsSent'
<1> SUFFICES ASSUME Inv, [Next]_vars PROVE TimesArePast' /\ UsedIsSent'
    OBVIOUS
<1>0. /\ now \in Nat /\ sent \in [Event -> Time] /\ call \in [Event -> {"new", "sent", "done"}]
      /\ value \in [Period -> SUBSET Event] /\ usage \subseteq Event /\ rebuild.rows \subseteq Event
      /\ rebuild.start \in Nat /\ rebuild.at \in Nat /\ Time \subseteq Nat
      /\ wrote \in [Period -> [Event -> Time]]
      BY Calendar DEF Inv, TypeOK, Time
<1>1. CASE Tick \/ RedisRestart \/ UNCHANGED vars
  <2>1. /\ now' = now \/ now' = now + 1
        /\ UNCHANGED <<call, sent, value, usage, rebuild, wrote>>
        BY <1>1 DEF Tick, RedisRestart, vars, redis
  <2>2. /\ \A e \in Event : sent[e] \in Nat /\ sent[e] <= now
        /\ \A k \in Period, e \in Event : wrote[k][e] \in Nat /\ wrote[k][e] <= now
        BY <1>0 DEF Inv, TimesArePast
  <2>3. /\ \A e \in Event : sent[e] <= now'
        /\ rebuild.start <= now' /\ rebuild.at <= now'
        /\ \A k \in Period, e \in Event : wrote[k][e] <= now'
        BY <1>0, <2>1, <2>2 DEF Inv, TimesArePast
  <2>4. TimesArePast'
        BY <2>1, <2>3 DEF Inv, TimesArePast, EndOf
  <2> QED BY <2>1, <2>4 DEF Inv, UsedIsSent
<1>2. CASE RebuildCounters
  <2>1. /\ UNCHANGED <<now, call, sent, value, usage, wrote>>
        /\ rebuild'.start = now /\ rebuild'.at = 0 /\ rebuild'.rows = {}
        BY <1>2 DEF RebuildCounters, redis, NotRebuilding
  <2> QED BY <1>0, <2>1 DEF Inv, TimesArePast, UsedIsSent, EndOf
<1>3. ASSUME NEW e \in Event, WriteEventRedis(e) PROVE TimesArePast' /\ UsedIsSent'
  <2>1. /\ now' = now /\ sent' = [sent EXCEPT ![e] = now] /\ call' = [call EXCEPT ![e] = "sent"]
        /\ UNCHANGED <<value, usage, rebuild, wrote>> /\ e \notin rebuild.rows
        BY <1>3 DEF WriteEventRedis, redis, Inv, UsedIsSent
  <2>2. \A f \in rebuild.rows : sent'[f] = sent[f]
        BY <1>0, <2>1
  <2>3. TimesArePast'
        BY <1>0, <2>1, <2>2 DEF Inv, TimesArePast, EndOf
  <2>4. UsedIsSent'
        BY <1>0, <2>1 DEF Inv, UsedIsSent
  <2> QED BY <2>3, <2>4
<1>4. ASSUME NEW e \in Event, RecordEvent(e) PROVE TimesArePast' /\ UsedIsSent'
  <2>1. /\ call' = [call EXCEPT ![e] = "done"] \/ call' = call
        /\ call[e] = "sent" /\ UNCHANGED <<now, sent, usage, rebuild>>
        /\ \A k \in Period : value'[k] \subseteq value[k] \cup {e}
        BY <1>0, <1>4 DEF RecordEvent, Content
  <2>2. \A k \in Period, f \in Event : wrote'[k][f] <= now
        BY <1>0, <1>4 DEF RecordEvent, Inv, TimesArePast
  <2>3. TimesArePast'
        BY <2>1, <2>2 DEF Inv, TimesArePast, EndOf
  <2>4. UsedIsSent'
        BY <1>0, <2>1 DEF Inv, UsedIsSent
  <2> QED BY <2>3, <2>4
<1>5. ASSUME NEW e \in Event, WriteEventPG(e) PROVE TimesArePast' /\ UsedIsSent'
      BY <1>0, <1>5 DEF WriteEventPG, redis, Inv, TimesArePast, UsedIsSent, EndOf
<1>6. CASE Query
  <2> DEFINE rows == {e \in usage : EndOf(rebuild.period, sent[e]) = EndOf(rebuild.period, rebuild.start)}
  <2>1. /\ UNCHANGED <<now, call, sent, value, usage, wrote>>
        /\ \/ rebuild' = NotRebuilding
           \/ /\ rebuild'.start = rebuild.start /\ rebuild'.at = rebuild.at
              /\ rebuild'.rows = rows /\ rebuild'.period = rebuild.period
        BY <1>6 DEF Query, redis, Inv, TypeOK
  <2>2. CASE rebuild' = NotRebuilding
    <3>1. TimesArePast'
          BY <1>0, <2>1, <2>2 DEF Inv, TimesArePast, NotRebuilding, EndOf
    <3> QED BY <2>1, <2>2, <3>1 DEF Inv, UsedIsSent, NotRebuilding
  <2>3. CASE /\ rebuild'.start = rebuild.start /\ rebuild'.at = rebuild.at
             /\ rebuild'.rows = rows /\ rebuild'.period = rebuild.period
        BY <1>0, <2>1, <2>3 DEF Inv, TimesArePast, UsedIsSent, EndOf
  <2> QED BY <2>1, <2>2, <2>3
<1>7. CASE TimeUntil \/ SetCounter
  <2>1. /\ UNCHANGED <<now, call, sent, usage>>
        /\ \/ rebuild' = NextPeriod \/ rebuild' = rebuild
           \/ rebuild' = [rebuild EXCEPT !.pc = "set", !.at = now]
        BY <1>7 DEF TimeUntil, SetCounter
  <2>2. \A j \in Period : value'[j] = value[j] \/ value'[j] = rebuild.rows
        BY <1>0, <1>7 DEF TimeUntil, SetCounter, redis, Inv, TypeOK
  <2>3. \A j \in Period, f \in Event : wrote'[j][f] <= now
    <3> DEFINE k == rebuild.period
               new == [f \in Event |-> IF f \in rebuild.rows THEN now ELSE wrote[k][f]]
    <3>1. \A f \in Event : new[f] <= now
          BY <1>0 DEF Inv, TimesArePast, TypeOK
    <3>2. wrote' = [wrote EXCEPT ![k] = new] \/ wrote' = wrote
          BY <1>7 DEF TimeUntil, SetCounter, redis
    <3> HIDE DEF new
    <3> QED BY <1>0, <3>1, <3>2 DEF Inv, TimesArePast
  <2>4. /\ \/ rebuild'.rows = {}
           \/ /\ rebuild'.rows = rebuild.rows /\ rebuild'.start = rebuild.start
              /\ rebuild'.period = rebuild.period
        /\ rebuild'.start \in {0, rebuild.start} /\ rebuild'.at \in {0, now, rebuild.at}
        BY <2>1, NextPeriodType DEF Inv, TypeOK
  <2>5. rebuild'.start <= now /\ rebuild'.at <= now
        BY <1>0, <2>4 DEF Inv, TimesArePast
  <2>6. TimesArePast'
        BY <1>0, <2>1, <2>3, <2>4, <2>5 DEF Inv, TimesArePast, EndOf
  <2>7. UsedIsSent'
        BY <1>0, <2>1, <2>2, <2>4 DEF Inv, UsedIsSent
  <2> QED BY <2>6, <2>7
<1> QED BY <1>1, <1>2, <1>3, <1>4, <1>5, <1>6, <1>7 DEF Next

\* A script leaves an event that was in time in a key that lasts to the end of
\* the event's period, and longer only if a slow SET brought the event.
LEMMA ScriptExpiry ==
  ASSUME Inv, NEW e \in Event, NEW k \in Period, NEW f \in Event, Exists(k),
         expiry'[k] = ExpireAt(k, EndOf(k, sent[e])), slow'[k] = StillSlow(k, EndOf(k, sent[e])),
         wrote[k][f] < EndOf(k, sent[f]), InTime(k, f)
  PROVE  LET end == EndOf(k, sent[f])
         IN  expiry'[k] >= end /\ (expiry'[k] <= end + 1 \/ f \in slow'[k])
<1> DEFINE end == EndOf(k, sent[f])
           new == EndOf(k, sent[e])
<1>1. /\ now \in Time /\ sent \in [Event -> Time] /\ Time \subseteq Int
      /\ sent[f] <= now /\ sent[e] <= now /\ expiry[k] \in Nat /\ slow[k] \subseteq Event
      /\ wrote[k][f] \in Time
      BY DEF Inv, TypeOK, TimesArePast, Time
<1>2. end \in Nat /\ new \in Nat
      BY <1>1, EndType
<1>3. expiry[k] >= end /\ (expiry[k] <= end + 1 \/ f \in slow[k])
      BY <1>1, <1>2 DEF InTime
<1>4. CASE new <= now
      BY <1>1, <1>2, <1>3, <1>4 DEF ExpireAt, StillSlow
<1>5. CASE new > now /\ now <= end
  <2>1. new = end
        BY <1>1, <1>2, <1>5, SamePeriod
  <2> QED BY <1>2, <1>5, <2>1 DEF ExpireAt
<1>6. CASE new > now /\ now > end
  <2>1. f \in slow[k]
        BY <1>1, <1>2, <1>3, <1>6 DEF Exists
  <2>2. f \in slow'[k]
        BY <1>1, <1>2, <1>6, <2>1 DEF StillSlow
  <2>3. expiry'[k] >= end
        BY <1>1, <1>2, <1>6 DEF ExpireAt
  <2> QED BY <2>2, <2>3
<1> QED BY <1>1, <1>2, <1>4, <1>5, <1>6

\* Every step keeps an event with its period, or is late or slow.
LEMMA InTimeStep == Inv /\ [Next]_vars => InTimeOrLate'
<1> SUFFICES ASSUME Inv, [Next]_vars, NEW k \in Period, Exists(k)', NEW f \in value'[k]
             PROVE  InTime(k, f)'
    BY DEF InTimeOrLate
<1>0. /\ now \in Time /\ Time \subseteq Int /\ sent \in [Event -> Time]
      /\ value \in [Period -> SUBSET Event] /\ expiry \in [Period -> Nat]
      /\ slow \in [Period -> SUBSET Event]
      /\ wrote \in [Period -> [Event -> Time]] /\ rebuild.rows \subseteq Event
      /\ rebuild.period \in Period /\ rebuild.start \in Time /\ rebuild.at \in Time
      BY DEF Inv, TypeOK, Time
<1>1. CASE UNCHANGED <<sent, value, expiry, wrote, slow>> /\ (now' = now \/ now' = now + 1)
  <2>1. Exists(k) /\ f \in value[k]
        BY <1>0, <1>1 DEF Exists
  <2> QED BY <1>1, <2>1 DEF Inv, InTimeOrLate, InTime, EndOf
<1>2. CASE RedisRestart
      BY <1>0, <1>2 DEF RedisRestart, Exists, Time
<1>3. ASSUME NEW e \in Event, WriteEventRedis(e)
      PROVE  InTime(k, f)'
  <2>1. /\ UNCHANGED <<now, value, expiry, wrote, slow>> /\ sent' = [sent EXCEPT ![e] = now]
        /\ call[e] = "new"
        BY <1>3 DEF WriteEventRedis, redis
  <2>2. Exists(k) /\ f \in value[k] /\ f # e
        BY <2>1 DEF Exists, Inv, UsedIsSent
  <2>3. sent'[f] = sent[f]
        BY <1>0, <2>1, <2>2
  <2>4. InTime(k, f)
        BY <2>2 DEF Inv, InTimeOrLate
  <2> QED BY <2>1, <2>3, <2>4 DEF InTime, EndOf
<1>4. ASSUME NEW e \in Event, RecordEvent(e), value' = [j \in Period |-> Content(j) \cup {e}],
             expiry' = [j \in Period |-> ExpireAt(j, EndOf(j, sent[e]))],
             wrote' = [j \in Period |-> [wrote[j] EXCEPT ![e] = now]],
             slow' = [j \in Period |-> StillSlow(j, EndOf(j, sent[e]))]
      PROVE  InTime(k, f)'
  <2>1. /\ sent' = sent /\ wrote'[k] = [wrote[k] EXCEPT ![e] = now]
        /\ f \in Content(k) \cup {e} /\ expiry'[k] = ExpireAt(k, EndOf(k, sent[e]))
        /\ slow'[k] = StillSlow(k, EndOf(k, sent[e]))
        BY <1>4 DEF RecordEvent
  <2>2. f \in Event
        BY <1>0, <2>1 DEF Content
  <2>3. EndOf(k, sent[f]) \in Nat /\ EndOf(k, sent'[f]) = EndOf(k, sent[f])
        BY <1>0, <2>1, <2>2, EndType
  <2>4. CASE f = e
    <3>1. wrote'[k][e] = now
          BY <1>0, <2>1
    <3>2. now < EndOf(k, sent[e]) => expiry'[k] = EndOf(k, sent[e])
          BY <1>0, <2>1 DEF ExpireAt
    <3> QED BY <1>0, <2>3, <2>4, <3>1, <3>2 DEF InTime, EndOf
  <2>5. CASE f # e
    <3>1. Exists(k) /\ f \in value[k]
          BY <1>0, <2>1, <2>5 DEF Content
    <3>2. wrote'[k][f] = wrote[k][f] /\ wrote[k][f] \in Int
      <4>1. wrote[k] \in [Event -> Time]
            BY <1>0
      <4> QED BY <1>0, <2>1, <2>2, <2>5, <4>1
    <3>3. InTime(k, f)
          BY <3>1 DEF Inv, InTimeOrLate
    <3>4. CASE wrote[k][f] < EndOf(k, sent[f])
          BY <2>1, <2>2, <2>3, <3>1, <3>3, <3>4, ScriptExpiry DEF InTime, EndOf
    <3> QED BY <2>3, <3>2, <3>4 DEF InTime, EndOf
  <2> QED BY <2>4, <2>5
<1>5. ASSUME SetCounter, ~UNCHANGED redis
      PROVE  InTime(k, f)'
  <2> DEFINE j == rebuild.period
             end == EndOf(j, rebuild.start)
             new == [e \in Event |-> IF e \in rebuild.rows THEN now ELSE wrote[j][e]]
  <2>1. /\ UNCHANGED <<now, sent>>
        /\ value' = [value EXCEPT ![j] = rebuild.rows]
        /\ expiry' = [expiry EXCEPT ![j] = SetExpiry(end)]
        /\ wrote' = [wrote EXCEPT ![j] = new]
        /\ slow' = [slow EXCEPT ![j] = IF now >= rebuild.at + 2 THEN rebuild.rows ELSE {}]
        BY <1>5 DEF SetCounter
  <2>2. CASE j = k
    <3>1. f \in rebuild.rows /\ f \in Event
          BY <1>0, <2>1, <2>2
    <3>2. EndOf(k, sent[f]) = end
          BY <2>2, <3>1 DEF Inv, TimesArePast
    <3>3. end \in Nat /\ rebuild.at <= now
          BY <1>0, EndType DEF Inv, TimesArePast
    <3>4. /\ expiry'[k] = SetExpiry(end) /\ new[f] = now
          /\ slow'[k] = IF now >= rebuild.at + 2 THEN rebuild.rows ELSE {}
          BY <1>0, <2>1, <2>2, <3>1
    <3> HIDE DEF new, end
    <3>5. wrote'[k][f] = now
          BY <1>0, <2>1, <2>2, <3>4
    <3>6. \/ now >= end
          \/ expiry'[k] >= end /\ (expiry'[k] <= end + 1 \/ f \in slow'[k])
      <4>1. now \in Int /\ rebuild.at \in Int /\ end \in Int /\ rebuild.at <= now
        <5>1. now \in Int /\ rebuild.at \in Int
              BY <1>0
        <5> QED BY <3>3, <5>1
      <4>2. CASE end > rebuild.at
        <5>1. expiry'[k] = now + (end - rebuild.at)
              BY <3>4, <4>2 DEF SetExpiry
        <5>2. now >= rebuild.at + 2 => f \in slow'[k]
              BY <3>1, <3>4
        <5> QED BY <4>1, <5>1, <5>2
      <4> QED BY <4>1, <4>2
    <3> QED BY <2>1, <3>2, <3>5, <3>6 DEF InTime, EndOf
  <2>3. CASE j # k
    <3> HIDE DEF new, end
    <3>1. f \in value[k] /\ expiry'[k] = expiry[k] /\ wrote'[k] = wrote[k] /\ slow'[k] = slow[k]
          BY <1>0, <2>1, <2>3
    <3>2. Exists(k)
          BY <2>1, <3>1 DEF Exists
    <3> QED BY <2>1, <3>1, <3>2 DEF Inv, InTimeOrLate, InTime, EndOf
  <2> QED BY <2>2, <2>3
<1>6. Tick \/ RebuildCounters \/ Query \/ TimeUntil \/ UNCHANGED vars \/ (\E e \in Event : WriteEventPG(e))
      => UNCHANGED <<sent, value, expiry, wrote, slow>> /\ (now' = now \/ now' = now + 1)
      BY DEF Tick, RebuildCounters, WriteEventPG, Query, TimeUntil, vars, redis
<1>7. ASSUME NEW e \in Event, RecordEvent(e)
      PROVE  \/ UNCHANGED <<sent, value, expiry, wrote, slow>> /\ now' = now
             \/ /\ value' = [j \in Period |-> Content(j) \cup {e}]
                /\ expiry' = [j \in Period |-> ExpireAt(j, EndOf(j, sent[e]))]
                /\ wrote' = [j \in Period |-> [wrote[j] EXCEPT ![e] = now]]
                /\ slow' = [j \in Period |-> StillSlow(j, EndOf(j, sent[e]))]
      BY <1>7 DEF RecordEvent
<1>8. ASSUME SetCounter, UNCHANGED redis
      PROVE  UNCHANGED <<sent, value, expiry, wrote, slow>> /\ now' = now
      BY <1>8 DEF SetCounter, redis
<1> QED BY <1>1, <1>2, <1>3, <1>4, <1>5, <1>6, <1>7, <1>8 DEF Next

\* Every action keeps Inv.
LEMMA InvStep == Inv /\ [Next]_vars => Inv'
<1>1. Inv /\ [Next]_vars => TypeOK'
      BY TypeStep DEF Inv
<1> QED BY <1>1, TimesStep, InTimeStep DEF Inv

\* The inductive invariant holds of every state the counters reach.
THEOREM CounterInvariant == Spec => []Inv
BY InitInv, InvStep, PTL DEF Spec

\* A new day or month starts fresh: what is carried over the end of its period
\* was written by a script or a rebuild in or after its last second, or by a
\* SET that took two seconds or more, whatever the commands take and however
\* often they are sent.
THEOREM OnlyLateCarried == Spec => []CarriedIsLate
<1>1. Inv => CarriedIsLate
  <2> SUFFICES ASSUME Inv, NEW k \in Period, NEW e \in Content(k), now > EndOf(k, sent[e])
               PROVE  wrote[k][e] >= EndOf(k, sent[e]) \/ e \in slow[k]
      BY DEF CarriedIsLate
  <2>1. Exists(k) /\ e \in value[k]
        BY DEF Content
  <2>2. e \in Event /\ now \in Int /\ expiry[k] \in Int /\ sent[e] \in Time
        BY <2>1 DEF Inv, TypeOK, Time
  <2>3. EndOf(k, sent[e]) \in Nat
        BY <2>2, EndType
  <2>4. ~(expiry[k] <= EndOf(k, sent[e]) + 1)
        BY <2>1, <2>2, <2>3 DEF Exists
  <2> QED BY <2>1, <2>4 DEF Inv, InTimeOrLate, InTime
<1> QED BY <1>1, CounterInvariant, PTL

\* Spend of a period that is not over stays in its counter, unless Redis
\* restarts or a rebuild overwrites the counter.
THEOREM SpendIsKept == Spec => SpendStays
<1>1. ASSUME Inv, [Next]_vars, NEW k \in Period, NEW f \in Content(k),
             now' < EndOf(k, sent[f]), overwrites'[k] = overwrites[k]
      PROVE  f \in Content(k)'
  <2>0. /\ now \in Time /\ Time \subseteq Int /\ sent \in [Event -> Time]
        /\ value \in [Period -> SUBSET Event] /\ expiry \in [Period -> Nat]
        /\ wrote \in [Period -> [Event -> Time]] /\ overwrites \in [Period -> Nat]
        BY <1>1 DEF Inv, TypeOK, Time
  <2>1. Exists(k) /\ f \in value[k] /\ f \in Event /\ InTime(k, f)
        BY <1>1, <2>0 DEF Content, Inv, InTimeOrLate
  <2>2. EndOf(k, sent[f]) \in Nat
        BY <2>0, <2>1, EndType
  <2>3. now' = now \/ now' = now + 1
        BY <1>1 DEF Next, Tick, RedisRestart, RebuildCounters, WriteEventRedis, RecordEvent,
                    WriteEventPG, Query, TimeUntil, SetCounter, vars
  <2>4. wrote[k][f] < EndOf(k, sent[f])
    <3>1. wrote[k][f] <= now /\ wrote[k][f] \in Int
          BY <1>1, <2>0, <2>1 DEF Inv, TimesArePast
    <3> QED BY <1>1, <2>0, <2>2, <2>3, <3>1
  <2>5. expiry[k] >= EndOf(k, sent[f])
    <3>1. wrote[k][f] \in Int
          BY <2>0, <2>1
    <3> QED BY <2>1, <2>2, <2>4, <3>1 DEF InTime
  <2>6. CASE value'[k] = value[k] /\ expiry'[k] = expiry[k]
        BY <1>1, <2>0, <2>1, <2>2, <2>3, <2>5, <2>6 DEF Content, Exists
  <2>7. CASE RedisRestart
    <3>1. overwrites'[k] = overwrites[k] + 1
          BY <2>7 DEF RedisRestart
    <3> QED BY <1>1, <2>0, <3>1
  <2>8. ASSUME NEW e \in Event, RecordEvent(e), value' = [j \in Period |-> Content(j) \cup {e}],
               expiry' = [j \in Period |-> ExpireAt(j, EndOf(j, sent[e]))],
               slow' = [j \in Period |-> StillSlow(j, EndOf(j, sent[e]))]
        PROVE  f \in Content(k)'
    <3>1. expiry'[k] >= EndOf(k, sent[f])
          BY <1>1, <2>1, <2>4, <2>8, ScriptExpiry
    <3>2. f \in value'[k] /\ expiry'[k] = ExpireAt(k, EndOf(k, sent[e]))
          BY <1>1, <2>8
    <3>3. expiry'[k] \in Int
      <4>1. sent[e] \in Time
            BY <2>0
      <4>2. expiry[k] \in Int /\ NoTTL \in Int
            BY <2>0, Calendar DEF NoTTL
      <4>3. EndOf(k, sent[e]) \in Int
            BY <4>1, EndType
      <4> QED BY <3>2, <4>2, <4>3 DEF ExpireAt
    <3> QED BY <1>1, <2>0, <2>2, <2>3, <3>1, <3>2, <3>3 DEF Content, Exists
  <2>9. ASSUME SetCounter
        PROVE  value'[k] = value[k] /\ expiry'[k] = expiry[k]
    <3> DEFINE j == rebuild.period
    <3>1. CASE UNCHANGED redis
          BY <3>1 DEF redis
    <3>2. CASE ~UNCHANGED redis
      <4>1. /\ value' = [value EXCEPT ![j] = rebuild.rows]
            /\ expiry' = [expiry EXCEPT ![j] = SetExpiry(EndOf(j, rebuild.start))]
            /\ overwrites' = [overwrites EXCEPT ![j] = @ + 1]
            BY <2>9, <3>2 DEF SetCounter
      <4>2. j # k
            BY <1>1, <2>0, <4>1
      <4> QED BY <2>0, <4>1, <4>2
    <3> QED BY <3>1, <3>2
  <2>10. ASSUME NEW e \in Event, RecordEvent(e)
        PROVE  \/ value'[k] = value[k] /\ expiry'[k] = expiry[k]
               \/ /\ value' = [j \in Period |-> Content(j) \cup {e}]
                  /\ expiry' = [j \in Period |-> ExpireAt(j, EndOf(j, sent[e]))]
                  /\ slow' = [j \in Period |-> StillSlow(j, EndOf(j, sent[e]))]
        BY <2>10 DEF RecordEvent
  <2>11. Tick \/ RebuildCounters \/ Query \/ TimeUntil \/ UNCHANGED vars
         \/ (\E e \in Event : WriteEventRedis(e) \/ WriteEventPG(e))
         => value'[k] = value[k] /\ expiry'[k] = expiry[k]
         BY DEF Tick, RebuildCounters, WriteEventRedis, WriteEventPG, Query, TimeUntil, vars, redis
  <2> QED BY <1>1, <2>6, <2>7, <2>8, <2>9, <2>10, <2>11 DEF Next
<1>2. Inv /\ [Next]_vars =>
        [\A k \in Period : \A e \in Content(k) :
           now' < EndOf(k, sent[e]) /\ overwrites'[k] = overwrites[k] => e \in Content(k)']_vars
      BY <1>1
<1> QED BY <1>2, CounterInvariant, PTL DEF Spec, SpendStays

=============================================================================
