--------------------------- MODULE BudgetCounters ---------------------------
(***************************************************************************)
(* The life of the Redis cost counters over the ends of days and months:   *)
(* the script that adds an event and sets the expiry, and RebuildCounters, *)
(* which overwrites them from usage_events.  Both take the time when they  *)
(* begin and reach Redis later, in another day or month perhaps, and       *)
(* go-redis sends a command again whose answer is lost.  The script has    *)
(* the end of the period as a time (EXPIREAT), SET as a duration, which    *)
(* begins when SET arrives.                                                *)
(*                                                                         *)
(* Engineers do not interact: one is modelled.  tokens:today goes as       *)
(* cost:today does.  How often an event is counted is the subject of       *)
(* UsagePipeline: a counter is a set here.  Events occur when they are     *)
(* received, and the clocks of the API and of Redis agree.                 *)
(***************************************************************************)
EXTENDS Integers

CONSTANTS
  Event,        \* with a cost
  MaxTime,      \* bound: the horizon of the clock, in seconds
  LastSecond,   \* endOfDayUTC, endOfMonthUTC: of the period a second lies in
  MaxRebuilds,  \* bound: runs of RebuildCounters
  MaxFaults     \* bound: failed calls and Redis restarts of one behaviour

Period == {"today", "month"}
Time   == 0..MaxTime

\* The calendar: the last second of a period is that of all its seconds.
ASSUME Calendar ==
  /\ MaxTime \in Nat /\ MaxRebuilds \in Nat /\ MaxFaults \in Nat
  /\ LastSecond \in [Period -> [Time -> Nat]]
  /\ \A k \in Period, t \in Time : t <= LastSecond[k][t]
  /\ \A k \in Period, t, u \in Time :
       t <= u /\ u <= LastSecond[k][t] => LastSecond[k][u] = LastSecond[k][t]

VARIABLES
  now,
  call,       \* WriteEventRedis of each event: new, sent, or done
  sent,       \* the time it took
  value,      \* the events summed in each counter
  expiry,     \* when its key expires
  usage,      \* the rows of usage_events
  rebuild,    \* the locals of RebuildCounters
  wrote,      \* history: when each event got into each counter
  slow,       \* history: the events in each counter by a slow SET, see SetCounter
  overwrites, \* history: how often each counter was set or lost
  rebuilds,
  faults

vars == <<now, call, sent, value, expiry, usage, rebuild, wrote, slow, overwrites, rebuilds,
          faults>>
redis == <<value, expiry, wrote, slow, overwrites>>

NoTTL == MaxTime + 1
NotRebuilding == [pc |-> "idle", period |-> "today", start |-> 0, at |-> 0, rows |-> {}]

Init ==
  /\ now = 0
  /\ call = [e \in Event |-> "new"] /\ sent = [e \in Event |-> 0]
  /\ value = [k \in Period |-> {}] /\ expiry = [k \in Period |-> 0]
  /\ usage = {}
  /\ rebuild = NotRebuilding
  /\ wrote = [k \in Period |-> [e \in Event |-> 0]]
  /\ slow = [k \in Period |-> {}]
  /\ overwrites = [k \in Period |-> 0]
  /\ rebuilds = 0 /\ faults = 0

Fault   == faults < MaxFaults /\ faults' = faults + 1
NoFault == faults' = faults

\* The last second of the period of the time t.
EndOf(k, t) == LastSecond[k][t]

\* GetCostCounter: nothing, once the key has expired.
Exists(k)  == now < expiry[k]
Content(k) == IF Exists(k) THEN value[k] ELSE {}

-----------------------------------------------------------------------------
Tick ==
  /\ now < MaxTime /\ now' = now + 1
  /\ UNCHANGED <<call, sent, redis, usage, rebuild, rebuilds, faults>>

RedisRestart ==
  /\ Fault
  /\ expiry' = [k \in Period |-> 0]
  /\ overwrites' = [k \in Period |-> overwrites[k] + 1]
  /\ UNCHANGED <<now, call, sent, value, usage, rebuild, wrote, slow, rebuilds>>

-----------------------------------------------------------------------------
(* WriteEventRedis                                                         *)

\* The time is taken, and the ends of its day and month.
WriteEventRedis(e) ==
  /\ call[e] = "new"
  /\ call' = [call EXCEPT ![e] = "sent"] /\ sent' = [sent EXCEPT ![e] = now]
  /\ UNCHANGED <<now, redis, usage, rebuild, rebuilds, faults>>

\* Mutant: EXPIREAT whatever the time, which deletes a key if it is past.
ExpireAt_Always(k, end) == end

\* EXPIREAT, if it is in the future; INCRBYFLOAT has kept the expiry, or has
\* made a key without one.
ExpireAt(k, end) == IF end > now THEN end ELSE IF Exists(k) THEN expiry[k] ELSE NoTTL

\* What a script leaves of slow: it sets the expiry of its period right.
StillSlow(k, end) == IF end > now THEN {f \in slow[k] : EndOf(k, sent[f]) # end} ELSE slow[k]

\* record_event.lua, at a later time; or the answer is lost and the script
\* sent again; or the call fails.
RecordEvent(e) ==
  /\ call[e] = "sent"
  /\ \/ /\ value' = [k \in Period |-> Content(k) \cup {e}]
        /\ expiry' = [k \in Period |-> ExpireAt(k, EndOf(k, sent[e]))]
        /\ wrote' = [k \in Period |-> [wrote[k] EXCEPT ![e] = now]]
        /\ slow' = [k \in Period |-> StillSlow(k, EndOf(k, sent[e]))]
        /\ \/ NoFault /\ call' = [call EXCEPT ![e] = "done"]
           \/ Fault /\ call' = call
     \/ Fault /\ call' = [call EXCEPT ![e] = "done"] /\ UNCHANGED <<value, expiry, wrote, slow>>
  /\ UNCHANGED <<now, sent, overwrites, usage, rebuild, rebuilds>>

\* The postgres-writer inserts the row, before or after.
WriteEventPG(e) ==
  /\ call[e] # "new" /\ e \notin usage
  /\ usage' = usage \cup {e}
  /\ UNCHANGED <<now, call, sent, redis, rebuild, rebuilds, faults>>

-----------------------------------------------------------------------------
(* RebuildCounters                                                         *)

\* The time is taken once.
RebuildCounters ==
  /\ rebuild.pc = "idle" /\ rebuilds < MaxRebuilds
  /\ rebuilds' = rebuilds + 1
  /\ rebuild' = [NotRebuilding EXCEPT !.pc = "query", !.start = now]
  /\ UNCHANGED <<now, call, sent, redis, usage, faults>>

\* The query for today, or the month: the rows of the period of that time.
Query ==
  /\ rebuild.pc = "query"
  /\ \/ /\ NoFault
        /\ rebuild' = [rebuild EXCEPT
             !.pc = "until",
             !.rows = {e \in usage : EndOf(rebuild.period, sent[e]) = EndOf(rebuild.period, rebuild.start)}]
     \/ Fault /\ rebuild' = NotRebuilding
  /\ UNCHANGED <<now, call, sent, redis, usage, rebuilds>>

\* The month after today, and then the end.
NextPeriod ==
  IF rebuild.period = "today"
  THEN [NotRebuilding EXCEPT !.pc = "query", !.period = "month", !.start = rebuild.start]
  ELSE NotRebuilding

\* A sum of zero is not set; for another one time.Until(end) takes the time.
TimeUntil ==
  /\ rebuild.pc = "until"
  /\ rebuild' = IF rebuild.rows = {} THEN NextPeriod ELSE [rebuild EXCEPT !.pc = "set", !.at = now]
  /\ UNCHANGED <<now, call, sent, redis, usage, rebuilds, faults>>

\* Mutant: no expiration is passed.
SetExpiry_None(end) == NoTTL

\* Mutant: the duration is taken for a time.
SetExpiry_Duration(end) == end - rebuild.at

\* The duration runs from the arrival; one that is not positive means no expiry.
SetExpiry(end) == IF end > rebuild.at THEN now + (end - rebuild.at) ELSE NoTTL

\* SET, at a later time; or the answer is lost and the same SET sent again; or
\* the call fails.  It is slow when it arrives two seconds or more after its
\* duration was computed: the key then outlives its period.
SetCounter ==
  /\ rebuild.pc = "set"
  /\ LET k == rebuild.period
         end == EndOf(k, rebuild.start)
     IN  \/ /\ value' = [value EXCEPT ![k] = rebuild.rows]
            /\ expiry' = [expiry EXCEPT ![k] = SetExpiry(end)]
            /\ wrote' = [wrote EXCEPT ![k] = [e \in Event |-> IF e \in rebuild.rows THEN now ELSE wrote[k][e]]]
            /\ slow' = [slow EXCEPT ![k] = IF now >= rebuild.at + 2 THEN rebuild.rows ELSE {}]
            /\ overwrites' = [overwrites EXCEPT ![k] = @ + 1]
            /\ \/ NoFault /\ rebuild' = NextPeriod
               \/ Fault /\ rebuild' = rebuild
         \/ Fault /\ rebuild' = NextPeriod /\ UNCHANGED redis
  /\ UNCHANGED <<now, call, sent, usage, rebuilds>>

-----------------------------------------------------------------------------
Next ==
  \/ Tick \/ RedisRestart
  \/ \E e \in Event : WriteEventRedis(e) \/ RecordEvent(e) \/ WriteEventPG(e)
  \/ RebuildCounters \/ Query \/ TimeUntil \/ SetCounter

Spec == Init /\ [][Next]_vars

-----------------------------------------------------------------------------
(* Properties                                                              *)

\* Every variable has its type.
TypeOK ==
  /\ now \in Time
  /\ call \in [Event -> {"new", "sent", "done"}] /\ sent \in [Event -> Time]
  /\ value \in [Period -> SUBSET Event] /\ expiry \in [Period -> Nat]
  /\ usage \subseteq Event
  /\ rebuild \in [pc : {"idle", "query", "until", "set"}, period : Period, start : Time,
                  at : Time, rows : SUBSET Event]
  /\ wrote \in [Period -> [Event -> Time]] /\ slow \in [Period -> SUBSET Event]
  /\ overwrites \in [Period -> Nat]
  /\ rebuilds \in 0..MaxRebuilds /\ faults \in 0..MaxFaults

\* A new day or month starts fresh: spend of an earlier one is in the counter
\* only if it was written there in or after the last second of its period, by
\* a script or a rebuild that was still under way, or by a SET that took two
\* seconds or more to arrive, and no script of that period came in time after.
CarriedIsLate ==
  \A k \in Period : \A e \in Content(k) :
    now > EndOf(k, sent[e]) => wrote[k][e] >= EndOf(k, sent[e]) \/ e \in slow[k]

\* Spend of today, or of the month, stays in its counter until the last second
\* of the period, whatever late scripts of earlier periods do: only a Redis
\* restart or a rebuild takes it out.
SpendStays ==
  [][\A k \in Period : \A e \in Content(k) :
       now' < EndOf(k, sent[e]) /\ overwrites'[k] = overwrites[k] => e \in Content(k)']_vars
=============================================================================
