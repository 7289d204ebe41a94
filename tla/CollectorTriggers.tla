-------------------------- MODULE CollectorTriggers --------------------------
(***************************************************************************)
(* When the efficiency collector runs: the requests for a run, the         *)
(* channels they travel through, and the loop that takes them.             *)
(*                                                                         *)
(*   github-trigger consumer: SADD of the login, then Trigger()            *)
(*   POST /admin/refresh-efficiency: Redis Pub/Sub -> forwarder goroutine  *)
(*     -> relay goroutine -> Trigger()                                     *)
(*   Trigger(): a non-blocking send to a channel with room for one         *)
(*   Run: startup, the ticker, and triggers outside the debounce window    *)
(*                                                                         *)
(* The scan itself is EfficiencyCollector; it is one step here, and sees   *)
(* whatever was asked for before it began.  runMu is only ever taken by    *)
(* this loop, so its TryLock succeeds.                                     *)
(***************************************************************************)
EXTENDS CollectorFaults

VARIABLES
  loop,       \* where Run is
  tick,       \* ticker.C holds a tick
  triggerCh,  \* triggerCh holds a token
  recent,     \* time.Since(lastRunAt) < debounce
  message,    \* the Pub/Sub subscription holds a message
  out,        \* the forwarder's channel holds a token
  dirty,      \* Redis set github:dirty_engineers
  members,    \* what SMEMBERS returned
  handler,    \* the github-trigger consumer: idle or about to call Trigger
  asked,      \* history: a request came in since the last scan began
  excused     \* history: ... and it was debounced, or lost to a fault

queues == <<tick, triggerCh, message, out>>
triggersVars == <<loop, queues, recent, dirty, members, handler, asked, excused, faults>>

LoopState == {"down", "select", "debounce", "smembers", "del", "scan", "finish"}

TriggersInit ==
  /\ loop = "down"
  /\ tick = FALSE /\ triggerCh = FALSE /\ message = FALSE /\ out = FALSE
  /\ recent = FALSE
  /\ dirty = {} /\ members = {}
  /\ handler = "idle"
  /\ asked = FALSE /\ excused = FALSE
  /\ faults = 0

NoName == ""
Up == loop # "down"
Queued == triggerCh \/ out \/ message \/ handler = "trigger"

-----------------------------------------------------------------------------
(* Requests                                                                *)

\* Mutant: a channel without room, to which only a waiting loop receives.
Trigger_Unbuffered == triggerCh' = (loop = "select")

\* A token is queued, or the one that is there stands for this request too.
Trigger == triggerCh' = TRUE

\* MarkEngineerDirty adds a username that is not empty.
SAdd(u) == dirty' = dirty \cup ({u} \ {NoName})

\* A commit or pull request of an engineer with the GitHub username u, if
\* any, is consumed; an error of MarkEngineerDirty is only logged.
HandleCommit(u) ==
  /\ Up /\ handler = "idle"
  /\ handler' = "trigger"
  /\ \/ SAdd(u) /\ NoFault
     \/ u # NoName /\ dirty' = dirty /\ Fault
  /\ asked' = TRUE /\ excused' = FALSE
  /\ UNCHANGED <<loop, queues, recent, members>>

\* The handler's collector.Trigger().
HandlerTrigger ==
  /\ handler = "trigger"
  /\ handler' = "idle"
  /\ Trigger
  /\ UNCHANGED <<loop, tick, message, out, recent, dirty, members, asked, excused, faults>>

\* The admin's refresh: Pub/Sub drops it when nobody listens.
PublishCollectorTrigger ==
  /\ asked' = TRUE
  /\ \/ Up /\ message' = TRUE /\ excused' = FALSE /\ NoFault
     \/ Up /\ message' = message /\ excused' = TRUE /\ Fault
     \/ ~Up /\ message' = message /\ excused' = TRUE /\ NoFault
  /\ UNCHANGED <<loop, tick, triggerCh, out, recent, dirty, members, handler>>

\* SubscribeCollectorTriggers' goroutine: another non-blocking send.
Forward ==
  /\ message
  /\ message' = FALSE /\ out' = TRUE
  /\ UNCHANGED <<loop, tick, triggerCh, recent, dirty, members, handler, asked, excused, faults>>

\* Run's goroutine: for range pubsubCh { c.Trigger() }.
Relay ==
  /\ out
  /\ out' = FALSE
  /\ Trigger
  /\ UNCHANGED <<loop, tick, message, recent, dirty, members, handler, asked, excused, faults>>

-----------------------------------------------------------------------------
(* Time                                                                    *)

\* Mutant: ticker.Stop() without defer.
TickerTick_Stopped == FALSE /\ UNCHANGED triggersVars

TickerTick ==
  /\ Up /\ ~tick
  /\ tick' = TRUE
  /\ UNCHANGED <<loop, triggerCh, message, out, recent, dirty, members, handler, asked, excused, faults>>

DebounceElapses ==
  /\ recent
  /\ recent' = FALSE
  /\ UNCHANGED <<loop, queues, dirty, members, handler, asked, excused, faults>>

-----------------------------------------------------------------------------
(* Run and runOnce                                                         *)

\* The process starts; Run begins with a run.
Startup ==
  /\ loop = "down"
  /\ loop' = "smembers"
  /\ UNCHANGED <<queues, recent, dirty, members, handler, asked, excused, faults>>

\* select: a tick starts a run, a token first meets the debounce.
Select ==
  /\ loop = "select"
  /\ \/ tick /\ tick' = FALSE /\ loop' = "smembers" /\ UNCHANGED triggerCh
     \/ triggerCh /\ triggerCh' = FALSE /\ loop' = "debounce" /\ UNCHANGED tick
  /\ UNCHANGED <<message, out, recent, dirty, members, handler, asked, excused, faults>>

\* A trigger within the debounce window is dropped and leaves no trace.
Debounce ==
  /\ loop = "debounce"
  /\ \/ /\ recent
        /\ loop' = "select"
        /\ excused' = (excused \/ (asked /\ ~Queued))
     \/ /\ ~recent
        /\ loop' = "smembers" /\ UNCHANGED excused
  /\ UNCHANGED <<queues, recent, dirty, members, handler, asked, faults>>

\* DrainDirtyEngineers: SMEMBERS, then DEL unless it was empty; errors are
\* ignored.
SMembers ==
  /\ loop = "smembers"
  /\ \/ members' = dirty /\ loop' = (IF dirty = {} THEN "scan" ELSE "del") /\ NoFault
     \/ members' = {} /\ loop' = "scan" /\ Fault
  /\ UNCHANGED <<queues, recent, dirty, handler, asked, excused>>

Del ==
  /\ loop = "del"
  /\ loop' = "scan" /\ members' = {}
  /\ \/ dirty' = {} /\ NoFault
     \/ dirty' = dirty /\ Fault
  /\ UNCHANGED <<queues, recent, handler, asked, excused>>

\* fetchAndStore begins: what was asked for until now is answered.
Scan ==
  /\ loop = "scan"
  /\ loop' = "finish"
  /\ asked' = FALSE /\ excused' = FALSE
  /\ UNCHANGED <<queues, recent, dirty, members, handler, faults>>

\* The run ends and sets lastRunAt.
Finish ==
  /\ loop = "finish"
  /\ loop' = "select"
  /\ recent' = TRUE
  /\ UNCHANGED <<queues, dirty, members, handler, asked, excused, faults>>

\* A crash, or SIGTERM: the channels are gone; the dirty set is in Redis.  The
\* event in the handler's hand is delivered again.
WorkerCrash ==
  /\ Up
  /\ Fault
  /\ loop' = "down" /\ handler' = "idle" /\ members' = {} /\ recent' = FALSE
  /\ tick' = FALSE /\ triggerCh' = FALSE /\ message' = FALSE /\ out' = FALSE
  /\ excused' = asked
  /\ UNCHANGED <<dirty, asked>>

-----------------------------------------------------------------------------
Run == Startup \/ Select \/ Debounce \/ SMembers \/ Del \/ Scan \/ Finish

TriggersNext ==
  \/ \E u \in Login \cup {NoName} : HandleCommit(u)
  \/ HandlerTrigger \/ PublishCollectorTrigger \/ Forward \/ Relay
  \/ TickerTick \/ DebounceElapses \/ Run \/ WorkerCrash

\* Goroutines that can run do run, time passes, and the orchestrator restarts
\* the workers.  Nothing is assumed of the choice select makes.
TriggersFairness ==
  /\ WF_triggersVars(Run) /\ WF_triggersVars(HandlerTrigger) /\ WF_triggersVars(Forward) /\ WF_triggersVars(Relay)
  /\ WF_triggersVars(TickerTick) /\ WF_triggersVars(DebounceElapses)

TriggersSpec == TriggersInit /\ [][TriggersNext]_triggersVars /\ TriggersFairness

-----------------------------------------------------------------------------
(* Properties                                                              *)

\* Every variable has its type.
TriggersTypeOK ==
  /\ loop \in LoopState
  /\ {tick, triggerCh, recent, message, out, asked, excused} \subseteq BOOLEAN
  /\ dirty \subseteq Login /\ members \subseteq Login
  /\ handler \in {"idle", "trigger"}
  /\ faults \in 0..MaxFaults

Starting == loop \in {"debounce", "smembers", "del", "scan"}

\* No lost wake-up: although every send on the way gives up when the channel
\* is full, a request is queued somewhere or a scan that answers it is about
\* to begin, unless it was debounced or a fault lost it.
NoLostWakeup == asked /\ ~excused => Queued \/ Starting

\* Every request is answered by a scan that begins after it, also one that
\* was debounced, or dropped by Pub/Sub: "the collector's cron tick is the
\* safety net" (SubscribeCollectorTriggers).
AskedIsScanned == asked ~> ~asked
=============================================================================
