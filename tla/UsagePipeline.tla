---------------------------- MODULE UsagePipeline ----------------------------
(***************************************************************************)
(* The path of a usage event through the two binaries:                     *)
(*                                                                         *)
(*   OTLP data point -> RecordMetric / RecordLogEvent (sentinel-api)       *)
(*     -> Redis counters (record_event.lua, metrics only)                  *)
(*     -> Kafka (asynchronous producer)                                    *)
(*     -> the postgres-writer consumer group (sentinel-workers)            *)
(*     -> usage_events                                                     *)
(*                                                                         *)
(* together with RebuildCounters, which every API replica runs at startup  *)
(* before it serves, and which overwrites the Redis counters with sums     *)
(* over usage_events while the other replicas keep on ingesting.           *)
(*                                                                         *)
(* Several API replicas share Redis, Kafka and Postgres.  Every call that  *)
(* leaves the process is a step of its own.  The run of the model lies     *)
(* inside one UTC day: key expiry is the subject of BudgetCounters.        *)
(***************************************************************************)
EXTENDS Integers, Sequences

CONSTANTS
  Engineer,    \* identities found in OTLP attributes
  Known,       \* the engineers of the registry snapshot (reg.AllEmails)
  Replica,     \* sentinel-api processes
  Event,       \* data points and log records, each with its own uuid
  EngineerOf,  \* whose event it is
  SourceOf,    \* "otel_metric" or "otel_event"
  Carries,     \* the positive amounts it carries: "cost", "tokens"
  Occurs,      \* the current periods occurred_at lies in: "today", "month"
  Poison,      \* a record of the topic that does not unmarshal
  MaxFaults    \* bound: failures and crashes of one behaviour

ASSUME Constants ==
  /\ Known \subseteq Engineer
  /\ EngineerOf \in [Event -> Engineer]
  /\ SourceOf \in [Event -> {"otel_metric", "otel_event"}]
  /\ Carries \in [Event -> SUBSET {"cost", "tokens"}]
  /\ Occurs \in [Event -> SUBSET {"today", "month"}]
  /\ Poison \notin Event
  /\ MaxFaults \in Nat

VARIABLES
  \* sentinel-api
  apiPC,        \* where each replica is: down, rebuilding or serving
  todo,         \* the emails RebuildCounters has still to visit
  cur,          \* the email it is at
  rows,         \* what its last query read from usage_events
  call,         \* the call RecordMetric or RecordLogEvent makes next
  outbox,       \* the event in the producer's asynchronous writer
  host,         \* the replica that received the event
  \* Redis, Kafka, Postgres
  counter,      \* how often each event is summed in each of its counters
  topic,        \* the partition log
  committed,    \* the group's committed offset, NoOffset before the first
  usageEvents,  \* number of rows of usage_events with each event_id
  \* the postgres-writer consumer
  consumerPC,
  position,     \* number of records its reader has passed
  hand,         \* offset of the message in hand
  \* history
  redisFailed,  \* events whose WriteEventRedis failed
  retried,      \* events whose script the Redis client ran twice
  reset,        \* the <<engineer, counter>> overwritten or emptied
  failed,       \* offsets on which the handler returned an error
  jumped,       \* offsets below a start at LastOffset
  faults

apiVars      == <<apiPC, todo, cur, rows>>
ingestVars   == <<call, outbox, host>>
consumerVars == <<consumerPC, position, hand>>
ghosts       == <<redisFailed, retried, reset, failed, jumped>>
vars == <<apiVars, ingestVars, counter, topic, committed, usageEvents,
          consumerVars, ghosts, faults>>

NoOffset == -1
None == "none"
\* The locals of RebuildCounters before its first query.
NoRows == [e \in Event |-> 0]

Counter == {"cost:today", "cost:month", "tokens:today"}
Measure(c)  == IF c = "tokens:today" THEN "tokens" ELSE "cost"
PeriodOf(c) == IF c = "cost:month" THEN "month" ELSE "today"

\* The counters record_event.lua increments for an event (now decides the
\* period), and the ones whose SQL sum includes its row (occurred_at decides).
RecordedIn(e) == {c \in Counter : Measure(c) \in Carries[e]}
SummedIn(e)   == {c \in RecordedIn(e) : PeriodOf(c) \in Occurs[e]}

ApiState      == {"down", "query_today", "set_cost", "set_tokens", "query_month", "set_month", "serving"}
ConsumerState == {"down", "fetch", "handle", "commit"}
Call          == {"none", "record", "publish", "returned"}
OutboxState   == {"empty", "buffered", "delivered", "lost"}

Init ==
  /\ apiPC = [r \in Replica |-> "down"]
  /\ todo = [r \in Replica |-> {}]
  /\ cur = [r \in Replica |-> None]
  /\ rows = [r \in Replica |-> NoRows]
  /\ call = [e \in Event |-> "none"]
  /\ outbox = [e \in Event |-> "empty"]
  /\ host = [e \in Event |-> None]
  /\ counter = [c \in Counter |-> [e \in Event |-> 0]]
  /\ topic = <<>>
  /\ committed = NoOffset
  /\ usageEvents = [e \in Event |-> 0]
  /\ consumerPC = "down"
  /\ position = 0
  /\ hand = 0
  /\ redisFailed = {} /\ retried = {} /\ reset = {} /\ failed = {} /\ jumped = {}
  /\ faults = 0

Fault   == faults < MaxFaults /\ faults' = faults + 1
NoFault == faults' = faults

-----------------------------------------------------------------------------
(* sentinel-api: startup, RebuildCounters, shutdown                        *)

\* Startup: registry.Load has filled the snapshot, RebuildCounters begins.
ApiStart(r) ==
  /\ apiPC[r] = "down"
  /\ apiPC' = [apiPC EXCEPT ![r] = "query_today"]
  /\ todo' = [todo EXCEPT ![r] = Known]
  /\ NoFault
  /\ UNCHANGED <<cur, rows, ingestVars, counter, topic, committed, usageEvents,
                 consumerVars, ghosts>>

\* The first query of the loop body for some remaining email.  A failing
\* query is logged and the loop continues with the next email.
QueryToday(r) ==
  /\ apiPC[r] = "query_today"
  /\ \E id \in todo[r] :
       /\ todo' = [todo EXCEPT ![r] = @ \ {id}]
       /\ \/ /\ apiPC' = [apiPC EXCEPT ![r] = "set_cost"]
             /\ cur' = [cur EXCEPT ![r] = id]
             /\ rows' = [rows EXCEPT ![r] = usageEvents]
             /\ NoFault
          \/ Fault /\ UNCHANGED <<apiPC, cur, rows>>
  /\ UNCHANGED <<ingestVars, counter, topic, committed, usageEvents, consumerVars, ghosts>>

\* The value RebuildCounters stores in counter c of the email at hand.
Reseeded(r, c) ==
  [e \in Event |-> IF EngineerOf[e] # cur[r] THEN counter[c][e]
                   ELSE IF c \in SummedIn(e) THEN rows[r][e] ELSE 0]

\* A sum of zero is not written: the key keeps what it holds.
PositiveSum(r, c) ==
  \E e \in Event : EngineerOf[e] = cur[r] /\ c \in SummedIn(e) /\ rows[r][e] > 0

\* The SET of one counter; an error is logged.
SetCounter(r, c) ==
  \/ /\ PositiveSum(r, c)
     /\ counter' = [counter EXCEPT ![c] = Reseeded(r, c)]
     /\ reset' = reset \cup {<<cur[r], c>>}
     /\ NoFault
  \/ PositiveSum(r, c) /\ Fault /\ UNCHANGED <<counter, reset>>
  \/ ~PositiveSum(r, c) /\ NoFault /\ UNCHANGED <<counter, reset>>

\* cost:today, then tokens:today.
SetToday(r) ==
  /\ \/ /\ apiPC[r] = "set_cost" /\ SetCounter(r, "cost:today")
        /\ apiPC' = [apiPC EXCEPT ![r] = "set_tokens"]
     \/ /\ apiPC[r] = "set_tokens" /\ SetCounter(r, "tokens:today")
        /\ apiPC' = [apiPC EXCEPT ![r] = "query_month"]
  /\ UNCHANGED <<todo, cur, rows, ingestVars, topic, committed, usageEvents,
                 consumerVars, redisFailed, retried, failed, jumped>>

QueryMonth(r) ==
  /\ apiPC[r] = "query_month"
  /\ \/ /\ apiPC' = [apiPC EXCEPT ![r] = "set_month"]
        /\ rows' = [rows EXCEPT ![r] = usageEvents]
        /\ NoFault
     \/ apiPC' = [apiPC EXCEPT ![r] = "query_today"] /\ rows' = rows /\ Fault
  /\ UNCHANGED <<todo, cur, ingestVars, counter, topic, committed, usageEvents,
                 consumerVars, ghosts>>

SetMonth(r) ==
  /\ apiPC[r] = "set_month"
  /\ SetCounter(r, "cost:month")
  /\ apiPC' = [apiPC EXCEPT ![r] = "query_today"]
  /\ UNCHANGED <<todo, cur, rows, ingestVars, topic, committed, usageEvents,
                 consumerVars, redisFailed, retried, failed, jumped>>

\* RebuildCounters returned: the HTTP server starts.
Serve(r) ==
  /\ apiPC[r] = "query_today" /\ todo[r] = {}
  /\ apiPC' = [apiPC EXCEPT ![r] = "serving"]
  /\ cur' = [cur EXCEPT ![r] = None]
  /\ rows' = [rows EXCEPT ![r] = NoRows]
  /\ NoFault
  /\ UNCHANGED <<todo, ingestVars, counter, topic, committed, usageEvents,
                 consumerVars, ghosts>>

Running(e) == call[e] \in {"record", "publish"}
InFlight(r) == {e \in Event : host[e] = r /\ (Running(e) \/ outbox[e] = "buffered")}

\* SIGTERM: the server waits for its handlers and producer.Close flushes.
ApiShutdown(r) ==
  /\ apiPC[r] = "serving" /\ InFlight(r) = {}
  /\ apiPC' = [apiPC EXCEPT ![r] = "down"]
  /\ NoFault
  /\ UNCHANGED <<todo, cur, rows, ingestVars, counter, topic, committed, usageEvents,
                 consumerVars, ghosts>>

\* A crash, or the forced exit when the shutdown deadline passes: handlers
\* stop where they are and the producer's buffer is gone.
ApiCrash(r) ==
  /\ apiPC[r] # "down"
  /\ Fault
  /\ apiPC' = [apiPC EXCEPT ![r] = "down"]
  /\ todo' = [todo EXCEPT ![r] = {}]
  /\ cur' = [cur EXCEPT ![r] = None]
  /\ rows' = [rows EXCEPT ![r] = NoRows]
  /\ call' = [e \in Event |-> IF e \in InFlight(r) THEN "returned" ELSE call[e]]
  /\ outbox' = [e \in Event |-> IF e \in InFlight(r) THEN "lost" ELSE outbox[e]]
  /\ UNCHANGED <<host, counter, topic, committed, usageEvents,
                 consumerVars, ghosts>>

-----------------------------------------------------------------------------
(* sentinel-api: ingest                                                    *)

\* Mutant: publish, then write Redis.
NextCall_PublishFirst(e, c) ==
  CASE c = "none"    -> "publish"
    [] c = "publish" -> IF SourceOf[e] = "otel_metric" THEN "record" ELSE "returned"
    [] c = "record"  -> "returned"

\* The order of the calls: RecordMetric writes Redis, then publishes;
\* RecordLogEvent only publishes.
NextCall(e, c) ==
  CASE c = "none"    -> IF SourceOf[e] = "otel_metric" THEN "record" ELSE "publish"
    [] c = "record"  -> "publish"
    [] c = "publish" -> "returned"

Advance(e) == call' = [call EXCEPT ![e] = NextCall(e, @)]

\* lookupEngineer and the construction of the event with a fresh uuid;
\* an identity the registry does not know is dropped with a warning.
Attribute(e, r) ==
  /\ apiPC[r] = "serving"
  /\ call[e] = "none"
  /\ EngineerOf[e] \in Known
  /\ Advance(e)
  /\ host' = [host EXCEPT ![e] = r]
  /\ NoFault
  /\ UNCHANGED <<apiVars, outbox, counter, topic, committed, usageEvents, consumerVars, ghosts>>

\* record_event.lua run n times: INCRBY of every counter the event feeds.
RunScript(e, n) ==
  counter' = [c \in Counter |-> IF c \in RecordedIn(e)
                                THEN [counter[c] EXCEPT ![e] = @ + n] ELSE counter[c]]

\* WriteEventRedis.  The call may fail before the script runs, and go-redis
\* repeats a call whose reply timed out, so the script may run twice.
WriteEventRedis(e) ==
  /\ call[e] = "record"
  /\ Advance(e)
  /\ \/ RunScript(e, 1) /\ NoFault /\ UNCHANGED <<redisFailed, retried>>
     \/ /\ counter' = counter /\ Fault
        /\ redisFailed' = redisFailed \cup {e} /\ UNCHANGED retried
     \/ /\ RunScript(e, 2) /\ Fault
        /\ retried' = retried \cup {e} /\ UNCHANGED redisFailed
  /\ UNCHANGED <<apiVars, outbox, host, topic, committed, usageEvents, consumerVars,
                 reset, failed, jumped>>

\* Publish enqueues the event in the asynchronous writer or returns an error.
Publish(e) ==
  /\ call[e] = "publish"
  /\ Advance(e)
  /\ \/ outbox' = [outbox EXCEPT ![e] = "buffered"] /\ NoFault
     \/ outbox' = [outbox EXCEPT ![e] = "lost"] /\ Fault
  /\ UNCHANGED <<apiVars, host, counter, topic, committed, usageEvents, consumerVars, ghosts>>

\* Mutant: without acknowledgements, a lost batch counts as delivered.
Deliver_NoAcks(e) ==
  /\ outbox[e] = "buffered"
  /\ outbox' = [outbox EXCEPT ![e] = "delivered"]
  /\ \/ topic' = Append(topic, e) /\ NoFault
     \/ topic' = topic /\ Fault
  /\ UNCHANGED <<apiVars, call, host, counter, committed, usageEvents, consumerVars, ghosts>>

\* The writer sends a batch.  A batch whose acknowledgement is lost is sent
\* again; one that fails for good only reaches the Completion callback.
Deliver(e) ==
  /\ outbox[e] = "buffered"
  /\ \/ /\ outbox' = [outbox EXCEPT ![e] = "delivered"]
        /\ topic' = Append(topic, e) /\ NoFault
     \/ outbox' = outbox /\ topic' = Append(topic, e) /\ Fault
     \/ outbox' = [outbox EXCEPT ![e] = "lost"] /\ topic' = topic /\ Fault
  /\ UNCHANGED <<apiVars, call, host, counter, committed, usageEvents, consumerVars, ghosts>>

\* A record some other producer put on the topic.
ForeignRecord ==
  /\ Fault
  /\ topic' = Append(topic, Poison)
  /\ UNCHANGED <<apiVars, ingestVars, counter, committed, usageEvents, consumerVars, ghosts>>

\* Redis runs without persistence: its restart empties every counter.
RedisRestart ==
  /\ Fault
  /\ counter' = [c \in Counter |-> NoRows]
  /\ reset' = Engineer \X Counter
  /\ UNCHANGED <<apiVars, ingestVars, topic, committed, usageEvents, consumerVars,
                 redisFailed, retried, failed, jumped>>

-----------------------------------------------------------------------------
(* sentinel-workers: Consumer.Run with PersistService.HandleEvent          *)

\* Mutants: always LastOffset; the committed offset even when there is none.
StartPosition_Last == Len(topic)
StartPosition_Unchecked == committed

\* Where a reader that joins the group starts: behind the committed offset,
\* or at LastOffset when the group has none.
StartPosition == IF committed = NoOffset THEN Len(topic) ELSE committed

Join ==
  /\ position' = StartPosition
  /\ jumped' = IF committed = NoOffset THEN jumped \cup 1..Len(topic) ELSE jumped

WorkerStart ==
  /\ consumerPC = "down"
  /\ consumerPC' = "fetch"
  /\ Join
  /\ NoFault
  /\ UNCHANGED <<apiVars, ingestVars, counter, topic, committed, usageEvents, hand,
                 redisFailed, retried, reset, failed>>

\* A rebalance: the reader resumes from the committed offset; the loop keeps
\* the message it has in hand.
Rejoin ==
  /\ consumerPC # "down"
  /\ Fault
  /\ Join
  /\ UNCHANGED <<apiVars, ingestVars, counter, topic, committed, usageEvents,
                 consumerPC, hand, redisFailed, retried, reset, failed>>

\* A crash, or SIGTERM, which cancels the context at any point of the loop.
WorkerStop ==
  /\ consumerPC # "down"
  /\ Fault
  /\ consumerPC' = "down"
  /\ position' = 0 /\ hand' = 0
  /\ UNCHANGED <<apiVars, ingestVars, counter, topic, committed, usageEvents, ghosts>>

\* Mutant: ReadMessage, which commits what it returns.
FetchMessage_AutoCommit ==
  /\ consumerPC = "fetch"
  /\ position < Len(topic)
  /\ position' = position + 1
  /\ hand' = position + 1
  /\ committed' = position + 1
  /\ consumerPC' = "handle"
  /\ NoFault
  /\ UNCHANGED <<apiVars, ingestVars, counter, topic, usageEvents, ghosts>>

\* FetchMessage: the reader moves on, whatever was committed before.
FetchMessage ==
  /\ consumerPC = "fetch"
  /\ position < Len(topic)
  /\ position' = position + 1
  /\ hand' = position + 1
  /\ consumerPC' = "handle"
  /\ NoFault
  /\ UNCHANGED <<apiVars, ingestVars, counter, topic, committed, usageEvents, ghosts>>

\* A payload that does not unmarshal is committed without being handled.
SkipPoison ==
  /\ consumerPC = "handle"
  /\ topic[hand] = Poison
  /\ consumerPC' = "commit"
  /\ NoFault
  /\ UNCHANGED <<apiVars, ingestVars, counter, topic, committed, usageEvents,
                 position, hand, ghosts>>

\* Mutant: INSERT without the conflict clause.
WriteEventPG_Plain(e) == usageEvents' = [usageEvents EXCEPT ![e] = @ + 1]

\* INSERT ... ON CONFLICT (event_id) DO NOTHING.
WriteEventPG(e) == usageEvents' = [usageEvents EXCEPT ![e] = IF @ = 0 THEN 1 ELSE @]

HandleEvent ==
  /\ consumerPC = "handle"
  /\ topic[hand] \in Event
  /\ \/ /\ WriteEventPG(topic[hand])
        /\ consumerPC' = "commit"
        /\ NoFault /\ UNCHANGED <<hand, failed>>
     \/ /\ \/ WriteEventPG(topic[hand])      \* only the reply was lost
           \/ UNCHANGED usageEvents
        /\ consumerPC' = "fetch" /\ hand' = 0
        /\ Fault /\ failed' = failed \cup {hand}
  /\ UNCHANGED <<apiVars, ingestVars, counter, topic, committed, position,
                 redisFailed, retried, reset, jumped>>

CommitMessages ==
  /\ consumerPC = "commit"
  /\ consumerPC' = "fetch" /\ hand' = 0
  /\ \/ committed' = hand /\ NoFault
     \/ committed' = committed /\ Fault
  /\ UNCHANGED <<apiVars, ingestVars, counter, topic, usageEvents, position, ghosts>>

-----------------------------------------------------------------------------
Api(r) ==
  \/ ApiStart(r) \/ QueryToday(r) \/ SetToday(r) \/ QueryMonth(r) \/ SetMonth(r)
  \/ Serve(r) \/ ApiShutdown(r) \/ ApiCrash(r)

Ingest(e) ==
  \/ \E r \in Replica : Attribute(e, r)
  \/ WriteEventRedis(e) \/ Publish(e) \/ Deliver(e)

Consume == WorkerStart \/ FetchMessage \/ SkipPoison \/ HandleEvent \/ CommitMessages

Next ==
  \/ \E r \in Replica : Api(r)
  \/ \E e \in Event : Ingest(e)
  \/ Consume \/ Rejoin \/ WorkerStop \/ ForeignRecord \/ RedisRestart

Spec == Init /\ [][Next]_vars

\* Handlers run on, the writer's flusher runs every 50 ms, the orchestrator
\* restarts the workers, and their loop never stops by itself.
Fairness ==
  /\ \A e \in Event : WF_vars(WriteEventRedis(e) \/ Publish(e) \/ Deliver(e))
  /\ WF_vars(Consume)

FairSpec == Spec /\ Fairness

-----------------------------------------------------------------------------
(* Properties                                                              *)

\* Every variable has its type.
TypeOK ==
  /\ apiPC \in [Replica -> ApiState]
  /\ todo \in [Replica -> SUBSET Known]
  /\ cur \in [Replica -> Engineer \cup {None}]
  /\ rows \in [Replica -> [Event -> Nat]]
  /\ call \in [Event -> Call]
  /\ outbox \in [Event -> OutboxState]
  /\ host \in [Event -> Replica \cup {None}]
  /\ counter \in [Counter -> [Event -> Nat]]
  /\ topic \in Seq(Event \cup {Poison})
  /\ committed \in Nat \cup {NoOffset}
  /\ usageEvents \in [Event -> Nat]
  /\ consumerPC \in ConsumerState
  /\ position \in Nat
  /\ hand \in Nat
  /\ redisFailed \subseteq Event
  /\ retried \subseteq Event
  /\ reset \subseteq (Engineer \cup {None}) \X Counter
  /\ failed \subseteq Nat
  /\ jumped \subseteq Nat
  /\ faults \in 0..MaxFaults

\* usage_events holds at most one row per event_id, although a crash between
\* the insert and the commit, a lost acknowledgement of the producer or a
\* rebalance makes the consumer handle the event again (WriteEventPG).
AtMostOneRow == \A e \in Event : usageEvents[e] <= 1

\* No counter sums an event twice, unless the Redis client itself repeated
\* the script.  RebuildCounters may run on one replica while another ingests:
\* what it reads from Postgres has been through Redis and Kafka, so its SET
\* replaces an INCRBYFLOAT that is over and none for the same event follows.
NoDoubleCount ==
  \A e \in Event : e \in retried \/ \A c \in Counter : counter[c][e] <= 1

\* A metric any consumer can see is already in the counters the threshold
\* checker reads, unless its WriteEventRedis failed or a rebuild has replaced
\* the counter: RecordMetric writes Redis before it publishes.
VisibleIsCounted ==
  \A i \in 1..Len(topic) :
    LET e == topic[i]
    IN  (e # Poison /\ SourceOf[e] = "otel_metric") =>
          \/ e \in redisFailed
          \/ \A c \in RecordedIn(e) : counter[c][e] > 0 \/ <<EngineerOf[e], c>> \in reset

Persisted(i) == topic[i] = Poison \/ usageEvents[topic[i]] > 0
Handled(i)   == Persisted(i) \/ i \in failed \/ i \in jumped

\* Every record the committed offset has passed is in usage_events, was
\* unreadable, made the handler fail or lay below a start at LastOffset: a
\* crash anywhere in Consumer.Run loses no other event.
CommittedIsHandled == \A i \in 1..Len(topic) : i <= committed => Handled(i)

\* At any time an event whose handler has returned is accounted for: it is in
\* the producer's buffer or was lost there, or it has a place in the topic
\* that was handled or is still to be read.  No crash, resend, rebalance or
\* failed commit between RecordMetric and usage_events drops it unnoticed.
NothingLost ==
  \A e \in Event : call[e] = "returned" =>
    \/ outbox[e] \in {"buffered", "lost"}
    \/ \E i \in 1..Len(topic) : topic[i] = e /\ (Handled(i) \/ i > committed)

\* What the comments of consumer.go promise: a message whose handler returned
\* an error is redelivered, so no commit passes it before it is in Postgres.
FailedIsRedelivered ==
  \A i \in 1..Len(topic) : i <= committed => Persisted(i) \/ i \in jumped

\* What RebuildCounters' comment promises ("safe to call when Redis already
\* holds data"): an event recorded in Redis that occurred in the period stays
\* counted.
RebuildKeepsRecorded ==
  \A e \in Event :
    (outbox[e] \in {"buffered", "delivered"} /\ SourceOf[e] = "otel_metric" /\ e \notin redisFailed)
      => \A c \in SummedIn(e) : counter[c][e] > 0

\* Every attributed data point ends in usage_events, unless the producer lost
\* it, the handler failed on it or it lay below a start at LastOffset.
EventuallyPersisted ==
  \A e \in Event :
    call[e] # "none" ~>
      \/ usageEvents[e] > 0
      \/ outbox[e] = "lost"
      \/ \E i \in failed \cup jumped : i <= Len(topic) /\ topic[i] = e
=============================================================================
