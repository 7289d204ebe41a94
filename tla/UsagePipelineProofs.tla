------------------------- MODULE UsagePipelineProofs -------------------------
(***************************************************************************)
(* Proofs about UsagePipeline, for every set of events, engineers and      *)
(* replicas and every number of faults.                                    *)
(***************************************************************************)
EXTENDS UsagePipeline, TLAPS

\* The order of calls stays within Call.
LEMMA NextCallType ==
  ASSUME NEW e \in Event, NEW c \in {"none", "record", "publish"}
  PROVE  NextCall(e, c) \in {"record", "publish", "returned"}
BY Constants DEF NextCall

\* Appending a record to the topic keeps the earlier offsets.
LEMMA TopicAppend ==
  ASSUME NEW S, NEW t \in Seq(S), NEW m \in S
  PROVE  /\ Len(t) \in Nat
         /\ Append(t, m) \in Seq(S)
         /\ Len(Append(t, m)) = Len(t) + 1
         /\ \A i \in 1..Len(t) : Append(t, m)[i] = t[i]
         /\ Append(t, m)[Len(t) + 1] = m
OBVIOUS

\* A step keeps every variable in its type.
LEMMA TypeStep == TypeOK /\ [Next]_vars => TypeOK'
<1> SUFFICES ASSUME TypeOK, [Next]_vars PROVE TypeOK'
    OBVIOUS
<1> USE Constants DEF TypeOK, ApiState, ConsumerState, Call, OutboxState, NoOffset, Fault, NoFault,
        apiVars, ingestVars, consumerVars, ghosts
<1>1. ASSUME NEW r \in Replica, ApiStart(r) PROVE TypeOK'
      BY <1>1 DEF ApiStart
<1>2. ASSUME NEW r \in Replica, QueryToday(r) PROVE TypeOK'
  <2> PICK id \in todo[r] : QueryToday(r)!2!(id)
      BY <1>2 DEF QueryToday
  <2>1. id \in Engineer
        OBVIOUS
  <2>2. todo' \in [Replica -> SUBSET Known]
        OBVIOUS
  <2>3. CASE /\ apiPC' = [apiPC EXCEPT ![r] = "set_cost"]
             /\ cur' = [cur EXCEPT ![r] = id]
             /\ rows' = [rows EXCEPT ![r] = usageEvents]
             /\ NoFault
        BY <1>2, <2>1, <2>2, <2>3 DEF QueryToday
  <2>4. CASE Fault /\ UNCHANGED <<apiPC, cur, rows>>
        BY <1>2, <2>2, <2>4 DEF QueryToday
  <2> QED BY <2>3, <2>4
<1>3. ASSUME NEW r \in Replica, NEW d \in Counter, SetCounter(r, d)
      PROVE  /\ counter' \in [Counter -> [Event -> Nat]]
             /\ reset' \subseteq (Engineer \cup {None}) \X Counter
             /\ faults' \in 0..MaxFaults
  <2>1. Reseeded(r, d) \in [Event -> Nat]
        BY DEF Reseeded
  <2>2. counter' \in [Counter -> [Event -> Nat]]
        BY <1>3, <2>1 DEF SetCounter
  <2>3. <<cur[r], d>> \in (Engineer \cup {None}) \X Counter
        OBVIOUS
  <2>4. reset' \subseteq (Engineer \cup {None}) \X Counter
        BY <1>3, <2>3 DEF SetCounter
  <2>5. faults' \in 0..MaxFaults
        BY <1>3 DEF SetCounter
  <2> QED BY <2>2, <2>4, <2>5
<1>4. ASSUME NEW r \in Replica, SetToday(r) PROVE TypeOK'
  <2>1. "cost:today" \in Counter /\ "tokens:today" \in Counter
        BY DEF Counter
  <2>2. /\ counter' \in [Counter -> [Event -> Nat]]
        /\ reset' \subseteq (Engineer \cup {None}) \X Counter
        /\ faults' \in 0..MaxFaults
        BY <1>4, <1>3, <2>1 DEF SetToday
  <2>3. apiPC' \in [Replica -> ApiState]
        BY <1>4 DEF SetToday
  <2> QED BY <1>4, <2>2, <2>3 DEF SetToday
<1>5. ASSUME NEW r \in Replica, QueryMonth(r) PROVE TypeOK'
  <2>1. CASE /\ apiPC' = [apiPC EXCEPT ![r] = "set_month"]
             /\ rows' = [rows EXCEPT ![r] = usageEvents]
             /\ NoFault
        BY <1>5, <2>1 DEF QueryMonth
  <2>2. CASE apiPC' = [apiPC EXCEPT ![r] = "query_today"] /\ rows' = rows /\ Fault
        BY <1>5, <2>2 DEF QueryMonth
  <2> QED BY <1>5, <2>1, <2>2 DEF QueryMonth
<1>6. ASSUME NEW r \in Replica, SetMonth(r) PROVE TypeOK'
  <2>1. "cost:month" \in Counter
        BY DEF Counter
  <2> QED BY <1>6, <1>3, <2>1 DEF SetMonth
<1>7. ASSUME NEW r \in Replica, Serve(r) PROVE TypeOK'
      BY <1>7 DEF Serve, NoRows
<1>8. ASSUME NEW r \in Replica, ApiShutdown(r) PROVE TypeOK'
      BY <1>8 DEF ApiShutdown
<1>9. ASSUME NEW r \in Replica, ApiCrash(r) PROVE TypeOK'
      BY <1>9 DEF ApiCrash, NoRows
<1>10. ASSUME NEW e \in Event, NEW r \in Replica, Attribute(e, r) PROVE TypeOK'
       BY <1>10, NextCallType DEF Attribute, Advance
<1>11. ASSUME NEW e \in Event, WriteEventRedis(e) PROVE TypeOK'
  <2>1. call' \in [Event -> Call]
        BY <1>11, NextCallType DEF WriteEventRedis, Advance
  <2>2. \A n \in {1, 2} : RunScript(e, n) => counter' \in [Counter -> [Event -> Nat]]
        BY DEF RunScript
  <2> QED BY <1>11, <2>1, <2>2 DEF WriteEventRedis
<1>12. ASSUME NEW e \in Event, Publish(e) PROVE TypeOK'
  <2>1. call' \in [Event -> Call]
        BY <1>12, NextCallType DEF Publish, Advance
  <2>2. CASE outbox' = [outbox EXCEPT ![e] = "buffered"] /\ NoFault
        BY <1>12, <2>1, <2>2 DEF Publish
  <2>3. CASE outbox' = [outbox EXCEPT ![e] = "lost"] /\ Fault
        BY <1>12, <2>1, <2>3 DEF Publish
  <2> QED BY <1>12, <2>2, <2>3 DEF Publish
<1>13. ASSUME NEW e \in Event, Deliver(e) PROVE TypeOK'
  <2>1. Append(topic, e) \in Seq(Event \cup {Poison})
        BY TopicAppend
  <2>2. CASE /\ outbox' = [outbox EXCEPT ![e] = "delivered"]
             /\ topic' = Append(topic, e) /\ NoFault
        BY <1>13, <2>1, <2>2 DEF Deliver
  <2>3. CASE outbox' = outbox /\ topic' = Append(topic, e) /\ Fault
        BY <1>13, <2>1, <2>3 DEF Deliver
  <2>4. CASE outbox' = [outbox EXCEPT ![e] = "lost"] /\ topic' = topic /\ Fault
        BY <1>13, <2>4 DEF Deliver
  <2> QED BY <1>13, <2>2, <2>3, <2>4 DEF Deliver
<1>14. CASE ForeignRecord
  <2>1. topic' \in Seq(Event \cup {Poison})
        BY <1>14, TopicAppend DEF ForeignRecord
  <2> QED BY <1>14, <2>1 DEF ForeignRecord
<1>15. CASE RedisRestart
       BY <1>15 DEF RedisRestart, NoRows
<1>16. Join => position' \in Nat /\ jumped' \subseteq Nat
  <2>1. Len(topic) \in Nat
        OBVIOUS
  <2>2. StartPosition \in Nat
        BY <2>1 DEF StartPosition
  <2>3. 1..Len(topic) \subseteq Nat
        BY <2>1
  <2> QED BY <2>2, <2>3 DEF Join
<1>17. CASE WorkerStart
       BY <1>16, <1>17 DEF WorkerStart
<1>18. CASE Rejoin
       BY <1>16, <1>18 DEF Rejoin
<1>19. CASE WorkerStop
       BY <1>19 DEF WorkerStop
<1>20. CASE FetchMessage
       BY <1>20 DEF FetchMessage
<1>21. CASE SkipPoison
       BY <1>21 DEF SkipPoison
<1>22. CASE HandleEvent
  <2>1. WriteEventPG(topic[hand]) => usageEvents' \in [Event -> Nat]
        BY <1>22 DEF HandleEvent, WriteEventPG
  <2>2. CASE /\ WriteEventPG(topic[hand])
             /\ consumerPC' = "commit"
             /\ NoFault /\ UNCHANGED <<hand, failed>>
        BY <1>22, <2>1, <2>2 DEF HandleEvent
  <2>3. CASE /\ WriteEventPG(topic[hand]) \/ UNCHANGED usageEvents
             /\ consumerPC' = "fetch" /\ hand' = 0
             /\ Fault /\ failed' = failed \cup {hand}
    <3>1. usageEvents' \in [Event -> Nat]
          BY <2>1, <2>3
    <3> QED BY <1>22, <2>3, <3>1 DEF HandleEvent
  <2> QED BY <1>22, <2>2, <2>3 DEF HandleEvent
<1>23. CASE CommitMessages
       BY <1>23 DEF CommitMessages
<1>24. CASE UNCHANGED vars
       BY <1>24 DEF vars
<1> QED
    BY <1>1, <1>2, <1>4, <1>5, <1>6, <1>7, <1>8, <1>9, <1>10, <1>11, <1>12, <1>13, <1>14,
       <1>15, <1>17, <1>18, <1>19, <1>20, <1>21, <1>22, <1>23, <1>24
    DEF Next, Api, Ingest, Consume

\* Type correctness of the whole pipeline.
THEOREM TypeCorrect == Spec => []TypeOK
<1>1. Init => TypeOK
      BY Constants DEF Init, TypeOK, ApiState, ConsumerState, Call, OutboxState, NoOffset, NoRows
<1> QED
    BY <1>1, TypeStep, PTL DEF Spec

-----------------------------------------------------------------------------
(* Counting.  NoDoubleCount is not inductive: that a SET of RebuildCounters *)
(* cannot be followed by an INCRBY of an event it summed needs the order of *)
(* the calls.  OrderInv states it: what is in Kafka, in Postgres or in a    *)
(* rebuild's hands comes from a call that has returned, and what a counter  *)
(* holds from one that is past its Redis write.                             *)

\* An event beyond the producer comes from a call that has returned.
OutboxOrder == \A e \in Event : outbox[e] # "empty" => call[e] = "returned"
TopicOrder ==
  \A i \in 1..Len(topic) : topic[i] \in Event => call[topic[i]] = "returned"
TableOrder == \A e \in Event : usageEvents[e] > 0 => call[e] = "returned"
ReadOrder ==
  \A r \in Replica, e \in Event : rows[r][e] > 0 => call[e] = "returned"
CounterOrder ==
  \A c \in Counter, e \in Event : counter[c][e] > 0 => call[e] \in {"publish", "returned"}
OrderInv == OutboxOrder /\ TopicOrder /\ TableOrder /\ ReadOrder /\ CounterOrder

\* The message in hand is a record of the topic.
HandInv == consumerPC \in {"handle", "commit"} => hand \in 1..Len(topic)

\* What a rebuild read holds no event twice.
RowsInv == \A r \in Replica, e \in Event : rows[r][e] <= 1

CountInv == TypeOK /\ HandInv /\ OrderInv /\ AtMostOneRow /\ RowsInv /\ NoDoubleCount

\* A record of the topic stays where it is, and the offset in hand with it.
LEMMA HandStep == TypeOK /\ HandInv /\ [Next]_vars => HandInv'
<1> SUFFICES ASSUME TypeOK, HandInv, [Next]_vars PROVE HandInv'
    OBVIOUS
<1>0. Len(topic) \in Nat
      BY DEF TypeOK
<1>1. ASSUME UNCHANGED <<consumerPC, hand>>, topic' = topic \/ (\E m \in Event \cup {Poison} : topic' = Append(topic, m))
      PROVE  HandInv'
  <2>1. Len(topic') \in Nat /\ Len(topic') >= Len(topic)
        BY <1>0, <1>1, TopicAppend DEF TypeOK
  <2> QED BY <1>0, <1>1, <2>1 DEF HandInv, TypeOK
<1>2. ASSUME NEW r \in Replica, Api(r) PROVE HandInv'
      BY <1>1, <1>2 DEF Api, ApiStart, QueryToday, SetToday, QueryMonth, SetMonth, Serve,
         ApiShutdown, ApiCrash, consumerVars
<1>3. ASSUME NEW e \in Event, Ingest(e) PROVE HandInv'
  <2>1. UNCHANGED <<consumerPC, hand>>
        BY <1>3 DEF Ingest, Attribute, WriteEventRedis, Publish, Deliver, consumerVars
  <2>2. topic' = topic \/ topic' = Append(topic, e)
        BY <1>3 DEF Ingest, Attribute, WriteEventRedis, Publish, Deliver, consumerVars
  <2> QED BY <1>1, <2>1, <2>2
<1>4. CASE ForeignRecord \/ RedisRestart
      BY <1>1, <1>4 DEF ForeignRecord, RedisRestart, consumerVars
<1>5. CASE Consume
      BY <1>0, <1>5 DEF HandInv, Consume, WorkerStart, FetchMessage, SkipPoison, HandleEvent,
         CommitMessages, TypeOK
<1>6. CASE Rejoin
      BY <1>6, <1>1 DEF Rejoin
<1>7. CASE WorkerStop
      BY <1>7 DEF WorkerStop, HandInv
<1>8. CASE UNCHANGED vars
      BY <1>8, <1>1 DEF vars, consumerVars
<1> QED
    BY <1>2, <1>3, <1>4, <1>5, <1>6, <1>7, <1>8 DEF Next

\* A call moves only forward: past its Redis write it stays past it.
LEMMA CallStep ==
  ASSUME TypeOK, [Next]_vars, NEW e \in Event
  PROVE  /\ call[e] = "returned" => call'[e] = "returned"
         /\ call[e] = "publish" => call'[e] \in {"publish", "returned"}
<1>1. ASSUME NEW x \in Event, Ingest(x)
      PROVE  /\ call[e] = "returned" => call'[e] = "returned"
             /\ call[e] = "publish" => call'[e] \in {"publish", "returned"}
  <2>1. \/ /\ call' = [call EXCEPT ![x] = NextCall(x, call[x])]
           /\ call[x] \in {"none", "record", "publish"}
        \/ call' = call
        BY <1>1 DEF Ingest, Attribute, WriteEventRedis, Publish, Deliver, Advance
  <2>2. NextCall(x, "publish") = "returned"
        BY DEF NextCall
  <2> QED BY <2>1, <2>2 DEF TypeOK
<1>2. ASSUME NEW r \in Replica, Api(r)
      PROVE  call' = call \/ \A x \in Event : call'[x] \in {call[x], "returned"}
      BY <1>2 DEF Api, ApiStart, QueryToday, SetToday, QueryMonth, SetMonth, Serve, ApiShutdown,
         ApiCrash, ingestVars, TypeOK
<1>3. CASE Consume \/ Rejoin \/ WorkerStop \/ ForeignRecord \/ RedisRestart \/ UNCHANGED vars
  <2>1. call' = call
        BY <1>3 DEF Consume, WorkerStart, FetchMessage, SkipPoison, HandleEvent, CommitMessages,
           Rejoin, WorkerStop, ForeignRecord, RedisRestart, ingestVars, vars
  <2> QED BY <2>1
<1> QED BY <1>1, <1>2, <1>3 DEF Next

\* The order of the calls is kept by every step.
LEMMA OrderStep ==
  TypeOK /\ HandInv /\ OrderInv /\ [Next]_vars => OrderInv'
<1> SUFFICES ASSUME TypeOK, HandInv, OrderInv, [Next]_vars PROVE OrderInv'
    OBVIOUS
<1>t. TypeOK'
      BY TypeStep
<1>0. Len(topic) \in Nat
      BY DEF TypeOK
<1>c. \A e \in Event : /\ call[e] = "returned" => call'[e] = "returned"
                       /\ call[e] = "publish" => call'[e] \in {"publish", "returned"}
      BY CallStep
<1>1. OutboxOrder'
  <2> SUFFICES ASSUME NEW e \in Event, outbox'[e] # "empty" PROVE call'[e] = "returned"
      BY DEF OutboxOrder
  <2>1. CASE outbox[e] # "empty"
        BY <1>c, <2>1 DEF OrderInv, OutboxOrder, TypeOK
  <2>2. CASE outbox[e] = "empty"
    <3>1. CASE \E x \in Event : Publish(x)
      <4> PICK x \in Event : Publish(x)
          BY <3>1
      <4>1. x = e /\ call[x] = "publish" /\ call' = [call EXCEPT ![x] = NextCall(x, call[x])]
            BY <2>2 DEF Publish, Advance, TypeOK
      <4> QED BY <4>1 DEF NextCall, TypeOK
    <3>2. CASE \E r \in Replica : ApiCrash(r)
          BY <2>2, <3>2 DEF ApiCrash, TypeOK
    <3>3. CASE \E x \in Event : Deliver(x)
          BY <2>2, <3>3 DEF Deliver, TypeOK
    <3>4. CASE outbox' = outbox
          BY <2>2, <3>4
    <3> QED
        BY <3>1, <3>2, <3>3, <3>4
        DEF Next, Api, ApiStart, QueryToday, SetToday, QueryMonth, SetMonth, Serve, ApiShutdown,
            Ingest, Attribute, WriteEventRedis, Consume, WorkerStart, FetchMessage, SkipPoison,
            HandleEvent, CommitMessages, Rejoin, WorkerStop, ForeignRecord, RedisRestart,
            ingestVars, vars
  <2> QED BY <2>1, <2>2
<1>2. TopicOrder'
  <2>1. CASE topic' = topic
        BY <1>c, <2>1 DEF OrderInv, TopicOrder, TypeOK
  <2>2. ASSUME NEW m \in Event \cup {Poison}, topic' = Append(topic, m),
               m \in Event => call[m] = "returned"
        PROVE  TopicOrder'
    <3> SUFFICES ASSUME NEW i \in 1..Len(topic'), topic'[i] \in Event
                 PROVE  call'[topic'[i]] = "returned"
        BY DEF TopicOrder
    <3>1. /\ Len(topic') = Len(topic) + 1
          /\ \A j \in 1..Len(topic) : topic'[j] = topic[j]
          /\ topic'[Len(topic) + 1] = m
          BY <2>2, TopicAppend DEF TypeOK
    <3>2. CASE i \in 1..Len(topic)
          BY <1>c, <3>1, <3>2 DEF OrderInv, TopicOrder, TypeOK
    <3>3. CASE i = Len(topic) + 1
          BY <1>c, <2>2, <3>1, <3>3
    <3> QED BY <1>0, <3>1, <3>2, <3>3
  <2>3. ASSUME NEW e \in Event, Deliver(e)
        PROVE  topic' = topic \/ (topic' = Append(topic, e) /\ call[e] = "returned")
        BY <2>3 DEF Deliver, OrderInv, OutboxOrder
  <2>4. CASE ForeignRecord
        BY <2>2, <2>4, Constants DEF ForeignRecord
  <2>5. \/ topic' = topic \/ ForeignRecord
        \/ \E e \in Event : Deliver(e)
        BY DEF Next, Api, ApiStart, QueryToday, SetToday, QueryMonth, SetMonth, Serve, ApiShutdown,
            ApiCrash, Ingest, Attribute, WriteEventRedis, Publish, Consume, WorkerStart,
            FetchMessage, SkipPoison, HandleEvent, CommitMessages, Rejoin, WorkerStop,
            RedisRestart, vars
  <2> QED BY <2>1, <2>2, <2>3, <2>4, <2>5
<1>3. TableOrder'
  <2>1. CASE usageEvents' = usageEvents
        BY <1>c, <2>1 DEF OrderInv, TableOrder, TypeOK
  <2>2. CASE HandleEvent
    <3>1. topic[hand] \in Event /\ call[topic[hand]] = "returned"
          BY <2>2 DEF HandleEvent, HandInv, OrderInv, TopicOrder
    <3>2. \A e \in Event : e # topic[hand] => usageEvents'[e] = usageEvents[e]
          BY <2>2, <3>1 DEF HandleEvent, WriteEventPG, TypeOK
    <3> QED BY <1>c, <3>1, <3>2 DEF OrderInv, TableOrder, TypeOK
  <2>3. HandleEvent \/ usageEvents' = usageEvents
        BY DEF Next, Api, ApiStart, QueryToday, SetToday, QueryMonth, SetMonth, Serve, ApiShutdown,
            ApiCrash, Ingest, Attribute, WriteEventRedis, Publish, Deliver, Consume, WorkerStart,
            FetchMessage, SkipPoison, CommitMessages, Rejoin, WorkerStop, ForeignRecord,
            RedisRestart, vars
  <2> QED BY <2>1, <2>2, <2>3
<1>4. ReadOrder'
  <2> SUFFICES ASSUME NEW r \in Replica, NEW e \in Event, rows'[r][e] > 0
               PROVE  call'[e] = "returned"
      BY DEF ReadOrder
  <2>1. rows'[r][e] \in {rows[r][e], usageEvents[e], 0}
    <3>1. CASE rows' = rows
          BY <3>1
    <3>2. ASSUME NEW q \in Replica, Api(q)
          PROVE  rows' = rows \/ \E v \in {usageEvents, NoRows} : rows' = [rows EXCEPT ![q] = v]
          BY <3>2 DEF Api, ApiStart, QueryToday, SetToday, QueryMonth, SetMonth, Serve, ApiShutdown,
             ApiCrash, apiVars
    <3>3. rows' = rows \/ \E q \in Replica : Api(q)
          BY DEF Next, Ingest, Attribute, WriteEventRedis, Publish, Deliver, Consume, WorkerStart,
             FetchMessage, SkipPoison, HandleEvent, CommitMessages, Rejoin, WorkerStop,
             ForeignRecord, RedisRestart, apiVars, vars
    <3>4. ASSUME NEW q \in Replica, NEW v \in {usageEvents, NoRows}, rows' = [rows EXCEPT ![q] = v]
          PROVE  rows'[r][e] \in {rows[r][e], usageEvents[e], 0}
      <4>1. rows'[r] = IF r = q THEN v ELSE rows[r]
            BY <3>4 DEF TypeOK
      <4>2. v[e] \in {usageEvents[e], 0}
            BY DEF NoRows
      <4> QED BY <4>1, <4>2
    <3> QED BY <3>1, <3>2, <3>3, <3>4
  <2> QED BY <1>c, <2>1 DEF OrderInv, ReadOrder, TableOrder, TypeOK
<1>5. CounterOrder'
  <2> SUFFICES ASSUME NEW c \in Counter, NEW e \in Event, counter'[c][e] > 0
               PROVE  call'[e] \in {"publish", "returned"}
      BY DEF CounterOrder
  <2>1. ASSUME NEW r \in Replica, NEW d \in Counter, SetCounter(r, d)
        PROVE  counter'[c][e] \in {counter[c][e], rows[r][e], 0}
        BY <2>1 DEF SetCounter, Reseeded, TypeOK
  <2>2. ASSUME NEW r \in Replica, SetToday(r) \/ SetMonth(r)
        PROVE  call'[e] \in {"publish", "returned"}
    <3>1. counter'[c][e] \in {counter[c][e], rows[r][e], 0}
          BY <2>1, <2>2 DEF SetToday, SetMonth, Counter
    <3> QED BY <1>c, <3>1 DEF OrderInv, CounterOrder, ReadOrder, TypeOK
  <2>3. ASSUME NEW x \in Event, WriteEventRedis(x)
        PROVE  call'[e] \in {"publish", "returned"}
    <3>1. CASE x = e
      <4>1. call'[e] = NextCall(e, "record")
            BY <2>3, <3>1 DEF WriteEventRedis, Advance, TypeOK
      <4> QED BY <4>1 DEF NextCall
    <3>2. CASE x # e
      <4>1. \A n \in {1, 2} : RunScript(x, n) => counter'[c][e] = counter[c][e]
            BY <3>2 DEF RunScript, TypeOK
      <4>2. counter'[c][e] = counter[c][e]
            BY <2>3, <4>1 DEF WriteEventRedis
      <4> QED BY <1>c, <4>2 DEF OrderInv, CounterOrder, TypeOK
    <3> QED BY <3>1, <3>2
  <2>4. CASE RedisRestart
        BY <2>4 DEF RedisRestart, NoRows
  <2>5. CASE counter' = counter
        BY <1>c, <2>5 DEF OrderInv, CounterOrder, TypeOK
  <2> QED
      BY <2>2, <2>3, <2>4, <2>5
      DEF Next, Api, ApiStart, QueryToday, QueryMonth, Serve, ApiShutdown, ApiCrash, Ingest,
          Attribute, Publish, Deliver, Consume, WorkerStart, FetchMessage, SkipPoison,
          HandleEvent, CommitMessages, Rejoin, WorkerStop, ForeignRecord, vars
<1> QED BY <1>1, <1>2, <1>3, <1>4, <1>5 DEF OrderInv

\* Neither the table nor what a rebuild read from it holds an event twice.
LEMMA RowsStep == TypeOK /\ AtMostOneRow /\ RowsInv /\ [Next]_vars => AtMostOneRow' /\ RowsInv'
<1> SUFFICES ASSUME TypeOK, AtMostOneRow, RowsInv, [Next]_vars PROVE AtMostOneRow' /\ RowsInv'
    OBVIOUS
<1>1. AtMostOneRow'
  <2>1. CASE HandleEvent
    <3>1. topic[hand] \in Event
          BY <2>1 DEF HandleEvent
    <3>2. WriteEventPG(topic[hand]) => AtMostOneRow'
          BY <3>1 DEF WriteEventPG, AtMostOneRow, TypeOK
    <3> QED BY <2>1, <3>2 DEF HandleEvent, AtMostOneRow
  <2>2. CASE usageEvents' = usageEvents
        BY <2>2 DEF AtMostOneRow
  <2> QED
      BY <2>1, <2>2
      DEF Next, Api, ApiStart, QueryToday, SetToday, QueryMonth, SetMonth, Serve, ApiShutdown,
          ApiCrash, Ingest, Attribute, WriteEventRedis, Publish, Deliver, Consume, WorkerStart,
          FetchMessage, SkipPoison, CommitMessages, Rejoin, WorkerStop, ForeignRecord,
          RedisRestart, vars
<1>2. RowsInv'
  <2>1. ASSUME NEW q \in Replica, NEW v \in {usageEvents, NoRows}, rows' = [rows EXCEPT ![q] = v]
        PROVE  RowsInv'
    <3>1. \A r \in Replica : rows'[r] = IF r = q THEN v ELSE rows[r]
          BY <2>1 DEF TypeOK
    <3>2. \A e \in Event : v[e] <= 1
          BY DEF NoRows, AtMostOneRow
    <3> QED BY <3>1, <3>2 DEF RowsInv
  <2>2. CASE rows' = rows
        BY <2>2 DEF RowsInv
  <2>3. ASSUME NEW q \in Replica, Api(q)
        PROVE  rows' = rows \/ \E v \in {usageEvents, NoRows} : rows' = [rows EXCEPT ![q] = v]
        BY <2>3 DEF Api, ApiStart, QueryToday, SetToday, QueryMonth, SetMonth, Serve, ApiShutdown,
           ApiCrash, apiVars
  <2>4. rows' = rows \/ \E q \in Replica : Api(q)
        BY DEF Next, Ingest, Attribute, WriteEventRedis, Publish, Deliver, Consume, WorkerStart,
           FetchMessage, SkipPoison, HandleEvent, CommitMessages, Rejoin, WorkerStop,
           ForeignRecord, RedisRestart, apiVars, vars
  <2> QED BY <2>1, <2>2, <2>3, <2>4
<1> QED BY <1>1, <1>2

\* A counter takes an event up by INCRBY only while its call is at "record",
\* when no counter holds it yet, and by SET only from rows read.
LEMMA CountStep ==
  TypeOK /\ OrderInv /\ RowsInv /\ NoDoubleCount /\ [Next]_vars => NoDoubleCount'
<1> SUFFICES ASSUME TypeOK, OrderInv, RowsInv, NoDoubleCount, [Next]_vars,
                    NEW e \in Event, e \notin retried', NEW c \in Counter
             PROVE  counter'[c][e] <= 1
    BY DEF NoDoubleCount
<1>0. retried \subseteq retried'
      BY DEF Next, Api, ApiStart, QueryToday, SetToday, QueryMonth, SetMonth, Serve, ApiShutdown,
          ApiCrash, Ingest, Attribute, WriteEventRedis, Publish, Deliver, Consume, WorkerStart,
          FetchMessage, SkipPoison, HandleEvent, CommitMessages, Rejoin, WorkerStop, ForeignRecord,
          RedisRestart, ghosts, vars
<1>1. counter[c][e] <= 1
      BY <1>0 DEF NoDoubleCount
<1>2. ASSUME NEW r \in Replica, NEW d \in Counter, SetCounter(r, d)
      PROVE  counter'[c][e] <= 1
  <2>1. counter'[c][e] \in {counter[c][e], rows[r][e], 0}
        BY <1>2 DEF SetCounter, Reseeded, TypeOK
  <2> QED BY <1>1, <2>1 DEF RowsInv, TypeOK
<1>3. ASSUME NEW r \in Replica, SetToday(r) \/ SetMonth(r) PROVE counter'[c][e] <= 1
      BY <1>2, <1>3 DEF SetToday, SetMonth, Counter
<1>4. ASSUME NEW x \in Event, WriteEventRedis(x) PROVE counter'[c][e] <= 1
  <2>1. CASE x = e
    <3>1. counter[c][e] = 0
      <4>1. call[e] = "record"
            BY <1>4, <2>1 DEF WriteEventRedis
      <4>2. counter[c][e] \in Nat
            BY DEF TypeOK
      <4>3. ~(counter[c][e] > 0)
            BY <4>1 DEF OrderInv, CounterOrder
      <4> QED BY <4>2, <4>3
    <3>2. RunScript(x, 1) \/ counter' = counter
          BY <1>4, <2>1 DEF WriteEventRedis
    <3>3. RunScript(e, 1) => counter'[c][e] \in {counter[c][e], counter[c][e] + 1}
          BY DEF RunScript, TypeOK
    <3> QED BY <2>1, <3>1, <3>2, <3>3
  <2>2. CASE x # e
    <3>1. \A n \in {1, 2} : RunScript(x, n) => counter'[c][e] = counter[c][e]
          BY <2>2 DEF RunScript, TypeOK
    <3> QED BY <1>1, <1>4, <3>1 DEF WriteEventRedis
  <2> QED BY <2>1, <2>2
<1>5. CASE RedisRestart
      BY <1>5 DEF RedisRestart, NoRows
<1>6. CASE counter' = counter
      BY <1>1, <1>6
<1> QED
    BY <1>3, <1>4, <1>5, <1>6
    DEF Next, Api, ApiStart, QueryToday, QueryMonth, Serve, ApiShutdown, ApiCrash, Ingest,
        Attribute, Publish, Deliver, Consume, WorkerStart, FetchMessage, SkipPoison,
        HandleEvent, CommitMessages, Rejoin, WorkerStop, ForeignRecord, vars

\* The inductive invariant holds in every reachable state.
LEMMA Counting == Spec => []CountInv
<1>1. Init => CountInv
  <2> SUFFICES ASSUME Init PROVE CountInv
      OBVIOUS
  <2>1. TypeOK
        BY Constants DEF Init, TypeOK, ApiState, ConsumerState, Call, OutboxState, NoOffset, NoRows
  <2>2. HandInv /\ AtMostOneRow /\ RowsInv /\ NoDoubleCount
        BY DEF Init, HandInv, AtMostOneRow, RowsInv, NoDoubleCount, NoRows
  <2>3. OrderInv
        BY DEF Init, OrderInv, OutboxOrder, TopicOrder, TableOrder, ReadOrder, CounterOrder, NoRows
  <2> QED BY <2>1, <2>2, <2>3 DEF CountInv
<1>2. CountInv /\ [Next]_vars => CountInv'
      BY TypeStep, HandStep, OrderStep, RowsStep, CountStep DEF CountInv
<1> QED BY <1>1, <1>2, PTL DEF Spec

\* usage_events never holds two rows of one event, whatever is redelivered.
THEOREM NoDuplicateRows == Spec => []AtMostOneRow
BY Counting, PTL DEF CountInv

\* No counter sums an event twice, with any number of replicas rebuilding and
\* ingesting at once.
THEOREM CountedOnce == Spec => []NoDoubleCount
BY Counting, PTL DEF CountInv

-----------------------------------------------------------------------------
(* Visibility.  VisibleIsCounted is made inductive by following an event    *)
(* from the end of its Redis write to the topic.                            *)

\* The event is in its counters, or the history says why not.
Counted(e) ==
  \/ e \in redisFailed
  \/ \A c \in RecordedIn(e) : counter[c][e] > 0 \/ <<EngineerOf[e], c>> \in reset

\* A metric past its Redis write, on its way to the topic or in it, is counted.
OnItsWay(e) == call[e] = "publish" \/ outbox[e] \in {"buffered", "delivered"}
WayInv == \A e \in Event : SourceOf[e] = "otel_metric" /\ OnItsWay(e) => Counted(e)
LogInv ==
  \A i \in 1..Len(topic), e \in Event :
    topic[i] = e /\ SourceOf[e] = "otel_metric" => Counted(e)

\* A counted event stays counted, or its counter is recorded as reset.
LEMMA CountedStep ==
  ASSUME TypeOK, [Next]_vars, NEW e \in Event, Counted(e)
  PROVE  Counted(e)'
<1>1. redisFailed \subseteq redisFailed' /\ (reset \subseteq reset' \/ RedisRestart)
  <2>1. ASSUME NEW r \in Replica, SetToday(r) \/ SetMonth(r)
        PROVE  redisFailed' = redisFailed /\ reset \subseteq reset'
        BY <2>1 DEF SetToday, SetMonth, SetCounter
  <2>2. ASSUME NEW x \in Event, WriteEventRedis(x)
        PROVE  redisFailed \subseteq redisFailed' /\ reset' = reset
        BY <2>2 DEF WriteEventRedis
  <2>3. CASE RedisRestart
        BY <2>3 DEF RedisRestart
  <2>4. CASE UNCHANGED <<redisFailed, reset>>
        BY <2>4
  <2> QED
      BY <2>1, <2>2, <2>3, <2>4
      DEF Next, Api, ApiStart, QueryToday, QueryMonth, Serve, ApiShutdown, ApiCrash, Ingest,
          Attribute, Publish, Deliver, Consume, WorkerStart, FetchMessage, SkipPoison,
          HandleEvent, CommitMessages, Rejoin, WorkerStop, ForeignRecord, ghosts, vars
<1>2. CASE e \in redisFailed
      BY <1>1, <1>2 DEF Counted
<1>3. CASE e \notin redisFailed
  <2> SUFFICES ASSUME NEW c \in RecordedIn(e)
               PROVE  counter'[c][e] > 0 \/ <<EngineerOf[e], c>> \in reset'
      BY DEF Counted
  <2>1. c \in Counter /\ counter[c][e] \in Nat /\ EngineerOf[e] \in Engineer
        BY Constants DEF RecordedIn, TypeOK
  <2>2. counter[c][e] > 0 \/ <<EngineerOf[e], c>> \in reset
        BY <1>3 DEF Counted
  <2>3. CASE RedisRestart
        BY <2>1, <2>3 DEF RedisRestart
  <2>4. CASE ~RedisRestart /\ <<EngineerOf[e], c>> \in reset
        BY <1>1, <2>4
  <2>5. CASE ~RedisRestart /\ counter[c][e] > 0
    <3>1. ASSUME NEW r \in Replica, NEW d \in Counter, SetCounter(r, d)
          PROVE  counter'[c][e] > 0 \/ <<EngineerOf[e], c>> \in reset'
      <4>1. CASE c = d /\ PositiveSum(r, c) /\ EngineerOf[e] = cur[r]
            BY <2>5, <3>1, <4>1 DEF SetCounter
      <4>2. CASE ~(c = d /\ PositiveSum(r, c)) \/ EngineerOf[e] # cur[r]
            BY <2>1, <2>5, <3>1, <4>2 DEF SetCounter, Reseeded, TypeOK
      <4> QED BY <4>1, <4>2
    <3>2. ASSUME NEW r \in Replica, SetToday(r) \/ SetMonth(r)
          PROVE  counter'[c][e] > 0 \/ <<EngineerOf[e], c>> \in reset'
          BY <3>1, <3>2 DEF SetToday, SetMonth, Counter
    <3>3. ASSUME NEW x \in Event, WriteEventRedis(x) PROVE counter'[c][e] > 0
      <4>1. \A n \in {1, 2} : RunScript(x, n) =>
                counter'[c][e] \in {counter[c][e], counter[c][e] + n}
            BY <2>1 DEF RunScript, TypeOK
      <4>2. \A n \in {1, 2} : RunScript(x, n) => counter'[c][e] > 0
            BY <2>1, <2>5, <4>1
      <4> QED BY <2>5, <3>3, <4>2 DEF WriteEventRedis
    <3>4. CASE counter' = counter
          BY <2>5, <3>4
    <3> QED
        BY <2>5, <3>2, <3>3, <3>4
        DEF Next, Api, ApiStart, QueryToday, QueryMonth, Serve, ApiShutdown, ApiCrash, Ingest,
            Attribute, Publish, Deliver, Consume, WorkerStart, FetchMessage, SkipPoison,
            HandleEvent, CommitMessages, Rejoin, WorkerStop, ForeignRecord, vars
  <2> QED BY <2>2, <2>3, <2>4, <2>5
<1> QED BY <1>2, <1>3

\* An event starts on its way only at the end of its Redis write.
LEMMA WayStep == TypeOK /\ WayInv /\ [Next]_vars => WayInv'
<1> SUFFICES ASSUME TypeOK, WayInv, [Next]_vars, NEW e \in Event,
                    SourceOf[e] = "otel_metric", OnItsWay(e)'
             PROVE  Counted(e)'
    BY DEF WayInv
<1>1. CASE OnItsWay(e)
      BY <1>1, CountedStep DEF WayInv
<1>2. CASE ~OnItsWay(e)
  <2>1. ASSUME NEW x \in Event, WriteEventRedis(x) PROVE Counted(e)'
    <3>1. x = e
          BY <1>2, <2>1 DEF OnItsWay, WriteEventRedis, Advance, TypeOK
    <3>2. \A n \in {1, 2} : RunScript(e, n) => \A c \in RecordedIn(e) : counter'[c][e] > 0
      <4> SUFFICES ASSUME NEW n \in {1, 2}, RunScript(e, n), NEW c \in RecordedIn(e)
                   PROVE  counter'[c][e] > 0
          OBVIOUS
      <4>1. c \in Counter /\ counter[c][e] \in Nat
            BY DEF RecordedIn, TypeOK
      <4>2. counter'[c][e] = counter[c][e] + n
            BY <4>1 DEF RunScript, TypeOK
      <4> QED BY <4>1, <4>2
    <3> QED BY <2>1, <3>1, <3>2 DEF WriteEventRedis, Counted
  <2>2. ASSUME NEW x \in Event, NEW r \in Replica, Attribute(x, r) PROVE FALSE
    <3>1. call' = [call EXCEPT ![x] = NextCall(x, "none")] /\ outbox' = outbox
          BY <2>2 DEF Attribute, Advance
    <3>2. x = e
          BY <1>2, <3>1 DEF OnItsWay, TypeOK
    <3>3. NextCall(e, "none") = "record"
          BY DEF NextCall
    <3> QED BY <1>2, <3>1, <3>2, <3>3 DEF OnItsWay, TypeOK
  <2>3. ASSUME NEW x \in Event, Publish(x) PROVE FALSE
    <3>1. NextCall(x, "publish") = "returned"
          BY DEF NextCall
    <3> QED BY <1>2, <2>3, <3>1 DEF OnItsWay, Publish, Advance, TypeOK
  <2>4. ASSUME NEW x \in Event, Deliver(x) PROVE FALSE
        BY <1>2, <2>4 DEF OnItsWay, Deliver, TypeOK
  <2>5. ASSUME NEW r \in Replica, ApiCrash(r) PROVE FALSE
        BY <1>2, <2>5 DEF OnItsWay, ApiCrash, TypeOK
  <2>6. CASE UNCHANGED <<call, outbox>>
        BY <1>2, <2>6 DEF OnItsWay
  <2> QED
      BY <2>1, <2>2, <2>3, <2>4, <2>5, <2>6
      DEF Next, Api, ApiStart, QueryToday, SetToday, QueryMonth, SetMonth, Serve, ApiShutdown,
          Ingest, Consume, WorkerStart, FetchMessage, SkipPoison, HandleEvent, CommitMessages,
          Rejoin, WorkerStop, ForeignRecord, RedisRestart, ingestVars, vars
<1> QED BY <1>1, <1>2

\* What an action does to the topic: nothing, or one record at its end.
LEMMA TopicStep ==
  ASSUME TypeOK, [Next]_vars
  PROVE  \/ topic' = topic
         \/ topic' = Append(topic, Poison)
         \/ \E e \in Event : topic' = Append(topic, e) /\ outbox[e] = "buffered"
BY DEF Next, Api, ApiStart, QueryToday, SetToday, QueryMonth, SetMonth, Serve, ApiShutdown,
       ApiCrash, Ingest, Attribute, WriteEventRedis, Publish, Deliver, Consume, WorkerStart,
       FetchMessage, SkipPoison, HandleEvent, CommitMessages, Rejoin, WorkerStop, ForeignRecord,
       RedisRestart, vars

\* A record enters the topic from the writer's buffer.
LEMMA LogStep == TypeOK /\ WayInv /\ LogInv /\ [Next]_vars => LogInv'
<1> SUFFICES ASSUME TypeOK, WayInv, LogInv, [Next]_vars,
                    NEW i \in 1..Len(topic'), NEW e \in Event, topic'[i] = e,
                    SourceOf[e] = "otel_metric"
             PROVE  Counted(e)'
    BY DEF LogInv
<1> SUFFICES Counted(e)
    BY CountedStep
<1>0. Len(topic) \in Nat
      BY DEF TypeOK
<1>1. ASSUME i \in 1..Len(topic), topic'[i] = topic[i] PROVE Counted(e)
      BY <1>1 DEF LogInv
<1>2. CASE topic' = topic
      BY <1>1, <1>2
<1>3. ASSUME NEW m \in Event \cup {Poison}, topic' = Append(topic, m), m = e => Counted(e)
      PROVE  Counted(e)
  <2>1. /\ Len(topic') = Len(topic) + 1
        /\ \A j \in 1..Len(topic) : topic'[j] = topic[j]
        /\ topic'[Len(topic) + 1] = m
        BY <1>3, TopicAppend DEF TypeOK
  <2>2. CASE i \in 1..Len(topic)
        BY <1>1, <2>1, <2>2
  <2>3. CASE i = Len(topic) + 1
        BY <1>3, <2>1, <2>3
  <2> QED BY <1>0, <2>1, <2>2, <2>3
<1>4. CASE topic' = Append(topic, Poison)
      BY <1>3, <1>4, Constants
<1>5. ASSUME NEW x \in Event, topic' = Append(topic, x), outbox[x] = "buffered"
      PROVE  Counted(e)
      BY <1>3, <1>5 DEF WayInv, OnItsWay
<1> QED BY <1>2, <1>4, <1>5, TopicStep

\* A metric in the topic is in the counters the threshold checker reads, for
\* any number of replicas and faults.
THEOREM VisibleCounted == Spec => []VisibleIsCounted
<1>1. Init => TypeOK /\ WayInv /\ LogInv
      BY Constants DEF Init, TypeOK, ApiState, ConsumerState, Call, OutboxState, NoOffset, NoRows,
         WayInv, OnItsWay, LogInv
<1>2. TypeOK /\ WayInv /\ LogInv /\ [Next]_vars => (TypeOK /\ WayInv /\ LogInv)'
      BY TypeStep, WayStep, LogStep
<1>3. TypeOK /\ LogInv => VisibleIsCounted
  <2> SUFFICES ASSUME TypeOK, LogInv, NEW i \in 1..Len(topic), topic[i] # Poison,
                      SourceOf[topic[i]] = "otel_metric"
               PROVE  Counted(topic[i])
      BY DEF VisibleIsCounted, Counted
  <2>1. topic[i] \in Event
        BY DEF TypeOK
  <2> QED BY <2>1 DEF LogInv
<1> QED BY <1>1, <1>2, <1>3, PTL DEF Spec

-----------------------------------------------------------------------------
(* Consumption.  CommittedIsHandled is made inductive by the same statement *)
(* about the records the reader has passed and the message in hand: a       *)
(* commit of the message in hand passes everything before it.               *)

PassedInv ==
  \A i \in 1..Len(topic) :
    /\ i <= position => Handled(i) \/ (consumerPC = "handle" /\ i = hand)
    /\ consumerPC \in {"handle", "commit"} /\ i < hand => Handled(i)
    /\ consumerPC = "commit" /\ i = hand => Handled(i)
BoundInv == position <= Len(topic) /\ committed <= Len(topic)
ConsumeInv == TypeOK /\ HandInv /\ BoundInv /\ PassedInv /\ CommittedIsHandled

\* A record that is handled stays handled.
LEMMA HandledStep ==
  ASSUME TypeOK, [Next]_vars, NEW i \in 1..Len(topic)
  PROVE  /\ Len(topic) \in Nat /\ Len(topic') \in Nat /\ Len(topic) <= Len(topic')
         /\ i \in 1..Len(topic') /\ topic'[i] = topic[i]
         /\ Handled(i) => Handled(i)'
<1>0. Len(topic) \in Nat /\ topic[i] \in Event \cup {Poison}
      BY DEF TypeOK
<1>1. /\ Len(topic') \in Nat /\ Len(topic) <= Len(topic')
      /\ topic'[i] = topic[i]
  <2>1. CASE topic' = topic
        BY <1>0, <2>1
  <2>2. ASSUME NEW m \in Event \cup {Poison}, topic' = Append(topic, m)
        PROVE  /\ Len(topic') \in Nat /\ Len(topic) <= Len(topic')
               /\ topic'[i] = topic[i]
        BY <1>0, <2>2, TopicAppend DEF TypeOK
  <2> QED BY <2>1, <2>2, TopicStep
<1>2. failed \subseteq failed' /\ jumped \subseteq jumped'
      BY DEF Next, Api, ApiStart, QueryToday, SetToday, QueryMonth, SetMonth, Serve, ApiShutdown,
         ApiCrash, Ingest, Attribute, WriteEventRedis, Publish, Deliver, Consume, WorkerStart, Join,
         FetchMessage, SkipPoison, HandleEvent, CommitMessages, Rejoin, WorkerStop, ForeignRecord,
         RedisRestart, ghosts, vars
<1>3. \A e \in Event : usageEvents[e] > 0 => usageEvents'[e] > 0
  <2>1. CASE usageEvents' = usageEvents
        BY <2>1
  <2>2. CASE HandleEvent
    <3>1. WriteEventPG(topic[hand]) => \A e \in Event : usageEvents[e] > 0 => usageEvents'[e] > 0
          BY DEF WriteEventPG, TypeOK
    <3> QED BY <2>2, <3>1 DEF HandleEvent
  <2> QED
      BY <2>1, <2>2
      DEF Next, Api, ApiStart, QueryToday, SetToday, QueryMonth, SetMonth, Serve, ApiShutdown,
          ApiCrash, Ingest, Attribute, WriteEventRedis, Publish, Deliver, Consume, WorkerStart,
          FetchMessage, SkipPoison, CommitMessages, Rejoin, WorkerStop, ForeignRecord,
          RedisRestart, vars
<1> QED BY <1>0, <1>1, <1>2, <1>3 DEF Handled, Persisted

\* One step of the consumer, or of anything else, keeps ConsumeInv.
LEMMA ConsumeStep == ConsumeInv /\ [Next]_vars => ConsumeInv'
<1> SUFFICES ASSUME ConsumeInv, [Next]_vars PROVE BoundInv' /\ PassedInv' /\ CommittedIsHandled'
    BY TypeStep, HandStep DEF ConsumeInv
<1>t. TypeOK /\ HandInv /\ BoundInv /\ PassedInv /\ CommittedIsHandled
      BY DEF ConsumeInv
<1>n. /\ Len(topic) \in Nat /\ position \in Nat /\ hand \in Nat
      /\ committed \in Int
      BY <1>t DEF TypeOK, NoOffset
<1>l. Len(topic') \in Nat /\ Len(topic) <= Len(topic')
  <2>1. CASE topic' = topic
        BY <1>n, <2>1
  <2>2. ASSUME NEW m \in Event \cup {Poison}, topic' = Append(topic, m)
        PROVE  Len(topic') \in Nat /\ Len(topic) <= Len(topic')
        BY <1>t, <1>n, <2>2, TopicAppend DEF TypeOK
  <2> QED BY <1>t, <2>1, <2>2, TopicStep
<1>h. \A i \in 1..Len(topic) : i \in 1..Len(topic') /\ (Handled(i) => Handled(i)')
      BY <1>t, HandledStep
<1>1. ASSUME UNCHANGED <<consumerPC, position, hand, committed>>
      PROVE  BoundInv' /\ PassedInv' /\ CommittedIsHandled'
  <2>1. BoundInv'
        BY <1>t, <1>n, <1>l, <1>1 DEF BoundInv
  <2>2. ASSUME NEW i \in 1..Len(topic')
        PROVE  \/ i \in 1..Len(topic)
               \/ /\ ~(i <= position) /\ ~(i <= committed)
                  /\ consumerPC \in {"handle", "commit"} => ~(i <= hand)
        BY <1>t, <1>n, <1>l, <2>2 DEF BoundInv, HandInv
  <2>3. PassedInv'
    <3> SUFFICES ASSUME NEW i \in 1..Len(topic')
                 PROVE  /\ i <= position => Handled(i)' \/ (consumerPC = "handle" /\ i = hand)
                        /\ consumerPC \in {"handle", "commit"} /\ i < hand => Handled(i)'
                        /\ consumerPC = "commit" /\ i = hand => Handled(i)'
        BY <1>1 DEF PassedInv
    <3>1. CASE i \in 1..Len(topic)
          BY <1>t, <1>h, <3>1 DEF PassedInv
    <3>2. CASE i \notin 1..Len(topic)
          BY <1>n, <1>l, <2>2, <3>2
    <3> QED BY <3>1, <3>2
  <2>4. CommittedIsHandled'
    <3> SUFFICES ASSUME NEW i \in 1..Len(topic'), i <= committed PROVE Handled(i)'
        BY <1>1 DEF CommittedIsHandled
    <3> QED BY <1>t, <1>h, <2>2 DEF CommittedIsHandled
  <2> QED BY <2>1, <2>3, <2>4
<1>2. ASSUME NEW r \in Replica, Api(r) PROVE UNCHANGED <<consumerPC, position, hand, committed>>
      BY <1>2 DEF Api, ApiStart, QueryToday, SetToday, QueryMonth, SetMonth, Serve,
         ApiShutdown, ApiCrash, consumerVars
<1>3. ASSUME NEW e \in Event, Ingest(e) PROVE UNCHANGED <<consumerPC, position, hand, committed>>
      BY <1>3 DEF Ingest, Attribute, WriteEventRedis, Publish, Deliver, consumerVars
<1>4. CASE ForeignRecord \/ RedisRestart \/ UNCHANGED vars
  <2>1. UNCHANGED <<consumerPC, position, hand, committed>>
        BY <1>4 DEF ForeignRecord, RedisRestart, vars, consumerVars
  <2> QED BY <1>1, <2>1
<1>5. ASSUME topic' = topic, committed' = committed,
             Join \/ (consumerPC' = "down" /\ position' = 0),
             UNCHANGED <<consumerPC, hand>> \/ consumerPC' \in {"fetch", "down"}
      PROVE  BoundInv' /\ PassedInv' /\ CommittedIsHandled'
  <2>1. BoundInv'
        BY <1>t, <1>n, <1>5 DEF BoundInv, Join, StartPosition
  <2>2. CommittedIsHandled'
        BY <1>t, <1>h, <1>5 DEF CommittedIsHandled
  <2>3. ASSUME NEW i \in 1..Len(topic), i <= position' PROVE Handled(i)'
    <3>1. CASE Join /\ committed = NoOffset
          BY <1>5, <2>3, <3>1 DEF Join, Handled
    <3>2. CASE Join /\ committed # NoOffset
          BY <1>t, <1>h, <2>3, <3>2 DEF Join, StartPosition, CommittedIsHandled
    <3>3. CASE position' = 0
          BY <1>n, <2>3, <3>3
    <3> QED BY <1>5, <3>1, <3>2, <3>3
  <2>4. PassedInv'
    <3> SUFFICES ASSUME NEW i \in 1..Len(topic)
                 PROVE  /\ i <= position' => Handled(i)'
                        /\ consumerPC' \in {"handle", "commit"} /\ i < hand' => Handled(i)'
                        /\ consumerPC' = "commit" /\ i = hand' => Handled(i)'
        BY <1>5 DEF PassedInv
    <3> QED BY <1>t, <1>h, <1>5, <2>3 DEF PassedInv
  <2> QED BY <2>1, <2>2, <2>4
<1>6. CASE WorkerStart \/ Rejoin \/ WorkerStop
      BY <1>5, <1>6 DEF WorkerStart, Rejoin, WorkerStop
<1>7. CASE FetchMessage
  <2>1. /\ topic' = topic /\ committed' = committed /\ position' = position + 1
        /\ hand' = position + 1 /\ consumerPC = "fetch" /\ consumerPC' = "handle"
        /\ position < Len(topic)
        BY <1>7 DEF FetchMessage
  <2>2. BoundInv'
        BY <1>t, <1>n, <2>1 DEF BoundInv
  <2>3. CommittedIsHandled'
        BY <1>t, <1>h, <2>1 DEF CommittedIsHandled
  <2>4. PassedInv'
    <3> SUFFICES ASSUME NEW i \in 1..Len(topic)
                 PROVE  i <= position => Handled(i)'
        BY <1>n, <2>1 DEF PassedInv
    <3> QED BY <1>t, <1>h, <2>1 DEF PassedInv
  <2> QED BY <2>2, <2>3, <2>4
<1>8. CASE SkipPoison \/ HandleEvent
  <2>1. /\ topic' = topic /\ committed' = committed /\ position' = position
        /\ consumerPC = "handle"
        /\ (consumerPC' = "commit" /\ hand' = hand) \/ consumerPC' = "fetch"
        BY <1>8 DEF SkipPoison, HandleEvent
  <2>2. hand \in 1..Len(topic)
        BY <1>t, <2>1 DEF HandInv
  <2>3. \A i \in 1..Len(topic) : i = hand => Handled(i)'
    <3>1. CASE SkipPoison
          BY <2>1, <3>1 DEF SkipPoison, Handled, Persisted
    <3>2. CASE HandleEvent
      <4>1. topic[hand] \in Event
            BY <3>2 DEF HandleEvent
      <4>2. WriteEventPG(topic[hand]) => usageEvents'[topic[hand]] > 0
            BY <1>t, <4>1 DEF WriteEventPG, TypeOK
      <4>3. \/ WriteEventPG(topic[hand])
            \/ failed' = failed \cup {hand}
            BY <3>2 DEF HandleEvent
      <4> QED BY <2>1, <4>1, <4>2, <4>3 DEF Handled, Persisted
    <3> QED BY <1>8, <3>1, <3>2
  <2>4. BoundInv'
        BY <1>t, <2>1 DEF BoundInv
  <2>5. CommittedIsHandled'
        BY <1>t, <1>h, <2>1 DEF CommittedIsHandled
  <2>6. PassedInv'
    <3> SUFFICES ASSUME NEW i \in 1..Len(topic)
                 PROVE  /\ i <= position => Handled(i)'
                        /\ i < hand => Handled(i)'
                        /\ i = hand => Handled(i)'
        BY <2>1 DEF PassedInv
    <3> QED BY <1>t, <1>h, <2>1, <2>3 DEF PassedInv
  <2> QED BY <2>4, <2>5, <2>6
<1>9. CASE CommitMessages
  <2>1. /\ topic' = topic /\ position' = position /\ committed' \in {hand, committed}
        /\ consumerPC = "commit" /\ consumerPC' = "fetch"
        BY <1>9 DEF CommitMessages
  <2>2. hand \in 1..Len(topic)
        BY <1>t, <2>1 DEF HandInv
  <2>3. BoundInv'
        BY <1>t, <1>n, <2>1, <2>2 DEF BoundInv
  <2>4. CommittedIsHandled'
    <3> SUFFICES ASSUME NEW i \in 1..Len(topic), i <= committed' PROVE Handled(i)'
        BY <2>1 DEF CommittedIsHandled
    <3>1. CASE committed' = committed
          BY <1>t, <1>h, <3>1 DEF CommittedIsHandled
    <3>2. CASE committed' = hand
      <4>1. i < hand \/ i = hand
            BY <1>n, <3>2
      <4>2. Handled(i)
            BY <1>t, <2>1, <4>1 DEF PassedInv
      <4> QED BY <1>h, <4>2
    <3> QED BY <2>1, <3>1, <3>2
  <2>5. PassedInv'
    <3> SUFFICES ASSUME NEW i \in 1..Len(topic), i <= position PROVE Handled(i)'
        BY <2>1 DEF PassedInv
    <3> QED BY <1>t, <1>h, <2>1 DEF PassedInv
  <2> QED BY <2>3, <2>4, <2>5
<1> QED
    BY <1>1, <1>2, <1>3, <1>4, <1>6, <1>7, <1>8, <1>9 DEF Next, Consume

\* A crash, a rebalance or a failed commit anywhere in Consumer.Run loses no
\* event: what the committed offset passed was handled, failed or lay below a
\* start at LastOffset.
THEOREM CommitSafe == Spec => []CommittedIsHandled
<1>1. Init => ConsumeInv
  <2> SUFFICES ASSUME Init PROVE ConsumeInv
      OBVIOUS
  <2>1. TypeOK
        BY Constants DEF Init, TypeOK, ApiState, ConsumerState, Call, OutboxState, NoOffset, NoRows
  <2>2. HandInv /\ BoundInv /\ PassedInv /\ CommittedIsHandled
        BY DEF Init, HandInv, BoundInv, PassedInv, CommittedIsHandled, NoOffset
  <2> QED BY <2>1, <2>2 DEF ConsumeInv
<1>2. ConsumeInv => CommittedIsHandled
      BY DEF ConsumeInv
<1> QED BY <1>1, <1>2, ConsumeStep, PTL DEF Spec

-----------------------------------------------------------------------------
(* Custody.  An event is handed over twice, to the writer and to the topic; *)
(* from there on CommittedIsHandled looks after it.                         *)

\* A returned call has handed its event to the writer, and what the writer
\* calls delivered is in the topic.
SentInv ==
  \A e \in Event :
    /\ call[e] = "returned" => outbox[e] # "empty"
    /\ outbox[e] = "delivered" => \E i \in 1..Len(topic) : topic[i] = e

\* Both are kept: a record never leaves the topic.
LEMMA SentStep == TypeOK /\ SentInv /\ [Next]_vars => SentInv'
<1> SUFFICES ASSUME TypeOK, SentInv, [Next]_vars, NEW e \in Event
             PROVE  /\ call'[e] = "returned" => outbox'[e] # "empty"
                    /\ outbox'[e] = "delivered" => \E i \in 1..Len(topic') : topic'[i] = e
    BY DEF SentInv
<1>0. /\ call[e] = "returned" => outbox[e] # "empty"
      /\ outbox[e] = "delivered" => \E i \in 1..Len(topic) : topic[i] = e
      BY DEF SentInv
<1>1. (\E i \in 1..Len(topic) : topic[i] = e) => \E i \in 1..Len(topic') : topic'[i] = e
      BY HandledStep
<1>2. CASE UNCHANGED <<call, outbox>>
      BY <1>0, <1>1, <1>2
<1>3. ASSUME NEW r \in Replica, ApiCrash(r)
      PROVE  /\ call'[e] = "returned" => outbox'[e] # "empty"
             /\ outbox'[e] = "delivered" => \E i \in 1..Len(topic') : topic'[i] = e
  <2>1. \/ call'[e] = call[e] /\ outbox'[e] = outbox[e]
        \/ outbox'[e] = "lost"
        BY <1>3 DEF ApiCrash
  <2> QED BY <1>0, <1>1, <2>1
<1>4. ASSUME NEW x \in Event, (\E r \in Replica : Attribute(x, r)) \/ WriteEventRedis(x)
      PROVE  /\ call'[e] = "returned" => outbox'[e] # "empty"
             /\ outbox'[e] = "delivered" => \E i \in 1..Len(topic') : topic'[i] = e
  <2>1. /\ outbox' = outbox /\ call[x] \in {"none", "record"}
        /\ call' = [call EXCEPT ![x] = NextCall(x, call[x])]
        BY <1>4 DEF Attribute, WriteEventRedis, Advance
  <2>2. NextCall(x, call[x]) # "returned"
        BY <2>1, Constants DEF NextCall
  <2>3. call'[e] = "returned" => call[e] = "returned"
        BY <2>1, <2>2 DEF TypeOK
  <2> QED BY <1>0, <1>1, <2>1, <2>3
<1>5. ASSUME NEW x \in Event, Publish(x)
      PROVE  /\ call'[e] = "returned" => outbox'[e] # "empty"
             /\ outbox'[e] = "delivered" => \E i \in 1..Len(topic') : topic'[i] = e
  <2>1. \/ e # x /\ call'[e] = call[e] /\ outbox'[e] = outbox[e]
        \/ outbox'[e] \in {"buffered", "lost"}
        BY <1>5 DEF Publish, Advance, TypeOK
  <2> QED BY <1>0, <1>1, <2>1
<1>6. ASSUME NEW x \in Event, Deliver(x)
      PROVE  /\ call'[e] = "returned" => outbox'[e] # "empty"
             /\ outbox'[e] = "delivered" => \E i \in 1..Len(topic') : topic'[i] = e
  <2>1. CASE outbox'[e] = outbox[e]
        BY <1>0, <1>1, <1>6, <2>1 DEF Deliver
  <2>2. CASE outbox'[e] = "lost"
        BY <2>2
  <2>3. CASE outbox'[e] = "delivered" /\ e = x /\ topic' = Append(topic, e)
    <3>1. /\ Len(topic) \in Nat /\ Len(topic') = Len(topic) + 1
          /\ topic'[Len(topic) + 1] = e
          BY <2>3, TopicAppend DEF TypeOK
    <3> QED BY <2>3, <3>1
  <2> QED BY <1>6, <2>1, <2>2, <2>3 DEF Deliver, TypeOK
<1> QED
    BY <1>2, <1>3, <1>4, <1>5, <1>6
    DEF Next, Api, ApiStart, QueryToday, SetToday, QueryMonth, SetMonth, Serve, ApiShutdown,
        Ingest, Consume, WorkerStart, FetchMessage, SkipPoison, HandleEvent, CommitMessages,
        Rejoin, WorkerStop, ForeignRecord, RedisRestart, ingestVars, vars

\* From the return of RecordMetric or RecordLogEvent on no event drops out
\* unnoticed, for any number of replicas, events and faults.
THEOREM EventsAccountedFor == Spec => []NothingLost
<1>1. Init => TypeOK /\ SentInv
      BY Constants DEF Init, TypeOK, ApiState, ConsumerState, Call, OutboxState, NoOffset, NoRows,
         SentInv
<1>2. TypeOK /\ SentInv /\ [Next]_vars => (TypeOK /\ SentInv)'
      BY TypeStep, SentStep
<1>3. TypeOK /\ SentInv /\ CommittedIsHandled => NothingLost
  <2> SUFFICES ASSUME TypeOK, SentInv, CommittedIsHandled, NEW e \in Event, call[e] = "returned",
                      outbox[e] \notin {"buffered", "lost"}
               PROVE  \E i \in 1..Len(topic) : topic[i] = e /\ (Handled(i) \/ i > committed)
      BY DEF NothingLost
  <2>1. outbox[e] = "delivered"
        BY DEF TypeOK, OutboxState, SentInv
  <2>2. PICK i \in 1..Len(topic) : topic[i] = e
        BY <2>1 DEF SentInv
  <2>3. committed \in Int /\ i \in Int
        BY DEF TypeOK, NoOffset
  <2> QED BY <2>2, <2>3 DEF CommittedIsHandled
<1> QED BY <1>1, <1>2, <1>3, CommitSafe, PTL DEF Spec
=============================================================================
