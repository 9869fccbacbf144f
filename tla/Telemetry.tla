----------------------------- MODULE Telemetry -----------------------------
(***************************************************************************)
(* The way of the telemetry of a benchmark: the detached order threads of  *)
(* the bots (bot-worker/src/bot.cpp) record one event each in the worker's *)
(* Reporter (reporter.cpp); whoever finds the buffer full, the flusher     *)
(* thread every 100 ms, and main at the end swap the buffer out under mu_  *)
(* and produce what was in it outside the lock; the scoring engine         *)
(* (scoring-engine/src/main.cpp) counts what it consumes and hands it on   *)
(* to the thread that writes it to telemetry_raw.                          *)
(*                                                                         *)
(* An event is the number of its order.  One worker, one fleet, one        *)
(* run_id.  Left out: what an order says, the latency histogram, and the   *)
(* window of the last 60 seconds, of which only a display is made.         *)
(*                                                                         *)
(* The "Bug..." operators are seeded faults, used by no definition here.   *)
(***************************************************************************)
EXTENDS Integers, Sequences, SequencesExt

CONSTANTS
    MaxBatch,   \* max_batch_
    MaxLive,    \* how many ids a bot keeps in live_orders_
    MaxOrders,  \* bound: orders and cancels sent
    MaxFaults   \* bound: failures of the broker, of a database, of the engine

ASSUME BatchAssumption ==
    MaxBatch \in Nat \ {0} /\ MaxLive \in Nat /\ MaxOrders \in Nat \ {0} /\ MaxFaults \in Nat

Order   == 1..MaxOrders
Flusher == MaxOrders + 1
Main    == MaxOrders + 2
Thread  == Order \cup {Flusher, Main}

VARIABLES
    bots,      \* the Bot objects: "run", or "gone" once stop() and ~Bot are over
    live,      \* size of live_orders_
    running,   \* Reporter::running_
    at,        \* at[t]: where the thread is; an order that is not sent has none
    buffer,    \* buffer_
    batch,     \* batch[t]: what thread t has swapped out and not yet produced
    outq,      \* the producer's own queue
    topic,     \* the telemetry topic
    polled,    \* messages of the topic that poll_batch has returned
    offset,    \* messages of the topic the engine has ingested, or its group's offset
    counted,   \* counted[e]: how often event e is in the RunMetrics
    second,    \* current_tps
    max_tps,
    channel,   \* telemetry_buf
    db,        \* db_conn: "up", or "broken"
    raw,       \* the events in telemetry_raw; that one is there twice is not seen
    faults,    \* bound: faults still to come
    lost,      \* history: events that a fault has cost
    promised,  \* history: what stop() finds recorded, see DeliveredOnExit
    doubled    \* history: events the producer has sent once more, see CountedOnce

botVars    == <<bots, live>>
bufferVars == <<running, buffer, batch>>
engine     == <<polled, offset, counted, second, max_tps, channel, db, raw>>
telemetryVars == <<bots, live, running, at, buffer, batch, outq, topic, polled, offset,
                   counted, second, max_tps, channel, db, raw, faults, lost, promised, doubled>>

NoMetrics == [e \in Order |-> 0]

\* The worker has just started, or it has ended, and the engine has counted and
\* stored the one event that it left.
TelemetryInit ==
    /\ \/ /\ bots = "run" /\ running = TRUE
          /\ at = [t \in Thread |->
                      CASE t = Flusher -> "flush" [] t = Main -> "wait" [] OTHER -> "none"]
          /\ topic = <<>> /\ polled = 0 /\ offset = 0
          /\ counted = NoMetrics /\ max_tps = 0 /\ raw = {}
       \/ /\ bots = "gone" /\ running = FALSE
          /\ at = [t \in Thread |-> "end"]
          /\ topic = <<1>> /\ polled = 1 /\ offset = 1
          /\ counted = [NoMetrics EXCEPT ![1] = 1] /\ max_tps = 1 /\ raw = {1}
    /\ live = 0
    /\ buffer = <<>>
    /\ batch = [t \in Thread |-> <<>>]
    /\ outq = <<>>
    /\ second = 0
    /\ channel = {} /\ db = "up"
    /\ faults \in 0..MaxFaults
    /\ lost = {} /\ promised = {} /\ doubled = {}

\* The worker's process: main returns, or a freed Bot is written to.
WorkerAlive == at[Main] \notin {"end", "crashed"}

Goto(t, l) == at' = [at EXCEPT ![t] = l]

Fault == faults > 0 /\ faults' = faults - 1

-----------------------------------------------------------------------------
(* A bot and its order threads.                                            *)

SendOrder(e) ==
    /\ WorkerAlive /\ bots = "run"
    /\ at[e] = "none" /\ \A d \in 1..(e - 1) : at[d] # "none"
    /\ \/ Goto(e, "order") /\ UNCHANGED live
       \/ live > 0 /\ live' = live - 1 /\ Goto(e, "cancel")
    /\ UNCHANGED <<bots, bufferVars, outq, topic, engine, faults, lost, promised, doubled>>

\* The answer, or its timeout.  Only a "new" or "partial" order is kept.
Answered(e) ==
    /\ WorkerAlive
    /\ at[e] \in {"order", "cancel"}
    /\ \/ UNCHANGED live
       \/ at[e] = "order" /\ bots = "run" /\ live < MaxLive /\ live' = live + 1
    /\ Goto(e, "record")
    /\ UNCHANGED <<bots, bufferVars, outq, topic, engine, faults, lost, promised, doubled>>

\* The thread outlives its Bot and pushes into the freed live_orders_: nothing
\* may come of it (Answered), or the end of the process.
WritesToFreedBot(e) ==
    /\ WorkerAlive
    /\ at[e] = "order" /\ bots = "gone"
    /\ Goto(Main, "crashed")
    /\ UNCHANGED <<botVars, bufferVars, outq, topic, engine, faults, lost, promised, doubled>>

\* The fleet is stopped: Bot::stop() joins the bot's own thread only.
BotsEnd ==
    /\ WorkerAlive /\ bots = "run"
    /\ bots' = "gone"
    /\ UNCHANGED <<live, bufferVars, at, outq, topic, engine, faults, lost, promised, doubled>>

-----------------------------------------------------------------------------
(* Reporter.                                                               *)

Record(e) ==
    /\ WorkerAlive
    /\ at[e] = "record"
    /\ buffer' = Append(buffer, e)
    /\ Goto(e, IF Len(buffer') >= MaxBatch THEN "flush" ELSE "end")
    /\ UNCHANGED <<botVars, running, batch, outq, topic, engine, faults, lost, promised, doubled>>

\* Where flush() returns to.
AfterFlush(t) == IF t \in Order THEN "end" ELSE "deliver"

\* buffer_ after the swap.
BugSwapped == buffer

Swapped == <<>>

InHandsOf(T) == UNION {ToSet(batch[t]) : t \in T}

Recorded(e) == at[e] \in {"flush", "produce", "end"}

\* flush(): swap under mu_.  The flusher sleeps for 100 ms before it.
TakeBuffer(t) ==
    /\ WorkerAlive
    /\ at[t] = "flush"
    /\ batch' = [batch EXCEPT ![t] = buffer]
    /\ buffer' = Swapped
    /\ Goto(t, IF buffer = <<>> THEN AfterFlush(t) ELSE "produce")
    /\ promised' = IF t = Main THEN {e \in Order : Recorded(e)} \ InHandsOf(Order) ELSE promised
    /\ UNCHANGED <<botVars, running, outq, topic, engine, faults, lost, doubled>>

Produce(t) ==
    /\ WorkerAlive
    /\ at[t] = "produce"
    /\ outq' = Append(outq, Head(batch[t]))
    /\ batch' = [batch EXCEPT ![t] = Tail(@)]
    /\ Goto(t, IF Len(batch[t]) = 1 THEN AfterFlush(t) ELSE "produce")
    /\ UNCHANGED <<botVars, running, buffer, topic, engine, faults, lost, promised, doubled>>

\* produce() throws: the rest of the batch is dropped.
ProduceFails(t) ==
    /\ WorkerAlive /\ Fault
    /\ at[t] = "produce"
    /\ lost' = lost \cup ToSet(batch[t])
    /\ batch' = [batch EXCEPT ![t] = <<>>]
    /\ Goto(t, AfterFlush(t))
    /\ UNCHANGED <<botVars, running, buffer, outq, topic, engine, promised, doubled>>

\* producer_->flush() ends when the producer's queue is empty, or with a timeout,
\* which is logged; the queue is then still there.
FlusherGoesOn ==
    /\ WorkerAlive
    /\ at[Flusher] = "deliver"
    /\ Goto(Flusher, IF running THEN "flush" ELSE "end")
    /\ UNCHANGED <<botVars, bufferVars, outq, topic, engine, faults, lost, promised, doubled>>

\* main has stopped the Worker, with its fleets; now stop().
StopReporter ==
    /\ at[Main] = "wait" /\ bots = "gone"
    /\ running' = FALSE
    /\ Goto(Main, "join")
    /\ UNCHANGED <<botVars, buffer, batch, outq, topic, engine, faults, lost, promised, doubled>>

BugFlusherJoined == TRUE

FlusherJoined == at[Flusher] = "end"

JoinFlusher ==
    /\ at[Main] = "join" /\ FlusherJoined
    /\ Goto(Main, "flush")
    /\ UNCHANGED <<botVars, bufferVars, outq, topic, engine, faults, lost, promised, doubled>>

\* The process ends, with all of its threads, and the producer's queue.
MainReturns ==
    /\ at[Main] = "deliver"
    /\ \/ outq = <<>> /\ UNCHANGED <<faults, lost>>
       \/ Fault /\ lost' = lost \cup ToSet(outq)
    /\ Goto(Main, "end")
    /\ UNCHANGED <<botVars, bufferVars, outq, topic, engine, promised, doubled>>

Deliver ==
    /\ WorkerAlive
    /\ outq # <<>>
    /\ topic' = Append(topic, Head(outq))
    /\ outq' = Tail(outq)
    /\ UNCHANGED <<botVars, bufferVars, at, engine, faults, lost, promised, doubled>>

\* The broker accepts a message and its answer is lost: the producer, which is
\* not idempotent by default, will send it again.
AckLost ==
    /\ WorkerAlive /\ Fault
    /\ outq # <<>>
    /\ topic' = Append(topic, Head(outq))
    /\ doubled' = doubled \cup {Head(outq)}
    /\ UNCHANGED <<botVars, bufferVars, at, outq, engine, lost, promised>>

\* A message that the broker has not accepted in time is dropped.
DeliveryFails ==
    /\ WorkerAlive /\ Fault
    /\ outq # <<>>
    /\ lost' = lost \cup {Head(outq)}
    /\ outq' = Tail(outq)
    /\ UNCHANGED <<botVars, bufferVars, at, topic, engine, promised, doubled>>

-----------------------------------------------------------------------------
(* The scoring engine.                                                     *)

\* run_consumer is through with one batch and gets the next; what it gets is
\* committed by the library, whatever becomes of it (auto-commit).
PollBatch ==
    /\ offset = polled
    /\ polled' \in (offset + 1)..Len(topic)
    /\ UNCHANGED <<botVars, bufferVars, at, outq, topic, offset, counted, second, max_tps, channel,
                   db, raw, faults, lost, promised, doubled>>

\* One message of run_consumer's batch.
Ingest ==
    /\ offset < polled
    /\ offset' = offset + 1
    /\ counted' = [counted EXCEPT ![topic[offset']] = @ + 1]
    /\ second' = second + 1
    /\ channel' = channel \cup {topic[offset']}
    /\ UNCHANGED <<botVars, bufferVars, at, outq, topic, polled, max_tps, db, raw, faults, lost,
                   promised, doubled>>

\* flush_tps, every second.
FlushTps ==
    /\ second > 0
    /\ max_tps' = IF second > max_tps THEN second ELSE max_tps
    /\ second' = 0
    /\ UNCHANGED <<botVars, bufferVars, at, outq, topic, polled, offset, counted, channel, db, raw,
                   faults, lost, promised, doubled>>

\* pop_batch returns with 1000 events, or with fewer after a second.
BugPops == FALSE

Pops == channel # {}

\* The insert goes through, which takes a connection that is up.
Inserted == db = "up" /\ raw' = raw \cup channel /\ UNCHANGED <<faults, lost>>

\* The insert throws, once, or because the connection is broken: the batch is
\* dropped.
Dropped ==
    /\ (db = "broken" /\ UNCHANGED faults) \/ (db = "up" /\ Fault)
    /\ lost' = lost \cup channel
    /\ UNCHANGED raw

WriteBatch ==
    /\ Pops
    /\ channel' = {}
    /\ Inserted \/ Dropped
    /\ UNCHANGED <<botVars, bufferVars, at, outq, topic, polled, offset, counted, second, max_tps,
                   db, promised, doubled>>

\* db_conn is made when the engine starts, and never again.
DbConnBreaks ==
    /\ Fault
    /\ db = "up" /\ db' = "broken"
    /\ UNCHANGED <<botVars, bufferVars, at, outq, topic, polled, offset, counted, second, max_tps,
                   channel, raw, lost, promised, doubled>>

\* The engine ends and starts again: runs, telemetry_buf and the rest of the batch
\* are gone, and it goes on at some offset that was committed before.
EngineRestarts ==
    /\ Fault
    /\ counted' = NoMetrics
    /\ second' = 0 /\ max_tps' = 0
    /\ channel' = {} /\ db' = "up"
    /\ offset' \in 0..polled /\ polled' = offset'
    /\ lost' = lost \cup ToSet(SubSeq(topic, 1, offset'))
    /\ UNCHANGED <<botVars, bufferVars, at, outq, topic, raw, promised, doubled>>

-----------------------------------------------------------------------------

OrderThread(e) == SendOrder(e) \/ Answered(e) \/ WritesToFreedBot(e) \/ Record(e)

Flush(t) == TakeBuffer(t) \/ Produce(t) \/ ProduceFails(t)

MainStep == StopReporter \/ JoinFlusher \/ MainReturns

WorkerNext ==
    \/ \E e \in Order : OrderThread(e)
    \/ \E t \in Thread : Flush(t)
    \/ BotsEnd \/ FlusherGoesOn \/ MainStep
    \/ Deliver \/ AckLost \/ DeliveryFails

EngineNext == PollBatch \/ Ingest \/ FlushTps \/ WriteBatch \/ DbConnBreaks

TelemetryNext == WorkerNext \/ EngineNext \/ EngineRestarts

TelemetrySpec == TelemetryInit /\ [][TelemetryNext]_telemetryVars

-----------------------------------------------------------------------------
(* Properties                                                              *)

Place == {"none", "order", "cancel", "record", "flush", "produce", "deliver", "wait", "join",
          "end", "crashed"}

TelemetryTypeOK ==
    /\ bots \in {"run", "gone"} /\ live \in 0..MaxLive /\ running \in BOOLEAN
    /\ at \in [Thread -> Place]
    /\ buffer \in Seq(Order) /\ batch \in [Thread -> Seq(Order)]
    /\ outq \in Seq(Order) /\ topic \in Seq(Order)
    /\ polled \in 0..Len(topic) /\ offset \in 0..polled
    /\ counted \in [Order -> Nat] /\ second \in Nat /\ max_tps \in Nat
    /\ channel \subseteq Order /\ db \in {"up", "broken"} /\ raw \subseteq Order
    /\ faults \in Nat /\ lost \subseteq Order /\ promised \subseteq Order
    /\ doubled \subseteq Order

\* However the flushes of the full buffer, of the flusher and of stop() overlap,
\* no event is produced twice, so none counts twice in a score, not even after
\* a restart of the engine; and none counts in two seconds of the throughput.
\* One thing only makes an event count twice: a retry inside the producer.  The
\* event has the id of its order, but the engine does not look for it.
CountedOnce ==
    /\ \A e \in Order \ doubled : counted[e] <= 1
    /\ doubled = {} => second + max_tps <= Cardinality({e \in Order : counted[e] > 0})

\* When the process of the worker returns from main, every event that was
\* recorded when stop() flushed for the last time is in the topic, or a fault of
\* the broker has cost it.  Not so for what an order thread had swapped out by
\* then (stop() does not wait for it), or records later.
DeliveredOnExit == at[Main] = "end" => promised \subseteq ToSet(topic) \cup lost

\* Every event that was recorded is counted and stored some day, unless a fault
\* has cost it or the worker is gone: no flush strands an event.  A fault costs
\* what it hits, but for two: after a broken db_conn no event is stored until the
\* engine is started again, and a restart costs all it had polled.
Arrived(e) == counted[e] > 0 /\ e \in raw

TelemetryArrives ==
    \A e \in Order : Recorded(e) ~> Arrived(e) \/ e \in lost \/ ~WorkerAlive
=============================================================================
