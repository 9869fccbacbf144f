--------------------------- MODULE PipelineProofs ---------------------------
(***************************************************************************)
(* What is proved about the telemetry, for any number of orders, any size  *)
(* of the buffer and any number of faults; about the leaderboard, for any  *)
(* number of clients, scores, deletions and broken connections; and about  *)
(* the pipeline of the two.                                                *)
(*                                                                         *)
(* Telemetry.  An event that has been recorded is always somewhere         *)
(* (Conserved), and what the last flush of stop() could see goes only      *)
(* forward from there (PromiseKept).  That the last flush sees all of it,  *)
(* but for what order threads have swapped out, needs the flusher to have  *)
(* ended (Joined).  No event is in two places (Apart), so none is counted  *)
(* twice (CountedInv).                                                     *)
(*                                                                         *)
(* Leaderboard.  UpToDate says nothing of what the broadcast thread and a  *)
(* new client hold in their hands; ViewInv adds that it is the present     *)
(* row, unless something will correct it.  Two facts carry the proof:      *)
(* whoever changes the row announces it (RowChanges), and an announcement  *)
(* stays until the broadcast thread takes it (SignalStays).  RowIsWhole    *)
(* needs to know how far the one writer has come (WriterInv).              *)
(*                                                                         *)
(* Pipeline.  Each of its steps is a step of Telemetry, or none, and a     *)
(* step of Leaderboard, or none, whenever FinalizeRun may begin and        *)
(* whatever a restart of the engine cuts off: so both keep their promises. *)
(***************************************************************************)
EXTENDS Pipeline, SequenceTheorems, FiniteSetTheorems, TLAPS

-----------------------------------------------------------------------------
(***************************************************************************)
(* Telemetry                                                               *)
(***************************************************************************)

Shipped == ToSet(outq) \cup ToSet(topic) \cup lost

BufferTypeOK ==
    /\ at \in [Thread -> Place]
    /\ buffer \in Seq(Order) /\ batch \in [Thread -> Seq(Order)]
    /\ outq \in Seq(Order) /\ topic \in Seq(Order)

\* A thread holds a batch while it produces it, and only then.
BatchInv == WorkerAlive => \A t \in Thread : batch[t] # <<>> <=> at[t] = "produce"

\* main goes through its own places, and flushes when the flusher has ended.
Joined ==
    /\ at[Flusher] \in {"flush", "produce", "deliver", "end"}
    /\ at[Main] \in {"wait", "join", "flush", "produce", "deliver", "end", "crashed"}
    /\ at[Main] \in {"flush", "produce", "deliver"} => at[Flusher] = "end"

Conserved ==
    WorkerAlive =>
        \A e \in Order : Recorded(e) =>
            \/ e \in ToSet(buffer) \cup Shipped
            \/ \E t \in Thread : e \in ToSet(batch[t])

PromiseKept ==
    /\ WorkerAlive => promised \subseteq ToSet(batch[Main]) \cup Shipped
    /\ at[Main] = "end" => promised \subseteq ToSet(topic) \cup lost

DeliveryInv == BufferTypeOK /\ BatchInv /\ Joined /\ Conserved /\ PromiseKept

-----------------------------------------------------------------------------
(* Sequences and threads                                                   *)

\* The members of a sequence under Append, Head and Tail.
LEMMA SetOf ==
    ASSUME NEW s \in Seq(Order)
    PROVE  /\ \A e \in Order : ToSet(Append(s, e)) = ToSet(s) \cup {e}
           /\ s # <<>> => /\ Head(s) \in Order /\ Tail(s) \in Seq(Order)
                          /\ ToSet(s) = {Head(s)} \cup ToSet(Tail(s))
           /\ ToSet(<<>>) = {}
  <1>1. ASSUME NEW e \in Order  PROVE ToSet(Append(s, e)) = ToSet(s) \cup {e}
    <2> DEFINE t == Append(s, e)
    <2>1. /\ DOMAIN s = 1..Len(s) /\ DOMAIN t = 1..(Len(s) + 1) /\ Len(s) \in Nat
          /\ t[Len(s) + 1] = e /\ \A i \in 1..Len(s) : t[i] = s[i]
      OBVIOUS
    <2> HIDE DEF t
    <2>2. ToSet(t) = ToSet(s) \cup {e}
      <3>1. ASSUME NEW d \in ToSet(t)  PROVE d \in ToSet(s) \cup {e}
        BY <2>1 DEF ToSet
      <3>2. ASSUME NEW d \in ToSet(s) \cup {e}  PROVE d \in ToSet(t)
        <4>1. CASE d = e
          BY <4>1, <2>1 DEF ToSet
        <4>2. CASE d \in ToSet(s)
          BY <4>2, <2>1 DEF ToSet
        <4> QED  BY <3>2, <4>1, <4>2
      <3> QED  BY <3>1, <3>2
    <2> QED  BY <2>2 DEF t
  <1>2. ASSUME s # <<>>
        PROVE  /\ Head(s) \in Order /\ Tail(s) \in Seq(Order)
               /\ ToSet(s) = {Head(s)} \cup ToSet(Tail(s))
    <2>1. ToSet(Tail(s)) \subseteq ToSet(s)
      BY <1>2 DEF ToSet
    <2>2. ASSUME NEW e \in ToSet(s)  PROVE e = Head(s) \/ e \in ToSet(Tail(s))
      <3> PICK i \in DOMAIN s : e = s[i]
        BY DEF ToSet
      <3>1. CASE i = 1
        BY <1>2, <3>1
      <3>2. CASE i # 1
        <4>1. i - 1 \in DOMAIN Tail(s) /\ Tail(s)[i - 1] = e
          BY <1>2, <3>2
        <4> QED  BY <4>1 DEF ToSet
      <3> QED  BY <3>1, <3>2
    <2>3. Head(s) \in ToSet(s)
      BY <1>2 DEF ToSet
    <2> QED  BY <1>2, <2>1, <2>2, <2>3
  <1>3. ToSet(<<>>) = {}
    BY DEF ToSet
  <1> QED  BY <1>1, <1>2, <1>3

\* Types of Append, and when one event is left in a sequence.
LEMMA SequenceFacts ==
    ASSUME NEW s \in Seq(Order)
    PROVE  /\ \A e \in Order : Append(s, e) \in Seq(Order)
           /\ s # <<>> => (Tail(s) = <<>> <=> Len(s) = 1)
  <1>1. ASSUME s # <<>>  PROVE Tail(s) = <<>> <=> Len(s) = 1
    <2> DEFINE t == Tail(s)
    <2>1. t \in Seq(Order) /\ Len(t) = Len(s) - 1 /\ Len(s) \in Nat
      BY <1>1
    <2> HIDE DEF t
    <2>2. t = <<>> <=> Len(t) = 0
      BY <2>1, EmptySeq
    <2>3. t = <<>> <=> Len(s) = 1
      BY <2>1, <2>2
    <2> QED  BY <2>3 DEF t
  <1> QED  BY <1>1

\* The order threads, the flusher and main are three kinds of threads.
LEMMA Threads ==
    /\ Order \subseteq Thread /\ Flusher \in Thread /\ Main \in Thread
    /\ Flusher # Main /\ Flusher \notin Order /\ Main \notin Order
  BY BatchAssumption DEF Order, Flusher, Main, Thread

OrderStep(e) == SendOrder(e) \/ Answered(e) \/ Record(e)

MainMoves == StopReporter \/ JoinFlusher \/ FlusherGoesOn

\* The engine takes from the topic without emptying it, and loses events only.
LEMMA EngineFrame ==
    ASSUME EngineNext \/ EngineRestarts
    PROVE  UNCHANGED <<at, buffer, batch, outq, topic, promised, doubled>> /\ lost \subseteq lost'
  BY DEF EngineNext, PollBatch, Ingest, FlushTps, WriteBatch, Inserted, Dropped, DbConnBreaks,
         EngineRestarts, bufferVars

\* What a step of the telemetry may be, by the thread that takes it; the
\* steps of the engine change none of the places of an event.
LEMMA NextCases ==
    ASSUME [TelemetryNext]_telemetryVars
    PROVE  \/ \E e \in Order : OrderStep(e) \/ WritesToFreedBot(e)
           \/ \E t \in Thread : TakeBuffer(t) \/ Produce(t) \/ ProduceFails(t)
           \/ MainMoves \/ MainReturns \/ Deliver \/ AckLost \/ DeliveryFails
           \/ UNCHANGED <<at, buffer, batch, outq, topic, promised, doubled>> /\ lost \subseteq lost'
  BY EngineFrame
  DEF TelemetryNext, WorkerNext, OrderThread, Flush, MainStep, BotsEnd, bufferVars, OrderStep,
      MainMoves, telemetryVars

\* Where flush() returns to is no place of a producer.
LEMMA AfterFlushFacts ==
    ASSUME NEW t \in Thread
    PROVE  /\ AfterFlush(t) \in {"end", "deliver"}
           /\ t \in Order => AfterFlush(t) = "end"
           /\ t \notin Order => AfterFlush(t) = "deliver"
  BY DEF AfterFlush

-----------------------------------------------------------------------------
(* Types and places                                                        *)

\* A thread that produces has an event to produce.
LEMMA HeadOfBatch ==
    ASSUME BufferTypeOK, BatchInv, WorkerAlive, NEW t \in Thread, at[t] = "produce"
    PROVE  /\ batch[t] \in Seq(Order) /\ batch[t] # <<>>
           /\ Head(batch[t]) \in Order /\ Tail(batch[t]) \in Seq(Order)
           /\ ToSet(batch[t]) = {Head(batch[t])} \cup ToSet(Tail(batch[t]))
  <1>1. batch[t] \in Seq(Order) /\ batch[t] # <<>>
    BY DEF BufferTypeOK, BatchInv
  <1> QED  BY <1>1, SetOf

\* Types of what lies between an order thread and the topic.
LEMMA BufferTypes ==
    ASSUME BufferTypeOK, BatchInv, [TelemetryNext]_telemetryVars
    PROVE  BufferTypeOK'
  <1> USE Threads DEF BufferTypeOK, bufferVars, Goto, Place
  <1>1. ASSUME NEW e \in Order, OrderStep(e) \/ WritesToFreedBot(e)  PROVE BufferTypeOK'
    <2>1. CASE Record(e)
      <3>1. buffer' \in Seq(Order)
        BY <2>1 DEF Record
      <3>2. at' \in [Thread -> Place]
        BY <2>1 DEF Record
      <3> QED  BY <2>1, <3>1, <3>2 DEF Record
    <2>2. CASE SendOrder(e)
      BY <2>2 DEF SendOrder
    <2>3. CASE Answered(e)
      BY <2>3 DEF Answered
    <2>4. CASE WritesToFreedBot(e)
      BY <2>4 DEF WritesToFreedBot
    <2> QED  BY <1>1, <2>1, <2>2, <2>3, <2>4 DEF OrderStep
  <1>2. ASSUME NEW t \in Thread, TakeBuffer(t)  PROVE BufferTypeOK'
    BY <1>2, AfterFlushFacts DEF TakeBuffer, Swapped
  <1>3. ASSUME NEW t \in Thread, Produce(t) \/ ProduceFails(t)  PROVE BufferTypeOK'
    <2>1. Head(batch[t]) \in Order /\ Tail(batch[t]) \in Seq(Order)
      BY <1>3, HeadOfBatch DEF Produce, ProduceFails
    <2>2. /\ Append(outq, Head(batch[t])) \in Seq(Order) /\ <<>> \in Seq(Order)
      BY <2>1, SequenceFacts
    <2>3. batch' \in [Thread -> Seq(Order)]
      BY <1>3, <2>1, <2>2 DEF Produce, ProduceFails
    <2>4. outq' \in Seq(Order) /\ buffer' = buffer /\ topic' = topic
      BY <1>3, <2>2 DEF Produce, ProduceFails
    <2>5. at' \in [Thread -> Place]
      BY <1>3, AfterFlushFacts DEF Produce, ProduceFails
    <2> QED  BY <2>3, <2>4, <2>5
  <1>4. CASE MainMoves \/ MainReturns
    BY <1>4 DEF MainMoves, StopReporter, JoinFlusher, FlusherGoesOn, MainReturns
  <1>5. CASE Deliver \/ AckLost \/ DeliveryFails
    <2>1. Head(outq) \in Order /\ Tail(outq) \in Seq(Order)
      BY <1>5 DEF Deliver, AckLost, DeliveryFails
    <2>2. outq' \in Seq(Order) /\ topic' \in Seq(Order)
      BY <1>5, <2>1, SequenceFacts DEF Deliver, AckLost, DeliveryFails
    <2> QED  BY <1>5, <2>2 DEF Deliver, AckLost, DeliveryFails
  <1>6. CASE UNCHANGED <<at, buffer, batch, outq, topic>>
    BY <1>6
  <1> QED  BY <1>1, <1>2, <1>3, <1>4, <1>5, <1>6, NextCases

\* Main does not flush before it has joined the flusher, and the flusher
\* does not come back.
LEMMA JoinedStep ==
    ASSUME BufferTypeOK, Joined, [TelemetryNext]_telemetryVars
    PROVE  Joined'
  <1> USE Threads DEF BufferTypeOK, Goto, Joined
  <1>1. ASSUME NEW e \in Order, OrderStep(e) \/ WritesToFreedBot(e)  PROVE Joined'
    BY <1>1 DEF OrderStep, SendOrder, Answered, Record, WritesToFreedBot
  <1>2. ASSUME NEW t \in Thread, TakeBuffer(t)  PROVE Joined'
    BY <1>2, AfterFlushFacts DEF TakeBuffer
  <1>3. ASSUME NEW t \in Thread, Produce(t) \/ ProduceFails(t)  PROVE Joined'
    BY <1>3, AfterFlushFacts DEF Produce, ProduceFails
  <1>4. CASE MainMoves \/ MainReturns
    BY <1>4 DEF MainMoves, StopReporter, JoinFlusher, FlusherJoined, FlusherGoesOn, MainReturns
  <1>5. CASE UNCHANGED at
    BY <1>5
  <1> QED  BY <1>1, <1>2, <1>3, <1>4, <1>5, NextCases DEF Deliver, AckLost, DeliveryFails

\* A thread that is not producing has an empty batch.
LEMMA BatchStep ==
    ASSUME BufferTypeOK, BatchInv, Joined, [TelemetryNext]_telemetryVars
    PROVE  BatchInv'
  <1> USE Threads DEF BufferTypeOK, bufferVars, Goto, BatchInv, WorkerAlive
  <1>1. ASSUME NEW e \in Order, OrderStep(e)  PROVE BatchInv'
    BY <1>1 DEF OrderStep, SendOrder, Answered, Record
  <1>2. ASSUME NEW e \in Order, WritesToFreedBot(e)  PROVE BatchInv'
    BY <1>2 DEF WritesToFreedBot
  <1>3. ASSUME NEW t \in Thread, TakeBuffer(t)  PROVE BatchInv'
    BY <1>3, AfterFlushFacts DEF TakeBuffer
  <1>4. ASSUME NEW t \in Thread, Produce(t)  PROVE BatchInv'
    <2>1. batch[t] \in Seq(Order) /\ batch[t] # <<>>
      BY <1>4 DEF Produce
    <2>2. Tail(batch[t]) = <<>> <=> Len(batch[t]) = 1
      BY <2>1, SequenceFacts
    <2> QED  BY <1>4, <2>2, AfterFlushFacts DEF Produce
  <1>5. ASSUME NEW t \in Thread, ProduceFails(t)  PROVE BatchInv'
    BY <1>5, AfterFlushFacts DEF ProduceFails
  <1>6. CASE MainMoves \/ MainReturns
    BY <1>6 DEF MainMoves, StopReporter, JoinFlusher, FlusherGoesOn, MainReturns
  <1>7. CASE UNCHANGED <<at, batch>>
    BY <1>7
  <1> QED
    BY <1>1, <1>2, <1>3, <1>4, <1>5, <1>6, <1>7, NextCases
    DEF Deliver, AckLost, DeliveryFails

-----------------------------------------------------------------------------
(* Nothing is lost but by a fault                                          *)

\* What a step does to the places of events, one action at a time.
LEMMA TakeBufferMoves ==
    ASSUME BufferTypeOK, BatchInv, NEW t \in Thread, TakeBuffer(t)
    PROVE  /\ batch[t] = <<>> /\ batch'[t] = buffer
           /\ \A u \in Thread : u # t => batch'[u] = batch[u]
           /\ UNCHANGED <<outq, topic, lost>>
           /\ \A e \in Order : Recorded(e)' <=> Recorded(e)
  <1>1. /\ WorkerAlive /\ at[t] = "flush"
        /\ at' = [at EXCEPT ![t] = IF buffer = <<>> THEN AfterFlush(t) ELSE "produce"]
        /\ batch' = [batch EXCEPT ![t] = buffer] /\ UNCHANGED <<outq, topic, lost>>
    BY DEF TakeBuffer, Goto
  <1>2. \A e \in Order : Recorded(e)' <=> Recorded(e)
    BY <1>1, Threads, AfterFlushFacts DEF Recorded, BufferTypeOK
  <1> QED  BY <1>1, <1>2 DEF BufferTypeOK, BatchInv

\* send() moves an event out of the batch into the queue of the producer, or
\* it is counted as lost.
LEMMA ProduceMoves ==
    ASSUME BufferTypeOK, BatchInv, NEW t \in Thread, Produce(t) \/ ProduceFails(t)
    PROVE  /\ ToSet(batch[t]) \subseteq ToSet(batch'[t]) \cup Shipped'
           /\ Shipped \subseteq Shipped' /\ buffer' = buffer
           /\ \A u \in Thread : u # t => batch'[u] = batch[u]
           /\ \A e \in Order : Recorded(e)' <=> Recorded(e)
  <1>1. /\ batch[t] \in Seq(Order) /\ Head(batch[t]) \in Order
        /\ ToSet(batch[t]) = {Head(batch[t])} \cup ToSet(Tail(batch[t]))
    BY HeadOfBatch DEF Produce, ProduceFails
  <1>2. /\ at[t] = "produce" /\ buffer' = buffer /\ topic' = topic
        /\ at' = [at EXCEPT ![t] = "produce"] \/ at' = [at EXCEPT ![t] = AfterFlush(t)]
    BY DEF Produce, ProduceFails, Goto, bufferVars
  <1>3. \A e \in Order : Recorded(e)' <=> Recorded(e)
    BY <1>2, Threads, AfterFlushFacts DEF Recorded, BufferTypeOK
  <1>4. CASE Produce(t)
    <2>1. batch' = [batch EXCEPT ![t] = Tail(@)] /\ lost' = lost
      BY <1>4 DEF Produce
    <2>2. ToSet(outq') = ToSet(outq) \cup {Head(batch[t])}
      BY <1>1, <1>4, SetOf DEF Produce, BufferTypeOK
    <2> QED  BY <1>1, <1>2, <1>3, <2>1, <2>2 DEF BufferTypeOK, Shipped
  <1>5. CASE ProduceFails(t)
    BY <1>1, <1>2, <1>3, <1>5 DEF ProduceFails, BufferTypeOK, Shipped
  <1> QED  BY <1>4, <1>5

\* An event that leaves the queue is in the topic, or lost.
LEMMA DeliverMoves ==
    ASSUME BufferTypeOK, Deliver \/ AckLost \/ DeliveryFails
    PROVE  Shipped \subseteq Shipped' /\ UNCHANGED <<at, buffer, batch, promised>>
  <1>1. /\ Head(outq) \in Order
        /\ ToSet(outq) = {Head(outq)} \cup ToSet(Tail(outq))
    BY SetOf DEF Deliver, AckLost, DeliveryFails, BufferTypeOK
  <1>2. CASE Deliver
    <2>1. ToSet(topic') = ToSet(topic) \cup {Head(outq)}
      BY <1>1, <1>2, SetOf DEF Deliver, BufferTypeOK
    <2> QED  BY <1>1, <1>2, <2>1 DEF Deliver, Shipped, bufferVars
  <1>3. CASE AckLost
    <2>1. ToSet(topic') = ToSet(topic) \cup {Head(outq)}
      BY <1>1, <1>3, SetOf DEF AckLost, BufferTypeOK
    <2> QED  BY <1>3, <2>1 DEF AckLost, Shipped, bufferVars
  <1>4. CASE DeliveryFails
    BY <1>1, <1>4 DEF DeliveryFails, Shipped, bufferVars
  <1> QED  BY <1>2, <1>3, <1>4

\* No step makes a recorded event disappear.
LEMMA ConservedStep ==
    ASSUME BufferTypeOK, BatchInv, Conserved, [TelemetryNext]_telemetryVars
    PROVE  Conserved'
  <1> USE Threads
  <1>1. ASSUME NEW d \in Order, OrderStep(d)  PROVE Conserved'
    <2>1. CASE Record(d)
      <3>1. ToSet(buffer') = ToSet(buffer) \cup {d}
        BY <2>1, SetOf DEF Record, BufferTypeOK
      <3>2. /\ WorkerAlive /\ UNCHANGED <<batch, Shipped>>
            /\ \A e \in Order : e # d => (Recorded(e)' <=> Recorded(e))
        BY <2>1 DEF Record, Goto, Recorded, Shipped, BufferTypeOK
      <3> QED  BY <3>1, <3>2 DEF Conserved
    <2>2. CASE SendOrder(d) \/ Answered(d)
      <3>1. /\ WorkerAlive /\ UNCHANGED <<buffer, batch, Shipped>>
            /\ \A e \in Order : Recorded(e)' <=> Recorded(e)
        BY <2>2 DEF SendOrder, Answered, Goto, Recorded, Shipped, BufferTypeOK, bufferVars
      <3> QED  BY <3>1 DEF Conserved
    <2> QED  BY <1>1, <2>1, <2>2 DEF OrderStep
  <1>2. ASSUME NEW d \in Order, WritesToFreedBot(d)  PROVE Conserved'
    BY <1>2 DEF WritesToFreedBot, Goto, Conserved, WorkerAlive, BufferTypeOK
  <1>3. ASSUME NEW t \in Thread, TakeBuffer(t)  PROVE Conserved'
    <2>1. WorkerAlive /\ UNCHANGED Shipped /\ ToSet(batch[t]) = {}
      <3>1. ToSet(<<>>) = {}
        BY DEF ToSet
      <3> QED  BY <1>3, <3>1, TakeBufferMoves DEF TakeBuffer, Shipped
    <2>2. ASSUME NEW e \in Order, Recorded(e)'
          PROVE  e \in Shipped' \/ \E u \in Thread : e \in ToSet(batch'[u])
      <3>1. \/ e \in ToSet(buffer) \cup Shipped
            \/ \E u \in Thread : e \in ToSet(batch[u])
        BY <1>3, <2>1, <2>2, TakeBufferMoves DEF Conserved
      <3>2. CASE e \in ToSet(buffer)
        BY <1>3, <3>2, TakeBufferMoves
      <3>3. ASSUME NEW u \in Thread, e \in ToSet(batch[u])  PROVE e \in ToSet(batch'[u])
        BY <1>3, <2>1, <3>3, TakeBufferMoves
      <3> QED  BY <2>1, <3>1, <3>2, <3>3
    <2> QED  BY <2>2 DEF Conserved
  <1>4. ASSUME NEW t \in Thread, Produce(t) \/ ProduceFails(t)  PROVE Conserved'
    <2>1. WorkerAlive
      BY <1>4 DEF Produce, ProduceFails
    <2> QED  BY <1>4, <2>1, ProduceMoves DEF Conserved
  <1>5. CASE MainMoves
    <2>1. /\ WorkerAlive /\ UNCHANGED <<buffer, batch, Shipped>>
          /\ \A e \in Order : Recorded(e)' <=> Recorded(e)
      BY <1>5
      DEF MainMoves, StopReporter, JoinFlusher, FlusherGoesOn, Goto, Recorded, Shipped, BufferTypeOK,
          bufferVars, WorkerAlive
    <2> QED  BY <2>1 DEF Conserved
  <1>6. CASE MainReturns
    BY <1>6 DEF MainReturns, Goto, Conserved, WorkerAlive, BufferTypeOK
  <1>7. CASE Deliver \/ AckLost \/ DeliveryFails
    BY <1>7, DeliverMoves DEF Conserved, Recorded, WorkerAlive
  <1>8. CASE UNCHANGED <<at, buffer, batch, outq, topic>> /\ lost \subseteq lost'
    BY <1>8 DEF Conserved, Recorded, WorkerAlive, Shipped
  <1> QED  BY <1>1, <1>2, <1>3, <1>4, <1>5, <1>6, <1>7, <1>8, NextCases

\* The last flush sees every recorded event that no order thread has taken.
LEMMA LastFlush ==
    ASSUME BufferTypeOK, BatchInv, Joined, Conserved, TakeBuffer(Main)
    PROVE  promised' \subseteq ToSet(batch'[Main]) \cup Shipped'
  <1> USE Threads
  <1>1. /\ WorkerAlive /\ at[Main] = "flush"
        /\ promised' = {e \in Order : Recorded(e)} \ InHandsOf(Order)
    BY DEF TakeBuffer
  <1>2. batch[Main] = <<>> /\ batch[Flusher] = <<>>
    BY <1>1 DEF Joined, BatchInv
  <1>3. ToSet(<<>>) = {}
    BY DEF ToSet
  <1> SUFFICES ASSUME NEW e \in promised'
               PROVE  e \in ToSet(batch'[Main]) \cup Shipped'
    OBVIOUS
  <1>4. e \in Order /\ Recorded(e) /\ e \notin InHandsOf(Order)
    BY <1>1
  <1>5. \A t \in Thread : e \notin ToSet(batch[t])
    <2>1. \A t \in Order : e \notin ToSet(batch[t])
      BY <1>4 DEF InHandsOf
    <2> QED  BY <2>1, <1>2, <1>3 DEF Thread
  <1>6. e \in ToSet(buffer) \cup Shipped
    BY <1>1, <1>4, <1>5 DEF Conserved
  <1> QED  BY <1>6, TakeBufferMoves DEF Shipped

\* From main's last swap on, what was promised is in main's hands or further.
LEMMA PromiseStep ==
    ASSUME BufferTypeOK, BatchInv, Joined, Conserved, PromiseKept, [TelemetryNext]_telemetryVars
    PROVE  PromiseKept'
  <1> USE Threads
  <1>1. ASSUME NEW d \in Order, OrderStep(d)  PROVE PromiseKept'
    <2>1. /\ WorkerAlive /\ UNCHANGED <<batch, Shipped, promised>> /\ at'[Main] = at[Main]
      BY <1>1
      DEF OrderStep, SendOrder, Answered, Record, Goto, Shipped, bufferVars, BufferTypeOK
    <2> QED  BY <2>1 DEF PromiseKept, WorkerAlive
  <1>2. ASSUME NEW d \in Order, WritesToFreedBot(d)  PROVE PromiseKept'
    BY <1>2 DEF WritesToFreedBot, Goto, PromiseKept, WorkerAlive, BufferTypeOK
  <1>3. ASSUME NEW t \in Thread, TakeBuffer(t)  PROVE PromiseKept'
    <2>1. WorkerAlive /\ at'[Main] # "end"
      BY <1>3, AfterFlushFacts DEF TakeBuffer, Goto, BufferTypeOK, WorkerAlive
    <2>2. CASE t = Main
      BY <1>3, <2>1, <2>2, LastFlush DEF PromiseKept
    <2>3. CASE t # Main
      <3>1. promised' = promised /\ batch'[Main] = batch[Main] /\ Shipped' = Shipped
        BY <1>3, <2>3, TakeBufferMoves DEF TakeBuffer, Shipped
      <3> QED  BY <2>1, <3>1 DEF PromiseKept
    <2> QED  BY <2>2, <2>3
  <1>4. ASSUME NEW t \in Thread, Produce(t) \/ ProduceFails(t)  PROVE PromiseKept'
    <2>1. WorkerAlive /\ at'[Main] # "end" /\ promised' = promised
      BY <1>4, AfterFlushFacts DEF Produce, ProduceFails, Goto, BufferTypeOK, WorkerAlive
    <2>2. ToSet(batch[Main]) \subseteq ToSet(batch'[Main]) \cup Shipped'
      BY <1>4, ProduceMoves
    <2> QED  BY <1>4, <2>1, <2>2, ProduceMoves DEF PromiseKept
  <1>5. CASE MainMoves
    <2>1. WorkerAlive /\ UNCHANGED <<batch, Shipped, promised>> /\ at'[Main] # "end"
      BY <1>5
      DEF MainMoves, StopReporter, JoinFlusher, FlusherGoesOn, Goto, Shipped, BufferTypeOK,
          bufferVars, WorkerAlive
    <2> QED  BY <2>1 DEF PromiseKept
  <1>6. CASE MainReturns
    <2>1. /\ WorkerAlive /\ at[Main] = "deliver" /\ at'[Main] = "end"
          /\ UNCHANGED <<promised, topic>> /\ lost \subseteq lost'
          /\ outq = <<>> \/ ToSet(outq) \subseteq lost'
      BY <1>6 DEF MainReturns, Goto, BufferTypeOK, WorkerAlive
    <2>2. batch[Main] = <<>>
      BY <2>1 DEF BatchInv
    <2>3. ToSet(<<>>) = {}
      BY DEF ToSet
    <2>4. promised \subseteq ToSet(outq) \cup ToSet(topic) \cup lost
      BY <2>1, <2>2, <2>3 DEF PromiseKept, Shipped
    <2>5. promised' \subseteq ToSet(topic') \cup lost'
      <3>1. ToSet(outq) \subseteq lost'
        BY <2>1, <2>3
      <3> QED  BY <2>1, <2>4, <3>1
    <2> QED  BY <2>1, <2>5 DEF PromiseKept, WorkerAlive
  <1>7. CASE Deliver \/ AckLost \/ DeliveryFails
    <2>1. WorkerAlive
      BY <1>7 DEF Deliver, AckLost, DeliveryFails
    <2> QED  BY <1>7, <2>1, DeliverMoves DEF PromiseKept, WorkerAlive
  <1>8. CASE UNCHANGED <<at, buffer, batch, outq, topic, promised>> /\ lost \subseteq lost'
    BY <1>8 DEF PromiseKept, WorkerAlive, Shipped
  <1> QED  BY <1>1, <1>2, <1>3, <1>4, <1>5, <1>6, <1>7, <1>8, NextCases

-----------------------------------------------------------------------------
(* No event is in two places                                               *)

\* Nothing is twice in s but what is in D.
OnceBut(s, D) == \A j, k \in 1..Len(s) : s[j] = s[k] => j = k \/ s[j] \in D

Held(t) == ToSet(batch[t])

Somewhere(e) ==
    e \in ToSet(buffer) \cup ToSet(outq) \cup ToSet(topic) \/ \E t \in Thread : e \in Held(t)

\* An event is once in what a thread holds, in the buffer, in the producer's
\* queue, or, but for a retry inside the producer, in the topic.
OnceInEach ==
    /\ OnceBut(buffer, {}) /\ OnceBut(outq, {}) /\ OnceBut(topic, doubled)
    /\ \A t \in Thread : OnceBut(batch[t], {})

\* It is in one of these only, but for a message the broker has already.
Apart ==
    /\ \A t \in Thread : Held(t) \cap (ToSet(buffer) \cup ToSet(outq) \cup ToSet(topic)) = {}
    /\ \A t, u \in Thread : t # u => Held(t) \cap Held(u) = {}
    /\ ToSet(buffer) \cap (ToSet(outq) \cup ToSet(topic)) = {}
    /\ ToSet(outq) \cap ToSet(topic) \subseteq doubled

\* What is anywhere has been recorded: a thread will not record it again.
RecordedBefore == \A e \in Order : Somewhere(e) => Recorded(e)

PlacesInv == BufferTypeOK /\ BatchInv /\ Joined /\ OnceInEach /\ Apart /\ RecordedBefore

\* Appending what is not in the sequence, or may be there twice.
LEMMA AppendOnce ==
    ASSUME NEW s \in Seq(Order), NEW D, NEW E, D \subseteq E, OnceBut(s, D),
           NEW e \in Order, e \in E \/ e \notin ToSet(s)
    PROVE  OnceBut(Append(s, e), E)
  <1> DEFINE t == Append(s, e)
  <1>1. /\ Len(s) \in Nat /\ Len(t) = Len(s) + 1 /\ DOMAIN s = 1..Len(s)
        /\ t[Len(s) + 1] = e /\ \A i \in 1..Len(s) : t[i] = s[i]
    OBVIOUS
  <1> HIDE DEF t
  <1>2. \A i \in 1..Len(s) : s[i] = e => e \in E
    BY <1>1 DEF ToSet
  <1>3. \A i \in 1..Len(t) : i \in 1..Len(s) \/ i = Len(s) + 1
    BY <1>1
  <1>4. OnceBut(t, E)
    BY <1>1, <1>2, <1>3 DEF OnceBut
  <1> QED  BY <1>4 DEF t

\* Taking the head off.
LEMMA TailOnce ==
    ASSUME NEW s \in Seq(Order), s # <<>>, OnceBut(s, {})
    PROVE  OnceBut(Tail(s), {}) /\ Head(s) \notin ToSet(Tail(s))
  <1> DEFINE t == Tail(s)
  <1>1. /\ Len(s) \in Nat /\ Len(s) >= 1 /\ Len(t) = Len(s) - 1 /\ DOMAIN t = 1..Len(t)
        /\ Head(s) = s[1] /\ \A i \in 1..Len(t) : t[i] = s[i + 1]
    OBVIOUS
  <1> HIDE DEF t
  <1>2. \A i \in 1..Len(t) : i \in Int /\ i + 1 \in 1..Len(s) /\ i + 1 # 1
    BY <1>1
  <1>3. 1 \in 1..Len(s)
    BY <1>1
  <1>4. OnceBut(t, {})
    <2> SUFFICES ASSUME NEW j \in 1..Len(t), NEW k \in 1..Len(t), t[j] = t[k]
                 PROVE  j = k
      BY DEF OnceBut
    <2>1. j + 1 = k + 1
      BY <1>1, <1>2 DEF OnceBut
    <2> QED  BY <2>1, <1>2
  <1>5. Head(s) \notin ToSet(t)
    BY <1>1, <1>2, <1>3 DEF OnceBut, ToSet
  <1> QED  BY <1>4, <1>5 DEF t

\* Nothing is twice in the empty sequence, nor in it at all.
LEMMA NothingTwice == OnceBut(<<>>, {}) /\ ToSet(<<>>) = {}
  BY DEF OnceBut, ToSet

\* A step that leaves the events where they are keeps them apart.
LEMMA PlacesKept ==
    ASSUME OnceInEach, Apart, RecordedBefore,
           UNCHANGED <<buffer, batch, outq, topic, doubled>>,
           \A e \in Order : Recorded(e) => Recorded(e)'
    PROVE  OnceInEach' /\ Apart' /\ RecordedBefore'
  <1>1. OnceInEach' /\ Apart'
    BY DEF OnceInEach, Apart, Held
  <1>2. \A e \in Order : Somewhere(e)' <=> Somewhere(e)
    BY DEF Somewhere, Held
  <1> QED  BY <1>1, <1>2 DEF RecordedBefore

\* An order thread records its event, which was nowhere before.
LEMMA RecordPlaces ==
    ASSUME PlacesInv, NEW d \in Order, Record(d)
    PROVE  OnceInEach' /\ Apart' /\ RecordedBefore'
  <1> USE Threads
  <1>1. /\ at[d] = "record" /\ buffer' = Append(buffer, d)
        /\ UNCHANGED <<batch, outq, topic, doubled>>
        /\ \A e \in Order : e # d => (Recorded(e)' <=> Recorded(e))
        /\ Recorded(d)'
    BY DEF Record, Goto, Recorded, PlacesInv, BufferTypeOK
  <1>2. ~Somewhere(d)
    BY <1>1 DEF PlacesInv, RecordedBefore, Recorded
  <1>3. ToSet(buffer') = ToSet(buffer) \cup {d}
    BY <1>1, SetOf DEF PlacesInv, BufferTypeOK
  <1>4. OnceBut(buffer', {})
    BY <1>1, <1>2, AppendOnce DEF PlacesInv, BufferTypeOK, OnceInEach, Somewhere
  <1>5. OnceInEach'
    BY <1>1, <1>4 DEF PlacesInv, OnceInEach
  <1>6. \A t \in Thread : Held(t)' = Held(t)
    BY <1>1 DEF Held
  <1>7. Apart'
    BY <1>1, <1>2, <1>3, <1>6 DEF PlacesInv, Apart, Somewhere
  <1>8. RecordedBefore'
    BY <1>1, <1>3, <1>6 DEF PlacesInv, RecordedBefore, Somewhere
  <1> QED  BY <1>5, <1>7, <1>8

\* A flush takes the whole buffer into hands that were empty.
LEMMA TakeBufferPlaces ==
    ASSUME PlacesInv, NEW t \in Thread, TakeBuffer(t)
    PROVE  OnceInEach' /\ Apart' /\ RecordedBefore'
  <1>1. /\ batch[t] = <<>> /\ batch'[t] = buffer /\ buffer' = <<>>
        /\ \A u \in Thread : u # t => batch'[u] = batch[u]
        /\ UNCHANGED <<outq, topic, doubled>>
        /\ \A e \in Order : Recorded(e)' <=> Recorded(e)
    BY TakeBufferMoves DEF PlacesInv, TakeBuffer, Swapped
  <1>2. /\ Held(t)' = ToSet(buffer) /\ Held(t) = {} /\ ToSet(buffer') = {}
        /\ \A u \in Thread : u # t => Held(u)' = Held(u)
    BY <1>1, NothingTwice DEF Held
  <1>3. OnceInEach'
    BY <1>1, NothingTwice DEF PlacesInv, OnceInEach
  <1>4. Apart'
    <2>1. \A u \in Thread :
              Held(u)' \cap (ToSet(buffer') \cup ToSet(outq') \cup ToSet(topic')) = {}
      BY <1>1, <1>2 DEF PlacesInv, Apart
    <2>2. \A u, v \in Thread : u # v => Held(u)' \cap Held(v)' = {}
      BY <1>2 DEF PlacesInv, Apart
    <2> QED  BY <1>1, <1>2, <2>1, <2>2 DEF PlacesInv, Apart
  <1>5. RecordedBefore'
    BY <1>1, <1>2 DEF PlacesInv, RecordedBefore, Somewhere
  <1> QED  BY <1>3, <1>4, <1>5

\* A thread hands the first event of its batch to the producer, or drops the
\* batch.
LEMMA ProducePlaces ==
    ASSUME PlacesInv, NEW t \in Thread, Produce(t) \/ ProduceFails(t)
    PROVE  OnceInEach' /\ Apart' /\ RecordedBefore'
  <1> DEFINE e == Head(batch[t])
  <1>1. /\ batch[t] \in Seq(Order) /\ batch[t] # <<>>
        /\ e \in Order /\ Held(t) = {e} \cup ToSet(Tail(batch[t]))
    BY HeadOfBatch DEF Produce, ProduceFails, PlacesInv, Held
  <1>2. OnceBut(Tail(batch[t]), {}) /\ e \notin ToSet(Tail(batch[t]))
    BY <1>1, TailOnce DEF PlacesInv, OnceInEach
  <1>3. /\ UNCHANGED <<buffer, topic, doubled>>
        /\ \A u \in Thread : u # t => batch'[u] = batch[u] /\ Held(u)' = Held(u)
        /\ \A d \in Order : Recorded(d)' <=> Recorded(d)
    BY ProduceMoves DEF PlacesInv, Produce, ProduceFails, bufferVars, Held
  <1>4. CASE Produce(t)
    <2>1. /\ batch'[t] = Tail(batch[t]) /\ outq' = Append(outq, e)
          /\ Held(t)' = ToSet(Tail(batch[t]))
      BY <1>4 DEF Produce, PlacesInv, BufferTypeOK, Held
    <2> HIDE DEF e
    <2>2. e \notin ToSet(outq) /\ e \notin ToSet(topic) /\ e \notin ToSet(buffer)
      BY <1>1 DEF PlacesInv, Apart
    <2>3. ToSet(outq') = ToSet(outq) \cup {e} /\ OnceBut(outq', {})
      BY <1>1, <2>1, <2>2, SetOf, AppendOnce DEF PlacesInv, BufferTypeOK, OnceInEach
    <2>4. OnceInEach'
      BY <1>2, <1>3, <2>1, <2>3 DEF PlacesInv, OnceInEach
    <2>5. \A u \in Thread : u # t => e \notin Held(u)
      BY <1>1 DEF PlacesInv, Apart
    <2>6. /\ \A u \in Thread :
                 Held(u)' \cap (ToSet(buffer') \cup ToSet(outq') \cup ToSet(topic')) = {}
          /\ \A u, v \in Thread : u # v => Held(u)' \cap Held(v)' = {}
      BY <1>1, <1>2, <1>3, <2>1, <2>3, <2>5 DEF PlacesInv, Apart
    <2>7. Apart'
      BY <1>3, <2>2, <2>3, <2>6 DEF PlacesInv, Apart
    <2>8. \A d \in Order : Somewhere(d)' => Somewhere(d)
      BY <1>1, <1>3, <2>1, <2>3 DEF Somewhere
    <2> QED  BY <1>3, <2>4, <2>7, <2>8 DEF PlacesInv, RecordedBefore
  <1>5. CASE ProduceFails(t)
    <2>1. batch'[t] = <<>> /\ outq' = outq /\ Held(t)' = {}
      BY <1>5, NothingTwice DEF ProduceFails, PlacesInv, BufferTypeOK, Held
    <2>2. OnceInEach'
      BY <1>3, <2>1, NothingTwice DEF PlacesInv, OnceInEach
    <2>3. \A u \in Thread : Held(u)' \subseteq Held(u)
      BY <1>3, <2>1
    <2>4. Apart'
      BY <1>3, <2>1, <2>3 DEF PlacesInv, Apart
    <2>5. \A d \in Order : Somewhere(d)' => Somewhere(d)
      BY <1>3, <2>1, <2>3 DEF Somewhere
    <2> QED  BY <1>3, <2>2, <2>4, <2>5 DEF PlacesInv, RecordedBefore
  <1> QED  BY <1>4, <1>5

\* The broker takes the first message of the queue, twice perhaps, or drops it.
LEMMA DeliverPlaces ==
    ASSUME PlacesInv, Deliver \/ AckLost \/ DeliveryFails
    PROVE  OnceInEach' /\ Apart' /\ RecordedBefore'
  <1> DEFINE e == Head(outq)
  <1>1. /\ outq # <<>> /\ outq \in Seq(Order) /\ topic \in Seq(Order)
        /\ UNCHANGED <<at, buffer, batch>>
    BY DEF Deliver, AckLost, DeliveryFails, bufferVars, PlacesInv, BufferTypeOK
  <1>2. /\ e \in Order /\ ToSet(outq) = {e} \cup ToSet(Tail(outq))
        /\ OnceBut(Tail(outq), {}) /\ e \notin ToSet(Tail(outq))
    BY <1>1, SetOf, TailOnce DEF PlacesInv, OnceInEach
  <1>3. /\ \A t \in Thread : Held(t)' = Held(t)
        /\ \A d \in Order : Recorded(d)' <=> Recorded(d)
    BY <1>1 DEF Held, Recorded
  <1>4. /\ Deliver       => outq' = Tail(outq) /\ topic' = Append(topic, e) /\ doubled' = doubled
        /\ AckLost       => outq' = outq /\ topic' = Append(topic, e)
                            /\ doubled' = doubled \cup {e}
        /\ DeliveryFails => outq' = Tail(outq) /\ topic' = topic /\ doubled' = doubled
    BY DEF Deliver, AckLost, DeliveryFails
  <1> HIDE DEF e
  <1>5. e \in doubled' \/ e \notin ToSet(topic) \/ DeliveryFails
    BY <1>2, <1>4 DEF PlacesInv, Apart
  <1>6. /\ ToSet(topic') \subseteq ToSet(topic) \cup {e}
        /\ ToSet(outq') \subseteq ToSet(outq)
        /\ doubled \subseteq doubled' /\ OnceBut(outq', {})
    <2>1. ToSet(Append(topic, e)) = ToSet(topic) \cup {e}
      BY <1>1, <1>2, SetOf
    <2>2. OnceBut(outq, {})
      BY DEF PlacesInv, OnceInEach
    <2>3. /\ topic' = topic \/ topic' = Append(topic, e)
          /\ outq' = outq \/ outq' = Tail(outq)
          /\ doubled' = doubled \/ doubled' = doubled \cup {e}
      BY <1>4
    <2> QED  BY <1>2, <2>1, <2>2, <2>3
  <1>7. OnceBut(topic', doubled')
    <2>1. OnceBut(topic, doubled)
      BY DEF PlacesInv, OnceInEach
    <2>2. CASE DeliveryFails
      BY <1>4, <2>1, <2>2
    <2>3. CASE ~DeliveryFails
      <3>1. PICK D : D = doubled'
        OBVIOUS
      <3>2. topic' = Append(topic, e) /\ (e \in D \/ e \notin ToSet(topic)) /\ doubled \subseteq D
        BY <1>4, <1>5, <1>6, <2>3, <3>1
      <3>3. OnceBut(Append(topic, e), D)
        BY <1>1, <1>2, <2>1, <3>2, AppendOnce
      <3> QED  BY <3>1, <3>2, <3>3
    <2> QED  BY <2>2, <2>3
  <1>8. OnceInEach'
    BY <1>1, <1>6, <1>7 DEF PlacesInv, OnceInEach
  <1>9. ToSet(outq') \cap ToSet(topic') \subseteq doubled'
    <2>1. ToSet(outq) \cap ToSet(topic) \subseteq doubled
      BY DEF PlacesInv, Apart
    <2>2. CASE AckLost
      BY <1>4, <1>6, <2>1, <2>2
    <2>3. CASE Deliver \/ DeliveryFails
      <3>1. e \notin ToSet(outq')
        BY <1>2, <1>4, <2>3
      <3> QED  BY <1>6, <2>1, <3>1
    <2> QED  BY <2>2, <2>3
  <1>10. /\ \A t \in Thread :
                Held(t)' \cap (ToSet(buffer') \cup ToSet(outq') \cup ToSet(topic')) = {}
         /\ ToSet(buffer') \cap (ToSet(outq') \cup ToSet(topic')) = {}
    BY <1>1, <1>2, <1>3, <1>6 DEF PlacesInv, Apart
  <1>11. Apart'
    BY <1>3, <1>9, <1>10 DEF PlacesInv, Apart
  <1>12. \A d \in Order : Somewhere(d)' => Somewhere(d)
    BY <1>1, <1>2, <1>3, <1>6 DEF Somewhere
  <1> QED  BY <1>3, <1>8, <1>11, <1>12 DEF PlacesInv, RecordedBefore

\* No step brings an event to a second place.
LEMMA PlacesStep ==
    ASSUME PlacesInv, [TelemetryNext]_telemetryVars
    PROVE  PlacesInv'
  <1> USE Threads
  <1>1. BufferTypeOK' /\ BatchInv' /\ Joined'
    BY BufferTypes, BatchStep, JoinedStep DEF PlacesInv
  <1>2. OnceInEach' /\ Apart' /\ RecordedBefore'
    <2>1. ASSUME NEW d \in Order, OrderStep(d) \/ WritesToFreedBot(d)
          PROVE  OnceInEach' /\ Apart' /\ RecordedBefore'
      <3>1. CASE Record(d)
        BY <3>1, RecordPlaces
      <3>2. CASE SendOrder(d) \/ Answered(d) \/ WritesToFreedBot(d)
        <4>1. /\ UNCHANGED <<buffer, batch, outq, topic, doubled>>
              /\ \A e \in Order : Recorded(e) => Recorded(e)'
          BY <3>2
          DEF SendOrder, Answered, WritesToFreedBot, bufferVars, Goto, Recorded, PlacesInv,
              BufferTypeOK
        <4> QED  BY <4>1, PlacesKept DEF PlacesInv
      <3> QED  BY <2>1, <3>1, <3>2 DEF OrderStep
    <2>2. ASSUME NEW t \in Thread, TakeBuffer(t) \/ Produce(t) \/ ProduceFails(t)
          PROVE  OnceInEach' /\ Apart' /\ RecordedBefore'
      BY <2>2, TakeBufferPlaces, ProducePlaces
    <2>3. CASE MainMoves \/ MainReturns
      <3>1. /\ UNCHANGED <<buffer, batch, outq, topic, doubled>>
            /\ \A e \in Order : Recorded(e) => Recorded(e)'
        BY <2>3
        DEF MainMoves, StopReporter, JoinFlusher, FlusherGoesOn, MainReturns, bufferVars, Goto,
            Recorded, PlacesInv, BufferTypeOK
      <3> QED  BY <3>1, PlacesKept DEF PlacesInv
    <2>4. CASE Deliver \/ AckLost \/ DeliveryFails
      BY <2>4, DeliverPlaces
    <2>5. CASE UNCHANGED <<at, buffer, batch, outq, topic, doubled>>
      BY <2>5, PlacesKept DEF PlacesInv, Recorded
    <2> QED  BY <2>1, <2>2, <2>3, <2>4, <2>5, NextCases
  <1> QED  BY <1>1, <1>2 DEF PlacesInv

-----------------------------------------------------------------------------
(* What is counted                                                         *)

MetricsTypeOK ==
    /\ counted \in [Order -> Nat] /\ second \in Nat /\ max_tps \in Nat
    /\ polled \in 0..Len(topic) /\ offset \in 0..polled

\* A count stands for a message the engine has consumed since it started.
CountsConsumed ==
    \A e \in Order : counted[e] > 0 => \E k \in 1..offset : topic[k] = e

CountedInv == PlacesInv /\ MetricsTypeOK /\ CountsConsumed /\ CountedOnce

CountedEvents == {e \in Order : counted[e] > 0}

\* The events counted are finitely many.
LEMMA CountedFinite == IsFiniteSet(CountedEvents) /\ Cardinality(CountedEvents) \in Nat
  <1>1. IsFiniteSet(Order)
    BY FS_Interval, BatchAssumption DEF Order
  <1>2. IsFiniteSet(CountedEvents)
    BY <1>1, FS_Subset DEF CountedEvents
  <1> QED  BY <1>2, FS_CardinalityType

\* The worker adds to the topic and leaves the engine alone.
LEMMA WorkerFrame ==
    ASSUME BufferTypeOK, WorkerNext
    PROVE  /\ UNCHANGED engine /\ doubled \subseteq doubled'
           /\ topic' = topic \/ \E e \in Order : topic' = Append(topic, e)
  <1>1. CASE Deliver \/ AckLost
    <2>1. Head(outq) \in Order
      BY <1>1, SetOf DEF BufferTypeOK, Deliver, AckLost
    <2> QED  BY <1>1, <2>1 DEF Deliver, AckLost
  <1>2. CASE ~(Deliver \/ AckLost)
    BY <1>2
    DEF WorkerNext, OrderThread, SendOrder, Answered, WritesToFreedBot, Record, Flush, TakeBuffer,
        Produce, ProduceFails, BotsEnd, FlusherGoesOn, MainStep, StopReporter, JoinFlusher,
        MainReturns, DeliveryFails
  <1> QED  BY <1>1, <1>2

\* A longer topic changes nothing for what has been consumed.
LEMMA WorkerKeepsCounts ==
    ASSUME BufferTypeOK, MetricsTypeOK, CountsConsumed, CountedOnce, WorkerNext
    PROVE  MetricsTypeOK' /\ CountsConsumed' /\ CountedOnce'
  <1>1. /\ UNCHANGED <<polled, offset, counted, second, max_tps>> /\ doubled \subseteq doubled'
        /\ topic' = topic \/ \E e \in Order : topic' = Append(topic, e)
    BY WorkerFrame DEF engine
  <1>2. /\ Len(topic) \in Nat /\ Len(topic') \in Nat /\ Len(topic) <= Len(topic')
        /\ \A k \in 1..Len(topic) : topic'[k] = topic[k]
    BY <1>1 DEF BufferTypeOK
  <1>3. MetricsTypeOK'
    BY <1>1, <1>2 DEF MetricsTypeOK
  <1>4. \A k \in 1..offset : topic'[k] = topic[k]
    BY <1>2 DEF MetricsTypeOK
  <1>5. CountsConsumed'
    BY <1>1, <1>4 DEF CountsConsumed
  <1>6. CountedOnce'
    BY <1>1 DEF CountedOnce
  <1> QED  BY <1>3, <1>5, <1>6

\* An event that is not doubled has not been counted when the engine comes to it.
LEMMA IngestKeepsCounts ==
    ASSUME CountedInv, Ingest
    PROVE  MetricsTypeOK' /\ CountsConsumed' /\ CountedOnce'
  <1> DEFINE e == topic[offset + 1]
  <1>1. /\ offset \in Nat /\ polled \in 0..Len(topic) /\ offset < polled
        /\ Len(topic) \in Nat /\ offset + 1 \in 1..Len(topic)
        /\ \A k \in 1..offset : k \in 1..Len(topic) /\ k # offset + 1
    BY DEF CountedInv, PlacesInv, BufferTypeOK, MetricsTypeOK, Ingest
  <1>2. /\ e \in Order /\ offset' = offset + 1
        /\ counted' = [counted EXCEPT ![e] = @ + 1] /\ second' = second + 1
        /\ UNCHANGED <<max_tps, topic, polled, doubled>>
    BY <1>1 DEF CountedInv, PlacesInv, BufferTypeOK, Ingest
  <1>3. e \notin doubled => counted[e] = 0
    <2> SUFFICES ASSUME e \notin doubled, counted[e] # 0  PROVE FALSE
      OBVIOUS
    <2>1. counted[e] > 0
      BY <1>2 DEF CountedInv, MetricsTypeOK
    <2>2. PICK k \in 1..offset : topic[k] = e
      BY <1>2, <2>1 DEF CountedInv, CountsConsumed
    <2> QED  BY <1>1, <2>2 DEF CountedInv, PlacesInv, OnceInEach, OnceBut
  <1>4. /\ offset + 1 \in 1..(offset + 1) /\ \A k \in 1..offset : k \in 1..(offset + 1)
    BY <1>1
  <1>5. /\ counted'[e] = counted[e] + 1
        /\ \A d \in Order : d # e => counted'[d] = counted[d]
        /\ counted' \in [Order -> Nat]
    BY <1>2 DEF CountedInv, MetricsTypeOK
  <1>6. topic[offset + 1] = e
    OBVIOUS
  <1> HIDE DEF e
  <1>7. MetricsTypeOK'
    BY <1>1, <1>2, <1>5 DEF CountedInv, MetricsTypeOK
  <1>8. CountsConsumed'
    BY <1>2, <1>4, <1>5, <1>6 DEF CountedInv, CountsConsumed
  <1>9. \A d \in Order \ doubled' : counted'[d] <= 1
    BY <1>2, <1>3, <1>5 DEF CountedInv, CountedOnce
  <1>10. ASSUME doubled' = {}
         PROVE  second' + max_tps' <= Cardinality(CountedEvents')
    <2>1. counted[e] = 0 /\ e \notin CountedEvents
      BY <1>2, <1>3, <1>10 DEF CountedEvents
    <2>2. CountedEvents' = CountedEvents \cup {e}
      BY <1>2, <1>5, <2>1 DEF CountedEvents, CountedInv, MetricsTypeOK
    <2>3. Cardinality(CountedEvents') = Cardinality(CountedEvents) + 1
      BY <2>1, <2>2, CountedFinite, FS_AddElement
    <2>4. second + max_tps <= Cardinality(CountedEvents)
      BY <1>2, <1>10 DEF CountedInv, CountedOnce, CountedEvents
    <2> QED  BY <1>2, <2>3, <2>4, CountedFinite DEF CountedInv, MetricsTypeOK
  <1>11. CountedOnce'
    BY <1>9, <1>10 DEF CountedOnce, CountedEvents
  <1> QED  BY <1>7, <1>8, <1>11

\* The other steps of the engine: what is polled is not yet counted, a second ends,
\* and a restart forgets what was counted.
LEMMA EngineKeepsCounts ==
    ASSUME CountedInv,
           \/ PollBatch \/ FlushTps \/ WriteBatch \/ DbConnBreaks \/ EngineRestarts
           \/ UNCHANGED telemetryVars
    PROVE  MetricsTypeOK' /\ CountsConsumed' /\ CountedOnce'
  <1> USE DEF CountedInv
  <1>1. CASE FlushTps
    <2>1. /\ UNCHANGED <<polled, offset, counted, topic, doubled>> /\ second' = 0
          /\ max_tps' \in Nat /\ second' + max_tps' <= second + max_tps
      BY <1>1 DEF FlushTps, MetricsTypeOK
    <2>2. CountedOnce'
      <3>1. \A e \in Order \ doubled' : counted'[e] <= 1
        BY <2>1 DEF CountedOnce
      <3>2. doubled = {} => second + max_tps <= Cardinality(CountedEvents)
        BY DEF CountedOnce, CountedEvents
      <3>3. CountedEvents' = CountedEvents
        BY <2>1 DEF CountedEvents
      <3>4. doubled' = {} => second' + max_tps' <= Cardinality(CountedEvents')
        <4>1. PICK n \in Nat : n = Cardinality(CountedEvents)
          BY CountedFinite
        <4>2. PICK m : m = max_tps'
          OBVIOUS
        <4>3. 0 + m <= second + max_tps
          BY <2>1, <4>2
        <4>4. second \in Nat /\ max_tps \in Nat /\ m \in Nat
          BY <2>1, <4>2 DEF MetricsTypeOK
        <4>5. doubled' = {} => 0 + m <= n
          BY <2>1, <3>2, <4>1, <4>3, <4>4
        <4> QED  BY <2>1, <3>3, <4>1, <4>2, <4>5
      <3> QED  BY <3>1, <3>4 DEF CountedOnce, CountedEvents
    <2> QED  BY <2>1, <2>2 DEF MetricsTypeOK, CountsConsumed
  <1>2. CASE WriteBatch \/ DbConnBreaks \/ UNCHANGED telemetryVars
    <2>1. UNCHANGED <<polled, offset, counted, topic, second, max_tps, doubled>>
      BY <1>2 DEF WriteBatch, DbConnBreaks, telemetryVars
    <2> QED  BY <2>1 DEF MetricsTypeOK, CountsConsumed, CountedOnce
  <1>3. CASE EngineRestarts
    <2>1. /\ counted' = [d \in Order |-> 0] /\ second' = 0 /\ max_tps' = 0
          /\ offset' \in 0..polled /\ polled' = offset' /\ topic' = topic
      BY <1>3 DEF EngineRestarts, NoMetrics
    <2>2. MetricsTypeOK'
      <3>1. Len(topic) \in Nat
        BY DEF PlacesInv, BufferTypeOK
      <3> QED  BY <2>1, <3>1 DEF MetricsTypeOK
    <2>3. CountsConsumed'
      BY <2>1 DEF CountsConsumed
    <2>4. CountedOnce'
      <3>1. CountedEvents' = {}
        BY <2>1 DEF CountedEvents
      <3> QED  BY <2>1, <3>1, FS_EmptySet DEF CountedOnce, CountedEvents
    <2> QED  BY <2>2, <2>3, <2>4
  <1>4. CASE PollBatch
    <2>1. UNCHANGED <<offset, counted, topic, second, max_tps, doubled>>
      BY <1>4 DEF PollBatch
    <2>2. polled' \in 0..Len(topic) /\ offset \in 0..polled'
      <3>1. offset \in Nat /\ Len(topic) \in Nat
        BY DEF MetricsTypeOK, PlacesInv, BufferTypeOK
      <3> QED  BY <1>4, <3>1 DEF PollBatch
    <2> QED  BY <2>1, <2>2 DEF MetricsTypeOK, CountsConsumed, CountedOnce
  <1> QED  BY <1>1, <1>2, <1>3, <1>4

\* The invariant is inductive.
LEMMA CountedStep ==
    ASSUME CountedInv, [TelemetryNext]_telemetryVars
    PROVE  CountedInv'
  <1>1. PlacesInv'
    BY PlacesStep DEF CountedInv
  <1>2. MetricsTypeOK' /\ CountsConsumed' /\ CountedOnce'
    <2>1. CASE WorkerNext
      BY <2>1, WorkerKeepsCounts DEF CountedInv, PlacesInv
    <2>2. CASE Ingest
      BY <2>2, IngestKeepsCounts
    <2>3. CASE \/ PollBatch \/ FlushTps \/ WriteBatch \/ DbConnBreaks \/ EngineRestarts
               \/ UNCHANGED telemetryVars
      BY <2>3, EngineKeepsCounts
    <2> QED  BY <2>1, <2>2, <2>3 DEF TelemetryNext, EngineNext
  <1> QED  BY <1>1, <1>2 DEF CountedInv

-----------------------------------------------------------------------------
(* Theorems                                                                *)

\* Nothing has been recorded.
LEMMA DeliveryInitially == TelemetryInit => DeliveryInv
  <1> SUFFICES ASSUME TelemetryInit  PROVE DeliveryInv
    OBVIOUS
  <1> USE Threads DEF TelemetryInit
  <1>1. BufferTypeOK
    <2>1. 1 \in Order
      BY BatchAssumption DEF Order
    <2>2. <<>> \in Seq(Order) /\ <<1>> \in Seq(Order)
      BY <2>1
    <2>3. at \in [Thread -> Place]
      BY DEF Place
    <2> QED  BY <2>2, <2>3 DEF BufferTypeOK
  <1>2. BatchInv
    BY DEF BatchInv
  <1>3. Joined
    BY DEF Joined
  <1>4. Conserved
    BY DEF Conserved, WorkerAlive, Recorded
  <1>5. PromiseKept
    BY DEF PromiseKept
  <1> QED  BY <1>1, <1>2, <1>3, <1>4, <1>5 DEF DeliveryInv

\* The parts of DeliveryInv hold in every state.
LEMMA DeliveryInvariance == TelemetrySpec => []DeliveryInv
  <1>1. DeliveryInv /\ [TelemetryNext]_telemetryVars => DeliveryInv'
    BY BufferTypes, BatchStep, JoinedStep, ConservedStep, PromiseStep DEF DeliveryInv
  <1> QED  BY DeliveryInitially, <1>1, PTL DEF TelemetrySpec

\* A worker that returns from main leaves no event behind that its last flush
\* could see, however many threads flush beside it.
THEOREM DeliveredOnExitAlways == TelemetrySpec => []DeliveredOnExit
  <1>1. DeliveryInv => DeliveredOnExit
    BY DEF DeliveryInv, PromiseKept, DeliveredOnExit
  <1> QED  BY DeliveryInvariance, <1>1, PTL

\* It holds of a worker that has just started, and after one that has ended.
LEMMA CountedInitially == TelemetryInit => CountedInv
  <1> SUFFICES ASSUME TelemetryInit  PROVE CountedInv
    OBVIOUS
  <1>1. BufferTypeOK /\ BatchInv /\ Joined
    BY DeliveryInitially DEF DeliveryInv
  <1>2. /\ buffer = <<>> /\ outq = <<>> /\ batch = [t \in Thread |-> <<>>]
        /\ doubled = {} /\ second = 0 /\ max_tps \in {0, 1}
        /\ \/ topic = <<>> /\ polled = 0 /\ offset = 0 /\ counted = [e \in Order |-> 0] /\ max_tps = 0
           \/ /\ topic = <<1>> /\ polled = 1 /\ offset = 1 /\ max_tps = 1
              /\ counted = [e \in Order |-> IF e = 1 THEN 1 ELSE 0]
              /\ at = [t \in Thread |-> "end"]
    BY DEF TelemetryInit, NoMetrics
  <1>3. 1 \in Order
    BY BatchAssumption DEF Order
  <1>4. /\ topic = <<>> => ToSet(topic) = {}
        /\ topic = <<1>> => ToSet(topic) = {1}
    BY DEF ToSet
  <1>5. OnceInEach /\ Apart /\ RecordedBefore
    <2>1. \A t \in Thread : batch[t] = <<>> /\ Held(t) = {}
      BY <1>2, NothingTwice DEF Held
    <2>2. OnceBut(topic, doubled)
      BY <1>2 DEF OnceBut
    <2>3. OnceInEach /\ Apart
      BY <1>2, <2>1, <2>2, NothingTwice DEF OnceInEach, Apart
    <2>4. ASSUME NEW e \in Order, Somewhere(e)  PROVE Recorded(e)
      <3>1. e \in ToSet(topic)
        BY <1>2, <2>1, <2>4, NothingTwice DEF Somewhere
      <3>2. at[e] = "end"
        BY <1>2, <1>4, <3>1, Threads
      <3> QED  BY <3>2 DEF Recorded
    <2> QED  BY <2>3, <2>4 DEF RecordedBefore
  <1>6. MetricsTypeOK /\ CountsConsumed
    <2>1. /\ topic = <<>> => Len(topic) = 0
          /\ topic = <<1>> => Len(topic) = 1 /\ topic[1] = 1 /\ 1 \in 1..1
      OBVIOUS
    <2>2. counted \in [Order -> Nat] /\ second \in Nat /\ max_tps \in Nat
      BY <1>2
    <2>3. polled \in 0..Len(topic) /\ offset \in 0..polled
      BY <1>2, <2>1
    <2>4. CountsConsumed
      BY <1>2, <2>1 DEF CountsConsumed
    <2> QED  BY <2>2, <2>3, <2>4 DEF MetricsTypeOK
  <1>7. CountedOnce
    <2>1. CASE max_tps = 0
      <3>1. second + max_tps = 0 /\ \A e \in Order : counted[e] <= 1
        BY <1>2, <2>1
      <3> QED  BY <3>1, CountedFinite DEF CountedOnce, CountedEvents
    <2>2. CASE max_tps = 1
      <3>1. CountedEvents = {} \cup {1} /\ \A e \in Order : counted[e] <= 1
        BY <1>2, <1>3, <2>2 DEF CountedEvents
      <3>2. Cardinality(CountedEvents) = 1
        BY <3>1, FS_EmptySet, FS_AddElement
      <3> QED  BY <1>2, <2>2, <3>1, <3>2 DEF CountedOnce, CountedEvents
    <2> QED  BY <1>2, <2>1, <2>2
  <1> QED  BY <1>1, <1>5, <1>6, <1>7 DEF CountedInv, PlacesInv

\* Every event counts once in the score, and in one second of the throughput,
\* but for a retry inside the producer: however many threads flush beside one
\* another, whatever a batch holds, and wherever a restarted engine goes on.
THEOREM CountedOnceAlways == TelemetrySpec => []CountedOnce
  <1>1. CountedInv /\ [TelemetryNext]_telemetryVars => CountedInv'
    BY CountedStep
  <1>2. CountedInv => CountedOnce
    BY DEF CountedInv
  <1> QED  BY CountedInitially, <1>1, <1>2, PTL DEF TelemetrySpec

-----------------------------------------------------------------------------
(***************************************************************************)
(* Leaderboard                                                             *)
(***************************************************************************)

Signal == Announced \/ missed

CastInv ==
    /\ caster = "details" => fetched[1] # NoRow /\ (fetched[1] = rank \/ Signal)
    /\ caster = "send" => fetched = Current \/ Signal

\* What c has read or shows need not be the present row.
Excused(c) == Signal \/ caster # "sleep" \/ behind[c]

ClientInv(c) ==
    /\ client[c] = "details" => snapshot[c][1] # NoRow /\ (snapshot[c][1] = rank \/ Excused(c))
    /\ client[c] = "send" => snapshot[c] = Current \/ Excused(c)
    /\ client[c] = "on" => view[c] = Current \/ Excused(c)

ViewInv == CastInv /\ \A c \in Client : ClientInv(c)

WriterInv ==
    /\ finalize = "idle" \/ delete = "idle"
    /\ finalize # "hmset" /\ delete # "del" => rank = details
    /\ finalize = "hmset" => rank = scores
    /\ delete = "del" => rank = NoRow

RowInv == mixed \/ WriterInv

-----------------------------------------------------------------------------
(* Types                                                                   *)

\* The row and what is read of it are made of scores.
LEMMA RowFacts ==
    ASSUME LeaderboardTypeOK
    PROVE  /\ scores \in Row /\ NoRow \in Row
           /\ <<rank, NoRow>> \in Shown
           /\ [fetched EXCEPT ![2] = details] = <<fetched[1], details>>
           /\ \A c \in Client :
                 [snapshot[c] EXCEPT ![2] = details] = <<snapshot[c][1], details>>
  BY BoardAssumption DEF LeaderboardTypeOK, Row, Shown, Score, NoRow

\* The board is empty and nobody is connected.
LEMMA BoardTypeInitially == LeaderboardInit => LeaderboardTypeOK
  <1> SUFFICES ASSUME LeaderboardInit  PROVE LeaderboardTypeOK
    OBVIOUS
  <1>1. scores \in Row /\ Nothing \in Shown
    BY BoardAssumption DEF LeaderboardInit, Row, Shown, Score, NoRow, Nothing
  <1>2. /\ rank \in Row /\ details \in Row /\ fetched \in Shown
        /\ snapshot \in [Client -> Shown] /\ view \in [Client -> Shown]
    BY <1>1 DEF LeaderboardInit
  <1>3. client \in [Client -> {"new", "rank", "details", "send", "on", "off"}]
    BY DEF LeaderboardInit
  <1>4. behind \in [Client -> BOOLEAN]
    BY DEF LeaderboardInit
  <1> QED  BY <1>2, <1>3, <1>4 DEF LeaderboardInit, LeaderboardTypeOK

\* Types under the commands of FinalizeRun and of a deletion.
LEMMA WriterTypes ==
    ASSUME LeaderboardTypeOK,
           BeginFinalize \/ FinalizeStep \/ CutOff \/ DeleteNext
    PROVE  LeaderboardTypeOK'
  <1> USE BoardAssumption, RowFacts
      DEF LeaderboardTypeOK, board, signal, cast, clients
  <1>1. CASE BeginFinalize
    BY <1>1 DEF BeginFinalize
  <1>2. CASE Zadd
    BY <1>2 DEF Zadd
  <1>3. CASE Hmset
    BY <1>3 DEF Hmset
  <1>4. CASE PublishScore
    BY <1>4 DEF PublishScore, Publish
  <1>5. CASE FinalizeFails
    BY <1>5 DEF FinalizeFails, BreakOff, RedisFails
  <1>6. CASE CutOff
    BY <1>6 DEF CutOff, BreakOff
  <1>7. CASE BeginDelete
    BY <1>7 DEF BeginDelete
  <1>8. CASE Zrem
    BY <1>8 DEF Zrem, AfterZrem
  <1>9. CASE Del
    BY <1>9 DEF Del, AfterDel
  <1>10. CASE PublishDelete
    BY <1>10 DEF PublishDelete, Publish
  <1>11. CASE DeleteFails
    BY <1>11 DEF DeleteFails, RedisFails
  <1> QED
    BY <1>1, <1>2, <1>3, <1>4, <1>5, <1>6, <1>7, <1>8, <1>9, <1>10, <1>11
    DEF FinalizeStep, DeleteNext, DeleteStep

\* Types under the subscriber, the broadcast thread and the clients.
LEMMA ServiceTypes ==
    ASSUME LeaderboardTypeOK, ServiceNext
    PROVE  LeaderboardTypeOK'
  <1> USE BoardAssumption, RowFacts
      DEF LeaderboardTypeOK, board, signal, cast, clients, writers, Shown
  <1>1. CASE Subscriber
    <2>1. CASE OnMessage
      BY <2>1 DEF OnMessage
    <2>2. CASE SubscriberFails
      <3>1. failures' \in 0..MaxFailures
        BY <2>2 DEF SubscriberFails, RedisFails
      <3>2. missed' \in BOOLEAN
        BY <2>2 DEF SubscriberFails
      <3> QED  BY <2>2, <3>1, <3>2 DEF SubscriberFails
    <2>3. CASE Resubscribe
      BY <2>3 DEF Resubscribe
    <2> QED  BY <1>1, <2>1, <2>2, <2>3 DEF Subscriber
  <1>2. CASE Broadcaster
    <2>1. CASE TakeUpdate
      BY <2>1 DEF TakeUpdate
    <2>2. CASE FetchRank
      BY <2>2 DEF FetchRank
    <2>3. CASE FetchDetails
      BY <2>3 DEF FetchDetails
    <2>4. CASE FetchFails
      BY <2>4 DEF FetchFails, RedisFails
    <2>5. CASE Broadcast
      BY <2>5 DEF Broadcast, Connecting
    <2> QED  BY <1>2, <2>1, <2>2, <2>3, <2>4, <2>5 DEF Broadcaster
  <1>3. ASSUME NEW c \in Client, Connect(c) \/ Connection(c) \/ Disconnect(c)
        PROVE  LeaderboardTypeOK'
    <2>1. CASE Connect(c)
      BY <2>1 DEF Connect
    <2>2. CASE ReadRank(c)
      BY <2>2 DEF ReadRank
    <2>3. CASE ReadDetails(c)
      BY <2>3 DEF ReadDetails
    <2>4. CASE ReadFails(c)
      BY <2>4 DEF ReadFails, RedisFails
    <2>5. CASE SendSnapshot(c)
      BY <2>5 DEF SendSnapshot
    <2>6. CASE Disconnect(c)
      BY <2>6 DEF Disconnect
    <2> QED  BY <1>3, <2>1, <2>2, <2>3, <2>4, <2>5, <2>6 DEF Connection
  <1> QED  BY <1>1, <1>2, <1>3 DEF ServiceNext

\* Types under every step.
LEMMA BoardTypeStep ==
    LeaderboardTypeOK /\ [LeaderboardNext]_leaderboardVars => LeaderboardTypeOK'
  <1>1. CASE UNCHANGED leaderboardVars
    BY <1>1 DEF leaderboardVars, LeaderboardTypeOK
  <1> QED  BY <1>1, WriterTypes, ServiceTypes DEF LeaderboardNext

-----------------------------------------------------------------------------
(* Who announces, and who forgets                                          *)

WriterStep == BeginFinalize \/ FinalizeStep \/ CutOff \/ DeleteNext

ClientStep(c) == Connect(c) \/ Connection(c) \/ Disconnect(c)

\* The writers touch nothing of the service's own.
LEMMA WriterFrame ==
    ASSUME WriterStep
    PROVE  UNCHANGED <<cast, clients, has_update>>
  BY DEF WriterStep, BeginFinalize, FinalizeStep, Zadd, Hmset, PublishScore, FinalizeFails,
         CutOff, BreakOff, DeleteNext, BeginDelete, DeleteStep, Zrem, Del, PublishDelete,
         DeleteFails, Publish, signal, cast, clients

\* The service touches neither the row nor its writers.
LEMMA ServiceFrame ==
    ASSUME ServiceNext
    PROVE  UNCHANGED <<board, writers>>
  BY DEF ServiceNext, Subscriber, OnMessage, SubscriberFails, Resubscribe, Broadcaster,
         TakeUpdate, FetchRank, FetchDetails, FetchFails, Broadcast, Connect, Connection,
         ReadRank, ReadDetails, ReadFails, SendSnapshot, Disconnect

\* An announcement stays, until the broadcast thread takes it.
LEMMA SignalStays ==
    ASSUME LeaderboardTypeOK, [LeaderboardNext]_leaderboardVars, Signal
    PROVE  Signal' \/ TakeUpdate
  <1> USE DEF Signal, Announced, signal, writers
  <1>1. CASE UNCHANGED leaderboardVars
    BY <1>1 DEF leaderboardVars
  <1>2. CASE WriterStep
    <2>1. CASE BeginFinalize
      BY <2>1 DEF BeginFinalize
    <2>2. CASE Zadd
      BY <2>2 DEF Zadd
    <2>3. CASE Hmset
      BY <2>3 DEF Hmset
    <2>4. CASE PublishScore
      BY <2>4 DEF PublishScore, Publish
    <2>5. CASE BreakOff
      BY <2>5 DEF BreakOff, LeaderboardTypeOK
    <2>6. CASE BeginDelete
      BY <2>6 DEF BeginDelete
    <2>7. CASE Zrem
      BY <2>7 DEF Zrem, AfterZrem
    <2>8. CASE Del
      BY <2>8 DEF Del, AfterDel
    <2>9. CASE PublishDelete
      BY <2>9 DEF PublishDelete, Publish
    <2>10. CASE DeleteFails
      BY <2>10 DEF DeleteFails, LeaderboardTypeOK
    <2> QED
      BY <1>2, <2>1, <2>2, <2>3, <2>4, <2>5, <2>6, <2>7, <2>8, <2>9, <2>10
      DEF WriterStep, FinalizeStep, FinalizeFails, CutOff, DeleteNext, DeleteStep
  <1>3. CASE Subscriber
    BY <1>3 DEF Subscriber, OnMessage, SubscriberFails, Resubscribe
  <1>4. CASE Broadcaster
    BY <1>4 DEF Broadcaster, FetchRank, FetchDetails, FetchFails, Broadcast
  <1>5. ASSUME NEW c \in Client, ClientStep(c)  PROVE Signal'
    BY <1>5 DEF ClientStep, Connect, Connection, ReadRank, ReadDetails, ReadFails, SendSnapshot,
                Disconnect
  <1> QED  BY <1>1, <1>2, <1>3, <1>4, <1>5 DEF LeaderboardNext, ServiceNext, WriterStep, ClientStep

\* Who changes the row announces it.
LEMMA RowChanges ==
    ASSUME [LeaderboardNext]_leaderboardVars
    PROVE  Signal' \/ UNCHANGED board
  <1> USE DEF Signal, Announced, board
  <1>1. CASE UNCHANGED leaderboardVars
    BY <1>1 DEF leaderboardVars
  <1>2. CASE WriterStep
    BY <1>2
    DEF WriterStep, BeginFinalize, FinalizeStep, Zadd, Hmset, PublishScore, FinalizeFails,
        CutOff, BreakOff, DeleteNext, BeginDelete, DeleteStep, Zrem, AfterZrem, Del, AfterDel,
        PublishDelete, DeleteFails
  <1>3. CASE ServiceNext
    BY <1>3, ServiceFrame
  <1> QED  BY <1>1, <1>2, <1>3 DEF LeaderboardNext, WriterStep
\* A client that is excused stays so until the next broadcast.
LEMMA ExcuseStays ==
    ASSUME LeaderboardTypeOK, [LeaderboardNext]_leaderboardVars, ~Broadcast,
           NEW c \in Client, Excused(c)
    PROVE  Excused(c)'
  <1>1. CASE Signal
    BY <1>1, SignalStays DEF Excused, TakeUpdate
  <1>2. CASE caster # "sleep"
    <2>1. CASE FetchFails
      BY <2>1 DEF FetchFails, Excused, Signal
    <2>2. CASE ~FetchFails
      BY <1>2, <2>2, WriterFrame
      DEF LeaderboardNext, WriterStep, ServiceNext, Subscriber, OnMessage, SubscriberFails,
          Resubscribe, Broadcaster, TakeUpdate, FetchRank, FetchDetails, Connect, Connection,
          ReadRank, ReadDetails, ReadFails, SendSnapshot, Disconnect, cast, leaderboardVars,
          Excused
    <2> QED  BY <2>1, <2>2
  <1>3. CASE behind[c]
    <2>1. ASSUME NEW d \in Client, ReadFails(d)  PROVE behind'[c]
      BY <1>3, <2>1 DEF ReadFails, LeaderboardTypeOK
    <2>2. ASSUME \A d \in Client : ~ReadFails(d)  PROVE behind' = behind
      BY <2>2, WriterFrame
      DEF LeaderboardNext, WriterStep, ServiceNext, Subscriber, OnMessage, SubscriberFails,
          Resubscribe, Broadcaster, TakeUpdate, FetchRank, FetchDetails, FetchFails, Connect,
          Connection, ReadRank, ReadDetails, SendSnapshot, Disconnect, clients, leaderboardVars
    <2> QED  BY <1>3, <2>1, <2>2 DEF Excused
  <1> QED  BY <1>1, <1>2, <1>3 DEF Excused

-----------------------------------------------------------------------------
(* What has been read and shown                                            *)

\* A row read in two halves is the row, when it has not changed.
LEMMA ReadInHalves ==
    ASSUME LeaderboardTypeOK, NEW r, r # NoRow, r = rank
    PROVE  <<r, details>> = Current
  BY DEF Current, board

\* What the broadcast thread has read is the present row, or a signal that
\* came later is on its way.
LEMMA CastStep ==
    ASSUME LeaderboardTypeOK, CastInv, [LeaderboardNext]_leaderboardVars
    PROVE  CastInv'
  <1>1. CASE Broadcaster
    <2>1. CASE TakeUpdate \/ FetchFails \/ Broadcast
      BY <2>1 DEF TakeUpdate, FetchFails, Broadcast, CastInv
    <2>2. CASE FetchRank
      BY <2>2 DEF FetchRank, CastInv, Current, Nothing, board
    <2>3. CASE FetchDetails
      <3>1. caster' = "send" /\ fetched' = <<fetched[1], details>> /\ fetched[1] # NoRow
        BY <2>3, RowFacts DEF FetchDetails, CastInv
      <3>2. CASE fetched[1] = rank
        <4>1. fetched' = Current
          BY <3>1, <3>2, ReadInHalves
        <4>2. Current' = Current
          BY <2>3 DEF FetchDetails, Current, board
        <4> QED  BY <3>1, <4>1, <4>2 DEF CastInv
      <3>3. CASE Signal
        BY <3>1, <2>3, <3>3, SignalStays DEF CastInv, FetchDetails, TakeUpdate
      <3> QED  BY <2>3, <3>2, <3>3 DEF CastInv, FetchDetails
    <2> QED  BY <1>1, <2>1, <2>2, <2>3 DEF Broadcaster
  <1>2. CASE ~Broadcaster
    <2>1. UNCHANGED cast
      BY <1>2, WriterFrame
      DEF LeaderboardNext, WriterStep, ServiceNext, Subscriber, OnMessage, SubscriberFails,
          Resubscribe, Connect, Connection, ReadRank, ReadDetails, ReadFails, SendSnapshot,
          Disconnect, cast, leaderboardVars
    <2>2. Signal => Signal'
      BY <1>2, SignalStays DEF Broadcaster
    <2>3. Signal' \/ UNCHANGED <<board, Current>>
      BY RowChanges DEF Current, board
    <2> QED  BY <2>1, <2>2, <2>3 DEF CastInv, cast, board
  <1> QED  BY <1>1, <1>2

\* Nothing about c moves but by its connection and by a broadcast.
LEMMA ClientFrame ==
    ASSUME LeaderboardTypeOK, [LeaderboardNext]_leaderboardVars, ~Broadcast,
           NEW c \in Client, ~ClientStep(c)
    PROVE  client'[c] = client[c] /\ snapshot'[c] = snapshot[c] /\ view'[c] = view[c]
  <1>1. CASE UNCHANGED leaderboardVars
    BY <1>1 DEF leaderboardVars
  <1>2. CASE WriterStep
    BY <1>2, WriterFrame DEF clients
  <1>3. CASE Subscriber \/ Broadcaster
    BY <1>3
    DEF Subscriber, OnMessage, SubscriberFails, Resubscribe, Broadcaster, TakeUpdate, FetchRank,
        FetchDetails, FetchFails, clients
  <1>4. ASSUME NEW d \in Client, d # c, ClientStep(d)
        PROVE  client'[c] = client[c] /\ snapshot'[c] = snapshot[c] /\ view'[c] = view[c]
    BY <1>4
    DEF ClientStep, Connect, Connection, ReadRank, ReadDetails, ReadFails, SendSnapshot,
        Disconnect, LeaderboardTypeOK
  <1> QED  BY <1>1, <1>2, <1>3, <1>4 DEF LeaderboardNext, WriterStep, ServiceNext, ClientStep

\* A client that moves by itself shows the present row, or is excused.
LEMMA ClientMoves ==
    ASSUME LeaderboardTypeOK, NEW c \in Client, ClientInv(c), ClientStep(c)
    PROVE  /\ ClientInv(c)' \/ Excused(c)
           /\ client'[c] = "details" => snapshot'[c][1] # NoRow
  <1> USE DEF LeaderboardTypeOK
  <1>1. Current' = Current /\ rank' = rank
    BY ServiceFrame DEF ServiceNext, ClientStep, Current, board
  <1>2. CASE Connect(c)
    BY <1>2 DEF Connect, ClientInv
  <1>3. CASE ReadRank(c)
    BY <1>3, <1>1 DEF ReadRank, ClientInv, Current, Nothing
  <1>4. CASE ReadDetails(c)
    <2>1. /\ client'[c] = "send" /\ snapshot[c][1] # NoRow
          /\ snapshot'[c] = <<snapshot[c][1], details>>
      BY <1>4, RowFacts DEF ReadDetails, ClientInv
    <2>2. CASE snapshot[c][1] = rank
      BY <1>1, <2>1, <2>2, ReadInHalves DEF ClientInv
    <2> QED  BY <1>4, <2>2 DEF ReadDetails, ClientInv
  <1>5. CASE ReadFails(c)
    BY <1>5 DEF ReadFails, ClientInv, Excused
  <1>6. CASE SendSnapshot(c)
    BY <1>6, <1>1 DEF SendSnapshot, ClientInv
  <1>7. CASE Disconnect(c)
    BY <1>7 DEF Disconnect, ClientInv
  <1> QED  BY <1>2, <1>3, <1>4, <1>5, <1>6, <1>7 DEF ClientStep, Connection
\* A broadcast leaves every client with the present row, or with a signal on
\* its way.
LEMMA BroadcastShows ==
    ASSUME LeaderboardTypeOK, ViewInv, Broadcast, NEW c \in Client
    PROVE  ClientInv(c)'
  <1> USE DEF LeaderboardTypeOK
  <1>1. client' = client /\ snapshot' = snapshot
    BY DEF Broadcast
  <1>2. CASE Signal
    <2>1. Excused(c)'
      BY <1>2 DEF Broadcast, signal, writers, Signal, Announced, Excused
    <2> QED  BY <1>1, <2>1 DEF ClientInv, ViewInv
  <1>3. CASE fetched = Current
    <2>1. Current' = Current
      BY DEF Broadcast, board, Current
    <2>2. CASE client[c] = "on"
      BY <1>1, <1>3, <2>1, <2>2 DEF Broadcast, ClientInv
    <2>3. CASE Connecting(c)
      <3>1. Excused(c)'
        BY <2>3 DEF Broadcast, Excused
      <3> QED  BY <1>1, <3>1 DEF ClientInv, ViewInv
    <2> QED  BY <1>1, <2>2, <2>3 DEF ClientInv, Connecting
  <1> QED  BY <1>2, <1>3 DEF ViewInv, CastInv, Broadcast

\* Every step keeps ViewInv: signals, the broadcast thread and the clients.
LEMMA ViewStep ==
    LeaderboardTypeOK /\ ViewInv /\ [LeaderboardNext]_leaderboardVars => ViewInv'
  <1> SUFFICES ASSUME LeaderboardTypeOK, ViewInv, [LeaderboardNext]_leaderboardVars,
                      NEW c \in Client
               PROVE  ClientInv(c)'
    BY CastStep DEF ViewInv
  <1>1. CASE Broadcast
    BY <1>1, BroadcastShows
  <1>2. CASE ~Broadcast
    <2>1. client'[c] = "details" => snapshot'[c][1] # NoRow
      BY <1>2, ClientFrame, ClientMoves DEF ViewInv, ClientInv
    <2>2. CASE Excused(c)'
      BY <2>1, <2>2 DEF ClientInv
    <2>3. CASE ~Excused(c)'
      <3>1. ~Excused(c)
        BY <1>2, <2>3, ExcuseStays
      <3>2. CASE ClientStep(c)
        BY <3>1, <3>2, ClientMoves DEF ViewInv
      <3>3. CASE ~ClientStep(c)
        <4>1. UNCHANGED board
          BY <2>3, RowChanges DEF Excused
        <4>2. Current' = Current /\ rank' = rank
          BY <4>1 DEF Current, board
        <4> QED  BY <1>2, <3>1, <3>3, <4>2, ClientFrame DEF ViewInv, ClientInv
      <3> QED  BY <3>2, <3>3
    <2> QED  BY <2>2, <2>3
  <1> QED  BY <1>1, <1>2

-----------------------------------------------------------------------------
(* The two writers                                                         *)

\* No step leaves half a row behind unless two writers were at it.
LEMMA RowStep ==
    LeaderboardTypeOK /\ RowInv /\ [LeaderboardNext]_leaderboardVars => RowInv'
  <1> SUFFICES ASSUME LeaderboardTypeOK, RowInv, [LeaderboardNext]_leaderboardVars, ~mixed'
               PROVE  WriterInv'
    BY DEF RowInv
  <1> USE DEF WriterInv, RowInv, LeaderboardTypeOK
  <1>1. CASE UNCHANGED leaderboardVars
    BY <1>1 DEF leaderboardVars
  <1>2. CASE BeginFinalize
    BY <1>2 DEF BeginFinalize, board
  <1>3. CASE Zadd
    BY <1>3 DEF Zadd
  <1>4. CASE Hmset
    BY <1>4 DEF Hmset
  <1>5. CASE PublishScore
    BY <1>5 DEF PublishScore, board
  <1>6. CASE BreakOff
    BY <1>6 DEF BreakOff, board
  <1>7. CASE BeginDelete
    BY <1>7 DEF BeginDelete, board
  <1>8. CASE Zrem
    BY <1>8 DEF Zrem, AfterZrem
  <1>9. CASE Del
    BY <1>9 DEF Del, AfterDel
  <1>10. CASE PublishDelete
    BY <1>10 DEF PublishDelete, board
  <1>11. CASE DeleteFails
    BY <1>11 DEF DeleteFails, board
  <1>12. CASE ServiceNext
    BY <1>12, ServiceFrame DEF board, writers
  <1> QED
    BY <1>1, <1>2, <1>3, <1>4, <1>5, <1>6, <1>7, <1>8, <1>9, <1>10, <1>11, <1>12
    DEF LeaderboardNext, FinalizeStep, FinalizeFails, CutOff, DeleteNext, DeleteStep

-----------------------------------------------------------------------------
(* Theorems                                                                *)

BoardInv == LeaderboardTypeOK /\ ViewInv /\ RowInv

\* The board is empty, the writers idle.
LEMMA BoardInitially == LeaderboardInit => BoardInv
  <1> SUFFICES ASSUME LeaderboardInit  PROVE BoardInv
    OBVIOUS
  <1>1. LeaderboardTypeOK
    BY BoardTypeInitially
  <1>2. ViewInv
    BY DEF LeaderboardInit, ViewInv, CastInv, ClientInv
  <1>3. RowInv
    BY DEF LeaderboardInit, RowInv, WriterInv
  <1> QED  BY <1>1, <1>2, <1>3 DEF BoardInv

\* The parts of BoardInv hold in every state.
LEMMA BoardInvariance == LeaderboardSpec => []BoardInv
  <1>1. BoardInv /\ [LeaderboardNext]_leaderboardVars => BoardInv'
    BY BoardTypeStep, ViewStep, RowStep DEF BoardInv
  <1> QED  BY BoardInitially, <1>1, PTL DEF LeaderboardSpec

\* The variables of the leaderboard keep their types.
THEOREM BoardTypeCorrect == LeaderboardSpec => []LeaderboardTypeOK
  <1>1. BoardInv => LeaderboardTypeOK
    BY DEF BoardInv
  <1> QED  BY BoardInvariance, <1>1, PTL

\* No update is lost between Redis and the browser, however many clients come
\* and go and however often a connection breaks.
THEOREM UpToDateAlways == LeaderboardSpec => []UpToDate
  <1>1. BoardInv => UpToDate
    BY DEF BoardInv, ViewInv, ClientInv, UpToDate, Excused, Signal
  <1> QED  BY BoardInvariance, <1>1, PTL

\* The two keys of a row stay together, unless a deletion and a score overlap
\* or one of them breaks off half way.
THEOREM RowIsWholeAlways == LeaderboardSpec => []RowIsWhole
  <1>1. BoardInv => RowIsWhole
    BY DEF BoardInv, RowInv, WriterInv, RowIsWhole
  <1> QED  BY BoardInvariance, <1>1, PTL

-----------------------------------------------------------------------------
(***************************************************************************)
(* Pipeline                                                                *)
(***************************************************************************)

\* Every step of the pipeline is a step or a stutter of each half.
LEMMA StepMaps ==
    ASSUME [Next]_vars
    PROVE  [LeaderboardNext]_leaderboardVars /\ [TelemetryNext]_telemetryVars
  <1>1. CASE UNCHANGED vars
    BY <1>1 DEF vars
  <1>2. CASE FinalizeRun
    BY <1>2 DEF FinalizeRun, LeaderboardNext
  <1>3. CASE EngineStep
    BY <1>3 DEF EngineStep, LeaderboardNext, TelemetryNext, EngineNext
  <1>4. CASE Restart
    BY <1>4 DEF Restart, LeaderboardNext, TelemetryNext
  <1>5. CASE WorkerNext /\ UNCHANGED leaderboardVars
    BY <1>5 DEF TelemetryNext
  <1>6. CASE (DeleteNext \/ ServiceNext) /\ UNCHANGED telemetryVars
    BY <1>6 DEF LeaderboardNext
  <1> QED  BY <1>1, <1>2, <1>3, <1>4, <1>5, <1>6 DEF Next

\* The pipeline implements the leaderboard: BeginFinalize stands for a
\* FinalizeRun of the engine that found metrics for its run.
THEOREM ImplementsLeaderboard == Spec => LeaderboardSpec
  <1>1. Init => LeaderboardInit
    BY DEF Init
  <1>2. [Next]_vars => [LeaderboardNext]_leaderboardVars
    BY StepMaps
  <1> QED  BY <1>1, <1>2, PTL DEF Spec, LeaderboardSpec

\* The pipeline implements the telemetry, whose engine never waits for Redis.
THEOREM ImplementsTelemetry == Spec => TelemetrySpec
  <1>1. Init => TelemetryInit
    BY DEF Init
  <1>2. [Next]_vars => [TelemetryNext]_telemetryVars
    BY StepMaps
  <1> QED  BY <1>1, <1>2, PTL DEF Spec, TelemetrySpec

\* In the whole pipeline, no update is lost between Redis and the browser.
THEOREM PipelineUpToDate == Spec => []UpToDate
  BY ImplementsLeaderboard, UpToDateAlways, PTL

\* In the whole pipeline, a row is whole while nobody works on it.
THEOREM PipelineRowIsWhole == Spec => []RowIsWhole
  BY ImplementsLeaderboard, RowIsWholeAlways, PTL

\* In the whole pipeline, a worker that returns from main leaves no event
\* behind that its last flush could see.
THEOREM PipelineDelivers == Spec => []DeliveredOnExit
  BY ImplementsTelemetry, DeliveredOnExitAlways, PTL
\* In the whole pipeline, an event counts once in the score and in one second
\* of the throughput, but for a retry inside the producer.
THEOREM PipelineCountsOnce == Spec => []CountedOnce
  BY ImplementsTelemetry, CountedOnceAlways, PTL
=============================================================================
