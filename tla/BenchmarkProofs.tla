-------------------------- MODULE BenchmarkProofs ---------------------------
(***************************************************************************)
(* What is proved about one benchmark in time, for any durations and any   *)
(* number of stops: the bots that run are those of the assignment the      *)
(* orchestrator waits for, and none are left when it says completed.       *)
(*                                                                         *)
(* Every step is a step or a stutter of Orchestrator and of BotWorker, so  *)
(* the invariants of both hold here and are cited as they stand.  What is  *)
(* new relates the two: which message the worker has come to (KindInv),    *)
(* which of them is the newest assignment (Newest), and that from the      *)
(* moment the worker has it, its bots end no later than the orchestrator's *)
(* wait for it (WaitInv, OverInv).                                         *)
(***************************************************************************)
EXTENDS Benchmark, TLAPS

OP == INSTANCE OrchestratorProofs
WP == INSTANCE BotWorkerProofs

ClockTypeOK ==
    /\ offset \in 0..Len(topic) /\ now \in Nat
    /\ due \in [Run -> Nat] /\ deadline \in [Fleet -> Nat]

\* The fleet in the map is that of the last assignment received, until the
\* consumer has taken it out on behalf of the next.
ListedInv ==
    listed # 0 => listed = IF consumer = "take" /\ last = "assignment" THEN count - 1 ELSE count

\* What the consumer handles, or has handled last, is the message it polled last.
KindInv == offset > 0 => last = IF topic[offset].phase = "stop" THEN "stop" ELSE "assignment"

\* Only stops follow the assignment at k.
Newest(k) ==
    /\ k \in 1..Len(topic) /\ topic[k].phase # "stop"
    /\ \A j \in 1..Len(topic) : j > k => topic[j].phase = "stop"

\* The thread waits for the assignment at k.  In the last phase the worker is
\* yet to receive it, and no time has passed, or has received it, and its bots
\* end no later than the wait.
WaitsFor(k) ==
    /\ Newest(k) /\ topic[k] = OP!Assignment(1)
    /\ at[1] = 5 => \/ offset < k /\ due[1] = now + PhaseTime[5]
                    \/ offset >= k /\ count \in Fleet /\ deadline[count] <= due[1]

\* While the orchestrator waits, the newest assignment is the one it waits for.
WaitInv == pc[1] = "wait" => \E k \in 1..Len(topic) : WaitsFor(k)

\* The last wait is over.
Over == pc[1] \in {"complete", "go_idle"} \/ status[1] = "completed"

OverInv ==
    /\ status[1] = "completed" => pc[1] \in {"go_idle", "done"}
    /\ Over => /\ \E k \in 1..Len(topic) : Newest(k) /\ offset >= k
               /\ count \in Fleet /\ deadline[count] <= now

Inv == OP!IInv /\ WP!IInv /\ ClockTypeOK /\ ListedInv /\ KindInv /\ WaitInv /\ OverInv

-----------------------------------------------------------------------------
(* A step of the benchmark is a step of each part                          *)

\* What the parts assume of their constants.
LEMMA Assumptions ==
    /\ RampSteps \in Nat \ {0}
    /\ MaxStarts \in Nat \ {0} /\ MaxStops \in Nat /\ MaxFleets \in Nat \ {0}
    /\ \A p \in 1..5 : PhaseTime[p] \in Nat \ {0}
    /\ StepTime \in Nat \ {0}
  <1>1. /\ \A p \in 1..5 : PhaseTime[p] \in Nat \ {0}
        /\ StepTime \in Nat \ {0}
    BY TimeAssumption
  <1>2. PICK d \in Nat \ {0} : d = PhaseTime[2]
    BY <1>1
  <1>3. CASE d < StepTime
    BY <1>1, <1>2, <1>3, BoundsAssumption DEF RampSteps, RampTime
  <1>4. CASE ~(d < StepTime)
    <2>1. PICK q \in Int : q = d \div StepTime
      BY <1>1
    <2>2. q > 0
      BY <1>1, <1>4, <2>1
    <2>3. RampSteps = q
      BY <1>2, <1>4, <2>1 DEF RampSteps, RampTime
    <2> QED  BY <1>1, <2>2, <2>3, BoundsAssumption
  <1> QED  BY <1>3, <1>4

\* The operators of the two instances of Orchestrator are the same.
LEMMA SameThread ==
    ASSUME NEW r
    PROVE  Orchestration!ThreadStep(r) = OP!ThreadStep(r)
  BY DEF Orchestration!ThreadStep, OP!ThreadStep,
      Orchestration!CheckCancel, OP!CheckCancel,
      Orchestration!UpdateRunPhase, OP!UpdateRunPhase,
      Orchestration!CheckCancelInRamp, OP!CheckCancelInRamp,
      Orchestration!PublishAssignment, OP!PublishAssignment,
      Orchestration!PublishFails, OP!PublishFails,
      Orchestration!WaitForPhase, OP!WaitForPhase,
      Orchestration!Complete, OP!Complete, Orchestration!GoIdle, OP!GoIdle,
      Orchestration!NextPhase, OP!NextPhase, Orchestration!LastOfRamp, OP!LastOfRamp,
      Orchestration!IsRamp, OP!IsRamp, Orchestration!Phases, OP!Phases,
      Orchestration!StatusIn, OP!StatusIn, Orchestration!Assignment, OP!Assignment,
      Orchestration!Published, OP!Published, Orchestration!Lost, OP!Lost,
      Orchestration!Goto, OP!Goto

\* So are the requests,
LEMMA SameRequests ==
    /\ Orchestration!StartBenchmark = OP!StartBenchmark
    /\ Orchestration!StopBenchmark = OP!StopBenchmark
    /\ \A r : Orchestration!PublishStop(r) = OP!PublishStop(r)
  BY DEF Orchestration!StartBenchmark, OP!StartBenchmark,
      Orchestration!StopBenchmark, OP!StopBenchmark,
      Orchestration!PublishStop, OP!PublishStop,
      Orchestration!MayStart, OP!MayStart, Orchestration!Terminal, OP!Terminal,
      Orchestration!StopOf, OP!StopOf, Orchestration!threadVars, OP!threadVars,
      Orchestration!Published, OP!Published, Orchestration!Lost, OP!Lost,
      Orchestration!Goto, OP!Goto

\* and the steps of the worker.
LEMMA SameWorker ==
    /\ Worker!ReceiveAssignment = WP!ReceiveAssignment
    /\ Worker!ReceiveStop = WP!ReceiveStop
    /\ Worker!ConsumerStep = WP!ConsumerStep
    /\ \A f : Worker!TimerStep(f) = WP!TimerStep(f) /\ Worker!BotsEnd(f) = WP!BotsEnd(f)
  <1>1. /\ Worker!ReceiveAssignment = WP!ReceiveAssignment
        /\ Worker!ReceiveStop = WP!ReceiveStop
    BY DEF Worker!ReceiveAssignment, WP!ReceiveAssignment, Worker!ReceiveStop, WP!ReceiveStop,
        Worker!timerVars, WP!timerVars
  <1>2. Worker!ConsumerStep = WP!ConsumerStep
    BY DEF Worker!ConsumerStep, WP!ConsumerStep, Worker!ConsumerExits, WP!ConsumerExits,
        Worker!ConsumerTakes, WP!ConsumerTakes, Worker!ConsumerJoins, WP!ConsumerJoins,
        Worker!BuildFleet, WP!BuildFleet, Worker!ListFleet, WP!ListFleet,
        Worker!ArmTimer, WP!ArmTimer, Worker!Taken, WP!Taken, Worker!Joined, WP!Joined,
        Worker!Nobody, WP!Nobody, Worker!timerVars, WP!timerVars
  <1>3. ASSUME NEW f
        PROVE  Worker!TimerStep(f) = WP!TimerStep(f) /\ Worker!BotsEnd(f) = WP!BotsEnd(f)
    BY DEF Worker!TimerStep, WP!TimerStep, Worker!TimerLocks, WP!TimerLocks,
        Worker!TimerWaits, WP!TimerWaits, Worker!TimesOut, WP!TimesOut,
        Worker!TimerWakes, WP!TimerWakes, Worker!TimerTakes, WP!TimerTakes,
        Worker!TimerJoins, WP!TimerJoins, Worker!TimerAt, WP!TimerAt,
        Worker!Taken, WP!Taken, Worker!Joined, WP!Joined, Worker!Nobody, WP!Nobody,
        Worker!BotsEnd, WP!BotsEnd, Worker!timerVars, WP!timerVars,
        Worker!consumerVars, WP!consumerVars
  <1> QED  BY <1>1, <1>2, <1>3

\* The initial states are initial states of both parts.
LEMMA PartsInitially == Init => OP!IInv /\ WP!IInv
  <1> SUFFICES ASSUME Init  PROVE OP!IInv /\ WP!IInv
    OBVIOUS
  <1>1. OP!Init
    BY DEF Init, Orchestration!Init, OP!Init, Orchestration!Run, OP!Run
  <1>2. WP!Init
    BY DEF Init, Worker!Init, WP!Init, Worker!Fleet, WP!Fleet, Worker!Nobody, WP!Nobody
  <1> QED  BY <1>1, <1>2, Assumptions, OP!InitInv, WP!InitInv

\* The moves of the worker that are not a poll.
WorkerMoves == Work \/ \E f \in Fleet : Time(f) \/ BotsEnd(f)

\* They leave the orchestrator, the topic and the clock alone.
LEMMA WorkerFrame ==
    ASSUME WorkerMoves
    PROVE  /\ UNCHANGED <<orchestration, offset, now, due, deadline, count, last>>
           /\ WP!ConsumerStep \/ \E f \in Fleet : WP!TimerStep(f) \/ WP!BotsEnd(f)
  <1>1. CASE Work
    <2>1. WP!ConsumerStep
      BY <1>1, SameWorker DEF Work
    <2>2. UNCHANGED <<count, last>>
      BY <2>1 DEF WP!ConsumerStep, WP!ConsumerExits, WP!ConsumerTakes, WP!ConsumerJoins,
          WP!BuildFleet, WP!ListFleet, WP!ArmTimer
    <2> QED  BY <1>1, <2>1, <2>2 DEF Work
  <1>2. ASSUME NEW f \in Fleet, Time(f)
        PROVE  /\ UNCHANGED <<orchestration, offset, now, due, deadline, count, last>>
               /\ WP!TimerStep(f)
    <2>1. WP!TimerStep(f)
      BY <1>2, SameWorker DEF Time
    <2>2. UNCHANGED <<count, last>>
      BY <2>1 DEF WP!TimerStep, WP!TimerLocks, WP!TimerWaits, WP!TimesOut, WP!TimerWakes,
          WP!TimerTakes, WP!TimerJoins, WP!consumerVars
    <2> QED  BY <1>2, <2>1, <2>2 DEF Time
  <1>3. ASSUME NEW f \in Fleet, BotsEnd(f)
        PROVE  /\ UNCHANGED <<orchestration, offset, now, due, deadline, count, last>>
               /\ WP!BotsEnd(f)
    <2>1. WP!BotsEnd(f)
      BY <1>3, SameWorker DEF BotsEnd
    <2> QED  BY <1>3, <2>1 DEF BotsEnd, WP!BotsEnd, WP!consumerVars
  <1> QED  BY <1>1, <1>2, <1>3 DEF WorkerMoves

\* A poll is the receipt of the message after those polled so far.
LEMMA PollCases ==
    ASSUME Poll
    PROVE  /\ UNCHANGED <<orchestration, now, due>>
           /\ offset < Len(topic) /\ offset' = offset + 1
           /\ \/ /\ topic[offset + 1].phase = "stop"
                 /\ WP!ReceiveStop /\ deadline' = deadline
                 /\ last' = "stop" /\ count' = count
              \/ /\ topic[offset + 1].phase # "stop"
                 /\ WP!ReceiveAssignment /\ last' = "assignment"
                 /\ count < MaxFleets /\ count' = count + 1
                 /\ deadline' = [deadline EXCEPT ![count'] = now + DurationOf(topic[offset + 1])]
  <1>1. CASE topic[offset + 1].phase = "stop"
    <2>1. WP!ReceiveStop /\ deadline' = deadline
      BY <1>1, SameWorker DEF Poll
    <2> QED  BY <1>1, <2>1 DEF Poll, WP!ReceiveStop
  <1>2. CASE topic[offset + 1].phase # "stop"
    <2>1. /\ WP!ReceiveAssignment
          /\ deadline' = [deadline EXCEPT ![count'] = now + DurationOf(topic[offset + 1])]
      BY <1>2, SameWorker DEF Poll
    <2> QED  BY <1>2, <2>1 DEF Poll, WP!ReceiveAssignment
  <1> QED  BY <1>1, <1>2

\* The moves of the orchestrator.
OrchestratorMoves == Request \/ \E r \in Run : PublishStop(r) \/ Drive(r)

\* They leave the worker and the clock alone.
LEMMA OrchestratorFrame ==
    ASSUME OrchestratorMoves
    PROVE  /\ UNCHANGED <<worker, offset, now, deadline>>
           /\ OP!Next
  <1>1. CASE Request
    BY <1>1, SameRequests DEF Request, OP!Next
  <1>2. ASSUME NEW r \in Run, PublishStop(r)
        PROVE  UNCHANGED <<worker, offset, now, deadline>> /\ OP!Next
    BY <1>2, SameRequests DEF PublishStop, OP!Next, Run, OP!Run
  <1>3. ASSUME NEW r \in Run, Drive(r)
        PROVE  UNCHANGED <<worker, offset, now, deadline>> /\ OP!Next
    BY <1>3, SameThread DEF Drive, OP!Next, Run, OP!Run
  <1> QED  BY <1>1, <1>2, <1>3 DEF OrchestratorMoves

\* The kinds of steps.
LEMMA NextCases ==
    ASSUME [Next]_vars
    PROVE  \/ OrchestratorMoves \/ Poll \/ WorkerMoves
           \/ Tick \/ UNCHANGED vars
  BY DEF Next, OrchestratorMoves, WorkerMoves

\* What is proved of the orchestrator and of the worker holds of the benchmark.
LEMMA PartsStep ==
    ASSUME OP!IInv, WP!IInv, [Next]_vars
    PROVE  OP!IInv' /\ WP!IInv'
  <1>1. [OP!Next]_(OP!vars)
    <2>1. CASE OrchestratorMoves
      BY <2>1, OrchestratorFrame
    <2>2. CASE ~OrchestratorMoves
      <3>1. UNCHANGED orchestration
        BY <2>2, NextCases, WorkerFrame, PollCases DEF Tick, vars, orchestration
      <3> QED  BY <3>1 DEF orchestration, OP!vars
    <2> QED  BY <2>1, <2>2
  <1>2. [WP!Next]_(WP!vars)
    <2>1. CASE WorkerMoves
      <3>1. WP!ConsumerStep \/ \E f \in Fleet : WP!TimerStep(f) \/ WP!BotsEnd(f)
        BY <2>1, WorkerFrame
      <3> QED  BY <3>1 DEF WP!Next, Fleet, WP!Fleet
    <2>2. CASE Poll
      <3>1. WP!ReceiveStop \/ WP!ReceiveAssignment
        BY <2>2, PollCases
      <3> QED  BY <3>1 DEF WP!Next
    <2>3. CASE ~WorkerMoves /\ ~Poll
      <3>1. UNCHANGED worker
        BY <2>3, NextCases, OrchestratorFrame DEF Tick, vars, worker
      <3> QED  BY <3>1 DEF worker, WP!vars
    <2> QED  BY <2>1, <2>2, <2>3
  <1>3. OP!IInv'
    BY <1>1, Assumptions, OP!NextInv
  <1>4. WP!IInv'
    BY <1>2, Assumptions, WP!NextInv
  <1> QED  BY <1>3, <1>4

-----------------------------------------------------------------------------
(* The topic and the clock                                                 *)

\* The orchestrator adds messages to the topic, one at a time.
TopicGrows ==
    \/ topic' = topic
    \/ \E m \in OP!Message : topic' = Append(topic, m)

\* Whatever the orchestrator does, no message leaves the topic.
LEMMA OrchestratorAppends ==
    ASSUME OP!TypeOK, OrchestratorMoves
    PROVE  TopicGrows
  <1>1. CASE Request
    BY <1>1, SameRequests DEF Request, OP!StartBenchmark, OP!StopBenchmark, TopicGrows
  <1>2. ASSUME NEW r \in Run, PublishStop(r)  PROVE TopicGrows
    <2>1. OP!PublishStop(r)
      BY <1>2, SameRequests DEF PublishStop
    <2>2. OP!StopOf(r) \in OP!Message
      BY DEF OP!StopOf, OP!Message, Run, OP!Run
    <2> QED  BY <2>1, <2>2 DEF OP!PublishStop, OP!Published, OP!Lost, TopicGrows
  <1>3. ASSUME NEW r \in Run, Drive(r)  PROVE TopicGrows
    <2>1. OP!ThreadStep(r)
      BY <1>3, SameThread DEF Drive
    <2>2. OP!Assignment(r) \in OP!Message
      BY DEF OP!Assignment, OP!Message, OP!TypeOK, Run, OP!Run
    <2> QED
      BY <2>1, <2>2
          DEF OP!ThreadStep, OP!CheckCancel, OP!UpdateRunPhase, OP!CheckCancelInRamp,
              OP!PublishAssignment, OP!PublishFails, OP!WaitForPhase, OP!Complete, OP!GoIdle,
              OP!Published, OP!Lost, TopicGrows
  <1> QED  BY <1>1, <1>2, <1>3 DEF OrchestratorMoves

\* What stands in the topic stays there.
LEMMA TopicFacts ==
    ASSUME OP!TypeOK, TopicGrows
    PROVE  /\ Len(topic) \in Nat /\ Len(topic') \in Nat /\ Len(topic) <= Len(topic')
           /\ \A k \in 1..Len(topic) : k \in 1..Len(topic') /\ topic'[k] = topic[k]
  <1>1. topic \in Seq(OP!Message) /\ Len(topic) \in Nat
    BY DEF OP!TypeOK
  <1>2. CASE topic' = topic
    BY <1>1, <1>2
  <1>3. ASSUME NEW m \in OP!Message, topic' = Append(topic, m)
        PROVE  /\ Len(topic') = Len(topic) + 1
               /\ \A k \in 1..Len(topic) : topic'[k] = topic[k]
    BY <1>1, <1>3
  <1> QED  BY <1>1, <1>2, <1>3 DEF TopicGrows

\* A duration is a number of seconds.
LEMMA Durations ==
    ASSUME NEW m \in OP!Message, m.phase # "stop"
    PROVE  DurationOf(m) \in Nat /\ (m.phase = "cooldown" => DurationOf(m) = PhaseTime[5])
  <1>1. m.phase \in {"warmup", "ramp", "peak", "burst", "cooldown"} /\ m.step \in Nat
    <2>1. \A p \in 1..5 : OP!Phases[p] \in {"warmup", "ramp", "peak", "burst", "cooldown"}
      <3>1. \A p \in 1..5 : p = 1 \/ p = 2 \/ p = 3 \/ p = 4 \/ p = 5
        OBVIOUS
      <3> QED  BY <3>1 DEF OP!Phases
    <2>2. Len(OP!Phases) = 5
      BY DEF OP!Phases
    <2> QED  BY <2>1, <2>2 DEF OP!Message
  <1>2. CASE m.phase = "ramp"
    <2>1. PICK x \in Int : x = RampTime - m.step * StepTime
      BY <1>1, Assumptions DEF RampTime
    <2>2. DurationOf(m) = IF x < StepTime THEN StepTime ELSE x
      BY <1>2, <2>1 DEF DurationOf
    <2> QED  BY <1>2, <2>1, <2>2, Assumptions
  <1>3. CASE m.phase # "ramp"
    BY <1>1, <1>3, Assumptions DEF DurationOf
  <1> QED  BY <1>2, <1>3

\* How long a wait lasts.
LEMMA Waits ==
    ASSUME OP!TypeOK, NEW r \in Run
    PROVE  WaitOf(r) \in Nat /\ (at[r] = 5 => WaitOf(r) = PhaseTime[5])
  <1>1. at[r] \in 1..5
    BY DEF OP!TypeOK, OP!Phases, Run, OP!Run
  <1>2. ~Orchestration!IsRamp(5)
    BY DEF Orchestration!IsRamp, Orchestration!Phases
  <1> QED  BY <1>1, <1>2, Assumptions DEF WaitOf

\* Clocks and offsets keep their types.
LEMMA ClockTypes ==
    ASSUME OP!TypeOK, ClockTypeOK, [Next]_vars
    PROVE  ClockTypeOK'
  <1>1. CASE OrchestratorMoves
    <2>1. offset' = offset /\ now' = now /\ deadline' = deadline
      BY <1>1, OrchestratorFrame
    <2>2. offset \in 0..Len(topic')
      BY <1>1, OrchestratorAppends, TopicFacts DEF ClockTypeOK
    <2>3. due' \in [Run -> Nat]
      <3>1. ASSUME NEW r \in Run, Drive(r)  PROVE due' \in [Run -> Nat]
        <4>1. now + WaitOf(r) \in Nat
          BY Waits DEF ClockTypeOK
        <4>2. due' = IF pc'[r] = "wait" THEN [due EXCEPT ![r] = now + WaitOf(r)] ELSE due
          BY <3>1 DEF Drive
        <4> QED  BY <4>1, <4>2 DEF ClockTypeOK
      <3> QED  BY <1>1, <3>1 DEF OrchestratorMoves, Request, PublishStop, ClockTypeOK
    <2> QED  BY <2>1, <2>2, <2>3 DEF ClockTypeOK
  <1>2. CASE Poll
    <2>1. /\ UNCHANGED <<topic, now, due>>
          /\ offset < Len(topic) /\ offset' = offset + 1
      BY <1>2, PollCases DEF orchestration
    <2>2. Len(topic) \in Nat /\ offset + 1 \in 1..Len(topic) /\ topic \in Seq(OP!Message)
      BY <2>1 DEF ClockTypeOK, OP!TypeOK
    <2>3. CASE deadline' = deadline
      BY <2>1, <2>2, <2>3 DEF ClockTypeOK
    <2>4. CASE deadline' # deadline
      <3>1. /\ topic[offset + 1].phase # "stop"
            /\ deadline' = [deadline EXCEPT ![count'] = now + DurationOf(topic[offset + 1])]
        BY <1>2, <2>4, PollCases
      <3>2. DurationOf(topic[offset + 1]) \in Nat
        BY <2>2, <3>1, Durations
      <3>3. PICK d \in Nat : d = now + DurationOf(topic[offset + 1])
        BY <3>2 DEF ClockTypeOK
      <3>4. deadline' = [deadline EXCEPT ![count'] = d]
        BY <3>1, <3>3
      <3>5. deadline' \in [Fleet -> Nat]
        BY <3>4 DEF ClockTypeOK
      <3> QED  BY <2>1, <2>2, <3>5 DEF ClockTypeOK
    <2> QED  BY <2>3, <2>4
  <1>3. CASE WorkerMoves
    BY <1>3, WorkerFrame DEF ClockTypeOK, orchestration
  <1>4. CASE Tick
    BY <1>4 DEF ClockTypeOK, Tick, orchestration
  <1>5. CASE UNCHANGED vars
    BY <1>5 DEF ClockTypeOK, vars
  <1> QED  BY <1>1, <1>2, <1>3, <1>4, <1>5, NextCases

-----------------------------------------------------------------------------
(* The worker and the message it has come to                               *)

\* The fleet that is listed is the newest.
LEMMA ListedStep ==
    ASSUME WP!IInv, ListedInv, [Next]_vars
    PROVE  ListedInv'
  <1>1. /\ listed # 0 => consumer \in {"arm", "poll", "take", "exited"}
        /\ count \in Nat
    BY DEF WP!IInv, WP!TypeOK, WP!OwnerInv, WP!Nobody
  <1>2. CASE OrchestratorMoves \/ Tick \/ UNCHANGED vars
    <2>1. UNCHANGED <<listed, consumer, last, count>>
      BY <1>2, OrchestratorFrame DEF Tick, worker, vars
    <2> QED  BY <2>1 DEF ListedInv
  <1>3. CASE Poll
    <2>1. WP!ReceiveStop \/ WP!ReceiveAssignment
      BY <1>3, PollCases
    <2>2. CASE WP!ReceiveStop
      BY <1>1, <2>2 DEF WP!ReceiveStop, ListedInv
    <2>3. CASE WP!ReceiveAssignment
      BY <1>1, <2>3 DEF WP!ReceiveAssignment, ListedInv
    <2> QED  BY <2>1, <2>2, <2>3
  <1>4. CASE WorkerMoves
    <2>1. count' = count /\ last' = last
      BY <1>4, WorkerFrame
    <2>2. CASE WP!ConsumerStep
      BY <1>1, <2>1, <2>2
          DEF WP!ConsumerStep, WP!ConsumerExits, WP!ConsumerTakes, WP!ConsumerJoins,
              WP!BuildFleet, WP!ListFleet, WP!ArmTimer, WP!Nobody, ListedInv
    <2>3. ASSUME NEW f \in Fleet, WP!TimerStep(f) \/ WP!BotsEnd(f)
          PROVE  consumer' = consumer /\ (listed' = listed \/ listed' = 0)
      BY <2>3 DEF WP!TimerStep, WP!TimerLocks, WP!TimerWaits, WP!TimesOut, WP!TimerWakes,
          WP!TimerTakes, WP!TimerJoins, WP!BotsEnd, WP!consumerVars, WP!Nobody
    <2> QED  BY <1>4, <2>1, <2>2, <2>3, WorkerFrame DEF ListedInv
  <1> QED  BY <1>2, <1>3, <1>4, NextCases

\* The consumer's message is the one polled last.
LEMMA KindStep ==
    ASSUME OP!TypeOK, ClockTypeOK, KindInv, [Next]_vars
    PROVE  KindInv'
  <1>1. CASE OrchestratorMoves
    <2>1. offset' = offset /\ last' = last
      BY <1>1, OrchestratorFrame DEF worker
    <2>2. offset > 0 => topic'[offset] = topic[offset]
      BY <1>1, OrchestratorAppends, TopicFacts DEF ClockTypeOK
    <2> QED  BY <2>1, <2>2 DEF KindInv
  <1>2. CASE Poll
    <2>1. topic' = topic
      BY <1>2, PollCases DEF orchestration
    <2> QED  BY <1>2, <2>1, PollCases DEF KindInv
  <1>3. CASE WorkerMoves \/ Tick \/ UNCHANGED vars
    <2>1. UNCHANGED <<topic, offset, last>>
      BY <1>3, WorkerFrame DEF Tick, orchestration, worker, vars
    <2> QED  BY <2>1 DEF KindInv
  <1> QED  BY <1>1, <1>2, <1>3, NextCases

\* When all have settled, the only fleet whose bots may run is that of the last
\* assignment, and the last message was no stop.
LEMMA WhenSettled ==
    ASSUME WP!IInv, ClockTypeOK, ListedInv, KindInv, Settled, alive # {}
    PROVE  /\ alive = {count} /\ count \in Fleet /\ now < deadline[count]
           /\ \A k \in 1..Len(topic) : k = Len(topic) => topic[k].phase # "stop"
  <1>1. /\ consumer = "poll" /\ offset = Len(topic)
        /\ \A f \in Fleet : timer[f] \in {"none", "done", "waiting"}
        /\ \A f \in Fleet : f \in alive => now < deadline[f]
    BY DEF Settled
  <1>2. alive \subseteq Fleet /\ \A f \in Fleet : f # 0
    BY BoundsAssumption DEF WP!IInv, WP!TypeOK, Fleet, WP!Fleet
  <1>3. held = 0 /\ \A f \in Fleet : victim[f] = 0
    BY <1>1 DEF WP!IInv, WP!OwnerInv, WP!Nobody, Fleet, WP!Fleet
  <1>4. \A f \in alive : f = listed
    BY <1>1, <1>2, <1>3 DEF WP!IInv, WP!NoFleetLost, WP!BeingStopped, Fleet, WP!Fleet
  <1>5. listed # 0 /\ listed = count /\ alive = {count}
    BY <1>1, <1>2, <1>4 DEF ListedInv
  <1>6. last # "stop"
    BY <1>1, <1>5 DEF WP!IInv, WP!OwnerInv, WP!Nobody
  <1>7. ASSUME NEW k \in 1..Len(topic), k = Len(topic)  PROVE topic[k].phase # "stop"
    BY <1>1, <1>6, <1>7 DEF KindInv
  <1> QED  BY <1>1, <1>2, <1>5, <1>7

-----------------------------------------------------------------------------
(* The one run object and its thread                                       *)

\* What a request of the only run object does.
LEMMA RequestCases ==
    ASSUME MaxStarts = 1, OP!TypeOK, Request
    PROVE  /\ UNCHANGED <<topic, worker, offset, now, due, deadline>>
           /\ \/ pc'[1] = "check" /\ status'[1] = "pending"
              \/ /\ UNCHANGED <<pc, at, step>>
                 /\ status[1] # "completed" /\ status'[1] = "stopped"
  <1>1. current \in {0, 1} /\ 1 \in OP!Run
    BY DEF OP!TypeOK, OP!Run
  <1>2. CASE OP!StartBenchmark
    <2>1. current = 0
      BY <1>1, <1>2 DEF OP!StartBenchmark
    <2> QED  BY <1>1, <1>2, <2>1 DEF Request, OP!StartBenchmark, OP!Goto, OP!TypeOK
  <1>3. CASE OP!StopBenchmark
    <2>1. current = 1
      BY <1>1, <1>3 DEF OP!StopBenchmark
    <2> QED
      BY <1>1, <1>3, <2>1 DEF Request, OP!StopBenchmark, OP!threadVars, OP!TypeOK
  <1> QED  BY <1>2, <1>3, SameRequests DEF Request

\* What a step of its thread does: nothing to the topic, or it sends the
\* assignment of the present phase and waits for it, or sends it and does not.
LEMMA DriveCases ==
    ASSUME MaxStarts = 1, OP!IInv, OverInv, Drive(1)
    PROVE  \/ /\ topic' = topic /\ pc'[1] # "wait" /\ due' = due
              /\ status'[1] = "completed" => pc'[1] \in {"go_idle", "done"}
              /\ Over' => Over \/ (pc[1] = "wait" /\ at[1] = 5 /\ now >= due[1])
           \/ /\ ~Over /\ topic' = Append(topic, OP!Assignment(1))
              /\ UNCHANGED <<at, step, status>> /\ pc'[1] = "wait"
              /\ due' = [due EXCEPT ![1] = now + WaitOf(1)]
           \/ /\ ~Over /\ topic' = Append(topic, OP!Assignment(1))
              /\ pc'[1] # "wait" /\ ~Over' /\ due' = due
  <1>1. 1 \in OP!Run /\ at[1] \in 1..5 /\ OP!TypeOK
    BY DEF OP!IInv, OP!TypeOK, OP!Run, OP!Phases
  <1>2. /\ OP!ThreadStep(1)
        /\ pc[1] = "wait" => cancel[1] \/ now >= due[1]
        /\ due' = IF pc'[1] = "wait" THEN [due EXCEPT ![1] = now + WaitOf(1)] ELSE due
    BY SameThread DEF Drive
  <1>3. status[1] = "completed" => pc[1] \in {"go_idle", "done"}
    BY DEF OverInv
  <1>4. /\ OP!StatusIn[at[1]] # "completed" /\ Len(OP!Phases) = 5
        /\ OP!IsRamp(at[1]) => at[1] < 5
    BY <1>1, Assumptions, OP!PhaseFacts DEF OP!Running
  <1>5. CASE OP!CheckCancel(1)
    BY <1>1, <1>2, <1>3, <1>5 DEF OP!CheckCancel, OP!Goto, OP!TypeOK, Over
  <1>6. CASE OP!UpdateRunPhase(1)
    BY <1>1, <1>2, <1>4, <1>6 DEF OP!UpdateRunPhase, OP!Goto, OP!TypeOK, Over
  <1>7. CASE OP!CheckCancelInRamp(1)
    BY <1>1, <1>2, <1>3, <1>7 DEF OP!CheckCancelInRamp, OP!Goto, OP!TypeOK, Over
  <1>8. CASE OP!PublishAssignment(1)
    <2>1. ~Over /\ topic' = Append(topic, OP!Assignment(1)) /\ status' = status
      BY <1>3, <1>8 DEF OP!PublishAssignment, OP!Published, Over
    <2>2. CASE OP!LastOfRamp(1)
      <3>1. pc'[1] = "check"
        BY <1>1, <1>4, <1>8, <2>2
            DEF OP!PublishAssignment, OP!LastOfRamp, OP!NextPhase, OP!Goto, OP!TypeOK
      <3> QED  BY <1>2, <2>1, <3>1 DEF Over
    <2>3. CASE ~OP!LastOfRamp(1)
      <3>1. pc'[1] = "wait" /\ at' = at /\ step' = step
        BY <1>1, <1>8, <2>3 DEF OP!PublishAssignment, OP!Goto, OP!TypeOK
      <3> QED  BY <1>2, <2>1, <3>1
    <2> QED  BY <2>2, <2>3
  <1>9. CASE OP!PublishFails(1)
    <2>1. ~Over /\ pc'[1] = "done" /\ status'[1] = "failed"
      BY <1>1, <1>3, <1>9 DEF OP!PublishFails, OP!Goto, OP!TypeOK, Over
    <2>2. ~Over'
      BY <2>1 DEF Over
    <2> QED  BY <1>2, <1>9, <2>1, <2>2 DEF OP!PublishFails, OP!Published, OP!Lost
  <1>10. CASE OP!WaitForPhase(1)
    <2>1. topic' = topic /\ status' = status /\ pc[1] = "wait"
      BY <1>10 DEF OP!WaitForPhase
    <2>2. CASE cancel[1]
      <3>1. pc'[1] = "done"
        BY <1>1, <1>10, <2>2 DEF OP!WaitForPhase, OP!Goto, OP!TypeOK
      <3> QED  BY <1>2, <1>3, <2>1, <3>1 DEF Over
    <2>3. CASE ~cancel[1] /\ OP!IsRamp(at[1])
      <3>1. pc'[1] = "check_ramp"
        BY <1>1, <1>10, <2>3 DEF OP!WaitForPhase, OP!Goto, OP!TypeOK
      <3> QED  BY <1>2, <1>3, <2>1, <3>1 DEF Over
    <2>4. CASE ~cancel[1] /\ ~OP!IsRamp(at[1])
      <3>1. pc'[1] = IF at[1] < 5 THEN "check" ELSE "complete"
        BY <1>1, <1>4, <1>10, <2>4 DEF OP!WaitForPhase, OP!NextPhase, OP!Goto, OP!TypeOK
      <3>2. now >= due[1] /\ status[1] # "completed"
        BY <1>2, <1>3, <2>1, <2>4
      <3>3. at[1] < 5 \/ at[1] = 5
        BY <1>1
      <3> QED  BY <1>2, <2>1, <3>1, <3>2, <3>3 DEF Over
    <2> QED  BY <2>2, <2>3, <2>4
  <1>11. CASE OP!Complete(1)
    BY <1>1, <1>2, <1>11 DEF OP!Complete, OP!Goto, OP!TypeOK, Over
  <1>12. CASE OP!GoIdle(1)
    BY <1>1, <1>2, <1>12 DEF OP!GoIdle, OP!Goto, OP!TypeOK, Over
  <1> QED
    BY <1>2, <1>5, <1>6, <1>7, <1>8, <1>9, <1>10, <1>11, <1>12 DEF OP!ThreadStep

-----------------------------------------------------------------------------
(* The newest assignment                                                   *)

\* It stays the newest when nothing, or a stop, comes after it.
LEMMA NewestStays ==
    ASSUME OP!TypeOK, NEW k \in 1..Len(topic), Newest(k),
           \/ topic' = topic
           \/ \E m \in OP!Message : m.phase = "stop" /\ topic' = Append(topic, m)
    PROVE  k \in 1..Len(topic') /\ Newest(k)' /\ topic'[k] = topic[k]
  <1>1. CASE topic' = topic
    BY <1>1 DEF Newest
  <1>2. ASSUME NEW m \in OP!Message, m.phase = "stop", topic' = Append(topic, m)
        PROVE  k \in 1..Len(topic') /\ Newest(k)' /\ topic'[k] = topic[k]
    <2>1. topic \in Seq(OP!Message) /\ Len(topic) \in Nat
      BY DEF OP!TypeOK
    <2>2. /\ Len(topic') = Len(topic) + 1 /\ topic'[Len(topic) + 1] = m
          /\ \A j \in 1..Len(topic) : topic'[j] = topic[j]
      BY <1>2, <2>1
    <2>3. \A j \in 1..Len(topic') : j \in 1..Len(topic) \/ j = Len(topic) + 1
      BY <2>1, <2>2
    <2> QED  BY <1>2, <2>1, <2>2, <2>3 DEF Newest
  <1> QED  BY <1>1, <1>2

\* An assignment that comes last is the newest.
LEMMA NewestIsLast ==
    ASSUME OP!TypeOK, NEW m \in OP!Message, m.phase # "stop", topic' = Append(topic, m)
    PROVE  \E k \in 1..Len(topic') : Newest(k)' /\ topic'[k] = m /\ k > Len(topic)
  <1>1. topic \in Seq(OP!Message) /\ Len(topic) \in Nat
    BY DEF OP!TypeOK
  <1>2. PICK k \in Nat : k = Len(topic) + 1
    BY <1>1
  <1>3. Len(topic') = k /\ topic'[k] = m
    BY <1>1, <1>2
  <1>4. k \in 1..Len(topic') /\ Newest(k)'
    BY <1>1, <1>2, <1>3 DEF Newest
  <1> QED  BY <1>1, <1>2, <1>3, <1>4

\* Nothing else of the orchestrator happens.
LEMMA OnlyRun ==
    ASSUME MaxStarts = 1, OrchestratorMoves
    PROVE  Request \/ PublishStop(1) \/ Drive(1)
  <1>1. \A r \in Run : r = 1
    BY DEF Run
  <1> QED  BY <1>1 DEF OrchestratorMoves

\* A stop that is published is the last message, or none is.
LEMMA StopCases ==
    ASSUME MaxStarts = 1, PublishStop(1)
    PROVE  /\ UNCHANGED <<pc, at, step, status, offset, now, due, deadline, count>>
           /\ \/ topic' = topic
              \/ \E m \in OP!Message : m.phase = "stop" /\ topic' = Append(topic, m)
  <1>1. OP!PublishStop(1) /\ UNCHANGED <<worker, offset, now, due, deadline>>
    BY SameRequests DEF PublishStop
  <1>2. OP!StopOf(1) \in OP!Message /\ OP!StopOf(1).phase = "stop"
    BY DEF OP!StopOf, OP!Message, OP!Run
  <1> QED
    BY <1>1, <1>2 DEF OP!PublishStop, OP!Published, OP!Lost, OP!threadVars, worker

\* The assignment of a phase is none of the stops.
LEMMA AssignmentFacts ==
    ASSUME MaxStarts = 1, OP!TypeOK
    PROVE  /\ OP!Assignment(1) \in OP!Message /\ OP!Assignment(1).phase # "stop"
           /\ at[1] = 5 => OP!Assignment(1).phase = "cooldown"
  <1>1. 1 \in OP!Run /\ at[1] \in 1..5 /\ step[1] \in Nat
    BY DEF OP!TypeOK, OP!Run, OP!Phases
  <1>2. OP!Phases[at[1]] # "stop" /\ Len(OP!Phases) = 5
    BY <1>1, Assumptions, OP!PhaseFacts
  <1>3. OP!Phases[5] = "cooldown"
    BY DEF OP!Phases
  <1> QED  BY <1>1, <1>2, <1>3 DEF OP!Assignment, OP!Message

\* What a poll makes of the newest assignment: its fleet is the last one, and
\* what the wait needs to know of its deadline.
LEMMA PollNewest ==
    ASSUME MaxStarts = 1, OP!TypeOK, WP!TypeOK, ClockTypeOK, Poll,
           NEW k \in 1..Len(topic), Newest(k)
    PROVE  /\ offset >= k => offset' >= k /\ UNCHANGED <<count, deadline>>
           /\ offset < k =>
                 \/ offset' < k
                 \/ /\ offset' >= k /\ count' \in Fleet
                    /\ deadline'[count'] = now + DurationOf(topic[k])
  <1>1. offset \in Nat /\ offset' = offset + 1 /\ offset' \in 1..Len(topic)
    BY PollCases DEF ClockTypeOK
  <1>2. ASSUME offset >= k  PROVE offset' >= k /\ UNCHANGED <<count, deadline>>
    <2>1. topic[offset + 1].phase = "stop"
      BY <1>1, <1>2 DEF Newest
    <2> QED  BY <1>1, <1>2, <2>1, PollCases
  <1>3. ASSUME offset < k, ~(offset' < k)
        PROVE  /\ offset' >= k /\ count' \in Fleet
               /\ deadline'[count'] = now + DurationOf(topic[k])
    <2>1. offset + 1 = k /\ offset' >= k
      BY <1>1, <1>3
    <2>2. topic[offset + 1].phase # "stop"
      BY <2>1 DEF Newest
    <2>3. /\ count < MaxFleets /\ count' = count + 1
          /\ deadline' = [deadline EXCEPT ![count'] = now + DurationOf(topic[offset + 1])]
      BY <2>2, PollCases
    <2>4. count' \in Fleet
      BY <2>3, Assumptions DEF WP!TypeOK, Fleet
    <2> QED  BY <2>1, <2>3, <2>4 DEF ClockTypeOK
  <1> QED  BY <1>2, <1>3

-----------------------------------------------------------------------------
(* The wait and what is left when it is over                               *)

\* Every step keeps WaitInv.
LEMMA WaitStep ==
    ASSUME MaxStarts = 1, Inv, [Next]_vars
    PROVE  WaitInv'
  <1> SUFFICES ASSUME pc'[1] = "wait"  PROVE \E k \in 1..Len(topic') : WaitsFor(k)'
    BY DEF WaitInv
  <1>1. OP!TypeOK /\ WP!TypeOK /\ ClockTypeOK /\ 1 \in Run
    BY DEF Inv, OP!IInv, WP!IInv, Run
  <1>2. CASE Request
    <2>1. /\ UNCHANGED <<topic, worker, offset, now, due, deadline>>
          /\ UNCHANGED <<pc, at, step>>
      BY <1>1, <1>2, RequestCases
    <2>2. PICK k \in 1..Len(topic) : WaitsFor(k)
      BY <2>1 DEF Inv, WaitInv
    <2> QED  BY <2>1, <2>2 DEF WaitsFor, Newest, OP!Assignment, worker
  <1>3. CASE PublishStop(1)
    <2>1. UNCHANGED <<pc, at, step, offset, now, due, deadline, count>>
      BY <1>3, StopCases
    <2>2. PICK k \in 1..Len(topic) : WaitsFor(k)
      BY <2>1 DEF Inv, WaitInv
    <2>3. k \in 1..Len(topic') /\ Newest(k)' /\ topic'[k] = topic[k]
      BY <1>1, <1>3, <2>2, StopCases, NewestStays DEF WaitsFor
    <2> QED  BY <2>1, <2>2, <2>3 DEF WaitsFor, OP!Assignment
  <1>4. CASE Drive(1)
    <2>1. /\ topic' = Append(topic, OP!Assignment(1))
          /\ UNCHANGED <<at, step>>
          /\ due' = [due EXCEPT ![1] = now + WaitOf(1)]
      BY <1>4, DriveCases DEF Inv
    <2>2. UNCHANGED <<offset, now>>
      BY <1>4 DEF Drive
    <2>3. PICK k \in 1..Len(topic') :
              Newest(k)' /\ topic'[k] = OP!Assignment(1) /\ k > Len(topic)
      BY <1>1, <2>1, AssignmentFacts, NewestIsLast
    <2>4. offset < k
      BY <1>1, <2>3, TopicFacts DEF ClockTypeOK, OP!TypeOK
    <2>5. at[1] = 5 => due'[1] = now + PhaseTime[5]
      BY <1>1, <2>1, Waits DEF ClockTypeOK
    <2>6. OP!Assignment(1)' = OP!Assignment(1)
      BY <2>1 DEF OP!Assignment
    <2> QED  BY <2>1, <2>2, <2>3, <2>4, <2>5, <2>6 DEF WaitsFor
  <1>5. CASE Poll
    <2>1. UNCHANGED <<topic, pc, at, step, now, due>>
      BY <1>5, PollCases DEF orchestration
    <2>2. PICK k \in 1..Len(topic) : WaitsFor(k)
      BY <2>1 DEF Inv, WaitInv
    <2>3. Newest(k)' /\ topic'[k] = OP!Assignment(1)'
      BY <2>1, <2>2 DEF WaitsFor, Newest, OP!Assignment
    <2>4. ASSUME at[1] = 5
          PROVE  \/ offset' < k /\ due[1] = now + PhaseTime[5]
                 \/ offset' >= k /\ count' \in Fleet /\ deadline'[count'] <= due[1]
      <3>1. CASE offset >= k
        BY <1>1, <1>5, <2>2, <2>4, <3>1, PollNewest DEF WaitsFor, ClockTypeOK
      <3>2. CASE ~(offset >= k)
        <4>1. offset < k /\ due[1] = now + PhaseTime[5]
          BY <2>2, <2>4, <3>2 DEF WaitsFor
        <4>2. topic[k] \in OP!Message /\ topic[k].phase = "cooldown"
          BY <1>1, <2>2, <2>4, AssignmentFacts DEF WaitsFor
        <4>3. DurationOf(topic[k]) = PhaseTime[5]
          BY <4>2, Durations
        <4>4. due[1] \in Nat
          BY <1>1 DEF ClockTypeOK
        <4> QED  BY <1>1, <1>5, <2>2, <3>2, <4>1, <4>3, <4>4, PollNewest DEF WaitsFor
      <3> QED  BY <1>1, <3>1, <3>2 DEF ClockTypeOK
    <2> QED  BY <2>1, <2>3, <2>4 DEF WaitsFor
  <1>6. CASE WorkerMoves \/ UNCHANGED vars
    <2>1. UNCHANGED <<topic, pc, at, step, offset, now, due, deadline, count>>
      BY <1>6, WorkerFrame DEF orchestration, vars
    <2>2. PICK k \in 1..Len(topic) : WaitsFor(k)
      BY <2>1 DEF Inv, WaitInv
    <2> QED  BY <2>1, <2>2 DEF WaitsFor, Newest, OP!Assignment
  <1>7. CASE Tick
    <2>1. /\ UNCHANGED <<topic, pc, at, step, offset, due, deadline, count>>
          /\ offset = Len(topic)
      BY <1>7 DEF Tick, Settled, orchestration, worker
    <2>2. PICK k \in 1..Len(topic) : WaitsFor(k)
      BY <2>1 DEF Inv, WaitInv
    <2>3. ~(offset < k)
      BY <1>1, <2>1 DEF ClockTypeOK
    <2> QED  BY <2>1, <2>2, <2>3 DEF WaitsFor, Newest, OP!Assignment
  <1> QED  BY <1>2, <1>3, <1>4, <1>5, <1>6, <1>7, NextCases, OnlyRun

\* Every step keeps OverInv.
LEMMA OverStep ==
    ASSUME MaxStarts = 1, Inv, [Next]_vars
    PROVE  OverInv'
  <1>1. OP!TypeOK /\ WP!TypeOK /\ ClockTypeOK /\ 1 \in Run /\ OverInv
    BY DEF Inv, OP!IInv, WP!IInv, Run
  <1>2. CASE Request
    BY <1>1, <1>2, RequestCases DEF OverInv, Over, Newest, worker
  <1>3. CASE PublishStop(1)
    <2>1. UNCHANGED <<pc, status, offset, now, deadline, count>>
      BY <1>3, StopCases
    <2>2. CASE Over
      <3>1. PICK k \in 1..Len(topic) : Newest(k) /\ offset >= k
        BY <1>1, <2>2 DEF OverInv
      <3>2. k \in 1..Len(topic') /\ Newest(k)'
        BY <1>1, <1>3, <3>1, StopCases, NewestStays
      <3> QED  BY <1>1, <2>1, <2>2, <3>1, <3>2 DEF OverInv, Over
    <2>3. CASE ~Over
      BY <1>1, <2>1, <2>3 DEF OverInv, Over
    <2> QED  BY <2>2, <2>3
  <1>4. CASE Drive(1)
    <2>1. UNCHANGED <<offset, now, deadline, count>>
      BY <1>4 DEF Drive, worker
    <2>2. status'[1] = "completed" => pc'[1] \in {"go_idle", "done"}
      BY <1>1, <1>4, DriveCases DEF Inv, Over
    <2>3. ASSUME Over'
          PROVE  /\ \E k \in 1..Len(topic') : Newest(k)' /\ offset' >= k
                 /\ count' \in Fleet /\ deadline'[count'] <= now'
      <3>1. /\ topic' = topic
            /\ Over \/ (pc[1] = "wait" /\ at[1] = 5 /\ now >= due[1])
        BY <1>1, <1>4, <2>3, DriveCases DEF Inv, Over
      <3>2. CASE Over
        BY <1>1, <2>1, <3>1, <3>2 DEF OverInv, Newest
      <3>3. CASE pc[1] = "wait" /\ at[1] = 5 /\ now >= due[1]
        <4>1. PICK k \in 1..Len(topic) : WaitsFor(k)
          BY <3>3 DEF Inv, WaitInv
        <4>2. due[1] \in Nat /\ now \in Nat /\ PhaseTime[5] \in Nat \ {0}
          BY <1>1, Assumptions DEF ClockTypeOK
        <4>3. offset >= k /\ count \in Fleet /\ deadline[count] <= due[1]
          BY <3>3, <4>1, <4>2 DEF WaitsFor
        <4>4. deadline[count] \in Nat
          BY <1>1, <4>3 DEF ClockTypeOK
        <4>5. deadline[count] <= now
          BY <3>3, <4>2, <4>3, <4>4
        <4>6. Newest(k)'
          BY <3>1, <4>1 DEF WaitsFor, Newest
        <4> QED  BY <2>1, <3>1, <4>3, <4>5, <4>6
      <3> QED  BY <3>1, <3>2, <3>3
    <2> QED  BY <2>2, <2>3 DEF OverInv
  <1>5. CASE Poll
    <2>1. UNCHANGED <<topic, pc, status, now>>
      BY <1>5, PollCases DEF orchestration
    <2>2. CASE Over
      <3>1. PICK k \in 1..Len(topic) : Newest(k) /\ offset >= k
        BY <1>1, <2>2 DEF OverInv
      <3>2. offset' >= k /\ UNCHANGED <<count, deadline>>
        BY <1>1, <1>5, <3>1, PollNewest
      <3> QED  BY <1>1, <2>1, <2>2, <3>1, <3>2 DEF OverInv, Over, Newest
    <2>3. CASE ~Over
      BY <1>1, <2>1, <2>3 DEF OverInv, Over
    <2> QED  BY <2>2, <2>3
  <1>6. CASE WorkerMoves \/ Tick \/ UNCHANGED vars
    <2>1. /\ UNCHANGED <<topic, pc, status, offset, deadline, count>>
          /\ now' = now \/ now' = now + 1
      BY <1>6, WorkerFrame DEF Tick, orchestration, worker, vars
    <2>2. count \in Fleet => deadline[count] \in Nat
      BY <1>1 DEF ClockTypeOK
    <2>3. now \in Nat /\ now <= now'
      BY <1>1, <2>1 DEF ClockTypeOK
    <2>4. count \in Fleet /\ deadline[count] <= now => deadline[count] <= now'
      <3>1. PICK d : d = deadline[count]
        OBVIOUS
      <3>2. now' \in Nat
        BY <1>1, <2>1 DEF ClockTypeOK
      <3> QED  BY <2>2, <2>3, <3>1, <3>2
    <2> QED  BY <1>1, <2>1, <2>4 DEF OverInv, Over, Newest
  <1> QED  BY <1>2, <1>3, <1>4, <1>5, <1>6, NextCases, OnlyRun

-----------------------------------------------------------------------------
(* The theorems                                                            *)

\* Nothing has been sent to begin with.
LEMMA Initially ==
    ASSUME MaxStarts = 1
    PROVE  Init => Inv
  <1> SUFFICES ASSUME Init  PROVE Inv
    OBVIOUS
  <1>1. OP!IInv /\ WP!IInv
    BY PartsInitially
  <1>2. 1 \in Run
    BY DEF Run
  <1>3. /\ offset = 0 /\ topic = <<>> /\ now = 0 /\ listed = 0 /\ status[1] = "none"
        /\ pc[1] = "none"
        /\ due \in [Run -> Nat] /\ deadline \in [Fleet -> Nat]
    BY <1>2 DEF Init, Orchestration!Init, Orchestration!Run, Run, Worker!Init, Worker!Nobody
  <1>4. ClockTypeOK
    BY <1>3 DEF ClockTypeOK
  <1>5. ListedInv /\ KindInv /\ WaitInv /\ OverInv
    BY <1>3 DEF ListedInv, KindInv, WaitInv, OverInv, Over
  <1> QED  BY <1>1, <1>4, <1>5 DEF Inv

\* The inductive invariant of a single benchmark.
THEOREM Invariance ==
    ASSUME MaxStarts = 1
    PROVE  Spec => []Inv
  <1>1. ASSUME Inv, [Next]_vars  PROVE Inv'
    <2>1. OP!TypeOK
      BY <1>1 DEF Inv, OP!IInv
    <2> QED
      BY <1>1, <2>1, PartsStep, ClockTypes, ListedStep, KindStep, WaitStep, OverStep DEF Inv
  <1>2. Init => Inv
    BY Initially
  <1> QED  BY <1>1, <1>2, PTL DEF Spec

\* Whatever its durations, and whoever stops it when, the bots of a benchmark
\* are those of the last assignment, which is the one the orchestrator waits for.
THEOREM LoadAlwaysFollowsPlan ==
    ASSUME MaxStarts = 1
    PROVE  Spec => []LoadFollowsPlan
  <1>1. ASSUME Inv  PROVE LoadFollowsPlan
    <2> SUFFICES ASSUME Settled, alive # {}
                 PROVE  /\ alive = {count}
                        /\ \A r \in Run : pc[r] = "wait" =>
                              topic[Len(topic)] = Orchestration!Assignment(r)
      BY DEF LoadFollowsPlan
    <2>1. /\ alive = {count}
          /\ \A k \in 1..Len(topic) : k = Len(topic) => topic[k].phase # "stop"
      BY <1>1, WhenSettled DEF Inv
    <2>2. ASSUME NEW r \in Run, pc[r] = "wait"
          PROVE  topic[Len(topic)] = Orchestration!Assignment(r)
      <3>1. r = 1
        BY DEF Run
      <3>2. PICK k \in 1..Len(topic) : WaitsFor(k)
        BY <1>1, <2>2, <3>1 DEF Inv, WaitInv
      <3>3. Len(topic) \in 1..Len(topic)
        BY <1>1 DEF Inv, OP!IInv, OP!TypeOK
      <3>4. k = Len(topic)
        BY <2>1, <3>2, <3>3 DEF WaitsFor, Newest
      <3> QED
        BY <3>1, <3>2, <3>4
            DEF WaitsFor, OP!Assignment, Orchestration!Assignment, OP!Phases,
                Orchestration!Phases
    <2> QED  BY <2>1, <2>2
  <1> QED  BY <1>1, Invariance, PTL

\* Whatever its durations, a benchmark that is reported completed sends no more
\* orders.
THEOREM CompletedIsAlwaysQuiet ==
    ASSUME MaxStarts = 1
    PROVE  Spec => []CompletedIsQuiet
  <1>1. ASSUME Inv  PROVE CompletedIsQuiet
    <2> SUFFICES ASSUME Settled, current > 0, status[current] = "completed", alive # {}
                 PROVE  FALSE
      BY DEF CompletedIsQuiet
    <2>1. current = 1
      BY <1>1 DEF Inv, OP!IInv, OP!TypeOK
    <2>2. count \in Fleet /\ deadline[count] <= now
      BY <1>1, <2>1 DEF Inv, OverInv, Over
    <2>3. now < deadline[count] /\ now \in Nat /\ deadline[count] \in Nat
      BY <1>1, <2>2, WhenSettled DEF Inv, ClockTypeOK
    <2> QED  BY <2>2, <2>3
  <1> QED  BY <1>1, Invariance, PTL

\* A benchmark in time is a behaviour of the orchestrator and one of the worker,
\* for any number of starts.
THEOREM ImplementsParts ==
    Spec => /\ Orchestration!Init /\ [][Orchestration!Next]_orchestration
            /\ Worker!Init /\ [][Worker!Next]_worker
  <1>1. Init => Orchestration!Init /\ Worker!Init
    BY DEF Init
  <1>2. ASSUME [Next]_vars
        PROVE  [Orchestration!Next]_orchestration /\ [Worker!Next]_worker
    <2>1. CASE OrchestratorMoves
      <3>1. Orchestration!Next
        BY <2>1 DEF OrchestratorMoves, Request, PublishStop, Drive, Orchestration!Next,
            Run, Orchestration!Run
      <3> QED  BY <2>1, <3>1, OrchestratorFrame
    <2>2. CASE Poll
      <3>1. Worker!ReceiveStop \/ Worker!ReceiveAssignment
        BY <2>2 DEF Poll
      <3> QED  BY <2>2, <3>1 DEF Poll, Worker!Next
    <2>3. CASE WorkerMoves
      <3>1. Worker!Next
        BY <2>3 DEF WorkerMoves, Work, Time, BotsEnd, Worker!Next, Fleet, Worker!Fleet
      <3> QED  BY <2>3, <3>1, WorkerFrame
    <2>4. CASE Tick \/ UNCHANGED vars
      BY <2>4 DEF Tick, vars, orchestration, worker
    <2> QED  BY <1>2, <2>1, <2>2, <2>3, <2>4, NextCases
  <1> QED  BY <1>1, <1>2, PTL DEF Spec
=============================================================================
