----------------------------- MODULE Benchmark -----------------------------
(***************************************************************************)
(* A benchmark in time: the orchestrator (Orchestrator) and one bot worker *)
(* (BotWorker) joined by the command topic and a clock.  Every wait of the *)
(* two now has the duration the code gives it, in whole seconds.           *)
(*                                                                         *)
(* Steps of threads and deliveries take milliseconds, waits seconds: a     *)
(* step takes no time here, and the clock ticks only when no thread has    *)
(* anything left to do at the present second.  Threads that wake up in the *)
(* same second run in any order.  The topic delivers everything, in order. *)
(*                                                                         *)
(* The "Bug..." operators are seeded faults, used by no definition here.   *)
(***************************************************************************)
EXTENDS Integers, Sequences

CONSTANTS
    MaxStarts, MaxStops, MaxFleets,   \* bounds, as in the two modules
    PhaseTime,    \* PhaseTime[p]: duration of phase p, see build_phases
    StepTime,     \* step_interval_ms
    MaxTime       \* bound: the clock

RampTime  == PhaseTime[2]
RampSteps == IF RampTime < StepTime THEN 1 ELSE RampTime \div StepTime

ASSUME BoundsAssumption ==
    /\ MaxStarts \in Nat \ {0} /\ MaxStops \in Nat /\ MaxFleets \in Nat \ {0}
    /\ MaxTime \in Nat

ASSUME TimeAssumption ==
    /\ PhaseTime \in [1..5 -> Nat \ {0}]
    /\ StepTime \in Nat \ {0}

VARIABLES current, status, cancel, pc, at, step, stopping, stops, topic
VARIABLES running, consumer, last, count, stopsSeen, held, listed, alive,
          timer, victim, timer_mu, main

Orchestration == INSTANCE Orchestrator
Worker        == INSTANCE BotWorker

VARIABLES
    offset,       \* messages of the topic the worker has polled
    now,          \* the clock
    due,          \* due[r]: when the wait of the thread of r is over
    deadline      \* deadline[f]: when the timer and the bots of fleet f end

orchestration == <<current, status, cancel, pc, at, step, stopping, stops, topic>>
worker == <<running, consumer, last, count, stopsSeen, held, listed, alive,
            timer, victim, timer_mu, main>>
vars == <<current, status, cancel, pc, at, step, stopping, stops, topic,
          running, consumer, last, count, stopsSeen, held, listed, alive,
          timer, victim, timer_mu, main, offset, now, due, deadline>>

Run   == 1..MaxStarts
Fleet == 1..MaxFleets

Init ==
    /\ Orchestration!Init
    /\ Worker!Init
    /\ offset = 0
    /\ now = 0
    /\ due = [r \in Run |-> 0]
    /\ deadline = [f \in Fleet |-> 0]

-----------------------------------------------------------------------------

BugDurationOf(m) == IF m.phase = "ramp" THEN RampTime ELSE PhaseTime[4]

\* duration_ms of an assignment: a step of the ramp lasts to the end of the
\* ramp, but not less than a step.
DurationOf(m) ==
    CASE m.phase = "warmup"   -> PhaseTime[1]
      [] m.phase = "ramp"     -> IF RampTime - m.step * StepTime < StepTime THEN StepTime
                                 ELSE RampTime - m.step * StepTime
      [] m.phase = "peak"     -> PhaseTime[3]
      [] m.phase = "burst"    -> PhaseTime[4]
      [] m.phase = "cooldown" -> PhaseTime[5]

WaitOf(r) == IF Orchestration!IsRamp(at[r]) THEN StepTime ELSE PhaseTime[at[r]]

Request ==
    /\ Orchestration!StartBenchmark \/ Orchestration!StopBenchmark
    /\ UNCHANGED <<worker, offset, now, due, deadline>>

PublishStop(r) ==
    /\ Orchestration!PublishStop(r)
    /\ UNCHANGED <<worker, offset, now, due, deadline>>

Drive(r) ==
    /\ pc[r] = "wait" => cancel[r] \/ now >= due[r]
    /\ Orchestration!ThreadStep(r)
    /\ due' = IF pc'[r] = "wait" THEN [due EXCEPT ![r] = now + WaitOf(r)] ELSE due
    /\ UNCHANGED <<worker, offset, now, deadline>>

Poll ==
    /\ offset < Len(topic)
    /\ offset' = offset + 1
    /\ IF topic[offset + 1].phase = "stop"
       THEN Worker!ReceiveStop /\ UNCHANGED deadline
       ELSE /\ Worker!ReceiveAssignment
            /\ deadline' = [deadline EXCEPT ![count'] = now + DurationOf(topic[offset + 1])]
    /\ UNCHANGED <<orchestration, now, due>>

Work ==
    /\ Worker!ConsumerStep
    /\ UNCHANGED <<orchestration, offset, now, due, deadline>>

Time(f) ==
    /\ timer[f] = "waiting" => now >= deadline[f]
    /\ Worker!TimerStep(f)
    /\ UNCHANGED <<orchestration, offset, now, due, deadline>>

BotsEnd(f) ==
    /\ now >= deadline[f]
    /\ Worker!BotsEnd(f)
    /\ UNCHANGED <<orchestration, offset, now, due, deadline>>

\* No thread has anything to do before the clock moves.
Settled ==
    /\ offset = Len(topic) /\ consumer = "poll"
    /\ \A r \in Run :
          /\ stopping[r] = 0
          /\ pc[r] \in {"none", "done"} \/ (pc[r] = "wait" /\ ~ cancel[r] /\ now < due[r])
    /\ \A f \in Fleet :
          /\ timer[f] \in {"none", "done"} \/ (timer[f] = "waiting" /\ now < deadline[f])
          /\ f \in alive => now < deadline[f]

Tick ==
    /\ Settled
    /\ now < MaxTime                                          \* the bound
    /\ now' = now + 1
    /\ UNCHANGED <<orchestration, worker, offset, due, deadline>>

Next ==
    \/ Request
    \/ \E r \in Run : PublishStop(r) \/ Drive(r)
    \/ Poll \/ Work
    \/ \E f \in Fleet : Time(f) \/ BotsEnd(f)
    \/ Tick

Spec == Init /\ [][Next]_vars

-----------------------------------------------------------------------------
(* Properties                                                              *)

\* The load is that of the plan: once everything has settled, the bots that
\* run are those of the last assignment received, and while the orchestrator
\* waits they are those of the phase, or the step of the ramp, it waits for.
LoadFollowsPlan ==
    Settled /\ alive # {} =>
        /\ alive = {count}
        /\ \A r \in Run : pc[r] = "wait" => topic[Len(topic)] = Orchestration!Assignment(r)

\* A benchmark that is reported completed sends no more orders.  The service
\* that asks for the score relies on it, and so does the restart: that the
\* orchestrator, the timers and the bots agree on when the end is rests on
\* three durations computed in three places.
CompletedIsQuiet ==
    Settled /\ current > 0 /\ status[current] = "completed" => alive = {}

\* docs/architecture_blueprint.md:56 has the benchmark go through "Warmup,
\* Ramp, Peak, Cooldown": while the orchestrator waits for the end of the
\* peak, and has not been told to stop, bots should be running.
PeakHasBots ==
    \A r \in Run :
        Settled /\ Orchestration!Phases[at[r]] = "peak" /\ pc[r] = "wait" => alive # {}
=============================================================================
