---------------------------- MODULE Orchestrator ----------------------------
(***************************************************************************)
(* The benchmark orchestrator (services/bot-orchestrator/src/main.cpp).    *)
(*                                                                         *)
(* start_benchmark puts a new BenchmarkRun object under the run_id and     *)
(* detaches a thread that walks it through warmup, ramp, peak, burst and   *)
(* cooldown: set the status, publish an assignment for the bot workers,    *)
(* wait.  stop_benchmark raises the object's cancel_flag and publishes a   *)
(* "stop" of its own.  The mutex mu_ protects the map and the status, but  *)
(* the thread reads cancel_flag and publishes outside it, so a stop or a   *)
(* restart may fall between any two of its steps.                          *)
(*                                                                         *)
(* One run_id is modelled (the submission service uses the submission's id *)
(* for it, so that every benchmark of a submission has the same); run_ids  *)
(* share only mu_ and the topic.  Its successive objects are numbered.     *)
(* The waits carry no durations here: a wait ends some time.               *)
(*                                                                         *)
(* The "Bug..." operators are seeded faults, used by no definition here.   *)
(***************************************************************************)
EXTENDS Integers, Sequences, FiniteSets

CONSTANTS
    MaxStarts,    \* bound: run objects created under the run_id
    MaxStops,     \* bound: stop requests accepted
    RampSteps     \* total_steps of execute_ramp_phase

ASSUME BoundsAssumption ==
    /\ MaxStarts \in Nat \ {0}
    /\ MaxStops \in Nat
    /\ RampSteps \in Nat \ {0}

Run == 1..MaxStarts

\* build_phases
Phases   == <<"warmup", "ramp", "peak", "burst", "cooldown">>
StatusIn == <<"warmup", "ramping", "sustained", "sustained", "cooldown">>

IsRamp(p)   == Phases[p] = "ramp"
LastStep(p) == IF IsRamp(p) THEN RampSteps ELSE 0

Running  == {"pending", "warmup", "ramping", "sustained", "cooldown"}
Terminal == {"completed", "stopped", "failed"}

VARIABLES
    current,      \* runs_[run_id]: the number of the object, 0 while absent
    status,       \* status[r]
    cancel,       \* cancel[r]: cancel_flag
    pc,           \* pc[r]: the next step of the thread of r; "none" before it starts
    at,           \* at[r]: the phase of its loop in execute_phases
    step,         \* step[r]: the step of its loop in execute_ramp_phase
    stopping,     \* stopping[r]: stop requests that are yet to publish
    stops,        \* how many stop requests have been accepted
    topic         \* bot-commands: the assignments and stops, in order

threadVars == <<pc, at, step>>
vars == <<current, status, cancel, pc, at, step, stopping, stops, topic>>

Message == [run : Run, phase : {Phases[p] : p \in 1..Len(Phases)} \cup {"stop"}, step : Nat]

Assignment(r) == [run |-> r, phase |-> Phases[at[r]], step |-> step[r]]
StopOf(r)     == [run |-> r, phase |-> "stop", step |-> 0]

Init ==
    /\ current = 0
    /\ status = [r \in Run |-> "none"]
    /\ cancel = [r \in Run |-> FALSE]
    /\ pc = [r \in Run |-> "none"]
    /\ at = [r \in Run |-> 1]
    /\ step = [r \in Run |-> 0]
    /\ stopping = [r \in Run |-> 0]
    /\ stops = 0
    /\ topic = <<>>

Goto(r, l) == pc' = [pc EXCEPT ![r] = l]

-----------------------------------------------------------------------------
(* The requests, from HTTP threads; a refused one changes nothing.         *)

BugMayStart == TRUE

MayStart == current > 0 => status[current] \in Terminal

StartBenchmark ==
    /\ current < MaxStarts                                    \* the bound
    /\ MayStart
    /\ current' = current + 1
    /\ status' = [status EXCEPT ![current + 1] = "pending"]
    /\ Goto(current + 1, "check")
    /\ UNCHANGED <<cancel, at, step, stopping, stops, topic>>

\* Note that a failed run may be stopped.
StopBenchmark ==
    /\ current > 0
    /\ status[current] \notin {"none", "completed", "stopped"}
    /\ stops < MaxStops                                       \* the bound
    /\ cancel' = [cancel EXCEPT ![current] = TRUE]
    /\ status' = [status EXCEPT ![current] = "stopped"]
    /\ stopping' = [stopping EXCEPT ![current] = @ + 1]
    /\ stops' = stops + 1
    /\ UNCHANGED <<current, topic, threadVars>>

\* produce() and flush() may throw; when flush() does, the message may have
\* reached the topic all the same.
Published(m) == topic' = Append(topic, m)
Lost         == UNCHANGED topic

\* The stop is published after mu_ has been released.
PublishStop(r) ==
    /\ stopping[r] > 0
    /\ stopping' = [stopping EXCEPT ![r] = @ - 1]
    /\ Published(StopOf(r)) \/ Lost
    /\ UNCHANGED <<current, status, cancel, stops, threadVars>>

-----------------------------------------------------------------------------
(* The thread of r: execute_phases and execute_ramp_phase.                 *)

\* The head of either loop.
BugCheckCancel(r) ==
    /\ pc[r] = "check"
    /\ Goto(r, "update")
    /\ UNCHANGED <<current, status, cancel, at, step, stopping, stops, topic>>

CheckCancel(r) ==
    /\ pc[r] = "check"
    /\ Goto(r, IF cancel[r] THEN "done" ELSE "update")
    /\ UNCHANGED <<current, status, cancel, at, step, stopping, stops, topic>>

UpdateRunPhase(r) ==
    /\ pc[r] = "update"
    /\ status' = [status EXCEPT ![r] = StatusIn[at[r]]]
    /\ Goto(r, IF IsRamp(at[r]) THEN "check_ramp" ELSE "publish")
    /\ UNCHANGED <<current, cancel, at, step, stopping, stops, topic>>

CheckCancelInRamp(r) ==
    /\ pc[r] = "check_ramp"
    /\ Goto(r, IF cancel[r] THEN "done" ELSE "publish")
    /\ UNCHANGED <<current, status, cancel, at, step, stopping, stops, topic>>

\* The next iteration of the outer loop, or what follows it.
NextPhase(r) ==
    /\ step' = [step EXCEPT ![r] = 0]
    /\ IF at[r] < Len(Phases)
       THEN Goto(r, "check") /\ at' = [at EXCEPT ![r] = @ + 1]
       ELSE Goto(r, "complete") /\ UNCHANGED at

\* After the last step of the ramp there is no wait.
BugLastOfRamp(r) == IsRamp(at[r]) /\ step[r] = RampSteps - 1

BugLastOfRampLate(r) == IsRamp(at[r]) /\ step[r] > RampSteps

LastOfRamp(r) == IsRamp(at[r]) /\ step[r] = RampSteps

PublishAssignment(r) ==
    /\ pc[r] = "publish"
    /\ Published(Assignment(r))
    /\ IF LastOfRamp(r) THEN NextPhase(r)
       ELSE Goto(r, "wait") /\ UNCHANGED <<at, step>>
    /\ UNCHANGED <<current, status, cancel, stopping, stops>>

\* handle_phase_error
PublishFails(r) ==
    /\ pc[r] = "publish"
    /\ Published(Assignment(r)) \/ Lost
    /\ status' = [status EXCEPT ![r] = "failed"]
    /\ Goto(r, "done")
    /\ UNCHANGED <<current, cancel, at, step, stopping, stops>>

\* wait_for_phase returns when the time is over or the flag is seen, and looks
\* at the flag in either case: a notification that is lost only delays it.
BugWaitForPhase(r) ==
    /\ pc[r] = "wait"
    /\ cancel[r]
    /\ Goto(r, "done")
    /\ UNCHANGED <<current, status, cancel, at, step, stopping, stops, topic>>

WaitForPhase(r) ==
    /\ pc[r] = "wait"
    /\ IF cancel[r] THEN Goto(r, "done") /\ UNCHANGED <<at, step>>
       ELSE IF IsRamp(at[r])
       THEN Goto(r, "check_ramp") /\ step' = [step EXCEPT ![r] = @ + 1] /\ UNCHANGED at
       ELSE NextPhase(r)
    /\ UNCHANGED <<current, status, cancel, stopping, stops, topic>>

Complete(r) ==
    /\ pc[r] = "complete"
    /\ status' = [status EXCEPT ![r] = IF @ \in {"stopped", "failed"} THEN @ ELSE "completed"]
    /\ Goto(r, "go_idle")
    /\ UNCHANGED <<current, cancel, at, step, stopping, stops, topic>>

\* update_run_phase(run, "idle", Completed): this one has no guard.
GoIdle(r) ==
    /\ pc[r] = "go_idle"
    /\ status' = [status EXCEPT ![r] = "completed"]
    /\ Goto(r, "done")
    /\ UNCHANGED <<current, cancel, at, step, stopping, stops, topic>>

ThreadStep(r) ==
    \/ CheckCancel(r) \/ UpdateRunPhase(r) \/ CheckCancelInRamp(r)
    \/ PublishAssignment(r) \/ PublishFails(r) \/ WaitForPhase(r)
    \/ Complete(r) \/ GoIdle(r)

Next ==
    \/ StartBenchmark
    \/ StopBenchmark
    \/ \E r \in Run : PublishStop(r) \/ ThreadStep(r)

\* The threads are never blocked for good: mu_ is held for a few assignments
\* and every wait has a timeout.  Requests need not arrive.
Fairness == \A r \in Run : WF_vars(ThreadStep(r)) /\ WF_vars(PublishStop(r))

Spec == Init /\ [][Next]_vars /\ Fairness

-----------------------------------------------------------------------------
(* Properties                                                              *)

TypeOK ==
    /\ current \in 0..MaxStarts
    /\ status \in [Run -> Running \cup Terminal \cup {"none"}]
    /\ cancel \in [Run -> BOOLEAN]
    /\ pc \in [Run -> {"none", "check", "update", "check_ramp", "publish", "wait",
                       "complete", "go_idle", "done"}]
    /\ at \in [Run -> 1..Len(Phases)]
    /\ \A r \in Run : step[r] \in 0..LastStep(at[r])
    /\ step \in [Run -> Nat]
    /\ stopping \in [Run -> Nat]
    /\ stops \in 0..MaxStops
    /\ topic \in Seq(Message)

\* The phases and ramp steps of a whole run, in their order.
Plan ==
    [k \in 1..(RampSteps + 5) |->
        CASE k = 1 -> <<"warmup", 0>>
          [] k \in 2..(RampSteps + 2) -> <<"ramp", k - 2>>
          [] OTHER -> <<Phases[k - RampSteps], 0>>]

\* The places of the first n messages of the topic that hold assignments of r.
AssignmentsOf(r, n) == {k \in 1..n : topic[k].run = r /\ topic[k].phase # "stop"}

\* What the workers are told by one run object is always a beginning of the
\* plan (warmup, every step of the ramp, peak, burst, cooldown): whatever is
\* stopped, restarted or fails, no assignment is skipped or sent twice; and a
\* run that says completed has sent all of them.
PlanFollowed ==
    \A r \in Run :
        /\ \A n \in AssignmentsOf(r, Len(topic)) :
              LET i == Cardinality(AssignmentsOf(r, n))
              IN  i <= Len(Plan) /\ <<topic[n].phase, topic[n].step>> = Plan[i]
        /\ status[r] = "completed" => Cardinality(AssignmentsOf(r, Len(topic))) = Len(Plan)

\* A restart does not wait for the thread of the run that it replaces.  That
\* thread may be past its look at the flag, and then it still sets its phase and
\* publishes it, among the assignments of the new run; but once only.  In the
\* topic at most one assignment of a replaced run stands behind what the new run
\* has published, or else two threads would go on driving one fleet.
ReplacedFallsSilent ==
    \A i, j, k \in 1..Len(topic) :
        (/\ i < j /\ j < k
         /\ topic[i].phase # "stop" /\ topic[j].run < topic[i].run
         /\ topic[k].run = topic[j].run)
        => topic[j].phase = "stop" \/ topic[k].phase = "stop"

\* A stop cannot call back what the thread is about to publish, but it is one
\* assignment at most: the topic never has two of a run after its stop.
OneLateAssignment ==
    \A i, j, k \in 1..Len(topic) :
        (/\ i < j /\ j < k
         /\ topic[i].phase = "stop"
         /\ topic[j].run = topic[i].run /\ topic[k].run = topic[i].run)
        => topic[j].phase = "stop" \/ topic[k].phase = "stop"

\* A benchmark is over at last, whether or not it is stopped, restarted, or
\* fails to publish.
ThreadEnds == \A r \in Run : (pc[r] = "check") ~> (pc[r] = "done")

\* What others see of it (the number of the run and whether it is under way)
\* changes only as RunStatus says: whatever the interleaving of threads and
\* requests, a run that says completed does so for ever, one that says failed
\* until it is stopped, and no start is accepted while a run is under way.
ShownStatus ==
    CASE current = 0                 -> "none"
      [] current > 0 /\ status[current] \in Running -> "running"
      [] OTHER                       -> status[current]

Shown == INSTANCE RunStatus WITH run <- current, shown <- ShownStatus

ShowsRunStatus == Shown!RunSpec

\* main.cpp:212 refuses a restart with "benchmark run already running".  It
\* should be so only of a run whose thread is still there.
RefusedWhileRunning ==
    current > 0 /\ status[current] \in Running => pc[current] # "done"
=============================================================================
