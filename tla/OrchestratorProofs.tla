------------------------- MODULE OrchestratorProofs -------------------------
(***************************************************************************)
(* What is proved about Orchestrator for any number of starts and stops    *)
(* and any length of the ramp.                                             *)
(*                                                                         *)
(* That a replaced thread is harmless (Superseded) is not inductive: it    *)
(* follows from what a terminal status says about the thread it belongs    *)
(* to (Harmless), before the run is replaced.  OneLateAssignment needs     *)
(* that a stop in the topic, or on its way to it, implies the flag, and    *)
(* that a thread which has published after its stop has only steps left    *)
(* that look at the flag before anything else (Late).  ReplacedFallsSilent *)
(* is the same for a thread that has published behind a later run (Behind).*)
(***************************************************************************)
EXTENDS Orchestrator, FiniteSetTheorems, TLAPS

\* The thread cannot begin another phase.
Harmless(r) == cancel[r] \/ pc[r] \in {"complete", "go_idle", "done"}

DriverInv ==
    /\ \A r \in Run : r > current => pc[r] = "none" /\ ~ cancel[r]
    /\ \A r \in Run : status[r] \in Terminal => Harmless(r)

\* A restart is accepted only when the old thread will not look past its flag,
\* or has nothing left to publish.
Superseded == \A r \in Run : r < current => Harmless(r)

StopOfIn(r, k)       == k \in 1..Len(topic) /\ topic[k].run = r /\ topic[k].phase = "stop"
AssignmentOfIn(r, k) == k \in 1..Len(topic) /\ topic[k].run = r /\ topic[k].phase # "stop"

\* An assignment of r stands in the topic behind a stop of r.
Late(r) == \E i, j \in 1..Len(topic) : i < j /\ StopOfIn(r, i) /\ AssignmentOfIn(r, j)

StopInv ==
    /\ \A r \in Run : stopping[r] > 0 => cancel[r]
    /\ \A r \in Run, k \in 1..Len(topic) : StopOfIn(r, k) => cancel[r]
    /\ \A r \in Run : Late(r) => pc[r] \in {"wait", "check", "done"}

\* The ramp does not wait after its last step.
RampInv == \A r \in Run : pc[r] = "wait" /\ IsRamp(at[r]) => step[r] < RampSteps

IInv == TypeOK /\ RampInv /\ DriverInv /\ Superseded /\ StopInv /\ OneLateAssignment

-----------------------------------------------------------------------------
(* Facts about the plan and about sequences                                *)

\* The five phases of build_phases: none is called "stop", each has a
\* running status, and the ramp is not the last.
LEMMA PhaseFacts ==
    /\ Len(Phases) = 5
    /\ \A p \in 1..5 :
          /\ Phases[p] # "stop"
          /\ StatusIn[p] \in Running
          /\ LastStep(p) \in Nat
          /\ IsRamp(p) => LastStep(p) = RampSteps /\ p < 5
          /\ ~ IsRamp(p) => LastStep(p) = 0
  <1>1. Len(Phases) = 5
    BY DEF Phases
  <1>2. ASSUME NEW p \in 1..5
        PROVE  Phases[p] # "stop" /\ StatusIn[p] \in Running /\ (IsRamp(p) => p < 5)
    <2>1. p = 1 \/ p = 2 \/ p = 3 \/ p = 4 \/ p = 5
      OBVIOUS
    <2> QED  BY <2>1 DEF Phases, StatusIn, Running, IsRamp
  <1>3. QED  BY <1>1, <1>2, BoundsAssumption DEF LastStep

\* What a message appended to a sequence leaves as it was, and adds.
LEMMA AppendFacts ==
    ASSUME NEW S, NEW s \in Seq(S), NEW e \in S
    PROVE  /\ Append(s, e) \in Seq(S)
           /\ Len(Append(s, e)) = Len(s) + 1
           /\ \A k \in 1..Len(s) : Append(s, e)[k] = s[k]
           /\ Append(s, e)[Len(s) + 1] = e
  OBVIOUS

\* What a message behind the others does to the two invariants on the topic.
LEMMA AppendStop ==
    ASSUME IInv, NEW r \in Run, cancel[r],
           topic' = Append(topic, StopOf(r)),
           UNCHANGED <<cancel, pc>>,
           \A q \in Run : stopping'[q] > 0 => cancel[q]
    PROVE  StopInv' /\ OneLateAssignment' /\ topic' \in Seq(Message)
  <1>1. StopOf(r) \in Message /\ topic \in Seq(Message)
    BY DEF IInv, TypeOK, Message, StopOf
  <1>2. /\ topic' \in Seq(Message)
        /\ Len(topic') = Len(topic) + 1
        /\ \A k \in 1..Len(topic) : topic'[k] = topic[k]
        /\ topic'[Len(topic) + 1] = StopOf(r)
    BY <1>1, AppendFacts
  <1>3. Len(topic) \in Nat
    BY <1>1
  <1>4. StopOf(r).run = r /\ StopOf(r).phase = "stop"
    BY DEF StopOf
  <1>5. ASSUME NEW q \in Run, NEW k \in 1..Len(topic'), topic'[k].run = q
        PROVE  /\ topic'[k].phase # "stop" => AssignmentOfIn(q, k)
               /\ topic'[k].phase = "stop" => StopOfIn(q, k) \/ (q = r /\ k = Len(topic) + 1)
    BY <1>2, <1>3, <1>4, <1>5 DEF AssignmentOfIn, StopOfIn
  <1>6. ASSUME NEW q \in Run, Late(q)'
        PROVE  Late(q)
    <2>1. PICK i, j \in 1..Len(topic') : i < j /\ StopOfIn(q, i)' /\ AssignmentOfIn(q, j)'
      BY <1>6 DEF Late
    <2>2. AssignmentOfIn(q, j)
      BY <2>1, <1>5 DEF AssignmentOfIn
    <2>3. StopOfIn(q, i)
      BY <2>1, <2>2, <1>5, <1>3 DEF AssignmentOfIn, StopOfIn
    <2>4. i \in 1..Len(topic) /\ j \in 1..Len(topic)
      BY <2>2, <2>3 DEF AssignmentOfIn, StopOfIn
    <2> QED  BY <2>1, <2>2, <2>3, <2>4 DEF Late
  <1>7. StopInv'
    <2>1. \A q \in Run : (stopping[q] > 0 => cancel[q])'
      OBVIOUS
    <2>2. ASSUME NEW q \in Run, NEW k \in 1..Len(topic'), StopOfIn(q, k)'
          PROVE  cancel'[q]
      <3>1. topic'[k].run = q /\ topic'[k].phase = "stop"
        BY <2>2 DEF StopOfIn
      <3>2. CASE q = r
        BY <3>2
      <3>3. CASE q # r
        <4>1. StopOfIn(q, k) /\ k \in 1..Len(topic)
          BY <3>1, <3>3, <1>5 DEF StopOfIn
        <4> QED  BY <4>1 DEF IInv, StopInv
      <3> QED  BY <3>2, <3>3
    <2>3. \A q \in Run : (Late(q) => pc[q] \in {"wait", "check", "done"})'
      BY <1>6 DEF IInv, StopInv
    <2> QED  BY <2>1, <2>2, <2>3 DEF StopInv
  <1>8. OneLateAssignment'
    <2> SUFFICES ASSUME NEW i \in 1..Len(topic'), NEW j \in 1..Len(topic'), NEW k \in 1..Len(topic'),
                        i < j, j < k, topic'[i].phase = "stop",
                        topic'[j].run = topic'[i].run, topic'[k].run = topic'[i].run,
                        topic'[k].phase # "stop"
                 PROVE  topic'[j].phase = "stop"
      BY DEF OneLateAssignment
    <2>1. k \in 1..Len(topic)
      BY <1>2, <1>3, <1>4
    <2>2. i \in 1..Len(topic) /\ j \in 1..Len(topic)
      BY <2>1, <1>3, <1>2
    <2>3. topic'[i] = topic[i] /\ topic'[j] = topic[j] /\ topic'[k] = topic[k]
      BY <2>1, <2>2, <1>2
    <2> QED  BY <2>1, <2>2, <2>3 DEF IInv, OneLateAssignment
  <1> QED  BY <1>2, <1>7, <1>8

\* r publishes, and then either has not been stopped or looks at the flag next.
LEMMA AppendAssignment ==
    ASSUME IInv, NEW r \in Run, pc[r] = "publish",
           topic' = Append(topic, Assignment(r)),
           pc'[r] \in {"wait", "check", "done"},
           \A q \in Run : q # r => pc'[q] = pc[q],
           UNCHANGED <<cancel, stopping>>
    PROVE  StopInv' /\ OneLateAssignment' /\ topic' \in Seq(Message)
  <1>1. Assignment(r) \in Message /\ topic \in Seq(Message)
    <2>1. at[r] \in 1..Len(Phases) /\ step[r] \in Nat
      BY DEF IInv, TypeOK
    <2> QED  BY <2>1 DEF IInv, TypeOK, Message, Assignment
  <1>2. /\ topic' \in Seq(Message)
        /\ Len(topic') = Len(topic) + 1
        /\ \A k \in 1..Len(topic) : topic'[k] = topic[k]
        /\ topic'[Len(topic) + 1] = Assignment(r)
    BY <1>1, AppendFacts
  <1>3. Len(topic) \in Nat
    BY <1>1
  <1>4. Assignment(r).run = r /\ Assignment(r).phase # "stop"
    BY PhaseFacts DEF Assignment, IInv, TypeOK
  <1>5. ~ Late(r)
    BY DEF IInv, StopInv
  <1>6. ASSUME NEW q \in Run, q # r, Late(q)'
        PROVE  Late(q)
    <2>1. PICK i, j \in 1..Len(topic') : i < j /\ StopOfIn(q, i)' /\ AssignmentOfIn(q, j)'
      BY <1>6 DEF Late
    <2>2. j \in 1..Len(topic)
      BY <2>1, <1>6, <1>2, <1>3, <1>4 DEF AssignmentOfIn
    <2>3. i \in 1..Len(topic)
      BY <2>1, <2>2, <1>3, <1>2
    <2> QED  BY <2>1, <2>2, <2>3, <1>2 DEF Late, StopOfIn, AssignmentOfIn
  <1>7. StopInv'
    <2>1. \A q \in Run : (stopping[q] > 0 => cancel[q])'
      BY DEF IInv, StopInv
    <2>2. ASSUME NEW q \in Run, NEW k \in 1..Len(topic'), StopOfIn(q, k)'
          PROVE  cancel'[q]
      <3>1. k \in 1..Len(topic) /\ topic'[k] = topic[k]
        BY <2>2, <1>2, <1>3, <1>4 DEF StopOfIn
      <3> QED  BY <3>1, <2>2 DEF IInv, StopInv, StopOfIn
    <2>3. ASSUME NEW q \in Run, Late(q)'
          PROVE  pc'[q] \in {"wait", "check", "done"}
      BY <2>3, <1>6 DEF IInv, StopInv
    <2> QED  BY <2>1, <2>2, <2>3 DEF StopInv
  <1>8. OneLateAssignment'
    <2> SUFFICES ASSUME NEW i \in 1..Len(topic'), NEW j \in 1..Len(topic'), NEW k \in 1..Len(topic'),
                        i < j, j < k, topic'[i].phase = "stop",
                        topic'[j].run = topic'[i].run, topic'[k].run = topic'[i].run,
                        topic'[j].phase # "stop", topic'[k].phase # "stop"
                 PROVE  FALSE
      BY DEF OneLateAssignment
    <2>1. i \in 1..Len(topic) /\ j \in 1..Len(topic)
      BY <1>2, <1>3
    <2>2. topic'[i] = topic[i] /\ topic'[j] = topic[j]
      BY <2>1, <1>2
    <2>3. CASE k \in 1..Len(topic)
      <3>1. topic'[k] = topic[k]
        BY <2>3, <1>2
      <3> QED  BY <2>1, <2>2, <2>3, <3>1 DEF IInv, OneLateAssignment
    <2>4. CASE k = Len(topic) + 1
      <3>1. topic[i].run = r /\ topic[j].run = r
        BY <2>2, <2>4, <1>2, <1>4
      <3>2. StopOfIn(r, i) /\ AssignmentOfIn(r, j)
        BY <3>1, <2>1, <2>2 DEF StopOfIn, AssignmentOfIn
      <3> QED  BY <3>2, <2>1, <1>5 DEF Late
    <2> QED  BY <2>3, <2>4, <1>2, <1>3
  <1> QED  BY <1>2, <1>7, <1>8

\* A step that leaves the topic alone keeps both, if it lowers no flag.
LEMMA SameTopic ==
    ASSUME IInv, UNCHANGED topic,
           \A q \in Run : cancel[q] => cancel'[q],
           \A q \in Run : stopping'[q] > 0 => cancel'[q],
           \A q \in Run : Late(q) => pc'[q] \in {"wait", "check", "done"}
    PROVE  StopInv' /\ OneLateAssignment' /\ topic' \in Seq(Message)
  <1>1. \A q \in Run : Late(q)' <=> Late(q)
    BY DEF Late, StopOfIn, AssignmentOfIn
  <1>2. \A q \in Run, k \in 1..Len(topic') : StopOfIn(q, k)' => cancel'[q]
    BY DEF StopOfIn, IInv, StopInv
  <1>3. StopInv'
    BY <1>1, <1>2 DEF StopInv
  <1> QED  BY <1>3 DEF IInv, OneLateAssignment, TypeOK

-----------------------------------------------------------------------------
(* The steps                                                               *)

\* No run exists and the topic is empty.
LEMMA InitInv == Init => IInv
  <1> SUFFICES ASSUME Init PROVE IInv
    OBVIOUS
  <1>1. topic = <<>> /\ Len(topic) = 0 /\ 1..Len(topic) = {} /\ topic \in Seq(Message)
    BY DEF Init
  <1>2. TypeOK
    BY <1>1, PhaseFacts, BoundsAssumption DEF Init, TypeOK, Running, Terminal, Run
  <1>3. RampInv /\ DriverInv /\ Superseded
    BY DEF Init, RampInv, DriverInv, Superseded, Terminal, Run
  <1>4. StopInv /\ OneLateAssignment
    BY <1>1 DEF Init, StopInv, OneLateAssignment, StopOfIn, Late
  <1> QED  BY <1>2, <1>3, <1>4 DEF IInv

\* A start finds every older thread cancelled or past its last assignment,
\* and adds a thread that has published nothing.
LEMMA StartInv == IInv /\ StartBenchmark => IInv'
  <1> SUFFICES ASSUME IInv, StartBenchmark PROVE IInv'
    OBVIOUS
  <1> USE DEF StartBenchmark, Goto
  <1>1. current \in 0..MaxStarts /\ current + 1 \in Run /\ current' = current + 1
    BY BoundsAssumption DEF IInv, TypeOK, Run
  <1>2. pc[current + 1] = "none" /\ ~ cancel[current + 1]
    BY <1>1 DEF IInv, DriverInv
  <1>3. StopInv' /\ OneLateAssignment' /\ topic' \in Seq(Message)
    <2>1. \A q \in Run : Late(q) => pc'[q] \in {"wait", "check", "done"}
      BY <1>1 DEF IInv, StopInv, TypeOK
    <2>2. \A q \in Run : stopping'[q] > 0 => cancel'[q]
      BY DEF IInv, StopInv
    <2> QED  BY <2>1, <2>2, SameTopic
  <1>4. TypeOK'
    <2>1. current' \in 0..MaxStarts
      BY <1>1, BoundsAssumption DEF Run
    <2>2. status' \in [Run -> Running \cup Terminal \cup {"none"}]
      BY DEF IInv, TypeOK, Running
    <2>3. pc' \in [Run -> {"none", "check", "update", "check_ramp", "publish", "wait",
                           "complete", "go_idle", "done"}]
      BY DEF IInv, TypeOK
    <2> QED  BY <1>3, <2>1, <2>2, <2>3 DEF IInv, TypeOK
  <1>5. RampInv'
    BY <1>1 DEF IInv, RampInv, TypeOK
  <1>6. \A r \in Run : r > current' => r > current /\ r # current + 1
    BY <1>1 DEF Run
  <1>7. DriverInv'
    BY <1>1, <1>6 DEF IInv, TypeOK, DriverInv, Harmless, Terminal
  <1>8. Superseded'
    <2> SUFFICES ASSUME NEW r \in Run, r < current + 1
                 PROVE  cancel[r] \/ pc'[r] \in {"complete", "go_idle", "done"}
      BY <1>1 DEF Superseded, Harmless
    <2>1. r # current + 1 /\ (r < current \/ r = current)
      BY <1>1 DEF Run
    <2>2. CASE r < current
      BY <2>1, <2>2 DEF IInv, Superseded, Harmless, TypeOK
    <2>3. CASE r = current
      <3>1. status[r] \in Terminal
        BY <2>3, <1>1 DEF MayStart, Run
      <3> QED  BY <3>1, <2>1 DEF IInv, DriverInv, Harmless, TypeOK
    <2> QED  BY <2>1, <2>2, <2>3
  <1> QED  BY <1>3, <1>4, <1>5, <1>7, <1>8 DEF IInv

\* A stop raises the flag before it owes the topic a message.
LEMMA StopBenchmarkInv == IInv /\ StopBenchmark => IInv'
  <1> SUFFICES ASSUME IInv, StopBenchmark PROVE IInv'
    OBVIOUS
  <1> USE DEF StopBenchmark, threadVars
  <1>1. current \in Run
    BY BoundsAssumption DEF IInv, TypeOK, Run
  <1>2. StopInv' /\ OneLateAssignment' /\ topic' \in Seq(Message)
    <2>1. \A q \in Run : cancel[q] => cancel'[q]
      BY <1>1 DEF IInv, TypeOK
    <2>2. \A q \in Run : stopping'[q] > 0 => cancel'[q]
      BY <1>1 DEF IInv, TypeOK, StopInv
    <2>3. \A q \in Run : Late(q) => pc'[q] \in {"wait", "check", "done"}
      BY DEF IInv, StopInv
    <2> QED  BY <2>1, <2>2, <2>3, SameTopic
  <1>3. TypeOK'
    BY <1>1, <1>2, BoundsAssumption DEF IInv, TypeOK, Terminal
  <1>4. RampInv' /\ DriverInv' /\ Superseded'
    BY <1>1 DEF IInv, TypeOK, RampInv, DriverInv, Superseded, Harmless, Terminal, Run
  <1> QED  BY <1>2, <1>3, <1>4 DEF IInv

\* The stop that is published belongs to a run whose flag is up.
LEMMA PublishStopInv == \A r \in Run : IInv /\ PublishStop(r) => IInv'
  <1> SUFFICES ASSUME NEW r \in Run, IInv, PublishStop(r) PROVE IInv'
    OBVIOUS
  <1> USE DEF PublishStop, threadVars
  <1>1. cancel[r] /\ \A q \in Run : stopping'[q] > 0 => cancel[q]
    BY DEF IInv, TypeOK, StopInv
  <1>2. StopInv' /\ OneLateAssignment' /\ topic' \in Seq(Message)
    <2>1. CASE Published(StopOf(r))
      BY <2>1, <1>1, AppendStop DEF Published
    <2>2. CASE Lost
      <3>1. \A q \in Run : Late(q) => pc'[q] \in {"wait", "check", "done"}
        BY DEF IInv, StopInv
      <3> QED  BY <2>2, <3>1, <1>1, SameTopic DEF Lost
    <2> QED  BY <2>1, <2>2
  <1>3. TypeOK'
    BY <1>2 DEF IInv, TypeOK
  <1>4. RampInv' /\ DriverInv' /\ Superseded'
    BY DEF IInv, RampInv, DriverInv, Superseded, Harmless
  <1> QED  BY <1>2, <1>3, <1>4 DEF IInv

-----------------------------------------------------------------------------
(* The steps of the thread of r                                            *)

\* The thread of r moves no other.
LEMMA PcOfOthers ==
    ASSUME TypeOK, NEW r \in Run, ThreadStep(r)
    PROVE  \A q \in Run : q # r => pc'[q] = pc[q]
  BY DEF ThreadStep, CheckCancel, UpdateRunPhase, CheckCancelInRamp, PublishAssignment,
         PublishFails, WaitForPhase, Complete, GoIdle, NextPhase, Goto, TypeOK

\* An assignment came after a stop only if the flag of the run is up.
LEMMA LateIsCancelled == \A r \in Run : IInv /\ Late(r) => cancel[r]
  BY DEF IInv, StopInv, Late

\* A step of a thread that does not turn back keeps the driver's invariants.
LEMMA ThreadKeepsDriver ==
    ASSUME IInv, NEW r \in Run, pc[r] # "none",
           UNCHANGED <<current, cancel>>,
           \A q \in Run : q # r => pc'[q] = pc[q] /\ status'[q] = status[q],
           Harmless(r) => Harmless(r)',
           status'[r] \in Terminal => Harmless(r)'
    PROVE  DriverInv' /\ Superseded'
  <1>1. \A q \in Run : Harmless(q) => Harmless(q)'
    BY DEF Harmless
  <1>2. ~ (r > current)
    BY DEF IInv, DriverInv
  <1>3. \A q \in Run : q > current => q # r /\ pc[q] = "none" /\ ~ cancel[q]
    BY <1>2 DEF IInv, DriverInv
  <1>4. DriverInv'
    BY <1>1, <1>3 DEF IInv, DriverInv
  <1>5. Superseded'
    BY <1>1 DEF IInv, Superseded, Harmless
  <1> QED  BY <1>4, <1>5

\* A step that publishes nothing keeps StopInv and OneLateAssignment, if the
\* thread of a late run stays where it looks at the flag.
LEMMA ThreadKeepsTopic ==
    ASSUME IInv, NEW r \in Run,
           UNCHANGED <<cancel, stopping, topic>>,
           \A q \in Run : q # r => pc'[q] = pc[q],
           Late(r) => pc'[r] \in {"wait", "check", "done"}
    PROVE  StopInv' /\ OneLateAssignment' /\ topic' \in Seq(Message)
  <1>1. \A q \in Run : Late(q) => pc'[q] \in {"wait", "check", "done"}
    BY DEF IInv, StopInv
  <1>2. \A q \in Run : stopping'[q] > 0 => cancel'[q]
    BY DEF IInv, StopInv
  <1> QED  BY <1>1, <1>2, SameTopic

\* The look at the flag before a phase ends a thread that is cancelled.
LEMMA CheckCancelInv == \A r \in Run : IInv /\ CheckCancel(r) => IInv'
  <1> SUFFICES ASSUME NEW r \in Run, IInv, CheckCancel(r) PROVE IInv'
    OBVIOUS
  <1> USE DEF CheckCancel, Goto
  <1>1. pc'[r] = IF cancel[r] THEN "done" ELSE "update"
    BY DEF IInv, TypeOK
  <1>2. \A q \in Run : q # r => pc'[q] = pc[q]
    BY DEF IInv, TypeOK
  <1>3. StopInv' /\ OneLateAssignment' /\ topic' \in Seq(Message)
    BY <1>1, <1>2, LateIsCancelled, ThreadKeepsTopic
  <1>4. TypeOK'
    BY <1>3 DEF IInv, TypeOK
  <1>5. RampInv'
    BY <1>1, <1>2 DEF IInv, RampInv
  <1>6. DriverInv' /\ Superseded'
    <2>1. (Harmless(r) => Harmless(r)') /\ (status'[r] \in Terminal => Harmless(r)')
      BY <1>1 DEF IInv, DriverInv, Harmless
    <2> QED  BY <1>1, <1>2, <2>1, ThreadKeepsDriver
  <1> QED  BY <1>3, <1>4, <1>5, <1>6 DEF IInv

\* The status of a phase is set by a thread that is still to publish.
LEMMA UpdateRunPhaseInv == \A r \in Run : IInv /\ UpdateRunPhase(r) => IInv'
  <1> SUFFICES ASSUME NEW r \in Run, IInv, UpdateRunPhase(r) PROVE IInv'
    OBVIOUS
  <1> USE DEF UpdateRunPhase, Goto
  <1>1. pc'[r] \in {"check_ramp", "publish"}
    BY DEF IInv, TypeOK
  <1>2. \A q \in Run : q # r => pc'[q] = pc[q] /\ status'[q] = status[q]
    BY DEF IInv, TypeOK
  <1>3. status'[r] = StatusIn[at[r]] /\ status'[r] \in Running
    BY PhaseFacts DEF IInv, TypeOK
  <1>4. StopInv' /\ OneLateAssignment' /\ topic' \in Seq(Message)
    <2>1. ~ Late(r)
      BY DEF IInv, StopInv
    <2> QED  BY <1>2, <2>1, ThreadKeepsTopic
  <1>5. TypeOK'
    BY <1>3, <1>4 DEF IInv, TypeOK
  <1>6. RampInv'
    BY <1>1, <1>2 DEF IInv, RampInv
  <1>7. DriverInv' /\ Superseded'
    <2>1. (Harmless(r) => Harmless(r)') /\ status'[r] \notin Terminal
      BY <1>3 DEF Harmless, Running, Terminal
    <2> QED  BY <1>2, <2>1, ThreadKeepsDriver
  <1> QED  BY <1>4, <1>5, <1>6, <1>7 DEF IInv

\* The look at the flag before a step of the ramp.
LEMMA CheckCancelInRampInv == \A r \in Run : IInv /\ CheckCancelInRamp(r) => IInv'
  <1> SUFFICES ASSUME NEW r \in Run, IInv, CheckCancelInRamp(r) PROVE IInv'
    OBVIOUS
  <1> USE DEF CheckCancelInRamp, Goto
  <1>1. pc'[r] = IF cancel[r] THEN "done" ELSE "publish"
    BY DEF IInv, TypeOK
  <1>2. \A q \in Run : q # r => pc'[q] = pc[q]
    BY DEF IInv, TypeOK
  <1>3. StopInv' /\ OneLateAssignment' /\ topic' \in Seq(Message)
    BY <1>1, <1>2, LateIsCancelled, ThreadKeepsTopic
  <1>4. TypeOK'
    BY <1>3 DEF IInv, TypeOK
  <1>5. RampInv'
    BY <1>1, <1>2 DEF IInv, RampInv
  <1>6. DriverInv' /\ Superseded'
    <2>1. (Harmless(r) => Harmless(r)') /\ (status'[r] \in Terminal => Harmless(r)')
      BY <1>1 DEF IInv, DriverInv, Harmless
    <2> QED  BY <1>1, <1>2, <2>1, ThreadKeepsDriver
  <1> QED  BY <1>3, <1>4, <1>5, <1>6 DEF IInv

\* What NextPhase does to the position of the thread.
LEMMA NextPhaseFacts ==
    ASSUME TypeOK, NEW r \in Run, NextPhase(r)
    PROVE  /\ pc'[r] = IF at[r] < 5 THEN "check" ELSE "complete"
           /\ \A q \in Run : q # r => pc'[q] = pc[q] /\ at'[q] = at[q] /\ step'[q] = step[q]
           /\ pc' \in [Run -> {"none", "check", "update", "check_ramp", "publish", "wait",
                               "complete", "go_idle", "done"}]
           /\ at' \in [Run -> 1..5]
           /\ step' \in [Run -> Nat]
           /\ step'[r] = 0
  <1>1. at \in [Run -> 1..5] /\ at[r] \in 1..5 /\ Len(Phases) = 5
    BY PhaseFacts DEF TypeOK
  <1>2. step' \in [Run -> Nat] /\ step'[r] = 0 /\ \A q \in Run : q # r => step'[q] = step[q]
    BY DEF TypeOK, NextPhase
  <1>3. CASE at[r] < 5
    <2>1. pc' = [pc EXCEPT ![r] = "check"] /\ at' = [at EXCEPT ![r] = at[r] + 1]
      BY <1>1, <1>3 DEF NextPhase, Goto
    <2>2. at[r] + 1 \in 1..5
      BY <1>1, <1>3
    <2>3. at' \in [Run -> 1..5] /\ \A q \in Run : q # r => at'[q] = at[q]
      BY <1>1, <2>1, <2>2
    <2> QED  BY <1>2, <1>3, <2>1, <2>3 DEF TypeOK
  <1>4. CASE ~ (at[r] < 5)
    <2>1. pc' = [pc EXCEPT ![r] = "complete"] /\ at' = at
      BY <1>1, <1>4 DEF NextPhase, Goto
    <2> QED  BY <1>1, <1>2, <1>4, <2>1 DEF TypeOK
  <1> QED  BY <1>3, <1>4

\* The step of the ramp stays in range when every other thread keeps its own.
LEMMA StepTyped ==
    ASSUME TypeOK, NEW r \in Run,
           \A q \in Run : q # r => at'[q] = at[q] /\ step'[q] = step[q],
           at' \in [Run -> 1..5],
           step'[r] \in 0..LastStep(at'[r])
    PROVE  \A q \in Run : step'[q] \in 0..LastStep(at'[q])
  BY DEF TypeOK

\* An assignment is the next one of the plan, and the one late assignment at
\* most.
LEMMA PublishAssignmentInv == \A r \in Run : IInv /\ PublishAssignment(r) => IInv'
  <1> SUFFICES ASSUME NEW r \in Run, IInv, PublishAssignment(r) PROVE IInv'
    OBVIOUS
  <1> USE DEF PublishAssignment
  <1>1. TypeOK /\ Len(Phases) = 5
    BY PhaseFacts DEF IInv
  <1>2. /\ pc'[r] \in {"wait", "check"}
        /\ pc'[r] = "wait" => at'[r] = at[r] /\ step'[r] = step[r] /\ ~ LastOfRamp(r)
        /\ \A q \in Run : q # r => pc'[q] = pc[q] /\ at'[q] = at[q] /\ step'[q] = step[q]
        /\ pc' \in [Run -> {"none", "check", "update", "check_ramp", "publish", "wait",
                            "complete", "go_idle", "done"}]
        /\ at' \in [Run -> 1..5]
        /\ step' \in [Run -> Nat]
        /\ step'[r] \in 0..LastStep(at'[r])
    <2>1. CASE LastOfRamp(r)
      <3>1. NextPhase(r) /\ at[r] \in 1..5 /\ at[r] < 5
        BY <2>1, <1>1, PhaseFacts DEF LastOfRamp, TypeOK
      <3>2. pc'[r] = "check"
        BY <3>1, <1>1, NextPhaseFacts
      <3>3. step'[r] = 0 /\ at'[r] \in 1..5
        BY <3>1, <1>1, NextPhaseFacts
      <3>4. step'[r] \in 0..LastStep(at'[r])
        BY <3>3, PhaseFacts
      <3> QED  BY <1>1, <3>1, <3>2, <3>4, NextPhaseFacts
    <2>2. CASE ~ LastOfRamp(r)
      BY <2>2, <1>1 DEF Goto, TypeOK
    <2> QED  BY <2>1, <2>2
  <1>3. StopInv' /\ OneLateAssignment' /\ topic' \in Seq(Message)
    BY <1>2, AppendAssignment DEF Published
  <1>4. TypeOK'
    BY <1>1, <1>2, <1>3, StepTyped DEF TypeOK
  <1>5. RampInv'
    <2>1. pc'[r] = "wait" /\ IsRamp(at'[r]) => step'[r] < RampSteps
      <3>1. ASSUME pc'[r] = "wait", IsRamp(at'[r])
            PROVE  step'[r] < RampSteps
        <4>1. at'[r] = at[r] /\ step'[r] = step[r] /\ IsRamp(at[r]) /\ step[r] # RampSteps
          BY <3>1, <1>2 DEF LastOfRamp
        <4>2. step[r] \in 0..RampSteps
          BY <4>1, <1>1, PhaseFacts DEF TypeOK
        <4> QED  BY <4>1, <4>2, BoundsAssumption
      <3> QED  BY <3>1
    <2>2. \A q \in Run : q # r => (pc'[q] = "wait" /\ IsRamp(at'[q]) => step'[q] < RampSteps)
      BY <1>2 DEF IInv, RampInv
    <2> QED  BY <2>1, <2>2 DEF RampInv, IsRamp
  <1>6. DriverInv' /\ Superseded'
    <2>1. (Harmless(r) => Harmless(r)') /\ (status'[r] \in Terminal => Harmless(r)')
      BY DEF IInv, DriverInv, Harmless
    <2> QED  BY <1>2, <2>1, ThreadKeepsDriver
  <1> QED  BY <1>3, <1>4, <1>5, <1>6 DEF IInv

\* A publish that fails ends the thread, whether or not the message arrived.
LEMMA PublishFailsInv == \A r \in Run : IInv /\ PublishFails(r) => IInv'
  <1> SUFFICES ASSUME NEW r \in Run, IInv, PublishFails(r) PROVE IInv'
    OBVIOUS
  <1> USE DEF PublishFails, Goto
  <1>1. pc'[r] = "done"
    BY DEF IInv, TypeOK
  <1>2. \A q \in Run : q # r => pc'[q] = pc[q] /\ status'[q] = status[q]
    BY DEF IInv, TypeOK
  <1>3. StopInv' /\ OneLateAssignment' /\ topic' \in Seq(Message)
    <2>1. CASE Published(Assignment(r))
      BY <1>1, <1>2, <2>1, AppendAssignment DEF Published
    <2>2. CASE Lost
      BY <1>1, <1>2, <2>2, ThreadKeepsTopic DEF Lost
    <2> QED  BY <2>1, <2>2
  <1>4. TypeOK'
    BY <1>3 DEF IInv, TypeOK, Terminal
  <1>5. RampInv'
    BY <1>1, <1>2 DEF IInv, RampInv
  <1>6. DriverInv' /\ Superseded'
    BY <1>1, <1>2, ThreadKeepsDriver DEF Harmless
  <1> QED  BY <1>3, <1>4, <1>5, <1>6 DEF IInv

\* After the wait a thread looks at the flag before it publishes again.
LEMMA WaitForPhaseInv == \A r \in Run : IInv /\ WaitForPhase(r) => IInv'
  <1> SUFFICES ASSUME NEW r \in Run, IInv, WaitForPhase(r) PROVE IInv'
    OBVIOUS
  <1> USE DEF WaitForPhase
  <1>1. TypeOK /\ RampInv /\ Len(Phases) = 5
    BY PhaseFacts DEF IInv
  <1>2. /\ pc'[r] \in {"check_ramp", "check", "complete", "done"}
        /\ cancel[r] => pc'[r] = "done"
        /\ \A q \in Run : q # r => pc'[q] = pc[q] /\ at'[q] = at[q] /\ step'[q] = step[q]
        /\ pc' \in [Run -> {"none", "check", "update", "check_ramp", "publish", "wait",
                            "complete", "go_idle", "done"}]
        /\ at' \in [Run -> 1..5]
        /\ step' \in [Run -> Nat]
        /\ step'[r] \in 0..LastStep(at'[r])
    <2>1. CASE cancel[r]
      BY <2>1, <1>1 DEF Goto, TypeOK
    <2>2. CASE ~ cancel[r] /\ IsRamp(at[r])
      <3>1. /\ pc' = [pc EXCEPT ![r] = "check_ramp"]
            /\ step' = [step EXCEPT ![r] = step[r] + 1] /\ at' = at
        BY <2>2 DEF Goto
      <3>2. step[r] \in Nat /\ step[r] < RampSteps /\ step'[r] = step[r] + 1
        BY <2>2, <3>1, <1>1 DEF TypeOK, RampInv
      <3>3. step'[r] \in 0..RampSteps
        BY <3>2, BoundsAssumption
      <3>4. LastStep(at'[r]) = RampSteps
        BY <2>2, <3>1, <1>1, PhaseFacts DEF TypeOK
      <3> QED  BY <2>2, <3>1, <3>2, <3>3, <3>4, <1>1 DEF TypeOK
    <2>3. CASE ~ cancel[r] /\ ~ IsRamp(at[r])
      <3>1. NextPhase(r)
        BY <2>3
      <3>2. step'[r] = 0 /\ at' \in [Run -> 1..5]
        BY <3>1, <1>1, NextPhaseFacts
      <3>3. step'[r] \in 0..LastStep(at'[r])
        BY <3>2, PhaseFacts
      <3> QED  BY <1>1, <2>3, <3>1, <3>3, NextPhaseFacts
    <2> QED  BY <2>1, <2>2, <2>3
  <1>3. StopInv' /\ OneLateAssignment' /\ topic' \in Seq(Message)
    BY <1>2, LateIsCancelled, ThreadKeepsTopic
  <1>4. TypeOK'
    BY <1>1, <1>2, <1>3, StepTyped DEF TypeOK
  <1>5. RampInv'
    BY <1>1, <1>2 DEF RampInv, IsRamp
  <1>6. DriverInv' /\ Superseded'
    <2>1. (Harmless(r) => Harmless(r)') /\ (status'[r] \in Terminal => Harmless(r)')
      BY DEF IInv, DriverInv, Harmless
    <2> QED  BY <1>2, <2>1, ThreadKeepsDriver
  <1> QED  BY <1>3, <1>4, <1>5, <1>6 DEF IInv

\* "completed" is written by a thread whose plan is over.
LEMMA CompleteInv == \A r \in Run : IInv /\ Complete(r) => IInv'
  <1> SUFFICES ASSUME NEW r \in Run, IInv, Complete(r) PROVE IInv'
    OBVIOUS
  <1> USE DEF Complete, Goto
  <1>1. pc'[r] = "go_idle"
    BY DEF IInv, TypeOK
  <1>2. \A q \in Run : q # r => pc'[q] = pc[q] /\ status'[q] = status[q]
    BY DEF IInv, TypeOK
  <1>3. StopInv' /\ OneLateAssignment' /\ topic' \in Seq(Message)
    <2>1. ~ Late(r)
      BY DEF IInv, StopInv
    <2> QED  BY <1>2, <2>1, ThreadKeepsTopic
  <1>4. TypeOK'
    BY <1>3 DEF IInv, TypeOK, Terminal
  <1>5. RampInv'
    BY <1>1, <1>2 DEF IInv, RampInv
  <1>6. DriverInv' /\ Superseded'
    BY <1>1, <1>2, ThreadKeepsDriver DEF Harmless
  <1> QED  BY <1>3, <1>4, <1>5, <1>6 DEF IInv

\* The return to idle ends the thread.
LEMMA GoIdleInv == \A r \in Run : IInv /\ GoIdle(r) => IInv'
  <1> SUFFICES ASSUME NEW r \in Run, IInv, GoIdle(r) PROVE IInv'
    OBVIOUS
  <1> USE DEF GoIdle, Goto
  <1>1. pc'[r] = "done"
    BY DEF IInv, TypeOK
  <1>2. \A q \in Run : q # r => pc'[q] = pc[q] /\ status'[q] = status[q]
    BY DEF IInv, TypeOK
  <1>3. StopInv' /\ OneLateAssignment' /\ topic' \in Seq(Message)
    BY <1>1, <1>2, ThreadKeepsTopic
  <1>4. TypeOK'
    BY <1>3 DEF IInv, TypeOK, Terminal
  <1>5. RampInv'
    BY <1>1, <1>2 DEF IInv, RampInv
  <1>6. DriverInv' /\ Superseded'
    BY <1>1, <1>2, ThreadKeepsDriver DEF Harmless
  <1> QED  BY <1>3, <1>4, <1>5, <1>6 DEF IInv

-----------------------------------------------------------------------------
(* The theorems                                                            *)

\* Every step of execute_phases keeps the invariant.
LEMMA ThreadStepInv == \A r \in Run : IInv /\ ThreadStep(r) => IInv'
  BY CheckCancelInv, UpdateRunPhaseInv, CheckCancelInRampInv, PublishAssignmentInv,
     PublishFailsInv, WaitForPhaseInv, CompleteInv, GoIdleInv DEF ThreadStep

\* A step that changes nothing keeps the invariant.
LEMMA StutterInv == IInv /\ UNCHANGED vars => IInv'
  BY DEF vars, threadVars, IInv, TypeOK, RampInv, DriverInv, Harmless, Superseded,
         StopInv, Late, StopOfIn, AssignmentOfIn, OneLateAssignment

\* Every step keeps the invariant: requests and threads.
LEMMA NextInv == IInv /\ [Next]_vars => IInv'
  BY StartInv, StopBenchmarkInv, PublishStopInv, ThreadStepInv, StutterInv DEF Next

\* The inductive invariant holds in every state that requests, stops, restarts
\* and failing publishes lead to.
THEOREM Invariance == Spec => []IInv
  BY InitInv, NextInv, PTL DEF Spec

\* Every variable stays in its type; in particular execute_ramp_phase never
\* goes beyond its last step and execute_phases never beyond its last phase.
THEOREM TypeCorrect == Spec => []TypeOK
  <1>1. IInv => TypeOK
    BY DEF IInv
  <1> QED  BY <1>1, Invariance, PTL

\* However stop_benchmark and the thread interleave, at most one assignment of
\* a run follows a stop of it on the command topic.
THEOREM StopIsLateByOne == Spec => []OneLateAssignment
  <1>1. IInv => OneLateAssignment
    BY DEF IInv
  <1> QED  BY <1>1, Invariance, PTL

-----------------------------------------------------------------------------
(* What a replaced thread still publishes                                  *)

\* An assignment of r stands in the topic behind one of a later run.
Behind(r) ==
    \E i, j \in 1..Len(topic) :
        i < j /\ topic[i].run > r /\ topic[i].phase # "stop" /\ AssignmentOfIn(r, j)

\* Places from which the thread looks at its flag before it publishes.
LooksFirst(r) == pc[r] \in {"wait", "check", "done"}

RestartInv ==
    /\ \A k \in 1..Len(topic) : topic[k].run <= current
    /\ \A r \in Run : Behind(r) => LooksFirst(r)
    /\ ReplacedFallsSilent

\* Every message is of a run.
LEMMA RunOfMessage ==
    ASSUME TypeOK
    PROVE  /\ \A m \in Message : m.run \in Run
           /\ \A k \in 1..Len(topic) : topic[k] \in Message /\ topic[k].run \in Run
           /\ \A r \in Run : r \in Nat
           /\ current \in Nat
  <1>1. \A m \in Message : m.run \in Run
    BY DEF Message
  <1>2. \A k \in 1..Len(topic) : topic[k] \in Message
    BY DEF TypeOK
  <1>3. (\A r \in Run : r \in Nat) /\ current \in Nat
    BY BoundsAssumption DEF TypeOK, Run
  <1> QED  BY <1>1, <1>2, <1>3

\* A run that has published behind a later one has been replaced, so its flag
\* is up, unless its thread is at its end.
LEMMA BehindIsReplaced ==
    ASSUME IInv, RestartInv, NEW r \in Run, Behind(r)
    PROVE  r < current /\ LooksFirst(r) /\ (cancel[r] \/ pc[r] = "done")
  <1>1. PICK i \in 1..Len(topic) : topic[i].run > r
    BY DEF Behind
  <1>2. topic[i].run \in Nat /\ topic[i].run <= current /\ current \in Nat /\ r \in Nat
    BY RunOfMessage DEF IInv, RestartInv
  <1>3. r < current
    BY <1>1, <1>2
  <1> QED  BY <1>3 DEF IInv, Superseded, Harmless, RestartInv, LooksFirst

\* A step that publishes nothing.
LEMMA QuietRestart ==
    ASSUME IInv, RestartInv, UNCHANGED topic, current' \in Nat, current <= current',
           \A q \in Run : Behind(q) => LooksFirst(q)'
    PROVE  RestartInv'
  <1>1. \A q \in Run : Behind(q)' <=> Behind(q)
    BY DEF Behind, AssignmentOfIn
  <1>2. \A k \in 1..Len(topic) : topic[k].run \in Nat
    BY RunOfMessage DEF IInv
  <1>3. \A k \in 1..Len(topic) : topic[k].run <= current'
    BY <1>2, RunOfMessage DEF RestartInv, IInv
  <1> QED  BY <1>1, <1>3 DEF RestartInv, ReplacedFallsSilent

\* A step that publishes a message m: a run that has published behind a later
\* one sends no further assignment, and one that does so now looks at its flag
\* next.
LEMMA LoudRestart ==
    ASSUME IInv, RestartInv, NEW m \in Message, topic' = Append(topic, m),
           UNCHANGED current, m.run <= current,
           \A q \in Run : Behind(q) => LooksFirst(q)',
           m.phase # "stop" => ~Behind(m.run) /\ (m.run < current => LooksFirst(m.run)')
    PROVE  RestartInv'
  <1>1. /\ Len(topic) \in Nat /\ Len(topic') = Len(topic) + 1
        /\ \A k \in 1..Len(topic) : topic'[k] = topic[k]
        /\ topic'[Len(topic) + 1] = m
        /\ \A k \in 1..Len(topic') : k \in 1..Len(topic) \/ k = Len(topic) + 1
    BY DEF IInv, TypeOK
  <1>2. \A k \in 1..Len(topic') : topic'[k].run \in Run /\ topic'[k].run <= current
    BY <1>1, RunOfMessage DEF IInv, RestartInv
  <1>3. current \in Nat /\ \A q \in Run : q \in Nat
    BY RunOfMessage DEF IInv
  <1>4. ASSUME NEW q \in Run, Behind(q)'
        PROVE  LooksFirst(q)'
    <2>1. PICK i, j \in 1..Len(topic') :
              i < j /\ topic'[i].run > q /\ topic'[i].phase # "stop" /\ AssignmentOfIn(q, j)'
      BY <1>4 DEF Behind
    <2>2. i \in 1..Len(topic)
      BY <1>1, <2>1
    <2>3. CASE j \in 1..Len(topic)
      <3>1. Behind(q)
        BY <1>1, <2>1, <2>2, <2>3 DEF Behind, AssignmentOfIn
      <3> QED  BY <3>1
    <2>4. CASE j = Len(topic) + 1
      <3>1. m.run = q /\ m.phase # "stop"
        BY <1>1, <2>1, <2>4 DEF AssignmentOfIn
      <3>2. q < current
        BY <1>2, <1>3, <2>1
      <3> QED  BY <3>1, <3>2
    <2> QED  BY <1>1, <2>3, <2>4
  <1>5. ASSUME NEW i \in 1..Len(topic'), NEW j \in 1..Len(topic'), NEW k \in 1..Len(topic'),
               i < j, j < k, topic'[i].phase # "stop", topic'[j].run < topic'[i].run,
               topic'[k].run = topic'[j].run,
               topic'[j].phase # "stop", topic'[k].phase # "stop"
        PROVE  FALSE
    <2>1. i \in 1..Len(topic) /\ j \in 1..Len(topic)
      BY <1>1, <1>5
    <2>2. topic'[i] = topic[i] /\ topic'[j] = topic[j]
      BY <1>1, <2>1
    <2>3. CASE k \in 1..Len(topic)
      <3>1. topic'[k] = topic[k]
        BY <1>1, <2>3
      <3> QED  BY <1>5, <2>1, <2>2, <2>3, <3>1 DEF RestartInv, ReplacedFallsSilent
    <2>4. CASE k = Len(topic) + 1
      <3>1. m.run = topic[j].run /\ m.phase # "stop"
        BY <1>1, <1>5, <2>2, <2>4
      <3>2. topic[i].run > m.run
        BY <1>2, <1>3, <1>5, <2>2, <3>1
      <3>3. Behind(m.run)
        BY <1>5, <2>1, <2>2, <3>1, <3>2 DEF Behind, AssignmentOfIn
      <3> QED  BY <3>1, <3>3
    <2> QED  BY <1>1, <2>3, <2>4
  <1>6. ReplacedFallsSilent'
    BY <1>5 DEF ReplacedFallsSilent
  <1> QED  BY <1>2, <1>4, <1>6 DEF RestartInv

\* A publish of the thread of r.
LEMMA PublishRestart ==
    ASSUME IInv, RestartInv, NEW r \in Run, PublishAssignment(r) \/ PublishFails(r)
    PROVE  RestartInv'
  <1>1. TypeOK /\ pc[r] = "publish" /\ UNCHANGED current /\ current \in Nat
    BY DEF IInv, TypeOK, PublishAssignment, PublishFails
  <1>2. LooksFirst(r)'
    <2>1. CASE PublishFails(r)
      BY <1>1, <2>1 DEF PublishFails, Goto, LooksFirst, TypeOK
    <2>2. CASE PublishAssignment(r) /\ LastOfRamp(r)
      <3>1. NextPhase(r) /\ at[r] < 5
        BY <1>1, <2>2, PhaseFacts DEF PublishAssignment, LastOfRamp, TypeOK
      <3> QED  BY <1>1, <3>1, NextPhaseFacts DEF LooksFirst
    <2>3. CASE PublishAssignment(r) /\ ~LastOfRamp(r)
      BY <1>1, <2>3 DEF PublishAssignment, Goto, LooksFirst, TypeOK
    <2> QED  BY <2>1, <2>2, <2>3
  <1>3. ~Behind(r)
    BY <1>1, BehindIsReplaced DEF LooksFirst
  <1>4. \A q \in Run : q # r => pc'[q] = pc[q]
    <2>1. ThreadStep(r)
      BY DEF ThreadStep
    <2> QED  BY <1>1, <2>1, PcOfOthers
  <1>5. \A q \in Run : Behind(q) => LooksFirst(q)'
    BY <1>3, <1>4 DEF RestartInv, LooksFirst
  <1>6. CASE Published(Assignment(r))
    <2>1. Assignment(r) \in Message /\ Assignment(r).run = r
      BY <1>1 DEF Assignment, Message, TypeOK
    <2>2. r <= current
      <3>1. ~(r > current)
        BY <1>1 DEF IInv, DriverInv
      <3> QED  BY <1>1, <3>1 DEF Run
    <2> QED  BY <1>1, <1>2, <1>3, <1>5, <1>6, <2>1, <2>2, LoudRestart DEF Published
  <1>7. CASE Lost
    BY <1>1, <1>5, <1>7, QuietRestart DEF Lost
  <1> QED  BY <1>6, <1>7 DEF PublishAssignment, PublishFails

\* The other steps of the thread of r: a flag that is up ends it.
LEMMA LookRestart ==
    ASSUME IInv, RestartInv, NEW r \in Run, ThreadStep(r),
           ~(PublishAssignment(r) \/ PublishFails(r))
    PROVE  RestartInv'
  <1>1. TypeOK /\ UNCHANGED <<topic, current>> /\ current \in Nat
    BY DEF ThreadStep, CheckCancel, UpdateRunPhase, CheckCancelInRamp, WaitForPhase, Complete,
           GoIdle, IInv, TypeOK
  <1>2. \A q \in Run : q # r => pc'[q] = pc[q]
    BY <1>1, PcOfOthers
  <1>3. Behind(r) => pc[r] \in {"wait", "check"} /\ cancel[r]
    BY BehindIsReplaced, <1>1 DEF LooksFirst, ThreadStep, CheckCancel, UpdateRunPhase,
       CheckCancelInRamp, WaitForPhase, Complete, GoIdle
  <1>4. Behind(r) => pc'[r] = "done"
    BY <1>1, <1>3 DEF ThreadStep, CheckCancel, UpdateRunPhase, CheckCancelInRamp, WaitForPhase,
       Complete, GoIdle, Goto, TypeOK
  <1>5. \A q \in Run : Behind(q) => LooksFirst(q)'
    BY <1>2, <1>4 DEF RestartInv, LooksFirst
  <1> QED  BY <1>1, <1>5, QuietRestart

\* A start, a stop and its publish move no thread but a new one.
LEMMA RequestRestart ==
    ASSUME IInv, RestartInv,
           StartBenchmark \/ StopBenchmark \/ \E r \in Run : PublishStop(r)
    PROVE  RestartInv'
  <1>1. TypeOK /\ current \in Nat /\ MaxStarts \in Nat
    BY BoundsAssumption DEF IInv, TypeOK
  <1>2. CASE StartBenchmark
    <2>1. /\ UNCHANGED topic /\ current' = current + 1
          /\ \A q \in Run : q # current + 1 => pc'[q] = pc[q]
      BY <1>1, <1>2 DEF StartBenchmark, Goto, TypeOK
    <2>2. ASSUME NEW q \in Run, Behind(q)  PROVE LooksFirst(q)'
      <3>1. q < current /\ LooksFirst(q)
        BY <2>2, BehindIsReplaced
      <3>2. q # current + 1
        BY <1>1, <3>1 DEF Run
      <3> QED  BY <2>1, <3>1, <3>2 DEF LooksFirst
    <2> QED  BY <1>1, <2>1, <2>2, QuietRestart
  <1>3. CASE StopBenchmark
    BY <1>1, <1>3, QuietRestart DEF StopBenchmark, threadVars, RestartInv, LooksFirst
  <1>4. ASSUME NEW r \in Run, PublishStop(r)  PROVE RestartInv'
    <2>1. UNCHANGED <<current, pc>>
      BY <1>4 DEF PublishStop, threadVars
    <2>2. \A q \in Run : Behind(q) => LooksFirst(q)'
      BY <2>1 DEF RestartInv, LooksFirst
    <2>3. CASE Published(StopOf(r))
      <3>1. StopOf(r) \in Message /\ StopOf(r).run = r /\ StopOf(r).phase = "stop"
        BY DEF StopOf, Message
      <3>2. r <= current
        <4>1. cancel[r]
          BY <1>4 DEF PublishStop, IInv, StopInv
        <4>2. ~(r > current)
          BY <4>1 DEF IInv, DriverInv
        <4> QED  BY <1>1, <4>2 DEF Run
      <3> QED  BY <2>1, <2>2, <2>3, <3>1, <3>2, LoudRestart DEF Published
    <2>4. CASE Lost
      BY <1>1, <2>1, <2>2, <2>4, QuietRestart DEF Lost
    <2> QED  BY <1>4, <2>3, <2>4 DEF PublishStop
  <1> QED  BY <1>2, <1>3, <1>4

\* Every step of every thread and request.
LEMMA RestartStep == IInv /\ RestartInv /\ [Next]_vars => RestartInv'
  <1> SUFFICES ASSUME IInv, RestartInv, [Next]_vars  PROVE RestartInv'
    OBVIOUS
  <1>1. CASE UNCHANGED vars
    BY <1>1, QuietRestart DEF vars, threadVars, RestartInv, LooksFirst, IInv, TypeOK
  <1> QED  BY <1>1, PublishRestart, LookRestart, RequestRestart DEF Next

\* Nothing has been published.
LEMMA RestartInitially == Init => RestartInv
  <1> SUFFICES ASSUME Init  PROVE RestartInv
    OBVIOUS
  <1>1. topic = <<>> /\ 1..Len(topic) = {}
    BY DEF Init
  <1> QED  BY <1>1 DEF RestartInv, Behind, ReplacedFallsSilent

\* The check "already running" of start_benchmark suffices: however often a run
\* is stopped and started again, a thread that has been replaced sends one more
\* assignment behind those of the new run, at most.
THEOREM ReplacedThreadFallsSilent == Spec => []ReplacedFallsSilent
  <1>1. RestartInv => ReplacedFallsSilent
    BY DEF RestartInv
  <1> QED
    BY Invariance, RestartInitially, RestartStep, <1>1, PTL DEF Spec

-----------------------------------------------------------------------------
(* The refinement of RunStatus                                             *)

\* What a status says of the thread: a failed run has none any more, and that
\* of a completed run can only complete it again.
StatusInv ==
    /\ current > 0 => status[current] # "none"
    /\ \A r \in Run : status[r] = "completed" => pc[r] \in {"go_idle", "done"}
    /\ \A r \in Run : status[r] = "failed" => pc[r] = "done"

\* No run object exists at the start, so none lacks a status.
LEMMA StatusInvInitially == Init => StatusInv
  BY DEF Init, StatusInv

\* The thread of r touches no status and no place but its own.
LEMMA ThreadFrame ==
    ASSUME TypeOK, NEW r \in Run, ThreadStep(r)
    PROVE  /\ current' = current
           /\ \A q \in Run : q # r => pc'[q] = pc[q] /\ status'[q] = status[q]
  BY DEF ThreadStep, CheckCancel, UpdateRunPhase, CheckCancelInRamp, PublishAssignment, PublishFails,
         WaitForPhase, Complete, GoIdle, NextPhase, Goto, TypeOK

\* A thread never takes "completed" back, and says neither "none" nor "stopped".
LEMMA ThreadStatus ==
    ASSUME TypeOK, StatusInv, NEW r \in Run, ThreadStep(r)
    PROVE  /\ status[r] # "failed"
           /\ status[r] = "completed" => status'[r] = "completed"
           /\ status'[r] \in {"none", "stopped"} => status'[r] = status[r]
           /\ status'[r] = "completed" => pc'[r] \in {"go_idle", "done"}
           /\ status'[r] = "failed" => pc'[r] = "done"
  <1> USE DEF TypeOK, StatusInv, Goto
  <1>1. CASE CheckCancel(r) \/ CheckCancelInRamp(r)
    BY <1>1 DEF CheckCancel, CheckCancelInRamp
  <1>2. CASE UpdateRunPhase(r)
    <2>1. StatusIn[at[r]] \in Running
      BY PhaseFacts
    <2> QED  BY <1>2, <2>1 DEF UpdateRunPhase, Running
  <1>3. CASE PublishAssignment(r) \/ WaitForPhase(r)
    BY <1>3 DEF PublishAssignment, WaitForPhase, NextPhase
  <1>4. CASE PublishFails(r)
    BY <1>4 DEF PublishFails
  <1>5. CASE Complete(r)
    BY <1>5 DEF Complete
  <1>6. CASE GoIdle(r)
    BY <1>6 DEF GoIdle
  <1> QED  BY <1>1, <1>2, <1>3, <1>4, <1>5, <1>6 DEF ThreadStep

\* A run object is created with a status and never loses it.
LEMMA StatusInvStep ==
    ASSUME IInv, StatusInv, [Next]_vars
    PROVE  StatusInv'
  <1> USE DEF IInv, TypeOK, StatusInv
  <1>1. CASE StartBenchmark
    <2>1. current' = current + 1 /\ current + 1 \in Run
      BY <1>1, BoundsAssumption DEF StartBenchmark, Run
    <2>2. /\ status' = [status EXCEPT ![current + 1] = "pending"]
          /\ pc' = [pc EXCEPT ![current + 1] = "check"]
      BY <1>1 DEF StartBenchmark, Goto
    <2> QED  BY <2>1, <2>2
  <1>2. CASE StopBenchmark
    BY <1>2 DEF StopBenchmark, threadVars
  <1>3. ASSUME NEW r \in Run, PublishStop(r)  PROVE StatusInv'
    BY <1>3 DEF PublishStop, threadVars
  <1>4. ASSUME NEW r \in Run, ThreadStep(r)  PROVE StatusInv'
    <2>1. /\ current' = current
          /\ \A q \in Run : q # r => pc'[q] = pc[q] /\ status'[q] = status[q]
      BY <1>4, ThreadFrame
    <2>2. current > 0 => current \in Run
      BY DEF Run
    <2>3. /\ status'[r] \in {"none", "stopped"} => status'[r] = status[r]
          /\ status'[r] = "completed" => pc'[r] \in {"go_idle", "done"}
          /\ status'[r] = "failed" => pc'[r] = "done"
      BY <1>4, ThreadStatus
    <2> QED  BY <2>1, <2>2, <2>3
  <1>5. CASE UNCHANGED vars
    BY <1>5 DEF vars, threadVars
  <1> QED  BY <1>1, <1>2, <1>3, <1>4, <1>5 DEF Next

\* The three ways in which ShownStatus reads the status.
LEMMA ShownFacts ==
    ASSUME TypeOK, StatusInv, current > 0
    PROVE  /\ current \in Run
           /\ ShownStatus = "running" <=> status[current] \in Running
           /\ status[current] \notin Running =>
                 ShownStatus = status[current] /\ status[current] \in Terminal
  <1>1. current \in Run /\ current # 0
    BY DEF TypeOK, Run
  <1>2. status[current] \in Running \cup Terminal
    BY <1>1 DEF TypeOK, StatusInv
  <1>3. CASE status[current] \in Running
    BY <1>1, <1>3 DEF ShownStatus
  <1>4. CASE status[current] \notin Running
    <2>1. ShownStatus = status[current]
      BY <1>1, <1>4 DEF ShownStatus
    <2> QED  BY <1>1, <1>2, <1>4, <2>1 DEF Terminal
  <1> QED  BY <1>1, <1>3, <1>4

\* Every step is one of RunStatus, or shows nothing new.
LEMMA ShownStep ==
    ASSUME IInv, StatusInv, [Next]_vars
    PROVE  [Shown!RunNext]_<<current, ShownStatus>>
  <1> SUFFICES Shown!RunNext \/ UNCHANGED <<current, ShownStatus>>
    OBVIOUS
  <1> USE DEF Shown!RunNext
  <1>0. TypeOK /\ TypeOK' /\ StatusInv'
    BY NextInv, StatusInvStep DEF IInv
  <1>1. CASE StartBenchmark
    <2>1. ShownStatus # "running"
      <3>1. CASE current > 0
        BY <1>0, <1>1, <3>1, ShownFacts DEF StartBenchmark, MayStart, Running, Terminal
      <3>2. CASE current = 0
        BY <3>2 DEF ShownStatus
      <3> QED  BY <1>0, <3>1, <3>2 DEF TypeOK
    <2>2. current' = current + 1 /\ current' > 0 /\ status'[current'] = "pending"
      BY <1>0, <1>1 DEF StartBenchmark, TypeOK, Run
    <2>3. ShownStatus' = "running"
      BY <2>2 DEF ShownStatus, Running
    <2> QED  BY <2>1, <2>2, <2>3 DEF Shown!StartRun
  <1>2. CASE StopBenchmark
    <2>1. /\ current > 0 /\ current' = current /\ status'[current] = "stopped"
          /\ status[current] \notin {"none", "completed", "stopped"}
      BY <1>0, <1>2, ShownFacts DEF StopBenchmark, TypeOK
    <2>2. ShownStatus \in {"running", "failed"}
      BY <1>0, <2>1, ShownFacts DEF Terminal
    <2>3. ShownStatus' = "stopped"
      BY <1>0, <2>1 DEF ShownStatus, Running, TypeOK
    <2> QED  BY <2>1, <2>2, <2>3 DEF Shown!StopRun
  <1>3. ASSUME NEW r \in Run, PublishStop(r)  PROVE UNCHANGED <<current, ShownStatus>>
    BY <1>3 DEF PublishStop, ShownStatus
  <1>4. ASSUME NEW r \in Run, ThreadStep(r)
        PROVE  Shown!RunNext \/ UNCHANGED <<current, ShownStatus>>
    <2>1. current' = current
      BY <1>0, <1>4, ThreadFrame
    <2>2. CASE current = 0 \/ r # current
      <3>1. current > 0 => status'[current] = status[current]
        BY <1>0, <1>4, <2>2, ThreadFrame, ShownFacts
      <3> QED  BY <1>0, <2>1, <3>1 DEF ShownStatus, TypeOK
    <2>3. CASE current > 0 /\ r = current
      <3>1. /\ status[current] # "failed"
            /\ status[current] = "completed" => status'[current] = "completed"
            /\ status'[current] \in {"none", "stopped"} => status'[current] = status[current]
        BY <1>0, <1>4, <2>3, ThreadStatus
      <3>2. /\ ShownStatus = "running" <=> status[current] \in Running
            /\ status[current] \notin Running =>
                  ShownStatus = status[current] /\ status[current] \in Terminal
        BY <1>0, <2>3, ShownFacts
      <3>3. /\ ShownStatus' = "running" <=> status'[current] \in Running
            /\ status'[current] \notin Running =>
                  ShownStatus' = status'[current] /\ status'[current] \in Terminal
        <4>1. current \in Run /\ current # 0
          BY <1>0, <2>3, ShownFacts
        <4>2. status'[current] \in Running \cup Terminal
          BY <1>0, <2>1, <2>3, <4>1 DEF TypeOK, StatusInv
        <4>3. ShownStatus' = IF status'[current] \in Running THEN "running" ELSE status'[current]
          BY <2>1, <2>3, <4>1 DEF ShownStatus
        <4> QED  BY <4>2, <4>3 DEF Terminal
      <3>4. CASE ShownStatus = "running"
        BY <2>1, <3>1, <3>2, <3>3, <3>4 DEF Shown!DriveRun, Terminal, Running
      <3>5. CASE ShownStatus = "stopped"
        BY <2>1, <3>1, <3>2, <3>3, <3>5 DEF Shown!DriveRun, Terminal, Running
      <3>6. CASE ShownStatus = "completed"
        BY <2>1, <3>1, <3>2, <3>3, <3>6 DEF Terminal, Running
      <3> QED  BY <3>1, <3>2, <3>4, <3>5, <3>6 DEF Terminal
    <2> QED  BY <1>0, <2>2, <2>3 DEF TypeOK
  <1>5. CASE UNCHANGED vars
    BY <1>5 DEF vars, ShownStatus
  <1> QED  BY <1>1, <1>2, <1>3, <1>4, <1>5 DEF Next

\* The orchestrator implements RunStatus, on which Submission is built.
THEOREM ImplementsRunStatus == Spec => ShowsRunStatus
  <1>1. Init => Shown!RunInit
    BY DEF Init, Shown!RunInit, ShownStatus
  <1>2. IInv /\ StatusInv /\ [Next]_vars => StatusInv'
    BY StatusInvStep
  <1>3. IInv /\ StatusInv /\ [Next]_vars => [Shown!RunNext]_<<current, ShownStatus>>
    BY ShownStep
  <1> QED
    BY StatusInvInitially, Invariance, <1>1, <1>2, <1>3, PTL
    DEF Spec, ShowsRunStatus, Shown!RunSpec
-----------------------------------------------------------------------------
(* The plan                                                                *)

\* How many assignments of r are in the topic.
Sent(r) == Cardinality(AssignmentsOf(r, Len(topic)))

FollowsPlan(r) ==
    \A n \in AssignmentsOf(r, Len(topic)) :
        LET i == Cardinality(AssignmentsOf(r, n))
        IN  i <= Len(Plan) /\ <<topic[n].phase, topic[n].step>> = Plan[i]

\* The place in the plan of what the thread of r publishes next, or, while it
\* waits, has published last.
Position(r) ==
    IF at[r] = 1 THEN 1 ELSE IF at[r] = 2 THEN 2 + step[r] ELSE RampSteps + at[r]

BeforePublish == {"none", "check", "update", "check_ramp", "publish"}

PlanOf(r) ==
    /\ FollowsPlan(r)
    /\ pc[r] \in BeforePublish => Sent(r) = Position(r) - 1
    /\ pc[r] = "wait" => Sent(r) = Position(r)
    /\ pc[r] \in {"complete", "go_idle"} => Sent(r) = Len(Plan)
    /\ status[r] = "completed" => Sent(r) = Len(Plan)

PlanInv == \A r \in Run : PlanOf(r)

\* The plan, place by place.
LEMMA PlanFacts ==
    /\ Len(Plan) = RampSteps + 5
    /\ Plan[1] = <<"warmup", 0>>
    /\ \A s \in 0..RampSteps : Plan[2 + s] = <<"ramp", s>>
    /\ Plan[RampSteps + 3] = <<"peak", 0>>
    /\ Plan[RampSteps + 4] = <<"burst", 0>>
    /\ Plan[RampSteps + 5] = <<"cooldown", 0>>
  <1> DEFINE n == RampSteps + 5
  <1>1. RampSteps \in Nat
    BY BoundsAssumption
  <1>2. \A k \in 1..n : Plan[k] = CASE k = 1 -> <<"warmup", 0>>
                                    [] k \in 2..(RampSteps + 2) -> <<"ramp", k - 2>>
                                    [] OTHER -> <<Phases[k - RampSteps], 0>>
    BY DEF Plan
  <1>3. Plan \in Seq({"warmup", "ramp", "peak", "burst", "cooldown"} \X Nat)
        /\ Len(Plan) = n
    <2>1. ASSUME NEW k \in 1..n
          PROVE  Plan[k] \in {"warmup", "ramp", "peak", "burst", "cooldown"} \X Nat
      <3>1. CASE k = 1
        <4>1. 1 \in 1..n /\ ~(1 \in 2..(RampSteps + 2))
          BY <1>1
        <4>2. Plan[1] = <<"warmup", 0>>
          BY <1>2, <4>1
        <4> QED  BY <3>1, <4>2
      <3>2. CASE k \in 2..(RampSteps + 2)
        <4>1. k # 1 /\ k - 2 \in Nat
          BY <1>1, <3>2
        <4>2. Plan[k] = <<"ramp", k - 2>>
          BY <1>1, <1>2, <3>2, <4>1
        <4> QED  BY <4>1, <4>2
      <3>3. CASE k \in (RampSteps + 3)..n
        <4>1. k # 1 /\ ~(k \in 2..(RampSteps + 2)) /\ k - RampSteps \in {3, 4, 5}
          BY <1>1, <3>3
        <4>2. Plan[k] = <<Phases[k - RampSteps], 0>>
          BY <1>2, <4>1
        <4>3. Phases[k - RampSteps] \in {"peak", "burst", "cooldown"}
          BY <4>1 DEF Phases
        <4> QED  BY <4>2, <4>3
      <3> QED  BY <1>1, <3>1, <3>2, <3>3
    <2>2. Plan \in [1..n -> {"warmup", "ramp", "peak", "burst", "cooldown"} \X Nat]
      BY <2>1 DEF Plan
    <2> QED  BY <1>1, <2>2
  <1>4. ASSUME NEW s \in 0..RampSteps  PROVE Plan[2 + s] = <<"ramp", s>>
    <2>1. 2 + s \in 1..n /\ 2 + s # 1 /\ 2 + s \in 2..(RampSteps + 2) /\ (2 + s) - 2 = s
      BY <1>1
    <2> QED  BY <1>2, <2>1
  <1>5. ASSUME NEW j \in {3, 4, 5}  PROVE Plan[RampSteps + j] = <<Phases[j], 0>>
    <2>1. /\ RampSteps + j \in 1..n /\ RampSteps + j # 1
          /\ ~(RampSteps + j \in 2..(RampSteps + 2)) /\ (RampSteps + j) - RampSteps = j
      BY <1>1
    <2> QED  BY <1>2, <2>1
  <1>6. Phases[3] = "peak" /\ Phases[4] = "burst" /\ Phases[5] = "cooldown"
    BY DEF Phases
  <1>7. 1 \in 1..n
    BY <1>1
  <1> QED  BY <1>2, <1>3, <1>4, <1>5, <1>6, <1>7

\* A prefix of the topic has finitely many assignments of r.
LEMMA AssignmentsFinite ==
    ASSUME NEW r, NEW n \in Nat
    PROVE  IsFiniteSet(AssignmentsOf(r, n)) /\ Cardinality(AssignmentsOf(r, n)) \in Nat
  <1>1. IsFiniteSet(1..n)
    BY FS_Interval
  <1>2. IsFiniteSet(AssignmentsOf(r, n))
    BY <1>1, FS_Subset DEF AssignmentsOf
  <1> QED  BY <1>2, FS_CardinalityType

\* A message that is no assignment of r leaves what r has sent as it was.
LEMMA OthersMessage ==
    ASSUME TypeOK, NEW r \in Run, NEW m \in Message, m.run # r \/ m.phase = "stop",
           topic' = Append(topic, m)
    PROVE  Sent(r)' = Sent(r) /\ (FollowsPlan(r) => FollowsPlan(r)')
  <1>1. /\ Len(topic) \in Nat /\ Len(topic') = Len(topic) + 1
        /\ \A k \in 1..Len(topic) : topic'[k] = topic[k]
        /\ topic'[Len(topic) + 1] = m
    BY DEF TypeOK
  <1>2. \A n \in 1..Len(topic) : AssignmentsOf(r, n)' = AssignmentsOf(r, n)
    BY <1>1 DEF AssignmentsOf
  <1>3. AssignmentsOf(r, Len(topic))' = AssignmentsOf(r, Len(topic))
    <2>1. \A k \in 1..Len(topic') : k \in 1..Len(topic) \/ k = Len(topic) + 1
      BY <1>1
    <2>2. \A k \in 1..Len(topic) : k \in 1..Len(topic')
      BY <1>1
    <2> QED  BY <1>1, <2>1, <2>2 DEF AssignmentsOf
  <1>4. Sent(r)' = Sent(r)
    BY <1>3 DEF Sent
  <1>5. ASSUME FollowsPlan(r), NEW n \in AssignmentsOf(r, Len(topic))'
        PROVE  LET i == Cardinality(AssignmentsOf(r, n)')
               IN  i <= Len(Plan) /\ <<topic'[n].phase, topic'[n].step>> = Plan[i]
    <2>1. n \in AssignmentsOf(r, Len(topic)) /\ n \in 1..Len(topic)
      BY <1>3 DEF AssignmentsOf
    <2> QED  BY <1>1, <1>2, <1>5, <2>1 DEF FollowsPlan
  <1>6. FollowsPlan(r) => FollowsPlan(r)'
    BY <1>5 DEF FollowsPlan, Plan
  <1> QED  BY <1>4, <1>6

\* An assignment of r is one more, and follows the plan when it is the next.
LEMMA OwnMessage ==
    ASSUME TypeOK, NEW r \in Run, NEW m \in Message, m.run = r, m.phase # "stop",
           topic' = Append(topic, m)
    PROVE  /\ Sent(r)' = Sent(r) + 1
           /\ (/\ FollowsPlan(r) /\ Sent(r) + 1 <= Len(Plan)
               /\ <<m.phase, m.step>> = Plan[Sent(r) + 1])
              => FollowsPlan(r)'
  <1>0. PICK last : last = Len(topic) + 1
    OBVIOUS
  <1>1. /\ Len(topic) \in Nat /\ Len(topic') = last /\ last \notin 1..Len(topic)
        /\ \A k \in 1..Len(topic) : topic'[k] = topic[k]
        /\ topic'[last] = m
        /\ \A k \in 1..last : k \in 1..Len(topic) \/ k = last
        /\ \A k \in 1..Len(topic) : k \in 1..last
        /\ last \in 1..last
    BY <1>0 DEF TypeOK
  <1>2. \A n \in 1..Len(topic) : AssignmentsOf(r, n)' = AssignmentsOf(r, n)
    BY <1>1 DEF AssignmentsOf
  <1>3. AssignmentsOf(r, last)' = AssignmentsOf(r, Len(topic)) \cup {last}
    BY <1>1 DEF AssignmentsOf
  <1>4. Cardinality(AssignmentsOf(r, last)') = Sent(r) + 1
    <2>1. last \notin AssignmentsOf(r, Len(topic))
      BY <1>1 DEF AssignmentsOf
    <2>2. PICK A : A = AssignmentsOf(r, Len(topic))
      OBVIOUS
    <2>3. IsFiniteSet(A) /\ last \notin A /\ Sent(r) = Cardinality(A)
      BY <1>1, <2>1, <2>2, AssignmentsFinite DEF Sent
    <2>4. Cardinality(A \cup {last}) = Cardinality(A) + 1
      BY <2>3, FS_AddElement
    <2> QED  BY <1>3, <2>2, <2>3, <2>4
  <1>5. Sent(r)' = Sent(r) + 1
    BY <1>1, <1>4 DEF Sent
  <1>6. ASSUME FollowsPlan(r), Sent(r) + 1 <= Len(Plan),
               <<m.phase, m.step>> = Plan[Sent(r) + 1],
               NEW n \in AssignmentsOf(r, last)'
        PROVE  LET i == Cardinality(AssignmentsOf(r, n)')
               IN  i <= Len(Plan) /\ <<topic'[n].phase, topic'[n].step>> = Plan[i]
    <2>1. CASE n = last
      BY <1>1, <1>4, <1>6, <2>1
    <2>2. CASE n # last
      <3>1. n \in AssignmentsOf(r, Len(topic)) /\ n \in 1..Len(topic)
        BY <1>3, <1>6, <2>2 DEF AssignmentsOf
      <3> QED  BY <1>1, <1>2, <1>6, <3>1 DEF FollowsPlan
    <2> QED  BY <2>1, <2>2
  <1>7. (FollowsPlan(r) /\ Sent(r) + 1 <= Len(Plan) /\ <<m.phase, m.step>> = Plan[Sent(r) + 1])
        => FollowsPlan(r)'
    BY <1>1, <1>6 DEF FollowsPlan, Plan
  <1> QED  BY <1>5, <1>7

\* What the thread of r is about to publish is the next place of the plan.
LEMMA NextInPlan ==
    ASSUME TypeOK, NEW r \in Run
    PROVE  /\ Position(r) \in 1..Len(Plan)
           /\ Plan[Position(r)] = <<Phases[at[r]], step[r]>>
  <1>1. RampSteps \in Nat /\ at[r] \in 1..5 /\ step[r] \in 0..LastStep(at[r])
    BY BoundsAssumption, PhaseFacts DEF TypeOK
  <1>2. /\ Phases[1] = "warmup" /\ Phases[2] = "ramp" /\ Phases[3] = "peak"
        /\ Phases[4] = "burst" /\ Phases[5] = "cooldown"
    BY DEF Phases
  <1>3. CASE at[r] = 2
    <2>1. step[r] \in 0..RampSteps
      BY <1>1, <1>2, <1>3 DEF LastStep, IsRamp
    <2> QED  BY <1>1, <1>2, <1>3, <2>1, PlanFacts DEF Position
  <1>4. CASE at[r] # 2
    <2>1. step[r] = 0 /\ at[r] \in {1, 3, 4, 5}
      BY <1>1, <1>2, <1>4 DEF LastStep, IsRamp
    <2> QED  BY <1>1, <1>2, <1>4, <2>1, PlanFacts DEF Position
  <1> QED  BY <1>3, <1>4

\* A run whose thread does not move keeps to the plan.
LEMMA PlanKept ==
    ASSUME TypeOK, NEW r \in Run, PlanOf(r),
           pc'[r] = pc[r], at'[r] = at[r], step'[r] = step[r],
           status'[r] = "completed" => status[r] = "completed",
           \/ UNCHANGED topic
           \/ \E m \in Message : topic' = Append(topic, m) /\ (m.run # r \/ m.phase = "stop")
    PROVE  PlanOf(r)'
  <1>1. Sent(r)' = Sent(r) /\ FollowsPlan(r)'
    <2>1. CASE UNCHANGED topic
      BY <2>1 DEF Sent, FollowsPlan, AssignmentsOf, PlanOf
    <2> QED  BY <2>1, OthersMessage DEF PlanOf
  <1>2. Position(r)' = Position(r)
    BY DEF Position
  <1> QED  BY <1>1, <1>2 DEF PlanOf

\* A step of a thread, seen from another run.
LEMMA PlanOfOthers ==
    ASSUME IInv, NEW r \in Run, ThreadStep(r), NEW q \in Run, q # r, PlanOf(q)
    PROVE  PlanOf(q)'
  <1>1. /\ pc'[q] = pc[q] /\ at'[q] = at[q] /\ step'[q] = step[q] /\ status'[q] = status[q]
    BY DEF ThreadStep, CheckCancel, UpdateRunPhase, CheckCancelInRamp, PublishAssignment,
           PublishFails, WaitForPhase, Complete, GoIdle, NextPhase, Goto, IInv, TypeOK
  <1>2. UNCHANGED topic \/ topic' = Append(topic, Assignment(r))
    BY DEF ThreadStep, CheckCancel, UpdateRunPhase, CheckCancelInRamp, PublishAssignment,
           PublishFails, WaitForPhase, Complete, GoIdle, Published, Lost
  <1>3. Assignment(r) \in Message /\ Assignment(r).run # q
    BY DEF Assignment, Message, IInv, TypeOK
  <1> QED  BY <1>1, <1>2, <1>3, PlanKept DEF IInv

\* Where the thread goes after an assignment.
LEMMA PositionAfter ==
    ASSUME TypeOK, NEW r \in Run, NextPhase(r), LastOfRamp(r) \/ ~IsRamp(at[r])
    PROVE  \/ pc'[r] = "check" /\ Position(r)' - 1 = Position(r)
           \/ pc'[r] = "complete" /\ Position(r) = Len(Plan)
  <1>1. RampSteps \in Nat /\ at[r] \in 1..5 /\ Len(Phases) = 5
    BY BoundsAssumption, PhaseFacts DEF TypeOK
  <1>2. IsRamp(at[r]) <=> at[r] = 2
    BY <1>1 DEF IsRamp, Phases
  <1>3. at[r] = 2 => step[r] = RampSteps
    BY <1>2 DEF LastOfRamp
  <1>4. CASE at[r] < 5
    <2>1. pc'[r] = "check" /\ at'[r] = at[r] + 1 /\ step'[r] = 0
      BY <1>1, <1>4 DEF NextPhase, Goto, TypeOK
    <2> QED  BY <1>1, <1>3, <1>4, <2>1 DEF Position
  <1>5. CASE at[r] = 5
    <2>1. pc'[r] = "complete"
      BY <1>1, <1>5, NextPhaseFacts
    <2> QED  BY <1>1, <1>5, <2>1, PlanFacts DEF Position
  <1> QED  BY <1>1, <1>4, <1>5

\* The thread sends the assignment that is next in the plan.
LEMMA PublishFollows ==
    ASSUME IInv, StatusInv, NEW r \in Run, PlanOf(r), PublishAssignment(r) \/ PublishFails(r)
    PROVE  PlanOf(r)'
  <1>1. /\ TypeOK /\ pc[r] = "publish" /\ status[r] # "completed"
        /\ Sent(r) = Position(r) - 1 /\ FollowsPlan(r)
    BY DEF IInv, StatusInv, PublishAssignment, PublishFails, PlanOf, BeforePublish
  <1>2. Position(r) \in Nat /\ Position(r) <= Len(Plan)
        /\ Plan[Position(r)] = <<Phases[at[r]], step[r]>>
    BY <1>1, NextInPlan, PlanFacts, BoundsAssumption
  <1>3. ASSUME Published(Assignment(r))
        PROVE  Sent(r)' = Position(r) /\ FollowsPlan(r)'
    <2>1. /\ Assignment(r) \in Message /\ Assignment(r).run = r
          /\ Assignment(r).phase = Phases[at[r]] /\ Assignment(r).step = step[r]
          /\ Assignment(r).phase # "stop"
      BY <1>1, PhaseFacts DEF Assignment, Message, TypeOK
    <2>2. Sent(r) + 1 = Position(r)
      BY <1>1, <1>2
    <2> QED  BY <1>1, <1>2, <1>3, <2>1, <2>2, OwnMessage DEF Published
  <1>4. CASE PublishAssignment(r)
    <2>1. Sent(r)' = Position(r) /\ FollowsPlan(r)' /\ status'[r] # "completed"
      BY <1>1, <1>3, <1>4 DEF PublishAssignment
    <2>2. CASE LastOfRamp(r)
      <3>1. NextPhase(r)
        BY <1>4, <2>2 DEF PublishAssignment
      <3> QED  BY <1>1, <1>2, <2>1, <2>2, <3>1, PositionAfter DEF PlanOf, BeforePublish, Plan
    <2>3. CASE ~LastOfRamp(r)
      <3>1. pc'[r] = "wait" /\ Position(r)' = Position(r)
        BY <1>1, <1>4, <2>3 DEF PublishAssignment, Goto, Position, TypeOK
      <3> QED  BY <2>1, <3>1 DEF PlanOf, BeforePublish
    <2> QED  BY <2>2, <2>3
  <1>5. CASE PublishFails(r)
    <2>1. pc'[r] = "done" /\ status'[r] = "failed"
      BY <1>1, <1>5 DEF PublishFails, Goto, TypeOK
    <2>2. FollowsPlan(r)'
      <3>1. CASE Published(Assignment(r))
        BY <1>3, <3>1
      <3>2. CASE Lost
        BY <1>1, <3>2 DEF Lost, FollowsPlan, AssignmentsOf
      <3> QED  BY <1>5, <3>1, <3>2 DEF PublishFails
    <2> QED  BY <2>1, <2>2 DEF PlanOf, BeforePublish
  <1> QED  BY <1>4, <1>5

\* The steps between two assignments, and the end.
LEMMA QuietFollows ==
    ASSUME IInv, StatusInv, NEW r \in Run, PlanOf(r), ThreadStep(r),
           ~(PublishAssignment(r) \/ PublishFails(r))
    PROVE  PlanOf(r)'
  <1>1. TypeOK /\ RampSteps \in Nat /\ at[r] \in 1..5 /\ Len(Phases) = 5
    BY BoundsAssumption, PhaseFacts DEF IInv, TypeOK
  <1>2. UNCHANGED topic
    BY DEF ThreadStep, CheckCancel, UpdateRunPhase, CheckCancelInRamp, WaitForPhase, Complete,
           GoIdle
  <1>3. Sent(r)' = Sent(r) /\ FollowsPlan(r)' /\ FollowsPlan(r)
    BY <1>2 DEF Sent, FollowsPlan, AssignmentsOf, PlanOf
  <1>4. CASE CheckCancel(r) \/ CheckCancelInRamp(r)
    <2>1. /\ pc[r] \in BeforePublish /\ pc'[r] \in BeforePublish \cup {"done"}
          /\ Position(r)' = Position(r) /\ status'[r] = status[r]
      BY <1>1, <1>4
      DEF CheckCancel, CheckCancelInRamp, Goto, Position, BeforePublish, TypeOK
    <2> QED  BY <1>3, <2>1 DEF PlanOf, BeforePublish
  <1>5. CASE UpdateRunPhase(r)
    <2>1. /\ pc[r] \in BeforePublish /\ pc'[r] \in BeforePublish
          /\ Position(r)' = Position(r) /\ status'[r] = StatusIn[at[r]]
      BY <1>1, <1>5 DEF UpdateRunPhase, Goto, Position, BeforePublish, TypeOK
    <2>2. status'[r] # "completed"
      BY <1>1, <2>1, PhaseFacts DEF Running
    <2> QED  BY <1>3, <2>1, <2>2 DEF PlanOf, BeforePublish
  <1>6. CASE WaitForPhase(r)
    <2>1. Sent(r) = Position(r) /\ pc[r] = "wait" /\ status'[r] = status[r]
          /\ status[r] # "completed"
      BY <1>6 DEF WaitForPhase, PlanOf, StatusInv
    <2>2. CASE cancel[r]
      BY <1>1, <1>3, <1>6, <2>1, <2>2 DEF WaitForPhase, Goto, PlanOf, BeforePublish, TypeOK
    <2>3. CASE ~cancel[r] /\ IsRamp(at[r])
      <3>1. at[r] = 2
        BY <1>1, <2>3 DEF IsRamp, Phases
      <3>2. pc'[r] = "check_ramp" /\ at'[r] = 2 /\ step'[r] = step[r] + 1 /\ step[r] \in Nat
        BY <1>1, <1>6, <2>3, <3>1 DEF WaitForPhase, Goto, TypeOK
      <3>3. Position(r)' - 1 = Position(r)
        BY <3>1, <3>2 DEF Position
      <3> QED  BY <1>3, <2>1, <3>2, <3>3 DEF PlanOf, BeforePublish
    <2>4. CASE ~cancel[r] /\ ~IsRamp(at[r])
      <3>1. NextPhase(r)
        BY <1>6, <2>4 DEF WaitForPhase
      <3>2. \/ pc'[r] = "check" /\ Position(r)' - 1 = Position(r)
            \/ pc'[r] = "complete" /\ Position(r) = Len(Plan)
        BY <1>1, <2>4, <3>1, PositionAfter
      <3> QED  BY <1>3, <2>1, <3>2 DEF PlanOf, BeforePublish, Plan
    <2> QED  BY <2>2, <2>3, <2>4
  <1>7. CASE Complete(r) \/ GoIdle(r)
    <2>1. pc[r] \in {"complete", "go_idle"} /\ pc'[r] \in {"go_idle", "done"}
      BY <1>1, <1>7 DEF Complete, GoIdle, Goto, TypeOK
    <2>2. Sent(r) = Len(Plan)
      BY <2>1 DEF PlanOf
    <2> QED  BY <1>3, <2>1, <2>2 DEF PlanOf, BeforePublish, Plan
  <1> QED  BY <1>4, <1>5, <1>6, <1>7 DEF ThreadStep

\* Every step of every thread and request keeps every run to the plan.
LEMMA PlanStep ==
    ASSUME IInv, StatusInv, PlanInv, [Next]_vars
    PROVE  PlanInv'
  <1> SUFFICES ASSUME NEW q \in Run  PROVE PlanOf(q)'
    BY DEF PlanInv
  <1>0. TypeOK /\ PlanOf(q)
    BY DEF IInv, PlanInv
  <1>1. CASE StartBenchmark
    <2>1. /\ current + 1 \in Run /\ UNCHANGED <<topic, at, step>>
          /\ status' = [status EXCEPT ![current + 1] = "pending"]
          /\ pc' = [pc EXCEPT ![current + 1] = "check"]
      BY <1>0, <1>1, BoundsAssumption DEF StartBenchmark, Goto, TypeOK, Run
    <2>2. CASE q # current + 1
      BY <1>0, <2>1, <2>2, PlanKept DEF TypeOK
    <2>3. CASE q = current + 1
      <3>1. pc[q] = "none"
        BY <1>0, <2>1, <2>3 DEF IInv, DriverInv, TypeOK
      <3>2. /\ Sent(q)' = Sent(q) /\ FollowsPlan(q)' /\ Position(q)' = Position(q)
            /\ Sent(q) = Position(q) - 1
        BY <1>0, <2>1, <3>1
        DEF Sent, FollowsPlan, AssignmentsOf, Position, PlanOf, BeforePublish
      <3>3. pc'[q] = "check" /\ status'[q] = "pending"
        BY <1>0, <2>1, <2>3 DEF TypeOK
      <3> QED  BY <3>2, <3>3 DEF PlanOf, BeforePublish
    <2> QED  BY <2>2, <2>3
  <1>2. CASE StopBenchmark
    BY <1>0, <1>2, PlanKept DEF StopBenchmark, threadVars, TypeOK
  <1>3. ASSUME NEW r \in Run, PublishStop(r)  PROVE PlanOf(q)'
    <2>1. StopOf(r) \in Message /\ StopOf(r).phase = "stop"
      BY DEF StopOf, Message
    <2>2. UNCHANGED topic \/ topic' = Append(topic, StopOf(r))
      BY <1>3 DEF PublishStop, Published, Lost
    <2>3. UNCHANGED <<pc, at, step, status>>
      BY <1>3 DEF PublishStop, threadVars
    <2> QED  BY <1>0, <2>1, <2>2, <2>3, PlanKept
  <1>4. ASSUME NEW r \in Run, ThreadStep(r)  PROVE PlanOf(q)'
    BY <1>0, <1>4, PlanOfOthers, PublishFollows, QuietFollows
  <1>5. CASE UNCHANGED vars
    BY <1>0, <1>5, PlanKept DEF vars, threadVars
  <1> QED  BY <1>1, <1>2, <1>3, <1>4, <1>5 DEF Next

\* Nothing has been sent, and every thread is at the beginning of the plan.
LEMMA PlanInitially == Init => PlanInv
  <1> SUFFICES ASSUME Init, NEW r \in Run  PROVE PlanOf(r)
    BY DEF PlanInv
  <1>1. topic = <<>> /\ Len(topic) = 0
    BY DEF Init
  <1>2. AssignmentsOf(r, Len(topic)) = {}
    BY <1>1 DEF AssignmentsOf
  <1>3. Sent(r) = 0
    BY <1>2, FS_EmptySet DEF Sent
  <1>4. pc[r] = "none" /\ at[r] = 1 /\ status[r] = "none"
    BY DEF Init
  <1> QED  BY <1>2, <1>3, <1>4 DEF PlanOf, FollowsPlan, Position, BeforePublish

\* Whatever is stopped, restarted or fails, the workers are told a beginning of
\* the plan, in its order, by each run object, and all of it by one that says
\* completed.
THEOREM PlanAlwaysFollowed == Spec => []PlanFollowed
  <1>1. IInv /\ StatusInv /\ [Next]_vars => StatusInv'
    BY StatusInvStep
  <1>2. IInv /\ StatusInv /\ PlanInv /\ [Next]_vars => PlanInv'
    BY PlanStep
  <1>3. PlanInv => PlanFollowed
    BY DEF PlanInv, PlanOf, FollowsPlan, Sent, PlanFollowed
  <1> QED
    BY StatusInvInitially, PlanInitially, Invariance, <1>1, <1>2, <1>3, PTL DEF Spec
=============================================================================
