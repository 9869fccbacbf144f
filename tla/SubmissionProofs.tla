-------------------------- MODULE SubmissionProofs --------------------------
(***************************************************************************)
(* What is proved about Submission for any number of polls, starts,        *)
(* questions of the finalizer, connections, runs and faults.               *)
(*                                                                         *)
(* Watched is about the row, and says nothing of the answers that are      *)
(* about to be written into it.  Harmless says that of each of them:       *)
(* writing it makes the service lose sight of no run, unless the run is    *)
(* excused or a start is pending.  An answer is harmless when it comes,    *)
(* and RecordStart, which could make it harmful, marks it as stale.        *)
(***************************************************************************)
EXTENDS Submission, TLAPS


\* A finalizer or a stop that goes to the database has something to write.
AnswerInv ==
    /\ \A f \in Slots : fin[f].at = "write" => fin[f].ans # ""
    /\ stop.at = "write" => stop.ans # ""

\* There is no run before there is a sandbox.
BuiltInv ==
    /\ upload \in {"idle", "stored", "failed"} => sandbox = "none"
    /\ \A s \in Starters : start[s] \in {"post", "accepted"} => sandbox # "none"
    /\ shown # "none" => sandbox # "none"

StoppedInv == shown = "stopped" => run \in excused

\* A start is pending, or the service may lose sight of the run.
Covered == StartPending \/ run \in excused

\* What q is about to write, if anything, loses no run, when the row says v, the
\* n-th run is shown as s, and covered says whether it is covered.
HarmlessWhen(q, v, n, s, covered) ==
    /\ q.at = "sandbox" /\ ~q.stale => v # "testing"
    /\ q.at = "write" /\ q.ans # "" /\ ~q.stale =>
        \/ covered
        \/ IF q.ans = "complete" THEN q.of = n /\ s = "completed"
           ELSE v # "testing" \/ s \notin {"running", "completed"}

Harmless(q) == HarmlessWhen(q, row, run, shown, Covered)

AllHarmless ==
    /\ \A p \in Pollers : Harmless(poll[p])
    /\ \A f \in Slots : Harmless(fin[f])
    /\ Harmless(stop)

SubmissionInv == TypeOK /\ AnswerInv /\ BuiltInv /\ StoppedInv /\ AllHarmless /\ Watched

-----------------------------------------------------------------------------
(* Types                                                                   *)

\* The fields of a question to another service, and the values it may take
\* next.
LEMMA QuestionFacts ==
    ASSUME NEW P, NEW A, NEW q \in Question(P, A)
    PROVE  /\ q.at \in {"idle", "write"} \cup P /\ q.ans \in A \cup {""} /\ q.of \in Nat
           /\ Idle \in Question(P, A)
           /\ Staled(q) \in Question(P, A)
           /\ \A w \in P : Asks(w) \in Question(P, A)
           /\ run \in Nat => \A a \in A \cup {""} : Held(q, a) \in Question(P, A)
  <1>1. Idle \in Question(P, A)
    BY DEF Question, Idle
  <1>2. Staled(q) \in Question(P, A)
    BY DEF Question, Staled
  <1>3. \A w \in P \cup {"write"} : Asks(w) \in Question(P, A)
    BY DEF Question, Asks, Idle
  <1>4. ASSUME run \in Nat, NEW a \in A \cup {""}  PROVE Held(q, a) \in Question(P, A)
    BY <1>3, <1>4 DEF Question, Held
  <1> QED  BY <1>1, <1>2, <1>3, <1>4 DEF Question

\* QuestionFacts for the questions of a poll.
LEMMA PollFacts ==
    ASSUME TypeOK, NEW p \in Pollers
    PROVE  /\ poll[p].at \in {"idle", "write", "orchestrator", "sandbox"} /\ poll[p].of \in Nat
           /\ poll[p].ans \in {"pending_build", "building", "ready", "failed", "complete", ""}
           /\ Idle \in PollQuestion /\ Staled(poll[p]) \in PollQuestion
           /\ Asks("orchestrator") \in PollQuestion /\ Asks("sandbox") \in PollQuestion
           /\ \A a \in {"pending_build", "building", "ready", "failed", "complete", ""} :
                 Held(poll[p], a) \in PollQuestion
  <1> DEFINE P == {"orchestrator", "sandbox"}
  <1> DEFINE A == {"pending_build", "building", "ready", "failed", "complete"}
  <1>1. poll[p] \in Question(P, A) /\ run \in Nat
    BY DEF TypeOK, PollQuestion
  <1> HIDE DEF P, A
  <1>2. /\ poll[p].at \in {"idle", "write"} \cup P /\ poll[p].of \in Nat
        /\ poll[p].ans \in A \cup {""}
    BY <1>1, QuestionFacts
  <1>3. /\ Idle \in Question(P, A)
        /\ Staled(poll[p]) \in Question(P, A)
        /\ \A w \in P : Asks(w) \in Question(P, A)
    BY <1>1, QuestionFacts
  <1>4. \A a \in A \cup {""} : Held(poll[p], a) \in Question(P, A)
    BY <1>1, QuestionFacts
  <1> QED  BY <1>2, <1>3, <1>4 DEF PollQuestion, P, A

\* QuestionFacts for the questions of the finalizer.
LEMMA FinFacts ==
    ASSUME TypeOK, NEW f \in Slots
    PROVE  /\ fin[f].at \in {"idle", "write", "orchestrator"} /\ fin[f].of \in Nat
           /\ fin[f].ans \in {"complete", "failed", "ready", ""}
           /\ Idle \in FinQuestion /\ Staled(fin[f]) \in FinQuestion
           /\ Asks("orchestrator") \in FinQuestion
           /\ \A a \in {"complete", "failed", "ready", ""} : Held(fin[f], a) \in FinQuestion
  <1> DEFINE P == {"orchestrator"}
  <1> DEFINE A == {"complete", "failed", "ready"}
  <1>1. fin[f] \in Question(P, A) /\ run \in Nat
    BY DEF TypeOK, FinQuestion
  <1> HIDE DEF P, A
  <1>2. /\ fin[f].at \in {"idle", "write"} \cup P /\ fin[f].of \in Nat
        /\ fin[f].ans \in A \cup {""}
    BY <1>1, QuestionFacts
  <1>3. /\ Idle \in Question(P, A)
        /\ Staled(fin[f]) \in Question(P, A)
        /\ \A w \in P : Asks(w) \in Question(P, A)
    BY <1>1, QuestionFacts
  <1>4. \A a \in A \cup {""} : Held(fin[f], a) \in Question(P, A)
    BY <1>1, QuestionFacts
  <1> QED  BY <1>2, <1>3, <1>4 DEF FinQuestion, P, A

\* QuestionFacts for the question of a stop.
LEMMA StopFacts ==
    ASSUME TypeOK
    PROVE  /\ stop.at \in {"idle", "write", "orchestrator"} /\ stop.of \in Nat
           /\ stop.ans \in {"ready", ""}
           /\ Idle \in StopQuestion /\ Staled(stop) \in StopQuestion
           /\ Asks("orchestrator") \in StopQuestion
           /\ Held(stop, "ready") \in StopQuestion
  <1> DEFINE P == {"orchestrator"}
  <1> DEFINE A == {"ready"}
  <1>1. stop \in Question(P, A) /\ run \in Nat
    BY DEF TypeOK, StopQuestion
  <1> HIDE DEF P, A
  <1>2. /\ stop.at \in {"idle", "write"} \cup P /\ stop.of \in Nat
        /\ stop.ans \in A \cup {""}
    BY <1>1, QuestionFacts
  <1>3. /\ Idle \in Question(P, A)
        /\ Staled(stop) \in Question(P, A)
        /\ \A w \in P : Asks(w) \in Question(P, A)
    BY <1>1, QuestionFacts
  <1>4. \A a \in A \cup {""} : Held(stop, a) \in Question(P, A)
    BY <1>1, QuestionFacts
  <1> QED  BY <1>2, <1>3, <1>4 DEF StopQuestion, P, A

\* The pool and the faults stay within their bounds.
LEMMA DatabaseTypes ==
    ASSUME TypeOK, Database \/ DatabaseFails \/ AnswerLost
    PROVE  conns' \in 0..PoolSize /\ faults' \in 0..MaxFaults
  BY BoundsAssumption DEF TypeOK, Database, Released, DatabaseFails, AnswerLost

UploadStep == StoreArchive \/ InsertRow \/ InsertFails \/ TriggerBuild \/ Build

PollStep(p) == PollReads(p) \/ AnswerPoll(p)

StartStep(s) == RequestStart(s) \/ TeamStart(s) \/ AnswerStart(s)

StopStep == RequestStop \/ TeamStop \/ AnswerStop

\* Types under the upload and the answer of the sandbox manager.
LEMMA UploadTypes == ASSUME TypeOK, UploadStep PROVE TypeOK'
  <1> USE DEF TypeOK, Status, dbVars, requestVars, history
  <1>1. CASE StoreArchive
    BY <1>1 DEF StoreArchive
  <1>2. CASE InsertRow
    BY <1>2, DatabaseTypes DEF InsertRow
  <1>3. CASE InsertFails
    BY <1>3, DatabaseTypes DEF InsertFails
  <1>4. CASE TriggerBuild
    BY <1>4, DatabaseTypes DEF TriggerBuild
  <1>5. CASE Build
    BY <1>5 DEF Build
  <1> QED  BY <1>1, <1>2, <1>3, <1>4, <1>5 DEF UploadStep

\* Types under a status poll.
LEMMA PollTypes == ASSUME TypeOK, NEW p \in Pollers, PollStep(p) PROVE TypeOK'
  <1>a. /\ Idle \in PollQuestion
        /\ Asks("orchestrator") \in PollQuestion /\ Asks("sandbox") \in PollQuestion
        /\ \A a \in {"pending_build", "building", "ready", "failed", "complete", ""} :
              Held(poll[p], a) \in PollQuestion
    BY PollFacts
  <1>b. poll[p].ans \in {"pending_build", "building", "ready", "failed", "complete", ""}
    BY PollFacts
  <1>c. poll[p].of \in Nat
    BY PollFacts
  <1>d. \A q \in PollQuestion : [poll EXCEPT ![p] = q] \in [Pollers -> PollQuestion]
    BY DEF TypeOK
  <1> USE DEF TypeOK, Status, dbVars, history
  <1>1. CASE PollReads(p)
    <2>1. poll' \in [Pollers -> PollQuestion]
      BY <1>1, <1>a DEF PollReads
    <2> QED  BY <1>1, <2>1, DatabaseTypes DEF PollReads
  <1>2. CASE PollAnswered(p)
    <2>1. Translated(shown) \in {"complete", "failed", ""}
      BY DEF Translated
    <2>2. (IF sandbox = "none" THEN "" ELSE sandbox)
              \in {"pending_build", "building", "ready", "failed", ""}
      OBVIOUS
    <2>3. /\ Held(poll[p], Translated(shown)) \in PollQuestion
          /\ Held(poll[p], IF sandbox = "none" THEN "" ELSE sandbox) \in PollQuestion
      BY <1>a, <2>1, <2>2
    <2>4. \E a \in {Translated(shown), IF sandbox = "none" THEN "" ELSE sandbox} :
             poll' = [poll EXCEPT ![p] = Held(poll[p], a)]
      BY <1>2 DEF PollAnswered
    <2>5. poll' \in [Pollers -> PollQuestion]
      BY <1>d, <2>3, <2>4, Zenon
    <2>6. UNCHANGED <<table, row, sandbox, run, shown, upload, start, stop, stops, fin, dbVars, history>>
      BY <1>2 DEF PollAnswered
    <2> QED  BY <2>5, <2>6
  <1>3. CASE PollAnswerLost(p)
    <2>1. Held(poll[p], "") \in PollQuestion
      BY <1>a
    <2>2. poll' = [poll EXCEPT ![p] = Held(poll[p], "")]
      BY <1>3 DEF PollAnswerLost
    <2>3. poll' \in [Pollers -> PollQuestion]
      BY <1>d, <2>1, <2>2, Zenon
    <2>4. UNCHANGED <<table, row, sandbox, run, shown, upload, start, stop, stops, fin, history>>
      BY <1>3 DEF PollAnswerLost
    <2>5. conns' \in 0..PoolSize /\ faults' \in 0..MaxFaults
      BY <1>3, DatabaseTypes DEF PollAnswerLost
    <2> QED  BY <2>3, <2>4, <2>5
  <1>4. CASE PollWrites(p)
    <2>1. row' \in Status \cup {"absent"}
      BY <1>4, <1>b DEF PollWrites, Updated
    <2>2. finalized' \subseteq Nat /\ excused' \subseteq Nat
      BY <1>4, <1>c DEF PollWrites, Scored, Overtaken
    <2>3. poll' \in [Pollers -> PollQuestion]
      BY <1>4, <1>a DEF PollWrites
    <2> QED  BY <1>4, <2>1, <2>2, <2>3, DatabaseTypes DEF PollWrites
  <1>5. CASE PollFails(p)
    <2>1. row' \in Status \cup {"absent"}
      BY <1>5, <1>b DEF PollFails, Updated
    <2>2. excused' \subseteq Nat
      BY <1>5, <1>c DEF PollFails, Overtaken
    <2>3. poll' \in [Pollers -> PollQuestion]
      BY <1>5, <1>a DEF PollFails
    <2> QED  BY <1>5, <2>1, <2>2, <2>3, DatabaseTypes DEF PollFails
  <1> QED  BY <1>1, <1>2, <1>3, <1>4, <1>5 DEF PollStep, AnswerPoll

\* Types under a start.
LEMMA StartTypes == ASSUME TypeOK, NEW s \in Starters, StartStep(s) PROVE TypeOK'
  <1> USE DEF TypeOK, Status, dbVars, history
  <1>1. CASE RequestStart(s)
    BY <1>1 DEF RequestStart
  <1>2. CASE TeamStart(s)
    BY <1>2, DatabaseTypes DEF TeamStart, RequestStart
  <1>3. CASE SandboxAnswers(s)
    BY <1>3, DatabaseTypes DEF SandboxAnswers
  <1>4. CASE StartAccepted(s)
    <2>1. run' \in Nat /\ shown' = "running"
      BY <1>4 DEF StartAccepted, Orch!StartRun
    <2>2. excused' \subseteq Nat
      BY <1>4, <2>1 DEF StartAccepted
    <2>3. start' \in [Starters -> {"idle", "asked", "post", "accepted"}]
      BY <1>4 DEF StartAccepted
    <2> QED  BY <1>4, <2>1, <2>2, <2>3, DatabaseTypes DEF StartAccepted
  <1>5. CASE StartRefused(s)
    BY <1>5 DEF StartRefused
  <1>6. CASE RecordStart(s)
    <2>1. /\ poll' \in [Pollers -> PollQuestion] /\ fin' \in [Slots -> FinQuestion]
          /\ stop' \in StopQuestion
      BY <1>6, PollFacts, FinFacts, StopFacts DEF RecordStart
    <2> QED
      BY <1>6, <2>1, DatabaseTypes
      DEF RecordStart, Updated
  <1>7. CASE RecordStartFails(s)
    BY <1>7, DatabaseTypes DEF RecordStartFails
  <1> QED  BY <1>1, <1>2, <1>3, <1>4, <1>5, <1>6, <1>7 DEF StartStep, AnswerStart

\* Types under a stop.
LEMMA StopTypes == ASSUME TypeOK, StopStep PROVE TypeOK'
  <1>a. /\ Idle \in StopQuestion /\ Asks("orchestrator") \in StopQuestion
        /\ Held(stop, "ready") \in StopQuestion /\ stop.of \in Nat
    BY StopFacts
  <1> USE DEF TypeOK, Status, dbVars, history
  <1>1. ASSUME RequestStop  PROVE stops' \in 0..MaxStops /\ stop' \in StopQuestion
    <2>1. stop' \in StopQuestion
      BY <1>1, <1>a DEF RequestStop
    <2>2. stops' = stops + 1 /\ stops < MaxStops /\ stops \in 0..MaxStops
      BY <1>1 DEF RequestStop
    <2>3. stops' \in 0..MaxStops
      BY ONLY <2>2, BoundsAssumption
    <2> QED  BY <2>1, <2>3
  <1>2. CASE RequestStop /\ UNCHANGED dbVars
    BY <1>1, <1>2 DEF RequestStop
  <1>3. CASE TeamStop
    BY <1>1, <1>3, DatabaseTypes DEF TeamStop, RequestStop
  <1>4. CASE StopAccepted
    <2>1. stop' \in StopQuestion
      BY <1>4, <1>a DEF StopAccepted
    <2>2. conns' \in 0..PoolSize /\ faults' \in 0..MaxFaults
      BY <1>4, DatabaseTypes DEF StopAccepted
    <2>3. run' \in Nat /\ shown' \in Orch!Over \cup {"none", "running"}
      BY <1>4 DEF StopAccepted, Orch!StopRun, Orch!Over
    <2> QED  BY <1>4, <2>1, <2>2, <2>3 DEF StopAccepted
  <1>5. CASE StopRefused
    BY <1>5, <1>a DEF StopRefused
  <1>6. CASE RecordStop
    <2>1. row' \in Status \cup {"absent"} /\ excused' \subseteq Nat
      BY <1>6, <1>a DEF RecordStop, IfTesting, Overtaken
    <2>2. conns' \in 0..PoolSize /\ faults' \in 0..MaxFaults
      BY <1>6, DatabaseTypes DEF RecordStop
    <2>3. stop' \in StopQuestion
      BY <1>6, <1>a DEF RecordStop
    <2> QED  BY <1>6, <2>1, <2>2, <2>3 DEF RecordStop
  <1> QED  BY <1>2, <1>3, <1>4, <1>5, <1>6 DEF StopStep, AnswerStop, RequestStop

\* Types under the finalizer.
LEMMA FinTypes == ASSUME TypeOK, AnswerInv, NEW f \in Slots, Finalize(f) PROVE TypeOK'
  <1>a. /\ Idle \in FinQuestion /\ Asks("orchestrator") \in FinQuestion
        /\ \A a \in {"complete", "failed", "ready", ""} : Held(fin[f], a) \in FinQuestion
    BY FinFacts
  <1>b. fin[f].ans \in {"complete", "failed", "ready", ""} /\ fin[f].of \in Nat
    BY FinFacts
  <1> USE DEF TypeOK, Status, dbVars, history
  <1>1. CASE FinalizerAsks(f)
    <2>1. fin' \in [Slots -> FinQuestion]
      BY <1>1, <1>a DEF FinalizerAsks
    <2> QED  BY <1>1, <2>1, DatabaseTypes DEF FinalizerAsks
  <1>2. CASE FinalizerAnswered(f)
    <2>1. Marked(shown) \in {"complete", "failed", "ready", ""}
      BY DEF Marked
    <2>2. Held(fin[f], Marked(shown)) \in FinQuestion
      BY <1>a, <2>1
    <2>3. fin' \in [Slots -> FinQuestion]
      BY <1>2, <1>a, <2>2 DEF FinalizerAnswered
    <2>4. conns' \in 0..PoolSize /\ faults' \in 0..MaxFaults
      BY <1>2, DatabaseTypes DEF FinalizerAnswered
    <2> QED  BY <1>2, <2>3, <2>4 DEF FinalizerAnswered
  <1>3. CASE FinalizerWrites(f)
    <2>1. row' \in Status \cup {"absent"}
      BY <1>3, <1>b DEF FinalizerWrites, IfTesting, AnswerInv
    <2>2. finalized' \subseteq Nat /\ excused' \subseteq Nat
      BY <1>3, <1>b DEF FinalizerWrites, Scored, Overtaken
    <2>3. fin' \in [Slots -> FinQuestion]
      BY <1>3, <1>a DEF FinalizerWrites
    <2> QED  BY <1>3, <2>1, <2>2, <2>3, DatabaseTypes DEF FinalizerWrites
  <1>4. CASE FinalizerFails(f)
    <2>1. fin' \in [Slots -> FinQuestion]
      BY <1>4, <1>a DEF FinalizerFails
    <2>2. conns' \in 0..PoolSize /\ faults' \in 0..MaxFaults
      BY <1>4, DatabaseTypes DEF FinalizerFails
    <2> QED  BY <1>4, <2>1, <2>2 DEF FinalizerFails
  <1> QED  BY <1>1, <1>2, <1>3, <1>4 DEF Finalize

\* Types under every step.
LEMMA TypeStep ==
    ASSUME TypeOK, AnswerInv, [Next]_vars
    PROVE  TypeOK'
  <1>1. CASE UNCHANGED vars
    BY <1>1 DEF vars, TypeOK
  <1>2. CASE Drive
    BY <1>2 DEF Drive, Orch!DriveRun, Orch!Over, TypeOK, requestVars, dbVars, history
  <1>3. CASE DeleteRows
    BY <1>3, DatabaseTypes DEF DeleteRows, TypeOK, requestVars, history
  <1> QED
    BY <1>1, <1>2, <1>3, UploadTypes, PollTypes, StartTypes, StopTypes, FinTypes
    DEF Next, UploadStep, PollStep, StartStep, StopStep

-----------------------------------------------------------------------------
(* What a step leaves alone                                                *)

IsQuestion(q) ==
    /\ q = [at |-> q.at, stale |-> q.stale, of |-> q.of, ans |-> q.ans]
    /\ q.stale \in BOOLEAN

\* Polls, the finalizer's slots and the stop are all questions.
LEMMA AreQuestions ==
    ASSUME TypeOK
    PROVE  /\ \A p \in Pollers : IsQuestion(poll[p])
           /\ \A f \in Slots : IsQuestion(fin[f])
           /\ IsQuestion(stop)
  <1>1. ASSUME NEW P, NEW A, NEW q \in Question(P, A)  PROVE IsQuestion(q)
    BY DEF Question, IsQuestion
  <1> QED  BY <1>1 DEF TypeOK, PollQuestion, FinQuestion, StopQuestion

\* A request that is idle, or has just asked, holds no answer.
LEMMA IdleFacts ==
    /\ Idle.at = "idle" /\ Idle.ans = "" /\ Idle.stale = FALSE
    /\ \A w : Asks(w).at = w /\ Asks(w).ans = "" /\ Asks(w).stale = FALSE
  BY DEF Idle, Asks

\* What a start that was recorded does to the questions on their way.
LEMMA StaledFacts ==
    ASSUME NEW q, IsQuestion(q)
    PROVE  /\ Staled(q).at = q.at /\ Staled(q).ans = q.ans
           /\ q.at = "idle" \/ (q.at = "write" /\ q.ans = "") \/ Staled(q).stale
  BY DEF IsQuestion, Staled

\* An answer that has come is held until there is a connection.
LEMMA HeldFacts ==
    ASSUME NEW q, IsQuestion(q), NEW a
    PROVE  /\ Held(q, a).at = "write" /\ Held(q, a).ans = a
           /\ a # "" => /\ Held(q, a).stale = q.stale
                        /\ a = "complete" => Held(q, a).of = run
  BY IdleFacts DEF IsQuestion, Held

RecordsStart == \E s \in Starters : RecordStart(s)

\* A request is moved on by its own steps, and marked by RecordStart.
LEMMA PollFrame ==
    ASSUME TypeOK, [Next]_vars, ~RecordsStart, NEW p \in Pollers, ~PollStep(p)
    PROVE  poll'[p] = poll[p]
  <1>1. ASSUME NEW r \in Pollers, r # p, PollStep(r)  PROVE poll'[p] = poll[p]
    BY <1>1
    DEF PollStep, AnswerPoll, PollReads, PollAnswered, PollAnswerLost, PollWrites, PollFails, TypeOK
  <1>2. CASE \A r \in Pollers : ~PollStep(r)
    BY <1>2
    DEF Next, PollStep, StoreArchive, InsertRow, InsertFails, TriggerBuild, Build, TeamStart,
        RequestStart, AnswerStart, SandboxAnswers, StartAccepted, StartRefused, RecordsStart,
        RecordStartFails, RequestStop, TeamStop, AnswerStop, StopAccepted, StopRefused, RecordStop,
        Drive, Finalize, FinalizerAsks, FinalizerAnswered, FinalizerWrites, FinalizerFails,
        DeleteRows, requestVars, vars
  <1> QED  BY <1>1, <1>2

\* A slot of the finalizer changes by its own step or by a recorded start.
LEMMA FinFrame ==
    ASSUME TypeOK, [Next]_vars, ~RecordsStart, NEW f \in Slots, ~Finalize(f)
    PROVE  fin'[f] = fin[f]
  <1>1. ASSUME NEW g \in Slots, g # f, Finalize(g)  PROVE fin'[f] = fin[f]
    BY <1>1
    DEF Finalize, FinalizerAsks, FinalizerAnswered, FinalizerWrites, FinalizerFails, TypeOK
  <1>2. CASE \A g \in Slots : ~Finalize(g)
    BY <1>2
    DEF Next, StoreArchive, InsertRow, InsertFails, TriggerBuild, Build, PollReads, AnswerPoll,
        PollAnswered, PollAnswerLost, PollWrites, PollFails, TeamStart, RequestStart, AnswerStart,
        SandboxAnswers, StartAccepted, StartRefused, RecordsStart, RecordStartFails, RequestStop,
        TeamStop, AnswerStop, StopAccepted, StopRefused, RecordStop, Drive, DeleteRows,
        requestVars, vars
  <1> QED  BY <1>1, <1>2

\* The stop changes by its own step or by a recorded start.
LEMMA StopFrame ==
    ASSUME [Next]_vars, ~RecordsStart, ~StopStep
    PROVE  stop' = stop
  BY DEF Next, StoreArchive, InsertRow, InsertFails, TriggerBuild, Build, PollReads, AnswerPoll,
         PollAnswered, PollAnswerLost, PollWrites, PollFails, TeamStart, RequestStart, AnswerStart,
         SandboxAnswers, StartAccepted, StartRefused, RecordsStart, RecordStartFails, StopStep,
         Drive, Finalize, FinalizerAsks, FinalizerAnswered, FinalizerWrites, FinalizerFails,
         DeleteRows, requestVars, vars

\* The sandbox and the run start, and go on, without the service's help.
LEMMA RunFrame ==
    ASSUME [Next]_vars
    PROVE  \/ UNCHANGED <<run, shown>>
           \/ Drive \/ StopAccepted \/ \E s \in Starters : StartAccepted(s)
  BY DEF Next, StoreArchive, InsertRow, InsertFails, TriggerBuild, Build, PollReads, AnswerPoll,
         PollAnswered, PollAnswerLost, PollWrites, PollFails, TeamStart, RequestStart, AnswerStart,
         SandboxAnswers, StartRefused, RecordStart, RecordStartFails, RequestStop, TeamStop,
         AnswerStop, StopRefused, RecordStop, Finalize, FinalizerAsks, FinalizerAnswered,
         FinalizerWrites, FinalizerFails, DeleteRows, requestVars, vars

\* Nobody takes an excuse back.
LEMMA ExcusesGrow ==
    ASSUME [Next]_vars
    PROVE  excused \subseteq excused'
  BY DEF Next, StoreArchive, InsertRow, InsertFails, TriggerBuild, Build, PollReads, AnswerPoll,
         PollAnswered, PollAnswerLost, PollWrites, PollFails, TeamStart, RequestStart, AnswerStart,
         SandboxAnswers, StartAccepted, StartRefused, RecordStart, RecordStartFails, RequestStop,
         TeamStop, AnswerStop, StopAccepted, StopRefused, RecordStop, Drive, Finalize,
         FinalizerAsks, FinalizerAnswered, FinalizerWrites, FinalizerFails, DeleteRows,
         history, vars

\* A start stays pending until it is recorded.
LEMMA PendingStays ==
    ASSUME TypeOK, [Next]_vars, StartPending
    PROVE  StartPending' \/ run' \in excused' \/ RecordsStart
  <1> PICK s \in Starters : start[s] = "accepted"
    BY DEF StartPending
  <1>1. ASSUME NEW r \in Starters, RecordStartFails(r)  PROVE run' \in excused'
    BY <1>1 DEF RecordStartFails
  <1>2. ASSUME NEW r \in Starters, ~RecordStart(r), ~RecordStartFails(r), StartStep(r)
        PROVE  start'[s] = "accepted"
    BY <1>2
    DEF StartStep, RequestStart, TeamStart, AnswerStart, SandboxAnswers, StartAccepted, StartRefused,
        TypeOK
  <1>3. ASSUME \A r \in Starters : ~StartStep(r)  PROVE start' = start
    BY <1>3
    DEF Next, StartStep, StoreArchive, InsertRow, InsertFails, TriggerBuild, Build, PollReads,
        AnswerPoll, PollAnswered, PollAnswerLost, PollWrites, PollFails, RequestStop, TeamStop,
        AnswerStop, StopAccepted, StopRefused, RecordStop, Drive, Finalize, FinalizerAsks,
        FinalizerAnswered, FinalizerWrites, FinalizerFails, DeleteRows, requestVars, vars
  <1> QED  BY <1>1, <1>2, <1>3 DEF RecordsStart, StartPending

-----------------------------------------------------------------------------
(* The small parts of the invariant                                        *)

\* Every step keeps AnswerInv: only an answer puts a request at "write".
LEMMA AnswerStep ==
    ASSUME TypeOK, AnswerInv, [Next]_vars
    PROVE  AnswerInv'
  <1>1. ASSUME NEW f \in Slots  PROVE fin'[f].at = "write" => fin'[f].ans # ""
    <2>1. CASE RecordsStart
      <3>1. fin'[f] = Staled(fin[f])
        BY <2>1 DEF RecordsStart, RecordStart
      <3> QED  BY <3>1, AreQuestions, StaledFacts DEF AnswerInv
    <2>2. CASE FinalizerAsks(f) \/ FinalizerWrites(f) \/ FinalizerFails(f)
      <3>1. fin'[f] = Asks("orchestrator") \/ fin'[f] = Idle
        BY <2>2 DEF FinalizerAsks, FinalizerWrites, FinalizerFails, TypeOK
      <3> QED  BY <3>1, IdleFacts
    <2>3. CASE FinalizerAnswered(f)
      <3>1. fin'[f] = Idle \/ (Marked(shown) # "" /\ fin'[f] = Held(fin[f], Marked(shown)))
        BY <2>3 DEF FinalizerAnswered, TypeOK
      <3>2. Held(fin[f], Marked(shown)).ans = Marked(shown)
        BY AreQuestions, HeldFacts
      <3>3. CASE fin'[f] = Idle
        BY <3>3, IdleFacts
      <3> QED  BY <3>1, <3>2, <3>3
    <2>4. CASE ~RecordsStart /\ ~Finalize(f)
      BY <2>4, FinFrame DEF AnswerInv
    <2> QED  BY <2>1, <2>2, <2>3, <2>4 DEF Finalize
  <1>2. stop'.at = "write" => stop'.ans # ""
    <2>1. CASE RecordsStart
      <3>1. stop' = Staled(stop)
        BY <2>1 DEF RecordsStart, RecordStart
      <3> QED  BY <3>1, AreQuestions, StaledFacts DEF AnswerInv
    <2>2. CASE StopStep
      <3>1. stop' \in {Asks("orchestrator"), Idle, Held(stop, "ready")}
        BY <2>2
        DEF StopStep, RequestStop, TeamStop, AnswerStop, StopAccepted, StopRefused, RecordStop
      <3>2. Held(stop, "ready").ans = "ready"
        BY AreQuestions, HeldFacts
      <3>3. CASE stop' = Held(stop, "ready")
        BY <3>2, <3>3
      <3>4. CASE stop' \in {Asks("orchestrator"), Idle}
        BY <3>4, IdleFacts
      <3> QED  BY <3>1, <3>3, <3>4
    <2>3. CASE ~RecordsStart /\ ~StopStep
      BY <2>3, StopFrame DEF AnswerInv
    <2> QED  BY <2>1, <2>2, <2>3
  <1> QED  BY <1>1, <1>2 DEF AnswerInv

\* Every step keeps BuiltInv: a run needs a sandbox.
LEMMA BuiltStep ==
    ASSUME TypeOK, BuiltInv, [Next]_vars
    PROVE  BuiltInv'
  <1> USE DEF BuiltInv
  <1>1. CASE UploadStep
    BY <1>1
    DEF UploadStep, StoreArchive, InsertRow, InsertFails, TriggerBuild, Build, requestVars, TypeOK
  <1>2. ASSUME NEW s \in Starters, StartStep(s)  PROVE BuiltInv'
    BY <1>2
    DEF StartStep, RequestStart, TeamStart, AnswerStart, SandboxAnswers, StartAccepted, StartRefused,
        RecordStart, RecordStartFails, TypeOK
  <1>3. CASE StopAccepted \/ Drive
    BY <1>3 DEF StopAccepted, Drive, Orch!StopRun, Orch!DriveRun, requestVars
  <1>4. CASE UNCHANGED <<upload, sandbox, start, shown>>
    BY <1>4
  <1> QED
    BY <1>1, <1>2, <1>3, <1>4
    DEF Next, UploadStep, StartStep, PollReads, AnswerPoll, PollAnswered, PollAnswerLost, PollWrites,
        PollFails, RequestStop, TeamStop, AnswerStop, StopRefused, RecordStop, Finalize,
        FinalizerAsks, FinalizerAnswered, FinalizerWrites, FinalizerFails, DeleteRows, requestVars,
        vars

\* Every step keeps StoppedInv: who stops a run excuses it.
LEMMA StoppedStep ==
    ASSUME TypeOK, StoppedInv, [Next]_vars
    PROVE  StoppedInv'
  <1>1. CASE UNCHANGED <<run, shown>>
    BY <1>1, ExcusesGrow DEF StoppedInv
  <1>2. CASE Drive \/ StopAccepted
    BY <1>2 DEF Drive, StopAccepted, Orch!DriveRun, Orch!StopRun, StoppedInv
  <1>3. ASSUME NEW s \in Starters, StartAccepted(s)  PROVE StoppedInv'
    BY <1>3 DEF StartAccepted, Orch!StartRun, StoppedInv
  <1> QED  BY <1>1, <1>2, <1>3, RunFrame

-----------------------------------------------------------------------------
(* Answers stay harmless                                                   *)

\* Unless a start is recorded, the present run is covered, or it is the run of
\* before, it has not become completed or running, and has stayed completed.
LEMMA RunMoves ==
    ASSUME TypeOK, StoppedInv, [Next]_vars, ~RecordsStart
    PROVE  \/ Covered'
           \/ /\ ~Covered /\ run' = run
              /\ shown = "completed" => shown' = "completed"
              /\ shown' \in {"running", "completed"} => shown \in {"running", "completed"}
  <1>1. CASE UNCHANGED <<run, shown>>
    BY <1>1, ExcusesGrow, PendingStays DEF Covered
  <1>2. CASE Drive
    BY <1>2, ExcusesGrow, PendingStays DEF Drive, Orch!DriveRun, Covered, StoppedInv
  <1>3. CASE StopAccepted
    BY <1>3 DEF StopAccepted, Orch!StopRun, Covered
  <1>4. ASSUME NEW s \in Starters, StartAccepted(s)  PROVE Covered'
    BY <1>4 DEF StartAccepted, Covered, StartPending, TypeOK
  <1> QED  BY <1>1, <1>2, <1>3, <1>4, RunFrame

\* Only RecordStart sets the row to "testing".
LEMMA NotTesting ==
    ASSUME TypeOK, AnswerInv, [Next]_vars, ~RecordsStart, row # "testing"
    PROVE  row' # "testing"
  <1>1. ASSUME NEW p \in Pollers, PollStep(p)  PROVE row' # "testing"
    BY <1>1, PollFacts
    DEF PollStep, PollReads, AnswerPoll, PollAnswered, PollAnswerLost, PollWrites, PollFails, Updated
  <1>2. ASSUME NEW f \in Slots, Finalize(f)  PROVE row' # "testing"
    BY <1>2
    DEF Finalize, FinalizerAsks, FinalizerAnswered, FinalizerWrites, FinalizerFails, IfTesting
  <1> QED
    BY <1>1, <1>2
    DEF Next, StoreArchive, InsertRow, InsertFails, TriggerBuild, Build, PollStep, TeamStart,
        RequestStart, AnswerStart, SandboxAnswers, StartAccepted, StartRefused, RecordsStart,
        RecordStartFails, RequestStop, TeamStop, AnswerStop, StopAccepted, StopRefused, RecordStop,
        IfTesting, Drive, DeleteRows, vars

\* An answer that is harmless stays so, whoever moves, until a start is
\* recorded.
LEMMA HarmlessStays ==
    ASSUME TypeOK, AnswerInv, StoppedInv, [Next]_vars, ~RecordsStart,
           NEW q, Harmless(q)
    PROVE  HarmlessWhen(q, row', run', shown', Covered')
  BY RunMoves, NotTesting DEF Harmless, HarmlessWhen

\* A request that has not been answered, or with nothing to write, is harmless.
LEMMA IdleIsHarmless ==
    ASSUME NEW v, NEW n, NEW s, NEW covered
    PROVE  /\ HarmlessWhen(Idle, v, n, s, covered)
           /\ \A w : w \notin {"sandbox"} => HarmlessWhen(Asks(w), v, n, s, covered)
  BY IdleFacts DEF HarmlessWhen

\* An answer that a start has overtaken is harmless.
LEMMA StaledIsHarmless ==
    ASSUME NEW q, IsQuestion(q), NEW v, NEW n, NEW s, NEW covered
    PROVE  HarmlessWhen(Staled(q), v, n, s, covered)
  <1>1. CASE q.at = "idle"
    BY <1>1, StaledFacts DEF HarmlessWhen
  <1>2. CASE q.at = "write" /\ q.ans = ""
    BY <1>2, StaledFacts DEF HarmlessWhen
  <1>3. CASE Staled(q).stale
    BY <1>3 DEF HarmlessWhen
  <1> QED  BY <1>1, <1>2, <1>3, StaledFacts

\* An answer of the orchestrator is harmless when it comes.
LEMMA AnswerIsHarmless ==
    ASSUME NEW q, IsQuestion(q), NEW a,
           a = "" \/ (a = "complete" /\ shown = "completed")
                 \/ (a # "complete" /\ shown \notin {"running", "completed"})
    PROVE  Harmless(Held(q, a))
  <1>1. Held(q, a).at = "write" /\ Held(q, a).ans = a
    BY HeldFacts
  <1>2. CASE a = ""
    BY <1>1, <1>2 DEF Harmless, HarmlessWhen
  <1>3. CASE a = "complete" /\ shown = "completed"
    <2>1. a # "" => (a = "complete" => Held(q, a).of = run)
      BY HeldFacts
    <2>2. Held(q, a).of = run
      BY <1>3, <2>1
    <2> QED  BY <1>1, <1>3, <2>2 DEF Harmless, HarmlessWhen
  <1>4. CASE a # "complete" /\ shown \notin {"running", "completed"}
    BY <1>1, <1>4 DEF Harmless, HarmlessWhen
  <1> QED  BY <1>2, <1>3, <1>4

\* The answers of polls are harmless after every step.
LEMMA HarmlessPoll ==
    ASSUME TypeOK, AnswerInv, StoppedInv, AllHarmless, [Next]_vars, NEW p \in Pollers
    PROVE  Harmless(poll[p])'
  <1> DEFINE Now(q) == HarmlessWhen(q, row', run', shown', Covered')
  <1> SUFFICES Now(poll'[p])
    BY DEF Harmless
  <1>1. CASE RecordsStart
    <2>1. poll'[p] = Staled(poll[p])
      BY <1>1 DEF RecordsStart, RecordStart
    <2> QED  BY <2>1, AreQuestions, StaledIsHarmless
  <1>2. CASE ~RecordsStart /\ ~PollStep(p)
    BY <1>2, PollFrame, HarmlessStays DEF AllHarmless
  <1>3. CASE ~RecordsStart /\ PollReads(p)
    <2>1. poll'[p] = Asks(IF row = "testing" THEN "orchestrator" ELSE "sandbox") /\ row' = row
      BY <1>3 DEF PollReads, TypeOK
    <2> QED  BY <2>1, IdleFacts DEF HarmlessWhen
  <1>4. CASE ~RecordsStart /\ PollAnswered(p)
    <2>1. CASE poll[p].at = "orchestrator"
      <3>1. poll'[p] = Held(poll[p], Translated(shown))
        BY <1>4, <2>1 DEF PollAnswered, TypeOK
      <3>2. Harmless(Held(poll[p], Translated(shown)))
        BY AreQuestions, AnswerIsHarmless DEF Translated
      <3> QED  BY <1>4, <3>1, <3>2, HarmlessStays
    <2>2. CASE poll[p].at = "sandbox"
      <3> DEFINE a == IF sandbox = "none" THEN "" ELSE sandbox
      <3>1. poll'[p] = Held(poll[p], a) /\ row' = row
        BY <1>4, <2>2 DEF PollAnswered, TypeOK
      <3>2. a # "complete"
        BY DEF TypeOK
      <3> HIDE DEF a
      <3>3. /\ Held(poll[p], a).at = "write" /\ Held(poll[p], a).ans = a
            /\ a # "" => Held(poll[p], a).stale = poll[p].stale
        BY AreQuestions, HeldFacts
      <3>4. poll[p].stale \/ row # "testing"
        BY <2>2 DEF AllHarmless, Harmless, HarmlessWhen
      <3> QED  BY <3>1, <3>2, <3>3, <3>4 DEF HarmlessWhen
    <2> QED  BY <1>4, <2>1, <2>2 DEF PollAnswered
  <1>5. CASE ~RecordsStart /\ PollAnswerLost(p)
    <2>1. poll'[p] = Held(poll[p], "")
      BY <1>5 DEF PollAnswerLost, TypeOK
    <2>2. Harmless(Held(poll[p], ""))
      BY AreQuestions, AnswerIsHarmless
    <2> QED  BY <1>5, <2>1, <2>2, HarmlessStays
  <1>6. CASE PollWrites(p) \/ PollFails(p)
    <2>1. poll'[p] = Idle
      BY <1>6 DEF PollWrites, PollFails, TypeOK
    <2> QED  BY <2>1, IdleIsHarmless
  <1> QED  BY <1>1, <1>2, <1>3, <1>4, <1>5, <1>6 DEF PollStep, AnswerPoll

\* The answers of the finalizer are harmless after every step.
LEMMA HarmlessFin ==
    ASSUME TypeOK, AnswerInv, StoppedInv, AllHarmless, [Next]_vars, NEW f \in Slots
    PROVE  Harmless(fin[f])'
  <1> DEFINE Now(q) == HarmlessWhen(q, row', run', shown', Covered')
  <1> SUFFICES Now(fin'[f])
    BY DEF Harmless
  <1>1. CASE RecordsStart
    <2>1. fin'[f] = Staled(fin[f])
      BY <1>1 DEF RecordsStart, RecordStart
    <2> QED  BY <2>1, AreQuestions, StaledIsHarmless
  <1>2. CASE ~RecordsStart /\ ~Finalize(f)
    BY <1>2, FinFrame, HarmlessStays DEF AllHarmless
  <1>3. CASE FinalizerAsks(f)
    <2>1. fin'[f] = Asks("orchestrator")
      BY <1>3 DEF FinalizerAsks, TypeOK
    <2> QED  BY <2>1, IdleIsHarmless
  <1>4. CASE ~RecordsStart /\ FinalizerAnswered(f)
    <2>1. fin'[f] = Idle \/ fin'[f] = Held(fin[f], Marked(shown))
      BY <1>4 DEF FinalizerAnswered, TypeOK
    <2>2. Harmless(Held(fin[f], Marked(shown)))
      BY AreQuestions, AnswerIsHarmless DEF Marked
    <2> QED  BY <1>4, <2>1, <2>2, HarmlessStays, IdleIsHarmless
  <1>5. CASE FinalizerWrites(f) \/ FinalizerFails(f)
    <2>1. fin'[f] = Idle
      BY <1>5 DEF FinalizerWrites, FinalizerFails, TypeOK
    <2> QED  BY <2>1, IdleIsHarmless
  <1> QED  BY <1>1, <1>2, <1>3, <1>4, <1>5 DEF Finalize

\* The answer of a stop is harmless after every step.
LEMMA HarmlessStop ==
    ASSUME TypeOK, AnswerInv, StoppedInv, AllHarmless, [Next]_vars
    PROVE  Harmless(stop)'
  <1> DEFINE Now(q) == HarmlessWhen(q, row', run', shown', Covered')
  <1> SUFFICES Now(stop')
    BY DEF Harmless
  <1>1. CASE RecordsStart
    <2>1. stop' = Staled(stop)
      BY <1>1 DEF RecordsStart, RecordStart
    <2> QED  BY <2>1, AreQuestions, StaledIsHarmless
  <1>2. CASE ~RecordsStart /\ ~StopStep
    BY <1>2, StopFrame, HarmlessStays DEF AllHarmless
  <1>3. CASE RequestStop \/ TeamStop \/ StopRefused \/ RecordStop
    <2>1. stop' = Asks("orchestrator") \/ stop' = Idle
      BY <1>3 DEF RequestStop, TeamStop, StopRefused, RecordStop
    <2> QED  BY <2>1, IdleIsHarmless
  <1>4. CASE StopAccepted
    <2>1. Covered' /\ (stop' = Held(stop, "ready") \/ stop' = Idle)
      BY <1>4 DEF StopAccepted, Orch!StopRun, Covered
    <2>2. Held(stop, "ready").at = "write"
      BY AreQuestions, HeldFacts
    <2> QED  BY <2>1, <2>2, IdleIsHarmless DEF HarmlessWhen
  <1> QED  BY <1>1, <1>2, <1>3, <1>4 DEF StopStep, AnswerStop

-----------------------------------------------------------------------------
(* Watched                                                                 *)

\* A run that was sent to be scored stays sent.
LEMMA FinalizedGrows ==
    ASSUME [Next]_vars
    PROVE  finalized \subseteq finalized'
  BY DEF Next, StoreArchive, InsertRow, InsertFails, TriggerBuild, Build, PollReads, AnswerPoll,
         PollAnswered, PollAnswerLost, PollWrites, PollFails, TeamStart, RequestStart, AnswerStart,
         SandboxAnswers, StartAccepted, StartRefused, RecordStart, RecordStartFails, RequestStop,
         TeamStop, AnswerStop, StopAccepted, StopRefused, RecordStop, Drive, Finalize,
         FinalizerAsks, FinalizerAnswered, FinalizerWrites, FinalizerFails, DeleteRows,
         history, vars, Scored

\* Who writes the row.
LEMMA RowFrame ==
    ASSUME [Next]_vars, ~RecordsStart
    PROVE  \/ row' = row
           \/ InsertRow \/ DeleteRows \/ RecordStop
           \/ \E p \in Pollers : PollWrites(p) \/ PollFails(p)
           \/ \E f \in Slots : FinalizerWrites(f)
  BY DEF Next, StoreArchive, InsertFails, TriggerBuild, Build, PollReads, AnswerPoll,
         PollAnswered, PollAnswerLost, TeamStart, RequestStart, AnswerStart, SandboxAnswers,
         StartAccepted, StartRefused, RecordsStart, RecordStartFails, RequestStop, TeamStop,
         AnswerStop, StopAccepted, StopRefused, Drive, Finalize, FinalizerAsks, FinalizerAnswered,
         FinalizerFails, vars

\* No step loses sight of a run: who writes the row writes a harmless answer.
LEMMA WatchedStep ==
    ASSUME SubmissionInv, [Next]_vars
    PROVE  Watched'
  <1> USE DEF SubmissionInv
  <1> SUFFICES ASSUME row' # "absent", shown' \in {"running", "completed"},
                      run' \notin excused', ~StartPending', row' # "testing"
               PROVE  run' \in finalized'
    BY DEF Watched
  <1>1. ~RecordsStart
    BY DEF RecordsStart, RecordStart, Updated
  <1>2. /\ ~StartPending /\ run \notin excused /\ run' = run
        /\ shown \in {"running", "completed"}
    BY <1>1, RunMoves DEF Covered
  <1>3. row = "absent" \/ row = "testing" \/ run \in finalized'
    BY <1>2, FinalizedGrows DEF Watched
  <1>4. CASE row' = row
    BY <1>2, <1>3, <1>4
  <1>5. CASE InsertRow
    BY <1>2, <1>5 DEF InsertRow, BuiltInv
  <1>6. CASE DeleteRows
    BY <1>6 DEF DeleteRows
  <1>7. ASSUME NEW p \in Pollers, PollWrites(p) \/ PollFails(p), row' # row
        PROVE  run' \in finalized'
    <2>1. /\ poll[p].at = "write" /\ poll[p].ans # "" /\ row # "absent"
          /\ ~poll[p].stale
          /\ poll[p].ans = "complete" => poll[p].of \in finalized' \cup excused'
      BY <1>2, <1>7 DEF PollWrites, PollFails, Updated, Overtaken, Scored
    <2>2. IF poll[p].ans = "complete" THEN poll[p].of = run ELSE row # "testing"
      BY <1>2, <2>1 DEF AllHarmless, Harmless, HarmlessWhen, Covered
    <2> QED  BY <1>2, <1>3, <2>1, <2>2
  <1>8. ASSUME NEW f \in Slots, FinalizerWrites(f), row' # row
        PROVE  run' \in finalized'
    <2>1. /\ fin[f].at = "write" /\ fin[f].ans # "" /\ row = "testing"
          /\ ~fin[f].stale
          /\ fin[f].ans = "complete" => fin[f].of \in finalized'
      BY <1>2, <1>8 DEF FinalizerWrites, IfTesting, Overtaken, Scored, AnswerInv
    <2>2. fin[f].ans = "complete" /\ fin[f].of = run
      BY <1>2, <2>1 DEF AllHarmless, Harmless, HarmlessWhen, Covered
    <2> QED  BY <1>2, <2>1, <2>2
  <1>9. CASE RecordStop /\ row' # row
    <2>1. stop.at = "write" /\ stop.ans # "" /\ row = "testing" /\ ~stop.stale
      BY <1>2, <1>9 DEF RecordStop, IfTesting, Overtaken, AnswerInv
    <2>2. stop.ans # "complete"
      BY StopFacts
    <2> QED  BY <1>2, <2>1, <2>2 DEF AllHarmless, Harmless, HarmlessWhen, Covered
  <1> QED  BY <1>1, <1>4, <1>5, <1>6, <1>7, <1>8, <1>9, RowFrame

-----------------------------------------------------------------------------
(* Theorems                                                                *)

\* There is no row yet.
LEMMA Initially == Init => SubmissionInv
  <1> SUFFICES ASSUME Init  PROVE SubmissionInv
    OBVIOUS
  <1>1. TypeOK
    <2>1. /\ \A p \in Pollers : poll[p] = Idle
          /\ \A f \in Slots : fin[f] = Idle
          /\ stop = Idle
      BY DEF Init
    <2>2. \A P, A : Idle \in Question(P, A)
      BY DEF Question, Idle
    <2>3. /\ poll \in [Pollers -> PollQuestion] /\ fin \in [Slots -> FinQuestion]
          /\ stop \in StopQuestion
      BY <2>2 DEF Init, PollQuestion, FinQuestion, StopQuestion
    <2>4. run \in Nat /\ shown = "none"
      BY DEF Init, Orch!RunInit
    <2>5. stops \in 0..MaxStops /\ conns \in 0..PoolSize /\ faults \in 0..MaxFaults
      BY BoundsAssumption DEF Init
    <2> QED
      BY <2>3, <2>4, <2>5
      DEF Init, TypeOK, Status, PollQuestion, FinQuestion, StopQuestion
  <1>2. AnswerInv /\ BuiltInv /\ StoppedInv
    BY IdleFacts DEF Init, Orch!RunInit, AnswerInv, BuiltInv, StoppedInv
  <1>3. AllHarmless
    BY IdleIsHarmless DEF Init, AllHarmless, Harmless
  <1>4. Watched
    BY DEF Init, Watched
  <1> QED  BY <1>1, <1>2, <1>3, <1>4 DEF SubmissionInv

\* Every step keeps the invariant, part by part.
LEMMA InvStep == SubmissionInv /\ [Next]_vars => SubmissionInv'
  <1> SUFFICES ASSUME SubmissionInv, [Next]_vars  PROVE SubmissionInv'
    OBVIOUS
  <1> USE DEF SubmissionInv
  <1>1. TypeOK' /\ AnswerInv' /\ BuiltInv' /\ StoppedInv'
    BY TypeStep, AnswerStep, BuiltStep, StoppedStep
  <1>2. AllHarmless'
    BY HarmlessPoll, HarmlessFin, HarmlessStop DEF AllHarmless
  <1> QED  BY <1>1, <1>2, WatchedStep

\* The parts of SubmissionInv hold in every state.
LEMMA Invariance == Spec => []SubmissionInv
  BY Initially, InvStep, PTL DEF Spec

\* The row, the requests and the answers they hold keep their types.
THEOREM TypeCorrect == Spec => []TypeOK
  <1>1. SubmissionInv => TypeOK
    BY DEF SubmissionInv
  <1> QED  BY Invariance, <1>1, PTL

\* The service loses sight of a run only for the reasons that Watched names,
\* however many polls, starts and finalizer rounds overlap.
THEOREM WatchedAlways == Spec => []Watched
  <1>1. SubmissionInv => Watched
    BY DEF SubmissionInv
  <1> QED  BY Invariance, <1>1, PTL

\* A finalize request for a run that is under way comes of an overtaken answer.
THEOREM ScoredWhenOverAlways == Spec => ScoredWhenOver
  <1> DEFINE Fair == finalized' # finalized /\ shown = "running" => run \in excused' \/ StartPending
  <1>1. ASSUME SubmissionInv, [Next]_vars  PROVE [Fair]_vars
    <2> SUFFICES ASSUME finalized' # finalized, shown = "running"
                 PROVE  run \in excused' \/ StartPending
      OBVIOUS
    <2>1. \/ \E p \in Pollers : PollWrites(p)
          \/ \E f \in Slots : FinalizerWrites(f)
      BY <1>1
      DEF Next, StoreArchive, InsertRow, InsertFails, TriggerBuild, Build, PollReads, AnswerPoll,
          PollAnswered, PollAnswerLost, PollFails, TeamStart, RequestStart, AnswerStart,
          SandboxAnswers, StartAccepted, StartRefused, RecordStart, RecordStartFails, RequestStop,
          TeamStop, AnswerStop, StopAccepted, StopRefused, RecordStop, Drive, Finalize,
          FinalizerAsks, FinalizerAnswered, FinalizerFails, DeleteRows, history, vars
    <2>2. ASSUME NEW p \in Pollers, PollWrites(p)  PROVE run \in excused' \/ StartPending
      <3>1. poll[p].at = "write" /\ poll[p].ans = "complete"
        BY <2>2 DEF PollWrites, Scored
      <3>2. poll[p].stale => run \in excused'
        BY <2>2, <3>1 DEF PollWrites, Overtaken
      <3>3. ~poll[p].stale => Covered
        BY <1>1, <3>1 DEF SubmissionInv, AllHarmless, Harmless, HarmlessWhen
      <3> QED  BY <1>1, <3>2, <3>3, ExcusesGrow DEF Covered
    <2>3. ASSUME NEW f \in Slots, FinalizerWrites(f)  PROVE run \in excused' \/ StartPending
      <3>1. fin[f].at = "write" /\ fin[f].ans = "complete"
        BY <2>3 DEF FinalizerWrites, Scored
      <3>2. fin[f].stale => run \in excused'
        BY <2>3 DEF FinalizerWrites, Overtaken
      <3>3. ~fin[f].stale => Covered
        BY <1>1, <3>1 DEF SubmissionInv, AllHarmless, Harmless, HarmlessWhen
      <3> QED  BY <1>1, <3>2, <3>3, ExcusesGrow DEF Covered
    <2> QED  BY <2>1, <2>2, <2>3
  <1> QED  BY Invariance, <1>1, PTL DEF Spec, ScoredWhenOver
=============================================================================
