----------------------------- MODULE Submission -----------------------------
(***************************************************************************)
(* The submission service (services/submission-svc/src/main.cpp): the row  *)
(* of one submission of one team, and everything that writes it:           *)
(*   - the upload inserts it and asks the sandbox manager for a build;     *)
(*   - a status poll reads it, asks the orchestrator or the sandbox        *)
(*     manager, and writes what it was told;                               *)
(*   - a start asks the sandbox manager, then the orchestrator, and then   *)
(*     writes "testing"; a stop asks the orchestrator and writes "ready";  *)
(*   - the finalizer asks the orchestrator every five seconds about each   *)
(*     row that says "testing", and has a completed run scored;            *)
(*   - a team may be deleted, with its rows.                               *)
(* No answer is awaited: each is handled by a callback, some time later,   *)
(* when the row may have changed.  An answer is held in the record of the  *)
(* request between the two.                                                *)
(*                                                                         *)
(* A block that holds a connection of the pool waits for no other request, *)
(* so it is one step; it needs a connection to be there.                   *)
(*                                                                         *)
(* The table may be the one the service creates when there is none, or the *)
(* one of deploy/migrations/001_init.sql, which docker compose has created *)
(* by then and whose CHECK refuses some of the statuses the service writes.*)
(*                                                                         *)
(* Left out: a build or a teardown asked of the sandbox manager directly.  *)
(*                                                                         *)
(* The "Bug..." operators are seeded faults, used by no definition here.   *)
(***************************************************************************)
EXTENDS Integers, FiniteSets

CONSTANTS
    Pollers,      \* status polls that may be under way at once
    Starters,     \* start requests that may be under way at once
    Slots,        \* questions of the finalizer that may be unanswered at once
    PoolSize,     \* connections of the pool
    MaxStarts,    \* bound: runs the orchestrator accepts
    MaxStops,     \* bound: stop requests
    MaxFaults     \* bound: database errors and answers that are lost

ASSUME BoundsAssumption ==
    /\ PoolSize \in Nat \ {0}
    /\ MaxStarts \in Nat /\ MaxStops \in Nat /\ MaxFaults \in Nat

VARIABLES
    table,        \* whose CREATE TABLE made submissions
    row,          \* submissions.status, "absent" while there is no row
    sandbox,      \* the status the sandbox manager shows for the id
    run, shown,   \* what the orchestrator shows for the id: see RunStatus
    upload,       \* where the upload is
    poll,         \* poll[p]: a status poll
    start,        \* start[s]: where a start request is
    stop,         \* the stop request
    stops,        \* how many stop requests have been made
    fin,          \* fin[f]: a question of the finalizer
    conns,        \* connections in the pool
    faults        \* faults so far

(* History, read by properties only.                                       *)
VARIABLES
    finalized,    \* the runs a finalize request was sent for
    excused       \* the runs the service may lose sight of, see Watched

Orch == INSTANCE RunStatus

requestVars == <<upload, poll, start, stop, stops, fin>>
dbVars      == <<conns, faults>>
history     == <<finalized, excused>>
vars == <<table, row, sandbox, run, shown, upload, poll, start, stop, stops, fin,
          conns, faults, finalized, excused>>

\* A question on its way: where it is, whether the row has been set to "testing"
\* since it was asked (history), and the answer: which run it is about when it
\* says complete (history), and what is to be written.
Idle == [at |-> "idle", stale |-> FALSE, of |-> 0, ans |-> ""]

Asks(whom) == [Idle EXCEPT !.at = whom]

\* An answer that writes nothing needs no more than to be told to the caller.
Held(q, a) ==
    IF a = "" THEN Asks("write")
    ELSE [q EXCEPT !.at = "write", !.ans = a, !.of = IF a = "complete" THEN run ELSE 0]

Staled(q) == IF q.at = "idle" \/ (q.at = "write" /\ q.ans = "") THEN q
             ELSE [q EXCEPT !.stale = TRUE]

Init ==
    /\ table \in {"service", "migration"}
    /\ row = "absent" /\ sandbox = "none"
    /\ Orch!RunInit
    /\ upload = "idle"
    /\ poll = [p \in Pollers |-> Idle]
    /\ start = [s \in Starters |-> "idle"]
    /\ stop = Idle /\ stops = 0
    /\ fin = [f \in Slots |-> Idle]
    /\ conns = PoolSize /\ faults = 0
    /\ finalized = {} /\ excused = {}

\* acquire() waits for a connection; the destructor of Connection gives it back.
BugReleased == conns - 1

Released == conns

Database == conns > 0 /\ conns' = Released /\ UNCHANGED faults

\* A statement throws, or the reconnect in acquire() does, and then the
\* connection that was popped is gone.
DatabaseFails ==
    /\ conns > 0
    /\ faults < MaxFaults                                     \* the bound
    /\ faults' = faults + 1
    /\ conns' \in {conns, conns - 1}

\* An HTTP call fails, or its answer is not understood.
AnswerLost ==
    /\ faults < MaxFaults                                     \* the bound
    /\ faults' = faults + 1
    /\ UNCHANGED conns

\* The statement that would set the status to v throws.
Refused(v) ==
    /\ table = "migration" /\ row # "absent"
    /\ v \notin {"pending", "building", "ready", "failed"}

\* UPDATE submissions SET status = v WHERE id = ..., when it is not refused.
Updated(v) == IF row = "absent" THEN row ELSE v

\* ... AND status = 'testing'
IfTesting(v) == IF row = "testing" THEN v ELSE row

\* An answer to a question older than the last update to "testing".
Overtaken(q) == IF q.stale THEN {run} ELSE {}

-----------------------------------------------------------------------------
(* The upload and the build.                                               *)

\* The form is valid, the scans pass and PutObject succeeds; otherwise nothing
\* is left behind.
StoreArchive ==
    /\ upload = "idle"
    /\ upload' = "stored"
    /\ UNCHANGED <<table, row, sandbox, run, shown, poll, start, stop, stops, fin, dbVars, history>>

InsertRow ==
    /\ upload = "stored"
    /\ Database
    /\ row' = "pending"
    /\ upload' = "inserted"
    /\ UNCHANGED <<table, sandbox, run, shown, poll, start, stop, stops, fin, history>>

\* The archive is deleted again.
InsertFails ==
    /\ upload = "stored"
    /\ DatabaseFails
    /\ upload' = "failed"
    /\ UNCHANGED <<table, row, sandbox, run, shown, poll, start, stop, stops, fin, history>>

\* The build request is sent and not awaited; that it failed is only logged.
TriggerBuild ==
    /\ upload = "inserted"
    /\ upload' = "done"
    /\ \/ sandbox' = "pending_build" /\ UNCHANGED dbVars
       \/ AnswerLost /\ UNCHANGED sandbox
    /\ UNCHANGED <<table, row, run, shown, poll, start, stop, stops, fin, history>>

\* The worker of the sandbox manager.
Build ==
    /\ \/ sandbox = "pending_build" /\ sandbox' = "building"
       \/ sandbox = "building" /\ sandbox' \in {"ready", "failed"}
    /\ UNCHANGED <<table, row, run, shown, requestVars, dbVars, history>>

-----------------------------------------------------------------------------
(* The status poll.                                                        *)

PollReads(p) ==
    /\ poll[p].at = "idle"
    /\ row \notin {"absent", "complete", "failed"}    \* these are answered at once
    /\ Database
    /\ poll' = [poll EXCEPT ![p] = Asks(IF row = "testing" THEN "orchestrator" ELSE "sandbox")]
    /\ UNCHANGED <<table, row, sandbox, run, shown, upload, start, stop, stops, fin, history>>

\* What the poll makes of the orchestrator's status; "" writes nothing.
BugTranslated(s) == IF s \in {"completed", "failed"} THEN s ELSE ""

Translated(s) ==
    CASE s = "completed" -> "complete"
      [] s = "failed"    -> "failed"
      [] OTHER           -> ""

PollAnswered(p) ==
    /\ \/ /\ poll[p].at = "orchestrator"
          /\ poll' = [poll EXCEPT ![p] = Held(@, Translated(shown))]
       \/ /\ poll[p].at = "sandbox"
          /\ poll' = [poll EXCEPT ![p] = Held(@, IF sandbox = "none" THEN "" ELSE sandbox)]
    /\ UNCHANGED <<table, row, sandbox, run, shown, upload, start, stop, stops, fin, dbVars, history>>

PollAnswerLost(p) ==
    /\ poll[p].at \in {"orchestrator", "sandbox"}
    /\ AnswerLost
    /\ poll' = [poll EXCEPT ![p] = Held(@, "")]
    /\ UNCHANGED <<table, row, sandbox, run, shown, upload, start, stop, stops, fin, history>>

\* A finalize request is sent to the scoring engine.
Scored(q) == IF q.ans = "complete" THEN finalized \cup {q.of} ELSE finalized

\* Both updates are unconditional.  A row that is gone by now is not updated;
\* the SELECT that follows then has no row to answer with.
PollWrites(p) ==
    LET q == poll[p] IN
    /\ q.at = "write"
    /\ Database
    /\ IF q.ans = "" \/ Refused(q.ans) THEN UNCHANGED <<row, finalized, excused>>
       ELSE /\ row' = Updated(q.ans)
            /\ excused' = excused \cup Overtaken(q)
            /\ finalized' = Scored(q)
    /\ poll' = [poll EXCEPT ![p] = Idle]
    /\ UNCHANGED <<table, sandbox, run, shown, upload, start, stop, stops, fin>>

\* The update fails; or it is committed, and what comes next fails, in which
\* case no finalize request is sent.
PollFails(p) ==
    LET q == poll[p] IN
    /\ q.at = "write"
    /\ DatabaseFails
    /\ \/ UNCHANGED <<row, excused>>
       \/ /\ q.ans # "" /\ ~Refused(q.ans)
          /\ row' = Updated(q.ans)
          /\ excused' = excused \cup Overtaken(q)
                           \cup (IF q.ans = "complete" THEN {q.of} ELSE {})
    /\ poll' = [poll EXCEPT ![p] = Idle]
    /\ UNCHANGED <<table, sandbox, run, shown, upload, start, stop, stops, fin, finalized>>

-----------------------------------------------------------------------------
(* Start and stop.                                                         *)

\* Nothing is read from the database before the sandbox is asked.
RequestStart(s) ==
    /\ start[s] = "idle"
    /\ start' = [start EXCEPT ![s] = "asked"]
    /\ UNCHANGED <<table, row, sandbox, run, shown, upload, poll, stop, stops, fin, dbVars, history>>

\* The team's endpoint looks up its last submission and calls the other one.
TeamStart(s) ==
    /\ row # "absent"
    /\ Database
    /\ RequestStart(s)

SandboxAnswers(s) ==
    /\ start[s] = "asked"
    /\ \/ sandbox = "ready" /\ start' = [start EXCEPT ![s] = "post"] /\ UNCHANGED dbVars
       \/ sandbox # "ready" /\ start' = [start EXCEPT ![s] = "idle"] /\ UNCHANGED dbVars
       \/ AnswerLost /\ start' = [start EXCEPT ![s] = "idle"]
    /\ UNCHANGED <<table, row, sandbox, run, shown, upload, poll, stop, stops, fin, history>>

\* The orchestrator accepts; if its answer is lost, the run is under way and
\* the row will not say so.
StartAccepted(s) ==
    /\ start[s] = "post"
    /\ run < MaxStarts                                        \* the bound
    /\ Orch!StartRun
    /\ \/ /\ start' = [start EXCEPT ![s] = "accepted"]
          /\ UNCHANGED <<dbVars, excused>>
       \/ /\ AnswerLost
          /\ start' = [start EXCEPT ![s] = "idle"]
          /\ excused' = excused \cup {run'}
    /\ UNCHANGED <<table, row, sandbox, upload, poll, stop, stops, fin, finalized>>

StartRefused(s) ==
    /\ start[s] = "post"
    /\ shown = "running" \/ run = MaxStarts                   \* the bound
    /\ start' = [start EXCEPT ![s] = "idle"]
    /\ UNCHANGED <<table, row, sandbox, run, shown, upload, poll, stop, stops, fin, dbVars, history>>

BugRecordStart(s) ==
    /\ start[s] = "accepted"
    /\ Database
    /\ row' = IF row = "ready" THEN "testing" ELSE row
    /\ poll' = [p \in Pollers |-> Staled(poll[p])]
    /\ stop' = Staled(stop)
    /\ fin' = [f \in Slots |-> Staled(fin[f])]
    /\ start' = [start EXCEPT ![s] = "idle"]
    /\ UNCHANGED <<table, sandbox, run, shown, upload, stops, history>>

RecordStart(s) ==
    /\ start[s] = "accepted"
    /\ Database /\ ~Refused("testing")
    /\ row' = Updated("testing")
    /\ poll' = [p \in Pollers |-> Staled(poll[p])]
    /\ stop' = Staled(stop)
    /\ fin' = [f \in Slots |-> Staled(fin[f])]
    /\ start' = [start EXCEPT ![s] = "idle"]
    /\ UNCHANGED <<table, sandbox, run, shown, upload, stops, history>>

RecordStartFails(s) ==
    /\ start[s] = "accepted"
    /\ DatabaseFails \/ (Database /\ Refused("testing"))
    /\ excused' = excused \cup {run}
    /\ start' = [start EXCEPT ![s] = "idle"]
    /\ UNCHANGED <<table, row, sandbox, run, shown, upload, poll, stop, stops, fin, finalized>>

RequestStop ==
    /\ stop.at = "idle"
    /\ stops < MaxStops                                       \* the bound
    /\ stops' = stops + 1
    /\ stop' = Asks("orchestrator")
    /\ UNCHANGED <<table, row, sandbox, run, shown, upload, poll, start, fin, dbVars, history>>

\* The team's endpoint: the last submission that is testing, or the last.
TeamStop ==
    /\ row # "absent"
    /\ Database
    /\ RequestStop

\* Accepted, and the answer held or lost; a run that was told to stop is
\* nobody's to finalize.
StopAccepted ==
    /\ stop.at = "orchestrator"
    /\ Orch!StopRun
    /\ excused' = excused \cup {run}
    /\ \/ stop' = Held(stop, "ready") /\ UNCHANGED dbVars
       \/ stop' = Idle /\ AnswerLost
    /\ UNCHANGED <<table, row, sandbox, upload, poll, start, stops, fin, finalized>>

StopRefused ==
    /\ stop.at = "orchestrator"
    /\ shown \notin {"running", "failed"}
    /\ stop' = Idle
    /\ UNCHANGED <<table, row, sandbox, run, shown, upload, poll, start, stops, fin, dbVars, history>>

RecordStop ==
    /\ stop.at = "write"
    /\ \/ /\ Database
          /\ row' = IfTesting("ready")
          /\ excused' = excused \cup Overtaken(stop)
       \/ /\ DatabaseFails
          /\ UNCHANGED <<row, excused>>
    /\ stop' = Idle
    /\ UNCHANGED <<table, sandbox, run, shown, upload, poll, start, stops, fin, finalized>>

\* The orchestrator's thread.
Drive ==
    /\ Orch!DriveRun
    /\ UNCHANGED <<table, row, sandbox, requestVars, dbVars, history>>

-----------------------------------------------------------------------------
(* The finalizer.                                                          *)

FinalizerAsks(f) ==
    /\ fin[f].at = "idle"
    /\ row = "testing"
    /\ Database
    /\ fin' = [fin EXCEPT ![f] = Asks("orchestrator")]
    /\ UNCHANGED <<table, row, sandbox, run, shown, upload, poll, start, stop, stops, history>>

\* What the finalizer makes of the status.
BugMarkedElse(s) ==
    CASE s = "failed"  -> "failed"
      [] s = "stopped" -> "ready"
      [] OTHER         -> "complete"

BugMarkedNoStop(s) ==
    CASE s = "completed" -> "complete"
      [] s = "failed"    -> "failed"
      [] OTHER           -> ""

Marked(s) ==
    CASE s = "completed" -> "complete"
      [] s = "failed"    -> "failed"
      [] s = "stopped"   -> "ready"
      [] OTHER           -> ""

FinalizerAnswered(f) ==
    /\ fin[f].at = "orchestrator"
    /\ \/ /\ UNCHANGED dbVars
          /\ fin' = [fin EXCEPT ![f] = IF Marked(shown) = "" THEN Idle
                                       ELSE Held(@, Marked(shown))]
       \/ AnswerLost /\ fin' = [fin EXCEPT ![f] = Idle]
    /\ UNCHANGED <<table, row, sandbox, run, shown, upload, poll, start, stop, stops, history>>

\* The finalize request does not depend on how many rows were updated, and
\* carries the team's name as it was when the finalizer asked.
FinalizerWrites(f) ==
    LET q == fin[f] IN
    /\ q.at = "write"
    /\ Database
    /\ row' = IfTesting(q.ans)
    /\ excused' = excused \cup Overtaken(q)
    /\ finalized' = Scored(q)
    /\ fin' = [fin EXCEPT ![f] = Idle]
    /\ UNCHANGED <<table, sandbox, run, shown, upload, poll, start, stop, stops>>

\* Logged; the row still says "testing", so the next round asks again.
FinalizerFails(f) ==
    /\ fin[f].at = "write"
    /\ DatabaseFails
    /\ fin' = [fin EXCEPT ![f] = Idle]
    /\ UNCHANGED <<table, row, sandbox, run, shown, upload, poll, start, stop, stops, history>>

-----------------------------------------------------------------------------
(* The deletion of the team: its rows, in one transaction.  What follows   *)
(* on the board is Leaderboard's.                                          *)

DeleteRows ==
    /\ row # "absent"
    /\ Database
    /\ row' = "absent"
    /\ UNCHANGED <<table, sandbox, run, shown, requestVars, history>>

-----------------------------------------------------------------------------
Finalize(f) ==
    FinalizerAsks(f) \/ FinalizerAnswered(f) \/ FinalizerWrites(f) \/ FinalizerFails(f)

AnswerPoll(p) ==
    PollAnswered(p) \/ PollAnswerLost(p) \/ PollWrites(p) \/ PollFails(p)

AnswerStart(s) ==
    \/ SandboxAnswers(s) \/ StartAccepted(s) \/ StartRefused(s)
    \/ RecordStart(s) \/ RecordStartFails(s)

AnswerStop == StopAccepted \/ StopRefused \/ RecordStop

Next ==
    \/ StoreArchive \/ InsertRow \/ InsertFails \/ TriggerBuild \/ Build
    \/ \E p \in Pollers : PollReads(p) \/ AnswerPoll(p)
    \/ \E s \in Starters : RequestStart(s) \/ TeamStart(s) \/ AnswerStart(s)
    \/ RequestStop \/ TeamStop \/ AnswerStop \/ Drive
    \/ \E f \in Slots : Finalize(f)
    \/ DeleteRows

\* Every call to another service is answered or fails, the callbacks run, and
\* the finalizer never sleeps for good.  Requests need not arrive, and neither
\* builds nor benchmarks need end.
Fairness ==
    /\ \A p \in Pollers : WF_vars(AnswerPoll(p))
    /\ \A s \in Starters : WF_vars(AnswerStart(s))
    /\ WF_vars(AnswerStop)
    /\ \A f \in Slots : WF_vars(Finalize(f))

Spec == Init /\ [][Next]_vars /\ Fairness

-----------------------------------------------------------------------------
(* Properties                                                              *)

Status == {"pending", "pending_build", "building", "ready", "failed", "testing", "complete"}

Question(places, answers) ==
    [at : {"idle", "write"} \cup places, stale : BOOLEAN, of : Nat, ans : answers \cup {""}]

PollQuestion == Question({"orchestrator", "sandbox"},
                         {"pending_build", "building", "ready", "failed", "complete"})
FinQuestion  == Question({"orchestrator"}, {"complete", "failed", "ready"})
StopQuestion == Question({"orchestrator"}, {"ready"})

TypeOK ==
    /\ table \in {"service", "migration"}
    /\ row \in Status \cup {"absent"}
    /\ sandbox \in {"none", "pending_build", "building", "ready", "failed"}
    /\ run \in Nat /\ shown \in Orch!Over \cup {"none", "running"}
    /\ upload \in {"idle", "stored", "inserted", "done", "failed"}
    /\ poll \in [Pollers -> PollQuestion]
    /\ start \in [Starters -> {"idle", "asked", "post", "accepted"}]
    /\ stop \in StopQuestion /\ stops \in 0..MaxStops
    /\ fin \in [Slots -> FinQuestion]
    /\ conns \in 0..PoolSize /\ faults \in 0..MaxFaults
    /\ finalized \subseteq Nat /\ excused \subseteq Nat

StartPending == \E s \in Starters : start[s] = "accepted"

\* While a run is under way, and when it has completed, the finalizer can see
\* it: its row says "testing", or is about to, until a finalize request has
\* been sent.  The service may lose sight of a run for these reasons only: it
\* was stopped; the answer of the orchestrator to the start, or the update that
\* follows it, failed (the migration's table always refuses it); an answer asked
\* for before that update is written after it; a poll failed between the update
\* to "complete" and the finalize request.
Watched ==
    (/\ row # "absent"
     /\ shown \in {"running", "completed"}
     /\ run \notin excused)
        => row = "testing" \/ StartPending \/ run \in finalized

\* The scoring engine is asked to score a run that is still under way only when
\* the answer that led to it was overtaken by the next start.
ScoredWhenOver ==
    [][finalized' # finalized /\ shown = "running" =>
        run \in excused' \/ StartPending]_vars

\* A run that completes is sent to be scored, whether or not anybody polls,
\* unless it is excused, replaced by the next, or its row deleted.
CompletedIsFinalized ==
    (shown = "completed")
        ~> (run \in finalized \cup excused \/ shown # "completed" \/ row = "absent")

\* "Background finalization poller - ensures leaderboard gets updated even if the
\* frontend isn't polling the status endpoint" (main.cpp:1211): a run that has
\* completed is sent to be scored.
FinalizerSuffices ==
    (shown = "completed") ~> (run \in finalized \/ shown # "completed" \/ row = "absent")

\* No row says "testing" for ever once its run is over.
TestingEnds == (row = "testing" /\ shown # "running") ~> (row # "testing" \/ shown = "running")

\* Every status poll is answered, while fewer reconnects have failed than there
\* are connections.
PollsAnswered == \A p \in Pollers : (poll[p].at # "idle") ~> (poll[p].at = "idle")
=============================================================================
