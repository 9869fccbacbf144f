------------------------------ MODULE Pipeline ------------------------------
(***************************************************************************)
(* From an order to the browser: the telemetry (Telemetry) and the         *)
(* leaderboard (Leaderboard) joined by the scoring engine.  FinalizeRun    *)
(* needs a RunMetrics, which the first event of the run creates, and holds *)
(* its mutex from the score to the last answer of Redis.                   *)
(*                                                                         *)
(* The two halves meet only there.  An initial state is either without an  *)
(* audience, or has one, and a worker that has ended.                      *)
(***************************************************************************)
EXTENDS Telemetry, Leaderboard

vars == <<telemetryVars, leaderboardVars>>

\* The worker runs, and faults cost telemetry or a score is asked for; or it has
\* ended, and the engine restarts while it writes a score.
NoAudience ==
    /\ deletes = 0 /\ failures = 0 /\ \A c \in Client : client[c] = "off"
    /\ \/ at[Main] = "wait" /\ faults = MaxFaults /\ scores = MaxScores
       \/ at[Main] = "wait" /\ faults = 0 /\ scores = MaxScores - 1
       \/ at[Main] = "end" /\ faults = MaxFaults /\ scores = MaxScores - 1

Audience ==
    /\ deletes = MaxDeletes /\ failures = MaxFailures /\ \A c \in Client : client[c] = "new"
    /\ at[Main] = "end" /\ faults = 0 /\ scores = 0

Init == TelemetryInit /\ LeaderboardInit /\ (NoAudience \/ Audience)

-----------------------------------------------------------------------------

\* runs has the run_id; a restart of the engine forgets it.
RunKnown == \E e \in Order : counted[e] > 0

FinalizeRun ==
    /\ RunKnown
    /\ BeginFinalize
    /\ UNCHANGED telemetryVars

\* Nobody holds the mutex of the RunMetrics.
Unlocked == finalize = "idle"

EngineStep ==
    \/ Unlocked /\ (Ingest \/ FlushTps) /\ UNCHANGED leaderboardVars
    \/ (PollBatch \/ WriteBatch \/ DbConnBreaks) /\ UNCHANGED leaderboardVars
    \/ FinalizeStep /\ UNCHANGED telemetryVars

\* A pipeline that was on its way is cut off.
Restart ==
    /\ EngineRestarts
    /\ \/ Unlocked /\ UNCHANGED leaderboardVars
       \/ CutOff

Next ==
    \/ FinalizeRun
    \/ EngineStep
    \/ Restart
    \/ WorkerNext /\ UNCHANGED leaderboardVars
    \/ (DeleteNext \/ ServiceNext) /\ UNCHANGED telemetryVars

\* Threads run, a request ends with its timeout, the broker and Redis answer.
\* That bots go on sending, that a worker is stopped, that anybody asks for a
\* score or a page is not relied on.
Fairness ==
    /\ \A e \in Order : WF_vars((Answered(e) \/ Record(e)) /\ UNCHANGED leaderboardVars)
    /\ \A t \in Thread : WF_vars(Flush(t) /\ UNCHANGED leaderboardVars)
    /\ WF_vars((FlusherGoesOn \/ JoinFlusher \/ MainReturns) /\ UNCHANGED leaderboardVars)
    /\ WF_vars(Deliver /\ UNCHANGED leaderboardVars)
    /\ WF_vars(PollBatch /\ UNCHANGED leaderboardVars)
    /\ WF_vars(Unlocked /\ Ingest /\ UNCHANGED leaderboardVars)
    /\ WF_vars(WriteBatch /\ UNCHANGED leaderboardVars)
    /\ WF_vars(FinalizeStep /\ UNCHANGED telemetryVars)
    /\ WF_vars(DeleteStep /\ UNCHANGED telemetryVars)
    /\ WF_vars((OnMessage \/ Resubscribe) /\ UNCHANGED telemetryVars)
    /\ WF_vars(Broadcaster /\ UNCHANGED telemetryVars)

Spec == Init /\ [][Next]_vars /\ Fairness
=============================================================================
