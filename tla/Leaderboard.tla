---------------------------- MODULE Leaderboard ----------------------------
(***************************************************************************)
(* The leaderboard: one team's row in Redis, the two that write it (the    *)
(* scoring engine's FinalizeRun, scoring-engine/src/main.cpp, and the      *)
(* deletion of the team, submission-svc/src/main.cpp) and the service that *)
(* shows it to its WebSocket clients (leaderboard-svc/src/main.cpp).       *)
(*                                                                         *)
(* The row is in two keys, the team's score in the ranking and its hash of *)
(* details, and nobody writes or reads the two at once.  A value in them   *)
(* is the number of the score it belongs to.  Left out: the other teams,   *)
(* the subscriptions to details, which are sent anew every 500 ms, and     *)
(* updatePhase, which passes a text on to every client.                    *)
(*                                                                         *)
(* The "Bug..." operators are seeded faults, used by no definition here.   *)
(***************************************************************************)
EXTENDS Integers

CONSTANTS
    Client,      \* WebSocket clients
    MaxScores,   \* bound: finalized scores
    MaxDeletes,  \* bound: deletions of the team
    MaxFailures  \* bound: broken connections to Redis

ASSUME BoardAssumption ==
    MaxScores \in Nat /\ MaxDeletes \in Nat /\ MaxFailures \in Nat

Score  == 1..MaxScores
NoRow  == 0

VARIABLES
    rank,       \* the team's score in the ranking, or NoRow
    details,    \* its hash, or NoRow
    scores,     \* scores finalized so far
    finalize,   \* FinalizeRun: the command of its pipeline that comes next
    deletes,    \* deletions still to come
    delete,     \* DELETE /api/v1/teams/:name: likewise
    subscribed, \* the subscriber thread has a connection
    inbox,      \* a message is on its way to it
    has_update,
    caster,     \* where the broadcast thread is
    fetched,    \* what it has read
    client,     \* client[c]: "new", a step of handleNewConnection, "on", or "off"
    snapshot,   \* snapshot[c]: what handleNewConnection has read
    view,       \* view[c]: the row as the client was told last
    failures,   \* bound: failures still to come
    missed,     \* history: see UpToDate
    behind,     \* history: see UpToDate
    mixed       \* history: see RowIsWhole

board   == <<rank, details>>
writers == <<scores, finalize, deletes, delete, mixed>>
signal  == <<subscribed, inbox, has_update>>
cast    == <<caster, fetched>>
clients == <<client, snapshot, view, behind>>
leaderboardVars ==
    <<rank, details, scores, finalize, deletes, delete, mixed, subscribed, inbox, has_update,
      caster, fetched, client, snapshot, view, behind, failures, missed>>

Nothing == <<NoRow, NoRow>>

LeaderboardInit ==
    /\ scores \in 0..MaxScores /\ finalize = "idle"
    /\ rank = scores /\ details = scores    \* the row of the last one, if any
    /\ deletes \in 0..MaxDeletes /\ delete = "idle"
    /\ subscribed = TRUE /\ inbox = FALSE /\ has_update = FALSE
    /\ caster = "sleep" /\ fetched = Nothing
    /\ client \in [Client -> {"new", "off"}]
    /\ snapshot = [c \in Client |-> Nothing]
    /\ view = [c \in Client |-> Nothing]
    /\ failures \in 0..MaxFailures
    /\ missed = FALSE /\ behind = [c \in Client |-> FALSE] /\ mixed = FALSE

RedisFails == failures > 0 /\ failures' = failures - 1

-----------------------------------------------------------------------------
(* Redis.                                                                  *)

\* PUBLISH reaches the subscriber, or nobody.
Publish ==
    /\ inbox' = (inbox \/ subscribed)
    /\ missed' = (missed \/ ~subscribed)
    /\ UNCHANGED <<subscribed, has_update>>

-----------------------------------------------------------------------------
(* FinalizeRun.                                                            *)

\* It has a score: the pipeline is sent.
BeginFinalize ==
    /\ finalize = "idle" /\ scores < MaxScores
    /\ scores' = scores + 1
    /\ finalize' = "zadd"
    /\ mixed' = (mixed \/ delete # "idle")
    /\ UNCHANGED <<board, deletes, delete, signal, cast, clients, failures, missed>>

Zadd ==
    /\ finalize = "zadd"
    /\ rank' = scores
    /\ finalize' = "hmset"
    /\ UNCHANGED <<details, scores, deletes, delete, mixed, signal, cast, clients, failures, missed>>

Hmset ==
    /\ finalize = "hmset"
    /\ details' = scores
    /\ finalize' = "publish"
    /\ UNCHANGED <<rank, scores, deletes, delete, mixed, signal, cast, clients, failures, missed>>

PublishScore ==
    /\ finalize = "publish"
    /\ finalize' = "idle"
    /\ Publish
    /\ UNCHANGED <<board, scores, deletes, delete, mixed, cast, clients, failures>>

BreakOff ==
    /\ finalize # "idle"
    /\ finalize' = "idle"
    /\ missed' = (missed \/ finalize # "zadd")
    /\ mixed' = (mixed \/ finalize = "hmset")
    /\ UNCHANGED <<board, scores, deletes, delete, signal, cast, clients>>

\* The connection breaks, and the exception is swallowed; or the engine ends.
FinalizeFails == BreakOff /\ RedisFails

CutOff == BreakOff /\ UNCHANGED failures

-----------------------------------------------------------------------------
(* The deletion of the team; what it does in the database is Submission's. *)

BeginDelete ==
    /\ delete = "idle" /\ deletes > 0
    /\ deletes' = deletes - 1
    /\ delete' = "zrem"
    /\ mixed' = (mixed \/ finalize # "idle")
    /\ UNCHANGED <<board, scores, finalize, signal, cast, clients, failures, missed>>

BugAfterZrem == "publish"

AfterZrem == "del"

Zrem ==
    /\ delete = "zrem"
    /\ rank' = NoRow
    /\ delete' = AfterZrem
    /\ UNCHANGED <<details, scores, finalize, deletes, mixed, signal, cast, clients, failures, missed>>

BugAfterDel == "idle"

AfterDel == "publish"

Del ==
    /\ delete = "del"
    /\ details' = NoRow
    /\ delete' = AfterDel
    /\ UNCHANGED <<rank, scores, finalize, deletes, mixed, signal, cast, clients, failures, missed>>

PublishDelete ==
    /\ delete = "publish"
    /\ delete' = "idle"
    /\ Publish
    /\ UNCHANGED <<board, scores, finalize, deletes, mixed, cast, clients, failures>>

DeleteFails ==
    /\ delete # "idle" /\ RedisFails
    /\ delete' = "idle"
    /\ missed' = (missed \/ delete # "zrem")
    /\ mixed' = (mixed \/ delete = "del")
    /\ UNCHANGED <<board, scores, finalize, deletes, signal, cast, clients>>

-----------------------------------------------------------------------------
(* The subscriber thread.                                                  *)

OnMessage ==
    /\ subscribed /\ inbox
    /\ inbox' = FALSE
    /\ has_update' = TRUE
    /\ missed' = FALSE
    /\ UNCHANGED <<board, writers, subscribed, cast, clients, failures>>

\* What is on its way is lost with the connection.
SubscriberFails ==
    /\ subscribed /\ RedisFails
    /\ subscribed' = FALSE
    /\ inbox' = FALSE
    /\ missed' = (missed \/ inbox)
    /\ UNCHANGED <<board, writers, has_update, cast, clients>>

Resubscribe ==
    /\ ~subscribed
    /\ subscribed' = TRUE
    /\ UNCHANGED <<board, writers, inbox, has_update, cast, clients, failures, missed>>

-----------------------------------------------------------------------------
(* The broadcast thread.                                                   *)

\* has_update.exchange(false), before the fetch.
TakeUpdate ==
    /\ caster = "sleep" /\ has_update
    /\ has_update' = FALSE
    /\ caster' = "rank"
    /\ UNCHANGED <<board, writers, subscribed, inbox, fetched, clients, failures, missed>>

\* fetchLeaderboard: ZREVRANGE, then HGETALL of the teams in it.
FetchRank ==
    /\ caster = "rank"
    /\ fetched' = <<rank, NoRow>>
    /\ caster' = IF rank = NoRow THEN "send" ELSE "details"
    /\ UNCHANGED <<board, writers, signal, clients, failures, missed>>

FetchDetails ==
    /\ caster = "details"
    /\ fetched' = [fetched EXCEPT ![2] = details]
    /\ caster' = "send"
    /\ UNCHANGED <<board, writers, signal, clients, failures, missed>>

\* The update that has been taken is forgotten.
FetchFails ==
    /\ caster \in {"rank", "details"} /\ RedisFails
    /\ caster' = "sleep"
    /\ missed' = TRUE
    /\ UNCHANGED <<board, writers, signal, fetched, clients>>

\* handleNewConnection has put the client into the set, and not yet sent to it.
Connecting(c) == client[c] \in {"rank", "details", "send"}

\* The flag cleared once more, when the update has gone out.
BugBroadcast ==
    /\ caster = "send"
    /\ view' = [c \in Client |-> IF Connecting(c) \/ client[c] = "on" THEN fetched ELSE view[c]]
    /\ behind' = [c \in Client |-> Connecting(c)]
    /\ caster' = "sleep"
    /\ has_update' = FALSE
    /\ UNCHANGED <<board, writers, subscribed, inbox, fetched, client, snapshot, failures, missed>>

\* broadcast_update, under clients_mu.  What is sent to a client reaches it in
\* the order of the calls.
Broadcast ==
    /\ caster = "send"
    /\ view' = [c \in Client |-> IF Connecting(c) \/ client[c] = "on" THEN fetched ELSE view[c]]
    /\ behind' = [c \in Client |-> Connecting(c)]
    /\ caster' = "sleep"
    /\ UNCHANGED <<board, writers, signal, fetched, client, snapshot, failures, missed>>

-----------------------------------------------------------------------------
(* A client's connection, in the event loop.                               *)

Connect(c) ==
    /\ client[c] = "new"
    /\ \A d \in Client : ~Connecting(d)
    /\ client' = [client EXCEPT ![c] = "rank"]
    /\ UNCHANGED <<board, writers, signal, cast, snapshot, view, behind, failures, missed>>

ReadRank(c) ==
    /\ client[c] = "rank"
    /\ snapshot' = [snapshot EXCEPT ![c] = <<rank, NoRow>>]
    /\ client' = [client EXCEPT ![c] = IF rank = NoRow THEN "send" ELSE "details"]
    /\ UNCHANGED <<board, writers, signal, cast, view, behind, failures, missed>>

ReadDetails(c) ==
    /\ client[c] = "details"
    /\ snapshot' = [snapshot EXCEPT ![c][2] = details]
    /\ client' = [client EXCEPT ![c] = "send"]
    /\ UNCHANGED <<board, writers, signal, cast, view, behind, failures, missed>>

\* It keeps what the broadcasts have told it.
ReadFails(c) ==
    /\ client[c] \in {"rank", "details"} /\ RedisFails
    /\ client' = [client EXCEPT ![c] = "on"]
    /\ behind' = [behind EXCEPT ![c] = TRUE]
    /\ UNCHANGED <<board, writers, signal, cast, snapshot, view, missed>>

SendSnapshot(c) ==
    /\ client[c] = "send"
    /\ view' = [view EXCEPT ![c] = snapshot[c]]
    /\ client' = [client EXCEPT ![c] = "on"]
    /\ UNCHANGED <<board, writers, signal, cast, snapshot, behind, failures, missed>>

\* handleConnectionClosed, or connected() is false in a broadcast.
Disconnect(c) ==
    /\ client[c] = "on"
    /\ client' = [client EXCEPT ![c] = "off"]
    /\ UNCHANGED <<board, writers, signal, cast, snapshot, view, behind, failures, missed>>

-----------------------------------------------------------------------------

FinalizeStep == Zadd \/ Hmset \/ PublishScore \/ FinalizeFails

DeleteStep == Zrem \/ Del \/ PublishDelete \/ DeleteFails

Subscriber == OnMessage \/ SubscriberFails \/ Resubscribe

Broadcaster == TakeUpdate \/ FetchRank \/ FetchDetails \/ FetchFails \/ Broadcast

Connection(c) == ReadRank(c) \/ ReadDetails(c) \/ ReadFails(c) \/ SendSnapshot(c)

ServiceNext ==
    \/ Subscriber \/ Broadcaster
    \/ \E c \in Client : Connect(c) \/ Connection(c) \/ Disconnect(c)

DeleteNext == BeginDelete \/ DeleteStep

LeaderboardNext == BeginFinalize \/ FinalizeStep \/ CutOff \/ DeleteNext \/ ServiceNext

LeaderboardSpec == LeaderboardInit /\ [][LeaderboardNext]_leaderboardVars

-----------------------------------------------------------------------------
(* Properties                                                              *)

Row   == Score \cup {NoRow}
Shown == Row \X Row

LeaderboardTypeOK ==
    /\ rank \in Row /\ details \in Row
    /\ scores \in 0..MaxScores /\ finalize \in {"idle", "zadd", "hmset", "publish"}
    /\ deletes \in 0..MaxDeletes /\ delete \in {"idle", "zrem", "del", "publish"}
    /\ subscribed \in BOOLEAN /\ inbox \in BOOLEAN /\ has_update \in BOOLEAN
    /\ caster \in {"sleep", "rank", "details", "send"} /\ fetched \in Shown
    /\ client \in [Client -> {"new", "rank", "details", "send", "on", "off"}]
    /\ snapshot \in [Client -> Shown] /\ view \in [Client -> Shown]
    /\ failures \in 0..MaxFailures
    /\ missed \in BOOLEAN /\ behind \in [Client -> BOOLEAN] /\ mixed \in BOOLEAN

\* What the row will be read as.
Current == IF rank = NoRow THEN Nothing ELSE board

\* The row has changed, and the broadcast thread will hear of it.
Announced ==
    \/ finalize \in {"hmset", "publish"} \/ delete \in {"del", "publish"}
    \/ inbox \/ has_update

\* No update is lost between Redis and the browser: a client that does not show
\* the present row will be told, because the change has yet to be published,
\* the message or the flag has yet to be seen, or the broadcast is under way.
\* There are two exceptions.  An update can be missed for all: it was written and
\* its publish failed or found no subscriber, or the fetch for it failed; the
\* next one that arrives makes up for it.  And a client can be left behind: the
\* first snapshot, fetched before a broadcast and sent after it, takes the newer
\* row away again until the next broadcast.
UpToDate ==
    \A c \in Client :
        client[c] = "on" /\ view[c] # Current =>
            Announced \/ caster # "sleep" \/ missed \/ behind[c]

\* The two keys of a row belong to one score, or are both gone, whenever nobody
\* is at work on them: unless a deletion and a score overlapped, or one of them
\* broke off half way.
RowIsWhole == finalize = "idle" /\ delete = "idle" /\ ~mixed => rank = details

\* A client that shows an old row does not go on showing it.
Stale(c) == client[c] = "on" /\ view[c] # Current /\ ~missed /\ ~behind[c]

ClientsCatchUp == \A c \in Client : Stale(c) ~> ~Stale(c)
=============================================================================
