----------------------------- MODULE BotWorker -----------------------------
(***************************************************************************)
(* The bot worker (services/bot-worker/src: worker.cpp, main.cpp, and the  *)
(* life of a bot in bot.cpp).                                              *)
(*                                                                         *)
(* Three kinds of threads share fleets_ (under mu_) and timer_threads_     *)
(* (under timer_mu_, which timer_cv_ also uses):                           *)
(*   - the consumer polls the command topic; an assignment replaces the    *)
(*     fleet of its run_id and arms a timer, a "stop" removes the fleet;   *)
(*   - each timer waits for the duration of its assignment and then stops  *)
(*     the fleet of the run_id, whichever that is by then;                 *)
(*   - main, on a signal, stops the two and then what is left of fleets_.  *)
(* A critical section of mu_ is one step.  timer_mu_ is held across steps  *)
(* and is modelled by its holder.                                          *)
(*                                                                         *)
(* One run_id; its fleets are numbered by their assignments, and a fleet   *)
(* is the set of its bots as a whole.  Timers and deadlines carry no       *)
(* durations here: a wait ends some time.                                  *)
(*                                                                         *)
(* The "Bug..." operators are seeded faults, used by no definition here.   *)
(***************************************************************************)
EXTENDS Integers, FiniteSets

CONSTANTS
    MaxFleets,    \* bound: assignments received
    MaxStops      \* bound: "stop" messages received

ASSUME BoundsAssumption == MaxFleets \in Nat \ {0} /\ MaxStops \in Nat

Fleet  == 1..MaxFleets
Nobody == 0
Main   == -1

VARIABLES
    running,      \* running_
    consumer,     \* where the consumer thread is
    last,         \* the kind of the message it handles or has handled last
    count,        \* assignments received; the fleet being handled
    stopsSeen,    \* "stop" messages received
    held,         \* the fleet the consumer has taken out of fleets_ and stops
    listed,       \* fleets_[run_id], or Nobody
    alive,        \* the fleets whose bots are running
    timer,        \* timer[f]: where the timer thread of assignment f is
    victim,       \* victim[f]: the fleet that timer f has taken out and stops
    timer_mu,     \* the holder of timer_mu_: Nobody, Main or a timer
    main          \* where main is

consumerVars == <<consumer, last, count, stopsSeen, held>>
timerVars    == <<timer, victim>>
vars == <<running, consumer, last, count, stopsSeen, held, listed, alive,
          timer, victim, timer_mu, main>>

Init ==
    /\ running = TRUE
    /\ consumer = "poll" /\ last = "none" /\ count = 0 /\ stopsSeen = 0 /\ held = Nobody
    /\ listed = Nobody
    /\ alive = {}
    /\ timer = [f \in Fleet |-> "none"]
    /\ victim = [f \in Fleet |-> Nobody]
    /\ timer_mu = Nobody
    /\ main = "run"

\* stop_fleet: the fleet is moved out of the map under mu_ ...
BugTaken == Nobody

Taken == listed

\* ... and its bots are joined after mu_ has been released.
Joined(f) == alive \ {f}

-----------------------------------------------------------------------------
(* The consumer thread.                                                    *)

ReceiveAssignment ==
    /\ consumer = "poll" /\ running /\ count < MaxFleets      \* the bound
    /\ consumer' = "take"
    /\ last' = "assignment"
    /\ count' = count + 1
    /\ UNCHANGED <<running, stopsSeen, held, listed, alive, timerVars, timer_mu, main>>

ReceiveStop ==
    /\ consumer = "poll" /\ running /\ stopsSeen < MaxStops   \* the bound
    /\ consumer' = "take"
    /\ last' = "stop"
    /\ stopsSeen' = stopsSeen + 1
    /\ UNCHANGED <<running, count, held, listed, alive, timerVars, timer_mu, main>>

ConsumerExits ==
    /\ consumer = "poll" /\ ~ running
    /\ consumer' = "exited"
    /\ UNCHANGED <<running, last, count, stopsSeen, held, listed, alive, timerVars, timer_mu, main>>

ConsumerTakes ==
    /\ consumer = "take"
    /\ held' = Taken
    /\ listed' = Nobody
    /\ consumer' = "join"
    /\ UNCHANGED <<running, last, count, stopsSeen, alive, timerVars, timer_mu, main>>

\* A "stop" is now done; an assignment goes on to build its fleet.
BugConsumerJoins ==
    /\ consumer = "join"
    /\ held' = Nobody
    /\ consumer' = IF last = "stop" THEN "poll" ELSE "build"
    /\ UNCHANGED <<running, last, count, stopsSeen, listed, alive, timerVars, timer_mu, main>>

ConsumerJoins ==
    /\ consumer = "join"
    /\ alive' = Joined(held)
    /\ held' = Nobody
    /\ consumer' = IF last = "stop" THEN "poll" ELSE "build"
    /\ UNCHANGED <<running, last, count, stopsSeen, listed, timerVars, timer_mu, main>>

\* add_bot starts every bot as it is added.
BuildFleet ==
    /\ consumer = "build"
    /\ alive' = alive \cup {count}
    /\ consumer' = "list"
    /\ UNCHANGED <<running, last, count, stopsSeen, held, listed, timerVars, timer_mu, main>>

\* The map's assignment destroys the fleet it replaces, if there is one, and
\* the destructor stops it.
ListFleet ==
    /\ consumer = "list"
    /\ alive' = Joined(listed)
    /\ listed' = count
    /\ consumer' = "arm"
    /\ UNCHANGED <<running, last, count, stopsSeen, held, timerVars, timer_mu, main>>

\* The timer of an earlier assignment is taken for that of this one.
BugArmTimer ==
    /\ consumer = "arm"
    /\ timer_mu = Nobody
    /\ timer' = IF \A f \in Fleet : timer[f] \in {"none", "done"}
                THEN [timer EXCEPT ![count] = "starting"] ELSE timer
    /\ consumer' = "poll"
    /\ UNCHANGED <<running, last, count, stopsSeen, held, listed, alive, victim, timer_mu, main>>

\* Every assignment of the orchestrator has a duration, and so a timer.
ArmTimer ==
    /\ consumer = "arm"
    /\ timer_mu = Nobody
    /\ timer' = [timer EXCEPT ![count] = "starting"]
    /\ consumer' = "poll"
    /\ UNCHANGED <<running, last, count, stopsSeen, held, listed, alive, victim, timer_mu, main>>

ConsumerStep ==
    \/ ConsumerExits \/ ConsumerTakes \/ ConsumerJoins
    \/ BuildFleet \/ ListFleet \/ ArmTimer

-----------------------------------------------------------------------------
(* The timer threads: wait_for with the predicate "no longer running".     *)

TimerAt(f, l) == timer' = [timer EXCEPT ![f] = l]

\* The predicate is looked at before the wait, under timer_mu_.
TimerLocks(f) ==
    /\ timer[f] = "starting" /\ timer_mu = Nobody
    /\ IF running THEN TimerAt(f, "checked") /\ timer_mu' = f
                  ELSE TimerAt(f, "done") /\ UNCHANGED timer_mu
    /\ UNCHANGED <<running, consumerVars, listed, alive, victim, main>>

BugTimerWaits(f) ==
    /\ timer[f] = "checked"
    /\ TimerAt(f, "waiting")
    /\ UNCHANGED <<running, consumerVars, listed, alive, victim, timer_mu, main>>

\* The wait begins and releases timer_mu_; a notification before is lost.
TimerWaits(f) ==
    /\ timer[f] = "checked"
    /\ TimerAt(f, "waiting")
    /\ timer_mu' = Nobody
    /\ UNCHANGED <<running, consumerVars, listed, alive, victim, main>>

TimesOut(f) ==
    /\ timer[f] = "waiting"
    /\ TimerAt(f, "awake")
    /\ UNCHANGED <<running, consumerVars, listed, alive, victim, timer_mu, main>>

\* wait_for takes timer_mu_ again and returns the predicate.
TimerWakes(f) ==
    /\ timer[f] = "awake" /\ timer_mu = Nobody
    /\ TimerAt(f, IF running THEN "take" ELSE "done")
    /\ UNCHANGED <<running, consumerVars, listed, alive, victim, timer_mu, main>>

TimerTakes(f) ==
    /\ timer[f] = "take"
    /\ victim' = [victim EXCEPT ![f] = Taken]
    /\ listed' = Nobody
    /\ TimerAt(f, "join")
    /\ UNCHANGED <<running, consumerVars, alive, timer_mu, main>>

TimerJoins(f) ==
    /\ timer[f] = "join"
    /\ alive' = Joined(victim[f])
    /\ victim' = [victim EXCEPT ![f] = Nobody]
    /\ TimerAt(f, "done")
    /\ UNCHANGED <<running, consumerVars, listed, timer_mu, main>>

TimerStep(f) ==
    \/ TimerLocks(f) \/ TimerWaits(f) \/ TimesOut(f)
    \/ TimerWakes(f) \/ TimerTakes(f) \/ TimerJoins(f)

\* The bots of a fleet end by themselves at their deadline; the fleet stays
\* in the map until somebody takes it out.
BotsEnd(f) ==
    /\ f \in alive
    /\ alive' = alive \ {f}
    /\ UNCHANGED <<running, consumerVars, listed, timerVars, timer_mu, main>>

-----------------------------------------------------------------------------
(* main: stop() and wait().                                                *)

\* SIGINT or SIGTERM.
Shutdown ==
    /\ main = "run"
    /\ running' = FALSE
    /\ main' = "notify"
    /\ UNCHANGED <<consumerVars, listed, alive, timerVars, timer_mu>>

NotifyAll ==
    /\ main = "notify"
    /\ timer' = [f \in Fleet |-> IF timer[f] = "waiting" THEN "awake" ELSE timer[f]]
    /\ main' = "join_consumer"
    /\ UNCHANGED <<running, consumerVars, listed, alive, victim, timer_mu>>

JoinConsumer ==
    /\ main = "join_consumer" /\ consumer = "exited"
    /\ main' = "lock"
    /\ UNCHANGED <<running, consumerVars, listed, alive, timerVars, timer_mu>>

LockTimers ==
    /\ main = "lock" /\ timer_mu = Nobody
    /\ timer_mu' = Main
    /\ main' = "join_timers"
    /\ UNCHANGED <<running, consumerVars, listed, alive, timerVars>>

\* The vector is walked in order; what counts is that all have returned.
BugJoinTimers ==
    /\ main = "join_timers"
    /\ timer_mu' = Nobody
    /\ main' = "wait"
    /\ UNCHANGED <<running, consumerVars, listed, alive, timerVars>>

JoinTimers ==
    /\ main = "join_timers"
    /\ \A f \in Fleet : timer[f] \in {"none", "done"}
    /\ timer_mu' = Nobody
    /\ main' = "wait"
    /\ UNCHANGED <<running, consumerVars, listed, alive, timerVars>>

WaitClears ==
    /\ main = "wait"
    /\ alive' = Joined(listed)
    /\ listed' = Nobody
    /\ main' = "stopped"
    /\ UNCHANGED <<running, consumerVars, timerVars, timer_mu>>

MainStep == NotifyAll \/ JoinConsumer \/ LockTimers \/ JoinTimers \/ WaitClears

-----------------------------------------------------------------------------

Next ==
    \/ ReceiveAssignment \/ ReceiveStop \/ ConsumerStep
    \/ \E f \in Fleet : TimerStep(f) \/ BotsEnd(f)
    \/ Shutdown \/ MainStep

\* Threads run and waits have timeouts; messages and the signal need not come,
\* and that bots keep to their deadline is not relied on.
Fairness ==
    /\ WF_vars(ConsumerStep)
    /\ WF_vars(MainStep)
    /\ \A f \in Fleet : WF_vars(TimerStep(f))

Spec == Init /\ [][Next]_vars /\ Fairness

-----------------------------------------------------------------------------
(* Properties                                                              *)

BeingStopped == {held} \cup {victim[f] : f \in Fleet}

\* timer_mu_ has the holder that the threads' positions say.
TypeOK ==
    /\ running \in BOOLEAN
    /\ consumer \in {"poll", "take", "join", "build", "list", "arm", "exited"}
    /\ last \in {"none", "assignment", "stop"}
    /\ count \in 0..MaxFleets
    /\ stopsSeen \in 0..MaxStops
    /\ held \in Fleet \cup {Nobody}
    /\ listed \in Fleet \cup {Nobody}
    /\ alive \in SUBSET Fleet
    /\ timer \in [Fleet -> {"none", "starting", "checked", "waiting", "awake", "take",
                            "join", "done"}]
    /\ victim \in [Fleet -> Fleet \cup {Nobody}]
    /\ timer_mu \in Fleet \cup {Nobody, Main}
    /\ (timer_mu = Main) <=> (main = "join_timers")
    /\ \A f \in Fleet : (timer_mu = f) <=> (timer[f] = "checked")
    /\ main \in {"run", "notify", "join_consumer", "lock", "join_timers", "wait", "stopped"}

\* No fleet is out of reach: bots that run belong to the fleet in the map, to
\* one that a thread is stopping, or to the one the consumer is building.
\* Nothing else would ever join them.
NoFleetLost ==
    \A f \in alive : f = listed \/ f \in BeingStopped \/ (f = count /\ consumer = "list")

\* Load is never doubled: apart from fleets that a thread is stopping, at most
\* one fleet sends orders, and none once a "stop" has been handled.
OneFleet ==
    /\ Cardinality(alive \ BeingStopped) <= 1
    /\ consumer = "poll" /\ last = "stop" => alive \subseteq BeingStopped

\* When main leaves wait() the Worker is destroyed; by then no thread of it is
\* left and no bot runs.
CleanStop ==
    main = "stopped" =>
        /\ consumer = "exited" /\ alive = {} /\ listed = Nobody
        /\ \A f \in Fleet : timer[f] \in {"none", "done"}

\* Every fleet is stopped by a thread of the worker, whether or not its bots
\* look at their deadline and a "stop" ever comes: a timer, of this fleet or of
\* another, the consumer, or main finds it in the map, however they race.  Only a
\* shutdown that hangs in its join leaves bots to themselves.
FleetsAreStopped ==
    \/ <>[](main = "join_timers")
    \/ \A f \in Fleet : f \in alive ~> f \notin alive

\* main.cpp:54 reports "bot worker stopped" at the end of every shutdown: it
\* should come to that.
ShutdownEnds == main = "notify" ~> main = "stopped"
=============================================================================
