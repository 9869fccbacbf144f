-------------------------- MODULE BotWorkerProofs --------------------------
(***************************************************************************)
(* What is proved about BotWorker for any number of assignments and stops. *)
(*                                                                         *)
(* NoFleetLost needs to know who may hold a fleet and when (OwnerInv): a   *)
(* thread that takes a fleet holds none, and when the consumer builds and  *)
(* lists one the map has none.  CleanStop needs the order of a shutdown    *)
(* (MainInv): who has returned by which step of main.                      *)
(***************************************************************************)
EXTENDS BotWorker, FiniteSetTheorems, TLAPS

\* The consumer is between receiving an assignment and arming its timer.
Handling == consumer \in {"take", "join", "build", "list", "arm"} /\ last = "assignment"

OwnerInv ==
    /\ held # Nobody => consumer = "join"
    /\ \A f \in Fleet : victim[f] # Nobody => timer[f] = "join"
    /\ listed # Nobody => consumer \in {"arm", "poll", "take", "exited"}
    /\ listed # Nobody /\ last = "stop" => consumer = "take"
    /\ consumer \in {"build", "list", "arm"} => last = "assignment"
    /\ last = "none" => consumer \in {"poll", "exited"}
    /\ last = "assignment" => count \in Fleet
    /\ \A f \in Fleet : f > count \/ (f = count /\ Handling) => timer[f] = "none"

MainInv ==
    /\ running <=> main = "run"
    /\ main \in {"lock", "join_timers", "wait", "stopped"} => consumer = "exited"
    /\ main \in {"wait", "stopped"} => \A f \in Fleet : timer[f] \in {"none", "done"}
    /\ main = "stopped" => alive = {} /\ listed = Nobody

IInv == TypeOK /\ OwnerInv /\ MainInv /\ NoFleetLost

\* The sentinels are no fleets.
LEMMA FleetFacts ==
    /\ Fleet \subseteq Nat
    /\ Nobody \notin Fleet /\ Main \notin Fleet /\ Nobody # Main
  BY BoundsAssumption DEF Fleet, Nobody, Main

-----------------------------------------------------------------------------
(* The steps                                                               *)

\* No fleet exists and nobody has begun: every part holds.
LEMMA InitInv == Init => IInv
  <1> SUFFICES ASSUME Init PROVE IInv
    OBVIOUS
  <1> USE FleetFacts, BoundsAssumption
  <1>1. TypeOK
    BY DEF Init, TypeOK
  <1>2. OwnerInv /\ MainInv /\ NoFleetLost
    BY DEF Init, OwnerInv, Handling, MainInv, NoFleetLost
  <1> QED  BY <1>1, <1>2 DEF IInv

\* The consumer holds nothing when it takes the next assignment up.
LEMMA ReceiveAssignmentInv == IInv /\ ReceiveAssignment => IInv'
  <1> SUFFICES ASSUME IInv, ReceiveAssignment PROVE IInv'
    OBVIOUS
  <1> USE FleetFacts, BoundsAssumption DEF ReceiveAssignment, timerVars
  <1>1. TypeOK'
    BY DEF IInv, TypeOK
  <1>2. count \in Nat /\ count' \in Fleet
    BY DEF IInv, TypeOK, Fleet
  <1>3. OwnerInv'
    BY <1>2 DEF IInv, OwnerInv, Handling
  <1>4. MainInv'
    BY DEF IInv, MainInv
  <1>5. NoFleetLost'
    BY DEF IInv, NoFleetLost, BeingStopped
  <1> QED  BY <1>1, <1>3, <1>4, <1>5 DEF IInv

\* A stop message only makes the consumer take the listed fleet out.
LEMMA ReceiveStopInv == IInv /\ ReceiveStop => IInv'
  <1> SUFFICES ASSUME IInv, ReceiveStop PROVE IInv'
    OBVIOUS
  <1> USE FleetFacts, BoundsAssumption DEF ReceiveStop, timerVars
  <1>1. TypeOK'
    BY DEF IInv, TypeOK
  <1>2. OwnerInv'
    BY DEF IInv, OwnerInv, Handling
  <1>3. MainInv'
    BY DEF IInv, MainInv
  <1>4. NoFleetLost'
    BY DEF IInv, NoFleetLost, BeingStopped
  <1> QED  BY <1>1, <1>2, <1>3, <1>4 DEF IInv

\* What leaves the map for the consumer was held by nobody else.
LEMMA ConsumerTakesInv == IInv /\ ConsumerTakes => IInv'
  <1> SUFFICES ASSUME IInv, ConsumerTakes PROVE IInv'
    OBVIOUS
  <1> USE FleetFacts DEF ConsumerTakes, Taken, timerVars
  <1>1. TypeOK'
    BY DEF IInv, TypeOK
  <1>2. OwnerInv'
    BY DEF IInv, OwnerInv, Handling
  <1>3. MainInv'
    BY DEF IInv, MainInv
  <1>4. NoFleetLost'
    <2>1. held = Nobody
      BY DEF IInv, OwnerInv
    <2>2. \A f \in alive : f \in Fleet
      BY DEF IInv, TypeOK
    <2> QED  BY <2>1, <2>2 DEF IInv, NoFleetLost, BeingStopped
  <1> QED  BY <1>1, <1>2, <1>3, <1>4 DEF IInv

\* The fleet the consumer took is stopped before the consumer goes on.
LEMMA ConsumerJoinsInv == IInv /\ ConsumerJoins => IInv'
  <1> SUFFICES ASSUME IInv, ConsumerJoins PROVE IInv'
    OBVIOUS
  <1> USE FleetFacts DEF ConsumerJoins, Joined, timerVars
  <1>1. TypeOK'
    BY DEF IInv, TypeOK
  <1>2. OwnerInv'
    BY DEF IInv, TypeOK, OwnerInv, Handling
  <1>3. MainInv'
    BY DEF IInv, MainInv
  <1>4. NoFleetLost'
    BY DEF IInv, NoFleetLost, BeingStopped
  <1> QED  BY <1>1, <1>2, <1>3, <1>4 DEF IInv

\* A new fleet is the consumer's alone until it is listed.
LEMMA BuildFleetInv == IInv /\ BuildFleet => IInv'
  <1> SUFFICES ASSUME IInv, BuildFleet PROVE IInv'
    OBVIOUS
  <1> USE FleetFacts DEF BuildFleet, timerVars
  <1>1. last = "assignment" /\ count \in Fleet
    BY DEF IInv, OwnerInv
  <1>2. TypeOK'
    BY <1>1 DEF IInv, TypeOK
  <1>3. OwnerInv'
    BY <1>1 DEF IInv, OwnerInv, Handling
  <1>4. MainInv'
    BY DEF IInv, MainInv
  <1>5. NoFleetLost'
    BY DEF IInv, NoFleetLost, BeingStopped
  <1> QED  BY <1>2, <1>3, <1>4, <1>5 DEF IInv

\* The map has no entry when the fleet is listed, so none is dropped.
LEMMA ListFleetInv == IInv /\ ListFleet => IInv'
  <1> SUFFICES ASSUME IInv, ListFleet PROVE IInv'
    OBVIOUS
  <1> USE FleetFacts DEF ListFleet, Joined, timerVars
  <1>1. last = "assignment" /\ count \in Fleet /\ listed = Nobody
    BY DEF IInv, OwnerInv
  <1>2. TypeOK'
    BY <1>1 DEF IInv, TypeOK
  <1>3. OwnerInv'
    BY <1>1 DEF IInv, OwnerInv, Handling
  <1>4. MainInv'
    BY DEF IInv, MainInv
  <1>5. NoFleetLost'
    BY <1>1 DEF IInv, TypeOK, NoFleetLost, BeingStopped
  <1> QED  BY <1>2, <1>3, <1>4, <1>5 DEF IInv

\* A timer starts only while main has not yet closed timer_mu_.
LEMMA ArmTimerInv == IInv /\ ArmTimer => IInv'
  <1> SUFFICES ASSUME IInv, ArmTimer PROVE IInv'
    OBVIOUS
  <1> USE FleetFacts DEF ArmTimer, timerVars
  <1>1. /\ last = "assignment" /\ count \in Fleet /\ timer[count] = "none"
        /\ main \notin {"lock", "join_timers", "wait", "stopped"}
    BY DEF IInv, OwnerInv, Handling, MainInv
  <1>2. TypeOK'
    BY <1>1 DEF IInv, TypeOK
  <1>3. OwnerInv'
    BY <1>1 DEF IInv, TypeOK, OwnerInv, Handling
  <1>4. MainInv'
    BY <1>1 DEF IInv, TypeOK, MainInv
  <1>5. NoFleetLost'
    BY <1>1 DEF IInv, TypeOK, NoFleetLost, BeingStopped
  <1> QED  BY <1>2, <1>3, <1>4, <1>5 DEF IInv

\* The consumer leaves its loop holding nothing.
LEMMA ConsumerExitsInv == IInv /\ ConsumerExits => IInv'
  <1> SUFFICES ASSUME IInv, ConsumerExits PROVE IInv'
    OBVIOUS
  <1> USE FleetFacts DEF ConsumerExits, timerVars
  <1>2. TypeOK'
    BY DEF IInv, TypeOK
  <1>3. OwnerInv'
    BY DEF IInv, TypeOK, OwnerInv, Handling
  <1>4. MainInv'
    BY DEF IInv, TypeOK, MainInv
  <1>5. NoFleetLost'
    BY DEF IInv, TypeOK, NoFleetLost, BeingStopped
  <1> QED  BY <1>2, <1>3, <1>4, <1>5 DEF IInv

\* A timer that takes timer_mu_ holds no fleet.
LEMMA TimerLocksInv == \A f \in Fleet : IInv /\ TimerLocks(f) => IInv'
  <1> SUFFICES ASSUME NEW f \in Fleet, IInv, TimerLocks(f) PROVE IInv'
    OBVIOUS
  <1> USE FleetFacts DEF TimerLocks, consumerVars, TimerAt
  <1>1. main \notin {"wait", "stopped"} /\ victim[f] = Nobody
    BY DEF IInv, OwnerInv, MainInv
  <1>2. TypeOK'
    BY <1>1 DEF IInv, TypeOK
  <1>3. OwnerInv'
    BY <1>1 DEF IInv, TypeOK, OwnerInv, Handling
  <1>4. MainInv'
    BY <1>1 DEF IInv, TypeOK, MainInv
  <1>5. NoFleetLost'
    BY <1>1 DEF IInv, TypeOK, NoFleetLost, BeingStopped
  <1> QED  BY <1>2, <1>3, <1>4, <1>5 DEF IInv

\* A timer that begins its wait gives the mutex back.
LEMMA TimerWaitsInv == \A f \in Fleet : IInv /\ TimerWaits(f) => IInv'
  <1> SUFFICES ASSUME NEW f \in Fleet, IInv, TimerWaits(f) PROVE IInv'
    OBVIOUS
  <1> USE FleetFacts DEF TimerWaits, consumerVars, TimerAt
  <1>1. main \notin {"wait", "stopped"} /\ victim[f] = Nobody
    BY DEF IInv, OwnerInv, MainInv
  <1>2. TypeOK'
    BY <1>1 DEF IInv, TypeOK
  <1>3. OwnerInv'
    BY <1>1 DEF IInv, TypeOK, OwnerInv, Handling
  <1>4. MainInv'
    BY <1>1 DEF IInv, TypeOK, MainInv
  <1>5. NoFleetLost'
    BY <1>1 DEF IInv, TypeOK, NoFleetLost, BeingStopped
  <1> QED  BY <1>2, <1>3, <1>4, <1>5 DEF IInv

\* The end of a wait changes no owner.
LEMMA TimesOutInv == \A f \in Fleet : IInv /\ TimesOut(f) => IInv'
  <1> SUFFICES ASSUME NEW f \in Fleet, IInv, TimesOut(f) PROVE IInv'
    OBVIOUS
  <1> USE FleetFacts DEF TimesOut, consumerVars, TimerAt
  <1>1. main \notin {"wait", "stopped"} /\ victim[f] = Nobody
    BY DEF IInv, OwnerInv, MainInv
  <1>2. TypeOK'
    BY <1>1 DEF IInv, TypeOK
  <1>3. OwnerInv'
    BY <1>1 DEF IInv, TypeOK, OwnerInv, Handling
  <1>4. MainInv'
    BY <1>1 DEF IInv, TypeOK, MainInv
  <1>5. NoFleetLost'
    BY <1>1 DEF IInv, TypeOK, NoFleetLost, BeingStopped
  <1> QED  BY <1>2, <1>3, <1>4, <1>5 DEF IInv

\* A timer that wakes takes the mutex and holds no fleet yet.
LEMMA TimerWakesInv == \A f \in Fleet : IInv /\ TimerWakes(f) => IInv'
  <1> SUFFICES ASSUME NEW f \in Fleet, IInv, TimerWakes(f) PROVE IInv'
    OBVIOUS
  <1> USE FleetFacts DEF TimerWakes, consumerVars, TimerAt
  <1>1. main \notin {"wait", "stopped"} /\ victim[f] = Nobody
    BY DEF IInv, OwnerInv, MainInv
  <1>2. TypeOK'
    BY <1>1 DEF IInv, TypeOK
  <1>3. OwnerInv'
    BY <1>1 DEF IInv, TypeOK, OwnerInv, Handling
  <1>4. MainInv'
    BY <1>1 DEF IInv, TypeOK, MainInv
  <1>5. NoFleetLost'
    BY <1>1 DEF IInv, TypeOK, NoFleetLost, BeingStopped
  <1> QED  BY <1>2, <1>3, <1>4, <1>5 DEF IInv

\* What a timer takes out of the map was held by nobody else.
LEMMA TimerTakesInv == \A f \in Fleet : IInv /\ TimerTakes(f) => IInv'
  <1> SUFFICES ASSUME NEW f \in Fleet, IInv, TimerTakes(f) PROVE IInv'
    OBVIOUS
  <1> USE FleetFacts DEF TimerTakes, consumerVars, TimerAt, Taken
  <1>1. main \notin {"wait", "stopped"} /\ victim[f] = Nobody
    BY DEF IInv, OwnerInv, MainInv
  <1>2. TypeOK'
    BY <1>1 DEF IInv, TypeOK
  <1>3. OwnerInv'
    BY <1>1 DEF IInv, TypeOK, OwnerInv, Handling
  <1>4. MainInv'
    BY <1>1 DEF IInv, TypeOK, MainInv
  <1>5. NoFleetLost'
    BY <1>1 DEF IInv, TypeOK, NoFleetLost, BeingStopped
  <1> QED  BY <1>2, <1>3, <1>4, <1>5 DEF IInv

\* The fleet a timer took is stopped before its thread returns.
LEMMA TimerJoinsInv == \A f \in Fleet : IInv /\ TimerJoins(f) => IInv'
  <1> SUFFICES ASSUME NEW f \in Fleet, IInv, TimerJoins(f) PROVE IInv'
    OBVIOUS
  <1> USE FleetFacts DEF TimerJoins, consumerVars, TimerAt, Joined
  <1>1. main \notin {"wait", "stopped"}
    BY DEF IInv, MainInv
  <1>2. TypeOK'
    <2>1. alive' \in SUBSET Fleet /\ victim' \in [Fleet -> Fleet \cup {Nobody}]
      BY DEF IInv, TypeOK
    <2>2. /\ timer[f] = "join" /\ timer' = [timer EXCEPT ![f] = "done"]
          /\ timer \in [Fleet -> {"none", "starting", "checked", "waiting", "awake", "take",
                                  "join", "done"}]
      BY DEF IInv, TypeOK
    <2>3. /\ timer' \in [Fleet -> {"none", "starting", "checked", "waiting", "awake", "take",
                                   "join", "done"}]
          /\ \A g \in Fleet : (timer'[g] = "checked") <=> (timer[g] = "checked")
      BY <2>2
    <2>4. UNCHANGED <<running, consumer, last, count, stopsSeen, held, listed, timer_mu, main>>
      OBVIOUS
    <2> QED  BY <2>1, <2>3, <2>4 DEF IInv, TypeOK
  <1>3. OwnerInv'
    BY <1>1 DEF IInv, TypeOK, OwnerInv, Handling
  <1>4. MainInv'
    BY <1>1 DEF IInv, TypeOK, MainInv
  <1>5. NoFleetLost'
    BY <1>1 DEF IInv, TypeOK, NoFleetLost, BeingStopped
  <1> QED  BY <1>2, <1>3, <1>4, <1>5 DEF IInv

\* Bots that reach their deadline leave the owners as they are.
LEMMA BotsEndInv == \A f \in Fleet : IInv /\ BotsEnd(f) => IInv'
  <1> SUFFICES ASSUME NEW f \in Fleet, IInv, BotsEnd(f) PROVE IInv'
    OBVIOUS
  <1> USE FleetFacts DEF BotsEnd, consumerVars, timerVars
  <1>2. TypeOK'
    BY DEF IInv, TypeOK
  <1>3. OwnerInv'
    BY DEF IInv, TypeOK, OwnerInv, Handling
  <1>4. MainInv'
    BY DEF IInv, TypeOK, MainInv
  <1>5. NoFleetLost'
    BY DEF IInv, TypeOK, NoFleetLost, BeingStopped
  <1> QED  BY <1>2, <1>3, <1>4, <1>5 DEF IInv

\* The signal touches no fleet.
LEMMA ShutdownInv == IInv /\ Shutdown => IInv'
  <1> SUFFICES ASSUME IInv, Shutdown PROVE IInv'
    OBVIOUS
  <1> USE FleetFacts DEF Shutdown, consumerVars, timerVars
  <1>2. TypeOK'
    BY DEF IInv, TypeOK
  <1>3. OwnerInv'
    BY DEF IInv, TypeOK, OwnerInv, Handling
  <1>4. MainInv'
    BY DEF IInv, TypeOK, MainInv
  <1>5. NoFleetLost'
    BY DEF IInv, TypeOK, NoFleetLost, BeingStopped
  <1> QED  BY <1>2, <1>3, <1>4, <1>5 DEF IInv

\* A notification wakes timers and moves no fleet.
LEMMA NotifyAllInv == IInv /\ NotifyAll => IInv'
  <1> SUFFICES ASSUME IInv, NotifyAll PROVE IInv'
    OBVIOUS
  <1> USE FleetFacts DEF NotifyAll, consumerVars, timerVars
  <1>2. TypeOK'
    BY DEF IInv, TypeOK
  <1>3. OwnerInv'
    BY DEF IInv, TypeOK, OwnerInv, Handling
  <1>4. MainInv'
    BY DEF IInv, TypeOK, MainInv
  <1>5. NoFleetLost'
    BY DEF IInv, TypeOK, NoFleetLost, BeingStopped
  <1> QED  BY <1>2, <1>3, <1>4, <1>5 DEF IInv

\* After the join of the consumer only timers and main touch fleets_.
LEMMA JoinConsumerInv == IInv /\ JoinConsumer => IInv'
  <1> SUFFICES ASSUME IInv, JoinConsumer PROVE IInv'
    OBVIOUS
  <1> USE FleetFacts DEF JoinConsumer, consumerVars, timerVars
  <1>2. TypeOK'
    BY DEF IInv, TypeOK
  <1>3. OwnerInv'
    BY DEF IInv, TypeOK, OwnerInv, Handling
  <1>4. MainInv'
    BY DEF IInv, TypeOK, MainInv
  <1>5. NoFleetLost'
    BY DEF IInv, TypeOK, NoFleetLost, BeingStopped
  <1> QED  BY <1>2, <1>3, <1>4, <1>5 DEF IInv

\* Main takes timer_mu_ only once the consumer is gone.
LEMMA LockTimersInv == IInv /\ LockTimers => IInv'
  <1> SUFFICES ASSUME IInv, LockTimers PROVE IInv'
    OBVIOUS
  <1> USE FleetFacts DEF LockTimers, consumerVars, timerVars
  <1>2. TypeOK'
    BY DEF IInv, TypeOK
  <1>3. OwnerInv'
    BY DEF IInv, TypeOK, OwnerInv, Handling
  <1>4. MainInv'
    BY DEF IInv, TypeOK, MainInv
  <1>5. NoFleetLost'
    BY DEF IInv, TypeOK, NoFleetLost, BeingStopped
  <1> QED  BY <1>2, <1>3, <1>4, <1>5 DEF IInv

\* After the join of the timers main is alone.
LEMMA JoinTimersInv == IInv /\ JoinTimers => IInv'
  <1> SUFFICES ASSUME IInv, JoinTimers PROVE IInv'
    OBVIOUS
  <1> USE FleetFacts DEF JoinTimers, consumerVars, timerVars
  <1>2. TypeOK'
    BY DEF IInv, TypeOK
  <1>3. OwnerInv'
    BY DEF IInv, TypeOK, OwnerInv, Handling
  <1>4. MainInv'
    BY DEF IInv, TypeOK, MainInv
  <1>5. NoFleetLost'
    BY DEF IInv, TypeOK, NoFleetLost, BeingStopped
  <1> QED  BY <1>2, <1>3, <1>4, <1>5 DEF IInv

\* wait() clears a map that no thread can touch any more.
LEMMA WaitClearsInv == IInv /\ WaitClears => IInv'
  <1> SUFFICES ASSUME IInv, WaitClears PROVE IInv'
    OBVIOUS
  <1> USE FleetFacts DEF WaitClears, consumerVars, timerVars, Joined
  <1>1. alive' = {}
    <2>1. held = Nobody /\ \A f \in Fleet : victim[f] = Nobody
      BY DEF IInv, OwnerInv, MainInv
    <2>2. \A f \in alive : f = listed
      BY <2>1 DEF IInv, TypeOK, NoFleetLost, BeingStopped, MainInv
    <2> QED  BY <2>2
  <1>2. TypeOK'
    BY <1>1 DEF IInv, TypeOK
  <1>3. OwnerInv'
    BY <1>1 DEF IInv, TypeOK, OwnerInv, Handling
  <1>4. MainInv'
    BY <1>1 DEF IInv, TypeOK, MainInv
  <1>5. NoFleetLost'
    BY <1>1 DEF IInv, TypeOK, NoFleetLost, BeingStopped
  <1> QED  BY <1>2, <1>3, <1>4, <1>5 DEF IInv

\* A step that changes nothing keeps the invariant.
LEMMA StutterInv == IInv /\ UNCHANGED vars => IInv'
  BY DEF vars, consumerVars, timerVars, IInv, TypeOK, OwnerInv, Handling, MainInv,
         NoFleetLost, BeingStopped

\* Every step keeps the invariant: the cases of Next.
LEMMA NextInv == IInv /\ [Next]_vars => IInv'
  <1>1. IInv /\ ConsumerStep => IInv'
    BY ConsumerExitsInv, ConsumerTakesInv, ConsumerJoinsInv, BuildFleetInv, ListFleetInv,
       ArmTimerInv DEF ConsumerStep
  <1>2. \A f \in Fleet : IInv /\ TimerStep(f) => IInv'
    BY TimerLocksInv, TimerWaitsInv, TimesOutInv, TimerWakesInv, TimerTakesInv,
       TimerJoinsInv DEF TimerStep
  <1>3. IInv /\ MainStep => IInv'
    BY NotifyAllInv, JoinConsumerInv, LockTimersInv, JoinTimersInv, WaitClearsInv DEF MainStep
  <1> QED
    BY <1>1, <1>2, <1>3, ReceiveAssignmentInv, ReceiveStopInv, BotsEndInv, ShutdownInv,
       StutterInv DEF Next

-----------------------------------------------------------------------------
(* The theorems                                                            *)

\* The inductive invariant holds in every state of the worker.
THEOREM Invariance == Spec => []IInv
  BY InitInv, NextInv, PTL DEF Spec

\* The variables stay in their types, and timer_mu_ is held by the thread whose
\* position says so and by no other.
THEOREM TypeCorrect == Spec => []TypeOK
  <1>1. IInv => TypeOK
    BY DEF IInv
  <1> QED  BY <1>1, Invariance, PTL

\* However many timers, assignments and stops race for the fleets, no fleet
\* whose bots run is ever out of the reach of a thread that will stop it.
THEOREM FleetsHaveOwners == Spec => []NoFleetLost
  <1>1. IInv => NoFleetLost
    BY DEF IInv
  <1> QED  BY <1>1, Invariance, PTL

\* Of the fleets that nobody is stopping there is at most one: the one in the
\* map, or the one being built while the map has none.
LEMMA OneIsLeft == IInv => OneFleet
  <1> SUFFICES ASSUME IInv PROVE OneFleet
    OBVIOUS
  <1> USE FleetFacts
  <1>1. Cardinality(alive \ BeingStopped) <= 1
    <2> DEFINE only == IF consumer = "list" THEN count ELSE listed
    <2>1. \A f \in alive \ BeingStopped : f = only
      BY DEF IInv, TypeOK, OwnerInv, NoFleetLost
    <2> HIDE DEF only
    <2>2. IsFiniteSet({only}) /\ Cardinality({only}) = 1
      BY FS_Singleton
    <2>3. alive \ BeingStopped \subseteq {only}
      BY <2>1
    <2>4. Cardinality(alive \ BeingStopped) <= Cardinality({only})
      BY <2>2, <2>3, FS_Subset
    <2> QED  BY <2>2, <2>4
  <1>2. consumer = "poll" /\ last = "stop" => alive \subseteq BeingStopped
    BY DEF IInv, TypeOK, OwnerInv, NoFleetLost
  <1> QED  BY <1>1, <1>2 DEF OneFleet

\* A run_id never has the load of two fleets, and none after its "stop".
THEOREM LoadIsNeverDoubled == Spec => []OneFleet
  BY OneIsLeft, Invariance, PTL

\* When stop() and wait() have returned, no thread of the worker is left that
\* could touch it, and no bot runs.
THEOREM ShutdownIsClean == Spec => []CleanStop
  <1>1. IInv => CleanStop
    BY DEF IInv, MainInv, CleanStop
  <1> QED  BY <1>1, Invariance, PTL
=============================================================================
