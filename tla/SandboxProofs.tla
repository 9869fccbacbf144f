--------------------------- MODULE SandboxProofs ----------------------------
(***************************************************************************)
(* The status the sandbox manager shows tells the truth about the          *)
(* container, for any number of workers, builds and teardowns, but for the *)
(* four crossings ListedStatusTrue names and the exceptions that the       *)
(* worker's loop swallows.                                                 *)
(*                                                                         *)
(* ListedStatusTrue speaks of what has been written.  What makes it        *)
(* inductive is what is known of those who are about to write: a worker    *)
(* that is about to say "ready" holds the port of the container that runs, *)
(* and while a teardown is about to say "torn_down" nothing runs.          *)
(***************************************************************************)
EXTENDS Sandbox, TLAPS

\* Who is about to write the truth.
PortIsOfContainer ==
    \A w \in Workers : at[w] = "publish" => port[w] # None /\ container = port[w]

NothingRuns == \A t \in Teardown : tear[t] = "mark" => container = None

WritersInv == ~crossed => PortIsOfContainer /\ NothingRuns

IInv == TypeOK /\ WritersInv /\ ListedStatusTrue

-----------------------------------------------------------------------------
(* Types                                                                   *)

\* A worker that is done has forgotten its build.
LEMMA DoneType ==
    ASSUME TypeOK, NEW w \in Workers, Done(w)
    PROVE  /\ at' \in [Workers -> Busy \cup {"wait", "exit"}]
           /\ job' \in [Workers -> Build \cup {None}]
           /\ object' \in [Workers -> Build \cup {None}]
           /\ port' \in [Workers -> Build \cup {None}]
  BY DEF TypeOK, Done, Goto

\* The steps of enqueue_build keep the types.
LEMMA HandleType ==
    ASSUME TypeOK, NEW b \in Build, Handle(b)
    PROVE  TypeOK'
  <1>1. CASE ListBuild(b)
    BY <1>1 DEF TypeOK, ListBuild, SetStatus, workers, teardowns
  <1>2. CASE QueueBuild(b)
    <2>1. queue' \in Seq(Build)
      BY <1>2 DEF TypeOK, QueueBuild
    <2> QED  BY <1>2, <2>1 DEF TypeOK, QueueBuild, objects, workers, teardowns
  <1> QED  BY <1>1, <1>2 DEF Handle

\* The steps of a worker keep the types.
LEMMA WorkerType ==
    ASSUME TypeOK, NEW w \in Workers, WorkerStep(w)
    PROVE  TypeOK'
  <1>1. CASE TakeBuild(w)
    <2>1. Head(queue) \in Build /\ Tail(queue) \in Seq(Build)
      BY <1>1 DEF TypeOK, TakeBuild
    <2> QED  BY <1>1, <2>1 DEF TypeOK, TakeBuild, Goto, Busy, objects, teardowns
  <1>2. CASE WorkerExits(w)
    BY <1>2 DEF TypeOK, WorkerExits, Goto, objects, teardowns
  <1>3. CASE Begin(w)
    BY <1>3 DEF TypeOK, Begin, SetStatus, Goto, Busy, teardowns
  <1>4. CASE FailDeployment(w)
    BY <1>4, DoneType DEF TypeOK, FailDeployment, SetStatus, teardowns
  <1>5. CASE BuildImage(w)
    BY <1>5 DEF TypeOK, BuildImage, Goto, Busy, objects, teardowns
  <1>6. CASE RemoveOld(w)
    <2>1. container' \in Build \cup {None} /\ crossed' \in BOOLEAN
      BY <1>6 DEF TypeOK, RemoveOld
    <2> QED  BY <1>6, <2>1 DEF TypeOK, RemoveOld, Goto, Busy, objects, teardowns
  <1>7. CASE Run(w)
    <2>1. container' \in Build \cup {None} /\ crossed' \in BOOLEAN
      BY <1>7 DEF TypeOK, Run, RunContainer, KeepPod
    <2> QED  BY <1>7, <2>1 DEF TypeOK, Run, Goto, Busy, objects, teardowns
  <1>8. CASE LookUpPort(w)
    BY <1>8 DEF TypeOK, LookUpPort, Goto, Busy, objects, teardowns
  <1>9. CASE PublishReady(w)
    BY <1>9, DoneType DEF TypeOK, PublishReady, SetStatus, teardowns
  <1>10. CASE ExceptionSwallowed(w)
    <2>1. abandoned' \subseteq Build \cup {None}
      BY <1>10 DEF TypeOK, ExceptionSwallowed
    <2> QED  BY <1>10, <2>1, DoneType DEF TypeOK, ExceptionSwallowed, objects, teardowns
  <1> QED  BY <1>1, <1>2, <1>3, <1>4, <1>5, <1>6, <1>7, <1>8, <1>9, <1>10 DEF WorkerStep

\* The steps of a teardown keep the types.
LEMMA TeardownType ==
    ASSUME TypeOK, NEW t \in Teardown, TeardownStep(t)
    PROVE  TypeOK'
  <1>1. CASE LookUpTeardown(t)
    BY <1>1 DEF TypeOK, LookUpTeardown, objects, workers
  <1>2. CASE RemoveContainer(t)
    <2>1. container' \in Build \cup {None} /\ crossed' \in BOOLEAN
      BY <1>2 DEF TypeOK, RemoveContainer
    <2> QED  BY <1>2, <2>1 DEF TypeOK, RemoveContainer, objects, workers
  <1>3. CASE MarkTornDown(t)
    BY <1>3 DEF TypeOK, MarkTornDown, SetStatus, workers
  <1> QED  BY <1>1, <1>2, <1>3 DEF TeardownStep

\* Every step keeps the types.
LEMMA TypeStep ==
    ASSUME TypeOK, [Next]_vars
    PROVE  TypeOK'
  <1>1. CASE Shutdown
    BY <1>1 DEF TypeOK, Shutdown, objects, workers, teardowns
  <1>2. CASE UNCHANGED vars
    BY <1>2 DEF TypeOK, vars, objects, workers, teardowns
  <1> QED  BY <1>1, <1>2, HandleType, WorkerType, TeardownType DEF Next

-----------------------------------------------------------------------------
(* Those who are about to write                                            *)

\* A step after which nothing has crossed began when nothing had.
LEMMA CrossedStays ==
    ASSUME TypeOK, [Next]_vars, ~crossed'
    PROVE  ~crossed
  <1>1. ASSUME NEW w \in Workers, WorkerStep(w)  PROVE ~crossed
    BY <1>1 DEF WorkerStep, TakeBuild, WorkerExits, Begin, FailDeployment, ExceptionSwallowed,
        BuildImage, RemoveOld, Run, RunContainer, KeepPod, LookUpPort, PublishReady
  <1>2. ASSUME NEW t \in Teardown, TeardownStep(t)  PROVE ~crossed
    BY <1>2 DEF TeardownStep, LookUpTeardown, RemoveContainer, MarkTornDown
  <1>3. ASSUME NEW b \in Build, Handle(b)  PROVE ~crossed
    BY <1>3 DEF Handle, ListBuild, QueueBuild
  <1> QED  BY <1>1, <1>2, <1>3 DEF Next, Shutdown, vars

\* What is known of the writers is kept when the container is, nobody else
\* gets so far, and nobody forgets his port.
LEMMA WritersKept ==
    ASSUME PortIsOfContainer, NothingRuns, container' = container,
           \A w \in Workers : at'[w] = "publish" => at[w] = "publish" /\ port'[w] = port[w],
           \A t \in Teardown : tear'[t] = "mark" => tear[t] = "mark"
    PROVE  PortIsOfContainer' /\ NothingRuns'
  BY DEF PortIsOfContainer, NothingRuns

\* Nobody can have another container removed or started without crossing
\* him who is about to write.
LEMMA WritersStep ==
    ASSUME TypeOK, TypeOK', WritersInv, [Next]_vars
    PROVE  WritersInv'
  <1> SUFFICES ASSUME ~crossed'  PROVE PortIsOfContainer' /\ NothingRuns'
    BY DEF WritersInv
  <1>1. ~crossed /\ PortIsOfContainer /\ NothingRuns
    BY CrossedStays DEF WritersInv
  <1>2. ASSUME NEW w \in Workers, RemoveOld(w)
        PROVE  PortIsOfContainer' /\ NothingRuns'
    <2>1. CASE container' = container
      BY <1>1, <1>2, <2>1, WritersKept DEF RemoveOld, Goto, TypeOK, teardowns
    <2>2. CASE container' # container
      <3>1. container' = None /\ ~Crossing(object[w])
        BY <1>2, <2>2 DEF RemoveOld
      <3>2. \A v \in Workers : at[v] # "publish" /\ at'[v] # "publish"
        BY <1>2, <3>1 DEF Crossing, Exposed, RemoveOld, Goto, TypeOK
      <3> QED  BY <3>1, <3>2 DEF PortIsOfContainer, NothingRuns
    <2> QED  BY <2>1, <2>2
  <1>3. ASSUME NEW w \in Workers, Run(w)
        PROVE  PortIsOfContainer' /\ NothingRuns'
    <2>1. CASE KeepPod
      BY <1>1, <1>3, <2>1, WritersKept DEF Run, KeepPod, Goto, TypeOK, teardowns
    <2>2. CASE RunContainer(w)
      <3>1. ~Crossing(object[w])
        BY <2>2 DEF RunContainer
      <3>2. /\ \A v \in Workers : at'[v] # "publish"
            /\ \A t \in Teardown : tear'[t] # "mark"
        BY <1>3, <3>1 DEF Crossing, Exposed, Run, Goto, TypeOK, teardowns
      <3> QED  BY <3>2 DEF PortIsOfContainer, NothingRuns
    <2> QED  BY <1>3, <2>1, <2>2 DEF Run
  <1>4. ASSUME NEW w \in Workers, LookUpPort(w)
        PROVE  PortIsOfContainer' /\ NothingRuns'
    <2>1. NothingRuns'
      BY <1>1, <1>4 DEF NothingRuns, LookUpPort, teardowns
    <2>2. ASSUME NEW v \in Workers, at'[v] = "publish"
          PROVE  port'[v] # None /\ container' = port'[v]
      BY <1>1, <1>4, <2>2 DEF PortIsOfContainer, LookUpPort, Goto, TypeOK
    <2> QED  BY <2>1, <2>2 DEF PortIsOfContainer
  <1>5. ASSUME NEW w \in Workers, FailDeployment(w) \/ ExceptionSwallowed(w) \/ PublishReady(w)
        PROVE  PortIsOfContainer' /\ NothingRuns'
    BY <1>1, <1>5, WritersKept
        DEF FailDeployment, ExceptionSwallowed, PublishReady, Done, Goto, TypeOK, teardowns
  <1>6. ASSUME NEW w \in Workers,
               TakeBuild(w) \/ WorkerExits(w) \/ Begin(w) \/ BuildImage(w)
        PROVE  PortIsOfContainer' /\ NothingRuns'
    BY <1>1, <1>6, WritersKept
        DEF TakeBuild, WorkerExits, Begin, BuildImage, Goto, TypeOK, teardowns
  <1>7. ASSUME NEW t \in Teardown, RemoveContainer(t)
        PROVE  PortIsOfContainer' /\ NothingRuns'
    <2>1. container' = None
      BY <1>7 DEF RemoveContainer
    <2>2. NothingRuns'
      BY <2>1 DEF NothingRuns
    <2>3. CASE container = None
      BY <1>1, <1>7, <2>1, <2>2, <2>3 DEF PortIsOfContainer, RemoveContainer, workers
    <2>4. CASE container # None
      <3>1. ~Crossing(torn[t])
        BY <1>7, <2>1, <2>4 DEF RemoveContainer
      <3>2. \A v \in Workers : at'[v] # "publish"
        BY <1>7, <3>1 DEF Crossing, Exposed, RemoveContainer, workers
      <3> QED  BY <2>2, <3>2 DEF PortIsOfContainer
    <2> QED  BY <2>3, <2>4
  <1>8. ASSUME NEW t \in Teardown, LookUpTeardown(t) \/ MarkTornDown(t)
        PROVE  PortIsOfContainer' /\ NothingRuns'
    BY <1>1, <1>8, WritersKept DEF LookUpTeardown, MarkTornDown, TypeOK, workers
  <1>9. ASSUME NEW b \in Build, Handle(b)
        PROVE  PortIsOfContainer' /\ NothingRuns'
    BY <1>1, <1>9, WritersKept DEF Handle, ListBuild, QueueBuild, workers, teardowns
  <1>10. CASE Shutdown \/ UNCHANGED vars
    BY <1>1, <1>10, WritersKept DEF Shutdown, vars, workers, teardowns
  <1> QED  BY <1>2, <1>3, <1>4, <1>5, <1>6, <1>7, <1>8, <1>9, <1>10
              DEF Next, WorkerStep, TeardownStep

-----------------------------------------------------------------------------
(* What is listed                                                          *)

\* What ListedStatusTrue says of the object b.
Truth(b) ==
    /\ status[b] = "ready" => (container # None /\ container = endpoint[b]) \/ AtWork(b)
    /\ status[b] = "torn_down" => container = None \/ AtWork(b)

\* The truth about b stays the truth while the container stays, nobody writes
\* to b and nobody who works on it ends.
LEMMA TruthKept ==
    ASSUME NEW b, Truth(b), container' = container,
           status'[b] = status[b], endpoint'[b] = endpoint[b],
           AtWork(b) => AtWork(b)'
    PROVE  Truth(b)'
  BY DEF Truth

\* Who works on b goes on while he is at the steps that end in writing to it.
LEMMA WorkGoesOn ==
    ASSUME NEW b, AtWork(b),
           \A w \in Workers : at[w] \in {"run", "port", "publish"} /\ object[w] = b =>
               at'[w] \in {"run", "port", "publish"} /\ object'[w] = b,
           \A t \in Teardown : tear[t] = "mark" /\ torn[t] = b =>
               tear'[t] = "mark" /\ torn'[t] = b
    PROVE  AtWork(b)'
  BY DEF AtWork

\* A step of a worker.
LEMMA WorkerTruth ==
    ASSUME TypeOK, TypeOK', WritersInv, ~crossed, ~crossed', listed # None, Truth(listed),
           NEW w \in Workers, WorkerStep(w), listed \notin abandoned'
    PROVE  listed' = listed /\ Truth(listed)'
  <1>1. listed' = listed /\ listed \in Build
    BY DEF TypeOK, WorkerStep, TakeBuild, WorkerExits, Begin, FailDeployment, ExceptionSwallowed,
        BuildImage, RemoveOld, Run, LookUpPort, PublishReady, objects
  <1>2. PICK b \in Build : b = listed
    BY <1>1
  <1>3. Truth(b) /\ (Truth(b)' => Truth(listed)')
    BY <1>1, <1>2 DEF Truth, AtWork
  <1>4. CASE TakeBuild(w) \/ WorkerExits(w) \/ BuildImage(w) \/ LookUpPort(w)
    <2>1. AtWork(b) => AtWork(b)'
      <3>1. CASE TakeBuild(w) \/ WorkerExits(w)
        BY <3>1, WorkGoesOn DEF TakeBuild, WorkerExits, Goto, TypeOK, teardowns
      <3>2. CASE BuildImage(w)
        BY <3>2, WorkGoesOn DEF BuildImage, Goto, TypeOK, teardowns
      <3>3. CASE LookUpPort(w)
        BY <3>3, WorkGoesOn DEF LookUpPort, Goto, TypeOK, teardowns
      <3> QED  BY <1>4, <3>1, <3>2, <3>3
    <2> QED
      BY <1>1, <1>3, <1>4, <2>1, TruthKept
          DEF TakeBuild, WorkerExits, BuildImage, LookUpPort, objects
  <1>5. CASE Begin(w)
    <2>1. status'[b] = "building"
      BY <1>2, <1>5 DEF Begin, SetStatus, TypeOK
    <2> QED  BY <1>1, <1>3, <2>1 DEF Truth
  <1>6. CASE FailDeployment(w)
    <2>1. CASE object[w] = b
      <3>1. status'[b] = "failed"
        BY <1>6, <2>1 DEF FailDeployment, SetStatus, TypeOK
      <3> QED  BY <1>1, <1>3, <3>1 DEF Truth
    <2>2. CASE object[w] # b
      <3>1. AtWork(b) => AtWork(b)'
        BY <1>6, <2>2, WorkGoesOn DEF FailDeployment, Done, Goto, TypeOK, teardowns
      <3> QED
        BY <1>1, <1>3, <1>6, <2>2, <3>1, TruthKept DEF FailDeployment, SetStatus, TypeOK
    <2> QED  BY <2>1, <2>2
  <1>7. CASE RemoveOld(w)
    <2>1. AtWork(b) => AtWork(b)'
      BY <1>7, WorkGoesOn DEF RemoveOld, Goto, TypeOK, teardowns
    <2>2. CASE container' = container
      BY <1>1, <1>3, <1>7, <2>1, <2>2, TruthKept DEF RemoveOld, objects
    <2>3. CASE container' # container
      <3>1. ~Crossing(object[w])
        BY <1>7, <2>3 DEF RemoveOld
      <3>2. object'[w] = b /\ at'[w] = "run"
        BY <1>2, <1>7, <3>1 DEF Crossing, RemoveOld, Goto, TypeOK
      <3> QED  BY <1>1, <1>3, <3>2 DEF Truth, AtWork
    <2> QED  BY <2>2, <2>3
  <1>8. CASE Run(w)
    <2>1. CASE KeepPod
      <3>1. AtWork(b) => AtWork(b)'
        BY <1>8, WorkGoesOn DEF Run, Goto, TypeOK, teardowns
      <3> QED  BY <1>1, <1>3, <1>8, <2>1, <3>1, TruthKept DEF Run, KeepPod, objects
    <2>2. CASE RunContainer(w)
      <3>1. ~Crossing(object[w])
        BY <2>2 DEF RunContainer
      <3>2. object'[w] = b /\ at'[w] = "port"
        BY <1>2, <1>8, <3>1 DEF Crossing, Run, Goto, TypeOK
      <3> QED  BY <1>1, <1>3, <3>2 DEF Truth, AtWork
    <2> QED  BY <1>8, <2>1, <2>2 DEF Run
  <1>9. CASE PublishReady(w)
    <2>1. CASE object[w] = b
      <3>1. /\ port[w] # None /\ container = port[w] /\ container' = container
            /\ endpoint'[b] = port[w] /\ status'[b] = "ready"
        BY <1>9, <2>1 DEF WritersInv, PortIsOfContainer, PublishReady, SetStatus, TypeOK
      <3> QED  BY <1>1, <1>3, <3>1 DEF Truth
    <2>2. CASE object[w] # b
      <3>1. AtWork(b) => AtWork(b)'
        BY <1>9, <2>2, WorkGoesOn DEF PublishReady, Done, Goto, TypeOK, teardowns
      <3> QED
        BY <1>1, <1>3, <1>9, <2>2, <3>1, TruthKept DEF PublishReady, SetStatus, TypeOK
    <2> QED  BY <2>1, <2>2
  <1>10. CASE ExceptionSwallowed(w)
    <2>1. object[w] # b
      BY <1>2, <1>10 DEF ExceptionSwallowed
    <2>2. AtWork(b) => AtWork(b)'
      BY <1>10, <2>1, WorkGoesOn DEF ExceptionSwallowed, Done, Goto, TypeOK, teardowns
    <2> QED
      BY <1>1, <1>3, <1>10, <2>2, TruthKept DEF ExceptionSwallowed, objects
  <1> QED  BY <1>1, <1>4, <1>5, <1>6, <1>7, <1>8, <1>9, <1>10 DEF WorkerStep

\* A step of a teardown.
LEMMA TeardownTruth ==
    ASSUME TypeOK, TypeOK', WritersInv, ~crossed, ~crossed', listed # None, Truth(listed),
           NEW t \in Teardown, TeardownStep(t)
    PROVE  listed' = listed /\ Truth(listed)'
  <1>1. listed' = listed /\ listed \in Build
    BY DEF TypeOK, TeardownStep, LookUpTeardown, RemoveContainer, MarkTornDown, objects
  <1>2. PICK b \in Build : b = listed
    BY <1>1
  <1>3. Truth(b) /\ (Truth(b)' => Truth(listed)')
    BY <1>1, <1>2 DEF Truth, AtWork
  <1>4. CASE LookUpTeardown(t)
    <2>1. AtWork(b) => AtWork(b)'
      BY <1>4, WorkGoesOn DEF LookUpTeardown, TypeOK, workers
    <2> QED  BY <1>1, <1>3, <1>4, <2>1, TruthKept DEF LookUpTeardown, objects
  <1>5. CASE RemoveContainer(t)
    <2>1. AtWork(b) => AtWork(b)'
      BY <1>5, WorkGoesOn DEF RemoveContainer, TypeOK, workers
    <2>2. CASE container' = container
      BY <1>1, <1>3, <1>5, <2>1, <2>2, TruthKept DEF RemoveContainer, objects
    <2>3. CASE container' # container
      <3>1. ~Crossing(torn[t])
        BY <1>5, <2>3 DEF RemoveContainer
      <3>2. torn'[t] = b /\ tear'[t] = "mark"
        BY <1>2, <1>5, <3>1 DEF Crossing, RemoveContainer, TypeOK
      <3> QED  BY <1>1, <1>3, <3>2 DEF Truth, AtWork
    <2> QED  BY <2>2, <2>3
  <1>6. CASE MarkTornDown(t)
    <2>1. CASE torn[t] = b
      <3>1. status'[b] = "torn_down" /\ container' = None
        BY <1>6, <2>1 DEF WritersInv, NothingRuns, MarkTornDown, SetStatus, TypeOK
      <3> QED  BY <1>1, <1>3, <3>1 DEF Truth
    <2>2. CASE torn[t] # b
      <3>1. AtWork(b) => AtWork(b)'
        BY <1>6, <2>2, WorkGoesOn DEF MarkTornDown, TypeOK, workers
      <3> QED
        BY <1>1, <1>3, <1>6, <2>2, <3>1, TruthKept DEF MarkTornDown, SetStatus, TypeOK
    <2> QED  BY <2>1, <2>2
  <1> QED  BY <1>1, <1>4, <1>5, <1>6 DEF TeardownStep

\* A status object from which an exception has sent a worker away stays one.
LEMMA AbandonedStays ==
    ASSUME [Next]_vars
    PROVE  abandoned \subseteq abandoned'
  <1>1. ASSUME NEW w \in Workers, WorkerStep(w)  PROVE abandoned \subseteq abandoned'
    BY <1>1 DEF WorkerStep, TakeBuild, WorkerExits, Begin, FailDeployment, ExceptionSwallowed,
        BuildImage, RemoveOld, Run, LookUpPort, PublishReady
  <1>2. ASSUME NEW t \in Teardown, TeardownStep(t)  PROVE abandoned \subseteq abandoned'
    BY <1>2 DEF TeardownStep, LookUpTeardown, RemoveContainer, MarkTornDown
  <1>3. ASSUME NEW b \in Build, Handle(b)  PROVE abandoned \subseteq abandoned'
    BY <1>3 DEF Handle, ListBuild, QueueBuild
  <1> QED  BY <1>1, <1>2, <1>3 DEF Next, Shutdown, vars

\* Every step keeps the listed status true, unless it crosses.
LEMMA ListedStep ==
    ASSUME TypeOK, TypeOK', WritersInv, ListedStatusTrue, [Next]_vars
    PROVE  ListedStatusTrue'
  <1> SUFFICES ASSUME listed' # None, ~crossed', listed' \notin abandoned'
               PROVE  Truth(listed)'
    BY DEF ListedStatusTrue, Truth
  <1>1. ~crossed /\ (listed # None /\ listed \notin abandoned => Truth(listed))
    BY CrossedStays DEF ListedStatusTrue, Truth
  <1>2. listed' \notin abandoned
    BY AbandonedStays
  <1>3. ASSUME NEW b \in Build, ListBuild(b)  PROVE Truth(listed)'
    <2>1. listed' = b /\ status'[b] = "pending_build"
      BY <1>3 DEF ListBuild, SetStatus, TypeOK
    <2> QED  BY <2>1 DEF Truth
  <1>4. CASE Shutdown \/ UNCHANGED vars \/ \E b \in Build : QueueBuild(b)
    <2>1. UNCHANGED <<listed, status, endpoint, container, at, object, tear, torn>>
      BY <1>4 DEF Shutdown, QueueBuild, vars, objects, workers, teardowns
    <2> QED  BY <1>1, <1>2, <2>1 DEF Truth, AtWork
  <1>5. ASSUME NEW w \in Workers, WorkerStep(w)  PROVE Truth(listed)'
    <2>1. listed' = listed
      BY <1>5 DEF WorkerStep, TakeBuild, WorkerExits, Begin, FailDeployment, ExceptionSwallowed,
          BuildImage, RemoveOld, Run, LookUpPort, PublishReady, objects
    <2> QED  BY <1>1, <1>2, <1>5, <2>1, WorkerTruth
  <1>6. ASSUME NEW t \in Teardown, TeardownStep(t)  PROVE Truth(listed)'
    <2>1. listed' = listed
      BY <1>6 DEF TeardownStep, LookUpTeardown, RemoveContainer, MarkTornDown, objects
    <2> QED  BY <1>1, <1>2, <1>6, <2>1, TeardownTruth
  <1> QED  BY <1>3, <1>4, <1>5, <1>6 DEF Next, Handle

-----------------------------------------------------------------------------
(* The theorems                                                            *)

\* Nothing is listed to begin with.
LEMMA Initially == Init => IInv
  <1> SUFFICES ASSUME Init  PROVE IInv
    OBVIOUS
  <1>1. TypeOK
    <2>1. queue \in Seq(Build)
      BY DEF Init
    <2>2. /\ status \in [Build -> {"none", "pending_build", "building", "ready", "failed", "torn_down"}]
          /\ endpoint \in [Build -> Build \cup {None}]
          /\ request \in [Build -> {"none", "listed", "queued"}]
      BY DEF Init
    <2>3. /\ at \in [Workers -> Busy \cup {"wait", "exit"}]
          /\ job \in [Workers -> Build \cup {None}]
          /\ object \in [Workers -> Build \cup {None}]
          /\ port \in [Workers -> Build \cup {None}]
      BY DEF Init
    <2>4. /\ tear \in [Teardown -> {"none", "rm", "mark", "done"}]
          /\ torn \in [Teardown -> Build \cup {None}]
      BY DEF Init
    <2> QED  BY <2>1, <2>2, <2>3, <2>4 DEF Init, TypeOK
  <1>2. WritersInv
    BY DEF Init, WritersInv, PortIsOfContainer, NothingRuns
  <1>3. ListedStatusTrue
    BY DEF Init, ListedStatusTrue
  <1> QED  BY <1>1, <1>2, <1>3 DEF IInv

\* The inductive invariant holds for any number of workers and requests.
THEOREM Invariance == Spec => []IInv
  <1>1. IInv /\ [Next]_vars => IInv'
    BY TypeStep, WritersStep, ListedStep DEF IInv
  <1> QED  BY Initially, <1>1, PTL DEF Spec

\* Status objects, workers, teardowns and the queue are type correct.
THEOREM TypeCorrect == Spec => []TypeOK
  <1>1. IInv => TypeOK
    BY DEF IInv
  <1> QED  BY Invariance, <1>1, PTL

\* What is listed is true, or somebody is at work who will make it so, but for
\* the four crossings and the exceptions swallowed: for any number of workers,
\* builds and teardowns.
THEOREM ListedStatusAlwaysTrue == Spec => []ListedStatusTrue
  <1>1. IInv => ListedStatusTrue
    BY DEF IInv
  <1> QED  BY Invariance, <1>1, PTL
=============================================================================
