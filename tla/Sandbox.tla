------------------------------ MODULE Sandbox ------------------------------
(***************************************************************************)
(* The sandbox manager (services/sandbox-mgr/src: sandbox_service.cpp,     *)
(* handler.h, k8s_client.h), for one submission id: the status objects,    *)
(* the build queue, its workers, and the teardown.                         *)
(*                                                                         *)
(* A build request lists a new status object under mu_ and then queues the *)
(* build under queue_mu_.  A worker takes a build, and the object that is  *)
(* listed by then; from there on it works without a lock, on one container *)
(* name per submission, and so does a teardown.  Builds, status objects    *)
(* and containers are numbered by the build requests.                      *)
(*                                                                         *)
(* Left out: what is in the image and in the source directory, which the   *)
(* builds of one submission share too, and the logs.                       *)
(*                                                                         *)
(* The "Bug..." operators are seeded faults, used by no definition here.   *)
(***************************************************************************)
EXTENDS Integers, Sequences, SequencesExt

CONSTANTS
    Workers,      \* the threads of the pool
    MaxBuilds,    \* bound: build requests
    MaxTeardowns  \* bound: teardown requests

ASSUME BoundsAssumption == MaxBuilds \in Nat \ {0} /\ MaxTeardowns \in Nat

Build    == 1..MaxBuilds
Teardown == 1..MaxTeardowns
None     == 0

VARIABLES
    mode,         \* cfg_.mode
    listed,       \* deployments_[id]: the newest status object, or None
    status,       \* status[b]: the status in object b
    endpoint,     \* endpoint[b]: the container its endpoint_url leads to, or None
    request,      \* request[b]: where the request of build b is
    queue,        \* queue_
    at,           \* at[w]: where worker w is
    job,          \* job[w]: the build it has taken
    object,       \* object[w]: the status object it writes to
    port,         \* port[w]: the container whose port it has looked up
    tear,         \* tear[t]: where teardown t is
    torn,         \* torn[t]: the status object it writes to
    container,    \* the container (or pod) that runs under the submission's name
    stop_workers, \* stop_workers_
    crossed,      \* history: see ListedStatusTrue
    abandoned     \* history: status objects whose worker an exception has sent away

objects   == <<listed, status, endpoint>>
workers   == <<at, job, object, port>>
teardowns == <<tear, torn>>
vars == <<mode, listed, status, endpoint, request, queue, at, job, object, port,
          tear, torn, container, stop_workers, crossed, abandoned>>

\* The constructor falls back to "local" when there is no Kubernetes client.
Init ==
    /\ mode \in {"local", "k8s"}
    /\ listed = None
    /\ status = [b \in Build |-> "none"]
    /\ endpoint = [b \in Build |-> None]
    /\ request = [b \in Build |-> "none"]
    /\ queue = <<>>
    /\ at = [w \in Workers |-> "wait"]
    /\ job = [w \in Workers |-> None]
    /\ object = [w \in Workers |-> None]
    /\ port = [w \in Workers |-> None]
    /\ tear = [t \in Teardown |-> "none"]
    /\ torn = [t \in Teardown |-> None]
    /\ container = None
    /\ stop_workers = FALSE
    /\ crossed = FALSE
    /\ abandoned = {}

Goto(w, l) == at' = [at EXCEPT ![w] = l]

SetStatus(b, s) == status' = [status EXCEPT ![b] = s]

-----------------------------------------------------------------------------
(* enqueue_build, from an HTTP thread.                                     *)

ListBuild(b) ==
    /\ b = listed + 1                       \* objects are numbered as they are listed
    /\ ~stop_workers
    /\ listed' = b
    /\ SetStatus(b, "pending_build")
    /\ request' = [request EXCEPT ![b] = "listed"]
    /\ UNCHANGED <<mode, endpoint, queue, workers, teardowns, container, stop_workers, crossed, abandoned>>

QueueBuild(b) ==
    /\ request[b] = "listed"
    /\ queue' = Append(queue, b)
    /\ request' = [request EXCEPT ![b] = "queued"]
    /\ UNCHANGED <<mode, objects, workers, teardowns, container, stop_workers, crossed, abandoned>>

-----------------------------------------------------------------------------
(* A worker.                                                               *)

TakeBuild(w) ==
    /\ at[w] = "wait"
    /\ queue # <<>>
    /\ job' = [job EXCEPT ![w] = Head(queue)]
    /\ queue' = Tail(queue)
    /\ Goto(w, "begin")
    /\ UNCHANGED <<mode, objects, request, object, port, teardowns, container,
                   stop_workers, crossed, abandoned>>

BugMayExit == stop_workers

MayExit == stop_workers /\ queue = <<>>

WorkerExits(w) ==
    /\ at[w] = "wait"
    /\ MayExit
    /\ Goto(w, "exit")
    /\ UNCHANGED <<mode, objects, request, queue, job, object, port, teardowns,
                   container, stop_workers, crossed, abandoned>>

\* The object that is listed now, not the one of this build's request.
Begin(w) ==
    /\ at[w] = "begin"
    /\ object' = [object EXCEPT ![w] = listed]
    /\ SetStatus(listed, "building")
    /\ Goto(w, "build")
    /\ UNCHANGED <<mode, listed, endpoint, request, queue, job, port, teardowns,
                   container, stop_workers, crossed, abandoned>>

\* build_and_deploy has ended, one way or another; the next build of this worker
\* is another matter.
Done(w) ==
    /\ job' = [job EXCEPT ![w] = None]
    /\ object' = [object EXCEPT ![w] = None]
    /\ port' = [port EXCEPT ![w] = None]
    /\ Goto(w, "wait")

\* fail_deployment, from any of the steps: the language, the Dockerfile, docker
\* build, docker run, docker port; a Kubernetes call.
FailDeployment(w) ==
    /\ at[w] \in {"build", "run", "port"}
    /\ SetStatus(object[w], "failed")
    /\ Done(w)
    /\ UNCHANGED <<mode, listed, endpoint, request, queue, teardowns, container,
                   stop_workers, crossed, abandoned>>

\* An exception leaves build_and_deploy and is swallowed by the worker's loop, so
\* that nobody writes a status.  The local steps catch their own; a Kubernetes
\* call lets those of httplib and of the JSON payload through.
ExceptionSwallowed(w) ==
    /\ mode = "k8s" /\ at[w] \in {"build", "run", "port"}
    /\ abandoned' = abandoned \cup {object[w]}
    /\ Done(w)
    /\ UNCHANGED <<mode, objects, request, queue, teardowns, container, stop_workers, crossed>>

\* In Kubernetes: the namespace, the quota and the policy.
BuildImage(w) ==
    /\ at[w] = "build"
    /\ Goto(w, IF mode = "local" THEN "rm" ELSE "run")
    /\ UNCHANGED <<mode, objects, request, queue, job, object, port, teardowns,
                   container, stop_workers, crossed, abandoned>>

\* Somebody has seen what he will write into a status object, and has yet to.
Exposed(w) == at[w] \in {"port", "publish"}

Crossing(b) ==
    \/ b # listed
    \/ \E w \in Workers : Exposed(w)
    \/ \E t \in Teardown : tear[t] = "mark"

\* docker rm -f; the exception is swallowed.
RemoveOld(w) ==
    /\ at[w] = "rm"
    /\ \/ /\ container' = None
          /\ crossed' = (crossed \/ (container # None /\ Crossing(object[w])))
       \/ UNCHANGED <<container, crossed>>
    /\ Goto(w, "run")
    /\ UNCHANGED <<mode, objects, request, queue, job, object, port, teardowns, stop_workers, abandoned>>

\* docker run fails when the name is taken.
RunContainer(w) ==
    /\ container = None
    /\ container' = job[w]
    /\ crossed' = (crossed \/ Crossing(object[w]))

\* 409: the pod that exists is kept, and that is as good.
KeepPod ==
    /\ mode = "k8s" /\ container # None
    /\ UNCHANGED <<container, crossed>>

Run(w) ==
    /\ at[w] = "run"
    /\ RunContainer(w) \/ KeepPod
    /\ Goto(w, "port")
    /\ UNCHANGED <<mode, objects, request, queue, job, object, port, teardowns, stop_workers, abandoned>>

\* docker port of whatever runs under the name; the service of the pod.
LookUpPort(w) ==
    /\ at[w] = "port"
    /\ container # None
    /\ port' = [port EXCEPT ![w] = container]
    /\ Goto(w, "publish")
    /\ UNCHANGED <<mode, objects, request, queue, job, object, teardowns, container,
                   stop_workers, crossed, abandoned>>

PublishReady(w) ==
    /\ at[w] = "publish"
    /\ SetStatus(object[w], "ready")
    /\ endpoint' = [endpoint EXCEPT ![object[w]] = port[w]]
    /\ Done(w)
    /\ UNCHANGED <<mode, listed, request, queue, teardowns, container, stop_workers, crossed, abandoned>>

-----------------------------------------------------------------------------
(* teardown, from an HTTP thread.                                          *)

LookUpTeardown(t) ==
    /\ tear[t] = "none"
    /\ ~stop_workers
    /\ listed # None
    /\ torn' = [torn EXCEPT ![t] = listed]
    /\ tear' = [tear EXCEPT ![t] = "rm"]
    /\ UNCHANGED <<mode, objects, request, queue, workers, container, stop_workers, crossed, abandoned>>

\* Swallowed as well when it fails; in Kubernetes nothing is removed.
BugRemoveContainer(t) ==
    /\ tear[t] = "rm"
    /\ UNCHANGED <<container, crossed>>
    /\ tear' = [tear EXCEPT ![t] = "mark"]
    /\ UNCHANGED <<mode, objects, request, queue, workers, torn, stop_workers, abandoned>>

RemoveContainer(t) ==
    /\ tear[t] = "rm"
    /\ \/ /\ mode = "local"
          /\ container' = None
          /\ crossed' = (crossed \/ (container # None /\ Crossing(torn[t])))
       \/ /\ UNCHANGED container
          /\ crossed' = (crossed \/ container # None)
    /\ tear' = [tear EXCEPT ![t] = "mark"]
    /\ UNCHANGED <<mode, objects, request, queue, workers, torn, stop_workers, abandoned>>

MarkTornDown(t) ==
    /\ tear[t] = "mark"
    /\ SetStatus(torn[t], "torn_down")
    /\ tear' = [tear EXCEPT ![t] = "done"]
    /\ UNCHANGED <<mode, listed, endpoint, request, queue, workers, torn, container,
                   stop_workers, crossed, abandoned>>

-----------------------------------------------------------------------------
\* The server has ended, with its HTTP threads; the destructor joins the workers.
Shutdown ==
    /\ ~stop_workers
    /\ \A b \in Build : request[b] # "listed"
    /\ \A t \in Teardown : tear[t] \in {"none", "done"}
    /\ stop_workers' = TRUE
    /\ UNCHANGED <<mode, objects, request, queue, workers, teardowns, container, crossed, abandoned>>

WorkerStep(w) ==
    \/ TakeBuild(w) \/ WorkerExits(w) \/ Begin(w) \/ FailDeployment(w)
    \/ ExceptionSwallowed(w) \/ BuildImage(w)
    \/ RemoveOld(w) \/ Run(w) \/ LookUpPort(w) \/ PublishReady(w)

Handle(b) == ListBuild(b) \/ QueueBuild(b)

TeardownStep(t) == LookUpTeardown(t) \/ RemoveContainer(t) \/ MarkTornDown(t)

Next ==
    \/ \E b \in Build : Handle(b)
    \/ \E w \in Workers : WorkerStep(w)
    \/ \E t \in Teardown : TeardownStep(t)
    \/ Shutdown

\* The commands end (docker build may take its time), and the threads run.
Fairness ==
    /\ \A w \in Workers : WF_vars(WorkerStep(w))
    /\ \A b \in Build : WF_vars(QueueBuild(b))

Spec == Init /\ [][Next]_vars /\ Fairness

-----------------------------------------------------------------------------
(* Properties                                                              *)

Busy == {"begin", "build", "rm", "run", "port", "publish"}

TypeOK ==
    /\ mode \in {"local", "k8s"}
    /\ listed \in Build \cup {None}
    /\ status \in [Build -> {"none", "pending_build", "building", "ready", "failed", "torn_down"}]
    /\ endpoint \in [Build -> Build \cup {None}]
    /\ request \in [Build -> {"none", "listed", "queued"}]
    /\ queue \in Seq(Build)
    /\ at \in [Workers -> Busy \cup {"wait", "exit"}]
    /\ job \in [Workers -> Build \cup {None}]
    /\ object \in [Workers -> Build \cup {None}]
    /\ port \in [Workers -> Build \cup {None}]
    /\ tear \in [Teardown -> {"none", "rm", "mark", "done"}]
    /\ torn \in [Teardown -> Build \cup {None}]
    /\ container \in Build \cup {None}
    /\ stop_workers \in BOOLEAN /\ crossed \in BOOLEAN
    /\ abandoned \subseteq Build \cup {None}

\* The status that is listed tells the truth about the container, or somebody
\* is at work who will write it: a ready endpoint leads to the container that
\* runs, and nothing runs under a name that was torn down.  There are four ways
\* for this to fail, all of which make crossed true: a container is replaced or
\* removed on behalf of a status object that is no longer the listed one (an
\* older build that comes last, a teardown that overlaps a new build); while
\* another worker is between docker run and "ready"; while a teardown is between
\* docker rm and "torn_down"; and a teardown that removes nothing.  Nothing is said
\* of a status object either from whose work an exception has sent a worker away.
AtWork(b) ==
    \/ \E w \in Workers : at[w] \in {"run", "port", "publish"} /\ object[w] = b
    \/ \E t \in Teardown : tear[t] = "mark" /\ torn[t] = b

ListedStatusTrue ==
    listed # None /\ ~crossed /\ listed \notin abandoned =>
        /\ status[listed] = "ready" =>
              (container # None /\ container = endpoint[listed]) \/ AtWork(listed)
        /\ status[listed] = "torn_down" => container = None \/ AtWork(listed)

\* Once no more requests come, the listed status does not stay "pending_build" or
\* "building", although a worker may write to another object than its build's:
\* before, during and after a shutdown.  There is one way for it to stay so for
\* ever: an exception in a Kubernetes call, which the worker's loop swallows.
InProgress == listed # None /\ status[listed] \in {"pending_build", "building"}

BuildEnds == InProgress ~> ~InProgress \/ listed \in abandoned
=============================================================================
