------------------------------ MODULE EventRouter ------------------------------
(***************************************************************************)
(* The Docker event pipeline of host-api (package events): Docker's event  *)
(* monitor feeds a buffered channel, the router hands every event to a     *)
(* worker of a bounded pool, and the worker runs SendToRancherHandler,     *)
(* which reports the event to Rancher under a lock on status + container.  *)
(*                                                                         *)
(* An APIEvents object is a position in the sequence events, a *APIEvents  *)
(* pointer is that position, and nil is 0.                                 *)
(***************************************************************************)
EXTENDS Integers, Sequences, FiniteSets

CONSTANTS
    Containers,        \* container IDs
    Workers,           \* the worker pool: events-pool-size workers
    Lifecycle,         \* what the Docker daemon does to containers
    BufferSize,        \* capacity of the listener channel
    HasRancherClient,  \* FALSE when the Rancher access keys are not configured
    MaxEvents,         \* bound on the events the monitor decodes
    MaxFaults          \* bound on the Docker and Rancher calls that fail

ASSUME EventRouterAssumption ==
    /\ BufferSize \in Nat \ {0}
    /\ HasRancherClient \in BOOLEAN
    /\ MaxEvents \in Nat
    /\ MaxFaults \in Nat

VARIABLES
    docker,       \* state of each container in the Docker daemon
    monitor,      \* the event monitor of the Docker client
    lastSeen,     \* the last event the monitor decoded, nil if none
    sending,      \* events with a sendEvent goroutine that has not sent yet
    process,      \* progress of DockerEventsProcessor.Process
    toSimulate,   \* listed containers whose simulated event is still to send
    events,       \* every APIEvents object made so far
    outcome,      \* what became of each of them
    listener,     \* the listener channel
    routing,      \* the event routeEvents holds, Empty while it receives
    timer,        \* TRUE while the timer of the held event may still fire
    workers,      \* the workers channel: the workers in the pool
    stage,        \* the progress of each worker's doWork goroutine
    job,          \* the event each doWork goroutine was started with
    inspect,      \* the container state its handler inspected
    lockedItems,  \* keys held in the locks package
    rancher,      \* the ContainerEvents created in Rancher
    faults,       \* failed Docker and Rancher calls so far
    exited        \* the process is gone

eventVars == <<events, outcome>>
monitorVars == <<docker, monitor, lastSeen, sending>>
processVars == <<process, toSimulate>>
routerVars == <<listener, routing, timer>>
workerVars == <<workers, stage, job, inspect, lockedItems, rancher, faults>>
vars == <<eventVars, monitorVars, processVars, routerVars, workerVars, exited>>

Nil == 0
Empty == -1
Simulated == "-simulated-"

--------------------------------------------------------------------------------
\* The Docker daemon: each triple of Lifecycle is a status it emits and the
\* container states before and after.
ContainerStates == {"new", "stopped", "running", "paused", "gone"}
Statuses == {"create", "start", "pause", "unpause", "kill", "die", "stop", "destroy"}

ASSUME LifecycleAssumption ==
    /\ Lifecycle \subseteq Statuses \X ContainerStates \X ContainerStates
    /\ \A step \in Lifecycle : step[1] = "destroy" <=> step[3] = "gone"

APIEvents == [ID : Containers, Status : Statuses, From : {"image", Simulated}]

\* The statuses getHandlersFn registers SendToRancherHandler for.
HandledStatuses ==
    IF HasRancherClient THEN {"start", "stop", "die", "kill", "destroy"} ELSE {}

\* Mutant: the lock key leaves the status out.
ContainerKey(p) == <<"any", events[p].ID>>

\* The lock key of SendToRancherHandler: event.Status + event.ID.
Key(p) == <<events[p].Status, events[p].ID>>

--------------------------------------------------------------------------------
Init ==
    /\ docker \in [Containers -> {"new", "stopped", "running", "paused"}]
    /\ monitor = "off" /\ lastSeen = Nil /\ sending = {}
    /\ process = "new" /\ toSimulate = {}
    /\ events = <<>> /\ outcome = <<>>
    /\ listener = <<>> /\ routing = Empty /\ timer = FALSE
    /\ workers = Workers
    /\ stage = [w \in Workers |-> "idle"]
    /\ job = [w \in Workers |-> Nil]
    /\ inspect = [w \in Workers |-> "none"]
    /\ lockedItems = {} /\ rancher = {} /\ faults = 0
    /\ exited = FALSE

NewEvent(id, status, from) ==
    /\ events' = Append(events, [ID |-> id, Status |-> status, From |-> from])
    /\ outcome' = Append(outcome, "pending")

Resolve(p, result) ==
    /\ outcome' = [outcome EXCEPT ![p] = result]
    /\ UNCHANGED events

--------------------------------------------------------------------------------
(* The event monitor of the vendored Docker client.                         *)

\* A decoded event gets a sendEvent goroutine of its own.
Decoded(id, status) ==
    /\ Len(events) < MaxEvents
    /\ NewEvent(id, status, "image")
    /\ lastSeen' = Len(events')
    /\ sending' = sending \union {Len(events')}

\* A container changes state; the daemon streams the event to a connected monitor.
ContainerStep(c) ==
    /\ \E step \in Lifecycle :
        /\ docker[c] = step[2]
        /\ docker' = [docker EXCEPT ![c] = step[3]]
        /\ IF monitor = "streaming"
           THEN Decoded(c, step[1])
           ELSE UNCHANGED <<eventVars, lastSeen, sending>>
    /\ UNCHANGED <<monitor, processVars, routerVars, workerVars, exited>>

\* connectWithRetry succeeds, or gives up after its retries; a monitor that was
\* streaming calls it again after a decoding error. On giving up, terminate waits
\* for the listener count to drop to zero, which it never does.
Connect ==
    /\ \/ monitor = "dialing" /\ monitor' \in {"streaming", "failed"}
       \/ monitor = "streaming" /\ monitor' = "failed"
    /\ UNCHANGED <<docker, lastSeen, sending, eventVars, processVars, routerVars,
                   workerVars, exited>>

\* A decoding error restarts the monitor, which asks for the events since
\* lastSeen: the daemon sends the last one again.
Reconnect ==
    /\ monitor = "streaming" /\ lastSeen # Nil
    /\ Decoded(events[lastSeen].ID, events[lastSeen].Status)
    /\ UNCHANGED <<docker, monitor, processVars, routerVars, workerVars, exited>>

\* The stream ends: closeListeners closes the listener channel for good.
StreamEOF ==
    /\ monitor = "streaming"
    /\ monitor' = "closed"
    /\ UNCHANGED <<docker, lastSeen, sending, eventVars, processVars, routerVars,
                   workerVars, exited>>

\* Mutant: the send does not wait for room in the channel.
SendEventUnbounded(p) ==
    /\ p \in sending /\ monitor = "streaming"
    /\ sending' = sending \ {p}
    /\ listener' = Append(listener, p)
    /\ UNCHANGED <<docker, monitor, lastSeen, eventVars, processVars, routing, timer,
                   workerVars, exited>>

SendEvent(p) ==
    /\ p \in sending
    /\ sending' = sending \ {p}
    /\ \/ /\ monitor \in {"streaming", "failed"}
          /\ Len(listener) < BufferSize
          /\ listener' = Append(listener, p)
          /\ UNCHANGED eventVars
       \/ /\ monitor \in {"closed", "removed"}
          /\ Resolve(p, "undelivered")
          /\ UNCHANGED listener
    /\ UNCHANGED <<docker, monitor, lastSeen, processVars, routing, timer,
                   workerVars, exited>>

--------------------------------------------------------------------------------
(* DockerEventsProcessor.Process, EventRouter.Start and EventRouter.Stop.  *)

Start ==
    /\ process = "new"
    /\ process' = "started"
    /\ monitor' = "dialing"
    /\ UNCHANGED <<docker, lastSeen, sending, toSimulate, eventVars, routerVars,
                   workerVars, exited>>

ListContainers ==
    /\ process = "started"
    /\ process' = "listed"
    /\ toSimulate' = { c \in Containers : docker[c] \in {"running", "paused"} }
    /\ UNCHANGED <<monitorVars, eventVars, routerVars, workerVars, exited>>

\* An error that Process returns makes main exit.
ProcessFails ==
    /\ process \in {"new", "started"}
    /\ exited' = TRUE
    /\ UNCHANGED <<monitorVars, processVars, eventVars, routerVars, workerVars>>

\* A send on the closed listener panics, any other blocks while it is full.
SendSimulated(c) ==
    /\ c \in toSimulate
    /\ \/ /\ monitor = "closed"
          /\ exited' = TRUE
          /\ UNCHANGED <<toSimulate, eventVars, listener>>
       \/ /\ monitor # "closed"
          /\ Len(listener) < BufferSize
          /\ toSimulate' = toSimulate \ {c}
          /\ NewEvent(c, "start", Simulated)
          /\ listener' = Append(listener, Len(events'))
          /\ UNCHANGED exited
    /\ UNCHANGED <<monitorVars, process, routing, timer, workerVars>>

Stop ==
    /\ monitor \in {"dialing", "streaming", "failed"}
    /\ monitor' = "removed"
    /\ UNCHANGED <<docker, lastSeen, sending, eventVars, processVars, routerVars,
                   workerVars, exited>>

--------------------------------------------------------------------------------
(* routeEvents: receive, then wait for a worker; the timer only logs.      *)

Receive ==
    /\ process # "new" /\ routing = Empty
    /\ \/ /\ listener # <<>>
          /\ routing' = Head(listener)
          /\ listener' = Tail(listener)
       \/ /\ listener = <<>> /\ monitor = "closed"
          /\ routing' = Nil
          /\ UNCHANGED listener
    /\ timer' = TRUE
    /\ UNCHANGED <<monitorVars, processVars, eventVars, workerVars, exited>>

\* Mutant: the router gives the event up when the timer fires.
WorkerTimeoutDrops ==
    /\ routing # Empty /\ timer
    /\ routing' = Empty /\ timer' = FALSE
    /\ UNCHANGED <<monitorVars, processVars, eventVars, listener, workerVars, exited>>

WorkerTimeout ==
    /\ routing # Empty /\ timer
    /\ timer' = FALSE
    /\ UNCHANGED <<monitorVars, processVars, eventVars, listener, routing,
                   workerVars, exited>>

\* Mutant: the router stops waiting for workers once the timer has fired.
GotWorkerInTime(w) ==
    /\ routing # Empty /\ w \in workers /\ timer
    /\ workers' = workers \ {w}
    /\ job' = [job EXCEPT ![w] = routing]
    /\ stage' = [stage EXCEPT ![w] = "begin"]
    /\ routing' = Empty /\ timer' = FALSE
    /\ UNCHANGED <<monitorVars, processVars, eventVars, listener, inspect,
                   lockedItems, rancher, faults, exited>>

GotWorker(w) ==
    /\ routing # Empty /\ w \in workers
    /\ workers' = workers \ {w}
    /\ job' = [job EXCEPT ![w] = routing]
    /\ stage' = [stage EXCEPT ![w] = "begin"]
    /\ routing' = Empty /\ timer' = FALSE
    /\ UNCHANGED <<monitorVars, processVars, eventVars, listener, inspect,
                   lockedItems, rancher, faults, exited>>

--------------------------------------------------------------------------------
(* doWork and SendToRancherHandler.Handle, one goroutine per busy worker.  *)

Goto(w, from, to) ==
    /\ stage[w] = from
    /\ stage' = [stage EXCEPT ![w] = to]

\* A call to Docker or Rancher fails: Handle returns the error, doWork logs it.
CallFails(w) ==
    /\ faults < MaxFaults
    /\ faults' = faults + 1
    /\ Resolve(job[w], "failed")

\* Mutant: the early return on nil forgets the worker.
DoNilKeepsWorker(w) ==
    /\ Goto(w, "begin", "idle") /\ job[w] = Nil
    /\ UNCHANGED <<monitorVars, processVars, eventVars, routerVars, workers, job,
                   inspect, lockedItems, rancher, faults, exited>>

\* doWork on the nil event of a closed listener.
DoNil(w) ==
    /\ Goto(w, "begin", "return") /\ job[w] = Nil
    /\ UNCHANGED <<monitorVars, processVars, eventVars, routerVars, workers, job,
                   inspect, lockedItems, rancher, faults, exited>>

\* No handler is registered for the status, or Handle meets a simulated event.
Ignore(w) ==
    /\ Goto(w, "begin", "return") /\ job[w] # Nil
    /\ \/ events[job[w]].Status \notin HandledStatuses
       \/ events[job[w]].From = Simulated
    /\ Resolve(job[w], "ignored")
    /\ UNCHANGED <<monitorVars, processVars, routerVars, workers, job, inspect,
                   lockedItems, rancher, faults, exited>>

\* Mutant: simulated events are reported too.
ReportableSimulated(p) == p # Nil /\ events[p].Status \in HandledStatuses

Reportable(p) ==
    /\ p # Nil
    /\ events[p].Status \in HandledStatuses /\ events[p].From # Simulated

\* Mutant: the answer of locks.Lock is not looked at.
LockUnchecked(w) ==
    /\ Goto(w, "begin", "inspect") /\ Reportable(job[w])
    /\ lockedItems' = lockedItems \union {Key(job[w])}
    /\ UNCHANGED <<monitorVars, processVars, eventVars, routerVars, workers, job,
                   inspect, rancher, faults, exited>>

Lock(w) ==
    /\ Goto(w, "begin", "inspect") /\ Reportable(job[w])
    /\ Key(job[w]) \notin lockedItems
    /\ lockedItems' = lockedItems \union {Key(job[w])}
    /\ UNCHANGED <<monitorVars, processVars, eventVars, routerVars, workers, job,
                   inspect, rancher, faults, exited>>

\* locks.Lock returns nil: the event is skipped.
LockBusy(w) ==
    /\ Goto(w, "begin", "return") /\ Reportable(job[w])
    /\ Key(job[w]) \in lockedItems
    /\ Resolve(job[w], "skipped")
    /\ UNCHANGED <<monitorVars, processVars, routerVars, workers, job, inspect,
                   lockedItems, rancher, faults, exited>>

\* Mutant: the error return does not unlock.
InspectErrorKeepsLock(w) ==
    /\ Goto(w, "inspect", "return")
    /\ CallFails(w)
    /\ UNCHANGED <<monitorVars, processVars, routerVars, workers, job, inspect,
                   lockedItems, rancher, exited>>

\* Mutant: NoSuchContainer is an error like any other.
InspectGoneFails(w) ==
    LET state == docker[events[job[w]].ID]
    IN  /\ \/ /\ Goto(w, "inspect", "create") /\ state # "gone"
              /\ inspect' = [inspect EXCEPT ![w] = state]
              /\ UNCHANGED eventVars
           \/ /\ Goto(w, "inspect", "unlock") /\ state = "gone"
              /\ Resolve(job[w], "failed")
              /\ UNCHANGED inspect
        /\ UNCHANGED <<monitorVars, processVars, routerVars, workers, job, lockedItems,
                       rancher, faults, exited>>

\* NoSuchContainer leaves the inspection empty and is not an error.
InspectContainer(w) ==
    LET state == docker[events[job[w]].ID]
    IN  /\ \/ /\ Goto(w, "inspect", "create")
              /\ inspect' = [inspect EXCEPT ![w] =
                                IF state = "gone" THEN "none" ELSE state]
              /\ UNCHANGED <<eventVars, faults>>
           \/ /\ Goto(w, "inspect", "unlock")
              /\ CallFails(w)
              /\ UNCHANGED inspect
        /\ UNCHANGED <<monitorVars, processVars, routerVars, workers, job,
                       lockedItems, rancher, exited>>

\* Mutant: the inspection is a field of the handler, which all workers share.
CreateContainerEventShared(w) ==
    /\ Goto(w, "create", "unlock")
    /\ \E v \in Workers :
          /\ stage[v] = "create"
          /\ rancher' = rancher \union
                          {[event |-> job[w], DockerInspect |-> inspect[v]]}
    /\ Resolve(job[w], "created")
    /\ inspect' = [inspect EXCEPT ![w] = "none"]
    /\ UNCHANGED <<monitorVars, processVars, routerVars, workers, job, lockedItems,
                   faults, exited>>

CreateContainerEvent(w) ==
    /\ Goto(w, "create", "unlock")
    /\ \/ /\ rancher' = rancher \union
                          {[event |-> job[w], DockerInspect |-> inspect[w]]}
          /\ Resolve(job[w], "created")
          /\ UNCHANGED faults
       \/ /\ CallFails(w)
          /\ UNCHANGED rancher
    /\ inspect' = [inspect EXCEPT ![w] = "none"]
    /\ UNCHANGED <<monitorVars, processVars, routerVars, workers, job, lockedItems,
                   exited>>

Unlock(w) ==
    /\ Goto(w, "unlock", "return")
    /\ lockedItems' = lockedItems \ {Key(job[w])}
    /\ UNCHANGED <<monitorVars, processVars, eventVars, routerVars, workers, job,
                   inspect, rancher, faults, exited>>

\* The deferred send of doWork returns the worker to the pool.
ReturnWorker(w) ==
    /\ Goto(w, "return", "idle")
    /\ workers' = workers \union {w}
    /\ job' = [job EXCEPT ![w] = Nil]
    /\ UNCHANGED <<monitorVars, processVars, eventVars, routerVars, inspect,
                   lockedItems, rancher, faults, exited>>

--------------------------------------------------------------------------------
Docker ==
    \/ \E c \in Containers : ContainerStep(c)
    \/ Connect \/ Reconnect \/ StreamEOF
    \/ \E p \in sending : SendEvent(p)

Process ==
    \/ Start \/ ListContainers \/ ProcessFails \/ Stop
    \/ \E c \in Containers : SendSimulated(c)

RouteEvents == Receive \/ \E w \in Workers : GotWorker(w)

DoWork(w) ==
    \/ DoNil(w) \/ Ignore(w) \/ Lock(w) \/ LockBusy(w)
    \/ InspectContainer(w) \/ CreateContainerEvent(w)
    \/ Unlock(w) \/ ReturnWorker(w)

Next ==
    /\ ~exited
    /\ Docker \/ Process \/ RouteEvents \/ WorkerTimeout \/ \E w \in Workers : DoWork(w)

Spec == Init /\ [][Next]_vars

\* Goroutines run, and the calls they make to Docker and Rancher return.
FairSpec ==
    /\ Spec
    /\ WF_vars(~exited /\ RouteEvents)
    /\ \A w \in Workers : WF_vars(~exited /\ DoWork(w))

--------------------------------------------------------------------------------
Outcomes == {"pending", "undelivered", "ignored", "skipped", "failed", "created"}
Stages == {"idle", "begin", "inspect", "create", "unlock", "return"}

\* The channels, the router and the workers hold what the code can put in them:
\* pointers to events made earlier or nil, never more events than the listener has
\* room for, and never more than the pool's workers.
TypeOK ==
    /\ docker \in [Containers -> ContainerStates]
    /\ monitor \in {"off", "dialing", "streaming", "failed", "closed", "removed"}
    /\ process \in {"new", "started", "listed"} /\ toSimulate \subseteq Containers
    /\ events \in Seq(APIEvents)
    /\ outcome \in Seq(Outcomes) /\ Len(outcome) = Len(events)
    /\ lastSeen \in 0 .. Len(events)
    /\ sending \subseteq 1 .. Len(events)
    /\ listener \in Seq(1 .. Len(events)) /\ Len(listener) <= BufferSize
    /\ routing \in {Empty} \union (0 .. Len(events))
    /\ timer \in BOOLEAN
    /\ workers \subseteq Workers
    /\ stage \in [Workers -> Stages]
    /\ job \in [Workers -> 0 .. Len(events)]
    /\ inspect \in [Workers -> ContainerStates \union {"none"}]
    /\ lockedItems \subseteq Statuses \X Containers
    /\ rancher \subseteq [event : 1 .. Len(events),
                          DockerInspect : ContainerStates \union {"none"}]
    /\ faults \in 0 .. MaxFaults
    /\ exited \in BOOLEAN

Reporting(w) == stage[w] \in {"inspect", "create", "unlock"}

\* doWork always returns its worker, whatever the event and whatever fails: a
\* worker is in the pool exactly when it has no doWork goroutine.
WorkersConserved == \A w \in Workers : w \in workers <=> stage[w] = "idle"

Queued(p) == \E i \in DOMAIN listener : listener[i] = p
Resolved(p) == p \in DOMAIN outcome /\ outcome[p] # "pending"
Holds(w) == job[w] # Nil /\ stage[w] \in {"begin", "inspect", "create"}
InFlight(p) ==
    \/ p \in sending \/ Queued(p) \/ routing = p
    \/ \E w \in Workers : Holds(w) /\ job[w] = p

\* No event is lost or handled twice on its way from the monitor to its outcome,
\* timeouts waiting for a worker included: an event is in flight exactly as long as
\* it has no outcome, and it is in one place then.
EachEventOnce ==
    /\ \A p \in DOMAIN events : InFlight(p) <=> outcome[p] = "pending"
    /\ \A p \in sending : ~Queued(p) /\ routing # p
    /\ \A i, j \in DOMAIN listener : listener[i] = listener[j] => i = j
    /\ ~Queued(routing)
    /\ \A w \in Workers : Holds(w) =>
          /\ job[w] \notin sending /\ ~Queued(job[w]) /\ routing # job[w]
          /\ \A v \in Workers : job[v] = job[w] => v = w

\* The lock package and the workers agree: every locked key belongs to exactly one
\* worker that is reporting an event with that status and container, on every path
\* of Handle, error returns included.
LocksOwned ==
    /\ \A w \in Workers : Reporting(w) => Key(job[w]) \in lockedItems
    /\ \A k \in lockedItems : \E w \in Workers : Reporting(w) /\ Key(job[w]) = k
    /\ \A v, w \in Workers :
          Reporting(v) /\ Reporting(w) /\ Key(job[v]) = Key(job[w]) => v = w

\* What an event tells Rancher: this happened to this container.
Kind(p) == <<events[p].Status, events[p].ID>>

\* The pipeline is done with the event. One that came to a listener which is closed, or
\* was removed, is not its to report any more.
Finished(p) ==
    /\ outcome[p] # "pending"
    /\ outcome[p] = "undelivered" => monitor \notin {"closed", "removed"}

\* The kinds of finished events that Rancher has no record of and nobody is reporting.
LostKinds ==
    {Kind(p) : p \in {q \in DOMAIN events : Reportable(q) /\ Finished(q)}}
    \ ({Kind(e.event) : e \in rancher} \union {Kind(job[w]) : w \in {v \in Workers : Reporting(v)}})

\* It takes a failing call to keep from Rancher that something happened to a container,
\* and a call for each thing it does not learn of: an event that is skipped because its
\* key is locked, or whose container is gone before it is inspected, costs no report.
LossesNeedFaults == Cardinality(LostKinds) <= faults

\* The states a container can be in once the daemon has emitted the status.
StatesAfter(status) ==
    { state \in ContainerStates : \A S \in SUBSET ContainerStates :
        (\A step \in Lifecycle : step[1] = status \/ step[2] \in S => step[3] \in S)
            => state \in S }

\* Rancher never gets an event together with an inspection of the container from before
\* that event, however many workers handle events of that container at a time. To have no
\* inspection is to have seen the container gone.
InspectedAfterEvent ==
    \A e \in rancher :
        (IF e.DockerInspect = "none" THEN "gone" ELSE e.DockerInspect)
            \in StatesAfter(events[e.event].Status)

\* Rancher has one ContainerEvent for each event with that outcome, none for any
\* other, and none for a simulated event ("This event should not be sent").
RancherLedger ==
    /\ \A e \in rancher : events[e.event].From # Simulated
    /\ \A e, f \in rancher : e.event = f.event => e = f
    /\ {e.event : e \in rancher} = {p \in DOMAIN events : outcome[p] = "created"}

--------------------------------------------------------------------------------
Ledger == INSTANCE EventLedger WITH
    Sources <- {"image", Simulated},
    active <- {job[w] : w \in {v \in Workers : Reporting(v)}}

\* The pipeline with its channels, pool and locks implements the ledger.
LedgerSpec == Ledger!Spec

\* "asserting that all events were still handled": an event that reached the
\* listener gets its outcome, however long it waits for a worker.
ListenedIsHandled ==
    \A p \in 1 .. MaxEvents + Cardinality(Containers) :
        Queued(p) ~> (exited \/ Resolved(p))
================================================================================
