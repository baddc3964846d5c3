--------------------------- MODULE EventRouterProofs ---------------------------
(***************************************************************************)
(* Proofs about the event pipeline, for every pool, buffer and bound: its  *)
(* types, its workers and locks; that every event is in one place until it *)
(* has its outcome; that the pipeline implements the ledger; and what this *)
(* says of Rancher's records, of what it never learns and of inspections.  *)
(***************************************************************************)
EXTENDS EventRouter, SequenceTheorems, FiniteSetTheorems, TLAPS

\* A new event extends the two parallel sequences; every pointer stays valid.
LEMMA NewEventType ==
    ASSUME TypeOK,
           NEW c \in Containers, NEW s \in Statuses, NEW f \in {"image", Simulated},
           NewEvent(c, s, f)
    PROVE  /\ events' \in Seq(APIEvents) /\ outcome' \in Seq(Outcomes)
           /\ Len(events') = Len(events) + 1 /\ Len(outcome') = Len(events')
           /\ Len(events) \in Nat
           /\ \A p \in DOMAIN events : events'[p] = events[p] /\ outcome'[p] = outcome[p]
           /\ events'[Len(events')] = [ID |-> c, Status |-> s, From |-> f]
           /\ outcome'[Len(events')] = "pending"
           /\ DOMAIN events = 1 .. Len(events) /\ DOMAIN events' = 1 .. Len(events')
  BY DEF TypeOK, NewEvent, APIEvents, Outcomes

\* An outcome recorded for a made event keeps the types.
LEMMA ResolveType ==
    ASSUME TypeOK, NEW p \in 1 .. Len(events), NEW r \in Outcomes, Resolve(p, r)
    PROVE  /\ events' = events /\ outcome' \in Seq(Outcomes)
           /\ Len(outcome') = Len(events)
           /\ outcome'[p] = r
           /\ \A q \in DOMAIN events : q # p => outcome'[q] = outcome[q]
           /\ DOMAIN events = 1 .. Len(events)
  BY DEF TypeOK, Resolve

\* Pointers and channels typed for the old events are typed for the new ones.
LEMMA PointersGrow ==
    ASSUME TypeOK, Len(events') \in Nat, Len(events) <= Len(events')
    PROVE  /\ lastSeen \in 0 .. Len(events')
           /\ sending \subseteq 1 .. Len(events')
           /\ listener \in Seq(1 .. Len(events'))
           /\ routing \in {Empty} \union (0 .. Len(events'))
           /\ job \in [Workers -> 0 .. Len(events')]
           /\ rancher \subseteq [event : 1 .. Len(events'),
                                 DockerInspect : ContainerStates \union {"none"}]
<1>1. Len(events) \in Nat
  BY DEF TypeOK
<1>2. 1 .. Len(events) \subseteq 1 .. Len(events') /\ 0 .. Len(events) \subseteq 0 .. Len(events')
  BY <1>1
<1>3. listener \in Seq(1 .. Len(events'))
  BY <1>2, SeqMonotonic, Zenon DEF TypeOK
<1>4. job \in [Workers -> 0 .. Len(events')]
  BY <1>2, Zenon DEF TypeOK
<1>5. rancher \subseteq [event : 1 .. Len(events'),
                         DockerInspect : ContainerStates \union {"none"}]
  BY <1>2, Zenon DEF TypeOK
<1>. QED
  BY <1>2, <1>3, <1>4, <1>5, Zenon DEF TypeOK

--------------------------------------------------------------------------------
\* The steps of Docker and its event monitor keep the types.
LEMMA DockerType == TypeOK /\ Docker => TypeOK'
<1>. SUFFICES ASSUME TypeOK, Docker PROVE TypeOK'
  BY Zenon
<1>0. Len(events) \in Nat /\ DOMAIN events = 1 .. Len(events)
  BY DEF TypeOK
<1>1. ASSUME NEW c \in Containers, NEW s \in Statuses, Decoded(c, s),
             docker' \in [Containers -> ContainerStates], monitor' = monitor,
             UNCHANGED <<processVars, routerVars, workerVars, exited>>
      PROVE  TypeOK'
  <2>1. NewEvent(c, s, "image")
    BY <1>1, Zenon DEF Decoded
  <2>2. /\ events' \in Seq(APIEvents) /\ outcome' \in Seq(Outcomes)
        /\ Len(events') = Len(events) + 1 /\ Len(outcome') = Len(events')
    BY <2>1, NewEventType, Zenon
  <2>3. Len(events') \in 1 .. Len(events') /\ sending \subseteq 1 .. Len(events')
    BY <1>0, <2>2, PointersGrow
  <2>4. lastSeen' \in 0 .. Len(events') /\ sending' \subseteq 1 .. Len(events')
    <3>1. Len(events') \in 0 .. Len(events')
      BY <1>0, <2>2
    <3>. QED
      BY <1>1, <2>3, <3>1, Zenon DEF Decoded
  <2>. QED
    BY <1>0, <1>1, <2>2, <2>4, PointersGrow
    DEF TypeOK, processVars, routerVars, workerVars
<1>2. ASSUME NEW c \in Containers, ContainerStep(c) PROVE TypeOK'
  <2>1. PICK step \in Lifecycle :
            /\ docker' = [docker EXCEPT ![c] = step[3]]
            /\ IF monitor = "streaming"
               THEN Decoded(c, step[1])
               ELSE UNCHANGED <<eventVars, lastSeen, sending>>
    BY <1>2, Zenon DEF ContainerStep
  <2>2. step[1] \in Statuses /\ step[3] \in ContainerStates
    BY LifecycleAssumption, Zenon
  <2>3. docker' \in [Containers -> ContainerStates]
    BY <2>1, <2>2, Zenon DEF TypeOK
  <2>4. CASE monitor = "streaming"
    BY <1>1, <1>2, <2>1, <2>2, <2>3, <2>4, Zenon DEF ContainerStep
  <2>5. CASE monitor # "streaming"
    BY <1>2, <2>1, <2>3, <2>5, Zenon
    DEF ContainerStep, TypeOK, eventVars, processVars, routerVars, workerVars
  <2>. QED
    BY <2>4, <2>5, Zenon
<1>3. CASE Connect
  BY <1>3, Zenon DEF Connect, TypeOK, eventVars, processVars, routerVars, workerVars
<1>4. CASE Reconnect
  <2>1. lastSeen \in 1 .. Len(events)
    BY <1>0, <1>4 DEF Reconnect, TypeOK, Nil
  <2>2. events[lastSeen] \in APIEvents
    BY <2>1, ElementOfSeq, Zenon DEF TypeOK
  <2>3. events[lastSeen].ID \in Containers /\ events[lastSeen].Status \in Statuses
    BY <2>2, Zenon DEF APIEvents
  <2>. QED
    BY <1>1, <1>4, <2>3, Zenon DEF Reconnect, TypeOK
<1>5. CASE StreamEOF
  BY <1>5, Zenon DEF StreamEOF, TypeOK, eventVars, processVars, routerVars, workerVars
<1>6. ASSUME NEW p \in sending, SendEvent(p) PROVE TypeOK'
  <2>1. p \in 1 .. Len(events)
    BY Zenon DEF TypeOK
  <2>2. CASE listener' = Append(listener, p) /\ Len(listener) < BufferSize /\ UNCHANGED eventVars
    <3>1. Append(listener, p) \in Seq(1 .. Len(events))
          /\ Len(Append(listener, p)) = Len(listener) + 1 /\ Len(listener) \in Nat
      BY <2>1, AppendProperties DEF TypeOK
    <3>2. Len(listener') <= BufferSize
      BY <2>2, <3>1, EventRouterAssumption
    <3>. QED
      BY <1>6, <2>2, <3>1, <3>2, Zenon DEF SendEvent, TypeOK, eventVars, processVars,
          workerVars
  <2>3. CASE Resolve(p, "undelivered") /\ UNCHANGED listener
    <3>1. events' = events /\ outcome' \in Seq(Outcomes) /\ Len(outcome') = Len(events)
      BY <2>1, <2>3, ResolveType, Zenon DEF Outcomes
    <3>. QED
      BY <1>6, <2>3, <3>1, Zenon DEF SendEvent, TypeOK, processVars, workerVars
  <2>. QED
    BY <1>6, <2>2, <2>3, Zenon DEF SendEvent
<1>. QED
  BY <1>2, <1>3, <1>4, <1>5, <1>6, Zenon DEF Docker

\* The steps of Process, Start and Stop keep the types.
LEMMA ProcessType == TypeOK /\ Process => TypeOK'
<1>. SUFFICES ASSUME TypeOK, Process PROVE TypeOK'
  BY Zenon
<1>1. CASE Start
  BY <1>1, Zenon DEF Start, TypeOK, eventVars, routerVars, workerVars
<1>2. CASE ListContainers
  BY <1>2, Zenon DEF ListContainers, TypeOK, monitorVars, eventVars, routerVars, workerVars
<1>3. CASE ProcessFails
  BY <1>3, Zenon
    DEF ProcessFails, TypeOK, monitorVars, processVars, eventVars, routerVars, workerVars
<1>4. CASE Stop
  BY <1>4, Zenon DEF Stop, TypeOK, eventVars, processVars, routerVars, workerVars
<1>5. ASSUME NEW c \in Containers, SendSimulated(c) PROVE TypeOK'
  <2>1. CASE exited' = TRUE /\ UNCHANGED <<toSimulate, eventVars, listener>>
    BY <1>5, <2>1, Zenon DEF SendSimulated, TypeOK, monitorVars, eventVars, workerVars
  <2>2. CASE /\ Len(listener) < BufferSize
             /\ toSimulate' = toSimulate \ {c}
             /\ NewEvent(c, "start", Simulated)
             /\ listener' = Append(listener, Len(events'))
             /\ UNCHANGED exited
    <3>1. /\ events' \in Seq(APIEvents) /\ outcome' \in Seq(Outcomes)
          /\ Len(events') = Len(events) + 1 /\ Len(outcome') = Len(events')
          /\ Len(events) \in Nat
      BY <2>2, NewEventType, Zenon DEF Statuses
    <3>2. listener \in Seq(1 .. Len(events')) /\ Len(events') \in 1 .. Len(events')
      BY <3>1, PointersGrow
    <3>3. listener' \in Seq(1 .. Len(events')) /\ Len(listener') = Len(listener) + 1
          /\ Len(listener) \in Nat
      BY <2>2, <3>2, AppendProperties
    <3>4. Len(listener') <= BufferSize
      BY <2>2, <3>3, EventRouterAssumption
    <3>. QED
      BY <1>5, <2>2, <3>1, <3>3, <3>4, PointersGrow
      DEF SendSimulated, TypeOK, monitorVars, workerVars
  <2>. QED
    BY <1>5, <2>1, <2>2, Zenon DEF SendSimulated
<1>. QED
  BY <1>1, <1>2, <1>3, <1>4, <1>5, Zenon DEF Process

\* The steps of routeEvents keep the types.
LEMMA RouterType == TypeOK /\ (RouteEvents \/ WorkerTimeout) => TypeOK'
<1>. SUFFICES ASSUME TypeOK, RouteEvents \/ WorkerTimeout PROVE TypeOK'
  BY Zenon
<1>0. Len(events) \in Nat
  BY DEF TypeOK
<1>1. CASE Receive
  <2>1. CASE listener # <<>> /\ routing' = Head(listener) /\ listener' = Tail(listener)
    <3>1. /\ Head(listener) \in 1 .. Len(events) /\ Tail(listener) \in Seq(1 .. Len(events))
          /\ Len(Tail(listener)) = Len(listener) - 1 /\ Len(listener) \in Nat
      BY <2>1, HeadTailProperties DEF TypeOK
    <3>2. Len(listener') <= BufferSize /\ routing' \in 0 .. Len(events)
      BY <1>0, <2>1, <3>1, EventRouterAssumption DEF TypeOK
    <3>. QED
      BY <1>1, <2>1, <3>1, <3>2, Zenon
      DEF Receive, TypeOK, monitorVars, processVars, eventVars, workerVars
  <2>2. CASE routing' = Nil /\ UNCHANGED listener
    BY <1>0, <1>1, <2>2
    DEF Receive, TypeOK, Nil, monitorVars, processVars, eventVars, workerVars
  <2>. QED
    BY <1>1, <2>1, <2>2, Zenon DEF Receive
<1>2. ASSUME NEW w \in Workers, GotWorker(w) PROVE TypeOK'
  <2>1. routing \in 0 .. Len(events)
    BY <1>2, Zenon DEF GotWorker, TypeOK
  <2>. QED
    BY <1>2, <2>1, Zenon
    DEF GotWorker, TypeOK, Stages, monitorVars, processVars, eventVars
<1>3. CASE WorkerTimeout
  BY <1>3, Zenon DEF WorkerTimeout, TypeOK, monitorVars, processVars, eventVars, workerVars
<1>. QED
  BY <1>1, <1>2, <1>3, Zenon DEF RouteEvents

\* A worker past the nil check holds a pointer to an event.
JobsMade == \A w \in Workers : Reporting(w) => job[w] # Nil

\* The steps of a doWork goroutine keep the types.
LEMMA WorkerType ==
    ASSUME TypeOK, JobsMade, NEW w \in Workers, DoWork(w)
    PROVE  TypeOK'
<1>0. Len(events) \in Nat /\ job[w] \in 0 .. Len(events)
  BY DEF TypeOK
<1>1. ASSUME job[w] # Nil PROVE job[w] \in 1 .. Len(events) /\ Key(job[w]) \in Statuses \X Containers
  <2>1. job[w] \in 1 .. Len(events)
    BY <1>0, <1>1 DEF Nil
  <2>2. events[job[w]] \in APIEvents
    BY <2>1, ElementOfSeq, Zenon DEF TypeOK
  <2>. QED
    BY <2>1, <2>2, Zenon DEF APIEvents, Key
<1>2. ASSUME job[w] # Nil, NEW r \in Outcomes, Resolve(job[w], r)
      PROVE  events' = events /\ outcome' \in Seq(Outcomes) /\ Len(outcome') = Len(events)
  BY <1>1, <1>2, ResolveType, Zenon
<1>3. CASE DoNil(w)
  BY <1>3, Zenon DEF DoNil, Goto, TypeOK, Stages, monitorVars, processVars, eventVars,
      routerVars
<1>4. CASE Ignore(w)
  <2>1. events' = events /\ outcome' \in Seq(Outcomes) /\ Len(outcome') = Len(events)
    BY <1>2, <1>4, Zenon DEF Ignore, Outcomes
  <2>. QED
    BY <1>4, <2>1, Zenon DEF Ignore, Goto, TypeOK, Stages, monitorVars, processVars,
        routerVars
<1>5. CASE Lock(w)
  BY <1>1, <1>5, Zenon
  DEF Lock, Reportable, Goto, TypeOK, Stages, monitorVars, processVars, eventVars, routerVars
<1>6. CASE LockBusy(w)
  <2>1. events' = events /\ outcome' \in Seq(Outcomes) /\ Len(outcome') = Len(events)
    BY <1>2, <1>6, Zenon DEF LockBusy, Reportable, Outcomes
  <2>. QED
    BY <1>6, <2>1, Zenon DEF LockBusy, Goto, TypeOK, Stages, monitorVars, processVars,
        routerVars
<1>7. CASE InspectContainer(w)
  <2>1. job[w] # Nil
    BY <1>7, Zenon DEF InspectContainer, Goto, JobsMade, Reporting
  <2>2. docker[events[job[w]].ID] \in ContainerStates
    <3>1. events[job[w]] \in APIEvents
      BY <1>1, <2>1, ElementOfSeq, Zenon DEF TypeOK
    <3>. QED
      BY <3>1, Zenon DEF TypeOK, APIEvents
  <2>3. CASE Goto(w, "inspect", "unlock") /\ CallFails(w) /\ UNCHANGED inspect
    <3>1. events' = events /\ outcome' \in Seq(Outcomes) /\ Len(outcome') = Len(events)
      BY <1>2, <2>1, <2>3, Zenon DEF CallFails, Outcomes
    <3>2. faults' \in 0 .. MaxFaults
      BY <2>3, EventRouterAssumption DEF CallFails, TypeOK
    <3>. QED
      BY <1>7, <2>3, <3>1, <3>2, Zenon
      DEF InspectContainer, Goto, TypeOK, Stages, monitorVars, processVars, routerVars
  <2>4. CASE /\ Goto(w, "inspect", "create") /\ UNCHANGED <<eventVars, faults>>
             /\ inspect' = [inspect EXCEPT ![w] =
                                IF docker[events[job[w]].ID] = "gone" THEN "none"
                                ELSE docker[events[job[w]].ID]]
    BY <1>7, <2>2, <2>4, Zenon
    DEF InspectContainer, Goto, TypeOK, Stages, monitorVars, processVars, eventVars, routerVars
  <2>. QED
    BY <1>7, <2>3, <2>4, Zenon DEF InspectContainer
<1>8. CASE CreateContainerEvent(w)
  <2>1. job[w] # Nil
    BY <1>8, Zenon DEF CreateContainerEvent, Goto, JobsMade, Reporting
  <2>2. inspect' \in [Workers -> ContainerStates \union {"none"}]
        /\ stage' \in [Workers -> Stages]
    BY <1>8, Zenon DEF CreateContainerEvent, Goto, TypeOK, Stages
  <2>3. CASE CallFails(w) /\ UNCHANGED rancher
    <3>1. events' = events /\ outcome' \in Seq(Outcomes) /\ Len(outcome') = Len(events)
      BY <1>2, <2>1, <2>3, Zenon DEF CallFails, Outcomes
    <3>2. faults' \in 0 .. MaxFaults
      BY <2>3, EventRouterAssumption DEF CallFails, TypeOK
    <3>. QED
      BY <1>8, <2>2, <2>3, <3>1, <3>2, Zenon
      DEF CreateContainerEvent, TypeOK, monitorVars, processVars, routerVars
  <2>4. CASE /\ rancher' = rancher \union
                              {[event |-> job[w], DockerInspect |-> inspect[w]]}
             /\ Resolve(job[w], "created") /\ UNCHANGED faults
    <3>1. events' = events /\ outcome' \in Seq(Outcomes) /\ Len(outcome') = Len(events)
      BY <1>2, <2>1, <2>4, Zenon DEF Outcomes
    <3>2. job[w] \in 1 .. Len(events) /\ inspect[w] \in ContainerStates \union {"none"}
      BY <1>1, <2>1, Zenon DEF TypeOK
    <3>3. rancher' \subseteq [event : 1 .. Len(events),
                              DockerInspect : ContainerStates \union {"none"}]
      BY <2>4, <3>2 DEF TypeOK
    <3>. QED
      BY <1>8, <2>2, <2>4, <3>1, <3>3, Zenon
      DEF CreateContainerEvent, TypeOK, monitorVars, processVars, routerVars
  <2>. QED
    BY <1>8, <2>3, <2>4, Zenon DEF CreateContainerEvent
<1>9. CASE Unlock(w)
  BY <1>9, Zenon DEF Unlock, Goto, TypeOK, Stages, monitorVars, processVars, eventVars,
      routerVars
<1>10. CASE ReturnWorker(w)
  BY <1>0, <1>10
  DEF ReturnWorker, Goto, TypeOK, Stages, Nil, monitorVars, processVars, eventVars, routerVars
<1>. QED
  BY <1>3, <1>4, <1>5, <1>6, <1>7, <1>8, <1>9, <1>10, Zenon DEF DoWork

--------------------------------------------------------------------------------
\* A step keeps the events made so far; it adds at most one.
LEMMA EventsKept ==
    ASSUME TypeOK, JobsMade, Next
    PROVE  \A p \in 1 .. Len(events) : events'[p] = events[p]
<1>1. ASSUME NEW c \in Containers, NEW s \in Statuses, NEW f \in {"image", Simulated},
             NewEvent(c, s, f)
      PROVE  \A p \in 1 .. Len(events) : events'[p] = events[p]
  BY <1>1, NewEventType, Zenon
<1>2. ASSUME UNCHANGED events PROVE \A p \in 1 .. Len(events) : events'[p] = events[p]
  BY <1>2, Zenon
<1>3. ASSUME NEW c \in Containers, ContainerStep(c)
      PROVE  \A p \in 1 .. Len(events) : events'[p] = events[p]
  <2>1. PICK step \in Lifecycle :
            IF monitor = "streaming" THEN Decoded(c, step[1]) ELSE UNCHANGED eventVars
    BY <1>3, Zenon DEF ContainerStep
  <2>2. step[1] \in Statuses
    BY LifecycleAssumption, Zenon
  <2>. QED
    BY <1>1, <1>2, <2>1, <2>2, Zenon DEF Decoded, eventVars
<1>4. ASSUME Reconnect PROVE \A p \in 1 .. Len(events) : events'[p] = events[p]
  <2>1. lastSeen \in 1 .. Len(events)
    BY <1>4 DEF Reconnect, TypeOK, Nil
  <2>2. events[lastSeen] \in APIEvents
    BY <2>1, ElementOfSeq, Zenon DEF TypeOK
  <2>. QED
    BY <1>1, <1>4, <2>2, Zenon DEF Reconnect, Decoded, APIEvents
<1>5. ASSUME NEW c \in Containers, SendSimulated(c)
      PROVE  \A p \in 1 .. Len(events) : events'[p] = events[p]
  BY <1>1, <1>2, <1>5, Zenon DEF SendSimulated, eventVars, Statuses
<1>6. ASSUME \/ Connect \/ StreamEOF \/ \E p \in sending : SendEvent(p)
             \/ Start \/ ListContainers \/ ProcessFails \/ Stop
             \/ RouteEvents \/ WorkerTimeout \/ \E w \in Workers : DoWork(w)
      PROVE  \A p \in 1 .. Len(events) : events'[p] = events[p]
  BY <1>2, <1>6, Zenon
  DEF Connect, StreamEOF, SendEvent, Start, ListContainers, ProcessFails, Stop, RouteEvents,
      Receive, GotWorker, WorkerTimeout, DoWork, DoNil, Ignore, Lock, LockBusy,
      InspectContainer, CreateContainerEvent, Unlock, ReturnWorker, Resolve, CallFails,
      eventVars
<1>. QED
  BY <1>3, <1>4, <1>5, <1>6, Zenon DEF Next, Docker, Process

\* Only GotWorker and DoWork change the workers and the locks.
LEMMA WorkersKept ==
    ASSUME Next
    PROVE  \/ UNCHANGED <<workers, stage, job, lockedItems>>
           \/ \E w \in Workers : GotWorker(w) \/ DoWork(w)
  BY Zenon DEF Next, Docker, Process, RouteEvents, ContainerStep, Connect, Reconnect,
      StreamEOF,
         SendEvent, Start, ListContainers, ProcessFails, Stop, SendSimulated, Receive,
         WorkerTimeout, workerVars

\* JobsMade is preserved: a worker passes the nil check before it locks.
LEMMA JobsMadeStep == TypeOK /\ JobsMade /\ Next => JobsMade'
<1>. SUFFICES ASSUME TypeOK, JobsMade, Next PROVE JobsMade'
  BY Zenon
<1>1. CASE UNCHANGED <<workers, stage, job, lockedItems>>
  BY <1>1, Zenon DEF JobsMade, Reporting
<1>2. ASSUME NEW w \in Workers, GotWorker(w) PROVE JobsMade'
  BY <1>2, Zenon DEF JobsMade, Reporting, GotWorker, TypeOK
<1>3. ASSUME NEW w \in Workers, DoWork(w) PROVE JobsMade'
  BY <1>3, Zenon
  DEF JobsMade, Reporting, TypeOK, DoWork, DoNil, Ignore, Lock, LockBusy, InspectContainer,
      CreateContainerEvent, Unlock, ReturnWorker, Goto, Reportable
<1>. QED
  BY <1>1, <1>2, <1>3, WorkersKept, Zenon

\* WorkersConserved is preserved: the pool and the idle workers change together.
LEMMA WorkersConservedStep == TypeOK /\ WorkersConserved /\ Next => WorkersConserved'
<1>. SUFFICES ASSUME TypeOK, WorkersConserved, Next PROVE WorkersConserved'
  BY Zenon
<1>1. CASE UNCHANGED <<workers, stage, job, lockedItems>>
  BY <1>1, Zenon DEF WorkersConserved
<1>2. ASSUME NEW w \in Workers, GotWorker(w) PROVE WorkersConserved'
  BY <1>2, ZenonT(30) DEF WorkersConserved, GotWorker, TypeOK
<1>3. ASSUME NEW w \in Workers, DoWork(w) PROVE WorkersConserved'
  BY <1>3, Zenon
  DEF WorkersConserved, TypeOK, DoWork, DoNil, Ignore, Lock, LockBusy, InspectContainer,
      CreateContainerEvent, Unlock, ReturnWorker, Goto
<1>. QED
  BY <1>1, <1>2, <1>3, WorkersKept, Zenon

\* LocksOwned is preserved. Keys are stable because events are; a worker taken from
\* the pool owned no lock because the pool holds only idle workers.
LEMMA LocksOwnedStep ==
    TypeOK /\ JobsMade /\ WorkersConserved /\ LocksOwned /\ Next => LocksOwned'
<1>. SUFFICES ASSUME TypeOK, JobsMade, WorkersConserved, LocksOwned, Next PROVE LocksOwned'
  BY Zenon
<1>1. \A p \in 1 .. Len(events) : <<events'[p].Status, events'[p].ID>> = Key(p)
  BY EventsKept, Zenon DEF Key
<1>2. \A w \in Workers : Reporting(w) => job[w] \in 1 .. Len(events)
  BY DEF JobsMade, TypeOK, Nil
<1>3. CASE UNCHANGED <<workers, stage, job, lockedItems>>
  BY <1>1, <1>2, <1>3 DEF LocksOwned, Reporting, Key
<1>4. ASSUME NEW w \in Workers, GotWorker(w) PROVE LocksOwned'
  <2>1. ~Reporting(w) /\ ~Reporting(w)'
    BY <1>4, Zenon DEF WorkersConserved, Reporting, GotWorker, TypeOK
  <2>2. \A v \in Workers : v # w => Reporting(v)' = Reporting(v) /\ job'[v] = job[v]
    BY <1>4, Zenon DEF Reporting, GotWorker, TypeOK
  <2>3. UNCHANGED <<events, lockedItems>>
    BY <1>4, Zenon DEF GotWorker, eventVars
  <2>. QED
    BY <2>1, <2>2, <2>3 DEF LocksOwned, Key
<1>5. ASSUME NEW w \in Workers, DoWork(w) PROVE LocksOwned'
  <2>1. UNCHANGED events
    BY <1>5, Zenon DEF DoWork, DoNil, Ignore, Lock, LockBusy, InspectContainer,
                CreateContainerEvent, Unlock, ReturnWorker, Resolve, CallFails, eventVars
  <2>2. \A v \in Workers : v # w => Reporting(v)' = Reporting(v) /\ job'[v] = job[v]
    BY <1>5, Zenon
      DEF Reporting, TypeOK, DoWork, DoNil, Ignore, Lock, LockBusy, InspectContainer,
                CreateContainerEvent, Unlock, ReturnWorker, Goto
  <2>3. CASE DoNil(w) \/ Ignore(w) \/ LockBusy(w) \/ ReturnWorker(w)
    <3>1. ~Reporting(w) /\ ~Reporting(w)' /\ UNCHANGED lockedItems
      BY <2>3, Zenon DEF Reporting, TypeOK, DoNil, Ignore, LockBusy, ReturnWorker, Goto
    <3>. QED
      BY <2>1, <2>2, <3>1 DEF LocksOwned, Key
  <2>4. CASE InspectContainer(w) \/ CreateContainerEvent(w)
    <3>1. Reporting(w) /\ Reporting(w)' /\ job'[w] = job[w] /\ UNCHANGED lockedItems
      BY <2>4, Zenon DEF Reporting, TypeOK, InspectContainer, CreateContainerEvent, Goto
    <3>. QED
      BY <2>1, <2>2, <3>1 DEF LocksOwned, Key
  <2>5. CASE Lock(w)
    <3>1. /\ ~Reporting(w) /\ Reporting(w)' /\ job'[w] = job[w]
          /\ Key(job[w]) \notin lockedItems
          /\ lockedItems' = lockedItems \union {Key(job[w])}
      BY <2>5, Zenon DEF Reporting, TypeOK, Lock, Goto
    <3>. QED
      BY <2>1, <2>2, <3>1 DEF LocksOwned, Key
  <2>6. CASE Unlock(w)
    <3>1. /\ Reporting(w) /\ ~Reporting(w)' /\ job'[w] = job[w]
          /\ lockedItems' = lockedItems \ {Key(job[w])}
      BY <2>6, Zenon DEF Reporting, TypeOK, Unlock, Goto
    <3>. QED
      BY <2>1, <2>2, <3>1 DEF LocksOwned, Key
  <2>. QED
    BY <1>5, <2>3, <2>4, <2>5, <2>6, Zenon DEF DoWork
<1>. QED
  BY <1>3, <1>4, <1>5, WorkersKept, Zenon

--------------------------------------------------------------------------------
\* The inductive invariant behind type correctness, the pool and the locks.
PoolInv == TypeOK /\ JobsMade /\ WorkersConserved /\ LocksOwned

\* The initial state satisfies the invariant.
LEMMA PoolInit == Init => PoolInv
<1>. SUFFICES ASSUME Init PROVE PoolInv
  BY Zenon
<1>1. TypeOK
  <2>1. /\ events \in Seq(APIEvents) /\ Len(events) = 0
        /\ outcome \in Seq(Outcomes) /\ Len(outcome) = 0
        /\ listener \in Seq(1 .. Len(events)) /\ Len(listener) = 0
    BY EmptySeq, Zenon DEF Init
  <2>2. docker \in [Containers -> ContainerStates] /\ stage \in [Workers -> Stages]
    BY Zenon DEF Init, ContainerStates, Stages
  <2>3. 0 <= BufferSize /\ faults \in 0 .. MaxFaults
    BY EventRouterAssumption DEF Init
  <2>4. /\ lastSeen \in 0 .. Len(events) /\ job \in [Workers -> 0 .. Len(events)]
        /\ inspect \in [Workers -> ContainerStates \union {"none"}]
    BY <2>1 DEF Init, Nil
  <2>5. timer \in BOOLEAN /\ exited \in BOOLEAN
    BY Zenon DEF Init
  <2>. QED
    BY <2>1, <2>2, <2>3, <2>4, <2>5, Zenon DEF Init, TypeOK
<1>2. JobsMade /\ WorkersConserved /\ LocksOwned
  BY Zenon DEF Init, JobsMade, WorkersConserved, LocksOwned, Reporting
<1>. QED
  BY <1>1, <1>2, Zenon DEF PoolInv

\* Every step preserves it.
LEMMA PoolStep == PoolInv /\ [Next]_vars => PoolInv'
<1>. SUFFICES ASSUME PoolInv, [Next]_vars PROVE PoolInv'
  BY Zenon
<1>1. CASE Next
  <2>1. TypeOK'
    BY <1>1, DockerType, ProcessType, RouterType, WorkerType, Zenon DEF PoolInv, Next
  <2>. QED
    BY <1>1, <2>1, JobsMadeStep, WorkersConservedStep, LocksOwnedStep, Zenon DEF PoolInv
<1>2. CASE UNCHANGED vars
  BY <1>2, Zenon
  DEF PoolInv, TypeOK, JobsMade, WorkersConserved, LocksOwned, Reporting, Key, vars,
      eventVars, monitorVars, processVars, routerVars, workerVars
<1>. QED
  BY <1>1, <1>2, Zenon

\* Type correctness: pointers are valid, the listener never exceeds its capacity.
THEOREM TypeCorrect == Spec => []TypeOK
<1>1. PoolInv => TypeOK
  BY Zenon DEF PoolInv
<1>. QED
  BY <1>1, PoolInit, PoolStep, PTL DEF Spec

\* No worker of the pool is ever lost or handed out twice, whatever the event and
\* whatever call fails.
THEOREM PoolConserved == Spec => []WorkersConserved
<1>1. PoolInv => WorkersConserved
  BY Zenon DEF PoolInv
<1>. QED
  BY <1>1, PoolInit, PoolStep, PTL DEF Spec

\* The lock on status and container is exclusive and never leaks.
THEOREM LocksExclusive == Spec => []LocksOwned
<1>1. PoolInv => LocksOwned
  BY Zenon DEF PoolInv
<1>. QED
  BY <1>1, PoolInit, PoolStep, PTL DEF Spec

--------------------------------------------------------------------------------
\* No event is in the listener twice.
Distinct == \A i, j \in DOMAIN listener : listener[i] = listener[j] => i = j

\* Sending on the listener queues the event sent and nothing else.
LEMMA QueuedAppend ==
    ASSUME NEW S, listener \in Seq(S), NEW x \in S, listener' = Append(listener, x)
    PROVE  /\ \A q : Queued(q)' <=> Queued(q) \/ q = x
           /\ Distinct /\ ~Queued(x) => Distinct'
<1>1. /\ Len(listener) \in Nat /\ DOMAIN listener = 1 .. Len(listener)
      /\ DOMAIN listener' = 1 .. Len(listener) + 1
      /\ \A i \in 1 .. Len(listener) : listener'[i] = listener[i]
      /\ listener'[Len(listener) + 1] = x
  BY AppendProperties, LenProperties
<1>2. ASSUME NEW q PROVE Queued(q)' <=> Queued(q) \/ q = x
  BY <1>1 DEF Queued
<1>3. ASSUME Distinct, ~Queued(x) PROVE Distinct'
  BY <1>1, <1>3 DEF Distinct, Queued
<1>. QED
  BY <1>2, <1>3, Zenon

\* Receiving from the listener takes out its first event and nothing else.
LEMMA QueuedTail ==
    ASSUME NEW S, listener \in Seq(S), listener # <<>>, listener' = Tail(listener), Distinct
    PROVE  /\ \A q : Queued(q)' <=> Queued(q) /\ q # Head(listener)
           /\ Queued(Head(listener))
           /\ Distinct'
<1>1. /\ Len(listener) \in Nat \ {0} /\ DOMAIN listener = 1 .. Len(listener)
      /\ DOMAIN listener' = 1 .. Len(listener) - 1
      /\ \A i \in 1 .. Len(listener) - 1 : listener'[i] = listener[i + 1]
      /\ Head(listener) = listener[1]
  BY HeadTailProperties, LenProperties, EmptySeq
<1>2. ASSUME NEW q, Queued(q) PROVE Queued(q)' \/ q = Head(listener)
  <2>1. PICK i \in 1 .. Len(listener) : listener[i] = q
    BY <1>1, <1>2, Zenon DEF Queued
  <2>2. CASE i = 1
    BY <1>1, <2>1, <2>2, Zenon
  <2>3. CASE i # 1
    <3>1. i - 1 \in 1 .. Len(listener) - 1 /\ listener'[i - 1] = listener[(i - 1) + 1]
      BY <1>1, <2>1, <2>3
    <3>2. listener'[i - 1] = q
      BY <1>1, <2>1, <3>1
    <3>. QED
      BY <1>1, <3>1, <3>2, Zenon DEF Queued
  <2>. QED
    BY <2>2, <2>3, Zenon
<1>3. ASSUME NEW q, Queued(q)' PROVE Queued(q) /\ q # Head(listener)
  <2>1. PICK i \in 1 .. Len(listener) - 1 : listener'[i] = q
    BY <1>1, <1>3, Zenon DEF Queued
  <2>2. i + 1 \in 1 .. Len(listener) /\ listener[i + 1] = q /\ i + 1 # 1 /\ 1 \in 1 .. Len(listener)
    BY <1>1, <2>1
  <2>. QED
    BY <1>1, <2>2, Zenon DEF Queued, Distinct
<1>4. Queued(Head(listener))
  BY <1>1 DEF Queued
<1>5. Distinct'
  <2>. SUFFICES ASSUME NEW i \in 1 .. Len(listener) - 1, NEW j \in 1 .. Len(listener) - 1,
                       listener'[i] = listener'[j]
                PROVE  i = j
    BY <1>1, Zenon DEF Distinct
  <2>1. i + 1 \in 1 .. Len(listener) /\ j + 1 \in 1 .. Len(listener)
        /\ listener[i + 1] = listener[j + 1]
    BY <1>1
  <2>2. i + 1 = j + 1
    BY <1>1, <2>1, Zenon DEF Distinct
  <2>. QED
    BY <1>1, <2>2
<1>. QED
  BY <1>2, <1>3, <1>4, <1>5, Zenon

--------------------------------------------------------------------------------
\* A worker that keeps an event it no longer handles has resolved it, and an idle
\* worker keeps none.
JobsResolved ==
    \A w \in Workers :
        /\ stage[w] = "idle" => job[w] = Nil
        /\ stage[w] \in {"unlock", "return"} /\ job[w] # Nil => outcome[job[w]] # "pending"

OnceInv == PoolInv /\ JobsResolved /\ EachEventOnce

\* The places of events under OnceInv, as facts about pointers.
LEMMA Places ==
    ASSUME OnceInv
    PROVE  /\ Len(events) \in Nat
           /\ DOMAIN events = 1 .. Len(events) /\ DOMAIN outcome = 1 .. Len(events)
           /\ sending \subseteq 1 .. Len(events)
           /\ \A q : Queued(q) => q \in 1 .. Len(events)
           /\ routing \in {Empty} \union (0 .. Len(events))
           /\ \A w \in Workers : job[w] \in 0 .. Len(events)
           /\ \A w \in Workers : Holds(w) => job[w] \in 1 .. Len(events)
           /\ Distinct
<1>1. TypeOK
  BY Zenon DEF OnceInv, PoolInv
<1>2. /\ Len(events) \in Nat
      /\ DOMAIN events = 1 .. Len(events) /\ DOMAIN outcome = 1 .. Len(events)
      /\ DOMAIN listener = 1 .. Len(listener)
  BY <1>1 DEF TypeOK
<1>3. ASSUME NEW q, Queued(q) PROVE q \in 1 .. Len(events)
  BY <1>1, <1>2, <1>3, ElementOfSeq, Zenon DEF TypeOK, Queued
<1>4. \A w \in Workers : job[w] \in 0 .. Len(events)
  BY <1>1, Zenon DEF TypeOK
<1>5. ASSUME NEW w \in Workers, Holds(w) PROVE job[w] \in 1 .. Len(events)
  BY <1>2, <1>4, <1>5 DEF Holds, Nil
<1>. QED
  BY <1>1, <1>2, <1>3, <1>4, <1>5, Zenon DEF TypeOK, OnceInv, EachEventOnce, Distinct

\* A decoded event starts in exactly one place, its sendEvent goroutine.
LEMMA DecodedOnce ==
    ASSUME OnceInv, NEW c \in Containers, NEW s \in Statuses, Decoded(c, s),
           UNCHANGED <<routerVars, workerVars>>
    PROVE  EachEventOnce' /\ JobsResolved'
<1>1. /\ Len(events') = Len(events) + 1 /\ DOMAIN events' = 1 .. Len(events')
      /\ \A p \in 1 .. Len(events) : outcome'[p] = outcome[p]
      /\ outcome'[Len(events')] = "pending"
      /\ sending' = sending \union {Len(events')}
  BY NewEventType, Zenon DEF OnceInv, PoolInv, Decoded
<1>2. /\ \A q : Queued(q)' <=> Queued(q)
      /\ Distinct' <=> Distinct
      /\ \A w \in Workers : Holds(w)' <=> Holds(w)
      /\ UNCHANGED <<routing, job, stage>>
  BY Zenon DEF routerVars, workerVars, Queued, Holds, Distinct
<1>3. /\ Len(events) \in Nat /\ Len(events') \notin 1 .. Len(events)
      /\ Len(events') \notin 0 .. Len(events) /\ Len(events') # Empty
      /\ \A p \in DOMAIN events' : p \in 1 .. Len(events) \/ p = Len(events')
      /\ Len(events') \in DOMAIN events'
  BY <1>1, Places DEF Empty
<1>4. \A p \in DOMAIN events' : InFlight(p)' <=> outcome'[p] = "pending"
  <2>. SUFFICES ASSUME NEW p \in DOMAIN events' PROVE InFlight(p)' <=> outcome'[p] = "pending"
    BY Zenon
  <2>1. CASE p \in 1 .. Len(events)
    BY <1>1, <1>2, <1>3, <2>1, Places, Zenon DEF InFlight, OnceInv, EachEventOnce
  <2>2. CASE p = Len(events')
    BY <1>1, <2>2, Zenon DEF InFlight
  <2>. QED
    BY <1>3, <2>1, <2>2, Zenon
<1>5. \A p \in sending' : ~Queued(p)' /\ routing' # p
  BY <1>1, <1>2, <1>3, Places, Zenon DEF OnceInv, EachEventOnce
<1>6. \A w \in Workers : Holds(w)' =>
          /\ job'[w] \notin sending' /\ ~Queued(job[w])' /\ routing' # job'[w]
          /\ \A v \in Workers : job'[v] = job'[w] => v = w
  BY <1>1, <1>2, <1>3, Places, Zenon DEF OnceInv, EachEventOnce
<1>7. ~Queued(routing)' /\ Distinct'
  BY <1>2, Places, Zenon DEF OnceInv, EachEventOnce
<1>8. JobsResolved'
  <2>1. \A w \in Workers : job[w] # Nil => job[w] \in 1 .. Len(events)
    BY Places DEF Nil
  <2>. QED
    BY <1>1, <1>2, <2>1, Zenon DEF OnceInv, JobsResolved
<1>. QED
  BY <1>4, <1>5, <1>6, <1>7, <1>8, Zenon DEF EachEventOnce, Distinct

\* sendEvent moves its event to the listener, or drops it when monitoring is over.
LEMMA SendEventOnce ==
    ASSUME OnceInv, NEW p \in sending, SendEvent(p)
    PROVE  EachEventOnce' /\ JobsResolved'
<1>1. /\ sending' = sending \ {p} /\ UNCHANGED <<routing, job, stage>>
      /\ \A w \in Workers : Holds(w)' <=> Holds(w)
  BY Zenon DEF SendEvent, workerVars, Holds
<1>2. TypeOK /\ p \in 1 .. Len(events)
  BY Places, Zenon DEF OnceInv, PoolInv
<1>3. ~Queued(p) /\ routing # p /\ outcome[p] = "pending" /\ (\A w \in Workers : Holds(w) => job[w] # p)
  BY <1>2, Places, Zenon DEF OnceInv, EachEventOnce, InFlight
<1>4. CASE listener' = Append(listener, p) /\ UNCHANGED eventVars
  <2>1. (\A q : Queued(q)' <=> Queued(q) \/ q = p) /\ Distinct'
    BY <1>2, <1>3, <1>4, QueuedAppend, Places, Zenon DEF TypeOK
  <2>2. UNCHANGED <<events, outcome>>
    BY <1>4, Zenon DEF eventVars
  <2>3. \A q \in DOMAIN events' : InFlight(q)' <=> outcome'[q] = "pending"
    BY <1>1, <1>3, <2>1, <2>2, Zenon DEF OnceInv, EachEventOnce, InFlight
  <2>4. ~Queued(routing)'
    BY <1>1, <1>3, <2>1, Zenon DEF OnceInv, EachEventOnce
  <2>5. \A w \in Workers : Holds(w)' =>
          /\ job'[w] \notin sending' /\ ~Queued(job[w])' /\ routing' # job'[w]
          /\ \A v \in Workers : job'[v] = job'[w] => v = w
    BY <1>1, <1>3, <2>1, Zenon DEF OnceInv, EachEventOnce
  <2>6. \A q \in sending' : ~Queued(q)' /\ routing' # q
    BY <1>1, <2>1, Zenon DEF OnceInv, EachEventOnce
  <2>. QED
    BY <1>1, <2>1, <2>2, <2>3, <2>4, <2>5, <2>6, Zenon
    DEF EachEventOnce, Distinct, OnceInv, JobsResolved
<1>5. CASE Resolve(p, "undelivered") /\ UNCHANGED listener
  <2>1. /\ UNCHANGED events /\ outcome'[p] = "undelivered"
        /\ \A q \in DOMAIN events : q # p => outcome'[q] = outcome[q]
    BY <1>2, <1>5, ResolveType, Zenon DEF Outcomes
  <2>2. (\A q : Queued(q)' <=> Queued(q)) /\ Distinct'
    BY <1>5, Places, Zenon DEF Queued, Distinct
  <2>3. \A q \in DOMAIN events' : InFlight(q)' <=> outcome'[q] = "pending"
    BY <1>1, <1>3, <2>1, <2>2 DEF OnceInv, EachEventOnce, InFlight
  <2>4. JobsResolved'
    BY <1>1, <2>1, Places DEF OnceInv, JobsResolved, Nil
  <2>5. \A w \in Workers : Holds(w)' =>
          /\ job'[w] \notin sending' /\ ~Queued(job[w])' /\ routing' # job'[w]
          /\ \A v \in Workers : job'[v] = job'[w] => v = w
    BY <1>1, <2>2, Zenon DEF OnceInv, EachEventOnce
  <2>6. ~Queued(routing)' /\ \A q \in sending' : ~Queued(q)' /\ routing' # q
    BY <1>1, <2>2, Zenon DEF OnceInv, EachEventOnce
  <2>. QED
    BY <2>2, <2>3, <2>4, <2>5, <2>6, Zenon DEF EachEventOnce, Distinct
<1>. QED
  BY <1>4, <1>5, Zenon DEF SendEvent

\* A simulated event starts in exactly one place, the listener.
LEMMA SimulatedOnce ==
    ASSUME OnceInv, NEW c \in Containers, NewEvent(c, "start", Simulated),
           listener' = Append(listener, Len(events')),
           UNCHANGED <<monitorVars, routing, workerVars>>
    PROVE  EachEventOnce' /\ JobsResolved'
<1>1. /\ Len(events') = Len(events) + 1 /\ DOMAIN events' = 1 .. Len(events')
      /\ \A p \in 1 .. Len(events) : outcome'[p] = outcome[p]
      /\ outcome'[Len(events')] = "pending"
  BY NewEventType, Zenon DEF OnceInv, PoolInv, Statuses
<1>2. /\ \A w \in Workers : Holds(w)' <=> Holds(w)
      /\ UNCHANGED <<sending, routing, job, stage>>
  BY Zenon DEF monitorVars, workerVars, Holds
<1>3. /\ Len(events) \in Nat /\ Len(events') \notin 1 .. Len(events)
      /\ Len(events') \notin 0 .. Len(events) /\ Len(events') # Empty
      /\ \A p \in DOMAIN events' : p \in 1 .. Len(events) \/ p = Len(events')
      /\ Len(events') \in 1 .. Len(events')
  BY <1>1, Places DEF Empty
<1>4. (\A q : Queued(q)' <=> Queued(q) \/ q = Len(events')) /\ Distinct'
  <2>1. listener \in Seq(1 .. Len(events'))
    BY <1>1, <1>3, PointersGrow DEF OnceInv, PoolInv
  <2>2. ~Queued(Len(events'))
    BY <1>3, Places, Zenon
  <2>. QED
    BY <1>3, <2>1, <2>2, QueuedAppend, Places, Zenon
<1>5. \A p \in DOMAIN events' : InFlight(p)' <=> outcome'[p] = "pending"
  <2>. SUFFICES ASSUME NEW p \in DOMAIN events' PROVE InFlight(p)' <=> outcome'[p] = "pending"
    BY Zenon
  <2>1. CASE p \in 1 .. Len(events)
    BY <1>1, <1>2, <1>3, <1>4, <2>1, Places, Zenon DEF InFlight, OnceInv, EachEventOnce
  <2>2. CASE p = Len(events')
    BY <1>1, <1>4, <2>2, Zenon DEF InFlight
  <2>. QED
    BY <1>3, <2>1, <2>2, Zenon
<1>6. \A p \in sending' : ~Queued(p)' /\ routing' # p
  BY <1>2, <1>3, <1>4, Places, Zenon DEF OnceInv, EachEventOnce
<1>7. \A w \in Workers : Holds(w)' =>
          /\ job'[w] \notin sending' /\ ~Queued(job[w])' /\ routing' # job'[w]
          /\ \A v \in Workers : job'[v] = job'[w] => v = w
  BY <1>2, <1>3, <1>4, Places, Zenon DEF OnceInv, EachEventOnce
<1>8. ~Queued(routing)'
  BY <1>2, <1>3, <1>4, Places, Zenon DEF OnceInv, EachEventOnce
<1>9. JobsResolved'
  <2>1. \A w \in Workers : job[w] # Nil => job[w] \in 1 .. Len(events)
    BY Places DEF Nil
  <2>. QED
    BY <1>1, <1>2, <2>1, Zenon DEF OnceInv, JobsResolved
<1>. QED
  BY <1>4, <1>5, <1>6, <1>7, <1>8, <1>9, Zenon DEF EachEventOnce, Distinct

\* The router takes the first event off the listener; a nil event is no event.
LEMMA ReceiveOnce ==
    ASSUME OnceInv, Receive
    PROVE  EachEventOnce' /\ JobsResolved'
<1>1. /\ UNCHANGED <<events, outcome, sending, job, stage>> /\ routing = Empty
      /\ \A w \in Workers : Holds(w)' <=> Holds(w)
  BY Zenon DEF Receive, monitorVars, eventVars, workerVars, Holds
<1>2. JobsResolved'
  BY <1>1, Zenon DEF OnceInv, JobsResolved
<1>3. CASE listener # <<>> /\ routing' = Head(listener) /\ listener' = Tail(listener)
  <2>1. /\ \A q : Queued(q)' <=> Queued(q) /\ q # routing'
        /\ Queued(routing') /\ Distinct'
    BY <1>3, QueuedTail, Places, ZenonT(30) DEF OnceInv, PoolInv, TypeOK
  <2>2. \A q \in DOMAIN events' : InFlight(q)' <=> outcome'[q] = "pending"
    <3>1. \A q \in DOMAIN events : q # routing
      BY <1>1, Places DEF Empty
    <3>. QED
      BY <1>1, <2>1, <3>1, Zenon DEF OnceInv, EachEventOnce, InFlight
  <2>3. \A w \in Workers : Holds(w)' =>
          /\ job'[w] \notin sending' /\ ~Queued(job[w])' /\ routing' # job'[w]
          /\ \A v \in Workers : job'[v] = job'[w] => v = w
    BY <1>1, <2>1, Zenon DEF OnceInv, EachEventOnce
  <2>4. \A q \in sending' : ~Queued(q)' /\ routing' # q
    BY <1>1, <2>1, Zenon DEF OnceInv, EachEventOnce
  <2>5. ~Queued(routing)'
    BY <2>1, Zenon
  <2>. QED
    BY <1>2, <2>1, <2>2, <2>3, <2>4, <2>5, Zenon DEF EachEventOnce, Distinct
<1>4. CASE routing' = Nil /\ UNCHANGED listener
  <2>1. (\A q : Queued(q)' <=> Queued(q)) /\ Distinct'
    BY <1>4, Places, Zenon DEF Queued, Distinct
  <2>2. Nil \notin 1 .. Len(events) /\ Empty \notin 1 .. Len(events)
    BY Places DEF Nil, Empty
  <2>3. \A q \in DOMAIN events' : InFlight(q)' <=> outcome'[q] = "pending"
    BY <1>1, <1>4, <2>1, <2>2, Places, Zenon DEF OnceInv, EachEventOnce, InFlight
  <2>4. \A w \in Workers : Holds(w)' =>
          /\ job'[w] \notin sending' /\ ~Queued(job[w])' /\ routing' # job'[w]
          /\ \A v \in Workers : job'[v] = job'[w] => v = w
    BY <1>1, <1>4, <2>1, <2>2, Places, ZenonT(30) DEF OnceInv, EachEventOnce
  <2>5. \A q \in sending' : ~Queued(q)' /\ routing' # q
    BY <1>1, <1>4, <2>1, <2>2, Places DEF OnceInv, EachEventOnce
  <2>6. ~Queued(routing)'
    BY <1>4, <2>1, <2>2, Places, Zenon
  <2>. QED
    BY <1>2, <2>1, <2>3, <2>4, <2>5, <2>6, Zenon DEF EachEventOnce, Distinct
<1>. QED
  BY <1>3, <1>4, ZenonT(30) DEF Receive

\* The router's event passes to one idle worker.
LEMMA GotWorkerOnce ==
    ASSUME OnceInv, NEW w \in Workers, GotWorker(w)
    PROVE  EachEventOnce' /\ JobsResolved'
<1>1. /\ UNCHANGED <<events, outcome, sending, listener>> /\ routing' = Empty /\ routing # Empty
      /\ job' = [job EXCEPT ![w] = routing] /\ stage' = [stage EXCEPT ![w] = "begin"]
      /\ job \in [Workers -> 0 .. Len(events)] /\ stage \in [Workers -> Stages]
  BY Zenon DEF GotWorker, monitorVars, eventVars, OnceInv, PoolInv, TypeOK
<1>2. stage[w] = "idle" /\ job[w] = Nil
  BY Zenon DEF GotWorker, OnceInv, PoolInv, WorkersConserved, JobsResolved
<1>3. /\ ~Holds(w) /\ (Holds(w)' <=> routing # Nil) /\ job'[w] = routing
      /\ \A v \in Workers : v # w => (Holds(v)' <=> Holds(v)) /\ job'[v] = job[v]
  BY <1>1, <1>2, Zenon DEF Holds
<1>4. (\A q : Queued(q)' <=> Queued(q)) /\ Distinct'
  BY <1>1, Places, Zenon DEF Queued, Distinct
<1>5. Nil \notin 1 .. Len(events) /\ Empty \notin 1 .. Len(events)
  BY Places DEF Nil, Empty
<1>6. \A q \in DOMAIN events' : InFlight(q)' <=> outcome'[q] = "pending"
  <2>. SUFFICES ASSUME NEW q \in DOMAIN events PROVE InFlight(q)' <=> InFlight(q)
    BY <1>1, Zenon DEF OnceInv, EachEventOnce
  <2>. QED
    BY <1>1, <1>3, <1>4, <1>5, Places, ZenonT(30) DEF InFlight
<1>7. ASSUME NEW v \in Workers, routing # Nil, job[v] = routing PROVE FALSE
  <2>1. routing \in 1 .. Len(events)
    BY <1>1, <1>7, Places DEF Nil
  <2>2. outcome[routing] = "pending"
    BY <2>1, Places, Zenon DEF OnceInv, EachEventOnce, InFlight
  <2>3. ~Holds(v)
    BY <1>7, Zenon DEF OnceInv, EachEventOnce
  <2>4. stage[v] \in {"idle", "unlock", "return"}
    BY <1>1, <1>7, <2>3, Zenon DEF Holds, Stages
  <2>. QED
    BY <1>7, <2>2, <2>4, Zenon DEF OnceInv, JobsResolved
<1>8. \A v \in Workers : Holds(v)' =>
          /\ job'[v] \notin sending' /\ ~Queued(job[v])' /\ routing' # job'[v]
          /\ \A u \in Workers : job'[u] = job'[v] => u = v
  <2>. SUFFICES ASSUME NEW v \in Workers, Holds(v)'
                PROVE  /\ job'[v] \notin sending' /\ ~Queued(job[v])' /\ routing' # job'[v]
                       /\ \A u \in Workers : job'[u] = job'[v] => u = v
    BY Zenon
  <2>1. CASE v = w
    BY <1>1, <1>3, <1>4, <1>7, <2>1, Zenon DEF OnceInv, EachEventOnce
  <2>2. CASE v # w
    BY <1>1, <1>3, <1>4, <1>5, <2>2, Places, Zenon DEF OnceInv, EachEventOnce
  <2>. QED
    BY <2>1, <2>2, Zenon
<1>9. ~Queued(routing)' /\ \A q \in sending' : ~Queued(q)' /\ routing' # q
  BY <1>1, <1>4, <1>5, Places, Zenon DEF OnceInv, EachEventOnce
<1>10. JobsResolved'
  BY <1>1, <1>2, Zenon DEF OnceInv, JobsResolved
<1>. QED
  BY <1>4, <1>6, <1>8, <1>9, <1>10, Zenon DEF EachEventOnce, Distinct

\* A worker that records the outcome of its event stops holding it.
LEMMA ResolveOnce ==
    ASSUME OnceInv, NEW w \in Workers, Holds(w),
           NEW r \in Outcomes, r # "pending", Resolve(job[w], r),
           NEW to \in {"unlock", "return"}, stage' = [stage EXCEPT ![w] = to],
           UNCHANGED <<sending, listener, routing, job>>
    PROVE  EachEventOnce' /\ JobsResolved'
<1>1. /\ UNCHANGED events /\ outcome'[job[w]] = r
      /\ \A q \in DOMAIN events : q # job[w] => outcome'[q] = outcome[q]
  BY Places, ResolveType, Zenon DEF OnceInv, PoolInv
<1>2. /\ ~Holds(w)' /\ stage'[w] = to
      /\ \A v \in Workers : v # w => (Holds(v)' <=> Holds(v)) /\ stage'[v] = stage[v]
  BY Zenon DEF Holds, OnceInv, PoolInv, TypeOK
<1>3. (\A q : Queued(q)' <=> Queued(q)) /\ Distinct'
  BY Places, Zenon DEF Queued, Distinct
<1>4. \A q \in DOMAIN events' : InFlight(q)' <=> outcome'[q] = "pending"
  <2>. SUFFICES ASSUME NEW q \in DOMAIN events PROVE InFlight(q)' <=> outcome'[q] = "pending"
    BY <1>1, Zenon
  <2>1. CASE q = job[w]
    BY <1>1, <1>2, <1>3, <2>1, ZenonT(30) DEF InFlight, OnceInv, EachEventOnce
  <2>2. CASE q # job[w]
    BY <1>1, <1>2, <1>3, <2>2 DEF InFlight, OnceInv, EachEventOnce
  <2>. QED
    BY <2>1, <2>2, Zenon
<1>5. \A v \in Workers : Holds(v)' =>
          /\ job'[v] \notin sending' /\ ~Queued(job[v])' /\ routing' # job'[v]
          /\ \A u \in Workers : job'[u] = job'[v] => u = v
  BY <1>2, <1>3, ZenonT(30) DEF OnceInv, EachEventOnce
<1>6. ~Queued(routing)' /\ \A q \in sending' : ~Queued(q)' /\ routing' # q
  BY <1>3, Zenon DEF OnceInv, EachEventOnce
<1>7. JobsResolved'
  <2>. SUFFICES ASSUME NEW v \in Workers
                PROVE  /\ stage'[v] = "idle" => job'[v] = Nil
                       /\ stage'[v] \in {"unlock", "return"} /\ job'[v] # Nil
                             => outcome'[job'[v]] # "pending"
    BY Zenon DEF JobsResolved
  <2>1. CASE v = w
    BY <1>1, <1>2, <2>1, ZenonT(30)
  <2>2. CASE v # w
    <3>1. job[v] # job[w]
      BY <2>2, Zenon DEF OnceInv, EachEventOnce
    <3>. QED
      BY <1>1, <1>2, <2>2, <3>1, Places DEF OnceInv, JobsResolved, Nil
  <2>. QED
    BY <2>1, <2>2, Zenon
<1>. QED
  BY <1>3, <1>4, <1>5, <1>6, <1>7, Zenon DEF EachEventOnce, Distinct

\* A worker that moves on without an outcome holds the same event as before.
LEMMA MoveOnce ==
    ASSUME OnceInv, NEW w \in Workers,
           UNCHANGED <<events, outcome, sending, listener, routing>>,
           \A v \in Workers : v # w => job'[v] = job[v] /\ stage'[v] = stage[v],
           Holds(w)' <=> Holds(w),
           job'[w] = job[w] \/ (job'[w] = Nil /\ ~Holds(w)),
           stage'[w] = "idle" => job'[w] = Nil,
           stage'[w] \in {"unlock", "return"} /\ job'[w] # Nil => outcome[job'[w]] # "pending"
    PROVE  EachEventOnce' /\ JobsResolved'
<1>1. \A v \in Workers : Holds(v)' <=> Holds(v)
  BY Zenon DEF Holds
<1>2. (\A q : Queued(q)' <=> Queued(q)) /\ Distinct'
  BY Places, Zenon DEF Queued, Distinct
<1>3. \A v \in Workers : Holds(v) => job[v] # Nil /\ job'[v] = job[v]
  BY ZenonT(30) DEF Holds
<1>4. \A q \in DOMAIN events' : InFlight(q)' <=> outcome'[q] = "pending"
  BY <1>1, <1>2, <1>3 DEF InFlight, OnceInv, EachEventOnce
<1>5. \A v \in Workers : Holds(v)' =>
          /\ job'[v] \notin sending' /\ ~Queued(job[v])' /\ routing' # job'[v]
          /\ \A u \in Workers : job'[u] = job'[v] => u = v
  BY <1>1, <1>2, <1>3 DEF OnceInv, EachEventOnce
<1>6. ~Queued(routing)' /\ \A q \in sending' : ~Queued(q)' /\ routing' # q
  BY <1>2, ZenonT(30) DEF OnceInv, EachEventOnce
<1>7. JobsResolved'
  BY Zenon DEF OnceInv, JobsResolved
<1>. QED
  BY <1>2, <1>4, <1>5, <1>6, <1>7, Zenon DEF EachEventOnce, Distinct

\* Every step of a doWork goroutine is one of the two.
LEMMA DoWorkOnce ==
    ASSUME OnceInv, NEW w \in Workers, DoWork(w)
    PROVE  EachEventOnce' /\ JobsResolved'
<1>0. stage \in [Workers -> Stages] /\ job \in [Workers -> 0 .. Len(events)]
      /\ (Reporting(w) => job[w] # Nil)
  BY ZenonT(30) DEF OnceInv, PoolInv, TypeOK, JobsMade
<1>1. UNCHANGED <<sending, listener, routing>>
  BY Zenon DEF DoWork, DoNil, Ignore, Lock, LockBusy, InspectContainer,
      CreateContainerEvent,
         Unlock, ReturnWorker, monitorVars, routerVars
<1>2. CASE Ignore(w) \/ LockBusy(w)
  <2>1. Holds(w) /\ stage' = [stage EXCEPT ![w] = "return"] /\ UNCHANGED job
    BY <1>2, Zenon DEF Ignore, LockBusy, Goto, Holds, Reportable
  <2>2. Resolve(job[w], "ignored") \/ Resolve(job[w], "skipped")
    BY <1>2, Zenon DEF Ignore, LockBusy
  <2>. QED
    BY <1>1, <2>1, <2>2, ResolveOnce, ZenonT(30) DEF Outcomes
<1>3. CASE CreateContainerEvent(w)
  <2>1. Holds(w) /\ stage' = [stage EXCEPT ![w] = "unlock"] /\ UNCHANGED job
    BY <1>0, <1>3, Zenon DEF CreateContainerEvent, Goto, Holds, Reporting
  <2>2. Resolve(job[w], "created") \/ Resolve(job[w], "failed")
    BY <1>3, Zenon DEF CreateContainerEvent, CallFails
  <2>. QED
    BY <1>1, <2>1, <2>2, ResolveOnce, Zenon DEF Outcomes
<1>4. CASE InspectContainer(w)
  <2>1. Holds(w) /\ UNCHANGED job
    BY <1>0, <1>4, Zenon DEF InspectContainer, Goto, Holds, Reporting
  <2>2. CASE Goto(w, "inspect", "unlock") /\ CallFails(w)
    BY <1>1, <2>1, <2>2, ResolveOnce, Zenon DEF Goto, CallFails, Outcomes
  <2>3. CASE Goto(w, "inspect", "create") /\ UNCHANGED eventVars
    BY <1>0, <1>1, <2>1, <2>3, MoveOnce, Zenon DEF Goto, Holds, eventVars
  <2>. QED
    BY <1>4, <2>2, <2>3, Zenon DEF InspectContainer
<1>5. CASE DoNil(w) \/ Lock(w)
  BY <1>0, <1>1, <1>5, MoveOnce, Zenon DEF DoNil, Lock, Goto, Holds, eventVars
<1>6. CASE Unlock(w)
  <2>1. job[w] # Nil => outcome[job[w]] # "pending"
    BY <1>6, Zenon DEF Unlock, Goto, OnceInv, JobsResolved
  <2>. QED
    BY <1>0, <1>1, <1>6, <2>1, MoveOnce, Zenon DEF Unlock, Goto, Holds, eventVars
<1>7. CASE ReturnWorker(w)
  BY <1>0, <1>1, <1>7, MoveOnce, Zenon DEF ReturnWorker, Goto, Holds, eventVars
<1>. QED
  BY <1>2, <1>3, <1>4, <1>5, <1>6, <1>7, Zenon DEF DoWork

\* Steps that touch no event and no worker.
LEMMA OtherOnce ==
    ASSUME OnceInv, UNCHANGED <<events, outcome, sending, listener, routing, stage, job>>
    PROVE  EachEventOnce' /\ JobsResolved'
<1>1. /\ \A p : Queued(p)' <=> Queued(p)
      /\ \A w \in Workers : Holds(w)' <=> Holds(w)
      /\ \A p : InFlight(p)' <=> InFlight(p)
  BY Zenon DEF InFlight, Queued, Holds
<1>2. EachEventOnce'
  BY <1>1, Zenon DEF OnceInv, EachEventOnce
<1>3. JobsResolved'
  BY Zenon DEF OnceInv, JobsResolved
<1>. QED
  BY <1>2, <1>3, Zenon

--------------------------------------------------------------------------------
\* OnceInv holds initially and is preserved by every step.
LEMMA OnceInit == Init => OnceInv
<1>. SUFFICES ASSUME Init PROVE OnceInv
  BY Zenon
<1>1. PoolInv
  BY PoolInit, Zenon
<1>2. DOMAIN events = {} /\ DOMAIN listener = {}
  BY DEF Init
<1>3. JobsResolved
  BY Zenon DEF Init, JobsResolved
<1>4. EachEventOnce
  BY <1>2, Zenon DEF Init, EachEventOnce, Queued, Holds
<1>. QED
  BY <1>1, <1>3, <1>4, Zenon DEF OnceInv

\* Every step preserves it: each action moves an event or leaves all where they are.
LEMMA OnceStep == OnceInv /\ [Next]_vars => OnceInv'
<1>. SUFFICES ASSUME OnceInv, [Next]_vars PROVE EachEventOnce' /\ JobsResolved'
  BY PoolStep, Zenon DEF OnceInv
<1>1. ASSUME NEW c \in Containers, ContainerStep(c) PROVE EachEventOnce' /\ JobsResolved'
  <2>1. PICK step \in Lifecycle :
            IF monitor = "streaming" THEN Decoded(c, step[1])
            ELSE UNCHANGED <<eventVars, lastSeen, sending>>
    BY <1>1, Zenon DEF ContainerStep
  <2>2. step[1] \in Statuses
    BY LifecycleAssumption, Zenon
  <2>3. UNCHANGED <<routerVars, workerVars>>
    BY <1>1, Zenon DEF ContainerStep
  <2>. QED
    BY <2>1, <2>2, <2>3, DecodedOnce, OtherOnce, Zenon DEF eventVars, routerVars, workerVars
<1>2. CASE Reconnect
  <2>1. lastSeen \in 1 .. Len(events) /\ events \in Seq(APIEvents)
    BY <1>2 DEF Reconnect, OnceInv, PoolInv, TypeOK, Nil
  <2>2. events[lastSeen] \in APIEvents
    BY <2>1, ElementOfSeq, Zenon
  <2>. QED
    BY <1>2, <2>2, DecodedOnce, Zenon DEF Reconnect, APIEvents
<1>3. ASSUME NEW c \in Containers, SendSimulated(c) PROVE EachEventOnce' /\ JobsResolved'
  BY <1>3, SimulatedOnce, OtherOnce, ZenonT(30)
    DEF SendSimulated, monitorVars, eventVars, workerVars
<1>4. CASE \/ Connect \/ StreamEOF \/ Start \/ ListContainers \/ ProcessFails \/ Stop
           \/ WorkerTimeout \/ UNCHANGED vars
  BY <1>4, OtherOnce, Zenon
  DEF Connect, StreamEOF, Start, ListContainers, ProcessFails, Stop, WorkerTimeout, vars,
      eventVars, monitorVars, routerVars, workerVars
<1>. QED
  BY <1>1, <1>2, <1>3, <1>4, SendEventOnce, ReceiveOnce, GotWorkerOnce, DoWorkOnce, Zenon
  DEF Next, Docker, Process, RouteEvents

\* No event is lost between the monitor and its outcome, and none is handled twice.
THEOREM EventsOnce == Spec => []EachEventOnce
<1>1. OnceInv => EachEventOnce
  BY Zenon DEF OnceInv
<1>. QED
  BY <1>1, OnceInit, OnceStep, PTL DEF Spec

--------------------------------------------------------------------------------
\* The events that have a reporter, as the refinement mapping gives them.
Active == {job[w] : w \in {v \in Workers : Reporting(v)}}

\* Steps that touch no event and no worker stutter.
LEMMA LedgerStutter ==
    ASSUME UNCHANGED <<events, outcome, stage, job>>
    PROVE  UNCHANGED Ledger!vars
  BY Zenon DEF Ledger!vars, Reporting

\* A new event is an arrival.
LEMMA LedgerArrive ==
    ASSUME NEW c \in Containers, NEW s \in Statuses, NEW f \in {"image", Simulated},
           NewEvent(c, s, f), UNCHANGED <<stage, job>>
    PROVE  Ledger!Next
<1>1. Active' = Active
  BY Zenon DEF Active, Reporting
<1>. QED
  BY <1>1, Zenon DEF Ledger!Next, Ledger!Arrive, NewEvent, Active

\* An event without outcome that has a reporter is held by it.
LEMMA ActiveHeld ==
    ASSUME OnceInv, NEW p \in Active, outcome[p] = "pending"
    PROVE  \E w \in Workers : Reporting(w) /\ Holds(w) /\ job[w] = p
<1>1. PICK w \in Workers : Reporting(w) /\ job[w] = p
  BY Zenon DEF Active
<1>2. job[w] # Nil
  BY <1>1, Zenon DEF OnceInv, PoolInv, JobsMade
<1>3. stage[w] # "unlock"
  BY <1>1, <1>2, Zenon DEF OnceInv, JobsResolved
<1>. QED
  BY <1>1, <1>2, <1>3, Zenon DEF Reporting, Holds

\* sendEvent after the end of monitoring discards its event.
LEMMA LedgerSendEvent ==
    ASSUME OnceInv, NEW p \in sending, SendEvent(p)
    PROVE  [Ledger!Next]_(Ledger!vars)
<1>1. UNCHANGED <<stage, job>>
  BY Zenon DEF SendEvent, workerVars
<1>2. CASE UNCHANGED eventVars
  BY <1>1, <1>2, LedgerStutter, Zenon DEF eventVars
<1>3. CASE Resolve(p, "undelivered")
  <2>1. p \in DOMAIN events /\ outcome[p] = "pending"
    BY Places, Zenon DEF OnceInv, EachEventOnce, InFlight
  <2>2. p \notin Active
    BY <2>1, ActiveHeld, ZenonT(30) DEF OnceInv, EachEventOnce
  <2>3. Active' = Active
    BY <1>1, Zenon DEF Active, Reporting
  <2>4. Ledger!Discard(p)
    BY <1>3, <2>1, <2>2, <2>3, Zenon DEF Ledger!Discard, Ledger!Waiting, Resolve, Active
  <2>. QED
    BY <2>1, <2>4, Zenon DEF Ledger!Next
<1>. QED
  BY <1>2, <1>3, Zenon DEF SendEvent

\* A worker from the pool was not reporting, and does not yet.
LEMMA LedgerGotWorker ==
    ASSUME OnceInv, NEW w \in Workers, GotWorker(w)
    PROVE  UNCHANGED Ledger!vars
<1>1. UNCHANGED <<events, outcome>>
  BY Zenon DEF GotWorker, eventVars
<1>2. ~Reporting(w) /\ ~Reporting(w)'
  BY Zenon DEF GotWorker, Reporting, OnceInv, PoolInv, WorkersConserved, TypeOK
<1>3. \A v \in Workers : v # w => Reporting(v)' = Reporting(v) /\ job'[v] = job[v]
  BY Zenon DEF GotWorker, Reporting, OnceInv, PoolInv, TypeOK
<1>4. Active' = Active
  BY <1>2, <1>3, Zenon DEF Active
<1>. QED
  BY <1>1, <1>4, Zenon DEF Ledger!vars, Active

--------------------------------------------------------------------------------
\* The events of the two kinds of worker: one that has not locked yet, whose event
\* waits, and one that is reporting.
LEMMA WaitingJob ==
    ASSUME OnceInv, NEW w \in Workers, stage[w] = "begin", job[w] # Nil
    PROVE  job[w] \in DOMAIN events /\ outcome[job[w]] = "pending" /\ job[w] \notin Active
<1>1. Holds(w)
  BY Zenon DEF Holds
<1>2. job[w] \in DOMAIN events
  BY <1>1, Places, Zenon
<1>3. outcome[job[w]] = "pending"
  BY <1>1, <1>2, Zenon DEF OnceInv, EachEventOnce, InFlight
<1>4. ASSUME job[w] \in Active PROVE FALSE
  <2>1. PICK v \in Workers : Reporting(v) /\ job[v] = job[w]
    BY <1>4, Zenon DEF Active
  <2>2. v = w
    BY <1>1, <2>1, Zenon DEF OnceInv, EachEventOnce
  <2>. QED
    BY <2>1, <2>2, Zenon DEF Reporting
<1>. QED
  BY <1>2, <1>3, <1>4, Zenon

\* A worker that reports to Rancher works at an event that holds its container, and the
\* event is pending until the report is made.
LEMMA ReportedJob ==
    ASSUME OnceInv, NEW w \in Workers, Reporting(w)
    PROVE  /\ job[w] \in DOMAIN events /\ job[w] \in Active
           /\ stage[w] \in {"inspect", "create"} => outcome[job[w]] = "pending"
           /\ stage[w] = "unlock" => outcome[job[w]] # "pending"
<1>1. job[w] # Nil
  BY Zenon DEF OnceInv, PoolInv, JobsMade
<1>2. job[w] \in DOMAIN events
  BY <1>1, Places DEF Nil
<1>3. stage[w] \in {"inspect", "create"} => outcome[job[w]] = "pending"
  BY <1>1, <1>2, Zenon DEF OnceInv, EachEventOnce, InFlight, Holds
<1>. QED
  BY <1>1, <1>2, <1>3, Zenon DEF Active, OnceInv, JobsResolved

\* A doWork step moves one worker: the active events change at most by its own.
LEMMA ActiveMoves ==
    ASSUME OnceInv, NEW w \in Workers, DoWork(w)
    PROVE  /\ ~Reporting(w) /\ ~Reporting(w)' => Active' = Active
           /\ Reporting(w) /\ Reporting(w)' => Active' = Active
           /\ ~Reporting(w) /\ Reporting(w)' => Active' = Active \union {job[w]}
           /\ Reporting(w) /\ ~Reporting(w)' => Active' = Active \ {job[w]}
<1>1. \A v \in Workers : v # w => Reporting(v)' = Reporting(v) /\ job'[v] = job[v]
  BY ZenonT(30) DEF Reporting, OnceInv, PoolInv, TypeOK, DoWork, DoNil, Ignore, Lock,
      LockBusy,
         InspectContainer, CreateContainerEvent, Unlock, ReturnWorker, Goto
<1>2. Reporting(w) \/ Reporting(w)' => job'[w] = job[w]
  BY Zenon DEF Reporting, OnceInv, PoolInv, TypeOK, DoWork, DoNil, Ignore, Lock, LockBusy,
         InspectContainer, CreateContainerEvent, Unlock, ReturnWorker, Goto
<1>3. \A v \in Workers : Reporting(v) /\ Reporting(w) /\ job[v] = job[w] => v = w
  BY Zenon DEF OnceInv, PoolInv, LocksOwned
<1>. QED
  BY <1>1, <1>2, <1>3, Zenon DEF Active

\* Every step of a doWork goroutine is a step of the ledger or none.
LEMMA LedgerDoWork ==
    ASSUME OnceInv, NEW w \in Workers, DoWork(w)
    PROVE  [Ledger!Next]_(Ledger!vars)
<1>1. stage \in [Workers -> Stages]
  BY Zenon DEF OnceInv, PoolInv, TypeOK
<1>2. CASE DoNil(w) \/ ReturnWorker(w)
  <2>1. ~Reporting(w) /\ ~Reporting(w)' /\ UNCHANGED <<events, outcome>>
    BY <1>1, <1>2, Zenon DEF DoNil, ReturnWorker, Goto, Reporting, eventVars
  <2>2. Active' = Active
    BY <2>1, ActiveMoves, Zenon
  <2>. QED
    BY <2>1, <2>2, Zenon DEF Ledger!vars, Active
<1>3. CASE Ignore(w)
  <2>1. /\ ~Reporting(w) /\ ~Reporting(w)' /\ stage[w] = "begin" /\ job[w] # Nil
        /\ Resolve(job[w], "ignored")
    BY <1>1, <1>3, Zenon DEF Ignore, Goto, Reporting
  <2>2. Active' = Active
    BY <2>1, ActiveMoves, Zenon
  <2>3. Ledger!Discard(job[w])
    BY <2>1, <2>2, WaitingJob, ZenonT(30) DEF Ledger!Discard, Ledger!Waiting, Resolve,
        Active
  <2>4. job[w] \in DOMAIN events
    BY <2>1, WaitingJob, Zenon
  <2>. QED
    BY <2>3, <2>4, Zenon DEF Ledger!Next
<1>4. CASE Lock(w)
  <2>1. /\ ~Reporting(w) /\ Reporting(w)' /\ stage[w] = "begin" /\ job[w] # Nil
        /\ Key(job[w]) \notin lockedItems /\ UNCHANGED <<events, outcome>>
    BY <1>1, <1>4, Zenon DEF Lock, Reportable, Goto, Reporting, eventVars
  <2>2. Active' = Active \union {job[w]}
    BY <2>1, ActiveMoves, ZenonT(30)
  <2>3. \A q \in Active : ~Ledger!Alike(job[w], q)
    BY <2>1, ZenonT(30) DEF Active, Ledger!Alike, Key, OnceInv, PoolInv, LocksOwned
  <2>4. Ledger!Claim(job[w])
    BY <2>1, <2>2, <2>3, WaitingJob, Zenon DEF Ledger!Claim, Ledger!Waiting, Active
  <2>5. job[w] \in DOMAIN events
    BY <2>1, WaitingJob, Zenon
  <2>6. Ledger!Next
    BY <2>4, <2>5, Zenon DEF Ledger!Next, Ledger!Claim
  <2>. QED
    BY <2>6, Zenon
<1>5. CASE LockBusy(w)
  <2>1. /\ ~Reporting(w) /\ ~Reporting(w)' /\ stage[w] = "begin" /\ job[w] # Nil
        /\ Key(job[w]) \in lockedItems /\ Resolve(job[w], "skipped")
    BY <1>1, <1>5, Zenon DEF LockBusy, Reportable, Goto, Reporting
  <2>2. Active' = Active
    BY <2>1, ActiveMoves, Zenon
  <2>3. PICK v \in Workers : Reporting(v) /\ Key(job[v]) = Key(job[w])
    BY <2>1, Zenon DEF OnceInv, PoolInv, LocksOwned
  <2>4. job[v] \in Active /\ Ledger!Alike(job[w], job[v])
    BY <2>3, Zenon DEF Active, Ledger!Alike, Key
  <2>5. Ledger!Skip(job[w])
    BY <2>1, <2>2, <2>4, WaitingJob, Zenon DEF Ledger!Skip, Ledger!Waiting, Resolve, Active
  <2>6. job[w] \in DOMAIN events
    BY <2>1, WaitingJob, Zenon
  <2>. QED
    BY <2>5, <2>6, ZenonT(30) DEF Ledger!Next
<1>6. CASE InspectContainer(w) \/ CreateContainerEvent(w)
  <2>1. Reporting(w) /\ Reporting(w)' /\ stage[w] \in {"inspect", "create"}
    BY <1>1, <1>6, Zenon DEF InspectContainer, CreateContainerEvent, Goto, Reporting
  <2>2. Active' = Active
    BY <2>1, ActiveMoves, Zenon
  <2>3. CASE UNCHANGED eventVars
    BY <2>2, <2>3, Zenon DEF eventVars, Ledger!vars, Active
  <2>4. CASE Resolve(job[w], "created") \/ Resolve(job[w], "failed")
    <3>1. Ledger!Report(job[w])
      BY <2>1, <2>2, <2>4, ReportedJob, Zenon DEF Ledger!Report, Resolve, Active
    <3>2. job[w] \in DOMAIN events
      BY <2>1, ReportedJob, Zenon
    <3>. QED
      BY <3>1, <3>2, Zenon DEF Ledger!Next
  <2>. QED
    BY <1>6, <2>3, <2>4, ZenonT(30) DEF InspectContainer, CreateContainerEvent, CallFails
<1>7. CASE Unlock(w)
  <2>1. /\ Reporting(w) /\ ~Reporting(w)' /\ stage[w] = "unlock"
        /\ UNCHANGED <<events, outcome>>
    BY <1>1, <1>7, Zenon DEF Unlock, Goto, Reporting, eventVars
  <2>2. Active' = Active \ {job[w]}
    BY <2>1, ActiveMoves, Zenon
  <2>3. Ledger!Release(job[w])
    BY <2>1, <2>2, ReportedJob, Zenon DEF Ledger!Release, Active
  <2>4. job[w] \in DOMAIN events
    BY <2>1, ReportedJob, Zenon
  <2>5. Ledger!Next
    BY <2>3, <2>4, Zenon DEF Ledger!Next, Ledger!Release
  <2>. QED
    BY <2>5, Zenon
<1>. QED
  BY <1>2, <1>3, <1>4, <1>5, <1>6, <1>7, Zenon DEF DoWork

\* Every step of the pipeline is a step of the ledger or none.
LEMMA LedgerStep == OnceInv /\ [Next]_vars => [Ledger!Next]_(Ledger!vars)
<1>. SUFFICES ASSUME OnceInv, [Next]_vars PROVE [Ledger!Next]_(Ledger!vars)
  BY Zenon
<1>1. ASSUME NEW c \in Containers, ContainerStep(c) PROVE [Ledger!Next]_(Ledger!vars)
  <2>1. PICK step \in Lifecycle :
            IF monitor = "streaming" THEN Decoded(c, step[1]) ELSE UNCHANGED eventVars
    BY <1>1, Zenon DEF ContainerStep
  <2>2. step[1] \in Statuses
    BY LifecycleAssumption, Zenon
  <2>3. UNCHANGED <<stage, job>>
    BY <1>1, Zenon DEF ContainerStep, workerVars
  <2>. QED
    BY <2>1, <2>2, <2>3, LedgerArrive, LedgerStutter, Zenon DEF Decoded, eventVars
<1>2. CASE Reconnect
  <2>1. lastSeen \in 1 .. Len(events) /\ events \in Seq(APIEvents)
    BY <1>2 DEF Reconnect, OnceInv, PoolInv, TypeOK, Nil
  <2>2. events[lastSeen] \in APIEvents
    BY <2>1, ElementOfSeq, Zenon
  <2>. QED
    BY <1>2, <2>2, LedgerArrive, Zenon DEF Reconnect, Decoded, APIEvents, workerVars
<1>3. ASSUME NEW c \in Containers, SendSimulated(c) PROVE [Ledger!Next]_(Ledger!vars)
  BY <1>3, LedgerArrive, LedgerStutter, ZenonT(30)
    DEF SendSimulated, eventVars, workerVars, Statuses
<1>4. CASE \/ Connect \/ StreamEOF \/ Start \/ ListContainers \/ ProcessFails \/ Stop
           \/ Receive \/ WorkerTimeout \/ UNCHANGED vars
  BY <1>4, LedgerStutter, Zenon
  DEF Connect, StreamEOF, Start, ListContainers, ProcessFails, Stop, Receive, WorkerTimeout,
      vars, eventVars, workerVars
<1>. QED
  BY <1>1, <1>2, <1>3, <1>4, LedgerSendEvent, LedgerGotWorker, LedgerDoWork, Zenon
  DEF Next, Docker, Process, RouteEvents

\* The pipeline implements the ledger: with all its channels, timeouts, workers and
\* locks, Handle gives every event one outcome, reports an event only while no other
\* one with its status and container is being reported, and skips it only then.
THEOREM PipelineImplementsLedger == Spec => LedgerSpec
<1>1. Init => Ledger!Init
  BY Zenon DEF Init, Ledger!Init, Reporting
<1>. QED
  BY <1>1, OnceInit, OnceStep, LedgerStep, PTL DEF Spec, LedgerSpec, Ledger!Spec

--------------------------------------------------------------------------------
\* For a skipped event there is one alike whose report was made or failed, or is being
\* made.
SkippedAttempted ==
    \A p \in DOMAIN events : outcome[p] = "skipped" =>
        \E q \in DOMAIN events :
            /\ q # p /\ Ledger!Alike(q, p)
            /\ outcome[q] \in {"created", "failed"} \/ q \in Active

CoverInv ==
    /\ OnceInv
    /\ SkippedAttempted
    /\ \A q \in Active : outcome[q] \in {"pending", "created", "failed"}

\* The ledger's steps keep SkippedAttempted: the other event is active when this one is
\* skipped, and is released only with an outcome.
LEMMA CoverStep == CoverInv /\ [Next]_vars => CoverInv'
<1>. SUFFICES ASSUME CoverInv, [Next]_vars PROVE CoverInv'
  BY Zenon
<1>1. OnceInv /\ OnceInv' /\ TypeOK /\ [Ledger!Next]_(Ledger!vars)
  BY OnceStep, LedgerStep, Zenon DEF CoverInv, OnceInv, PoolInv
<1>2. /\ events \in Seq(APIEvents) /\ outcome \in Seq(Outcomes) /\ Len(outcome) = Len(events)
      /\ Len(events) \in Nat /\ DOMAIN events = 1 .. Len(events)
      /\ DOMAIN outcome = DOMAIN events /\ Active \subseteq DOMAIN events
  <2>1. Active \subseteq DOMAIN events
    BY <1>1, ReportedJob, Zenon DEF Active
  <2>. QED
    BY <1>1, <2>1 DEF TypeOK
<1>. DEFINE Cover(p, q) ==
                /\ q # p /\ Ledger!Alike(q, p)
                /\ outcome[q] \in {"created", "failed"} \/ q \in Active
<1>3. \A p \in DOMAIN events : outcome[p] = "skipped" => \E q \in DOMAIN events : Cover(p, q)
  BY Zenon DEF CoverInv, SkippedAttempted
<1>4. \A q \in Active : outcome[q] \in {"pending", "created", "failed"}
  BY Zenon DEF CoverInv
<1>. SUFFICES /\ \A p \in DOMAIN events' : outcome'[p] = "skipped" =>
                    \E q \in DOMAIN events' : Cover(p, q)'
              /\ \A q \in Active' : outcome'[q] \in {"pending", "created", "failed"}
  BY <1>1, Zenon DEF CoverInv, SkippedAttempted
<1>5. CASE Ledger!Arrive
  <2>1. /\ Len(events') = Len(events) + 1 /\ DOMAIN events' = 1 .. Len(events')
        /\ outcome'[Len(events')] = "pending" /\ Active' = Active
        /\ \A p \in DOMAIN events : events'[p] = events[p] /\ outcome'[p] = outcome[p]
    <3>1. PICK c \in Containers, s \in Statuses, f \in {"image", Simulated} :
              events' = Append(events, [ID |-> c, Status |-> s, From |-> f])
      BY <1>5, Zenon DEF Ledger!Arrive
    <3>2. NewEvent(c, s, f) /\ Active' = Active
      BY <1>5, <3>1, Zenon DEF Ledger!Arrive, NewEvent, Active
    <3>. QED
      BY <1>1, <3>2, NewEventType, Zenon
  <2>2. \A p \in DOMAIN events' : p \in DOMAIN events \/ p = Len(events')
    BY <1>2, <2>1
  <2>3. \A p, q \in DOMAIN events : Cover(p, q) => Cover(p, q)' /\ q \in DOMAIN events'
    BY <1>2, <2>1 DEF Ledger!Alike
  <2>. QED
    BY <1>2, <1>3, <1>4, <2>1, <2>2, <2>3, Zenon
<1>6. ASSUME NEW p \in DOMAIN events, Ledger!Discard(p) \/ Ledger!Report(p)
      PROVE  /\ \A s \in DOMAIN events' : outcome'[s] = "skipped" =>
                    \E q \in DOMAIN events' : Cover(s, q)'
             /\ \A q \in Active' : outcome'[q] \in {"pending", "created", "failed"}
  <2>1. /\ UNCHANGED events /\ Active' = Active
        /\ outcome[p] = "pending"
        /\ outcome'[p] \in {"ignored", "undelivered", "created", "failed"}
        /\ p \in Active => outcome'[p] \in {"created", "failed"}
        /\ \A q \in DOMAIN events : q # p => outcome'[q] = outcome[q]
    BY <1>2, <1>6, Zenon DEF Ledger!Discard, Ledger!Report, Ledger!Waiting, Active
  <2>2. \A s, q \in DOMAIN events : Cover(s, q) => Cover(s, q)'
    BY <2>1, Zenon DEF Ledger!Alike
  <2>. QED
    BY <1>2, <1>3, <1>4, <2>1, <2>2, Zenon
<1>7. ASSUME NEW p \in DOMAIN events, Ledger!Skip(p)
      PROVE  /\ \A s \in DOMAIN events' : outcome'[s] = "skipped" =>
                    \E q \in DOMAIN events' : Cover(s, q)'
             /\ \A q \in Active' : outcome'[q] \in {"pending", "created", "failed"}
  <2>1. /\ UNCHANGED events /\ Active' = Active
        /\ outcome[p] = "pending" /\ p \notin Active
        /\ \E q \in Active : Ledger!Alike(p, q)
        /\ \A q \in DOMAIN events : q # p => outcome'[q] = outcome[q]
    BY <1>2, <1>7, Zenon DEF Ledger!Skip, Ledger!Waiting, Active
  <2>2. \A s, q \in DOMAIN events : Cover(s, q) => Cover(s, q)'
    BY <2>1, Zenon DEF Ledger!Alike
  <2>3. \E q \in DOMAIN events : Cover(p, q)'
    BY <1>2, <2>1, Zenon DEF Ledger!Alike
  <2>. QED
    BY <1>2, <1>3, <1>4, <2>1, <2>2, <2>3
<1>8. ASSUME NEW p \in DOMAIN events, Ledger!Claim(p) \/ Ledger!Release(p)
      PROVE  /\ \A s \in DOMAIN events' : outcome'[s] = "skipped" =>
                    \E q \in DOMAIN events' : Cover(s, q)'
             /\ \A q \in Active' : outcome'[q] \in {"pending", "created", "failed"}
  <2>1. /\ UNCHANGED <<events, outcome>>
        /\ \/ Active' = Active \union {p} /\ outcome[p] = "pending"
           \/ Active' = Active \ {p} /\ p \in Active /\ outcome[p] # "pending"
    BY <1>8, Zenon DEF Ledger!Claim, Ledger!Release, Ledger!Waiting, Active
  <2>2. \A s, q \in DOMAIN events : Cover(s, q) => Cover(s, q)'
    BY <1>4, <2>1, Zenon DEF Ledger!Alike
  <2>. QED
    BY <1>3, <1>4, <2>1, <2>2, Zenon
<1>9. CASE UNCHANGED Ledger!vars
  <2>1. UNCHANGED <<events, outcome>> /\ Active' = Active
    BY <1>9, Zenon DEF Ledger!vars, Active
  <2>2. \A s, q \in DOMAIN events : Cover(s, q) => Cover(s, q)'
    BY <2>1, Zenon DEF Ledger!Alike
  <2>. QED
    BY <1>3, <1>4, <2>1, <2>2, Zenon
<1>. QED
  BY <1>1, <1>5, <1>6, <1>7, <1>8, <1>9, Zenon DEF Ledger!Next

--------------------------------------------------------------------------------
\* Rancher's records and the outcomes agree, and no reporter has a simulated event.
RecordInv ==
    /\ OnceInv
    /\ RancherLedger
    /\ \A w \in Workers : Reporting(w) => events[job[w]].From # Simulated

\* What a step does to the events, to Rancher's records and to the count of failed calls.
LEMMA RecordSteps ==
    ASSUME OnceInv, [Next]_vars
    PROVE  \/ UNCHANGED <<events, outcome, rancher, faults>>
           \/ /\ \E c \in Containers, s \in Statuses, f \in {"image", Simulated} :
                    NewEvent(c, s, f)
              /\ UNCHANGED <<rancher, faults>>
           \/ \E p \in DOMAIN events, r \in Outcomes \ {"created", "failed"} :
                 /\ outcome[p] = "pending" /\ Resolve(p, r)
                 /\ r = "ignored" => ~Reportable(p)
                 /\ r = "undelivered" => monitor' \in {"closed", "removed"}
                 /\ UNCHANGED <<rancher, faults>>
           \/ \E p \in DOMAIN events :
                 /\ outcome[p] = "pending" /\ Resolve(p, "failed")
                 /\ UNCHANGED rancher /\ faults' = faults + 1
           \/ \E w \in Workers :
                 /\ Reporting(w) /\ outcome[job[w]] = "pending"
                 /\ Resolve(job[w], "created")
                 /\ rancher' = rancher \union
                                 {[event |-> job[w], DockerInspect |-> inspect[w]]}
                 /\ UNCHANGED faults
<1>1. ASSUME NEW c \in Containers, ContainerStep(c)
      PROVE  \/ UNCHANGED <<events, outcome, rancher, faults>>
             \/ /\ \E s \in Statuses, f \in {"image", Simulated} : NewEvent(c, s, f)
                /\ UNCHANGED <<rancher, faults>>
  <2>1. PICK step \in Lifecycle :
            IF monitor = "streaming" THEN Decoded(c, step[1]) ELSE UNCHANGED eventVars
    BY <1>1, Zenon DEF ContainerStep
  <2>2. step[1] \in Statuses /\ UNCHANGED <<rancher, faults>>
    BY <1>1, LifecycleAssumption, Zenon DEF ContainerStep, workerVars
  <2>. QED
    BY <2>1, <2>2, Zenon DEF Decoded, eventVars
<1>2. ASSUME Reconnect
      PROVE  /\ \E c \in Containers, s \in Statuses, f \in {"image", Simulated} :
                   NewEvent(c, s, f)
             /\ UNCHANGED <<rancher, faults>>
  <2>1. lastSeen \in 1 .. Len(events) /\ events \in Seq(APIEvents)
    BY <1>2 DEF Reconnect, OnceInv, PoolInv, TypeOK, Nil
  <2>2. events[lastSeen] \in APIEvents
    BY <2>1, ElementOfSeq, Zenon
  <2>. QED
    BY <1>2, <2>2, Zenon DEF Reconnect, Decoded, APIEvents, workerVars
<1>3. ASSUME NEW c \in Containers, SendSimulated(c)
      PROVE  \/ UNCHANGED <<events, outcome, rancher, faults>>
             \/ /\ \E s \in Statuses, f \in {"image", Simulated} : NewEvent(c, s, f)
                /\ UNCHANGED <<rancher, faults>>
  BY <1>3, Zenon DEF SendSimulated, eventVars, workerVars, Statuses
<1>4. ASSUME NEW p \in sending, SendEvent(p)
      PROVE  \/ UNCHANGED <<events, outcome, rancher, faults>>
             \/ /\ p \in DOMAIN events /\ outcome[p] = "pending"
                /\ Resolve(p, "undelivered") /\ monitor' \in {"closed", "removed"}
                /\ UNCHANGED <<rancher, faults>>
  <2>1. p \in DOMAIN events /\ outcome[p] = "pending"
    BY Places, Zenon DEF OnceInv, EachEventOnce, InFlight
  <2>. QED
    BY <1>4, <2>1, Zenon DEF SendEvent, eventVars, workerVars
<1>5. ASSUME NEW w \in Workers, Ignore(w) \/ LockBusy(w)
      PROVE  /\ job[w] \in DOMAIN events /\ outcome[job[w]] = "pending"
             /\ \/ Resolve(job[w], "ignored") /\ ~Reportable(job[w])
                \/ Resolve(job[w], "skipped")
             /\ UNCHANGED <<rancher, faults>>
  <2>1. stage[w] = "begin" /\ job[w] # Nil
    BY <1>5, Zenon DEF Ignore, LockBusy, Goto, Reportable
  <2>. QED
    BY <1>5, <2>1, WaitingJob, Zenon DEF Ignore, LockBusy, Reportable
<1>6. ASSUME NEW w \in Workers, InspectContainer(w) \/ CreateContainerEvent(w)
      PROVE  /\ Reporting(w) /\ job[w] \in DOMAIN events /\ outcome[job[w]] = "pending"
             /\ \/ UNCHANGED <<events, outcome, rancher, faults>>
                \/ /\ Resolve(job[w], "failed")
                   /\ UNCHANGED rancher /\ faults' = faults + 1
                \/ /\ Resolve(job[w], "created")
                   /\ rancher' = rancher \union
                                   {[event |-> job[w], DockerInspect |-> inspect[w]]}
                   /\ UNCHANGED faults
  <2>1. Reporting(w) /\ stage[w] \in {"inspect", "create"}
    BY <1>6, Zenon DEF InspectContainer, CreateContainerEvent, Goto, Reporting
  <2>2. job[w] \in DOMAIN events /\ outcome[job[w]] = "pending"
    BY <2>1, ReportedJob, Zenon
  <2>3. CASE InspectContainer(w)
    BY <2>1, <2>2, <2>3, Zenon DEF InspectContainer, CallFails, eventVars
  <2>4. CASE CreateContainerEvent(w)
    BY <2>1, <2>2, <2>4, ZenonT(30) DEF CreateContainerEvent, CallFails
  <2>. QED
    BY <1>6, <2>3, <2>4, Zenon
<1>7. ASSUME \/ Connect \/ StreamEOF \/ Start \/ ListContainers \/ ProcessFails \/ Stop
             \/ RouteEvents \/ WorkerTimeout \/ UNCHANGED vars
             \/ \E w \in Workers : DoNil(w) \/ Lock(w) \/ Unlock(w) \/ ReturnWorker(w)
      PROVE  UNCHANGED <<events, outcome, rancher, faults>>
  BY <1>7, Zenon
  DEF Connect, StreamEOF, Start, ListContainers, ProcessFails, Stop, RouteEvents, Receive,
      GotWorker, WorkerTimeout, DoNil, Lock, Unlock, ReturnWorker, vars, eventVars, workerVars
<1>8. {"undelivered", "ignored", "skipped"} \subseteq Outcomes \ {"created", "failed"}
  BY Zenon DEF Outcomes
<1>. QED
  BY <1>1, <1>2, <1>3, <1>4, <1>5, <1>6, <1>7, <1>8, ZenonT(30) DEF Next, Docker, Process,
      DoWork

\* A reporter's event is not simulated: Handle returns before the lock on one that is.
LEMMA RealStep ==
    ASSUME RecordInv, [Next]_vars
    PROVE  \A w \in Workers : Reporting(w)' => events'[job'[w]].From # Simulated
<1>0. /\ PoolInv /\ TypeOK /\ JobsMade
      /\ \A w \in Workers : Reporting(w) => events[job[w]].From # Simulated
  BY Zenon DEF RecordInv, OnceInv, PoolInv
<1>1. \A p \in 1 .. Len(events) : events'[p] = events[p]
  BY <1>0, EventsKept, Zenon DEF vars, eventVars
<1>2. \A w \in Workers : Reporting(w) => job[w] \in 1 .. Len(events)
  BY <1>0 DEF JobsMade, TypeOK, Nil
<1>3. CASE UNCHANGED <<stage, job>>
  BY <1>0, <1>1, <1>2, <1>3, Zenon DEF Reporting
<1>4. ASSUME NEW w \in Workers, GotWorker(w) \/ DoWork(w)
      PROVE  \A v \in Workers : Reporting(v)' => events'[job'[v]].From # Simulated
  <2>1. UNCHANGED events /\ stage \in [Workers -> Stages] /\ job \in [Workers -> 0 .. Len(events)]
    BY <1>0, <1>4, Zenon
      DEF GotWorker, DoWork, DoNil, Ignore, Lock, LockBusy, InspectContainer,
         CreateContainerEvent, Unlock, ReturnWorker, Resolve, CallFails, eventVars, TypeOK
  <2>2. \A v \in Workers : v # w => (Reporting(v)' => Reporting(v)) /\ job'[v] = job[v]
    BY <1>4, <2>1, Zenon DEF Reporting, GotWorker, DoWork, DoNil, Ignore, Lock, LockBusy,
         InspectContainer, CreateContainerEvent, Unlock, ReturnWorker, Goto
  <2>3. Reporting(w)' => job'[w] = job[w] /\ (Reporting(w) \/ Reportable(job[w]))
    BY <1>4, <2>1, Zenon DEF Reporting, GotWorker, DoWork, DoNil, Ignore, Lock, LockBusy,
         InspectContainer, CreateContainerEvent, Unlock, ReturnWorker, Goto
  <2>. QED
    BY <1>0, <2>1, <2>2, <2>3, Zenon DEF Reportable
<1>. QED
  BY <1>3, <1>4, WorkersKept, Zenon DEF vars, workerVars

\* The records and the outcomes stay equal: CreateContainerEvent changes both, for an
\* event that had no outcome and so no record.
LEMMA RecordStep == RecordInv /\ [Next]_vars => RecordInv'
<1>. SUFFICES ASSUME RecordInv, [Next]_vars PROVE RancherLedger'
  BY OnceStep, RealStep, Zenon DEF RecordInv
<1>1. TypeOK /\ OnceInv /\ RancherLedger
  BY Zenon DEF RecordInv, OnceInv, PoolInv
<1>2. \A e \in rancher : e.event \in DOMAIN events /\ outcome[e.event] = "created"
  BY <1>1, Zenon DEF RancherLedger
<1>3. \A p \in DOMAIN events : outcome[p] = "created" => \E e \in rancher : e.event = p
  BY <1>1 DEF RancherLedger
<1>4. CASE UNCHANGED <<events, outcome, rancher>>
  BY <1>1, <1>4, ZenonT(30) DEF RancherLedger
<1>5. ASSUME NEW c \in Containers, NEW s \in Statuses, NEW f \in {"image", Simulated},
             NewEvent(c, s, f), UNCHANGED rancher
      PROVE  RancherLedger'
  <2>1. /\ \A p \in DOMAIN events : events'[p] = events[p] /\ outcome'[p] = outcome[p]
        /\ \A p \in DOMAIN events' : p \in DOMAIN events \/ outcome'[p] = "pending"
        /\ DOMAIN events \subseteq DOMAIN events'
    <3>1. /\ Len(events') = Len(events) + 1 /\ Len(events) \in Nat
          /\ DOMAIN events = 1 .. Len(events) /\ DOMAIN events' = 1 .. Len(events')
          /\ \A p \in DOMAIN events : events'[p] = events[p] /\ outcome'[p] = outcome[p]
          /\ outcome'[Len(events')] = "pending"
      BY <1>1, <1>5, NewEventType, Zenon
    <3>2. \A p \in DOMAIN events' : p \in DOMAIN events \/ p = Len(events')
      BY <3>1
    <3>. QED
      BY <3>1, <3>2
  <2>. QED
    <3>1. \A e \in rancher' : e.event \in DOMAIN events' /\ outcome'[e.event] = "created"
      BY <1>2, <1>5, <2>1, Zenon
    <3>2. \A p \in DOMAIN events' : outcome'[p] = "created" => \E e \in rancher' : e.event = p
      BY <1>3, <1>5, <2>1, Zenon
    <3>3. {e.event : e \in rancher'} = {p \in DOMAIN events' : outcome'[p] = "created"}
      BY <3>1, <3>2, Zenon
    <3>. QED
      BY <1>1, <1>2, <1>5, <2>1, <3>3, Zenon DEF RancherLedger
<1>6. ASSUME NEW p \in DOMAIN events, NEW r \in Outcomes \ {"created"},
             outcome[p] = "pending", Resolve(p, r), UNCHANGED rancher
      PROVE  RancherLedger'
  <2>1. /\ UNCHANGED events
        /\ \A q \in DOMAIN events : outcome'[q] = "created" <=> outcome[q] = "created"
    BY <1>1, <1>6, ResolveType, Places, Zenon
  <2>. QED
    BY <1>1, <1>6, <2>1, Zenon DEF RancherLedger
<1>7. ASSUME NEW w \in Workers, Reporting(w), outcome[job[w]] = "pending",
             Resolve(job[w], "created"),
             rancher' = rancher \union {[event |-> job[w], DockerInspect |-> inspect[w]]}
      PROVE  RancherLedger'
  <2>1. job[w] \in DOMAIN events /\ events[job[w]].From # Simulated
    BY <1>1, <1>7, ReportedJob, Zenon DEF RecordInv
  <2>2. /\ UNCHANGED events /\ outcome'[job[w]] = "created"
        /\ \A q \in DOMAIN events : q # job[w] => outcome'[q] = outcome[q]
    BY <1>1, <1>7, <2>1, ResolveType, Places, ZenonT(30) DEF Outcomes
  <2>3. \A e \in rancher' :
            \/ e \in rancher /\ e.event # job[w]
            \/ e = [event |-> job[w], DockerInspect |-> inspect[w]] /\ e.event = job[w]
    BY <1>2, <1>7
  <2>4. \A e \in rancher' : events'[e.event].From # Simulated
    BY <1>1, <2>1, <2>2, <2>3, Zenon DEF RancherLedger
  <2>5. \A e, g \in rancher' : e.event = g.event => e = g
    BY <1>1, <2>3, Zenon DEF RancherLedger
  <2>6. \A e \in rancher' : e.event \in DOMAIN events' /\ outcome'[e.event] = "created"
    BY <1>2, <2>1, <2>2, <2>3, Zenon
  <2>7. \A q \in DOMAIN events' : outcome'[q] = "created" => \E e \in rancher' : e.event = q
    <3>1. [event |-> job[w], DockerInspect |-> inspect[w]] \in rancher'
      BY <1>7, Zenon
    <3>2. rancher \subseteq rancher'
      BY <1>7, Zenon
    <3>. QED
      BY <1>3, <2>2, <3>1, <3>2, Zenon
  <2>. QED
    <3>1. {e.event : e \in rancher'} = {p \in DOMAIN events' : outcome'[p] = "created"}
      BY <2>6, <2>7, Zenon
    <3>. QED
      BY <2>4, <2>5, <3>1, Zenon DEF RancherLedger
<1>8. "failed" \in Outcomes \ {"created"}
  BY ZenonT(30) DEF Outcomes
<1>. QED
  BY <1>1, <1>4, <1>5, <1>6, <1>7, <1>8, RecordSteps, Zenon

\* Rancher gets one ContainerEvent for each event that is reported, and none for a
\* simulated event or for one that was skipped, ignored or lost.
THEOREM RecordsMatchOutcomes == Spec => []RancherLedger
<1>1. Init => RecordInv
  BY OnceInit DEF Init, RecordInv, RancherLedger, Reporting
<1>2. RecordInv => RancherLedger
  BY Zenon DEF RecordInv
<1>. QED
  BY <1>1, <1>2, RecordStep, PTL DEF Spec

--------------------------------------------------------------------------------
\* The events lost to a failed call.
Failed == {p \in DOMAIN events : outcome[p] = "failed"}

\* An event that was given up without an attempt to report it is not Handle's to report,
\* or came to a listener that is closed or was removed, which it then stays.
Discards ==
    /\ \A p \in DOMAIN events : outcome[p] = "ignored" => ~Reportable(p)
    /\ \A p \in DOMAIN events : outcome[p] = "undelivered" => monitor \in {"closed", "removed"}
    /\ process = "new" => monitor = "off"

FailuresCounted == Cardinality(Failed) = faults

LossInv == RecordInv /\ CoverInv /\ FailuresCounted /\ Discards

\* There are finitely many of them.
LEMMA FailedFinite == OnceInv => IsFiniteSet(Failed)
<1>1. ASSUME OnceInv PROVE IsFiniteSet(1 .. Len(events)) /\ Failed \in SUBSET (1 .. Len(events))
  BY <1>1, Places, FS_Interval DEF Failed
<1>. QED
  BY <1>1, FS_Subset, Zenon

\* Only a call that fails makes an event fail, and it does so for one that had no outcome.
LEMMA FailuresStep == OnceInv /\ FailuresCounted /\ [Next]_vars => FailuresCounted'
<1>. SUFFICES ASSUME OnceInv, FailuresCounted, [Next]_vars PROVE FailuresCounted'
  BY Zenon
<1>1. OnceInv /\ TypeOK /\ Cardinality(Failed) = faults
  BY Zenon DEF FailuresCounted, OnceInv, PoolInv
<1>2. CASE Failed' = Failed /\ faults' = faults
  BY <1>1, <1>2, Zenon DEF FailuresCounted
<1>3. CASE UNCHANGED <<events, outcome, rancher, faults>>
  BY <1>2, <1>3, Zenon DEF Failed
<1>4. ASSUME NEW c \in Containers, NEW s \in Statuses, NEW f \in {"image", Simulated},
             NewEvent(c, s, f), UNCHANGED faults
      PROVE  FailuresCounted'
  <2>1. /\ Len(events') = Len(events) + 1 /\ Len(events) \in Nat
        /\ DOMAIN events = 1 .. Len(events) /\ DOMAIN events' = 1 .. Len(events')
        /\ \A p \in DOMAIN events : outcome'[p] = outcome[p]
        /\ outcome'[Len(events')] = "pending"
    BY <1>1, <1>4, NewEventType, Zenon
  <2>2. Failed' = Failed
    BY <2>1 DEF Failed
  <2>. QED
    BY <1>2, <1>4, <2>2, Zenon
<1>5. ASSUME NEW p \in DOMAIN events, NEW r \in Outcomes \ {"created", "failed"},
             outcome[p] = "pending", Resolve(p, r), UNCHANGED faults
      PROVE  FailuresCounted'
  <2>1. Failed' = Failed
    BY <1>1, <1>5, ResolveType, Places, Zenon DEF Failed
  <2>. QED
    BY <1>2, <1>5, <2>1, Zenon
<1>6. ASSUME NEW w \in Workers, Reporting(w), outcome[job[w]] = "pending",
             Resolve(job[w], "created"), UNCHANGED faults
      PROVE  FailuresCounted'
  <2>1. job[w] \in DOMAIN events
    BY <1>1, <1>6, ReportedJob, Zenon
  <2>2. Failed' = Failed
    BY <1>1, <1>6, <2>1, ResolveType, Places DEF Failed, Outcomes
  <2>. QED
    BY <1>2, <1>6, <2>2, Zenon
<1>7. ASSUME NEW p \in DOMAIN events, outcome[p] = "pending", Resolve(p, "failed"),
             faults' = faults + 1
      PROVE  FailuresCounted'
  <2>1. Failed' = Failed \union {p} /\ p \notin Failed
    BY <1>1, <1>7, ResolveType, Places, Zenon DEF Failed, Outcomes
  <2>2. Cardinality(Failed \union {p}) = Cardinality(Failed) + 1
    BY <1>1, <2>1, FailedFinite, FS_AddElement, ZenonT(30)
  <2>. QED
    BY <1>1, <1>7, <2>1, <2>2, Zenon DEF FailuresCounted
<1>. QED
  BY <1>1, <1>3, <1>4, <1>5, <1>6, <1>7, RecordSteps, Zenon

\* The monitor starts with the process, and nothing opens a listener again.
LEMMA MonitorStep ==
    ASSUME process = "new" => monitor = "off", [Next]_vars
    PROVE  /\ process' = "new" => monitor' = "off"
           /\ monitor \in {"closed", "removed"} => monitor' \in {"closed", "removed"}
<1>1. CASE UNCHANGED <<process, monitor>>
  BY <1>1, Zenon
<1>2. CASE Connect \/ StreamEOF \/ Stop
  BY <1>2, Zenon DEF Connect, StreamEOF, Stop, processVars
<1>3. CASE Start
  BY <1>3, Zenon DEF Start
<1>4. CASE ListContainers
  BY <1>4, Zenon DEF ListContainers, monitorVars
<1>5. ASSUME \/ \E c \in Containers : ContainerStep(c) \/ SendSimulated(c)
             \/ Reconnect \/ (\E p \in sending : SendEvent(p)) \/ ProcessFails
             \/ RouteEvents \/ WorkerTimeout \/ UNCHANGED vars
      PROVE  UNCHANGED <<process, monitor>>
  BY <1>5, Zenon
  DEF ContainerStep, SendSimulated, Reconnect, SendEvent, ProcessFails, RouteEvents, Receive,
      GotWorker, WorkerTimeout, vars, monitorVars, processVars
<1>6. ASSUME NEW w \in Workers, DoWork(w) PROVE UNCHANGED <<process, monitor>>
  BY <1>6, Zenon
  DEF DoWork, DoNil, Ignore, Lock, LockBusy, InspectContainer, CreateContainerEvent, Unlock,
      ReturnWorker, monitorVars, processVars
<1>. QED
  BY <1>1, <1>2, <1>3, <1>4, <1>5, <1>6, Zenon DEF Next, Docker, Process

\* Discards is preserved: Ignore and SendEvent look before they give an event up.
LEMMA DiscardsStep == OnceInv /\ Discards /\ [Next]_vars => Discards'
<1>. SUFFICES ASSUME OnceInv, Discards, [Next]_vars PROVE Discards'
  BY Zenon
<1>1. /\ TypeOK /\ JobsMade
      /\ process' = "new" => monitor' = "off"
      /\ monitor \in {"closed", "removed"} => monitor' \in {"closed", "removed"}
      /\ \A p \in DOMAIN events : outcome[p] = "ignored" => ~Reportable(p)
      /\ \A p \in DOMAIN events :
            outcome[p] = "undelivered" => monitor' \in {"closed", "removed"}
  BY MonitorStep, Zenon DEF Discards, OnceInv, PoolInv
<1>2. \A p \in DOMAIN events : events'[p] = events[p] /\ (Reportable(p)' <=> Reportable(p))
  <2>1. \A p \in DOMAIN events : events'[p] = events[p]
    BY <1>1, EventsKept, Places, Zenon DEF vars, eventVars
  <2>. QED
    BY <2>1, Zenon DEF Reportable
<1>. SUFFICES ASSUME NEW p \in DOMAIN events'
              PROVE  /\ outcome'[p] = "ignored" => ~Reportable(p)'
                     /\ outcome'[p] = "undelivered" => monitor' \in {"closed", "removed"}
  BY <1>1, Zenon DEF Discards
<1>3. CASE UNCHANGED <<events, outcome, rancher, faults>>
  BY <1>1, <1>2, <1>3, Zenon
<1>4. CASE \E c \in Containers, s \in Statuses, f \in {"image", Simulated} : NewEvent(c, s, f)
  <2>1. /\ Len(events') = Len(events) + 1 /\ Len(events) \in Nat
        /\ DOMAIN events = 1 .. Len(events) /\ DOMAIN events' = 1 .. Len(events')
        /\ \A q \in DOMAIN events : outcome'[q] = outcome[q]
        /\ outcome'[Len(events')] = "pending"
    BY <1>1, <1>4, NewEventType, Zenon
  <2>2. p \in DOMAIN events \/ outcome'[p] = "pending"
    BY <2>1
  <2>. QED
    BY <1>1, <1>2, <2>1, <2>2, Zenon
<1>5. ASSUME NEW q \in DOMAIN events, NEW r \in Outcomes, Resolve(q, r),
             r = "ignored" => ~Reportable(q),
             r = "undelivered" => monitor' \in {"closed", "removed"}
      PROVE  /\ outcome'[p] = "ignored" => ~Reportable(p)'
             /\ outcome'[p] = "undelivered" => monitor' \in {"closed", "removed"}
  <2>1. /\ UNCHANGED events /\ outcome'[q] = r
        /\ \A s \in DOMAIN events : s # q => outcome'[s] = outcome[s]
    BY <1>1, <1>5, ResolveType, Places, Zenon
  <2>. QED
    BY <1>1, <1>2, <1>5, <2>1, Zenon
<1>6. {"failed", "created"} \subseteq Outcomes
  BY Zenon DEF Outcomes
<1>7. \A w \in Workers : Reporting(w) => job[w] \in DOMAIN events
  BY ReportedJob, Zenon
<1>. QED
  BY <1>3, <1>4, <1>5, <1>6, <1>7, RecordSteps, Zenon

\* What Rancher does not learn of is what failed: an event that was skipped has one alike
\* that was reported, is being reported or failed.
LEMMA LostFailed == LossInv => LostKinds \subseteq {Kind(p) : p \in Failed}
<1>. SUFFICES ASSUME LossInv, NEW p \in DOMAIN events, Reportable(p), Finished(p),
                     Kind(p) \notin {Kind(e.event) : e \in rancher},
                     Kind(p) \notin {Kind(job[w]) : w \in {v \in Workers : Reporting(v)}}
              PROVE  Kind(p) \in {Kind(q) : q \in Failed}
  BY Zenon DEF LostKinds
<1>1. ASSUME NEW q \in DOMAIN events, Kind(q) = Kind(p)
      PROVE  outcome[q] # "created" /\ q \notin Active
  <2>1. q \notin {e.event : e \in rancher}
    BY <1>1, Zenon
  <2>2. q \notin Active
    BY <1>1, Zenon DEF Active
  <2>. QED
    BY <2>1, <2>2, Zenon DEF LossInv, RecordInv, RancherLedger
<1>2. outcome[p] \in {"skipped", "failed"}
  <2>1. outcome[p] \in Outcomes
    <3>1. OnceInv /\ outcome \in Seq(Outcomes) /\ Len(outcome) = Len(events)
      BY Zenon DEF LossInv, CoverInv, OnceInv, PoolInv, TypeOK
    <3>. QED
      BY <3>1, Places, ElementOfSeq, Zenon
  <2>2. outcome[p] \notin {"pending", "ignored", "undelivered", "created"}
    BY <1>1, Zenon DEF LossInv, Discards, Finished
  <2>. QED
    BY <2>1, <2>2, Zenon DEF Outcomes
<1>3. CASE outcome[p] = "failed"
  BY <1>3, Zenon DEF Failed
<1>4. CASE outcome[p] = "skipped"
  <2>1. PICK q \in DOMAIN events :
            Ledger!Alike(q, p) /\ (outcome[q] \in {"created", "failed"} \/ q \in Active)
    BY <1>4, Zenon DEF LossInv, CoverInv, SkippedAttempted
  <2>2. Kind(q) = Kind(p)
    BY <2>1, Zenon DEF Ledger!Alike, Kind
  <2>. QED
    BY <1>1, <2>1, <2>2, Zenon DEF Failed
<1>. QED
  BY <1>2, <1>3, <1>4, Zenon

\* So there are at most as many as failed calls.
LEMMA LossBound == LossInv => LossesNeedFaults
<1>. SUFFICES ASSUME LossInv PROVE LossesNeedFaults
  BY Zenon
<1>. DEFINE Kinds == {Kind(p) : p \in Failed}
            kind == [p \in Failed |-> Kind(p)]
<1>1. kind \in Surjection(Failed, Kinds)
  BY Zenon DEF Surjection
<1>2. IsFiniteSet(Failed)
  BY FailedFinite, Zenon DEF LossInv, RecordInv
<1>. HIDE DEF Kinds, kind
<1>3. IsFiniteSet(Kinds) /\ Cardinality(Kinds) <= Cardinality(Failed)
  BY <1>1, <1>2, FS_Surjection, Zenon
<1>4. LostKinds \in SUBSET Kinds
  BY LostFailed, Zenon DEF Kinds
<1>5. IsFiniteSet(LostKinds) /\ Cardinality(LostKinds) <= Cardinality(Kinds)
  BY <1>3, <1>4, FS_Subset, Zenon
<1>6. /\ Cardinality(LostKinds) \in Nat /\ Cardinality(Kinds) \in Nat
      /\ Cardinality(Failed) \in Nat /\ Cardinality(Failed) = faults
  BY <1>2, <1>3, <1>5, FS_CardinalityType, Zenon DEF LossInv, FailuresCounted
<1>. QED
  BY <1>3, <1>5, <1>6 DEF LossesNeedFaults

\* It takes a failing call for each kind of event that Rancher never learns of: neither a
\* busy lock nor a container that is gone loses one, for every pool, every lifecycle of
\* the containers and every number of faults.
THEOREM LossesAreFaults == Spec => []LossesNeedFaults
<1>1. Init => LossInv
  <2>. SUFFICES ASSUME Init PROVE LossInv
    BY Zenon
  <2>1. events = <<>> /\ outcome = <<>> /\ DOMAIN events = {} /\ faults = 0
    BY DEF Init
  <2>2. RecordInv /\ CoverInv
    BY OnceInit DEF Init, RecordInv, RancherLedger, CoverInv, SkippedAttempted, Active,
        Reporting
  <2>3. FailuresCounted
    <3>1. Failed = {}
      BY <2>1, Zenon DEF Failed
    <3>. QED
      BY <2>1, <3>1, FS_EmptySet, Zenon DEF FailuresCounted
  <2>4. Discards
    BY <2>1, Zenon DEF Init, Discards
  <2>. QED
    BY <2>2, <2>3, <2>4, Zenon DEF LossInv
<1>2. LossInv /\ [Next]_vars => LossInv'
  BY RecordStep, CoverStep, FailuresStep, DiscardsStep, Zenon DEF LossInv, RecordInv
<1>. QED
  BY <1>1, <1>2, LossBound, PTL DEF Spec

--------------------------------------------------------------------------------
\* What an inspection says of the container.
Seen(state) == IF state = "none" THEN "gone" ELSE state

\* The containers are where the events from the daemon left them or later, and so are the
\* inspections that were made for an event.
InspectInv ==
    /\ RecordInv
    /\ \A p \in DOMAIN events :
          events[p].From = "image" => docker[events[p].ID] \in StatesAfter(events[p].Status)
    /\ lastSeen # Nil => events[lastSeen].From = "image"
    /\ \A w \in Workers :
          stage[w] = "create" => Seen(inspect[w]) \in StatesAfter(events[job[w]].Status)
    /\ InspectedAfterEvent

\* A step of the daemon leads to a state after the status it emits, and from a state
\* after another status to one after that.
LEMMA AfterStep ==
    ASSUME NEW step \in Lifecycle
    PROVE  /\ step[3] \in StatesAfter(step[1])
           /\ \A status : step[2] \in StatesAfter(status) => step[3] \in StatesAfter(status)
<1>1. step[3] \in ContainerStates
  BY LifecycleAssumption, Zenon
<1>. QED
  BY <1>1, Zenon DEF StatesAfter

\* The daemon and the monitor keep the first half of the invariant: an event comes with
\* the step it tells of, or again while the monitor has seen none after it.
LEMMA DaemonStep ==
    ASSUME InspectInv, [Next]_vars
    PROVE  /\ \A p \in DOMAIN events' :
                 events'[p].From = "image" =>
                     docker'[events'[p].ID] \in StatesAfter(events'[p].Status)
           /\ lastSeen' # Nil => events'[lastSeen'].From = "image"
<1>1. /\ OnceInv /\ TypeOK /\ JobsMade
      /\ \A p \in DOMAIN events :
            events[p].From = "image" => docker[events[p].ID] \in StatesAfter(events[p].Status)
      /\ lastSeen # Nil => events[lastSeen].From = "image"
  BY Zenon DEF InspectInv, RecordInv, OnceInv, PoolInv
<1>2. /\ DOMAIN events = 1 .. Len(events) /\ Len(events) \in Nat
      /\ lastSeen # Nil => lastSeen \in DOMAIN events
      /\ \A p \in DOMAIN events : events[p] \in APIEvents
  <2>1. DOMAIN events = 1 .. Len(events) /\ Len(events) \in Nat
    BY <1>1, Places, Zenon
  <2>2. lastSeen # Nil => lastSeen \in DOMAIN events
    BY <1>1, <2>1 DEF TypeOK, Nil
  <2>. QED
    BY <1>1, <2>1, <2>2, ElementOfSeq, Zenon DEF TypeOK
<1>3. ASSUME UNCHANGED <<docker, events, lastSeen>>
      PROVE  /\ \A p \in DOMAIN events' :
                   events'[p].From = "image" =>
                       docker'[events'[p].ID] \in StatesAfter(events'[p].Status)
             /\ lastSeen' # Nil => events'[lastSeen'].From = "image"
  BY <1>1, <1>3, Zenon
<1>4. ASSUME NEW c \in Containers, NEW s \in Statuses, NEW f \in {"image", Simulated},
             NewEvent(c, s, f),
             \A p \in DOMAIN events : events[p].From = "image" =>
                 docker'[events[p].ID] \in StatesAfter(events[p].Status),
             f = "image" => docker'[c] \in StatesAfter(s),
             lastSeen' = lastSeen \/ (lastSeen' = Len(events') /\ f = "image")
      PROVE  /\ \A p \in DOMAIN events' :
                   events'[p].From = "image" =>
                       docker'[events'[p].ID] \in StatesAfter(events'[p].Status)
             /\ lastSeen' # Nil => events'[lastSeen'].From = "image"
  <2>1. /\ Len(events') = Len(events) + 1 /\ DOMAIN events' = 1 .. Len(events')
        /\ \A p \in DOMAIN events : events'[p] = events[p]
        /\ events'[Len(events')] = [ID |-> c, Status |-> s, From |-> f]
    BY <1>1, <1>4, NewEventType, Zenon
  <2>2. /\ events'[Len(events')].ID = c /\ events'[Len(events')].Status = s
        /\ events'[Len(events')].From = f
    BY <2>1
  <2>3. \A p \in DOMAIN events' : p \in DOMAIN events \/ p = Len(events')
    BY <1>2, <2>1
  <2>. QED
    BY <1>1, <1>2, <1>4, <2>1, <2>2, <2>3, Zenon
<1>5. ASSUME NEW c \in Containers, ContainerStep(c)
      PROVE  /\ \A p \in DOMAIN events' :
                   events'[p].From = "image" =>
                       docker'[events'[p].ID] \in StatesAfter(events'[p].Status)
             /\ lastSeen' # Nil => events'[lastSeen'].From = "image"
  <2>1. PICK step \in Lifecycle :
            /\ docker[c] = step[2] /\ docker' = [docker EXCEPT ![c] = step[3]]
            /\ IF monitor = "streaming" THEN Decoded(c, step[1])
                                        ELSE UNCHANGED <<eventVars, lastSeen, sending>>
    BY <1>5, Zenon DEF ContainerStep
  <2>2. step[1] \in Statuses
    BY LifecycleAssumption, Zenon
  <2>3. docker'[c] = step[3] /\ \A d \in Containers : d # c => docker'[d] = docker[d]
    BY <1>1, <2>1, Zenon DEF TypeOK
  <2>4. \A p \in DOMAIN events : events[p].From = "image" =>
            docker'[events[p].ID] \in StatesAfter(events[p].Status)
    <3>1. \A p \in DOMAIN events : events[p].ID \in Containers
      BY <1>2, Zenon DEF APIEvents
    <3>. QED
      BY <1>1, <2>1, <2>3, <3>1, AfterStep, Zenon
  <2>5. CASE monitor = "streaming"
    BY <1>4, <2>1, <2>2, <2>3, <2>4, <2>5, AfterStep, Zenon DEF Decoded
  <2>6. CASE monitor # "streaming"
    BY <1>1, <2>1, <2>4, <2>6, Zenon DEF eventVars
  <2>. QED
    BY <2>5, <2>6, Zenon
<1>6. ASSUME Reconnect
      PROVE  /\ \A p \in DOMAIN events' :
                   events'[p].From = "image" =>
                       docker'[events'[p].ID] \in StatesAfter(events'[p].Status)
             /\ lastSeen' # Nil => events'[lastSeen'].From = "image"
  <2>1. /\ lastSeen \in DOMAIN events /\ events[lastSeen].From = "image"
        /\ events[lastSeen].ID \in Containers /\ events[lastSeen].Status \in Statuses
    BY <1>1, <1>2, <1>6, Zenon DEF Reconnect, APIEvents
  <2>. QED
    BY <1>1, <1>4, <1>6, <2>1, Zenon DEF Reconnect, Decoded
<1>7. ASSUME NEW c \in Containers, SendSimulated(c)
      PROVE  /\ \A p \in DOMAIN events' :
                   events'[p].From = "image" =>
                       docker'[events'[p].ID] \in StatesAfter(events'[p].Status)
             /\ lastSeen' # Nil => events'[lastSeen'].From = "image"
  <2>1. UNCHANGED <<docker, lastSeen>>
    BY <1>7, Zenon DEF SendSimulated, monitorVars
  <2>2. UNCHANGED events \/ NewEvent(c, "start", Simulated)
    BY <1>7, Zenon DEF SendSimulated, eventVars
  <2>3. "start" \in Statuses /\ Simulated # "image"
    BY DEF Statuses, Simulated
  <2>. QED
    BY <1>1, <1>3, <1>4, <2>1, <2>2, <2>3, Zenon
<1>8. ASSUME \/ Connect \/ StreamEOF \/ (\E p \in sending : SendEvent(p))
             \/ Start \/ ListContainers \/ ProcessFails \/ Stop
             \/ RouteEvents \/ WorkerTimeout \/ UNCHANGED vars
             \/ \E w \in Workers : DoWork(w)
      PROVE  UNCHANGED <<docker, events, lastSeen>>
  BY <1>8, Zenon
  DEF Connect, StreamEOF, SendEvent, Start, ListContainers, ProcessFails, Stop, RouteEvents,
      Receive, GotWorker, WorkerTimeout, DoWork, DoNil, Ignore, Lock, LockBusy,
      InspectContainer, CreateContainerEvent, Unlock, ReturnWorker, Resolve, CallFails,
      vars, monitorVars, eventVars
<1>. QED
  BY <1>3, <1>5, <1>6, <1>7, <1>8, ZenonT(30) DEF Next, Docker, Process

\* The workers keep the second half: Handle inspects the container after it has the event,
\* and sends the inspection with the event it was made for.
LEMMA InspectionStep ==
    ASSUME InspectInv, [Next]_vars
    PROVE  /\ \A w \in Workers :
                 stage'[w] = "create" => Seen(inspect'[w]) \in StatesAfter(events'[job'[w]].Status)
           /\ InspectedAfterEvent'
<1>1. /\ OnceInv /\ TypeOK /\ JobsMade /\ stage \in [Workers -> Stages]
      /\ inspect \in [Workers -> ContainerStates \union {"none"}]
      /\ \A w \in Workers :
            stage[w] = "create" => Seen(inspect[w]) \in StatesAfter(events[job[w]].Status)
      /\ \A e \in rancher : Seen(e.DockerInspect) \in StatesAfter(events[e.event].Status)
  BY Zenon DEF InspectInv, RecordInv, OnceInv, PoolInv, TypeOK, InspectedAfterEvent, Seen
<1>2. /\ \A p \in DOMAIN events : events'[p] = events[p]
      /\ \A w \in Workers : Reporting(w) => job[w] \in DOMAIN events
      /\ \A e \in rancher : e.event \in DOMAIN events
  <2>1. \A p \in DOMAIN events : events'[p] = events[p]
    BY <1>1, EventsKept, Places, Zenon DEF vars, eventVars
  <2>2. \A e \in rancher : e.event \in DOMAIN events
    BY <1>1, Places, Zenon DEF TypeOK
  <2>. QED
    BY <1>1, <2>1, <2>2, ReportedJob, Zenon
<1>3. ASSUME rancher' = rancher PROVE InspectedAfterEvent'
  BY <1>1, <1>2, <1>3, Zenon DEF InspectedAfterEvent, Seen
<1>4. ASSUME NEW w \in Workers, stage[w] = "create",
             rancher' = rancher \union {[event |-> job[w], DockerInspect |-> inspect[w]]}
      PROVE  InspectedAfterEvent'
  <2>1. job[w] \in DOMAIN events /\ Seen(inspect[w]) \in StatesAfter(events[job[w]].Status)
    BY <1>1, <1>2, <1>4, Zenon DEF Reporting
  <2>. DEFINE new == [event |-> job[w], DockerInspect |-> inspect[w]]
  <2>2. new.event = job[w] /\ new.DockerInspect = inspect[w]
    OBVIOUS
  <2>. HIDE DEF new
  <2>3. \A e \in rancher' : e \in rancher \/ e = new
    BY <1>4, Zenon DEF new
  <2>. QED
    BY <1>1, <1>2, <2>1, <2>2, <2>3, Zenon DEF InspectedAfterEvent, Seen
<1>5. CASE UNCHANGED <<stage, job, inspect, rancher>>
  BY <1>1, <1>2, <1>3, <1>5, Zenon DEF Reporting
<1>6. ASSUME NEW w \in Workers, InspectContainer(w)
      PROVE  stage'[w] = "create" => Seen(inspect'[w]) \in StatesAfter(events[job[w]].Status)
  <2>1. job[w] \in DOMAIN events /\ events[job[w]].From = "image"
    <3>1. Reporting(w)
      BY <1>6, Zenon DEF InspectContainer, Goto, Reporting
    <3>2. events[job[w]] \in APIEvents /\ events[job[w]].From # Simulated
      BY <1>1, <1>2, <3>1, Places, ElementOfSeq, Zenon DEF InspectInv, RecordInv, TypeOK
    <3>. QED
      BY <1>2, <3>1, <3>2, Zenon DEF APIEvents
  <2>2. docker[events[job[w]].ID] \in StatesAfter(events[job[w]].Status)
    BY <2>1, Zenon DEF InspectInv
  <2>3. docker[events[job[w]].ID] # "none"
    BY <2>2 DEF StatesAfter, ContainerStates
  <2>4. CASE inspect' = [inspect EXCEPT ![w] = IF docker[events[job[w]].ID] = "gone" THEN "none"
                                               ELSE docker[events[job[w]].ID]]
    <3>1. Seen(inspect'[w]) = docker[events[job[w]].ID]
      BY <1>1, <2>3, <2>4, Zenon DEF Seen
    <3>. QED
      BY <2>2, <3>1, Zenon
  <2>5. CASE stage' = [stage EXCEPT ![w] = "unlock"]
    BY <1>1, <2>5, Zenon
  <2>. QED
    BY <1>6, <2>4, <2>5, Zenon DEF InspectContainer, Goto
<1>7. ASSUME NEW w \in Workers, GotWorker(w) \/ DoWork(w)
      PROVE  \A v \in Workers :
                stage'[v] = "create" => Seen(inspect'[v]) \in StatesAfter(events'[job'[v]].Status)
  <2>1. /\ stage'[w] = "create" => InspectContainer(w) /\ job' = job
        /\ \A v \in Workers : v # w =>
              stage'[v] = stage[v] /\ inspect'[v] = inspect[v] /\ job'[v] = job[v]
    <3>0. /\ stage \in [Workers -> Stages] /\ job \in [Workers -> 0 .. Len(events)]
          /\ inspect \in [Workers -> ContainerStates \union {"none"}]
      BY <1>1, Zenon DEF TypeOK
    <3>1. CASE GotWorker(w) \/ DoNil(w) \/ Ignore(w) \/ Lock(w) \/ LockBusy(w)
      BY <3>0, <3>1, Zenon DEF GotWorker, DoNil, Ignore, Lock, LockBusy, Goto
    <3>2. CASE InspectContainer(w)
      BY <3>0, <3>2, Zenon DEF InspectContainer, Goto
    <3>3. CASE CreateContainerEvent(w) \/ Unlock(w) \/ ReturnWorker(w)
      BY <3>0, <3>3, Zenon DEF CreateContainerEvent, Unlock, ReturnWorker, Goto
    <3>. QED
      BY <1>7, <3>1, <3>2, <3>3, Zenon DEF DoWork
  <2>2. ASSUME NEW v \in Workers, v # w, stage'[v] = "create"
        PROVE  Seen(inspect'[v]) \in StatesAfter(events'[job'[v]].Status)
    <3>1. stage[v] = "create" /\ inspect'[v] = inspect[v] /\ job'[v] = job[v]
      BY <2>1, <2>2, Zenon
    <3>2. events'[job[v]] = events[job[v]]
      BY <1>2, <3>1, Zenon DEF Reporting
    <3>. QED
      BY <1>1, <3>1, <3>2, Zenon
  <2>3. InspectContainer(w) => Reporting(w)
    BY Zenon DEF InspectContainer, Goto, Reporting
  <2>4. ASSUME stage'[w] = "create"
        PROVE  Seen(inspect'[w]) \in StatesAfter(events'[job'[w]].Status)
    BY <1>2, <1>6, <2>1, <2>3, <2>4, Zenon
  <2>. QED
    BY <2>2, <2>4, Zenon
<1>8. \/ UNCHANGED <<stage, job, inspect, rancher>>
      \/ \E w \in Workers : GotWorker(w) \/ DoWork(w)
  BY Zenon DEF Next, Docker, Process, RouteEvents, ContainerStep, Connect, Reconnect,
         StreamEOF, SendEvent, Start, ListContainers, ProcessFails, Stop, SendSimulated,
         Receive, WorkerTimeout, vars, workerVars
<1>9. ASSUME NEW w \in Workers, GotWorker(w) \/ DoWork(w) PROVE InspectedAfterEvent'
  <2>1. CASE CreateContainerEvent(w)
    BY <1>3, <1>4, <2>1, Zenon DEF CreateContainerEvent, Goto
  <2>2. CASE ~CreateContainerEvent(w)
    BY <1>3, <1>9, <2>2, Zenon DEF GotWorker, DoWork, DoNil, Ignore, Lock, LockBusy,
         InspectContainer, Unlock, ReturnWorker
  <2>. QED
    BY <2>1, <2>2, Zenon
<1>. QED
  BY <1>5, <1>7, <1>8, <1>9, Zenon

\* Rancher never gets an inspection of a container from before the event that it comes
\* with, for every number of workers and every lifecycle of the containers.
THEOREM InspectionsFollowEvents == Spec => []InspectedAfterEvent
<1>1. Init => InspectInv
  <2>1. Init => RecordInv
    BY OnceInit DEF Init, RecordInv, RancherLedger, Reporting
  <2>2. Init => DOMAIN events = {}
    BY DEF Init
  <2>. QED
    BY <2>1, <2>2, Zenon DEF Init, InspectInv, InspectedAfterEvent
<1>2. InspectInv /\ [Next]_vars => InspectInv'
  BY RecordStep, DaemonStep, InspectionStep, Zenon DEF InspectInv
<1>3. InspectInv => InspectedAfterEvent
  BY Zenon DEF InspectInv
<1>. QED
  BY <1>1, <1>2, <1>3, PTL DEF Spec
================================================================================
