------------------------------ MODULE XrpQueue ------------------------------
(***************************************************************************)
(* One XRP command queue (xrp-host/src/xrp_threaded_queue.c, the queue and *)
(* event half of xrp_host_common.c, and the enqueue and processing half of *)
(* xrp_linux.c): the request list and its worker thread, the reference     *)
(* counts that keep the queue, its events, the device and a buffer group   *)
(* alive, and the tear-down of the queue by whoever drops the last         *)
(* reference, which may be the worker itself.                              *)
(*                                                                         *)
(* A critical section of request_queue_cond or of an event's condition     *)
(* variable is one step: every access to the data it protects is made with *)
(* the mutex held.  Atomic counters, and reads and writes made without a   *)
(* mutex, are steps of their own.                                          *)
(***************************************************************************)
EXTENDS Integers, Sequences, FiniteSets

CONSTANTS Threads,       \* application threads
          Requests,      \* struct xrp_request objects, each used once
          Worker,        \* the queue's worker thread
          None,          \* no request
          ThreadStarts,  \* outcomes of pthread_create the run allows
          GroupArgs      \* whether a caller may pass a buffer group

ASSUME XrpQueueAssumption ==
    /\ IsFiniteSet(Threads) /\ IsFiniteSet(Requests)
    /\ Worker \notin Threads
    /\ None \notin Requests
    /\ Threads \cap Requests = {}
    /\ ThreadStarts \subseteq BOOLEAN /\ GroupArgs \subseteq BOOLEAN

Actors == Threads \cup {Worker}

VARIABLES
    qLife,      \* struct xrp_queue: "none", "live" or "freed"
    qRef,       \* queue->ref.count
    qExit,      \* queue->impl.queue.exit
    fifo,       \* the request_queue list from head to tail
    workerExit, \* the worker's local "exit", which sync_exit points to
    phase,      \* where each request is between its malloc and its free
    status,     \* the worker's local status of the request it processes
    delivered,  \* requests the DSP has answered (no variable of the code)
    evLife,     \* per request, the life of its struct xrp_event
    evRef,      \* event->ref.count
    evStatus,   \* event->status
    grpRef,     \* ref.count of the one buffer group of the model
    usesGroup,  \* requests whose buffer_group field still owns a reference
    devRef,     \* ref.count of the device
    holdsQ,     \* application threads that own a reference to the queue
    holdsE,     \* per thread, the events it owns a reference to
    holdsG,     \* application threads that own a reference to the group
    holdsD,     \* whether the application still owns its device reference
    pc,         \* control point of each thread and of the worker
    cur,        \* the request (and event) each of them is busy with
    inSync      \* threads inside xrp_run_command_sync

queueVars == <<qLife, qRef, qExit, fifo, workerExit>>
reqVars   == <<phase, status, delivered>>
evVars    == <<evLife, evRef, evStatus>>
grpVars   == <<grpRef, usesGroup, holdsG>>
devVars   == <<devRef, holdsD>>
ctlVars   == <<pc, cur, inSync>>
objVars == <<queueVars, reqVars, evVars, grpVars, devVars, holdsQ, holdsE>>
vars == <<objVars, ctlVars>>

Phases == {"unused", "prepared", "queued", "running", "signalled", "done", "lost"}
Statuses == {"PENDING", "SUCCESS", "FAILURE"}
ThreadPCs == {"idle", "push", "wait", "blocked", "relEvent", "relQueue",
              "destroy", "join", "free", "crashed"}
WorkerPCs == {"none", "enter", "deq", "sleep", "run", "relGroup", "signal",
              "relEvent", "relQueue", "destroy", "join", "free", "next", "dead"}

HasEvent(r) == evLife[r] /= "none"

\* Where control is after a chain of releases: an application thread returns
\* to its caller, the worker goes on behind xrp_release_event in
\* xrp_request_process.
AfterRelease(a) == IF a = Worker THEN "next" ELSE "idle"

NoWakeup(p) == p  \* mutant: the broadcast is forgotten

\* pthread_cond_broadcast on request_queue_cond: only the worker waits on it.
WakeWorker(p) == IF p[Worker] = "sleep" THEN [p EXCEPT ![Worker] = "deq"] ELSE p

\* mutant: pthread_cond_signal wakes one of the waiters
WakeOneWaiter(p, r) ==
    LET blocked == {a \in Actors : p[a] = "blocked" /\ cur[a] = r}
    IN  IF blocked = {} THEN p ELSE [p EXCEPT ![CHOOSE a \in blocked : TRUE] = "wait"]

\* pthread_cond_broadcast on the condition variable of the event of r.
WakeWaiters(p, r) ==
    [a \in Actors |-> IF p[a] = "blocked" /\ cur[a] = r THEN "wait" ELSE p[a]]

\* The references xrp_enqueue_command takes: the event is created with one,
\* for the caller, and retained for the request; it retains the queue.
EventRefsNotRetained == 1  \* mutant
EventRefsTaken == 2
QueueRefsNotRetained == 0  \* mutant
QueueRefsTaken == 1

\* The reference xrp_create_nsp_queue takes on the device.
DeviceRefsNotRetained == 0  \* mutant
DeviceRefsTaken == 1

XrpInit ==
    /\ qLife = "none" /\ qRef = 0 /\ qExit = FALSE /\ fifo = << >>
    /\ workerExit = FALSE
    /\ phase = [r \in Requests |-> "unused"]
    /\ status = "PENDING" /\ delivered = {}
    /\ evLife = [r \in Requests |-> "none"]
    /\ evRef = [r \in Requests |-> 0]
    /\ evStatus = [r \in Requests |-> "PENDING"]
    /\ \E t \in Threads : holdsG = {t}
    /\ grpRef = 1 /\ usesGroup = {}
    /\ devRef = 1 /\ holdsD = TRUE
    /\ holdsQ = {} /\ holdsE = [t \in Threads |-> {}]
    /\ pc = [a \in Actors |-> IF a = Worker THEN "none" ELSE "idle"]
    /\ cur = [a \in Actors |-> None]
    /\ inSync = {}

-----------------------------------------------------------------------------
(***************************************************************************)
(* Calls an application thread chooses to make.  A thread only passes what *)
(* it owns a reference to.                                                 *)
(***************************************************************************)

\* xrp_create_nsp_queue and xrp_queue_init.  The result of pthread_create is
\* ignored: without a thread the queue is reported as created all the same.
\* A failed allocation undoes the device reference: nothing changes.
CreateQueue(t) ==
    /\ pc[t] = "idle"
    /\ holdsD /\ qLife = "none"
    /\ qLife' = "live" /\ qRef' = 1
    /\ devRef' = devRef + DeviceRefsTaken
    /\ holdsQ' = holdsQ \cup {t}
    /\ \E started \in ThreadStarts :
         pc' = IF started THEN [pc EXCEPT ![Worker] = "enter"] ELSE pc
    /\ UNCHANGED <<qExit, fifo, workerExit, reqVars, evVars, grpVars, holdsD,
                   holdsE, cur, inSync>>

\* xrp_retain_queue by the owner t of a reference, on behalf of thread u.
RetainQueue(t, u) ==
    /\ pc[t] = "idle"
    /\ t \in holdsQ /\ u \notin holdsQ
    /\ qRef' = qRef + 1
    /\ holdsQ' = holdsQ \cup {u}
    /\ UNCHANGED <<qLife, qExit, fifo, workerExit, reqVars, evVars, grpVars,
                   devVars, holdsE, ctlVars>>

\* xrp_retain_event by the owner t of a reference, on behalf of thread u.
RetainEvent(t, u, r) ==
    /\ pc[t] = "idle"
    /\ r \in holdsE[t] /\ r \notin holdsE[u]
    /\ evRef' = [evRef EXCEPT ![r] = @ + 1]
    /\ holdsE' = [holdsE EXCEPT ![u] = @ \cup {r}]
    /\ UNCHANGED <<queueVars, reqVars, evLife, evStatus, grpVars, devVars,
                   holdsQ, ctlVars>>

\* xrp_enqueue_command up to xrp_queue_push: the request, its event (created
\* with one reference and retained for the request) and the references the
\* request takes.  A failed allocation returns before any of it.
Enqueue(t, r, event, group, sync) ==
    /\ pc[t] = "idle"
    /\ t \in holdsQ /\ phase[r] = "unused"
    /\ sync => event
    /\ group => t \in holdsG
    /\ phase' = [phase EXCEPT ![r] = "prepared"]
    /\ IF event
       THEN /\ evLife' = [evLife EXCEPT ![r] = "live"]
            /\ evRef' = [evRef EXCEPT ![r] = EventRefsTaken]
            /\ qRef' = qRef + QueueRefsTaken
            /\ holdsE' = [holdsE EXCEPT ![t] = @ \cup {r}]
       ELSE UNCHANGED <<evLife, evRef, qRef, holdsE>>
    /\ IF group
       THEN grpRef' = grpRef + 1 /\ usesGroup' = usesGroup \cup {r}
       ELSE UNCHANGED <<grpRef, usesGroup>>
    /\ inSync' = IF sync THEN inSync \cup {t} ELSE inSync
    /\ pc' = [pc EXCEPT ![t] = "push"]
    /\ cur' = [cur EXCEPT ![t] = r]
    /\ UNCHANGED <<qLife, qExit, fifo, workerExit, status, delivered, evStatus,
                   holdsG, devVars, holdsQ>>

\* The call of xrp_wait; the loop itself is WaitCheck.
Wait(t, r) ==
    /\ pc[t] = "idle"
    /\ r \in holdsE[t]
    /\ pc' = [pc EXCEPT ![t] = "wait"]
    /\ cur' = [cur EXCEPT ![t] = r]
    /\ UNCHANGED <<objVars, inSync>>

\* The call of xrp_release_event; the decrement is DropEvent.
ReleaseEvent(t, r) ==
    /\ pc[t] = "idle"
    /\ r \in holdsE[t]
    /\ pc' = [pc EXCEPT ![t] = "relEvent"]
    /\ cur' = [cur EXCEPT ![t] = r]
    /\ UNCHANGED <<objVars, inSync>>

\* xrp_release_queue: the owner of the last reference tears the queue down.
ReleaseQueue(t) ==
    /\ pc[t] = "idle"
    /\ t \in holdsQ
    /\ holdsQ' = holdsQ \ {t}
    /\ qRef' = qRef - 1
    /\ pc' = IF qRef = 1 THEN [pc EXCEPT ![t] = "destroy"] ELSE pc
    /\ cur' = [cur EXCEPT ![t] = None]
    /\ UNCHANGED <<qLife, qExit, fifo, workerExit, reqVars, evVars, grpVars,
                   devVars, holdsE, inSync>>

\* xrp_release_buffer_group.
ReleaseGroup(t) ==
    /\ pc[t] = "idle"
    /\ t \in holdsG
    /\ holdsG' = holdsG \ {t}
    /\ grpRef' = grpRef - 1
    /\ UNCHANGED <<queueVars, reqVars, evVars, usesGroup, devVars, holdsQ,
                   holdsE, ctlVars>>

\* xrp_release_device.
ReleaseDevice(t) ==
    /\ pc[t] = "idle"
    /\ holdsD
    /\ holdsD' = FALSE
    /\ devRef' = devRef - 1
    /\ UNCHANGED <<queueVars, reqVars, evVars, grpVars, holdsQ, holdsE, ctlVars>>

-----------------------------------------------------------------------------
(***************************************************************************)
(* Steps inside a call.                                                    *)
(***************************************************************************)

\* Only a push on an empty list (tail is NULL) broadcasts.
PushNeverBroadcasts == FALSE  \* mutant
PushBroadcasts == fifo = << >>

\* xrp_queue_push.  A synchronous
\* caller goes on to wait for its event.
Push(t) ==
    /\ pc[t] = "push"
    /\ fifo' = Append(fifo, cur[t])
    /\ phase' = [phase EXCEPT ![cur[t]] = "queued"]
    /\ LET next == [pc EXCEPT ![t] = IF t \in inSync THEN "wait" ELSE "idle"]
       IN  pc' = IF PushBroadcasts THEN WakeWorker(next) ELSE next
    /\ cur' = IF t \in inSync THEN cur ELSE [cur EXCEPT ![t] = None]
    /\ UNCHANGED <<qLife, qRef, qExit, workerExit, status, delivered, evVars,
                   grpVars, devVars, holdsQ, holdsE, inSync>>

\* One turn of the loop of xrp_wait: return, or sleep until a broadcast.  A
\* synchronous caller reads the status and releases its event.
WaitCheck(t) ==
    /\ pc[t] = "wait"
    /\ IF evStatus[cur[t]] = "PENDING"
       THEN pc' = [pc EXCEPT ![t] = "blocked"] /\ cur' = cur
       ELSE IF t \in inSync
            THEN pc' = [pc EXCEPT ![t] = "relEvent"] /\ cur' = cur
            ELSE pc' = [pc EXCEPT ![t] = "idle"] /\ cur' = [cur EXCEPT ![t] = None]
    /\ UNCHANGED <<objVars, inSync>>

\* pthread_cond_wait may return without a broadcast.
SpuriousWakeup ==
    /\ \/ pc[Worker] = "sleep" /\ pc' = [pc EXCEPT ![Worker] = "deq"]
       \/ \E t \in Threads :
             pc[t] = "blocked" /\ pc' = [pc EXCEPT ![t] = "wait"]
    /\ UNCHANGED <<objVars, cur, inSync>>

\* xrp_release_event: the atomic decrement; the last one destroys the event's
\* condition variable and goes on to release the event's queue.
DropEvent(a) ==
    /\ pc[a] = "relEvent"
    /\ LET r == cur[a]
           last == evRef[r] = 1
       IN  /\ evRef' = [evRef EXCEPT ![r] = @ - 1]
           /\ evLife' = IF last THEN [evLife EXCEPT ![r] = "destroyed"] ELSE evLife
           /\ IF a = Worker
              THEN phase' = [phase EXCEPT ![r] = "done"] /\ holdsE' = holdsE
              ELSE phase' = phase /\ holdsE' = [holdsE EXCEPT ![a] = @ \ {r}]
           /\ pc' = [pc EXCEPT ![a] = IF last THEN "relQueue" ELSE AfterRelease(a)]
           /\ cur' = IF last THEN cur ELSE [cur EXCEPT ![a] = None]
           /\ inSync' = IF last THEN inSync ELSE inSync \ {a}
    /\ UNCHANGED <<queueVars, status, delivered, evStatus, grpVars, devVars, holdsQ>>

\* xrp_release_queue on event->queue.  Nothing reads the event after it, so
\* the free of the event is part of this step.
DropQueueOfEvent(a) ==
    /\ pc[a] = "relQueue"
    /\ qRef' = qRef - 1
    /\ evLife' = [evLife EXCEPT ![cur[a]] = "freed"]
    /\ pc' = [pc EXCEPT ![a] = IF qRef = 1 THEN "destroy" ELSE AfterRelease(a)]
    /\ cur' = [cur EXCEPT ![a] = None]
    /\ inSync' = inSync \ {a}
    /\ UNCHANGED <<qLife, qExit, fifo, workerExit, reqVars, evRef, evStatus,
                   grpVars, devVars, holdsQ, holdsE>>

\* xrp_queue_destroy: ask the worker to leave.
DestroySetExit(a) ==
    /\ pc[a] = "destroy"
    /\ qExit' = TRUE
    /\ pc' = WakeWorker([pc EXCEPT ![a] = "join"])
    /\ UNCHANGED <<qLife, qRef, fifo, workerExit, reqVars, evVars, grpVars,
                   devVars, holdsQ, holdsE, cur, inSync>>

\* pthread_join by another thread returns once the worker has left.
JoinWorker(t) ==
    /\ pc[t] = "join"
    /\ pc[Worker] = "dead"
    /\ pc' = [pc EXCEPT ![t] = "free"]
    /\ UNCHANGED <<objVars, cur, inSync>>

\* pthread_join fails when no thread was started, and sync_exit is still NULL.
JoinNothing(t) ==
    /\ pc[t] = "join"
    /\ pc[Worker] = "none"
    /\ pc' = [pc EXCEPT ![t] = "crashed"]
    /\ UNCHANGED <<objVars, cur, inSync>>

\* pthread_join fails when the worker joins itself: it tells its own loop
\* through sync_exit and detaches.
JoinSelf ==
    /\ pc[Worker] = "join"
    /\ workerExit' = TRUE
    /\ pc' = [pc EXCEPT ![Worker] = "free"]
    /\ UNCHANGED <<qLife, qRef, qExit, fifo, reqVars, evVars, grpVars, devVars,
                   holdsQ, holdsE, cur, inSync>>

\* The end of xrp_queue_destroy ("releasing non-empty queue" when requests are
\* left) and of xrp_release_queue.  The requests left are never processed.
FreeQueue(a) ==
    /\ pc[a] = "free"
    /\ qLife' = "freed"
    /\ fifo' = << >>
    /\ phase' = [r \in Requests |-> IF phase[r] = "queued" THEN "lost" ELSE phase[r]]
    /\ devRef' = devRef - 1
    /\ pc' = [pc EXCEPT ![a] = AfterRelease(a)]
    /\ UNCHANGED <<qRef, qExit, workerExit, status, delivered, evVars, grpVars,
                   holdsD, holdsQ, holdsE, cur, inSync>>

-----------------------------------------------------------------------------
(***************************************************************************)
(* The worker thread.                                                      *)
(***************************************************************************)

\* The head of xrp_queue_process: publish the address of the local exit flag.
WorkerEnter ==
    /\ pc[Worker] = "enter"
    /\ workerExit' = FALSE
    /\ pc' = [pc EXCEPT ![Worker] = "deq"]
    /\ UNCHANGED <<qLife, qRef, qExit, fifo, reqVars, evVars, grpVars, devVars,
                   holdsQ, holdsE, cur, inSync>>

\* The list behind its head, once _xrp_dequeue_request has taken that.
HeadNotUnlinked == fifo  \* mutant
Unlinked == Tail(fifo)

\* Whether the loop of xrp_queue_process leaves with a request.
ExitFirst == fifo /= << >> /\ ~qExit  \* mutant
RequestTaken == fifo /= << >>

\* One turn of the loop of xrp_queue_process.  A request takes precedence over
\* the exit flag, so a queue torn down by another thread is drained first.
WorkerDequeue ==
    /\ pc[Worker] = "deq"
    /\ IF RequestTaken
       THEN /\ cur' = [cur EXCEPT ![Worker] = Head(fifo)]
            /\ fifo' = Unlinked
            /\ phase' = [phase EXCEPT ![Head(fifo)] = "running"]
            /\ pc' = [pc EXCEPT ![Worker] = "run"]
       ELSE /\ pc' = [pc EXCEPT ![Worker] = IF qExit THEN "dead" ELSE "sleep"]
            /\ UNCHANGED <<cur, fifo, phase>>
    /\ UNCHANGED <<qLife, qRef, qExit, workerExit, status, delivered, evVars,
                   grpVars, devVars, holdsQ, holdsE, inSync>>

\* What _xrp_run_command leaves in ret: the result of sprd_vdsp_send_cmd_direc,
\* SPRD_VDSP_RESULT_SUCCESS (0) or SPRD_VDSP_RESULT_FAIL (1), or -1 when the
\* copy of the group's buffers cannot be allocated.
CommandResults(r) == {0, 1} \cup (IF r \in usesGroup THEN {-1} ELSE {})

StatusOfSwapped(ret) == IF ret <= 0 THEN "FAILURE" ELSE "SUCCESS"  \* mutant
StatusOf(ret) == IF ret < 0 THEN "FAILURE" ELSE "SUCCESS"

\* _xrp_run_command.
RunCommand ==
    /\ pc[Worker] = "run"
    /\ \E ret \in CommandResults(cur[Worker]) :
         /\ status' = StatusOf(ret)
         /\ delivered' = IF ret = 0 THEN delivered \cup {cur[Worker]} ELSE delivered
    /\ pc' = [pc EXCEPT ![Worker] = "relGroup"]
    /\ UNCHANGED <<queueVars, phase, evVars, grpVars, devVars, holdsQ, holdsE,
                   cur, inSync>>

\* xrp_request_process releases the buffer group of the request.
RequestReleaseGroup ==
    /\ pc[Worker] = "relGroup"
    /\ LET r == cur[Worker]
       IN  /\ grpRef' = IF r \in usesGroup THEN grpRef - 1 ELSE grpRef
           /\ usesGroup' = usesGroup \ {r}
           /\ IF HasEvent(r)
              THEN pc' = [pc EXCEPT ![Worker] = "signal"] /\ phase' = phase
              ELSE /\ pc' = [pc EXCEPT ![Worker] = "next"]
                   /\ phase' = [phase EXCEPT ![r] = "done"]
    /\ cur' = IF HasEvent(cur[Worker]) THEN cur ELSE [cur EXCEPT ![Worker] = None]
    /\ UNCHANGED <<queueVars, status, delivered, evVars, holdsG, devVars,
                   holdsQ, holdsE, inSync>>

\* xrp_request_process publishes the status in the event and broadcasts.
Signal ==
    /\ pc[Worker] = "signal"
    /\ LET r == cur[Worker]
       IN  /\ evStatus' = [evStatus EXCEPT ![r] = status]
           /\ phase' = [phase EXCEPT ![r] = "signalled"]
           /\ pc' = WakeWaiters([pc EXCEPT ![Worker] = "relEvent"], r)
    /\ UNCHANGED <<queueVars, status, delivered, evLife, evRef, grpVars, devVars,
                   holdsQ, holdsE, cur, inSync>>

\* xrp_queue_process returns !exit.
AlwaysContinues == TRUE  \* mutant
WorkerContinues == ~workerExit

\* The request is freed and xrp_queue_thread goes on or leaves.
WorkerNext ==
    /\ pc[Worker] = "next"
    /\ pc' = [pc EXCEPT ![Worker] = IF WorkerContinues THEN "enter" ELSE "dead"]
    /\ status' = "PENDING"
    /\ UNCHANGED <<queueVars, phase, delivered, evVars, grpVars, devVars,
                   holdsQ, holdsE, cur, inSync>>

-----------------------------------------------------------------------------
Call(t) ==
    \/ CreateQueue(t)
    \/ \E u \in Threads : RetainQueue(t, u)
    \/ \E u \in Threads, r \in Requests : RetainEvent(t, u, r)
    \/ \E r \in Requests, event, sync \in BOOLEAN, group \in GroupArgs :
          Enqueue(t, r, event, group, sync)
    \/ \E r \in Requests : Wait(t, r)
    \/ \E r \in Requests : ReleaseEvent(t, r)
    \/ ReleaseQueue(t)
    \/ ReleaseGroup(t)
    \/ ReleaseDevice(t)

Release(a) ==
    \/ DropEvent(a)
    \/ DropQueueOfEvent(a)
    \/ DestroySetExit(a)
    \/ FreeQueue(a)

ThreadStep(t) ==
    \/ Push(t)
    \/ WaitCheck(t)
    \/ JoinWorker(t)
    \/ JoinNothing(t)
    \/ Release(t)

WorkerStep ==
    \/ WorkerEnter
    \/ WorkerDequeue
    \/ RunCommand
    \/ RequestReleaseGroup
    \/ Signal
    \/ WorkerNext
    \/ JoinSelf
    \/ Release(Worker)

\* Everything has been given back: the application is through.
Finished ==
    /\ \A t \in Threads : pc[t] = "idle" /\ holdsE[t] = {}
    /\ holdsQ = {} /\ holdsG = {} /\ ~holdsD
    /\ pc[Worker] \in {"none", "dead"}
    /\ UNCHANGED vars

XrpNext ==
    \/ \E t \in Threads : Call(t) \/ ThreadStep(t)
    \/ WorkerStep
    \/ SpuriousWakeup
    \/ Finished

\* A started call and the worker are scheduled eventually (pthreads; the DSP
\* answers or the driver's ioctl returns an error).  No application thread has
\* to make a call.
XrpSpec ==
    /\ XrpInit /\ [][XrpNext]_vars
    /\ WF_vars(WorkerStep)
    /\ \A t \in Threads : WF_vars(ThreadStep(t))

-----------------------------------------------------------------------------
(***************************************************************************)
(* Properties.                                                             *)
(***************************************************************************)

\* The type of every variable of one queue (struct xrp_queue and its request
\* queue, events and threads).
XrpTypeOK ==
    /\ qLife \in {"none", "live", "freed"} /\ qRef \in Nat /\ qExit \in BOOLEAN
    /\ fifo \in Seq(Requests)
    /\ workerExit \in BOOLEAN
    /\ phase \in [Requests -> Phases]
    /\ status \in Statuses /\ delivered \subseteq Requests
    /\ evLife \in [Requests -> {"none", "live", "destroyed", "freed"}]
    /\ evRef \in [Requests -> Nat]
    /\ evStatus \in [Requests -> Statuses]
    /\ grpRef \in Nat /\ usesGroup \subseteq Requests /\ holdsG \subseteq Threads
    /\ devRef \in Nat /\ holdsD \in BOOLEAN
    /\ holdsQ \subseteq Threads
    /\ holdsE \in [Threads -> SUBSET Requests]
    /\ pc \in [Actors -> ThreadPCs \cup WorkerPCs]
    /\ \A t \in Threads : pc[t] \in ThreadPCs
    /\ pc[Worker] \in WorkerPCs
    /\ cur \in [Actors -> Requests \cup {None}]
    /\ inSync \subseteq Threads

\* An event keeps its reference to the queue until the last release of the
\* event drops it.
OwnsQueue(r) == evLife[r] \in {"live", "destroyed"}

\* A request keeps the reference xrp_enqueue_command retained for it until
\* xrp_request_process releases it.
OwnsEvent(r) ==
    HasEvent(r) /\ phase[r] \in {"prepared", "queued", "running", "signalled"}

QueueRefs == holdsQ \cup {r \in Requests : OwnsQueue(r)}
EventRefs(r) == {t \in Threads : r \in holdsE[t]}
                    \cup (IF OwnsEvent(r) THEN {Worker} ELSE {})

\* Each counter is the number of owners there are: no release is missed or
\* made twice on any path of xrp_enqueue_command, xrp_request_process and the
\* release functions, whoever runs them.
RefCountsExact ==
    /\ qRef = Cardinality(QueueRefs)
    /\ \A r \in Requests : evRef[r] = Cardinality(EventRefs(r))
    /\ grpRef = Cardinality(holdsG \cup usesGroup)
    /\ devRef = (IF holdsD THEN 1 ELSE 0) + (IF qLife = "live" THEN 1 ELSE 0)

\* Nobody is at a point of the code that reads or writes the queue (or its
\* list, its exit flag, its device) once xrp_release_queue has freed it: not
\* the worker on its way back from a request in which it tore the queue down
\* itself, nor a thread that is about to push.
QueueNotUsedAfterFree ==
    /\ (\E a \in Actors : pc[a] \in {"push", "relQueue", "destroy", "join",
                                     "free", "enter", "deq", "sleep", "run"})
          => qLife = "live"
    /\ holdsQ /= {} => qLife = "live"

\* The same for an event: xrp_wait never looks at, and the worker never
\* signals, an event whose condition variable has been destroyed.
EventNotUsedAfterFree ==
    /\ \A t \in Threads : \A r \in holdsE[t] : evLife[r] = "live"
    /\ \A a \in Actors : pc[a] \in {"wait", "blocked", "signal", "relEvent"}
          => evLife[cur[a]] = "live"

\* While the DSP works on a command, the device and the group it was enqueued
\* with are still there, whatever the application has released meanwhile.
RunningCommandKeepsItsObjects ==
    pc[Worker] = "run" =>
        /\ devRef > 0
        /\ cur[Worker] \in usesGroup => grpRef > 0

\* A queue torn down by an application thread has processed every request
\* that was pushed (xrp_queue_process prefers a request to the exit flag).
DestroyDrains == \A t \in Threads : pc[t] = "free" => fifo = << >>

\* A thread sleeps in xrp_wait only while its event can still be signalled:
\* the request is on its way through the list or the worker.
NoLostWakeup ==
    /\ \A t \in Threads : pc[t] = "blocked" => evStatus[cur[t]] = "PENDING"
    /\ pc[Worker] = "sleep" => fifo = << >> /\ ~qExit

\* "the event remains signaled" (xrp_api.h:476): a status is published once
\* and never changes or returns to PENDING afterwards.
SignalledOnce ==
    [][\A r \in Requests : evStatus[r] /= "PENDING" => evStatus'[r] = evStatus[r]]_vars

\* A command the DSP has answered is not reported as failed.
AnsweredNotFailed ==
    \A r \in Requests : evStatus[r] = "FAILURE" => r \notin delivered

\* "Command execution is successful if the command was delivered to the DSP
\* and the response was delivered back. Otherwise the command execution has
\* failed." (xrp_api.h:405-407)
SuccessMeansAnswered ==
    \A r \in Requests : evStatus[r] = "SUCCESS" => r \in delivered

\* A thread in xrp_wait or xrp_run_command_sync gets out of it.
WaitReturns ==
    \A t \in Threads : pc[t] \in {"wait", "blocked"} ~> pc[t] = "idle"

\* A queue without references is freed and its worker leaves, whether the
\* last reference was dropped by the application or in the worker itself.
UnreferencedQueueIsFreed ==
    (qLife = "live" /\ qRef = 0) ~> (qLife = "freed" /\ pc[Worker] = "dead")

-----------------------------------------------------------------------------
InPhase(ps) == {r \in Requests : phase[r] \in ps}

\* The queue implements an ordered channel: a command is accepted by the push,
\* carried out while the worker runs it, and its submitter tracks it through
\* its event.
Channel == INSTANCE OrderedChannel WITH
    Commands  <- Requests,
    pending   <- fifo,
    active    <- InPhase({"running"}),
    finished  <- InPhase({"signalled", "done"}),
    abandoned <- InPhase({"lost"}),
    tracked   <- {r \in Requests : HasEvent(r) /\ phase[r] \notin {"unused", "prepared"}},
    closed    <- qLife = "freed"

\* Refinement of OrderedChannel, fairness included: commands are carried out
\* in the order of their acceptance, one at a time, and none with an event is
\* dropped when the queue is torn down.
ImplementsOrderedChannel == Channel!ChannelSpec

=============================================================================
