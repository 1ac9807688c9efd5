--------------------------- MODULE XrpQueue_proofs ---------------------------
(***************************************************************************)
(* What holds of the XRP command queue for any number of threads and of    *)
(* requests: its reference counts are exact, and nobody uses the queue or  *)
(* an event after it has been destroyed.                                   *)
(*                                                                         *)
(* The two depend on each other.  The counts say which release is the last *)
(* one (xrp_refcounted_dec returns zero), and only because the last        *)
(* release finds no owner left is the object not used afterwards; while    *)
(* the counts stay exact only because nobody releases what it does not     *)
(* own.  XrpInv and RefCountsExact are therefore proved together, one      *)
(* conjunct of XrpInv at a time.  On top of them, OutcomeInv says where a  *)
(* request is and what is known of it there, which is what the statuses of *)
(* the events and the refinement of OrderedChannel rest on.                *)
(***************************************************************************)
EXTENDS XrpQueue, FiniteSetTheorems, TLAPS

\* The types, before the counters are known not to go below zero.
DataTypes ==
    /\ qLife \in {"none", "live", "freed"} /\ qExit \in BOOLEAN
    /\ workerExit \in BOOLEAN /\ holdsD \in BOOLEAN
    /\ qRef \in Int /\ grpRef \in Int /\ devRef \in Int
    /\ evRef \in [Requests -> Int]
    /\ fifo \in Seq(Requests)
    /\ phase \in [Requests -> Phases]
    /\ status \in Statuses /\ delivered \subseteq Requests
    /\ evLife \in [Requests -> {"none", "live", "destroyed", "freed"}]
    /\ evStatus \in [Requests -> Statuses]
    /\ usesGroup \subseteq Requests /\ holdsG \subseteq Threads
    /\ holdsQ \subseteq Threads
    /\ holdsE \in [Threads -> SUBSET Requests]

ControlTypes ==
    /\ pc \in [Actors -> ThreadPCs \cup WorkerPCs]
    /\ \A t \in Threads : pc[t] \in ThreadPCs
    /\ pc[Worker] \in WorkerPCs
    /\ cur \in [Actors -> Requests \cup {None}]
    /\ inSync \subseteq Threads

XrpTypes == DataTypes /\ ControlTypes

\* Owners of an event: only a live event has any.
EventsOwned ==
    \A r \in Requests :
        /\ phase[r] = "unused" => evLife[r] = "none" /\ r \notin usesGroup
        /\ evLife[r] /= "live" =>
              ~OwnsEvent(r) /\ \A t \in Threads : r \notin holdsE[t]

\* What an application thread that is inside a call owns.
ThreadsOwn ==
    \A t \in Threads :
        /\ pc[t] = "push" =>
              /\ cur[t] \in Requests /\ t \in holdsQ
              /\ phase[cur[t]] = "prepared"
              /\ t \in inSync => cur[t] \in holdsE[t]
              /\ \A u \in Threads \ {t} : pc[u] = "push" => cur[u] /= cur[t]
        /\ pc[t] \in {"wait", "blocked", "relEvent"} => cur[t] \in holdsE[t]
        /\ t \in inSync =>
              pc[t] \in {"push", "wait", "blocked", "relEvent", "relQueue"}

\* What the worker is busy with.
WorkerOwns ==
    /\ pc[Worker] \in {"run", "relGroup", "signal"} =>
          cur[Worker] \in Requests /\ phase[cur[Worker]] = "running"
    /\ pc[Worker] \in {"signal", "relEvent"} =>
          cur[Worker] \in Requests /\ HasEvent(cur[Worker])
    /\ pc[Worker] = "relEvent" => phase[cur[Worker]] = "signalled"

\* The request list.
ListSound ==
    /\ \A i \in 1 .. Len(fifo) : phase[fifo[i]] = "queued"
    /\ \A i, j \in 1 .. Len(fifo) : i /= j => fifo[i] /= fifo[j]

\* An event that is destroyed and not yet freed is in one actor's hands.
DestroyedOwned ==
    \A a \in Actors : pc[a] = "relQueue" =>
        /\ cur[a] \in Requests /\ evLife[cur[a]] = "destroyed"
        /\ \A b \in Actors \ {a} : pc[b] = "relQueue" => cur[b] /= cur[a]

Tearing(a) == pc[a] \in {"destroy", "join", "free"}

\* The tear-down: one actor at a time, after the last reference.
TearDown ==
    /\ \A a \in Actors : Tearing(a) =>
          /\ qLife = "live" /\ QueueRefs = {}
          /\ \A b \in Actors \ {a} : ~Tearing(b)
    /\ qLife /= "live" => QueueRefs = {}
    /\ qExit => QueueRefs = {}
    /\ qLife = "none" =>
          pc[Worker] = "none" /\ fifo = << >> /\ ~workerExit /\ ~qExit
    /\ qLife = "freed" =>
          /\ fifo = << >>
          /\ pc[Worker] \in {"next", "dead"}
          /\ pc[Worker] = "next" => workerExit
    /\ workerExit => pc[Worker] = "free" \/ qLife = "freed"
    /\ pc[Worker] = "free" => workerExit
    /\ pc[Worker] = "dead" => QueueRefs = {} /\ fifo = << >>
    /\ \A t \in Threads : pc[t] = "free" => pc[Worker] = "dead"

\* The four counters, one by one.
QueueCount == qRef = Cardinality(QueueRefs)
EventCounts == \A r \in Requests : evRef[r] = Cardinality(EventRefs(r))
GroupCount == grpRef = Cardinality(holdsG \cup usesGroup)
DeviceCount ==
    devRef = (IF holdsD THEN 1 ELSE 0) + (IF qLife = "live" THEN 1 ELSE 0)

\* The inductive invariant, to which the counters and the wakeups are added.
XrpInv ==
    /\ XrpTypes
    /\ EventsOwned
    /\ ThreadsOwn
    /\ WorkerOwns
    /\ ListSound
    /\ DestroyedOwned
    /\ TearDown

-----------------------------------------------------------------------------
\* A step of one actor that leaves it outside the release of a queue.
LEMMA DestroyedKept ==
    ASSUME DestroyedOwned, NEW x \in Actors, pc'[x] /= "relQueue",
           \A b \in Actors \ {x} : pc'[b] = pc[b] /\ cur'[b] = cur[b],
           UNCHANGED evLife
    PROVE  DestroyedOwned'
<1> SUFFICES ASSUME NEW a \in Actors, pc'[a] = "relQueue"
             PROVE  /\ cur'[a] \in Requests /\ evLife'[cur'[a]] = "destroyed"
                    /\ \A b \in Actors \ {a} :
                          pc'[b] = "relQueue" => cur'[b] /= cur'[a]
  BY DEF DestroyedOwned
<1>1. pc[a] = "relQueue" /\ cur'[a] = cur[a]
  OBVIOUS
<1> QED
  BY <1>1 DEF DestroyedOwned

\* The owners of an event are finitely many actors.
LEMMA EventRefsFinite ==
    ASSUME NEW r
    PROVE  IsFiniteSet(EventRefs(r)) /\ EventRefs(r) \subseteq Actors
<1>1. IsFiniteSet(Actors)
  BY XrpQueueAssumption, FS_AddElement DEF Actors
<1>2. EventRefs(r) \subseteq Actors
  BY DEF EventRefs, Actors
<1> QED
  BY <1>1, <1>2, FS_Subset

\* Nobody owns an event: neither a thread nor its request.
LEMMA NoEventRefs ==
    ASSUME NEW r
    PROVE  EventRefs(r) = {} <=>
               ~OwnsEvent(r) /\ \A t \in Threads : r \notin holdsE[t]
BY DEF EventRefs

\* xrp_release_event takes its caller, an owner, from the owners of the event.
LEMMA DropEventRefs ==
    ASSUME XrpTypes, EventsOwned, ThreadsOwn, WorkerOwns,
           NEW a \in Actors, DropEvent(a)
    PROVE  /\ cur[a] \in Requests /\ evLife[cur[a]] = "live"
           /\ a \in EventRefs(cur[a])
           /\ \A q \in Requests :
                 EventRefs(q)' = IF q = cur[a] THEN EventRefs(q) \ {a}
                                               ELSE EventRefs(q)
<1> DEFINE r == cur[a]
<1>0. /\ Worker \in Actors /\ Worker \notin Threads
      /\ \A t \in Threads : t \in Actors
  BY XrpQueueAssumption DEF Actors
<1>1. CASE a = Worker
  <2>1. r \in Requests /\ OwnsEvent(r) /\ evLife[r] = "live"
    BY <1>1 DEF DropEvent, WorkerOwns, EventsOwned, OwnsEvent
  <2>2. /\ holdsE' = holdsE /\ phase' = [phase EXCEPT ![r] = "done"]
        /\ evLife' = evLife \/ evLife' = [evLife EXCEPT ![r] = "destroyed"]
    BY <1>1 DEF DropEvent
  <2>3. \A q \in Requests : OwnsEvent(q)' = (OwnsEvent(q) /\ q /= r)
    BY <2>1, <2>2 DEF OwnsEvent, HasEvent, XrpTypes, DataTypes, ControlTypes
  <2> QED
    BY <1>0, <1>1, <2>1, <2>2, <2>3 DEF EventRefs
<1>2. CASE a \in Threads
  <2>1. r \in Requests /\ r \in holdsE[a] /\ evLife[r] = "live"
    BY <1>2
       DEF DropEvent, ThreadsOwn, EventsOwned, XrpTypes, DataTypes,
           ControlTypes
  <2>2. /\ holdsE' = [holdsE EXCEPT ![a] = @ \ {r}] /\ phase' = phase
        /\ evLife' = evLife \/ evLife' = [evLife EXCEPT ![r] = "destroyed"]
    BY <1>0, <1>2 DEF DropEvent
  <2>3. \A q \in Requests : OwnsEvent(q)' = OwnsEvent(q)
    BY <2>1, <2>2 DEF OwnsEvent, HasEvent, XrpTypes, DataTypes, ControlTypes
  <2> QED
    BY <1>0, <1>2, <2>1, <2>2, <2>3
       DEF EventRefs, XrpTypes, DataTypes, ControlTypes
<1> QED
  BY <1>1, <1>2 DEF Actors

\* The release that finds one reference left is made by the only owner.
LEMMA DropLastEvent ==
    ASSUME XrpTypes, EventsOwned, ThreadsOwn, WorkerOwns, RefCountsExact,
           NEW a \in Actors, DropEvent(a)
    PROVE  evRef[cur[a]] = 1 <=> EventRefs(cur[a]) = {a}
<1>1. /\ cur[a] \in Requests /\ a \in EventRefs(cur[a])
      /\ evRef[cur[a]] = Cardinality(EventRefs(cur[a]))
  BY DropEventRefs DEF RefCountsExact
<1>2. IsFiniteSet(EventRefs(cur[a]))
  BY EventRefsFinite
<1> QED
  BY <1>1, <1>2, FS_Singleton

\* A step of the worker that leaves the threads' requests to them: it may at
\* most wake them.
LEMMA ThreadsKept ==
    ASSUME ThreadsOwn,
           \A t \in Threads :
              /\ pc'[t] = pc[t] \/ (pc[t] = "blocked" /\ pc'[t] = "wait")
              /\ cur'[t] = cur[t],
           \A q \in Requests : phase[q] = "prepared" => phase'[q] = "prepared",
           UNCHANGED <<holdsQ, holdsE, inSync>>
    PROVE  ThreadsOwn'
BY DEF ThreadsOwn

\* The owners of the queue are finitely many.
LEMMA QueueRefsFinite ==
    ASSUME XrpTypes
    PROVE  IsFiniteSet(QueueRefs) /\ QueueRefs \subseteq Threads \cup Requests
<1>1. IsFiniteSet(Threads \cup Requests)
  BY XrpQueueAssumption, FS_Union
<1>2. QueueRefs \subseteq Threads \cup Requests
  BY DEF QueueRefs, XrpTypes, DataTypes, ControlTypes
<1> QED
  BY <1>1, <1>2, FS_Subset

\* The count that tells the last release of the queue is right.
LEMMA LastQueueRef ==
    ASSUME XrpTypes, RefCountsExact, NEW x \in QueueRefs
    PROVE  qRef = 1 <=> QueueRefs \ {x} = {}
<1>1. IsFiniteSet(QueueRefs) /\ qRef = Cardinality(QueueRefs)
  BY QueueRefsFinite DEF RefCountsExact
<1>2. Cardinality(QueueRefs \ {x}) = qRef - 1 /\ IsFiniteSet(QueueRefs \ {x})
  BY <1>1, FS_RemoveElement
<1>3. qRef \in Int
  BY DEF XrpTypes, DataTypes, ControlTypes
<1> QED
  BY <1>2, <1>3, FS_EmptySet

\* The owners of the queue after a release by its holder t.
LEMMA ReleaseQueueRefs ==
    ASSUME XrpTypes, NEW t \in Threads, ReleaseQueue(t)
    PROVE  t \in QueueRefs /\ QueueRefs' = QueueRefs \ {t}
BY XrpQueueAssumption
   DEF ReleaseQueue, QueueRefs, OwnsQueue, evVars, XrpTypes, DataTypes

\* And after the release made for the event of cur[a].
LEMMA DropQueueRefs ==
    ASSUME XrpTypes, DestroyedOwned, NEW a \in Actors, DropQueueOfEvent(a)
    PROVE  cur[a] \in QueueRefs /\ QueueRefs' = QueueRefs \ {cur[a]}
<1>1. /\ cur[a] \in Requests /\ evLife[cur[a]] = "destroyed"
      /\ evLife' = [evLife EXCEPT ![cur[a]] = "freed"] /\ holdsQ' = holdsQ
  BY DEF DropQueueOfEvent, DestroyedOwned
<1>2. \A r \in Requests : OwnsQueue(r)' = (OwnsQueue(r) /\ r /= cur[a])
  BY <1>1 DEF OwnsQueue, XrpTypes, DataTypes, ControlTypes
<1>3. cur[a] \notin holdsQ /\ OwnsQueue(cur[a])
  BY <1>1, XrpQueueAssumption DEF XrpTypes, DataTypes, ControlTypes, OwnsQueue
<1> QED
  BY <1>1, <1>2, <1>3 DEF QueueRefs

\* The owners of the group are finitely many.
LEMMA GroupRefsFinite ==
    ASSUME XrpTypes
    PROVE  IsFiniteSet(holdsG \cup usesGroup)
<1>1. IsFiniteSet(Threads \cup Requests)
  BY XrpQueueAssumption, FS_Union
<1>2. holdsG \cup usesGroup \subseteq Threads \cup Requests
  BY DEF XrpTypes, DataTypes
<1> QED
  BY <1>1, <1>2, FS_Subset

\* A step that leaves the owners of every event alone.
LEMMA EventCountsKept ==
    ASSUME RefCountsExact, UNCHANGED <<evRef, holdsE>>,
           \A r \in Requests : OwnsEvent(r)' = OwnsEvent(r)
    PROVE  EventCounts'
<1>1. \A r \in Requests : EventRefs(r)' = EventRefs(r)
  BY DEF EventRefs
<1> QED
  BY <1>1 DEF RefCountsExact, EventCounts

-----------------------------------------------------------------------------
(***************************************************************************)
(* Every action preserves each conjunct of the invariant.                  *)
(***************************************************************************)

\* The data keeps its types; that no counter goes below zero follows from
\* the counters being exact.
LEMMA DataTypesStep ==
    ASSUME XrpInv, RefCountsExact, [XrpNext]_vars
    PROVE  DataTypes'
<1>0. /\ Worker \in Actors /\ Worker \notin Threads
      /\ \A t \in Threads : t \in Actors
  BY XrpQueueAssumption DEF Actors
<1> USE <1>0 DEF XrpInv, XrpTypes, DataTypes, ControlTypes, queueVars,
          reqVars, evVars, grpVars, devVars, ctlVars, objVars
<1>1. ASSUME NEW t \in Threads, CreateQueue(t) PROVE DataTypes'
  BY <1>1 DEF CreateQueue
<1>2. ASSUME NEW t \in Threads, NEW u \in Threads, RetainQueue(t, u)
      PROVE  DataTypes'
  BY <1>2 DEF RetainQueue
<1>3. ASSUME NEW t \in Threads, NEW u \in Threads, NEW r \in Requests,
             RetainEvent(t, u, r)
      PROVE  DataTypes'
  BY <1>3 DEF RetainEvent
<1>4. ASSUME NEW t \in Threads, NEW r \in Requests, NEW event \in BOOLEAN,
             NEW sync \in BOOLEAN, NEW group \in GroupArgs,
             Enqueue(t, r, event, group, sync)
      PROVE  DataTypes'
  <2>1. /\ phase' \in [Requests -> Phases]
        /\ UNCHANGED <<qLife, qExit, fifo, workerExit, status, delivered,
                       evStatus, holdsG, devVars, holdsQ>>
    BY <1>4 DEF Enqueue, Phases
  <2>2. evLife' \in [Requests -> {"none", "live", "destroyed", "freed"}]
    BY <1>4 DEF Enqueue
  <2>3. holdsE' \in [Threads -> SUBSET Requests]
    BY <1>4 DEF Enqueue
  <2>4. evRef' \in [Requests -> Int] /\ qRef' \in Int
    BY <1>4 DEF Enqueue, EventRefsTaken, QueueRefsTaken
  <2>5. grpRef' \in Int /\ usesGroup' \subseteq Requests
    BY <1>4 DEF Enqueue
  <2> QED
    BY <2>1, <2>2, <2>4, <2>5, <2>3
<1>5. ASSUME NEW t \in Threads, NEW r \in Requests, Wait(t, r)
      PROVE  DataTypes'
  BY <1>5 DEF Wait
<1>6. ASSUME NEW t \in Threads, NEW r \in Requests, ReleaseEvent(t, r)
      PROVE  DataTypes'
  BY <1>6 DEF ReleaseEvent
<1>7. ASSUME NEW t \in Threads, ReleaseQueue(t) PROVE DataTypes'
  BY <1>7 DEF ReleaseQueue
<1>8. ASSUME NEW t \in Threads, ReleaseGroup(t) PROVE DataTypes'
  BY <1>8 DEF ReleaseGroup
<1>9. ASSUME NEW t \in Threads, ReleaseDevice(t) PROVE DataTypes'
  <2>1. holdsD' \in BOOLEAN
    BY <1>9 DEF ReleaseDevice
  <2>2. devRef' \in Int
    BY <1>9 DEF ReleaseDevice
  <2> QED
    BY <1>9, <2>1, <2>2 DEF ReleaseDevice
<1>10. ASSUME NEW t \in Threads, Push(t) PROVE DataTypes'
  BY <1>10 DEF Push, ThreadsOwn, Phases
<1>11. ASSUME NEW t \in Threads, WaitCheck(t) PROVE DataTypes'
  BY <1>11 DEF WaitCheck
<1>12. ASSUME NEW t \in Threads, JoinWorker(t) PROVE DataTypes'
  BY <1>12 DEF JoinWorker
<1>13. ASSUME NEW t \in Threads, JoinNothing(t) PROVE DataTypes'
  BY <1>13 DEF JoinNothing
<1>14. ASSUME NEW a \in Actors, DropEvent(a) PROVE DataTypes'
  <2>1. cur[a] \in Requests
    BY <1>14, DropEventRefs
  <2>2. evRef' \in [Requests -> Int]
    <3>1. evRef' = [evRef EXCEPT ![cur[a]] = evRef[cur[a]] - 1]
      BY <1>14 DEF DropEvent
    <3>2. evRef \in [Requests -> Int]
      OBVIOUS
    <3> QED
      BY ONLY <2>1, <3>1, <3>2
  <2>3. evLife' \in [Requests -> {"none", "live", "destroyed", "freed"}]
    BY <1>14 DEF DropEvent
  <2>4. /\ phase' \in [Requests -> Phases]
        /\ holdsE' \in [Threads -> SUBSET Requests]
    <3>1. CASE a = Worker
      BY <1>14, <3>1 DEF DropEvent, Phases
    <3>2. CASE a /= Worker
      <4>1. /\ phase' = phase
            /\ holdsE' = [holdsE EXCEPT ![a] = holdsE[a] \ {cur[a]}]
        BY <1>14, <3>2 DEF DropEvent
      <4>2. /\ phase \in [Requests -> Phases]
            /\ holdsE \in [Threads -> SUBSET Requests]
        OBVIOUS
      <4> QED
        BY ONLY <4>1, <4>2
    <3> QED
      BY <3>1, <3>2
  <2>5. UNCHANGED <<queueVars, status, delivered, evStatus, grpVars, devVars,
                    holdsQ>>
    BY <1>14 DEF DropEvent
  <2> QED
    BY <2>2, <2>4, <2>5, <2>3
<1>15. ASSUME NEW a \in Actors, DropQueueOfEvent(a) PROVE DataTypes'
  <2>1. qRef' \in Int
    BY <1>15 DEF DropQueueOfEvent
  <2>2. evLife' \in [Requests -> {"none", "live", "destroyed", "freed"}]
    BY <1>15 DEF DropQueueOfEvent
  <2>3. UNCHANGED <<qLife, qExit, fifo, workerExit, reqVars, evRef, evStatus,
                    grpVars, devVars, holdsQ, holdsE>>
    BY <1>15 DEF DropQueueOfEvent
  <2> QED
    BY <2>1, <2>3, <2>2
<1>16. ASSUME NEW a \in Actors, DestroySetExit(a) PROVE DataTypes'
  BY <1>16 DEF DestroySetExit
<1>17. ASSUME NEW a \in Actors, FreeQueue(a) PROVE DataTypes'
  BY <1>17 DEF FreeQueue, Phases
<1>18. CASE JoinSelf
  BY <1>18 DEF JoinSelf
<1>19. CASE WorkerEnter
  BY <1>19 DEF WorkerEnter
<1>20. CASE WorkerDequeue
  <2>1. /\ fifo' \in Seq(Requests)
        /\ phase' \in [Requests -> Phases]
    <3>1. CASE fifo = << >>
      BY <1>20, <3>1 DEF WorkerDequeue, RequestTaken
    <3>2. CASE fifo /= << >>
      <4>1. Head(fifo) \in Requests /\ Tail(fifo) \in Seq(Requests)
        BY <3>2
      <4>2. /\ fifo' = Tail(fifo)
            /\ phase' = [phase EXCEPT ![Head(fifo)] = "running"]
        BY <1>20, <3>2 DEF WorkerDequeue, RequestTaken, Unlinked
      <4> QED
        BY <4>1, <4>2 DEF Phases
    <3> QED
      BY <3>1, <3>2
  <2>2. UNCHANGED <<qLife, qRef, qExit, workerExit, status, delivered, evVars,
                    grpVars, devVars, holdsQ, holdsE>>
    BY <1>20 DEF WorkerDequeue
  <2> QED
    BY <2>1, <2>2
<1>21. CASE RunCommand
  BY <1>21 DEF RunCommand, StatusOf, WorkerOwns, Statuses
<1>22. CASE RequestReleaseGroup
  <2>1. grpRef' \in Int /\ usesGroup' \subseteq Requests
    BY <1>22 DEF RequestReleaseGroup
  <2>2. phase' \in [Requests -> Phases]
    BY <1>22 DEF RequestReleaseGroup, Phases
  <2>3. UNCHANGED <<queueVars, status, delivered, evVars, holdsG, devVars,
                    holdsQ, holdsE>>
    BY <1>22 DEF RequestReleaseGroup
  <2> QED
    BY <2>1, <2>2, <2>3
<1>23. CASE Signal
  BY <1>23 DEF Signal, Phases
<1>24. CASE WorkerNext
  BY <1>24 DEF WorkerNext, Statuses
<1>25. CASE SpuriousWakeup
  BY <1>25 DEF SpuriousWakeup
<1>26. CASE UNCHANGED vars
  BY <1>26 DEF vars
<1>27. [XrpNext]_vars
  OBVIOUS
<1> HIDE DEF DataTypes, queueVars, reqVars, evVars, grpVars, devVars, ctlVars,
          objVars
<1> QED
  BY ONLY <1>0, <1>1, <1>2, <1>3, <1>4, <1>5, <1>6, <1>7, <1>8, <1>9, <1>10,
          <1>11, <1>12, <1>13, <1>14, <1>15, <1>16, <1>17, <1>18, <1>19,
          <1>20, <1>21, <1>22, <1>23, <1>24, <1>25, <1>26, <1>27
      DEF XrpNext, Call, ThreadStep, WorkerStep, Release, Finished

\* Every thread stays inside the functions of its own kind.
LEMMA ControlTypesStep ==
    ASSUME XrpInv, RefCountsExact, [XrpNext]_vars
    PROVE  ControlTypes'
<1>0. /\ Worker \in Actors /\ Worker \notin Threads
      /\ \A t \in Threads : t \in Actors
  BY XrpQueueAssumption DEF Actors
<1> USE <1>0 DEF XrpInv, XrpTypes, DataTypes, ControlTypes, queueVars,
          reqVars, evVars, grpVars, devVars, ctlVars, objVars, Phases,
          Statuses, ThreadPCs, WorkerPCs
<1>1. ASSUME NEW t \in Threads, CreateQueue(t) PROVE ControlTypes'
  BY <1>1 DEF CreateQueue
<1>2. ASSUME NEW t \in Threads, NEW u \in Threads, RetainQueue(t, u)
      PROVE  ControlTypes'
  BY <1>2 DEF RetainQueue
<1>3. ASSUME NEW t \in Threads, NEW u \in Threads, NEW r \in Requests,
             RetainEvent(t, u, r)
      PROVE  ControlTypes'
  BY <1>3 DEF RetainEvent
<1>4. ASSUME NEW t \in Threads, NEW r \in Requests, NEW event \in BOOLEAN,
             NEW sync \in BOOLEAN, NEW group \in GroupArgs,
             Enqueue(t, r, event, group, sync)
      PROVE  ControlTypes'
  BY <1>4 DEF Enqueue
<1>5. ASSUME NEW t \in Threads, NEW r \in Requests, Wait(t, r)
      PROVE  ControlTypes'
  BY <1>5 DEF Wait
<1>6. ASSUME NEW t \in Threads, NEW r \in Requests, ReleaseEvent(t, r)
      PROVE  ControlTypes'
  BY <1>6 DEF ReleaseEvent
<1>7. ASSUME NEW t \in Threads, ReleaseQueue(t) PROVE ControlTypes'
  BY <1>7 DEF ReleaseQueue
<1>8. ASSUME NEW t \in Threads, ReleaseGroup(t) PROVE ControlTypes'
  BY <1>8 DEF ReleaseGroup
<1>9. ASSUME NEW t \in Threads, ReleaseDevice(t) PROVE ControlTypes'
  BY <1>9 DEF ReleaseDevice
<1>10. ASSUME NEW t \in Threads, Push(t) PROVE ControlTypes'
  <2>1. /\ \A b \in Threads : pc'[b] = pc[b] \/ pc'[b] \in {"wait", "idle"}
        /\ pc'[Worker] = pc[Worker] \/ pc'[Worker] = "deq"
        /\ pc' \in [Actors -> ThreadPCs \cup WorkerPCs]
    <3>1. CASE PushBroadcasts
      BY <1>10, <3>1 DEF Push, WakeWorker
    <3>2. CASE ~PushBroadcasts
      BY <1>10, <3>2 DEF Push
    <3> QED
      BY <3>1, <3>2
  <2>2. cur' = cur \/ cur' = [cur EXCEPT ![t] = None]
    BY <1>10 DEF Push
  <2>3. inSync' = inSync
    BY <1>10 DEF Push
  <2>4. cur' \in [Actors -> Requests \cup {None}]
    BY ONLY <1>0, <2>2, ControlTypes DEF ControlTypes
  <2>5. /\ \A b \in Threads : pc'[b] \in ThreadPCs
        /\ pc'[Worker] \in WorkerPCs
    BY ONLY <2>1, ControlTypes DEF ControlTypes, ThreadPCs, WorkerPCs
  <2> QED
    BY ONLY <2>1, <2>3, <2>4, <2>5, ControlTypes DEF ControlTypes
<1>11. ASSUME NEW t \in Threads, WaitCheck(t) PROVE ControlTypes'
  <2>1. \E p \in {"blocked", "relEvent", "idle"} : pc' = [pc EXCEPT ![t] = p]
    BY <1>11 DEF WaitCheck
  <2>2. cur' = cur \/ cur' = [cur EXCEPT ![t] = None]
    BY <1>11 DEF WaitCheck
  <2>3. inSync' = inSync
    BY <1>11 DEF WaitCheck
  <2> QED
    BY <2>1, <2>2, <2>3
<1>12. ASSUME NEW t \in Threads, JoinWorker(t) PROVE ControlTypes'
  BY <1>12 DEF JoinWorker
<1>13. ASSUME NEW t \in Threads, JoinNothing(t) PROVE ControlTypes'
  BY <1>13 DEF JoinNothing
<1>14. ASSUME NEW a \in Actors, DropEvent(a) PROVE ControlTypes'
  BY <1>14 DEF DropEvent, AfterRelease
<1>15. ASSUME NEW a \in Actors, DropQueueOfEvent(a) PROVE ControlTypes'
  BY <1>15 DEF DropQueueOfEvent, AfterRelease
<1>16. ASSUME NEW a \in Actors, DestroySetExit(a) PROVE ControlTypes'
  BY <1>16 DEF DestroySetExit, WakeWorker
<1>17. ASSUME NEW a \in Actors, FreeQueue(a) PROVE ControlTypes'
  BY <1>17 DEF FreeQueue, AfterRelease
<1>18. CASE JoinSelf
  BY <1>18 DEF JoinSelf
<1>19. CASE WorkerEnter
  BY <1>19 DEF WorkerEnter
<1>20. CASE WorkerDequeue
  <2>1. \E p \in {"run", "sleep", "dead"} : pc' = [pc EXCEPT ![Worker] = p]
    BY <1>20 DEF WorkerDequeue
  <2>2. cur' \in [Actors -> Requests \cup {None}]
    <3>1. CASE fifo = << >>
      BY <1>20, <3>1 DEF WorkerDequeue, RequestTaken
    <3>2. CASE fifo /= << >>
      <4>1. /\ Head(fifo) \in Requests
            /\ cur' = [cur EXCEPT ![Worker] = Head(fifo)]
        BY <1>20, <3>2 DEF WorkerDequeue, RequestTaken
      <4> QED
        BY <4>1
    <3> QED
      BY <3>1, <3>2
  <2>3. inSync' = inSync
    BY <1>20 DEF WorkerDequeue
  <2>4. Worker \in Actors /\ Worker \notin Threads /\ ControlTypes
    BY <1>0
  <2>5. /\ pc' \in [Actors -> ThreadPCs \cup WorkerPCs]
        /\ \A t \in Threads : pc'[t] \in ThreadPCs
        /\ pc'[Worker] \in WorkerPCs
    BY ONLY <1>0, <2>1, <2>4 DEF ControlTypes, ThreadPCs, WorkerPCs
  <2> QED
    BY ONLY <2>2, <2>3, <2>4, <2>5 DEF ControlTypes
<1>21. CASE RunCommand
  BY <1>21 DEF RunCommand
<1>22. CASE RequestReleaseGroup
  <2>1. \E p \in {"signal", "next"} : pc' = [pc EXCEPT ![Worker] = p]
    BY <1>22 DEF RequestReleaseGroup
  <2>2. cur' = cur \/ cur' = [cur EXCEPT ![Worker] = None]
    BY <1>22 DEF RequestReleaseGroup
  <2>3. inSync' = inSync
    BY <1>22 DEF RequestReleaseGroup
  <2>4. Worker \in Actors /\ Worker \notin Threads /\ ControlTypes
    BY <1>0
  <2>5. /\ pc' \in [Actors -> ThreadPCs \cup WorkerPCs]
        /\ \A t \in Threads : pc'[t] \in ThreadPCs
        /\ pc'[Worker] \in WorkerPCs
    BY ONLY <1>0, <2>1, <2>4 DEF ControlTypes, ThreadPCs, WorkerPCs
  <2> QED
    BY ONLY <2>2, <2>3, <2>4, <2>5 DEF ControlTypes
<1>23. CASE Signal
  BY <1>23 DEF Signal, WakeWaiters
<1>24. CASE WorkerNext
  BY <1>24 DEF WorkerNext
<1>25. CASE SpuriousWakeup
  <2>1. cur' = cur /\ inSync' = inSync
    BY <1>25 DEF SpuriousWakeup
  <2>2. CASE pc' = [pc EXCEPT ![Worker] = "deq"]
    BY <2>1, <2>2
  <2>3. ASSUME NEW t \in Threads, pc' = [pc EXCEPT ![t] = "wait"]
        PROVE  ControlTypes'
    BY <2>1, <2>3
  <2> QED
    BY <1>25, <2>2, <2>3 DEF SpuriousWakeup
<1>26. CASE UNCHANGED vars
  BY <1>26 DEF vars
<1>27. [XrpNext]_vars
  OBVIOUS
<1> HIDE DEF ControlTypes, queueVars, reqVars, evVars, grpVars, devVars,
          ctlVars, objVars, Phases, Statuses, ThreadPCs, WorkerPCs
<1> QED
  BY ONLY <1>0, <1>1, <1>2, <1>3, <1>4, <1>5, <1>6, <1>7, <1>8, <1>9, <1>10,
          <1>11, <1>12, <1>13, <1>14, <1>15, <1>16, <1>17, <1>18, <1>19,
          <1>20, <1>21, <1>22, <1>23, <1>24, <1>25, <1>26, <1>27
      DEF XrpNext, Call, ThreadStep, WorkerStep, Release, Finished

\* No thread and no request owns an event that is not live: the last release
\* is the only one that ends its life (xrp_release_event).
LEMMA EventsOwnedStep ==
    ASSUME XrpInv, RefCountsExact, [XrpNext]_vars
    PROVE  EventsOwned'
<1>0. /\ Worker \in Actors /\ Worker \notin Threads
      /\ \A t \in Threads : t \in Actors
  BY XrpQueueAssumption DEF Actors
<1> USE <1>0 DEF XrpInv, XrpTypes, DataTypes, ControlTypes, EventsOwned,
          queueVars, reqVars, evVars, grpVars, devVars, ctlVars, objVars,
          OwnsEvent, HasEvent
<1>1. ASSUME NEW t \in Threads, CreateQueue(t) PROVE EventsOwned'
  BY <1>1 DEF CreateQueue
<1>2. ASSUME NEW t \in Threads, NEW u \in Threads, RetainQueue(t, u)
      PROVE  EventsOwned'
  BY <1>2 DEF RetainQueue
<1>3. ASSUME NEW t \in Threads, NEW u \in Threads, NEW r \in Requests,
             RetainEvent(t, u, r)
      PROVE  EventsOwned'
  BY <1>3 DEF RetainEvent
<1>4. ASSUME NEW t \in Threads, NEW r \in Requests, NEW event \in BOOLEAN,
             NEW sync \in BOOLEAN, NEW group \in GroupArgs,
             Enqueue(t, r, event, group, sync)
      PROVE  EventsOwned'
  <2>1. /\ phase[r] = "unused" /\ evLife[r] = "none" /\ r \notin usesGroup
        /\ phase' = [phase EXCEPT ![r] = "prepared"]
    BY <1>4 DEF Enqueue
  <2>2. usesGroup' = usesGroup \/ usesGroup' = usesGroup \cup {r}
    BY <1>4 DEF Enqueue
  <2>3. CASE event
    <3>1. /\ evLife' = [evLife EXCEPT ![r] = "live"]
          /\ holdsE' = [holdsE EXCEPT ![t] = @ \cup {r}]
      BY <1>4, <2>3 DEF Enqueue
    <3> QED
      BY <2>1, <2>2, <3>1
  <2>4. CASE ~event
    <3>1. evLife' = evLife /\ holdsE' = holdsE
      BY <1>4, <2>4 DEF Enqueue
    <3> QED
      BY <2>1, <2>2, <3>1
  <2> QED
    BY <2>3, <2>4
<1>5. ASSUME NEW t \in Threads, NEW r \in Requests, Wait(t, r)
      PROVE  EventsOwned'
  BY <1>5 DEF Wait
<1>6. ASSUME NEW t \in Threads, NEW r \in Requests, ReleaseEvent(t, r)
      PROVE  EventsOwned'
  BY <1>6 DEF ReleaseEvent
<1>7. ASSUME NEW t \in Threads, ReleaseQueue(t) PROVE EventsOwned'
  BY <1>7 DEF ReleaseQueue
<1>8. ASSUME NEW t \in Threads, ReleaseGroup(t) PROVE EventsOwned'
  BY <1>8 DEF ReleaseGroup
<1>9. ASSUME NEW t \in Threads, ReleaseDevice(t) PROVE EventsOwned'
  BY <1>9 DEF ReleaseDevice
<1>10. ASSUME NEW t \in Threads, Push(t) PROVE EventsOwned'
  BY <1>10 DEF Push, ThreadsOwn
<1>11. ASSUME NEW t \in Threads, WaitCheck(t) PROVE EventsOwned'
  BY <1>11 DEF WaitCheck
<1>12. ASSUME NEW t \in Threads, JoinWorker(t) PROVE EventsOwned'
  BY <1>12 DEF JoinWorker
<1>13. ASSUME NEW t \in Threads, JoinNothing(t) PROVE EventsOwned'
  BY <1>13 DEF JoinNothing
<1>14. ASSUME NEW a \in Actors, DropEvent(a) PROVE EventsOwned'
  <2>1. /\ cur[a] \in Requests /\ evLife[cur[a]] = "live"
        /\ \A q \in Requests :
              EventRefs(q)' = IF q = cur[a] THEN EventRefs(q) \ {a}
                                            ELSE EventRefs(q)
    BY <1>14, DropEventRefs
  <2>2. evRef[cur[a]] = 1 => EventRefs(cur[a]) = {a}
    BY <1>14, DropLastEvent
  <2>3. /\ evLife' = IF evRef[cur[a]] = 1
                     THEN [evLife EXCEPT ![cur[a]] = "destroyed"] ELSE evLife
        /\ \A q \in Requests : q /= cur[a] => phase'[q] = phase[q]
        /\ usesGroup' = usesGroup
    BY <1>14 DEF DropEvent
  <2>4. phase'[cur[a]] /= "unused"
    BY <1>14, <2>1 DEF DropEvent
  <2>5. ASSUME NEW q \in Requests, evLife'[q] /= "live"
        PROVE  EventRefs(q)' = {}
    <3>1. CASE q = cur[a]
      BY <2>1, <2>2, <2>3, <2>5, <3>1
    <3>2. CASE q /= cur[a]
      BY <2>1, <2>3, <2>5, <3>2, NoEventRefs
    <3> QED
      BY <3>1, <3>2
  <2>6. ASSUME NEW q \in Requests, phase'[q] = "unused"
        PROVE  evLife'[q] = "none" /\ q \notin usesGroup'
    BY <2>1, <2>3, <2>4, <2>6
  <2>7. \A q \in Requests : EventRefs(q)' = {}
           => ~OwnsEvent(q)' /\ \A t \in Threads : q \notin holdsE'[t]
    BY DEF EventRefs
  <2> HIDE DEF OwnsEvent
  <2> QED
    BY <2>5, <2>6, <2>7
<1>15. ASSUME NEW a \in Actors, DropQueueOfEvent(a) PROVE EventsOwned'
  <2>1. /\ cur[a] \in Requests /\ evLife[cur[a]] = "destroyed"
        /\ evLife' = [evLife EXCEPT ![cur[a]] = "freed"]
        /\ UNCHANGED <<phase, usesGroup, holdsE>>
    BY <1>15 DEF DropQueueOfEvent, DestroyedOwned
  <2> QED
    BY <2>1
<1>16. ASSUME NEW a \in Actors, DestroySetExit(a) PROVE EventsOwned'
  BY <1>16 DEF DestroySetExit
<1>17. ASSUME NEW a \in Actors, FreeQueue(a) PROVE EventsOwned'
  BY <1>17 DEF FreeQueue
<1>18. CASE JoinSelf
  BY <1>18 DEF JoinSelf
<1>19. CASE WorkerEnter
  BY <1>19 DEF WorkerEnter
<1>20. CASE WorkerDequeue
  BY <1>20 DEF WorkerDequeue, RequestTaken, ListSound
<1>21. CASE RunCommand
  BY <1>21 DEF RunCommand
<1>22. CASE RequestReleaseGroup
  BY <1>22 DEF RequestReleaseGroup
<1>23. CASE Signal
  BY <1>23 DEF Signal, WorkerOwns
<1>24. CASE WorkerNext
  BY <1>24 DEF WorkerNext
<1>25. CASE SpuriousWakeup
  BY <1>25 DEF SpuriousWakeup
<1>26. CASE UNCHANGED vars
  BY <1>26 DEF vars
<1>27. [XrpNext]_vars
  OBVIOUS
<1> HIDE DEF EventsOwned, queueVars, reqVars, evVars, grpVars, devVars,
          ctlVars, objVars, OwnsEvent, HasEvent
<1> QED
  BY ONLY <1>0, <1>1, <1>2, <1>3, <1>4, <1>5, <1>6, <1>7, <1>8, <1>9, <1>10,
          <1>11, <1>12, <1>13, <1>14, <1>15, <1>16, <1>17, <1>18, <1>19,
          <1>20, <1>21, <1>22, <1>23, <1>24, <1>25, <1>26, <1>27
      DEF XrpNext, Call, ThreadStep, WorkerStep, Release, Finished

\* A thread inside a call goes on owning what the call works on, whatever the
\* other threads and the worker release meanwhile.
LEMMA ThreadsOwnStep ==
    ASSUME XrpInv, RefCountsExact, [XrpNext]_vars
    PROVE  ThreadsOwn'
<1>0. /\ Worker \in Actors /\ Worker \notin Threads
      /\ \A t \in Threads : t \in Actors
  BY XrpQueueAssumption DEF Actors
<1> USE <1>0 DEF XrpInv, XrpTypes, DataTypes, ControlTypes, ThreadsOwn,
          queueVars, reqVars, evVars, grpVars, devVars, ctlVars, objVars
<1>1. ASSUME NEW t \in Threads, CreateQueue(t) PROVE ThreadsOwn'
  BY <1>1 DEF CreateQueue
<1>2. ASSUME NEW t \in Threads, NEW u \in Threads, RetainQueue(t, u)
      PROVE  ThreadsOwn'
  BY <1>2 DEF RetainQueue
<1>3. ASSUME NEW t \in Threads, NEW u \in Threads, NEW r \in Requests,
             RetainEvent(t, u, r)
      PROVE  ThreadsOwn'
  BY <1>3 DEF RetainEvent
<1>4. ASSUME NEW t \in Threads, NEW r \in Requests, NEW event \in BOOLEAN,
             NEW sync \in BOOLEAN, NEW group \in GroupArgs,
             Enqueue(t, r, event, group, sync)
      PROVE  ThreadsOwn'
  BY <1>4 DEF Enqueue
<1>5. ASSUME NEW t \in Threads, NEW r \in Requests, Wait(t, r)
      PROVE  ThreadsOwn'
  BY <1>5 DEF Wait
<1>6. ASSUME NEW t \in Threads, NEW r \in Requests, ReleaseEvent(t, r)
      PROVE  ThreadsOwn'
  BY <1>6 DEF ReleaseEvent
<1>7. ASSUME NEW t \in Threads, ReleaseQueue(t) PROVE ThreadsOwn'
  BY <1>7 DEF ReleaseQueue
<1>8. ASSUME NEW t \in Threads, ReleaseGroup(t) PROVE ThreadsOwn'
  BY <1>8 DEF ReleaseGroup
<1>9. ASSUME NEW t \in Threads, ReleaseDevice(t) PROVE ThreadsOwn'
  BY <1>9 DEF ReleaseDevice
<1>10. ASSUME NEW t \in Threads, Push(t) PROVE ThreadsOwn'
  BY <1>10 DEF Push, WakeWorker
<1>11. ASSUME NEW t \in Threads, WaitCheck(t) PROVE ThreadsOwn'
  <2>1. /\ pc[t] = "wait" /\ pc'[t] \in {"blocked", "relEvent", "idle"}
        /\ pc'[t] \in {"blocked", "relEvent"} => cur'[t] = cur[t]
        /\ pc'[t] = "idle" => t \notin inSync
    BY <1>11 DEF WaitCheck
  <2>2. \A u \in Threads \ {t} : pc'[u] = pc[u] /\ cur'[u] = cur[u]
    BY <1>11 DEF WaitCheck
  <2>3. UNCHANGED <<phase, holdsQ, holdsE, inSync>>
    BY <1>11 DEF WaitCheck
  <2> QED
    BY ONLY ThreadsOwn, <2>1, <2>2, <2>3 DEF ThreadsOwn
<1>12. ASSUME NEW t \in Threads, JoinWorker(t) PROVE ThreadsOwn'
  BY <1>12 DEF JoinWorker
<1>13. ASSUME NEW t \in Threads, JoinNothing(t) PROVE ThreadsOwn'
  BY <1>13 DEF JoinNothing
<1>14. ASSUME NEW a \in Actors, DropEvent(a) PROVE ThreadsOwn'
  <2>1. CASE a = Worker
    <3>1. /\ phase' = [phase EXCEPT ![cur[Worker]] = "done"]
          /\ phase[cur[Worker]] = "signalled"
      BY <1>14, <2>1 DEF DropEvent, WorkerOwns
    <3>2. /\ \A t \in Threads : pc'[t] = pc[t] /\ cur'[t] = cur[t]
          /\ UNCHANGED <<holdsQ, holdsE>>
          /\ inSync' = inSync \/ inSync' = inSync \ {Worker}
      BY <1>14, <2>1 DEF DropEvent
    <3>3. inSync \subseteq Threads
      OBVIOUS
    <3>4. inSync' = inSync
      BY ONLY <1>0, <3>2, <3>3
    <3> QED
      BY <3>1, <3>2, <3>4, ThreadsKept
  <2>2. CASE a \in Threads
    <3>1. /\ pc'[a] \in {"relQueue", "idle"}
          /\ pc'[a] = "idle" => a \notin inSync'
          /\ inSync' \subseteq inSync
      BY <1>14, <2>2 DEF DropEvent, AfterRelease
    <3>2. \A t \in Threads \ {a} :
             pc'[t] = pc[t] /\ cur'[t] = cur[t] /\ holdsE'[t] = holdsE[t]
      BY <1>14, <2>2 DEF DropEvent
    <3>3. UNCHANGED <<phase, holdsQ>>
      BY <1>14, <2>2 DEF DropEvent
    <3> QED
      BY ONLY ThreadsOwn, <2>2, <3>1, <3>2, <3>3 DEF ThreadsOwn
  <2> QED
    BY <2>1, <2>2 DEF Actors
<1>15. ASSUME NEW a \in Actors, DropQueueOfEvent(a) PROVE ThreadsOwn'
  BY <1>15 DEF DropQueueOfEvent, AfterRelease
<1>16. ASSUME NEW a \in Actors, DestroySetExit(a) PROVE ThreadsOwn'
  BY <1>16 DEF DestroySetExit, WakeWorker
<1>17. ASSUME NEW a \in Actors, FreeQueue(a) PROVE ThreadsOwn'
  BY <1>17 DEF FreeQueue, AfterRelease
<1>18. CASE JoinSelf
  BY <1>18 DEF JoinSelf
<1>19. CASE WorkerEnter
  BY <1>19 DEF WorkerEnter
<1>20. CASE WorkerDequeue
  <2>1. \A q \in Requests : phase[q] = "prepared" => phase'[q] = "prepared"
    <3>1. CASE fifo = << >>
      BY <1>20, <3>1 DEF WorkerDequeue, RequestTaken
    <3>2. CASE fifo /= << >>
      <4>1. /\ phase' = [phase EXCEPT ![fifo[1]] = "running"]
            /\ 1 \in 1 .. Len(fifo)
        BY <1>20, <3>2 DEF WorkerDequeue, RequestTaken
      <4> QED
        BY <4>1 DEF ListSound
    <3> QED
      BY <3>1, <3>2
  <2>2. /\ \A t \in Threads : pc'[t] = pc[t] /\ cur'[t] = cur[t]
        /\ UNCHANGED <<holdsQ, holdsE, inSync>>
    BY <1>20 DEF WorkerDequeue
  <2> QED
    BY <2>1, <2>2, ThreadsKept
<1>21. CASE RunCommand
  BY <1>21 DEF RunCommand
<1>22. CASE RequestReleaseGroup
  <2>1. cur[Worker] \in Requests /\ phase[cur[Worker]] = "running"
    BY <1>22 DEF RequestReleaseGroup, WorkerOwns
  <2>2. \A q \in Requests : q /= cur[Worker] => phase'[q] = phase[q]
    BY <1>22 DEF RequestReleaseGroup
  <2>3. /\ \A t \in Threads : pc'[t] = pc[t] /\ cur'[t] = cur[t]
        /\ UNCHANGED <<holdsQ, holdsE, inSync>>
    BY <1>22 DEF RequestReleaseGroup
  <2> QED
    BY <2>1, <2>2, <2>3, ThreadsKept
<1>23. CASE Signal
  <2>1. /\ cur[Worker] \in Requests /\ phase[cur[Worker]] = "running"
        /\ phase' = [phase EXCEPT ![cur[Worker]] = "signalled"]
    BY <1>23 DEF Signal, WorkerOwns
  <2>2. ASSUME NEW t \in Threads
        PROVE  pc'[t] = pc[t] \/ (pc[t] = "blocked" /\ pc'[t] = "wait")
    <3> DEFINE p == [pc EXCEPT ![Worker] = "relEvent"]
    <3>1. pc' = WakeWaiters(p, cur[Worker])
      BY <1>23 DEF Signal
    <3>2. t \in Actors /\ p[t] = pc[t]
      BY <1>0
    <3> HIDE DEF p
    <3> QED
      BY ONLY <3>1, <3>2 DEF WakeWaiters
  <2>3. UNCHANGED <<cur, holdsQ, holdsE, inSync>>
    BY <1>23 DEF Signal
  <2> QED
    BY <2>1, <2>2, <2>3, ThreadsKept
<1>24. CASE WorkerNext
  BY <1>24 DEF WorkerNext
<1>25. CASE SpuriousWakeup
  BY <1>25 DEF SpuriousWakeup
<1>26. CASE UNCHANGED vars
  BY <1>26 DEF vars
<1>27. [XrpNext]_vars
  OBVIOUS
<1> HIDE DEF ThreadsOwn, queueVars, reqVars, evVars, grpVars, devVars,
          ctlVars, objVars
<1> QED
  BY ONLY <1>0, <1>1, <1>2, <1>3, <1>4, <1>5, <1>6, <1>7, <1>8, <1>9, <1>10,
          <1>11, <1>12, <1>13, <1>14, <1>15, <1>16, <1>17, <1>18, <1>19,
          <1>20, <1>21, <1>22, <1>23, <1>24, <1>25, <1>26, <1>27
      DEF XrpNext, Call, ThreadStep, WorkerStep, Release, Finished

\* The request the worker is busy with is in its hands alone.
LEMMA WorkerOwnsStep ==
    ASSUME XrpInv, RefCountsExact, [XrpNext]_vars
    PROVE  WorkerOwns'
<1>0. /\ Worker \in Actors /\ Worker \notin Threads
      /\ \A t \in Threads : t \in Actors
  BY XrpQueueAssumption DEF Actors
<1> USE <1>0 DEF XrpInv, XrpTypes, DataTypes, ControlTypes, WorkerOwns,
          queueVars, reqVars, evVars, grpVars, devVars, ctlVars, objVars,
          HasEvent
<1>1. ASSUME NEW t \in Threads, CreateQueue(t) PROVE WorkerOwns'
  BY <1>1 DEF CreateQueue
<1>2. ASSUME NEW t \in Threads, NEW u \in Threads, RetainQueue(t, u)
      PROVE  WorkerOwns'
  BY <1>2 DEF RetainQueue
<1>3. ASSUME NEW t \in Threads, NEW u \in Threads, NEW r \in Requests,
             RetainEvent(t, u, r)
      PROVE  WorkerOwns'
  BY <1>3 DEF RetainEvent
<1>4. ASSUME NEW t \in Threads, NEW r \in Requests, NEW event \in BOOLEAN,
             NEW sync \in BOOLEAN, NEW group \in GroupArgs,
             Enqueue(t, r, event, group, sync)
      PROVE  WorkerOwns'
  BY <1>4 DEF Enqueue
<1>5. ASSUME NEW t \in Threads, NEW r \in Requests, Wait(t, r)
      PROVE  WorkerOwns'
  BY <1>5 DEF Wait
<1>6. ASSUME NEW t \in Threads, NEW r \in Requests, ReleaseEvent(t, r)
      PROVE  WorkerOwns'
  BY <1>6 DEF ReleaseEvent
<1>7. ASSUME NEW t \in Threads, ReleaseQueue(t) PROVE WorkerOwns'
  BY <1>7 DEF ReleaseQueue
<1>8. ASSUME NEW t \in Threads, ReleaseGroup(t) PROVE WorkerOwns'
  BY <1>8 DEF ReleaseGroup
<1>9. ASSUME NEW t \in Threads, ReleaseDevice(t) PROVE WorkerOwns'
  BY <1>9 DEF ReleaseDevice
<1>10. ASSUME NEW t \in Threads, Push(t) PROVE WorkerOwns'
  <2>1. pc'[Worker] = pc[Worker] \/ pc'[Worker] = "deq"
    <3>1. CASE PushBroadcasts
      BY <1>10, <3>1 DEF Push, WakeWorker
    <3>2. CASE ~PushBroadcasts
      BY <1>10, <3>2 DEF Push
    <3> QED
      BY <3>1, <3>2
  <2>2. cur'[Worker] = cur[Worker] /\ evLife' = evLife
    BY <1>10 DEF Push
  <2>3. /\ phase' = [phase EXCEPT ![cur[t]] = "queued"]
        /\ phase[cur[t]] = "prepared"
    BY <1>10 DEF Push, ThreadsOwn
  <2> QED
    BY <2>1, <2>2, <2>3
<1>11. ASSUME NEW t \in Threads, WaitCheck(t) PROVE WorkerOwns'
  BY <1>11 DEF WaitCheck
<1>12. ASSUME NEW t \in Threads, JoinWorker(t) PROVE WorkerOwns'
  BY <1>12 DEF JoinWorker
<1>13. ASSUME NEW t \in Threads, JoinNothing(t) PROVE WorkerOwns'
  BY <1>13 DEF JoinNothing
<1>14. ASSUME NEW a \in Actors, DropEvent(a) PROVE WorkerOwns'
  BY <1>14 DEF DropEvent, AfterRelease
<1>15. ASSUME NEW a \in Actors, DropQueueOfEvent(a) PROVE WorkerOwns'
  BY <1>15 DEF DropQueueOfEvent, AfterRelease
<1>16. ASSUME NEW a \in Actors, DestroySetExit(a) PROVE WorkerOwns'
  BY <1>16 DEF DestroySetExit, WakeWorker
<1>17. ASSUME NEW a \in Actors, FreeQueue(a) PROVE WorkerOwns'
  BY <1>17 DEF FreeQueue, AfterRelease
<1>18. CASE JoinSelf
  BY <1>18 DEF JoinSelf
<1>19. CASE WorkerEnter
  BY <1>19 DEF WorkerEnter
<1>20. CASE WorkerDequeue
  BY <1>20 DEF WorkerDequeue, RequestTaken
<1>21. CASE RunCommand
  BY <1>21 DEF RunCommand
<1>22. CASE RequestReleaseGroup
  BY <1>22 DEF RequestReleaseGroup
<1>23. CASE Signal
  BY <1>23 DEF Signal, WakeWaiters
<1>24. CASE WorkerNext
  BY <1>24 DEF WorkerNext
<1>25. CASE SpuriousWakeup
  BY <1>25 DEF SpuriousWakeup
<1>26. CASE UNCHANGED vars
  BY <1>26 DEF vars
<1>27. [XrpNext]_vars
  OBVIOUS
<1> HIDE DEF WorkerOwns, queueVars, reqVars, evVars, grpVars, devVars,
          ctlVars, objVars, HasEvent
<1> QED
  BY ONLY <1>0, <1>1, <1>2, <1>3, <1>4, <1>5, <1>6, <1>7, <1>8, <1>9, <1>10,
          <1>11, <1>12, <1>13, <1>14, <1>15, <1>16, <1>17, <1>18, <1>19,
          <1>20, <1>21, <1>22, <1>23, <1>24, <1>25, <1>26, <1>27
      DEF XrpNext, Call, ThreadStep, WorkerStep, Release, Finished

\* The list holds queued requests only, each of them once.
LEMMA ListSoundStep ==
    ASSUME XrpInv, RefCountsExact, [XrpNext]_vars
    PROVE  ListSound'
<1>0. /\ Worker \in Actors /\ Worker \notin Threads
      /\ \A t \in Threads : t \in Actors
  BY XrpQueueAssumption DEF Actors
<1> USE <1>0 DEF XrpInv, XrpTypes, DataTypes, ControlTypes, ListSound,
          queueVars, reqVars, evVars, grpVars, devVars, ctlVars, objVars
<1>1. ASSUME NEW t \in Threads, CreateQueue(t) PROVE ListSound'
  BY <1>1 DEF CreateQueue
<1>2. ASSUME NEW t \in Threads, NEW u \in Threads, RetainQueue(t, u)
      PROVE  ListSound'
  BY <1>2 DEF RetainQueue
<1>3. ASSUME NEW t \in Threads, NEW u \in Threads, NEW r \in Requests,
             RetainEvent(t, u, r)
      PROVE  ListSound'
  BY <1>3 DEF RetainEvent
<1>4. ASSUME NEW t \in Threads, NEW r \in Requests, NEW event \in BOOLEAN,
             NEW sync \in BOOLEAN, NEW group \in GroupArgs,
             Enqueue(t, r, event, group, sync)
      PROVE  ListSound'
  BY <1>4 DEF Enqueue
<1>5. ASSUME NEW t \in Threads, NEW r \in Requests, Wait(t, r)
      PROVE  ListSound'
  BY <1>5 DEF Wait
<1>6. ASSUME NEW t \in Threads, NEW r \in Requests, ReleaseEvent(t, r)
      PROVE  ListSound'
  BY <1>6 DEF ReleaseEvent
<1>7. ASSUME NEW t \in Threads, ReleaseQueue(t) PROVE ListSound'
  BY <1>7 DEF ReleaseQueue
<1>8. ASSUME NEW t \in Threads, ReleaseGroup(t) PROVE ListSound'
  BY <1>8 DEF ReleaseGroup
<1>9. ASSUME NEW t \in Threads, ReleaseDevice(t) PROVE ListSound'
  BY <1>9 DEF ReleaseDevice
<1>10. ASSUME NEW t \in Threads, Push(t) PROVE ListSound'
  BY <1>10 DEF Push, ThreadsOwn
<1>11. ASSUME NEW t \in Threads, WaitCheck(t) PROVE ListSound'
  BY <1>11 DEF WaitCheck
<1>12. ASSUME NEW t \in Threads, JoinWorker(t) PROVE ListSound'
  BY <1>12 DEF JoinWorker
<1>13. ASSUME NEW t \in Threads, JoinNothing(t) PROVE ListSound'
  BY <1>13 DEF JoinNothing
<1>14. ASSUME NEW a \in Actors, DropEvent(a) PROVE ListSound'
  BY <1>14 DEF DropEvent, WorkerOwns
<1>15. ASSUME NEW a \in Actors, DropQueueOfEvent(a) PROVE ListSound'
  BY <1>15 DEF DropQueueOfEvent
<1>16. ASSUME NEW a \in Actors, DestroySetExit(a) PROVE ListSound'
  BY <1>16 DEF DestroySetExit
<1>17. ASSUME NEW a \in Actors, FreeQueue(a) PROVE ListSound'
  BY <1>17 DEF FreeQueue
<1>18. CASE JoinSelf
  BY <1>18 DEF JoinSelf
<1>19. CASE WorkerEnter
  BY <1>19 DEF WorkerEnter
<1>20. CASE WorkerDequeue
  <2>1. CASE fifo = << >>
    BY <1>20, <2>1 DEF WorkerDequeue, RequestTaken
  <2>2. CASE fifo /= << >>
    <3>1. /\ fifo' = Tail(fifo) /\ Len(fifo) >= 1
          /\ phase' = [phase EXCEPT ![fifo[1]] = "running"]
      BY <1>20, <2>2 DEF WorkerDequeue, RequestTaken, Unlinked
    <3>2. /\ Len(fifo') = Len(fifo) - 1
          /\ \A i \in 1 .. Len(fifo') :
                fifo'[i] = fifo[i + 1] /\ i + 1 \in 1 .. Len(fifo)
      BY <2>2, <3>1
    <3>3. \A i \in 2 .. Len(fifo) : fifo[i] /= fifo[1] /\ fifo[i] \in Requests
      BY <3>1
    <3> QED
      BY <3>1, <3>2, <3>3
  <2> QED
    BY <2>1, <2>2
<1>21. CASE RunCommand
  BY <1>21 DEF RunCommand
<1>22. CASE RequestReleaseGroup
  BY <1>22 DEF RequestReleaseGroup, WorkerOwns
<1>23. CASE Signal
  BY <1>23 DEF Signal, WorkerOwns
<1>24. CASE WorkerNext
  BY <1>24 DEF WorkerNext
<1>25. CASE SpuriousWakeup
  BY <1>25 DEF SpuriousWakeup
<1>26. CASE UNCHANGED vars
  BY <1>26 DEF vars
<1>27. [XrpNext]_vars
  OBVIOUS
<1> HIDE DEF ListSound, queueVars, reqVars, evVars, grpVars, devVars, ctlVars,
          objVars
<1> QED
  BY ONLY <1>0, <1>1, <1>2, <1>3, <1>4, <1>5, <1>6, <1>7, <1>8, <1>9, <1>10,
          <1>11, <1>12, <1>13, <1>14, <1>15, <1>16, <1>17, <1>18, <1>19,
          <1>20, <1>21, <1>22, <1>23, <1>24, <1>25, <1>26, <1>27
      DEF XrpNext, Call, ThreadStep, WorkerStep, Release, Finished

\* An event is destroyed by one actor, which is the one to free it.
LEMMA DestroyedOwnedStep ==
    ASSUME XrpInv, RefCountsExact, [XrpNext]_vars
    PROVE  DestroyedOwned'
<1>0. /\ Worker \in Actors /\ Worker \notin Threads
      /\ \A t \in Threads : t \in Actors
  BY XrpQueueAssumption DEF Actors
<1> USE <1>0 DEF XrpInv, XrpTypes, DataTypes, ControlTypes, DestroyedOwned,
          queueVars, reqVars, evVars, grpVars, devVars, ctlVars, objVars
<1>1. ASSUME NEW t \in Threads, CreateQueue(t) PROVE DestroyedOwned'
  BY <1>1 DEF CreateQueue
<1>2. ASSUME NEW t \in Threads, NEW u \in Threads, RetainQueue(t, u)
      PROVE  DestroyedOwned'
  BY <1>2 DEF RetainQueue
<1>3. ASSUME NEW t \in Threads, NEW u \in Threads, NEW r \in Requests,
             RetainEvent(t, u, r)
      PROVE  DestroyedOwned'
  BY <1>3 DEF RetainEvent
<1>4. ASSUME NEW t \in Threads, NEW r \in Requests, NEW event \in BOOLEAN,
             NEW sync \in BOOLEAN, NEW group \in GroupArgs,
             Enqueue(t, r, event, group, sync)
      PROVE  DestroyedOwned'
  BY <1>4 DEF Enqueue, EventsOwned
<1>5. ASSUME NEW t \in Threads, NEW r \in Requests, Wait(t, r)
      PROVE  DestroyedOwned'
  BY <1>5 DEF Wait
<1>6. ASSUME NEW t \in Threads, NEW r \in Requests, ReleaseEvent(t, r)
      PROVE  DestroyedOwned'
  BY <1>6 DEF ReleaseEvent
<1>7. ASSUME NEW t \in Threads, ReleaseQueue(t) PROVE DestroyedOwned'
  BY <1>7 DEF ReleaseQueue
<1>8. ASSUME NEW t \in Threads, ReleaseGroup(t) PROVE DestroyedOwned'
  BY <1>8 DEF ReleaseGroup
<1>9. ASSUME NEW t \in Threads, ReleaseDevice(t) PROVE DestroyedOwned'
  BY <1>9 DEF ReleaseDevice
<1>10. ASSUME NEW t \in Threads, Push(t) PROVE DestroyedOwned'
  BY <1>10 DEF Push, WakeWorker
<1>11. ASSUME NEW t \in Threads, WaitCheck(t) PROVE DestroyedOwned'
  <2>1. /\ pc'[t] /= "relQueue" /\ evLife' = evLife
        /\ \A a \in Actors \ {t} : pc'[a] = pc[a] /\ cur'[a] = cur[a]
    BY <1>11 DEF WaitCheck
  <2> QED
    BY <2>1, DestroyedKept
<1>12. ASSUME NEW t \in Threads, JoinWorker(t) PROVE DestroyedOwned'
  BY <1>12 DEF JoinWorker
<1>13. ASSUME NEW t \in Threads, JoinNothing(t) PROVE DestroyedOwned'
  BY <1>13 DEF JoinNothing
<1>14. ASSUME NEW a \in Actors, DropEvent(a) PROVE DestroyedOwned'
  <2> DEFINE r == cur[a]
  <2>1. r \in Requests /\ evLife[r] = "live"
    <3>1. CASE a = Worker
      BY <1>14, <3>1 DEF DropEvent, EventsOwned, WorkerOwns, OwnsEvent
    <3>2. CASE a \in Threads
      BY <1>14, <3>2 DEF DropEvent, EventsOwned, ThreadsOwn
    <3> QED
      BY <3>1, <3>2 DEF Actors
  <2>2. \A b \in Actors \ {a} : pc'[b] = pc[b] /\ cur'[b] = cur[b]
    BY <1>14 DEF DropEvent
  <2>3. CASE evRef[r] = 1
    <3>1. /\ cur' = cur
          /\ evLife' = [evLife EXCEPT ![r] = "destroyed"]
      BY <1>14, <2>3 DEF DropEvent
    <3> QED
      BY <2>1, <2>2, <3>1
  <2>4. CASE evRef[r] /= 1
    <3>1. pc'[a] /= "relQueue" /\ evLife' = evLife
      BY <1>14, <2>4 DEF DropEvent, AfterRelease
    <3> QED
      BY <2>2, <3>1, DestroyedKept
  <2> QED
    BY <2>3, <2>4
<1>15. ASSUME NEW a \in Actors, DropQueueOfEvent(a) PROVE DestroyedOwned'
  BY <1>15 DEF DropQueueOfEvent, AfterRelease
<1>16. ASSUME NEW a \in Actors, DestroySetExit(a) PROVE DestroyedOwned'
  BY <1>16 DEF DestroySetExit, WakeWorker
<1>17. ASSUME NEW a \in Actors, FreeQueue(a) PROVE DestroyedOwned'
  BY <1>17 DEF FreeQueue, AfterRelease
<1>18. CASE JoinSelf
  BY <1>18 DEF JoinSelf
<1>19. CASE WorkerEnter
  BY <1>19 DEF WorkerEnter
<1>20. CASE WorkerDequeue
  <2>1. /\ pc'[Worker] /= "relQueue" /\ evLife' = evLife
        /\ \A a \in Actors \ {Worker} : pc'[a] = pc[a] /\ cur'[a] = cur[a]
    BY <1>20 DEF WorkerDequeue
  <2> QED
    BY <2>1, DestroyedKept
<1>21. CASE RunCommand
  BY <1>21 DEF RunCommand
<1>22. CASE RequestReleaseGroup
  BY <1>22 DEF RequestReleaseGroup
<1>23. CASE Signal
  BY <1>23 DEF Signal, WakeWaiters
<1>24. CASE WorkerNext
  BY <1>24 DEF WorkerNext
<1>25. CASE SpuriousWakeup
  BY <1>25 DEF SpuriousWakeup
<1>26. CASE UNCHANGED vars
  BY <1>26 DEF vars
<1>27. [XrpNext]_vars
  OBVIOUS
<1> HIDE DEF DestroyedOwned, queueVars, reqVars, evVars, grpVars, devVars,
          ctlVars, objVars
<1> QED
  BY ONLY <1>0, <1>1, <1>2, <1>3, <1>4, <1>5, <1>6, <1>7, <1>8, <1>9, <1>10,
          <1>11, <1>12, <1>13, <1>14, <1>15, <1>16, <1>17, <1>18, <1>19,
          <1>20, <1>21, <1>22, <1>23, <1>24, <1>25, <1>26, <1>27
      DEF XrpNext, Call, ThreadStep, WorkerStep, Release, Finished

\* A queue is torn down once, without owners, and its worker leaves.
LEMMA TearDownStep ==
    ASSUME XrpInv, RefCountsExact, [XrpNext]_vars
    PROVE  TearDown'
<1>0. /\ Worker \in Actors /\ Worker \notin Threads
      /\ \A t \in Threads : t \in Actors
  BY XrpQueueAssumption DEF Actors
<1> USE <1>0 DEF XrpInv, XrpTypes, DataTypes, ControlTypes, TearDown,
          queueVars, reqVars, evVars, grpVars, devVars, ctlVars, objVars,
          Tearing, QueueRefs, OwnsQueue
<1>1. ASSUME NEW t \in Threads, CreateQueue(t) PROVE TearDown'
  <2>1. /\ qLife = "none" /\ qLife' = "live" /\ pc[t] = "idle"
        /\ UNCHANGED <<qExit, fifo, workerExit>>
        /\ \A u \in Threads : pc'[u] = pc[u]
        /\ pc'[Worker] \in {pc[Worker], "enter"}
    BY <1>1 DEF CreateQueue
  <2>2. /\ ~qExit /\ ~workerExit /\ fifo = << >> /\ pc[Worker] = "none"
        /\ \A b \in Actors : ~Tearing(b)
    BY <2>1
  <2> QED
    BY ONLY <1>0, <2>1, <2>2 DEF TearDown, Tearing, Actors
<1>2. ASSUME NEW t \in Threads, NEW u \in Threads, RetainQueue(t, u)
      PROVE  TearDown'
  BY <1>2 DEF RetainQueue
<1>3. ASSUME NEW t \in Threads, NEW u \in Threads, NEW r \in Requests,
             RetainEvent(t, u, r)
      PROVE  TearDown'
  BY <1>3 DEF RetainEvent
<1>4. ASSUME NEW t \in Threads, NEW r \in Requests, NEW event \in BOOLEAN,
             NEW sync \in BOOLEAN, NEW group \in GroupArgs,
             Enqueue(t, r, event, group, sync)
      PROVE  TearDown'
  BY <1>4 DEF Enqueue
<1>5. ASSUME NEW t \in Threads, NEW r \in Requests, Wait(t, r) PROVE TearDown'
  BY <1>5 DEF Wait
<1>6. ASSUME NEW t \in Threads, NEW r \in Requests, ReleaseEvent(t, r)
      PROVE  TearDown'
  BY <1>6 DEF ReleaseEvent
<1>7. ASSUME NEW t \in Threads, ReleaseQueue(t) PROVE TearDown'
  <2>1. t \in QueueRefs /\ QueueRefs' = QueueRefs \ {t}
    BY <1>7, ReleaseQueueRefs
  <2>2. qLife = "live" /\ ~qExit /\ \A b \in Actors : ~Tearing(b)
    BY <2>1
  <2>3. pc[Worker] \notin {"free", "dead"} /\ ~workerExit
    BY <1>0, <2>1, <2>2 DEF Tearing
  <2>4. UNCHANGED <<qLife, qExit, fifo, workerExit>>
    BY <1>7 DEF ReleaseQueue
  <2>5. \A b \in Actors \ {t} : pc'[b] = pc[b]
    BY <1>7 DEF ReleaseQueue
  <2>6. CASE qRef = 1
    <3>1. QueueRefs' = {}
      BY <2>1, <2>6, LastQueueRef
    <3>2. pc'[t] = "destroy"
      BY <1>7, <2>6 DEF ReleaseQueue
    <3> QED
      BY ONLY <1>0, <2>2, <2>3, <2>4, <2>5, <3>1, <3>2, t \in Threads
         DEF TearDown, Tearing
  <2>7. CASE qRef /= 1
    <3>1. pc'[t] = "idle"
      BY <1>7, <2>7 DEF ReleaseQueue
    <3> QED
      BY ONLY <1>0, <2>2, <2>3, <2>4, <2>5, <3>1, t \in Threads
         DEF TearDown, Tearing
  <2> QED
    BY <2>6, <2>7
<1>8. ASSUME NEW t \in Threads, ReleaseGroup(t) PROVE TearDown'
  BY <1>8 DEF ReleaseGroup
<1>9. ASSUME NEW t \in Threads, ReleaseDevice(t) PROVE TearDown'
  BY <1>9 DEF ReleaseDevice
<1>10. ASSUME NEW t \in Threads, Push(t) PROVE TearDown'
  BY <1>10 DEF Push, WakeWorker, ThreadsOwn
<1>11. ASSUME NEW t \in Threads, WaitCheck(t) PROVE TearDown'
  <2>1. /\ pc[t] = "wait" /\ pc'[t] \in {"blocked", "relEvent", "idle"}
        /\ \A b \in Actors \ {t} : pc'[b] = pc[b]
    BY <1>11 DEF WaitCheck
  <2>2. UNCHANGED <<qLife, qExit, fifo, workerExit>> /\ QueueRefs' = QueueRefs
    BY <1>11 DEF WaitCheck
  <2>3. TearDown
    OBVIOUS
  <2> QED
    BY ONLY <1>0, <2>1, <2>2, <2>3, t \in Threads DEF TearDown, Tearing
<1>12. ASSUME NEW t \in Threads, JoinWorker(t) PROVE TearDown'
  BY <1>12 DEF JoinWorker
<1>13. ASSUME NEW t \in Threads, JoinNothing(t) PROVE TearDown'
  BY <1>13 DEF JoinNothing
<1>14. ASSUME NEW a \in Actors, DropEvent(a) PROVE TearDown'
  <2>1. QueueRefs' = QueueRefs
    <3>1. cur[a] \in Requests /\ evLife[cur[a]] = "live"
      BY <1>14, DropEventRefs
    <3>2. /\ holdsQ' = holdsQ
          /\ \/ evLife' = evLife
             \/ evLife' = [evLife EXCEPT ![cur[a]] = "destroyed"]
      BY <1>14 DEF DropEvent
    <3> QED
      BY <3>1, <3>2
  <2>2. /\ UNCHANGED <<qLife, qExit, fifo, workerExit>>
        /\ \A b \in Actors \ {a} : pc'[b] = pc[b]
    BY <1>14 DEF DropEvent
  <2>3. pc'[a] \in {"relQueue", "idle", "next"} /\ pc[a] = "relEvent"
    BY <1>14 DEF DropEvent, AfterRelease
  <2>4. TearDown
    OBVIOUS
  <2>5. a = Worker => ~workerExit /\ qLife = "live"
    BY <2>3
  <2> QED
    BY ONLY <1>0, <2>1, <2>2, <2>3, <2>4, <2>5, a \in Actors
       DEF TearDown, Tearing
<1>15. ASSUME NEW a \in Actors, DropQueueOfEvent(a) PROVE TearDown'
  <2>1. cur[a] \in QueueRefs /\ QueueRefs' = QueueRefs \ {cur[a]}
    BY <1>15, DropQueueRefs
  <2>2. qLife = "live" /\ ~qExit /\ \A b \in Actors : ~Tearing(b)
    BY <2>1
  <2>3. pc[Worker] \notin {"free", "dead"} /\ ~workerExit
    BY <1>0, <2>1, <2>2 DEF Tearing
  <2>4. UNCHANGED <<qLife, qExit, fifo, workerExit>>
    BY <1>15 DEF DropQueueOfEvent
  <2>5. \A b \in Actors \ {a} : pc'[b] = pc[b]
    BY <1>15 DEF DropQueueOfEvent
  <2>6. CASE qRef = 1
    <3>1. QueueRefs' = {}
      BY <2>1, <2>6, LastQueueRef
    <3>2. pc'[a] = "destroy"
      BY <1>15, <2>6 DEF DropQueueOfEvent
    <3> QED
      BY ONLY <1>0, <2>2, <2>3, <2>4, <2>5, <3>1, <3>2 DEF TearDown, Tearing
  <2>7. CASE qRef /= 1
    <3>1. pc'[a] \in {"idle", "next"}
      BY <1>15, <2>7 DEF DropQueueOfEvent, AfterRelease
    <3> QED
      BY ONLY <1>0, <2>2, <2>3, <2>4, <2>5, <3>1 DEF TearDown, Tearing
  <2> QED
    BY <2>6, <2>7
<1>16. ASSUME NEW a \in Actors, DestroySetExit(a) PROVE TearDown'
  BY <1>16 DEF DestroySetExit, WakeWorker
<1>17. ASSUME NEW a \in Actors, FreeQueue(a) PROVE TearDown'
  <2>1. /\ pc[a] = "free" /\ pc'[a] = (IF a = Worker THEN "next" ELSE "idle")
        /\ \A b \in Actors \ {a} : pc'[b] = pc[b]
    BY <1>17 DEF FreeQueue, AfterRelease
  <2>2. /\ qLife' = "freed" /\ fifo' = << >> /\ UNCHANGED <<qExit, workerExit>>
    BY <1>17 DEF FreeQueue
  <2>3. QueueRefs' = QueueRefs /\ QueueRefs = {}
    <3>1. QueueRefs' = QueueRefs
      BY <1>17 DEF FreeQueue
    <3>2. QueueRefs = {}
      BY <2>1
    <3> QED
      BY <3>1, <3>2
  <2>4. TearDown
    OBVIOUS
  <2> QED
    BY ONLY <1>0, <2>1, <2>2, <2>3, <2>4, a \in Actors
       DEF TearDown, Tearing, Actors
<1>18. CASE JoinSelf
  BY <1>18 DEF JoinSelf
<1>19. CASE WorkerEnter
  BY <1>19 DEF WorkerEnter
<1>20. CASE WorkerDequeue
  <2>1. /\ pc[Worker] = "deq" /\ pc'[Worker] \in {"run", "sleep", "dead"}
        /\ pc'[Worker] = "dead" => fifo = << >> /\ fifo' = << >> /\ qExit
        /\ \A b \in Actors \ {Worker} : pc'[b] = pc[b]
    BY <1>20 DEF WorkerDequeue, RequestTaken
  <2>2. UNCHANGED <<qLife, qExit, workerExit>> /\ QueueRefs' = QueueRefs
    BY <1>20 DEF WorkerDequeue
  <2>3. TearDown
    OBVIOUS
  <2> QED
    BY ONLY <1>0, <2>1, <2>2, <2>3 DEF TearDown, Tearing
<1>21. CASE RunCommand
  BY <1>21 DEF RunCommand
<1>22. CASE RequestReleaseGroup
  BY <1>22 DEF RequestReleaseGroup
<1>23. CASE Signal
  BY <1>23 DEF Signal, WakeWaiters
<1>24. CASE WorkerNext
  BY <1>24 DEF WorkerNext, WorkerContinues
<1>25. CASE SpuriousWakeup
  <2>1. /\ \A b \in Actors : \/ pc'[b] = pc[b]
                             \/ pc[b] = "sleep" /\ pc'[b] = "deq"
                             \/ pc[b] = "blocked" /\ pc'[b] = "wait"
        /\ UNCHANGED <<qLife, qExit, fifo, workerExit>>
        /\ QueueRefs' = QueueRefs
    BY <1>25 DEF SpuriousWakeup
  <2>2. TearDown
    OBVIOUS
  <2> HIDE DEF QueueRefs
  <2> QED
    BY ONLY <1>0, <2>1, <2>2 DEF TearDown, Tearing
<1>26. CASE UNCHANGED vars
  BY <1>26 DEF vars
<1>27. [XrpNext]_vars
  OBVIOUS
<1> HIDE DEF TearDown, queueVars, reqVars, evVars, grpVars, devVars, ctlVars,
          objVars, Tearing, QueueRefs, OwnsQueue
<1> QED
  BY ONLY <1>0, <1>1, <1>2, <1>3, <1>4, <1>5, <1>6, <1>7, <1>8, <1>9, <1>10,
          <1>11, <1>12, <1>13, <1>14, <1>15, <1>16, <1>17, <1>18, <1>19,
          <1>20, <1>21, <1>22, <1>23, <1>24, <1>25, <1>26, <1>27
      DEF XrpNext, Call, ThreadStep, WorkerStep, Release, Finished

\* queue->ref.count counts the owners of the queue.
LEMMA QueueCountStep ==
    ASSUME XrpInv, RefCountsExact, [XrpNext]_vars
    PROVE  QueueCount'
<1>0. /\ Worker \in Actors /\ Worker \notin Threads
      /\ \A t \in Threads : t \in Actors
  BY XrpQueueAssumption DEF Actors
<1> USE <1>0 DEF XrpInv, XrpTypes, DataTypes, ControlTypes, QueueCount,
          queueVars, reqVars, evVars, grpVars, devVars, ctlVars, objVars,
          QueueRefs, OwnsQueue, RefCountsExact
<1>1. ASSUME NEW t \in Threads, CreateQueue(t) PROVE QueueCount'
  <2>1. QueueRefs = {}
    BY <1>1 DEF CreateQueue, TearDown
  <2>2. QueueRefs' = {t} /\ qRef' = 1
    BY <1>1, <2>1 DEF CreateQueue
  <2> QED
    BY <2>1, <2>2, FS_Singleton
<1>2. ASSUME NEW t \in Threads, NEW u \in Threads, RetainQueue(t, u)
      PROVE  QueueCount'
  <2>1. /\ QueueRefs' = QueueRefs \cup {u} /\ u \notin QueueRefs
        /\ qRef' = qRef + 1
    BY <1>2, XrpQueueAssumption DEF RetainQueue
  <2> HIDE DEF QueueRefs
  <2> QED
    BY <2>1, QueueRefsFinite, FS_AddElement
<1>3. ASSUME NEW t \in Threads, NEW u \in Threads, NEW r \in Requests,
             RetainEvent(t, u, r)
      PROVE  QueueCount'
  BY <1>3 DEF RetainEvent
<1>4. ASSUME NEW t \in Threads, NEW r \in Requests, NEW event \in BOOLEAN,
             NEW sync \in BOOLEAN, NEW group \in GroupArgs,
             Enqueue(t, r, event, group, sync)
      PROVE  QueueCount'
  <2>1. CASE event
    <3>1. /\ evLife' = [evLife EXCEPT ![r] = "live"]
          /\ holdsQ' = holdsQ /\ qRef' = qRef + 1
      BY <1>4, <2>1 DEF Enqueue, QueueRefsTaken
    <3>2. evLife[r] = "none" /\ r \notin QueueRefs
      BY <1>4, XrpQueueAssumption DEF Enqueue, EventsOwned
    <3>3. QueueRefs' = QueueRefs \cup {r}
      BY <3>1, <3>2
    <3> HIDE DEF QueueRefs
    <3> QED
      BY <3>1, <3>2, <3>3, QueueRefsFinite, FS_AddElement
  <2>2. CASE ~event
    <3>1. QueueRefs' = QueueRefs /\ qRef' = qRef
      BY <1>4, <2>2 DEF Enqueue
    <3> QED
      BY <3>1
  <2> QED
    BY <2>1, <2>2
<1>5. ASSUME NEW t \in Threads, NEW r \in Requests, Wait(t, r)
      PROVE  QueueCount'
  BY <1>5 DEF Wait
<1>6. ASSUME NEW t \in Threads, NEW r \in Requests, ReleaseEvent(t, r)
      PROVE  QueueCount'
  BY <1>6 DEF ReleaseEvent
<1>7. ASSUME NEW t \in Threads, ReleaseQueue(t) PROVE QueueCount'
  <2>1. t \in QueueRefs /\ QueueRefs' = QueueRefs \ {t} /\ qRef' = qRef - 1
    BY <1>7, ReleaseQueueRefs DEF ReleaseQueue
  <2> HIDE DEF QueueRefs
  <2>2. Cardinality(QueueRefs \ {t}) = Cardinality(QueueRefs) - 1
    BY ONLY <2>1, XrpTypes, QueueRefsFinite, FS_RemoveElement
  <2> QED
    BY <2>1, <2>2
<1>8. ASSUME NEW t \in Threads, ReleaseGroup(t) PROVE QueueCount'
  BY <1>8 DEF ReleaseGroup
<1>9. ASSUME NEW t \in Threads, ReleaseDevice(t) PROVE QueueCount'
  BY <1>9 DEF ReleaseDevice
<1>10. ASSUME NEW t \in Threads, Push(t) PROVE QueueCount'
  BY <1>10 DEF Push
<1>11. ASSUME NEW t \in Threads, WaitCheck(t) PROVE QueueCount'
  BY <1>11 DEF WaitCheck
<1>12. ASSUME NEW t \in Threads, JoinWorker(t) PROVE QueueCount'
  BY <1>12 DEF JoinWorker
<1>13. ASSUME NEW t \in Threads, JoinNothing(t) PROVE QueueCount'
  BY <1>13 DEF JoinNothing
<1>14. ASSUME NEW a \in Actors, DropEvent(a) PROVE QueueCount'
  <2>1. cur[a] \in Requests /\ evLife[cur[a]] = "live"
    BY <1>14, DropEventRefs
  <2>2. /\ UNCHANGED <<holdsQ, qRef>>
        /\ evLife' = evLife \/ evLife' = [evLife EXCEPT ![cur[a]] = "destroyed"]
    BY <1>14 DEF DropEvent
  <2>3. QueueRefs' = QueueRefs
    BY <2>1, <2>2
  <2> QED
    BY <2>2, <2>3
<1>15. ASSUME NEW a \in Actors, DropQueueOfEvent(a) PROVE QueueCount'
  <2>1. /\ cur[a] \in QueueRefs /\ QueueRefs' = QueueRefs \ {cur[a]}
        /\ qRef' = qRef - 1
    BY <1>15, DropQueueRefs DEF DropQueueOfEvent
  <2> HIDE DEF QueueRefs
  <2>2. IsFiniteSet(QueueRefs)
    BY QueueRefsFinite
  <2>3. Cardinality(QueueRefs \ {cur[a]}) = Cardinality(QueueRefs) - 1
    BY ONLY <2>1, <2>2, FS_RemoveElement
  <2> QED
    BY <2>1, <2>3
<1>16. ASSUME NEW a \in Actors, DestroySetExit(a) PROVE QueueCount'
  BY <1>16 DEF DestroySetExit
<1>17. ASSUME NEW a \in Actors, FreeQueue(a) PROVE QueueCount'
  BY <1>17 DEF FreeQueue
<1>18. CASE JoinSelf
  BY <1>18 DEF JoinSelf
<1>19. CASE WorkerEnter
  BY <1>19 DEF WorkerEnter
<1>20. CASE WorkerDequeue
  BY <1>20 DEF WorkerDequeue
<1>21. CASE RunCommand
  BY <1>21 DEF RunCommand
<1>22. CASE RequestReleaseGroup
  BY <1>22 DEF RequestReleaseGroup
<1>23. CASE Signal
  BY <1>23 DEF Signal
<1>24. CASE WorkerNext
  BY <1>24 DEF WorkerNext
<1>25. CASE SpuriousWakeup
  BY <1>25 DEF SpuriousWakeup
<1>26. CASE UNCHANGED vars
  BY <1>26 DEF vars
<1>27. [XrpNext]_vars
  OBVIOUS
<1> HIDE DEF QueueCount, queueVars, reqVars, evVars, grpVars, devVars,
          ctlVars, objVars, QueueRefs, OwnsQueue, RefCountsExact
<1> QED
  BY ONLY <1>0, <1>1, <1>2, <1>3, <1>4, <1>5, <1>6, <1>7, <1>8, <1>9, <1>10,
          <1>11, <1>12, <1>13, <1>14, <1>15, <1>16, <1>17, <1>18, <1>19,
          <1>20, <1>21, <1>22, <1>23, <1>24, <1>25, <1>26, <1>27
      DEF XrpNext, Call, ThreadStep, WorkerStep, Release, Finished

\* event->ref.count counts the owners of each event.
LEMMA EventCountsStep ==
    ASSUME XrpInv, RefCountsExact, [XrpNext]_vars
    PROVE  EventCounts'
<1>0. /\ Worker \in Actors /\ Worker \notin Threads
      /\ \A t \in Threads : t \in Actors
  BY XrpQueueAssumption DEF Actors
<1> USE <1>0 DEF XrpInv, XrpTypes, DataTypes, ControlTypes, EventCounts,
          queueVars, reqVars, evVars, grpVars, devVars, ctlVars, objVars,
          EventRefs, OwnsEvent, HasEvent
<1>1. ASSUME NEW t \in Threads, CreateQueue(t) PROVE EventCounts'
  BY <1>1, EventCountsKept DEF CreateQueue
<1>2. ASSUME NEW t \in Threads, NEW u \in Threads, RetainQueue(t, u)
      PROVE  EventCounts'
  BY <1>2, EventCountsKept DEF RetainQueue
<1>3. ASSUME NEW t \in Threads, NEW u \in Threads, NEW r \in Requests,
             RetainEvent(t, u, r)
      PROVE  EventCounts'
  <2>1. /\ \A q \in Requests :
              EventRefs(q)' = IF q = r THEN EventRefs(q) \cup {u}
                                       ELSE EventRefs(q)
        /\ u \notin EventRefs(r)
    BY <1>0, <1>3 DEF RetainEvent
  <2>2. /\ evRef' = [evRef EXCEPT ![r] = evRef[r] + 1]
        /\ evRef \in [Requests -> Int]
    BY <1>3 DEF RetainEvent
  <2>3. \A q \in Requests : evRef[q] = Cardinality(EventRefs(q))
    BY DEF RefCountsExact
  <2> HIDE DEF EventRefs
  <2>4. Cardinality(EventRefs(r) \cup {u}) = Cardinality(EventRefs(r)) + 1
    BY <2>1, EventRefsFinite, FS_AddElement
  <2> QED
    BY ONLY <2>1, <2>2, <2>3, <2>4 DEF EventCounts
<1>4. ASSUME NEW t \in Threads, NEW r \in Requests, NEW event \in BOOLEAN,
             NEW sync \in BOOLEAN, NEW group \in GroupArgs,
             Enqueue(t, r, event, group, sync)
      PROVE  EventCounts'
  <2>1. CASE event
    <3>1. /\ evLife[r] = "none" /\ ~OwnsEvent(r)
          /\ \A v \in Threads : r \notin holdsE[v]
      BY <1>4 DEF Enqueue, EventsOwned
    <3>2. /\ evLife' = [evLife EXCEPT ![r] = "live"]
          /\ phase' = [phase EXCEPT ![r] = "prepared"]
          /\ evRef' = [evRef EXCEPT ![r] = 2]
          /\ holdsE' = [holdsE EXCEPT ![t] = @ \cup {r}]
      BY <1>4, <2>1 DEF Enqueue, EventRefsTaken
    <3>3. EventRefs(r)' = {t} \cup {Worker}
      BY <1>0, <3>1, <3>2
    <3>4. \A q \in Requests : q /= r => EventRefs(q)' = EventRefs(q)
      BY <3>2
    <3>5. Cardinality({t} \cup {Worker}) = 2
      <4>1. IsFiniteSet({t}) /\ Cardinality({t}) = 1 /\ Worker \notin {t}
        BY ONLY <1>0, t \in Threads, FS_Singleton
      <4>2. Cardinality({t} \cup {Worker}) = Cardinality({t}) + 1
        BY ONLY <4>1, FS_AddElement
      <4> QED
        BY ONLY <4>1, <4>2
    <3>6. \A q \in Requests : evRef[q] = Cardinality(EventRefs(q))
      BY DEF RefCountsExact
    <3>7. evRef \in [Requests -> Int]
      OBVIOUS
    <3> HIDE DEF EventRefs
    <3> QED
      BY ONLY <3>2, <3>3, <3>4, <3>5, <3>6, <3>7 DEF EventCounts
  <2>2. CASE ~event
    <3>1. /\ UNCHANGED <<evLife, evRef, holdsE>> /\ evLife[r] = "none"
          /\ phase' = [phase EXCEPT ![r] = "prepared"]
      BY <1>4, <2>2 DEF Enqueue, EventsOwned
    <3>2. \A q \in Requests : OwnsEvent(q)' = OwnsEvent(q)
      BY <3>1
    <3> QED
      BY ONLY <3>1, <3>2, RefCountsExact, EventCountsKept
  <2> QED
    BY <2>1, <2>2
<1>5. ASSUME NEW t \in Threads, NEW r \in Requests, Wait(t, r)
      PROVE  EventCounts'
  BY <1>5, EventCountsKept DEF Wait
<1>6. ASSUME NEW t \in Threads, NEW r \in Requests, ReleaseEvent(t, r)
      PROVE  EventCounts'
  BY <1>6, EventCountsKept DEF ReleaseEvent
<1>7. ASSUME NEW t \in Threads, ReleaseQueue(t) PROVE EventCounts'
  BY <1>7, EventCountsKept DEF ReleaseQueue
<1>8. ASSUME NEW t \in Threads, ReleaseGroup(t) PROVE EventCounts'
  BY <1>8, EventCountsKept DEF ReleaseGroup
<1>9. ASSUME NEW t \in Threads, ReleaseDevice(t) PROVE EventCounts'
  BY <1>9, EventCountsKept DEF ReleaseDevice
<1>10. ASSUME NEW t \in Threads, Push(t) PROVE EventCounts'
  <2>1. /\ phase[cur[t]] = "prepared" /\ evLife' = evLife
        /\ phase' = [phase EXCEPT ![cur[t]] = "queued"]
    BY <1>10 DEF Push, ThreadsOwn
  <2>2. UNCHANGED <<evRef, holdsE>>
    BY <1>10 DEF Push
  <2>3. \A q \in Requests : OwnsEvent(q)' = OwnsEvent(q)
    BY <2>1
  <2> QED
    BY ONLY <2>2, <2>3, RefCountsExact, EventCountsKept
<1>11. ASSUME NEW t \in Threads, WaitCheck(t) PROVE EventCounts'
  BY <1>11, EventCountsKept DEF WaitCheck
<1>12. ASSUME NEW t \in Threads, JoinWorker(t) PROVE EventCounts'
  BY <1>12, EventCountsKept DEF JoinWorker
<1>13. ASSUME NEW t \in Threads, JoinNothing(t) PROVE EventCounts'
  BY <1>13, EventCountsKept DEF JoinNothing
<1>14. ASSUME NEW a \in Actors, DropEvent(a) PROVE EventCounts'
  <2>1. /\ cur[a] \in Requests /\ a \in EventRefs(cur[a])
        /\ \A q \in Requests :
              EventRefs(q)' = IF q = cur[a] THEN EventRefs(q) \ {a}
                                            ELSE EventRefs(q)
    BY <1>14, DropEventRefs
  <2>2. /\ evRef' = [evRef EXCEPT ![cur[a]] = evRef[cur[a]] - 1]
        /\ evRef \in [Requests -> Int]
    BY <1>14 DEF DropEvent
  <2>3. \A q \in Requests : evRef[q] = Cardinality(EventRefs(q))
    BY DEF RefCountsExact
  <2> HIDE DEF EventRefs
  <2>4. Cardinality(EventRefs(cur[a]) \ {a})
           = Cardinality(EventRefs(cur[a])) - 1
    BY ONLY <2>1, EventRefsFinite, FS_RemoveElement
  <2> QED
    BY ONLY <2>1, <2>2, <2>3, <2>4 DEF EventCounts
<1>15. ASSUME NEW a \in Actors, DropQueueOfEvent(a) PROVE EventCounts'
  <2>1. /\ cur[a] \in Requests /\ evLife[cur[a]] = "destroyed" /\ phase' = phase
        /\ evLife' = [evLife EXCEPT ![cur[a]] = "freed"]
    BY <1>15 DEF DropQueueOfEvent, DestroyedOwned
  <2>2. UNCHANGED <<evRef, holdsE>>
    BY <1>15 DEF DropQueueOfEvent
  <2>3. \A q \in Requests : OwnsEvent(q)' = OwnsEvent(q)
    BY <2>1
  <2> QED
    BY ONLY <2>2, <2>3, RefCountsExact, EventCountsKept
<1>16. ASSUME NEW a \in Actors, DestroySetExit(a) PROVE EventCounts'
  BY <1>16, EventCountsKept DEF DestroySetExit
<1>17. ASSUME NEW a \in Actors, FreeQueue(a) PROVE EventCounts'
  <2>1. \A q \in Requests : ~OwnsEvent(q)
    BY <1>17
       DEF FreeQueue, TearDown, Tearing, QueueRefs, OwnsQueue, EventsOwned
  <2>2. /\ evLife' = evLife
        /\ phase' = [r \in Requests |->
                        IF phase[r] = "queued" THEN "lost" ELSE phase[r]]
    BY <1>17 DEF FreeQueue
  <2>3. UNCHANGED <<evRef, holdsE>>
    BY <1>17 DEF FreeQueue
  <2>4. \A q \in Requests : OwnsEvent(q)' = OwnsEvent(q)
    BY <2>1, <2>2
  <2> QED
    BY ONLY <2>3, <2>4, RefCountsExact, EventCountsKept
<1>18. CASE JoinSelf
  BY <1>18, EventCountsKept DEF JoinSelf
<1>19. CASE WorkerEnter
  BY <1>19, EventCountsKept DEF WorkerEnter
<1>20. CASE WorkerDequeue
  <2>1. /\ evLife' = evLife
        /\ \A q \in Requests : \/ phase'[q] = phase[q]
                               \/ phase[q] = "queued" /\ phase'[q] = "running"
    <3>1. CASE fifo = << >>
      BY <1>20, <3>1 DEF WorkerDequeue, RequestTaken
    <3>2. CASE fifo /= << >>
      <4>1. /\ phase' = [phase EXCEPT ![fifo[1]] = "running"]
            /\ 1 \in 1 .. Len(fifo)
            /\ evLife' = evLife
        BY <1>20, <3>2 DEF WorkerDequeue, RequestTaken
      <4> QED
        BY <4>1 DEF ListSound
    <3> QED
      BY <3>1, <3>2
  <2>2. UNCHANGED <<evRef, holdsE>>
    BY <1>20 DEF WorkerDequeue
  <2>3. \A q \in Requests : OwnsEvent(q)' = OwnsEvent(q)
    BY <2>1
  <2> QED
    BY ONLY <2>2, <2>3, RefCountsExact, EventCountsKept
<1>21. CASE RunCommand
  BY <1>21, EventCountsKept DEF RunCommand
<1>22. CASE RequestReleaseGroup
  <2>1. /\ evLife' = evLife
        /\ \A q \in Requests : phase'[q] = phase[q] \/ ~HasEvent(q)
    BY <1>22 DEF RequestReleaseGroup
  <2>2. UNCHANGED <<evRef, holdsE>>
    BY <1>22 DEF RequestReleaseGroup
  <2>3. \A q \in Requests : OwnsEvent(q)' = OwnsEvent(q)
    BY <2>1
  <2> QED
    BY ONLY <2>2, <2>3, RefCountsExact, EventCountsKept
<1>23. CASE Signal
  <2>1. /\ cur[Worker] \in Requests /\ phase[cur[Worker]] = "running"
        /\ evLife' = evLife
        /\ phase' = [phase EXCEPT ![cur[Worker]] = "signalled"]
    BY <1>23 DEF Signal, WorkerOwns
  <2>2. UNCHANGED <<evRef, holdsE>>
    BY <1>23 DEF Signal
  <2>3. \A q \in Requests : OwnsEvent(q)' = OwnsEvent(q)
    BY <2>1
  <2> QED
    BY ONLY <2>2, <2>3, RefCountsExact, EventCountsKept
<1>24. CASE WorkerNext
  BY <1>24, EventCountsKept DEF WorkerNext
<1>25. CASE SpuriousWakeup
  BY <1>25, EventCountsKept DEF SpuriousWakeup
<1>26. CASE UNCHANGED vars
  BY <1>26 DEF vars, RefCountsExact
<1>27. [XrpNext]_vars
  OBVIOUS
<1> HIDE DEF EventCounts, queueVars, reqVars, evVars, grpVars, devVars,
          ctlVars, objVars, EventRefs, OwnsEvent, HasEvent
<1> QED
  BY ONLY <1>0, <1>1, <1>2, <1>3, <1>4, <1>5, <1>6, <1>7, <1>8, <1>9, <1>10,
          <1>11, <1>12, <1>13, <1>14, <1>15, <1>16, <1>17, <1>18, <1>19,
          <1>20, <1>21, <1>22, <1>23, <1>24, <1>25, <1>26, <1>27
      DEF XrpNext, Call, ThreadStep, WorkerStep, Release, Finished

\* The count of the buffer group counts its owners.
LEMMA GroupCountStep ==
    ASSUME XrpInv, RefCountsExact, [XrpNext]_vars
    PROVE  GroupCount'
<1>0. /\ Worker \in Actors /\ Worker \notin Threads
      /\ \A t \in Threads : t \in Actors
  BY XrpQueueAssumption DEF Actors
<1> USE <1>0 DEF XrpInv, XrpTypes, DataTypes, ControlTypes, GroupCount,
          queueVars, reqVars, evVars, grpVars, devVars, ctlVars, objVars,
          RefCountsExact
<1>1. ASSUME NEW t \in Threads, CreateQueue(t) PROVE GroupCount'
  BY <1>1 DEF CreateQueue
<1>2. ASSUME NEW t \in Threads, NEW u \in Threads, RetainQueue(t, u)
      PROVE  GroupCount'
  BY <1>2 DEF RetainQueue
<1>3. ASSUME NEW t \in Threads, NEW u \in Threads, NEW r \in Requests,
             RetainEvent(t, u, r)
      PROVE  GroupCount'
  BY <1>3 DEF RetainEvent
<1>4. ASSUME NEW t \in Threads, NEW r \in Requests, NEW event \in BOOLEAN,
             NEW sync \in BOOLEAN, NEW group \in GroupArgs,
             Enqueue(t, r, event, group, sync)
      PROVE  GroupCount'
  <2>1. CASE group
    <3>1. r \notin holdsG \cup usesGroup
      BY <1>4, XrpQueueAssumption DEF Enqueue, EventsOwned
    <3>2. /\ usesGroup' = usesGroup \cup {r} /\ holdsG' = holdsG
          /\ grpRef' = grpRef + 1
      BY <1>4, <2>1 DEF Enqueue
    <3>3. (holdsG \cup usesGroup)' = (holdsG \cup usesGroup) \cup {r}
      BY <3>2
    <3>4. Cardinality((holdsG \cup usesGroup) \cup {r})
             = Cardinality(holdsG \cup usesGroup) + 1
      BY ONLY <3>1, XrpTypes, GroupRefsFinite, FS_AddElement
    <3>5. grpRef = Cardinality(holdsG \cup usesGroup)
      OBVIOUS
    <3> QED
      BY ONLY <3>2, <3>3, <3>4, <3>5 DEF GroupCount
  <2>2. CASE ~group
    BY <1>4, <2>2 DEF Enqueue
  <2> QED
    BY <2>1, <2>2
<1>5. ASSUME NEW t \in Threads, NEW r \in Requests, Wait(t, r)
      PROVE  GroupCount'
  BY <1>5 DEF Wait
<1>6. ASSUME NEW t \in Threads, NEW r \in Requests, ReleaseEvent(t, r)
      PROVE  GroupCount'
  BY <1>6 DEF ReleaseEvent
<1>7. ASSUME NEW t \in Threads, ReleaseQueue(t) PROVE GroupCount'
  BY <1>7 DEF ReleaseQueue
<1>8. ASSUME NEW t \in Threads, ReleaseGroup(t) PROVE GroupCount'
  <2>1. /\ t \in holdsG \cup usesGroup /\ grpRef' = grpRef - 1
        /\ (holdsG \cup usesGroup)' = (holdsG \cup usesGroup) \ {t}
    BY <1>8, XrpQueueAssumption DEF ReleaseGroup
  <2>2. Cardinality((holdsG \cup usesGroup) \ {t})
           = Cardinality(holdsG \cup usesGroup) - 1
    BY ONLY <2>1, XrpTypes, GroupRefsFinite, FS_RemoveElement
  <2>3. grpRef = Cardinality(holdsG \cup usesGroup)
    OBVIOUS
  <2> QED
    BY ONLY <2>1, <2>2, <2>3 DEF GroupCount
<1>9. ASSUME NEW t \in Threads, ReleaseDevice(t) PROVE GroupCount'
  BY <1>9 DEF ReleaseDevice
<1>10. ASSUME NEW t \in Threads, Push(t) PROVE GroupCount'
  BY <1>10 DEF Push
<1>11. ASSUME NEW t \in Threads, WaitCheck(t) PROVE GroupCount'
  BY <1>11 DEF WaitCheck
<1>12. ASSUME NEW t \in Threads, JoinWorker(t) PROVE GroupCount'
  BY <1>12 DEF JoinWorker
<1>13. ASSUME NEW t \in Threads, JoinNothing(t) PROVE GroupCount'
  BY <1>13 DEF JoinNothing
<1>14. ASSUME NEW a \in Actors, DropEvent(a) PROVE GroupCount'
  BY <1>14 DEF DropEvent
<1>15. ASSUME NEW a \in Actors, DropQueueOfEvent(a) PROVE GroupCount'
  BY <1>15 DEF DropQueueOfEvent
<1>16. ASSUME NEW a \in Actors, DestroySetExit(a) PROVE GroupCount'
  BY <1>16 DEF DestroySetExit
<1>17. ASSUME NEW a \in Actors, FreeQueue(a) PROVE GroupCount'
  BY <1>17 DEF FreeQueue
<1>18. CASE JoinSelf
  BY <1>18 DEF JoinSelf
<1>19. CASE WorkerEnter
  BY <1>19 DEF WorkerEnter
<1>20. CASE WorkerDequeue
  BY <1>20 DEF WorkerDequeue
<1>21. CASE RunCommand
  BY <1>21 DEF RunCommand
<1>22. CASE RequestReleaseGroup
  <2> DEFINE r == cur[Worker]
  <2>1. CASE r \in usesGroup
    <3>1. /\ r \in holdsG \cup usesGroup /\ grpRef' = grpRef - 1
          /\ (holdsG \cup usesGroup)' = (holdsG \cup usesGroup) \ {r}
      BY <1>22, <2>1, XrpQueueAssumption DEF RequestReleaseGroup
    <3>2. IsFiniteSet(holdsG \cup usesGroup)
      BY GroupRefsFinite
    <3> HIDE DEF r
    <3>3. Cardinality((holdsG \cup usesGroup) \ {r})
             = Cardinality(holdsG \cup usesGroup) - 1
      BY ONLY <3>1, <3>2, FS_RemoveElement
    <3> QED
      BY <3>1, <3>3
  <2>2. CASE r \notin usesGroup
    <3>1. UNCHANGED <<grpRef, holdsG>> /\ usesGroup' = usesGroup
      BY <1>22, <2>2 DEF RequestReleaseGroup
    <3> QED
      BY <3>1
  <2> QED
    BY <2>1, <2>2
<1>23. CASE Signal
  BY <1>23 DEF Signal
<1>24. CASE WorkerNext
  BY <1>24 DEF WorkerNext
<1>25. CASE SpuriousWakeup
  BY <1>25 DEF SpuriousWakeup
<1>26. CASE UNCHANGED vars
  BY <1>26 DEF vars
<1>27. [XrpNext]_vars
  OBVIOUS
<1> HIDE DEF GroupCount, queueVars, reqVars, evVars, grpVars, devVars,
          ctlVars, objVars, RefCountsExact
<1> QED
  BY ONLY <1>0, <1>1, <1>2, <1>3, <1>4, <1>5, <1>6, <1>7, <1>8, <1>9, <1>10,
          <1>11, <1>12, <1>13, <1>14, <1>15, <1>16, <1>17, <1>18, <1>19,
          <1>20, <1>21, <1>22, <1>23, <1>24, <1>25, <1>26, <1>27
      DEF XrpNext, Call, ThreadStep, WorkerStep, Release, Finished

\* The count of the device: the application's reference and the queue's.
LEMMA DeviceCountStep ==
    ASSUME XrpInv, RefCountsExact, [XrpNext]_vars
    PROVE  DeviceCount'
<1>0. /\ Worker \in Actors /\ Worker \notin Threads
      /\ \A t \in Threads : t \in Actors
  BY XrpQueueAssumption DEF Actors
<1> USE <1>0 DEF XrpInv, XrpTypes, DataTypes, ControlTypes, DeviceCount,
          queueVars, reqVars, evVars, grpVars, devVars, ctlVars, objVars,
          RefCountsExact
<1>1. ASSUME NEW t \in Threads, CreateQueue(t) PROVE DeviceCount'
  BY <1>1 DEF CreateQueue, DeviceRefsTaken
<1>2. ASSUME NEW t \in Threads, NEW u \in Threads, RetainQueue(t, u)
      PROVE  DeviceCount'
  BY <1>2 DEF RetainQueue
<1>3. ASSUME NEW t \in Threads, NEW u \in Threads, NEW r \in Requests,
             RetainEvent(t, u, r)
      PROVE  DeviceCount'
  BY <1>3 DEF RetainEvent
<1>4. ASSUME NEW t \in Threads, NEW r \in Requests, NEW event \in BOOLEAN,
             NEW sync \in BOOLEAN, NEW group \in GroupArgs,
             Enqueue(t, r, event, group, sync)
      PROVE  DeviceCount'
  BY <1>4 DEF Enqueue
<1>5. ASSUME NEW t \in Threads, NEW r \in Requests, Wait(t, r)
      PROVE  DeviceCount'
  BY <1>5 DEF Wait
<1>6. ASSUME NEW t \in Threads, NEW r \in Requests, ReleaseEvent(t, r)
      PROVE  DeviceCount'
  BY <1>6 DEF ReleaseEvent
<1>7. ASSUME NEW t \in Threads, ReleaseQueue(t) PROVE DeviceCount'
  BY <1>7 DEF ReleaseQueue
<1>8. ASSUME NEW t \in Threads, ReleaseGroup(t) PROVE DeviceCount'
  BY <1>8 DEF ReleaseGroup
<1>9. ASSUME NEW t \in Threads, ReleaseDevice(t) PROVE DeviceCount'
  BY <1>9 DEF ReleaseDevice
<1>10. ASSUME NEW t \in Threads, Push(t) PROVE DeviceCount'
  BY <1>10 DEF Push
<1>11. ASSUME NEW t \in Threads, WaitCheck(t) PROVE DeviceCount'
  BY <1>11 DEF WaitCheck
<1>12. ASSUME NEW t \in Threads, JoinWorker(t) PROVE DeviceCount'
  BY <1>12 DEF JoinWorker
<1>13. ASSUME NEW t \in Threads, JoinNothing(t) PROVE DeviceCount'
  BY <1>13 DEF JoinNothing
<1>14. ASSUME NEW a \in Actors, DropEvent(a) PROVE DeviceCount'
  BY <1>14 DEF DropEvent
<1>15. ASSUME NEW a \in Actors, DropQueueOfEvent(a) PROVE DeviceCount'
  BY <1>15 DEF DropQueueOfEvent
<1>16. ASSUME NEW a \in Actors, DestroySetExit(a) PROVE DeviceCount'
  BY <1>16 DEF DestroySetExit
<1>17. ASSUME NEW a \in Actors, FreeQueue(a) PROVE DeviceCount'
  <2>1. qLife = "live"
    BY <1>17 DEF FreeQueue, TearDown, Tearing
  <2>2. qLife' = "freed" /\ devRef' = devRef - 1 /\ holdsD' = holdsD
    BY <1>17 DEF FreeQueue
  <2> QED
    BY <2>1, <2>2
<1>18. CASE JoinSelf
  BY <1>18 DEF JoinSelf
<1>19. CASE WorkerEnter
  BY <1>19 DEF WorkerEnter
<1>20. CASE WorkerDequeue
  BY <1>20 DEF WorkerDequeue
<1>21. CASE RunCommand
  BY <1>21 DEF RunCommand
<1>22. CASE RequestReleaseGroup
  BY <1>22 DEF RequestReleaseGroup
<1>23. CASE Signal
  BY <1>23 DEF Signal
<1>24. CASE WorkerNext
  BY <1>24 DEF WorkerNext
<1>25. CASE SpuriousWakeup
  BY <1>25 DEF SpuriousWakeup
<1>26. CASE UNCHANGED vars
  BY <1>26 DEF vars
<1>27. [XrpNext]_vars
  OBVIOUS
<1> HIDE DEF DeviceCount, queueVars, reqVars, evVars, grpVars, devVars,
          ctlVars, objVars, RefCountsExact
<1> QED
  BY ONLY <1>0, <1>1, <1>2, <1>3, <1>4, <1>5, <1>6, <1>7, <1>8, <1>9, <1>10,
          <1>11, <1>12, <1>13, <1>14, <1>15, <1>16, <1>17, <1>18, <1>19,
          <1>20, <1>21, <1>22, <1>23, <1>24, <1>25, <1>26, <1>27
      DEF XrpNext, Call, ThreadStep, WorkerStep, Release, Finished

\* Nobody sleeps past the broadcast that is meant for it (xrp_queue_push,
\* xrp_queue_destroy and xrp_request_process).
LEMMA NoLostWakeupStep ==
    ASSUME XrpInv, RefCountsExact, NoLostWakeup, [XrpNext]_vars
    PROVE  NoLostWakeup'
<1>0. /\ Worker \in Actors /\ Worker \notin Threads
      /\ \A t \in Threads : t \in Actors
  BY XrpQueueAssumption DEF Actors
<1> USE <1>0 DEF XrpInv, XrpTypes, DataTypes, ControlTypes, NoLostWakeup,
          queueVars, reqVars, evVars, grpVars, devVars, ctlVars, objVars
<1>1. ASSUME NEW t \in Threads, CreateQueue(t) PROVE NoLostWakeup'
  BY <1>1 DEF CreateQueue
<1>2. ASSUME NEW t \in Threads, NEW u \in Threads, RetainQueue(t, u)
      PROVE  NoLostWakeup'
  BY <1>2 DEF RetainQueue
<1>3. ASSUME NEW t \in Threads, NEW u \in Threads, NEW r \in Requests,
             RetainEvent(t, u, r)
      PROVE  NoLostWakeup'
  BY <1>3 DEF RetainEvent
<1>4. ASSUME NEW t \in Threads, NEW r \in Requests, NEW event \in BOOLEAN,
             NEW sync \in BOOLEAN, NEW group \in GroupArgs,
             Enqueue(t, r, event, group, sync)
      PROVE  NoLostWakeup'
  BY <1>4 DEF Enqueue
<1>5. ASSUME NEW t \in Threads, NEW r \in Requests, Wait(t, r)
      PROVE  NoLostWakeup'
  BY <1>5 DEF Wait
<1>6. ASSUME NEW t \in Threads, NEW r \in Requests, ReleaseEvent(t, r)
      PROVE  NoLostWakeup'
  BY <1>6 DEF ReleaseEvent
<1>7. ASSUME NEW t \in Threads, ReleaseQueue(t) PROVE NoLostWakeup'
  BY <1>7 DEF ReleaseQueue
<1>8. ASSUME NEW t \in Threads, ReleaseGroup(t) PROVE NoLostWakeup'
  BY <1>8 DEF ReleaseGroup
<1>9. ASSUME NEW t \in Threads, ReleaseDevice(t) PROVE NoLostWakeup'
  BY <1>9 DEF ReleaseDevice
<1>10. ASSUME NEW t \in Threads, Push(t) PROVE NoLostWakeup'
  BY <1>10 DEF Push, PushBroadcasts, WakeWorker
<1>11. ASSUME NEW t \in Threads, WaitCheck(t) PROVE NoLostWakeup'
  BY <1>11 DEF WaitCheck
<1>12. ASSUME NEW t \in Threads, JoinWorker(t) PROVE NoLostWakeup'
  BY <1>12 DEF JoinWorker
<1>13. ASSUME NEW t \in Threads, JoinNothing(t) PROVE NoLostWakeup'
  BY <1>13 DEF JoinNothing
<1>14. ASSUME NEW a \in Actors, DropEvent(a) PROVE NoLostWakeup'
  BY <1>14 DEF DropEvent, AfterRelease
<1>15. ASSUME NEW a \in Actors, DropQueueOfEvent(a) PROVE NoLostWakeup'
  BY <1>15 DEF DropQueueOfEvent, AfterRelease
<1>16. ASSUME NEW a \in Actors, DestroySetExit(a) PROVE NoLostWakeup'
  BY <1>16 DEF DestroySetExit, WakeWorker
<1>17. ASSUME NEW a \in Actors, FreeQueue(a) PROVE NoLostWakeup'
  BY <1>17 DEF FreeQueue, AfterRelease
<1>18. CASE JoinSelf
  BY <1>18 DEF JoinSelf
<1>19. CASE WorkerEnter
  BY <1>19 DEF WorkerEnter
<1>20. CASE WorkerDequeue
  BY <1>20 DEF WorkerDequeue, RequestTaken
<1>21. CASE RunCommand
  BY <1>21 DEF RunCommand
<1>22. CASE RequestReleaseGroup
  BY <1>22 DEF RequestReleaseGroup
<1>23. CASE Signal
  BY <1>23 DEF Signal, WakeWaiters
<1>24. CASE WorkerNext
  BY <1>24 DEF WorkerNext
<1>25. CASE SpuriousWakeup
  BY <1>25 DEF SpuriousWakeup
<1>26. CASE UNCHANGED vars
  BY <1>26 DEF vars
<1>27. [XrpNext]_vars
  OBVIOUS
<1> HIDE DEF NoLostWakeup, queueVars, reqVars, evVars, grpVars, devVars,
          ctlVars, objVars
<1> QED
  BY ONLY <1>0, <1>1, <1>2, <1>3, <1>4, <1>5, <1>6, <1>7, <1>8, <1>9, <1>10,
          <1>11, <1>12, <1>13, <1>14, <1>15, <1>16, <1>17, <1>18, <1>19,
          <1>20, <1>21, <1>22, <1>23, <1>24, <1>25, <1>26, <1>27
      DEF XrpNext, Call, ThreadStep, WorkerStep, Release, Finished
-----------------------------------------------------------------------------
(***************************************************************************)
(* The theorems.                                                           *)
(***************************************************************************)

\* The library as it is loaded: no queue yet, one owner of the group and of
\* the device each.
LEMMA XrpInitInv ==
    ASSUME XrpInit PROVE XrpInv /\ RefCountsExact /\ NoLostWakeup
<1>0. /\ Worker \in Actors /\ Worker \notin Threads
      /\ \A t \in Threads : t \in Actors
  BY XrpQueueAssumption DEF Actors
<1>1. DataTypes
  <2>1. /\ phase \in [Requests -> Phases] /\ status \in Statuses
        /\ evRef \in [Requests -> Int] /\ evStatus \in [Requests -> Statuses]
        /\ evLife \in [Requests -> {"none", "live", "destroyed", "freed"}]
        /\ holdsE \in [Threads -> SUBSET Requests]
    BY DEF XrpInit, Phases, Statuses
  <2>2. holdsG \subseteq Threads /\ holdsQ \subseteq Threads
    BY DEF XrpInit
  <2>3. /\ qExit \in BOOLEAN /\ workerExit \in BOOLEAN /\ holdsD \in BOOLEAN
    BY DEF XrpInit
  <2>4. fifo \in Seq(Requests)
    BY DEF XrpInit
  <2> QED
    BY <2>1, <2>2, <2>3, <2>4 DEF XrpInit, DataTypes
<1>2. ControlTypes
  BY <1>0 DEF XrpInit, ControlTypes, ThreadPCs, WorkerPCs
<1>3. EventsOwned /\ ThreadsOwn /\ WorkerOwns /\ ListSound /\ DestroyedOwned
  BY <1>0 DEF XrpInit, EventsOwned, OwnsEvent, HasEvent, ThreadsOwn,
              WorkerOwns, ListSound, DestroyedOwned
<1>4. QueueRefs = {} /\ \A r \in Requests : EventRefs(r) = {}
  BY DEF XrpInit, QueueRefs, OwnsQueue, EventRefs, OwnsEvent, HasEvent
<1>5. TearDown
  BY <1>0, <1>4 DEF XrpInit, TearDown, Tearing
<1>6. RefCountsExact
  <2>1. PICK t \in Threads : holdsG = {t}
    BY DEF XrpInit
  <2>2. Cardinality(holdsG \cup usesGroup) = 1
    <3>1. holdsG \cup usesGroup = {t}
      BY <2>1 DEF XrpInit
    <3> QED
      BY <3>1, FS_Singleton
  <2>3. qRef = Cardinality(QueueRefs)
    BY <1>4, FS_EmptySet DEF XrpInit
  <2>4. \A r \in Requests : evRef[r] = Cardinality(EventRefs(r))
    BY <1>4, FS_EmptySet DEF XrpInit
  <2>5. devRef = (IF holdsD THEN 1 ELSE 0) + (IF qLife = "live" THEN 1 ELSE 0)
    BY DEF XrpInit
  <2> QED
    BY <2>2, <2>3, <2>4, <2>5 DEF XrpInit, RefCountsExact
<1>7. NoLostWakeup
  BY <1>0 DEF XrpInit, NoLostWakeup
<1> QED
  BY <1>1, <1>2, <1>3, <1>5, <1>6, <1>7 DEF XrpInv, XrpTypes

\* Reference counts, ownership and the order of a tear-down hold in every
\* state the queue, its callers and its worker can reach.
THEOREM XrpInvariant == XrpSpec => [](XrpInv /\ RefCountsExact /\ NoLostWakeup)
<1>1. XrpInit => XrpInv /\ RefCountsExact /\ NoLostWakeup
  BY XrpInitInv
<1>2. XrpInv /\ RefCountsExact /\ NoLostWakeup /\ [XrpNext]_vars
        => XrpInv' /\ RefCountsExact' /\ NoLostWakeup'
  <2> SUFFICES ASSUME XrpInv, RefCountsExact, NoLostWakeup, [XrpNext]_vars
               PROVE  XrpInv' /\ RefCountsExact' /\ NoLostWakeup'
    OBVIOUS
  <2>1. XrpTypes'
    BY DataTypesStep, ControlTypesStep DEF XrpTypes
  <2>2. XrpInv'
    BY <2>1, EventsOwnedStep, ThreadsOwnStep, WorkerOwnsStep, ListSoundStep,
       DestroyedOwnedStep, TearDownStep DEF XrpInv
  <2>3. RefCountsExact'
    BY QueueCountStep, EventCountsStep, GroupCountStep, DeviceCountStep
       DEF RefCountsExact, QueueCount, EventCounts, GroupCount, DeviceCount
  <2> QED
    BY <2>2, <2>3, NoLostWakeupStep
<1> QED
  BY <1>1, <1>2, PTL DEF XrpSpec

\* Every counter is the number of owners, in every state.
THEOREM RefCountsCorrect == XrpSpec => []RefCountsExact
BY XrpInvariant, PTL

\* xrp_wait and the worker never sleep through the broadcast they wait for.
THEOREM NoLostWakeupCorrect == XrpSpec => []NoLostWakeup
BY XrpInvariant, PTL

\* The types, with counters that never go below zero: no object is released
\* more often than it was retained.
THEOREM XrpTypeCorrect == XrpSpec => []XrpTypeOK
<1>1. XrpInv /\ RefCountsExact => XrpTypeOK
  <2> SUFFICES ASSUME XrpInv, RefCountsExact PROVE XrpTypeOK
    OBVIOUS
  <2>1. DataTypes /\ ControlTypes
    BY DEF XrpInv, XrpTypes
  <2>2. qRef \in Nat
    BY <2>1, QueueRefsFinite, FS_CardinalityType DEF RefCountsExact, XrpTypes
  <2>3. grpRef \in Nat
    BY <2>1, GroupRefsFinite, FS_CardinalityType DEF RefCountsExact, XrpTypes
  <2>4. devRef \in Nat
    BY DEF RefCountsExact
  <2>5. evRef \in [Requests -> Nat]
    <3>1. \A r \in Requests : evRef[r] \in Nat
      BY EventRefsFinite, FS_CardinalityType DEF RefCountsExact
    <3> QED
      BY <2>1, <3>1 DEF DataTypes
  <2> QED
    BY <2>1, <2>2, <2>3, <2>4, <2>5 DEF XrpTypeOK, DataTypes, ControlTypes
<1> QED
  BY <1>1, XrpInvariant, PTL

\* Nobody reads or writes the queue after xrp_release_queue has freed it.
THEOREM QueueNotUsedAfterFreeCorrect == XrpSpec => []QueueNotUsedAfterFree
<1>1. XrpInv => QueueNotUsedAfterFree
  <2> SUFFICES ASSUME XrpInv PROVE QueueNotUsedAfterFree
    OBVIOUS
  <2>1. QueueRefs /= {} => qLife = "live"
    BY DEF XrpInv, TearDown
  <2>2. holdsQ /= {} => qLife = "live"
    BY <2>1 DEF QueueRefs
  <2>3. ASSUME NEW a \in Actors, pc[a] = "push" PROVE qLife = "live"
    <3>1. a \in Threads
      BY <2>3 DEF Actors, XrpInv, XrpTypes, ControlTypes, WorkerPCs
    <3> QED
      BY <2>2, <2>3, <3>1 DEF XrpInv, ThreadsOwn
  <2>4. ASSUME NEW a \in Actors, pc[a] = "relQueue" PROVE qLife = "live"
    <3>1. cur[a] \in Requests /\ evLife[cur[a]] = "destroyed"
      BY <2>4 DEF XrpInv, DestroyedOwned
    <3> QED
      BY <2>1, <3>1 DEF QueueRefs, OwnsQueue
  <2>5. ASSUME NEW a \in Actors, Tearing(a) PROVE qLife = "live"
    BY <2>5 DEF XrpInv, TearDown
  <2>6. ASSUME NEW a \in Actors, pc[a] \in {"enter", "deq", "sleep", "run"}
        PROVE  qLife = "live"
    <3>1. a = Worker
      BY <2>6 DEF Actors, XrpInv, XrpTypes, ControlTypes, ThreadPCs
    <3> QED
      BY <2>6, <3>1 DEF XrpInv, TearDown, XrpTypes, DataTypes
  <2> QED
    BY <2>2, <2>3, <2>4, <2>5, <2>6 DEF QueueNotUsedAfterFree, Tearing
<1> QED
  BY <1>1, XrpInvariant, PTL

\* xrp_wait never looks at, and the worker never signals, a destroyed event.
THEOREM EventNotUsedAfterFreeCorrect == XrpSpec => []EventNotUsedAfterFree
<1>1. XrpInv => EventNotUsedAfterFree
  <2> SUFFICES ASSUME XrpInv PROVE EventNotUsedAfterFree
    OBVIOUS
  <2>1. ASSUME NEW t \in Threads, NEW r \in holdsE[t] PROVE evLife[r] = "live"
    BY DEF XrpInv, XrpTypes, DataTypes, EventsOwned
  <2>2. ASSUME NEW t \in Threads,
               pc[t] \in {"wait", "blocked", "signal", "relEvent"}
        PROVE  evLife[cur[t]] = "live"
    BY <2>1, <2>2 DEF XrpInv, ThreadsOwn, XrpTypes, ControlTypes, ThreadPCs
  <2>3. ASSUME pc[Worker] \in {"wait", "blocked", "signal", "relEvent"}
        PROVE  evLife[cur[Worker]] = "live"
    BY <2>3 DEF XrpInv, WorkerOwns, XrpTypes, ControlTypes, WorkerPCs,
                EventsOwned, OwnsEvent
  <2> QED
    BY <2>1, <2>2, <2>3 DEF EventNotUsedAfterFree, Actors
<1> QED
  BY <1>1, XrpInvariant, PTL

\* The device and the group of the command that runs are still there.
THEOREM RunningCommandCorrect == XrpSpec => []RunningCommandKeepsItsObjects
<1>1. XrpInv /\ RefCountsExact => RunningCommandKeepsItsObjects
  <2> SUFFICES ASSUME XrpInv, RefCountsExact, pc[Worker] = "run"
               PROVE  devRef > 0 /\ (cur[Worker] \in usesGroup => grpRef > 0)
    BY DEF RunningCommandKeepsItsObjects
  <2>1. qLife = "live"
    BY DEF XrpInv, TearDown, XrpTypes, DataTypes
  <2>2. devRef > 0
    BY <2>1 DEF RefCountsExact
  <2>3. ASSUME cur[Worker] \in usesGroup PROVE grpRef > 0
    <3>1. /\ IsFiniteSet(holdsG \cup usesGroup)
          /\ grpRef = Cardinality(holdsG \cup usesGroup)
      BY GroupRefsFinite DEF XrpInv, RefCountsExact
    <3>2. holdsG \cup usesGroup /= {}
      BY <2>3
    <3>3. grpRef \in Nat /\ grpRef /= 0
      BY <3>1, <3>2, FS_EmptySet, FS_CardinalityType
    <3> QED
      BY <3>3
  <2> QED
    BY <2>2, <2>3
<1> QED
  BY <1>1, XrpInvariant, PTL

\* A queue torn down by an application thread has processed every request that
\* was pushed to it.
THEOREM DestroyDrainsCorrect == XrpSpec => []DestroyDrains
<1>1. XrpInv => DestroyDrains
  BY DEF XrpInv, TearDown, DestroyDrains
<1> QED
  BY <1>1, XrpInvariant, PTL

-----------------------------------------------------------------------------
(***************************************************************************)
(* What becomes of a request.  Where it is says whether the DSP may have   *)
(* answered it and whether its event has been signalled, and only one      *)
(* request is away from the list and not signalled yet.                    *)
(***************************************************************************)

AtWork == {"run", "relGroup", "signal"}

\* A status is published after the run; an answer comes during or before it.
StatusPlaced ==
    \A r \in Requests :
        /\ evStatus[r] /= "PENDING" => phase[r] \in {"signalled", "done"}
        /\ r \in delivered => phase[r] \in {"running", "signalled", "done"}

\* What the worker's status says of the request it has just run.
WorkerStatus ==
    /\ pc[Worker] = "run" => cur[Worker] \notin delivered
    /\ pc[Worker] \in {"relGroup", "signal"} =>
          (cur[Worker] \in delivered => status = "SUCCESS")

\* The phases are where the requests are.
Placed ==
    \A r \in Requests :
        /\ phase[r] = "queued" => \E i \in 1 .. Len(fifo) : fifo[i] = r
        /\ phase[r] = "running" => pc[Worker] \in AtWork /\ cur[Worker] = r
        /\ phase[r] = "lost" => qLife = "freed"

OutcomeInv == StatusPlaced /\ WorkerStatus /\ Placed /\ AnsweredNotFailed

\* A step that moves no request and publishes nothing.
Still ==
    /\ UNCHANGED <<fifo, phase, delivered, evStatus>>
    /\ \A r \in Requests : HasEvent(r)' <=> HasEvent(r)
    /\ \/ qLife' = qLife
       \/ qLife = "none" /\ qLife' = "live"
    /\ \/ pc'[Worker] = pc[Worker] /\ cur'[Worker] = cur[Worker] /\ status' = status
       \/ pc[Worker] \notin AtWork /\ pc'[Worker] \notin AtWork

\* The worker's release of a request's event ends the request.
LEMMA WorkerDropsEvent ==
    ASSUME XrpInv, DropEvent(Worker)
    PROVE  /\ phase[cur[Worker]] = "signalled" /\ cur[Worker] \in Requests
           /\ phase' = [phase EXCEPT ![cur[Worker]] = "done"]
           /\ UNCHANGED <<fifo, delivered, evStatus, qLife>>
           /\ \A r \in Requests : HasEvent(r)' <=> HasEvent(r)
           /\ pc'[Worker] \notin AtWork
<1> USE DEF XrpInv, XrpTypes, DataTypes, ControlTypes
<1>1. pc[Worker] = "relEvent" /\ pc'[Worker] \in {"relQueue", "next"}
  BY XrpQueueAssumption DEF DropEvent, AfterRelease, Actors
<1>2. cur[Worker] \in Requests /\ HasEvent(cur[Worker]) /\ phase[cur[Worker]] = "signalled"
  BY <1>1 DEF WorkerOwns
<1>3. evLife' = evLife \/ evLife' = [evLife EXCEPT ![cur[Worker]] = "destroyed"]
  BY DEF DropEvent
<1>4. \A r \in Requests : HasEvent(r)' <=> HasEvent(r)
  BY <1>2, <1>3 DEF HasEvent
<1>5. phase' = [phase EXCEPT ![cur[Worker]] = "done"]
  BY DEF DropEvent
<1> QED
  BY <1>1, <1>2, <1>4, <1>5 DEF DropEvent, queueVars, AtWork

\* Every other step is one of these.
LEMMA OutcomeCases ==
    ASSUME XrpInv, [XrpNext]_vars
    PROVE  \/ \E t \in Threads, r \in Requests, event, sync \in BOOLEAN, group \in GroupArgs :
                 Enqueue(t, r, event, group, sync)
           \/ \E t \in Threads : Push(t)
           \/ DropEvent(Worker)
           \/ \E a \in Actors : FreeQueue(a)
           \/ WorkerDequeue \/ RunCommand \/ RequestReleaseGroup \/ Signal
           \/ Still
<1>0. /\ Worker \in Actors /\ Worker \notin Threads
      /\ \A t \in Threads : t \in Actors
  BY XrpQueueAssumption DEF Actors
<1> USE <1>0 DEF XrpInv, XrpTypes, DataTypes, ControlTypes, queueVars, reqVars,
          evVars, grpVars, devVars, ctlVars, objVars, HasEvent, AtWork
<1>1. ASSUME NEW t \in Threads, CreateQueue(t) PROVE Still
  <2>1. pc'[Worker] = pc[Worker] \/ (pc[Worker] = "none" /\ pc'[Worker] = "enter")
    BY <1>1 DEF CreateQueue, TearDown
  <2> QED
    BY <1>1, <2>1 DEF CreateQueue, Still
<1>2. ASSUME NEW t \in Threads, NEW u \in Threads, RetainQueue(t, u) PROVE Still
  BY <1>2 DEF RetainQueue, Still
<1>3. ASSUME NEW t \in Threads, NEW u \in Threads, NEW r \in Requests,
             RetainEvent(t, u, r)
      PROVE  Still
  BY <1>3 DEF RetainEvent, Still
<1>5. ASSUME NEW t \in Threads, NEW r \in Requests, Wait(t, r) PROVE Still
  BY <1>5 DEF Wait, Still
<1>6. ASSUME NEW t \in Threads, NEW r \in Requests, ReleaseEvent(t, r) PROVE Still
  BY <1>6 DEF ReleaseEvent, Still
<1>7. ASSUME NEW t \in Threads, ReleaseQueue(t) PROVE Still
  BY <1>7 DEF ReleaseQueue, Still
<1>8. ASSUME NEW t \in Threads, ReleaseGroup(t) PROVE Still
  BY <1>8 DEF ReleaseGroup, Still
<1>9. ASSUME NEW t \in Threads, ReleaseDevice(t) PROVE Still
  BY <1>9 DEF ReleaseDevice, Still
<1>11. ASSUME NEW t \in Threads, WaitCheck(t) PROVE Still
  BY <1>11 DEF WaitCheck, Still
<1>12. ASSUME NEW t \in Threads, JoinWorker(t) PROVE Still
  BY <1>12 DEF JoinWorker, Still
<1>13. ASSUME NEW t \in Threads, JoinNothing(t) PROVE Still
  BY <1>13 DEF JoinNothing, Still
<1>14. ASSUME NEW t \in Threads, DropEvent(t) PROVE Still
  <2>1. t /= Worker /\ phase' = phase /\ pc'[Worker] = pc[Worker]
        /\ cur'[Worker] = cur[Worker]
    BY <1>14 DEF DropEvent
  <2>2. cur[t] \in Requests /\ evLife[cur[t]] = "live"
    BY <1>14, DropEventRefs
  <2>3. evLife' = evLife \/ evLife' = [evLife EXCEPT ![cur[t]] = "destroyed"]
    BY <1>14 DEF DropEvent
  <2>4. \A r \in Requests : HasEvent(r)' <=> HasEvent(r)
    BY <2>2, <2>3
  <2> QED
    BY <1>14, <2>1, <2>4 DEF DropEvent, Still
<1>15. ASSUME NEW a \in Actors, DropQueueOfEvent(a) PROVE Still
  <2>1. cur[a] \in Requests /\ evLife[cur[a]] = "destroyed"
        /\ evLife' = [evLife EXCEPT ![cur[a]] = "freed"]
    BY <1>15 DEF DropQueueOfEvent, DestroyedOwned
  <2>2. \A r \in Requests : HasEvent(r)' <=> HasEvent(r)
    BY <2>1
  <2>3. \/ a /= Worker /\ pc'[Worker] = pc[Worker] /\ cur'[Worker] = cur[Worker]
        \/ pc[Worker] = "relQueue" /\ pc'[Worker] \in {"destroy", "next"}
    BY <1>15 DEF DropQueueOfEvent, AfterRelease
  <2> QED
    BY <1>15, <2>2, <2>3 DEF DropQueueOfEvent, Still
<1>16. ASSUME NEW a \in Actors, DestroySetExit(a) PROVE Still
  <2>1. \/ pc'[Worker] = pc[Worker]
        \/ pc[Worker] \in {"sleep", "destroy"} /\ pc'[Worker] \in {"deq", "join"}
    BY <1>16 DEF DestroySetExit, WakeWorker
  <2> QED
    BY <1>16, <2>1 DEF DestroySetExit, Still
<1>18. CASE JoinSelf
  BY <1>18 DEF JoinSelf, Still
<1>19. CASE WorkerEnter
  BY <1>19 DEF WorkerEnter, Still
<1>24. CASE WorkerNext
  BY <1>24 DEF WorkerNext, Still
<1>25. CASE SpuriousWakeup
  BY <1>25 DEF SpuriousWakeup, Still
<1>26. CASE UNCHANGED vars
  BY <1>26 DEF vars, Still
<1>27. [XrpNext]_vars
  OBVIOUS
<1>28. ASSUME NEW t \in Threads, FreeQueue(t) PROVE \E a \in Actors : FreeQueue(a)
  BY <1>28
<1>29. ASSUME FreeQueue(Worker) PROVE \E a \in Actors : FreeQueue(a)
  BY <1>29
<1> HIDE DEF queueVars, reqVars, evVars, grpVars, devVars, ctlVars, objVars,
          HasEvent, AtWork
<1> QED
  BY ONLY <1>0, <1>1, <1>2, <1>3, <1>5, <1>6, <1>7, <1>8, <1>9, <1>11, <1>12,
          <1>13, <1>14, <1>15, <1>16, <1>18, <1>19, <1>24, <1>25, <1>26,
          <1>27, <1>28, <1>29
      DEF XrpNext, Call, ThreadStep, WorkerStep, Release, Finished

\* A request is on its way from its push to its end: nothing is published of it
\* early, nothing is run twice, and nothing is lost but with the queue.
LEMMA OutcomeStep ==
    ASSUME XrpInv, OutcomeInv, [XrpNext]_vars
    PROVE  OutcomeInv'
<1>0. /\ Worker \in Actors /\ Worker \notin Threads
      /\ \A t \in Threads : t \in Actors
  BY XrpQueueAssumption DEF Actors
<1> USE <1>0 DEF XrpInv, XrpTypes, DataTypes, ControlTypes, OutcomeInv, AtWork
<1>1. ASSUME NEW t \in Threads, NEW r \in Requests, NEW event \in BOOLEAN,
             NEW sync \in BOOLEAN, NEW group \in GroupArgs,
             Enqueue(t, r, event, group, sync)
      PROVE  OutcomeInv'
  <2>1. /\ phase[r] = "unused" /\ phase' = [phase EXCEPT ![r] = "prepared"]
        /\ pc'[Worker] = pc[Worker] /\ cur'[Worker] = cur[Worker]
        /\ UNCHANGED <<fifo, status, delivered, evStatus, qLife>>
    BY <1>1 DEF Enqueue
  <2>2. StatusPlaced' /\ AnsweredNotFailed'
    BY <2>1 DEF StatusPlaced, AnsweredNotFailed
  <2> QED
    BY <2>1, <2>2 DEF WorkerStatus, Placed
<1>2. ASSUME NEW t \in Threads, Push(t) PROVE OutcomeInv'
  <2>1. /\ cur[t] \in Requests /\ phase[cur[t]] = "prepared"
        /\ phase' = [phase EXCEPT ![cur[t]] = "queued"]
        /\ fifo' = Append(fifo, cur[t])
        /\ cur'[Worker] = cur[Worker]
        /\ UNCHANGED <<status, delivered, evStatus, qLife>>
    BY <1>2 DEF Push, ThreadsOwn, evVars
  <2>2. pc'[Worker] = pc[Worker] \/ (pc[Worker] = "sleep" /\ pc'[Worker] = "deq")
    <3>1. CASE PushBroadcasts
      BY <1>2, <3>1 DEF Push, WakeWorker
    <3>2. CASE ~PushBroadcasts
      BY <1>2, <3>2 DEF Push
    <3> QED
      BY <3>1, <3>2
  <2>3. StatusPlaced' /\ AnsweredNotFailed' /\ WorkerStatus'
    BY <2>1, <2>2 DEF StatusPlaced, AnsweredNotFailed, WorkerStatus
  <2>4. /\ Len(fifo') = Len(fifo) + 1 /\ Len(fifo) \in Nat
        /\ fifo'[Len(fifo) + 1] = cur[t]
        /\ \A i \in 1 .. Len(fifo) : fifo'[i] = fifo[i]
    BY <2>1
  <2>5. ASSUME NEW r \in Requests, phase'[r] = "queued"
        PROVE  \E i \in 1 .. Len(fifo') : fifo'[i] = r
    <3>1. CASE r = cur[t]
      BY <2>4, <3>1
    <3>2. CASE r /= cur[t]
      <4>1. phase[r] = "queued"
        BY <2>1, <2>5, <3>2
      <4>2. PICK i \in 1 .. Len(fifo) : fifo[i] = r
        BY <4>1 DEF Placed
      <4> QED
        BY <2>4, <4>2
    <3> QED
      BY <3>1, <3>2
  <2>6. \A r \in Requests :
           /\ phase'[r] = "running" => pc'[Worker] \in AtWork /\ cur'[Worker] = r
           /\ phase'[r] = "lost" => qLife' = "freed"
    BY <2>1, <2>2 DEF Placed
  <2> QED
    BY <2>3, <2>5, <2>6 DEF Placed
<1>3. CASE DropEvent(Worker)
  <2>1. /\ phase[cur[Worker]] = "signalled" /\ cur[Worker] \in Requests
        /\ phase' = [phase EXCEPT ![cur[Worker]] = "done"]
        /\ UNCHANGED <<fifo, delivered, evStatus, qLife>>
        /\ pc'[Worker] \notin AtWork /\ pc[Worker] = "relEvent"
    BY <1>3, WorkerDropsEvent DEF DropEvent
  <2>2. StatusPlaced' /\ AnsweredNotFailed'
    BY <2>1 DEF StatusPlaced, AnsweredNotFailed
  <2> QED
    BY <2>1, <2>2 DEF WorkerStatus, Placed
<1>4. ASSUME NEW a \in Actors, FreeQueue(a) PROVE OutcomeInv'
  <2>1. /\ phase' = [r \in Requests |-> IF phase[r] = "queued" THEN "lost" ELSE phase[r]]
        /\ qLife' = "freed" /\ cur' = cur
        /\ UNCHANGED <<status, delivered, evStatus>>
        /\ (pc'[Worker] = pc[Worker]
             \/ (pc[Worker] \notin AtWork /\ pc'[Worker] \notin AtWork))
    BY <1>4 DEF FreeQueue, AfterRelease, evVars
  <2>2. StatusPlaced' /\ AnsweredNotFailed'
    BY <2>1 DEF StatusPlaced, AnsweredNotFailed
  <2> QED
    BY <2>1, <2>2 DEF WorkerStatus, Placed
<1>5. CASE WorkerDequeue
  <2>1. CASE fifo = << >>
    <3>1. /\ UNCHANGED <<fifo, phase, status, delivered, evStatus, qLife>>
          /\ pc[Worker] = "deq" /\ pc'[Worker] \in {"dead", "sleep"}
      BY <1>5, <2>1 DEF WorkerDequeue, RequestTaken, evVars
    <3> QED
      BY <3>1 DEF StatusPlaced, AnsweredNotFailed, WorkerStatus, Placed
  <2>2. CASE fifo /= << >>
    <3> DEFINE h == Head(fifo)
    <3>1. /\ fifo' = Tail(fifo) /\ Len(fifo) >= 1
          /\ h = fifo[1] /\ h \in Requests /\ phase[h] = "queued"
          /\ phase' = [phase EXCEPT ![h] = "running"]
          /\ pc[Worker] = "deq" /\ pc'[Worker] = "run" /\ cur'[Worker] = h
          /\ UNCHANGED <<delivered, evStatus, qLife>>
      BY <1>5, <2>2 DEF WorkerDequeue, RequestTaken, Unlinked, ListSound, evVars
    <3> HIDE DEF h
    <3>2. StatusPlaced' /\ AnsweredNotFailed'
      BY <3>1 DEF StatusPlaced, AnsweredNotFailed
    <3>3. h \notin delivered
      BY <3>1 DEF StatusPlaced
    <3>4. ASSUME NEW r \in Requests, phase'[r] = "queued"
          PROVE  \E i \in 1 .. Len(fifo') : fifo'[i] = r
      <4>1. phase[r] = "queued" /\ r /= fifo[1]
        BY <3>1, <3>4
      <4>2. PICK i \in 1 .. Len(fifo) : fifo[i] = r
        BY <4>1 DEF Placed
      <4>3. i - 1 \in 1 .. Len(fifo') /\ fifo'[i - 1] = r
        BY <3>1, <4>1, <4>2
      <4> QED
        BY <4>3
    <3>5. \A r \in Requests :
             /\ phase'[r] = "running" => r = h
             /\ phase'[r] = "lost" => qLife' = "freed"
      BY <3>1 DEF Placed
    <3> QED
      BY <3>1, <3>2, <3>3, <3>4, <3>5 DEF WorkerStatus, Placed
  <2> QED
    BY <2>1, <2>2
<1>6. CASE RunCommand
  <2> DEFINE c == cur[Worker]
  <2>1. PICK ret \in CommandResults(c) :
           /\ status' = StatusOf(ret)
           /\ delivered' = IF ret = 0 THEN delivered \cup {c} ELSE delivered
    BY <1>6 DEF RunCommand
  <2>2. /\ pc[Worker] = "run" /\ pc'[Worker] = "relGroup" /\ cur' = cur
        /\ UNCHANGED <<fifo, phase, evStatus, qLife>>
        /\ c \in Requests /\ phase[c] = "running" /\ c \notin delivered
    BY <1>6 DEF RunCommand, queueVars, evVars, WorkerOwns, WorkerStatus
  <2> HIDE DEF c
  <2>3. StatusPlaced' /\ AnsweredNotFailed'
    BY <2>1, <2>2 DEF StatusPlaced, AnsweredNotFailed
  <2>4. c \in delivered' => status' = "SUCCESS"
    BY <2>1, <2>2 DEF StatusOf
  <2> QED
    BY <2>2, <2>3, <2>4 DEF WorkerStatus, Placed, c
<1>7. CASE RequestReleaseGroup
  <2> DEFINE c == cur[Worker]
  <2>1. /\ pc[Worker] = "relGroup" /\ c \in Requests /\ phase[c] = "running"
        /\ UNCHANGED <<fifo, status, delivered, evStatus, qLife>>
    BY <1>7 DEF RequestReleaseGroup, queueVars, evVars, WorkerOwns
  <2>2. \/ /\ phase' = phase /\ pc'[Worker] = "signal" /\ cur' = cur
        \/ /\ phase' = [phase EXCEPT ![c] = "done"] /\ pc'[Worker] = "next"
    BY <1>7 DEF RequestReleaseGroup
  <2>3. StatusPlaced' /\ AnsweredNotFailed'
    BY <2>1, <2>2 DEF StatusPlaced, AnsweredNotFailed
  <2>4. WorkerStatus'
    BY <2>1, <2>2 DEF WorkerStatus
  <2>5. Placed'
    BY <2>1, <2>2 DEF Placed
  <2> QED
    BY <2>3, <2>4, <2>5
<1>8. CASE Signal
  <2> DEFINE c == cur[Worker]
  <2>1. /\ pc[Worker] = "signal" /\ c \in Requests /\ phase[c] = "running"
        /\ UNCHANGED <<fifo, status, delivered, qLife>>
        /\ phase' = [phase EXCEPT ![c] = "signalled"]
        /\ evStatus' = [evStatus EXCEPT ![c] = status]
        /\ pc'[Worker] = "relEvent"
    BY <1>8 DEF Signal, queueVars, WorkerOwns, WakeWaiters
  <2>2. c \in delivered => status = "SUCCESS"
    BY <2>1 DEF WorkerStatus
  <2> HIDE DEF c
  <2>3. StatusPlaced'
    BY <2>1 DEF StatusPlaced
  <2>4. AnsweredNotFailed'
    BY <2>1, <2>2 DEF AnsweredNotFailed
  <2>5. WorkerStatus'
    BY <2>1 DEF WorkerStatus
  <2>6. Placed'
    BY <2>1 DEF Placed, c
  <2> QED
    BY <2>3, <2>4, <2>5, <2>6
<1>9. CASE Still
  <2>1. StatusPlaced' /\ AnsweredNotFailed'
    BY <1>9 DEF Still, StatusPlaced, AnsweredNotFailed
  <2>2. WorkerStatus'
    BY <1>9 DEF Still, WorkerStatus
  <2>3. Placed'
    BY <1>9 DEF Still, Placed
  <2> QED
    BY <2>1, <2>2, <2>3
<1> QED
  BY <1>1, <1>2, <1>3, <1>4, <1>5, <1>6, <1>7, <1>8, <1>9, OutcomeCases

\* Nothing has been enqueued.
LEMMA OutcomeInit ==
    ASSUME XrpInit PROVE OutcomeInv
BY XrpQueueAssumption
   DEF XrpInit, OutcomeInv, StatusPlaced, WorkerStatus, Placed, AnsweredNotFailed,
       Actors, AtWork

\* Where a request is, and what is known of its outcome there.
THEOREM OutcomeInvariant == XrpSpec => []OutcomeInv
<1>1. XrpInit => OutcomeInv
  BY OutcomeInit
<1>2. XrpInv /\ OutcomeInv /\ [XrpNext]_vars => OutcomeInv'
  BY OutcomeStep
<1> QED
  BY <1>1, <1>2, XrpInvariant, PTL DEF XrpSpec

\* A command the DSP has answered is not reported as failed, whatever the
\* worker did of other commands before.
THEOREM AnsweredNotFailedCorrect == XrpSpec => []AnsweredNotFailed
<1>1. OutcomeInv => AnsweredNotFailed
  BY DEF OutcomeInv
<1> QED
  BY <1>1, OutcomeInvariant, PTL

\* The status of an event is written by the worker that runs its request, which
\* it does once: what xrp_event_status has returned it returns ever after.
THEOREM SignalledOnceCorrect == XrpSpec => SignalledOnce
<1> DEFINE Once == \A r \in Requests : evStatus[r] /= "PENDING" => evStatus'[r] = evStatus[r]
<1>1. XrpInv /\ OutcomeInv /\ [XrpNext]_vars => [Once]_vars
  <2> SUFFICES ASSUME XrpInv, OutcomeInv, [XrpNext]_vars PROVE Once
    OBVIOUS
  <2>1. CASE Signal
    <3>1. /\ evStatus' = [evStatus EXCEPT ![cur[Worker]] = status]
          /\ phase[cur[Worker]] = "running" /\ cur[Worker] \in Requests
      BY <2>1 DEF Signal, XrpInv, WorkerOwns
    <3>2. evStatus[cur[Worker]] = "PENDING"
      BY <3>1 DEF OutcomeInv, StatusPlaced
    <3> QED
      BY <3>1, <3>2 DEF XrpInv, XrpTypes, DataTypes
  <2>2. CASE ~Signal
    <3>1. evStatus' = evStatus
      BY <2>2, OutcomeCases
         DEF Enqueue, Push, DropEvent, FreeQueue, WorkerDequeue, RunCommand,
             RequestReleaseGroup, Still, evVars
    <3> QED
      BY <3>1
  <2> QED
    BY <2>1, <2>2
<1> QED
  BY <1>1, XrpInvariant, OutcomeInvariant, PTL DEF XrpSpec, SignalledOnce

-----------------------------------------------------------------------------
(***************************************************************************)
(* The queue implements the ordered channel, step by step.                 *)
(***************************************************************************)
Running == InPhase({"running"})
Ended == InPhase({"signalled", "done"})
Tracked == {r \in Requests : HasEvent(r) /\ phase[r] \notin {"unused", "prepared"}}

\* The list and the phases agree.
LEMMA PendingIsQueued ==
    ASSUME XrpInv, OutcomeInv
    PROVE  Channel!PendingSet = InPhase({"queued"})
<1> USE DEF XrpInv, XrpTypes, DataTypes, OutcomeInv
<1>1. \A r : r \in Channel!PendingSet <=> \E i \in 1 .. Len(fifo) : fifo[i] = r
  BY DEF Channel!PendingSet
<1>2. \A i \in 1 .. Len(fifo) : fifo[i] \in Requests /\ phase[fifo[i]] = "queued"
  BY DEF ListSound
<1> QED
  BY <1>1, <1>2 DEF Placed, InPhase

\* A command that changes its phase is nowhere else.
LEMMA AcceptedPhases ==
    ASSUME XrpInv, OutcomeInv
    PROVE  Channel!Accepted = {r \in Requests : phase[r] \notin {"unused", "prepared"}}
BY PendingIsQueued DEF Channel!Accepted, InPhase, XrpInv, XrpTypes, DataTypes, Phases

\* The worker has one request at a time.
LEMMA OneRunning ==
    ASSUME XrpInv, OutcomeInv
    PROVE  /\ pc[Worker] \notin AtWork => Running = {}
           /\ cur[Worker] \in Requests /\ phase[cur[Worker]] = "running"
                 => Running = {cur[Worker]}
BY DEF OutcomeInv, Placed, Running, InPhase

\* A step that leaves the requests where they are leaves the channel.
LEMMA StillChannel ==
    ASSUME XrpInv, Still
    PROVE  UNCHANGED Channel!cvars
<1>1. fifo' = fifo /\ phase' = phase
  BY DEF Still
<1>2. /\ InPhase({"running"})' = InPhase({"running"})
      /\ InPhase({"signalled", "done"})' = InPhase({"signalled", "done"})
      /\ InPhase({"lost"})' = InPhase({"lost"})
  BY <1>1 DEF InPhase
<1>3. Tracked' = Tracked
  BY <1>1 DEF Tracked, Still
<1>4. (qLife = "freed")' = (qLife = "freed")
  BY DEF Still
<1> QED
  BY <1>1, <1>2, <1>3, <1>4 DEF Channel!cvars, Tracked

\* xrp_queue_push submits the request, tracked if it has an event.
LEMMA PushSubmits ==
    ASSUME XrpInv, OutcomeInv, NEW t \in Threads, Push(t)
    PROVE  Channel!Submit(cur[t], HasEvent(cur[t]))
<1> DEFINE c == cur[t]
<1> USE DEF XrpInv, XrpTypes, DataTypes
<1>1. /\ c \in Requests /\ phase[c] = "prepared" /\ t \in holdsQ
      /\ phase' = [phase EXCEPT ![c] = "queued"] /\ fifo' = Append(fifo, c)
      /\ qLife' = qLife /\ evLife' = evLife
  BY DEF Push, ThreadsOwn, evVars
<1>2. qLife = "live"
  BY <1>1 DEF TearDown, QueueRefs
<1>3. c \notin Channel!Accepted
  BY <1>1, AcceptedPhases
<1> HIDE DEF c
<1>4. /\ InPhase({"running"})' = InPhase({"running"})
      /\ InPhase({"signalled", "done"})' = InPhase({"signalled", "done"})
      /\ InPhase({"lost"})' = InPhase({"lost"})
  BY <1>1 DEF InPhase
<1>5. Tracked' = IF HasEvent(c) THEN Tracked \cup {c} ELSE Tracked
  BY <1>1 DEF Tracked, HasEvent
<1>6. Channel!Submit(c, HasEvent(c))
  BY <1>1, <1>2, <1>3, <1>4, <1>5 DEF Channel!Submit, Tracked
<1> QED
  BY <1>6 DEF c

\* xrp_dequeue_request begins the oldest request.
LEMMA DequeueBegins ==
    ASSUME XrpInv, OutcomeInv, WorkerDequeue, fifo /= << >>
    PROVE  Channel!Begin
<1> DEFINE h == Head(fifo)
<1> USE DEF XrpInv, XrpTypes, DataTypes
<1>1. /\ fifo' = Tail(fifo) /\ Len(fifo) >= 1 /\ h = fifo[1] /\ h \in Requests
      /\ phase[h] = "queued" /\ phase' = [phase EXCEPT ![h] = "running"]
      /\ pc[Worker] = "deq" /\ qLife' = qLife /\ evLife' = evLife
  BY DEF WorkerDequeue, RequestTaken, Unlinked, ListSound, evVars
<1>2. qLife /= "freed"
  BY <1>1 DEF TearDown
<1>3. Running = {}
  BY <1>1, OneRunning DEF AtWork
<1> HIDE DEF h
<1>4. /\ InPhase({"running"})' = {h}
      /\ InPhase({"signalled", "done"})' = InPhase({"signalled", "done"})
      /\ InPhase({"lost"})' = InPhase({"lost"})
  BY <1>1, <1>3 DEF InPhase, Running
<1>5. Tracked' = Tracked
  BY <1>1 DEF Tracked, HasEvent
<1> QED
  BY <1>1, <1>2, <1>3, <1>4, <1>5 DEF Channel!Begin, Tracked, Running, h

\* A request that leaves the worker's hands is finished.
LEMMA EndFinishes ==
    ASSUME XrpInv, OutcomeInv, NEW c \in Requests, NEW end \in {"signalled", "done"},
           c = cur[Worker], phase[c] = "running",
           phase' = [phase EXCEPT ![c] = end],
           UNCHANGED <<fifo, qLife, evLife>>
    PROVE  Channel!Finish
<1> USE DEF XrpInv, XrpTypes, DataTypes
<1>1. Running = {c}
  BY OneRunning
<1>2. InPhase({"running"})' = {}
  BY <1>1 DEF InPhase, Running
<1>3. Ended' = Ended \cup {c} /\ InPhase({"lost"})' = InPhase({"lost"})
  BY DEF InPhase, Ended
<1>4. Tracked' = Tracked
  BY DEF Tracked, HasEvent
<1> QED
  BY <1>1, <1>2, <1>3, <1>4 DEF Channel!Finish, Tracked, Running, Ended

\* The end of xrp_release_queue closes the channel, and abandons no request
\* that has an event: its event would still own the queue.
LEMMA FreeCloses ==
    ASSUME XrpInv, OutcomeInv, NEW a \in Actors, FreeQueue(a)
    PROVE  Channel!Close
<1> USE DEF XrpInv, XrpTypes, DataTypes, ControlTypes
<1>1. /\ qLife = "live" /\ QueueRefs = {} /\ pc[a] = "free"
  BY DEF FreeQueue, TearDown, Tearing
<1>2. pc[Worker] \notin AtWork
  BY <1>1 DEF TearDown, Actors, AtWork
<1>3. Running = {}
  BY <1>2, OneRunning
<1>4. Channel!PendingSet \cap Tracked = {}
  <2>1. ASSUME NEW r \in Requests, phase[r] = "queued", HasEvent(r) PROVE FALSE
    <3>1. OwnsEvent(r)
      BY <2>1 DEF OwnsEvent
    <3>2. evLife[r] = "live"
      BY <3>1 DEF EventsOwned
    <3> QED
      BY <1>1, <3>2 DEF QueueRefs, OwnsQueue
  <2> QED
    BY <2>1, PendingIsQueued DEF InPhase, Tracked
<1>5. /\ qLife' = "freed" /\ fifo' = << >> /\ evLife' = evLife
      /\ phase' = [r \in Requests |-> IF phase[r] = "queued" THEN "lost" ELSE phase[r]]
  BY DEF FreeQueue, evVars
<1>6. InPhase({"lost"})' = InPhase({"queued"})
  BY <1>1, <1>5 DEF OutcomeInv, Placed, InPhase
<1>7. /\ InPhase({"running"})' = InPhase({"running"})
      /\ InPhase({"signalled", "done"})' = InPhase({"signalled", "done"})
  BY <1>5 DEF InPhase
<1>8. Tracked' = Tracked
  BY <1>5 DEF Tracked, HasEvent
<1> QED
  BY <1>1, <1>3, <1>4, <1>5, <1>6, <1>7, <1>8, PendingIsQueued
     DEF Channel!Close, Tracked, Running

\* Every step of the queue, its callers and its worker is a step of the
\* channel or leaves it as it is.
LEMMA ChannelStep ==
    ASSUME XrpInv, OutcomeInv, [XrpNext]_vars
    PROVE  [Channel!ChannelNext]_Channel!cvars
<1> USE DEF XrpInv, XrpTypes, DataTypes
<1>1. ASSUME NEW t \in Threads, NEW r \in Requests, NEW event \in BOOLEAN,
             NEW sync \in BOOLEAN, NEW group \in GroupArgs,
             Enqueue(t, r, event, group, sync)
      PROVE  UNCHANGED Channel!cvars
  <2>1. /\ phase[r] = "unused" /\ phase' = [phase EXCEPT ![r] = "prepared"]
        /\ evLife' = evLife \/ evLife' = [evLife EXCEPT ![r] = "live"]
        /\ UNCHANGED <<fifo, qLife>>
    BY <1>1 DEF Enqueue
  <2>2. /\ InPhase({"running"})' = InPhase({"running"})
        /\ InPhase({"signalled", "done"})' = InPhase({"signalled", "done"})
        /\ InPhase({"lost"})' = InPhase({"lost"})
    BY <2>1 DEF InPhase
  <2>3. Tracked' = Tracked
    BY <2>1 DEF Tracked, HasEvent
  <2> QED
    BY <2>1, <2>2, <2>3 DEF Channel!cvars, Tracked
<1>2. ASSUME NEW t \in Threads, Push(t) PROVE Channel!ChannelNext
  <2>1. cur[t] \in Requests
    BY <1>2 DEF Push, ThreadsOwn
  <2>2. Channel!Submit(cur[t], HasEvent(cur[t]))
    BY <1>2, PushSubmits
  <2>3. Channel!Submit(cur[t], TRUE) \/ Channel!Submit(cur[t], FALSE)
    BY <2>2 DEF Channel!Submit
  <2> QED
    BY <2>1, <2>3 DEF Channel!ChannelNext
<1>3. CASE DropEvent(Worker)
  <2>1. /\ phase[cur[Worker]] = "signalled" /\ cur[Worker] \in Requests
        /\ phase' = [phase EXCEPT ![cur[Worker]] = "done"]
        /\ UNCHANGED <<fifo, qLife>>
        /\ \A r \in Requests : HasEvent(r)' <=> HasEvent(r)
    BY <1>3, WorkerDropsEvent
  <2>2. /\ InPhase({"running"})' = InPhase({"running"})
        /\ InPhase({"signalled", "done"})' = InPhase({"signalled", "done"})
        /\ InPhase({"lost"})' = InPhase({"lost"})
    BY <2>1 DEF InPhase
  <2>3. Tracked' = Tracked
    BY <2>1 DEF Tracked
  <2> QED
    BY <2>1, <2>2, <2>3 DEF Channel!cvars, Tracked
<1>4. ASSUME NEW a \in Actors, FreeQueue(a) PROVE Channel!ChannelNext
  BY <1>4, FreeCloses DEF Channel!ChannelNext
<1>5. CASE WorkerDequeue
  <2>1. CASE fifo /= << >>
    BY <1>5, <2>1, DequeueBegins DEF Channel!ChannelNext
  <2>2. CASE fifo = << >>
    <3>1. UNCHANGED <<fifo, phase, qLife, evLife>>
      BY <1>5, <2>2 DEF WorkerDequeue, RequestTaken, evVars
    <3> QED
      BY <3>1 DEF Channel!cvars, InPhase, HasEvent
  <2> QED
    BY <2>1, <2>2
<1>6. CASE RunCommand
  BY <1>6 DEF RunCommand, queueVars, evVars, Channel!cvars, InPhase, HasEvent
<1>7. CASE RequestReleaseGroup
  <2>1. /\ cur[Worker] \in Requests /\ phase[cur[Worker]] = "running"
        /\ UNCHANGED <<fifo, qLife, evLife>>
        /\ phase' = phase \/ phase' = [phase EXCEPT ![cur[Worker]] = "done"]
    BY <1>7 DEF RequestReleaseGroup, queueVars, evVars, WorkerOwns
  <2>2. CASE phase' = phase
    BY <2>1, <2>2 DEF Channel!cvars, InPhase, HasEvent
  <2>3. CASE phase' = [phase EXCEPT ![cur[Worker]] = "done"]
    <3>1. Channel!Finish
      BY <2>1, <2>3, EndFinishes
    <3> QED
      BY <3>1 DEF Channel!ChannelNext
  <2> QED
    BY <2>1, <2>2, <2>3
<1>8. CASE Signal
  <2>1. /\ cur[Worker] \in Requests /\ phase[cur[Worker]] = "running"
        /\ UNCHANGED <<fifo, qLife, evLife>>
        /\ phase' = [phase EXCEPT ![cur[Worker]] = "signalled"]
    BY <1>8 DEF Signal, queueVars, WorkerOwns
  <2>2. Channel!Finish
    BY <2>1, EndFinishes
  <2> QED
    BY <2>2 DEF Channel!ChannelNext
<1>9. CASE Still
  BY <1>9, StillChannel
<1> QED
  BY <1>1, <1>2, <1>3, <1>4, <1>5, <1>6, <1>7, <1>8, <1>9, OutcomeCases

\* The safety half of ImplementsOrderedChannel: commands are carried out in the
\* order of their acceptance, one at a time, each once, and a queue is never
\* torn down under a command somebody may wait for.
THEOREM QueueImplementsChannel == XrpSpec => Channel!ChannelSafety
<1>1. XrpInit => Channel!ChannelInit
  BY DEF XrpInit, Channel!ChannelInit, InPhase, HasEvent
<1>2. XrpInv /\ OutcomeInv /\ [XrpNext]_vars => [Channel!ChannelNext]_Channel!cvars
  BY ChannelStep
<1> QED
  BY <1>1, <1>2, XrpInvariant, OutcomeInvariant, PTL DEF XrpSpec, Channel!ChannelSafety

=============================================================================
