-------------------------- MODULE VdspServerClient --------------------------
(***************************************************************************)
(* The by-server half of the client library                                *)
(* (vdsp-interface/vdsp_server_interface.cpp): the process-wide state that *)
(* lets many handles of many threads share one connection to the vdsp HIDL *)
(* service and one open device there, the service dying and coming back,   *)
(* and the generation numbers that tell handles of different services      *)
(* apart.                                                                  *)
(*                                                                         *)
(* Every section of the code under gLock is two steps: one that takes      *)
(* gLock, and one that does what the section does and unlocks.  The calls  *)
(* openXrpDevice and closeXrpDevice, made with gLock held, end a step of   *)
(* their section.  An unlock frees gLock whoever holds it.  When one does  *)
(* so under another thread (see CloseUnlock2) the behaviour ends: what two *)
(* threads inside do to plain variables is undefined.  The constants of    *)
(* the environment say what the callers and the service may do.            *)
(***************************************************************************)
EXTENDS Integers, FiniteSets

CONSTANTS Threads,      \* threads of the client process
          Handles,      \* struct vdsp_handle objects of the callers
          NoThread,     \* gLock is free
          BinderThread, \* the thread that delivers death notices
          NoHandle,     \* the thread is not in a call
          WorkTypes,    \* sprd_vdsp_worktype values
          MaxType,      \* SPRD_VDSP_WORK_MAXTYPE
          Kinds,        \* the command functions the run calls
          FdCount,      \* USE_FD_MAX_NUM
          \* the environment
          MaxDeaths,    \* how often the service dies
          CountDepth,   \* callers stop closing at gOpenedCount = -CountDepth
          Overlap,      \* which opens and closes of callers overlap: "none",
                        \* "alike" (opens with opens of the same work type,
                        \* closes with closes), "any"
          CloseBusy,    \* callers close handles other threads are using
          OpenFails,    \* openXrpDevice and the building of parameters may fail
          CloseFails,   \* closeXrpDevice may fail
          NullBinderOk  \* openXrpDevice accepts a NULL client binder

ASSUME VdspAssumption ==
    /\ IsFiniteSet(Threads) /\ IsFiniteSet(Handles)
    /\ {NoThread, BinderThread} \cap Threads = {} /\ NoThread /= BinderThread
    /\ NoHandle \notin Handles
    /\ MaxType \notin WorkTypes
    /\ Kinds \subseteq {"send", "load", "unload", "power"}
    /\ FdCount \in Nat \ {0}
    /\ MaxDeaths \in Nat /\ CountDepth \in Nat
    /\ Overlap \in {"none", "alike", "any"}
    /\ {CloseBusy, OpenFails, CloseFails, NullBinderOk} \subseteq BOOLEAN

Fds == 0 .. FdCount - 1
NoFd == -1
NoGeneration == -1   \* 0xffffffff
NoService == 0

VARIABLES
    gInitFlag, gGeneration,
    gLock,          \* who has locked it
    inside,         \* the threads between a lock of gLock and its unlock
    gOpenedCount, gWorkType, gWorking,
    gVdspService,   \* the service process the proxy was got from, or NoService
    gfakeBinder,    \* the one gfakeBinder was made for, or NoService
    working,        \* g_FdInfo[fd].working
    g_fdtable,      \* the descriptors whose bit is set
    handle,         \* the fd and the generation of each vdsp_handle
    opened,         \* handles whose owner was told they are open
    server,         \* the service process each of them was opened on
    svc,            \* the running service process, or NoService
    svcCount,       \* service processes started so far
    svcOpen,        \* whether the running service has the device open
    linked,         \* the service process whose death will be reported
    deathNotes,     \* deaths on their way to serviceDied
    pc, hdl,        \* per thread: control point, handle of the call,
    cs, fd, gen,    \* the locals cs, fd and generation,
    arg,            \* the work type to open or the kind of the command,
    table           \* and the g_fdtable it has read and will write back

sharedVars == <<gInitFlag, gGeneration, gOpenedCount, gWorkType, gVdspService,
                gfakeBinder>>
lockVars   == <<gLock, inside>>
fdVars     == <<g_fdtable, handle, opened, server>>
workVars   == <<gWorking, working>>
svcVars    == <<svc, svcCount, svcOpen, linked, deathNotes>>
localVars  == <<pc, hdl, cs, fd, gen, arg, table>>
vars == <<sharedVars, lockVars, fdVars, workVars, svcVars, localVars>>

OpenPCs   == {"open_get", "open_lock", "open_ipc", "open_err", "open_free"}
ClosePCs  == {"close_get", "close_lock", "close_unlock2", "close_ipc"}
PCs == {"idle", "cmd_get", "cmd_lock", "cmd_ipc"} \cup OpenPCs \cup ClosePCs

\* Where a call stands at a gLock.lock(), or after it.
LockPCs == {"open_lock", "close_lock", "cmd_lock", "cmd_ipc"}

Users(h) == {t \in Threads : hdl[t] = h}
InFlight == {t \in Threads : pc[t] = "cmd_ipc"}

VdspInit ==
    /\ gInitFlag = FALSE /\ gGeneration = 0
    /\ gLock = NoThread /\ inside = {}
    /\ gOpenedCount = 0 /\ gWorkType = MaxType /\ gWorking = 0
    /\ gVdspService = NoService /\ gfakeBinder = NoService
    /\ working = [f \in Fds |-> 0]
    /\ g_fdtable = {}
    /\ handle = [h \in Handles |-> [fd |-> NoFd, generation |-> NoGeneration]]
    /\ opened = {}
    /\ server = [h \in Handles |-> NoService]
    /\ svc = 1 /\ svcCount = 1 /\ svcOpen = FALSE
    /\ linked = NoService /\ deathNotes = 0
    /\ pc = [t \in Threads |-> "idle"]
    /\ hdl = [t \in Threads |-> NoHandle]
    /\ cs = [t \in Threads |-> NoService]
    /\ fd = [t \in Threads |-> NoFd]
    /\ gen = [t \in Threads |-> NoGeneration]
    /\ arg = [t \in Threads |-> MaxType]
    /\ table = [t \in Threads |-> {}]

-----------------------------------------------------------------------------
(***************************************************************************)
(* Descriptors.                                                            *)
(***************************************************************************)

AllocUntested(bits) == 0  \* mutant: the bit is not tested
AllocOnePast(bits) ==     \* mutant: i <= USE_FD_MAX_NUM
    CHOOSE f \in (0 .. FdCount) \ bits :
        \A other \in (0 .. FdCount) \ bits : f <= other

\* Alloc_Fd: the lowest clear bit, NoFd when all are set.
Alloc_Fd(bits) ==
    LET free == Fds \ bits
    IN  IF free = {} THEN NoFd
        ELSE CHOOSE f \in free : \A other \in free : f <= other

FreeOthers(bits, f) == bits \cap {f}  \* mutant: the mask is not inverted

\* Free_Fd: the table without f; a clear bit stays as it is.
Free_Fd(bits, f) == bits \ {f}

\* Check_FdValid: 0 in the code.
Check_FdValid(f) == f \in g_fdtable

AnyGeneration(g) == TRUE  \* mutant

\* Check_GenrationValid.
Check_GenrationValid(g) == g = gGeneration

-----------------------------------------------------------------------------
(***************************************************************************)
(* gLock.                                                                  *)
(***************************************************************************)

\* Whoever is between a lock and its unlock holds gLock.
Exclusive == \A t \in inside : gLock = t

\* gLock.lock(), or the constructor of an AutoMutex.
LockFor(t) ==
    /\ gLock = NoThread
    /\ gLock' = t
    /\ inside' = inside \cup {t}

KeepLock == gLock  \* mutant: a return without the unlock

\* gLock.unlock() frees the mutex, whoever holds it.
Unlocked == NoThread

\* The unlock at the end of a section.
Unlock(t) ==
    /\ gLock' = Unlocked
    /\ inside' = inside \ {t}

LockGivenUp == NoThread  \* mutant: unlocked before the call

\* openXrpDevice and closeXrpDevice are called inside the section.
LockDuringIpc == gLock

\* A call waits for gLock and gets it.  An open and a close work on the
\* g_fdtable of that moment: an unlocked Free_Fd may write it meanwhile.
Lock(t) ==
    /\ pc[t] \in LockPCs /\ t \notin inside
    /\ LockFor(t)
    /\ table' = IF pc[t] \in {"open_lock", "close_lock"}
                THEN [table EXCEPT ![t] = g_fdtable] ELSE table
    /\ UNCHANGED <<sharedVars, fdVars, workVars, svcVars, pc, hdl, cs, fd, gen, arg>>

\* In the section of a call that stands at where.
Section(t, where) == pc[t] = where /\ t \in inside

-----------------------------------------------------------------------------
(***************************************************************************)
(* The service process and its death, reported on a binder thread.         *)
(***************************************************************************)

ServiceDies ==
    /\ svc /= NoService
    /\ svcCount <= MaxDeaths
    /\ svc' = NoService
    /\ svcOpen' = FALSE
    /\ deathNotes' = IF linked = svc THEN deathNotes + 1 ELSE deathNotes
    /\ linked' = NoService
    /\ UNCHANGED <<sharedVars, lockVars, fdVars, workVars, svcCount, localVars>>

ServiceStarts ==
    /\ svc = NoService
    /\ svc' = svcCount + 1
    /\ svcCount' = svcCount + 1
    /\ UNCHANGED <<sharedVars, lockVars, fdVars, workVars, svcOpen, linked,
                   deathNotes, localVars>>

\* VdspClientDeathRecipient::serviceDied takes gLock.
DeathNotice ==
    /\ deathNotes > 0 /\ BinderThread \notin inside
    /\ LockFor(BinderThread)
    /\ UNCHANGED <<sharedVars, fdVars, workVars, svcVars, localVars>>

\* Its section: the proxy and the tables stay.
serviceDied ==
    /\ BinderThread \in inside
    /\ deathNotes' = deathNotes - 1
    /\ gInitFlag' = FALSE
    /\ gGeneration' = gGeneration + 1
    /\ Unlock(BinderThread)
    /\ UNCHANGED <<gOpenedCount, gWorkType, gVdspService, gfakeBinder,
                   fdVars, workVars, svc, svcCount, svcOpen, linked, localVars>>

-----------------------------------------------------------------------------
(***************************************************************************)
(* What every call does: it locks gLock for getVdspService, and goes on    *)
(* with the proxy it was given.                                            *)
(***************************************************************************)

\* Back to the caller: the locals of a call that returned are reset.
Return(t) ==
    /\ pc' = [pc EXCEPT ![t] = "idle"]
    /\ hdl' = [hdl EXCEPT ![t] = NoHandle]
    /\ cs' = [cs EXCEPT ![t] = NoService]
    /\ fd' = [fd EXCEPT ![t] = NoFd]
    /\ gen' = [gen EXCEPT ![t] = NoGeneration]
    /\ arg' = [arg EXCEPT ![t] = MaxType]
    /\ table' = [table EXCEPT ![t] = {}]

\* Control moves on inside the call of t, and nothing else of t changes.
Goto(t, where) ==
    /\ pc' = [pc EXCEPT ![t] = where]
    /\ UNCHANGED <<hdl, cs, gen, arg, table>>

\* A call on handle h of thread t, of the work type or the kind what, enters
\* getVdspService.  The open of h is the first call that uses it.
Enter(t, h, where, what) ==
    /\ pc[t] = "idle"
    /\ LockFor(t)
    /\ pc' = [pc EXCEPT ![t] = where]
    /\ hdl' = [hdl EXCEPT ![t] = h]
    /\ arg' = [arg EXCEPT ![t] = what]
    /\ IF where = "open_get" THEN UNCHANGED <<fd, gen>>
       ELSE /\ fd' = [fd EXCEPT ![t] = handle[h].fd]
            /\ gen' = [gen EXCEPT ![t] = handle[h].generation]
    /\ UNCHANGED <<sharedVars, fdVars, workVars, svcVars, cs, table>>

\* getVdspService returns; without a proxy the call is SPRD_VDSP_RESULT_FAIL.
Got(t, where) ==
    /\ Unlock(t)
    /\ IF gVdspService' = NoService THEN Return(t)
       ELSE /\ cs' = [cs EXCEPT ![t] = gVdspService']
            /\ pc' = [pc EXCEPT ![t] = where]
            /\ UNCHANGED <<hdl, fd, gen, arg, table>>

-----------------------------------------------------------------------------
(***************************************************************************)
(* sprd_vdsp_open_device_serv.                                             *)
(***************************************************************************)

\* The callers' discipline: what an open or a close may overlap.
MayOverlap(same, other) ==
    \A u \in Threads :
        /\ Overlap /= "any" => pc[u] \notin other
        /\ Overlap = "none" => pc[u] \notin same

OpenEnter(t, h, type) ==
    /\ MayOverlap(OpenPCs, ClosePCs)
    /\ Overlap = "alike" => \A u \in Threads : pc[u] \in OpenPCs => arg[u] = type
    /\ h \notin opened /\ Users(h) = {}
    /\ Enter(t, h, "open_get", type)

\* The new connection of getVdspService(1): everything but gWorking,
\* gGeneration and the lock starts afresh.
Connect ==
    /\ gInitFlag' = TRUE
    /\ gVdspService' = svc /\ gfakeBinder' = svc
    /\ linked' = svc
    /\ g_fdtable' = {}
    /\ gWorkType' = MaxType
    /\ working' = [f \in Fds |-> 0]
    /\ gOpenedCount' = 0

\* getVdspService(1).  Without a service the proxy of an earlier connection is
\* returned, if there is one.
OpenGet(t) ==
    /\ Section(t, "open_get")
    /\ IF ~gInitFlag /\ svc /= NoService
       THEN Connect
       ELSE UNCHANGED <<gInitFlag, gVdspService, gfakeBinder, linked, g_fdtable,
                        gWorkType, working, gOpenedCount>>
    /\ Got(t, "open_lock")
    /\ UNCHANGED <<gGeneration, handle, opened, server, gWorking, svc, svcCount,
                   svcOpen, deathNotes>>

\* The descriptor the section of an open is given.
NewFd(t) == Alloc_Fd(table[t])

\* The table is full: handle->fd and handle->generation are the bad values.
OpenNoFd(t) ==
    /\ Section(t, "open_lock")
    /\ NewFd(t) = NoFd
    /\ handle' = [handle EXCEPT ![hdl[t]] =
                    [fd |-> NoFd, generation |-> NoGeneration]]
    /\ Unlock(t)
    /\ Return(t)
    /\ UNCHANGED <<sharedVars, g_fdtable, opened, server, workVars, svcVars>>

\* The handle is given a descriptor and the current generation.
SetHandle(t) ==
    handle' = [handle EXCEPT ![hdl[t]] =
                 [fd |-> NewFd(t), generation |-> gGeneration]]

\* The owner of the handle is told that it is open, on the given service.
ReportOpen(t, on) ==
    /\ opened' = opened \cup {hdl[t]}
    /\ server' = [server EXCEPT ![hdl[t]] = on]

\* The first handle calls openXrpDevice with gLock held.
OpenFirst(t) ==
    /\ Section(t, "open_lock")
    /\ NewFd(t) /= NoFd /\ gOpenedCount = 0
    /\ SetHandle(t)
    /\ g_fdtable' = table[t] \cup {NewFd(t)}
    /\ fd' = [fd EXCEPT ![t] = NewFd(t)]
    /\ gLock' = LockDuringIpc
    /\ Goto(t, "open_ipc")
    /\ UNCHANGED <<sharedVars, inside, opened, server, workVars, svcVars>>

\* Another handle of the type the device is open for, counted with the others
\* of the connection.
OpenMore(t) ==
    /\ Section(t, "open_lock")
    /\ NewFd(t) /= NoFd /\ gOpenedCount /= 0 /\ arg[t] = gWorkType
    /\ SetHandle(t)
    /\ g_fdtable' = table[t] \cup {NewFd(t)}
    /\ gOpenedCount' = gOpenedCount + 1
    /\ ReportOpen(t, gVdspService)
    /\ Unlock(t)
    /\ Return(t)
    /\ UNCHANGED <<gInitFlag, gGeneration, gWorkType, gVdspService, gfakeBinder,
                   workVars, svcVars>>

\* A handle of another type is refused: its descriptor is freed here, and once
\* more at __openerror.
OpenMismatch(t) ==
    /\ Section(t, "open_lock")
    /\ NewFd(t) /= NoFd /\ gOpenedCount /= 0 /\ arg[t] /= gWorkType
    /\ SetHandle(t)
    /\ g_fdtable' = table[t]
    /\ fd' = [fd EXCEPT ![t] = NewFd(t)]
    /\ Unlock(t)
    /\ Goto(t, "open_err")
    /\ UNCHANGED <<sharedVars, opened, server, workVars, svcVars>>

\* What the service needs to open the device: it is alive, and the client's
\* binder has not been cleared since getVdspService.
CanOpen(t) == cs[t] = svc /\ (gfakeBinder /= NoService \/ NullBinderOk)

\* openXrpDevice returns; a service that could open the device may still fail.
OpenIpcOk(t) ==
    /\ pc[t] = "open_ipc"
    /\ CanOpen(t)
    /\ svcOpen' = TRUE
    /\ gOpenedCount' = gOpenedCount + 1
    /\ gWorkType' = arg[t]
    /\ ReportOpen(t, cs[t])
    /\ Unlock(t)
    /\ Return(t)
    /\ UNCHANGED <<gInitFlag, gGeneration, gVdspService, gfakeBinder, g_fdtable,
                   handle, workVars, svc, svcCount, linked, deathNotes>>

OpenIpcFail(t) ==
    /\ pc[t] = "open_ipc"
    /\ ~CanOpen(t) \/ OpenFails
    /\ Unlock(t)
    /\ fd' = fd
    /\ Goto(t, "open_err")
    /\ UNCHANGED <<sharedVars, fdVars, workVars, svcVars>>

\* __openerror: Free_Fd without gLock, read and write of g_fdtable apart.
\* Descriptor 0 is not freed.
OpenErr(t) ==
    /\ pc[t] = "open_err"
    /\ IF fd[t] > 0
       THEN /\ pc' = [pc EXCEPT ![t] = "open_free"]
            /\ table' = [table EXCEPT ![t] = g_fdtable]
            /\ UNCHANGED <<hdl, cs, fd, gen, arg>>
       ELSE Return(t)
    /\ UNCHANGED <<sharedVars, lockVars, fdVars, workVars, svcVars>>

OpenFree(t) ==
    /\ pc[t] = "open_free"
    /\ g_fdtable' = IF fd[t] \in table[t] THEN Free_Fd(table[t], fd[t])
                    ELSE g_fdtable
    /\ Return(t)
    /\ UNCHANGED <<sharedVars, lockVars, handle, opened, server, workVars, svcVars>>

-----------------------------------------------------------------------------
(***************************************************************************)
(* sprd_vdsp_close_device_serv.  A caller told SUCCESS or OLD_GENERATION   *)
(* gives the handle up; one told FAIL still has it and may close it again. *)
(***************************************************************************)

CloseEnter(t, h) ==
    /\ MayOverlap(ClosePCs, OpenPCs)
    /\ h \in opened
    /\ CloseBusy \/ Users(h) = {}
    /\ gOpenedCount > -CountDepth
    /\ Enter(t, h, "close_get", MaxType)

\* getVdspService(0) returns the proxy as it is.
CloseGet(t) ==
    /\ Section(t, "close_get")
    /\ UNCHANGED <<sharedVars, fdVars, workVars, svcVars>>
    /\ Got(t, "close_lock")

\* Of another generation: gLock is unlocked by hand and, as the AutoMutex goes
\* out of scope, once more.
CloseOldGeneration(t) ==
    /\ Section(t, "close_lock")
    /\ ~Check_GenrationValid(gen[t])
    /\ fd' = fd
    /\ Unlock(t)
    /\ Goto(t, "close_unlock2")
    /\ UNCHANGED <<sharedVars, fdVars, workVars, svcVars>>

CloseUnlock2(t) ==
    /\ pc[t] = "close_unlock2"
    /\ gLock' = Unlocked
    /\ opened' = opened \ {hdl[t]}
    /\ Return(t)
    /\ UNCHANGED <<sharedVars, inside, g_fdtable, handle, server, workVars, svcVars>>

\* The descriptor is not allocated: SPRD_VDSP_RESULT_FAIL.
CloseBadFd(t) ==
    /\ Section(t, "close_lock")
    /\ Check_GenrationValid(gen[t]) /\ fd[t] \notin table[t]
    /\ Unlock(t)
    /\ Return(t)
    /\ UNCHANGED <<sharedVars, fdVars, workVars, svcVars>>

CloseUncounted(t) ==  \* mutant
    /\ Section(t, "close_lock")
    /\ Check_GenrationValid(gen[t]) /\ fd[t] \in table[t]
    /\ UNCHANGED sharedVars

\* The handle is one of this connection: one handle fewer is open.
CloseAccepted(t) ==
    /\ Section(t, "close_lock")
    /\ Check_GenrationValid(gen[t]) /\ fd[t] \in table[t]
    /\ gOpenedCount' = gOpenedCount - 1
    /\ UNCHANGED <<gInitFlag, gGeneration, gWorkType, gVdspService, gfakeBinder>>

\* What keeps a handle from being closed: any command when it is the last one,
\* its own commands otherwise.  The count has been decremented all the same.
NeverBusy(t) == FALSE  \* mutant: the working counters are not looked at
CloseIsBusy(t) ==
    IF gOpenedCount = 1 THEN gWorking /= 0 ELSE working[fd[t]] /= 0

CloseRefused(t) ==
    /\ CloseAccepted(t)
    /\ CloseIsBusy(t)
    /\ Unlock(t)
    /\ Return(t)
    /\ UNCHANGED <<fdVars, workVars, svcVars>>

CloseOneOfMany(t) ==
    /\ CloseAccepted(t)
    /\ gOpenedCount /= 1 /\ ~CloseIsBusy(t)
    /\ g_fdtable' = Free_Fd(table[t], fd[t])
    /\ opened' = opened \ {hdl[t]}
    /\ Unlock(t)
    /\ Return(t)
    /\ UNCHANGED <<handle, server, workVars, svcVars>>

CloseLast(t) ==
    /\ CloseAccepted(t)
    /\ gOpenedCount = 1 /\ ~CloseIsBusy(t)
    /\ gLock' = LockDuringIpc
    /\ fd' = fd
    /\ Goto(t, "close_ipc")
    /\ UNCHANGED <<inside, fdVars, workVars, svcVars>>

\* putVdspService: nothing happens when there is no connection.
putVdspService ==
    IF gInitFlag
    THEN /\ gInitFlag' = FALSE
         /\ gVdspService' = NoService /\ gfakeBinder' = NoService
         /\ linked' = NoService
         /\ gOpenedCount' = 0
    ELSE UNCHANGED <<gInitFlag, gVdspService, gfakeBinder, linked, gOpenedCount>>

\* closeXrpDevice returns.
CloseIpcOk(t) ==
    /\ pc[t] = "close_ipc"
    /\ cs[t] = svc
    /\ svcOpen' = FALSE
    /\ g_fdtable' = Free_Fd(g_fdtable, fd[t])
    /\ putVdspService
    /\ gWorkType' = MaxType
    /\ opened' = opened \ {hdl[t]}
    /\ Unlock(t)
    /\ Return(t)
    /\ UNCHANGED <<gGeneration, handle, server, workVars, svc, svcCount, deathNotes>>

CloseIpcFail(t) ==
    /\ pc[t] = "close_ipc"
    /\ cs[t] /= svc \/ CloseFails
    /\ Unlock(t)
    /\ Return(t)
    /\ UNCHANGED <<sharedVars, fdVars, workVars, svcVars>>

-----------------------------------------------------------------------------
(***************************************************************************)
(* sprd_vdsp_send_cmd_serv, sprd_vdsp_loadlibrary_serv,                    *)
(* sprd_vdsp_unloadlibrary_serv and sprd_vdsp_power_hint_serv.             *)
(***************************************************************************)

CommandEnter(t, h, kind) ==
    /\ h \in opened
    /\ CloseBusy \/ \A u \in Users(h) : pc[u] \notin ClosePCs
    /\ Enter(t, h, "cmd_get", kind)

CommandGet(t) ==
    /\ Section(t, "cmd_get")
    /\ UNCHANGED <<sharedVars, fdVars, workVars, svcVars>>
    /\ Got(t, "cmd_lock")

CommandAdmitted(t) ==
    /\ Check_GenrationValid(gen[t])
    /\ Check_FdValid(fd[t])
    /\ gOpenedCount /= 0

\* send and load build HIDL parameters, whose allocation may fail.
ParamsFail(t) == OpenFails /\ arg[t] \in {"send", "load"}

CommandRefused(t) ==
    /\ Section(t, "cmd_lock")
    /\ ~CommandAdmitted(t) \/ ParamsFail(t)
    /\ Unlock(t)
    /\ Return(t)
    /\ UNCHANGED <<sharedVars, fdVars, workVars, svcVars>>

CommandStart(t) ==
    /\ Section(t, "cmd_lock")
    /\ CommandAdmitted(t)
    /\ gWorking' = gWorking + 1
    /\ working' = [working EXCEPT ![fd[t]] = @ + 1]
    /\ fd' = fd
    /\ Unlock(t)
    /\ Goto(t, "cmd_ipc")
    /\ UNCHANGED <<sharedVars, fdVars, svcVars>>

\* What a command takes from the counters when its IPC has returned.
WorkNotDone == 0  \* mutant
WorkDone == 1

\* The IPC has returned, with whatever result, and the counters go back.
CommandDone(t) ==
    /\ Section(t, "cmd_ipc")
    /\ gWorking' = gWorking - WorkDone
    /\ working' = [working EXCEPT ![fd[t]] = @ - WorkDone]
    /\ Unlock(t)
    /\ Return(t)
    /\ UNCHANGED <<sharedVars, fdVars, svcVars>>

-----------------------------------------------------------------------------
Begin(t) ==
    \/ \E h \in Handles, type \in WorkTypes : OpenEnter(t, h, type)
    \/ \E h \in Handles : CloseEnter(t, h)
    \/ \E h \in Handles, kind \in Kinds : CommandEnter(t, h, kind)

\* The steps of a call that is inside, in a call to the service, or past gLock.
Proceed(t) ==
    \/ OpenGet(t) \/ CloseGet(t) \/ CommandGet(t)
    \/ OpenNoFd(t) \/ OpenFirst(t) \/ OpenMore(t) \/ OpenMismatch(t)
    \/ OpenIpcOk(t) \/ OpenIpcFail(t) \/ OpenErr(t) \/ OpenFree(t)
    \/ CloseOldGeneration(t) \/ CloseUnlock2(t) \/ CloseBadFd(t)
    \/ CloseRefused(t) \/ CloseOneOfMany(t) \/ CloseLast(t)
    \/ CloseIpcOk(t) \/ CloseIpcFail(t)
    \/ CommandRefused(t) \/ CommandStart(t) \/ CommandDone(t)

\* A behaviour ends when gLock has been unlocked under a thread inside.
VdspNext ==
    /\ Exclusive
    /\ \/ \E t \in Threads : Begin(t) \/ Lock(t) \/ Proceed(t)
       \/ ServiceDies \/ ServiceStarts \/ DeathNotice \/ serviceDied

\* Calls to the service return (binder reports the death of the peer), and a
\* thread that waits for gLock gets it if it is free again and again.
VdspSpec ==
    /\ VdspInit /\ [][VdspNext]_vars
    /\ \A t \in Threads : WF_vars(Proceed(t)) /\ SF_vars(Lock(t))
    /\ SF_vars(DeathNotice) /\ WF_vars(serviceDied)

-----------------------------------------------------------------------------
(***************************************************************************)
(* Properties.                                                             *)
(***************************************************************************)

\* The type of every variable of vdsp_server_interface.cpp.
VdspTypeOK ==
    /\ gInitFlag \in BOOLEAN /\ gGeneration \in Nat
    /\ gLock \in Threads \cup {NoThread, BinderThread}
    /\ inside \subseteq Threads \cup {BinderThread}
    /\ gOpenedCount \in Int /\ gWorkType \in WorkTypes \cup {MaxType}
    /\ gWorking \in Int /\ working \in [Fds -> Int]
    /\ gVdspService \in Nat /\ gfakeBinder \in Nat
    /\ g_fdtable \subseteq Fds
    /\ handle \in [Handles -> [fd : Fds \cup {NoFd},
                               generation : Nat \cup {NoGeneration}]]
    /\ opened \subseteq Handles /\ server \in [Handles -> Nat]
    /\ svc \in Nat /\ svcCount \in Nat /\ svcOpen \in BOOLEAN
    /\ linked \in Nat /\ deathNotes \in Nat
    /\ pc \in [Threads -> PCs]
    /\ hdl \in [Threads -> Handles \cup {NoHandle}]
    /\ cs \in [Threads -> Nat]
    /\ fd \in [Threads -> Fds \cup {NoFd}]
    /\ gen \in [Threads -> Nat \cup {NoGeneration}]
    /\ arg \in [Threads -> WorkTypes \cup {MaxType} \cup Kinds]
    /\ table \in [Threads -> SUBSET Fds]

\* gLock keeps everybody else out of every section, the calls openXrpDevice and
\* closeXrpDevice included, until a first death notice has been handled: only
\* then can a close find another generation and unlock twice, the second time
\* perhaps under a thread that has locked gLock in between.  However opens and
\* closes overlap, repeat and fail, and wherever the service dies.
LockExclusive == gGeneration = 0 => Exclusive

\* As long as gLock has kept everybody else out, gWorking is the number of
\* commands between their two locked sections, whatever the service and the
\* callers do: getVdspService does not reset it.
GWorkingExact == Exclusive => gWorking = Cardinality(InFlight)

\* As long as gLock has kept everybody else out, the device of the service is
\* not closed while a command is in flight, also of an earlier connection.
NotClosedUnderCommands ==
    Exclusive => \A t \in Threads : pc[t] = "close_ipc" => InFlight = {}

\* g_FdInfo[fd].working is the number of commands in flight on descriptor fd.
FdWorkingExact ==
    \A f \in Fds : working[f] = Cardinality({t \in InFlight : fd[t] = f})

Current == {h \in opened : handle[h].generation = gGeneration}

\* A handle its owner was told is open has a descriptor that is allocated.
OpenHandlesKeepTheirFd == \A h \in Current : handle[h].fd \in g_fdtable

\* No two open handles share a descriptor.
FdsDistinct ==
    \A h1, h2 \in Current : h1 /= h2 => handle[h1].fd /= handle[h2].fd

\* gOpenedCount is the number of open handles, but for a last close on its
\* way, which has already been subtracted.
OpenedCountExact ==
    gOpenedCount =
        Cardinality(opened \ {hdl[t] : t \in {u \in Threads : pc[u] = "close_ipc"}})

\* A close reported as successful does not leave an open device without an
\* open handle behind ("close vdsp virtual device opened by
\* sprd_cavdsp_open_device_compat", vdsp_interface.h:234).
CloseClosesDevice == svcOpen => opened /= {}

\* The generation with which a command on its way to the live service was
\* admitted is still the current one: no death notice has been handled since,
\* so the notice of an earlier service never comes late, after a call to the
\* next.  (Which service the handle was opened on is OldHandlesRefused.)
LiveCommandsAreCurrent ==
    \A t \in InFlight : cs[t] = svc => gen[t] = gGeneration

\* A command on its way to the live service is one of a handle opened on that
\* service: the others are told SPRD_VDSP_RESULT_OLD_GENERATION, "because of
\* xrp server may be restart, the generation is not matched"
\* (vdsp_interface.h:164-166).
OldHandlesRefused ==
    \A t \in InFlight : cs[t] = svc => server[hdl[t]] = svc

\* Every call returns to its caller: no path of the code leaves without
\* unlocking gLock.
CallsReturn ==
    \A t \in Threads : pc[t] /= "idle" ~> pc[t] = "idle" \/ ~Exclusive

\* The client implements a shared device.
Shared == INSTANCE SharedDevice WITH
    Callers <- Threads, Devices <- Handles, NoDevice <- NoHandle,
    device <- svcOpen,
    inflight <- [t \in Threads |-> IF t \in InFlight THEN hdl[t] ELSE NoHandle]

\* Refinement of SharedDevice, fairness included: an open and a close take
\* effect in one step, the device is open exactly while a handle is, and a
\* command begins on an open handle.
ImplementsSharedDevice == Shared!SharedSpec

=============================================================================
