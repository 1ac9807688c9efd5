----------------------- MODULE VdspServerClient_proofs -----------------------
(***************************************************************************)
(* Theorems about vdsp_server_interface.cpp, for any number of threads,    *)
(* handles, descriptors and restarts of the service; the last part, for    *)
(* callers and a service that behave.                                      *)
(***************************************************************************)
EXTENDS VdspServerClient, LowestNumber, FiniteSetTheorems, TLAPS

(***************************************************************************)
(* Alloc_Fd.                                                               *)
(***************************************************************************)

\* Alloc_Fd returns a clear descriptor of the table, or NoFd when all
\* USE_FD_MAX_NUM bits are set.
LEMMA AllocFdType ==
    ASSUME NEW bits \in SUBSET Fds
    PROVE  /\ Alloc_Fd(bits) \in Fds \cup {NoFd}
           /\ Alloc_Fd(bits) /= NoFd => Alloc_Fd(bits) \in Fds \ bits
<1> DEFINE free == Fds \ bits
<1>1. CASE free = {}
  BY <1>1 DEF Alloc_Fd
<1>2. CASE free /= {}
  <2>1. free \in SUBSET Nat
    BY VdspAssumption DEF Fds
  <2>2. \E n \in free : \A m \in free : n <= m
    BY <1>2, <2>1, LeastElement
  <2>3. Alloc_Fd(bits) \in free
    BY <1>2, <2>2 DEF Alloc_Fd
  <2> QED
    BY <2>3
<1> QED
  BY <1>1, <1>2

-----------------------------------------------------------------------------
(***************************************************************************)
(* Type correctness.                                                       *)
(***************************************************************************)

GetPCs == {"open_get", "close_get", "cmd_get"}
IpcPCs == {"open_ipc", "close_ipc"}

\* What the locals of a call hold: its handle, the work type an open was asked
\* for, and the descriptor of a command that has been admitted.  Whoever is in
\* getVdspService, or in a call to the service to open or close the device, is
\* inside gLock, and nobody is but at the points where gLock is taken.
CallLocals ==
    /\ \A t \in Threads :
          /\ pc[t] /= "idle" => hdl[t] \in Handles
          /\ pc[t] \in OpenPCs => arg[t] \in WorkTypes
          /\ pc[t] = "cmd_ipc" => fd[t] \in Fds
          /\ pc[t] \in GetPCs \cup IpcPCs => t \in inside
          /\ t \in inside => pc[t] \in GetPCs \cup IpcPCs \cup LockPCs
    /\ BinderThread \in inside => deathNotes > 0

VdspTypeInv == VdspTypeOK /\ CallLocals

\* The initial state of the file-scope variables is well typed.
LEMMA VdspTypeInit == VdspInit => VdspTypeInv
<1> SUFFICES ASSUME VdspInit PROVE VdspTypeInv
  OBVIOUS
<1> USE VdspAssumption DEF VdspInit
<1>1. /\ handle \in [Handles -> [fd : Fds \cup {NoFd},
                                 generation : Nat \cup {NoGeneration}]]
      /\ pc \in [Threads -> PCs] /\ hdl \in [Threads -> Handles \cup {NoHandle}]
      /\ cs \in [Threads -> Nat] /\ fd \in [Threads -> Fds \cup {NoFd}]
      /\ gen \in [Threads -> Nat \cup {NoGeneration}]
      /\ arg \in [Threads -> WorkTypes \cup {MaxType} \cup Kinds]
      /\ table \in [Threads -> SUBSET Fds]
      /\ working \in [Fds -> Int] /\ server \in [Handles -> Nat]
  BY DEF PCs, NoService
<1>2. CallLocals
  BY DEF CallLocals, OpenPCs, GetPCs, IpcPCs
<1> QED
  <2>1. /\ gGeneration \in Nat /\ gOpenedCount \in Int
        /\ gLock \in Threads \cup {NoThread, BinderThread}
        /\ inside \subseteq Threads \cup {BinderThread}
        /\ gWorkType \in WorkTypes \cup {MaxType}
        /\ gWorking \in Int /\ gVdspService \in Nat /\ gfakeBinder \in Nat
        /\ g_fdtable \subseteq Fds /\ opened \subseteq Handles
    BY DEF NoService
  <2>2. svc \in Nat /\ svcCount \in Nat /\ linked \in Nat /\ deathNotes \in Nat
    BY DEF NoService
  <2>3. svcOpen \in BOOLEAN /\ gInitFlag \in BOOLEAN
    OBVIOUS
  <2> QED
    BY <1>1, <1>2, <2>1, <2>2, <2>3 DEF VdspTypeInv, VdspTypeOK

\* A call begins by entering getVdspService, which takes gLock.
LEMMA VdspTypeEnter ==
    ASSUME VdspTypeInv, NEW t \in Threads, NEW h \in Handles, NEW where \in GetPCs,
           NEW what \in WorkTypes \cup {MaxType} \cup Kinds,
           where = "open_get" => what \in WorkTypes,
           Enter(t, h, where, what)
    PROVE  VdspTypeInv'
<1>1. /\ pc[t] = "idle" /\ LockFor(t)
      /\ pc' = [pc EXCEPT ![t] = where] /\ hdl' = [hdl EXCEPT ![t] = h]
      /\ arg' = [arg EXCEPT ![t] = what]
      /\ UNCHANGED <<sharedVars, fdVars, workVars, svcVars, cs, table>>
  BY DEF Enter
<1>2. fd' \in [Threads -> Fds \cup {NoFd}] /\ gen' \in [Threads -> Nat \cup {NoGeneration}]
  <2>1. CASE UNCHANGED <<fd, gen>>
    BY <2>1 DEF VdspTypeInv, VdspTypeOK
  <2>2. CASE ~UNCHANGED <<fd, gen>>
    <3>1. /\ fd' = [fd EXCEPT ![t] = handle[h].fd]
          /\ gen' = [gen EXCEPT ![t] = handle[h].generation]
      BY <2>2 DEF Enter
    <3>2. /\ handle[h].fd \in Fds \cup {NoFd}
          /\ handle[h].generation \in Nat \cup {NoGeneration}
      BY DEF VdspTypeInv, VdspTypeOK
    <3> QED
      BY <3>1, <3>2 DEF VdspTypeInv, VdspTypeOK
  <2> QED
    BY <2>1, <2>2
<1>3. where \in PCs /\ \A u \in Threads \ {t} : fd'[u] = fd[u]
  <2>1. where \in PCs
    BY DEF GetPCs, PCs, OpenPCs, ClosePCs
  <2>2. \/ fd' = fd
        \/ fd' = [fd EXCEPT ![t] = handle[h].fd]
    BY DEF Enter
  <2> QED
    BY <2>1, <2>2 DEF VdspTypeInv, VdspTypeOK
<1>4. /\ pc' \in [Threads -> PCs] /\ hdl' \in [Threads -> Handles \cup {NoHandle}]
      /\ arg' \in [Threads -> WorkTypes \cup {MaxType} \cup Kinds]
  BY <1>1, <1>3 DEF VdspTypeInv, VdspTypeOK
<1>5. /\ gLock' \in Threads \cup {NoThread, BinderThread}
      /\ inside' \subseteq Threads \cup {BinderThread}
  BY <1>1 DEF VdspTypeInv, VdspTypeOK, LockFor
<1>6. VdspTypeOK'
  BY ONLY <1>1, <1>2, <1>4, <1>5, VdspTypeInv
     DEF VdspTypeInv, VdspTypeOK, sharedVars, fdVars, workVars, svcVars
<1>7. CallLocals'
  <2>1. /\ pc[t] = "idle" /\ inside' = inside \cup {t} /\ deathNotes' = deathNotes
        /\ t /= BinderThread
    BY <1>1, VdspAssumption DEF LockFor, svcVars
  <2>2. /\ pc'[t] = where /\ hdl'[t] = h /\ arg'[t] = what
        /\ \A u \in Threads \ {t} : pc'[u] = pc[u] /\ hdl'[u] = hdl[u] /\ arg'[u] = arg[u]
    BY <1>1 DEF VdspTypeInv, VdspTypeOK
  <2>3. /\ pc'[t] \in GetPCs /\ "cmd_ipc" \notin GetPCs
        /\ pc'[t] \in OpenPCs => pc'[t] = "open_get"
    BY <2>2 DEF GetPCs, OpenPCs
  <2>4. /\ pc'[t] /= "idle" => hdl'[t] \in Handles
        /\ pc'[t] \in OpenPCs => arg'[t] \in WorkTypes
        /\ pc'[t] = "cmd_ipc" => fd'[t] \in Fds
        /\ pc'[t] \in GetPCs \cup IpcPCs => t \in inside'
        /\ t \in inside' => pc'[t] \in GetPCs \cup IpcPCs \cup LockPCs
    BY <2>1, <2>2, <2>3
  <2>5. ASSUME NEW u \in Threads \ {t}
        PROVE  /\ pc'[u] /= "idle" => hdl'[u] \in Handles
               /\ pc'[u] \in OpenPCs => arg'[u] \in WorkTypes
               /\ pc'[u] = "cmd_ipc" => fd'[u] \in Fds
               /\ pc'[u] \in GetPCs \cup IpcPCs => u \in inside'
               /\ u \in inside' => pc'[u] \in GetPCs \cup IpcPCs \cup LockPCs
    BY <1>3, <2>1, <2>2, <2>5 DEF VdspTypeInv, CallLocals
  <2>6. (BinderThread \in inside => deathNotes > 0)'
    BY <2>1 DEF VdspTypeInv, CallLocals
  <2> QED
    BY <2>4, <2>5, <2>6 DEF CallLocals
<1> QED
  BY <1>6, <1>7 DEF VdspTypeInv

LEMMA VdspTypeBegin ==
    ASSUME VdspTypeInv, NEW t \in Threads, Begin(t)
    PROVE  VdspTypeInv'
<1>1. ASSUME NEW h \in Handles, NEW type \in WorkTypes, OpenEnter(t, h, type)
      PROVE  VdspTypeInv'
  BY <1>1, VdspTypeEnter DEF OpenEnter, GetPCs
<1>2. ASSUME NEW h \in Handles, CloseEnter(t, h)
      PROVE  VdspTypeInv'
  BY <1>2, VdspTypeEnter DEF CloseEnter, GetPCs
<1>3. ASSUME NEW h \in Handles, NEW kind \in Kinds, CommandEnter(t, h, kind)
      PROVE  VdspTypeInv'
  BY <1>3, VdspTypeEnter DEF CommandEnter, GetPCs
<1> QED
  BY <1>1, <1>2, <1>3 DEF Begin

\* It waits for gLock.
LEMMA VdspTypeLock ==
    ASSUME VdspTypeInv, NEW t \in Threads, Lock(t)
    PROVE  VdspTypeInv'
<1>1. /\ LockFor(t) /\ pc[t] \in LockPCs
      /\ UNCHANGED <<sharedVars, fdVars, workVars, svcVars, pc, hdl, cs, fd, gen, arg>>
  BY DEF Lock
<1>2. table' \in [Threads -> SUBSET Fds]
  BY DEF Lock, VdspTypeInv, VdspTypeOK
<1>3. CallLocals'
  BY <1>1, VdspAssumption DEF VdspTypeInv, CallLocals, LockFor, svcVars
<1> QED
  BY <1>1, <1>2, <1>3, VdspAssumption
     DEF VdspTypeInv, VdspTypeOK, LockFor, sharedVars, fdVars, workVars, svcVars

\* getVdspService gives it the proxy, and then it opens a handle.
LEMMA VdspTypeOpen ==
    ASSUME VdspTypeInv, NEW t \in Threads,
           \/ OpenGet(t) \/ OpenNoFd(t) \/ OpenFirst(t) \/ OpenMore(t) \/ OpenMismatch(t)
           \/ OpenIpcOk(t) \/ OpenIpcFail(t) \/ OpenErr(t) \/ OpenFree(t)
    PROVE  VdspTypeInv'
<1>0. NewFd(t) \in Fds \cup {NoFd} /\ (NewFd(t) /= NoFd => NewFd(t) \in Fds)
  BY AllocFdType DEF NewFd, VdspTypeInv, VdspTypeOK
<1> USE <1>0, VdspAssumption
    DEF VdspTypeInv, VdspTypeOK, CallLocals, PCs, OpenPCs, ClosePCs, GetPCs, IpcPCs,
        LockPCs, NoService, Section, Return, Goto, Unlock, Unlocked, LockDuringIpc,
        SetHandle, ReportOpen, sharedVars, lockVars, fdVars, workVars, svcVars
<1>1. CASE OpenGet(t)
  <2>1. /\ gInitFlag' \in BOOLEAN /\ gVdspService' \in Nat /\ gfakeBinder' \in Nat
        /\ linked' \in Nat /\ g_fdtable' \subseteq Fds
        /\ gWorkType' \in WorkTypes \cup {MaxType}
        /\ working' \in [Fds -> Int] /\ gOpenedCount' \in Int
    <3>1. CASE ~gInitFlag /\ svc /= NoService
      BY <1>1, <3>1 DEF OpenGet, Connect
    <3>2. CASE ~(~gInitFlag /\ svc /= NoService)
      BY <1>1, <3>2 DEF OpenGet
    <3> QED
      BY <3>1, <3>2
  <2>2. /\ UNCHANGED <<gGeneration, handle, opened, server, gWorking, svc, svcCount,
                       svcOpen, deathNotes>>
        /\ Section(t, "open_get") /\ Got(t, "open_lock")
    BY <1>1 DEF OpenGet
  <2>3. CASE gVdspService' = NoService
    BY <2>1, <2>2, <2>3 DEF Got
  <2>4. CASE gVdspService' /= NoService
    BY <2>1, <2>2, <2>4 DEF Got
  <2> QED
    BY <2>3, <2>4
<1>2. CASE OpenNoFd(t)
  BY <1>2 DEF OpenNoFd
<1>3. CASE OpenFirst(t)
  BY <1>3 DEF OpenFirst
<1>4. CASE OpenMore(t)
  BY <1>4 DEF OpenMore
<1>5. CASE OpenMismatch(t)
  BY <1>5 DEF OpenMismatch
<1>6. CASE OpenIpcOk(t)
  BY <1>6 DEF OpenIpcOk
<1>7. CASE OpenIpcFail(t)
  BY <1>7 DEF OpenIpcFail
<1>8. CASE OpenErr(t)
  <2>1. CASE fd[t] > 0
    <3>1. table' \in [Threads -> SUBSET Fds]
      BY <1>8, <2>1 DEF OpenErr
    <3>2. CallLocals'
      BY <1>8, <2>1 DEF OpenErr
    <3> QED
      BY <1>8, <2>1, <3>1, <3>2 DEF OpenErr
  <2>2. CASE ~(fd[t] > 0)
    <3>1. UNCHANGED <<sharedVars, lockVars, fdVars, workVars, svcVars>> /\ Return(t)
      BY <1>8, <2>2 DEF OpenErr
    <3>2. pc[t] = "open_err"
      BY <1>8 DEF OpenErr
    <3> QED
      BY <3>1, <3>2
  <2> QED
    BY <2>1, <2>2
<1>9. CASE OpenFree(t)
  <2>1. table[t] \subseteq Fds
    OBVIOUS
  <2>2. g_fdtable' \subseteq Fds
    BY <1>9, <2>1 DEF OpenFree, Free_Fd
  <2>3. /\ UNCHANGED <<sharedVars, lockVars, handle, opened, server, workVars, svcVars>>
        /\ Return(t) /\ pc[t] = "open_free"
    BY <1>9 DEF OpenFree
  <2> QED
    BY <2>2, <2>3
<1> QED
  BY <1>1, <1>2, <1>3, <1>4, <1>5, <1>6, <1>7, <1>8, <1>9

\* Or closes one, or runs a command on one.
LEMMA VdspTypeUse ==
    ASSUME VdspTypeInv, NEW t \in Threads,
           \/ CloseGet(t) \/ CloseOldGeneration(t) \/ CloseUnlock2(t) \/ CloseBadFd(t)
           \/ CloseRefused(t) \/ CloseOneOfMany(t) \/ CloseLast(t)
           \/ CloseIpcOk(t) \/ CloseIpcFail(t)
           \/ CommandGet(t) \/ CommandRefused(t) \/ CommandStart(t) \/ CommandDone(t)
    PROVE  VdspTypeInv'
<1> USE VdspAssumption
    DEF VdspTypeInv, VdspTypeOK, CallLocals, PCs, OpenPCs, ClosePCs, GetPCs, IpcPCs,
        LockPCs, NoService, Section, Return, Goto, Unlock, Unlocked, LockDuringIpc,
        sharedVars, fdVars, workVars, svcVars
<1>1. CASE CloseGet(t)
  <2>1. UNCHANGED <<sharedVars, fdVars, workVars, svcVars>> /\ Section(t, "close_get")
        /\ gVdspService' = gVdspService /\ Got(t, "close_lock")
    BY <1>1 DEF CloseGet
  <2>2. CASE gVdspService' = NoService
    <3>1. Unlock(t) /\ Return(t)
      BY ONLY <2>1, <2>2 DEF Got
    <3> QED
      BY ONLY <2>1, <3>1, VdspTypeInv, VdspAssumption
         DEF VdspTypeInv, VdspTypeOK, CallLocals, PCs, GetPCs, IpcPCs, NoService,
             OpenPCs, Section, Return, Unlock, Unlocked, sharedVars, fdVars, workVars,
             svcVars
  <2>3. CASE gVdspService' /= NoService
    BY <2>1, <2>3 DEF Got
  <2> QED
    BY <2>2, <2>3
<1>2. CASE CloseOldGeneration(t)
  BY <1>2 DEF CloseOldGeneration
<1>3. CASE CloseUnlock2(t)
  BY <1>3 DEF CloseUnlock2
<1>4. CASE CloseBadFd(t)
  BY <1>4 DEF CloseBadFd
<1>5. CASE CloseRefused(t)
  BY <1>5 DEF CloseRefused, CloseAccepted
<1>6. CASE CloseOneOfMany(t)
  BY <1>6 DEF CloseOneOfMany, CloseAccepted, Free_Fd
<1>7. CASE CloseLast(t)
  BY <1>7 DEF CloseLast, CloseAccepted
<1>8. CASE CloseIpcOk(t)
  <2>1. g_fdtable' \subseteq Fds
    BY <1>8 DEF CloseIpcOk, Free_Fd
  <2>2. CASE gInitFlag
    <3>1. /\ gInitFlag' = FALSE /\ gVdspService' = NoService
          /\ gfakeBinder' = NoService /\ linked' = NoService /\ gOpenedCount' = 0
      BY <1>8, <2>2 DEF CloseIpcOk, putVdspService
    <3>2. gInitFlag' \in BOOLEAN /\ svcOpen' \in BOOLEAN
      BY <1>8, <3>1 DEF CloseIpcOk
    <3> QED
      BY <1>8, <2>1, <3>1, <3>2 DEF CloseIpcOk
  <2>3. CASE ~gInitFlag
    BY <1>8, <2>1, <2>3 DEF CloseIpcOk, putVdspService
  <2> QED
    BY <2>2, <2>3
<1>9. CASE CloseIpcFail(t)
  BY <1>9 DEF CloseIpcFail
<1>10. CASE CommandGet(t)
  <2>1. UNCHANGED <<sharedVars, fdVars, workVars, svcVars>> /\ Section(t, "cmd_get")
        /\ gVdspService' = gVdspService /\ Got(t, "cmd_lock")
    BY <1>10 DEF CommandGet
  <2>2. CASE gVdspService' = NoService
    <3>1. Unlock(t) /\ Return(t)
      BY ONLY <2>1, <2>2 DEF Got
    <3> QED
      BY ONLY <2>1, <3>1, VdspTypeInv, VdspAssumption
         DEF VdspTypeInv, VdspTypeOK, CallLocals, PCs, GetPCs, IpcPCs, NoService,
             OpenPCs, Section, Return, Unlock, Unlocked, sharedVars, fdVars, workVars,
             svcVars
  <2>3. CASE gVdspService' /= NoService
    BY <2>1, <2>3 DEF Got
  <2> QED
    BY <2>2, <2>3
<1>11. CASE CommandRefused(t)
  BY <1>11 DEF CommandRefused
<1>12. CASE CommandStart(t)
  <2>1. fd[t] \in Fds
    BY <1>12 DEF CommandStart, CommandAdmitted, Check_FdValid
  <2>2. working' \in [Fds -> Int] /\ gWorking' \in Int
    BY <1>12, <2>1 DEF CommandStart
  <2> QED
    BY <1>12, <2>1, <2>2 DEF CommandStart
<1>13. CASE CommandDone(t)
  <2>1. working' \in [Fds -> Int] /\ gWorking' \in Int
    BY <1>13 DEF CommandDone, WorkDone
  <2> QED
    BY <1>13, <2>1 DEF CommandDone
<1> QED
  BY <1>1, <1>2, <1>3, <1>4, <1>5, <1>6, <1>7, <1>8, <1>9, <1>10, <1>11, <1>12, <1>13

\* The service process and the notification of its death.
ServiceStep == ServiceDies \/ ServiceStarts \/ DeathNotice \/ serviceDied

LEMMA VdspTypeService ==
    ASSUME VdspTypeInv, ServiceStep
    PROVE  VdspTypeInv'
<1> USE VdspAssumption
    DEF VdspTypeInv, VdspTypeOK, CallLocals, NoService, sharedVars, lockVars, fdVars,
        workVars, svcVars, localVars
<1>1. CASE ServiceDies
  <2>1. deathNotes' \in Nat /\ (deathNotes > 0 => deathNotes' > 0)
    BY <1>1 DEF ServiceDies
  <2>2. svcOpen' \in BOOLEAN
    BY <1>1 DEF ServiceDies
  <2> QED
    BY <1>1, <2>1, <2>2 DEF ServiceDies
<1>2. CASE ServiceStarts
  BY <1>2 DEF ServiceStarts
<1>3. CASE DeathNotice
  BY <1>3 DEF DeathNotice, LockFor
<1>4. CASE serviceDied
  <2>1. deathNotes' \in Nat /\ gGeneration' \in Nat
    BY <1>4 DEF serviceDied
  <2>2. gInitFlag' \in BOOLEAN
    BY <1>4 DEF serviceDied
  <2> QED
    BY <1>4, <2>1, <2>2 DEF serviceDied, Unlock, Unlocked
<1> QED
  BY <1>1, <1>2, <1>3, <1>4 DEF ServiceStep

CallStep(t) == Begin(t) \/ Lock(t) \/ Proceed(t)

\* Every variable of vdsp_server_interface.cpp keeps its type, and the locals
\* of every call are what its code needs, on every interleaving of every call
\* with deaths of the service.
THEOREM VdspTypeInvariant == VdspSpec => []VdspTypeInv
<1>1. VdspTypeInv /\ [VdspNext]_vars => VdspTypeInv'
  <2> SUFFICES ASSUME VdspTypeInv, [VdspNext]_vars PROVE VdspTypeInv'
    OBVIOUS
  <2>1. ASSUME NEW t \in Threads, CallStep(t)
        PROVE  VdspTypeInv'
    BY <2>1, VdspTypeBegin, VdspTypeLock, VdspTypeOpen, VdspTypeUse DEF CallStep, Proceed
  <2>2. CASE ServiceStep
    BY <2>2, VdspTypeService
  <2>3. CASE UNCHANGED vars
    BY <2>3 DEF vars, sharedVars, lockVars, fdVars, workVars, svcVars, localVars,
                VdspTypeInv, VdspTypeOK, CallLocals
  <2> QED
    BY <2>1, <2>2, <2>3 DEF VdspNext, CallStep, ServiceStep
<1> QED
  BY <1>1, VdspTypeInit, PTL DEF VdspSpec

\* The type invariant that the runs check.
THEOREM VdspTypeCorrect == VdspSpec => []VdspTypeOK
  BY VdspTypeInvariant, PTL DEF VdspTypeInv

-----------------------------------------------------------------------------
(***************************************************************************)
(* gWorking.                                                               *)
(***************************************************************************)

\* A step of a thread that neither starts nor ends a command.
NoCommandStep(t) == CallStep(t) /\ ~CommandStart(t) /\ ~CommandDone(t)

\* Where control goes in such a step.
LEMMA NoCommandControl ==
    ASSUME VdspTypeInv, NEW t \in Threads, NoCommandStep(t)
    PROVE  /\ gWorking' = gWorking
           /\ InFlight' = InFlight
           /\ pc[t] = "cmd_ipc" => pc' = pc
<1> USE DEF Section, Return, Goto, sharedVars, workVars, InFlight, VdspTypeInv, VdspTypeOK
<1>1. CASE Begin(t)
  BY <1>1 DEF Begin, OpenEnter, CloseEnter, CommandEnter, Enter
<1>2. CASE Lock(t)
  BY <1>2 DEF Lock
<1>3. CASE OpenGet(t) \/ CloseGet(t) \/ CommandGet(t)
  BY <1>3 DEF OpenGet, CloseGet, CommandGet, Got
<1>4. CASE OpenIpcOk(t) \/ OpenIpcFail(t) \/ OpenErr(t) \/ OpenFree(t)
  BY <1>4 DEF OpenIpcOk, OpenIpcFail, OpenErr, OpenFree
<1>5. CASE CloseUnlock2(t) \/ CloseIpcOk(t) \/ CloseIpcFail(t)
  BY <1>5 DEF CloseUnlock2, CloseIpcOk, CloseIpcFail
<1>6. CASE OpenNoFd(t) \/ OpenFirst(t) \/ OpenMore(t) \/ OpenMismatch(t)
  BY <1>6 DEF OpenNoFd, OpenFirst, OpenMore, OpenMismatch
<1>7. CASE CloseOldGeneration(t) \/ CloseBadFd(t) \/ CloseRefused(t)
  BY <1>7 DEF CloseOldGeneration, CloseBadFd, CloseRefused, CloseAccepted
<1>8. CASE CloseOneOfMany(t) \/ CloseLast(t) \/ CommandRefused(t)
  BY <1>8 DEF CloseOneOfMany, CloseLast, CommandRefused, CloseAccepted
<1> QED
  BY <1>1, <1>2, <1>3, <1>4, <1>5, <1>6, <1>7, <1>8 DEF NoCommandStep, CallStep, Proceed

\* The service does nothing to the calls, nor does a death notice.
LEMMA ServiceControl ==
    ASSUME ServiceStep \/ UNCHANGED vars
    PROVE  /\ UNCHANGED <<pc, hdl, cs, fd, gen, arg, table, gWorking, working>>
           /\ UNCHANGED <<gOpenedCount, gWorkType, gVdspService, gfakeBinder>>
           /\ UNCHANGED <<g_fdtable, handle, opened, server>>
BY DEF ServiceStep, ServiceDies, ServiceStarts, DeathNotice, serviceDied, vars,
       sharedVars, fdVars, workVars, localVars

\* No step but the two locked sections of a command changes the number of
\* commands in flight, and each of these moves gWorking with it.
LEMMA GWorkingStep ==
    ASSUME VdspTypeInv, GWorkingExact, [VdspNext]_vars
    PROVE  GWorkingExact'
<1>1. IsFiniteSet(InFlight) /\ InFlight \subseteq Threads
  BY VdspAssumption, FS_Subset DEF InFlight
<1>2. CASE VdspNext
  <2>0. gWorking = Cardinality(InFlight)
    BY <1>2 DEF VdspNext, GWorkingExact
  <2>2. ASSUME NEW t \in Threads, NoCommandStep(t)
        PROVE  gWorking' = Cardinality(InFlight')
    BY <2>0, <2>2, NoCommandControl
  <2>3. ASSUME NEW t \in Threads, CommandStart(t)
        PROVE  gWorking' = Cardinality(InFlight')
    <3>1. InFlight' = InFlight \cup {t} /\ t \notin InFlight
      BY <2>3 DEF CommandStart, Section, Goto, InFlight, VdspTypeInv, VdspTypeOK
    <3>2. gWorking' = gWorking + 1
      BY <2>3 DEF CommandStart
    <3> QED
      BY ONLY <1>1, <2>0, <3>1, <3>2, FS_AddElement
  <2>4. ASSUME NEW t \in Threads, CommandDone(t)
        PROVE  gWorking' = Cardinality(InFlight')
    <3>1. InFlight' = InFlight \ {t} /\ t \in InFlight
      BY <2>4 DEF CommandDone, Section, Return, InFlight, VdspTypeInv, VdspTypeOK
    <3>2. gWorking' = gWorking - 1
      BY <2>4 DEF CommandDone, WorkDone
    <3> QED
      BY ONLY <1>1, <2>0, <3>1, <3>2, FS_RemoveElement
  <2>5. CASE ServiceStep
    BY <2>0, <2>5, ServiceControl DEF InFlight, GWorkingExact
  <2> QED
    BY <1>2, <2>2, <2>3, <2>4, <2>5
       DEF VdspNext, CallStep, NoCommandStep, ServiceStep, GWorkingExact
<1>3. CASE UNCHANGED vars
  BY <1>3 DEF vars, lockVars, localVars, workVars, GWorkingExact, InFlight, Exclusive
<1> QED
  BY <1>2, <1>3

\* As long as gLock has not been unlocked under a thread inside, gWorking is
\* the number of commands between their two locked sections: the test that
\* keeps the last close from pulling the device away (gWorking == 0) looks at
\* the true number, also after a restart of the service, for which gWorking is
\* not reset.
THEOREM GWorkingCorrect == VdspSpec => []GWorkingExact
<1>1. VdspInit => GWorkingExact
  BY FS_EmptySet DEF VdspInit, GWorkingExact, InFlight
<1> QED
  BY <1>1, GWorkingStep, VdspTypeInvariant, PTL DEF VdspSpec

-----------------------------------------------------------------------------
(***************************************************************************)
(* Restarts of the service.                                                *)
(***************************************************************************)

\* A call that has not been given a proxy yet.
NoProxyPCs == {"idle"} \cup GetPCs

\* What a step of a call does to the locals that say which service, and which
\* generation of it, the call is about.
LEMMA CallLocalsStep ==
    ASSUME VdspTypeInv, NEW t \in Threads, CallStep(t)
    PROVE  /\ UNCHANGED <<gGeneration, svc, svcCount, deathNotes>>
           /\ \A u \in Threads \ {t} :
                 pc'[u] = pc[u] /\ cs'[u] = cs[u] /\ gen'[u] = gen[u]
           /\ \/ /\ pc[t] \notin NoProxyPCs /\ cs'[t] = cs[t] /\ gen'[t] = gen[t]
                 /\ pc'[t] = "cmd_ipc" => gen[t] = gGeneration \/ pc[t] = "cmd_ipc"
              \/ pc'[t] = "idle" /\ cs'[t] = NoService
              \/ pc'[t] \in GetPCs /\ cs'[t] = cs[t]
              \/ /\ pc'[t] /= "cmd_ipc"
                 /\ cs'[t] = gVdspService' /\ gVdspService' /= NoService
<1> USE DEF VdspTypeInv, VdspTypeOK, Section, Return, Goto, GetPCs, NoProxyPCs,
            sharedVars, fdVars, workVars, svcVars
<1>1. CASE Begin(t)
  BY <1>1 DEF Begin, OpenEnter, CloseEnter, CommandEnter, Enter
<1>2. CASE Lock(t)
  BY <1>2 DEF Lock, LockPCs
<1>3. CASE OpenGet(t) \/ CloseGet(t) \/ CommandGet(t)
  BY <1>3 DEF OpenGet, CloseGet, CommandGet, Got
<1>4. CASE OpenIpcOk(t) \/ OpenIpcFail(t) \/ OpenErr(t) \/ OpenFree(t)
  BY <1>4 DEF OpenIpcOk, OpenIpcFail, OpenErr, OpenFree
<1>5. CASE CloseUnlock2(t) \/ CloseIpcFail(t)
  BY <1>5 DEF CloseUnlock2, CloseIpcFail
<1>6. CASE CloseIpcOk(t)
  BY <1>6 DEF CloseIpcOk, putVdspService
<1>7. CASE OpenNoFd(t) \/ OpenFirst(t) \/ OpenMore(t) \/ OpenMismatch(t)
  BY <1>7 DEF OpenNoFd, OpenFirst, OpenMore, OpenMismatch
<1>8. CASE CloseOldGeneration(t) \/ CloseBadFd(t) \/ CloseRefused(t)
  BY <1>8 DEF CloseOldGeneration, CloseBadFd, CloseRefused, CloseAccepted
<1>9. CASE CloseOneOfMany(t) \/ CloseLast(t)
  BY <1>9 DEF CloseOneOfMany, CloseLast, CloseAccepted
<1>10. CASE CommandRefused(t) \/ CommandStart(t) \/ CommandDone(t)
  BY <1>10 DEF CommandRefused, CommandStart, CommandAdmitted,
               Check_GenrationValid, CommandDone
<1> QED
  BY <1>1, <1>2, <1>3, <1>4, <1>5, <1>6, <1>7, <1>8, <1>9, <1>10 DEF CallStep, Proceed

\* The connection is kept, made anew to the running service, or dropped by a
\* last close that has just talked to the running service.
LEMMA CallConnectionStep ==
    ASSUME NEW t \in Threads, CallStep(t)
    PROVE  \/ UNCHANGED <<gInitFlag, gVdspService, linked>>
           \/ /\ ~gInitFlag /\ svc /= NoService
              /\ gInitFlag' = TRUE /\ gVdspService' = svc /\ linked' = svc
           \/ /\ pc[t] \notin NoProxyPCs /\ cs[t] = svc
              /\ gInitFlag' = FALSE
              /\ gVdspService' = NoService /\ linked' = NoService
<1> USE DEF NoProxyPCs, GetPCs, sharedVars, svcVars
<1>1. CASE Begin(t) \/ Lock(t)
  BY <1>1 DEF Begin, OpenEnter, CloseEnter, CommandEnter, Enter, Lock
<1>2. CASE OpenGet(t)
  BY <1>2 DEF OpenGet, Connect
<1>3. CASE CloseGet(t) \/ CommandGet(t)
  BY <1>3 DEF CloseGet, CommandGet
<1>4. CASE CloseIpcOk(t)
  BY <1>4 DEF CloseIpcOk, putVdspService
<1>5. CASE OpenIpcOk(t) \/ OpenIpcFail(t) \/ OpenErr(t) \/ OpenFree(t)
  BY <1>5 DEF OpenIpcOk, OpenIpcFail, OpenErr, OpenFree
<1>6. CASE CloseUnlock2(t) \/ CloseIpcFail(t) \/ CloseOldGeneration(t) \/ CloseBadFd(t)
  BY <1>6 DEF CloseUnlock2, CloseIpcFail, CloseOldGeneration, CloseBadFd
<1>7. CASE OpenNoFd(t) \/ OpenFirst(t) \/ OpenMore(t) \/ OpenMismatch(t)
  BY <1>7 DEF OpenNoFd, OpenFirst, OpenMore, OpenMismatch
<1>8. CASE CloseRefused(t) \/ CloseOneOfMany(t) \/ CloseLast(t)
  BY <1>8 DEF CloseRefused, CloseOneOfMany, CloseLast, CloseAccepted
<1>9. CASE CommandRefused(t) \/ CommandStart(t) \/ CommandDone(t)
  BY <1>9 DEF CommandRefused, CommandStart, CommandDone
<1> QED
  BY <1>1, <1>2, <1>3, <1>4, <1>5, <1>6, <1>7, <1>8, <1>9 DEF CallStep, Proceed

\* A death is reported only while nobody has connected to, or is in a call on,
\* the service that has started since.
ConnectionInv ==
    /\ svc \in {NoService, svcCount} /\ svcCount >= 1
    /\ gVdspService <= svcCount
    /\ gInitFlag => gVdspService /= NoService
    /\ \A t \in Threads :
          cs[t] <= svcCount /\ (pc[t] \notin NoProxyPCs => cs[t] /= NoService)
    /\ linked /= NoService =>
          linked = svc /\ gInitFlag /\ gVdspService = svc /\ deathNotes = 0
    /\ deathNotes > 0 =>
          /\ deathNotes = 1 /\ gInitFlag /\ gVdspService /= svc
          /\ \A t \in Threads : pc[t] \notin NoProxyPCs => cs[t] /= svc

\* Every step of a call keeps the connection invariant.
LEMMA ConnectionCallStep ==
    ASSUME VdspTypeInv, ConnectionInv, NEW t \in Threads, CallStep(t)
    PROVE  ConnectionInv'
<1> USE DEF VdspTypeInv, VdspTypeOK, NoService
<1>1. UNCHANGED <<svc, svcCount, deathNotes>>
  BY CallLocalsStep
<1>2. /\ gVdspService' <= svcCount
      /\ gInitFlag' => gVdspService' /= NoService
      /\ linked' /= NoService =>
            linked' = svc /\ gInitFlag' /\ gVdspService' = svc /\ deathNotes = 0
      /\ deathNotes > 0 => gInitFlag' /\ gVdspService' /= svc
  <2>1. CASE UNCHANGED <<gInitFlag, gVdspService, linked>>
    BY <2>1 DEF ConnectionInv
  <2>2. CASE /\ ~gInitFlag /\ svc /= NoService
             /\ gInitFlag' = TRUE /\ gVdspService' = svc /\ linked' = svc
    BY <2>2 DEF ConnectionInv
  <2>3. CASE /\ pc[t] \notin NoProxyPCs /\ cs[t] = svc
             /\ gInitFlag' = FALSE
             /\ gVdspService' = NoService /\ linked' = NoService
    BY <2>3 DEF ConnectionInv
  <2> QED
    BY <2>1, <2>2, <2>3, CallConnectionStep
<1>3. ASSUME NEW u \in Threads
      PROVE  /\ cs'[u] <= svcCount /\ (pc'[u] \notin NoProxyPCs => cs'[u] /= NoService)
             /\ deathNotes > 0 => (pc'[u] \notin NoProxyPCs => cs'[u] /= svc)
  <2>1. CASE u /= t
    BY <2>1, CallLocalsStep DEF ConnectionInv
  <2>2. CASE u = t /\ pc[t] \notin NoProxyPCs /\ cs'[t] = cs[t]
    BY <2>2 DEF ConnectionInv
  <2>3. CASE u = t /\ pc'[t] = "idle" /\ cs'[t] = NoService
    BY <2>3 DEF ConnectionInv, NoProxyPCs
  <2>4. CASE u = t /\ pc'[t] \in GetPCs /\ cs'[t] = cs[t]
    BY <2>4 DEF ConnectionInv, NoProxyPCs
  <2>5. CASE u = t /\ cs'[t] = gVdspService' /\ gVdspService' /= NoService
    BY <1>2, <2>5 DEF ConnectionInv
  <2> QED
    BY <2>1, <2>2, <2>3, <2>4, <2>5, CallLocalsStep
<1> QED
  BY <1>1, <1>2, <1>3 DEF ConnectionInv

\* So do the service's death, its restart and the notification.
LEMMA ConnectionServiceStep ==
    ASSUME VdspTypeInv, ConnectionInv, ServiceStep \/ UNCHANGED vars
    PROVE  ConnectionInv'
<1> USE DEF VdspTypeInv, VdspTypeOK, NoService, ConnectionInv, sharedVars,
            fdVars, workVars, svcVars, localVars
<1>1. CASE ServiceDies
  BY <1>1 DEF ServiceDies
<1>2. CASE ServiceStarts
  BY <1>2 DEF ServiceStarts
<1>3. CASE DeathNotice
  BY <1>3 DEF DeathNotice
<1>4. CASE serviceDied
  <2>1. deathNotes > 0
    BY <1>4 DEF serviceDied, CallLocals
  <2> QED
    BY <1>4, <2>1 DEF serviceDied
<1>5. CASE UNCHANGED vars
  BY <1>5 DEF vars
<1> QED
  BY <1>1, <1>2, <1>3, <1>4, <1>5 DEF ServiceStep

\* What relates the generation of a call to the service process its proxy was
\* got from holds in every state, however often the service dies.
THEOREM ConnectionInvariant == VdspSpec => []ConnectionInv
<1>1. VdspInit => ConnectionInv
  BY DEF VdspInit, ConnectionInv, NoProxyPCs, NoService
<1>2. VdspTypeInv /\ ConnectionInv /\ [VdspNext]_vars => ConnectionInv'
  BY ConnectionCallStep, ConnectionServiceStep DEF VdspNext, CallStep, ServiceStep
<1> QED
  BY <1>1, <1>2, VdspTypeInvariant, PTL DEF VdspSpec

\* The generation under which a command on its way to the live service was
\* admitted is the current one, on every interleaving of any number of calls
\* with any number of deaths, restarts and death notices: no notice of an
\* earlier service is still to come when a call has reached the next one.
THEOREM LiveCommandsCorrect == VdspSpec => []LiveCommandsAreCurrent
<1>1. VdspInit => LiveCommandsAreCurrent
  BY DEF VdspInit, LiveCommandsAreCurrent, InFlight
<1>2. VdspTypeInv /\ ConnectionInv /\ LiveCommandsAreCurrent /\ [VdspNext]_vars
         => LiveCommandsAreCurrent'
  <2> SUFFICES ASSUME VdspTypeInv, ConnectionInv, LiveCommandsAreCurrent,
                      [VdspNext]_vars
               PROVE  LiveCommandsAreCurrent'
    OBVIOUS
  <2> USE DEF VdspTypeInv, VdspTypeOK, ConnectionInv, LiveCommandsAreCurrent,
              InFlight, NoProxyPCs, GetPCs, NoService
  <2>1. ASSUME NEW t \in Threads, CallStep(t)
        PROVE  LiveCommandsAreCurrent'
    BY <2>1, CallLocalsStep
  <2>2. CASE ServiceDies
    BY <2>2 DEF ServiceDies, sharedVars, localVars
  <2>3. CASE ServiceStarts
    BY <2>3 DEF ServiceStarts, sharedVars, localVars
  <2>4. CASE DeathNotice
    BY <2>4 DEF DeathNotice, sharedVars, svcVars, localVars
  <2>5. CASE serviceDied
    <3>1. deathNotes > 0
      BY <2>5 DEF serviceDied, CallLocals
    <3>2. UNCHANGED <<pc, cs, gen, svc>>
      BY <2>5 DEF serviceDied, localVars
    <3> QED
      BY <3>1, <3>2
  <2>6. CASE UNCHANGED vars
    BY <2>6 DEF vars, sharedVars, svcVars, localVars
  <2> QED
    BY <2>1, <2>2, <2>3, <2>4, <2>5, <2>6 DEF VdspNext, CallStep
<1> QED
  BY <1>1, <1>2, VdspTypeInvariant, ConnectionInvariant, PTL DEF VdspSpec

-----------------------------------------------------------------------------
(***************************************************************************)
(* gLock, until a close finds a handle of another generation.              *)
(***************************************************************************)

\* What a step of a call does to gLock: it takes the free lock, or unlocks what
\* it holds, or nothing; but for the second unlock of a close.
LEMMA LockVarsStep ==
    ASSUME VdspTypeInv, NEW t \in Threads, CallStep(t), pc[t] /= "close_unlock2"
    PROVE  LockFor(t) \/ (t \in inside /\ Unlock(t)) \/ UNCHANGED lockVars
<1> USE DEF Section, LockDuringIpc, lockVars
<1>1. CASE Begin(t) \/ Lock(t)
  BY <1>1 DEF Begin, OpenEnter, CloseEnter, CommandEnter, Enter, Lock
<1>2. CASE OpenGet(t) \/ CloseGet(t) \/ CommandGet(t)
  BY <1>2 DEF OpenGet, CloseGet, CommandGet, Got
<1>3. CASE OpenIpcOk(t) \/ OpenIpcFail(t) \/ CloseIpcOk(t) \/ CloseIpcFail(t)
  <2>1. t \in inside
    BY <1>3 DEF OpenIpcOk, OpenIpcFail, CloseIpcOk, CloseIpcFail, VdspTypeInv,
                CallLocals, IpcPCs
  <2> QED
    BY <1>3, <2>1 DEF OpenIpcOk, OpenIpcFail, CloseIpcOk, CloseIpcFail
<1>4. CASE OpenErr(t) \/ OpenFree(t)
  BY <1>4 DEF OpenErr, OpenFree
<1>5. CASE OpenNoFd(t) \/ OpenFirst(t) \/ OpenMore(t) \/ OpenMismatch(t)
  BY <1>5 DEF OpenNoFd, OpenFirst, OpenMore, OpenMismatch
<1>6. CASE CloseOldGeneration(t) \/ CloseUnlock2(t) \/ CloseBadFd(t)
  BY <1>6 DEF CloseOldGeneration, CloseUnlock2, CloseBadFd
<1>7. CASE CloseRefused(t) \/ CloseOneOfMany(t) \/ CloseLast(t)
  BY <1>7 DEF CloseRefused, CloseOneOfMany, CloseLast, CloseAccepted
<1>8. CASE CommandRefused(t) \/ CommandStart(t) \/ CommandDone(t)
  BY <1>8 DEF CommandRefused, CommandStart, CommandDone
<1> QED
  BY <1>1, <1>2, <1>3, <1>4, <1>5, <1>6, <1>7, <1>8 DEF CallStep, Proceed

\* Each of these keeps gLock with whoever is inside.
LEMMA ExclusiveStep ==
    ASSUME VdspTypeInv, Exclusive, NEW t \in Threads \cup {BinderThread},
           LockFor(t) \/ (t \in inside /\ Unlock(t)) \/ UNCHANGED lockVars
    PROVE  Exclusive'
BY VdspAssumption DEF VdspTypeInv, VdspTypeOK, Exclusive, LockFor, Unlock, Unlocked, lockVars

\* A handle that is being opened belongs to the thread that opens it.
OpeningIsPrivate ==
    \A t \in Threads : pc[t] \in OpenPCs =>
        hdl[t] \notin opened /\ \A u \in Threads \ {t} : hdl[u] /= hdl[t]

\* Under the first generation every open handle, and every call that opens or
\* closes one, is of it, so that sprd_vdsp_close_device_serv does not take the
\* path that unlocks twice.
FirstGeneration ==
    gGeneration = 0 =>
        /\ Exclusive
        /\ \A h \in opened : handle[h].generation = 0
        /\ \A t \in Threads :
              /\ pc[t] = "open_ipc" => handle[hdl[t]].generation = 0
              /\ pc[t] \in {"close_get", "close_lock"} => gen[t] = 0
              /\ pc[t] /= "close_unlock2"

\* Who talks to the service to close the device found no command in flight.
ClosingIsIdle == \A t \in Threads : pc[t] = "close_ipc" => gWorking = 0

\* A call that begins has a handle nobody is opening.
LEMMA OpeningStep ==
    ASSUME VdspTypeInv, OpeningIsPrivate, NEW t \in Threads, CallStep(t)
    PROVE  OpeningIsPrivate'
<1> USE VdspAssumption
    DEF OpeningIsPrivate, VdspTypeInv, VdspTypeOK, CallLocals, OpenPCs, Section, Return,
        Goto, ReportOpen, fdVars
<1>1. ASSUME NEW h \in Handles, NEW type \in WorkTypes, OpenEnter(t, h, type)
      PROVE  OpeningIsPrivate'
  BY <1>1 DEF OpenEnter, Enter, Users
<1>2. ASSUME NEW h \in Handles, CloseEnter(t, h)
      PROVE  OpeningIsPrivate'
  BY <1>2 DEF CloseEnter, Enter
<1>3. ASSUME NEW h \in Handles, NEW kind \in Kinds, CommandEnter(t, h, kind)
      PROVE  OpeningIsPrivate'
  BY <1>3 DEF CommandEnter, Enter
<1>4. CASE Lock(t)
  BY <1>4 DEF Lock
<1>5. CASE OpenGet(t) \/ CloseGet(t) \/ CommandGet(t)
  BY <1>5 DEF OpenGet, CloseGet, CommandGet, Got
<1>6. CASE OpenNoFd(t) \/ OpenFirst(t)
  BY <1>6 DEF OpenNoFd, OpenFirst
<1>7. CASE OpenMore(t) \/ OpenMismatch(t)
  BY <1>7 DEF OpenMore, OpenMismatch
<1>8. CASE OpenIpcOk(t) \/ OpenIpcFail(t)
  BY <1>8 DEF OpenIpcOk, OpenIpcFail
<1>9. CASE OpenErr(t) \/ OpenFree(t)
  BY <1>9 DEF OpenErr, OpenFree
<1>10. CASE CloseOldGeneration(t) \/ CloseUnlock2(t) \/ CloseBadFd(t)
  BY <1>10 DEF CloseOldGeneration, CloseUnlock2, CloseBadFd
<1>11. CASE CloseRefused(t) \/ CloseOneOfMany(t) \/ CloseLast(t)
  BY <1>11 DEF CloseRefused, CloseOneOfMany, CloseLast, CloseAccepted
<1>12. CASE CloseIpcOk(t) \/ CloseIpcFail(t)
  BY <1>12 DEF CloseIpcOk, CloseIpcFail
<1>13. CASE CommandRefused(t) \/ CommandStart(t) \/ CommandDone(t)
  BY <1>13 DEF CommandRefused, CommandStart, CommandDone
<1> QED
  BY <1>1, <1>2, <1>3, <1>4, <1>5, <1>6, <1>7, <1>8, <1>9, <1>10, <1>11, <1>12, <1>13
     DEF CallStep, Begin, Proceed

\* Every step of a call under the first generation, but what it does to gLock.
LEMMA FirstGenerationCall ==
    ASSUME VdspTypeInv, OpeningIsPrivate, FirstGeneration, gGeneration = 0,
           NEW t \in Threads, CallStep(t)
    PROVE  /\ \A h \in opened' : handle'[h].generation = 0
           /\ \A u \in Threads :
                 /\ pc'[u] = "open_ipc" => handle'[hdl'[u]].generation = 0
                 /\ pc'[u] \in {"close_get", "close_lock"} => gen'[u] = 0
                 /\ pc'[u] /= "close_unlock2"
<1> USE VdspAssumption
    DEF OpeningIsPrivate, FirstGeneration, VdspTypeInv, VdspTypeOK, CallLocals, OpenPCs,
        Section, Return, Goto, SetHandle, ReportOpen, fdVars
<1>1. CASE Begin(t)
  BY <1>1 DEF Begin, OpenEnter, CloseEnter, CommandEnter, Enter
<1>2. CASE Lock(t)
  BY <1>2 DEF Lock
<1>3. CASE OpenGet(t) \/ CloseGet(t) \/ CommandGet(t)
  BY <1>3 DEF OpenGet, CloseGet, CommandGet, Got
<1>4. CASE OpenNoFd(t)
  BY <1>4 DEF OpenNoFd
<1>5. CASE OpenFirst(t)
  BY <1>5 DEF OpenFirst
<1>6. CASE OpenMore(t)
  BY <1>6 DEF OpenMore
<1>7. CASE OpenMismatch(t)
  BY <1>7 DEF OpenMismatch
<1>8. CASE OpenIpcOk(t) \/ OpenIpcFail(t)
  BY <1>8 DEF OpenIpcOk, OpenIpcFail
<1>9. CASE OpenErr(t) \/ OpenFree(t)
  BY <1>9 DEF OpenErr, OpenFree
<1>10. CASE CloseOldGeneration(t) \/ CloseUnlock2(t)
  BY <1>10 DEF CloseOldGeneration, CloseUnlock2, Check_GenrationValid
<1>11. CASE CloseBadFd(t) \/ CloseRefused(t)
  BY <1>11 DEF CloseBadFd, CloseRefused, CloseAccepted
<1>12. CASE CloseOneOfMany(t) \/ CloseLast(t)
  BY <1>12 DEF CloseOneOfMany, CloseLast, CloseAccepted
<1>13. CASE CloseIpcOk(t) \/ CloseIpcFail(t)
  BY <1>13 DEF CloseIpcOk, CloseIpcFail
<1>14. CASE CommandRefused(t) \/ CommandStart(t) \/ CommandDone(t)
  BY <1>14 DEF CommandRefused, CommandStart, CommandDone
<1> QED
  BY <1>1, <1>2, <1>3, <1>4, <1>5, <1>6, <1>7, <1>8, <1>9, <1>10, <1>11, <1>12, <1>13,
     <1>14 DEF CallStep, Proceed

\* A command that starts or ends is inside gLock, which who closes the device
\* has held since it looked at gWorking.
LEMMA ClosingStep ==
    ASSUME VdspTypeInv, Exclusive, ClosingIsIdle, NEW t \in Threads, CallStep(t)
    PROVE  ClosingIsIdle'
<1>1. CASE CommandStart(t) \/ CommandDone(t)
  <2>1. t \in inside /\ pc[t] /= "close_ipc" /\ pc'[t] /= "close_ipc"
        /\ \A u \in Threads \ {t} : pc'[u] = pc[u]
    BY <1>1 DEF CommandStart, CommandDone, Section, Goto, Return, VdspTypeInv, VdspTypeOK
  <2>2. \A u \in Threads : pc[u] /= "close_ipc"
    BY <2>1 DEF VdspTypeInv, CallLocals, IpcPCs, Exclusive
  <2> QED
    BY <2>1, <2>2 DEF ClosingIsIdle
<1>2. CASE CloseLast(t)
  <2>1. gWorking = 0 /\ gWorking' = gWorking
    BY <1>2 DEF CloseLast, CloseIsBusy, workVars
  <2> QED
    BY <2>1 DEF ClosingIsIdle
<1>3. CASE ~CommandStart(t) /\ ~CommandDone(t) /\ ~CloseLast(t)
  <2>1. gWorking' = gWorking
    BY <1>3, NoCommandControl DEF NoCommandStep
  <2>2. \A u \in Threads : pc'[u] = "close_ipc" => pc[u] = "close_ipc"
    <3> USE DEF VdspTypeInv, VdspTypeOK, Section, Return, Goto
    <3>1. CASE Begin(t) \/ Lock(t)
      BY <3>1 DEF Begin, OpenEnter, CloseEnter, CommandEnter, Enter, Lock
    <3>2. CASE OpenGet(t) \/ CloseGet(t) \/ CommandGet(t)
      BY <3>2 DEF OpenGet, CloseGet, CommandGet, Got
    <3>3. CASE OpenNoFd(t) \/ OpenFirst(t) \/ OpenMore(t) \/ OpenMismatch(t)
      BY <3>3 DEF OpenNoFd, OpenFirst, OpenMore, OpenMismatch
    <3>4. CASE OpenIpcOk(t) \/ OpenIpcFail(t) \/ OpenErr(t) \/ OpenFree(t)
      BY <3>4 DEF OpenIpcOk, OpenIpcFail, OpenErr, OpenFree
    <3>5. CASE CloseOldGeneration(t) \/ CloseUnlock2(t) \/ CloseBadFd(t) \/ CloseRefused(t)
      BY <3>5 DEF CloseOldGeneration, CloseUnlock2, CloseBadFd, CloseRefused
    <3>6. CASE CloseOneOfMany(t) \/ CloseIpcOk(t) \/ CloseIpcFail(t) \/ CommandRefused(t)
      BY <3>6 DEF CloseOneOfMany, CloseIpcOk, CloseIpcFail, CommandRefused
    <3> QED
      BY <1>3, <3>1, <3>2, <3>3, <3>4, <3>5, <3>6 DEF CallStep, Proceed
  <2> QED
    BY <2>1, <2>2 DEF ClosingIsIdle
<1> QED
  BY <1>1, <1>2, <1>3

LockInv == OpeningIsPrivate /\ FirstGeneration /\ ClosingIsIdle

\* Mutual exclusion until the first death notice, and what a close relies on
\* for as long as there is mutual exclusion.
THEOREM LockInvariant == VdspSpec => []LockInv
<1>1. VdspInit => LockInv
  BY DEF VdspInit, LockInv, OpeningIsPrivate, FirstGeneration, ClosingIsIdle, OpenPCs,
         Exclusive
<1>2. VdspTypeInv /\ LockInv /\ [VdspNext]_vars => LockInv'
  <2> SUFFICES ASSUME VdspTypeInv, LockInv, [VdspNext]_vars PROVE LockInv'
    OBVIOUS
  <2> USE DEF LockInv
  <2>1. ASSUME NEW t \in Threads, CallStep(t), Exclusive
        PROVE  LockInv'
    <3>1. OpeningIsPrivate' /\ ClosingIsIdle'
      BY <2>1, OpeningStep, ClosingStep
    <3>2. FirstGeneration'
      <4> SUFFICES ASSUME gGeneration' = 0 PROVE FirstGeneration'
        BY DEF FirstGeneration
      <4>1. gGeneration = 0
        BY <2>1, CallLocalsStep
      <4>2. Exclusive'
        <5>1. pc[t] /= "close_unlock2"
          BY <4>1 DEF FirstGeneration
        <5> QED
          BY <2>1, <5>1, LockVarsStep, ExclusiveStep
      <4> QED
        BY <2>1, <4>1, <4>2, FirstGenerationCall DEF FirstGeneration
    <3> QED
      BY <3>1, <3>2
  <2>2. CASE ServiceStep
    <3>1. OpeningIsPrivate' /\ ClosingIsIdle'
      BY <2>2, ServiceControl DEF OpeningIsPrivate, ClosingIsIdle
    <3>2. FirstGeneration'
      <4> SUFFICES ASSUME gGeneration' = 0 PROVE FirstGeneration'
        BY DEF FirstGeneration
      <4>1. gGeneration = 0 /\ ~serviceDied
        BY <2>2 DEF ServiceStep, ServiceDies, ServiceStarts, DeathNotice, serviceDied,
                    sharedVars, VdspTypeInv, VdspTypeOK
      <4>2. LockFor(BinderThread) \/ UNCHANGED lockVars
        BY <2>2, <4>1 DEF ServiceStep, ServiceDies, ServiceStarts, DeathNotice
      <4>3. Exclusive'
        BY <4>1, <4>2, ExclusiveStep DEF FirstGeneration
      <4> QED
        BY <2>2, <4>1, <4>3, ServiceControl DEF FirstGeneration
    <3> QED
      BY <3>1, <3>2
  <2>3. CASE UNCHANGED vars
    BY <2>3 DEF vars, sharedVars, lockVars, fdVars, workVars, localVars, OpeningIsPrivate,
                FirstGeneration, ClosingIsIdle, Exclusive
  <2> QED
    BY <2>1, <2>2, <2>3 DEF VdspNext, CallStep, ServiceStep
<1> QED
  BY <1>1, <1>2, VdspTypeInvariant, PTL DEF VdspSpec

\* Until a first death notice has been handled gLock keeps everybody else out
\* of every section, whatever the callers overlap, close twice or let fail, and
\* wherever the service dies: no open handle is of another generation, so no
\* close unlocks what it does not hold.
THEOREM LockExclusiveCorrect == VdspSpec => []LockExclusive
<1>1. LockInv => LockExclusive
  BY DEF LockInv, FirstGeneration, LockExclusive
<1> QED
  BY <1>1, LockInvariant, PTL

\* As long as gLock has kept everybody else out, the device is not closed while
\* a command is in flight, also not after restarts of the service, and also not
\* by a close that answers to another connection.
THEOREM NotClosedUnderCommandsCorrect == VdspSpec => []NotClosedUnderCommands
<1>1. LockInv /\ GWorkingExact => NotClosedUnderCommands
  <2>1. IsFiniteSet(InFlight)
    BY VdspAssumption, FS_Subset DEF InFlight
  <2> QED
    BY <2>1, FS_EmptySet
       DEF LockInv, ClosingIsIdle, GWorkingExact, NotClosedUnderCommands
<1> QED
  BY <1>1, LockInvariant, GWorkingCorrect, PTL

-----------------------------------------------------------------------------
(***************************************************************************)
(* What the library keeps as long as its callers and the service behave:   *)
(* the service neither dies nor fails to close the device, no open         *)
(* overlaps a close, nobody closes a handle in use, and opens overlap      *)
(* opens only of the same work type and where the service fails none.      *)
(* They may be refused for their type, all of them then.  Closes may       *)
(* overlap closes, and commands overlap with everything.                   *)
(***************************************************************************)
Calm ==
    /\ MaxDeaths = 0 /\ ~CloseBusy /\ ~CloseFails
    /\ \/ Overlap = "none"
       \/ Overlap = "alike" /\ ~OpenFails

Opening(t) == pc[t] \in OpenPCs
Closing(t) == pc[t] \in ClosePCs
Commanding(t) == pc[t] \in {"cmd_get", "cmd_lock", "cmd_ipc"}

\* Openers beside openers, closers beside closers, and all calls on one
\* connection.
Connected ==
    /\ gGeneration = 0 /\ deathNotes = 0
    /\ svc = 1 /\ svcCount = 1
    /\ gVdspService = (IF gInitFlag THEN svc ELSE NoService)
    /\ gfakeBinder = gVdspService
    /\ ~gInitFlag => opened = {}
    /\ gOpenedCount /= 0 => gWorkType \in WorkTypes
    /\ \A t \in Threads : pc[t] \notin NoProxyPCs => cs[t] = svc
    /\ \A t \in Threads : Opening(t) =>
          /\ pc[t] /= "open_get" => gInitFlag
          /\ \A u \in Threads : ~Closing(u)
    /\ \A t \in Threads : Overlap = "none" /\ (Opening(t) \/ Closing(t)) =>
          \A u \in Threads \ {t} : ~Opening(u) /\ ~Closing(u)
    /\ \A t, u \in Threads : Opening(t) /\ Opening(u) => arg[t] = arg[u]
    /\ \A t \in Threads : pc[t] \in {"open_err", "open_free"} =>
          Overlap = "none" \/ (gOpenedCount /= 0 /\ gWorkType /= arg[t])

\* What a call knows of its handle, of its descriptor and of the table.
CallsKnow ==
    \A t \in Threads :
        /\ Closing(t) \/ Commanding(t) =>
              hdl[t] \in opened /\ fd[t] = handle[hdl[t]].fd
        /\ Closing(t) => \A u \in Threads \ {t} : hdl[u] /= hdl[t]
        /\ pc[t] \in {"open_ipc", "open_err", "open_free"} =>
              \A h \in opened : handle[h].fd /= fd[t]
        /\ pc[t] = "open_ipc" =>
              /\ fd[t] = handle[hdl[t]].fd /\ fd[t] \in g_fdtable
              /\ gOpenedCount = 0
        /\ \/ t \in inside /\ pc[t] \in {"open_lock", "close_lock"}
           \/ pc[t] = "open_free"
           => \A h \in opened : handle[h].fd \in table[t]

\* Every open handle has a descriptor of its own.
FdsKept ==
    /\ \A h \in opened : handle[h].fd \in g_fdtable
    /\ \A h1, h2 \in opened : h1 /= h2 => handle[h1].fd /= handle[h2].fd

\* gOpenedCount, and the device of the service.
CountKept ==
    /\ svcOpen <=> opened /= {}
    /\ \A t \in Threads : pc[t] = "close_ipc" => gOpenedCount = 0 /\ opened = {hdl[t]}
    /\ (\A t \in Threads : pc[t] /= "close_ipc") => gOpenedCount = Cardinality(opened)

CalmInv == Connected /\ CallsKnow /\ FdsKept /\ CountKept /\ FdWorkingExact

\* What the lemmas below start from.
CalmState == VdspTypeInv /\ LockInv /\ GWorkingExact /\ CalmInv

\* Only one thread is inside gLock.
LEMMA InsideAlone ==
    ASSUME CalmState, NEW t \in inside, NEW u \in Threads, u /= t
    PROVE  u \notin inside /\ pc[u] \notin GetPCs \cup IpcPCs
BY DEF CalmState, CalmInv, Connected, LockInv, FirstGeneration, Exclusive, VdspTypeInv,
       CallLocals

\* What the section of an open starts from: its handle is used by this call
\* alone, the others are on their way to gLock, from their refusal or to their
\* commands, and the descriptor it is given is one of no open handle.
LEMMA OpenSection ==
    ASSUME CalmState, NEW t \in Threads, Section(t, "open_lock")
    PROVE  /\ hdl[t] \in Handles /\ hdl[t] \notin opened
           /\ \A u \in Threads \ {t} :
                 /\ hdl[u] /= hdl[t] /\ ~Closing(u) /\ u \notin inside
                 /\ Opening(u) => pc[u] \in {"open_lock", "open_err", "open_free"}
                 /\ Opening(u) /\ (gOpenedCount = 0 \/ arg[t] = gWorkType) =>
                       pc[u] = "open_lock"
           /\ \A u \in Threads : pc[u] /= "close_ipc"
           /\ gInitFlag /\ table[t] \subseteq Fds
           /\ \A h \in opened : handle[h].fd \in table[t]
           /\ NewFd(t) /= NoFd =>
                 /\ NewFd(t) \in Fds /\ NewFd(t) \notin table[t]
                 /\ \A h \in opened : handle[h].fd /= NewFd(t)
<1>1. hdl[t] \in Handles
  BY DEF CalmState, VdspTypeInv, CallLocals, Section
<1>2. hdl[t] \notin opened /\ \A u \in Threads \ {t} : hdl[u] /= hdl[t]
  BY DEF CalmState, LockInv, OpeningIsPrivate, OpenPCs, Section
<1>3. \A u \in Threads : ~Closing(u) /\ pc[u] /= "close_ipc"
  BY DEF CalmState, CalmInv, Connected, Opening, Closing, OpenPCs, ClosePCs, Section
<1>4. ASSUME NEW u \in Threads \ {t}
      PROVE  /\ u \notin inside
             /\ Opening(u) => pc[u] \in {"open_lock", "open_err", "open_free"}
             /\ Opening(u) /\ (gOpenedCount = 0 \/ arg[t] = gWorkType) =>
                   pc[u] = "open_lock"
  <2>1. u \notin inside /\ pc[u] \notin GetPCs \cup IpcPCs
    BY InsideAlone DEF Section
  <2>2. gOpenedCount = 0 \/ arg[t] = gWorkType => pc[u] \notin {"open_err", "open_free"}
    BY DEF CalmState, CalmInv, Connected, Opening, OpenPCs, Section
  <2> QED
    BY <2>1, <2>2 DEF Opening, OpenPCs, GetPCs, IpcPCs
<1>5. gInitFlag
  BY DEF CalmState, CalmInv, Connected, Opening, OpenPCs, Section
<1>6. table[t] \subseteq Fds /\ \A h \in opened : handle[h].fd \in table[t]
  BY DEF CalmState, CalmInv, CallsKnow, Section, VdspTypeInv, VdspTypeOK
<1>7. NewFd(t) /= NoFd => NewFd(t) \in Fds /\ NewFd(t) \notin table[t]
  BY <1>6, AllocFdType DEF NewFd
<1> QED
  BY <1>1, <1>2, <1>3, <1>4, <1>5, <1>6, <1>7

\* The same of a call to openXrpDevice.
LEMMA OpenCall ==
    ASSUME CalmState, NEW t \in Threads, pc[t] = "open_ipc"
    PROVE  /\ hdl[t] \in Handles /\ hdl[t] \notin opened
           /\ \A u \in Threads \ {t} :
                 /\ hdl[u] /= hdl[t] /\ ~Closing(u) /\ u \notin inside
                 /\ Opening(u) => pc[u] = "open_lock"
           /\ \A u \in Threads : pc[u] /= "close_ipc"
           /\ gInitFlag /\ t \in inside
<1>0. t \in inside
  BY DEF CalmState, VdspTypeInv, CallLocals, IpcPCs
<1>1. hdl[t] \in Handles
  BY DEF CalmState, VdspTypeInv, CallLocals
<1>2. hdl[t] \notin opened /\ \A u \in Threads \ {t} : hdl[u] /= hdl[t]
  BY DEF CalmState, LockInv, OpeningIsPrivate, OpenPCs
<1>3. \A u \in Threads : ~Closing(u) /\ pc[u] /= "close_ipc"
  BY DEF CalmState, CalmInv, Connected, Opening, Closing, OpenPCs, ClosePCs
<1>4. ASSUME NEW u \in Threads \ {t}
      PROVE  u \notin inside /\ (Opening(u) => pc[u] = "open_lock")
  <2>1. u \notin inside /\ pc[u] \notin GetPCs \cup IpcPCs
    BY <1>0, InsideAlone
  <2>2. pc[u] \notin {"open_err", "open_free"}
    BY DEF CalmState, CalmInv, Connected, CallsKnow, Opening, OpenPCs
  <2> QED
    BY <2>1, <2>2 DEF Opening, OpenPCs, GetPCs, IpcPCs
<1>5. gInitFlag
  BY DEF CalmState, CalmInv, Connected, Opening, OpenPCs
<1> QED
  BY <1>0, <1>1, <1>2, <1>3, <1>4, <1>5

\* What an open writes to its handle.
LEMMA HandleSet ==
    ASSUME VdspTypeInv, NEW h \in Handles, NEW f, NEW g,
           handle' = [handle EXCEPT ![h] = [fd |-> f, generation |-> g]]
    PROVE  handle'[h].fd = f /\ \A o \in Handles \ {h} : handle'[o] = handle[o]
BY DEF VdspTypeInv, VdspTypeOK

\* The commands in flight on a descriptor are finitely many threads.
LEMMA OnFdFinite ==
    ASSUME NEW f
    PROVE  IsFiniteSet({t \in InFlight : fd[t] = f}) /\ IsFiniteSet(InFlight)
<1>1. IsFiniteSet(InFlight)
  BY VdspAssumption, FS_Subset DEF InFlight
<1> QED
  BY <1>1, FS_Subset

\* A handle that is being closed is not in use: the last one goes when nothing
\* is in flight, another when nothing is on its descriptor.
LEMMA NeverRefused ==
    ASSUME CalmState, NEW t \in Threads, Section(t, "close_lock")
    PROVE  /\ Check_GenrationValid(gen[t]) /\ fd[t] \in table[t] /\ ~CloseIsBusy(t)
           /\ gOpenedCount = Cardinality(opened) /\ hdl[t] \in opened
           /\ IsFiniteSet(opened) /\ \A h \in opened : handle[h].fd \in table[t]
           /\ \A u \in Threads \ {t} :
                 /\ hdl[u] /= hdl[t] /\ ~Opening(u) /\ u \notin inside
                 /\ Closing(u) => pc[u] = "close_lock"
<1> USE DEF CalmState, CalmInv
<1>1. /\ hdl[t] \in opened /\ fd[t] = handle[hdl[t]].fd /\ fd[t] \in table[t]
      /\ \A u \in Threads \ {t} : hdl[u] /= hdl[t]
      /\ \A h \in opened : handle[h].fd \in table[t]
  BY DEF CallsKnow, FdsKept, Closing, ClosePCs, Section
<1>2. gen[t] = gGeneration
  BY DEF Connected, LockInv, FirstGeneration, Section
<1>3. \A u \in Threads \ {t} : ~Opening(u) /\ u \notin inside
         /\ (Closing(u) => pc[u] = "close_lock")
  <2> SUFFICES ASSUME NEW u \in Threads \ {t}
               PROVE  ~Opening(u) /\ u \notin inside
                      /\ (Closing(u) => pc[u] = "close_lock")
    OBVIOUS
  <2>1. u \notin inside /\ pc[u] \notin GetPCs \cup IpcPCs
    BY InsideAlone DEF Section
  <2>2. ~Opening(u)
    BY DEF Connected, Closing, ClosePCs, Section
  <2>3. pc[u] /= "close_unlock2"
    BY DEF Connected, LockInv, FirstGeneration
  <2> QED
    BY <2>1, <2>2, <2>3 DEF Closing, ClosePCs, GetPCs, IpcPCs
<1>4. gOpenedCount = Cardinality(opened) /\ IsFiniteSet(opened)
  <2>1. opened \subseteq Handles
    BY DEF VdspTypeInv, VdspTypeOK
  <2>2. IsFiniteSet(opened)
    BY ONLY <2>1, VdspAssumption, FS_Subset
  <2>3. \A u \in Threads : pc[u] /= "close_ipc"
    BY <1>3 DEF Closing, ClosePCs, Section
  <2> QED
    BY <2>2, <2>3 DEF CountKept
<1>5. CASE gOpenedCount = 1
  <2>1. opened = {hdl[t]}
    <3>1. PICK x : opened = {x}
      BY ONLY <1>4, <1>5, FS_Singleton
    <3> QED
      BY <1>1, <3>1
  <2>2. InFlight = {}
    BY <1>1, <2>1 DEF InFlight, CallsKnow, Commanding, Section
  <2>3. gWorking = 0
    BY <2>2, FS_EmptySet DEF GWorkingExact, Connected, LockInv, FirstGeneration
  <2> QED
    BY <1>1, <1>2, <1>3, <1>4, <1>5, <2>3 DEF CloseIsBusy, Check_GenrationValid
<1>6. CASE gOpenedCount /= 1
  <2>1. {u \in InFlight : fd[u] = fd[t]} = {}
    BY <1>1 DEF InFlight, CallsKnow, Commanding, FdsKept, Section
  <2>2. working[fd[t]] = 0
    BY <1>1, <2>1, FS_EmptySet DEF FdWorkingExact, VdspTypeInv, VdspTypeOK
  <2> QED
    BY <1>1, <1>2, <1>3, <1>4, <1>6, <2>2 DEF CloseIsBusy, Check_GenrationValid
<1> QED
  BY <1>5, <1>6

\* The last handle has nobody else opening, closing or commanding.
LEMMA LastClose ==
    ASSUME CalmState, NEW t \in Threads, pc[t] = "close_ipc"
    PROVE  /\ opened = {hdl[t]} /\ gOpenedCount = 0 /\ gInitFlag /\ t \in inside
           /\ \A u \in Threads \ {t} :
                 u \notin inside /\ ~Opening(u) /\ ~Closing(u) /\ ~Commanding(u)
<1> USE DEF CalmState, CalmInv
<1>1. opened = {hdl[t]} /\ gOpenedCount = 0
  BY DEF CountKept
<1>2. t \in inside
  BY DEF VdspTypeInv, CallLocals, IpcPCs
<1>3. gInitFlag
  BY <1>1 DEF Connected
<1>4. \A u \in Threads \ {t} : u \notin inside
  BY <1>2, InsideAlone
<1>5. \A u \in Threads \ {t} : ~Opening(u)
  BY DEF Connected, Closing, ClosePCs
<1>6. \A u \in Threads \ {t} : ~Closing(u) /\ ~Commanding(u)
  BY <1>1 DEF CallsKnow, Closing, ClosePCs
<1> QED
  BY <1>1, <1>2, <1>3, <1>4, <1>5, <1>6

\* The steps that are left to a calm client.
CalmStep(t) ==
    \/ Begin(t) \/ Lock(t)
    \/ OpenGet(t) \/ CloseGet(t) \/ CommandGet(t)
    \/ OpenNoFd(t) \/ OpenFirst(t) \/ OpenMore(t) \/ OpenMismatch(t)
    \/ OpenIpcOk(t) \/ OpenIpcFail(t) \/ OpenErr(t) \/ OpenFree(t)
    \/ CloseOneOfMany(t) \/ CloseLast(t) \/ CloseIpcOk(t)
    \/ CommandRefused(t) \/ CommandStart(t) \/ CommandDone(t)

\* Nobody is refused a close, sees another generation, or loses the service.
LEMMA CalmCases ==
    ASSUME Calm, CalmState, [VdspNext]_vars
    PROVE  (\E t \in Threads : CalmStep(t)) \/ UNCHANGED vars
<1>1. ~ServiceDies /\ ~ServiceStarts /\ ~DeathNotice /\ ~serviceDied
  BY DEF Calm, CalmState, CalmInv, Connected, ServiceDies, ServiceStarts, DeathNotice,
         serviceDied, NoService, VdspTypeInv, CallLocals
<1>2. ASSUME NEW t \in Threads
      PROVE  ~CloseOldGeneration(t) /\ ~CloseBadFd(t) /\ ~CloseRefused(t)
  BY NeverRefused DEF CloseOldGeneration, CloseBadFd, CloseRefused, CloseAccepted
<1>3. ASSUME NEW t \in Threads
      PROVE  ~CloseUnlock2(t) /\ ~CloseIpcFail(t)
  BY DEF Calm, CalmState, CalmInv, Connected, LockInv, FirstGeneration, CloseUnlock2,
         CloseIpcFail, NoProxyPCs, GetPCs
<1> QED
  BY <1>1, <1>2, <1>3 DEF VdspNext, Proceed, CalmStep

\* The connection.
LEMMA ConnectedStep ==
    ASSUME Calm, CalmState, NEW t \in Threads, CalmStep(t)
    PROVE  Connected'
<1> USE VdspAssumption
    DEF Calm, CalmState, CalmInv, VdspTypeInv, VdspTypeOK, OpenPCs, ClosePCs, GetPCs,
        NoProxyPCs, Opening, Closing, Section, Return, Goto, sharedVars, lockVars, fdVars,
        svcVars
<1> USE DEF Connected
<1>1. ASSUME NEW h \in Handles, NEW type \in WorkTypes, OpenEnter(t, h, type) PROVE Connected'
  BY <1>1 DEF OpenEnter, Enter, MayOverlap, Users
<1>2. ASSUME NEW h \in Handles, CloseEnter(t, h) PROVE Connected'
  BY <1>2 DEF CloseEnter, Enter, MayOverlap, Users
<1>3. ASSUME NEW h \in Handles, NEW kind \in Kinds, CommandEnter(t, h, kind) PROVE Connected'
  BY <1>3 DEF CommandEnter, Enter, Users
<1>4. ASSUME Lock(t) PROVE Connected'
  BY <1>4 DEF Lock, LockPCs
<1>5. ASSUME OpenGet(t) PROVE Connected'
  <2>1. /\ gInitFlag' /\ gVdspService' = svc
        /\ gOpenedCount' = gOpenedCount \/ gOpenedCount' = 0
        /\ gWorkType' = gWorkType \/ gOpenedCount' = 0
        /\ gInitFlag => UNCHANGED <<gOpenedCount, gWorkType>>
        /\ gfakeBinder' = svc
    BY <1>5 DEF OpenGet, Connect, NoService
  <2>2. /\ pc[t] = "open_get"
        /\ pc' = [pc EXCEPT ![t] = "open_lock"] /\ cs' = [cs EXCEPT ![t] = svc]
        /\ UNCHANGED <<gGeneration, svc, svcCount, deathNotes, opened, arg>>
    BY <1>5, <2>1 DEF OpenGet, Got, NoService
  <2> QED
    BY <2>1, <2>2
<1>6. ASSUME CloseGet(t) PROVE Connected'
  <2>1. gInitFlag /\ gVdspService' = svc
    BY <1>6 DEF CloseGet, CallsKnow, Commanding
  <2>2. /\ pc[t] = "close_get"
        /\ pc' = [pc EXCEPT ![t] = "close_lock"] /\ cs' = [cs EXCEPT ![t] = svc]
        /\ UNCHANGED <<sharedVars, fdVars, svcVars, arg>>
    BY <1>6, <2>1 DEF CloseGet, Got, NoService
  <2> QED
    BY <2>1, <2>2
<1>7. ASSUME CommandGet(t) PROVE Connected'
  <2>1. gInitFlag /\ gVdspService' = svc
    BY <1>7 DEF CommandGet, CallsKnow, Commanding
  <2>2. /\ pc[t] = "cmd_get"
        /\ pc' = [pc EXCEPT ![t] = "cmd_lock"] /\ cs' = [cs EXCEPT ![t] = svc]
        /\ UNCHANGED <<sharedVars, fdVars, svcVars, arg>>
    BY <1>7, <2>1 DEF CommandGet, Got, NoService
  <2> QED
    BY <2>1, <2>2
<1>8. ASSUME OpenNoFd(t) PROVE Connected'
  BY <1>8 DEF OpenNoFd
<1>9. ASSUME OpenFirst(t) PROVE Connected'
  BY <1>9 DEF OpenFirst
<1>10. ASSUME OpenMore(t) PROVE Connected'
  <2>1. gInitFlag /\ pc' = [pc EXCEPT ![t] = "idle"]
    BY <1>10, OpenSection DEF OpenMore
  <2> QED
    BY <1>10, <2>1 DEF OpenMore
<1>11. ASSUME OpenMismatch(t) PROVE Connected'
  BY <1>11 DEF OpenMismatch
<1>12. ASSUME OpenIpcOk(t) PROVE Connected'
  <2>1. gInitFlag /\ arg[t] \in WorkTypes
        /\ \A u \in Threads \ {t} : Opening(u) => pc[u] = "open_lock"
    BY <1>12, OpenCall DEF OpenIpcOk, CallLocals
  <2>2. /\ pc'[t] = "idle"
        /\ \A u \in Threads \ {t} : pc'[u] = pc[u] /\ cs'[u] = cs[u] /\ arg'[u] = arg[u]
        /\ gWorkType' = arg[t]
        /\ UNCHANGED <<gInitFlag, gGeneration, gVdspService, gfakeBinder>>
        /\ UNCHANGED <<svc, svcCount, deathNotes>>
    BY <1>12 DEF OpenIpcOk
  <2> QED
    BY <2>1, <2>2
<1>13. ASSUME OpenIpcFail(t) PROVE Connected'
  <2>1. Overlap = "none"
    BY <1>13, OpenCall DEF OpenIpcFail, CanOpen, NoService
  <2> QED
    BY <1>13, <2>1 DEF OpenIpcFail
<1>14. ASSUME OpenErr(t) PROVE Connected'
  <2>1. /\ pc[t] = "open_err" /\ pc'[t] \in {"idle", "open_free"}
        /\ pc'[t] /= "idle" => cs'[t] = cs[t] /\ arg'[t] = arg[t]
        /\ \A u \in Threads \ {t} : pc'[u] = pc[u] /\ cs'[u] = cs[u] /\ arg'[u] = arg[u]
        /\ UNCHANGED <<svc, svcCount, gVdspService, gInitFlag, gfakeBinder, opened>>
        /\ UNCHANGED <<gGeneration, deathNotes, gOpenedCount, gWorkType>>
    BY ONLY <1>14, VdspTypeOK, t \in Threads
       DEF OpenErr, Return, VdspTypeOK, sharedVars, fdVars, svcVars
  <2> QED
    BY <2>1
<1>15. ASSUME OpenFree(t) PROVE Connected'
  BY <1>15 DEF OpenFree
<1>16. ASSUME CloseOneOfMany(t) PROVE Connected'
  <2>1. gOpenedCount /= 0 /\ opened' = opened \ {hdl[t]}
    <3>1. gOpenedCount = Cardinality(opened) /\ hdl[t] \in opened /\ IsFiniteSet(opened)
      BY <1>16, NeverRefused DEF CloseOneOfMany, CloseAccepted
    <3> QED
      BY <1>16, <3>1, FS_EmptySet DEF CloseOneOfMany
  <2> QED
    BY <1>16, <2>1 DEF CloseOneOfMany, CloseAccepted
<1>17. ASSUME CloseLast(t) PROVE Connected'
  BY <1>17 DEF CloseLast, CloseAccepted
<1>18. ASSUME CloseIpcOk(t) PROVE Connected'
  <2>1. /\ opened' = {} /\ gInitFlag /\ pc'[t] = "idle"
        /\ \A u \in Threads \ {t} : ~Opening(u) /\ ~Closing(u)
        /\ \A u \in Threads \ {t} : pc'[u] = pc[u] /\ cs'[u] = cs[u]
    BY <1>18, LastClose DEF CloseIpcOk
  <2>2. /\ gInitFlag' = FALSE /\ gVdspService' = NoService /\ gfakeBinder' = NoService
        /\ gOpenedCount' = 0
        /\ UNCHANGED <<svc, svcCount, gGeneration, deathNotes>>
    BY <1>18, <2>1 DEF CloseIpcOk, putVdspService
  <2> QED
    BY <2>1, <2>2
<1>19. ASSUME CommandRefused(t) PROVE Connected'
  BY <1>19 DEF CommandRefused
<1>20. ASSUME CommandStart(t) PROVE Connected'
  BY <1>20 DEF CommandStart
<1>21. ASSUME CommandDone(t) PROVE Connected'
  BY <1>21 DEF CommandDone
<1> QED
  BY <1>1, <1>2, <1>3, <1>4, <1>5, <1>6, <1>7, <1>8, <1>9, <1>10, <1>11, <1>12, <1>13,
     <1>14, <1>15, <1>16, <1>17, <1>18, <1>19, <1>20, <1>21
     DEF CalmStep, Begin

\* The descriptors and the handles of the calls.
LEMMA CallsKnowStep ==
    ASSUME Calm, CalmState, NEW t \in Threads, CalmStep(t)
    PROVE  CallsKnow'
<1> USE VdspAssumption
    DEF Calm, CalmState, CalmInv, VdspTypeInv, VdspTypeOK, OpenPCs, ClosePCs, Opening,
        Closing, Commanding, Section, Return, Goto, sharedVars, lockVars, fdVars, svcVars
<1> USE DEF CallsKnow
<1>1. ASSUME NEW h \in Handles, NEW type \in WorkTypes, OpenEnter(t, h, type) PROVE CallsKnow'
  BY <1>1 DEF OpenEnter, Enter, LockFor, MayOverlap, Users
<1>2. ASSUME NEW h \in Handles, CloseEnter(t, h) PROVE CallsKnow'
  BY <1>2 DEF CloseEnter, Enter, LockFor, MayOverlap, Users
<1>3. ASSUME NEW h \in Handles, NEW kind \in Kinds, CommandEnter(t, h, kind) PROVE CallsKnow'
  BY <1>3 DEF CommandEnter, Enter, LockFor, Users
<1>4. ASSUME Lock(t) PROVE CallsKnow'
  <2>1. /\ t \notin inside /\ inside' = inside \cup {t}
        /\ UNCHANGED <<pc, hdl, fd, opened, handle, g_fdtable, gOpenedCount>>
    BY <1>4 DEF Lock, LockFor
  <2>2. \A u \in Threads \ {t} : table'[u] = table[u]
    BY <1>4 DEF Lock
  <2>3. pc[t] \in {"open_lock", "close_lock"} => table'[t] = g_fdtable
    BY <1>4 DEF Lock
  <2>4. pc[t] /= "open_free" /\ \A h \in opened : handle[h].fd \in g_fdtable
    BY <1>4 DEF Lock, LockPCs, FdsKept
  <2> QED
    BY <2>1, <2>2, <2>3, <2>4
<1>5. ASSUME OpenGet(t) PROVE CallsKnow'
  <2>1. /\ Section(t, "open_get") /\ inside' = inside \ {t}
        /\ UNCHANGED <<hdl, fd, table, opened, handle>>
        /\ pc' = [pc EXCEPT ![t] = "open_lock"]
        /\ \A u \in Threads : ~Closing(u)
    BY <1>5 DEF OpenGet, Connect, Got, Unlock, Connected, NoService
  <2>2. UNCHANGED <<g_fdtable, gOpenedCount>>
        \/ \A u \in Threads : Opening(u) => pc[u] = "open_get"
    BY <1>5 DEF OpenGet, Connected
  <2>3. \A u \in Threads \ {t} : u \notin inside /\ pc[u] /= "open_ipc"
    BY <2>1, InsideAlone DEF IpcPCs
  <2> QED
    BY <2>1, <2>2, <2>3
<1>6. ASSUME CloseGet(t) PROVE CallsKnow'
  <2>1. gVdspService' /= NoService
    BY <1>6 DEF CloseGet, Connected, NoService
  <2>2. /\ pc[t] = "close_get" /\ inside' = inside \ {t}
        /\ pc' = [pc EXCEPT ![t] = "close_lock"]
        /\ UNCHANGED <<hdl, fd, table, sharedVars, fdVars>>
    BY <1>6, <2>1 DEF CloseGet, Got, Unlock
  <2> QED
    BY <2>2
<1>7. ASSUME CommandGet(t) PROVE CallsKnow'
  <2>1. gVdspService' /= NoService
    BY <1>7 DEF CommandGet, Connected, NoService
  <2>2. /\ pc[t] = "cmd_get" /\ inside' = inside \ {t}
        /\ pc' = [pc EXCEPT ![t] = "cmd_lock"]
        /\ UNCHANGED <<hdl, fd, table, sharedVars, fdVars>>
    BY <1>7, <2>1 DEF CommandGet, Got, Unlock
  <2> QED
    BY <2>2
<1>8. ASSUME OpenNoFd(t) PROVE CallsKnow'
  <2>1. /\ hdl[t] \notin opened
        /\ \A u \in Threads \ {t} : hdl[u] /= hdl[t] /\ ~Closing(u) /\ u \notin inside
        /\ \A u \in Threads \ {t} :
              Opening(u) => pc[u] \in {"open_lock", "open_err", "open_free"}
    BY <1>8, OpenSection DEF OpenNoFd
  <2>2. \A h \in Handles \ {hdl[t]} : handle'[h] = handle[h]
    BY <1>8 DEF OpenNoFd
  <2> QED
    BY <1>8, <2>1, <2>2 DEF OpenNoFd, Unlock
<1>9. ASSUME OpenFirst(t) PROVE CallsKnow'
  <2>1. /\ hdl[t] \in Handles /\ hdl[t] \notin opened
        /\ \A h \in opened : handle[h].fd \in table[t]
        /\ \A u \in Threads \ {t} : hdl[u] /= hdl[t] /\ ~Closing(u) /\ u \notin inside
        /\ \A u \in Threads \ {t} : Opening(u) => pc[u] = "open_lock"
        /\ \A h \in opened : handle[h].fd /= NewFd(t)
    BY <1>9, OpenSection DEF OpenFirst
  <2>2. /\ handle'[hdl[t]].fd = NewFd(t)
        /\ \A h \in Handles \ {hdl[t]} : handle'[h] = handle[h]
    BY <1>9, <2>1, HandleSet DEF OpenFirst, SetHandle
  <2>3. /\ pc'[t] = "open_ipc" /\ fd'[t] = NewFd(t) /\ hdl' = hdl /\ inside' = inside
        /\ opened' = opened /\ g_fdtable' = table[t] \cup {NewFd(t)}
        /\ gOpenedCount' = 0
    BY <1>9, <2>1 DEF OpenFirst
  <2>4. \A u \in Threads \ {t} :
           /\ pc'[u] = pc[u] /\ hdl'[u] = hdl[u] /\ fd'[u] = fd[u] /\ table'[u] = table[u]
           /\ Commanding(u) => hdl[u] \in opened /\ fd[u] = handle[hdl[u]].fd
    BY <1>9 DEF OpenFirst
  <2> QED
    BY <2>1, <2>2, <2>3, <2>4
<1>10. ASSUME OpenMore(t) PROVE CallsKnow'
  <2>1. /\ hdl[t] \in Handles /\ hdl[t] \notin opened
        /\ \A h \in opened : handle[h].fd \in table[t]
        /\ \A u \in Threads \ {t} : hdl[u] /= hdl[t] /\ ~Closing(u) /\ u \notin inside
        /\ \A u \in Threads \ {t} : Opening(u) => pc[u] = "open_lock"
        /\ \A h \in opened : handle[h].fd /= NewFd(t)
    BY <1>10, OpenSection DEF OpenMore
  <2>2. /\ handle'[hdl[t]].fd = NewFd(t)
        /\ \A h \in Handles \ {hdl[t]} : handle'[h] = handle[h]
    BY <1>10, <2>1, HandleSet DEF OpenMore, SetHandle
  <2>3. /\ pc'[t] = "idle" /\ inside' = inside \ {t}
        /\ opened' = opened \cup {hdl[t]}
    BY <1>10, <2>1 DEF OpenMore, ReportOpen, Unlock
  <2>4. \A u \in Threads \ {t} :
           /\ pc'[u] = pc[u] /\ hdl'[u] = hdl[u] /\ fd'[u] = fd[u] /\ table'[u] = table[u]
           /\ Commanding(u) => hdl[u] \in opened /\ fd[u] = handle[hdl[u]].fd
    BY <1>10 DEF OpenMore
  <2> QED
    BY <2>1, <2>2, <2>3, <2>4
<1>11. ASSUME OpenMismatch(t) PROVE CallsKnow'
  <2>1. /\ hdl[t] \in Handles /\ hdl[t] \notin opened
        /\ \A h \in opened : handle[h].fd \in table[t]
        /\ \A u \in Threads \ {t} : hdl[u] /= hdl[t] /\ ~Closing(u) /\ u \notin inside
        /\ \A u \in Threads \ {t} :
              Opening(u) => pc[u] \in {"open_lock", "open_err", "open_free"}
        /\ \A h \in opened : handle[h].fd /= NewFd(t)
    BY <1>11, OpenSection DEF OpenMismatch
  <2>2. /\ handle'[hdl[t]].fd = NewFd(t)
        /\ \A h \in Handles \ {hdl[t]} : handle'[h] = handle[h]
    BY <1>11, <2>1, HandleSet DEF OpenMismatch, SetHandle
  <2>3. /\ pc'[t] = "open_err" /\ fd'[t] = NewFd(t) /\ hdl' = hdl
        /\ opened' = opened /\ inside' = inside \ {t}
    BY <1>11 DEF OpenMismatch, Unlock
  <2>4. \A u \in Threads \ {t} :
           /\ pc'[u] = pc[u] /\ hdl'[u] = hdl[u] /\ fd'[u] = fd[u] /\ table'[u] = table[u]
           /\ Commanding(u) => hdl[u] \in opened /\ fd[u] = handle[hdl[u]].fd
    BY <1>11 DEF OpenMismatch
  <2> QED
    BY <2>1, <2>2, <2>3, <2>4
<1>12. ASSUME OpenIpcOk(t) PROVE CallsKnow'
  <2>1. /\ \A u \in Threads \ {t} : hdl[u] /= hdl[t] /\ ~Closing(u) /\ u \notin inside
        /\ \A u \in Threads \ {t} : Opening(u) => pc[u] = "open_lock"
    BY <1>12, OpenCall DEF OpenIpcOk
  <2>2. /\ opened' = opened \cup {hdl[t]} /\ inside' = inside \ {t} /\ pc'[t] = "idle"
        /\ UNCHANGED <<handle, g_fdtable>>
    BY <1>12 DEF OpenIpcOk, ReportOpen, Unlock
  <2>3. \A u \in Threads \ {t} :
           pc'[u] = pc[u] /\ hdl'[u] = hdl[u] /\ fd'[u] = fd[u] /\ table'[u] = table[u]
    BY <1>12 DEF OpenIpcOk
  <2> QED
    BY <2>1, <2>2, <2>3
<1>13. ASSUME OpenIpcFail(t) PROVE CallsKnow'
  BY <1>13 DEF OpenIpcFail, Unlock
<1>14. ASSUME OpenErr(t) PROVE CallsKnow'
  <2>1. /\ pc[t] = "open_err" /\ pc'[t] \in {"idle", "open_free"}
        /\ pc'[t] = "open_free" => fd'[t] = fd[t] /\ table'[t] = g_fdtable
        /\ \A u \in Threads \ {t} :
              pc'[u] = pc[u] /\ hdl'[u] = hdl[u] /\ fd'[u] = fd[u] /\ table'[u] = table[u]
        /\ UNCHANGED <<opened, handle, g_fdtable, gOpenedCount, inside>>
    BY ONLY <1>14, VdspTypeOK, t \in Threads
       DEF OpenErr, Return, VdspTypeOK, sharedVars, fdVars, lockVars
  <2>2. /\ \A h \in opened : handle[h].fd \in g_fdtable
        /\ \A u \in Threads \ {t} : Closing(u) => hdl[u] /= NoHandle /\ ~Opening(t)
    BY VdspAssumption DEF FdsKept, Connected, CallLocals
  <2> QED
    BY <2>1, <2>2 DEF Connected
<1>15. ASSUME OpenFree(t) PROVE CallsKnow'
  <2>1. \A u \in Threads \ {t} : ~Closing(u) /\ pc[u] /= "open_ipc"
    BY <1>15 DEF OpenFree, Connected
  <2>2. pc'[t] = "idle" /\ UNCHANGED <<opened, handle, inside, gOpenedCount>>
    BY <1>15 DEF OpenFree
  <2>3. \A u \in Threads \ {t} :
           pc'[u] = pc[u] /\ hdl'[u] = hdl[u] /\ fd'[u] = fd[u] /\ table'[u] = table[u]
    BY <1>15 DEF OpenFree
  <2> QED
    BY <2>1, <2>2, <2>3
<1>16. ASSUME CloseOneOfMany(t) PROVE CallsKnow'
  <2>1. /\ \A u \in Threads \ {t} : hdl[u] /= hdl[t] /\ ~Opening(u) /\ u \notin inside
        /\ \A u \in Threads \ {t} : Closing(u) => pc[u] = "close_lock"
    BY <1>16, NeverRefused DEF CloseOneOfMany, CloseAccepted
  <2>2. /\ opened' = opened \ {hdl[t]} /\ inside' = inside \ {t} /\ pc'[t] = "idle"
        /\ hdl'[t] = NoHandle /\ handle' = handle
    BY <1>16 DEF CloseOneOfMany, Unlock
  <2>3. \A u \in Threads \ {t} :
           pc'[u] = pc[u] /\ hdl'[u] = hdl[u] /\ fd'[u] = fd[u] /\ table'[u] = table[u]
    BY <1>16 DEF CloseOneOfMany
  <2> QED
    BY <2>1, <2>2, <2>3
<1>17. ASSUME CloseLast(t) PROVE CallsKnow'
  <2>1. /\ \A u \in Threads \ {t} : hdl[u] /= hdl[t] /\ ~Opening(u) /\ u \notin inside
        /\ \A u \in Threads \ {t} : Closing(u) => pc[u] = "close_lock"
    BY <1>17, NeverRefused DEF CloseLast, CloseAccepted
  <2>2. /\ UNCHANGED <<opened, handle, g_fdtable, hdl, fd, table, inside>>
        /\ pc' = [pc EXCEPT ![t] = "close_ipc"] /\ pc[t] = "close_lock"
    BY <1>17 DEF CloseLast, CloseAccepted
  <2> QED
    BY <2>1, <2>2
<1>18. ASSUME CloseIpcOk(t) PROVE CallsKnow'
  <2>1. \A u \in Threads \ {t} : ~Opening(u) /\ ~Closing(u) /\ ~Commanding(u)
    BY <1>18, LastClose DEF CloseIpcOk
  <2>2. pc'[t] = "idle" /\ \A u \in Threads \ {t} : pc'[u] = pc[u]
    BY <1>18 DEF CloseIpcOk
  <2> QED
    BY <2>1, <2>2
<1>19. ASSUME CommandRefused(t) PROVE CallsKnow'
  BY <1>19 DEF CommandRefused, Unlock
<1>20. ASSUME CommandStart(t) PROVE CallsKnow'
  BY <1>20 DEF CommandStart, Unlock
<1>21. ASSUME CommandDone(t) PROVE CallsKnow'
  BY <1>21 DEF CommandDone, Unlock
<1> QED
  BY <1>1, <1>2, <1>3, <1>4, <1>5, <1>6, <1>7, <1>8, <1>9, <1>10, <1>11, <1>12, <1>13,
     <1>14, <1>15, <1>16, <1>17, <1>18, <1>19, <1>20, <1>21
     DEF CalmStep, Begin

\* The descriptors of the open handles.
LEMMA FdsKeptStep ==
    ASSUME Calm, CalmState, NEW t \in Threads, CalmStep(t)
    PROVE  FdsKept'
<1> USE VdspAssumption
    DEF CalmState, CalmInv, VdspTypeInv, VdspTypeOK, Section, Return, Goto, sharedVars,
        lockVars, fdVars, svcVars
<1> USE DEF FdsKept
<1>1. ASSUME NEW h \in Handles, NEW type \in WorkTypes, OpenEnter(t, h, type) PROVE FdsKept'
  BY <1>1 DEF OpenEnter, Enter
<1>2. ASSUME NEW h \in Handles, CloseEnter(t, h) PROVE FdsKept'
  BY <1>2 DEF CloseEnter, Enter
<1>3. ASSUME NEW h \in Handles, NEW kind \in Kinds, CommandEnter(t, h, kind) PROVE FdsKept'
  BY <1>3 DEF CommandEnter, Enter
<1>4. ASSUME Lock(t) PROVE FdsKept'
  BY <1>4 DEF Lock, LockPCs
<1>5. ASSUME OpenGet(t) PROVE FdsKept'
  BY <1>5 DEF OpenGet, Connect, Connected
<1>6. ASSUME CloseGet(t) PROVE FdsKept'
  BY <1>6 DEF CloseGet
<1>7. ASSUME CommandGet(t) PROVE FdsKept'
  BY <1>7 DEF CommandGet
<1>8. ASSUME OpenNoFd(t) PROVE FdsKept'
  <2>1. hdl[t] \notin opened
    BY <1>8, OpenSection DEF OpenNoFd
  <2> QED
    BY <1>8, <2>1 DEF OpenNoFd
<1>9. ASSUME OpenFirst(t) PROVE FdsKept'
  <2>1. /\ hdl[t] \in Handles /\ hdl[t] \notin opened
        /\ \A h \in opened : handle[h].fd \in table[t]
        /\ opened \subseteq Handles /\ \A h \in opened : handle[h].fd /= NewFd(t)
    BY <1>9, OpenSection DEF OpenFirst
  <2>2. /\ handle'[hdl[t]].fd = NewFd(t)
        /\ \A h \in Handles \ {hdl[t]} : handle'[h] = handle[h]
    BY <1>9, <2>1, HandleSet DEF OpenFirst, SetHandle
  <2>3. opened' = opened /\ g_fdtable' = table[t] \cup {NewFd(t)}
    BY <1>9, <2>1 DEF OpenFirst
  <2> QED
    BY ONLY <2>1, <2>2, <2>3, CalmState DEF CalmState, CalmInv, FdsKept
<1>10. ASSUME OpenMore(t) PROVE FdsKept'
  <2>1. /\ hdl[t] \in Handles /\ hdl[t] \notin opened
        /\ \A h \in opened : handle[h].fd \in table[t]
        /\ opened \subseteq Handles /\ \A h \in opened : handle[h].fd /= NewFd(t)
    BY <1>10, OpenSection DEF OpenMore
  <2>2. /\ handle'[hdl[t]].fd = NewFd(t)
        /\ \A h \in Handles \ {hdl[t]} : handle'[h] = handle[h]
    BY <1>10, <2>1, HandleSet DEF OpenMore, SetHandle
  <2>3. opened' = opened \cup {hdl[t]} /\ g_fdtable' = table[t] \cup {NewFd(t)}
    BY <1>10, <2>1 DEF OpenMore, ReportOpen
  <2> QED
    BY ONLY <2>1, <2>2, <2>3, CalmState DEF CalmState, CalmInv, FdsKept
<1>11. ASSUME OpenMismatch(t) PROVE FdsKept'
  <2>1. /\ hdl[t] \in Handles /\ hdl[t] \notin opened
        /\ \A h \in opened : handle[h].fd \in table[t]
        /\ opened \subseteq Handles /\ \A h \in opened : handle[h].fd /= NewFd(t)
    BY <1>11, OpenSection DEF OpenMismatch
  <2>2. /\ handle'[hdl[t]].fd = NewFd(t)
        /\ \A h \in Handles \ {hdl[t]} : handle'[h] = handle[h]
    BY <1>11, <2>1, HandleSet DEF OpenMismatch, SetHandle
  <2>3. opened' = opened /\ g_fdtable' = table[t]
    BY <1>11, <2>1 DEF OpenMismatch
  <2> QED
    BY ONLY <2>1, <2>2, <2>3, CalmState DEF CalmState, CalmInv, FdsKept
<1>12. ASSUME OpenIpcOk(t) PROVE FdsKept'
  <2>1. /\ fd[t] = handle[hdl[t]].fd /\ fd[t] \in g_fdtable
        /\ \A h \in opened : handle[h].fd /= fd[t]
    BY <1>12 DEF OpenIpcOk, CallsKnow
  <2>2. opened' = opened \cup {hdl[t]} /\ UNCHANGED <<handle, g_fdtable>>
    BY <1>12 DEF OpenIpcOk, ReportOpen
  <2> QED
    BY <2>1, <2>2
<1>13. ASSUME OpenIpcFail(t) PROVE FdsKept'
  BY <1>13 DEF OpenIpcFail
<1>14. ASSUME OpenErr(t) PROVE FdsKept'
  BY <1>14 DEF OpenErr
<1>15. ASSUME OpenFree(t) PROVE FdsKept'
  <2>1. \A h \in opened : handle[h].fd /= fd[t]
    BY <1>15 DEF OpenFree, CallsKnow
  <2>2. (\A h \in opened : handle[h].fd \in table[t]) /\ UNCHANGED <<opened, handle>>
    BY <1>15 DEF OpenFree, CallsKnow
  <2> QED
    BY <1>15, <2>1, <2>2 DEF OpenFree, Free_Fd
<1>16. ASSUME CloseOneOfMany(t) PROVE FdsKept'
  <2>1. /\ hdl[t] \in opened /\ fd[t] = handle[hdl[t]].fd
        /\ \A h \in opened : handle[h].fd \in table[t]
    BY <1>16 DEF CloseOneOfMany, CloseAccepted, CallsKnow, Closing, ClosePCs
  <2>2. /\ opened' = opened \ {hdl[t]} /\ handle' = handle
        /\ g_fdtable' = table[t] \ {fd[t]}
    BY <1>16, NeverRefused DEF CloseOneOfMany, CloseAccepted, Free_Fd
  <2> QED
    BY <2>1, <2>2
<1>17. ASSUME CloseLast(t) PROVE FdsKept'
  BY <1>17 DEF CloseLast
<1>18. ASSUME CloseIpcOk(t) PROVE FdsKept'
  <2>1. opened' = {}
    BY <1>18, LastClose DEF CloseIpcOk
  <2> QED
    BY <2>1
<1>19. ASSUME CommandRefused(t) PROVE FdsKept'
  BY <1>19 DEF CommandRefused
<1>20. ASSUME CommandStart(t) PROVE FdsKept'
  BY <1>20 DEF CommandStart
<1>21. ASSUME CommandDone(t) PROVE FdsKept'
  BY <1>21 DEF CommandDone
<1> QED
  BY <1>1, <1>2, <1>3, <1>4, <1>5, <1>6, <1>7, <1>8, <1>9, <1>10, <1>11, <1>12, <1>13,
     <1>14, <1>15, <1>16, <1>17, <1>18, <1>19, <1>20, <1>21
     DEF CalmStep, Begin

\* The count of the open handles, and the device.
LEMMA CountKeptStep ==
    ASSUME Calm, CalmState, NEW t \in Threads, CalmStep(t)
    PROVE  CountKept'
<1> USE VdspAssumption
    DEF CalmState, CalmInv, VdspTypeInv, VdspTypeOK, Section, Return, Goto, sharedVars,
        lockVars, fdVars, svcVars
<1> USE DEF CountKept
<1>0. IsFiniteSet(opened)
  <2>1. opened \subseteq Handles
    OBVIOUS
  <2> QED
    BY ONLY <2>1, VdspAssumption, FS_Subset
<1>1. ASSUME NEW h \in Handles, NEW type \in WorkTypes, OpenEnter(t, h, type) PROVE CountKept'
  BY <1>1 DEF OpenEnter, Enter
<1>2. ASSUME NEW h \in Handles, CloseEnter(t, h) PROVE CountKept'
  BY <1>2 DEF CloseEnter, Enter
<1>3. ASSUME NEW h \in Handles, NEW kind \in Kinds, CommandEnter(t, h, kind) PROVE CountKept'
  BY <1>3 DEF CommandEnter, Enter
<1>4. ASSUME Lock(t) PROVE CountKept'
  BY <1>4 DEF Lock, LockPCs
<1>5. ASSUME OpenGet(t) PROVE CountKept'
  <2>1. /\ opened' = opened /\ svcOpen' = svcOpen
        /\ \A u \in Threads : pc[u] /= "close_ipc" /\ pc'[u] /= "close_ipc"
    BY <1>5 DEF OpenGet, Got, Connected, Opening, Closing, OpenPCs, ClosePCs
  <2>2. gOpenedCount' = gOpenedCount \/ (opened = {} /\ gOpenedCount' = 0)
    BY <1>5 DEF OpenGet, Connect, Connected
  <2>3. opened = {} => Cardinality(opened) = 0
    BY FS_EmptySet
  <2> QED
    BY <2>1, <2>2, <2>3
<1>6. ASSUME CloseGet(t) PROVE CountKept'
  <2>1. UNCHANGED <<opened, svcOpen, gOpenedCount>>
    BY <1>6 DEF CloseGet
  <2>2. \A u \in Threads : pc'[u] = "close_ipc" <=> pc[u] = "close_ipc"
    BY <1>6 DEF CloseGet, Got
  <2>3. \A u \in Threads : pc'[u] = "close_ipc" => hdl'[u] = hdl[u]
    BY <1>6 DEF CloseGet, Got
  <2> QED
    BY <2>1, <2>2, <2>3
<1>7. ASSUME CommandGet(t) PROVE CountKept'
  <2>1. UNCHANGED <<opened, svcOpen, gOpenedCount>>
    BY <1>7 DEF CommandGet
  <2>2. \A u \in Threads : pc'[u] = "close_ipc" <=> pc[u] = "close_ipc"
    BY <1>7 DEF CommandGet, Got
  <2>3. \A u \in Threads : pc'[u] = "close_ipc" => hdl'[u] = hdl[u]
    BY <1>7 DEF CommandGet, Got
  <2> QED
    BY <2>1, <2>2, <2>3
<1>8. ASSUME OpenNoFd(t) PROVE CountKept'
  BY <1>8 DEF OpenNoFd
<1>9. ASSUME OpenFirst(t) PROVE CountKept'
  BY <1>9 DEF OpenFirst
<1>10. ASSUME OpenMore(t) PROVE CountKept'
  <2>1. hdl[t] \notin opened /\ \A u \in Threads : pc[u] /= "close_ipc"
    BY <1>10, OpenSection DEF OpenMore
  <2>2. /\ opened' = opened \cup {hdl[t]}
        /\ gOpenedCount' = gOpenedCount + 1 /\ gOpenedCount = Cardinality(opened)
        /\ svcOpen' = svcOpen /\ gOpenedCount /= 0
        /\ \A u \in Threads : pc'[u] /= "close_ipc"
    BY <1>10, <2>1 DEF OpenMore, ReportOpen
  <2>3. opened /= {}
    BY ONLY <2>2, FS_EmptySet
  <2>4. gOpenedCount' = Cardinality(opened')
    BY ONLY <1>0, <2>1, <2>2, FS_AddElement
  <2> QED
    BY <2>2, <2>3, <2>4
<1>11. ASSUME OpenMismatch(t) PROVE CountKept'
  BY <1>11 DEF OpenMismatch
<1>12. ASSUME OpenIpcOk(t) PROVE CountKept'
  <2>1. hdl[t] \notin opened /\ \A u \in Threads : pc[u] /= "close_ipc"
    BY <1>12, OpenCall DEF OpenIpcOk
  <2>2. /\ opened' = opened \cup {hdl[t]}
        /\ gOpenedCount' = gOpenedCount + 1 /\ gOpenedCount = Cardinality(opened)
        /\ svcOpen' = TRUE
        /\ \A u \in Threads : pc'[u] /= "close_ipc"
    BY <1>12, <2>1 DEF OpenIpcOk, ReportOpen
  <2>3. gOpenedCount' = Cardinality(opened')
    BY ONLY <1>0, <2>1, <2>2, FS_AddElement
  <2> QED
    BY <2>2, <2>3
<1>13. ASSUME OpenIpcFail(t) PROVE CountKept'
  BY <1>13 DEF OpenIpcFail
<1>14. ASSUME OpenErr(t) PROVE CountKept'
  BY <1>14 DEF OpenErr
<1>15. ASSUME OpenFree(t) PROVE CountKept'
  BY <1>15 DEF OpenFree
<1>16. ASSUME CloseOneOfMany(t) PROVE CountKept'
  <2>1. hdl[t] \in opened /\ gOpenedCount = Cardinality(opened)
        /\ \A u \in Threads : pc[u] /= "close_ipc"
    BY <1>16, NeverRefused DEF CloseOneOfMany, CloseAccepted, Closing, ClosePCs
  <2>2. /\ opened' = opened \ {hdl[t]}
        /\ gOpenedCount' = gOpenedCount - 1
        /\ svcOpen' = svcOpen /\ gOpenedCount /= 1
        /\ \A u \in Threads : pc'[u] /= "close_ipc"
    BY <1>16, <2>1 DEF CloseOneOfMany, CloseAccepted
  <2>3. gOpenedCount' = Cardinality(opened')
    BY ONLY <1>0, <2>1, <2>2, FS_RemoveElement
  <2>4. opened /= {hdl[t]}
    BY ONLY <2>1, <2>2, FS_Singleton
  <2> QED
    BY <2>1, <2>2, <2>3, <2>4
<1>17. ASSUME CloseLast(t) PROVE CountKept'
  <2>1. hdl[t] \in opened /\ gOpenedCount = Cardinality(opened)
        /\ \A u \in Threads : pc[u] /= "close_ipc"
    BY <1>17, NeverRefused DEF CloseLast, CloseAccepted, Closing, ClosePCs
  <2>2. /\ opened' = opened /\ hdl' = hdl
        /\ gOpenedCount' = gOpenedCount - 1
        /\ svcOpen' = svcOpen /\ gOpenedCount = 1 /\ pc'[t] = "close_ipc"
        /\ \A u \in Threads \ {t} : pc'[u] /= "close_ipc"
    BY <1>17, <2>1 DEF CloseLast, CloseAccepted
  <2>3. PICK x : opened = {x}
    BY ONLY <1>0, <2>1, <2>2, FS_Singleton
  <2> QED
    BY <2>1, <2>2, <2>3
<1>18. ASSUME CloseIpcOk(t) PROVE CountKept'
  <2>1. /\ opened = {hdl[t]} /\ gInitFlag
        /\ \A u \in Threads \ {t} : pc[u] /= "close_ipc"
    BY <1>18, LastClose DEF CloseIpcOk, Closing, ClosePCs
  <2>2. /\ opened' = {} /\ svcOpen' = FALSE /\ gOpenedCount' = 0
        /\ \A u \in Threads : pc'[u] /= "close_ipc"
    BY <1>18, <2>1 DEF CloseIpcOk, putVdspService
  <2>3. Cardinality(opened') = 0
    BY ONLY <2>2, FS_EmptySet
  <2> QED
    BY <2>2, <2>3
<1>19. ASSUME CommandRefused(t) PROVE CountKept'
  BY <1>19 DEF CommandRefused
<1>20. ASSUME CommandStart(t) PROVE CountKept'
  BY <1>20 DEF CommandStart
<1>21. ASSUME CommandDone(t) PROVE CountKept'
  BY <1>21 DEF CommandDone
<1> QED
  BY <1>1, <1>2, <1>3, <1>4, <1>5, <1>6, <1>7, <1>8, <1>9, <1>10, <1>11, <1>12, <1>13,
     <1>14, <1>15, <1>16, <1>17, <1>18, <1>19, <1>20, <1>21
     DEF CalmStep, Begin

\* A step of a call leaves the locals of the others alone.
LEMMA FdOfOthers ==
    ASSUME CalmState, NEW t \in Threads, CalmStep(t)
    PROVE  \A u \in Threads \ {t} : fd'[u] = fd[u] /\ hdl'[u] = hdl[u]
<1> USE DEF CalmState, VdspTypeInv, VdspTypeOK, Return, Goto
<1>1. CASE Begin(t) \/ Lock(t)
  BY <1>1 DEF Begin, OpenEnter, CloseEnter, CommandEnter, Enter, Lock
<1>2. CASE OpenGet(t) \/ CloseGet(t) \/ CommandGet(t)
  BY <1>2 DEF OpenGet, CloseGet, CommandGet, Got
<1>3. CASE OpenNoFd(t) \/ OpenFirst(t) \/ OpenMore(t) \/ OpenMismatch(t)
  BY <1>3 DEF OpenNoFd, OpenFirst, OpenMore, OpenMismatch
<1>4. CASE OpenIpcOk(t) \/ OpenIpcFail(t) \/ OpenErr(t) \/ OpenFree(t)
  BY <1>4 DEF OpenIpcOk, OpenIpcFail, OpenErr, OpenFree
<1>5. CASE CloseOneOfMany(t) \/ CloseLast(t) \/ CloseIpcOk(t)
  BY <1>5 DEF CloseOneOfMany, CloseLast, CloseIpcOk
<1>6. CASE CommandRefused(t) \/ CommandStart(t) \/ CommandDone(t)
  BY <1>6 DEF CommandRefused, CommandStart, CommandDone
<1> QED
  BY <1>1, <1>2, <1>3, <1>4, <1>5, <1>6 DEF CalmStep

\* Who is in the IPC of a command has only gLock to take and its end to do.
LEMMA NotInCommand ==
    ASSUME NEW t \in Threads, CalmStep(t), ~CommandDone(t)
    PROVE  pc[t] /= "cmd_ipc" \/ UNCHANGED <<fd, hdl>>
<1> USE DEF Section
<1>1. CASE Begin(t) \/ Lock(t)
  BY <1>1 DEF Begin, OpenEnter, CloseEnter, CommandEnter, Enter, Lock
<1>2. CASE OpenGet(t) \/ CloseGet(t) \/ CommandGet(t)
  BY <1>2 DEF OpenGet, CloseGet, CommandGet
<1>3. CASE OpenNoFd(t) \/ OpenFirst(t) \/ OpenMore(t) \/ OpenMismatch(t)
  BY <1>3 DEF OpenNoFd, OpenFirst, OpenMore, OpenMismatch
<1>4. CASE OpenIpcOk(t) \/ OpenIpcFail(t) \/ OpenErr(t) \/ OpenFree(t)
  BY <1>4 DEF OpenIpcOk, OpenIpcFail, OpenErr, OpenFree
<1>5. CASE CloseOneOfMany(t) \/ CloseLast(t) \/ CloseIpcOk(t)
  BY <1>5 DEF CloseOneOfMany, CloseLast, CloseAccepted, CloseIpcOk
<1>6. CASE CommandRefused(t) \/ CommandStart(t)
  BY <1>6 DEF CommandRefused, CommandStart
<1> QED
  BY <1>1, <1>2, <1>3, <1>4, <1>5, <1>6 DEF CalmStep

\* The commands on one descriptor: no call that is in flight changes what it is
\* on, and the tables are reset only while nothing is in flight.
LEMMA FdWorkingStep ==
    ASSUME Calm, CalmState, NEW t \in Threads, CalmStep(t)
    PROVE  FdWorkingExact'
<1> DEFINE On(f) == {u \in InFlight : fd[u] = f}
<1> USE VdspAssumption
    DEF CalmState, CalmInv, VdspTypeInv, VdspTypeOK, Section, Return, Goto, workVars
<1>1. CASE CommandStart(t)
  <2>1. /\ fd[t] \in Fds /\ fd' = fd /\ t \notin InFlight /\ InFlight' = InFlight \union {t}
        /\ working' = [working EXCEPT ![fd[t]] = @ + 1]
    BY <1>1 DEF CommandStart, CommandAdmitted, Check_FdValid, InFlight
  <2>2. ASSUME NEW f \in Fds PROVE working'[f] = Cardinality(On(f)')
    <3>0. working[f] = Cardinality(On(f)) /\ IsFiniteSet(On(f))
      BY ONLY CalmState, f \in Fds, OnFdFinite DEF CalmState, CalmInv, FdWorkingExact
    <3>1. CASE f = fd[t]
      <4>1. On(f)' = On(f) \union {t} /\ t \notin On(f) /\ working'[f] = working[f] + 1
        BY <2>1, <3>1
      <4> QED
        BY ONLY <3>0, <4>1, FS_AddElement
    <3>2. CASE f /= fd[t]
      <4>1. On(f)' = On(f) /\ working'[f] = working[f]
        BY <2>1, <3>2
      <4> QED
        BY ONLY <3>0, <4>1
    <3> QED
      BY <3>1, <3>2
  <2> QED
    BY <2>2 DEF FdWorkingExact
<1>2. CASE CommandDone(t)
  <2>1. /\ fd[t] \in Fds /\ \A u \in Threads \ {t} : fd'[u] = fd[u]
        /\ t \in InFlight /\ InFlight' = InFlight \ {t}
        /\ working' = [working EXCEPT ![fd[t]] = @ - 1]
    BY <1>2 DEF CommandDone, WorkDone, CallLocals, InFlight
  <2>2. ASSUME NEW f \in Fds PROVE working'[f] = Cardinality(On(f)')
    <3>0. working[f] = Cardinality(On(f)) /\ IsFiniteSet(On(f))
      BY ONLY CalmState, f \in Fds, OnFdFinite DEF CalmState, CalmInv, FdWorkingExact
    <3>1. CASE f = fd[t]
      <4>1. On(f)' = On(f) \ {t} /\ t \in On(f) /\ working'[f] = working[f] - 1
        BY <2>1, <3>1 DEF InFlight
      <4> QED
        BY ONLY <3>0, <4>1, FS_RemoveElement
    <3>2. CASE f /= fd[t]
      <4>1. On(f)' = On(f) /\ working'[f] = working[f]
        BY <2>1, <3>2 DEF InFlight
      <4> QED
        BY ONLY <3>0, <4>1
    <3> QED
      BY <3>1, <3>2
  <2> QED
    BY <2>2 DEF FdWorkingExact
<1>3. CASE ~CommandStart(t) /\ ~CommandDone(t)
  <2>1. InFlight' = InFlight /\ (t \notin InFlight \/ fd' = fd)
    <3>1. NoCommandStep(t)
      BY <1>3 DEF CalmStep, NoCommandStep, CallStep, Proceed
    <3>2. InFlight' = InFlight
      BY ONLY <3>1, CalmState, t \in Threads, NoCommandControl DEF CalmState
    <3>3. pc[t] /= "cmd_ipc" \/ fd' = fd
      BY <1>3, NotInCommand
    <3> QED
      BY <3>2, <3>3 DEF InFlight
  <2>2. \A u \in Threads \ {t} : fd'[u] = fd[u]
    BY <1>3, FdOfOthers
  <2>3. \A f \in Fds : On(f)' = On(f)
    BY <2>1, <2>2 DEF InFlight
  <2>4. \/ working' = working
        \/ opened = {} /\ working' = [f \in Fds |-> 0]
    <3>1. CASE OpenGet(t)
      BY <3>1 DEF OpenGet, Connect, Connected
    <3>2. CASE ~OpenGet(t)
      BY <1>3, <3>2 DEF CalmStep, Begin, OpenEnter, CloseEnter, CommandEnter, Enter, Lock,
           CloseGet, CommandGet, OpenNoFd, OpenFirst, OpenMore, OpenMismatch,
           OpenIpcOk, OpenIpcFail, OpenErr, OpenFree, CloseOneOfMany, CloseLast,
           CloseIpcOk, CommandRefused
    <3> QED
      BY <3>1, <3>2
  <2>5. CASE working' = working
    BY <2>3, <2>5 DEF FdWorkingExact
  <2>6. CASE opened = {} /\ working' = [f \in Fds |-> 0]
    <3>1. InFlight = {}
      BY <2>6 DEF InFlight, CallsKnow, Commanding
    <3>2. \A f \in Fds : On(f) = {}
      BY <3>1
    <3> QED
      BY <2>3, <2>6, <3>2, FS_EmptySet DEF FdWorkingExact
  <2> QED
    BY <2>4, <2>5, <2>6
<1> QED
  BY <1>1, <1>2, <1>3

\* The first call will connect.
LEMMA CalmInit == VdspInit => CalmInv
<1> SUFFICES ASSUME VdspInit PROVE CalmInv
  OBVIOUS
<1>1. InFlight = {} /\ \A f \in Fds : {t \in InFlight : fd[t] = f} = {}
  BY DEF VdspInit, InFlight
<1>2. FdWorkingExact
  BY <1>1, FS_EmptySet DEF VdspInit, FdWorkingExact
<1>3. Connected /\ CallsKnow
  BY DEF VdspInit, Connected, CallsKnow, Opening, Closing, Commanding, OpenPCs, ClosePCs,
         NoProxyPCs
<1>4. FdsKept /\ CountKept
  BY FS_EmptySet DEF VdspInit, FdsKept, CountKept
<1> QED
  BY <1>2, <1>3, <1>4 DEF CalmInv

\* Descriptors, counters and the device agree while the callers and the service
\* are calm, however calls overlap that may.
THEOREM CalmInvariant ==
    ASSUME Calm
    PROVE  VdspSpec => []CalmState
<1>1. VdspTypeInv /\ LockInv /\ GWorkingExact /\ CalmInv /\ [VdspNext]_vars => CalmInv'
  <2> SUFFICES ASSUME CalmState, [VdspNext]_vars PROVE CalmInv'
    BY DEF CalmState
  <2>1. ASSUME NEW t \in Threads, CalmStep(t) PROVE CalmInv'
    BY <2>1, ConnectedStep, CallsKnowStep, FdsKeptStep, CountKeptStep, FdWorkingStep
       DEF CalmInv
  <2>2. CASE UNCHANGED vars
    <3> USE <2>2 DEF vars, sharedVars, lockVars, fdVars, workVars, svcVars, localVars,
                     CalmState, CalmInv
    <3>1. Connected'
      BY DEF Connected, Opening, Closing
    <3>2. CallsKnow'
      BY DEF CallsKnow, Opening, Closing, Commanding
    <3>3. FdsKept' /\ CountKept' /\ FdWorkingExact'
      BY DEF FdsKept, CountKept, FdWorkingExact, InFlight
    <3> QED
      BY <3>1, <3>2, <3>3
  <2> QED
    BY <2>1, <2>2, CalmCases
<1>2. VdspSpec => []CalmInv
  BY <1>1, CalmInit, VdspTypeInvariant, LockInvariant, GWorkingCorrect, PTL DEF VdspSpec
<1> QED
  BY <1>2, VdspTypeInvariant, LockInvariant, GWorkingCorrect, PTL DEF CalmState

\* Under calm callers and a calm service g_FdInfo[fd].working is the number of
\* commands in flight on fd: the tables that a new connection resets are those
\* of no command.
THEOREM FdWorkingCorrect ==
    ASSUME Calm
    PROVE  VdspSpec => []FdWorkingExact
<1>1. CalmState => FdWorkingExact
  BY DEF CalmState, CalmInv
<1> QED
  BY <1>1, CalmInvariant, PTL

\* Opens that overlap opens of the same work type, and closes that overlap
\* closes, keep the descriptor of every open handle allocated, with any number
\* of threads and any USE_FD_MAX_NUM, also while opens that are refused for
\* their type free their descriptors twice; so do opens the service may fail,
\* each alone.  (Opens of different types lose descriptors to the unlocked
\* Free_Fd: the theorem is about callers that avoid this.)
THEOREM OpenHandlesKeepTheirFdCorrect ==
    ASSUME Calm
    PROVE  VdspSpec => []OpenHandlesKeepTheirFd
<1>1. CalmState => OpenHandlesKeepTheirFd
  BY DEF CalmState, CalmInv, FdsKept, OpenHandlesKeepTheirFd, Current
<1> QED
  BY <1>1, CalmInvariant, PTL

\* For the same callers no two open handles have the same descriptor.
THEOREM FdsDistinctCorrect ==
    ASSUME Calm
    PROVE  VdspSpec => []FdsDistinct
<1>1. CalmState => FdsDistinct
  BY DEF CalmState, CalmInv, FdsKept, FdsDistinct, Current
<1> QED
  BY <1>1, CalmInvariant, PTL

\* For the same callers, and closes that do not fail, gOpenedCount is the number
\* of open handles.
THEOREM OpenedCountCorrect ==
    ASSUME Calm
    PROVE  VdspSpec => []OpenedCountExact
<1>1. CalmState => OpenedCountExact
  <2> SUFFICES ASSUME CalmState PROVE OpenedCountExact
    OBVIOUS
  <2> DEFINE closing == {hdl[t] : t \in {u \in Threads : pc[u] = "close_ipc"}}
  <2>1. CASE \A t \in Threads : pc[t] /= "close_ipc"
    <3>1. opened \ closing = opened
      BY <2>1
    <3> QED
      BY <2>1, <3>1 DEF CalmState, CalmInv, CountKept, OpenedCountExact
  <2>2. CASE \E t \in Threads : pc[t] = "close_ipc"
    <3>1. PICK t \in Threads : pc[t] = "close_ipc"
      BY <2>2
    <3>2. gOpenedCount = 0 /\ opened = {hdl[t]}
      BY <3>1 DEF CalmState, CalmInv, CountKept
    <3>3. opened \ closing = {}
      BY <3>1, <3>2
    <3> QED
      BY <3>2, <3>3, FS_EmptySet DEF OpenedCountExact
  <2> QED
    BY <2>1, <2>2
<1> QED
  BY <1>1, CalmInvariant, PTL

-----------------------------------------------------------------------------
(***************************************************************************)
(* Step by step, the client of calm callers is a SharedDevice: an open     *)
(* takes effect when the device is open and counted, a close when the      *)
(* handle is given up, a command from one locked section of it to the      *)
(* other.                                                                  *)
(***************************************************************************)

\* The handle a thread runs a command on.
OnHandle(t) == IF t \in InFlight THEN hdl[t] ELSE NoHandle

\* A step that starts and ends no command leaves the commands in flight alone.
LEMMA InFlightKept ==
    ASSUME CalmState, NEW t \in Threads, CalmStep(t),
           ~CommandStart(t), ~CommandDone(t)
    PROVE  \A u \in Threads : OnHandle(u)' = OnHandle(u)
<1>1. NoCommandStep(t)
  BY DEF CalmStep, NoCommandStep, CallStep, Proceed
<1>2. InFlight' = InFlight /\ (t \notin InFlight \/ hdl' = hdl)
  <2>1. pc[t] /= "cmd_ipc" \/ hdl' = hdl
    BY NotInCommand
  <2> QED
    BY <1>1, <2>1, NoCommandControl DEF InFlight, CalmState
<1>3. \A u \in Threads \ {t} : hdl'[u] = hdl[u]
  BY FdOfOthers
<1> QED
  BY <1>2, <1>3 DEF OnHandle

\* No command is in flight on a handle that is being closed.
LEMMA ClosedIsIdle ==
    ASSUME CalmState, NEW t \in Threads, pc[t] \in ClosePCs
    PROVE  /\ hdl[t] \in opened /\ hdl[t] \in Handles
           /\ \A u \in Threads : OnHandle(u) /= hdl[t]
<1>1. hdl[t] \in opened /\ \A u \in Threads \ {t} : hdl[u] /= hdl[t]
  BY DEF CalmState, CalmInv, CallsKnow, Closing
<1>2. hdl[t] \in Handles /\ t \notin InFlight
  BY <1>1 DEF CalmState, VdspTypeInv, VdspTypeOK, InFlight, ClosePCs
<1> QED
  BY <1>1, <1>2, VdspAssumption DEF OnHandle

\* A step of the client is a step of the shared device or none.
LEMMA SharedStep ==
    ASSUME Calm, CalmState, [VdspNext]_vars
    PROVE  [Shared!SharedNext]_Shared!svars
<1> DEFINE run == [t \in Threads |-> IF t \in InFlight THEN hdl[t] ELSE NoHandle]
<1>0. \A u \in Threads : run[u] = OnHandle(u) /\ run'[u] = OnHandle(u)'
  BY DEF OnHandle
<1> SUFFICES ASSUME NEW t \in Threads, CalmStep(t)
             PROVE  [Shared!SharedNext]_Shared!svars
  <2>1. CASE UNCHANGED vars
    BY <2>1 DEF vars, sharedVars, lockVars, fdVars, workVars, svcVars, localVars, InFlight,
         Shared!svars
  <2> QED
    BY <2>1, CalmCases
<1>1. CASE CommandStart(t)
  <2>1. /\ pc[t] = "cmd_lock" /\ InFlight' = InFlight \cup {t} /\ t \notin InFlight
        /\ hdl' = hdl /\ opened' = opened /\ svcOpen' = svcOpen
    BY <1>1 DEF CommandStart, Section, Goto, InFlight, CalmState, VdspTypeInv, VdspTypeOK,
         fdVars, svcVars
  <2>2. hdl[t] \in opened /\ hdl[t] \in Handles
    BY <2>1 DEF CalmState, CalmInv, CallsKnow, Commanding, VdspTypeInv, VdspTypeOK
  <2>3. run[t] = NoHandle /\ run' = [run EXCEPT ![t] = hdl[t]]
    BY <2>1
  <2>4. PICK h \in Handles : h = hdl[t]
    BY <2>2
  <2>5. Shared!BeginCommand(t, h)
    BY ONLY <2>1, <2>2, <2>3, <2>4 DEF Shared!BeginCommand
  <2> QED
    BY <2>5 DEF Shared!SharedNext
<1>2. CASE CommandDone(t)
  <2>1. /\ pc[t] = "cmd_ipc" /\ InFlight' = InFlight \ {t} /\ t \in InFlight
        /\ \A u \in Threads \ {t} : hdl'[u] = hdl[u]
        /\ opened' = opened /\ svcOpen' = svcOpen
    BY <1>2 DEF CommandDone, Section, Return, InFlight, CalmState, VdspTypeInv, VdspTypeOK,
         fdVars, svcVars
  <2>2. hdl[t] \in Handles
    BY <2>1 DEF CalmState, VdspTypeInv, CallLocals
  <2>3. run[t] /= NoHandle /\ run' = [run EXCEPT ![t] = NoHandle]
    BY <2>1, <2>2, VdspAssumption
  <2>4. Shared!EndCommand(t)
    BY ONLY <2>1, <2>3 DEF Shared!EndCommand
  <2> QED
    BY <2>4 DEF Shared!SharedNext
<1>3. CASE ~CommandStart(t) /\ ~CommandDone(t)
  <2>0. run' = run
    BY <1>3, <1>0, InFlightKept
  <2>1. CASE OpenMore(t)
    <3>1. hdl[t] \in Handles /\ hdl[t] \notin opened
      BY <2>1, OpenSection DEF OpenMore
    <3>2. opened' = opened \cup {hdl[t]} /\ svcOpen' = svcOpen /\ gOpenedCount /= 0
      BY <2>1 DEF OpenMore, ReportOpen, svcVars
    <3>3. svcOpen
      <4>1. \A u \in Threads : pc[u] /= "close_ipc"
        BY <2>1, OpenSection DEF OpenMore
      <4>2. gOpenedCount = Cardinality(opened)
        BY <4>1 DEF CalmState, CalmInv, CountKept
      <4>3. opened /= {}
        BY <3>2, <4>2, FS_EmptySet
      <4> QED
        BY <4>3 DEF CalmState, CalmInv, CountKept
    <3>4. svcOpen' = TRUE
      BY <3>2, <3>3 DEF CalmState, VdspTypeInv, VdspTypeOK
    <3>5. Shared!OpenOne(hdl[t])
      BY ONLY <2>0, <3>1, <3>2, <3>4 DEF Shared!OpenOne
    <3> QED
      BY <3>1, <3>5 DEF Shared!SharedNext
  <2>2. CASE OpenIpcOk(t)
    <3>1. hdl[t] \in Handles /\ hdl[t] \notin opened
      BY <2>2, OpenCall DEF OpenIpcOk
    <3>2. opened' = opened \cup {hdl[t]} /\ svcOpen' = TRUE
      BY <2>2 DEF OpenIpcOk, ReportOpen
    <3>3. Shared!OpenOne(hdl[t])
      BY ONLY <2>0, <3>1, <3>2 DEF Shared!OpenOne
    <3> QED
      BY <3>1, <3>3 DEF Shared!SharedNext
  <2>3. CASE CloseOneOfMany(t)
    <3>1. /\ hdl[t] \in opened /\ hdl[t] \in Handles
          /\ \A u \in Threads : run[u] /= hdl[t]
      BY <2>3, <1>0, ClosedIsIdle DEF CloseOneOfMany, CloseAccepted, ClosePCs, Section
    <3>2. opened' = opened \ {hdl[t]} /\ svcOpen' = svcOpen
      BY <2>3 DEF CloseOneOfMany, svcVars
    <3>3. opened' /= {}
      <4>1. gOpenedCount /= 1 /\ gOpenedCount = Cardinality(opened)
        BY <2>3, NeverRefused DEF CloseOneOfMany, CloseAccepted
      <4>2. opened /= {hdl[t]}
        BY ONLY <4>1, FS_Singleton
      <4> QED
        BY <3>1, <3>2, <4>2
    <3>4. svcOpen' = (opened' /= {})
      BY <3>1, <3>2, <3>3 DEF CalmState, CalmInv, CountKept, VdspTypeInv, VdspTypeOK
    <3>5. Shared!CloseOne(hdl[t])
      BY ONLY <2>0, <3>1, <3>2, <3>4 DEF Shared!CloseOne
    <3> QED
      BY <3>1, <3>5 DEF Shared!SharedNext
  <2>4. CASE CloseIpcOk(t)
    <3>1. /\ hdl[t] \in opened /\ hdl[t] \in Handles
          /\ \A u \in Threads : run[u] /= hdl[t]
      BY <2>4, <1>0, ClosedIsIdle DEF CloseIpcOk, ClosePCs
    <3>2. opened' = opened \ {hdl[t]} /\ svcOpen' = FALSE /\ opened = {hdl[t]}
      BY <2>4 DEF CloseIpcOk, CalmState, CalmInv, CountKept
    <3>3. svcOpen' = (opened' /= {})
      BY <3>2
    <3>4. Shared!CloseOne(hdl[t])
      BY ONLY <2>0, <3>1, <3>2, <3>3 DEF Shared!CloseOne
    <3> QED
      BY <3>1, <3>4 DEF Shared!SharedNext
  <2>5. CASE ~OpenMore(t) /\ ~OpenIpcOk(t) /\ ~CloseOneOfMany(t) /\ ~CloseIpcOk(t)
    <3>1. opened' = opened /\ svcOpen' = svcOpen
      BY <1>3, <2>5 DEF CalmStep, Begin, OpenEnter, CloseEnter, CommandEnter, Enter,
           Lock, OpenGet, CloseGet, CommandGet, OpenNoFd, OpenFirst, OpenMismatch,
           OpenIpcFail, OpenErr, OpenFree, CloseLast, CommandRefused, fdVars, svcVars
    <3> QED
      BY <2>0, <3>1 DEF Shared!svars
  <2> QED
    BY <2>1, <2>2, <2>3, <2>4, <2>5
<1> QED
  BY <1>1, <1>2, <1>3

\* The safety half of ImplementsSharedDevice, for callers that do not close a
\* handle in use, do not overlap an open with a close, and overlap opens only
\* of one work type and where the service fails none, and for a service that
\* lives and closes its device when told.  What the client adds to that: openXrpDevice and closeXrpDevice
\* are the ends of calls that threads overlap and that commands cross, and yet
\* the device is open exactly while a handle is, and each open and close takes
\* effect in one step.
THEOREM ClientImplementsSharedDevice ==
    ASSUME Calm
    PROVE  VdspSpec => Shared!SharedSafety
<1>1. VdspInit => Shared!SharedInit
  BY DEF VdspInit, Shared!SharedInit, InFlight
<1>2. CalmState /\ [VdspNext]_vars => [Shared!SharedNext]_Shared!svars
  BY SharedStep
<1> QED
  BY <1>1, <1>2, CalmInvariant, PTL DEF VdspSpec, Shared!SharedSafety
=============================================================================
