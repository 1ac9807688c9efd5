----------------------------- MODULE IonMemory -----------------------------
(***************************************************************************)
(* ION memory (vdsp-ion/VdspIon.cpp and its two layers of C functions,     *)
(* vdsp-ion/vdsp_ion.cpp and vdsp-interface/sprd_vdsp_ion.cpp, which differ *)
(* in their names only).  Threads of one process allocate a buffer each,   *)
(* use it and free it, on one table of descriptors.                        *)
(*                                                                         *)
(* The kernel is external: an ioctl or a mapping may fail whenever it      *)
(* likes, and an ioctl on a descriptor that is no buffer fails.  In a      *)
(* legacy kernel a buffer also is a handle of the client that /dev/ion     *)
(* was opened as, which closing that descriptor frees.                     *)
(***************************************************************************)
EXTENDS Integers

CONSTANTS IonThreads,       \* threads that use ION memory
          MaxFd             \* bound: the largest descriptor of the process

ASSUME IonMemoryAssumption == MaxFd \in Nat

VARIABLES legacy,           \* the kernel has no ION_IOC_VERSION
          fdTable,          \* "closed", "device", "buffer", or "other"
          ionHandles,       \* legacy handles of the client each device is
          vdspIon,          \* the VdspIon of each thread
          ionAt,            \* where each thread is
          deviceFd, bufferFd, \* local to the constructor, and to a call
          result            \* what the last call of each thread returned

ionVars == <<legacy, fdTable, ionHandles, vdspIon, ionAt, deviceFd, bufferFd, result>>

Fds == 0 .. MaxFd
NoIon == [live |-> FALSE, mIonDeviceFd |-> -1, mFD |-> -1]
MEMION_NO_ERROR == "NO_ERROR"

IonInit ==
    /\ legacy \in BOOLEAN
    /\ \E zero \in {"closed", "other"} :      \* a service may run without stdin
          fdTable = [f \in Fds |-> IF f = 0 THEN zero ELSE "closed"]
    /\ ionHandles = [f \in Fds |-> 0]
    /\ vdspIon = [t \in IonThreads |-> NoIon]
    /\ ionAt = [t \in IonThreads |-> "idle"]
    /\ deviceFd = [t \in IonThreads |-> -1] /\ bufferFd = [t \in IonThreads |-> -1]
    /\ result = [t \in IonThreads |-> "none"]

Free == {f \in Fds : fdTable[f] = "closed"}
FirstFree == CHOOSE f \in Free : \A g \in Free : f <= g

GoesTo(t, from, to) == ionAt[t] = from /\ ionAt' = [ionAt EXCEPT ![t] = to]
OpensAs(kind) == Free /= {} /\ fdTable' = [fdTable EXCEPT ![FirstFree] = kind]

\* close; with a device go the handles of its client.
Closes(fds) ==
    /\ fdTable' = [f \in Fds |-> IF f \in fds THEN "closed" ELSE fdTable[f]]
    /\ ionHandles' = [f \in Fds |-> IF f \in fds THEN 0 ELSE ionHandles[f]]
Returns(t, r) == result' = [result EXCEPT ![t] = r]

-----------------------------------------------------------------------------
(***************************************************************************)
(* The constructor.  alloc_ionmem returns the object whether it failed or  *)
(* not; alloc_ionmem2 asks it for the physical address too.                *)
(***************************************************************************)
VdspIon(t) ==
    /\ ~vdspIon[t].live
    /\ \/ /\ GoesTo(t, "idle", "alloc")
          /\ OpensAs("device")
          /\ deviceFd' = [deviceFd EXCEPT ![t] = FirstFree]
          /\ UNCHANGED <<vdspIon, result>>
       \/ /\ GoesTo(t, "idle", "idle")                     \* open fails
          /\ vdspIon' = [vdspIon EXCEPT ![t].live = TRUE]
          /\ Returns(t, "none")
          /\ UNCHANGED <<fdTable, deviceFd>>
    /\ UNCHANGED <<legacy, ionHandles, bufferFd>>

\* mapIonFd: a failure closes what was opened and leaves an object without memory.
MapFails(t, from, fds) ==
    /\ GoesTo(t, from, "idle")
    /\ Closes(fds)
    /\ vdspIon' = [vdspIon EXCEPT ![t].live = TRUE]
    /\ Returns(t, "none")
    /\ deviceFd' = [deviceFd EXCEPT ![t] = -1]
    /\ bufferFd' = [bufferFd EXCEPT ![t] = -1]

\* ION_IOC_ALLOC makes a handle, ION_IOC_SHARE a descriptor of it ...
LegacyAlloc(t) ==
    /\ legacy
    /\ \/ /\ GoesTo(t, "alloc", "share")
          /\ ionHandles' = [ionHandles EXCEPT ![deviceFd[t]] = @ + 1]
          /\ UNCHANGED <<fdTable, vdspIon, deviceFd, bufferFd, result>>
       \/ MapFails(t, "alloc", {deviceFd[t]})
    /\ UNCHANGED legacy
LegacyShare(t) ==
    /\ \/ /\ GoesTo(t, "share", "map")
          /\ OpensAs("buffer")
          /\ bufferFd' = [bufferFd EXCEPT ![t] = FirstFree]
          /\ UNCHANGED <<ionHandles, vdspIon, deviceFd, result>>
       \/ MapFails(t, "share", {deviceFd[t]})
    /\ UNCHANGED legacy

\* ... and ION_IOC_NEW_ALLOC a descriptor at once.
NewAlloc(t) ==
    /\ ~legacy
    /\ \/ /\ GoesTo(t, "alloc", "map")
          /\ OpensAs("buffer")
          /\ bufferFd' = [bufferFd EXCEPT ![t] = FirstFree]
          /\ UNCHANGED <<ionHandles, vdspIon, deviceFd, result>>
       \/ MapFails(t, "alloc", {deviceFd[t]})
    /\ UNCHANGED legacy

MapBuffer_open(t) ==                                       \* mutant
    /\ \/ /\ GoesTo(t, "map", "idle")
          /\ vdspIon' = [vdspIon EXCEPT ![t] =
                [live |-> TRUE, mIonDeviceFd |-> deviceFd[t], mFD |-> bufferFd[t]]]
          /\ deviceFd' = [deviceFd EXCEPT ![t] = -1]
          /\ bufferFd' = [bufferFd EXCEPT ![t] = -1]
          /\ Returns(t, "none")
          /\ UNCHANGED <<fdTable, ionHandles>>
       \/ MapFails(t, "map", {deviceFd[t]})
    /\ UNCHANGED legacy
MapBuffer(t) ==
    /\ \/ /\ GoesTo(t, "map", "idle")
          /\ vdspIon' = [vdspIon EXCEPT ![t] =
                [live |-> TRUE, mIonDeviceFd |-> deviceFd[t], mFD |-> bufferFd[t]]]
          /\ deviceFd' = [deviceFd EXCEPT ![t] = -1]
          /\ bufferFd' = [bufferFd EXCEPT ![t] = -1]
          /\ Returns(t, "none")
          /\ UNCHANGED <<fdTable, ionHandles>>
       \/ MapFails(t, "map", {deviceFd[t], bufferFd[t]})
    /\ UNCHANGED legacy

\* The destructor, in two steps: descriptor 0 is no device to it, then the buffer.
DeleteDevice(t) ==
    /\ vdspIon[t].live /\ GoesTo(t, "idle", "delete")
    /\ IF vdspIon[t].mIonDeviceFd > 0 THEN Closes({vdspIon[t].mIonDeviceFd})
       ELSE UNCHANGED <<fdTable, ionHandles>>
    /\ vdspIon' = [vdspIon EXCEPT ![t].mIonDeviceFd = -1]
    /\ UNCHANGED <<legacy, deviceFd, bufferFd, result>>
DeleteBuffer(t) ==
    /\ GoesTo(t, "delete", "idle")
    /\ Closes({vdspIon[t].mFD})
    /\ vdspIon' = [vdspIon EXCEPT ![t] = NoIon]
    /\ UNCHANGED <<legacy, deviceFd, bufferFd, result>>

-----------------------------------------------------------------------------
(***************************************************************************)
(* The operations on a buffer, in two forms: the static ones open /dev/ion *)
(* for the call and close it on every path, the others use the device of   *)
(* the object.  An ioctl of the kernel succeeds only on a buffer.          *)
(***************************************************************************)
isBuffer(f) == f \in Fds /\ fdTable[f] = "buffer"
Outcomes(f) == {"OP_FAILED"} \union (IF isBuffer(f) THEN {MEMION_NO_ERROR} ELSE {})
Supported(f, legacyOnly) ==
    IF legacyOnly /\ ~legacy THEN {"NOT_SUPPORTED"} ELSE Outcomes(f)

\* The class does not know which object a buffer_fd is of: its callers pass mFD.
OpenForCall(t) ==
    /\ vdspIon[t].live
    /\ \/ /\ GoesTo(t, "idle", "call")
          /\ OpensAs("device")
          /\ deviceFd' = [deviceFd EXCEPT ![t] = FirstFree]
          /\ UNCHANGED result
       \/ /\ GoesTo(t, "idle", "idle")
          /\ Returns(t, "NO_DEV")
          /\ UNCHANGED <<fdTable, deviceFd>>
    /\ UNCHANGED <<legacy, ionHandles, vdspIon, bufferFd>>
StaticCall(t, legacyOnly) ==
    /\ GoesTo(t, "call", "idle")
    /\ \E r \in Supported(vdspIon[t].mFD, legacyOnly) : Returns(t, r)
    /\ Closes({deviceFd[t]})
    /\ deviceFd' = [deviceFd EXCEPT ![t] = -1]
    /\ UNCHANGED <<legacy, vdspIon, bufferFd>>

Get_phy_addr_from_ion(t) == StaticCall(t, FALSE)
Flush_ion_buffer(t) == StaticCall(t, FALSE)
Invalid_ion_buffer(t) == StaticCall(t, FALSE)
Sync_ion_buffer(t) == StaticCall(t, FALSE)
Get_kaddr(t) == StaticCall(t, TRUE)
Free_kaddr(t) == StaticCall(t, TRUE)

OwnCall(t, legacyOnly) ==
    /\ vdspIon[t].live /\ GoesTo(t, "idle", "idle")
    /\ IF vdspIon[t].mIonDeviceFd < 0 THEN Returns(t, "NO_DEV")
       ELSE \E r \in Supported(vdspIon[t].mFD, legacyOnly) : Returns(t, r)
    /\ UNCHANGED <<legacy, fdTable, ionHandles, vdspIon, deviceFd, bufferFd>>

get_phy_addr_from_ion(t) == OwnCall(t, FALSE)
invalid_ion_buffer(t) == OwnCall(t, FALSE)
sync_ion_buffer(t) == OwnCall(t, FALSE)
get_kaddr(t) == OwnCall(t, TRUE)
free_kaddr(t) == OwnCall(t, TRUE)

\* With a range outside the buffer the legacy form refuses with -3, NOT_SUPPORTED.
flush_ion_buffer(t) ==
    \/ OwnCall(t, FALSE)
    \/ /\ legacy /\ vdspIon[t].mIonDeviceFd >= 0 /\ GoesTo(t, "idle", "idle")
       /\ Returns(t, "NOT_SUPPORTED")
       /\ UNCHANGED <<legacy, fdTable, ionHandles, vdspIon, deviceFd, bufferFd>>

IonNext ==
    \E t \in IonThreads :
        \/ VdspIon(t) \/ LegacyAlloc(t) \/ LegacyShare(t) \/ NewAlloc(t) \/ MapBuffer(t)
        \/ DeleteDevice(t) \/ DeleteBuffer(t)
        \/ OpenForCall(t)
        \/ Get_phy_addr_from_ion(t) \/ Flush_ion_buffer(t) \/ Invalid_ion_buffer(t)
        \/ Sync_ion_buffer(t) \/ Get_kaddr(t) \/ Free_kaddr(t)
        \/ get_phy_addr_from_ion(t) \/ flush_ion_buffer(t) \/ invalid_ion_buffer(t)
        \/ sync_ion_buffer(t) \/ get_kaddr(t) \/ free_kaddr(t)

IonSpec == IonInit /\ [][IonNext]_ionVars

-----------------------------------------------------------------------------
Devices(t) == {vdspIon[t].mIonDeviceFd, deviceFd[t]} \ {-1}
Buffers(t) == {vdspIon[t].mFD, bufferFd[t]} \ {-1}

(***************************************************************************)
(* The descriptors open on ION are those of the objects and of the calls   *)
(* in progress, each owned once and open on what its owner takes it for,   *)
(* whatever failed and whoever ran in between; a legacy handle never       *)
(* outlives its device, and a call succeeds only on an object with memory. *)
(* The one descriptor that may stay open is 0, which the destructor takes  *)
(* for none.                                                               *)
(***************************************************************************)
IonFilesExact ==
    /\ \A f \in Fds :
         /\ fdTable[f] = "device" => f = 0 \/ \E t \in IonThreads : f \in Devices(t)
         /\ fdTable[f] = "buffer" => \E t \in IonThreads : f \in Buffers(t)
         /\ ionHandles[f] <= (IF legacy /\ fdTable[f] = "device" THEN 1 ELSE 0)
    /\ \A t \in IonThreads :
         /\ \A f \in Devices(t) : fdTable[f] = "device"
         /\ \A f \in Buffers(t) : fdTable[f] = "buffer"
         /\ \A u \in IonThreads \ {t} :
               (Devices(t) \union Buffers(t)) \intersect (Devices(u) \union Buffers(u)) = {}
         /\ result[t] = MEMION_NO_ERROR => vdspIon[t].mFD /= -1 \/ ~vdspIon[t].live
=============================================================================
