-------------------------- MODULE IonMemory_proofs --------------------------
(***************************************************************************)
(* The descriptors of ION memory, for any number of threads and of         *)
(* descriptors and on both kernels: each is owned once and open on what    *)
(* its owner takes it for.                                                 *)
(*                                                                         *)
(* Between two steps of a thread the number of a descriptor is all it has  *)
(* to know it by, so that the invariant says for each control point which  *)
(* of the four numbers it keeps are valid, and that no number is kept      *)
(* twice: open() may hand out any number again as soon as it is closed.    *)
(***************************************************************************)
EXTENDS IonMemory, LowestNumber, TLAPS

FdOrNone == Fds \union {-1}
Ions == [live : BOOLEAN, mIonDeviceFd : FdOrNone, mFD : FdOrNone]

IonTypes ==
    /\ legacy \in BOOLEAN
    /\ fdTable \in [Fds -> {"closed", "device", "buffer", "other"}]
    /\ ionHandles \in [Fds -> Nat]
    /\ vdspIon \in [IonThreads -> Ions]
    /\ ionAt \in [IonThreads -> {"idle", "alloc", "share", "map", "delete", "call"}]
    /\ deviceFd \in [IonThreads -> FdOrNone]
    /\ bufferFd \in [IonThreads -> FdOrNone]
    /\ result \in [IonThreads ->
                      {"none", "OP_FAILED", "NO_DEV", "NOT_SUPPORTED", MEMION_NO_ERROR}]

\* The numbers a thread keeps at each point.
Knows(t) ==
    /\ ~vdspIon[t].live => vdspIon[t].mIonDeviceFd = -1 /\ vdspIon[t].mFD = -1
    /\ ionAt[t] \in {"alloc", "share", "map"} => ~vdspIon[t].live
    /\ ionAt[t] \in {"call", "delete"} => vdspIon[t].live
    /\ ionAt[t] = "delete" => vdspIon[t].mIonDeviceFd = -1
    /\ deviceFd[t] /= -1 <=> ionAt[t] \in {"alloc", "share", "map", "call"}
    /\ bufferFd[t] /= -1 <=> ionAt[t] = "map"
    /\ deviceFd[t] /= -1 => deviceFd[t] /= vdspIon[t].mIonDeviceFd
PlacesKnow == \A t \in IonThreads : Knows(t)

\* Each number is open on what its thread takes it for, and no one else's.
Owned(t) == Devices(t) \union Buffers(t)
FilesOwned ==
    /\ \A t \in IonThreads :
         /\ \A f \in Devices(t) : fdTable[f] = "device"
         /\ \A f \in Buffers(t) : fdTable[f] = "buffer"
    /\ \A t, u \in IonThreads : t /= u => Owned(t) \intersect Owned(u) = {}

\* Nothing is open on ION without an owner, but the descriptor 0 left behind.
FilesNeeded ==
    \A f \in Fds :
        /\ fdTable[f] = "device" => f = 0 \/ \E t \in IonThreads : f \in Devices(t)
        /\ fdTable[f] = "buffer" => \E t \in IonThreads : f \in Buffers(t)

\* A device has one handle at most, and none before ION_IOC_ALLOC.
HandlesBounded ==
    /\ \A f \in Fds :
          ionHandles[f] <= (IF legacy /\ fdTable[f] = "device" THEN 1 ELSE 0)
    /\ \A t \in IonThreads : ionAt[t] = "alloc" => ionHandles[deviceFd[t]] = 0
    /\ \A t \in IonThreads : ionAt[t] = "share" => legacy

ResultsSound ==
    \A t \in IonThreads :
        result[t] = MEMION_NO_ERROR => vdspIon[t].mFD /= -1 \/ ~vdspIon[t].live

IonInv ==
    /\ IonTypes
    /\ PlacesKnow
    /\ FilesOwned
    /\ FilesNeeded
    /\ HandlesBounded
    /\ ResultsSound

-----------------------------------------------------------------------------
\* open() finds a descriptor that is free.
LEMMA FirstFreeIsFree ==
    ASSUME IonTypes, Free /= {}
    PROVE  FirstFree \in Fds /\ fdTable[FirstFree] = "closed"
<1>1. Free \in SUBSET Nat
  BY IonMemoryAssumption DEF Free, Fds
<1>2. \E f \in Free : \A g \in Free : f <= g
  BY <1>1, LeastElement
<1>3. FirstFree \in Free
  BY <1>2 DEF FirstFree
<1> QED
  BY <1>3 DEF Free

Refused(t) ==
    /\ legacy /\ vdspIon[t].mIonDeviceFd >= 0 /\ GoesTo(t, "idle", "idle")
    /\ Returns(t, "NOT_SUPPORTED")
    /\ UNCHANGED <<legacy, fdTable, ionHandles, vdspIon, deviceFd, bufferFd>>

\* The twelve operations on a buffer are one of two forms each.
IonStep(t) ==
    \/ VdspIon(t) \/ LegacyAlloc(t) \/ LegacyShare(t) \/ NewAlloc(t)
    \/ MapBuffer(t) \/ DeleteDevice(t) \/ DeleteBuffer(t) \/ OpenForCall(t)
    \/ \E l \in BOOLEAN : StaticCall(t, l) \/ OwnCall(t, l)
    \/ Refused(t)

\* Every step is one of these, by one thread.
LEMMA IonCases ==
    ASSUME [IonNext]_ionVars
    PROVE  (\E t \in IonThreads : IonStep(t)) \/ UNCHANGED ionVars
BY DEF IonNext, IonStep, Refused, Get_phy_addr_from_ion, Flush_ion_buffer,
       Invalid_ion_buffer, Sync_ion_buffer, Get_kaddr, Free_kaddr,
       get_phy_addr_from_ion, flush_ion_buffer, invalid_ion_buffer,
       sync_ion_buffer, get_kaddr, free_kaddr

\* open() changes the table at a descriptor that is nobody's.
LEMMA OpensTypes ==
    ASSUME IonTypes, NEW kind \in {"device", "buffer"}, OpensAs(kind)
    PROVE  /\ fdTable' \in [Fds -> {"closed", "device", "buffer", "other"}]
           /\ FirstFree \in FdOrNone
BY FirstFreeIsFree DEF OpensAs, IonTypes, FdOrNone

\* close() of descriptors in the table.
LEMMA ClosesTypes ==
    ASSUME IonTypes, NEW fds, Closes(fds)
    PROVE  /\ fdTable' \in [Fds -> {"closed", "device", "buffer", "other"}]
           /\ ionHandles' \in [Fds -> Nat]
BY DEF Closes, IonTypes

\* The error path of mapIonFd.
LEMMA MapFailsTypes ==
    ASSUME IonTypes, NEW t \in IonThreads, NEW from, NEW fds, MapFails(t, from, fds),
           UNCHANGED legacy
    PROVE  IonTypes'
<1>1. /\ fdTable' \in [Fds -> {"closed", "device", "buffer", "other"}]
      /\ ionHandles' \in [Fds -> Nat]
  BY ClosesTypes DEF MapFails
<1>2. vdspIon' \in [IonThreads -> Ions]
  BY DEF MapFails, IonTypes, Ions
<1>3. deviceFd' \in [IonThreads -> FdOrNone] /\ bufferFd' \in [IonThreads -> FdOrNone]
  BY DEF MapFails, IonTypes, FdOrNone
<1> QED
  BY <1>1, <1>2, <1>3 DEF MapFails, GoesTo, Returns, IonTypes

\* The types.
LEMMA IonTypesStep ==
    ASSUME IonInv, [IonNext]_ionVars
    PROVE  IonTypes'
<1> USE DEF IonInv, IonTypes, GoesTo, Returns, MEMION_NO_ERROR
<1>1. ASSUME NEW t \in IonThreads, VdspIon(t) PROVE IonTypes'
  <2>1. CASE OpensAs("device") /\ GoesTo(t, "idle", "alloc")
    BY <1>1, <2>1, OpensTypes DEF VdspIon
  <2>2. CASE ~(OpensAs("device") /\ GoesTo(t, "idle", "alloc"))
    <3>1. vdspIon' \in [IonThreads -> Ions]
      <4>1. vdspIon' = [vdspIon EXCEPT ![t].live = TRUE] \/ vdspIon' = vdspIon
        BY <1>1 DEF VdspIon
      <4>2. vdspIon \in [IonThreads -> Ions]
        OBVIOUS
      <4> QED
        BY ONLY <4>1, <4>2 DEF Ions
    <3> QED
      BY <1>1, <2>2, <3>1 DEF VdspIon
  <2> QED
    BY <2>1, <2>2
<1>2. ASSUME NEW t \in IonThreads, LegacyAlloc(t) PROVE IonTypes'
  <2>1. CASE MapFails(t, "alloc", {deviceFd[t]})
    BY <1>2, <2>1, MapFailsTypes DEF LegacyAlloc
  <2>2. CASE ~MapFails(t, "alloc", {deviceFd[t]})
    <3>1. deviceFd[t] \in Fds
      BY <1>2, <2>2 DEF LegacyAlloc, PlacesKnow, Knows, FdOrNone
    <3>2. ionHandles' \in [Fds -> Nat]
      BY <1>2, <2>2, <3>1 DEF LegacyAlloc
    <3> QED
      BY <1>2, <2>2, <3>2 DEF LegacyAlloc
  <2> QED
    BY <2>1, <2>2
<1>3. ASSUME NEW t \in IonThreads, LegacyShare(t) PROVE IonTypes'
  <2>1. CASE MapFails(t, "share", {deviceFd[t]})
    BY <1>3, <2>1, MapFailsTypes DEF LegacyShare
  <2>2. CASE ~MapFails(t, "share", {deviceFd[t]})
    BY <1>3, <2>2, OpensTypes DEF LegacyShare
  <2> QED
    BY <2>1, <2>2
<1>4. ASSUME NEW t \in IonThreads, NewAlloc(t) PROVE IonTypes'
  <2>1. CASE MapFails(t, "alloc", {deviceFd[t]})
    BY <1>4, <2>1, MapFailsTypes DEF NewAlloc
  <2>2. CASE ~MapFails(t, "alloc", {deviceFd[t]})
    BY <1>4, <2>2, OpensTypes DEF NewAlloc
  <2> QED
    BY <2>1, <2>2
<1>5. ASSUME NEW t \in IonThreads, MapBuffer(t) PROVE IonTypes'
  <2>1. CASE MapFails(t, "map", {deviceFd[t], bufferFd[t]})
    BY <1>5, <2>1, MapFailsTypes DEF MapBuffer
  <2>2. CASE ~MapFails(t, "map", {deviceFd[t], bufferFd[t]})
    <3>1. vdspIon' = [vdspIon EXCEPT ![t] =
             [live |-> TRUE, mIonDeviceFd |-> deviceFd[t], mFD |-> bufferFd[t]]]
      BY <1>5, <2>2 DEF MapBuffer
    <3>2. vdspIon' \in [IonThreads -> Ions]
      BY <3>1 DEF Ions
    <3> QED
      BY <1>5, <2>2, <3>2 DEF MapBuffer, FdOrNone
  <2> QED
    BY <2>1, <2>2
<1>6. ASSUME NEW t \in IonThreads, DeleteDevice(t) PROVE IonTypes'
  <2>1. vdspIon' \in [IonThreads -> Ions]
    BY <1>6 DEF DeleteDevice, Ions, FdOrNone
  <2> QED
    BY <1>6, <2>1, ClosesTypes DEF DeleteDevice
<1>7. ASSUME NEW t \in IonThreads, DeleteBuffer(t) PROVE IonTypes'
  <2>1. vdspIon' \in [IonThreads -> Ions]
    BY <1>7 DEF DeleteBuffer, Ions, FdOrNone, NoIon
  <2> QED
    BY <1>7, <2>1, ClosesTypes DEF DeleteBuffer
<1>8. ASSUME NEW t \in IonThreads, OpenForCall(t) PROVE IonTypes'
  <2>1. CASE OpensAs("device") /\ GoesTo(t, "idle", "call")
    BY <1>8, <2>1, OpensTypes DEF OpenForCall
  <2>2. CASE ~(OpensAs("device") /\ GoesTo(t, "idle", "call"))
    BY <1>8, <2>2 DEF OpenForCall
  <2> QED
    BY <2>1, <2>2
<1>9. ASSUME NEW t \in IonThreads, NEW l \in BOOLEAN, StaticCall(t, l) PROVE IonTypes'
  BY <1>9, ClosesTypes DEF StaticCall, Supported, Outcomes, FdOrNone
<1>10. ASSUME NEW t \in IonThreads, NEW l \in BOOLEAN, OwnCall(t, l) PROVE IonTypes'
  BY <1>10 DEF OwnCall, Supported, Outcomes
<1>11. ASSUME NEW t \in IonThreads, Refused(t) PROVE IonTypes'
  BY <1>11 DEF Refused
<1>12. CASE UNCHANGED ionVars
  BY <1>12 DEF ionVars
<1> QED
  BY <1>1, <1>2, <1>3, <1>4, <1>5, <1>6, <1>7, <1>8, <1>9, <1>10, <1>11, <1>12,
     IonCases DEF IonStep

-----------------------------------------------------------------------------
(***************************************************************************)
(* What a step does to the numbers that are kept and to the table.         *)
(***************************************************************************)

\* A step of t changes nothing another thread keeps.
LEMMA OthersKept ==
    ASSUME IonTypes, NEW t \in IonThreads, IonStep(t), NEW u \in IonThreads \ {t}
    PROVE  /\ vdspIon'[u] = vdspIon[u] /\ ionAt'[u] = ionAt[u]
           /\ deviceFd'[u] = deviceFd[u] /\ bufferFd'[u] = bufferFd[u]
           /\ result'[u] = result[u] /\ legacy' = legacy
BY DEF IonStep, IonTypes, VdspIon, LegacyAlloc, LegacyShare, NewAlloc, MapBuffer,
       DeleteDevice, DeleteBuffer, OpenForCall, StaticCall, OwnCall, Refused,
       GoesTo, Returns, MapFails

\* One number more, or some less, or none; or descriptor 0 is left behind.
Takes(t) ==
    \E f \in Fds :
        /\ fdTable[f] = "closed" /\ ionHandles' = ionHandles
        /\ \/ /\ fdTable' = [fdTable EXCEPT ![f] = "device"]
              /\ Devices(t)' = Devices(t) \union {f} /\ Buffers(t)' = Buffers(t)
           \/ /\ fdTable' = [fdTable EXCEPT ![f] = "buffer"]
              /\ Devices(t)' = Devices(t) /\ Buffers(t)' = Buffers(t) \union {f}
Gives(t) ==
    \E gone \in SUBSET Owned(t) :
        /\ Closes(gone)
        /\ Devices(t)' = Devices(t) \ gone /\ Buffers(t)' = Buffers(t) \ gone
Keeps(t) ==
    /\ fdTable' = fdTable /\ Buffers(t)' = Buffers(t)
    /\ Devices(t)' = Devices(t) \/ Devices(t)' = Devices(t) \ {0}
    /\ \/ ionHandles' = ionHandles
       \/ /\ ionAt[t] = "alloc" /\ legacy
          /\ ionHandles' = [ionHandles EXCEPT ![deviceFd[t]] = @ + 1]
          /\ ionAt'[t] = "share"

\* What open() hands out is in no one's hands.
LEMMA OpenedIsNobodys ==
    ASSUME IonInv, Free /= {}, NEW t \in IonThreads
    PROVE  /\ FirstFree \in Fds /\ fdTable[FirstFree] = "closed" /\ FirstFree /= -1
           /\ FirstFree \notin Owned(t)
<1>1. FirstFree \in Fds /\ fdTable[FirstFree] = "closed"
  BY FirstFreeIsFree DEF IonInv
<1>2. -1 \notin Fds
  BY IonMemoryAssumption DEF Fds
<1>3. \A f \in Owned(t) : fdTable[f] \in {"device", "buffer"}
  BY DEF IonInv, FilesOwned, Owned
<1> QED
  BY <1>1, <1>2, <1>3

\* A thread keeps the numbers its next step needs.
LEMMA KnowsStep ==
    ASSUME IonInv, NEW t \in IonThreads, IonStep(t)
    PROVE  Knows(t)'
<1> USE DEF IonInv, IonTypes, Ions, FdOrNone, GoesTo
<1>0. Knows(t)
  BY DEF PlacesKnow
<1> USE <1>0
<1>1. CASE VdspIon(t)
  <2>1. Free /= {} => FirstFree \in Fds /\ FirstFree /= vdspIon[t].mIonDeviceFd
    BY OpenedIsNobodys DEF Owned, Devices
  <2>2. -1 \notin Fds
    BY IonMemoryAssumption DEF Fds
  <2> QED
    BY <1>1, <2>1, <2>2 DEF VdspIon, OpensAs, MapFails, Knows
<1>2. CASE LegacyAlloc(t)
  BY <1>2 DEF LegacyAlloc, MapFails, Knows
<1>3. CASE LegacyShare(t)
  <2>1. Free /= {} => FirstFree \in Fds /\ FirstFree /= vdspIon[t].mIonDeviceFd
    BY OpenedIsNobodys DEF Owned, Devices
  <2>2. -1 \notin Fds
    BY IonMemoryAssumption DEF Fds
  <2> QED
    BY <1>3, <2>1, <2>2 DEF LegacyShare, OpensAs, MapFails, Knows
<1>4. CASE NewAlloc(t)
  <2>1. Free /= {} => FirstFree \in Fds /\ FirstFree /= vdspIon[t].mIonDeviceFd
    BY OpenedIsNobodys DEF Owned, Devices
  <2>2. -1 \notin Fds
    BY IonMemoryAssumption DEF Fds
  <2> QED
    BY <1>4, <2>1, <2>2 DEF NewAlloc, OpensAs, MapFails, Knows
<1>5. CASE MapBuffer(t)
  BY <1>5 DEF MapBuffer, MapFails, Knows
<1>6. CASE DeleteDevice(t)
  BY <1>6 DEF DeleteDevice, MapFails, Knows
<1>7. CASE DeleteBuffer(t)
  BY <1>7 DEF DeleteBuffer, Knows, NoIon
<1>8. CASE OpenForCall(t)
  <2>1. Free /= {} => FirstFree \in Fds /\ FirstFree /= vdspIon[t].mIonDeviceFd
    BY OpenedIsNobodys DEF Owned, Devices
  <2>2. -1 \notin Fds
    BY IonMemoryAssumption DEF Fds
  <2> QED
    BY <1>8, <2>1, <2>2 DEF OpenForCall, OpensAs, MapFails, Knows
<1>9. ASSUME NEW l \in BOOLEAN, StaticCall(t, l) PROVE Knows(t)'
  BY <1>9 DEF StaticCall, MapFails, Knows
<1>10. ASSUME NEW l \in BOOLEAN, OwnCall(t, l) PROVE Knows(t)'
  BY <1>10 DEF OwnCall, MapFails, Knows
<1>11. CASE Refused(t)
  BY <1>11 DEF Refused, MapFails, Knows
<1> QED
  BY <1>1, <1>2, <1>3, <1>4, <1>5, <1>6, <1>7, <1>8, <1>9, <1>10, <1>11
     DEF IonStep

\* open() for a thread gives it a number.
LEMMA OpenTakes ==
    ASSUME IonInv, NEW t \in IonThreads, NEW kind \in {"device", "buffer"},
           OpensAs(kind), ionHandles' = ionHandles, vdspIon'[t] = vdspIon[t],
           \/ /\ kind = "device" /\ deviceFd[t] = -1
              /\ deviceFd'[t] = FirstFree /\ bufferFd'[t] = bufferFd[t]
           \/ /\ kind = "buffer" /\ bufferFd[t] = -1
              /\ bufferFd'[t] = FirstFree /\ deviceFd'[t] = deviceFd[t]
    PROVE  Takes(t)
<1>1. FirstFree \in Fds /\ fdTable[FirstFree] = "closed" /\ FirstFree /= -1
  BY OpenedIsNobodys DEF OpensAs
<1>2. CASE kind = "device"
  <2>1. Devices(t)' = Devices(t) \union {FirstFree} /\ Buffers(t)' = Buffers(t)
    BY <1>1, <1>2 DEF Devices, Buffers
  <2> QED
    BY <1>1, <1>2, <2>1 DEF OpensAs, Takes
<1>3. CASE kind = "buffer"
  <2>1. Buffers(t)' = Buffers(t) \union {FirstFree} /\ Devices(t)' = Devices(t)
    BY <1>1, <1>3 DEF Devices, Buffers
  <2> QED
    BY <1>1, <1>3, <2>1 DEF OpensAs, Takes
<1> QED
  BY <1>2, <1>3

\* The error path of mapIonFd gives back all that the constructor took.
LEMMA MapFailsGives ==
    ASSUME IonInv, NEW t \in IonThreads, NEW from \in {"alloc", "share", "map"}, NEW fds,
           MapFails(t, from, fds),
           (fds = {deviceFd[t]} /\ from /= "map") \/ fds = {deviceFd[t], bufferFd[t]}
    PROVE  Gives(t)
<1> USE DEF IonInv, IonTypes, Ions
<1>1. Knows(t)
  BY DEF PlacesKnow
<1>2. /\ vdspIon[t].mIonDeviceFd = -1 /\ vdspIon[t].mFD = -1 /\ ionAt[t] = from
      /\ vdspIon'[t].mIonDeviceFd = -1 /\ vdspIon'[t].mFD = -1
      /\ deviceFd'[t] = -1 /\ bufferFd'[t] = -1
  BY <1>1 DEF MapFails, GoesTo, Knows
<1>3. Owned(t) = fds \ {-1} /\ Devices(t)' = {} /\ Buffers(t)' = {}
  BY <1>1, <1>2 DEF Owned, Devices, Buffers, Knows
<1>4. Closes(fds \ {-1})
  BY IonMemoryAssumption DEF MapFails, Closes, Fds
<1> QED
  BY <1>3, <1>4 DEF Gives, Owned

\* The destructor and the calls give back one number.
LEMMA CloseGives ==
    ASSUME IonInv, NEW t \in IonThreads, NEW f, Closes({f}),
           Devices(t)' = Devices(t) \ {f}, Buffers(t)' = Buffers(t) \ {f},
           f = -1 \/ f \in Owned(t)
    PROVE  Gives(t)
<1>1. -1 \notin Devices(t) /\ -1 \notin Buffers(t)
  BY DEF Devices, Buffers
<1>2. Closes({f} \ {-1})
  BY IonMemoryAssumption DEF Closes, Fds
<1>3. Devices(t)' = Devices(t) \ ({f} \ {-1}) /\ Buffers(t)' = Buffers(t) \ ({f} \ {-1})
  BY <1>1
<1>4. {f} \ {-1} \in SUBSET Owned(t)
  OBVIOUS
<1> QED
  BY <1>2, <1>3, <1>4 DEF Gives

\* Every step has one of the three effects.
LEMMA Effects ==
    ASSUME IonInv, NEW t \in IonThreads, IonStep(t)
    PROVE  Takes(t) \/ Gives(t) \/ Keeps(t)
<1> USE DEF IonInv, IonTypes, Ions, FdOrNone, GoesTo
<1>0. Knows(t)
  BY DEF PlacesKnow
<1>a. -1 \notin Fds
  BY IonMemoryAssumption DEF Fds
<1>1. CASE VdspIon(t)
  <2>1. CASE OpensAs("device") /\ deviceFd' = [deviceFd EXCEPT ![t] = FirstFree]
             /\ vdspIon' = vdspIon
    <3>1. deviceFd[t] = -1 /\ deviceFd'[t] = FirstFree /\ bufferFd'[t] = bufferFd[t]
          /\ ionHandles' = ionHandles
      BY <1>0, <1>1, <2>1 DEF VdspIon, Knows
    <3> QED
      BY <2>1, <3>1, OpenTakes
  <2>2. CASE fdTable' = fdTable /\ deviceFd' = deviceFd
             /\ vdspIon' = [vdspIon EXCEPT ![t].live = TRUE]
    BY <1>1, <2>2 DEF VdspIon, Keeps, Devices, Buffers
  <2> QED
    BY <1>1, <2>1, <2>2 DEF VdspIon
<1>2. CASE LegacyAlloc(t)
  <2>1. CASE MapFails(t, "alloc", {deviceFd[t]})
    BY <2>1, MapFailsGives
  <2>2. CASE ~MapFails(t, "alloc", {deviceFd[t]})
    BY <1>2, <2>2 DEF LegacyAlloc, Keeps, Devices, Buffers
  <2> QED
    BY <2>1, <2>2
<1>3. CASE LegacyShare(t)
  <2>1. CASE MapFails(t, "share", {deviceFd[t]})
    BY <2>1, MapFailsGives
  <2>2. CASE ~MapFails(t, "share", {deviceFd[t]})
    <3>1. /\ OpensAs("buffer") /\ ionHandles' = ionHandles /\ vdspIon'[t] = vdspIon[t]
          /\ bufferFd[t] = -1 /\ bufferFd'[t] = FirstFree /\ deviceFd'[t] = deviceFd[t]
      BY <1>0, <1>3, <2>2 DEF LegacyShare, Knows
    <3> QED
      BY <3>1, OpenTakes
  <2> QED
    BY <2>1, <2>2
<1>4. CASE NewAlloc(t)
  <2>1. CASE MapFails(t, "alloc", {deviceFd[t]})
    BY <2>1, MapFailsGives
  <2>2. CASE ~MapFails(t, "alloc", {deviceFd[t]})
    <3>1. /\ OpensAs("buffer") /\ ionHandles' = ionHandles /\ vdspIon'[t] = vdspIon[t]
          /\ bufferFd[t] = -1 /\ bufferFd'[t] = FirstFree /\ deviceFd'[t] = deviceFd[t]
      BY <1>0, <1>4, <2>2 DEF NewAlloc, Knows
    <3> QED
      BY <3>1, OpenTakes
  <2> QED
    BY <2>1, <2>2
<1>5. CASE MapBuffer(t)
  <2>1. CASE MapFails(t, "map", {deviceFd[t], bufferFd[t]})
    BY <2>1, MapFailsGives
  <2>2. CASE ~MapFails(t, "map", {deviceFd[t], bufferFd[t]})
    <3>1. /\ vdspIon[t].mIonDeviceFd = -1 /\ vdspIon[t].mFD = -1
          /\ vdspIon'[t].mIonDeviceFd = deviceFd[t] /\ vdspIon'[t].mFD = bufferFd[t]
          /\ deviceFd'[t] = -1 /\ bufferFd'[t] = -1
          /\ fdTable' = fdTable /\ ionHandles' = ionHandles
      BY <1>0, <1>5, <2>2 DEF MapBuffer, Knows
    <3> QED
      BY <3>1 DEF Keeps, Devices, Buffers
  <2> QED
    BY <2>1, <2>2
<1>6. CASE DeleteDevice(t)
  <2>1. /\ deviceFd[t] = -1 /\ deviceFd'[t] = -1 /\ bufferFd' = bufferFd
        /\ vdspIon'[t].mIonDeviceFd = -1 /\ vdspIon'[t].mFD = vdspIon[t].mFD
    BY <1>0, <1>6 DEF DeleteDevice, Knows
  <2>2. Devices(t) = {vdspIon[t].mIonDeviceFd} \ {-1} /\ Devices(t)' = {}
        /\ Buffers(t)' = Buffers(t)
    BY <2>1 DEF Devices, Buffers
  <2>3. CASE vdspIon[t].mIonDeviceFd > 0
    <3>1. vdspIon[t].mIonDeviceFd \in Devices(t) /\ vdspIon[t].mIonDeviceFd \in Fds
      BY <2>2, <2>3
    <3>2. vdspIon[t].mIonDeviceFd \notin Buffers(t)
      BY <3>1 DEF FilesOwned
    <3>3. Closes({vdspIon[t].mIonDeviceFd})
      BY <1>6, <2>3 DEF DeleteDevice
    <3>4. /\ Devices(t)' = Devices(t) \ {vdspIon[t].mIonDeviceFd}
          /\ Buffers(t)' = Buffers(t) \ {vdspIon[t].mIonDeviceFd}
          /\ vdspIon[t].mIonDeviceFd \in Owned(t)
      BY ONLY <2>2, <3>1, <3>2 DEF Owned
    <3> QED
      BY ONLY IonInv, t \in IonThreads, <3>3, <3>4, CloseGives
  <2>4. CASE ~(vdspIon[t].mIonDeviceFd > 0)
    <3>1. vdspIon[t].mIonDeviceFd \in {0, -1}
      BY <2>4 DEF Fds
    <3>2. Devices(t)' = Devices(t) \ {0}
      BY <2>2, <3>1
    <3> QED
      BY <1>6, <2>2, <2>4, <3>2 DEF DeleteDevice, Keeps
  <2> QED
    BY <2>3, <2>4
<1>7. CASE DeleteBuffer(t)
  <2>1. /\ deviceFd[t] = -1 /\ deviceFd'[t] = -1 /\ bufferFd[t] = -1 /\ bufferFd'[t] = -1
        /\ vdspIon[t].mIonDeviceFd = -1 /\ Closes({vdspIon[t].mFD})
        /\ vdspIon'[t].mIonDeviceFd = -1 /\ vdspIon'[t].mFD = -1
    BY <1>0, <1>7 DEF DeleteBuffer, Knows, NoIon
  <2>2. /\ Devices(t) = {} /\ Devices(t)' = {}
        /\ Buffers(t) = {vdspIon[t].mFD} \ {-1} /\ Buffers(t)' = {}
    BY <2>1 DEF Devices, Buffers
  <2>3. vdspIon[t].mFD = -1 \/ vdspIon[t].mFD \in Owned(t)
    BY <2>2 DEF Owned
  <2>4. Devices(t)' = Devices(t) \ {vdspIon[t].mFD} /\ Buffers(t)' = Buffers(t) \ {vdspIon[t].mFD}
    BY <2>2
  <2> QED
    BY <2>1, <2>3, <2>4, CloseGives
<1>8. CASE OpenForCall(t)
  <2>1. CASE OpensAs("device") /\ deviceFd' = [deviceFd EXCEPT ![t] = FirstFree]
    <3>1. deviceFd[t] = -1 /\ deviceFd'[t] = FirstFree /\ bufferFd'[t] = bufferFd[t]
          /\ ionHandles' = ionHandles /\ vdspIon'[t] = vdspIon[t]
      BY <1>0, <1>8, <2>1 DEF OpenForCall, Knows
    <3> QED
      BY <2>1, <3>1, OpenTakes
  <2>2. CASE fdTable' = fdTable /\ deviceFd' = deviceFd
    BY <1>8, <2>2 DEF OpenForCall, Keeps, Devices, Buffers
  <2> QED
    BY <1>8, <2>1, <2>2 DEF OpenForCall
<1>9. ASSUME NEW l \in BOOLEAN, StaticCall(t, l) PROVE Gives(t)
  <2>1. /\ deviceFd[t] /= -1 /\ deviceFd[t] /= vdspIon[t].mIonDeviceFd
        /\ deviceFd'[t] = -1 /\ bufferFd' = bufferFd /\ vdspIon' = vdspIon
        /\ Closes({deviceFd[t]})
    BY <1>0, <1>9 DEF StaticCall, Knows
  <2>2. deviceFd[t] \in Devices(t) /\ Devices(t)' = Devices(t) \ {deviceFd[t]}
        /\ Buffers(t)' = Buffers(t)
    BY <2>1 DEF Devices, Buffers
  <2>3. deviceFd[t] \notin Buffers(t)
    BY <2>2 DEF FilesOwned
  <2> QED
    BY <2>1, <2>2, <2>3, CloseGives DEF Owned
<1>10. ASSUME NEW l \in BOOLEAN, OwnCall(t, l) PROVE Keeps(t)
  BY <1>10 DEF OwnCall, Keeps, Devices, Buffers
<1>11. CASE Refused(t)
  BY <1>11 DEF Refused, Keeps, Devices, Buffers
<1> QED
  BY <1>1, <1>2, <1>3, <1>4, <1>5, <1>6, <1>7, <1>8, <1>9, <1>10, <1>11
     DEF IonStep

-----------------------------------------------------------------------------
(***************************************************************************)
(* Each effect keeps the descriptors owned once.                           *)
(***************************************************************************)

\* What the other threads own stays what it is.
LEMMA OthersOwn ==
    ASSUME IonTypes, NEW t \in IonThreads, IonStep(t), NEW u \in IonThreads \ {t}
    PROVE  Devices(u)' = Devices(u) /\ Buffers(u)' = Buffers(u) /\ Owned(u)' = Owned(u)
BY OthersKept DEF Devices, Buffers, Owned

\* A number that was no one's becomes t's.
LEMMA TakesFiles ==
    ASSUME IonInv, NEW t \in IonThreads, IonStep(t), Takes(t)
    PROVE  FilesOwned' /\ FilesNeeded'
<1> USE DEF IonInv, IonTypes
<1>1. PICK f \in Fds :
        /\ fdTable[f] = "closed" /\ ionHandles' = ionHandles
        /\ \/ /\ fdTable' = [fdTable EXCEPT ![f] = "device"]
              /\ Devices(t)' = Devices(t) \union {f} /\ Buffers(t)' = Buffers(t)
           \/ /\ fdTable' = [fdTable EXCEPT ![f] = "buffer"]
              /\ Devices(t)' = Devices(t) /\ Buffers(t)' = Buffers(t) \union {f}
  BY DEF Takes
<1>2. \A u \in IonThreads : f \notin Owned(u)
  BY <1>1 DEF FilesOwned, Owned
<1>3. \A u \in IonThreads : Owned(u) \subseteq Fds
  BY DEF Owned, Devices, Buffers, Ions, FdOrNone
<1>4. Owned(t)' = Owned(t) \union {f}
  BY <1>1 DEF Owned
<1>5. \A u \in IonThreads \ {t} :
         Devices(u)' = Devices(u) /\ Buffers(u)' = Buffers(u) /\ Owned(u)' = Owned(u)
  BY OthersOwn
<1>6. \A g \in Fds : g /= f => fdTable'[g] = fdTable[g]
  BY <1>1
<1>7. ASSUME NEW u \in IonThreads
      PROVE  (\A g \in Devices(u)' : fdTable'[g] = "device")
             /\ (\A g \in Buffers(u)' : fdTable'[g] = "buffer")
  <2>1. /\ \A g \in Devices(u) : g \in Fds /\ g /= f /\ fdTable'[g] = "device"
        /\ \A g \in Buffers(u) : g \in Fds /\ g /= f /\ fdTable'[g] = "buffer"
    BY <1>2, <1>3, <1>6 DEF FilesOwned, Owned
  <2>2. CASE u /= t
    BY <1>5, <2>1, <2>2
  <2>3. CASE u = t
    BY <1>1, <2>1, <2>3
  <2> QED
    BY <2>2, <2>3
<1>8. ASSUME NEW u \in IonThreads, NEW v \in IonThreads, u /= v
      PROVE  Owned(u)' \intersect Owned(v)' = {}
  <2>1. Owned(u) \intersect Owned(v) = {}
    BY <1>8 DEF FilesOwned
  <2>2. CASE u = t
    BY <1>2, <1>4, <1>5, <1>8, <2>1, <2>2
  <2>3. CASE v = t
    BY <1>2, <1>4, <1>5, <1>8, <2>1, <2>3
  <2>4. CASE u /= t /\ v /= t
    BY <1>5, <2>1, <2>4
  <2> QED
    BY <2>2, <2>3, <2>4
<1>9. ASSUME NEW g \in Fds
      PROVE  /\ fdTable'[g] = "device" => g = 0 \/ \E u \in IonThreads : g \in Devices(u)'
             /\ fdTable'[g] = "buffer" => \E u \in IonThreads : g \in Buffers(u)'
  <2>1. CASE g = f
    BY <1>1, <2>1
  <2>2. CASE g /= f
    <3>1. fdTable'[g] = fdTable[g]
      BY <1>6, <2>2
    <3>2. \A u \in IonThreads : Devices(u) \subseteq Devices(u)' /\ Buffers(u) \subseteq Buffers(u)'
      BY <1>1, <1>5
    <3> QED
      BY <3>1, <3>2 DEF FilesNeeded
  <2> QED
    BY <2>1, <2>2
<1>10. FilesOwned'
  BY <1>7, <1>8 DEF FilesOwned
<1>11. FilesNeeded'
  BY <1>9 DEF FilesNeeded
<1> QED
  BY <1>10, <1>11

\* Numbers that were t's are closed and no one's.
LEMMA GivesFiles ==
    ASSUME IonInv, NEW t \in IonThreads, IonStep(t), Gives(t)
    PROVE  FilesOwned' /\ FilesNeeded'
<1> USE DEF IonInv, IonTypes
<1>1. PICK gone \in SUBSET Owned(t) :
        /\ Closes(gone)
        /\ Devices(t)' = Devices(t) \ gone /\ Buffers(t)' = Buffers(t) \ gone
  BY DEF Gives
<1>2. \A u \in IonThreads \ {t} : gone \intersect Owned(u) = {}
  BY <1>1 DEF FilesOwned
<1>3. \A u \in IonThreads : Owned(u) \subseteq Fds
  BY DEF Owned, Devices, Buffers, Ions, FdOrNone
<1>4. Owned(t)' \subseteq Owned(t)
  BY <1>1 DEF Owned
<1>5. \A u \in IonThreads :
         /\ Devices(u)' = Devices(u) \ gone /\ Buffers(u)' = Buffers(u) \ gone
         /\ Owned(u)' = Owned(u) \ gone
  <2>1. \A u \in IonThreads \ {t} :
           /\ Devices(u)' = Devices(u) /\ Buffers(u)' = Buffers(u)
           /\ gone \intersect Devices(u) = {} /\ gone \intersect Buffers(u) = {}
    BY <1>2, OthersOwn DEF Owned
  <2>2. \A u \in IonThreads :
           Devices(u)' = Devices(u) \ gone /\ Buffers(u)' = Buffers(u) \ gone
    BY <1>1, <2>1
  <2> QED
    BY <2>2 DEF Owned
<1>6. \A g \in Fds : fdTable'[g] = IF g \in gone THEN "closed" ELSE fdTable[g]
  BY <1>1 DEF Closes
<1>7. ASSUME NEW u \in IonThreads
      PROVE  (\A g \in Devices(u)' : fdTable'[g] = "device")
             /\ (\A g \in Buffers(u)' : fdTable'[g] = "buffer")
  BY <1>3, <1>5, <1>6 DEF FilesOwned, Owned
<1>8. ASSUME NEW u \in IonThreads, NEW v \in IonThreads, u /= v
      PROVE  Owned(u)' \intersect Owned(v)' = {}
  BY <1>5, <1>8 DEF FilesOwned
<1>9. ASSUME NEW g \in Fds
      PROVE  /\ fdTable'[g] = "device" => g = 0 \/ \E u \in IonThreads : g \in Devices(u)'
             /\ fdTable'[g] = "buffer" => \E u \in IonThreads : g \in Buffers(u)'
  <2>1. CASE g \in gone
    BY <1>6, <2>1
  <2>2. CASE g \notin gone
    BY <1>5, <1>6, <2>2 DEF FilesNeeded
  <2> QED
    BY <2>1, <2>2
<1>10. FilesOwned'
  BY <1>7, <1>8 DEF FilesOwned
<1>11. FilesNeeded'
  BY <1>9 DEF FilesNeeded
<1> QED
  BY <1>10, <1>11

\* The table stays, and only the descriptor 0 may be forgotten.
LEMMA KeepsFiles ==
    ASSUME IonInv, NEW t \in IonThreads, IonStep(t), Keeps(t)
    PROVE  FilesOwned' /\ FilesNeeded'
<1> USE DEF IonInv, IonTypes
<1>1. \A u \in IonThreads :
         /\ Devices(u)' \subseteq Devices(u) /\ Devices(u) \subseteq Devices(u)' \union {0}
         /\ Buffers(u)' = Buffers(u)
  BY OthersOwn DEF Keeps
<1>2. \A u \in IonThreads : Owned(u)' \subseteq Owned(u)
  BY <1>1 DEF Owned
<1>3. fdTable' = fdTable
  BY DEF Keeps
<1>4. FilesOwned'
  <2>1. \A u \in IonThreads : (\A g \in Devices(u)' : fdTable'[g] = "device")
             /\ (\A g \in Buffers(u)' : fdTable'[g] = "buffer")
    BY <1>1, <1>3 DEF FilesOwned
  <2>2. \A u, v \in IonThreads : u /= v => Owned(u)' \intersect Owned(v)' = {}
    BY <1>2 DEF FilesOwned
  <2> QED
    BY <2>1, <2>2 DEF FilesOwned
<1>5. FilesNeeded'
  BY <1>1, <1>3 DEF FilesNeeded
<1> QED
  BY <1>4, <1>5

\* The legacy handles follow the devices.
LEMMA HandlesStep ==
    ASSUME IonInv, NEW t \in IonThreads, IonStep(t), IonTypes'
    PROVE  HandlesBounded'
<1> USE DEF IonInv, IonTypes
<1>1. legacy' = legacy
  BY DEF IonStep, VdspIon, LegacyAlloc, LegacyShare, NewAlloc, MapBuffer,
         DeleteDevice, DeleteBuffer, OpenForCall, StaticCall, OwnCall, Refused
<1>2. ASSUME NEW f \in Fds
      PROVE  ionHandles'[f] <= (IF legacy' /\ fdTable'[f] = "device" THEN 1 ELSE 0)
  <2>1. ionHandles[f] <= (IF legacy /\ fdTable[f] = "device" THEN 1 ELSE 0)
        /\ ionHandles[f] \in Nat
    BY DEF HandlesBounded
  <2>2. CASE Takes(t)
    <3>1. ionHandles'[f] = ionHandles[f]
          /\ (fdTable'[f] = fdTable[f] \/ fdTable[f] = "closed")
      BY <2>2 DEF Takes
    <3> QED
      BY <1>1, <2>1, <3>1
  <2>3. CASE Gives(t)
    BY <1>1, <2>1, <2>3 DEF Gives, Closes
  <2>4. CASE Keeps(t)
    <3>1. CASE ionHandles' = ionHandles
      BY <1>1, <2>1, <2>4, <3>1 DEF Keeps
    <3>2. CASE ionHandles' /= ionHandles
      <4>1. /\ ionAt[t] = "alloc" /\ legacy /\ fdTable' = fdTable
            /\ ionHandles' = [ionHandles EXCEPT ![deviceFd[t]] = @ + 1]
        BY <2>4, <3>2 DEF Keeps
      <4>2. deviceFd[t] \in Devices(t)
        BY <4>1 DEF PlacesKnow, Knows, Devices
      <4>3. fdTable[deviceFd[t]] = "device" /\ ionHandles[deviceFd[t]] = 0
        BY <4>1, <4>2 DEF FilesOwned, HandlesBounded
      <4> QED
        BY <1>1, <2>1, <4>1, <4>3
    <3> QED
      BY <3>1, <3>2
  <2> QED
    BY <2>2, <2>3, <2>4, Effects
<1>3. ASSUME NEW u \in IonThreads, ionAt'[u] = "alloc"
      PROVE  ionHandles'[deviceFd'[u]] = 0
  <2>1. CASE u = t
    <3>1. VdspIon(t) /\ OpensAs("device") /\ deviceFd'[t] = FirstFree
      BY <1>3, <2>1 DEF IonStep, VdspIon, LegacyAlloc, LegacyShare, NewAlloc, MapBuffer,
           DeleteDevice, DeleteBuffer, OpenForCall, StaticCall, OwnCall, Refused,
           GoesTo, MapFails
    <3>2. FirstFree \in Fds /\ fdTable[FirstFree] = "closed"
      BY <3>1, FirstFreeIsFree DEF OpensAs
    <3>3. ionHandles[FirstFree] <= 0 /\ ionHandles[FirstFree] \in Nat
      BY <3>2 DEF HandlesBounded
    <3> QED
      BY <2>1, <3>1, <3>3 DEF VdspIon
  <2>2. CASE u /= t
    <3>1. ionAt[u] = "alloc" /\ deviceFd'[u] = deviceFd[u]
      BY <1>3, <2>2, OthersKept
    <3>2. ionHandles[deviceFd[u]] = 0
      BY <3>1 DEF HandlesBounded
    <3>3. deviceFd[u] \in Fds /\ deviceFd[u] \in Owned(u)
      BY <3>1 DEF PlacesKnow, Knows, FdOrNone, Owned, Devices
    <3>4. deviceFd[u] \notin Owned(t)
      BY <2>2, <3>3 DEF FilesOwned
    <3>5. CASE Takes(t)
      BY <3>1, <3>2, <3>5 DEF Takes
    <3>6. CASE Gives(t)
      BY <3>1, <3>2, <3>3, <3>6 DEF Gives, Closes
    <3>7. CASE Keeps(t)
      <4>1. ionAt[t] = "alloc" => deviceFd[t] \in Owned(t)
        BY DEF PlacesKnow, Knows, Owned, Devices
      <4>2. ionAt[t] = "alloc" => deviceFd[t] /= deviceFd[u]
        BY <3>4, <4>1
      <4> QED
        BY <3>1, <3>2, <3>3, <3>7, <4>2 DEF Keeps
    <3> QED
      BY <3>5, <3>6, <3>7, Effects
  <2> QED
    BY <2>1, <2>2
<1>4. ASSUME NEW u \in IonThreads, ionAt'[u] = "share"
      PROVE  legacy'
  <2>1. CASE u = t
    BY <1>1, <1>4, <2>1 DEF IonStep, VdspIon, LegacyAlloc, LegacyShare, NewAlloc,
         MapBuffer, DeleteDevice, DeleteBuffer, OpenForCall, StaticCall, OwnCall, Refused,
         GoesTo, MapFails
  <2>2. CASE u /= t
    BY <1>1, <1>4, <2>2, OthersKept DEF HandlesBounded
  <2> QED
    BY <2>1, <2>2
<1> QED
  BY <1>2, <1>3, <1>4 DEF HandlesBounded

\* A call that succeeded did so on a buffer of the object, which is still there.
LEMMA ResultsStep ==
    ASSUME IonInv, NEW t \in IonThreads, IonStep(t)
    PROVE  ResultsSound'
<1> USE DEF IonInv, IonTypes, Ions, MEMION_NO_ERROR
<1>0. -1 \notin Fds
  BY IonMemoryAssumption DEF Fds
<1>1. ASSUME NEW u \in IonThreads, result'[u] = MEMION_NO_ERROR
      PROVE  vdspIon'[u].mFD /= -1 \/ ~vdspIon'[u].live
  <2>1. CASE u /= t
    BY <1>1, <2>1, OthersKept DEF ResultsSound
  <2>2. CASE u = t
    <3> DEFINE Sound == vdspIon'[t].mFD /= -1 \/ ~vdspIon'[t].live
    <3> SUFFICES Sound
      BY <2>2
    <3>a. Knows(t) /\ result'[t] = MEMION_NO_ERROR
      BY <1>1, <2>2 DEF PlacesKnow
    <3>b. result[t] = MEMION_NO_ERROR => vdspIon[t].mFD /= -1 \/ ~vdspIon[t].live
      BY DEF ResultsSound
    <3>1. CASE VdspIon(t)
      BY <3>1, <3>a, <3>b DEF VdspIon, Returns
    <3>2. CASE LegacyAlloc(t) \/ LegacyShare(t) \/ NewAlloc(t)
      BY <3>2, <3>a, <3>b DEF LegacyAlloc, LegacyShare, NewAlloc, MapFails, Returns
    <3>3. CASE MapBuffer(t)
      BY <3>3, <3>a, <3>b DEF MapBuffer, MapFails, Returns
    <3>4. CASE DeleteDevice(t)
      BY <3>4, <3>a, <3>b DEF DeleteDevice
    <3>5. CASE DeleteBuffer(t)
      BY <3>5, <3>a, <3>b DEF DeleteBuffer, NoIon
    <3>6. CASE OpenForCall(t)
      BY <3>6, <3>a, <3>b DEF OpenForCall, Returns
    <3>7. ASSUME NEW l \in BOOLEAN, StaticCall(t, l) \/ OwnCall(t, l) PROVE Sound
      <4>1. \A r \in Supported(vdspIon[t].mFD, l) :
               r = MEMION_NO_ERROR => isBuffer(vdspIon[t].mFD)
        BY DEF Supported, Outcomes
      <4>2. isBuffer(vdspIon[t].mFD)
        BY <3>7, <3>a, <4>1 DEF StaticCall, OwnCall, Returns
      <4> QED
        BY <1>0, <3>7, <4>2 DEF isBuffer, StaticCall, OwnCall
    <3>8. CASE Refused(t)
      BY <3>8, <3>a DEF Refused, Returns
    <3> QED
      BY <3>1, <3>2, <3>3, <3>4, <3>5, <3>6, <3>7, <3>8 DEF IonStep
  <2> QED
    BY <2>1, <2>2
<1> QED
  BY <1>1 DEF ResultsSound

-----------------------------------------------------------------------------
\* The constructor of no thread has run: only standard input may be open.
LEMMA IonInitial ==
    ASSUME IonInit
    PROVE  IonInv
<1> USE DEF IonInit, NoIon
<1>1. IonTypes
  BY DEF IonTypes, Ions, FdOrNone, MEMION_NO_ERROR
<1>2. \A t \in IonThreads : Devices(t) = {} /\ Buffers(t) = {}
  BY DEF Devices, Buffers
<1>3. PlacesKnow /\ HandlesBounded /\ ResultsSound
  BY DEF PlacesKnow, Knows, HandlesBounded, ResultsSound, MEMION_NO_ERROR
<1>4. FilesOwned /\ FilesNeeded
  BY <1>2 DEF FilesOwned, FilesNeeded, Owned
<1> QED
  BY <1>1, <1>3, <1>4 DEF IonInv

\* Every step keeps the invariant.
LEMMA IonInvStep ==
    ASSUME IonInv, [IonNext]_ionVars
    PROVE  IonInv'
<1>1. ASSUME NEW t \in IonThreads, IonStep(t) PROVE IonInv'
  <2>1. IonTypes'
    BY IonTypesStep
  <2>2. PlacesKnow'
    <3>1. ASSUME NEW u \in IonThreads, u /= t PROVE Knows(u)'
      <4>1. Knows(u) /\ IonTypes
        BY DEF IonInv, PlacesKnow
      <4>2. /\ vdspIon'[u] = vdspIon[u] /\ ionAt'[u] = ionAt[u]
            /\ deviceFd'[u] = deviceFd[u] /\ bufferFd'[u] = bufferFd[u]
        BY <1>1, <3>1, <4>1, OthersKept
      <4> QED
        BY <4>1, <4>2 DEF Knows
    <3> QED
      BY <1>1, <3>1, KnowsStep DEF PlacesKnow
  <2>3. FilesOwned' /\ FilesNeeded'
    BY <1>1, Effects, TakesFiles, GivesFiles, KeepsFiles
  <2>4. HandlesBounded' /\ ResultsSound'
    BY <1>1, <2>1, HandlesStep, ResultsStep
  <2> QED
    BY <2>1, <2>2, <2>3, <2>4 DEF IonInv
<1>2. CASE UNCHANGED ionVars
  <2>1. IonTypes'
    BY <1>2 DEF ionVars, IonInv, IonTypes
  <2>2. PlacesKnow'
    BY <1>2 DEF ionVars, IonInv, PlacesKnow, Knows
  <2>3. FilesOwned' /\ FilesNeeded'
    BY <1>2 DEF ionVars, IonInv, FilesOwned, FilesNeeded, Owned, Devices, Buffers
  <2>4. HandlesBounded' /\ ResultsSound'
    BY <1>2 DEF ionVars, IonInv, HandlesBounded, ResultsSound
  <2> QED
    BY <2>1, <2>2, <2>3, <2>4 DEF IonInv
<1> QED
  BY <1>1, <1>2, IonCases

\* The bookkeeping of VdspIon.cpp and vdsp_ion.cpp, in every reachable state.
THEOREM IonInvariant == IonSpec => []IonInv
<1>1. IonInit => IonInv
  BY IonInitial
<1>2. IonInv /\ [IonNext]_ionVars => IonInv'
  BY IonInvStep
<1> QED
  BY <1>1, <1>2, PTL DEF IonSpec

\* Every descriptor open on ION has one owner, which knows what it is open on,
\* however the error paths of mapIonFd, the calls and the destructor interleave.
THEOREM IonFilesExactCorrect == IonSpec => []IonFilesExact
<1>1. IonInv => IonFilesExact
  BY DEF IonInv, FilesOwned, FilesNeeded, HandlesBounded, ResultsSound, Owned,
         IonFilesExact
<1> QED
  BY <1>1, IonInvariant, PTL

=============================================================================
