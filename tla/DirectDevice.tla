----------------------------- MODULE DirectDevice -----------------------------
(***************************************************************************)
(* Devices and commands that go to the driver without the service          *)
(* (vdsp-interface/vdsp_interface_internal.c, the sprd_cavdsp_* and        *)
(* *_direc functions of vdsp_interface.cpp, the device half of             *)
(* xrp-host/src/xrp_linux.c and vdsp-ion): threads of one process open     *)
(* devices in three ways, run commands on them, load libraries and close   *)
(* them, and share the descriptors and the heap of the process.            *)
(*                                                                         *)
(*   "direct"  sprd_cavdsp_open_device_direct: the handle is the address   *)
(*   "packed"  sprd_cavdsp_open_device: the address is split over the two  *)
(*             fields of a struct vdsp_handle                              *)
(*   "normal"  xrp_open_device: a second device that keeps such a split    *)
(*             address where the first one keeps its descriptor            *)
(*                                                                         *)
(* Pointers have two words of Word values each.  Reference counters are    *)
(* atomic; the buffers of a command and its group belong to one thread.    *)
(***************************************************************************)
EXTENDS Integers, Sequences, FiniteSets

CONSTANTS Clients,      \* threads of the process
          NoHandle,     \* the thread runs no command
          Addresses,    \* where malloc may place a struct xrp_device
          Descriptors,  \* free file descriptors of the process
          Word,         \* values of a 32-bit word
          MaxHandles,   \* bound: an open begins with fewer handles
          MaxBuffers,   \* bound: buffers of a command
          MaxLeaks      \* bound: buffers lost to failures

ASSUME DirectDeviceAssumption ==
    /\ IsFiniteSet(Clients) /\ IsFiniteSet(Addresses) /\ IsFiniteSet(Descriptors)
    /\ Word \in Nat /\ Word % 2 = 0
    /\ Addresses \subseteq 1 .. Word * Word - 1
    /\ Descriptors \subseteq 0 .. (Word \div 2) - 1
    /\ MaxHandles \in Nat /\ MaxBuffers \in Nat /\ MaxLeaks \in Nat

\* Two kinds of handles are addresses, the third one is a split address.
HandleSet == [api : {"direct", "normal"}, addr : Addresses]
               \cup [api : {"packed"}, fd : Int, generation : 0 .. Word - 1]

ASSUME NoHandleAssumption == NoHandle \notin HandleSet

VARIABLES
    file,        \* what each descriptor is open on: "closed", "driver", "ion"
    dev,         \* the struct xrp_device at each address
    handles,     \* handles the process has been given and not closed
    point,       \* control point of each thread
    opened,      \* the descriptor xrp_open_device_newmode has just opened
    inner,       \* the device xrp_open_device has just opened
    using,       \* the handle of the command it runs
    todo,        \* the buffers the command has still to create
    bufs,        \* the buffers it has created, with the descriptors they own
    input,       \* descriptors of the memory a library call allocated
    lostFiles,   \* descriptors nobody can close any more,
    lostRefs     \* and references to devices nobody can release any more

deviceVars == <<file, dev, handles>>
openVars == <<opened, inner>>
commandVars == <<using, todo, bufs, input>>
lostVars == <<lostFiles, lostRefs>>
directVars == <<deviceVars, point, openVars, commandVars, lostVars>>

Kinds == {"HOST", "DEVICE"}
NoFd == -1
NoDevice == [type |-> "NONE", ref |-> 0, fd |-> 0, generation |-> 0]

DirectInit ==
    /\ file = [f \in Descriptors |-> "closed"]
    /\ dev = [a \in Addresses |-> NoDevice]
    /\ handles = {}
    /\ point = [t \in Clients |-> "idle"]
    /\ opened = [t \in Clients |-> NoFd]
    /\ inner = [t \in Clients |-> 0]
    /\ using = [t \in Clients |-> NoHandle]
    /\ todo = [t \in Clients |-> << >>]
    /\ bufs = [t \in Clients |-> << >>]
    /\ input = [t \in Clients |-> {}]
    /\ lostFiles = {} /\ lostRefs = [a \in Addresses |-> 0]

-----------------------------------------------------------------------------
(***************************************************************************)
(* Descriptors and addresses.                                              *)
(***************************************************************************)

FreeFds == {f \in Descriptors : file[f] = "closed"}

\* open() and the ION ioctls return the lowest descriptor that is free.
Lowest(S) == CHOOSE f \in S : \A g \in S : f <= g

\* A VdspIon owns two: /dev/ion, opened first, and the buffer.
IonFds == LET f == Lowest(FreeFds) IN {f, Lowest(FreeFds \ {f})}

\* The low word is kept as an int32_t, the high one as a uint32_t.
Signed(w) == IF w < Word \div 2 THEN w ELSE w - Word
Pack(a) == [fd |-> Signed(a % Word), generation |-> a \div Word]

UnpackSigned(h) == (h.generation * Word + h.fd) % (Word * Word)  \* mutant
Unpack(h) == h.generation * Word + (h.fd % Word)

\* The device behind a handle.
Target(h) == IF h.api = "packed" THEN Unpack(h) ELSE h.addr

-----------------------------------------------------------------------------
(***************************************************************************)
(* Devices.                                                                *)
(***************************************************************************)

\* xrp_release_device.  The last reference closes the descriptor, or releases
\* the device whose address a NORMAL device keeps.
Dropped(a) ==
    IF dev[a].ref = 1 /\ dev[a].type = "NORMAL" THEN {a, Unpack(dev[a])} ELSE {a}
Freed(a) == {d \in Dropped(a) : dev[d].ref = 1}

\* vdsp_free_ionmem closes both descriptors of a VdspIon, but a /dev/ion that is
\* descriptor 0, which the destructor takes for none.
ClosedIon(fds) == fds \ {0}
LeftOpen(fds) == fds \cap {0}

\* The same together with the VdspIon of a buffer or of nothing.
Release(a, fds) ==
    /\ dev' = [d \in Addresses |->
                  IF d \in Freed(a) THEN NoDevice
                  ELSE IF d \in Dropped(a) THEN [dev[d] EXCEPT !.ref = @ - 1]
                  ELSE dev[d]]
    /\ file' = [f \in Descriptors |->
                  IF \/ f \in ClosedIon(fds)
                     \/ \E d \in Freed(a) : dev[d].type = "NEWMODE" /\ dev[d].fd = f
                  THEN "closed" ELSE file[f]]

CloseFds(fds) == file' = [f \in Descriptors |-> IF f \in fds THEN "closed" ELSE file[f]]

Opens == {"direct", "packed", "normal"}

\* xrp_open_device_newmode opens the driver; a failure changes nothing.
Open(t, how) ==
    /\ point[t] = "idle"
    /\ Cardinality(handles) < MaxHandles
    /\ FreeFds /= {}
    /\ file' = [file EXCEPT ![Lowest(FreeFds)] = "driver"]
    /\ opened' = [opened EXCEPT ![t] = Lowest(FreeFds)]
    /\ point' = [point EXCEPT ![t] = how]
    /\ UNCHANGED <<dev, handles, inner, commandVars, lostVars>>

\* The device is allocated and given to the caller, for "packed" with its
\* address split; xrp_open_device goes on with it.
NewDevice(t, a) ==
    /\ point[t] \in Opens
    /\ dev[a] = NoDevice
    /\ dev' = [dev EXCEPT ![a] = [type |-> "NEWMODE", ref |-> 1,
                                  fd |-> opened[t], generation |-> 0]]
    /\ opened' = [opened EXCEPT ![t] = NoFd]
    /\ IF point[t] = "normal"
       THEN /\ inner' = [inner EXCEPT ![t] = a]
            /\ point' = [point EXCEPT ![t] = "wrap"]
            /\ UNCHANGED handles
       ELSE /\ handles' = handles \cup
                 {IF point[t] = "direct" THEN [api |-> "direct", addr |-> a]
                  ELSE [api |-> "packed", fd |-> Pack(a).fd,
                        generation |-> Pack(a).generation]}
            /\ point' = [point EXCEPT ![t] = "idle"]
            /\ UNCHANGED inner
    /\ UNCHANGED <<file, commandVars, lostVars>>

\* No memory for it: the descriptor is closed again.
NoMemoryKeepsFd(t) ==  \* mutant: the close is missing
    /\ point[t] \in Opens
    /\ opened' = [opened EXCEPT ![t] = NoFd]
    /\ point' = [point EXCEPT ![t] = "idle"]
    /\ UNCHANGED <<deviceVars, inner, commandVars, lostVars>>

NoMemory(t) ==
    /\ point[t] \in Opens
    /\ CloseFds({opened[t]})
    /\ opened' = [opened EXCEPT ![t] = NoFd]
    /\ point' = [point EXCEPT ![t] = "idle"]
    /\ UNCHANGED <<dev, handles, inner, commandVars, lostVars>>

\* The rest of xrp_open_device: a second device, that keeps the first one.
Wrap(t, a) ==
    /\ point[t] = "wrap"
    /\ dev[a] = NoDevice
    /\ dev' = [dev EXCEPT ![a] = [type |-> "NORMAL", ref |-> 1,
                                  fd |-> Pack(inner[t]).fd,
                                  generation |-> Pack(inner[t]).generation]]
    /\ handles' = handles \cup {[api |-> "normal", addr |-> a]}
    /\ inner' = [inner EXCEPT ![t] = 0]
    /\ point' = [point EXCEPT ![t] = "idle"]
    /\ UNCHANGED <<file, opened, commandVars, lostVars>>

\* No memory for the second one: the first one is forgotten.
NoMemoryToWrap(t) ==
    /\ point[t] = "wrap"
    /\ lostRefs' = [lostRefs EXCEPT ![inner[t]] = @ + 1]
    /\ inner' = [inner EXCEPT ![t] = 0]
    /\ point' = [point EXCEPT ![t] = "idle"]
    /\ UNCHANGED <<deviceVars, opened, commandVars, lostFiles>>

\* sprd_cavdsp_close_device, sprd_cavdsp_close_device_direct and
\* xrp_release_device.  Callers do not close a device they run a command on.
Close(t, h) ==
    /\ point[t] = "idle"
    /\ h \in handles
    /\ \A u \in Clients : using[u] /= h
    /\ Release(Target(h), {})
    /\ handles' = handles \ {h}
    /\ UNCHANGED <<point, openVars, commandVars, lostVars>>

-----------------------------------------------------------------------------
(***************************************************************************)
(* Commands.                                                               *)
(***************************************************************************)

\* sprd_vdsp_send_command_directly, up to the creation of the buffers: "HOST"
\* comes with a descriptor of the caller, "DEVICE" without one.  The worker
\* of a queue comes here with the device of the queue, which may be a NORMAL
\* one, and with the ion_fd of each buffer of its group, -1 for one that got no
\* ION memory (_xrp_run_command).
Command(t, h, kinds) ==
    /\ point[t] = "idle"
    /\ h \in handles
    /\ using' = [using EXCEPT ![t] = h]
    /\ todo' = [todo EXCEPT ![t] = kinds]
    /\ point' = [point EXCEPT ![t] = "run"]
    /\ UNCHANGED <<deviceVars, openVars, bufs, input, lostVars>>

\* The power hints and the face command: one ioctl, no buffers.
Hint(t, h) ==
    /\ point[t] = "idle"
    /\ h \in handles /\ h.api /= "normal"
    /\ using' = [using EXCEPT ![t] = h]
    /\ point' = [point EXCEPT ![t] = "run"]
    /\ UNCHANGED <<deviceVars, openVars, todo, bufs, input, lostVars>>

\* sprd_vdsp_load_library (one buffer) and sprd_vdsp_unload_library (none)
\* write the name of the library into ION memory and send a command.  (If there
\* is none they write to NULL, and the process is gone.)
Library(t, h, kinds) ==
    /\ point[t] = "idle"
    /\ h \in handles /\ h.api /= "normal"
    /\ Len(kinds) <= 1
    /\ Cardinality(FreeFds) >= 2
    /\ input' = [input EXCEPT ![t] = IonFds]
    /\ file' = [f \in Descriptors |-> IF f \in IonFds THEN "ion" ELSE file[f]]
    /\ using' = [using EXCEPT ![t] = h]
    /\ todo' = [todo EXCEPT ![t] = kinds]
    /\ point' = [point EXCEPT ![t] = "run"]
    /\ UNCHANGED <<dev, handles, openVars, bufs, lostVars>>

\* xrp_create_buffer and xrp_add_buffer_to_group for the next buffer.  A device
\* buffer retains the device and owns ION memory, or none of it if the
\* allocation fails, which nobody notices.
BufferRefsNotTaken == 0  \* mutant
BufferRefsTaken == 1

NewBuffer(t, fds) ==
    /\ point[t] = "run"
    /\ todo[t] /= << >>
    /\ fds /= {} => Head(todo[t]) = "DEVICE"
    /\ dev' = IF Head(todo[t]) = "DEVICE"
              THEN [dev EXCEPT ![Target(using[t])].ref = @ + BufferRefsTaken] ELSE dev
    /\ file' = [f \in Descriptors |-> IF f \in fds THEN "ion" ELSE file[f]]
    /\ UNCHANGED <<handles, openVars, using, input>>

BufferAdded(t, fds) ==
    /\ NewBuffer(t, fds)
    /\ bufs' = [bufs EXCEPT ![t] = Append(@, [kind |-> Head(todo[t]), fds |-> fds])]
    /\ todo' = [todo EXCEPT ![t] = Tail(@)]
    /\ UNCHANGED <<point, lostVars>>

\* No memory for struct xrp_buffer: the command is given up.
NoBuffer(t) ==
    /\ point[t] = "run"
    /\ todo[t] /= << >>
    /\ todo' = [todo EXCEPT ![t] = << >>]
    /\ point' = [point EXCEPT ![t] = "release"]
    /\ UNCHANGED <<deviceVars, openVars, using, bufs, input, lostVars>>

\* A group of n buffers must grow before the next one: its capacity goes from c
\* to (c + 2) * 2, which is 0, 4, 12, 28, ...
IsFull(n) == n \in {4 * (2^k - 1) : k \in 0 .. MaxBuffers}

\* If the realloc fails, the buffers before this one are released and this one
\* is not.
BufferNotAdded(t, fds) ==
    /\ NewBuffer(t, fds)
    /\ IsFull(Len(bufs[t]))
    /\ \A a \in Addresses : lostRefs[a] < MaxLeaks
    /\ lostFiles' = lostFiles \cup fds
    /\ lostRefs' = IF Head(todo[t]) = "DEVICE"
                   THEN [lostRefs EXCEPT ![Target(using[t])] = @ + 1] ELSE lostRefs
    /\ todo' = [todo EXCEPT ![t] = << >>]
    /\ point' = [point EXCEPT ![t] = "release"]
    /\ UNCHANGED bufs

\* xrp_run_command_directly: with all buffers created a thread is in the ioctl,
\* until the driver answers.
InIoctl(t) == point[t] = "run" /\ todo[t] = << >>

Answered(t) ==
    /\ InIoctl(t)
    /\ point' = [point EXCEPT ![t] = "release"]
    /\ UNCHANGED <<deviceVars, openVars, commandVars, lostVars>>

\* release_xrp_buffers: one after the other; the group gave its references
\* back before.
BufferReleased(t) ==
    /\ point[t] = "release"
    /\ bufs[t] /= << >>
    /\ LET b == Head(bufs[t])
       IN  /\ IF b.kind = "DEVICE" THEN Release(Target(using[t]), b.fds)
                                   ELSE UNCHANGED <<dev, file>>
           /\ lostFiles' = lostFiles \cup LeftOpen(b.fds)
    /\ bufs' = [bufs EXCEPT ![t] = Tail(@)]
    /\ UNCHANGED <<handles, point, openVars, using, todo, input, lostRefs>>

\* A library call frees its input as it returns.
Return(t) ==
    /\ point[t] = "release"
    /\ bufs[t] = << >>
    /\ CloseFds(ClosedIon(input[t]))
    /\ lostFiles' = lostFiles \cup LeftOpen(input[t])
    /\ input' = [input EXCEPT ![t] = {}]
    /\ using' = [using EXCEPT ![t] = NoHandle]
    /\ point' = [point EXCEPT ![t] = "idle"]
    /\ UNCHANGED <<dev, handles, openVars, todo, bufs, lostRefs>>

-----------------------------------------------------------------------------
BufferLists == UNION {[1 .. n -> Kinds] : n \in 0 .. MaxBuffers}

CallBegins(t) ==
    \/ \E how \in Opens : Open(t, how)
    \/ \E h \in handles :
          \/ Close(t, h)
          \/ Hint(t, h)
          \/ \E kinds \in BufferLists : Command(t, h, kinds) \/ Library(t, h, kinds)

\* The memory of a device buffer: none, or the next two descriptors.
Allocations == {{}} \cup (IF Cardinality(FreeFds) >= 2 THEN {IonFds} ELSE {})

CallGoesOn(t) ==
    \/ \E a \in Addresses : NewDevice(t, a) \/ Wrap(t, a)
    \/ NoMemory(t) \/ NoMemoryToWrap(t)
    \/ \E fds \in Allocations : BufferAdded(t, fds) \/ BufferNotAdded(t, fds)
    \/ NoBuffer(t) \/ Answered(t) \/ BufferReleased(t) \/ Return(t)

DirectNext == \E t \in Clients : CallBegins(t) \/ CallGoesOn(t)

DirectSpec == DirectInit /\ [][DirectNext]_directVars

-----------------------------------------------------------------------------
(***************************************************************************)
(* Properties.                                                             *)
(***************************************************************************)

\* The type of every variable; no reference counter falls below zero.
DirectTypeOK ==
    /\ file \in [Descriptors -> {"closed", "driver", "ion"}]
    /\ dev \in [Addresses -> [type : {"NONE", "NEWMODE", "NORMAL"}, ref : Nat,
                              fd : Int, generation : 0 .. Word - 1]]
    /\ handles \subseteq HandleSet
    /\ point \in [Clients -> Opens \cup {"idle", "wrap", "run", "release"}]
    /\ opened \in [Clients -> Descriptors \cup {NoFd}]
    /\ inner \in [Clients -> Addresses \cup {0}]
    /\ using \in [Clients -> handles \cup {NoHandle}]
    /\ todo \in [Clients -> Seq(Kinds)]
    /\ bufs \in [Clients -> Seq([kind : Kinds, fds : SUBSET Descriptors])]
    /\ input \in [Clients -> SUBSET Descriptors]
    /\ lostFiles \subseteq Descriptors
    /\ lostRefs \in [Addresses -> Nat]

\* The NORMAL devices that keep device a.
Keepers(a) == {n \in Addresses : dev[n].type = "NORMAL" /\ Unpack(dev[n]) = a}

\* Whether a call can still release device a: one with a handle to it or to the
\* NORMAL device that keeps it, or an open under way.
Held(a) ==
    \/ \E h \in handles : Target(h) \in {a} \cup Keepers(a)
    \/ \E t \in Clients : inner[t] = a

\* The devices that close descriptor f with their last reference.
DriversOf(f) == {a \in Addresses : dev[a].type = "NEWMODE" /\ dev[a].fd = f}

\* Whoever will close descriptor f: a device that can be released, an open under
\* way, a buffer or the input of a command.
ClosersOf(f) ==
    {<<"device", a>> : a \in {a \in DriversOf(f) : Held(a)}}
    \cup {<<"open", t>> : t \in {t \in Clients : opened[t] = f}}
    \cup {<<"buffer", t>> : t \in {t \in Clients :
             \E i \in DOMAIN bufs[t] : f \in bufs[t][i].fds}}
    \cup {<<"input", t>> : t \in {t \in Clients : f \in input[t]}}

\* A failure has lost f itself, or a reference to its device or to the NORMAL
\* device that keeps that one.
Lost(f) ==
    \/ f \in lostFiles
    \/ \E a \in DriversOf(f) : \E n \in {a} \cup Keepers(a) : lostRefs[n] > 0

\* At most one call will close a descriptor, and none one that is closed or
\* lost: none is closed twice, or for another thread that was given its number
\* meanwhile.  One that is open has somebody to close it, or was lost in one of
\* three ways: the realloc of a group failed before a device buffer was added
\* (its two descriptors, and with the reference it took the descriptor of the
\* device), the second allocation of xrp_open_device failed, or it is a
\* /dev/ion that is descriptor 0.
FilesOwned ==
    \A f \in Descriptors :
        /\ Cardinality(ClosersOf(f)) <= 1
        /\ file[f] = "closed" \/ f \in lostFiles => ClosersOf(f) = {}
        /\ file[f] /= "closed" /\ ClosersOf(f) = {} => Lost(f)

BuffersOn(a) ==
    {b \in Clients \X (1 .. MaxBuffers) :
        /\ b[2] \in DOMAIN bufs[b[1]]
        /\ bufs[b[1]][b[2]].kind = "DEVICE"
        /\ Target(using[b[1]]) = a}

\* The counter of a device is the number of handles, NORMAL devices, opens
\* under way and device buffers that must still release it.
DeviceRefsExact ==
    \A a \in Addresses :
        dev[a].ref = Cardinality({h \in handles : Target(h) = a})
                       + Cardinality(Keepers(a))
                       + Cardinality({t \in Clients : inner[t] = a})
                       + Cardinality(BuffersOn(a))
                       + lostRefs[a]

\* Every handle leads to a device that is still there, whatever address malloc
\* had chosen and however it was split, and no two to the same one.
HandlesLeadToDevices ==
    /\ \A h \in handles :
          /\ Target(h) \in Addresses
          /\ dev[Target(h)].type = IF h.api = "normal" THEN "NORMAL" ELSE "NEWMODE"
    /\ \A g, h \in handles : Target(g) = Target(h) => g = h

\* The descriptor a thread is waiting on in its ioctl.
Driven(t) == dev[Target(using[t])].fd

\* The ioctl of a command or hint on a device of the direct interface goes to
\* the driver, for as long as it takes.
DirectCommandsReachDriver ==
    \A t \in Clients :
        InIoctl(t) /\ using[t].api /= "normal" =>
            Driven(t) \in Descriptors /\ file[Driven(t)] = "driver"

\* xrp_run_command_sync "synchronously runs a command on DSP" (xrp_api.h):
\* every command, those of a queue on a NORMAL device included, goes to the
\* driver.
CommandsReachDriver ==
    \A t \in Clients :
        InIoctl(t) => Driven(t) \in Descriptors /\ file[Driven(t)] = "driver"

=============================================================================
