----------------------------- MODULE BufferGroup -----------------------------
(***************************************************************************)
(* Buffers and one buffer group (the buffer and group half of              *)
(* xrp-host/src/xrp_host_common.c, the device buffers and the use of the   *)
(* group by _xrp_run_command in xrp_linux.c): threads create, map, share   *)
(* and release buffers, put them into the group, exchange and fetch them,  *)
(* while the worker of a queue runs a command on what the group holds.     *)
(*                                                                         *)
(* A section under the mutex of the group is one step, an atomic counter   *)
(* operation outside of it is a step of its own.  map_count and map_flags  *)
(* are written but never read by the library and are left out.             *)
(***************************************************************************)
EXTENDS Integers, Sequences, FiniteSets

CONSTANTS Threads,     \* application threads
          Buffers,     \* struct xrp_buffer objects, each used once
          Worker,      \* the worker of the queue that commands go to
          None,        \* no buffer
          MaxRecords,  \* bound: entries of the group
          MaxOwned     \* bound: references to buffers the threads own at once

ASSUME BufferGroupAssumption ==
    /\ IsFiniteSet(Threads) /\ IsFiniteSet(Buffers)
    /\ Worker \notin Threads
    /\ None \notin Buffers
    /\ MaxRecords \in Nat /\ MaxOwned \in Nat

VARIABLES
    bufLife,   \* struct xrp_buffer: "none", "live" or "freed"
    bufType,   \* buf->type, "HOST" or "DEVICE"
    bufRef,    \* buf->ref.count
    owners,    \* who must still release a buffer: <<thread, buffer, why>>
    grpLife,   \* struct xrp_buffer_group
    grpRef,    \* group->ref.count
    holdsG,    \* application threads that own a reference to the group
    records,   \* group->buffer[0 .. n_buffers - 1]
    devRef,    \* ref.count of the device
    holdsD,    \* whether the application still owns its device reference
    cmd,       \* the command with the group: "none", "queued" or "running"
    snapshot,  \* the buffers whose fd and address the running command has
    replaced,  \* buffers exchanged since (no variable of the code)
    pc,        \* control point of each thread and of the worker
    hand,      \* the buffer xrp_set_buffer_in_group has a reference to
    index      \* and the index it was called with

bufVars == <<bufLife, bufType, bufRef, owners>>
grpVars == <<grpLife, grpRef, holdsG>>
devVars == <<devRef, holdsD>>
cmdVars == <<cmd, snapshot, replaced>>
ctlVars == <<pc, hand, index>>
vars == <<bufVars, grpVars, records, devVars, cmdVars, ctlVars>>

Actors == Threads \cup {Worker}
Indices == 1 .. MaxRecords

\* "own": created or retained; "got": fetched from the group; "map": mapped.
Reasons == {"own", "got", "map"}

GroupInit ==
    /\ bufLife = [b \in Buffers |-> "none"]
    /\ bufType = [b \in Buffers |-> "HOST"]
    /\ bufRef = [b \in Buffers |-> 0]
    /\ owners = {}
    /\ grpLife = "none" /\ grpRef = 0 /\ holdsG = {}
    /\ records = << >>
    /\ devRef = 1 /\ holdsD = TRUE
    /\ cmd = "none" /\ snapshot = {} /\ replaced = {}
    /\ pc = [a \in Actors |-> "idle"]
    /\ hand = [t \in Threads |-> None]
    /\ index = [t \in Threads |-> 0]

\* A thread passes only buffers it has a reference to.
Has(t, b) == \E why \in {"own", "got"} : <<t, b, why>> \in owners

\* Thread t gets something new to release, for the reason why.
Own(t, b, why) ==
    /\ <<t, b, why>> \notin owners
    /\ Cardinality(owners) < MaxOwned
    /\ owners' = owners \cup {<<t, b, why>>}

\* xrp_set_buffer_in_group retains the new buffer before it takes the mutex,
\* xrp_get_buffer_from_group the one it returns while it still has it.
SetRefsNotTaken == 0  \* mutant
SetRefsTaken == 1
GetRefsNotTaken == 0  \* mutant
GetRefsTaken == 1

\* The reference xrp_enqueue_command takes on the group.
CommandRefsNotTaken == 0  \* mutant
CommandRefsTaken == 1

\* xrp_impl_release_device_buffer gives the device reference back.
KeepsDevice(b) == FALSE  \* mutant
GivesDeviceBack(b) == bufType[b] = "DEVICE"

\* xrp_release_buffer: the last reference frees the buffer and, for device
\* storage, the ION memory and the reference to the device.
Drop(b) ==
    /\ bufRef' = [bufRef EXCEPT ![b] = @ - 1]
    /\ bufLife' = IF bufRef[b] = 1 THEN [bufLife EXCEPT ![b] = "freed"] ELSE bufLife
    /\ devRef' = IF bufRef[b] = 1 /\ GivesDeviceBack(b) THEN devRef - 1 ELSE devRef
    /\ UNCHANGED <<bufType, holdsD>>

\* retain_refcounted, n times.
Retain(b, n) ==
    /\ bufRef' = [bufRef EXCEPT ![b] = @ + n]
    /\ UNCHANGED <<bufLife, bufType>>

-----------------------------------------------------------------------------
(***************************************************************************)
(* Buffers.                                                                *)
(***************************************************************************)

\* xrp_create_buffer.  Without a file descriptor ION memory is allocated,
\* whether there is a host pointer or not.  Failures change nothing.
CreateBuffer(t, b, type) ==
    /\ pc[t] = "idle"
    /\ bufLife[b] = "none"
    /\ type = "DEVICE" => holdsD
    /\ bufLife' = [bufLife EXCEPT ![b] = "live"]
    /\ bufType' = [bufType EXCEPT ![b] = type]
    /\ bufRef' = [bufRef EXCEPT ![b] = 1]
    /\ Own(t, b, "own")
    /\ devRef' = IF type = "DEVICE" THEN devRef + 1 ELSE devRef
    /\ UNCHANGED <<grpVars, records, holdsD, cmdVars, ctlVars>>

\* xrp_retain_buffer by t on behalf of u.
RetainBuffer(t, u, b) ==
    /\ pc[t] = "idle"
    /\ Has(t, b)
    /\ Retain(b, 1)
    /\ Own(u, b, "own")
    /\ UNCHANGED <<grpVars, records, devVars, cmdVars, ctlVars>>

\* xrp_map_buffer with an area inside the buffer.
MapBuffer(t, b) ==
    /\ pc[t] = "idle"
    /\ Has(t, b)
    /\ Retain(b, 1)
    /\ Own(t, b, "map")
    /\ UNCHANGED <<grpVars, records, devVars, cmdVars, ctlVars>>

\* xrp_release_buffer, and xrp_unmap_buffer for a mapping.
ReleaseBuffer(t, b, why) ==
    /\ pc[t] = "idle"
    /\ <<t, b, why>> \in owners
    /\ Drop(b)
    /\ owners' = owners \ {<<t, b, why>>}
    /\ UNCHANGED <<grpVars, records, cmdVars, ctlVars>>

\* xrp_release_device.
ReleaseDevice(t) ==
    /\ pc[t] = "idle"
    /\ holdsD
    /\ holdsD' = FALSE
    /\ devRef' = devRef - 1
    /\ UNCHANGED <<bufVars, grpVars, records, cmdVars, ctlVars>>

-----------------------------------------------------------------------------
(***************************************************************************)
(* The group.                                                              *)
(***************************************************************************)

\* xrp_create_buffer_group.
CreateGroup(t) ==
    /\ pc[t] = "idle"
    /\ grpLife = "none"
    /\ grpLife' = "live" /\ grpRef' = 1 /\ holdsG' = {t}
    /\ UNCHANGED <<bufVars, records, devVars, cmdVars, ctlVars>>

\* xrp_retain_buffer_group by t on behalf of u.
RetainGroup(t, u) ==
    /\ pc[t] = "idle"
    /\ t \in holdsG /\ u \notin holdsG
    /\ grpRef' = grpRef + 1 /\ holdsG' = holdsG \cup {u}
    /\ UNCHANGED <<bufVars, grpLife, records, devVars, cmdVars, ctlVars>>

\* The decrement of xrp_release_buffer_group; the last one releases the
\* buffers, see Drain.
DropGroup(a) ==
    /\ grpRef' = grpRef - 1
    /\ pc' = IF grpRef = 1 THEN [pc EXCEPT ![a] = "drain"] ELSE pc
    /\ UNCHANGED <<grpLife, hand, index>>

ReleaseGroup(t) ==
    /\ pc[t] = "idle"
    /\ t \in holdsG
    /\ DropGroup(t)
    /\ holdsG' = holdsG \ {t}
    /\ UNCHANGED <<bufVars, records, devVars, cmdVars>>

\* The rest of it: one buffer after the other, then the group itself.
Drain(a) ==
    /\ pc[a] = "drain"
    /\ records /= << >>
    /\ Drop(Head(records))
    /\ records' = Tail(records)
    /\ UNCHANGED <<owners, grpVars, cmdVars, ctlVars>>

FreeGroupOnly(a) ==  \* mutant: the buffers of the group are forgotten
    /\ pc[a] = "drain"
    /\ grpLife' = "freed"
    /\ records' = << >>
    /\ pc' = [pc EXCEPT ![a] = "idle"]
    /\ UNCHANGED <<bufVars, grpRef, holdsG, devVars, cmdVars, hand, index>>

FreeGroup(a) ==
    /\ pc[a] = "drain"
    /\ records = << >>
    /\ grpLife' = "freed"
    /\ pc' = [pc EXCEPT ![a] = "idle"]
    /\ UNCHANGED <<bufVars, grpRef, holdsG, records, devVars, cmdVars, hand, index>>

\* xrp_add_buffer_to_group; a failed realloc changes nothing.
AddBuffer(t, b) ==
    /\ pc[t] = "idle"
    /\ t \in holdsG /\ Has(t, b)
    /\ Len(records) < MaxRecords
    /\ Retain(b, 1)
    /\ records' = Append(records, b)
    /\ UNCHANGED <<owners, grpVars, devVars, cmdVars, ctlVars>>

\* xrp_set_buffer_in_group: retain the new buffer, exchange under the mutex,
\* release the old one.
SetBegin(t, i, b) ==
    /\ pc[t] = "idle"
    /\ t \in holdsG /\ Has(t, b)
    /\ Retain(b, SetRefsTaken)
    /\ pc' = [pc EXCEPT ![t] = "set_swap"]
    /\ hand' = [hand EXCEPT ![t] = b]
    /\ index' = [index EXCEPT ![t] = i]
    /\ UNCHANGED <<owners, grpVars, records, devVars, cmdVars>>

\* An index that is out of range makes the new buffer the one to release.
SetSwap(t) ==
    /\ pc[t] = "set_swap"
    /\ IF index[t] <= Len(records)
       THEN /\ records' = [records EXCEPT ![index[t]] = hand[t]]
            /\ hand' = [hand EXCEPT ![t] = records[index[t]]]
            /\ replaced' = IF cmd = "running" THEN replaced \cup {records[index[t]]}
                                              ELSE replaced
       ELSE UNCHANGED <<records, hand, replaced>>
    /\ pc' = [pc EXCEPT ![t] = "set_release"]
    /\ UNCHANGED <<bufVars, grpVars, devVars, cmd, snapshot, index>>

SetRelease(t) ==
    /\ pc[t] = "set_release"
    /\ Drop(hand[t])
    /\ pc' = [pc EXCEPT ![t] = "idle"]
    /\ hand' = [hand EXCEPT ![t] = None]
    /\ index' = [index EXCEPT ![t] = 0]
    /\ UNCHANGED <<owners, grpVars, records, cmdVars>>

\* xrp_get_buffer_from_group with an index in range.  A thread gives back what
\* it got before it gets the same buffer once more.
GetBuffer(t, i) ==
    /\ pc[t] = "idle"
    /\ t \in holdsG /\ i <= Len(records)
    /\ Retain(records[i], GetRefsTaken)
    /\ Own(t, records[i], "got")
    /\ UNCHANGED <<grpVars, records, devVars, cmdVars, ctlVars>>

-----------------------------------------------------------------------------
(***************************************************************************)
(* A command with the group.                                               *)
(***************************************************************************)

\* xrp_enqueue_command retains the group for the request.
Enqueue(t) ==
    /\ pc[t] = "idle"
    /\ t \in holdsG /\ cmd = "none" /\ pc[Worker] = "idle"
    /\ grpRef' = grpRef + CommandRefsTaken
    /\ cmd' = "queued"
    /\ UNCHANGED <<bufVars, grpLife, holdsG, records, devVars, snapshot, replaced,
                   ctlVars>>

\* _xrp_run_command copies the entries under the mutex of the group and runs
\* the command without it, and without references of its own to the buffers.
Snapshot ==
    /\ cmd = "queued"
    /\ cmd' = "running"
    /\ snapshot' = {records[i] : i \in DOMAIN records}
    /\ replaced' = {}
    /\ UNCHANGED <<bufVars, grpVars, records, devVars, ctlVars>>

\* The command is over: xrp_request_process releases the group.
Finish ==
    /\ cmd = "running"
    /\ cmd' = "none" /\ snapshot' = {} /\ replaced' = {}
    /\ DropGroup(Worker)
    /\ holdsG' = holdsG
    /\ UNCHANGED <<bufVars, records, devVars>>

-----------------------------------------------------------------------------
Call(t) ==
    \/ \E b \in Buffers, type \in {"HOST", "DEVICE"} : CreateBuffer(t, b, type)
    \/ \E u \in Threads, b \in Buffers : RetainBuffer(t, u, b)
    \/ \E b \in Buffers : MapBuffer(t, b)
    \/ \E b \in Buffers, why \in Reasons : ReleaseBuffer(t, b, why)
    \/ ReleaseDevice(t)
    \/ CreateGroup(t)
    \/ \E u \in Threads : RetainGroup(t, u)
    \/ ReleaseGroup(t)
    \/ \E b \in Buffers : AddBuffer(t, b)
    \/ \E i \in Indices, b \in Buffers : SetBegin(t, i, b)
    \/ \E i \in Indices : GetBuffer(t, i)
    \/ Enqueue(t)

InCall(a) == Drain(a) \/ FreeGroup(a)
SetStep(t) == SetSwap(t) \/ SetRelease(t)
RunStep == Snapshot \/ Finish

GroupNext ==
    \/ \E t \in Threads : Call(t) \/ SetStep(t)
    \/ \E a \in Actors : InCall(a)
    \/ RunStep

GroupSpec == GroupInit /\ [][GroupNext]_vars

-----------------------------------------------------------------------------
(***************************************************************************)
(* Properties.                                                             *)
(***************************************************************************)

\* The type of every variable of the buffers and the group; no counter falls
\* below zero.
GroupTypeOK ==
    /\ bufLife \in [Buffers -> {"none", "live", "freed"}]
    /\ bufType \in [Buffers -> {"HOST", "DEVICE"}]
    /\ bufRef \in [Buffers -> Nat]
    /\ owners \subseteq Threads \X Buffers \X Reasons
    /\ grpLife \in {"none", "live", "freed"} /\ grpRef \in Nat
    /\ holdsG \subseteq Threads
    /\ records \in Seq(Buffers) /\ Len(records) <= MaxRecords
    /\ devRef \in Nat /\ holdsD \in BOOLEAN
    /\ cmd \in {"none", "queued", "running"}
    /\ snapshot \subseteq Buffers /\ replaced \subseteq Buffers
    /\ pc \in [Actors -> {"idle", "drain", "set_swap", "set_release"}]
    /\ pc[Worker] \in {"idle", "drain"}
    /\ hand \in [Threads -> Buffers \cup {None}]
    /\ index \in [Threads -> Indices \cup {0}]

OwnersOf(b) == {o \in owners : o[2] = b}
RecordsOf(b) == {i \in DOMAIN records : records[i] = b}
HandsOf(b) == {t \in Threads : hand[t] = b}

\* The counter of a buffer is the number of threads, mappings, group entries
\* and exchanges under way that must still release it, and a buffer lives as
\* long as there is one.
BufferRefsExact ==
    \A b \in Buffers :
        /\ bufRef[b] = Cardinality(OwnersOf(b)) + Cardinality(RecordsOf(b))
                         + Cardinality(HandsOf(b))
        /\ bufLife[b] = "live" <=> bufRef[b] > 0

\* The same for the group (threads and the command) and for the device (the
\* application and the device buffers).
GroupRefsExact ==
    /\ grpRef = Cardinality(holdsG) + (IF cmd = "none" THEN 0 ELSE 1)
    /\ devRef = (IF holdsD THEN 1 ELSE 0)
          + Cardinality({b \in Buffers : bufLife[b] = "live" /\ bufType[b] = "DEVICE"})

\* Every counter of the library equals the references somebody has to give
\* back: release, set, get and the command take and drop them in any order.
CountersExact == BufferRefsExact /\ GroupRefsExact

\* Whoever uses the group has a reference to it: it is not freed under a
\* command, nor under a thread in xrp_set_buffer_in_group, and while its
\* buffers are being released nobody else is at it.
GroupNotUsedAfterFree ==
    /\ holdsG /= {} \/ cmd /= "none" => grpLife = "live"
    /\ \A t \in Threads : hand[t] /= None => grpLife = "live" /\ grpRef > 0
    /\ \A a \in Actors : pc[a] = "drain" => grpLife = "live" /\ grpRef = 0
    /\ \A a, c \in Actors : pc[a] = "drain" /\ pc[c] = "drain" => a = c

\* The buffers whose file descriptors and addresses the DSP works with are not
\* freed meanwhile, but for those the application exchanged under the command.
CommandBuffersLive ==
    \A b \in snapshot \ replaced : bufLife[b] = "live"

\* Once the application has given everything back and no call or command is
\* under way, nothing is left: the group with all it held, the buffers and the
\* device are freed.
NothingLeaks ==
    (/\ owners = {} /\ holdsG = {} /\ ~holdsD
     /\ cmd = "none" /\ \A a \in Actors : pc[a] = "idle")
        => /\ \A b \in Buffers : bufLife[b] /= "live"
           /\ grpLife /= "live"
           /\ devRef = 0

=============================================================================
