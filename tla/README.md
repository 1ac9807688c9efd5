# TLA+ models of the vDSP client library

This directory specifies, model-checks and partly proves the host side of the
Unisoc vDSP stack (`src/Cadence/xrp`): the library an Android process links to
send commands to a Cadence Vision DSP, either itself through `/dev/vdsp0` or
through the vdsp HIDL service.

## The system

| Component | Source | State | Operations |
|---|---|---|---|
| By-server client | `vdsp-interface/vdsp_server_interface.cpp` | process-wide `gLock`, `gVdspService`, `gfakeBinder`, `gInitFlag`, `gGeneration`, `gOpenedCount`, `gWorkType`, `gWorking`, `g_fdtable`, `g_FdInfo[].working` | open, close, send, load, unload, power hint, `getVdspService`, `putVdspService`, `serviceDied` |
| Command queue, events, worker | `xrp-host/src/xrp_threaded_queue.c`, halves of `xrp_host_common.c` and `xrp_linux.c` | request list, exit flags, condition variables, reference counters, event status | create / retain / release of queue and event, enqueue, wait, run synchronously, the worker thread, tear-down |
| Buffers and groups | `xrp_host_common.c`, `xrp_linux.c` | counters of buffers, group and device; the group's entries | create, map, retain, release, add, set, get, snapshot by a command |
| Devices and direct commands | `vdsp_interface_internal.c`, `vdsp_interface.cpp`, `xrp_linux.c` | descriptors of the process, `struct xrp_device` objects, split handles | open (three ways), close, command, load, unload, hints |
| ION memory | `vdsp-ion/`, `sprd_vdsp_ion.cpp` | two descriptors per allocation, a handle in a legacy kernel | allocate, free, cache, address and mapping ioctls, each on the object or on a device opened for the call |
| Compatibility entry points | `vdsp_interface.cpp` | a wrapper object per handle | open, close, and calls that choose between direct and by-server |
| Client program | `vdsp-example/TestClient.cpp` | handle variable and ION buffers per thread | its test cases, two kinds of threads and the face test |
| System test program | `systest-cases/main.cpp`, `assist.cpp`, `hdr/hdr_test.cpp` | three end flags, arguments on the stack of the test function | prepare, start threads, poll; depth, bokeh and HDR threads |
| Image tools | `systest-cases/depth_bokeh/bmp_io.cpp`, `ImageFormat_Conversion.cpp`, `systest-cases/hdr/bmp.cpp`, `util.cpp` | files and frames | write and read BMP files, change YUV layouts, flip, convert to RGB |
| Not modelled | `sprd_vdsp_send_command`, DVFS hint, `xrp_interface.c` wrappers, unused headers, the one Google test, firmware, NN HAL | | |

How they interact: an application thread calls a `*_compat` or `sprd_cavdsp_*`
function. By-server handles go through `gLock` and binder calls to the service,
whose death arrives on a binder thread (`serviceDied`). Direct handles are
`struct xrp_device` objects used with `ioctl`. The XRP API adds queues: threads
put requests into a list under a condition variable, one worker thread per
queue runs them with the same direct command function and signals an event.
Queue, event, device, buffer and group are freed by whoever drops the last
reference, application thread or worker.

What is hard here: the service dies or fails between any two steps of a call;
`gLock` is released between fetching the proxy and using it; commands run
without it; a failed or refused close leaves counters changed; the worker may
tear down its own queue; wakeups are sent only on the empty-to-non-empty
transition; destroyed events meet waiting threads; counters of five kinds of
objects are decremented in any order; a failure half-way gives back part of
what was taken; descriptors and heap addresses are reused by other threads; the test
programs look at no result and leave their threads behind.
Each of these is listed with its source line under `hazards` in `PROJECT.json`.

## Modules

| Module | Purpose |
|---|---|
| `VdspServerClient` | the by-server client with callers, service and death notices |
| `SharedDevice` | what it promises: handles open and close atomically, commands run only on open handles, the device is open while one is |
| `VdspServerClient_proofs` | proofs about it |
| `XrpQueue` | one queue: list, worker, events, references, tear-down |
| `OrderedChannel` | what it promises: accepted commands are carried out in order, once, one at a time; tracked ones are never dropped |
| `XrpQueue_proofs` | proofs about it |
| `BufferGroup` | buffers, one group, a command that uses it |
| `BufferGroup_proofs` | proofs about it |
| `DirectDevice` | devices, direct commands, descriptors and addresses of one process |
| `DirectDevice_proofs` | proofs about it |
| `IonMemory` | allocations, calls and destructions of several threads on one descriptor table |
| `IonMemory_proofs` | proofs about it |
| `TestClient` | the compatibility entry points and the client program that calls them |
| `SystemTest` | the system test program: main thread, test threads, flags |
| `TestPrograms_proofs` | proofs about `SystemTest` and `TestClient`, which share no state |
| `ImageFiles` | BMP writers and readers, YUV layouts and converters |
| `ImageFiles_proofs` | proofs about it |
| `MCDevices` | `BufferGroup` and `DirectDevice` side by side; they share no state |
| `MCTestPrograms` | `IonMemory`, `TestClient`, `SystemTest` and `ImageFiles` side by side; they share no state |
| `LowestNumber` | a lemma: a set of numbers has a least one, which `Alloc_Fd` and `open` return |
| `MCXrpQueue`, `MCVdspServerClient` | add symmetry sets for TLC; the `.cfg` files give the constants |

The constants that vary what callers and service do are the *environment* of a
run; a property is stated for the environment in which the code keeps it.

### VdspServerClient

Every section of code under `gLock` is two steps: `Enter` or `Lock` takes the
mutex, a second step does what the section does and unlocks; `inside` are the
threads between the two. `openXrpDevice` and `closeXrpDevice` are called inside
a section: `OpenFirst` and `CloseLast` begin the call, `OpenIpc*` and `CloseIpc*`
are its return with the unlock. Each call begins in `getVdspService` (`Connect`,
in `OpenGet`, `CloseGet`, `CommandGet`), goes through its section (`OpenNoFd`,
`OpenFirst`, `OpenMore`, `OpenMismatch`; `CloseOldGeneration`, `CloseBadFd`,
`CloseRefused`, `CloseOneOfMany`, `CloseLast`; `CommandStart`,
`CommandRefused`), a command through a second one (`CommandDone`), and ends in
`Return`. `OpenErr` and `OpenFree` are the `Free_Fd` at `__openerror`, which runs
without the lock and so is a read of the table and a later write; a section that
works on `g_fdtable` meanwhile has its own read (`table`). `DeathNotice` and
`serviceDied` are the two steps of the binder thread. `CloseUnlock2` is the
second unlock when the `AutoMutex` of an old-generation close goes out of scope.

That unlock frees `gLock` whoever holds it. If another thread is inside,
mutual exclusion is gone: increments of plain integers by two threads are a data
race, whose outcome the language leaves undefined, and no step is left
that says what they do. The model ends there (`Exclusive` is a conjunct of `VdspNext`), and
what the properties say of the client they say up to that state: `GWorkingExact`
and `NotClosedUnderCommands` carry the premise, and `CallsReturn` the exception,
in their formula.

External, modelled from their use: the service process (`ServiceDies`,
`ServiceStarts`), its answers, and the death notice. It is assumed that a call
to a dead process returns an error, that `linkToDeath` succeeds, and that an
unlock frees the mutex whoever locked it. `NullBinderOk` says whether the
service accepts the NULL callback of an open that crosses a close.

`server` is a history variable: the service process that a handle was opened on.

Environment constants: `MaxDeaths` (deaths of the service), `Overlap` (which opens
and closes of callers overlap: `"none"`; `"alike"`, opens with opens of the same
work type and closes with closes; or `"any"`), `CloseBusy` (handles are closed
while commands use them), `OpenFails`, `CloseFails`, `CountDepth` (callers begin
no close with `gOpenedCount` so far below zero; without the bound the state space
is infinite).

### XrpQueue

A critical section of a condition variable's mutex is one step; an atomic
counter operation outside of one is a step of its own. `qRef`, `evRef`,
`grpRef`, `devRef` are the counters; `holdsQ`, `holdsE`, `holdsG`, `holdsD` say
which application threads have still to release what. `pc` is the control point
of each thread and of the worker: `push`, `wait`, `blocked`; `enter`, `deq`,
`sleep`, `run`, `relGroup`, `signal`, `next`; and `relEvent`, `relQueue`,
`destroy`, `join`, `free`, where both threads and the worker can be, because
the last release of an event releases a queue. `JoinSelf` is `pthread_join`
called by the worker on itself, which returns an error; `JoinNothing` is a
destroy of a queue whose thread was never started, which dereferences NULL.

`ThreadStarts` says which outcomes of `pthread_create` a run allows,
`GroupArgs` whether commands carry a buffer group.

### BufferGroup

`owners` are the references the application has to give back, `records` the
entries of the group, `snapshot` the buffers whose descriptors the running
command has copied. A section under the group's mutex is one step;
`xrp_set_buffer_in_group` is three (retain, exchange, release).
`replaced` is a history variable: the buffers the application itself exchanged
during the command, which the code does not protect.

### DirectDevice

`file` is the descriptor table of the process (open returns the lowest free
one), `dev` the objects at each heap address, which may be reused. `Pack` and
`Unpack` are the split of an address into an `int32_t` and a `uint32_t`, with
words of `Word` values. A NORMAL device keeps a split address in the union that
holds the descriptor of a NEWMODE one. `lostFiles` and `lostRefs` count what
the two leaking error paths lose, so that the invariants can be exact about all
the rest. `NoMemoryToWrap` leaves a device that no handle leads to, whose
descriptor nobody can close; `LeftOpen` is descriptor 0, which the destructor of
`VdspIon` takes for none. A command may come through any handle, also a NORMAL
one, as the worker of a queue does (its buffers without ION memory are then
DEVICE buffers). `IsFull` are the counts at which a group grows (0, 4, 12, ...),
where adding a buffer may fail. The allocation of ION memory and of an object
are one step each.

### IonMemory

`fdTable` is the descriptor table (`open` and an allocation return the lowest
free one), `ionHandles` the buffers a legacy client holds. The constructor is a
step per ioctl: `VdspIon` (open), `LegacyAlloc` and `LegacyShare` or `NewAlloc`,
`MapBuffer`; `MapFails` is what each does on failure. The destructor is two
steps, because other threads may open descriptors between its two `close`.
The static operations (`Flush_ion_buffer` and so on) open `/dev/ion` for the
call (`OpenForCall`), the others use the device of the object. The kernel may
refuse anything. Descriptor 0 may be free at the start, as in a service without
standard input: the destructor then leaves it open (`mIonDeviceFd > 0`,
VdspIon.cpp:188), which `IonFilesExact` allows for that descriptor only.

### TestClient

`wrap` are the heap cells of `struct vdsp_wrap_handle`, `inner` the objects they
wrap (an `xrp_device`, or the `vdsp_handle` of the service, whose own life is in
`DirectDevice` and `VdspServerClient`). An open is two steps, `OpenWrapper` and
`OpenInner`. `Calls` is the cycle of a test thread, `Times` how often it makes
each call; it looks at no result. `handle` is its variable: `Null`, `Garbage`
when never written, or a cell, whether that still lives or not. `ranOut` records
an open without memory for its wrapper, the one path that leaves `*handle`
(vdsp_interface.cpp:245): after it a thread goes on with the handle it closed
before, and `HandlesExact` says nothing. `SendGoesWild` is the command that
`test_load_unload_lib_2` sends on the address of its handle (line 215).

### SystemTest

The main thread is one action per part of `main`, `test_bokeh_depth` and
`test_hdr`, at `place`. `frameLive` says whether the frame of the test function,
in which the arguments of its threads live, still exists: afterwards
a thread reads any number of rounds, or the process crashes. `PollFlag` is the return
from `main`, which ends every thread. A case number other than 0 and 1 starts no
thread and polls for ever.

### ImageFiles

Every function is an operator on functions over indexes, without its loops. A
file is a sequence of bytes; `disk` may lack any of the numbers `Cuts` of its last
bytes, because the writers ignore the results of `fputc` and `fwrite`. `given`
and `got` are the image written and the one read. `SwapColours` is
`convertRGB2BGR` on it, in place or into a new buffer; it saves the byte it
exchanges from the output (hdr/bmp.cpp:45), so that a new buffer keeps its own
first byte of every pixel (`got.lost`). `frame` is a YUV frame
that goes through any sequence of changes of layout, flips and mirrors, and
`shown` the RGB image last made of it. Inputs have a different byte at every
place, so that a swapped index shows.

## Runs

| Run | Instance | What it shows |
|---|---|---|
| `xrpq_safety` | 2 threads, 2 commands, worker may fail to start, groups | counters exact; nothing used after free; objects of a running command stay; a queue destroyed by a thread is drained; no lost wakeup; a status is published once; an answer is not reported as a failure |
| `xrpq_liveness` | 2 threads, 2 commands | `WaitReturns`, `ImplementsOrderedChannel` (with its fairness), `UnreferencedQueueIsFreed`, no deadlock |
| `xrpq_nothread` | 1 thread, 1 command, the worker does not start | **violated**: the queue is reported as created, and a waiter never returns |
| `xrpq_status` | 1 thread, 1 command | **violated**: a command that was not delivered is reported as success |
| `vdsp_calm` | 2 threads, 3 handles, 2 work types, 2 descriptors; no deaths, opens overlap opens of the same type and closes closes, opens are refused | exact bookkeeping, refinement of `SharedDevice` |
| `vdsp_hostile` | 2 threads, 2 handles; any overlap, failing calls, busy closes, 1 death | `LockExclusive`, `GWorkingExact`, `NotClosedUnderCommands`, `LiveCommandsAreCurrent`, `CallsReturn` |
| `vdsp_stale` | 2 threads, 2 handles, 1 death | **violated**: a handle of the service that died operates the next one |
| `vdsp_mismatch` | 3 threads, 3 handles, 2 work types | **violated**: a refused open frees its descriptor twice and takes another handle's |
| `vdsp_reclose` | closes fail and are tried again | **violated**: success is returned and the device stays open |
| `devices` | `BufferGroup`: 2 threads, 2 buffers, 2 entries, 3 owned references | counters of buffers, group, device exact; no use after free; buffers of a command stay; nothing leaks |
| | `DirectDevice`: 2 threads, 3 addresses, 5 descriptors with 0, words of 4 bits, opens begun with no handle open | no descriptor has two closers, one without a closer was lost by a known path; exact device counters, split handles lead back, direct commands reach the driver |
| `direct_normal` | 1 thread | **violated**: a queue's command on a NORMAL device is an `ioctl` on half a pointer |
| `testprograms` | ION: 2 threads, 5 descriptors, both kernels. Client: 3 cells, 3 inner objects, counts up to 1 (2 with a second library). System test: up to 2 rounds. Images: 1 to 3 by 1 to 2 pixels; frames of 4 by 2 and 4 by 4 | `IonFilesExact`; `HandlesExact`; `EndsOnlyWhenDone`, `TestEnds`; `WrittenIsRead`, `TruncatedIsRefused`, `ConversionsKeepPixels` |

Why the bounds are enough for the cases of interest. Two threads and two
commands let one command run while another is queued, let a third party (the
worker) drop the last reference of each kind, and let two threads wait for one
event. Two client threads let every two calls of the client overlap (how more of
them do is left to the theorems, which hold for any number), and three handles let
two opens of the same type be refused beside each other;
a table of two descriptors is filled and, with three handles, overflows. Two
threads and the binder thread are those of a broken lock: one that has unlocked
once, one that has locked since, and the notice that made the first one's handle
old. One death of the service puts a death before, inside and after every call of
the threads; a second one meets the same states again with a higher generation.
Two buffers and two entries allow one buffer in two places and the exchange of
a buffer for itself or another. Three addresses are what one NORMAL and one
direct device need; they include one with a low half that is negative and one
with a low half that is the number of a descriptor. `MaxHandles = 1` still lets
two threads open at once and hold a device each. Descriptor 0 is free, so that it
may become that of a driver or of a `/dev/ion`. Two ION threads let one
open or close between any two steps of the other, and five descriptors hold
their two objects and one device opened for a call; when both call, the table
is full. Three cells are one more than
the two threads of a client test use. Widths 1 to 3 have three different
paddings; a cut of 30 reaches over a row; frames of 4 by 4 have two squares
of chroma in each direction.

Deadlock is checked except where the system may stop: in `xrpq_safety` and
`xrpq_nothread` (`JoinNothing` ends the process), in the violation run
`xrpq_status`, where only the invariant is of interest, in `vdsp_hostile` and
`vdsp_stale`, which end where `gLock` is unlocked under its owner, in `devices`
and `direct_normal`, whose bounded supplies of buffers and leaks run out, and in
`testprograms`, where programs exit and crash. Symmetry is used in runs without
liveness properties only.

What holds where, for the by-server client:

- in every environment, deaths and restarts included: `LiveCommandsAreCurrent`,
  and `LockExclusive`, which says that `gLock` excludes until a first death notice
  has been handled;
- in every environment, as long as `gLock` has excluded: `GWorkingExact`,
  `NotClosedUnderCommands`, `CallsReturn`. After a death notice an old-generation
  close unlocks twice, and in between the lock may have been taken by another
  thread; from then on nothing is claimed;
- only for a service that neither dies nor fails to close, and callers that do
  not close busy handles, keep opens apart from closes, and overlap an open only
  with opens of the same work type, of which the service fails none: exact
  descriptors, counters and the refinement of `SharedDevice`. Opens that are
  refused for their type are part of it, and free their descriptor twice; what
  they would take is never a live one, because the opens beside them are refused
  as well. That a handle is not closed under its own command is an assumption
  about callers there, not a result.

The runs `vdsp_mismatch` and `vdsp_reclose` each leave the last environment in one
respect and show what is lost. A death of the service loses more. An open takes
its proxy before and its generation after the death notice (line 229): when
`gOpenedCount` is not 0 it succeeds without a call to any service, and the handle
has the new generation without the new service knowing it. `vdsp_stale` shows such
a handle sending a command to that service. The reconnect clears the descriptor
table (line 173), so that its descriptor may be given away once more. A command
that was admitted before the notice, however, never reaches the next service:
that is `LiveCommandsAreCurrent`, the weaker claim.

### Fairness

`XrpSpec` assumes weak fairness of the worker and of every step of a call that
has begun: threads are scheduled, and the ioctl returns. Making a call is never
assumed. `VdspSpec` assumes weak fairness of the steps of a call that is inside a
section or in a call to the service (threads are scheduled, binder calls return,
also when the peer died), and strong fairness of the steps that take `gLock`,
those of the binder thread included (a waiter is not passed over for ever by a
mutex that is free again and again). A restart of the service is not assumed.
`SystemTestSpec` assumes weak fairness of the main thread and of each test thread,
which are scheduled and whose calls of the algorithms return; main polls with
`usleep`, never on a lock. `TestEnds` excepts what the code ignores, a thread that
could not be created. The other modules state safety only and assume no fairness.

## Proofs

All theorems hold for every value of the constants that satisfies the named
assumptions of the modules.

**`XrpQueue_proofs`.** `XrpInvariant` proves the inductive invariant: `XrpInv`
together with `RefCountsExact` and `NoLostWakeup`. Counters alone are not
inductive: that a counter is the number of owners is preserved only if every
control point has the reference it is going to drop. `XrpInv` says so:
`EventsOwned` (only a live event has owners), `ThreadsOwn` and `WorkerOwns`
(what each control point has in hand), `ListSound` (the list holds queued
requests, each once), `DestroyedOwned` (an event between its destruction and its
free is in one actor's hands) and `TearDown` (one actor at a time tears the
queue down, after the last reference; what exit flag, worker and list look like
before and after). Each conjunct has a lemma with one step per action;
`QueueCountStep`, `EventCountsStep`, `GroupCountStep` and `DeviceCountStep` do
the four counters. From it follow `XrpTypeCorrect` (no counter is negative),
`RefCountsCorrect`, `NoLostWakeupCorrect`, `QueueNotUsedAfterFreeCorrect`,
`EventNotUsedAfterFreeCorrect`, `RunningCommandCorrect` and
`DestroyDrainsCorrect`.

Outcomes have an invariant of their own on top of it, `OutcomeInv`: a request is
where its phase says, in the list, in the worker's hands or lost with its queue
(`Placed`); a status is published only after the run (`StatusPlaced`); and the
local variable from which the worker publishes it tells of an answer
(`WorkerStatus`). `AnsweredNotFailedCorrect` and `SignalledOnceCorrect` are read
off it. So is `QueueImplementsChannel`: under the mapping of `XrpQueue` every
step of the queue is a step of `OrderedChannel` or a stutter. Four lemmas take
the steps that move a request (`PushSubmits`, `DequeueBegins`, the one that
finishes it and the free of a queue, which drops what is left); all other steps
are `Still`, and the abstract variables do not change.

**`VdspServerClient_proofs`.** `VdspTypeCorrect` and `GWorkingCorrect` need the
types and that only two sections change the set of commands in flight; with
`Exclusive` as their premise nobody else is inside one. `LiveCommandsCorrect` goes
through `ConnectionInv`, which relates the proxy a thread has in hand to the service
the client is connected to and the deaths that have not been reported.
`LockInvariant` has three parts. `OpeningIsPrivate`: an open has its handle to
itself. `FirstGeneration`: until a first death notice has been handled every handle
and every close is of generation 0, nobody is past an old-generation unlock, and who
is inside holds `gLock`. `ClosingIsIdle`: `gWorking` is 0 during `closeXrpDevice`.
`LockExclusiveCorrect` and `NotClosedUnderCommandsCorrect` follow, for every
environment.

The exact bookkeeping holds in the calm environment only, so its theorems assume
`Calm`: `MaxDeaths = 0`, not `CloseBusy`, not `CloseFails`, and either opens that
overlap opens of their own work type, none of which the service fails (the
environment of `vdsp_calm`), or opens that may fail in every way, each alone.
Commands overlap everything. `CalmInv` has five parts. `Connected`: one connection
to one service, and an open on its way from a refusal differs in type from the open
device. `CallsKnow`: what a call has read is still so. `FdsKept`: every open handle
has a descriptor of its own, and its bit in `g_fdtable` is set. `CountKept`:
`gOpenedCount` and the device. And `FdWorkingExact`. `CallsKnow` is where the
unlocked `Free_Fd` of a refused or failed open matters: the table it has read, and
will write back, has every bit of an open handle, and the one it clears is of none.
An open section that works on a table read before such a write may undo it; the
bit that stays set belongs to nobody. Beside an open that may succeed neither is
true, and `vdsp_mismatch` shows what happens.
From `CalmInv` follow `FdWorkingCorrect`,
`OpenHandlesKeepTheirFdCorrect`, `FdsDistinctCorrect`, `OpenedCountCorrect`, and
`ClientImplementsSharedDevice`, the same kind of step-by-step refinement as the
queue's.

**`BufferGroup_proofs`.** `CountersExact` compares counters with cardinalities
of sets of owners, and the entries of a group are a list in which a buffer may
stand several times and whose positions shift when it is drained. So entries are
counted by position (`PlacesOf`), and `PlacesAppend` and its companions say what
adding, exchanging and draining do to that count. The inductive invariant
(`GroupInvariant`) adds to the counters `SetCalls` (an exchange under way has a
buffer to release and its own reference to the group), `GroupLife` (a group
lives while it is in use, and then one actor drains it) and `CommandHas` (what a
command works on is an entry or has been exchanged by the application).
`GroupTypeCorrect` shows that no counter is negative; it,
`CountersExactCorrect`, `GroupNotUsedAfterFreeCorrect`,
`CommandBuffersLiveCorrect` and `NothingLeaksCorrect` follow.

**`DirectDevice_proofs`.** `SplitAddress` is arithmetic: an address split over
an `int32_t` and a `uint32_t` comes back whole for every word size, with low
halves that read as negative numbers. The inductive invariant `DirectInv` says
of every control point what it has in hand (`Calls`), of every reference that
its device is there and of the right type (`DevicesSound`,
`HandlesLeadToDevices`), of every counter what it is the sum of
(`DeviceRefsExact`, five kinds of references), and of every descriptor who
closes it (`DriverFiles`, `IonFiles`). A driver descriptor is that of a device;
`OutOfReach` shows that a device no handle leads to was lost by a failure
that `lostRefs` has counted. The hard step is a release: it may free a
device, and with a NORMAL one the device under it. `LastHandle` and `LastNormal`
show that a counter of one leaves no other reference of any kind, so nothing
else led to what is freed. An object that `malloc` puts at a reused address
therefore meets no old reference (`CountsZero`). `DirectTypeCorrect`,
`DeviceRefsCorrect`, `HandlesLeadCorrect`, `DirectCommandsCorrect` and
`FilesOwnedCorrect` follow.

**`IonMemory_proofs`.** `IonInv` says which numbers each control point keeps
(`PlacesKnow`), that each of them is open on what the thread takes it for and
belongs to nobody else (`FilesOwned`), and that nothing stays open without an
owner but a descriptor 0 (`FilesNeeded`). `IonFilesExact` alone is not
inductive, because between the two `close` of the destructor another thread may
be given the first number. That `open` returns a number at all is `LeastElement`
of `LowestNumber`, from the well-foundedness of inclusion on finite sets.

**`TestPrograms_proofs`: the client.** No test looks at a result, so what keeps its calls
sound is what the compatibility layer leaves in the handle variable. `ClientInv`
says that a case creates each thread once (`CreatedOnce`; `CaseThreads` goes
through the cases), that the cell of an open is in its thread's hands alone
(`OpensOwn`), that every other live cell is a whole wrapper, in use or refused
by the service (`WrappersOwn`), and that a user has NULL or a whole wrapper
(`UsersOwn`). The last three are conditional on `~ranOut`, as `HandlesExact` is.
`FollowingCall` shows that a test that has opened always gets to its close,
whatever calls its counts skip.

**`TestPrograms_proofs`: the system test.** An end flag is set by its thread, but also by `main`
before the thread is created. `FlagsTell` says from which place of `main` on a
flag means that its thread has ended, `CasesApart` which places belong to which
case; `EndsOnlyWhenDoneCorrect` follows.

**`ImageFiles_proofs`.** Nothing here is concurrent; what is hard is the
arithmetic of places, for every width, height, padding and cut. `RowsAre`,
`PlaceIs`, `ByteIs`, `ByteAt` and `FilePlaceIs` say once what `\div` and `%` of a
place are; all other lemmas cite them.

*Frames.* `FrameHolds` says where a layout has the luma and the two chromas of
every pixel, and from which pixel of the source they come. `LoadedKept`,
`ConvertedKept` and `TurnedKept` are its steps: a flip and a mirror are their own
inverses, pixel by pixel and square by square (`TurnedTwice`, `TurnedPixelIs`).
`NearColours` compares the three fixed-point converters with the formula for every
luma and the chromas of the source. `FramesInvariant` and
`ConversionsKeepPixelsCorrect` follow, for every even width and height.

*Files.* `FileOf` is a whole file of an image: the header, and the byte of every
row, pixel and colour. `PlanesWritten` (`bmp_write`) and `PixelsWritten`
(`save_bmp`) show that both writers make one, whatever padding a width needs;
`ColoursMade`, `GrayMade`, `DepthMade` and `TestMade` that the callers give them the
image they mean. `DiskMade` cuts its end off. `ToolsRead` is `bmp_read` on what is
left: it refuses, or every byte it looked at was there, and the only one it does not
look at and nothing behind it gives away is the red of the last pixel of the top
row. `OpenRead` is `OpenBMPFile`. `SwapKept` is `convertRGB2BGR`: in place it
undoes itself, into another buffer it moves what is lost of a pixel and loses its
first byte. `FilesInvariant` joins them; `WrittenIsReadCorrect` and
`TruncatedIsRefusedCorrect` are read off it. These three assume `SizesFit`, the
sizes the integers of the code can hold: a row in the 16 bits of `widthByteNum`
(hdr/bmp.cpp:213; images up to 21844 pixels wide), the bytes of a file and of an
array in an `int` (bmp_io.cpp:82). Beyond them the code computes with what is left
of a number, and `OpenBMPFile` reads rows at wrong places.

Only model-checked:

- liveness and the absence of deadlock, which are out of reach of the prover:
  `WaitReturns`, `CallsReturn`, `UnreferencedQueueIsFreed`, `TestEnds`, and the
  fairness in `ImplementsOrderedChannel` and `ImplementsSharedDevice` (their
  safety halves are proved, the runs check them whole).

## Not modelled

- the HIDL structures, checksums and logs of the by-server client;
- what the ioctls of ION memory do to caches and addresses;
- the one-line wrappers of `xrp_interface.c`, and the queries
  `sprd_cavdsp_get_info` and `sprd_vdsp_check_supported`, which change nothing;
- a library call without ION memory, which writes to address 0;
- `sprd_vdsp_send_command` (vdsp_interface_internal.c:51-141), which sends a command
  through a queue made for it alone and which nothing in the sources calls; its
  parts (queue, group, buffers) are modelled;
- what two threads do inside sections of `gLock` once it was unlocked under one;
- in the tests: `bmp_read_palette`, `bmp_read_test`, `ReadYUV422File`, the
  parser of `hdr/util.cpp`, streams and memory that are never given back
  (`ReadNV21File` and a refusing `bmp_read` do not close their file,
  `OpenBMPFile` accepts a file without its end and shows what `malloc` found), and
  the division by zero in `SaveImage_gray2_u16`, whose result is any value;
- the DVFS hint, the Google test, firmware and the NN HAL.

## Plan

1. (done) `XrpQueue` with `OrderedChannel`: the core, proved.
2. (done) `VdspServerClient` with `SharedDevice`: environments, proofs.
3. (done) `BufferGroup`, `DirectDevice`: model-checked.
4. (done) `IonMemory`, `TestClient` with the compatibility layer, `SystemTest`,
   `ImageFiles`: model-checked.
5. (done) Proofs about `BufferGroup`, `DirectDevice`, `IonMemory`, `TestClient`
   and `SystemTest`.
6. (done) The steps of the refinements to `OrderedChannel` and `SharedDevice`,
   the calm invariants of the client, outcomes of commands.
7. (done) Proofs about `ImageFiles`, for every size its integers can hold. With
   them every invariant of the passing runs, and the safety half of both
   refinements, is a theorem.
