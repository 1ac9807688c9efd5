----------------------------- MODULE TestClient -----------------------------
(***************************************************************************)
(* The client program (vdsp-example/TestClient.cpp) on the compatibility   *)
(* entry points of vdsp_interface.cpp: threads open a device directly or   *)
(* by the server, use it and close it, each through a wrapper on the heap  *)
(* that they share.  The thread that is main itself runs the face test.    *)
(*                                                                         *)
(* What lies behind a wrapper (the xrp_device, or the vdsp_handle of the   *)
(* service) is an inner object here: DirectDevice and VdspServerClient     *)
(* have its operations, which here may succeed or fail.                    *)
(***************************************************************************)
EXTENDS Integers, Sequences

CONSTANTS Cells,            \* where malloc may place a wrapper
          Inners,           \* and where an inner object may be
          Null, Garbage,    \* the handle variable: NULL, or never written
          MaxTimes          \* bound: loadtime and the power hint counts

ASSUME TestClientAssumption ==
    Null /= Garbage /\ {Null, Garbage} \intersect Cells = {} /\ MaxTimes \in Nat

VARIABLES mainAt,           \* where main is: "start", "create", "return", "gone"
          toCreate,         \* threads it has still to create, each with its work
          work,             \* what each thread was asked to do
          at,               \* the call each thread makes next
          left,             \* how often it still makes it
          handle,           \* its handle variable
          wrap,             \* the heap cells of the wrappers
          inner,            \* who owns an inner object: "free", "direct", "server"
          pending,          \* the cell of the open a thread is in
          ion,              \* ION buffers each thread has
          ranOut,           \* history: malloc had no wrapper for an open
          client            \* "running", "exited" or "crashed"

clientThreads == {"a", "b", "main"}
testClientVars == <<mainAt, toCreate, work, at, left, handle, wrap, inner, pending, ion,
                    ranOut, client>>
heap == <<wrap, inner>>
threadVars == <<at, left, handle, pending, ion>>

\* Counts of calls in one cycle: a thread with one cycle, or with no end of them.
NoWork == [test |-> "none", acquire |-> 0, load |-> 0, unload |-> 0, release |-> 0,
           forever |-> FALSE]

TestClientInit ==
    /\ mainAt = "start" /\ client = "running" /\ toCreate = << >>
    /\ work = [t \in clientThreads |-> NoWork]
    /\ at = [t \in clientThreads |-> "none"] /\ left = [t \in clientThreads |-> 0]
    /\ handle = [t \in clientThreads |-> Garbage]
    /\ wrap = [c \in Cells |-> [live |-> FALSE, type |-> "none", inner |-> Null]]
    /\ inner = [i \in Inners |-> "free"]
    /\ pending = [t \in clientThreads |-> Null]
    /\ ion = [t \in clientThreads |-> 0]
    /\ ranOut = FALSE

-----------------------------------------------------------------------------
(***************************************************************************)
(* main: which test, then its threads.  unloadflag is always 0 for lib_1.  *)
(***************************************************************************)
Lib1(loads, acquire, release, forever) ==
    [test |-> "lib_1", acquire |-> acquire, load |-> loads, unload |-> 0,
     release |-> release, forever |-> forever]
Lib2 == [test |-> "lib_2", acquire |-> 0, load |-> 1, unload |-> 1, release |-> 0,
         forever |-> TRUE]

\* The threads of a case; a second library doubles the loads.
Case(caseid, loadtime, two, acquire, release) ==
    LET lib1(loads, forever) == Lib1(loads, acquire, release, forever)
    IN  CASE caseid = 0 -> <<<<"a", lib1(1, FALSE)>>>>
          [] caseid \in 1 .. 2 -> <<<<"a", lib1(loadtime, FALSE)>>,
                                    <<"b", lib1(loadtime, FALSE)>>>>
          [] caseid = 3 -> <<<<"b", lib1(loadtime, FALSE)>>,
                             <<"a", lib1(2 * loadtime, FALSE)>>>>
          [] caseid = 4 -> <<<<"a", lib1(IF two THEN 2 * loadtime ELSE loadtime, FALSE)>>>>
          [] caseid = 5 -> <<<<"a", lib1(0, FALSE)>>>>
          [] caseid \in 6 .. 7 -> <<<<"a", lib1(1, TRUE)>>>>
          [] caseid = 8 -> <<<<"a", Lib2>>>>
          [] OTHER -> << >>

ChooseCase ==
    /\ client = "running" /\ mainAt = "start"
    /\ \E caseid \in 0 .. 10, loadtime \in 0 .. MaxTimes, two \in BOOLEAN,
          acquire, release \in 0 .. MaxTimes :
          /\ toCreate' = Case(caseid, loadtime, two, acquire, release)
          /\ IF caseid = 9
             THEN /\ at' = [at EXCEPT !.main = "image"] /\ mainAt' = "face"
             ELSE /\ mainAt' = "create" /\ UNCHANGED at
    /\ UNCHANGED <<work, left, handle, heap, pending, ion, ranOut, client>>

\* The result of pthread_create is ignored.
CreateThread ==
    /\ client = "running" /\ mainAt = "create" /\ toCreate /= << >>
    /\ toCreate' = Tail(toCreate)
    /\ LET t == Head(toCreate)[1]
       IN  \/ /\ work' = [work EXCEPT ![t] = Head(toCreate)[2]]
              /\ at' = [at EXCEPT ![t] = "alloc"]
           \/ UNCHANGED <<work, at>>
    /\ UNCHANGED <<mainAt, left, handle, heap, pending, ion, ranOut, client>>

\* main joins nobody: its return ends the process.
MainReturns ==
    /\ client = "running"
    /\ \/ mainAt = "create" /\ toCreate = << >>
       \/ mainAt = "face" /\ at["main"] = "end"
    /\ mainAt' = "gone" /\ client' = "exited"
    /\ UNCHANGED <<toCreate, work, threadVars, heap, ranOut>>

-----------------------------------------------------------------------------
(***************************************************************************)
(* The compatibility layer.                                                *)
(***************************************************************************)
Crashes == /\ client' = "crashed"
           /\ UNCHANGED <<mainAt, toCreate, work, threadVars, heap, ranOut>>
In(t, place) == client = "running" /\ at[t] = place
Kind(t) == IF work[t].test = "lib_2" THEN "server" ELSE "direct"

\* sprd_cavdsp_open_device_compat, as far as the wrapper: without one *handle stays.
OpenWrapper(t, next, refused) ==
    /\ In(t, "open")
    /\ \/ \E c \in {d \in Cells : ~wrap[d].live} :
             /\ wrap' = [wrap EXCEPT ![c].live = TRUE]
             /\ pending' = [pending EXCEPT ![t] = c]
             /\ handle' = [handle EXCEPT ![t] = Null]
             /\ at' = [at EXCEPT ![t] = "opening"]
             /\ UNCHANGED <<left, ranOut>>
       \/ /\ ranOut' = TRUE
          /\ at' = [at EXCEPT ![t] = refused]
          /\ left' = [left EXCEPT ![t] = next[refused]]
          /\ UNCHANGED <<wrap, pending, handle>>
    /\ UNCHANGED <<mainAt, toCreate, work, inner, ion, client>>

\* Its second half: the inner object, whose failure frees the wrapper.
OpenInner_kept(t) ==                                       \* mutant
    /\ pending' = [pending EXCEPT ![t] = Null]
    /\ \/ \E i \in {j \in Inners : inner[j] = "free"} :
             /\ inner' = [inner EXCEPT ![i] = Kind(t)]
             /\ wrap' = [wrap EXCEPT ![pending[t]] =
                            [live |-> TRUE, type |-> Kind(t), inner |-> i]]
             /\ handle' = [handle EXCEPT ![t] = pending[t]]
       \/ /\ wrap' = [wrap EXCEPT ![pending[t]].live = FALSE]
          /\ handle' = [handle EXCEPT ![t] = pending[t]]
          /\ UNCHANGED inner
OpenInner(t) ==
    /\ pending' = [pending EXCEPT ![t] = Null]
    /\ \/ \E i \in {j \in Inners : inner[j] = "free"} :
             /\ inner' = [inner EXCEPT ![i] = Kind(t)]
             /\ wrap' = [wrap EXCEPT ![pending[t]] =
                            [live |-> TRUE, type |-> Kind(t), inner |-> i]]
             /\ handle' = [handle EXCEPT ![t] = pending[t]]
       \/ /\ wrap' = [wrap EXCEPT ![pending[t]].live = FALSE]
          /\ UNCHANGED <<handle, inner>>

\* send_cmd, loadlibrary, unloadlibrary and power_hint_compat change nothing here; NULL
\* is refused, and a cell that was freed may hold anything.
Use(t) == handle[t] /= Garbage /\ (handle[t] = Null \/ wrap[handle[t]].live)
Wild(t) == ~Use(t)

\* sprd_cavdsp_close_device_compat.  A close by the server that fails keeps both.
CloseWrapper(t) ==
    LET c == handle[t]
        freed == /\ inner' = [inner EXCEPT ![wrap[c].inner] = "free"]
                 /\ wrap' = [wrap EXCEPT ![c].live = FALSE]
    IN  IF c = Null THEN UNCHANGED heap
        ELSE \/ freed
             \/ wrap[c].type = "server" /\ UNCHANGED heap

-----------------------------------------------------------------------------
(***************************************************************************)
(* The tests.  A test is a cycle of calls, each made as often as its work  *)
(* says; the result of none is looked at.                                  *)
(***************************************************************************)
Calls == <<"open", "acquire", "load", "send", "unload", "release", "close">>
Times(t) == [open |-> 1, acquire |-> work[t].acquire, load |-> work[t].load, send |-> 1,
             unload |-> work[t].unload, release |-> work[t].release, close |-> 1]
Following(t, call) ==
    LET i == CHOOSE i \in DOMAIN Calls : Calls[i] = call
        later == {j \in i + 1 .. Len(Calls) : Times(t)[Calls[j]] > 0}
    IN  IF later /= {} THEN Calls[CHOOSE j \in later : \A k \in later : j <= k]
        ELSE IF work[t].forever THEN "open" ELSE "end"
Goes(t, place) ==
    /\ at' = [at EXCEPT ![t] = place]
    /\ left' = [left EXCEPT ![t] = IF place \in DOMAIN Times(t) THEN Times(t)[place] ELSE 0]

\* Two ION buffers, which no lib test gives back; memset on one that could not be had.
AllocIon(t) ==
    /\ In(t, "alloc")
    /\ \/ Crashes
       \/ /\ ion' = [ion EXCEPT ![t] = 2]
          /\ handle' = [handle EXCEPT ![t] = IF work[t].test = "lib_1" THEN Null ELSE @]
          /\ Goes(t, "open")
          /\ UNCHANGED <<mainAt, toCreate, work, heap, pending, ranOut, client>>

Opened(t) ==
    /\ In(t, "opening")
    /\ OpenInner(t)
    /\ Goes(t, Following(t, "open"))
    /\ UNCHANGED <<mainAt, toCreate, work, ion, ranOut, client>>

\* lib_2 sends its command on the address of its handle: the low half of a pointer is no
\* interface type, but that of NULL is the direct one, with what lies next on the stack.
SendGoesWild(t) == work[t].test = "lib_2" /\ at[t] = "send" /\ handle[t] = Null

Call(t) ==
    /\ client = "running" /\ at[t] \in {"acquire", "load", "send", "unload", "release"}
    /\ \/ (Wild(t) \/ SendGoesWild(t)) /\ Crashes
       \/ /\ IF left[t] > 1 THEN left' = [left EXCEPT ![t] = @ - 1] /\ UNCHANGED at
             ELSE Goes(t, Following(t, at[t]))
          /\ UNCHANGED <<mainAt, toCreate, work, handle, heap, pending, ion, ranOut, client>>

Close(t) ==
    /\ In(t, "close")
    /\ \/ Wild(t) /\ Crashes
       \/ /\ IF Use(t) THEN CloseWrapper(t) ELSE UNCHANGED heap
          /\ Goes(t, Following(t, "close"))
          /\ UNCHANGED <<mainAt, toCreate, work, handle, pending, ion, ranOut, client>>

LibTest(t) ==
    \/ AllocIon(t)
    \/ OpenWrapper(t, Times(t), Following(t, "open"))
    \/ Opened(t) \/ Call(t) \/ Close(t)
test_load_unload_lib_1(t) == work[t].test = "lib_1" /\ LibTest(t)
test_load_unload_lib_2(t) == work[t].test = "lib_2" /\ LibTest(t)

\* thread_faceid, in main: the picture, two more buffers, one command.
FaceGoes(place, n) ==
    /\ at' = [at EXCEPT !.main = place] /\ ion' = [ion EXCEPT !.main = n]
    /\ UNCHANGED <<mainAt, toCreate, work, left, client>>
thread_faceid ==
    \/ /\ In("main", "image")
       /\ \/ Crashes
          \/ /\ FaceGoes("end", 1)                         \* no test.yuv
             /\ UNCHANGED <<handle, heap, pending, ranOut>>
          \/ /\ FaceGoes("open", 3)
             /\ UNCHANGED <<handle, heap, pending, ranOut>>
    \/ OpenWrapper("main", [free |-> 0], "free")
    \/ /\ In("main", "opening")
       /\ OpenInner("main")
       /\ FaceGoes(IF handle'["main"] = Null THEN "free" ELSE "send", 3)
       /\ UNCHANGED ranOut
    \/ /\ In("main", "send")
       /\ FaceGoes("close", 3)
       /\ UNCHANGED <<handle, heap, pending, ranOut>>
    \/ /\ In("main", "close")
       /\ CloseWrapper("main")
       /\ FaceGoes("free", 3)
       /\ UNCHANGED <<handle, pending, ranOut>>
    \/ /\ In("main", "free")
       /\ FaceGoes("end", 0)
       /\ UNCHANGED <<handle, heap, pending, ranOut>>

TestClientNext ==
    \/ ChooseCase \/ CreateThread \/ MainReturns \/ thread_faceid
    \/ \E t \in {"a", "b"} : test_load_unload_lib_1(t) \/ test_load_unload_lib_2(t)

TestClientSpec == TestClientInit /\ [][TestClientNext]_testClientVars

-----------------------------------------------------------------------------
\* Threads between the end of an open and the end of the close that follows it.
Holding(t) == at[t] \in {"acquire", "load", "send", "unload", "release", "close"}
Held == {handle[t] : t \in {u \in clientThreads : Holding(u)}}

(***************************************************************************)
(* As long as no open ran out of memory for its wrapper: every wrapper has *)
(* an inner object of its type to itself, a thread uses NULL or a wrapper   *)
(* that lives and is its own, whatever failed before, and a wrapper nobody *)
(* uses any more is one the service refused to close.                      *)
(***************************************************************************)
HandlesExact ==
    client = "running" /\ ~ranOut =>
        LET owned == {pending[t] : t \in clientThreads}
            full == {c \in Cells : wrap[c].live /\ c \notin owned}
        IN  /\ \A c \in full : inner[wrap[c].inner] = wrap[c].type
            /\ \A c, d \in full : wrap[c].inner = wrap[d].inner => c = d
            /\ \A i \in Inners : inner[i] /= "free" => \E c \in full : wrap[c].inner = i
            /\ \A t \in clientThreads : Holding(t) => handle[t] \in full \union {Null}
            /\ \A t, u \in clientThreads :
                  Holding(t) /\ Holding(u) /\ handle[t] = handle[u] /\ t /= u =>
                      handle[t] = Null
            /\ \A c \in full : c \in Held \/ wrap[c].type = "server"
=============================================================================
