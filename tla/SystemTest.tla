----------------------------- MODULE SystemTest -----------------------------
(***************************************************************************)
(* The system test program (systest-cases/main.cpp, assist.cpp,            *)
(* hdr/hdr_test.cpp): the main thread prepares the inputs of a test, starts *)
(* its threads on arguments that live in the stack frame of the test       *)
(* function, returns from it, and then polls flags the threads set.        *)
(*                                                                         *)
(* External, with any result: the depth, bokeh and HDR algorithms, dlopen, *)
(* the file system.  A process that dereferences NULL or fails an assert   *)
(* crashes.  What a thread reads from the frame of a function that has     *)
(* returned is intact, or any other number of rounds, or a crash.          *)
(***************************************************************************)
EXTENDS Integers

CONSTANT MaxLoops           \* bound on the loop numbers of the command line

ASSUME SystemTestAssumption == MaxLoops \in Nat \ {0}

VARIABLES place,            \* where the main thread is
          caseid,           \* argv[1]: 0 depth and bokeh, 1 hdr, 2 any other
          loopNum,          \* rounds asked of each thread
          api,              \* CAA_API: "missing", "closed" or "loaded"
          frameLive,        \* the frame of the test function exists
          depth_end, bokeh_end, end_flag,
          thread,           \* what each test thread is doing
          round,            \* rounds each thread has done
          failed,           \* history: threads pthread_create did not create
          process           \* "running", "exited" or "crashed"

systemTestVars == <<place, caseid, loopNum, api, frameLive, depth_end, bokeh_end,
                    end_flag, thread, round, failed, process>>

Workers == {"depth", "bokeh", "hdr"}
preparation == <<caseid, loopNum, api>>
flags == <<depth_end, bokeh_end, end_flag>>
workers == <<thread, round, failed>>

SystemTestInit ==
    /\ place = "start" /\ process = "running"
    /\ caseid = 2 /\ loopNum = [w \in Workers |-> 0] /\ api = "missing"
    /\ frameLive = FALSE
    /\ depth_end = 0 /\ bokeh_end = 0 /\ end_flag = 0
    /\ thread = [w \in Workers |-> "none"] /\ round = [w \in Workers |-> 0]
    /\ failed = {}

Crash == /\ process' = "crashed"
         /\ UNCHANGED <<place, preparation, frameLive, flags, workers>>
At(p, q) == process = "running" /\ place = p /\ place' = q /\ UNCHANGED process

\* Calling a function of the assist library that was not found, or was unmapped.
CallFails == api = "missing" \/ api = "closed"
CallWorks == api = "loaded" \/ api = "closed"

-----------------------------------------------------------------------------
(***************************************************************************)
(* The main thread.                                                        *)
(***************************************************************************)
MainStart ==
    /\ At("start", "inputs")
    /\ end_flag' = 0                                       \* set_testend_flag(0)
    /\ caseid' \in 0 .. 2
    /\ \E d, b \in 0 .. MaxLoops : loopNum' = [depth |-> d, bokeh |-> b, hdr |-> 1]
    /\ UNCHANGED <<api, frameLive, depth_end, bokeh_end, workers>>

\* dlopen, then the symbols one by one; a symbol that is missing closes the library.
\* Neither caller looks at the result.
sprd_depth_load_api == api' \in {"missing", "closed", "loaded"}

\* The OTP file must open, the two YUV files need not.
DepthInputs ==
    /\ process = "running" /\ place = "inputs" /\ caseid = 0
    /\ \/ Crash                                            \* feof(NULL)
       \/ /\ At("inputs", "bokeh_buffers")
          /\ frameLive' = TRUE
          /\ sprd_depth_load_api
          /\ UNCHANGED <<caseid, loopNum, flags, workers>>

BokehBuffers ==
    /\ process = "running" /\ place = "bokeh_buffers"
    /\ \/ Crash                                            \* the API, or fread(NULL)
       \/ /\ CallWorks
          /\ At("bokeh_buffers", "clear_flags")
          /\ UNCHANGED <<preparation, frameLive, flags, workers>>

ClearFlags_depth ==                                        \* mutant
    \/ /\ process = "running" /\ place = "clear_flags" /\ CallFails
       /\ Crash
    \/ /\ CallWorks
       /\ At("clear_flags", "start_depth")
       /\ depth_end' = 1
       /\ UNCHANGED <<preparation, frameLive, bokeh_end, end_flag, workers>>
ClearFlags ==
    \/ /\ process = "running" /\ place = "clear_flags" /\ CallFails
       /\ Crash                                            \* ProcessState_initWithDriver
    \/ /\ CallWorks
       /\ At("clear_flags", "start_depth")
       /\ bokeh_end' = 1 /\ depth_end' = 1
       /\ UNCHANGED <<preparation, frameLive, end_flag, workers>>

\* The result of pthread_create is ignored.
pthread_create(w) ==
    \/ thread' = [thread EXCEPT ![w] = "created"] /\ UNCHANGED failed
    \/ failed' = failed \union {w} /\ UNCHANGED thread
NoThread == UNCHANGED <<thread, failed>>

StartDepth ==
    /\ At("start_depth", "start_bokeh")
    /\ IF loopNum.depth /= 0 THEN depth_end' = 0 /\ pthread_create("depth")
       ELSE UNCHANGED depth_end /\ NoThread
    /\ UNCHANGED <<preparation, frameLive, bokeh_end, end_flag, round>>

StartBokeh_unmarked ==                                     \* mutant
    /\ At("start_bokeh", "pool")
    /\ IF loopNum.bokeh /= 0 THEN UNCHANGED bokeh_end /\ pthread_create("bokeh")
       ELSE UNCHANGED bokeh_end /\ NoThread
    /\ frameLive' = FALSE
    /\ UNCHANGED <<preparation, depth_end, end_flag, round>>
StartBokeh ==                                              \* and the return
    /\ At("start_bokeh", "pool")
    /\ IF loopNum.bokeh /= 0 THEN bokeh_end' = 0 /\ pthread_create("bokeh")
       ELSE UNCHANGED bokeh_end /\ NoThread
    /\ frameLive' = FALSE
    /\ UNCHANGED <<preparation, depth_end, end_flag, round>>

\* The images must open, and there must be two of them.
HdrInputs ==
    /\ process = "running" /\ place = "inputs" /\ caseid = 1
    /\ \/ Crash                                            \* assert(fp != NULL)
       \/ /\ At("inputs", "hdr_buffers")
          /\ frameLive' = TRUE
          /\ api' \in {"missing", "closed", "loaded"}      \* sprd_hdr_load_api
          /\ UNCHANGED <<caseid, loopNum, flags, workers>>

\* Copies the images to ION memory, runs the test on the CPU, starts the thread and
\* returns.
HdrStart ==
    \/ /\ process = "running" /\ place = "hdr_buffers"
       /\ Crash                                            \* the API, or memcpy to NULL
    \/ /\ CallWorks
       /\ At("hdr_buffers", "pool")
       /\ pthread_create("hdr")
       /\ frameLive' = FALSE
       /\ UNCHANGED <<preparation, flags, round>>

OtherCase ==
    /\ caseid = 2 /\ At("inputs", "pool")
    /\ UNCHANGED <<preparation, frameLive, flags, workers>>

StartThreadPool ==
    /\ At("pool", IF caseid = 0 THEN "poll_ends" ELSE "poll_flag")
    /\ UNCHANGED <<preparation, frameLive, flags, workers>>

PollEnds ==
    /\ depth_end = 1 /\ bokeh_end = 1
    /\ At("poll_ends", "poll_flag")
    /\ end_flag' = 1
    /\ UNCHANGED <<preparation, frameLive, depth_end, bokeh_end, workers>>

\* Returning from main ends the process and every thread in it.
PollFlag ==
    /\ process = "running" /\ place = "poll_flag" /\ end_flag = 1
    /\ process' = "exited"
    /\ UNCHANGED <<place, preparation, frameLive, flags, workers>>

MainStep ==
    \/ MainStart \/ DepthInputs \/ BokehBuffers \/ ClearFlags \/ StartDepth \/ StartBokeh
    \/ HdrInputs \/ HdrStart \/ OtherCase \/ StartThreadPool \/ PollEnds \/ PollFlag

-----------------------------------------------------------------------------
(***************************************************************************)
(* The test threads.                                                       *)
(***************************************************************************)
Moves(w, p, q) ==
    /\ process = "running" /\ thread[w] = p
    /\ thread' = [thread EXCEPT ![w] = q]
    /\ UNCHANGED <<place, process, preparation, frameLive, failed>>

\* A read through arg: from a dead frame it may also crash.
ReadCrashes(w, p) ==
    /\ process = "running" /\ thread[w] = p /\ ~frameLive
    /\ Crash

\* Init; a depth test without a handle does no rounds, a bokeh test does them all.
Init_vdsp(w) ==
    \/ ReadCrashes(w, "created")
    \/ Moves(w, "created", "looping") /\ UNCHANGED <<round, flags>>
    \/ w = "depth" /\ Moves(w, "created", "closing") /\ UNCHANGED <<round, flags>>

\* The loop reads its number of rounds from the arguments every time.
loopNums(w) == IF frameLive THEN {loopNum[w]} ELSE 0 .. MaxLoops
Round(w) ==
    \/ ReadCrashes(w, "looping")
    \/ process = "running" /\ thread[w] = "looping" /\ Crash       \* fopen fails
    \/ \E n \in loopNums(w) :
          \/ /\ round[w] < n
             /\ Moves(w, "looping", "looping")
             /\ round' = [round EXCEPT ![w] = @ + 1] /\ UNCHANGED flags
          \/ round[w] >= n /\ Moves(w, "looping", "closing") /\ UNCHANGED <<round, flags>>

vdsp_main_depth ==
    \/ Init_vdsp("depth") \/ Round("depth")
    \/ /\ Moves("depth", "closing", "ended")
       /\ depth_end' = 1 /\ UNCHANGED <<round, bokeh_end, end_flag>>

vdsp_main_bokeh ==
    \/ Init_vdsp("bokeh") \/ Round("bokeh")
    \/ /\ Moves("bokeh", "closing", "ended")
       /\ bokeh_end' = 1 /\ UNCHANGED <<round, depth_end, end_flag>>

\* The images and the configuration are static, only arg is in the frame.
vdsp_main ==
    \/ ReadCrashes("hdr", "created")
    \/ Moves("hdr", "created", "closing") /\ UNCHANGED <<round, flags>>
    \/ process = "running" /\ thread["hdr"] = "closing" /\ Crash   \* fwrite(.., NULL)
    \/ /\ Moves("hdr", "closing", "ended")
       /\ end_flag' = 1 /\ UNCHANGED <<round, depth_end, bokeh_end>>

SystemTestNext == MainStep \/ vdsp_main_depth \/ vdsp_main_bokeh \/ vdsp_main

\* Each thread of the process runs as long as it can.
SystemTestSpec ==
    /\ SystemTestInit /\ [][SystemTestNext]_systemTestVars
    /\ WF_systemTestVars(MainStep) /\ WF_systemTestVars(vdsp_main_depth)
    /\ WF_systemTestVars(vdsp_main_bokeh) /\ WF_systemTestVars(vdsp_main)

-----------------------------------------------------------------------------
Asked(w) == IF w = "hdr" THEN caseid = 1 ELSE caseid = 0 /\ loopNum[w] /= 0

(***************************************************************************)
(* The program exits only when every thread the test asked for has done    *)
(* its work: no thread is cut short by the return from main.               *)
(***************************************************************************)
EndsOnlyWhenDone ==
    process = "exited" => \A w \in Workers : Asked(w) => thread[w] = "ended"

(***************************************************************************)
(* A depth, bokeh or HDR test whose threads could be created comes to an   *)
(* end: main does not poll for ever, whatever the numbers of rounds.       *)
(***************************************************************************)
TestEnds ==
    place = "inputs" /\ caseid /= 2 ~> process /= "running" \/ failed /= {}
=============================================================================
