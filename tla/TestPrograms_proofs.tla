------------------------- MODULE TestPrograms_proofs -------------------------
(***************************************************************************)
(* The two programs beside the library: the system test, and the client of *)
(* the compatibility layer.                                                *)
(***************************************************************************)
EXTENDS SystemTest, TestClient, LowestNumber, SequenceTheorems, TLAPS

-----------------------------------------------------------------------------
(***************************************************************************)
(* The system test program never returns from main under one of the        *)
(* threads it was asked to run, for any numbers of rounds.                 *)
(*                                                                         *)
(* Main does not join its threads, it polls depth_end and bokeh_end, which *)
(* are set before the threads exist, and then end_flag, which the HDR      *)
(* thread or main itself sets.  A flag that is 1 therefore means something *)
(* only from a certain place of main on, and the invariant says for each   *)
(* flag from which.                                                        *)
(***************************************************************************)

Places == {"start", "inputs", "bokeh_buffers", "clear_flags", "start_depth",
           "start_bokeh", "hdr_buffers", "pool", "poll_ends", "poll_flag"}
ThreadStates == {"none", "created", "looping", "closing", "ended"}

SystemTestTypes ==
    /\ place \in Places /\ process \in {"running", "exited", "crashed"}
    /\ caseid \in 0 .. 2
    /\ thread \in [Workers -> ThreadStates]

\* The places of the depth and bokeh test, and of the HDR test.
CasesApart ==
    /\ place \in {"bokeh_buffers", "clear_flags", "start_depth", "start_bokeh",
                  "poll_ends"} => caseid = 0
    /\ place = "hdr_buffers" => caseid = 1
    /\ thread["hdr"] /= "none" => caseid = 1 /\ place \in {"pool", "poll_flag"}

Done(w) == Asked(w) => thread[w] = "ended"

\* From which place on a flag tells that its thread is done.
FlagsTell ==
    /\ depth_end = 1 /\ caseid = 0
         /\ place \in {"start_bokeh", "pool", "poll_ends", "poll_flag"} => Done("depth")
    /\ bokeh_end = 1 /\ caseid = 0
         /\ place \in {"pool", "poll_ends", "poll_flag"} => Done("bokeh")
    /\ end_flag = 1 =>
          \/ thread["hdr"] = "ended"
          \/ /\ caseid = 0 /\ place = "poll_flag"
             /\ Done("depth") /\ Done("bokeh")
    /\ process = "exited" => place = "poll_flag" /\ end_flag = 1

SystemTestInv == SystemTestTypes /\ CasesApart /\ FlagsTell

-----------------------------------------------------------------------------
\* A crash changes nothing but that.
LEMMA CrashKeeps ==
    ASSUME SystemTestInv, Crash
    PROVE  SystemTestInv'
BY DEF SystemTestInv, SystemTestTypes, CasesApart, FlagsTell, Done, Asked, Crash,
       preparation, flags, workers

\* The steps of main that start a thread.
LEMMA StartsKeep ==
    ASSUME SystemTestInv, StartDepth \/ StartBokeh \/ HdrStart
    PROVE  SystemTestInv'
<1> USE DEF SystemTestInv, SystemTestTypes, CasesApart, FlagsTell, Done, Asked,
            Places, ThreadStates, Workers, At, preparation, flags, NoThread
<1>1. CASE StartDepth
  BY <1>1 DEF StartDepth, pthread_create
<1>2. CASE StartBokeh
  BY <1>2 DEF StartBokeh, pthread_create
<1>3. CASE HdrStart
  BY <1>3, CrashKeeps DEF HdrStart, pthread_create
<1> QED
  BY <1>1, <1>2, <1>3

\* The other steps of main.
LEMMA MainKeeps ==
    ASSUME SystemTestInv, MainStep
    PROVE  SystemTestInv'
<1> USE DEF SystemTestInv, SystemTestTypes, CasesApart, FlagsTell, Done, Asked,
            Places, Workers, At, preparation, flags, workers
<1>1. CASE MainStart
  <2>1. caseid' \in 0 .. 2 /\ place = "start" /\ end_flag' = 0
    BY <1>1 DEF MainStart
  <2> QED
    BY <1>1, <2>1 DEF MainStart
<1>2. CASE DepthInputs
  BY <1>2, CrashKeeps DEF DepthInputs
<1>3. CASE BokehBuffers
  BY <1>3, CrashKeeps DEF BokehBuffers
<1>4. CASE ClearFlags
  BY <1>4, CrashKeeps DEF ClearFlags
<1>5. CASE HdrInputs
  BY <1>5, CrashKeeps DEF HdrInputs
<1>6. CASE OtherCase
  BY <1>6 DEF OtherCase
<1>7. CASE StartThreadPool
  BY <1>7 DEF StartThreadPool
<1>8. CASE PollEnds
  BY <1>8 DEF PollEnds
<1>9. CASE PollFlag
  BY <1>9 DEF PollFlag
<1> QED
  BY <1>1, <1>2, <1>3, <1>4, <1>5, <1>6, <1>7, <1>8, <1>9, StartsKeep DEF MainStep

\* A thread that has ended stays ended, and the others end by setting a flag.
LEMMA ThreadsKeep ==
    ASSUME SystemTestInv, vdsp_main_depth \/ vdsp_main_bokeh \/ vdsp_main
    PROVE  SystemTestInv'
<1> USE DEF SystemTestInv, SystemTestTypes, CasesApart, FlagsTell, Done, Asked,
            ThreadStates, Workers, Moves, preparation, flags
<1>1. CASE vdsp_main_depth
  BY <1>1, CrashKeeps DEF vdsp_main_depth, Init_vdsp, Round, ReadCrashes
<1>2. CASE vdsp_main_bokeh
  BY <1>2, CrashKeeps DEF vdsp_main_bokeh, Init_vdsp, Round, ReadCrashes
<1>3. CASE vdsp_main
  BY <1>3, CrashKeeps DEF vdsp_main, ReadCrashes
<1> QED
  BY <1>1, <1>2, <1>3

\* The flags mean what main takes them for, in every state.
THEOREM SystemTestInvariant == SystemTestSpec => []SystemTestInv
<1>1. SystemTestInit => SystemTestInv
  BY DEF SystemTestInit, SystemTestInv, SystemTestTypes, CasesApart, FlagsTell,
         Places, ThreadStates, Workers
<1>2. SystemTestInv /\ [SystemTestNext]_systemTestVars => SystemTestInv'
  <2> SUFFICES ASSUME SystemTestInv, [SystemTestNext]_systemTestVars
               PROVE  SystemTestInv'
    OBVIOUS
  <2>1. CASE SystemTestNext
    BY <2>1, MainKeeps, ThreadsKeep DEF SystemTestNext
  <2>2. CASE UNCHANGED systemTestVars
    BY <2>2 DEF systemTestVars, SystemTestInv, SystemTestTypes, CasesApart,
                FlagsTell, Done, Asked
  <2> QED
    BY <2>1, <2>2
<1> QED
  BY <1>1, <1>2, PTL DEF SystemTestSpec

\* main returns only when every thread the test asked for has done its work.
THEOREM EndsOnlyWhenDoneCorrect == SystemTestSpec => []EndsOnlyWhenDone
<1>1. SystemTestInv => EndsOnlyWhenDone
  BY DEF SystemTestInv, SystemTestTypes, CasesApart, FlagsTell, Done, Asked,
         EndsOnlyWhenDone, Workers
<1> QED
  BY <1>1, SystemTestInvariant, PTL

-----------------------------------------------------------------------------
(***************************************************************************)
(* The client program on the compatibility layer, for any number of cells, *)
(* inner objects and calls.  The tests look at no result, so what they use *)
(* is right only because of what the layer leaves in their handles; as     *)
(* long as no open runs out of memory for its wrapper, that is NULL or a   *)
(* wrapper of their own.                                                   *)
(***************************************************************************)

CallPlaces == {"acquire", "load", "send", "unload", "release", "close"}
ClientPlaces ==
    CallPlaces \cup {"none", "alloc", "open", "opening", "image", "free", "end"}
LibTests == [test : {"lib_1", "lib_2"}, acquire : Nat, load : Nat, unload : Nat,
             release : Nat, forever : BOOLEAN]

Wrappers ==
    [live : BOOLEAN, type : {"none", "direct", "server"}, inner : Inners \cup {Null}]

ClientTypes ==
    /\ toCreate \in Seq({"a", "b"} \X LibTests)
    /\ at \in [clientThreads -> ClientPlaces]
    /\ handle \in [clientThreads -> Cells \cup {Null, Garbage}]
    /\ pending \in [clientThreads -> Cells \cup {Null}]
    /\ wrap \in [Cells -> Wrappers]
    /\ inner \in [Inners -> {"free", "direct", "server"}]

\* No thread is created twice, so none loses the handle it has.
CreatedOnce ==
    /\ mainAt = "start" => \A t \in clientThreads : at[t] = "none"
    /\ \A i \in DOMAIN toCreate : at[toCreate[i][1]] = "none"
    /\ \A i, j \in DOMAIN toCreate : toCreate[i][1] = toCreate[j][1] => i = j

\* The cell of an open is in its thread's hands alone.
OpensOwn ==
    /\ \A t \in clientThreads :
          /\ pending[t] /= Null <=> at[t] = "opening"
          /\ at[t] = "opening" => handle[t] = Null /\ wrap[pending[t]].live
    /\ \A t, u \in clientThreads :
          pending[t] /= Null /\ pending[t] = pending[u] => t = u

\* Every other live cell is a whole wrapper, in use or not closed by the service.
Whole(c) == wrap[c].live /\ \A t \in clientThreads : pending[t] /= c
WrappersOwn ==
    /\ \A c \in Cells : Whole(c) =>
          /\ wrap[c].inner \in Inners /\ inner[wrap[c].inner] = wrap[c].type
          /\ wrap[c].type /= "none"
          /\ \/ wrap[c].type = "server"
             \/ \E t \in clientThreads : Holding(t) /\ handle[t] = c
    /\ \A c, d \in Cells : Whole(c) /\ Whole(d) /\ wrap[c].inner = wrap[d].inner => c = d
    /\ \A i \in Inners : inner[i] /= "free" =>
          \E c \in Cells : Whole(c) /\ wrap[c].inner = i
UsersOwn ==
    /\ \A t \in clientThreads : Holding(t) =>
          handle[t] = Null \/ (handle[t] \in Cells /\ Whole(handle[t]))
    /\ \A t, u \in clientThreads :
          Holding(t) /\ Holding(u) /\ handle[t] = handle[u] /\ t /= u => handle[t] = Null

Owning == OpensOwn /\ WrappersOwn /\ UsersOwn
ClientInv == ClientTypes /\ CreatedOnce /\ (~ranOut => Owning)

-----------------------------------------------------------------------------
(***************************************************************************)
(* The cycle of calls.                                                     *)
(***************************************************************************)
LEMMA CallsAre ==
    /\ DOMAIN Calls = 1 .. 7 /\ Len(Calls) = 7
    /\ Calls[1] = "open" /\ Calls[2] = "acquire" /\ Calls[3] = "load" /\ Calls[4] = "send"
    /\ Calls[5] = "unload" /\ Calls[6] = "release" /\ Calls[7] = "close"
BY DEF Calls

\* A call before the close is followed by another, whatever its work skips.
LEMMA FollowingCall ==
    ASSUME NEW t, NEW call \in (CallPlaces \cup {"open"}) \ {"close"}
    PROVE  Following(t, call) \in CallPlaces
<1> DEFINE i == CHOOSE i \in DOMAIN Calls : Calls[i] = call
           later == {j \in i + 1 .. Len(Calls) : Times(t)[Calls[j]] > 0}
           j == CHOOSE j \in later : \A k \in later : j <= k
<1>1. i \in 1 .. 6
  <2>1. \E n \in DOMAIN Calls : Calls[n] = call
    BY CallsAre DEF CallPlaces
  <2>2. i \in DOMAIN Calls /\ Calls[i] = call
    BY <2>1
  <2> HIDE DEF i
  <2> QED
    BY <2>2, CallsAre DEF CallPlaces
<1> HIDE DEF i
<1>2. 7 \in later
  BY <1>1, CallsAre DEF Times
<1>3. later \in SUBSET Nat /\ later \subseteq 2 .. 7
  BY <1>1, CallsAre
<1> HIDE DEF later
<1>4. j \in later
  <2>1. \E n \in later : \A m \in later : n <= m
    BY <1>2, <1>3, LeastElement
  <2> QED
    BY <2>1
<1>5. Following(t, call) = Calls[j]
  BY <1>2 DEF Following, i, later, j
<1>6. j \in 2 .. 7
  BY <1>3, <1>4
<1> HIDE DEF j
<1> QED
  BY <1>5, <1>6, CallsAre DEF CallPlaces

\* The close ends the cycle.
LEMMA FollowingClose ==
    ASSUME NEW t
    PROVE  Following(t, "close") \in {"open", "end"}
<1> DEFINE i == CHOOSE i \in DOMAIN Calls : Calls[i] = "close"
           later == {j \in i + 1 .. Len(Calls) : Times(t)[Calls[j]] > 0}
<1>1. i = 7
  <2>1. i \in DOMAIN Calls /\ Calls[i] = "close"
    BY CallsAre
  <2> HIDE DEF i
  <2> QED
    BY <2>1, CallsAre
<1> HIDE DEF i
<1>2. later = {}
  BY <1>1, CallsAre
<1> HIDE DEF later
<1>3. Following(t, "close") = IF work[t].forever THEN "open" ELSE "end"
  BY <1>2 DEF Following, i, later
<1> QED
  BY <1>3

-----------------------------------------------------------------------------
(***************************************************************************)
(* What the layer does to wrappers and inner objects.                      *)
(***************************************************************************)
Opening(t) == at[t] = "opening"

\* A step that opens and closes nothing.
LEMMA NothingOpened ==
    ASSUME ClientTypes, Owning, UNCHANGED <<heap, pending>>,
           \A t \in clientThreads :
              /\ Holding(t)' = Holding(t) /\ Opening(t)' = Opening(t)
              /\ Holding(t) \/ Opening(t) => handle'[t] = handle[t]
    PROVE  Owning'
<1>1. wrap' = wrap /\ inner' = inner /\ pending' = pending
  BY DEF heap
<1>2. OpensOwn'
  BY <1>1 DEF Owning, OpensOwn, Opening
<1>3. \A c : Whole(c)' = Whole(c)
  BY <1>1 DEF Whole
<1>4. WrappersOwn'
  BY <1>1, <1>3 DEF Owning, WrappersOwn
<1>5. UsersOwn'
  BY <1>3 DEF Owning, UsersOwn
<1> QED
  BY <1>2, <1>4, <1>5 DEF Owning

\* malloc places a wrapper in a cell that nobody has.
LEMMA WrapperPlaced ==
    ASSUME ClientTypes, Owning, NEW t \in clientThreads, at[t] = "open",
           NEW c \in Cells, ~wrap[c].live,
           wrap' = [wrap EXCEPT ![c].live = TRUE], inner' = inner,
           pending' = [pending EXCEPT ![t] = c],
           handle' = [handle EXCEPT ![t] = Null],
           at' = [at EXCEPT ![t] = "opening"]
    PROVE  Owning'
<1> USE DEF ClientTypes, Holding, Wrappers
<1>1. /\ at'[t] = "opening" /\ pending'[t] = c /\ handle'[t] = Null
      /\ \A u \in clientThreads : u /= t =>
            at'[u] = at[u] /\ pending'[u] = pending[u] /\ handle'[u] = handle[u]
      /\ c /= Null
  BY TestClientAssumption
<1>2. /\ wrap'[c].live /\ \A d \in Cells : d /= c => wrap'[d] = wrap[d]
      /\ \A d \in Cells : wrap'[d].inner = wrap[d].inner
  OBVIOUS
<1>3. \A u \in clientThreads : pending[u] /= c
  BY <1>1 DEF Owning, OpensOwn
<1>4. OpensOwn'
  BY <1>1, <1>2, <1>3 DEF Owning, OpensOwn
<1>5. ~Whole(c) /\ ~Whole(c)' /\ \A d \in Cells : Whole(d)' = Whole(d)
  <2>1. pending[t] = Null
    BY DEF Owning, OpensOwn
  <2> QED
    BY <1>1, <1>2, <2>1, TestClientAssumption DEF Whole
<1>6. \A u \in clientThreads : Holding(u)' = Holding(u) /\ (Holding(u) => u /= t)
  BY <1>1
<1>7. WrappersOwn'
  BY <1>1, <1>2, <1>5, <1>6 DEF Owning, WrappersOwn
<1>8. UsersOwn'
  BY <1>1, <1>5, <1>6 DEF Owning, UsersOwn
<1> QED
  BY <1>4, <1>7, <1>8 DEF Owning

\* The inner object makes it whole, or the wrapper goes and the handle stays NULL.
LEMMA InnerOpened ==
    ASSUME ClientTypes, Owning, NEW t \in clientThreads, at[t] = "opening",
           OpenInner(t),
           NEW p \in ClientPlaces, at' = [at EXCEPT ![t] = p],
           p \in CallPlaces \/ (p = "free" /\ handle'[t] = Null)
    PROVE  Owning'
<1> USE DEF ClientTypes, Holding, Wrappers
<1>0. PICK c \in Cells : c = pending[t]
  BY DEF Owning, OpensOwn
<1>1. /\ c \in Cells /\ wrap[c].live /\ handle[t] = Null
      /\ \A u \in clientThreads : u /= t => pending[u] /= c
      /\ ~Whole(c)
  BY <1>0 DEF Owning, OpensOwn, Whole
<1>2. /\ pending' = [pending EXCEPT ![t] = Null]
      /\ pending'[t] = Null
      /\ \A u \in clientThreads : u /= t =>
            at'[u] = at[u] /\ pending'[u] = pending[u]
      /\ at'[t] = p /\ p /= "opening"
  BY DEF OpenInner, CallPlaces
<1>3. CASE \E i \in {j \in Inners : inner[j] = "free"} :
             /\ inner' = [inner EXCEPT ![i] = Kind(t)]
             /\ wrap' = [wrap EXCEPT ![c] =
                            [live |-> TRUE, type |-> Kind(t), inner |-> i]]
             /\ handle' = [handle EXCEPT ![t] = c]
  <2>1. PICK i \in Inners : /\ inner[i] = "free"
             /\ inner' = [inner EXCEPT ![i] = Kind(t)]
             /\ wrap' = [wrap EXCEPT ![c] =
                            [live |-> TRUE, type |-> Kind(t), inner |-> i]]
             /\ handle' = [handle EXCEPT ![t] = c]
    BY <1>3
  <2>2. /\ inner'[i] = Kind(t) /\ Kind(t) \in {"direct", "server"}
        /\ \A j \in Inners : j /= i => inner'[j] = inner[j]
        /\ wrap'[c].live /\ wrap'[c].type = Kind(t) /\ wrap'[c].inner = i
        /\ \A d \in Cells : d /= c => wrap'[d] = wrap[d]
        /\ handle'[t] = c
        /\ \A u \in clientThreads : u /= t => handle'[u] = handle[u]
    BY <1>1, <2>1 DEF Kind
  <2>3. p \in CallPlaces /\ Holding(t)' /\ ~Holding(t)
        /\ \A u \in clientThreads : u /= t => Holding(u)' = Holding(u)
    BY <1>1, <1>2, <2>2, TestClientAssumption DEF CallPlaces
  <2>4. Whole(c)' /\ \A d \in Cells : d /= c => Whole(d)' = Whole(d)
    BY <1>1, <1>2, <2>2, TestClientAssumption, <1>0 DEF Whole
  <2>5. OpensOwn'
    BY <1>1, <1>2, <2>2 DEF Owning, OpensOwn
  <2>6. \A d \in Cells : Whole(d) => wrap[d].inner /= i
    BY <2>1 DEF Owning, WrappersOwn
  <2>7. WrappersOwn'
    <3>1. ASSUME NEW d \in Cells, Whole(d)'
          PROVE  /\ wrap'[d].inner \in Inners /\ inner'[wrap'[d].inner] = wrap'[d].type
                 /\ wrap'[d].type /= "none"
                 /\ \/ wrap'[d].type = "server"
                    \/ \E u \in clientThreads : Holding(u)' /\ handle'[u] = d
      <4>1. CASE d = c
        BY <2>2, <2>3, <4>1
      <4>2. CASE d /= c
        <5>1. Whole(d) /\ wrap'[d] = wrap[d] /\ wrap[d].inner /= i
          BY <2>2, <2>4, <2>6, <3>1, <4>2
        <5>2. ASSUME NEW u \in clientThreads, Holding(u), handle[u] = d
              PROVE  Holding(u)' /\ handle'[u] = d
          BY <2>2, <2>3, <5>2
        <5> QED
          BY <2>2, <5>1, <5>2 DEF Owning, WrappersOwn
      <4> QED
        BY <4>1, <4>2
    <3>2. \A d, e \in Cells :
             Whole(d)' /\ Whole(e)' /\ wrap'[d].inner = wrap'[e].inner => d = e
      BY <2>2, <2>4, <2>6 DEF Owning, WrappersOwn
    <3>3. \A j \in Inners : inner'[j] /= "free" =>
             \E d \in Cells : Whole(d)' /\ wrap'[d].inner = j
      <4> SUFFICES ASSUME NEW j \in Inners, inner'[j] /= "free"
                   PROVE  \E d \in Cells : Whole(d)' /\ wrap'[d].inner = j
        OBVIOUS
      <4>1. CASE j = i
        BY <1>1, <2>2, <2>4, <4>1
      <4>2. CASE j /= i
        <5>1. PICK d \in Cells : Whole(d) /\ wrap[d].inner = j
          BY <2>2, <4>2 DEF Owning, WrappersOwn
        <5> QED
          BY <1>1, <2>2, <2>4, <5>1
      <4> QED
        BY <4>1, <4>2
    <3> QED
      BY <3>1, <3>2, <3>3 DEF WrappersOwn
  <2>8. UsersOwn'
    <3>1. \A u \in clientThreads : Holding(u) => handle[u] /= c
      BY <1>1, TestClientAssumption DEF Owning, UsersOwn
    <3> QED
      BY <1>1, <2>2, <2>3, <2>4, <3>1 DEF Owning, UsersOwn
  <2> QED
    BY <2>5, <2>7, <2>8 DEF Owning
<1>4. CASE wrap' = [wrap EXCEPT ![c].live = FALSE] /\ UNCHANGED <<handle, inner>>
  <2>1. /\ ~wrap'[c].live /\ \A d \in Cells : d /= c => wrap'[d] = wrap[d]
        /\ handle' = handle /\ inner' = inner /\ handle'[t] = Null
    BY <1>1, <1>4
  <2>2. ~Holding(t) /\ \A u \in clientThreads : u /= t => Holding(u)' = Holding(u)
    BY <1>2
  <2>3. ~Whole(c)' /\ \A d \in Cells : d /= c => Whole(d)' = Whole(d)
    BY <1>1, <1>2, <2>1, TestClientAssumption, <1>0 DEF Whole
  <2>4. OpensOwn'
    BY <1>1, <1>2, <2>1 DEF Owning, OpensOwn
  <2>5. WrappersOwn'
    <3>1. \A u \in clientThreads : Holding(u) => Holding(u)'
      BY <2>2
    <3>2. \A d \in Cells : Whole(d)' => Whole(d) /\ wrap'[d] = wrap[d]
      BY <2>1, <2>3
    <3>3. \A d \in Cells : Whole(d) => Whole(d)' /\ wrap'[d] = wrap[d]
      BY <1>1, <2>1, <2>3
    <3> QED
      BY <2>1, <3>1, <3>2, <3>3 DEF Owning, WrappersOwn
  <2>6. UsersOwn'
    BY <1>1, <2>1, <2>2, <2>3 DEF Owning, UsersOwn
  <2> QED
    BY <2>4, <2>5, <2>6 DEF Owning
<1> QED
  BY <1>0, <1>3, <1>4 DEF OpenInner

\* The close of a handle: the wrapper goes with what it wraps, or the service
\* refuses and the thread forgets both.
LEMMA WrapperClosed ==
    ASSUME ClientTypes, Owning, NEW t \in clientThreads, at[t] = "close",
           CloseWrapper(t), pending' = pending, handle' = handle,
           NEW p \in ClientPlaces, at' = [at EXCEPT ![t] = p],
           p \notin CallPlaces \cup {"opening"}
    PROVE  Owning'
<1> USE DEF ClientTypes, Holding, Wrappers
<1> DEFINE c == handle[t]
<1>1. Holding(t) /\ ~Holding(t)'
      /\ \A u \in clientThreads : u /= t => Holding(u)' = Holding(u)
  BY DEF CallPlaces
<1>2. at'[t] = p /\ \A u \in clientThreads : u /= t => at'[u] = at[u]
  OBVIOUS
<1>3. UNCHANGED heap \/ (c \in Cells /\ Whole(c))
  BY <1>1 DEF CloseWrapper, Owning, UsersOwn
<1>4. CASE UNCHANGED heap /\ (c = Null \/ wrap[c].type = "server")
  <2>1. wrap' = wrap /\ inner' = inner
    BY <1>4 DEF heap
  <2>2. OpensOwn'
    BY <1>2, <2>1 DEF Owning, OpensOwn, CallPlaces
  <2>3. \A d : Whole(d)' = Whole(d)
    BY <2>1 DEF Whole
  <2>4. WrappersOwn'
    <3>1. \A d \in Cells : Whole(d) =>
             wrap[d].type = "server"
                \/ \E u \in clientThreads : u /= t /\ Holding(u) /\ handle[u] = d
      BY <1>4, TestClientAssumption DEF Owning, WrappersOwn
    <3> QED
      BY <1>1, <2>1, <2>3, <3>1 DEF Owning, WrappersOwn
  <2>5. UsersOwn'
    BY <1>1, <2>3 DEF Owning, UsersOwn
  <2> QED
    BY <2>2, <2>4, <2>5 DEF Owning
<1>5. CASE /\ c \in Cells /\ Whole(c)
           /\ inner' = [inner EXCEPT ![wrap[c].inner] = "free"]
           /\ wrap' = [wrap EXCEPT ![c].live = FALSE]
  <2> DEFINE i == wrap[c].inner
  <2>1. i \in Inners /\ \A d \in Cells : Whole(d) /\ d /= c => wrap[d].inner /= i
    BY <1>5 DEF Owning, WrappersOwn
  <2>2. /\ inner'[i] = "free" /\ \A j \in Inners : j /= i => inner'[j] = inner[j]
        /\ ~wrap'[c].live /\ \A d \in Cells : d /= c => wrap'[d] = wrap[d]
    BY <1>5, <2>1
  <2>3. ~Whole(c)' /\ \A d \in Cells : d /= c => Whole(d)' = Whole(d)
    BY <2>2 DEF Whole
  <2>4. OpensOwn'
    <3>1. \A u \in clientThreads : pending[u] /= c
      BY <1>5 DEF Whole
    <3> QED
      BY <1>2, <2>2, <3>1 DEF Owning, OpensOwn, CallPlaces
  <2> HIDE DEF i
  <2>5. WrappersOwn'
    <3>1. \A d \in Cells : Whole(d)' =>
             d /= c /\ Whole(d) /\ wrap'[d] = wrap[d] /\ wrap[d].inner /= i
      BY <2>1, <2>2, <2>3
    <3>2. ASSUME NEW d \in Cells, Whole(d)'
          PROVE  wrap[d].type = "server"
                    \/ \E u \in clientThreads : Holding(u)' /\ handle[u] = d
      <4>1. CASE wrap[d].type = "server"
        BY <4>1
      <4>2. CASE wrap[d].type /= "server"
        <5>1. PICK u \in clientThreads : Holding(u) /\ handle[u] = d
          BY <3>1, <3>2, <4>2 DEF Owning, WrappersOwn
        <5> QED
          BY <1>1, <3>1, <3>2, <5>1
      <4> QED
        BY <4>1, <4>2
    <3>3. ASSUME NEW j \in Inners, inner'[j] /= "free"
          PROVE  \E d \in Cells : Whole(d)' /\ wrap'[d].inner = j
      <4>1. j /= i /\ inner'[j] = inner[j]
        BY <2>2, <3>3
      <4>2. PICK d \in Cells : Whole(d) /\ wrap[d].inner = j
        BY <3>3, <4>1 DEF Owning, WrappersOwn
      <4>3. d /= c
        BY <4>1, <4>2 DEF i
      <4> QED
        BY <2>2, <2>3, <4>2, <4>3
    <3> QED
      BY <2>2, <3>1, <3>2, <3>3 DEF Owning, WrappersOwn
  <2>6. UsersOwn'
    <3>1. \A u \in clientThreads : u /= t /\ Holding(u) => handle[u] /= c
      BY <1>1, <1>5, TestClientAssumption DEF Owning, UsersOwn
    <3> QED
      BY <1>1, <2>2, <2>3, <3>1 DEF Owning, UsersOwn
  <2> QED
    BY <2>4, <2>5, <2>6 DEF Owning
<1> QED
  BY <1>1, <1>3, <1>4, <1>5 DEF CloseWrapper, Owning, UsersOwn

-----------------------------------------------------------------------------
(***************************************************************************)
(* The steps.                                                              *)
(***************************************************************************)
Distinct(s) == \A i, j \in DOMAIN s : s[i][1] = s[j][1] => i = j

LEMMA OneOrTwo ==
    ASSUME NEW S
    PROVE  /\ \A x \in S : <<x>> \in Seq(S) /\ Distinct(<<x>>)
           /\ \A x, y \in S : x[1] /= y[1] =>
                 <<x, y>> \in Seq(S) /\ Distinct(<<x, y>>)
BY DEF Distinct

\* A case asks for each thread once.
LEMMA CaseThreads ==
    ASSUME NEW number \in 0 .. 10, NEW loadtime \in Nat, NEW two \in BOOLEAN,
           NEW acquire \in Nat, NEW release \in Nat
    PROVE  /\ Case(number, loadtime, two, acquire, release) \in
                  Seq({"a", "b"} \X LibTests)
           /\ Distinct(Case(number, loadtime, two, acquire, release))
<1> DEFINE result == Case(number, loadtime, two, acquire, release)
           S == Seq({"a", "b"} \X LibTests)
           lib1(loads, forever) == Lib1(loads, acquire, release, forever)
<1>1. ASSUME NEW loads \in Nat, NEW forever \in BOOLEAN
      PROVE  <<"a", lib1(loads, forever)>> \in {"a", "b"} \X LibTests
             /\ <<"b", lib1(loads, forever)>> \in {"a", "b"} \X LibTests
  BY DEF Lib1, LibTests
<1>2. Lib2 \in LibTests
  BY DEF Lib2, LibTests
<1> HIDE DEF lib1
<1>3. \A loads \in Nat, forever \in BOOLEAN :
         <<<<"a", lib1(loads, forever)>>>> \in S
            /\ Distinct(<<<<"a", lib1(loads, forever)>>>>)
  BY <1>1, OneOrTwo
<1>4. \A m \in Nat, n \in Nat :
         /\ <<<<"a", lib1(m, FALSE)>>, <<"b", lib1(n, FALSE)>>>> \in S
         /\ Distinct(<<<<"a", lib1(m, FALSE)>>, <<"b", lib1(n, FALSE)>>>>)
         /\ <<<<"b", lib1(m, FALSE)>>, <<"a", lib1(n, FALSE)>>>> \in S
         /\ Distinct(<<<<"b", lib1(m, FALSE)>>, <<"a", lib1(n, FALSE)>>>>)
  BY <1>1, OneOrTwo
<1>5. <<<<"a", Lib2>>>> \in S /\ Distinct(<<<<"a", Lib2>>>>)
  <2>1. <<"a", Lib2>> \in {"a", "b"} \X LibTests
    BY <1>2
  <2> QED
    BY <2>1, OneOrTwo
<1>6. << >> \in S /\ Distinct(<< >>)
  BY DEF Distinct
<1> HIDE DEF S
<1> DEFINE c0 == <<<<"a", lib1(1, FALSE)>>>>
           c12 == <<<<"a", lib1(loadtime, FALSE)>>, <<"b", lib1(loadtime, FALSE)>>>>
           c3 == <<<<"b", lib1(loadtime, FALSE)>>, <<"a", lib1(2 * loadtime, FALSE)>>>>
           c4 == <<<<"a", lib1(IF two THEN 2 * loadtime ELSE loadtime, FALSE)>>>>
           c5 == <<<<"a", lib1(0, FALSE)>>>>
           c67 == <<<<"a", lib1(1, TRUE)>>>>
           c8 == <<<<"a", Lib2>>>>
           c9 == << >>
<1>7. result = CASE number = 0 -> c0 [] number \in 1 .. 2 -> c12 [] number = 3 -> c3
                 [] number = 4 -> c4 [] number = 5 -> c5 [] number \in 6 .. 7 -> c67
                 [] number = 8 -> c8 [] OTHER -> c9
  BY Zenon DEF Case, lib1
<1>8. /\ c0 \in S /\ Distinct(c0) /\ c12 \in S /\ Distinct(c12)
      /\ c3 \in S /\ Distinct(c3) /\ c4 \in S /\ Distinct(c4)
      /\ c5 \in S /\ Distinct(c5) /\ c67 \in S /\ Distinct(c67)
      /\ c8 \in S /\ Distinct(c8) /\ c9 \in S /\ Distinct(c9)
  <2>1. 2 * loadtime \in Nat /\ (IF two THEN 2 * loadtime ELSE loadtime) \in Nat
    OBVIOUS
  <2>2. c0 \in S /\ Distinct(c0) /\ c5 \in S /\ Distinct(c5)
        /\ c67 \in S /\ Distinct(c67)
    BY <1>3
  <2>3. c12 \in S /\ Distinct(c12)
    BY <1>4
  <2>4. c3 \in S /\ Distinct(c3)
    BY <1>4, <2>1
  <2>5. c4 \in S /\ Distinct(c4)
    BY <1>3, <2>1
  <2> QED
    BY <1>5, <1>6, <2>2, <2>3, <2>4, <2>5
<1> HIDE DEF result, c0, c12, c3, c4, c5, c67, c8, c9
<1>9. result \in S /\ Distinct(result)
  BY <1>7, <1>8
<1> QED
  BY <1>9 DEF result, S

\* A step of thread t changes the place of no other thread.
OwnPlace(t) == \E p \in ClientPlaces : at' = [at EXCEPT ![t] = p]

LEMMA PlaceSame ==
    ASSUME ClientTypes, NEW t, at' = at
    PROVE  OwnPlace(t)
<1>1. CASE t \in clientThreads
  <2>1. at[t] \in ClientPlaces /\ at' = [at EXCEPT ![t] = at[t]]
    BY <1>1 DEF ClientTypes
  <2> QED
    BY <2>1 DEF OwnPlace
<1>2. CASE t \notin clientThreads
  <2>1. at' = [at EXCEPT ![t] = "none"] /\ "none" \in ClientPlaces
    BY <1>2 DEF ClientTypes, ClientPlaces
  <2> QED
    BY <2>1 DEF OwnPlace
<1> QED
  BY <1>1, <1>2

\* What the steps of a thread do to the types.
LEMMA LiveTypes ==
    ASSUME ClientTypes, NEW c \in Cells, NEW l \in BOOLEAN
    PROVE  [wrap EXCEPT ![c].live = l] \in [Cells -> Wrappers]
<1>1. wrap[c] \in Wrappers
  BY DEF ClientTypes
<1>2. [wrap[c] EXCEPT !.live = l] \in Wrappers
  BY <1>1 DEF Wrappers
<1> QED
  BY <1>2 DEF ClientTypes

LEMMA CloseTypes ==
    ASSUME ClientTypes, NEW t \in clientThreads, CloseWrapper(t)
    PROVE  /\ wrap' \in [Cells -> Wrappers]
           /\ inner' \in [Inners -> {"free", "direct", "server"}]
<1>1. CASE UNCHANGED heap
  BY <1>1 DEF ClientTypes, heap
<1>2. CASE ~UNCHANGED heap
  <2>1. /\ inner' = [inner EXCEPT ![wrap[handle[t]].inner] = "free"]
        /\ wrap' = [wrap EXCEPT ![handle[t]].live = FALSE]
    BY <1>2 DEF ClientTypes, CloseWrapper
  <2>2. CASE handle[t] \in Cells
    BY <2>1, <2>2, LiveTypes DEF ClientTypes
  <2>3. CASE handle[t] \notin Cells
    BY <2>1, <2>3 DEF ClientTypes
  <2> QED
    BY <2>2, <2>3
<1> QED
  BY <1>1, <1>2

LEMMA WrapperTypes ==
    ASSUME ClientTypes, NEW t \in clientThreads, NEW next, NEW p \in ClientPlaces,
           OpenWrapper(t, next, p)
    PROVE  ClientTypes' /\ OwnPlace(t) /\ UNCHANGED <<mainAt, toCreate>> /\ at[t] = "open"
<1>1. wrap' \in [Cells -> Wrappers]
  <2>1. wrap' = wrap \/ \E c \in Cells : wrap' = [wrap EXCEPT ![c].live = TRUE]
    BY DEF OpenWrapper
  <2> QED
    BY <2>1, LiveTypes DEF ClientTypes
<1>3. ClientTypes'
  BY <1>1 DEF ClientTypes, OpenWrapper, ClientPlaces
<1>2. OwnPlace(t)
  BY DEF OpenWrapper, OwnPlace, ClientPlaces
<1> QED
  BY <1>2, <1>3 DEF OpenWrapper, In

LEMMA InnerTypes ==
    ASSUME ClientTypes, NEW t \in clientThreads, OpenInner(t)
    PROVE  /\ wrap' \in [Cells -> Wrappers]
           /\ inner' \in [Inners -> {"free", "direct", "server"}]
           /\ handle' \in [clientThreads -> Cells \cup {Null, Garbage}]
           /\ pending' \in [clientThreads -> Cells \cup {Null}]
<1>1. Kind(t) \in {"direct", "server"}
  BY DEF Kind
<1>2. wrap' \in [Cells -> Wrappers]
  <2>1. ASSUME NEW i \in Inners,
               wrap' = [wrap EXCEPT ![pending[t]] =
                           [live |-> TRUE, type |-> Kind(t), inner |-> i]]
        PROVE  wrap' \in [Cells -> Wrappers]
    <3>1. [live |-> TRUE, type |-> Kind(t), inner |-> i] \in Wrappers
      BY <1>1 DEF Wrappers
    <3> QED
      BY <2>1, <3>1 DEF ClientTypes
  <2>2. ASSUME wrap' = [wrap EXCEPT ![pending[t]].live = FALSE]
        PROVE  wrap' \in [Cells -> Wrappers]
    <3>1. CASE pending[t] \in Cells
      BY <2>2, <3>1, LiveTypes
    <3>2. CASE pending[t] \notin Cells
      BY <2>2, <3>2 DEF ClientTypes
    <3> QED
      BY <3>1, <3>2
  <2> QED
    BY <2>1, <2>2 DEF OpenInner
<1> QED
  BY <1>1, <1>2 DEF ClientTypes, OpenInner

LEMMA ThreadTypes ==
    ASSUME ClientTypes, NEW t \in {"a", "b"}, LibTest(t)
    PROVE  ClientTypes' /\ OwnPlace(t) /\ UNCHANGED <<mainAt, toCreate>> /\ at[t] /= "none"
<1>0. t \in clientThreads /\ CallPlaces \subseteq ClientPlaces
      /\ {"open", "end", "opening"} \subseteq ClientPlaces
  BY DEF clientThreads, ClientPlaces
<1>1. CASE AllocIon(t)
  <2>1. CASE Crashes
    BY <1>0, <1>1, <2>1, PlaceSame DEF ClientTypes, Crashes, threadVars, heap, AllocIon, In
  <2>2. CASE ~Crashes
    <3>1. at' = [at EXCEPT ![t] = "open"] /\ UNCHANGED <<mainAt, toCreate, heap, pending>>
          /\ handle' = [handle EXCEPT ![t] = IF work[t].test = "lib_1" THEN Null ELSE @]
      BY <1>1, <2>2 DEF AllocIon, Goes
    <3> QED
      BY <1>0, <1>1, <3>1 DEF ClientTypes, heap, OwnPlace, AllocIon, In
  <2> QED
    BY <2>1, <2>2
<1>2. CASE OpenWrapper(t, Times(t), Following(t, "open"))
  <2>1. Following(t, "open") \in ClientPlaces
    BY <1>0, FollowingCall DEF CallPlaces
  <2> QED
    BY <1>0, <1>2, <2>1, WrapperTypes
<1>3. CASE Opened(t)
  <2>1. Following(t, "open") \in ClientPlaces
    BY <1>0, FollowingCall DEF CallPlaces
  <2>2. /\ at' = [at EXCEPT ![t] = Following(t, "open")] /\ UNCHANGED <<mainAt, toCreate>>
        /\ OpenInner(t)
    BY <1>3 DEF Opened, Goes
  <2> QED
    BY <1>0, <1>3, <2>1, <2>2, InnerTypes DEF ClientTypes, OwnPlace, Opened, In
<1>4. CASE Call(t)
  <2>1. Following(t, at[t]) \in ClientPlaces
    BY <1>0, <1>4, FollowingCall DEF Call, CallPlaces
  <2>2. CASE at' = at
    BY <1>0, <1>4, <2>2, PlaceSame DEF ClientTypes, Call, Crashes, threadVars, heap
  <2>3. CASE at' = [at EXCEPT ![t] = Following(t, at[t])]
    BY <1>0, <1>4, <2>1, <2>3 DEF ClientTypes, Call, Crashes, threadVars, heap, OwnPlace
  <2> QED
    BY <1>4, <2>2, <2>3 DEF Call, Goes, Crashes, threadVars
<1>5. CASE Close(t)
  <2>1. Following(t, "close") \in ClientPlaces
    BY <1>0, FollowingClose
  <2>2. CASE Crashes
    BY <1>0, <1>5, <2>2, PlaceSame DEF ClientTypes, Crashes, threadVars, heap, Close, In
  <2>3. CASE ~Crashes
    <3>1. /\ at' = [at EXCEPT ![t] = Following(t, "close")]
          /\ UNCHANGED <<mainAt, toCreate, handle, pending>>
          /\ (Use(t) /\ CloseWrapper(t)) \/ UNCHANGED heap
      BY <1>5, <2>3 DEF Close, Goes
    <3> QED
      BY <1>0, <1>5, <2>1, <3>1, CloseTypes DEF ClientTypes, heap, OwnPlace, Close, In
  <2> QED
    BY <2>2, <2>3
<1> QED
  BY <1>1, <1>2, <1>3, <1>4, <1>5 DEF LibTest

LEMMA FaceTypes ==
    ASSUME ClientTypes, thread_faceid
    PROVE  /\ ClientTypes' /\ OwnPlace("main") /\ UNCHANGED <<mainAt, toCreate>>
           /\ at["main"] /= "none"
<1>0. "main" \in clientThreads
      /\ {"end", "open", "free", "send", "close"} \subseteq ClientPlaces
  BY DEF clientThreads, ClientPlaces, CallPlaces
<1>1. CASE In("main", "image") /\ Crashes
  BY <1>0, <1>1, PlaceSame DEF ClientTypes, Crashes, threadVars, heap, In
<1>2. CASE OpenWrapper("main", [free |-> 0], "free")
  BY <1>0, <1>2, WrapperTypes
<1>3. CASE /\ In("main", "opening") /\ OpenInner("main")
           /\ FaceGoes(IF handle'["main"] = Null THEN "free" ELSE "send", 3)
  <2>1. OwnPlace("main") /\ ClientTypes'
    BY <1>0, <1>3, InnerTypes DEF ClientTypes, OwnPlace, FaceGoes
  <2> QED
    BY <1>3, <2>1 DEF FaceGoes, In
<1>4. CASE In("main", "close") /\ CloseWrapper("main") /\ FaceGoes("free", 3)
           /\ UNCHANGED <<handle, pending>>
  <2>1. wrap' \in [Cells -> Wrappers]
        /\ inner' \in [Inners -> {"free", "direct", "server"}]
    BY <1>0, <1>4, CloseTypes
  <2> QED
    BY <1>0, <1>4, <2>1 DEF ClientTypes, OwnPlace, FaceGoes, In
<1>5. CASE /\ \E here \in {"image", "send", "free"} : In("main", here)
           /\ \E p \in {"end", "open", "close"}, n \in 0 .. 3 : FaceGoes(p, n)
           /\ UNCHANGED <<handle, heap, pending>>
  <2>1. PICK p \in {"end", "open", "close"} : at' = [at EXCEPT !["main"] = p]
    BY <1>5 DEF FaceGoes
  <2>2. p \in ClientPlaces
    BY <1>0
  <2>3. UNCHANGED <<handle, wrap, inner, pending, mainAt, toCreate>>
        /\ at["main"] /= "none"
    BY <1>5 DEF FaceGoes, In, heap
  <2>4. ClientTypes'
    BY <1>0, <2>1, <2>2, <2>3 DEF ClientTypes
  <2> QED
    BY <2>1, <2>2, <2>3, <2>4 DEF OwnPlace
<1> QED
  BY <1>1, <1>2, <1>3, <1>4, <1>5 DEF thread_faceid

\* And those of main.
LEMMA MainTypes ==
    ASSUME ClientTypes, CreatedOnce, ChooseCase \/ CreateThread \/ MainReturns
    PROVE  ClientTypes' /\ CreatedOnce'
<1>0. {"image", "alloc"} \subseteq ClientPlaces /\ clientThreads = {"a", "b", "main"}
  BY DEF ClientPlaces, clientThreads
<1>1. CASE ChooseCase
  <2>1. PICK number \in 0 .. 10, loadtime \in 0 .. MaxTimes, two \in BOOLEAN,
             acquire \in 0 .. MaxTimes, release \in 0 .. MaxTimes :
          /\ toCreate' = Case(number, loadtime, two, acquire, release)
          /\ \/ at' = [at EXCEPT !.main = "image"] /\ mainAt' = "face"
             \/ mainAt' = "create" /\ at' = at
    BY <1>1 DEF ChooseCase
  <2>2. toCreate' \in Seq({"a", "b"} \X LibTests) /\ Distinct(toCreate')
    <3>1. loadtime \in Nat /\ acquire \in Nat /\ release \in Nat
      BY TestClientAssumption
    <3> QED
      BY <2>1, <3>1, CaseThreads
  <2>3. ClientTypes'
    <3>1. at' \in [clientThreads -> ClientPlaces]
      BY <1>0, <2>1 DEF ClientTypes
    <3>2. UNCHANGED <<handle, wrap, inner, pending>>
      BY <1>1 DEF ChooseCase, heap
    <3> QED
      BY <2>2, <3>1, <3>2 DEF ClientTypes
  <2>4. \A t \in {"a", "b"} : at'[t] = "none"
    BY <1>0, <1>1, <2>1 DEF ChooseCase, CreatedOnce, ClientTypes
  <2>5. \A i \in DOMAIN toCreate' : toCreate'[i][1] \in {"a", "b"}
    BY <2>2
  <2> QED
    BY <2>1, <2>2, <2>3, <2>4, <2>5 DEF CreatedOnce, Distinct
<1>2. CASE CreateThread
  <2> DEFINE h == Head(toCreate)[1]
  <2>1. /\ toCreate' \in Seq({"a", "b"} \X LibTests)
        /\ DOMAIN toCreate = 1 .. Len(toCreate) /\ Len(toCreate) \in Nat \ {0}
        /\ DOMAIN toCreate' = 1 .. (Len(toCreate) - 1)
        /\ \A i \in 1 .. (Len(toCreate) - 1) : toCreate'[i] = toCreate[i + 1]
        /\ Head(toCreate) = toCreate[1] /\ h \in {"a", "b"}
    BY <1>2, HeadTailProperties, LenProperties, EmptySeq DEF CreateThread, ClientTypes
  <2>2. at' = at \/ at' = [at EXCEPT ![h] = "alloc"]
    BY <1>2 DEF CreateThread
  <2>3. ClientTypes'
    <3>1. at' \in [clientThreads -> ClientPlaces]
      BY <1>0, <2>2 DEF ClientTypes
    <3> QED
      BY <1>2, <2>1, <3>1 DEF ClientTypes, CreateThread, heap
  <2>8. /\ 1 \in DOMAIN toCreate /\ toCreate[1][1] = h
        /\ \A i \in DOMAIN toCreate' :
              /\ i + 1 \in DOMAIN toCreate /\ i + 1 /= 1 /\ i \in Int
              /\ toCreate'[i][1] = toCreate[i + 1][1]
    BY <2>1
  <2>4. \A i, j \in DOMAIN toCreate' : toCreate'[i][1] = toCreate'[j][1] => i = j
    <3> SUFFICES ASSUME NEW i \in DOMAIN toCreate', NEW j \in DOMAIN toCreate',
                        toCreate'[i][1] = toCreate'[j][1]
                 PROVE  i = j
      OBVIOUS
    <3>1. i + 1 = j + 1 /\ i \in Int /\ j \in Int
      BY <2>8 DEF CreatedOnce
    <3> QED
      BY ONLY <3>1
  <2>5. ASSUME NEW i \in DOMAIN toCreate'
        PROVE  /\ toCreate'[i][1] /= h /\ at[toCreate'[i][1]] = "none"
               /\ toCreate'[i][1] \in {"a", "b"}
    <3>1. toCreate[i + 1][1] /= toCreate[1][1] /\ at[toCreate[i + 1][1]] = "none"
      BY <2>8 DEF CreatedOnce
    <3>2. toCreate'[i][1] \in {"a", "b"}
      BY <2>1
    <3> QED
      BY <2>8, <3>1, <3>2
  <2>6. \A i \in DOMAIN toCreate' : at'[toCreate'[i][1]] = "none"
    <3> SUFFICES ASSUME NEW i \in DOMAIN toCreate'
                 PROVE  at'[toCreate'[i][1]] = "none"
      OBVIOUS
    <3> QED
      BY <1>0, <2>2, <2>5 DEF ClientTypes
  <2>7. mainAt' /= "start"
    BY <1>2 DEF CreateThread
  <2> QED
    BY <2>3, <2>4, <2>6, <2>7 DEF CreatedOnce
<1>3. CASE MainReturns
  BY <1>3 DEF ClientTypes, CreatedOnce, MainReturns, threadVars, heap
<1> QED
  BY <1>1, <1>2, <1>3

LEMMA TypesStep ==
    ASSUME ClientTypes, CreatedOnce, TestClientNext
    PROVE  ClientTypes' /\ CreatedOnce'
<1>1. ASSUME NEW t \in clientThreads, OwnPlace(t), UNCHANGED <<mainAt, toCreate>>,
             at[t] /= "none"
      PROVE  CreatedOnce'
  BY <1>1 DEF ClientTypes, CreatedOnce, OwnPlace
<1>2. CASE thread_faceid
  BY <1>1, <1>2, FaceTypes DEF clientThreads
<1>3. ASSUME NEW t \in {"a", "b"}, LibTest(t)
      PROVE  ClientTypes' /\ CreatedOnce'
  BY <1>1, <1>3, ThreadTypes DEF clientThreads
<1> QED
  BY <1>2, <1>3, MainTypes
     DEF TestClientNext, test_load_unload_lib_1, test_load_unload_lib_2

\* The steps of a test thread, for as long as no wrapper was missing.
LEMMA ThreadOwning ==
    ASSUME ClientTypes, Owning, ~ranOut', NEW t \in {"a", "b"}, LibTest(t)
    PROVE  Owning'
<1>0. t \in clientThreads /\ CallPlaces \subseteq ClientPlaces
      /\ {"open", "end"} \subseteq ClientPlaces
  BY DEF clientThreads, ClientPlaces
<1>1. CASE AllocIon(t)
  <2>1. /\ at[t] = "alloc" /\ UNCHANGED <<heap, pending>>
        /\ \/ at' = at /\ handle' = handle
           \/ /\ at' = [at EXCEPT ![t] = "open"]
              /\ \A u \in clientThreads : u /= t => handle'[u] = handle[u]
    BY <1>1 DEF AllocIon, Goes, Crashes, threadVars, In, ClientTypes
  <2>2. \A u \in clientThreads :
           /\ Holding(u)' = Holding(u) /\ Opening(u)' = Opening(u)
           /\ Holding(u) \/ Opening(u) => handle'[u] = handle[u]
    BY <1>0, <2>1 DEF Holding, Opening, ClientTypes
  <2> QED
    BY <2>1, <2>2, NothingOpened
<1>2. CASE OpenWrapper(t, Times(t), Following(t, "open"))
  BY <1>0, <1>2, WrapperPlaced DEF OpenWrapper, In
<1>3. CASE Opened(t)
  <2>1. Following(t, "open") \in CallPlaces
    BY FollowingCall DEF CallPlaces
  <2> QED
    BY <1>0, <1>3, <2>1, InnerOpened DEF Opened, Goes, In
<1>4. CASE Call(t)
  <2>1. Following(t, at[t]) \in CallPlaces
    BY <1>4, FollowingCall DEF Call, CallPlaces
  <2>2. /\ UNCHANGED <<heap, pending, handle>> /\ at[t] \in CallPlaces
        /\ at' = at \/ at' = [at EXCEPT ![t] = Following(t, at[t])]
    BY <1>4 DEF Call, Goes, Crashes, threadVars, CallPlaces
  <2>3. \A u \in clientThreads :
           Holding(u)' = Holding(u) /\ Opening(u)' = Opening(u)
    BY <1>0, <2>1, <2>2 DEF Holding, Opening, ClientTypes, CallPlaces
  <2> QED
    BY <2>2, <2>3, NothingOpened
<1>5. CASE Close(t)
  <2>1. at[t] = "close" /\ Holding(t)
    BY <1>5 DEF Close, In, Holding
  <2>2. Use(t)
    BY <1>0, <2>1, TestClientAssumption DEF Owning, UsersOwn, Use, Whole
  <2>3. /\ CloseWrapper(t) /\ UNCHANGED <<pending, handle>>
        /\ at' = [at EXCEPT ![t] = Following(t, "close")]
    BY <1>5, <2>2 DEF Close, Wild, Goes
  <2>4. Following(t, "close") \in {"open", "end"}
    BY FollowingClose
  <2>5. Following(t, "close") \in ClientPlaces
        /\ Following(t, "close") \notin CallPlaces \cup {"opening"}
    BY <1>0, <2>4 DEF CallPlaces
  <2> QED
    BY <1>0, <2>1, <2>3, <2>5, WrapperClosed
<1> QED
  BY <1>1, <1>2, <1>3, <1>4, <1>5 DEF LibTest

\* The face test closes what it opened.
LEMMA FaceOwning ==
    ASSUME ClientTypes, Owning, ~ranOut', thread_faceid
    PROVE  Owning'
<1>0. /\ "main" \in clientThreads
      /\ {"end", "open", "free", "send", "close"} \subseteq ClientPlaces
  BY DEF clientThreads, ClientPlaces, CallPlaces
<1>1. CASE OpenWrapper("main", [free |-> 0], "free")
  BY <1>0, <1>1, WrapperPlaced DEF OpenWrapper, In
<1>2. CASE /\ In("main", "opening") /\ OpenInner("main")
           /\ FaceGoes(IF handle'["main"] = Null THEN "free" ELSE "send", 3)
  BY <1>0, <1>2, InnerOpened DEF FaceGoes, In, CallPlaces
<1>3. CASE In("main", "close") /\ CloseWrapper("main") /\ FaceGoes("free", 3)
           /\ UNCHANGED <<handle, pending>>
  BY <1>0, <1>3, WrapperClosed DEF FaceGoes, In, CallPlaces
<1>4. CASE /\ UNCHANGED <<handle, heap, pending>>
           /\ \/ at' = at
              \/ at["main"] = "image" /\ at' = [at EXCEPT !["main"] = "end"]
              \/ at["main"] = "image" /\ at' = [at EXCEPT !["main"] = "open"]
              \/ at["main"] = "send" /\ at' = [at EXCEPT !["main"] = "close"]
              \/ at["main"] = "free" /\ at' = [at EXCEPT !["main"] = "end"]
  <2>1. \A u \in clientThreads :
           Holding(u)' = Holding(u) /\ Opening(u)' = Opening(u)
    BY <1>0, <1>4 DEF Holding, Opening, ClientTypes
  <2> QED
    BY <1>4, <2>1, NothingOpened
<1> QED
  BY <1>1, <1>2, <1>3, <1>4 DEF thread_faceid, In, FaceGoes, Crashes, threadVars

\* main starts threads, which have no handle yet.
LEMMA MainOwning ==
    ASSUME ClientTypes, CreatedOnce, Owning, ChooseCase \/ CreateThread \/ MainReturns
    PROVE  Owning'
<1>1. /\ UNCHANGED <<handle, heap, pending>>
      /\ \/ at' = at
         \/ at["main"] = "none" /\ at' = [at EXCEPT !["main"] = "image"]
         \/ \E h \in clientThreads : at[h] = "none" /\ at' = [at EXCEPT ![h] = "alloc"]
  <2>1. CASE ChooseCase
    BY <2>1 DEF ChooseCase, CreatedOnce, clientThreads
  <2>2. CASE CreateThread
    <3>1. Head(toCreate) = toCreate[1] /\ 1 \in DOMAIN toCreate
          /\ Head(toCreate)[1] \in clientThreads
      BY <2>2, HeadTailProperties, LenProperties, EmptySeq
         DEF CreateThread, ClientTypes, clientThreads
    <3>2. at[Head(toCreate)[1]] = "none"
      BY <3>1 DEF CreatedOnce
    <3> QED
      BY <2>2, <3>1, <3>2 DEF CreateThread
  <2>3. CASE MainReturns
    BY <2>3 DEF MainReturns, threadVars
  <2> QED
    BY <2>1, <2>2, <2>3
<1>2. \A u \in clientThreads : Holding(u)' = Holding(u) /\ Opening(u)' = Opening(u)
  BY <1>1 DEF Holding, Opening, ClientTypes, clientThreads
<1> QED
  BY <1>1, <1>2, NothingOpened

\* malloc, once it has failed, is remembered.
LEMMA RanOutStays ==
    ASSUME TestClientNext, ranOut
    PROVE  ranOut'
BY DEF TestClientNext, ChooseCase, CreateThread, MainReturns, thread_faceid, OpenWrapper,
       test_load_unload_lib_1, test_load_unload_lib_2, LibTest, AllocIon, Opened, Call,
       Close, Crashes

LEMMA ClientStep ==
    ASSUME ClientInv, [TestClientNext]_testClientVars
    PROVE  ClientInv'
<1>1. CASE TestClientNext
  <2>1. ClientTypes' /\ CreatedOnce'
    BY <1>1, TypesStep DEF ClientInv
  <2>2. ASSUME ~ranOut' PROVE Owning'
    <3>1. Owning
      BY <1>1, <2>2, RanOutStays DEF ClientInv
    <3> QED
      BY <1>1, <2>2, <3>1, ThreadOwning, FaceOwning, MainOwning
         DEF ClientInv, TestClientNext, test_load_unload_lib_1, test_load_unload_lib_2
  <2> QED
    BY <2>1, <2>2 DEF ClientInv
<1>2. CASE UNCHANGED testClientVars
  <2>1. ClientTypes' /\ CreatedOnce'
    BY <1>2 DEF ClientInv, ClientTypes, CreatedOnce, testClientVars
  <2>2. ASSUME ~ranOut' PROVE Owning'
    <3>1. /\ ClientTypes /\ Owning /\ UNCHANGED <<heap, pending>>
          /\ \A t \in clientThreads :
                /\ Holding(t)' = Holding(t) /\ Opening(t)' = Opening(t)
                /\ handle'[t] = handle[t]
      BY <1>2, <2>2 DEF ClientInv, testClientVars, heap, Holding, Opening
    <3> QED
      BY <3>1, NothingOpened
  <2> QED
    BY <2>1, <2>2 DEF ClientInv
<1> QED
  BY <1>1, <1>2

LEMMA ClientInitial ==
    ASSUME TestClientInit
    PROVE  ClientInv
<1>1. << >> \in Seq({"a", "b"} \X LibTests) /\ DOMAIN << >> = {}
  OBVIOUS
<1>2. ClientTypes /\ CreatedOnce
  BY <1>1 DEF TestClientInit, ClientTypes, CreatedOnce, Wrappers, ClientPlaces
<1>3. Owning
  BY DEF TestClientInit, Owning, OpensOwn, WrappersOwn, UsersOwn, Whole, Holding
<1> QED
  BY <1>2, <1>3 DEF ClientInv

\* The bookkeeping of the compatibility layer and of its callers: types and threads
\* in every reachable state, ownership as long as malloc found room for wrappers.
THEOREM ClientInvariant == TestClientSpec => []ClientInv
<1>1. TestClientInit => ClientInv
  BY ClientInitial
<1>2. ClientInv /\ [TestClientNext]_testClientVars => ClientInv'
  BY ClientStep
<1> QED
  BY <1>1, <1>2, PTL DEF TestClientSpec

\* As long as no open ran out of memory for its wrapper, a wrapper has its inner
\* object to itself, a test thread uses NULL or a wrapper that lives and is its own,
\* and what nobody uses is what the service refused to close.
THEOREM HandlesExactCorrect == TestClientSpec => []HandlesExact
<1>1. ASSUME ClientInv PROVE HandlesExact
  <2> SUFFICES ASSUME ~ranOut
               PROVE  LET owned == {pending[t] : t \in clientThreads}
                          full == {c \in Cells : wrap[c].live /\ c \notin owned}
                      IN  /\ \A c \in full : inner[wrap[c].inner] = wrap[c].type
                          /\ \A c, d \in full : wrap[c].inner = wrap[d].inner => c = d
                          /\ \A i \in Inners : inner[i] /= "free" =>
                                \E c \in full : wrap[c].inner = i
                          /\ \A t \in clientThreads :
                                Holding(t) => handle[t] \in full \union {Null}
                          /\ \A t, u \in clientThreads :
                                Holding(t) /\ Holding(u) /\ handle[t] = handle[u] /\ t /= u =>
                                    handle[t] = Null
                          /\ \A c \in full : c \in Held \/ wrap[c].type = "server"
    BY DEF HandlesExact
  <2> DEFINE owned == {pending[t] : t \in clientThreads}
             full == {c \in Cells : wrap[c].live /\ c \notin owned}
  <2>1. Owning
    BY <1>1 DEF ClientInv
  <2>2. \A c : c \in full <=> c \in Cells /\ Whole(c)
    BY DEF Whole
  <2> HIDE DEF full
  <2>3. /\ \A c \in full : inner[wrap[c].inner] = wrap[c].type
        /\ \A c, d \in full : wrap[c].inner = wrap[d].inner => c = d
        /\ \A i \in Inners : inner[i] /= "free" => \E c \in full : wrap[c].inner = i
    BY <2>1, <2>2 DEF Owning, WrappersOwn
  <2>4. \A t \in clientThreads : Holding(t) => handle[t] \in full \union {Null}
    BY <2>1, <2>2 DEF Owning, UsersOwn
  <2>5. \A c \in full : c \in Held \/ wrap[c].type = "server"
    BY <2>1, <2>2 DEF Owning, WrappersOwn, Held
  <2> QED
    BY <2>1, <2>3, <2>4, <2>5 DEF Owning, UsersOwn, full
<1> QED
  BY <1>1, ClientInvariant, PTL

=============================================================================
