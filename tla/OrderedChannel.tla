--------------------------- MODULE OrderedChannel ---------------------------
(***************************************************************************)
(* What the XRP host library promises of a queue (xrp_api.h: "Queue is an  *)
(* ordered device communication channel").  Commands are accepted, carried *)
(* out one at a time in the order of their acceptance, and each of them    *)
(* finishes exactly once.  A command whose submitter asked for a           *)
(* completion event is tracked.  The channel may be closed while commands  *)
(* are still pending, but never under a tracked one: only commands nobody  *)
(* can be waiting for may be abandoned.                                    *)
(***************************************************************************)
EXTENDS Naturals, Sequences, FiniteSets

CONSTANT Commands

VARIABLES pending,    \* accepted commands that have not been begun, in order
          active,     \* the command being carried out (at most one)
          finished,   \* commands that have been carried out
          tracked,    \* accepted commands with a completion event
          abandoned,  \* commands that were pending when the channel closed
          closed      \* no command is accepted or begun any more

cvars == <<pending, active, finished, tracked, abandoned, closed>>

PendingSet == {pending[i] : i \in DOMAIN pending}

Accepted == PendingSet \cup active \cup finished \cup abandoned

ChannelInit ==
    /\ pending = << >>
    /\ active = {} /\ finished = {} /\ tracked = {} /\ abandoned = {}
    /\ closed = FALSE

Submit(c, track) ==
    /\ ~closed
    /\ c \notin Accepted
    /\ pending' = Append(pending, c)
    /\ tracked' = IF track THEN tracked \cup {c} ELSE tracked
    /\ UNCHANGED <<active, finished, abandoned, closed>>

Begin ==
    /\ ~closed
    /\ active = {}
    /\ pending /= << >>
    /\ active' = {Head(pending)}
    /\ pending' = Tail(pending)
    /\ UNCHANGED <<finished, tracked, abandoned, closed>>

Finish ==
    /\ active /= {}
    /\ finished' = finished \cup active
    /\ active' = {}
    /\ UNCHANGED <<pending, tracked, abandoned, closed>>

Close ==
    /\ ~closed
    /\ active = {}
    /\ PendingSet \cap tracked = {}
    /\ closed' = TRUE
    /\ abandoned' = PendingSet
    /\ pending' = << >>
    /\ UNCHANGED <<active, finished, tracked>>

ChannelNext ==
    \/ \E c \in Commands, track \in BOOLEAN : Submit(c, track)
    \/ Begin
    \/ Finish
    \/ Close

ChannelSafety == ChannelInit /\ [][ChannelNext]_cvars

\* Submitting and closing are the users' choice; carrying out is the channel's.
ChannelSpec ==
    /\ ChannelSafety
    /\ WF_cvars(Begin) /\ WF_cvars(Finish)

-----------------------------------------------------------------------------
ChannelTypeOK ==
    /\ pending \in Seq(Commands)
    /\ active \subseteq Commands /\ finished \subseteq Commands
    /\ tracked \subseteq Commands /\ abandoned \subseteq Commands
    /\ closed \in BOOLEAN

\* A command is in at most one place: it is never begun twice, nor finished
\* and then abandoned (one worker thread per queue, xrp_threaded_queue.c).
CarriedOutOnce ==
    /\ Cardinality(PendingSet) = Len(pending)
    /\ Cardinality(active) <= 1
    /\ PendingSet \cap (active \cup finished \cup abandoned) = {}
    /\ active \cap (finished \cup abandoned) = {}
    /\ finished \cap abandoned = {}

\* A command with a completion event is never abandoned.
TrackedNotAbandoned == tracked \cap abandoned = {}

=============================================================================
