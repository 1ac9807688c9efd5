----------------------------- MODULE MCDevices -----------------------------
(***************************************************************************)
(* Model checking of BufferGroup and of DirectDevice.  They share no       *)
(* state, as the buffers and the group of a direct command are those of    *)
(* one thread, so a behaviour is one of either, the other staying where it *)
(* began.  The threads of each and the buffers are symmetric.              *)
(*                                                                         *)
(* Words have four bits in the .cfg files: some addresses there have a low *)
(* word that is negative as an int32_t, and one a low word that is a       *)
(* descriptor.                                                             *)
(***************************************************************************)
EXTENDS BufferGroup, DirectDevice, TLC

VARIABLE part

devicesVars == <<part, vars, directVars>>

DevicesInit == part \in {"group", "direct"} /\ GroupInit /\ DirectInit

DevicesNext ==
    \/ part = "group" /\ GroupNext /\ UNCHANGED <<part, directVars>>
    \/ part = "direct" /\ DirectNext /\ UNCHANGED <<part, vars>>

DevicesSpec == DevicesInit /\ [][DevicesNext]_devicesVars

Symmetry ==
    Permutations(Threads) \cup Permutations(Buffers) \cup Permutations(Clients)
=============================================================================
