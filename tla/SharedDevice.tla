---------------------------- MODULE SharedDevice ----------------------------
(***************************************************************************)
(* What the by-server client library promises its callers: any number of   *)
(* virtual devices (handles) share the one device of the vdsp service.     *)
(* The device is open exactly while some handle is, commands run only on   *)
(* open handles, and a handle is not closed under its own commands         *)
(* (vdsp_interface.h, the sprd_cavdsp_*_compat functions).                 *)
(***************************************************************************)
CONSTANTS Callers, Devices, NoDevice

VARIABLES opened,    \* handles that are open
          device,    \* whether the device of the service is open
          inflight   \* the handle each caller runs a command on

svars == <<opened, device, inflight>>

SharedInit ==
    /\ opened = {}
    /\ device = FALSE
    /\ inflight = [c \in Callers |-> NoDevice]

OpenOne(h) ==
    /\ h \notin opened
    /\ opened' = opened \cup {h}
    /\ device' = TRUE
    /\ UNCHANGED inflight

CloseOne(h) ==
    /\ h \in opened
    /\ \A c \in Callers : inflight[c] /= h
    /\ opened' = opened \ {h}
    /\ device' = (opened' /= {})
    /\ UNCHANGED inflight

BeginCommand(c, h) ==
    /\ inflight[c] = NoDevice
    /\ h \in opened
    /\ inflight' = [inflight EXCEPT ![c] = h]
    /\ UNCHANGED <<opened, device>>

EndCommand(c) ==
    /\ inflight[c] /= NoDevice
    /\ inflight' = [inflight EXCEPT ![c] = NoDevice]
    /\ UNCHANGED <<opened, device>>

SharedNext ==
    \/ \E h \in Devices : OpenOne(h) \/ CloseOne(h)
    \/ \E c \in Callers, h \in Devices : BeginCommand(c, h)
    \/ \E c \in Callers : EndCommand(c)

SharedSafety == SharedInit /\ [][SharedNext]_svars

SharedSpec ==
    /\ SharedSafety
    /\ \A c \in Callers : WF_svars(EndCommand(c))

-----------------------------------------------------------------------------
\* The device is open exactly while a handle is, and every command in flight
\* runs on an open handle.
SharedInv ==
    /\ opened \subseteq Devices
    /\ device = (opened /= {})
    /\ \A c \in Callers : inflight[c] \in opened \cup {NoDevice}

=============================================================================
