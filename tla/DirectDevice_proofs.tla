------------------------- MODULE DirectDevice_proofs -------------------------
(***************************************************************************)
(* Devices, direct commands and descriptors, for any number of threads,    *)
(* addresses, descriptors and buffers and for words of any even size.      *)
(*                                                                         *)
(* A counter says when a device goes, a number or an address is all its    *)
(* users have: the invariant says of every control point what it refers    *)
(* to, of every device that it is there as long as something refers to     *)
(* it, and of every descriptor what it is open on and who closes it.       *)
(***************************************************************************)
EXTENDS DirectDevice, LowestNumber, FiniteSetTheorems, SequenceTheorems, TLAPS

(***************************************************************************)
(* The inductive invariant.                                                *)
(***************************************************************************)

DirectTypes == DirectTypeOK /\ IsFiniteSet(handles)

\* What each control point has in hand.
InCommand(t) == point[t] \in {"run", "release"}
InHand(t) ==
    /\ opened[t] /= NoFd <=> point[t] \in Opens
    /\ inner[t] /= 0 <=> point[t] = "wrap"
    /\ using[t] /= NoHandle <=> InCommand(t)
    /\ point[t] /= "run" => todo[t] = << >>
    /\ ~InCommand(t) => bufs[t] = << >> /\ input[t] = {}
BuffersFit(t) ==
    /\ Len(todo[t]) + Len(bufs[t]) <= MaxBuffers
    /\ \A i \in DOMAIN bufs[t] : bufs[t][i].kind = "HOST" => bufs[t][i].fds = {}
Calls == \A t \in Clients : InHand(t) /\ BuffersFit(t)

\* What refers to a device refers to one that is there.
DevicesSound ==
    /\ \A a \in Addresses :
          IF dev[a].type = "NONE" THEN dev[a] = NoDevice ELSE dev[a].ref > 0
    /\ \A n \in Addresses : dev[n].type = "NORMAL" =>
          Unpack(dev[n]) \in Addresses /\ dev[Unpack(dev[n])].type = "NEWMODE"
    /\ \A t \in Clients : inner[t] /= 0 => dev[inner[t]].type = "NEWMODE"

\* Who closes a descriptor of the driver.
IsNewmode(a) == dev[a].type = "NEWMODE"
DriverFiles ==
    /\ \A a \in Addresses : IsNewmode(a) =>
          dev[a].fd \in Descriptors /\ file[dev[a].fd] = "driver"
    /\ \A t \in Clients : opened[t] /= NoFd => file[opened[t]] = "driver"
    /\ \A a, b \in Addresses :
          IsNewmode(a) /\ IsNewmode(b) /\ a /= b => dev[a].fd /= dev[b].fd
    /\ \A a \in Addresses, t \in Clients : IsNewmode(a) => opened[t] /= dev[a].fd
    /\ \A t, u \in Clients : t /= u /\ opened[t] /= NoFd => opened[t] /= opened[u]
    /\ \A f \in Descriptors : file[f] = "driver" =>
          \/ \E a \in Addresses : IsNewmode(a) /\ dev[a].fd = f
          \/ \E t \in Clients : opened[t] = f

\* And one of ION.
InBuffers(t, f) == \E i \in DOMAIN bufs[t] : f \in bufs[t][i].fds
IonFiles ==
    /\ \A t \in Clients, f \in Descriptors :
          InBuffers(t, f) \/ f \in input[t] => file[f] = "ion"
    /\ \A f \in lostFiles : f \in Descriptors /\ file[f] = "ion"
    /\ \A t \in Clients : \A i, j \in DOMAIN bufs[t] :
          i /= j => bufs[t][i].fds \cap bufs[t][j].fds = {}
    /\ \A t, u \in Clients, f \in Descriptors : t /= u =>
          /\ ~(InBuffers(t, f) /\ InBuffers(u, f))
          /\ ~(f \in input[t] /\ f \in input[u])
    /\ \A t, u \in Clients, f \in Descriptors : ~(InBuffers(t, f) /\ f \in input[u])
    /\ \A t \in Clients, f \in lostFiles : ~InBuffers(t, f) /\ f \notin input[t]
    /\ \A f \in Descriptors : file[f] = "ion" =>
          f \in lostFiles \/ \E t \in Clients : InBuffers(t, f) \/ f \in input[t]

DirectInv ==
    /\ DirectTypes /\ Calls
    /\ DevicesSound /\ HandlesLeadToDevices /\ DeviceRefsExact
    /\ DriverFiles /\ IonFiles

-----------------------------------------------------------------------------
(***************************************************************************)
(* Sequences, split addresses and free descriptors.                        *)
(***************************************************************************)

LEMMA AppendIs ==
    ASSUME NEW S, NEW s \in Seq(S), NEW e \in S
    PROVE  /\ Append(s, e) \in Seq(S) /\ Len(s) \in Nat
           /\ Len(Append(s, e)) = Len(s) + 1
           /\ DOMAIN s = 1 .. Len(s) /\ DOMAIN Append(s, e) = 1 .. (Len(s) + 1)
           /\ \A i \in 1 .. Len(s) : Append(s, e)[i] = s[i]
           /\ Append(s, e)[Len(s) + 1] = e
BY AppendProperties, LenProperties

LEMMA TailIs ==
    ASSUME NEW S, NEW s \in Seq(S), s /= << >>
    PROVE  /\ Tail(s) \in Seq(S) /\ Len(s) \in Nat \ {0}
           /\ Len(Tail(s)) = Len(s) - 1
           /\ DOMAIN s = 1 .. Len(s) /\ DOMAIN Tail(s) = 1 .. (Len(s) - 1)
           /\ \A i \in 1 .. (Len(s) - 1) : Tail(s)[i] = s[i + 1]
           /\ Head(s) = s[1] /\ Head(s) \in S
BY HeadTailProperties, LenProperties, EmptySeq

\* Division by the size of a word, and a word taken as an int32_t.
LEMMA WordArithmetic ==
    ASSUME Word \in Nat \ {0}
    PROVE  /\ \A r \in 0 .. Word - 1 : r % Word = r /\ (r - Word) % Word = r
           /\ \A a \in 1 .. Word * Word - 1 :
                 /\ a % Word \in 0 .. Word - 1 /\ a \div Word \in 0 .. Word - 1
                 /\ a = (a \div Word) * Word + (a % Word)
OBVIOUS

\* The address of a device survives its split over the int32_t and the uint32_t
\* of a struct vdsp_handle, however many bits a word has.
THEOREM SplitAddress ==
    ASSUME NEW a \in Addresses
    PROVE  /\ Unpack(Pack(a)) = a
           /\ Pack(a).fd \in Int /\ Pack(a).generation \in 0 .. Word - 1
<1>0. Word \in Nat /\ a \in 1 .. Word * Word - 1
  BY DirectDeviceAssumption
<1>1. Word \in Nat \ {0}
  BY <1>0
<1>2. /\ a \in Nat /\ a % Word \in 0 .. Word - 1 /\ a \div Word \in 0 .. Word - 1
      /\ a = (a \div Word) * Word + (a % Word)
  BY ONLY <1>0, <1>1, WordArithmetic
<1>3. Signed(a % Word) \in Int /\ Signed(a % Word) % Word = a % Word
  BY ONLY <1>1, <1>2, WordArithmetic DEF Signed
<1> QED
  BY ONLY <1>2, <1>3 DEF Pack, Unpack

LEMMA NumbersAre ==
    /\ NoFd \in Int /\ \A f \in Descriptors : f \in Nat /\ f /= NoFd
    /\ \A a \in Addresses : a \in Nat \ {0} /\ Word \in Nat \ {0}
BY DirectDeviceAssumption DEF NoFd

\* open() finds a descriptor that is free, and ION two.
LEMMA LowestIs ==
    ASSUME NEW S \in SUBSET Descriptors, S /= {}
    PROVE  Lowest(S) \in S
<1>1. S \subseteq Nat
  BY DirectDeviceAssumption
<1>2. \E n \in S : \A m \in S : n <= m
  BY <1>1, LeastElement
<1> QED
  BY <1>2 DEF Lowest

LEMMA IonFdsFree ==
    ASSUME Cardinality(FreeFds) >= 2
    PROVE  IonFds \subseteq FreeFds
<1> DEFINE f == Lowest(FreeFds)
<1>1. FreeFds \subseteq Descriptors /\ IsFiniteSet(FreeFds)
  BY DirectDeviceAssumption, FS_Subset DEF FreeFds
<1>2. FreeFds /= {} /\ \A x : FreeFds /= {x}
  <2>1. Cardinality(FreeFds) \in Nat /\ Cardinality(FreeFds) >= 2
    BY ONLY <1>1, Cardinality(FreeFds) >= 2, FS_CardinalityType
  <2>2. Cardinality(FreeFds) /= 0 /\ Cardinality(FreeFds) /= 1
    BY ONLY <2>1
  <2> QED
    BY ONLY <1>1, <2>2, FS_EmptySet, FS_Singleton
<1>3. f \in FreeFds
  BY <1>1, <1>2, LowestIs
<1>4. Lowest(FreeFds \ {f}) \in FreeFds
  <2> HIDE DEF f
  <2>1. FreeFds \ {f} \subseteq Descriptors /\ FreeFds \ {f} /= {}
    BY <1>1, <1>2, <1>3
  <2> QED
    BY <2>1, LowestIs
<1> QED
  BY <1>3, <1>4 DEF IonFds

LEMMA AllocationsFree ==
    ASSUME NEW fds \in Allocations
    PROVE  fds \subseteq Descriptors /\ \A f \in fds : file[f] = "closed"
BY IonFdsFree DEF Allocations, FreeFds

-----------------------------------------------------------------------------
(***************************************************************************)
(* The counters of the devices.                                            *)
(***************************************************************************)
HandlesOn(a) == {h \in handles : Target(h) = a}
NormalsOn(a) == {n \in Addresses : dev[n].type = "NORMAL" /\ Unpack(dev[n]) = a}
OpensOn(a) == {t \in Clients : inner[t] = a}

LEMMA CountsFinite ==
    ASSUME DirectTypes, NEW a
    PROVE  /\ IsFiniteSet(HandlesOn(a)) /\ IsFiniteSet(NormalsOn(a))
           /\ IsFiniteSet(OpensOn(a)) /\ IsFiniteSet(BuffersOn(a))
           /\ Cardinality(HandlesOn(a)) \in Nat /\ Cardinality(NormalsOn(a)) \in Nat
           /\ Cardinality(OpensOn(a)) \in Nat /\ Cardinality(BuffersOn(a)) \in Nat
<1>1. IsFiniteSet(Clients \X (1 .. MaxBuffers))
  <2>1. IsFiniteSet(Clients) /\ IsFiniteSet(1 .. MaxBuffers)
    BY DirectDeviceAssumption, FS_Interval
  <2> QED
    BY ONLY <2>1, FS_Product
<1>2. /\ HandlesOn(a) \subseteq handles /\ NormalsOn(a) \subseteq Addresses
      /\ OpensOn(a) \subseteq Clients
      /\ BuffersOn(a) \subseteq Clients \X (1 .. MaxBuffers)
  BY DEF HandlesOn, NormalsOn, OpensOn, BuffersOn
<1>3. /\ IsFiniteSet(HandlesOn(a)) /\ IsFiniteSet(NormalsOn(a))
      /\ IsFiniteSet(OpensOn(a)) /\ IsFiniteSet(BuffersOn(a))
  BY <1>1, <1>2, DirectDeviceAssumption, FS_Subset DEF DirectTypes
<1> QED
  BY <1>3, FS_CardinalityType

\* The counter, as the sum of five natural numbers.
LEMMA CountsSum ==
    ASSUME DirectTypes, DeviceRefsExact, NEW a \in Addresses
    PROVE  /\ dev[a].ref = Cardinality(HandlesOn(a)) + Cardinality(NormalsOn(a))
                             + Cardinality(OpensOn(a)) + Cardinality(BuffersOn(a))
                             + lostRefs[a]
           /\ lostRefs[a] \in Nat /\ dev[a].ref \in Nat
BY DEF DeviceRefsExact, HandlesOn, Keepers, NormalsOn, OpensOn, DirectTypes, DirectTypeOK

LEMMA CountsBound ==
    ASSUME DirectTypes, DeviceRefsExact, NEW a \in Addresses
    PROVE  /\ Cardinality(HandlesOn(a)) <= dev[a].ref
           /\ Cardinality(NormalsOn(a)) <= dev[a].ref
           /\ Cardinality(OpensOn(a)) <= dev[a].ref
           /\ Cardinality(BuffersOn(a)) <= dev[a].ref /\ lostRefs[a] <= dev[a].ref
BY CountsSum, CountsFinite

\* Nothing refers to an address where no device is.
LEMMA CountsZero ==
    ASSUME DirectTypes, DeviceRefsExact, NEW a \in Addresses, dev[a].ref = 0
    PROVE  /\ HandlesOn(a) = {} /\ NormalsOn(a) = {} /\ OpensOn(a) = {}
           /\ BuffersOn(a) = {} /\ lostRefs[a] = 0
<1>1. /\ Cardinality(HandlesOn(a)) = 0 /\ Cardinality(NormalsOn(a)) = 0
      /\ Cardinality(OpensOn(a)) = 0 /\ Cardinality(BuffersOn(a)) = 0
      /\ lostRefs[a] = 0
  BY CountsBound, CountsFinite, CountsSum
<1> QED
  BY <1>1, CountsFinite, FS_EmptySet

\* The last handle of a device is all that refers to it.
LEMMA LastHandle ==
    ASSUME DirectTypes, DeviceRefsExact, NEW a \in Addresses, dev[a].ref = 1,
           NEW h \in HandlesOn(a)
    PROVE  /\ HandlesOn(a) = {h} /\ NormalsOn(a) = {} /\ OpensOn(a) = {}
           /\ BuffersOn(a) = {} /\ lostRefs[a] = 0
<1>1. Cardinality(HandlesOn(a)) /= 0
  BY CountsFinite, FS_EmptySet
<1>2. /\ Cardinality(HandlesOn(a)) = 1 /\ Cardinality(NormalsOn(a)) = 0
      /\ Cardinality(OpensOn(a)) = 0 /\ Cardinality(BuffersOn(a)) = 0
      /\ lostRefs[a] = 0
  BY <1>1, CountsSum, CountsFinite
<1>3. PICK x : HandlesOn(a) = {x}
  BY <1>2, CountsFinite, FS_Singleton
<1> QED
  BY <1>2, <1>3, CountsFinite, FS_EmptySet

\* And so is the NORMAL device that keeps it, when that is the last.
LEMMA LastNormal ==
    ASSUME DirectTypes, DeviceRefsExact, NEW a \in Addresses, dev[a].ref = 1,
           NEW n \in NormalsOn(a)
    PROVE  /\ HandlesOn(a) = {} /\ NormalsOn(a) = {n} /\ OpensOn(a) = {}
           /\ BuffersOn(a) = {} /\ lostRefs[a] = 0
<1>1. Cardinality(NormalsOn(a)) /= 0
  BY CountsFinite, FS_EmptySet
<1>2. /\ Cardinality(HandlesOn(a)) = 0 /\ Cardinality(NormalsOn(a)) = 1
      /\ Cardinality(OpensOn(a)) = 0 /\ Cardinality(BuffersOn(a)) = 0
      /\ lostRefs[a] = 0
  BY <1>1, CountsSum, CountsFinite
<1>3. PICK x : NormalsOn(a) = {x}
  BY <1>2, CountsFinite, FS_Singleton
<1> QED
  BY <1>2, <1>3, CountsFinite, FS_EmptySet

-----------------------------------------------------------------------------
(***************************************************************************)
(* The buffers of the commands.                                            *)
(***************************************************************************)
BufferSet == [kind : Kinds, fds : SUBSET Descriptors]

\* Without new or released buffers nothing is counted differently.
LEMMA BuffersSame ==
    ASSUME bufs' = bufs, \A u \in Clients : bufs[u] /= << >> => using'[u] = using[u],
           NEW a
    PROVE  BuffersOn(a)' = BuffersOn(a)
<1>1. \A b \in Clients \X (1 .. MaxBuffers) : b[2] \in DOMAIN bufs[b[1]] =>
         b[1] \in Clients /\ bufs[b[1]] /= << >>
  OBVIOUS
<1> QED
  BY <1>1 DEF BuffersOn

\* One more buffer in the group of a command.
LEMMA BuffersAppend ==
    ASSUME DirectTypes, NEW t \in Clients, Len(bufs[t]) < MaxBuffers,
           NEW e \in BufferSet, bufs' = [bufs EXCEPT ![t] = Append(@, e)],
           using' = using, NEW a
    PROVE  Cardinality(BuffersOn(a)') = Cardinality(BuffersOn(a))
               + (IF e.kind = "DEVICE" /\ Target(using[t]) = a THEN 1 ELSE 0)
<1> DEFINE n == Len(bufs[t]) + 1
<1>1. /\ bufs'[t] = Append(bufs[t], e) /\ \A u \in Clients \ {t} : bufs'[u] = bufs[u]
      /\ bufs[t] \in Seq(BufferSet)
  BY DEF DirectTypes, DirectTypeOK, BufferSet
<1>2. /\ Len(bufs[t]) \in Nat /\ DOMAIN bufs[t] = 1 .. Len(bufs[t])
      /\ DOMAIN bufs'[t] = 1 .. n
      /\ \A i \in 1 .. Len(bufs[t]) : bufs'[t][i] = bufs[t][i]
      /\ bufs'[t][n] = e
  BY ONLY <1>1, e \in BufferSet, AppendIs
<1>3. n \in 1 .. MaxBuffers /\ n \notin DOMAIN bufs[t] /\ n \in DOMAIN bufs'[t]
  BY <1>2, DirectDeviceAssumption
<1>4. \A i : i \in DOMAIN bufs'[t] <=> i \in DOMAIN bufs[t] \/ i = n
  BY <1>2
<1>5. IsFiniteSet(BuffersOn(a)) /\ Cardinality(BuffersOn(a)) \in Nat
  BY CountsFinite
<1> HIDE DEF n
<1>6. CASE e.kind = "DEVICE" /\ Target(using[t]) = a
  <2>1. BuffersOn(a)' = BuffersOn(a) \cup {<<t, n>>} /\ <<t, n>> \notin BuffersOn(a)
    BY <1>1, <1>2, <1>3, <1>4, <1>6 DEF BuffersOn
  <2>2. Cardinality(BuffersOn(a)') = Cardinality(BuffersOn(a)) + 1
    BY ONLY <1>5, <2>1, FS_AddElement
  <2> QED
    BY ONLY <1>6, <2>2
<1>7. CASE ~(e.kind = "DEVICE" /\ Target(using[t]) = a)
  <2>1. BuffersOn(a)' = BuffersOn(a)
    BY <1>1, <1>2, <1>3, <1>4, <1>7 DEF BuffersOn
  <2> QED
    BY ONLY <1>5, <1>7, <2>1
<1> QED
  BY <1>6, <1>7

\* release_xrp_buffers releases the first one of those that are left: the
\* others move up.
LEMMA BuffersTail ==
    ASSUME DirectTypes, NEW t \in Clients, bufs[t] /= << >>,
           Len(bufs[t]) <= MaxBuffers, bufs' = [bufs EXCEPT ![t] = Tail(@)],
           using' = using, NEW a
    PROVE  Cardinality(BuffersOn(a)') = Cardinality(BuffersOn(a))
               - (IF Head(bufs[t]).kind = "DEVICE" /\ Target(using[t]) = a
                  THEN 1 ELSE 0)
<1> DEFINE S == BuffersOn(a)
           T == BuffersOn(a)'
           R == S \ {<<t, 1>>}
           Up(b) == IF b[1] = t THEN <<t, b[2] + 1>> ELSE b
           Down(b) == IF b[1] = t THEN <<t, b[2] - 1>> ELSE b
           Move == [b \in T |-> Up(b)]
<1>1. /\ bufs'[t] = Tail(bufs[t]) /\ \A u \in Clients \ {t} : bufs'[u] = bufs[u]
      /\ bufs[t] \in Seq(BufferSet)
  BY DEF DirectTypes, DirectTypeOK, BufferSet
<1>2. /\ Len(bufs[t]) \in Nat \ {0} /\ DOMAIN bufs[t] = 1 .. Len(bufs[t])
      /\ DOMAIN bufs'[t] = 1 .. (Len(bufs[t]) - 1)
      /\ \A i \in 1 .. (Len(bufs[t]) - 1) : bufs'[t][i] = bufs[t][i + 1]
      /\ Head(bufs[t]) = bufs[t][1]
  BY ONLY <1>1, bufs[t] /= << >>, TailIs
<1>3. IsFiniteSet(S) /\ Cardinality(S) \in Nat /\ IsFiniteSet(R)
  <2>1. IsFiniteSet(S) /\ Cardinality(S) \in Nat
    BY CountsFinite
  <2> QED
    BY ONLY <2>1, FS_RemoveElement
<1>4. \A b \in T : Up(b) \in R /\ b = Down(Up(b))
  BY <1>1, <1>2, DirectDeviceAssumption DEF BuffersOn
<1>5. \A b \in R : Down(b) \in T /\ b = Up(Down(b))
  BY <1>1, <1>2, DirectDeviceAssumption DEF BuffersOn
<1>6. Move \in Bijection(T, R)
  <2> HIDE DEF T, R, Up, Down
  <2>1. Move \in [T -> R] /\ \A b \in T : Move[b] = Up(b)
    BY <1>4
  <2>2. \A b, c \in T : Move[b] = Move[c] => b = c
    BY <1>4, <2>1
  <2>3. \A c \in R : \E b \in T : Move[b] = c
    BY <1>5, <2>1
  <2> QED
    BY <2>1, <2>2, <2>3 DEF Bijection, Injection, Surjection, IsInjective
<1>7. Cardinality(T) = Cardinality(R)
  <2>1. IsFiniteSet(T)
    <3>1. T \subseteq Clients \X (1 .. MaxBuffers)
      BY DEF BuffersOn
    <3>2. IsFiniteSet(Clients) /\ IsFiniteSet(1 .. MaxBuffers)
      BY DirectDeviceAssumption, FS_Interval
    <3>3. IsFiniteSet(Clients \X (1 .. MaxBuffers))
      BY ONLY <3>2, FS_Product
    <3> QED
      BY ONLY <3>1, <3>3, FS_Subset
  <2> HIDE DEF T, R, Move
  <2> QED
    BY <1>6, <2>1, FS_Bijection DEF ExistsBijection
<1>8. <<t, 1>> \in S <=> Head(bufs[t]).kind = "DEVICE" /\ Target(using[t]) = a
  BY <1>2, DirectDeviceAssumption DEF BuffersOn
<1>9. Cardinality(R) = IF <<t, 1>> \in S THEN Cardinality(S) - 1 ELSE Cardinality(S)
  BY ONLY <1>3, FS_RemoveElement
<1> HIDE DEF S, T, R
<1>10. CASE Head(bufs[t]).kind = "DEVICE" /\ Target(using[t]) = a
  BY <1>3, <1>7, <1>8, <1>9, <1>10 DEF S, T
<1>11. CASE ~(Head(bufs[t]).kind = "DEVICE" /\ Target(using[t]) = a)
  BY <1>3, <1>7, <1>8, <1>9, <1>11 DEF S, T
<1> QED
  BY <1>10, <1>11

-----------------------------------------------------------------------------
(***************************************************************************)
(* Devices: what refers to one refers to one that is there, and its        *)
(* counter says how many do.                                               *)
(***************************************************************************)
DeviceSet == [type : {"NONE", "NEWMODE", "NORMAL"}, ref : Nat,
              fd : Int, generation : 0 .. Word - 1]
DevicesInv == DevicesSound /\ HandlesLeadToDevices /\ DeviceRefsExact

\* The address a NORMAL device keeps is in two fields only.
LEMMA UnpackSame ==
    ASSUME NEW g, NEW h, g.fd = h.fd, g.generation = h.generation
    PROVE  Unpack(g) = Unpack(h)
BY ONLY g.fd = h.fd, g.generation = h.generation DEF Unpack

\* The counters again, with the names used here.
LEMMA CountsExact ==
    DeviceRefsExact <=>
        \A a \in Addresses :
            dev[a].ref = Cardinality(HandlesOn(a)) + Cardinality(NormalsOn(a))
                           + Cardinality(OpensOn(a)) + Cardinality(BuffersOn(a))
                           + lostRefs[a]
BY DEF DeviceRefsExact, HandlesOn, Keepers, NormalsOn, OpensOn

\* A step that touches neither devices nor what refers to them.
LEMMA DevicesQuiet ==
    ASSUME DevicesInv, UNCHANGED <<dev, handles, inner, lostRefs>>,
           \A a : BuffersOn(a)' = BuffersOn(a)
    PROVE  DevicesInv'
<1>1. DevicesSound' /\ HandlesLeadToDevices'
  BY DEF DevicesInv, DevicesSound, HandlesLeadToDevices
<1>2. \A a : HandlesOn(a)' = HandlesOn(a) /\ NormalsOn(a)' = NormalsOn(a)
               /\ OpensOn(a)' = OpensOn(a)
  BY DEF HandlesOn, NormalsOn, OpensOn
<1>3. DeviceRefsExact'
  BY <1>2 DEF DevicesInv, DeviceRefsExact, HandlesOn, Keepers, NormalsOn, OpensOn
<1> QED
  BY <1>1, <1>3 DEF DevicesInv

\* Some devices go, nothing that stays refers to them, and the others only
\* change their counters.
LEMMA DevicesGo ==
    ASSUME DirectTypes, DevicesSound, HandlesLeadToDevices, NEW G \in SUBSET Addresses,
           \A d \in G : dev'[d] = NoDevice,
           \A d \in Addresses \ G :
              /\ dev'[d].type = dev[d].type /\ dev'[d].fd = dev[d].fd
              /\ dev'[d].generation = dev[d].generation
              /\ IF dev[d].type = "NONE" THEN dev'[d] = dev[d] ELSE dev'[d].ref > 0,
           UNCHANGED inner, \A t \in Clients : inner[t] \notin G,
           handles' \subseteq handles, \A h \in handles' : Target(h) \notin G,
           \A x \in G : NormalsOn(x) \subseteq G
    PROVE  /\ DevicesSound' /\ HandlesLeadToDevices'
           /\ \A x : /\ HandlesOn(x)' = HandlesOn(x) \cap handles'
                     /\ NormalsOn(x)' = NormalsOn(x) \ G
                     /\ OpensOn(x)' = OpensOn(x)
<1>1. \A d \in Addresses \ G : Unpack(dev'[d]) = Unpack(dev[d])
  BY UnpackSame
<1>2. \A d \in G : dev'[d].type = "NONE"
  BY DEF NoDevice
<1>3. \A m \in Addresses \ G : dev[m].type = "NORMAL" =>
         Unpack(dev[m]) \in Addresses \ G /\ dev[Unpack(dev[m])].type = "NEWMODE"
  <2> SUFFICES ASSUME NEW m \in Addresses \ G, dev[m].type = "NORMAL"
               PROVE  /\ Unpack(dev[m]) \in Addresses \ G
                      /\ dev[Unpack(dev[m])].type = "NEWMODE"
    OBVIOUS
  <2>1. Unpack(dev[m]) \in Addresses /\ dev[Unpack(dev[m])].type = "NEWMODE"
    BY DEF DevicesSound
  <2>2. m \in NormalsOn(Unpack(dev[m]))
    BY DEF NormalsOn
  <2> QED
    BY <2>1, <2>2
<1>4. DevicesSound'
  <2>1. \A b \in Addresses : IF dev'[b].type = "NONE" THEN dev'[b] = NoDevice
                                                    ELSE dev'[b].ref > 0
    BY <1>2 DEF DevicesSound
  <2>2. \A m \in Addresses : dev'[m].type = "NORMAL" =>
           Unpack(dev'[m]) \in Addresses /\ dev'[Unpack(dev'[m])].type = "NEWMODE"
    BY <1>1, <1>2, <1>3
  <2>3. \A t \in Clients : inner'[t] /= 0 => dev'[inner'[t]].type = "NEWMODE"
    <3>1. \A t \in Clients : inner[t] /= 0 => inner[t] \in Addresses
      BY DEF DirectTypes, DirectTypeOK
    <3> QED
      BY <3>1 DEF DevicesSound
  <2> QED
    BY <2>1, <2>2, <2>3 DEF DevicesSound
<1>5. HandlesLeadToDevices'
  BY DEF HandlesLeadToDevices
<1>6. \A x : /\ HandlesOn(x)' = HandlesOn(x) \cap handles'
             /\ OpensOn(x)' = OpensOn(x)
  BY DEF HandlesOn, OpensOn
<1>7. \A x : NormalsOn(x)' = NormalsOn(x) \ G
  BY <1>1, <1>2 DEF NormalsOn
<1> QED
  BY <1>4, <1>5, <1>6, <1>7

\* The same when all that happens is that one counter changes.
LEMMA CounterChanges ==
    ASSUME DirectTypes, DevicesSound, HandlesLeadToDevices, NEW a \in Addresses,
           dev[a].type /= "NONE", NEW n \in Nat \ {0},
           dev' = [dev EXCEPT ![a].ref = n], UNCHANGED <<handles, inner>>
    PROVE  /\ DevicesSound' /\ HandlesLeadToDevices'
           /\ dev' \in [Addresses -> DeviceSet]
           /\ dev'[a].ref = n /\ \A b \in Addresses \ {a} : dev'[b].ref = dev[b].ref
           /\ \A b \in Addresses :
                 dev'[b].type = dev[b].type /\ dev'[b].fd = dev[b].fd
           /\ \A x : /\ HandlesOn(x)' = HandlesOn(x) /\ NormalsOn(x)' = NormalsOn(x)
                     /\ OpensOn(x)' = OpensOn(x)
<1>1. /\ dev \in [Addresses -> DeviceSet] /\ dev' \in [Addresses -> DeviceSet]
      /\ dev'[a].ref = n /\ \A b \in Addresses \ {a} : dev'[b] = dev[b]
      /\ dev'[a].type = dev[a].type /\ dev'[a].fd = dev[a].fd
      /\ dev'[a].generation = dev[a].generation
  <2>1. dev \in [Addresses -> DeviceSet]
    BY DEF DirectTypes, DirectTypeOK, DeviceSet
  <2> DEFINE e == [dev[a] EXCEPT !.ref = n]
  <2>2. /\ e \in DeviceSet /\ e.ref = n /\ e.type = dev[a].type
        /\ e.fd = dev[a].fd /\ e.generation = dev[a].generation
    BY ONLY <2>1, a \in Addresses, n \in Nat \ {0} DEF DeviceSet
  <2>3. dev' = [dev EXCEPT ![a] = e]
    OBVIOUS
  <2> HIDE DEF e
  <2> QED
    BY ONLY <2>1, <2>2, <2>3, a \in Addresses
<1> DEFINE G == {}
<1>2. \A d \in Addresses \ G :
         /\ dev'[d].type = dev[d].type /\ dev'[d].fd = dev[d].fd
         /\ dev'[d].generation = dev[d].generation
         /\ IF dev[d].type = "NONE" THEN dev'[d] = dev[d] ELSE dev'[d].ref > 0
  BY <1>1 DEF DevicesSound
<1>3. /\ G \in SUBSET Addresses /\ \A d \in G : dev'[d] = NoDevice
      /\ \A t \in Clients : inner[t] \notin G
      /\ handles' \subseteq handles /\ \A h \in handles' : Target(h) \notin G
      /\ \A x \in G : NormalsOn(x) \subseteq G
  OBVIOUS
<1> HIDE DEF G
<1>4. /\ DevicesSound' /\ HandlesLeadToDevices'
      /\ \A x : /\ HandlesOn(x)' = HandlesOn(x) \cap handles'
                /\ NormalsOn(x)' = NormalsOn(x) \ G
                /\ OpensOn(x)' = OpensOn(x)
  BY <1>2, <1>3, DevicesGo
<1>5. \A x : HandlesOn(x) \subseteq handles
  BY DEF HandlesOn
<1> QED
  BY <1>1, <1>2, <1>4, <1>5 DEF G

\* xrp_release_device, of a device that is there.
LEMMA ReleaseDevices ==
    ASSUME DirectTypes, DevicesSound, NEW a \in Addresses, dev[a].type /= "NONE",
           NEW fds, Release(a, fds)
    PROVE  /\ dev' \in [Addresses -> DeviceSet]
           /\ a \in Dropped(a) /\ Dropped(a) \subseteq Addresses
           /\ \A d \in Dropped(a) : dev[d].type /= "NONE" /\ dev[d].ref \in Nat \ {0}
           /\ Freed(a) \subseteq Dropped(a)
           /\ \A d \in Freed(a) : dev'[d] = NoDevice
           /\ \A d \in Addresses \ Freed(a) :
                 /\ dev'[d].type = dev[d].type /\ dev'[d].fd = dev[d].fd
                 /\ dev'[d].generation = dev[d].generation
                 /\ IF dev[d].type = "NONE" THEN dev'[d] = dev[d] ELSE dev'[d].ref > 0
           /\ \A d \in Addresses :
                 dev'[d].ref = dev[d].ref - (IF d \in Dropped(a) THEN 1 ELSE 0)
<1>1. dev \in [Addresses -> DeviceSet] /\ \A d \in Addresses : dev[d].ref \in Nat
  BY DEF DirectTypes, DirectTypeOK, DeviceSet
<1>2. \A d \in Addresses : dev[d].type /= "NONE" => dev[d].ref \in Nat \ {0}
  BY <1>1 DEF DevicesSound
<1>3. dev[a].type = "NORMAL" =>
         Unpack(dev[a]) \in Addresses /\ dev[Unpack(dev[a])].type /= "NONE"
  BY DEF DevicesSound
<1>4. /\ a \in Dropped(a) /\ Dropped(a) \subseteq Addresses
      /\ \A d \in Dropped(a) : dev[d].type /= "NONE" /\ dev[d].ref \in Nat \ {0}
  BY <1>2, <1>3 DEF Dropped
<1>5. Freed(a) \subseteq Dropped(a) /\ \A d \in Freed(a) : dev[d].ref = 1
  BY DEF Freed
<1>6. \A d \in Addresses :
         dev'[d] = IF d \in Freed(a) THEN NoDevice
                   ELSE IF d \in Dropped(a) THEN [dev[d] EXCEPT !.ref = @ - 1]
                   ELSE dev[d]
  BY DEF Release
<1>7. NoDevice \in DeviceSet /\ NoDevice.ref = 0
  <2>1. Word \in Nat \ {0}
    BY DirectDeviceAssumption
  <2> QED
    BY ONLY <2>1 DEF NoDevice, DeviceSet
<1>8. \A d \in Dropped(a) \ Freed(a) :
         /\ dev'[d] \in DeviceSet /\ dev'[d].ref = dev[d].ref - 1 /\ dev'[d].ref > 0
         /\ dev'[d].type = dev[d].type /\ dev'[d].fd = dev[d].fd
         /\ dev'[d].generation = dev[d].generation
  <2> SUFFICES ASSUME NEW d \in Dropped(a) \ Freed(a)
               PROVE  /\ dev'[d] \in DeviceSet
                      /\ dev'[d].ref = dev[d].ref - 1 /\ dev'[d].ref > 0
                      /\ dev'[d].type = dev[d].type /\ dev'[d].fd = dev[d].fd
                      /\ dev'[d].generation = dev[d].generation
    OBVIOUS
  <2>1. dev[d] \in DeviceSet /\ dev[d].ref \in Nat \ {0} /\ dev[d].ref /= 1
    BY <1>1, <1>4 DEF Freed
  <2>2. dev'[d] = [dev[d] EXCEPT !.ref = @ - 1]
    BY <1>4, <1>6
  <2> QED
    BY ONLY <2>1, <2>2 DEF DeviceSet
<1>9. dev' \in [Addresses -> DeviceSet]
  <2>1. \A d \in Addresses : dev'[d] \in DeviceSet
    BY <1>1, <1>6, <1>7, <1>8
  <2>2. dev' = [d \in Addresses |-> dev'[d]]
    BY DEF Release
  <2> QED
    BY ONLY <2>1, <2>2
<1>10. \A d \in Addresses \ Dropped(a) : dev'[d] = dev[d]
  BY <1>5, <1>6
<1>11. \A d \in Addresses \ Freed(a) :
          /\ dev'[d].type = dev[d].type /\ dev'[d].fd = dev[d].fd
          /\ dev'[d].generation = dev[d].generation
          /\ IF dev[d].type = "NONE" THEN dev'[d] = dev[d] ELSE dev'[d].ref > 0
  <2> SUFFICES ASSUME NEW d \in Addresses \ Freed(a)
               PROVE  /\ dev'[d].type = dev[d].type /\ dev'[d].fd = dev[d].fd
                      /\ dev'[d].generation = dev[d].generation
                      /\ IF dev[d].type = "NONE" THEN dev'[d] = dev[d]
                                                ELSE dev'[d].ref > 0
    OBVIOUS
  <2>1. CASE d \in Dropped(a)
    BY ONLY <1>4, <1>8, <2>1, d \in Addresses \ Freed(a)
  <2>2. CASE d \notin Dropped(a)
    BY <1>2, <1>10, <2>2
  <2> QED
    BY <2>1, <2>2
<1>12. \A d \in Addresses :
          dev'[d].ref = dev[d].ref - (IF d \in Dropped(a) THEN 1 ELSE 0)
  <2> SUFFICES ASSUME NEW d \in Addresses
               PROVE  dev'[d].ref = dev[d].ref - (IF d \in Dropped(a) THEN 1 ELSE 0)
    OBVIOUS
  <2>1. CASE d \in Freed(a)
    <3>1. d \in Dropped(a) /\ dev[d].ref = 1 /\ dev'[d].ref = 0
      BY <1>5, <1>6, <1>7, <2>1
    <3> QED
      BY ONLY <3>1
  <2>2. CASE d \in Dropped(a) \ Freed(a)
    <3>1. dev'[d].ref = dev[d].ref - 1
      BY <1>8, <2>2
    <3> QED
      BY ONLY <2>2, <3>1
  <2>3. CASE d \notin Dropped(a)
    <3>1. dev'[d].ref = dev[d].ref /\ dev[d].ref \in Nat
      BY <1>1, <1>10, <2>3
    <3> QED
      BY ONLY <2>3, <3>1
  <2> QED
    BY <1>5, <2>1, <2>2, <2>3
<1> QED
  BY <1>4, <1>5, <1>6, <1>9, <1>11, <1>12

\* The device of a command that has buffers to create or to release.
LEMMA CommandDevice ==
    ASSUME DirectInv, NEW t \in Clients, InCommand(t)
    PROVE  /\ using[t] \in HandlesOn(Target(using[t]))
           /\ Target(using[t]) \in Addresses
           /\ dev[Target(using[t])].type \in {"NEWMODE", "NORMAL"}
           /\ using[t].api /= "normal" => dev[Target(using[t])].type = "NEWMODE"
           /\ dev[Target(using[t])].ref \in Nat \ {0}
<1>1. using[t] \in handles
  BY DEF DirectInv, DirectTypes, DirectTypeOK, Calls, InHand, BuffersFit
<1>2. /\ Target(using[t]) \in Addresses
      /\ dev[Target(using[t])].type \in {"NEWMODE", "NORMAL"}
      /\ using[t].api /= "normal" => dev[Target(using[t])].type = "NEWMODE"
  BY <1>1 DEF DirectInv, HandlesLeadToDevices
<1>3. dev[Target(using[t])].ref \in Nat
  BY <1>2 DEF DirectInv, DirectTypes, DirectTypeOK
<1>4. dev[Target(using[t])].ref > 0
  BY <1>2 DEF DirectInv, DevicesSound
<1> QED
  BY <1>1, <1>2, <1>3, <1>4 DEF HandlesOn

LEMMA Room ==
    \A k, n, m \in Nat : k + n <= m =>
        /\ n <= m /\ k <= m /\ (k /= 0 => n < m) /\ 0 + n <= m
        /\ (k - 1) + (n + 1) <= m /\ k + (n - 1) <= m
OBVIOUS

\* A buffer the command has still to create.
LEMMA NextBuffer ==
    ASSUME DirectInv, NEW t \in Clients, point[t] = "run", todo[t] /= << >>
    PROVE  /\ Head(todo[t]) \in Kinds /\ Len(bufs[t]) < MaxBuffers
           /\ Len(todo[t]) \in Nat \ {0} /\ Len(bufs[t]) \in Nat
           /\ Tail(todo[t]) \in Seq(Kinds) /\ Len(Tail(todo[t])) = Len(todo[t]) - 1
           /\ \A i \in DOMAIN Tail(todo[t]) : \E j \in DOMAIN todo[t] :
                 Tail(todo[t])[i] = todo[t][j]
           /\ \E j \in DOMAIN todo[t] : Head(todo[t]) = todo[t][j]
<1>1. todo[t] \in Seq(Kinds) /\ bufs[t] \in Seq(BufferSet)
  BY DEF DirectInv, DirectTypes, DirectTypeOK, BufferSet
<1>2. /\ Tail(todo[t]) \in Seq(Kinds) /\ Len(todo[t]) \in Nat \ {0}
      /\ Len(Tail(todo[t])) = Len(todo[t]) - 1
      /\ DOMAIN todo[t] = 1 .. Len(todo[t])
      /\ DOMAIN Tail(todo[t]) = 1 .. (Len(todo[t]) - 1)
      /\ \A i \in 1 .. (Len(todo[t]) - 1) : Tail(todo[t])[i] = todo[t][i + 1]
      /\ Head(todo[t]) = todo[t][1] /\ Head(todo[t]) \in Kinds
  BY ONLY <1>1, todo[t] /= << >>, TailIs
<1>3. Len(bufs[t]) \in Nat
  BY ONLY <1>1, LenProperties
<1>4. Len(todo[t]) + Len(bufs[t]) <= MaxBuffers
  BY DEF DirectInv, Calls, InHand, BuffersFit
<1>5. Len(bufs[t]) < MaxBuffers
  <2>1. MaxBuffers \in Nat
    BY DirectDeviceAssumption
  <2>2. Len(todo[t]) \in Nat \ {0}
    BY ONLY <1>2
  <2> QED
    BY ONLY <1>3, <1>4, <2>1, <2>2, Room
<1>6. 1 \in DOMAIN todo[t] /\ \A i \in DOMAIN Tail(todo[t]) : i + 1 \in DOMAIN todo[t]
  BY ONLY <1>2
<1> QED
  BY <1>2, <1>3, <1>5, <1>6

\* A buffer the command has.
LEMMA FirstBuffer ==
    ASSUME DirectInv, NEW t \in Clients, bufs[t] /= << >>
    PROVE  /\ InCommand(t) /\ Head(bufs[t]) \in BufferSet
           /\ Len(bufs[t]) <= MaxBuffers /\ Len(bufs[t]) \in Nat \ {0}
           /\ Head(bufs[t]) = bufs[t][1] /\ DOMAIN bufs[t] = 1 .. Len(bufs[t])
           /\ DOMAIN Tail(bufs[t]) = 1 .. (Len(bufs[t]) - 1)
           /\ Len(Tail(bufs[t])) = Len(bufs[t]) - 1
           /\ Tail(bufs[t]) \in Seq(BufferSet)
           /\ \A i \in 1 .. (Len(bufs[t]) - 1) : Tail(bufs[t])[i] = bufs[t][i + 1]
           /\ Head(bufs[t]).kind = "HOST" => Head(bufs[t]).fds = {}
<1>1. todo[t] \in Seq(Kinds) /\ bufs[t] \in Seq(BufferSet)
  BY DEF DirectInv, DirectTypes, DirectTypeOK, BufferSet
<1>2. /\ Head(bufs[t]) \in BufferSet /\ Len(bufs[t]) \in Nat \ {0}
      /\ Head(bufs[t]) = bufs[t][1] /\ DOMAIN bufs[t] = 1 .. Len(bufs[t])
      /\ DOMAIN Tail(bufs[t]) = 1 .. (Len(bufs[t]) - 1)
      /\ Len(Tail(bufs[t])) = Len(bufs[t]) - 1
      /\ Tail(bufs[t]) \in Seq(BufferSet)
      /\ \A i \in 1 .. (Len(bufs[t]) - 1) : Tail(bufs[t])[i] = bufs[t][i + 1]
  BY ONLY <1>1, bufs[t] /= << >>, TailIs
<1>3. Len(todo[t]) \in Nat
  BY ONLY <1>1, LenProperties
<1>4. Len(todo[t]) + Len(bufs[t]) <= MaxBuffers
  BY DEF DirectInv, Calls, InHand, BuffersFit
<1>5. Len(bufs[t]) <= MaxBuffers
  <2>1. MaxBuffers \in Nat
    BY DirectDeviceAssumption
  <2>2. Len(bufs[t]) \in Nat \ {0}
    BY ONLY <1>2
  <2> QED
    BY ONLY <1>3, <1>4, <2>1, <2>2, Room
<1>6. InCommand(t)
  BY DEF DirectInv, Calls, InHand, BuffersFit
<1>7. 1 \in DOMAIN bufs[t]
  BY ONLY <1>2
<1>8. Head(bufs[t]).kind = "HOST" => Head(bufs[t]).fds = {}
  <2>1. bufs[t][1].kind = "HOST" => bufs[t][1].fds = {}
    BY <1>7 DEF DirectInv, Calls, InHand, BuffersFit
  <2> QED
    BY ONLY <1>2, <2>1
<1> QED
  BY <1>2, <1>5, <1>6, <1>8

\* A new device, at an address nothing refers to.
LEMMA DeviceComes ==
    ASSUME DirectTypes, DevicesInv, NEW a \in Addresses, dev[a] = NoDevice,
           NEW d \in DeviceSet, d.type /= "NONE", d.ref = 1,
           d.type = "NORMAL" =>
              Unpack(d) \in Addresses /\ dev[Unpack(d)].type = "NEWMODE",
           dev' = [dev EXCEPT ![a] = d]
    PROVE  /\ dev' \in [Addresses -> DeviceSet]
           /\ dev'[a] = d /\ \A b \in Addresses \ {a} : dev'[b] = dev[b]
           /\ HandlesOn(a) = {} /\ NormalsOn(a) = {} /\ OpensOn(a) = {}
           /\ BuffersOn(a) = {} /\ lostRefs[a] = 0 /\ dev[a].ref = 0
           /\ \A b \in Addresses : IF dev'[b].type = "NONE" THEN dev'[b] = NoDevice
                                                             ELSE dev'[b].ref > 0
           /\ \A n \in Addresses : dev'[n].type = "NORMAL" =>
                 Unpack(dev'[n]) \in Addresses /\ dev'[Unpack(dev'[n])].type = "NEWMODE"
           /\ \A x \in Addresses :
                 Cardinality(NormalsOn(x)') = Cardinality(NormalsOn(x))
                     + (IF d.type = "NORMAL" /\ Unpack(d) = x THEN 1 ELSE 0)
<1>1. /\ dev' \in [Addresses -> DeviceSet]
      /\ dev'[a] = d /\ \A b \in Addresses \ {a} : dev'[b] = dev[b]
  BY DEF DirectTypes, DirectTypeOK, DeviceSet
<1>2. dev[a].ref = 0 /\ dev[a].type = "NONE"
  BY DEF NoDevice
<1>3. /\ HandlesOn(a) = {} /\ NormalsOn(a) = {} /\ OpensOn(a) = {}
      /\ BuffersOn(a) = {} /\ lostRefs[a] = 0
  BY <1>2, CountsZero DEF DevicesInv
<1>4. \A b \in Addresses : IF dev'[b].type = "NONE" THEN dev'[b] = NoDevice
                                                    ELSE dev'[b].ref > 0
  BY <1>1 DEF DevicesInv, DevicesSound
<1>5. \A n \in Addresses : dev'[n].type = "NORMAL" =>
         Unpack(dev'[n]) \in Addresses /\ dev'[Unpack(dev'[n])].type = "NEWMODE"
  BY <1>1, <1>2 DEF DevicesInv, DevicesSound
<1>6. \A x \in Addresses :
         Cardinality(NormalsOn(x)') = Cardinality(NormalsOn(x))
             + (IF d.type = "NORMAL" /\ Unpack(d) = x THEN 1 ELSE 0)
  <2> SUFFICES ASSUME NEW x \in Addresses
               PROVE  Cardinality(NormalsOn(x)') = Cardinality(NormalsOn(x))
                         + (IF d.type = "NORMAL" /\ Unpack(d) = x THEN 1 ELSE 0)
    OBVIOUS
  <2>1. IsFiniteSet(NormalsOn(x)) /\ Cardinality(NormalsOn(x)) \in Nat
    BY CountsFinite
  <2>2. a \notin NormalsOn(x)
    BY <1>2 DEF NormalsOn
  <2>3. CASE d.type = "NORMAL" /\ Unpack(d) = x
    <3>1. NormalsOn(x)' = NormalsOn(x) \cup {a}
      BY <1>1, <2>3 DEF NormalsOn
    <3>2. Cardinality(NormalsOn(x)') = Cardinality(NormalsOn(x)) + 1
      BY ONLY <2>1, <2>2, <3>1, FS_AddElement
    <3> QED
      BY ONLY <2>3, <3>2
  <2>4. CASE ~(d.type = "NORMAL" /\ Unpack(d) = x)
    <3>1. NormalsOn(x)' = NormalsOn(x)
      BY <1>1, <1>2, <2>4 DEF NormalsOn
    <3> QED
      BY ONLY <2>1, <2>4, <3>1
  <2> QED
    BY <2>3, <2>4
<1> QED
  BY <1>1, <1>2, <1>3, <1>4, <1>5, <1>6

\* Its handle leads to it and to no other.
LEMMA HandleComes ==
    ASSUME DirectTypes, HandlesLeadToDevices, NEW a \in Addresses,
           dev[a].type = "NONE", HandlesOn(a) = {},
           NEW h, Target(h) = a, handles' = handles \cup {h},
           dev'[a].type = (IF h.api = "normal" THEN "NORMAL" ELSE "NEWMODE"),
           \A b \in Addresses \ {a} : dev'[b] = dev[b]
    PROVE  /\ HandlesLeadToDevices'
           /\ \A x \in Addresses :
                 Cardinality(HandlesOn(x)') = Cardinality(HandlesOn(x))
                                                + (IF x = a THEN 1 ELSE 0)
<1>1. \A g \in handles : Target(g) /= a
  BY DEF HandlesOn
<1>2. HandlesLeadToDevices'
  BY <1>1 DEF HandlesLeadToDevices
<1>3. \A x \in Addresses :
         Cardinality(HandlesOn(x)') = Cardinality(HandlesOn(x))
                                        + (IF x = a THEN 1 ELSE 0)
  <2> SUFFICES ASSUME NEW x \in Addresses
               PROVE  Cardinality(HandlesOn(x)') = Cardinality(HandlesOn(x))
                                                     + (IF x = a THEN 1 ELSE 0)
    OBVIOUS
  <2>1. IsFiniteSet(HandlesOn(x)) /\ Cardinality(HandlesOn(x)) \in Nat
    BY CountsFinite
  <2>2. CASE x = a
    <3>1. HandlesOn(x)' = HandlesOn(x) \cup {h} /\ h \notin HandlesOn(x)
      BY <2>2 DEF HandlesOn
    <3>2. Cardinality(HandlesOn(x)') = Cardinality(HandlesOn(x)) + 1
      BY ONLY <2>1, <3>1, FS_AddElement
    <3> QED
      BY ONLY <2>2, <3>2
  <2>3. CASE x /= a
    <3>1. HandlesOn(x)' = HandlesOn(x)
      BY <2>3 DEF HandlesOn
    <3> QED
      BY ONLY <2>1, <2>3, <3>1
  <2> QED
    BY <2>2, <2>3
<1> QED
  BY <1>2, <1>3

-----------------------------------------------------------------------------
(***************************************************************************)
(* The devices under each action.                                          *)
(***************************************************************************)

\* One thread more or less has a device in an open under way.
LEMMA OpensChange ==
    ASSUME DirectTypes, NEW t \in Clients, NEW a \in Addresses \cup {0},
           inner' = [inner EXCEPT ![t] = a], NEW x \in Addresses
    PROVE  Cardinality(OpensOn(x)') = Cardinality(OpensOn(x))
               + (IF a = x THEN 1 ELSE 0) - (IF inner[t] = x THEN 1 ELSE 0)
<1>1. inner'[t] = a /\ \A u \in Clients \ {t} : inner'[u] = inner[u]
  BY DEF DirectTypes, DirectTypeOK
<1>2. IsFiniteSet(OpensOn(x)) /\ Cardinality(OpensOn(x)) \in Nat
  BY CountsFinite
<1>3. CASE a = x /\ inner[t] /= x
  <2>1. OpensOn(x)' = OpensOn(x) \cup {t} /\ t \notin OpensOn(x)
    BY <1>1, <1>3 DEF OpensOn
  <2>2. Cardinality(OpensOn(x)') = Cardinality(OpensOn(x)) + 1
    BY ONLY <1>2, <2>1, FS_AddElement
  <2> QED
    BY ONLY <1>2, <1>3, <2>2
<1>4. CASE a /= x /\ inner[t] = x
  <2>1. OpensOn(x)' = OpensOn(x) \ {t} /\ t \in OpensOn(x)
    BY <1>1, <1>4 DEF OpensOn
  <2>2. Cardinality(OpensOn(x)') = Cardinality(OpensOn(x)) - 1
    BY ONLY <1>2, <2>1, FS_RemoveElement
  <2> QED
    BY ONLY <1>2, <1>4, <2>2
<1>5. CASE a = x <=> inner[t] = x
  <2>1. OpensOn(x)' = OpensOn(x)
    BY <1>1, <1>5 DEF OpensOn
  <2> QED
    BY ONLY <1>2, <1>5, <2>1
<1> QED
  BY <1>3, <1>4, <1>5

\* The counters are exact again when each has changed like what it counts.
LEMMA CountsFollow ==
    ASSUME DirectTypes, DeviceRefsExact,
           \A x \in Addresses :
              /\ Cardinality(HandlesOn(x)') \in Int /\ Cardinality(NormalsOn(x)') \in Int
              /\ Cardinality(OpensOn(x)') \in Int /\ Cardinality(BuffersOn(x)') \in Int
              /\ lostRefs'[x] \in Int
              /\ dev'[x].ref - dev[x].ref =
                    (Cardinality(HandlesOn(x)') - Cardinality(HandlesOn(x)))
                      + (Cardinality(NormalsOn(x)') - Cardinality(NormalsOn(x)))
                      + (Cardinality(OpensOn(x)') - Cardinality(OpensOn(x)))
                      + (Cardinality(BuffersOn(x)') - Cardinality(BuffersOn(x)))
                      + (lostRefs'[x] - lostRefs[x]),
           dev' \in [Addresses -> DeviceSet]
    PROVE  DeviceRefsExact'
<1>1. \A x \in Addresses :
         dev'[x].ref = Cardinality(HandlesOn(x)') + Cardinality(NormalsOn(x)')
                         + Cardinality(OpensOn(x)') + Cardinality(BuffersOn(x)')
                         + lostRefs'[x]
  <2> SUFFICES ASSUME NEW x \in Addresses
               PROVE  dev'[x].ref = Cardinality(HandlesOn(x)')
                         + Cardinality(NormalsOn(x)') + Cardinality(OpensOn(x)')
                         + Cardinality(BuffersOn(x)') + lostRefs'[x]
    OBVIOUS
  <2>1. dev'[x].ref \in Int
    BY DEF DeviceSet
  <2>2. /\ dev[x].ref = Cardinality(HandlesOn(x)) + Cardinality(NormalsOn(x))
                           + Cardinality(OpensOn(x)) + Cardinality(BuffersOn(x))
                           + lostRefs[x]
        /\ lostRefs[x] \in Nat
    BY CountsSum
  <2>3. /\ Cardinality(HandlesOn(x)) \in Nat /\ Cardinality(NormalsOn(x)) \in Nat
        /\ Cardinality(OpensOn(x)) \in Nat /\ Cardinality(BuffersOn(x)) \in Nat
    BY CountsFinite
  <2>4. /\ Cardinality(HandlesOn(x)') \in Int /\ Cardinality(NormalsOn(x)') \in Int
        /\ Cardinality(OpensOn(x)') \in Int /\ Cardinality(BuffersOn(x)') \in Int
        /\ lostRefs'[x] \in Int
        /\ dev'[x].ref - dev[x].ref =
              (Cardinality(HandlesOn(x)') - Cardinality(HandlesOn(x)))
                + (Cardinality(NormalsOn(x)') - Cardinality(NormalsOn(x)))
                + (Cardinality(OpensOn(x)') - Cardinality(OpensOn(x)))
                + (Cardinality(BuffersOn(x)') - Cardinality(BuffersOn(x)))
                + (lostRefs'[x] - lostRefs[x])
    OBVIOUS
  <2> QED
    BY ONLY <2>1, <2>2, <2>3, <2>4
<1> QED
  BY <1>1 DEF DeviceRefsExact, HandlesOn, Keepers, NormalsOn, OpensOn

\* xrp_open_device_newmode, and the caller given the device.
LEMMA NewDeviceKeepsDevices ==
    ASSUME DirectInv, NEW t \in Clients, NEW a \in Addresses, NewDevice(t, a)
    PROVE  DevicesInv' /\ dev' \in [Addresses -> DeviceSet]
<1> DEFINE d == [type |-> "NEWMODE", ref |-> 1, fd |-> opened[t], generation |-> 0]
<1>1. DirectTypes /\ DevicesInv /\ Calls
  BY DEF DirectInv, DevicesInv
<1>2. dev[a] = NoDevice /\ dev' = [dev EXCEPT ![a] = d]
  BY DEF NewDevice
<1>3. d \in DeviceSet /\ d.type = "NEWMODE" /\ d.ref = 1
  <2>1. opened[t] \in Int /\ Word \in Nat \ {0}
    BY <1>1, NumbersAre DEF DirectTypes, DirectTypeOK
  <2> QED
    BY ONLY <2>1 DEF DeviceSet
<1>4. inner[t] = 0
  BY <1>1 DEF Calls, InHand, BuffersFit, NewDevice, Opens
<1> HIDE DEF d
<1>5. /\ dev' \in [Addresses -> DeviceSet]
      /\ dev'[a] = d /\ \A b \in Addresses \ {a} : dev'[b] = dev[b]
      /\ HandlesOn(a) = {} /\ dev[a].ref = 0
      /\ \A b \in Addresses : IF dev'[b].type = "NONE" THEN dev'[b] = NoDevice
                                                        ELSE dev'[b].ref > 0
      /\ \A n \in Addresses : dev'[n].type = "NORMAL" =>
            Unpack(dev'[n]) \in Addresses /\ dev'[Unpack(dev'[n])].type = "NEWMODE"
      /\ \A x \in Addresses : Cardinality(NormalsOn(x)') = Cardinality(NormalsOn(x)) + 0
  BY <1>1, <1>2, <1>3, DeviceComes
<1>6. \A x : BuffersOn(x)' = BuffersOn(x)
  BY BuffersSame DEF NewDevice, commandVars
<1>7. /\ \A x \in Addresses : dev'[x].ref = dev[x].ref + (IF x = a THEN 1 ELSE 0)
      /\ \A x \in Addresses : dev[x].ref \in Nat /\ lostRefs[x] \in Nat
  BY <1>1, <1>3, <1>5 DEF DirectTypes, DirectTypeOK
<1>8. lostRefs' = lostRefs
  BY DEF NewDevice, lostVars
<1>9. CASE point[t] = "normal"
  <2>1. inner' = [inner EXCEPT ![t] = a] /\ handles' = handles
    BY <1>9 DEF NewDevice
  <2>2. \A x \in Addresses : Cardinality(OpensOn(x)') =
                                Cardinality(OpensOn(x)) + (IF a = x THEN 1 ELSE 0)
    <3> SUFFICES ASSUME NEW x \in Addresses
                 PROVE  Cardinality(OpensOn(x)') =
                          Cardinality(OpensOn(x)) + (IF a = x THEN 1 ELSE 0)
      OBVIOUS
    <3>1. inner[t] /= x
      BY <1>4, NumbersAre
    <3>2. Cardinality(OpensOn(x)') =
             Cardinality(OpensOn(x)) + (IF a = x THEN 1 ELSE 0) - 0
      BY <1>1, <2>1, <3>1, OpensChange
    <3>3. Cardinality(OpensOn(x)) \in Nat
      BY <1>1, CountsFinite
    <3> QED
      BY ONLY <3>2, <3>3
  <2>3. \A x : HandlesOn(x)' = HandlesOn(x)
    BY <2>1 DEF HandlesOn
  <2>4. HandlesLeadToDevices'
    BY <1>1, <1>2, <1>5, <2>1 DEF DevicesInv, HandlesLeadToDevices, HandlesOn
  <2>5. DevicesSound'
    <3>1. \A u \in Clients : inner[u] /= 0 => dev[inner[u]].type = "NEWMODE"
      BY <1>1 DEF DevicesInv, DevicesSound
    <3>2. inner \in [Clients -> Addresses \cup {0}] /\ dev[a].type = "NONE"
      BY <1>1, <1>2 DEF DirectTypes, DirectTypeOK, NoDevice
    <3>3. \A u \in Clients : inner'[u] /= 0 => dev'[inner'[u]].type = "NEWMODE"
      BY ONLY <1>3, <1>5, <2>1, <3>1, <3>2
    <3> QED
      BY ONLY <1>5, <3>3 DEF DevicesSound
  <2>6. DeviceRefsExact'
    BY <1>1, <1>5, <1>6, <1>7, <1>8, <2>2, <2>3, CountsFinite, CountsFollow
       DEF DevicesInv
  <2> QED
    BY <1>5, <2>4, <2>5, <2>6 DEF DevicesInv
<1>10. CASE point[t] /= "normal"
  <2>1. PICK h : /\ handles' = handles \cup {h} /\ h.api /= "normal"
                 /\ Target(h) = a
    <3>1. /\ Target([api |-> "direct", addr |-> a]) = a
          /\ Target([api |-> "packed", fd |-> Pack(a).fd,
                     generation |-> Pack(a).generation]) = a
      BY SplitAddress, UnpackSame DEF Target
    <3> QED
      BY <1>10, <3>1 DEF NewDevice
  <2>2. inner' = inner
    BY <1>10 DEF NewDevice
  <2>3. /\ HandlesLeadToDevices'
        /\ \A x \in Addresses :
              Cardinality(HandlesOn(x)') = Cardinality(HandlesOn(x))
                                             + (IF x = a THEN 1 ELSE 0)
    <3>1. dev[a].type = "NONE"
      BY <1>2 DEF NoDevice
    <3> QED
      BY <1>1, <1>3, <1>5, <2>1, <3>1, HandleComes DEF DevicesInv
  <2>4. \A x : OpensOn(x)' = OpensOn(x)
    BY <2>2 DEF OpensOn
  <2>5. DevicesSound'
    BY <1>1, <1>3, <1>5, <2>2
       DEF DevicesInv, DevicesSound, DirectTypes, DirectTypeOK
  <2>6. DeviceRefsExact'
    BY <1>1, <1>5, <1>6, <1>7, <1>8, <2>3, <2>4, CountsFinite, CountsFollow
       DEF DevicesInv
  <2> QED
    BY <1>5, <2>3, <2>5, <2>6 DEF DevicesInv
<1> QED
  BY <1>9, <1>10

\* The rest of xrp_open_device.
LEMMA WrapKeepsDevices ==
    ASSUME DirectInv, NEW t \in Clients, NEW a \in Addresses, Wrap(t, a)
    PROVE  DevicesInv' /\ dev' \in [Addresses -> DeviceSet]
<1> DEFINE d == [type |-> "NORMAL", ref |-> 1, fd |-> Pack(inner[t]).fd,
                 generation |-> Pack(inner[t]).generation]
           h == [api |-> "normal", addr |-> a]
<1>1. DirectTypes /\ DevicesInv /\ Calls
  BY DEF DirectInv, DevicesInv
<1>2. dev[a] = NoDevice /\ dev' = [dev EXCEPT ![a] = d] /\ dev[a].type = "NONE"
  BY DEF Wrap, NoDevice
<1>3. inner[t] \in Addresses /\ dev[inner[t]].type = "NEWMODE" /\ inner[t] /= 0
  <2>1. inner[t] /= 0
    BY <1>1 DEF Calls, InHand, BuffersFit, Wrap
  <2> QED
    BY <1>1, <2>1 DEF DirectTypes, DirectTypeOK, DevicesInv, DevicesSound
<1>4. Unpack(Pack(inner[t])) = inner[t] /\ Pack(inner[t]).fd \in Int
      /\ Pack(inner[t]).generation \in 0 .. Word - 1
  BY <1>3, SplitAddress
<1>5. d \in DeviceSet /\ d.type = "NORMAL" /\ d.ref = 1 /\ Unpack(d) = inner[t]
  <2>1. Unpack(d) = Unpack(Pack(inner[t]))
    BY UnpackSame
  <2>2. d \in DeviceSet
    BY ONLY <1>4 DEF DeviceSet
  <2> QED
    BY ONLY <1>4, <2>1, <2>2
<1>6. Target(h) = a /\ h.api = "normal"
  BY DEF Target
<1> HIDE DEF d, h
<1>7. /\ dev' \in [Addresses -> DeviceSet]
      /\ dev'[a] = d /\ \A b \in Addresses \ {a} : dev'[b] = dev[b]
      /\ HandlesOn(a) = {} /\ dev[a].ref = 0
      /\ \A b \in Addresses : IF dev'[b].type = "NONE" THEN dev'[b] = NoDevice
                                                        ELSE dev'[b].ref > 0
      /\ \A n \in Addresses : dev'[n].type = "NORMAL" =>
            Unpack(dev'[n]) \in Addresses /\ dev'[Unpack(dev'[n])].type = "NEWMODE"
      /\ \A x \in Addresses : Cardinality(NormalsOn(x)') = Cardinality(NormalsOn(x))
                                             + (IF inner[t] = x THEN 1 ELSE 0)
  <2>1. d.type = "NORMAL" =>
           Unpack(d) \in Addresses /\ dev[Unpack(d)].type = "NEWMODE"
    BY ONLY <1>3, <1>5
  <2>2. d \in DeviceSet /\ d.type /= "NONE" /\ d.ref = 1
    BY ONLY <1>5
  <2>3. /\ dev' \in [Addresses -> DeviceSet]
        /\ dev'[a] = d /\ \A b \in Addresses \ {a} : dev'[b] = dev[b]
        /\ HandlesOn(a) = {} /\ dev[a].ref = 0
        /\ \A b \in Addresses : IF dev'[b].type = "NONE" THEN dev'[b] = NoDevice
                                                          ELSE dev'[b].ref > 0
        /\ \A n \in Addresses : dev'[n].type = "NORMAL" =>
              Unpack(dev'[n]) \in Addresses /\ dev'[Unpack(dev'[n])].type = "NEWMODE"
        /\ \A x \in Addresses : Cardinality(NormalsOn(x)') = Cardinality(NormalsOn(x))
                  + (IF d.type = "NORMAL" /\ Unpack(d) = x THEN 1 ELSE 0)
    BY ONLY <1>1, <1>2, <2>1, <2>2, DeviceComes, ZenonT(60)
  <2> QED
    BY ONLY <1>5, <2>3
<1>8. \A x : BuffersOn(x)' = BuffersOn(x)
  BY BuffersSame DEF Wrap, commandVars
<1>9. /\ \A x \in Addresses : dev'[x].ref = dev[x].ref + (IF x = a THEN 1 ELSE 0)
      /\ \A x \in Addresses : dev[x].ref \in Nat /\ lostRefs[x] \in Nat
  BY <1>1, <1>5, <1>7 DEF DirectTypes, DirectTypeOK
<1>10. lostRefs' = lostRefs /\ inner' = [inner EXCEPT ![t] = 0]
  BY DEF Wrap, lostVars
<1>11. \A x \in Addresses : Cardinality(OpensOn(x)') =
                              Cardinality(OpensOn(x)) - (IF inner[t] = x THEN 1 ELSE 0)
  <2> SUFFICES ASSUME NEW x \in Addresses
               PROVE  Cardinality(OpensOn(x)') =
                        Cardinality(OpensOn(x)) - (IF inner[t] = x THEN 1 ELSE 0)
    OBVIOUS
  <2>1. 0 /= x
    BY NumbersAre
  <2>2. Cardinality(OpensOn(x)') = Cardinality(OpensOn(x)) + 0
                                     - (IF inner[t] = x THEN 1 ELSE 0)
    BY <1>1, <1>10, <2>1, OpensChange
  <2>3. Cardinality(OpensOn(x)) \in Nat
    BY <1>1, CountsFinite
  <2> QED
    BY ONLY <2>2, <2>3
<1>12. /\ HandlesLeadToDevices'
       /\ \A x \in Addresses :
             Cardinality(HandlesOn(x)') = Cardinality(HandlesOn(x))
                                            + (IF x = a THEN 1 ELSE 0)
  <2>1. handles' = handles \cup {h}
    BY DEF Wrap, h
  <2> QED
    BY <1>1, <1>2, <1>5, <1>6, <1>7, <2>1, HandleComes DEF DevicesInv
<1>13. DevicesSound'
  <2>1. \A u \in Clients : inner'[u] /= 0 => inner[u] /= 0 /\ inner'[u] = inner[u]
                                                /\ inner[u] \in Addresses
    BY <1>1, <1>10 DEF DirectTypes, DirectTypeOK
  <2>2. \A u \in Clients : inner'[u] /= 0 => dev'[inner'[u]].type = "NEWMODE"
    BY <1>1, <1>2, <1>7, <2>1 DEF DevicesInv, DevicesSound
  <2> QED
    BY <1>7, <2>2 DEF DevicesSound
<1>14. DeviceRefsExact'
  <2>1. ASSUME NEW x \in Addresses
        PROVE  /\ Cardinality(HandlesOn(x)') \in Int /\ Cardinality(NormalsOn(x)') \in Int
               /\ Cardinality(OpensOn(x)') \in Int /\ Cardinality(BuffersOn(x)') \in Int
               /\ lostRefs'[x] \in Int
               /\ dev'[x].ref - dev[x].ref =
                     (Cardinality(HandlesOn(x)') - Cardinality(HandlesOn(x)))
                       + (Cardinality(NormalsOn(x)') - Cardinality(NormalsOn(x)))
                       + (Cardinality(OpensOn(x)') - Cardinality(OpensOn(x)))
                       + (Cardinality(BuffersOn(x)') - Cardinality(BuffersOn(x)))
                       + (lostRefs'[x] - lostRefs[x])
    <3>1. /\ Cardinality(HandlesOn(x)) \in Nat /\ Cardinality(NormalsOn(x)) \in Nat
          /\ Cardinality(OpensOn(x)) \in Nat /\ Cardinality(BuffersOn(x)) \in Nat
          /\ dev[x].ref \in Nat /\ lostRefs[x] \in Nat
      BY <1>1, <1>9, CountsFinite
    <3>2. /\ dev'[x].ref = dev[x].ref + (IF x = a THEN 1 ELSE 0)
          /\ Cardinality(HandlesOn(x)') = Cardinality(HandlesOn(x))
                                              + (IF x = a THEN 1 ELSE 0)
          /\ Cardinality(NormalsOn(x)') = Cardinality(NormalsOn(x))
                                              + (IF inner[t] = x THEN 1 ELSE 0)
          /\ Cardinality(OpensOn(x)') = Cardinality(OpensOn(x))
                                            - (IF inner[t] = x THEN 1 ELSE 0)
          /\ BuffersOn(x)' = BuffersOn(x) /\ lostRefs' = lostRefs
      BY <1>7, <1>8, <1>9, <1>10, <1>11, <1>12
    <3> QED
      BY ONLY <3>1, <3>2
  <2> QED
    BY <1>1, <1>7, <2>1, CountsFollow DEF DevicesInv
<1> QED
  BY <1>7, <1>12, <1>13, <1>14 DEF DevicesInv

\* Its failure.
LEMMA NoMemoryToWrapKeepsDevices ==
    ASSUME DirectInv, NEW t \in Clients, NoMemoryToWrap(t)
    PROVE  DevicesInv'
<1>1. DirectTypes /\ DevicesInv /\ Calls
  BY DEF DirectInv, DevicesInv
<1>2. inner[t] \in Addresses /\ inner[t] /= 0
  <2>1. inner[t] /= 0
    BY <1>1 DEF Calls, InHand, BuffersFit, NoMemoryToWrap
  <2> QED
    BY <1>1, <2>1 DEF DirectTypes, DirectTypeOK
<1>3. /\ lostRefs' = [lostRefs EXCEPT ![inner[t]] = @ + 1]
      /\ inner' = [inner EXCEPT ![t] = 0] /\ UNCHANGED <<dev, handles>>
      /\ \A x : BuffersOn(x)' = BuffersOn(x)
  BY BuffersSame DEF NoMemoryToWrap, commandVars, deviceVars
<1>4. \A x \in Addresses : Cardinality(OpensOn(x)') =
                              Cardinality(OpensOn(x)) - (IF inner[t] = x THEN 1 ELSE 0)
  <2> SUFFICES ASSUME NEW x \in Addresses
               PROVE  Cardinality(OpensOn(x)') =
                        Cardinality(OpensOn(x)) - (IF inner[t] = x THEN 1 ELSE 0)
    OBVIOUS
  <2>1. 0 /= x
    BY NumbersAre
  <2>2. Cardinality(OpensOn(x)') = Cardinality(OpensOn(x)) + 0
                                     - (IF inner[t] = x THEN 1 ELSE 0)
    BY <1>1, <1>3, <2>1, OpensChange
  <2>3. Cardinality(OpensOn(x)) \in Nat
    BY <1>1, CountsFinite
  <2> QED
    BY ONLY <2>2, <2>3
<1>5. \A x \in Addresses :
         /\ lostRefs'[x] = lostRefs[x] + (IF inner[t] = x THEN 1 ELSE 0)
         /\ lostRefs[x] \in Nat /\ dev'[x].ref = dev[x].ref /\ dev[x].ref \in Nat
  BY <1>1, <1>3 DEF DirectTypes, DirectTypeOK
<1>6. \A x : HandlesOn(x)' = HandlesOn(x) /\ NormalsOn(x)' = NormalsOn(x)
  BY <1>3 DEF HandlesOn, NormalsOn
<1>7. HandlesLeadToDevices' /\ DevicesSound'
  <2>1. HandlesLeadToDevices'
    BY <1>1, <1>3 DEF DevicesInv, HandlesLeadToDevices
  <2>2. \A u \in Clients : inner'[u] /= 0 => inner'[u] = inner[u]
    BY <1>1, <1>3 DEF DirectTypes, DirectTypeOK
  <2> QED
    BY <1>1, <1>3, <2>1, <2>2 DEF DevicesInv, DevicesSound
<1>8. DeviceRefsExact'
  <2>1. dev' \in [Addresses -> DeviceSet]
    BY <1>1, <1>3 DEF DirectTypes, DirectTypeOK, DeviceSet
  <2> QED
    BY <1>1, <1>3, <1>4, <1>5, <1>6, <2>1, CountsFinite, CountsFollow DEF DevicesInv
<1> QED
  BY <1>7, <1>8 DEF DevicesInv

\* sprd_cavdsp_close_device and xrp_release_device: the device goes with the
\* last that referred to it, and so does the one it keeps.
LEMMA CloseKeepsDevices ==
    ASSUME DirectInv, NEW t \in Clients, NEW h \in handles, Close(t, h)
    PROVE  DevicesInv' /\ dev' \in [Addresses -> DeviceSet]
<1>1. DirectTypes /\ DevicesInv /\ DevicesSound /\ HandlesLeadToDevices /\ DeviceRefsExact
  BY DEF DirectInv, DevicesInv
<1>2. PICK a \in Addresses : a = Target(h) /\ dev[a].type /= "NONE"
  BY <1>1 DEF HandlesLeadToDevices
<1>3. h \in HandlesOn(a) /\ Release(a, {}) /\ handles' = handles \ {h}
  BY <1>2 DEF Close, HandlesOn
<1>4. /\ dev' \in [Addresses -> DeviceSet]
      /\ a \in Dropped(a) /\ Dropped(a) \subseteq Addresses
      /\ \A d \in Dropped(a) : dev[d].type /= "NONE" /\ dev[d].ref \in Nat \ {0}
      /\ Freed(a) \subseteq Dropped(a)
      /\ \A d \in Freed(a) : dev'[d] = NoDevice
      /\ \A d \in Addresses \ Freed(a) :
            /\ dev'[d].type = dev[d].type /\ dev'[d].fd = dev[d].fd
            /\ dev'[d].generation = dev[d].generation
            /\ IF dev[d].type = "NONE" THEN dev'[d] = dev[d] ELSE dev'[d].ref > 0
      /\ \A d \in Addresses :
            dev'[d].ref = dev[d].ref - (IF d \in Dropped(a) THEN 1 ELSE 0)
  BY <1>1, <1>2, <1>3, ReleaseDevices
<1>5. \A x \in Dropped(a) \ {a} :
         /\ dev[a].ref = 1 /\ dev[a].type = "NORMAL" /\ x = Unpack(dev[a])
         /\ x \in Addresses /\ dev[x].type = "NEWMODE" /\ a \in NormalsOn(x)
  BY <1>1 DEF Dropped, DevicesSound, NormalsOn
<1>6. \A x \in Freed(a) : x \in Addresses /\ dev[x].ref = 1
  BY <1>4 DEF Freed
<1>7. dev[a].ref = 1 => a \in Freed(a)
  BY <1>4 DEF Freed
<1>8. \A x \in Freed(a) : /\ NormalsOn(x) \subseteq Freed(a)
                          /\ HandlesOn(x) \subseteq {h} /\ OpensOn(x) = {}
  <2> SUFFICES ASSUME NEW x \in Freed(a)
               PROVE  /\ NormalsOn(x) \subseteq Freed(a)
                      /\ HandlesOn(x) \subseteq {h} /\ OpensOn(x) = {}
    OBVIOUS
  <2>1. CASE x = a
    BY <1>1, <1>3, <1>6, <2>1, LastHandle
  <2>2. CASE x /= a
    BY <1>1, <1>4, <1>5, <1>6, <1>7, <2>2, LastNormal
  <2> QED
    BY <2>1, <2>2
<1>9. UNCHANGED inner /\ handles' \subseteq handles
  BY <1>3 DEF Close, openVars
<1>10. /\ \A u \in Clients : inner[u] \notin Freed(a)
       /\ \A g \in handles' : Target(g) \notin Freed(a)
  BY <1>3, <1>8 DEF OpensOn, HandlesOn
<1>11. /\ DevicesSound' /\ HandlesLeadToDevices'
       /\ \A x : /\ HandlesOn(x)' = HandlesOn(x) \cap handles'
                 /\ NormalsOn(x)' = NormalsOn(x) \ Freed(a)
                 /\ OpensOn(x)' = OpensOn(x)
  <2>1. Freed(a) \in SUBSET Addresses
    BY <1>6
  <2>2. \A x \in Freed(a) : NormalsOn(x) \subseteq Freed(a)
    BY <1>8
  <2>3. \A d \in Freed(a) : dev'[d] = NoDevice
    BY <1>4
  <2>4. \A d \in Addresses \ Freed(a) :
            /\ dev'[d].type = dev[d].type /\ dev'[d].fd = dev[d].fd
            /\ dev'[d].generation = dev[d].generation
            /\ IF dev[d].type = "NONE" THEN dev'[d] = dev[d] ELSE dev'[d].ref > 0
    BY <1>4
  <2> QED
    BY <1>1, <1>9, <1>10, <2>1, <2>2, <2>3, <2>4, DevicesGo
<1>12. \A x : BuffersOn(x)' = BuffersOn(x)
  BY BuffersSame DEF Close, commandVars
<1>13. ASSUME NEW x \in Addresses
       PROVE  /\ Cardinality(HandlesOn(x)') = Cardinality(HandlesOn(x))
                                                 - (IF x = a THEN 1 ELSE 0)
              /\ Cardinality(NormalsOn(x)') = Cardinality(NormalsOn(x))
                     - (IF x \in Dropped(a) \ {a} THEN 1 ELSE 0)
  <2>1. /\ IsFiniteSet(HandlesOn(x)) /\ IsFiniteSet(NormalsOn(x))
        /\ Cardinality(HandlesOn(x)) \in Nat /\ Cardinality(NormalsOn(x)) \in Nat
    BY <1>1, CountsFinite
  <2>2. Cardinality(HandlesOn(x)') = Cardinality(HandlesOn(x)) - (IF x = a THEN 1 ELSE 0)
    <3>1. HandlesOn(x)' = HandlesOn(x) \ {h} /\ (h \in HandlesOn(x) <=> x = a)
      BY <1>2, <1>3, <1>11 DEF HandlesOn
    <3>2. Cardinality(HandlesOn(x)') = IF h \in HandlesOn(x)
                                       THEN Cardinality(HandlesOn(x)) - 1
                                       ELSE Cardinality(HandlesOn(x))
      BY ONLY <2>1, <3>1, FS_RemoveElement
    <3> QED
      BY ONLY <2>1, <3>1, <3>2
  <2>3. CASE x \in Dropped(a) \ {a}
    <3>1. \A n \in Freed(a) : n \in NormalsOn(x) => n = a
      BY <1>4, <1>5, <2>3 DEF NormalsOn
    <3>2. NormalsOn(x)' = NormalsOn(x) \ {a} /\ a \in NormalsOn(x)
      BY <1>5, <1>7, <1>11, <2>3, <3>1
    <3>3. Cardinality(NormalsOn(x)') = Cardinality(NormalsOn(x)) - 1
      BY ONLY <2>1, <3>2, FS_RemoveElement
    <3> QED
      BY ONLY <2>2, <2>3, <3>3
  <2>4. CASE x \notin Dropped(a) \ {a}
    <3>1. ASSUME NEW n \in Freed(a), n \in NormalsOn(x) PROVE FALSE
      <4>1. dev[n].type = "NORMAL" /\ Unpack(dev[n]) = x /\ dev[n].ref = 1
        BY <1>6, <3>1 DEF NormalsOn
      <4>2. n = a
        BY <1>4, <1>5, <4>1
      <4>3. x \in Dropped(a)
        BY <4>1, <4>2 DEF Dropped
      <4>4. dev[x].type = "NEWMODE"
        BY <1>1, <1>6, <4>1 DEF DevicesSound
      <4> QED
        BY <2>4, <4>1, <4>2, <4>3, <4>4
    <3>2. NormalsOn(x)' = NormalsOn(x)
      BY <1>11, <3>1
    <3> QED
      BY ONLY <2>1, <2>2, <2>4, <3>2
  <2> QED
    BY <2>3, <2>4
<1>14. DeviceRefsExact'
  <2>1. ASSUME NEW x \in Addresses
        PROVE  /\ Cardinality(HandlesOn(x)') \in Int /\ Cardinality(NormalsOn(x)') \in Int
               /\ Cardinality(OpensOn(x)') \in Int /\ Cardinality(BuffersOn(x)') \in Int
               /\ lostRefs'[x] \in Int
               /\ dev'[x].ref - dev[x].ref =
                     (Cardinality(HandlesOn(x)') - Cardinality(HandlesOn(x)))
                       + (Cardinality(NormalsOn(x)') - Cardinality(NormalsOn(x)))
                       + (Cardinality(OpensOn(x)') - Cardinality(OpensOn(x)))
                       + (Cardinality(BuffersOn(x)') - Cardinality(BuffersOn(x)))
                       + (lostRefs'[x] - lostRefs[x])
    <3>1. /\ Cardinality(HandlesOn(x)) \in Nat /\ Cardinality(NormalsOn(x)) \in Nat
          /\ Cardinality(OpensOn(x)) \in Nat /\ Cardinality(BuffersOn(x)) \in Nat
          /\ dev[x].ref \in Nat /\ lostRefs[x] \in Nat
      BY <1>1, CountsFinite DEF DirectTypes, DirectTypeOK
    <3>2. lostRefs' = lostRefs
      BY DEF Close, lostVars
    <3>3. /\ dev'[x].ref = dev[x].ref - (IF x \in Dropped(a) THEN 1 ELSE 0)
          /\ Cardinality(HandlesOn(x)') = Cardinality(HandlesOn(x))
                                              - (IF x = a THEN 1 ELSE 0)
          /\ Cardinality(NormalsOn(x)') = Cardinality(NormalsOn(x))
                 - (IF x \in Dropped(a) \ {a} THEN 1 ELSE 0)
          /\ OpensOn(x)' = OpensOn(x) /\ BuffersOn(x)' = BuffersOn(x)
          /\ a \in Dropped(a)
      BY <1>4, <1>11, <1>12, <1>13
    <3> QED
      BY ONLY <3>1, <3>2, <3>3
  <2> QED
    BY <1>1, <1>4, <2>1, CountsFollow DEF DevicesInv
<1> QED
  BY <1>4, <1>11, <1>14 DEF DevicesInv

\* A buffer is created for a device: its counter says so.
OneIf(b) == IF b THEN 1 ELSE 0
TakesDevice(t, x) == Head(todo[t]) = "DEVICE" /\ Target(using[t]) = x

LEMMA NewBufferDevices ==
    ASSUME DirectInv, NEW t \in Clients, NEW fds, NewBuffer(t, fds)
    PROVE  /\ DevicesSound' /\ HandlesLeadToDevices'
           /\ dev' \in [Addresses -> DeviceSet]
           /\ \A x \in Addresses :
                 /\ dev'[x].ref = dev[x].ref + OneIf(TakesDevice(t, x))
                 /\ dev'[x].type = dev[x].type /\ dev'[x].fd = dev[x].fd
           /\ \A x : /\ HandlesOn(x)' = HandlesOn(x) /\ NormalsOn(x)' = NormalsOn(x)
                     /\ OpensOn(x)' = OpensOn(x)
<1>1. /\ DirectTypes /\ DevicesSound /\ HandlesLeadToDevices
      /\ point[t] = "run" /\ todo[t] /= << >>
      /\ UNCHANGED <<handles, inner>>
  BY DEF DirectInv, NewBuffer, openVars
<1>2. CASE Head(todo[t]) = "DEVICE"
  <2>1. InCommand(t)
    BY <1>1 DEF InCommand
  <2>2. PICK a \in Addresses : a = Target(using[t])
    BY <2>1, CommandDevice
  <2>3. dev[a].type /= "NONE" /\ dev[a].ref \in Nat \ {0}
    BY <2>1, <2>2, CommandDevice
  <2>4. dev' = [dev EXCEPT ![a].ref = dev[a].ref + 1]
    BY <1>2, <2>2 DEF NewBuffer, BufferRefsTaken
  <2>5. PICK n \in Nat \ {0} : n = dev[a].ref + 1
    BY ONLY <2>3
  <2>6. dev' = [dev EXCEPT ![a].ref = n] /\ dev[a].type /= "NONE"
    BY <2>3, <2>4, <2>5
  <2>7. /\ DevicesSound' /\ HandlesLeadToDevices'
        /\ dev' \in [Addresses -> DeviceSet]
        /\ dev'[a].ref = n /\ \A b \in Addresses \ {a} : dev'[b].ref = dev[b].ref
        /\ \A b \in Addresses :
              dev'[b].type = dev[b].type /\ dev'[b].fd = dev[b].fd
        /\ \A x : /\ HandlesOn(x)' = HandlesOn(x) /\ NormalsOn(x)' = NormalsOn(x)
                  /\ OpensOn(x)' = OpensOn(x)
    BY <1>1, <2>6, CounterChanges
  <2>8. \A x \in Addresses : dev'[x].ref = dev[x].ref + OneIf(TakesDevice(t, x))
    <3>1. \A x \in Addresses : dev[x].ref \in Nat
      BY <1>1 DEF DirectTypes, DirectTypeOK
    <3>2. \A x \in Addresses : TakesDevice(t, x) <=> x = a
      BY <1>2, <2>2 DEF TakesDevice
    <3> QED
      BY ONLY <2>5, <2>7, <3>1, <3>2 DEF OneIf
  <2> QED
    BY <2>7, <2>8
<1>3. CASE Head(todo[t]) /= "DEVICE"
  <2>1. dev' = dev
    BY <1>3 DEF NewBuffer
  <2>2. DevicesSound' /\ HandlesLeadToDevices'
    BY <1>1, <2>1 DEF DevicesSound, HandlesLeadToDevices
  <2>3. dev' \in [Addresses -> DeviceSet] /\ \A x \in Addresses : dev[x].ref \in Nat
    BY <1>1, <2>1 DEF DirectTypes, DirectTypeOK, DeviceSet
  <2>4. \A x : /\ HandlesOn(x)' = HandlesOn(x) /\ NormalsOn(x)' = NormalsOn(x)
               /\ OpensOn(x)' = OpensOn(x)
    BY <1>1, <2>1 DEF HandlesOn, NormalsOn, OpensOn
  <2>5. \A x \in Addresses : OneIf(TakesDevice(t, x)) = 0
    BY <1>3 DEF OneIf, TakesDevice
  <2> QED
    BY <2>1, <2>2, <2>3, <2>4, <2>5
<1> QED
  BY <1>2, <1>3

\* xrp_create_buffer and xrp_add_buffer_to_group.
LEMMA CreateBufferKeepsDevices ==
    ASSUME DirectInv, NEW t \in Clients, NEW fds \in Allocations, BufferAdded(t, fds)
    PROVE  DevicesInv' /\ dev' \in [Addresses -> DeviceSet]
<1>1. /\ DirectTypes /\ DeviceRefsExact /\ NewBuffer(t, fds)
      /\ point[t] = "run" /\ todo[t] /= << >>
      /\ using' = using /\ lostRefs' = lostRefs
  BY DEF DirectInv, BufferAdded, NewBuffer, lostVars
<1>2. /\ DevicesSound' /\ HandlesLeadToDevices'
      /\ dev' \in [Addresses -> DeviceSet]
      /\ \A x \in Addresses : dev'[x].ref = dev[x].ref + OneIf(TakesDevice(t, x))
      /\ \A x : /\ HandlesOn(x)' = HandlesOn(x) /\ NormalsOn(x)' = NormalsOn(x)
                /\ OpensOn(x)' = OpensOn(x)
  BY <1>1, NewBufferDevices
<1>3. PICK e \in BufferSet : e = [kind |-> Head(todo[t]), fds |-> fds]
  BY <1>1, NextBuffer, AllocationsFree DEF BufferSet
<1>4. /\ bufs' = [bufs EXCEPT ![t] = Append(@, e)] /\ e.kind = Head(todo[t])
      /\ Len(bufs[t]) < MaxBuffers
  BY <1>1, <1>3, NextBuffer DEF BufferAdded
<1>5. \A x : Cardinality(BuffersOn(x)') =
                Cardinality(BuffersOn(x)) + OneIf(TakesDevice(t, x))
  BY <1>1, <1>4, BuffersAppend DEF OneIf, TakesDevice
<1>6. ASSUME NEW x \in Addresses
      PROVE  /\ Cardinality(HandlesOn(x)') \in Int /\ Cardinality(NormalsOn(x)') \in Int
             /\ Cardinality(OpensOn(x)') \in Int /\ Cardinality(BuffersOn(x)') \in Int
             /\ lostRefs'[x] \in Int
             /\ dev'[x].ref - dev[x].ref =
                   (Cardinality(HandlesOn(x)') - Cardinality(HandlesOn(x)))
                     + (Cardinality(NormalsOn(x)') - Cardinality(NormalsOn(x)))
                     + (Cardinality(OpensOn(x)') - Cardinality(OpensOn(x)))
                     + (Cardinality(BuffersOn(x)') - Cardinality(BuffersOn(x)))
                     + (lostRefs'[x] - lostRefs[x])
  <2>1. /\ Cardinality(HandlesOn(x)) \in Nat /\ Cardinality(NormalsOn(x)) \in Nat
        /\ Cardinality(OpensOn(x)) \in Nat /\ Cardinality(BuffersOn(x)) \in Nat
        /\ dev[x].ref \in Nat /\ lostRefs[x] \in Nat
    BY <1>1, CountsFinite DEF DirectTypes, DirectTypeOK
  <2>2. OneIf(TakesDevice(t, x)) \in Int
    BY DEF OneIf
  <2> QED
    BY ONLY <1>1, <1>2, <1>5, <2>1, <2>2
<1>7. DeviceRefsExact'
  BY <1>1, <1>2, <1>6, CountsFollow
<1> QED
  BY <1>2, <1>7 DEF DevicesInv

\* The same with a realloc that fails.
LEMMA BufferNotAddedKeepsDevices ==
    ASSUME DirectInv, NEW t \in Clients, NEW fds \in Allocations,
           BufferNotAdded(t, fds)
    PROVE  DevicesInv' /\ dev' \in [Addresses -> DeviceSet]
<1>1. /\ DirectTypes /\ DeviceRefsExact /\ NewBuffer(t, fds)
      /\ point[t] = "run" /\ todo[t] /= << >>
      /\ using' = using /\ bufs' = bufs
  BY DEF DirectInv, BufferNotAdded, NewBuffer
<1>2. /\ DevicesSound' /\ HandlesLeadToDevices'
      /\ dev' \in [Addresses -> DeviceSet]
      /\ \A x \in Addresses : dev'[x].ref = dev[x].ref + OneIf(TakesDevice(t, x))
      /\ \A x : /\ HandlesOn(x)' = HandlesOn(x) /\ NormalsOn(x)' = NormalsOn(x)
                /\ OpensOn(x)' = OpensOn(x)
  BY <1>1, NewBufferDevices
<1>3. \A x \in Addresses : lostRefs'[x] = lostRefs[x] + OneIf(TakesDevice(t, x))
  <2>1. lostRefs \in [Addresses -> Nat]
    BY <1>1 DEF DirectTypes, DirectTypeOK
  <2>2. CASE Head(todo[t]) = "DEVICE"
    <3>1. lostRefs' = [lostRefs EXCEPT ![Target(using[t])] = @ + 1]
      BY <2>2 DEF BufferNotAdded
    <3> QED
      BY ONLY <2>1, <2>2, <3>1 DEF OneIf, TakesDevice
  <2>3. CASE Head(todo[t]) /= "DEVICE"
    <3>1. lostRefs' = lostRefs
      BY <2>3 DEF BufferNotAdded
    <3> QED
      BY ONLY <2>1, <2>3, <3>1 DEF OneIf, TakesDevice
  <2> QED
    BY <2>2, <2>3
<1>4. \A x : BuffersOn(x)' = BuffersOn(x)
  BY <1>1, BuffersSame
<1>5. ASSUME NEW x \in Addresses
      PROVE  /\ Cardinality(HandlesOn(x)') \in Int /\ Cardinality(NormalsOn(x)') \in Int
             /\ Cardinality(OpensOn(x)') \in Int /\ Cardinality(BuffersOn(x)') \in Int
             /\ lostRefs'[x] \in Int
             /\ dev'[x].ref - dev[x].ref =
                   (Cardinality(HandlesOn(x)') - Cardinality(HandlesOn(x)))
                     + (Cardinality(NormalsOn(x)') - Cardinality(NormalsOn(x)))
                     + (Cardinality(OpensOn(x)') - Cardinality(OpensOn(x)))
                     + (Cardinality(BuffersOn(x)') - Cardinality(BuffersOn(x)))
                     + (lostRefs'[x] - lostRefs[x])
  <2>1. /\ Cardinality(HandlesOn(x)) \in Nat /\ Cardinality(NormalsOn(x)) \in Nat
        /\ Cardinality(OpensOn(x)) \in Nat /\ Cardinality(BuffersOn(x)) \in Nat
        /\ dev[x].ref \in Nat /\ lostRefs[x] \in Nat
    BY <1>1, CountsFinite DEF DirectTypes, DirectTypeOK
  <2>2. OneIf(TakesDevice(t, x)) \in Int
    BY DEF OneIf
  <2> QED
    BY ONLY <1>2, <1>3, <1>4, <2>1, <2>2
<1>6. DeviceRefsExact'
  BY <1>1, <1>2, <1>5, CountsFollow
<1> QED
  BY <1>2, <1>6 DEF DevicesInv

\* xrp_release_buffer: the handle still refers to the device, which stays.
LEMMA BufferKeepsDevice ==
    ASSUME DirectInv, NEW t \in Clients, bufs[t] /= << >>,
           Head(bufs[t]).kind = "DEVICE"
    PROVE  LET a == Target(using[t])
           IN  /\ a \in Addresses /\ dev[a].type /= "NONE" /\ dev[a].ref /= 1
               /\ Dropped(a) = {a} /\ Freed(a) = {}
<1>1. InCommand(t)
  BY FirstBuffer
<1>2. PICK a \in Addresses : a = Target(using[t])
  BY <1>1, CommandDevice
<1>3. dev[a].type /= "NONE" /\ using[t] \in HandlesOn(a)
  BY <1>1, <1>2, CommandDevice
<1>4. <<t, 1>> \in BuffersOn(a)
  <2>1. /\ Len(bufs[t]) <= MaxBuffers /\ Len(bufs[t]) \in Nat \ {0}
        /\ Head(bufs[t]) = bufs[t][1] /\ DOMAIN bufs[t] = 1 .. Len(bufs[t])
    BY FirstBuffer
  <2>2. MaxBuffers \in Nat
    BY DirectDeviceAssumption
  <2>3. 1 \in 1 .. MaxBuffers /\ 1 \in DOMAIN bufs[t]
    BY ONLY <2>1, <2>2
  <2> QED
    BY <1>2, <2>1, <2>3 DEF BuffersOn
<1>5. dev[a].ref /= 1
  BY <1>3, <1>4, LastHandle DEF DirectInv
<1> QED
  BY <1>2, <1>3, <1>5 DEF Dropped, Freed

LEMMA ReleaseBufferKeepsDevices ==
    ASSUME DirectInv, NEW t \in Clients, BufferReleased(t)
    PROVE  DevicesInv' /\ dev' \in [Addresses -> DeviceSet]
<1> DEFINE Gives(x) == Head(bufs[t]).kind = "DEVICE" /\ Target(using[t]) = x
<1>1. /\ DirectTypes /\ DevicesSound /\ HandlesLeadToDevices /\ DeviceRefsExact
      /\ bufs[t] /= << >> /\ bufs' = [bufs EXCEPT ![t] = Tail(@)]
      /\ using' = using /\ UNCHANGED <<handles, inner, lostRefs>>
  BY DEF DirectInv, BufferReleased, openVars, lostVars
<1>2. \A x : Cardinality(BuffersOn(x)') = Cardinality(BuffersOn(x)) - OneIf(Gives(x))
  BY <1>1, FirstBuffer, BuffersTail DEF OneIf
<1>3. /\ DevicesSound' /\ HandlesLeadToDevices'
      /\ dev' \in [Addresses -> DeviceSet]
      /\ \A x \in Addresses : dev'[x].ref = dev[x].ref - OneIf(Gives(x))
      /\ \A x : /\ HandlesOn(x)' = HandlesOn(x) /\ NormalsOn(x)' = NormalsOn(x)
                /\ OpensOn(x)' = OpensOn(x)
  <2>1. CASE Head(bufs[t]).kind = "DEVICE"
    <3>1. PICK a \in Addresses : a = Target(using[t])
      BY <1>1, <2>1, BufferKeepsDevice
    <3>2. dev[a].type /= "NONE" /\ Dropped(a) = {a} /\ Freed(a) = {}
      BY <1>1, <2>1, <3>1, BufferKeepsDevice
    <3>3. Release(a, Head(bufs[t]).fds)
      BY <2>1, <3>1 DEF BufferReleased
    <3>4. /\ dev' \in [Addresses -> DeviceSet]
          /\ \A d \in Addresses \ Freed(a) :
                /\ dev'[d].type = dev[d].type /\ dev'[d].fd = dev[d].fd
                /\ dev'[d].generation = dev[d].generation
                /\ IF dev[d].type = "NONE" THEN dev'[d] = dev[d] ELSE dev'[d].ref > 0
          /\ \A d \in Addresses :
                dev'[d].ref = dev[d].ref - (IF d \in Dropped(a) THEN 1 ELSE 0)
      BY <1>1, <3>2, <3>3, ReleaseDevices
    <3>5. /\ DevicesSound' /\ HandlesLeadToDevices'
          /\ \A x : /\ HandlesOn(x)' = HandlesOn(x) \cap handles'
                    /\ NormalsOn(x)' = NormalsOn(x) \ Freed(a)
                    /\ OpensOn(x)' = OpensOn(x)
      BY <1>1, <3>2, <3>4, DevicesGo
    <3>6. \A x : HandlesOn(x) \subseteq handles
      BY DEF HandlesOn
    <3>7. \A x \in Addresses : dev'[x].ref = dev[x].ref - OneIf(Gives(x))
      BY <2>1, <3>1, <3>2, <3>4 DEF OneIf
    <3> QED
      BY <1>1, <3>2, <3>4, <3>5, <3>6, <3>7
  <2>2. CASE Head(bufs[t]).kind /= "DEVICE"
    <3>1. dev' = dev
      BY <2>2 DEF BufferReleased
    <3>2. DevicesSound' /\ HandlesLeadToDevices'
      BY <1>1, <3>1 DEF DevicesSound, HandlesLeadToDevices
    <3>3. dev' \in [Addresses -> DeviceSet] /\ \A x \in Addresses : dev[x].ref \in Nat
      BY <1>1, <3>1 DEF DirectTypes, DirectTypeOK, DeviceSet
    <3>4. \A x : /\ HandlesOn(x)' = HandlesOn(x) /\ NormalsOn(x)' = NormalsOn(x)
                 /\ OpensOn(x)' = OpensOn(x)
      BY <1>1, <3>1 DEF HandlesOn, NormalsOn, OpensOn
    <3>5. \A x \in Addresses : OneIf(Gives(x)) = 0
      BY <2>2 DEF OneIf
    <3> QED
      BY <3>1, <3>2, <3>3, <3>4, <3>5
  <2> QED
    BY <2>1, <2>2
<1> HIDE DEF Gives
<1>4. ASSUME NEW x \in Addresses
      PROVE  /\ Cardinality(HandlesOn(x)') \in Int /\ Cardinality(NormalsOn(x)') \in Int
             /\ Cardinality(OpensOn(x)') \in Int /\ Cardinality(BuffersOn(x)') \in Int
             /\ lostRefs'[x] \in Int
             /\ dev'[x].ref - dev[x].ref =
                   (Cardinality(HandlesOn(x)') - Cardinality(HandlesOn(x)))
                     + (Cardinality(NormalsOn(x)') - Cardinality(NormalsOn(x)))
                     + (Cardinality(OpensOn(x)') - Cardinality(OpensOn(x)))
                     + (Cardinality(BuffersOn(x)') - Cardinality(BuffersOn(x)))
                     + (lostRefs'[x] - lostRefs[x])
  <2>1. /\ Cardinality(HandlesOn(x)) \in Nat /\ Cardinality(NormalsOn(x)) \in Nat
        /\ Cardinality(OpensOn(x)) \in Nat /\ Cardinality(BuffersOn(x)) \in Nat
        /\ dev[x].ref \in Nat /\ lostRefs[x] \in Nat
    BY <1>1, CountsFinite DEF DirectTypes, DirectTypeOK
  <2>2. OneIf(Gives(x)) \in Int
    BY DEF OneIf
  <2>3. lostRefs' = lostRefs
    BY <1>1
  <2> QED
    BY ONLY <1>2, <1>3, <2>1, <2>2, <2>3
<1>5. DeviceRefsExact'
  BY <1>1, <1>3, <1>4, CountsFollow
<1> QED
  BY <1>3, <1>5 DEF DevicesInv

\* The others leave the devices alone.
LEMMA DevicesKept ==
    ASSUME DirectInv, NEW t \in Clients, CallBegins(t) \/ CallGoesOn(t)
    PROVE  DevicesInv' /\ dev' \in [Addresses -> DeviceSet]
<1>1. DevicesInv /\ dev \in [Addresses -> DeviceSet] /\ Calls
  BY DEF DirectInv, DevicesInv, DirectTypes, DirectTypeOK, DeviceSet
<1>2. ASSUME UNCHANGED <<dev, handles, inner, lostRefs, bufs>>,
             \A u \in Clients : bufs[u] /= << >> => using'[u] = using[u]
      PROVE  DevicesInv' /\ dev' \in [Addresses -> DeviceSet]
  <2>1. \A x : BuffersOn(x)' = BuffersOn(x)
    BY <1>2, BuffersSame
  <2>2. DevicesInv'
    BY <1>1, <1>2, <2>1, DevicesQuiet
  <2> QED
    BY <1>1, <1>2, <2>2
<1>3. \A how \in Opens : Open(t, how) => DevicesInv' /\ dev' \in [Addresses -> DeviceSet]
  BY <1>2 DEF Open, commandVars, lostVars
<1>4. \A h \in handles : Close(t, h) => DevicesInv' /\ dev' \in [Addresses -> DeviceSet]
  BY CloseKeepsDevices
<1>5. ASSUME NEW h \in handles, Hint(t, h)
      PROVE  DevicesInv' /\ dev' \in [Addresses -> DeviceSet]
  <2>1. UNCHANGED <<dev, handles, inner, lostRefs, bufs>>
    BY <1>5 DEF Hint, deviceVars, openVars, lostVars
  <2>2. point[t] = "idle" /\ using' = [using EXCEPT ![t] = h]
    BY <1>5 DEF Hint
  <2> QED
    BY <1>1, <1>2, <2>1, <2>2
       DEF Calls, InHand, InCommand, DirectInv, DirectTypes, DirectTypeOK
<1>6. ASSUME NEW h \in handles, NEW kinds \in BufferLists, Command(t, h, kinds)
      PROVE  DevicesInv' /\ dev' \in [Addresses -> DeviceSet]
  <2>1. UNCHANGED <<dev, handles, inner, lostRefs, bufs>>
    BY <1>6 DEF Command, deviceVars, openVars, lostVars
  <2>2. point[t] = "idle" /\ using' = [using EXCEPT ![t] = h]
    BY <1>6 DEF Command
  <2> QED
    BY <1>1, <1>2, <2>1, <2>2
       DEF Calls, InHand, InCommand, DirectInv, DirectTypes, DirectTypeOK
<1>7. ASSUME NEW h \in handles, NEW kinds \in BufferLists, Library(t, h, kinds)
      PROVE  DevicesInv' /\ dev' \in [Addresses -> DeviceSet]
  <2>1. UNCHANGED <<dev, handles, inner, lostRefs, bufs>>
    BY <1>7 DEF Library, openVars, lostVars
  <2>2. point[t] = "idle" /\ using' = [using EXCEPT ![t] = h]
    BY <1>7 DEF Library
  <2> QED
    BY <1>1, <1>2, <2>1, <2>2
       DEF Calls, InHand, InCommand, DirectInv, DirectTypes, DirectTypeOK
<1>8. \A a \in Addresses : NewDevice(t, a) \/ Wrap(t, a) =>
         DevicesInv' /\ dev' \in [Addresses -> DeviceSet]
  BY NewDeviceKeepsDevices, WrapKeepsDevices
<1>9. NoMemory(t) => DevicesInv' /\ dev' \in [Addresses -> DeviceSet]
  BY <1>2 DEF NoMemory, commandVars, lostVars
<1>10. NoMemoryToWrap(t) => DevicesInv' /\ dev' \in [Addresses -> DeviceSet]
  BY <1>1, NoMemoryToWrapKeepsDevices DEF NoMemoryToWrap, deviceVars
<1>11. \A fds \in Allocations : BufferAdded(t, fds) \/ BufferNotAdded(t, fds) =>
          DevicesInv' /\ dev' \in [Addresses -> DeviceSet]
  BY CreateBufferKeepsDevices, BufferNotAddedKeepsDevices
<1>12. NoBuffer(t) => DevicesInv' /\ dev' \in [Addresses -> DeviceSet]
  BY <1>2 DEF NoBuffer, deviceVars, openVars, lostVars
<1>13. Answered(t) => DevicesInv' /\ dev' \in [Addresses -> DeviceSet]
  BY <1>2 DEF Answered, deviceVars, openVars, commandVars, lostVars
<1>14. BufferReleased(t) => DevicesInv' /\ dev' \in [Addresses -> DeviceSet]
  BY ReleaseBufferKeepsDevices
<1>15. Return(t) => DevicesInv' /\ dev' \in [Addresses -> DeviceSet]
  <2> SUFFICES ASSUME Return(t)
               PROVE  DevicesInv' /\ dev' \in [Addresses -> DeviceSet]
    OBVIOUS
  <2>1. \A u \in Clients : bufs[u] /= << >> => using'[u] = using[u]
    BY <1>1 DEF Return, DirectInv, DirectTypes, DirectTypeOK
  <2> QED
    BY <1>2, <2>1 DEF Return, openVars, lostVars
<1> QED
  BY <1>3, <1>4, <1>5, <1>6, <1>7, <1>8, <1>9, <1>10, <1>11, <1>12, <1>13, <1>14, <1>15
     DEF CallBegins, CallGoesOn

-----------------------------------------------------------------------------
(***************************************************************************)
(* Types and control points.                                               *)
(***************************************************************************)
LEMMA ListsAre ==
    ASSUME NEW kinds \in BufferLists
    PROVE  kinds \in Seq(Kinds) /\ Len(kinds) \in 0 .. MaxBuffers
<1>1. PICK n \in 0 .. MaxBuffers : kinds \in [1 .. n -> Kinds]
  BY DEF BufferLists
<1>2. n \in Nat /\ MaxBuffers \in Nat
  BY DirectDeviceAssumption
<1>3. kinds \in Seq(Kinds) /\ Len(kinds) = n
  BY ONLY <1>1, <1>2
<1> QED
  BY ONLY <1>1, <1>2, <1>3

LEMMA TypesKept ==
    ASSUME DirectInv, NEW t \in Clients, CallBegins(t) \/ CallGoesOn(t),
           dev' \in [Addresses -> DeviceSet]
    PROVE  DirectTypes'
<1>1. DirectTypes /\ Calls
  BY DEF DirectInv
<1>2. file' \in [Descriptors -> {"closed", "driver", "ion"}]
  <2>1. file \in [Descriptors -> {"closed", "driver", "ion"}]
    BY <1>1 DEF DirectTypes, DirectTypeOK
  <2>2. \A how \in Opens : Open(t, how) =>
           file' \in [Descriptors -> {"closed", "driver", "ion"}]
    BY <2>1 DEF Open
  <2>3. \A a, fds : Release(a, fds) =>
           file' \in [Descriptors -> {"closed", "driver", "ion"}]
    BY <2>1 DEF Release
  <2>4. \A fds : CloseFds(fds) =>
           file' \in [Descriptors -> {"closed", "driver", "ion"}]
    BY <2>1 DEF CloseFds
  <2>5. \A fds : file' = [f \in Descriptors |-> IF f \in fds THEN "ion" ELSE file[f]]
           => file' \in [Descriptors -> {"closed", "driver", "ion"}]
    BY <2>1
  <2>6. \/ file' = file \/ \E how \in Opens : Open(t, how)
        \/ \E a, fds : Release(a, fds)
        \/ \E fds : CloseFds(fds)
        \/ \E fds : file' = [f \in Descriptors |-> IF f \in fds THEN "ion" ELSE file[f]]
    BY DEF CallBegins, CallGoesOn, Close, Hint, Command, Library, NewDevice, Wrap, NoMemory,
       NoMemoryToWrap, BufferAdded, BufferNotAdded, NewBuffer, NoBuffer, Answered,
       BufferReleased, Return, deviceVars
  <2> QED
    BY <2>1, <2>2, <2>3, <2>4, <2>5, <2>6
<1>3. IsFiniteSet(handles') /\ handles' \subseteq HandleSet
  <2>1. IsFiniteSet(handles) /\ handles \subseteq HandleSet
    BY <1>1 DEF DirectTypes, DirectTypeOK
  <2>2. \/ handles' = handles \/ \E h : handles' = handles \ {h}
        \/ \E h \in HandleSet : handles' = handles \cup {h}
    <3>1. \A a \in Addresses :
             /\ [api |-> "direct", addr |-> a] \in HandleSet
             /\ [api |-> "normal", addr |-> a] \in HandleSet
             /\ [api |-> "packed", fd |-> Pack(a).fd, generation |-> Pack(a).generation]
                   \in HandleSet
      BY SplitAddress DEF HandleSet
    <3> QED
      BY <3>1 DEF CallBegins, CallGoesOn, Open, Close, Hint, Command, Library, NewDevice, Wrap,
         NoMemory, NoMemoryToWrap, BufferAdded, BufferNotAdded, NewBuffer, NoBuffer,
         Answered, BufferReleased, Return, deviceVars
  <2>3. \A h : IsFiniteSet(handles \ {h}) /\ IsFiniteSet(handles \cup {h})
    BY ONLY <2>1, FS_AddElement, FS_RemoveElement
  <2>4. IsFiniteSet(handles')
    BY <2>1, <2>2, <2>3, Zenon
  <2>5. handles' \subseteq HandleSet
    BY <2>1, <2>2, Zenon
  <2> QED
    BY ONLY <2>4, <2>5
<1>4. point' \in [Clients -> Opens \cup {"idle", "wrap", "run", "release"}]
  <2>1. \E place \in Opens \cup {"idle", "wrap", "run", "release"} :
           point' = point \/ point' = [point EXCEPT ![t] = place]
    BY DEF CallBegins, CallGoesOn, Open, Close, Hint, Command, Library, NewDevice, Wrap, NoMemory,
       NoMemoryToWrap, BufferAdded, BufferNotAdded, NewBuffer, NoBuffer, Answered,
       BufferReleased, Return
  <2>2. point \in [Clients -> Opens \cup {"idle", "wrap", "run", "release"}]
    BY <1>1 DEF DirectTypes, DirectTypeOK
  <2> QED
    BY ONLY <2>1, <2>2
<1>5. opened' \in [Clients -> Descriptors \cup {NoFd}]
  <2>1. FreeFds /= {} => Lowest(FreeFds) \in Descriptors
    BY LowestIs DEF FreeFds
  <2> QED
    BY <1>1, <2>1 DEF DirectTypes, DirectTypeOK, CallBegins, CallGoesOn, Open, Close, Hint,
       Command, Library, NewDevice, Wrap, NoMemory, NoMemoryToWrap, BufferAdded,
       BufferNotAdded, NewBuffer, NoBuffer, Answered, BufferReleased, Return, openVars
<1>6. inner' \in [Clients -> Addresses \cup {0}]
  BY <1>1 DEF DirectTypes, DirectTypeOK, CallBegins, CallGoesOn, Open, Close, Hint, Command,
     Library, NewDevice, Wrap, NoMemory, NoMemoryToWrap, BufferAdded,
     BufferNotAdded, NewBuffer, NoBuffer, Answered, BufferReleased, Return, openVars
<1>7. using' \in [Clients -> handles' \cup {NoHandle}]
  <2>1. using \in [Clients -> handles \cup {NoHandle}]
    BY <1>1 DEF DirectTypes, DirectTypeOK
  <2>2. CASE handles \subseteq handles'
    <3>1. \/ using' = using \/ using' = [using EXCEPT ![t] = NoHandle]
          \/ \E h \in handles : using' = [using EXCEPT ![t] = h]
      BY DEF CallBegins, CallGoesOn, Open, Close, Hint, Command, Library, NewDevice, Wrap,
         NoMemory, NoMemoryToWrap, BufferAdded, BufferNotAdded, NewBuffer, NoBuffer,
         Answered, BufferReleased, Return, commandVars
    <3> QED
      BY ONLY <2>1, <2>2, <3>1
  <2>3. CASE \E h \in handles : Close(t, h)
    <3>1. PICK h \in handles : Close(t, h)
      BY <2>3
    <3>2. handles' = handles \ {h} /\ using' = using /\ \A u \in Clients : using[u] /= h
      BY <3>1 DEF Close, commandVars
    <3> QED
      BY ONLY <2>1, <3>2
  <2>4. handles \subseteq handles' \/ \E h \in handles : Close(t, h)
    BY DEF CallBegins, CallGoesOn, Open, Close, Hint, Command, Library, NewDevice, Wrap, NoMemory,
       NoMemoryToWrap, BufferAdded, BufferNotAdded, NewBuffer, NoBuffer, Answered,
       BufferReleased, Return, deviceVars
  <2> QED
    BY <2>2, <2>3, <2>4
<1>8. todo' \in [Clients -> Seq(Kinds)]
  <2>1. \/ todo' = todo \/ todo' = [todo EXCEPT ![t] = << >>]
        \/ todo[t] /= << >> /\ todo' = [todo EXCEPT ![t] = Tail(@)]
        \/ \E kinds \in BufferLists : todo' = [todo EXCEPT ![t] = kinds]
    BY DEF CallBegins, CallGoesOn, Open, Close, Hint, Command, Library, NewDevice, Wrap, NoMemory,
       NoMemoryToWrap, BufferAdded, BufferNotAdded, NewBuffer, NoBuffer, Answered,
       BufferReleased, Return, commandVars
  <2>2. todo \in [Clients -> Seq(Kinds)]
    BY <1>1 DEF DirectTypes, DirectTypeOK
  <2>3. todo[t] /= << >> => Tail(todo[t]) \in Seq(Kinds)
    BY <2>2, TailIs
  <2>4. \A kinds \in BufferLists : kinds \in Seq(Kinds)
    BY ListsAre
  <2>5. << >> \in Seq(Kinds)
    OBVIOUS
  <2>6. \E list \in Seq(Kinds) : todo' = todo \/ todo' = [todo EXCEPT ![t] = list]
    BY ONLY <2>1, <2>3, <2>4, <2>5
  <2> QED
    BY ONLY <2>2, <2>6
<1>9. bufs' \in [Clients -> Seq(BufferSet)]
  <2>1. bufs \in [Clients -> Seq(BufferSet)]
    BY <1>1 DEF DirectTypes, DirectTypeOK, BufferSet
  <2>2. \/ bufs' = bufs
        \/ bufs[t] /= << >> /\ bufs' = [bufs EXCEPT ![t] = Tail(@)]
        \/ \E fds \in Allocations : BufferAdded(t, fds)
    BY DEF CallBegins, CallGoesOn, Open, Close, Hint, Command, Library, NewDevice, Wrap, NoMemory,
       NoMemoryToWrap, BufferNotAdded, NoBuffer, Answered, BufferReleased, Return, commandVars
  <2>3. \A fds \in Allocations : BufferAdded(t, fds) =>
           \E e \in BufferSet : bufs' = [bufs EXCEPT ![t] = Append(@, e)]
    BY NextBuffer, AllocationsFree DEF BufferAdded, NewBuffer, BufferSet
  <2>4. \A e \in BufferSet : Append(bufs[t], e) \in Seq(BufferSet)
    BY <2>1, AppendIs
  <2>5. bufs[t] /= << >> => Tail(bufs[t]) \in Seq(BufferSet)
    BY <2>1, TailIs
  <2> QED
    BY ONLY <2>1, <2>2, <2>3, <2>4, <2>5
<1>10. input' \in [Clients -> SUBSET Descriptors]
  <2>1. input \in [Clients -> SUBSET Descriptors]
    BY <1>1 DEF DirectTypes, DirectTypeOK
  <2>2. Cardinality(FreeFds) >= 2 => IonFds \subseteq Descriptors
    BY IonFdsFree DEF FreeFds
  <2>3. \/ input' = input \/ input' = [input EXCEPT ![t] = {}]
        \/ Cardinality(FreeFds) >= 2 /\ input' = [input EXCEPT ![t] = IonFds]
    BY DEF CallBegins, CallGoesOn, Open, Close, Hint, Command, Library, NewDevice, Wrap, NoMemory,
       NoMemoryToWrap, BufferAdded, BufferNotAdded, NewBuffer, NoBuffer, Answered,
       BufferReleased, Return, commandVars
  <2> QED
    BY ONLY <2>1, <2>2, <2>3
<1>11. lostFiles' \subseteq Descriptors /\ lostRefs' \in [Addresses -> Nat]
  <2>1. lostFiles \subseteq Descriptors /\ lostRefs \in [Addresses -> Nat]
    BY <1>1 DEF DirectTypes, DirectTypeOK
  <2>2. \/ lostRefs' = lostRefs \/ \E x : lostRefs' = [lostRefs EXCEPT ![x] = @ + 1]
    BY DEF CallBegins, CallGoesOn, Open, Close, Hint, Command, Library, NewDevice, Wrap, NoMemory,
       NoMemoryToWrap, BufferAdded, BufferNotAdded, NewBuffer, NoBuffer, Answered,
       BufferReleased, Return, lostVars
  <2>3. \/ lostFiles' = lostFiles
        \/ \E fds \in Allocations : lostFiles' = lostFiles \cup fds
        \/ bufs[t] /= << >> /\ lostFiles' = lostFiles \cup LeftOpen(Head(bufs[t]).fds)
        \/ lostFiles' = lostFiles \cup LeftOpen(input[t])
    BY DEF CallBegins, CallGoesOn, Open, Close, Hint, Command, Library, NewDevice, Wrap, NoMemory,
       NoMemoryToWrap, BufferAdded, BufferNotAdded, NewBuffer, NoBuffer, Answered,
       BufferReleased, Return, lostVars
  <2>4. lostRefs' \in [Addresses -> Nat]
    BY ONLY <2>1, <2>2
  <2>5. \A S : S \subseteq Descriptors => LeftOpen(S) \subseteq Descriptors
    BY DEF LeftOpen
  <2>6. bufs[t] /= << >> => Head(bufs[t]).fds \subseteq Descriptors
    BY FirstBuffer DEF BufferSet
  <2>7. input[t] \subseteq Descriptors
    BY <1>1 DEF DirectTypes, DirectTypeOK
  <2>8. \A fds \in Allocations : fds \subseteq Descriptors
    BY AllocationsFree
  <2>9. lostFiles' \subseteq Descriptors
    BY ONLY <2>1, <2>3, <2>5, <2>6, <2>7, <2>8
  <2> QED
    BY <2>4, <2>9
<1> QED
  BY <1>2, <1>3, <1>4, <1>5, <1>6, <1>7, <1>8, <1>9, <1>10, <1>11
     DEF DirectTypes, DirectTypeOK, BufferSet, DeviceSet

\* A step is the step of one thread.
LEMMA OthersStay ==
    ASSUME DirectTypes, NEW t \in Clients, CallBegins(t) \/ CallGoesOn(t),
           NEW u \in Clients, u /= t
    PROVE  /\ point'[u] = point[u] /\ opened'[u] = opened[u] /\ inner'[u] = inner[u]
           /\ using'[u] = using[u] /\ todo'[u] = todo[u] /\ bufs'[u] = bufs[u]
           /\ input'[u] = input[u]
<1>1. point'[u] = point[u]
  BY DEF DirectTypes, DirectTypeOK, CallBegins, CallGoesOn, Open, Close, Hint, Command, Library,
     NewDevice, Wrap, NoMemory, NoMemoryToWrap, BufferAdded, BufferNotAdded,
     NewBuffer, NoBuffer, Answered, BufferReleased, Return, openVars, commandVars
<1>2. opened'[u] = opened[u]
  BY DEF DirectTypes, DirectTypeOK, CallBegins, CallGoesOn, Open, Close, Hint, Command, Library,
     NewDevice, Wrap, NoMemory, NoMemoryToWrap, BufferAdded, BufferNotAdded,
     NewBuffer, NoBuffer, Answered, BufferReleased, Return, openVars, commandVars
<1>3. inner'[u] = inner[u]
  BY DEF DirectTypes, DirectTypeOK, CallBegins, CallGoesOn, Open, Close, Hint, Command, Library,
     NewDevice, Wrap, NoMemory, NoMemoryToWrap, BufferAdded, BufferNotAdded,
     NewBuffer, NoBuffer, Answered, BufferReleased, Return, openVars, commandVars
<1>4. using'[u] = using[u]
  BY DEF DirectTypes, DirectTypeOK, CallBegins, CallGoesOn, Open, Close, Hint, Command, Library,
     NewDevice, Wrap, NoMemory, NoMemoryToWrap, BufferAdded, BufferNotAdded,
     NewBuffer, NoBuffer, Answered, BufferReleased, Return, openVars, commandVars
<1>5. todo'[u] = todo[u]
  BY DEF DirectTypes, DirectTypeOK, CallBegins, CallGoesOn, Open, Close, Hint, Command, Library,
     NewDevice, Wrap, NoMemory, NoMemoryToWrap, BufferAdded, BufferNotAdded,
     NewBuffer, NoBuffer, Answered, BufferReleased, Return, openVars, commandVars
<1>6. bufs'[u] = bufs[u]
  BY DEF DirectTypes, DirectTypeOK, CallBegins, CallGoesOn, Open, Close, Hint, Command, Library,
     NewDevice, Wrap, NoMemory, NoMemoryToWrap, BufferAdded, BufferNotAdded,
     NewBuffer, NoBuffer, Answered, BufferReleased, Return, openVars, commandVars
<1>7. input'[u] = input[u]
  BY DEF DirectTypes, DirectTypeOK, CallBegins, CallGoesOn, Open, Close, Hint, Command, Library,
     NewDevice, Wrap, NoMemory, NoMemoryToWrap, BufferAdded, BufferNotAdded,
     NewBuffer, NoBuffer, Answered, BufferReleased, Return, openVars, commandVars
<1> QED
  BY <1>1, <1>2, <1>3, <1>4, <1>5, <1>6, <1>7

LEMMA InHandKept ==
    ASSUME DirectInv, NEW t \in Clients, CallBegins(t) \/ CallGoesOn(t)
    PROVE  InHand(t)'
<1>1. /\ point \in [Clients -> Opens \cup {"idle", "wrap", "run", "release"}]
      /\ opened \in [Clients -> Descriptors \cup {NoFd}]
      /\ inner \in [Clients -> Addresses \cup {0}]
      /\ using \in [Clients -> handles \cup {NoHandle}]
      /\ todo \in [Clients -> Seq(Kinds)] /\ bufs \in [Clients -> Seq(BufferSet)]
      /\ input \in [Clients -> SUBSET Descriptors] /\ handles \subseteq HandleSet
  BY DEF DirectInv, DirectTypes, DirectTypeOK, BufferSet
<1>2. InHand(t) /\ NoHandle \notin handles
  BY <1>1, NoHandleAssumption DEF DirectInv, Calls
<1>3. \A how \in Opens : Open(t, how) => InHand(t)'
  <2>1. FreeFds /= {} => Lowest(FreeFds) /= NoFd
    BY LowestIs, NumbersAre DEF FreeFds
  <2> QED
    BY <1>1, <1>2, <2>1 DEF Open, InHand, InCommand, Opens, commandVars
<1>4. \A h \in handles : Close(t, h) => InHand(t)'
  BY <1>2 DEF Close, InHand, InCommand, openVars, commandVars
<1>5. \A h \in handles : Hint(t, h) => InHand(t)'
  BY <1>1, <1>2 DEF Hint, InHand, InCommand, Opens, openVars
<1>6. \A h \in handles, kinds \in BufferLists : Command(t, h, kinds) => InHand(t)'
  BY <1>1, <1>2 DEF Command, InHand, InCommand, Opens, openVars
<1>7. \A h \in handles, kinds \in BufferLists : Library(t, h, kinds) => InHand(t)'
  BY <1>1, <1>2 DEF Library, InHand, InCommand, Opens, openVars
<1>8. \A a \in Addresses : NewDevice(t, a) => InHand(t)'
  BY <1>1, <1>2, NumbersAre DEF NewDevice, InHand, InCommand, Opens, commandVars
<1>9. \A a \in Addresses : Wrap(t, a) => InHand(t)'
  BY <1>1, <1>2 DEF Wrap, InHand, InCommand, Opens, commandVars
<1>10. NoMemory(t) => InHand(t)'
  BY <1>1, <1>2 DEF NoMemory, InHand, InCommand, Opens, commandVars
<1>11. NoMemoryToWrap(t) => InHand(t)'
  BY <1>1, <1>2 DEF NoMemoryToWrap, InHand, InCommand, Opens, commandVars
<1>12. \A fds \in Allocations : BufferAdded(t, fds) => InHand(t)'
  BY <1>1, <1>2 DEF BufferAdded, NewBuffer, InHand, InCommand, Opens, openVars
<1>13. \A fds \in Allocations : BufferNotAdded(t, fds) => InHand(t)'
  BY <1>1, <1>2 DEF BufferNotAdded, NewBuffer, InHand, InCommand, Opens, openVars
<1>14. NoBuffer(t) => InHand(t)'
  BY <1>1, <1>2 DEF NoBuffer, InHand, InCommand, Opens, openVars
<1>15. Answered(t) => InHand(t)'
  BY <1>1, <1>2 DEF Answered, InIoctl, InHand, InCommand, Opens, openVars, commandVars
<1>16. BufferReleased(t) => InHand(t)'
  BY <1>1, <1>2 DEF BufferReleased, InHand, InCommand, Opens, openVars
<1>17. Return(t) => InHand(t)'
  BY <1>1, <1>2 DEF Return, InHand, InCommand, Opens, openVars
<1> QED
  BY <1>3, <1>4, <1>5, <1>6, <1>7, <1>8, <1>9, <1>10, <1>11, <1>12, <1>13, <1>14, <1>15,
     <1>16, <1>17 DEF CallBegins, CallGoesOn

\* The lists of a call stay within the bound, and a NORMAL device gets no
\* buffers of its own.
LEMMA BuffersFitKept ==
    ASSUME DirectInv, NEW t \in Clients, CallBegins(t) \/ CallGoesOn(t)
    PROVE  BuffersFit(t)'
<1>1. /\ point \in [Clients -> Opens \cup {"idle", "wrap", "run", "release"}]
      /\ using \in [Clients -> handles \cup {NoHandle}]
      /\ todo \in [Clients -> Seq(Kinds)] /\ bufs \in [Clients -> Seq(BufferSet)]
  BY DEF DirectInv, DirectTypes, DirectTypeOK, BufferSet
<1>2. InHand(t) /\ BuffersFit(t)
  BY DEF DirectInv, Calls
<1>3. /\ Len(todo[t]) \in Nat /\ Len(bufs[t]) \in Nat /\ MaxBuffers \in Nat
      /\ Len(<< >>) = 0 /\ DOMAIN << >> = {}
  BY <1>1, LenProperties, DirectDeviceAssumption
<1>4. ASSUME todo' = todo, bufs' = bufs,
             InCommand(t)' => InCommand(t) /\ using'[t] = using[t]
      PROVE  BuffersFit(t)'
  BY <1>2, <1>4 DEF BuffersFit
<1>5. ASSUME todo'[t] = << >>, bufs'[t] = bufs[t],
             InCommand(t)' => InCommand(t) /\ using'[t] = using[t]
      PROVE  BuffersFit(t)'
  <2>1. Len(todo[t]) + Len(bufs[t]) <= MaxBuffers
    BY <1>2 DEF BuffersFit
  <2>2. Len(todo'[t]) = 0 /\ Len(bufs'[t]) = Len(bufs[t]) /\ DOMAIN todo'[t] = {}
    BY <1>3, <1>5
  <2>3. Len(todo'[t]) + Len(bufs'[t]) <= MaxBuffers
    BY ONLY <1>3, <2>1, <2>2, Room
  <2> QED
    BY <1>2, <1>5, <2>3 DEF BuffersFit
<1>6. ASSUME point[t] = "idle"
      PROVE  bufs[t] = << >> /\ todo[t] = << >>
  BY <1>2, <1>6 DEF InHand, InCommand
<1>7. \A how \in Opens : Open(t, how) => BuffersFit(t)'
  BY <1>1, <1>4 DEF Open, InCommand, Opens, commandVars
<1>8. \A h \in handles : Close(t, h) => BuffersFit(t)'
  BY <1>4 DEF Close, InCommand, commandVars
<1>9. \A h \in handles : Hint(t, h) => BuffersFit(t)'
  <2> SUFFICES ASSUME NEW h \in handles, Hint(t, h)
               PROVE  BuffersFit(t)'
    OBVIOUS
  <2>1. bufs[t] = << >> /\ todo[t] = << >> /\ bufs' = bufs /\ todo' = todo
    BY <1>6 DEF Hint
  <2> QED
    BY <1>2, <2>1 DEF BuffersFit
<1>10. ASSUME NEW h \in handles, NEW kinds \in BufferLists,
              Command(t, h, kinds) \/ Library(t, h, kinds)
       PROVE  BuffersFit(t)'
  <2>1. bufs'[t] = << >> /\ todo'[t] = kinds
    BY <1>1, <1>6, <1>10 DEF Command, Library
  <2>2. kinds \in Seq(Kinds) /\ Len(kinds) \in 0 .. MaxBuffers
    BY ListsAre
  <2>3. Len(kinds) + 0 <= MaxBuffers
    BY ONLY <1>3, <2>2
  <2> QED
    BY <1>3, <2>1, <2>3 DEF BuffersFit
<1>11. \A a \in Addresses : NewDevice(t, a) \/ Wrap(t, a) => BuffersFit(t)'
  BY <1>1, <1>4 DEF NewDevice, Wrap, InCommand, Opens, commandVars
<1>12. NoMemory(t) \/ NoMemoryToWrap(t) => BuffersFit(t)'
  BY <1>1, <1>4 DEF NoMemory, NoMemoryToWrap, InCommand, Opens, commandVars
<1>13. ASSUME NEW fds \in Allocations, BufferAdded(t, fds)
       PROVE  BuffersFit(t)'
  <2>1. point[t] = "run" /\ todo[t] /= << >> /\ (fds /= {} => Head(todo[t]) = "DEVICE")
        /\ using' = using /\ point' = point
    BY <1>13 DEF BufferAdded, NewBuffer
  <2>2. PICK e \in BufferSet : e = [kind |-> Head(todo[t]), fds |-> fds]
    BY <2>1, NextBuffer, AllocationsFree DEF BufferSet
  <2>3. bufs'[t] = Append(bufs[t], e) /\ todo'[t] = Tail(todo[t])
    BY <1>1, <1>13, <2>2 DEF BufferAdded
  <2>4. /\ Len(Tail(todo[t])) = Len(todo[t]) - 1 /\ Len(todo[t]) \in Nat \ {0}
        /\ \A i \in DOMAIN Tail(todo[t]) : \E j \in DOMAIN todo[t] :
              Tail(todo[t])[i] = todo[t][j]
        /\ \E j \in DOMAIN todo[t] : Head(todo[t]) = todo[t][j]
    BY <2>1, NextBuffer
  <2>5. bufs[t] \in Seq(BufferSet)
    BY <1>1
  <2>6. /\ Len(Append(bufs[t], e)) = Len(bufs[t]) + 1
        /\ DOMAIN bufs[t] = 1 .. Len(bufs[t])
        /\ DOMAIN Append(bufs[t], e) = 1 .. (Len(bufs[t]) + 1)
        /\ \A i \in 1 .. Len(bufs[t]) : Append(bufs[t], e)[i] = bufs[t][i]
        /\ Append(bufs[t], e)[Len(bufs[t]) + 1] = e
    BY ONLY <2>5, AppendIs
  <2>7. \A i \in DOMAIN Append(bufs[t], e) :
           \/ i \in DOMAIN bufs[t] /\ Append(bufs[t], e)[i] = bufs[t][i]
           \/ Append(bufs[t], e)[i] = e
    BY ONLY <1>3, <2>6
  <2>8. Len(todo'[t]) + Len(bufs'[t]) <= MaxBuffers
    <3>1. Len(todo[t]) + Len(bufs[t]) <= MaxBuffers
      BY <1>2 DEF BuffersFit
    <3>2. Len(todo'[t]) = Len(todo[t]) - 1 /\ Len(bufs'[t]) = Len(bufs[t]) + 1
      BY <2>3, <2>4, <2>6
    <3>3. (Len(todo[t]) - 1) + (Len(bufs[t]) + 1) <= MaxBuffers
      BY ONLY <1>3, <3>1, Room
    <3> QED
      BY ONLY <3>2, <3>3
  <2>9. \A i \in DOMAIN bufs'[t] : bufs'[t][i].kind = "HOST" => bufs'[t][i].fds = {}
    <3>1. e.kind = "HOST" => e.fds = {}
      BY <2>1, <2>2
    <3> QED
      BY <1>2, <2>3, <2>7, <3>1 DEF BuffersFit
  <2> QED
    BY <2>8, <2>9 DEF BuffersFit
<1>14. \A fds \in Allocations : BufferNotAdded(t, fds) => BuffersFit(t)'
  BY <1>1, <1>5 DEF BufferNotAdded, NewBuffer, InCommand
<1>15. NoBuffer(t) => BuffersFit(t)'
  BY <1>1, <1>5 DEF NoBuffer, InCommand
<1>16. Answered(t) => BuffersFit(t)'
  BY <1>4 DEF Answered, InIoctl, InCommand, commandVars
<1>17. ASSUME BufferReleased(t)
       PROVE  BuffersFit(t)'
  <2>1. /\ bufs[t] /= << >> /\ todo' = todo /\ using' = using /\ point' = point
        /\ bufs'[t] = Tail(bufs[t])
    BY <1>1, <1>17 DEF BufferReleased
  <2>2. /\ Len(bufs[t]) \in Nat \ {0} /\ DOMAIN bufs[t] = 1 .. Len(bufs[t])
        /\ DOMAIN Tail(bufs[t]) = 1 .. (Len(bufs[t]) - 1)
        /\ Len(Tail(bufs[t])) = Len(bufs[t]) - 1
        /\ \A i \in 1 .. (Len(bufs[t]) - 1) : Tail(bufs[t])[i] = bufs[t][i + 1]
    BY <2>1, FirstBuffer
  <2>3. \A i \in DOMAIN Tail(bufs[t]) : \E j \in DOMAIN bufs[t] :
           Tail(bufs[t])[i] = bufs[t][j]
    BY ONLY <2>2
  <2>4. Len(todo'[t]) + Len(bufs'[t]) <= MaxBuffers
    <3>1. Len(todo[t]) + Len(bufs[t]) <= MaxBuffers
      BY <1>2 DEF BuffersFit
    <3>2. Len(todo'[t]) = Len(todo[t]) /\ Len(bufs'[t]) = Len(bufs[t]) - 1
      BY <2>1, <2>2
    <3> QED
      BY ONLY <1>3, <3>1, <3>2, Room
  <2>5. \A i \in DOMAIN bufs'[t] : bufs'[t][i].kind = "HOST" => bufs'[t][i].fds = {}
    BY <1>2, <2>1, <2>3 DEF BuffersFit
  <2> QED
    BY <2>4, <2>5 DEF BuffersFit
<1>18. Return(t) => BuffersFit(t)'
  BY <1>1, <1>4 DEF Return, InCommand
<1> QED
  BY <1>7, <1>8, <1>9, <1>10, <1>11, <1>12, <1>13, <1>14, <1>15, <1>16, <1>17, <1>18
     DEF CallBegins, CallGoesOn

LEMMA CallsKept ==
    ASSUME DirectInv, NEW t \in Clients, CallBegins(t) \/ CallGoesOn(t)
    PROVE  Calls'
<1>1. ASSUME NEW u \in Clients, u /= t
      PROVE  InHand(u)' /\ BuffersFit(u)'
  <2>1. /\ point'[u] = point[u] /\ opened'[u] = opened[u] /\ inner'[u] = inner[u]
        /\ using'[u] = using[u] /\ todo'[u] = todo[u] /\ bufs'[u] = bufs[u]
        /\ input'[u] = input[u]
    BY <1>1, OthersStay DEF DirectInv
  <2>2. InHand(u) /\ BuffersFit(u)
    BY DEF DirectInv, Calls
  <2>3. InHand(u)'
    BY <2>1, <2>2 DEF InHand, InCommand
  <2>4. BuffersFit(u)'
    BY <2>1, <2>2 DEF BuffersFit, InCommand
  <2> QED
    BY <2>3, <2>4
<1> QED
  BY <1>1, InHandKept, BuffersFitKept DEF Calls

-----------------------------------------------------------------------------
(***************************************************************************)
(* Descriptors of the driver.                                              *)
(***************************************************************************)
LEMMA DriverQuiet ==
    ASSUME DriverFiles, opened' = opened,
           \A a \in Addresses : dev'[a].type = "NEWMODE" <=> dev[a].type = "NEWMODE",
           \A a \in Addresses : dev[a].type = "NEWMODE" => dev'[a].fd = dev[a].fd,
           \A f \in Descriptors : file'[f] = "driver" <=> file[f] = "driver",
           opened \in [Clients -> Descriptors \cup {NoFd}]
    PROVE  DriverFiles'
<1>1. \A a \in Addresses : IsNewmode(a)' <=> IsNewmode(a)
  BY DEF IsNewmode
<1>2. \A a \in Addresses : IsNewmode(a) => dev'[a].fd = dev[a].fd
  BY DEF IsNewmode
<1> QED
  BY <1>1, <1>2 DEF DriverFiles

\* xrp_open_device_newmode takes a descriptor nobody has.
LEMMA OpenKeepsDriverFiles ==
    ASSUME DirectInv, NEW t \in Clients, NEW how \in Opens, Open(t, how)
    PROVE  DriverFiles'
<1> DEFINE g == Lowest(FreeFds)
<1>1. /\ DriverFiles /\ file \in [Descriptors -> {"closed", "driver", "ion"}]
      /\ opened \in [Clients -> Descriptors \cup {NoFd}] /\ opened[t] = NoFd
  BY DEF DirectInv, DirectTypes, DirectTypeOK, Calls, InHand, Open, Opens
<1>2. g \in Descriptors /\ file[g] = "closed" /\ g /= NoFd
  BY LowestIs, NumbersAre DEF Open, FreeFds
<1>3. /\ file' = [file EXCEPT ![g] = "driver"] /\ opened' = [opened EXCEPT ![t] = g]
      /\ dev' = dev
  BY DEF Open
<1> HIDE DEF g
<1>4. /\ file'[g] = "driver" /\ \A f \in Descriptors \ {g} : file'[f] = file[f]
      /\ opened'[t] = g /\ \A u \in Clients \ {t} : opened'[u] = opened[u]
  BY <1>1, <1>2, <1>3
<1>5. \A a : IsNewmode(a)' <=> IsNewmode(a)
  BY <1>3 DEF IsNewmode
<1>6. /\ \A a \in Addresses : IsNewmode(a) => dev[a].fd \in Descriptors \ {g}
      /\ \A u \in Clients : opened[u] /= g
  BY <1>1, <1>2 DEF DriverFiles
<1>7. \A f \in Descriptors : file'[f] = "driver" =>
          \/ \E a \in Addresses : IsNewmode(a)' /\ dev'[a].fd = f
          \/ \E u \in Clients : opened'[u] = f
  <2> SUFFICES ASSUME NEW f \in Descriptors, file'[f] = "driver"
               PROVE  \/ \E a \in Addresses : IsNewmode(a)' /\ dev'[a].fd = f
                      \/ \E u \in Clients : opened'[u] = f
    OBVIOUS
  <2>1. CASE f = g
    BY <1>4, <2>1
  <2>2. CASE f /= g
    <3>1. \/ \E a \in Addresses : IsNewmode(a) /\ dev[a].fd = f
          \/ \E u \in Clients : opened[u] = f
      BY <1>1, <1>4, <2>2 DEF DriverFiles
    <3>2. \A u \in Clients : opened[u] = f => u /= t
      BY <1>1, NumbersAre
    <3> QED
      BY <1>3, <1>4, <1>5, <3>1, <3>2
  <2> QED
    BY <2>1, <2>2
<1>8. /\ \A a \in Addresses : IsNewmode(a)' =>
            dev'[a].fd \in Descriptors /\ file'[dev'[a].fd] = "driver"
      /\ \A a, b \in Addresses :
            IsNewmode(a)' /\ IsNewmode(b)' /\ a /= b => dev'[a].fd /= dev'[b].fd
  BY <1>1, <1>3, <1>4, <1>5, <1>6 DEF DriverFiles
<1>9. /\ \A u \in Clients : opened'[u] /= NoFd => file'[opened'[u]] = "driver"
      /\ \A a \in Addresses, u \in Clients : IsNewmode(a)' => opened'[u] /= dev'[a].fd
      /\ \A v, u \in Clients : v /= u /\ opened'[v] /= NoFd => opened'[v] /= opened'[u]
  BY <1>1, <1>3, <1>4, <1>5, <1>6 DEF DriverFiles
<1> QED
  BY <1>7, <1>8, <1>9 DEF DriverFiles

\* It becomes the descriptor of the device.
LEMMA NewDeviceKeepsDriverFiles ==
    ASSUME DirectInv, NEW t \in Clients, NEW a \in Addresses, NewDevice(t, a)
    PROVE  DriverFiles'
<1>1. /\ DriverFiles /\ file \in [Descriptors -> {"closed", "driver", "ion"}]
      /\ opened \in [Clients -> Descriptors \cup {NoFd}]
      /\ opened[t] \in Descriptors /\ opened[t] /= NoFd
      /\ dev \in [Addresses -> DeviceSet] /\ ~IsNewmode(a)
  BY DEF DirectInv, DirectTypes, DirectTypeOK, Calls, InHand, NewDevice, DeviceSet,
     IsNewmode, NoDevice
<1>2. /\ dev'[a].type = "NEWMODE" /\ dev'[a].fd = opened[t]
      /\ \A b \in Addresses \ {a} : dev'[b] = dev[b]
      /\ opened'[t] = NoFd /\ \A u \in Clients \ {t} : opened'[u] = opened[u]
      /\ file' = file
  BY <1>1 DEF NewDevice
<1>3. \A b \in Addresses : IsNewmode(b)' <=> IsNewmode(b) \/ b = a
  BY <1>2 DEF IsNewmode
<1>4. /\ \A b \in Addresses : IsNewmode(b)' =>
            dev'[b].fd \in Descriptors /\ file'[dev'[b].fd] = "driver"
      /\ \A b, c \in Addresses :
            IsNewmode(b)' /\ IsNewmode(c)' /\ b /= c => dev'[b].fd /= dev'[c].fd
  BY <1>1, <1>2, <1>3 DEF DriverFiles
<1>5. /\ \A u \in Clients : opened'[u] /= NoFd => file'[opened'[u]] = "driver"
      /\ \A b \in Addresses, u \in Clients : IsNewmode(b)' => opened'[u] /= dev'[b].fd
      /\ \A v, u \in Clients : v /= u /\ opened'[v] /= NoFd => opened'[v] /= opened'[u]
  BY <1>1, <1>2, <1>3, NumbersAre DEF DriverFiles
<1>6. \A f \in Descriptors : file'[f] = "driver" =>
          \/ \E b \in Addresses : IsNewmode(b)' /\ dev'[b].fd = f
          \/ \E u \in Clients : opened'[u] = f
  BY <1>1, <1>2, <1>3 DEF DriverFiles
<1> QED
  BY <1>4, <1>5, <1>6 DEF DriverFiles

\* Or is closed.
LEMMA NoMemoryKeepsDriverFiles ==
    ASSUME DirectInv, NEW t \in Clients, NoMemory(t)
    PROVE  DriverFiles'
<1>1. /\ DriverFiles /\ file \in [Descriptors -> {"closed", "driver", "ion"}]
      /\ opened \in [Clients -> Descriptors \cup {NoFd}]
      /\ opened[t] \in Descriptors /\ opened[t] /= NoFd
  BY DEF DirectInv, DirectTypes, DirectTypeOK, Calls, InHand, NoMemory
<1>2. /\ dev' = dev
      /\ opened'[t] = NoFd /\ \A u \in Clients \ {t} : opened'[u] = opened[u]
      /\ file'[opened[t]] = "closed"
      /\ \A f \in Descriptors \ {opened[t]} : file'[f] = file[f]
  BY <1>1 DEF NoMemory, CloseFds
<1>3. \A b \in Addresses : IsNewmode(b)' <=> IsNewmode(b)
  BY <1>2 DEF IsNewmode
<1>4. /\ \A b \in Addresses : IsNewmode(b)' =>
            dev'[b].fd \in Descriptors /\ file'[dev'[b].fd] = "driver"
      /\ \A b, c \in Addresses :
            IsNewmode(b)' /\ IsNewmode(c)' /\ b /= c => dev'[b].fd /= dev'[c].fd
  BY <1>1, <1>2, <1>3 DEF DriverFiles
<1>5. /\ \A u \in Clients : opened'[u] /= NoFd => file'[opened'[u]] = "driver"
      /\ \A b \in Addresses, u \in Clients : IsNewmode(b)' => opened'[u] /= dev'[b].fd
      /\ \A v, u \in Clients : v /= u /\ opened'[v] /= NoFd => opened'[v] /= opened'[u]
  BY <1>1, <1>2, <1>3, NumbersAre DEF DriverFiles
<1>6. \A f \in Descriptors : file'[f] = "driver" =>
          \/ \E b \in Addresses : IsNewmode(b)' /\ dev'[b].fd = f
          \/ \E u \in Clients : opened'[u] = f
  BY <1>1, <1>2, <1>3 DEF DriverFiles
<1> QED
  BY <1>4, <1>5, <1>6 DEF DriverFiles

\* The devices that go take their descriptors with them, and no others.
LEMMA CloseKeepsDriverFiles ==
    ASSUME DirectInv, NEW t \in Clients, NEW h \in handles, Close(t, h)
    PROVE  /\ DriverFiles'
           /\ \A f \in Descriptors : file'[f] /= file[f] =>
                 file[f] = "driver" /\ file'[f] = "closed"
<1>1. /\ DriverFiles /\ file \in [Descriptors -> {"closed", "driver", "ion"}]
      /\ opened \in [Clients -> Descriptors \cup {NoFd}] /\ opened' = opened
      /\ DirectTypes /\ DevicesSound
  BY DEF DirectInv, DirectTypes, DirectTypeOK, Close, openVars
<1>2. PICK a \in Addresses : a = Target(h) /\ dev[a].type /= "NONE"
  BY DEF DirectInv, HandlesLeadToDevices
<1>3. Release(a, {})
  BY <1>2 DEF Close
<1>4. /\ Freed(a) \subseteq Addresses
      /\ \A d \in Freed(a) : dev'[d].type = "NONE"
      /\ \A d \in Addresses \ Freed(a) :
            dev'[d].type = dev[d].type /\ dev'[d].fd = dev[d].fd
  BY <1>1, <1>2, <1>3, ReleaseDevices DEF NoDevice
<1>5. \A f \in Descriptors :
         file'[f] = IF \E d \in Freed(a) : IsNewmode(d) /\ dev[d].fd = f
                    THEN "closed" ELSE file[f]
  BY <1>3 DEF Release, ClosedIon, IsNewmode
<1>6. \A b \in Addresses : IsNewmode(b)' <=> IsNewmode(b) /\ b \notin Freed(a)
  BY <1>4 DEF IsNewmode
<1>7. /\ \A b \in Addresses : IsNewmode(b)' =>
            dev'[b].fd \in Descriptors /\ file'[dev'[b].fd] = "driver"
      /\ \A b, c \in Addresses :
            IsNewmode(b)' /\ IsNewmode(c)' /\ b /= c => dev'[b].fd /= dev'[c].fd
  BY <1>1, <1>4, <1>5, <1>6 DEF DriverFiles
<1>8. /\ \A u \in Clients : opened'[u] /= NoFd => file'[opened'[u]] = "driver"
      /\ \A b \in Addresses, u \in Clients : IsNewmode(b)' => opened'[u] /= dev'[b].fd
      /\ \A v, u \in Clients : v /= u /\ opened'[v] /= NoFd => opened'[v] /= opened'[u]
  BY <1>1, <1>4, <1>5, <1>6 DEF DriverFiles
<1>9. \A f \in Descriptors : file'[f] = "driver" =>
          \/ \E b \in Addresses : IsNewmode(b)' /\ dev'[b].fd = f
          \/ \E u \in Clients : opened'[u] = f
  BY <1>1, <1>4, <1>5, <1>6 DEF DriverFiles
<1>10. \A f \in Descriptors : file'[f] /= file[f] =>
          file[f] = "driver" /\ file'[f] = "closed"
  BY <1>1, <1>4, <1>5 DEF DriverFiles
<1> QED
  BY <1>7, <1>8, <1>9, <1>10 DEF DriverFiles

-----------------------------------------------------------------------------
(***************************************************************************)
(* Descriptors of ION memory.                                              *)
(***************************************************************************)
LEMMA IonQuiet ==
    ASSUME IonFiles, UNCHANGED <<bufs, input, lostFiles>>,
           \A f \in Descriptors : file'[f] = "ion" <=> file[f] = "ion"
    PROVE  IonFiles'
<1>1. \A t \in Clients : \A f : InBuffers(t, f)' <=> InBuffers(t, f)
  BY DEF InBuffers
<1> QED
  BY <1>1 DEF IonFiles

\* The parts of the invariant that a new owner of free descriptors needs.
LEMMA FreeIsNobodys ==
    ASSUME IonFiles, NEW f \in Descriptors, file[f] /= "ion"
    PROVE  /\ f \notin lostFiles
           /\ \A u \in Clients : ~InBuffers(u, f) /\ f \notin input[u]
BY DEF IonFiles

\* A library call allocates its input.
LEMMA LibraryKeepsIonFiles ==
    ASSUME DirectInv, NEW t \in Clients, NEW h \in handles, NEW kinds \in BufferLists,
           Library(t, h, kinds)
    PROVE  /\ IonFiles'
           /\ \A f \in Descriptors : file'[f] /= file[f] =>
                 file[f] = "closed" /\ file'[f] = "ion"
<1>1. /\ IonFiles /\ input[t] = {}
      /\ bufs \in [Clients -> Seq(BufferSet)]
      /\ input \in [Clients -> SUBSET Descriptors] /\ lostFiles \subseteq Descriptors
      /\ file \in [Descriptors -> {"closed", "driver", "ion"}]
  BY DEF DirectInv, DirectTypes, DirectTypeOK, BufferSet, Calls, InHand, InCommand,
     Library
<1>2. PICK fds : /\ fds = IonFds /\ fds \subseteq Descriptors
                 /\ \A f \in fds : file[f] = "closed"
  BY IonFdsFree DEF Library, FreeFds
<1>3. /\ input'[t] = fds /\ \A u \in Clients \ {t} : input'[u] = input[u]
      /\ bufs' = bufs /\ lostFiles' = lostFiles
      /\ \A f \in Descriptors : file'[f] = IF f \in fds THEN "ion" ELSE file[f]
  BY <1>1, <1>2 DEF Library, lostVars
<1>4. \A u \in Clients : \A f : InBuffers(u, f)' <=> InBuffers(u, f)
  BY <1>3 DEF InBuffers
<1>5. \A f \in fds : /\ f \notin lostFiles
                     /\ \A u \in Clients : ~InBuffers(u, f) /\ f \notin input[u]
  BY <1>1, <1>2, FreeIsNobodys
<1>6. \A u \in Clients : input'[u] \subseteq input[u] \cup fds
  BY <1>1, <1>3
<1>7. /\ \A u \in Clients, f \in Descriptors :
            InBuffers(u, f)' \/ f \in input'[u] => file'[f] = "ion"
      /\ \A u \in Clients : \A i, j \in DOMAIN bufs'[u] :
            i /= j => bufs'[u][i].fds \cap bufs'[u][j].fds = {}
  BY <1>1, <1>3, <1>4, <1>6 DEF IonFiles
<1>8. /\ \A v, u \in Clients, f \in Descriptors : v /= u =>
            /\ ~(InBuffers(v, f)' /\ InBuffers(u, f)')
            /\ ~(f \in input'[v] /\ f \in input'[u])
      /\ \A v, u \in Clients, f \in Descriptors : ~(InBuffers(v, f)' /\ f \in input'[u])
      /\ \A u \in Clients, f \in lostFiles' : ~InBuffers(u, f)' /\ f \notin input'[u]
  BY <1>1, <1>3, <1>4, <1>5, <1>6 DEF IonFiles
<1>9. \A f \in Descriptors : file'[f] = "ion" =>
         f \in lostFiles' \/ \E u \in Clients : InBuffers(u, f)' \/ f \in input'[u]
  BY <1>1, <1>3, <1>4 DEF IonFiles
<1>10. \A f \in lostFiles' : f \in Descriptors /\ file'[f] = "ion"
  BY <1>1, <1>3 DEF IonFiles
<1> QED
  BY <1>2, <1>3, <1>7, <1>8, <1>9, <1>10 DEF IonFiles

\* A new buffer allocates its memory.
LEMMA CreateBufferKeepsIonFiles ==
    ASSUME DirectInv, NEW t \in Clients, NEW fds \in Allocations, BufferAdded(t, fds)
    PROVE  /\ IonFiles'
           /\ \A f \in Descriptors : file'[f] /= file[f] =>
                 file[f] = "closed" /\ file'[f] = "ion"
<1>1. /\ IonFiles /\ point[t] = "run" /\ todo[t] /= << >>
      /\ bufs \in [Clients -> Seq(BufferSet)]
      /\ input \in [Clients -> SUBSET Descriptors] /\ lostFiles \subseteq Descriptors
      /\ file \in [Descriptors -> {"closed", "driver", "ion"}]
  BY DEF DirectInv, DirectTypes, DirectTypeOK, BufferSet, BufferAdded, NewBuffer
<1>2. fds \subseteq Descriptors /\ \A f \in fds : file[f] = "closed"
  BY AllocationsFree
<1>3. PICK e \in BufferSet : e = [kind |-> Head(todo[t]), fds |-> fds]
  BY <1>1, <1>2, NextBuffer DEF BufferSet
<1>4. /\ bufs'[t] = Append(bufs[t], e) /\ \A u \in Clients \ {t} : bufs'[u] = bufs[u]
      /\ e.fds = fds /\ input' = input /\ lostFiles' = lostFiles
      /\ \A f \in Descriptors : file'[f] = IF f \in fds THEN "ion" ELSE file[f]
  BY <1>1, <1>3 DEF BufferAdded, NewBuffer, lostVars
<1>5. /\ Len(bufs[t]) \in Nat /\ DOMAIN bufs[t] = 1 .. Len(bufs[t])
      /\ DOMAIN bufs'[t] = 1 .. (Len(bufs[t]) + 1)
      /\ \A i \in 1 .. Len(bufs[t]) : bufs'[t][i] = bufs[t][i]
      /\ bufs'[t][Len(bufs[t]) + 1] = e
  <2>1. bufs[t] \in Seq(BufferSet)
    BY <1>1
  <2> QED
    BY ONLY <1>4, <2>1, e \in BufferSet, AppendIs
<1>6. PICK n : /\ n \in DOMAIN bufs'[t] /\ bufs'[t][n] = e
               /\ \A i \in DOMAIN bufs'[t] : i \in DOMAIN bufs[t] \/ i = n
               /\ \A i \in DOMAIN bufs[t] : /\ i \in DOMAIN bufs'[t]
                                            /\ bufs'[t][i] = bufs[t][i]
  <2>1. Len(bufs[t]) + 1 \in 1 .. (Len(bufs[t]) + 1)
    BY ONLY <1>5
  <2>2. \A i \in 1 .. (Len(bufs[t]) + 1) : i \in 1 .. Len(bufs[t]) \/ i = Len(bufs[t]) + 1
    BY ONLY <1>5
  <2>3. \A i \in 1 .. Len(bufs[t]) : i \in 1 .. (Len(bufs[t]) + 1)
    BY ONLY <1>5
  <2> QED
    BY ONLY <1>5, <2>1, <2>2, <2>3
<1>7. \A u \in Clients : \A f :
         InBuffers(u, f)' <=> InBuffers(u, f) \/ (u = t /\ f \in fds)
  <2>1. \A f : InBuffers(t, f)' <=> InBuffers(t, f) \/ f \in fds
    BY <1>4, <1>6 DEF InBuffers
  <2>2. \A u \in Clients : \A f : u /= t => (InBuffers(u, f)' <=> InBuffers(u, f))
    BY <1>4 DEF InBuffers
  <2> QED
    BY <2>1, <2>2
<1>8. \A f \in fds : /\ f \notin lostFiles
                     /\ \A u \in Clients : ~InBuffers(u, f) /\ f \notin input[u]
  BY <1>1, <1>2, FreeIsNobodys
<1>9. \A u \in Clients, f \in Descriptors :
          InBuffers(u, f)' \/ f \in input'[u] => file'[f] = "ion"
  BY <1>1, <1>4, <1>7 DEF IonFiles
<1>10. \A u \in Clients : \A i, j \in DOMAIN bufs'[u] :
          i /= j => bufs'[u][i].fds \cap bufs'[u][j].fds = {}
  <2>1. \A i \in DOMAIN bufs[t] : bufs[t][i].fds \cap fds = {}
    BY <1>8 DEF InBuffers
  <2>2. \A i, j \in DOMAIN bufs'[t] : i /= j => bufs'[t][i].fds \cap bufs'[t][j].fds = {}
    BY <1>1, <1>4, <1>6, <2>1 DEF IonFiles
  <2>3. \A u \in Clients \ {t} : \A i, j \in DOMAIN bufs'[u] :
           i /= j => bufs'[u][i].fds \cap bufs'[u][j].fds = {}
    BY <1>1, <1>4 DEF IonFiles
  <2> QED
    BY <2>2, <2>3
<1>11. /\ \A v, u \in Clients, f \in Descriptors : v /= u =>
             /\ ~(InBuffers(v, f)' /\ InBuffers(u, f)')
             /\ ~(f \in input'[v] /\ f \in input'[u])
       /\ \A v, u \in Clients, f \in Descriptors : ~(InBuffers(v, f)' /\ f \in input'[u])
       /\ \A u \in Clients, f \in lostFiles' : ~InBuffers(u, f)' /\ f \notin input'[u]
  BY <1>1, <1>4, <1>7, <1>8 DEF IonFiles
<1>12. \A f \in Descriptors : file'[f] = "ion" =>
          f \in lostFiles' \/ \E u \in Clients : InBuffers(u, f)' \/ f \in input'[u]
  BY <1>1, <1>4, <1>7 DEF IonFiles
<1>13. \A f \in lostFiles' : f \in Descriptors /\ file'[f] = "ion"
  BY <1>1, <1>4 DEF IonFiles
<1> QED
  BY <1>2, <1>4, <1>9, <1>10, <1>11, <1>12, <1>13 DEF IonFiles

\* With a failed realloc it is nobody's.
LEMMA BufferNotAddedKeepsIonFiles ==
    ASSUME DirectInv, NEW t \in Clients, NEW fds \in Allocations,
           BufferNotAdded(t, fds)
    PROVE  /\ IonFiles'
           /\ \A f \in Descriptors : file'[f] /= file[f] =>
                 file[f] = "closed" /\ file'[f] = "ion"
<1>1. /\ IonFiles
      /\ bufs \in [Clients -> Seq(BufferSet)]
      /\ input \in [Clients -> SUBSET Descriptors] /\ lostFiles \subseteq Descriptors
      /\ file \in [Descriptors -> {"closed", "driver", "ion"}]
  BY DEF DirectInv, DirectTypes, DirectTypeOK, BufferSet
<1>2. fds \subseteq Descriptors /\ \A f \in fds : file[f] = "closed"
  BY AllocationsFree
<1>3. /\ bufs' = bufs /\ input' = input /\ lostFiles' = lostFiles \cup fds
      /\ \A f \in Descriptors : file'[f] = IF f \in fds THEN "ion" ELSE file[f]
  BY DEF BufferNotAdded, NewBuffer
<1>4. \A u \in Clients : \A f : InBuffers(u, f)' <=> InBuffers(u, f)
  BY <1>3 DEF InBuffers
<1>5. \A f \in fds : /\ f \notin lostFiles
                     /\ \A u \in Clients : ~InBuffers(u, f) /\ f \notin input[u]
  BY <1>1, <1>2, FreeIsNobodys
<1>6. /\ \A u \in Clients, f \in Descriptors :
            InBuffers(u, f)' \/ f \in input'[u] => file'[f] = "ion"
      /\ \A u \in Clients : \A i, j \in DOMAIN bufs'[u] :
            i /= j => bufs'[u][i].fds \cap bufs'[u][j].fds = {}
  BY <1>1, <1>3, <1>4 DEF IonFiles
<1>7. /\ \A v, u \in Clients, f \in Descriptors : v /= u =>
            /\ ~(InBuffers(v, f)' /\ InBuffers(u, f)')
            /\ ~(f \in input'[v] /\ f \in input'[u])
      /\ \A v, u \in Clients, f \in Descriptors : ~(InBuffers(v, f)' /\ f \in input'[u])
      /\ \A u \in Clients, f \in lostFiles' : ~InBuffers(u, f)' /\ f \notin input'[u]
  BY <1>1, <1>3, <1>4, <1>5 DEF IonFiles
<1>8. \A f \in Descriptors : file'[f] = "ion" =>
         f \in lostFiles' \/ \E u \in Clients : InBuffers(u, f)' \/ f \in input'[u]
  BY <1>1, <1>3, <1>4 DEF IonFiles
<1>9. \A f \in lostFiles' : f \in Descriptors /\ file'[f] = "ion"
  BY <1>1, <1>2, <1>3 DEF IonFiles
<1> QED
  BY <1>2, <1>3, <1>6, <1>7, <1>8, <1>9 DEF IonFiles

\* A buffer goes, and its memory.
LEMMA ReleaseBufferKeepsIonFiles ==
    ASSUME DirectInv, NEW t \in Clients, BufferReleased(t)
    PROVE  /\ IonFiles'
           /\ \A f \in Descriptors : file'[f] /= file[f] =>
                 file[f] = "ion" /\ file'[f] = "closed"
<1> DEFINE b == Head(bufs[t])
<1>1. /\ IonFiles /\ bufs[t] /= << >>
      /\ bufs \in [Clients -> Seq(BufferSet)]
      /\ input \in [Clients -> SUBSET Descriptors] /\ lostFiles \subseteq Descriptors
      /\ file \in [Descriptors -> {"closed", "driver", "ion"}]
  BY DEF DirectInv, DirectTypes, DirectTypeOK, BufferSet, BufferReleased
<1>2. /\ b \in BufferSet /\ Len(bufs[t]) \in Nat \ {0}
      /\ b = bufs[t][1] /\ DOMAIN bufs[t] = 1 .. Len(bufs[t])
      /\ DOMAIN Tail(bufs[t]) = 1 .. (Len(bufs[t]) - 1)
      /\ \A i \in 1 .. (Len(bufs[t]) - 1) : Tail(bufs[t])[i] = bufs[t][i + 1]
      /\ b.kind = "HOST" => b.fds = {}
  BY <1>1, FirstBuffer
<1>3. /\ bufs'[t] = Tail(bufs[t]) /\ \A u \in Clients \ {t} : bufs'[u] = bufs[u]
      /\ input' = input /\ lostFiles' = lostFiles \cup LeftOpen(b.fds)
  BY <1>1 DEF BufferReleased
<1>4. \A f \in Descriptors : file'[f] = IF f \in ClosedIon(b.fds) THEN "closed" ELSE file[f]
  <2>1. CASE b.kind = "DEVICE"
    <3>1. PICK a : a = Target(using[t])
      OBVIOUS
    <3>2. Freed(a) = {}
      BY <1>1, <2>1, <3>1, BufferKeepsDevice
    <3>3. Release(a, b.fds)
      BY <2>1, <3>1 DEF BufferReleased
    <3> QED
      BY <3>2, <3>3 DEF Release
  <2>2. CASE b.kind = "HOST"
    BY <1>2, <2>2 DEF BufferReleased, ClosedIon
  <2> QED
    BY <1>2, <2>1, <2>2 DEF BufferSet, Kinds
<1>5. /\ 1 \in DOMAIN bufs[t]
      /\ \A i \in DOMAIN bufs'[t] : /\ i + 1 \in DOMAIN bufs[t] /\ i + 1 /= 1
                                   /\ bufs'[t][i] = bufs[t][i + 1]
                                   /\ i \in Int
      /\ \A j \in DOMAIN bufs[t] : j /= 1 => /\ j - 1 \in DOMAIN bufs'[t]
                                            /\ bufs'[t][j - 1] = bufs[t][j]
  <2>1. /\ 1 \in 1 .. Len(bufs[t])
        /\ \A i \in 1 .. (Len(bufs[t]) - 1) :
              i + 1 \in 1 .. Len(bufs[t]) /\ i + 1 /= 1 /\ i \in Int
        /\ \A j \in 1 .. Len(bufs[t]) : j /= 1 =>
              j - 1 \in 1 .. (Len(bufs[t]) - 1) /\ (j - 1) + 1 = j
    BY ONLY <1>2
  <2> HIDE DEF b
  <2> QED
    BY ONLY <1>2, <1>3, <2>1
<1> HIDE DEF b
<1>6. \A i \in DOMAIN bufs[t] : i /= 1 => bufs[t][i].fds \cap b.fds = {}
  BY <1>1, <1>2, <1>5 DEF IonFiles
<1>7. \A f : InBuffers(t, f)' <=> InBuffers(t, f) /\ f \notin b.fds
  BY <1>2, <1>5, <1>6 DEF InBuffers
<1>8. \A u \in Clients : \A f : u /= t => (InBuffers(u, f)' <=> InBuffers(u, f))
  BY <1>3 DEF InBuffers
<1>9. \A f \in b.fds : InBuffers(t, f) /\ f \in Descriptors
  BY <1>2, <1>5 DEF InBuffers, BufferSet
<1>10. \A u \in Clients, f \in Descriptors :
          InBuffers(u, f)' \/ f \in input'[u] =>
             (InBuffers(u, f) \/ f \in input[u]) /\ f \notin b.fds
  BY <1>1, <1>3, <1>7, <1>8, <1>9 DEF IonFiles
<1>11. \A u \in Clients, f \in Descriptors :
          InBuffers(u, f)' \/ f \in input'[u] => file'[f] = "ion"
  BY <1>1, <1>4, <1>10 DEF IonFiles, ClosedIon
<1>12. \A u \in Clients : \A i, j \in DOMAIN bufs'[u] :
          i /= j => bufs'[u][i].fds \cap bufs'[u][j].fds = {}
  <2>1. \A i, j \in DOMAIN bufs'[t] : i /= j => bufs'[t][i].fds \cap bufs'[t][j].fds = {}
    <3> SUFFICES ASSUME NEW i \in DOMAIN bufs'[t], NEW j \in DOMAIN bufs'[t], i /= j
                 PROVE  bufs'[t][i].fds \cap bufs'[t][j].fds = {}
      OBVIOUS
    <3>1. i + 1 /= j + 1
      BY <1>5
    <3> QED
      BY <1>1, <1>5, <3>1 DEF IonFiles
  <2>2. \A u \in Clients \ {t} : \A i, j \in DOMAIN bufs'[u] :
           i /= j => bufs'[u][i].fds \cap bufs'[u][j].fds = {}
    BY <1>1, <1>3 DEF IonFiles
  <2> QED
    BY <2>1, <2>2
<1>13. \A u \in Clients : \A f : InBuffers(u, f)' => InBuffers(u, f)
  BY <1>7, <1>8
<1>14. /\ \A v, u \in Clients, f \in Descriptors : v /= u =>
             /\ ~(InBuffers(v, f)' /\ InBuffers(u, f)')
             /\ ~(f \in input'[v] /\ f \in input'[u])
       /\ \A v, u \in Clients, f \in Descriptors : ~(InBuffers(v, f)' /\ f \in input'[u])
       /\ \A u \in Clients, f \in lostFiles' : ~InBuffers(u, f)' /\ f \notin input'[u]
  BY <1>1, <1>3, <1>9, <1>10, <1>13 DEF IonFiles, LeftOpen
<1>15. \A f \in Descriptors : file'[f] = "ion" =>
          f \in lostFiles' \/ \E u \in Clients : InBuffers(u, f)' \/ f \in input'[u]
  BY <1>1, <1>3, <1>4, <1>7, <1>8 DEF IonFiles, ClosedIon, LeftOpen
<1>16. \A f \in Descriptors : file'[f] /= file[f] =>
          file[f] = "ion" /\ file'[f] = "closed"
  BY <1>1, <1>4, <1>9 DEF IonFiles, ClosedIon
<1>17. \A f \in lostFiles' : f \in Descriptors /\ file'[f] = "ion"
  BY <1>1, <1>3, <1>4, <1>9 DEF IonFiles, ClosedIon, LeftOpen
<1> QED
  BY <1>11, <1>12, <1>14, <1>15, <1>16, <1>17 DEF IonFiles

\* The input of a library call goes as it returns.
LEMMA ReturnKeepsIonFiles ==
    ASSUME DirectInv, NEW t \in Clients, Return(t)
    PROVE  /\ IonFiles'
           /\ \A f \in Descriptors : file'[f] /= file[f] =>
                 file[f] = "ion" /\ file'[f] = "closed"
<1>1. /\ IonFiles
      /\ bufs \in [Clients -> Seq(BufferSet)]
      /\ input \in [Clients -> SUBSET Descriptors] /\ lostFiles \subseteq Descriptors
      /\ file \in [Descriptors -> {"closed", "driver", "ion"}]
  BY DEF DirectInv, DirectTypes, DirectTypeOK, BufferSet
<1>2. /\ input'[t] = {} /\ \A u \in Clients \ {t} : input'[u] = input[u]
      /\ bufs' = bufs /\ lostFiles' = lostFiles \cup LeftOpen(input[t])
      /\ \A f \in Descriptors :
            file'[f] = IF f \in ClosedIon(input[t]) THEN "closed" ELSE file[f]
  BY <1>1 DEF Return, CloseFds
<1>3. \A u \in Clients : \A f : InBuffers(u, f)' <=> InBuffers(u, f)
  BY <1>2 DEF InBuffers
<1>4. \A u \in Clients : input'[u] \subseteq input[u]
  BY <1>2
<1>5. \A f \in input[t] : f \in Descriptors /\ file[f] = "ion"
  BY <1>1 DEF IonFiles
<1>6. \A u \in Clients, f \in Descriptors :
         InBuffers(u, f)' \/ f \in input'[u] => file'[f] = "ion"
  BY <1>1, <1>2, <1>3 DEF IonFiles, ClosedIon
<1>7. \A u \in Clients : \A i, j \in DOMAIN bufs'[u] :
         i /= j => bufs'[u][i].fds \cap bufs'[u][j].fds = {}
  BY <1>1, <1>2 DEF IonFiles
<1>8. /\ \A v, u \in Clients, f \in Descriptors : v /= u =>
            /\ ~(InBuffers(v, f)' /\ InBuffers(u, f)')
            /\ ~(f \in input'[v] /\ f \in input'[u])
      /\ \A v, u \in Clients, f \in Descriptors : ~(InBuffers(v, f)' /\ f \in input'[u])
      /\ \A u \in Clients, f \in lostFiles' : ~InBuffers(u, f)' /\ f \notin input'[u]
  BY <1>1, <1>2, <1>3, <1>4, <1>5 DEF IonFiles, LeftOpen
<1>9. \A f \in Descriptors : file'[f] = "ion" =>
         f \in lostFiles' \/ \E u \in Clients : InBuffers(u, f)' \/ f \in input'[u]
  BY <1>1, <1>2, <1>3 DEF IonFiles, ClosedIon, LeftOpen
<1>10. \A f \in lostFiles' : f \in Descriptors /\ file'[f] = "ion"
  BY <1>1, <1>2, <1>5 DEF IonFiles, ClosedIon, LeftOpen
<1>11. \A f \in Descriptors : file'[f] /= file[f] =>
          file[f] = "ion" /\ file'[f] = "closed"
  BY <1>2, <1>5 DEF ClosedIon
<1> QED
  BY <1>6, <1>7, <1>8, <1>9, <1>10, <1>11 DEF IonFiles

-----------------------------------------------------------------------------
(***************************************************************************)
(* Every step keeps every descriptor accounted for.                        *)
(***************************************************************************)
LEMMA FilesKept ==
    ASSUME DirectInv, NEW t \in Clients, CallBegins(t) \/ CallGoesOn(t)
    PROVE  DriverFiles' /\ IonFiles'
<1>1. /\ DriverFiles /\ IonFiles /\ DirectTypes /\ DevicesSound
      /\ opened \in [Clients -> Descriptors \cup {NoFd}]
      /\ file \in [Descriptors -> {"closed", "driver", "ion"}]
      /\ dev \in [Addresses -> DeviceSet]
  BY DEF DirectInv, DirectTypes, DirectTypeOK, DeviceSet
<1>2. ASSUME UNCHANGED <<dev, opened, file>> PROVE DriverFiles'
  BY <1>1, <1>2, DriverQuiet
<1>3. ASSUME UNCHANGED <<file, bufs, input, lostFiles>> PROVE IonFiles'
  BY <1>1, <1>3, IonQuiet
<1>4. ASSUME NEW how \in Opens, Open(t, how) PROVE DriverFiles' /\ IonFiles'
  <2>1. \A f \in Descriptors : file'[f] = "ion" <=> file[f] = "ion"
    BY <1>1, <1>4, LowestIs DEF Open, FreeFds
  <2> QED
    BY <1>1, <1>4, <2>1, IonQuiet, OpenKeepsDriverFiles DEF Open, commandVars, lostVars
<1>5. ASSUME NEW h \in handles, Close(t, h) PROVE DriverFiles' /\ IonFiles'
  <2>1. /\ DriverFiles'
        /\ \A f \in Descriptors : file'[f] /= file[f] =>
              file[f] = "driver" /\ file'[f] = "closed"
    BY <1>5, CloseKeepsDriverFiles
  <2>2. UNCHANGED <<bufs, input, lostFiles>>
    BY <1>5 DEF Close, commandVars, lostVars
  <2> QED
    BY <1>1, <2>1, <2>2, IonQuiet
<1>6. ASSUME NEW h \in handles, Hint(t, h) PROVE DriverFiles' /\ IonFiles'
  BY <1>2, <1>3, <1>6 DEF Hint, deviceVars, openVars, lostVars
<1>7. ASSUME NEW h \in handles, NEW kinds \in BufferLists, Command(t, h, kinds)
      PROVE  DriverFiles' /\ IonFiles'
  BY <1>2, <1>3, <1>7 DEF Command, deviceVars, openVars, lostVars
<1>8. ASSUME NEW h \in handles, NEW kinds \in BufferLists, Library(t, h, kinds)
      PROVE  DriverFiles' /\ IonFiles'
  <2>1. /\ IonFiles'
        /\ \A f \in Descriptors : file'[f] /= file[f] =>
              file[f] = "closed" /\ file'[f] = "ion"
    BY <1>8, LibraryKeepsIonFiles
  <2>2. UNCHANGED <<dev, opened>>
    BY <1>8 DEF Library, openVars
  <2> QED
    BY <1>1, <2>1, <2>2, DriverQuiet
<1>9. ASSUME NEW a \in Addresses, NewDevice(t, a) PROVE DriverFiles' /\ IonFiles'
  BY <1>3, <1>9, NewDeviceKeepsDriverFiles DEF NewDevice, commandVars, lostVars
<1>10. ASSUME NEW a \in Addresses, Wrap(t, a) PROVE DriverFiles' /\ IonFiles'
  <2>1. UNCHANGED <<file, opened, bufs, input, lostFiles>>
    BY <1>10 DEF Wrap, commandVars, lostVars
  <2>2. /\ \A b \in Addresses \ {a} : dev'[b] = dev[b]
        /\ dev'[a].type = "NORMAL" /\ dev[a].type = "NONE"
    BY <1>1, <1>10 DEF Wrap, NoDevice
  <2> QED
    BY <1>1, <1>3, <2>1, <2>2, DriverQuiet
<1>11. ASSUME NoMemory(t) PROVE DriverFiles' /\ IonFiles'
  <2>1. \A f \in Descriptors : file'[f] = "ion" <=> file[f] = "ion"
    <3>1. file[opened[t]] = "driver"
      BY <1>1, <1>11 DEF DirectInv, Calls, InHand, NoMemory, DriverFiles
    <3> QED
      BY <1>11, <3>1 DEF NoMemory, CloseFds
  <2>2. UNCHANGED <<bufs, input, lostFiles>>
    BY <1>11 DEF NoMemory, commandVars, lostVars
  <2> QED
    BY <1>1, <1>11, <2>1, <2>2, IonQuiet, NoMemoryKeepsDriverFiles
<1>12. ASSUME NoMemoryToWrap(t) PROVE DriverFiles' /\ IonFiles'
  BY <1>2, <1>3, <1>12 DEF NoMemoryToWrap, deviceVars, commandVars
<1>13. ASSUME NEW fds \in Allocations, BufferAdded(t, fds) \/ BufferNotAdded(t, fds)
       PROVE  DriverFiles' /\ IonFiles'
  <2>1. /\ IonFiles'
        /\ \A f \in Descriptors : file'[f] /= file[f] =>
              file[f] = "closed" /\ file'[f] = "ion"
    BY <1>13, CreateBufferKeepsIonFiles, BufferNotAddedKeepsIonFiles
  <2>2. NewBuffer(t, fds)
    BY <1>13 DEF BufferAdded, BufferNotAdded
  <2>3. /\ opened' = opened
        /\ \A x \in Addresses : dev'[x].type = dev[x].type /\ dev'[x].fd = dev[x].fd
    BY <2>2, NewBufferDevices DEF NewBuffer, openVars
  <2> QED
    BY <1>1, <2>1, <2>3, DriverQuiet
<1>14. ASSUME NoBuffer(t) PROVE DriverFiles' /\ IonFiles'
  BY <1>2, <1>3, <1>14 DEF NoBuffer, deviceVars, openVars, lostVars
<1>15. ASSUME Answered(t) PROVE DriverFiles' /\ IonFiles'
  BY <1>2, <1>3, <1>15 DEF Answered, deviceVars, openVars, commandVars, lostVars
<1>16. ASSUME BufferReleased(t) PROVE DriverFiles' /\ IonFiles'
  <2>1. /\ IonFiles'
        /\ \A f \in Descriptors : file'[f] /= file[f] =>
              file[f] = "ion" /\ file'[f] = "closed"
    BY <1>16, ReleaseBufferKeepsIonFiles
  <2>2. /\ opened' = opened
        /\ \A x \in Addresses : dev'[x].type = dev[x].type /\ dev'[x].fd = dev[x].fd
    <3>1. CASE Head(bufs[t]).kind = "DEVICE"
      <4>1. PICK a \in Addresses : a = Target(using[t])
        BY <1>16, <3>1, BufferKeepsDevice DEF BufferReleased
      <4>2. dev[a].type /= "NONE" /\ Freed(a) = {}
        BY <1>16, <3>1, <4>1, BufferKeepsDevice DEF BufferReleased
      <4>3. Release(a, Head(bufs[t]).fds)
        BY <1>16, <3>1, <4>1 DEF BufferReleased
      <4>4. \A d \in Addresses \ Freed(a) :
               dev'[d].type = dev[d].type /\ dev'[d].fd = dev[d].fd
        BY <1>1, <4>2, <4>3, ReleaseDevices
      <4> QED
        BY <1>16, <4>2, <4>4 DEF BufferReleased, openVars
    <3>2. CASE Head(bufs[t]).kind /= "DEVICE"
      BY <1>16, <3>2 DEF BufferReleased, openVars
    <3> QED
      BY <3>1, <3>2
  <2> QED
    BY <1>1, <2>1, <2>2, DriverQuiet
<1>17. ASSUME Return(t) PROVE DriverFiles' /\ IonFiles'
  <2>1. /\ IonFiles'
        /\ \A f \in Descriptors : file'[f] /= file[f] =>
              file[f] = "ion" /\ file'[f] = "closed"
    BY <1>17, ReturnKeepsIonFiles
  <2>2. UNCHANGED <<dev, opened>>
    BY <1>17 DEF Return, openVars
  <2> QED
    BY <1>1, <2>1, <2>2, DriverQuiet
<1> QED
  BY <1>4, <1>5, <1>6, <1>7, <1>8, <1>9, <1>10, <1>11, <1>12, <1>13, <1>14, <1>15,
     <1>16, <1>17 DEF CallBegins, CallGoesOn

LEMMA InitHolds == DirectInit => DirectInv
<1> SUFFICES ASSUME DirectInit PROVE DirectInv
  OBVIOUS
<1>1. DirectTypes
  <2>1. NoDevice \in [type : {"NONE", "NEWMODE", "NORMAL"}, ref : Nat,
                      fd : Int, generation : 0 .. Word - 1] \/ Addresses = {}
    BY NumbersAre DEF NoDevice
  <2> QED
    BY <2>1, FS_EmptySet DEF DirectInit, DirectTypes, DirectTypeOK, HandleSet
<1>2. Calls
  <2>1. MaxBuffers \in Nat /\ Len(<< >>) = 0 /\ DOMAIN << >> = {}
    BY DirectDeviceAssumption
  <2> QED
    BY <2>1 DEF DirectInit, Calls, InHand, BuffersFit, InCommand, Opens
<1>3. DevicesSound /\ HandlesLeadToDevices
  BY DEF DirectInit, DevicesSound, HandlesLeadToDevices, NoDevice
<1>4. DeviceRefsExact
  <2> SUFFICES ASSUME NEW a \in Addresses
               PROVE  dev[a].ref = Cardinality(HandlesOn(a)) + Cardinality(NormalsOn(a))
                          + Cardinality(OpensOn(a)) + Cardinality(BuffersOn(a))
                          + lostRefs[a]
    BY DEF DeviceRefsExact, HandlesOn, Keepers, NormalsOn, OpensOn
  <2>1. HandlesOn(a) = {} /\ NormalsOn(a) = {}
    BY DEF DirectInit, HandlesOn, NormalsOn, NoDevice
  <2>2. OpensOn(a) = {}
    BY NumbersAre DEF DirectInit, OpensOn
  <2>3. BuffersOn(a) = {}
    BY DEF DirectInit, BuffersOn
  <2>4. Cardinality({}) = 0
    BY FS_EmptySet
  <2>5. dev[a].ref = 0 /\ lostRefs[a] = 0
    BY DEF DirectInit, NoDevice
  <2> QED
    BY ONLY <2>1, <2>2, <2>3, <2>4, <2>5
<1>5. DriverFiles
  BY DEF DirectInit, DriverFiles, IsNewmode, NoDevice
<1>6. IonFiles
  BY DEF DirectInit, IonFiles, InBuffers
<1> QED
  BY <1>1, <1>2, <1>3, <1>4, <1>5, <1>6 DEF DirectInv

-----------------------------------------------------------------------------
(***************************************************************************)
(* The theorems.                                                           *)
(***************************************************************************)

\* Every step of open, close, command and library call keeps the invariant.
THEOREM DirectInvariant == DirectSpec => []DirectInv
<1>1. DirectInv /\ [DirectNext]_directVars => DirectInv'
  <2> SUFFICES ASSUME DirectInv, [DirectNext]_directVars PROVE DirectInv'
    OBVIOUS
  <2>1. CASE DirectNext
    <3>1. PICK t \in Clients : CallBegins(t) \/ CallGoesOn(t)
      BY <2>1 DEF DirectNext
    <3>2. DevicesInv' /\ dev' \in [Addresses -> DeviceSet]
      BY <3>1, DevicesKept
    <3>3. DirectTypes' /\ Calls' /\ DriverFiles' /\ IonFiles'
      BY <3>1, <3>2, TypesKept, CallsKept, FilesKept
    <3> QED
      BY <3>2, <3>3 DEF DirectInv, DevicesInv
  <2>2. CASE UNCHANGED directVars
    <3>1. /\ UNCHANGED <<file, dev, handles, point, opened, inner, using, todo, bufs>>
          /\ UNCHANGED <<input, lostFiles, lostRefs>>
      BY <2>2 DEF directVars, deviceVars, openVars, commandVars, lostVars
    <3>2. DirectTypes'
      BY <3>1 DEF DirectInv, DirectTypes, DirectTypeOK
    <3>3. Calls'
      BY <3>1 DEF DirectInv, Calls, InHand, BuffersFit, InCommand
    <3>4. DevicesInv'
      BY <3>1, BuffersSame, DevicesQuiet DEF DirectInv, DevicesInv
    <3>5. DriverFiles' /\ IonFiles'
      BY <3>1, DriverQuiet, IonQuiet DEF DirectInv, DirectTypes, DirectTypeOK
    <3> QED
      BY <3>2, <3>3, <3>4, <3>5 DEF DirectInv, DevicesInv
  <2> QED
    BY <2>1, <2>2
<1> QED
  BY <1>1, InitHolds, PTL DEF DirectSpec

\* Every variable keeps its type: xrp_release_device never counts below zero.
THEOREM DirectTypeCorrect == DirectSpec => []DirectTypeOK
<1>1. DirectInv => DirectTypeOK
  BY DEF DirectInv, DirectTypes
<1> QED
  BY <1>1, DirectInvariant, PTL

\* The reference counter of a device is the number of handles, NORMAL devices,
\* opens and buffers that will call xrp_release_device on it.
THEOREM DeviceRefsCorrect == DirectSpec => []DeviceRefsExact
<1>1. DirectInv => DeviceRefsExact
  BY DEF DirectInv
<1> QED
  BY <1>1, DirectInvariant, PTL

\* A handle of any of the three interfaces leads to its own device until it is
\* closed, wherever malloc placed it.
THEOREM HandlesLeadCorrect == DirectSpec => []HandlesLeadToDevices
<1>1. DirectInv => HandlesLeadToDevices
  BY DEF DirectInv
<1> QED
  BY <1>1, DirectInvariant, PTL

\* The ioctl of sprd_vdsp_send_command_directly is on a descriptor that is open
\* on the driver until the driver answers, whatever other threads open and
\* close meanwhile.
THEOREM DirectCommandsCorrect == DirectSpec => []DirectCommandsReachDriver
<1>1. DirectInv => DirectCommandsReachDriver
  <2> SUFFICES ASSUME DirectInv, NEW t \in Clients, InIoctl(t),
                      using[t].api /= "normal"
               PROVE  Driven(t) \in Descriptors /\ file[Driven(t)] = "driver"
    BY DEF DirectCommandsReachDriver
  <2>1. /\ Target(using[t]) \in Addresses
        /\ dev[Target(using[t])].type = "NEWMODE"
    BY CommandDevice DEF InIoctl, InCommand
  <2> QED
    BY <2>1 DEF DirectInv, DriverFiles, IsNewmode, Driven
<1> QED
  BY <1>1, DirectInvariant, PTL

-----------------------------------------------------------------------------
(***************************************************************************)
(* The owners of a descriptor: those who will close it, and those who can  *)
(* no longer.                                                              *)
(***************************************************************************)
OwnersOf(f) ==
    {<<"device", a>> : a \in DriversOf(f)}
    \cup {<<"open", t>> : t \in {t \in Clients : opened[t] = f}}
    \cup {<<"buffer", t>> : t \in {t \in Clients : InBuffers(t, f)}}
    \cup {<<"input", t>> : t \in {t \in Clients : f \in input[t]}}
    \cup {<<"nobody", f>> : g \in lostFiles \cap {f}}

\* A closed one has no owner, an open one has one.
LEMMA OneOwner ==
    ASSUME DirectInv, NEW f \in Descriptors
    PROVE  IF file[f] = "closed" THEN OwnersOf(f) = {} ELSE \E x : OwnersOf(f) = {x}
<1> DEFINE D == DriversOf(f)
           O == {t \in Clients : opened[t] = f}
           B == {t \in Clients : InBuffers(t, f)}
           I == {t \in Clients : f \in input[t]}
           L == lostFiles \cap {f}
<1>1. OwnersOf(f) = {<<"device", a>> : a \in D} \cup {<<"open", t>> : t \in O}
                       \cup {<<"buffer", t>> : t \in B}
                       \cup {<<"input", t>> : t \in I} \cup {<<"nobody", f>> : g \in L}
  BY DEF OwnersOf, DriversOf, InBuffers
<1>2. /\ DriverFiles /\ IonFiles /\ f /= NoFd
      /\ file[f] \in {"closed", "driver", "ion"}
  BY NumbersAre DEF DirectInv, DirectTypes, DirectTypeOK
<1>3. file[f] /= "driver" => D = {} /\ O = {}
  BY <1>2 DEF DriverFiles, DriversOf, IsNewmode
<1>4. file[f] /= "ion" => B = {} /\ I = {} /\ L = {}
  BY <1>2 DEF IonFiles
<1>5. CASE file[f] = "closed"
  <2>1. OwnersOf(f) = {}
    BY <1>1, <1>3, <1>4, <1>5
  <2> QED
    BY <1>5, <2>1
<1>6. CASE file[f] = "driver"
  <2>1. \A a, b \in D : a = b
    BY <1>2 DEF DriverFiles, DriversOf, IsNewmode
  <2>2. \A t, u \in O : t = u
    BY <1>2 DEF DriverFiles
  <2>3. D = {} \/ O = {}
    BY <1>2 DEF DriverFiles, DriversOf, IsNewmode
  <2>4. D /= {} \/ O /= {}
    BY <1>2, <1>6 DEF DriverFiles, DriversOf, IsNewmode
  <2>5. \E x : OwnersOf(f) = {x}
    <3> HIDE DEF D, O, B, I, L
    <3>1. CASE O = {}
      <4>1. PICK a : D = {a}
        BY <2>1, <2>4, <3>1
      <4>2. OwnersOf(f) = {<<"device", a>>}
        BY <1>1, <1>4, <1>6, <3>1, <4>1
      <4> QED
        BY <4>2
    <3>2. CASE D = {}
      <4>1. PICK t : O = {t}
        BY <2>2, <2>4, <3>2
      <4>2. OwnersOf(f) = {<<"open", t>>}
        BY <1>1, <1>4, <1>6, <3>2, <4>1
      <4> QED
        BY <4>2
    <3> QED
      BY <2>3, <3>1, <3>2
  <2> QED
    BY <1>6, <2>5
<1>7. CASE file[f] = "ion"
  <2>1. (\A t, u \in B : t = u) /\ (\A t, u \in I : t = u)
    BY <1>2 DEF IonFiles
  <2>2. /\ B = {} \/ I = {}
        /\ L /= {} => B = {} /\ I = {}
    BY <1>2 DEF IonFiles
  <2>3. L /= {} \/ B /= {} \/ I /= {}
    BY <1>2, <1>7 DEF IonFiles
  <2>4. L = {} \/ L = {f}
    OBVIOUS
  <2>5. \E x : OwnersOf(f) = {x}
    <3> HIDE DEF D, O, B, I, L
    <3>1. CASE L /= {}
      <4>1. OwnersOf(f) = {<<"nobody", f>>}
        BY <1>1, <1>3, <1>7, <2>2, <2>4, <3>1
      <4> QED
        BY <4>1
    <3>2. CASE L = {} /\ I = {}
      <4>1. PICK t : B = {t}
        BY <2>1, <2>3, <3>2
      <4>2. OwnersOf(f) = {<<"buffer", t>>}
        BY <1>1, <1>3, <1>7, <3>2, <4>1
      <4> QED
        BY <4>2
    <3>3. CASE L = {} /\ B = {}
      <4>1. PICK t : I = {t}
        BY <2>1, <2>3, <3>3
      <4>2. OwnersOf(f) = {<<"input", t>>}
        BY <1>1, <1>3, <1>7, <3>3, <4>1
      <4> QED
        BY <4>2
    <3> QED
      BY <2>2, <3>1, <3>2, <3>3
  <2> QED
    BY <1>7, <2>5
<1> QED
  BY <1>2, <1>5, <1>6, <1>7

\* A device that is there and that no call can release has lost a reference, or
\* is kept by a NORMAL device that has.
LEMMA OutOfReach ==
    ASSUME DirectInv, NEW a \in Addresses, dev[a].type = "NEWMODE", ~Held(a)
    PROVE  \E n \in {a} \cup Keepers(a) : lostRefs[n] > 0
<1>1. /\ DirectTypes /\ DevicesSound /\ DeviceRefsExact
      /\ Keepers(a) \subseteq Addresses
  BY DEF DirectInv, Keepers
<1>2. ASSUME NEW x \in {a} \cup Keepers(a), NormalsOn(x) = {}
      PROVE  lostRefs[x] > 0
  <2>1. x \in Addresses /\ dev[x].type /= "NONE"
    BY <1>1, <1>2 DEF Keepers
  <2>2. HandlesOn(x) = {}
    BY <1>2 DEF Held, HandlesOn
  <2>3. OpensOn(x) = {}
    <3>1. CASE x = a
      BY <3>1 DEF Held, OpensOn
    <3>2. CASE x \in Keepers(a)
      <4>1. dev[x].type = "NORMAL" /\ x /= 0
        BY <3>2, NumbersAre, <2>1 DEF Keepers
      <4> QED
        BY <1>1, <4>1 DEF DevicesSound, OpensOn
    <3> QED
      BY <1>2, <3>1, <3>2
  <2>4. BuffersOn(x) = {}
    <3> SUFFICES ASSUME NEW b \in BuffersOn(x) PROVE FALSE
      OBVIOUS
    <3>1. b[1] \in Clients /\ bufs[b[1]] /= << >> /\ Target(using[b[1]]) = x
      BY DEF BuffersOn
    <3>2. using[b[1]] \in HandlesOn(x)
      BY <3>1, FirstBuffer, CommandDevice
    <3> QED
      BY <2>2, <3>2
  <2>5. /\ Cardinality(HandlesOn(x)) = 0 /\ Cardinality(NormalsOn(x)) = 0
        /\ Cardinality(OpensOn(x)) = 0 /\ Cardinality(BuffersOn(x)) = 0
    BY <1>2, <2>2, <2>3, <2>4, FS_EmptySet
  <2>6. dev[x].ref = lostRefs[x] /\ lostRefs[x] \in Nat
    <3>1. dev[x].ref = Cardinality(HandlesOn(x)) + Cardinality(NormalsOn(x))
                         + Cardinality(OpensOn(x)) + Cardinality(BuffersOn(x)) + lostRefs[x]
      BY <1>1, <2>1, CountsExact
    <3>2. lostRefs[x] \in Nat
      BY <1>1, <2>1 DEF DirectTypes, DirectTypeOK
    <3> QED
      BY ONLY <2>5, <3>1, <3>2
  <2> QED
    BY <1>1, <2>1, <2>6 DEF DevicesSound
<1>3. NormalsOn(a) = Keepers(a)
  BY DEF NormalsOn, Keepers
<1>4. \A n \in Keepers(a) : NormalsOn(n) = {}
  BY <1>1 DEF Keepers, NormalsOn, DevicesSound
<1> QED
  BY <1>2, <1>3, <1>4

\* At most one call will close a descriptor and none one that is closed or lost,
\* with threads that open, close and allocate at the same time; an open one
\* nobody will close was lost to a failed realloc, to a failed allocation of
\* xrp_open_device, or is a /dev/ion that is descriptor 0.
THEOREM FilesOwnedCorrect == DirectSpec => []FilesOwned
<1>1. DirectInv => FilesOwned
  <2> SUFFICES ASSUME DirectInv, NEW f \in Descriptors
               PROVE  /\ Cardinality(ClosersOf(f)) <= 1
                      /\ file[f] = "closed" \/ f \in lostFiles => ClosersOf(f) = {}
                      /\ file[f] /= "closed" /\ ClosersOf(f) = {} => Lost(f)
    BY DEF FilesOwned
  <2>1. ClosersOf(f) \subseteq OwnersOf(f)
    BY DEF ClosersOf, OwnersOf, InBuffers
  <2>2. CASE file[f] = "closed"
    <3>1. ClosersOf(f) = {}
      BY <2>1, <2>2, OneOwner
    <3> QED
      BY <2>2, <3>1, FS_EmptySet
  <2>3. CASE file[f] /= "closed"
    <3>1. PICK x : OwnersOf(f) = {x}
      BY <2>3, OneOwner
    <3>2. ClosersOf(f) = {} \/ ClosersOf(f) = {x}
      <4>1. \A S : S \subseteq {x} => S = {} \/ S = {x}
        OBVIOUS
      <4> QED
        BY ONLY <2>1, <3>1, <4>1
    <3>3. Cardinality(ClosersOf(f)) <= 1
      <4>1. Cardinality({}) = 0 /\ Cardinality({x}) = 1
        BY FS_EmptySet, FS_Singleton
      <4> QED
        BY ONLY <3>2, <4>1
    <3>4. ASSUME f \in lostFiles PROVE ClosersOf(f) = {}
      <4>1. <<"nobody", f>> \in OwnersOf(f) /\ <<"nobody", f>> \notin ClosersOf(f)
        BY <3>4 DEF OwnersOf, ClosersOf
      <4> QED
        BY <2>1, <3>1, <4>1
    <3>5. ASSUME ClosersOf(f) = {} PROVE Lost(f)
      <4>1. \/ f \in lostFiles
            \/ \E a \in DriversOf(f) : ~Held(a)
        BY <3>1, <3>5 DEF OwnersOf, ClosersOf, InBuffers
      <4>2. ASSUME NEW a \in DriversOf(f), ~Held(a) PROVE Lost(f)
        BY <4>2, OutOfReach DEF DriversOf, Lost
      <4> QED
        BY <4>1, <4>2 DEF Lost
    <3> QED
      BY <2>3, <3>3, <3>4, <3>5
  <2> QED
    BY <2>2, <2>3
<1> QED
  BY <1>1, DirectInvariant, PTL

=============================================================================
