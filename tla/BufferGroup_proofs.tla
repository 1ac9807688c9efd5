------------------------- MODULE BufferGroup_proofs -------------------------
(***************************************************************************)
(* What holds of the buffers and of the group for any number of threads,   *)
(* buffers and entries: every reference counter is exact, nobody uses the  *)
(* group or a buffer of a command after it has been freed, and nothing is  *)
(* left once everything has been given back.                               *)
(*                                                                         *)
(* A counter is changed by its own atomic operation while the references   *)
(* it counts are spread over the application, the entries of the group,    *)
(* the exchanges under way and the command.  A buffer may stand in several *)
(* entries, and an entry moves when the group is drained from its head, so *)
(* the entries are counted by position (PlacesOf) and the lemmas of the    *)
(* first part say what each operation on the list does to these counts.    *)
(***************************************************************************)
EXTENDS BufferGroup, FiniteSetTheorems, SequenceTheorems, TLAPS

\* The types, before the counters are known not to go below zero.
BufferTypes ==
    /\ bufLife \in [Buffers -> {"none", "live", "freed"}]
    /\ bufType \in [Buffers -> {"HOST", "DEVICE"}]
    /\ bufRef \in [Buffers -> Int]
    /\ owners \in SUBSET (Threads \X Buffers \X Reasons)
    /\ IsFiniteSet(owners)

GroupTypes ==
    /\ grpLife \in {"none", "live", "freed"} /\ grpRef \in Int
    /\ holdsG \in SUBSET Threads
    /\ records \in Seq(Buffers) /\ Len(records) <= MaxRecords
    /\ devRef \in Int /\ holdsD \in BOOLEAN
    /\ cmd \in {"none", "queued", "running"}
    /\ snapshot \in SUBSET Buffers /\ replaced \in SUBSET Buffers

CallTypes ==
    /\ pc \in [Actors -> {"idle", "drain", "set_swap", "set_release"}]
    /\ pc[Worker] \in {"idle", "drain"}
    /\ hand \in [Threads -> Buffers \cup {None}]
    /\ index \in [Threads -> Indices \cup {0}]

InSet(t) == pc[t] \in {"set_swap", "set_release"}

\* A thread in xrp_set_buffer_in_group has a buffer to release, and its own
\* reference to the group.
SetCalls ==
    \A t \in Threads :
        /\ InSet(t) <=> hand[t] /= None
        /\ InSet(t) => t \in holdsG
        /\ pc[t] = "set_swap" => index[t] \in Indices

InUse == holdsG /= {} \/ cmd /= "none"

\* The life of the group: it is live while it is in use, and then one actor
\* drains it.
GroupLife ==
    /\ InUse => grpLife = "live"
    /\ \A a \in Actors : pc[a] = "drain" => grpLife = "live" /\ ~InUse
    /\ \A a, c \in Actors : pc[a] = "drain" /\ pc[c] = "drain" => a = c
    /\ grpLife = "live" => InUse \/ \E a \in Actors : pc[a] = "drain"
    /\ grpLife /= "live" => records = << >>

PlacesOf(s, b) == {i \in DOMAIN s : s[i] = b}

\* What a command works on is in the group, or has been exchanged since.
CommandHas ==
    /\ \A b \in snapshot \ replaced : PlacesOf(records, b) /= {}
    /\ cmd /= "running" => snapshot = {}

\* The inductive invariant, to which the counters are added.
GroupInv ==
    /\ BufferTypes /\ GroupTypes /\ CallTypes
    /\ SetCalls
    /\ GroupLife
    /\ CommandHas

-----------------------------------------------------------------------------
(***************************************************************************)
(* Counting.                                                               *)
(***************************************************************************)

One(p) == IF p THEN 1 ELSE 0

\* The entries with a buffer are finitely many.
LEMMA PlacesFinite ==
    ASSUME NEW s \in Seq(Buffers), NEW b
    PROVE  /\ IsFiniteSet(PlacesOf(s, b))
           /\ Cardinality(PlacesOf(s, b)) \in Nat
           /\ PlacesOf(s, b) \subseteq 1 .. Len(s)
<1>1. PlacesOf(s, b) \in SUBSET (1 .. Len(s)) /\ Len(s) \in Nat
  BY DEF PlacesOf
<1>2. IsFiniteSet(1 .. Len(s))
  BY <1>1, FS_Interval
<1> QED
  BY <1>1, <1>2, FS_Subset, FS_CardinalityType

\* xrp_add_buffer_to_group: one more entry with the added buffer.
LEMMA PlacesAppend ==
    ASSUME NEW s \in Seq(Buffers), NEW b \in Buffers, NEW c \in Buffers
    PROVE  Cardinality(PlacesOf(Append(s, b), c)) =
               Cardinality(PlacesOf(s, c)) + One(c = b)
<1> DEFINE n == Len(s) + 1
<1>1. /\ DOMAIN Append(s, b) = 1 .. n /\ DOMAIN s = 1 .. Len(s) /\ Len(s) \in Nat
      /\ \A i \in 1 .. Len(s) : Append(s, b)[i] = s[i]
      /\ Append(s, b)[n] = b
  BY AppendProperties, LenProperties
<1>2. IsFiniteSet(PlacesOf(s, c)) /\ n \notin PlacesOf(s, c)
  <2>1. IsFiniteSet(PlacesOf(s, c)) /\ PlacesOf(s, c) \subseteq 1 .. Len(s)
    BY PlacesFinite
  <2>2. n \notin 1 .. Len(s)
    BY <1>1
  <2> QED
    BY <2>1, <2>2
<1>3. CASE c = b
  <2>1. PlacesOf(Append(s, b), c) = PlacesOf(s, c) \cup {n}
    BY <1>1, <1>3 DEF PlacesOf
  <2> QED
    BY <1>2, <1>3, <2>1, FS_AddElement DEF One
<1>4. CASE c /= b
  <2>1. PlacesOf(Append(s, b), c) = PlacesOf(s, c)
    BY <1>1, <1>4 DEF PlacesOf
  <2> QED
    BY <1>4, <2>1, PlacesFinite DEF One
<1> QED
  BY <1>3, <1>4

\* The exchange of xrp_set_buffer_in_group: an entry with b instead of what
\* stood there.
LEMMA PlacesReplace ==
    ASSUME NEW s \in Seq(Buffers), NEW b \in Buffers, NEW c \in Buffers,
           NEW i \in 1 .. Len(s)
    PROVE  Cardinality(PlacesOf([s EXCEPT ![i] = b], c)) =
               Cardinality(PlacesOf(s, c)) + One(c = b) - One(c = s[i])
<1> DEFINE u == [s EXCEPT ![i] = b]
<1>1. /\ DOMAIN u = 1 .. Len(s) /\ DOMAIN s = 1 .. Len(s)
      /\ u[i] = b /\ \A j \in 1 .. Len(s) : j /= i => u[j] = s[j]
  BY LenProperties
<1>2. IsFiniteSet(PlacesOf(s, c)) /\ Cardinality(PlacesOf(s, c)) \in Nat
  BY PlacesFinite
<1>3. CASE c = b /\ c = s[i]
  <2>1. PlacesOf(u, c) = PlacesOf(s, c)
    BY <1>1, <1>3 DEF PlacesOf
  <2> QED
    BY <1>2, <1>3, <2>1 DEF One
<1>4. CASE c = b /\ c /= s[i]
  <2>1. PlacesOf(u, c) = PlacesOf(s, c) \cup {i} /\ i \notin PlacesOf(s, c)
    BY <1>1, <1>4 DEF PlacesOf
  <2>2. Cardinality(PlacesOf(u, c)) = Cardinality(PlacesOf(s, c)) + 1
    BY <1>2, <2>1, FS_AddElement
  <2> QED
    BY <1>2, <1>4, <2>2 DEF One
<1>5. CASE c /= b /\ c = s[i]
  <2>1. PlacesOf(u, c) = PlacesOf(s, c) \ {i} /\ i \in PlacesOf(s, c)
    BY <1>1, <1>5 DEF PlacesOf
  <2>2. Cardinality(PlacesOf(u, c)) = Cardinality(PlacesOf(s, c)) - 1
    BY <1>2, <2>1, FS_RemoveElement
  <2> QED
    BY <1>2, <1>5, <2>2 DEF One
<1>6. CASE c /= b /\ c /= s[i]
  <2>1. PlacesOf(u, c) = PlacesOf(s, c)
    BY <1>1, <1>6 DEF PlacesOf
  <2> QED
    BY <1>2, <1>6, <2>1 DEF One
<1> QED
  BY <1>3, <1>4, <1>5, <1>6

\* xrp_release_buffer_group takes the entry at the head: the others move.
LEMMA PlacesTail ==
    ASSUME NEW s \in Seq(Buffers), s /= << >>, NEW c \in Buffers
    PROVE  Cardinality(PlacesOf(Tail(s), c)) =
               Cardinality(PlacesOf(s, c)) - One(c = Head(s))
<1> DEFINE T == PlacesOf(Tail(s), c)
           S == PlacesOf(s, c) \ {1}
           Move == [i \in T |-> i + 1]
<1>1. /\ DOMAIN s = 1 .. Len(s) /\ Len(s) \in Nat \ {0}
      /\ DOMAIN Tail(s) = 1 .. (Len(s) - 1) /\ Tail(s) \in Seq(Buffers)
      /\ \A i \in 1 .. (Len(s) - 1) : Tail(s)[i] = s[i + 1]
      /\ Head(s) = s[1]
  BY HeadTailProperties, LenProperties, EmptySeq
<1>2. T \subseteq Nat /\ S \subseteq Nat
  BY <1>1 DEF PlacesOf
<1>3. \A i \in T : i + 1 \in S
  BY <1>1 DEF PlacesOf
<1>4. \A j \in S : j - 1 \in T /\ (j - 1) + 1 = j
  BY <1>1 DEF PlacesOf
<1>5. Move \in Bijection(T, S)
  <2>1. Move \in [T -> S]
    BY <1>3
  <2>2. \A i, j \in T : Move[i] = Move[j] => i = j
    BY <1>2
  <2>3. \A j \in S : \E i \in T : Move[i] = j
    BY <1>4
  <2> QED
    BY <2>1, <2>2, <2>3 DEF Bijection, Injection, Surjection, IsInjective
<1>6. IsFiniteSet(T) /\ Cardinality(S) = Cardinality(T)
  <2>1. IsFiniteSet(T)
    BY <1>1, PlacesFinite
  <2> QED
    BY <1>5, <2>1, FS_Bijection DEF ExistsBijection
<1>7. IsFiniteSet(PlacesOf(s, c)) /\ Cardinality(PlacesOf(s, c)) \in Nat
  BY PlacesFinite
<1>8. 1 \in PlacesOf(s, c) <=> c = Head(s)
  BY <1>1 DEF PlacesOf
<1>9. Cardinality(S) = Cardinality(PlacesOf(s, c)) - One(c = Head(s))
  <2>1. Cardinality(S) = IF 1 \in PlacesOf(s, c)
                         THEN Cardinality(PlacesOf(s, c)) - 1
                         ELSE Cardinality(PlacesOf(s, c))
    BY <1>7, FS_RemoveElement
  <2> QED
    BY <1>7, <1>8, <2>1 DEF One
<1> QED
  BY <1>6, <1>7, <1>9 DEF One


\* The application gets something to release.
LEMMA OwnAdds ==
    ASSUME BufferTypes, NEW t \in Threads, NEW b \in Buffers,
           NEW why \in Reasons, Own(t, b, why), NEW c \in Buffers
    PROVE  Cardinality(OwnersOf(c)') = Cardinality(OwnersOf(c)) + One(c = b)
<1>1. IsFiniteSet(OwnersOf(c)) /\ Cardinality(OwnersOf(c)) \in Nat
  BY FS_Subset, FS_CardinalityType DEF BufferTypes, OwnersOf
<1>2. CASE c = b
  <2>1. /\ OwnersOf(c)' = OwnersOf(c) \cup {<<t, b, why>>}
        /\ <<t, b, why>> \notin OwnersOf(c)
    BY <1>2 DEF Own, OwnersOf
  <2>2. Cardinality(OwnersOf(c)') = Cardinality(OwnersOf(c)) + 1
    BY <1>1, <2>1, FS_AddElement
  <2> QED
    BY <1>2, <2>2 DEF One
<1>3. CASE c /= b
  <2>1. OwnersOf(c)' = OwnersOf(c)
    BY <1>3 DEF Own, OwnersOf
  <2> QED
    BY <1>1, <1>3, <2>1 DEF One
<1> QED
  BY <1>2, <1>3

\* And gives it back.
LEMMA GiveBack ==
    ASSUME BufferTypes, NEW t \in Threads, NEW b \in Buffers, NEW why \in Reasons,
           <<t, b, why>> \in owners, owners' = owners \ {<<t, b, why>>},
           NEW c \in Buffers
    PROVE  Cardinality(OwnersOf(c)') = Cardinality(OwnersOf(c)) - One(c = b)
<1>1. IsFiniteSet(OwnersOf(c)) /\ Cardinality(OwnersOf(c)) \in Nat
  BY FS_Subset, FS_CardinalityType DEF BufferTypes, OwnersOf
<1>2. CASE c = b
  <2>1. /\ OwnersOf(c)' = OwnersOf(c) \ {<<t, b, why>>}
        /\ <<t, b, why>> \in OwnersOf(c)
    BY <1>2 DEF OwnersOf
  <2>2. Cardinality(OwnersOf(c)') = Cardinality(OwnersOf(c)) - 1
    BY <1>1, <2>1, FS_RemoveElement
  <2> QED
    BY <1>1, <1>2, <2>2 DEF One
<1>3. CASE c /= b
  <2>1. OwnersOf(c)' = OwnersOf(c)
    BY <1>3 DEF OwnersOf
  <2> QED
    BY <1>1, <1>3, <2>1 DEF One
<1> QED
  BY <1>2, <1>3

\* The buffer in the hand of a thread changes and no other does.
LEMMA HandChanges ==
    ASSUME NEW t \in Threads, \A u \in Threads \ {t} : hand'[u] = hand[u],
           NEW c
    PROVE  Cardinality(HandsOf(c)') =
               Cardinality(HandsOf(c)) + One(c = hand'[t]) - One(c = hand[t])
<1>1. IsFiniteSet(HandsOf(c)) /\ Cardinality(HandsOf(c)) \in Nat
  BY BufferGroupAssumption, FS_Subset, FS_CardinalityType DEF HandsOf
<1>2. CASE c = hand'[t] /\ c = hand[t]
  <2>1. HandsOf(c)' = HandsOf(c)
    BY <1>2 DEF HandsOf
  <2> QED
    BY <1>1, <1>2, <2>1 DEF One
<1>3. CASE c = hand'[t] /\ c /= hand[t]
  <2>1. HandsOf(c)' = HandsOf(c) \cup {t} /\ t \notin HandsOf(c)
    BY <1>3 DEF HandsOf
  <2>2. Cardinality(HandsOf(c)') = Cardinality(HandsOf(c)) + 1
    BY <1>1, <2>1, FS_AddElement
  <2> QED
    BY <1>1, <1>3, <2>2 DEF One
<1>4. CASE c /= hand'[t] /\ c = hand[t]
  <2>1. HandsOf(c)' = HandsOf(c) \ {t} /\ t \in HandsOf(c)
    BY <1>4 DEF HandsOf
  <2>2. Cardinality(HandsOf(c)') = Cardinality(HandsOf(c)) - 1
    BY <1>1, <2>1, FS_RemoveElement
  <2> QED
    BY <1>1, <1>4, <2>2 DEF One
<1>5. CASE c /= hand'[t] /\ c /= hand[t]
  <2>1. HandsOf(c)' = HandsOf(c)
    BY <1>5 DEF HandsOf
  <2> QED
    BY <1>1, <1>5, <2>1 DEF One
<1> QED
  BY <1>2, <1>3, <1>4, <1>5

\* All that must still release buffer b.
Refs(b) == Cardinality(OwnersOf(b)) + Cardinality(RecordsOf(b))
             + Cardinality(HandsOf(b))

\* The three are finite, and the counter is zero when they are empty.
LEMMA RefsCounted ==
    ASSUME BufferTypes, GroupTypes, CallTypes, NEW b \in Buffers
    PROVE  /\ Cardinality(OwnersOf(b)) \in Nat
           /\ Cardinality(RecordsOf(b)) \in Nat
           /\ Cardinality(HandsOf(b)) \in Nat
           /\ Refs(b) \in Nat
           /\ Refs(b) = 0 <=> /\ OwnersOf(b) = {} /\ RecordsOf(b) = {}
                              /\ HandsOf(b) = {}
<1>1. IsFiniteSet(OwnersOf(b)) /\ IsFiniteSet(HandsOf(b))
  BY BufferGroupAssumption, FS_Subset DEF BufferTypes, OwnersOf, HandsOf
<1>2. RecordsOf(b) = PlacesOf(records, b) /\ records \in Seq(Buffers)
  BY DEF RecordsOf, PlacesOf, GroupTypes
<1>3. IsFiniteSet(RecordsOf(b))
  BY <1>2, PlacesFinite
<1>4. /\ Cardinality(OwnersOf(b)) \in Nat
      /\ Cardinality(RecordsOf(b)) \in Nat
      /\ Cardinality(HandsOf(b)) \in Nat
  BY <1>1, <1>3, FS_CardinalityType
<1>5. /\ Cardinality(OwnersOf(b)) = 0 <=> OwnersOf(b) = {}
      /\ Cardinality(RecordsOf(b)) = 0 <=> RecordsOf(b) = {}
      /\ Cardinality(HandsOf(b)) = 0 <=> HandsOf(b) = {}
  BY <1>1, <1>3, FS_EmptySet
<1>6. /\ Refs(b) \in Nat
      /\ Refs(b) = 0 <=> /\ Cardinality(OwnersOf(b)) = 0
                         /\ Cardinality(RecordsOf(b)) = 0
                         /\ Cardinality(HandsOf(b)) = 0
  BY <1>4 DEF Refs
<1> QED
  BY <1>4, <1>5, <1>6

\* retain_refcounted by somebody who has a reference already.
LEMMA RetainExact ==
    ASSUME BufferTypes, BufferRefsExact, NEW b \in Buffers, Retain(b, 1),
           Refs(b) > 0, \A c \in Buffers : Refs(c) \in Nat,
           \A c \in Buffers : Refs(c)' = Refs(c) + One(c = b)
    PROVE  BufferRefsExact'
<1>1. /\ bufRef' = [bufRef EXCEPT ![b] = bufRef[b] + 1] /\ bufLife' = bufLife
      /\ bufRef \in [Buffers -> Int]
  BY DEF Retain, BufferTypes
<1>2. \A c \in Buffers : /\ bufRef[c] = Refs(c)
                         /\ bufLife[c] = "live" <=> bufRef[c] > 0
  BY DEF BufferRefsExact, Refs
<1>3. \A c \in Buffers : /\ bufRef'[c] = Refs(c)'
                         /\ bufLife'[c] = "live" <=> bufRef'[c] > 0
  BY <1>1, <1>2 DEF One
<1> QED
  BY <1>3 DEF BufferRefsExact, Refs

\* xrp_release_buffer by somebody who has a reference.
LEMMA DropExact ==
    ASSUME BufferTypes, BufferRefsExact, NEW b \in Buffers, Drop(b),
           Refs(b) > 0, \A c \in Buffers : Refs(c) \in Nat,
           \A c \in Buffers : Refs(c)' = Refs(c) - One(c = b)
    PROVE  BufferRefsExact'
<1>1. /\ bufRef' = [bufRef EXCEPT ![b] = bufRef[b] - 1]
      /\ bufLife' = IF bufRef[b] = 1 THEN [bufLife EXCEPT ![b] = "freed"]
                                     ELSE bufLife
      /\ bufRef \in [Buffers -> Int]
      /\ bufLife \in [Buffers -> {"none", "live", "freed"}]
  BY DEF Drop, BufferTypes
<1>2. \A c \in Buffers : /\ bufRef[c] = Refs(c)
                         /\ bufLife[c] = "live" <=> bufRef[c] > 0
  BY DEF BufferRefsExact, Refs
<1>3. ASSUME NEW c \in Buffers
      PROVE  /\ bufRef'[c] = Refs(c)'
             /\ bufLife'[c] = "live" <=> bufRef'[c] > 0
  <2>1. CASE c = b
    <3>1. bufRef'[c] = bufRef[c] - 1 /\ Refs(c)' = Refs(c) - 1
      BY <1>1, <2>1 DEF One
    <3>2. CASE bufRef[b] = 1
      BY <1>1, <1>2, <2>1, <3>1, <3>2
    <3>3. CASE bufRef[b] /= 1
      BY <1>1, <1>2, <2>1, <3>1, <3>3
    <3> QED
      BY <3>2, <3>3
  <2>2. CASE c /= b
    <3>1. bufRef'[c] = bufRef[c] /\ bufLife'[c] = bufLife[c]
      BY <1>1, <2>2
    <3>2. Refs(c)' = Refs(c)
      BY <2>2 DEF One
    <3> QED
      BY <1>2, <3>1, <3>2
  <2> QED
    BY <2>1, <2>2
<1> QED
  BY <1>3 DEF BufferRefsExact, Refs

-----------------------------------------------------------------------------
(***************************************************************************)
(* Types, the group and the command.                                       *)
(***************************************************************************)

\* Whatever a thread passes to the library is a live buffer.
LEMMA HasRefs ==
    ASSUME BufferTypes, GroupTypes, CallTypes, NEW t \in Threads,
           NEW b \in Buffers, Has(t, b)
    PROVE  Refs(b) > 0
<1>1. OwnersOf(b) /= {}
  BY DEF Has, OwnersOf
<1> QED
  BY <1>1, RefsCounted

\* And so is what the group or a hand holds.
LEMMA EntryRefs ==
    ASSUME BufferTypes, GroupTypes, CallTypes, NEW i \in 1 .. Len(records)
    PROVE  records[i] \in Buffers /\ Refs(records[i]) > 0
<1>1. records[i] \in Buffers /\ i \in DOMAIN records
  BY LenProperties, ElementOfSeq DEF GroupTypes
<1>2. RecordsOf(records[i]) /= {}
  BY <1>1 DEF RecordsOf
<1> QED
  BY <1>1, <1>2, RefsCounted

\* A buffer in a hand is released by the thread that has it.
\* A buffer in a hand is released by the thread that has it.
\* A buffer in a hand is released by the thread that has it.
\* A buffer in a hand is released by the thread that has it.
\* A buffer in a hand is released by the thread that has it.
\* A buffer in a hand is released by the thread that has it.
LEMMA HandRefs ==
    ASSUME BufferTypes, GroupTypes, CallTypes, NEW t \in Threads, hand[t] /= None
    PROVE  hand[t] \in Buffers /\ Refs(hand[t]) > 0
<1>1. hand[t] \in Buffers
  BY DEF CallTypes
<1>2. HandsOf(hand[t]) /= {}
  BY DEF HandsOf
<1> QED
  BY <1>1, <1>2, RefsCounted

\* The application's references stay finitely many.
LEMMA OwnTypes ==
    ASSUME BufferTypes, NEW t \in Threads, NEW b \in Buffers,
           NEW why \in Reasons, Own(t, b, why)
    PROVE  /\ owners' \in SUBSET (Threads \X Buffers \X Reasons)
           /\ IsFiniteSet(owners')
<1>1. /\ owners \in SUBSET (Threads \X Buffers \X Reasons)
      /\ owners' = owners \cup {<<t, b, why>>} /\ IsFiniteSet(owners)
  BY DEF Own, BufferTypes
<1>2. owners' \in SUBSET (Threads \X Buffers \X Reasons)
  BY <1>1
<1>3. IsFiniteSet(owners')
  BY <1>1, FS_AddElement
<1> QED
  BY <1>2, <1>3

\* Buffers and references to them.
LEMMA BufferTypesStep ==
    ASSUME GroupInv, [GroupNext]_vars
    PROVE  BufferTypes'
<1> USE DEF BufferTypes
<1>0. BufferTypes /\ GroupTypes /\ CallTypes /\ SetCalls
  BY DEF GroupInv
<1> USE <1>0
<1>1. ASSUME NEW t \in Threads, NEW b \in Buffers, NEW type \in {"HOST", "DEVICE"},
             CreateBuffer(t, b, type)
      PROVE  BufferTypes'
  <2>1. owners' \in SUBSET (Threads \X Buffers \X Reasons) /\ IsFiniteSet(owners')
    BY <1>1, OwnTypes DEF CreateBuffer, Reasons
  <2> QED
    BY <1>1, <2>1 DEF CreateBuffer
<1>2. ASSUME NEW t \in Threads, NEW u \in Threads, NEW b \in Buffers,
             RetainBuffer(t, u, b)
      PROVE  BufferTypes'
  <2>1. owners' \in SUBSET (Threads \X Buffers \X Reasons) /\ IsFiniteSet(owners')
    BY <1>2, OwnTypes DEF RetainBuffer, Reasons
  <2> QED
    BY <1>2, <2>1 DEF RetainBuffer, Retain
<1>3. ASSUME NEW t \in Threads, NEW b \in Buffers, MapBuffer(t, b)
      PROVE  BufferTypes'
  <2>1. owners' \in SUBSET (Threads \X Buffers \X Reasons) /\ IsFiniteSet(owners')
    BY <1>3, OwnTypes DEF MapBuffer, Reasons
  <2> QED
    BY <1>3, <2>1 DEF MapBuffer, Retain
<1>4. ASSUME NEW t \in Threads, NEW b \in Buffers, NEW why \in Reasons,
             ReleaseBuffer(t, b, why)
      PROVE  BufferTypes'
  <2>1. owners' \in SUBSET (Threads \X Buffers \X Reasons) /\ IsFiniteSet(owners')
    BY <1>4, FS_RemoveElement DEF ReleaseBuffer
  <2> QED
    BY <1>4, <2>1 DEF ReleaseBuffer, Drop
<1>5. ASSUME NEW t \in Threads, ReleaseDevice(t) PROVE BufferTypes'
  BY <1>5 DEF ReleaseDevice, bufVars
<1>6. ASSUME NEW t \in Threads, CreateGroup(t) PROVE BufferTypes'
  BY <1>6 DEF CreateGroup, bufVars
<1>7. ASSUME NEW t \in Threads, NEW u \in Threads, RetainGroup(t, u)
      PROVE  BufferTypes'
  BY <1>7 DEF RetainGroup, bufVars
<1>8. ASSUME NEW t \in Threads, ReleaseGroup(t) PROVE BufferTypes'
  BY <1>8 DEF ReleaseGroup, bufVars
<1>9. ASSUME NEW t \in Threads, NEW b \in Buffers, AddBuffer(t, b)
      PROVE  BufferTypes'
  BY <1>9 DEF AddBuffer, Retain
<1>10. ASSUME NEW t \in Threads, NEW i \in Indices, NEW b \in Buffers,
             SetBegin(t, i, b)
      PROVE  BufferTypes'
  BY <1>10 DEF SetBegin, Retain, SetRefsTaken
<1>11. ASSUME NEW t \in Threads, NEW i \in Indices, GetBuffer(t, i)
      PROVE  BufferTypes'
  <2>1. records[i] \in Buffers
    BY <1>11, EntryRefs DEF GetBuffer, Indices, GroupTypes
  <2>2. owners' \in SUBSET (Threads \X Buffers \X Reasons) /\ IsFiniteSet(owners')
    BY <1>11, <2>1, OwnTypes DEF GetBuffer, Reasons
  <2> QED
    BY <1>11, <2>1, <2>2 DEF GetBuffer, Retain, GetRefsTaken
<1>12. ASSUME NEW t \in Threads, Enqueue(t) PROVE BufferTypes'
  BY <1>12 DEF Enqueue, bufVars
<1>13. ASSUME NEW t \in Threads, SetSwap(t) PROVE BufferTypes'
  BY <1>13 DEF SetSwap, bufVars
<1>14. ASSUME NEW t \in Threads, SetRelease(t) PROVE BufferTypes'
  BY <1>14, HandRefs DEF SetRelease, Drop, SetCalls, InSet
<1>15. ASSUME NEW a \in Actors, Drain(a) PROVE BufferTypes'
  BY <1>15 DEF Drain, Drop, GroupTypes
<1>16. ASSUME NEW a \in Actors, FreeGroup(a) PROVE BufferTypes'
  BY <1>16 DEF FreeGroup, bufVars
<1>17. CASE Snapshot
  BY <1>17 DEF Snapshot, bufVars
<1>18. CASE Finish
  BY <1>18 DEF Finish, bufVars
<1>19. CASE UNCHANGED vars
  BY <1>19 DEF vars, bufVars
<1> QED
  BY <1>1, <1>2, <1>3, <1>4, <1>5, <1>6, <1>7, <1>8, <1>9,
     <1>10, <1>11, <1>12, <1>13, <1>14, <1>15, <1>16, <1>17, <1>18, <1>19
     DEF GroupNext, Call, SetStep, InCall, RunStep

\* The group, the device and the command.
LEMMA GroupTypesStep ==
    ASSUME GroupInv, [GroupNext]_vars
    PROVE  GroupTypes'
<1> USE DEF GroupTypes
<1>0. BufferTypes /\ GroupTypes /\ CallTypes /\ SetCalls
  BY DEF GroupInv
<1> USE <1>0
<1>1. ASSUME NEW t \in Threads, NEW b \in Buffers, NEW type \in {"HOST", "DEVICE"},
             CreateBuffer(t, b, type)
      PROVE  GroupTypes'
  BY <1>1 DEF CreateBuffer, grpVars, devVars, cmdVars
<1>2. ASSUME NEW t \in Threads, NEW u \in Threads, NEW b \in Buffers,
             RetainBuffer(t, u, b)
      PROVE  GroupTypes'
  BY <1>2 DEF RetainBuffer, grpVars, devVars, cmdVars
<1>3. ASSUME NEW t \in Threads, NEW b \in Buffers, MapBuffer(t, b)
      PROVE  GroupTypes'
  BY <1>3 DEF MapBuffer, grpVars, devVars, cmdVars
<1>4. ASSUME NEW t \in Threads, NEW b \in Buffers, NEW why \in Reasons,
             ReleaseBuffer(t, b, why)
      PROVE  GroupTypes'
  BY <1>4 DEF ReleaseBuffer, Drop, grpVars, cmdVars
<1>5. ASSUME NEW t \in Threads, ReleaseDevice(t) PROVE GroupTypes'
  <2>1. devRef' \in Int
    BY <1>5 DEF ReleaseDevice
  <2>2. holdsD' \in BOOLEAN
    BY <1>5 DEF ReleaseDevice
  <2> QED
    BY <1>5, <2>1, <2>2 DEF ReleaseDevice, grpVars, cmdVars
<1>6. ASSUME NEW t \in Threads, CreateGroup(t) PROVE GroupTypes'
  BY <1>6 DEF CreateGroup, grpVars, devVars, cmdVars
<1>7. ASSUME NEW t \in Threads, NEW u \in Threads, RetainGroup(t, u)
      PROVE  GroupTypes'
  BY <1>7 DEF RetainGroup, grpVars, devVars, cmdVars
<1>8. ASSUME NEW t \in Threads, ReleaseGroup(t) PROVE GroupTypes'
  BY <1>8 DEF ReleaseGroup, DropGroup, devVars, cmdVars
<1>9. ASSUME NEW t \in Threads, NEW b \in Buffers, AddBuffer(t, b)
      PROVE  GroupTypes'
  <2>1. records' \in Seq(Buffers) /\ Len(records') = Len(records) + 1
    BY <1>9, AppendProperties DEF AddBuffer
  <2>2. Len(records) < MaxRecords /\ Len(records) \in Nat /\ MaxRecords \in Nat
    BY <1>9, LenProperties, BufferGroupAssumption DEF AddBuffer
  <2> QED
    BY <1>9, <2>1, <2>2 DEF AddBuffer, grpVars, devVars, cmdVars
<1>10. ASSUME NEW t \in Threads, NEW i \in Indices, NEW b \in Buffers,
             SetBegin(t, i, b)
      PROVE  GroupTypes'
  BY <1>10 DEF SetBegin, grpVars, devVars, cmdVars
<1>11. ASSUME NEW t \in Threads, NEW i \in Indices, GetBuffer(t, i)
      PROVE  GroupTypes'
  BY <1>11 DEF GetBuffer, grpVars, devVars, cmdVars
<1>12. ASSUME NEW t \in Threads, Enqueue(t) PROVE GroupTypes'
  BY <1>12 DEF Enqueue, CommandRefsTaken, devVars
<1>13. ASSUME NEW t \in Threads, SetSwap(t) PROVE GroupTypes'
  <2>1. index[t] \in Indices /\ hand[t] \in Buffers
    BY <1>13, HandRefs DEF SetSwap, SetCalls, InSet
  <2>2. CASE index[t] <= Len(records)
    <3>1. index[t] \in 1 .. Len(records) /\ records[index[t]] \in Buffers
      BY <2>1, <2>2, EntryRefs, LenProperties DEF Indices
    <3>2. records' \in Seq(Buffers) /\ Len(records') = Len(records)
      BY <1>13, <2>1, <2>2, <3>1, ExceptSeq DEF SetSwap
    <3> QED
      BY <1>13, <2>2, <3>1, <3>2 DEF SetSwap, grpVars, devVars
  <2>3. CASE ~(index[t] <= Len(records))
    BY <1>13, <2>3 DEF SetSwap, grpVars, devVars
  <2> QED
    BY <2>2, <2>3
<1>14. ASSUME NEW t \in Threads, SetRelease(t) PROVE GroupTypes'
  BY <1>14 DEF SetRelease, Drop, grpVars, cmdVars
<1>15. ASSUME NEW a \in Actors, Drain(a) PROVE GroupTypes'
  <2>1. /\ Head(records) \in Buffers /\ records' \in Seq(Buffers)
        /\ Len(records') = Len(records) - 1 /\ Len(records) \in Nat
    BY <1>15, HeadTailProperties, LenProperties DEF Drain
  <2>2. MaxRecords \in Nat
    BY BufferGroupAssumption
  <2> QED
    BY <1>15, <2>1, <2>2 DEF Drain, Drop, grpVars, cmdVars
<1>16. ASSUME NEW a \in Actors, FreeGroup(a) PROVE GroupTypes'
  BY <1>16 DEF FreeGroup, grpVars, devVars, cmdVars
<1>17. CASE Snapshot
  <2>1. snapshot' \in SUBSET Buffers
    BY <1>17, LenProperties, ElementOfSeq DEF Snapshot
  <2> QED
    BY <1>17, <2>1 DEF Snapshot, grpVars, devVars
<1>18. CASE Finish
  BY <1>18 DEF Finish, DropGroup, devVars
<1>19. CASE UNCHANGED vars
  BY <1>19 DEF vars, grpVars, devVars, cmdVars
<1> QED
  BY <1>1, <1>2, <1>3, <1>4, <1>5, <1>6, <1>7, <1>8, <1>9,
     <1>10, <1>11, <1>12, <1>13, <1>14, <1>15, <1>16, <1>17, <1>18, <1>19
     DEF GroupNext, Call, SetStep, InCall, RunStep

\* Where the threads and the worker are.
LEMMA CallTypesStep ==
    ASSUME GroupInv, [GroupNext]_vars
    PROVE  CallTypes'
<1> USE DEF CallTypes
<1>0. BufferTypes /\ GroupTypes /\ CallTypes /\ SetCalls
  BY DEF GroupInv
<1> USE <1>0, BufferGroupAssumption DEF Actors
<1>1. ASSUME NEW t \in Threads, NEW b \in Buffers, NEW type \in {"HOST", "DEVICE"},
             CreateBuffer(t, b, type)
      PROVE  CallTypes'
  BY <1>1 DEF CreateBuffer, ctlVars
<1>2. ASSUME NEW t \in Threads, NEW u \in Threads, NEW b \in Buffers,
             RetainBuffer(t, u, b)
      PROVE  CallTypes'
  BY <1>2 DEF RetainBuffer, ctlVars
<1>3. ASSUME NEW t \in Threads, NEW b \in Buffers, MapBuffer(t, b)
      PROVE  CallTypes'
  BY <1>3 DEF MapBuffer, ctlVars
<1>4. ASSUME NEW t \in Threads, NEW b \in Buffers, NEW why \in Reasons,
             ReleaseBuffer(t, b, why)
      PROVE  CallTypes'
  BY <1>4 DEF ReleaseBuffer, ctlVars
<1>5. ASSUME NEW t \in Threads, ReleaseDevice(t) PROVE CallTypes'
  BY <1>5 DEF ReleaseDevice, ctlVars
<1>6. ASSUME NEW t \in Threads, CreateGroup(t) PROVE CallTypes'
  BY <1>6 DEF CreateGroup, ctlVars
<1>7. ASSUME NEW t \in Threads, NEW u \in Threads, RetainGroup(t, u)
      PROVE  CallTypes'
  BY <1>7 DEF RetainGroup, ctlVars
<1>8. ASSUME NEW t \in Threads, ReleaseGroup(t) PROVE CallTypes'
  BY <1>8 DEF ReleaseGroup, DropGroup
<1>9. ASSUME NEW t \in Threads, NEW b \in Buffers, AddBuffer(t, b)
      PROVE  CallTypes'
  BY <1>9 DEF AddBuffer, ctlVars
<1>10. ASSUME NEW t \in Threads, NEW i \in Indices, NEW b \in Buffers,
             SetBegin(t, i, b)
      PROVE  CallTypes'
  BY <1>10 DEF SetBegin
<1>11. ASSUME NEW t \in Threads, NEW i \in Indices, GetBuffer(t, i)
      PROVE  CallTypes'
  BY <1>11 DEF GetBuffer, ctlVars
<1>12. ASSUME NEW t \in Threads, Enqueue(t) PROVE CallTypes'
  BY <1>12 DEF Enqueue, ctlVars
<1>13. ASSUME NEW t \in Threads, SetSwap(t) PROVE CallTypes'
  <2>1. index[t] \in Indices /\ Len(records) \in Nat /\ MaxRecords \in Nat
    BY <1>13, LenProperties, BufferGroupAssumption
       DEF SetSwap, SetCalls, GroupTypes
  <2>2. CASE index[t] <= Len(records)
    <3>1. records[index[t]] \in Buffers
      BY <2>1, <2>2, EntryRefs DEF Indices
    <3> QED
      BY <1>13, <2>2, <3>1 DEF SetSwap
  <2>3. CASE ~(index[t] <= Len(records))
    BY <1>13, <2>3 DEF SetSwap
  <2> QED
    BY <2>2, <2>3
<1>14. ASSUME NEW t \in Threads, SetRelease(t) PROVE CallTypes'
  BY <1>14 DEF SetRelease, ctlVars
<1>15. ASSUME NEW a \in Actors, Drain(a) PROVE CallTypes'
  BY <1>15 DEF Drain, ctlVars
<1>16. ASSUME NEW a \in Actors, FreeGroup(a) PROVE CallTypes'
  BY <1>16 DEF FreeGroup, ctlVars
<1>17. CASE Snapshot
  BY <1>17 DEF Snapshot, ctlVars
<1>18. CASE Finish
  BY <1>18 DEF Finish, DropGroup
<1>19. CASE UNCHANGED vars
  BY <1>19 DEF vars, ctlVars
<1> QED
  BY <1>1, <1>2, <1>3, <1>4, <1>5, <1>6, <1>7, <1>8, <1>9,
     <1>10, <1>11, <1>12, <1>13, <1>14, <1>15, <1>16, <1>17, <1>18, <1>19
     DEF GroupNext, Call, SetStep, InCall, RunStep

\* Who is in xrp_set_buffer_in_group keeps the group and a buffer.
LEMMA SetCallsStep ==
    ASSUME GroupInv, [GroupNext]_vars
    PROVE  SetCalls'
<1> USE BufferGroupAssumption DEF SetCalls, InSet, Actors
<1>0. BufferTypes /\ GroupTypes /\ CallTypes /\ SetCalls
  BY DEF GroupInv
<1> USE <1>0 DEF CallTypes
<1>1. ASSUME NEW t \in Threads, NEW b \in Buffers, NEW type \in {"HOST", "DEVICE"},
             CreateBuffer(t, b, type)
      PROVE  SetCalls'
  BY <1>1 DEF CreateBuffer, ctlVars, grpVars
<1>2. ASSUME NEW t \in Threads, NEW u \in Threads, NEW b \in Buffers,
             RetainBuffer(t, u, b)
      PROVE  SetCalls'
  BY <1>2 DEF RetainBuffer, ctlVars, grpVars
<1>3. ASSUME NEW t \in Threads, NEW b \in Buffers, MapBuffer(t, b)
      PROVE  SetCalls'
  BY <1>3 DEF MapBuffer, ctlVars, grpVars
<1>4. ASSUME NEW t \in Threads, NEW b \in Buffers, NEW why \in Reasons,
             ReleaseBuffer(t, b, why)
      PROVE  SetCalls'
  BY <1>4 DEF ReleaseBuffer, ctlVars, grpVars
<1>5. ASSUME NEW t \in Threads, ReleaseDevice(t) PROVE SetCalls'
  BY <1>5 DEF ReleaseDevice, ctlVars, grpVars
<1>6. ASSUME NEW t \in Threads, CreateGroup(t) PROVE SetCalls'
  <2>1. holdsG = {}
    BY <1>6 DEF CreateGroup, GroupInv, GroupLife, InUse
  <2> QED
    BY <1>6, <2>1 DEF CreateGroup, ctlVars
<1>7. ASSUME NEW t \in Threads, NEW u \in Threads, RetainGroup(t, u)
      PROVE  SetCalls'
  BY <1>7 DEF RetainGroup, ctlVars, grpVars
<1>8. ASSUME NEW t \in Threads, ReleaseGroup(t) PROVE SetCalls'
  BY <1>8 DEF ReleaseGroup, DropGroup
<1>9. ASSUME NEW t \in Threads, NEW b \in Buffers, AddBuffer(t, b)
      PROVE  SetCalls'
  BY <1>9 DEF AddBuffer, ctlVars, grpVars
<1>10. ASSUME NEW t \in Threads, NEW i \in Indices, NEW b \in Buffers,
             SetBegin(t, i, b)
      PROVE  SetCalls'
  BY <1>10 DEF SetBegin, ctlVars, grpVars
<1>11. ASSUME NEW t \in Threads, NEW i \in Indices, GetBuffer(t, i)
      PROVE  SetCalls'
  BY <1>11 DEF GetBuffer, ctlVars, grpVars
<1>12. ASSUME NEW t \in Threads, Enqueue(t) PROVE SetCalls'
  BY <1>12 DEF Enqueue, ctlVars, grpVars
<1>13. ASSUME NEW t \in Threads, SetSwap(t) PROVE SetCalls'
  <2>1. index[t] \in Indices /\ Len(records) \in Nat /\ MaxRecords \in Nat
    BY <1>13, LenProperties DEF SetSwap, GroupTypes
  <2>2. CASE index[t] <= Len(records)
    <3>1. records[index[t]] \in Buffers
      BY <2>1, <2>2, EntryRefs DEF Indices
    <3> QED
      BY <1>13, <2>2, <3>1 DEF SetSwap, grpVars
  <2>3. CASE ~(index[t] <= Len(records))
    BY <1>13, <2>3 DEF SetSwap, grpVars
  <2> QED
    BY <2>2, <2>3
<1>14. ASSUME NEW t \in Threads, SetRelease(t) PROVE SetCalls'
  BY <1>14 DEF SetRelease, ctlVars, grpVars
<1>15. ASSUME NEW a \in Actors, Drain(a) PROVE SetCalls'
  BY <1>15 DEF Drain, ctlVars, grpVars
<1>16. ASSUME NEW a \in Actors, FreeGroup(a) PROVE SetCalls'
  BY <1>16 DEF FreeGroup, ctlVars, grpVars
<1>17. CASE Snapshot
  BY <1>17 DEF Snapshot, ctlVars, grpVars
<1>18. CASE Finish
  BY <1>18 DEF Finish, DropGroup
<1>19. CASE UNCHANGED vars
  BY <1>19 DEF vars, ctlVars, grpVars
<1> QED
  BY <1>1, <1>2, <1>3, <1>4, <1>5, <1>6, <1>7, <1>8, <1>9,
     <1>10, <1>11, <1>12, <1>13, <1>14, <1>15, <1>16, <1>17, <1>18, <1>19
     DEF GroupNext, Call, SetStep, InCall, RunStep

\* The group lives until its last reference is dropped, and one actor drains it.
LEMMA GroupLifeStep ==
    ASSUME GroupInv, GroupRefsExact, [GroupNext]_vars
    PROVE  GroupLife'
<1> USE DEF GroupLife, InUse
<1>0. /\ BufferTypes /\ GroupTypes /\ CallTypes /\ SetCalls /\ GroupLife
      /\ grpRef = Cardinality(holdsG) + (IF cmd = "none" THEN 0 ELSE 1)
  BY DEF GroupInv, GroupRefsExact
<1> USE <1>0, BufferGroupAssumption DEF CallTypes, Actors
<1>1. ASSUME NEW t \in Threads, NEW b \in Buffers, NEW type \in {"HOST", "DEVICE"},
             CreateBuffer(t, b, type)
      PROVE  GroupLife'
  BY <1>1 DEF CreateBuffer, ctlVars, grpVars, cmdVars
<1>2. ASSUME NEW t \in Threads, NEW u \in Threads, NEW b \in Buffers,
             RetainBuffer(t, u, b)
      PROVE  GroupLife'
  BY <1>2 DEF RetainBuffer, ctlVars, grpVars, cmdVars
<1>3. ASSUME NEW t \in Threads, NEW b \in Buffers, MapBuffer(t, b)
      PROVE  GroupLife'
  BY <1>3 DEF MapBuffer, ctlVars, grpVars, cmdVars
<1>4. ASSUME NEW t \in Threads, NEW b \in Buffers, NEW why \in Reasons,
             ReleaseBuffer(t, b, why)
      PROVE  GroupLife'
  BY <1>4 DEF ReleaseBuffer, ctlVars, grpVars, cmdVars
<1>5. ASSUME NEW t \in Threads, ReleaseDevice(t) PROVE GroupLife'
  BY <1>5 DEF ReleaseDevice, ctlVars, grpVars, cmdVars
<1>6. ASSUME NEW t \in Threads, CreateGroup(t) PROVE GroupLife'
  BY <1>6 DEF CreateGroup, ctlVars, grpVars, cmdVars
<1>7. ASSUME NEW t \in Threads, NEW u \in Threads, RetainGroup(t, u)
      PROVE  GroupLife'
  BY <1>7 DEF RetainGroup, ctlVars, grpVars, cmdVars
<1>8. ASSUME NEW t \in Threads, ReleaseGroup(t) PROVE GroupLife'
  <2>1. /\ grpLife = "live" /\ grpLife' = grpLife /\ cmd' = cmd
        /\ \A a \in Actors : pc[a] /= "drain"
    BY <1>8 DEF ReleaseGroup, DropGroup, cmdVars
  <2>2. grpRef = 1 <=> holdsG' = {} /\ cmd = "none"
    <3>1. /\ IsFiniteSet(holdsG) /\ IsFiniteSet(holdsG')
          /\ Cardinality(holdsG') = Cardinality(holdsG) - 1
      BY <1>8, FS_Subset, FS_RemoveElement DEF ReleaseGroup, GroupTypes
    <3> QED
      BY <3>1, FS_EmptySet, FS_CardinalityType
  <2>3. /\ grpRef = 1 => pc' = [pc EXCEPT ![t] = "drain"]
        /\ grpRef /= 1 => pc' = pc
    BY <1>8 DEF ReleaseGroup, DropGroup
  <2> QED
    BY <2>1, <2>2, <2>3
<1>9. ASSUME NEW t \in Threads, NEW b \in Buffers, AddBuffer(t, b)
      PROVE  GroupLife'
  BY <1>9 DEF AddBuffer, ctlVars, grpVars, cmdVars
<1>10. ASSUME NEW t \in Threads, NEW i \in Indices, NEW b \in Buffers,
             SetBegin(t, i, b)
      PROVE  GroupLife'
  BY <1>10 DEF SetBegin, ctlVars, grpVars, cmdVars
<1>11. ASSUME NEW t \in Threads, NEW i \in Indices, GetBuffer(t, i)
      PROVE  GroupLife'
  BY <1>11 DEF GetBuffer, ctlVars, grpVars, cmdVars
<1>12. ASSUME NEW t \in Threads, Enqueue(t) PROVE GroupLife'
  BY <1>12 DEF Enqueue, ctlVars
<1>13. ASSUME NEW t \in Threads, SetSwap(t) PROVE GroupLife'
  <2>1. InUse /\ holdsG' = holdsG /\ cmd' = cmd /\ grpLife' = grpLife
    BY <1>13 DEF SetSwap, SetCalls, InSet, grpVars
  <2>2. \A a \in Actors : pc'[a] /= "drain"
    BY <1>13, <2>1 DEF SetSwap
  <2> QED
    BY <2>1, <2>2
<1>14. ASSUME NEW t \in Threads, SetRelease(t) PROVE GroupLife'
  <2>1. InUse /\ holdsG' = holdsG /\ cmd' = cmd /\ grpLife' = grpLife
    BY <1>14 DEF SetRelease, SetCalls, InSet, grpVars, cmdVars
  <2>2. \A a \in Actors : pc'[a] /= "drain"
    BY <1>14, <2>1 DEF SetRelease
  <2> QED
    BY <2>1, <2>2
<1>15. ASSUME NEW a \in Actors, Drain(a) PROVE GroupLife'
  BY <1>15 DEF Drain, ctlVars, grpVars, cmdVars
<1>16. ASSUME NEW a \in Actors, FreeGroup(a) PROVE GroupLife'
  BY <1>16 DEF FreeGroup, ctlVars, grpVars, cmdVars
<1>17. CASE Snapshot
  BY <1>17 DEF Snapshot, ctlVars, grpVars
<1>18. CASE Finish
  <2>1. /\ grpLife = "live" /\ grpLife' = grpLife /\ cmd' = "none"
        /\ holdsG' = holdsG /\ \A a \in Actors : pc[a] /= "drain"
    BY <1>18 DEF Finish, DropGroup
  <2>2. grpRef = 1 <=> holdsG = {}
    <3>1. IsFiniteSet(holdsG)
      BY FS_Subset DEF GroupTypes
    <3>2. grpRef = Cardinality(holdsG) + 1
      BY <1>18 DEF Finish
    <3> QED
      BY <3>1, <3>2, FS_EmptySet, FS_CardinalityType
  <2>3. /\ grpRef = 1 => pc' = [pc EXCEPT ![Worker] = "drain"]
        /\ grpRef /= 1 => pc' = pc
    BY <1>18 DEF Finish, DropGroup
  <2> QED
    BY <2>1, <2>2, <2>3
<1>19. CASE UNCHANGED vars
  BY <1>19 DEF vars, ctlVars, grpVars, cmdVars
<1> QED
  BY <1>1, <1>2, <1>3, <1>4, <1>5, <1>6, <1>7, <1>8, <1>9,
     <1>10, <1>11, <1>12, <1>13, <1>14, <1>15, <1>16, <1>17, <1>18, <1>19
     DEF GroupNext, Call, SetStep, InCall, RunStep

\* What a command works on stays in the group or counts as exchanged.
LEMMA CommandHasStep ==
    ASSUME GroupInv, [GroupNext]_vars
    PROVE  CommandHas'
<1> USE DEF CommandHas
<1>0. /\ BufferTypes /\ GroupTypes /\ CallTypes /\ SetCalls /\ GroupLife
      /\ CommandHas
  BY DEF GroupInv
<1> USE <1>0
<1>1. ASSUME NEW t \in Threads, NEW b \in Buffers, NEW type \in {"HOST", "DEVICE"},
             CreateBuffer(t, b, type)
      PROVE  CommandHas'
  BY <1>1 DEF CreateBuffer, cmdVars
<1>2. ASSUME NEW t \in Threads, NEW u \in Threads, NEW b \in Buffers,
             RetainBuffer(t, u, b)
      PROVE  CommandHas'
  BY <1>2 DEF RetainBuffer, cmdVars
<1>3. ASSUME NEW t \in Threads, NEW b \in Buffers, MapBuffer(t, b)
      PROVE  CommandHas'
  BY <1>3 DEF MapBuffer, cmdVars
<1>4. ASSUME NEW t \in Threads, NEW b \in Buffers, NEW why \in Reasons,
             ReleaseBuffer(t, b, why)
      PROVE  CommandHas'
  BY <1>4 DEF ReleaseBuffer, cmdVars
<1>5. ASSUME NEW t \in Threads, ReleaseDevice(t) PROVE CommandHas'
  BY <1>5 DEF ReleaseDevice, cmdVars
<1>6. ASSUME NEW t \in Threads, CreateGroup(t) PROVE CommandHas'
  BY <1>6 DEF CreateGroup, cmdVars
<1>7. ASSUME NEW t \in Threads, NEW u \in Threads, RetainGroup(t, u)
      PROVE  CommandHas'
  BY <1>7 DEF RetainGroup, cmdVars
<1>8. ASSUME NEW t \in Threads, ReleaseGroup(t) PROVE CommandHas'
  BY <1>8 DEF ReleaseGroup, cmdVars
<1>9. ASSUME NEW t \in Threads, NEW b \in Buffers, AddBuffer(t, b)
      PROVE  CommandHas'
  <2>1. /\ cmd' = cmd /\ snapshot' = snapshot /\ replaced' = replaced
        /\ \A i \in DOMAIN records :
              i \in DOMAIN records' /\ records'[i] = records[i]
    BY <1>9, AppendProperties, LenProperties
       DEF AddBuffer, GroupTypes, cmdVars
  <2> QED
    BY <2>1 DEF PlacesOf
<1>10. ASSUME NEW t \in Threads, NEW i \in Indices, NEW b \in Buffers,
             SetBegin(t, i, b)
      PROVE  CommandHas'
  BY <1>10 DEF SetBegin, cmdVars
<1>11. ASSUME NEW t \in Threads, NEW i \in Indices, GetBuffer(t, i)
      PROVE  CommandHas'
  BY <1>11 DEF GetBuffer, cmdVars
<1>12. ASSUME NEW t \in Threads, Enqueue(t) PROVE CommandHas'
  BY <1>12 DEF Enqueue
<1>13. ASSUME NEW t \in Threads, SetSwap(t) PROVE CommandHas'
  <2>1. index[t] \in Indices /\ hand[t] \in Buffers /\ Len(records) \in Nat
        /\ MaxRecords \in Nat
    BY <1>13, HandRefs, LenProperties, BufferGroupAssumption
       DEF SetSwap, SetCalls, InSet, GroupTypes
  <2>2. CASE index[t] <= Len(records) /\ cmd = "running"
    <3> DEFINE i == index[t]
    <3>1. i \in 1 .. Len(records) /\ DOMAIN records = 1 .. Len(records)
      BY <2>1, <2>2, LenProperties DEF Indices, GroupTypes
    <3>2. /\ DOMAIN records' = DOMAIN records
          /\ \A j \in DOMAIN records : j /= i => records'[j] = records[j]
          /\ replaced' = replaced \cup {records[i]} /\ snapshot' = snapshot
          /\ cmd' = cmd
      BY <1>13, <2>2, <3>1 DEF SetSwap
    <3>3. ASSUME NEW b \in snapshot' \ replaced'
          PROVE  PlacesOf(records', b) /= {}
      <4>1. b \in snapshot \ replaced /\ b /= records[i]
        BY <3>2, <3>3
      <4>2. PICK j \in DOMAIN records : records[j] = b
        BY <4>1 DEF PlacesOf
      <4>3. j /= i /\ records'[j] = b
        BY <3>2, <4>1, <4>2
      <4> QED
        BY <3>2, <4>2, <4>3 DEF PlacesOf
    <3> QED
      BY <2>2, <3>2, <3>3
  <2>3. CASE cmd /= "running"
    BY <1>13, <2>3 DEF SetSwap
  <2>4. CASE ~(index[t] <= Len(records))
    BY <1>13, <2>4 DEF SetSwap
  <2> QED
    BY <2>2, <2>3, <2>4
<1>14. ASSUME NEW t \in Threads, SetRelease(t) PROVE CommandHas'
  BY <1>14 DEF SetRelease, cmdVars
<1>15. ASSUME NEW a \in Actors, Drain(a) PROVE CommandHas'
  <2>1. snapshot = {} /\ snapshot' = snapshot
    BY <1>15 DEF Drain, GroupLife, InUse, cmdVars
  <2> QED
    BY <2>1
<1>16. ASSUME NEW a \in Actors, FreeGroup(a) PROVE CommandHas'
  BY <1>16 DEF FreeGroup, cmdVars
<1>17. CASE Snapshot
  BY <1>17 DEF Snapshot, PlacesOf
<1>18. CASE Finish
  BY <1>18 DEF Finish
<1>19. CASE UNCHANGED vars
  BY <1>19 DEF vars, cmdVars
<1> QED
  BY <1>1, <1>2, <1>3, <1>4, <1>5, <1>6, <1>7, <1>8, <1>9,
     <1>10, <1>11, <1>12, <1>13, <1>14, <1>15, <1>16, <1>17, <1>18, <1>19
     DEF GroupNext, Call, SetStep, InCall, RunStep

-----------------------------------------------------------------------------
(***************************************************************************)
(* The counters.                                                           *)
(***************************************************************************)

\* A step that leaves the buffers, the list and the hands alone.
LEMMA BufferCountsKept ==
    ASSUME BufferRefsExact, UNCHANGED <<bufVars, records, hand>>
    PROVE  BufferRefsExact'
BY DEF BufferRefsExact, OwnersOf, RecordsOf, HandsOf, bufVars

\* The counter of a buffer stays the number of its references.
LEMMA BufferCountStep ==
    ASSUME GroupInv, BufferRefsExact, [GroupNext]_vars
    PROVE  BufferRefsExact'
<1>0. /\ BufferTypes /\ GroupTypes /\ CallTypes /\ SetCalls
      /\ \A c \in Buffers :
            /\ Cardinality(OwnersOf(c)) \in Nat
            /\ Cardinality(RecordsOf(c)) \in Nat
            /\ Cardinality(HandsOf(c)) \in Nat
            /\ Refs(c) \in Nat
  BY RefsCounted DEF GroupInv
<1> USE <1>0
<1>1. ASSUME NEW t \in Threads, NEW b \in Buffers, NEW type \in {"HOST", "DEVICE"},
             CreateBuffer(t, b, type)
      PROVE  BufferRefsExact'
  <2>1. Refs(b) = 0 /\ bufRef[b] = 0
    BY <1>1 DEF CreateBuffer, BufferRefsExact, Refs
  <2>2. ASSUME NEW c \in Buffers PROVE Refs(c)' = Refs(c) + One(c = b)
    <3>1. Cardinality(OwnersOf(c)') = Cardinality(OwnersOf(c)) + One(c = b)
      BY <1>1, OwnAdds DEF CreateBuffer, Reasons
    <3>2. RecordsOf(c)' = RecordsOf(c) /\ HandsOf(c)' = HandsOf(c)
      BY <1>1 DEF CreateBuffer, RecordsOf, HandsOf, ctlVars
    <3> QED
      BY <3>1, <3>2 DEF Refs, One
  <2>3. ASSUME NEW c \in Buffers
        PROVE  bufRef'[c] = Refs(c)' /\ (bufLife'[c] = "live" <=> bufRef'[c] > 0)
    <3>1. CASE c = b
      BY <1>1, <2>1, <2>2, <3>1 DEF CreateBuffer, BufferTypes, One
    <3>2. CASE c /= b
      <4>1. bufRef'[c] = bufRef[c] /\ bufLife'[c] = bufLife[c]
        BY <1>1, <3>2 DEF CreateBuffer, BufferTypes
      <4>2. Refs(c)' = Refs(c)
        BY <2>2, <3>2 DEF One
      <4> QED
        BY <4>1, <4>2 DEF BufferRefsExact, Refs
    <3> QED
      BY <3>1, <3>2
  <2> QED
    BY <2>3 DEF BufferRefsExact, Refs
<1>2. ASSUME NEW t \in Threads, NEW u \in Threads, NEW b \in Buffers,
             RetainBuffer(t, u, b)
      PROVE  BufferRefsExact'
  <2>1. Refs(b) > 0
    BY <1>2, HasRefs DEF RetainBuffer
  <2>2. ASSUME NEW c \in Buffers PROVE Refs(c)' = Refs(c) + One(c = b)
    <3>1. Cardinality(OwnersOf(c)') = Cardinality(OwnersOf(c)) + One(c = b)
      BY <1>2, <2>1, OwnAdds DEF RetainBuffer, Reasons
    <3>2. RecordsOf(c)' = RecordsOf(c) /\ HandsOf(c)' = HandsOf(c)
      BY <1>2 DEF RetainBuffer, RecordsOf, HandsOf, ctlVars
    <3> QED
      BY <3>1, <3>2 DEF Refs, One
  <2>3. Retain(b, 1)
    BY <1>2 DEF RetainBuffer
  <2> QED
    BY <2>1, <2>2, <2>3, RetainExact
<1>3. ASSUME NEW t \in Threads, NEW b \in Buffers, MapBuffer(t, b)
      PROVE  BufferRefsExact'
  <2>1. Refs(b) > 0
    BY <1>3, HasRefs DEF MapBuffer
  <2>2. ASSUME NEW c \in Buffers PROVE Refs(c)' = Refs(c) + One(c = b)
    <3>1. Cardinality(OwnersOf(c)') = Cardinality(OwnersOf(c)) + One(c = b)
      BY <1>3, <2>1, OwnAdds DEF MapBuffer, Reasons
    <3>2. RecordsOf(c)' = RecordsOf(c) /\ HandsOf(c)' = HandsOf(c)
      BY <1>3 DEF MapBuffer, RecordsOf, HandsOf, ctlVars
    <3> QED
      BY <3>1, <3>2 DEF Refs, One
  <2>3. Retain(b, 1)
    BY <1>3 DEF MapBuffer
  <2> QED
    BY <2>1, <2>2, <2>3, RetainExact
<1>4. ASSUME NEW t \in Threads, NEW b \in Buffers, NEW why \in Reasons,
             ReleaseBuffer(t, b, why)
      PROVE  BufferRefsExact'
  <2>1. Refs(b) > 0
    <3>1. OwnersOf(b) /= {}
      BY <1>4 DEF ReleaseBuffer, OwnersOf
    <3> QED
      BY <3>1, RefsCounted
  <2>2. ASSUME NEW c \in Buffers PROVE Refs(c)' = Refs(c) - One(c = b)
    <3>1. Cardinality(OwnersOf(c)') = Cardinality(OwnersOf(c)) - One(c = b)
      BY <1>4, GiveBack DEF ReleaseBuffer
    <3>2. RecordsOf(c)' = RecordsOf(c) /\ HandsOf(c)' = HandsOf(c)
      BY <1>4 DEF ReleaseBuffer, RecordsOf, HandsOf, ctlVars
    <3> QED
      BY <3>1, <3>2 DEF Refs, One
  <2>3. Drop(b)
    BY <1>4 DEF ReleaseBuffer
  <2> QED
    BY <2>1, <2>2, <2>3, DropExact
<1>5. ASSUME NEW t \in Threads, ReleaseDevice(t) PROVE BufferRefsExact'
  BY <1>5, BufferCountsKept DEF ReleaseDevice, ctlVars
<1>6. ASSUME NEW t \in Threads, CreateGroup(t) PROVE BufferRefsExact'
  BY <1>6, BufferCountsKept DEF CreateGroup, ctlVars
<1>7. ASSUME NEW t \in Threads, NEW u \in Threads, RetainGroup(t, u)
      PROVE  BufferRefsExact'
  BY <1>7, BufferCountsKept DEF RetainGroup, ctlVars
<1>8. ASSUME NEW t \in Threads, ReleaseGroup(t) PROVE BufferRefsExact'
  BY <1>8, BufferCountsKept DEF ReleaseGroup, DropGroup, ctlVars
<1>9. ASSUME NEW t \in Threads, NEW b \in Buffers, AddBuffer(t, b)
      PROVE  BufferRefsExact'
  <2>1. Refs(b) > 0
    BY <1>9, HasRefs DEF AddBuffer
  <2>2. ASSUME NEW c \in Buffers PROVE Refs(c)' = Refs(c) + One(c = b)
    <3>1. Cardinality(RecordsOf(c)') = Cardinality(RecordsOf(c)) + One(c = b)
      BY <1>9, <2>1, PlacesAppend
         DEF AddBuffer, GroupTypes, RecordsOf, PlacesOf
    <3>2. OwnersOf(c)' = OwnersOf(c) /\ HandsOf(c)' = HandsOf(c)
      BY <1>9 DEF AddBuffer, OwnersOf, HandsOf, ctlVars
    <3> QED
      BY <3>1, <3>2 DEF Refs, One
  <2>3. Retain(b, 1)
    BY <1>9 DEF AddBuffer
  <2> QED
    BY <2>1, <2>2, <2>3, RetainExact
<1>10. ASSUME NEW t \in Threads, NEW i \in Indices, NEW b \in Buffers,
             SetBegin(t, i, b)
      PROVE  BufferRefsExact'
  <2>1. Refs(b) > 0 /\ hand[t] = None /\ b /= None
    BY <1>10, HasRefs, BufferGroupAssumption DEF SetBegin, SetCalls, InSet
  <2>2. ASSUME NEW c \in Buffers PROVE Refs(c)' = Refs(c) + One(c = b)
    <3>1. Cardinality(HandsOf(c)') = Cardinality(HandsOf(c)) + One(c = b)
                                       - One(c = hand[t])
      <4>1. hand'[t] = b /\ \A u \in Threads \ {t} : hand'[u] = hand[u]
        BY <1>10 DEF SetBegin, CallTypes
      <4> QED
        BY <4>1, HandChanges
    <3>2. c /= hand[t]
      BY <2>1, BufferGroupAssumption
    <3>3. OwnersOf(c)' = OwnersOf(c) /\ RecordsOf(c)' = RecordsOf(c)
      BY <1>10 DEF SetBegin, OwnersOf, RecordsOf
    <3> QED
      BY <3>1, <3>2, <3>3 DEF Refs, One
  <2>3. Retain(b, 1)
    BY <1>10 DEF SetBegin, SetRefsTaken
  <2> QED
    BY <2>1, <2>2, <2>3, RetainExact
<1>11. ASSUME NEW t \in Threads, NEW i \in Indices, GetBuffer(t, i)
      PROVE  BufferRefsExact'
  <2>1. records[i] \in Buffers /\ Refs(records[i]) > 0
    BY <1>11, EntryRefs, LenProperties DEF GetBuffer, Indices, GroupTypes
  <2>2. ASSUME NEW c \in Buffers PROVE Refs(c)' = Refs(c) + One(c = records[i])
    <3>1. Cardinality(OwnersOf(c)') = Cardinality(OwnersOf(c)) + One(c = records[i])
      BY <1>11, <2>1, OwnAdds DEF GetBuffer, Reasons
    <3>2. RecordsOf(c)' = RecordsOf(c) /\ HandsOf(c)' = HandsOf(c)
      BY <1>11 DEF GetBuffer, RecordsOf, HandsOf, ctlVars
    <3> QED
      BY <3>1, <3>2 DEF Refs, One
  <2>3. Retain(records[i], 1)
    BY <1>11 DEF GetBuffer, GetRefsTaken
  <2> QED
    BY <2>1, <2>2, <2>3, RetainExact
<1>12. ASSUME NEW t \in Threads, Enqueue(t) PROVE BufferRefsExact'
  BY <1>12, BufferCountsKept DEF Enqueue, ctlVars
<1>13. ASSUME NEW t \in Threads, SetSwap(t) PROVE BufferRefsExact'
  <2>1. /\ index[t] \in Indices /\ hand[t] \in Buffers /\ Len(records) \in Nat
        /\ MaxRecords \in Nat
    BY <1>13, HandRefs, LenProperties, BufferGroupAssumption
       DEF SetSwap, SetCalls, InSet, GroupTypes
  <2>2. CASE index[t] <= Len(records)
    <3> DEFINE i == index[t]
    <3>1. i \in 1 .. Len(records) /\ records[i] \in Buffers
      BY <2>1, <2>2, EntryRefs DEF Indices
    <3>2. /\ records' = [records EXCEPT ![i] = hand[t]]
          /\ hand' = [hand EXCEPT ![t] = records[i]]
          /\ bufRef' = bufRef /\ bufLife' = bufLife /\ owners' = owners
      BY <1>13, <2>2 DEF SetSwap, bufVars
    <3>3. ASSUME NEW c \in Buffers PROVE Refs(c)' = Refs(c)
      <4>1. Cardinality(RecordsOf(c)') = Cardinality(RecordsOf(c))
                                 + One(c = hand[t]) - One(c = records[i])
        BY <2>1, <3>1, <3>2, PlacesReplace DEF RecordsOf, PlacesOf, GroupTypes
      <4>2. Cardinality(HandsOf(c)') = Cardinality(HandsOf(c))
                                 + One(c = records[i]) - One(c = hand[t])
        <5>1. /\ hand'[t] = records[i]
              /\ \A u \in Threads \ {t} : hand'[u] = hand[u]
          BY <3>2 DEF CallTypes
        <5> QED
          BY <5>1, HandChanges
      <4>3. OwnersOf(c)' = OwnersOf(c)
        BY <3>2 DEF OwnersOf
      <4> QED
        BY <4>1, <4>2, <4>3 DEF Refs, One
    <3> QED
      BY <3>2, <3>3 DEF BufferRefsExact, Refs
  <2>3. CASE ~(index[t] <= Len(records))
    BY <1>13, <2>3, BufferCountsKept DEF SetSwap
  <2> QED
    BY <2>2, <2>3
<1>14. ASSUME NEW t \in Threads, SetRelease(t) PROVE BufferRefsExact'
  <2>1. hand[t] \in Buffers /\ Refs(hand[t]) > 0
    BY <1>14, HandRefs DEF SetRelease, SetCalls, InSet
  <2>2. ASSUME NEW c \in Buffers PROVE Refs(c)' = Refs(c) - One(c = hand[t])
    <3>1. Cardinality(HandsOf(c)') = Cardinality(HandsOf(c)) + One(c = None)
                                       - One(c = hand[t])
      <4>1. hand'[t] = None /\ \A u \in Threads \ {t} : hand'[u] = hand[u]
        BY <1>14 DEF SetRelease, CallTypes
      <4> QED
        BY <4>1, HandChanges
    <3>2. c /= None
      BY BufferGroupAssumption
    <3>3. OwnersOf(c)' = OwnersOf(c) /\ RecordsOf(c)' = RecordsOf(c)
      BY <1>14 DEF SetRelease, OwnersOf, RecordsOf
    <3> QED
      BY <3>1, <3>2, <3>3 DEF Refs, One
  <2>3. Drop(hand[t])
    BY <1>14 DEF SetRelease
  <2> QED
    BY <2>1, <2>2, <2>3, DropExact
<1>15. ASSUME NEW a \in Actors, Drain(a) PROVE BufferRefsExact'
  <2>1. Head(records) \in Buffers /\ Refs(Head(records)) > 0
    BY <1>15, EntryRefs, LenProperties, EmptySeq DEF Drain, GroupTypes
  <2>2. ASSUME NEW c \in Buffers PROVE Refs(c)' = Refs(c) - One(c = Head(records))
    <3>1. Cardinality(RecordsOf(c)') = Cardinality(RecordsOf(c))
                                         - One(c = Head(records))
      BY <1>15, PlacesTail DEF Drain, GroupTypes, RecordsOf, PlacesOf
    <3>2. OwnersOf(c)' = OwnersOf(c) /\ HandsOf(c)' = HandsOf(c)
      BY <1>15 DEF Drain, OwnersOf, HandsOf, ctlVars
    <3> QED
      BY <3>1, <3>2 DEF Refs, One
  <2>3. Drop(Head(records))
    BY <1>15 DEF Drain
  <2> QED
    BY <2>1, <2>2, <2>3, DropExact
<1>16. ASSUME NEW a \in Actors, FreeGroup(a) PROVE BufferRefsExact'
  BY <1>16, BufferCountsKept DEF FreeGroup, ctlVars
<1>17. CASE Snapshot
  BY <1>17, BufferCountsKept DEF Snapshot, ctlVars
<1>18. CASE Finish
  BY <1>18, BufferCountsKept DEF Finish, DropGroup, ctlVars
<1>19. CASE UNCHANGED vars
  BY <1>19, BufferCountsKept DEF vars, ctlVars
<1> QED
  BY <1>1, <1>2, <1>3, <1>4, <1>5, <1>6, <1>7, <1>8, <1>9,
     <1>10, <1>11, <1>12, <1>13, <1>14, <1>15, <1>16, <1>17, <1>18, <1>19
     DEF GroupNext, Call, SetStep, InCall, RunStep

GroupCount == grpRef = Cardinality(holdsG) + (IF cmd = "none" THEN 0 ELSE 1)

DeviceBuffers == {b \in Buffers : bufLife[b] = "live" /\ bufType[b] = "DEVICE"}
DeviceCount == devRef = (IF holdsD THEN 1 ELSE 0) + Cardinality(DeviceBuffers)

\* The counter of the group: its holders and the command.
LEMMA GroupCountStep ==
    ASSUME GroupInv, GroupCount, [GroupNext]_vars
    PROVE  GroupCount'
<1> USE DEF GroupCount
<1>0. /\ IsFiniteSet(holdsG) /\ Cardinality(holdsG) \in Nat
      /\ GroupTypes /\ CallTypes /\ GroupLife /\ BufferTypes
  BY BufferGroupAssumption, FS_Subset, FS_CardinalityType
     DEF GroupInv, GroupTypes
<1> USE <1>0
<1>1. ASSUME NEW t \in Threads, NEW b \in Buffers, NEW type \in {"HOST", "DEVICE"},
             CreateBuffer(t, b, type)
      PROVE  GroupCount'
  BY <1>1 DEF CreateBuffer, grpVars, cmdVars
<1>2. ASSUME NEW t \in Threads, NEW u \in Threads, NEW b \in Buffers,
             RetainBuffer(t, u, b)
      PROVE  GroupCount'
  BY <1>2 DEF RetainBuffer, grpVars, cmdVars
<1>3. ASSUME NEW t \in Threads, NEW b \in Buffers, MapBuffer(t, b)
      PROVE  GroupCount'
  BY <1>3 DEF MapBuffer, grpVars, cmdVars
<1>4. ASSUME NEW t \in Threads, NEW b \in Buffers, NEW why \in Reasons,
             ReleaseBuffer(t, b, why)
      PROVE  GroupCount'
  BY <1>4 DEF ReleaseBuffer, grpVars, cmdVars
<1>5. ASSUME NEW t \in Threads, ReleaseDevice(t) PROVE GroupCount'
  BY <1>5 DEF ReleaseDevice, grpVars, cmdVars
<1>6. ASSUME NEW t \in Threads, CreateGroup(t) PROVE GroupCount'
  <2>1. cmd = "none"
    BY <1>6 DEF CreateGroup, GroupLife, InUse
  <2>2. Cardinality({t}) = 1
    BY FS_Singleton
  <2> QED
    BY <1>6, <2>1, <2>2 DEF CreateGroup, cmdVars
<1>7. ASSUME NEW t \in Threads, NEW u \in Threads, RetainGroup(t, u)
      PROVE  GroupCount'
  <2>1. Cardinality(holdsG \cup {u}) = Cardinality(holdsG) + 1
    BY <1>7, FS_AddElement DEF RetainGroup
  <2> QED
    BY <1>7, <2>1 DEF RetainGroup, cmdVars
<1>8. ASSUME NEW t \in Threads, ReleaseGroup(t) PROVE GroupCount'
  <2>1. Cardinality(holdsG \ {t}) = Cardinality(holdsG) - 1
    BY <1>8, FS_RemoveElement DEF ReleaseGroup
  <2> QED
    BY <1>8, <2>1 DEF ReleaseGroup, DropGroup, cmdVars
<1>9. ASSUME NEW t \in Threads, NEW b \in Buffers, AddBuffer(t, b)
      PROVE  GroupCount'
  BY <1>9 DEF AddBuffer, grpVars, cmdVars
<1>10. ASSUME NEW t \in Threads, NEW i \in Indices, NEW b \in Buffers,
             SetBegin(t, i, b)
      PROVE  GroupCount'
  BY <1>10 DEF SetBegin, grpVars, cmdVars
<1>11. ASSUME NEW t \in Threads, NEW i \in Indices, GetBuffer(t, i)
      PROVE  GroupCount'
  BY <1>11 DEF GetBuffer, grpVars, cmdVars
<1>12. ASSUME NEW t \in Threads, Enqueue(t) PROVE GroupCount'
  BY <1>12 DEF Enqueue, CommandRefsTaken
<1>13. ASSUME NEW t \in Threads, SetSwap(t) PROVE GroupCount'
  BY <1>13 DEF SetSwap, grpVars
<1>14. ASSUME NEW t \in Threads, SetRelease(t) PROVE GroupCount'
  BY <1>14 DEF SetRelease, grpVars, cmdVars
<1>15. ASSUME NEW a \in Actors, Drain(a) PROVE GroupCount'
  BY <1>15 DEF Drain, grpVars, cmdVars
<1>16. ASSUME NEW a \in Actors, FreeGroup(a) PROVE GroupCount'
  BY <1>16 DEF FreeGroup, grpVars, cmdVars
<1>17. CASE Snapshot
  BY <1>17 DEF Snapshot, grpVars
<1>18. CASE Finish
  BY <1>18 DEF Finish, DropGroup
<1>19. CASE UNCHANGED vars
  BY <1>19 DEF vars, grpVars, cmdVars
<1> QED
  BY <1>1, <1>2, <1>3, <1>4, <1>5, <1>6, <1>7, <1>8, <1>9,
     <1>10, <1>11, <1>12, <1>13, <1>14, <1>15, <1>16, <1>17, <1>18, <1>19
     DEF GroupNext, Call, SetStep, InCall, RunStep

\* The device buffers are finitely many.
LEMMA DeviceBuffersFinite ==
    /\ IsFiniteSet(DeviceBuffers)
    /\ Cardinality(DeviceBuffers) \in Nat
BY BufferGroupAssumption, FS_Subset, FS_CardinalityType DEF DeviceBuffers

\* The release of a buffer gives the device reference back exactly when it
\* frees device storage.
LEMMA DropDevice ==
    ASSUME BufferTypes, GroupTypes, BufferRefsExact, DeviceCount,
           NEW b \in Buffers, Drop(b), Refs(b) > 0
    PROVE  DeviceCount'
<1>1. bufLife[b] = "live"
  BY DEF BufferRefsExact, Refs
<1>2. /\ bufLife \in [Buffers -> {"none", "live", "freed"}] /\ devRef \in Int
      /\ bufType' = bufType /\ holdsD' = holdsD
  BY DEF BufferTypes, GroupTypes, Drop
<1>3. CASE bufRef[b] = 1 /\ bufType[b] = "DEVICE"
  <2>1. bufLife' = [bufLife EXCEPT ![b] = "freed"] /\ devRef' = devRef - 1
    BY <1>3 DEF Drop, GivesDeviceBack
  <2>2. DeviceBuffers' = DeviceBuffers \ {b} /\ b \in DeviceBuffers
    BY <1>1, <1>2, <1>3, <2>1 DEF DeviceBuffers
  <2>3. Cardinality(DeviceBuffers') = Cardinality(DeviceBuffers) - 1
    BY <2>2, DeviceBuffersFinite, FS_RemoveElement
  <2> QED
    BY <1>2, <2>1, <2>3, DeviceBuffersFinite DEF DeviceCount
<1>4. CASE bufRef[b] /= 1 \/ bufType[b] /= "DEVICE"
  <2>1. /\ bufLife' = bufLife \/ bufLife' = [bufLife EXCEPT ![b] = "freed"]
        /\ bufRef[b] /= 1 => bufLife' = bufLife
        /\ devRef' = devRef
    BY <1>4 DEF Drop, GivesDeviceBack
  <2>2. DeviceBuffers' = DeviceBuffers
    BY <1>2, <1>4, <2>1 DEF DeviceBuffers
  <2> QED
    BY <1>2, <2>1, <2>2 DEF DeviceCount
<1> QED
  BY <1>3, <1>4

\* The counter of the device: the application and the device buffers.
LEMMA DeviceCountStep ==
    ASSUME GroupInv, BufferRefsExact, DeviceCount, [GroupNext]_vars
    PROVE  DeviceCount'
<1> USE DEF DeviceCount
<1>0. /\ BufferTypes /\ GroupTypes /\ CallTypes /\ SetCalls
      /\ Cardinality(DeviceBuffers) \in Nat
  BY DeviceBuffersFinite DEF GroupInv
<1> USE <1>0
<1>1. ASSUME NEW t \in Threads, NEW b \in Buffers, NEW type \in {"HOST", "DEVICE"},
             CreateBuffer(t, b, type)
      PROVE  DeviceCount'
  <2>1. /\ bufLife' = [bufLife EXCEPT ![b] = "live"] /\ bufLife[b] = "none"
        /\ bufType' = [bufType EXCEPT ![b] = type] /\ holdsD' = holdsD
        /\ devRef' = IF type = "DEVICE" THEN devRef + 1 ELSE devRef
    BY <1>1 DEF CreateBuffer
  <2>2. CASE type = "DEVICE"
    <3>1. DeviceBuffers' = DeviceBuffers \cup {b} /\ b \notin DeviceBuffers
      BY <2>1, <2>2 DEF DeviceBuffers, BufferTypes
    <3>2. Cardinality(DeviceBuffers') = Cardinality(DeviceBuffers) + 1
      BY <3>1, DeviceBuffersFinite, FS_AddElement
    <3> QED
      BY <2>1, <2>2, <3>2 DEF GroupTypes
  <2>3. CASE type /= "DEVICE"
    <3>1. DeviceBuffers' = DeviceBuffers
      BY <2>1, <2>3 DEF DeviceBuffers, BufferTypes
    <3> QED
      BY <2>1, <2>3, <3>1
  <2> QED
    BY <2>2, <2>3
<1>2. ASSUME NEW t \in Threads, NEW u \in Threads, NEW b \in Buffers,
             RetainBuffer(t, u, b)
      PROVE  DeviceCount'
  BY <1>2 DEF RetainBuffer, Retain, DeviceBuffers, devVars
<1>3. ASSUME NEW t \in Threads, NEW b \in Buffers, MapBuffer(t, b)
      PROVE  DeviceCount'
  BY <1>3 DEF MapBuffer, Retain, DeviceBuffers, devVars
<1>4. ASSUME NEW t \in Threads, NEW b \in Buffers, NEW why \in Reasons,
             ReleaseBuffer(t, b, why)
      PROVE  DeviceCount'
  <2>1. OwnersOf(b) /= {}
    BY <1>4 DEF ReleaseBuffer, OwnersOf
  <2>2. Refs(b) > 0
    BY <2>1, RefsCounted
  <2> QED
    BY <1>4, <2>2, DropDevice DEF ReleaseBuffer
<1>5. ASSUME NEW t \in Threads, ReleaseDevice(t) PROVE DeviceCount'
  <2>1. DeviceBuffers' = DeviceBuffers
    BY <1>5 DEF ReleaseDevice, DeviceBuffers, bufVars
  <2> QED
    BY <1>5, <2>1 DEF ReleaseDevice
<1>6. ASSUME NEW t \in Threads, CreateGroup(t) PROVE DeviceCount'
  BY <1>6 DEF CreateGroup, DeviceBuffers, bufVars, devVars
<1>7. ASSUME NEW t \in Threads, NEW u \in Threads, RetainGroup(t, u)
      PROVE  DeviceCount'
  BY <1>7 DEF RetainGroup, DeviceBuffers, bufVars, devVars
<1>8. ASSUME NEW t \in Threads, ReleaseGroup(t) PROVE DeviceCount'
  BY <1>8 DEF ReleaseGroup, DeviceBuffers, bufVars, devVars
<1>9. ASSUME NEW t \in Threads, NEW b \in Buffers, AddBuffer(t, b)
      PROVE  DeviceCount'
  BY <1>9 DEF AddBuffer, Retain, DeviceBuffers, devVars
<1>10. ASSUME NEW t \in Threads, NEW i \in Indices, NEW b \in Buffers,
             SetBegin(t, i, b)
      PROVE  DeviceCount'
  BY <1>10 DEF SetBegin, Retain, DeviceBuffers, devVars
<1>11. ASSUME NEW t \in Threads, NEW i \in Indices, GetBuffer(t, i)
      PROVE  DeviceCount'
  BY <1>11 DEF GetBuffer, Retain, DeviceBuffers, devVars
<1>12. ASSUME NEW t \in Threads, Enqueue(t) PROVE DeviceCount'
  BY <1>12 DEF Enqueue, DeviceBuffers, bufVars, devVars
<1>13. ASSUME NEW t \in Threads, SetSwap(t) PROVE DeviceCount'
  BY <1>13 DEF SetSwap, DeviceBuffers, bufVars, devVars
<1>14. ASSUME NEW t \in Threads, SetRelease(t) PROVE DeviceCount'
  <2>1. hand[t] \in Buffers /\ Refs(hand[t]) > 0
    BY <1>14, HandRefs DEF SetRelease, SetCalls, InSet
  <2> QED
    BY <1>14, <2>1, DropDevice DEF SetRelease
<1>15. ASSUME NEW a \in Actors, Drain(a) PROVE DeviceCount'
  <2>1. Head(records) \in Buffers /\ Refs(Head(records)) > 0
    BY <1>15, EntryRefs, LenProperties, EmptySeq DEF Drain, GroupTypes
  <2> QED
    BY <1>15, <2>1, DropDevice DEF Drain
<1>16. ASSUME NEW a \in Actors, FreeGroup(a) PROVE DeviceCount'
  BY <1>16 DEF FreeGroup, DeviceBuffers, bufVars, devVars
<1>17. CASE Snapshot
  BY <1>17 DEF Snapshot, DeviceBuffers, bufVars, devVars
<1>18. CASE Finish
  BY <1>18 DEF Finish, DeviceBuffers, bufVars, devVars
<1>19. CASE UNCHANGED vars
  BY <1>19 DEF vars, DeviceBuffers, bufVars, devVars
<1> QED
  BY <1>1, <1>2, <1>3, <1>4, <1>5, <1>6, <1>7, <1>8, <1>9,
     <1>10, <1>11, <1>12, <1>13, <1>14, <1>15, <1>16, <1>17, <1>18, <1>19
     DEF GroupNext, Call, SetStep, InCall, RunStep

-----------------------------------------------------------------------------
(***************************************************************************)
(* The theorems.                                                           *)
(***************************************************************************)

\* Nothing is allocated before the first call, but for the device.
LEMMA GroupInitInv == GroupInit => GroupInv /\ CountersExact
<1> SUFFICES ASSUME GroupInit PROVE GroupInv /\ CountersExact
  OBVIOUS
<1>1. BufferTypes
  BY FS_EmptySet DEF GroupInit, BufferTypes
<1>2. GroupTypes
  BY BufferGroupAssumption, EmptySeq DEF GroupInit, GroupTypes
<1>3. CallTypes /\ SetCalls
  BY BufferGroupAssumption
     DEF GroupInit, CallTypes, SetCalls, InSet, Actors
<1>4. GroupLife /\ CommandHas
  BY DEF GroupInit, GroupLife, InUse, CommandHas
<1>5. \A b \in Buffers : OwnersOf(b) = {} /\ RecordsOf(b) = {} /\ HandsOf(b) = {}
  BY BufferGroupAssumption
     DEF GroupInit, OwnersOf, RecordsOf, HandsOf
<1>6. BufferRefsExact
  <2>1. ASSUME NEW b \in Buffers
        PROVE  /\ Cardinality(OwnersOf(b)) = 0 /\ Cardinality(RecordsOf(b)) = 0
               /\ Cardinality(HandsOf(b)) = 0
    BY <1>5, FS_EmptySet
  <2>2. \A b \in Buffers : bufRef[b] = 0 /\ bufLife[b] = "none"
    BY DEF GroupInit
  <2> QED
    BY <2>1, <2>2 DEF BufferRefsExact
<1>7. Cardinality(DeviceBuffers) = 0 /\ Cardinality(holdsG) = 0
  <2>1. DeviceBuffers = {} /\ holdsG = {}
    BY DEF GroupInit, DeviceBuffers
  <2> QED
    BY <2>1, FS_EmptySet
<1>8. GroupRefsExact
  BY <1>7 DEF GroupInit, GroupRefsExact, DeviceBuffers
<1> QED
  BY <1>1, <1>2, <1>3, <1>4, <1>6, <1>8 DEF GroupInv, CountersExact

\* Counters, ownership and the life of the group hold in every state that the
\* threads and the worker can reach.
THEOREM GroupInvariant == GroupSpec => [](GroupInv /\ CountersExact)
<1>1. GroupInit => GroupInv /\ CountersExact
  BY GroupInitInv
<1>2. GroupInv /\ CountersExact /\ [GroupNext]_vars => GroupInv' /\ CountersExact'
  <2> SUFFICES ASSUME GroupInv, CountersExact, [GroupNext]_vars
               PROVE  GroupInv' /\ CountersExact'
    OBVIOUS
  <2>1. /\ BufferRefsExact /\ GroupRefsExact
        /\ GroupCount /\ DeviceCount
    BY DEF CountersExact, GroupRefsExact, GroupCount, DeviceCount,
           DeviceBuffers
  <2>2. BufferTypes' /\ GroupTypes' /\ CallTypes'
    BY BufferTypesStep, GroupTypesStep, CallTypesStep
  <2>3. SetCalls' /\ GroupLife' /\ CommandHas'
    BY <2>1, SetCallsStep, GroupLifeStep, CommandHasStep
  <2>4. BufferRefsExact' /\ GroupCount' /\ DeviceCount'
    BY <2>1, BufferCountStep, GroupCountStep, DeviceCountStep
  <2> QED
    BY <2>2, <2>3, <2>4
       DEF GroupInv, CountersExact, GroupRefsExact, GroupCount, DeviceCount,
           DeviceBuffers
<1> QED
  BY <1>1, <1>2, PTL DEF GroupSpec

\* xrp_retain_* and xrp_release_* by the application, by the group, by an
\* exchange and by the command are balanced: no counter is ever off.
THEOREM CountersExactCorrect == GroupSpec => []CountersExact
BY GroupInvariant, PTL

\* The types; no object is released more often than it was retained.
THEOREM GroupTypeCorrect == GroupSpec => []GroupTypeOK
<1>1. GroupInv /\ CountersExact => GroupTypeOK
  <2> SUFFICES ASSUME GroupInv, CountersExact PROVE GroupTypeOK
    OBVIOUS
  <2>1. BufferTypes /\ GroupTypes /\ CallTypes
    BY DEF GroupInv
  <2>2. bufRef \in [Buffers -> Nat]
    <3>1. \A b \in Buffers : bufRef[b] \in Nat
      BY <2>1, RefsCounted DEF CountersExact, BufferRefsExact, Refs
    <3> QED
      BY <2>1, <3>1 DEF BufferTypes
  <2>3. grpRef \in Nat
    <3>1. Cardinality(holdsG) \in Nat
      BY <2>1, BufferGroupAssumption, FS_Subset, FS_CardinalityType
         DEF GroupTypes
    <3> QED
      BY <3>1 DEF CountersExact, GroupRefsExact
  <2>4. devRef \in Nat
    BY DeviceBuffersFinite
       DEF CountersExact, GroupRefsExact, DeviceBuffers
  <2> QED
    BY <2>1, <2>2, <2>3, <2>4
       DEF GroupTypeOK, BufferTypes, GroupTypes, CallTypes
<1> QED
  BY <1>1, GroupInvariant, PTL

\* The group is not freed under a command nor under a thread that exchanges a
\* buffer, and while it is drained nobody else is at it.
THEOREM GroupNotUsedAfterFreeCorrect == GroupSpec => []GroupNotUsedAfterFree
<1>1. GroupInv /\ CountersExact => GroupNotUsedAfterFree
  <2> SUFFICES ASSUME GroupInv, CountersExact PROVE GroupNotUsedAfterFree
    OBVIOUS
  <2>1. GroupTypes /\ SetCalls /\ GroupLife
    BY DEF GroupInv
  <2>2. /\ IsFiniteSet(holdsG) /\ Cardinality(holdsG) \in Nat
        /\ Cardinality(holdsG) = 0 <=> holdsG = {}
    BY <2>1, BufferGroupAssumption, FS_Subset, FS_CardinalityType, FS_EmptySet
       DEF GroupTypes
  <2>3. grpRef = 0 <=> ~InUse
    BY <2>2 DEF CountersExact, GroupRefsExact, InUse
  <2>4. grpRef \in Nat
    BY <2>2 DEF CountersExact, GroupRefsExact
  <2>5. \A t \in Threads : hand[t] /= None => InUse
    BY <2>1 DEF SetCalls, InUse
  <2> QED
    BY <2>1, <2>3, <2>4, <2>5 DEF GroupNotUsedAfterFree, GroupLife, InUse
<1> QED
  BY <1>1, GroupInvariant, PTL

\* The buffers a command works with live, but for those exchanged under it.
THEOREM CommandBuffersLiveCorrect == GroupSpec => []CommandBuffersLive
<1>1. GroupInv /\ CountersExact => CommandBuffersLive
  <2> SUFFICES ASSUME GroupInv, CountersExact, NEW b \in snapshot \ replaced
               PROVE  bufLife[b] = "live"
    BY DEF CommandBuffersLive
  <2>1. BufferTypes /\ GroupTypes /\ CallTypes /\ CommandHas /\ b \in Buffers
    BY DEF GroupInv, GroupTypes
  <2>2. RecordsOf(b) /= {}
    BY <2>1 DEF CommandHas, PlacesOf, RecordsOf
  <2>3. Refs(b) > 0
    BY <2>1, <2>2, RefsCounted
  <2> QED
    BY <2>1, <2>3 DEF CountersExact, BufferRefsExact, Refs
<1> QED
  BY <1>1, GroupInvariant, PTL

\* Once the application has given back everything, all is freed.
THEOREM NothingLeaksCorrect == GroupSpec => []NothingLeaks
<1>1. GroupInv /\ CountersExact => NothingLeaks
  <2> SUFFICES ASSUME GroupInv, CountersExact,
                      owners = {}, holdsG = {}, ~holdsD, cmd = "none",
                      \A a \in Actors : pc[a] = "idle"
               PROVE  /\ \A b \in Buffers : bufLife[b] /= "live"
                      /\ grpLife /= "live" /\ devRef = 0
    BY DEF NothingLeaks
  <2>1. BufferTypes /\ GroupTypes /\ CallTypes /\ SetCalls /\ GroupLife
    BY DEF GroupInv
  <2>2. grpLife /= "live" /\ records = << >>
    BY <2>1 DEF GroupLife, InUse
  <2>3. \A t \in Threads : hand[t] = None
    BY <2>1 DEF SetCalls, InSet, Actors
  <2>4. ASSUME NEW b \in Buffers PROVE bufLife[b] /= "live"
    <3>1. OwnersOf(b) = {} /\ RecordsOf(b) = {} /\ HandsOf(b) = {}
      BY <2>2, <2>3, BufferGroupAssumption DEF OwnersOf, RecordsOf, HandsOf
    <3>2. Refs(b) = 0
      BY <2>1, <3>1, RefsCounted
    <3> QED
      BY <3>2 DEF CountersExact, BufferRefsExact, Refs
  <2>5. DeviceBuffers = {}
    BY <2>4 DEF DeviceBuffers
  <2>6. devRef = 0
    BY <2>5, FS_EmptySet DEF CountersExact, GroupRefsExact, DeviceBuffers
  <2> QED
    BY <2>2, <2>4, <2>6
<1> QED
  BY <1>1, GroupInvariant, PTL

=============================================================================
