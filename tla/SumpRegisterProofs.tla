-------------------------- MODULE SumpRegisterProofs --------------------------
(***************************************************************************)
(* Proofs about SumpRegister for any number of bdevs, disks and threads.   *)
(* Inv is inductive.  That each path holds its reference needs the paths   *)
(* of a channel to be distinct and their references to be of the channel's *)
(* thread, the registering thread or nobody; that needs the bdevs of a     *)
(* device to be distinct and the channel found for a late path to be one   *)
(* of the device's; and that one device per uuid.                          *)
(***************************************************************************)
EXTENDS SumpRegister, FiniteSetTheorems, FunctionTheorems, SequenceTheorems,
        WellFoundedInduction, TLAPS

(* A device's bdevs are distinct, have its uuid, and were registered, or   *)
(* the device was freed because the first of them was refused.             *)
GoodDevice(d, ret) ==
  /\ d.bdevs # <<>>
  /\ \A n \in DOMAIN d.bdevs : /\ Uuid[d.bdevs[n]] = d.uuid
                               /\ ret[d.bdevs[n]] = "ok" \/ (ret[d.bdevs[n]] = "failed" /\ d.freed)
  /\ \A m, n \in DOMAIN d.bdevs : d.bdevs[m] = d.bdevs[n] => m = n

(* What PathsInOrder says of one channel, and who took its references.     *)
GoodPaths(ch, bdevs) ==
  /\ ch.iopaths # <<>>
  /\ \A j \in DOMAIN ch.iopaths : \E n \in DOMAIN bdevs : bdevs[n] = ch.iopaths[j].bdev
  /\ \A j, l \in DOMAIN ch.iopaths, m, n \in DOMAIN bdevs :
       (j < l /\ bdevs[m] = ch.iopaths[j].bdev /\ bdevs[n] = ch.iopaths[l].bdev) => m < n
  /\ ch.max_id = Len(ch.iopaths)
  /\ \A j \in DOMAIN ch.iopaths :
       /\ ch.iopaths[j].id = j - 1
       /\ ch.iopaths[j].owner \in {ch.thread, AppThread, NullChannel}

GoodChannel(ch, list) ==
  IF ch.freed THEN ch.iopaths = <<>>
  ELSE ch.device \in DOMAIN list /\ GoodPaths(ch, list[ch.device].bdevs)

Outcome == {"not_yet", "ok", "failed"}

DevicesOK(list, ret) ==
  /\ \A k, l \in DOMAIN list : list[k].uuid = list[l].uuid => k = l
  /\ \A k \in DOMAIN list : GoodDevice(list[k], ret)
  /\ \A b \in Bdevs : ret[b] = "ok" => \E k \in DOMAIN list : \E n \in DOMAIN list[k].bdevs :
                                        list[k].bdevs[n] = b

DevicesInv == DevicesOK(ump_bdev_list, returned)

ChannelsOK(chans, list) == \A c \in DOMAIN chans : GoodChannel(chans[c], list)

ChannelsInv == ChannelsOK(g_ump_bdev_channels, ump_bdev_list)

Inv == TypeOK /\ DevicesInv /\ ChannelsInv /\ ReferencesHeld

USE DEF Outcome

-----------------------------------------------------------------------------
(* Sequences.                                                              *)

(* Every non-empty set of naturals has a least element.                    *)
LEMMA LeastNatural ==
  ASSUME NEW T \in SUBSET Nat, T # {}
  PROVE  \E m \in T : \A n \in T : m <= n
<1>1. PICK R : IsWellFoundedOn(R, Nat) /\ \A m, n \in Nat : n < m => <<n, m>> \in R
  <2>1. \A m, n \in Nat : n < m => <<n, m>> \in OpToRel(<, Nat)
    BY DEF OpToRel
  <2> QED BY <2>1, NatLessThanWellFounded, Zenon
<1>2. PICK m \in T : \A n \in T : ~ (<<n, m>> \in R)
  BY <1>1, WFMin, Zenon
<1>3. ASSUME NEW n \in T PROVE m <= n
  <2>1. ~ (n < m)
    BY <1>1, <1>2
  <2> QED BY <2>1
<1> QED BY <1>3

(* One position more.                                                      *)
LEMMA OneMore ==
  \A n \in Nat : /\ \A i \in 1 .. n + 1 : i \in 1 .. n \/ i = n + 1
                 /\ 1 .. n \subseteq 1 .. n + 1 /\ n + 1 \in 1 .. n + 1 /\ n + 1 \notin 1 .. n
OBVIOUS

(* The first position of a set of them, if there is one.                   *)
LEMMA FirstOfMember ==
  ASSUME NEW S \in SUBSET (Nat \ {0})
  PROVE  /\ S = {} => FirstOf(S) = 0
         /\ S # {} => FirstOf(S) \in S
<1>1. S # {} => \E m \in S : \A n \in S : m <= n
  BY LeastNatural
<1> QED BY <1>1 DEF FirstOf

(* Where the element at position d of the shorter sequence was.            *)
Old(c, d) == IF d < c THEN d ELSE d + 1

(* RemoveAt leaves the other elements, in order.                           *)
LEMMA RemoveAtProperties ==
  ASSUME NEW S, NEW s \in Seq(S), NEW c \in DOMAIN s
  PROVE  /\ RemoveAt(s, c) \in Seq(S)
         /\ Len(RemoveAt(s, c)) = Len(s) - 1
         /\ \A d \in DOMAIN RemoveAt(s, c) : /\ Old(c, d) \in DOMAIN s \ {c}
                                             /\ RemoveAt(s, c)[d] = s[Old(c, d)]
         /\ \A e \in DOMAIN s \ {c} : \E d \in DOMAIN RemoveAt(s, c) : e = Old(c, d)
<1> DEFINE n == Len(s)
           p == SubSeq(s, 1, c - 1)
           q == SubSeq(s, c + 1, n)
<1>1. n \in Nat /\ DOMAIN s = 1 .. n /\ c \in 1 .. n /\ \A i \in 1 .. n : s[i] \in S
  BY LenProperties, ElementOfSeq
<1>2. p \in Seq(S) /\ Len(p) = c - 1 /\ \A i \in 1 .. c - 1 : p[i] = s[i]
  <2>1. 1 \in Int /\ c - 1 \in Int /\ \A i \in 1 .. c - 1 : s[i] \in S
    BY <1>1
  <2>2. /\ p \in Seq(S) /\ Len(p) = IF 1 <= c - 1 THEN c - 1 - 1 + 1 ELSE 0
        /\ \A i \in 1 .. c - 1 - 1 + 1 : p[i] = s[1 + i - 1]
    BY <2>1, SubSeqProperties
  <2> QED BY <1>1, <2>2, SMTT(30)
<1>3. q \in Seq(S) /\ Len(q) = n - c /\ \A i \in 1 .. n - c : q[i] = s[c + i]
  <2>1. c + 1 \in Int /\ n \in Int /\ \A i \in c + 1 .. n : s[i] \in S
    BY <1>1
  <2>2. /\ q \in Seq(S) /\ Len(q) = IF c + 1 <= n THEN n - (c + 1) + 1 ELSE 0
        /\ \A i \in 1 .. n - (c + 1) + 1 : q[i] = s[c + 1 + i - 1]
    BY <2>1, SubSeqProperties
  <2> QED BY <1>1, <2>2, SMTT(30)
<1> HIDE DEF n, p, q
<1>4. /\ p \o q \in Seq(S) /\ Len(p \o q) = Len(p) + Len(q)
      /\ \A i \in 1 .. Len(p) + Len(q) : (p \o q)[i] = IF i <= Len(p) THEN p[i] ELSE q[i - Len(p)]
  BY <1>2, <1>3, ConcatProperties
<1>5. RemoveAt(s, c) = p \o q
  BY DEF RemoveAt, n, p, q
<1>6. /\ Len(p \o q) = n - 1 /\ DOMAIN (p \o q) = 1 .. n - 1
      /\ \A i \in 1 .. n - 1 : (p \o q)[i] = IF i <= c - 1 THEN p[i] ELSE q[i - (c - 1)]
  BY <1>1, <1>2, <1>3, <1>4, LenProperties
<1>7. ASSUME NEW d \in 1 .. n - 1
      PROVE  Old(c, d) \in 1 .. n /\ Old(c, d) # c /\ (p \o q)[d] = s[Old(c, d)]
  <2>1. CASE d < c
    BY <1>1, <1>2, <1>6, <2>1 DEF Old
  <2>2. CASE ~(d < c)
    <3>1. d - (c - 1) \in 1 .. n - c /\ c + (d - (c - 1)) = d + 1
      BY <1>1, <2>2
    <3>2. (p \o q)[d] = q[d - (c - 1)]
      BY <1>1, <1>6, <2>2
    <3>3. q[d - (c - 1)] = s[d + 1]
      BY <1>3, <3>1
    <3>4. Old(c, d) = d + 1 /\ d + 1 \in 1 .. n /\ d + 1 # c
      BY <1>1, <2>2 DEF Old
    <3> QED BY <3>2, <3>3, <3>4
  <2> QED BY <2>1, <2>2
<1>8. ASSUME NEW e \in 1 .. n, e # c
      PROVE  \E d \in 1 .. n - 1 : e = Old(c, d)
  <2>1. CASE e < c
    <3>1. e \in 1 .. n - 1 /\ e = Old(c, e)
      BY <1>1, <2>1 DEF Old
    <3> QED BY <3>1
  <2>2. CASE e > c
    <3>1. e - 1 \in 1 .. n - 1 /\ e = Old(c, e - 1)
      BY <1>1, <2>2 DEF Old
    <3> QED BY <3>1
  <2> QED BY <1>1, <1>8, <2>1, <2>2
<1>9. n = Len(s)
  BY DEF n
<1> QED BY <1>1, <1>4, <1>5, <1>6, <1>7, <1>8, <1>9

(* m is the list l with bdev b added to device k.                          *)
Joined(l, k, b, m) ==
  /\ DOMAIN m = DOMAIN l
  /\ m[k].bdevs = Append(l[k].bdevs, b) /\ m[k].uuid = l[k].uuid
  /\ m[k].freed = l[k].freed
  /\ \A j \in DOMAIN l \ {k} : m[j] = l[j]

(* A bdev appended to one device of the list.                              *)
LEMMA AppendBdev ==
  ASSUME NEW l \in Seq(Device), NEW k \in DOMAIN l, NEW b \in Bdevs,
         NEW m, m = [l EXCEPT ![k].bdevs = Append(@, b)]
  PROVE  m \in Seq(Device) /\ Joined(l, k, b, m)
<1> DEFINE bs == Append(l[k].bdevs, b)
           e  == [l[k] EXCEPT !.bdevs = bs]
<1>1. l[k] \in Device /\ DOMAIN l = 1 .. Len(l) /\ k \in 1 .. Len(l)
  BY LenProperties, ElementOfSeq
<1>2. l[k].bdevs \in Seq(Bdevs)
  BY <1>1 DEF Device
<1>3. bs \in Seq(Bdevs)
  BY <1>2, AppendProperties
<1>4. m = [l EXCEPT ![k] = e]
  OBVIOUS
<1> HIDE DEF bs
<1>5. /\ e \in Device
      /\ e.bdevs = bs /\ e.uuid = l[k].uuid /\ e.freed = l[k].freed
  BY <1>1, <1>3 DEF Device
<1> HIDE DEF e
<1>6. /\ [l EXCEPT ![k] = e] \in Seq(Device) /\ Len([l EXCEPT ![k] = e]) = Len(l)
      /\ \A j \in 1 .. Len(l) : [l EXCEPT ![k] = e][j] = IF j = k THEN e ELSE l[j]
  BY <1>1, <1>5, ExceptSeq
<1>7. m \in Seq(Device) /\ DOMAIN m = DOMAIN l
  BY <1>1, <1>4, <1>6, LenProperties
<1>8. m[k] = e /\ \A j \in DOMAIN l \ {k} : m[j] = l[j]
  BY <1>1, <1>4, <1>6
<1> QED BY <1>5, <1>7, <1>8 DEF bs, Joined

(* A path appended to a channel.                                           *)
LEMMA ExtendProperties ==
  ASSUME NEW ch \in Channel, NEW b \in Bdevs, NEW o \in Threads \cup {NullChannel}
  PROVE  /\ Extend(ch, b, o) \in Channel
         /\ Extend(ch, b, o).device = ch.device /\ Extend(ch, b, o).thread = ch.thread
         /\ Extend(ch, b, o).freed = ch.freed
         /\ Extend(ch, b, o).max_id = ch.max_id + 1
         /\ Extend(ch, b, o).iopaths
              = Append(ch.iopaths, [bdev |-> b, owner |-> o, id |-> ch.max_id])
<1> DEFINE path == [bdev |-> b, owner |-> o, id |-> ch.max_id]
<1>1. ch.max_id \in Nat /\ ch.iopaths \in Seq(IoPath)
  BY DEF Channel
<1>2. path \in IoPath
  BY <1>1 DEF IoPath
<1> HIDE DEF path
<1>3. Append(ch.iopaths, path) \in Seq(IoPath) /\ ch.max_id + 1 \in Nat
  BY <1>1, <1>2, AppendProperties
<1>4. Extend(ch, b, o) = [ch EXCEPT !.iopaths = Append(ch.iopaths, path),
                                    !.max_id = ch.max_id + 1]
  BY DEF Extend, path
<1>5. /\ Extend(ch, b, o).device = ch.device /\ Extend(ch, b, o).thread = ch.thread
      /\ Extend(ch, b, o).freed = ch.freed
      /\ Extend(ch, b, o).max_id = ch.max_id + 1
      /\ Extend(ch, b, o).iopaths = Append(ch.iopaths, path)
  BY <1>4 DEF Channel
<1>6. Extend(ch, b, o) \in Channel
  BY <1>3, <1>4 DEF Channel
<1> QED BY <1>5, <1>6 DEF path

-----------------------------------------------------------------------------
(* Paths of one channel.                                                   *)

(* A channel's fields, and its paths', have their types.                   *)
LEMMA ChannelFields ==
  ASSUME NEW ch \in Channel
  PROVE  /\ ch.iopaths \in Seq(IoPath) /\ ch.thread \in Threads /\ ch.max_id \in Nat
         /\ ch.freed \in BOOLEAN /\ ch.device \in Nat \ {0}
         /\ Len(ch.iopaths) \in Nat /\ DOMAIN ch.iopaths = 1 .. Len(ch.iopaths)
         /\ \A j \in DOMAIN ch.iopaths : /\ ch.iopaths[j].bdev \in Bdevs
                                         /\ ch.iopaths[j].owner \in Threads \cup {NullChannel}
<1>1. /\ ch.iopaths \in Seq(IoPath) /\ ch.thread \in Threads /\ ch.max_id \in Nat
      /\ ch.freed \in BOOLEAN /\ ch.device \in Nat \ {0}
  BY DEF Channel
<1>2. /\ Len(ch.iopaths) \in Nat /\ DOMAIN ch.iopaths = 1 .. Len(ch.iopaths)
      /\ \A j \in DOMAIN ch.iopaths : ch.iopaths[j] \in IoPath
  BY <1>1, LenProperties, ElementOfSeq
<1> QED BY <1>1, <1>2 DEF IoPath

(* A device's bdevs are a sequence.                                        *)
LEMMA DeviceFields ==
  ASSUME NEW l \in Seq(Device), NEW k \in DOMAIN l
  PROVE  /\ l[k].bdevs \in Seq(Bdevs) /\ l[k].freed \in BOOLEAN
         /\ k \in Nat \ {0} /\ k \in 1 .. Len(l) /\ Len(l) \in Nat
         /\ Len(l[k].bdevs) \in Nat /\ DOMAIN l[k].bdevs = 1 .. Len(l[k].bdevs)
         /\ \A n \in DOMAIN l[k].bdevs : l[k].bdevs[n] \in Bdevs
<1>1. l[k] \in Device /\ k \in 1 .. Len(l) /\ Len(l) \in Nat
  BY LenProperties, ElementOfSeq
<1>2. l[k].bdevs \in Seq(Bdevs) /\ l[k].freed \in BOOLEAN
  BY <1>1 DEF Device
<1>3. /\ Len(l[k].bdevs) \in Nat /\ DOMAIN l[k].bdevs = 1 .. Len(l[k].bdevs)
      /\ \A n \in DOMAIN l[k].bdevs : l[k].bdevs[n] \in Bdevs
  BY <1>2, LenProperties, ElementOfSeq
<1> QED BY <1>1, <1>2, <1>3

(* A sequence of distinct bdevs is no longer than there are bdevs.         *)
LEMMA DistinctAreFew ==
  ASSUME NEW n \in Nat, NEW f \in [1 .. n -> Bdevs],
         \A i, j \in 1 .. n : f[i] = f[j] => i = j
  PROVE  n <= Cardinality(Bdevs)
<1>1. f \in Injection(1 .. n, Bdevs)
  BY Fun_IsInj
<1>2. Cardinality(1 .. n) <= Cardinality(Bdevs)
  BY <1>1, BdevsAssumption, FS_Injection
<1>3. Cardinality(1 .. n) = n
  BY FS_Interval
<1> QED BY <1>2, <1>3

(* In a channel whose paths are in order no bdev has two of them.          *)
LEMMA PathsAreDistinct ==
  ASSUME NEW ch \in Channel, NEW bdevs \in Seq(Bdevs), GoodPaths(ch, bdevs)
  PROVE  /\ \A j, l \in DOMAIN ch.iopaths : ch.iopaths[j].bdev = ch.iopaths[l].bdev => j = l
         /\ Len(ch.iopaths) <= Cardinality(Bdevs)
<1>1. \A j, l \in DOMAIN ch.iopaths : j < l => ch.iopaths[j].bdev # ch.iopaths[l].bdev
  <2> SUFFICES ASSUME NEW j \in DOMAIN ch.iopaths, NEW l \in DOMAIN ch.iopaths,
                      j < l, ch.iopaths[j].bdev = ch.iopaths[l].bdev
               PROVE  FALSE
    OBVIOUS
  <2>1. PICK n \in DOMAIN bdevs : bdevs[n] = ch.iopaths[j].bdev
    BY DEF GoodPaths
  <2>2. n < n
    BY <2>1 DEF GoodPaths
  <2>3. n \in Nat
    BY LenProperties
  <2> QED BY <2>2, <2>3
<1>2. \A j, l \in DOMAIN ch.iopaths : ch.iopaths[j].bdev = ch.iopaths[l].bdev => j = l
  <2>1. DOMAIN ch.iopaths \subseteq Int
    BY ChannelFields
  <2> QED BY <1>1, <2>1
<1>3. Len(ch.iopaths) <= Cardinality(Bdevs)
  <2> DEFINE f == [j \in 1 .. Len(ch.iopaths) |-> ch.iopaths[j].bdev]
  <2>1. f \in [1 .. Len(ch.iopaths) -> Bdevs] /\ Len(ch.iopaths) \in Nat
    BY ChannelFields
  <2>2. \A i, j \in 1 .. Len(ch.iopaths) : f[i] = f[j] => i = j
    BY <1>2, ChannelFields
  <2> HIDE DEF f
  <2> QED BY <2>1, <2>2, DistinctAreFew
<1> QED BY <1>2, <1>3

(* So at most one of them holds a reference to a given io_channel.         *)
LEMMA OnePathHolds ==
  ASSUME NEW ch \in Channel, NEW bdevs \in Seq(Bdevs), GoodPaths(ch, bdevs),
         NEW b \in Bdevs, NEW t \in Threads
  PROVE  /\ PathsHolding(ch, b, t) \subseteq 1 .. Cardinality(Bdevs)
         /\ \/ PathsHolding(ch, b, t) = {} /\ Cardinality(PathsHolding(ch, b, t)) = 0
            \/ /\ \E j \in 1 .. Cardinality(Bdevs) : PathsHolding(ch, b, t) = {j}
               /\ Cardinality(PathsHolding(ch, b, t)) = 1
<1>1. Cardinality(Bdevs) \in Nat
  BY BdevsAssumption, FS_CardinalityType
<1>2. DOMAIN ch.iopaths \subseteq 1 .. Cardinality(Bdevs)
  BY <1>1, ChannelFields, PathsAreDistinct
<1>3. PathsHolding(ch, b, t) \subseteq 1 .. Cardinality(Bdevs)
  BY <1>2 DEF PathsHolding
<1>4. \A j, l \in PathsHolding(ch, b, t) : j = l
  BY PathsAreDistinct DEF PathsHolding
<1>5. CASE PathsHolding(ch, b, t) = {}
  BY <1>3, <1>5, FS_EmptySet
<1>6. ASSUME NEW j \in PathsHolding(ch, b, t)
      PROVE  PathsHolding(ch, b, t) = {j} /\ j \in 1 .. Cardinality(Bdevs)
  BY <1>3, <1>4
<1>7. \A j : Cardinality({j}) = 1
  BY FS_Singleton
<1> QED BY <1>3, <1>5, <1>6, <1>7

-----------------------------------------------------------------------------
(* Counting references.  Held is Holders and RefsOK ReferencesHeld, for    *)
(* given lists of channels and counts.                                     *)

Held(list, b, t) ==
  {h \in (DOMAIN list) \X (1 .. Cardinality(Bdevs)) :
     ~list[h[1]].freed /\ h[2] \in PathsHolding(list[h[1]], b, t)}

RefsOK(list, counts) ==
  \A b \in Bdevs, t \in Threads :
    /\ Cardinality(Held(list, b, t)) <= counts[<<b, t>>]
    /\ t # AppThread => Cardinality(Held(list, b, t)) = counts[<<b, t>>]

(* They are the same.                                                      *)
LEMMA HoldersAreHeld ==
  ASSUME NEW b, NEW t
  PROVE  /\ Holders(b, t) = Held(g_ump_bdev_channels, b, t)
         /\ Holders(b, t)' = Held(g_ump_bdev_channels', b, t)
BY DEF Holders, Held, Live, PathsHolding

(* So are these.                                                           *)
LEMMA ReferencesAreOK ==
  /\ ReferencesHeld <=> RefsOK(g_ump_bdev_channels, refs)
  /\ ReferencesHeld' <=> RefsOK(g_ump_bdev_channels', refs')
BY HoldersAreHeld DEF ReferencesHeld, RefsOK

(* There are finitely many.                                                *)
LEMMA HeldFinite ==
  ASSUME NEW list \in Seq(Channel), NEW b, NEW t
  PROVE  IsFiniteSet(Held(list, b, t)) /\ Cardinality(Held(list, b, t)) \in Nat
<1>1. IsFiniteSet(DOMAIN list)
  BY LenProperties, FS_Interval
<1>2. IsFiniteSet(1 .. Cardinality(Bdevs))
  BY BdevsAssumption, FS_CardinalityType, FS_Interval
<1>3. IsFiniteSet((DOMAIN list) \X (1 .. Cardinality(Bdevs)))
  BY <1>1, <1>2, FS_Product
<1>4. Held(list, b, t) \in SUBSET ((DOMAIN list) \X (1 .. Cardinality(Bdevs)))
  BY DEF Held
<1>5. IsFiniteSet(Held(list, b, t))
  BY <1>3, <1>4, FS_Subset
<1> QED BY <1>5, FS_CardinalityType

(* A new channel adds its own path to the bdev, if it has one.             *)
LEMMA HeldAfterAppend ==
  ASSUME NEW list \in Seq(Channel), NEW ch \in Channel, NEW b, NEW t
  PROVE  /\ (ch.freed \/ PathsHolding(ch, b, t) = {})
              => Cardinality(Held(Append(list, ch), b, t)) = Cardinality(Held(list, b, t))
         /\ \A j \in 1 .. Cardinality(Bdevs) :
              (~ch.freed /\ PathsHolding(ch, b, t) = {j})
                => Cardinality(Held(Append(list, ch), b, t)) = Cardinality(Held(list, b, t)) + 1
<1> DEFINE n == Len(list)
           long == Append(list, ch)
<1>1. /\ n \in Nat /\ DOMAIN list = 1 .. n
      /\ DOMAIN long = 1 .. n + 1 /\ long[n + 1] = ch /\ \A c \in 1 .. n : long[c] = list[c]
  BY LenProperties, AppendProperties
<1> HIDE DEF n, long
<1>2. \A c \in 1 .. n + 1 : c \in 1 .. n \/ c = n + 1
  BY <1>1
<1>3. n + 1 \notin 1 .. n /\ 1 .. n \subseteq 1 .. n + 1 /\ n + 1 \in 1 .. n + 1
  BY <1>1
<1>4. CASE ch.freed \/ PathsHolding(ch, b, t) = {}
  <2>1. Held(long, b, t) = Held(list, b, t)
    BY <1>1, <1>2, <1>3, <1>4 DEF Held
  <2> QED BY <1>4, <2>1 DEF long
<1>5. ASSUME NEW j \in 1 .. Cardinality(Bdevs), ~ch.freed, PathsHolding(ch, b, t) = {j}
      PROVE  Cardinality(Held(long, b, t)) = Cardinality(Held(list, b, t)) + 1
  <2>1. Held(long, b, t) = Held(list, b, t) \cup {<<n + 1, j>>}
    BY <1>1, <1>2, <1>3, <1>5 DEF Held
  <2>2. <<n + 1, j>> \notin Held(list, b, t)
    BY <1>1, <1>3 DEF Held
  <2> QED BY <2>1, <2>2, HeldFinite, FS_AddElement
<1>6. \A j \in 1 .. Cardinality(Bdevs) : PathsHolding(ch, b, t) = {j} => PathsHolding(ch, b, t) # {}
  OBVIOUS
<1> QED BY <1>4, <1>5, <1>6 DEF long

(* A late path adds one holder of its bdev's io_channel on its owner.      *)
LEMMA HeldAfterExtend ==
  ASSUME NEW list \in Seq(Channel), NEW c \in DOMAIN list, ~list[c].freed,
         NEW a \in Bdevs, NEW o \in Threads \cup {NullChannel},
         Len(list[c].iopaths) < Cardinality(Bdevs),
         NEW longer, longer = [list EXCEPT ![c] = Extend(@, a, o)],
         NEW b \in Bdevs, NEW t \in Threads
  PROVE  Cardinality(Held(longer, b, t))
           = Cardinality(Held(list, b, t)) + (IF b = a /\ t = o THEN 1 ELSE 0)
<1> DEFINE ch == list[c]
           e  == Extend(ch, a, o)
           n  == Len(ch.iopaths)
<1>1. ch \in Channel /\ DOMAIN list = 1 .. Len(list)
  BY ElementOfSeq, LenProperties
<1>2. e \in Channel /\ e.freed = ch.freed
      /\ e.iopaths = Append(ch.iopaths, [bdev |-> a, owner |-> o, id |-> ch.max_id])
  BY <1>1, ExtendProperties
<1>3. n \in Nat /\ ch.iopaths \in Seq(IoPath) /\ DOMAIN ch.iopaths = 1 .. n
      /\ [bdev |-> a, owner |-> o, id |-> ch.max_id] \in IoPath
  BY <1>1, ChannelFields DEF IoPath
<1>4. /\ DOMAIN longer = DOMAIN list /\ longer[c] = e
      /\ \A d \in DOMAIN list \ {c} : longer[d] = list[d]
  <2>1. longer = [list EXCEPT ![c] = e]
    OBVIOUS
  <2> HIDE DEF e
  <2>2. /\ [list EXCEPT ![c] = e] \in Seq(Channel) /\ Len([list EXCEPT ![c] = e]) = Len(list)
        /\ \A d \in 1 .. Len(list) : [list EXCEPT ![c] = e][d] = IF d = c THEN e ELSE list[d]
    BY <1>1, <1>2, ExceptSeq
  <2> QED BY <1>1, <2>1, <2>2, LenProperties
<1> HIDE DEF e
<1>5. /\ DOMAIN e.iopaths = 1 .. n + 1
      /\ e.iopaths[n + 1].bdev = a /\ e.iopaths[n + 1].owner = o
      /\ \A j \in 1 .. n : e.iopaths[j] = ch.iopaths[j]
  <2> DEFINE path == [bdev |-> a, owner |-> o, id |-> ch.max_id]
  <2>1. path.bdev = a /\ path.owner = o /\ path \in IoPath /\ e.iopaths = Append(ch.iopaths, path)
    BY <1>2, <1>3
  <2> HIDE DEF path
  <2>2. e.iopaths \in Seq(IoPath) /\ Len(e.iopaths) = n + 1 /\ e.iopaths[n + 1] = path
        /\ \A j \in 1 .. n : e.iopaths[j] = ch.iopaths[j]
    BY <1>3, <2>1, AppendProperties
  <2> QED BY <2>1, <2>2, LenProperties
<1>6. /\ n + 1 \in 1 .. Cardinality(Bdevs) /\ n + 1 \notin 1 .. n
      /\ \A j : j \in 1 .. n + 1 <=> j \in 1 .. n \/ j = n + 1
  BY <1>3, BdevsAssumption, FS_CardinalityType
<1>7. PathsHolding(e, b, t)
        = PathsHolding(ch, b, t) \cup (IF b = a /\ t = o THEN {n + 1} ELSE {})
  BY <1>3, <1>5, <1>6 DEF PathsHolding
<1>8. n + 1 \notin PathsHolding(ch, b, t)
  BY <1>3, <1>6 DEF PathsHolding
<1> HIDE DEF n, ch
<1>9. CASE b = a /\ t = o
  <2>1. Held(longer, b, t) = Held(list, b, t) \cup {<<c, n + 1>>}
    BY <1>2, <1>4, <1>6, <1>7, <1>9 DEF Held, ch
  <2>2. <<c, n + 1>> \notin Held(list, b, t)
    BY <1>8 DEF Held, ch
  <2>3. Cardinality(Held(longer, b, t)) = Cardinality(Held(list, b, t)) + 1
    BY <2>1, <2>2, HeldFinite, FS_AddElement
  <2> QED BY <1>9, <2>3
<1>10. CASE ~(b = a /\ t = o)
  <2>1. Held(longer, b, t) = Held(list, b, t)
    BY <1>2, <1>4, <1>7, <1>10 DEF Held, ch
  <2> QED BY <1>10, <2>1, HeldFinite
<1> QED BY <1>9, <1>10

(* Removing a channel takes its own holders out of the count.              *)
LEMMA HeldAfterRemove ==
  ASSUME NEW list \in Seq(Channel), NEW c \in DOMAIN list, ~list[c].freed,
         NEW b \in Bdevs, NEW t \in Threads,
         PathsHolding(list[c], b, t) \subseteq 1 .. Cardinality(Bdevs)
  PROVE  Cardinality(Held(RemoveAt(list, c), b, t))
           = Cardinality(Held(list, b, t)) - Cardinality(PathsHolding(list[c], b, t))
<1> DEFINE left == RemoveAt(list, c)
           mine == {h \in Held(list, b, t) : h[1] = c}
           others == Held(list, b, t) \ mine
           own == PathsHolding(list[c], b, t)
<1>1. /\ left \in Seq(Channel)
      /\ \A d \in DOMAIN left : Old(c, d) \in DOMAIN list \ {c} /\ left[d] = list[Old(c, d)]
      /\ \A e \in DOMAIN list \ {c} : \E d \in DOMAIN left : e = Old(c, d)
  BY RemoveAtProperties
<1>2. DOMAIN left \subseteq Int /\ c \in Int
  BY <1>1, LenProperties
<1>3. IsFiniteSet(Held(list, b, t)) /\ Cardinality(Held(list, b, t)) \in Nat
  BY HeldFinite
<1> HIDE DEF left
<1>4. Cardinality(Held(left, b, t)) = Cardinality(others)
  <2> DEFINE F == [h \in Held(left, b, t) |-> <<Old(c, h[1]), h[2]>>]
  <2>1. ASSUME NEW h \in Held(left, b, t)
        PROVE  <<Old(c, h[1]), h[2]>> \in others
    BY <1>1, <2>1 DEF Held
  <2>2. ASSUME NEW g \in Held(left, b, t), NEW h \in Held(left, b, t),
               <<Old(c, g[1]), g[2]>> = <<Old(c, h[1]), h[2]>>
        PROVE  g = h
    <3>1. /\ g[1] \in Int /\ h[1] \in Int /\ g = <<g[1], g[2]>> /\ h = <<h[1], h[2]>>
      BY <1>2 DEF Held
    <3>2. Old(c, g[1]) = Old(c, h[1]) /\ g[2] = h[2]
      BY <2>2
    <3>3. g[1] = h[1]
      BY <1>2, <3>1, <3>2 DEF Old
    <3> QED BY <3>1, <3>2, <3>3
  <2>3. ASSUME NEW h \in others
        PROVE  \E g \in Held(left, b, t) : h = <<Old(c, g[1]), g[2]>>
    <3>1. h[1] \in DOMAIN list \ {c} /\ h[2] \in 1 .. Cardinality(Bdevs) /\ h = <<h[1], h[2]>>
      BY DEF Held
    <3>2. PICK d \in DOMAIN left : h[1] = Old(c, d)
      BY <1>1, <3>1
    <3>3. left[d] = list[h[1]] /\ ~list[h[1]].freed /\ h[2] \in PathsHolding(list[h[1]], b, t)
      BY <1>1, <3>2 DEF Held
    <3>4. <<d, h[2]>> \in Held(left, b, t)
      BY <3>1, <3>3 DEF Held
    <3> QED BY <3>1, <3>2, <3>4
  <2> HIDE DEF others
  <2>4. /\ F \in [Held(left, b, t) -> others]
        /\ \A g, h \in Held(left, b, t) : F[g] = F[h] => g = h
        /\ \A h \in others : \E g \in Held(left, b, t) : F[g] = h
    BY <2>1, <2>2, <2>3
  <2> HIDE DEF F
  <2>5. F \in Injection(Held(left, b, t), others) /\ F \in Surjection(Held(left, b, t), others)
    BY <2>4, Fun_IsInj, Fun_IsSurj
  <2>6. F \in Bijection(Held(left, b, t), others)
    BY <2>5, Fun_IsBij
  <2>7. ExistsBijection(Held(left, b, t), others)
    BY <2>6, Fun_ExistsBij
  <2> QED BY <1>1, <2>7, HeldFinite, FS_Bijection
<1>5. Cardinality(mine) = Cardinality(own)
  <2> DEFINE F == [j \in own |-> <<c, j>>]
  <2>1. \A j \in own : <<c, j>> \in mine
    BY DEF Held
  <2>2. \A h \in mine : h[2] \in own /\ h = <<c, h[2]>>
    BY DEF Held
  <2> HIDE DEF mine, own
  <2>3. /\ F \in [own -> mine]
        /\ \A i, j \in own : F[i] = F[j] => i = j
        /\ \A h \in mine : \E j \in own : F[j] = h
    BY <2>1, <2>2
  <2> HIDE DEF F
  <2>4. F \in Injection(own, mine) /\ F \in Surjection(own, mine)
    BY <2>3, Fun_IsInj, Fun_IsSurj
  <2>5. F \in Bijection(own, mine)
    BY <2>4, Fun_IsBij
  <2>6. ExistsBijection(own, mine)
    BY <2>5, Fun_ExistsBij
  <2>7. IsFiniteSet(own)
    <3>1. IsFiniteSet(1 .. Cardinality(Bdevs))
      BY BdevsAssumption, FS_CardinalityType, FS_Interval
    <3>2. own \in SUBSET (1 .. Cardinality(Bdevs))
      BY DEF own
    <3> QED BY <3>1, <3>2, FS_Subset
  <2> QED BY <2>6, <2>7, FS_Bijection
<1>6. Cardinality(others) = Cardinality(Held(list, b, t)) - Cardinality(mine)
  <2>1. Held(list, b, t) \cap mine = mine
    OBVIOUS
  <2>2. Cardinality(others)
          = Cardinality(Held(list, b, t)) - Cardinality(Held(list, b, t) \cap mine)
    BY <1>3, FS_Difference
  <2> QED BY <2>1, <2>2
<1> QED BY <1>4, <1>5, <1>6 DEF left

-----------------------------------------------------------------------------
(* Devices.                                                                *)

(* get_ump_bdev_by_uuid finds the device of the uuid if there is one.      *)
LEMMA GetUmpBdevFinds ==
  ASSUME TypeOK, NEW u
  PROVE  \/ /\ GetUmpBdev(u) = 0
            /\ \A k \in DOMAIN ump_bdev_list : ump_bdev_list[k].uuid # u
         \/ /\ GetUmpBdev(u) # 0
            /\ GetUmpBdev(u) \in DOMAIN ump_bdev_list
            /\ ump_bdev_list[GetUmpBdev(u)].uuid = u
<1> DEFINE S == {k \in DOMAIN ump_bdev_list : ump_bdev_list[k].uuid = u}
<1>1. S \in SUBSET (Nat \ {0})
  BY DeviceFields DEF TypeOK
<1>2. GetUmpBdev(u) = FirstOf(S)
  BY DEF GetUmpBdev
<1>3. CASE S = {}
  BY <1>1, <1>2, <1>3, FirstOfMember
<1>4. CASE S # {}
  <2>1. GetUmpBdev(u) \in S
    BY <1>1, <1>2, <1>4, FirstOfMember
  <2> QED BY <1>1, <2>1
<1> QED BY <1>3, <1>4

(* A bdev whose registration is to come is in no device.                   *)
LEMMA NotYetIsNew ==
  ASSUME NEW list, NEW ret \in [Bdevs -> Outcome], DevicesOK(list, ret), NEW b \in Bdevs, ret[b] = "not_yet"
  PROVE  \A k \in DOMAIN list : \A n \in DOMAIN list[k].bdevs : list[k].bdevs[n] # b
BY DEF DevicesOK, GoodDevice

(* What is returned for a bdev in no device says nothing of the devices.   *)
LEMMA GoodDeviceKept ==
  ASSUME NEW list \in Seq(Device), NEW ret \in [Bdevs -> Outcome], DevicesOK(list, ret),
         NEW b \in Bdevs, ret[b] = "not_yet",
         NEW ret2 \in [Bdevs -> Outcome], \A a \in Bdevs \ {b} : ret2[a] = ret[a],
         NEW k \in DOMAIN list
  PROVE  GoodDevice(list[k], ret2)
<1>1. GoodDevice(list[k], ret)
  BY DEF DevicesOK
<1>2. \A n \in DOMAIN list[k].bdevs : list[k].bdevs[n] # b /\ list[k].bdevs[n] \in Bdevs
  BY NotYetIsNew, DeviceFields
<1>3. \A n \in DOMAIN list[k].bdevs : ret2[list[k].bdevs[n]] = ret[list[k].bdevs[n]]
  BY <1>2
<1> QED BY <1>1, <1>3 DEF GoodDevice

(* A refused bdev joins no device.                                         *)
LEMMA RefusedKeepsDevices ==
  ASSUME NEW list \in Seq(Device), NEW ret \in [Bdevs -> Outcome], DevicesOK(list, ret),
         NEW b \in Bdevs, ret[b] = "not_yet",
         NEW ret2 \in [Bdevs -> Outcome], ret2[b] = "failed", \A a \in Bdevs \ {b} : ret2[a] = ret[a]
  PROVE  DevicesOK(list, ret2)
<1>1. \A k \in DOMAIN list : GoodDevice(list[k], ret2)
  BY GoodDeviceKept
<1>2. \A a \in Bdevs : ret2[a] = "ok" => ret[a] = "ok"
  OBVIOUS
<1> QED BY <1>1, <1>2 DEF DevicesOK

(* A device just constructed, r what was returned.                         *)
Fresh(d, b, r) ==
  /\ d \in Device /\ d.uuid = Uuid[b]
  /\ DOMAIN d.bdevs = {1} /\ d.bdevs[1] = b /\ d.bdevs # <<>>
  /\ r = "ok" \/ (r = "failed" /\ d.freed)

(* So are the two ump_bdev_construct can leave.                            *)
LEMMA NewDevicesAreFresh ==
  ASSUME NEW b \in Bdevs
  PROVE  Fresh(NewDevice(b, FALSE), b, "ok") /\ Fresh(NewDevice(b, TRUE), b, "failed")
<1>1. <<b>> \in Seq(Bdevs) /\ DOMAIN <<b>> = {1} /\ <<b>>[1] = b /\ <<b>> # <<>>
  OBVIOUS
<1>2. ASSUME NEW f \in BOOLEAN, NEW d, d = [uuid |-> Uuid[b], bdevs |-> <<b>>, freed |-> f]
      PROVE  /\ d \in Device /\ d.uuid = Uuid[b] /\ d.freed = f
             /\ DOMAIN d.bdevs = {1} /\ d.bdevs[1] = b /\ d.bdevs # <<>>
  BY <1>1, <1>2 DEF Device
<1>3. Fresh(NewDevice(b, FALSE), b, "ok")
  BY <1>2 DEF Fresh, NewDevice
<1>4. Fresh(NewDevice(b, TRUE), b, "failed")
  BY <1>2 DEF Fresh, NewDevice
<1> QED BY <1>3, <1>4

(* A device constructed for a bdev whose uuid has none.                    *)
LEMMA ConstructedKeepsDevices ==
  ASSUME NEW list \in Seq(Device), NEW ret \in [Bdevs -> Outcome], DevicesOK(list, ret),
         NEW b \in Bdevs, ret[b] = "not_yet",
         \A k \in DOMAIN list : list[k].uuid # Uuid[b],
         NEW ret2 \in [Bdevs -> Outcome], \A a \in Bdevs \ {b} : ret2[a] = ret[a],
         NEW d, Fresh(d, b, ret2[b])
  PROVE  /\ DevicesOK(Append(list, d), ret2) /\ Append(list, d) \in Seq(Device)
         /\ \A k \in DOMAIN list : /\ k \in DOMAIN Append(list, d)
                                   /\ Append(list, d)[k] = list[k]
<1> DEFINE n == Len(list)
           list2 == Append(list, d)
<1>1. /\ d \in Device /\ d.uuid = Uuid[b]
      /\ DOMAIN d.bdevs = {1} /\ d.bdevs[1] = b /\ d.bdevs # <<>>
      /\ ret2[b] = "ok" \/ (ret2[b] = "failed" /\ d.freed)
  BY DEF Fresh
<1>2. /\ n \in Nat /\ DOMAIN list = 1 .. n
      /\ list2 \in Seq(Device) /\ DOMAIN list2 = 1 .. n + 1
      /\ list2[n + 1] = d /\ \A k \in 1 .. n : list2[k] = list[k]
  BY <1>1, AppendProperties, LenProperties
<1> HIDE DEF n, list2
<1>3. \A k \in 1 .. n + 1 : k \in 1 .. n \/ k = n + 1
  BY <1>2
<1>4. n + 1 \in 1 .. n + 1 /\ 1 .. n \subseteq 1 .. n + 1
  BY <1>2
<1>5. \A k, l \in DOMAIN list2 : list2[k].uuid = list2[l].uuid => k = l
  <2>1. \A k, l \in 1 .. n : list[k].uuid = list[l].uuid => k = l
    BY <1>2 DEF DevicesOK
  <2> QED BY <1>2, <1>1, <1>3, <2>1
<1>6. \A k \in DOMAIN list2 : GoodDevice(list2[k], ret2)
  <2>1. \A k \in 1 .. n : GoodDevice(list[k], ret2)
    BY <1>2, GoodDeviceKept
  <2>2. GoodDevice(d, ret2)
    BY <1>1 DEF GoodDevice
  <2> QED BY <1>2, <1>3, <2>1, <2>2
<1>7. ASSUME NEW a \in Bdevs, ret2[a] = "ok"
      PROVE  \E k \in DOMAIN list2 : \E m \in DOMAIN list2[k].bdevs : list2[k].bdevs[m] = a
  <2>1. CASE a = b
    BY <1>1, <1>2, <1>4, <2>1
  <2>2. CASE a # b
    <3>1. ret[a] = "ok"
      BY <1>7, <2>2
    <3>2. PICK k \in DOMAIN list : \E m \in DOMAIN list[k].bdevs : list[k].bdevs[m] = a
      BY <3>1 DEF DevicesOK
    <3> QED BY <1>2, <1>4, <3>2
  <2> QED BY <2>1, <2>2
<1>8. DevicesOK(list2, ret2)
  BY <1>5, <1>6, <1>7 DEF DevicesOK
<1> QED BY <1>2, <1>4, <1>8 DEF list2

(* A bdev that joins the device of its uuid.                               *)
LEMMA JoiningKeepsDevices ==
  ASSUME NEW list \in Seq(Device), NEW ret \in [Bdevs -> Outcome], DevicesOK(list, ret),
         NEW b \in Bdevs, ret[b] = "not_yet",
         NEW k \in DOMAIN list, list[k].uuid = Uuid[b],
         NEW ret2 \in [Bdevs -> Outcome], ret2[b] = "ok", \A a \in Bdevs \ {b} : ret2[a] = ret[a],
         NEW list2, Joined(list, k, b, list2)
  PROVE  DevicesOK(list2, ret2)
<1> USE DEF Joined
<1> DEFINE old == list[k].bdevs
           new == list2[k].bdevs
<1>1. old \in Seq(Bdevs) /\ Len(old) \in Nat /\ DOMAIN old = 1 .. Len(old)
  BY DeviceFields
<1>2. new = Append(old, b)
  OBVIOUS
<1> HIDE DEF old, new
<1>3. /\ new # <<>> /\ DOMAIN new = 1 .. Len(old) + 1 /\ new[Len(old) + 1] = b
      /\ \A n \in 1 .. Len(old) : new[n] = old[n]
  <2>1. /\ new \in Seq(Bdevs) /\ Len(new) = Len(old) + 1 /\ new[Len(old) + 1] = b
        /\ new # <<>> /\ \A n \in 1 .. Len(old) : new[n] = old[n]
    BY <1>1, <1>2, AppendProperties
  <2>2. DOMAIN new = 1 .. Len(new)
    BY <2>1, LenProperties
  <2> QED BY <2>1, <2>2
<1>4. /\ \A n \in 1 .. Len(old) + 1 : n \in 1 .. Len(old) \/ n = Len(old) + 1
      /\ 1 .. Len(old) \subseteq 1 .. Len(old) + 1
      /\ Len(old) + 1 \in 1 .. Len(old) + 1
  BY <1>1, OneMore
<1>5. \A n \in 1 .. Len(old) : old[n] # b
  BY <1>1, NotYetIsNew DEF old
<1>6. GoodDevice(list[k], ret2)
  BY GoodDeviceKept
<1>7. \A i, l \in DOMAIN list2 : list2[i].uuid = list2[l].uuid => i = l
  <2>1. \A i, l \in DOMAIN list : list[i].uuid = list[l].uuid => i = l
    BY DEF DevicesOK
  <2>2. \A i \in DOMAIN list : list2[i].uuid = list[i].uuid
    OBVIOUS
  <2> QED BY <2>1, <2>2
<1>8. ASSUME NEW l \in DOMAIN list2
      PROVE  GoodDevice(list2[l], ret2)
  <2>1. CASE l # k
    <3>1. list2[l] = list[l] /\ l \in DOMAIN list
      BY <2>1
    <3> QED BY <3>1, GoodDeviceKept
  <2>2. CASE l = k
    <3>1. \A n \in 1 .. Len(old) :
            /\ Uuid[old[n]] = Uuid[b]
            /\ ret2[old[n]] = "ok" \/ (ret2[old[n]] = "failed" /\ list[k].freed)
      BY <1>1, <1>6 DEF GoodDevice, old
    <3>2. \A m, n \in 1 .. Len(old) : old[m] = old[n] => m = n
      BY <1>1, <1>6 DEF GoodDevice, old
    <3>3. \A n \in DOMAIN new :
            /\ Uuid[new[n]] = Uuid[b]
            /\ ret2[new[n]] = "ok" \/ (ret2[new[n]] = "failed" /\ list2[k].freed)
      BY <1>3, <1>4, <3>1
    <3>4. \A m, n \in DOMAIN new : new[m] = new[n] => m = n
      BY <1>3, <1>4, <1>5, <3>2
    <3> QED BY <1>3, <2>2, <3>3, <3>4 DEF GoodDevice, new
  <2> QED BY <2>1, <2>2
<1>9. ASSUME NEW a \in Bdevs, ret2[a] = "ok"
      PROVE  \E i \in DOMAIN list2 : \E m \in DOMAIN list2[i].bdevs : list2[i].bdevs[m] = a
  <2>1. CASE a = b
    BY <1>3, <1>4, <2>1 DEF new
  <2>2. CASE a # b
    <3>1. ret[a] = "ok"
      BY <1>9, <2>2
    <3>2. PICK i \in DOMAIN list : \E m \in DOMAIN list[i].bdevs : list[i].bdevs[m] = a
      BY <3>1 DEF DevicesOK
    <3>3. CASE i = k
      <4>1. PICK m \in 1 .. Len(old) : old[m] = a
        BY <1>1, <3>2, <3>3 DEF old
      <4>2. m \in DOMAIN new /\ new[m] = a
        BY <1>3, <1>4, <4>1
      <4> QED BY <4>2 DEF new
    <3>4. CASE i # k
      BY <3>2, <3>4
    <3> QED BY <3>3, <3>4
  <2> QED BY <2>1, <2>2
<1> QED BY <1>7, <1>8, <1>9 DEF DevicesOK

-----------------------------------------------------------------------------
(* Channels.                                                               *)

(* Positions of a list one longer.                                         *)
LEMMA Appended ==
  ASSUME NEW S, NEW s \in Seq(S), NEW e \in S
  PROVE  /\ Append(s, e) \in Seq(S) /\ Append(s, e) # <<>> /\ Len(Append(s, e)) = Len(s) + 1
         /\ Len(s) \in Nat /\ DOMAIN s = 1 .. Len(s)
         /\ DOMAIN Append(s, e) = 1 .. Len(s) + 1
         /\ Append(s, e)[Len(s) + 1] = e /\ \A n \in DOMAIN s : Append(s, e)[n] = s[n]
         /\ \A n \in DOMAIN Append(s, e) : n \in DOMAIN s \/ n = Len(s) + 1
         /\ DOMAIN s \subseteq DOMAIN Append(s, e) /\ Len(s) + 1 \in DOMAIN Append(s, e)
         /\ \A n \in DOMAIN s : n < Len(s) + 1
<1>1. Len(s) \in Nat /\ DOMAIN s = 1 .. Len(s)
  BY LenProperties
<1>2. /\ Append(s, e) \in Seq(S) /\ Append(s, e) # <<>> /\ Len(Append(s, e)) = Len(s) + 1
      /\ Append(s, e)[Len(s) + 1] = e /\ \A n \in 1 .. Len(s) : Append(s, e)[n] = s[n]
  BY AppendProperties
<1>3. DOMAIN Append(s, e) = 1 .. Len(s) + 1
  BY <1>2, LenProperties
<1>4. \A n \in 1 .. Len(s) : n < Len(s) + 1
  BY <1>1
<1> QED BY <1>1, <1>2, <1>3, <1>4, OneMore

(* The paths of a channel stay in order when the device gains a bdev.      *)
LEMMA GoodPathsKept ==
  ASSUME NEW ch \in Channel, NEW old \in Seq(Bdevs), GoodPaths(ch, old),
         NEW b \in Bdevs, \A n \in DOMAIN old : old[n] # b
  PROVE  GoodPaths(ch, Append(old, b))
<1> DEFINE new == Append(old, b)
           p == Len(old)
<1>1. /\ DOMAIN new = 1 .. p + 1 /\ new[p + 1] = b /\ \A n \in DOMAIN old : new[n] = old[n]
      /\ \A n \in DOMAIN new : n \in DOMAIN old \/ n = p + 1
      /\ DOMAIN old \subseteq DOMAIN new
  BY Appended
<1> HIDE DEF new, p
<1>2. \A j \in DOMAIN ch.iopaths : \E n \in DOMAIN new : new[n] = ch.iopaths[j].bdev
  BY <1>1 DEF GoodPaths
<1>3. \A j \in DOMAIN ch.iopaths : ch.iopaths[j].bdev # b
  BY DEF GoodPaths
<1>4. \A j, l \in DOMAIN ch.iopaths, m, n \in DOMAIN new :
        (j < l /\ new[m] = ch.iopaths[j].bdev /\ new[n] = ch.iopaths[l].bdev) => m < n
  <2> SUFFICES ASSUME NEW j \in DOMAIN ch.iopaths, NEW l \in DOMAIN ch.iopaths,
                      NEW m \in DOMAIN new, NEW n \in DOMAIN new,
                      j < l, new[m] = ch.iopaths[j].bdev, new[n] = ch.iopaths[l].bdev
               PROVE  m < n
    OBVIOUS
  <2>1. m \in DOMAIN old /\ n \in DOMAIN old
    BY <1>1, <1>3
  <2>2. old[m] = ch.iopaths[j].bdev /\ old[n] = ch.iopaths[l].bdev
    BY <1>1, <2>1
  <2> QED BY <2>1, <2>2 DEF GoodPaths
<1>5. GoodPaths(ch, new)
  BY <1>2, <1>4 DEF GoodPaths
<1> QED BY <1>5 DEF new

(* So are those of the channel that gets its path.                         *)
LEMMA GoodPathsExtended ==
  ASSUME NEW ch \in Channel, NEW old \in Seq(Bdevs), GoodPaths(ch, old),
         NEW b \in Bdevs, \A n \in DOMAIN old : old[n] # b,
         NEW o \in {AppThread, NullChannel}
  PROVE  /\ GoodPaths(Extend(ch, b, o), Append(old, b))
         /\ Len(ch.iopaths) < Cardinality(Bdevs)
<1> DEFINE new == Append(old, b)
           p == Len(old)
           e == Extend(ch, b, o)
           path == [bdev |-> b, owner |-> o, id |-> ch.max_id]
           q == Len(ch.iopaths)
<1>1. /\ new \in Seq(Bdevs)
      /\ DOMAIN new = 1 .. p + 1 /\ new[p + 1] = b /\ \A n \in DOMAIN old : new[n] = old[n]
      /\ \A n \in DOMAIN new : n \in DOMAIN old \/ n = p + 1
      /\ DOMAIN old \subseteq DOMAIN new /\ p + 1 \in DOMAIN new
      /\ \A n \in DOMAIN old : n < p + 1
  BY Appended
<1>2. /\ ch.iopaths \in Seq(IoPath) /\ ch.max_id \in Nat
      /\ o \in Threads \cup {NullChannel}
  BY ChannelFields, ThreadsAssumption
<1>3. /\ e \in Channel /\ e.thread = ch.thread
      /\ e.max_id = ch.max_id + 1 /\ e.iopaths = Append(ch.iopaths, path)
  BY <1>2, ExtendProperties
<1>4. path \in IoPath /\ path.bdev = b /\ path.owner = o /\ path.id = ch.max_id
  BY <1>2 DEF IoPath
<1> HIDE DEF e, path
<1>5. /\ e.iopaths # <<>> /\ Len(e.iopaths) = q + 1 /\ q \in Nat /\ DOMAIN ch.iopaths = 1 .. q
      /\ e.iopaths[q + 1] = path
      /\ \A j \in DOMAIN ch.iopaths : e.iopaths[j] = ch.iopaths[j]
      /\ \A j \in DOMAIN e.iopaths : j \in DOMAIN ch.iopaths \/ j = q + 1
      /\ \A j \in DOMAIN ch.iopaths : j < q + 1
      /\ DOMAIN e.iopaths = 1 .. q + 1
  BY <1>2, <1>3, <1>4, Appended
<1>6. GoodPaths(ch, new)
  BY GoodPathsKept
<1> HIDE DEF new, p, q
<1>7. ch.max_id = q
  BY DEF GoodPaths, q
<1>8. \A j \in DOMAIN e.iopaths : \E n \in DOMAIN new : new[n] = e.iopaths[j].bdev
  BY <1>1, <1>4, <1>5, <1>6 DEF GoodPaths
<1>9. \A j \in DOMAIN e.iopaths : /\ e.iopaths[j].id = j - 1
                                  /\ e.iopaths[j].owner \in {e.thread, AppThread, NullChannel}
  <2>1. \A j \in DOMAIN ch.iopaths :
          /\ ch.iopaths[j].id = j - 1
          /\ ch.iopaths[j].owner \in {ch.thread, AppThread, NullChannel}
    BY <1>6 DEF GoodPaths
  <2>2. path.id = (q + 1) - 1 /\ path.owner \in {e.thread, AppThread, NullChannel}
    BY <1>4, <1>5, <1>7
  <2> QED BY <1>3, <1>5, <2>1, <2>2
<1>10. \A j, l \in DOMAIN e.iopaths, m, n \in DOMAIN new :
         (j < l /\ new[m] = e.iopaths[j].bdev /\ new[n] = e.iopaths[l].bdev) => m < n
  <2> SUFFICES ASSUME NEW j \in DOMAIN e.iopaths, NEW l \in DOMAIN e.iopaths,
                      NEW m \in DOMAIN new, NEW n \in DOMAIN new,
                      j < l, new[m] = e.iopaths[j].bdev, new[n] = e.iopaths[l].bdev
               PROVE  m < n
    OBVIOUS
  <2>1. j \in DOMAIN ch.iopaths
    <3>1. j \in 1 .. q + 1 /\ l \in 1 .. q + 1 /\ j < l => j \in 1 .. q
      BY <1>5
    <3> QED BY <1>5, <3>1
  <2>2. new[m] = ch.iopaths[j].bdev
    BY <1>5, <2>1
  <2>3. CASE l \in DOMAIN ch.iopaths
    BY <1>5, <1>6, <2>1, <2>2, <2>3 DEF GoodPaths
  <2>4. CASE l = q + 1
    <3>1. new[n] = b
      BY <1>4, <1>5, <2>4
    <3>2. n = p + 1
      BY <1>1, <3>1
    <3>3. new[m] # b
      BY <2>1, <2>2 DEF GoodPaths
    <3>4. m \in DOMAIN old
      BY <1>1, <3>3
    <3> QED BY <1>1, <3>2, <3>4
  <2> QED BY <1>5, <2>3, <2>4
<1>11. GoodPaths(e, new)
  BY <1>3, <1>5, <1>7, <1>8, <1>9, <1>10 DEF GoodPaths
<1>12. q + 1 <= Cardinality(Bdevs)
  BY <1>1, <1>3, <1>5, <1>11, PathsAreDistinct
<1>13. Cardinality(Bdevs) \in Nat
  BY BdevsAssumption, FS_CardinalityType
<1> QED BY <1>5, <1>11, <1>12, <1>13 DEF new, e, q

(* A channel with one path per bdev of a list of distinct bdevs, in order. *)
LEMMA OnePathEach ==
  ASSUME NEW bdevs \in Seq(Bdevs), bdevs # <<>>,
         \A m, n \in DOMAIN bdevs : bdevs[m] = bdevs[n] => m = n,
         NEW ch \in Channel, Len(ch.iopaths) = Len(bdevs), ch.max_id = Len(bdevs),
         \A j \in 1 .. Len(bdevs) : /\ ch.iopaths[j].bdev = bdevs[j]
                                    /\ ch.iopaths[j].owner = ch.thread
                                    /\ ch.iopaths[j].id = j - 1
  PROVE  /\ GoodPaths(ch, bdevs)
         /\ \A b \in Bdevs, s \in Threads :
              PathsHolding(ch, b, s) # {} <=> s = ch.thread /\ b \in ToSet(bdevs)
<1> DEFINE p == Len(bdevs)
<1>1. p \in Nat /\ DOMAIN bdevs = 1 .. p /\ p # 0
  BY LenProperties, EmptySeq
<1>2. DOMAIN ch.iopaths = 1 .. p /\ ch.iopaths # <<>>
  <2>1. Len(ch.iopaths) # 0 /\ ch.iopaths \in Seq(IoPath)
    BY <1>1, ChannelFields
  <2> QED BY <2>1, LenProperties, EmptySeq
<1> HIDE DEF p
<1>3. \A j \in 1 .. p : /\ ch.iopaths[j].bdev = bdevs[j] /\ ch.iopaths[j].owner = ch.thread
                        /\ ch.iopaths[j].id = j - 1
  BY DEF p
<1>4. \A j, l \in 1 .. p, m, n \in 1 .. p :
        (j < l /\ bdevs[m] = ch.iopaths[j].bdev /\ bdevs[n] = ch.iopaths[l].bdev) => m < n
  BY <1>1, <1>3
<1>5. \A j \in 1 .. p : \E n \in 1 .. p : bdevs[n] = ch.iopaths[j].bdev
  BY <1>3
<1>6. ch.max_id = Len(ch.iopaths)
  OBVIOUS
<1>7. GoodPaths(ch, bdevs)
  BY <1>1, <1>2, <1>3, <1>4, <1>5, <1>6 DEF GoodPaths
<1>8. ASSUME NEW b \in Bdevs, NEW s \in Threads
      PROVE  PathsHolding(ch, b, s) # {} <=> s = ch.thread /\ b \in ToSet(bdevs)
  <2>1. PathsHolding(ch, b, s) = {j \in 1 .. p : bdevs[j] = b /\ ch.thread = s}
    BY <1>2, <1>3 DEF PathsHolding
  <2>2. b \in ToSet(bdevs) <=> \E j \in 1 .. p : bdevs[j] = b
    BY <1>1 DEF ToSet
  <2> QED BY <2>1, <2>2
<1> QED BY <1>7, <1>8

(* A channel as its creation leaves it.                                    *)
Opened(ch, k, t, bdevs) ==
  /\ ch \in Channel /\ ch.device = k /\ ch.thread = t /\ ~ch.freed
  /\ GoodPaths(ch, bdevs)
  /\ \A b \in Bdevs, s \in Threads :
       PathsHolding(ch, b, s) # {} <=> s = t /\ b \in ToSet(bdevs)

(* A channel is created with a path and a reference for each bdev of its   *)
(* device.                                                                 *)
LEMMA FullChannel ==
  ASSUME TypeOK, NEW k \in DOMAIN ump_bdev_list, NEW t \in Threads,
         ump_bdev_list[k].bdevs # <<>>,
         \A m, n \in DOMAIN ump_bdev_list[k].bdevs :
           ump_bdev_list[k].bdevs[m] = ump_bdev_list[k].bdevs[n] => m = n
  PROVE  Opened(NewChannel(k, t, Len(ump_bdev_list[k].bdevs), FALSE), k, t, ump_bdev_list[k].bdevs)
<1> DEFINE bdevs == ump_bdev_list[k].bdevs
           ch == NewChannel(k, t, Len(bdevs), FALSE)
<1> DEFINE p == Len(bdevs)
           paths == [j \in 1 .. p |-> [bdev |-> bdevs[j], owner |-> t, id |-> j - 1]]
<1>1. /\ p \in Nat /\ DOMAIN bdevs = 1 .. p /\ \A j \in 1 .. p : bdevs[j] \in Bdevs
      /\ bdevs \in Seq(Bdevs) /\ k \in Nat \ {0}
  BY DeviceFields DEF TypeOK
<1>2. /\ ch.iopaths = paths /\ ch.device = k /\ ch.thread = t /\ ch.freed = FALSE
      /\ ch.max_id = p
      /\ ch = [device |-> k, thread |-> t, max_id |-> p, freed |-> FALSE, iopaths |-> paths]
  BY DEF NewChannel
<1>3. /\ bdevs # <<>> /\ \A m, n \in DOMAIN bdevs : bdevs[m] = bdevs[n] => m = n
  OBVIOUS
<1> HIDE DEF ch, p, bdevs
<1>4. \A j \in 1 .. p : [bdev |-> bdevs[j], owner |-> t, id |-> j - 1] \in IoPath
  BY <1>1 DEF IoPath
<1>5. /\ paths \in [1 .. p -> IoPath]
      /\ \A j \in 1 .. p : /\ paths[j].bdev = bdevs[j] /\ paths[j].owner = t
                           /\ paths[j].id = j - 1
  BY <1>4
<1> HIDE DEF paths
<1>6. paths \in Seq(IoPath) /\ Len(paths) = p
  <2>1. paths \in Seq(IoPath)
    BY <1>1, <1>5, SeqDef
  <2> QED BY <1>1, <1>5, <2>1, LenProperties
<1>7. ch \in Channel
  BY <1>1, <1>2, <1>6 DEF Channel
<1>8. \A j \in 1 .. p : /\ ch.iopaths[j].bdev = bdevs[j] /\ ch.iopaths[j].owner = ch.thread
                        /\ ch.iopaths[j].id = j - 1
  BY <1>2, <1>5
<1>9. /\ Len(ch.iopaths) = Len(bdevs) /\ ch.max_id = Len(bdevs)
      /\ \A j \in 1 .. Len(bdevs) : /\ ch.iopaths[j].bdev = bdevs[j]
                                    /\ ch.iopaths[j].owner = ch.thread
                                    /\ ch.iopaths[j].id = j - 1
  BY <1>2, <1>6, <1>8 DEF p
<1>10. /\ GoodPaths(ch, bdevs)
      /\ \A b \in Bdevs, s \in Threads :
           PathsHolding(ch, b, s) # {} <=> s = ch.thread /\ b \in ToSet(bdevs)
  BY <1>1, <1>7, <1>9, <1>3, OnePathEach
<1>11. ch.device = k /\ ch.thread = t /\ ~ch.freed
  BY <1>2
<1>12. Opened(ch, k, t, bdevs)
  BY <1>7, <1>10, <1>11 DEF Opened
<1> QED BY <1>12 DEF ch, bdevs

(* One whose creation failed has no paths.                                 *)
LEMMA FreedChannel ==
  ASSUME NEW k \in Nat \ {0}, NEW t \in Threads, NEW n \in Nat
  PROVE  /\ NewChannel(k, t, n, TRUE) \in Channel
         /\ NewChannel(k, t, n, TRUE).freed
         /\ NewChannel(k, t, n, TRUE).iopaths = <<>>
<1>1. NewChannel(k, t, n, TRUE).freed /\ NewChannel(k, t, n, TRUE).iopaths = <<>>
  BY DEF NewChannel
<1>2. \A paths \in Seq(IoPath) :
        [device |-> k, thread |-> t, max_id |-> n, freed |-> TRUE, iopaths |-> paths] \in Channel
  BY DEF Channel
<1>3. <<>> \in Seq(IoPath)
  BY EmptySeq
<1>4. NewChannel(k, t, n, TRUE)
        = [device |-> k, thread |-> t, max_id |-> n, freed |-> TRUE, iopaths |-> <<>>]
  BY DEF NewChannel
<1>5. NewChannel(k, t, n, TRUE) \in Channel
  BY <1>2, <1>3, <1>4, Zenon
<1> QED BY <1>1, <1>5

(* The device of a channel's path is the one of the path's uuid.           *)
LEMMA PathsHaveUuid ==
  ASSUME TypeOK, DevicesInv, ChannelsInv, NEW c \in Live,
         NEW j \in DOMAIN g_ump_bdev_channels[c].iopaths
  PROVE  LET ch == g_ump_bdev_channels[c]
         IN /\ ch.device \in DOMAIN ump_bdev_list
            /\ Uuid[ch.iopaths[j].bdev] = ump_bdev_list[ch.device].uuid
            /\ GetUmpBdev(Uuid[ch.iopaths[j].bdev]) = ch.device
<1> DEFINE ch == g_ump_bdev_channels[c]
           u == Uuid[ch.iopaths[j].bdev]
<1>1. ch.device \in DOMAIN ump_bdev_list /\ GoodPaths(ch, ump_bdev_list[ch.device].bdevs)
  BY DEF ChannelsInv, ChannelsOK, GoodChannel, Live
<1>2. PICK n \in DOMAIN ump_bdev_list[ch.device].bdevs :
        ump_bdev_list[ch.device].bdevs[n] = ch.iopaths[j].bdev
  BY <1>1 DEF GoodPaths
<1>3. u = ump_bdev_list[ch.device].uuid
  BY <1>1, <1>2 DEF DevicesInv, DevicesOK, GoodDevice
<1> HIDE DEF u
<1>4. GetUmpBdev(u) = ch.device
  BY <1>1, <1>3, GetUmpBdevFinds DEF DevicesInv, DevicesOK
<1> QED BY <1>1, <1>3, <1>4 DEF u

(* The channel found for a late path is one of the device the path joins,  *)
(* and one is found if the device has any.                                 *)
LEMMA ChannelToExtendFinds ==
  ASSUME TypeOK, DevicesInv, ChannelsInv, NEW u, NEW c, c = ChannelToExtend(u)
  PROVE  /\ c # 0 => c \in Live /\ g_ump_bdev_channels[c].device = GetUmpBdev(u)
         /\ \A d \in Live : (GetUmpBdev(u) # 0 /\ g_ump_bdev_channels[d].device = GetUmpBdev(u))
                              => c # 0
<1> DEFINE S == {d \in DOMAIN g_ump_bdev_channels : HasPathOf(g_ump_bdev_channels[d], u)}
<1>1. S \in SUBSET (Nat \ {0})
  BY LenProperties DEF TypeOK
<1>2. c = FirstOf(S)
  BY DEF ChannelToExtend
<1> HIDE DEF S
<1>3. /\ c # 0 => c \in S
      /\ S # {} => c # 0
  BY <1>1, <1>2, FirstOfMember
<1>4. ASSUME c \in S
      PROVE  c \in Live /\ g_ump_bdev_channels[c].device = GetUmpBdev(u)
  <2>1. c \in DOMAIN g_ump_bdev_channels
    BY <1>4 DEF S
  <2>2. PICK j \in DOMAIN g_ump_bdev_channels[c].iopaths :
          Uuid[g_ump_bdev_channels[c].iopaths[j].bdev] = u
    BY <1>4 DEF S, HasPathOf
  <2>3. g_ump_bdev_channels[c].iopaths # <<>>
    BY <2>2
  <2>4. c \in Live
    BY <2>1, <2>3 DEF Live, ChannelsInv, ChannelsOK, GoodChannel
  <2> QED BY <2>2, <2>4, PathsHaveUuid
<1>5. ASSUME NEW d \in Live, GetUmpBdev(u) # 0, g_ump_bdev_channels[d].device = GetUmpBdev(u)
      PROVE  d \in S
  <2> DEFINE ch == g_ump_bdev_channels[d]
  <2>1. ch.iopaths # <<>> /\ d \in DOMAIN g_ump_bdev_channels
    BY DEF Live, ChannelsInv, ChannelsOK, GoodChannel, GoodPaths
  <2>2. ch \in Channel
    BY <2>1, ElementOfSeq, LenProperties DEF TypeOK
  <2>3. 1 \in DOMAIN ch.iopaths
    <3>1. Len(ch.iopaths) # 0
      BY <2>1, <2>2, ChannelFields, EmptySeq
    <3> QED BY <2>2, <3>1, ChannelFields
  <2>4. Uuid[ch.iopaths[1].bdev] = ump_bdev_list[ch.device].uuid
    BY <2>3, PathsHaveUuid
  <2>5. ump_bdev_list[ch.device].uuid = u
    BY <1>5, GetUmpBdevFinds
  <2> QED BY <2>1, <2>3, <2>4, <2>5 DEF S, HasPathOf
<1> QED BY <1>3, <1>4, <1>5

(* A channel stays good when devices are only added to the list.           *)
LEMMA GoodChannelKept ==
  ASSUME NEW ch, NEW list, GoodChannel(ch, list),
         NEW list2, \A k \in DOMAIN list : k \in DOMAIN list2 /\ list2[k] = list[k]
  PROVE  GoodChannel(ch, list2)
<1>1. CASE ch.freed
  BY <1>1 DEF GoodChannel
<1>2. CASE ~ch.freed
  <2>1. ch.device \in DOMAIN list /\ GoodPaths(ch, list[ch.device].bdevs)
    BY <1>2 DEF GoodChannel
  <2> QED BY <1>2, <2>1 DEF GoodChannel
<1> QED BY <1>1, <1>2

(* It stays good when a bdev joins a device, its own or another.           *)
LEMMA GoodChannelAtJoin ==
  ASSUME NEW list \in Seq(Device), NEW k \in DOMAIN list, NEW b \in Bdevs,
         \A l \in DOMAIN list : \A n \in DOMAIN list[l].bdevs : list[l].bdevs[n] # b,
         NEW list2, Joined(list, k, b, list2),
         NEW ch \in Channel, GoodChannel(ch, list)
  PROVE  GoodChannel(ch, list2)
<1> USE DEF Joined
<1>1. CASE ch.freed
  BY <1>1 DEF GoodChannel
<1>2. CASE ~ch.freed
  <2>1. ch.device \in DOMAIN list /\ GoodPaths(ch, list[ch.device].bdevs)
    BY <1>2 DEF GoodChannel
  <2>2. GoodPaths(ch, list2[ch.device].bdevs)
    <3>1. CASE ch.device = k
      <4>1. GoodPaths(ch, Append(list[k].bdevs, b))
        BY <2>1, <3>1, DeviceFields, GoodPathsKept
      <4> QED BY <3>1, <4>1
    <3>2. CASE ch.device # k
      <4>1. list2[ch.device] = list[ch.device]
        BY <2>1, <3>2
      <4> QED BY <2>1, <4>1
    <3> QED BY <3>1, <3>2
  <2> QED BY <1>2, <2>1, <2>2 DEF GoodChannel
<1> QED BY <1>1, <1>2

(* The channels with the late path.                                        *)
Longer(chans, c, b, o) == [chans EXCEPT ![c] = Extend(@, b, o)]

(* A bdev that joins a device while a channel of the device gets its path. *)
LEMMA ChannelsAtJoin ==
  ASSUME NEW list \in Seq(Device), NEW k \in DOMAIN list, NEW b \in Bdevs,
         \A l \in DOMAIN list : \A n \in DOMAIN list[l].bdevs : list[l].bdevs[n] # b,
         NEW list2, Joined(list, k, b, list2),
         NEW chans \in Seq(Channel), ChannelsOK(chans, list), NEW c \in DOMAIN chans,
         ~chans[c].freed, chans[c].device = k, NEW o \in {AppThread, NullChannel}
  PROVE  /\ Longer(chans, c, b, o) \in Seq(Channel)
         /\ ChannelsOK(Longer(chans, c, b, o), list2)
         /\ Len(chans[c].iopaths) < Cardinality(Bdevs)
<1> DEFINE e == Extend(chans[c], b, o)
           longer == [chans EXCEPT ![c] = e]
<1>1. DOMAIN chans = 1 .. Len(chans) /\ \A d \in DOMAIN chans : chans[d] \in Channel
  BY LenProperties, ElementOfSeq
<1>2. o \in Threads \cup {NullChannel}
  BY ThreadsAssumption
<1>3. e \in Channel /\ e.device = k /\ e.freed = chans[c].freed
  BY <1>1, <1>2, ExtendProperties
<1>4. GoodPaths(chans[c], list[k].bdevs) /\ list[k].bdevs \in Seq(Bdevs)
  BY DeviceFields DEF ChannelsOK, GoodChannel
<1>5. /\ GoodPaths(e, Append(list[k].bdevs, b))
      /\ Len(chans[c].iopaths) < Cardinality(Bdevs)
  BY <1>1, <1>4, GoodPathsExtended
<1> HIDE DEF e
<1>6. GoodChannel(e, list2)
  BY <1>3, <1>5 DEF GoodChannel, Joined
<1>7. \A d \in DOMAIN chans : GoodChannel(chans[d], list2)
  BY <1>1, GoodChannelAtJoin DEF ChannelsOK
<1>8. /\ longer \in Seq(Channel) /\ Len(longer) = Len(chans)
      /\ \A d \in 1 .. Len(chans) : longer[d] = IF d = c THEN e ELSE chans[d]
  BY <1>1, <1>3, ExceptSeq
<1>9. DOMAIN longer = DOMAIN chans
  BY <1>1, <1>8, LenProperties
<1>10. longer = Longer(chans, c, b, o)
  BY DEF e, Longer
<1> HIDE DEF longer
<1>11. ChannelsOK(longer, list2)
  BY <1>1, <1>6, <1>7, <1>8, <1>9 DEF ChannelsOK
<1> QED BY <1>5, <1>8, <1>10, <1>11

-----------------------------------------------------------------------------
(* The steps of registration.                                              *)

(* What TypeOK says, for the lemmas above.                                 *)
LEMMA Types ==
  ASSUME TypeOK
  PROVE  /\ ump_bdev_list \in Seq(Device) /\ g_ump_bdev_channels \in Seq(Channel)
         /\ refs \in [Bdevs \X Threads -> Nat] /\ returned \in [Bdevs -> Outcome]
         /\ fails \in Nat /\ fails <= MaxFails
         /\ \A c \in DOMAIN g_ump_bdev_channels : g_ump_bdev_channels[c] \in Channel
<1>1. \A c \in DOMAIN g_ump_bdev_channels : g_ump_bdev_channels[c] \in Channel
  BY LenProperties, ElementOfSeq DEF TypeOK
<1> QED BY <1>1 DEF TypeOK

(* A failure counted stays within the bound.                               *)
LEMMA FailsInBound ==
  ASSUME TypeOK, MayFail
  PROVE  fails' \in 0 .. MaxFails
BY MaxFailsAssumption DEF TypeOK, MayFail

(* Nothing is registered at first.                                         *)
LEMMA InitInv == Init => Inv
<1> SUFFICES ASSUME Init PROVE Inv
  OBVIOUS
<1>1. TypeOK
  <2>1. <<>> \in Seq(Device) /\ <<>> \in Seq(Channel)
    BY EmptySeq
  <2>2. /\ refs \in [Bdevs \X Threads -> Nat]
        /\ returned \in [Bdevs -> {"not_yet", "ok", "failed"}]
        /\ fails \in 0 .. MaxFails /\ dead \in Causes
    BY MaxFailsAssumption DEF Init, Causes
  <2> QED BY <2>1, <2>2 DEF Init, TypeOK
<1>2. DOMAIN ump_bdev_list = {} /\ DOMAIN g_ump_bdev_channels = {}
  <2>1. \A S : DOMAIN <<>> = {}
    BY EmptySeq, LenProperties
  <2> QED BY <2>1 DEF Init
<1>3. DevicesInv /\ ChannelsInv
  BY <1>2 DEF Init, DevicesInv, DevicesOK, ChannelsInv, ChannelsOK
<1>4. RefsOK(g_ump_bdev_channels, refs)
  <2>1. \A b, t : Held(g_ump_bdev_channels, b, t) = {}
    BY <1>2 DEF Held
  <2>2. \A r \in Bdevs \X Threads : refs[r] = 0
    BY DEF Init
  <2> QED BY <2>1, <2>2, FS_EmptySet DEF RefsOK
<1> QED BY <1>1, <1>3, <1>4, ReferencesAreOK DEF Inv

(* Constructing a device, or failing to.                                   *)
LEMMA ConstructInv ==
  ASSUME Inv, NEW b \in Bdevs, returned[b] = "not_yet", Construct(b)
  PROVE  Inv'
<1>1. TypeOK /\ DevicesOK(ump_bdev_list, returned)
  BY DEF Inv, DevicesInv
<1>2. /\ ump_bdev_list \in Seq(Device) /\ returned \in [Bdevs -> Outcome]
      /\ fails \in 0 .. MaxFails
  BY <1>1, Types DEF TypeOK
<1>3. \A k \in DOMAIN ump_bdev_list : ump_bdev_list[k].uuid # Uuid[b]
  BY <1>1, GetUmpBdevFinds DEF Construct
<1>4. ASSUME NEW d, ump_bdev_list' = Append(ump_bdev_list, d),
             returned' \in [Bdevs -> Outcome], \A a \in Bdevs \ {b} : returned'[a] = returned[a],
             Fresh(d, b, returned'[b])
      PROVE  /\ DevicesOK(ump_bdev_list', returned') /\ ump_bdev_list' \in Seq(Device)
             /\ \A k \in DOMAIN ump_bdev_list : /\ k \in DOMAIN ump_bdev_list'
                                                /\ ump_bdev_list'[k] = ump_bdev_list[k]
  <2> DEFINE ret2 == returned'
  <2>1. /\ ret2 \in [Bdevs -> Outcome] /\ \A a \in Bdevs \ {b} : ret2[a] = returned[a]
        /\ Fresh(d, b, ret2[b])
    BY <1>4
  <2> HIDE DEF ret2
  <2>2. DevicesOK(Append(ump_bdev_list, d), ret2)
    BY <1>1, <1>2, <1>3, <2>1, ConstructedKeepsDevices
  <2>3. /\ Append(ump_bdev_list, d) \in Seq(Device)
        /\ \A k \in DOMAIN ump_bdev_list : /\ k \in DOMAIN Append(ump_bdev_list, d)
                                           /\ Append(ump_bdev_list, d)[k] = ump_bdev_list[k]
    BY <1>2, <2>1, Appended DEF Fresh
  <2> QED BY <1>4, <2>2, <2>3 DEF ret2
<1>5. /\ ump_bdev_list' \in Seq(Device) /\ DevicesOK(ump_bdev_list', returned')
      /\ returned' \in [Bdevs -> Outcome] /\ fails' \in 0 .. MaxFails
      /\ \A k \in DOMAIN ump_bdev_list : /\ k \in DOMAIN ump_bdev_list'
                                         /\ ump_bdev_list'[k] = ump_bdev_list[k]
  <2>1. CASE /\ ump_bdev_list' = Append(ump_bdev_list, NewDevice(b, FALSE))
             /\ returned' = [returned EXCEPT ![b] = "ok"]
             /\ UNCHANGED fails
    <3>1. /\ returned' \in [Bdevs -> Outcome] /\ returned'[b] = "ok"
          /\ \A a \in Bdevs \ {b} : returned'[a] = returned[a]
      BY <1>2, <2>1
    <3>2. fails' \in 0 .. MaxFails
      BY <1>2, <2>1
    <3> QED BY <1>4, <2>1, <3>1, <3>2, NewDevicesAreFresh
  <2>2. CASE /\ MayFail
             /\ ump_bdev_list' \in {ump_bdev_list, Append(ump_bdev_list, NewDevice(b, TRUE))}
             /\ returned' = [returned EXCEPT ![b] = "failed"]
    <3>1. /\ returned' \in [Bdevs -> Outcome] /\ returned'[b] = "failed"
          /\ \A a \in Bdevs \ {b} : returned'[a] = returned[a]
      BY <1>2, <2>2
    <3>2. fails' \in 0 .. MaxFails
      BY <1>1, <2>2, FailsInBound
    <3>3. CASE ump_bdev_list' = ump_bdev_list
      BY <1>1, <1>2, <3>1, <3>2, <3>3, RefusedKeepsDevices
    <3>4. CASE ump_bdev_list' = Append(ump_bdev_list, NewDevice(b, TRUE))
      BY <1>4, <3>1, <3>2, <3>4, NewDevicesAreFresh
    <3> QED BY <2>2, <3>3, <3>4
  <2> QED BY <2>1, <2>2 DEF Construct
<1>6. UNCHANGED <<g_ump_bdev_channels, refs, dead>>
  BY DEF Construct
<1>7. TypeOK'
  BY <1>1, <1>5, <1>6 DEF TypeOK
<1>8. ChannelsInv'
  BY <1>5, <1>6, GoodChannelKept DEF Inv, ChannelsInv, ChannelsOK
<1>9. ReferencesHeld'
  BY <1>6, ReferencesAreOK DEF Inv
<1> QED BY <1>5, <1>7, <1>8, <1>9 DEF Inv, DevicesInv

(* One count goes up.                                                      *)
LEMMA CountUp ==
  ASSUME NEW D, NEW f \in [D -> Nat], NEW r \in D
  PROVE  /\ [f EXCEPT ![r] = @ + 1] \in [D -> Nat]
         /\ \A x \in D : [f EXCEPT ![r] = @ + 1][x] = IF x = r THEN f[x] + 1 ELSE f[x]
OBVIOUS

(* A late path holds the reference taken for it, if one was taken.         *)
LEMMA RefsAtJoin ==
  ASSUME NEW chans \in Seq(Channel), NEW c \in DOMAIN chans, ~chans[c].freed,
         Len(chans[c].iopaths) < Cardinality(Bdevs),
         NEW counts \in [Bdevs \X Threads -> Nat], RefsOK(chans, counts), NEW b \in Bdevs
  PROVE  /\ RefsOK([chans EXCEPT ![c] = Extend(@, b, AppThread)],
                   [counts EXCEPT ![<<b, AppThread>>] = @ + 1])
         /\ RefsOK([chans EXCEPT ![c] = Extend(@, b, NullChannel)], counts)
<1> DEFINE longer(o) == [chans EXCEPT ![c] = Extend(@, b, o)]
           more == [counts EXCEPT ![<<b, AppThread>>] = @ + 1]
<1>1. \A o \in Threads \cup {NullChannel}, a \in Bdevs, t \in Threads :
        Cardinality(Held(longer(o), a, t))
          = Cardinality(Held(chans, a, t)) + (IF a = b /\ t = o THEN 1 ELSE 0)
  BY HeldAfterExtend
<1>2. \A a \in Bdevs, t \in Threads :
        more[<<a, t>>] = IF a = b /\ t = AppThread THEN counts[<<a, t>>] + 1 ELSE counts[<<a, t>>]
  <2> DEFINE D == Bdevs \X Threads
             r == <<b, AppThread>>
  <2>1. r \in D /\ counts \in [D -> Nat] /\ more = [counts EXCEPT ![r] = @ + 1]
    BY ThreadsAssumption
  <2>2. \A a \in Bdevs, t \in Threads : <<a, t>> \in D /\ (<<a, t>> = r <=> a = b /\ t = AppThread)
    OBVIOUS
  <2> HIDE DEF D, r, more
  <2>3. \A x \in D : more[x] = IF x = r THEN counts[x] + 1 ELSE counts[x]
    BY <2>1, CountUp
  <2> QED BY <2>2, <2>3
<1> HIDE DEF longer, more
<1>3. \A a \in Bdevs, t \in Threads : Cardinality(Held(chans, a, t)) \in Nat
  BY HeldFinite
<1>4. \A a \in Bdevs, t \in Threads : counts[<<a, t>>] \in Nat
  OBVIOUS
<1>5. AppThread \in Threads /\ \A t \in Threads : t # NullChannel
  BY ThreadsAssumption
<1>6. RefsOK(longer(AppThread), more)
  <2> SUFFICES ASSUME NEW a \in Bdevs, NEW t \in Threads
               PROVE  /\ Cardinality(Held(longer(AppThread), a, t)) <= more[<<a, t>>]
                      /\ t # AppThread => Cardinality(Held(longer(AppThread), a, t)) = more[<<a, t>>]
    BY DEF RefsOK
  <2> DEFINE x == Cardinality(Held(chans, a, t))
             y == Cardinality(Held(longer(AppThread), a, t))
  <2>1. y = x + (IF a = b /\ t = AppThread THEN 1 ELSE 0) /\ x \in Nat
    BY <1>1, <1>3, <1>5
  <2>2. x <= counts[<<a, t>>] /\ (t # AppThread => x = counts[<<a, t>>])
    BY DEF RefsOK
  <2> HIDE DEF x, y
  <2>3. y <= more[<<a, t>>] /\ (t # AppThread => y = more[<<a, t>>])
    BY <1>2, <1>4, <2>1, <2>2
  <2> QED BY <2>3 DEF y
<1>7. RefsOK(longer(NullChannel), counts)
  <2> SUFFICES ASSUME NEW a \in Bdevs, NEW t \in Threads
               PROVE  Cardinality(Held(longer(NullChannel), a, t)) = Cardinality(Held(chans, a, t))
    BY DEF RefsOK
  <2> DEFINE x == Cardinality(Held(chans, a, t))
             y == Cardinality(Held(longer(NullChannel), a, t))
  <2>1. y = x + (IF a = b /\ t = NullChannel THEN 1 ELSE 0) /\ x \in Nat
    BY <1>1, <1>3
  <2> HIDE DEF x, y
  <2>2. y = x
    BY <1>5, <2>1
  <2> QED BY <2>2 DEF x, y
<1> QED BY <1>6, <1>7 DEF longer, more

(* A bdev joins its device, or is refused.                                 *)
LEMMA AddBdevInv ==
  ASSUME Inv, NEW b \in Bdevs, returned[b] = "not_yet", AddBdev(b)
  PROVE  Inv'
<1> DEFINE k == GetUmpBdev(Uuid[b])
           c == ChannelToExtend(Uuid[b])
           ret2 == returned'
           list2 == ump_bdev_list'
<1>1. TypeOK /\ DevicesInv /\ ChannelsInv /\ DevicesOK(ump_bdev_list, returned)
  BY DEF Inv, DevicesInv
<1>2. /\ ump_bdev_list \in Seq(Device) /\ returned \in [Bdevs -> Outcome]
      /\ g_ump_bdev_channels \in Seq(Channel) /\ refs \in [Bdevs \X Threads -> Nat]
      /\ fails \in 0 .. MaxFails /\ dead \in Causes
  BY <1>1, Types DEF TypeOK
<1>3. k \in DOMAIN ump_bdev_list /\ ump_bdev_list[k].uuid = Uuid[b]
  BY <1>1, GetUmpBdevFinds DEF AddBdev
<1>4. RefsOK(g_ump_bdev_channels, refs)
  BY ReferencesAreOK DEF Inv
<1>5. c # 0 => /\ c \in DOMAIN g_ump_bdev_channels /\ ~g_ump_bdev_channels[c].freed
               /\ g_ump_bdev_channels[c].device = k
  BY <1>1, ChannelToExtendFinds DEF Live
<1>6. \A l \in DOMAIN ump_bdev_list : \A n \in DOMAIN ump_bdev_list[l].bdevs :
        ump_bdev_list[l].bdevs[n] # b
  BY <1>1, <1>2, NotYetIsNew
<1>7. CASE /\ ump_bdev_list' = [ump_bdev_list EXCEPT ![k].bdevs = Append(@, b)]
           /\ returned' = [returned EXCEPT ![b] = "ok"]
           /\ IF c = 0 THEN UNCHANGED <<g_ump_bdev_channels, refs, fails, dead>>
                       ELSE AddPath(b, c)
  <2>1. list2 \in Seq(Device) /\ Joined(ump_bdev_list, k, b, list2)
    BY <1>2, <1>3, <1>7, AppendBdev
  <2>2. /\ ret2 \in [Bdevs -> Outcome] /\ ret2[b] = "ok"
        /\ \A a \in Bdevs \ {b} : ret2[a] = returned[a]
    BY <1>2, <1>7
  <2> HIDE DEF k, c, ret2, list2
  <2>3. DevicesOK(list2, ret2)
    BY <1>1, <1>2, <1>3, <2>1, <2>2, JoiningKeepsDevices
  <2>4. DevicesInv'
    BY <2>3 DEF DevicesInv, list2, ret2
  <2>5. ASSUME UNCHANGED <<g_ump_bdev_channels, refs>>, fails' \in 0 .. MaxFails, dead' \in Causes
        PROVE  Inv'
    <3>1. ChannelsOK(g_ump_bdev_channels, list2)
      BY <1>1, <1>2, <1>3, <1>6, <2>1, Types, GoodChannelAtJoin DEF ChannelsInv, ChannelsOK
    <3>2. ChannelsInv'
      BY <2>5, <3>1 DEF ChannelsInv, list2
    <3>3. ReferencesHeld'
      BY <1>4, <2>5, ReferencesAreOK
    <3>4. TypeOK'
      BY <1>2, <2>1, <2>2, <2>5 DEF TypeOK, list2, ret2
    <3> QED BY <2>4, <3>2, <3>3, <3>4 DEF Inv
  <2>6. ASSUME NEW o \in {AppThread, NullChannel}, c # 0,
               g_ump_bdev_channels' = [g_ump_bdev_channels EXCEPT ![c] = Extend(@, b, o)],
               fails' \in 0 .. MaxFails, dead' = dead,
               \/ o = AppThread /\ refs' = [refs EXCEPT ![<<b, AppThread>>] = @ + 1]
               \/ o = NullChannel /\ refs' = refs
        PROVE  Inv'
    <3>2. /\ g_ump_bdev_channels' \in Seq(Channel) /\ ChannelsOK(g_ump_bdev_channels', list2)
          /\ Len(g_ump_bdev_channels[c].iopaths) < Cardinality(Bdevs)
      <4> DEFINE longer == Longer(g_ump_bdev_channels, c, b, o)
      <4>1. c \in DOMAIN g_ump_bdev_channels /\ ~g_ump_bdev_channels[c].freed
            /\ g_ump_bdev_channels[c].device = k
        BY <1>5, <2>6
      <4>2. /\ longer \in Seq(Channel) /\ ChannelsOK(longer, list2)
            /\ Len(g_ump_bdev_channels[c].iopaths) < Cardinality(Bdevs)
        BY <1>1, <1>2, <1>3, <1>6, <2>1, <4>1, ChannelsAtJoin DEF ChannelsInv
      <4>3. g_ump_bdev_channels' = longer
        BY <2>6 DEF Longer
      <4> QED BY <4>2, <4>3
    <3>3. ChannelsInv'
      BY <3>2 DEF ChannelsInv, list2
    <3>4. refs' \in [Bdevs \X Threads -> Nat] /\ RefsOK(g_ump_bdev_channels', refs')
      <4>1. /\ RefsOK([g_ump_bdev_channels EXCEPT ![c] = Extend(@, b, AppThread)],
                      [refs EXCEPT ![<<b, AppThread>>] = @ + 1])
            /\ RefsOK([g_ump_bdev_channels EXCEPT ![c] = Extend(@, b, NullChannel)], refs)
        BY <1>2, <1>4, <1>5, <2>6, <3>2, RefsAtJoin
      <4>2. [refs EXCEPT ![<<b, AppThread>>] = @ + 1] \in [Bdevs \X Threads -> Nat]
        BY <1>2, ThreadsAssumption, CountUp
      <4> QED BY <1>2, <2>6, <4>1, <4>2
    <3>5. ReferencesHeld'
      BY <3>4, ReferencesAreOK
    <3>6. TypeOK'
      BY <1>2, <2>1, <2>2, <2>6, <3>2, <3>4 DEF TypeOK, list2, ret2
    <3> QED BY <2>4, <3>3, <3>5, <3>6 DEF Inv
  <2>7. CASE c = 0
    BY <1>2, <1>7, <2>5, <2>7
  <2>8. CASE c # 0
    <3>1. AddPath(b, c)
      BY <1>7, <2>8
    <3>2. MayFail => fails' \in 0 .. MaxFails
      BY <1>1, FailsInBound
    <3>3. CASE /\ g_ump_bdev_channels'
                    = [g_ump_bdev_channels EXCEPT ![c] = Extend(@, b, AppThread)]
               /\ refs' = [refs EXCEPT ![<<b, AppThread>>] = @ + 1]
               /\ UNCHANGED <<fails, dead>>
      BY <1>2, <2>6, <2>8, <3>3
    <3>4. CASE /\ MayFail
               /\ g_ump_bdev_channels'
                    = [g_ump_bdev_channels EXCEPT ![c] = Extend(@, b, NullChannel)]
               /\ UNCHANGED <<refs, dead>>
      BY <2>6, <2>8, <3>2, <3>4
    <3>5. CASE MayFail /\ dead' = "null_iopath" /\ UNCHANGED <<g_ump_bdev_channels, refs>>
      BY <2>5, <3>2, <3>5 DEF Causes
    <3> QED BY <3>1, <3>3, <3>4, <3>5 DEF AddPath
  <2> QED BY <2>7, <2>8
<1>8. CASE /\ MayFail
           /\ returned' = [returned EXCEPT ![b] = "failed"]
           /\ UNCHANGED <<ump_bdev_list, g_ump_bdev_channels, refs, dead>>
  <2>1. /\ ret2 \in [Bdevs -> Outcome] /\ ret2[b] = "failed"
        /\ \A a \in Bdevs \ {b} : ret2[a] = returned[a]
    BY <1>2, <1>8
  <2> HIDE DEF k, c, ret2, list2
  <2>2. DevicesOK(ump_bdev_list, ret2)
    BY <1>1, <1>2, <2>1, RefusedKeepsDevices
  <2>3. DevicesInv' /\ ChannelsInv'
    BY <1>1, <1>8, <2>2 DEF DevicesInv, ChannelsInv, ret2
  <2>4. ReferencesHeld'
    BY <1>4, <1>8, ReferencesAreOK
  <2>5. TypeOK'
    BY <1>1, <1>2, <1>8, <2>1, FailsInBound DEF TypeOK, ret2
  <2> QED BY <2>3, <2>4, <2>5 DEF Inv
<1> QED BY <1>7, <1>8 DEF AddBdev

-----------------------------------------------------------------------------
(* The steps of channels.                                                  *)

(* A good channel appended leaves the channels good.                       *)
LEMMA ChannelsAppend ==
  ASSUME NEW list, NEW chans \in Seq(Channel), ChannelsOK(chans, list),
         NEW ch \in Channel, GoodChannel(ch, list)
  PROVE  Append(chans, ch) \in Seq(Channel) /\ ChannelsOK(Append(chans, ch), list)
<1> DEFINE more == Append(chans, ch)
<1>1. /\ more \in Seq(Channel) /\ more[Len(chans) + 1] = ch
      /\ \A d \in DOMAIN chans : more[d] = chans[d]
      /\ \A d \in DOMAIN more : d \in DOMAIN chans \/ d = Len(chans) + 1
  BY Appended
<1> HIDE DEF more
<1>2. ChannelsOK(more, list)
  BY <1>1 DEF ChannelsOK
<1> QED BY <1>1, <1>2 DEF more

(* A reference of t to the io_channel of each bdev of a list is taken.     *)
Taken(counts, t, bdevs, more) ==
  \A b \in Bdevs, s \in Threads :
    more[<<b, s>>] = IF s = t /\ b \in ToSet(bdevs)
                     THEN counts[<<b, s>>] + 1 ELSE counts[<<b, s>>]

(* The references taken for a channel are those its paths hold.            *)
LEMMA RefsAtCreate ==
  ASSUME NEW chans \in Seq(Channel), NEW k, NEW t,
         NEW bdevs \in Seq(Bdevs), NEW ch, Opened(ch, k, t, bdevs),
         NEW counts \in [Bdevs \X Threads -> Nat], RefsOK(chans, counts),
         NEW more, Taken(counts, t, bdevs, more)
  PROVE  RefsOK(Append(chans, ch), more)
<1>1. /\ ch \in Channel /\ ~ch.freed /\ GoodPaths(ch, bdevs)
      /\ \A b \in Bdevs, s \in Threads :
           PathsHolding(ch, b, s) # {} <=> s = t /\ b \in ToSet(bdevs)
  BY DEF Opened
<1>2. ASSUME NEW b \in Bdevs, NEW s \in Threads
      PROVE  /\ Cardinality(Held(Append(chans, ch), b, s)) <= more[<<b, s>>]
             /\ s # AppThread => Cardinality(Held(Append(chans, ch), b, s)) = more[<<b, s>>]
  <2> DEFINE x == Cardinality(Held(chans, b, s))
             y == Cardinality(Held(Append(chans, ch), b, s))
  <2>1. x \in Nat /\ counts[<<b, s>>] \in Nat
    BY HeldFinite
  <2>2. x <= counts[<<b, s>>] /\ (s # AppThread => x = counts[<<b, s>>])
    BY DEF RefsOK
  <2>3. CASE s = t /\ b \in ToSet(bdevs)
    <3>1. PICK j \in 1 .. Cardinality(Bdevs) : PathsHolding(ch, b, s) = {j}
      <4>1. PathsHolding(ch, b, s) # {}
        BY <1>1, <2>3
      <4> QED BY <1>1, <4>1, OnePathHolds
    <3>2. y = x + 1
      BY <1>1, <3>1, HeldAfterAppend
    <3>3. more[<<b, s>>] = counts[<<b, s>>] + 1
      BY <2>3 DEF Taken
    <3> HIDE DEF x, y
    <3>4. y <= more[<<b, s>>] /\ (s # AppThread => y = more[<<b, s>>])
      BY <2>1, <2>2, <3>2, <3>3
    <3> QED BY <3>4 DEF y
  <2>4. CASE ~(s = t /\ b \in ToSet(bdevs))
    <3>1. PathsHolding(ch, b, s) = {}
      BY <1>1, <2>4
    <3>2. y = x
      BY <1>1, <3>1, HeldAfterAppend
    <3>3. more[<<b, s>>] = counts[<<b, s>>]
      BY <2>4 DEF Taken
    <3> QED BY <2>2, <3>2, <3>3
  <2> QED BY <2>3, <2>4
<1> QED BY <1>2 DEF RefsOK

(* A thread's channel of a device is created.                              *)
LEMMA CreateChannelInv ==
  ASSUME Inv, NEW k \in DOMAIN ump_bdev_list, NEW t \in Threads, CreateChannel(k, t)
  PROVE  Inv'
<1> DEFINE bdevs == ump_bdev_list[k].bdevs
           ch == NewChannel(k, t, Len(bdevs), FALSE)
<1>1. /\ TypeOK /\ ChannelsOK(g_ump_bdev_channels, ump_bdev_list)
      /\ RefsOK(g_ump_bdev_channels, refs) /\ GoodDevice(ump_bdev_list[k], returned)
  BY ReferencesAreOK DEF Inv, ChannelsInv, DevicesInv, DevicesOK
<1>2. /\ g_ump_bdev_channels \in Seq(Channel) /\ refs \in [Bdevs \X Threads -> Nat]
      /\ bdevs \in Seq(Bdevs)
  BY <1>1, Types, DeviceFields
<1>3. /\ g_ump_bdev_channels' = Append(g_ump_bdev_channels, ch)
      /\ refs' = [r \in DOMAIN refs |->
                    IF r[2] = t /\ r[1] \in ToSet(bdevs) THEN refs[r] + 1 ELSE refs[r]]
      /\ UNCHANGED <<ump_bdev_list, returned, fails, dead>>
  BY DEF CreateChannel
<1>4. bdevs # <<>> /\ \A m, n \in DOMAIN bdevs : bdevs[m] = bdevs[n] => m = n
  BY <1>1 DEF GoodDevice
<1>5. Opened(ch, k, t, bdevs)
  BY <1>1, <1>4, FullChannel
<1> HIDE DEF ch
<1>6. ch \in Channel /\ GoodChannel(ch, ump_bdev_list)
  BY <1>5 DEF GoodChannel, Opened
<1> HIDE DEF bdevs
<1>7. /\ g_ump_bdev_channels' \in Seq(Channel)
      /\ ChannelsOK(g_ump_bdev_channels', ump_bdev_list)
  BY <1>1, <1>2, <1>3, <1>5, <1>6, ChannelsAppend
<1>8. refs' \in [Bdevs \X Threads -> Nat] /\ Taken(refs, t, bdevs, refs')
  BY <1>2, <1>3 DEF Taken
<1>9. RefsOK(Append(g_ump_bdev_channels, ch), refs')
  BY <1>1, <1>2, <1>5, <1>8, RefsAtCreate
<1>10. ReferencesHeld'
  BY <1>3, <1>9, ReferencesAreOK
<1>11. TypeOK'
  BY <1>1, <1>3, <1>7, <1>8 DEF TypeOK
<1>12. DevicesInv' /\ ChannelsInv'
  BY <1>3, <1>7 DEF Inv, DevicesInv, ChannelsInv
<1> QED BY <1>10, <1>11, <1>12 DEF Inv

(* Its creation fails.                                                     *)
LEMMA CreateChannelFailsInv ==
  ASSUME Inv, NEW k \in DOMAIN ump_bdev_list, NEW t \in Threads, CreateChannelFails(k, t)
  PROVE  Inv'
<1>1. /\ TypeOK /\ ChannelsOK(g_ump_bdev_channels, ump_bdev_list)
      /\ RefsOK(g_ump_bdev_channels, refs)
  BY ReferencesAreOK DEF Inv, ChannelsInv
<1>2. /\ g_ump_bdev_channels \in Seq(Channel) /\ k \in Nat \ {0}
      /\ Len(ump_bdev_list[k].bdevs) \in Nat
  BY <1>1, Types, DeviceFields
<1>3. PICK n \in 0 .. Len(ump_bdev_list[k].bdevs) - 1 :
        g_ump_bdev_channels' = Append(g_ump_bdev_channels, NewChannel(k, t, n, TRUE))
  BY DEF CreateChannelFails
<1> DEFINE ch == NewChannel(k, t, n, TRUE)
<1>4. ch \in Channel /\ ch.freed /\ ch.iopaths = <<>>
  <2>1. n \in Nat
    BY <1>2
  <2> QED BY <1>2, <2>1, FreedChannel
<1>5. g_ump_bdev_channels' = Append(g_ump_bdev_channels, ch)
  BY <1>3
<1> HIDE DEF ch
<1>6. GoodChannel(ch, ump_bdev_list)
  BY <1>4 DEF GoodChannel
<1>7. /\ g_ump_bdev_channels' \in Seq(Channel)
      /\ ChannelsOK(g_ump_bdev_channels', ump_bdev_list)
  BY <1>1, <1>2, <1>4, <1>5, <1>6, ChannelsAppend
<1>8. RefsOK(g_ump_bdev_channels', refs)
  <2>1. \A b \in Bdevs, s \in Threads :
          Cardinality(Held(Append(g_ump_bdev_channels, ch), b, s))
            = Cardinality(Held(g_ump_bdev_channels, b, s))
    BY <1>2, <1>4, HeldAfterAppend
  <2> QED BY <1>1, <1>5, <2>1 DEF RefsOK
<1>9. /\ UNCHANGED <<ump_bdev_list, refs, returned, dead>>
      /\ fails' \in 0 .. MaxFails
  BY <1>1, FailsInBound DEF CreateChannelFails
<1>10. ReferencesHeld'
  BY <1>8, <1>9, ReferencesAreOK
<1>11. TypeOK'
  BY <1>1, <1>7, <1>9 DEF TypeOK
<1>12. DevicesInv' /\ ChannelsInv'
  BY <1>7, <1>9 DEF Inv, DevicesInv, ChannelsInv
<1> QED BY <1>10, <1>11, <1>12 DEF Inv

(* Destroying a channel releases its thread's references and no others,    *)
(* and no other thread but the registering one had any through it.         *)
LEMMA RefsAtDestroy ==
  ASSUME TypeOK, NEW c \in Live,
         GoodChannel(g_ump_bdev_channels[c], ump_bdev_list),
         RefsOK(g_ump_bdev_channels, refs)
  PROVE  /\ Release(g_ump_bdev_channels[c]) \in [Bdevs \X Threads -> Nat]
         /\ RefsOK(RemoveAt(g_ump_bdev_channels, c), Release(g_ump_bdev_channels[c]))
<1> DEFINE ch == g_ump_bdev_channels[c]
           left == RemoveAt(g_ump_bdev_channels, c)
           less == Release(ch)
           held(b, t) == Cardinality(Held(g_ump_bdev_channels, b, t))
           rest(b, t) == Cardinality(Held(left, b, t))
           own(b, t) == Cardinality(PathsHolding(ch, b, t))
<1>1. /\ g_ump_bdev_channels \in Seq(Channel) /\ c \in DOMAIN g_ump_bdev_channels /\ ~ch.freed
      /\ ch \in Channel /\ refs \in [Bdevs \X Threads -> Nat] /\ ump_bdev_list \in Seq(Device)
  BY Types DEF Live
<1>2. PICK bdevs \in Seq(Bdevs) : GoodPaths(ch, bdevs)
  BY <1>1, DeviceFields DEF GoodChannel
<1>3. left \in Seq(Channel)
  BY <1>1, RemoveAtProperties
<1>4. ASSUME NEW b \in Bdevs, NEW t \in Threads
      PROVE  /\ rest(b, t) = held(b, t) - own(b, t)
             /\ own(b, t) \in Nat /\ held(b, t) \in Nat /\ rest(b, t) \in Nat
             /\ held(b, t) <= refs[<<b, t>>] /\ refs[<<b, t>>] \in Nat
             /\ t # AppThread => held(b, t) = refs[<<b, t>>]
             /\ (t # AppThread /\ t # ch.thread) => own(b, t) = 0
  <2>1. PathsHolding(ch, b, t) \subseteq 1 .. Cardinality(Bdevs) /\ own(b, t) \in Nat
    BY <1>1, <1>2, OnePathHolds
  <2>2. rest(b, t) = held(b, t) - own(b, t)
    BY <1>1, <2>1, HeldAfterRemove
  <2>3. held(b, t) \in Nat /\ rest(b, t) \in Nat
    BY <1>1, <1>3, HeldFinite
  <2>4. refs[<<b, t>>] \in Nat
    BY <1>1
  <2>5. held(b, t) <= refs[<<b, t>>] /\ (t # AppThread => held(b, t) = refs[<<b, t>>])
    BY DEF RefsOK
  <2>6. ASSUME t # AppThread, t # ch.thread
        PROVE  own(b, t) = 0
    <3>1. \A j \in DOMAIN ch.iopaths : ch.iopaths[j].owner # t
      BY <1>2, <2>6, ThreadsAssumption DEF GoodPaths
    <3>2. PathsHolding(ch, b, t) = {}
      BY <3>1 DEF PathsHolding
    <3> QED BY <3>2, FS_EmptySet
  <2> QED BY <2>1, <2>2, <2>3, <2>4, <2>5, <2>6
<1> HIDE DEF held, rest, own, left
<1>5. ASSUME NEW b \in Bdevs, NEW t \in Threads
      PROVE  less[<<b, t>>] = IF t = ch.thread THEN refs[<<b, t>>] - own(b, t) ELSE refs[<<b, t>>]
  BY <1>1 DEF Release, own
<1>6. DOMAIN less = Bdevs \X Threads /\ less = [r \in Bdevs \X Threads |-> less[r]]
  BY <1>1 DEF Release
<1> HIDE DEF ch, less
<1>7. \A b \in Bdevs, t \in Threads : less[<<b, t>>] \in Nat
  <2> TAKE b \in Bdevs, t \in Threads
  <2>1. less[<<b, t>>] = IF t = ch.thread THEN refs[<<b, t>>] - own(b, t) ELSE refs[<<b, t>>]
    BY <1>5
  <2> QED BY <1>4, <2>1
<1>8. less \in [Bdevs \X Threads -> Nat]
  <2>1. \A r \in Bdevs \X Threads : r = <<r[1], r[2]>> /\ r[1] \in Bdevs /\ r[2] \in Threads
    OBVIOUS
  <2>2. \A r \in Bdevs \X Threads : less[r] \in Nat
    BY <1>7, <2>1
  <2> DEFINE D == Bdevs \X Threads
  <2> HIDE DEF D
  <2>3. less = [r \in D |-> less[r]] /\ \A r \in D : less[r] \in Nat
    BY <1>6, <2>2 DEF D
  <2>4. less \in [D -> Nat]
    BY <2>3
  <2> QED BY <2>4 DEF D
<1>9. ASSUME NEW b \in Bdevs, NEW t \in Threads
      PROVE  rest(b, t) <= less[<<b, t>>] /\ (t # AppThread => rest(b, t) = less[<<b, t>>])
  BY <1>4, <1>5
<1>10. RefsOK(left, less)
  BY <1>9 DEF RefsOK, rest
<1> QED BY <1>8, <1>10 DEF left, less, ch

(* A thread's channel of a device is destroyed.                            *)
LEMMA DestroyChannelInv ==
  ASSUME Inv, NEW c \in DOMAIN g_ump_bdev_channels, DestroyChannel(c)
  PROVE  Inv'
<1> DEFINE ch == g_ump_bdev_channels[c]
           left == RemoveAt(g_ump_bdev_channels, c)
<1>1. /\ TypeOK /\ ChannelsOK(g_ump_bdev_channels, ump_bdev_list)
      /\ RefsOK(g_ump_bdev_channels, refs)
  BY ReferencesAreOK DEF Inv, ChannelsInv
<1>2. UNCHANGED <<ump_bdev_list, returned, fails>> /\ DevicesInv'
  BY DEF DestroyChannel, Inv, DevicesInv
<1>3. CASE dead' = "null_io_channel" /\ UNCHANGED <<g_ump_bdev_channels, refs>>
  <2>1. ReferencesHeld'
    BY <1>1, <1>3, ReferencesAreOK
  <2>2. TypeOK' /\ ChannelsInv'
    BY <1>1, <1>2, <1>3 DEF TypeOK, Causes, ChannelsInv
  <2> QED BY <1>2, <2>1, <2>2 DEF Inv
<1>4. CASE g_ump_bdev_channels' = left /\ refs' = Release(ch) /\ UNCHANGED dead
  <2>1. g_ump_bdev_channels \in Seq(Channel)
    BY <1>1, Types
  <2>2. left \in Seq(Channel) /\ \A d \in DOMAIN left : \E e \in DOMAIN g_ump_bdev_channels :
                                   left[d] = g_ump_bdev_channels[e]
    BY <2>1, RemoveAtProperties
  <2>3. c \in Live /\ GoodChannel(ch, ump_bdev_list)
    BY <1>1 DEF DestroyChannel, Live, ChannelsOK
  <2>4. Release(ch) \in [Bdevs \X Threads -> Nat] /\ RefsOK(left, Release(ch))
    BY <1>1, <2>3, RefsAtDestroy
  <2> HIDE DEF left, ch
  <2>5. ChannelsOK(left, ump_bdev_list)
    BY <1>1, <2>2 DEF ChannelsOK
  <2>6. ReferencesHeld'
    BY <1>4, <2>4, ReferencesAreOK
  <2>7. TypeOK' /\ ChannelsInv'
    BY <1>1, <1>2, <1>4, <2>2, <2>4, <2>5 DEF TypeOK, ChannelsInv
  <2> QED BY <1>2, <2>6, <2>7 DEF Inv
<1> QED BY <1>3, <1>4 DEF DestroyChannel

-----------------------------------------------------------------------------
(* The theorems.                                                           *)

(* Nothing happens, or the process dies of a freed element.                *)
LEMMA DeadInv ==
  ASSUME Inv, UNCHANGED <<ump_bdev_list, g_ump_bdev_channels, refs, returned, fails>>,
         dead' \in Causes
  PROVE  Inv'
<1>1. ReferencesHeld'
  BY ReferencesAreOK DEF Inv
<1>2. TypeOK' /\ DevicesInv' /\ ChannelsInv'
  BY DEF Inv, TypeOK, DevicesInv, ChannelsInv
<1> QED BY <1>1, <1>2 DEF Inv

(* Every step preserves the invariant.                                     *)
LEMMA NextInv ==
  ASSUME Inv, [Next]_vars
  PROVE  Inv'
<1>1. ASSUME NEW b \in Bdevs, Register(b)
      PROVE  Inv'
  BY <1>1, ConstructInv, AddBdevInv DEF Register
<1>2. ASSUME NEW b \in Bdevs, FindInFreedDevice(b)
      PROVE  Inv'
  BY <1>2, DeadInv DEF FindInFreedDevice, Causes
<1>3. ASSUME NEW k \in DOMAIN ump_bdev_list, NEW t \in Threads,
             CreateChannel(k, t) \/ CreateChannelFails(k, t)
      PROVE  Inv'
  BY <1>3, CreateChannelInv, CreateChannelFailsInv
<1>4. ASSUME NEW c \in DOMAIN g_ump_bdev_channels, DestroyChannel(c)
      PROVE  Inv'
  BY <1>4, DestroyChannelInv
<1>5. CASE CountInFreedChannel
  BY <1>5, DeadInv DEF CountInFreedChannel, Causes
<1>6. CASE UNCHANGED vars
  BY <1>6, DeadInv DEF vars, Inv, TypeOK
<1> QED BY <1>1, <1>2, <1>3, <1>4, <1>5, <1>6 DEF Next

(* The inductive invariant holds throughout: what registration and the     *)
(* making of channels keep true of sump.c's lists.                         *)
THEOREM Invariance == Spec => []Inv
<1>1. Inv /\ [Next]_vars => Inv'
  BY NextInv
<1> QED BY InitInv, <1>1, PTL DEF Spec

(* The variables have their types.                                         *)
THEOREM TypeCorrect == Spec => []TypeOK
<1>1. Inv => TypeOK
  BY DEF Inv
<1> QED BY Invariance, <1>1, PTL

(* Paths and the reference counts of the io_channels agree                 *)
(* (ump_bdev_channel_create_cb, ump_bdev_add_bdev,                         *)
(* ump_bdev_channel_clear_all_iopath): whatever registrations and channels *)
(* came and went, and whatever failed, each path's io_channel is held for  *)
(* it, and no thread but the registering one holds any other.              *)
THEOREM ReferencesAreHeld == Spec => []ReferencesHeld
<1>1. Inv => ReferencesHeld
  BY DEF Inv
<1> QED BY Invariance, <1>1, PTL

(* A bdev is nowhere but where its uuid and its registration put it.       *)
LEMMA MembershipsOK ==
  ASSUME TypeOK, DevicesInv, NEW b \in Bdevs, NEW m \in Memberships(b)
  PROVE  /\ m[1] \in DOMAIN ump_bdev_list /\ m[2] \in DOMAIN ump_bdev_list[m[1]].bdevs
         /\ ump_bdev_list[m[1]].bdevs[m[2]] = b /\ m = <<m[1], m[2]>>
         /\ ump_bdev_list[m[1]].uuid = Uuid[b]
         /\ returned[b] = "ok" \/ (returned[b] = "failed" /\ ump_bdev_list[m[1]].freed)
<1>1. /\ m[1] \in DOMAIN ump_bdev_list /\ m[2] \in 1 .. Cardinality(Bdevs)
      /\ m[2] <= Len(ump_bdev_list[m[1]].bdevs)
      /\ ump_bdev_list[m[1]].bdevs[m[2]] = b /\ m = <<m[1], m[2]>>
  BY DEF Memberships
<1>2. m[2] \in DOMAIN ump_bdev_list[m[1]].bdevs
  <2>1. /\ DOMAIN ump_bdev_list[m[1]].bdevs = 1 .. Len(ump_bdev_list[m[1]].bdevs)
        /\ Len(ump_bdev_list[m[1]].bdevs) \in Nat
    BY <1>1, Types, DeviceFields
  <2>2. Cardinality(Bdevs) \in Nat
    BY BdevsAssumption, FS_CardinalityType
  <2> QED BY <1>1, <2>1, <2>2
<1>3. GoodDevice(ump_bdev_list[m[1]], returned)
  BY <1>1 DEF DevicesInv, DevicesOK
<1> QED BY <1>1, <1>2, <1>3 DEF GoodDevice

(* A registered bdev is in one place.                                      *)
LEMMA OneMembership ==
  ASSUME TypeOK, DevicesInv, NEW b \in Bdevs, returned[b] = "ok"
  PROVE  Cardinality(Memberships(b)) = 1
<1>1. PICK k \in DOMAIN ump_bdev_list :
        \E n \in DOMAIN ump_bdev_list[k].bdevs : ump_bdev_list[k].bdevs[n] = b
  BY DEF DevicesInv, DevicesOK
<1> DEFINE bdevs == ump_bdev_list[k].bdevs
<1>2. PICK n \in DOMAIN bdevs : bdevs[n] = b
  BY <1>1
<1>3. GoodDevice(ump_bdev_list[k], returned)
  BY DEF DevicesInv, DevicesOK
<1>4. bdevs \in Seq(Bdevs) /\ DOMAIN bdevs = 1 .. Len(bdevs) /\ Len(bdevs) \in Nat
      /\ \A i \in DOMAIN bdevs : bdevs[i] \in Bdevs
  BY Types, DeviceFields
<1>5. Len(bdevs) <= Cardinality(Bdevs) /\ Cardinality(Bdevs) \in Nat
  <2> DEFINE f == [i \in 1 .. Len(bdevs) |-> bdevs[i]]
  <2>1. f \in [1 .. Len(bdevs) -> Bdevs]
    BY <1>4
  <2>2. \A i, j \in 1 .. Len(bdevs) : f[i] = f[j] => i = j
    BY <1>3, <1>4 DEF GoodDevice
  <2> HIDE DEF f
  <2> QED BY <1>4, <2>1, <2>2, DistinctAreFew, BdevsAssumption, FS_CardinalityType
<1>6. <<k, n>> \in Memberships(b)
  <2>1. n \in 1 .. Cardinality(Bdevs) /\ n <= Len(bdevs)
    BY <1>4, <1>5
  <2> QED BY <1>2, <2>1 DEF Memberships
<1>7. \A m \in Memberships(b) : m = <<k, n>>
  <2> TAKE m \in Memberships(b)
  <2>1. /\ m[1] \in DOMAIN ump_bdev_list /\ m[2] \in DOMAIN ump_bdev_list[m[1]].bdevs
        /\ ump_bdev_list[m[1]].bdevs[m[2]] = b /\ m = <<m[1], m[2]>>
        /\ ump_bdev_list[m[1]].uuid = Uuid[b]
    BY MembershipsOK
  <2>2. ump_bdev_list[k].uuid = Uuid[b]
    BY <1>2, <1>3 DEF GoodDevice
  <2>3. m[1] = k
    BY <2>1, <2>2 DEF DevicesInv, DevicesOK
  <2>4. m[2] = n
    BY <1>2, <1>3, <2>1, <2>3 DEF GoodDevice
  <2> QED BY <2>1, <2>3, <2>4
<1>8. Memberships(b) = {<<k, n>>}
  BY <1>6, <1>7
<1> QED BY <1>8, FS_Singleton

(* One device per uuid, and each registered bdev once in its device; one   *)
(* whose registration failed is in none that is still there                *)
(* (spdk_bdev_register, get_ump_bdev_by_uuid, ump_bdev_construct).         *)
THEOREM BdevsRegisteredOnce == Spec => []RegisteredOnce
<1>1. Inv => RegisteredOnce
  <2> SUFFICES ASSUME Inv PROVE RegisteredOnce
    OBVIOUS
  <2>1. TypeOK /\ DevicesInv
    BY DEF Inv
  <2>2. \A k, l \in DOMAIN ump_bdev_list :
          ump_bdev_list[k].uuid = ump_bdev_list[l].uuid => k = l
    BY <2>1 DEF DevicesInv, DevicesOK
  <2>3. ASSUME NEW b \in Bdevs
        PROVE  /\ \A m \in Memberships(b) : ump_bdev_list[m[1]].uuid = Uuid[b]
               /\ IF returned[b] = "ok" THEN Cardinality(Memberships(b)) = 1
                  ELSE \A m \in Memberships(b) : ump_bdev_list[m[1]].freed
    BY <2>1, MembershipsOK, OneMembership
  <2> QED BY <2>2, <2>3 DEF RegisteredOnce
<1> QED BY Invariance, <1>1, PTL

(* The paths of a channel are its device's bdevs in the order in which     *)
(* they were registered, numbered from 0, whether the channel was made     *)
(* before or after them.                                                   *)
THEOREM PathsAreInOrder == Spec => []PathsInOrder
<1>1. Inv => PathsInOrder
  <2> SUFFICES ASSUME Inv PROVE PathsInOrder
    OBVIOUS
  <2>1. ASSUME NEW c \in Live
        PROVE  GoodPaths(g_ump_bdev_channels[c],
                         ump_bdev_list[g_ump_bdev_channels[c].device].bdevs)
    BY DEF Inv, ChannelsInv, ChannelsOK, GoodChannel, Live
  <2> QED BY <2>1 DEF PathsInOrder, GoodPaths
<1> QED BY Invariance, <1>1, PTL

(* A channel that gets a late path ends in it; the others stay.            *)
LEMMA ExtendedAlone ==
  ASSUME TypeOK, NEW c \in DOMAIN g_ump_bdev_channels, NEW b \in Bdevs,
         NEW o \in {AppThread, NullChannel},
         g_ump_bdev_channels' = [g_ump_bdev_channels EXCEPT ![c] = Extend(@, b, o)]
  PROVE  /\ b = Last(g_ump_bdev_channels'[c].iopaths).bdev
         /\ \A d \in DOMAIN g_ump_bdev_channels \ {c} :
              g_ump_bdev_channels'[d] = g_ump_bdev_channels[d]
<1> DEFINE ch == g_ump_bdev_channels[c]
           path == [bdev |-> b, owner |-> o, id |-> ch.max_id]
<1>1. ch \in Channel /\ ch.iopaths \in Seq(IoPath) /\ ch.max_id \in Nat
      /\ o \in Threads \cup {NullChannel} /\ g_ump_bdev_channels \in Seq(Channel)
  BY Types, ChannelFields, ThreadsAssumption
<1>2. Extend(ch, b, o).iopaths = Append(ch.iopaths, path)
  BY <1>1, ExtendProperties
<1>3. path \in IoPath /\ path.bdev = b
  BY <1>1 DEF IoPath
<1>4. /\ g_ump_bdev_channels'[c] = Extend(ch, b, o)
      /\ \A d \in DOMAIN g_ump_bdev_channels \ {c} :
           g_ump_bdev_channels'[d] = g_ump_bdev_channels[d]
  OBVIOUS
<1> HIDE DEF path, ch
<1>5. Last(Append(ch.iopaths, path)) = path
  BY <1>1, <1>3, Appended DEF Last
<1> QED BY <1>2, <1>3, <1>4, <1>5

(* A bdev that joins a device in use becomes a path of one of its channels *)
(* at once, and of no other channel (ump_bdev_add_bdev).                   *)
THEOREM LatePathsAreUsed == Spec => LatePathIsUsed
<1> DEFINE Used(b) ==
      LET k == GetUmpBdev(Uuid[b])
      IN (Joins(b) /\ \E c \in Live : g_ump_bdev_channels[c].device = k)
           => \E c \in Live : /\ g_ump_bdev_channels[c].device = k
                              /\ b = Last(g_ump_bdev_channels'[c].iopaths).bdev
                              /\ \A d \in Live \ {c} :
                                   g_ump_bdev_channels'[d] = g_ump_bdev_channels[d]
<1>1. ASSUME Inv, Next, NEW b \in Bdevs, Joins(b), NEW e \in Live,
             g_ump_bdev_channels[e].device = GetUmpBdev(Uuid[b])
      PROVE  \E c \in Live : /\ g_ump_bdev_channels[c].device = GetUmpBdev(Uuid[b])
                             /\ b = Last(g_ump_bdev_channels'[c].iopaths).bdev
                             /\ \A d \in Live \ {c} :
                                  g_ump_bdev_channels'[d] = g_ump_bdev_channels[d]
  <2> DEFINE c == ChannelToExtend(Uuid[b])
  <2>1. TypeOK /\ DevicesInv /\ ChannelsInv /\ returned \in [Bdevs -> Outcome]
    <3>1. TypeOK /\ DevicesInv /\ ChannelsInv
      BY <1>1 DEF Inv
    <3> QED BY <3>1, Types
  <2>2. GetUmpBdev(Uuid[b]) # 0
    <3>1. g_ump_bdev_channels[e].device \in DOMAIN ump_bdev_list
      BY <2>1 DEF ChannelsInv, ChannelsOK, GoodChannel, Live
    <3>2. g_ump_bdev_channels[e].device # 0
      BY <2>1, <3>1, Types, DeviceFields
    <3> QED BY <1>1, <3>2
  <2>3. c # 0 /\ c \in Live /\ g_ump_bdev_channels[c].device = GetUmpBdev(Uuid[b])
    BY <1>1, <2>1, <2>2, ChannelToExtendFinds
  <2> HIDE DEF c
  <2>4. returned[b] = "not_yet" /\ returned'[b] = "ok" /\ dead' = "no"
    BY <1>1 DEF Joins
  <2>5. PICK a \in Bdevs : Register(a)
    BY <1>1, <2>4 DEF Next, FindInFreedDevice, CreateChannel, CreateChannelFails,
                      DestroyChannel, CountInFreedChannel
  <2>6. a = b
    BY <2>1, <2>4, <2>5 DEF Register, Construct, AddBdev
  <2>7. AddPath(b, c)
    BY <2>1, <2>2, <2>3, <2>4, <2>5, <2>6 DEF Register, Construct, AddBdev, c
  <2>8. PICK o \in {AppThread, NullChannel} :
          g_ump_bdev_channels' = [g_ump_bdev_channels EXCEPT ![c] = Extend(@, b, o)]
    BY <2>4, <2>7 DEF AddPath
  <2>9. /\ b = Last(g_ump_bdev_channels'[c].iopaths).bdev
        /\ \A d \in DOMAIN g_ump_bdev_channels \ {c} :
             g_ump_bdev_channels'[d] = g_ump_bdev_channels[d]
    BY <2>1, <2>3, <2>8, ExtendedAlone DEF Live
  <2> QED BY <2>3, <2>9 DEF Live
<1>2. ASSUME UNCHANGED vars, NEW b \in Bdevs
      PROVE  ~Joins(b)
  BY <1>2 DEF Joins, vars
<1>3. Inv /\ [Next]_vars => [\A b \in Bdevs : Used(b)]_vars
  BY <1>1, <1>2
<1>4. LatePathIsUsed <=> [][\A b \in Bdevs : Used(b)]_vars
  BY DEF LatePathIsUsed
<1> HIDE DEF Used
<1> QED BY Invariance, <1>3, <1>4, PTL DEF Spec
=============================================================================
