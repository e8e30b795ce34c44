----------------------------- MODULE SumpRegister -----------------------------
(***************************************************************************)
(* Registration and channels: spdk_bdev_register is hijacked and gathers   *)
(* the bdevs of one uuid under one multipath device; each SPDK thread that *)
(* uses a device has a channel of it, whose iopath_list is what SumpSelect *)
(* and SumpIo work on.                                                     *)
(*                                                                         *)
(* All SPDK threads share one reactor, so handlers do not interrupt each   *)
(* other.  Bdevs are registered by the application's thread.  The io_      *)
(* channels of the backing bdevs are SPDK's: counted references, taken by  *)
(* a thread and released only by the same one.                             *)
(***************************************************************************)
EXTENDS Integers, FiniteSets, Sequences, SequencesExt

CONSTANTS
  Bdevs,        \* backing bdevs
  Uuid,         \* the uuid of every bdev
  Threads,      \* SPDK threads
  AppThread,    \* the one that registers bdevs
  NullChannel,  \* owner of the io_channel get_io_channel could not return
  MaxFails      \* bound: failed allocations and failed SPDK calls

ASSUME ThreadsAssumption == AppThread \in Threads /\ NullChannel \notin Threads
ASSUME MaxFailsAssumption == MaxFails \in Nat
ASSUME BdevsAssumption == IsFiniteSet(Bdevs)

VARIABLES
  ump_bdev_list,        \* ump_bdev_manage.ump_bdev_list, see Device
  g_ump_bdev_channels,  \* all channels, oldest first, see Channel
  refs,                 \* references to the io_channel of a bdev on a thread
  returned,             \* what spdk_bdev_register returned for each bdev
  fails,                \* failures used up
  dead                  \* "no", or what the process died of

vars == <<ump_bdev_list, g_ump_bdev_channels, refs, returned, fails, dead>>

Causes == {"no", "null_iopath", "null_io_channel", "freed_device", "freed_channel"}

(* A multipath device; freed when its memory was but the list has it still.*)
Device == [uuid : {Uuid[b] : b \in Bdevs}, bdevs : Seq(Bdevs), freed : BOOLEAN]

IoPath == [bdev : Bdevs, owner : Threads \cup {NullChannel}, id : Nat]

(* A channel of the device at position "device" of ump_bdev_list.          *)
Channel == [device : Nat \ {0}, thread : Threads, iopaths : Seq(IoPath),
            max_id : Nat, freed : BOOLEAN]

Init ==
  /\ ump_bdev_list = <<>>
  /\ g_ump_bdev_channels = <<>>
  /\ refs = [r \in Bdevs \X Threads |-> 0]
  /\ returned = [b \in Bdevs |-> "not_yet"]
  /\ fails = 0
  /\ dead = "no"

Running == dead = "no"

MayFail == fails < MaxFails /\ fails' = fails + 1

-----------------------------------------------------------------------------
(* spdk_bdev_register.                                                     *)

FirstOf(S) == IF S = {} THEN 0 ELSE CHOOSE k \in S : \A l \in S : k <= l

(* Only the first device is compared.                                      *)
GetFirstUmpBdev(u) ==
  IF ump_bdev_list # <<>> /\ ump_bdev_list[1].uuid = u THEN 1 ELSE 0

(* get_ump_bdev_by_uuid: position of the device of the uuid, 0 if none.    *)
GetUmpBdev(u) == FirstOf({k \in DOMAIN ump_bdev_list : ump_bdev_list[k].uuid = u})

NewDevice(b, freed) == [uuid |-> Uuid[b], bdevs |-> <<b>>, freed |-> freed]

(* ump_bdev_construct: the device is listed before SPDK registers it, and  *)
(* freed, still listed, if SPDK refuses.                                   *)
Construct(b) ==
  /\ GetUmpBdev(Uuid[b]) = 0
  /\ \/ /\ ump_bdev_list' = Append(ump_bdev_list, NewDevice(b, FALSE))
        /\ returned' = [returned EXCEPT ![b] = "ok"]
        /\ UNCHANGED fails
     \/ /\ MayFail
        /\ ump_bdev_list' \in {ump_bdev_list, Append(ump_bdev_list, NewDevice(b, TRUE))}
        /\ returned' = [returned EXCEPT ![b] = "failed"]
  /\ UNCHANGED <<g_ump_bdev_channels, refs, dead>>

(* The channel ump_bdev_add_bdev gives a new path: the first that has a    *)
(* path of the device's uuid; the search ends there.                       *)
HasPathOf(ch, u) == \E j \in DOMAIN ch.iopaths : Uuid[ch.iopaths[j].bdev] = u

(* The search gives up after the first channel.                            *)
ChannelToExtendFirst(u) ==
  IF g_ump_bdev_channels # <<>> /\ HasPathOf(g_ump_bdev_channels[1], u) THEN 1 ELSE 0

(* The result of the comparison of uuids is not negated.                   *)
ChannelToExtendOther(u) ==
  FirstOf({c \in DOMAIN g_ump_bdev_channels :
             \E j \in DOMAIN g_ump_bdev_channels[c].iopaths :
               Uuid[g_ump_bdev_channels[c].iopaths[j].bdev] # u})

ChannelToExtend(u) ==
  FirstOf({c \in DOMAIN g_ump_bdev_channels : HasPathOf(g_ump_bdev_channels[c], u)})

Extend(ch, b, owner) ==
  [ch EXCEPT !.iopaths = Append(@, [bdev |-> b, owner |-> owner, id |-> ch.max_id]),
             !.max_id = @ + 1]

(* The path's io_channel is the registering thread's, and is not tested    *)
(* for being null; nor is the allocation of the path.                      *)
AddPath(b, c) ==
  \/ /\ g_ump_bdev_channels' = [g_ump_bdev_channels EXCEPT ![c] = Extend(@, b, AppThread)]
     /\ refs' = [refs EXCEPT ![<<b, AppThread>>] = @ + 1]
     /\ UNCHANGED <<fails, dead>>
  \/ /\ MayFail
     /\ g_ump_bdev_channels' = [g_ump_bdev_channels EXCEPT ![c] = Extend(@, b, NullChannel)]
     /\ UNCHANGED <<refs, dead>>
  \/ /\ MayFail
     /\ dead' = "null_iopath"
     /\ UNCHANGED <<g_ump_bdev_channels, refs>>

(* ump_bdev_add_bdev.                                                      *)
AddBdev(b) ==
  LET k == GetUmpBdev(Uuid[b])
      c == ChannelToExtend(Uuid[b])
  IN /\ k # 0
     /\ \/ /\ ump_bdev_list' = [ump_bdev_list EXCEPT ![k].bdevs = Append(@, b)]
           /\ returned' = [returned EXCEPT ![b] = "ok"]
           /\ IF c = 0 THEN UNCHANGED <<g_ump_bdev_channels, refs, fails, dead>>
                       ELSE AddPath(b, c)
        \/ /\ MayFail
           /\ returned' = [returned EXCEPT ![b] = "failed"]
           /\ UNCHANGED <<ump_bdev_list, g_ump_bdev_channels, refs, dead>>

Register(b) ==
  /\ Running
  /\ returned[b] = "not_yet"
  /\ Construct(b) \/ AddBdev(b)

-----------------------------------------------------------------------------
(* Channels.                                                               *)

ChannelOf(k, t) ==
  {c \in DOMAIN g_ump_bdev_channels : /\ g_ump_bdev_channels[c].device = k
                                      /\ g_ump_bdev_channels[c].thread = t
                                      /\ ~g_ump_bdev_channels[c].freed}

NewChannel(k, t, n, freed) ==
  [device |-> k, thread |-> t, max_id |-> n, freed |-> freed,
   iopaths |-> IF freed THEN <<>>
               ELSE [j \in 1 .. n |-> [bdev |-> ump_bdev_list[k].bdevs[j],
                                       owner |-> t, id |-> j - 1]]]

(* A thread's first spdk_get_io_channel of a device.                       *)
NeedsChannel(k, t) ==
  /\ Running
  /\ ~ump_bdev_list[k].freed /\ ChannelOf(k, t) = {}

(* ump_bdev_channel_create_cb: one path per bdev of the device, each with  *)
(* a reference to the bdev's io_channel on this thread.                    *)
CreateChannel(k, t) ==
  LET bdevs == ump_bdev_list[k].bdevs
  IN /\ NeedsChannel(k, t)
     /\ g_ump_bdev_channels' =
          Append(g_ump_bdev_channels, NewChannel(k, t, Len(bdevs), FALSE))
     /\ refs' = [r \in DOMAIN refs |->
                   IF r[2] = t /\ r[1] \in ToSet(bdevs) THEN refs[r] + 1 ELSE refs[r]]
     /\ UNCHANGED <<ump_bdev_list, returned, fails, dead>>

(* The io_channel just taken is not released when its path cannot be       *)
(* allocated.                                                              *)
CreateChannelLeaks(k, t) ==
  /\ NeedsChannel(k, t)
  /\ MayFail
  /\ \E n \in 0 .. Len(ump_bdev_list[k].bdevs) - 1 :
       /\ g_ump_bdev_channels' = Append(g_ump_bdev_channels, NewChannel(k, t, n, TRUE))
       /\ refs' = [refs EXCEPT ![<<ump_bdev_list[k].bdevs[n + 1], t>>] = @ + 1]
  /\ UNCHANGED <<ump_bdev_list, returned, dead>>

(* Its error path, after n paths: the io_channels are released and SPDK    *)
(* frees the channel, which stays in g_ump_bdev_channels.                  *)
CreateChannelFails(k, t) ==
  /\ NeedsChannel(k, t)
  /\ MayFail
  /\ \E n \in 0 .. Len(ump_bdev_list[k].bdevs) - 1 :
       g_ump_bdev_channels' = Append(g_ump_bdev_channels, NewChannel(k, t, n, TRUE))
  /\ UNCHANGED <<ump_bdev_list, refs, returned, dead>>

PathsHolding(ch, b, t) ==
  {j \in DOMAIN ch.iopaths : ch.iopaths[j].bdev = b /\ ch.iopaths[j].owner = t}

(* The reference released is that of the thread destroying the channel,    *)
(* whichever thread took it.                                               *)
ReleaseAsCaller(ch) ==
  [r \in DOMAIN refs |->
     IF r[2] = ch.thread /\ \E j \in DOMAIN ch.iopaths : ch.iopaths[j].bdev = r[1]
     THEN refs[r] - 1 ELSE refs[r]]

(* ump_bdev_channel_clear_all_iopath on the channel's thread: SPDK refuses *)
(* to release another thread's io_channel, which then keeps its reference. *)
Release(ch) ==
  [r \in DOMAIN refs |->
     IF r[2] = ch.thread THEN refs[r] - Cardinality(PathsHolding(ch, r[1], r[2]))
                         ELSE refs[r]]

(* ump_bdev_channel_destroy_cb.                                            *)
DestroyChannel(c) ==
  LET ch == g_ump_bdev_channels[c]
  IN /\ Running /\ ~ch.freed
     /\ IF \E j \in DOMAIN ch.iopaths : ch.iopaths[j].owner = NullChannel
        THEN dead' = "null_io_channel" /\ UNCHANGED <<g_ump_bdev_channels, refs>>
        ELSE /\ g_ump_bdev_channels' = RemoveAt(g_ump_bdev_channels, c)
             /\ refs' = Release(ch)
             /\ UNCHANGED dead
     /\ UNCHANGED <<ump_bdev_list, returned, fails>>

-----------------------------------------------------------------------------
(* Use of freed list elements.  Either nothing is noticed - the memory     *)
(* still holds what it held, which is what the actions above assume - or   *)
(* the process dies.                                                       *)

(* get_ump_bdev_by_uuid passes a freed device.                             *)
FindInFreedDevice(b) ==
  /\ Running
  /\ returned[b] = "not_yet"
  /\ \E k \in DOMAIN ump_bdev_list :
       /\ ump_bdev_list[k].freed
       /\ GetUmpBdev(Uuid[b]) = 0 \/ k <= GetUmpBdev(Uuid[b])
  /\ dead' = "freed_device"
  /\ UNCHANGED <<ump_bdev_list, g_ump_bdev_channels, refs, returned, fails>>

(* ump_io_count_reset_fn, a poller of every channel ever created, visits   *)
(* the paths of every channel in the list.                                 *)
CountInFreedChannel ==
  /\ Running
  /\ \E c \in DOMAIN g_ump_bdev_channels : g_ump_bdev_channels[c].freed
  /\ dead' = "freed_channel"
  /\ UNCHANGED <<ump_bdev_list, g_ump_bdev_channels, refs, returned, fails>>

Next ==
  \/ \E b \in Bdevs : Register(b) \/ FindInFreedDevice(b)
  \/ \E k \in DOMAIN ump_bdev_list, t \in Threads :
       CreateChannel(k, t) \/ CreateChannelFails(k, t)
  \/ \E c \in DOMAIN g_ump_bdev_channels : DestroyChannel(c)
  \/ CountInFreedChannel

Spec == Init /\ [][Next]_vars

-----------------------------------------------------------------------------
(* Properties.                                                             *)

TypeOK ==
  /\ ump_bdev_list \in Seq(Device)
  /\ g_ump_bdev_channels \in Seq(Channel)
  /\ refs \in [Bdevs \X Threads -> Nat]
  /\ returned \in [Bdevs -> {"not_yet", "ok", "failed"}]
  /\ fails \in 0 .. MaxFails
  /\ dead \in Causes

Live == {c \in DOMAIN g_ump_bdev_channels : ~g_ump_bdev_channels[c].freed}

(* A bdev whose registration succeeded belongs to the one device of its    *)
(* uuid, once; one whose registration failed belongs to no device that is  *)
(* still there (spdk_bdev_register, get_ump_bdev_by_uuid).                 *)
Memberships(b) ==
  {m \in (DOMAIN ump_bdev_list) \X (1 .. Cardinality(Bdevs)) :
     m[2] <= Len(ump_bdev_list[m[1]].bdevs) /\ ump_bdev_list[m[1]].bdevs[m[2]] = b}

RegisteredOnce ==
  /\ \A k, l \in DOMAIN ump_bdev_list :
       ump_bdev_list[k].uuid = ump_bdev_list[l].uuid => k = l
  /\ \A b \in Bdevs :
       /\ \A m \in Memberships(b) : ump_bdev_list[m[1]].uuid = Uuid[b]
       /\ IF returned[b] = "ok" THEN Cardinality(Memberships(b)) = 1
          ELSE \A m \in Memberships(b) : ump_bdev_list[m[1]].freed

(* The paths of a channel are bdevs of the channel's device, each at most  *)
(* once and in the order in which they were registered, whatever channels  *)
(* came and went between registrations (ump_bdev_channel_create_cb and     *)
(* ump_bdev_add_bdev build the same list in two ways).  The id of a path   *)
(* is its position and max_id the length of the list, which the weighted,  *)
(* random and hash selectors and the count array rely on, and SumpSelect   *)
(* assumes.                                                                *)
PathsInOrder ==
  \A c \in Live :
    LET ch == g_ump_bdev_channels[c]
        bdevs == ump_bdev_list[ch.device].bdevs
        At(j) == {n \in DOMAIN bdevs : bdevs[n] = ch.iopaths[j].bdev}
    IN /\ \A j \in DOMAIN ch.iopaths : At(j) # {}
       /\ \A j, l \in DOMAIN ch.iopaths :
            j < l => \A n \in At(j), m \in At(l) : n < m
       /\ ch.max_id = Len(ch.iopaths)
       /\ \A j \in DOMAIN ch.iopaths : ch.iopaths[j].id = j - 1

(* Every path with an io_channel holds a reference to it, and a thread     *)
(* that does not register bdevs holds no others: neither the error path of *)
(* channel creation nor destruction releases too much or too little.  On   *)
(* the registering thread references may outlive their paths.              *)
Holders(b, t) == {h \in Live \X (1 .. Cardinality(Bdevs)) :
                    h[2] \in PathsHolding(g_ump_bdev_channels[h[1]], b, t)}

ReferencesHeld ==
  \A b \in Bdevs, t \in Threads :
    /\ Cardinality(Holders(b, t)) <= refs[<<b, t>>]
    /\ t # AppThread => Cardinality(Holders(b, t)) = refs[<<b, t>>]

(* A bdev that joins a device some channel uses becomes a path of exactly  *)
(* one of its channels at once (ump_bdev_add_bdev).                        *)
Joins(b) == returned[b] = "not_yet" /\ returned'[b] = "ok" /\ dead' = "no"

LatePathIsUsed ==
  [][\A b \in Bdevs :
       LET k == GetUmpBdev(Uuid[b])
       IN (Joins(b) /\ \E c \in Live : g_ump_bdev_channels[c].device = k)
            => \E c \in Live : /\ g_ump_bdev_channels[c].device = k
                               /\ b = Last(g_ump_bdev_channels'[c].iopaths).bdev
                               /\ \A d \in Live \ {c} :
                                    g_ump_bdev_channels'[d] = g_ump_bdev_channels[d]]_vars

(* sump_ctrl.c: a channel's iopath_list holds the paths of its device on   *)
(* the current thread; sump.c adds paths registered later.                 *)
EveryThreadHasItsPaths ==
  \A c \in Live :
    LET ch == g_ump_bdev_channels[c]
    IN \A n \in DOMAIN ump_bdev_list[ch.device].bdevs :
         PathsHolding(ch, ump_bdev_list[ch.device].bdevs[n], ch.thread) # {}
=============================================================================
