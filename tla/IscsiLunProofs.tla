--------------------------- MODULE IscsiLunProofs ---------------------------
(***************************************************************************)
(* Proofs about IscsiLun for any number of threads, LUNs and requests.     *)
(* Inv is inductive.  That one thread serves a LUN needs the count (a LUN  *)
(* that the no-main poller serves has no holder), which needs to be the    *)
(* number of holders, and that a task's thread holds its LUN, which holds  *)
(* because channels are made only when no LUN is still connecting.         *)
(***************************************************************************)
EXTENDS IscsiLun, FiniteSetTheorems, TLAPS

Holders(p) == {t \in Threads : hold[p][t] # "none"}

One(b) == IF b THEN 1 ELSE 0

(* What MainThreadIsHeld says of one LUN.                                  *)
Held(l, holders) ==
  /\ l.count = Cardinality(holders) + One(l.msg # 0)
  /\ l.count > 0 <=> l.main # 0
  /\ l.poller = l.main /\ l.msg \in {0, l.main}

(* A LUN that the no-main poller serves has no channel.                    *)
ServedAlone == \A p \in Paths : lun[p].serving => lun[p].count = 0

(* A channel of the device holds each of its LUNs, and none connects.      *)
OpenHolds ==
  /\ \A t \in open, p \in Paths : conn[p] = "ready" => hold[p][t] = "open"
  /\ open # {} => \A p \in Paths : conn[p] \in {"ready", "failed", "leaked"}

(* Requests and submissions belong to open channels and connected LUNs.    *)
RequestsHold ==
  /\ \A t \in Threads :
       /\ sub[t].io # NoPath => t \in open
       /\ sub[t].path # NoPath => sub[t].io # NoPath /\ conn[sub[t].path] = "ready"
  /\ \A i \in Ios : io[i].state \in {"waiting", "message", "task"} =>
       io[i].at \in open /\ io[i].path \in Paths /\ conn[io[i].path] = "ready"

(* TypeOK, with the count not yet bounded.                                 *)
LunType == [main : 0..N, count : Nat, poller : 0..N, msg : 0..N, serving : BOOLEAN]

Types ==
  /\ conn \in [Paths -> Stages]
  /\ lun \in [Paths -> LunType]
  /\ hold \in [Paths -> [Threads -> {"none", "open", "putting"}]]
  /\ open \subseteq Threads
  /\ ctxt \in Paths \cup {Mbdev}
  /\ sub \in [Threads -> Sub]
  /\ io \in [Ios -> Io]
  /\ available \in [Threads -> [Paths -> BOOLEAN]]
  /\ probe \in [Threads -> [Paths -> Probe]]
  /\ failures \in 0..MaxFailures /\ resizes \in 0..MaxResizes
  /\ fault \in BOOLEAN

LunsAreHeld == \A p \in Paths : Held(lun[p], Holders(p))

Inv == Types /\ LunsAreHeld /\ ServedAlone /\ OpenHolds /\ RequestsHold

-----------------------------------------------------------------------------
(* Counting holders.                                                       *)

(* The holders of a LUN are some of the threads.                           *)
LEMMA HoldersFinite ==
  ASSUME NEW h \in [Threads -> {"none", "open", "putting"}]
  PROVE  LET S == {t \in Threads : h[t] # "none"}
         IN  IsFiniteSet(S) /\ Cardinality(S) \in Nat /\ Cardinality(S) <= N
<1> DEFINE S == {t \in Threads : h[t] # "none"}
<1>1. IsFiniteSet(Threads) /\ Cardinality(Threads) = N
  BY NAssumption, FS_Interval DEF Threads
<1>2. IsFiniteSet(S) /\ Cardinality(S) <= N
  BY <1>1, FS_Subset
<1> QED BY <1>2, FS_CardinalityType

(* A thread that gets a channel is one holder more.                        *)
LEMMA HolderJoins ==
  ASSUME NEW h \in [Threads -> {"none", "open", "putting"}], NEW t \in Threads, h[t] = "none",
         NEW v \in {"open", "putting"}
  PROVE  Cardinality({u \in Threads : [h EXCEPT ![t] = v][u] # "none"}) =
           Cardinality({u \in Threads : h[u] # "none"}) + 1
<1> DEFINE S == {u \in Threads : h[u] # "none"}
           T == {u \in Threads : [h EXCEPT ![t] = v][u] # "none"}
<1>1. T = S \cup {t} /\ t \notin S
  OBVIOUS
<1>2. IsFiniteSet(S)
  BY HoldersFinite
<1>3. Cardinality(S \cup {t}) = Cardinality(S) + 1
  BY <1>1, <1>2, FS_AddElement
<1> QED BY <1>1, <1>3

(* A thread whose channel is destroyed is one less, and there was one.     *)
LEMMA HolderLeaves ==
  ASSUME NEW h \in [Threads -> {"none", "open", "putting"}], NEW t \in Threads, h[t] # "none"
  PROVE  /\ Cardinality({u \in Threads : [h EXCEPT ![t] = "none"][u] # "none"}) =
              Cardinality({u \in Threads : h[u] # "none"}) - 1
         /\ Cardinality({u \in Threads : h[u] # "none"}) > 0
<1> DEFINE S == {u \in Threads : h[u] # "none"}
           T == {u \in Threads : [h EXCEPT ![t] = "none"][u] # "none"}
<1>1. T = S \ {t} /\ t \in S
  OBVIOUS
<1>2. IsFiniteSet(S) /\ Cardinality(S) \in Nat
  BY HoldersFinite
<1>3. Cardinality(S \ {t}) = Cardinality(S) - 1
  BY <1>1, <1>2, FS_RemoveElement
<1>4. Cardinality(S) # 0
  BY <1>1, <1>2, FS_EmptySet
<1> QED BY <1>1, <1>2, <1>3, <1>4

(* Nobody holds a LUN that any thread holds.                               *)
LEMMA HolderCounts ==
  ASSUME Types, LunsAreHeld, NEW p \in Paths, NEW t \in Threads, hold[p][t] # "none"
  PROVE  lun[p].count > 0
<1>1. hold[p] \in [Threads -> {"none", "open", "putting"}]
  BY DEF Types
<1>2. Cardinality(Holders(p)) > 0 /\ Cardinality(Holders(p)) \in Nat
  BY <1>1, HolderLeaves, HoldersFinite DEF Holders
<1> QED BY <1>2 DEF LunsAreHeld, Held, One

(* One holder more, bdev_iscsi_create_cb.                                  *)
LEMMA JoinedHeld ==
  ASSUME NEW l \in LunType, NEW t \in Threads, NEW S, NEW T,
         Held(l, S), Cardinality(S) \in Nat, Cardinality(T) = Cardinality(S) + 1
  PROVE  /\ Joined(l, t) \in LunType /\ Joined(l, t).serving = l.serving
         /\ Held(Joined(l, t), T)
<1> DEFINE j == Joined(l, t)
<1>1. t \in 0..N /\ t # 0
  BY NAssumption DEF Threads
<1>2. CASE l.count = 0
  <2>1. j = [main |-> t, count |-> 1, poller |-> t, msg |-> l.msg, serving |-> l.serving]
    BY <1>2 DEF Joined, LunType
  <2>2. l.msg = 0 /\ Cardinality(S) = 0
    BY <1>2 DEF Held, One, LunType
  <2> HIDE DEF j
  <2>3. j \in LunType /\ j.serving = l.serving /\ Held(j, T)
    BY <1>1, <2>1, <2>2 DEF Held, One, LunType
  <2> QED BY <2>3 DEF j
<1>3. CASE l.count # 0
  <2>1. j = [main |-> l.main, count |-> l.count + 1, poller |-> l.poller, msg |-> l.msg,
             serving |-> l.serving]
    BY <1>3 DEF Joined, LunType
  <2> HIDE DEF j
  <2>2. j \in LunType /\ j.serving = l.serving /\ Held(j, T)
    BY <1>3, <2>1 DEF Held, One, LunType
  <2> QED BY <2>2 DEF j
<1> QED BY <1>2, <1>3

(* What the last channel leaves, field by field.                           *)
LEMMA StoppedIs ==
  ASSUME NEW l \in LunType
  PROVE  Stopped(l) = [main |-> 0, count |-> l.count - 1, poller |-> 0, msg |-> l.msg,
                       serving |-> l.serving]
<1> DEFINE m == [main |-> l.main, count |-> l.count - 1, poller |-> l.poller, msg |-> l.msg,
                 serving |-> l.serving]
           r == [main |-> 0, count |-> l.count - 1, poller |-> l.poller, msg |-> l.msg,
                 serving |-> l.serving]
<1>1. Left(l) = m
  BY DEF Left, LunType
<1>2. [m EXCEPT !.main = 0] = r
  OBVIOUS
<1>3. [r EXCEPT !.poller = 0] = [main |-> 0, count |-> l.count - 1, poller |-> 0, msg |-> l.msg,
                                 serving |-> l.serving]
  OBVIOUS
<1> HIDE DEF m, r
<1> QED BY <1>1, <1>2, <1>3 DEF Stopped

(* One holder less, bdev_iscsi_destroy_cb; the last one of another thread  *)
(* leaves a message.                                                       *)
LEMMA LeftHeld ==
  ASSUME NEW l \in LunType, NEW t \in Threads, NEW S, NEW T,
         Held(l, S), Cardinality(S) \in Nat, Cardinality(S) > 0,
         Cardinality(T) = Cardinality(S) - 1
  PROVE  LET k == IF l.count > 1 THEN Left(l)
                  ELSE IF l.main = t THEN Stopped(l) ELSE [l EXCEPT !.msg = l.main]
         IN  k \in LunType /\ k.serving = l.serving /\ Held(k, T)
<1> DEFINE k == IF l.count > 1 THEN Left(l)
                ELSE IF l.main = t THEN Stopped(l) ELSE [l EXCEPT !.msg = l.main]
<1>1. l.count > 0 /\ l.main # 0
  BY DEF Held, One, LunType
<1>2. CASE l.count > 1
  <2>1. k = [main |-> l.main, count |-> l.count - 1, poller |-> l.poller, msg |-> l.msg,
             serving |-> l.serving]
    BY <1>2 DEF Left, LunType
  <2> HIDE DEF k
  <2>2. k \in LunType /\ k.serving = l.serving /\ Held(k, T)
    BY <1>1, <1>2, <2>1 DEF Held, One, LunType
  <2> QED BY <2>2 DEF k
<1>3. CASE l.count = 1
  <2>0. l.msg = 0 /\ Cardinality(S) = 1 /\ Cardinality(T) = 0
    BY <1>3 DEF Held, One, LunType
  <2>1. CASE l.main = t
    <3>1. k = [main |-> 0, count |-> 0, poller |-> 0, msg |-> 0, serving |-> l.serving]
      BY <1>3, <2>0, <2>1, StoppedIs DEF LunType
    <3> HIDE DEF k
    <3>2. k \in LunType /\ k.serving = l.serving /\ Held(k, T)
      BY <2>0, <3>1, NAssumption DEF Held, One, LunType
    <3> QED BY <3>2 DEF k
  <2>2. CASE l.main # t
    <3>1. k = [main |-> l.main, count |-> 1, poller |-> l.poller, msg |-> l.main,
               serving |-> l.serving]
      BY <1>3, <2>2 DEF LunType
    <3> HIDE DEF k
    <3>2. k \in LunType /\ k.serving = l.serving /\ Held(k, T)
      BY <1>1, <2>0, <3>1 DEF Held, One, LunType
    <3> QED BY <3>2 DEF k
  <2> QED BY <2>1, <2>2
<1> QED BY <1>1, <1>2, <1>3 DEF LunType

(* The message's holder goes, _iscsi_destroy_cb.                           *)
LEMMA MessageHeld ==
  ASSUME NEW l \in LunType, NEW S, Held(l, S), Cardinality(S) \in Nat, l.msg # 0
  PROVE  LET k == IF l.count > 1 THEN [Left(l) EXCEPT !.msg = 0] ELSE [Stopped(l) EXCEPT !.msg = 0]
         IN  l.count > 0 /\ k \in LunType /\ k.serving = l.serving /\ Held(k, S)
<1> DEFINE k == IF l.count > 1 THEN [Left(l) EXCEPT !.msg = 0] ELSE [Stopped(l) EXCEPT !.msg = 0]
<1>1. l.count > 0 /\ l.count = Cardinality(S) + 1
  BY DEF Held, One, LunType
<1>2. CASE l.count > 1
  <2>1. k = [main |-> l.main, count |-> l.count - 1, poller |-> l.poller, msg |-> 0,
             serving |-> l.serving]
    BY <1>2 DEF Left, LunType
  <2> HIDE DEF k
  <2>2. k \in LunType /\ k.serving = l.serving /\ Held(k, S)
    BY <1>1, <1>2, <2>1, NAssumption DEF Held, One, LunType
  <2> QED BY <1>1, <2>2 DEF k
<1>3. CASE l.count = 1
  <2>1. k = [main |-> 0, count |-> 0, poller |-> 0, msg |-> 0, serving |-> l.serving]
    BY <1>3, StoppedIs DEF LunType
  <2> HIDE DEF k
  <2>2. k \in LunType /\ k.serving = l.serving /\ Held(k, S)
    BY <1>1, <1>3, <2>1, NAssumption DEF Held, One, LunType
  <2> QED BY <1>1, <2>2 DEF k
<1> QED BY <1>1, <1>2, <1>3 DEF LunType

-----------------------------------------------------------------------------
(* The channels' and the LUN's actions.                                    *)

(* ump_bdev_channel_create_cb: each connected LUN gains a holder, or keeps *)
(* one whose channel was not destroyed yet.                                *)
LEMMA OpenChannelPreserves ==
  ASSUME Inv, NEW t \in Threads, OpenChannel(t)
  PROVE  Inv'
<1>t. Types /\ LunsAreHeld
  BY DEF Inv
<1>1. ASSUME NEW p \in Paths
      PROVE  /\ hold'[p] \in [Threads -> {"none", "open", "putting"}]
             /\ lun'[p] \in LunType /\ ~lun'[p].serving
             /\ Held(lun'[p], Holders(p)')
             /\ \A u \in Threads : u # t => hold'[p][u] = hold[p][u]
             /\ conn[p] = "ready" => hold'[p][t] = "open"
  <2>h. /\ hold[p] \in [Threads -> {"none", "open", "putting"}] /\ lun[p] \in LunType
        /\ ~lun[p].serving /\ Held(lun[p], Holders(p))
        /\ Holders(p) = {u \in Threads : hold[p][u] # "none"}
        /\ Cardinality(Holders(p)) \in Nat
    BY <1>t, HoldersFinite DEF Types, LunsAreHeld, OpenChannel, Holders
  <2>1. CASE p \notin Ready
    <3>1. hold'[p] = hold[p] /\ lun'[p] = lun[p] /\ conn[p] # "ready"
      BY <2>1 DEF OpenChannel, Ready
    <3>2. Holders(p)' = Holders(p)
      BY <3>1 DEF Holders
    <3> QED BY <2>h, <3>1, <3>2
  <2>2. CASE p \in Ready /\ hold[p][t] = "none"
    <3>1. hold'[p] = [hold[p] EXCEPT ![t] = "open"] /\ lun'[p] = Joined(lun[p], t)
      BY <2>2 DEF OpenChannel
    <3>2. Cardinality(Holders(p)') = Cardinality(Holders(p)) + 1
      BY <2>h, <2>2, <3>1, HolderJoins DEF Holders
    <3>3. lun'[p] \in LunType /\ ~lun'[p].serving /\ Held(lun'[p], Holders(p)')
      BY <2>h, <3>1, <3>2, JoinedHeld
    <3> QED BY <2>h, <3>1, <3>3
  <2>3. CASE p \in Ready /\ hold[p][t] # "none"
    <3>1. hold'[p] = [hold[p] EXCEPT ![t] = "open"] /\ lun'[p] = lun[p]
      BY <2>3 DEF OpenChannel
    <3>2. Holders(p)' = Holders(p)
      BY <2>h, <2>3, <3>1 DEF Holders
    <3> QED BY <2>h, <3>1, <3>2
  <2> QED BY <2>1, <2>2, <2>3
<1>2. /\ open' = open \cup {t} /\ UNCHANGED <<conn, ctxt, sub, io, probe, failures, resizes>>
      /\ \A p \in Paths : conn[p] \in {"ready", "failed", "leaked"}
  BY DEF OpenChannel, Channels
<1>3. /\ hold' \in [Paths -> [Threads -> {"none", "open", "putting"}]]
      /\ lun' \in [Paths -> LunType]
  <2>1. DOMAIN hold' = Paths /\ hold' = [p \in Paths |-> hold'[p]]
    BY DEF OpenChannel
  <2>2. lun' = [p \in Paths |-> lun'[p]]
    BY DEF OpenChannel
  <2> QED BY <1>1, <2>1, <2>2
<1>4. available' \in [Threads -> [Paths -> BOOLEAN]] /\ fault' \in BOOLEAN
  BY <1>t DEF OpenChannel, Types
<1>5. Types'
  BY <1>t, <1>2, <1>3, <1>4 DEF Types
<1>6. LunsAreHeld' /\ ServedAlone'
  BY <1>1 DEF LunsAreHeld, ServedAlone
<1>7. OpenHolds'
  BY <1>t, <1>1, <1>2 DEF Inv, OpenHolds, Types
<1>8. RequestsHold'
  BY <1>2 DEF Inv, RequestsHold
<1> QED BY <1>5, <1>6, <1>7, <1>8 DEF Inv

(* ump_bdev_channel_destroy_cb: the holders stay until bdev_iscsi_destroy_cb. *)
LEMMA CloseChannelPreserves ==
  ASSUME Inv, NEW t \in Threads, CloseChannel(t)
  PROVE  Inv'
<1>t. Types /\ LunsAreHeld
  BY DEF Inv
<1>1. /\ open' = open \ {t} /\ sub[t] = Out
      /\ UNCHANGED <<conn, lun, ctxt, sub, io, available, probe, failures, resizes, fault>>
      /\ \A i \in Ios : io[i].state # "idle" => io[i].at # t
  BY DEF CloseChannel, Channels, Free
<1>2. ASSUME NEW p \in Paths
      PROVE  /\ hold'[p] \in [Threads -> {"none", "open", "putting"}]
             /\ \A u \in Threads : u # t => hold'[p][u] = hold[p][u]
             /\ Holders(p)' = Holders(p)
  <2>1. hold[p] \in [Threads -> {"none", "open", "putting"}]
    BY <1>t DEF Types
  <2>2. CASE p \in Ready
    <3>1. hold[p][t] = "open" /\ hold'[p] = [hold[p] EXCEPT ![t] = "putting"]
      BY <2>2 DEF CloseChannel, Inv, OpenHolds, Ready
    <3> QED BY <2>1, <3>1 DEF Holders
  <2>3. CASE p \notin Ready
    <3>1. hold'[p] = hold[p]
      BY <2>3 DEF CloseChannel
    <3> QED BY <2>1, <3>1 DEF Holders
  <2> QED BY <2>2, <2>3
<1>3. hold' \in [Paths -> [Threads -> {"none", "open", "putting"}]]
  <2>1. hold' = [p \in Paths |-> hold'[p]]
    BY DEF CloseChannel
  <2> QED BY <1>2, <2>1
<1>4. Types'
  BY <1>t, <1>1, <1>3 DEF Types
<1>5. LunsAreHeld' /\ ServedAlone'
  BY <1>t, <1>1, <1>2 DEF Inv, LunsAreHeld, ServedAlone
<1>6. OpenHolds'
  BY <1>t, <1>1, <1>2 DEF Inv, OpenHolds, Types
<1>7. RequestsHold'
  <2>1. ASSUME NEW u \in Threads
        PROVE  /\ sub'[u].io # NoPath => u \in open'
               /\ sub'[u].path # NoPath => sub'[u].io # NoPath /\ conn'[sub'[u].path] = "ready"
    BY <1>1 DEF Inv, RequestsHold, Out
  <2>2. ASSUME NEW i \in Ios, io'[i].state \in {"waiting", "message", "task"}
        PROVE  io'[i].at \in open' /\ io'[i].path \in Paths /\ conn'[io'[i].path] = "ready"
    BY <1>1, <2>2 DEF Inv, RequestsHold
  <2> QED BY <2>1, <2>2 DEF RequestsHold
<1> QED BY <1>4, <1>5, <1>6, <1>7 DEF Inv

(* bdev_iscsi_destroy_cb.                                                  *)
LEMMA DestroyChannelPreserves ==
  ASSUME Inv, NEW p \in Paths, NEW t \in Threads, DestroyChannel(p, t)
  PROVE  Inv'
<1>t. Types /\ LunsAreHeld
  BY DEF Inv
<1> DEFINE k == IF lun[p].count > 1 THEN Left(lun[p])
                ELSE IF lun[p].main = t THEN Stopped(lun[p]) ELSE [lun[p] EXCEPT !.msg = lun[p].main]
<1>1. /\ hold[p][t] = "putting" /\ hold' = [hold EXCEPT ![p][t] = "none"]
      /\ lun' = [lun EXCEPT ![p] = k]
      /\ UNCHANGED <<conn, open, ctxt, sub, io, available, probe, failures, resizes, fault>>
  BY DEF DestroyChannel, Channels
<1>2. /\ hold[p] \in [Threads -> {"none", "open", "putting"}] /\ lun[p] \in LunType
      /\ Held(lun[p], Holders(p)) /\ Cardinality(Holders(p)) \in Nat
  BY <1>t, HoldersFinite DEF Types, LunsAreHeld, Holders
<1>3. hold'[p] = [hold[p] EXCEPT ![t] = "none"]
  BY <1>t, <1>1 DEF Types
<1>4. Cardinality(Holders(p)') = Cardinality(Holders(p)) - 1 /\ Cardinality(Holders(p)) > 0
  BY <1>1, <1>2, <1>3, HolderLeaves DEF Holders
<1>5. k \in LunType /\ k.serving = lun[p].serving /\ Held(k, Holders(p)')
  BY <1>2, <1>4, LeftHeld
<1> HIDE DEF k
<1>6. Types'
  <2>1. lun' \in [Paths -> LunType]
    BY <1>t, <1>1, <1>5 DEF Types
  <2>2. hold' \in [Paths -> [Threads -> {"none", "open", "putting"}]]
    BY <1>t, <1>1 DEF Types
  <2> QED BY <1>t, <1>1, <2>1, <2>2 DEF Types
<1>7. lun'[p] = k /\ \A q \in Paths \ {p} : lun'[q] = lun[q] /\ hold'[q] = hold[q]
  BY <1>t, <1>1 DEF Types
<1>8. LunsAreHeld'
  <2>1. \A q \in Paths \ {p} : Holders(q)' = Holders(q)
    BY <1>7 DEF Holders
  <2> QED BY <1>t, <1>5, <1>7, <2>1 DEF LunsAreHeld
<1>9. ServedAlone'
  <2>1. lun[p].count > 0
    BY <1>t, <1>1, HolderCounts
  <2>2. ~lun'[p].serving
    BY <1>5, <1>7, <2>1 DEF Inv, ServedAlone
  <2> QED BY <1>7, <2>2 DEF Inv, ServedAlone
<1>10. OpenHolds'
  <2>1. ASSUME NEW u \in open, NEW q \in Paths, conn[q] = "ready"
        PROVE  hold'[q][u] = "open"
    <3>1. hold[q][u] = "open" /\ u \in Threads
      BY <1>t, <2>1 DEF Inv, OpenHolds, Types
    <3>2. ~(q = p /\ u = t)
      BY <1>1, <3>1
    <3> QED BY <1>2, <1>3, <1>7, <3>1, <3>2
  <2> QED BY <1>1, <2>1 DEF Inv, OpenHolds
<1>11. RequestsHold'
  BY <1>1 DEF Inv, RequestsHold
<1> QED BY <1>6, <1>8, <1>9, <1>10, <1>11 DEF Inv

(* The LUN's other actions: the message arrives, the no-main poller.       *)
LEMMA LunActionPreserves ==
  ASSUME Inv, NEW p \in Paths, MainDestroys(p) \/ NoMainPoll(p) \/ NoMainPolled(p)
  PROVE  Inv'
<1>t. Types /\ LunsAreHeld
  BY DEF Inv
<1>1. UNCHANGED <<conn, hold, open, ctxt, sub, io, available, probe, failures, resizes, fault>>
  BY DEF MainDestroys, NoMainPoll, NoMainPolled, Channels
<1>2. /\ lun[p] \in LunType /\ Held(lun[p], Holders(p)) /\ Cardinality(Holders(p)) \in Nat
      /\ hold[p] \in [Threads -> {"none", "open", "putting"}]
  BY <1>t, HoldersFinite DEF Types, LunsAreHeld, Holders
<1>3. /\ lun'[p] \in LunType /\ Held(lun'[p], Holders(p))
      /\ lun'[p].serving => lun'[p].count = 0
      /\ lun' = [lun EXCEPT ![p] = lun'[p]]
  <2>1. CASE MainDestroys(p)
    <3> DEFINE k == IF lun[p].count > 1 THEN [Left(lun[p]) EXCEPT !.msg = 0]
                    ELSE [Stopped(lun[p]) EXCEPT !.msg = 0]
    <3>1. lun[p].msg # 0 /\ lun' = [lun EXCEPT ![p] = k]
      BY <2>1 DEF MainDestroys
    <3>2. lun[p].count > 0 /\ k \in LunType /\ k.serving = lun[p].serving /\ Held(k, Holders(p))
      BY <1>2, <3>1, MessageHeld
    <3> HIDE DEF k
    <3>3. lun'[p] = k
      BY <1>t, <3>1 DEF Types
    <3>4. ~lun[p].serving
      BY <1>2, <3>2 DEF Inv, ServedAlone, LunType
    <3> QED BY <3>1, <3>2, <3>3, <3>4
  <2>2. CASE NoMainPoll(p)
    <3>1. lun[p].count = 0 /\ lun' = [lun EXCEPT ![p].serving = TRUE]
      BY <2>2 DEF NoMainPoll
    <3>2. lun'[p] = [lun[p] EXCEPT !.serving = TRUE] /\ lun' = [lun EXCEPT ![p] = lun'[p]]
      BY <1>t, <3>1 DEF Types
    <3>3. /\ lun'[p] \in LunType /\ lun'[p].main = lun[p].main /\ lun'[p].count = lun[p].count
          /\ lun'[p].poller = lun[p].poller /\ lun'[p].msg = lun[p].msg /\ lun'[p].serving = TRUE
      BY <1>2, <3>2 DEF LunType
    <3> QED BY <1>2, <3>1, <3>2, <3>3 DEF Held
  <2>3. CASE NoMainPolled(p)
    <3>1. lun' = [lun EXCEPT ![p].serving = FALSE]
      BY <2>3 DEF NoMainPolled
    <3>2. lun'[p] = [lun[p] EXCEPT !.serving = FALSE] /\ lun' = [lun EXCEPT ![p] = lun'[p]]
      BY <1>t, <3>1 DEF Types
    <3>3. /\ lun'[p] \in LunType /\ lun'[p].main = lun[p].main /\ lun'[p].count = lun[p].count
          /\ lun'[p].poller = lun[p].poller /\ lun'[p].msg = lun[p].msg /\ lun'[p].serving = FALSE
      BY <1>2, <3>2 DEF LunType
    <3> QED BY <1>2, <3>1, <3>2, <3>3 DEF Held
  <2> QED BY <2>1, <2>2, <2>3
<1>4. \A q \in Paths \ {p} : lun'[q] = lun[q]
  BY <1>t, <1>3 DEF Types
<1>5. Types'
  BY <1>t, <1>1, <1>3 DEF Types
<1>6. LunsAreHeld' /\ ServedAlone'
  <2>1. \A q \in Paths : Holders(q)' = Holders(q)
    BY <1>1 DEF Holders
  <2> QED BY <1>t, <1>3, <1>4, <2>1 DEF Inv, LunsAreHeld, ServedAlone
<1>7. OpenHolds' /\ RequestsHold'
  BY <1>1 DEF Inv, OpenHolds, RequestsHold
<1> QED BY <1>5, <1>6, <1>7 DEF Inv

-----------------------------------------------------------------------------
(* Connecting: no thread has a channel yet, so no request has a path.      *)
LEMMA ConnectingPreserves ==
  ASSUME Inv, NEW p \in Paths, CreateDisk(p) \/ Connects(p)
  PROVE  Inv'
<1>t. Types /\ LunsAreHeld
  BY DEF Inv
<1>1. UNCHANGED <<lun, hold, open, ctxt, sub, io, available, probe, failures, fault>>
  BY DEF Connects, CreateDisk, Connected, ProvisioningRead, LimitsRead, CapacityRead, Connecting
<1>2. /\ conn[p] \notin {"ready", "failed", "leaked"} \/ conn' = conn
      /\ \E next \in Stages : conn' = [conn EXCEPT ![p] = next]
      /\ resizes' \in 0..MaxResizes
  <2>1. conn = [conn EXCEPT ![p] = conn[p]] /\ conn[p] \in Stages
    BY <1>t DEF Types
  <2>2. resizes \in 0..MaxResizes /\ MaxResizes \in Nat
    BY <1>t, BoundsAssumption DEF Types
  <2>3. CASE CreateDisk(p) \/ Connected(p) \/ ProvisioningRead(p) \/ LimitsRead(p)
    BY <2>2, <2>3 DEF CreateDisk, Connected, ProvisioningRead, LimitsRead, Stages
  <2>4. CASE CapacityRead(p)
    BY <2>1, <2>2, <2>4 DEF CapacityRead, Stages
  <2> QED BY <2>3, <2>4 DEF Connects
<1>3. CASE conn' = conn
  <2>1. Types'
    BY <1>t, <1>1, <1>2, <1>3 DEF Types
  <2>2. LunsAreHeld' /\ ServedAlone' /\ OpenHolds' /\ RequestsHold'
    BY <1>1, <1>3 DEF Inv, LunsAreHeld, Holders, ServedAlone, OpenHolds, RequestsHold
  <2> QED BY <2>1, <2>2 DEF Inv
<1>4. CASE conn[p] \notin {"ready", "failed", "leaked"}
  <2>1. open = {}
    BY <1>4 DEF Inv, OpenHolds
  <2>2. Types'
    BY <1>t, <1>1, <1>2 DEF Types
  <2>3. LunsAreHeld' /\ ServedAlone' /\ OpenHolds'
    BY <1>1, <2>1 DEF Inv, LunsAreHeld, Holders, ServedAlone, OpenHolds
  <2>4. RequestsHold'
    BY <1>1, <2>1 DEF Inv, RequestsHold
  <2> QED BY <2>2, <2>3, <2>4 DEF Inv
<1> QED BY <1>2, <1>3, <1>4

-----------------------------------------------------------------------------
(* Requests and probes leave the LUNs and their channels alone.            *)
LEMMA RequestsPreserve ==
  ASSUME Inv, Requests, Types', RequestsHold'
  PROVE  Inv'
BY DEF Inv, Requests, LunsAreHeld, Holders, ServedAlone, OpenHolds

(* ump_bdev_submit_request of a new request.                               *)
LEMMA SubmitPreserves ==
  ASSUME Inv, NEW i \in Ios, NEW t \in Threads, Submit(i, t)
  PROVE  Inv'
<1>t. Types
  BY DEF Inv
<1>1. /\ io' = [io EXCEPT ![i].state = "chosen", ![i].at = t]
      /\ sub' = [sub EXCEPT ![t].io = i] /\ sub[t] = Out /\ t \in open
      /\ UNCHANGED <<ctxt, available, probe, failures, fault>> /\ Requests
  BY DEF Submit, Free
<1>2. /\ io' \in [Ios -> Io] /\ io'[i].state = "chosen"
      /\ \A j \in Ios \ {i} : io'[j] = io[j]
  <2> DEFINE g == [io EXCEPT ![i].state = "chosen"]
  <2>1. g \in [Ios -> Io] /\ g[i].state = "chosen" /\ \A j \in Ios \ {i} : g[j] = io[j]
    BY <1>t DEF Types, Io
  <2>2. io' = [g EXCEPT ![i].at = t]
    BY <1>1
  <2> HIDE DEF g
  <2> QED BY <2>1, <2>2 DEF Io
<1>3. sub'[t] = [Out EXCEPT !.io = i] /\ sub'[t].path = NoPath
      /\ \A u \in Threads \ {t} : sub'[u] = sub[u]
  BY <1>t, <1>1 DEF Types, Out
<1>4. Types'
  <2>1. sub' \in [Threads -> Sub]
    BY <1>t, <1>1 DEF Types, Sub
  <2> QED BY <1>t, <1>1, <1>2, <2>1 DEF Types, Requests
<1>5. RequestsHold'
  BY <1>1, <1>2, <1>3 DEF Inv, RequestsHold, Requests
<1> QED BY <1>1, <1>4, <1>5, RequestsPreserve

(* ctxt becomes that of the chosen path.                                   *)
LEMMA SwapPreserves ==
  ASSUME Inv, NEW t \in Threads, Swap(t)
  PROVE  Inv'
<1>t. Types
  BY DEF Inv
<1>1. UNCHANGED <<io, available, probe, failures>> /\ Requests /\ sub[t].io # NoPath
  BY DEF Swap
<1>2. CASE UNCHANGED <<sub, ctxt>> /\ fault' = TRUE
  <2>1. Types' /\ RequestsHold'
    BY <1>t, <1>1, <1>2 DEF Types, Requests, Inv, RequestsHold
  <2> QED BY <1>1, <2>1, RequestsPreserve
<1>3. ASSUME NEW p \in Ready, sub' = [sub EXCEPT ![t].path = p, ![t].saved = ctxt],
             ctxt' = p, UNCHANGED fault
      PROVE  Inv'
  <2>1. p \in Paths /\ conn[p] = "ready"
    BY DEF Ready
  <2>2. sub' \in [Threads -> Sub]
    BY <1>t, <1>3, <2>1 DEF Types, Sub
  <2>3. /\ sub'[t].io = sub[t].io /\ sub'[t].path = p
        /\ \A u \in Threads \ {t} : sub'[u] = sub[u]
    BY <1>t, <1>3 DEF Types, Sub
  <2>4. Types'
    BY <1>t, <1>1, <1>3, <2>1, <2>2 DEF Types, Requests
  <2>5. RequestsHold'
    BY <1>1, <2>1, <2>3 DEF Inv, RequestsHold, Requests
  <2> QED BY <1>1, <2>4, <2>5, RequestsPreserve
<1> QED BY <1>2, <1>3 DEF Swap

(* bdev_iscsi_submit_request: the request belongs to the open channel of   *)
(* the thread that submits it.                                             *)
LEMMA DriverSubmitPreserves ==
  ASSUME Inv, NEW t \in Threads, DriverSubmit(t)
  PROVE  Inv'
<1>t. Types
  BY DEF Inv
<1>1. /\ sub[t].path # NoPath /\ sub' = [sub EXCEPT ![t].sent = TRUE]
      /\ fault' = (ctxt # sub[t].path)
      /\ UNCHANGED <<ctxt, available, probe, failures>> /\ Requests
  BY DEF DriverSubmit
<1>2. /\ sub[t].io # NoPath /\ sub[t].io \in Ios /\ t \in open
      /\ sub[t].path \in Paths /\ conn[sub[t].path] = "ready"
  BY <1>t, <1>1 DEF Types, Sub, Inv, RequestsHold
<1>3. /\ sub' \in [Threads -> Sub]
      /\ \A u \in Threads : sub'[u].io = sub[u].io /\ sub'[u].path = sub[u].path
  BY <1>t, <1>1 DEF Types, Sub
<1>4. CASE UNCHANGED io
  <2>1. Types'
    BY <1>t, <1>1, <1>3, <1>4 DEF Types, Requests
  <2>2. RequestsHold'
    BY <1>1, <1>3, <1>4 DEF Inv, RequestsHold, Requests
  <2> QED BY <1>1, <2>1, <2>2, RequestsPreserve
<1>5. ASSUME NEW state \in {"task", "waiting", "message", "lost"},
             io' = [io EXCEPT ![sub[t].io] = [state |-> state, at |-> t, path |-> sub[t].path]]
      PROVE  Inv'
  <2> DEFINE r == [state |-> state, at |-> t, path |-> sub[t].path]
  <2>1. r \in Io /\ r.at = t /\ r.path = sub[t].path
    BY <1>2 DEF Io
  <2> HIDE DEF r
  <2>2. io' = [io EXCEPT ![sub[t].io] = r]
    BY <1>5 DEF r
  <2>3. io' \in [Ios -> Io] /\ io'[sub[t].io] = r /\ \A j \in Ios \ {sub[t].io} : io'[j] = io[j]
    BY <1>t, <1>2, <2>1, <2>2 DEF Types
  <2>4. Types'
    BY <1>t, <1>1, <1>3, <2>3 DEF Types, Requests
  <2>5. RequestsHold'
    BY <1>1, <1>2, <1>3, <2>1, <2>3 DEF Inv, RequestsHold, Requests
  <2> QED BY <1>1, <2>4, <2>5, RequestsPreserve
<1> QED BY <1>4, <1>5 DEF DriverSubmit

(* ctxt is set back.                                                       *)
LEMMA RestorePreserves ==
  ASSUME Inv, NEW t \in Threads, Restore(t)
  PROVE  Inv'
<1>t. Types
  BY DEF Inv
<1>1. /\ ctxt' = sub[t].saved /\ sub' = [sub EXCEPT ![t] = Out]
      /\ UNCHANGED <<io, available, probe, failures, fault>> /\ Requests
  BY DEF Restore
<1>2. /\ Out \in Sub /\ Out.io = NoPath /\ Out.path = NoPath
  BY DEF Out, Sub
<1>3. /\ sub' \in [Threads -> Sub] /\ sub'[t] = Out
      /\ \A u \in Threads \ {t} : sub'[u] = sub[u]
  BY <1>t, <1>1, <1>2 DEF Types
<1>4. ctxt' \in Paths \cup {Mbdev}
  BY <1>t, <1>1 DEF Types, Sub
<1>5. Types'
  BY <1>t, <1>1, <1>3, <1>4 DEF Types, Requests
<1>6. RequestsHold'
  BY <1>1, <1>2, <1>3 DEF Inv, RequestsHold, Requests
<1> QED BY <1>1, <1>5, <1>6, RequestsPreserve

(* Setting one entry of available keeps its type.                          *)
LEMMA AvailableType ==
  ASSUME NEW a \in [Threads -> [Paths -> BOOLEAN]], NEW t \in Threads, NEW p \in Paths,
         NEW b \in BOOLEAN
  PROVE  [a EXCEPT ![t][p] = b] \in [Threads -> [Paths -> BOOLEAN]]
<1>1. [a[t] EXCEPT ![p] = b] \in [Paths -> BOOLEAN]
  OBVIOUS
<1> QED BY <1>1

(* The driver's later steps with a request; a failed one is chosen a path  *)
(* for again on its own thread.                                            *)
LEMMA ServedPreserves ==
  ASSUME Inv, NEW i \in Ios, Served(i)
  PROVE  Inv'
<1>t. Types
  BY DEF Inv
<1>0. io[i] \in Io /\ io[i].at \in Threads
  BY <1>t DEF Types, Io
<1>f. failures' \in 0..MaxFailures /\ fault' \in BOOLEAN /\ UNCHANGED ctxt /\ Requests
  <2>1. failures \in 0..MaxFailures /\ MaxFailures \in Nat /\ fault \in BOOLEAN
    BY <1>t, BoundsAssumption DEF Types
  <2>2. failures < MaxFailures => failures + 1 \in 0..MaxFailures
    BY <2>1
  <2>3. CASE ReadsCtxt(i) \/ Succeeded(i)
    BY <2>1, <2>3 DEF ReadsCtxt, Succeeded
  <2>4. CASE Failed(i) \/ Resized(i)
    BY <2>1, <2>2, <2>4 DEF Failed, Resized
  <2> QED BY <2>3, <2>4 DEF Served
<1>1. CASE ReadsCtxt(i)
  <2>1. UNCHANGED <<sub, available, probe>>
        /\ (io' = io \/ io' = [io EXCEPT ![i].state = "task"])
        /\ io[i].state \in {"waiting", "message"}
    BY <1>1 DEF ReadsCtxt
  <2>2. CASE io' = io
    <3>1. Types' /\ RequestsHold'
      BY <1>t, <1>f, <2>1, <2>2 DEF Types, Requests, Inv, RequestsHold
    <3> QED BY <1>f, <3>1, RequestsPreserve
  <2>3. CASE io' = [io EXCEPT ![i].state = "task"]
    <3>1. /\ io' \in [Ios -> Io] /\ io'[i].at = io[i].at /\ io'[i].path = io[i].path
          /\ \A j \in Ios \ {i} : io'[j] = io[j]
      BY <1>t, <2>3 DEF Types, Io
    <3>2. Types'
      BY <1>t, <1>f, <2>1, <3>1 DEF Types, Requests
    <3>3. RequestsHold'
      BY <1>f, <2>1, <3>1 DEF Inv, RequestsHold, Requests
    <3> QED BY <1>f, <3>2, <3>3, RequestsPreserve
  <2> QED BY <2>1, <2>2, <2>3
<1>2. CASE Succeeded(i)
  <2>1. UNCHANGED <<sub, available, probe>> /\ io' = [io EXCEPT ![i] = Idle]
    BY <1>2 DEF Succeeded
  <2>2. Idle \in Io /\ Idle.state = "idle"
    BY NAssumption DEF Idle, Io, Threads
  <2>3. io' \in [Ios -> Io] /\ io'[i] = Idle /\ \A j \in Ios \ {i} : io'[j] = io[j]
    BY <1>t, <2>1, <2>2 DEF Types
  <2>4. Types'
    BY <1>t, <1>f, <2>1, <2>3 DEF Types, Requests
  <2>5. RequestsHold'
    BY <1>f, <2>1, <2>2, <2>3 DEF Inv, RequestsHold, Requests
  <2> QED BY <1>f, <2>4, <2>5, RequestsPreserve
<1>3. CASE Failed(i)
  <2> DEFINE t == io[i].at
             p == io[i].path
             r == [state |-> "chosen", at |-> t, path |-> NoPath]
  <2>1. /\ available' = [available EXCEPT ![t][p] = FALSE]
        /\ probe' = probe \/ probe' = [probe EXCEPT ![t][p].state = "polling"]
        /\ io' = [io EXCEPT ![i] = r]
        /\ sub' = [sub EXCEPT ![t].io = i] /\ io[i].state = "task" /\ sub[t] = Out
    BY <1>3 DEF Failed, Serves, Free
  <2>2. t \in Threads /\ t \in open /\ p \in Paths
    BY <1>0, <2>1 DEF Inv, RequestsHold
  <2>3. r \in Io /\ r.state = "chosen"
    BY <2>2 DEF Io
  <2>4. available' \in [Threads -> [Paths -> BOOLEAN]]
    BY <1>t, <2>1, <2>2, AvailableType DEF Types
  <2>5. probe' \in [Threads -> [Paths -> Probe]]
    <3>1. probe[t] \in [Paths -> Probe]
      BY <1>t, <2>2 DEF Types
    <3>2. [probe[t] EXCEPT ![p].state = "polling"] \in [Paths -> Probe]
      BY <2>2, <3>1 DEF Probe
    <3>3. [probe EXCEPT ![t] = [probe[t] EXCEPT ![p].state = "polling"]] \in [Threads -> [Paths -> Probe]]
      BY <1>t, <2>2, <3>2 DEF Types
    <3> QED BY <1>t, <2>1, <3>3 DEF Types
  <2> HIDE DEF r, t
  <2>6. io' \in [Ios -> Io] /\ io'[i] = r /\ \A j \in Ios \ {i} : io'[j] = io[j]
    BY <1>t, <2>1, <2>3 DEF Types
  <2>7. /\ sub' \in [Threads -> Sub] /\ sub'[t].path = NoPath
        /\ \A u \in Threads \ {t} : sub'[u] = sub[u]
    <3>1. sub'[t] = [Out EXCEPT !.io = i] /\ \A u \in Threads \ {t} : sub'[u] = sub[u]
      BY <1>t, <2>1, <2>2 DEF Types
    <3>2. sub' = [sub EXCEPT ![t].io = i] /\ sub \in [Threads -> Sub]
      BY <1>t, <2>1 DEF Types
    <3>3. sub' \in [Threads -> Sub]
      BY <3>2, <2>2 DEF Sub
    <3> QED BY <3>1, <3>3 DEF Out
  <2>8. Types'
    BY <1>t, <1>f, <2>4, <2>5, <2>6, <2>7 DEF Types, Requests
  <2>9. RequestsHold'
    BY <1>f, <2>2, <2>3, <2>6, <2>7 DEF Inv, RequestsHold, Requests
  <2> QED BY <1>f, <2>8, <2>9, RequestsPreserve
<1>4. CASE Resized(i)
  <2>1. UNCHANGED <<io, sub, available, probe>>
    BY <1>4 DEF Resized
  <2>2. Types' /\ RequestsHold'
    BY <1>t, <1>f, <2>1 DEF Types, Requests, Inv, RequestsHold
  <2> QED BY <1>f, <2>2, RequestsPreserve
<1> QED BY <1>1, <1>2, <1>3, <1>4 DEF Served

(* The failback poller and its probe.                                      *)
LEMMA ProbesPreserve ==
  ASSUME Inv, NEW p \in Paths, NEW t \in Threads,
         FailbackPoll(p, t) \/ \E s \in BOOLEAN : ProbeAnswered(p, t, s)
  PROVE  Inv'
<1>t. Types
  BY DEF Inv
<1>1. UNCHANGED <<io, ctxt, sub, failures>> /\ Requests /\ fault' \in BOOLEAN
  BY <1>t DEF Types, FailbackPoll, ProbeAnswered
<1>2. \E r \in Probe : probe' = [probe EXCEPT ![t][p] = r]
  <2>1. CASE FailbackPoll(p, t)
    <3>1. [state |-> "lost", lun |-> NoPath] \in Probe
      BY DEF Probe
    <3>2. CASE ctxt = Mbdev /\ probe' = [probe EXCEPT ![t][p] = [state |-> "lost", lun |-> NoPath]]
      BY <3>1, <3>2
    <3>3. CASE UNCHANGED probe
      <4>1. probe[t][p] \in Probe /\ probe = [probe EXCEPT ![t][p] = probe[t][p]]
        BY <1>t DEF Types
      <4> QED BY <3>3, <4>1
    <3>4. CASE /\ ctxt # Mbdev
               /\ IF lun[ctxt].main = t
                  THEN probe' = [probe EXCEPT ![t][p] = [state |-> "sent", lun |-> ctxt]]
                  ELSE probe' = [probe EXCEPT ![t][p] = [state |-> "lost", lun |-> NoPath]]
      <4>1. [state |-> "sent", lun |-> ctxt] \in Probe
        BY <1>t, <3>4 DEF Types, Probe
      <4> QED BY <3>1, <3>4, <4>1
    <3> QED BY <2>1, <3>2, <3>3, <3>4 DEF FailbackPoll
  <2>2. CASE \E s \in BOOLEAN : ProbeAnswered(p, t, s)
    <3>1. NoProbe \in Probe /\ [state |-> "polling", lun |-> NoPath] \in Probe
      BY DEF NoProbe, Probe
    <3> QED BY <2>2, <3>1 DEF ProbeAnswered
  <2> QED BY <2>1, <2>2
<1>3. probe' \in [Threads -> [Paths -> Probe]]
  BY <1>t, <1>2 DEF Types
<1>4. available' \in [Threads -> [Paths -> BOOLEAN]]
  <2>1. available \in [Threads -> [Paths -> BOOLEAN]]
    BY <1>t DEF Types
  <2>2. available' = available \/ \E s \in BOOLEAN : available' = [available EXCEPT ![t][p] = s]
    BY DEF FailbackPoll, ProbeAnswered
  <2> QED BY <2>1, <2>2, AvailableType
<1>5. Types' /\ RequestsHold'
  BY <1>t, <1>1, <1>3, <1>4 DEF Types, Requests, Inv, RequestsHold
<1> QED BY <1>1, <1>5, RequestsPreserve

-----------------------------------------------------------------------------
(* The invariant.                                                          *)

(* Nothing is connected at first.                                          *)
LEMMA InitInv == Init => Inv
<1> SUFFICES ASSUME Init
             PROVE  Inv
  OBVIOUS
<1>1. Types
  <2>1. /\ Out \in Sub /\ Idle \in Io /\ NoProbe \in Probe
        /\ [main |-> 0, count |-> 0, poller |-> 0, msg |-> 0, serving |-> FALSE] \in LunType
    BY NAssumption DEF Out, Sub, Idle, Io, NoProbe, Probe, LunType, Threads
  <2>2. 0 \in 0..MaxFailures /\ 0 \in 0..MaxResizes
    BY BoundsAssumption
  <2>3. /\ conn \in [Paths -> Stages] /\ lun \in [Paths -> LunType]
        /\ hold \in [Paths -> [Threads -> {"none", "open", "putting"}]]
    BY <2>1 DEF Init, Stages
  <2>4. /\ sub \in [Threads -> Sub] /\ io \in [Ios -> Io]
        /\ probe \in [Threads -> [Paths -> Probe]]
    BY <2>1 DEF Init
  <2>5. available \in [Threads -> [Paths -> BOOLEAN]]
    BY DEF Init
  <2>6. /\ open \subseteq Threads /\ ctxt \in Paths \cup {Mbdev} /\ fault \in BOOLEAN
        /\ failures \in 0..MaxFailures /\ resizes \in 0..MaxResizes
    BY <2>2 DEF Init
  <2> QED BY <2>3, <2>4, <2>5, <2>6 DEF Types
<1>2. LunsAreHeld
  <2>1. \A p \in Paths : Holders(p) = {}
    BY DEF Init, Holders
  <2>2. \A p \in Paths : /\ lun[p].count = 0 /\ lun[p].main = 0
                         /\ lun[p].poller = 0 /\ lun[p].msg = 0
    BY DEF Init
  <2>3. Cardinality({}) = 0
    BY FS_EmptySet
  <2> QED BY <2>1, <2>2, <2>3 DEF LunsAreHeld, Held, One
<1>3. ServedAlone /\ OpenHolds
  BY DEF Init, ServedAlone, OpenHolds
<1>4. RequestsHold
  BY DEF Init, RequestsHold, Out, Idle
<1> QED BY <1>1, <1>2, <1>3, <1>4 DEF Inv

(* Every step, and stuttering, keeps the invariant.                        *)
LEMMA NextPreserves == Inv /\ [Next]_vars => Inv'
<1> SUFFICES ASSUME Inv, [Next]_vars
             PROVE  Inv'
  OBVIOUS
<1>1. CASE UNCHANGED vars
  BY <1>1 DEF vars, Inv, Types, LunsAreHeld, Holders, ServedAlone, OpenHolds, RequestsHold
<1>2. ASSUME NEW p \in Paths, CreateDisk(p) \/ Connects(p)
      PROVE  Inv'
  BY <1>2, ConnectingPreserves
<1>3. ASSUME NEW p \in Paths, MainDestroys(p) \/ NoMainPoll(p) \/ NoMainPolled(p)
      PROVE  Inv'
  BY <1>3, LunActionPreserves
<1>4. ASSUME NEW t \in Threads, OpenChannel(t)
      PROVE  Inv'
  BY <1>4, OpenChannelPreserves
<1>5. ASSUME NEW t \in Threads, CloseChannel(t)
      PROVE  Inv'
  BY <1>5, CloseChannelPreserves
<1>6. ASSUME NEW t \in Threads, Submits(t)
      PROVE  Inv'
  BY <1>6, SwapPreserves, DriverSubmitPreserves, RestorePreserves DEF Submits
<1>7. ASSUME NEW p \in Paths, NEW t \in Threads, DestroyChannel(p, t)
      PROVE  Inv'
  BY <1>7, DestroyChannelPreserves
<1>8. ASSUME NEW p \in Paths, NEW t \in Threads,
             FailbackPoll(p, t) \/ \E s \in BOOLEAN : ProbeAnswered(p, t, s)
      PROVE  Inv'
  BY <1>8, ProbesPreserve
<1>9. ASSUME NEW i \in Ios, NEW t \in Threads, Submit(i, t)
      PROVE  Inv'
  BY <1>9, SubmitPreserves
<1>10. ASSUME NEW i \in Ios, Served(i)
       PROVE  Inv'
  BY <1>10, ServedPreserves
<1> QED BY <1>1, <1>2, <1>3, <1>4, <1>5, <1>6, <1>7, <1>8, <1>9, <1>10 DEF Next

(* The inductive invariant holds in every reachable state.                 *)
THEOREM Invariance == Spec => []Inv
<1>1. Init => Inv
  BY InitInv
<1>2. Inv /\ [Next]_vars => Inv'
  BY NextPreserves
<1> QED BY <1>1, <1>2, PTL DEF Spec

(* Held is what MainThreadIsHeld says of a LUN.                            *)
LEMMA InvImpliesMainThreadIsHeld == Inv => MainThreadIsHeld
BY DEF Inv, LunsAreHeld, Held, One, Holders, MainThreadIsHeld

(* At most every thread and the message are counted.                       *)
LEMMA InvImpliesTypeOK == Inv => TypeOK
<1> SUFFICES ASSUME Inv
             PROVE  TypeOK
  OBVIOUS
<1>1. ASSUME NEW p \in Paths
      PROVE  lun[p] \in Lun
  <2>1. hold[p] \in [Threads -> {"none", "open", "putting"}] /\ lun[p] \in LunType
    BY DEF Inv, Types
  <2>2. Cardinality(Holders(p)) \in Nat /\ Cardinality(Holders(p)) <= N
    BY <2>1, HoldersFinite DEF Holders
  <2>3. lun[p].count <= N + 1
    BY <2>2, NAssumption DEF Inv, LunsAreHeld, Held, One
  <2> QED BY <2>1, <2>3, NAssumption DEF LunType, Lun
<1>2. lun \in [Paths -> Lun]
  BY <1>1 DEF Inv, Types
<1> QED BY <1>2 DEF Inv, Types, TypeOK

(* A task's thread holds its LUN, so that the LUN is not served alone.     *)
LEMMA InvImpliesOneServer == Inv => OneServer
<1> SUFFICES ASSUME Inv, NEW p \in Paths, lun[p].serving
             PROVE  lun[p].poller = 0 /\ \A i \in Ios : io[i].state = "task" => io[i].path # p
  BY DEF OneServer
<1>t. Types /\ LunsAreHeld
  BY DEF Inv
<1>1. lun[p].count = 0 /\ lun[p].poller = 0
  BY DEF Inv, ServedAlone, LunsAreHeld, Held
<1>2. ASSUME NEW i \in Ios, io[i].state = "task", io[i].path = p
      PROVE  FALSE
  <2>1. io[i].at \in open /\ conn[p] = "ready"
    BY <1>2 DEF Inv, RequestsHold
  <2>2. hold[p][io[i].at] = "open" /\ io[i].at \in Threads
    BY <1>t, <2>1 DEF Inv, OpenHolds, Types
  <2>3. lun[p].count > 0
    BY <1>t, <2>2, HolderCounts
  <2> QED BY <1>1, <2>3
<1> QED BY <1>1, <1>2

(* Every variable keeps its type: the channel count of a LUN is at most    *)
(* one more than the number of threads.                                    *)
THEOREM TypeCorrectness == Spec => []TypeOK
BY Invariance, InvImpliesTypeOK, PTL

(* Main thread, poller and count of a LUN agree through every race of      *)
(* bdev_iscsi_create_cb, bdev_iscsi_destroy_cb and its message, for any    *)
(* number of threads.                                                      *)
THEOREM MainThreadHolds == Spec => []MainThreadIsHeld
BY Invariance, InvImpliesMainThreadIsHeld, PTL

(* bdev_iscsi_no_main_ch_poll never serves an iscsi context that the main  *)
(* thread's poller, or a task, uses as well.                               *)
THEOREM ServedByOne == Spec => []OneServer
BY Invariance, InvImpliesOneServer, PTL
=============================================================================
