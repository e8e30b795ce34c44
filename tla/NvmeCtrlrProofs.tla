--------------------------- MODULE NvmeCtrlrProofs ---------------------------
(***************************************************************************)
(* Proofs about NvmeCtrlr for any number of threads and any options.  Inv  *)
(* is inductive: what carries a reset sequence is one token, handed from   *)
(* handler to handler, the references are counted, and a controller is     *)
(* unregistered by whoever finds it unused, which only one can.            *)
(***************************************************************************)
EXTENDS NvmeCtrlr, FiniteSetTheorems, WellFoundedInduction, TLAPS

Counted == RefsCounted /\ IsFiniteSet(Outlived)

(* What cannot be undone, and what depends on the transport.               *)
Lasting ==
  /\ ctrlr.reset_start = "lost" => opts.loss
  /\ removed => ~opts.fabrics /\ ctrlr.destruct

(* The controller is told to go at most once, when nothing uses it, and    *)
(* nothing uses it again.                                                  *)
UnregisteredOnce(c) ==
  /\ c.unregisters = IF c.phase = "live" THEN 0 ELSE 1
  /\ c.unregister_msg => c.phase = "live" /\ CanBeUnregistered(c)
  /\ c.phase # "live" => CanBeUnregistered(c)

Leaves ==
  /\ ctrlr.destruct <=> ns # "present"
  /\ ctrlr.io_path_cache_clearing <=> cache # 0
  /\ ctrlr.phase \in {"detaching", "freed"} =>
       ~ctrlr.fault /\ adminq = "gone" /\ ~seq.timer /\ seq.iter.fn = "none"
  /\ seq.poller = "detach" <=> ctrlr.phase = "detaching"

(* The token: a message, an iteration, a callback, a poller or the timer.  *)
Alone(s) ==
  /\ s.msg => s.iter.fn = "none"
  /\ s.msg \/ s.iter.fn # "none" => s.disconnected_cb = "none"
  /\ s.msg \/ s.iter.fn # "none" \/ s.disconnected_cb # "none" => s.poller # "reconnect"
  /\ s.msg \/ s.iter.fn # "none" \/ s.disconnected_cb # "none" \/ s.poller = "reconnect"
       => ~s.timer

Carries(s) ==
  \/ s.msg
  \/ s.iter.fn # "none"
  \/ s.disconnected_cb \in {"destroy", "reconnect"}
  \/ s.poller = "reconnect"

Waits ==
  \A t \in Threads :
    chan[t].reset_iter => seq.iter.fn \in {"destroy", "undo"} /\ seq.iter.at = t

(* A sequence has a start, and forgets it when it ends unless another      *)
(* attempt is to come.                                                     *)
Clocked ==
  /\ ctrlr.resetting \/ seq.timer \/ seq.disconnected_cb = "delay" => ctrlr.reset_start # "unset"
  /\ ctrlr.reset_start # "unset" => opts.delay \/ ctrlr.destruct \/ ctrlr.resetting

(* The driver is disconnected only for a sequence that will reconnect it,  *)
(* so that it does not refuse to be disconnected for the next one.         *)
Driven ==
  /\ drv = "disconnecting" <=> seq.disconnected_cb # "none"
  /\ drv = "down" =>
       \/ seq.timer \/ seq.poller = "reconnect"
       \/ ctrlr.destruct /\ ~ctrlr.resetting
       \/ ~opts.fabrics /\ seq.iter.fn = "destroy"
       \/ ctrlr.reset_start = "lost" /\ seq.iter.fn = "pending" /\ ~seq.iter.ok
  /\ seq.disconnected_cb = "destroy" => ~opts.fabrics

Sequenced ==
  ~(ctrlr.fault /\ opts.delay) =>
    Alone(seq) /\ (ctrlr.resetting <=> Carries(seq)) /\ Waits /\ Clocked /\ Driven

Inv == TypeOK /\ Counted /\ Lasting /\ UnregisteredOnce(ctrlr) /\ Leaves /\ Sequenced

USE NAssumption, ConfigsAssumption
USE DEF Threads

-----------------------------------------------------------------------------
(* Iterations.                                                             *)

(* Every non-empty set of naturals has a least element.                    *)
LEMMA LeastNatural ==
  ASSUME NEW T \in SUBSET Nat, T # {}
  PROVE  \E m \in T : \A n \in T : m <= n
<1>1. PICK R : IsWellFoundedOn(R, Nat) /\ \A m, n \in Nat : n < m => <<n, m>> \in R
  <2>1. \A m, n \in Nat : n < m => <<n, m>> \in OpToRel(<, Nat)
    BY DEF OpToRel
  <2> QED BY <2>1, NatLessThanWellFounded, Zenon
<1>2. PICK m \in T : \A n \in T : ~ (<<n, m>> \in R)
  BY <1>1, WFMin, Zenon
<1>3. ASSUME NEW n \in T PROVE m <= n
  <2>1. ~ (n < m)
    BY <1>1, <1>2
  <2> QED BY <2>1
<1> QED BY <1>3

(* The next channel is a thread behind t, or the end of the iteration.     *)
LEMMA NextChannelType ==
  ASSUME NEW t \in 0..N, NEW h
  PROVE  NextChannel(t, h) \in 1..N + 1
<1>1. CASE \E u \in t + 1..N : h[u].open
  <2> DEFINE T == {u \in t + 1..N : h[u].open}
  <2>1. T \in SUBSET Nat /\ T # {}
    BY <1>1
  <2>2. PICK u \in T : \A v \in T : u <= v
    BY <2>1, LeastNatural
  <2>3. u \in t + 1..N /\ h[u].open /\ \A v \in t + 1..u - 1 : ~h[v].open
    BY <2>2
  <2> DEFINE P(v) == v \in t + 1..N /\ h[v].open /\ \A w \in t + 1..v - 1 : ~h[w].open
  <2>4. NextChannel(t, h) = CHOOSE v : P(v)
    BY <1>1, Zenon DEF NextChannel
  <2>5. P(NextChannel(t, h))
    <3> HIDE DEF P
    <3>1. P(u)
      BY <2>3 DEF P
    <3> QED BY <2>4, <3>1, Zenon
  <2> QED BY <2>5
<1>2. CASE ~\E u \in t + 1..N : h[u].open
  BY <1>2 DEF NextChannel
<1> QED BY <1>1, <1>2

(* An iteration starts at the first channel.                               *)
LEMMA CarryType ==
  ASSUME NEW s \in Sequence, NEW fn \in {"destroy", "create", "undo", "pending"},
         NEW ok \in BOOLEAN
  PROVE  LET r == Carry(s, fn, ok)
         IN  /\ r \in Sequence
             /\ r.iter.fn = fn /\ r.iter.ok = ok
             /\ (r.msg <=> s.msg) /\ (r.timer <=> s.timer)
             /\ r.reset_cb = s.reset_cb /\ r.disconnected_cb = s.disconnected_cb
             /\ r.poller = s.poller
<1> DEFINE i == [fn |-> fn, at |-> NextChannel(0, chan), ok |-> ok]
<1>1. i \in Iteration /\ i.fn = fn /\ i.ok = ok
  BY NextChannelType DEF Iteration
<1>2. Carry(s, fn, ok) = [s EXCEPT !.iter = i]
  BY DEF Carry, Start
<1> HIDE DEF i
<1> QED BY <1>1, <1>2 DEF Sequence

(* An iteration goes on to the next channel.                               *)
LEMMA ContinueType ==
  ASSUME NEW s \in Sequence, s.iter.at \in 0..N, NEW h
  PROVE  LET r == [s EXCEPT !.iter = Continue(@, h)]
         IN  /\ r \in Sequence
             /\ r.iter.fn = s.iter.fn /\ (r.iter.ok <=> s.iter.ok)
             /\ (r.msg <=> s.msg) /\ (r.timer <=> s.timer)
             /\ r.reset_cb = s.reset_cb /\ r.disconnected_cb = s.disconnected_cb
             /\ r.poller = s.poller
<1> DEFINE i == Continue(s.iter, h)
<1>1. s.iter \in Iteration
  BY DEF Sequence
<1>2. i \in Iteration /\ i.fn = s.iter.fn /\ (i.ok <=> s.iter.ok)
  BY <1>1, NextChannelType DEF Continue, Iteration
<1>3. [s EXCEPT !.iter = Continue(@, h)] = [s EXCEPT !.iter = i]
  OBVIOUS
<1> HIDE DEF i
<1> QED BY <1>2, <1>3 DEF Sequence

-----------------------------------------------------------------------------
(* The controller.                                                         *)

(* Unregistering.                                                          *)
LEMMA UnregisterProperties ==
  ASSUME NEW c \in Ctrlr, CanBeUnregistered(c), c.phase = "live", c.unregisters = 0,
         ~c.unregister_msg
  PROVE  LET d == Unregister(c)
         IN  /\ d \in Ctrlr /\ UnregisteredOnce(d)
             /\ d.ref = c.ref /\ d.phase = "unregistering" /\ d.reset_start = c.reset_start
             /\ (d.destruct <=> c.destruct) /\ (d.resetting <=> c.resetting)
             /\ (d.io_path_cache_clearing <=> c.io_path_cache_clearing)
             /\ (d.fault <=> c.fault)
<1> DEFINE d == Unregister(c)
<1>1. d \in Ctrlr
  <2>1. d = [c EXCEPT !.phase = "unregistering", !.unregisters = 1]
    BY DEF Unregister
  <2> HIDE DEF d
  <2> QED BY <2>1 DEF Ctrlr
<1>2. d.phase = "unregistering" /\ d.unregisters = 1
  BY DEF Unregister, Ctrlr
<1>3. d.ref = c.ref /\ d.ana = c.ana /\ d.reset_start = c.reset_start
  BY DEF Unregister, Ctrlr
<1>4. /\ (d.destruct <=> c.destruct) /\ (d.resetting <=> c.resetting)
      /\ (d.io_path_cache_clearing <=> c.io_path_cache_clearing)
      /\ (d.fault <=> c.fault) /\ (d.unregister_msg <=> c.unregister_msg)
  BY DEF Unregister, Ctrlr
<1>5. UnregisteredOnce(d)
  BY <1>2, <1>3, <1>4 DEF UnregisteredOnce, CanBeUnregistered
<1> QED BY <1>1, <1>2, <1>3, <1>4, <1>5

(* A reference that is left cannot have been the last of a controller that *)
(* is unregistered already.                                                *)
LEMMA ReleaseProperties ==
  ASSUME NEW c \in Ctrlr, UnregisteredOnce(c), c.ref >= 1, NEW t \in Threads
  PROVE  LET d == Release(c, t)
         IN  /\ d \in Ctrlr /\ UnregisteredOnce(d)
             /\ d.ref = c.ref - 1 /\ d.phase \in {"live", "unregistering"}
             /\ d.reset_start = c.reset_start
             /\ (d.destruct <=> c.destruct) /\ (d.resetting <=> c.resetting)
             /\ (d.io_path_cache_clearing <=> c.io_path_cache_clearing)
             /\ (d.fault <=> c.fault)
             /\ c.phase = "live"
<1> DEFINE e == [c EXCEPT !.ref = @ - 1]
<1>1. c.ref \in Nat /\ c.ref # 0
  BY DEF Ctrlr
<1>2. c.phase = "live" /\ c.unregisters = 0 /\ ~c.unregister_msg
  BY <1>1 DEF UnregisteredOnce, CanBeUnregistered
<1>3. e \in Ctrlr
  BY <1>1 DEF Ctrlr
<1>4. /\ e.ref = c.ref - 1 /\ e.phase = c.phase /\ e.reset_start = c.reset_start
      /\ e.unregisters = c.unregisters
  BY DEF Ctrlr
<1>5. /\ (e.destruct <=> c.destruct) /\ (e.resetting <=> c.resetting)
      /\ (e.io_path_cache_clearing <=> c.io_path_cache_clearing)
      /\ (e.fault <=> c.fault) /\ (e.unregister_msg <=> c.unregister_msg)
  BY DEF Ctrlr
<1> HIDE DEF e
<1>6. CASE ~CanBeUnregistered(e)
  <2>1. Release(c, t) = e
    BY <1>6 DEF Release, e
  <2>2. UnregisteredOnce(e)
    BY <1>2, <1>4, <1>5 DEF UnregisteredOnce
  <2> QED BY <1>2, <1>3, <1>4, <1>5, <2>1, <2>2
<1>7. CASE CanBeUnregistered(e) /\ t = 1
  <2>1. Release(c, t) = Unregister(e)
    BY <1>7 DEF Release, e
  <2> QED BY <1>2, <1>3, <1>4, <1>5, <1>7, <2>1, UnregisterProperties
<1>8. CASE CanBeUnregistered(e) /\ t # 1
  <2> DEFINE d == [e EXCEPT !.unregister_msg = TRUE]
  <2>1. Release(c, t) = d
    BY <1>8 DEF Release, e
  <2>2. d \in Ctrlr
    BY <1>3 DEF Ctrlr
  <2>3. /\ d.ref = e.ref /\ d.phase = e.phase /\ d.reset_start = e.reset_start
        /\ d.unregisters = e.unregisters /\ d.ana = e.ana
    BY <1>3 DEF Ctrlr
  <2>4. /\ (d.destruct <=> e.destruct) /\ (d.resetting <=> e.resetting)
        /\ (d.io_path_cache_clearing <=> e.io_path_cache_clearing)
        /\ (d.fault <=> e.fault)
    BY <1>3 DEF Ctrlr
  <2> HIDE DEF d
  <2>5. UnregisteredOnce(d)
    BY <1>2, <1>4, <1>8, <2>3, <2>4 DEF UnregisteredOnce, CanBeUnregistered
  <2> QED BY <1>2, <1>4, <1>5, <2>1, <2>2, <2>3, <2>4, <2>5
<1> QED BY <1>6, <1>7, <1>8

(* Starting a sequence changes nothing of what deletion looks at, but that *)
(* the controller is resetting.                                            *)
LEMMA BeginResetProperties ==
  ASSUME NEW c \in Ctrlr, ~c.destruct, UnregisteredOnce(c)
  PROVE  LET d == BeginReset(c)
         IN  /\ d \in Ctrlr /\ UnregisteredOnce(d)
             /\ d.resetting /\ d.reset_start = "running"
             /\ (d.fault <=> c.fault \/ c.reset_start # "unset")
             /\ ~d.destruct /\ d.ref = c.ref /\ d.phase = "live"
             /\ (d.io_path_cache_clearing <=> c.io_path_cache_clearing)
<1> DEFINE d == BeginReset(c)
<1>1. d \in Ctrlr /\ d.resetting /\ d.reset_start = "running"
  BY DEF BeginReset, Ctrlr
<1>2. d.ref = c.ref /\ d.phase = c.phase /\ d.unregisters = c.unregisters
  BY DEF BeginReset, Ctrlr
<1>3. /\ (d.destruct <=> c.destruct) /\ (d.unregister_msg <=> c.unregister_msg)
      /\ (d.io_path_cache_clearing <=> c.io_path_cache_clearing)
  BY DEF BeginReset, Ctrlr
<1>4. d.fault <=> c.fault \/ c.reset_start # "unset"
  BY DEF BeginReset, Ctrlr
<1> HIDE DEF d
<1>5. c.phase = "live" /\ ~c.unregister_msg
  BY DEF UnregisteredOnce, CanBeUnregistered, Ctrlr
<1>6. UnregisteredOnce(d)
  BY <1>2, <1>3, <1>5 DEF UnregisteredOnce
<1> QED BY <1>1, <1>2, <1>3, <1>4, <1>5, <1>6 DEF d

-----------------------------------------------------------------------------
(* References.                                                             *)

(* What counts of the references that are no channel's and no qpair's.     *)
One(b) == IF b THEN 1 ELSE 0

(* There are finitely many channels.                                       *)
LEMMA FiniteHolders ==
  /\ IsFiniteSet(Holders) /\ Cardinality(Holders) \in Nat
  /\ IsFiniteSet(Outlived) => Cardinality(Outlived) \in Nat
<1>1. IsFiniteSet(1..N) /\ Holders \subseteq 1..N
  BY FS_Interval DEF Holders
<1> QED BY <1>1, FS_Subset, FS_CardinalityType

(* References, counted.                                                    *)
LEMMA RefsSum ==
  RefsCounted <=>
    ctrlr.ref = One(~ctrlr.destruct) + One(ns # "gone")
                + Cardinality(Holders) + Cardinality(Outlived)
  BY DEF RefsCounted, One

(* A handler that makes and drops no reference.                            *)
LEMMA RefsStay ==
  ASSUME Counted, ctrlr'.ref = ctrlr.ref, ctrlr'.destruct <=> ctrlr.destruct,
         ns' = "gone" <=> ns = "gone", orphans' = orphans,
         \A t \in Threads : chan'[t].open <=> chan[t].open
  PROVE  Counted'
<1>1. Holders' = Holders /\ Outlived' = Outlived
  BY DEF Holders, Outlived
<1> QED BY <1>1 DEF Counted, RefsCounted

(* A handler that makes or drops a channel's or a qpair's references.      *)
LEMMA RefsMove ==
  ASSUME RefsCounted, ctrlr'.destruct <=> ctrlr.destruct, ns' = "gone" <=> ns = "gone",
         Cardinality(Holders) \in Nat, Cardinality(Outlived) \in Nat,
         Cardinality(Holders') \in Int, Cardinality(Outlived') \in Int,
         ctrlr'.ref = ctrlr.ref + (Cardinality(Holders') - Cardinality(Holders))
                                + (Cardinality(Outlived') - Cardinality(Outlived))
  PROVE  RefsCounted'
<1> DEFINE first == One(~ctrlr.destruct) + One(ns # "gone")
<1>1. first \in Nat
  BY DEF One
<1>2. ctrlr.ref = first + Cardinality(Holders) + Cardinality(Outlived)
  BY RefsSum
<1>3. RefsCounted' <=> ctrlr'.ref = first + Cardinality(Holders') + Cardinality(Outlived')
  BY DEF RefsCounted, One
<1> HIDE DEF first
<1> QED BY <1>1, <1>2, <1>3

(* A qpair that outlives its channel, and its end.                         *)
LEMMA OutlivedSteps ==
  ASSUME orphans \in [Threads -> Nat], NEW t \in Threads, IsFiniteSet(Outlived)
  PROVE  /\ orphans' = [orphans EXCEPT ![t] = @ + 1] =>
              IsFiniteSet(Outlived') /\ Cardinality(Outlived') = Cardinality(Outlived) + 1
         /\ orphans[t] > 0 /\ orphans' = [orphans EXCEPT ![t] = @ - 1] =>
              IsFiniteSet(Outlived') /\ Cardinality(Outlived') = Cardinality(Outlived) - 1
<1>0. \A p : p \in Outlived <=> \E u \in Threads : \E n \in 1..orphans[u] : p = <<u, n>>
  BY DEF Outlived
<1>1. \A p : p \in Outlived' <=> \E u \in Threads : \E n \in 1..orphans'[u] : p = <<u, n>>
  BY DEF Outlived
<1>2. ASSUME orphans' = [orphans EXCEPT ![t] = @ + 1]
      PROVE  IsFiniteSet(Outlived') /\ Cardinality(Outlived') = Cardinality(Outlived) + 1
  <2> DEFINE p == <<t, orphans[t] + 1>>
  <2>1. p \notin Outlived
    BY <1>0
  <2>2. Outlived' = Outlived \cup {p}
    <3>1. ASSUME NEW q \in Outlived' PROVE q \in Outlived \cup {p}
      BY <1>0, <1>1, <1>2, <3>1
    <3>2. ASSUME NEW q \in Outlived PROVE q \in Outlived'
      BY <1>0, <1>1, <1>2, <3>2
    <3>3. p \in Outlived'
      BY <1>1, <1>2
    <3> QED BY <3>1, <3>2, <3>3
  <2> QED BY <2>1, <2>2, FS_AddElement
<1>3. ASSUME orphans[t] > 0, orphans' = [orphans EXCEPT ![t] = @ - 1]
      PROVE  IsFiniteSet(Outlived') /\ Cardinality(Outlived') = Cardinality(Outlived) - 1
  <2> DEFINE p == <<t, orphans[t]>>
  <2>1. p \in Outlived
    BY <1>0, <1>3
  <2>2. Outlived' = Outlived \ {p}
    <3>1. ASSUME NEW q \in Outlived' PROVE q \in Outlived /\ q # p
      BY <1>0, <1>1, <1>3, <3>1
    <3>2. ASSUME NEW q \in Outlived, q # p PROVE q \in Outlived'
      BY <1>0, <1>1, <1>3, <3>2
    <3> QED BY <3>1, <3>2
  <2> QED BY <2>1, <2>2, FS_RemoveElement
<1> QED BY <1>2, <1>3

(* A channel that opens or closes.                                         *)
LEMMA HoldersSteps ==
  ASSUME NEW t \in Threads, \A u \in Threads \ {t} : chan'[u].open <=> chan[u].open
  PROVE  /\ ~chan[t].open /\ chan'[t].open => Cardinality(Holders') = Cardinality(Holders) + 1
         /\ chan[t].open /\ ~chan'[t].open => Cardinality(Holders') = Cardinality(Holders) - 1
<1>1. IsFiniteSet(Holders)
  BY FiniteHolders
<1>2. ASSUME ~chan[t].open, chan'[t].open
      PROVE  Cardinality(Holders') = Cardinality(Holders) + 1
  <2>1. t \notin Holders /\ Holders' = Holders \cup {t}
    BY <1>2 DEF Holders
  <2> QED BY <1>1, <2>1, FS_AddElement
<1>3. ASSUME chan[t].open, ~chan'[t].open
      PROVE  Cardinality(Holders') = Cardinality(Holders) - 1
  <2>1. t \in Holders /\ Holders' = Holders \ {t}
    BY <1>3 DEF Holders
  <2> QED BY <1>1, <2>1, FS_RemoveElement
<1> QED BY <1>2, <1>3

(* Whoever holds a reference can drop it.                                  *)
LEMMA RefsHeld ==
  ASSUME TypeOK, Counted
  PROVE  /\ ~ctrlr.destruct => ctrlr.ref >= 1
         /\ ns # "gone" => ctrlr.ref >= 1
         /\ ~ctrlr.destruct /\ ns # "gone" => ctrlr.ref >= 2
         /\ \A t \in Threads : chan[t].open => ctrlr.ref >= 1
         /\ \A t \in Threads : orphans[t] > 0 => ctrlr.ref >= 1
<1>1. /\ Cardinality(Holders) \in Nat /\ Cardinality(Outlived) \in Nat
      /\ IsFiniteSet(Holders) /\ IsFiniteSet(Outlived)
  BY FiniteHolders DEF Counted
<1>2. ctrlr.ref = One(~ctrlr.destruct) + One(ns # "gone")
                  + Cardinality(Holders) + Cardinality(Outlived)
  BY RefsSum DEF Counted
<1>3. \A t \in Threads : chan[t].open => Cardinality(Holders) >= 1
  <2>1. ASSUME NEW t \in Threads, chan[t].open PROVE Holders # {}
    BY <2>1 DEF Holders
  <2> QED BY <1>1, <2>1, FS_EmptySet
<1>4. \A t \in Threads : orphans[t] > 0 => Cardinality(Outlived) >= 1
  <2>1. ASSUME NEW t \in Threads, orphans[t] > 0 PROVE Outlived # {}
    <3>1. orphans[t] \in Nat
      BY DEF TypeOK
    <3>2. <<t, 1>> \in {t} \X (1..orphans[t])
      BY <2>1, <3>1
    <3> QED BY <3>2 DEF Outlived
  <2> QED BY <1>1, <2>1, FS_EmptySet
<1> QED BY <1>1, <1>2, <1>3, <1>4 DEF One

-----------------------------------------------------------------------------
(* The reset sequence.                                                     *)

(* How the driver's controller may change without a sequence.              *)
DriverStays ==
  (drv' = "disconnecting" <=> drv = "disconnecting") /\ (drv' = "down" => drv = "down")

(* No iteration is left to wait for a channel's qpair.                     *)
NoneWait == \A t \in Threads : chan'[t].reset_iter => chan[t].reset_iter

(* A handler that does not touch the sequence.                             *)
LEMMA SequenceStays ==
  ASSUME Sequenced, ~ctrlr.fault, seq' = seq, opts' = opts, DriverStays, NoneWait,
         ctrlr'.resetting <=> ctrlr.resetting, ctrlr'.reset_start = ctrlr.reset_start,
         ctrlr.destruct => ctrlr'.destruct
  PROVE  Sequenced'
<1>1. Alone(seq) /\ (ctrlr.resetting <=> Carries(seq)) /\ Waits /\ Clocked /\ Driven
  BY DEF Sequenced
<1>2. Alone(seq') /\ (ctrlr'.resetting <=> Carries(seq')) /\ Waits'
  BY <1>1 DEF Waits, NoneWait
<1>3. Clocked'
  BY <1>1 DEF Clocked
<1>4. Driven'
  BY <1>1 DEF Driven, DriverStays
<1> QED BY <1>2, <1>3, <1>4 DEF Sequenced

(* A sequence begins: either nothing carried one before, or the code is at *)
(* fault, which only a controller that delays reconnection can be.         *)
LEMMA SequenceBegins ==
  ASSUME Sequenced, ~ctrlr.fault, ctrlr \in Ctrlr, seq \in Sequence,
         UnregisteredOnce(ctrlr), ~ctrlr.destruct, ~ctrlr.resetting,
         ctrlr' = BeginReset(ctrlr), opts' = opts, DriverStays, NoneWait,
         seq'.msg, seq'.timer <=> seq.timer, seq'.iter = seq.iter,
         seq'.disconnected_cb = seq.disconnected_cb, seq'.poller = seq.poller
  PROVE  Sequenced'
<1>1. Alone(seq) /\ (ctrlr.resetting <=> Carries(seq)) /\ Waits /\ Clocked /\ Driven
  BY DEF Sequenced
<1>2. /\ ctrlr'.resetting /\ ctrlr'.reset_start = "running" /\ ~ctrlr'.destruct
      /\ ctrlr'.fault <=> ctrlr.reset_start # "unset"
  BY BeginResetProperties
<1>3. CASE ctrlr.reset_start # "unset"
  BY <1>1, <1>2, <1>3 DEF Clocked, Sequenced
<1>4. CASE ctrlr.reset_start = "unset"
  <2>1. /\ ~seq.msg /\ seq.iter.fn = "none" /\ seq.poller # "reconnect" /\ ~seq.timer
        /\ seq.disconnected_cb = "none"
    BY <1>1, <1>4 DEF Carries, Clocked, Sequence
  <2>2. drv # "down" /\ (drv = "disconnecting" <=> seq.disconnected_cb # "none")
    BY <1>1, <2>1 DEF Driven
  <2>3. Waits'
    BY <1>1, <2>1 DEF Waits, NoneWait
  <2> QED BY <1>1, <1>2, <2>1, <2>2, <2>3 DEF Sequenced, Alone, Carries, Clocked, Driven, DriverStays
<1> QED BY <1>3, <1>4

(* nvme_ctrlr_disconnect sets its callback, or the sequence fails.         *)
LEMMA DisconnectProperties ==
  ASSUME TypeOK, NEW s \in Sequence, NEW cb \in {"destroy", "reconnect", "delay"},
         Disconnect(s, cb)
  PROVE  /\ seq' \in Sequence /\ adminq' \in {"poll", "paused", "gone"}
         /\ drv' \in {"ok", "broken", "failed", "disconnecting", "down"}
         /\ (seq'.msg <=> s.msg) /\ (seq'.timer <=> s.timer) /\ seq'.poller = s.poller
         /\ \/ /\ removed \/ drv \in {"disconnecting", "down"}
               /\ seq'.iter.fn = "pending" /\ ~seq'.iter.ok
               /\ seq'.disconnected_cb = s.disconnected_cb /\ drv' = drv /\ adminq' = adminq
            \/ /\ ~removed /\ drv \notin {"disconnecting", "down"}
               /\ seq'.iter = s.iter /\ seq'.disconnected_cb = cb
               /\ drv' = "disconnecting" /\ adminq' = "poll"
<1>1. CASE removed \/ drv \in {"disconnecting", "down"}
  <2>1. seq' = Carry(s, "pending", FALSE) /\ drv' = drv /\ adminq' = adminq
    BY <1>1 DEF Disconnect
  <2>2. /\ seq' \in Sequence /\ seq'.iter.fn = "pending" /\ ~seq'.iter.ok
        /\ (seq'.msg <=> s.msg) /\ (seq'.timer <=> s.timer) /\ seq'.poller = s.poller
        /\ seq'.disconnected_cb = s.disconnected_cb
    BY <2>1, CarryType
  <2> QED BY <1>1, <2>1, <2>2 DEF TypeOK
<1>2. CASE ~(removed \/ drv \in {"disconnecting", "down"})
  <2>1. seq' = [s EXCEPT !.disconnected_cb = cb] /\ drv' = "disconnecting" /\ adminq' = "poll"
    BY <1>2 DEF Disconnect
  <2>2. seq' \in Sequence
    BY <2>1 DEF Sequence
  <2>3. /\ (seq'.msg <=> s.msg) /\ (seq'.timer <=> s.timer) /\ seq'.poller = s.poller
        /\ seq'.iter = s.iter /\ seq'.disconnected_cb = cb
    BY <2>1 DEF Sequence
  <2> QED BY <1>2, <2>1, <2>2, <2>3
<1> QED BY <1>1, <1>2

(* What a sequence that runs excludes.                                     *)
LEMMA Running ==
  ASSUME Inv, ~ctrlr.fault
  PROVE  /\ Alone(seq) /\ (ctrlr.resetting <=> Carries(seq)) /\ Waits /\ Clocked /\ Driven
         /\ ctrlr.resetting \/ ~ctrlr.destruct => ctrlr.phase = "live" /\ ~ctrlr.unregister_msg
  BY DEF Inv, Sequenced, UnregisteredOnce, CanBeUnregistered, TypeOK, Ctrlr

(* A handler that changes neither ctrlr, nor the channels, nor the         *)
(* references: what is left to show.                                       *)
LEMMA CtrlrStays ==
  ASSUME Inv, UNCHANGED <<ctrlr, opts, removed, ns, chan, orphans, cache>>
  PROVE  Counted' /\ Lasting' /\ UnregisteredOnce(ctrlr)'
<1>1. Counted'
  BY RefsStay DEF Inv
<1> QED BY <1>1 DEF Inv, Lasting, UnregisteredOnce, CanBeUnregistered

(* bdev_nvme_failover.                                                     *)
LEMMA FailoverProperties ==
  ASSUME Inv, ~ctrlr.fault, NEW remove \in BOOLEAN, Failover(remove), opts' = opts, NoneWait
  PROVE  /\ ctrlr' \in Ctrlr /\ seq' \in Sequence /\ paths' \in 1..MaxPaths
         /\ drv' \in {"ok", "broken", "failed", "disconnecting", "down"}
         /\ Sequenced' /\ UnregisteredOnce(ctrlr')
         /\ ctrlr'.ref = ctrlr.ref /\ (ctrlr'.destruct <=> ctrlr.destruct)
         /\ (ctrlr'.io_path_cache_clearing <=> ctrlr.io_path_cache_clearing)
         /\ ctrlr'.phase = ctrlr.phase /\ seq'.poller = seq.poller
         /\ ctrlr.phase # "live" => ctrlr' = ctrlr /\ seq' = seq
         /\ ctrlr'.reset_start = "lost" => ctrlr.reset_start = "lost"
<1> USE DEF Inv
<1>1. /\ ctrlr \in Ctrlr /\ seq \in Sequence /\ paths \in 1..MaxPaths /\ MaxPaths \in Nat
      /\ drv \in {"ok", "broken", "failed", "disconnecting", "down"}
  BY DEF TypeOK
<1>2. CASE ctrlr.destruct \/ ctrlr.resetting
  <2>1. UNCHANGED <<ctrlr, seq, paths, drv>>
    BY <1>2 DEF Failover
  <2>2. Sequenced'
    BY <2>1, SequenceStays DEF DriverStays
  <2> QED BY <1>1, <2>1, <2>2
<1>3. CASE ~ctrlr.destruct /\ ~ctrlr.resetting
  <2>1. paths' = FailoverTrid(remove) /\ drv' = FailDriver
    BY <1>3 DEF Failover
  <2>2. paths' \in 1..MaxPaths
    BY <1>1, <2>1 DEF FailoverTrid
  <2>3. /\ drv' \in {"ok", "broken", "failed", "disconnecting", "down"}
        /\ DriverStays
    BY <1>1, <2>1 DEF FailDriver, DriverStays
  <2>4. ctrlr.phase = "live"
    BY <1>3, Running
  <2>5. CASE ctrlr.reconnect_is_delayed
    <3>1. UNCHANGED <<ctrlr, seq>>
      BY <1>3, <2>5 DEF Failover
    <3>2. Sequenced'
      BY <2>3, <3>1, SequenceStays
    <3> QED BY <1>1, <2>2, <2>3, <3>1, <3>2
  <2>6. CASE ~ctrlr.reconnect_is_delayed
    <3>1. ctrlr' = BeginReset(ctrlr) /\ seq' = [seq EXCEPT !.msg = TRUE]
      BY <1>3, <2>6 DEF Failover
    <3>2. /\ ctrlr' \in Ctrlr /\ UnregisteredOnce(ctrlr') /\ ctrlr'.reset_start = "running"
          /\ ~ctrlr'.destruct /\ ctrlr'.ref = ctrlr.ref /\ ctrlr'.phase = "live"
          /\ (ctrlr'.io_path_cache_clearing <=> ctrlr.io_path_cache_clearing)
      BY <1>1, <1>3, <3>1, BeginResetProperties
    <3>3. /\ seq' \in Sequence /\ seq'.msg /\ (seq'.timer <=> seq.timer) /\ seq'.iter = seq.iter
          /\ seq'.disconnected_cb = seq.disconnected_cb /\ seq'.poller = seq.poller
      BY <1>1, <3>1 DEF Sequence
    <3>4. Sequenced'
      BY <1>1, <1>3, <2>3, <3>1, <3>3, SequenceBegins
    <3> QED BY <1>3, <2>2, <2>3, <2>4, <3>2, <3>3, <3>4
  <2> QED BY <2>5, <2>6
<1> QED BY <1>2, <1>3

-----------------------------------------------------------------------------
(* Starting a sequence.                                                    *)

(* ResetRequested keeps Inv.                                               *)
LEMMA ResetRequestedStep ==
  ASSUME Inv, ~ctrlr.fault, ResetRequested PROVE Inv'
<1> USE DEF Inv
<1>1. /\ ~ctrlr.destruct /\ ~ctrlr.resetting /\ ctrlr \in Ctrlr /\ seq \in Sequence
      /\ ctrlr' = BeginReset(ctrlr) /\ seq' = [seq EXCEPT !.msg = TRUE]
      /\ UNCHANGED <<opts, paths, drv, removed, adminq, ns, chan, orphans, cache>>
  BY DEF ResetRequested, MayReset, TypeOK
<1>2. /\ ctrlr' \in Ctrlr /\ UnregisteredOnce(ctrlr') /\ ctrlr'.reset_start = "running"
      /\ ~ctrlr'.destruct /\ ctrlr'.ref = ctrlr.ref /\ ctrlr'.phase = "live"
      /\ (ctrlr'.io_path_cache_clearing <=> ctrlr.io_path_cache_clearing)
  BY <1>1, BeginResetProperties
<1>3. /\ seq' \in Sequence /\ seq'.msg /\ (seq'.timer <=> seq.timer) /\ seq'.iter = seq.iter
      /\ seq'.disconnected_cb = seq.disconnected_cb /\ seq'.poller = seq.poller
  BY <1>1 DEF Sequence
<1>4. TypeOK'
  BY <1>1, <1>2, <1>3 DEF TypeOK
<1>5. Counted'
  BY <1>1, <1>2, RefsStay
<1>6. Lasting' /\ Leaves'
  BY <1>1, <1>2, <1>3, Running DEF Lasting, Leaves
<1>7. Sequenced'
  BY <1>1, <1>3, SequenceBegins DEF DriverStays, NoneWait
<1> QED BY <1>2, <1>4, <1>5, <1>6, <1>7

(* A reset request of thread t in a sequence.                              *)
LEMMA RequestType ==
  ASSUME NEW s \in Sequence, NEW t \in Threads
  PROVE  [s EXCEPT !.msg = TRUE, !.reset_cb = t] \in Sequence
<1>1. PICK r : r = [s EXCEPT !.msg = TRUE]
  OBVIOUS
<1>2. r \in Sequence
  BY <1>1 DEF Sequence
<1>3. t \in 0..N
  OBVIOUS
<1>4. [r EXCEPT !.reset_cb = t] \in Sequence
  BY <1>2, <1>3 DEF Sequence
<1>5. [s EXCEPT !.msg = TRUE, !.reset_cb = t] = [r EXCEPT !.reset_cb = t]
  BY <1>1
<1> QED BY <1>4, <1>5

(* ResetIo keeps Inv.                                                      *)
LEMMA ResetIoStep ==
  ASSUME Inv, ~ctrlr.fault, NEW t \in Threads, ResetIo(t) PROVE Inv'
<1> USE DEF Inv
<1>1. /\ ctrlr \in Ctrlr /\ seq \in Sequence /\ chan \in [Threads -> Channel]
      /\ UNCHANGED <<opts, paths, drv, removed, adminq, ns, orphans, cache>>
  BY DEF ResetIo, TypeOK
<1>2. ASSUME NEW r \in {"active", "pending"}, chan' = [chan EXCEPT ![t].reset = r]
      PROVE  /\ chan' \in [Threads -> Channel] /\ NoneWait
             /\ \A u \in Threads : chan'[u].open <=> chan[u].open
  <2>1. chan' \in [Threads -> Channel]
    BY <1>1, <1>2 DEF Channel
  <2>2. \A u \in Threads : chan'[u].open <=> chan[u].open
    BY <1>1, <1>2 DEF Channel
  <2>3. NoneWait
    BY <1>1, <1>2 DEF Channel, NoneWait
  <2> QED BY <2>1, <2>2, <2>3
<1>3. CASE /\ MayReset
           /\ ctrlr' = BeginReset(ctrlr)
           /\ seq' = [seq EXCEPT !.msg = TRUE, !.reset_cb = t]
           /\ chan' = [chan EXCEPT ![t].reset = "active"]
  <2>1. ~ctrlr.destruct /\ ~ctrlr.resetting
    BY <1>3 DEF MayReset
  <2>2. /\ ctrlr' \in Ctrlr /\ UnregisteredOnce(ctrlr') /\ ctrlr'.reset_start = "running"
        /\ ~ctrlr'.destruct /\ ctrlr'.ref = ctrlr.ref /\ ctrlr'.phase = "live"
        /\ (ctrlr'.io_path_cache_clearing <=> ctrlr.io_path_cache_clearing)
    BY <1>1, <1>3, <2>1, BeginResetProperties
  <2>3. /\ seq' \in Sequence /\ seq'.msg /\ (seq'.timer <=> seq.timer) /\ seq'.iter = seq.iter
        /\ seq'.disconnected_cb = seq.disconnected_cb /\ seq'.poller = seq.poller
    <3>0. [seq EXCEPT !.msg = TRUE, !.reset_cb = t] \in Sequence
      BY <1>1, RequestType
    <3>1. seq' \in Sequence
      BY <1>3, <3>0
    <3>2. seq'.msg /\ (seq'.timer <=> seq.timer) /\ seq'.iter = seq.iter
      BY <1>1, <1>3 DEF Sequence
    <3>3. seq'.disconnected_cb = seq.disconnected_cb /\ seq'.poller = seq.poller
      BY <1>1, <1>3 DEF Sequence
    <3> QED BY <3>1, <3>2, <3>3
  <2>4. TypeOK'
    BY <1>1, <1>2, <1>3, <2>2, <2>3 DEF TypeOK
  <2>5. Counted'
    BY <1>1, <1>2, <1>3, <2>1, <2>2, RefsStay
  <2>6. Lasting' /\ Leaves'
    BY <1>1, <2>1, <2>2, <2>3, Running DEF Lasting, Leaves
  <2>7. Sequenced'
    BY <1>1, <1>2, <1>3, <2>1, <2>3, SequenceBegins DEF DriverStays
  <2> QED BY <2>2, <2>4, <2>5, <2>6, <2>7
<1>4. CASE chan' = [chan EXCEPT ![t].reset = "pending"] /\ UNCHANGED <<ctrlr, seq>>
  <2>1. TypeOK'
    BY <1>1, <1>2, <1>4 DEF TypeOK
  <2>2. Counted'
    BY <1>1, <1>2, <1>4, RefsStay
  <2>3. Lasting' /\ Leaves' /\ UnregisteredOnce(ctrlr')
    BY <1>1, <1>4 DEF Lasting, Leaves
  <2>4. Sequenced'
    BY <1>1, <1>2, <1>4, SequenceStays DEF DriverStays
  <2> QED BY <2>1, <2>2, <2>3, <2>4
<1> QED BY <1>3, <1>4 DEF ResetIo

-----------------------------------------------------------------------------
(* Channels and their qpairs.                                              *)

(* OpenChannel keeps Inv.                                                  *)
LEMMA OpenChannelStep ==
  ASSUME Inv, ~ctrlr.fault, NEW t \in Threads, OpenChannel(t) PROVE Inv'
<1> USE DEF Inv
<1>1. /\ ctrlr.phase = "live" /\ ns = "present" /\ ~chan[t].open
      /\ ctrlr \in Ctrlr /\ chan \in [Threads -> Channel] /\ ctrlr.ref \in Nat
      /\ ctrlr' = [ctrlr EXCEPT !.ref = @ + 1]
      /\ UNCHANGED <<opts, seq, paths, drv, removed, adminq, ns, orphans, cache>>
  BY DEF OpenChannel, TypeOK, Ctrlr
<1>2. PICK q \in {"up", "none"} :
        chan' = [chan EXCEPT ![t] = [Closed EXCEPT !.open = TRUE, !.qpair = q]]
  BY DEF OpenChannel
<1>3. /\ [Closed EXCEPT !.open = TRUE, !.qpair = q] \in Channel
      /\ [Closed EXCEPT !.open = TRUE, !.qpair = q].open
      /\ ~[Closed EXCEPT !.open = TRUE, !.qpair = q].reset_iter
  BY DEF Closed, Channel
<1>4. /\ chan' \in [Threads -> Channel] /\ chan'[t].open /\ NoneWait
      /\ \A u \in Threads \ {t} : chan'[u].open <=> chan[u].open
  BY <1>1, <1>2, <1>3 DEF NoneWait
<1>5. ctrlr' \in Ctrlr
  BY <1>1 DEF Ctrlr
<1>6. /\ ctrlr'.ref = ctrlr.ref + 1 /\ ctrlr'.phase = ctrlr.phase
      /\ ctrlr'.unregisters = ctrlr.unregisters /\ ctrlr'.reset_start = ctrlr.reset_start
  BY <1>1 DEF Ctrlr
<1>7. /\ (ctrlr'.destruct <=> ctrlr.destruct) /\ (ctrlr'.resetting <=> ctrlr.resetting)
      /\ (ctrlr'.io_path_cache_clearing <=> ctrlr.io_path_cache_clearing)
      /\ (ctrlr'.fault <=> ctrlr.fault) /\ (ctrlr'.unregister_msg <=> ctrlr.unregister_msg)
  BY <1>1 DEF Ctrlr
<1>8. TypeOK'
  BY <1>1, <1>4, <1>5 DEF TypeOK
<1>9. Counted'
  <2>1. Outlived' = Outlived
    BY <1>1 DEF Outlived
  <2>2. Cardinality(Holders') = Cardinality(Holders) + 1
    BY <1>1, <1>4, HoldersSteps
  <2>3. Cardinality(Holders) \in Nat /\ Cardinality(Outlived) \in Nat
    BY FiniteHolders DEF Counted
  <2> QED BY <1>1, <1>6, <1>7, <2>1, <2>2, <2>3 DEF Counted, RefsCounted
<1>10. Lasting' /\ Leaves'
  BY <1>1, <1>6, <1>7 DEF Lasting, Leaves
<1>11. UnregisteredOnce(ctrlr')
  <2>1. ~ctrlr.destruct
    BY <1>1 DEF Leaves
  <2> QED BY <1>1, <1>6, <1>7, <2>1 DEF UnregisteredOnce, CanBeUnregistered
<1>12. Sequenced'
  BY <1>1, <1>4, <1>6, <1>7, SequenceStays DEF DriverStays
<1> QED BY <1>8, <1>9, <1>10, <1>11, <1>12

(* The iteration that waits for t goes on.                                 *)
LEMMA IterationGoesOn ==
  ASSUME Inv, ~ctrlr.fault, NEW t \in Threads, NEW h,
         seq.iter.fn # "none", seq.iter.at = t, seq' = [seq EXCEPT !.iter = Continue(@, h)],
         UNCHANGED <<opts, drv>>,
         \A u \in Threads : chan'[u].reset_iter => chan[u].reset_iter /\ u # t,
         ctrlr'.resetting <=> ctrlr.resetting, ctrlr'.reset_start = ctrlr.reset_start,
         ctrlr.destruct => ctrlr'.destruct
  PROVE  /\ seq' \in Sequence /\ Sequenced'
         /\ seq'.iter.fn = seq.iter.fn /\ (seq'.timer <=> seq.timer) /\ seq'.poller = seq.poller
<1>1. /\ seq \in Sequence /\ seq.iter.at \in 0..N
  BY DEF Inv, TypeOK
<1>2. /\ seq' \in Sequence
      /\ seq'.iter.fn = seq.iter.fn /\ (seq'.iter.ok <=> seq.iter.ok)
      /\ (seq'.msg <=> seq.msg) /\ (seq'.timer <=> seq.timer)
      /\ seq'.disconnected_cb = seq.disconnected_cb /\ seq'.poller = seq.poller
  BY <1>1, ContinueType
<1>3. Alone(seq) /\ (ctrlr.resetting <=> Carries(seq)) /\ Waits /\ Clocked /\ Driven
  BY Running
<1>4. Alone(seq') /\ (ctrlr'.resetting <=> Carries(seq'))
  BY <1>2, <1>3 DEF Alone, Carries
<1>5. Waits'
  BY <1>3 DEF Waits
<1>6. Clocked' /\ Driven'
  BY <1>2, <1>3 DEF Clocked, Driven
<1> QED BY <1>2, <1>4, <1>5, <1>6 DEF Sequenced

(* CloseChannel keeps Inv.                                                 *)
LEMMA CloseChannelStep ==
  ASSUME Inv, ~ctrlr.fault, NEW t \in Threads, CloseChannel(t) PROVE Inv'
<1> USE DEF Inv
<1>1. /\ chan[t].open /\ chan' = [chan EXCEPT ![t] = Closed]
      /\ ctrlr \in Ctrlr /\ seq \in Sequence /\ chan \in [Threads -> Channel]
      /\ orphans \in [Threads -> Nat]
      /\ UNCHANGED <<opts, paths, drv, removed, adminq, ns, cache>>
  BY DEF CloseChannel, TypeOK
<1>2. Closed \in Channel /\ ~Closed.open /\ ~Closed.reset_iter
  BY DEF Closed, Channel
<1>3. /\ chan' \in [Threads -> Channel] /\ ~chan'[t].open /\ ~chan'[t].reset_iter
      /\ \A u \in Threads \ {t} : chan'[u] = chan[u]
  BY <1>1, <1>2
<1>4. /\ ctrlr.ref >= 1 /\ Cardinality(Holders') = Cardinality(Holders) - 1
      /\ Cardinality(Holders) \in Nat /\ Cardinality(Outlived) \in Nat
  BY <1>1, <1>3, HoldersSteps, RefsHeld, FiniteHolders DEF Counted
<1>5. /\ ctrlr' \in Ctrlr /\ UnregisteredOnce(ctrlr')
      /\ ctrlr.phase = "live" /\ ctrlr'.phase \in {"live", "unregistering"}
      /\ ctrlr'.reset_start = ctrlr.reset_start
      /\ (ctrlr'.destruct <=> ctrlr.destruct) /\ (ctrlr'.resetting <=> ctrlr.resetting)
      /\ (ctrlr'.io_path_cache_clearing <=> ctrlr.io_path_cache_clearing)
  <2>1. CASE chan[t].qpair = "none"
    <3>1. ctrlr' = Release(ctrlr, t)
      BY <2>1 DEF CloseChannel
    <3> QED BY <1>1, <1>4, <3>1, ReleaseProperties
  <2>2. CASE chan[t].qpair # "none"
    <3>1. ctrlr' = ctrlr
      BY <2>2 DEF CloseChannel
    <3>2. ctrlr.phase = "live"
      BY <1>1, <1>4 DEF UnregisteredOnce, CanBeUnregistered
    <3> QED BY <1>1, <3>1, <3>2
  <2> QED BY <2>1, <2>2
<1>6. Counted' /\ orphans' \in [Threads -> Nat]
  <2>1. CASE chan[t].qpair = "none"
    <3>1. ctrlr'.ref = ctrlr.ref - 1 /\ orphans' = orphans
      BY <1>1, <1>4, <2>1, ReleaseProperties DEF CloseChannel
    <3>2. Outlived' = Outlived
      BY <3>1 DEF Outlived
    <3>3. /\ Cardinality(Outlived') = Cardinality(Outlived)
          /\ ctrlr'.ref = ctrlr.ref + (Cardinality(Holders') - Cardinality(Holders))
                                    + (Cardinality(Outlived') - Cardinality(Outlived))
          /\ Cardinality(Holders') \in Int /\ Cardinality(Outlived') \in Int
      <4> ctrlr.ref \in Nat
        BY <1>1 DEF Ctrlr
      <4> QED BY <1>4, <3>1, <3>2
    <3>4. RefsCounted'
      BY <1>1, <1>4, <1>5, <3>3, RefsMove DEF Counted
    <3> QED BY <1>1, <3>1, <3>2, <3>4 DEF Counted
  <2>2. CASE chan[t].qpair # "none"
    <3>1. ctrlr' = ctrlr /\ orphans' = [orphans EXCEPT ![t] = @ + 1]
      BY <2>2 DEF CloseChannel
    <3>2. IsFiniteSet(Outlived') /\ Cardinality(Outlived') = Cardinality(Outlived) + 1
      BY <1>1, <3>1, OutlivedSteps DEF Counted
    <3>3. RefsCounted'
      BY <1>1, <1>4, <3>1, <3>2 DEF Counted, RefsCounted
    <3> QED BY <1>1, <3>1, <3>2, <3>3 DEF Counted
  <2> QED BY <2>1, <2>2
<1>7. /\ seq' \in Sequence /\ Sequenced'
      /\ seq'.iter.fn = seq.iter.fn /\ (seq'.timer <=> seq.timer) /\ seq'.poller = seq.poller
  <2>1. CASE chan[t].reset_iter
    <3>1. seq.iter.fn # "none" /\ seq.iter.at = t
      BY <2>1, Running DEF Waits
    <3>2. seq' = [seq EXCEPT !.iter = Continue(@, chan')]
      BY <2>1 DEF CloseChannel
    <3> QED BY <1>1, <1>3, <1>5, <3>1, <3>2, IterationGoesOn
  <2>2. CASE ~chan[t].reset_iter
    <3>1. seq' = seq
      BY <2>2 DEF CloseChannel
    <3>2. NoneWait
      BY <1>3 DEF NoneWait
    <3> QED BY <1>1, <1>5, <3>1, <3>2, SequenceStays DEF DriverStays
  <2> QED BY <2>1, <2>2
<1>8. TypeOK'
  BY <1>1, <1>3, <1>5, <1>6, <1>7 DEF TypeOK
<1>9. Lasting' /\ Leaves'
  BY <1>1, <1>5, <1>7 DEF Lasting, Leaves
<1> QED BY <1>5, <1>6, <1>7, <1>8, <1>9

(* QpairLost keeps Inv.                                                    *)
LEMMA QpairLostStep ==
  ASSUME Inv, ~ctrlr.fault, NEW t \in Threads, QpairLost(t) PROVE Inv'
<1> USE DEF Inv
<1>1. /\ chan \in [Threads -> Channel] /\ chan' = [chan EXCEPT ![t].qpair = "disconnecting"]
      /\ UNCHANGED <<opts, ctrlr, seq, paths, drv, removed, adminq, ns, orphans, cache>>
  BY DEF QpairLost, TypeOK
<1>2. chan' \in [Threads -> Channel]
  BY <1>1 DEF Channel
<1>3. NoneWait /\ \A u \in Threads : chan'[u].open <=> chan[u].open
  BY <1>1 DEF Channel, NoneWait
<1>4. TypeOK'
  BY <1>1, <1>2 DEF TypeOK
<1>5. Counted'
  BY <1>1, <1>3, RefsStay
<1>6. Lasting' /\ Leaves' /\ UnregisteredOnce(ctrlr')
  BY <1>1 DEF Lasting, Leaves
<1>7. Sequenced'
  BY <1>1, <1>3, SequenceStays DEF DriverStays
<1> QED BY <1>1, <1>4, <1>5, <1>6, <1>7

(* QpairDisconnected keeps Inv.                                            *)
LEMMA QpairDisconnectedStep ==
  ASSUME Inv, ~ctrlr.fault, NEW t \in Threads, QpairDisconnected(t) PROVE Inv'
<1> USE DEF Inv
<1>1. /\ chan \in [Threads -> Channel]
      /\ chan' = [chan EXCEPT ![t].qpair = "none", ![t].reset_iter = FALSE]
      /\ UNCHANGED <<opts, removed, adminq, ns, orphans, cache>>
  BY DEF QpairDisconnected, TypeOK
<1>2. chan' \in [Threads -> Channel]
  <2>1. PICK c : c = [chan[t] EXCEPT !.qpair = "none"]
    OBVIOUS
  <2>2. c \in Channel
    BY <1>1, <2>1 DEF Channel
  <2>3. [c EXCEPT !.reset_iter = FALSE] \in Channel
    BY <2>2 DEF Channel
  <2>4. chan' = [chan EXCEPT ![t] = [c EXCEPT !.reset_iter = FALSE]]
    BY <1>1, <2>1
  <2> QED BY <1>1, <2>3, <2>4
<1>3. \A u \in Threads : chan'[u].reset_iter => chan[u].reset_iter /\ u # t
  BY <1>1 DEF Channel
<1>4. \A u \in Threads : chan'[u].open <=> chan[u].open
  BY <1>1 DEF Channel
<1>5. CASE chan[t].reset_iter
  <2>1. seq' = [seq EXCEPT !.iter = Continue(@, chan)] /\ UNCHANGED <<ctrlr, paths, drv>>
    BY <1>5 DEF QpairDisconnected
  <2>2. seq.iter.fn # "none" /\ seq.iter.at = t
    BY <1>5, Running DEF Waits
  <2>3. /\ seq' \in Sequence /\ Sequenced'
        /\ seq'.iter.fn = seq.iter.fn /\ (seq'.timer <=> seq.timer) /\ seq'.poller = seq.poller
    BY <1>1, <1>3, <2>1, <2>2, IterationGoesOn
  <2>4. TypeOK'
    BY <1>1, <1>2, <2>1, <2>3 DEF TypeOK
  <2>5. Counted'
    BY <1>1, <1>4, <2>1, RefsStay
  <2>6. Lasting' /\ Leaves' /\ UnregisteredOnce(ctrlr')
    BY <1>1, <2>1, <2>3 DEF Lasting, Leaves
  <2> QED BY <2>1, <2>3, <2>4, <2>5, <2>6
<1>6. CASE ~chan[t].reset_iter
  <2>1. Failover(FALSE) /\ NoneWait
    BY <1>3, <1>6 DEF QpairDisconnected, NoneWait
  <2>2. /\ ctrlr' \in Ctrlr /\ seq' \in Sequence /\ paths' \in 1..MaxPaths
        /\ drv' \in {"ok", "broken", "failed", "disconnecting", "down"}
        /\ Sequenced' /\ UnregisteredOnce(ctrlr')
        /\ ctrlr'.ref = ctrlr.ref /\ (ctrlr'.destruct <=> ctrlr.destruct)
        /\ (ctrlr'.io_path_cache_clearing <=> ctrlr.io_path_cache_clearing)
        /\ ctrlr'.phase = ctrlr.phase /\ seq'.poller = seq.poller
        /\ ctrlr.phase # "live" => ctrlr' = ctrlr /\ seq' = seq
        /\ ctrlr'.reset_start = "lost" => ctrlr.reset_start = "lost"
    BY <1>1, <2>1, FailoverProperties
  <2>3. TypeOK'
    BY <1>1, <1>2, <2>2 DEF TypeOK
  <2>4. Counted'
    BY <1>1, <1>4, <2>2, RefsStay
  <2>5. Lasting' /\ Leaves'
    BY <1>1, <2>2 DEF Lasting, Leaves
  <2> QED BY <2>2, <2>3, <2>4, <2>5
<1> QED BY <1>5, <1>6

(* OrphanDisconnected keeps Inv.                                           *)
LEMMA OrphanDisconnectedStep ==
  ASSUME Inv, ~ctrlr.fault, NEW t \in Threads, OrphanDisconnected(t) PROVE Inv'
<1> USE DEF Inv
<1>1. /\ orphans[t] > 0 /\ orphans' = [orphans EXCEPT ![t] = @ - 1]
      /\ orphans \in [Threads -> Nat] /\ ctrlr \in Ctrlr
      /\ ctrlr' = Release(ctrlr, t)
      /\ UNCHANGED <<opts, seq, paths, drv, removed, adminq, ns, chan, cache>>
  BY DEF OrphanDisconnected, TypeOK
<1>2. ctrlr.ref >= 1
  BY <1>1, RefsHeld
<1>3. /\ ctrlr' \in Ctrlr /\ UnregisteredOnce(ctrlr')
      /\ ctrlr'.ref = ctrlr.ref - 1 /\ ctrlr'.phase \in {"live", "unregistering"}
      /\ ctrlr'.reset_start = ctrlr.reset_start
      /\ (ctrlr'.destruct <=> ctrlr.destruct) /\ (ctrlr'.resetting <=> ctrlr.resetting)
      /\ (ctrlr'.io_path_cache_clearing <=> ctrlr.io_path_cache_clearing)
      /\ ctrlr.phase = "live"
  BY <1>1, <1>2, ReleaseProperties
<1>4. IsFiniteSet(Outlived') /\ Cardinality(Outlived') = Cardinality(Outlived) - 1
  BY <1>1, OutlivedSteps DEF Counted
<1>5. Holders' = Holders
  BY <1>1 DEF Holders
<1>6. Counted'
  <2>1. Cardinality(Holders) \in Nat /\ Cardinality(Outlived) \in Nat /\ ctrlr.ref \in Nat
    BY <1>1, FiniteHolders DEF Counted, Ctrlr
  <2>2. /\ ctrlr'.ref = ctrlr.ref + (Cardinality(Holders') - Cardinality(Holders))
                                  + (Cardinality(Outlived') - Cardinality(Outlived))
        /\ Cardinality(Holders') \in Int /\ Cardinality(Outlived') \in Int
    BY <1>3, <1>4, <1>5, <2>1
  <2>3. RefsCounted'
    BY <1>1, <1>3, <2>1, <2>2, RefsMove DEF Counted
  <2> QED BY <1>4, <2>3 DEF Counted
<1>7. orphans' \in [Threads -> Nat]
  BY <1>1
<1>8. TypeOK'
  BY <1>1, <1>3, <1>7 DEF TypeOK
<1>9. Lasting' /\ Leaves'
  BY <1>1, <1>3 DEF Lasting, Leaves
<1>10. Sequenced'
  BY <1>1, <1>3, SequenceStays DEF DriverStays, NoneWait
<1> QED BY <1>3, <1>6, <1>8, <1>9, <1>10

-----------------------------------------------------------------------------
(* The reset sequence.                                                     *)

(* ResetStarts keeps Inv.                                                  *)
LEMMA ResetStartsStep ==
  ASSUME Inv, ~ctrlr.fault, ResetStarts PROVE Inv'
<1> USE DEF Inv
<1>1. PICK s : s = [seq EXCEPT !.msg = FALSE]
  OBVIOUS
<1>2. /\ seq.msg /\ seq \in Sequence
      /\ UNCHANGED <<opts, ctrlr, paths, removed, ns, chan, orphans, cache>>
  BY DEF ResetStarts, TypeOK
<1>3. s \in Sequence
  BY <1>1, <1>2 DEF Sequence
<1>4. /\ ~s.msg /\ s.iter = seq.iter /\ (s.timer <=> seq.timer) /\ s.poller = seq.poller
      /\ s.disconnected_cb = seq.disconnected_cb
  BY <1>1, <1>2 DEF Sequence
<1>5. /\ ctrlr.resetting /\ ctrlr.phase = "live"
      /\ s.iter.fn = "none" /\ s.disconnected_cb = "none" /\ s.poller # "reconnect" /\ ~s.timer
      /\ drv \notin {"disconnecting", "down"}
      /\ \A t \in Threads : ~chan[t].reset_iter
      /\ Clocked
  BY <1>2, <1>4, Running DEF Alone, Carries, Driven, Waits
<1>6. /\ seq' \in Sequence /\ adminq' \in {"poll", "paused", "gone"}
      /\ drv' \in {"ok", "broken", "failed", "disconnecting", "down"}
      /\ ~seq'.msg /\ ~seq'.timer /\ seq'.poller = seq.poller
      /\ \/ /\ seq'.iter.fn \in {"destroy", "pending"} /\ seq'.disconnected_cb = "none"
            /\ drv' = drv
         \/ /\ seq'.iter.fn = "none" /\ seq'.disconnected_cb = "destroy"
            /\ drv' = "disconnecting" /\ ~opts.fabrics
  <2>1. CASE opts.fabrics
    <3>1. seq' = Carry(s, "destroy", TRUE) /\ UNCHANGED <<drv, adminq>>
      BY <1>1, <2>1 DEF ResetStarts
    <3>2. /\ seq' \in Sequence /\ seq'.iter.fn = "destroy"
          /\ (seq'.msg <=> s.msg) /\ (seq'.timer <=> s.timer) /\ seq'.poller = s.poller
          /\ seq'.disconnected_cb = s.disconnected_cb
      BY <1>3, <3>1, CarryType
    <3>3. drv' = drv /\ adminq' = adminq /\ adminq \in {"poll", "paused", "gone"}
          /\ drv \in {"ok", "broken", "failed", "disconnecting", "down"}
      BY <3>1 DEF TypeOK
    <3> QED BY <1>4, <1>5, <3>2, <3>3
  <2>2. CASE ~opts.fabrics
    <3>1. Disconnect(s, "destroy")
      BY <1>1, <2>2 DEF ResetStarts
    <3>2. /\ seq' \in Sequence /\ adminq' \in {"poll", "paused", "gone"}
          /\ drv' \in {"ok", "broken", "failed", "disconnecting", "down"}
          /\ (seq'.msg <=> s.msg) /\ (seq'.timer <=> s.timer) /\ seq'.poller = s.poller
          /\ \/ /\ seq'.iter.fn = "pending"
                /\ seq'.disconnected_cb = s.disconnected_cb /\ drv' = drv
             \/ /\ seq'.iter = s.iter /\ seq'.disconnected_cb = "destroy"
                /\ drv' = "disconnecting"
      BY <1>3, <3>1, DisconnectProperties
    <3> QED BY <1>4, <1>5, <2>2, <3>2
  <2> QED BY <2>1, <2>2
<1>7. TypeOK'
  BY <1>2, <1>6 DEF TypeOK
<1>8. Counted' /\ Lasting' /\ UnregisteredOnce(ctrlr)'
  BY <1>2, CtrlrStays
<1>9. Leaves'
  BY <1>2, <1>5, <1>6 DEF Leaves
<1>10. Sequenced'
  BY <1>2, <1>4, <1>5, <1>6 DEF Sequenced, Alone, Carries, Waits, Clocked, Driven
<1> QED BY <1>7, <1>8, <1>9, <1>10

(* AdminDisconnected keeps Inv.                                            *)
LEMMA AdminDisconnectedStep ==
  ASSUME Inv, ~ctrlr.fault, AdminDisconnected PROVE Inv'
<1> USE DEF Inv
<1>1. PICK s : s = [seq EXCEPT !.disconnected_cb = "none"]
  OBVIOUS
<1>2. /\ seq \in Sequence /\ ctrlr \in Ctrlr /\ drv' = "down"
      /\ drv = "disconnecting" /\ adminq = "poll"
      /\ UNCHANGED <<opts, paths, removed, ns, chan, orphans, cache>>
  BY DEF AdminDisconnected, TypeOK
<1>3. s \in Sequence
  BY <1>1, <1>2 DEF Sequence
<1>4. /\ (s.msg <=> seq.msg) /\ s.iter = seq.iter /\ (s.timer <=> seq.timer)
      /\ s.poller = seq.poller /\ s.disconnected_cb = "none"
  BY <1>1, <1>2 DEF Sequence
<1>5. /\ ~s.msg /\ s.iter.fn = "none" /\ s.poller # "reconnect" /\ ~s.timer
      /\ \A t \in Threads : ~chan[t].reset_iter
      /\ Clocked /\ ctrlr.phase \in {"live", "unregistering"}
      /\ seq.disconnected_cb = "destroy" => ~opts.fabrics
  BY <1>2, <1>4, Running DEF Alone, Driven, Waits, Leaves, Ctrlr
<1>6. CASE /\ seq.disconnected_cb = "destroy"
           /\ seq' = Carry(s, "destroy", TRUE)
           /\ UNCHANGED <<ctrlr, adminq>>
  <2>1. /\ seq' \in Sequence /\ seq'.iter.fn = "destroy" /\ (seq'.msg <=> s.msg)
        /\ (seq'.timer <=> s.timer) /\ seq'.disconnected_cb = s.disconnected_cb
        /\ seq'.poller = s.poller
    BY <1>3, <1>6, CarryType
  <2>2. TypeOK'
    BY <1>2, <1>6, <2>1 DEF TypeOK
  <2>3. Counted' /\ Lasting' /\ UnregisteredOnce(ctrlr)'
    BY <1>2, <1>6, CtrlrStays
  <2>4. ctrlr.resetting /\ ctrlr.phase = "live"
    BY <1>6, Running DEF Carries
  <2>5. Leaves'
    BY <1>2, <1>4, <1>6, <2>1, <2>4 DEF Leaves
  <2>6. Sequenced'
    BY <1>2, <1>4, <1>5, <1>6, <2>1, <2>4 DEF Sequenced, Alone, Carries, Waits, Clocked, Driven
  <2> QED BY <2>2, <2>3, <2>5, <2>6
<1>7. CASE /\ seq.disconnected_cb = "reconnect"
           /\ seq' = Reconnect(s)
           /\ UNCHANGED <<ctrlr, adminq>>
  <2>1. seq' \in Sequence
    BY <1>3, <1>7 DEF Sequence, Reconnect
  <2>2. /\ seq'.iter = s.iter /\ (seq'.msg <=> s.msg)
        /\ (seq'.timer <=> s.timer) /\ seq'.disconnected_cb = s.disconnected_cb
        /\ seq'.poller = "reconnect"
    BY <1>3, <1>7 DEF Sequence, Reconnect
  <2>3. TypeOK'
    BY <1>2, <1>7, <2>1 DEF TypeOK
  <2>4. Counted' /\ Lasting' /\ UnregisteredOnce(ctrlr)'
    BY <1>2, <1>7, CtrlrStays
  <2>5. ctrlr.resetting /\ ctrlr.phase = "live"
    BY <1>7, Running DEF Carries
  <2>6. Leaves'
    BY <1>2, <1>4, <1>7, <2>2, <2>5 DEF Leaves
  <2>7. Sequenced'
    BY <1>2, <1>4, <1>5, <1>7, <2>2, <2>5 DEF Sequenced, Alone, Carries, Waits, Clocked, Driven
  <2> QED BY <2>3, <2>4, <2>6, <2>7
<1>8. CASE /\ seq.disconnected_cb = "delay"
           /\ seq' = [s EXCEPT !.timer = TRUE]
           /\ ctrlr' = [ctrlr EXCEPT !.reconnect_is_delayed = TRUE]
           /\ adminq' = "paused"
  <2>1. seq' \in Sequence /\ ctrlr' \in Ctrlr
    BY <1>2, <1>3, <1>8 DEF Sequence, Ctrlr
  <2>2. /\ seq'.iter = s.iter /\ (seq'.msg <=> s.msg) /\ seq'.timer
        /\ seq'.disconnected_cb = s.disconnected_cb /\ seq'.poller = s.poller
    BY <1>3, <1>8 DEF Sequence
  <2>3. /\ ctrlr'.ref = ctrlr.ref /\ ctrlr'.phase = ctrlr.phase /\ ctrlr'.ana = ctrlr.ana
        /\ ctrlr'.unregisters = ctrlr.unregisters /\ ctrlr'.reset_start = ctrlr.reset_start
    BY <1>2, <1>8 DEF Ctrlr
  <2>4. /\ (ctrlr'.destruct <=> ctrlr.destruct) /\ (ctrlr'.resetting <=> ctrlr.resetting)
        /\ (ctrlr'.io_path_cache_clearing <=> ctrlr.io_path_cache_clearing)
        /\ (ctrlr'.fault <=> ctrlr.fault) /\ (ctrlr'.unregister_msg <=> ctrlr.unregister_msg)
    BY <1>2, <1>8 DEF Ctrlr
  <2>5. TypeOK'
    BY <1>2, <1>8, <2>1 DEF TypeOK
  <2>6. Counted'
    BY <1>2, <2>3, <2>4, RefsStay
  <2>7. UnregisteredOnce(ctrlr')
    BY <2>3, <2>4 DEF UnregisteredOnce, CanBeUnregistered
  <2>8. Lasting' /\ Leaves'
    BY <1>2, <1>4, <1>5, <2>2, <2>3, <2>4 DEF Lasting, Leaves
  <2>9. ~ctrlr.resetting
    BY <1>4, <1>5, <1>8, Running DEF Carries
  <2>10. Sequenced'
    BY <1>2, <1>4, <1>5, <1>8, <2>2, <2>3, <2>4, <2>9
       DEF Sequenced, Alone, Carries, Waits, Clocked, Driven
  <2> QED BY <2>5, <2>6, <2>7, <2>8, <2>10
<1> QED BY <1>1, <1>6, <1>7, <1>8 DEF AdminDisconnected


-----------------------------------------------------------------------------
(* Iterations over the channels.                                           *)

(* VisitClosed, and the other visits that let the iteration go on.         *)
LEMMA VisitGoesOn ==
  ASSUME Inv, ~ctrlr.fault, NEW t \in Threads, NEW h,
         Visiting(t, {"destroy", "create", "undo", "pending"}),
         seq' = [seq EXCEPT !.iter = Continue(@, h)], chan' \in [Threads -> Channel],
         \A u \in Threads : (chan'[u].open <=> chan[u].open)
                            /\ (chan'[u].reset_iter => chan[u].reset_iter),
         UNCHANGED <<opts, ctrlr, paths, drv, removed, adminq, ns, orphans, cache>>
  PROVE  Inv'
<1> USE DEF Inv
<1>1. seq.iter.fn # "none" /\ seq.iter.at = t /\ ~chan[t].reset_iter
  BY DEF Visiting
<1>2. \A u \in Threads : chan'[u].reset_iter => chan[u].reset_iter /\ u # t
  BY <1>1
<1>3. /\ seq' \in Sequence /\ Sequenced'
      /\ seq'.iter.fn = seq.iter.fn /\ (seq'.timer <=> seq.timer) /\ seq'.poller = seq.poller
  BY <1>1, <1>2, IterationGoesOn
<1>4. TypeOK'
  BY <1>3 DEF TypeOK
<1>5. Counted'
  BY RefsStay
<1>6. Lasting' /\ Leaves' /\ UnregisteredOnce(ctrlr')
  BY <1>3 DEF Lasting, Leaves
<1> QED BY <1>3, <1>4, <1>5, <1>6

(* VisitClosed keeps Inv.                                                  *)
LEMMA VisitClosedStep ==
  ASSUME Inv, ~ctrlr.fault, NEW t \in Threads, VisitClosed(t) PROVE Inv'
<1>1. /\ Visiting(t, {"destroy", "create", "undo", "pending"})
      /\ seq' = [seq EXCEPT !.iter = Continue(@, chan)]
      /\ UNCHANGED <<opts, ctrlr, paths, drv, removed, adminq, ns, chan, orphans, cache>>
      /\ chan \in [Threads -> Channel]
  BY DEF VisitClosed, Inv, TypeOK
<1> QED BY <1>1, VisitGoesOn

(* VisitDestroy keeps Inv: the iteration waits for the qpair of its thread.*)
LEMMA VisitDestroyStep ==
  ASSUME Inv, ~ctrlr.fault, NEW t \in Threads, VisitDestroy(t) PROVE Inv'
<1> USE DEF Inv
<1>1. /\ seq.iter.fn \in {"destroy", "undo"} /\ seq.iter.at = t
      /\ Visiting(t, {"destroy", "create", "undo", "pending"})
      /\ chan \in [Threads -> Channel]
      /\ UNCHANGED <<opts, ctrlr, paths, drv, removed, adminq, ns, orphans, cache>>
  BY DEF VisitDestroy, Visiting, TypeOK
<1>2. CASE seq' = [seq EXCEPT !.iter = Continue(@, chan)] /\ UNCHANGED chan
  BY <1>1, <1>2, VisitGoesOn
<1>3. CASE /\ chan' = [chan EXCEPT ![t].qpair = "disconnecting", ![t].reset_iter = TRUE]
           /\ UNCHANGED seq
  <2>1. chan' \in [Threads -> Channel]
    <3>1. PICK c : c = [chan[t] EXCEPT !.qpair = "disconnecting"]
      OBVIOUS
    <3>2. c \in Channel
      BY <1>1, <3>1 DEF Channel
    <3>3. [c EXCEPT !.reset_iter = TRUE] \in Channel
      BY <3>2 DEF Channel
    <3>4. chan' = [chan EXCEPT ![t] = [c EXCEPT !.reset_iter = TRUE]]
      BY <1>1, <1>3, <3>1
    <3> QED BY <1>1, <3>3, <3>4
  <2>2. \A u \in Threads : chan'[u].open <=> chan[u].open
    BY <1>1, <1>3 DEF Channel
  <2>3. \A u \in Threads : u # t => (chan'[u].reset_iter <=> chan[u].reset_iter)
    BY <1>1, <1>3 DEF Channel
  <2>4. TypeOK'
    BY <1>1, <1>3, <2>1 DEF TypeOK
  <2>5. Counted'
    BY <1>1, <2>2, RefsStay
  <2>6. Lasting' /\ Leaves' /\ UnregisteredOnce(ctrlr')
    BY <1>1, <1>3 DEF Lasting, Leaves
  <2>7. Waits'
    BY <1>1, <1>3, <2>3, Running DEF Waits
  <2>8. Sequenced'
    BY <1>1, <1>3, <2>7, Running DEF Sequenced, Clocked, Driven
  <2> QED BY <2>4, <2>5, <2>6, <2>8
<1> QED BY <1>2, <1>3 DEF VisitDestroy

(* VisitCreate keeps Inv.                                                  *)
LEMMA VisitCreateStep ==
  ASSUME Inv, ~ctrlr.fault, NEW t \in Threads, VisitCreate(t) PROVE Inv'
<1> USE DEF Inv
<1>1. /\ seq.iter.fn = "create" /\ seq.iter.at = t
      /\ Visiting(t, {"destroy", "create", "undo", "pending"})
      /\ chan \in [Threads -> Channel] /\ seq \in Sequence
      /\ UNCHANGED <<opts, ctrlr, paths, drv, removed, adminq, ns, orphans, cache>>
  BY DEF VisitCreate, Visiting, TypeOK
<1>2. CASE /\ chan' = [chan EXCEPT ![t].qpair = "up"]
           /\ seq' = [seq EXCEPT !.iter = Continue(@, chan)]
  <2>1. chan' \in [Threads -> Channel]
    <3>1. [chan[t] EXCEPT !.qpair = "up"] \in Channel
      BY <1>1 DEF Channel
    <3>2. chan' = [chan EXCEPT ![t] = [chan[t] EXCEPT !.qpair = "up"]]
      BY <1>1, <1>2
    <3> QED BY <1>1, <3>1, <3>2
  <2>2. \A u \in Threads : (chan'[u].open <=> chan[u].open)
                           /\ (chan'[u].reset_iter => chan[u].reset_iter)
    BY <1>1, <1>2 DEF Channel
  <2> QED BY <1>1, <1>2, <2>1, <2>2, VisitGoesOn
<1>3. CASE seq' = [seq EXCEPT !.iter.at = N + 1, !.iter.ok = FALSE] /\ UNCHANGED chan
  <2>1. PICK i : i = [seq.iter EXCEPT !.at = N + 1, !.ok = FALSE]
    OBVIOUS
  <2>2. seq.iter \in Iteration
    BY <1>1 DEF Sequence
  <2>3. i \in Iteration
    <3>1. i = [fn |-> seq.iter.fn, at |-> N + 1, ok |-> FALSE]
      BY <2>1, <2>2 DEF Iteration
    <3> QED BY <2>2, <3>1 DEF Iteration
  <2>4. i.fn = "create"
    BY <1>1, <2>1, <2>2 DEF Iteration
  <2>5. seq' = [seq EXCEPT !.iter = i]
    BY <1>1, <1>3, <2>1
  <2>6. seq' \in Sequence
    BY <1>1, <2>3, <2>5 DEF Sequence
  <2>7. /\ seq'.iter.fn = "create" /\ (seq'.msg <=> seq.msg) /\ (seq'.timer <=> seq.timer)
        /\ seq'.disconnected_cb = seq.disconnected_cb /\ seq'.poller = seq.poller
    BY <1>1, <2>4, <2>5 DEF Sequence
  <2>8. TypeOK'
    BY <1>1, <1>3, <2>6 DEF TypeOK
  <2>9. Counted'
    BY <1>1, <1>3, RefsStay
  <2>10. Lasting' /\ Leaves' /\ UnregisteredOnce(ctrlr')
    BY <1>1, <2>7 DEF Lasting, Leaves
  <2>11. Alone(seq') /\ (ctrlr'.resetting <=> Carries(seq'))
    BY <1>1, <2>7, Running DEF Alone, Carries
  <2>12. Waits'
    BY <1>1, <1>3, Running DEF Waits
  <2>13. Clocked' /\ Driven'
    BY <1>1, <2>7, Running DEF Clocked, Driven
  <2> QED BY <2>8, <2>9, <2>10, <2>11, <2>12, <2>13 DEF Sequenced
<1> QED BY <1>2, <1>3 DEF VisitCreate

(* VisitPending keeps Inv.                                                 *)
LEMMA VisitPendingStep ==
  ASSUME Inv, ~ctrlr.fault, NEW t \in Threads, VisitPending(t) PROVE Inv'
<1>1. /\ Visiting(t, {"destroy", "create", "undo", "pending"})
      /\ chan \in [Threads -> Channel]
      /\ seq' = [seq EXCEPT !.iter = Continue(@, chan)]
      /\ UNCHANGED <<opts, ctrlr, paths, drv, removed, adminq, ns, orphans, cache>>
  BY DEF VisitPending, Visiting, Inv, TypeOK
<1>2. PICK r \in {"none", "active", "pending"} : chan' = [chan EXCEPT ![t].reset = r]
  <2> DEFINE r == IF chan[t].reset = "pending" THEN "none" ELSE chan[t].reset
  <2>1. r \in {"none", "active", "pending"}
    BY <1>1 DEF Channel
  <2>2. chan' = [chan EXCEPT ![t].reset = r]
    BY DEF VisitPending
  <2> QED BY <2>1, <2>2
<1>3. chan' \in [Threads -> Channel]
  BY <1>1, <1>2 DEF Channel
<1>4. \A u \in Threads : (chan'[u].open <=> chan[u].open)
                         /\ (chan'[u].reset_iter => chan[u].reset_iter)
  BY <1>1, <1>2 DEF Channel
<1> QED BY <1>1, <1>3, <1>4, VisitGoesOn

-----------------------------------------------------------------------------
(* The sequence is handed on.                                              *)

(* A handler that carries the sequence on and leaves the controller alone. *)
LEMMA HandedOn ==
  ASSUME Inv, ~ctrlr.fault, ctrlr.resetting,
         UNCHANGED <<opts, ctrlr, paths, removed, ns, chan, orphans, cache>>,
         seq' \in Sequence, adminq' \in {"poll", "paused", "gone"},
         drv' \in {"ok", "broken", "failed", "disconnecting", "down"},
         ~seq'.timer, seq'.poller # "detach", Alone(seq'), Carries(seq'), Waits', Driven'
  PROVE  Inv'
<1> USE DEF Inv
<1>1. ctrlr.phase = "live" /\ Clocked
  BY Running
<1>2. TypeOK'
  BY DEF TypeOK
<1>3. Counted' /\ Lasting' /\ UnregisteredOnce(ctrlr)'
  BY CtrlrStays
<1>4. Leaves'
  BY <1>1 DEF Leaves
<1>5. Clocked'
  BY <1>1 DEF Clocked
<1> QED BY <1>2, <1>3, <1>4, <1>5 DEF Sequenced

(* An iteration that has visited every channel.                            *)
LEMMA IterationEnds ==
  ASSUME Inv, ~ctrlr.fault, NEW fn \in {"destroy", "create", "undo", "pending"},
         Finished(fn)
  PROVE  /\ seq \in Sequence /\ ctrlr.resetting /\ ctrlr.phase = "live"
         /\ ~ctrlr.unregister_msg /\ ctrlr.reset_start # "unset"
         /\ seq.iter.fn = fn /\ ~seq.msg /\ ~seq.timer
         /\ seq.disconnected_cb = "none" /\ seq.poller = "none"
         /\ \A t \in Threads : ~chan[t].reset_iter
         /\ drv # "disconnecting"
         /\ drv = "down" => \/ ~opts.fabrics /\ fn = "destroy"
                            \/ ctrlr.reset_start = "lost" /\ fn = "pending" /\ ~seq.iter.ok
<1>1. seq \in Sequence /\ seq.iter.fn = fn /\ seq.iter.fn # "none" /\ seq.iter.at = N + 1
  BY DEF Finished, Inv, TypeOK
<1>2. /\ Alone(seq) /\ (ctrlr.resetting <=> Carries(seq)) /\ Waits /\ Clocked /\ Driven
      /\ ctrlr.resetting => ctrlr.phase = "live" /\ ~ctrlr.unregister_msg
  BY Running
<1>3. /\ ctrlr.resetting /\ ~seq.msg /\ ~seq.timer /\ seq.disconnected_cb = "none"
      /\ seq.poller # "reconnect"
  BY <1>1, <1>2 DEF Alone, Carries, Sequence
<1>4. seq.poller = "none"
  BY <1>1, <1>2, <1>3 DEF Inv, Leaves, Sequence
<1>5. \A t \in Threads : ~chan[t].reset_iter
  BY <1>1, <1>2 DEF Waits
<1>6. ctrlr.reset_start # "unset"
  BY <1>2, <1>3 DEF Clocked
<1> QED BY <1>1, <1>2, <1>3, <1>4, <1>5, <1>6 DEF Driven

(* The sequence without an iteration.                                      *)
LEMMA RestType ==
  ASSUME seq \in Sequence
  PROVE  /\ Rest \in Sequence /\ Rest.iter.fn = "none" /\ (Rest.msg <=> seq.msg)
         /\ (Rest.timer <=> seq.timer) /\ Rest.disconnected_cb = seq.disconnected_cb
         /\ Rest.poller = seq.poller
<1>1. PICK i : i = NoIteration
  OBVIOUS
<1>2. i \in Iteration /\ i.fn = "none"
  BY <1>1 DEF NoIteration, Iteration
<1>3. Rest = [seq EXCEPT !.iter = i]
  BY <1>1 DEF Rest
<1>4. Rest \in Sequence
  BY <1>2, <1>3 DEF Sequence
<1>5. /\ Rest.iter = i /\ (Rest.msg <=> seq.msg)
      /\ (Rest.timer <=> seq.timer) /\ Rest.disconnected_cb = seq.disconnected_cb
      /\ Rest.poller = seq.poller
  BY <1>3 DEF Sequence
<1> QED BY <1>2, <1>4, <1>5

(* QpairsDestroyed keeps Inv: the driver does not refuse to disconnect a   *)
(* fabrics controller, which is connected.                                 *)
LEMMA QpairsDestroyedStep ==
  ASSUME Inv, ~ctrlr.fault, QpairsDestroyed PROVE Inv'
<1>1. PICK s : s = Rest
  OBVIOUS
<1>2. /\ Finished("destroy")
      /\ UNCHANGED <<opts, ctrlr, paths, removed, ns, chan, orphans, cache>>
      /\ IF opts.fabrics THEN Disconnect(s, "reconnect")
         ELSE seq' = Reconnect(s) /\ UNCHANGED <<drv, adminq>>
  BY <1>1 DEF QpairsDestroyed
<1>3. /\ seq \in Sequence /\ ctrlr.resetting /\ ~seq.msg /\ ~seq.timer
      /\ seq.disconnected_cb = "none" /\ seq.poller = "none"
      /\ \A t \in Threads : ~chan[t].reset_iter
      /\ drv # "disconnecting" /\ (drv = "down" => ~opts.fabrics)
  BY <1>2, IterationEnds
<1>4. /\ s \in Sequence /\ s.iter.fn = "none" /\ ~s.msg /\ ~s.timer
      /\ s.disconnected_cb = "none" /\ s.poller = "none"
  BY <1>1, <1>3, RestType
<1>5. TypeOK /\ Waits' /\ (removed => ~opts.fabrics)
  BY <1>2, <1>3 DEF Inv, Waits, Lasting
<1>6. CASE opts.fabrics
  <2>1. Disconnect(s, "reconnect")
    BY <1>2, <1>6
  <2>2. /\ seq' \in Sequence /\ adminq' \in {"poll", "paused", "gone"}
        /\ drv' = "disconnecting" /\ (seq'.msg <=> s.msg) /\ (seq'.timer <=> s.timer)
        /\ seq'.poller = s.poller /\ seq'.iter = s.iter /\ seq'.disconnected_cb = "reconnect"
    BY <1>3, <1>4, <1>5, <1>6, <2>1, DisconnectProperties
  <2>3. Alone(seq') /\ Carries(seq') /\ Driven'
    BY <1>2, <1>4, <2>2 DEF Alone, Carries, Driven
  <2> QED BY <1>2, <1>3, <1>4, <1>5, <2>2, <2>3, HandedOn
<1>7. CASE ~opts.fabrics
  <2>1. seq' = Reconnect(s) /\ UNCHANGED <<drv, adminq>>
    BY <1>2, <1>7
  <2>2. seq' \in Sequence
    BY <1>4, <2>1 DEF Reconnect, Sequence
  <2>3. /\ (seq'.msg <=> s.msg) /\ (seq'.timer <=> s.timer)
        /\ seq'.poller = "reconnect" /\ seq'.iter = s.iter
        /\ seq'.disconnected_cb = s.disconnected_cb
    BY <1>4, <2>1 DEF Reconnect, Sequence
  <2>4. Alone(seq') /\ Carries(seq') /\ Driven'
    BY <1>2, <1>3, <1>4, <2>1, <2>3 DEF Alone, Carries, Driven
  <2>5. adminq' \in {"poll", "paused", "gone"}
        /\ drv' \in {"ok", "broken", "failed", "disconnecting", "down"}
    BY <1>5, <2>1 DEF TypeOK
  <2> QED BY <1>2, <1>3, <1>4, <1>5, <2>2, <2>3, <2>4, <2>5, HandedOn
<1> QED BY <1>6, <1>7

(* QpairsCreated keeps Inv.                                                *)
LEMMA QpairsCreatedStep ==
  ASSUME Inv, ~ctrlr.fault, QpairsCreated PROVE Inv'
<1>1. PICK fn \in {"create", "undo"} : Finished(fn)
  BY DEF QpairsCreated
<1>2. PICK s : s = seq
  OBVIOUS
<1>3. UNCHANGED <<opts, ctrlr, paths, drv, removed, adminq, ns, chan, orphans, cache>>
  BY DEF QpairsCreated
<1>4. /\ seq \in Sequence /\ ctrlr.resetting /\ ~seq.msg /\ ~seq.timer
      /\ seq.disconnected_cb = "none" /\ seq.poller = "none"
      /\ \A t \in Threads : ~chan[t].reset_iter
      /\ drv # "disconnecting" /\ drv # "down"
  BY <1>1, IterationEnds
<1>5. /\ seq' \in Sequence /\ seq'.iter.fn \in {"undo", "pending"}
      /\ (seq'.msg <=> seq.msg) /\ (seq'.timer <=> seq.timer)
      /\ seq'.disconnected_cb = seq.disconnected_cb /\ seq'.poller = seq.poller
  <2>1. \/ seq' = Carry(s, "pending", TRUE)
        \/ seq' = Carry(s, "undo", TRUE)
        \/ seq' = Carry(s, "pending", FALSE)
    BY <1>2 DEF QpairsCreated
  <2>2. CASE seq' = Carry(s, "pending", TRUE)
    BY <1>2, <1>4, <2>2, CarryType
  <2>3. CASE seq' = Carry(s, "undo", TRUE)
    BY <1>2, <1>4, <2>3, CarryType
  <2>4. CASE seq' = Carry(s, "pending", FALSE)
    BY <1>2, <1>4, <2>4, CarryType
  <2> QED BY <2>1, <2>2, <2>3, <2>4
<1>6. Alone(seq') /\ Carries(seq') /\ Driven' /\ Waits'
  BY <1>3, <1>4, <1>5 DEF Alone, Carries, Driven, Waits
<1>7. adminq' \in {"poll", "paused", "gone"}
      /\ drv' \in {"ok", "broken", "failed", "disconnecting", "down"}
  BY <1>3 DEF Inv, TypeOK
<1> QED BY <1>3, <1>4, <1>5, <1>6, <1>7, HandedOn

(* ReconnectPolled keeps Inv.                                              *)
LEMMA ReconnectPolledStep ==
  ASSUME Inv, ~ctrlr.fault, ReconnectPolled PROVE Inv'
<1>1. PICK s : s = [seq EXCEPT !.poller = "none"]
  OBVIOUS
<1>2. /\ seq.poller = "reconnect" /\ seq \in Sequence
      /\ UNCHANGED <<opts, ctrlr, paths, removed, adminq, ns, chan, orphans, cache>>
      /\ drv \in {"ok", "broken", "failed", "disconnecting", "down"}
      /\ adminq' \in {"poll", "paused", "gone"}
  BY DEF ReconnectPolled, Inv, TypeOK
<1>3. /\ ctrlr.resetting /\ ~seq.msg /\ ~seq.timer /\ seq.iter.fn = "none"
      /\ seq.disconnected_cb = "none" /\ drv # "disconnecting"
      /\ \A t \in Threads : ~chan[t].reset_iter
  BY <1>2, Running DEF Alone, Carries, Driven, Waits
<1>4. s \in Sequence
  BY <1>1, <1>2 DEF Sequence
<1>5. /\ ~s.msg /\ ~s.timer /\ s.disconnected_cb = "none" /\ s.poller = "none"
  BY <1>1, <1>2, <1>3 DEF Sequence
<1>6. \/ seq' = Carry(s, "create", TRUE) /\ drv' = "ok"
      \/ /\ seq' = Carry(s, "pending", FALSE)
         /\ drv' = IF ctrlr.reset_start = "lost" THEN drv ELSE "failed"
  BY <1>1 DEF ReconnectPolled
<1>7. /\ seq' \in Sequence
      /\ ~seq'.msg /\ ~seq'.timer /\ seq'.disconnected_cb = "none" /\ seq'.poller = "none"
      /\ \/ seq'.iter.fn = "create" /\ drv' = "ok"
         \/ /\ seq'.iter.fn = "pending" /\ ~seq'.iter.ok
            /\ drv' = IF ctrlr.reset_start = "lost" THEN drv ELSE "failed"
  <2>1. CASE seq' = Carry(s, "create", TRUE) /\ drv' = "ok"
    BY <1>4, <1>5, <2>1, CarryType
  <2>2. CASE /\ seq' = Carry(s, "pending", FALSE)
             /\ drv' = IF ctrlr.reset_start = "lost" THEN drv ELSE "failed"
    <3>1. /\ seq' \in Sequence /\ seq'.iter.fn = "pending" /\ ~seq'.iter.ok
          /\ ~seq'.msg /\ ~seq'.timer
          /\ seq'.disconnected_cb = "none" /\ seq'.poller = "none"
      BY <1>4, <1>5, <2>2, CarryType
    <3> QED BY <2>2, <3>1
  <2> QED BY <1>6, <2>1, <2>2
<1>8. /\ drv' \in {"ok", "broken", "failed", "disconnecting", "down"}
      /\ drv' # "disconnecting"
      /\ drv' = "down" => /\ ctrlr.reset_start = "lost"
                          /\ seq'.iter.fn = "pending" /\ ~seq'.iter.ok
  BY <1>2, <1>3, <1>7
<1>9. Alone(seq') /\ Carries(seq') /\ Driven' /\ Waits'
  BY <1>2, <1>3, <1>7, <1>8 DEF Alone, Carries, Driven, Waits
<1> QED BY <1>2, <1>3, <1>7, <1>8, <1>9, HandedOn

(* _bdev_nvme_delete, also where the sequence has ended just before: c is  *)
(* ctrlr as the handler has changed it so far.                             *)
LEMMA DeleteProperties ==
  ASSUME TypeOK, Counted, Leaves, NEW c \in Ctrlr, UnregisteredOnce(c),
         c.ref = ctrlr.ref, c.destruct <=> ctrlr.destruct,
         ctrlr' = Delete(c), ns' = Depopulate, orphans' = orphans,
         \A t \in Threads : chan'[t].open <=> chan[t].open
  PROVE  /\ ctrlr' \in Ctrlr /\ UnregisteredOnce(ctrlr') /\ ctrlr'.destruct
         /\ ctrlr'.reset_start = c.reset_start /\ (ctrlr'.resetting <=> c.resetting)
         /\ (ctrlr'.io_path_cache_clearing <=> c.io_path_cache_clearing)
         /\ (ctrlr'.fault <=> c.fault)
         /\ \/ ctrlr' = c
            \/ c.phase = "live" /\ ctrlr'.phase \in {"live", "unregistering"}
         /\ ns' \in {"unregistering", "gone"} /\ Counted'
<1>1. /\ ns' \in {"unregistering", "gone"} /\ (ns' = "gone" <=> ns = "gone")
      /\ ctrlr.destruct <=> ns # "present"
  BY DEF Depopulate, TypeOK, Leaves
<1>2. CASE c.destruct
  <2>1. ctrlr' = c
    BY <1>2 DEF Delete
  <2>2. Counted'
    BY <1>1, <1>2, <2>1, RefsStay
  <2> QED BY <1>1, <1>2, <2>1, <2>2
<1>3. CASE ~c.destruct
  <2>1. PICK e : e = [c EXCEPT !.destruct = TRUE]
    OBVIOUS
  <2>2. e \in Ctrlr
    BY <2>1 DEF Ctrlr
  <2>3. /\ e.ref = c.ref /\ e.phase = c.phase /\ e.reset_start = c.reset_start
        /\ e.unregisters = c.unregisters
    BY <2>1 DEF Ctrlr
  <2>4. /\ e.destruct /\ (e.resetting <=> c.resetting)
        /\ (e.io_path_cache_clearing <=> c.io_path_cache_clearing)
        /\ (e.fault <=> c.fault) /\ (e.unregister_msg <=> c.unregister_msg)
    BY <2>1 DEF Ctrlr
  <2>5. c.phase = "live" /\ ~c.unregister_msg
    BY <1>3 DEF UnregisteredOnce, CanBeUnregistered
  <2>6. UnregisteredOnce(e)
    BY <2>3, <2>4, <2>5 DEF UnregisteredOnce
  <2>7. e.ref >= 1
    BY <1>1, <1>3, <2>3, RefsHeld
  <2>8. ctrlr' = Release(e, 1)
    BY <1>3, <2>1 DEF Delete
  <2>9. /\ ctrlr' \in Ctrlr /\ UnregisteredOnce(ctrlr')
        /\ ctrlr'.ref = e.ref - 1 /\ ctrlr'.phase \in {"live", "unregistering"}
        /\ ctrlr'.reset_start = e.reset_start
        /\ (ctrlr'.destruct <=> e.destruct) /\ (ctrlr'.resetting <=> e.resetting)
        /\ (ctrlr'.io_path_cache_clearing <=> e.io_path_cache_clearing)
        /\ (ctrlr'.fault <=> e.fault)
    BY <2>2, <2>6, <2>7, <2>8, ReleaseProperties
  <2>10. Counted'
    <3>1. Holders' = Holders /\ Outlived' = Outlived
      BY DEF Holders, Outlived
    <3>2. /\ Cardinality(Holders) \in Nat /\ Cardinality(Outlived) \in Nat
          /\ RefsCounted /\ IsFiniteSet(Outlived)
      BY FiniteHolders DEF Counted
    <3>3. PICK k \in Nat : k = Cardinality(Holders) + Cardinality(Outlived)
      BY <3>2
    <3>4. ctrlr.ref = 2 + k
      BY <1>1, <1>3, <3>2, <3>3 DEF RefsCounted
    <3>5. ctrlr'.ref = 1 + k /\ ctrlr'.destruct /\ ns' # "gone"
      BY <1>1, <1>3, <2>3, <2>4, <2>9, <3>4
    <3>6. RefsCounted'
      BY <3>1, <3>2, <3>3, <3>5 DEF RefsCounted
    <3> QED BY <3>1, <3>2, <3>6 DEF Counted
  <2> QED BY <1>1, <2>3, <2>4, <2>5, <2>9, <2>10
<1> QED BY <1>2, <1>3

(* ResetCompleted keeps Inv.                                               *)
LEMMA ResetCompletedStep ==
  ASSUME Inv, ~ctrlr.fault, ResetCompleted PROVE Inv'
<1> USE DEF Inv
<1>1. PICK c : c = Ended(ctrlr)
  OBVIOUS
<1>2. PICK s : s = [Rest EXCEPT !.reset_cb = 0]
  OBVIOUS
<1>3. /\ Finished("pending") /\ ctrlr \in Ctrlr /\ chan \in [Threads -> Channel]
      /\ chan' = [t \in Threads |->
                    IF t = seq.reset_cb THEN [chan[t] EXCEPT !.reset = "none"] ELSE chan[t]]
      /\ UNCHANGED <<opts, paths, removed, orphans, cache>>
      /\ drv \in {"ok", "broken", "failed", "disconnecting", "down"}
      /\ adminq \in {"poll", "paused", "gone"}
  BY DEF ResetCompleted, TypeOK
<1>4. /\ seq \in Sequence /\ ctrlr.resetting /\ ctrlr.phase = "live"
      /\ ~ctrlr.unregister_msg /\ ctrlr.reset_start # "unset"
      /\ ~seq.msg /\ ~seq.timer /\ seq.disconnected_cb = "none" /\ seq.poller = "none"
      /\ \A t \in Threads : ~chan[t].reset_iter
      /\ drv # "disconnecting"
      /\ drv = "down" => ctrlr.reset_start = "lost" /\ ~seq.iter.ok
  BY <1>3, IterationEnds
<1>5. /\ Rest \in Sequence /\ Rest.iter.fn = "none" /\ ~Rest.msg
      /\ ~Rest.timer /\ Rest.disconnected_cb = "none" /\ Rest.poller = "none"
  BY <1>4, RestType
<1>6. s \in Sequence
  <2>1. 0 \in 0..N
    OBVIOUS
  <2> QED BY <1>2, <1>5, <2>1 DEF Sequence
<1>7. /\ s.iter.fn = "none" /\ ~s.msg /\ ~s.timer
      /\ s.disconnected_cb = "none" /\ s.poller = "none"
  BY <1>2, <1>5 DEF Sequence
<1>8. c \in Ctrlr
  BY <1>1, <1>3 DEF Ended, Ctrlr
<1>9. /\ c.ref = ctrlr.ref /\ c.phase = ctrlr.phase /\ c.reset_start = ctrlr.reset_start
      /\ c.unregisters = ctrlr.unregisters
  BY <1>1, <1>3 DEF Ended, Ctrlr
<1>10. /\ ~c.resetting /\ (c.destruct <=> ctrlr.destruct)
       /\ (c.io_path_cache_clearing <=> ctrlr.io_path_cache_clearing)
       /\ (c.unregister_msg <=> ctrlr.unregister_msg) /\ ~c.fault
  BY <1>1, <1>3 DEF Ended, Ctrlr
<1>11. UnregisteredOnce(c)
  BY <1>4, <1>9, <1>10 DEF UnregisteredOnce
<1>12. \A t \in Threads : chan'[t] \in Channel /\ (chan'[t].open <=> chan[t].open)
                          /\ ~chan'[t].reset_iter
  <2> TAKE t \in Threads
  <2>1. chan[t] \in Channel
    BY <1>3
  <2>2. CASE t = seq.reset_cb
    <3>1. chan'[t] = [chan[t] EXCEPT !.reset = "none"]
      BY <1>3, <2>2
    <3> QED BY <1>4, <2>1, <3>1 DEF Channel
  <2>3. CASE t # seq.reset_cb
    BY <1>3, <1>4, <2>1, <2>3
  <2> QED BY <2>2, <2>3
<1>13. chan' \in [Threads -> Channel] /\ Waits'
  BY <1>3, <1>12 DEF Waits
<1>14. CASE /\ CanBeUnregistered(c) /\ ctrlr' = Unregister(c)
            /\ seq' = s /\ UNCHANGED <<drv, adminq, ns>>
  <2>1. /\ ctrlr' \in Ctrlr /\ UnregisteredOnce(ctrlr')
        /\ ctrlr'.ref = c.ref /\ ctrlr'.phase = "unregistering"
        /\ ctrlr'.reset_start = c.reset_start
        /\ (ctrlr'.destruct <=> c.destruct) /\ (ctrlr'.resetting <=> c.resetting)
        /\ (ctrlr'.io_path_cache_clearing <=> c.io_path_cache_clearing)
        /\ (ctrlr'.fault <=> c.fault)
    BY <1>4, <1>8, <1>9, <1>10, <1>11, <1>14, UnregisterProperties DEF UnregisteredOnce
  <2>2. TypeOK'
    BY <1>3, <1>6, <1>13, <1>14, <2>1 DEF TypeOK
  <2>3. Counted'
    BY <1>3, <1>9, <1>10, <1>12, <1>14, <2>1, RefsStay
  <2>4. Lasting' /\ Leaves'
    BY <1>3, <1>4, <1>7, <1>9, <1>10, <1>14, <2>1 DEF Lasting, Leaves
  <2>5. c.destruct
    BY <1>14 DEF CanBeUnregistered
  <2>6. Sequenced'
    BY <1>3, <1>4, <1>7, <1>9, <1>10, <1>13, <1>14, <2>1, <2>5
       DEF Sequenced, Alone, Carries, Clocked, Driven
  <2> QED BY <2>1, <2>2, <2>3, <2>4, <2>6
<1>15. CASE /\ seq.iter.ok \/ ~opts.delay
            /\ ctrlr' = [c EXCEPT !.reset_start = "unset"]
            /\ seq' = s /\ UNCHANGED <<drv, adminq, ns>>
  <2>1. ctrlr' \in Ctrlr
    BY <1>8, <1>15 DEF Ctrlr
  <2>2. /\ ctrlr'.ref = c.ref /\ ctrlr'.phase = c.phase /\ ctrlr'.reset_start = "unset"
        /\ ctrlr'.unregisters = c.unregisters
    BY <1>8, <1>15 DEF Ctrlr
  <2>3. /\ ~ctrlr'.resetting /\ (ctrlr'.destruct <=> c.destruct)
        /\ (ctrlr'.io_path_cache_clearing <=> c.io_path_cache_clearing)
        /\ (ctrlr'.unregister_msg <=> c.unregister_msg)
    BY <1>8, <1>10, <1>15 DEF Ctrlr
  <2>4. TypeOK'
    BY <1>3, <1>6, <1>13, <1>15, <2>1 DEF TypeOK
  <2>5. Counted'
    BY <1>3, <1>9, <1>10, <1>12, <1>15, <2>2, <2>3, RefsStay
  <2>6. UnregisteredOnce(ctrlr')
    BY <1>4, <1>9, <1>10, <1>11, <2>2, <2>3 DEF UnregisteredOnce
  <2>7. Lasting' /\ Leaves'
    BY <1>3, <1>4, <1>7, <1>9, <1>10, <1>15, <2>2, <2>3 DEF Lasting, Leaves
  <2>8. drv # "down"
    BY <1>4, <1>15 DEF TypeOK, Lasting
  <2>9. Sequenced'
    BY <1>3, <1>4, <1>7, <1>13, <1>15, <2>2, <2>3, <2>8
       DEF Sequenced, Alone, Carries, Clocked, Driven
  <2> QED BY <2>4, <2>5, <2>6, <2>7, <2>9
<1>16. CASE ctrlr' = Delete(c) /\ ns' = Depopulate /\ seq' = s /\ UNCHANGED <<drv, adminq>>
  <2>1. /\ ctrlr' \in Ctrlr /\ UnregisteredOnce(ctrlr') /\ ctrlr'.destruct
        /\ ctrlr'.reset_start = c.reset_start /\ (ctrlr'.resetting <=> c.resetting)
        /\ (ctrlr'.io_path_cache_clearing <=> c.io_path_cache_clearing)
        /\ (ctrlr'.fault <=> c.fault)
        /\ \/ ctrlr' = c
           \/ c.phase = "live" /\ ctrlr'.phase \in {"live", "unregistering"}
        /\ ns' \in {"unregistering", "gone"} /\ Counted'
    BY <1>3, <1>8, <1>9, <1>10, <1>11, <1>12, <1>16, DeleteProperties
  <2>2. TypeOK'
    BY <1>3, <1>6, <1>13, <1>16, <2>1 DEF TypeOK
  <2>3. ctrlr'.phase \in {"live", "unregistering"}
    BY <1>4, <1>9, <2>1
  <2>4. Lasting' /\ Leaves'
    BY <1>3, <1>4, <1>7, <1>9, <1>10, <1>16, <2>1, <2>3 DEF Lasting, Leaves
  <2>5. Sequenced'
    BY <1>3, <1>4, <1>7, <1>9, <1>10, <1>13, <1>16, <2>1
       DEF Sequenced, Alone, Carries, Clocked, Driven
  <2> QED BY <2>1, <2>2, <2>4, <2>5
<1>17. CASE /\ ~seq.iter.ok /\ opts.delay /\ c.reset_start # "lost"
            /\ ctrlr' = [c EXCEPT !.fault = removed]
            /\ Disconnect(s, "delay") /\ UNCHANGED ns
  <2>1. ctrlr' \in Ctrlr
    BY <1>8, <1>17 DEF Ctrlr, TypeOK
  <2>2. /\ ctrlr'.ref = c.ref /\ ctrlr'.phase = c.phase /\ ctrlr'.reset_start = c.reset_start
        /\ ctrlr'.unregisters = c.unregisters
    BY <1>8, <1>17 DEF Ctrlr
  <2>3. /\ ~ctrlr'.resetting /\ (ctrlr'.destruct <=> c.destruct)
        /\ (ctrlr'.io_path_cache_clearing <=> c.io_path_cache_clearing)
        /\ (ctrlr'.unregister_msg <=> c.unregister_msg) /\ (ctrlr'.fault <=> removed)
    BY <1>8, <1>10, <1>17 DEF Ctrlr
  <2>4. /\ seq' \in Sequence /\ adminq' \in {"poll", "paused", "gone"}
        /\ drv' \in {"ok", "broken", "failed", "disconnecting", "down"}
        /\ ~seq'.msg /\ ~seq'.timer /\ seq'.poller = "none"
        /\ \/ removed
           \/ /\ seq'.iter = s.iter /\ seq'.disconnected_cb = "delay"
              /\ drv' = "disconnecting"
    BY <1>4, <1>6, <1>7, <1>9, <1>17, DisconnectProperties
  <2>5. TypeOK'
    BY <1>3, <1>13, <1>17, <2>1, <2>4 DEF TypeOK
  <2>6. Counted'
    BY <1>3, <1>9, <1>10, <1>12, <1>17, <2>2, <2>3, RefsStay
  <2>7. UnregisteredOnce(ctrlr')
    BY <1>4, <1>9, <1>10, <1>11, <2>2, <2>3 DEF UnregisteredOnce
  <2>8. Lasting' /\ Leaves'
    BY <1>3, <1>4, <1>9, <1>10, <1>17, <2>2, <2>3, <2>4 DEF Lasting, Leaves
  <2>9. Sequenced'
    <3>1. CASE removed
      BY <1>3, <1>17, <2>3, <3>1 DEF Sequenced
    <3>2. CASE ~removed
      BY <1>3, <1>4, <1>7, <1>9, <1>13, <1>17, <2>2, <2>3, <2>4, <3>2
         DEF Sequenced, Alone, Carries, Clocked, Driven
    <3> QED BY <3>1, <3>2
  <2> QED BY <2>5, <2>6, <2>7, <2>8, <2>9
<1> QED BY <1>1, <1>2, <1>14, <1>15, <1>16, <1>17 DEF ResetCompleted

(* TimerExpired keeps Inv: the timer carries the sequence on.              *)
LEMMA TimerExpiredStep ==
  ASSUME Inv, ~ctrlr.fault, TimerExpired PROVE Inv'
<1> USE DEF Inv
<1>1. PICK s : s = [seq EXCEPT !.timer = FALSE]
  OBVIOUS
<1>2. PICK c : c = [ctrlr EXCEPT !.reconnect_is_delayed = FALSE]
  OBVIOUS
<1>3. /\ seq.timer /\ seq \in Sequence /\ ctrlr \in Ctrlr
      /\ UNCHANGED <<opts, paths, drv, removed, ns, chan, orphans, cache>>
      /\ IF ctrlr.destruct
         THEN ctrlr' = c /\ seq' = s /\ UNCHANGED adminq
         ELSE ctrlr' = [c EXCEPT !.resetting = TRUE] /\ seq' = Reconnect(s) /\ adminq' = "poll"
  BY <1>1, <1>2 DEF TimerExpired, TypeOK
<1>4. /\ ~seq.msg /\ seq.iter.fn = "none" /\ seq.disconnected_cb = "none"
      /\ seq.poller # "reconnect" /\ ~ctrlr.resetting /\ drv # "disconnecting"
      /\ \A t \in Threads : ~chan[t].reset_iter
      /\ ctrlr.reset_start # "unset" /\ Clocked
  BY <1>3, Running DEF Alone, Carries, Driven, Waits, Clocked
<1>5. ctrlr.phase \in {"live", "unregistering"} /\ seq.poller = "none"
  BY <1>3, <1>4 DEF Leaves, Ctrlr, Sequence
<1>6. s \in Sequence
  BY <1>1, <1>3 DEF Sequence
<1>7. /\ ~s.msg /\ ~s.timer /\ s.iter = seq.iter /\ s.disconnected_cb = "none"
      /\ s.poller = "none"
  BY <1>1, <1>3, <1>4, <1>5 DEF Sequence
<1>8. c \in Ctrlr
  BY <1>2, <1>3 DEF Ctrlr
<1>9. /\ c.ref = ctrlr.ref /\ c.phase = ctrlr.phase /\ c.reset_start = ctrlr.reset_start
      /\ c.unregisters = ctrlr.unregisters /\ c.ana = ctrlr.ana
  BY <1>2, <1>3 DEF Ctrlr
<1>10. /\ (c.destruct <=> ctrlr.destruct) /\ ~c.resetting /\ ~c.fault
       /\ (c.io_path_cache_clearing <=> ctrlr.io_path_cache_clearing)
       /\ (c.unregister_msg <=> ctrlr.unregister_msg)
  BY <1>2, <1>3, <1>4 DEF Ctrlr
<1>11. Waits'
  BY <1>3, <1>4 DEF Waits
<1>12. CASE ctrlr.destruct
  <2>1. ctrlr' = c /\ seq' = s /\ adminq' = adminq
    BY <1>3, <1>12
  <2>2. TypeOK'
    BY <1>3, <1>6, <1>8, <2>1 DEF TypeOK
  <2>3. Counted'
    BY <1>3, <1>9, <1>10, <2>1, RefsStay
  <2>4. UnregisteredOnce(ctrlr')
    BY <1>4, <1>9, <1>10, <2>1 DEF UnregisteredOnce, CanBeUnregistered
  <2>5. Lasting' /\ Leaves'
    BY <1>3, <1>5, <1>7, <1>9, <1>10, <2>1 DEF Lasting, Leaves
  <2>6. Sequenced'
    BY <1>3, <1>4, <1>7, <1>9, <1>10, <1>11, <1>12, <2>1
       DEF Sequenced, Alone, Carries, Clocked, Driven
  <2> QED BY <2>2, <2>3, <2>4, <2>5, <2>6
<1>13. CASE ~ctrlr.destruct
  <2>1. ctrlr' = [c EXCEPT !.resetting = TRUE] /\ seq' = Reconnect(s) /\ adminq' = "poll"
    BY <1>3, <1>13
  <2>2. ctrlr' \in Ctrlr
    BY <1>8, <2>1 DEF Ctrlr
  <2>3. /\ ctrlr'.ref = c.ref /\ ctrlr'.phase = c.phase /\ ctrlr'.reset_start = c.reset_start
        /\ ctrlr'.unregisters = c.unregisters
    BY <1>8, <2>1 DEF Ctrlr
  <2>4. /\ (ctrlr'.destruct <=> c.destruct) /\ ctrlr'.resetting /\ ~ctrlr'.fault
        /\ (ctrlr'.io_path_cache_clearing <=> c.io_path_cache_clearing)
        /\ (ctrlr'.unregister_msg <=> c.unregister_msg)
    BY <1>8, <1>10, <2>1 DEF Ctrlr
  <2>5. seq' \in Sequence
    BY <1>6, <2>1 DEF Reconnect, Sequence
  <2>6. /\ (seq'.msg <=> s.msg) /\ (seq'.timer <=> s.timer) /\ seq'.poller = "reconnect"
        /\ seq'.iter = s.iter /\ seq'.disconnected_cb = s.disconnected_cb
    BY <1>6, <2>1 DEF Reconnect, Sequence
  <2>7. ctrlr.phase = "live" /\ ~ctrlr.unregister_msg
    BY <1>13, Running
  <2>8. TypeOK'
    BY <1>3, <2>1, <2>2, <2>5 DEF TypeOK
  <2>9. Counted'
    BY <1>3, <1>9, <1>10, <2>3, <2>4, RefsStay
  <2>10. UnregisteredOnce(ctrlr')
    BY <1>9, <1>10, <2>3, <2>4, <2>7 DEF UnregisteredOnce
  <2>11. Lasting' /\ Leaves'
    BY <1>3, <1>7, <1>9, <1>10, <2>3, <2>4, <2>6, <2>7 DEF Lasting, Leaves
  <2>12. Sequenced'
    BY <1>3, <1>4, <1>7, <1>9, <1>11, <2>3, <2>4, <2>6
       DEF Sequenced, Alone, Carries, Clocked, Driven
  <2> QED BY <2>8, <2>9, <2>10, <2>11, <2>12
<1> QED BY <1>12, <1>13

(* LossTimeout keeps Inv.                                                  *)
LEMMA LossTimeoutStep ==
  ASSUME Inv, ~ctrlr.fault, LossTimeout PROVE Inv'
<1> USE DEF Inv
<1>1. /\ opts.loss /\ ctrlr.reset_start = "running" /\ ctrlr \in Ctrlr
      /\ ctrlr' = [ctrlr EXCEPT !.reset_start = "lost"]
      /\ UNCHANGED <<opts, seq, paths, drv, removed, adminq, ns, chan, orphans, cache>>
  BY DEF LossTimeout, TypeOK
<1>2. ctrlr' \in Ctrlr
  BY <1>1 DEF Ctrlr
<1>3. /\ ctrlr'.ref = ctrlr.ref /\ ctrlr'.phase = ctrlr.phase /\ ctrlr'.reset_start = "lost"
      /\ ctrlr'.unregisters = ctrlr.unregisters /\ ctrlr'.ana = ctrlr.ana
  BY <1>1 DEF Ctrlr
<1>4. /\ (ctrlr'.destruct <=> ctrlr.destruct) /\ (ctrlr'.resetting <=> ctrlr.resetting)
      /\ (ctrlr'.io_path_cache_clearing <=> ctrlr.io_path_cache_clearing)
      /\ (ctrlr'.unregister_msg <=> ctrlr.unregister_msg) /\ (ctrlr'.fault <=> ctrlr.fault)
  BY <1>1 DEF Ctrlr
<1>5. TypeOK'
  BY <1>1, <1>2 DEF TypeOK
<1>6. Counted'
  BY <1>1, <1>3, <1>4, RefsStay
<1>7. UnregisteredOnce(ctrlr')
  BY <1>3, <1>4 DEF UnregisteredOnce, CanBeUnregistered
<1>8. Lasting' /\ Leaves'
  BY <1>1, <1>3, <1>4 DEF Lasting, Leaves
<1>9. Sequenced'
  <2>1. Alone(seq') /\ (ctrlr'.resetting <=> Carries(seq')) /\ Waits'
    BY <1>1, <1>4, Running DEF Waits
  <2>2. Clocked' /\ Driven'
    BY <1>1, <1>3, <1>4, Running DEF Clocked, Driven
  <2> QED BY <2>1, <2>2 DEF Sequenced
<1> QED BY <1>5, <1>6, <1>7, <1>8, <1>9

-----------------------------------------------------------------------------
(* The admin queue, ANA log pages and the cached I/O paths.                *)

(* AdminLost keeps Inv.                                                    *)
LEMMA AdminLostStep ==
  ASSUME Inv, ~ctrlr.fault, AdminLost PROVE Inv'
<1> USE DEF Inv
<1>1. /\ drv = "ok" /\ drv' = "broken"
      /\ UNCHANGED <<opts, ctrlr, seq, paths, removed, adminq, ns, chan, orphans, cache>>
  BY DEF AdminLost
<1>2. TypeOK'
  BY <1>1 DEF TypeOK
<1>3. Counted' /\ Lasting' /\ UnregisteredOnce(ctrlr)'
  BY <1>1, CtrlrStays
<1>4. Leaves'
  BY <1>1 DEF Leaves
<1>5. Sequenced'
  BY <1>1, SequenceStays DEF DriverStays, NoneWait
<1> QED BY <1>2, <1>3, <1>4, <1>5

(* AdminFailed keeps Inv.                                                  *)
LEMMA AdminFailedStep ==
  ASSUME Inv, ~ctrlr.fault, AdminFailed PROVE Inv'
<1> USE DEF Inv
<1>1. /\ Failover(FALSE) /\ UNCHANGED <<opts, removed, adminq, ns, chan, orphans, cache>>
      /\ NoneWait
  BY DEF AdminFailed, NoneWait
<1>2. /\ ctrlr' \in Ctrlr /\ seq' \in Sequence /\ paths' \in 1..MaxPaths
      /\ drv' \in {"ok", "broken", "failed", "disconnecting", "down"}
      /\ Sequenced' /\ UnregisteredOnce(ctrlr')
      /\ ctrlr'.ref = ctrlr.ref /\ (ctrlr'.destruct <=> ctrlr.destruct)
      /\ (ctrlr'.io_path_cache_clearing <=> ctrlr.io_path_cache_clearing)
      /\ ctrlr'.phase = ctrlr.phase /\ seq'.poller = seq.poller
      /\ ctrlr.phase # "live" => ctrlr' = ctrlr /\ seq' = seq
      /\ ctrlr'.reset_start = "lost" => ctrlr.reset_start = "lost"
  BY <1>1, FailoverProperties
<1>3. TypeOK'
  BY <1>1, <1>2 DEF TypeOK
<1>4. Counted'
  BY <1>1, <1>2, RefsStay
<1>5. Lasting' /\ Leaves'
  BY <1>1, <1>2 DEF Lasting, Leaves
<1> QED BY <1>2, <1>3, <1>4, <1>5

(* A handler that touches neither the sequence nor what refers to the      *)
(* controller.                                                             *)
LEMMA CtrlrMoves ==
  ASSUME Inv, ~ctrlr.fault,
         UNCHANGED <<opts, seq, paths, drv, removed, adminq, ns, chan, orphans>>,
         ctrlr' \in Ctrlr, UnregisteredOnce(ctrlr'), cache' \in 0..N,
         ctrlr'.io_path_cache_clearing <=> cache' # 0,
         ctrlr'.ref = ctrlr.ref, ctrlr'.reset_start = ctrlr.reset_start,
         ctrlr'.destruct <=> ctrlr.destruct, ctrlr'.resetting <=> ctrlr.resetting,
         \/ ctrlr'.phase = ctrlr.phase /\ ~ctrlr'.fault
         \/ ctrlr.phase = "live" /\ ctrlr'.phase \in {"live", "unregistering"}
  PROVE  Inv'
<1> USE DEF Inv
<1>1. TypeOK'
  BY DEF TypeOK
<1>2. Counted'
  BY RefsStay
<1>3. Lasting' /\ Leaves'
  BY DEF Lasting, Leaves
<1>4. Sequenced'
  BY SequenceStays DEF DriverStays, NoneWait
<1> QED BY <1>1, <1>2, <1>3, <1>4

(* bdev_nvme_clear_io_path_caches.                                         *)
LEMMA ClearCachesStep ==
  ASSUME Inv, ~ctrlr.fault, NEW c \in Ctrlr, UnregisteredOnce(c), NEW t \in Threads,
         ClearCaches(c, t),
         c.io_path_cache_clearing <=> ctrlr.io_path_cache_clearing,
         c.ref = ctrlr.ref, c.reset_start = ctrlr.reset_start, c.phase = ctrlr.phase,
         c.destruct <=> ctrlr.destruct, c.resetting <=> ctrlr.resetting, ~c.fault,
         UNCHANGED <<opts, seq, paths, drv, removed, adminq, ns, chan, orphans>>
  PROVE  Inv'
<1>1. cache \in 0..N /\ (ctrlr.io_path_cache_clearing <=> cache # 0)
  BY DEF Inv, TypeOK, Leaves
<1>2. CASE ctrlr' = c /\ UNCHANGED cache
  BY <1>1, <1>2, CtrlrMoves
<1>3. CASE /\ IsAvailable(c) /\ ctrlr' = [c EXCEPT !.io_path_cache_clearing = TRUE] /\ cache' = t
  <2>1. ctrlr' \in Ctrlr
    BY <1>3 DEF Ctrlr
  <2>2. /\ ctrlr'.ref = c.ref /\ ctrlr'.phase = c.phase /\ ctrlr'.reset_start = c.reset_start
        /\ ctrlr'.unregisters = c.unregisters
    BY <1>3 DEF Ctrlr
  <2>3. /\ (ctrlr'.destruct <=> c.destruct) /\ (ctrlr'.resetting <=> c.resetting)
        /\ ctrlr'.io_path_cache_clearing
        /\ (ctrlr'.unregister_msg <=> c.unregister_msg) /\ ~ctrlr'.fault
    BY <1>3 DEF Ctrlr
  <2>4. c.phase = "live" /\ ~c.unregister_msg
    BY <1>3 DEF IsAvailable, UnregisteredOnce, CanBeUnregistered
  <2>5. UnregisteredOnce(ctrlr')
    BY <2>2, <2>3, <2>4 DEF UnregisteredOnce
  <2>6. cache' \in 0..N /\ cache' # 0
    BY <1>3
  <2> QED BY <2>1, <2>2, <2>3, <2>5, <2>6, CtrlrMoves
<1> QED BY <1>2, <1>3 DEF ClearCaches

(* AdminUnreachable keeps Inv.                                             *)
LEMMA AdminUnreachableStep ==
  ASSUME Inv, ~ctrlr.fault, AdminUnreachable PROVE Inv'
<1>1. /\ ClearCaches(ctrlr, 1) /\ ctrlr \in Ctrlr /\ UnregisteredOnce(ctrlr) /\ 1 \in Threads
      /\ UNCHANGED <<opts, seq, paths, drv, removed, adminq, ns, chan, orphans>>
  BY DEF AdminUnreachable, Inv, TypeOK
<1> QED BY <1>1, ClearCachesStep

(* CacheCleared keeps Inv: the controller was kept by the clearing.        *)
LEMMA CacheClearedStep ==
  ASSUME Inv, ~ctrlr.fault, CacheCleared PROVE Inv'
<1> USE DEF Inv
<1>1. PICK c : c = [ctrlr EXCEPT !.io_path_cache_clearing = FALSE]
  OBVIOUS
<1>2. PICK d : d = UnregisterIfLast(c)
  OBVIOUS
<1>3. /\ cache # 0 /\ cache' = 0 /\ ctrlr \in Ctrlr
      /\ ctrlr' = [d EXCEPT !.fault = @ \/ (CanBeUnregistered(c) /\ cache # 1)]
      /\ UNCHANGED <<opts, seq, paths, drv, removed, adminq, ns, chan, orphans>>
  BY <1>1, <1>2 DEF CacheCleared, TypeOK
<1>4. ctrlr.phase = "live" /\ ~ctrlr.unregister_msg
  BY <1>3 DEF UnregisteredOnce, CanBeUnregistered, Leaves
<1>5. c \in Ctrlr
  BY <1>1, <1>3 DEF Ctrlr
<1>6. /\ c.ref = ctrlr.ref /\ c.phase = ctrlr.phase /\ c.reset_start = ctrlr.reset_start
      /\ c.unregisters = ctrlr.unregisters
  BY <1>1, <1>3 DEF Ctrlr
<1>7. /\ (c.destruct <=> ctrlr.destruct) /\ (c.resetting <=> ctrlr.resetting) /\ ~c.fault
      /\ ~c.io_path_cache_clearing /\ (c.unregister_msg <=> ctrlr.unregister_msg)
  BY <1>1, <1>3 DEF Ctrlr
<1>8. UnregisteredOnce(c)
  BY <1>4, <1>6, <1>7 DEF UnregisteredOnce
<1>9. /\ d \in Ctrlr /\ UnregisteredOnce(d)
      /\ d.ref = c.ref /\ d.phase \in {"live", "unregistering"}
      /\ d.reset_start = c.reset_start
      /\ (d.destruct <=> c.destruct) /\ (d.resetting <=> c.resetting)
      /\ (d.io_path_cache_clearing <=> c.io_path_cache_clearing)
  <2>1. CASE CanBeUnregistered(c)
    <3>1. d = Unregister(c)
      BY <1>2, <2>1 DEF UnregisterIfLast
    <3>2. c.unregisters = 0
      BY <1>4, <1>6, <1>8 DEF UnregisteredOnce
    <3> QED BY <1>4, <1>5, <1>6, <1>7, <2>1, <3>1, <3>2, UnregisterProperties
  <2>2. CASE ~CanBeUnregistered(c)
    <3>1. d = c
      BY <1>2, <2>2 DEF UnregisterIfLast
    <3> QED BY <1>4, <1>5, <1>6, <1>8, <3>1
  <2> QED BY <2>1, <2>2
<1>10. PICK b \in BOOLEAN : ctrlr' = [d EXCEPT !.fault = b]
  <2>1. ctrlr' = [d EXCEPT !.fault = d.fault \/ (CanBeUnregistered(c) /\ cache # 1)]
    BY <1>3
  <2> QED BY <2>1
<1>11. ctrlr' \in Ctrlr
  BY <1>9, <1>10 DEF Ctrlr
<1>12. /\ ctrlr'.ref = d.ref /\ ctrlr'.phase = d.phase /\ ctrlr'.reset_start = d.reset_start
       /\ ctrlr'.unregisters = d.unregisters /\ ctrlr'.ana = d.ana
  BY <1>9, <1>10 DEF Ctrlr
<1>13. /\ (ctrlr'.destruct <=> d.destruct) /\ (ctrlr'.resetting <=> d.resetting)
       /\ (ctrlr'.io_path_cache_clearing <=> d.io_path_cache_clearing)
       /\ (ctrlr'.unregister_msg <=> d.unregister_msg)
  BY <1>9, <1>10 DEF Ctrlr
<1>14. UnregisteredOnce(ctrlr')
  BY <1>9, <1>12, <1>13 DEF UnregisteredOnce, CanBeUnregistered
<1>15. cache' \in 0..N
  BY <1>3
<1> QED BY <1>3, <1>4, <1>6, <1>7, <1>9, <1>11, <1>12, <1>13, <1>14, <1>15, CtrlrMoves

(* What the end of an ANA log read, or of the reading of them, changes.    *)
LEMMA AnaProperties ==
  ASSUME ctrlr \in Ctrlr, UnregisteredOnce(ctrlr), ctrlr.phase = "live",
         ~ctrlr.unregister_msg, ~ctrlr.fault, NEW ana \in {"none", "idle", "reading"}
  PROVE  LET c == [ctrlr EXCEPT !.ana = ana]
         IN  /\ c \in Ctrlr /\ UnregisteredOnce(c)
             /\ c.ref = ctrlr.ref /\ c.phase = "live" /\ c.reset_start = ctrlr.reset_start
             /\ c.unregisters = 0 /\ (c.destruct <=> ctrlr.destruct)
             /\ (c.resetting <=> ctrlr.resetting)
             /\ (c.io_path_cache_clearing <=> ctrlr.io_path_cache_clearing)
             /\ ~c.unregister_msg /\ ~c.fault
<1>1. PICK c : c = [ctrlr EXCEPT !.ana = ana]
  OBVIOUS
<1>2. c \in Ctrlr
  BY <1>1 DEF Ctrlr
<1>3. /\ c.ref = ctrlr.ref /\ c.phase = "live" /\ c.reset_start = ctrlr.reset_start
      /\ c.unregisters = 0
  BY <1>1 DEF Ctrlr, UnregisteredOnce
<1>4. /\ (c.destruct <=> ctrlr.destruct) /\ (c.resetting <=> ctrlr.resetting)
      /\ (c.io_path_cache_clearing <=> ctrlr.io_path_cache_clearing)
      /\ ~c.unregister_msg /\ ~c.fault
  BY <1>1 DEF Ctrlr
<1>5. UnregisteredOnce(c)
  BY <1>3, <1>4 DEF UnregisteredOnce
<1> QED BY <1>1, <1>2, <1>3, <1>4, <1>5

(* ReadAnaLogPage keeps Inv.                                               *)
LEMMA ReadAnaLogPageStep ==
  ASSUME Inv, ~ctrlr.fault, NEW t \in Threads, ReadAnaLogPage(t) PROVE Inv'
<1> USE DEF Inv
<1>1. /\ ctrlr \in Ctrlr /\ ctrlr.phase = "live" /\ ~ctrlr.unregister_msg
      /\ UNCHANGED <<opts, seq, paths, drv, removed, adminq, ns, chan, orphans>>
      /\ cache \in 0..N /\ (ctrlr.io_path_cache_clearing <=> cache # 0)
  BY DEF ReadAnaLogPage, IsAvailable, UnregisteredOnce, CanBeUnregistered, TypeOK, Leaves
<1>2. CASE ctrlr' = [ctrlr EXCEPT !.ana = "reading"] /\ UNCHANGED cache
  <2>1. PICK c : c = [ctrlr EXCEPT !.ana = "reading"]
    OBVIOUS
  <2>2. /\ c \in Ctrlr /\ UnregisteredOnce(c)
        /\ c.ref = ctrlr.ref /\ c.phase = "live" /\ c.reset_start = ctrlr.reset_start
        /\ (c.destruct <=> ctrlr.destruct) /\ (c.resetting <=> ctrlr.resetting)
        /\ (c.io_path_cache_clearing <=> ctrlr.io_path_cache_clearing) /\ ~c.fault
    BY <1>1, <2>1, AnaProperties
  <2> QED BY <1>1, <1>2, <2>1, <2>2, CtrlrMoves
<1>3. CASE ClearCaches([ctrlr EXCEPT !.ana = "none"], t)
  <2>1. PICK c : c = [ctrlr EXCEPT !.ana = "none"]
    OBVIOUS
  <2>2. /\ c \in Ctrlr /\ UnregisteredOnce(c)
        /\ c.ref = ctrlr.ref /\ c.phase = "live" /\ c.reset_start = ctrlr.reset_start
        /\ (c.destruct <=> ctrlr.destruct) /\ (c.resetting <=> ctrlr.resetting)
        /\ (c.io_path_cache_clearing <=> ctrlr.io_path_cache_clearing) /\ ~c.fault
    BY <1>1, <2>1, AnaProperties
  <2> QED BY <1>1, <1>3, <2>1, <2>2, ClearCachesStep
<1> QED BY <1>2, <1>3 DEF ReadAnaLogPage

(* AnaLogPageRead keeps Inv: the controller was kept by the read.          *)
LEMMA AnaLogPageReadStep ==
  ASSUME Inv, ~ctrlr.fault, AnaLogPageRead PROVE Inv'
<1> USE DEF Inv
<1>1. /\ ctrlr \in Ctrlr /\ ctrlr.phase = "live" /\ ~ctrlr.unregister_msg
      /\ UNCHANGED <<opts, seq, paths, drv, removed, adminq, ns, chan, orphans>>
      /\ cache \in 0..N /\ (ctrlr.io_path_cache_clearing <=> cache # 0)
  BY DEF AnaLogPageRead, UnregisteredOnce, CanBeUnregistered, TypeOK, Leaves
<1>2. PICK ana \in {"idle", "none"} :
        LET c == [ctrlr EXCEPT !.ana = ana]
        IN  IF CanBeUnregistered(c)
            THEN ctrlr' = Unregister(c) /\ UNCHANGED cache
            ELSE ClearCaches(c, 1)
  BY DEF AnaLogPageRead
<1>3. PICK c : c = [ctrlr EXCEPT !.ana = ana]
  OBVIOUS
<1>4. /\ c \in Ctrlr /\ UnregisteredOnce(c)
      /\ c.ref = ctrlr.ref /\ c.phase = "live" /\ c.reset_start = ctrlr.reset_start
      /\ c.unregisters = 0 /\ (c.destruct <=> ctrlr.destruct)
      /\ (c.resetting <=> ctrlr.resetting)
      /\ (c.io_path_cache_clearing <=> ctrlr.io_path_cache_clearing)
      /\ ~c.unregister_msg /\ ~c.fault
  BY <1>1, <1>3, AnaProperties
<1>5. CASE CanBeUnregistered(c)
  <2>1. ctrlr' = Unregister(c) /\ UNCHANGED cache
    BY <1>2, <1>3, <1>5
  <2>2. /\ ctrlr' \in Ctrlr /\ UnregisteredOnce(ctrlr')
        /\ ctrlr'.ref = c.ref /\ ctrlr'.phase = "unregistering"
        /\ ctrlr'.reset_start = c.reset_start
        /\ (ctrlr'.destruct <=> c.destruct) /\ (ctrlr'.resetting <=> c.resetting)
        /\ (ctrlr'.io_path_cache_clearing <=> c.io_path_cache_clearing)
    BY <1>4, <1>5, <2>1, UnregisterProperties
  <2> QED BY <1>1, <1>4, <2>1, <2>2, CtrlrMoves
<1>6. CASE ~CanBeUnregistered(c)
  <2>1. ClearCaches(c, 1) /\ 1 \in Threads
    BY <1>2, <1>3, <1>6
  <2> QED BY <1>1, <1>4, <2>1, ClearCachesStep
<1> QED BY <1>5, <1>6

-----------------------------------------------------------------------------
(* Paths and deletion.                                                     *)

(* AddSecondaryTrid keeps Inv.                                             *)
LEMMA AddSecondaryTridStep ==
  ASSUME Inv, ~ctrlr.fault, AddSecondaryTrid PROVE Inv'
<1> USE DEF Inv
<1>1. /\ paths < MaxPaths /\ paths' = paths + 1
      /\ UNCHANGED <<opts, ctrlr, seq, drv, removed, adminq, ns, chan, orphans, cache>>
  BY DEF AddSecondaryTrid
<1>2. TypeOK'
  BY <1>1 DEF TypeOK
<1>3. Counted' /\ Lasting' /\ UnregisteredOnce(ctrlr)'
  BY <1>1, CtrlrStays
<1>4. Leaves'
  BY <1>1 DEF Leaves
<1>5. Sequenced'
  BY <1>1, SequenceStays DEF DriverStays, NoneWait
<1> QED BY <1>2, <1>3, <1>4, <1>5

(* The controller is told to go: from now on nothing starts a sequence.    *)
LEMMA DeleteStep ==
  ASSUME Inv, ~ctrlr.fault, ctrlr' = Delete(ctrlr), ns' = Depopulate,
         removed' \in BOOLEAN, removed' => removed \/ ~opts.fabrics,
         UNCHANGED <<opts, seq, paths, drv, adminq, chan, orphans, cache>>
  PROVE  Inv'
<1> USE DEF Inv
<1>1. ctrlr \in Ctrlr
  BY DEF TypeOK
<1>2. /\ ctrlr' \in Ctrlr /\ UnregisteredOnce(ctrlr') /\ ctrlr'.destruct
      /\ ctrlr'.reset_start = ctrlr.reset_start /\ (ctrlr'.resetting <=> ctrlr.resetting)
      /\ (ctrlr'.io_path_cache_clearing <=> ctrlr.io_path_cache_clearing)
      /\ (ctrlr'.fault <=> ctrlr.fault)
      /\ \/ ctrlr' = ctrlr
         \/ ctrlr.phase = "live" /\ ctrlr'.phase \in {"live", "unregistering"}
      /\ ns' \in {"unregistering", "gone"} /\ Counted'
  BY <1>1, DeleteProperties
<1>3. TypeOK'
  BY <1>2 DEF TypeOK
<1>4. Lasting' /\ Leaves'
  BY <1>2 DEF Lasting, Leaves
<1>5. Sequenced'
  BY <1>2, SequenceStays DEF DriverStays, NoneWait
<1> QED BY <1>2, <1>3, <1>4, <1>5

(* DeletePath keeps Inv.                                                   *)
LEMMA DeletePathStep ==
  ASSUME Inv, ~ctrlr.fault, NEW active \in BOOLEAN, DeletePath(active) PROVE Inv'
<1> USE DEF Inv
<1>1. /\ ctrlr.phase # "freed" /\ removed' = removed /\ removed \in BOOLEAN
      /\ UNCHANGED <<opts, removed, adminq, chan, orphans, cache>> /\ NoneWait
  BY DEF DeletePath, TypeOK, NoneWait
<1>2. CASE ctrlr' = Delete(ctrlr) /\ ns' = Depopulate /\ UNCHANGED <<seq, paths, drv>>
  BY <1>1, <1>2, DeleteStep
<1>3. CASE Failover(TRUE) /\ UNCHANGED ns
  <2>1. /\ ctrlr' \in Ctrlr /\ seq' \in Sequence /\ paths' \in 1..MaxPaths
        /\ drv' \in {"ok", "broken", "failed", "disconnecting", "down"}
        /\ Sequenced' /\ UnregisteredOnce(ctrlr')
        /\ ctrlr'.ref = ctrlr.ref /\ (ctrlr'.destruct <=> ctrlr.destruct)
        /\ (ctrlr'.io_path_cache_clearing <=> ctrlr.io_path_cache_clearing)
        /\ ctrlr'.phase = ctrlr.phase /\ seq'.poller = seq.poller
        /\ ctrlr.phase # "live" => ctrlr' = ctrlr /\ seq' = seq
        /\ ctrlr'.reset_start = "lost" => ctrlr.reset_start = "lost"
    BY <1>1, <1>3, FailoverProperties
  <2>2. TypeOK'
    BY <1>1, <1>3, <2>1 DEF TypeOK
  <2>3. Counted'
    BY <1>1, <1>3, <2>1, RefsStay
  <2>4. Lasting' /\ Leaves'
    BY <1>1, <1>3, <2>1 DEF Lasting, Leaves
  <2> QED BY <2>1, <2>2, <2>3, <2>4
<1>4. CASE paths > 1 /\ paths' = paths - 1 /\ UNCHANGED <<ctrlr, seq, drv, ns>>
  <2>1. TypeOK'
    BY <1>1, <1>4 DEF TypeOK
  <2>2. Counted' /\ Lasting' /\ UnregisteredOnce(ctrlr)'
    BY <1>1, <1>4, CtrlrStays
  <2>3. Leaves'
    BY <1>1, <1>4 DEF Leaves
  <2>4. Sequenced'
    BY <1>1, <1>4, SequenceStays DEF DriverStays
  <2> QED BY <2>1, <2>2, <2>3, <2>4
<1> QED BY <1>2, <1>3, <1>4 DEF DeletePath

(* HotRemoved keeps Inv.                                                   *)
LEMMA HotRemovedStep ==
  ASSUME Inv, ~ctrlr.fault, HotRemoved PROVE Inv'
<1>1. /\ ctrlr' = Delete(ctrlr) /\ ns' = Depopulate
      /\ removed' \in BOOLEAN /\ ~opts.fabrics
      /\ UNCHANGED <<opts, seq, paths, drv, adminq, chan, orphans, cache>>
  BY DEF HotRemoved
<1> QED BY <1>1, DeleteStep

(* BdevDestructed keeps Inv.                                               *)
LEMMA BdevDestructedStep ==
  ASSUME Inv, ~ctrlr.fault, BdevDestructed PROVE Inv'
<1> USE DEF Inv
<1>1. /\ ns = "unregistering" /\ ns' = "gone" /\ ctrlr' = Release(ctrlr, 1)
      /\ UNCHANGED <<opts, seq, paths, drv, removed, adminq, chan, orphans, cache>>
      /\ ctrlr \in Ctrlr /\ ctrlr.destruct
  BY DEF BdevDestructed, TypeOK, Leaves
<1>2. ctrlr.ref >= 1 /\ 1 \in Threads
  BY <1>1, RefsHeld
<1>3. /\ ctrlr' \in Ctrlr /\ UnregisteredOnce(ctrlr')
      /\ ctrlr'.ref = ctrlr.ref - 1 /\ ctrlr'.phase \in {"live", "unregistering"}
      /\ ctrlr'.reset_start = ctrlr.reset_start
      /\ (ctrlr'.destruct <=> ctrlr.destruct) /\ (ctrlr'.resetting <=> ctrlr.resetting)
      /\ (ctrlr'.io_path_cache_clearing <=> ctrlr.io_path_cache_clearing)
      /\ (ctrlr'.fault <=> ctrlr.fault) /\ ctrlr.phase = "live"
  BY <1>1, <1>2, ReleaseProperties
<1>4. TypeOK'
  BY <1>1, <1>3 DEF TypeOK
<1>5. Counted'
  <2>1. Holders' = Holders /\ Outlived' = Outlived
    BY <1>1 DEF Holders, Outlived
  <2>2. /\ Cardinality(Holders) \in Nat /\ Cardinality(Outlived) \in Nat
        /\ RefsCounted /\ IsFiniteSet(Outlived)
    BY FiniteHolders DEF Counted
  <2>3. PICK k \in Nat : k = Cardinality(Holders) + Cardinality(Outlived)
    BY <2>2
  <2>4. ctrlr.ref = 1 + k
    BY <1>1, <2>2, <2>3 DEF RefsCounted
  <2>5. ctrlr'.ref = k /\ ctrlr'.destruct /\ ns' = "gone"
    BY <1>1, <1>3, <2>4
  <2>6. RefsCounted'
    BY <2>1, <2>2, <2>3, <2>5 DEF RefsCounted
  <2> QED BY <2>1, <2>2, <2>6 DEF Counted
<1>6. Lasting' /\ Leaves'
  BY <1>1, <1>3 DEF Lasting, Leaves
<1>7. Sequenced'
  BY <1>1, <1>3, SequenceStays DEF DriverStays, NoneWait
<1> QED BY <1>3, <1>4, <1>5, <1>6, <1>7

(* UnregisterMessage keeps Inv.                                            *)
LEMMA UnregisterMessageStep ==
  ASSUME Inv, ~ctrlr.fault, UnregisterMessage PROVE Inv'
<1> USE DEF Inv
<1>1. PICK c : c = [ctrlr EXCEPT !.unregister_msg = FALSE]
  OBVIOUS
<1>2. /\ ctrlr \in Ctrlr /\ ctrlr.unregister_msg /\ ctrlr' = Unregister(c)
      /\ UNCHANGED <<opts, seq, paths, drv, removed, adminq, ns, chan, orphans, cache>>
      /\ cache \in 0..N /\ (ctrlr.io_path_cache_clearing <=> cache # 0)
  BY <1>1 DEF UnregisterMessage, TypeOK, Leaves
<1>3. ctrlr.phase = "live" /\ ctrlr.unregisters = 0 /\ CanBeUnregistered(ctrlr)
  BY <1>2 DEF UnregisteredOnce
<1>4. c \in Ctrlr
  BY <1>1, <1>2 DEF Ctrlr
<1>5. /\ c.ref = ctrlr.ref /\ c.phase = ctrlr.phase /\ c.reset_start = ctrlr.reset_start
      /\ c.unregisters = ctrlr.unregisters /\ c.ana = ctrlr.ana
  BY <1>1, <1>2 DEF Ctrlr
<1>6. /\ (c.destruct <=> ctrlr.destruct) /\ (c.resetting <=> ctrlr.resetting)
      /\ (c.io_path_cache_clearing <=> ctrlr.io_path_cache_clearing)
      /\ ~c.unregister_msg /\ ~c.fault
  BY <1>1, <1>2 DEF Ctrlr
<1>7. CanBeUnregistered(c)
  BY <1>3, <1>5, <1>6 DEF CanBeUnregistered
<1>8. /\ ctrlr' \in Ctrlr /\ UnregisteredOnce(ctrlr')
      /\ ctrlr'.ref = c.ref /\ ctrlr'.phase = "unregistering"
      /\ ctrlr'.reset_start = c.reset_start
      /\ (ctrlr'.destruct <=> c.destruct) /\ (ctrlr'.resetting <=> c.resetting)
      /\ (ctrlr'.io_path_cache_clearing <=> c.io_path_cache_clearing)
  BY <1>2, <1>3, <1>4, <1>5, <1>6, <1>7, UnregisterProperties
<1> QED BY <1>2, <1>3, <1>5, <1>6, <1>8, CtrlrMoves

(* A phase of the controller's end: no sequence, callback or timer starts. *)
LEMMA EndsAlone ==
  ASSUME Inv, ~ctrlr.fault, NEW phase \in {"detaching", "freed"},
         ctrlr.phase \in {"unregistering", "detaching"}, seq.iter.fn = "none",
         ctrlr' = [ctrlr EXCEPT !.phase = phase],
         seq' \in Sequence, seq'.iter = seq.iter, seq'.msg <=> seq.msg, ~seq'.timer,
         seq'.disconnected_cb = seq.disconnected_cb,
         seq'.poller = IF phase = "detaching" THEN "detach" ELSE "none",
         adminq' = "gone",
         UNCHANGED <<opts, paths, drv, removed, ns, chan, orphans, cache>>
  PROVE  Inv'
<1> USE DEF Inv
<1>1. ctrlr \in Ctrlr /\ CanBeUnregistered(ctrlr) /\ ctrlr.unregisters = 1 /\ ~ctrlr.unregister_msg
  BY DEF TypeOK, UnregisteredOnce
<1>2. ctrlr' \in Ctrlr
  BY <1>1 DEF Ctrlr
<1>3. /\ ctrlr'.ref = ctrlr.ref /\ ctrlr'.phase = phase /\ ctrlr'.ana = ctrlr.ana
      /\ ctrlr'.reset_start = ctrlr.reset_start /\ ctrlr'.unregisters = ctrlr.unregisters
  BY <1>1 DEF Ctrlr
<1>4. /\ (ctrlr'.destruct <=> ctrlr.destruct) /\ (ctrlr'.resetting <=> ctrlr.resetting)
      /\ (ctrlr'.io_path_cache_clearing <=> ctrlr.io_path_cache_clearing)
      /\ (ctrlr'.unregister_msg <=> ctrlr.unregister_msg) /\ ~ctrlr'.fault
  BY <1>1 DEF Ctrlr
<1>5. ctrlr.destruct /\ ~ctrlr.resetting
  BY <1>1 DEF CanBeUnregistered
<1>6. TypeOK'
  BY <1>2 DEF TypeOK
<1>7. Counted'
  BY <1>3, <1>4, RefsStay
<1>8. UnregisteredOnce(ctrlr')
  BY <1>1, <1>3, <1>4 DEF UnregisteredOnce, CanBeUnregistered
<1>9. Lasting' /\ Leaves'
  BY <1>3, <1>4 DEF Lasting, Leaves
<1>10. ~Carries(seq) /\ Waits /\ Driven
  BY <1>5, Running
<1>11. Alone(seq') /\ ~Carries(seq') /\ Waits'
  BY <1>10 DEF Alone, Carries, Waits
<1>12. Clocked' /\ Driven'
  BY <1>3, <1>4, <1>5, <1>10, Running DEF Clocked, Driven
<1> QED BY <1>4, <1>5, <1>6, <1>7, <1>8, <1>9, <1>11, <1>12 DEF Sequenced

(* Unregistered keeps Inv.                                                 *)
LEMMA UnregisteredStep ==
  ASSUME Inv, ~ctrlr.fault, Unregistered PROVE Inv'
<1>1. /\ ctrlr.phase = "unregistering" /\ seq.iter.fn = "none" /\ adminq' = "gone"
      /\ ctrlr' = [ctrlr EXCEPT !.phase = "detaching"]
      /\ seq' = [seq EXCEPT !.timer = FALSE, !.poller = "detach"]
      /\ UNCHANGED <<opts, paths, drv, removed, ns, chan, orphans, cache>>
      /\ seq \in Sequence
  BY DEF Unregistered, Inv, TypeOK
<1>2. seq' \in Sequence
  <2>1. PICK s : s = [seq EXCEPT !.timer = FALSE]
    OBVIOUS
  <2>2. s \in Sequence
    BY <1>1, <2>1 DEF Sequence
  <2>3. [s EXCEPT !.poller = "detach"] \in Sequence
    BY <2>2 DEF Sequence
  <2> QED BY <1>1, <2>1, <2>3
<1>3. /\ seq'.iter = seq.iter /\ (seq'.msg <=> seq.msg) /\ ~seq'.timer
      /\ seq'.disconnected_cb = seq.disconnected_cb /\ seq'.poller = "detach"
  BY <1>1 DEF Sequence
<1> QED BY <1>1, <1>2, <1>3, EndsAlone

(* Detached keeps Inv.                                                     *)
LEMMA DetachedStep ==
  ASSUME Inv, ~ctrlr.fault, Detached PROVE Inv'
<1>1. /\ seq.poller = "detach" /\ seq \in Sequence
      /\ seq' = [seq EXCEPT !.poller = "none"]
      /\ ctrlr' = [ctrlr EXCEPT !.phase = "freed"]
      /\ UNCHANGED <<opts, paths, drv, removed, adminq, ns, chan, orphans, cache>>
  BY DEF Detached, Inv, TypeOK
<1>2. ctrlr.phase = "detaching" /\ adminq = "gone" /\ ~seq.timer /\ seq.iter.fn = "none"
  BY <1>1 DEF Inv, Leaves
<1>3. seq' \in Sequence
  BY <1>1 DEF Sequence
<1>4. /\ seq'.iter = seq.iter /\ (seq'.msg <=> seq.msg) /\ ~seq'.timer
      /\ seq'.disconnected_cb = seq.disconnected_cb /\ seq'.poller = "none"
  BY <1>1, <1>2 DEF Sequence
<1> QED BY <1>1, <1>2, <1>3, <1>4, EndsAlone

-----------------------------------------------------------------------------
(* The theorems.                                                           *)

(* Inv holds at the start.                                                 *)
LEMMA InitInv ==
  ASSUME Init PROVE Inv
<1>1. /\ opts \in Configs /\ opts.ana \in BOOLEAN /\ paths = 1 /\ drv = "ok" /\ removed = FALSE
      /\ adminq = "poll" /\ ns = "present" /\ chan = [t \in Threads |-> Closed]
      /\ orphans = [t \in Threads |-> 0] /\ cache = 0
  BY DEF Init
<1>2. PICK ana \in {"none", "idle"} :
        ctrlr = [destruct |-> FALSE, resetting |-> FALSE, reconnect_is_delayed |-> FALSE,
                 reset_start |-> "unset", ana |-> ana,
                 io_path_cache_clearing |-> FALSE, ref |-> 2, unregister_msg |-> FALSE,
                 unregisters |-> 0, phase |-> "live", fault |-> FALSE]
  <2> DEFINE ana == IF opts.ana THEN "idle" ELSE "none"
  <2>1. ana \in {"none", "idle"}
    OBVIOUS
  <2> QED BY <2>1 DEF Init
<1>3. PICK i : i = NoIteration
  OBVIOUS
<1>4. i \in Iteration /\ i.fn = "none"
  BY <1>3 DEF NoIteration, Iteration
<1>5. seq = [msg |-> FALSE, iter |-> i, timer |-> FALSE, reset_cb |-> 0,
             disconnected_cb |-> "none", poller |-> "none"]
  BY <1>3 DEF Init
<1>6. ctrlr \in Ctrlr /\ 0 \in 0..N /\ 1 \in 1..MaxPaths
  BY <1>2 DEF Ctrlr
<1>7. seq \in Sequence
  BY <1>4, <1>5, <1>6 DEF Sequence
<1>8. Closed \in Channel /\ ~Closed.open /\ ~Closed.reset_iter
  BY DEF Closed, Channel
<1>9. chan \in [Threads -> Channel] /\ \A t \in Threads : ~chan[t].open /\ ~chan[t].reset_iter
  BY <1>1, <1>8
<1>10. TypeOK
  BY <1>1, <1>6, <1>7, <1>9 DEF TypeOK
<1>11. Counted
  <2>1. Holders = {}
    BY <1>9 DEF Holders
  <2>2. Outlived = {}
    BY <1>1 DEF Outlived
  <2>3. /\ IsFiniteSet(Outlived)
        /\ Cardinality(Holders) = 0 /\ Cardinality(Outlived) = 0
    BY <2>1, <2>2, FS_EmptySet
  <2> QED BY <1>1, <1>2, <2>3 DEF Counted, RefsCounted
<1>12. Lasting /\ Leaves /\ UnregisteredOnce(ctrlr)
  BY <1>1, <1>2, <1>5 DEF Lasting, Leaves, UnregisteredOnce
<1>13. Sequenced
  BY <1>1, <1>2, <1>4, <1>5, <1>9 DEF Sequenced, Alone, Carries, Waits, Clocked, Driven
<1> QED BY <1>10, <1>11, <1>12, <1>13 DEF Inv

(* Every step keeps Inv.                                                   *)
LEMMA NextKeeps ==
  ASSUME Inv, [Next]_vars PROVE Inv'
<1>1. CASE UNCHANGED vars
  <2>1. Counted'
    BY <1>1, RefsStay DEF vars, Inv
  <2> QED BY <1>1, <2>1
        DEF vars, Inv, TypeOK, Lasting, UnregisteredOnce, CanBeUnregistered, Leaves,
            Sequenced, Alone, Carries, Waits, Clocked, Driven
<1>2. CASE Next
  <2>1. ~ctrlr.fault
    BY <1>2 DEF Next
  <2>2. ASSUME NEW t \in Threads, Visit(t) PROVE Inv'
    BY <2>1, <2>2, VisitClosedStep, VisitDestroyStep, VisitCreateStep, VisitPendingStep
       DEF Visit
  <2>3. ASSUME Carrying PROVE Inv'
    BY <2>1, <2>3, ResetStartsStep, QpairsDestroyedStep, QpairsCreatedStep,
       ReconnectPolledStep, ResetCompletedStep, AdminDisconnectedStep DEF Carrying
  <2>4. ASSUME NEW t \in Threads,
               \/ ResetIo(t) \/ OpenChannel(t) \/ CloseChannel(t) \/ Visit(t)
               \/ QpairLost(t) \/ QpairDisconnected(t) \/ OrphanDisconnected(t)
               \/ ReadAnaLogPage(t)
        PROVE  Inv'
    BY <2>1, <2>2, <2>4, ResetIoStep, OpenChannelStep, CloseChannelStep, QpairLostStep,
       QpairDisconnectedStep, OrphanDisconnectedStep, ReadAnaLogPageStep
  <2>5. ASSUME \/ ResetRequested \/ TimerExpired \/ LossTimeout
               \/ AdminLost \/ AdminFailed \/ AdminUnreachable
               \/ CacheCleared \/ AnaLogPageRead
        PROVE  Inv'
    BY <2>1, <2>5, ResetRequestedStep, TimerExpiredStep, LossTimeoutStep, AdminLostStep,
       AdminFailedStep, AdminUnreachableStep, CacheClearedStep, AnaLogPageReadStep
  <2>6. ASSUME \/ HotRemoved \/ BdevDestructed \/ UnregisterMessage \/ Unregistered
               \/ Detached \/ AddSecondaryTrid \/ \E active \in BOOLEAN : DeletePath(active)
        PROVE  Inv'
    BY <2>1, <2>6, HotRemovedStep, BdevDestructedStep, UnregisterMessageStep,
       UnregisteredStep, DetachedStep, AddSecondaryTridStep, DeletePathStep
  <2> QED BY <1>2, <2>3, <2>4, <2>5, <2>6 DEF Next
<1> QED BY <1>1, <1>2

(* Inv holds in every reachable state.                                     *)
LEMMA Invariance == Spec => []Inv
<1>1. Init => Inv
  BY InitInv
<1>2. Inv /\ [Next]_vars => Inv'
  BY NextKeeps
<1> QED BY <1>1, <1>2, PTL DEF Spec

(* Every variable has its type.                                            *)
THEOREM TypeCorrect == Spec => []TypeOK
<1>1. Inv => TypeOK
  BY DEF Inv
<1> QED BY <1>1, Invariance, PTL

(* A reset sequence that runs is carried by exactly one message, iteration,*)
(* callback or poller, and the qpair that an iteration waits for belongs   *)
(* to the channel it visits.                                               *)
THEOREM OneCarries == Spec => []OneCarrier
<1>1. ASSUME Inv PROVE OneCarrier
  <2>1. SUFFICES ASSUME ~(ctrlr.fault /\ opts.delay)
                 PROVE  /\ Cardinality(Carriers) = IF ctrlr.resetting THEN 1 ELSE 0
                        /\ Waits
    BY DEF OneCarrier, Waits
  <2>2. Alone(seq) /\ (ctrlr.resetting <=> Carries(seq)) /\ Waits
    BY <1>1, <2>1 DEF Inv, Sequenced
  <2>3. CASE ~ctrlr.resetting
    <3>1. Carriers = {}
      BY <2>2, <2>3 DEF Carriers, Carries
    <3> QED BY <2>2, <2>3, <3>1, FS_EmptySet
  <2>4. CASE ctrlr.resetting
    <3>1. PICK c : Carriers = {c}
      BY <2>2, <2>4 DEF Carriers, Carries, Alone
    <3> QED BY <2>2, <2>4, <3>1, FS_Singleton
  <2> QED BY <2>3, <2>4
<1>2. Inv => OneCarrier
  BY <1>1
<1> QED BY <1>2, Invariance, PTL

(* The reference count is what refers to the controller, through every     *)
(* order in which channels close, qpairs disconnect and the bdev goes.     *)
THEOREM ReferencesCounted == Spec => []RefsCounted
<1>1. Inv => RefsCounted
  BY DEF Inv, Counted
<1> QED BY <1>1, Invariance, PTL

(* A controller is unregistered once at most, and is detached and freed    *)
(* when nothing refers to it.                                              *)
THEOREM FreedAlone == Spec => []DeletedAlone
<1>1. ASSUME Inv PROVE DeletedAlone
  <2>1. ctrlr.unregisters <= 1
    BY <1>1 DEF Inv, UnregisteredOnce
  <2>2. ASSUME ctrlr.phase \in {"detaching", "freed"}
        PROVE  /\ ctrlr.ref = 0 /\ ~ctrlr.resetting /\ ctrlr.ana # "reading"
               /\ Carriers = {} /\ ~seq.timer /\ ~ctrlr.unregister_msg /\ cache = 0
    <3>1. /\ CanBeUnregistered(ctrlr) /\ ~ctrlr.unregister_msg
          /\ ~ctrlr.fault /\ ~seq.timer /\ (ctrlr.io_path_cache_clearing <=> cache # 0)
      BY <1>1, <2>2 DEF Inv, UnregisteredOnce, Leaves
    <3>2. ~Carries(seq)
      BY <1>1, <3>1, Running DEF CanBeUnregistered
    <3>3. Carriers = {}
      BY <3>2 DEF Carriers, Carries
    <3> QED BY <3>1, <3>3 DEF CanBeUnregistered
  <2> QED BY <2>1, <2>2 DEF DeletedAlone
<1>2. Inv => DeletedAlone
  BY <1>1
<1> QED BY <1>2, Invariance, PTL
=============================================================================
