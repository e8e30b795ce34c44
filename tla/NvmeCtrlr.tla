------------------------------ MODULE NvmeCtrlr ------------------------------
(***************************************************************************)
(* The life of one NVMe controller of the bdev module (nvme_ctrlr): resets *)
(* and failovers among its paths, delayed reconnection, the I/O qpairs of  *)
(* its channels, cache clearing, ANA log reads and deletion.               *)
(*                                                                         *)
(* Threads are numbered in the order spdk_for_each_channel visits them;    *)
(* thread 1 owns the controller.  A handler runs to its end on its thread  *)
(* and reads and writes the shared flags under the controller's mutex.     *)
(* SPDK's driver and channel library are external.                         *)
(*                                                                         *)
(* Assertions are compiled out of the build the project's instructions     *)
(* make.  Where one of reset_start_tsc fails, two reset sequences overlap, *)
(* and where the driver refuses to disconnect a removed device before a    *)
(* delay, a sequence that has ended ends again and again; the model notes  *)
(* both in ctrlr.fault and stops.                                          *)
(***************************************************************************)
EXTENDS Integers, FiniteSets

CONSTANTS
  N,        \* number of threads
  MaxPaths, \* bound on the controller's transport ids
  Configs   \* the options and transports the controller may have

ASSUME NAssumption == N \in Nat \ {0} /\ MaxPaths \in Nat \ {0}
ASSUME ConfigsAssumption ==
  \A c \in Configs : /\ c \in [delay : BOOLEAN, loss : BOOLEAN, fabrics : BOOLEAN, ana : BOOLEAN]
                     /\ c.loss => c.delay

VARIABLES
  opts,     \* reconnect_delay_sec # 0, ctrlr_loss_timeout_sec > 0,
            \* transport, ANA reported
  ctrlr,    \* flags and counters of nvme_ctrlr
  seq,      \* what carries the reset sequence: message, iteration, callback...
  paths,    \* the number of its transport ids, the active one first
  drv,      \* the driver's controller
  removed,  \* the device was pulled (PCIe)
  adminq,   \* adminq_timer_poller
  ns,       \* the controller's namespace and its bdev
  chan,     \* the channel of each thread
  orphans,  \* qpairs of deleted channels that are still disconnecting
  cache     \* the thread that clears the cached I/O paths, or 0

vars == <<opts, ctrlr, seq, paths, drv, removed, adminq, ns, chan, orphans, cache>>

Threads == 1..N

-----------------------------------------------------------------------------
(* Types.                                                                  *)

Ctrlr == [destruct : BOOLEAN, resetting : BOOLEAN, reconnect_is_delayed : BOOLEAN,
          reset_start : {"unset", "running", "lost"}, ana : {"none", "idle", "reading"},
          io_path_cache_clearing : BOOLEAN, ref : Nat, unregister_msg : BOOLEAN,
          unregisters : Nat, phase : {"live", "unregistering", "detaching", "freed"},
          fault : BOOLEAN]

Iteration == [fn : {"none", "destroy", "create", "undo", "pending"}, at : 1..N + 1, ok : BOOLEAN]

(* reset_cb: the thread whose reset request started the sequence, or 0.    *)
Sequence == [msg : BOOLEAN, iter : Iteration, timer : BOOLEAN, reset_cb : 0..N,
             disconnected_cb : {"none", "destroy", "reconnect", "delay"},
             poller : {"none", "reconnect", "detach"}]

(* reset: this thread's reset request, none, driving the sequence or on    *)
(* pending_resets.  reset_iter: the iteration waits for the qpair.         *)
Channel == [open : BOOLEAN, qpair : {"none", "up", "disconnecting"},
            reset_iter : BOOLEAN, reset : {"none", "active", "pending"}]

NoIteration == [fn |-> "none", at |-> 1, ok |-> TRUE]
Closed == [open |-> FALSE, qpair |-> "none", reset_iter |-> FALSE, reset |-> "none"]

Init ==
  /\ opts \in Configs
  /\ ctrlr = [destruct |-> FALSE, resetting |-> FALSE, reconnect_is_delayed |-> FALSE,
              reset_start |-> "unset", ana |-> IF opts.ana THEN "idle" ELSE "none",
              io_path_cache_clearing |-> FALSE, ref |-> 2, unregister_msg |-> FALSE,
              unregisters |-> 0, phase |-> "live", fault |-> FALSE]
  /\ seq = [msg |-> FALSE, iter |-> NoIteration, timer |-> FALSE, reset_cb |-> 0,
            disconnected_cb |-> "none", poller |-> "none"]
  /\ paths = 1
  /\ drv = "ok"
  /\ removed = FALSE
  /\ adminq = "poll"
  /\ ns = "present"
  /\ chan = [t \in Threads |-> Closed]
  /\ orphans = [t \in Threads |-> 0]
  /\ cache = 0

-----------------------------------------------------------------------------
(* Helpers.                                                                *)

(* spdk_for_each_channel visits the threads that have a channel in order;  *)
(* N + 1 is the completion's message.                                      *)
NextChannel(t, ch) ==
  IF \E u \in t + 1..N : ch[u].open
  THEN CHOOSE u \in t + 1..N : ch[u].open /\ \A v \in t + 1..u - 1 : ~ch[v].open
  ELSE N + 1

Start(fn, ok) == [fn |-> fn, at |-> NextChannel(0, chan), ok |-> ok]
Continue(iter, ch) == [iter EXCEPT !.at = NextChannel(@, ch)]

(* Forgets that the caches of the I/O paths are being cleared.             *)
CanBeUnregisteredEarly(c) ==
  /\ c.destruct /\ c.ref = 0 /\ ~c.resetting /\ c.ana # "reading"

(* nvme_ctrlr_can_be_unregistered.                                         *)
CanBeUnregistered(c) ==
  /\ c.destruct /\ c.ref = 0 /\ ~c.resetting
  /\ c.ana # "reading" /\ ~c.io_path_cache_clearing

Unregister(c) == [c EXCEPT !.phase = "unregistering", !.unregisters = @ + 1]

UnregisterIfLast(c) == IF CanBeUnregistered(c) THEN Unregister(c) ELSE c

(* nvme_ctrlr_release on thread t; spdk_thread_exec_msg calls at once on   *)
(* the controller's own thread.                                            *)
Release(c, t) ==
  LET d == [c EXCEPT !.ref = @ - 1]
  IN  IF ~CanBeUnregistered(d) THEN d
      ELSE IF t = 1 THEN Unregister(d) ELSE [d EXCEPT !.unregister_msg = TRUE]

(* nvme_ctrlr_is_available.                                                *)
IsAvailable(c) ==
  /\ ~c.destruct /\ drv # "failed"
  /\ ~c.resetting /\ ~c.reconnect_is_delayed

(* bdev_nvme_failover_trid: the active path goes to the end of the list,   *)
(* or is freed, and the driver's controller is failed, if there is another.*)
FailoverTrid(remove) == IF remove /\ paths > 1 THEN paths - 1 ELSE paths
FailDriver == IF paths > 1 /\ drv \in {"ok", "broken"} THEN "failed" ELSE drv

(* The controller's part of starting a sequence, and the assertion.        *)
BeginReset(c) ==
  [c EXCEPT !.resetting = TRUE, !.reset_start = "running",
            !.fault = @ \/ c.reset_start # "unset"]

(* _bdev_nvme_delete on the controller's thread: depopulates (its bdev is  *)
(* unregistered) and drops the first reference.                            *)
Delete(c) == IF c.destruct THEN c ELSE Release([c EXCEPT !.destruct = TRUE], 1)
Depopulate == IF ns = "present" THEN "unregistering" ELSE ns

-----------------------------------------------------------------------------
(* Starting a sequence.                                                    *)

(* bdev_nvme_failover, also when it starts a reset; the next attempt to    *)
(* reconnect uses the new path when one is already scheduled.              *)
Failover(remove) ==
  IF ctrlr.destruct \/ ctrlr.resetting
  THEN UNCHANGED <<ctrlr, seq, paths, drv>>
  ELSE /\ paths' = FailoverTrid(remove)
       /\ drv' = FailDriver
       /\ IF ctrlr.reconnect_is_delayed
          THEN UNCHANGED <<ctrlr, seq>>
          ELSE /\ ctrlr' = BeginReset(ctrlr)
               /\ seq' = [seq EXCEPT !.msg = TRUE]

(* Restarts although a sequence runs.                                      *)
MayResetTwice == ~ctrlr.destruct /\ ~ctrlr.reconnect_is_delayed

(* bdev_nvme_reset refuses with -ENXIO, or with -EBUSY.                    *)
MayReset == ~ctrlr.destruct /\ ~ctrlr.resetting /\ ~ctrlr.reconnect_is_delayed

(* bdev_nvme_reset_rpc, timeout_cb, nvme_abort_cpl, on any thread.         *)
ResetRequested ==
  /\ MayReset
  /\ ctrlr' = BeginReset(ctrlr)
  /\ seq' = [seq EXCEPT !.msg = TRUE]
  /\ UNCHANGED <<opts, paths, drv, removed, adminq, ns, chan, orphans, cache>>

(* bdev_nvme_reset_io: a reset request of the bdev on thread t starts a    *)
(* sequence or is queued behind the one that runs.                         *)
ResetIo(t) ==
  /\ chan[t].open /\ chan[t].reset = "none" /\ ~ctrlr.destruct
  /\ \/ /\ MayReset
        /\ ctrlr' = BeginReset(ctrlr)
        /\ seq' = [seq EXCEPT !.msg = TRUE, !.reset_cb = t]
        /\ chan' = [chan EXCEPT ![t].reset = "active"]
     \/ /\ ~MayReset
        /\ chan' = [chan EXCEPT ![t].reset = "pending"]
        /\ UNCHANGED <<ctrlr, seq>>
  /\ UNCHANGED <<opts, paths, drv, removed, adminq, ns, orphans, cache>>

-----------------------------------------------------------------------------
(* Channels and their qpairs.                                              *)

(* Does not count a channel that has no connection yet.                    *)
OpenChannelUncounted(t) ==
  /\ ctrlr.phase = "live" /\ ns = "present" /\ ~chan[t].open /\ orphans[t] = 0
  /\ \E q \in {"up"} \cup (IF opts.delay THEN {"none"} ELSE {}) :
       /\ chan' = [chan EXCEPT ![t] = [Closed EXCEPT !.open = TRUE, !.qpair = q]]
       /\ ctrlr' = IF q = "up" THEN [ctrlr EXCEPT !.ref = @ + 1] ELSE ctrlr
  /\ UNCHANGED <<opts, seq, paths, drv, removed, adminq, ns, orphans, cache>>

(* bdev_nvme_create_ctrlr_channel_cb.  A qpair that cannot be made is      *)
(* accepted when reconnection is delayed; the driver may make one in any   *)
(* state of its controller.                                                *)
OpenChannel(t) ==
  /\ ctrlr.phase = "live" /\ ns = "present" /\ ~chan[t].open
  /\ orphans[t] = 0                                         \* bound
  /\ \E q \in {"up"} \cup (IF opts.delay THEN {"none"} ELSE {}) :
       chan' = [chan EXCEPT ![t] = [Closed EXCEPT !.open = TRUE, !.qpair = q]]
  /\ ctrlr' = [ctrlr EXCEPT !.ref = @ + 1]
  /\ UNCHANGED <<opts, seq, paths, drv, removed, adminq, ns, orphans, cache>>

(* Leaves the iteration waiting for a channel that is gone.                *)
CloseChannelSilent(t) ==
  /\ chan[t].open /\ chan[t].reset = "none"
  /\ chan' = [chan EXCEPT ![t] = Closed]
  /\ IF chan[t].qpair = "none"
     THEN ctrlr' = Release(ctrlr, t) /\ UNCHANGED orphans
     ELSE orphans' = [orphans EXCEPT ![t] = @ + 1] /\ UNCHANGED ctrlr
  /\ UNCHANGED <<opts, seq, paths, drv, removed, adminq, ns, cache>>

(* Releases at once what its disconnecting qpair releases again.           *)
CloseChannelReleases(t) ==
  /\ chan[t].open /\ chan[t].reset = "none"
  /\ chan' = [chan EXCEPT ![t] = Closed]
  /\ seq' = IF chan[t].reset_iter THEN [seq EXCEPT !.iter = Continue(@, chan')] ELSE seq
  /\ ctrlr' = Release(ctrlr, t)
  /\ orphans' = [orphans EXCEPT ![t] = IF chan[t].qpair = "none" THEN @ ELSE @ + 1]
  /\ UNCHANGED <<opts, paths, drv, removed, adminq, ns, cache>>

(* bdev_nvme_destroy_ctrlr_channel_cb: a qpair still to be disconnected    *)
(* outlives its channel, and a reset that waits for it goes on.            *)
CloseChannel(t) ==
  /\ chan[t].open /\ chan[t].reset = "none"
  /\ chan' = [chan EXCEPT ![t] = Closed]
  /\ seq' = IF chan[t].reset_iter THEN [seq EXCEPT !.iter = Continue(@, chan')] ELSE seq
  /\ IF chan[t].qpair = "none"
     THEN ctrlr' = Release(ctrlr, t) /\ UNCHANGED orphans
     ELSE orphans' = [orphans EXCEPT ![t] = @ + 1] /\ UNCHANGED ctrlr
  /\ UNCHANGED <<opts, paths, drv, removed, adminq, ns, cache>>

(* The connection of a qpair breaks.                                       *)
QpairLost(t) ==
  /\ chan[t].qpair = "up"
  /\ chan' = [chan EXCEPT ![t].qpair = "disconnecting"]
  /\ UNCHANGED <<opts, ctrlr, seq, paths, drv, removed, adminq, ns, orphans, cache>>

(* bdev_nvme_disconnected_qpair_cb of a channel's qpair: the reset that    *)
(* waits for it goes on; otherwise the controller fails over.              *)
QpairDisconnected(t) ==
  /\ chan[t].qpair = "disconnecting"
  /\ chan' = [chan EXCEPT ![t].qpair = "none", ![t].reset_iter = FALSE]
  /\ IF chan[t].reset_iter
     THEN /\ seq' = [seq EXCEPT !.iter = Continue(@, chan)]
          /\ UNCHANGED <<ctrlr, paths, drv>>
     ELSE Failover(FALSE)
  /\ UNCHANGED <<opts, removed, adminq, ns, orphans, cache>>

(* The same of a qpair whose channel is gone: nvme_qpair_delete.           *)
OrphanDisconnected(t) ==
  /\ orphans[t] > 0
  /\ orphans' = [orphans EXCEPT ![t] = @ - 1]
  /\ ctrlr' = Release(ctrlr, t)
  /\ UNCHANGED <<opts, seq, paths, drv, removed, adminq, ns, chan, cache>>

-----------------------------------------------------------------------------
(* The reset sequence.  s is seq as the handler has changed it so far.     *)

Carry(s, fn, ok) == [s EXCEPT !.iter = Start(fn, ok)]

(* nvme_ctrlr_disconnect: the driver refuses when the device was removed   *)
(* or is being reset, and the sequence fails.                              *)
Disconnect(s, cb) ==
  IF removed \/ drv \in {"disconnecting", "down"}
  THEN seq' = Carry(s, "pending", FALSE) /\ UNCHANGED <<drv, adminq>>
  ELSE /\ seq' = [s EXCEPT !.disconnected_cb = cb]
       /\ drv' = "disconnecting"
       /\ adminq' = "poll"

(* bdev_nvme_reconnect_ctrlr.                                              *)
Reconnect(s) == [s EXCEPT !.poller = "reconnect"]

(* _bdev_nvme_reset: fabrics delete the I/O qpairs first, PCIe disconnects *)
(* the controller first.                                                   *)
ResetStarts ==
  /\ seq.msg
  /\ IF opts.fabrics
     THEN /\ seq' = Carry([seq EXCEPT !.msg = FALSE], "destroy", TRUE)
          /\ UNCHANGED <<drv, adminq>>
     ELSE Disconnect([seq EXCEPT !.msg = FALSE], "destroy")
  /\ UNCHANGED <<opts, ctrlr, paths, removed, ns, chan, orphans, cache>>

Visiting(t, fns) == seq.iter.fn \in fns /\ seq.iter.at = t /\ ~chan[t].reset_iter

(* The channel was closed before the iteration's message reached it.       *)
VisitClosed(t) ==
  /\ Visiting(t, {"destroy", "create", "undo", "pending"}) /\ ~chan[t].open
  /\ seq' = [seq EXCEPT !.iter = Continue(@, chan)]
  /\ UNCHANGED <<opts, ctrlr, paths, drv, removed, adminq, ns, chan, orphans, cache>>

(* bdev_nvme_reset_destroy_qpair: waits for the qpair, if there is one.    *)
VisitDestroy(t) ==
  /\ Visiting(t, {"destroy", "undo"}) /\ chan[t].open
  /\ IF chan[t].qpair = "none"
     THEN seq' = [seq EXCEPT !.iter = Continue(@, chan)] /\ UNCHANGED chan
     ELSE /\ chan' = [chan EXCEPT ![t].qpair = "disconnecting", ![t].reset_iter = TRUE]
          /\ UNCHANGED seq
  /\ UNCHANGED <<opts, ctrlr, paths, drv, removed, adminq, ns, orphans, cache>>

(* bdev_nvme_reset_create_qpair: a failure ends the iteration.             *)
VisitCreate(t) ==
  /\ Visiting(t, {"create"}) /\ chan[t].open
  /\ \/ /\ chan' = [chan EXCEPT ![t].qpair = "up"]
        /\ seq' = [seq EXCEPT !.iter = Continue(@, chan)]
     \/ /\ seq' = [seq EXCEPT !.iter.at = N + 1, !.iter.ok = FALSE]
        /\ UNCHANGED chan
  /\ UNCHANGED <<opts, ctrlr, paths, drv, removed, adminq, ns, orphans, cache>>

(* bdev_nvme_complete_pending_resets.                                      *)
VisitPending(t) ==
  /\ Visiting(t, {"pending"}) /\ chan[t].open
  /\ chan' = [chan EXCEPT ![t].reset = IF @ = "pending" THEN "none" ELSE @]
  /\ seq' = [seq EXCEPT !.iter = Continue(@, chan)]
  /\ UNCHANGED <<opts, ctrlr, paths, drv, removed, adminq, ns, orphans, cache>>

Finished(fn) == seq.iter.fn = fn /\ seq.iter.at = N + 1
Rest == [seq EXCEPT !.iter = NoIteration]

(* bdev_nvme_reset_ctrlr.                                                  *)
QpairsDestroyed ==
  /\ Finished("destroy")
  /\ IF opts.fabrics
     THEN Disconnect(Rest, "reconnect")
     ELSE seq' = Reconnect(Rest) /\ UNCHANGED <<drv, adminq>>
  /\ UNCHANGED <<opts, ctrlr, paths, removed, ns, chan, orphans, cache>>

(* bdev_nvme_reset_create_qpairs_done and _failed.                         *)
QpairsCreated ==
  /\ \/ /\ Finished("create")
        /\ seq' = IF seq.iter.ok THEN Carry(seq, "pending", TRUE) ELSE Carry(seq, "undo", TRUE)
     \/ /\ Finished("undo")
        /\ seq' = Carry(seq, "pending", FALSE)
  /\ UNCHANGED <<opts, ctrlr, paths, drv, removed, adminq, ns, chan, orphans, cache>>

(* bdev_nvme_reconnect_ctrlr_poll, when it does not have to come again.    *)
ReconnectPolled ==
  /\ seq.poller = "reconnect"
  /\ LET s == [seq EXCEPT !.poller = "none"]
     IN  \/ /\ ctrlr.reset_start # "lost" /\ ~removed
            /\ drv' = "ok"
            /\ seq' = Carry(s, "create", TRUE)
         \/ /\ drv' = IF ctrlr.reset_start = "lost" THEN drv ELSE "failed"
            /\ seq' = Carry(s, "pending", FALSE)
  /\ UNCHANGED <<opts, ctrlr, paths, removed, adminq, ns, chan, orphans, cache>>

(* bdev_nvme_check_op_after_reset and the rest of                          *)
(* _bdev_nvme_reset_complete, which answers the reset request that started *)
(* the sequence.  The delayed reconnection is planned after the mutex is   *)
(* released; when the driver refuses to disconnect, this sequence, which   *)
(* no longer is one, completes once more.                                  *)
Ended(c) == [c EXCEPT !.resetting = FALSE]

ResetCompleted ==
  LET ok   == seq.iter.ok
      c    == Ended(ctrlr)
      s    == [Rest EXCEPT !.reset_cb = 0]
      same == seq' = s /\ UNCHANGED <<drv, adminq>>
  IN  /\ Finished("pending")
      /\ chan' = [t \in Threads |->
                    IF t = seq.reset_cb THEN [chan[t] EXCEPT !.reset = "none"] ELSE chan[t]]
      /\ \/ /\ CanBeUnregistered(c)
            /\ ctrlr' = Unregister(c)
            /\ same /\ UNCHANGED ns
         \/ /\ ~CanBeUnregistered(c) /\ (ok \/ ~opts.delay)
            /\ ctrlr' = [c EXCEPT !.reset_start = "unset"]
            /\ same /\ UNCHANGED ns
         \/ /\ ~CanBeUnregistered(c) /\ ~ok /\ opts.delay /\ c.reset_start = "lost"
            /\ ctrlr' = Delete(c)
            /\ ns' = Depopulate
            /\ same
         \/ /\ ~CanBeUnregistered(c) /\ ~ok /\ opts.delay /\ c.reset_start # "lost"
            /\ ctrlr' = [c EXCEPT !.fault = removed]
            /\ Disconnect(s, "delay")
            /\ UNCHANGED ns
      /\ UNCHANGED <<opts, paths, removed, orphans, cache>>

(* bdev_nvme_reconnect_delay_timer_expired.                                *)
TimerExpired ==
  /\ seq.timer
  /\ LET s == [seq EXCEPT !.timer = FALSE]
         c == [ctrlr EXCEPT !.reconnect_is_delayed = FALSE]
     IN  IF ctrlr.destruct
         THEN ctrlr' = c /\ seq' = s /\ UNCHANGED adminq
         ELSE /\ ctrlr' = [c EXCEPT !.resetting = TRUE]
              /\ seq' = Reconnect(s)
              /\ adminq' = "poll"
  /\ UNCHANGED <<opts, paths, drv, removed, ns, chan, orphans, cache>>

(* ctrlr_loss_timeout_sec have passed since the first reset began.         *)
LossTimeout ==
  /\ opts.loss /\ ctrlr.reset_start = "running" /\ ctrlr.phase # "freed"
  /\ ctrlr' = [ctrlr EXCEPT !.reset_start = "lost"]
  /\ UNCHANGED <<opts, seq, paths, drv, removed, adminq, ns, chan, orphans, cache>>

-----------------------------------------------------------------------------
(* The admin queue's poller, ANA log pages and the cached I/O paths.       *)

(* The connection of the admin queue breaks.                               *)
AdminLost ==
  /\ drv = "ok" /\ adminq # "gone"
  /\ drv' = "broken"
  /\ UNCHANGED <<opts, ctrlr, seq, paths, removed, adminq, ns, chan, orphans, cache>>

(* The driver has disconnected: bdev_nvme_poll_adminq calls                *)
(* disconnected_cb, bdev_nvme_start_reconnect_delay_timer among them.      *)
AdminDisconnected ==
  /\ adminq = "poll" /\ drv = "disconnecting"
  /\ drv' = "down"
  /\ LET s == [seq EXCEPT !.disconnected_cb = "none"]
     IN  \/ /\ seq.disconnected_cb = "destroy"
            /\ seq' = Carry(s, "destroy", TRUE)
            /\ UNCHANGED <<ctrlr, adminq>>
         \/ /\ seq.disconnected_cb = "reconnect"
            /\ seq' = Reconnect(s)
            /\ UNCHANGED <<ctrlr, adminq>>
         \/ /\ seq.disconnected_cb = "delay"
            /\ seq' = [s EXCEPT !.timer = TRUE]
            /\ ctrlr' = [ctrlr EXCEPT !.reconnect_is_delayed = TRUE]
            /\ adminq' = "paused"
  /\ UNCHANGED <<opts, paths, removed, ns, chan, orphans, cache>>

(* bdev_nvme_poll_adminq of a controller that is broken.                   *)
AdminFailed ==
  /\ adminq = "poll" /\ drv \in {"broken", "failed", "down"}
  /\ Failover(FALSE)
  /\ UNCHANGED <<opts, removed, adminq, ns, chan, orphans, cache>>

(* bdev_nvme_clear_io_path_caches on thread t; c is ctrlr as the handler    *)
(* has changed it so far.                                                  *)
ClearCaches(c, t) ==
  IF ~IsAvailable(c) \/ c.io_path_cache_clearing
  THEN ctrlr' = c /\ UNCHANGED cache
  ELSE /\ ctrlr' = [c EXCEPT !.io_path_cache_clearing = TRUE]
       /\ cache' = t

(* bdev_nvme_poll_adminq when the poll succeeds and the qpair has failed.  *)
AdminUnreachable ==
  /\ adminq = "poll" /\ drv = "broken"
  /\ ClearCaches(ctrlr, 1)
  /\ UNCHANGED <<opts, seq, paths, drv, removed, adminq, ns, chan, orphans>>

(* bdev_nvme_clear_io_path_caches_done, on the thread that began clearing: *)
(* the iteration clears nothing of this module's.  Only the owner of the   *)
(* pollers may delete the controller.                                      *)
CacheCleared ==
  LET c == [ctrlr EXCEPT !.io_path_cache_clearing = FALSE]
      d == UnregisterIfLast(c)
  IN  /\ cache # 0
      /\ cache' = 0
      /\ ctrlr' = [d EXCEPT !.fault = @ \/ (CanBeUnregistered(c) /\ cache # 1)]
      /\ UNCHANGED <<opts, seq, paths, drv, removed, adminq, ns, chan, orphans>>

(* nvme_ctrlr_read_ana_log_page, from aer_cb or from the completion of an  *)
(* I/O on thread t.  A command the driver refuses is done at once, and no  *)
(* ANA log page is read again.                                             *)
ReadAnaLogPage(t) ==
  /\ ctrlr.phase = "live" /\ (t = 1 \/ chan[t].open)
  /\ IsAvailable(ctrlr) /\ ctrlr.ana = "idle"
  /\ \/ ctrlr' = [ctrlr EXCEPT !.ana = "reading"] /\ UNCHANGED cache
     \/ drv # "ok" /\ ClearCaches([ctrlr EXCEPT !.ana = "none"], t)
  /\ UNCHANGED <<opts, seq, paths, drv, removed, adminq, ns, chan, orphans>>

(* Forgets that the controller may have waited for the log page.           *)
AnaLogPageReadForgets ==
  /\ ctrlr.ana = "reading"
  /\ \E ana \in {"idle", "none"} : ClearCaches([ctrlr EXCEPT !.ana = ana], 1)
  /\ UNCHANGED <<opts, seq, paths, drv, removed, adminq, ns, chan, orphans>>

(* nvme_ctrlr_read_ana_log_page_done; a failed command ends the reading of *)
(* ANA log pages (bdev_nvme_disable_read_ana_log_page).                    *)
AnaLogPageRead ==
  /\ ctrlr.ana = "reading"
  /\ \E ana \in {"idle", "none"} :
       LET c == [ctrlr EXCEPT !.ana = ana]
       IN  IF CanBeUnregistered(c)
           THEN ctrlr' = Unregister(c) /\ UNCHANGED cache
           ELSE ClearCaches(c, 1)
  /\ UNCHANGED <<opts, seq, paths, drv, removed, adminq, ns, chan, orphans>>

-----------------------------------------------------------------------------
(* Paths and deletion.                                                     *)

(* _bdev_nvme_add_secondary_trid.                                          *)
AddSecondaryTrid ==
  /\ opts.fabrics /\ ctrlr.phase # "freed"
  /\ paths < MaxPaths                                       \* bound
  /\ paths' = paths + 1
  /\ UNCHANGED <<opts, ctrlr, seq, drv, removed, adminq, ns, chan, orphans, cache>>

(* bdev_nvme_delete of one path: the only path is the controller, the      *)
(* active one fails over, another one is dropped.                          *)
DeletePath(active) ==
  /\ ctrlr.phase # "freed"
  /\ \/ /\ active /\ paths = 1
        /\ ctrlr' = Delete(ctrlr)
        /\ ns' = Depopulate
        /\ UNCHANGED <<seq, paths, drv>>
     \/ /\ active /\ paths > 1
        /\ Failover(TRUE)
        /\ UNCHANGED ns
     \/ /\ ~active /\ paths > 1
        /\ paths' = paths - 1
        /\ UNCHANGED <<ctrlr, seq, drv, ns>>
  /\ UNCHANGED <<opts, removed, adminq, chan, orphans, cache>>

(* The device is pulled: remove_cb.                                        *)
HotRemoved ==
  /\ ~opts.fabrics /\ ~removed /\ ctrlr.phase # "freed"
  /\ removed' = TRUE
  /\ ctrlr' = Delete(ctrlr)
  /\ ns' = Depopulate
  /\ UNCHANGED <<opts, seq, paths, drv, adminq, chan, orphans, cache>>

(* bdev_nvme_destruct of the namespace's bdev, which no request uses.      *)
BdevDestructed ==
  /\ ns = "unregistering" /\ \A t \in Threads : chan[t].reset = "none"
  /\ ns' = "gone"
  /\ ctrlr' = Release(ctrlr, 1)
  /\ UNCHANGED <<opts, seq, paths, drv, removed, adminq, chan, orphans, cache>>

(* nvme_ctrlr_unregister by message.                                       *)
UnregisterMessage ==
  /\ ctrlr.unregister_msg
  /\ ctrlr' = Unregister([ctrlr EXCEPT !.unregister_msg = FALSE])
  /\ UNCHANGED <<opts, seq, paths, drv, removed, adminq, ns, chan, orphans, cache>>

(* nvme_ctrlr_delete, which the channel library calls when neither a       *)
(* channel nor an iteration is left.                                       *)
Unregistered ==
  /\ ctrlr.phase = "unregistering" /\ cache = 0 /\ seq.iter.fn = "none"
  /\ \A t \in Threads : ~chan[t].open
  /\ ctrlr' = [ctrlr EXCEPT !.phase = "detaching"]
  /\ seq' = [seq EXCEPT !.timer = FALSE, !.poller = "detach"]
  /\ adminq' = "gone"
  /\ UNCHANGED <<opts, paths, drv, removed, ns, chan, orphans, cache>>

(* nvme_detach_poller: _nvme_ctrlr_delete.                                 *)
Detached ==
  /\ seq.poller = "detach"
  /\ seq' = [seq EXCEPT !.poller = "none"]
  /\ ctrlr' = [ctrlr EXCEPT !.phase = "freed"]
  /\ UNCHANGED <<opts, paths, drv, removed, adminq, ns, chan, orphans, cache>>

-----------------------------------------------------------------------------
(* The controller and what may happen to it.                               *)

Visit(t) == VisitClosed(t) \/ VisitDestroy(t) \/ VisitCreate(t) \/ VisitPending(t)

(* Handlers of the thread that owns the controller, and the driver's part. *)
Carrying ==
  \/ ResetStarts \/ QpairsDestroyed \/ QpairsCreated
  \/ ReconnectPolled \/ ResetCompleted \/ AdminDisconnected

Next ==
  /\ ~ctrlr.fault
  /\ \/ ResetRequested \/ Carrying \/ TimerExpired \/ LossTimeout
     \/ AdminLost \/ AdminFailed \/ AdminUnreachable
     \/ CacheCleared \/ AnaLogPageRead
     \/ HotRemoved \/ BdevDestructed \/ UnregisterMessage \/ Unregistered \/ Detached
     \/ \E t \in Threads : \/ ResetIo(t) \/ OpenChannel(t) \/ CloseChannel(t) \/ Visit(t)
                           \/ QpairLost(t) \/ QpairDisconnected(t) \/ OrphanDisconnected(t)
                           \/ ReadAnaLogPage(t)
     \/ AddSecondaryTrid \/ \E active \in BOOLEAN : DeletePath(active)

(* Threads run and messages arrive; the driver disconnects, reconnects or  *)
(* gives up in the end; a bdev that is being removed is closed by its      *)
(* users.  Nothing obliges anyone to ask for a reset, to open a channel or *)
(* to break a connection.                                                  *)
Fairness ==
  /\ WF_vars(~ctrlr.fault /\ Carrying)
  /\ WF_vars(~ctrlr.fault /\ CacheCleared)
  /\ WF_vars(~ctrlr.fault /\ AnaLogPageRead)
  /\ WF_vars(~ctrlr.fault /\ (BdevDestructed \/ UnregisterMessage \/ Unregistered \/ Detached))
  /\ \A t \in Threads : /\ WF_vars(~ctrlr.fault /\ Visit(t))
                        /\ WF_vars(~ctrlr.fault /\ QpairDisconnected(t))
                        /\ WF_vars(~ctrlr.fault /\ OrphanDisconnected(t))
                        /\ WF_vars(~ctrlr.fault /\ ns # "present" /\ CloseChannel(t))

Spec == Init /\ [][Next]_vars /\ Fairness

-----------------------------------------------------------------------------
(* Properties.                                                             *)

(* Every variable has its type.                                            *)
TypeOK ==
  /\ opts \in Configs /\ ctrlr \in Ctrlr /\ seq \in Sequence
  /\ paths \in 1..MaxPaths
  /\ drv \in {"ok", "broken", "failed", "disconnecting", "down"}
  /\ removed \in BOOLEAN
  /\ adminq \in {"poll", "paused", "gone"}
  /\ ns \in {"present", "unregistering", "gone"}
  /\ chan \in [Threads -> Channel]
  /\ orphans \in [Threads -> Nat]
  /\ cache \in 0..N

(* What can carry the reset sequence on.                                   *)
Carriers ==
  {c \in {"message", "iteration", "callback", "poller"} :
     \/ c = "message" /\ seq.msg
     \/ c = "iteration" /\ seq.iter.fn # "none"
     \/ c = "callback" /\ seq.disconnected_cb \in {"destroy", "reconnect"}
     \/ c = "poller" /\ seq.poller = "reconnect"}

(* While the controller is resetting exactly one message, iteration,       *)
(* callback or poller carries the sequence, so it cannot get lost or run   *)
(* twice, and when it is not resetting nothing does; a channel holds the   *)
(* iteration only while the iteration is at its thread.  Only a controller *)
(* that delays reconnection can restart a sequence it has not finished, or *)
(* finish one twice.                                                       *)
OneCarrier ==
  ~(ctrlr.fault /\ opts.delay) =>
    /\ Cardinality(Carriers) = IF ctrlr.resetting THEN 1 ELSE 0
    /\ \A t \in Threads :
         chan[t].reset_iter => seq.iter.fn \in {"destroy", "undo"} /\ seq.iter.at = t

(* The reference count covers the registration, the namespace's bdev, each *)
(* channel and each qpair that outlives its channel.                       *)
Holders == {t \in Threads : chan[t].open}
Outlived == UNION {{t} \X (1..orphans[t]) : t \in Threads}
RefsCounted ==
  LET one(b) == IF b THEN 1 ELSE 0
  IN  ctrlr.ref = one(~ctrlr.destruct) + one(ns # "gone")
                  + Cardinality(Holders) + Cardinality(Outlived)

(* The controller is unregistered at most once, and when it is being       *)
(* detached and freed nothing refers to it any more: no channel, qpair,    *)
(* reset sequence, timer, message, ANA log read or cache clearing.         *)
DeletedAlone ==
  /\ ctrlr.unregisters <= 1
  /\ ctrlr.phase \in {"detaching", "freed"} =>
       /\ ctrlr.ref = 0 /\ ~ctrlr.resetting /\ ctrlr.ana # "reading"
       /\ Carriers = {} /\ ~seq.timer /\ ~ctrlr.unregister_msg /\ cache = 0

(* Every reset sequence ends, although channels are opened and closed and  *)
(* qpairs break while it visits them.                                      *)
ResetEnds == ctrlr.resetting ~> (~ctrlr.resetting \/ ctrlr.fault)

(* A controller told to go is freed, unless a reset request of the bdev    *)
(* was left behind on a channel.                                           *)
LeftBehind == \E t \in Threads : chan[t].reset = "pending"
DeletedIsFreed ==
  ctrlr.destruct ~> (ctrlr.phase = "freed" \/ ctrlr.fault \/ LeftBehind)
=============================================================================
