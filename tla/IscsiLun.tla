------------------------------ MODULE IscsiLun ------------------------------
(***************************************************************************)
(* ump over iSCSI LUNs: how a LUN is connected, on which thread it is      *)
(* served while channels of several threads come and go, and how ump hands *)
(* it requests by swapping the ctxt of the shared bdev.                    *)
(*                                                                         *)
(* A handler runs to its end on its thread, except that what other threads *)
(* see of ump_bdev_submit_request is in steps: ctxt is set, read by the    *)
(* driver, and set back.  All LUNs are paths of one disk.  The choice of a *)
(* path, stale probes and paths registered late are in SumpSelect, SumpIo  *)
(* and SumpRegister.                                                       *)
(*                                                                         *)
(* A driver that finds another ctxt than that of the request's path serves *)
(* the wrong LUN, or takes the ump_bdev for one: the README names the      *)
(* sequences, the model notes them in fault and stops.                     *)
(***************************************************************************)
EXTENDS Integers, FiniteSets

CONSTANTS
  N,           \* number of threads; the LUNs are created on thread 1
  Paths,       \* LUNs
  Ios,         \* requests
  NoPath,      \* no path
  Mbdev,       \* the ump_bdev, when ctxt points to it
  MaxFailures, \* bound on the requests that fail
  MaxResizes   \* bound on the capacity changes found while connecting

ASSUME NAssumption == N \in Nat \ {0}
ASSUME PointersAssumption == NoPath \notin Paths /\ Mbdev \notin Paths
ASSUME BoundsAssumption == MaxFailures \in Nat /\ MaxResizes \in Nat

VARIABLES
  conn,      \* the connection request of each LUN
  lun,       \* the LUNs
  hold,      \* the LUN channel each thread has
  open,      \* the threads with a channel of the ump device
  ctxt,      \* bdev_io->bdev->ctxt
  sub,       \* what each thread does in ump_bdev_submit_request
  io,        \* requests
  available, \* iopath->available of each thread's channel
  probe,     \* the failback poller of each iopath and its request
  failures,  \* requests failed so far
  resizes,   \* capacity changes so far
  fault      \* the code has gone wrong

vars == <<conn, lun, hold, open, ctxt, sub, io, available, probe, failures, resizes, fault>>

Threads == 1..N

-----------------------------------------------------------------------------
(* Types.                                                                  *)

(* connect: no callback yet; inquiry, limits, capacity: the task awaited.  *)
(* leaked: a negative status, for which the poller does not free it.       *)
Stages == {"none", "connect", "inquiry", "limits", "capacity", "ready", "failed", "leaked"}

(* A message to destroy the LUN's last channel counts as one more channel. *)
Lun == [main : 0..N, count : 0..N + 1, poller : 0..N, msg : 0..N, serving : BOOLEAN]

Sub == [io : Ios \cup {NoPath}, path : Paths \cup {NoPath},
        saved : Paths \cup {Mbdev}, sent : BOOLEAN]

(* waiting: for a buffer; message: a reset on its way to the main thread;  *)
(* lost: returned from without being sent.                                 *)
Io == [state : {"idle", "chosen", "waiting", "message", "task", "lost"},
       at : Threads, path : Paths \cup {NoPath}]

Probe == [state : {"none", "polling", "lost", "sent"}, lun : Paths \cup {NoPath}]

Out == [io |-> NoPath, path |-> NoPath, saved |-> Mbdev, sent |-> FALSE]
Idle == [state |-> "idle", at |-> 1, path |-> NoPath]
NoProbe == [state |-> "none", lun |-> NoPath]

Init ==
  /\ conn = [p \in Paths |-> "none"]
  /\ lun = [p \in Paths |-> [main |-> 0, count |-> 0, poller |-> 0, msg |-> 0, serving |-> FALSE]]
  /\ hold = [p \in Paths |-> [t \in Threads |-> "none"]]
  /\ open = {}
  /\ ctxt = Mbdev
  /\ sub = [t \in Threads |-> Out]
  /\ io = [i \in Ios |-> Idle]
  /\ available = [t \in Threads |-> [p \in Paths |-> TRUE]]
  /\ probe = [t \in Threads |-> [p \in Paths |-> NoProbe]]
  /\ failures = 0 /\ resizes = 0
  /\ fault = FALSE

Ready == {p \in Paths : conn[p] = "ready"}

(* A thread that is in no handler.                                         *)
Free(t) == sub[t] = Out /\ (t = 1 => \A p \in Paths : ~lun[p].serving)

-----------------------------------------------------------------------------
(* Connecting: each callback asks for the next task.                       *)

Connecting == UNCHANGED <<lun, hold, open, ctxt, sub, io, available, probe, failures, fault>>

(* create_iscsi_disk.                                                      *)
CreateDisk(p) ==
  /\ conn[p] = "none" /\ open = {} /\ Free(1)
  /\ conn' = [conn EXCEPT ![p] = "connect"]
  /\ UNCHANGED resizes /\ Connecting

(* iscsi_connect_cb.                                                       *)
Connected(p) ==
  /\ conn[p] = "connect" /\ Free(1)
  /\ \E next \in {"inquiry", "failed"} : conn' = [conn EXCEPT ![p] = next]
  /\ UNCHANGED resizes /\ Connecting

(* bdev_iscsi_inquiry_lbp_cb: block limits follow where unmap is supported;*)
(* here and below, failed when there is no memory for the next task.       *)
ProvisioningRead(p) ==
  /\ conn[p] = "inquiry" /\ Free(1)
  /\ \E next \in {"limits", "capacity", "failed"} : conn' = [conn EXCEPT ![p] = next]
  /\ UNCHANGED resizes /\ Connecting

(* bdev_iscsi_inquiry_bl_cb.                                               *)
LimitsRead(p) ==
  /\ conn[p] = "limits" /\ Free(1)
  /\ \E next \in {"capacity", "failed"} : conn' = [conn EXCEPT ![p] = next]
  /\ UNCHANGED resizes /\ Connecting

(* iscsi_readcapacity16_cb: a capacity that has just changed is read anew; *)
(* create_iscsi_lun may fail, with a negative status.                      *)
CapacityRead(p) ==
  /\ conn[p] = "capacity" /\ Free(1)
  /\ \/ /\ resizes < MaxResizes                               \* bound
        /\ resizes' = resizes + 1 /\ UNCHANGED conn
     \/ /\ \E next \in {"ready", "leaked", "failed"} : conn' = [conn EXCEPT ![p] = next]
        /\ UNCHANGED resizes
  /\ Connecting

-----------------------------------------------------------------------------
(* Channels.                                                               *)

Channels == UNCHANGED <<conn, ctxt, sub, io, probe, failures, resizes>>

(* bdev_iscsi_create_cb on thread t.                                       *)
Joined(l, t) ==
  IF l.count = 0 THEN [l EXCEPT !.count = 1, !.main = t, !.poller = t]
  ELSE [l EXCEPT !.count = @ + 1]

(* Takes a LUN whose no-main poller is running.                            *)
OpenChannelUnlocked(t) ==
  /\ t \notin open /\ Free(t) /\ Ready # {}
  /\ \A p \in Paths : conn[p] \in {"ready", "failed", "leaked"}
  /\ open' = open \cup {t}
  /\ lun' = [p \in Paths |-> IF p \in Ready /\ hold[p][t] = "none" THEN Joined(lun[p], t) ELSE lun[p]]
  /\ hold' = [p \in Paths |-> IF p \in Ready THEN [hold[p] EXCEPT ![t] = "open"] ELSE hold[p]]
  /\ fault' = (ctxt # Mbdev)
  /\ available' = [available EXCEPT ![t] = [p \in Paths |-> TRUE]]
  /\ Channels

(* ump_bdev_channel_create_cb; a channel not yet destroyed is taken back.  *)
(* create_cb waits for the mutex.  With another ctxt left behind the bdev  *)
(* layer asks for a channel of the wrong device.                           *)
OpenChannel(t) ==
  /\ t \notin open /\ Free(t) /\ Ready # {}
  /\ \A p \in Paths : conn[p] \in {"ready", "failed", "leaked"} /\ ~lun[p].serving
  /\ open' = open \cup {t}
  /\ lun' = [p \in Paths |-> IF p \in Ready /\ hold[p][t] = "none" THEN Joined(lun[p], t) ELSE lun[p]]
  /\ hold' = [p \in Paths |-> IF p \in Ready THEN [hold[p] EXCEPT ![t] = "open"] ELSE hold[p]]
  /\ fault' = (ctxt # Mbdev)
  /\ available' = [available EXCEPT ![t] = [p \in Paths |-> TRUE]]
  /\ Channels

(* ump_bdev_channel_destroy_cb, once the thread's requests are done.  The  *)
(* pollers and probes that outlive the channel are in SumpIo.              *)
CloseChannel(t) ==
  /\ t \in open /\ Free(t)
  /\ \A i \in Ios : io[i].state # "idle" => io[i].at # t
  /\ \A p \in Paths : probe[t][p] = NoProbe
  /\ open' = open \ {t}
  /\ hold' = [p \in Paths |-> IF p \in Ready THEN [hold[p] EXCEPT ![t] = "putting"] ELSE hold[p]]
  /\ UNCHANGED <<lun, fault, available>> /\ Channels

(* A channel less; without main thread and pollers when none is left.      *)
Left(l) == [l EXCEPT !.count = @ - 1]
Stopped(l) == [Left(l) EXCEPT !.main = 0, !.poller = 0]

(* Does not hold the LUN while the message is on its way.                  *)
DestroyChannelUncounted(p, t) ==
  LET l == lun[p]
  IN  /\ hold[p][t] = "putting" /\ Free(t)
      /\ hold' = [hold EXCEPT ![p][t] = "none"]
      /\ lun' = [lun EXCEPT ![p] =
                   IF l.count > 1 THEN Left(l)
                   ELSE IF l.main = t THEN Stopped(l) ELSE [Left(l) EXCEPT !.msg = l.main]]
      /\ UNCHANGED <<open, fault, available>> /\ Channels

(* Stops the poller with the main thread's channel.                        *)
DestroyChannelStops(p, t) ==
  LET l == lun[p]
  IN  /\ hold[p][t] = "putting" /\ Free(t)
      /\ hold' = [hold EXCEPT ![p][t] = "none"]
      /\ lun' = [lun EXCEPT ![p] =
                   IF l.main = t THEN (IF l.count = 1 THEN Stopped(l) ELSE [Left(l) EXCEPT !.poller = 0])
                   ELSE IF l.count > 1 THEN Left(l) ELSE [l EXCEPT !.msg = l.main]]
      /\ UNCHANGED <<open, fault, available>> /\ Channels

(* bdev_iscsi_destroy_cb: the last channel of another thread passes the    *)
(* LUN back to its main thread.                                            *)
DestroyChannel(p, t) ==
  LET l == lun[p]
  IN  /\ hold[p][t] = "putting" /\ Free(t)
      /\ hold' = [hold EXCEPT ![p][t] = "none"]
      /\ lun' = [lun EXCEPT ![p] =
                   IF l.count > 1 THEN Left(l)
                   ELSE IF l.main = t THEN Stopped(l) ELSE [l EXCEPT !.msg = l.main]]
      /\ UNCHANGED <<open, fault, available>> /\ Channels

(* Does not look for channels made while the message was on its way.       *)
MainDestroysAlways(p) ==
  LET l == lun[p]
  IN  /\ l.msg # 0 /\ Free(l.msg)
      /\ lun' = [lun EXCEPT ![p] = [Stopped(l) EXCEPT !.msg = 0]]
      /\ UNCHANGED <<hold, open, fault, available>> /\ Channels

(* _iscsi_destroy_cb on the main thread.                                   *)
MainDestroys(p) ==
  LET l == lun[p]
  IN  /\ l.msg # 0 /\ Free(l.msg)
      /\ lun' = [lun EXCEPT ![p] = IF l.count > 1 THEN [Left(l) EXCEPT !.msg = 0] ELSE [Stopped(l) EXCEPT !.msg = 0]]
      /\ UNCHANGED <<hold, open, fault, available>> /\ Channels

(* bdev_iscsi_no_main_ch_poll takes the mutex and serves a LUN that has no *)
(* channel on thread 1, then gives it back.                                *)
NoMainPoll(p) ==
  /\ conn[p] = "ready" /\ Free(1) /\ lun[p].count = 0
  /\ lun' = [lun EXCEPT ![p].serving = TRUE]
  /\ UNCHANGED <<hold, open, fault, available>> /\ Channels

NoMainPolled(p) ==
  /\ lun[p].serving
  /\ lun' = [lun EXCEPT ![p].serving = FALSE]
  /\ UNCHANGED <<hold, open, fault, available>> /\ Channels

-----------------------------------------------------------------------------
(* Requests.                                                               *)

Requests == UNCHANGED <<conn, lun, hold, open, resizes>>

(* ump_bdev_submit_request of a new request.                               *)
Submit(i, t) ==
  /\ io[i].state = "idle" /\ t \in open /\ Free(t)
  /\ io' = [io EXCEPT ![i].state = "chosen", ![i].at = t]
  /\ sub' = [sub EXCEPT ![t].io = i]
  /\ UNCHANGED <<ctxt, available, probe, failures, fault>> /\ Requests

(* A path is chosen and ctxt swapped; no available path is SumpIo's case.  *)
Swap(t) ==
  /\ sub[t].io # NoPath /\ sub[t].path = NoPath
  /\ \/ \E p \in Ready :
          /\ available[t][p]
          /\ sub' = [sub EXCEPT ![t].path = p, ![t].saved = ctxt]
          /\ ctxt' = p
          /\ UNCHANGED fault
     \/ /\ \A p \in Ready : ~available[t][p]
        /\ fault' = TRUE
        /\ UNCHANGED <<sub, ctxt>>
  /\ UNCHANGED <<io, available, probe, failures>> /\ Requests

(* bdev_iscsi_submit_request: from another thread than the LUN's main      *)
(* thread it returns; else the request becomes a task, at once, or when    *)
(* there is a buffer for a read, or by a message when it is a reset.       *)
DriverSubmit(t) ==
  LET s == sub[t]
      l == ctxt
  IN  /\ s.path # NoPath /\ ~s.sent
      /\ sub' = [sub EXCEPT ![t].sent = TRUE]
      /\ fault' = (l # s.path)
      /\ IF l # s.path THEN UNCHANGED io
         ELSE \E state \in IF lun[l].main = t THEN {"task", "waiting", "message"} ELSE {"lost"} :
                io' = [io EXCEPT ![s.io] = [state |-> state, at |-> t, path |-> l]]
      /\ UNCHANGED <<ctxt, available, probe, failures>> /\ Requests

Restore(t) ==
  /\ sub[t].sent
  /\ ctxt' = sub[t].saved
  /\ sub' = [sub EXCEPT ![t] = Out]
  /\ UNCHANGED <<io, available, probe, failures, fault>> /\ Requests

(* Later the driver reads ctxt again, when ump has long set it back:       *)
(* bdev_iscsi_get_buf_cb and _bdev_iscsi_reset.                            *)
ReadsCtxt(i) ==
  /\ io[i].state \in {"waiting", "message"} /\ Free(io[i].at)
  /\ IF ctxt = io[i].path THEN io' = [io EXCEPT ![i].state = "task"] /\ UNCHANGED fault
     ELSE fault' = TRUE /\ UNCHANGED io
  /\ UNCHANGED <<ctxt, sub, available, probe, failures>> /\ Requests

(* bdev_iscsi_poll_lun serves the tasks of a path.                         *)
Serves(p, t) == lun[p].poller = t /\ Free(t)

Succeeded(i) ==
  /\ io[i].state = "task" /\ Serves(io[i].path, io[i].at)
  /\ io' = [io EXCEPT ![i] = Idle]
  /\ UNCHANGED <<ctxt, sub, available, probe, failures, fault>> /\ Requests

(* bdev_iscsi_command_cb of any other status, the timeout's included: ump  *)
(* takes the path out, starts its poller and submits the request again.    *)
Failed(i) ==
  LET t == io[i].at
      p == io[i].path
  IN  /\ io[i].state = "task" /\ Serves(p, t)
      /\ failures < MaxFailures                                \* bound
      /\ failures' = failures + 1
      /\ available' = [available EXCEPT ![t][p] = FALSE]
      /\ probe' = IF probe[t][p] = NoProbe
                  THEN [probe EXCEPT ![t][p].state = "polling"] ELSE probe
      /\ io' = [io EXCEPT ![i] = [state |-> "chosen", at |-> t, path |-> NoPath]]
      /\ sub' = [sub EXCEPT ![t].io = i]
      /\ UNCHANGED <<ctxt, fault>> /\ Requests

(* The same of a capacity change, which the callback reads from the task   *)
(* it has just freed: the request is sent again with what ctxt is by now.  *)
Resized(i) ==
  /\ io[i].state = "task" /\ Serves(io[i].path, io[i].at)
  /\ failures < MaxFailures
  /\ failures' = failures + 1
  /\ fault' = (ctxt # io[i].path)
  /\ UNCHANGED <<io, ctxt, sub, available, probe>> /\ Requests

-----------------------------------------------------------------------------
(* Failback.                                                               *)

(* ump_failback_io_fn gives the driver the bdev_io without the path's      *)
(* ctxt.  A ump_bdev taken for a LUN has no main thread: what lies behind  *)
(* it in memory is not this thread (lost), or is and the LUN's context is  *)
(* garbage (fault).                                                        *)
FailbackPoll(p, t) ==
  LET Next(state, l) == probe' = [probe EXCEPT ![t][p] = [state |-> state, lun |-> l]]
  IN  /\ probe[t][p].state \in {"polling", "lost"} /\ Free(t)
      /\ \/ ctxt = Mbdev /\ Next("lost", NoPath) /\ UNCHANGED fault
         \/ ctxt = Mbdev /\ fault' = TRUE /\ UNCHANGED probe
         \/ /\ ctxt # Mbdev /\ UNCHANGED fault
            /\ IF lun[ctxt].main = t THEN Next("sent", ctxt) ELSE Next("lost", NoPath)
      /\ UNCHANGED <<io, ctxt, sub, available, failures>> /\ Requests

(* ump_failback_io_completion_cb.                                          *)
ProbeAnswered(p, t, success) ==
  /\ probe[t][p].state = "sent" /\ Serves(probe[t][p].lun, t)
  /\ probe' = [probe EXCEPT ![t][p] = IF success THEN NoProbe ELSE [state |-> "polling", lun |-> NoPath]]
  /\ available' = [available EXCEPT ![t][p] = success]
  /\ UNCHANGED <<io, ctxt, sub, failures, fault>> /\ Requests

-----------------------------------------------------------------------------

Connects(p) == \/ Connected(p) \/ ProvisioningRead(p) \/ LimitsRead(p) \/ CapacityRead(p)

Submits(t) == Swap(t) \/ DriverSubmit(t) \/ Restore(t)

Served(i) == ReadsCtxt(i) \/ Succeeded(i) \/ Failed(i) \/ Resized(i)

Next ==
  /\ ~fault
  /\ \/ \E p \in Paths : \/ CreateDisk(p) \/ Connects(p) \/ MainDestroys(p)
                         \/ NoMainPoll(p) \/ NoMainPolled(p)
     \/ \E t \in Threads : OpenChannel(t) \/ CloseChannel(t) \/ Submits(t)
     \/ \E p \in Paths, t \in Threads :
          DestroyChannel(p, t) \/ FailbackPoll(p, t) \/ \E s \in BOOLEAN : ProbeAnswered(p, t, s)
     \/ \E i \in Ios, t \in Threads : Submit(i, t)
     \/ \E i \in Ios : Served(i)

(* A thread comes back to its pollers and messages between its requests    *)
(* and leaves the handlers it is in; the target, or a timeout, answers     *)
(* every task.                                                             *)
Fairness ==
  /\ \A p \in Paths : WF_vars(~fault /\ NoMainPolled(p))
  /\ \A t \in Threads : WF_vars(~fault /\ Submits(t))
  /\ \A i \in Ios : SF_vars(~fault /\ Served(i))

Spec == Init /\ [][Next]_vars /\ Fairness

(* Moreover failback pollers fire, and a probe that is sent again and again *)
(* to a repaired LUN succeeds once.                                        *)
Repairs ==
  \A p \in Paths, t \in Threads :
    /\ SF_vars(~fault /\ FailbackPoll(p, t) /\ ~fault')
    /\ SF_vars(~fault /\ ProbeAnswered(p, t, TRUE))

RepairedSpec == Spec /\ Repairs

-----------------------------------------------------------------------------
(* Properties.                                                             *)

(* Every variable has its type.                                            *)
TypeOK ==
  /\ conn \in [Paths -> Stages]
  /\ lun \in [Paths -> Lun]
  /\ hold \in [Paths -> [Threads -> {"none", "open", "putting"}]]
  /\ open \subseteq Threads
  /\ ctxt \in Paths \cup {Mbdev}
  /\ sub \in [Threads -> Sub]
  /\ io \in [Ios -> Io]
  /\ available \in [Threads -> [Paths -> BOOLEAN]]
  /\ probe \in [Threads -> [Paths -> Probe]]
  /\ failures \in 0..MaxFailures /\ resizes \in 0..MaxResizes
  /\ fault \in BOOLEAN

(* While any channel is held, or the message that destroys the last one is *)
(* on its way, the LUN has a main thread, on which its poller runs, and    *)
(* the count is that of the holders; the message goes to that thread, as   *)
(* the assertion in _iscsi_destroy_cb has it.                              *)
MainThreadIsHeld ==
  \A p \in Paths :
    LET l == lun[p]
    IN  /\ l.count = Cardinality({t \in Threads : hold[p][t] # "none"}) + (IF l.msg # 0 THEN 1 ELSE 0)
        /\ l.count > 0 <=> l.main # 0
        /\ l.poller = l.main /\ l.msg \in {0, l.main}

(* A LUN's context, which is not safe for threads, is never served by the  *)
(* no-main poller while the main thread's poller is there, or a task.      *)
OneServer ==
  \A p \in Paths : lun[p].serving =>
    lun[p].poller = 0 /\ \A i \in Ios : io[i].state = "task" => io[i].path # p

(* Every request is answered in the end unless it was submitted from       *)
(* another thread than the main thread of its LUN, or the driver took the  *)
(* wrong LUN.                                                              *)
EveryIoAnswered ==
  \A i \in Ios : (io[i].state # "idle") ~> (io[i].state \in {"idle", "lost"} \/ fault)

(* A failed path whose LUN answers again becomes available again: "the     *)
(* repaired path is added to the available list again" with both protocols *)
(* (docs/README.md:277, 280).                                              *)
FailedPathReturns ==
  \A t \in Threads, p \in Paths : (~available[t][p]) ~> (available[t][p] \/ fault)
=============================================================================
