------------------------------- MODULE NvmeIo -------------------------------
(***************************************************************************)
(* An NVMe bdev whose namespace is reached through several controllers:    *)
(* the I/O paths of its channels, the path each channel caches, the choice *)
(* of a path, retries, ANA states, and namespaces added and removed while  *)
(* requests run.                                                           *)
(*                                                                         *)
(* Channels are numbered in the order spdk_for_each_channel visits their   *)
(* threads; a handler runs to its end on its thread.  A controller stands  *)
(* for its one namespace of the bdev and for the I/O path to it.  What the *)
(* controllers do among themselves is in NvmeCtrlr; here a connection      *)
(* breaks and comes back at any time.                                      *)
(*                                                                         *)
(* The bdev layer knows a request by the channel it was submitted to.      *)
(* Behind SUMP that is SUMP's, whose first fields are laid out like those  *)
(* of an NVMe bdev channel and used by no one else: what the NVMe bdev     *)
(* writes to the request's channel is lost there, and what it reads there  *)
(* was never initialised.  Both deployments are modelled.                  *)
(*                                                                         *)
(* The code frees an I/O path while a request points to it, makes two      *)
(* paths to one namespace, leaves a freed namespace listed, or follows a   *)
(* null pointer, in sequences the README names; the model notes each in    *)
(* fault and stops.                                                        *)
(***************************************************************************)
EXTENDS Integers, FiniteSets, Sequences, SequencesExt

CONSTANTS
  M,          \* number of bdev channels
  Ctrlrs,     \* controllers
  Ios,        \* requests
  NoPath,     \* NULL
  Policies,   \* multipath policies and selectors the bdev may have
  AnaStates,  \* ANA states a namespace may report
  RrMinIo,    \* rr_min_io
  RetryCount, \* bdev_retry_count
  MaxEvents     \* bound on the changes of the bdev's paths

ASSUME NoPathAssumption == NoPath \notin Ctrlrs /\ IsFiniteSet(Ctrlrs)
ASSUME NumbersAssumption ==
  M \in Nat \ {0} /\ RrMinIo \in Nat \ {0} /\ RetryCount \in Nat /\ MaxEvents \in Nat
ASSUME SetsAssumption ==
  /\ Policies \subseteq {"active_passive", "round_robin", "queue_depth"}
  /\ "optimized" \in AnaStates
  /\ AnaStates \subseteq {"optimized", "non_optimized", "inaccessible"}

VARIABLES
  sump,     \* requests come through a multipath device of SUMP's
  policy,   \* mp_policy and mp_selector
  ns_list,  \* the controllers of bdev->nvme_ns_list
  ns,       \* each controller's namespace
  conn,     \* the qpair of each controller on each channel's thread
  ch,       \* the bdev's channels
  io,       \* the requests
  jobs,     \* iterations over the bdev's channels, the oldest first
  clearing, \* the channel each controller's cache clearing visits, or 0
  events,   \* failures, ANA reads and changes of the paths so far
  fault     \* the code has gone wrong

vars == <<sump, policy, ns_list, ns, conn, ch, io, jobs, clearing, events, fault>>

Channels == 1..M

-----------------------------------------------------------------------------
(* Types.                                                                  *)

Namespace == [life : {"absent", "adding", "present", "deleting"}, ana : AnaStates,
              updating : BOOLEAN, reading : BOOLEAN]

Channel == [open : BOOLEAN, io_paths : Seq(Ctrlrs), current : Ctrlrs \cup {NoPath},
            rr : 0..RrMinIo - 1, poller : BOOLEAN]

Io == [state : {"idle", "buffer", "sent", "retry"}, at : Channels,
       path : Ctrlrs \cup {NoPath}, retries : 0..RetryCount]

Job == [fn : {"add", "undo", "delete", "prefer"}, ctrlr : Ctrlrs,
        at : 1..M + 1, ok : BOOLEAN]

(* up; broken: a failure reason is set or a reset waits for it; down: NULL *)
Connection == {"up", "broken", "down"}

Closed == [open |-> FALSE, io_paths |-> <<>>, current |-> NoPath, rr |-> 0, poller |-> FALSE]
Idle == [state |-> "idle", at |-> 1, path |-> NoPath, retries |-> 0]

Init ==
  \E n \in 1..Cardinality(Ctrlrs) :
    LET listed == SubSeq(SetToSeq(Ctrlrs), 1, n)
    IN
      /\ sump \in BOOLEAN /\ policy \in Policies
      /\ ns_list = listed
      /\ ns = [c \in Ctrlrs |-> [life |-> IF c \in ToSet(listed) THEN "present" ELSE "absent",
                                 ana |-> "optimized", updating |-> FALSE, reading |-> FALSE]]
      /\ conn = [c \in Ctrlrs |-> [k \in Channels |-> "up"]]
      /\ ch = [k \in Channels |-> Closed]
      /\ io = [i \in Ios |-> Idle]
      /\ jobs = <<>>
      /\ clearing = [c \in Ctrlrs |-> 0]
      /\ events = 0
      /\ fault = FALSE

-----------------------------------------------------------------------------
(* Choosing a path.                                                        *)

Active(i) == io[i].state # "idle"
On(k) == {i \in Ios : Active(i) /\ io[i].at = k}

(* bdev_nvme_clear_current_io_path.                                        *)
ClearCurrent(h) == [h EXCEPT !.current = NoPath, !.rr = 0]

(* nvme_io_path_is_connected, with the namespace readable.                 *)
Connected(k, c) == conn[c][k] = "up" /\ ~ns[c].updating

(* nvme_io_path_is_available.                                              *)
Available(k, c) == Connected(k, c) /\ ns[c].ana # "inaccessible"

(* The I/O paths from the one behind the cached one on, around the list.   *)
Around(h) ==
  LET n == IF h.current = NoPath THEN 0
           ELSE CHOOSE m \in DOMAIN h.io_paths : h.io_paths[m] = h.current
  IN  SubSeq(h.io_paths, n + 1, Len(h.io_paths)) \o SubSeq(h.io_paths, 1, n)

(* The first of the sequence the set holds, or NULL.                       *)
FirstIn(s, S) ==
  IF \A n \in DOMAIN s : s[n] \notin S THEN NoPath
  ELSE s[CHOOSE n \in DOMAIN s : s[n] \in S /\ \A m \in 1..n - 1 : s[m] \notin S]

With(k, ana) == {c \in Ctrlrs : Connected(k, c) /\ ns[c].ana = ana}

(* _bdev_nvme_find_io_path: an optimized path, else a non-optimized one,   *)
(* which only active-active caches.                                        *)
FindNext(k) ==
  LET h == ch[k]
      o == FirstIn(Around(h), With(k, "optimized"))
      n == FirstIn(Around(h), With(k, "non_optimized"))
  IN  IF o # NoPath THEN [path |-> o, h |-> [h EXCEPT !.current = o]]
      ELSE [path |-> n, h |-> IF policy = "active_passive" THEN h ELSE [h EXCEPT !.current = n]]

(* _bdev_nvme_find_io_path_min_qd, which caches no path.                   *)
FindMinQd(k) ==
  LET depth(c) == Cardinality({i \in On(k) : io[i].state = "sent" /\ io[i].path = c})
      least(S) == {c \in S : \A d \in S : depth(c) <= depth(d)}
      listed(ana) == {c \in With(k, ana) : c \in ToSet(ch[k].io_paths)}
      o == FirstIn(ch[k].io_paths, least(listed("optimized")))
      n == FirstIn(ch[k].io_paths, least(listed("non_optimized")))
  IN  [path |-> IF o # NoPath THEN o ELSE n, h |-> ch[k]]

(* _bdev_nvme_find_io_path takes the first path of the list, be there one  *)
(* or not, where the list ends; a channel without paths caches none.       *)
FollowsNull(k) == policy # "queue_depth" /\ ch[k].io_paths = <<>>

(* bdev_nvme_find_io_path, but for FollowsNull.                            *)
Find(k) ==
  LET h == ch[k]
  IN  IF h.current # NoPath /\ policy = "active_passive" THEN [path |-> h.current, h |-> h]
      ELSE IF h.current # NoPath /\ policy = "round_robin" /\ h.rr + 1 < RrMinIo
      THEN [path |-> h.current, h |-> [h EXCEPT !.rr = @ + 1]]
      ELSE IF policy = "queue_depth" THEN FindMinQd(k)
      ELSE LET f == FindNext(k)
           IN  IF h.current = NoPath THEN f ELSE [f EXCEPT !.h.rr = 0]

-----------------------------------------------------------------------------
(* Requests.                                                               *)

Event == events < MaxEvents /\ events' = events + 1           \* bound

Answer(i) == [io EXCEPT ![i] = Idle]

(* bdev_nvme_clear_current_io_path of the channel the bdev layer knows the *)
(* request by, which is the NVMe bdev's, h, or SUMP's.                     *)
Forget(h) == IF sump THEN h ELSE ClearCurrent(h)

(* _bdev_nvme_submit_request of an I/O: the driver takes it, refuses it    *)
(* (-ENXIO forgets the cached path), or a read waits for a buffer first.   *)
SubmitOn(i, k, path, h) ==
  \/ /\ io' = [io EXCEPT ![i].state = "sent", ![i].at = k, ![i].path = path]
     /\ ch' = [ch EXCEPT ![k] = h]
  \/ /\ io' = [io EXCEPT ![i].state = "buffer", ![i].at = k, ![i].path = path]
     /\ ch' = [ch EXCEPT ![k] = h]
  \/ /\ io' = Answer(i)
     /\ ch' \in {[ch EXCEPT ![k] = h], [ch EXCEPT ![k] = Forget(h)]}

(* bdev_nvme_submit_request, with channel k as the handler has changed it  *)
(* so far but for what Find reads; no path is -ENXIO.                      *)
SubmitRequest(i, k, poller) ==
  LET f == Find(k)
      h == [f.h EXCEPT !.poller = poller]
  IN  IF FollowsNull(k) THEN fault' = TRUE /\ UNCHANGED <<ch, io>>
      ELSE /\ IF f.path = NoPath
              THEN io' = Answer(i) /\ ch' = [ch EXCEPT ![k] = Forget(h)]
              ELSE SubmitOn(i, k, f.path, h)
           /\ UNCHANGED fault

Submit(i, k) ==
  /\ ~Active(i) /\ ch[k].open
  /\ SubmitRequest(i, k, ch[k].poller)
  /\ UNCHANGED <<sump, policy, ns_list, ns, conn, jobs, clearing, events>>

(* bdev_nvme_get_buf_cb: the path may have gone while the read waited; no  *)
(* buffer is -EINVAL.                                                      *)
BufferReady(i) ==
  LET k == io[i].at
  IN  /\ io[i].state = "buffer"
      /\ \/ /\ Available(k, io[i].path)
            /\ io' = [io EXCEPT ![i].state = "sent"]
            /\ UNCHANGED ch
         \/ /\ io' = Answer(i)
            /\ ch' \in {ch, [ch EXCEPT ![k] = Forget(@)]}
      /\ UNCHANGED <<sump, policy, ns_list, ns, conn, jobs, clearing, events, fault>>

(* bdev_nvme_io_complete_nvme_status of a success, of an error that is not *)
(* retried, or of any once the retries are used up.                        *)
Completed(i) ==
  /\ io[i].state = "sent"
  /\ io' = Answer(i)
  /\ UNCHANGED <<sump, policy, ns_list, ns, conn, ch, jobs, clearing, events, fault>>

(* The same of an error of the path: the request's channel forgets the     *)
(* cached path and the request fails, as any_io_path_may_become_available  *)
(* is always false here.  An ANA error reads the log page; updating is set *)
(* after the read was sent, when its completion may already have come.     *)
CompletedPathError(i) ==
  LET k == io[i].at
      c == io[i].path
  IN  /\ io[i].state = "sent" /\ io[i].retries < RetryCount
      /\ io' = Answer(i)
      /\ ch' = [ch EXCEPT ![k] = Forget(@)]
      /\ \/ UNCHANGED <<ns, events>>
         \/ /\ ~ns[c].reading /\ Event
            /\ \E late \in BOOLEAN :
                 ns' = [ns EXCEPT ![c].updating = TRUE, ![c].reading = ~late]
      /\ UNCHANGED <<sump, policy, ns_list, conn, jobs, clearing, fault>>

(* bdev_nvme_queue_retry_io: a poller is registered for a new head of the  *)
(* list; one that registers none unless the list is empty.                 *)
RetryPollerNever(k) ==
  LET empty == {i \in On(k) : io[i].state = "retry"} = {}
  IN  ch' = [ch EXCEPT ![k].poller = @ \/ ~empty]

RetryPoller(k) ==
  \E head \in BOOLEAN :
    /\ {i \in On(k) : io[i].state = "retry"} = {} => head
    /\ ch' = [ch EXCEPT ![k].poller = @ \/ head]

(* Counts no retry.                                                        *)
CompletedRetriedForever(i) ==
  /\ io[i].state = "sent" /\ Available(io[i].at, io[i].path)
  /\ \/ sump /\ fault' = TRUE /\ UNCHANGED <<ch, io>>
     \/ /\ ~sump
        /\ io' = [io EXCEPT ![i].state = "retry", ![i].retries = @ + 1]
        /\ RetryPoller(io[i].at)
        /\ UNCHANGED fault
  /\ UNCHANGED <<sump, policy, ns_list, ns, conn, jobs, clearing, events>>

(* The same of an error of the request itself, on a path still available.  *)
(* It waits on its channel's list to be retried; SUMP's is no list, whose  *)
(* end is the null pointer.                                                *)
CompletedRetried(i) ==
  /\ io[i].state = "sent" /\ io[i].retries < RetryCount
  /\ Available(io[i].at, io[i].path)
  /\ \/ sump /\ fault' = TRUE /\ UNCHANGED <<ch, io>>
     \/ /\ ~sump
        /\ io' = [io EXCEPT ![i].state = "retry", ![i].retries = @ + 1]
        /\ RetryPoller(io[i].at)
        /\ UNCHANGED fault
  /\ UNCHANGED <<sump, policy, ns_list, ns, conn, jobs, clearing, events>>

(* bdev_nvme_retry_ios: a due request is sent again, on its own path if it *)
(* is available; requests due together are taken one firing each.          *)
Retried(i) ==
  LET k    == io[i].at
      more == \E j \in On(k) \ {i} : io[j].state = "retry"
  IN  /\ io[i].state = "retry" /\ ch[k].poller
      /\ IF io[i].path # NoPath /\ Available(k, io[i].path)
         THEN SubmitOn(i, k, io[i].path, [ch[k] EXCEPT !.poller = more]) /\ UNCHANGED fault
         ELSE SubmitRequest(i, k, more)
      /\ UNCHANGED <<sump, policy, ns_list, ns, conn, jobs, clearing, events>>

(* bdev_nvme_abort of a request that waits to be retried; one that was     *)
(* sent is aborted by its controller and Completed.                        *)
AbortRetry(i) ==
  /\ io[i].state = "retry"
  /\ io' = Answer(i)
  /\ UNCHANGED <<sump, policy, ns_list, ns, conn, ch, jobs, clearing, events, fault>>

-----------------------------------------------------------------------------
(* Channels.                                                               *)

(* Makes no path to a namespace that is still added.                       *)
OpenChannelPresent(k) ==
  /\ ~ch[k].open
  /\ ch' = [ch EXCEPT ![k].open = TRUE,
                      ![k].io_paths = SelectSeq(ns_list, LAMBDA c : ns[c].life = "present")]
  /\ UNCHANGED <<sump, policy, ns_list, ns, conn, io, jobs, clearing, events, fault>>

(* bdev_nvme_create_bdev_channel_cb: a path to each listed namespace; a    *)
(* qpair that cannot be made is accepted by delayed reconnection.          *)
OpenChannel(k) ==
  /\ ~ch[k].open
  /\ ch' = [ch EXCEPT ![k].open = TRUE, ![k].io_paths = ns_list]
  /\ UNCHANGED <<sump, policy, ns_list, ns, conn, io, jobs, clearing, events, fault>>

(* bdev_nvme_destroy_bdev_channel_cb: requests waiting to be retried are   *)
(* aborted; others are done before a channel is destroyed.                 *)
CloseChannel(k) ==
  /\ ch[k].open /\ \A i \in On(k) : io[i].state = "retry"
  /\ ch' = [ch EXCEPT ![k] = Closed]
  /\ io' = [i \in Ios |-> IF i \in On(k) THEN Idle ELSE io[i]]
  /\ UNCHANGED <<sump, policy, ns_list, ns, conn, jobs, clearing, events, fault>>

(* _bdev_nvme_clear_io_path_cache of controller c's qpair on thread k.     *)
ClearPathCache(c, k) ==
  IF c \in ToSet(ch[k].io_paths) THEN [ch EXCEPT ![k] = ClearCurrent(@)] ELSE ch

(* The connection fails, or a reset begins with its qpair.                 *)
Break(c, k) ==
  /\ conn[c][k] = "up" /\ Event
  /\ conn' = [conn EXCEPT ![c][k] = "broken"]
  /\ ch' \in {ch, ClearPathCache(c, k)}
  /\ UNCHANGED <<sump, policy, ns_list, ns, io, jobs, clearing, fault>>

(* Keeps the cached path when the qpair goes.                              *)
DisconnectedKeeps(c, k) ==
  /\ conn[c][k] = "broken"
  /\ \A i \in On(k) : io[i].state = "sent" => io[i].path # c
  /\ conn' = [conn EXCEPT ![c][k] = "down"]
  /\ UNCHANGED <<sump, policy, ns_list, ns, ch, io, jobs, clearing, events, fault>>

(* bdev_nvme_disconnected_qpair_cb; the driver has completed what was sent *)
(* on the qpair.                                                           *)
Disconnected(c, k) ==
  /\ conn[c][k] = "broken"
  /\ \A i \in On(k) : io[i].state = "sent" => io[i].path # c
  /\ conn' = [conn EXCEPT ![c][k] = "down"]
  /\ ch' = ClearPathCache(c, k)
  /\ UNCHANGED <<sump, policy, ns_list, ns, io, jobs, clearing, events, fault>>

(* bdev_nvme_reset_create_qpair.                                           *)
Reconnected(c, k) ==
  /\ conn[c][k] = "down"
  /\ conn' = [conn EXCEPT ![c][k] = "up"]
  /\ UNCHANGED <<sump, policy, ns_list, ns, ch, io, jobs, clearing, events, fault>>

(* bdev_nvme_check_io_qpairs.                                              *)
CheckIoQpairs(k) ==
  /\ \E c \in Ctrlrs : conn[c][k] = "broken" /\ ch' = ClearPathCache(c, k)
  /\ UNCHANGED <<sump, policy, ns_list, ns, conn, io, jobs, clearing, events, fault>>

(* nvme_ctrlr_read_ana_log_page by an event, and its completion, whose     *)
(* clearing of the caches is skipped when another one runs or when the     *)
(* controller is not available.  A failed read takes every state for       *)
(* optimized.                                                              *)
ReadAna(c) ==
  /\ ns[c].life # "absent" /\ ~ns[c].reading /\ Event
  /\ ns' = [ns EXCEPT ![c].reading = TRUE]
  /\ UNCHANGED <<sump, policy, ns_list, conn, ch, io, jobs, clearing, fault>>

AnaRead(c) ==
  /\ ns[c].reading
  /\ \E ana \in AnaStates :
       ns' = [ns EXCEPT ![c].ana = ana, ![c].updating = FALSE, ![c].reading = FALSE]
  /\ clearing' \in {clearing, [clearing EXCEPT ![c] = IF @ = 0 THEN 1 ELSE @]}
  /\ UNCHANGED <<sump, policy, ns_list, conn, ch, io, jobs, events, fault>>

(* bdev_nvme_clear_io_path_cache.                                          *)
ClearVisit(c) ==
  /\ clearing[c] # 0
  /\ ch' = ClearPathCache(c, clearing[c])
  /\ clearing' = [clearing EXCEPT ![c] = IF @ = M THEN 0 ELSE @ + 1]
  /\ UNCHANGED <<sump, policy, ns_list, ns, conn, io, jobs, events, fault>>

-----------------------------------------------------------------------------
(* Changing the bdev's paths: an iteration visits the channels in order    *)
(* and cannot overtake one that was started before it.                    *)

StartJob(fn, c) ==
  /\ Event
  /\ jobs' = Append(jobs, [fn |-> fn, ctrlr |-> c, at |-> 1, ok |-> TRUE])

(* nvme_bdev_add_ns.                                                       *)
AddNs(c) ==
  /\ ns[c].life = "absent"
  /\ StartJob("add", c)
  /\ ns_list' = Append(ns_list, c)
  /\ \E ana \in AnaStates :
       ns' = [ns EXCEPT ![c] = [life |-> "adding", ana |-> ana, updating |-> FALSE, reading |-> FALSE]]
  /\ UNCHANGED <<sump, policy, conn, ch, io, clearing, fault>>

(* nvme_ctrlr_depopulate_namespace of one of several namespaces, be it     *)
(* still added; the last one unregisters the bdev (NvmeCtrlr).             *)
DeleteNs(c) ==
  /\ ns[c].life \in {"adding", "present"} /\ Len(ns_list) > 1
  /\ StartJob("delete", c)
  /\ ns_list' = RemoveFirst(ns_list, c)
  /\ ns' = [ns EXCEPT ![c].life = "deleting"]
  /\ UNCHANGED <<sump, policy, conn, ch, io, clearing, fault>>

(* c's path, or namespace, comes first.                                    *)
ToFront(s, c) == <<c>> \o RemoveFirst(s, c)

(* bdev_nvme_set_preferred_path.                                           *)
SetPreferredPath(c) ==
  /\ c \in ToSet(ns_list)
  /\ StartJob("prefer", c)
  /\ ns_list' = ToFront(ns_list, c)
  /\ UNCHANGED <<sump, policy, ns, conn, ch, io, clearing, fault>>

Runs(n) == \A m \in 1..n - 1 : jobs[m].at # jobs[n].at
AtChannel(n, fns) == n \in DOMAIN jobs /\ jobs[n].fn \in fns /\ jobs[n].at <= M /\ Runs(n)
Step(n) == [jobs EXCEPT ![n].at = @ + 1]

(* A job passes a thread that has no channel.                              *)
JobPasses(n) ==
  /\ AtChannel(n, {"add", "undo", "delete", "prefer"}) /\ ~ch[jobs[n].at].open
  /\ jobs' = Step(n)
  /\ UNCHANGED <<sump, policy, ns_list, ns, conn, ch, io, clearing, events, fault>>

(* bdev_nvme_add_io_path: a channel made since the namespace was listed    *)
(* already has a path to it and gets a second one.  Failing ends the job.  *)
AddIoPath(n) ==
  LET k == jobs[n].at
      c == jobs[n].ctrlr
  IN  /\ AtChannel(n, {"add"}) /\ ch[k].open
      /\ \/ /\ ch' = [ch EXCEPT ![k] = ClearCurrent([@ EXCEPT !.io_paths = Append(ch[k].io_paths, c)])]
            /\ fault' = (c \in ToSet(ch[k].io_paths))
            /\ jobs' = Step(n)
         \/ /\ jobs' = [jobs EXCEPT ![n].at = M + 1, ![n].ok = FALSE]
            /\ UNCHANGED <<ch, fault>>
      /\ UNCHANGED <<sump, policy, ns_list, ns, conn, io, clearing, events>>

(* bdev_nvme_delete_io_path frees a path a request may still point to.     *)
DeleteIoPath(n) ==
  LET k == jobs[n].at
      c == jobs[n].ctrlr
  IN  /\ AtChannel(n, {"delete", "undo"}) /\ ch[k].open
      /\ IF c \in ToSet(ch[k].io_paths)
         THEN ch' = [ch EXCEPT ![k] = ClearCurrent([@ EXCEPT !.io_paths = RemoveFirst(ch[k].io_paths, c)])]
         ELSE UNCHANGED ch
      /\ fault' = \E i \in On(k) : io[i].path = c
      /\ jobs' = Step(n)
      /\ UNCHANGED <<sump, policy, ns_list, ns, conn, io, clearing, events>>

(* _bdev_nvme_set_preferred_path; the namespace may have been deleted      *)
(* since.                                                                  *)
PreferIoPath(n) ==
  LET k == jobs[n].at
      c == jobs[n].ctrlr
  IN  /\ AtChannel(n, {"prefer"}) /\ ch[k].open
      /\ ch' = IF c \in ToSet(ch[k].io_paths)
               THEN [ch EXCEPT ![k] = ClearCurrent([@ EXCEPT !.io_paths = ToFront(ch[k].io_paths, c)])] ELSE ch
      /\ jobs' = Step(n)
      /\ UNCHANGED <<sump, policy, ns_list, ns, conn, io, clearing, events, fault>>

(* bdev_nvme_add_io_path_done and _failed, which frees a namespace that is *)
(* still listed, and bdev_nvme_delete_io_path_done.                        *)
JobDone(n) ==
  LET j == jobs[n]
  IN  /\ n \in DOMAIN jobs /\ j.at = M + 1 /\ Runs(n)
      /\ CASE j.fn = "add" /\ j.ok ->
                /\ ns' = [ns EXCEPT ![j.ctrlr].life = IF @ = "adding" THEN "present" ELSE @]
                /\ UNCHANGED fault
           [] j.fn = "delete" ->
                ns' = [ns EXCEPT ![j.ctrlr].life = "absent"] /\ UNCHANGED fault
           [] j.fn = "undo" -> fault' = TRUE /\ UNCHANGED ns
           [] OTHER -> UNCHANGED <<ns, fault>>
      /\ jobs' = IF j.fn = "add" /\ ~j.ok
                 THEN Append(RemoveAt(jobs, n), [j EXCEPT !.fn = "undo", !.at = 1])
                 ELSE RemoveAt(jobs, n)
      /\ UNCHANGED <<sump, policy, ns_list, conn, ch, io, clearing, events>>

-----------------------------------------------------------------------------
(* The bdev and what may happen to it.                                     *)

Sent(i) == Completed(i) \/ CompletedPathError(i) \/ CompletedRetried(i)

Connections(c, k) ==
  Break(c, k) \/ Disconnected(c, k) \/ Reconnected(c, k)

RunJob(n) == JobPasses(n) \/ AddIoPath(n) \/ DeleteIoPath(n) \/ PreferIoPath(n) \/ JobDone(n)

Next ==
  /\ ~fault
  /\ \/ \E k \in Channels : OpenChannel(k) \/ CloseChannel(k) \/ CheckIoQpairs(k)
     \/ \E i \in Ios, k \in Channels : Submit(i, k)
     \/ \E i \in Ios : BufferReady(i) \/ Sent(i) \/ Retried(i) \/ AbortRetry(i)
     \/ \E c \in Ctrlrs, k \in Channels : Connections(c, k)
     \/ \E c \in Ctrlrs : \/ ReadAna(c) \/ AnaRead(c) \/ ClearVisit(c)
                          \/ AddNs(c) \/ DeleteNs(c) \/ SetPreferredPath(c)
     \/ \E n \in DOMAIN jobs : RunJob(n)

(* The driver completes what it was sent, if need be when the connection   *)
(* goes; a buffer becomes free; a registered poller fires.                 *)
Fairness ==
  \A i \in Ios : WF_vars(~fault /\ (BufferReady(i) \/ Sent(i) \/ Retried(i)))

Spec == Init /\ [][Next]_vars /\ Fairness

-----------------------------------------------------------------------------
(* Properties.                                                             *)

(* Every variable has its type.                                            *)
TypeOK ==
  /\ sump \in BOOLEAN /\ policy \in Policies
  /\ ns_list \in Seq(Ctrlrs) /\ ns_list # <<>>
  /\ ns \in [Ctrlrs -> Namespace]
  /\ conn \in [Ctrlrs -> [Channels -> Connection]]
  /\ ch \in [Channels -> Channel]
  /\ io \in [Ios -> Io]
  /\ jobs \in Seq(Job)
  /\ clearing \in [Ctrlrs -> 0..M]
  /\ events \in 0..MaxEvents /\ fault \in BOOLEAN

(* A path a channel caches is one of its paths and still has a qpair, and  *)
(* so is the path of every request, whose qpair the driver checks: a path  *)
(* is never used after the namespace or the connection behind it is gone.  *)
PathsAreLive ==
  ~fault =>
    \A k \in Channels :
      /\ ch[k].current # NoPath =>
           ch[k].current \in ToSet(ch[k].io_paths) /\ conn[ch[k].current][k] # "down"
      /\ \A i \in On(k) : io[i].path # NoPath => io[i].path \in ToSet(ch[k].io_paths)

(* Every channel has exactly one path to each namespace of the bdev, but   *)
(* for those an iteration has still to add to it or delete from it:        *)
(* channels come and go while namespaces do.                               *)
Changing(c, k) ==
  \E n \in DOMAIN jobs : /\ jobs[n].ctrlr = c /\ jobs[n].fn \in {"add", "undo", "delete"}
                         /\ jobs[n].at <= k \/ jobs[n].fn = "undo" \/ ~jobs[n].ok
ListsAgree ==
  ~fault =>
    \A k \in Channels : ch[k].open =>
      /\ IsInjective(ch[k].io_paths)
      /\ \A c \in Ctrlrs : ~Changing(c, k) =>
           (c \in ToSet(ch[k].io_paths) <=> c \in ToSet(ns_list))

(* Every request is answered in the end.                                   *)
EveryIoAnswered == \A i \in Ios : Active(i) ~> (~Active(i) \/ fault)
=============================================================================
