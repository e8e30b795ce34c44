------------------------------- MODULE SumpIo -------------------------------
(***************************************************************************)
(* The I/O path of one ump channel: requests are intercepted and sent to   *)
(* the least loaded path (ump_bdev_submit_request), completions are        *)
(* intercepted and a failure is hidden by resubmitting on another path     *)
(* (ump_bdev_io_completion_cb), and a failed path is probed by a poller    *)
(* until it answers again (ump_failback).                                  *)
(*                                                                         *)
(* A channel belongs to one SPDK thread, which runs every handler to       *)
(* completion, so one action is one handler.  The backing bdevs, the bdev  *)
(* layer's requeueing of requests that got NOMEM and the caller are the    *)
(* environment.                                                            *)
(***************************************************************************)
EXTENDS SumpSelect, Sequences, SequencesExt

CONSTANTS
  Ios,        \* the bdev_io objects of the layer above
  Solid,      \* paths whose device never fails
  MaxFaults,  \* bound: device errors and link losses
  MaxWraps,   \* bound: times one request may come back with NOMEM, plus one
  MaxProbes,  \* bound: unanswered probes of one path
  MaxLost     \* bound: completion contexts that cannot be allocated

ASSUME IosAssumption == IsFiniteSet(Ios)
ASSUME SolidAssumption == Solid \subseteq Paths
ASSUME BoundsAssumption == /\ MaxFaults \in Nat
                           /\ MaxWraps \in Nat \ {0}
                           /\ MaxProbes \in Nat
                           /\ MaxLost \in Nat

VARIABLES
  available,      \* iopath->available
  reconnecting,   \* iopath->reconnecting
  io_incomplete,  \* iopath->io_incomplete, modulo UintMax + 1
  pollers,        \* running failback pollers of the path
  probes,         \* unanswered probes of the path whose context is alive
  stale,          \* unanswered probes whose bdev_io and context were freed
  status,         \* where each request is, see Statuses
  ctxs,           \* per request: paths of the completion contexts wrapped
                  \* around the caller's callback, outermost last
  acks,           \* per request: calls of the caller's callback
  link,           \* the device behind the path works
  faults,         \* faults used up
  failedOnce,     \* history: paths that ever failed a request
  open,           \* the channel exists
  dead            \* "no", or what the process died of

pathVars == <<available, reconnecting, io_incomplete, failedOnce>>
probeVars == <<pollers, probes, stale>>
ioVars == <<status, ctxs, acks>>
envVars == <<link, faults, open>>
vars == <<pathVars, probeVars, ioVars, envVars, dead>>

Statuses ==
  {"free",      \* with the caller
   "device",    \* submitted to the path named by its outermost context
   "requeued",  \* answered NOMEM, waiting in the bdev layer's nomem queue
   "lost"}      \* dropped by ump_bdev_submit_request

Causes == {"no", "selector", "stale probe", "closed"}

Init ==
  /\ available = [p \in Paths |-> TRUE]
  /\ reconnecting = [p \in Paths |-> FALSE]
  /\ io_incomplete = [p \in Paths |-> 0]
  /\ pollers = [p \in Paths |-> 0]
  /\ probes = [p \in Paths |-> 0]
  /\ stale = [p \in Paths |-> 0]
  /\ status = [i \in Ios |-> "free"]
  /\ ctxs = [i \in Ios |-> <<>>]
  /\ acks = [i \in Ios |-> 0]
  /\ link = [p \in Paths |-> TRUE]
  /\ faults = 0
  /\ failedOnce = {}
  /\ open = TRUE
  /\ dead = "no"

Running == dead = "no"

-----------------------------------------------------------------------------
(* ump_bdev_find_iopath in the default build: queue length.  When no path  *)
(* is eligible the pointer returned was never assigned: it may be wild or  *)
(* still be that of any path (left on the stack by an earlier call).       *)

(* The availability test dropped.                                          *)
FindIopathAny(avail, depth) == {FirstCheapest(Paths, depth)}

FindIopath(avail, depth) ==
  IF CheapestPath(avail, depth) = Wild THEN Paths \cup {Wild}
                                       ELSE {CheapestPath(avail, depth)}

Increment(depth, p) == [depth EXCEPT ![p] = (@ + 1) % (UintMax + 1)]

(* ump_bdev_submit_request for request i, already wrapped in contexts cs,  *)
(* given the paths' available flags and depths.                            *)
SendTo(i, p, depth, cs) ==
  /\ status' = [status EXCEPT ![i] = "device"]
  /\ ctxs' = [ctxs EXCEPT ![i] = Append(cs, p)]
  /\ io_incomplete' = Increment(depth, p)
  /\ UNCHANGED dead

Drop(i, depth, cs) ==
  /\ status' = [status EXCEPT ![i] = "lost"]
  /\ ctxs' = [ctxs EXCEPT ![i] = cs]
  /\ io_incomplete' = depth

SubmitRequest(i, avail, depth, cs) ==
  \/ /\ Cardinality({j \in Ios : status[j] = "lost"}) < MaxLost
     /\ Drop(i, depth, cs) /\ UNCHANGED dead
  \/ \E p \in FindIopath(avail, depth) :
       IF p = Wild THEN Drop(i, depth, cs) /\ dead' = "selector"
                   ELSE SendTo(i, p, depth, cs)

-----------------------------------------------------------------------------
(* The caller and the bdev layer.                                          *)

(* A new request of the caller reaches the function table.                 *)
Submit(i) ==
  /\ Running /\ open
  /\ status[i] = "free"
  /\ SubmitRequest(i, available, io_incomplete, <<>>)
  /\ acks' = [acks EXCEPT ![i] = 0]
  /\ UNCHANGED <<available, reconnecting, failedOnce, probeVars, envVars>>

(* The device answers NOMEM: the bdev layer keeps the request, whose       *)
(* callback is still ump_bdev_io_completion_cb, and submits it again later.*)
AnswerNomem(i) ==
  /\ Running
  /\ status[i] = "device" /\ Len(ctxs[i]) < MaxWraps
  /\ status' = [status EXCEPT ![i] = "requeued"]
  /\ UNCHANGED <<pathVars, probeVars, ctxs, acks, envVars, dead>>

Retry(i) ==
  /\ Running
  /\ status[i] = "requeued"
  /\ SubmitRequest(i, available, io_incomplete, ctxs[i])
  /\ UNCHANGED <<available, reconnecting, failedOnce, probeVars, acks, envVars>>

-----------------------------------------------------------------------------
(* ump_bdev_io_completion_cb.                                              *)

Current(i) == Last(ctxs[i])    \* the path whose device holds the request

CountOn(cs, p) == Cardinality({k \in DOMAIN cs : cs[k] = p})

(* The devices' misbehaviour: a broken link fails everything; a working    *)
(* device may still fail a command, which uses up a fault.                 *)
Misbehaves(p) ==
  /\ p \notin Solid
  /\ IF link[p] THEN faults < MaxFaults /\ faults' = faults + 1
                ELSE UNCHANGED faults

(* Only the outermost context is charged to its path.                      *)
UpdateOutermost(cs) ==
  [io_incomplete EXCEPT ![Last(cs)] = (@ - 1) % (UintMax + 1)]

(* The counter is a signed integer.                                        *)
UpdateSigned(cs) == [p \in Paths |-> io_incomplete[p] - CountOn(cs, p)]

(* update_iopath, called for every context of cs: decrements the counter   *)
(* of the context's path.                                                  *)
UpdateIopath(cs) ==
  [p \in Paths |-> (io_incomplete[p] - CountOn(cs, p)) % (UintMax + 1)]

(* Success unwraps every context: each updates its path and calls the      *)
(* callback it saved, the innermost one that of the caller.                *)
Succeed(i) ==
  /\ Running
  /\ status[i] = "device" /\ link[Current(i)]
  /\ io_incomplete' = UpdateIopath(ctxs[i])
  /\ status' = [status EXCEPT ![i] = "free"]
  /\ ctxs' = [ctxs EXCEPT ![i] = <<>>]
  /\ acks' = [acks EXCEPT ![i] = @ + 1]
  /\ UNCHANGED <<available, reconnecting, failedOnce, probeVars, envVars, dead>>

(* Every failure starts a poller, even when one is running.                *)
FailbackAlwaysPolls(p) ==
  /\ reconnecting' = [reconnecting EXCEPT ![p] = TRUE]
  /\ pollers' = [pollers EXCEPT ![p] = @ + 1]

(* ump_failback: starts a poller for the path unless one is running.       *)
Failback(p) ==
  /\ reconnecting' = [reconnecting EXCEPT ![p] = TRUE]
  /\ pollers' = [pollers EXCEPT ![p] = IF reconnecting[p] THEN @ ELSE @ + 1]

(* The failed request is resubmitted before its path is taken out.         *)
FailResubmitFirst(i) ==
  LET p == Current(i)
  IN /\ Running
     /\ status[i] = "device" /\ Misbehaves(p)
     /\ available' = [available EXCEPT ![p] = FALSE]
     /\ Failback(p)
     /\ failedOnce' = failedOnce \cup {p}
     /\ SubmitRequest(i, available, io_incomplete, Front(ctxs[i]))
     /\ UNCHANGED <<probes, stale, acks, link, open>>

(* The failure is handed to the caller instead of being resubmitted.       *)
FailReported(i) ==
  LET p == Current(i)
  IN /\ Running
     /\ status[i] = "device" /\ Misbehaves(p)
     /\ available' = [available EXCEPT ![p] = FALSE]
     /\ Failback(p)
     /\ failedOnce' = failedOnce \cup {p}
     /\ status' = [status EXCEPT ![i] = "free"]
     /\ ctxs' = [ctxs EXCEPT ![i] = <<>>]
     /\ UNCHANGED <<io_incomplete, probes, stale, acks, link, open, dead>>

(* The caller hears of the failure and the request is resubmitted.         *)
FailAlsoReported(i) ==
  LET p == Current(i)
      avail == [available EXCEPT ![p] = FALSE]
  IN /\ Running
     /\ status[i] = "device" /\ Misbehaves(p)
     /\ available' = avail
     /\ Failback(p)
     /\ failedOnce' = failedOnce \cup {p}
     /\ SubmitRequest(i, avail, io_incomplete, Front(ctxs[i]))
     /\ acks' = [acks EXCEPT ![i] = @ + 1]
     /\ UNCHANGED <<probes, stale, link, open>>

(* The path is taken out but the failed request is not resubmitted.        *)
FailNotResubmitted(i) ==
  LET p == Current(i)
  IN /\ Running
     /\ status[i] = "device" /\ Misbehaves(p)
     /\ available' = [available EXCEPT ![p] = FALSE]
     /\ Failback(p)
     /\ failedOnce' = failedOnce \cup {p}
     /\ Drop(i, io_incomplete, Front(ctxs[i]))
     /\ UNCHANGED <<probes, stale, acks, link, open, dead>>

(* Failure unwraps the outermost context: the path is taken out and its    *)
(* failback started, the saved callback is put back and the request is     *)
(* submitted again (failover).                                             *)
Fail(i) ==
  LET p == Current(i)
      avail == [available EXCEPT ![p] = FALSE]
  IN /\ Running
     /\ status[i] = "device" /\ Misbehaves(p)
     /\ available' = avail
     /\ Failback(p)
     /\ failedOnce' = failedOnce \cup {p}
     /\ SubmitRequest(i, avail, io_incomplete, Front(ctxs[i]))
     /\ UNCHANGED <<probes, stale, acks, link, open>>

-----------------------------------------------------------------------------
(* Failback.                                                               *)

(* ump_failback_io_fn, every second while the poller runs: the context's   *)
(* bdev_io is submitted to the device, even if it has not come back yet.   *)
ProbeFire(p) ==
  /\ Running /\ open
  /\ pollers[p] > 0 /\ probes[p] + stale[p] < MaxProbes
  /\ probes' = [probes EXCEPT ![p] = @ + 1]
  /\ UNCHANGED <<pathVars, pollers, stale, ioVars, envVars, dead>>

(* The path's flag is cleared but its reconnecting mark is left set.       *)
RestoreStillReconnecting(p) ==
  /\ available' = [available EXCEPT ![p] = TRUE]
  /\ io_incomplete' = [io_incomplete EXCEPT ![p] = 0]
  /\ pollers' = [pollers EXCEPT ![p] = @ - 1]
  /\ probes' = [probes EXCEPT ![p] = 0]
  /\ UNCHANGED reconnecting

(* What a successful probe does to path p: ump_iopath_init, the poller     *)
(* paused, bdev_io and context freed.                                      *)
Restore(p) ==
  /\ available' = [available EXCEPT ![p] = TRUE]
  /\ reconnecting' = [reconnecting EXCEPT ![p] = FALSE]
  /\ io_incomplete' = [io_incomplete EXCEPT ![p] = 0]
  /\ pollers' = [pollers EXCEPT ![p] = @ - 1]
  /\ probes' = [probes EXCEPT ![p] = 0]

(* ump_failback_io_completion_cb.  Probes still on the device when the     *)
(* bdev_io is freed become stale.                                          *)
ProbeSucceed(p) ==
  /\ Running /\ open
  /\ probes[p] > 0 /\ link[p]
  /\ Restore(p)
  /\ stale' = [stale EXCEPT ![p] = @ + probes[p] - 1]
  /\ UNCHANGED <<failedOnce, ioVars, envVars, dead>>

ProbeFail(p) ==
  /\ Running /\ open
  /\ probes[p] > 0 /\ Misbehaves(p)
  /\ probes' = [probes EXCEPT ![p] = @ - 1]
  /\ UNCHANGED <<pathVars, pollers, stale, ioVars, link, open, dead>>

(* A stale probe completes a freed bdev_io with a freed context: nothing   *)
(* is noticed, or the process dies, or the memory already serves as the    *)
(* context of another failed path, which is restored unprobed.             *)
StaleProbe(p) ==
  /\ Running /\ open
  /\ stale[p] > 0
  /\ \/ /\ stale' = [stale EXCEPT ![p] = @ - 1]
        /\ dead' \in {"no", "stale probe"}
        /\ UNCHANGED <<pathVars, pollers, probes>>
     \/ \E q \in Paths :
          /\ reconnecting[q]
          /\ Restore(q)
          /\ stale' = [r \in Paths |-> stale[r] - (IF r = p THEN 1 ELSE 0)
                                                + (IF r = q THEN probes[q] ELSE 0)]
          /\ UNCHANGED <<failedOnce, dead>>
  /\ UNCHANGED <<ioVars, envVars>>

(* ump_bdev_channel_destroy_cb, once the caller's requests have drained:   *)
(* the paths are freed, their pollers are not stopped.                     *)
CloseChannel ==
  /\ Running /\ open
  /\ \A i \in Ios : status[i] = "free"
  /\ open' = FALSE
  /\ UNCHANGED <<pathVars, probeVars, ioVars, link, faults, dead>>

(* A poller or a probe touches a freed path.                               *)
UseFreedPath(p) ==
  /\ Running /\ ~open
  /\ pollers[p] > 0 \/ probes[p] > 0
  /\ dead' = "closed"
  /\ UNCHANGED <<pathVars, probeVars, ioVars, envVars>>

-----------------------------------------------------------------------------
(* The network.                                                            *)
LinkDown(p) ==
  /\ Running
  /\ p \notin Solid /\ link[p] /\ faults < MaxFaults
  /\ link' = [link EXCEPT ![p] = FALSE]
  /\ faults' = faults + 1
  /\ UNCHANGED <<pathVars, probeVars, ioVars, open, dead>>

LinkUp(p) ==
  /\ Running
  /\ ~link[p]
  /\ link' = [link EXCEPT ![p] = TRUE]
  /\ UNCHANGED <<pathVars, probeVars, ioVars, faults, open, dead>>

-----------------------------------------------------------------------------
IoNext(i) == Submit(i) \/ AnswerNomem(i) \/ Retry(i) \/ Succeed(i) \/ Fail(i)

PathNext(p) == \/ ProbeFire(p) \/ ProbeSucceed(p) \/ ProbeFail(p) \/ StaleProbe(p)
               \/ UseFreedPath(p) \/ LinkDown(p) \/ LinkUp(p)

Next == CloseChannel \/ (\E i \in Ios : IoNext(i)) \/ (\E p \in Paths : PathNext(p))

Spec == Init /\ [][Next]_vars

(* A device answers what it was given; the bdev layer retries what it      *)
(* queued; a running poller fires and its probe is answered, a stale probe *)
(* too; a broken link is repaired.  Nothing obliges the caller to submit.  *)
Fairness ==
  /\ \A i \in Ios : WF_vars(Succeed(i) \/ Fail(i)) /\ WF_vars(Retry(i))
  /\ \A p \in Paths : /\ WF_vars(ProbeFire(p))
                      /\ WF_vars(ProbeSucceed(p) \/ ProbeFail(p))
                      /\ WF_vars(StaleProbe(p))
                      /\ WF_vars(LinkUp(p))

FairSpec == Spec /\ Fairness

-----------------------------------------------------------------------------
(* Properties.                                                             *)

TypeOK ==
  /\ available \in [Paths -> BOOLEAN]
  /\ reconnecting \in [Paths -> BOOLEAN]
  /\ io_incomplete \in [Paths -> 0 .. UintMax]
  /\ pollers \in [Paths -> Nat]
  /\ probes \in [Paths -> Nat]
  /\ stale \in [Paths -> Nat]
  /\ status \in [Ios -> Statuses]
  /\ ctxs \in [Ios -> Seq(Paths)]
  /\ acks \in [Ios -> Nat]
  /\ link \in [Paths -> BOOLEAN]
  /\ faults \in 0 .. MaxFaults
  /\ failedOnce \subseteq Paths
  /\ open \in BOOLEAN
  /\ dead \in Causes

(* A path is out of service exactly while one poller is trying to bring it *)
(* back: no failed path is forgotten, none is probed twice over, and no    *)
(* path in service is still being probed (ump_bdev_io_completion_cb,       *)
(* ump_failback, ump_failback_io_completion_cb).                           *)
OnePollerPerFailedPath ==
  \A p \in Paths : /\ reconnecting[p] = ~available[p]
                   /\ pollers[p] = IF available[p] THEN 0 ELSE 1
                   /\ probes[p] > 0 => ~available[p]

(* A request is wrapped in completion contexts exactly while the device or *)
(* the requeue list has it, and the caller's callback was called once for  *)
(* each request that came back and not at all for one that did not: neither*)
(* failover nor requeueing can complete a request twice.                   *)
AnsweredOnce ==
  \A i \in Ios : /\ status[i] \in {"device", "requeued"} => ctxs[i] # <<>> /\ acks[i] = 0
                 /\ status[i] = "lost" => acks[i] = 0
                 /\ status[i] = "free" => ctxs[i] = <<>> /\ acks[i] <= 1

(* Until a path first fails, its io_incomplete is the number of completion *)
(* contexts that name it, over all requests and however often they were    *)
(* requeued: every wrapping is undone once (queue_length's increment and   *)
(* update_iopath's decrement balance).                                     *)
ContextsIn(cs, p) ==
  {c \in Ios \X (1 .. MaxWraps) : c[2] <= Len(cs[c[1]]) /\ cs[c[1]][c[2]] = p}

ContextsOn(p) == ContextsIn(ctxs, p)

DepthIsContexts ==
  \A p \in Paths \ failedOnce : io_incomplete[p] = Cardinality(ContextsOn(p))

(* With one path that never fails, the selector always finds a path: the   *)
(* process never dies of an unassigned iopath_chosen, however the other    *)
(* paths fail, come back and drift.                                        *)
SolidPathSuffices == Solid # {} => dead # "selector"

(* A request that failed is never resubmitted to a path that is out of     *)
(* service, the one it failed on least of all, while an eligible path      *)
(* exists (the failover of ump_bdev_io_completion_cb).                     *)
Failed(i) == Running /\ status[i] = "device" /\ ~available'[Current(i)] /\ Fail(i)

FailoverLeavesFailedPath ==
  [][\A i \in Ios :
       (Failed(i) /\ status'[i] = "device" /\ Eligible(available', io_incomplete) # {})
         => /\ Last(ctxs'[i]) # Current(i)
            /\ available'[Last(ctxs'[i])]]_vars

(* The channel implements the reliable device promised to the layer above. *)
DeviceRequest ==
  [i \in Ios |-> CASE status[i] = "free" -> "idle"
                   [] status[i] = "lost" -> "lost"
                   [] OTHER -> "pending"]

Device ==
  INSTANCE MultipathDevice
    WITH MayLose <- MaxLost > 0, request <- DeviceRequest, answers <- acks,
         down <- dead # "no"

DeviceSafe == Device!SafeSpec

DeviceLive == Device!LiveSpec

(* A path taken out of service returns to it once its link is repaired,    *)
(* unless the process died or the channel was closed (ump_failback).       *)
FailbackCompletes ==
  \A p \in Paths : ~available[p] ~> (available[p] \/ dead # "no" \/ ~open)

-----------------------------------------------------------------------------
(* What the source says of its selector, and the code does not do.         *)

(* sump_ctrl.c: ump_bdev_find_iopath and every selector return the path if *)
(* they find one and a null pointer otherwise, so a request that arrives   *)
(* while every path is out of service is refused, not fatal.               *)
SelectorFindsPathOrNull == dead # "selector"
=============================================================================
