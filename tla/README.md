# TLA+ verification of SUMP

SUMP is a user-space multipath layer for SPDK. It is a shared library, preloaded
into an SPDK application (`vhost`), that hijacks `spdk_bdev_register`, aggregates
block devices with one uuid into one multipath device (`ump_bdev`), and decides for
every request which of the underlying devices - the *paths* - serves it. A path that
fails a request is taken out of service, the request is sent again on another path
(*failover*), and a poller probes the failed path until it answers (*failback*).

The repository also holds edited copies of the two SPDK modules that provide the paths in
its experiments, the NVMe and the iSCSI bdev modules, and of SPDK's NVMe-oF target.

This directory models SUMP, those two modules and the subsystems of the target, checks the
models with TLC and proves the most important results with TLAPS for every number of paths,
requests, threads, poll groups and commands.

## 1. Inventory

### Components

| Component | Code | State | Operations | Modelled |
|---|---|---|---|---|
| Registration, channels | `sump.c`, `sump_ctrl.c:498-586`, `sump_util.c:33-44` | `ump_bdev_manage` (all multipath devices), each with its list of backing bdevs; `g_ump_bdev_channels`; per channel `iopath_list`, `max_id` | `spdk_bdev_register`, `ump_bdev_construct`, `ump_bdev_add_bdev`, `ump_bdev_channel_create_cb`, `.._destroy_cb` | `SumpRegister`; destroy under running pollers in `SumpIo` |
| I/O path | `sump_data.c:21-72`, `sump_ctrl.c:18-50` | per path `available`, `io_incomplete`; per request its chain of completion contexts | `ump_bdev_submit_request`, `ump_bdev_io_completion_cb` | `SumpIo` |
| Failback | `sump_ctrl.c:597-650`, `sump_util.c:70-79` | per path `reconnecting`, `reconnect_poller`, the probe's bdev_io and context | `ump_failback`, `ump_failback_io_fn`, `ump_failback_io_completion_cb`, `ump_iopath_init` | `SumpIo` |
| Path selection | `sump_ctrl.c:63-406` | the round robin's static `turn` | eight algorithms, one compiled in | `SumpSelect` |
| Statistics | `sump_ctrl.c:416-479, 664-686`, `sump_util.c:53-61` | two windows of 20 times and sizes per path, averages and rates | `update_iopath`, `update_iopath_detail`, `ump_io_count_reset_fn` | `SumpStats`; `io_incomplete` in `SumpIo` |
| NVMe controller | `nvme/bdev_nvme.c` | `nvme_ctrlr`: flags, reference count, transport ids, reset sequence; a qpair per channel | reset, failover, delayed reconnection, loss timeout, channels, ANA log read, cache clearing, deletion | `NvmeCtrlr` |
| NVMe bdev | `nvme/bdev_nvme.c` | list of namespaces; per channel a list of I/O paths, the cached one, the retry queue | submission, path selection (3 policies), completion, retry, abort, namespaces added, deleted, preferred | `NvmeIo` |
| iSCSI bdev | `iscsi/bdev_iscsi.c` | connection request; per LUN main thread, channel count, pollers | connecting, channels, requests as SUMP submits them | `IscsiLun`, with SUMP's swap of `ctxt` and its probe |
| NVMe-oF subsystem | `nvmf/subsystem.c`, `nvmf/nvmf.c`, `nvmf/ctrlr.c`, `nvmf/nvmf_rpc.c` | subsystem: state, namespaces, the change under way; per poll group its part of the subsystem: state, counts, channels, queue; queue pairs, controllers | pause, resume, delete; namespaces added, removed, resized; commands; disconnects | `NvmfSubsystem` |
| Transports, discovery | `nvmf/tcp.c`, `nvmf/rdma.c`, `nvmf/fc.c`, `nvmf/vfio_user.c`, `nvmf/ctrlr_discovery.c` | connections | SPDK's | as environment |
| Management | `nvme/*_rpc.c`, `nvme/bdev_mdns_client.c`, `nvme/vbdev_opal*.c` | - | RPCs, discovery, opal, cuse | no |
| Scripts, docs | `scripts/`, `docs/`, `sump_spdk.h` | - | - | no |

The team's edits of vendored code matter to the models. In `nvme/bdev_nvme.c`
`any_io_path_may_become_available` always answers false (the comment above it, line 983, still
says otherwise), so the NVMe bdev reports a lost connection to SUMP at once instead of
retrying by itself: a path failure is a failed request. In `iscsi/bdev_iscsi.c` the message to
the LUN's main thread is commented out, so a request from another thread is dropped, and
every LUN gets one and the same uuid, so all LUNs are paths of one disk. In
`nvmf/nvmf_rpc.c:1228-1231` each added namespace gets a random uuid and nguid, which decides
what the initiator takes for one disk and touches no state modelled here.

### How the components interact

The bdev layer calls `umplib_fn_table.submit_request`. SUMP allocates a completion
context that saves the request's callback, installs its own, asks the selector for a
path and calls the path's own `submit_request`. The driver completes the request
through the installed callback. On success SUMP updates the path's statistics and
calls the saved callback; on failure it marks the path, starts the failback poller
(which keeps a copy of the request to repeat), restores the saved callback and
submits the request again. The poller's probe bypasses the bdev layer and has a
callback of its own that puts the path back into service, pauses the poller and frees
the copy. Channels belong to one SPDK thread, which runs every callback and poller to
completion; several threads share the multipath device, the round robin's `turn`, the
list of channels and the reset poller.

All paths of a device are driven through the *multipath device's* bdev: before SUMP calls a
path's `submit_request` it writes the path's context into `bdev_io->bdev->ctxt`, and puts the
old one back afterwards. An NVMe bdev uses it at submission only, and everything else follows
from the request's own state, which is why `SumpIo` need not know of the swap. (It also reads it
when a request ends with an error, `bdev_nvme.c:1132`, where SUMP has put its own back: it takes
what lies in the `ump_bdev` there for its error statistics, looks whether that is null, and does
nothing with it, since the counting that follows is commented out.) The iSCSI module reads it
again later, and is given the probe without it; `IscsiLun` composes the two.

The channel in the request stays that of the multipath device as well. The NVMe bdev module takes
the channel it was called with when a request is submitted, and that of the request when it
completes with an error (`bdev_nvme.c:1279, 1337`). Behind SUMP the latter is a
`ump_bdev_channel`, which begins with the members of an `nvme_bdev_channel` so that the NVMe bdev
module writes to no others (`sump.h:49-57`): what the NVMe bdev forgets or queues there its own
channel does not. `NvmeIo` has both deployments.

Within the NVMe module a bdev channel refers to the controller channels of its paths. A
controller that breaks or reconnects, and an ANA log page that was read, clear the path the
bdev channels of each thread have cached; a request that fails on its path makes the channel it
was submitted to forget the cached path. `NvmeCtrlr` and `NvmeIo` meet there: in `NvmeIo` qpairs break and come
back at any time, in `NvmeCtrlr` caches are cleared but hold nothing.

The target is another process, at the other end of the paths: what `NvmfSubsystem` does with
its queue pairs reaches `NvmeIo` as qpairs that break and requests that fail, and nothing else
of it does. Within the target the application thread owns the subsystem and carries a change of
state to the poll groups one after the other with messages; each group's thread owns its part
of the subsystem, its queue pairs and their commands.

### What is hard

- Order of callbacks: failures of several requests, probes, failback and completions of
  requests submitted before the failure interleave freely.
- The probe is fired every second whether or not the previous one has returned, from one
  bdev_io, which the first success frees.
- The bdev layer resubmits a request that got NOMEM with SUMP's callback still installed,
  so contexts nest.
- Everything unavailable at once; counters that wrap; a context that cannot be allocated.
- Channels closed while pollers run; threads sharing what a channel does not own.
- A controller's reset sequence is carried by messages, iterations over the channels,
  callbacks of the driver and pollers in turn, while channels are opened and closed, qpairs
  break, a timer expires and the controller is deleted.
- Paths are added to and taken from channels one thread at a time, while other threads make
  channels from the list itself and requests point to the path.
- The last channel of a LUN goes on one thread while another makes a new one.
- A subsystem is paused poll group by poll group while commands run, arrive, wait for events and
  are dropped with their connection; a bdev disappears during another change; a resumption
  fails half way; a deletion waits for the controllers.

PROJECT.json lists every hazard with its line and the properties aimed at it.

### What makes each component correct

- I/O path: a request is answered once, with success, unless it is lost to memory
  exhaustion or the process dies; failover leaves the failed path; the depth the selector
  compares is that of the outstanding contexts.
- Failback: a path is out of service exactly while one poller probes it, and comes back
  when its link does.
- Selection: the promised path on every input; never an unavailable one while another is
  up; null (not an unassigned pointer, not an endless loop) when there is none.
- Statistics: an average is that of the last requests, and every path gets its turn after a
  reset. (Not that every path is used: a caller slower than the resets, with one request each
  0.3 s, sends them all to the first path, which is the code's behaviour.)
- Registration: every path of a device is in every channel of that device.
- NVMe controller: one carrier for each reset sequence, which ends; references counted; a
  deleted controller is freed once, when nothing refers to it any more.
- NVMe bdev: no cached or used path is dead; the channels' paths follow the bdev's
  namespaces; every request is answered.
- iSCSI: main thread, poller and channel count agree; one thread serves a LUN's context;
  every request that was sent is answered; a repaired path comes back (it does not).

- NVMe-oF subsystem: what changes while it is paused nobody uses; no command is forgotten in a
  queue; nothing refers to a freed subsystem; every change of state ends.

## 2. Modules

| Module | Role |
|---|---|
| `SumpSelect` | the selectors as operators; loops are recursive functions over the positions of `iopath_list`, so they can be proved about |
| `MCSumpSelect` | every selector on every input of a small channel; `RobinSelects` and `Flip` drive the round robin through sequences of selections, failures and recoveries |
| `SumpSelectProofs` | proofs about the operators of `SumpSelect`, the scanning loops and the round robin, and the properties of `MCSumpSelect` as theorems |
| `MultipathDevice` | the abstract specification: a device that answers every request once; `MayLose` says whether memory exhaustion may lose one |
| `SumpIo` | the I/O path of one channel with failover and failback; EXTENDS `SumpSelect` |
| `MCSumpIo` | constants of the instances of `SumpIo` |
| `SumpIoProofs` | the inductive invariant of `SumpIo` and the theorems that follow from it; that it implements `MultipathDevice`; what `io_incomplete` counts, and that one good path suffices |
| `SumpStats`, `MCSumpStats` | the windows of recent requests and the selectors that choose by them; EXTENDS `SumpSelect` |
| `SumpStatsProofs` | the queues of `SumpStats` follow the history of requests, and what that says of the choice |
| `NvmeCtrlr`, `MCNvmeCtrlr` | one NVMe controller: reset, failover, reconnection, channels, deletion |
| `NvmeCtrlrProofs` | the inductive invariant of `NvmeCtrlr` and the theorems that follow from it |
| `NvmeIo`, `MCNvmeIo` | the I/O of one NVMe bdev with a namespace behind each of several controllers |
| `NvmeIoProofs` | the inductive invariant of `NvmeIo` and the theorems that follow from it |
| `IscsiLun`, `MCIscsiLun` | iSCSI LUNs as the paths of a multipath device, with the swap of `ctxt` |
| `IscsiLunProofs` | the inductive invariant of `IscsiLun` and the theorems that follow from it |
| `NvmfSubsystem`, `MCNvmfSubsystem` | one subsystem of the target, its poll groups, one controller with its queue pairs and commands |
| `NvmfSubsystemProofs` | the inductive invariant of `NvmfSubsystem` and the theorems that follow from it |
| `SumpRegister`, `MCSumpRegister` | registration, aggregation by uuid, creation and destruction of channels on several threads; builds the `iopath_list` that the other modules take as given (`PathsInOrder` is their assumption) |
| `SumpRegisterProofs` | the inductive invariant of `SumpRegister` and the theorems that follow from it |

### SumpIo and the code

An action is a handler, run to completion by the channel's thread.

| Action or operator | Code |
|---|---|
| `SubmitRequest(i, avail, depth, cs)` | `ump_bdev_submit_request`: context allocation may fail (`Drop`), otherwise `FindIopath` picks the path and `SendTo` wraps and sends |
| `FindIopath` | `ump_bdev_find_iopath`, queue length (the default build); with no eligible path the pointer is unassigned: wild, or by chance some path |
| `Submit`, `AnswerNomem`, `Retry` | the bdev layer: new request; NOMEM answer; resubmission with the callback that is installed |
| `Succeed` | the success branch of `ump_bdev_io_completion_cb`, through all nested contexts; `UpdateIopath` is the decrement in `update_iopath` |
| `Fail` | its failure branch, with `Failback` = `ump_failback` and the resubmission |
| `ProbeFire` | `ump_failback_io_fn` |
| `ProbeSucceed`, `ProbeFail` | `ump_failback_io_completion_cb`; `Restore` is `ump_iopath_init` and the end of polling |
| `StaleProbe` | the same callback for a probe whose bdev_io and context were freed by an earlier success |
| `CloseChannel`, `UseFreedPath` | `ump_bdev_channel_destroy_cb`, and a poller that outlives it |
| `LinkDown`, `LinkUp`, `Misbehaves` | the network and the devices |

`ctxs[i]` is the chain of completion contexts of request `i`, outermost last; its last
element is the path whose device has the request. `dead` names what the process died of,
`acks`, `failedOnce` and `faults` are history and bounds.

Abstractions: a driver that fails the resubmitted request before `submit_request` returns
is the case of `Fail` directly after `Fail`. Reads of freed memory (`StaleProbe`) have three
outcomes: unnoticed, fatal, or the memory is by now the context of another failed path.
A probe answered NOMEM, failed allocations inside `ump_failback`, and the data the probe
carries are left out. The other selectors can be checked in place of queue length only by
their own properties (`MCSumpSelect`), not inside `SumpIo`.

### NvmeCtrlr and the code

| Action or operator | Code (`nvme/bdev_nvme.c`) |
|---|---|
| `Failover`, `FailoverTrid`, `FailDriver` | `bdev_nvme_failover`, `bdev_nvme_failover_trid` |
| `ResetRequested`, `ResetIo` | `bdev_nvme_reset` from the RPC or a timeout; `bdev_nvme_reset_io` with `pending_resets` |
| `OpenChannel`, `CloseChannel` | `bdev_nvme_create_ctrlr_channel_cb`, `bdev_nvme_destroy_ctrlr_channel_cb` |
| `QpairDisconnected`, `OrphanDisconnected` | `bdev_nvme_disconnected_qpair_cb`, with and without a channel |
| `ResetStarts`, `Disconnect` | `_bdev_nvme_reset`, `nvme_ctrlr_disconnect` |
| `VisitDestroy`, `QpairsDestroyed` | `bdev_nvme_reset_destroy_qpair`, `bdev_nvme_reset_ctrlr` |
| `ReconnectPolled` | `bdev_nvme_reconnect_ctrlr_poll` |
| `VisitCreate`, `QpairsCreated` | `bdev_nvme_reset_create_qpair`, `.._create_qpairs_done`, `.._failed` |
| `VisitPending`, `ResetCompleted` | `bdev_nvme_complete_pending_resets`, `_bdev_nvme_reset_complete`, `bdev_nvme_check_op_after_reset` |
| `TimerExpired`, `LossTimeout` | `bdev_nvme_reconnect_delay_timer_expired`, `bdev_nvme_check_ctrlr_loss_timeout` |
| `AdminDisconnected`, `AdminFailed`, `AdminUnreachable` | `bdev_nvme_poll_adminq` |
| `ReadAnaLogPage`, `AnaLogPageRead`, `CacheCleared` | `nvme_ctrlr_read_ana_log_page`, `.._done`, `bdev_nvme_clear_io_path_caches_done` |
| `AddSecondaryTrid`, `DeletePath`, `HotRemoved` | `_bdev_nvme_add_secondary_trid`, `bdev_nvme_delete`, `remove_cb` |
| `Release`, `CanBeUnregistered`, `UnregisterMessage`, `Unregistered`, `Detached` | `nvme_ctrlr_release`, `.._can_be_unregistered`, `.._unregister`, `.._delete`, `nvme_detach_poller` |

The owner of the controller is thread 1. `fault` marks where the code has gone wrong; the model
stops there, the properties exempt it or, like `OneCarrier`, say when it can happen. Three
sequences of events reach it:

1. With delayed reconnection a reset that failed ends with `resetting` false and
   `reconnect_is_delayed` still false until the driver has disconnected. A reset or failover in
   that window starts a second sequence. The assertions of lines 2103 and 2267 say it does
   not; they are compiled out of a release build.
2. A cache clearing started on another thread ends there, and if the controller was only
   waiting for it unregisters it from that thread, whereas only the owner may (line 1398).
3. A PCIe device that delays reconnection is pulled while it is being reset. The reset fails and
   ends, the delay has to begin with a disconnection, the driver refuses that for a removed
   device, and `nvme_ctrlr_disconnect` answers by completing the sequence once more (lines
   1783-1788), with `resetting` already false, and so on.

Left out: probing and attaching; several namespaces; I/O timeouts other than as the source of
`ResetRequested`.

### NvmeIo and the code

| Action or operator | Code (`nvme/bdev_nvme.c`) |
|---|---|
| `Find`, `FindNext`, `FindMinQd` | `bdev_nvme_find_io_path`, `_bdev_nvme_find_io_path`, `_bdev_nvme_find_io_path_min_qd` |
| `FollowsNull` | the loop of `_bdev_nvme_find_io_path` on an empty list |
| `Forget` | `bdev_nvme_clear_current_io_path` of the request's channel |
| `Submit`, `SubmitOn`, `BufferReady` | `bdev_nvme_submit_request`, `_bdev_nvme_submit_request`, `bdev_nvme_get_buf_cb` |
| `Completed`, `CompletedPathError`, `CompletedRetried` | the branches of `bdev_nvme_io_complete_nvme_status` |
| `RetryPoller`, `Retried`, `AbortRetry` | `bdev_nvme_queue_retry_io`, `bdev_nvme_retry_ios`, `bdev_nvme_abort` |
| `OpenChannel`, `CloseChannel` | `bdev_nvme_create_bdev_channel_cb`, `bdev_nvme_destroy_bdev_channel_cb` |
| `Disconnected`, `Reconnected`, `CheckIoQpairs` | `bdev_nvme_disconnected_qpair_cb`, `bdev_nvme_reset_create_qpair`, `bdev_nvme_check_io_qpairs` |
| `ReadAna`, `AnaRead`, `ClearVisit` | `nvme_ctrlr_read_ana_log_page` and its end, `bdev_nvme_clear_io_path_cache` |
| `AddNs`, `DeleteNs`, `SetPreferredPath` | `nvme_bdev_add_ns`, `nvme_ctrlr_depopulate_namespace`, `bdev_nvme_set_preferred_path` |
| `AddIoPath`, `DeleteIoPath`, `PreferIoPath`, `JobDone`, `JobPasses` | the iterations these start over the bdev's channels, and their ends |

`fault` is noted, and the model stops, where

1. a path is freed while a request points to it, which `bdev_nvme_retry_ios` (line 1284) or the
   completion reads (lines 634, 2299);
2. a channel made after a namespace was listed, and before the iteration that adds its path
   comes by, gets a second path to it (line 3720);
3. an addition that fails frees the namespace, which stays in the bdev's list (line 3753);
4. a channel without paths looks for one: `_bdev_nvme_find_io_path` looks at the first path of
   the list before it asks whether there is one (lines 874, 882-886). An addition that fails at
   the channel, while the deletion of the other namespace is queued behind it, leaves it so;
5. a request that came through SUMP is to be retried: `bdev_nvme_queue_retry_io` walks the retry
   list of SUMP's channel (lines 1279, 1313), which nobody initialised, from its null end.

`sump` says whether requests come through SUMP, or the bdev is used by itself, as in the
comparison of the two (`docs/README.md:1311, 1554`). Behind SUMP a failed request leaves the path
cached in the NVMe bdev's channel (`Forget`), where only a broken connection, an ANA log page or a
change of the paths clears it. Until then active-passive, and round robin up to `rr_min_io`, take
the same path again.

Left out: `set_multipath_policy` while requests run, admin, reset and fused requests, the
abort of a request the driver has (it is `Completed`), the ANA transition timer, the end of
ANA log reading after a failed read (in `NvmeCtrlr`).

### IscsiLun and the code

| Action or operator | Code |
|---|---|
| `CreateDisk`, `Connected`, `ProvisioningRead`, `LimitsRead`, `CapacityRead` | `create_iscsi_disk` and the chain of callbacks in `bdev_iscsi.c:950-1140` |
| `OpenChannel`, `Joined` | `ump_bdev_channel_create_cb`, `bdev_iscsi_create_cb` |
| `CloseChannel`, `DestroyChannel`, `MainDestroys` | `ump_bdev_channel_destroy_cb`, `bdev_iscsi_destroy_cb`, `_iscsi_destroy_cb` |
| `NoMainPoll`, `NoMainPolled` | `bdev_iscsi_no_main_ch_poll`, which holds the mutex in between |
| `Submit`, `Swap`, `DriverSubmit`, `Restore` | `ump_bdev_submit_request` in the steps another thread can see, with `bdev_iscsi_submit_request` |
| `ReadsCtxt` | `bdev_iscsi_get_buf_cb`, `_bdev_iscsi_reset` |
| `Succeeded`, `Failed`, `Resized` | `bdev_iscsi_command_cb` with SUMP's completion |
| `FailbackPoll`, `ProbeAnswered` | `ump_failback_io_fn`, `ump_failback_io_completion_cb` |

A request is `lost` when it was submitted from another thread than its LUN's main thread.
`fault` is noted, and the model stops, where the driver finds another context than that of the
request's path: another thread swapped or restored `ctxt` in between; a read waited for its
buffer (line 580) or a reset for its message (line 502) and SUMP had long put back its own; a
capacity change, whose resubmission reads a task that was just freed (lines 274-283); a
channel opened while `ctxt` is swapped; a probe that took what lies behind the `ump_bdev` for a
main thread that is its own. The driver reads `ctxt` once in `DriverSubmit`. Choosing when no path
is available is `SumpIo`'s case and a `fault` here.

Left out: destruction of a LUN, the notification of a new capacity, the RPCs, the encoding of
commands. The probe's `bdev_io` is allocated without the room for the driver's context that
follows one; what that overwrites is not modelled.

### NvmfSubsystem and the code

| Action or operator | Code (`nvmf/`) |
|---|---|
| `Rpc`, `Delete`, `ListenerDone` | `nvmf_rpc.c`: `rpc_nvmf_subsystem_add_ns`, `.._remove_ns`, the listener RPCs, `rpc_nvmf_delete_subsystem`, and the callbacks of a listener operation |
| `HotRemove`, `Resize`, `Event`, `RetryChange` | `nvmf_ns_hot_remove`, `nvmf_ns_resize`, `nvmf_ns_change_msg` |
| `StartsChange`, `Pauses`, `Resumes` | `nvmf_subsystem_state_change`, with `Before` and `Intermediate` its two tables |
| `Paused` | what each of these does once the subsystem is paused: `nvmf_rpc_ns_paused`, `nvmf_rpc_remove_ns_paused`, `nvmf_rpc_listen_paused`, `_nvmf_ns_hot_remove`, `_nvmf_ns_resize` |
| `Done`, `Ends` | `subsystem_state_change_done`, `.._revert_done` and the callback |
| `Destroys`, `DestroyRetry` | `_nvmf_subsystem_destroy` |
| `Visit` with `Pause`, `Resume`, `Add`, `Removes` | `subsystem_state_change_on_pg` with `nvmf_poll_group_pause_subsystem` and its siblings |
| `RemovePoll` | `nvmf_poll_group_remove_subsystem_msg` again |
| `Disconnect`, `Drains`, `FreeFrom`, `Destructed` | `spdk_nvmf_qpair_disconnect`, `_nvmf_qpair_destroy`, `_nvmf_ctrlr_free_from_qpair`, `nvmf_ctrlr_destruct` |
| `Submit`, `Waits`, `Counted`, `Executed` | `spdk_nvmf_request_exec`, `nvmf_check_subsystem_active` |
| `Complete`, `Settles`, `AerCompletes` | `_nvmf_request_complete` of a command, and of an event request |

`iter` is the state change the application thread sends through the poll groups, with what
asked for it. Two sequences are noted in `fault`, where the model stops:

1. `late`: a message or a listener operation outlives the subsystem. The retry of a bdev's
   removal (`subsystem.c:1387, 1419`) and the end of a listener operation keep the subsystem's
   address; a deletion in between frees it.
2. `unquiesced`: a namespace is closed with I/O outstanding on it. A pause asked for while
   another operation has the subsystem paused is granted at once (`subsystem.c:690`) without
   quiescing the namespace it names.

A host starts with its queue pairs connected: connecting (`nvmf_ctrlr_cmd_connect` and the
controller's creation) is left out, and with it fabrics commands. The transports execute no
command of a queue pair that is not active, as `tcp.c` and `rdma.c` do. Also left out: changes
of ANA states and the contents of commands, zero copy, fused commands, reservations, the
pause of all namespaces (`vfio_user.c`), several subsystems and controllers.

### SumpRegister and the code

| Action or operator | Code |
|---|---|
| `Register` | the hijacked `spdk_bdev_register`: `Construct` when no device has the uuid, else `AddBdev` |
| `Construct` | `ump_bdev_construct`, with failures before and after the device is listed |
| `AddBdev`, `ChannelToExtend`, `Extend` | `ump_bdev_add_bdev` and its search for a channel |
| `CreateChannel`, `CreateChannelFails` | `ump_bdev_channel_create_cb` and its error path |
| `DestroyChannel`, `Release` | `ump_bdev_channel_destroy_cb`, `ump_bdev_channel_clear_all_iopath` |
| `FindInFreedDevice`, `CountInFreedChannel` | `get_ump_bdev_by_uuid` and the reset poller on a list element whose memory was freed |

All threads run on one reactor, as the scripts start `vhost` (`-m 0x2`), so handlers do not
interrupt each other. `refs` counts the references to SPDK's io_channels; SPDK releases one
only for the thread that took it. The attributes a device copies from its first bdev are
left out. `dead` says what the process died of; memory that was freed but not reused is the
case in which nothing is noticed.

### SumpStats and the code

| Action or operator | Code |
|---|---|
| `Submit` | the selection in `ump_bdev_submit_request` |
| `Succeed`, `SucceedUnmeasured` | the success branch of `ump_bdev_io_completion_cb` with `UpdateIopath` = `update_iopath`, whose element may not be allocated |
| `Insert` | `update_iopath_detail` |
| `Fail` | the failure branch: path out of service, resubmission on another |
| `IopathInit` | `ump_iopath_init` when failback succeeds |
| `Reset`, `QueueInit` | `ump_io_count_reset_fn`, `ump_io_queue_init` |

A time is what the failing or completing attempt took (`submit_tsc` is reset at failover), at
least one tick. Rates are integers; `RateUnit` is divisible by every total of times that
occurs, so that the quotient the code computes in a `double` is exact. A request wrapped
twice after NOMEM is counted on both its paths in the code; `SumpStats` has one path per
request. `served` and `total` are history.

## 3. Runs

| Run | Bounds | Shows |
|---|---|---|
| `select` | 4 paths (as many as the code has weights), measures 0..4 with 4 as UINT64_MAX / 10e32 | each selector meets its definition on every combination of availability and measures; `RobinIsCyclic` over all sequences of selections, failures and recoveries |
| `io_safety` | 3 paths, one that never fails, 2 requests, 3 faults, contexts nested twice, 2 unanswered probes per path, 1 lost request, counters modulo 8 | the safety invariants, `FailoverLeavesFailedPath`, and refinement of `MultipathDevice` |
| `io_liveness` | 2 paths that may both fail, 2 requests, 2 faults, contexts nested twice, 2 unanswered probes, counters modulo 3 | `DeviceLive` (every request of a live process is answered) and `FailbackCompletes` |
| `register` | 4 bdevs, 2 uuids, 2 threads, 2 failed allocations or calls | the safety invariants of `SumpRegister` and `LatePathIsUsed` |
| `register_threads` | the same, no failures | finding: a path registered late reaches only one channel of its device |
| `all_down` | 2 paths, 1 request | finding: an unassigned path pointer is used |
| `stats` | 2 paths, 2 requests, windows of 2, 4 measured requests, 2 times and 2 sizes, the builds that select by service time, average rate and last rate | averages are those of the last requests through resets and failbacks; in the first build, and in the second while the head of the list is up, every available path gets its turn after a reset; otherwise the choice follows recent requests of the kind |
| `nvme_ctrlr` | 2 threads, 2 transport ids; fabrics with ANA, fabrics with delayed reconnection and loss timeout, PCIe with ANA, PCIe with delayed reconnection | `OneCarrier`, `RefsCounted`, `DeletedAlone` over every interleaving of resets, channels, failures and deletion; `ResetEnds`, `DeletedIsFreed` |
| `nvme_io` | 1 channel, 2 controllers, 2 requests, 2 failures or changes of the paths, 1 retry, `rr_min_io` 2, all policies, with and without SUMP | `PathsAreLive`, `ListsAgree`, and every request is answered |
| `iscsi` | 2 LUNs, 2 threads, 2 requests, 2 failures, 1 capacity change | `MainThreadIsHeld`, `OneServer`, and requests that were sent are answered |
| `iscsi_failback` | 2 LUNs, 1 thread, 1 request | finding: a repaired path never returns, because the probe is submitted without its path's `ctxt` |
| `nvmf_subsystem` | 2 poll groups, 2 namespaces, an admin and an I/O queue pair on different groups, 2 commands, 2 RPCs or bdev events and a deletion | `PausedIsQuiet`, `NoneStranded`, `FreedIsUnused`; `ChangesEnd` |

Why the bounds suffice. Two requests are enough for one to fail, recover the path and let
the other one complete late; three paths let two be down, with failover between them and a
third that stays up; three faults allow down, up and down again; two unanswered probes make
one stale; a context nested twice has an inner and an outer path. UINT64_MAX is scaled down
so that a wrapped counter is reached; `SolidPathSuffices` needs it above the largest number
of contexts, 4 here. Requests are symmetric; paths are not, since ties are broken by
position.

In `SumpStats` four measured requests fill a window of two and move it twice, or fill two
windows; times and sizes of two values each are enough to order paths differently by time and
by rate, and to tie.

In `SumpRegister` two uuids let the first channel in the list belong to another device, three
bdevs of one uuid let a path arrive after a channel that already has two; two failures let a
device and a channel be left in their lists after they were freed.

In `NvmeCtrlr` two threads are the owner and another one: that a third is there changes who
comes first, not what a handler finds, as iterations visit one channel after the other. Two
transport ids let the active one fail over and the other be deleted. The four configurations
are the branches of the code: what fails first (qpairs or controller), whether a failure is
followed by a delay, and whether ANA pages are read. The theorems hold of all twelve.

In `NvmeIo` the channels share the list of namespaces and nothing else; one channel meets
every position an iteration can have (before, at, after it), and the requests of another
channel cannot touch it. (The invariants also hold with two channels and one request, 2.6
million states, too many for a regular run.) Two events let a path be lost and come back, or a
namespace be added and deleted again, or preferred while it goes. ANA states are `optimized`
and `inaccessible`: `non_optimized` is a second choice made by the same lines.

In `NvmfSubsystem` two poll groups are one that has had its visit and one that has not, with the
admin queue pair on the second and I/O on the first, so that a resumption can fail between
them; two namespaces are the one a pause is for and another; two commands are one that runs
and one that arrives, or an event request and a command; two operations let one find the
subsystem paused or changing by the other, and the deletion follows or precedes them.

In `IscsiLun` two threads make one of them the main thread and the other the last to leave; two
LUNs let SUMP swap one context for another. In the finding one thread is enough.

Deadlock is not checked where the system may really stop: a dead process or a closed channel
(`SumpIo`, `SumpRegister`), a freed controller (`NvmeCtrlr`), a freed subsystem
(`NvmfSubsystem`), and a noted `fault` (`NvmeCtrlr`, `NvmeIo`, `IscsiLun`, `NvmfSubsystem`).

### Fairness

`Fairness` has weak fairness only: a device completes a request it holds, one way or the
other (drivers time requests out); the bdev layer resubmits what it queued (it does so at
the next completion); a running poller fires, its probe is answered, a broken link is
repaired. Nothing obliges the caller to submit or a device to fail. `MaxWraps` bounds how
often one request gets NOMEM, without which a device could refuse it for ever.

`NvmeCtrlr`: messages arrive, iterations go on, the driver disconnects, reconnects or gives up,
and the users of a bdev that is being removed close their channels. A reset, a new channel
or a broken connection is never owed. The delay timer is not fair: the controller is not
resetting while it runs.

`NvmeIo`: a request the driver has is completed (if need be when the connection goes), a
buffer becomes free, a registered poller fires. Paths need not come back.

`IscsiLun`: `Submits` and `NoMainPolled` are handlers, which end. `Served` has strong fairness
because a thread between two of its requests is again and again in a handler. `RepairedSpec`,
for the finding only, adds that pollers fire and that a probe which is sent again and again
succeeds once.

`NvmfSubsystem`: messages are handled, visits and pollers go on, a bdev answers the I/O it has, a
listener operation ends. Event requests need not be answered, and nothing obliges the host to
send or to disconnect, an RPC to be made or a bdev to disappear.

### Deviations the runs do not check

- The rate selectors start from the head of the list without looking at `available`
  (`sump_ctrl.c:190, 378`), where `docs/README.md:888` says that the fastest available path is
  chosen. `MaxScanIsFastest` and `RateScanIsNearlyFastest`, parts of `ScansFindBest`, state what
  holds: the choice when the head is up. In the build by average rate a head that is down and
  unmeasured since the last reset is chosen even while another path is up and unmeasured, which
  gets no turn (against `sump_ctrl.c:675`, "lest some path is never used"), as nothing exceeds
  the 10e32 of the head. `UnmeasuredFirst` and `BestRecentIsChosen` have the head up there.
- The build that goes by the last rate compares through `uint64_t`, for which the initial 10e32
  is out of range and here 0 (`sump_ctrl.c:376`): an unmeasured head is never tried once
  another path was measured, and the periodic reset leaves `read_rate` and `write_rate` alone.
  `UnmeasuredFirst` is not stated of this build.
- `io_incomplete` is "the number of unfinished requests" (`sump.h:97`). The failure branch of
  `ump_bdev_io_completion_cb` does not undo its increment, and failback resets it to 0
  (`sump_util.c:73`) while requests of before the failure are still on the path; their
  completion wraps it, and the path is the last choice from then on. `DepthIsContexts` states
  what holds: the count of a path that never failed.
- A subsystem "can only be destroyed in inactive state" (`subsystem.c:437`), which is asked once:
  the end of a listener operation that began before the deletion activates it again while it
  waits for its controllers (`subsystem.c:366`). `FreedIsUnused` exempts that case.
- A failed resumption after a bdev's removal or growth leaves the subsystem paused until the next
  RPC or event resumes it; nobody tries again.
- Deleting a backing bdev (`ump_bdev_destruct`) leaves it in the lists of its device.

## 4. Proofs

Each module of proofs but the one on selectors has the same plan: an inductive invariant
(`Inv`), one lemma for each action that keeps it, `Spec => []Inv`, and the properties that
follow. TLC checked each of these invariants on the instance of the module's run before it was
proved.

**Selection.** `SumpSelectProofs` proves for any number of paths what the loops return:
`MinScanCorrect` (queue length, service time: the first cheapest eligible path, and the
unassigned pointer exactly when there is none), `MaxScanCorrect` (average rate: the first of
the fastest, if the head is up), `RateScanCorrect` (rate: what truncation leaves of that) and
`RobinCorrect` (the first available path in cyclic order, or NULL). A loop is a recursive
function; that it exists, and the induction over positions with the loop's invariant, rest on
`LeastNatural`, `SetInduction` and `IterationExists`, since the library's
induction theorems take operators as parameters. The module concludes `ScansFindBest`,
`RobinIsCyclic` and `DrawsFindAvailable`, with the types of the flags, the measures and `turn`
as the invariant.

**I/O path.** `SumpIoProofs` proves `Spec => []Inv` with
`Inv == TypeOK /\ OnePollerPerFailedPath /\ AnsweredOnce`. No conjunct is inductive alone: a
poller count stays natural when a probe succeeds only because a path being probed has a
poller, `ump_failback` starts at most one because reconnecting paths are the unavailable ones,
and a failing request has a path (its context chain is not empty) because requests on a
device are wrapped. Assumptions: the four bounds are naturals, there is at least one path,
UINT64_MAX is positive, `Ios` is finite and `Solid` is a set of paths. `TypeCorrectness`,
`FailbackOwnsFailedPaths` and `RequestsAnsweredOnce` follow. So does the action property
`FailoverLeavesFailedPath` (`FailoverAvoidsFailedPaths`): a failing request submits to an
eligible path if there is one (`SubmitsToEligible`, by `CheapestPathIsEligible`), and
`ump_failback` has made its own path ineligible before.

The refinement `ImplementsDevice` is `Spec => DeviceSafe`: the initial state maps to that of
`MultipathDevice`, `Submit` maps to `Accept`, `Succeed` to `Answer`, `Retry` and `Fail` to
`Lose` or a stutter, a fatal probe or poller to `Die`, everything else to a stutter. It needs
`Inv`: a request on a device has not been answered yet.

`DepthCountsContexts` and `SolidPathKeepsProcess` need one more hypothesis,
`Capacity == Cardinality(Ios) * MaxWraps < UintMax`: all requests wrapped to the
bound do not exhaust the counter. (The code has no `MaxWraps`; with 64 bits the hypothesis
only excludes more than 2^64 NOMEM answers in flight.) The invariant `DInv` adds to `Inv`
that chains are at most `MaxWraps` long and shorter while a request waits to be retried
(`WrapBound`), that only paths that failed are out of service, never a solid one
(`OnlyFailedAreOut`), and the two properties themselves. The counting rests on three lemmas
about `ContextsIn`: wrapping adds one element, unwrapping one context leaves the other paths'
sets alone, success removes a set in bijection with the positions that `CountOn` counts; and
`SmallModulo` says that below UINT64_MAX the modulus is not felt. The selector then has the
solid path among its eligible ones, so it is never `Wild` (`CheapestPathIsEligible`).

**Statistics.** `SumpStatsProofs` proves `Spec => []Inv` with
`Inv == TypeOK /\ QueuesFollow /\ RatesFollow`: each queue (`GoodQueue`) holds the last
`Window` requests since it was emptied, its totals are their sums - which `update_iopath_detail`
never computes but adjusts - and its averages those of the totals. `InsertIsGood` is the step:
appending to a full window and taking the head away leaves the totals of the new window
(`TotalsOfAppend`, `TotalsOfTail`). `AveragesFollowWindow`, `UnmeasuredAreServed` and
`BestIsChosen` combine it with the theorems on the loops. `UintMaxIsLarge` is assumed: a time
is below UINT64_MAX ticks, and the rate of one request below the 10e32 that stands for an
unmeasured path (`sump_util.c:60`); without it, a slow path and an unmeasured one could not be
told apart, nor can the code tell them.

**Registration.** `SumpRegisterProofs` proves `Spec => []Inv` with
`Inv == TypeOK /\ DevicesInv /\ ChannelsInv /\ ReferencesHeld`. `RegisteredOnce` is not
inductive: a bdev joins a device once because it is registered once and in no device before
(`DevicesInv`). A channel's paths are those of its device in their order (`ChannelsInv`), made
at once by `ump_bdev_channel_create_cb` or one by one by `ump_bdev_add_bdev`; that the latter
keeps the order needs that the bdev it adds is the device's last. The references of a thread
are counted by `Holders`, pairs of a channel and a position; adding a path adds a pair, closing
a channel removes the pairs that its thread has released. Assumption: there are finitely many
bdevs, which `Cardinality` needs. `LatePathIsUsed` is proved of the step from the same
invariant.

**iSCSI.** `IscsiLunProofs` proves `Spec => []Inv` for any number of threads, LUNs and requests, with
`Inv == Types /\ LunsAreHeld /\ ServedAlone /\ OpenHolds /\ RequestsHold`. `MainThreadIsHeld`
constrains the count of a LUN, but the channels to be counted are per thread: `LunsAreHeld`
says that the count is the number of threads that hold a channel, one more while the message
to the main thread is under way, which the lemmas on `Holders` keep as threads join and leave.
`OneServer` needs more: a LUN that the no-main poller serves has count 0 (`ServedAlone`), a
channel of the multipath device holds all the connected LUNs, which stays true only because
nothing connects while one is open (`OpenHolds`), and tasks and submissions are on such
channels (`RequestsHold`); so a LUN with a task has a holder and is not the no-main poller's.
Assumptions: there is at least one thread, the null path and the shared bdev are not paths,
and the bounds are naturals. `TypeCorrectness`, `MainThreadHolds` and `ServedByOne` follow.

**The NVMe controller.** `NvmeCtrlrProofs` proves `Spec => []Inv` for any number of threads and
transport ids and for all options, with
`Inv == TypeOK /\ Counted /\ Lasting /\ UnregisteredOnce(ctrlr) /\ Leaves /\ Sequenced`.
`OneCarrier` is about handlers of a dozen places that hand a reset sequence to each other:

- what carries the sequence is one token, to which the invariant adds the delay: of a message, an
  iteration, the driver's callback, a poller and the delay timer there is at most one (`Alone`),
  and the controller is resetting exactly while one other than the delay has it. A handler
  that takes the token gives it on (`HandedOn`, `IterationEnds`, `IterationGoesOn`);
- that a new sequence finds the token free is what the assertions on `reset_start_tsc` stand for:
  with no delay configured, a controller that is not resetting has forgotten when its last
  reset began (`Clocked`), and where it has not, `SequenceBegins` ends in the noted `fault`;
- the driver must not refuse to disconnect: its controller is down only while the sequence that
  took it down is under way, or after the last one (`Driven`).

`RefsCounted` is counted by the open channels and by `Outlived`, a pair for each qpair whose
channel is gone (`HoldersSteps`, `OutlivedSteps`). `DeletedAlone` needs that whoever finds the
controller unused, be it a release, the end of a reset, of a cache clearing or of an ANA log
read, is the only one: who drops a reference has one, so that none has found the
controller unused before (`RefsHeld`, `ReleaseProperties`), and the three others were in the way
themselves (`UnregisteredOnce`). Between a release on another thread and its message
the controller stays unused, as nothing can start that it would have to wait for. `TypeCorrect`,
`OneCarries`, `ReferencesCounted` and `FreedAlone` follow. Assumptions: there are a
thread and a transport id, and a loss timeout is configured only together with delayed
reconnection (`bdev_nvme_check_io_error_resiliency_params` refuses anything else).

**The NVMe bdev.** `NvmeIoProofs` proves `Spec => []Inv` for any number of channels,
controllers and requests, with `Inv == TypeOK /\ (~fault => Sound)` and
`Sound == InOrder(jobs) /\ IsInjective(ns_list) /\ NamespacesOK /\ ClosedAreEmpty /\
PathsAreLive /\ ListsAgree`. `ListsAgree` relates a channel's paths to the bdev's list, which
changes before the channels do, so the invariant must say what the iterations under way mean:

- no iteration overtakes one that began before it, but for one that failed and ends at once
  (`InOrder`);
- of one namespace there is at most one addition and one deletion under way, the addition first;
  a deletion is under way exactly while the namespace is being deleted, and it is listed
  exactly while it is being added or present (`NamespacesOK`, by `Tells`).

The step that needs this is an addition that comes to an open channel whose namespace was
deleted meanwhile: the path it adds is not in the list, but then the deletion is behind it and
has this channel still to visit. `JobStarts`, `JobSteps`, `JobFails` and `JobEnds` say once how
`InOrder`, `Tells` and the pairs that iterations still have to change follow the queue of
iterations; `QuietStep`, `ListStep` and `PathStep` reduce an action to what it does to the
channels' lists and to the paths of requests. `FirstIn` and `Around` give the paths that
`bdev_nvme_find_io_path` returns, with `Kept` as what it leaves of the channel: a cached path is in
the list and has a qpair. `TypeCorrect`, `PathsStayLive` and `ListsStayInAgreement` follow.
Assumptions: NULL is no controller, the controllers are finitely many (the channel is filled in
the order `SetToSeq` gives them), there is at least one channel, and the bounds are naturals.

**The target.** `NvmfSubsystemProofs` proves `Spec => []Inv` for any number of poll groups,
namespaces, queue pairs and commands, with
`Inv == TypeOK /\ ChangeOK /\ GroupsOK /\ MessagesOK /\ CommandsOK /\ CountsOK /\ LifeOK`.
That a paused subsystem is quiet (`PausedIsQuiet`) speaks of commands, and what a poll group
looks at before it reports that it has paused are its counts. So:

- the counts of a group cover the commands that run on it (`CountsOK`: the management count is
  at least the admin commands, the I/O count of a namespace exactly its I/O). A count is
  forgotten when its namespace is removed; that no command still runs on it then is part of
  `CommandsOK`, up to the noted `fault`;
- a group that the change has visited is in the state asked for, and its namespace quiesced
  (`GroupsOK`), also when the change is turned round after a failed resumption (`ChangeOK` says
  in which states of the subsystem that may be);
- the message that ends a change is sent once and after the last group (`MessagesOK`), so that
  the next change does not begin under it.

`FreedIsUnused` needs in addition that the controller outlives its queue pairs and the
subsystem its controller (`LifeOK`) and that the message to destruct a controller is sent after
its last queue pair (`MessagesOK`); `NoneStranded` is a part of `CommandsOK`. Assumptions:
there is at least one group, each queue pair belongs to one, and the commands are finitely many.

**Only model-checked.** Liveness (outside the prover's reach): `DeviceLive`,
`FailbackCompletes`, `ResetEnds`, `DeletedIsFreed`, `EveryIoAnswered`, `ChangesEnd` and the
like. Every safety property of a passing run is a theorem. The properties that the finding
runs violate are false.

## 5. Not modelled

Most of the 31 000 lines of `nvmf/` are transports (`tcp.c`, `rdma.c`, `fc.c`, `fc_ls.c`,
`vfio_user.c`), the encoding of commands (`ctrlr.c`, `ctrlr_bdev.c`) and discovery
(`ctrlr_discovery.c`). They are most of the repository's C and no part of its multipath logic;
the misbehaviour of a transport reaches the models as broken connections and failed requests.
The management plane (RPCs other than those above, discovery by mDNS, opal, cuse) creates and
names what the models start from. The scripts start processes and plot.

The share of the repository's lines these models translate is small for that reason; of SUMP
itself little but logging and allocation is left out.

## 6. Plan

1. `SumpSelect`, `SumpIo`, their runs, theorems, the refinement. (done)
2. `SumpStats`, `SumpRegister`, their safety properties as theorems. (done)
3. The swap of the shared bdev's context and the iSCSI module: `IscsiLun`,
   `MainThreadIsHeld` and `OneServer` as theorems. (done)
4. The target: `NvmfSubsystem` and its safety properties as theorems. (done) Next: connecting,
   and a second controller.
5. The NVMe module: `NvmeCtrlr`, `NvmeIo`, their safety properties as theorems. (done)
6. `SumpReplay`: the data a failback probe writes.
