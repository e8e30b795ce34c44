---------------------------- MODULE NvmfSubsystem ----------------------------
(***************************************************************************)
(* One subsystem of the NVMe-oF target and the connected queue pairs of    *)
(* one controller: the subsystem is paused on every poll group before its  *)
(* namespaces or listeners change and resumed afterwards, while the host   *)
(* sends commands and disconnects, bdevs are removed, and the subsystem is *)
(* deleted.                                                                *)
(*                                                                         *)
(* Poll groups are numbered in the order spdk_for_each_channel visits      *)
(* them; each has a thread.  RPCs and the subsystem live on another, the   *)
(* application thread.  app holds its messages, handled in order; those to *)
(* a group's thread are handled in any order.                              *)
(*                                                                         *)
(* Assertions are compiled out.  Where the code goes on with freed memory, *)
(* fault says which and the model stops:                                   *)
(*   late        something outlived the subsystem                          *)
(*   unquiesced  a namespace's bdev was closed with I/O outstanding on it  *)
(***************************************************************************)
EXTENDS Integers, FiniteSets, Sequences

CONSTANTS
  G,       \* number of poll groups
  MaxNsid, \* max_nsid of the subsystem
  Qpairs,  \* the queue pairs of the host
  Admin,   \* the admin queue pair
  QGroup,  \* the poll group of each
  Cmds,    \* commands the host may have at the target
  MaxOps   \* bound on RPCs and events of bdevs

ASSUME SizesAssumption == G \in Nat \ {0} /\ MaxNsid \in Nat /\ MaxOps \in Nat
ASSUME QpairsAssumption == Admin \in Qpairs /\ QGroup \in [Qpairs -> 1..G]
ASSUME CmdsAssumption == IsFiniteSet(Cmds)

VARIABLES
  sub,       \* the subsystem
  iter,      \* the state change under way on the poll groups, and what asked for it
  app,       \* messages to the application thread
  sg,        \* the subsystem's part of each poll group
  qp,        \* queue pairs
  ctrlr,     \* the controller
  cmd,       \* commands
  listening, \* listener operations under way on the paused subsystem
  ops,       \* RPCs and events so far
  fault

vars == <<sub, iter, app, sg, qp, ctrlr, cmd, listening, ops, fault>>

Groups == 1..G
Nsids == 1..MaxNsid

-----------------------------------------------------------------------------
(* Types.                                                                  *)

States == {"inactive", "activating", "active", "pausing", "paused", "resuming", "deactivating"}

(* ns: open namespaces.  removed: those whose bdev's removal was reported. *)
Subsystem == [state : States, changing : BOOLEAN, ns : SUBSET Nsids, removed : SUBSET Nsids,
              life : {"alive", "destroying", "freed"}]

(* What asked for a state change: an RPC or an event with its namespace (0 *)
(* for any); or, of a resume, that the namespace was added.                *)
Op == [kind : {"stop", "add", "remove", "hot", "resize", "listen", "added", "none"}, ns : 0..MaxNsid]

(* subsystem_state_change_ctx.  at: 0 for none, a group, or G + 1 when the *)
(* completion's message is under way; bad: its status.                     *)
Change == [at : 0..G + 1, req : States, orig : States, nsid : 0..MaxNsid, op : Op,
           revert : BOOLEAN, bad : BOOLEAN]

Message == [fn : {"done", "destruct", "destroy"}] \cup [fn : {"change"}, op : Op]

(* mgmt, io: mgmt_io_outstanding and io_outstanding of each namespace.     *)
(* chan: namespaces with a channel.  cb: what the group's visit waits for. *)
Group == [state : {"inactive", "active", "pausing", "paused"}, mgmt : Nat, io : [Nsids -> Nat],
          nstate : [Nsids -> {"inactive", "active", "pausing"}], chan : SUBSET Nsids,
          cb : {"none", "pause", "remove"}]

QpairState == {"active", "draining", "leaving", "gone"}

(* mask: qpair_mask.                                                       *)
Ctrlr == [life : {"listed", "in_destruct", "unlisted"}, mask : SUBSET Qpairs]

(* An event request (aer) waits at the target for an event, uncounted.     *)
Cmd == [state : {"idle", "queued", "running", "aer"}, q : Qpairs,
        kind : {"admin", "aer", "io"}, ns : 0..MaxNsid]

None == [kind |-> "none", ns |-> 0]
Idle == [at |-> 0, req |-> "active", orig |-> "active", nsid |-> 0, op |-> None,
         revert |-> FALSE, bad |-> FALSE]
NoCmd == [state |-> "idle", q |-> Admin, kind |-> "admin", ns |-> 0]

(* The subsystem is active and the host has connected its queue pairs.     *)
Init ==
  /\ \E N \in SUBSET Nsids :
       /\ sub = [state |-> "active", changing |-> FALSE, ns |-> N, removed |-> {}, life |-> "alive"]
       /\ sg = [g \in Groups |-> [state |-> "active", mgmt |-> 0, io |-> [n \in Nsids |-> 0],
                                  nstate |-> [n \in Nsids |-> "active"], chan |-> N,
                                  cb |-> "none"]]
  /\ iter = Idle
  /\ app = <<>>
  /\ qp = [q \in Qpairs |-> "active"]
  /\ ctrlr = [life |-> "listed", mask |-> Qpairs]
  /\ cmd = [r \in Cmds |-> NoCmd]
  /\ listening = 0
  /\ ops = 0
  /\ fault = "none"

-----------------------------------------------------------------------------
(* State changes.                                                          *)

(* nvmf_subsystem_get_intermediate_state.                                  *)
Intermediate(current, req) ==
  CASE req = "inactive" -> "deactivating"
    [] req = "active" -> IF current = "paused" THEN "resuming" ELSE "activating"
    [] req = "paused" -> "pausing"

(* nvmf_subsystem_set_state: the states each intermediate state may follow. *)
Before(state) ==
  CASE state = "activating" -> {"inactive"}
    [] state = "pausing" -> {"active", "resuming"}
    [] state = "resuming" -> {"paused"}
    [] state = "deactivating" -> {"active", "activating", "paused"}

(* nvmf_subsystem_state_change on the subsystem s, when it is not changing *)
(* and not yet in the state asked for.                                     *)
MayChange(s, req) == s.state \in Before(Intermediate(s.state, req))
StartsChange(s, req, nsid, op) ==
  /\ sub' = [s EXCEPT !.state = Intermediate(s.state, req), !.changing = TRUE]
  /\ iter' = [at |-> 1, req |-> req, orig |-> s.state, nsid |-> nsid, op |-> op,
              revert |-> FALSE, bad |-> FALSE]

(* spdk_nvmf_subsystem_resume by one that can do nothing if it is refused. *)
Resumes(s, op) ==
  IF ~s.changing /\ s.state # "active" /\ MayChange(s, "active")
  THEN StartsChange(s, "active", 0, op)
  ELSE sub' = s /\ iter' = IF s.changing THEN iter ELSE Idle

(* spdk_for_each_channel_continue: a failure ends the visits.              *)
Continues(bad) ==
  IF bad \/ iter.at = G
  THEN /\ iter' = [iter EXCEPT !.at = G + 1, !.bad = bad]
       /\ app' = Append(app, [fn |-> "done"])
  ELSE iter' = [iter EXCEPT !.at = @ + 1] /\ UNCHANGED app

(* spdk_nvmf_subsystem_remove_ns.                                          *)
Closes(s, n) == [s EXCEPT !.ns = @ \ {n}, !.removed = @ \ {n}]

(* The callback of a pause: s is the paused subsystem.  A namespace may    *)
(* fail to be added; a listener operation may take time.                   *)
Paused(s, op) ==
  \/ /\ op.kind = "add" /\ UNCHANGED listening
     /\ \/ \E n \in Nsids \ s.ns :
             /\ IF op.ns # 0 THEN n = op.ns ELSE \A m \in Nsids \ s.ns : n <= m
             /\ Resumes([s EXCEPT !.ns = @ \cup {n}], [kind |-> "added", ns |-> n])
        \/ Resumes(s, None)
  \/ op.kind \in {"remove", "hot"} /\ Resumes(Closes(s, op.ns), None) /\ UNCHANGED listening
  \/ op.kind \in {"resize", "listen"} /\ Resumes(s, None) /\ UNCHANGED listening
  \/ op.kind = "listen" /\ sub' = s /\ iter' = Idle /\ listening' = listening + 1

(* spdk_nvmf_subsystem_pause for op, when no change is under way.          *)
Pauses(op, nsid, s) ==
  \/ s.state = "paused" /\ Paused(s, op)
  \/ /\ s.state # "paused" /\ MayChange(s, "paused")
     /\ StartsChange(s, "paused", nsid, op) /\ UNCHANGED listening
  \/ /\ s.state # "paused" /\ ~MayChange(s, "paused")
     /\ sub' = s /\ UNCHANGED <<iter, listening>>

-----------------------------------------------------------------------------
(* RPCs and events of bdevs, on the application thread.                    *)

Works == fault = "none"
Late == fault' = "late" /\ UNCHANGED <<sub, iter, app, sg, qp, ctrlr, cmd, listening, ops>>
(* spdk_bdev_close of the namespaces that are closed: what the bdev layer  *)
(* makes of I/O outstanding on their descriptors is not modelled.          *)
Checked ==
  fault' = IF \E r \in Cmds : cmd[r].state = "running" /\ cmd[r].kind = "io"
                              /\ cmd[r].ns \in sub.ns \ sub'.ns
           THEN "unquiesced" ELSE "none"
Counts == ops < MaxOps /\ ops' = ops + 1
DataUnchanged == UNCHANGED <<sg, qp, ctrlr, cmd>>

(* nvmf_subsystem_add_ns, _remove_ns and the RPCs about listeners; they    *)
(* are refused while the state changes.                                    *)
Rpc ==
  /\ Works /\ Counts /\ sub.life # "freed" /\ ~sub.changing
  /\ \E op \in [kind : {"add"}, ns : 0..MaxNsid] \cup [kind : {"remove"}, ns : Nsids]
               \cup [kind : {"listen"}, ns : {0}] : Pauses(op, op.ns, sub)
  /\ Checked /\ DataUnchanged /\ UNCHANGED app

(* nvmf_ns_hot_remove and nvmf_ns_resize: while the state changes they try *)
(* again with a message.                                                   *)
Event(op, nsid, s) ==
  /\ IF s.changing
     THEN /\ app' = Append(app, [fn |-> "change", op |-> op])
          /\ sub' = s /\ UNCHANGED <<iter, listening>>
     ELSE Pauses(op, nsid, s) /\ UNCHANGED app
  /\ Checked /\ DataUnchanged

HotRemove(n) ==
  /\ Works /\ Counts /\ n \in sub.ns \ sub.removed
  /\ Event([kind |-> "hot", ns |-> n], n, [sub EXCEPT !.removed = @ \cup {n}])

Resize(n) ==
  /\ Works /\ Counts /\ n \in sub.ns
  /\ Event([kind |-> "resize", ns |-> n], 0, sub)

(* rpc_nvmf_delete_subsystem.                                              *)
Delete ==
  /\ Works /\ sub.life = "alive" /\ ~sub.changing /\ MayChange(sub, "inactive")
  /\ StartsChange(sub, "inactive", 0, [kind |-> "stop", ns |-> 0])
  /\ DataUnchanged /\ UNCHANGED <<app, listening, ops, fault>>

(* The operation on a listener ends: the RPC resumes the subsystem.        *)
ListenerDone ==
  /\ Works /\ listening > 0
  /\ IF sub.life = "freed" THEN Late
     ELSE /\ listening' = listening - 1
          /\ Resumes(sub, None)
          /\ DataUnchanged /\ UNCHANGED <<app, ops, fault>>

-----------------------------------------------------------------------------
(* Messages of the application thread.                                     *)

Receives(fn) == Works /\ app # <<>> /\ Head(app).fn = fn

(* Mutant of Destroys: a controller being destructed is not waited for. *)
DestroysEarly(s, queue) ==
  IF ctrlr.life = "listed"
  THEN sub' = [s EXCEPT !.life = "destroying"] /\ app' = Append(queue, [fn |-> "destroy"])
  ELSE sub' = [s EXCEPT !.life = "freed", !.ns = {}, !.removed = {}] /\ app' = queue

(* _nvmf_subsystem_destroy, which waits for the controllers.               *)
Destroys(s, queue) ==
  IF ctrlr.life # "unlisted"
  THEN sub' = [s EXCEPT !.life = "destroying"] /\ app' = Append(queue, [fn |-> "destroy"])
  ELSE sub' = [s EXCEPT !.life = "freed", !.ns = {}, !.removed = {}] /\ app' = queue

(* The operation that asked for the change is told; s has its new state.   *)
Ends(s, op, queue) ==
  \/ op.kind = "stop" /\ Destroys(s, queue) /\ iter' = Idle /\ UNCHANGED listening
  \/ /\ op.kind = "added" /\ iter.revert
     /\ Resumes(Closes(s, op.ns), None) /\ app' = queue /\ UNCHANGED listening
  \/ /\ op.kind = "none" \/ (op.kind = "added" /\ ~iter.revert)
     /\ sub' = s /\ iter' = Idle /\ app' = queue /\ UNCHANGED listening
  \/ op.kind \in {"add", "remove", "hot", "resize", "listen"} /\ Paused(s, op) /\ app' = queue

(* subsystem_state_change_done and _revert_done.                           *)
Done ==
  /\ Receives("done")
  /\ \/ sub.life = "freed" /\ Late
     \/ /\ sub.life # "freed" /\ (iter.revert \/ ~iter.bad)
        /\ Ends([sub EXCEPT !.state = iter.req, !.changing = FALSE], iter.op, Tail(app))
        /\ Checked /\ DataUnchanged /\ UNCHANGED ops
     \/ /\ sub.life # "freed" /\ ~iter.revert /\ iter.bad
        /\ sub' = [sub EXCEPT !.state = Intermediate(iter.req, iter.orig)]
        /\ iter' = [iter EXCEPT !.at = 1, !.req = iter.orig, !.revert = TRUE, !.bad = FALSE]
        /\ app' = Tail(app)
        /\ DataUnchanged /\ UNCHANGED <<listening, ops, fault>>

(* nvmf_ns_change_msg: a repeated resize pauses its namespace too.         *)
RetryChange ==
  /\ Receives("change")
  /\ LET op == Head(app).op
     IN  \/ sub.life = "freed" /\ Late
         \/ /\ sub.life # "freed" /\ sub.changing
            /\ app' = Append(Tail(app), Head(app))
            /\ DataUnchanged /\ UNCHANGED <<sub, iter, listening, ops, fault>>
         \/ /\ sub.life # "freed" /\ ~sub.changing
            /\ app' = Tail(app) /\ Pauses(op, op.ns, sub)
            /\ Checked /\ DataUnchanged /\ UNCHANGED ops

(* nvmf_ctrlr_destruct.                                                    *)
Destructed ==
  /\ Receives("destruct")
  /\ app' = Tail(app)
  /\ ctrlr' = [ctrlr EXCEPT !.life = "unlisted"]
  /\ UNCHANGED <<sub, iter, sg, qp, cmd, listening, ops, fault>>

(* _nvmf_subsystem_destroy_msg.                                            *)
DestroyRetry ==
  /\ Receives("destroy")
  /\ Destroys(sub, Tail(app))
  /\ DataUnchanged /\ UNCHANGED <<iter, listening, ops, fault>>

-----------------------------------------------------------------------------
(* Queue pairs, on the threads of their groups.                            *)

Alive(q) == qp[q] \in {"active", "draining"}
InGroup(g) == {q \in Qpairs : QGroup[q] = g /\ Alive(q)}

(* _nvmf_qpair_destroy of those of the draining queue pairs with nothing   *)
(* outstanding left; their queued commands are freed.  p and c are the     *)
(* queue pairs and commands so far.                                        *)
Drains(p, c) ==
  LET ends == {q \in Qpairs : p[q] = "draining"
                               /\ ~\E r \in Cmds : c[r].q = q /\ c[r].state \in {"running", "aer"}}
  IN  /\ qp' = [q \in Qpairs |-> IF q \in ends THEN "leaving" ELSE p[q]]
      /\ cmd' = [r \in Cmds |-> IF c[r].q \in ends THEN NoCmd ELSE c[r]]

(* spdk_nvmf_qpair_disconnect of the active queue pairs of Q: the event    *)
(* requests are freed, the running commands are waited for.                *)
Disconnects(Q) ==
  Drains([q \in Qpairs |-> IF q \in Q /\ qp[q] = "active" THEN "draining" ELSE qp[q]],
         [r \in Cmds |-> IF cmd[r].q \in Q /\ cmd[r].state = "aer" THEN NoCmd ELSE cmd[r]])

(* The host or a timer breaks a connection.                                *)
Disconnect(q) ==
  /\ Works /\ qp[q] = "active"
  /\ Disconnects({q})
  /\ UNCHANGED <<sub, iter, app, sg, ctrlr, listening, ops, fault>>

(* _nvmf_ctrlr_free_from_qpair, on the controller's thread.                *)
FreeFrom(q) ==
  /\ Works /\ qp[q] = "leaving"
  /\ qp' = [qp EXCEPT ![q] = "gone"]
  /\ IF ctrlr.mask = {q}
     THEN /\ ctrlr' = [life |-> "in_destruct", mask |-> {}]
          /\ app' = Append(app, [fn |-> "destruct"])
     ELSE ctrlr' = [ctrlr EXCEPT !.mask = @ \ {q}] /\ UNCHANGED app
  /\ UNCHANGED <<sub, iter, sg, cmd, listening, ops, fault>>

-----------------------------------------------------------------------------
(* Commands, on the threads of their groups.                               *)

(* What becomes of a command that is executed on its group's part s, once  *)
(* that is active for it; an I/O to no namespace is answered at once, and  *)
(* so is everything on a queue pair that is draining.                      *)
Executed(c, s) ==
  IF qp[c.q] # "active" \/ (c.kind = "io" /\ c.ns \notin s.chan \cap sub.ns) THEN NoCmd
  ELSE [c EXCEPT !.state = IF c.kind = "aer" THEN "aer" ELSE "running"]

(* Mutants of Counted: admin commands, or event requests, are not told apart. *)
CountedIoOnly(C, c, s) ==
  [s EXCEPT !.io = [n \in Nsids |-> @[n] + Cardinality({r \in C : c[r].state = "running"
                                                           /\ c[r].kind = "io" /\ c[r].ns = n})]]
CountedWithEvents(C, c, s) ==
  [CountedIoOnly(C, c, s) EXCEPT
     !.mgmt = @ + Cardinality({r \in C : c[r].state \in {"running", "aer"}
                                          /\ c[r].kind \in {"admin", "aer"}})]

(* What is counted for the commands C, which become c: those that run, and *)
(* an event request that a draining queue pair answers at once.            *)
Counted(C, c, s) ==
  [s EXCEPT !.mgmt = @ + Cardinality({r \in C : \/ c[r].state = "running" /\ c[r].kind = "admin"
                                                \/ cmd[r].kind = "aer" /\ c[r] = NoCmd}),
            !.io = [n \in Nsids |-> @[n] + Cardinality({r \in C : c[r].state = "running"
                                                           /\ c[r].kind = "io" /\ c[r].ns = n})]]

(* nvmf_check_subsystem_active: whether a command waits on its group.      *)
Waits(c, s) == IF c.kind = "io" THEN s.nstate[c.ns] # "active" ELSE s.state # "active"

(* spdk_nvmf_request_exec of a new command; one that is answered at once   *)
(* leaves nothing behind.                                                  *)
Submit(r) ==
  /\ Works /\ cmd[r] = NoCmd
  /\ \E c \in [state : {"queued"}, q : {Admin}, kind : {"admin", "aer"}, ns : {0}]
              \cup [state : {"queued"}, q : Qpairs \ {Admin}, kind : {"io"}, ns : Nsids] :
       LET g == QGroup[c.q] s == sg[g]
       IN  /\ qp[c.q] = "active"
           /\ c.kind = "io" => c.ns \in s.chan
           /\ cmd' = [cmd EXCEPT ![r] = IF Waits(c, s) THEN c ELSE Executed(c, s)]
           /\ cmd'[r] # NoCmd
           /\ sg' = [sg EXCEPT ![g] = Counted({r}, cmd', s)]
  /\ UNCHANGED <<sub, iter, app, qp, ctrlr, listening, ops, fault>>

(* Mutant of PauseEnds: the I/O of the namespace is not waited for. *)
PauseEndsEarly(s) == s.state = "pausing" /\ s.mgmt = 0

(* The end of _nvmf_request_complete on a group whose counts became s:     *)
(* the last command a pause waits for ends the group's visit.              *)
PauseEnds(s) ==
  s.state = "pausing" /\ s.mgmt = 0 /\ \A n \in Nsids : s.nstate[n] = "pausing" => s.io[n] = 0
Settles(g, s) ==
  IF PauseEnds(s)
  THEN sg' = [sg EXCEPT ![g] = [s EXCEPT !.state = "paused", !.cb = "none"]] /\ Continues(FALSE)
  ELSE sg' = [sg EXCEPT ![g] = s] /\ UNCHANGED <<iter, app>>

(* _nvmf_request_complete of a command that ran.                           *)
Complete(r) ==
  /\ Works /\ cmd[r].state = "running"
  /\ LET g == QGroup[cmd[r].q]
     IN  Settles(g, IF cmd[r].kind = "io" THEN [sg[g] EXCEPT !.io[cmd[r].ns] = @ - 1]
                    ELSE [sg[g] EXCEPT !.mgmt = @ - 1])
  /\ Drains(qp, [cmd EXCEPT ![r] = NoCmd])
  /\ UNCHANGED <<sub, ctrlr, listening, ops, fault>>

(* nvmf_ctrlr_async_event_notification: an event answers its request.      *)
AerCompletes(r) ==
  /\ Works /\ cmd[r].state = "aer"
  /\ Drains(qp, [cmd EXCEPT ![r] = NoCmd])
  /\ UNCHANGED <<sub, iter, app, sg, ctrlr, listening, ops, fault>>

-----------------------------------------------------------------------------
(* subsystem_state_change_on_pg, on the thread of the group g.             *)

(* poll_group_update_subsystem: the channels follow the namespaces, up to  *)
(* the first one, k, whose channel cannot be made; counts of a namespace   *)
(* that is gone are forgotten.                                             *)
Updated(s, k) ==
  LET gone == {n \in Nsids : n < k /\ n \notin sub.ns}
  IN  [s EXCEPT !.chan = {n \in Nsids : IF n < k THEN n \in sub.ns ELSE n \in @},
                !.io = [n \in Nsids |-> IF n \in gone THEN 0 ELSE @[n]],
                !.nstate = [n \in Nsids |-> IF n \in gone THEN "inactive" ELSE @[n]]]
UpdateEnds(s) == (sub.ns \ s.chan) \cup {MaxNsid + 1}
(* Mutant of Activated: the namespaces keep the state of the pause. *)
ActivatedAlone(s) == [s EXCEPT !.state = "active"]
Activated(s) == [s EXCEPT !.state = "active", !.nstate = [n \in Nsids |-> "active"]]

(* nvmf_poll_group_resume_subsystem: queued commands are executed.         *)
Resume(g) ==
  IF sg[g].state = "active"
  THEN Continues(FALSE) /\ UNCHANGED <<sg, qp, cmd>>
  ELSE \E k \in UpdateEnds(sg[g]) :
         /\ Continues(k <= MaxNsid)
         /\ IF k <= MaxNsid
            THEN sg' = [sg EXCEPT ![g] = Updated(@, k)] /\ UNCHANGED <<qp, cmd>>
            ELSE LET s == Activated(Updated(sg[g], k))
                     queued == {r \in Cmds : cmd[r].state = "queued" /\ QGroup[cmd[r].q] = g}
                 IN  /\ cmd' = [r \in Cmds |-> IF r \in queued THEN Executed(cmd[r], s) ELSE cmd[r]]
                     /\ sg' = [sg EXCEPT ![g] = Counted(queued, cmd', s)]
                     /\ UNCHANGED qp

(* nvmf_poll_group_pause_subsystem.                                        *)
Pause(g) ==
  LET s == [sg[g] EXCEPT !.state = "pausing",
                         !.nstate = [n \in Nsids |-> IF n = iter.nsid THEN "pausing" ELSE @[n]]]
  IN  /\ IF sg[g].state = "paused" THEN Continues(FALSE) /\ UNCHANGED sg
         ELSE IF s.mgmt > 0 \/ (iter.nsid # 0 /\ s.io[iter.nsid] > 0)
         THEN sg' = [sg EXCEPT ![g] = [s EXCEPT !.cb = "pause"]] /\ UNCHANGED <<iter, app>>
         ELSE sg' = [sg EXCEPT ![g] = [s EXCEPT !.state = "paused"]] /\ Continues(FALSE)
      /\ UNCHANGED <<qp, cmd>>

(* nvmf_poll_group_remove_subsystem_msg: when the last queue pair of the   *)
(* group is gone the channels are put.                                     *)
Removes(g, s) ==
  IF InGroup(g) = {}
  THEN /\ sg' = [sg EXCEPT ![g] = [s EXCEPT !.chan = {}, !.cb = "none"]]
       /\ Continues(FALSE) /\ UNCHANGED <<qp, cmd>>
  ELSE /\ sg' = [sg EXCEPT ![g] = [s EXCEPT !.cb = "remove"]]
       /\ Disconnects(InGroup(g)) /\ UNCHANGED <<iter, app>>
Inactivated(s) == [s EXCEPT !.state = "inactive", !.nstate = [n \in Nsids |-> "inactive"]]

(* nvmf_poll_group_add_subsystem.                                          *)
Add(g) ==
  \E k \in UpdateEnds(sg[g]) :
    /\ sg' = [sg EXCEPT ![g] = IF k > MaxNsid THEN Activated(Updated(@, k))
                               ELSE [Inactivated(@) EXCEPT !.chan = {}]]
    /\ Continues(k <= MaxNsid) /\ UNCHANGED <<qp, cmd>>

Visit(g) ==
  /\ Works /\ iter.at = g /\ sg[g].cb = "none"
  /\ IF sub.life = "freed" THEN Late
     ELSE /\ \/ iter.req = "inactive" /\ Removes(g, Inactivated(sg[g]))
             \/ iter.req = "active" /\ sub.state = "activating" /\ Add(g)
             \/ iter.req = "active" /\ sub.state = "resuming" /\ Resume(g)
             \/ iter.req = "paused" /\ Pause(g)
          /\ UNCHANGED <<sub, ctrlr, listening, ops, fault>>

RemovePoll(g) ==
  /\ Works /\ sg[g].cb = "remove"
  /\ Removes(g, sg[g])
  /\ UNCHANGED <<sub, ctrlr, listening, ops, fault>>

-----------------------------------------------------------------------------
AppStep == Done \/ RetryChange \/ Destructed \/ DestroyRetry

Next ==
  \/ Rpc \/ Delete \/ ListenerDone \/ AppStep
  \/ \E n \in Nsids : HotRemove(n) \/ Resize(n)
  \/ \E q \in Qpairs : Disconnect(q) \/ FreeFrom(q)
  \/ \E r \in Cmds : Submit(r) \/ Complete(r) \/ AerCompletes(r)
  \/ \E g \in Groups : Visit(g) \/ RemovePoll(g)

Spec == Init /\ [][Next]_vars

(* Threads handle their messages and run their pollers, bdevs answer and   *)
(* transports finish.  Nothing is fair about the host, RPCs and events.    *)
FairSpec ==
  /\ Spec
  /\ WF_vars(AppStep)
  /\ WF_vars(ListenerDone)
  /\ \A q \in Qpairs : WF_vars(FreeFrom(q))
  /\ \A r \in Cmds : WF_vars(Complete(r))
  /\ \A g \in Groups : WF_vars(Visit(g)) /\ WF_vars(RemovePoll(g))

-----------------------------------------------------------------------------
(* Properties.                                                             *)

(* The variables have their types: no command is counted on a poll group   *)
(* that does not serve its queue pair, no queue pair destroyed twice.      *)
TypeOK ==
  /\ sub \in Subsystem /\ iter \in Change /\ app \in Seq(Message)
  /\ sg \in [Groups -> Group]
  /\ qp \in [Qpairs -> QpairState]
  /\ ctrlr \in Ctrlr
  /\ cmd \in [Cmds -> Cmd]
  /\ listening \in Nat /\ ops \in 0..MaxOps /\ fault \in {"none", "late", "unquiesced"}

(* Once every poll group has paused the subsystem, no admin command runs   *)
(* at any of them, and no I/O on the namespace the pause was asked for:    *)
(* what an RPC or an event then changes nobody is using.                   *)
PausedIsQuiet ==
  /\ sub.state = "paused" \/ (iter.at = G + 1 /\ iter.req = "paused") =>
       \A r \in Cmds : cmd[r].state = "running" => cmd[r].kind = "io"
  /\ iter.at = G + 1 /\ iter.req = "paused" =>
       \A r \in Cmds : cmd[r].state = "running" => cmd[r].ns # iter.nsid

(* A queued command is on a poll group that is not active, so that the     *)
(* next resume or removal of the subsystem takes it from the queue.        *)
NoneStranded ==
  \A r \in Cmds : cmd[r].state = "queued" =>
    Alive(cmd[r].q) /\ sg[QGroup[cmd[r].q]].state # "active"

(* When the subsystem is freed nothing uses it: no channel, queue pair,    *)
(* controller or command is left, and no state change is under way, unless *)
(* the end of a listener operation activated it again while it waited for  *)
(* its controllers.                                                        *)
FreedIsUnused ==
  sub.life = "freed" /\ sub.state = "inactive" =>
    /\ iter = Idle /\ ctrlr.life = "unlisted"
    /\ \A g \in Groups : sg[g].chan = {} /\ sg[g].cb = "none"
    /\ \A q \in Qpairs : qp[q] = "gone"
    /\ \A r \in Cmds : cmd[r] = NoCmd

(* Every change of state ends, and a deletion frees the subsystem: the     *)
(* pause is not kept waiting by event requests or by what it queues, and a *)
(* subsystem whose resumption failed can still be deleted.                 *)
ChangesEnd ==
  /\ sub.changing ~> (~sub.changing \/ fault # "none")
  /\ sub.life = "destroying" ~> (sub.life = "freed" \/ fault # "none")

=============================================================================
