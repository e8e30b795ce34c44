-------------------------- MODULE NvmfSubsystemProofs --------------------------
(***************************************************************************)
(* Proofs about NvmfSubsystem for any number of poll groups, namespaces,   *)
(* queue pairs and commands.  Inv is inductive.  That a paused subsystem   *)
(* is quiet needs the counts of a poll group to be at least the commands   *)
(* that run on it; that needs no command to run on a closed namespace,     *)
(* whose counts are forgotten; and that each group a change has visited be *)
(* in the state asked for, which needs one message at most to end it.      *)
(***************************************************************************)
EXTENDS NvmfSubsystem, FiniteSetTheorems, SequenceTheorems, TLAPS

Steady == {"inactive", "active", "paused"}

(* The state change under way, and the state of the subsystem it goes with. *)
ChangeOK ==
  /\ ~sub.changing => iter = Idle /\ sub.state \in Steady
  /\ sub.changing =>
       /\ iter.at # 0
       /\ \/ sub.state = "pausing" /\ iter.req = "paused"
          \/ sub.state = "deactivating" /\ iter.req = "inactive"
          \/ sub.state = "activating" /\ iter.req = "active" /\ iter.orig = "inactive" /\ ~iter.revert
          \/ sub.state = "resuming" /\ iter.req = "active" /\ iter.orig = "paused" /\ ~iter.revert
  /\ iter.bad => iter.at = G + 1 /\ iter.req = "active"
  /\ iter.nsid # 0 => iter.req = "paused"

(* What a group is left in by a change to the state st.                    *)
Settled(g, st) ==
  /\ sg[g].state = st
  /\ st = "inactive" => sg[g].chan = {} /\ InGroup(g) = {}

Target == IF sub.changing THEN iter.req ELSE sub.state
Reached(g) == ~sub.changing \/ (g < iter.at /\ ~iter.bad)

(* One poll group: what its own fields say of each other, and how far the  *)
(* change has come on it.                                                  *)
FieldsOK(g) ==
  /\ sg[g].state = "active" => \A n \in Nsids : sg[g].nstate[n] = "active"
  /\ sg[g].state = "paused" => sg[g].mgmt = 0
  /\ sg[g].cb = "pause" <=> sg[g].state = "pausing"

Quiesced(g, n) == sg[g].nstate[n] = "pausing" /\ sg[g].io[n] = 0

VisitOK(g) ==
  /\ sg[g].cb # "none" => iter.at = g
  /\ sg[g].cb = "pause" => /\ iter.req = "paused"
                           /\ iter.nsid # 0 => sg[g].nstate[iter.nsid] = "pausing"
  /\ sg[g].cb = "remove" => iter.req = "inactive" /\ sg[g].state = "inactive"
  /\ Reached(g) => Settled(g, Target)
  /\ Reached(g) /\ iter.nsid # 0 => Quiesced(g, iter.nsid)
  /\ ~Reached(g) /\ iter.nsid # 0 => sg[g].state # "paused"
  /\ sub.state = "activating" => InGroup(g) = {}

GroupsOK == \A g \in Groups : FieldsOK(g) /\ VisitOK(g)

(* At most one message ends the change, when all groups were visited; the  *)
(* controller is destructed only when its queue pairs are gone.            *)
EndsOnce(queue, at) ==
  /\ \A j \in 1..Len(queue) : queue[j].fn = "done" => at = G + 1
  /\ \A j, k \in 1..Len(queue) : queue[j].fn = "done" /\ queue[k].fn = "done" => j = k
  /\ \A j \in 1..Len(queue) : queue[j].fn = "destruct" => ctrlr.mask = {}

MessagesOK == EndsOnce(app, iter.at)

CommandOK(r) ==
  /\ cmd[r].state = "idle" => cmd[r] = NoCmd
  /\ cmd[r].state # "idle" => Alive(cmd[r].q)
  /\ cmd[r].state = "queued" => sg[QGroup[cmd[r].q]].state # "active"
  /\ cmd[r].kind = "io" => cmd[r].ns \in Nsids
  /\ cmd[r].state = "running" => cmd[r].kind # "aer"
  /\ fault = "none" /\ cmd[r].state = "running" /\ cmd[r].kind = "io" => cmd[r].ns \in sub.ns

CommandsOK == \A r \in Cmds : CommandOK(r)

(* The commands that run on a group, and what it counts.                   *)
AdminsOf(c, g) == {r \in Cmds : c[r].state = "running" /\ c[r].kind = "admin" /\ QGroup[c[r].q] = g}
IosOf(c, g, n) == {r \in Cmds : c[r].state = "running" /\ c[r].kind = "io" /\ c[r].ns = n
                                /\ QGroup[c[r].q] = g}

CountsOK ==
  \A g \in Groups : /\ Cardinality(AdminsOf(cmd, g)) <= sg[g].mgmt
                    /\ \A n \in Nsids : sg[g].io[n] = Cardinality(IosOf(cmd, g, n))

LifeOK ==
  /\ ctrlr.mask = {q \in Qpairs : qp[q] # "gone"}
  /\ ctrlr.life # "listed" => ctrlr.mask = {}
  /\ sub.life = "freed" => ctrlr.life = "unlisted"

Inv == TypeOK /\ ChangeOK /\ GroupsOK /\ MessagesOK /\ CommandsOK /\ CountsOK /\ LifeOK


USE SizesAssumption, QpairsAssumption
USE DEF Groups, Nsids

-----------------------------------------------------------------------------
(* The subsystem and its state changes.                                    *)

(* A subsystem s that is not changing, all groups being in its state.      *)
Calm(s) ==
  /\ s \in Subsystem /\ ~s.changing /\ s.state \in Steady
  /\ \A g \in Groups : FieldsOK(g) /\ sg[g].cb = "none" /\ Settled(g, s.state)

(* What is to be shown of a step of the application thread that goes on    *)
(* with the subsystem s.                                                   *)
SubGood(s) ==
  /\ sub' \in Subsystem /\ iter' \in Change /\ listening' \in Nat
  /\ ChangeOK' /\ GroupsOK'
  /\ iter' = Idle \/ iter'.at = 1
  /\ sub'.life = s.life

(* Idle is a change, and no request is one that was asked for.             *)
LEMMA IdleType == Idle \in Change /\ None \in Op /\ Idle.at = 0 /\ Idle.nsid = 0 /\ ~Idle.bad
BY DEF Idle, None, Change, Op, States

(* nvmf_subsystem_state_change begins a change well.                       *)
LEMMA StartGood ==
  ASSUME TypeOK, NEW s, Calm(s), NEW req \in Steady, NEW nsid \in 0 .. MaxNsid, NEW op \in Op,
         nsid # 0 => req = "paused", MayChange(s, req), s.state # req,
         StartsChange(s, req, nsid, op), UNCHANGED <<sg, qp>>, listening' \in Nat
  PROVE  SubGood(s)
<1>1. /\ s.state = "inactive" => req = "active"
      /\ Intermediate(s.state, req) \in States
      /\ req = "paused" => s.state = "active" /\ Intermediate(s.state, req) = "pausing"
      /\ req = "inactive" => Intermediate(s.state, req) = "deactivating"
      /\ req = "active" => \/ s.state = "paused" /\ Intermediate(s.state, req) = "resuming"
                           \/ s.state = "inactive" /\ Intermediate(s.state, req) = "activating"
  BY DEF Calm, MayChange, Before, Intermediate, Steady, States
<1>2. /\ sub' \in Subsystem /\ sub'.changing /\ sub'.life = s.life
      /\ sub'.state = Intermediate(s.state, req)
  BY <1>1 DEF StartsChange, Subsystem, Calm
<1>3. /\ iter' \in Change /\ iter'.at = 1 /\ iter'.req = req /\ iter'.orig = s.state
      /\ iter'.nsid = nsid /\ iter'.revert = FALSE /\ iter'.bad = FALSE
  BY DEF StartsChange, Change, Calm, Steady, States, Subsystem
<1>4. ChangeOK'
  BY <1>1, <1>2, <1>3 DEF ChangeOK, Steady
<1>5. ASSUME NEW g \in Groups PROVE FieldsOK(g)' /\ VisitOK(g)'
  <2>1. FieldsOK(g)'
    BY DEF Calm, FieldsOK
  <2>2. sg'[g].cb = "none" /\ sg'[g].state = s.state
    BY DEF Calm, Settled
  <2>3. ~Reached(g)'
    BY <1>2, <1>3 DEF Reached
  <2>4. sub'.state = "activating" => InGroup(g)' = {}
    BY <1>1, <1>2 DEF Calm, Settled, InGroup, Alive, Steady
  <2>5. iter'.nsid # 0 => sg'[g].state # "paused"
    BY <1>1, <1>3, <2>2
  <2> QED BY <2>1, <2>2, <2>3, <2>4, <2>5 DEF VisitOK
<1> QED BY <1>2, <1>3, <1>4, <1>5 DEF SubGood, GroupsOK

(* A subsystem may be left as it is.                                       *)
LEMMA StayGood ==
  ASSUME TypeOK, NEW s, Calm(s), sub' = s, iter' = Idle, UNCHANGED <<sg, qp>>, listening' \in Nat
  PROVE  SubGood(s)
<1>1. iter' \in Change /\ iter'.at = 0 /\ iter'.nsid = 0 /\ ~iter'.bad
  BY IdleType
<1>2. ChangeOK'
  BY <1>1 DEF ChangeOK, Calm
<1>3. ASSUME NEW g \in Groups PROVE FieldsOK(g)' /\ VisitOK(g)'
  <2>1. FieldsOK(g)' /\ sg'[g].cb = "none" /\ Settled(g, s.state)'
    <3>1. InGroup(g)' = InGroup(g) /\ sg' = sg
      BY DEF InGroup, Alive
    <3> QED BY <3>1 DEF Calm, FieldsOK, Settled
  <2>2. Target' = s.state /\ sub'.state # "activating"
    BY DEF Target, Calm, Steady
  <2>3. Settled(g, Target)'
    BY <2>1, <2>2 DEF Settled
  <2> QED BY <1>1, <2>1, <2>2, <2>3 DEF VisitOK
<1> QED BY <1>1, <1>2, <1>3 DEF SubGood, GroupsOK, Calm

(* spdk_nvmf_subsystem_resume.                                             *)
LEMMA ResumesGood ==
  ASSUME TypeOK, NEW s, Calm(s), NEW op \in Op, Resumes(s, op), UNCHANGED <<sg, qp>>,
         listening' \in Nat
  PROVE  SubGood(s)
<1>1. CASE s.state # "active" /\ MayChange(s, "active")
  <2>1. StartsChange(s, "active", 0, op)
    BY <1>1 DEF Resumes, Calm
  <2>2. "active" \in Steady /\ 0 \in 0 .. MaxNsid
    BY DEF Steady
  <2> QED BY <1>1, <2>1, <2>2, StartGood
<1>2. CASE ~(s.state # "active" /\ MayChange(s, "active"))
  <2>1. sub' = s /\ iter' = Idle
    BY <1>2 DEF Resumes, Calm
  <2> QED BY <2>1, StayGood
<1> QED BY <1>1, <1>2

(* Namespaces are added to a calm subsystem, and taken from it.            *)
LEMMA CalmNamespaces ==
  ASSUME NEW s, Calm(s), NEW N \in SUBSET Nsids, NEW R \in SUBSET Nsids
  PROVE  LET t == [s EXCEPT !.ns = N, !.removed = R] IN Calm(t) /\ t.life = s.life
<1> DEFINE t == [s EXCEPT !.ns = N, !.removed = R]
<1>1. t \in Subsystem /\ t.state = s.state /\ t.changing = s.changing /\ t.life = s.life
  BY DEF Calm, Subsystem
<1> HIDE DEF t
<1>2. Calm(t) /\ t.life = s.life
  BY <1>1 DEF Calm
<1> QED BY <1>2 DEF t

(* spdk_nvmf_subsystem_remove_ns keeps a subsystem calm.                   *)
LEMMA ClosesCalm ==
  ASSUME NEW s, Calm(s), NEW n
  PROVE  Calm(Closes(s, n)) /\ Closes(s, n).life = s.life
<1> DEFINE N == s.ns \ {n}
           R == s.removed \ {n}
           t == [s EXCEPT !.ns = N, !.removed = R]
<1>1. N \in SUBSET Nsids /\ R \in SUBSET Nsids
  BY DEF Calm, Subsystem
<1>2. Closes(s, n) = t
  BY DEF Closes, Calm, Subsystem
<1> HIDE DEF N, R
<1>3. Calm(t) /\ t.life = s.life
  BY <1>1, CalmNamespaces
<1> QED BY <1>2, <1>3

(* The callback of a pause goes on well, whatever it was for.              *)
LEMMA PausedGood ==
  ASSUME TypeOK, NEW s, Calm(s), NEW op \in Op, Paused(s, op), UNCHANGED <<sg, qp>>
  PROVE  SubGood(s)
<1>1. listening' \in Nat
  BY DEF Paused, TypeOK
<1>2. None \in Op
  BY IdleType
<1>3. CASE \E n \in Nsids \ s.ns : Resumes([s EXCEPT !.ns = @ \cup {n}], [kind |-> "added", ns |-> n])
  <2>1. PICK n \in Nsids \ s.ns :
               Resumes([s EXCEPT !.ns = @ \cup {n}], [kind |-> "added", ns |-> n])
    BY <1>3
  <2>2. [kind |-> "added", ns |-> n] \in Op
    BY DEF Op
  <2> DEFINE N == s.ns \cup {n}
             R == s.removed
             t == [s EXCEPT !.ns = N, !.removed = R]
  <2>3. N \in SUBSET Nsids /\ R \in SUBSET Nsids
    BY DEF Calm, Subsystem
  <2>4. [s EXCEPT !.ns = @ \cup {n}] = t
    BY DEF Calm, Subsystem
  <2> HIDE DEF N, R
  <2>5. Calm(t) /\ t.life = s.life
    BY <2>3, CalmNamespaces
  <2>6. Resumes(t, [kind |-> "added", ns |-> n])
    BY <2>1, <2>4
  <2> HIDE DEF t
  <2>7. SubGood(t)
    BY <1>1, <2>2, <2>5, <2>6, ResumesGood
  <2> QED BY <2>5, <2>7 DEF SubGood
<1>4. CASE Resumes(s, None)
  BY <1>1, <1>2, <1>4, ResumesGood
<1>5. CASE Resumes(Closes(s, op.ns), None)
  <2>1. Calm(Closes(s, op.ns)) /\ Closes(s, op.ns).life = s.life
    BY ClosesCalm
  <2>2. SubGood(Closes(s, op.ns))
    BY <1>1, <1>2, <1>5, <2>1, ResumesGood
  <2> QED BY <2>1, <2>2 DEF SubGood
<1>6. CASE sub' = s /\ iter' = Idle
  BY <1>1, <1>6, StayGood
<1> QED BY <1>3, <1>4, <1>5, <1>6 DEF Paused

(* spdk_nvmf_subsystem_pause for an operation.                             *)
LEMMA PausesGood ==
  ASSUME TypeOK, NEW s, Calm(s), iter = Idle, NEW op \in Op, NEW nsid \in 0 .. MaxNsid,
         Pauses(op, nsid, s), UNCHANGED <<sg, qp>>
  PROVE  SubGood(s)
<1>1. CASE s.state = "paused" /\ Paused(s, op)
  BY <1>1, PausedGood
<1>2. CASE s.state # "paused" /\ MayChange(s, "paused") /\ StartsChange(s, "paused", nsid, op)
           /\ UNCHANGED listening
  <2>1. "paused" \in Steady /\ listening' \in Nat
    BY <1>2 DEF Steady, TypeOK
  <2> QED BY <1>2, <2>1, StartGood
<1>3. CASE sub' = s /\ UNCHANGED <<iter, listening>>
  <2>1. listening' \in Nat /\ iter' = Idle
    BY <1>3 DEF TypeOK
  <2> QED BY <1>3, <2>1, StayGood
<1> QED BY <1>1, <1>2, <1>3 DEF Pauses

(* A subsystem that is not changing is calm.                               *)
LEMMA NotChangingIsCalm ==
  ASSUME Inv, ~sub.changing
  PROVE  Calm(sub) /\ iter = Idle
<1>1. iter = Idle /\ sub.state \in Steady /\ sub \in Subsystem /\ sg \in [Groups -> Group]
  BY DEF Inv, ChangeOK, TypeOK
<1>2. ASSUME NEW g \in Groups PROVE FieldsOK(g) /\ sg[g].cb = "none" /\ Settled(g, sub.state)
  <2>1. FieldsOK(g) /\ VisitOK(g)
    BY DEF Inv, GroupsOK
  <2>2. sg[g].cb = "none"
    BY <1>1, <2>1, IdleType DEF VisitOK
  <2> QED BY <2>1, <2>2 DEF VisitOK, Reached, Target
<1> QED BY <1>1, <1>2 DEF Calm

-----------------------------------------------------------------------------
(* The messages of the application thread.                                 *)

NoDone(queue) ==
  \A j \in 1..Len(queue) : queue[j].fn # "done" /\ (queue[j].fn = "destruct" => ctrlr.mask = {})

(* A message that ends no change may be appended.                          *)
LEMMA AppendOther ==
  ASSUME NEW queue \in Seq(Message), NEW m \in Message, m.fn \notin {"done", "destruct"}
  PROVE  /\ Append(queue, m) \in Seq(Message)
         /\ NoDone(queue) => NoDone(Append(queue, m))
         /\ \A at : EndsOnce(queue, at) => EndsOnce(Append(queue, m), at)
<1>1. /\ Append(queue, m) \in Seq(Message) /\ Len(Append(queue, m)) = Len(queue) + 1
      /\ \A i \in 1 .. Len(queue) : Append(queue, m)[i] = queue[i]
      /\ Append(queue, m)[Len(queue) + 1] = m /\ Len(queue) \in Nat
  BY AppendProperties, LenProperties
<1> DEFINE q == Append(queue, m)
<1>2. \A j \in 1 .. Len(q) : q[j].fn \in {"done", "destruct"} =>
                               j \in 1 .. Len(queue) /\ queue[j] = q[j]
  BY <1>1
<1> HIDE DEF q
<1>3. /\ NoDone(queue) => NoDone(q)
      /\ \A at : EndsOnce(queue, at) => EndsOnce(q, at)
  BY <1>2 DEF NoDone, EndsOnce
<1> QED BY <1>1, <1>3 DEF q

(* The first message is taken; when it ended the change, no other does.    *)
LEMMA TakeMessage ==
  ASSUME NEW queue \in Seq(Message), queue # <<>>
  PROVE  /\ Head(queue) \in Message /\ Tail(queue) \in Seq(Message)
         /\ NoDone(queue) => NoDone(Tail(queue))
         /\ \A at : EndsOnce(queue, at) => EndsOnce(Tail(queue), at)
         /\ \A at : EndsOnce(queue, at) /\ Head(queue).fn = "done" => at = G + 1 /\ NoDone(Tail(queue))
<1> DEFINE q == Tail(queue)
<1>1. /\ Head(queue) \in Message /\ q \in Seq(Message) /\ Len(q) = Len(queue) - 1
      /\ \A j \in 1 .. Len(q) : q[j] = queue[j+1]
      /\ Head(queue) = queue[1] /\ Len(queue) \in Nat \ {0} /\ Len(q) \in Nat
  BY HeadTailProperties, LenProperties, EmptySeq
<1> HIDE DEF q
<1>2. 1 \in 1 .. Len(queue)
  BY <1>1
<1>3. \A j \in 1 .. Len(q) : j + 1 \in 1 .. Len(queue) /\ j + 1 # 1 /\ q[j] = queue[j+1]
  BY <1>1
<1>4. \A j, k \in 1 .. Len(q) : j + 1 = k + 1 => j = k
  BY <1>1
<1>5. NoDone(queue) => NoDone(q)
  BY <1>3 DEF NoDone
<1>6. ASSUME NEW at, EndsOnce(queue, at)
      PROVE  EndsOnce(q, at) /\ (Head(queue).fn = "done" => at = G + 1 /\ NoDone(q))
  <2>1. EndsOnce(q, at)
    BY <1>3, <1>4, <1>6 DEF EndsOnce
  <2>2. ASSUME Head(queue).fn = "done" PROVE at = G + 1 /\ NoDone(q)
    BY <1>1, <1>2, <1>3, <1>6, <2>2 DEF EndsOnce, NoDone
  <2> QED BY <2>1, <2>2
<1> QED BY <1>1, <1>5, <1>6 DEF q

(* No message that ends a change is there when none is under way.          *)
LEMMA MessagesWhenCalm ==
  ASSUME NEW queue \in Seq(Message)
  PROVE  /\ EndsOnce(queue, 0) => NoDone(queue)
         /\ \A at : NoDone(queue) => EndsOnce(queue, at)
BY DEF EndsOnce, NoDone

-----------------------------------------------------------------------------
(* Steps of the application thread.                                        *)

(* A namespace that was closed in use was noticed.                         *)
Noticed ==
  /\ fault' \in {"none", "late", "unquiesced"}
  /\ fault' = "none" => \A r \in Cmds : cmd[r].state = "running" /\ cmd[r].kind = "io" =>
                                         cmd[r].ns \in sub'.ns

(* What the commands and the counts need of a step that leaves them alone. *)
LEMMA DataKeeps ==
  ASSUME Inv, DataUnchanged, Noticed
  PROVE  CommandsOK' /\ CountsOK'
<1>1. CommandsOK'
  <2> SUFFICES ASSUME NEW r \in Cmds PROVE CommandOK(r)'
    BY DEF CommandsOK
  <2>1. CommandOK(r)
    BY DEF CommandsOK, Inv
  <2>2. cmd' = cmd /\ qp' = qp /\ sg' = sg
    BY DEF DataUnchanged
  <2> QED BY <2>1, <2>2 DEF CommandOK, Alive, Noticed
<1>2. CountsOK'
  BY DEF Inv, CountsOK, DataUnchanged, AdminsOf, IosOf
<1> QED BY <1>1, <1>2

(* A step that goes on well with a calm subsystem s.                       *)
LEMMA AppStepKeeps ==
  ASSUME Inv, NEW s, SubGood(s), s.life = "freed" => ctrlr.life = "unlisted",
         Noticed, DataUnchanged, app' \in Seq(Message), NoDone(app'), ops' \in 0 .. MaxOps
  PROVE  Inv'
<1>1. TypeOK'
  BY DEF Inv, TypeOK, SubGood, Noticed, DataUnchanged
<1>2. MessagesOK'
  <2>1. EndsOnce(app', iter'.at)
    BY MessagesWhenCalm
  <2> QED BY <2>1 DEF MessagesOK, EndsOnce, DataUnchanged
<1>3. CommandsOK' /\ CountsOK'
  BY DataKeeps
<1>4. LifeOK'
  BY DEF Inv, LifeOK, DataUnchanged, SubGood
<1> QED BY <1>1, <1>2, <1>3, <1>4 DEF Inv, SubGood

(* A step that leaves the change under way alone.                          *)
LEMMA AsideKeeps ==
  ASSUME Inv, sub' \in Subsystem, sub'.state = sub.state, sub'.changing = sub.changing,
         sub'.life = "freed" => ctrlr.life = "unlisted", iter' = iter,
         Noticed, DataUnchanged, app' \in Seq(Message), EndsOnce(app', iter.at),
         listening' \in Nat, ops' \in 0 .. MaxOps
  PROVE  Inv'
<1>1. TypeOK'
  BY DEF Inv, TypeOK, Noticed, DataUnchanged
<1>2. MessagesOK'
  BY DEF MessagesOK, EndsOnce, DataUnchanged
<1>3. CommandsOK' /\ CountsOK'
  BY DataKeeps
<1>4. LifeOK'
  BY DEF Inv, LifeOK, DataUnchanged
<1>5. ChangeOK'
  BY DEF Inv, ChangeOK
<1>6. GroupsOK'
  <2> SUFFICES ASSUME NEW g \in Groups PROVE FieldsOK(g)' /\ VisitOK(g)'
    BY DEF GroupsOK
  <2>1. FieldsOK(g) /\ VisitOK(g)
    BY DEF Inv, GroupsOK
  <2>2. sg' = sg /\ InGroup(g)' = InGroup(g)
    BY DEF DataUnchanged, InGroup, Alive
  <2>3. (Reached(g)' <=> Reached(g)) /\ Target' = Target
    BY DEF Reached, Target
  <2>4. Settled(g, Target)' <=> Settled(g, Target)
    BY <2>2, <2>3 DEF Settled
  <2>5. \A n : Quiesced(g, n)' <=> Quiesced(g, n)
    BY <2>2 DEF Quiesced
  <2> QED BY <2>1, <2>2, <2>3, <2>4, <2>5 DEF FieldsOK, VisitOK
<1> QED BY <1>1, <1>2, <1>3, <1>4, <1>5, <1>6 DEF Inv


(* Checked notices a namespace that is closed in use.                      *)
LEMMA CheckedNotices ==
  ASSUME Inv, fault = "none", Checked
  PROVE  Noticed
<1>1. \A r \in Cmds : cmd[r].state = "running" /\ cmd[r].kind = "io" => cmd[r].ns \in sub.ns
  BY DEF Inv, CommandsOK, CommandOK
<1> QED BY <1>1 DEF Checked, Noticed

(* So does a step that closes none, and one that stops.                    *)
LEMMA KeepingNotices ==
  ASSUME Inv, fault = "none", sub'.ns = sub.ns, fault' \in {"none", "late"}
  PROVE  Noticed
<1>1. \A r \in Cmds : cmd[r].state = "running" /\ cmd[r].kind = "io" => cmd[r].ns \in sub.ns
  BY DEF Inv, CommandsOK, CommandOK
<1> QED BY <1>1 DEF Noticed

(* The step that finds the subsystem freed under it.                       *)
LEMMA LateKeeps ==
  ASSUME Inv, Works, Late
  PROVE  Inv'
<1>1. /\ sub' \in Subsystem /\ listening' \in Nat /\ ops' \in 0 .. MaxOps
      /\ app' \in Seq(Message) /\ EndsOnce(app', iter.at) /\ DataUnchanged
      /\ sub'.life = "freed" => ctrlr.life = "unlisted"
  BY DEF Late, Inv, TypeOK, MessagesOK, LifeOK, DataUnchanged
<1>2. Noticed
  BY KeepingNotices DEF Late, Works
<1> QED BY <1>1, <1>2, AsideKeeps DEF Late

(* An RPC that changes the subsystem while it is paused.                   *)
LEMMA RpcInv ==
  ASSUME Inv, Rpc
  PROVE  Inv'
<1>1. /\ Works /\ Counts /\ sub.life # "freed" /\ ~sub.changing /\ Checked /\ DataUnchanged
      /\ app' = app
  BY DEF Rpc
<1>2. PICK op \in Op : Pauses(op, op.ns, sub) /\ op.ns \in 0 .. MaxNsid
  <2>1. PICK o \in [kind : {"add"}, ns : 0..MaxNsid] \cup [kind : {"remove"}, ns : Nsids]
                   \cup [kind : {"listen"}, ns : {0}] : Pauses(o, o.ns, sub)
    BY DEF Rpc
  <2>2. o \in Op /\ o.ns \in 0 .. MaxNsid
    BY DEF Op
  <2> QED BY <2>1, <2>2
<1>3. Calm(sub) /\ iter = Idle /\ iter.at = 0 /\ TypeOK
  BY <1>1, NotChangingIsCalm, IdleType DEF Inv
<1>4. SubGood(sub)
  BY <1>1, <1>2, <1>3, PausesGood DEF DataUnchanged
<1>5. Noticed
  BY <1>1, CheckedNotices DEF Works
<1>6. app' \in Seq(Message) /\ NoDone(app') /\ ops' \in 0 .. MaxOps
  <2>1. app \in Seq(Message) /\ EndsOnce(app, 0)
    BY <1>3 DEF Inv, TypeOK, MessagesOK
  <2>2. ops' \in 0 .. MaxOps
    BY <1>1, <1>3 DEF Counts, TypeOK
  <2> QED BY <1>1, <2>1, <2>2, MessagesWhenCalm
<1> QED BY <1>1, <1>4, <1>5, <1>6, AppStepKeeps

(* An event of a bdev, whose namespace s may record.                       *)
LEMMA EventInv ==
  ASSUME Inv, Works, Counts, NEW op \in Op, op.kind \in {"hot", "resize"},
         NEW nsid \in 0 .. MaxNsid, NEW s \in Subsystem,
         s.state = sub.state, s.changing = sub.changing, s.life = sub.life, s.ns = sub.ns,
         Event(op, nsid, s)
  PROVE  Inv'
<1>1. Checked /\ DataUnchanged
  BY DEF Event
<1>2. Noticed
  BY <1>1, CheckedNotices DEF Works
<1>3. /\ app \in Seq(Message) /\ EndsOnce(app, iter.at) /\ TypeOK
      /\ sub.life = "freed" => ctrlr.life = "unlisted"
  BY DEF Inv, TypeOK, MessagesOK, LifeOK
<1>4. ops' \in 0 .. MaxOps
  BY <1>3 DEF Counts, TypeOK
<1>5. CASE sub.changing
  <2> DEFINE m == [fn |-> "change", op |-> op]
  <2>1. m \in Message /\ m.fn \notin {"done", "destruct"}
    BY DEF Message
  <2>2. app' = Append(app, m) /\ sub' = s /\ UNCHANGED <<iter, listening>>
    BY <1>5 DEF Event
  <2> HIDE DEF m
  <2>3. app' \in Seq(Message) /\ EndsOnce(app', iter.at)
    BY <1>3, <2>1, <2>2, AppendOther
  <2>4. listening' \in Nat
    BY <1>3, <2>2 DEF TypeOK
  <2> QED BY <1>1, <1>2, <1>3, <1>4, <2>2, <2>3, <2>4, AsideKeeps
<1>6. CASE ~sub.changing
  <2>1. Pauses(op, nsid, s) /\ app' = app
    BY <1>6 DEF Event
  <2>2. Calm(sub) /\ iter = Idle /\ iter.at = 0
    BY <1>6, NotChangingIsCalm, IdleType
  <2>3. Calm(s)
    BY <2>2 DEF Calm
  <2>4. SubGood(s)
    BY <1>1, <1>3, <2>1, <2>2, <2>3, PausesGood DEF DataUnchanged
  <2>5. NoDone(app')
    BY <1>3, <2>1, <2>2, MessagesWhenCalm
  <2> QED BY <1>1, <1>2, <1>3, <1>4, <2>1, <2>4, <2>5, AppStepKeeps
<1> QED BY <1>5, <1>6

(* nvmf_ns_hot_remove.                                                     *)
LEMMA HotRemoveInv ==
  ASSUME Inv, NEW n \in Nsids, HotRemove(n)
  PROVE  Inv'
<1> DEFINE op == [kind |-> "hot", ns |-> n]
           R == sub.removed \cup {n}
           s == [sub EXCEPT !.removed = R]
<1>1. op \in Op /\ op.kind \in {"hot", "resize"} /\ n \in 0 .. MaxNsid
  BY DEF Op
<1>2. sub \in Subsystem /\ R \in SUBSET Nsids
  BY DEF Inv, TypeOK, Subsystem
<1>3. s \in Subsystem /\ s.state = sub.state /\ s.changing = sub.changing /\ s.life = sub.life
      /\ s.ns = sub.ns /\ s = [sub EXCEPT !.removed = @ \cup {n}]
  BY <1>2 DEF Subsystem
<1>4. Works /\ Counts /\ Event(op, n, s)
  BY <1>3 DEF HotRemove
<1> HIDE DEF op, s
<1> QED BY <1>1, <1>3, <1>4, EventInv

(* nvmf_ns_resize.                                                         *)
LEMMA ResizeInv ==
  ASSUME Inv, NEW n \in Nsids, Resize(n)
  PROVE  Inv'
<1> DEFINE op == [kind |-> "resize", ns |-> n]
<1>1. op \in Op /\ op.kind \in {"hot", "resize"} /\ 0 \in 0 .. MaxNsid
  BY DEF Op
<1>2. sub \in Subsystem
  BY DEF Inv, TypeOK
<1>3. Works /\ Counts /\ Event(op, 0, sub)
  BY DEF Resize
<1> HIDE DEF op
<1> QED BY <1>1, <1>2, <1>3, EventInv

(* rpc_nvmf_delete_subsystem.                                              *)
LEMMA DeleteInv ==
  ASSUME Inv, Delete
  PROVE  Inv'
<1> DEFINE op == [kind |-> "stop", ns |-> 0]
<1>1. op \in Op /\ 0 \in 0 .. MaxNsid /\ "inactive" \in Steady
  BY DEF Op, Steady
<1>2. /\ Works /\ sub.life = "alive" /\ ~sub.changing /\ MayChange(sub, "inactive")
      /\ StartsChange(sub, "inactive", 0, op) /\ DataUnchanged
      /\ UNCHANGED <<app, listening, ops, fault>>
  BY DEF Delete
<1>3. Calm(sub) /\ iter.at = 0 /\ TypeOK /\ listening' \in Nat /\ ops' \in 0 .. MaxOps
  BY <1>2, NotChangingIsCalm, IdleType DEF Inv, TypeOK
<1>4. sub.state # "inactive"
  BY <1>2 DEF MayChange, Before, Intermediate
<1> HIDE DEF op
<1>5. SubGood(sub)
  BY <1>1, <1>2, <1>3, <1>4, StartGood DEF DataUnchanged
<1>6. Noticed
  <2>1. sub'.ns = sub.ns
    BY <1>2, <1>3 DEF StartsChange, Calm, Subsystem
  <2> QED BY <1>2, <2>1, KeepingNotices DEF Works
<1>7. app' \in Seq(Message) /\ NoDone(app')
  <2>1. app \in Seq(Message) /\ EndsOnce(app, 0)
    BY <1>3 DEF Inv, TypeOK, MessagesOK
  <2> QED BY <1>2, <2>1, MessagesWhenCalm
<1> QED BY <1>2, <1>3, <1>5, <1>6, <1>7, AppStepKeeps

(* The end of a listener operation.                                        *)
LEMMA ListenerDoneInv ==
  ASSUME Inv, ListenerDone
  PROVE  Inv'
<1>1. CASE sub.life = "freed"
  BY <1>1, LateKeeps DEF ListenerDone
<1>2. CASE sub.life # "freed"
  <2>1. /\ Works /\ listening > 0 /\ listening' = listening - 1 /\ Resumes(sub, None)
        /\ DataUnchanged /\ UNCHANGED <<app, ops, fault>>
    BY <1>2 DEF ListenerDone
  <2>2. /\ TypeOK /\ listening' \in Nat /\ ops' \in 0 .. MaxOps
        /\ app' \in Seq(Message) /\ EndsOnce(app', iter.at)
    BY <2>1 DEF Inv, TypeOK, MessagesOK
  <2>3. sub'.ns = sub.ns
    BY <2>1, <2>2 DEF Resumes, StartsChange, TypeOK, Subsystem
  <2>4. Noticed
    BY <2>1, <2>3, KeepingNotices DEF Works
  <2>5. CASE sub.changing
    <3>1. sub' = sub /\ iter' = iter
      BY <2>1, <2>5 DEF Resumes
    <3> QED BY <1>2, <2>1, <2>2, <2>4, <3>1, AsideKeeps DEF TypeOK
  <2>6. CASE ~sub.changing
    <3>1. Calm(sub) /\ iter.at = 0
      BY <2>6, NotChangingIsCalm, IdleType
    <3>2. SubGood(sub)
      BY <2>1, <2>2, <3>1, IdleType, ResumesGood DEF DataUnchanged
    <3>3. NoDone(app')
      BY <2>2, <3>1, MessagesWhenCalm
    <3> QED BY <1>2, <2>1, <2>2, <2>4, <3>2, <3>3, AppStepKeeps
  <2> QED BY <2>5, <2>6
<1> QED BY <1>1, <1>2
(* No command is left once the controller is gone.                         *)
LEMMA NoControllerNoCommand ==
  ASSUME Inv, ctrlr.life = "unlisted"
  PROVE  /\ \A q \in Qpairs : qp[q] = "gone"
         /\ \A r \in Cmds : cmd[r] = NoCmd
<1>1. \A q \in Qpairs : qp[q] = "gone"
  BY DEF Inv, LifeOK
<1>2. ASSUME NEW r \in Cmds PROVE cmd[r] = NoCmd
  <2>1. cmd[r].q \in Qpairs /\ CommandOK(r)
    BY DEF Inv, TypeOK, CommandsOK, Cmd
  <2> QED BY <1>1, <2>1 DEF CommandOK, Alive
<1> QED BY <1>1, <1>2

(* What _nvmf_subsystem_destroy makes of a subsystem s.                    *)
LEMMA DestroysGood ==
  ASSUME Inv, NEW s \in Subsystem, NEW queue \in Seq(Message), Destroys(s, queue),
         \A r \in Cmds : cmd[r].state = "running" /\ cmd[r].kind = "io" => cmd[r].ns \in s.ns
  PROVE  /\ sub' \in Subsystem /\ sub'.state = s.state /\ sub'.changing = s.changing
         /\ sub'.life = "freed" => ctrlr.life = "unlisted"
         /\ \A r \in Cmds : cmd[r].state = "running" /\ cmd[r].kind = "io" => cmd[r].ns \in sub'.ns
         /\ app' \in Seq(Message)
         /\ NoDone(queue) => NoDone(app')
         /\ EndsOnce(queue, iter.at) => EndsOnce(app', iter.at)
<1>1. CASE ctrlr.life # "unlisted"
  <2> DEFINE m == [fn |-> "destroy"]
  <2>1. m \in Message /\ m.fn \notin {"done", "destruct"}
    BY DEF Message
  <2>2. sub' = [s EXCEPT !.life = "destroying"] /\ app' = Append(queue, m)
    BY <1>1 DEF Destroys
  <2>3. /\ sub' \in Subsystem /\ sub'.state = s.state /\ sub'.changing = s.changing
        /\ sub'.life = "destroying" /\ sub'.ns = s.ns
    BY <2>2 DEF Subsystem
  <2> HIDE DEF m
  <2> QED BY <2>1, <2>2, <2>3, AppendOther
<1>2. CASE ctrlr.life = "unlisted"
  <2>1. sub' = [s EXCEPT !.life = "freed", !.ns = {}, !.removed = {}] /\ app' = queue
    BY <1>2 DEF Destroys
  <2>2. sub' \in Subsystem /\ sub'.state = s.state /\ sub'.changing = s.changing
    BY <2>1 DEF Subsystem
  <2>3. \A r \in Cmds : cmd[r].state # "running"
    BY <1>2, NoControllerNoCommand DEF NoCmd
  <2> QED BY <1>2, <2>1, <2>2, <2>3
<1> QED BY <1>1, <1>2

(* _nvmf_subsystem_destroy_msg.                                            *)
LEMMA DestroyRetryInv ==
  ASSUME Inv, DestroyRetry
  PROVE  Inv'
<1>1. /\ Works /\ app # <<>> /\ Destroys(sub, Tail(app)) /\ DataUnchanged
      /\ UNCHANGED <<iter, listening, ops, fault>>
  BY DEF DestroyRetry, Receives
<1>2. sub \in Subsystem /\ app \in Seq(Message) /\ EndsOnce(app, iter.at) /\ TypeOK
  BY DEF Inv, TypeOK, MessagesOK
<1>3. Tail(app) \in Seq(Message) /\ EndsOnce(Tail(app), iter.at)
  BY <1>1, <1>2, TakeMessage
<1>4. \A r \in Cmds : cmd[r].state = "running" /\ cmd[r].kind = "io" => cmd[r].ns \in sub.ns
  BY <1>1 DEF Inv, CommandsOK, CommandOK, Works
<1>5. PICK queue \in Seq(Message) : queue = Tail(app)
  BY <1>3
<1>6. Destroys(sub, queue) /\ EndsOnce(queue, iter.at)
  BY <1>1, <1>3, <1>5
<1>7. /\ sub' \in Subsystem /\ sub'.state = sub.state /\ sub'.changing = sub.changing
      /\ sub'.life = "freed" => ctrlr.life = "unlisted"
      /\ \A r \in Cmds : cmd[r].state = "running" /\ cmd[r].kind = "io" => cmd[r].ns \in sub'.ns
      /\ app' \in Seq(Message) /\ EndsOnce(app', iter.at)
  BY <1>2, <1>4, <1>6, DestroysGood
<1>8. Noticed /\ listening' \in Nat /\ ops' \in 0 .. MaxOps
  BY <1>1, <1>2, <1>7 DEF Noticed, Works, TypeOK
<1> QED BY <1>1, <1>7, <1>8, AsideKeeps

(* nvmf_ctrlr_destruct.                                                    *)
LEMMA DestructedInv ==
  ASSUME Inv, Destructed
  PROVE  Inv'
<1>1. /\ app # <<>> /\ app' = Tail(app) /\ ctrlr' = [ctrlr EXCEPT !.life = "unlisted"]
      /\ UNCHANGED <<sub, iter, sg, qp, cmd, listening, ops, fault>> /\ Head(app).fn = "destruct"
  BY DEF Destructed, Receives
<1>2. TypeOK /\ EndsOnce(app, iter.at) /\ LifeOK
  BY DEF Inv, MessagesOK
<1>3. app' \in Seq(Message) /\ EndsOnce(app', iter.at)
  BY <1>1, <1>2, TakeMessage DEF TypeOK
<1>4. ctrlr' \in Ctrlr /\ ctrlr'.mask = ctrlr.mask /\ ctrlr'.life = "unlisted"
  BY <1>1, <1>2 DEF TypeOK, Ctrlr
<1>5. TypeOK'
  BY <1>1, <1>2, <1>3, <1>4 DEF TypeOK
<1>6. MessagesOK'
  BY <1>1, <1>3, <1>4 DEF MessagesOK, EndsOnce
<1>7. ChangeOK' /\ GroupsOK' /\ CommandsOK' /\ CountsOK'
  <2>1. /\ sub' = sub /\ iter' = iter /\ sg' = sg /\ cmd' = cmd /\ qp' = qp /\ fault' = fault
    BY <1>1
  <2>2. ChangeOK' /\ CountsOK'
    BY <2>1 DEF Inv, ChangeOK, CountsOK, AdminsOf, IosOf
  <2>3. CommandsOK'
    BY <2>1 DEF Inv, CommandsOK, CommandOK, Alive
  <2>4. GroupsOK'
    BY <2>1 DEF Inv, GroupsOK, FieldsOK, VisitOK, Reached, Settled, Target, Quiesced, InGroup, Alive
  <2> QED BY <2>2, <2>3, <2>4
<1>9. ctrlr.mask = {}
  <2>1. 1 \in 1 .. Len(app) /\ app[1] = Head(app)
    BY <1>1, <1>2, LenProperties, EmptySeq DEF TypeOK
  <2> QED BY <1>1, <1>2, <2>1 DEF EndsOnce
<1>8. LifeOK'
  <2>1. qp' = qp /\ sub' = sub
    BY <1>1
  <2> QED BY <1>2, <1>4, <2>1, <1>9 DEF LifeOK
<1> QED BY <1>5, <1>6, <1>7, <1>8 DEF Inv


(* nvmf_ns_change_msg.                                                     *)
LEMMA RetryChangeInv ==
  ASSUME Inv, RetryChange
  PROVE  Inv'
<1> DEFINE op == Head(app).op
<1>1. Works /\ app # <<>> /\ Head(app).fn = "change"
  BY DEF RetryChange, Receives
<1>2. TypeOK /\ app \in Seq(Message) /\ EndsOnce(app, iter.at) /\ sub \in Subsystem
      /\ (sub.life = "freed" => ctrlr.life = "unlisted")
  BY DEF Inv, MessagesOK, TypeOK, LifeOK
<1>3. /\ Head(app) \in Message /\ Tail(app) \in Seq(Message) /\ EndsOnce(Tail(app), iter.at)
      /\ NoDone(app) => NoDone(Tail(app))
  BY <1>1, <1>2, TakeMessage
<1>4. op \in Op /\ op.ns \in 0 .. MaxNsid
  BY <1>1, <1>3 DEF Message, Op
<1>5. CASE sub.life = "freed" /\ Late
  BY <1>1, <1>5, LateKeeps
<1>6. CASE /\ sub.life # "freed" /\ sub.changing
           /\ app' = Append(Tail(app), Head(app))
           /\ DataUnchanged /\ UNCHANGED <<sub, iter, listening, ops, fault>>
  <2>1. app' \in Seq(Message) /\ EndsOnce(app', iter.at)
    BY <1>1, <1>3, <1>6, AppendOther
  <2>2. Noticed /\ listening' \in Nat /\ ops' \in 0 .. MaxOps
    BY <1>1, <1>2, <1>6, KeepingNotices DEF Works, TypeOK
  <2> QED BY <1>2, <1>6, <2>1, <2>2, AsideKeeps
<1>7. CASE /\ sub.life # "freed" /\ ~sub.changing
           /\ app' = Tail(app) /\ Pauses(op, op.ns, sub)
           /\ Checked /\ DataUnchanged /\ UNCHANGED ops
  <2>1. Calm(sub) /\ iter = Idle /\ iter.at = 0
    BY <1>7, NotChangingIsCalm, IdleType
  <2>2. SubGood(sub)
    BY <1>2, <1>4, <1>7, <2>1, PausesGood DEF DataUnchanged
  <2>3. NoDone(app') /\ app' \in Seq(Message)
    BY <1>2, <1>3, <1>7, <2>1, MessagesWhenCalm
  <2>4. Noticed /\ ops' \in 0 .. MaxOps
    BY <1>1, <1>2, <1>7, CheckedNotices DEF Works, TypeOK
  <2> QED BY <1>7, <2>2, <2>3, <2>4, AppStepKeeps
<1> QED BY <1>5, <1>6, <1>7 DEF RetryChange

(* A change that ended well leaves a calm subsystem.                       *)
LEMMA EndIsCalm ==
  ASSUME Inv, iter.at = G + 1, iter.revert \/ ~iter.bad
  PROVE  LET s == [sub EXCEPT !.state = iter.req, !.changing = FALSE]
         IN  Calm(s) /\ s.life = sub.life /\ s.ns = sub.ns
<1> DEFINE s == [sub EXCEPT !.state = iter.req, !.changing = FALSE]
<1>1. sub \in Subsystem /\ iter \in Change /\ ChangeOK /\ G \in Nat
  BY DEF Inv, TypeOK
<1>2. sub.changing
  BY <1>1, IdleType DEF ChangeOK
<1>3. iter.req \in Steady /\ iter.req \in States /\ ~iter.bad
  BY <1>1, <1>2 DEF ChangeOK, Steady, States
<1>4. s \in Subsystem /\ s.state = iter.req /\ ~s.changing /\ s.life = sub.life /\ s.ns = sub.ns
  BY <1>1, <1>3 DEF Subsystem
<1>5. ASSUME NEW g \in Groups PROVE FieldsOK(g) /\ sg[g].cb = "none" /\ Settled(g, iter.req)
  <2>1. FieldsOK(g) /\ VisitOK(g)
    BY DEF Inv, GroupsOK
  <2>2. iter.at # g /\ g < iter.at
    BY <1>1
  <2>3. Reached(g) /\ Target = iter.req
    BY <1>2, <1>3, <2>2 DEF Reached, Target
  <2> QED BY <2>1, <2>2, <2>3 DEF VisitOK
<1> HIDE DEF s
<1>6. Calm(s) /\ s.life = sub.life /\ s.ns = sub.ns
  BY <1>3, <1>4, <1>5 DEF Calm
<1> QED BY <1>6 DEF s

(* The operation that asked for the change goes on with the subsystem s.   *)
LEMMA EndsInv ==
  ASSUME Inv, fault = "none", NEW s, Calm(s), s.life = sub.life, s.ns = sub.ns,
         NEW queue \in Seq(Message), NoDone(queue),
         Ends(s, iter.op, queue), Checked, DataUnchanged, UNCHANGED ops
  PROVE  Inv'
<1>1. TypeOK /\ ops' \in 0 .. MaxOps /\ iter.op \in Op /\ (s.life = "freed" => ctrlr.life = "unlisted")
  BY DEF Inv, TypeOK, LifeOK, Change
<1>2. Noticed
  BY CheckedNotices
<1>3. None \in Op
  BY IdleType
<1>4. CASE Destroys(s, queue) /\ iter' = Idle /\ UNCHANGED listening
  <2>1. \A r \in Cmds : cmd[r].state = "running" /\ cmd[r].kind = "io" => cmd[r].ns \in s.ns
    BY DEF Inv, CommandsOK, CommandOK
  <2>2. s \in Subsystem
    BY DEF Calm
  <2>3. /\ sub' \in Subsystem /\ sub'.state = s.state /\ sub'.changing = s.changing
        /\ sub'.life = "freed" => ctrlr.life = "unlisted"
        /\ app' \in Seq(Message) /\ NoDone(app')
    BY <1>4, <2>1, <2>2, DestroysGood
  <2>4. PICK t \in Subsystem : sub' = t
    BY <2>3
  <2>5. Calm(t)
    BY <2>3, <2>4 DEF Calm
  <2>6. listening' \in Nat
    BY <1>1, <1>4 DEF TypeOK
  <2>7. SubGood(t)
    BY <1>1, <1>4, <2>4, <2>5, <2>6, StayGood DEF DataUnchanged
  <2> QED BY <1>1, <1>2, <2>3, <2>4, <2>7, AppStepKeeps
<1>5. CASE Resumes(Closes(s, iter.op.ns), None) /\ app' = queue /\ UNCHANGED listening
  <2>1. Calm(Closes(s, iter.op.ns)) /\ Closes(s, iter.op.ns).life = s.life
    BY ClosesCalm
  <2>2. listening' \in Nat
    BY <1>1, <1>5 DEF TypeOK
  <2>3. SubGood(Closes(s, iter.op.ns))
    BY <1>1, <1>3, <1>5, <2>1, <2>2, ResumesGood DEF DataUnchanged
  <2> QED BY <1>1, <1>2, <1>5, <2>1, <2>3, AppStepKeeps
<1>6. CASE sub' = s /\ iter' = Idle /\ app' = queue /\ UNCHANGED listening
  <2>1. listening' \in Nat
    BY <1>1, <1>6 DEF TypeOK
  <2>2. SubGood(s)
    BY <1>1, <1>6, <2>1, StayGood DEF DataUnchanged
  <2> QED BY <1>1, <1>2, <1>6, <2>2, AppStepKeeps
<1>7. CASE Paused(s, iter.op) /\ app' = queue
  <2>1. SubGood(s)
    BY <1>1, <1>7, PausedGood DEF DataUnchanged
  <2> QED BY <1>1, <1>2, <1>7, <2>1, AppStepKeeps
<1> QED BY <1>4, <1>5, <1>6, <1>7 DEF Ends

(* subsystem_state_change_done of a change that failed on a group: it is   *)
(* reverted.                                                               *)
LEMMA RevertGood ==
  ASSUME Inv, iter.at = G + 1, iter.bad, ~iter.revert,
         sub' = [sub EXCEPT !.state = Intermediate(iter.req, iter.orig)],
         iter' = [iter EXCEPT !.at = 1, !.req = iter.orig, !.revert = TRUE, !.bad = FALSE],
         UNCHANGED <<sg, qp, listening>>
  PROVE  SubGood(sub)
<1>1. sub \in Subsystem /\ iter \in Change /\ ChangeOK /\ G \in Nat \ {0} /\ listening \in Nat
  BY DEF Inv, TypeOK
<1>2. sub.changing /\ iter.req = "active" /\ iter.nsid = 0 /\ iter.orig \in {"inactive", "paused"}
  BY <1>1, IdleType DEF ChangeOK
<1>3. /\ iter.orig = "paused" => Intermediate(iter.req, iter.orig) = "pausing"
      /\ iter.orig = "inactive" => Intermediate(iter.req, iter.orig) = "deactivating"
  BY <1>2 DEF Intermediate
<1>4. /\ sub' \in Subsystem /\ sub'.changing = TRUE /\ sub'.life = sub.life
      /\ sub'.state = Intermediate(iter.req, iter.orig)
  BY <1>1, <1>2, <1>3 DEF Subsystem, States
<1>5. /\ iter' \in Change /\ iter'.at = 1 /\ iter'.req = iter.orig /\ iter'.nsid = 0
      /\ iter'.bad = FALSE
  <2>1. PICK it \in Change : it = iter
    BY <1>1
  <2>2. PICK req \in States : req = iter.orig
    BY <1>2 DEF States
  <2>3. it.nsid = 0 /\ 1 \in 0 .. G + 1
    BY <1>1, <1>2, <2>1
  <2>4. iter' = [it EXCEPT !.at = 1, !.req = req, !.revert = TRUE, !.bad = FALSE]
    BY <2>1, <2>2
  <2>5. iter' \in Change
    BY <2>3, <2>4 DEF Change
  <2>6. iter'.at = 1 /\ iter'.req = req /\ iter'.nsid = it.nsid /\ iter'.bad = FALSE
    BY <2>4 DEF Change
  <2> QED BY <2>2, <2>3, <2>5, <2>6
<1>6. ChangeOK'
  BY <1>2, <1>3, <1>4, <1>5 DEF ChangeOK
<1>7. ASSUME NEW g \in Groups PROVE FieldsOK(g)' /\ VisitOK(g)'
  <2>1. FieldsOK(g) /\ VisitOK(g)
    BY DEF Inv, GroupsOK
  <2>2. sg'[g].cb = "none"
    BY <1>1, <2>1 DEF VisitOK
  <2>3. ~Reached(g)'
    BY <1>4, <1>5 DEF Reached
  <2>4. FieldsOK(g)'
    BY <2>1 DEF FieldsOK
  <2>5. sub'.state # "activating"
    BY <1>2, <1>3, <1>4
  <2> QED BY <1>5, <2>2, <2>3, <2>4, <2>5 DEF VisitOK
<1> QED BY <1>1, <1>4, <1>5, <1>6, <1>7 DEF SubGood, GroupsOK

(* subsystem_state_change_done.                                            *)
LEMMA DoneInv ==
  ASSUME Inv, Done
  PROVE  Inv'
<1>1. Works /\ app # <<>> /\ Head(app).fn = "done"
  BY DEF Done, Receives
<1>2. app \in Seq(Message) /\ EndsOnce(app, iter.at) /\ TypeOK
      /\ (sub.life = "freed" => ctrlr.life = "unlisted")
  BY DEF Inv, MessagesOK, TypeOK, LifeOK
<1>3. Tail(app) \in Seq(Message) /\ NoDone(Tail(app)) /\ iter.at = G + 1
  BY <1>1, <1>2, TakeMessage
<1>4. CASE Late
  BY <1>1, <1>4, LateKeeps
<1>5. CASE /\ iter.revert \/ ~iter.bad
           /\ Ends([sub EXCEPT !.state = iter.req, !.changing = FALSE], iter.op, Tail(app))
           /\ Checked /\ DataUnchanged /\ UNCHANGED ops
  <2> DEFINE s == [sub EXCEPT !.state = iter.req, !.changing = FALSE]
  <2>1. Calm(s) /\ s.life = sub.life /\ s.ns = sub.ns
    BY <1>3, <1>5, EndIsCalm
  <2>2. PICK queue \in Seq(Message) : queue = Tail(app)
    BY <1>3
  <2>3. Ends(s, iter.op, queue) /\ NoDone(queue)
    BY <1>3, <1>5, <2>2
  <2> HIDE DEF s
  <2> QED BY <1>1, <1>5, <2>1, <2>3, EndsInv DEF Works
<1>6. CASE /\ ~iter.revert /\ iter.bad
           /\ sub' = [sub EXCEPT !.state = Intermediate(iter.req, iter.orig)]
           /\ iter' = [iter EXCEPT !.at = 1, !.req = iter.orig, !.revert = TRUE, !.bad = FALSE]
           /\ app' = Tail(app)
           /\ DataUnchanged /\ UNCHANGED <<listening, ops, fault>>
  <2>1. SubGood(sub)
    BY <1>3, <1>6, RevertGood DEF DataUnchanged
  <2>2. sub'.ns = sub.ns
    BY <1>2, <1>6 DEF TypeOK, Subsystem
  <2>3. Noticed /\ ops' \in 0 .. MaxOps
    BY <1>1, <1>2, <1>6, <2>2, KeepingNotices DEF Works, TypeOK
  <2> QED BY <1>2, <1>3, <1>6, <2>1, <2>3, AppStepKeeps
<1> QED BY <1>4, <1>5, <1>6 DEF Done

-----------------------------------------------------------------------------
(* Queue pairs and what drains with them.                                  *)

Up(state) == state \in {"active", "draining"}

(* Idle commands are well-typed and count for nothing.                     *)
LEMMA NoCmdType == NoCmd \in Cmd /\ NoCmd.state = "idle" /\ NoCmd.kind = "admin"
BY DEF NoCmd, Cmd

(* _nvmf_qpair_destroy takes queued commands only, of queue pairs that end. *)
LEMMA DrainsType ==
  ASSUME NEW p \in [Qpairs -> QpairState], NEW c \in [Cmds -> Cmd], Drains(p, c)
  PROVE  /\ qp' \in [Qpairs -> QpairState] /\ cmd' \in [Cmds -> Cmd]
         /\ \A q \in Qpairs : /\ qp'[q] = "gone" <=> p[q] = "gone"
                              /\ Up(qp'[q]) => Up(p[q])
         /\ \A r \in Cmds : /\ cmd'[r] = c[r] \/ cmd'[r] = NoCmd
                            /\ c[r].state = "running" => cmd'[r] = c[r]
                            /\ cmd'[r] # NoCmd /\ Up(p[c[r].q]) => Up(qp'[c[r].q])
<1> DEFINE ends == {q \in Qpairs : p[q] = "draining"
                               /\ ~\E r \in Cmds : c[r].q = q /\ c[r].state \in {"running", "aer"}}
<1>1. /\ qp' = [q \in Qpairs |-> IF q \in ends THEN "leaving" ELSE p[q]]
      /\ cmd' = [r \in Cmds |-> IF c[r].q \in ends THEN NoCmd ELSE c[r]]
  BY DEF Drains
<1>2. \A q \in ends : p[q] = "draining"
  OBVIOUS
<1>3. \A r \in Cmds : c[r].state = "running" => c[r].q \notin ends
  OBVIOUS
<1>4. \A r \in Cmds : c[r].q \in Qpairs
  BY DEF Cmd
<1> HIDE DEF ends
<1>5. qp' \in [Qpairs -> QpairState] /\ cmd' \in [Cmds -> Cmd]
  BY <1>1, NoCmdType DEF QpairState
<1>6. ASSUME NEW q \in Qpairs
      PROVE  (qp'[q] = "gone" <=> p[q] = "gone") /\ (Up(qp'[q]) => Up(p[q]))
  BY <1>1, <1>2 DEF Up
<1>7. ASSUME NEW r \in Cmds
      PROVE  /\ cmd'[r] = c[r] \/ cmd'[r] = NoCmd
             /\ c[r].state = "running" => cmd'[r] = c[r]
             /\ cmd'[r] # NoCmd /\ Up(p[c[r].q]) => Up(qp'[c[r].q])
  BY <1>1, <1>3, <1>4
<1> QED BY <1>5, <1>6, <1>7

(* The running commands are the same after a drain.                        *)
LEMMA SameRunning ==
  ASSUME NEW c \in [Cmds -> Cmd], NEW d \in [Cmds -> Cmd],
         \A r \in Cmds : d[r] = c[r] \/ (d[r] = NoCmd /\ c[r].state # "running")
  PROVE  \A g, n : AdminsOf(d, g) = AdminsOf(c, g) /\ IosOf(d, g, n) = IosOf(c, g, n)
<1>1. \A r \in Cmds : (c[r].state = "running" \/ d[r].state = "running") => d[r] = c[r]
  BY NoCmdType
<1> QED BY <1>1 DEF AdminsOf, IosOf

(* Commands that end, and queue pairs that drain, leave the others well.   *)
LEMMA DrainsKeeps ==
  ASSUME Inv, fault' = fault, sub' = sub,
         \A g \in Groups : sg'[g].state = "active" => sg[g].state = "active",
         NEW p \in [Qpairs -> QpairState], NEW c \in [Cmds -> Cmd], Drains(p, c),
         \A q \in Qpairs : (p[q] = "gone" <=> qp[q] = "gone") /\ (Up(p[q]) <=> Up(qp[q])),
         \A r \in Cmds : c[r] = cmd[r] \/ c[r] = NoCmd
  PROVE  /\ qp' \in [Qpairs -> QpairState] /\ cmd' \in [Cmds -> Cmd] /\ CommandsOK'
         /\ \A q \in Qpairs : (qp'[q] = "gone" <=> qp[q] = "gone") /\ (Up(qp'[q]) => Up(qp[q]))
         /\ \A g, n : AdminsOf(cmd', g) = AdminsOf(c, g) /\ IosOf(cmd', g, n) = IosOf(c, g, n)
<1>1. /\ qp' \in [Qpairs -> QpairState] /\ cmd' \in [Cmds -> Cmd]
      /\ \A q \in Qpairs : /\ qp'[q] = "gone" <=> p[q] = "gone"
                           /\ Up(qp'[q]) => Up(p[q])
      /\ \A r \in Cmds : /\ cmd'[r] = c[r] \/ cmd'[r] = NoCmd
                         /\ c[r].state = "running" => cmd'[r] = c[r]
                         /\ cmd'[r] # NoCmd /\ Up(p[c[r].q]) => Up(qp'[c[r].q])
  BY DrainsType
<1>2. \A g, n : AdminsOf(cmd', g) = AdminsOf(c, g) /\ IosOf(cmd', g, n) = IosOf(c, g, n)
  <2>1. PICK d \in [Cmds -> Cmd] : d = cmd'
    BY <1>1
  <2>2. \A r \in Cmds : d[r] = c[r] \/ (d[r] = NoCmd /\ c[r].state # "running")
    BY <1>1, <2>1
  <2>3. \A g, n : AdminsOf(d, g) = AdminsOf(c, g) /\ IosOf(d, g, n) = IosOf(c, g, n)
    BY <2>2, SameRunning
  <2> QED BY <2>1, <2>3
<1>3. ASSUME NEW r \in Cmds PROVE CommandOK(r)'
  <2>1. cmd'[r] = NoCmd \/ (cmd'[r] = cmd[r] /\ c[r] = cmd[r])
    BY <1>1
  <2>2. CASE cmd'[r] = NoCmd
    BY <2>2, NoCmdType DEF CommandOK
  <2>3. CASE cmd'[r] # NoCmd /\ cmd'[r] = cmd[r] /\ c[r] = cmd[r]
    <3>1. CommandOK(r) /\ cmd[r] \in Cmd /\ cmd[r].q \in Qpairs /\ QGroup[cmd[r].q] \in Groups
      BY DEF Inv, TypeOK, CommandsOK, Cmd
    <3>2. cmd[r].state # "idle" => Alive(cmd[r].q)'
      BY <1>1, <2>3, <3>1 DEF CommandOK, Alive, Up
    <3> QED BY <2>3, <3>1, <3>2 DEF CommandOK
  <2> QED BY <2>1, <2>2, <2>3
<1> QED BY <1>1, <1>2, <1>3 DEF CommandsOK

(* A group that is left alone stays well when queue pairs leave.           *)
LEMMA GroupAside ==
  ASSUME NEW g \in Groups, FieldsOK(g), VisitOK(g), sub' = sub, iter' = iter, sg'[g] = sg[g],
         \A q \in Qpairs : Up(qp'[q]) => Up(qp[q])
  PROVE  FieldsOK(g)' /\ VisitOK(g)'
<1>1. InGroup(g)' \subseteq InGroup(g)
  BY DEF InGroup, Alive, Up
<1>2. (Reached(g)' <=> Reached(g)) /\ Target' = Target
  BY DEF Reached, Target
<1>3. Settled(g, Target) => Settled(g, Target)'
  BY <1>1, <1>2 DEF Settled
<1>4. \A n : Quiesced(g, n)' <=> Quiesced(g, n)
  BY DEF Quiesced
<1> QED BY <1>1, <1>2, <1>3, <1>4 DEF FieldsOK, VisitOK

(* A step of a queue pair that only drains.                                *)
LEMMA DrainingInv ==
  ASSUME Inv, NEW p \in [Qpairs -> QpairState], NEW c \in [Cmds -> Cmd], Drains(p, c),
         \A q \in Qpairs : (p[q] = "gone" <=> qp[q] = "gone") /\ (Up(p[q]) <=> Up(qp[q])),
         \A r \in Cmds : c[r] = cmd[r] \/ (c[r] = NoCmd /\ cmd[r].state # "running"),
         UNCHANGED <<sub, iter, app, sg, ctrlr, listening, ops, fault>>
  PROVE  Inv'
<1>1. /\ sub' = sub /\ iter' = iter /\ app' = app /\ sg' = sg /\ ctrlr' = ctrlr
      /\ listening' = listening /\ ops' = ops /\ fault' = fault
  OBVIOUS
<1>2. /\ qp' \in [Qpairs -> QpairState] /\ cmd' \in [Cmds -> Cmd] /\ CommandsOK'
      /\ \A q \in Qpairs : (qp'[q] = "gone" <=> qp[q] = "gone") /\ (Up(qp'[q]) => Up(qp[q]))
      /\ \A g, n : AdminsOf(cmd', g) = AdminsOf(c, g) /\ IosOf(cmd', g, n) = IosOf(c, g, n)
  <2>1. \A r \in Cmds : c[r] = cmd[r] \/ c[r] = NoCmd
    OBVIOUS
  <2> QED BY <1>1, <2>1, DrainsKeeps
<1>3. TypeOK'
  BY <1>1, <1>2 DEF Inv, TypeOK
<1>4. ChangeOK' /\ MessagesOK'
  BY <1>1 DEF Inv, ChangeOK, MessagesOK, EndsOnce
<1>5. GroupsOK'
  BY <1>1, <1>2, GroupAside DEF Inv, GroupsOK
<1>6. CountsOK'
  <2>1. PICK d \in [Cmds -> Cmd] : d = cmd
    BY DEF Inv, TypeOK
  <2>2. \A r \in Cmds : c[r] = d[r] \/ (c[r] = NoCmd /\ d[r].state # "running")
    BY <2>1
  <2>3. \A g, n : AdminsOf(c, g) = AdminsOf(d, g) /\ IosOf(c, g, n) = IosOf(d, g, n)
    BY <2>2, SameRunning
  <2> QED BY <1>1, <1>2, <2>1, <2>3 DEF Inv, CountsOK
<1>7. LifeOK'
  BY <1>1, <1>2 DEF Inv, LifeOK
<1> QED BY <1>2, <1>3, <1>4, <1>5, <1>6, <1>7 DEF Inv

(* spdk_nvmf_qpair_disconnect of the queue pairs of Q: what it drains from. *)
LEMMA DisconnectsDrains ==
  ASSUME TypeOK, NEW Q, Disconnects(Q)
  PROVE  \E p \in [Qpairs -> QpairState], c \in [Cmds -> Cmd] :
           /\ Drains(p, c)
           /\ \A q \in Qpairs : (p[q] = "gone" <=> qp[q] = "gone") /\ (Up(p[q]) <=> Up(qp[q]))
           /\ \A r \in Cmds : c[r] = cmd[r] \/ (c[r] = NoCmd /\ cmd[r].state # "running")
<1> DEFINE p == [q \in Qpairs |-> IF q \in Q /\ qp[q] = "active" THEN "draining" ELSE qp[q]]
           c == [r \in Cmds |-> IF cmd[r].q \in Q /\ cmd[r].state = "aer" THEN NoCmd ELSE cmd[r]]
<1>1. p \in [Qpairs -> QpairState] /\ c \in [Cmds -> Cmd]
  BY NoCmdType DEF TypeOK, QpairState
<1>2. Drains(p, c)
  BY DEF Disconnects
<1>3. \A q \in Qpairs : (p[q] = "gone" <=> qp[q] = "gone") /\ (Up(p[q]) <=> Up(qp[q]))
  BY DEF Up
<1>4. \A r \in Cmds : c[r] = cmd[r] \/ (c[r] = NoCmd /\ cmd[r].state # "running")
  OBVIOUS
<1> HIDE DEF p, c
<1> QED BY <1>1, <1>2, <1>3, <1>4

(* The host or a timer breaks a connection.                                *)
LEMMA DisconnectInv ==
  ASSUME Inv, NEW q \in Qpairs, Disconnect(q)
  PROVE  Inv'
<1>1. TypeOK /\ Disconnects({q}) /\ UNCHANGED <<sub, iter, app, sg, ctrlr, listening, ops, fault>>
  BY DEF Inv, Disconnect
<1> QED BY <1>1, DisconnectsDrains, DrainingInv

(* nvmf_ctrlr_async_event_notification.                                    *)
LEMMA AerCompletesInv ==
  ASSUME Inv, NEW r \in Cmds, AerCompletes(r)
  PROVE  Inv'
<1> DEFINE c == [cmd EXCEPT ![r] = NoCmd]
<1>1. /\ cmd[r].state = "aer" /\ Drains(qp, c)
      /\ UNCHANGED <<sub, iter, app, sg, ctrlr, listening, ops, fault>>
  BY DEF AerCompletes
<1>2. qp \in [Qpairs -> QpairState] /\ c \in [Cmds -> Cmd]
  BY NoCmdType DEF Inv, TypeOK
<1>3. \A s \in Cmds : c[s] = cmd[s] \/ (c[s] = NoCmd /\ cmd[s].state # "running")
  BY <1>1 DEF Inv, TypeOK
<1> HIDE DEF c
<1> QED BY <1>1, <1>2, <1>3, DrainingInv

(* _nvmf_ctrlr_free_from_qpair.                                            *)
LEMMA FreeFromInv ==
  ASSUME Inv, NEW q \in Qpairs, FreeFrom(q)
  PROVE  Inv'
<1>1. /\ qp[q] = "leaving" /\ qp' = [qp EXCEPT ![q] = "gone"]
      /\ sub' = sub /\ iter' = iter /\ sg' = sg /\ cmd' = cmd
      /\ listening' = listening /\ ops' = ops /\ fault' = fault
  BY DEF FreeFrom
<1>2. /\ TypeOK /\ LifeOK /\ q \in ctrlr.mask /\ ctrlr \in Ctrlr /\ ctrlr.life = "listed"
      /\ app \in Seq(Message) /\ EndsOnce(app, iter.at)
      /\ \A j \in 1 .. Len(app) : app[j].fn # "destruct"
  <2>1. TypeOK /\ LifeOK /\ q \in ctrlr.mask
    BY <1>1 DEF Inv, LifeOK
  <2> QED BY <2>1 DEF LifeOK, TypeOK, Ctrlr, Inv, MessagesOK, EndsOnce
<1>3. qp' \in [Qpairs -> QpairState] /\ \A o \in Qpairs : qp'[o] = IF o = q THEN "gone" ELSE qp[o]
  BY <1>1, <1>2 DEF TypeOK, QpairState
<1>4. \A o \in Qpairs : Up(qp'[o]) <=> Up(qp[o])
  BY <1>1, <1>3 DEF Up
<1>5. /\ ctrlr' \in Ctrlr /\ ctrlr'.mask = ctrlr.mask \ {q} /\ app' \in Seq(Message)
      /\ ctrlr'.life # "listed" => ctrlr'.mask = {}
      /\ EndsOnce(app, iter.at)'
  <2>1. CASE ctrlr.mask = {q}
    <3> DEFINE m == [fn |-> "destruct"]
    <3>1. ctrlr' = [life |-> "in_destruct", mask |-> {}] /\ app' = Append(app, m)
      BY <2>1 DEF FreeFrom
    <3>2. m \in Message /\ m.fn = "destruct"
      BY DEF Message
    <3> HIDE DEF m
    <3>3. /\ app' \in Seq(Message) /\ Len(app') = Len(app) + 1 /\ Len(app) \in Nat
          /\ \A i \in 1 .. Len(app) : app'[i] = app[i]
          /\ app'[Len(app) + 1].fn = "destruct"
      BY <1>2, <3>1, <3>2, AppendProperties, LenProperties
    <3>4. ctrlr' \in Ctrlr /\ ctrlr'.mask = {}
      BY <3>1 DEF Ctrlr
    <3>5. \A j \in 1 .. Len(app') : app'[j].fn = "done" => j \in 1 .. Len(app) /\ app'[j] = app[j]
      BY <3>3
    <3>6. EndsOnce(app, iter.at)'
      BY <1>1, <1>2, <3>4, <3>5 DEF EndsOnce
    <3> QED BY <2>1, <3>3, <3>4, <3>6
  <2>2. CASE ctrlr.mask # {q}
    <3> DEFINE M == ctrlr.mask \ {q}
    <3>1. ctrlr' = [ctrlr EXCEPT !.mask = M] /\ app' = app
      BY <2>2 DEF FreeFrom
    <3>2. M \in SUBSET Qpairs
      BY <1>2 DEF Ctrlr
    <3> HIDE DEF M
    <3>3. ctrlr' \in Ctrlr /\ ctrlr'.mask = M /\ ctrlr'.life = "listed"
      BY <1>2, <3>1, <3>2 DEF Ctrlr
    <3>4. EndsOnce(app, iter.at)'
      BY <1>1, <1>2, <3>1 DEF EndsOnce
    <3> QED BY <1>2, <3>1, <3>3, <3>4 DEF M
  <2> QED BY <2>1, <2>2
<1>6. TypeOK'
  BY <1>1, <1>2, <1>3, <1>5 DEF TypeOK
<1>7. ChangeOK' /\ CountsOK' /\ MessagesOK'
  <2>1. ChangeOK'
    BY <1>1 DEF Inv, ChangeOK
  <2>2. \A g, n : AdminsOf(cmd', g) = AdminsOf(cmd, g) /\ IosOf(cmd', g, n) = IosOf(cmd, g, n)
    BY <1>1
  <2>3. CountsOK
    BY DEF Inv
  <2>4. CountsOK'
    BY <1>1, <2>2, <2>3 DEF CountsOK
  <2> QED BY <1>5, <2>1, <2>4 DEF MessagesOK
<1>8. GroupsOK'
  BY <1>1, <1>4, GroupAside DEF Inv, GroupsOK
<1>9. CommandsOK'
  <2> SUFFICES ASSUME NEW r \in Cmds PROVE CommandOK(r)'
    BY DEF CommandsOK
  <2>1. CommandOK(r) /\ cmd[r].q \in Qpairs
    BY <1>2 DEF Inv, CommandsOK, TypeOK, Cmd
  <2>2. Alive(cmd[r].q) => Alive(cmd[r].q)'
    BY <1>1, <1>4, <2>1 DEF Alive, Up
  <2> QED BY <1>1, <2>1, <2>2 DEF CommandOK
<1>10. LifeOK'
  <2>1. ctrlr'.mask = {o \in Qpairs : qp'[o] # "gone"}
    BY <1>2, <1>3, <1>5 DEF LifeOK
  <2>2. sub.life # "freed"
    BY <1>2 DEF LifeOK
  <2> QED BY <1>1, <1>5, <2>1, <2>2 DEF LifeOK
<1> QED BY <1>6, <1>7, <1>8, <1>9, <1>10 DEF Inv

-----------------------------------------------------------------------------
(* The visits of a change to the poll groups.                              *)

(* The visit of the group g is over; it failed if bad.                     *)
LEMMA ContinuesGood ==
  ASSUME Inv, NEW g \in Groups, iter.at = g, NEW bad \in BOOLEAN, bad => iter.req = "active",
         Continues(bad), sub' = sub, ctrlr' = ctrlr
  PROVE  /\ iter' \in Change /\ app' \in Seq(Message) /\ MessagesOK' /\ ChangeOK'
         /\ iter'.req = iter.req /\ iter'.nsid = iter.nsid /\ Target' = Target
         /\ Reached(g)' <=> ~bad
         /\ \A h \in Groups \ {g} : Reached(h)' <=> (Reached(h) /\ ~bad)
         /\ \A h \in Groups : sg[h].cb # "none" => h = g
<1>1. /\ iter \in Change /\ app \in Seq(Message) /\ EndsOnce(app, g) /\ ChangeOK /\ G \in Nat \ {0}
      /\ g \in 1 .. G /\ \A h \in Groups : VisitOK(h)
  BY DEF Inv, TypeOK, MessagesOK, GroupsOK
<1>2. iter.bad = FALSE /\ sub.changing
  BY <1>1, IdleType DEF ChangeOK, Change
<1>3. NoDone(app)
  BY <1>1 DEF EndsOnce, NoDone
<1>4. CASE bad \/ g = G
  <2> DEFINE m == [fn |-> "done"]
  <2>1. iter' = [iter EXCEPT !.at = G + 1, !.bad = bad] /\ app' = Append(app, m)
    BY <1>4 DEF Continues
  <2>2. G + 1 \in 0 .. G + 1
    BY <1>1
  <2>3. /\ iter' \in Change /\ iter'.at = G + 1 /\ iter'.bad = bad /\ iter'.req = iter.req
        /\ iter'.nsid = iter.nsid /\ iter'.orig = iter.orig /\ iter'.revert = iter.revert
    BY <1>1, <2>1, <2>2 DEF Change
  <2>4. m \in Message /\ m.fn = "done"
    BY DEF Message
  <2> HIDE DEF m
  <2>5. /\ app' \in Seq(Message) /\ Len(app') = Len(app) + 1 /\ Len(app) \in Nat
        /\ \A i \in 1 .. Len(app) : app'[i] = app[i]
        /\ app'[Len(app) + 1].fn = "done"
    BY <1>1, <2>1, <2>4, AppendProperties, LenProperties
  <2>6. \A j \in 1 .. Len(app') : /\ app'[j].fn = "done" => j = Len(app) + 1
                                  /\ app'[j].fn = "destruct" => ctrlr.mask = {}
    BY <1>3, <2>5 DEF NoDone
  <2>7. MessagesOK'
    BY <2>3, <2>6 DEF MessagesOK, EndsOnce
  <2>8. ChangeOK'
    BY <1>1, <1>2, <2>3 DEF ChangeOK
  <2>9. Target' = Target
    BY <2>3 DEF Target
  <2>10. ASSUME NEW h \in Groups
         PROVE  (Reached(h)' <=> ~bad) /\ (g = G /\ h # g => Reached(h))
    BY <1>1, <1>2, <2>3 DEF Reached
  <2> QED BY <1>1, <1>4, <2>3, <2>5, <2>7, <2>8, <2>9, <2>10 DEF VisitOK
<1>5. CASE ~bad /\ g # G
  <2>1. iter' = [iter EXCEPT !.at = g + 1] /\ app' = app
    BY <1>5 DEF Continues, Change
  <2>2. g + 1 \in 0 .. G + 1 /\ g + 1 # 0 /\ g + 1 # G + 1
    BY <1>1, <1>5
  <2>3. /\ iter' \in Change /\ iter'.at = g + 1 /\ iter'.bad = iter.bad /\ iter'.req = iter.req
        /\ iter'.nsid = iter.nsid /\ iter'.orig = iter.orig /\ iter'.revert = iter.revert
    BY <1>1, <2>1, <2>2 DEF Change
  <2>4. MessagesOK'
    BY <1>3, <2>1 DEF MessagesOK, EndsOnce, NoDone
  <2>5. ChangeOK'
    BY <1>1, <1>2, <2>2, <2>3 DEF ChangeOK
  <2>6. Target' = Target
    BY <2>3 DEF Target
  <2>7. ASSUME NEW h \in Groups PROVE Reached(h)' <=> (Reached(h) \/ h = g)
    BY <1>1, <1>2, <2>3 DEF Reached
  <2> QED BY <1>1, <1>5, <2>1, <2>3, <2>4, <2>5, <2>6, <2>7 DEF VisitOK
<1> QED BY <1>4, <1>5

(* The groups other than the one whose visit is over.                      *)
LEMMA OthersContinue ==
  ASSUME Inv, NEW g \in Groups, iter.at = g, NEW bad \in BOOLEAN, bad => iter.req = "active",
         Continues(bad), sub' = sub, ctrlr' = ctrlr, NEW h \in Groups \ {g}, sg'[h] = sg[h],
         \A q \in Qpairs : Up(qp'[q]) => Up(qp[q])
  PROVE  FieldsOK(h)' /\ VisitOK(h)'
<1>1. /\ iter'.req = iter.req /\ iter'.nsid = iter.nsid /\ Target' = Target
      /\ Reached(h)' <=> (Reached(h) /\ ~bad)
      /\ sg[h].cb = "none"
  BY ContinuesGood
<1>2. FieldsOK(h) /\ VisitOK(h) /\ ChangeOK
  BY DEF Inv, GroupsOK
<1>3. InGroup(h)' \subseteq InGroup(h)
  BY DEF InGroup, Alive, Up
<1>4. Settled(h, Target) => Settled(h, Target)'
  BY <1>1, <1>3 DEF Settled
<1>5. \A n : Quiesced(h, n)' <=> Quiesced(h, n)
  BY DEF Quiesced
<1>6. iter.nsid # 0 => ~bad
  BY <1>2 DEF ChangeOK
<1>7. FieldsOK(h)'
  BY <1>2 DEF FieldsOK
<1> QED BY <1>1, <1>2, <1>3, <1>4, <1>5, <1>6, <1>7 DEF VisitOK

(* What becomes of the queue of a change's visits when the group g moves:  *)
(* its visit goes on, or it is over.                                       *)
Moves(g) ==
  \/ UNCHANGED <<iter, app>>
  \/ iter.at = g /\ \E bad \in BOOLEAN : (bad => iter.req = "active") /\ Continues(bad)

CountsOf(g, p, c) ==
  /\ Cardinality(AdminsOf(c, g)) <= p.mgmt
  /\ \A n \in Nsids : p.io[n] = Cardinality(IosOf(c, g, n))

OthersCount(g, c, d) ==
  \A h \in Groups \ {g} : /\ AdminsOf(d, h) = AdminsOf(c, h)
                          /\ \A n : IosOf(d, h, n) = IosOf(c, h, n)

(* A step of the group g, whose part of the subsystem becomes p.           *)
LEMMA GroupStep ==
  ASSUME Inv, NEW g \in Groups, NEW p \in Group, sg' = [sg EXCEPT ![g] = p],
         UNCHANGED <<sub, ctrlr, listening, ops, fault>>,
         qp' \in [Qpairs -> QpairState], cmd' \in [Cmds -> Cmd], CommandsOK',
         \A q \in Qpairs : (qp'[q] = "gone" <=> qp[q] = "gone") /\ (Up(qp'[q]) => Up(qp[q])),
         Moves(g), FieldsOK(g)', VisitOK(g)', CountsOf(g, p, cmd'),
         OthersCount(g, cmd, cmd')
  PROVE  Inv'
<1>1. /\ sub' = sub /\ ctrlr' = ctrlr /\ listening' = listening /\ ops' = ops /\ fault' = fault
      /\ TypeOK /\ sg'[g] = p /\ \A h \in Groups \ {g} : sg'[h] = sg[h]
      /\ sg' \in [Groups -> Group]
  BY DEF Inv, TypeOK
<1>2. iter' \in Change /\ app' \in Seq(Message) /\ MessagesOK' /\ ChangeOK'
  <2>1. CASE UNCHANGED <<iter, app>>
    <3>1. iter' = iter /\ app' = app
      BY <2>1
    <3> QED BY <1>1, <3>1 DEF Inv, TypeOK, MessagesOK, EndsOnce, ChangeOK
  <2>2. CASE ~UNCHANGED <<iter, app>>
    <3>1. PICK bad \in BOOLEAN : iter.at = g /\ (bad => iter.req = "active") /\ Continues(bad)
      BY <2>2 DEF Moves
    <3> QED BY <1>1, <3>1, ContinuesGood
  <2> QED BY <2>1, <2>2
<1>3. ASSUME NEW h \in Groups \ {g} PROVE FieldsOK(h)' /\ VisitOK(h)'
  <2>1. FieldsOK(h) /\ VisitOK(h) /\ sg'[h] = sg[h]
    BY <1>1 DEF Inv, GroupsOK
  <2>2. \A q \in Qpairs : Up(qp'[q]) => Up(qp[q])
    OBVIOUS
  <2>3. CASE UNCHANGED <<iter, app>>
    BY <1>1, <2>1, <2>2, <2>3, GroupAside
  <2>4. CASE ~UNCHANGED <<iter, app>>
    <3>1. PICK bad \in BOOLEAN : iter.at = g /\ (bad => iter.req = "active") /\ Continues(bad)
      BY <2>4 DEF Moves
    <3> QED BY <1>1, <2>1, <2>2, <3>1, OthersContinue
  <2> QED BY <2>3, <2>4
<1>4. GroupsOK'
  BY <1>3 DEF GroupsOK
<1>5. CountsOK'
  <2> SUFFICES ASSUME NEW h \in Groups PROVE CountsOf(h, sg'[h], cmd')
    BY DEF CountsOK, CountsOf
  <2>1. CountsOf(h, sg[h], cmd)
    BY DEF Inv, CountsOK, CountsOf
  <2>2. CASE h = g
    BY <1>1, <2>2
  <2>3. CASE h # g
    <3>1. /\ sg'[h] = sg[h] /\ AdminsOf(cmd', h) = AdminsOf(cmd, h)
          /\ \A n \in Nsids : IosOf(cmd', h, n) = IosOf(cmd, h, n)
      BY <1>1, <2>3 DEF OthersCount
    <3> QED BY <2>1, <3>1 DEF CountsOf
  <2> QED BY <2>2, <2>3
<1>6. LifeOK'
  BY <1>1 DEF Inv, LifeOK
<1>7. TypeOK'
  BY <1>1, <1>2 DEF TypeOK
<1> QED BY <1>2, <1>4, <1>5, <1>6, <1>7 DEF Inv

(* The visit of g is over and leaves it as it should.                      *)
LEMMA VisitEnds ==
  ASSUME Inv, NEW g \in Groups, iter.at = g, NEW bad \in BOOLEAN, bad => iter.req = "active",
         Continues(bad), sub' = sub, ctrlr' = ctrlr, sg'[g].cb = "none",
         ~bad => sg'[g].state = iter.req,
         ~bad /\ iter.req = "inactive" => sg'[g].chan = {} /\ InGroup(g)' = {},
         iter.nsid # 0 => Quiesced(g, iter.nsid)',
         \A q \in Qpairs : Up(qp'[q]) => Up(qp[q])
  PROVE  VisitOK(g)'
<1>1. /\ iter'.req = iter.req /\ iter'.nsid = iter.nsid /\ Target' = Target /\ (Reached(g)' <=> ~bad)
      /\ ChangeOK /\ ChangeOK'
  BY ContinuesGood DEF Inv
<1>2. Target = iter.req
  BY <1>1, IdleType DEF Target, ChangeOK
<1>3. sub.state = "activating" => InGroup(g)' = {}
  <2>1. sub.state = "activating" => InGroup(g) = {}
    BY DEF Inv, GroupsOK, VisitOK
  <2> QED BY <2>1 DEF InGroup, Alive, Up
<1>4. iter.nsid # 0 => ~bad
  BY <1>1 DEF ChangeOK
<1>5. Reached(g)' => Settled(g, Target)'
  BY <1>1, <1>2 DEF Settled
<1> QED BY <1>1, <1>3, <1>4, <1>5 DEF VisitOK, Quiesced

(* Disjoint sets count for their sum.                                      *)
LEMMA DisjointUnion ==
  ASSUME NEW S, NEW T, IsFiniteSet(S), IsFiniteSet(T), S \cap T = {}
  PROVE  Cardinality(S \cup T) = Cardinality(S) + Cardinality(T)
<1>1. Cardinality(S \cup T) = Cardinality(S) + Cardinality(T) - Cardinality(S \cap T)
  BY FS_Union
<1>2. Cardinality(S \cap T) = 0
  BY FS_EmptySet
<1>3. Cardinality(S) \in Nat /\ Cardinality(T) \in Nat
  BY FS_CardinalityType
<1> QED BY <1>1, <1>2, <1>3

(* The commands C do not run yet, become c, and may run on the group g.    *)
Started(g, C, c) ==
  /\ \A r \in Cmds \ C : c[r] = cmd[r]
  /\ \A r \in C : /\ cmd[r].state # "running"
                  /\ c[r].state = "running" => QGroup[c[r].q] = g

(* Nothing of what a group counts starts among the commands C.             *)
NoAdmin(C, c) == \A r \in C : /\ ~(c[r].state = "running" /\ c[r].kind = "admin")
                              /\ ~(cmd[r].kind = "aer" /\ c[r] = NoCmd)
NoIo(C, c, n) == \A r \in C : ~(c[r].state = "running" /\ c[r].kind = "io" /\ c[r].ns = n)

(* What a group counts for the commands C that become c.                   *)
LEMMA CountedGood ==
  ASSUME TypeOK, NEW g \in Groups, NEW s \in Group, NEW C \in SUBSET Cmds, NEW c \in [Cmds -> Cmd],
         CountsOf(g, s, cmd),
         Started(g, C, c)
  PROVE  LET p == Counted(C, c, s)
         IN  /\ p \in Group /\ CountsOf(g, p, c)
             /\ p.state = s.state /\ p.nstate = s.nstate /\ p.chan = s.chan /\ p.cb = s.cb
             /\ NoAdmin(C, c) => p.mgmt = s.mgmt
             /\ \A n \in Nsids : NoIo(C, c, n) => p.io[n] = s.io[n]
             /\ OthersCount(g, cmd, c)
<1> DEFINE W == {r \in C : \/ c[r].state = "running" /\ c[r].kind = "admin"
                           \/ cmd[r].kind = "aer" /\ c[r] = NoCmd}
           A == {r \in C : c[r].state = "running" /\ c[r].kind = "admin"}
           I(n) == {r \in C : c[r].state = "running" /\ c[r].kind = "io" /\ c[r].ns = n}
           m == s.mgmt + Cardinality(W)
           f == [n \in Nsids |-> s.io[n] + Cardinality(I(n))]
           p == Counted(C, c, s)
<1>1. /\ IsFiniteSet(Cmds) /\ IsFiniteSet(W) /\ IsFiniteSet(A) /\ Cardinality(A) <= Cardinality(W)
      /\ Cardinality(W) \in Nat /\ Cardinality(A) \in Nat
      /\ \A n : IsFiniteSet(I(n)) /\ Cardinality(I(n)) \in Nat
      /\ \A h, n : /\ IsFiniteSet(AdminsOf(cmd, h)) /\ Cardinality(AdminsOf(cmd, h)) \in Nat
                   /\ IsFiniteSet(IosOf(cmd, h, n)) /\ Cardinality(IosOf(cmd, h, n)) \in Nat
  <2>1. IsFiniteSet(Cmds)
    BY CmdsAssumption
  <2>2. IsFiniteSet(W) /\ IsFiniteSet(A) /\ \A n : IsFiniteSet(I(n))
    BY <2>1, FS_Subset
  <2>3. A \in SUBSET W
    OBVIOUS
  <2> HIDE DEF W, A, I
  <2>4. \A h, n : IsFiniteSet(AdminsOf(cmd, h)) /\ IsFiniteSet(IosOf(cmd, h, n))
    BY <2>1, FS_Subset DEF AdminsOf, IosOf
  <2> QED BY <2>1, <2>2, <2>3, <2>4, FS_Subset, FS_CardinalityType
<1>2. p = [s EXCEPT !.mgmt = m, !.io = f]
  BY DEF Counted, Group
<1>3. A \subseteq C /\ (\A n : I(n) \subseteq C)
  OBVIOUS
<1>4. AdminsOf(c, g) = AdminsOf(cmd, g) \cup A /\ AdminsOf(cmd, g) \cap A = {}
  BY DEF AdminsOf, Started
<1>5. \A n \in Nsids : IosOf(c, g, n) = IosOf(cmd, g, n) \cup I(n) /\ IosOf(cmd, g, n) \cap I(n) = {}
  BY DEF IosOf, Started
<1>6. OthersCount(g, cmd, c)
  BY DEF OthersCount, AdminsOf, IosOf, Started
<1>7. NoAdmin(C, c) => W = {}
  BY DEF NoAdmin
<1>8. \A n \in Nsids : NoIo(C, c, n) => I(n) = {}
  BY DEF NoIo
<1> HIDE DEF W, A, I
<1>9. m \in Nat /\ f \in [Nsids -> Nat]
  BY <1>1 DEF Group
<1>10. \A n \in Nsids : f[n] = s.io[n] + Cardinality(I(n))
  OBVIOUS
<1>11. (W = {} => m = s.mgmt) /\ \A n \in Nsids : I(n) = {} => f[n] = s.io[n]
  <2>1. Cardinality({}) = 0
    BY FS_EmptySet
  <2>2. s.mgmt \in Nat /\ \A n \in Nsids : s.io[n] \in Nat
    BY DEF Group
  <2>3. (W = {} => Cardinality(W) = 0) /\ \A n : I(n) = {} => Cardinality(I(n)) = 0
    BY <2>1
  <2>4. W = {} => m = s.mgmt
    BY <2>2, <2>3
  <2> HIDE DEF m, f
  <2> QED BY <1>10, <2>2, <2>3, <2>4
<1>12. Cardinality(AdminsOf(c, g)) <= m
  <2>1. Cardinality(AdminsOf(c, g)) = Cardinality(AdminsOf(cmd, g)) + Cardinality(A)
    BY <1>1, <1>4, DisjointUnion
  <2>2. Cardinality(AdminsOf(cmd, g)) <= s.mgmt /\ s.mgmt \in Nat
    BY DEF CountsOf, Group
  <2>3. /\ Cardinality(AdminsOf(cmd, g)) \in Nat /\ Cardinality(A) \in Nat
        /\ Cardinality(W) \in Nat /\ Cardinality(A) <= Cardinality(W)
    BY <1>1
  <2>4. m = s.mgmt + Cardinality(W)
    OBVIOUS
  <2> HIDE DEF m
  <2> QED BY <2>1, <2>2, <2>3, <2>4
<1>13. \A n \in Nsids : f[n] = Cardinality(IosOf(c, g, n))
  <2> SUFFICES ASSUME NEW n \in Nsids PROVE f[n] = Cardinality(IosOf(c, g, n))
    OBVIOUS
  <2>1. Cardinality(IosOf(c, g, n)) = Cardinality(IosOf(cmd, g, n)) + Cardinality(I(n))
    BY <1>1, <1>5, DisjointUnion
  <2>2. s.io[n] = Cardinality(IosOf(cmd, g, n))
    BY DEF CountsOf
  <2> QED BY <1>10, <2>1, <2>2
<1> HIDE DEF m, f, p
<1>14. /\ p \in Group /\ p.state = s.state /\ p.nstate = s.nstate /\ p.chan = s.chan /\ p.cb = s.cb
       /\ p.mgmt = m /\ p.io = f
  BY <1>2, <1>9 DEF Group
<1>15. CountsOf(g, p, c)
  BY <1>12, <1>13, <1>14 DEF CountsOf
<1> QED BY <1>6, <1>7, <1>8, <1>11, <1>14, <1>15 DEF p

(* Commands and queue pairs that are left alone.                           *)
LEMMA CommandsStay ==
  ASSUME Inv, sub' = sub, fault' = fault, UNCHANGED <<qp, cmd>>,
         \A r \in Cmds : cmd[r].state = "queued" => sg'[QGroup[cmd[r].q]].state # "active"
  PROVE  /\ qp' \in [Qpairs -> QpairState] /\ cmd' \in [Cmds -> Cmd] /\ CommandsOK'
         /\ \A q \in Qpairs : (qp'[q] = "gone" <=> qp[q] = "gone") /\ (Up(qp'[q]) => Up(qp[q]))
         /\ \A g : OthersCount(g, cmd, cmd')
<1>1. qp' = qp /\ cmd' = cmd
  OBVIOUS
<1>2. ASSUME NEW r \in Cmds PROVE CommandOK(r)'
  <2>1. CommandOK(r)
    BY DEF Inv, CommandsOK
  <2>2. cmd[r].state = "queued" => sg'[QGroup[cmd[r].q]].state # "active"
    OBVIOUS
  <2> QED BY <1>1, <2>1, <2>2 DEF CommandOK, Alive
<1> QED BY <1>1, <1>2 DEF Inv, TypeOK, CommandsOK, OthersCount

(* No namespace that is gone has I/O running on it: its counts are zero.   *)
LEMMA UpdatedGood ==
  ASSUME Inv, fault = "none", NEW g \in Groups, NEW k \in Nat
  PROVE  LET p == Updated(sg[g], k)
         IN  /\ p \in Group /\ CountsOf(g, p, cmd)
             /\ p.state = sg[g].state /\ p.mgmt = sg[g].mgmt /\ p.cb = sg[g].cb
<1> DEFINE s == sg[g]
           gone == {n \in Nsids : n < k /\ n \notin sub.ns}
           ch == {n \in Nsids : IF n < k THEN n \in sub.ns ELSE n \in s.chan}
           io == [n \in Nsids |-> IF n \in gone THEN 0 ELSE s.io[n]]
           ns == [n \in Nsids |-> IF n \in gone THEN "inactive" ELSE s.nstate[n]]
           p == Updated(s, k)
<1>1. s \in Group /\ CountsOf(g, s, cmd)
  BY DEF Inv, TypeOK, CountsOK, CountsOf
<1>2. p = [s EXCEPT !.chan = ch, !.io = io, !.nstate = ns]
  BY <1>1 DEF Updated, Group
<1>3. ch \in SUBSET Nsids /\ io \in [Nsids -> Nat] /\ ns \in [Nsids -> {"inactive", "active", "pausing"}]
  BY <1>1 DEF Group
<1>4. \A n \in gone : IosOf(cmd, g, n) = {}
  <2> SUFFICES ASSUME NEW n \in gone PROVE \A r \in Cmds : r \notin IosOf(cmd, g, n)
    BY DEF IosOf
  <2>1. n \notin sub.ns
    OBVIOUS
  <2>2. \A r \in Cmds : cmd[r].state = "running" /\ cmd[r].kind = "io" => cmd[r].ns \in sub.ns
    BY DEF Inv, CommandsOK, CommandOK
  <2> QED BY <2>1, <2>2 DEF IosOf
<1>5. \A n \in Nsids : io[n] = IF n \in gone THEN 0 ELSE s.io[n]
  OBVIOUS
<1> HIDE DEF gone
<1>6. \A n \in Nsids : io[n] = Cardinality(IosOf(cmd, g, n))
  <2> SUFFICES ASSUME NEW n \in Nsids PROVE io[n] = Cardinality(IosOf(cmd, g, n))
    OBVIOUS
  <2>1. CASE n \in gone
    BY <1>4, <1>5, <2>1, FS_EmptySet
  <2>2. CASE n \notin gone
    BY <1>1, <1>5, <2>2 DEF CountsOf
  <2> QED BY <2>1, <2>2
<1> HIDE DEF ch, io, ns, p
<1>7. p \in Group /\ p.state = s.state /\ p.mgmt = s.mgmt /\ p.cb = s.cb /\ p.io = io
  BY <1>1, <1>2, <1>3 DEF Group
<1>8. CountsOf(g, p, cmd)
  BY <1>1, <1>6, <1>7 DEF CountsOf
<1> QED BY <1>7, <1>8 DEF p

(* A group that is activated, or no longer, keeps its counts.              *)
LEMMA ActivatedGood ==
  ASSUME NEW g, NEW p \in Group, CountsOf(g, p, cmd)
  PROVE  /\ Activated(p) \in Group /\ CountsOf(g, Activated(p), cmd)
         /\ Activated(p).state = "active" /\ Activated(p).cb = p.cb
         /\ \A n \in Nsids : Activated(p).nstate[n] = "active"
         /\ Inactivated(p) \in Group /\ CountsOf(g, Inactivated(p), cmd)
         /\ Inactivated(p).state = "inactive" /\ Inactivated(p).cb = p.cb
<1> DEFINE a == [n \in Nsids |-> "active"]
           i == [n \in Nsids |-> "inactive"]
<1>1. /\ a \in [Nsids -> {"inactive", "active", "pausing"}] /\ \A n \in Nsids : a[n] = "active"
      /\ i \in [Nsids -> {"inactive", "active", "pausing"}]
  OBVIOUS
<1>2. /\ Activated(p) = [p EXCEPT !.state = "active", !.nstate = a]
      /\ Inactivated(p) = [p EXCEPT !.state = "inactive", !.nstate = i]
  BY DEF Activated, Inactivated
<1> HIDE DEF a, i
<1>3. /\ Activated(p) \in Group /\ Activated(p).state = "active" /\ Activated(p).cb = p.cb
      /\ Activated(p).nstate = a /\ Activated(p).mgmt = p.mgmt /\ Activated(p).io = p.io
  <2>1. \A x \in [Nsids -> {"inactive", "active", "pausing"}] :
          LET v == [p EXCEPT !.state = "active", !.nstate = x]
          IN  v \in Group /\ v.state = "active" /\ v.cb = p.cb /\ v.nstate = x
              /\ v.mgmt = p.mgmt /\ v.io = p.io
    BY DEF Group
  <2>2. PICK v : v = [p EXCEPT !.state = "active", !.nstate = a]
    OBVIOUS
  <2>3. /\ v \in Group /\ v.state = "active" /\ v.cb = p.cb /\ v.nstate = a
        /\ v.mgmt = p.mgmt /\ v.io = p.io
    BY <1>1, <2>1, <2>2
  <2> QED BY <1>2, <2>2, <2>3
<1>4. /\ Inactivated(p) \in Group /\ Inactivated(p).state = "inactive" /\ Inactivated(p).cb = p.cb
      /\ Inactivated(p).mgmt = p.mgmt /\ Inactivated(p).io = p.io
  <2>1. \A x \in [Nsids -> {"inactive", "active", "pausing"}] :
          LET v == [p EXCEPT !.state = "inactive", !.nstate = x]
          IN  v \in Group /\ v.state = "inactive" /\ v.cb = p.cb /\ v.mgmt = p.mgmt /\ v.io = p.io
    BY DEF Group
  <2>2. PICK v : v = [p EXCEPT !.state = "inactive", !.nstate = i]
    OBVIOUS
  <2>3. v \in Group /\ v.state = "inactive" /\ v.cb = p.cb /\ v.mgmt = p.mgmt /\ v.io = p.io
    BY <1>1, <2>1, <2>2
  <2> QED BY <1>2, <2>2, <2>3
<1> QED BY <1>1, <1>3, <1>4 DEF CountsOf

(* What every step of a group knows.                                       *)
LEMMA GroupFacts ==
  ASSUME Inv, NEW g \in Groups
  PROVE  /\ TypeOK /\ sg[g] \in Group /\ FieldsOK(g) /\ VisitOK(g) /\ CountsOf(g, sg[g], cmd)
         /\ sg = [sg EXCEPT ![g] = sg[g]]
         /\ (iter.at = g => sub.changing /\ ~iter.bad /\ ~Reached(g))
<1>1. TypeOK /\ FieldsOK(g) /\ VisitOK(g) /\ CountsOf(g, sg[g], cmd) /\ ChangeOK
  BY DEF Inv, GroupsOK, CountsOK, CountsOf
<1>2. iter.at = g => sub.changing /\ ~iter.bad /\ ~Reached(g)
  BY <1>1, IdleType DEF ChangeOK, Reached
<1> QED BY <1>1, <1>2 DEF TypeOK

(* nvmf_poll_group_pause_subsystem.                                        *)
LEMMA PauseInv ==
  ASSUME Inv, NEW g \in Groups, iter.at = g, sg[g].cb = "none", iter.req = "paused", Pause(g),
         UNCHANGED <<sub, ctrlr, listening, ops, fault>>
  PROVE  Inv'
<1> DEFINE ns == [n \in Nsids |-> IF n = iter.nsid THEN "pausing" ELSE sg[g].nstate[n]]
           s == [sg[g] EXCEPT !.state = "pausing", !.nstate = ns]
<1>1. /\ TypeOK /\ sg[g] \in Group /\ FieldsOK(g) /\ VisitOK(g) /\ CountsOf(g, sg[g], cmd)
      /\ sg = [sg EXCEPT ![g] = sg[g]] /\ sub.changing /\ ~iter.bad /\ ~Reached(g)
      /\ iter.nsid \in 0 .. MaxNsid
  BY GroupFacts DEF TypeOK, Change
<1>2. UNCHANGED <<qp, cmd>> /\ sub' = sub /\ ctrlr' = ctrlr /\ fault' = fault
  BY DEF Pause
<1>3. ns \in [Nsids -> {"inactive", "active", "pausing"}] /\ (iter.nsid # 0 => ns[iter.nsid] = "pausing")
  BY <1>1 DEF Group
<1>4. s \in Group /\ s.state = "pausing" /\ s.mgmt = sg[g].mgmt /\ s.io = sg[g].io /\ s.cb = "none"
      /\ s.nstate = ns /\ s.chan = sg[g].chan
  BY <1>1, <1>3 DEF Group
<1>5. \A q \in Qpairs : Up(qp'[q]) => Up(qp[q])
  BY <1>2
<1>6. /\ \/ sg[g].state = "paused" /\ Continues(FALSE) /\ UNCHANGED sg
         \/ /\ sg[g].state # "paused"
            /\ sg' = [sg EXCEPT ![g] = [s EXCEPT !.cb = "pause"]] /\ UNCHANGED <<iter, app>>
         \/ /\ ~(s.mgmt > 0 \/ (iter.nsid # 0 /\ s.io[iter.nsid] > 0))
            /\ sg' = [sg EXCEPT ![g] = [s EXCEPT !.state = "paused"]] /\ Continues(FALSE)
  BY DEF Pause
<1> HIDE DEF s, ns
<1>7. ASSUME NEW p \in Group, sg' = [sg EXCEPT ![g] = p], p.state # "active",
             p.mgmt = sg[g].mgmt, p.io = sg[g].io, Moves(g), FieldsOK(g)', VisitOK(g)'
      PROVE  Inv'
  <2>1. \A r \in Cmds : cmd[r].state = "queued" => sg'[QGroup[cmd[r].q]].state # "active"
    <3>1. ASSUME NEW r \in Cmds, cmd[r].state = "queued"
          PROVE  sg'[QGroup[cmd[r].q]].state # "active"
      <4>1. sg[QGroup[cmd[r].q]].state # "active" /\ QGroup[cmd[r].q] \in Groups
        BY <1>1, <3>1 DEF Inv, CommandsOK, CommandOK, TypeOK, Cmd
      <4> QED BY <1>1, <1>7, <4>1 DEF TypeOK
    <3> QED BY <3>1
  <2>2. CountsOf(g, p, cmd')
    BY <1>1, <1>2, <1>7 DEF CountsOf
  <2> QED BY <1>2, <1>7, <2>1, <2>2, CommandsStay, GroupStep
<1>8. CASE sg[g].state = "paused" /\ Continues(FALSE) /\ UNCHANGED sg
  <2>1. FieldsOK(g)' /\ sg'[g] = sg[g]
    BY <1>1, <1>8 DEF FieldsOK
  <2>2. iter.nsid = 0
    BY <1>1, <1>8 DEF VisitOK
  <2>3. VisitOK(g)'
    BY <1>2, <1>5, <1>8, <2>1, <2>2, VisitEnds
  <2>4. Moves(g)
    BY <1>8 DEF Moves
  <2> QED BY <1>1, <1>7, <1>8, <2>1, <2>3, <2>4
<1>9. CASE /\ sg[g].state # "paused"
           /\ sg' = [sg EXCEPT ![g] = [s EXCEPT !.cb = "pause"]] /\ UNCHANGED <<iter, app>>
  <2> DEFINE p == [s EXCEPT !.cb = "pause"]
  <2>1. p \in Group /\ p.state = "pausing" /\ p.mgmt = sg[g].mgmt /\ p.io = sg[g].io /\ p.cb = "pause"
        /\ p.nstate = ns
    BY <1>4 DEF Group
  <2> HIDE DEF p
  <2>2. sg' = [sg EXCEPT ![g] = p] /\ iter' = iter
    BY <1>9 DEF p
  <2>3. sg'[g] = p
    BY <1>1, <2>2 DEF TypeOK
  <2>4. FieldsOK(g)'
    BY <2>1, <2>3 DEF FieldsOK
  <2>5. ~Reached(g)'
    BY <1>1, <1>2, <2>2 DEF Reached
  <2>6. sub.state = "activating" => InGroup(g)' = {}
    BY <1>1, <1>2 DEF VisitOK, InGroup, Alive
  <2>7. VisitOK(g)'
    BY <1>2, <1>3, <2>1, <2>2, <2>3, <2>5, <2>6 DEF VisitOK
  <2>8. Moves(g)
    BY <1>9 DEF Moves
  <2> QED BY <1>7, <2>1, <2>2, <2>4, <2>7, <2>8
<1>10. CASE /\ ~(s.mgmt > 0 \/ (iter.nsid # 0 /\ s.io[iter.nsid] > 0))
            /\ sg' = [sg EXCEPT ![g] = [s EXCEPT !.state = "paused"]] /\ Continues(FALSE)
  <2> DEFINE p == [s EXCEPT !.state = "paused"]
  <2>1. p \in Group /\ p.state = "paused" /\ p.mgmt = sg[g].mgmt /\ p.io = sg[g].io /\ p.cb = "none"
        /\ p.nstate = ns
    BY <1>4 DEF Group
  <2>2. p.mgmt = 0 /\ (iter.nsid # 0 => p.io[iter.nsid] = 0)
    <3>1. sg[g].mgmt \in Nat /\ (iter.nsid # 0 => sg[g].io[iter.nsid] \in Nat)
      BY <1>1 DEF Group
    <3>2. ~(sg[g].mgmt > 0) /\ ~(iter.nsid # 0 /\ sg[g].io[iter.nsid] > 0)
      BY <1>4, <1>10
    <3> HIDE DEF p
    <3> QED BY <2>1, <3>1, <3>2
  <2> HIDE DEF p
  <2>3. sg' = [sg EXCEPT ![g] = p]
    BY <1>10 DEF p
  <2>4. sg'[g] = p
    BY <1>1, <2>3 DEF TypeOK
  <2>5. FieldsOK(g)'
    BY <2>1, <2>2, <2>4 DEF FieldsOK
  <2>6. iter.nsid # 0 => Quiesced(g, iter.nsid)'
    <3>1. ASSUME iter.nsid # 0 PROVE Quiesced(g, iter.nsid)'
      <4>1. iter'.nsid = iter.nsid
        BY <1>2, <1>10, ContinuesGood
      <4> QED BY <1>3, <2>1, <2>2, <2>4, <3>1, <4>1 DEF Quiesced
    <3> QED BY <3>1
  <2>7. VisitOK(g)'
    BY <1>2, <1>5, <1>10, <2>1, <2>4, <2>6, VisitEnds
  <2>8. Moves(g)
    BY <1>10 DEF Moves
  <2> QED BY <1>7, <2>1, <2>3, <2>5, <2>7, <2>8
<1> QED BY <1>6, <1>8, <1>9, <1>10

(* No command is left on a group whose queue pairs are gone.               *)
LEMMA NoQpairNoCommand ==
  ASSUME Inv, NEW g \in Groups, InGroup(g) = {}, NEW r \in Cmds, QGroup[cmd[r].q] = g
  PROVE  cmd[r].state = "idle"
<1>1. CommandOK(r) /\ cmd[r].q \in Qpairs
  BY DEF Inv, CommandsOK, TypeOK, Cmd
<1> QED BY <1>1 DEF CommandOK, InGroup

(* The visit of g is over and touched no command and no queue pair.        *)
LEMMA QuietVisit ==
  ASSUME Inv, NEW g \in Groups, iter.at = g, NEW bad \in BOOLEAN, bad => iter.req = "active",
         Continues(bad), NEW p \in Group, sg' = [sg EXCEPT ![g] = p], CountsOf(g, p, cmd),
         p.cb = "none", p.state # "pausing", iter.req # "paused",
         ~bad => p.state = iter.req,
         p.state = "active" => \A n \in Nsids : p.nstate[n] = "active",
         p.state = "active" => sg[g].state = "active" \/ InGroup(g) = {},
         p.state = "paused" => p.mgmt = 0,
         ~bad /\ iter.req = "inactive" => p.chan = {} /\ InGroup(g) = {},
         UNCHANGED <<sub, ctrlr, listening, ops, fault, qp, cmd>>
  PROVE  Inv'
<1>1. /\ sub' = sub /\ ctrlr' = ctrlr /\ fault' = fault /\ qp' = qp /\ cmd' = cmd
      /\ TypeOK /\ sg'[g] = p /\ Moves(g)
      /\ UNCHANGED <<qp, cmd>> /\ UNCHANGED <<sub, ctrlr, listening, ops, fault>>
  BY DEF Inv, TypeOK, Moves
<1>2. FieldsOK(g)'
  BY <1>1 DEF FieldsOK
<1>3. iter.nsid = 0
  BY DEF Inv, ChangeOK
<1>4. InGroup(g)' = InGroup(g) /\ \A q \in Qpairs : Up(qp'[q]) => Up(qp[q])
  BY <1>1 DEF InGroup, Alive
<1>5. VisitOK(g)'
  BY <1>1, <1>3, <1>4, VisitEnds
<1>6. ASSUME NEW r \in Cmds, cmd[r].state = "queued"
      PROVE  sg'[QGroup[cmd[r].q]].state # "active"
  <2>1. sg[QGroup[cmd[r].q]].state # "active" /\ QGroup[cmd[r].q] \in Groups
    BY <1>1, <1>6 DEF Inv, CommandsOK, CommandOK, TypeOK, Cmd
  <2>2. CASE QGroup[cmd[r].q] # g
    BY <1>1, <2>1, <2>2 DEF TypeOK
  <2>3. CASE QGroup[cmd[r].q] = g
    BY <1>1, <1>6, <2>1, <2>3, NoQpairNoCommand
  <2> QED BY <2>2, <2>3
<1>7. /\ qp' \in [Qpairs -> QpairState] /\ cmd' \in [Cmds -> Cmd] /\ CommandsOK'
      /\ \A q \in Qpairs : (qp'[q] = "gone" <=> qp[q] = "gone") /\ (Up(qp'[q]) => Up(qp[q]))
      /\ \A h : OthersCount(h, cmd, cmd')
  BY <1>1, <1>6, CommandsStay
<1> QED BY <1>1, <1>2, <1>5, <1>7, GroupStep

(* nvmf_poll_group_add_subsystem.                                          *)
LEMMA AddInv ==
  ASSUME Inv, fault = "none", NEW g \in Groups, iter.at = g, sg[g].cb = "none",
         iter.req = "active", sub.state = "activating", Add(g),
         UNCHANGED <<sub, ctrlr, listening, ops, fault>>
  PROVE  Inv'
<1>1. /\ sg[g] \in Group /\ FieldsOK(g) /\ VisitOK(g) /\ CountsOf(g, sg[g], cmd) /\ TypeOK
  BY GroupFacts
<1>2. InGroup(g) = {}
  BY <1>1 DEF VisitOK
<1>3. PICK k \in UpdateEnds(sg[g]) :
        /\ sg' = [sg EXCEPT ![g] = IF k > MaxNsid THEN Activated(Updated(@, k))
                                   ELSE [Inactivated(@) EXCEPT !.chan = {}]]
        /\ Continues(k <= MaxNsid) /\ UNCHANGED <<qp, cmd>>
  BY DEF Add
<1>4. k \in Nat
  BY <1>1 DEF UpdateEnds, TypeOK, Subsystem
<1>5. CASE k > MaxNsid
  <2> DEFINE u == Updated(sg[g], k)
             p == Activated(u)
  <2>1. u \in Group /\ CountsOf(g, u, cmd) /\ u.cb = "none"
    BY <1>4, UpdatedGood
  <2>2. sg' = [sg EXCEPT ![g] = p]
    BY <1>1, <1>3, <1>5 DEF TypeOK
  <2> HIDE DEF u
  <2>3. p \in Group /\ CountsOf(g, p, cmd) /\ p.cb = "none" /\ p.state = "active"
        /\ \A n \in Nsids : p.nstate[n] = "active"
    BY <2>1, ActivatedGood
  <2>4. Continues(FALSE) /\ FALSE \in BOOLEAN
    <3>1. (k <= MaxNsid) = FALSE
      BY <1>4, <1>5
    <3> QED BY <1>3, <3>1
  <2> HIDE DEF p
  <2> QED BY <1>2, <1>3, <2>2, <2>3, <2>4, QuietVisit
<1>6. CASE ~(k > MaxNsid)
  <2> DEFINE i == Inactivated(sg[g])
             p == [i EXCEPT !.chan = {}]
  <2>1. i \in Group /\ CountsOf(g, i, cmd) /\ i.cb = "none" /\ i.state = "inactive"
    BY <1>1, ActivatedGood
  <2>2. sg' = [sg EXCEPT ![g] = p]
    BY <1>1, <1>3, <1>6 DEF TypeOK
  <2> HIDE DEF i
  <2>3. p \in Group /\ p.cb = "none" /\ p.state = "inactive" /\ p.mgmt = i.mgmt /\ p.io = i.io
    BY <2>1 DEF Group
  <2>4. CountsOf(g, p, cmd)
    BY <2>1, <2>3 DEF CountsOf
  <2>5. Continues(TRUE) /\ TRUE \in BOOLEAN
    <3>1. (k <= MaxNsid) = TRUE
      BY <1>4, <1>6
    <3> QED BY <1>3, <3>1
  <2> HIDE DEF p
  <2> QED BY <1>3, <2>2, <2>3, <2>4, <2>5, QuietVisit
<1> QED BY <1>5, <1>6

(* nvmf_poll_group_remove_subsystem_msg.                                   *)
LEMMA RemovesInv ==
  ASSUME Inv, NEW g \in Groups, iter.at = g, iter.req = "inactive", NEW s \in Group,
         s.state = "inactive", CountsOf(g, s, cmd), Removes(g, s),
         UNCHANGED <<sub, ctrlr, listening, ops, fault>>
  PROVE  Inv'
<1>1. /\ TypeOK /\ FieldsOK(g) /\ VisitOK(g) /\ ~Reached(g) /\ sub.changing
  BY GroupFacts
<1>2. CASE InGroup(g) = {}
  <2> DEFINE p == [s EXCEPT !.chan = {}, !.cb = "none"]
  <2>1. p \in Group /\ p.state = "inactive" /\ p.cb = "none" /\ p.chan = {} /\ p.mgmt = s.mgmt
        /\ p.io = s.io
    BY DEF Group
  <2>2. sg' = [sg EXCEPT ![g] = p] /\ Continues(FALSE) /\ UNCHANGED <<qp, cmd>>
    BY <1>2 DEF Removes
  <2> HIDE DEF p
  <2>3. CountsOf(g, p, cmd)
    BY <2>1 DEF CountsOf
  <2>4. FALSE \in BOOLEAN
    OBVIOUS
  <2> QED BY <1>2, <2>1, <2>2, <2>3, <2>4, QuietVisit
<1>3. CASE InGroup(g) # {}
  <2> DEFINE p == [s EXCEPT !.cb = "remove"]
  <2>1. p \in Group /\ p.state = "inactive" /\ p.cb = "remove" /\ p.mgmt = s.mgmt /\ p.io = s.io
    BY DEF Group
  <2>2. /\ sg' = [sg EXCEPT ![g] = p] /\ Disconnects(InGroup(g)) /\ UNCHANGED <<iter, app>>
        /\ sub' = sub /\ fault' = fault /\ iter' = iter
    BY <1>3 DEF Removes
  <2> HIDE DEF p
  <2>3. sg'[g] = p /\ \A h \in Groups : sg'[h].state = "active" => sg[h].state = "active"
    BY <1>1, <2>1, <2>2 DEF TypeOK
  <2>4. PICK t \in [Qpairs -> QpairState], c \in [Cmds -> Cmd] :
           /\ Drains(t, c)
           /\ \A q \in Qpairs : (t[q] = "gone" <=> qp[q] = "gone") /\ (Up(t[q]) <=> Up(qp[q]))
           /\ \A r \in Cmds : c[r] = cmd[r] \/ (c[r] = NoCmd /\ cmd[r].state # "running")
    BY <1>1, <2>2, DisconnectsDrains
  <2>5. \A r \in Cmds : c[r] = cmd[r] \/ c[r] = NoCmd
    BY <2>4
  <2>6. /\ qp' \in [Qpairs -> QpairState] /\ cmd' \in [Cmds -> Cmd] /\ CommandsOK'
        /\ \A q \in Qpairs : (qp'[q] = "gone" <=> qp[q] = "gone") /\ (Up(qp'[q]) => Up(qp[q]))
        /\ \A h, n : AdminsOf(cmd', h) = AdminsOf(c, h) /\ IosOf(cmd', h, n) = IosOf(c, h, n)
    BY <2>2, <2>3, <2>4, <2>5, DrainsKeeps
  <2>7. \A h, n : AdminsOf(cmd', h) = AdminsOf(cmd, h) /\ IosOf(cmd', h, n) = IosOf(cmd, h, n)
    <3>1. PICK d \in [Cmds -> Cmd] : d = cmd
      BY <1>1 DEF TypeOK
    <3>2. \A r \in Cmds : c[r] = d[r] \/ (c[r] = NoCmd /\ d[r].state # "running")
      BY <2>4, <3>1
    <3>3. \A h, n : AdminsOf(c, h) = AdminsOf(d, h) /\ IosOf(c, h, n) = IosOf(d, h, n)
      BY <3>2, SameRunning
    <3> QED BY <2>6, <3>1, <3>3
  <2>8. CountsOf(g, p, cmd') /\ OthersCount(g, cmd, cmd')
    BY <2>1, <2>7 DEF CountsOf, OthersCount
  <2>9. FieldsOK(g)'
    BY <2>1, <2>3 DEF FieldsOK
  <2>10. VisitOK(g)'
    <3>1. ~Reached(g)'
      BY <1>1, <2>2 DEF Reached
    <3>2. InGroup(g)' \subseteq InGroup(g)
      BY <2>6 DEF InGroup, Alive, Up
    <3> QED BY <1>1, <2>1, <2>2, <2>3, <3>1, <3>2 DEF VisitOK
  <2>11. Moves(g)
    BY <2>2 DEF Moves
  <2> QED BY <2>1, <2>2, <2>6, <2>8, <2>9, <2>10, <2>11, GroupStep
<1> QED BY <1>2, <1>3

(* The poller that waits for the queue pairs of a group.                   *)
LEMMA RemovePollInv ==
  ASSUME Inv, NEW g \in Groups, RemovePoll(g)
  PROVE  Inv'
<1>1. /\ sg[g] \in Group /\ VisitOK(g) /\ CountsOf(g, sg[g], cmd)
  BY GroupFacts
<1>2. /\ sg[g].cb = "remove" /\ Removes(g, sg[g]) /\ UNCHANGED <<sub, ctrlr, listening, ops, fault>>
  BY DEF RemovePoll
<1>3. iter.at = g /\ iter.req = "inactive" /\ sg[g].state = "inactive"
  BY <1>1, <1>2 DEF VisitOK
<1> QED BY <1>1, <1>2, <1>3, RemovesInv

(* What becomes of a command that a group executes.                        *)
LEMMA ExecutedGood ==
  ASSUME TypeOK, NEW c \in Cmd, c.state = "queued", c.kind = "io" => c.ns \in Nsids, NEW s
  PROVE  LET d == Executed(c, s)
         IN  /\ d \in Cmd
             /\ \/ d = NoCmd
                \/ /\ qp[c.q] = "active" /\ d.q = c.q /\ d.kind = c.kind /\ d.ns = c.ns
                   /\ d.state = IF c.kind = "aer" THEN "aer" ELSE "running"
                   /\ c.kind = "io" => c.ns \in sub.ns
<1>1. CASE qp[c.q] # "active" \/ (c.kind = "io" /\ c.ns \notin s.chan \cap sub.ns)
  BY <1>1, NoCmdType DEF Executed
<1>2. CASE ~(qp[c.q] # "active" \/ (c.kind = "io" /\ c.ns \notin s.chan \cap sub.ns))
  <2> DEFINE st == IF c.kind = "aer" THEN "aer" ELSE "running"
             d == [c EXCEPT !.state = st]
  <2>1. Executed(c, s) = d
    BY <1>2 DEF Executed
  <2>2. st \in {"idle", "queued", "running", "aer"}
    OBVIOUS
  <2> HIDE DEF st
  <2>3. d \in Cmd /\ d.q = c.q /\ d.kind = c.kind /\ d.ns = c.ns /\ d.state = st
    BY <2>2 DEF Cmd
  <2> HIDE DEF d
  <2> QED BY <1>2, <2>1, <2>3 DEF st
<1> QED BY <1>1, <1>2

(* Queued commands that a group becomes active for are executed.           *)
QueuedOn(g) == {r \in Cmds : cmd[r].state = "queued" /\ QGroup[cmd[r].q] = g}
ExecutedOn(g, s) == [r \in Cmds |-> IF r \in QueuedOn(g) THEN Executed(cmd[r], s) ELSE cmd[r]]

(* They leave the commands well.                                           *)
LEMMA ResumedCommands ==
  ASSUME Inv, fault = "none", NEW g \in Groups, NEW s \in Group, cmd' = ExecutedOn(g, s),
         \A h \in Groups \ {g} : sg'[h] = sg[h],
         sub' = sub, fault' = fault, qp' = qp
  PROVE  /\ cmd' \in [Cmds -> Cmd] /\ CommandsOK'
         /\ Started(g, QueuedOn(g), cmd')
<1>0. PICK C \in SUBSET Cmds : C = QueuedOn(g)
  BY DEF QueuedOn
<1>d. /\ cmd' = [r \in Cmds |-> IF r \in C THEN Executed(cmd[r], s) ELSE cmd[r]]
      /\ \A r \in Cmds : r \in C <=> cmd[r].state = "queued" /\ QGroup[cmd[r].q] = g
  BY <1>0 DEF ExecutedOn, QueuedOn
<1>1. TypeOK /\ cmd \in [Cmds -> Cmd] /\ \A r \in Cmds : CommandOK(r)
  BY DEF Inv, TypeOK, CommandsOK
<1>2. ASSUME NEW r \in C
      PROVE  /\ cmd'[r] \in Cmd
             /\ \/ cmd'[r] = NoCmd
                \/ /\ qp[cmd[r].q] = "active" /\ cmd'[r].q = cmd[r].q /\ cmd'[r].kind = cmd[r].kind
                   /\ cmd'[r].ns = cmd[r].ns
                   /\ cmd'[r].state = IF cmd[r].kind = "aer" THEN "aer" ELSE "running"
                   /\ cmd[r].kind = "io" => cmd[r].ns \in sub.ns
  <2>1. r \in Cmds /\ cmd[r] \in Cmd /\ cmd[r].state = "queued" /\ CommandOK(r)
        /\ cmd'[r] = Executed(cmd[r], s)
    BY <1>1, <1>d
  <2>2. cmd[r].kind = "io" => cmd[r].ns \in Nsids
    BY <2>1 DEF CommandOK
  <2> QED BY <1>1, <2>1, <2>2, ExecutedGood
<1>3. \A r \in Cmds \ C : cmd'[r] = cmd[r]
  BY <1>d
<1>4. cmd' \in [Cmds -> Cmd]
  <2>1. cmd' = [r \in Cmds |-> IF r \in C THEN Executed(cmd[r], s) ELSE cmd[r]]
    BY <1>d
  <2>2. \A r \in Cmds : (IF r \in C THEN Executed(cmd[r], s) ELSE cmd[r]) \in Cmd
    BY <1>1, <1>2, <1>d
  <2> QED BY <2>1, <2>2
<1>5. ASSUME NEW r \in C
      PROVE  cmd[r].state # "running" /\ (cmd'[r].state = "running" => QGroup[cmd'[r].q] = g)
  <2>1. cmd[r].state = "queued" /\ QGroup[cmd[r].q] = g
    BY <1>d
  <2> QED BY <1>2, <2>1, NoCmdType
<1>6. ASSUME NEW r \in Cmds PROVE CommandOK(r)'
  <2>1. CASE r \in C
    <3>1. CASE cmd'[r] = NoCmd
      BY <3>1, NoCmdType DEF CommandOK
    <3>2. CASE cmd'[r] # NoCmd
      <4>1. /\ qp'[cmd'[r].q] = "active" /\ cmd'[r].kind = cmd[r].kind /\ cmd'[r].ns = cmd[r].ns
            /\ cmd'[r].state = IF cmd[r].kind = "aer" THEN "aer" ELSE "running"
            /\ cmd[r].kind = "io" => cmd[r].ns \in sub'.ns
        BY <1>2, <2>1, <3>2
      <4>2. CommandOK(r)
        BY <1>1
      <4> QED BY <4>1, <4>2 DEF CommandOK, Alive
    <3> QED BY <3>1, <3>2
  <2>2. CASE r \notin C
    <3>1. cmd'[r] = cmd[r] /\ CommandOK(r) /\ cmd[r].q \in Qpairs /\ QGroup[cmd[r].q] \in Groups
      BY <1>1, <1>3, <2>2 DEF Cmd
    <3>2. cmd[r].state = "queued" => QGroup[cmd[r].q] # g
      BY <1>d, <2>2
    <3>3. Alive(cmd[r].q)' = Alive(cmd[r].q)
      BY <3>1 DEF Alive
    <3> QED BY <3>1, <3>2, <3>3 DEF CommandOK
  <2> QED BY <2>1, <2>2
<1> QED BY <1>0, <1>3, <1>4, <1>5, <1>6 DEF CommandsOK, Started

(* nvmf_poll_group_resume_subsystem.                                       *)
LEMMA ResumeInv ==
  ASSUME Inv, fault = "none", NEW g \in Groups, iter.at = g, sg[g].cb = "none",
         iter.req = "active", Resume(g), UNCHANGED <<sub, ctrlr, listening, ops, fault>>
  PROVE  Inv'
<1>1. /\ sg[g] \in Group /\ FieldsOK(g) /\ VisitOK(g) /\ CountsOf(g, sg[g], cmd) /\ TypeOK
      /\ sg = [sg EXCEPT ![g] = sg[g]] /\ sg[g].state # "pausing"
  BY GroupFacts DEF FieldsOK
<1>2. CASE sg[g].state = "active"
  <2>1. Continues(FALSE) /\ FALSE \in BOOLEAN /\ UNCHANGED <<sg, qp, cmd>>
    BY <1>2 DEF Resume
  <2>2. PICK p \in Group : p = sg[g]
    BY <1>1
  <2>3. sg' = [sg EXCEPT ![g] = p] /\ CountsOf(g, p, cmd) /\ p.cb = "none" /\ p.state = "active"
        /\ \A n \in Nsids : p.nstate[n] = "active"
    BY <1>1, <1>2, <2>1, <2>2 DEF FieldsOK
  <2> QED BY <1>2, <2>1, <2>3, QuietVisit
<1>3. CASE sg[g].state # "active"
  <2>1. PICK k \in UpdateEnds(sg[g]) :
         /\ Continues(k <= MaxNsid)
         /\ IF k <= MaxNsid
            THEN sg' = [sg EXCEPT ![g] = Updated(@, k)] /\ UNCHANGED <<qp, cmd>>
            ELSE LET s == Activated(Updated(sg[g], k))
                     queued == {r \in Cmds : cmd[r].state = "queued" /\ QGroup[cmd[r].q] = g}
                 IN  /\ cmd' = [r \in Cmds |-> IF r \in queued THEN Executed(cmd[r], s) ELSE cmd[r]]
                     /\ sg' = [sg EXCEPT ![g] = Counted(queued, cmd', s)]
                     /\ UNCHANGED qp
    BY <1>3 DEF Resume
  <2>2. k \in Nat
    BY <1>1 DEF UpdateEnds, TypeOK, Subsystem
  <2> DEFINE u == Updated(sg[g], k)
  <2>3. u \in Group /\ CountsOf(g, u, cmd) /\ u.cb = "none" /\ u.state = sg[g].state
        /\ u.mgmt = sg[g].mgmt
    BY <2>2, UpdatedGood
  <2>4. CASE k <= MaxNsid
    <3>1. sg' = [sg EXCEPT ![g] = u] /\ UNCHANGED <<qp, cmd>>
      BY <1>1, <2>1, <2>4 DEF TypeOK
    <3>2. Continues(TRUE) /\ TRUE \in BOOLEAN
      <4>1. (k <= MaxNsid) = TRUE
        BY <2>2, <2>4
      <4> QED BY <2>1, <4>1
    <3>3. PICK p \in Group : p = u
      BY <2>3
    <3> HIDE DEF u
    <3>4. p.state = "paused" => p.mgmt = 0
      BY <1>1, <2>3, <3>3 DEF FieldsOK
    <3> QED BY <1>1, <1>3, <2>3, <3>1, <3>2, <3>3, <3>4, QuietVisit
  <2>5. CASE ~(k <= MaxNsid)
    <3> DEFINE a == Activated(u)
    <3>1. /\ cmd' = ExecutedOn(g, a) /\ qp' = qp
          /\ sg' = [sg EXCEPT ![g] = Counted(QueuedOn(g), cmd', a)]
      BY <2>1, <2>5 DEF ExecutedOn, QueuedOn
    <3> HIDE DEF u
    <3>2. PICK s \in Group : /\ s = a
                             /\ CountsOf(g, s, cmd) /\ s.cb = "none" /\ s.state = "active"
                             /\ \A n \in Nsids : s.nstate[n] = "active"
      <4>1. PICK v \in Group : v = u
        BY <2>3
      <4>2. CountsOf(g, v, cmd) /\ v.cb = "none" /\ a = Activated(v)
        BY <2>3, <4>1
      <4> HIDE DEF a
      <4> QED BY <4>2, ActivatedGood, SMTT(30)
    <3> HIDE DEF a
    <3>3. PICK C \in SUBSET Cmds : C = QueuedOn(g)
      BY DEF QueuedOn
    <3>5. cmd' = ExecutedOn(g, s)
      BY <3>1, <3>2
    <3>6. sub' = sub /\ fault' = fault /\ ctrlr' = ctrlr /\ \A h \in Groups \ {g} : sg'[h] = sg[h]
      BY <1>1, <3>1 DEF TypeOK
    <3>7. cmd' \in [Cmds -> Cmd] /\ CommandsOK' /\ Started(g, QueuedOn(g), cmd')
      BY <3>1, <3>5, <3>6, ResumedCommands
    <3>8. PICK c \in [Cmds -> Cmd] : c = cmd'
      BY <3>7
    <3> DEFINE p == Counted(C, c, s)
    <3>9. Started(g, C, c)
      BY <3>3, <3>7, <3>8
    <3>10. /\ p \in Group /\ CountsOf(g, p, c) /\ OthersCount(g, cmd, c)
           /\ p.state = s.state /\ p.nstate = s.nstate /\ p.cb = s.cb
      BY <1>1, <3>2, <3>9, CountedGood
    <3>11. sg' = [sg EXCEPT ![g] = p]
      BY <3>1, <3>2, <3>3, <3>8
    <3> HIDE DEF p
    <3>12. sg'[g] = p /\ Continues(FALSE) /\ FALSE \in BOOLEAN /\ Moves(g)
      <4>1. (k <= MaxNsid) = FALSE
        BY <2>2, <2>5
      <4>2. Continues(FALSE)
        BY <2>1, <4>1
      <4> QED BY <1>1, <3>11, <4>2 DEF Moves, TypeOK
    <3>13. FieldsOK(g)'
      BY <3>2, <3>10, <3>12 DEF FieldsOK
    <3>14. iter.nsid = 0
      BY DEF Inv, ChangeOK
    <3>15. VisitOK(g)'
      <4>1. \A q \in Qpairs : Up(qp'[q]) => Up(qp[q])
        BY <3>1
      <4> QED BY <3>2, <3>6, <3>10, <3>12, <3>14, <4>1, VisitEnds
    <3>16. /\ qp' \in [Qpairs -> QpairState]
           /\ \A q \in Qpairs : (qp'[q] = "gone" <=> qp[q] = "gone") /\ (Up(qp'[q]) => Up(qp[q]))
      BY <1>1, <3>1 DEF TypeOK
    <3>17. CountsOf(g, p, cmd') /\ OthersCount(g, cmd, cmd')
      BY <3>8, <3>10
    <3> QED BY <3>7, <3>10, <3>11, <3>12, <3>13, <3>15, <3>16, <3>17, GroupStep
  <2> QED BY <2>4, <2>5
<1> QED BY <1>2, <1>3

(* subsystem_state_change_on_pg.                                           *)
LEMMA VisitInv ==
  ASSUME Inv, NEW g \in Groups, Visit(g)
  PROVE  Inv'
<1>1. Works /\ fault = "none" /\ iter.at = g /\ sg[g].cb = "none"
  BY DEF Visit, Works
<1>2. CASE sub.life = "freed"
  BY <1>1, <1>2, LateKeeps DEF Visit
<1>3. CASE sub.life # "freed"
  <2>1. UNCHANGED <<sub, ctrlr, listening, ops, fault>>
    BY <1>3 DEF Visit
  <2>2. sg[g] \in Group /\ CountsOf(g, sg[g], cmd)
    BY GroupFacts
  <2>3. CASE iter.req = "inactive" /\ Removes(g, Inactivated(sg[g]))
    <3>1. PICK s \in Group : s = Inactivated(sg[g])
      BY <2>2, ActivatedGood
    <3>2. s.state = "inactive" /\ CountsOf(g, s, cmd) /\ Removes(g, s)
      BY <2>2, <2>3, <3>1, ActivatedGood
    <3> QED BY <1>1, <2>1, <2>3, <3>2, RemovesInv
  <2>4. CASE iter.req = "active" /\ sub.state = "activating" /\ Add(g)
    BY <1>1, <2>1, <2>4, AddInv
  <2>5. CASE iter.req = "active" /\ sub.state = "resuming" /\ Resume(g)
    BY <1>1, <2>1, <2>5, ResumeInv
  <2>6. CASE iter.req = "paused" /\ Pause(g)
    BY <1>1, <2>1, <2>6, PauseInv
  <2> QED BY <1>3, <2>3, <2>4, <2>5, <2>6 DEF Visit
<1> QED BY <1>2, <1>3

-----------------------------------------------------------------------------
(* Commands.                                                               *)

(* A new command waits on its group or runs there.                         *)
LEMMA SubmitInv ==
  ASSUME Inv, NEW r \in Cmds, Submit(r)
  PROVE  Inv'
<1>1. /\ cmd[r] = NoCmd /\ fault = "none" /\ UNCHANGED <<sub, iter, app, qp, ctrlr, listening, ops, fault>>
      /\ TypeOK
  BY DEF Submit, Works, Inv
<1>2. PICK c \in [state : {"queued"}, q : {Admin}, kind : {"admin", "aer"}, ns : {0}]
              \cup [state : {"queued"}, q : Qpairs \ {Admin}, kind : {"io"}, ns : Nsids] :
       /\ qp[c.q] = "active"
       /\ cmd' = [cmd EXCEPT ![r] = IF Waits(c, sg[QGroup[c.q]]) THEN c
                                    ELSE Executed(c, sg[QGroup[c.q]])]
       /\ cmd'[r] # NoCmd
       /\ sg' = [sg EXCEPT ![QGroup[c.q]] = Counted({r}, cmd', sg[QGroup[c.q]])]
  BY DEF Submit
<1>3. /\ c \in Cmd /\ c.state = "queued" /\ c.q \in Qpairs /\ QGroup[c.q] \in Groups
      /\ c.kind = "io" => c.ns \in Nsids
  BY <1>2 DEF Cmd
<1>4. PICK g \in Groups : g = QGroup[c.q]
  BY <1>3
<1>5. PICK s \in Group : s = sg[g]
  BY <1>4, GroupFacts
<1>6. FieldsOK(g) /\ VisitOK(g) /\ CountsOf(g, s, cmd)
  BY <1>5, GroupFacts
<1>7. PICK d \in Cmd :
        /\ d = IF Waits(c, s) THEN c ELSE Executed(c, s)
        /\ d.q = c.q /\ d.kind = c.kind /\ d.ns = c.ns /\ d # NoCmd
        /\ \/ d.state = "queued" /\ Waits(c, s)
           \/ /\ d.state = (IF c.kind = "aer" THEN "aer" ELSE "running") /\ ~Waits(c, s)
              /\ c.kind = "io" => c.ns \in sub.ns
  <2>1. cmd'[r] = IF Waits(c, s) THEN c ELSE Executed(c, s)
    BY <1>1, <1>2, <1>4, <1>5 DEF TypeOK
  <2>2. CASE Waits(c, s)
    BY <1>2, <1>3, <2>1, <2>2
  <2>3. CASE ~Waits(c, s)
    <3>1. Executed(c, s) # NoCmd
      BY <1>2, <2>1, <2>3
    <3>2. /\ Executed(c, s) \in Cmd
          /\ Executed(c, s).q = c.q /\ Executed(c, s).kind = c.kind /\ Executed(c, s).ns = c.ns
          /\ Executed(c, s).state = (IF c.kind = "aer" THEN "aer" ELSE "running")
          /\ c.kind = "io" => c.ns \in sub.ns
      BY <1>1, <1>3, <3>1, ExecutedGood
    <3> QED BY <2>3, <3>1, <3>2
  <2> QED BY <2>2, <2>3
<1>8. /\ cmd' = [cmd EXCEPT ![r] = d] /\ cmd' \in [Cmds -> Cmd] /\ cmd'[r] = d
      /\ \A t \in Cmds \ {r} : cmd'[t] = cmd[t]
  BY <1>1, <1>2, <1>4, <1>5, <1>7 DEF TypeOK
<1>9. PICK e \in [Cmds -> Cmd] : e = cmd'
  BY <1>8
<1>10. PICK C \in SUBSET Cmds : C = {r}
  OBVIOUS
<1>11. Started(g, C, e)
  <2>1. cmd[r].state # "running" /\ QGroup[d.q] = g
    BY <1>1, <1>4, <1>7, NoCmdType
  <2> QED BY <1>8, <1>9, <1>10, <2>1 DEF Started
<1> DEFINE p == Counted(C, e, s)
<1>12. /\ p \in Group /\ CountsOf(g, p, e) /\ OthersCount(g, cmd, e)
       /\ p.state = s.state /\ p.nstate = s.nstate /\ p.chan = s.chan /\ p.cb = s.cb
       /\ NoAdmin(C, e) => p.mgmt = s.mgmt
       /\ \A n \in Nsids : NoIo(C, e, n) => p.io[n] = s.io[n]
  BY <1>1, <1>6, <1>11, CountedGood
<1>13. sg' = [sg EXCEPT ![g] = p]
  BY <1>2, <1>4, <1>5, <1>9, <1>10
<1> HIDE DEF p
<1>14. sg'[g] = p /\ \A h \in Groups \ {g} : sg'[h] = sg[h]
  BY <1>1, <1>13 DEF TypeOK
<1>15. /\ ~(d.state = "running" /\ d.kind = "admin") => p.mgmt = s.mgmt
       /\ \A n \in Nsids : ~(d.state = "running" /\ d.kind = "io" /\ d.ns = n) => p.io[n] = s.io[n]
  <2>1. \A t \in C : e[t] = d /\ e[t] # NoCmd
    BY <1>7, <1>8, <1>9, <1>10
  <2>2. ~(d.state = "running" /\ d.kind = "admin") => NoAdmin(C, e)
    BY <2>1 DEF NoAdmin
  <2>3. \A n \in Nsids : ~(d.state = "running" /\ d.kind = "io" /\ d.ns = n) => NoIo(C, e, n)
    BY <2>1 DEF NoIo
  <2> QED BY <1>12, <2>2, <2>3
<1>16. FieldsOK(g)'
  <2>1. s.state = "paused" => ~(d.state = "running" /\ d.kind = "admin")
    BY <1>7 DEF Waits
  <2> QED BY <1>5, <1>6, <1>12, <1>14, <1>15, <2>1 DEF FieldsOK
<1>17. VisitOK(g)'
  <2>1. iter' = iter /\ sub' = sub /\ qp' = qp
    BY <1>1
  <2>2. InGroup(g)' = InGroup(g) /\ (Reached(g)' <=> Reached(g)) /\ Target' = Target
    BY <2>1 DEF InGroup, Alive, Reached, Target
  <2>3. Settled(g, Target) => Settled(g, Target)'
    BY <1>5, <1>12, <1>14, <2>2 DEF Settled
  <2>4. \A n \in Nsids : Quiesced(g, n) => Quiesced(g, n)'
    <3> SUFFICES ASSUME NEW n \in Nsids, Quiesced(g, n) PROVE Quiesced(g, n)'
      OBVIOUS
    <3>1. ~(d.state = "running" /\ d.kind = "io" /\ d.ns = n)
      BY <1>5, <1>7 DEF Waits, Quiesced
    <3> QED BY <1>5, <1>12, <1>14, <1>15, <3>1 DEF Quiesced
  <2>5. iter.nsid # 0 => iter.nsid \in Nsids
    BY <1>1 DEF TypeOK, Change
  <2>6. iter.nsid # 0 /\ Quiesced(g, iter.nsid) => Quiesced(g, iter.nsid)'
    BY <2>1, <2>4, <2>5 DEF Quiesced
  <2> QED BY <1>5, <1>6, <1>12, <1>14, <2>1, <2>2, <2>3, <2>6 DEF VisitOK
<1>18. CommandsOK'
  <2> SUFFICES ASSUME NEW t \in Cmds PROVE CommandOK(t)'
    BY DEF CommandsOK
  <2>1. CASE t = r
    <3>1. d.state = "queued" => s.state # "active"
      BY <1>3, <1>5, <1>6, <1>7 DEF Waits, FieldsOK
    <3>2. qp'[d.q] = "active" /\ sg'[QGroup[d.q]].state = s.state /\ sub' = sub
      BY <1>1, <1>2, <1>4, <1>7, <1>12, <1>14
    <3>3. d.state # "idle" /\ (d.kind = "io" => d.ns \in Nsids) /\ (d.state = "running" => d.kind # "aer")
          /\ (d.state = "running" /\ d.kind = "io" => d.ns \in sub.ns)
      BY <1>3, <1>7
    <3> QED BY <1>8, <2>1, <3>1, <3>2, <3>3 DEF CommandOK, Alive
  <2>2. CASE t # r
    <3>1. cmd'[t] = cmd[t] /\ CommandOK(t) /\ cmd[t].q \in Qpairs /\ QGroup[cmd[t].q] \in Groups
      BY <1>1, <1>8, <2>2 DEF Inv, CommandsOK, TypeOK, Cmd
    <3>2. sg'[QGroup[cmd[t].q]].state = sg[QGroup[cmd[t].q]].state
      BY <1>5, <1>12, <1>14, <3>1
    <3>3. qp' = qp /\ sub' = sub /\ fault' = fault
      BY <1>1
    <3> QED BY <3>1, <3>2, <3>3 DEF CommandOK, Alive
  <2> QED BY <2>1, <2>2
<1>19. CountsOf(g, p, cmd') /\ OthersCount(g, cmd, cmd') /\ Moves(g)
  BY <1>1, <1>9, <1>12 DEF Moves
<1>20. /\ qp' \in [Qpairs -> QpairState]
       /\ \A q \in Qpairs : (qp'[q] = "gone" <=> qp[q] = "gone") /\ (Up(qp'[q]) => Up(qp[q]))
  BY <1>1 DEF TypeOK
<1> QED BY <1>1, <1>8, <1>12, <1>13, <1>16, <1>17, <1>18, <1>19, <1>20, GroupStep

(* The counts of a group after a command that ran on it.                   *)
Uncounted(g, r) ==
  IF cmd[r].kind = "io" THEN [sg[g] EXCEPT !.io[cmd[r].ns] = @ - 1]
  ELSE [sg[g] EXCEPT !.mgmt = @ - 1]

(* It was counted, so that no count becomes negative.                      *)
LEMMA UncountedGood ==
  ASSUME Inv, NEW r \in Cmds, cmd[r].state = "running", NEW g \in Groups, g = QGroup[cmd[r].q],
         NEW c \in [Cmds -> Cmd], c = [cmd EXCEPT ![r] = NoCmd]
  PROVE  LET p == Uncounted(g, r)
         IN  /\ p \in Group /\ CountsOf(g, p, c) /\ OthersCount(g, cmd, c)
             /\ p.state = sg[g].state /\ p.nstate = sg[g].nstate /\ p.chan = sg[g].chan
             /\ p.cb = sg[g].cb
             /\ p.mgmt <= sg[g].mgmt /\ \A n \in Nsids : p.io[n] <= sg[g].io[n]
<1>1. /\ TypeOK /\ sg[g] \in Group /\ CountsOf(g, sg[g], cmd) /\ cmd \in [Cmds -> Cmd]
      /\ CommandOK(r) /\ cmd[r].kind \in {"admin", "io"}
  <2>1. TypeOK /\ sg[g] \in Group /\ CountsOf(g, sg[g], cmd) /\ CommandOK(r)
    BY GroupFacts DEF Inv, CommandsOK
  <2> QED BY <2>1 DEF TypeOK, CommandOK, Cmd
<1>2. c[r] = NoCmd /\ \A t \in Cmds \ {r} : c[t] = cmd[t]
  BY <1>1
<1>3. OthersCount(g, cmd, c)
  BY <1>2, NoCmdType DEF OthersCount, AdminsOf, IosOf
<1>4. /\ \A h : IsFiniteSet(AdminsOf(cmd, h)) /\ Cardinality(AdminsOf(cmd, h)) \in Nat
      /\ \A h, n : IsFiniteSet(IosOf(cmd, h, n)) /\ Cardinality(IosOf(cmd, h, n)) \in Nat
  <2>1. \A h, n : IsFiniteSet(AdminsOf(cmd, h)) /\ IsFiniteSet(IosOf(cmd, h, n))
    BY CmdsAssumption, FS_Subset DEF AdminsOf, IosOf
  <2> QED BY <2>1, FS_CardinalityType
<1> DEFINE p == Uncounted(g, r)
<1>5. CASE cmd[r].kind = "admin"
  <2> DEFINE m == sg[g].mgmt - 1
  <2>1. r \in AdminsOf(cmd, g) /\ AdminsOf(c, g) = AdminsOf(cmd, g) \ {r}
    BY <1>2, <1>5, NoCmdType DEF AdminsOf
  <2>2. \A n : IosOf(c, g, n) = IosOf(cmd, g, n)
    BY <1>2, <1>5, NoCmdType DEF IosOf
  <2>3. Cardinality(AdminsOf(c, g)) = Cardinality(AdminsOf(cmd, g)) - 1
        /\ Cardinality(AdminsOf(c, g)) \in Nat
    <3>1. PICK S : S = AdminsOf(cmd, g) /\ IsFiniteSet(S) /\ r \in S
      BY <1>4, <2>1
    <3>2. Cardinality(S \ {r}) = Cardinality(S) - 1 /\ Cardinality(S \ {r}) \in Nat
      BY <3>1, FS_RemoveElement, FS_CardinalityType
    <3> QED BY <2>1, <3>1, <3>2
  <2>4. m \in Nat /\ m <= sg[g].mgmt /\ Cardinality(AdminsOf(c, g)) <= m
    <3>1. sg[g].mgmt \in Nat /\ Cardinality(AdminsOf(cmd, g)) <= sg[g].mgmt
          /\ Cardinality(AdminsOf(cmd, g)) \in Nat
      BY <1>1, <1>4 DEF Group, CountsOf
    <3> QED BY <2>3, <3>1
  <2>5. p = [sg[g] EXCEPT !.mgmt = m]
    BY <1>5 DEF Uncounted
  <2> HIDE DEF p, m
  <2>6. /\ p \in Group /\ p.state = sg[g].state /\ p.nstate = sg[g].nstate /\ p.chan = sg[g].chan
        /\ p.cb = sg[g].cb /\ p.mgmt = m /\ p.io = sg[g].io
    BY <1>1, <2>4, <2>5 DEF Group
  <2>7. \A n \in Nsids : sg[g].io[n] <= sg[g].io[n]
    BY <1>1 DEF Group
  <2>8. CountsOf(g, p, c)
    BY <1>1, <2>2, <2>4, <2>6 DEF CountsOf
  <2> QED BY <1>3, <2>4, <2>6, <2>7, <2>8 DEF p
<1>6. CASE cmd[r].kind = "io"
  <2>1. PICK k \in Nsids : k = cmd[r].ns
    BY <1>1, <1>6 DEF CommandOK
  <2> DEFINE io == [sg[g].io EXCEPT ![k] = @ - 1]
  <2>2. r \in IosOf(cmd, g, k) /\ IosOf(c, g, k) = IosOf(cmd, g, k) \ {r}
    BY <1>2, <1>6, <2>1, NoCmdType DEF IosOf
  <2>3. AdminsOf(c, g) = AdminsOf(cmd, g) /\ \A n \in Nsids \ {k} : IosOf(c, g, n) = IosOf(cmd, g, n)
    BY <1>2, <1>6, <2>1, NoCmdType DEF AdminsOf, IosOf
  <2>4. Cardinality(IosOf(c, g, k)) = Cardinality(IosOf(cmd, g, k)) - 1
        /\ Cardinality(IosOf(c, g, k)) \in Nat
    <3>1. PICK S : S = IosOf(cmd, g, k) /\ IsFiniteSet(S) /\ r \in S
      BY <1>4, <2>2
    <3>2. Cardinality(S \ {r}) = Cardinality(S) - 1 /\ Cardinality(S \ {r}) \in Nat
      BY <3>1, FS_RemoveElement, FS_CardinalityType
    <3> QED BY <2>2, <3>1, <3>2
  <2>5. sg[g].io \in [Nsids -> Nat] /\ sg[g].io[k] = Cardinality(IosOf(cmd, g, k)) /\ sg[g].mgmt \in Nat
    BY <1>1 DEF Group, CountsOf
  <2>6. io[k] = Cardinality(IosOf(c, g, k)) /\ \A n \in Nsids \ {k} : io[n] = sg[g].io[n]
    BY <2>4, <2>5
  <2>7. io \in [Nsids -> Nat] /\ \A n \in Nsids : io[n] <= sg[g].io[n]
    <3>1. \A n \in Nsids : io[n] \in Nat /\ io[n] <= sg[g].io[n]
      <4> HIDE DEF io
      <4>1. sg[g].io[k] \in Nat /\ io[k] \in Nat /\ io[k] = sg[g].io[k] - 1
        BY <2>4, <2>5, <2>6
      <4>2. io[k] \in Nat /\ io[k] <= sg[g].io[k]
        BY <4>1
      <4>3. ASSUME NEW n \in Nsids \ {k} PROVE io[n] \in Nat /\ io[n] <= sg[g].io[n]
        <5>1. n \in Nsids /\ sg[g].io[n] \in Nat
          BY <2>5
        <5>2. io[n] = sg[g].io[n]
          BY <2>6
        <5> QED BY <5>1, <5>2
      <4> QED BY <4>2, <4>3
    <3>2. io \in [Nsids -> Nat]
      <4>1. PICK m \in Nat : m = sg[g].io[k] - 1
        BY <2>4, <2>5
      <4>2. io = [sg[g].io EXCEPT ![k] = m]
        BY <4>1
      <4> HIDE DEF io
      <4> QED BY <2>5, <4>2
    <3> QED BY <3>1, <3>2
  <2>8. p = [sg[g] EXCEPT !.io = io]
    BY <1>1, <1>6, <2>1 DEF Uncounted, Group
  <2> HIDE DEF p, io
  <2>9. /\ p \in Group /\ p.state = sg[g].state /\ p.nstate = sg[g].nstate /\ p.chan = sg[g].chan
        /\ p.cb = sg[g].cb /\ p.mgmt = sg[g].mgmt /\ p.io = io
    <3>1. \A x \in [Nsids -> Nat] :
            LET v == [sg[g] EXCEPT !.io = x]
            IN  v \in Group /\ v.state = sg[g].state /\ v.nstate = sg[g].nstate
                /\ v.chan = sg[g].chan /\ v.cb = sg[g].cb /\ v.mgmt = sg[g].mgmt /\ v.io = x
      BY <1>1 DEF Group
    <3> QED BY <2>7, <2>8, <3>1
  <2>10. CountsOf(g, p, c)
    BY <1>1, <2>3, <2>6, <2>9 DEF CountsOf
  <2>11. p.mgmt <= sg[g].mgmt
    BY <2>5, <2>9
  <2>12. \A n \in Nsids : p.io[n] <= sg[g].io[n]
    BY <2>7, <2>9
  <2> QED BY <1>3, <2>9, <2>10, <2>11, <2>12 DEF p
<1> QED BY <1>1, <1>5, <1>6

(* _nvmf_request_complete.                                                 *)
LEMMA CompleteInv ==
  ASSUME Inv, NEW r \in Cmds, Complete(r)
  PROVE  Inv'
<1>1. /\ TypeOK /\ cmd[r].state = "running" /\ cmd[r].q \in Qpairs
      /\ QGroup[cmd[r].q] \in Groups /\ CommandOK(r)
      /\ UNCHANGED <<sub, ctrlr, listening, ops, fault>> /\ Drains(qp, [cmd EXCEPT ![r] = NoCmd])
  BY DEF Complete, Inv, TypeOK, Cmd, CommandsOK
<1>2. PICK g \in Groups : g = QGroup[cmd[r].q]
  BY <1>1
<1>3. PICK c \in [Cmds -> Cmd] : c = [cmd EXCEPT ![r] = NoCmd]
  BY <1>1, NoCmdType DEF TypeOK
<1>4. PICK p \in Group : p = Uncounted(g, r)
  BY <1>1, <1>2, <1>3, UncountedGood
<1>5. /\ CountsOf(g, p, c) /\ OthersCount(g, cmd, c)
      /\ p.state = sg[g].state /\ p.nstate = sg[g].nstate /\ p.chan = sg[g].chan /\ p.cb = sg[g].cb
      /\ p.mgmt <= sg[g].mgmt /\ \A n \in Nsids : p.io[n] <= sg[g].io[n]
  BY <1>1, <1>2, <1>3, <1>4, UncountedGood
<1>6. Settles(g, p)
  BY <1>2, <1>4 DEF Complete, Uncounted
<1>7. /\ sg[g] \in Group /\ FieldsOK(g) /\ VisitOK(g)
      /\ (iter.at = g => sub.changing /\ ~iter.bad /\ ~Reached(g))
  BY GroupFacts
<1>8. /\ p.mgmt \in Nat /\ sg[g].mgmt \in Nat
      /\ \A n \in Nsids : p.io[n] \in Nat /\ sg[g].io[n] \in Nat
  BY <1>7 DEF Group
<1>9. sub' = sub /\ ctrlr' = ctrlr /\ fault' = fault
  BY <1>1
<1>10. ASSUME NEW s \in Group, sg' = [sg EXCEPT ![g] = s], s.state # "active" \/ sg[g].state = "active",
              s.mgmt = p.mgmt, s.io = p.io, Moves(g), FieldsOK(g)'
       PROVE  /\ \A q \in Qpairs : Up(qp'[q]) => Up(qp[q])
              /\ VisitOK(g)' => Inv'
  <2>1. \A h \in Groups : sg'[h].state = "active" => sg[h].state = "active"
    BY <1>1, <1>10 DEF TypeOK
  <2>2. \A t \in Cmds : c[t] = cmd[t] \/ c[t] = NoCmd
    BY <1>1, <1>3 DEF TypeOK
  <2>3. qp \in [Qpairs -> QpairState] /\ Drains(qp, c)
    BY <1>1, <1>3 DEF TypeOK
  <2>4. /\ qp' \in [Qpairs -> QpairState] /\ cmd' \in [Cmds -> Cmd] /\ CommandsOK'
        /\ \A q \in Qpairs : (qp'[q] = "gone" <=> qp[q] = "gone") /\ (Up(qp'[q]) => Up(qp[q]))
        /\ \A h, n : AdminsOf(cmd', h) = AdminsOf(c, h) /\ IosOf(cmd', h, n) = IosOf(c, h, n)
    BY <1>9, <2>1, <2>2, <2>3, DrainsKeeps
  <2>5. CountsOf(g, s, cmd') /\ OthersCount(g, cmd, cmd')
    BY <1>5, <1>10, <2>4 DEF CountsOf, OthersCount
  <2>6. ASSUME VisitOK(g)' PROVE Inv'
    BY <1>1, <1>10, <2>4, <2>5, <2>6, GroupStep
  <2> QED BY <2>4, <2>6
<1>11. CASE ~PauseEnds(p)
  <2>1. sg' = [sg EXCEPT ![g] = p] /\ UNCHANGED <<iter, app>> /\ iter' = iter
    BY <1>6, <1>11 DEF Settles
  <2>2. sg'[g] = p /\ Moves(g)
    BY <1>1, <2>1 DEF TypeOK, Moves
  <2>3. FieldsOK(g)'
    <3>1. p.state = "paused" => p.mgmt = 0
      BY <1>5, <1>7, <1>8 DEF FieldsOK
    <3> QED BY <1>5, <1>7, <2>2, <3>1 DEF FieldsOK
  <2>4. /\ \A q \in Qpairs : Up(qp'[q]) => Up(qp[q])
        /\ VisitOK(g)' => Inv'
    BY <1>5, <1>10, <2>1, <2>2, <2>3
  <2>5. VisitOK(g)'
    <3>1. InGroup(g)' \subseteq InGroup(g) /\ (Reached(g)' <=> Reached(g)) /\ Target' = Target
      BY <1>9, <2>1, <2>4 DEF InGroup, Alive, Up, Reached, Target
    <3>2. Settled(g, Target) => Settled(g, Target)'
      BY <1>5, <2>2, <3>1 DEF Settled
    <3>3. iter.nsid # 0 /\ Quiesced(g, iter.nsid) => Quiesced(g, iter.nsid)'
      <4>1. iter.nsid # 0 => iter.nsid \in Nsids
        BY <1>1 DEF TypeOK, Change
      <4>2. \A n \in Nsids : sg[g].io[n] = 0 => p.io[n] = 0
        BY <1>5, <1>8
      <4> QED BY <1>5, <2>1, <2>2, <4>1, <4>2 DEF Quiesced
    <3> QED BY <1>5, <1>7, <1>9, <2>1, <2>2, <3>1, <3>2, <3>3 DEF VisitOK
  <2> QED BY <2>4, <2>5
<1>12. CASE PauseEnds(p)
  <2> DEFINE s == [p EXCEPT !.state = "paused", !.cb = "none"]
  <2>1. /\ s \in Group /\ s.state = "paused" /\ s.cb = "none" /\ s.mgmt = p.mgmt /\ s.io = p.io
        /\ s.nstate = p.nstate
    BY DEF Group
  <2>2. sg' = [sg EXCEPT ![g] = s] /\ Continues(FALSE)
    BY <1>6, <1>12 DEF Settles
  <2> HIDE DEF s
  <2>3. /\ p.state = "pausing" /\ p.mgmt = 0
        /\ \A n \in Nsids : p.nstate[n] = "pausing" => p.io[n] = 0
    BY <1>12 DEF PauseEnds
  <2>4. /\ iter.at = g /\ iter.req = "paused"
        /\ iter.nsid # 0 => sg[g].nstate[iter.nsid] = "pausing"
    BY <1>5, <1>7, <2>3 DEF FieldsOK, VisitOK
  <2>5. sg'[g] = s /\ Moves(g)
    BY <1>1, <2>2, <2>4 DEF TypeOK, Moves
  <2>6. FieldsOK(g)'
    BY <2>1, <2>3, <2>5 DEF FieldsOK
  <2>7. /\ \A q \in Qpairs : Up(qp'[q]) => Up(qp[q])
        /\ VisitOK(g)' => Inv'
    BY <1>10, <2>1, <2>2, <2>5, <2>6
  <2>8. iter.nsid # 0 => Quiesced(g, iter.nsid)'
    <3>1. iter.nsid # 0 => iter.nsid \in Nsids
      BY <1>1 DEF TypeOK, Change
    <3>2. iter'.nsid = iter.nsid
      BY <1>9, <2>2, <2>4, ContinuesGood
    <3> QED BY <1>5, <2>1, <2>3, <2>4, <2>5, <3>1, <3>2 DEF Quiesced
  <2>9. VisitOK(g)'
    BY <1>9, <2>1, <2>2, <2>4, <2>5, <2>7, <2>8, VisitEnds
  <2> QED BY <2>7, <2>9
<1> QED BY <1>11, <1>12

-----------------------------------------------------------------------------
(* The subsystem is active and nothing is under way.                       *)
LEMMA InitInv == Init => Inv
<1> SUFFICES ASSUME Init PROVE Inv
  OBVIOUS
<1>1. PICK N \in SUBSET Nsids :
       /\ sub = [state |-> "active", changing |-> FALSE, ns |-> N, removed |-> {}, life |-> "alive"]
       /\ sg = [g \in Groups |-> [state |-> "active", mgmt |-> 0, io |-> [n \in Nsids |-> 0],
                                  nstate |-> [n \in Nsids |-> "active"], chan |-> N,
                                  cb |-> "none"]]
  BY DEF Init
<1>2. /\ iter = Idle /\ app = <<>> /\ qp = [q \in Qpairs |-> "active"]
      /\ ctrlr = [life |-> "listed", mask |-> Qpairs] /\ cmd = [r \in Cmds |-> NoCmd]
      /\ listening = 0 /\ ops = 0 /\ fault = "none"
  BY DEF Init
<1>3. /\ sub \in Subsystem /\ ~sub.changing /\ sub.state = "active" /\ sub.life = "alive"
  BY <1>1 DEF Subsystem, States
<1>4. ASSUME NEW g \in Groups
      PROVE  /\ sg[g] \in Group /\ sg[g].state = "active" /\ sg[g].cb = "none" /\ sg[g].mgmt = 0
             /\ \A n \in Nsids : sg[g].nstate[n] = "active" /\ sg[g].io[n] = 0
  <2> DEFINE io == [n \in Nsids |-> 0]
             ns == [n \in Nsids |-> "active"]
  <2>1. /\ io \in [Nsids -> Nat] /\ ns \in [Nsids -> {"inactive", "active", "pausing"}]
        /\ \A n \in Nsids : io[n] = 0 /\ ns[n] = "active"
    OBVIOUS
  <2>2. sg[g] = [state |-> "active", mgmt |-> 0, io |-> io, nstate |-> ns, chan |-> N, cb |-> "none"]
    BY <1>1
  <2> HIDE DEF io, ns
  <2> QED BY <2>1, <2>2 DEF Group
<1>5. sg \in [Groups -> Group]
  <2>1. DOMAIN sg = Groups /\ sg = [g \in Groups |-> sg[g]]
    BY <1>1
  <2> QED BY <1>4, <2>1
<1>6. TypeOK
  <2>1. app \in Seq(Message)
    BY <1>2, EmptySeq
  <2>2. qp \in [Qpairs -> QpairState] /\ ctrlr \in Ctrlr /\ cmd \in [Cmds -> Cmd]
    BY <1>2, NoCmdType DEF QpairState, Ctrlr
  <2>3. sub \in Subsystem /\ sg \in [Groups -> Group]
    BY <1>3, <1>5
  <2>4. iter \in Change
    BY <1>2, IdleType
  <2>5. listening \in Nat /\ ops \in 0..MaxOps
    BY <1>2, SizesAssumption
  <2>6. fault \in {"none", "late", "unquiesced"}
    BY <1>2
  <2> QED BY <2>1, <2>2, <2>3, <2>4, <2>5, <2>6 DEF TypeOK
<1>7. ChangeOK
  BY <1>2, <1>3, IdleType DEF ChangeOK, Steady
<1>8. GroupsOK
  <2> SUFFICES ASSUME NEW g \in Groups PROVE FieldsOK(g) /\ VisitOK(g)
    BY DEF GroupsOK
  <2>1. Settled(g, Target) /\ iter.nsid = 0
    BY <1>2, <1>3, <1>4, IdleType DEF Settled, Target
  <2> QED BY <1>3, <1>4, <2>1 DEF FieldsOK, VisitOK
<1>9. MessagesOK
  <2>1. Len(app) = 0
    BY <1>2, EmptySeq
  <2> QED BY <2>1 DEF MessagesOK, EndsOnce
<1>10. CommandsOK
  BY <1>2, NoCmdType DEF CommandsOK, CommandOK
<1>11. CountsOK
  <2> SUFFICES ASSUME NEW g \in Groups PROVE CountsOf(g, sg[g], cmd)
    BY DEF CountsOK, CountsOf
  <2>1. AdminsOf(cmd, g) = {} /\ \A n : IosOf(cmd, g, n) = {}
    BY <1>2, NoCmdType DEF AdminsOf, IosOf
  <2>2. Cardinality({}) = 0
    BY FS_EmptySet
  <2>3. Cardinality(AdminsOf(cmd, g)) <= sg[g].mgmt
    BY <1>4, <2>1, <2>2
  <2>4. ASSUME NEW n \in Nsids PROVE sg[g].io[n] = Cardinality(IosOf(cmd, g, n))
    BY <1>4, <2>1, <2>2
  <2> QED BY <2>3, <2>4 DEF CountsOf
<1>12. LifeOK
  BY <1>2, <1>3 DEF LifeOK
<1> QED BY <1>6, <1>7, <1>8, <1>9, <1>10, <1>11, <1>12 DEF Inv

(* Every step keeps Inv.                                                   *)
LEMMA NextInv == Inv /\ [Next]_vars => Inv'
<1> SUFFICES ASSUME Inv, [Next]_vars PROVE Inv'
  OBVIOUS
<1>1. CASE Rpc
  BY <1>1, RpcInv
<1>2. CASE Delete
  BY <1>2, DeleteInv
<1>3. CASE ListenerDone
  BY <1>3, ListenerDoneInv
<1>4. CASE AppStep
  BY <1>4, DoneInv, RetryChangeInv, DestructedInv, DestroyRetryInv DEF AppStep
<1>5. CASE \E n \in Nsids : HotRemove(n) \/ Resize(n)
  BY <1>5, HotRemoveInv, ResizeInv
<1>6. CASE \E q \in Qpairs : Disconnect(q) \/ FreeFrom(q)
  BY <1>6, DisconnectInv, FreeFromInv
<1>7. CASE \E r \in Cmds : Submit(r) \/ Complete(r) \/ AerCompletes(r)
  BY <1>7, SubmitInv, CompleteInv, AerCompletesInv
<1>8. CASE \E g \in Groups : Visit(g) \/ RemovePoll(g)
  BY <1>8, VisitInv, RemovePollInv
<1>9. CASE UNCHANGED vars
  <2>1. /\ sub' = sub /\ iter' = iter /\ app' = app /\ sg' = sg /\ qp' = qp /\ ctrlr' = ctrlr
        /\ cmd' = cmd /\ listening' = listening /\ ops' = ops /\ fault' = fault
    BY <1>9 DEF vars
  <2>2. /\ \A r \in Cmds : cmd[r].state = "queued" => sg'[QGroup[cmd[r].q]].state # "active"
    BY <2>1 DEF Inv, CommandsOK, CommandOK
  <2>3. CommandsOK'
    BY <2>1, <2>2, CommandsStay
  <2>4. GroupsOK'
    BY <2>1, GroupAside DEF Inv, GroupsOK
  <2>5. TypeOK' /\ ChangeOK' /\ MessagesOK'
    BY <2>1 DEF Inv, TypeOK, ChangeOK, MessagesOK, EndsOnce
  <2>6. CountsOK' /\ LifeOK'
    BY <2>1 DEF Inv, CountsOK, LifeOK, AdminsOf, IosOf
  <2> QED BY <2>3, <2>4, <2>5, <2>6 DEF Inv
<1> QED BY <1>1, <1>2, <1>3, <1>4, <1>5, <1>6, <1>7, <1>8, <1>9 DEF Next

(* Inv always holds.                                                       *)
THEOREM Invariance == Spec => []Inv
BY InitInv, NextInv, PTL DEF Spec

(* The variables have their types: no poll group completes a command that  *)
(* it does not count, and no namespace is forgotten with a count.          *)
THEOREM TypeCorrect == Spec => []TypeOK
<1>1. Inv => TypeOK
  BY DEF Inv
<1> QED BY <1>1, Invariance, PTL

(* Once every poll group has paused the subsystem nothing runs there that  *)
(* the operation on the paused subsystem could pull the ground from under. *)
THEOREM PauseQuiets == Spec => []PausedIsQuiet
<1>1. Inv => PausedIsQuiet
  <2> SUFFICES ASSUME Inv PROVE PausedIsQuiet
    OBVIOUS
  <2>1. TypeOK /\ ChangeOK /\ CountsOK
    BY DEF Inv
  <2>2. ASSUME NEW r \in Cmds, cmd[r].state = "running",
               \A g \in Groups : sg[g].state = "paused"
        PROVE  cmd[r].kind = "io"
    <3>1. PICK g \in Groups : g = QGroup[cmd[r].q]
      BY <2>1 DEF TypeOK, Cmd
    <3>2. cmd[r].kind \in {"admin", "aer", "io"} /\ cmd[r].kind # "aer"
      BY <2>1, <2>2 DEF TypeOK, Cmd, Inv, CommandsOK, CommandOK
    <3>3. sg[g].mgmt = 0
      BY <2>2 DEF Inv, GroupsOK, FieldsOK
    <3>4. IsFiniteSet(AdminsOf(cmd, g)) /\ Cardinality(AdminsOf(cmd, g)) = 0
      <4>1. IsFiniteSet(AdminsOf(cmd, g))
        BY CmdsAssumption, FS_Subset DEF AdminsOf
      <4>2. Cardinality(AdminsOf(cmd, g)) \in Nat /\ Cardinality(AdminsOf(cmd, g)) <= 0
        BY <2>1, <3>3, <4>1, FS_CardinalityType DEF CountsOK
      <4> QED BY <4>1, <4>2
    <3>5. AdminsOf(cmd, g) = {}
      BY <3>4, FS_EmptySet
    <3> QED BY <2>2, <3>1, <3>2, <3>5 DEF AdminsOf
  <2>3. ASSUME sub.state = "paused" \/ (iter.at = G + 1 /\ iter.req = "paused"), NEW g \in Groups
        PROVE  /\ sg[g].state = "paused"
               /\ iter.nsid # 0 => Quiesced(g, iter.nsid)
    <3>1. g < G + 1 /\ G + 1 # 0
      OBVIOUS
    <3>2. CASE ~sub.changing
      <4>1. sub.state = "paused" /\ Reached(g) /\ Target = "paused"
        BY <2>1, <2>3, <3>1, <3>2, IdleType DEF ChangeOK, Reached, Target
      <4> QED BY <4>1 DEF Inv, GroupsOK, VisitOK, Settled
    <3>3. CASE sub.changing
      <4>1. iter.at = G + 1 /\ iter.req = "paused"
        BY <2>1, <2>3, <3>3 DEF ChangeOK
      <4>2. Reached(g) /\ Target = "paused"
        BY <2>1, <3>1, <3>3, <4>1 DEF ChangeOK, Reached, Target
      <4> QED BY <4>2 DEF Inv, GroupsOK, VisitOK, Settled
    <3> QED BY <3>2, <3>3
  <2>4. ASSUME NEW r \in Cmds, cmd[r].state = "running", iter.at = G + 1, iter.req = "paused"
        PROVE  cmd[r].ns # iter.nsid
    <3>1. PICK g \in Groups : g = QGroup[cmd[r].q]
      BY <2>1 DEF TypeOK, Cmd
    <3>2. cmd[r].kind = "io"
      BY <2>2, <2>3, <2>4
    <3>3. cmd[r].ns \in Nsids
      BY <3>2 DEF Inv, CommandsOK, CommandOK
    <3>4. ASSUME cmd[r].ns = iter.nsid PROVE FALSE
      <4>1. Cardinality(IosOf(cmd, g, iter.nsid)) = 0
        BY <2>1, <2>3, <2>4, <3>3, <3>4 DEF Quiesced, CountsOK
      <4>2. IsFiniteSet(IosOf(cmd, g, iter.nsid))
        BY CmdsAssumption, FS_Subset DEF IosOf
      <4>3. IosOf(cmd, g, iter.nsid) = {}
        BY <4>1, <4>2, FS_EmptySet
      <4> QED BY <2>4, <3>1, <3>2, <3>4, <4>3 DEF IosOf
    <3> QED BY <3>4
  <2> QED BY <2>2, <2>3, <2>4 DEF PausedIsQuiet
<1> QED BY <1>1, Invariance, PTL

(* A queued command is on a group that the next change takes it from.      *)
THEOREM QueuedAreTaken == Spec => []NoneStranded
<1>1. Inv => NoneStranded
  BY DEF Inv, NoneStranded, CommandsOK, CommandOK
<1> QED BY <1>1, Invariance, PTL

(* The subsystem is freed after everything that uses it.                   *)
THEOREM FreedLast == Spec => []FreedIsUnused
<1>1. Inv => FreedIsUnused
  <2> SUFFICES ASSUME Inv, sub.life = "freed", sub.state = "inactive"
               PROVE  /\ iter = Idle /\ ctrlr.life = "unlisted"
                      /\ \A g \in Groups : sg[g].chan = {} /\ sg[g].cb = "none"
                      /\ \A q \in Qpairs : qp[q] = "gone"
                      /\ \A r \in Cmds : cmd[r] = NoCmd
    BY DEF FreedIsUnused
  <2>1. ctrlr.life = "unlisted" /\ ~sub.changing
    BY DEF Inv, LifeOK, ChangeOK
  <2>2. Calm(sub) /\ iter = Idle
    BY <2>1, NotChangingIsCalm
  <2> QED BY <2>1, <2>2, NoControllerNoCommand DEF Calm, Settled
<1> QED BY <1>1, Invariance, PTL
================================================================================
