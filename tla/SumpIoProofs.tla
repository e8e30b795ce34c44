---------------------------- MODULE SumpIoProofs ----------------------------
(***************************************************************************)
(* Proofs about SumpIo for any number of paths and requests.  The          *)
(* inductive invariant is Inv: type correctness needs OnePollerPerFailed-  *)
(* Path (a poller is only paused if it runs) and AnsweredOnce (a request   *)
(* on a device has a path), and these need the types.  Then: failover      *)
(* leaves failed paths, SumpIo implements MultipathDevice, and, with the   *)
(* stronger invariant DInv, what io_incomplete counts.                     *)
(***************************************************************************)
EXTENDS SumpIo, SumpSelectProofs, SequenceTheorems

Inv == TypeOK /\ OnePollerPerFailedPath /\ AnsweredOnce

USE DEF Statuses, Causes

-----------------------------------------------------------------------------
(* Lemmas about the helpers.                                               *)

(* A path is a number, never the unassigned pointer.                       *)
LEMMA PathsAreNaturals == Paths \subseteq Nat /\ Wild \notin Paths
BY NPathsAssumption DEF Paths, Wild

(* Counters stay within the width of their type.                           *)
LEMMA ModuloType ==
  ASSUME NEW n \in Int
  PROVE  n % (UintMax + 1) \in 0 .. UintMax
BY UintMaxAssumption

(* Counting the contexts that name a path gives a number.                  *)
LEMMA CountOnType ==
  ASSUME NEW cs \in Seq(Paths), NEW p \in Paths
  PROVE  CountOn(cs, p) \in Nat
<1>1. DOMAIN cs = 1 .. Len(cs) /\ Len(cs) \in Nat
  BY LenProperties
<1>2. IsFiniteSet(1 .. Len(cs))
  BY <1>1, FS_Interval
<1>3. IsFiniteSet({k \in DOMAIN cs : cs[k] = p})
  BY <1>1, <1>2, FS_Subset
<1> QED BY <1>3, FS_CardinalityType DEF CountOn

(* The selector produces a path or the unassigned pointer.                 *)
LEMMA FindIopathType ==
  ASSUME NEW avail \in [Paths -> BOOLEAN], NEW depth \in [Paths -> 0 .. UintMax]
  PROVE  FindIopath(avail, depth) \subseteq Paths \cup {Wild}
<1>1. depth \in [Paths -> Nat]
  BY UintMaxAssumption
<1> QED BY <1>1, CheapestPathIsEligible DEF FindIopath, Eligible

(* What a call of ump_bdev_submit_request can do: the request reaches a    *)
(* device wrapped once more, or it is dropped with the wrapping it had.    *)
LEMMA SubmitRequestEffect ==
  ASSUME TypeOK, Running, NEW i \in Ios,
         NEW avail \in [Paths -> BOOLEAN], NEW cs \in Seq(Paths),
         SubmitRequest(i, avail, io_incomplete, cs)
  PROVE  /\ io_incomplete' \in [Paths -> 0 .. UintMax]
         /\ \/ /\ status' = [status EXCEPT ![i] = "device"]
               /\ \E p \in Paths : ctxs' = [ctxs EXCEPT ![i] = Append(cs, p)]
               /\ dead' = "no"
            \/ /\ status' = [status EXCEPT ![i] = "lost"]
               /\ ctxs' = [ctxs EXCEPT ![i] = cs]
               /\ dead' \in {"no", "selector"}
<1>1. io_incomplete \in [Paths -> 0 .. UintMax]
  BY DEF TypeOK
<1>2. CASE Drop(i, io_incomplete, cs) /\ UNCHANGED dead
  BY <1>1, <1>2 DEF Drop, Running
<1>3. ASSUME NEW p \in FindIopath(avail, io_incomplete),
             IF p = Wild THEN Drop(i, io_incomplete, cs) /\ dead' = "selector"
                         ELSE SendTo(i, p, io_incomplete, cs)
      PROVE  /\ io_incomplete' \in [Paths -> 0 .. UintMax]
             /\ \/ /\ status' = [status EXCEPT ![i] = "device"]
                   /\ \E q \in Paths : ctxs' = [ctxs EXCEPT ![i] = Append(cs, q)]
                   /\ dead' = "no"
                \/ /\ status' = [status EXCEPT ![i] = "lost"]
                   /\ ctxs' = [ctxs EXCEPT ![i] = cs]
                   /\ dead' \in {"no", "selector"}
  <2>1. CASE p = Wild
    BY <1>1, <1>3, <2>1 DEF Drop
  <2>2. CASE p # Wild
    <3>1. p \in Paths
      BY <1>1, <2>2, FindIopathType
    <3>2. (io_incomplete[p] + 1) % (UintMax + 1) \in 0 .. UintMax
      BY <1>1, <3>1, ModuloType
    <3>3. Increment(io_incomplete, p) \in [Paths -> 0 .. UintMax]
      BY <1>1, <3>2 DEF Increment
    <3> QED BY <1>3, <2>2, <3>1, <3>3 DEF SendTo, Running
  <2> QED BY <2>1, <2>2
<1> QED BY <1>2, <1>3 DEF SubmitRequest

(* The request's own bookkeeping after a call of ump_bdev_submit_request   *)
(* whose previous contexts were cs.                                        *)
LEMMA SubmitRequestPreserves ==
  ASSUME TypeOK, AnsweredOnce, Running, NEW i \in Ios,
         NEW avail \in [Paths -> BOOLEAN], NEW cs \in Seq(Paths),
         SubmitRequest(i, avail, io_incomplete, cs),
         \/ acks' = [acks EXCEPT ![i] = 0]
         \/ UNCHANGED acks /\ acks[i] = 0
  PROVE  /\ io_incomplete' \in [Paths -> 0 .. UintMax]
         /\ status' \in [Ios -> Statuses]
         /\ ctxs' \in [Ios -> Seq(Paths)]
         /\ acks' \in [Ios -> Nat]
         /\ dead' \in Causes
         /\ AnsweredOnce'
<1>t. /\ status \in [Ios -> Statuses] /\ ctxs \in [Ios -> Seq(Paths)]
      /\ acks \in [Ios -> Nat]
  BY DEF TypeOK
<1>1. acks' \in [Ios -> Nat] /\ acks'[i] = 0 /\ \A j \in Ios \ {i} : acks'[j] = acks[j]
  <2>1. CASE acks' = [acks EXCEPT ![i] = 0]
    BY <1>t, <2>1
  <2>2. CASE UNCHANGED acks /\ acks[i] = 0
    BY <1>t, <2>2
  <2> QED BY <2>1, <2>2
<1>2. CASE /\ status' = [status EXCEPT ![i] = "device"]
           /\ \E p \in Paths : ctxs' = [ctxs EXCEPT ![i] = Append(cs, p)]
           /\ dead' = "no"
  <2>1. PICK p \in Paths : ctxs' = [ctxs EXCEPT ![i] = Append(cs, p)]
    BY <1>2
  <2>2. Append(cs, p) \in Seq(Paths) /\ Append(cs, p) # <<>>
    <3>1. Append(cs, p) \in Seq(Paths) /\ Len(Append(cs, p)) = Len(cs) + 1
      BY AppendProperties
    <3> QED BY <3>1, LenProperties, EmptySeq
  <2>3. /\ status' \in [Ios -> Statuses] /\ ctxs' \in [Ios -> Seq(Paths)]
        /\ status'[i] = "device" /\ ctxs'[i] # <<>>
        /\ \A j \in Ios \ {i} : status'[j] = status[j] /\ ctxs'[j] = ctxs[j]
    BY <1>t, <1>2, <2>1, <2>2
  <2>4. AnsweredOnce'
    BY <1>1, <2>3 DEF AnsweredOnce
  <2> QED BY <1>1, <1>2, <2>3, <2>4, SubmitRequestEffect
<1>3. CASE /\ status' = [status EXCEPT ![i] = "lost"]
           /\ ctxs' = [ctxs EXCEPT ![i] = cs]
           /\ dead' \in {"no", "selector"}
  <2>1. /\ status' \in [Ios -> Statuses] /\ ctxs' \in [Ios -> Seq(Paths)]
        /\ status'[i] = "lost"
        /\ \A j \in Ios \ {i} : status'[j] = status[j] /\ ctxs'[j] = ctxs[j]
    BY <1>t, <1>3
  <2>2. AnsweredOnce'
    BY <1>1, <2>1 DEF AnsweredOnce
  <2> QED BY <1>1, <1>3, <2>1, <2>2, SubmitRequestEffect
<1> QED BY <1>2, <1>3, SubmitRequestEffect

(* What ump_iopath_init and the end of polling do to a path being probed.  *)
LEMMA RestorePreserves ==
  ASSUME TypeOK, OnePollerPerFailedPath, NEW p \in Paths, reconnecting[p], Restore(p)
  PROVE  /\ available' \in [Paths -> BOOLEAN]
         /\ reconnecting' \in [Paths -> BOOLEAN]
         /\ io_incomplete' \in [Paths -> 0 .. UintMax]
         /\ pollers' \in [Paths -> Nat]
         /\ probes' \in [Paths -> Nat]
         /\ OnePollerPerFailedPath'
<1>t. /\ available \in [Paths -> BOOLEAN] /\ reconnecting \in [Paths -> BOOLEAN]
      /\ io_incomplete \in [Paths -> 0 .. UintMax]
      /\ pollers \in [Paths -> Nat] /\ probes \in [Paths -> Nat]
  BY DEF TypeOK
<1>z. 0 \in 0 .. UintMax
  BY UintMaxAssumption
<1>1. pollers[p] = 1
  BY <1>t DEF OnePollerPerFailedPath
<1>2. pollers' \in [Paths -> Nat] /\ pollers'[p] = 0
  BY <1>t, <1>1 DEF Restore
<1>3. \A q \in Paths \ {p} : /\ available'[q] = available[q]
                             /\ reconnecting'[q] = reconnecting[q]
                             /\ pollers'[q] = pollers[q]
                             /\ probes'[q] = probes[q]
  BY <1>t DEF Restore
<1>4. /\ available' \in [Paths -> BOOLEAN] /\ available'[p] = TRUE
      /\ reconnecting' \in [Paths -> BOOLEAN] /\ reconnecting'[p] = FALSE
  BY <1>t DEF Restore
<1>5. /\ probes' \in [Paths -> Nat] /\ probes'[p] = 0
      /\ io_incomplete' \in [Paths -> 0 .. UintMax]
  BY <1>t, <1>z DEF Restore
<1>6. OnePollerPerFailedPath'
  BY <1>2, <1>3, <1>4, <1>5 DEF OnePollerPerFailedPath
<1> QED BY <1>2, <1>4, <1>5, <1>6

(* A wrapped request has a current path and a list of earlier ones.        *)
LEMMA LastAndFront ==
  ASSUME NEW cs \in Seq(Paths), cs # <<>>
  PROVE  Last(cs) \in Paths /\ Front(cs) \in Seq(Paths)
<1>1. Len(cs) \in Nat /\ Len(cs) # 0
  BY LenProperties, EmptySeq
<1>2. Last(cs) \in Paths
  BY <1>1, ElementOfSeq DEF Last
<1>3. Front(cs) \in Seq(Paths)
  BY <1>1, SubSeqProperties DEF Front
<1> QED BY <1>2, <1>3

-----------------------------------------------------------------------------
(* Initiation and preservation of the invariant, one step per action.      *)

(* The invariant holds of a channel just created.                          *)
LEMMA InitInv == Init => Inv
<1> SUFFICES ASSUME Init PROVE Inv
  OBVIOUS
<1>1. 0 \in 0 .. UintMax /\ 0 \in 0 .. MaxFaults
  BY UintMaxAssumption, BoundsAssumption
<1>2. <<>> \in Seq(Paths)
  BY EmptySeq
<1>3. TypeOK
  BY <1>1, <1>2 DEF Init, TypeOK
<1>4. OnePollerPerFailedPath
  <2> SUFFICES ASSUME NEW p \in Paths
               PROVE  /\ reconnecting[p] = ~available[p]
                      /\ pollers[p] = IF available[p] THEN 0 ELSE 1
                      /\ probes[p] > 0 => ~available[p]
    BY DEF OnePollerPerFailedPath
  <2>1. available[p] = TRUE /\ reconnecting[p] = FALSE
    BY DEF Init
  <2>2. pollers[p] = 0 /\ probes[p] = 0
    BY DEF Init
  <2>3. ~ (probes[p] > 0)
    BY <2>2
  <2> QED BY <2>1, <2>2, <2>3
<1>5. AnsweredOnce
  BY DEF Init, AnsweredOnce
<1> QED BY <1>3, <1>4, <1>5 DEF Inv

(* Taking a path out and starting its failback keeps one poller per path.  *)
LEMMA FailPathPreserves ==
  ASSUME TypeOK, OnePollerPerFailedPath, NEW p \in Paths,
         available' = [available EXCEPT ![p] = FALSE],
         reconnecting' = [reconnecting EXCEPT ![p] = TRUE],
         pollers' = [pollers EXCEPT ![p] = IF reconnecting[p] THEN @ ELSE @ + 1],
         UNCHANGED probes
  PROVE  /\ available' \in [Paths -> BOOLEAN]
         /\ reconnecting' \in [Paths -> BOOLEAN]
         /\ pollers' \in [Paths -> Nat]
         /\ OnePollerPerFailedPath'
<1>t. /\ available \in [Paths -> BOOLEAN] /\ reconnecting \in [Paths -> BOOLEAN]
      /\ pollers \in [Paths -> Nat]
  BY DEF TypeOK
<1>1. pollers' \in [Paths -> Nat] /\ pollers'[p] = 1
  BY <1>t DEF OnePollerPerFailedPath
<1>2. \A q \in Paths \ {p} : /\ available'[q] = available[q]
                             /\ reconnecting'[q] = reconnecting[q]
                             /\ pollers'[q] = pollers[q]
  BY <1>t
<1>3. /\ available' \in [Paths -> BOOLEAN] /\ available'[p] = FALSE
      /\ reconnecting' \in [Paths -> BOOLEAN] /\ reconnecting'[p] = TRUE
  BY <1>t
<1>4. OnePollerPerFailedPath'
  BY <1>1, <1>2, <1>3 DEF OnePollerPerFailedPath
<1> QED BY <1>1, <1>3, <1>4

(* The faults stay within their bound.                                     *)
LEMMA MisbehavesType ==
  ASSUME TypeOK, NEW p \in Paths, Misbehaves(p)
  PROVE  faults' \in 0 .. MaxFaults
<1>1. faults \in 0 .. MaxFaults /\ MaxFaults \in Nat
  BY BoundsAssumption DEF TypeOK
<1>2. (faults < MaxFaults /\ faults' = faults + 1) \/ faults' = faults
  BY DEF Misbehaves
<1> QED BY <1>1, <1>2

(* Every step of a request and its completion preserves the invariant.     *)
LEMMA RequestStepsInv ==
  ASSUME Inv, NEW i \in Ios, IoNext(i)
  PROVE  Inv'
<1>t. TypeOK /\ OnePollerPerFailedPath /\ AnsweredOnce
  BY DEF Inv
<1>c. ctxs[i] \in Seq(Paths) /\ <<>> \in Seq(Paths)
  BY <1>t, EmptySeq DEF TypeOK
<1>d. status[i] = "device" => ctxs[i] # <<>> /\ acks[i] = 0
  BY <1>t DEF AnsweredOnce
<1>1. CASE Submit(i)
  <2>1. /\ Running /\ SubmitRequest(i, available, io_incomplete, <<>>)
        /\ acks' = [acks EXCEPT ![i] = 0]
        /\ UNCHANGED <<available, reconnecting, failedOnce, pollers, probes, stale,
                       link, faults, open>>
    BY <1>1 DEF Submit, probeVars, envVars
  <2>2. available \in [Paths -> BOOLEAN]
    BY <1>t DEF TypeOK
  <2>3. /\ io_incomplete' \in [Paths -> 0 .. UintMax] /\ status' \in [Ios -> Statuses]
        /\ ctxs' \in [Ios -> Seq(Paths)] /\ acks' \in [Ios -> Nat] /\ dead' \in Causes
        /\ AnsweredOnce'
    BY <1>t, <1>c, <2>1, <2>2, SubmitRequestPreserves
  <2>4. TypeOK'
    BY <1>t, <2>1, <2>3 DEF TypeOK
  <2>5. OnePollerPerFailedPath'
    BY <1>t, <2>1 DEF OnePollerPerFailedPath
  <2> QED BY <2>3, <2>4, <2>5 DEF Inv
<1>2. CASE AnswerNomem(i)
  <2>1. /\ status[i] = "device" /\ status' = [status EXCEPT ![i] = "requeued"]
        /\ UNCHANGED <<available, reconnecting, io_incomplete, failedOnce, pollers, probes,
                       stale, ctxs, acks, link, faults, open, dead>>
    BY <1>2 DEF AnswerNomem, pathVars, probeVars, envVars
  <2>2. TypeOK'
    BY <1>t, <2>1 DEF TypeOK
  <2>3. OnePollerPerFailedPath'
    BY <1>t, <2>1 DEF OnePollerPerFailedPath
  <2>4. AnsweredOnce'
    BY <1>t, <2>1 DEF AnsweredOnce, TypeOK
  <2> QED BY <2>2, <2>3, <2>4 DEF Inv
<1>3. CASE Retry(i)
  <2>1. /\ Running /\ SubmitRequest(i, available, io_incomplete, ctxs[i])
        /\ status[i] = "requeued"
        /\ UNCHANGED <<available, reconnecting, failedOnce, pollers, probes, stale,
                       acks, link, faults, open>>
    BY <1>3 DEF Retry, probeVars, envVars
  <2>2. available \in [Paths -> BOOLEAN] /\ acks[i] = 0
    BY <1>t, <2>1 DEF TypeOK, AnsweredOnce
  <2>3. /\ io_incomplete' \in [Paths -> 0 .. UintMax] /\ status' \in [Ios -> Statuses]
        /\ ctxs' \in [Ios -> Seq(Paths)] /\ acks' \in [Ios -> Nat] /\ dead' \in Causes
        /\ AnsweredOnce'
    BY <1>t, <1>c, <2>1, <2>2, SubmitRequestPreserves
  <2>4. TypeOK'
    BY <1>t, <2>1, <2>3 DEF TypeOK
  <2>5. OnePollerPerFailedPath'
    BY <1>t, <2>1 DEF OnePollerPerFailedPath
  <2> QED BY <2>3, <2>4, <2>5 DEF Inv
<1>4. CASE Succeed(i)
  <2>1. /\ status[i] = "device" /\ status' = [status EXCEPT ![i] = "free"]
        /\ ctxs' = [ctxs EXCEPT ![i] = <<>>]
        /\ acks' = [acks EXCEPT ![i] = @ + 1]
        /\ io_incomplete' = [p \in Paths |->
                               (io_incomplete[p] - CountOn(ctxs[i], p)) % (UintMax + 1)]
        /\ UNCHANGED <<available, reconnecting, failedOnce, pollers, probes,
                       stale, link, faults, open, dead>>
    BY <1>4 DEF Succeed, UpdateIopath, probeVars, envVars
  <2>2. \A p \in Paths : (io_incomplete[p] - CountOn(ctxs[i], p)) % (UintMax + 1)
                            \in 0 .. UintMax
    <3> TAKE p \in Paths
    <3>1. CountOn(ctxs[i], p) \in Int
      BY <1>c, CountOnType
    <3>2. io_incomplete[p] \in 0 .. UintMax
      BY <1>t DEF TypeOK
    <3>3. io_incomplete[p] - CountOn(ctxs[i], p) \in Int
      BY <3>1, <3>2
    <3> QED BY <3>3, ModuloType
  <2>3. io_incomplete' \in [Paths -> 0 .. UintMax]
    BY <2>1, <2>2
  <2>4. acks' \in [Ios -> Nat] /\ acks'[i] = 1
    <3>1. acks \in [Ios -> Nat] /\ acks[i] = 0
      BY <1>t, <1>d, <2>1 DEF TypeOK
    <3> QED BY <2>1, <3>1
  <2>5. TypeOK'
    BY <1>t, <1>c, <2>1, <2>3, <2>4 DEF TypeOK
  <2>6. OnePollerPerFailedPath'
    BY <1>t, <2>1 DEF OnePollerPerFailedPath
  <2>7. AnsweredOnce'
    <3>1. /\ status'[i] = "free" /\ ctxs'[i] = <<>>
          /\ \A j \in Ios \ {i} : /\ status'[j] = status[j] /\ ctxs'[j] = ctxs[j]
                                  /\ acks'[j] = acks[j]
      BY <1>t, <2>1 DEF TypeOK
    <3> QED BY <1>t, <2>4, <3>1 DEF AnsweredOnce
  <2> QED BY <2>5, <2>6, <2>7 DEF Inv
<1>5. CASE Fail(i)
  <2> DEFINE p == Current(i)
             avail == [available EXCEPT ![p] = FALSE]
  <2>1. /\ Running /\ status[i] = "device" /\ Misbehaves(p)
        /\ available' = avail
        /\ reconnecting' = [reconnecting EXCEPT ![p] = TRUE]
        /\ pollers' = [pollers EXCEPT ![p] = IF reconnecting[p] THEN @ ELSE @ + 1]
        /\ failedOnce' = failedOnce \cup {p}
        /\ SubmitRequest(i, avail, io_incomplete, Front(ctxs[i]))
        /\ UNCHANGED <<probes, stale, acks, link, open>>
    BY <1>5 DEF Fail, Failback
  <2>2. p \in Paths /\ Front(ctxs[i]) \in Seq(Paths)
    BY <1>c, <1>d, <2>1, LastAndFront DEF Current
  <2> HIDE DEF p
  <2>3. avail \in [Paths -> BOOLEAN]
    BY <1>t DEF TypeOK
  <2>4. /\ available' \in [Paths -> BOOLEAN] /\ reconnecting' \in [Paths -> BOOLEAN]
        /\ pollers' \in [Paths -> Nat] /\ OnePollerPerFailedPath'
    BY <1>t, <2>1, <2>2, FailPathPreserves
  <2> HIDE DEF avail
  <2>5. /\ io_incomplete' \in [Paths -> 0 .. UintMax] /\ status' \in [Ios -> Statuses]
        /\ ctxs' \in [Ios -> Seq(Paths)] /\ acks' \in [Ios -> Nat] /\ dead' \in Causes
        /\ AnsweredOnce'
    BY <1>t, <1>d, <2>1, <2>2, <2>3, SubmitRequestPreserves
  <2>6. faults' \in 0 .. MaxFaults
    BY <1>t, <2>1, <2>2, MisbehavesType
  <2>7. TypeOK'
    BY <1>t, <2>1, <2>2, <2>4, <2>5, <2>6 DEF TypeOK
  <2> QED BY <2>4, <2>5, <2>7 DEF Inv
<1> QED BY <1>1, <1>2, <1>3, <1>4, <1>5 DEF IoNext

(* Every step of failback and of the network preserves the invariant.      *)
LEMMA PathStepsInv ==
  ASSUME Inv, NEW p \in Paths, PathNext(p)
  PROVE  Inv'
<1>t. TypeOK /\ OnePollerPerFailedPath /\ AnsweredOnce
  BY DEF Inv
<1>n. /\ pollers \in [Paths -> Nat] /\ probes \in [Paths -> Nat]
      /\ stale \in [Paths -> Nat]
  BY <1>t DEF TypeOK
<1>1. CASE ProbeFire(p)
  <2>1. /\ pollers[p] > 0 /\ probes' = [probes EXCEPT ![p] = @ + 1]
        /\ UNCHANGED <<available, reconnecting, io_incomplete, failedOnce, pollers,
                       stale, status, ctxs, acks, link, faults, open, dead>>
    BY <1>1 DEF ProbeFire, pathVars, ioVars, envVars
  <2>2. ~available[p]
    <3>1. pollers[p] = IF available[p] THEN 0 ELSE 1
      BY <1>t DEF OnePollerPerFailedPath
    <3> QED BY <2>1, <3>1
  <2>3. probes' \in [Paths -> Nat] /\ \A q \in Paths \ {p} : probes'[q] = probes[q]
    BY <1>n, <2>1
  <2>4. TypeOK'
    BY <1>t, <2>1, <2>3 DEF TypeOK
  <2>5. OnePollerPerFailedPath'
    BY <1>t, <2>1, <2>2, <2>3 DEF OnePollerPerFailedPath
  <2>6. AnsweredOnce'
    BY <1>t, <2>1 DEF AnsweredOnce
  <2> QED BY <2>4, <2>5, <2>6 DEF Inv
<1>2. CASE ProbeSucceed(p)
  <2>1. /\ probes[p] > 0 /\ Restore(p)
        /\ stale' = [stale EXCEPT ![p] = @ + probes[p] - 1]
        /\ UNCHANGED <<failedOnce, status, ctxs, acks, link, faults, open, dead>>
    BY <1>2 DEF ProbeSucceed, ioVars, envVars
  <2>2. reconnecting[p]
    BY <1>t, <2>1 DEF OnePollerPerFailedPath
  <2>3. stale' \in [Paths -> Nat]
    <3>1. stale[p] + probes[p] - 1 \in Nat
      BY <1>n, <2>1
    <3> QED BY <1>n, <2>1, <3>1
  <2>4. /\ available' \in [Paths -> BOOLEAN] /\ reconnecting' \in [Paths -> BOOLEAN]
        /\ io_incomplete' \in [Paths -> 0 .. UintMax]
        /\ pollers' \in [Paths -> Nat] /\ probes' \in [Paths -> Nat]
        /\ OnePollerPerFailedPath'
    BY <1>t, <2>1, <2>2, RestorePreserves
  <2>5. TypeOK'
    BY <1>t, <2>1, <2>3, <2>4 DEF TypeOK
  <2>6. AnsweredOnce'
    BY <1>t, <2>1 DEF AnsweredOnce
  <2> QED BY <2>4, <2>5, <2>6 DEF Inv
<1>3. CASE ProbeFail(p)
  <2>1. /\ probes[p] > 0 /\ Misbehaves(p)
        /\ probes' = [probes EXCEPT ![p] = @ - 1]
        /\ UNCHANGED <<available, reconnecting, io_incomplete, failedOnce, pollers,
                       stale, status, ctxs, acks, link, open, dead>>
    BY <1>3 DEF ProbeFail, pathVars, ioVars
  <2>2. ~available[p]
    BY <1>t, <2>1 DEF OnePollerPerFailedPath
  <2>3. probes' \in [Paths -> Nat] /\ \A q \in Paths \ {p} : probes'[q] = probes[q]
    BY <1>n, <2>1
  <2>4. faults' \in 0 .. MaxFaults
    BY <1>t, <2>1, MisbehavesType
  <2>5. TypeOK'
    BY <1>t, <2>1, <2>3, <2>4 DEF TypeOK
  <2>6. OnePollerPerFailedPath'
    BY <1>t, <2>1, <2>2, <2>3 DEF OnePollerPerFailedPath
  <2>7. AnsweredOnce'
    BY <1>t, <2>1 DEF AnsweredOnce
  <2> QED BY <2>5, <2>6, <2>7 DEF Inv
<1>4. CASE StaleProbe(p)
  <2>1. /\ Running /\ stale[p] > 0
        /\ UNCHANGED <<status, ctxs, acks, link, faults, open>>
    BY <1>4 DEF StaleProbe, ioVars, envVars
  <2>2. CASE /\ stale' = [stale EXCEPT ![p] = @ - 1]
             /\ dead' \in {"no", "stale probe"}
             /\ UNCHANGED <<pathVars, pollers, probes>>
    <3>1. stale' \in [Paths -> Nat]
      <4>1. stale[p] - 1 \in Nat
        BY <1>n, <2>1
      <4> QED BY <1>n, <2>2, <4>1
    <3>2. UNCHANGED <<available, reconnecting, io_incomplete, failedOnce, pollers, probes>>
      BY <2>2 DEF pathVars
    <3>3. TypeOK'
      BY <1>t, <2>1, <2>2, <3>1, <3>2 DEF TypeOK
    <3>4. OnePollerPerFailedPath' /\ AnsweredOnce'
      BY <1>t, <2>1, <3>2 DEF OnePollerPerFailedPath, AnsweredOnce
    <3> QED BY <3>3, <3>4 DEF Inv
  <2>3. ASSUME NEW q \in Paths, reconnecting[q], Restore(q),
               stale' = [r \in Paths |-> stale[r] - (IF r = p THEN 1 ELSE 0)
                                                 + (IF r = q THEN probes[q] ELSE 0)],
               UNCHANGED <<failedOnce, dead>>
        PROVE  Inv'
    <3>1. stale' \in [Paths -> Nat]
      <4>1. \A r \in Paths : stale[r] \in Nat /\ probes[q] \in Nat
        BY <1>t DEF TypeOK
      <4>2. \A r \in Paths : stale[r] - (IF r = p THEN 1 ELSE 0)
                                + (IF r = q THEN probes[q] ELSE 0) \in Nat
        BY <2>1, <4>1
      <4> QED BY <2>3, <4>2
    <3>2. /\ available' \in [Paths -> BOOLEAN] /\ reconnecting' \in [Paths -> BOOLEAN]
          /\ io_incomplete' \in [Paths -> 0 .. UintMax]
          /\ pollers' \in [Paths -> Nat] /\ probes' \in [Paths -> Nat]
          /\ OnePollerPerFailedPath'
      BY <1>t, <2>3, RestorePreserves
    <3>3. TypeOK'
      BY <1>t, <2>1, <2>3, <3>1, <3>2 DEF TypeOK
    <3>4. AnsweredOnce'
      BY <1>t, <2>1 DEF AnsweredOnce
    <3> QED BY <3>2, <3>3, <3>4 DEF Inv
  <2> QED BY <1>4, <2>2, <2>3 DEF StaleProbe
<1>5. CASE UseFreedPath(p)
  <2>1. /\ dead' = "closed"
        /\ UNCHANGED <<available, reconnecting, io_incomplete, failedOnce, pollers, probes,
                       stale, status, ctxs, acks, link, faults, open>>
    BY <1>5 DEF UseFreedPath, pathVars, probeVars, ioVars, envVars
  <2>2. TypeOK'
    BY <1>t, <2>1 DEF TypeOK
  <2> QED BY <1>t, <2>1, <2>2 DEF Inv, OnePollerPerFailedPath, AnsweredOnce
<1>6. CASE LinkDown(p) \/ LinkUp(p)
  <2>1. /\ \E b \in BOOLEAN : link' = [link EXCEPT ![p] = b]
        /\ (faults < MaxFaults /\ faults' = faults + 1) \/ faults' = faults
        /\ UNCHANGED <<available, reconnecting, io_incomplete, failedOnce, pollers, probes,
                       stale, status, ctxs, acks, open, dead>>
    BY <1>6 DEF LinkDown, LinkUp, pathVars, probeVars, ioVars
  <2>2. link' \in [Paths -> BOOLEAN] /\ faults' \in 0 .. MaxFaults
    <3>1. link \in [Paths -> BOOLEAN] /\ faults \in 0 .. MaxFaults /\ MaxFaults \in Nat
      BY <1>t, BoundsAssumption DEF TypeOK
    <3> QED BY <2>1, <3>1
  <2>3. TypeOK'
    BY <1>t, <2>1, <2>2 DEF TypeOK
  <2> QED BY <1>t, <2>1, <2>3 DEF Inv, OnePollerPerFailedPath, AnsweredOnce
<1> QED BY <1>1, <1>2, <1>3, <1>4, <1>5, <1>6 DEF PathNext

(* Closing the channel changes nothing the invariant speaks of.            *)
LEMMA StutterInv == Inv /\ (UNCHANGED vars \/ CloseChannel) => Inv'
<1> SUFFICES ASSUME Inv, UNCHANGED vars \/ CloseChannel PROVE Inv'
  OBVIOUS
<1>1. /\ UNCHANGED <<available, reconnecting, io_incomplete, failedOnce, pollers, probes,
                     stale, status, ctxs, acks, link, faults, dead>>
      /\ open' \in {open, FALSE}
  BY DEF vars, CloseChannel, pathVars, probeVars, ioVars, envVars
<1>2. TypeOK /\ OnePollerPerFailedPath /\ AnsweredOnce
  BY DEF Inv
<1>3. TypeOK'
  BY <1>1, <1>2 DEF TypeOK
<1> QED BY <1>1, <1>2, <1>3 DEF Inv, OnePollerPerFailedPath, AnsweredOnce

(* Every step preserves the invariant.                                     *)
LEMMA NextInv == Inv /\ [Next]_vars => Inv'
<1> SUFFICES ASSUME Inv, [Next]_vars PROVE Inv'
  OBVIOUS
<1>1. CASE UNCHANGED vars \/ CloseChannel
  BY <1>1, StutterInv
<1>2. CASE \E i \in Ios : IoNext(i)
  BY <1>2, RequestStepsInv
<1>3. CASE \E p \in Paths : PathNext(p)
  BY <1>3, PathStepsInv
<1> QED BY <1>1, <1>2, <1>3 DEF Next

(* The inductive invariant holds throughout every behaviour.               *)
THEOREM Invariance == Spec => []Inv
BY InitInv, NextInv, PTL DEF Spec

(* Every variable keeps its type: in particular io_incomplete stays within *)
(* 64 bits by wrapping, and a poller is never paused that does not run.    *)
THEOREM TypeCorrectness == Spec => []TypeOK
<1>1. Inv => TypeOK
  BY DEF Inv
<1> QED BY <1>1, Invariance, PTL

(* A path is out of service exactly while one poller probes it, for any    *)
(* number of paths, requests, failures and unanswered probes.              *)
THEOREM FailbackOwnsFailedPaths == Spec => []OnePollerPerFailedPath
<1>1. Inv => OnePollerPerFailedPath
  BY DEF Inv
<1> QED BY <1>1, Invariance, PTL

(* However often a request fails over or is requeued, its caller hears of  *)
(* it at most once, and exactly once if it comes back.                     *)
THEOREM RequestsAnsweredOnce == Spec => []AnsweredOnce
<1>1. Inv => AnsweredOnce
  BY DEF Inv
<1> QED BY <1>1, Invariance, PTL

(* A resubmission that reaches a device goes to an eligible path, if there *)
(* is one: given flags and depths fix the path that is chosen.             *)
LEMMA SubmitsToEligible ==
  ASSUME TypeOK, NEW i \in Ios, NEW avail \in [Paths -> BOOLEAN], NEW cs \in Seq(Paths),
         SubmitRequest(i, avail, io_incomplete, cs),
         status'[i] = "device", Eligible(avail, io_incomplete) # {}
  PROVE  Last(ctxs'[i]) \in Paths /\ avail[Last(ctxs'[i])]
<1>t. /\ status \in [Ios -> Statuses] /\ ctxs \in [Ios -> Seq(Paths)]
      /\ io_incomplete \in [Paths -> 0 .. UintMax]
  BY DEF TypeOK
<1>n. io_incomplete \in [Paths -> Nat]
  BY <1>t, UintMaxAssumption
<1>1. ~Drop(i, io_incomplete, cs)
  BY <1>t DEF Drop
<1>2. PICK p \in FindIopath(avail, io_incomplete) : p # Wild /\ SendTo(i, p, io_incomplete, cs)
  BY <1>1 DEF SubmitRequest
<1>3. CheapestPath(avail, io_incomplete) \in Eligible(avail, io_incomplete)
  BY <1>n, CheapestPathIsEligible
<1>4. p \in Paths /\ avail[p]
  <2>1. CheapestPath(avail, io_incomplete) # Wild
    BY <1>3, PathsAreNaturals DEF Eligible
  <2> QED BY <1>2, <1>3, <2>1 DEF FindIopath, Eligible
<1>5. ctxs'[i] = Append(cs, p)
  BY <1>t, <1>2 DEF SendTo
<1>6. Last(Append(cs, p)) = p
  BY <1>4, AppendProperties DEF Last
<1> QED BY <1>4, <1>5, <1>6

(* Failover never sends a request back to the path it failed on, nor to    *)
(* any other path out of service, while an eligible path exists.           *)
THEOREM FailoverAvoidsFailedPaths == Spec => FailoverLeavesFailedPath
<1>1. ASSUME Inv, NEW i \in Ios, Failed(i), status'[i] = "device",
             Eligible(available', io_incomplete) # {}
      PROVE  Last(ctxs'[i]) # Current(i) /\ available'[Last(ctxs'[i])]
  <2>1. /\ ~available'[Current(i)] /\ status[i] = "device"
        /\ available' = [available EXCEPT ![Current(i)] = FALSE]
        /\ SubmitRequest(i, [available EXCEPT ![Current(i)] = FALSE], io_incomplete,
                         Front(ctxs[i]))
    BY <1>1 DEF Failed, Fail
  <2>2. ctxs[i] \in Seq(Paths) /\ ctxs[i] # <<>> /\ available \in [Paths -> BOOLEAN]
    BY <1>1, <2>1 DEF Inv, TypeOK, AnsweredOnce
  <2>3. Front(ctxs[i]) \in Seq(Paths) /\ available' \in [Paths -> BOOLEAN]
    BY <2>1, <2>2, LastAndFront
  <2>4. available'[Last(ctxs'[i])]
    BY <1>1, <2>1, <2>3, SubmitsToEligible DEF Inv
  <2> QED BY <2>1, <2>4
<1>2. Inv /\ [Next]_vars
        => [\A i \in Ios :
              (Failed(i) /\ status'[i] = "device" /\ Eligible(available', io_incomplete) # {})
                => /\ Last(ctxs'[i]) # Current(i)
                   /\ available'[Last(ctxs'[i])]]_vars
  BY <1>1
<1> QED BY <1>2, Invariance, PTL DEF Spec, FailoverLeavesFailedPath

-----------------------------------------------------------------------------
(* A channel, whatever its paths do, implements the safety part of         *)
(* MultipathDevice: every step of SumpIo is a step of the abstract device  *)
(* or leaves what the layer above sees unchanged.                          *)

(* The effect of a call of ump_bdev_submit_request, seen from above.       *)
LEMMA SubmitRequestMaps ==
  ASSUME TypeOK, Running, NEW i \in Ios,
         NEW avail \in [Paths -> BOOLEAN], NEW cs \in Seq(Paths),
         SubmitRequest(i, avail, io_incomplete, cs)
  PROVE  \/ DeviceRequest' = [DeviceRequest EXCEPT ![i] = "pending"] /\ dead' = "no"
         \/ Device!Lost(i)
<1>t. status \in [Ios -> Statuses] /\ io_incomplete \in [Paths -> 0 .. UintMax]
  BY DEF TypeOK
<1>1. ASSUME status' = [status EXCEPT ![i] = "device"]
      PROVE  DeviceRequest' = [DeviceRequest EXCEPT ![i] = "pending"]
  BY <1>t, <1>1 DEF DeviceRequest
<1>2. ASSUME status' = [status EXCEPT ![i] = "lost"]
      PROVE  DeviceRequest' = [DeviceRequest EXCEPT ![i] = "lost"]
  BY <1>t, <1>2 DEF DeviceRequest
<1>3. CASE /\ Cardinality({j \in Ios : status[j] = "lost"}) < MaxLost
           /\ Drop(i, io_incomplete, cs) /\ UNCHANGED dead
  <2>1. DeviceRequest' = [DeviceRequest EXCEPT ![i] = "lost"]
    BY <1>2, <1>3 DEF Drop
  <2>2. (dead' # "no") = FALSE
    BY <1>3 DEF Running
  <2>3. MaxLost > 0
    <3>1. IsFiniteSet({j \in Ios : status[j] = "lost"})
      BY IosAssumption, FS_Subset
    <3>2. Cardinality({j \in Ios : status[j] = "lost"}) \in Nat
      BY <3>1, FS_CardinalityType
    <3> QED BY <1>3, <3>2, BoundsAssumption
  <2> QED BY <2>1, <2>2, <2>3 DEF Device!Lost
<1>4. ASSUME NEW p \in FindIopath(avail, io_incomplete),
             IF p = Wild THEN Drop(i, io_incomplete, cs) /\ dead' = "selector"
                         ELSE SendTo(i, p, io_incomplete, cs)
      PROVE  \/ DeviceRequest' = [DeviceRequest EXCEPT ![i] = "pending"] /\ dead' = "no"
             \/ Device!Lost(i)
  <2>1. CASE p = Wild
    <3>1. DeviceRequest' = [DeviceRequest EXCEPT ![i] = "lost"]
      BY <1>2, <1>4, <2>1 DEF Drop
    <3>2. (dead' # "no") = TRUE
      BY <1>4, <2>1
    <3> QED BY <3>1, <3>2 DEF Device!Lost
  <2>2. CASE p # Wild
    BY <1>1, <1>4, <2>2 DEF SendTo, Running
  <2> QED BY <2>1, <2>2
<1> QED BY <1>3, <1>4 DEF SubmitRequest

-----------------------------------------------------------------------------
(* The initial state and the steps, one case per action.                   *)

(* A channel just created is a device nobody has asked anything.           *)
LEMMA InitMaps == Init => Device!AInit
BY DEF Init, DeviceRequest, Device!AInit

(* A step of a request is the abstract step of that request, or none.      *)
LEMMA RequestStepsMap ==
  ASSUME Inv, NEW i \in Ios, IoNext(i)
  PROVE  [Device!ANext]_(Device!avars)
<1>t. TypeOK /\ AnsweredOnce
  BY DEF Inv
<1>s. /\ status \in [Ios -> Statuses] /\ ctxs[i] \in Seq(Paths) /\ <<>> \in Seq(Paths)
      /\ available \in [Paths -> BOOLEAN]
  BY <1>t, EmptySeq DEF TypeOK
<1>1. CASE Submit(i)
  <2>1. /\ Running /\ status[i] = "free" /\ acks' = [acks EXCEPT ![i] = 0]
        /\ SubmitRequest(i, available, io_incomplete, <<>>)
    BY <1>1 DEF Submit
  <2>2. ~(dead # "no") /\ DeviceRequest[i] = "idle"
    BY <2>1 DEF Running, DeviceRequest
  <2>3. \/ DeviceRequest' = [DeviceRequest EXCEPT ![i] = "pending"] /\ dead' = "no"
        \/ Device!Lost(i)
    BY <1>t, <1>s, <2>1, SubmitRequestMaps
  <2>4. Device!Accept(i)
    BY <2>1, <2>2, <2>3 DEF Device!Accept
  <2> QED BY <2>4 DEF Device!ANext
<1>2. CASE AnswerNomem(i)
  <2>1. status[i] = "device" /\ status' = [status EXCEPT ![i] = "requeued"]
    BY <1>2 DEF AnswerNomem
  <2>2. DeviceRequest' = DeviceRequest
    BY <1>s, <2>1 DEF DeviceRequest
  <2>3. UNCHANGED <<acks, dead>>
    BY <1>2 DEF AnswerNomem
  <2> QED BY <2>2, <2>3 DEF Device!avars
<1>3. ASSUME NEW avail \in [Paths -> BOOLEAN], NEW cs \in Seq(Paths), Running,
             status[i] \in {"device", "requeued"}, UNCHANGED acks,
             SubmitRequest(i, avail, io_incomplete, cs)
      PROVE  [Device!ANext]_(Device!avars)
  <2>1. ~(dead # "no") /\ DeviceRequest[i] = "pending"
    BY <1>3 DEF Running, DeviceRequest
  <2>2. CASE DeviceRequest' = [DeviceRequest EXCEPT ![i] = "pending"] /\ dead' = "no"
    <3>1. DeviceRequest' = DeviceRequest
      BY <2>1, <2>2 DEF DeviceRequest
    <3> QED BY <1>3, <2>1, <2>2, <3>1 DEF Device!avars
  <2>3. CASE Device!Lost(i)
    <3>1. Device!Lose(i)
      BY <1>3, <2>1, <2>3 DEF Device!Lose
    <3> QED BY <3>1 DEF Device!ANext
  <2> QED BY <1>t, <1>3, <2>2, <2>3, SubmitRequestMaps
<1>4. CASE Retry(i)
  BY <1>s, <1>3, <1>4 DEF Retry
<1>5. CASE Succeed(i)
  <2>1. /\ Running /\ status[i] = "device" /\ status' = [status EXCEPT ![i] = "free"]
        /\ acks' = [acks EXCEPT ![i] = @ + 1] /\ UNCHANGED dead
    BY <1>5 DEF Succeed
  <2>2. DeviceRequest[i] = "pending"
    BY <2>1 DEF DeviceRequest
  <2>3. DeviceRequest' = [DeviceRequest EXCEPT ![i] = "idle"]
    BY <1>s, <2>1 DEF DeviceRequest
  <2>4. Device!Answer(i)
    BY <2>1, <2>2, <2>3 DEF Device!Answer, Running
  <2> QED BY <2>4 DEF Device!ANext
<1>6. CASE Fail(i)
  <2> DEFINE avail == [available EXCEPT ![Current(i)] = FALSE]
  <2>1. /\ Running /\ status[i] = "device" /\ UNCHANGED acks
        /\ SubmitRequest(i, avail, io_incomplete, Front(ctxs[i]))
    BY <1>6 DEF Fail
  <2>2. avail \in [Paths -> BOOLEAN]
    BY <1>s
  <2>3. Front(ctxs[i]) \in Seq(Paths)
    BY <1>t, <1>s, <2>1, LastAndFront DEF AnsweredOnce
  <2> HIDE DEF avail
  <2> QED BY <1>3, <2>1, <2>2, <2>3
<1> QED BY <1>1, <1>2, <1>4, <1>5, <1>6 DEF IoNext

(* Failback, the network and the channel's end are invisible from above,   *)
(* unless the process dies of them.                                        *)
LEMMA OtherStepsMap ==
  ASSUME UNCHANGED vars \/ CloseChannel \/ \E p \in Paths : PathNext(p)
  PROVE  [Device!ANext]_(Device!avars)
<1>1. UNCHANGED <<status, acks>>
  BY DEF vars, ioVars, CloseChannel, PathNext, ProbeFire, ProbeSucceed, ProbeFail,
         StaleProbe, UseFreedPath, LinkDown, LinkUp
<1>2. UNCHANGED DeviceRequest
  BY <1>1 DEF DeviceRequest
<1>3. (dead = "no" /\ dead' # "no") \/ UNCHANGED dead
  BY DEF vars, CloseChannel, PathNext, ProbeFire, ProbeSucceed, ProbeFail,
         StaleProbe, UseFreedPath, LinkDown, LinkUp, Running
<1>4. CASE UNCHANGED dead
  BY <1>1, <1>2, <1>4 DEF Device!avars
<1>5. CASE dead = "no" /\ dead' # "no"
  <2>1. Device!Die
    BY <1>1, <1>2, <1>5 DEF Device!Die
  <2> QED BY <2>1 DEF Device!ANext
<1> QED BY <1>3, <1>4, <1>5

(* Every step of the channel is a step of the device or invisible.         *)
LEMMA StepMaps == Inv /\ [Next]_vars => [Device!ANext]_(Device!avars)
<1> SUFFICES ASSUME Inv, [Next]_vars PROVE [Device!ANext]_(Device!avars)
  OBVIOUS
<1>1. CASE \E i \in Ios : IoNext(i)
  BY <1>1, RequestStepsMap
<1>2. CASE UNCHANGED vars \/ CloseChannel \/ \E p \in Paths : PathNext(p)
  BY <1>2, OtherStepsMap
<1> QED BY <1>1, <1>2 DEF Next

(* The channel implements the device: every request is answered once, with *)
(* success, or is lost to memory exhaustion or with the process, for any   *)
(* number of paths and requests and however the paths fail.                *)
THEOREM ImplementsDevice == Spec => DeviceSafe
BY InitMaps, StepMaps, Invariance, PTL DEF Spec, DeviceSafe, Device!SafeSpec

-----------------------------------------------------------------------------
(* io_incomplete counts completion contexts on every path that never       *)
(* failed, and one path that never fails keeps the process out of the      *)
(* selector's unassigned pointer.  Both need that the counter does not     *)
(* reach UINT64_MAX, which Capacity says.                                  *)
Capacity == Cardinality(Ios) * MaxWraps < UintMax

(* How deep a request can be wrapped, and which paths are out of service.  *)
WrapBound ==
  \A i \in Ios : /\ Len(ctxs[i]) <= MaxWraps
                 /\ status[i] = "requeued" => Len(ctxs[i]) < MaxWraps

OnlyFailedAreOut ==
  /\ failedOnce \cap Solid = {}
  /\ \A p \in Paths : ~available[p] => p \in failedOnce

DInv == /\ Inv /\ WrapBound /\ OnlyFailedAreOut
        /\ DepthIsContexts /\ SolidPathSuffices

-----------------------------------------------------------------------------
(* Counting contexts.  cs maps every request to its contexts.              *)

(* No counter's modulus is felt below UINT64_MAX.                          *)
LEMMA SmallModulo ==
  ASSUME NEW n \in Nat, n <= UintMax
  PROVE  n % (UintMax + 1) = n
BY UintMaxAssumption

(* There are at most MaxWraps contexts per request.                        *)
LEMMA ContextsBound ==
  ASSUME NEW cs, NEW p
  PROVE  /\ IsFiniteSet(ContextsIn(cs, p))
         /\ Cardinality(ContextsIn(cs, p)) \in Nat
         /\ Capacity => Cardinality(ContextsIn(cs, p)) < UintMax
<1>1. IsFiniteSet(1 .. MaxWraps) /\ Cardinality(1 .. MaxWraps) = MaxWraps
  BY BoundsAssumption, FS_Interval
<1>2. /\ IsFiniteSet(Ios \X (1 .. MaxWraps))
      /\ Cardinality(Ios \X (1 .. MaxWraps)) = Cardinality(Ios) * MaxWraps
  BY <1>1, IosAssumption, FS_Product
<1>3. ContextsIn(cs, p) \in SUBSET (Ios \X (1 .. MaxWraps))
  BY DEF ContextsIn
<1>4. /\ IsFiniteSet(ContextsIn(cs, p))
      /\ Cardinality(ContextsIn(cs, p)) <= Cardinality(Ios \X (1 .. MaxWraps))
  BY <1>2, <1>3, FS_Subset
<1>5. Cardinality(ContextsIn(cs, p)) \in Nat /\ Cardinality(Ios \X (1 .. MaxWraps)) \in Nat
  BY <1>2, <1>4, FS_CardinalityType
<1>6. Capacity => Cardinality(Ios \X (1 .. MaxWraps)) < UintMax
  BY <1>2 DEF Capacity
<1>7. UintMax \in Nat
  BY UintMaxAssumption
<1>8. Capacity => Cardinality(ContextsIn(cs, p)) < UintMax
  BY <1>4, <1>5, <1>6, <1>7
<1> QED BY <1>4, <1>5, <1>8

(* Wrapping request i once more, on path q, adds one context to q only.    *)
LEMMA ContextsAfterWrap ==
  ASSUME NEW cs \in [Ios -> Seq(Paths)], NEW i \in Ios, NEW q \in Paths, NEW p \in Paths,
         Len(cs[i]) < MaxWraps,
         NEW ds, ds[i] = Append(cs[i], q), \A j \in Ios \ {i} : ds[j] = cs[j]
  PROVE  /\ p = q => Cardinality(ContextsIn(ds, p)) = Cardinality(ContextsIn(cs, p)) + 1
         /\ p # q => Cardinality(ContextsIn(ds, p)) = Cardinality(ContextsIn(cs, p))
<1> DEFINE n  == Len(cs[i])
<1>1. n \in Nat /\ MaxWraps \in Nat /\ cs[i] \in Seq(Paths)
  BY LenProperties, BoundsAssumption
<1>2. /\ Len(ds[i]) = n + 1 /\ ds[i][n + 1] = q
      /\ \A k \in 1 .. n : ds[i][k] = cs[i][k]
  BY <1>1, AppendProperties
<1>3. \A j \in Ios \ {i} : ds[j] = cs[j]
  OBVIOUS
<1>4. \A j \in Ios : Len(cs[j]) \in Nat /\ Len(ds[j]) \in Nat
  BY <1>1, <1>2, <1>3, LenProperties
<1>5. <<i, n + 1>> \in Ios \X (1 .. MaxWraps)
  BY <1>1
<1>6. <<i, n + 1>> \notin ContextsIn(cs, p)
  BY <1>1 DEF ContextsIn
<1> HIDE DEF n
<1>7. CASE p = q
  <2>1. ContextsIn(ds, p) = ContextsIn(cs, p) \cup {<<i, n + 1>>}
    <3>1. ASSUME NEW j \in Ios, NEW k \in 1 .. MaxWraps
          PROVE  <<j, k>> \in ContextsIn(ds, p)
                   <=> <<j, k>> \in ContextsIn(cs, p) \/ (j = i /\ k = n + 1)
      <4>1. CASE j = i
        <5>1. k \in Nat /\ Len(cs[i]) = n
          BY <1>1 DEF n
        <5>2. (k <= n + 1 /\ ds[i][k] = p) <=> ((k <= n /\ cs[i][k] = p) \/ k = n + 1)
          BY <1>1, <1>2, <1>7, <5>1
        <5> QED BY <1>2, <4>1, <5>1, <5>2 DEF ContextsIn
      <4>2. CASE j # i
        BY <1>3, <4>2 DEF ContextsIn
      <4> QED BY <4>1, <4>2
    <3> QED BY <1>5, <3>1 DEF ContextsIn
  <2>2. IsFiniteSet(ContextsIn(cs, p))
    BY ContextsBound
  <2>3. Cardinality(ContextsIn(cs, p) \cup {<<i, n + 1>>}) = Cardinality(ContextsIn(cs, p)) + 1
    BY <1>6, <2>2, FS_AddElement
  <2>4. Cardinality(ContextsIn(ds, p)) = Cardinality(ContextsIn(cs, p)) + 1
    BY <2>1, <2>3
  <2> QED BY <1>7, <2>4
<1>8. CASE p # q
  <2>1. ContextsIn(ds, p) = ContextsIn(cs, p)
    <3>1. ASSUME NEW j \in Ios, NEW k \in 1 .. MaxWraps
          PROVE  <<j, k>> \in ContextsIn(ds, p) <=> <<j, k>> \in ContextsIn(cs, p)
      <4>1. CASE j = i
        <5>1. k \in Nat /\ Len(cs[i]) = n
          BY <1>1 DEF n
        <5>2. (k <= n + 1 /\ ds[i][k] = p) <=> (k <= n /\ cs[i][k] = p)
          BY <1>1, <1>2, <1>8, <5>1
        <5> QED BY <1>2, <4>1, <5>1, <5>2 DEF ContextsIn
      <4>2. CASE j # i
        BY <1>3, <4>2 DEF ContextsIn
      <4> QED BY <4>1, <4>2
    <3> QED BY <3>1 DEF ContextsIn
  <2> QED BY <1>8, <2>1
<1> QED BY <1>7, <1>8

(* The contexts left when the outermost one is taken off.                  *)
LEMMA FrontLength ==
  ASSUME NEW cs \in Seq(Paths), cs # <<>>
  PROVE  Len(Front(cs)) = Len(cs) - 1
<1> DEFINE m == Len(cs) - 1
<1>1. m \in Nat
  BY LenProperties, EmptySeq
<1>2. \A k \in 1 .. m : cs[k] \in Paths
  BY <1>1, ElementOfSeq
<1> HIDE DEF m
<1>3. Len(SubSeq(cs, 1, m)) = IF 1 <= m THEN m - 1 + 1 ELSE 0
  BY <1>1, <1>2, SubSeqProperties
<1>4. Len(SubSeq(cs, 1, m)) = m
  BY <1>1, <1>3
<1> QED BY <1>4 DEF Front, m

(* Taking the outermost context off request i touches its path only.       *)
LEMMA ContextsAfterUnwrap ==
  ASSUME NEW cs \in [Ios -> Seq(Paths)], NEW i \in Ios, NEW p \in Paths,
         cs[i] # <<>>, p # Last(cs[i]),
         NEW ds, ds[i] = Front(cs[i]), \A j \in Ios \ {i} : ds[j] = cs[j]
  PROVE  ContextsIn(ds, p) = ContextsIn(cs, p)
<1> DEFINE n  == Len(cs[i])
<1>1. n \in Nat /\ n # 0
  BY LenProperties, EmptySeq
<1>2. \A k \in 1 .. n - 1 : cs[i][k] \in Paths
  BY <1>1, ElementOfSeq
<1>3. /\ Len(ds[i]) = n - 1
      /\ \A k \in 1 .. n - 1 : ds[i][k] = cs[i][k]
  <2>1. 1 \in Int /\ n - 1 \in Int
    BY <1>1
  <2> DEFINE f == SubSeq(cs[i], 1, n - 1)
             m == n - 1
  <2> HIDE DEF n, m
  <2>2. /\ Len(SubSeq(cs[i], 1, m)) = IF 1 <= m THEN m - 1 + 1 ELSE 0
        /\ \A k \in 1 .. m - 1 + 1 : SubSeq(cs[i], 1, m)[k] = cs[i][1 + k - 1]
    BY <1>2, <2>1, SubSeqProperties DEF m
  <2>3. Len(f) = n - 1 /\ \A k \in 1 .. n - 1 : f[k] = cs[i][k]
    <3>1. Len(f) = n - 1
      BY <1>1, <2>2 DEF m
    <3>2. ASSUME NEW k \in 1 .. n - 1 PROVE f[k] = cs[i][k]
      <4>1. k \in 1 .. m - 1 + 1 /\ 1 + k - 1 = k
        BY <1>1 DEF m
      <4> QED BY <2>2, <4>1 DEF m
    <3> QED BY <3>1, <3>2
  <2>4. ds[i] = f
    BY DEF Front, n
  <2> QED BY <2>3, <2>4
<1>4. cs[i][n] # p
  BY DEF Last
<1>5. \A j \in Ios \ {i} : ds[j] = cs[j]
  OBVIOUS
<1>6. ASSUME NEW j \in Ios, NEW k \in 1 .. MaxWraps
      PROVE  <<j, k>> \in ContextsIn(ds, p) <=> <<j, k>> \in ContextsIn(cs, p)
  <2>1. CASE j = i
    <3>1. k \in Nat /\ Len(cs[i]) = n
      BY BoundsAssumption DEF n
    <3>2. (k <= n - 1 /\ ds[i][k] = p) <=> (k <= n /\ cs[i][k] = p)
      BY <1>1, <1>3, <1>4, <3>1
    <3> QED BY <1>3, <2>1, <3>1, <3>2 DEF ContextsIn
  <2>2. CASE j # i
    BY <1>5, <2>2 DEF ContextsIn
  <2> QED BY <2>1, <2>2
<1>7. ContextsIn(ds, p) = ContextsIn(cs, p)
  BY <1>6 DEF ContextsIn
<1> QED BY <1>7

(* Unwrapping request i altogether takes CountOn contexts off each path.   *)
LEMMA ContextsAfterSuccess ==
  ASSUME NEW cs \in [Ios -> Seq(Paths)], NEW i \in Ios, NEW p \in Paths,
         Len(cs[i]) <= MaxWraps,
         NEW ds, ds[i] = <<>>, \A j \in Ios \ {i} : ds[j] = cs[j]
  PROVE  Cardinality(ContextsIn(ds, p)) = Cardinality(ContextsIn(cs, p)) - CountOn(cs[i], p)
<1> DEFINE K  == {k \in DOMAIN cs[i] : cs[i][k] = p}
           B  == {c \in ContextsIn(cs, p) : c[1] = i}
           b  == [k \in K |-> <<i, k>>]
<1>1. /\ Len(cs[i]) \in Nat /\ DOMAIN cs[i] = 1 .. Len(cs[i]) /\ MaxWraps \in Nat
  BY LenProperties, BoundsAssumption
<1>2. \A k \in K : k \in 1 .. MaxWraps /\ k <= Len(cs[i]) /\ cs[i][k] = p
  BY <1>1
<1>3. \A c \in B : c = <<i, c[2]>> /\ c[2] \in K
  BY <1>1 DEF ContextsIn
<1>4. \A k \in K : <<i, k>> \in B
  BY <1>2 DEF ContextsIn
<1>5. IsFiniteSet(K)
  <2>1. IsFiniteSet(1 .. Len(cs[i]))
    BY <1>1, FS_Interval
  <2> QED BY <1>1, <2>1, FS_Subset
<1> HIDE DEF K, B
<1>6. b \in Bijection(K, B)
  <2>1. b \in [K -> B]
    BY <1>4
  <2>2. \A k, l \in K : b[k] = b[l] => k = l
    OBVIOUS
  <2>3. \A c \in B : \E k \in K : b[k] = c
    BY <1>3
  <2> QED BY <2>1, <2>2, <2>3 DEF Bijection, Injection, Surjection, IsInjective
<1>7. Cardinality(B) = Cardinality(K)
  BY <1>5, <1>6, FS_Bijection DEF ExistsBijection
<1>8. ContextsIn(ds, p) = ContextsIn(cs, p) \ B
  <2>1. ds[i] = <<>> /\ \A j \in Ios \ {i} : ds[j] = cs[j]
    OBVIOUS
  <2>2. Len(<<>>) = 0
    OBVIOUS
  <2>3. ASSUME NEW j \in Ios, NEW k \in 1 .. MaxWraps
        PROVE  <<j, k>> \in ContextsIn(ds, p) <=> <<j, k>> \in ContextsIn(cs, p) \ B
    <3>1. CASE j = i
      <4>1. ~(k <= 0)
        BY BoundsAssumption
      <4>2. <<j, k>> \notin ContextsIn(ds, p)
        BY <2>1, <2>2, <3>1, <4>1 DEF ContextsIn
      <4> QED BY <3>1, <4>2 DEF B
    <3>2. CASE j # i
      BY <2>1, <3>2 DEF ContextsIn, B
    <3> QED BY <3>1, <3>2
  <2> QED BY <2>3 DEF ContextsIn
<1>9. ContextsIn(cs, p) \cap B = B
  BY DEF B
<1>10. Cardinality(ContextsIn(ds, p)) = Cardinality(ContextsIn(cs, p)) - Cardinality(B)
  <2>1. IsFiniteSet(ContextsIn(cs, p))
    BY ContextsBound
  <2> QED BY <1>8, <1>9, <2>1, FS_Difference
<1> QED BY <1>7, <1>10 DEF CountOn, K

-----------------------------------------------------------------------------
(* The invariant.  P stands for the paths that have not failed.            *)

(* A call of ump_bdev_submit_request charges the path it wraps the request *)
(* with: the counters of the paths in P keep counting their contexts.      *)
LEMMA SubmitRequestDepth ==
  ASSUME Capacity, TypeOK, NEW P \in SUBSET Paths, NEW i \in Ios,
         NEW avail \in [Paths -> BOOLEAN], NEW cs \in Seq(Paths), Len(cs) < MaxWraps,
         NEW f \in [Ios -> Seq(Paths)], f[i] = cs, \A j \in Ios \ {i} : f[j] = ctxs[j],
         \A p \in P : io_incomplete[p] = Cardinality(ContextsIn(f, p)),
         SubmitRequest(i, avail, io_incomplete, cs)
  PROVE  \A p \in P : io_incomplete'[p] = Cardinality(ContextsIn(ctxs', p))
<1>t. /\ ctxs \in [Ios -> Seq(Paths)]
      /\ io_incomplete \in [Paths -> 0 .. UintMax]
  BY DEF TypeOK
<1>1. CASE Drop(i, io_incomplete, cs)
  <2>1. ctxs' = f
    BY <1>t, <1>1 DEF Drop
  <2> QED BY <1>1, <2>1 DEF Drop
<1>2. ASSUME NEW q \in Paths, SendTo(i, q, io_incomplete, cs)
      PROVE  \A p \in P : io_incomplete'[p] = Cardinality(ContextsIn(ctxs', p))
  <2>1. ctxs'[i] = Append(f[i], q) /\ \A j \in Ios \ {i} : ctxs'[j] = f[j]
    BY <1>t, <1>2 DEF SendTo
  <2>2. io_incomplete' = [io_incomplete EXCEPT ![q] = (@ + 1) % (UintMax + 1)]
    BY <1>2 DEF SendTo, Increment
  <2> SUFFICES ASSUME NEW p \in P
               PROVE  io_incomplete'[p] = Cardinality(ContextsIn(ctxs', p))
    OBVIOUS
  <2>3. /\ p = q => Cardinality(ContextsIn(ctxs', p)) = Cardinality(ContextsIn(f, p)) + 1
        /\ p # q => Cardinality(ContextsIn(ctxs', p)) = Cardinality(ContextsIn(f, p))
    <3>1. p \in Paths /\ q \in Paths /\ Len(f[i]) < MaxWraps
      OBVIOUS
    <3> QED BY <2>1, <3>1, ContextsAfterWrap, SMTT(30)
  <2>4. io_incomplete[p] = Cardinality(ContextsIn(f, p))
    OBVIOUS
  <2>5. CASE p = q
    <3>1. io_incomplete[p] \in Nat /\ io_incomplete[p] < UintMax /\ UintMax \in Nat
      BY <2>4, ContextsBound, UintMaxAssumption
    <3>2. io_incomplete[p] + 1 \in Nat /\ io_incomplete[p] + 1 <= UintMax
      BY <3>1
    <3>3. (io_incomplete[p] + 1) % (UintMax + 1) = io_incomplete[p] + 1
      BY <3>2, SmallModulo
    <3>4. io_incomplete'[p] = io_incomplete[p] + 1
      BY <1>t, <2>2, <2>5, <3>3
    <3> QED BY <2>3, <2>4, <2>5, <3>4
  <2>6. CASE p # q
    <3>1. io_incomplete'[p] = io_incomplete[p]
      BY <1>t, <2>2, <2>6
    <3> QED BY <2>3, <2>4, <2>6, <3>1
  <2> QED BY <2>5, <2>6
<1>3. FindIopath(avail, io_incomplete) \subseteq Paths \cup {Wild}
  BY <1>t, FindIopathType
<1> QED BY <1>1, <1>2, <1>3 DEF SubmitRequest

(* How deep the request of a call of ump_bdev_submit_request gets.         *)
LEMMA SubmitRequestWraps ==
  ASSUME TypeOK, WrapBound, Running, NEW i \in Ios,
         NEW avail \in [Paths -> BOOLEAN], NEW cs \in Seq(Paths), Len(cs) < MaxWraps,
         SubmitRequest(i, avail, io_incomplete, cs)
  PROVE  WrapBound'
<1>t. ctxs \in [Ios -> Seq(Paths)] /\ status \in [Ios -> Statuses]
  BY DEF TypeOK
<1>n. Len(cs) \in Nat /\ MaxWraps \in Nat
  BY LenProperties, BoundsAssumption
<1>1. /\ Len(ctxs'[i]) <= MaxWraps /\ status'[i] # "requeued"
      /\ \A j \in Ios \ {i} : ctxs'[j] = ctxs[j] /\ status'[j] = status[j]
  <2>1. CASE /\ status' = [status EXCEPT ![i] = "device"]
             /\ \E p \in Paths : ctxs' = [ctxs EXCEPT ![i] = Append(cs, p)]
    <3>1. PICK p \in Paths : ctxs' = [ctxs EXCEPT ![i] = Append(cs, p)]
      BY <2>1
    <3>2. Len(Append(cs, p)) = Len(cs) + 1
      BY AppendProperties
    <3>3. ctxs'[i] = Append(cs, p) /\ Len(ctxs'[i]) <= MaxWraps
      BY <1>t, <1>n, <3>1, <3>2
    <3> QED BY <1>t, <2>1, <3>1, <3>3
  <2>2. CASE /\ status' = [status EXCEPT ![i] = "lost"]
             /\ ctxs' = [ctxs EXCEPT ![i] = cs]
    BY <1>t, <1>n, <2>2
  <2> QED BY <2>1, <2>2, SubmitRequestEffect
<1> QED BY <1>1 DEF WrapBound

(* A path in service whose counter is not at its limit is enough for the   *)
(* selector to return an assigned pointer.                                 *)
LEMMA SelectorFindsPath ==
  ASSUME NEW avail \in [Paths -> BOOLEAN], NEW depth \in [Paths -> 0 .. UintMax],
         NEW s \in Paths, avail[s], depth[s] < UintMax
  PROVE  FindIopath(avail, depth) \subseteq Paths
<1>1. depth \in [Paths -> Nat]
  BY UintMaxAssumption
<1>2. s \in Eligible(avail, depth) /\ Eligible(avail, depth) \subseteq Paths
  BY DEF Eligible
<1>3. CheapestPath(avail, depth) # Wild /\ CheapestPath(avail, depth) \in Paths
  BY <1>1, <1>2, CheapestPathIsEligible
<1> QED BY <1>3 DEF FindIopath

(* With such a path, submitting a request does not kill the process.       *)
LEMMA SubmitRequestSurvives ==
  ASSUME Running, NEW i \in Ios, NEW avail, NEW depth, NEW cs,
         FindIopath(avail, depth) \subseteq Paths, SubmitRequest(i, avail, depth, cs)
  PROVE  dead' = "no"
<1>1. Wild \notin Paths
  BY PathsAreNaturals
<1>2. CASE UNCHANGED dead
  BY <1>2 DEF Running
<1>3. CASE \E p \in Paths : SendTo(i, p, depth, cs)
  BY <1>3 DEF SendTo, Running
<1> QED BY <1>1, <1>2, <1>3 DEF SubmitRequest

(* The steps that submit a request, once the contexts it was unwrapped of  *)
(* are accounted for: f is ctxs with those of request i replaced by cs.    *)
LEMMA SubmitStepsDepth ==
  ASSUME Capacity, DInv, Inv', Running, NEW i \in Ios, NEW cs \in Seq(Paths),
         Len(cs) < MaxWraps, SubmitRequest(i, available', io_incomplete, cs),
         OnlyFailedAreOut', NEW f \in [Ios -> Seq(Paths)], f[i] = cs,
         \A j \in Ios \ {i} : f[j] = ctxs[j],
         \A p \in Paths \ failedOnce' : io_incomplete[p] = Cardinality(ContextsIn(f, p))
  PROVE  DInv'
<1>t. TypeOK /\ WrapBound
  BY DEF DInv, Inv
<1>a. available' \in [Paths -> BOOLEAN] /\ io_incomplete \in [Paths -> 0 .. UintMax]
  BY <1>t DEF TypeOK, Inv
<1>p. PICK avail \in [Paths -> BOOLEAN], P \in SUBSET Paths :
        avail = available' /\ P = Paths \ failedOnce'
  BY <1>a
<1>s. SubmitRequest(i, avail, io_incomplete, cs)
  BY <1>p
<1>1. WrapBound'
  BY <1>t, <1>s, SubmitRequestWraps
<1>2. \A p \in P : io_incomplete'[p] = Cardinality(ContextsIn(ctxs', p))
  <2>1. \A p \in P : io_incomplete[p] = Cardinality(ContextsIn(f, p))
    BY <1>p
  <2> QED BY <1>t, <1>s, <2>1, SubmitRequestDepth
<1>3. DepthIsContexts'
  BY <1>p, <1>2 DEF DepthIsContexts, ContextsOn
<1>4. SolidPathSuffices'
  <2> SUFFICES ASSUME NEW s \in Solid PROVE dead' = "no"
    BY DEF SolidPathSuffices
  <2>1. s \in Paths \ failedOnce' /\ available'[s]
    BY <1>a, SolidAssumption DEF OnlyFailedAreOut
  <2>2. io_incomplete[s] < UintMax
    BY <2>1, ContextsBound
  <2>3. FindIopath(avail, io_incomplete) \subseteq Paths
    BY <1>a, <1>p, <2>1, <2>2, SelectorFindsPath
  <2> QED BY <1>s, <2>3, SubmitRequestSurvives
<1> QED BY <1>1, <1>3, <1>4 DEF DInv

(* Every step of a request keeps the counters.                             *)
LEMMA RequestStepsDepth ==
  ASSUME Capacity, DInv, NEW i \in Ios, IoNext(i)
  PROVE  DInv'
<1>t. TypeOK /\ AnsweredOnce /\ WrapBound /\ OnlyFailedAreOut /\ DepthIsContexts
      /\ SolidPathSuffices
  BY DEF DInv, Inv
<1>c. /\ ctxs \in [Ios -> Seq(Paths)] /\ status \in [Ios -> Statuses]
      /\ io_incomplete \in [Paths -> 0 .. UintMax] /\ failedOnce \subseteq Paths
      /\ available \in [Paths -> BOOLEAN] /\ MaxWraps \in Nat \ {0}
  BY <1>t, BoundsAssumption DEF TypeOK
<1>i. Inv'
  BY RequestStepsInv DEF DInv
<1>n. Len(ctxs[i]) \in Nat /\ Len(ctxs[i]) <= MaxWraps
  BY <1>c, <1>t, LenProperties DEF WrapBound
<1>d. status[i] = "device" => ctxs[i] # <<>>
  BY <1>t DEF AnsweredOnce
<1>1. CASE Submit(i)
  <2>1. /\ Running /\ status[i] = "free"
        /\ SubmitRequest(i, available', io_incomplete, <<>>)
        /\ available' = available /\ failedOnce' = failedOnce
    BY <1>1 DEF Submit
  <2>2. ctxs[i] = <<>>
    BY <1>t, <2>1 DEF AnsweredOnce
  <2>3. <<>> \in Seq(Paths) /\ Len(<<>>) < MaxWraps
    BY <1>c, EmptySeq
  <2>4. OnlyFailedAreOut'
    BY <1>t, <2>1 DEF OnlyFailedAreOut
  <2>5. \A p \in Paths \ failedOnce' : io_incomplete[p] = Cardinality(ContextsIn(ctxs, p))
    BY <1>t, <2>1 DEF DepthIsContexts, ContextsOn
  <2> QED BY <1>c, <1>i, <2>1, <2>2, <2>3, <2>4, <2>5, SubmitStepsDepth, ZenonT(40)
<1>2. CASE AnswerNomem(i)
  <2>1. /\ Len(ctxs[i]) < MaxWraps /\ status' = [status EXCEPT ![i] = "requeued"]
        /\ UNCHANGED <<available, io_incomplete, failedOnce, ctxs, dead>>
    BY <1>2 DEF AnswerNomem, pathVars
  <2>2. WrapBound'
    BY <1>t, <1>c, <2>1 DEF WrapBound
  <2>3. OnlyFailedAreOut' /\ SolidPathSuffices'
    BY <1>t, <2>1 DEF OnlyFailedAreOut, SolidPathSuffices
  <2>4. DepthIsContexts'
    BY <1>t, <2>1 DEF DepthIsContexts, ContextsOn
  <2> QED BY <1>i, <2>2, <2>3, <2>4 DEF DInv
<1>3. CASE Retry(i)
  <2>1. /\ Running /\ status[i] = "requeued"
        /\ SubmitRequest(i, available', io_incomplete, ctxs[i])
        /\ available' = available /\ failedOnce' = failedOnce
    BY <1>3 DEF Retry
  <2>2. ctxs[i] \in Seq(Paths) /\ Len(ctxs[i]) < MaxWraps
    BY <1>c, <1>t, <2>1 DEF WrapBound
  <2>3. OnlyFailedAreOut'
    BY <1>t, <2>1 DEF OnlyFailedAreOut
  <2>4. \A p \in Paths \ failedOnce' : io_incomplete[p] = Cardinality(ContextsIn(ctxs, p))
    BY <1>t, <2>1 DEF DepthIsContexts, ContextsOn
  <2> QED BY <1>c, <1>i, <2>1, <2>2, <2>3, <2>4, SubmitStepsDepth
<1>4. CASE Succeed(i)
  <2>1. /\ Running /\ status' = [status EXCEPT ![i] = "free"]
        /\ ctxs' = [ctxs EXCEPT ![i] = <<>>]
        /\ io_incomplete' = [p \in Paths |->
                               (io_incomplete[p] - CountOn(ctxs[i], p)) % (UintMax + 1)]
        /\ UNCHANGED <<available, failedOnce, dead>>
    BY <1>4 DEF Succeed, UpdateIopath
  <2>2. /\ ctxs'[i] = <<>> /\ \A j \in Ios \ {i} : ctxs'[j] = ctxs[j]
        /\ status'[i] = "free" /\ \A j \in Ios \ {i} : status'[j] = status[j]
    BY <1>c, <2>1
  <2>3. WrapBound'
    <3>1. Len(<<>>) = 0 /\ 0 <= MaxWraps
      BY <1>c
    <3> QED BY <1>t, <2>2, <3>1 DEF WrapBound
  <2>4. OnlyFailedAreOut' /\ SolidPathSuffices'
    BY <1>t, <2>1 DEF OnlyFailedAreOut, SolidPathSuffices
  <2>5. DepthIsContexts'
    <3> SUFFICES ASSUME NEW p \in Paths \ failedOnce
                 PROVE  io_incomplete'[p] = Cardinality(ContextsIn(ctxs', p))
      BY <2>1 DEF DepthIsContexts, ContextsOn
    <3>1. io_incomplete[p] = Cardinality(ContextsIn(ctxs, p))
      BY <1>t DEF DepthIsContexts, ContextsOn
    <3>2. Cardinality(ContextsIn(ctxs', p))
            = Cardinality(ContextsIn(ctxs, p)) - CountOn(ctxs[i], p)
      <4>1. ctxs \in [Ios -> Seq(Paths)] /\ i \in Ios /\ p \in Paths /\ Len(ctxs[i]) <= MaxWraps
        BY <1>c, <1>n
      <4> QED BY <2>2, <4>1, ContextsAfterSuccess
    <3>3. /\ Cardinality(ContextsIn(ctxs', p)) \in Nat
          /\ Cardinality(ContextsIn(ctxs', p)) < UintMax
      BY ContextsBound
    <3>4. Cardinality(ContextsIn(ctxs', p)) % (UintMax + 1) = Cardinality(ContextsIn(ctxs', p))
      <4>1. PICK n : n = Cardinality(ContextsIn(ctxs', p))
        OBVIOUS
      <4> QED BY <3>3, <4>1, SmallModulo, UintMaxAssumption
    <3>5. io_incomplete'[p] = (io_incomplete[p] - CountOn(ctxs[i], p)) % (UintMax + 1)
      BY <2>1
    <3> QED BY <3>1, <3>2, <3>4, <3>5
  <2> QED BY <1>i, <2>3, <2>4, <2>5 DEF DInv
<1>5. CASE Fail(i)
  <2> DEFINE q == Current(i)
             cs == Front(ctxs[i])
  <2>1. /\ Running /\ status[i] = "device" /\ q \notin Solid
        /\ available' = [available EXCEPT ![q] = FALSE]
        /\ failedOnce' = failedOnce \cup {q}
        /\ SubmitRequest(i, available', io_incomplete, cs)
    BY <1>5 DEF Fail, Misbehaves
  <2>2. q \in Paths /\ q = Last(ctxs[i]) /\ cs \in Seq(Paths)
    BY <1>c, <1>d, <2>1, LastAndFront DEF Current
  <2>3. Len(cs) < MaxWraps
    <3>1. ctxs[i] \in Seq(Paths) /\ Len(ctxs[i]) # 0
      BY <1>c, <1>d, <2>1, EmptySeq
    <3>2. Len(cs) = Len(ctxs[i]) - 1
      BY <1>d, <2>1, <3>1, FrontLength
    <3> QED BY <1>c, <1>n, <3>2
  <2>4. OnlyFailedAreOut'
    BY <1>t, <1>c, <2>1, <2>2 DEF OnlyFailedAreOut
  <2>5. PICK f \in [Ios -> Seq(Paths)] : f = [ctxs EXCEPT ![i] = cs]
    BY <1>c, <2>2
  <2>6. f[i] = cs /\ \A j \in Ios \ {i} : f[j] = ctxs[j]
    BY <1>c, <2>5
  <2>7. ASSUME NEW p \in Paths \ failedOnce'
        PROVE  io_incomplete[p] = Cardinality(ContextsIn(f, p))
    <3>1. p \in Paths /\ p \notin failedOnce /\ p # Last(ctxs[i])
      BY <2>1, <2>2
    <3>2. ContextsIn(f, p) = ContextsIn(ctxs, p)
      <4>1. ctxs \in [Ios -> Seq(Paths)] /\ p \in Paths /\ p # Last(ctxs[i])
        BY <1>c, <3>1
      <4>2. ctxs[i] # <<>> /\ f[i] = Front(ctxs[i])
        BY <1>d, <2>1, <2>6
      <4>3. \A j \in Ios \ {i} : f[j] = ctxs[j]
        BY <2>6
      <4> QED BY <4>1, <4>2, <4>3, ContextsAfterUnwrap, Zenon
    <3> QED BY <1>t, <3>1, <3>2 DEF DepthIsContexts, ContextsOn
  <2> HIDE DEF cs
  <2> QED BY <1>i, <2>1, <2>2, <2>3, <2>4, <2>6, <2>7, SubmitStepsDepth
<1> QED BY <1>1, <1>2, <1>3, <1>4, <1>5 DEF IoNext

(* No other step touches the counter of a path that never failed.          *)
LEMMA OtherStepsDepth ==
  ASSUME DInv, (\E p \in Paths : PathNext(p)) \/ CloseChannel \/ UNCHANGED vars
  PROVE  DInv'
<1>t. TypeOK /\ OnePollerPerFailedPath /\ WrapBound /\ OnlyFailedAreOut
      /\ DepthIsContexts /\ SolidPathSuffices
  BY DEF DInv, Inv
<1>c. /\ io_incomplete \in [Paths -> 0 .. UintMax]
      /\ available \in [Paths -> BOOLEAN] /\ reconnecting \in [Paths -> BOOLEAN]
  BY <1>t DEF TypeOK
<1>i. Inv'
  BY NextInv DEF DInv, Next
<1>1. /\ UNCHANGED <<status, ctxs, failedOnce>>
      /\ dead' = dead \/ dead' \in {"no", "stale probe", "closed"}
      /\ \/ UNCHANGED <<available, io_incomplete>>
         \/ \E q \in Paths : reconnecting[q] /\ Restore(q)
  <2>1. ASSUME NEW p \in Paths, ProbeSucceed(p)
        PROVE  reconnecting[p] /\ Restore(p) /\ UNCHANGED <<status, ctxs, failedOnce, dead>>
    <3>1. probes[p] > 0 /\ Restore(p) /\ UNCHANGED <<status, ctxs, failedOnce, dead>>
      BY <2>1 DEF ProbeSucceed, ioVars
    <3> QED BY <1>t, <3>1 DEF OnePollerPerFailedPath
  <2>2. ASSUME NEW p \in Paths, StaleProbe(p)
        PROVE  /\ UNCHANGED <<status, ctxs, failedOnce>>
               /\ dead' = dead \/ dead' \in {"no", "stale probe"}
               /\ \/ UNCHANGED <<available, io_incomplete>>
                  \/ \E q \in Paths : reconnecting[q] /\ Restore(q)
    BY <2>2 DEF StaleProbe, ioVars, pathVars
  <2>3. ASSUME NEW p \in Paths,
               ProbeFire(p) \/ ProbeFail(p) \/ UseFreedPath(p) \/ LinkDown(p) \/ LinkUp(p)
        PROVE  /\ UNCHANGED <<status, ctxs, failedOnce, available, io_incomplete>>
               /\ dead' = dead \/ dead' = "closed"
    BY <2>3 DEF ProbeFire, ProbeFail, UseFreedPath, LinkDown, LinkUp, pathVars, ioVars
  <2>4. CloseChannel \/ UNCHANGED vars
          => UNCHANGED <<status, ctxs, failedOnce, available, io_incomplete, dead>>
    BY DEF CloseChannel, vars, pathVars, ioVars
  <2>5. CASE CloseChannel \/ UNCHANGED vars
    BY <2>4, <2>5
  <2>6. ASSUME NEW p \in Paths, PathNext(p)
        PROVE  /\ UNCHANGED <<status, ctxs, failedOnce>>
               /\ dead' = dead \/ dead' \in {"no", "stale probe", "closed"}
               /\ \/ UNCHANGED <<available, io_incomplete>>
                  \/ \E q \in Paths : reconnecting[q] /\ Restore(q)
    <3>1. CASE ProbeSucceed(p)
      BY <2>1, <3>1
    <3>2. CASE StaleProbe(p)
      BY <2>2, <3>2
    <3>3. CASE ProbeFire(p) \/ ProbeFail(p) \/ UseFreedPath(p) \/ LinkDown(p) \/ LinkUp(p)
      BY <2>3, <3>3
    <3> QED BY <2>6, <3>1, <3>2, <3>3 DEF PathNext
  <2> QED BY <2>5, <2>6
<1>2. WrapBound'
  BY <1>t, <1>1 DEF WrapBound
<1>3. SolidPathSuffices'
  BY <1>t, <1>1 DEF SolidPathSuffices
<1>4. OnlyFailedAreOut' /\ \A p \in Paths \ failedOnce : io_incomplete'[p] = io_incomplete[p]
  <2>1. CASE UNCHANGED <<available, io_incomplete>>
    BY <1>t, <1>1, <2>1 DEF OnlyFailedAreOut
  <2>2. ASSUME NEW q \in Paths, reconnecting[q], Restore(q)
        PROVE  /\ OnlyFailedAreOut'
               /\ \A p \in Paths \ failedOnce : io_incomplete'[p] = io_incomplete[p]
    <3>1. q \in failedOnce
      BY <1>t, <2>2 DEF OnePollerPerFailedPath, OnlyFailedAreOut
    <3>2. /\ available' = [available EXCEPT ![q] = TRUE]
          /\ io_incomplete' = [io_incomplete EXCEPT ![q] = 0]
      BY <2>2 DEF Restore
    <3> QED BY <1>t, <1>c, <1>1, <3>1, <3>2 DEF OnlyFailedAreOut
  <2> QED BY <1>1, <2>1, <2>2
<1>5. DepthIsContexts'
  BY <1>t, <1>1, <1>4 DEF DepthIsContexts, ContextsOn
<1> QED BY <1>i, <1>2, <1>3, <1>4, <1>5 DEF DInv

(* The invariant holds of a channel just created: there are no contexts.   *)
LEMMA InitDepth == Init => DInv
<1> SUFFICES ASSUME Init PROVE DInv
  OBVIOUS
<1>1. Inv
  BY InitInv
<1>2. /\ ctxs = [i \in Ios |-> <<>>] /\ status = [i \in Ios |-> "free"]
      /\ io_incomplete = [p \in Paths |-> 0] /\ available = [p \in Paths |-> TRUE]
      /\ failedOnce = {} /\ dead = "no"
  BY DEF Init
<1>3. Len(<<>>) = 0 /\ MaxWraps \in Nat
  BY BoundsAssumption
<1>4. WrapBound
  BY <1>2, <1>3 DEF WrapBound
<1>5. OnlyFailedAreOut /\ SolidPathSuffices
  BY <1>2 DEF OnlyFailedAreOut, SolidPathSuffices
<1>6. \A p \in Paths : ContextsIn(ctxs, p) = {}
  <2>1. \A k \in 1 .. MaxWraps : ~(k <= 0)
    BY <1>3
  <2> QED BY <1>2, <1>3, <2>1 DEF ContextsIn
<1>7. DepthIsContexts
  BY <1>2, <1>6, FS_EmptySet DEF DepthIsContexts, ContextsOn
<1> QED BY <1>1, <1>4, <1>5, <1>7 DEF DInv

(* The invariant, given that all requests wrapped to the bound do not      *)
(* exceed the counter's width.                                             *)
THEOREM DepthInvariance == ASSUME Capacity PROVE Spec => []DInv
<1>1. DInv /\ [Next]_vars => DInv'
  BY RequestStepsDepth, OtherStepsDepth DEF Next
<1> QED BY <1>1, InitDepth, PTL DEF Spec

(* The counter of a path that never failed is the number of completion     *)
(* contexts on it: queue_length's increments and update_iopath's           *)
(* decrements balance over every interleaving of failover and requeueing.  *)
THEOREM DepthCountsContexts == ASSUME Capacity PROVE Spec => []DepthIsContexts
<1>1. DInv => DepthIsContexts
  BY DEF DInv
<1> QED BY <1>1, DepthInvariance, PTL

(* One path that never fails keeps ump_bdev_find_iopath from returning a   *)
(* pointer it never assigned, whatever the other paths do.                 *)
THEOREM SolidPathKeepsProcess == ASSUME Capacity PROVE Spec => []SolidPathSuffices
<1>1. DInv => SolidPathSuffices
  BY DEF DInv
<1> QED BY <1>1, DepthInvariance, PTL
=============================================================================
