---------------------------- MODULE MCSumpSelect ----------------------------
(***************************************************************************)
(* Checks every selector of SumpSelect on every input of a small channel,  *)
(* and the round robin over sequences of selections: between selections    *)
(* any path may fail or come back, and any measure may change.             *)
(***************************************************************************)
EXTENDS SumpSelect

VARIABLES
  flags,     \* available flag of every path
  measures,  \* the value the algorithm reads for every path (a time, a
             \* depth or a rate)
  robin      \* the static variable of ump_find_iopath_round_robin

inputs == <<flags, measures, robin>>

AnyInput == /\ flags \in [Paths -> BOOLEAN]
            /\ measures \in [Paths -> 0 .. UintMax]
            /\ robin = 0

(* One call of ump_find_iopath_round_robin.                                *)
RobinSelects == /\ robin' = Robin(flags, robin).turn
                /\ UNCHANGED <<flags, measures>>

(* A completion or a failback changes a path between two selections.       *)
Flip(p) == /\ flags' = [flags EXCEPT ![p] = ~@]
           /\ UNCHANGED <<measures, robin>>

Selecting == RobinSelects \/ \E p \in Paths : Flip(p)

SelectSpec == AnyInput /\ [][Selecting]_inputs

-----------------------------------------------------------------------------
(* The queue-length and service-time loops return the first of the least   *)
(* loaded eligible paths, and an unassigned pointer when there is none     *)
(* (ump_find_iopath_queue_length, ump_find_iopath_service_time).           *)
MinScanIsCheapest == MinScan(flags, measures) = CheapestPath(flags, measures)

(* When the head of the list is up, the average-rate loop returns the      *)
(* first of the fastest available paths (.._last_average_rate).            *)
MaxScanIsFastest ==
  flags[0] =>
    LET c == MaxScan(flags, measures)
    IN /\ flags[c]
       /\ \A q \in Paths : flags[q] =>
            measures[q] < measures[c] \/ (measures[q] = measures[c] /\ c <= q)

(* Once every path has been measured, truncation costs the rate loop less  *)
(* than one byte per second: no available path is faster by more, and a    *)
(* path no faster than the head's whole rate never displaces it            *)
(* (ump_find_iopath_rate).                                                 *)
RateScanIsNearlyFastest ==
  (flags[0] /\ \A p \in Paths : measures[p] < UintMax) =>
    LET c == RateScan(flags, measures, 0)
    IN /\ flags[c]
       /\ \A q \in Paths : flags[q] => measures[q] < measures[c] + 2
       /\ c # 0 => measures[c] > 2 * (measures[0] \div 2)

(* Every scanning selector finds the best path it is meant to find.        *)
ScansFindBest == MinScanIsCheapest /\ MaxScanIsFastest /\ RateScanIsNearlyFastest

(* The two loops of the round robin together find the first available path *)
(* at or after robin in cyclic order, leave robin just after it, and       *)
(* return NULL exactly when no path is available                           *)
(* (ump_find_iopath_round_robin).                                          *)
CyclicDistance(p) == IF p >= robin THEN p - robin ELSE NPaths + p
RobinIsCyclic ==
  LET r == Robin(flags, robin)
  IN IF \E p \in Paths : flags[p]
     THEN /\ r.chosen \in {p \in Paths : flags[p]}
          /\ \A q \in Paths : flags[q] => CyclicDistance(r.chosen) <= CyclicDistance(q)
          /\ r.turn = r.chosen + 1
     ELSE r.chosen = Null

(* The random selector can always leave its loop: it can reach every       *)
(* available path, and some draw detects that there is none; the hash      *)
(* selector keeps to the hashed path while it is up.  Both report NULL     *)
(* exactly when every path is down (ump_find_iopath_random,                *)
(* ump_find_iopath_hash).                                                  *)
NullOnlyWhenAllDown ==
  LET up     == {p \in Paths : flags[p]}
      draws  == {RandomDraw(flags, d) : d \in Paths}
      hashed == {HashPick(flags, h) : h \in Paths}
  IN IF up # {}
     THEN /\ draws \ {Again} = up /\ hashed = up
          /\ \A h \in up : HashPick(flags, h) = h
     ELSE Null \in draws /\ draws \subseteq {Null, Again} /\ hashed = {Null}

(* The weighted selector returns available paths only, and can return each *)
(* available path that has a weight (ump_find_iopath_random_weight_static).*)
WeightReachesAvailable ==
  {WeightDraw(flags, r) : r \in 0 .. 4 * NPaths - 1} \ {Again}
    = {p \in Paths : flags[p] /\ p < 4}

(* Every drawing selector reaches the available paths and no others.       *)
DrawsFindAvailable == NullOnlyWhenAllDown /\ WeightReachesAvailable
=============================================================================
