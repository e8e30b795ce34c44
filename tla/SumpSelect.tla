----------------------------- MODULE SumpSelect -----------------------------
(***************************************************************************)
(* The path selection algorithms of sump_ctrl.c.  Exactly one of them is   *)
(* compiled in (-DTIME, -DROBIN, ...; queue length by default) and is      *)
(* called by ump_bdev_find_iopath for every request.                       *)
(*                                                                         *)
(* A channel's iopath_list is modelled by its positions 0 .. NPaths-1:     *)
(* paths are only ever appended, with id = max_id++, so the id of a path   *)
(* is its position.  An algorithm is an operator of what it reads:         *)
(*   avail  iopath->available of every path                                *)
(*   cost   the measure it minimises (io_incomplete, io_time_avg)          *)
(*   rate   the measure it maximises (io_rate_avg, read_rate, write_rate), *)
(*          in half bytes per second; UintMax stands for 10e32, the rate   *)
(*          of a path not measured yet, which no uint64_t can hold         *)
(* The loops are written as recursive functions over the positions visited *)
(* so that they can be compared with what they are meant to compute.       *)
(***************************************************************************)
EXTENDS Integers, FiniteSets

CONSTANTS
  NPaths,    \* max_id: the number of paths of the channel
  UintMax    \* UINT64_MAX, the initial value of the minimum searched for

ASSUME NPathsAssumption == NPaths \in Nat \ {0}
ASSUME UintMaxAssumption == UintMax \in Nat \ {0}

Paths == 0 .. NPaths - 1

(* What a selector can produce besides a path.                             *)
Null  == -1    \* a null pointer
Wild  == -2    \* iopath_chosen returned without ever having been assigned
Again == -3    \* one more turn of the algorithm's "while (1)"

-----------------------------------------------------------------------------
(* What the minimising algorithms are for: the first of the cheapest paths *)
(* among those the loop's condition admits.                                *)
Eligible(avail, cost) == {p \in Paths : avail[p] /\ cost[p] < UintMax}

FirstCheapest(S, cost) ==
  CHOOSE p \in S : \A q \in S : cost[p] < cost[q] \/ (cost[p] = cost[q] /\ p <= q)

CheapestPath(avail, cost) ==
  IF Eligible(avail, cost) = {} THEN Wild ELSE FirstCheapest(Eligible(avail, cost), cost)

(* ump_find_iopath_queue_length and ump_find_iopath_service_time: a linear *)
(* search for the minimum with "<", chosen left unassigned by its          *)
(* declaration.                                                            *)
MinScan(avail, cost) ==
  LET scan[k \in 0 .. NPaths] ==
        IF k = 0 THEN [min |-> UintMax, chosen |-> Wild]
        ELSE IF avail[k-1] /\ cost[k-1] < scan[k-1].min
             THEN [min |-> cost[k-1], chosen |-> k-1]
             ELSE scan[k-1]
  IN scan[NPaths].chosen

(* ump_find_iopath_last_average_rate: the search for the maximum starts    *)
(* from the first path, whatever its availability.                         *)
MaxScan(avail, rate) ==
  LET scan[k \in 0 .. NPaths] ==
        IF k = 0 THEN [max |-> rate[0], chosen |-> 0]
        ELSE IF avail[k-1] /\ rate[k-1] > scan[k-1].max
             THEN [max |-> rate[k-1], chosen |-> k-1]
             ELSE scan[k-1]
  IN scan[NPaths].chosen

(* A path as fast as the current maximum replaces it.                      *)
RateScanLastOfTies(avail, rate, huge) ==
  LET Stored(r) == IF r = UintMax THEN huge ELSE 2 * (r \div 2)
      scan[k \in 0 .. NPaths] ==
        IF k = 0 THEN [max |-> Stored(rate[0]), chosen |-> 0]
        ELSE IF avail[k-1] /\ rate[k-1] >= scan[k-1].max
             THEN [max |-> Stored(rate[k-1]), chosen |-> k-1]
             ELSE scan[k-1]
  IN scan[NPaths].chosen

(* ump_find_iopath_rate: the same search, but the maximum is kept in a     *)
(* uint64_t: fractions are cut off, and converting 10e32 is undefined;     *)
(* huge is what the build makes of it (0 with gcc on x86-64).              *)
RateScan(avail, rate, huge) ==
  LET Stored(r) == IF r = UintMax THEN huge ELSE 2 * (r \div 2)
      scan[k \in 0 .. NPaths] ==
        IF k = 0 THEN [max |-> Stored(rate[0]), chosen |-> 0]
        ELSE IF avail[k-1] /\ rate[k-1] > scan[k-1].max
             THEN [max |-> Stored(rate[k-1]), chosen |-> k-1]
             ELSE scan[k-1]
  IN scan[NPaths].chosen

-----------------------------------------------------------------------------
(* ump_find_iopath_round_robin.  turn is a static variable of the function.*)
(* The first loop returns the path at position turn, moving turn past the  *)
(* unavailable ones; the second starts again from the head of the list.    *)
(* idx is incremented at every position the loop does not return from, so  *)
(* it is the position.                                                     *)

(* turn starts again from 0 instead of 1 when the end is reached.          *)
RobinFromZero(avail, turn) ==
  LET first[k \in 0 .. NPaths] ==
        IF k = 0 THEN [turn |-> turn, chosen |-> Null]
        ELSE IF first[k-1].chosen # Null \/ first[k-1].turn # k-1 THEN first[k-1]
        ELSE [turn |-> first[k-1].turn + 1, chosen |-> IF avail[k-1] THEN k-1 ELSE Null]
      again[k \in 0 .. NPaths] ==
        IF k = 0 THEN [turn |-> 0, chosen |-> Null]
        ELSE IF again[k-1].chosen # Null THEN again[k-1]
        ELSE IF avail[k-1] THEN [turn |-> again[k-1].turn, chosen |-> k-1]
        ELSE [turn |-> again[k-1].turn + 1, chosen |-> Null]
  IN IF first[NPaths].chosen # Null THEN first[NPaths] ELSE again[NPaths]

Robin(avail, turn) ==
  LET first[k \in 0 .. NPaths] ==
        IF k = 0 THEN [turn |-> turn, chosen |-> Null]
        ELSE IF first[k-1].chosen # Null \/ first[k-1].turn # k-1 THEN first[k-1]
        ELSE [turn |-> first[k-1].turn + 1, chosen |-> IF avail[k-1] THEN k-1 ELSE Null]
      again[k \in 0 .. NPaths] ==
        IF k = 0 THEN [turn |-> 1, chosen |-> Null]
        ELSE IF again[k-1].chosen # Null THEN again[k-1]
        ELSE IF avail[k-1] THEN [turn |-> again[k-1].turn, chosen |-> k-1]
        ELSE [turn |-> again[k-1].turn + 1, chosen |-> Null]
  IN IF first[NPaths].chosen # Null THEN first[NPaths] ELSE again[NPaths]

-----------------------------------------------------------------------------
(* ump_find_iopath_random, one turn of the loop with drawn id d: the path  *)
(* if it is available, NULL when every path up to and including d was seen *)
(* unavailable and those are all the paths, otherwise another draw.        *)

(* The unavailable paths are counted after the drawn id was compared.      *)
RandomDrawCountedLate(avail, d) ==
  IF avail[d] THEN d
  ELSE IF Cardinality({q \in 0 .. d-1 : ~avail[q]}) = NPaths THEN Null ELSE Again

RandomDraw(avail, d) ==
  IF avail[d] THEN d
  ELSE IF Cardinality({q \in 0 .. d : ~avail[q]}) = NPaths THEN Null ELSE Again

(* ump_find_iopath_random_weight_static, one turn with r = rand() % 4n:    *)
(* the first id whose cumulative weight (0.1, 0.2, 0.6, 1.0) exceeds r/4n. *)
Cumulative == [i \in 0 .. 3 |-> CASE i = 0 -> 1 [] i = 1 -> 2 [] i = 2 -> 6 [] i = 3 -> 10]

WeightId(r) ==
  CHOOSE i \in 0 .. 3 : /\ 10 * r < Cumulative[i] * 4 * NPaths
                        /\ \A j \in 0 .. i-1 : 10 * r >= Cumulative[j] * 4 * NPaths

WeightDraw(avail, r) ==
  IF WeightId(r) \in Paths /\ avail[WeightId(r)] THEN WeightId(r) ELSE Again

(* ump_find_iopath_hash with h = (offset / num_blocks) % max_id.  Requests *)
(* with num_blocks = 0 divide by zero before this point.                   *)
HashPick(avail, h) ==
  IF avail[h] THEN h
  ELSE IF \E p \in Paths : avail[p]
       THEN CHOOSE p \in Paths : avail[p] /\ \A q \in 0 .. p-1 : ~avail[q]
       ELSE Null
=============================================================================
