-------------------------- MODULE SumpSelectProofs --------------------------
(***************************************************************************)
(* Facts about the selectors for every number of paths, and the facts      *)
(* about natural numbers that they rest on, stated for sets so that they   *)
(* can be cited.                                                           *)
(***************************************************************************)
EXTENDS MCSumpSelect, FiniteSetTheorems, WellFoundedInduction, TLAPS

(* Every non-empty set of naturals has a least element.                    *)
LEMMA LeastNatural ==
  ASSUME NEW T \in SUBSET Nat, T # {}
  PROVE  \E m \in T : \A n \in T : m <= n
<1>1. PICK R : IsWellFoundedOn(R, Nat) /\ \A m, n \in Nat : n < m => <<n, m>> \in R
  <2>1. \A m, n \in Nat : n < m => <<n, m>> \in OpToRel(<, Nat)
    BY DEF OpToRel
  <2> QED BY <2>1, NatLessThanWellFounded, Zenon
<1>2. PICK m \in T : \A n \in T : ~ (<<n, m>> \in R)
  BY <1>1, WFMin, Zenon
<1>3. ASSUME NEW n \in T PROVE m <= n
  <2>1. ~ (n < m)
    BY <1>1, <1>2
  <2> QED BY <2>1
<1> QED BY <1>3

(* Induction over the naturals, stated for a set so that it can be cited.  *)
LEMMA SetInduction ==
  ASSUME NEW S, 0 \in S, \A n \in Nat : n \in S => n + 1 \in S
  PROVE  Nat \subseteq S
<1> SUFFICES ASSUME Nat \ S # {} PROVE FALSE
  OBVIOUS
<1>1. PICK m \in Nat \ S : \A n \in Nat \ S : m <= n
  BY LeastNatural
<1>2. m # 0 /\ m - 1 \in Nat
  BY <1>1
<1>3. m - 1 \in S
  BY <1>1, <1>2
<1> QED BY <1>1, <1>2, <1>3

(* One position more.                                                      *)
LEMMA OneMore ==
  \A n \in Nat : /\ \A i \in 1 .. n + 1 : i \in 1 .. n \/ i = n + 1
                 /\ 1 .. n \subseteq 1 .. n + 1 /\ n + 1 \in 1 .. n + 1 /\ n + 1 \notin 1 .. n
OBVIOUS

(* f is the sequence of values of a loop of n turns that starts with first *)
(* and whose turn k takes a value v of V to step[<<k, v>>].                *)
IsIteration(V, n, first, step, f) ==
  /\ f \in [0 .. n -> V]
  /\ f[0] = first
  /\ \A k \in 1 .. n : f[k] = step[<<k, f[k-1]>>]

(* There is one: the function by which a recursive definition models the   *)
(* loop exists.                                                            *)
LEMMA IterationExists ==
  ASSUME NEW V, NEW n \in Nat, NEW first \in V, NEW step \in [(1 .. n) \X V -> V]
  PROVE  \E f : IsIteration(V, n, first, step, f)
<1> DEFINE Run(m, f) == IsIteration(V, m, first, step, f)
           S == {m \in Nat : m <= n => \E f : Run(m, f)}
<1>1. 0 \in S
  <2>1. Run(0, [k \in 0 .. 0 |-> first])
    BY DEF IsIteration
  <2> HIDE DEF Run
  <2> QED BY <2>1
<1>2. ASSUME NEW m \in Nat, m \in S PROVE m + 1 \in S
  <2> HIDE DEF Run
  <2> SUFFICES ASSUME m + 1 <= n PROVE \E g : Run(m + 1, g)
    OBVIOUS
  <2>1. PICK f : Run(m, f)
    BY <1>2
  <2> DEFINE g == [k \in 0 .. m + 1 |-> IF k = m + 1 THEN step[<<m + 1, f[m]>>] ELSE f[k]]
  <2> USE DEF Run, IsIteration
  <2>2. m + 1 \in 1 .. n /\ m \in 0 .. m /\ f[m] \in V
    BY <2>1
  <2>3. step[<<m + 1, f[m]>>] \in V
    BY <2>2
  <2>4. g \in [0 .. m + 1 -> V] /\ g[0] = first
    BY <2>1, <2>3
  <2>5. \A k \in 1 .. m + 1 : g[k] = step[<<k, g[k-1]>>]
    <3> TAKE k \in 1 .. m + 1
    <3>1. CASE k = m + 1
      <4>1. g[k] = step[<<m + 1, f[m]>>] /\ k - 1 = m /\ g[m] = f[m]
        BY <3>1
      <4> QED BY <3>1, <4>1
    <3>2. CASE k \in 1 .. m
      <4>1. k \in 0 .. m + 1 /\ k # m + 1 /\ k - 1 \in 0 .. m + 1 /\ k - 1 # m + 1
        BY <3>2
      <4>2. g[k] = f[k] /\ g[k-1] = f[k-1]
        BY <4>1
      <4> QED BY <2>1, <3>2, <4>2
    <3> QED BY <3>1, <3>2
  <2> QED BY <2>4, <2>5
<1> HIDE DEF S
<1>3. Nat \subseteq S
  BY <1>1, <1>2, SetInduction
<1>4. \E f : Run(n, f)
  <2> HIDE DEF Run
  <2> QED BY <1>3 DEF S
<1> QED BY <1>4

-----------------------------------------------------------------------------
(* A non-empty set of paths has a first cheapest member, so the CHOOSE of  *)
(* FirstCheapest denotes it (the result of the queue-length and            *)
(* service-time loops).                                                    *)
THEOREM FirstCheapestExists ==
  ASSUME NEW S \in SUBSET Paths, S # {}, NEW cost \in [Paths -> Nat]
  PROVE  /\ FirstCheapest(S, cost) \in S
         /\ \A q \in S : \/ cost[FirstCheapest(S, cost)] < cost[q]
                         \/ /\ cost[FirstCheapest(S, cost)] = cost[q]
                            /\ FirstCheapest(S, cost) <= q
<1>0. Paths \subseteq Nat
  BY NPathsAssumption DEF Paths
<1> DEFINE costs == {cost[p] : p \in S}
<1>1. costs \in SUBSET Nat /\ costs # {}
  OBVIOUS
<1>2. PICK c \in costs : \A d \in costs : c <= d
  BY <1>1, LeastNatural
<1> DEFINE cheapest == {p \in S : cost[p] = c}
<1>3. cheapest \in SUBSET Nat /\ cheapest # {}
  BY <1>0, <1>2
<1>4. PICK m \in cheapest : \A p \in cheapest : m <= p
  BY <1>3, LeastNatural
<1>5. \A q \in S : cost[m] < cost[q] \/ (cost[m] = cost[q] /\ m <= q)
  <2> TAKE q \in S
  <2>1. cost[m] = c /\ c <= cost[q] /\ c \in Nat /\ cost[q] \in Nat
    BY <1>1, <1>2, <1>4
  <2>2. cost[q] = c => m <= q
    BY <1>4
  <2> QED BY <2>1, <2>2
<1> QED BY <1>4, <1>5 DEF FirstCheapest

(* CheapestPath is a path the loop's condition admits when there is one,   *)
(* and the unassigned pointer exactly when there is none.                  *)
THEOREM CheapestPathIsEligible ==
  ASSUME NEW avail \in [Paths -> BOOLEAN], NEW cost \in [Paths -> Nat]
  PROVE  /\ CheapestPath(avail, cost) \in Eligible(avail, cost) \cup {Wild}
         /\ (CheapestPath(avail, cost) = Wild) <=> (Eligible(avail, cost) = {})
<1>1. Wild \notin Paths
  BY NPathsAssumption DEF Paths, Wild
<1>2. Eligible(avail, cost) \in SUBSET Paths
  BY DEF Eligible
<1>3. Eligible(avail, cost) # {}
        => FirstCheapest(Eligible(avail, cost), cost) \in Eligible(avail, cost)
  BY <1>2, FirstCheapestExists
<1> QED BY <1>1, <1>2, <1>3 DEF CheapestPath

-----------------------------------------------------------------------------
(* The search loops.  Step is one iteration of MinScan's loop: the values  *)
(* of min_io_count and iopath_chosen after visiting position k-1.          *)
Step(avail, cost, k, v) ==
  IF avail[k-1] /\ cost[k-1] < v.min THEN [min |-> cost[k-1], chosen |-> k-1] ELSE v

Before == [min |-> UintMax, chosen |-> Wild]

IsScan(avail, cost, n, f) ==
  f = [k \in 0 .. n |-> IF k = 0 THEN Before ELSE Step(avail, cost, k, f[k-1])]

(* The recursive function that models the loop exists.                     *)
LEMMA ScanExists ==
  ASSUME NEW avail \in [Paths -> BOOLEAN], NEW cost \in [Paths -> Nat]
  PROVE  \E f : IsScan(avail, cost, NPaths, f)
<1> DEFINE V == [min : Nat, chosen : Paths \cup {Wild}]
           step == [kv \in (1 .. NPaths) \X V |-> Step(avail, cost, kv[1], kv[2])]
<1>1. NPaths \in Nat /\ UintMax \in Nat /\ \A k \in 1 .. NPaths : k - 1 \in Paths /\ k # 0
  BY NPathsAssumption, UintMaxAssumption DEF Paths
<1>2. Before \in V
  BY <1>1 DEF Before
<1>3. step \in [(1 .. NPaths) \X V -> V]
  BY <1>1 DEF Step
<1>4. \A k \in 1 .. NPaths, v \in V : step[<<k, v>>] = Step(avail, cost, k, v)
  OBVIOUS
<1> HIDE DEF V, step
<1>5. PICK f : IsIteration(V, NPaths, Before, step, f)
  BY <1>1, <1>2, <1>3, IterationExists
<1> USE DEF IsIteration
<1>6. \A k \in 0 .. NPaths : f[k] = IF k = 0 THEN Before ELSE Step(avail, cost, k, f[k-1])
  <2> TAKE k \in 0 .. NPaths
  <2>1. CASE k \in 1 .. NPaths
    <3>1. k - 1 \in 0 .. NPaths /\ k # 0
      BY <1>1, <2>1
    <3> QED BY <1>4, <1>5, <2>1, <3>1
  <2>2. CASE k = 0
    BY <1>5, <2>2
  <2> QED BY <1>1, <2>1, <2>2
<1>7. f = [k \in 0 .. NPaths |-> f[k]]
  BY <1>5
<1>8. IsScan(avail, cost, NPaths, f)
  BY <1>6, <1>7, Zenon DEF IsScan
<1> QED BY <1>8

(* The queue-length and service-time loops compute the first cheapest      *)
(* eligible path, for any number of paths.                                 *)
THEOREM MinScanCorrect ==
  ASSUME NEW avail \in [Paths -> BOOLEAN], NEW cost \in [Paths -> Nat]
  PROVE  MinScan(avail, cost) = CheapestPath(avail, cost)
<1> DEFINE scan == CHOOSE f : IsScan(avail, cost, NPaths, f)
           Seen(k) == {p \in Eligible(avail, cost) : p < k}
           First(T, c) == \A q \in T : cost[c] < cost[q] \/ (cost[c] = cost[q] /\ c <= q)
           Inv(k) == \/ Seen(k) = {} /\ scan[k] = Before
                     \/ \E c \in Seen(k) : /\ scan[k] = [min |-> cost[c], chosen |-> c]
                                           /\ First(Seen(k), c)
           S == {k \in Nat : k <= NPaths => Inv(k)}
<1>0. NPaths \in Nat /\ UintMax \in Nat /\ Paths \subseteq Nat
  BY NPathsAssumption, UintMaxAssumption DEF Paths
<1>e. Eligible(avail, cost) \subseteq Paths /\ Eligible(avail, cost) \subseteq Nat
  BY <1>0 DEF Eligible
<1>1. MinScan(avail, cost) = scan[NPaths].chosen
  BY Zenon DEF MinScan, IsScan, Step, Before
<1>2. IsScan(avail, cost, NPaths, scan)
  <2>1. \E f : IsScan(avail, cost, NPaths, f)
    BY <1>0, ScanExists
  <2> QED BY <2>1, Zenon
<1> HIDE DEF scan
<1>3. \A k \in 0 .. NPaths :
        scan[k] = IF k = 0 THEN Before ELSE Step(avail, cost, k, scan[k-1])
  BY <1>2, Zenon DEF IsScan
<1>4. 0 \in S
  <2>1. Seen(0) = {}
    BY <1>e
  <2>2. scan[0] = Before
    BY <1>0, <1>3
  <2>3. Inv(0)
    BY <2>1, <2>2
  <2> HIDE DEF Inv
  <2> QED BY <2>3
<1>5. ASSUME NEW k \in Nat, k \in S PROVE k + 1 \in S
  <2> HIDE DEF Inv
  <2> SUFFICES ASSUME k + 1 <= NPaths PROVE Inv(k + 1)
    OBVIOUS
  <2>0. Inv(k)
    BY <1>0, <1>5
  <2> USE DEF Inv
  <2>1. k \in Paths /\ k + 1 \in 0 .. NPaths /\ k + 1 # 0 /\ (k + 1) - 1 = k
    BY <1>0 DEF Paths
  <2>2. scan[k+1] = Step(avail, cost, k+1, scan[k])
    BY <1>3, <2>1
  <2>3. scan[k+1] = IF avail[k] /\ cost[k] < scan[k].min
                    THEN [min |-> cost[k], chosen |-> k] ELSE scan[k]
    BY <2>1, <2>2 DEF Step
  <2>4. Seen(k+1) = IF k \in Eligible(avail, cost) THEN Seen(k) \cup {k} ELSE Seen(k)
    BY <1>e
  <2>5. k \in Eligible(avail, cost) <=> avail[k] /\ cost[k] < UintMax
    BY <2>1 DEF Eligible
  <2>6. cost[k] \in Nat
    BY <2>1
  <2>7. CASE Seen(k) = {} /\ scan[k] = Before
    <3>1. scan[k].min = UintMax
      BY <2>7 DEF Before
    <3>2. CASE k \in Eligible(avail, cost)
      <4>1. Seen(k+1) = {k} /\ scan[k+1] = [min |-> cost[k], chosen |-> k]
        BY <2>3, <2>4, <2>5, <2>7, <3>1, <3>2
      <4>2. k \in Seen(k+1) /\ First(Seen(k+1), k)
        BY <2>1, <2>6, <4>1
      <4> HIDE DEF Seen, First
      <4> QED BY <4>1, <4>2
    <3>3. CASE k \notin Eligible(avail, cost)
      BY <2>3, <2>4, <2>5, <2>7, <3>1, <3>3
    <3> QED BY <3>2, <3>3
  <2>8. ASSUME NEW c \in Seen(k), scan[k] = [min |-> cost[c], chosen |-> c],
               First(Seen(k), c)
        PROVE  Inv(k + 1)
    <3>1. /\ c \in Paths /\ c \in Nat /\ c < k /\ cost[c] \in Nat /\ cost[c] < UintMax
          /\ scan[k].min = cost[c]
          /\ \A q \in Seen(k) : q \in Nat /\ q < k /\ cost[q] \in Nat
      BY <1>0, <2>8 DEF Eligible
    <3>2. CASE avail[k] /\ cost[k] < cost[c]
      <4>1. k \in Eligible(avail, cost) /\ scan[k+1] = [min |-> cost[k], chosen |-> k]
        BY <1>0, <2>3, <2>5, <2>6, <3>1, <3>2
      <4>2. k \in Seen(k+1) /\ First(Seen(k+1), k)
        BY <2>4, <2>6, <2>8, <3>1, <3>2, <4>1
      <4> QED BY <4>1, <4>2
    <3>3. CASE ~ (avail[k] /\ cost[k] < cost[c])
      <4>1. scan[k+1] = [min |-> cost[c], chosen |-> c]
        BY <2>3, <2>8, <3>1, <3>3
      <4>2. c \in Seen(k+1) /\ First(Seen(k+1), c)
        BY <2>4, <2>5, <2>6, <2>8, <3>1, <3>3
      <4> QED BY <4>1, <4>2
    <3> QED BY <3>2, <3>3
  <2>9. ASSUME NEW c \in Seen(k),
                scan[k] = [min |-> cost[c], chosen |-> c] /\ First(Seen(k), c)
         PROVE  Inv(k + 1)
    <3> HIDE DEF Inv, Seen, First
    <3> QED BY <2>8, <2>9
  <2>10. \/ Seen(k) = {} /\ scan[k] = Before
         \/ \E c \in Seen(k) : scan[k] = [min |-> cost[c], chosen |-> c] /\ First(Seen(k), c)
    BY <2>0, Zenon
  <2> HIDE DEF Inv, Seen, First
  <2> QED BY <2>7, <2>9, <2>10
<1> HIDE DEF S
<1>6. Nat \subseteq S
  BY <1>4, <1>5, SetInduction
<1>7. Inv(NPaths)
  <2> HIDE DEF Inv
  <2> QED BY <1>0, <1>6 DEF S
<1>8. Seen(NPaths) = Eligible(avail, cost)
  BY <1>0, <1>e DEF Paths
<1>9. CASE Eligible(avail, cost) = {}
  BY <1>1, <1>7, <1>8, <1>9 DEF CheapestPath, Before
<1>10. CASE Eligible(avail, cost) # {}
  <2>1. PICK c \in Eligible(avail, cost) : /\ scan[NPaths].chosen = c
                                           /\ First(Eligible(avail, cost), c)
    <3>1. \/ Seen(NPaths) = {}
          \/ \E c \in Seen(NPaths) : /\ scan[NPaths] = [min |-> cost[c], chosen |-> c]
                                     /\ First(Seen(NPaths), c)
      BY <1>7, Zenon
    <3> HIDE DEF Seen, First
    <3>2. PICK c \in Eligible(avail, cost) : /\ scan[NPaths] = [min |-> cost[c], chosen |-> c]
                                             /\ First(Eligible(avail, cost), c)
      BY <1>8, <1>10, <3>1
    <3>3. scan[NPaths].chosen = c
      BY <3>2
    <3> QED BY <3>2, <3>3
  <2> DEFINE d == FirstCheapest(Eligible(avail, cost), cost)
  <2>2. d \in Eligible(avail, cost) /\ First(Eligible(avail, cost), d)
    <3>1. Eligible(avail, cost) \in SUBSET Paths
      BY DEF Eligible
    <3> QED BY <1>10, <3>1, FirstCheapestExists
  <2> HIDE DEF d
  <2>3. c = d
    <3>1. c \in Nat /\ d \in Nat /\ cost[c] \in Nat /\ cost[d] \in Nat
      BY <1>0, <2>1, <2>2 DEF Eligible
    <3> QED BY <2>1, <2>2, <3>1
  <2> QED BY <1>1, <1>10, <2>1, <2>3 DEF CheapestPath, d
<1> QED BY <1>9, <1>10

-----------------------------------------------------------------------------
(* The searches for the maximum.  stored is what the loop keeps of a rate: *)
(* the rate itself, or its whole part where the maximum is an integer.     *)
MaxStep(avail, rate, stored, k, v) ==
  IF avail[k-1] /\ rate[k-1] > v.max THEN [max |-> stored[k-1], chosen |-> k-1] ELSE v

(* f lists the values of the maximum and iopath_chosen turn by turn.       *)
MaxLoop(avail, rate, stored, f) ==
  /\ f[0] = [max |-> stored[0], chosen |-> 0]
  /\ \A k \in 1 .. NPaths : f[k] = MaxStep(avail, rate, stored, k, f[k-1])

(* What is kept of the rate of a path of S is at most the rate and at      *)
(* least what was kept of any rate it exceeds; it is short by at most e.   *)
Keeps(S, rate, stored, e) ==
  /\ \A p \in S : stored[p] <= rate[p] /\ rate[p] <= stored[p] + e
  /\ \A p, q \in S : rate[p] > stored[q] => stored[p] >= stored[q]

(* c is no slower than any available path, but for e.                      *)
Fastest(avail, rate, stored, e, c) ==
  /\ c # 0 => avail[c] /\ rate[c] > stored[0]
  /\ \A q \in Paths : avail[q] => rate[q] <= rate[c] + e
  /\ \A q \in Paths : avail[q] /\ q < c => rate[q] < rate[c] + e

(* The search finds such a path of S when S has the head of the list and   *)
(* every available path.                                                   *)
LEMMA MaxLoopFindsFastest ==
  ASSUME NEW avail \in [Paths -> BOOLEAN], NEW rate \in [Paths -> Nat],
         NEW stored \in [Paths -> Nat], NEW e \in Nat,
         NEW S \in SUBSET Paths, 0 \in S, \A p \in Paths : avail[p] => p \in S,
         Keeps(S, rate, stored, e),
         NEW f, MaxLoop(avail, rate, stored, f)
  PROVE  f[NPaths].chosen \in S /\ Fastest(avail, rate, stored, e, f[NPaths].chosen)
<1> DEFINE J(k, c) ==
             /\ c \in S /\ f[k] = [max |-> stored[c], chosen |-> c]
             /\ c # 0 => avail[c] /\ rate[c] > stored[0]
             /\ stored[c] >= stored[0]
             /\ \A q \in Paths : avail[q] /\ q < k => rate[q] <= stored[c] + e
             /\ \A q \in Paths : avail[q] /\ q < c => rate[q] < rate[c] + e
             /\ c <= k
           T == {k \in Nat : k <= NPaths => \E c : J(k, c)}
<1>0. NPaths \in Nat /\ Paths \subseteq Nat /\ 0 \in Paths
  BY NPathsAssumption DEF Paths
<1>1. 0 \in T
  <2>1. J(0, 0)
    BY <1>0 DEF MaxLoop
  <2> HIDE DEF J
  <2> QED BY <2>1
<1>2. ASSUME NEW k \in Nat, k \in T PROVE k + 1 \in T
  <2> HIDE DEF J
  <2> SUFFICES ASSUME k + 1 <= NPaths PROVE \E c : J(k + 1, c)
    OBVIOUS
  <2>1. PICK c : J(k, c)
    BY <1>0, <1>2
  <2>2. k \in Paths /\ k + 1 \in 1 .. NPaths /\ (k + 1) - 1 = k
    BY <1>0 DEF Paths
  <2>3. f[k+1] = IF avail[k] /\ rate[k] > f[k].max
                 THEN [max |-> stored[k], chosen |-> k] ELSE f[k]
    BY <2>2 DEF MaxLoop, MaxStep
  <2>4. /\ c \in Paths /\ c \in Nat /\ stored[c] \in Nat /\ rate[c] \in Nat
        /\ stored[0] \in Nat /\ stored[k] \in Nat /\ rate[k] \in Nat
        /\ f[k].max = stored[c]
        /\ \A q \in Paths : q \in Nat /\ rate[q] \in Nat
    BY <1>0, <2>1, <2>2 DEF J
  <2>5. \A q \in Paths : q < k + 1 => q < k \/ q = k
    BY <1>0
  <2>6. CASE avail[k] /\ rate[k] > f[k].max
    <3>1. k \in S /\ f[k+1] = [max |-> stored[k], chosen |-> k]
      BY <2>2, <2>3, <2>6
    <3>2. rate[k] > stored[c] /\ stored[k] >= stored[c] /\ rate[k] <= stored[k] + e
      BY <2>1, <2>4, <2>6, <3>1 DEF J, Keeps
    <3>3. stored[c] >= stored[0]
      BY <2>1 DEF J
    <3>4. \A q \in Paths : avail[q] /\ q < k => rate[q] <= stored[c] + e
      BY <2>1 DEF J
    <3>5. \A q \in Paths : avail[q] /\ q < k + 1 => rate[q] <= stored[k] + e
      BY <2>4, <2>5, <3>2, <3>4
    <3>6. \A q \in Paths : avail[q] /\ q < k => rate[q] < rate[k] + e
      BY <2>4, <3>2, <3>4
    <3>7. rate[k] > stored[0] /\ stored[k] >= stored[0]
      BY <2>4, <3>2, <3>3
    <3>8. J(k + 1, k)
      BY <2>6, <3>1, <3>5, <3>6, <3>7 DEF J
    <3> QED BY <3>8
  <2>7. CASE ~ (avail[k] /\ rate[k] > f[k].max)
    <3>1. f[k+1] = f[k]
      BY <2>3, <2>7
    <3>2. avail[k] => rate[k] <= stored[c] + e
      BY <2>4, <2>7
    <3>3. \A q \in Paths : avail[q] /\ q < k + 1 => rate[q] <= stored[c] + e
      BY <2>1, <2>5, <3>2 DEF J
    <3>4. c <= k + 1
      BY <2>1, <2>4 DEF J
    <3>5. J(k + 1, c)
      BY <2>1, <3>1, <3>3, <3>4 DEF J
    <3> QED BY <3>5
  <2> QED BY <2>6, <2>7
<1> HIDE DEF T
<1>3. Nat \subseteq T
  BY <1>1, <1>2, SetInduction
<1>4. PICK c : J(NPaths, c)
  <2> HIDE DEF J
  <2> QED BY <1>0, <1>3 DEF T
<1>5. f[NPaths].chosen = c /\ c \in S /\ c \in Paths
  BY <1>4
<1>6. \A q \in Paths : q < NPaths /\ rate[q] \in Nat
  BY <1>0 DEF Paths
<1>7. stored[c] <= rate[c] /\ stored[c] \in Nat /\ rate[c] \in Nat
  BY <1>5 DEF Keeps
<1>8. \A q \in Paths : avail[q] => rate[q] <= rate[c] + e
  BY <1>4, <1>6, <1>7
<1>9. Fastest(avail, rate, stored, e, c)
  BY <1>4, <1>8 DEF Fastest
<1> QED BY <1>5, <1>9

(* The loop exists, as a function over the turns.                          *)
LEMMA MaxLoopExists ==
  ASSUME NEW avail \in [Paths -> BOOLEAN], NEW rate \in [Paths -> Nat],
         NEW stored \in [Paths -> Nat]
  PROVE  \E f : f = [k \in 0 .. NPaths |-> f[k]] /\ MaxLoop(avail, rate, stored, f)
<1> DEFINE V == [max : Nat, chosen : Paths]
           step == [kv \in (1 .. NPaths) \X V |-> MaxStep(avail, rate, stored, kv[1], kv[2])]
           first == [max |-> stored[0], chosen |-> 0]
<1>1. NPaths \in Nat /\ 0 \in Paths /\ \A k \in 1 .. NPaths : k - 1 \in Paths /\ k # 0
  BY NPathsAssumption DEF Paths
<1>2. first \in V
  BY <1>1
<1>3. step \in [(1 .. NPaths) \X V -> V]
  BY <1>1 DEF MaxStep
<1>4. \A k \in 1 .. NPaths, v \in V : step[<<k, v>>] = MaxStep(avail, rate, stored, k, v)
  OBVIOUS
<1> HIDE DEF V, step, first
<1>5. PICK f : IsIteration(V, NPaths, first, step, f)
  BY <1>1, <1>2, <1>3, IterationExists
<1>6. \A k \in 1 .. NPaths : f[k] = MaxStep(avail, rate, stored, k, f[k-1])
  <2> TAKE k \in 1 .. NPaths
  <2>1. k - 1 \in 0 .. NPaths
    BY <1>1
  <2> QED BY <1>4, <1>5, <2>1 DEF IsIteration
<1>7. f = [k \in 0 .. NPaths |-> f[k]] /\ f[0] = first
  BY <1>5 DEF IsIteration
<1> QED BY <1>6, <1>7 DEF MaxLoop, first

-----------------------------------------------------------------------------
(* ump_find_iopath_last_average_rate.                                      *)
MaxTurn(avail, rate, f, k) ==
  IF k = 0 THEN [max |-> rate[0], chosen |-> 0]
  ELSE IF avail[k-1] /\ rate[k-1] > f[k-1].max
       THEN [max |-> rate[k-1], chosen |-> k-1] ELSE f[k-1]

IsMaxScan(avail, rate, f) == f = [k \in 0 .. NPaths |-> MaxTurn(avail, rate, f, k)]

(* MaxScan returns a path that no available path is faster than, the first *)
(* of them when the head of the list is up.                                *)
THEOREM MaxScanCorrect ==
  ASSUME NEW avail \in [Paths -> BOOLEAN], NEW rate \in [Paths -> Nat]
  PROVE  /\ MaxScan(avail, rate) \in Paths
         /\ Fastest(avail, rate, rate, 0, MaxScan(avail, rate))
<1> DEFINE scan == CHOOSE f : IsMaxScan(avail, rate, f)
<1>0. NPaths \in Nat /\ 0 \in Paths /\ 0 \in 0 .. NPaths
      /\ \A k \in 1 .. NPaths : k # 0 /\ k \in 0 .. NPaths
  BY NPathsAssumption DEF Paths
<1>1. MaxScan(avail, rate) = scan[NPaths].chosen
  BY Zenon DEF MaxScan, IsMaxScan, MaxTurn
<1>2. \E f : IsMaxScan(avail, rate, f)
  <2>1. PICK f : f = [k \in 0 .. NPaths |-> f[k]] /\ MaxLoop(avail, rate, rate, f)
    BY MaxLoopExists
  <2>2. ASSUME NEW k \in 0 .. NPaths PROVE f[k] = MaxTurn(avail, rate, f, k)
    <3>1. CASE k = 0
      BY <2>1, <3>1 DEF MaxLoop, MaxTurn
    <3>2. CASE k \in 1 .. NPaths
      <4>1. f[k] = MaxStep(avail, rate, rate, k, f[k-1])
        BY <2>1, <3>2 DEF MaxLoop
      <4> QED BY <1>0, <3>2, <4>1 DEF MaxStep, MaxTurn
    <3> QED BY <1>0, <3>1, <3>2
  <2>3. IsMaxScan(avail, rate, f)
    BY <2>1, <2>2, Zenon DEF IsMaxScan
  <2> QED BY <2>3
<1>3. IsMaxScan(avail, rate, scan)
  BY <1>2, Zenon
<1> HIDE DEF scan
<1>4. \A k \in 0 .. NPaths : scan[k] = MaxTurn(avail, rate, scan, k)
  BY <1>3, Zenon DEF IsMaxScan
<1>5. MaxLoop(avail, rate, rate, scan)
  <2>1. scan[0] = [max |-> rate[0], chosen |-> 0]
    BY <1>0, <1>4 DEF MaxTurn
  <2>2. ASSUME NEW k \in 1 .. NPaths
        PROVE  scan[k] = MaxStep(avail, rate, rate, k, scan[k-1])
    <3>1. scan[k] = MaxTurn(avail, rate, scan, k)
      BY <1>0, <1>4
    <3> QED BY <1>0, <3>1 DEF MaxStep, MaxTurn
  <2> QED BY <2>1, <2>2 DEF MaxLoop
<1>6. Keeps(Paths, rate, rate, 0)
  BY DEF Keeps
<1> QED BY <1>0, <1>1, <1>5, <1>6, MaxLoopFindsFastest

(* ump_find_iopath_rate.                                                   *)
Whole(rate, huge) ==
  [p \in Paths |-> IF rate[p] = UintMax THEN huge ELSE 2 * (rate[p] \div 2)]

RateTurn(avail, rate, huge, f, k) ==
  IF k = 0
  THEN [max |-> IF rate[0] = UintMax THEN huge ELSE 2 * (rate[0] \div 2), chosen |-> 0]
  ELSE IF avail[k-1] /\ rate[k-1] > f[k-1].max
       THEN [max |-> IF rate[k-1] = UintMax THEN huge ELSE 2 * (rate[k-1] \div 2),
             chosen |-> k-1]
       ELSE f[k-1]

IsRateScan(avail, rate, huge, f) ==
  f = [k \in 0 .. NPaths |-> RateTurn(avail, rate, huge, f, k)]

(* When the head of the list is up and every available path was measured,  *)
(* RateScan returns an available path that no available path exceeds by    *)
(* more than one unit of the fraction the loop cuts off.                   *)
THEOREM RateScanCorrect ==
  ASSUME NEW avail \in [Paths -> BOOLEAN], NEW rate \in [Paths -> Nat], NEW huge \in Nat,
         avail[0], \A p \in Paths : avail[p] => rate[p] # UintMax
  PROVE  LET c == RateScan(avail, rate, huge)
         IN c \in Paths /\ avail[c] /\ Fastest(avail, rate, Whole(rate, huge), 1, c)
<1> DEFINE scan == CHOOSE f : IsRateScan(avail, rate, huge, f)
           stored == Whole(rate, huge)
           up == {p \in Paths : avail[p]}
<1>0. NPaths \in Nat /\ 0 \in Paths /\ 0 \in 0 .. NPaths
      /\ \A k \in 1 .. NPaths : k # 0 /\ k \in 0 .. NPaths /\ k - 1 \in Paths
  BY NPathsAssumption DEF Paths
<1>1. RateScan(avail, rate, huge) = scan[NPaths].chosen
  BY Zenon DEF RateScan, IsRateScan, RateTurn
<1>2. stored \in [Paths -> Nat]
  BY DEF Whole
<1>p. \A p \in Paths : stored[p] = IF rate[p] = UintMax THEN huge ELSE 2 * (rate[p] \div 2)
  BY DEF Whole
<1> HIDE DEF stored
<1>3. \E f : IsRateScan(avail, rate, huge, f)
  <2>1. PICK f : f = [k \in 0 .. NPaths |-> f[k]] /\ MaxLoop(avail, rate, stored, f)
    BY <1>2, MaxLoopExists
  <2>2. ASSUME NEW k \in 0 .. NPaths PROVE f[k] = RateTurn(avail, rate, huge, f, k)
    <3>1. CASE k = 0
      BY <1>0, <1>p, <2>1, <3>1 DEF MaxLoop, RateTurn
    <3>2. CASE k \in 1 .. NPaths
      <4>1. f[k] = MaxStep(avail, rate, stored, k, f[k-1])
        BY <2>1, <3>2 DEF MaxLoop
      <4> QED BY <1>0, <1>p, <3>2, <4>1 DEF MaxStep, RateTurn
    <3> QED BY <1>0, <3>1, <3>2
  <2>3. IsRateScan(avail, rate, huge, f)
    BY <2>1, <2>2, Zenon DEF IsRateScan
  <2> QED BY <2>3
<1>4. IsRateScan(avail, rate, huge, scan)
  BY <1>3, Zenon
<1> HIDE DEF scan
<1>5. \A k \in 0 .. NPaths : scan[k] = RateTurn(avail, rate, huge, scan, k)
  BY <1>4, Zenon DEF IsRateScan
<1>6. MaxLoop(avail, rate, stored, scan)
  <2>1. scan[0] = [max |-> stored[0], chosen |-> 0]
    <3>1. scan[0] = RateTurn(avail, rate, huge, scan, 0)
      BY <1>0, <1>5
    <3> QED BY <1>0, <1>p, <3>1 DEF RateTurn
  <2>2. ASSUME NEW k \in 1 .. NPaths
        PROVE  scan[k] = MaxStep(avail, rate, stored, k, scan[k-1])
    <3>1. scan[k] = RateTurn(avail, rate, huge, scan, k)
      BY <1>0, <1>5
    <3> QED BY <1>0, <1>p, <3>1 DEF MaxStep, RateTurn
  <2> QED BY <2>1, <2>2 DEF MaxLoop
<1>7. Keeps(up, rate, stored, 1)
  <2>1. \A p \in up : rate[p] \in Nat /\ stored[p] = 2 * (rate[p] \div 2)
    BY <1>p
  <2>2. \A m, n \in Nat : /\ 2 * (m \div 2) <= m /\ m <= 2 * (m \div 2) + 1
                          /\ m > 2 * (n \div 2) => 2 * (m \div 2) >= 2 * (n \div 2)
    OBVIOUS
  <2> QED BY <2>1, <2>2 DEF Keeps
<1>8. 0 \in up /\ up \in SUBSET Paths /\ \A p \in Paths : avail[p] => p \in up
  BY <1>0
<1> HIDE DEF up
<1>9. scan[NPaths].chosen \in up /\ Fastest(avail, rate, stored, 1, scan[NPaths].chosen)
  BY <1>2, <1>6, <1>7, <1>8, MaxLoopFindsFastest
<1> QED BY <1>1, <1>9 DEF up, stored

-----------------------------------------------------------------------------
(* ump_find_iopath_round_robin.  c is the first available path from a on.  *)
FirstUp(avail, a, c) == c \in Paths /\ c >= a /\ avail[c] /\ \A q \in a .. c - 1 : ~avail[q]

NoneUp(avail, a, b) == \A q \in a .. b - 1 : ~avail[q]

RobinFirstTurn(avail, turn, f, k) ==
  IF k = 0 THEN [turn |-> turn, chosen |-> Null]
  ELSE IF f[k-1].chosen # Null \/ f[k-1].turn # k-1 THEN f[k-1]
  ELSE [turn |-> f[k-1].turn + 1, chosen |-> IF avail[k-1] THEN k-1 ELSE Null]

RobinAgainTurn(avail, f, k) ==
  IF k = 0 THEN [turn |-> 1, chosen |-> Null]
  ELSE IF f[k-1].chosen # Null THEN f[k-1]
  ELSE IF avail[k-1] THEN [turn |-> f[k-1].turn, chosen |-> k-1]
  ELSE [turn |-> f[k-1].turn + 1, chosen |-> Null]

IsRobinFirst(avail, turn, f) ==
  f = [k \in 0 .. NPaths |-> RobinFirstTurn(avail, turn, f, k)]

IsRobinAgain(avail, f) == f = [k \in 0 .. NPaths |-> RobinAgainTurn(avail, f, k)]

(* Both loops exist.                                                       *)
LEMMA RobinLoopsExist ==
  ASSUME NEW avail \in [Paths -> BOOLEAN], NEW turn \in Nat
  PROVE  /\ \E f : IsRobinFirst(avail, turn, f)
         /\ \E f : IsRobinAgain(avail, f)
<1> DEFINE V == [turn : Nat, chosen : Paths \cup {Null}]
           OneFirst(k, v) ==
             IF v.chosen # Null \/ v.turn # k-1 THEN v
             ELSE [turn |-> v.turn + 1, chosen |-> IF avail[k-1] THEN k-1 ELSE Null]
           OneAgain(k, v) ==
             IF v.chosen # Null THEN v
             ELSE IF avail[k-1] THEN [turn |-> v.turn, chosen |-> k-1]
             ELSE [turn |-> v.turn + 1, chosen |-> Null]
           first == [kv \in (1 .. NPaths) \X V |-> OneFirst(kv[1], kv[2])]
           again == [kv \in (1 .. NPaths) \X V |-> OneAgain(kv[1], kv[2])]
           start(n) == [turn |-> n, chosen |-> Null]
<1>1. NPaths \in Nat /\ \A k \in 1 .. NPaths : k - 1 \in Paths /\ k # 0 /\ k - 1 \in 0 .. NPaths
  BY NPathsAssumption DEF Paths
<1>2. start(turn) \in V /\ start(1) \in V
  OBVIOUS
<1>3. first \in [(1 .. NPaths) \X V -> V] /\ again \in [(1 .. NPaths) \X V -> V]
  BY <1>1
<1>4. \A k \in 1 .. NPaths, v \in V : /\ first[<<k, v>>] = OneFirst(k, v)
                                      /\ again[<<k, v>>] = OneAgain(k, v)
  OBVIOUS
<1>5. \E f : IsRobinFirst(avail, turn, f)
  <2> HIDE DEF V, first, again, start
  <2>1. PICK f : IsIteration(V, NPaths, start(turn), first, f)
    BY <1>1, <1>2, <1>3, IterationExists
  <2>2. ASSUME NEW k \in 0 .. NPaths PROVE f[k] = RobinFirstTurn(avail, turn, f, k)
    <3>1. CASE k = 0
      BY <2>1, <3>1 DEF IsIteration, RobinFirstTurn, start
    <3>2. CASE k \in 1 .. NPaths
      <4>1. f[k] = OneFirst(k, f[k-1])
        BY <1>1, <1>4, <2>1, <3>2 DEF IsIteration
      <4> QED BY <1>1, <3>2, <4>1 DEF RobinFirstTurn
    <3> QED BY <1>1, <3>1, <3>2
  <2>3. f = [k \in 0 .. NPaths |-> f[k]]
    BY <2>1 DEF IsIteration
  <2>4. IsRobinFirst(avail, turn, f)
    BY <2>2, <2>3, Zenon DEF IsRobinFirst
  <2> QED BY <2>4
<1>6. \E f : IsRobinAgain(avail, f)
  <2> HIDE DEF V, first, again, start
  <2>1. PICK f : IsIteration(V, NPaths, start(1), again, f)
    BY <1>1, <1>2, <1>3, IterationExists
  <2>2. ASSUME NEW k \in 0 .. NPaths PROVE f[k] = RobinAgainTurn(avail, f, k)
    <3>1. CASE k = 0
      BY <2>1, <3>1 DEF IsIteration, RobinAgainTurn, start
    <3>2. CASE k \in 1 .. NPaths
      <4>1. f[k] = OneAgain(k, f[k-1])
        <5>1. k - 1 \in 0 .. NPaths /\ f[k-1] \in V /\ f[k] = again[<<k, f[k-1]>>]
          BY <1>1, <2>1, <3>2 DEF IsIteration
        <5> QED BY <1>4, <3>2, <5>1
      <4> QED BY <1>1, <3>2, <4>1 DEF RobinAgainTurn
    <3> QED BY <1>1, <3>1, <3>2
  <2>3. f = [k \in 0 .. NPaths |-> f[k]]
    BY <2>1 DEF IsIteration
  <2>4. IsRobinAgain(avail, f)
    BY <2>2, <2>3, Zenon DEF IsRobinAgain
  <2> QED BY <2>4
<1> QED BY <1>5, <1>6

(* The first loop: the first available path from turn on, if there is one. *)
LEMMA RobinFirstFinds ==
  ASSUME NEW avail \in [Paths -> BOOLEAN], NEW turn \in Nat, NEW f,
         IsRobinFirst(avail, turn, f)
  PROVE  \/ f[NPaths].chosen = Null /\ NoneUp(avail, turn, NPaths)
         \/ \E c : FirstUp(avail, turn, c) /\ f[NPaths] = [turn |-> c + 1, chosen |-> c]
<1> DEFINE J(k) ==
             \/ k <= turn /\ f[k] = [turn |-> turn, chosen |-> Null]
             \/ k > turn /\ NoneUp(avail, turn, k) /\ f[k] = [turn |-> k, chosen |-> Null]
             \/ \E c : FirstUp(avail, turn, c) /\ f[k] = [turn |-> c + 1, chosen |-> c]
           T == {k \in Nat : k <= NPaths => J(k)}
<1>0. NPaths \in Nat /\ 0 \in 0 .. NPaths /\ Null \notin Paths /\ Paths \subseteq Nat
  BY NPathsAssumption DEF Paths, Null
<1>1. \A k \in 0 .. NPaths : f[k] = RobinFirstTurn(avail, turn, f, k)
  BY Zenon DEF IsRobinFirst
<1>2. 0 \in T
  <2>1. f[0] = [turn |-> turn, chosen |-> Null]
    BY <1>0, <1>1 DEF RobinFirstTurn
  <2> QED BY <2>1
<1>3. ASSUME NEW k \in Nat, k \in T PROVE k + 1 \in T
  <2> HIDE DEF J
  <2> SUFFICES ASSUME k + 1 <= NPaths PROVE J(k + 1)
    OBVIOUS
  <2>1. J(k)
    BY <1>0, <1>3
  <2>2. k \in Paths /\ k + 1 \in 0 .. NPaths /\ k + 1 # 0 /\ (k + 1) - 1 = k
    BY <1>0 DEF Paths
  <2>3. f[k+1] = IF f[k].chosen # Null \/ f[k].turn # k THEN f[k]
                 ELSE [turn |-> f[k].turn + 1, chosen |-> IF avail[k] THEN k ELSE Null]
    BY <1>1, <2>2 DEF RobinFirstTurn
  <2>4. CASE k < turn /\ f[k] = [turn |-> turn, chosen |-> Null]
    <3>1. f[k+1] = f[k]
      BY <2>3, <2>4
    <3> QED BY <2>4, <3>1 DEF J
  <2>5. CASE /\ k >= turn /\ NoneUp(avail, turn, k)
             /\ f[k] = [turn |-> k, chosen |-> Null]
    <3>1. f[k+1] = [turn |-> k + 1, chosen |-> IF avail[k] THEN k ELSE Null]
      BY <2>3, <2>5
    <3>2. CASE avail[k]
      <4>1. FirstUp(avail, turn, k)
        BY <2>2, <2>5, <3>2 DEF FirstUp, NoneUp
      <4> QED BY <3>1, <3>2, <4>1 DEF J
    <3>3. CASE ~avail[k]
      <4>1. NoneUp(avail, turn, k + 1)
        BY <2>5, <3>3 DEF NoneUp
      <4> QED BY <2>5, <3>1, <3>3, <4>1 DEF J
    <3> QED BY <3>2, <3>3
  <2>6. CASE \E c : FirstUp(avail, turn, c) /\ f[k] = [turn |-> c + 1, chosen |-> c]
    <3>1. PICK c : FirstUp(avail, turn, c) /\ f[k] = [turn |-> c + 1, chosen |-> c]
      BY <2>6
    <3>2. f[k].chosen # Null
      BY <1>0, <3>1 DEF FirstUp
    <3>3. f[k+1] = f[k]
      BY <2>3, <3>2
    <3> QED BY <3>1, <3>3 DEF J
  <2>7. \/ k < turn /\ f[k] = [turn |-> turn, chosen |-> Null]
        \/ /\ k >= turn /\ NoneUp(avail, turn, k)
           /\ f[k] = [turn |-> k, chosen |-> Null]
        \/ \E c : FirstUp(avail, turn, c) /\ f[k] = [turn |-> c + 1, chosen |-> c]
    <3>1. k = turn => NoneUp(avail, turn, k)
      BY DEF NoneUp
    <3> QED BY <2>1, <3>1 DEF J
  <2> QED BY <2>4, <2>5, <2>6, <2>7
<1> HIDE DEF T
<1>4. Nat \subseteq T
  BY <1>2, <1>3, SetInduction
<1>5. J(NPaths)
  <2> HIDE DEF J
  <2> QED BY <1>0, <1>4 DEF T
<1>6. NPaths <= turn => NoneUp(avail, turn, NPaths)
  BY <1>0 DEF NoneUp
<1>7. ASSUME f[NPaths] = [turn |-> turn, chosen |-> Null]
      PROVE  f[NPaths].chosen = Null
  BY <1>7
<1>8. ASSUME f[NPaths] = [turn |-> NPaths, chosen |-> Null]
      PROVE  f[NPaths].chosen = Null
  BY <1>8
<1> QED BY <1>5, <1>6, <1>7, <1>8

(* The second loop: the first available path, if there is one.             *)
LEMMA RobinAgainFinds ==
  ASSUME NEW avail \in [Paths -> BOOLEAN], NEW f, IsRobinAgain(avail, f)
  PROVE  \/ /\ f[NPaths] = [turn |-> NPaths + 1, chosen |-> Null]
            /\ NoneUp(avail, 0, NPaths)
         \/ \E c : FirstUp(avail, 0, c) /\ f[NPaths] = [turn |-> c + 1, chosen |-> c]
<1> DEFINE J(k) ==
             \/ NoneUp(avail, 0, k) /\ f[k] = [turn |-> k + 1, chosen |-> Null]
             \/ \E c : FirstUp(avail, 0, c) /\ f[k] = [turn |-> c + 1, chosen |-> c]
           T == {k \in Nat : k <= NPaths => J(k)}
<1>0. NPaths \in Nat /\ 0 \in 0 .. NPaths /\ Null \notin Paths /\ Paths \subseteq Nat
  BY NPathsAssumption DEF Paths, Null
<1>1. \A k \in 0 .. NPaths : f[k] = RobinAgainTurn(avail, f, k)
  BY Zenon DEF IsRobinAgain
<1>2. 0 \in T
  <2>1. f[0] = [turn |-> 0 + 1, chosen |-> Null]
    <3>1. RobinAgainTurn(avail, f, 0) = [turn |-> 1, chosen |-> Null]
      BY Zenon DEF RobinAgainTurn
    <3>2. f[0] = RobinAgainTurn(avail, f, 0)
      BY <1>0, <1>1, Zenon
    <3> QED BY <3>1, <3>2
  <2>2. NoneUp(avail, 0, 0)
    BY DEF NoneUp
  <2> QED BY <2>1, <2>2
<1>3. ASSUME NEW k \in Nat, k \in T PROVE k + 1 \in T
  <2> HIDE DEF J
  <2> SUFFICES ASSUME k + 1 <= NPaths PROVE J(k + 1)
    OBVIOUS
  <2>1. J(k)
    BY <1>0, <1>3
  <2>2. k \in Paths /\ k + 1 \in 0 .. NPaths /\ k + 1 # 0 /\ (k + 1) - 1 = k
    BY <1>0 DEF Paths
  <2>3. f[k+1] = IF f[k].chosen # Null THEN f[k]
                 ELSE IF avail[k] THEN [turn |-> f[k].turn, chosen |-> k]
                 ELSE [turn |-> f[k].turn + 1, chosen |-> Null]
    BY <1>1, <2>2 DEF RobinAgainTurn
  <2>4. CASE NoneUp(avail, 0, k) /\ f[k] = [turn |-> k + 1, chosen |-> Null]
    <3>1. f[k+1] = IF avail[k] THEN [turn |-> k + 1, chosen |-> k]
                   ELSE [turn |-> (k + 1) + 1, chosen |-> Null]
      BY <2>3, <2>4
    <3>2. CASE avail[k]
      <4>1. FirstUp(avail, 0, k)
        BY <2>2, <2>4, <3>2 DEF FirstUp, NoneUp
      <4> QED BY <3>1, <3>2, <4>1 DEF J
    <3>3. CASE ~avail[k]
      <4>1. NoneUp(avail, 0, k + 1)
        BY <2>4, <3>3 DEF NoneUp
      <4> QED BY <3>1, <3>3, <4>1 DEF J
    <3> QED BY <3>2, <3>3
  <2>5. CASE \E c : FirstUp(avail, 0, c) /\ f[k] = [turn |-> c + 1, chosen |-> c]
    <3>1. PICK c : FirstUp(avail, 0, c) /\ f[k] = [turn |-> c + 1, chosen |-> c]
      BY <2>5
    <3>2. f[k].chosen # Null
      BY <1>0, <3>1 DEF FirstUp
    <3>3. f[k+1] = f[k]
      BY <2>3, <3>2
    <3> QED BY <3>1, <3>3 DEF J
  <2> QED BY <2>1, <2>4, <2>5 DEF J
<1> HIDE DEF T
<1>4. Nat \subseteq T
  BY <1>2, <1>3, SetInduction
<1>5. J(NPaths)
  <2> HIDE DEF J
  <2> QED BY <1>0, <1>4 DEF T
<1> QED BY <1>5

(* The two loops together: the first available path from turn on, else the *)
(* first of the list, after which turn is the position that follows it;    *)
(* Null when no path is available.                                         *)
THEOREM RobinCorrect ==
  ASSUME NEW avail \in [Paths -> BOOLEAN], NEW turn \in Nat
  PROVE  \/ \E c : /\ Robin(avail, turn) = [turn |-> c + 1, chosen |-> c]
                   /\ \/ FirstUp(avail, turn, c)
                      \/ FirstUp(avail, 0, c) /\ NoneUp(avail, turn, NPaths)
         \/ /\ Robin(avail, turn) = [turn |-> NPaths + 1, chosen |-> Null]
            /\ \A p \in Paths : ~avail[p]
<1> DEFINE first == CHOOSE f : IsRobinFirst(avail, turn, f)
           again == CHOOSE f : IsRobinAgain(avail, f)
<1>0. NPaths \in Nat /\ Null \notin Paths
  BY NPathsAssumption DEF Paths, Null
<1>1. Robin(avail, turn) = IF first[NPaths].chosen # Null THEN first[NPaths] ELSE again[NPaths]
  BY Zenon DEF Robin, IsRobinFirst, IsRobinAgain, RobinFirstTurn, RobinAgainTurn
<1>2. IsRobinFirst(avail, turn, first)
  <2>1. \E f : IsRobinFirst(avail, turn, f)
    BY RobinLoopsExist
  <2> QED BY <2>1, Zenon
<1>3. IsRobinAgain(avail, again)
  <2>1. \E f : IsRobinAgain(avail, f)
    BY RobinLoopsExist
  <2> QED BY <2>1, Zenon
<1> HIDE DEF first, again
<1>4. ASSUME NEW c, FirstUp(avail, turn, c), first[NPaths] = [turn |-> c + 1, chosen |-> c]
      PROVE  Robin(avail, turn) = [turn |-> c + 1, chosen |-> c]
  BY <1>0, <1>1, <1>4 DEF FirstUp
<1>5. ASSUME first[NPaths].chosen = Null PROVE Robin(avail, turn) = again[NPaths]
  BY <1>1, <1>5
<1>6. NoneUp(avail, 0, NPaths) => \A p \in Paths : ~avail[p]
  BY DEF NoneUp, Paths
<1>7. CASE first[NPaths].chosen = Null /\ NoneUp(avail, turn, NPaths)
  BY <1>3, <1>5, <1>6, <1>7, RobinAgainFinds
<1>8. CASE \E c : FirstUp(avail, turn, c) /\ first[NPaths] = [turn |-> c + 1, chosen |-> c]
  BY <1>4, <1>8
<1> QED BY <1>2, <1>7, <1>8, RobinFirstFinds

-----------------------------------------------------------------------------
(* The drawing selectors.                                                  *)

(* ump_find_iopath_random: NULL is reported when the last path was drawn   *)
(* and every path was seen unavailable, and in no other case.              *)
LEMMA RandomDrawCorrect ==
  ASSUME NEW avail \in [Paths -> BOOLEAN], NEW d \in Paths
  PROVE  /\ avail[d] => RandomDraw(avail, d) = d
         /\ ~avail[d] => RandomDraw(avail, d) \in {Null, Again}
         /\ RandomDraw(avail, d) = Null => \A p \in Paths : ~avail[p]
         /\ (d = NPaths - 1 /\ \A p \in Paths : ~avail[p]) => RandomDraw(avail, d) = Null
<1> DEFINE down == {q \in 0 .. d : ~avail[q]}
<1>0. /\ NPaths \in Nat /\ Null \notin Paths /\ Again \notin Paths /\ Null # Again
      /\ 0 .. d \subseteq Paths
  BY NPathsAssumption DEF Paths, Null, Again
<1>1. IsFiniteSet(Paths) /\ Cardinality(Paths) = NPaths
  <2>1. 0 \in Int /\ NPaths - 1 \in Int /\ (NPaths - 1) - 0 + 1 = NPaths /\ 0 <= NPaths - 1
    BY NPathsAssumption
  <2> QED BY <2>1, FS_Interval DEF Paths
<1>2. down \subseteq Paths
  BY <1>0
<1>3. Cardinality(down) = NPaths => down = Paths
  BY <1>1, <1>2, FS_Subset
<1>4. d = NPaths - 1 /\ (\A p \in Paths : ~avail[p]) => down = Paths
  BY DEF Paths
<1>5. RandomDraw(avail, d) = IF avail[d] THEN d
                             ELSE IF Cardinality(down) = NPaths THEN Null ELSE Again
  BY DEF RandomDraw
<1>6. \A p \in Paths : down = Paths => ~avail[p]
  OBVIOUS
<1> HIDE DEF down
<1> QED BY <1>0, <1>1, <1>3, <1>4, <1>5, <1>6

(* ump_find_iopath_hash: the hashed path while it is up, some available    *)
(* path while there is one, and NULL otherwise.                            *)
LEMMA HashPickCorrect ==
  ASSUME NEW avail \in [Paths -> BOOLEAN], NEW h \in Paths
  PROVE  /\ avail[h] => HashPick(avail, h) = h
         /\ (\E p \in Paths : avail[p]) => HashPick(avail, h) \in {p \in Paths : avail[p]}
         /\ (\A p \in Paths : ~avail[p]) => HashPick(avail, h) = Null
<1> DEFINE up == {p \in Paths : avail[p]}
<1>0. Paths \subseteq Nat /\ \A p \in Paths : 0 .. p - 1 \subseteq Paths
  BY NPathsAssumption DEF Paths
<1>1. ASSUME up # {}
      PROVE  \E p \in Paths : avail[p] /\ \A q \in 0 .. p - 1 : ~avail[q]
  <2>1. up \in SUBSET Nat
    BY <1>0
  <2>2. PICK m \in up : \A n \in up : m <= n
    BY <1>1, <2>1, LeastNatural
  <2>3. \A q \in 0 .. m - 1 : q \notin up /\ q \in Paths
    BY <1>0, <2>1, <2>2
  <2> QED BY <2>2, <2>3
<1> QED BY <1>1, Zenon DEF HashPick

(* ump_find_iopath_random_weight_static: the id drawn is the first whose   *)
(* cumulative weight exceeds the fraction.                                 *)
LEMMA WeightIdIs ==
  ASSUME NEW r \in Nat, NEW i \in 0 .. 3,
         10 * r < Cumulative[i] * 4 * NPaths,
         \A j \in 0 .. i - 1 : 10 * r >= Cumulative[j] * 4 * NPaths
  PROVE  WeightId(r) = i
<1> DEFINE Is(k) == /\ 10 * r < Cumulative[k] * 4 * NPaths
                    /\ \A j \in 0 .. k - 1 : 10 * r >= Cumulative[j] * 4 * NPaths
<1>1. \A k \in 0 .. 3 : Cumulative[k] \in Nat
  BY DEF Cumulative
<1>2. \A k \in 0 .. 3 : Is(k) => k = i
  <2> TAKE k \in 0 .. 3
  <2>1. k < i => k \in 0 .. i - 1
    OBVIOUS
  <2>2. i < k => i \in 0 .. k - 1
    OBVIOUS
  <2>3. Cumulative[k] * 4 * NPaths \in Nat /\ Cumulative[i] * 4 * NPaths \in Nat
    BY <1>1, NPathsAssumption
  <2> QED BY <2>1, <2>2, <2>3
<1>3. Is(i)
  OBVIOUS
<1> HIDE DEF Is
<1>4. WeightId(r) = CHOOSE k \in 0 .. 3 : Is(k)
  BY Zenon DEF WeightId, Is
<1> QED BY <1>2, <1>3, <1>4

(* Some draw gives each of the ids 0 .. 3 that is a path.                  *)
LEMMA EveryWeightIsDrawn ==
  ASSUME NEW p \in Paths, p < 4
  PROVE  \E r \in 0 .. 4 * NPaths - 1 : WeightId(r) = p
<1>0. /\ NPaths \in Nat /\ NPaths > p /\ p \in 0 .. 3
      /\ Cumulative[0] = 1 /\ Cumulative[1] = 2 /\ Cumulative[2] = 6 /\ Cumulative[3] = 10
  BY NPathsAssumption DEF Paths, Cumulative
<1>1. CASE p = 0
  <2>1. 0 \in 0 .. 4 * NPaths - 1 /\ 10 * 0 < Cumulative[0] * 4 * NPaths
    BY <1>0
  <2>2. WeightId(0) = 0
    BY <2>1, WeightIdIs
  <2> QED BY <1>1, <2>1, <2>2
<1>2. CASE p = 1
  <2> DEFINE r == (4 * NPaths + 9) \div 10
  <2>1. r \in Nat /\ r <= 4 * NPaths - 1 /\ 10 * r >= 1 * 4 * NPaths /\ 10 * r < 2 * 4 * NPaths
    BY <1>0, <1>2
  <2> HIDE DEF r
  <2>2. \A j \in 0 .. 0 : 10 * r >= Cumulative[j] * 4 * NPaths
    BY <1>0, <2>1
  <2>3. WeightId(r) = 1
    BY <1>0, <2>1, <2>2, WeightIdIs
  <2> QED BY <1>0, <1>2, <2>1, <2>3
<1>3. CASE p = 2
  <2> DEFINE r == 2 * NPaths
  <2>1. r \in Nat /\ r <= 4 * NPaths - 1 /\ 10 * r >= 2 * 4 * NPaths /\ 10 * r < 6 * 4 * NPaths
    BY <1>0, <1>3
  <2> HIDE DEF r
  <2>2. \A j \in 0 .. 1 : j = 0 \/ j = 1
    OBVIOUS
  <2>3. \A j \in 0 .. 1 : 10 * r >= Cumulative[j] * 4 * NPaths
    BY <1>0, <2>1, <2>2
  <2>4. WeightId(r) = 2
    BY <1>0, <2>1, <2>3, WeightIdIs
  <2> QED BY <1>0, <1>3, <2>1, <2>4
<1>4. CASE p = 3
  <2> DEFINE r == 4 * NPaths - 1
  <2>1. r \in Nat /\ 10 * r >= 6 * 4 * NPaths /\ 10 * r < 10 * 4 * NPaths
    BY <1>0, <1>4
  <2>2. r \in 0 .. 4 * NPaths - 1
    BY <2>1, <1>0
  <2> HIDE DEF r
  <2>3. \A j \in 0 .. 2 : j = 0 \/ j = 1 \/ j = 2
    OBVIOUS
  <2>4. \A j \in 0 .. 2 : 10 * r >= Cumulative[j] * 4 * NPaths
    BY <1>0, <2>1, <2>3
  <2>5. WeightId(r) = 3
    BY <1>0, <2>1, <2>4, WeightIdIs
  <2> QED BY <1>4, <2>2, <2>5
<1> QED BY <1>0, <1>1, <1>2, <1>3, <1>4

(* Every draw gives one of the ids 0 .. 3.                                 *)
LEMMA WeightIdType ==
  ASSUME NEW r \in 0 .. 4 * NPaths - 1
  PROVE  WeightId(r) \in 0 .. 3
<1>0. /\ NPaths \in Nat /\ r \in Nat /\ r < 4 * NPaths
      /\ Cumulative[0] = 1 /\ Cumulative[1] = 2 /\ Cumulative[2] = 6 /\ Cumulative[3] = 10
  BY NPathsAssumption DEF Cumulative
<1>1. CASE 10 * r < 1 * 4 * NPaths
  <2>1. WeightId(r) = 0
    BY <1>0, <1>1, WeightIdIs
  <2> QED BY <2>1
<1>2. CASE 10 * r >= 1 * 4 * NPaths /\ 10 * r < 2 * 4 * NPaths
  <2>1. \A j \in 0 .. 0 : 10 * r >= Cumulative[j] * 4 * NPaths
    BY <1>0, <1>2
  <2>2. WeightId(r) = 1
    BY <1>0, <1>2, <2>1, WeightIdIs
  <2> QED BY <2>2
<1>3. CASE 10 * r >= 2 * 4 * NPaths /\ 10 * r < 6 * 4 * NPaths
  <2>1. \A j \in 0 .. 1 : j = 0 \/ j = 1
    OBVIOUS
  <2>2. \A j \in 0 .. 1 : 10 * r >= Cumulative[j] * 4 * NPaths
    BY <1>0, <1>3, <2>1
  <2>3. WeightId(r) = 2
    BY <1>0, <1>3, <2>2, WeightIdIs
  <2> QED BY <2>3
<1>4. CASE 10 * r >= 6 * 4 * NPaths
  <2>1. \A j \in 0 .. 2 : j = 0 \/ j = 1 \/ j = 2
    OBVIOUS
  <2>2. \A j \in 0 .. 2 : 10 * r >= Cumulative[j] * 4 * NPaths
    BY <1>0, <1>4, <2>1
  <2>3. 10 * r < Cumulative[3] * 4 * NPaths
    BY <1>0
  <2>4. WeightId(r) = 3
    BY <1>0, <2>2, <2>3, WeightIdIs
  <2> QED BY <2>4
<1> QED BY <1>0, <1>1, <1>2, <1>3, <1>4
-----------------------------------------------------------------------------
(* What MCSumpSelect checks of the selectors, for any number of paths and  *)
(* any history of failures, failbacks and selections.                      *)

(* robin is NPaths + 1 after a selection that found no path.               *)
InputsOK == /\ flags \in [Paths -> BOOLEAN]
            /\ measures \in [Paths -> 0 .. UintMax]
            /\ robin \in Nat

(* The flags, the measures and robin keep their types.                     *)
THEOREM InputsKeepTypes == SelectSpec => []InputsOK
<1>1. AnyInput => InputsOK
  BY DEF AnyInput, InputsOK
<1>2. InputsOK /\ [Selecting]_inputs => InputsOK'
  <2> SUFFICES ASSUME InputsOK, [Selecting]_inputs PROVE InputsOK'
    OBVIOUS
  <2>1. CASE RobinSelects
    <3>1. Robin(flags, robin).turn \in Nat
      <4>1. Paths \subseteq Nat /\ NPaths \in Nat
        BY NPathsAssumption DEF Paths
      <4>2. \/ \E c \in Paths : Robin(flags, robin).turn = c + 1
            \/ Robin(flags, robin).turn = NPaths + 1
        <5>1. flags \in [Paths -> BOOLEAN] /\ robin \in Nat
          BY DEF InputsOK
        <5>2. ASSUME NEW c, Robin(flags, robin) = [turn |-> c + 1, chosen |-> c]
              PROVE  Robin(flags, robin).turn = c + 1
          BY <5>2
        <5>3. ASSUME Robin(flags, robin) = [turn |-> NPaths + 1, chosen |-> Null]
              PROVE  Robin(flags, robin).turn = NPaths + 1
          BY <5>3
        <5> QED BY <5>1, <5>2, <5>3, RobinCorrect DEF FirstUp
      <4> QED BY <4>1, <4>2
    <3> QED BY <2>1, <3>1 DEF RobinSelects, InputsOK
  <2>2. CASE \E p \in Paths : Flip(p)
    BY <2>2 DEF Flip, InputsOK
  <2>3. CASE UNCHANGED inputs
    BY <2>3 DEF inputs, InputsOK
  <2> QED BY <2>1, <2>2, <2>3 DEF Selecting
<1> QED BY <1>1, <1>2, PTL DEF SelectSpec

(* Every scanning selector finds the best path it is meant to find         *)
(* (ump_find_iopath_queue_length, .._service_time, .._last_average_rate    *)
(* and .._rate).                                                           *)
THEOREM ScansAreBest == SelectSpec => []ScansFindBest
<1>1. InputsOK => ScansFindBest
  <2> SUFFICES ASSUME InputsOK PROVE ScansFindBest
    OBVIOUS
  <2>1. /\ flags \in [Paths -> BOOLEAN] /\ measures \in [Paths -> Nat]
        /\ Paths \subseteq Nat /\ 0 \in Paths /\ UintMax \in Nat
    BY NPathsAssumption, UintMaxAssumption DEF InputsOK, Paths
  <2>2. MinScanIsCheapest
    BY <2>1, MinScanCorrect DEF MinScanIsCheapest
  <2>3. MaxScanIsFastest
    <3> DEFINE c == MaxScan(flags, measures)
    <3>1. c \in Paths /\ Fastest(flags, measures, measures, 0, c)
      BY <2>1, MaxScanCorrect
    <3> HIDE DEF c
    <3>2. flags[0] => flags[c]
      BY <3>1 DEF Fastest
    <3>3. ASSUME NEW q \in Paths, flags[q]
          PROVE  measures[q] < measures[c] \/ (measures[q] = measures[c] /\ c <= q)
      <4>1. measures[q] \in Nat /\ measures[c] \in Nat /\ q \in Nat /\ c \in Nat
        BY <2>1, <3>1
      <4>2. measures[q] <= measures[c] + 0 /\ (q < c => measures[q] < measures[c] + 0)
        BY <3>1, <3>3 DEF Fastest
      <4> QED BY <4>1, <4>2
    <3> QED BY <3>2, <3>3 DEF MaxScanIsFastest, c
  <2>4. RateScanIsNearlyFastest
    <3> DEFINE c == RateScan(flags, measures, 0)
    <3> SUFFICES ASSUME flags[0], \A p \in Paths : measures[p] < UintMax
                 PROVE  /\ flags[c]
                        /\ \A q \in Paths : flags[q] => measures[q] < measures[c] + 2
                        /\ c # 0 => measures[c] > 2 * (measures[0] \div 2)
      BY DEF RateScanIsNearlyFastest
    <3>1. \A p \in Paths : measures[p] # UintMax /\ measures[p] \in Nat
      BY <2>1
    <3>2. c \in Paths /\ flags[c] /\ Fastest(flags, measures, Whole(measures, 0), 1, c)
      <4>1. \A p \in Paths : flags[p] => measures[p] # UintMax
        BY <3>1
      <4> QED BY <2>1, <4>1, RateScanCorrect
    <3> HIDE DEF c
    <3>3. Whole(measures, 0)[0] = 2 * (measures[0] \div 2)
      BY <2>1, <3>1 DEF Whole
    <3>4. \A q \in Paths : flags[q] => measures[q] < measures[c] + 2
      <4>1. \A q \in Paths : flags[q] => measures[q] <= measures[c] + 1
        BY <3>2 DEF Fastest
      <4> QED BY <3>1, <3>2, <4>1
    <3> QED BY <3>2, <3>3, <3>4 DEF Fastest
  <2> QED BY <2>2, <2>3, <2>4 DEF ScansFindBest
<1> QED BY <1>1, InputsKeepTypes, PTL

(* The round robin takes the first available path at or after robin in     *)
(* cyclic order, leaves robin just after it, and returns NULL exactly when *)
(* no path is available (ump_find_iopath_round_robin).                     *)
THEOREM RobinStaysCyclic == SelectSpec => []RobinIsCyclic
<1>1. InputsOK => RobinIsCyclic
  <2> SUFFICES ASSUME InputsOK PROVE RobinIsCyclic
    OBVIOUS
  <2> DEFINE r == Robin(flags, robin)
  <2>1. /\ flags \in [Paths -> BOOLEAN] /\ robin \in Nat /\ NPaths \in Nat
        /\ Paths \subseteq Nat /\ \A q \in Paths : q < NPaths
    BY NPathsAssumption DEF InputsOK, Paths
  <2>2. \/ \E c : /\ r = [turn |-> c + 1, chosen |-> c]
                  /\ \/ FirstUp(flags, robin, c)
                     \/ FirstUp(flags, 0, c) /\ NoneUp(flags, robin, NPaths)
        \/ /\ r = [turn |-> NPaths + 1, chosen |-> Null]
           /\ \A p \in Paths : ~flags[p]
    BY <2>1, RobinCorrect
  <2> HIDE DEF r
  <2>3. CASE r = [turn |-> NPaths + 1, chosen |-> Null] /\ \A p \in Paths : ~flags[p]
    <3>1. r.chosen = Null
      BY <2>3
    <3> QED BY <2>3, <3>1 DEF RobinIsCyclic, r
  <2>4. ASSUME NEW c, r = [turn |-> c + 1, chosen |-> c],
               \/ FirstUp(flags, robin, c)
               \/ FirstUp(flags, 0, c) /\ NoneUp(flags, robin, NPaths)
        PROVE  RobinIsCyclic
    <3>1. c \in Paths /\ flags[c] /\ r.chosen = c /\ r.turn = c + 1 /\ c \in Nat /\ c < NPaths
      BY <2>1, <2>4 DEF FirstUp
    <3>2. ASSUME NEW q \in Paths, flags[q]
          PROVE  CyclicDistance(c) <= CyclicDistance(q)
      <4>1. q \in Nat /\ q < NPaths
        BY <2>1
      <4>2. CASE FirstUp(flags, robin, c)
        <5>1. q \notin robin .. c - 1
          BY <3>2, <4>2 DEF FirstUp
        <5> QED BY <2>1, <3>1, <4>1, <4>2, <5>1 DEF CyclicDistance, FirstUp
      <4>3. CASE FirstUp(flags, 0, c) /\ NoneUp(flags, robin, NPaths)
        <5>1. q \notin 0 .. c - 1 /\ q \notin robin .. NPaths - 1 /\ c \notin robin .. NPaths - 1
          BY <3>1, <3>2, <4>3 DEF FirstUp, NoneUp
        <5>2. q < robin /\ c < robin /\ c <= q
          BY <2>1, <3>1, <4>1, <5>1
        <5> QED BY <2>1, <3>1, <4>1, <5>2 DEF CyclicDistance
      <4> QED BY <2>4, <4>2, <4>3
    <3>3. c \in {p \in Paths : flags[p]}
      BY <3>1
    <3> QED BY <3>1, <3>2, <3>3 DEF RobinIsCyclic, r
  <2> QED BY <2>2, <2>3, <2>4
<1> QED BY <1>1, InputsKeepTypes, PTL

(* Every drawing selector reaches the available paths and no others, and   *)
(* the random and hash selectors report NULL exactly when every path is    *)
(* down (ump_find_iopath_random, .._random_weight_static and .._hash).     *)
THEOREM DrawsAreComplete == SelectSpec => []DrawsFindAvailable
<1>1. InputsOK => DrawsFindAvailable
  <2> SUFFICES ASSUME InputsOK PROVE DrawsFindAvailable
    OBVIOUS
  <2> DEFINE up     == {p \in Paths : flags[p]}
             draws  == {RandomDraw(flags, d) : d \in Paths}
             hashed == {HashPick(flags, h) : h \in Paths}
  <2>1. /\ flags \in [Paths -> BOOLEAN] /\ NPaths \in Nat
        /\ Null \notin Paths /\ Again \notin Paths /\ Null # Again
        /\ NPaths - 1 \in Paths
    BY NPathsAssumption DEF InputsOK, Paths, Null, Again
  <2>2. ASSUME NEW d \in Paths
        PROVE  /\ flags[d] => RandomDraw(flags, d) = d
               /\ ~flags[d] => RandomDraw(flags, d) \in {Null, Again}
               /\ RandomDraw(flags, d) = Null => \A p \in Paths : ~flags[p]
               /\ d = NPaths - 1 /\ (\A p \in Paths : ~flags[p]) => RandomDraw(flags, d) = Null
    BY <2>1, RandomDrawCorrect
  <2>3. ASSUME NEW h \in Paths
        PROVE  /\ flags[h] => HashPick(flags, h) = h
               /\ (\E p \in Paths : flags[p]) => HashPick(flags, h) \in up
               /\ (\A p \in Paths : ~flags[p]) => HashPick(flags, h) = Null
    BY <2>1, HashPickCorrect
  <2>4. ASSUME up # {}
        PROVE  /\ draws \ {Again} = up /\ hashed = up
               /\ \A h \in up : HashPick(flags, h) = h
    <3>1. \A d \in Paths : RandomDraw(flags, d) # Null
      BY <2>2, <2>4
    <3>2. draws \ {Again} \subseteq up
      BY <2>2, <3>1
    <3>3. up \subseteq draws \ {Again}
      BY <2>1, <2>2
    <3>4. \A h \in up : HashPick(flags, h) = h
      BY <2>3
    <3>5. hashed \subseteq up
      BY <2>3, <2>4
    <3>6. up \subseteq hashed
      BY <3>4
    <3> QED BY <3>2, <3>3, <3>4, <3>5, <3>6
  <2>5. ASSUME up = {}
        PROVE  Null \in draws /\ draws \subseteq {Null, Again} /\ hashed = {Null}
    <3>1. \A p \in Paths : ~flags[p]
      BY <2>5
    <3>2. RandomDraw(flags, NPaths - 1) = Null
      BY <2>1, <2>2, <3>1
    <3>3. \A h \in Paths : HashPick(flags, h) = Null
      BY <2>3, <3>1
    <3>4. draws \subseteq {Null, Again}
      BY <2>2, <3>1
    <3> QED BY <2>1, <3>2, <3>3, <3>4
  <2>6. NullOnlyWhenAllDown
    BY <2>4, <2>5, Zenon DEF NullOnlyWhenAllDown
  <2>7. WeightReachesAvailable
    <3> DEFINE drawn == {WeightDraw(flags, r) : r \in 0 .. 4 * NPaths - 1}
               reachable == {p \in Paths : flags[p] /\ p < 4}
    <3>1. ASSUME NEW r \in 0 .. 4 * NPaths - 1
          PROVE  WeightDraw(flags, r) \in reachable \cup {Again}
      <4>1. WeightId(r) \in 0 .. 3
        BY WeightIdType
      <4> QED BY <4>1 DEF WeightDraw
    <3>2. ASSUME NEW p \in reachable
          PROVE  p \in drawn \ {Again}
      <4>1. PICK r \in 0 .. 4 * NPaths - 1 : WeightId(r) = p
        BY <3>2, EveryWeightIsDrawn
      <4>2. WeightDraw(flags, r) = p
        BY <3>2, <4>1 DEF WeightDraw
      <4> QED BY <2>1, <4>1, <4>2
    <3>3. drawn \ {Again} = reachable
      BY <3>1, <3>2
    <3> QED BY <3>3 DEF WeightReachesAvailable
  <2> QED BY <2>6, <2>7 DEF DrawsFindAvailable
<1> QED BY <1>1, InputsKeepTypes, PTL
=============================================================================
