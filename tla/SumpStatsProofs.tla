--------------------------- MODULE SumpStatsProofs ---------------------------
(***************************************************************************)
(* Proofs about SumpStats for any number of paths and requests, any window *)
(* and any times and sizes.  The inductive invariant says of every queue   *)
(* what its increments are to keep: the list is the end of the history,    *)
(* the totals are the sums over it, and the averages are their quotients.  *)
(***************************************************************************)
EXTENDS SumpStats, SumpSelectProofs, SequenceTheorems

-----------------------------------------------------------------------------
(* Sums of sequences.  p[k] is the sum of the first k numbers of w.        *)
IsSum(w, n, p) == p[0] = 0 /\ \A k \in 1 .. n : p[k] = p[k-1] + w[k]

(* The recursive definition of SumOf has a solution.                       *)
LEMMA SumUnfolds ==
  ASSUME NEW w \in Seq(Nat)
  PROVE  \E p \in [0 .. Len(w) -> Nat] : IsSum(w, Len(w), p) /\ SumOf(w) = p[Len(w)]
<1> DEFINE Turn(f, k) == IF k = 0 THEN 0 ELSE f[k-1] + w[k]
           Is(f) == f = [k \in 0 .. Len(w) |-> Turn(f, k)]
           step == [kv \in (1 .. Len(w)) \X Nat |-> kv[2] + w[kv[1]]]
           sum == CHOOSE f : Is(f)
<1>1. Len(w) \in Nat /\ \A k \in 1 .. Len(w) : w[k] \in Nat
  BY LenProperties
<1>2. \E f : Is(f)
  <2>1. step \in [(1 .. Len(w)) \X Nat -> Nat]
    BY <1>1
  <2>2. \A k \in 1 .. Len(w), v \in Nat : step[<<k, v>>] = v + w[k]
    OBVIOUS
  <2> HIDE DEF step
  <2>3. PICK f : IsIteration(Nat, Len(w), 0, step, f)
    BY <1>1, <2>1, IterationExists
  <2>4. ASSUME NEW k \in 0 .. Len(w) PROVE f[k] = Turn(f, k)
    <3>1. CASE k = 0
      BY <2>3, <3>1 DEF IsIteration
    <3>2. CASE k \in 1 .. Len(w)
      <4>1. k # 0 /\ k - 1 \in 0 .. Len(w)
        BY <1>1, <3>2
      <4> QED BY <2>2, <2>3, <3>2, <4>1 DEF IsIteration
    <3> QED BY <1>1, <3>1, <3>2
  <2>5. f = [k \in 0 .. Len(w) |-> f[k]]
    BY <2>3 DEF IsIteration
  <2> HIDE DEF Turn
  <2>6. Is(f)
    BY <2>4, <2>5, Zenon
  <2> QED BY <2>6
<1>3. Is(sum)
  <2> HIDE DEF Is
  <2> QED BY <1>2, Zenon
<1>4. SumOf(w) = sum[Len(w)]
  BY Zenon DEF SumOf
<1> HIDE DEF sum
<1>5. \A k \in 0 .. Len(w) : sum[k] = Turn(sum, k)
  <2> HIDE DEF Turn
  <2> QED BY <1>3, Zenon
<1>6. IsSum(w, Len(w), sum)
  <2>1. sum[0] = 0
    BY <1>1, <1>5
  <2>2. \A k \in 1 .. Len(w) : k \in 0 .. Len(w) /\ k # 0
    BY <1>1
  <2> QED BY <1>5, <2>1, <2>2 DEF IsSum
<1>7. sum \in [0 .. Len(w) -> Nat]
  <2> DEFINE T == {k \in Nat : k <= Len(w) => sum[k] \in Nat}
  <2>1. 0 \in T
    BY <1>6 DEF IsSum
  <2>2. ASSUME NEW k \in Nat, k \in T PROVE k + 1 \in T
    <3> SUFFICES ASSUME k + 1 <= Len(w) PROVE sum[k+1] \in Nat
      OBVIOUS
    <3>1. k + 1 \in 1 .. Len(w) /\ (k + 1) - 1 = k
      BY <1>1
    <3>2. sum[k+1] = sum[k] + w[k+1]
      BY <1>6, <3>1 DEF IsSum
    <3> QED BY <1>1, <2>2, <3>1, <3>2
  <2> HIDE DEF T
  <2>3. Nat \subseteq T
    BY <2>1, <2>2, SetInduction
  <2>4. \A k \in 0 .. Len(w) : sum[k] \in Nat
    BY <1>1, <2>3 DEF T
  <2>5. sum = [k \in 0 .. Len(w) |-> sum[k]]
    BY <1>3, <1>5, Zenon
  <2> QED BY <2>4, <2>5
<1> QED BY <1>4, <1>6, <1>7

(* A number more at the end.                                               *)
LEMMA SumOfLonger ==
  ASSUME NEW w \in Seq(Nat), NEW v \in Seq(Nat), Len(v) = Len(w) + 1,
         \A k \in 1 .. Len(w) : v[k] = w[k]
  PROVE  SumOf(v) = SumOf(w) + v[Len(w) + 1]
<1>1. PICK p \in [0 .. Len(w) -> Nat] : IsSum(w, Len(w), p) /\ SumOf(w) = p[Len(w)]
  BY SumUnfolds
<1>2. PICK q \in [0 .. Len(v) -> Nat] : IsSum(v, Len(v), q) /\ SumOf(v) = q[Len(v)]
  BY SumUnfolds
<1> DEFINE n == Len(w)
<1>3. n \in Nat /\ n + 1 \in 1 .. n + 1 /\ (n + 1) - 1 = n /\ n \in 0 .. n
  BY LenProperties
<1> DEFINE T == {k \in Nat : k <= n => q[k] = p[k]}
<1>4. 0 \in T
  BY <1>1, <1>2 DEF IsSum
<1>5. ASSUME NEW k \in Nat, k \in T PROVE k + 1 \in T
  <2> SUFFICES ASSUME k + 1 <= n PROVE q[k+1] = p[k+1]
    OBVIOUS
  <2>1. k + 1 \in 1 .. n /\ k + 1 \in 1 .. n + 1 /\ (k + 1) - 1 = k
    BY <1>3
  <2>2. p[k+1] = p[k] + w[k+1] /\ q[k+1] = q[k] + v[k+1] /\ v[k+1] = w[k+1]
    BY <1>1, <1>2, <2>1 DEF IsSum
  <2>3. k \in 0 .. n /\ q[k] = p[k]
    BY <1>3, <1>5
  <2> QED BY <2>2, <2>3
<1> HIDE DEF T
<1>6. Nat \subseteq T
  BY <1>4, <1>5, SetInduction
<1>7. q[n] = p[n]
  <2>1. n \in T /\ n <= n
    BY <1>3, <1>6
  <2> HIDE DEF n
  <2> QED BY <2>1 DEF T
<1>8. q[n+1] = q[n] + v[n+1]
  BY <1>2, <1>3 DEF IsSum
<1> QED BY <1>1, <1>2, <1>7, <1>8

(* A number more at the beginning.                                         *)
LEMMA SumOfRest ==
  ASSUME NEW w \in Seq(Nat), NEW v \in Seq(Nat), Len(v) = Len(w) + 1,
         \A k \in 1 .. Len(w) : v[k+1] = w[k]
  PROVE  SumOf(v) = v[1] + SumOf(w)
<1>1. PICK p \in [0 .. Len(w) -> Nat] : IsSum(w, Len(w), p) /\ SumOf(w) = p[Len(w)]
  BY SumUnfolds
<1>2. PICK q \in [0 .. Len(v) -> Nat] : IsSum(v, Len(v), q) /\ SumOf(v) = q[Len(v)]
  BY SumUnfolds
<1> DEFINE n == Len(w)
<1>3. n \in Nat /\ n \in 0 .. n /\ v[1] \in Nat /\ \A k \in 1 .. n : w[k] \in Nat
  BY LenProperties
<1> DEFINE T == {k \in Nat : k <= n => q[k+1] = v[1] + p[k]}
<1>4. 0 \in T
  <2>1. 1 \in 1 .. n + 1 /\ 1 - 1 = 0 /\ 0 + 1 = 1
    BY <1>3
  <2>2. q[1] = q[0] + v[1] /\ q[0] = 0 /\ p[0] = 0
    BY <1>1, <1>2, <1>3, <2>1 DEF IsSum
  <2> QED BY <1>3, <2>2
<1>5. ASSUME NEW k \in Nat, k \in T PROVE k + 1 \in T
  <2> SUFFICES ASSUME k + 1 <= n PROVE q[(k+1)+1] = v[1] + p[k+1]
    OBVIOUS
  <2>1. k + 1 \in 1 .. n /\ (k + 1) + 1 \in 1 .. n + 1 /\ (k + 1) - 1 = k
        /\ ((k + 1) + 1) - 1 = k + 1 /\ k \in 0 .. n
    BY <1>3
  <2>2. p[k+1] = p[k] + w[k+1]
    BY <1>1, <2>1 DEF IsSum
  <2>3. q[(k+1)+1] = q[k+1] + v[(k+1)+1]
    BY <1>2, <2>1 DEF IsSum
  <2>4. v[(k+1)+1] = w[k+1] /\ w[k+1] \in Nat /\ p[k] \in Nat
    BY <1>1, <1>3, <2>1
  <2>5. q[k+1] = v[1] + p[k]
    BY <1>3, <1>5
  <2> QED BY <1>3, <2>2, <2>3, <2>4, <2>5, SMTT(30)
<1> HIDE DEF T
<1>6. Nat \subseteq T
  BY <1>4, <1>5, SetInduction
<1>7. q[n+1] = v[1] + p[n]
  <2>1. n \in T /\ n <= n
    BY <1>3, <1>6
  <2> HIDE DEF n
  <2> QED BY <2>1 DEF T
<1> QED BY <1>1, <1>2, <1>7

(* What bounds every number of a sequence bounds its mean.                 *)
LEMMA SumBounds ==
  ASSUME NEW w \in Seq(Nat)
  PROVE  /\ SumOf(w) \in Nat
         /\ Len(w) = 0 => SumOf(w) = 0
         /\ (\A k \in 1 .. Len(w) : w[k] >= 1) => SumOf(w) >= Len(w)
         /\ \A r, b \in Nat : (\A k \in 1 .. Len(w) : w[k] * r <= b)
                                => SumOf(w) * r <= b * Len(w)
<1> DEFINE n == Len(w)
<1>0. n \in Nat /\ n \in 0 .. n /\ \A k \in 1 .. n : w[k] \in Nat
  BY LenProperties
<1>1. PICK p \in [0 .. n -> Nat] : IsSum(w, n, p) /\ SumOf(w) = p[n]
  BY SumUnfolds
<1> HIDE DEF n
<1>2. ASSUME NEW k \in Nat, k + 1 <= n
      PROVE  /\ k + 1 \in 1 .. n /\ p[k] \in Nat /\ w[k+1] \in Nat
             /\ p[k+1] = p[k] + w[k+1]
  <2>1. k + 1 \in 1 .. n /\ (k + 1) - 1 = k /\ k \in 0 .. n
    BY <1>0, <1>2
  <2> QED BY <1>0, <1>1, <2>1 DEF IsSum
<1>3. p[0] = 0
  BY <1>1 DEF IsSum
<1>4. ASSUME \A k \in 1 .. n : w[k] >= 1 PROVE p[n] >= n
  <2> DEFINE T == {k \in Nat : k <= n => p[k] >= k}
  <2>1. 0 \in T
    BY <1>3
  <2>2. ASSUME NEW k \in Nat, k \in T PROVE k + 1 \in T
    <3> SUFFICES ASSUME k + 1 <= n PROVE p[k+1] >= k + 1
      OBVIOUS
    <3>1. p[k] >= k
      BY <1>0, <2>2
    <3>2. w[k+1] >= 1 /\ w[k+1] \in Nat /\ p[k] \in Nat /\ p[k+1] = p[k] + w[k+1]
      BY <1>2, <1>4
    <3> QED BY <3>1, <3>2
  <2> HIDE DEF T
  <2>3. Nat \subseteq T
    BY <2>1, <2>2, SetInduction
  <2> QED BY <1>0, <2>3 DEF T
<1>5. ASSUME NEW r \in Nat, NEW b \in Nat, \A k \in 1 .. n : w[k] * r <= b
      PROVE  p[n] * r <= b * n
  <2> DEFINE T == {k \in Nat : k <= n => p[k] * r <= b * k}
  <2>1. 0 \in T
    BY <1>3
  <2>2. ASSUME NEW k \in Nat, k \in T PROVE k + 1 \in T
    <3> SUFFICES ASSUME k + 1 <= n PROVE p[k+1] * r <= b * (k + 1)
      OBVIOUS
    <3> DEFINE x == p[k]
               y == w[k+1]
    <3>1. x \in Nat /\ y \in Nat /\ p[k+1] = x + y /\ y * r <= b
      BY <1>2, <1>5
    <3>2. x * r <= b * k
      BY <1>0, <2>2
    <3> HIDE DEF x, y
    <3>3. (x + y) * r = x * r + y * r /\ b * (k + 1) = b * k + b
      BY <3>1
    <3>4. x * r \in Nat /\ y * r \in Nat /\ b * k \in Nat
      BY <3>1
    <3> QED BY <3>1, <3>2, <3>3, <3>4
  <2> HIDE DEF T
  <2>3. Nat \subseteq T
    BY <2>1, <2>2, SetInduction
  <2> QED BY <1>0, <2>3 DEF T
<1> QED BY <1>0, <1>1, <1>3, <1>4, <1>5 DEF n

(* The mean of at least one number is within the bounds of the numbers.    *)
LEMMA DivisionBounds ==
  ASSUME NEW a \in Nat, NEW n \in Nat, n >= 1
  PROVE  /\ a \div n \in Nat
         /\ a >= n => a \div n >= 1
         /\ \A b \in Nat : a <= b * n => a \div n <= b
<1> DEFINE d == a \div n
<1>1. d \in Nat /\ n * d <= a
  OBVIOUS
<1>2. a < n * (d + 1)
  OBVIOUS
<1> HIDE DEF d
<1>3. ASSUME a >= n, d = 0 PROVE FALSE
  BY <1>2, <1>3
<1>4. ASSUME NEW b \in Nat, a <= b * n, d > b PROVE FALSE
  <2>1. PICK c \in Nat : d = b + 1 + c
    <3>1. d - b - 1 \in Nat /\ d = b + 1 + (d - b - 1)
      BY <1>1, <1>4
    <3> QED BY <3>1
  <2>2. n * (b + 1 + c) = n * b + n + n * c
    OBVIOUS
  <2>3. n * c \in Nat /\ n * b = b * n
    OBVIOUS
  <2> QED BY <1>1, <1>4, <2>1, <2>2, <2>3
<1> QED BY <1>1, <1>3, <1>4 DEF d

-----------------------------------------------------------------------------
(* Lists of measured requests.                                             *)

(* The times and the sizes are sequences of numbers.                       *)
TimesOf(s) == [i \in 1 .. Len(s) |-> s[i].time]
SizesOf(s) == [i \in 1 .. Len(s) |-> s[i].size]

(* The times and the sizes of a list are naturals within their bounds.     *)
LEMMA MeasuresType ==
  ASSUME NEW s \in Seq(Element)
  PROVE  /\ TimesOf(s) \in Seq(Nat) /\ Len(TimesOf(s)) = Len(s)
         /\ SizesOf(s) \in Seq(Nat) /\ Len(SizesOf(s)) = Len(s)
         /\ \A i \in 1 .. Len(s) : /\ TimesOf(s)[i] = s[i].time /\ TimesOf(s)[i] >= 1
                                   /\ TimesOf(s)[i] < UintMax /\ TimesOf(s)[i] \in Nat
                                   /\ SizesOf(s)[i] = s[i].size /\ SizesOf(s)[i] \in Nat
                                   /\ SizesOf(s)[i] * RateUnit < UintMax
<1>1. Len(s) \in Nat /\ \A i \in 1 .. Len(s) : s[i] \in Element
  BY LenProperties
<1>2. \A i \in 1 .. Len(s) : s[i].time \in Times /\ s[i].size \in Sizes
  BY <1>1 DEF Element
<1>3. \A t \in Times : t \in Nat /\ t >= 1 /\ t < UintMax
  BY MeasuresAssumption, UintMaxIsLarge
<1>4. \A n \in Sizes : n \in Nat /\ n * RateUnit < UintMax
  <2>1. \A n \in Sizes : n \in Nat
    BY MeasuresAssumption
  <2>2. \A n \in Sizes : n * RateUnit < UintMax
    BY UintMaxIsLarge
  <2> QED BY <2>1, <2>2
<1>5. /\ TimesOf(s) \in [1 .. Len(s) -> Nat] /\ SizesOf(s) \in [1 .. Len(s) -> Nat]
      /\ \A i \in 1 .. Len(s) : TimesOf(s)[i] = s[i].time /\ SizesOf(s)[i] = s[i].size
  <2>1. \A i \in 1 .. Len(s) : s[i].time \in Nat /\ s[i].size \in Nat
    <3>1. \A t \in Times : t \in Nat
      BY <1>3
    <3>2. \A n \in Sizes : n \in Nat
      BY <1>4
    <3> QED BY <1>2, <3>1, <3>2
  <2> QED BY <2>1 DEF TimesOf, SizesOf
<1>6. TimesOf(s) \in Seq(Nat) /\ SizesOf(s) \in Seq(Nat)
  <2>1. PICK n \in Nat : n = Len(s)
    BY <1>1
  <2>2. \A f \in [1 .. n -> Nat] : f \in Seq(Nat)
    OBVIOUS
  <2> QED BY <1>5, <2>1, <2>2
<1>7. Len(TimesOf(s)) = Len(s) /\ Len(SizesOf(s)) = Len(s)
  BY <1>1, <1>5, <1>6
<1> QED BY <1>2, <1>3, <1>4, <1>5, <1>6, <1>7

(* The totals of a list follow its additions and its removals.             *)
LEMMA TotalsOfAppend ==
  ASSUME NEW s \in Seq(Element), NEW ele \in Element
  PROVE  /\ TimeOf(Append(s, ele)) = TimeOf(s) + ele.time
         /\ SizeOf(Append(s, ele)) = SizeOf(s) + ele.size
<1> DEFINE t == Append(s, ele)
<1>1. /\ t \in Seq(Element) /\ Len(t) = Len(s) + 1 /\ Len(s) \in Nat
      /\ \A i \in 1 .. Len(s) : t[i] = s[i]
      /\ t[Len(s) + 1] = ele
  BY AppendProperties, LenProperties
<1> HIDE DEF t
<1>2. /\ \A i \in 1 .. Len(s) : i \in 1 .. Len(t)
      /\ Len(s) + 1 \in 1 .. Len(t)
  BY <1>1
<1>3. SumOf(TimesOf(t)) = SumOf(TimesOf(s)) + TimesOf(t)[Len(s) + 1]
  <2>1. \A i \in 1 .. Len(s) : TimesOf(t)[i] = TimesOf(s)[i]
    BY <1>1, <1>2, MeasuresType
  <2>2. /\ TimesOf(s) \in Seq(Nat) /\ TimesOf(t) \in Seq(Nat)
        /\ Len(TimesOf(t)) = Len(TimesOf(s)) + 1 /\ Len(TimesOf(s)) = Len(s)
    BY <1>1, MeasuresType
  <2> QED BY <2>1, <2>2, SumOfLonger
<1>4. SumOf(SizesOf(t)) = SumOf(SizesOf(s)) + SizesOf(t)[Len(s) + 1]
  <2>1. \A i \in 1 .. Len(s) : SizesOf(t)[i] = SizesOf(s)[i]
    BY <1>1, <1>2, MeasuresType
  <2>2. /\ SizesOf(s) \in Seq(Nat) /\ SizesOf(t) \in Seq(Nat)
        /\ Len(SizesOf(t)) = Len(SizesOf(s)) + 1 /\ Len(SizesOf(s)) = Len(s)
    BY <1>1, MeasuresType
  <2> QED BY <2>1, <2>2, SumOfLonger
<1>5. TimesOf(t)[Len(s) + 1] = ele.time /\ SizesOf(t)[Len(s) + 1] = ele.size
  BY <1>1, <1>2, MeasuresType
<1> QED BY <1>3, <1>4, <1>5, Zenon DEF TimeOf, SizeOf, TimesOf, SizesOf, t

(* The first element takes its time and its size with it.                  *)
LEMMA TotalsOfTail ==
  ASSUME NEW s \in Seq(Element), s # <<>>
  PROVE  /\ TimeOf(s) = Head(s).time + TimeOf(Tail(s))
         /\ SizeOf(s) = Head(s).size + SizeOf(Tail(s))
<1> DEFINE t == Tail(s)
<1>1. /\ t \in Seq(Element) /\ Len(s) = Len(t) + 1 /\ Len(t) \in Nat
      /\ \A i \in 1 .. Len(t) : t[i] = s[i+1]
      /\ s[1] = Head(s)
  BY HeadTailProperties, LenProperties
<1> HIDE DEF t
<1>2. /\ \A i \in 1 .. Len(t) : i + 1 \in 1 .. Len(s)
      /\ 1 \in 1 .. Len(s)
  BY <1>1
<1>3. SumOf(TimesOf(s)) = TimesOf(s)[1] + SumOf(TimesOf(t))
  <2>1. ASSUME NEW i \in 1 .. Len(t) PROVE TimesOf(s)[i+1] = TimesOf(t)[i]
    <3>1. i + 1 \in 1 .. Len(s) /\ s[i+1] = t[i]
      BY <1>1, <1>2
    <3>2. TimesOf(s)[i+1] = s[i+1].time
      BY <3>1, MeasuresType
    <3>3. TimesOf(t)[i] = t[i].time
      BY <1>1, MeasuresType
    <3> QED BY <3>1, <3>2, <3>3
  <2>2. /\ TimesOf(s) \in Seq(Nat) /\ TimesOf(t) \in Seq(Nat)
        /\ Len(TimesOf(s)) = Len(TimesOf(t)) + 1 /\ Len(TimesOf(t)) = Len(t)
    BY <1>1, MeasuresType
  <2> QED BY <2>1, <2>2, SumOfRest
<1>4. SumOf(SizesOf(s)) = SizesOf(s)[1] + SumOf(SizesOf(t))
  <2>1. ASSUME NEW i \in 1 .. Len(t) PROVE SizesOf(s)[i+1] = SizesOf(t)[i]
    <3>1. i + 1 \in 1 .. Len(s) /\ s[i+1] = t[i]
      BY <1>1, <1>2
    <3>2. SizesOf(s)[i+1] = s[i+1].size
      BY <3>1, MeasuresType
    <3>3. SizesOf(t)[i] = t[i].size
      BY <1>1, MeasuresType
    <3> QED BY <3>1, <3>2, <3>3
  <2>2. /\ SizesOf(s) \in Seq(Nat) /\ SizesOf(t) \in Seq(Nat)
        /\ Len(SizesOf(s)) = Len(SizesOf(t)) + 1 /\ Len(SizesOf(t)) = Len(t)
    BY <1>1, MeasuresType
  <2> QED BY <2>1, <2>2, SumOfRest
<1>5. TimesOf(s)[1] = Head(s).time /\ SizesOf(s)[1] = Head(s).size
  BY <1>1, <1>2, MeasuresType
<1> QED BY <1>3, <1>4, <1>5, Zenon DEF TimeOf, SizeOf, TimesOf, SizesOf, t

(* The totals are naturals, and the means of a list that is not empty are  *)
(* those of possible requests: a time of at least one tick and less than   *)
(* UINT64_MAX, a rate less than 10e32.                                     *)
LEMMA MeansType ==
  ASSUME NEW s \in Seq(Element)
  PROVE  /\ TimeOf(s) \in Nat /\ SizeOf(s) \in Nat
         /\ s = <<>> => TimeOf(s) = 0 /\ SizeOf(s) = 0
         /\ s # <<>> => /\ TimeOf(s) \div Len(s) \in Nat
                        /\ TimeOf(s) \div Len(s) >= 1
                        /\ TimeOf(s) \div Len(s) < UintMax
                        /\ Rate(SizeOf(s), TimeOf(s)) \in Nat
                        /\ Rate(SizeOf(s), TimeOf(s)) < UintMax
<1> DEFINE time == TimeOf(s)
           size == SizeOf(s)
           n == Len(s)
<1>1. time = SumOf(TimesOf(s)) /\ size = SumOf(SizesOf(s))
  BY Zenon DEF TimeOf, SizeOf, TimesOf, SizesOf
<1>2. n \in Nat /\ UintMax \in Nat /\ UintMax >= 1 /\ RateUnit \in Nat
  BY LenProperties, UintMaxAssumption, RateUnitAssumption
<1>3. time \in Nat /\ size \in Nat /\ (n = 0 => time = 0 /\ size = 0)
  BY <1>1, MeasuresType, SumBounds
<1>4. time >= n
  BY <1>1, MeasuresType, SumBounds
<1>5. time <= (UintMax - 1) * n
  <2>1. \A i \in 1 .. n : TimesOf(s)[i] * 1 <= UintMax - 1
    <3>1. \A i \in 1 .. n : TimesOf(s)[i] \in Nat /\ TimesOf(s)[i] < UintMax
      BY MeasuresType
    <3> QED BY <1>2, <3>1
  <2>2. UintMax - 1 \in Nat /\ 1 \in Nat
    BY <1>2
  <2>3. SumOf(TimesOf(s)) * 1 <= (UintMax - 1) * Len(TimesOf(s))
    BY <2>1, <2>2, MeasuresType, SumBounds
  <2>4. Len(TimesOf(s)) = n
    BY MeasuresType
  <2> QED BY <1>1, <1>3, <2>3, <2>4
<1>6. size * RateUnit <= (UintMax - 1) * n
  <2>1. \A i \in 1 .. n : SizesOf(s)[i] * RateUnit <= UintMax - 1
    <3>1. \A i \in 1 .. n : SizesOf(s)[i] * RateUnit < UintMax /\ SizesOf(s)[i] * RateUnit \in Nat
      BY <1>2, MeasuresType
    <3> QED BY <1>2, <3>1
  <2>2. UintMax - 1 \in Nat
    BY <1>2
  <2>3. SumOf(SizesOf(s)) * RateUnit <= (UintMax - 1) * Len(SizesOf(s))
    BY <1>2, <2>1, <2>2, MeasuresType, SumBounds
  <2>4. Len(SizesOf(s)) = n
    BY MeasuresType
  <2> QED BY <1>1, <2>3, <2>4
<1>7. s = <<>> <=> n = 0
  OBVIOUS
<1> HIDE DEF time, size, n
<1>8. ASSUME n # 0
      PROVE  /\ time \div n \in Nat /\ time \div n >= 1 /\ time \div n < UintMax
             /\ (size * RateUnit) \div time \in Nat
             /\ (size * RateUnit) \div time < UintMax
  <2> DEFINE b == UintMax - 1
             a == size * RateUnit
  <2>1. b \in Nat /\ a \in Nat /\ n >= 1 /\ time >= 1
    BY <1>2, <1>3, <1>4, <1>8
  <2>2. time <= b * n /\ a <= b * n
    BY <1>5, <1>6
  <2> HIDE DEF a, b
  <2>3. b * n <= b * time
    <3>1. PICK c \in Nat : time = n + c
      <4>1. time - n \in Nat /\ time = n + (time - n)
        BY <1>2, <1>3, <1>4
      <4> QED BY <4>1
    <3>2. b * (n + c) = b * n + b * c /\ b * c \in Nat /\ b * n \in Nat
      BY <1>2, <2>1
    <3> QED BY <3>1, <3>2
  <2>4. a <= b * time
    <3>1. b * n \in Nat /\ b * time \in Nat
      BY <1>2, <1>3, <2>1
    <3> QED BY <2>1, <2>2, <2>3, <3>1
  <2>5. time \div n \in Nat /\ time \div n >= 1 /\ time \div n <= b
    BY <1>2, <1>3, <1>4, <2>1, <2>2, DivisionBounds
  <2>6. a \div time \in Nat /\ a \div time <= b
    BY <1>3, <2>1, <2>4, DivisionBounds
  <2> QED BY <1>2, <2>5, <2>6 DEF a, b
<1>9. Rate(size, time) = (size * RateUnit) \div time
  BY DEF Rate
<1> QED BY <1>3, <1>7, <1>8, <1>9 DEF time, size, n

(* The window of a history.                                                *)
LEMMA WindowProperties ==
  ASSUME NEW s \in Seq(Element)
  PROVE  /\ WindowOf(s) \in Seq(Element)
         /\ Len(WindowOf(s)) = IF Len(s) <= Window THEN Len(s) ELSE Window
         /\ WindowOf(s) = <<>> <=> s = <<>>
<1>1. Len(s) \in Nat /\ Window \in Nat /\ Window >= 1 /\ \A i \in 1 .. Len(s) : s[i] \in Element
  BY LenProperties, WindowAssumption
<1>2. CASE Len(s) <= Window
  BY <1>2 DEF WindowOf
<1>3. CASE Len(s) > Window
  <2> DEFINE m == Len(s) - Window + 1
  <2>1. m \in Int /\ Len(s) \in Int /\ m <= Len(s) /\ Len(s) - m + 1 = Window
        /\ \A i \in m .. Len(s) : s[i] \in Element
    BY <1>1, <1>3
  <2>2. SubSeq(s, m, Len(s)) \in Seq(Element) /\ Len(SubSeq(s, m, Len(s))) = Window
    <3> HIDE DEF m
    <3> QED BY <2>1, SubSeqProperties
  <2>3. WindowOf(s) = SubSeq(s, m, Len(s))
    BY <1>1, <1>3 DEF WindowOf
  <2> HIDE DEF m
  <2>4. WindowOf(s) # <<>> /\ s # <<>>
    BY <1>1, <1>3, <2>2, <2>3
  <2> QED BY <1>1, <1>3, <2>2, <2>3, <2>4
<1> QED BY <1>1, <1>2, <1>3

(* A request enters the window; the oldest leaves a full one.              *)
LEMMA WindowOfAppend ==
  ASSUME NEW s \in Seq(Element), NEW ele \in Element
  PROVE  WindowOf(Append(s, ele)) =
           IF Len(WindowOf(s)) < Window THEN Append(WindowOf(s), ele)
           ELSE Tail(Append(WindowOf(s), ele))
<1> DEFINE t == Append(s, ele)
           n == Len(s)
<1>1. /\ n \in Nat /\ Window \in Nat /\ Window >= 1
      /\ t \in Seq(Element) /\ Len(t) = n + 1
  BY LenProperties, WindowAssumption, AppendProperties
<1>2. CASE n < Window
  <2>1. WindowOf(s) = s /\ WindowOf(t) = t
    BY <1>1, <1>2 DEF WindowOf
  <2> QED BY <1>2, <2>1
<1>3. CASE n = Window
  <2>1. WindowOf(s) = s /\ WindowOf(t) = SubSeq(t, 2, Len(t))
    BY <1>1, <1>3 DEF WindowOf
  <2>2. Tail(t) = SubSeq(t, 2, Len(t))
    BY <1>1, TailIsSubSeq
  <2> QED BY <1>3, <2>1, <2>2
<1>4. CASE n > Window
  <2> DEFINE m == n - Window + 1
             w == SubSeq(s, m, n)
  <2>1. WindowOf(s) = w /\ WindowOf(t) = SubSeq(t, m + 1, n + 1)
    BY <1>1, <1>4 DEF WindowOf
  <2>2. Len(w) = Window
    BY <1>1, <1>4, <2>1, WindowProperties
  <2>3. m \in 1 .. n /\ m \in 1 .. n + 1 /\ n \in m .. n /\ n + 1 \in m .. n + 1
    BY <1>1, <1>4
  <2>4. Append(w, ele) = SubSeq(t, m, n + 1)
    <3>1. SubSeq(t, m, n + 1) = SubSeq(t, m, n) \o <<t[n+1]>>
      <4>1. (n + 1) - 1 = n
        BY <1>1
      <4>2. SubSeq(t, m, n + 1) = SubSeq(t, m, (n + 1) - 1) \o <<t[n+1]>>
        <5> HIDE DEF t, m
        <5> QED BY <1>1, <2>3, SubSeqRecursiveSecond
      <4> QED BY <4>1, <4>2
    <3>2. SubSeq(t, m, n) = w
      <4>1. t = s \o <<ele>>
        BY AppendIsConcat
      <4>2. <<ele>> \in Seq(Element)
        OBVIOUS
      <4>3. SubSeq(s \o <<ele>>, m, n) = SubSeq(s, m, n)
        <5> HIDE DEF m
        <5> QED BY <2>3, <4>2, SubSeqOfConcat1
      <4> QED BY <4>1, <4>3
    <3>3. t[n+1] = ele
      BY AppendProperties
    <3>4. w \in Seq(Element)
      BY <2>1, WindowProperties
    <3>5. Append(w, ele) = w \o <<ele>>
      <4> HIDE DEF w
      <4> QED BY <3>4, AppendIsConcat
    <3> QED BY <3>1, <3>2, <3>3, <3>5
  <2>5. Tail(SubSeq(t, m, n + 1)) = SubSeq(t, m + 1, n + 1)
    <3> HIDE DEF t, m
    <3> QED BY <1>1, <2>3, HeadTailOfSubSeq
  <2>6. WindowOf(t) = Tail(Append(WindowOf(s), ele)) /\ Len(WindowOf(s)) = Window
    <3> HIDE DEF w, m, t
    <3> QED BY <2>1, <2>2, <2>4, <2>5
  <2>7. ~ (Window < Window)
    BY <1>1
  <2> HIDE DEF w, m
  <2> QED BY <2>6, <2>7
<1> QED BY <1>1, <1>2, <1>3, <1>4

-----------------------------------------------------------------------------
(* The inductive invariant.                                                *)

(* Queue q is that of a path which served s since it was last emptied.     *)
GoodQueue(q, s) ==
  /\ q \in Queue
  /\ q.time_list = WindowOf(s)
  /\ q.len = Len(q.time_list)
  /\ q.io_time_all = TimeOf(q.time_list)
  /\ q.io_size_all = SizeOf(q.time_list)
  /\ IF s = <<>>
     THEN q.io_time_avg = 0 /\ q.io_rate_avg = UintMax
     ELSE /\ q.io_time_avg = TimeOf(WindowOf(s)) \div Len(WindowOf(s))
          /\ q.io_rate_avg = Rate(SizeOf(WindowOf(s)), TimeOf(WindowOf(s)))

LastRate(s) == Rate(s[Len(s)].size, s[Len(s)].time)

QueuesFollow == \A p \in Paths, k \in Kinds : GoodQueue(queue[p][k], served[p][k])

RatesFollow ==
  \A p \in Paths, k \in Kinds : Measured(p, k) => rate[p][k] = LastRate(served[p][k])

Inv == TypeOK /\ QueuesFollow /\ RatesFollow

(* The rate of one request is a natural below 10e32.                       *)
LEMMA RateType ==
  ASSUME NEW ele \in Element
  PROVE  Rate(ele.size, ele.time) \in Nat /\ Rate(ele.size, ele.time) < UintMax
<1> DEFINE a == ele.size * RateUnit
<1>1. ele.time \in Nat /\ ele.time >= 1 /\ a \in Nat /\ a < UintMax /\ UintMax \in Nat
  <2>1. ele.time \in Times /\ ele.size \in Sizes
    BY DEF Element
  <2>2. ele.time \in Nat /\ ele.time >= 1 /\ ele.size \in Nat
    <3>1. \A t \in Times : t \in Nat /\ t >= 1
      BY MeasuresAssumption
    <3>2. \A n \in Sizes : n \in Nat
      BY MeasuresAssumption
    <3> HIDE DEF a
    <3> QED BY <2>1, <3>1, <3>2
  <2>3. a < UintMax
    BY <2>1, UintMaxIsLarge
  <2> QED BY <2>2, <2>3, RateUnitAssumption, UintMaxAssumption
<1>2. Rate(ele.size, ele.time) = a \div ele.time
  BY DEF Rate
<1> DEFINE t == ele.time
<1> HIDE DEF a, t
<1>3. a <= a * t
  <2>1. PICK c \in Nat : t = c + 1
    <3>1. t - 1 \in Nat /\ t = (t - 1) + 1
      BY <1>1 DEF t
    <3> QED BY <3>1
  <2>2. a * (c + 1) = a * c + a /\ a * c \in Nat
    BY <1>1
  <2> QED BY <1>1, <2>1, <2>2
<1>4. a \div t \in Nat /\ a \div t <= a
  BY <1>1, <1>3, DivisionBounds DEF t
<1> QED BY <1>1, <1>2, <1>4 DEF t

(* What update_iopath_detail does to a queue, field by field: the element  *)
(* joins it, the oldest leaves it, the averages are computed.              *)
LEMMA JoinedFields ==
  ASSUME NEW q \in Queue, NEW ele \in Element
  PROVE  /\ Joined(q, ele) \in Queue
         /\ Joined(q, ele).time_list = Append(q.time_list, ele)
         /\ Joined(q, ele).len = q.len
         /\ Joined(q, ele).io_time_all = q.io_time_all + ele.time
         /\ Joined(q, ele).io_size_all = q.io_size_all + ele.size
<1>1. ele.time \in Nat /\ ele.size \in Nat
  BY MeasuresAssumption DEF Element
<1>2. q.time_list \in Seq(Element) /\ q.io_time_all \in Nat /\ q.io_size_all \in Nat
  BY DEF Queue
<1> DEFINE list == Append(q.time_list, ele)
           x == q.io_time_all + ele.time
           y == q.io_size_all + ele.size
<1>3. list \in Seq(Element) /\ x \in Nat /\ y \in Nat
  BY <1>1, <1>2, AppendProperties
<1>4. Joined(q, ele) = [q EXCEPT !.time_list = list, !.io_time_all = x, !.io_size_all = y]
  BY DEF Joined
<1> HIDE DEF list, x, y
<1>5. /\ Joined(q, ele) \in Queue
      /\ Joined(q, ele).time_list = list /\ Joined(q, ele).len = q.len
      /\ Joined(q, ele).io_time_all = x /\ Joined(q, ele).io_size_all = y
  BY <1>3, <1>4 DEF Queue
<1> QED BY <1>5 DEF list, x, y

(* list_insert: a queue that is not full grows by one.                     *)
LEMMA GrownFields ==
  ASSUME NEW q \in Queue, q.len < Window
  PROVE  LET r == [q EXCEPT !.len = @ + 1]
         IN /\ r \in Queue /\ r.time_list = q.time_list /\ r.len = q.len + 1
            /\ r.io_time_all = q.io_time_all /\ r.io_size_all = q.io_size_all
<1>1. q.len + 1 \in 0 .. Window
  BY WindowAssumption DEF Queue
<1> QED BY <1>1 DEF Queue

(* list_insert: a full queue loses its first element.                      *)
LEMMA ShiftedFields ==
  ASSUME NEW q \in Queue, NEW a \in Nat, NEW b \in Nat, q.time_list # <<>>,
         a <= q.io_time_all, b <= q.io_size_all
  PROVE  LET r == [q EXCEPT !.time_list = Tail(@), !.io_time_all = @ - a,
                            !.io_size_all = @ - b]
         IN /\ r \in Queue /\ r.time_list = Tail(q.time_list) /\ r.len = q.len
            /\ r.io_time_all = q.io_time_all - a /\ r.io_size_all = q.io_size_all - b
<1> DEFINE list == Tail(q.time_list)
           x == q.io_time_all - a
           y == q.io_size_all - b
           r == [q EXCEPT !.time_list = Tail(@), !.io_time_all = @ - a, !.io_size_all = @ - b]
<1>1. q.time_list \in Seq(Element) /\ q.io_time_all \in Nat /\ q.io_size_all \in Nat
  BY DEF Queue
<1>2. list \in Seq(Element) /\ x \in Nat /\ y \in Nat
  BY <1>1, HeadTailProperties
<1>3. r = [q EXCEPT !.time_list = list, !.io_time_all = x, !.io_size_all = y]
  OBVIOUS
<1> HIDE DEF list, x, y, r
<1>4. /\ r \in Queue /\ r.time_list = list /\ r.len = q.len
      /\ r.io_time_all = x /\ r.io_size_all = y
  BY <1>2, <1>3 DEF Queue
<1> QED BY <1>4 DEF list, x, y, r

(* list_insert: the averages are taken of the totals.                      *)
LEMMA AveragedFields ==
  ASSUME NEW q \in Queue, q.io_time_all \div q.len \in Nat,
         Rate(q.io_size_all, q.io_time_all) \in Nat
  PROVE  LET r == Averaged(q)
         IN /\ r \in Queue /\ r.time_list = q.time_list /\ r.len = q.len
            /\ r.io_time_all = q.io_time_all /\ r.io_size_all = q.io_size_all
            /\ r.io_time_avg = q.io_time_all \div q.len
            /\ r.io_rate_avg = Rate(q.io_size_all, q.io_time_all)
<1> DEFINE x == q.io_time_all \div q.len
           y == Rate(q.io_size_all, q.io_time_all)
           r == Averaged(q)
<1>1. r = [q EXCEPT !.io_time_avg = x, !.io_rate_avg = y] /\ x \in Nat /\ y \in Nat
  BY DEF Averaged
<1> HIDE DEF x, y, r
<1>2. /\ r \in Queue /\ r.time_list = q.time_list /\ r.len = q.len
      /\ r.io_time_all = q.io_time_all /\ r.io_size_all = q.io_size_all
      /\ r.io_time_avg = x /\ r.io_rate_avg = y
  BY <1>1 DEF Queue
<1> QED BY <1>2 DEF x, y, r

(* An emptied queue is that of a path which served nothing.                *)
LEMMA EmptiedIsGood ==
  ASSUME NEW q \in Queue
  PROVE  GoodQueue(QueueInit(q), <<>>)
<1>1. <<>> \in Seq(Element) /\ Window \in Nat /\ UintMax \in Nat /\ Len(<<>>) = 0
  BY WindowAssumption, UintMaxAssumption
<1>2. WindowOf(<<>>) = <<>> /\ TimeOf(<<>>) = 0 /\ SizeOf(<<>>) = 0
  BY <1>1, MeansType, WindowProperties
<1> DEFINE r == QueueInit(q)
<1>3. /\ r.time_list = <<>> /\ r.len = 0 /\ r.io_time_all = 0 /\ r.io_size_all = 0
      /\ r.io_time_avg = 0 /\ r.io_rate_avg = UintMax
  BY DEF QueueInit, Queue
<1>4. r \in Queue
  <2>1. 0 \in 0 .. Window /\ 0 \in Nat
    BY <1>1
  <2> QED BY <1>1, <2>1 DEF QueueInit, Queue
<1> HIDE DEF r
<1>5. GoodQueue(r, <<>>)
  BY <1>1, <1>2, <1>3, <1>4 DEF GoodQueue
<1> QED BY <1>5 DEF r

(* update_iopath_detail keeps the queue that of its history.               *)
LEMMA InsertIsGood ==
  ASSUME NEW q, NEW s \in Seq(Element), NEW ele \in Element, GoodQueue(q, s)
  PROVE  GoodQueue(Insert(q, ele), Append(s, ele))
<1> DEFINE w == WindowOf(s)
           longer == Append(w, ele)
           t == Append(s, ele)
           new == WindowOf(t)
<1>1. /\ q \in Queue /\ w \in Seq(Element) /\ Window \in Nat /\ Window >= 1
      /\ t \in Seq(Element) /\ t # <<>>
      /\ Len(w) = IF Len(s) <= Window THEN Len(s) ELSE Window
      /\ Len(s) \in Nat
  BY WindowProperties, AppendProperties, WindowAssumption, LenProperties DEF GoodQueue
<1>2. /\ longer \in Seq(Element) /\ Len(longer) = Len(w) + 1 /\ longer # <<>>
      /\ Tail(longer) \in Seq(Element) /\ Len(Tail(longer)) = Len(w)
      /\ Head(longer) \in Element /\ Len(w) \in Nat
  BY <1>1, AppendProperties, HeadTailProperties, LenProperties
<1>3. /\ TimeOf(longer) = TimeOf(w) + ele.time /\ SizeOf(longer) = SizeOf(w) + ele.size
      /\ TimeOf(longer) = Head(longer).time + TimeOf(Tail(longer))
      /\ SizeOf(longer) = Head(longer).size + SizeOf(Tail(longer))
      /\ TimeOf(Tail(longer)) \in Nat /\ SizeOf(Tail(longer)) \in Nat
      /\ TimeOf(longer) \in Nat /\ SizeOf(longer) \in Nat
      /\ Head(longer).time \in Nat /\ Head(longer).size \in Nat
  <2>1. \A e \in Element : e.time \in Nat /\ e.size \in Nat
    BY MeasuresAssumption DEF Element
  <2> HIDE DEF w, longer
  <2>2. /\ TimeOf(longer) = Head(longer).time + TimeOf(Tail(longer))
        /\ SizeOf(longer) = Head(longer).size + SizeOf(Tail(longer))
    BY <1>2, TotalsOfTail
  <2>3. TimeOf(longer) = TimeOf(w) + ele.time /\ SizeOf(longer) = SizeOf(w) + ele.size
    BY <1>1, TotalsOfAppend DEF longer
  <2>4. /\ TimeOf(Tail(longer)) \in Nat /\ SizeOf(Tail(longer)) \in Nat
        /\ TimeOf(longer) \in Nat /\ SizeOf(longer) \in Nat
    BY <1>2, MeansType
  <2> QED BY <1>2, <2>1, <2>2, <2>3, <2>4
<1>4. new = IF Len(w) < Window THEN longer ELSE Tail(longer)
  BY WindowOfAppend
<1>5. new \in Seq(Element) /\ new # <<>> /\ Len(new) \in 0 .. Window
  <2>1. Len(t) \in Nat
    BY <1>1, LenProperties
  <2> HIDE DEF t
  <2>2. /\ WindowOf(t) \in Seq(Element) /\ WindowOf(t) # <<>>
        /\ Len(WindowOf(t)) = IF Len(t) <= Window THEN Len(t) ELSE Window
    BY <1>1, WindowProperties
  <2>3. Len(WindowOf(t)) \in 0 .. Window
    BY <1>1, <2>1, <2>2
  <2> QED BY <2>2, <2>3
<1>6. /\ TimeOf(new) \in Nat /\ SizeOf(new) \in Nat
      /\ TimeOf(new) \div Len(new) \in Nat /\ Rate(SizeOf(new), TimeOf(new)) \in Nat
  <2> HIDE DEF new
  <2> QED BY <1>5, MeansType
<1>7. /\ q.time_list = w /\ q.len = Len(w) /\ q.io_time_all = TimeOf(w)
      /\ q.io_size_all = SizeOf(w)
  BY DEF GoodQueue
<1> DEFINE j == Joined(q, ele)
<1>8. /\ j \in Queue /\ j.time_list = longer /\ j.len = Len(w)
      /\ j.io_time_all = TimeOf(longer) /\ j.io_size_all = SizeOf(longer)
  <2>1. /\ j \in Queue /\ j.time_list = Append(q.time_list, ele) /\ j.len = q.len
        /\ j.io_time_all = q.io_time_all + ele.time
        /\ j.io_size_all = q.io_size_all + ele.size
    BY <1>1, JoinedFields
  <2> HIDE DEF j, w
  <2>2. j.time_list = longer
    BY <1>7, <2>1
  <2> HIDE DEF longer
  <2>3. j.io_time_all = TimeOf(longer) /\ j.io_size_all = SizeOf(longer)
    BY <1>3, <1>7, <2>1
  <2> QED BY <1>7, <2>1, <2>2, <2>3
<1>9. /\ q.len < Window => Insert(q, ele) = Averaged([j EXCEPT !.len = @ + 1])
      /\ ~ (q.len < Window)
           => Insert(q, ele) = Averaged([j EXCEPT !.time_list = Tail(@),
                                           !.io_time_all = @ - Head(j.time_list).time,
                                           !.io_size_all = @ - Head(j.time_list).size])
  BY Zenon DEF Insert
<1> HIDE DEF w, longer, new, j
<1>10. PICK l \in Queue : /\ Insert(q, ele) = Averaged(l)
                          /\ l.time_list = new /\ l.len = Len(new)
                          /\ l.io_time_all = TimeOf(new) /\ l.io_size_all = SizeOf(new)
  <2>1. CASE Len(w) < Window
    <3> DEFINE l == [j EXCEPT !.len = @ + 1]
    <3>1. /\ l \in Queue /\ l.time_list = longer /\ l.len = Len(w) + 1
          /\ l.io_time_all = TimeOf(longer) /\ l.io_size_all = SizeOf(longer)
      BY <1>8, <2>1, GrownFields
    <3>2. Insert(q, ele) = Averaged(l)
      BY <1>7, <1>9, <2>1
    <3> HIDE DEF l
    <3>3. new = longer
      BY <1>4, <2>1
    <3> QED BY <1>2, <3>1, <3>2, <3>3
  <2>2. CASE ~ (Len(w) < Window)
    <3> DEFINE a == Head(j.time_list).time
               b == Head(j.time_list).size
               l == [j EXCEPT !.time_list = Tail(@), !.io_time_all = @ - a,
                              !.io_size_all = @ - b]
    <3>1. /\ a \in Nat /\ b \in Nat /\ a <= j.io_time_all /\ b <= j.io_size_all
          /\ j.io_time_all - a = TimeOf(Tail(longer))
          /\ j.io_size_all - b = SizeOf(Tail(longer))
      BY <1>3, <1>8
    <3>2. Insert(q, ele) = Averaged(l)
      BY <1>7, <1>9, <2>2
    <3> HIDE DEF a, b
    <3>3. /\ l \in Queue /\ l.time_list = Tail(longer) /\ l.len = Len(w)
          /\ l.io_time_all = TimeOf(Tail(longer)) /\ l.io_size_all = SizeOf(Tail(longer))
      <4>1. j \in Queue /\ j.time_list # <<>>
        BY <1>2, <1>8
      <4>2. /\ l \in Queue /\ l.time_list = Tail(j.time_list) /\ l.len = j.len
            /\ l.io_time_all = j.io_time_all - a /\ l.io_size_all = j.io_size_all - b
        BY <3>1, <4>1, ShiftedFields
      <4> HIDE DEF l
      <4> QED BY <1>8, <3>1, <4>2
    <3> HIDE DEF l
    <3>4. new = Tail(longer)
      BY <1>4, <2>2
    <3> QED BY <1>2, <3>2, <3>3, <3>4
  <2> QED BY <2>1, <2>2
<1> DEFINE r == Averaged(l)
<1>11. /\ r \in Queue /\ r.time_list = new /\ r.len = Len(new)
       /\ r.io_time_all = TimeOf(new) /\ r.io_size_all = SizeOf(new)
       /\ r.io_time_avg = TimeOf(new) \div Len(new)
       /\ r.io_rate_avg = Rate(SizeOf(new), TimeOf(new))
  BY <1>6, <1>10, AveragedFields
<1> HIDE DEF r
<1>12. GoodQueue(r, t)
  <2>1. new = WindowOf(t)
    BY DEF new
  <2> HIDE DEF t
  <2> QED BY <1>1, <1>11, <2>1 DEF GoodQueue
<1> QED BY <1>10, <1>12 DEF r

(* What one measured request, one emptied path and the reset leave.        *)
LEMMA UpdateKeeps ==
  ASSUME Inv, NEW p \in Paths, NEW k \in Kinds, NEW ele \in Element, UpdateIopath(p, k, ele),
         served' = [served EXCEPT ![p][k] = Append(@, ele)]
  PROVE  /\ queue' \in [Paths -> [Kinds -> Queue]]
         /\ rate' \in [Paths -> [Kinds -> Nat]]
         /\ served' \in [Paths -> [Kinds -> Seq(Element)]]
         /\ QueuesFollow' /\ RatesFollow'
<1>1. /\ queue \in [Paths -> [Kinds -> Queue]] /\ rate \in [Paths -> [Kinds -> Nat]]
      /\ served \in [Paths -> [Kinds -> Seq(Element)]]
  BY DEF Inv, TypeOK
<1> DEFINE q == Insert(queue[p][k], ele)
           x == Rate(ele.size, ele.time)
           s == Append(served[p][k], ele)
<1>2. queue' = [queue EXCEPT ![p][k] = q] /\ rate' = [rate EXCEPT ![p][k] = x]
      /\ served' = [served EXCEPT ![p][k] = s]
  BY DEF UpdateIopath
<1>3. GoodQueue(q, s)
  <2>1. served[p][k] \in Seq(Element) /\ GoodQueue(queue[p][k], served[p][k])
    BY <1>1 DEF Inv, QueuesFollow
  <2> QED BY <2>1, InsertIsGood
<1>4. x \in Nat /\ s \in Seq(Element) /\ s # <<>> /\ LastRate(s) = x
  <2>1. x \in Nat
    BY RateType
  <2>2. served[p][k] \in Seq(Element)
    BY <1>1
  <2>3. /\ s \in Seq(Element) /\ s # <<>> /\ Len(s) = Len(served[p][k]) + 1
        /\ s[Len(served[p][k]) + 1] = ele
    BY <2>2, AppendProperties
  <2>4. LastRate(s) = x
    BY <2>3, Zenon DEF LastRate
  <2> QED BY <2>1, <2>3, <2>4
<1>5. q \in Queue
  BY <1>3 DEF GoodQueue
<1> HIDE DEF q, x, s
<1>6. /\ queue' \in [Paths -> [Kinds -> Queue]] /\ rate' \in [Paths -> [Kinds -> Nat]]
      /\ served' \in [Paths -> [Kinds -> Seq(Element)]]
  BY <1>1, <1>2, <1>4, <1>5
<1>7. ASSUME NEW b \in Paths, NEW c \in Kinds
      PROVE  /\ GoodQueue(queue'[b][c], served'[b][c])
             /\ served'[b][c] # <<>> => rate'[b][c] = LastRate(served'[b][c])
  <2>1. CASE b = p /\ c = k
    <3>1. queue'[b][c] = q /\ served'[b][c] = s /\ rate'[b][c] = x
      BY <1>1, <1>2, <2>1
    <3> QED BY <1>3, <1>4, <3>1
  <2>2. CASE ~ (b = p /\ c = k)
    <3>1. /\ queue'[b][c] = queue[b][c] /\ served'[b][c] = served[b][c]
          /\ rate'[b][c] = rate[b][c]
      BY <1>1, <1>2, <2>2
    <3> QED BY <3>1 DEF Inv, QueuesFollow, RatesFollow, Measured
  <2> QED BY <2>1, <2>2
<1> QED BY <1>6, <1>7 DEF QueuesFollow, RatesFollow, Measured

(* Emptying the queues of some paths keeps the invariant's other parts.    *)
LEMMA EmptyingKeeps ==
  ASSUME Inv, NEW S \in SUBSET Paths,
         queue' = [p \in Paths |-> IF p \in S THEN [k \in Kinds |-> QueueInit(queue[p][k])]
                                   ELSE queue[p]],
         served' = [p \in Paths |-> IF p \in S THEN [k \in Kinds |-> <<>>] ELSE served[p]],
         rate' \in [Paths -> [Kinds -> Nat]],
         \A p \in Paths : p \notin S => rate'[p] = rate[p]
  PROVE  /\ queue' \in [Paths -> [Kinds -> Queue]]
         /\ served' \in [Paths -> [Kinds -> Seq(Element)]]
         /\ QueuesFollow' /\ RatesFollow'
<1>1. /\ queue \in [Paths -> [Kinds -> Queue]] /\ rate \in [Paths -> [Kinds -> Nat]]
      /\ served \in [Paths -> [Kinds -> Seq(Element)]]
  BY DEF Inv, TypeOK
<1>2. ASSUME NEW b \in Paths, NEW c \in Kinds
      PROVE  /\ queue'[b][c] \in Queue /\ served'[b][c] \in Seq(Element)
             /\ GoodQueue(queue'[b][c], served'[b][c])
             /\ served'[b][c] # <<>> => rate'[b][c] = LastRate(served'[b][c])
  <2>1. CASE b \in S
    <3>1. queue'[b][c] = QueueInit(queue[b][c]) /\ served'[b][c] = <<>>
      BY <2>1
    <3>2. queue[b][c] \in Queue /\ <<>> \in Seq(Element)
      BY <1>1
    <3>3. GoodQueue(queue'[b][c], served'[b][c])
      BY <3>1, <3>2, EmptiedIsGood
    <3> QED BY <3>1, <3>2, <3>3 DEF GoodQueue
  <2>2. CASE b \notin S
    <3>1. /\ queue'[b][c] = queue[b][c] /\ served'[b][c] = served[b][c]
          /\ rate'[b][c] = rate[b][c]
      BY <2>2
    <3>2. queue[b][c] \in Queue /\ served[b][c] \in Seq(Element)
      BY <1>1
    <3> QED BY <3>1, <3>2 DEF Inv, QueuesFollow, RatesFollow, Measured
  <2> QED BY <2>1, <2>2
<1>3. queue' \in [Paths -> [Kinds -> Queue]]
  <2>1. \A b \in Paths : queue'[b] \in [Kinds -> Queue]
    <3> TAKE b \in Paths
    <3>1. queue'[b] = [c \in Kinds |-> queue'[b][c]]
      BY <1>1
    <3> QED BY <1>2, <3>1
  <2> QED BY <2>1
<1>4. served' \in [Paths -> [Kinds -> Seq(Element)]]
  <2>1. \A b \in Paths : served'[b] \in [Kinds -> Seq(Element)]
    <3> TAKE b \in Paths
    <3>1. served'[b] = [c \in Kinds |-> served'[b][c]]
      BY <1>1
    <3> QED BY <1>2, <3>1
  <2> QED BY <2>1
<1> QED BY <1>2, <1>3, <1>4 DEF QueuesFollow, RatesFollow, Measured

(* Queues that were just allocated are the windows of nothing.             *)
LEMMA InitInv == Init => Inv
<1> SUFFICES ASSUME Init PROVE Inv
  OBVIOUS
<1>1. Calloc \in Queue
  <2>1. Window \in Nat /\ 0 \in 0 .. Window /\ 0 \in Nat /\ <<>> \in Seq(Element)
    BY WindowAssumption
  <2> QED BY <2>1 DEF Calloc, Queue
<1> DEFINE q == QueueInit(Calloc)
<1>2. GoodQueue(q, <<>>) /\ q \in Queue
  BY <1>1, EmptiedIsGood DEF GoodQueue
<1> HIDE DEF q
<1>3. /\ queue = [p \in Paths |-> [k \in Kinds |-> q]]
      /\ served = [p \in Paths |-> [k \in Kinds |-> <<>>]]
      /\ rate = [p \in Paths |-> [k \in Kinds |-> UintMax]]
  BY DEF Init, Everywhere, q
<1>4. TypeOK
  <2>1. UintMax \in Nat /\ <<>> \in Seq(Element) /\ 0 \in 0 .. MaxServed
    BY UintMaxAssumption, BoundsAssumption
  <2> QED BY <1>2, <1>3, <2>1 DEF Init, TypeOK
<1>5. QueuesFollow
  BY <1>2, <1>3 DEF QueuesFollow
<1>6. RatesFollow
  BY <1>3 DEF RatesFollow, Measured
<1> QED BY <1>4, <1>5, <1>6 DEF Inv

(* Every step preserves the invariant.                                     *)
LEMMA NextInv == Inv /\ [Next]_vars => Inv'
<1> SUFFICES ASSUME Inv, [Next]_vars PROVE Inv'
  OBVIOUS
<1>0. /\ algorithm \in Algorithms /\ available \in [Paths -> BOOLEAN]
      /\ queue \in [Paths -> [Kinds -> Queue]] /\ rate \in [Paths -> [Kinds -> Nat]]
      /\ flight \in [Requests -> {Idle} \cup [path : Paths, kind : Kinds]]
      /\ served \in [Paths -> [Kinds -> Seq(Element)]]
      /\ total \in 0 .. MaxServed /\ QueuesFollow /\ RatesFollow
  BY DEF Inv, TypeOK
<1>1. ASSUME UNCHANGED <<queue, rate, served>>
      PROVE  /\ queue' \in [Paths -> [Kinds -> Queue]] /\ rate' \in [Paths -> [Kinds -> Nat]]
             /\ served' \in [Paths -> [Kinds -> Seq(Element)]]
             /\ QueuesFollow' /\ RatesFollow'
  BY <1>0, <1>1 DEF QueuesFollow, RatesFollow, Measured
<1>2. ASSUME NEW r \in Requests, NEW k \in Kinds, Submit(r, k) PROVE Inv'
  <2>1. flight' \in [Requests -> {Idle} \cup [path : Paths, kind : Kinds]]
    <3> DEFINE c == FindIopath(available, k)
    <3>1. flight' = [flight EXCEPT ![r] = [path |-> c, kind |-> k]] /\ c \in Paths
      BY <1>2 DEF Submit
    <3> HIDE DEF c
    <3> QED BY <1>0, <3>1
  <2>2. UNCHANGED <<algorithm, available, queue, rate, served, total>>
    BY <1>2 DEF Submit
  <2> QED BY <1>0, <1>1, <2>1, <2>2 DEF Inv, TypeOK
<1>3. ASSUME NEW r \in Requests, Succeed(r) PROVE Inv'
  <2>1. flight[r] \in [path : Paths, kind : Kinds]
    BY <1>0, <1>3 DEF Succeed
  <2> DEFINE p == flight[r].path
             k == flight[r].kind
  <2>2. p \in Paths /\ k \in Kinds
    BY <2>1
  <2>3. PICK ele \in Element : /\ UpdateIopath(p, k, ele)
                               /\ served' = [served EXCEPT ![p][k] = Append(@, ele)]
    BY <1>3 DEF Succeed
  <2> HIDE DEF p, k
  <2>4. /\ queue' \in [Paths -> [Kinds -> Queue]] /\ rate' \in [Paths -> [Kinds -> Nat]]
        /\ served' \in [Paths -> [Kinds -> Seq(Element)]] /\ QueuesFollow' /\ RatesFollow'
    BY <2>2, <2>3, UpdateKeeps
  <2>5. flight' \in [Requests -> {Idle} \cup [path : Paths, kind : Kinds]]
    BY <1>0, <1>3 DEF Succeed
  <2>6. total' \in 0 .. MaxServed
    BY <1>0, <1>3, BoundsAssumption DEF Succeed
  <2>7. UNCHANGED <<algorithm, available>>
    BY <1>3 DEF Succeed
  <2> QED BY <1>0, <2>4, <2>5, <2>6, <2>7 DEF Inv, TypeOK
<1>4. ASSUME NEW r \in Requests, SucceedUnmeasured(r) PROVE Inv'
  <2>1. UNCHANGED <<algorithm, available, queue, rate, served, total>>
    BY <1>4 DEF SucceedUnmeasured
  <2>2. flight' \in [Requests -> {Idle} \cup [path : Paths, kind : Kinds]]
    BY <1>0, <1>4 DEF SucceedUnmeasured
  <2> QED BY <1>0, <1>1, <2>1, <2>2 DEF Inv, TypeOK
<1>5. ASSUME NEW r \in Requests, Fail(r) PROVE Inv'
  <2>1. flight[r] \in [path : Paths, kind : Kinds]
    BY <1>0, <1>5 DEF Fail
  <2> DEFINE avail == [available EXCEPT ![flight[r].path] = FALSE]
             p == FindIopath(avail, flight[r].kind)
  <2>2. p \in Paths /\ available' = avail /\ flight' = [flight EXCEPT ![r].path = p]
    BY <1>5 DEF Fail
  <2>3. avail \in [Paths -> BOOLEAN]
    BY <1>0, <2>1
  <2>4. UNCHANGED <<algorithm, queue, rate, served, total>>
    BY <1>5 DEF Fail
  <2> HIDE DEF p, avail
  <2>5. flight' \in [Requests -> {Idle} \cup [path : Paths, kind : Kinds]]
    <3>1. [flight[r] EXCEPT !.path = p] \in [path : Paths, kind : Kinds]
      BY <2>1, <2>2
    <3>2. flight' = [flight EXCEPT ![r] = [flight[r] EXCEPT !.path = p]]
      BY <2>2
    <3> QED BY <1>0, <3>1, <3>2
  <2> QED BY <1>0, <1>1, <2>2, <2>3, <2>4, <2>5 DEF Inv, TypeOK
<1>6. ASSUME NEW p \in Paths, IopathInit(p) PROVE Inv'
  <2>0. PICK S \in SUBSET Paths : S = {p}
    OBVIOUS
  <2>1. /\ queue' = [b \in Paths |-> IF b \in S THEN [k \in Kinds |-> QueueInit(queue[b][k])]
                                     ELSE queue[b]]
        /\ served' = [b \in Paths |-> IF b \in S THEN [k \in Kinds |-> <<>>] ELSE served[b]]
    BY <1>0, <1>6, <2>0 DEF IopathInit
  <2>2. /\ rate' \in [Paths -> [Kinds -> Nat]]
        /\ \A b \in Paths : b \notin S => rate'[b] = rate[b]
    BY <1>0, <1>6, <2>0, UintMaxAssumption DEF IopathInit
  <2>3. /\ queue' \in [Paths -> [Kinds -> Queue]]
        /\ served' \in [Paths -> [Kinds -> Seq(Element)]] /\ QueuesFollow' /\ RatesFollow'
    BY <2>1, <2>2, EmptyingKeeps
  <2>4. available' \in [Paths -> BOOLEAN] /\ UNCHANGED <<algorithm, flight, total>>
    BY <1>0, <1>6 DEF IopathInit
  <2> QED BY <1>0, <2>2, <2>3, <2>4 DEF Inv, TypeOK
<1>7. ASSUME Reset PROVE Inv'
  <2>1. PICK S \in SUBSET Paths : S = Paths
    OBVIOUS
  <2>2. /\ queue' = [b \in Paths |-> IF b \in S THEN [k \in Kinds |-> QueueInit(queue[b][k])]
                                     ELSE queue[b]]
        /\ served' = [b \in Paths |-> IF b \in S THEN [k \in Kinds |-> <<>>]
                                      ELSE served[b]]
    BY <1>0, <1>7, <2>1 DEF Reset, Everywhere
  <2>3. /\ rate' \in [Paths -> [Kinds -> Nat]]
        /\ \A b \in Paths : b \notin S => rate'[b] = rate[b]
    BY <1>0, <1>7 DEF Reset
  <2>4. /\ queue' \in [Paths -> [Kinds -> Queue]]
        /\ served' \in [Paths -> [Kinds -> Seq(Element)]] /\ QueuesFollow' /\ RatesFollow'
    BY <2>2, <2>3, EmptyingKeeps
  <2>5. UNCHANGED <<algorithm, available, flight, total>>
    BY <1>7 DEF Reset
  <2> QED BY <1>0, <2>3, <2>4, <2>5 DEF Inv, TypeOK
<1>8. CASE UNCHANGED vars
  BY <1>0, <1>1, <1>8 DEF vars, Inv, TypeOK
<1> QED BY <1>2, <1>3, <1>4, <1>5, <1>6, <1>7, <1>8 DEF Next

(* Hence the invariant holds of every reachable state.                     *)
THEOREM Invariance == Spec => []Inv
<1>1. Init => Inv
  BY InitInv
<1>2. Inv /\ [Next]_vars => Inv'
  BY NextInv
<1> QED BY <1>1, <1>2, PTL DEF Spec

(* Queues, rates and histories keep their types; a queue never lists more  *)
(* than Window requests.                                                   *)
THEOREM TypeCorrect == Spec => []TypeOK
<1>1. Inv => TypeOK
  BY DEF Inv
<1> QED BY <1>1, Invariance, PTL

-----------------------------------------------------------------------------
(* What the selectors are given, and what they make of it.                 *)

(* The averages of a path are those of its last Window requests of the     *)
(* kind since it was last emptied (update_iopath_detail).                  *)
THEOREM AveragesFollowWindow == Spec => []AveragesAreRecent
<1>1. Inv => AveragesAreRecent
  <2> SUFFICES ASSUME Inv, NEW p \in Paths, NEW k \in Kinds
               PROVE  LET s == Recent(p, k)
                      IN IF Measured(p, k)
                         THEN /\ queue[p][k].io_time_avg = TimeOf(s) \div Len(s)
                              /\ queue[p][k].io_rate_avg = Rate(SizeOf(s), TimeOf(s))
                         ELSE /\ queue[p][k].io_time_avg = 0
                              /\ queue[p][k].io_rate_avg = UintMax
    BY DEF AveragesAreRecent
  <2>1. GoodQueue(queue[p][k], served[p][k])
    BY DEF Inv, QueuesFollow
  <2> QED BY <2>1, Zenon DEF GoodQueue, Measured, Recent
<1> QED BY <1>1, Invariance, PTL

(* The measures of a measured path are those of its recent requests, whose *)
(* mean time is between one tick and UINT64_MAX and whose rates are below  *)
(* 10e32; those of a path not measured are the initial ones.               *)
LEMMA MeasuresOf ==
  ASSUME Inv, NEW p \in Paths, NEW k \in Kinds
  PROVE  /\ queue[p][k].io_time_avg \in Nat /\ queue[p][k].io_rate_avg \in Nat
         /\ rate[p][k] \in Nat
         /\ Measured(p, k) =>
              /\ queue[p][k].io_time_avg = TimeOf(Recent(p, k)) \div Len(Recent(p, k))
              /\ queue[p][k].io_rate_avg = Rate(SizeOf(Recent(p, k)), TimeOf(Recent(p, k)))
              /\ queue[p][k].io_time_avg >= 1 /\ queue[p][k].io_time_avg < UintMax
              /\ queue[p][k].io_rate_avg < UintMax
              /\ rate[p][k] = LastRate(served[p][k]) /\ rate[p][k] < UintMax
         /\ ~Measured(p, k) => /\ queue[p][k].io_time_avg = 0
                               /\ queue[p][k].io_rate_avg = UintMax
<1> DEFINE s == served[p][k]
           w == WindowOf(s)
           q == queue[p][k]
<1>1. s \in Seq(Element) /\ q \in Queue /\ rate[p][k] \in Nat /\ GoodQueue(q, s)
  BY DEF Inv, TypeOK, QueuesFollow
<1>2. q.io_time_avg \in Nat /\ q.io_rate_avg \in Nat
  BY <1>1 DEF Queue
<1>3. Recent(p, k) = w /\ (Measured(p, k) <=> s # <<>>)
  BY DEF Recent, Measured
<1>4. w \in Seq(Element) /\ (s # <<>> => w # <<>>)
  BY <1>1, WindowProperties
<1>5. s # <<>> => rate[p][k] = LastRate(s)
  BY DEF Inv, RatesFollow, Measured
<1>6. s # <<>> => LastRate(s) < UintMax
  <2> SUFFICES ASSUME s # <<>> PROVE LastRate(s) < UintMax
    OBVIOUS
  <2>1. s[Len(s)] \in Element
    BY <1>1, LenProperties
  <2> QED BY <2>1, RateType DEF LastRate
<1> HIDE DEF s, w, q
<1>7. s # <<>> => /\ TimeOf(w) \div Len(w) >= 1 /\ TimeOf(w) \div Len(w) < UintMax
                  /\ Rate(SizeOf(w), TimeOf(w)) < UintMax
  BY <1>4, MeansType
<1>8. /\ s # <<>> => /\ q.io_time_avg = TimeOf(w) \div Len(w)
                     /\ q.io_rate_avg = Rate(SizeOf(w), TimeOf(w))
      /\ s = <<>> => q.io_time_avg = 0 /\ q.io_rate_avg = UintMax
  BY <1>1, Zenon DEF GoodQueue, w
<1> QED BY <1>1, <1>2, <1>3, <1>5, <1>6, <1>7, <1>8 DEF q, s

(* An available path that served nothing is preferred to every path that   *)
(* did, by the service-time selector, and by the average-rate selector     *)
(* while the head of the list is up.                                       *)
THEOREM UnmeasuredAreServed == Spec => []UnmeasuredFirst
<1>1. Inv => UnmeasuredFirst
  <2> SUFFICES ASSUME Inv, NEW k \in Kinds,
                      algorithm = "TIME" \/ (algorithm = "AVG_RATE" /\ available[0]),
                      NEW p \in Paths, available[p], ~Measured(p, k)
               PROVE  /\ FindIopath(available, k) \in Paths
                      /\ available[FindIopath(available, k)]
                      /\ ~Measured(FindIopath(available, k), k)
    BY DEF UnmeasuredFirst
  <2> DEFINE c == FindIopath(available, k)
             cost == [b \in Paths |-> queue[b][k].io_time_avg]
             speed == [b \in Paths |-> queue[b][k].io_rate_avg]
  <2>2. /\ available \in [Paths -> BOOLEAN] /\ cost \in [Paths -> Nat]
        /\ speed \in [Paths -> Nat]
    BY MeasuresOf DEF Inv, TypeOK
  <2>3. UintMax \in Nat /\ UintMax >= 1
    BY UintMaxAssumption
  <2>4. CASE algorithm = "TIME"
    <3>1. c = MinScan(available, cost)
      BY <2>4 DEF FindIopath
    <3>2. c = CheapestPath(available, cost)
      BY <2>2, <3>1, MinScanCorrect
    <3>3. cost[p] = 0
      BY MeasuresOf
    <3>4. p \in Eligible(available, cost) /\ Eligible(available, cost) \in SUBSET Paths
      BY <2>3, <3>3 DEF Eligible
    <3> HIDE DEF c, cost
    <3>5. c = FirstCheapest(Eligible(available, cost), cost)
      BY <3>2, <3>4 DEF CheapestPath
    <3>6. c \in Paths /\ available[c] /\ cost[c] <= cost[p]
      <4>1. /\ c \in Eligible(available, cost)
            /\ cost[c] < cost[p] \/ (cost[c] = cost[p] /\ c <= p)
        BY <2>2, <3>4, <3>5, FirstCheapestExists
      <4>2. cost[c] \in Nat /\ cost[p] \in Nat
        BY <2>2, <3>4, <4>1
      <4>3. available[c]
        BY <4>1 DEF Eligible
      <4> QED BY <3>4, <4>1, <4>2, <4>3
    <3>7. cost[c] = queue[c][k].io_time_avg
      BY <3>6 DEF cost
    <3>8. ~Measured(c, k)
      BY <2>2, <3>3, <3>6, <3>7, MeasuresOf
    <3> QED BY <3>6, <3>8 DEF c
  <2>5. CASE algorithm = "AVG_RATE" /\ available[0]
    <3>1. c = MaxScan(available, speed)
      BY <2>5 DEF FindIopath
    <3> HIDE DEF c
    <3>2. speed[p] = UintMax
      BY MeasuresOf
    <3> HIDE DEF speed
    <3>3. c \in Paths /\ available[c] /\ speed[p] <= speed[c] + 0
      BY <2>2, <2>5, <3>1, MaxScanCorrect DEF Fastest
    <3>4. speed[c] >= UintMax /\ speed[c] = queue[c][k].io_rate_avg
      BY <2>2, <2>3, <3>2, <3>3 DEF speed
    <3>5. ~Measured(c, k)
      BY <2>2, <2>3, <3>3, <3>4, MeasuresOf
    <3> QED BY <3>3, <3>5 DEF c
  <2> QED BY <2>4, <2>5
<1> QED BY <1>1, Invariance, PTL

(* Once every available path was measured, each selector takes one that is *)
(* best over the recent requests of the kind: the least mean time, the     *)
(* greatest rate, the greatest last rate but for the fraction cut off.     *)
THEOREM BestIsChosen == Spec => []BestRecentIsChosen
<1>1. Inv => BestRecentIsChosen
  <2> DEFINE Mean(p, k) == TimeOf(Recent(p, k)) \div Len(Recent(p, k))
             Speed(p, k) == Rate(SizeOf(Recent(p, k)), TimeOf(Recent(p, k)))
             up == {p \in Paths : available[p]}
  <2> SUFFICES ASSUME Inv, NEW k \in Kinds, up # {}, \A p \in up : Measured(p, k)
               PROVE  LET c == FindIopath(available, k)
                          Last(p) == LET s == served[p][k]
                                     IN Rate(s[Len(s)].size, s[Len(s)].time)
                      IN /\ algorithm = "TIME"
                              => c \in up /\ \A p \in up : Mean(c, k) <= Mean(p, k)
                         /\ (algorithm = "AVG_RATE" /\ 0 \in up)
                              => c \in up /\ \A p \in up : Speed(c, k) >= Speed(p, k)
                         /\ (algorithm = "RATE" /\ 0 \in up)
                              => c \in up /\ \A p \in up : Last(c) > Last(p) - 2
    BY Zenon DEF BestRecentIsChosen
  <2> DEFINE c == FindIopath(available, k)
             cost == [b \in Paths |-> queue[b][k].io_time_avg]
             speed == [b \in Paths |-> queue[b][k].io_rate_avg]
             last == [b \in Paths |-> rate[b][k]]
  <2>1. /\ available \in [Paths -> BOOLEAN] /\ cost \in [Paths -> Nat]
        /\ speed \in [Paths -> Nat] /\ last \in [Paths -> Nat]
    BY MeasuresOf DEF Inv, TypeOK
  <2>2. \A p \in up : /\ cost[p] = Mean(p, k) /\ cost[p] < UintMax /\ cost[p] \in Nat
                      /\ speed[p] = Speed(p, k) /\ speed[p] \in Nat
                      /\ last[p] = LastRate(served[p][k]) /\ last[p] < UintMax
                      /\ last[p] \in Nat /\ p \in Paths /\ available[p]
    BY MeasuresOf
  <2>3. /\ algorithm = "TIME" => c = MinScan(available, cost)
        /\ algorithm = "AVG_RATE" => c = MaxScan(available, speed)
        /\ algorithm = "RATE" => c = RateScan(available, last, 0)
    BY DEF FindIopath
  <2> HIDE DEF Mean, Speed, c, cost, speed, last
  <2>4. ASSUME algorithm = "TIME"
        PROVE  c \in up /\ \A p \in up : Mean(c, k) <= Mean(p, k)
    <3>1. Eligible(available, cost) = up /\ up \in SUBSET Paths
      BY <2>2 DEF Eligible
    <3>2. c = FirstCheapest(up, cost)
      BY <2>1, <2>3, <2>4, <3>1, MinScanCorrect DEF CheapestPath
    <3> HIDE DEF up
    <3>3. /\ c \in up
          /\ \A p \in up : cost[c] < cost[p] \/ (cost[c] = cost[p] /\ c <= p)
      BY <2>1, <3>1, <3>2, FirstCheapestExists
    <3>4. \A p \in up : cost[c] <= cost[p]
      BY <2>2, <3>3
    <3> QED BY <2>2, <3>3, <3>4
  <2>5. ASSUME algorithm = "AVG_RATE", 0 \in up
        PROVE  c \in up /\ \A p \in up : Speed(c, k) >= Speed(p, k)
    <3>1. c \in Paths /\ Fastest(available, speed, speed, 0, c)
      BY <2>1, <2>3, <2>5, MaxScanCorrect
    <3>2. c \in up
      BY <2>5, <3>1 DEF Fastest
    <3>3. \A p \in up : speed[p] <= speed[c] + 0
      BY <3>1 DEF Fastest
    <3> HIDE DEF up
    <3> QED BY <2>2, <3>2, <3>3
  <2>6. ASSUME algorithm = "RATE", 0 \in up
        PROVE  /\ c \in up
               /\ \A p \in up : LastRate(served[c][k]) > LastRate(served[p][k]) - 2
    <3>1. \A p \in Paths : available[p] => last[p] # UintMax
      BY <2>2, UintMaxAssumption
    <3>2. /\ c \in Paths /\ available[c]
          /\ Fastest(available, last, Whole(last, 0), 1, c)
      BY <2>1, <2>3, <2>6, <3>1, RateScanCorrect
    <3>3. c \in up /\ \A p \in up : last[p] <= last[c] + 1
      BY <3>2 DEF Fastest
    <3> HIDE DEF up
    <3> QED BY <2>2, <3>3
  <2> QED BY <2>4, <2>5, <2>6, Zenon DEF c, LastRate
<1> QED BY <1>1, Invariance, PTL
=============================================================================
