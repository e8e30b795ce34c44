---------------------------- MODULE NvmeIoProofs -----------------------------
(***************************************************************************)
(* Proofs about NvmeIo for any number of channels, controllers and         *)
(* requests.  Inv is inductive.  That the channels' paths agree with the   *)
(* list of namespaces needs what the iterations under way say of each      *)
(* namespace: no iteration overtakes one started before it, and a          *)
(* namespace is added again only after its deletion has ended.             *)
(***************************************************************************)
EXTENDS NvmeIo, FiniteSetTheorems, FunctionTheorems, SequenceTheorems,
        WellFoundedInduction, TLAPS

(* An iteration comes behind those started before it, but for one that     *)
(* failed, which ends at once.                                             *)
InOrder(q) ==
  /\ \A n \in DOMAIN q : /\ q[n].fn \in {"delete", "prefer"} => q[n].ok
                         /\ q[n].fn = "undo" => ~q[n].ok
  /\ \A m, n \in DOMAIN q : m < n /\ q[n].ok => q[m].at >= q[n].at

Does(q, n, fn, c) == q[n].fn = fn /\ q[n].ctrlr = c

(* What the iterations of q say of c's namespace.                          *)
Tells(q, life, c) ==
  /\ \A m, n \in DOMAIN q : Does(q, m, "add", c) /\ Does(q, n, "add", c) => m = n
  /\ \A m, n \in DOMAIN q : Does(q, m, "delete", c) /\ Does(q, n, "delete", c) => m = n
  /\ \A m, n \in DOMAIN q : Does(q, m, "add", c) /\ Does(q, n, "delete", c) => m < n
  /\ \A n \in DOMAIN q : Does(q, n, "add", c) => life \in {"adding", "deleting"}
  /\ life = "deleting" <=> \E n \in DOMAIN q : Does(q, n, "delete", c)

NamespacesOK ==
  \A c \in Ctrlrs : /\ c \in ToSet(ns_list) <=> ns[c].life \in {"adding", "present"}
                    /\ Tells(jobs, ns[c].life, c)

ClosedAreEmpty ==
  \A k \in Channels : ~ch[k].open => ch[k].io_paths = <<>>

Sound ==
  InOrder(jobs) /\ IsInjective(ns_list) /\ NamespacesOK /\ ClosedAreEmpty
  /\ PathsAreLive /\ ListsAgree

Inv == TypeOK /\ (~fault => Sound)

USE NoPathAssumption, NumbersAssumption, SetsAssumption
USE DEF Channels

-----------------------------------------------------------------------------
(* Sequences.                                                              *)

(* Every non-empty set of naturals has a least element.                    *)
LEMMA LeastNatural ==
  ASSUME NEW T \in SUBSET Nat, T # {}
  PROVE  \E m \in T : \A n \in T : m <= n
<1>1. PICK R : IsWellFoundedOn(R, Nat) /\ \A m, n \in Nat : n < m => <<n, m>> \in R
  <2>1. \A m, n \in Nat : n < m => <<n, m>> \in OpToRel(<, Nat)
    BY DEF OpToRel
  <2> QED BY <2>1, NatLessThanWellFounded, Zenon
<1>2. PICK m \in T : \A n \in T : ~ (<<n, m>> \in R)
  BY <1>1, WFMin, Zenon
<1>3. ASSUME NEW n \in T PROVE m <= n
  <2>1. ~ (n < m)
    BY <1>1, <1>2
  <2> QED BY <2>1
<1> QED BY <1>3

(* Where the element at position d of the shorter sequence was.            *)
Old(c, d) == IF d < c THEN d ELSE d + 1

(* RemoveAt leaves the other elements, in order.                           *)
LEMMA RemoveAtProperties ==
  ASSUME NEW S, NEW s \in Seq(S), NEW c \in DOMAIN s
  PROVE  /\ RemoveAt(s, c) \in Seq(S)
         /\ Len(RemoveAt(s, c)) = Len(s) - 1
         /\ \A d \in DOMAIN RemoveAt(s, c) : /\ Old(c, d) \in DOMAIN s \ {c}
                                             /\ RemoveAt(s, c)[d] = s[Old(c, d)]
         /\ \A e \in DOMAIN s \ {c} : \E d \in DOMAIN RemoveAt(s, c) : e = Old(c, d)
<1> DEFINE n == Len(s)
           p == SubSeq(s, 1, c - 1)
           q == SubSeq(s, c + 1, n)
<1>1. n \in Nat /\ DOMAIN s = 1 .. n /\ c \in 1 .. n /\ \A i \in 1 .. n : s[i] \in S
  BY LenProperties, ElementOfSeq
<1>2. p \in Seq(S) /\ Len(p) = c - 1 /\ \A i \in 1 .. c - 1 : p[i] = s[i]
  <2>1. 1 \in Int /\ c - 1 \in Int /\ \A i \in 1 .. c - 1 : s[i] \in S
    BY <1>1
  <2>2. /\ p \in Seq(S) /\ Len(p) = IF 1 <= c - 1 THEN c - 1 - 1 + 1 ELSE 0
        /\ \A i \in 1 .. c - 1 - 1 + 1 : p[i] = s[1 + i - 1]
    BY <2>1, SubSeqProperties
  <2> QED BY <1>1, <2>2, SMTT(30)
<1>3. q \in Seq(S) /\ Len(q) = n - c /\ \A i \in 1 .. n - c : q[i] = s[c + i]
  <2>1. c + 1 \in Int /\ n \in Int /\ \A i \in c + 1 .. n : s[i] \in S
    BY <1>1
  <2>2. /\ q \in Seq(S) /\ Len(q) = IF c + 1 <= n THEN n - (c + 1) + 1 ELSE 0
        /\ \A i \in 1 .. n - (c + 1) + 1 : q[i] = s[c + 1 + i - 1]
    BY <2>1, SubSeqProperties
  <2> QED BY <1>1, <2>2, SMTT(30)
<1> HIDE DEF n, p, q
<1>4. /\ p \o q \in Seq(S) /\ Len(p \o q) = Len(p) + Len(q)
      /\ \A i \in 1 .. Len(p) + Len(q) : (p \o q)[i] = IF i <= Len(p) THEN p[i] ELSE q[i - Len(p)]
  <2>1. p \in Seq(S) /\ q \in Seq(S)
    BY <1>2, <1>3
  <2> QED BY <2>1, ConcatProperties
<1>5. RemoveAt(s, c) = p \o q
  BY DEF RemoveAt, n, p, q
<1>6. /\ Len(p \o q) = n - 1 /\ DOMAIN (p \o q) = 1 .. n - 1
      /\ \A i \in 1 .. n - 1 : (p \o q)[i] = IF i <= c - 1 THEN p[i] ELSE q[i - (c - 1)]
  <2>1. PICK r \in Seq(S) : r = p \o q
    BY <1>4
  <2>2. Len(r) = n - 1 /\ \A i \in 1 .. n - 1 : r[i] = IF i <= c - 1 THEN p[i] ELSE q[i - (c - 1)]
    BY <1>1, <1>2, <1>3, <1>4, <2>1
  <2>3. DOMAIN r = 1 .. n - 1
    BY <2>2, LenProperties
  <2> QED BY <2>1, <2>2, <2>3
<1>7. ASSUME NEW d \in 1 .. n - 1
      PROVE  Old(c, d) \in 1 .. n /\ Old(c, d) # c /\ (p \o q)[d] = s[Old(c, d)]
  <2>1. CASE d < c
    BY <1>1, <1>2, <1>6, <2>1 DEF Old
  <2>2. CASE ~(d < c)
    <3>1. d - (c - 1) \in 1 .. n - c /\ c + (d - (c - 1)) = d + 1
      BY <1>1, <2>2
    <3>2. (p \o q)[d] = q[d - (c - 1)]
      BY <1>1, <1>6, <2>2
    <3>3. q[d - (c - 1)] = s[d + 1]
      BY <1>3, <3>1
    <3>4. Old(c, d) = d + 1 /\ d + 1 \in 1 .. n /\ d + 1 # c
      BY <1>1, <2>2 DEF Old
    <3> QED BY <3>2, <3>3, <3>4
  <2> QED BY <2>1, <2>2
<1>8. ASSUME NEW e \in 1 .. n, e # c
      PROVE  \E d \in 1 .. n - 1 : e = Old(c, d)
  <2>1. CASE e < c
    <3>1. e \in 1 .. n - 1 /\ e = Old(c, e)
      BY <1>1, <2>1 DEF Old
    <3> QED BY <3>1
  <2>2. CASE e > c
    <3>1. e - 1 \in 1 .. n - 1 /\ e = Old(c, e - 1)
      BY <1>1, <2>2 DEF Old
    <3> QED BY <3>1
  <2> QED BY <1>1, <1>8, <2>1, <2>2
<1>9. n = Len(s)
  BY DEF n
<1> QED BY <1>1, <1>4, <1>5, <1>6, <1>7, <1>8, <1>9

(* Removing the one occurrence of an element.                              *)
LEMMA RemoveFirstProperties ==
  ASSUME NEW S, NEW s \in Seq(S), IsInjective(s), NEW c \in ToSet(s)
  PROVE  /\ RemoveFirst(s, c) \in Seq(S) /\ IsInjective(RemoveFirst(s, c))
         /\ Len(RemoveFirst(s, c)) = Len(s) - 1
         /\ \A d : d \in ToSet(RemoveFirst(s, c)) <=> d \in ToSet(s) /\ d # c
<1>1. Len(s) \in Nat /\ DOMAIN s = 1 .. Len(s)
  BY LenProperties
<1> DEFINE I == {i \in 1 .. Len(s) : s[i] = c}
<1>2. I # {} /\ I \in SUBSET Nat
  BY <1>1 DEF ToSet
<1>3. PICK p \in I : \A q \in I : p <= q
  BY <1>2, LeastNatural
<1>4. Min(I) \in I
  BY <1>3 DEF Min
<1>5. PICK n : n = Min(I) /\ n \in DOMAIN s /\ s[n] = c
  BY <1>1, <1>4
<1>6. RemoveFirst(s, c) = RemoveAt(s, n)
  <2>1. \E i \in 1 .. Len(s) : s[i] = c
    BY <1>1, <1>5
  <2>2. SelectInSeq(s, LAMBDA v : v = c) = n
    BY <1>2, <1>5 DEF SelectInSeq
  <2> QED BY <2>1, <2>2 DEF RemoveFirst
<1> HIDE DEF I
<1>7. /\ RemoveAt(s, n) \in Seq(S) /\ Len(RemoveAt(s, n)) = Len(s) - 1
      /\ \A d \in DOMAIN RemoveAt(s, n) : /\ Old(n, d) \in DOMAIN s \ {n}
                                          /\ RemoveAt(s, n)[d] = s[Old(n, d)]
      /\ \A e \in DOMAIN s \ {n} : \E d \in DOMAIN RemoveAt(s, n) : e = Old(n, d)
  BY <1>5, RemoveAtProperties
<1>8. PICK t \in Seq(S) : /\ t = RemoveAt(s, n) /\ Len(t) = Len(s) - 1
                          /\ \A d \in DOMAIN t : Old(n, d) \in DOMAIN s \ {n} /\ t[d] = s[Old(n, d)]
                          /\ \A e \in DOMAIN s \ {n} : \E d \in DOMAIN t : e = Old(n, d)
  BY <1>7
<1>9. IsInjective(t)
  <2> SUFFICES ASSUME NEW a \in DOMAIN t, NEW b \in DOMAIN t, t[a] = t[b] PROVE a = b
    BY DEF IsInjective
  <2>1. Old(n, a) = Old(n, b)
    BY <1>8 DEF IsInjective
  <2>2. a \in Nat /\ b \in Nat /\ n \in Nat
    BY <1>1, <1>5, LenProperties
  <2> QED BY <2>1, <2>2 DEF Old
<1>10. ASSUME NEW d PROVE d \in ToSet(t) <=> d \in ToSet(s) /\ d # c
  <2>1. ASSUME NEW a \in DOMAIN t PROVE t[a] \in ToSet(s) /\ t[a] # c
    <3>1. Old(n, a) \in DOMAIN s /\ Old(n, a) # n /\ t[a] = s[Old(n, a)]
      BY <1>8
    <3> QED BY <1>5, <3>1 DEF ToSet, IsInjective
  <2>2. ASSUME NEW e \in DOMAIN s, s[e] # c PROVE s[e] \in ToSet(t)
    <3>1. PICK a \in DOMAIN t : e = Old(n, a)
      BY <1>5, <1>8, <2>2
    <3> QED BY <1>8, <3>1 DEF ToSet
  <2> QED BY <2>1, <2>2 DEF ToSet
<1> QED BY <1>6, <1>8, <1>9, <1>10

(* An element more at the end.                                             *)
LEMMA AppendDistinct ==
  ASSUME NEW S, NEW s \in Seq(S), NEW c \in S
  PROVE  /\ Append(s, c) \in Seq(S) /\ Append(s, c) # <<>>
         /\ \A d : d \in ToSet(Append(s, c)) <=> d \in ToSet(s) \/ d = c
         /\ IsInjective(s) /\ c \notin ToSet(s) => IsInjective(Append(s, c))
<1>1. PICK t \in Seq(S) : t = Append(s, c)
  BY AppendProperties
<1>2. /\ Len(s) \in Nat /\ DOMAIN s = 1 .. Len(s) /\ DOMAIN t = 1 .. Len(s) + 1
      /\ \A i \in 1 .. Len(s) : t[i] = s[i]
      /\ t[Len(s) + 1] = c
  BY <1>1, AppendProperties, LenProperties
<1>3. \A i : i \in DOMAIN t <=> i \in DOMAIN s \/ i = Len(s) + 1
  BY <1>2
<1>4. \A i \in DOMAIN s : i # Len(s) + 1
  BY <1>2
<1>5. \A d : d \in ToSet(t) <=> d \in ToSet(s) \/ d = c
  BY <1>2, <1>3 DEF ToSet
<1>6. IsInjective(s) /\ c \notin ToSet(s) => IsInjective(t)
  BY <1>2, <1>3 DEF ToSet, IsInjective
<1>7. t # <<>>
  BY <1>1, AppendProperties
<1> QED BY <1>1, <1>5, <1>6, <1>7

(* An element in front.                                                    *)
LEMMA ConsDistinct ==
  ASSUME NEW S, NEW s \in Seq(S), NEW c \in S, IsInjective(s), c \notin ToSet(s)
  PROVE  /\ <<c>> \o s \in Seq(S) /\ <<c>> \o s # <<>> /\ IsInjective(<<c>> \o s)
         /\ \A d : d \in ToSet(<<c>> \o s) <=> d \in ToSet(s) \/ d = c
<1> <<c>> \in Seq(S)
  OBVIOUS
<1>1. PICK t \in Seq(S) : t = <<c>> \o s
  BY ConcatProperties
<1>2. /\ Len(s) \in Nat /\ DOMAIN s = 1 .. Len(s) /\ DOMAIN t = 1 .. Len(s) + 1
      /\ t[1] = c /\ \A i \in 2 .. Len(s) + 1 : t[i] = s[i - 1]
  <2>1. /\ <<c>> \in Seq(S) /\ Len(<<c>>) = 1 /\ <<c>>[1] = c /\ Len(s) \in Nat
        /\ DOMAIN s = 1 .. Len(s) /\ DOMAIN t = 1 .. Len(t)
    BY LenProperties
  <2>2. Len(t) = 1 + Len(s) /\ \A i \in 1 .. 1 + Len(s) : t[i] = IF i <= 1 THEN <<c>>[i] ELSE s[i - 1]
    BY <1>1, <2>1, ConcatProperties
  <2> QED BY <2>1, <2>2
<1>3. \A i \in DOMAIN t : i = 1 \/ (i - 1 \in DOMAIN s /\ t[i] = s[i - 1])
  BY <1>2
<1>4. \A i \in DOMAIN s : i + 1 \in DOMAIN t /\ t[i + 1] = s[i]
  BY <1>2
<1>5. 1 \in DOMAIN t /\ DOMAIN t \subseteq Nat
  BY <1>2
<1>6. ASSUME NEW d PROVE d \in ToSet(t) <=> d \in ToSet(s) \/ d = c
  <2>1. ASSUME NEW i \in DOMAIN t PROVE t[i] \in ToSet(s) \/ t[i] = c
    BY <1>2, <1>3 DEF ToSet
  <2>2. c \in ToSet(t) /\ \A i \in DOMAIN s : s[i] \in ToSet(t)
    BY <1>2, <1>4, <1>5 DEF ToSet
  <2> QED BY <2>1, <2>2 DEF ToSet
<1>7. IsInjective(t)
  <2> SUFFICES ASSUME NEW a \in DOMAIN t, NEW b \in DOMAIN t, t[a] = t[b] PROVE a = b
    BY DEF IsInjective
  <2>1. CASE a = 1 \/ b = 1
    BY <1>2, <1>3, <2>1 DEF ToSet
  <2>2. CASE a # 1 /\ b # 1
    <3>1. a - 1 = b - 1
      BY <1>3, <2>2 DEF IsInjective
    <3> QED BY <1>5, <3>1
  <2> QED BY <2>1, <2>2
<1>8. t # <<>>
  BY <1>5
<1> QED BY <1>1, <1>6, <1>7, <1>8

(* c first.                                                                *)
LEMMA ToFrontProperties ==
  ASSUME NEW s \in Seq(Ctrlrs), IsInjective(s), NEW c \in ToSet(s)
  PROVE  /\ ToFront(s, c) \in Seq(Ctrlrs) /\ ToFront(s, c) # <<>> /\ IsInjective(ToFront(s, c))
         /\ \A d : d \in ToSet(ToFront(s, c)) <=> d \in ToSet(s)
<1>1. c \in Ctrlrs
  BY ElementOfSeq DEF ToSet
<1>2. PICK t \in Seq(Ctrlrs) : /\ t = RemoveFirst(s, c) /\ IsInjective(t)
                               /\ \A d : d \in ToSet(t) <=> d \in ToSet(s) /\ d # c
  BY RemoveFirstProperties
<1> QED BY <1>1, <1>2, ConsDistinct DEF ToFront

(* A beginning of the controllers in some order.                           *)
LEMMA ListedProperties ==
  ASSUME NEW n \in 1 .. Cardinality(Ctrlrs)
  PROVE  LET s == SubSeq(SetToSeq(Ctrlrs), 1, n)
         IN  s \in Seq(Ctrlrs) /\ s # <<>> /\ IsInjective(s)
<1> DEFINE N == Cardinality(Ctrlrs)
           f == SetToSeq(Ctrlrs)
<1>1. N \in Nat
  BY FS_CardinalityType
<1>2. \E g \in [1 .. N -> Ctrlrs] : IsInjective(g)
  <2>1. ExistsBijection(1 .. N, Ctrlrs)
    BY FS_CardinalityType
  <2>2. PICK g : g \in Bijection(1 .. N, Ctrlrs)
    BY <2>1 DEF ExistsBijection
  <2> QED BY <2>2 DEF Bijection, Injection, IsInjective
<1>3. f \in [1 .. N -> Ctrlrs] /\ IsInjective(f)
  BY <1>2 DEF SetToSeq
<1> HIDE DEF f, N
<1>4. f \in Seq(Ctrlrs) /\ Len(f) = N /\ n \in 1 .. N
  BY <1>1, <1>3 DEF N
<1>5. PICK s \in Seq(Ctrlrs) : /\ s = SubSeq(f, 1, n) /\ Len(s) = n
                               /\ \A i \in 1 .. n : s[i] = f[i]
  <2>1. 1 \in Int /\ n \in Int /\ \A i \in 1 .. n : f[i] \in Ctrlrs
    BY <1>1, <1>3, <1>4
  <2>2. /\ SubSeq(f, 1, n) \in Seq(Ctrlrs)
        /\ Len(SubSeq(f, 1, n)) = IF 1 <= n THEN n - 1 + 1 ELSE 0
        /\ \A i \in 1 .. n - 1 + 1 : SubSeq(f, 1, n)[i] = f[1 + i - 1]
    BY <2>1, SubSeqProperties
  <2>3. \A i \in 1 .. n : 1 + i - 1 = i /\ n - 1 + 1 = n /\ 1 <= n
    BY <1>1, <1>4
  <2>4. n \in 1 .. n
    BY <1>1, <1>4
  <2>5. Len(SubSeq(f, 1, n)) = n /\ \A i \in 1 .. n : SubSeq(f, 1, n)[i] = f[i]
    BY <2>2, <2>3, <2>4
  <2> QED BY <2>2, <2>5
<1>6. IsInjective(s)
  <2>1. DOMAIN s = 1 .. n /\ 1 .. n \subseteq 1 .. N
    BY <1>1, <1>4, <1>5, LenProperties
  <2> QED BY <1>3, <1>5, <2>1 DEF IsInjective
<1>7. s # <<>>
  BY <1>1, <1>4, <1>5
<1> QED BY <1>5, <1>6, <1>7 DEF f

-----------------------------------------------------------------------------
(* Iterations.                                                             *)

(* Changing, of the iterations in q.                                       *)
Alters(q, n, c, k) ==
  /\ q[n].ctrlr = c /\ q[n].fn \in {"add", "undo", "delete"}
  /\ q[n].at <= k \/ q[n].fn = "undo" \/ ~q[n].ok

ChangingIn(q, c, k) == \E n \in DOMAIN q : Alters(q, n, c, k)

(* An iteration is started.                                                *)
LEMMA JobStarts ==
  ASSUME NEW q \in Seq(Job), InOrder(q), NEW j \in Job, j.at = 1, j.fn = "undo" <=> ~j.ok
  PROVE  LET r == Append(q, j)
         IN  /\ r \in Seq(Job) /\ InOrder(r)
             /\ \A c, life : Tells(q, life, c) /\ (j.fn \in {"undo", "prefer"} \/ j.ctrlr # c)
                  => Tells(r, life, c)
             /\ Tells(q, "absent", j.ctrlr) /\ j.fn = "add" => Tells(r, "adding", j.ctrlr)
             /\ \A life \in {"adding", "present"} :
                  Tells(q, life, j.ctrlr) /\ j.fn = "delete" => Tells(r, "deleting", j.ctrlr)
             /\ \A c \in Ctrlrs, k \in Channels :
                  IF j.fn # "prefer" /\ j.ctrlr = c THEN ChangingIn(r, c, k)
                  ELSE ChangingIn(r, c, k) <=> ChangingIn(q, c, k)
<1>1. PICK r \in Seq(Job) : r = Append(q, j)
  BY AppendProperties
<1>2. PICK l \in Nat : l = Len(q)
  BY LenProperties
<1>3. /\ DOMAIN q = 1 .. l /\ DOMAIN r = 1 .. l + 1 /\ r[l + 1] = j
      /\ \A i \in 1 .. l : r[i] = q[i] /\ q[i] \in Job
  BY <1>1, <1>2, AppendProperties, LenProperties, ElementOfSeq
<1>4. /\ \A i : i \in DOMAIN r <=> i \in DOMAIN q \/ i = l + 1
      /\ l + 1 \notin DOMAIN q /\ \A i \in DOMAIN q : i < l + 1 /\ r[i] = q[i] /\ q[i].at >= 1
      /\ \A i \in DOMAIN q : ~ (l + 1 < i)
      /\ r[l + 1] = j /\ ~ (l + 1 < l + 1)
  BY <1>3 DEF Job
<1>5. InOrder(r)
  <2>1. \A n \in DOMAIN r : /\ r[n].fn \in {"delete", "prefer"} => r[n].ok
                            /\ r[n].fn = "undo" => ~r[n].ok
    BY <1>4 DEF InOrder, Job
  <2>2. ASSUME NEW m \in DOMAIN r, NEW n \in DOMAIN r, m < n, r[n].ok PROVE r[m].at >= r[n].at
    <3>1. m \in DOMAIN q
      BY <1>4, <2>2
    <3>2. CASE n \in DOMAIN q
      BY <1>4, <2>2, <3>1, <3>2 DEF InOrder
    <3>3. CASE n = l + 1
      BY <1>4, <3>1, <3>3
    <3> QED BY <1>4, <3>2, <3>3
  <2> QED BY <2>1, <2>2 DEF InOrder
<1>6. ASSUME NEW c, NEW life, Tells(q, life, c), j.fn \in {"undo", "prefer"} \/ j.ctrlr # c
      PROVE  Tells(r, life, c)
  BY <1>4, <1>6 DEF Tells, Does
<1>7. Tells(q, "absent", j.ctrlr) /\ j.fn = "add" => Tells(r, "adding", j.ctrlr)
  BY <1>4 DEF Tells, Does
<1>8. ASSUME NEW life \in {"adding", "present"}, Tells(q, life, j.ctrlr), j.fn = "delete"
      PROVE  Tells(r, "deleting", j.ctrlr)
  BY <1>4, <1>8 DEF Tells, Does
<1>9. ASSUME NEW c \in Ctrlrs, NEW k \in Channels
      PROVE  IF j.fn # "prefer" /\ j.ctrlr = c THEN ChangingIn(r, c, k)
             ELSE ChangingIn(r, c, k) <=> ChangingIn(q, c, k)
  <2>1. \A i \in DOMAIN q : Alters(r, i, c, k) <=> Alters(q, i, c, k)
    BY <1>4 DEF Alters
  <2>2. Alters(r, l + 1, c, k) <=> j.fn # "prefer" /\ j.ctrlr = c
    BY <1>4 DEF Alters, Job
  <2> QED BY <1>4, <2>1, <2>2 DEF ChangingIn
<1> QED BY <1>1, <1>5, <1>6, <1>7, <1>8, <1>9

(* An iteration goes on to the next channel.                               *)
LEMMA JobSteps ==
  ASSUME NEW q \in Seq(Job), InOrder(q), NEW n \in DOMAIN q, q[n].at <= M,
         \A m \in 1 .. n - 1 : q[m].at # q[n].at
  PROVE  LET r == [q EXCEPT ![n].at = @ + 1]
         IN  /\ r \in Seq(Job) /\ InOrder(r)
             /\ \A c, life : Tells(q, life, c) => Tells(r, life, c)
             /\ \A c \in Ctrlrs, k \in Channels : ChangingIn(r, c, k) => ChangingIn(q, c, k)
             /\ \A c \in Ctrlrs, k \in Channels : ChangingIn(q, c, k) /\ ~ChangingIn(r, c, k)
                  => c = q[n].ctrlr /\ k = q[n].at /\ q[n].fn \in {"add", "undo", "delete"}
<1>1. /\ DOMAIN q = 1 .. Len(q) /\ Len(q) \in Nat /\ \A i \in DOMAIN q : q[i] \in Job
  BY LenProperties, ElementOfSeq
<1>2. PICK a \in 1 .. M : a = q[n].at
  BY <1>1 DEF Job
<1>3. PICK j \in Job : j = [q[n] EXCEPT !.at = a + 1]
  <2>1. q[n] \in Job /\ a + 1 \in 1 .. M + 1
    BY <1>1
  <2>2. [q[n] EXCEPT !.at = a + 1] \in Job
    BY <2>1 DEF Job
  <2> QED BY <2>2
<1>4. /\ j.at = a + 1 /\ j.fn = q[n].fn /\ j.ctrlr = q[n].ctrlr /\ j.ok = q[n].ok
  BY <1>1, <1>3 DEF Job
<1>5. PICK r \in Seq(Job) : r = [q EXCEPT ![n] = j]
  BY <1>1, ExceptSeq
<1>6. r = [q EXCEPT ![n].at = @ + 1]
  BY <1>2, <1>3, <1>5
<1>7. /\ DOMAIN r = DOMAIN q /\ r[n] = j /\ \A i \in DOMAIN q \ {n} : r[i] = q[i]
  BY <1>5
<1>8. /\ \A i \in DOMAIN q : r[i].fn = q[i].fn /\ r[i].ctrlr = q[i].ctrlr /\ r[i].ok = q[i].ok
      /\ \A i \in DOMAIN q : r[i].at = IF i = n THEN a + 1 ELSE q[i].at
      /\ \A i \in DOMAIN q : q[i].at \in 1 .. M + 1
  BY <1>1, <1>4, <1>7 DEF Job
<1>9. InOrder(r)
  <2>1. ASSUME NEW m \in DOMAIN r, NEW i \in DOMAIN r, m < i, r[i].ok PROVE r[m].at >= r[i].at
    <3>1. q[m].at >= q[i].at /\ q[m].at \in Nat /\ q[i].at \in Nat
      BY <1>7, <1>8, <2>1 DEF InOrder
    <3>2. CASE i = n
      <4>1. m \in 1 .. n - 1
        BY <1>1, <1>7, <2>1, <3>2
      <4>2. q[m].at > a
        BY <1>2, <3>1, <3>2, <4>1
      <4>3. r[i].at = a + 1 /\ q[m].at \in Nat /\ a \in Nat
        BY <1>2, <1>7, <1>8, <3>1, <3>2
      <4>4. m # n /\ m \in DOMAIN q
        BY <1>1, <1>7, <4>1
      <4>5. r[m].at = q[m].at
        BY <1>8, <4>4
      <4> QED BY <4>2, <4>3, <4>5
    <3>3. CASE i # n
      <4>1. r[i].at = q[i].at
        BY <1>7, <1>8, <2>1, <3>3
      <4>2. r[m].at = q[m].at \/ r[m].at = q[m].at + 1
        BY <1>2, <1>7, <1>8, <2>1
      <4> QED BY <3>1, <4>1, <4>2
    <3> QED BY <3>2, <3>3
  <2> QED BY <1>7, <1>8, <2>1 DEF InOrder
<1>10. ASSUME NEW c, NEW life, Tells(q, life, c) PROVE Tells(r, life, c)
  <2>1. \A i \in DOMAIN q, fn \in {"add", "delete"} : Does(r, i, fn, c) <=> Does(q, i, fn, c)
    BY <1>8 DEF Does
  <2> QED BY <1>7, <1>10, <2>1 DEF Tells
<1>11. ASSUME NEW c \in Ctrlrs, NEW k \in Channels, ChangingIn(r, c, k) PROVE ChangingIn(q, c, k)
  <2>1. PICK i \in DOMAIN q : Alters(r, i, c, k)
    BY <1>7, <1>11 DEF ChangingIn
  <2> QED BY <1>2, <1>7, <1>8, <2>1 DEF Alters, ChangingIn
<1>12. ASSUME NEW c \in Ctrlrs, NEW k \in Channels, ChangingIn(q, c, k), ~ChangingIn(r, c, k)
       PROVE  c = q[n].ctrlr /\ k = q[n].at /\ q[n].fn \in {"add", "undo", "delete"}
  <2>1. PICK i \in DOMAIN q : Alters(q, i, c, k) /\ ~Alters(r, i, c, k)
    BY <1>7, <1>12 DEF ChangingIn
  <2>2. i = n
    BY <1>8, <2>1 DEF Alters
  <2> QED BY <1>2, <1>8, <2>1, <2>2 DEF Alters
<1> QED BY <1>6, <1>9, <1>10, <1>11, <1>12
(* An addition fails on a channel.                                         *)
LEMMA JobFails ==
  ASSUME NEW q \in Seq(Job), InOrder(q), NEW n \in DOMAIN q, q[n].fn = "add"
  PROVE  LET r == [q EXCEPT ![n].at = M + 1, ![n].ok = FALSE]
         IN  /\ r \in Seq(Job) /\ InOrder(r)
             /\ \A c, life : Tells(q, life, c) => Tells(r, life, c)
             /\ \A c \in Ctrlrs, k \in Channels :
                  ChangingIn(r, c, k) <=> ChangingIn(q, c, k) \/ c = q[n].ctrlr
<1>1. /\ DOMAIN q = 1 .. Len(q) /\ Len(q) \in Nat /\ \A i \in DOMAIN q : q[i] \in Job
  BY LenProperties, ElementOfSeq
<1>2. PICK j \in Job : j = [[q[n] EXCEPT !.at = M + 1] EXCEPT !.ok = FALSE]
  <2>1. q[n] \in Job /\ M + 1 \in 1 .. M + 1
    BY <1>1
  <2>2. [q[n] EXCEPT !.at = M + 1] \in Job
    BY <2>1 DEF Job
  <2>3. [[q[n] EXCEPT !.at = M + 1] EXCEPT !.ok = FALSE] \in Job
    BY <2>2 DEF Job
  <2> QED BY <2>3
<1>3. j.at = M + 1 /\ j.fn = "add" /\ j.ctrlr = q[n].ctrlr /\ j.ok = FALSE
  BY <1>1, <1>2 DEF Job
<1>4. PICK r \in Seq(Job) : r = [q EXCEPT ![n] = j]
  BY <1>1, ExceptSeq
<1>5. r = [q EXCEPT ![n].at = M + 1, ![n].ok = FALSE]
  BY <1>2, <1>4
<1>6. DOMAIN r = DOMAIN q /\ r[n] = j /\ \A i \in DOMAIN q \ {n} : r[i] = q[i]
  BY <1>4
<1>7. \A i \in DOMAIN q : /\ q[i].at \in 1 .. M + 1 /\ r[i].fn = q[i].fn
                          /\ r[i].ctrlr = q[i].ctrlr
  BY <1>1, <1>3, <1>6 DEF Job
<1>8. InOrder(r)
  <2>1. ASSUME NEW m \in DOMAIN r, NEW i \in DOMAIN r, m < i, r[i].ok PROVE r[m].at >= r[i].at
    <3>1. i # n
      BY <1>3, <1>6, <2>1
    <3>2. r[i] = q[i] /\ q[m].at >= q[i].at
      BY <1>6, <2>1, <3>1 DEF InOrder
    <3> QED BY <1>3, <1>6, <1>7, <2>1, <3>2
  <2>2. ASSUME NEW i \in DOMAIN r
        PROVE  /\ r[i].fn \in {"delete", "prefer"} => r[i].ok
               /\ r[i].fn = "undo" => ~r[i].ok
    BY <1>3, <1>6 DEF InOrder
  <2> QED BY <2>1, <2>2 DEF InOrder
<1>9. ASSUME NEW c, NEW life, Tells(q, life, c) PROVE Tells(r, life, c)
  <2>1. \A i \in DOMAIN q, fn \in {"add", "delete"} : Does(r, i, fn, c) <=> Does(q, i, fn, c)
    BY <1>7 DEF Does
  <2> QED BY <1>6, <1>9, <2>1 DEF Tells
<1>10. ASSUME NEW c \in Ctrlrs, NEW k \in Channels
       PROVE  ChangingIn(r, c, k) <=> ChangingIn(q, c, k) \/ c = q[n].ctrlr
  <2>1. Alters(r, n, c, k) <=> c = q[n].ctrlr
    BY <1>3, <1>6 DEF Alters
  <2>2. Alters(q, n, c, k) => c = q[n].ctrlr
    BY DEF Alters
  <2>3. \A i \in DOMAIN q \ {n} : Alters(r, i, c, k) <=> Alters(q, i, c, k)
    BY <1>6 DEF Alters
  <2> QED BY <1>6, <2>1, <2>2, <2>3 DEF ChangingIn
<1> QED BY <1>5, <1>8, <1>9, <1>10

(* An iteration ends: one that deletes a namespace ends behind the one     *)
(* that added it.                                                          *)
LEMMA JobEnds ==
  ASSUME NEW q \in Seq(Job), InOrder(q), NEW n \in DOMAIN q, q[n].at = M + 1,
         \A m \in 1 .. n - 1 : q[m].at # q[n].at
  PROVE  LET r == RemoveAt(q, n)
         IN  /\ r \in Seq(Job) /\ InOrder(r)
             /\ \A c, life : Tells(q, life, c) /\ (c # q[n].ctrlr \/ q[n].fn # "delete")
                  => Tells(r, life, c)
             /\ Tells(q, "adding", q[n].ctrlr) /\ q[n].fn = "add"
                  => Tells(r, "present", q[n].ctrlr)
             /\ \A life : Tells(q, life, q[n].ctrlr) /\ q[n].fn = "delete"
                  => Tells(r, "absent", q[n].ctrlr)
             /\ \A c \in Ctrlrs, k \in Channels : ChangingIn(r, c, k) => ChangingIn(q, c, k)
             /\ \A c \in Ctrlrs, k \in Channels :
                  ChangingIn(q, c, k) /\ (c # q[n].ctrlr \/ q[n].ok) => ChangingIn(r, c, k)
<1>1. /\ DOMAIN q = 1 .. Len(q) /\ Len(q) \in Nat /\ \A i \in DOMAIN q : q[i] \in Job
  BY LenProperties, ElementOfSeq
<1>2. PICK r \in Seq(Job) :
        /\ r = RemoveAt(q, n)
        /\ \A d \in DOMAIN r : Old(n, d) \in DOMAIN q \ {n} /\ r[d] = q[Old(n, d)]
        /\ \A e \in DOMAIN q \ {n} : \E d \in DOMAIN r : e = Old(n, d)
  BY RemoveAtProperties
<1>3. ASSUME NEW d \in DOMAIN r, NEW e \in DOMAIN r
      PROVE  (d < e <=> Old(n, d) < Old(n, e)) /\ (Old(n, d) = Old(n, e) => d = e)
  <2>1. d \in Nat /\ e \in Nat /\ n \in Nat
    BY <1>1, LenProperties
  <2> QED BY <2>1 DEF Old
<1>4. InOrder(r)
  BY <1>2, <1>3 DEF InOrder
<1>5. ASSUME NEW c, NEW fn, NEW d \in DOMAIN r
      PROVE  Does(r, d, fn, c) <=> Does(q, Old(n, d), fn, c)
  BY <1>2 DEF Does
<1>6. ASSUME NEW c, NEW life, Tells(q, life, c), c # q[n].ctrlr \/ q[n].fn # "delete"
      PROVE  Tells(r, life, c)
  <2>1. ~Does(q, n, "delete", c)
    BY <1>6 DEF Does
  <2>3. \A d \in DOMAIN r : Old(n, d) \in DOMAIN q
    BY <1>2
  <2>2. life = "deleting" <=> \E d \in DOMAIN r : Does(r, d, "delete", c)
    <3>1. ASSUME NEW e \in DOMAIN q, Does(q, e, "delete", c)
          PROVE  \E d \in DOMAIN r : Does(r, d, "delete", c)
      <4>1. PICK d \in DOMAIN r : e = Old(n, d)
        BY <1>2, <2>1, <3>1
      <4> QED BY <1>5, <3>1, <4>1
    <3>2. (\E d \in DOMAIN r : Does(r, d, "delete", c)) => \E e \in DOMAIN q : Does(q, e, "delete", c)
      BY <1>5, <2>3
    <3> QED BY <1>6, <3>1, <3>2 DEF Tells
  <2>4. /\ \A d, e \in DOMAIN r : Does(r, d, "add", c) /\ Does(r, e, "add", c) => d = e
        /\ \A d, e \in DOMAIN r : Does(r, d, "delete", c) /\ Does(r, e, "delete", c) => d = e
        /\ \A d, e \in DOMAIN r : Does(r, d, "add", c) /\ Does(r, e, "delete", c) => d < e
        /\ \A d \in DOMAIN r : Does(r, d, "add", c) => life \in {"adding", "deleting"}
    BY <1>3, <1>5, <1>6, <2>3 DEF Tells
  <2> QED BY <2>2, <2>4 DEF Tells
<1>7. ASSUME Tells(q, "adding", q[n].ctrlr), q[n].fn = "add"
      PROVE  Tells(r, "present", q[n].ctrlr)
  <2>1. Does(q, n, "add", q[n].ctrlr)
    BY <1>7 DEF Does
  <2>2. \A d \in DOMAIN r : ~Does(r, d, "add", q[n].ctrlr)
    BY <1>2, <1>5, <1>7, <2>1 DEF Tells
  <2>3. \A d \in DOMAIN r : ~Does(r, d, "delete", q[n].ctrlr)
    BY <1>2, <1>5, <1>7 DEF Tells
  <2> QED BY <2>2, <2>3 DEF Tells
<1>8. ASSUME NEW life, Tells(q, life, q[n].ctrlr), q[n].fn = "delete"
      PROVE  Tells(r, "absent", q[n].ctrlr)
  <2>1. Does(q, n, "delete", q[n].ctrlr)
    BY <1>8 DEF Does
  <2>2. \A d \in DOMAIN r : ~Does(r, d, "delete", q[n].ctrlr)
    BY <1>2, <1>5, <1>8, <2>1 DEF Tells
  <2>3. ASSUME NEW m \in DOMAIN q, Does(q, m, "add", q[n].ctrlr) PROVE FALSE
    <3>1. m < n
      BY <1>8, <2>1, <2>3 DEF Tells
    <3>2. q[m].at >= q[n].at
      <4>1. q[n].ok
        BY <1>8 DEF InOrder
      <4> QED BY <3>1, <4>1 DEF InOrder
    <3>3. q[m].at \in 1 .. M + 1
      BY <1>1 DEF Job
    <3>4. m \in 1 .. n - 1
      BY <1>1, <3>1
    <3> QED BY <3>2, <3>3, <3>4
  <2>4. \A d \in DOMAIN r : ~Does(r, d, "add", q[n].ctrlr)
    BY <1>2, <1>5, <2>3
  <2> QED BY <2>2, <2>4 DEF Tells
<1>9. ASSUME NEW c \in Ctrlrs, NEW k \in Channels, NEW d \in DOMAIN r
      PROVE  Alters(r, d, c, k) <=> Alters(q, Old(n, d), c, k)
  BY <1>2 DEF Alters
<1>10. ASSUME NEW c \in Ctrlrs, NEW k \in Channels, ChangingIn(r, c, k)
       PROVE  ChangingIn(q, c, k)
  BY <1>2, <1>9, <1>10 DEF ChangingIn
<1>11. ASSUME NEW c \in Ctrlrs, NEW k \in Channels, ChangingIn(q, c, k), c # q[n].ctrlr \/ q[n].ok
       PROVE  ChangingIn(r, c, k)
  <2>1. ~Alters(q, n, c, k)
    BY <1>11 DEF Alters, InOrder
  <2>2. PICK e \in DOMAIN q : Alters(q, e, c, k)
    BY <1>11 DEF ChangingIn
  <2>3. PICK d \in DOMAIN r : e = Old(n, d)
    BY <1>2, <2>1, <2>2
  <2> QED BY <1>9, <2>2, <2>3 DEF ChangingIn
<1> QED BY <1>2, <1>4, <1>6, <1>7, <1>8, <1>10, <1>11

-----------------------------------------------------------------------------
(* Choosing a path.                                                        *)

(* What FirstIn finds is in the sequence and in the set.                   *)
LEMMA FirstInProperties ==
  ASSUME NEW s \in Seq(Ctrlrs), NEW S
  PROVE  FirstIn(s, S) = NoPath \/ (FirstIn(s, S) \in ToSet(s) /\ FirstIn(s, S) \in S)
<1> DEFINE first(n) == n \in DOMAIN s /\ s[n] \in S /\ \A m \in 1 .. n - 1 : s[m] \notin S
<1>1. CASE \A n \in DOMAIN s : s[n] \notin S
  BY <1>1 DEF FirstIn
<1>2. CASE \E n \in DOMAIN s : s[n] \in S
  <2>1. DOMAIN s = 1 .. Len(s) /\ Len(s) \in Nat
    BY LenProperties
  <2>2. PICK T : T = {n \in DOMAIN s : s[n] \in S}
    OBVIOUS
  <2>3. PICK n \in T : \A m \in T : n <= m
    <3>1. T \in SUBSET Nat /\ T # {}
      BY <1>2, <2>1, <2>2
    <3> QED BY <3>1, LeastNatural
  <2>4. first(n)
    BY <2>1, <2>2, <2>3
  <2>5. PICK p : first(p) /\ FirstIn(s, S) = s[p]
    <3>1. FirstIn(s, S) = s[CHOOSE p \in DOMAIN s : s[p] \in S /\ \A m \in 1 .. p - 1 : s[m] \notin S]
      BY <1>2 DEF FirstIn
    <3> QED BY <2>4, <3>1
  <2> QED BY <2>5 DEF ToSet
<1> QED BY <1>1, <1>2

(* Going around the paths meets no others.                                 *)
LEMMA AroundProperties ==
  ASSUME NEW h \in Channel, h.current # NoPath => h.current \in ToSet(h.io_paths)
  PROVE  Around(h) \in Seq(Ctrlrs) /\ ToSet(Around(h)) \subseteq ToSet(h.io_paths)
<1>1. PICK s \in Seq(Ctrlrs) : s = h.io_paths
  BY DEF Channel
<1>2. DOMAIN s = 1 .. Len(s) /\ Len(s) \in Nat /\ \A i \in DOMAIN s : s[i] \in Ctrlrs
  BY LenProperties, ElementOfSeq
<1>3. PICK n \in 0 .. Len(s) : Around(h) = SubSeq(s, n + 1, Len(s)) \o SubSeq(s, 1, n)
  <2>1. PICK n : n = IF h.current = NoPath THEN 0 ELSE CHOOSE m \in DOMAIN s : s[m] = h.current
    OBVIOUS
  <2>2. Around(h) = SubSeq(s, n + 1, Len(s)) \o SubSeq(s, 1, n)
    BY <1>1, <2>1 DEF Around
  <2>3. n \in 0 .. Len(s)
    <3>1. CASE h.current = NoPath
      BY <1>2, <2>1, <3>1
    <3>2. CASE h.current # NoPath
      <4>1. \E m \in DOMAIN s : s[m] = h.current
        BY <1>1, <3>2 DEF ToSet
      <4>2. n \in DOMAIN s
        BY <2>1, <3>2, <4>1
      <4> QED BY <1>2, <4>2
    <3> QED BY <3>1, <3>2
  <2> QED BY <2>2, <2>3
<1>4. PICK a \in Seq(Ctrlrs) : a = SubSeq(s, n + 1, Len(s)) /\ ToSet(a) \subseteq ToSet(s)
  <2>1. n + 1 \in Int /\ Len(s) \in Int /\ \A i \in n + 1 .. Len(s) : s[i] \in Ctrlrs
    BY <1>2
  <2>2. PICK a \in Seq(Ctrlrs) : a = SubSeq(s, n + 1, Len(s))
    BY <2>1, SubSeqProperties
  <2>3. /\ Len(a) = IF n + 1 <= Len(s) THEN Len(s) - (n + 1) + 1 ELSE 0
        /\ \A i \in 1 .. Len(s) - (n + 1) + 1 : a[i] = s[n + 1 + i - 1]
    BY <2>1, <2>2, SubSeqProperties
  <2>4. Len(a) = Len(s) - n /\ \A i \in 1 .. Len(s) - n : a[i] = s[n + i]
    <3>1. Len(s) - (n + 1) + 1 = Len(s) - n /\ Len(s) \in Nat /\ n \in 0 .. Len(s)
      BY <1>2
    <3>2. \A i \in 1 .. Len(s) - n : n + 1 + i - 1 = n + i
      OBVIOUS
    <3>3. Len(a) = Len(s) - n
      <4>1. CASE n + 1 <= Len(s)
        <5>1. Len(a) = Len(s) - (n + 1) + 1
          BY <2>3, <4>1
        <5> QED BY <3>1, <5>1
      <4>2. CASE ~(n + 1 <= Len(s))
        <5>1. Len(a) = 0
          BY <2>3, <4>2
        <5>2. PICK l \in Nat : l = Len(s)
          BY <3>1
        <5>3. n \in Nat /\ n <= l /\ ~(n + 1 <= l)
          BY <4>2, <5>2
        <5>4. l - n = 0
          BY <5>3
        <5> QED BY <5>1, <5>2, <5>4
      <4> QED BY <4>1, <4>2
    <3>4. ASSUME NEW i \in 1 .. Len(s) - n PROVE a[i] = s[n + i]
      BY <2>3, <3>1, <3>2
    <3> QED BY <3>3, <3>4
  <2>5. ASSUME NEW i \in DOMAIN a PROVE a[i] \in ToSet(s)
    <3>1. i \in 1 .. Len(s) - n
      BY <2>4, LenProperties
    <3>2. n + i \in DOMAIN s
      BY <1>2, <3>1
    <3> QED BY <2>4, <3>1, <3>2 DEF ToSet
  <2> QED BY <2>2, <2>5 DEF ToSet
<1>5. PICK b \in Seq(Ctrlrs) : b = SubSeq(s, 1, n) /\ ToSet(b) \subseteq ToSet(s)
  <2>1. 1 \in Int /\ n \in Int /\ \A i \in 1 .. n : s[i] \in Ctrlrs
    BY <1>2
  <2>2. PICK b \in Seq(Ctrlrs) : b = SubSeq(s, 1, n)
    BY <2>1, SubSeqProperties
  <2>3. /\ Len(b) = IF 1 <= n THEN n - 1 + 1 ELSE 0
        /\ \A i \in 1 .. n - 1 + 1 : b[i] = s[1 + i - 1]
    BY <2>1, <2>2, SubSeqProperties
  <2>4. Len(b) = n /\ \A i \in 1 .. n : b[i] = s[i]
    BY <1>2, <2>3
  <2>5. ASSUME NEW i \in DOMAIN b PROVE b[i] \in ToSet(s)
    <3>1. i \in 1 .. n
      BY <2>4, LenProperties
    <3>2. i \in DOMAIN s
      BY <1>2, <3>1
    <3> QED BY <2>4, <3>1, <3>2 DEF ToSet
  <2> QED BY <2>2, <2>5 DEF ToSet
<1>6. PICK t \in Seq(Ctrlrs) : /\ t = a \o b /\ Len(t) = Len(a) + Len(b)
                               /\ \A i \in 1 .. Len(a) + Len(b) :
                                    t[i] = IF i <= Len(a) THEN a[i] ELSE b[i - Len(a)]
  <2>1. PICK t \in Seq(Ctrlrs) : t = a \o b
    BY ConcatProperties
  <2>2. /\ Len(t) = Len(a) + Len(b)
        /\ \A i \in 1 .. Len(a) + Len(b) : t[i] = IF i <= Len(a) THEN a[i] ELSE b[i - Len(a)]
    BY <2>1, ConcatProperties
  <2> QED BY <2>1, <2>2
<1>7. ASSUME NEW i \in DOMAIN t PROVE t[i] \in ToSet(s)
  <2>1. /\ i \in 1 .. Len(a) + Len(b) /\ Len(a) \in Nat /\ Len(b) \in Nat
        /\ DOMAIN a = 1 .. Len(a) /\ DOMAIN b = 1 .. Len(b)
    BY <1>6, LenProperties
  <2>2. CASE i <= Len(a)
    <3>1. i \in DOMAIN a
      BY <2>1, <2>2
    <3> QED BY <1>4, <1>6, <2>1, <2>2, <3>1 DEF ToSet
  <2>3. CASE ~(i <= Len(a))
    <3>1. i - Len(a) \in DOMAIN b
      BY <2>1, <2>3
    <3> QED BY <1>5, <1>6, <2>1, <2>3, <3>1 DEF ToSet
  <2> QED BY <2>2, <2>3
<1>8. Around(h) = t
  BY <1>3, <1>4, <1>5, <1>6
<1>9. ToSet(t) \subseteq ToSet(s)
  BY <1>7 DEF ToSet
<1> QED BY <1>1, <1>8, <1>9

(* h is channel k but for the path it caches, which is one of its paths    *)
(* and has a qpair.                                                        *)
Kept(k, h) ==
  /\ h \in Channel /\ h.open = ch[k].open /\ h.io_paths = ch[k].io_paths
  /\ h.current # NoPath => h.current \in ToSet(h.io_paths) /\ conn[h.current][k] # "down"

(* A channel stays Kept when it forgets the cached path, or when its       *)
(* counter or its poller changes.                                          *)
LEMMA KeptProperties ==
  ASSUME NEW k \in Channels, NEW h, Kept(k, h)
  PROVE  /\ Kept(k, ClearCurrent(h))
         /\ \A b \in BOOLEAN : Kept(k, [h EXCEPT !.poller = b])
         /\ \A n \in 0 .. RrMinIo - 1 : Kept(k, [h EXCEPT !.rr = n])
         /\ \A c \in ToSet(h.io_paths) : conn[c][k] # "down" => Kept(k, [h EXCEPT !.current = c])
<1>1. h \in Channel /\ 0 \in 0 .. RrMinIo - 1
  BY DEF Kept
<1>2. Kept(k, ClearCurrent(h))
  <2>1. PICK g \in Channel : g = [h EXCEPT !.current = NoPath]
    BY <1>1 DEF Channel
  <2>2. PICK f \in Channel : f = [g EXCEPT !.rr = 0]
    BY <1>1 DEF Channel
  <2>3. f = ClearCurrent(h)
    BY <2>1, <2>2 DEF ClearCurrent
  <2>4. f.open = h.open /\ f.io_paths = h.io_paths /\ f.current = NoPath
    BY <1>1, <2>1, <2>2 DEF Channel
  <2> QED BY <2>3, <2>4 DEF Kept
<1>3. ASSUME NEW b \in BOOLEAN PROVE Kept(k, [h EXCEPT !.poller = b])
  <2>1. PICK f \in Channel : f = [h EXCEPT !.poller = b]
    BY <1>1 DEF Channel
  <2>2. f.open = h.open /\ f.io_paths = h.io_paths /\ f.current = h.current
    BY <1>1, <2>1 DEF Channel
  <2> QED BY <2>1, <2>2 DEF Kept
<1>4. ASSUME NEW n \in 0 .. RrMinIo - 1 PROVE Kept(k, [h EXCEPT !.rr = n])
  <2>1. PICK f \in Channel : f = [h EXCEPT !.rr = n]
    BY <1>1 DEF Channel
  <2>2. f.open = h.open /\ f.io_paths = h.io_paths /\ f.current = h.current
    BY <1>1, <2>1 DEF Channel
  <2> QED BY <2>1, <2>2 DEF Kept
<1>5. ASSUME NEW c \in ToSet(h.io_paths), conn[c][k] # "down"
      PROVE  Kept(k, [h EXCEPT !.current = c])
  <2>1. c \in Ctrlrs
    <3>1. h.io_paths \in Seq(Ctrlrs)
      BY <1>1 DEF Channel
    <3> QED BY <3>1, ElementOfSeq DEF ToSet
  <2>2. PICK f \in Channel : f = [h EXCEPT !.current = c]
    BY <1>1, <2>1 DEF Channel
  <2>3. f.open = h.open /\ f.io_paths = h.io_paths /\ f.current = c
    BY <1>1, <2>2 DEF Channel
  <2> QED BY <1>5, <2>2, <2>3 DEF Kept
<1> QED BY <1>2, <1>3, <1>4, <1>5

(* Find leaves the channel Kept and answers one of its paths.              *)
LEMMA FindProperties ==
  ASSUME NEW k \in Channels, TypeOK, Kept(k, ch[k])
  PROVE  /\ Kept(k, Find(k).h)
         /\ Find(k).path # NoPath => Find(k).path \in ToSet(ch[k].io_paths)
<1> DEFINE h == ch[k]
           f == Find(k)
<1>1. /\ h \in Channel /\ h.io_paths \in Seq(Ctrlrs) /\ h.rr \in 0 .. RrMinIo - 1
      /\ h.current # NoPath => h.current \in ToSet(h.io_paths)
      /\ h.poller \in BOOLEAN
  BY DEF Kept, Channel
<1>2. 0 \in 0 .. RrMinIo - 1
  OBVIOUS
<1>3. CASE h.current # NoPath /\ policy = "active_passive"
  <2>1. f = [path |-> h.current, h |-> h]
    BY <1>3 DEF Find
  <2> QED BY <1>1, <1>3, <2>1
<1>4. CASE h.current # NoPath /\ policy = "round_robin" /\ h.rr + 1 < RrMinIo
  <2>1. f = [path |-> h.current, h |-> [h EXCEPT !.rr = @ + 1]]
    BY <1>4 DEF Find
  <2>2. PICK n \in 0 .. RrMinIo - 1 : n = h.rr + 1
    BY <1>1, <1>4
  <2>3. f.h = [h EXCEPT !.rr = n] /\ f.path = h.current
    BY <2>1, <2>2
  <2> QED BY <1>1, <1>4, <2>3, KeptProperties
<1>5. CASE policy = "queue_depth"
  <2>1. f = FindMinQd(k)
    BY <1>5 DEF Find
  <2>2. PICK S, T : f = [path |-> IF FirstIn(h.io_paths, S) # NoPath THEN FirstIn(h.io_paths, S)
                                  ELSE FirstIn(h.io_paths, T), h |-> h]
    BY <2>1 DEF FindMinQd
  <2> QED BY <1>1, <2>2, FirstInProperties
<1>6. CASE policy # "queue_depth" /\ ~(h.current # NoPath /\ policy = "active_passive")
           /\ ~(h.current # NoPath /\ policy = "round_robin" /\ h.rr + 1 < RrMinIo)
  <2> DEFINE g == FindNext(k)
  <2>1. f = IF h.current = NoPath THEN g ELSE [g EXCEPT !.h.rr = 0]
    BY <1>6 DEF Find
  <2>2. Around(h) \in Seq(Ctrlrs) /\ ToSet(Around(h)) \subseteq ToSet(h.io_paths)
    BY <1>1, AroundProperties
  <2>3. PICK o : /\ o = FirstIn(Around(h), With(k, "optimized"))
                 /\ o = NoPath \/ (o \in ToSet(h.io_paths) /\ Connected(k, o))
    <3>1. PICK o : o = FirstIn(Around(h), With(k, "optimized"))
      OBVIOUS
    <3>2. o = NoPath \/ (o \in ToSet(Around(h)) /\ o \in With(k, "optimized"))
      BY <2>2, <3>1, FirstInProperties
    <3> QED BY <2>2, <3>1, <3>2 DEF With
  <2>4. PICK n : /\ n = FirstIn(Around(h), With(k, "non_optimized"))
                 /\ n = NoPath \/ (n \in ToSet(h.io_paths) /\ Connected(k, n))
    <3>1. PICK n : n = FirstIn(Around(h), With(k, "non_optimized"))
      OBVIOUS
    <3>2. n = NoPath \/ (n \in ToSet(Around(h)) /\ n \in With(k, "non_optimized"))
      BY <2>2, <3>1, FirstInProperties
    <3> QED BY <2>2, <3>1, <3>2 DEF With
  <2>5. \A c : Connected(k, c) => conn[c][k] # "down"
    BY DEF Connected
  <2>6. Kept(k, [h EXCEPT !.current = NoPath])
    <3>1. PICK e \in Channel : e = [h EXCEPT !.current = NoPath]
      BY <1>1 DEF Channel
    <3>2. e.open = h.open /\ e.io_paths = h.io_paths /\ e.current = NoPath
      BY <1>1, <3>1 DEF Channel
    <3> QED BY <3>1, <3>2 DEF Kept
  <2>7. PICK p, e : g = [path |-> p, h |-> e] /\ Kept(k, e) /\ (p # NoPath => p \in ToSet(h.io_paths))
    <3>1. CASE o # NoPath
      <4>1. g = [path |-> o, h |-> [h EXCEPT !.current = o]]
        BY <2>3, <3>1 DEF FindNext
      <4>2. Kept(k, [h EXCEPT !.current = o])
        BY <2>3, <2>5, <3>1, KeptProperties
      <4> QED BY <2>3, <4>1, <4>2
    <3>2. CASE o = NoPath /\ policy = "active_passive"
      <4>1. g = [path |-> n, h |-> h]
        BY <2>3, <2>4, <3>2 DEF FindNext
      <4> QED BY <2>4, <4>1
    <3>3. CASE o = NoPath /\ policy # "active_passive"
      <4>1. g = [path |-> n, h |-> [h EXCEPT !.current = n]]
        BY <2>3, <2>4, <3>3 DEF FindNext
      <4>2. Kept(k, [h EXCEPT !.current = n])
        BY <2>4, <2>5, <2>6, KeptProperties
      <4> QED BY <2>4, <4>1, <4>2
    <3> QED BY <3>1, <3>2, <3>3
  <2> HIDE DEF g
  <2>8. [g EXCEPT !.h.rr = 0].h = [e EXCEPT !.rr = 0] /\ [g EXCEPT !.h.rr = 0].path = p
    BY <2>7
  <2>9. Kept(k, [e EXCEPT !.rr = 0])
    BY <1>2, <2>7, KeptProperties
  <2> QED BY <2>1, <2>7, <2>8, <2>9
<1> QED BY <1>3, <1>4, <1>5, <1>6

-----------------------------------------------------------------------------
(* Steps that change no channel's paths.                                   *)

(* A request's path is one of its channel's.                               *)
Points(r) ==
  /\ r \in Io
  /\ r.state # "idle" /\ r.path # NoPath => r.path \in ToSet(ch[r.at].io_paths)

(* What Sound says of the channels and the requests as they are.           *)
LEMMA NowSound ==
  ASSUME Inv, ~fault
  PROVE  TypeOK /\ Sound /\ (\A k \in Channels : Kept(k, ch[k])) /\ (\A i \in Ios : Points(io[i]))
<1>1. TypeOK /\ Sound
  BY DEF Inv
<1>2. ASSUME NEW k \in Channels PROVE Kept(k, ch[k])
  BY <1>1 DEF TypeOK, Sound, PathsAreLive, Kept
<1>3. ASSUME NEW i \in Ios PROVE Points(io[i])
  <2>1. io[i] \in Io /\ io[i].at \in Channels
    BY <1>1 DEF TypeOK, Io
  <2> QED BY <1>1, <2>1 DEF Sound, PathsAreLive, Points, On, Active
<1> QED BY <1>1, <1>2, <1>3

(* Inv remains when only caches, requests, connections and ANA states      *)
(* change, each as it may.                                                 *)
LEMMA CachesChange ==
  ASSUME Inv, ~fault, UNCHANGED <<sump, policy, ns_list, jobs, fault>>,
         ns' \in [Ctrlrs -> Namespace], \A c \in Ctrlrs : ns'[c].life = ns[c].life,
         ch' \in [Channels -> Channel], \A k \in Channels : Kept(k, ch'[k]),
         DOMAIN io' = Ios, io' = [i \in Ios |-> io'[i]], \A i \in Ios : Points(io'[i]),
         conn' \in [Ctrlrs -> [Channels -> Connection]],
         \A c \in Ctrlrs, k \in Channels :
           conn'[c][k] = "down" => conn[c][k] = "down" \/ ch'[k].current # c,
         clearing' \in [Ctrlrs -> 0 .. M], events' \in 0 .. MaxEvents
  PROVE  Inv'
<1>1. TypeOK /\ Sound
  BY DEF Inv
<1>2. TypeOK'
  <2>1. io' \in [Ios -> Io]
    BY DEF Points
  <2> QED BY <1>1, <2>1 DEF TypeOK
<1>3. \A k \in Channels : ch'[k].open = ch[k].open /\ ch'[k].io_paths = ch[k].io_paths
  BY DEF Kept
<1>4. InOrder(jobs') /\ IsInjective(ns_list')
  BY <1>1 DEF Sound
<1>5. NamespacesOK'
  <2>1. \A c \in Ctrlrs : /\ c \in ToSet(ns_list) <=> ns[c].life \in {"adding", "present"}
                          /\ Tells(jobs, ns[c].life, c)
    BY <1>1 DEF Sound, NamespacesOK
  <2> QED BY <2>1 DEF NamespacesOK
<1>6. ClosedAreEmpty'
  BY <1>1, <1>3 DEF Sound, ClosedAreEmpty
<1>7. PathsAreLive'
  <2>1. ASSUME NEW k \in Channels, ch'[k].current # NoPath
        PROVE  ch'[k].current \in ToSet(ch'[k].io_paths) /\ conn'[ch'[k].current][k] # "down"
    BY <2>1 DEF Kept, Channel
  <2>2. ASSUME NEW k \in Channels, NEW i \in Ios, io'[i].state # "idle", io'[i].at = k,
               io'[i].path # NoPath
        PROVE  io'[i].path \in ToSet(ch'[k].io_paths)
    BY <1>3, <2>2 DEF Points
  <2> QED BY <2>1, <2>2 DEF PathsAreLive, On, Active
<1>8. ListsAgree'
  <2>1. \A c, k : Changing(c, k)' <=> Changing(c, k)
    BY DEF Changing
  <2> QED BY <1>1, <1>3, <2>1 DEF Sound, ListsAgree
<1> QED BY <1>2, <1>4, <1>5, <1>6, <1>7, <1>8 DEF Inv, Sound

ChannelsKept == ch' \in [Channels -> Channel] /\ \A k \in Channels : Kept(k, ch'[k])

RequestsPoint ==
  DOMAIN io' = Ios /\ io' = [i \in Ios |-> io'[i]] /\ \A i \in Ios : Points(io'[i])

(* One channel changes as it may.                                          *)
LEMMA OneChannel ==
  ASSUME Inv, ~fault, NEW k \in Channels, NEW h, Kept(k, h),
         ch' = [ch EXCEPT ![k] = h]
  PROVE  ChannelsKept
<1>1. ch \in [Channels -> Channel] /\ \A i \in Channels : Kept(i, ch[i])
  BY NowSound DEF TypeOK
<1>2. h \in Channel
  BY DEF Kept
<1> QED BY <1>1, <1>2 DEF ChannelsKept

(* The same of a request.                                                  *)
LEMMA OneRequest ==
  ASSUME Inv, ~fault, NEW i \in Ios, NEW r, Points(r), io' = [io EXCEPT ![i] = r]
  PROVE  RequestsPoint
<1>1. io \in [Ios -> Io] /\ \A j \in Ios : Points(io[j])
  BY NowSound DEF TypeOK
<1> QED BY <1>1 DEF RequestsPoint

(* No channel changes.                                                     *)
LEMMA NoChannel == ASSUME Inv, ~fault, UNCHANGED ch PROVE ChannelsKept
BY NowSound DEF ChannelsKept, TypeOK

(* No request changes.                                                     *)
LEMMA NoRequest == ASSUME Inv, ~fault, UNCHANGED io PROVE RequestsPoint
BY NowSound DEF RequestsPoint, TypeOK

(* A request is answered.                                                  *)
LEMMA Answered == ASSUME Inv, ~fault, NEW i \in Ios, io' = Answer(i) PROVE RequestsPoint
<1>1. Points(Idle)
  BY DEF Points, Idle, Io
<1> QED BY <1>1, OneRequest DEF Answer

(* A request is sent, or waits for a buffer, on a path of the channel.     *)
LEMMA OnPath ==
  ASSUME Inv, ~fault, NEW i \in Ios, NEW k \in Channels, NEW s \in {"sent", "buffer"},
         NEW path \in ToSet(ch[k].io_paths),
         io' = [io EXCEPT ![i].state = s, ![i].at = k, ![i].path = path]
  PROVE  RequestsPoint
<1>1. io \in [Ios -> Io] /\ io[i] \in Io
  BY NowSound DEF TypeOK
<1>2. path \in Ctrlrs
  <2>1. ch[k].io_paths \in Seq(Ctrlrs)
    BY NowSound DEF TypeOK, Channel
  <2> QED BY <2>1, ElementOfSeq DEF ToSet
<1>3. PICK r \in Io : r = [[[io[i] EXCEPT !.state = s] EXCEPT !.at = k] EXCEPT !.path = path]
  <2>1. PICK a \in Io : a = [io[i] EXCEPT !.state = s]
    BY <1>1 DEF Io
  <2>2. PICK b \in Io : b = [a EXCEPT !.at = k]
    BY DEF Io
  <2>3. PICK d \in Io : d = [b EXCEPT !.path = path]
    BY <1>2 DEF Io
  <2> QED BY <2>1, <2>2, <2>3
<1>4. r.at = k /\ r.path = path
  BY <1>1, <1>3 DEF Io
<1>5. Points(r)
  BY <1>4 DEF Points
<1>6. io' = [io EXCEPT ![i] = r]
  BY <1>1, <1>3
<1> QED BY <1>5, <1>6, OneRequest

(* A channel that may have been made to forget its path.                   *)
LEMMA ForgetKeeps ==
  ASSUME Inv, NEW k \in Channels, NEW h, Kept(k, h) PROVE Kept(k, Forget(h))
BY KeptProperties DEF Forget

(* A request is submitted on a path its channel has.                       *)
LEMMA SubmitOnKeeps ==
  ASSUME Inv, ~fault, NEW i \in Ios, NEW k \in Channels, NEW h, Kept(k, h),
         NEW path \in ToSet(ch[k].io_paths), SubmitOn(i, k, path, h)
  PROVE  ChannelsKept /\ RequestsPoint
<1>1. Kept(k, Forget(h))
  BY ForgetKeeps
<1>2. CASE /\ io' = [io EXCEPT ![i].state = "sent", ![i].at = k, ![i].path = path]
           /\ ch' = [ch EXCEPT ![k] = h]
  BY <1>2, OnPath, OneChannel
<1>3. CASE /\ io' = [io EXCEPT ![i].state = "buffer", ![i].at = k, ![i].path = path]
           /\ ch' = [ch EXCEPT ![k] = h]
  BY <1>3, OnPath, OneChannel
<1>4. CASE /\ io' = Answer(i)
           /\ ch' \in {[ch EXCEPT ![k] = h], [ch EXCEPT ![k] = Forget(h)]}
  BY <1>1, <1>4, Answered, OneChannel
<1> QED BY <1>2, <1>3, <1>4 DEF SubmitOn

(* A request is submitted on the path Find chooses.                        *)
LEMMA SubmitRequestKeeps ==
  ASSUME Inv, ~fault, NEW i \in Ios, NEW k \in Channels, NEW b \in BOOLEAN,
         SubmitRequest(i, k, b), ~FollowsNull(k)
  PROVE  ChannelsKept /\ RequestsPoint /\ UNCHANGED fault
<1>0. UNCHANGED fault
  BY DEF SubmitRequest
<1>1. TypeOK /\ Kept(k, ch[k])
  BY NowSound
<1>2. PICK f : f = Find(k) /\ Kept(k, f.h) /\ (f.path # NoPath => f.path \in ToSet(ch[k].io_paths))
  BY <1>1, FindProperties
<1>3. PICK h : h = [f.h EXCEPT !.poller = b] /\ Kept(k, h)
  BY <1>2, KeptProperties
<1>4. Kept(k, Forget(h))
  BY <1>3, ForgetKeeps
<1>a. IF f.path = NoPath
      THEN io' = Answer(i) /\ ch' = [ch EXCEPT ![k] = Forget(h)]
      ELSE SubmitOn(i, k, f.path, h)
  <2>1. LET g == Find(k)
            d == [g.h EXCEPT !.poller = b]
        IN  IF g.path = NoPath
            THEN io' = Answer(i) /\ ch' = [ch EXCEPT ![k] = Forget(d)]
            ELSE SubmitOn(i, k, g.path, d)
    BY Zenon DEF SubmitRequest
  <2> QED BY <1>2, <1>3, <2>1, Zenon
<1>5. CASE f.path = NoPath
  <2>1. io' = Answer(i) /\ ch' = [ch EXCEPT ![k] = Forget(h)]
    BY <1>a, <1>5
  <2> QED BY <1>0, <1>4, <2>1, Answered, OneChannel
<1>6. CASE f.path # NoPath
  <2>1. SubmitOn(i, k, f.path, h)
    BY <1>a, <1>6
  <2> QED BY <1>0, <1>2, <1>3, <1>6, <2>1, SubmitOnKeeps
<1> QED BY <1>0, <1>5, <1>6

(* A step that leaves the connections and the namespaces alone.            *)
LEMMA QuietStep ==
  ASSUME Inv, ~fault, ChannelsKept, RequestsPoint,
         UNCHANGED <<sump, policy, ns_list, conn, jobs, fault>>,
         ns' \in [Ctrlrs -> Namespace], \A c \in Ctrlrs : ns'[c].life = ns[c].life,
         clearing' \in [Ctrlrs -> 0 .. M], events' \in 0 .. MaxEvents
  PROVE  Inv'
<1>1. conn' \in [Ctrlrs -> [Channels -> Connection]]
  BY DEF Inv, TypeOK
<1>2. \A c \in Ctrlrs, k \in Channels :
        conn'[c][k] = "down" => conn[c][k] = "down" \/ ch'[k].current # c
  OBVIOUS
<1> QED BY <1>1, <1>2, CachesChange DEF ChannelsKept, RequestsPoint

(* The types of what a step leaves alone.                                  *)
LEMMA StillTyped ==
  ASSUME Inv
  PROVE  /\ UNCHANGED ns => ns' \in [Ctrlrs -> Namespace] /\ \A c \in Ctrlrs : ns'[c].life = ns[c].life
         /\ UNCHANGED clearing => clearing' \in [Ctrlrs -> 0 .. M]
         /\ UNCHANGED events => events' \in 0 .. MaxEvents
         /\ Event => events' \in 0 .. MaxEvents
BY DEF Inv, TypeOK, Event

(* A step that goes wrong and changes nothing else.                        *)
LEMMA CrashStep ==
  ASSUME Inv, fault' = TRUE,
         UNCHANGED <<sump, policy, ns_list, ns, conn, ch, io, jobs, clearing, events>>
  PROVE  Inv'
BY DEF Inv, TypeOK

-----------------------------------------------------------------------------
(* Requests, one lemma an action.                                          *)

(* Submit keeps Inv.                                                       *)
LEMMA SubmitStep ==
  ASSUME Inv, ~fault, NEW i \in Ios, NEW k \in Channels, Submit(i, k)
  PROVE  Inv'
<1>1. ch[k].poller \in BOOLEAN
  BY NowSound DEF TypeOK, Channel
<1>2. CASE FollowsNull(k)
  <2>1. fault' = TRUE /\ UNCHANGED <<ch, io>>
    BY <1>2 DEF Submit, SubmitRequest
  <2> QED BY <2>1, CrashStep DEF Submit
<1>3. CASE ~FollowsNull(k)
  <2>1. ChannelsKept /\ RequestsPoint /\ UNCHANGED fault
    BY <1>1, <1>3, SubmitRequestKeeps DEF Submit
  <2> QED BY <2>1, QuietStep, StillTyped DEF Submit
<1> QED BY <1>2, <1>3

(* A request's channel, as the lemmas above take it.                       *)
LEMMA ItsChannel ==
  ASSUME Inv, ~fault, NEW i \in Ios
  PROVE  /\ io[i] \in Io /\ io[i].at \in Channels /\ ch[io[i].at] \in Channel
         /\ Kept(io[i].at, ch[io[i].at]) /\ Kept(io[i].at, Forget(ch[io[i].at]))
         /\ Points(io[i])
<1>1. io[i] \in Io /\ Points(io[i])
  BY NowSound DEF TypeOK
<1>2. io[i].at \in Channels
  BY <1>1 DEF Io
<1>3. ch[io[i].at] \in Channel /\ Kept(io[i].at, ch[io[i].at])
  BY <1>2, NowSound DEF TypeOK
<1> QED BY <1>1, <1>2, <1>3, ForgetKeeps

(* A request's state or its retries change.                                *)
LEMMA StillPoints ==
  ASSUME Inv, ~fault, NEW i \in Ios, Active(i)
  PROVE  /\ Points([io[i] EXCEPT !.state = "sent"])
         /\ io[i].retries < RetryCount =>
              Points([[io[i] EXCEPT !.state = "retry"] EXCEPT !.retries = @ + 1])
<1>1. io[i] \in Io /\ Points(io[i]) /\ io[i].state # "idle"
  BY ItsChannel DEF Active
<1>2. ASSUME NEW s \in {"sent", "retry"}
      PROVE  Points([io[i] EXCEPT !.state = s]) /\ [io[i] EXCEPT !.state = s].state = s
  <2>1. PICK r \in Io : r = [io[i] EXCEPT !.state = s]
    BY <1>1 DEF Io
  <2>2. r.state = s /\ r.path = io[i].path /\ r.at = io[i].at
    BY <1>1, <2>1 DEF Io
  <2> QED BY <1>1, <2>1, <2>2 DEF Points
<1>3. ASSUME io[i].retries < RetryCount
      PROVE  Points([[io[i] EXCEPT !.state = "retry"] EXCEPT !.retries = @ + 1])
  <2>1. PICK r \in Io : /\ r = [io[i] EXCEPT !.state = "retry"] /\ r.retries = io[i].retries
                        /\ Points(r) /\ r.state = "retry"
    BY <1>1, <1>2 DEF Points, Io
  <2>2. PICK n \in 0 .. RetryCount : n = r.retries + 1
    BY <1>3, <2>1 DEF Io
  <2>3. PICK t \in Io : t = [r EXCEPT !.retries = n]
    BY DEF Io
  <2>4. t.state = r.state /\ t.path = r.path /\ t.at = r.at
    BY <2>3 DEF Io
  <2>5. Points(t)
    BY <2>1, <2>4 DEF Points
  <2> QED BY <2>1, <2>2, <2>3, <2>5
<1> QED BY <1>2, <1>3


(* BufferReady keeps Inv.                                                  *)
LEMMA BufferReadyStep ==
  ASSUME Inv, ~fault, NEW i \in Ios, BufferReady(i)
  PROVE  Inv'
<1>1. PICK k \in Channels : k = io[i].at /\ Kept(k, Forget(ch[k]))
  BY ItsChannel
<1>2. ChannelsKept /\ RequestsPoint
  <2>1. CASE io' = [io EXCEPT ![i].state = "sent"] /\ UNCHANGED ch
    <3>1. io' = [io EXCEPT ![i] = [io[i] EXCEPT !.state = "sent"]]
      BY <2>1
    <3>2. Points([io[i] EXCEPT !.state = "sent"])
      BY StillPoints DEF BufferReady, Active
    <3> QED BY <2>1, <3>1, <3>2, NoChannel, OneRequest
  <2>2. CASE io' = Answer(i) /\ ch' \in {ch, [ch EXCEPT ![k] = Forget(@)]}
    <3>1. UNCHANGED ch \/ ch' = [ch EXCEPT ![k] = Forget(ch[k])]
      BY <2>2
    <3> QED BY <1>1, <2>2, <3>1, Answered, NoChannel, OneChannel
  <2> QED BY <1>1, <2>1, <2>2 DEF BufferReady
<1> QED BY <1>2, QuietStep, StillTyped DEF BufferReady

(* Completed keeps Inv.                                                    *)
LEMMA CompletedStep ==
  ASSUME Inv, ~fault, NEW i \in Ios, Completed(i) \/ AbortRetry(i)
  PROVE  Inv'
<1>1. ChannelsKept /\ RequestsPoint
  BY NoChannel, Answered DEF Completed, AbortRetry
<1> QED BY <1>1, QuietStep, StillTyped DEF Completed, AbortRetry

(* CompletedPathError keeps Inv.                                           *)
LEMMA CompletedPathErrorStep ==
  ASSUME Inv, ~fault, NEW i \in Ios, CompletedPathError(i)
  PROVE  Inv'
<1>1. /\ io[i].at \in Channels /\ Kept(io[i].at, Forget(ch[io[i].at]))
      /\ io' = Answer(i)
      /\ ch' = [ch EXCEPT ![io[i].at] = Forget(ch[io[i].at])]
  BY ItsChannel DEF CompletedPathError
<1>2. ChannelsKept /\ RequestsPoint
  BY <1>1, OneChannel, Answered
<1>3. CASE UNCHANGED <<ns, events>>
  BY <1>2, <1>3, QuietStep, StillTyped DEF CompletedPathError
<1>4. CASE ~ UNCHANGED <<ns, events>>
  <2>1. PICK late \in BOOLEAN :
          ns' = [ns EXCEPT ![io[i].path].updating = TRUE, ![io[i].path].reading = ~late]
    BY <1>4 DEF CompletedPathError
  <2>2. ns' \in [Ctrlrs -> Namespace] /\ \A c \in Ctrlrs : ns'[c].life = ns[c].life
    <3>1. CASE io[i].path \in Ctrlrs
      <4>1. PICK m \in Namespace : m = [[ns[io[i].path] EXCEPT !.updating = TRUE] EXCEPT !.reading = ~late]
        <5>1. ns[io[i].path] \in Namespace
          BY <3>1, NowSound DEF TypeOK
        <5>2. PICK a \in Namespace : a = [ns[io[i].path] EXCEPT !.updating = TRUE]
          BY <5>1 DEF Namespace
        <5>3. PICK b \in Namespace : b = [a EXCEPT !.reading = ~late]
          BY DEF Namespace
        <5> QED BY <5>2, <5>3
      <4>2. ns' = [ns EXCEPT ![io[i].path] = m]
        BY <2>1, <4>1
      <4>3. m.life = ns[io[i].path].life
        BY <3>1, <4>1, NowSound DEF TypeOK, Namespace
      <4> QED BY <3>1, <4>2, <4>3, NowSound DEF TypeOK
    <3>2. CASE io[i].path \notin Ctrlrs
      <4>1. ns' = ns
        BY <2>1, <3>2, NowSound DEF TypeOK
      <4> QED BY <4>1, StillTyped
    <3> QED BY <3>1, <3>2
  <2> QED BY <1>2, <1>4, <2>2, QuietStep, StillTyped DEF CompletedPathError
<1> QED BY <1>3, <1>4

(* CompletedRetried keeps Inv.                                             *)
LEMMA CompletedRetriedStep ==
  ASSUME Inv, ~fault, NEW i \in Ios, CompletedRetried(i)
  PROVE  Inv'
<1>1. PICK k \in Channels : k = io[i].at /\ Kept(k, ch[k]) /\ ch[k].poller \in BOOLEAN
  BY ItsChannel DEF Channel
<1>2. CASE sump
  <2>1. fault' = TRUE /\ UNCHANGED <<ch, io>>
    BY <1>2 DEF CompletedRetried
  <2> QED BY <2>1, CrashStep DEF CompletedRetried
<1>3. CASE ~sump
  <2>1. ChannelsKept
    <3>1. PICK head \in BOOLEAN : ch' = [ch EXCEPT ![k].poller = @ \/ head]
      BY <1>1, <1>3 DEF CompletedRetried, RetryPoller
    <3>2. PICK b \in BOOLEAN : b = (ch[k].poller \/ head)
      BY <1>1
    <3>3. ch' = [ch EXCEPT ![k] = [ch[k] EXCEPT !.poller = b]]
      BY <3>1, <3>2
    <3> QED BY <1>1, <3>3, KeptProperties, OneChannel
  <2>2. RequestsPoint
    <3>0. io' = [io EXCEPT ![i].state = "retry", ![i].retries = @ + 1]
      BY <1>3 DEF CompletedRetried
    <3>1. io' = [io EXCEPT ![i] = [[io[i] EXCEPT !.state = "retry"] EXCEPT !.retries = @ + 1]]
      BY <3>0
    <3>2. Points([[io[i] EXCEPT !.state = "retry"] EXCEPT !.retries = @ + 1])
      BY StillPoints DEF CompletedRetried, Active
    <3> QED BY <3>1, <3>2, OneRequest
  <2>3. UNCHANGED fault
    BY <1>3 DEF CompletedRetried
  <2> QED BY <2>1, <2>2, <2>3, QuietStep, StillTyped DEF CompletedRetried
<1> QED BY <1>2, <1>3

(* Retried keeps Inv.                                                      *)
LEMMA RetriedStep ==
  ASSUME Inv, ~fault, NEW i \in Ios, Retried(i)
  PROVE  Inv'
<1>1. PICK k \in Channels : k = io[i].at /\ Kept(k, ch[k])
  BY ItsChannel
<1>2. PICK more \in BOOLEAN :
        IF io[i].path # NoPath /\ Available(k, io[i].path)
        THEN SubmitOn(i, k, io[i].path, [ch[k] EXCEPT !.poller = more]) /\ UNCHANGED fault
        ELSE SubmitRequest(i, k, more)
  BY <1>1 DEF Retried
<1>3. CASE io[i].path # NoPath /\ Available(k, io[i].path)
  <2>1. io[i].path \in ToSet(ch[k].io_paths)
    BY <1>1, <1>3, ItsChannel DEF Points, Retried
  <2>2. PICK h : h = [ch[k] EXCEPT !.poller = more] /\ Kept(k, h)
    BY <1>1, KeptProperties
  <2>3. SubmitOn(i, k, io[i].path, h) /\ UNCHANGED fault
    BY <1>2, <1>3, <2>2
  <2>4. ChannelsKept /\ RequestsPoint
    BY <2>1, <2>2, <2>3, SubmitOnKeeps
  <2> QED BY <2>3, <2>4, QuietStep, StillTyped DEF Retried
<1>4. CASE ~(io[i].path # NoPath /\ Available(k, io[i].path))
  <2>1. SubmitRequest(i, k, more)
    BY <1>2, <1>4
  <2>2. CASE FollowsNull(k)
    <3>1. fault' = TRUE /\ UNCHANGED <<ch, io>>
      BY <2>1, <2>2 DEF SubmitRequest
    <3> QED BY <3>1, CrashStep DEF Retried
  <2>3. CASE ~FollowsNull(k)
    <3>1. ChannelsKept /\ RequestsPoint /\ UNCHANGED fault
      BY <2>1, <2>3, SubmitRequestKeeps
    <3> QED BY <3>1, QuietStep, StillTyped DEF Retried
  <2> QED BY <2>2, <2>3
<1> QED BY <1>3, <1>4

-----------------------------------------------------------------------------
(* Channels, connections and ANA states.                                   *)

(* The paths of channel k are the bdev's list, or none.                    *)
LEMMA OpenChannelStep ==
  ASSUME Inv, ~fault, NEW k \in Channels, OpenChannel(k)
  PROVE  Inv'
<1>1. TypeOK /\ Sound
  BY NowSound
<1>2. PICK h \in Channel : /\ h = [[ch[k] EXCEPT !.open = TRUE] EXCEPT !.io_paths = ns_list]
                           /\ h.open /\ h.io_paths = ns_list /\ h.current = ch[k].current
  <2>1. ch[k] \in Channel /\ ns_list \in Seq(Ctrlrs)
    BY <1>1 DEF TypeOK
  <2>2. PICK g \in Channel : g = [ch[k] EXCEPT !.open = TRUE]
    BY <2>1 DEF Channel
  <2>3. g.open /\ g.current = ch[k].current
    BY <2>1, <2>2 DEF Channel
  <2>4. PICK h \in Channel : h = [g EXCEPT !.io_paths = ns_list]
    BY <2>1 DEF Channel
  <2>5. h.open = g.open /\ h.io_paths = ns_list /\ h.current = g.current
    BY <2>4 DEF Channel
  <2> QED BY <2>2, <2>3, <2>4, <2>5
<1>3. ch' = [ch EXCEPT ![k] = h]
  BY <1>1, <1>2 DEF OpenChannel, TypeOK
<1>4. /\ ch'[k] = h /\ \A l \in Channels \ {k} : ch'[l] = ch[l]
      /\ ch' \in [Channels -> Channel]
  BY <1>1, <1>3 DEF TypeOK
<1>5. /\ ch[k].current = NoPath
      /\ \A i \in On(k) : io[i].path = NoPath
  <2>1. ch[k].io_paths = <<>>
    BY <1>1 DEF OpenChannel, Sound, ClosedAreEmpty
  <2>2. ToSet(ch[k].io_paths) = {}
    BY <2>1 DEF ToSet
  <2> QED BY <1>1, <2>2 DEF Sound, PathsAreLive
<1>6. TypeOK'
  BY <1>1, <1>4 DEF TypeOK, OpenChannel
<1>7. InOrder(jobs)' /\ IsInjective(ns_list') /\ NamespacesOK'
  BY <1>1 DEF Sound, OpenChannel, InOrder, NamespacesOK, Tells, Does
<1>8. ClosedAreEmpty'
  BY <1>1, <1>2, <1>4 DEF Sound, ClosedAreEmpty
<1>9. PathsAreLive'
  <2>1. conn' = conn /\ io' = io /\ \A l : On(l)' = On(l)
    BY DEF OpenChannel, On, Active
  <2> QED BY <1>1, <1>2, <1>4, <1>5, <2>1 DEF Sound, PathsAreLive
<1>10. ListsAgree'
  <2>1. ns_list' = ns_list /\ \A c, l : Changing(c, l)' <=> Changing(c, l)
    BY DEF OpenChannel, Changing
  <2> QED BY <1>1, <1>2, <1>4, <2>1 DEF Sound, ListsAgree
<1> QED BY <1>6, <1>7, <1>8, <1>9, <1>10 DEF Inv, Sound

(* CloseChannel keeps Inv.                                                 *)
LEMMA CloseChannelStep ==
  ASSUME Inv, ~fault, NEW k \in Channels, CloseChannel(k)
  PROVE  Inv'
<1>1. TypeOK /\ Sound
  BY NowSound
<1>2. /\ Closed \in Channel /\ ~Closed.open /\ Closed.io_paths = <<>> /\ Closed.current = NoPath
      /\ Idle \in Io /\ Idle.state = "idle"
  BY DEF Closed, Channel, Idle, Io
<1>3. /\ ch'[k] = Closed /\ \A l \in Channels \ {k} : ch'[l] = ch[l]
      /\ ch' \in [Channels -> Channel]
  BY <1>1, <1>2 DEF TypeOK, CloseChannel
<1>4. \A i \in Ios : io'[i] = IF i \in On(k) THEN Idle ELSE io[i]
  BY DEF CloseChannel
<1>5. io' \in [Ios -> Io]
  BY <1>1, <1>2 DEF TypeOK, CloseChannel
<1>6. TypeOK'
  BY <1>1, <1>3, <1>5 DEF TypeOK, CloseChannel
<1>7. InOrder(jobs)' /\ IsInjective(ns_list') /\ NamespacesOK'
  BY <1>1 DEF Sound, CloseChannel, InOrder, NamespacesOK, Tells, Does
<1>8. ClosedAreEmpty'
  BY <1>1, <1>2, <1>3 DEF Sound, ClosedAreEmpty
<1>9. PathsAreLive'
  <2>1. \A l \in Channels : \A i \in On(l)' : l # k /\ i \in On(l) /\ io'[i] = io[i]
    BY <1>2, <1>4 DEF On, Active
  <2>2. conn' = conn
    BY DEF CloseChannel
  <2>3. ASSUME NEW l \in Channels
        PROVE  /\ ch'[l].current # NoPath =>
                    ch'[l].current \in ToSet(ch'[l].io_paths) /\ conn'[ch'[l].current][l] # "down"
               /\ \A i \in On(l)' : io'[i].path # NoPath => io'[i].path \in ToSet(ch'[l].io_paths)
    BY <1>1, <1>2, <1>3, <2>1, <2>2 DEF Sound, PathsAreLive
  <2> QED BY <2>3 DEF PathsAreLive
<1>10. ListsAgree'
  <2>1. ns_list' = ns_list /\ \A c, l : Changing(c, l)' <=> Changing(c, l)
    BY DEF CloseChannel, Changing
  <2> QED BY <1>1, <1>2, <1>3, <2>1 DEF Sound, ListsAgree
<1> QED BY <1>6, <1>7, <1>8, <1>9, <1>10 DEF Inv, Sound

(* The cache of one channel is cleared, or that of none.                   *)
LEMMA Cleared ==
  ASSUME Inv, ~fault, NEW k \in Channels, NEW c \in Ctrlrs,
         ch' \in {ch, ClearPathCache(c, k)}
  PROVE  ChannelsKept /\ (ch' = ClearPathCache(c, k) => ch'[k].current # c)
<1>1. TypeOK /\ Kept(k, ch[k]) /\ Kept(k, ClearCurrent(ch[k]))
  BY NowSound, KeptProperties
<1>2. CASE UNCHANGED ch /\ c \notin ToSet(ch[k].io_paths)
  BY <1>1, <1>2, NoChannel DEF Kept
<1>3. CASE ch' = [ch EXCEPT ![k] = ClearCurrent(ch[k])]
  <2>1. ch'[k].current = NoPath
    <3>1. ch'[k] = ClearCurrent(ch[k]) /\ ch[k] \in Channel
      BY <1>1, <1>3 DEF TypeOK
    <3> QED BY <3>1 DEF ClearCurrent, Channel
  <2> QED BY <1>1, <1>3, <2>1, OneChannel
<1>4. CASE UNCHANGED ch /\ ch' # ClearPathCache(c, k)
  BY <1>4, NoChannel
<1> QED BY <1>2, <1>3, <1>4 DEF ClearPathCache

(* A connection changes: it goes down only with the path uncached.         *)
LEMMA ConnectionStep ==
  ASSUME Inv, ~fault, NEW c \in Ctrlrs, NEW k \in Channels, Connections(c, k)
  PROVE  Inv'
<1>1. TypeOK
  BY NowSound
<1>2. ChannelsKept
  BY Cleared, NoChannel DEF Connections, Break, Disconnected, Reconnected
<1>3. RequestsPoint
  BY NoRequest DEF Connections, Break, Disconnected, Reconnected
<1>4. /\ ns' \in [Ctrlrs -> Namespace] /\ \A d \in Ctrlrs : ns'[d].life = ns[d].life
      /\ clearing' \in [Ctrlrs -> 0 .. M] /\ events' \in 0 .. MaxEvents
      /\ UNCHANGED <<sump, policy, ns_list, jobs, fault>>
  BY StillTyped DEF Connections, Break, Disconnected, Reconnected
<1>5. PICK s \in Connection : conn' = [conn EXCEPT ![c][k] = s] /\ (s = "down" => ch'[k].current # c)
  BY Cleared DEF Connections, Break, Disconnected, Reconnected, Connection
<1>6. conn' \in [Ctrlrs -> [Channels -> Connection]]
  BY <1>1, <1>5 DEF TypeOK
<1>7. ASSUME NEW d \in Ctrlrs, NEW l \in Channels, conn'[d][l] = "down"
      PROVE  conn[d][l] = "down" \/ ch'[l].current # d
  BY <1>1, <1>5, <1>7 DEF TypeOK
<1> QED BY <1>2, <1>3, <1>4, <1>6, <1>7, CachesChange DEF ChannelsKept, RequestsPoint

(* CheckIoQpairs keeps Inv.                                                *)
LEMMA CheckIoQpairsStep ==
  ASSUME Inv, ~fault, NEW k \in Channels, CheckIoQpairs(k)
  PROVE  Inv'
<1>1. ChannelsKept /\ RequestsPoint
  BY Cleared, NoRequest DEF CheckIoQpairs
<1> QED BY <1>1, QuietStep, StillTyped DEF CheckIoQpairs

(* An ANA log page is read and the caches it makes stale are cleared.      *)
LEMMA AnaStep ==
  ASSUME Inv, ~fault, NEW c \in Ctrlrs, ReadAna(c) \/ AnaRead(c) \/ ClearVisit(c)
  PROVE  Inv'
<1>1. TypeOK
  BY NowSound
<1>2. CASE ReadAna(c)
  <2>1. ns' \in [Ctrlrs -> Namespace] /\ \A d \in Ctrlrs : ns'[d].life = ns[d].life
    <3>1. ns[c] \in Namespace
      BY <1>1 DEF TypeOK
    <3>2. PICK m \in Namespace : m = [ns[c] EXCEPT !.reading = TRUE]
      BY <3>1 DEF Namespace
    <3>3. m.life = ns[c].life
      BY <3>1, <3>2 DEF Namespace
    <3>4. ns' = [ns EXCEPT ![c] = m]
      BY <1>2, <3>2 DEF ReadAna
    <3> QED BY <1>1, <3>3, <3>4 DEF TypeOK
  <2>2. ChannelsKept /\ RequestsPoint
    BY <1>2, NoChannel, NoRequest DEF ReadAna
  <2> QED BY <1>2, <2>1, <2>2, QuietStep, StillTyped DEF ReadAna
<1>3. CASE AnaRead(c)
  <2>1. ns' \in [Ctrlrs -> Namespace] /\ \A d \in Ctrlrs : ns'[d].life = ns[d].life
    <3>1. PICK ana \in AnaStates :
            ns' = [ns EXCEPT ![c].ana = ana, ![c].updating = FALSE, ![c].reading = FALSE]
      BY <1>3 DEF AnaRead
    <3>2. ns[c] \in Namespace
      BY <1>1 DEF TypeOK
    <3>3. PICK a \in Namespace : a = [ns[c] EXCEPT !.ana = ana]
      BY <3>2 DEF Namespace
    <3>4. PICK b \in Namespace : b = [a EXCEPT !.updating = FALSE]
      BY DEF Namespace
    <3>5. PICK m \in Namespace : m = [b EXCEPT !.reading = FALSE]
      BY DEF Namespace
    <3>6. a.life = ns[c].life /\ b.life = a.life /\ m.life = b.life
      BY <3>2, <3>3, <3>4, <3>5 DEF Namespace
    <3>7. ns' = [ns EXCEPT ![c] = m]
      BY <3>1, <3>3, <3>4, <3>5
    <3> QED BY <1>1, <3>6, <3>7 DEF TypeOK
  <2>2. clearing' \in [Ctrlrs -> 0 .. M]
    <3>1. 1 \in 0 .. M
      OBVIOUS
    <3>2. PICK n : n = IF clearing[c] = 0 THEN 1 ELSE clearing[c]
      OBVIOUS
    <3>3. clearing' \in {clearing, [clearing EXCEPT ![c] = n]}
      BY <1>3, <3>2 DEF AnaRead
    <3> QED BY <1>1, <3>1, <3>2, <3>3 DEF TypeOK
  <2>3. ChannelsKept /\ RequestsPoint
    BY <1>3, NoChannel, NoRequest DEF AnaRead
  <2> QED BY <1>3, <2>1, <2>2, <2>3, QuietStep, StillTyped DEF AnaRead
<1>4. CASE ClearVisit(c)
  <2>1. clearing[c] \in 1 .. M /\ clearing \in [Ctrlrs -> 0 .. M]
    BY <1>1, <1>4 DEF TypeOK, ClearVisit
  <2>2. clearing' \in [Ctrlrs -> 0 .. M]
    <3>1. PICK n \in 0 .. M : n = IF clearing[c] = M THEN 0 ELSE clearing[c] + 1
      BY <2>1
    <3>2. clearing' = [clearing EXCEPT ![c] = n]
      BY <1>4, <3>1 DEF ClearVisit
    <3> QED BY <2>1, <3>1, <3>2
  <2>3. ChannelsKept /\ RequestsPoint
    BY <1>4, <2>1, Cleared, NoRequest DEF ClearVisit
  <2> QED BY <1>4, <2>2, <2>3, QuietStep, StillTyped DEF ClearVisit
<1> QED BY <1>2, <1>3, <1>4

-----------------------------------------------------------------------------
(* Namespaces and the iterations that add and delete the paths to them.    *)

(* Changing is a matter of the iterations alone.                           *)
LEMMA ChangingIsIn ==
  \A c, k : /\ Changing(c, k) <=> ChangingIn(jobs, c, k)
            /\ Changing(c, k)' <=> ChangingIn(jobs', c, k)
BY DEF Changing, ChangingIn, Alters

(* ListsAgree, of the iterations.                                          *)
LEMMA Agreed ==
  ASSUME Inv, ~fault, NEW k \in Channels, ch[k].open
  PROVE  /\ IsInjective(ch[k].io_paths)
         /\ \A c \in Ctrlrs : ~ChangingIn(jobs, c, k) =>
              (c \in ToSet(ch[k].io_paths) <=> c \in ToSet(ns_list))
BY NowSound, ChangingIsIn DEF Sound, ListsAgree

(* The list or the iterations change, but no channel.                      *)
LEMMA SamePaths ==
  ASSUME Inv, ~fault, TypeOK', UNCHANGED <<ch, io, conn>>,
         ~fault' => InOrder(jobs') /\ IsInjective(ns_list') /\ NamespacesOK',
         \A c \in Ctrlrs, k \in Channels : ~fault' /\ ch[k].open /\ ~ChangingIn(jobs', c, k) =>
           (c \in ToSet(ch[k].io_paths) <=> c \in ToSet(ns_list'))
  PROVE  Inv'
<1>1. Sound
  BY NowSound
<1>2. SUFFICES ASSUME ~fault' PROVE Sound'
  BY DEF Inv
<1>3. ClosedAreEmpty'
  BY <1>1 DEF Sound, ClosedAreEmpty
<1>4. PathsAreLive'
  <2>1. \A k : On(k)' = On(k)
    BY DEF On, Active
  <2> QED BY <1>1, <2>1 DEF Sound, PathsAreLive
<1>5. ListsAgree'
  <2>1. ASSUME NEW k \in Channels, ch'[k].open
        PROVE  /\ IsInjective(ch'[k].io_paths)
               /\ \A c \in Ctrlrs : ~Changing(c, k)' =>
                    (c \in ToSet(ch'[k].io_paths) <=> c \in ToSet(ns_list'))
    BY <1>2, <2>1, Agreed, ChangingIsIn
  <2> QED BY <2>1 DEF ListsAgree
<1> QED BY <1>2, <1>3, <1>4, <1>5 DEF Sound

(* The same when no namespace that an iteration does not alter is listed   *)
(* or dropped.                                                             *)
LEMMA ListStep ==
  ASSUME Inv, ~fault, TypeOK', UNCHANGED <<ch, io, conn>>,
         ~fault' => InOrder(jobs') /\ IsInjective(ns_list') /\ NamespacesOK',
         \A c \in Ctrlrs, k \in Channels : ~fault' /\ ch[k].open /\ ~ChangingIn(jobs', c, k) =>
           ~ChangingIn(jobs, c, k) /\ (c \in ToSet(ns_list') <=> c \in ToSet(ns_list))
  PROVE  Inv'
<1>1. ASSUME NEW c \in Ctrlrs, NEW k \in Channels, ~fault', ch[k].open, ~ChangingIn(jobs', c, k)
      PROVE  c \in ToSet(ch[k].io_paths) <=> c \in ToSet(ns_list')
  BY <1>1, Agreed
<1> QED BY <1>1, SamePaths

(* JobSteps, of the iterations there are.                                  *)
LEMMA Steps ==
  ASSUME TypeOK, Sound, NEW n \in DOMAIN jobs, jobs[n].at \in Channels, Runs(n), jobs' = Step(n)
  PROVE  /\ jobs' \in Seq(Job) /\ InOrder(jobs')
         /\ \A c, life : Tells(jobs, life, c) => Tells(jobs', life, c)
         /\ \A c \in Ctrlrs, k \in Channels : ChangingIn(jobs, c, k) /\ ~ChangingIn(jobs', c, k)
              => c = jobs[n].ctrlr /\ k = jobs[n].at /\ jobs[n].fn \in {"add", "undo", "delete"}
<1>1. PICK q \in Seq(Job) : q = jobs
  BY DEF TypeOK
<1>2. InOrder(q) /\ n \in DOMAIN q /\ q[n].at <= M /\ \A m \in 1 .. n - 1 : q[m].at # q[n].at
  BY <1>1 DEF Sound, Runs
<1>3. PICK r : r = [q EXCEPT ![n].at = @ + 1]
  OBVIOUS
<1>4. /\ r \in Seq(Job) /\ InOrder(r)
      /\ \A c, life : Tells(q, life, c) => Tells(r, life, c)
      /\ \A c \in Ctrlrs, k \in Channels : ChangingIn(q, c, k) /\ ~ChangingIn(r, c, k)
           => c = q[n].ctrlr /\ k = q[n].at /\ q[n].fn \in {"add", "undo", "delete"}
  BY <1>2, <1>3, JobSteps
<1>5. jobs' = r
  BY <1>1, <1>3 DEF Step
<1> QED BY <1>1, <1>4, <1>5

(* An iteration changes the paths of channel k, and its cached path is     *)
(* forgotten.                                                              *)
LEMMA PathStep ==
  ASSUME Inv, ~fault, NEW n \in DOMAIN jobs, NEW k \in Channels, ch[k].open,
         jobs[n].at = k, Runs(n), jobs' = Step(n),
         NEW s \in Seq(Ctrlrs), ch' = [ch EXCEPT ![k] = ClearCurrent([ch[k] EXCEPT !.io_paths = s])],
         UNCHANGED <<sump, policy, ns_list, ns, conn, io, clearing, events>>, fault' \in BOOLEAN,
         ~fault' => /\ IsInjective(s)
                    /\ \A i \in On(k) : io[i].path \in ToSet(ch[k].io_paths) => io[i].path \in ToSet(s)
                    /\ \A c \in Ctrlrs : ~ChangingIn(jobs', c, k) =>
                         (c \in ToSet(s) <=> c \in ToSet(ns_list))
  PROVE  Inv'
<1>1. TypeOK /\ Sound
  BY NowSound
<1>2. PICK h \in Channel : /\ h = ClearCurrent([ch[k] EXCEPT !.io_paths = s])
                           /\ h.open /\ h.io_paths = s /\ h.current = NoPath
  <2>1. ch[k] \in Channel /\ 0 \in 0 .. RrMinIo - 1
    BY <1>1 DEF TypeOK
  <2>2. PICK g \in Channel : g = [ch[k] EXCEPT !.io_paths = s]
    BY <2>1 DEF Channel
  <2>3. g.open /\ g.io_paths = s
    BY <2>1, <2>2 DEF Channel
  <2>4. PICK f \in Channel : f = [g EXCEPT !.current = NoPath]
    BY DEF Channel
  <2>5. PICK h \in Channel : h = [f EXCEPT !.rr = 0]
    BY <2>1 DEF Channel
  <2>6. h.open = g.open /\ h.io_paths = g.io_paths /\ h.current = NoPath
    BY <2>4, <2>5 DEF Channel
  <2>7. h = ClearCurrent([ch[k] EXCEPT !.io_paths = s])
    BY <2>2, <2>4, <2>5 DEF ClearCurrent
  <2> QED BY <2>3, <2>6, <2>7
<1>3. /\ ch' \in [Channels -> Channel] /\ ch'[k] = h
      /\ \A l \in Channels \ {k} : ch'[l] = ch[l]
  BY <1>1, <1>2 DEF TypeOK
<1>4. /\ jobs' \in Seq(Job) /\ InOrder(jobs')
      /\ \A c, life : Tells(jobs, life, c) => Tells(jobs', life, c)
      /\ \A c \in Ctrlrs, l \in Channels :
           ChangingIn(jobs, c, l) /\ ~ChangingIn(jobs', c, l) => l = k
  BY <1>1, Steps
<1>5. TypeOK'
  BY <1>1, <1>3, <1>4 DEF TypeOK
<1>6. SUFFICES ASSUME ~fault' PROVE Sound'
  BY <1>5 DEF Inv
<1>7. IsInjective(ns_list') /\ NamespacesOK'
  BY <1>1, <1>4 DEF Sound, NamespacesOK
<1>8. ClosedAreEmpty'
  BY <1>1, <1>2, <1>3 DEF Sound, ClosedAreEmpty
<1>9. PathsAreLive'
  <2>1. \A l : On(l)' = On(l)
    BY DEF On, Active
  <2>2. ASSUME NEW l \in Channels
        PROVE  /\ ch'[l].current # NoPath =>
                    ch'[l].current \in ToSet(ch'[l].io_paths) /\ conn'[ch'[l].current][l] # "down"
               /\ \A i \in On(l)' : io'[i].path # NoPath => io'[i].path \in ToSet(ch'[l].io_paths)
    <3>1. CASE l = k
      BY <1>1, <1>2, <1>3, <1>6, <2>1, <3>1 DEF Sound, PathsAreLive
    <3>2. CASE l # k
      BY <1>1, <1>3, <2>1, <3>2 DEF Sound, PathsAreLive
    <3> QED BY <3>1, <3>2
  <2> QED BY <2>2 DEF PathsAreLive
<1>10. ListsAgree'
  <2>1. ASSUME NEW l \in Channels, ch'[l].open
        PROVE  /\ IsInjective(ch'[l].io_paths)
               /\ \A c \in Ctrlrs : ~Changing(c, l)' =>
                    (c \in ToSet(ch'[l].io_paths) <=> c \in ToSet(ns_list'))
    <3>1. CASE l = k
      BY <1>2, <1>3, <1>6, <3>1, ChangingIsIn
    <3>2. CASE l # k
      <4>1. \A c \in Ctrlrs : ~Changing(c, l)' => ~Changing(c, l)
        BY <1>4, <3>2, ChangingIsIn
      <4> QED BY <1>1, <1>3, <2>1, <3>2, <4>1 DEF Sound, ListsAgree
    <3> QED BY <3>1, <3>2
  <2> QED BY <2>1 DEF ListsAgree
<1> QED BY <1>4, <1>7, <1>8, <1>9, <1>10 DEF Sound

(* An iteration is started for c; what the namespace then tells.           *)
LEMMA Starts ==
  ASSUME Inv, ~fault, NEW c \in Ctrlrs, NEW fn \in {"add", "delete", "prefer"}, StartJob(fn, c)
  PROVE  /\ jobs' \in Seq(Job) /\ InOrder(jobs') /\ events' \in 0 .. MaxEvents
         /\ \A d \in Ctrlrs \ {c} : Tells(jobs', ns[d].life, d)
         /\ fn = "prefer" => Tells(jobs', ns[c].life, c)
         /\ fn = "add" /\ ns[c].life = "absent" => Tells(jobs', "adding", c)
         /\ fn = "delete" /\ ns[c].life \in {"adding", "present"} => Tells(jobs', "deleting", c)
         /\ \A d \in Ctrlrs, k \in Channels :
              IF fn # "prefer" /\ d = c THEN ChangingIn(jobs', d, k)
              ELSE ChangingIn(jobs', d, k) <=> ChangingIn(jobs, d, k)
<1>1. PICK q \in Seq(Job) : q = jobs
  BY NowSound DEF TypeOK
<1>2. InOrder(q) /\ \A d \in Ctrlrs : Tells(q, ns[d].life, d)
  BY <1>1, NowSound DEF Sound, NamespacesOK
<1>3. PICK j \in Job : j = [fn |-> fn, ctrlr |-> c, at |-> 1, ok |-> TRUE]
  <2>1. 1 \in 1 .. M + 1
    OBVIOUS
  <2>2. [fn |-> fn, ctrlr |-> c, at |-> 1, ok |-> TRUE] \in Job
    BY <2>1 DEF Job
  <2> QED BY <2>2
<1>4. PICK r : r = Append(q, j)
  OBVIOUS
<1>5. j.fn = fn /\ j.ctrlr = c /\ j.at = 1 /\ (j.fn = "undo" <=> ~j.ok)
  BY <1>3
<1>6. /\ r \in Seq(Job) /\ InOrder(r)
      /\ \A d, life : Tells(q, life, d) /\ (j.fn \in {"undo", "prefer"} \/ j.ctrlr # d)
           => Tells(r, life, d)
      /\ Tells(q, "absent", j.ctrlr) /\ j.fn = "add" => Tells(r, "adding", j.ctrlr)
      /\ \A life \in {"adding", "present"} :
           Tells(q, life, j.ctrlr) /\ j.fn = "delete" => Tells(r, "deleting", j.ctrlr)
      /\ \A d \in Ctrlrs, k \in Channels :
           IF j.fn # "prefer" /\ j.ctrlr = d THEN ChangingIn(r, d, k)
           ELSE ChangingIn(r, d, k) <=> ChangingIn(q, d, k)
  BY <1>2, <1>4, <1>5, JobStarts
<1>7. jobs' = r /\ events' \in 0 .. MaxEvents
  BY <1>1, <1>3, <1>4, StillTyped DEF StartJob
<1> QED BY <1>1, <1>2, <1>5, <1>6, <1>7

(* AddNs keeps Inv: no iteration is left to a namespace that is absent.    *)
LEMMA AddNsStep ==
  ASSUME Inv, ~fault, NEW c \in Ctrlrs, AddNs(c)
  PROVE  Inv'
<1>1. TypeOK /\ Sound
  BY NowSound
<1>2. /\ jobs' \in Seq(Job) /\ InOrder(jobs') /\ events' \in 0 .. MaxEvents
      /\ \A d \in Ctrlrs \ {c} : Tells(jobs', ns[d].life, d)
      /\ Tells(jobs', "adding", c)
      /\ \A k \in Channels : ChangingIn(jobs', c, k)
      /\ \A d \in Ctrlrs \ {c}, k \in Channels : ChangingIn(jobs', d, k) <=> ChangingIn(jobs, d, k)
  BY Starts DEF AddNs
<1>3. PICK m \in Namespace : ns' = [ns EXCEPT ![c] = m] /\ m.life = "adding"
  <2>1. PICK ana \in AnaStates :
          ns' = [ns EXCEPT ![c] = [life |-> "adding", ana |-> ana, updating |-> FALSE, reading |-> FALSE]]
    BY DEF AddNs
  <2>2. [life |-> "adding", ana |-> ana, updating |-> FALSE, reading |-> FALSE] \in Namespace
    BY DEF Namespace
  <2> QED BY <2>1, <2>2
<1>4. /\ ns' \in [Ctrlrs -> Namespace] /\ ns'[c].life = "adding"
      /\ \A d \in Ctrlrs \ {c} : ns'[d] = ns[d]
  BY <1>1, <1>3 DEF TypeOK
<1>5. c \notin ToSet(ns_list)
  BY <1>1 DEF Sound, NamespacesOK, AddNs
<1>6. /\ ns_list' \in Seq(Ctrlrs) /\ ns_list' # <<>> /\ IsInjective(ns_list')
      /\ \A d : d \in ToSet(ns_list') <=> d \in ToSet(ns_list) \/ d = c
  <2>1. ns_list \in Seq(Ctrlrs) /\ IsInjective(ns_list) /\ ns_list' = Append(ns_list, c)
    BY <1>1 DEF TypeOK, Sound, AddNs
  <2> QED BY <1>5, <2>1, AppendDistinct
<1>7. TypeOK'
  BY <1>1, <1>2, <1>4, <1>6 DEF TypeOK, AddNs
<1>8. NamespacesOK'
  BY <1>1, <1>2, <1>4, <1>6 DEF Sound, NamespacesOK
<1> QED BY <1>2, <1>6, <1>7, <1>8, ListStep DEF AddNs

(* DeleteNs keeps Inv.                                                     *)
LEMMA DeleteNsStep ==
  ASSUME Inv, ~fault, NEW c \in Ctrlrs, DeleteNs(c)
  PROVE  Inv'
<1>1. TypeOK /\ Sound
  BY NowSound
<1>2. /\ jobs' \in Seq(Job) /\ InOrder(jobs') /\ events' \in 0 .. MaxEvents
      /\ \A d \in Ctrlrs \ {c} : Tells(jobs', ns[d].life, d)
      /\ Tells(jobs', "deleting", c)
      /\ \A k \in Channels : ChangingIn(jobs', c, k)
      /\ \A d \in Ctrlrs \ {c}, k \in Channels : ChangingIn(jobs', d, k) <=> ChangingIn(jobs, d, k)
  BY Starts DEF DeleteNs
<1>3. PICK m \in Namespace : m = [ns[c] EXCEPT !.life = "deleting"]
  <2>1. ns[c] \in Namespace
    BY <1>1 DEF TypeOK
  <2> QED BY <2>1 DEF Namespace
<1>4. /\ ns' \in [Ctrlrs -> Namespace] /\ ns'[c].life = "deleting"
      /\ \A d \in Ctrlrs \ {c} : ns'[d] = ns[d]
  <2>1. ns' = [ns EXCEPT ![c] = m]
    BY <1>3 DEF DeleteNs
  <2>2. m.life = "deleting"
    BY <1>1, <1>3 DEF TypeOK, Namespace
  <2> QED BY <1>1, <2>1, <2>2 DEF TypeOK
<1>5. c \in ToSet(ns_list)
  BY <1>1 DEF Sound, NamespacesOK, DeleteNs
<1>6. /\ ns_list' \in Seq(Ctrlrs) /\ ns_list' # <<>> /\ IsInjective(ns_list')
      /\ \A d : d \in ToSet(ns_list') <=> d \in ToSet(ns_list) /\ d # c
  <2>1. PICK s : s = ns_list /\ s \in Seq(Ctrlrs) /\ IsInjective(s) /\ Len(s) > 1 /\ c \in ToSet(s)
    BY <1>1, <1>5 DEF TypeOK, Sound, DeleteNs
  <2>2. PICK t : /\ t = RemoveFirst(s, c) /\ t \in Seq(Ctrlrs) /\ IsInjective(t)
                 /\ Len(t) = Len(s) - 1
                 /\ \A d : d \in ToSet(t) <=> d \in ToSet(s) /\ d # c
    BY <2>1, RemoveFirstProperties
  <2>3. Len(t) # 0
    <3>1. PICK l \in Nat : l = Len(s)
      BY <2>1, LenProperties
    <3>2. l > 1 /\ Len(t) = l - 1
      BY <2>1, <2>2, <3>1
    <3> QED BY <3>2
  <2>4. t # <<>>
    BY <2>3
  <2>5. ns_list' = t
    BY <2>1, <2>2 DEF DeleteNs
  <2> QED BY <2>1, <2>2, <2>4, <2>5
<1>7. TypeOK'
  BY <1>1, <1>2, <1>4, <1>6 DEF TypeOK, DeleteNs
<1>8. NamespacesOK'
  BY <1>1, <1>2, <1>4, <1>6 DEF Sound, NamespacesOK
<1> QED BY <1>2, <1>6, <1>7, <1>8, ListStep DEF DeleteNs

(* SetPreferredPath keeps Inv.                                             *)
LEMMA SetPreferredPathStep ==
  ASSUME Inv, ~fault, NEW c \in Ctrlrs, SetPreferredPath(c)
  PROVE  Inv'
<1>1. TypeOK /\ Sound
  BY NowSound
<1>2. /\ jobs' \in Seq(Job) /\ InOrder(jobs') /\ events' \in 0 .. MaxEvents
      /\ \A d \in Ctrlrs : Tells(jobs', ns[d].life, d)
      /\ \A d \in Ctrlrs, k \in Channels : ChangingIn(jobs', d, k) <=> ChangingIn(jobs, d, k)
  BY Starts DEF SetPreferredPath
<1>3. /\ ns_list' \in Seq(Ctrlrs) /\ ns_list' # <<>> /\ IsInjective(ns_list')
      /\ \A d : d \in ToSet(ns_list') <=> d \in ToSet(ns_list)
  <2>1. PICK s : s = ns_list /\ s \in Seq(Ctrlrs) /\ IsInjective(s) /\ c \in ToSet(s)
    BY <1>1 DEF TypeOK, Sound, SetPreferredPath
  <2>2. ns_list' = ToFront(s, c)
    BY <2>1 DEF SetPreferredPath
  <2> QED BY <2>1, <2>2, ToFrontProperties
<1>4. TypeOK'
  BY <1>1, <1>2, <1>3 DEF TypeOK, SetPreferredPath
<1>5. NamespacesOK'
  BY <1>1, <1>2, <1>3 DEF Sound, NamespacesOK, SetPreferredPath
<1> QED BY <1>2, <1>3, <1>4, <1>5, ListStep DEF SetPreferredPath

(* JobPasses keeps Inv.                                                    *)
LEMMA JobPassesStep ==
  ASSUME Inv, ~fault, NEW n \in DOMAIN jobs, JobPasses(n)
  PROVE  Inv'
<1>1. TypeOK /\ Sound
  BY NowSound
<1>2. jobs[n].at \in Channels /\ Runs(n) /\ jobs' = Step(n) /\ ~ch[jobs[n].at].open
  <2>1. jobs[n] \in Job
    BY <1>1, ElementOfSeq DEF TypeOK
  <2> QED BY <2>1 DEF JobPasses, AtChannel, Job
<1>3. /\ jobs' \in Seq(Job) /\ InOrder(jobs')
      /\ \A c, life : Tells(jobs, life, c) => Tells(jobs', life, c)
      /\ \A c \in Ctrlrs, k \in Channels :
           ChangingIn(jobs, c, k) /\ ~ChangingIn(jobs', c, k) => ~ch[k].open
  BY <1>1, <1>2, Steps
<1>4. TypeOK'
  BY <1>1, <1>3 DEF TypeOK, JobPasses
<1>5. IsInjective(ns_list') /\ NamespacesOK'
  BY <1>1, <1>3 DEF Sound, NamespacesOK, JobPasses
<1> QED BY <1>3, <1>4, <1>5, ListStep DEF JobPasses

(* AddIoPath keeps Inv: while c's namespace is not being deleted, or its   *)
(* deletion has still to come to this channel, it is listed.               *)
LEMMA AddIoPathStep ==
  ASSUME Inv, ~fault, NEW n \in DOMAIN jobs, AddIoPath(n)
  PROVE  Inv'
<1>1. TypeOK /\ Sound
  BY NowSound
<1>2. PICK c \in Ctrlrs, k \in Channels :
        /\ c = jobs[n].ctrlr /\ k = jobs[n].at /\ jobs[n].fn = "add" /\ Runs(n) /\ ch[k].open
  <2>1. jobs[n] \in Job
    BY <1>1, ElementOfSeq DEF TypeOK
  <2> QED BY <2>1 DEF AddIoPath, AtChannel, Job
<1>3. CASE /\ ch' = [ch EXCEPT ![k] = ClearCurrent([@ EXCEPT !.io_paths = Append(ch[k].io_paths, c)])]
           /\ fault' = (c \in ToSet(ch[k].io_paths)) /\ jobs' = Step(n)
  <2>1. PICK s : s = ch[k].io_paths /\ s \in Seq(Ctrlrs)
    BY <1>1 DEF TypeOK, Channel
  <2>2. /\ ch' = [ch EXCEPT ![k] = ClearCurrent([ch[k] EXCEPT !.io_paths = Append(s, c)])]
        /\ fault' = (c \in ToSet(s))
    BY <1>3, <2>1
  <2>3. PICK t : /\ t = Append(s, c) /\ t \in Seq(Ctrlrs)
                 /\ \A d : d \in ToSet(t) <=> d \in ToSet(s) \/ d = c
                 /\ IsInjective(s) /\ c \notin ToSet(s) => IsInjective(t)
    <3>1. PICK t : t = Append(s, c)
      OBVIOUS
    <3>2. t \in Seq(Ctrlrs)
      BY <2>1, <3>1, AppendDistinct
    <3>3. \A d : d \in ToSet(t) <=> d \in ToSet(s) \/ d = c
      BY <2>1, <3>1, AppendDistinct
    <3>4. IsInjective(s) /\ c \notin ToSet(s) => IsInjective(t)
      BY <2>1, <3>1, AppendDistinct
    <3> QED BY <3>1, <3>2, <3>3, <3>4
  <2>4. IsInjective(s)
    BY <1>1, <1>2, <2>1 DEF Sound, ListsAgree
  <2>5. ASSUME ~fault', NEW d \in Ctrlrs, ~ChangingIn(jobs', d, k)
        PROVE  d \in ToSet(t) <=> d \in ToSet(ns_list)
    <3>1. CASE d # c
      <4>1. ~Changing(d, k)
        BY <1>1, <1>2, <1>3, <2>5, <3>1, Steps, ChangingIsIn
      <4> QED BY <1>1, <1>2, <2>1, <2>3, <3>1, <4>1 DEF Sound, ListsAgree
    <3>2. CASE d = c
      <4>1. Tells(jobs, ns[c].life, c) /\ (c \in ToSet(ns_list) <=> ns[c].life \in {"adding", "present"})
        BY <1>1 DEF Sound, NamespacesOK
      <4>2. Does(jobs, n, "add", c)
        BY <1>2 DEF Does
      <4>3. ns[c].life \in {"adding", "deleting"}
        BY <4>1, <4>2 DEF Tells
      <4>4. ASSUME NEW m \in DOMAIN jobs, Does(jobs, m, "delete", c) PROVE FALSE
        <5>1. n < m /\ m \in Nat /\ n \in Nat
          BY <1>1, <4>1, <4>2, <4>4, LenProperties DEF Tells, TypeOK
        <5>2. jobs[m].ok /\ jobs[n].at >= jobs[m].at
          <6>1. jobs[m].ok
            BY <1>1, <4>4 DEF Sound, InOrder, Does
          <6> QED BY <1>1, <5>1, <6>1 DEF Sound, InOrder
        <5>3. m \in DOMAIN jobs' /\ jobs'[m] = jobs[m]
          BY <1>1, <1>3, <5>1 DEF Step, TypeOK
        <5>4. Alters(jobs', m, c, k)
          BY <1>2, <4>4, <5>2, <5>3 DEF Alters, Does
        <5> QED BY <2>5, <3>2, <5>3, <5>4 DEF ChangingIn
      <4>5. c \in ToSet(ns_list)
        BY <4>1, <4>3, <4>4 DEF Tells
      <4> QED BY <2>3, <3>2, <4>5
    <3> QED BY <3>1, <3>2
  <2>6. fault' \in BOOLEAN
    BY <2>2
  <2>7. UNCHANGED <<sump, policy, ns_list, ns, conn, io, clearing, events>>
    BY DEF AddIoPath
  <2>8. ch' = [ch EXCEPT ![k] = ClearCurrent([ch[k] EXCEPT !.io_paths = t])]
    BY <2>2, <2>3
  <2>9. ~fault' => /\ IsInjective(t)
                   /\ \A i \in On(k) : io[i].path \in ToSet(ch[k].io_paths) => io[i].path \in ToSet(t)
                   /\ \A d \in Ctrlrs : ~ChangingIn(jobs', d, k) =>
                        (d \in ToSet(t) <=> d \in ToSet(ns_list))
    BY <2>1, <2>2, <2>3, <2>4, <2>5
  <2>10. t \in Seq(Ctrlrs) /\ jobs[n].at = k /\ Runs(n) /\ jobs' = Step(n) /\ ch[k].open
    BY <1>2, <1>3, <2>3
  <2> QED BY <2>6, <2>7, <2>8, <2>9, <2>10, PathStep
<1>4. CASE UNCHANGED <<ch, fault>> /\ jobs' = [jobs EXCEPT ![n].at = M + 1, ![n].ok = FALSE]
  <2>1. PICK q \in Seq(Job) : q = jobs
    BY <1>1 DEF TypeOK
  <2>2. PICK r : r = [q EXCEPT ![n].at = M + 1, ![n].ok = FALSE]
    OBVIOUS
  <2>3. InOrder(q) /\ n \in DOMAIN q /\ q[n].fn = "add"
    BY <1>1, <1>2, <2>1 DEF Sound
  <2>4. /\ r \in Seq(Job) /\ InOrder(r)
        /\ \A d, life : Tells(q, life, d) => Tells(r, life, d)
        /\ \A d \in Ctrlrs, l \in Channels :
             ChangingIn(r, d, l) <=> ChangingIn(q, d, l) \/ d = q[n].ctrlr
    BY <2>2, <2>3, JobFails
  <2>5. jobs' = r
    BY <1>4, <2>1, <2>2
  <2>6. TypeOK'
    BY <1>1, <1>4, <2>4, <2>5 DEF TypeOK, AddIoPath
  <2>7. IsInjective(ns_list') /\ NamespacesOK'
    BY <1>1, <2>1, <2>4, <2>5 DEF Sound, NamespacesOK, AddIoPath
  <2>8. \A d \in Ctrlrs, l \in Channels : ~ChangingIn(jobs', d, l) => ~ChangingIn(jobs, d, l)
    BY <2>1, <2>4, <2>5
  <2>9. InOrder(jobs') /\ UNCHANGED <<ch, io, conn, ns_list>>
    BY <1>4, <2>4, <2>5 DEF AddIoPath
  <2> QED BY <2>6, <2>7, <2>8, <2>9, ListStep
<1> QED BY <1>2, <1>3, <1>4 DEF AddIoPath

(* DeleteIoPath keeps Inv: a namespace whose deletion is under way is not  *)
(* listed, and no request is left on its path unless the code is at fault. *)
LEMMA DeleteIoPathStep ==
  ASSUME Inv, ~fault, NEW n \in DOMAIN jobs, DeleteIoPath(n)
  PROVE  Inv'
<1>1. TypeOK /\ Sound
  BY NowSound
<1>2. PICK c \in Ctrlrs, k \in Channels :
        /\ c = jobs[n].ctrlr /\ k = jobs[n].at /\ jobs[n].fn \in {"delete", "undo"}
        /\ Runs(n) /\ ch[k].open
  <2>1. jobs[n] \in Job
    BY <1>1, ElementOfSeq DEF TypeOK
  <2> QED BY <2>1 DEF DeleteIoPath, AtChannel, Job
<1>3. /\ jobs' = Step(n) /\ fault' = \E i \in On(k) : io[i].path = c
      /\ UNCHANGED <<sump, policy, ns_list, ns, conn, io, clearing, events>>
  BY <1>2 DEF DeleteIoPath
<1>4. /\ jobs' \in Seq(Job) /\ InOrder(jobs')
      /\ \A d, life : Tells(jobs, life, d) => Tells(jobs', life, d)
      /\ \A d \in Ctrlrs, l \in Channels :
           ChangingIn(jobs, d, l) /\ ~ChangingIn(jobs', d, l) => d = c /\ l = k
  BY <1>1, <1>2, <1>3, Steps
<1>5. ChangingIn(jobs', c, k) \/ c \notin ToSet(ns_list)
  <2>1. CASE jobs[n].fn = "delete"
    <3>1. Does(jobs, n, "delete", c)
      BY <1>2, <2>1 DEF Does
    <3>2. ns[c].life = "deleting"
      BY <1>1, <3>1 DEF Sound, NamespacesOK, Tells
    <3> QED BY <1>1, <3>2 DEF Sound, NamespacesOK
  <2>2. CASE jobs[n].fn = "undo"
    <3>1. jobs[n] \in Job
      BY <1>1, ElementOfSeq DEF TypeOK
    <3>2. n \in DOMAIN jobs' /\ jobs'[n].fn = "undo" /\ jobs'[n].ctrlr = c
      BY <1>1, <1>2, <1>3, <2>2, <3>1 DEF Step, TypeOK, Job
    <3>3. Alters(jobs', n, c, k)
      BY <3>2 DEF Alters
    <3> QED BY <3>2, <3>3 DEF ChangingIn
  <2> QED BY <1>2, <2>1, <2>2
<1>6. CASE c \in ToSet(ch[k].io_paths)
  <2>1. PICK s : s = ch[k].io_paths /\ s \in Seq(Ctrlrs)
    BY <1>1 DEF TypeOK, Channel
  <2>2. IsInjective(s) /\ c \in ToSet(s)
    BY <1>2, <1>6, <2>1, Agreed
  <2>3. PICK t : /\ t = RemoveFirst(s, c) /\ t \in Seq(Ctrlrs) /\ IsInjective(t)
                 /\ \A d : d \in ToSet(t) <=> d \in ToSet(s) /\ d # c
    BY <2>1, <2>2, RemoveFirstProperties
  <2>4. ch' = [ch EXCEPT ![k] = ClearCurrent([ch[k] EXCEPT !.io_paths = t])]
    BY <1>2, <1>6, <2>1, <2>3 DEF DeleteIoPath
  <2>5. ASSUME ~fault'
        PROVE  /\ \A i \in On(k) : io[i].path \in ToSet(ch[k].io_paths) => io[i].path \in ToSet(t)
               /\ \A d \in Ctrlrs : ~ChangingIn(jobs', d, k) =>
                    (d \in ToSet(t) <=> d \in ToSet(ns_list))
    <3>1. \A i \in On(k) : io[i].path # c
      BY <1>3, <2>5
    <3>2. \A d \in Ctrlrs : d # c /\ ~ChangingIn(jobs', d, k) =>
            (d \in ToSet(s) <=> d \in ToSet(ns_list))
      BY <1>2, <1>4, <2>1, Agreed
    <3> QED BY <1>5, <2>1, <2>3, <3>1, <3>2
  <2> QED BY <1>2, <1>3, <2>3, <2>4, <2>5, PathStep
<1>7. CASE c \notin ToSet(ch[k].io_paths)
  <2>1. UNCHANGED ch
    BY <1>2, <1>7 DEF DeleteIoPath
  <2>2. TypeOK'
    BY <1>1, <1>3, <1>4, <2>1 DEF TypeOK
  <2>3. InOrder(jobs') /\ IsInjective(ns_list') /\ NamespacesOK'
    BY <1>1, <1>3, <1>4 DEF Sound, NamespacesOK
  <2>4. ASSUME NEW d \in Ctrlrs, NEW l \in Channels, ch[l].open, ~ChangingIn(jobs', d, l)
        PROVE  d \in ToSet(ch[l].io_paths) <=> d \in ToSet(ns_list')
    <3>1. CASE d = c /\ l = k
      BY <1>3, <1>5, <1>7, <2>4, <3>1
    <3>2. CASE ~(d = c /\ l = k)
      BY <1>3, <1>4, <2>4, <3>2, Agreed
    <3> QED BY <3>1, <3>2
  <2> QED BY <1>3, <2>1, <2>2, <2>3, <2>4, SamePaths
<1> QED BY <1>6, <1>7

(* PreferIoPath keeps Inv.                                                 *)
LEMMA PreferIoPathStep ==
  ASSUME Inv, ~fault, NEW n \in DOMAIN jobs, PreferIoPath(n)
  PROVE  Inv'
<1>1. TypeOK /\ Sound
  BY NowSound
<1>2. PICK c \in Ctrlrs, k \in Channels :
        /\ c = jobs[n].ctrlr /\ k = jobs[n].at /\ jobs[n].fn = "prefer"
        /\ Runs(n) /\ ch[k].open
  <2>1. jobs[n] \in Job
    BY <1>1, ElementOfSeq DEF TypeOK
  <2> QED BY <2>1 DEF PreferIoPath, AtChannel, Job
<1>3. jobs' = Step(n) /\ UNCHANGED <<sump, policy, ns_list, ns, conn, io, clearing, events, fault>>
  BY DEF PreferIoPath
<1>4. /\ jobs' \in Seq(Job) /\ InOrder(jobs')
      /\ \A d, life : Tells(jobs, life, d) => Tells(jobs', life, d)
      /\ \A d \in Ctrlrs, l \in Channels : ~ChangingIn(jobs', d, l) => ~ChangingIn(jobs, d, l)
  BY <1>1, <1>2, <1>3, Steps
<1>5. CASE c \in ToSet(ch[k].io_paths)
  <2>1. PICK s : s = ch[k].io_paths /\ s \in Seq(Ctrlrs)
    BY <1>1 DEF TypeOK, Channel
  <2>2. IsInjective(s) /\ c \in ToSet(s)
    BY <1>2, <1>5, <2>1, Agreed
  <2>3. PICK t : /\ t = ToFront(s, c) /\ t \in Seq(Ctrlrs) /\ IsInjective(t)
                 /\ \A d : d \in ToSet(t) <=> d \in ToSet(s)
    BY <2>1, <2>2, ToFrontProperties
  <2>4. ch' = [ch EXCEPT ![k] = ClearCurrent([ch[k] EXCEPT !.io_paths = t])]
    BY <1>2, <1>5, <2>1, <2>3 DEF PreferIoPath
  <2>5. /\ \A i \in On(k) : io[i].path \in ToSet(ch[k].io_paths) => io[i].path \in ToSet(t)
        /\ \A d \in Ctrlrs : ~ChangingIn(jobs', d, k) =>
             (d \in ToSet(t) <=> d \in ToSet(ns_list))
    BY <1>2, <1>4, <2>1, <2>3, Agreed
  <2>6. fault' \in BOOLEAN
    BY <1>1, <1>3 DEF TypeOK
  <2> QED BY <1>2, <1>3, <2>3, <2>4, <2>5, <2>6, PathStep
<1>6. CASE c \notin ToSet(ch[k].io_paths)
  <2>1. UNCHANGED ch
    BY <1>2, <1>6 DEF PreferIoPath
  <2>2. TypeOK'
    BY <1>1, <1>3, <1>4, <2>1 DEF TypeOK
  <2>3. InOrder(jobs') /\ IsInjective(ns_list') /\ NamespacesOK'
    BY <1>1, <1>3, <1>4 DEF Sound, NamespacesOK
  <2> QED BY <1>3, <1>4, <2>1, <2>2, <2>3, ListStep
<1> QED BY <1>5, <1>6

(* JobDone keeps Inv: an addition or a deletion leaves the iterations the  *)
(* namespace can still have, and ends where its channels agree.            *)
LEMMA JobDoneStep ==
  ASSUME Inv, ~fault, NEW n \in DOMAIN jobs, JobDone(n)
  PROVE  Inv'
<1>1. TypeOK /\ Sound
  BY NowSound
<1>2. PICK q \in Seq(Job), c \in Ctrlrs :
        /\ q = jobs /\ q[n] \in Job /\ c = q[n].ctrlr /\ n \in DOMAIN q /\ q[n].at = M + 1
        /\ InOrder(q) /\ \A m \in 1 .. n - 1 : q[m].at # q[n].at
  <2>1. jobs \in Seq(Job) /\ jobs[n] \in Job
    BY <1>1, ElementOfSeq DEF TypeOK
  <2>2. jobs[n].ctrlr \in Ctrlrs
    BY <2>1 DEF Job
  <2> QED BY <1>1, <2>1, <2>2 DEF JobDone, Runs, Sound
<1>3. PICK r : r = RemoveAt(q, n)
  OBVIOUS
<1>4. /\ r \in Seq(Job) /\ InOrder(r)
      /\ \A d, life : Tells(q, life, d) /\ (d # c \/ q[n].fn # "delete") => Tells(r, life, d)
      /\ Tells(q, "adding", c) /\ q[n].fn = "add" => Tells(r, "present", c)
      /\ \A life : Tells(q, life, c) /\ q[n].fn = "delete" => Tells(r, "absent", c)
      /\ \A d \in Ctrlrs, k \in Channels :
           ChangingIn(q, d, k) /\ (d # c \/ q[n].ok) => ChangingIn(r, d, k)
  BY <1>2, <1>3, JobEnds
<1>5. /\ \A d \in Ctrlrs : Tells(q, ns[d].life, d)
      /\ \A d \in Ctrlrs : d \in ToSet(ns_list) <=> ns[d].life \in {"adding", "present"}
      /\ IsInjective(ns_list)
  BY <1>1, <1>2 DEF Sound, NamespacesOK
<1>6. UNCHANGED <<sump, policy, ns_list, conn, ch, io, clearing, events>>
  BY DEF JobDone
<1>7. ASSUME NEW life \in {"absent", "present"}, ns' = [ns EXCEPT ![c].life = life]
      PROVE  /\ ns' \in [Ctrlrs -> Namespace] /\ ns'[c].life = life
             /\ \A d \in Ctrlrs \ {c} : ns'[d] = ns[d]
  <2>1. ns[c] \in Namespace
    BY <1>1 DEF TypeOK
  <2>2. PICK m \in Namespace : m = [ns[c] EXCEPT !.life = life]
    BY <2>1 DEF Namespace
  <2>3. m.life = life
    BY <2>1, <2>2 DEF Namespace
  <2>4. ns' = [ns EXCEPT ![c] = m]
    BY <1>7, <2>2
  <2> QED BY <1>1, <2>3, <2>4 DEF TypeOK
<1>8. CASE q[n].fn = "add" /\ q[n].ok
  <2>1. jobs' = r /\ fault' = fault
    BY <1>2, <1>3, <1>8 DEF JobDone
  <2>2. /\ ns' \in [Ctrlrs -> Namespace]
        /\ \A d \in Ctrlrs \ {c} : ns'[d] = ns[d]
        /\ ns'[c].life = IF ns[c].life = "adding" THEN "present" ELSE ns[c].life
    <3>1. ns' = [ns EXCEPT ![c].life = IF ns[c].life = "adding" THEN "present" ELSE ns[c].life]
      BY <1>2, <1>8 DEF JobDone
    <3>2. CASE ns[c].life = "adding"
      BY <1>7, <3>1, <3>2
    <3>3. CASE ns[c].life # "adding"
      <4>1. ns' = ns
        BY <1>1, <3>1, <3>3 DEF TypeOK, Namespace
      <4> QED BY <1>1, <3>3, <4>1 DEF TypeOK
    <3> QED BY <3>2, <3>3
  <2>3. TypeOK'
    BY <1>1, <1>4, <1>6, <2>1, <2>2 DEF TypeOK
  <2>4. NamespacesOK'
    BY <1>4, <1>5, <1>6, <1>8, <2>1, <2>2 DEF NamespacesOK
  <2>5. \A d \in Ctrlrs, k \in Channels : ~ChangingIn(jobs', d, k) => ~ChangingIn(jobs, d, k)
    BY <1>2, <1>4, <1>8, <2>1
  <2> QED BY <1>4, <1>5, <1>6, <2>1, <2>3, <2>4, <2>5, ListStep
<1>9. CASE q[n].fn = "delete"
  <2>1. jobs' = r /\ fault' = fault /\ ns' = [ns EXCEPT ![c].life = "absent"]
    BY <1>2, <1>3, <1>9 DEF JobDone
  <2>2. /\ ns' \in [Ctrlrs -> Namespace] /\ ns'[c].life = "absent"
        /\ \A d \in Ctrlrs \ {c} : ns'[d] = ns[d]
    BY <1>7, <2>1
  <2>3. TypeOK'
    BY <1>1, <1>4, <1>6, <2>1, <2>2 DEF TypeOK
  <2>4. ns[c].life = "deleting"
    <3>1. Does(q, n, "delete", c)
      BY <1>2, <1>9 DEF Does
    <3> QED BY <1>2, <1>5, <3>1 DEF Tells
  <2>5. NamespacesOK'
    BY <1>4, <1>5, <1>6, <1>9, <2>1, <2>2, <2>4 DEF NamespacesOK
  <2>6. q[n].ok
    BY <1>2, <1>9 DEF InOrder
  <2>7. \A d \in Ctrlrs, k \in Channels : ~ChangingIn(jobs', d, k) => ~ChangingIn(jobs, d, k)
    BY <1>2, <1>4, <2>1, <2>6
  <2> QED BY <1>4, <1>5, <1>6, <2>1, <2>3, <2>5, <2>7, ListStep
<1>10. CASE q[n].fn = "prefer"
  <2>1. jobs' = r /\ fault' = fault /\ ns' = ns
    BY <1>2, <1>3, <1>10 DEF JobDone
  <2>2. TypeOK' /\ NamespacesOK'
    BY <1>1, <1>4, <1>5, <1>6, <1>10, <2>1 DEF TypeOK, NamespacesOK
  <2>3. q[n].ok
    BY <1>2, <1>10 DEF InOrder
  <2>4. \A d \in Ctrlrs, k \in Channels : ~ChangingIn(jobs', d, k) => ~ChangingIn(jobs, d, k)
    BY <1>2, <1>4, <2>1, <2>3
  <2> QED BY <1>4, <1>5, <1>6, <2>1, <2>2, <2>4, ListStep
<1>11. CASE q[n].fn = "undo"
  <2>1. jobs' = r /\ fault' = TRUE /\ ns' = ns
    BY <1>2, <1>3, <1>11 DEF JobDone
  <2>2. TypeOK'
    BY <1>1, <1>4, <1>6, <2>1 DEF TypeOK
  <2> QED BY <2>1, <2>2 DEF Inv
<1>12. CASE q[n].fn = "add" /\ ~q[n].ok
  <2>1. PICK j \in Job : j = [[q[n] EXCEPT !.fn = "undo"] EXCEPT !.at = 1]
    <3>1. PICK a \in Job : a = [q[n] EXCEPT !.fn = "undo"]
      BY <1>2 DEF Job
    <3>2. 1 \in 1 .. M + 1
      OBVIOUS
    <3>3. [a EXCEPT !.at = 1] \in Job
      BY <3>2 DEF Job
    <3> QED BY <3>1, <3>3
  <2>2. j.fn = "undo" /\ j.at = 1 /\ j.ctrlr = c /\ ~j.ok
    BY <1>2, <1>12, <2>1 DEF Job
  <2>3. PICK t : t = Append(r, j)
    OBVIOUS
  <2>4. /\ t \in Seq(Job) /\ InOrder(t)
        /\ \A d, life : Tells(r, life, d) => Tells(t, life, d)
        /\ \A d \in Ctrlrs, k \in Channels :
             IF d = c THEN ChangingIn(t, d, k) ELSE ChangingIn(t, d, k) <=> ChangingIn(r, d, k)
    BY <1>4, <2>2, <2>3, JobStarts
  <2>5. jobs' = t /\ fault' = fault /\ ns' = ns
    BY <1>2, <1>3, <1>12, <2>1, <2>3 DEF JobDone
  <2>6. TypeOK'
    BY <1>1, <1>6, <2>4, <2>5 DEF TypeOK
  <2>7. NamespacesOK'
    BY <1>4, <1>5, <1>6, <1>12, <2>4, <2>5 DEF NamespacesOK
  <2>8. \A d \in Ctrlrs, k \in Channels : ~ChangingIn(jobs', d, k) => ~ChangingIn(jobs, d, k)
    BY <1>2, <1>4, <2>4, <2>5
  <2> QED BY <1>5, <1>6, <2>4, <2>5, <2>6, <2>7, <2>8, ListStep
<1>13. q[n].fn \in {"add", "undo", "delete", "prefer"}
  BY <1>2 DEF Job
<1> QED BY <1>8, <1>9, <1>10, <1>11, <1>12, <1>13

-----------------------------------------------------------------------------
(* The invariant.                                                          *)

(* Every step keeps Inv.                                                   *)
LEMMA NextKeeps == ASSUME Inv, Next PROVE Inv'
<1>1. ~fault
  BY DEF Next
<1>2. ASSUME NEW k \in Channels, OpenChannel(k) \/ CloseChannel(k) \/ CheckIoQpairs(k)
      PROVE  Inv'
  BY <1>1, <1>2, OpenChannelStep, CloseChannelStep, CheckIoQpairsStep
<1>3. ASSUME NEW i \in Ios, NEW k \in Channels, Submit(i, k) PROVE Inv'
  BY <1>1, <1>3, SubmitStep
<1>4. ASSUME NEW i \in Ios, BufferReady(i) \/ Sent(i) \/ Retried(i) \/ AbortRetry(i) PROVE Inv'
  BY <1>1, <1>4, BufferReadyStep, CompletedStep, CompletedPathErrorStep, CompletedRetriedStep,
     RetriedStep DEF Sent
<1>5. ASSUME NEW c \in Ctrlrs, NEW k \in Channels, Connections(c, k) PROVE Inv'
  BY <1>1, <1>5, ConnectionStep
<1>6. ASSUME NEW c \in Ctrlrs,
             \/ ReadAna(c) \/ AnaRead(c) \/ ClearVisit(c)
             \/ AddNs(c) \/ DeleteNs(c) \/ SetPreferredPath(c)
      PROVE  Inv'
  BY <1>1, <1>6, AnaStep, AddNsStep, DeleteNsStep, SetPreferredPathStep
<1>7. ASSUME NEW n \in DOMAIN jobs, RunJob(n) PROVE Inv'
  BY <1>1, <1>7, JobPassesStep, AddIoPathStep, DeleteIoPathStep, PreferIoPathStep, JobDoneStep
     DEF RunJob
<1> QED BY <1>2, <1>3, <1>4, <1>5, <1>6, <1>7 DEF Next

(* Inv holds at first.                                                     *)
LEMMA InitInv == Init => Inv
<1> SUFFICES ASSUME Init PROVE Inv
  OBVIOUS
<1>1. PICK s : /\ s \in Seq(Ctrlrs) /\ s # <<>> /\ IsInjective(s) /\ ns_list = s
               /\ ns = [c \in Ctrlrs |-> [life |-> IF c \in ToSet(s) THEN "present" ELSE "absent",
                                          ana |-> "optimized", updating |-> FALSE, reading |-> FALSE]]
  <2>1. PICK n \in 1 .. Cardinality(Ctrlrs) :
          LET listed == SubSeq(SetToSeq(Ctrlrs), 1, n)
          IN  /\ ns_list = listed
              /\ ns = [c \in Ctrlrs |->
                          [life |-> IF c \in ToSet(listed) THEN "present" ELSE "absent",
                           ana |-> "optimized", updating |-> FALSE, reading |-> FALSE]]
    BY Zenon DEF Init
  <2> DEFINE s == SubSeq(SetToSeq(Ctrlrs), 1, n)
  <2>2. s \in Seq(Ctrlrs) /\ s # <<>> /\ IsInjective(s)
    BY ListedProperties
  <2> HIDE DEF s
  <2>3. /\ ns_list = s
        /\ ns = [c \in Ctrlrs |-> [life |-> IF c \in ToSet(s) THEN "present" ELSE "absent",
                                   ana |-> "optimized", updating |-> FALSE, reading |-> FALSE]]
    BY <2>1 DEF s
  <2> QED BY <2>2, <2>3
<1>2. /\ sump \in BOOLEAN /\ policy \in Policies /\ conn = [c \in Ctrlrs |-> [k \in Channels |-> "up"]]
      /\ ch = [k \in Channels |-> Closed] /\ io = [i \in Ios |-> Idle] /\ jobs = <<>>
      /\ clearing = [c \in Ctrlrs |-> 0] /\ events = 0 /\ fault = FALSE
  BY DEF Init
<1>3. TypeOK
  <2>1. ns \in [Ctrlrs -> Namespace]
    BY <1>1 DEF Namespace
  <2>2. conn \in [Ctrlrs -> [Channels -> Connection]]
    BY <1>2 DEF Connection
  <2>3. Closed \in Channel
    <3>1. 0 \in 0 .. RrMinIo - 1 /\ <<>> \in Seq(Ctrlrs)
      OBVIOUS
    <3> QED BY <3>1 DEF Closed, Channel
  <2>4. Idle \in Io
    <3>1. 1 \in Channels /\ 0 \in 0 .. RetryCount
      OBVIOUS
    <3> QED BY <3>1 DEF Idle, Io
  <2>5. jobs \in Seq(Job) /\ clearing \in [Ctrlrs -> 0 .. M] /\ events \in 0 .. MaxEvents
    BY <1>2
  <2>6. ch \in [Channels -> Channel] /\ io \in [Ios -> Io]
    BY <1>2, <2>3, <2>4
  <2> QED BY <1>1, <1>2, <2>1, <2>2, <2>5, <2>6 DEF TypeOK
<1>4. DOMAIN jobs = {}
  BY <1>2
<1>5. InOrder(jobs) /\ NamespacesOK
  BY <1>1, <1>4 DEF InOrder, NamespacesOK, Tells
<1>6. ClosedAreEmpty /\ PathsAreLive /\ ListsAgree
  BY <1>2 DEF ClosedAreEmpty, PathsAreLive, ListsAgree, On, Active, Closed, Idle
<1> QED BY <1>1, <1>3, <1>5, <1>6 DEF Inv, Sound

(* Inv holds in every state that can be reached.                           *)
THEOREM Invariance == Spec => []Inv
<1>1. Inv /\ UNCHANGED vars => Inv'
  <2> SUFFICES ASSUME Inv, UNCHANGED vars PROVE Inv'
    OBVIOUS
  <2>1. TypeOK => TypeOK'
    BY DEF TypeOK, vars
  <2>2. Sound => Sound'
    BY DEF Sound, InOrder, NamespacesOK, Tells, Does, ClosedAreEmpty, PathsAreLive, ListsAgree,
       Changing, On, Active, vars
  <2> QED BY <2>1, <2>2 DEF Inv, vars
<1>2. Inv /\ [Next]_vars => Inv'
  BY <1>1, NextKeeps
<1> QED BY <1>2, InitInv, PTL DEF Spec

(* Every variable keeps its type.                                          *)
THEOREM TypeCorrect == Spec => []TypeOK
<1>1. Inv => TypeOK
  BY DEF Inv
<1> QED BY <1>1, Invariance, PTL

(* A path is never used after the namespace or the connection behind it is *)
(* gone, whatever the order of requests, failures and iterations, until    *)
(* the code is at fault.                                                   *)
THEOREM PathsStayLive == Spec => []PathsAreLive
<1>1. Inv => PathsAreLive
  BY DEF Inv, Sound, PathsAreLive
<1> QED BY <1>1, Invariance, PTL

(* A channel made or closed while namespaces are added and deleted ends up *)
(* with exactly one path to each, until the code is at fault.              *)
THEOREM ListsStayInAgreement == Spec => []ListsAgree
<1>1. Inv => ListsAgree
  BY DEF Inv, Sound, ListsAgree
<1> QED BY <1>1, Invariance, PTL

=============================================================================
