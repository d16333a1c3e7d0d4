--------------------------- MODULE Enforcement_proofs ---------------------------
(***************************************************************************)
(* Proofs that the mounts of bubblewrap, the rules of Seatbelt and, where   *)
(* it may stand in, the older SandboxPolicy enforce the policy, for every   *)
(* set of paths, entries and hosts.                                        *)
(***************************************************************************)
EXTENDS Seatbelt, FsPolicy_proofs, FiniteSetTheorems

-----------------------------------------------------------------------------
(* Lists of mounts                                                          *)

AnyMount == [op : {"bind", "ro", "mask", "hide"}, at : Seq(Names)]

\* Some mount of the list covers p.
Covers(ms, p) == \E i \in DOMAIN ms : IsPrefix(ms[i].at, p)

\* What is seen at a path is the last mount that covers it.
LEMMA SeenLast ==
  ASSUME NEW ms \in Seq(AnyMount), NEW p
  PROVE  /\ ~Covers(ms, p) => Seen(ms, p) = "nothing"
         /\ Covers(ms, p) => \E i \in DOMAIN ms : IsPrefix(ms[i].at, p)
         /\ \A i \in DOMAIN ms :
              /\ IsPrefix(ms[i].at, p)
              /\ \A j \in DOMAIN ms : j > i => ~IsPrefix(ms[j].at, p)
              => Seen(ms, p) = ms[i].op
<1> DEFINE over == {i \in DOMAIN ms : IsPrefix(ms[i].at, p)}
<1>1. Seen(ms, p) = IF over = {} THEN "nothing" ELSE ms[Max(over)].op
  BY DEF Seen
<1>2. ASSUME NEW i \in DOMAIN ms, IsPrefix(ms[i].at, p),
             \A j \in DOMAIN ms : j > i => ~IsPrefix(ms[j].at, p)
      PROVE  Seen(ms, p) = ms[i].op
  <2>1. i \in over /\ over \subseteq Nat
    BY <1>2
  <2>2. \A y \in over : i >= y
    BY <1>2, <2>1
  <2> HIDE DEF over
  <2>3. \A x \in over : (\A y \in over : x >= y) => x = i
    BY <2>1, <2>2
  <2>4. Max(over) = i
    BY <2>1, <2>2, <2>3 DEF Max
  <2> QED
    BY <1>1, <2>1, <2>4
<1> QED
  BY <1>1, <1>2 DEF Covers

\* There is a last mount that covers p, where one does.
LEMMA LastCover ==
  ASSUME NEW ms \in Seq(AnyMount), NEW p, Covers(ms, p)
  PROVE  \E i \in DOMAIN ms : /\ IsPrefix(ms[i].at, p) /\ Seen(ms, p) = ms[i].op
                              /\ \A j \in DOMAIN ms : j > i => ~IsPrefix(ms[j].at, p)
<1> DEFINE T == {n \in Nat : \E i \in DOMAIN ms : IsPrefix(ms[i].at, p) /\ n = Len(ms) - i}
<1>1. T \in SUBSET Nat /\ T # {}
  <2>1. PICK i \in DOMAIN ms : IsPrefix(ms[i].at, p)
    BY DEF Covers
  <2>2. Len(ms) - i \in Nat
    OBVIOUS
  <2> QED
    BY <2>1, <2>2
<1>2. PICK m \in T : \A k \in T : m <= k
  BY <1>1, LeastNatural
<1>3. PICK i \in DOMAIN ms : IsPrefix(ms[i].at, p) /\ m = Len(ms) - i
  BY <1>2
<1>4. ASSUME NEW j \in DOMAIN ms, j > i PROVE ~IsPrefix(ms[j].at, p)
  <2>1. Len(ms) - j \in Nat /\ ~(m <= Len(ms) - j)
    BY <1>3, <1>4
  <2>2. IsPrefix(ms[j].at, p) => Len(ms) - j \in T
    BY <2>1
  <2> QED
    BY <1>2, <2>1, <2>2
<1> QED
  BY <1>3, <1>4, SeenLast

\* What is seen is what some mount of the list shows.
LEMMA SeenMember ==
  ASSUME NEW ms \in Seq(AnyMount), NEW p
  PROVE  /\ Covers(ms, p) <=> \E m \in Range(ms) : IsPrefix(m.at, p)
         /\ Covers(ms, p) => \E m \in Range(ms) : IsPrefix(m.at, p) /\ Seen(ms, p) = m.op
<1>1. Range(ms) = {ms[i] : i \in DOMAIN ms}
  BY DEF Range
<1>2. Covers(ms, p) <=> \E m \in Range(ms) : IsPrefix(m.at, p)
  BY <1>1 DEF Covers
<1>3. ASSUME Covers(ms, p)
      PROVE  \E m \in Range(ms) : IsPrefix(m.at, p) /\ Seen(ms, p) = m.op
  BY <1>1, <1>3, LastCover
<1> QED
  BY <1>2, <1>3

\* What comes later hides what came before.
LEMMA SeenConcat ==
  ASSUME NEW s \in Seq(AnyMount), NEW t \in Seq(AnyMount), NEW p
  PROVE  /\ s \o t \in Seq(AnyMount)
         /\ Covers(s \o t, p) <=> Covers(s, p) \/ Covers(t, p)
         /\ Covers(t, p) => Seen(s \o t, p) = Seen(t, p)
         /\ ~Covers(t, p) => Seen(s \o t, p) = Seen(s, p)
<1> DEFINE st == s \o t
<1>1. /\ st \in Seq(AnyMount) /\ Range(st) = Range(s) \cup Range(t)
  BY ConcatRange
<1>2. /\ DOMAIN st = 1..(Len(s) + Len(t)) /\ DOMAIN s = 1..Len(s) /\ DOMAIN t = 1..Len(t)
      /\ Len(s) \in Nat /\ Len(t) \in Nat
      /\ \A n \in 1..Len(s) : st[n] = s[n]
      /\ \A n \in 1..Len(t) : st[Len(s) + n] = t[n]
  OBVIOUS
<1> HIDE DEF st
<1>3. Covers(st, p) <=> Covers(s, p) \/ Covers(t, p)
  BY <1>1, SeenMember
<1>4. ASSUME Covers(t, p) PROVE Seen(st, p) = Seen(t, p)
  <2>1. PICK i \in DOMAIN t : /\ IsPrefix(t[i].at, p) /\ Seen(t, p) = t[i].op
                              /\ \A j \in DOMAIN t : j > i => ~IsPrefix(t[j].at, p)
    BY <1>4, LastCover
  <2> DEFINE k == Len(s) + i
  <2>2. k \in DOMAIN st /\ st[k] = t[i]
    BY <1>2
  <2>3. ASSUME NEW j \in DOMAIN st, j > k PROVE ~IsPrefix(st[j].at, p)
    <3>1. j - Len(s) \in 1..Len(t) /\ j - Len(s) > i /\ Len(s) + (j - Len(s)) = j
      BY <1>2, <2>3
    <3>2. st[j] = t[j - Len(s)]
      BY <1>2, <3>1
    <3> QED
      BY <1>2, <2>1, <3>1, <3>2
  <2> HIDE DEF k
  <2>4. Seen(st, p) = st[k].op
    BY <1>1, <2>1, <2>2, <2>3, SeenLast
  <2> QED
    BY <2>1, <2>2, <2>4
<1>5. ASSUME ~Covers(t, p) PROVE Seen(st, p) = Seen(s, p)
  <2>1. CASE ~Covers(s, p)
    BY <1>1, <1>3, <1>5, <2>1, SeenLast
  <2>2. CASE Covers(s, p)
    <3>1. PICK i \in DOMAIN s : /\ IsPrefix(s[i].at, p) /\ Seen(s, p) = s[i].op
                                /\ \A j \in DOMAIN s : j > i => ~IsPrefix(s[j].at, p)
      BY <2>2, LastCover
    <3>2. i \in DOMAIN st /\ st[i] = s[i]
      BY <1>2
    <3>3. ASSUME NEW j \in DOMAIN st, j > i PROVE ~IsPrefix(st[j].at, p)
      <4>1. CASE j \in 1..Len(s)
        BY <1>2, <3>1, <3>3, <4>1
      <4>2. CASE j \notin 1..Len(s)
        <5>1. j - Len(s) \in 1..Len(t) /\ Len(s) + (j - Len(s)) = j
          BY <1>2, <4>2
        <5>2. st[j] = t[j - Len(s)]
          BY <1>2, <5>1
        <5> QED
          BY <1>2, <1>5, <5>1, <5>2 DEF Covers
      <4> QED
        BY <4>1, <4>2
    <3>4. Seen(st, p) = st[i].op
      BY <1>1, <3>1, <3>2, <3>3, SeenLast
    <3> QED
      BY <3>1, <3>2, <3>4
  <2> QED
    BY <2>1, <2>2
<1> QED
  BY <1>1, <1>3, <1>4, <1>5 DEF st

-----------------------------------------------------------------------------
(* Lists of lists, and lists in the order of depth                          *)

\* f[n] is what the first n lists of a list of lists are together.
Flattens(f, lists, V) ==
  /\ f \in [0..Len(lists) -> Seq(V)] /\ f[0] = <<>>
  /\ \A i \in 1..Len(lists) : f[i] = f[i - 1] \o lists[i]

\* FlattenSeq puts the lists together one after the other.
LEMMA Flattened ==
  ASSUME NEW V, NEW lists \in Seq(Seq(V))
  PROVE  \E f : Flattens(f, lists, V) /\ FlattenSeq(lists) = f[Len(lists)]
<1> DEFINE N == Len(lists)
<1>1. N \in Nat /\ lists \in [1..N -> Seq(V)]
  OBVIOUS
<1> HIDE DEF N
<1> DEFINE step == [i \in 1..N |-> [s \in Seq(V) |-> s \o lists[i]]]
<1>2. step \in Steps(N, Seq(V))
  <2>1. \A i \in 1..N : [s \in Seq(V) |-> s \o lists[i]] \in [Seq(V) -> Seq(V)]
    BY <1>1
  <2> QED
    BY <2>1 DEF Steps
<1>3. \A i \in 1..N : \A s \in Seq(V) : step[i][s] = s \o lists[i]
  OBVIOUS
<1> HIDE DEF step
<1>4. PICK f : Follows(f, N, Seq(V), <<>>, step)
  <2>1. <<>> \in Seq(V)
    OBVIOUS
  <2> QED
    BY <1>1, <1>2, <2>1, Recursion
<1>5. /\ f \in [0..N -> Seq(V)] /\ f[0] = <<>>
      /\ \A i \in 1..N : f[i] = f[i - 1] \o lists[i]
  <2>1. /\ f \in [0..N -> Seq(V)] /\ f[0] = <<>>
        /\ \A i \in 1..N : f[i] = step[i][f[i - 1]]
    BY <1>4 DEF Follows
  <2>2. \A i \in 1..N : i - 1 \in 0..N
    BY <1>1
  <2>3. \A i \in 1..N : f[i - 1] \in Seq(V)
    BY <2>1, <2>2
  <2> QED
    BY <1>3, <2>1, <2>3
<1>6. Flattens(f, lists, V)
  BY <1>5 DEF Flattens, N
<1> SUFFICES ASSUME TRUE PROVE \E g : Flattens(g, lists, V) /\ FlattenSeq(lists) = g[N]
  BY DEF N
<1>7. CASE N = 0
  <2>1. FlattenSeq(lists) = lists /\ lists = <<>>
    BY <1>1, <1>7 DEF FlattenSeq, N
  <2> QED
    BY <1>5, <1>6, <1>7, <2>1
<1>8. CASE N # 0
  <2> DEFINE IsFlat(g) == g = [i \in 1..N |-> IF i = 1 THEN lists[i] ELSE g[i - 1] \o lists[i]]
             h == [i \in 1..N |-> f[i]]
             g == CHOOSE x : IsFlat(x)
  <2>1. IsFlat(h)
    <3>1. ASSUME NEW i \in 1..N
          PROVE  h[i] = IF i = 1 THEN lists[i] ELSE h[i - 1] \o lists[i]
      <4>1. h[i] = f[i] /\ f[i] = f[i - 1] \o lists[i]
        BY <1>5
      <4>2. CASE i = 1
        <5>1. i - 1 = 0 /\ f[i - 1] = <<>> /\ lists[i] \in Seq(V)
          BY <1>1, <1>5, <4>2
        <5>2. <<>> \o lists[i] = lists[i]
          BY <5>1
        <5>3. f[i] = lists[i]
          BY <4>1, <5>1, <5>2
        <5> QED
          BY <4>1, <4>2, <5>3
      <4>3. CASE i # 1
        <5>1. i - 1 \in 1..N
          BY <1>1, <4>3
        <5> QED
          BY <4>1, <4>3, <5>1
      <4> QED
        BY <4>2, <4>3
    <3> QED
      BY <3>1
  <2>2. IsFlat(g)
    BY <2>1
  <2> HIDE DEF g, h
  <2>3. FlattenSeq(lists) = g[N]
    BY <1>8 DEF FlattenSeq, N, g
  <2> DEFINE k == [i \in 0..N |-> IF i = 0 THEN <<>> ELSE g[i]]
             Good == {n \in 0..N : k[n] = f[n]}
  <2>4. \A n \in 0..N : n \in Good
    <3>1. 0 \in Good
      BY <1>1, <1>5
    <3>2. ASSUME NEW n \in 1..N, n - 1 \in Good PROVE n \in Good
      <4>1. k[n] = g[n] /\ n - 1 \in 0..N /\ k[n - 1] = f[n - 1]
        BY <1>1, <3>2
      <4>2. g[n] = IF n = 1 THEN lists[n] ELSE g[n - 1] \o lists[n]
        BY <2>2
      <4>3. f[n] = f[n - 1] \o lists[n]
        BY <1>5
      <4> SUFFICES ASSUME TRUE PROVE k[n] = f[n]
        BY <1>1
      <4>4. CASE n = 1
        <5>1. n - 1 = 0 /\ f[n - 1] = <<>> /\ lists[n] \in Seq(V)
          BY <1>1, <1>5, <4>4
        <5>2. <<>> \o lists[n] = lists[n]
          BY <5>1
        <5>3. f[n] = lists[n]
          BY <4>3, <5>1, <5>2
        <5> QED
          BY <4>1, <4>2, <4>4, <5>3
      <4>5. CASE n # 1
        <5>1. k[n - 1] = g[n - 1]
          BY <1>1, <4>1, <4>5
        <5> HIDE DEF k
        <5>2. g[n] = g[n - 1] \o lists[n]
          BY <4>2, <4>5
        <5> QED
          BY <4>1, <4>3, <5>1, <5>2
      <4> QED
        BY <4>4, <4>5
    <3> HIDE DEF Good
    <3> QED
      BY <1>1, <3>1, <3>2, ListInduction
  <2>5. N \in 0..N
    BY <1>1
  <2>6. k[N] = g[N] /\ k[N] = f[N]
    BY <1>8, <2>4, <2>5
  <2> QED
    BY <1>6, <2>3, <2>6
<1> QED
  BY <1>7, <1>8

\* A finite set as a list
LEMMA SetListed ==
  ASSUME NEW V, NEW S \in SUBSET V, IsFiniteSet(S)
  PROVE  SetToSeq(S) \in Seq(V) /\ Range(SetToSeq(S)) = S
<1> DEFINE n == Cardinality(S)
           s == SetToSeq(S)
<1>1. n \in Nat /\ \E f : f \in Bijection(1..n, S)
  BY FS_CardinalityType DEF ExistsBijection
<1>2. PICK f \in [1..n -> S] : IsInjective(f)
  <2>1. PICK f : f \in Bijection(1..n, S)
    BY <1>1
  <2>2. f \in [1..n -> S] /\ \A a, b \in 1..n : f[a] = f[b] => a = b
    BY <2>1 DEF Bijection, Injection, IsInjective
  <2>3. DOMAIN f = 1..n
    BY <2>2
  <2>4. IsInjective(f)
    BY <2>2, <2>3 DEF IsInjective
  <2> QED
    BY <2>2, <2>4
<1> HIDE DEF n
<1>3. s \in [1..n -> S] /\ IsInjective(s)
  BY <1>2 DEF SetToSeq, n
<1> HIDE DEF s
<1>4. s \in Injection(1..n, S)
  <2>1. DOMAIN s = 1..n
    BY <1>3
  <2> QED
    BY <1>3, <2>1 DEF Injection, IsInjective
<1>5. Cardinality(1..n) = n
  <2>1. n = 0 => n - 1 + 1 = n /\ 1 > n
    BY <1>1
  <2>2. Cardinality(1..n) = IF 1 > n THEN 0 ELSE n - 1 + 1
    BY <1>1, FS_Interval
  <2> QED
    BY <1>1, <2>1, <2>2
<1>6. s \in Surjection(1..n, S)
  BY <1>4, <1>5, FS_Injection DEF n
<1>7. Range(s) = S
  BY <1>3, <1>6 DEF Surjection, Range
<1>8. s \in Seq(V)
  BY <1>1, <1>3
<1> QED
  BY <1>7, <1>8 DEF s

\* A finite set of natural numbers has a greatest one.
LEMMA FiniteMaximum ==
  ASSUME NEW T \in SUBSET Nat, T # {}, IsFiniteSet(T)
  PROVE  \E x \in T : \A y \in T : x >= y
<1> DEFINE n == Cardinality(T)
<1>1. PICK f : f \in Bijection(1..n, T)
  BY FS_CardinalityType DEF ExistsBijection
<1>2. n \in Nat
  BY FS_CardinalityType
<1> HIDE DEF n
<1>3. f \in [1..n -> T] /\ \A y \in T : \E i \in 1..n : f[i] = y
  BY <1>1 DEF Bijection, Surjection, Injection
<1> DEFINE Good == {k \in 0..n : \E x \in T : \A i \in 1..k : x >= f[i]}
<1>4. 0 \in Good
  <2>1. 0 \in 0..n /\ 1..0 = {}
    BY <1>2
  <2> QED
    BY <2>1
<1>5. ASSUME NEW k \in 1..n, k - 1 \in Good PROVE k \in Good
  <2>1. PICK x \in T : \A i \in 1..(k - 1) : x >= f[i]
    BY <1>5
  <2>2. f[k] \in T /\ k \in 0..n /\ \A i \in 1..k : i \in 1..(k - 1) \/ i = k
    BY <1>2, <1>3
  <2>3. x \in Nat /\ f[k] \in Nat /\ \A i \in 1..k : f[i] \in Nat
    <3>1. 1..k \subseteq 1..n
      BY <1>2
    <3>2. \A i \in 1..n : f[i] \in Nat
      BY <1>3
    <3> QED
      BY <2>2, <3>1, <3>2
  <2>4. CASE x >= f[k]
    <3>1. \A i \in 1..k : x >= f[i]
      BY <2>1, <2>2, <2>4
    <3> QED
      BY <2>2, <3>1
  <2>5. CASE ~(x >= f[k])
    <3>1. \A i \in 1..k : f[k] >= f[i]
      BY <2>1, <2>2, <2>3, <2>5
    <3> QED
      BY <2>2, <3>1
  <2> QED
    BY <2>4, <2>5
<1> HIDE DEF Good
<1>6. n \in Good
  <2>1. n \in 0..n
    BY <1>2
  <2> QED
    BY <1>2, <1>4, <1>5, <2>1, ListInduction
<1>7. PICK x \in T : \A i \in 1..n : x >= f[i]
  BY <1>6 DEF Good
<1>8. \A y \in T : x >= y
  BY <1>3, <1>7
<1> QED
  BY <1>8

\* A finite set of mounts as a list in the order of path_depth
LEMMA DepthOrder ==
  ASSUME NEW S \in SUBSET AnyMount, IsFiniteSet(S)
  PROVE  /\ ByDepth(S) \in Seq(AnyMount) /\ Range(ByDepth(S)) = S
         /\ \A i, j \in DOMAIN ByDepth(S) :
              i <= j => Len(ByDepth(S)[i].at) <= Len(ByDepth(S)[j].at)
<1> DEFINE depths == {Len(m.at) : m \in S}
           deepest == IF S = {} THEN 0 ELSE Max(depths)
           N == deepest + 1
           Of(d) == {m \in S : Len(m.at) = d - 1}
           lists == [d \in 1..N |-> SetToSeq(Of(d))]
<1>1. \A m \in S : m.at \in Seq(Names) /\ Len(m.at) \in Nat
  BY DEF AnyMount
<1>2. deepest \in Nat /\ \A m \in S : Len(m.at) <= deepest
  <2>1. CASE S = {}
    BY <2>1
  <2>2. CASE S # {}
    <3>1. depths \in SUBSET Nat /\ depths # {}
      BY <1>1, <2>2
    <3>2. IsFiniteSet(depths)
      <4> DEFINE h == [m \in S |-> Len(m.at)]
      <4>1. h \in [S -> depths] /\ \A d \in depths : \E m \in S : h[m] = d
        OBVIOUS
      <4> HIDE DEF h, depths
      <4>2. h \in Surjection(S, depths)
        BY <4>1 DEF Surjection
      <4> QED
        BY <4>2, FS_Surjection
    <3>3. \E x \in depths : \A y \in depths : x >= y
      BY <3>1, <3>2, FiniteMaximum
    <3> HIDE DEF depths
    <3>4. Max(depths) \in depths /\ \A y \in depths : Max(depths) >= y
      BY <3>3 DEF Max
    <3>5. Max(depths) \in Nat /\ \A m \in S : Len(m.at) \in depths
      BY <3>1, <3>4 DEF depths
    <3> QED
      BY <1>1, <2>2, <3>4, <3>5
  <2> QED
    BY <2>1, <2>2
<1>3. N \in Nat
  BY <1>2
<1>4. \A d \in 1..N : lists[d] \in Seq(AnyMount) /\ Range(lists[d]) = Of(d)
  <2> SUFFICES ASSUME NEW d \in 1..N
               PROVE  SetToSeq(Of(d)) \in Seq(AnyMount) /\ Range(SetToSeq(Of(d))) = Of(d)
    OBVIOUS
  <2>1. Of(d) \in SUBSET AnyMount /\ Of(d) \in SUBSET S
    OBVIOUS
  <2> HIDE DEF Of
  <2>2. IsFiniteSet(Of(d))
    BY <2>1, FS_Subset
  <2> QED
    BY <2>1, <2>2, SetListed
<1>5. ByDepth(S) = FlattenSeq(lists)
  BY DEF ByDepth
<1> HIDE DEF deepest
<1>6. lists \in Seq(Seq(AnyMount)) /\ Len(lists) = N
  <2>1. lists \in [1..N -> Seq(AnyMount)]
    <3>1. lists = [d \in 1..N |-> lists[d]]
      OBVIOUS
    <3> HIDE DEF lists
    <3> QED
      BY <1>4, <3>1
  <2> HIDE DEF lists, N
  <2> QED
    BY <1>3, <2>1
<1> HIDE DEF lists
<1>7. PICK f : Flattens(f, lists, AnyMount) /\ ByDepth(S) = f[N]
  BY <1>5, <1>6, Flattened
<1>8. /\ f \in [0..N -> Seq(AnyMount)] /\ f[0] = <<>>
      /\ \A i \in 1..N : f[i] = f[i - 1] \o lists[i]
  BY <1>6, <1>7 DEF Flattens
<1> HIDE DEF N
<1> DEFINE Sorted(s) == \A i, j \in DOMAIN s : i <= j => Len(s[i].at) <= Len(s[j].at)
           Good == {n \in 0..N : Range(f[n]) = {m \in S : Len(m.at) < n} /\ Sorted(f[n])}
<1>9. 0 \in Good
  <2>1. Range(<<>>) = {} /\ DOMAIN <<>> = {}
    BY DEF Range
  <2>2. {m \in S : Len(m.at) < 0} = {}
    BY <1>1
  <2> QED
    BY <1>3, <1>8, <2>1, <2>2
<1>10. ASSUME NEW n \in 1..N, n - 1 \in Good PROVE n \in Good
  <2> DEFINE s == f[n - 1]
             t == lists[n]
             st == s \o t
  <2>1. n - 1 \in 0..N /\ n \in 0..N /\ n \in Nat
    BY <1>3
  <2>2. s \in Seq(AnyMount) /\ t \in Seq(AnyMount) /\ f[n] = st /\ Range(t) = Of(n)
    BY <1>4, <1>8, <2>1
  <2>3. Range(s) = {m \in S : Len(m.at) < n - 1} /\ Sorted(s)
    BY <1>10
  <2> HIDE DEF s, t
  <2>4. Range(st) = {m \in S : Len(m.at) < n}
    <3>1. Range(st) = Range(s) \cup Range(t)
      BY <2>2, ConcatRange
    <3>2. \A m \in S : Len(m.at) < n <=> Len(m.at) < n - 1 \/ Len(m.at) = n - 1
      BY <1>1, <2>1
    <3> QED
      BY <2>2, <2>3, <3>1, <3>2
  <2>5. Sorted(st)
    <3> SUFFICES ASSUME NEW i \in DOMAIN st, NEW j \in DOMAIN st, i <= j
                 PROVE  Len(st[i].at) <= Len(st[j].at)
      OBVIOUS
    <3>1. /\ DOMAIN st = 1..(Len(s) + Len(t)) /\ DOMAIN s = 1..Len(s) /\ DOMAIN t = 1..Len(t)
          /\ Len(s) \in Nat /\ Len(t) \in Nat
          /\ \A k \in 1..Len(s) : st[k] = s[k]
          /\ \A k \in 1..Len(t) : st[Len(s) + k] = t[k]
      BY <2>2
    <3>2. \A k \in 1..Len(s) : Len(st[k].at) \in Nat /\ Len(st[k].at) < n - 1
      <4> SUFFICES ASSUME NEW k \in 1..Len(s) PROVE Len(s[k].at) \in Nat /\ Len(s[k].at) < n - 1
        BY <3>1
      <4>1. s[k] \in Range(s)
        BY <3>1 DEF Range
      <4> QED
        BY <1>1, <2>3, <4>1
    <3>3. \A k \in 1..Len(t) : Len(t[k].at) = n - 1
      <4> SUFFICES ASSUME NEW k \in 1..Len(t) PROVE Len(t[k].at) = n - 1
        OBVIOUS
      <4>1. t[k] \in Range(t)
        BY <3>1 DEF Range
      <4> QED
        BY <2>2, <4>1
    <3> HIDE DEF st
    <3>4. \A k \in DOMAIN st : k \notin 1..Len(s) => Len(st[k].at) = n - 1
      <4> SUFFICES ASSUME NEW k \in DOMAIN st, k \notin 1..Len(s) PROVE Len(st[k].at) = n - 1
        OBVIOUS
      <4>1. k - Len(s) \in 1..Len(t) /\ Len(s) + (k - Len(s)) = k
        BY <3>1
      <4>2. st[k] = t[k - Len(s)]
        BY <3>1, <4>1
      <4> QED
        BY <3>3, <4>1, <4>2
    <3>5. CASE i \in 1..Len(s) /\ j \in 1..Len(s)
      BY <2>3, <3>1, <3>5
    <3>6. CASE i \in 1..Len(s) /\ j \notin 1..Len(s)
      BY <2>1, <3>2, <3>4, <3>6
    <3>7. CASE i \notin 1..Len(s)
      <4>1. j \notin 1..Len(s)
        BY <3>1, <3>7
      <4> QED
        BY <2>1, <3>4, <3>7, <4>1
    <3> QED
      BY <3>5, <3>6, <3>7
  <2> HIDE DEF st, Sorted
  <2> QED
    BY <2>1, <2>2, <2>4, <2>5
<1> HIDE DEF Good
<1>11. N \in Good
  <2>1. N \in 0..N
    BY <1>3
  <2> QED
    BY <1>3, <1>9, <1>10, <2>1, ListInduction
<1>12. Range(f[N]) = {m \in S : Len(m.at) < N} /\ Sorted(f[N])
  BY <1>11 DEF Good
<1>13. {m \in S : Len(m.at) < N} = S
  BY <1>1, <1>2 DEF N
<1>14. f[N] \in Seq(AnyMount)
  <2>1. N \in 0..N
    BY <1>3
  <2> QED
    BY <1>8, <2>1
<1> QED
  BY <1>7, <1>12, <1>13, <1>14

\* A flattened list shows what its last list that covers the path shows.
LEMMA SeenFlat ==
  ASSUME NEW lists \in Seq(Seq(AnyMount)), NEW p
  PROVE  /\ FlattenSeq(lists) \in Seq(AnyMount)
         /\ \A m : m \in Range(FlattenSeq(lists)) <=>
                     \E i \in 1..Len(lists) : m \in Range(lists[i])
         /\ Covers(FlattenSeq(lists), p) =>
              \E k \in 1..Len(lists) :
                /\ Covers(lists[k], p) /\ Seen(FlattenSeq(lists), p) = Seen(lists[k], p)
                /\ \A j \in 1..Len(lists) : j > k => ~Covers(lists[j], p)
<1> DEFINE N == Len(lists)
<1>1. N \in Nat /\ \A i \in 1..N : lists[i] \in Seq(AnyMount)
  OBVIOUS
<1>2. PICK f : Flattens(f, lists, AnyMount) /\ FlattenSeq(lists) = f[N]
  BY Flattened
<1>3. /\ f \in [0..N -> Seq(AnyMount)] /\ f[0] = <<>>
      /\ \A i \in 1..N : f[i] = f[i - 1] \o lists[i]
  BY <1>2 DEF Flattens
<1> HIDE DEF N
<1> DEFINE Holds(n) == \A m : m \in Range(f[n]) <=> \E i \in 1..n : m \in Range(lists[i])
           Shows(n) == Covers(f[n], p) =>
                         \E k \in 1..n :
                           /\ Covers(lists[k], p) /\ Seen(f[n], p) = Seen(lists[k], p)
                           /\ \A j \in 1..n : j > k => ~Covers(lists[j], p)
           Good == {n \in 0..N : Holds(n) /\ Shows(n)}
<1>4. 0 \in Good
  <2>1. Range(<<>>) = {} /\ DOMAIN <<>> = {} /\ 1..0 = {}
    BY DEF Range
  <2>2. ~Covers(<<>>, p)
    BY <2>1 DEF Covers
  <2>3. Holds(0) /\ Shows(0)
    BY <1>3, <2>1, <2>2
  <2> QED
    BY <1>1, <2>3
<1>5. ASSUME NEW n \in 1..N, n - 1 \in Good PROVE n \in Good
  <2> DEFINE s == f[n - 1]
             t == lists[n]
  <2>1. n - 1 \in 0..N /\ n \in 0..N /\ n \in 1..n /\ 1..(n - 1) \subseteq 1..n
    BY <1>1
  <2>2. \A i \in 1..n : i \in 1..(n - 1) \/ i = n
    BY <1>1
  <2>3. s \in Seq(AnyMount) /\ t \in Seq(AnyMount) /\ f[n] = s \o t
    BY <1>1, <1>3, <2>1
  <2>4. Holds(n - 1) /\ Shows(n - 1)
    BY <1>5
  <2> HIDE DEF s, t
  <2>5. Holds(n)
    <3>1. Range(f[n]) = Range(s) \cup Range(t)
      BY <2>3, ConcatRange
    <3>2. \A m : m \in Range(s) <=> \E i \in 1..(n - 1) : m \in Range(lists[i])
      BY <2>4 DEF s
    <3>3. \A m : m \in Range(t) <=> m \in Range(lists[n])
      BY DEF t
    <3> QED
      BY <2>1, <2>2, <3>1, <3>2, <3>3
  <2>6. Shows(n)
    <3> SUFFICES ASSUME Covers(f[n], p)
                 PROVE  \E k \in 1..n :
                          /\ Covers(lists[k], p) /\ Seen(f[n], p) = Seen(lists[k], p)
                          /\ \A j \in 1..n : j > k => ~Covers(lists[j], p)
      OBVIOUS
    <3>1. /\ Covers(s, p) \/ Covers(t, p)
          /\ Covers(t, p) => Seen(f[n], p) = Seen(t, p)
          /\ ~Covers(t, p) => Seen(f[n], p) = Seen(s, p)
      BY <2>3, SeenConcat
    <3>2. CASE Covers(t, p)
      <4>1. \A j \in 1..n : ~(j > n)
        BY <1>1
      <4>2. Covers(lists[n], p) /\ Seen(f[n], p) = Seen(lists[n], p)
        BY <3>1, <3>2 DEF t
      <4> QED
        BY <2>1, <4>1, <4>2
    <3>3. CASE ~Covers(t, p)
      <4>1. PICK k \in 1..(n - 1) :
              /\ Covers(lists[k], p) /\ Seen(s, p) = Seen(lists[k], p)
              /\ \A j \in 1..(n - 1) : j > k => ~Covers(lists[j], p)
        BY <2>4, <3>1, <3>3 DEF s
      <4>2. \A j \in 1..n : j > k => ~Covers(lists[j], p)
        BY <2>2, <3>3, <4>1 DEF t
      <4>3. Seen(f[n], p) = Seen(lists[k], p)
        BY <3>1, <3>3, <4>1
      <4> QED
        BY <2>1, <4>1, <4>2, <4>3
    <3> QED
      BY <3>2, <3>3
  <2> HIDE DEF Holds, Shows
  <2> QED
    BY <2>1, <2>5, <2>6
<1> HIDE DEF Good
<1>6. N \in Good
  <2>1. N \in 0..N
    BY <1>1
  <2> QED
    BY <1>1, <1>4, <1>5, <2>1, ListInduction
<1>7. Holds(N) /\ Shows(N)
  BY <1>6 DEF Good
<1>8. f[N] \in Seq(AnyMount)
  <2>1. N \in 0..N
    BY <1>1
  <2> QED
    BY <1>3, <2>1
<1> QED
  BY <1>2, <1>7, <1>8 DEF N

-----------------------------------------------------------------------------
(* Only finitely many paths are mounted: they stem from the policy's list   *)

\* What a function makes of a finite set
LEMMA ImageFinite ==
  ASSUME NEW S, IsFiniteSet(S), NEW f, DOMAIN f = S
  PROVE  IsFiniteSet({f[x] : x \in S})
<1> DEFINE T == {f[x] : x \in S}
           g == [x \in S |-> f[x]]
<1>1. g \in [S -> T] /\ \A y \in T : \E x \in S : g[x] = y
  OBVIOUS
<1> HIDE DEF g, T
<1>2. g \in Surjection(S, T)
  BY <1>1 DEF Surjection
<1>3. IsFiniteSet(T)
  BY <1>2, FS_Surjection
<1> QED
  BY <1>3 DEF T

LEMMA RangeFinite ==
  ASSUME NEW V, NEW s \in Seq(V)
  PROVE  IsFiniteSet(Range(s))
<1>1. IsFiniteSet(DOMAIN s)
  <2>1. DOMAIN s = 1..Len(s) /\ Len(s) \in Int /\ 1 \in Int
    OBVIOUS
  <2> QED
    BY <2>1, FS_Interval
<1>2. IsFiniteSet({s[i] : i \in DOMAIN s})
  BY <1>1, ImageFinite
<1> QED
  BY <1>2 DEF Range

\* The paths that a policy names
LEMMA ResolvedFinite ==
  ASSUME NEW pol \in [kind : Kinds, entries : Seq(AllEntries)]
  PROVE  IsFiniteSet({e.at : e \in Resolved(pol)})
<1> DEFINE named == {f \in EntriesOf(pol) : ResolveEntry(f) # NoPath}
           at == [e \in named |-> ResolveEntry(e)]
<1>1. IsFiniteSet(EntriesOf(pol))
  BY RangeFinite DEF EntriesOf
<1>2. IsFiniteSet(named)
  <2>1. named \in SUBSET EntriesOf(pol)
    OBVIOUS
  <2> HIDE DEF named
  <2> QED
    BY <1>1, <2>1, FS_Subset
<1>3. IsFiniteSet({at[e] : e \in named})
  <2>1. DOMAIN at = named
    OBVIOUS
  <2> HIDE DEF at, named
  <2> QED
    BY <1>2, <2>1, ImageFinite
<1>4. {e.at : e \in Resolved(pol)} \in SUBSET {at[e] : e \in named}
  <2> SUFFICES ASSUME NEW r \in Resolved(pol) PROVE \E e \in named : r.at = at[e]
    OBVIOUS
  <2>1. PICK e \in named : r = [at |-> ResolveEntry(e), access |-> e.access]
    BY DEF Resolved
  <2>2. at[e] = ResolveEntry(e)
    OBVIOUS
  <2> QED
    BY <2>1, <2>2
<1> HIDE DEF at
<1> QED
  BY <1>3, <1>4, FS_Subset

-----------------------------------------------------------------------------
(* What exists on the host, and the first component that does not           *)

\* What is above an existing path exists.
LEMMA AboveExists ==
  ASSUME host \in Hosts, NEW p \in Seq(Names), Exists(p), NEW q \in Seq(Names), IsPrefix(q, p)
  PROVE  Exists(q)
<1>1. p \in Tree /\ host[p] # "none"
  BY DEF Exists, HostKind
<1>2. Len(q) \in 0..Len(p) /\ SubSeq(p, 1, Len(q)) = q
  <2>1. SubSeq(q, 1, Len(q)) = q
    OBVIOUS
  <2> QED
    BY <2>1, PrefixFacts DEF IsPrefix
<1>3. SubSeq(p, 1, Len(q)) \in Tree /\ host[SubSeq(p, 1, Len(q))] # "none"
  BY <1>1, <1>2, PlanAssumption DEF PlanAssumption
<1> QED
  BY <1>2, <1>3 DEF Exists, HostKind

\* find_first_non_existent_component: all that exists above the path is above it.
LEMMA FirstMissingIs ==
  ASSUME host \in Hosts, NEW p \in Seq(Names), ~Exists(p), p # Root
  PROVE  /\ FirstMissing(p) \in Seq(Names) /\ IsPrefix(FirstMissing(p), p)
         /\ ~Exists(FirstMissing(p))
         /\ \A r \in Seq(Names) : Exists(r) /\ IsPrefix(r, p) =>
              IsPrefix(r, FirstMissing(p)) /\ Len(r) < Len(FirstMissing(p))
<1> DEFINE missing == {n \in 1..Len(p) : ~Exists(SubSeq(p, 1, n))}
           k == Min(missing)
<1>1. missing \in SUBSET Nat /\ missing # {}
  <2>1. Len(p) \in Nat /\ Len(p) # 0
    BY DEF Root
  <2>2. SubSeq(p, 1, Len(p)) = p /\ Len(p) \in 1..Len(p)
    BY <2>1
  <2>3. Len(p) \in missing
    BY <2>2
  <2> QED
    BY <2>3
<1>2. k \in missing /\ \A n \in missing : k <= n
  <2>1. \E m \in missing : \A n \in missing : m <= n
    BY <1>1, LeastNatural
  <2> HIDE DEF missing
  <2> QED
    BY <2>1 DEF Min
<1>3. FirstMissing(p) = SubSeq(p, 1, k) /\ k \in 1..Len(p) /\ ~Exists(SubSeq(p, 1, k))
  BY <1>2 DEF FirstMissing
<1> HIDE DEF k
<1>4. SubSeq(p, 1, k) \in Seq(Names) /\ Len(SubSeq(p, 1, k)) = k
  BY <1>3
<1>5. IsPrefix(SubSeq(p, 1, k), p)
  BY <1>3, PrefixSelf
<1>6. ASSUME NEW r \in Seq(Names), Exists(r), IsPrefix(r, p)
      PROVE  IsPrefix(r, SubSeq(p, 1, k)) /\ Len(r) < k
  <2>1. ~IsPrefix(SubSeq(p, 1, k), r)
    BY <1>3, <1>4, <1>6, AboveExists
  <2>2. Len(r) \in Nat /\ k \in Nat
    BY <1>3
  <2>3. ~(k <= Len(r))
    BY <1>4, <1>5, <1>6, <2>1, PrefixOrder
  <2>4. Len(r) <= k
    BY <2>2, <2>3
  <2>5. IsPrefix(r, SubSeq(p, 1, k))
    BY <1>4, <1>5, <1>6, <2>4, PrefixOrder
  <2> QED
    BY <2>2, <2>3, <2>5
<1> QED
  BY <1>3, <1>4, <1>5, <1>6

-----------------------------------------------------------------------------
(* The mounts of one path                                                   *)

\* append_read_only_subpath_args and append_unreadable_root_args mount something at
\* the path, or an empty mask at the first component that is missing.
LEMMA PathMounts ==
  ASSUME host \in Hosts, NEW p \in Seq(Names), Exists(p) \/ p # Root,
         NEW allowed, allowed \subseteq Seq(Names), \A r \in allowed : Exists(r)
  PROVE  /\ ReadOnlyMounts(p, allowed) \in SUBSET AnyMount
         /\ UnreadableMounts(p, allowed) \in SUBSET AnyMount
         /\ IsFiniteSet(ReadOnlyMounts(p, allowed)) /\ IsFiniteSet(UnreadableMounts(p, allowed))
         /\ \A m \in ReadOnlyMounts(p, allowed) :
              /\ m.op \in {"ro", "mask"} /\ IsPrefix(m.at, p) /\ Under(m.at, allowed)
              /\ Exists(m.at) => m.at = p
              /\ ~Exists(m.at) => m.at = FirstMissing(p) /\ ~Exists(p)
         /\ \A m \in UnreadableMounts(p, allowed) :
              /\ IsPrefix(m.at, p) /\ (Exists(m.at) => m.at = p /\ m.op = "hide")
              /\ ~Exists(m.at) => m.at = FirstMissing(p) /\ ~Exists(p) /\ m.op = "mask"
         /\ Under(p, allowed) =>
              /\ \E m \in ReadOnlyMounts(p, allowed) : TRUE
              /\ \E m \in UnreadableMounts(p, allowed) : TRUE
         /\ Exists(p) => UnreadableMounts(p, allowed) = {Mount("hide", p)}
<1> DEFINE q == FirstMissing(p)
<1>1. ~Exists(p) => /\ q \in Seq(Names) /\ IsPrefix(q, p) /\ ~Exists(q)
                    /\ \A r \in allowed : IsPrefix(r, p) => IsPrefix(r, q)
  BY FirstMissingIs
<1>2. IsPrefix(p, p)
  BY PrefixSelf
<1>3. /\ \A x \in Seq(Names) : /\ Mount("ro", x) \in AnyMount /\ Mount("mask", x) \in AnyMount
                               /\ Mount("hide", x) \in AnyMount
      /\ \A o, x : Mount(o, x).op = o /\ Mount(o, x).at = x
  BY DEF AnyMount, Mount
<1>4. MissingMounts(p, allowed) = IF Under(q, allowed) THEN {Mount("mask", q)} ELSE {}
  BY DEF MissingMounts
<1>5. TransientEmptyMetadata(p) => Exists(p)
  BY DEF TransientEmptyMetadata, IsDir, Exists
<1>6. ReadOnlyMounts(p, allowed) =
        IF ~Exists(p) THEN (IF Under(q, allowed) THEN {Mount("mask", q)} ELSE {})
        ELSE IF TransientEmptyMetadata(p) /\ Under(p, allowed) THEN {Mount("mask", p)}
        ELSE IF Under(p, allowed) THEN {Mount("ro", p)} ELSE {}
  BY <1>4, <1>5 DEF ReadOnlyMounts
<1>7. UnreadableMounts(p, allowed) =
        IF Exists(p) THEN {Mount("hide", p)}
        ELSE IF Under(q, allowed) THEN {Mount("mask", q)} ELSE {}
  BY <1>4 DEF UnreadableMounts
<1>8. \A x : IsFiniteSet({x})
  BY FS_Singleton
<1>9. IsFiniteSet({})
  BY FS_EmptySet
<1>10. ~Exists(p) /\ Under(p, allowed) => Under(q, allowed)
  BY <1>1 DEF Under
<1> HIDE DEF q
<1>11. /\ ReadOnlyMounts(p, allowed) \in SUBSET AnyMount
       /\ UnreadableMounts(p, allowed) \in SUBSET AnyMount
  BY <1>1, <1>3, <1>6, <1>7
<1>12. IsFiniteSet(ReadOnlyMounts(p, allowed)) /\ IsFiniteSet(UnreadableMounts(p, allowed))
  BY <1>6, <1>7, <1>8, <1>9
<1>13. \A m \in ReadOnlyMounts(p, allowed) :
              /\ m.op \in {"ro", "mask"} /\ IsPrefix(m.at, p) /\ Under(m.at, allowed)
              /\ Exists(m.at) => m.at = p
              /\ ~Exists(m.at) => m.at = q /\ ~Exists(p)
  BY <1>1, <1>2, <1>3, <1>6
<1>14. \A m \in UnreadableMounts(p, allowed) :
              /\ IsPrefix(m.at, p) /\ (Exists(m.at) => m.at = p /\ m.op = "hide")
              /\ ~Exists(m.at) => m.at = q /\ ~Exists(p) /\ m.op = "mask"
  BY <1>1, <1>2, <1>3, <1>7
<1>15. Under(p, allowed) =>
              /\ \E m \in ReadOnlyMounts(p, allowed) : TRUE
              /\ \E m \in UnreadableMounts(p, allowed) : TRUE
  BY <1>6, <1>7, <1>10
<1> QED
  BY <1>7, <1>11, <1>12, <1>13, <1>14, <1>15 DEF q

\* The mounts of several paths are finitely many, and listed.
LEMMA ReadOnlyListed ==
  ASSUME host \in Hosts, NEW paths \in SUBSET Seq(Names), IsFiniteSet(paths),
         \A p \in paths : Exists(p) \/ p # Root,
         NEW allowed, allowed \subseteq Seq(Names), \A r \in allowed : Exists(r)
  PROVE  /\ AllReadOnly(paths, allowed) \in Seq(AnyMount)
         /\ \A m : m \in Range(AllReadOnly(paths, allowed)) <=>
                     \E p \in paths : m \in ReadOnlyMounts(p, allowed)
<1> DEFINE each == [p \in paths |-> ReadOnlyMounts(p, allowed)]
           sets == {each[p] : p \in paths}
           all == UNION {ReadOnlyMounts(p, allowed) : p \in paths}
<1>1. DOMAIN each = paths /\ \A p \in paths : each[p] = ReadOnlyMounts(p, allowed)
  OBVIOUS
<1>2. \A p \in paths : /\ ReadOnlyMounts(p, allowed) \in SUBSET AnyMount
                       /\ IsFiniteSet(ReadOnlyMounts(p, allowed))
  BY PathMounts
<1> HIDE DEF each
<1>3. IsFiniteSet(sets)
  BY <1>1, ImageFinite
<1>4. \A T \in sets : IsFiniteSet(T)
  BY <1>1, <1>2
<1>5. IsFiniteSet(UNION sets)
  BY <1>3, <1>4, FS_UNION
<1>6. all = UNION sets
  BY <1>1
<1>7. all \in SUBSET AnyMount
  BY <1>2
<1>8. \A m : m \in all <=> \E p \in paths : m \in ReadOnlyMounts(p, allowed)
  OBVIOUS
<1>9. AllReadOnly(paths, allowed) = ByDepth(all)
  BY DEF AllReadOnly
<1> HIDE DEF all, sets
<1> QED
  BY <1>5, <1>6, <1>7, <1>8, <1>9, DepthOrder

LEMMA UnreadableListed ==
  ASSUME host \in Hosts, NEW paths \in SUBSET Seq(Names), IsFiniteSet(paths),
         \A p \in paths : Exists(p) \/ p # Root,
         NEW allowed, allowed \subseteq Seq(Names), \A r \in allowed : Exists(r)
  PROVE  /\ AllUnreadable(paths, allowed) \in Seq(AnyMount)
         /\ \A m : m \in Range(AllUnreadable(paths, allowed)) <=>
                     \E p \in paths : m \in UnreadableMounts(p, allowed)
<1> DEFINE each == [p \in paths |-> UnreadableMounts(p, allowed)]
           sets == {each[p] : p \in paths}
           all == UNION {UnreadableMounts(p, allowed) : p \in paths}
<1>1. DOMAIN each = paths /\ \A p \in paths : each[p] = UnreadableMounts(p, allowed)
  OBVIOUS
<1>2. \A p \in paths : /\ UnreadableMounts(p, allowed) \in SUBSET AnyMount
                       /\ IsFiniteSet(UnreadableMounts(p, allowed))
  BY PathMounts
<1> HIDE DEF each
<1>3. IsFiniteSet(sets)
  BY <1>1, ImageFinite
<1>4. \A T \in sets : IsFiniteSet(T)
  BY <1>1, <1>2
<1>5. IsFiniteSet(UNION sets)
  BY <1>3, <1>4, FS_UNION
<1>6. all = UNION sets
  BY <1>1
<1>7. all \in SUBSET AnyMount
  BY <1>2
<1>8. \A m : m \in all <=> \E p \in paths : m \in UnreadableMounts(p, allowed)
  OBVIOUS
<1>9. AllUnreadable(paths, allowed) = ByDepth(all)
  BY DEF AllUnreadable
<1> HIDE DEF all, sets
<1> QED
  BY <1>5, <1>6, <1>7, <1>8, <1>9, DepthOrder

-----------------------------------------------------------------------------
(* The paths that a policy has mounted                                      *)

\* A component more, or one less
LEMMA Appended ==
  ASSUME NEW r \in Seq(Names), NEW p \in Seq(Names)
  PROVE  /\ \A n \in Names : /\ Append(r, n) \in Seq(Names) /\ IsPrefix(r, Append(r, n))
                             /\ r # Append(r, n) /\ Append(r, n) # Root
                             /\ Len(Append(r, n)) = Len(r) + 1
                             /\ IsPrefix(Append(r, n), p) =>
                                  IsPrefix(r, p) /\ p # r /\ p[Len(r) + 1] = n
         /\ IsPrefix(r, p) /\ p # r => /\ p[Len(r) + 1] \in Names
                                       /\ IsPrefix(Append(r, p[Len(r) + 1]), p)
<1>1. ASSUME NEW n \in Names
      PROVE  /\ Append(r, n) \in Seq(Names) /\ IsPrefix(r, Append(r, n))
             /\ r # Append(r, n) /\ Append(r, n) # Root
             /\ Len(Append(r, n)) = Len(r) + 1
             /\ IsPrefix(Append(r, n), p) =>
                  IsPrefix(r, p) /\ p # r /\ p[Len(r) + 1] = n
  <2> DEFINE a == Append(r, n)
  <2>1. a \in Seq(Names) /\ Len(a) = Len(r) + 1 /\ a[Len(r) + 1] = n /\ Len(r) \in Nat
    OBVIOUS
  <2>2. SubSeq(a, 1, Len(r)) = r
    OBVIOUS
  <2> HIDE DEF a
  <2>3. IsPrefix(r, a)
    <3>1. Len(r) \in 0..Len(a)
      BY <2>1
    <3> QED
      BY <2>1, <2>2, <3>1, PrefixSelf
  <2>4. Len(Root) = 0 /\ Len(r) # Len(r) + 1 /\ Len(r) + 1 # 0
    BY DEF Root
  <2>5. ASSUME IsPrefix(a, p) PROVE IsPrefix(r, p) /\ p # r /\ p[Len(r) + 1] = n
    <3>1. IsPrefix(r, p)
      BY <2>1, <2>3, <2>5, PrefixOrder
    <3>2. Len(r) + 1 \in 1..Len(a)
      BY <2>1
    <3>3. p[Len(r) + 1] = n
      BY <2>1, <2>5, <3>2, PrefixOrder
    <3>4. Len(a) \in 0..Len(p)
      BY <2>1, <2>5, PrefixFacts
    <3>5. Len(p) # Len(r)
      BY <2>1, <3>4
    <3> QED
      BY <3>1, <3>3, <3>5
  <2>6. r # a /\ a # Root
    BY <2>1, <2>4
  <2>7. a \in Seq(Names) /\ IsPrefix(r, a) /\ Len(a) = Len(r) + 1
    BY <2>1, <2>3
  <2> QED
    BY <2>5, <2>6, <2>7 DEF a
<1>2. ASSUME IsPrefix(r, p), p # r
      PROVE  p[Len(r) + 1] \in Names /\ IsPrefix(Append(r, p[Len(r) + 1]), p)
  <2> DEFINE k == Len(r) + 1
             a == Append(r, p[k])
  <2>1. Len(r) \in 0..Len(p) /\ Len(r) # Len(p)
    BY <1>2, PrefixFacts, PrefixSelf
  <2>2. k \in 1..Len(p) /\ k \in Nat /\ k - 1 = Len(r)
    BY <2>1
  <2>3. p[k] \in Names
    BY <2>2
  <2>4. /\ Len(a) = k /\ a[k] = p[k] /\ a \in Seq(Names)
        /\ \A i \in 1..Len(r) : a[i] = r[i]
    BY <2>2, <2>3
  <2>5. \A i \in 1..Len(r) : r[i] = p[i]
    BY <1>2, PrefixOrder
  <2>6. Len(SubSeq(p, 1, k)) = k /\ SubSeq(p, 1, k) \in Seq(Names)
        /\ \A i \in 1..k : SubSeq(p, 1, k)[i] = p[i]
    BY <2>2
  <2>7. \A i \in 1..k : i \in 1..Len(r) \/ i = k
    BY <2>2
  <2> HIDE DEF a, k
  <2>8. \A i \in 1..k : a[i] = SubSeq(p, 1, k)[i]
    BY <2>4, <2>5, <2>6, <2>7
  <2>9. a = SubSeq(p, 1, k)
    BY <2>2, <2>4, <2>6, <2>8
  <2>10. IsPrefix(SubSeq(p, 1, k), p)
    BY <2>2, PrefixSelf
  <2>11. IsPrefix(a, p)
    BY <2>9, <2>10
  <2> QED
    BY <2>3, <2>11 DEF a, k
<1> QED
  BY <1>1, <1>2

\* get_unreadable_roots_with_cwd: the paths of denials that take effect
LEMMA DeniedPaths ==
  ASSUME NEW pol \in [kind : Kinds, entries : Seq(AllEntries)], pol.kind = "restricted"
  PROVE  /\ UnreadableRoots(pol) \in SUBSET Seq(Names) /\ IsFiniteSet(UnreadableRoots(pol))
         /\ \A x : x \in UnreadableRoots(pol) <=>
              /\ x # Root /\ ~CanRead(pol, x)
              /\ \E e \in Resolved(pol) : e.at = x /\ e.access = "none"
<1>1. UnreadableRoots(pol) =
        {e.at : e \in {f \in Resolved(pol) :
                         f.access = "none" /\ ~CanRead(pol, f.at) /\ f.at # Root}}
  BY DEF UnreadableRoots
<1>2. \A e \in Resolved(pol) : e.at \in Seq(Names)
  BY ResolvedTypes DEF ResolvedEntries
<1>3. UnreadableRoots(pol) \in SUBSET {e.at : e \in Resolved(pol)}
  BY <1>1
<1>4. IsFiniteSet(UnreadableRoots(pol))
  BY <1>3, ResolvedFinite, FS_Subset
<1> QED
  BY <1>1, <1>2, <1>4

\* Writable roots that exist
LEMMA MountedPaths ==
  ASSUME NEW pol \in [kind : Kinds, entries : Seq(AllEntries)], ~HasFullWrite(pol)
  PROVE  /\ RootPaths(MountedRoots(pol)) \in SUBSET Seq(Names)
         /\ IsFiniteSet(RootPaths(MountedRoots(pol)))
         /\ \A r \in RootPaths(MountedRoots(pol)) : Exists(r)
         /\ \A w \in MountedRoots(pol) :
              /\ w \in WritableRoots(pol) /\ w = WritableRoot(pol, w.root)
              /\ w.root \in Seq(Names) /\ Exists(w.root) /\ CanWrite(pol, w.root)
              /\ w.root \in RootPaths(MountedRoots(pol))
         /\ \A v, w \in MountedRoots(pol) : v.root = w.root => v = w
         /\ \A w \in WritableRoots(pol) : Exists(w.root) => w \in MountedRoots(pol)
<1>1. \A w \in MountedRoots(pol) :
        /\ w \in WritableRoots(pol) /\ w = WritableRoot(pol, w.root)
        /\ w.root \in Seq(Names) /\ Exists(w.root) /\ CanWrite(pol, w.root)
        /\ w.root \in RootPaths(MountedRoots(pol))
        /\ [at |-> w.root, access |-> "write"] \in Resolved(pol)
  BY WritableRootsAre DEF MountedRoots, RootPaths
<1>2. RootPaths(MountedRoots(pol)) = {w.root : w \in MountedRoots(pol)}
  BY DEF RootPaths
<1>3. RootPaths(MountedRoots(pol)) \in SUBSET {e.at : e \in Resolved(pol)}
  <2> SUFFICES ASSUME NEW w \in MountedRoots(pol)
               PROVE  \E e \in Resolved(pol) : w.root = e.at
    BY <1>2
  <2>1. [at |-> w.root, access |-> "write"] \in Resolved(pol)
    BY <1>1
  <2> QED
    BY <2>1
<1>4. IsFiniteSet(RootPaths(MountedRoots(pol)))
  BY <1>3, ResolvedFinite, FS_Subset
<1>5. \A r \in RootPaths(MountedRoots(pol)) : r \in Seq(Names) /\ Exists(r)
  BY <1>1, <1>2
<1>6. ASSUME NEW v \in MountedRoots(pol), NEW w \in MountedRoots(pol), v.root = w.root
      PROVE  v = w
  <2>1. v = WritableRoot(pol, v.root) /\ w = WritableRoot(pol, w.root)
    BY <1>1
  <2> DEFINE x == v.root
  <2>2. w.root = x
    BY <1>6
  <2> HIDE DEF x
  <2> QED
    BY <2>1, <2>2 DEF x
<1>7. \A w \in WritableRoots(pol) : Exists(w.root) => w \in MountedRoots(pol)
  BY DEF MountedRoots
<1> QED
  BY <1>1, <1>4, <1>5, <1>6, <1>7

\* The defaults of the project root that are missing are metadata of the cwd.
LEMMA MissingMetadata ==
  ASSUME NEW pol \in [kind : Kinds, entries : Seq(AllEntries)],
         NEW x \in MissingAutoMetadata(pol)
  PROVE  ~Exists(x) /\ \E n \in MetaNames : x = Append(Cwd, n)
<1>1. PICK f \in EntriesOf(pol) :
        /\ f.type = "project" /\ f.at \in {<<n>> : n \in MetaNames}
        /\ x = ResolveEntry(f) /\ ~Exists(ResolveEntry(f))
  BY DEF MissingAutoMetadata
<1>2. PICK n \in MetaNames : f.at = <<n>>
  BY <1>1
<1>3. ResolveEntry(f) = Cwd \o <<n>>
  BY <1>1, <1>2 DEF ResolveEntry
<1>4. Cwd \in Seq(Names) /\ n \in Names
  BY PolicyAssumption DEF PolicyAssumption, MetaNames
<1>5. Cwd \o <<n>> = Append(Cwd, n)
  BY <1>4
<1> QED
  BY <1>1, <1>3, <1>5

\* What is read-only in a writable root: what its .git file points to, its metadata,
\* and what entries carve out of it.
LEMMA ReadOnlyPathsAre ==
  ASSUME host \in Hosts, NEW pol \in [kind : Kinds, entries : Seq(AllEntries)],
         ~HasFullWrite(pol), NEW w \in MountedRoots(pol)
  PROVE  /\ ReadOnlyOf(pol, w) \in SUBSET Seq(Names) /\ IsFiniteSet(ReadOnlyOf(pol, w))
         /\ \A x \in ReadOnlyOf(pol, w) :
              /\ Exists(x) \/ x # Root
              /\ \/ x = GitDir /\ Exists(x)
                 \/ /\ IsPrefix(w.root, x) /\ w.root # x
                    /\ \/ \E n \in MetaNames : x = Append(w.root, n)
                       \/ x \in Carveouts(pol, w.root)
              /\ x \in w.readOnly \/ \E n \in w.names : x = Append(w.root, n)
<1> DEFINE x0 == w.root
           defaults == DefaultReadOnly(x0, x0 = Cwd)
           named == {e.at : e \in Resolved(pol)}
           marked == {Append(x0, n) : n \in {m \in w.names : ~LeavesMissingGit(x0, m)}}
<1>1. w \in WritableRoots(pol) /\ x0 \in Seq(Names)
  BY MountedPaths
<1>2. /\ w.readOnly = (Range(defaults) \ named) \cup Carveouts(pol, x0)
      /\ w.names = {n \in MetaNames : ~CanWrite(pol, Append(x0, n))}
  BY <1>1, RootExcludes
<1>3. /\ ReadOnlyOf(pol, w) \subseteq w.readOnly \cup marked
      /\ marked \subseteq {Append(x0, n) : n \in w.names}
  BY DEF ReadOnlyOf
<1>4. /\ \A x : x \in Range(defaults) =>
           \/ x = GitDir /\ Exists(x)
           \/ \E n \in MetaNames : x = Append(x0, n)
      /\ defaults \in Seq(Seq(Names))
  <2>1. {Git, Agents, Codex} = MetaNames /\ (x0 = Cwd) \in BOOLEAN
    BY DEF MetaNames
  <2> QED
    BY <1>1, <2>1, DefaultReadOnlyFacts
<1>5. \A n \in MetaNames : n \in Names
  BY PolicyAssumption DEF PolicyAssumption, MetaNames
<1>6. Carveouts(pol, x0) \subseteq named /\ named \subseteq Seq(Names)
      /\ \A x \in Carveouts(pol, x0) : IsPrefix(x0, x) /\ x0 # x
  BY ResolvedTypes DEF Carveouts, ResolvedEntries, IsStrictPrefix
<1> HIDE DEF x0, defaults, named, marked
<1>7. \A n \in MetaNames : /\ Append(x0, n) \in Seq(Names) /\ IsPrefix(x0, Append(x0, n))
                           /\ x0 # Append(x0, n) /\ Append(x0, n) # Root
  BY <1>1, <1>5, Appended
<1>8. ASSUME NEW x \in ReadOnlyOf(pol, w)
      PROVE  /\ x \in Seq(Names) /\ (Exists(x) \/ x # Root)
             /\ \/ x = GitDir /\ Exists(x)
                \/ /\ IsPrefix(x0, x) /\ x0 # x
                   /\ \/ \E n \in MetaNames : x = Append(x0, n)
                      \/ x \in Carveouts(pol, x0)
             /\ x \in w.readOnly \/ \E n \in w.names : x = Append(x0, n)
  <2>1. \A n \in w.names : n \in MetaNames
    BY <1>2
  <2>2. x \in w.readOnly \/ \E n \in w.names : x = Append(x0, n)
    BY <1>3
  <2>3. \/ x = GitDir /\ Exists(x)
        \/ \E n \in MetaNames : x = Append(x0, n)
        \/ x \in Carveouts(pol, x0)
    BY <1>2, <1>4, <2>1, <2>2
  <2>4. CASE x = GitDir /\ Exists(x)
    <3>1. x \in Seq(Names)
      BY <2>4, PolicyAssumption DEF PolicyAssumption, Exists, HostKind
    <3> QED
      BY <2>2, <2>4, <3>1
  <2>5. CASE \E n \in MetaNames : x = Append(x0, n)
    BY <1>7, <2>2, <2>5
  <2>6. CASE x \in Carveouts(pol, x0)
    <3>1. x \in Seq(Names) /\ IsPrefix(x0, x) /\ x0 # x
      BY <1>6, <2>6
    <3>2. x # Root
      <4>1. Len(x0) \in 0..Len(x) /\ Len(x0) # Len(x) /\ Len(Root) = 0
        BY <1>1, <3>1, PrefixFacts, PrefixSelf DEF Root
      <4> QED
        BY <4>1
    <3> QED
      BY <2>2, <2>6, <3>1, <3>2
  <2> QED
    BY <2>3, <2>4, <2>5, <2>6
<1>9. IsFiniteSet(ReadOnlyOf(pol, w))
  <2>1. IsFiniteSet(Range(defaults))
    BY <1>4, RangeFinite
  <2>2. IsFiniteSet(named)
    BY ResolvedFinite DEF named
  <2>3. IsFiniteSet({Append(x0, Git), Append(x0, Agents), Append(x0, Codex)})
    <3>1. IsFiniteSet({Append(x0, Git)})
      BY FS_Singleton
    <3>2. IsFiniteSet({Append(x0, Git)} \cup {Append(x0, Agents)})
      BY <3>1, FS_AddElement
    <3>3. IsFiniteSet(({Append(x0, Git)} \cup {Append(x0, Agents)}) \cup {Append(x0, Codex)})
      BY <3>2, FS_AddElement
    <3>4. ({Append(x0, Git)} \cup {Append(x0, Agents)}) \cup {Append(x0, Codex)}
            = {Append(x0, Git), Append(x0, Agents), Append(x0, Codex)}
      OBVIOUS
    <3> QED
      BY <3>3, <3>4
  <2> DEFINE metadata == {Append(x0, Git), Append(x0, Agents), Append(x0, Codex)}
             all == (Range(defaults) \cup named) \cup metadata
  <2>4. IsFiniteSet(all)
    <3>1. IsFiniteSet(Range(defaults) \cup named)
      BY <2>1, <2>2, FS_Union
    <3> QED
      BY <2>3, <3>1, FS_Union
  <2>5. ReadOnlyOf(pol, w) \in SUBSET all
    <3> SUFFICES ASSUME NEW x \in ReadOnlyOf(pol, w) PROVE x \in all
      OBVIOUS
    <3>1. x \in w.readOnly \/ \E n \in w.names : x = Append(x0, n)
      BY <1>8
    <3>2. \A n \in w.names : n \in {Git, Agents, Codex}
      BY <1>2 DEF MetaNames
    <3>3. \A n \in w.names : Append(x0, n) \in metadata
      BY <3>2
    <3> QED
      BY <1>2, <1>6, <3>1, <3>3
  <2> HIDE DEF all
  <2> QED
    BY <2>4, <2>5, FS_Subset
<1> QED
  BY <1>8, <1>9 DEF x0

-----------------------------------------------------------------------------
(* The mounts of one writable root                                          *)

\* What is mounted for w: the list that create_filesystem_args makes of it
OwnMounts(pol, w) ==
  RootMounts(pol, w, UnreadableRoots(pol), RootPaths(MountedRoots(pol)))

LEMMA OwnMountsAre ==
  ASSUME host \in Hosts, NEW pol \in [kind : Kinds, entries : Seq(AllEntries)],
         ~HasFullWrite(pol), NEW w \in MountedRoots(pol), NEW p
  PROVE  LET allowed == RootPaths(MountedRoots(pol))
             inside == {x \in UnreadableRoots(pol) : IsPrefix(w.root, x)}
             own == OwnMounts(pol, w)
         IN /\ own \in Seq(AnyMount)
            /\ \A m : m \in Range(own) <=>
                 \/ m = Mount("bind", w.root)
                 \/ \E x \in ReadOnlyOf(pol, w) : m \in ReadOnlyMounts(x, allowed)
                 \/ \E x \in inside : m \in UnreadableMounts(x, allowed)
            /\ (\E x \in inside : \E m \in UnreadableMounts(x, allowed) : IsPrefix(m.at, p)) =>
                 /\ Covers(own, p)
                 /\ \E x \in inside : \E m \in UnreadableMounts(x, allowed) :
                      IsPrefix(m.at, p) /\ Seen(own, p) = m.op
            /\ (\E x \in ReadOnlyOf(pol, w) : \E m \in ReadOnlyMounts(x, allowed) :
                  IsPrefix(m.at, p)) =>
                 \/ \E x \in inside : \E m \in UnreadableMounts(x, allowed) : IsPrefix(m.at, p)
                 \/ \E x \in ReadOnlyOf(pol, w) : \E m \in ReadOnlyMounts(x, allowed) :
                      IsPrefix(m.at, p) /\ Seen(own, p) = m.op
<1> DEFINE allowed == RootPaths(MountedRoots(pol))
           inside == {x \in UnreadableRoots(pol) : IsPrefix(w.root, x)}
           own == OwnMounts(pol, w)
           b == <<Mount("bind", w.root)>>
           r == AllReadOnly(ReadOnlyOf(pol, w), allowed)
           u == AllUnreadable(inside, allowed)
<1>1. own = b \o r \o u
  BY DEF OwnMounts, RootMounts
<1>2. /\ allowed \subseteq Seq(Names) /\ \A x \in allowed : Exists(x)
      /\ w.root \in Seq(Names) /\ pol.kind = "restricted"
  BY MountedPaths DEF HasFullWrite
<1>3. /\ r \in Seq(AnyMount)
      /\ \A m : m \in Range(r) <=> \E x \in ReadOnlyOf(pol, w) : m \in ReadOnlyMounts(x, allowed)
  <2>1. /\ ReadOnlyOf(pol, w) \in SUBSET Seq(Names) /\ IsFiniteSet(ReadOnlyOf(pol, w))
        /\ \A x \in ReadOnlyOf(pol, w) : Exists(x) \/ x # Root
    BY ReadOnlyPathsAre
  <2> HIDE DEF allowed
  <2> QED
    BY <1>2, <2>1, ReadOnlyListed
<1>4. /\ u \in Seq(AnyMount)
      /\ \A m : m \in Range(u) <=> \E x \in inside : m \in UnreadableMounts(x, allowed)
  <2>1. /\ inside \in SUBSET UnreadableRoots(pol) /\ inside \in SUBSET Seq(Names)
        /\ \A x \in inside : Exists(x) \/ x # Root
    BY <1>2, DeniedPaths
  <2> HIDE DEF allowed, inside
  <2>2. IsFiniteSet(inside)
    BY <1>2, <2>1, DeniedPaths, FS_Subset
  <2> QED
    BY <1>2, <2>1, <2>2, UnreadableListed
<1>5. b \in Seq(AnyMount) /\ Range(b) = {Mount("bind", w.root)}
  <2>1. Mount("bind", w.root) \in AnyMount
    BY <1>2 DEF Mount, AnyMount
  <2>2. \A v : Range(<<v>>) = {v}
    <3> TAKE v
    <3>1. DOMAIN <<v>> = {1} /\ <<v>>[1] = v
      OBVIOUS
    <3> QED
      BY <3>1 DEF Range
  <2> HIDE DEF own, r, u
  <2> QED
    BY <2>1, <2>2
<1> HIDE DEF own, b, r, u, inside, allowed
<1>6. b \o r \in Seq(AnyMount) /\ Range(b \o r) = Range(b) \cup Range(r)
  BY <1>3, <1>5, ConcatRange
<1>7. own \in Seq(AnyMount) /\ Range(own) = Range(b \o r) \cup Range(u)
  <2> DEFINE br == b \o r
  <2>1. br \in Seq(AnyMount) /\ u \in Seq(AnyMount) /\ own = br \o u
    BY <1>1, <1>4, <1>6
  <2> HIDE DEF br
  <2>2. own \in Seq(AnyMount) /\ Range(own) = Range(br) \cup Range(u)
    BY <2>1, ConcatRange
  <2> QED
    BY <2>2 DEF br
<1>8. /\ Covers(u, p) => Seen(own, p) = Seen(u, p) /\ Covers(own, p)
      /\ ~Covers(u, p) => Seen(own, p) = Seen(b \o r, p)
  BY <1>1, <1>4, <1>6, SeenConcat
<1>9. Covers(r, p) => Seen(b \o r, p) = Seen(r, p)
  BY <1>3, <1>5, SeenConcat
<1>10. /\ Covers(u, p) <=> \E m \in Range(u) : IsPrefix(m.at, p)
       /\ Covers(u, p) => \E m \in Range(u) : IsPrefix(m.at, p) /\ Seen(u, p) = m.op
       /\ Covers(r, p) <=> \E m \in Range(r) : IsPrefix(m.at, p)
       /\ Covers(r, p) => \E m \in Range(r) : IsPrefix(m.at, p) /\ Seen(r, p) = m.op
  BY <1>3, <1>4, SeenMember
<1>11. \A m : m \in Range(own) <=>
                 \/ m = Mount("bind", w.root)
                 \/ \E x \in ReadOnlyOf(pol, w) : m \in ReadOnlyMounts(x, allowed)
                 \/ \E x \in inside : m \in UnreadableMounts(x, allowed)
  BY <1>3, <1>4, <1>5, <1>6, <1>7
<1>12. ASSUME \E x \in inside : \E m \in UnreadableMounts(x, allowed) : IsPrefix(m.at, p)
       PROVE  /\ Covers(own, p)
              /\ \E x \in inside : \E m \in UnreadableMounts(x, allowed) :
                   IsPrefix(m.at, p) /\ Seen(own, p) = m.op
  <2>1. Covers(u, p)
    BY <1>4, <1>10, <1>12
  <2>2. PICK m \in Range(u) : IsPrefix(m.at, p) /\ Seen(u, p) = m.op
    BY <1>10, <2>1
  <2> QED
    BY <1>4, <1>8, <2>1, <2>2
<1>13. ASSUME NEW x0 \in ReadOnlyOf(pol, w), NEW m0 \in ReadOnlyMounts(x0, allowed),
              IsPrefix(m0.at, p)
       PROVE  \/ \E x \in inside : \E m \in UnreadableMounts(x, allowed) : IsPrefix(m.at, p)
              \/ \E x \in ReadOnlyOf(pol, w) : \E m \in ReadOnlyMounts(x, allowed) :
                   IsPrefix(m.at, p) /\ Seen(own, p) = m.op
  <2>1. Covers(r, p)
    BY <1>3, <1>10, <1>13
  <2>2. PICK m \in Range(r) : IsPrefix(m.at, p) /\ Seen(r, p) = m.op
    BY <1>10, <2>1
  <2>3. CASE Covers(u, p)
    BY <1>4, <1>10, <2>3
  <2>4. CASE ~Covers(u, p)
    <3>1. Seen(own, p) = m.op
      BY <1>8, <1>9, <2>1, <2>2, <2>4
    <3> QED
      BY <1>3, <2>2, <3>1
  <2> QED
    BY <2>3, <2>4
<1> QED
  BY <1>7, <1>11, <1>12, <1>13 DEF own, inside, allowed

\* What the command finds at a path of a writable root: the host, where nothing
\* read-only or denied in the root is above the path.
LEMMA OwnMountsShow ==
  ASSUME host \in Hosts, NEW pol \in [kind : Kinds, entries : Seq(AllEntries)],
         ~HasFullWrite(pol), NEW w \in MountedRoots(pol), NEW p \in Seq(Names)
  PROVE  /\ OwnMounts(pol, w) \in Seq(AnyMount)
         /\ \A m \in Range(OwnMounts(pol, w)) : m.op = "hide" => m.at \in UnreadableRoots(pol)
         /\ IsPrefix(w.root, p) => Covers(OwnMounts(pol, w), p)
         /\ Covers(OwnMounts(pol, w), p) /\ Exists(p) /\ ~UnderGitDir(p) => IsPrefix(w.root, p)
         /\ Seen(OwnMounts(pol, w), p) = "bind" /\ Covers(OwnMounts(pol, w), p) =>
              /\ IsPrefix(w.root, p)
              /\ \A x \in ReadOnlyOf(pol, w) \cup UnreadableRoots(pol) :
                   ~(IsPrefix(w.root, x) /\ IsPrefix(x, p))
         /\ /\ IsPrefix(w.root, p) /\ Exists(p)
            /\ \A x \in ReadOnlyOf(pol, w) : ~IsPrefix(x, p)
            /\ \A x \in UnreadableRoots(pol) : ~(IsPrefix(w.root, x) /\ IsPrefix(x, p))
            => Seen(OwnMounts(pol, w), p) = "bind"
         /\ Exists(p) /\ (\E x \in UnreadableRoots(pol) : IsPrefix(w.root, x) /\ IsPrefix(x, p)) =>
              Covers(OwnMounts(pol, w), p) /\ Seen(OwnMounts(pol, w), p) = "hide"
<1> DEFINE allowed == RootPaths(MountedRoots(pol))
           inside == {x \in UnreadableRoots(pol) : IsPrefix(w.root, x)}
           own == OwnMounts(pol, w)
           bound == Mount("bind", w.root)
<1>1. /\ allowed \subseteq Seq(Names) /\ \A x \in allowed : Exists(x)
      /\ w.root \in Seq(Names) /\ w.root \in allowed /\ pol.kind = "restricted"
  BY MountedPaths DEF HasFullWrite
<1>2. bound.op = "bind" /\ bound.at = w.root
  BY DEF Mount
<1>3. /\ own \in Seq(AnyMount)
      /\ \A m : m \in Range(own) <=>
           \/ m = bound
           \/ \E x \in ReadOnlyOf(pol, w) : m \in ReadOnlyMounts(x, allowed)
           \/ \E x \in inside : m \in UnreadableMounts(x, allowed)
      /\ (\E x \in inside : \E m \in UnreadableMounts(x, allowed) : IsPrefix(m.at, p)) =>
           /\ Covers(own, p)
           /\ \E x \in inside : \E m \in UnreadableMounts(x, allowed) :
                IsPrefix(m.at, p) /\ Seen(own, p) = m.op
      /\ (\E x \in ReadOnlyOf(pol, w) : \E m \in ReadOnlyMounts(x, allowed) :
            IsPrefix(m.at, p)) =>
           \/ \E x \in inside : \E m \in UnreadableMounts(x, allowed) : IsPrefix(m.at, p)
           \/ \E x \in ReadOnlyOf(pol, w) : \E m \in ReadOnlyMounts(x, allowed) :
                IsPrefix(m.at, p) /\ Seen(own, p) = m.op
  BY OwnMountsAre
<1>4. \A x \in inside : /\ x \in Seq(Names) /\ x \in UnreadableRoots(pol) /\ x # Root
                        /\ IsPrefix(w.root, x)
  BY <1>1, DeniedPaths
<1>5. \A x \in ReadOnlyOf(pol, w) :
        /\ x \in Seq(Names) /\ (Exists(x) \/ x # Root)
        /\ (x = GitDir /\ Exists(x)) \/ IsPrefix(w.root, x)
  BY ReadOnlyPathsAre
<1> HIDE DEF own, bound, allowed
<1>6. ASSUME NEW x \in ReadOnlyOf(pol, w), NEW m \in ReadOnlyMounts(x, allowed)
      PROVE  /\ m.op \in {"ro", "mask"} /\ IsPrefix(m.at, x) /\ m.at \in Seq(Names)
             /\ Exists(m.at) => m.at = x
  <2>1. x \in Seq(Names) /\ (Exists(x) \/ x # Root)
    BY <1>5
  <2>2. m \in AnyMount
    BY <1>1, <2>1, PathMounts
  <2> QED
    BY <1>1, <2>1, <2>2, PathMounts DEF AnyMount
<1>7. ASSUME NEW x \in inside, NEW m \in UnreadableMounts(x, allowed)
      PROVE  /\ m.op \in {"hide", "mask"} /\ IsPrefix(m.at, x) /\ m.at \in Seq(Names)
             /\ Exists(m.at) => m.at = x /\ m.op = "hide"
             /\ m.op = "hide" => m.at = x
  <2>1. x \in Seq(Names) /\ x # Root
    BY <1>4
  <2>2. m \in AnyMount
    BY <1>1, <2>1, PathMounts
  <2>3. /\ IsPrefix(m.at, x) /\ (Exists(m.at) => m.at = x /\ m.op = "hide")
        /\ ~Exists(m.at) => m.op = "mask"
    BY <1>1, <2>1, PathMounts
  <2> QED
    BY <2>2, <2>3 DEF AnyMount
<1>8. \A m \in Range(own) : m.op = "hide" => m.at \in UnreadableRoots(pol)
  <2> SUFFICES ASSUME NEW m \in Range(own), m.op = "hide" PROVE m.at \in UnreadableRoots(pol)
    OBVIOUS
  <2>1. ~(\E x \in ReadOnlyOf(pol, w) : m \in ReadOnlyMounts(x, allowed)) /\ m # bound
    BY <1>2, <1>6
  <2>2. PICK x \in inside : m \in UnreadableMounts(x, allowed)
    BY <1>3, <2>1
  <2> QED
    BY <1>4, <1>7, <2>2
<1>9. /\ Covers(own, p) <=> \E m \in Range(own) : IsPrefix(m.at, p)
      /\ Covers(own, p) => \E m \in Range(own) : IsPrefix(m.at, p) /\ Seen(own, p) = m.op
  BY <1>3, SeenMember
<1>10. ASSUME IsPrefix(w.root, p) PROVE Covers(own, p)
  BY <1>2, <1>3, <1>9, <1>10
<1>11. \A m \in Range(own) : IsPrefix(m.at, p) /\ Exists(p) => Exists(m.at)
  <2>1. \A m \in Range(own) : m.at \in Seq(Names)
    BY <1>1, <1>2, <1>3, <1>6, <1>7
  <2> QED
    BY <2>1, AboveExists
<1>12. ASSUME Covers(own, p), Exists(p), ~UnderGitDir(p) PROVE IsPrefix(w.root, p)
  <2>1. PICK m \in Range(own) : IsPrefix(m.at, p)
    BY <1>9, <1>12
  <2>2. Exists(m.at)
    BY <1>11, <1>12, <2>1
  <2>3. CASE m = bound
    BY <1>2, <2>1, <2>3
  <2>4. CASE \E x \in ReadOnlyOf(pol, w) : m \in ReadOnlyMounts(x, allowed)
    <3>1. PICK x \in ReadOnlyOf(pol, w) : m \in ReadOnlyMounts(x, allowed)
      BY <2>4
    <3>2. m.at = x /\ x \in Seq(Names)
      BY <1>5, <1>6, <2>2, <3>1
    <3>3. x # GitDir
      <4>1. GitDir # NoPath /\ IsPrefix(GitDir, p) => UnderGitDir(p)
        BY DEF UnderGitDir
      <4>2. NoPath \notin Seq(Names)
        BY PolicyAssumption DEF PolicyAssumption
      <4> QED
        BY <1>12, <2>1, <3>2, <4>1, <4>2
    <3>4. IsPrefix(w.root, x)
      BY <1>5, <3>3
    <3> QED
      BY <1>1, <2>1, <3>2, <3>4, PrefixOrder
  <2>5. CASE \E x \in inside : m \in UnreadableMounts(x, allowed)
    <3>1. PICK x \in inside : m \in UnreadableMounts(x, allowed)
      BY <2>5
    <3>2. m.at = x /\ x \in Seq(Names) /\ IsPrefix(w.root, x)
      BY <1>4, <1>7, <2>2, <3>1
    <3> QED
      BY <1>1, <2>1, <3>2, PrefixOrder
  <2> QED
    BY <1>3, <2>3, <2>4, <2>5
<1>13. ASSUME Seen(own, p) = "bind", Covers(own, p)
       PROVE  /\ IsPrefix(w.root, p)
              /\ \A x \in ReadOnlyOf(pol, w) \cup UnreadableRoots(pol) :
                   ~(IsPrefix(w.root, x) /\ IsPrefix(x, p))
  <2>1. ~\E x \in inside : \E m \in UnreadableMounts(x, allowed) : IsPrefix(m.at, p)
    <3>1. \A x \in inside : \A m \in UnreadableMounts(x, allowed) : m.op # "bind"
      BY <1>7
    <3> QED
      BY <1>3, <1>13, <3>1
  <2>2. ~\E x \in ReadOnlyOf(pol, w) : \E m \in ReadOnlyMounts(x, allowed) : IsPrefix(m.at, p)
    <3>1. \A x \in ReadOnlyOf(pol, w) : \A m \in ReadOnlyMounts(x, allowed) : m.op # "bind"
      BY <1>6
    <3> QED
      BY <1>3, <1>13, <2>1, <3>1
  <2>3. PICK m \in Range(own) : IsPrefix(m.at, p)
    BY <1>9, <1>13
  <2>4. m = bound
    BY <1>3, <2>1, <2>2, <2>3
  <2>5. IsPrefix(w.root, p)
    BY <1>2, <2>3, <2>4
  <2>6. ASSUME NEW x \in ReadOnlyOf(pol, w), IsPrefix(w.root, x), IsPrefix(x, p) PROVE FALSE
    <3>1. Under(x, allowed) /\ x \in Seq(Names) /\ (Exists(x) \/ x # Root)
      BY <1>1, <1>5, <2>6 DEF Under
    <3>2. PICK n \in ReadOnlyMounts(x, allowed) : TRUE
      BY <1>1, <3>1, PathMounts
    <3>3. IsPrefix(n.at, x) /\ n.at \in Seq(Names)
      BY <1>6, <3>2
    <3>4. IsPrefix(n.at, p)
      BY <2>6, <3>1, <3>3, PrefixOrder
    <3> QED
      BY <2>2, <3>2, <3>4
  <2>7. ASSUME NEW x \in UnreadableRoots(pol), IsPrefix(w.root, x), IsPrefix(x, p) PROVE FALSE
    <3>1. x \in inside
      BY <2>7
    <3>2. Under(x, allowed) /\ x \in Seq(Names) /\ x # Root
      BY <1>1, <1>4, <2>7, <3>1 DEF Under
    <3>3. PICK n \in UnreadableMounts(x, allowed) : TRUE
      BY <1>1, <3>2, PathMounts
    <3>4. IsPrefix(n.at, x) /\ n.at \in Seq(Names)
      BY <1>7, <3>1, <3>3
    <3>5. IsPrefix(n.at, p)
      BY <2>7, <3>2, <3>4, PrefixOrder
    <3> QED
      BY <2>1, <3>1, <3>3, <3>5
  <2> QED
    BY <2>5, <2>6, <2>7
<1>14. ASSUME IsPrefix(w.root, p), Exists(p), \A x \in ReadOnlyOf(pol, w) : ~IsPrefix(x, p),
              \A x \in UnreadableRoots(pol) : ~(IsPrefix(w.root, x) /\ IsPrefix(x, p))
       PROVE  Seen(own, p) = "bind"
  <2>1. PICK m \in Range(own) : IsPrefix(m.at, p) /\ Seen(own, p) = m.op
    BY <1>9, <1>10, <1>14
  <2>2. Exists(m.at)
    BY <1>11, <1>14, <2>1
  <2>3. ASSUME NEW x \in ReadOnlyOf(pol, w), m \in ReadOnlyMounts(x, allowed) PROVE FALSE
    <3>1. m.at = x
      BY <1>6, <2>2, <2>3
    <3> QED
      BY <1>14, <2>1, <3>1
  <2>4. ASSUME NEW x \in inside, m \in UnreadableMounts(x, allowed) PROVE FALSE
    <3>1. m.at = x
      BY <1>7, <2>2, <2>4
    <3> QED
      BY <1>4, <1>14, <2>1, <3>1
  <2> QED
    BY <1>2, <1>3, <2>1, <2>3, <2>4
<1>15. ASSUME Exists(p), NEW x \in UnreadableRoots(pol), IsPrefix(w.root, x), IsPrefix(x, p)
       PROVE  Covers(own, p) /\ Seen(own, p) = "hide"
  <2>1. x \in inside /\ x \in Seq(Names) /\ x # Root
    BY <1>4, <1>15
  <2>2. Exists(x)
    BY <1>15, <2>1, AboveExists
  <2>3. UnreadableMounts(x, allowed) = {Mount("hide", x)}
    BY <1>1, <2>1, <2>2, PathMounts
  <2>4. Mount("hide", x).at = x
    BY DEF Mount
  <2>5. \E y \in inside : \E m \in UnreadableMounts(y, allowed) : IsPrefix(m.at, p)
    BY <1>15, <2>1, <2>3, <2>4
  <2>6. PICK y \in inside : \E m \in UnreadableMounts(y, allowed) :
               IsPrefix(m.at, p) /\ Seen(own, p) = m.op
    BY <1>3, <2>5
  <2>7. PICK m \in UnreadableMounts(y, allowed) : IsPrefix(m.at, p) /\ Seen(own, p) = m.op
    BY <2>6
  <2>8. m \in Range(own)
    BY <1>3, <2>6, <2>7
  <2>9. Exists(m.at)
    BY <1>11, <1>15, <2>7, <2>8
  <2> QED
    BY <1>3, <1>7, <2>5, <2>6, <2>7, <2>9
<1> HIDE DEF inside
<1> QED
  BY <1>3, <1>8, <1>10, <1>12, <1>13, <1>14, <1>15 DEF own

-----------------------------------------------------------------------------
(* All mounts of a policy                                                   *)

\* The deepest root whose mounts cover the path decides: the roots are mounted in
\* the order of their depth.
LEMMA RootsShow ==
  ASSUME host \in Hosts, NEW pol \in [kind : Kinds, entries : Seq(AllEntries)],
         ~HasFullWrite(pol), NEW p \in Seq(Names)
  PROVE  LET all == AllRoots(pol, UnreadableRoots(pol), RootPaths(MountedRoots(pol)))
         IN /\ all \in Seq(AnyMount)
            /\ \A m : m \in Range(all) <=>
                 \E w \in MountedRoots(pol) : m \in Range(OwnMounts(pol, w))
            /\ Covers(all, p) =>
                 \E w \in MountedRoots(pol) :
                   /\ Covers(OwnMounts(pol, w), p)
                   /\ Seen(all, p) = Seen(OwnMounts(pol, w), p)
                   /\ \A v \in MountedRoots(pol) :
                        Covers(OwnMounts(pol, v), p) => Len(v.root) <= Len(w.root)
<1> DEFINE roots == MountedRoots(pol)
           paths == RootPaths(roots)
           binds == {Mount("bind", r) : r \in paths}
           order == RootOrder(roots)
           W(i) == CHOOSE w \in roots : w.root = order[i].at
           lists == [i \in DOMAIN order |-> OwnMounts(pol, W(i))]
           all == AllRoots(pol, UnreadableRoots(pol), paths)
<1>1. all = FlattenSeq(lists)
  BY DEF AllRoots, OwnMounts
<1>2. /\ paths \in SUBSET Seq(Names) /\ IsFiniteSet(paths)
      /\ \A w \in roots : w.root \in Seq(Names) /\ w.root \in paths
      /\ \A v, w \in roots : v.root = w.root => v = w
  BY MountedPaths
<1>3. \A r \in paths : \E w \in roots : r = w.root
  BY DEF RootPaths
<1>4. binds \in SUBSET AnyMount /\ IsFiniteSet(binds)
  <2> DEFINE b == [r \in paths |-> Mount("bind", r)]
  <2>1. binds = {b[r] : r \in paths} /\ DOMAIN b = paths
    OBVIOUS
  <2>2. binds \in SUBSET AnyMount
    BY <1>2 DEF Mount, AnyMount
  <2> HIDE DEF b, binds, paths
  <2> QED
    BY <1>2, <2>1, <2>2, ImageFinite
<1>5. order = ByDepth(binds)
  BY DEF RootOrder
<1>6. \A m \in binds : m.at \in paths
  BY DEF Mount
<1>7. \A r \in paths : Mount("bind", r) \in binds /\ Mount("bind", r).at = r
  BY DEF Mount
<1> HIDE DEF binds, order, paths
<1>8. /\ order \in Seq(AnyMount) /\ Range(order) = binds
      /\ \A i, j \in DOMAIN order : i <= j => Len(order[i].at) <= Len(order[j].at)
  BY <1>4, <1>5, DepthOrder
<1>9. \A i \in DOMAIN order : W(i) \in roots /\ W(i).root = order[i].at
  <2> SUFFICES ASSUME NEW i \in DOMAIN order PROVE \E w \in roots : w.root = order[i].at
    OBVIOUS
  <2>1. order[i] \in binds
    BY <1>8 DEF Range
  <2> QED
    BY <1>3, <1>6, <2>1
<1>10. \A w \in roots : \E i \in DOMAIN order : W(i) = w
  <2> SUFFICES ASSUME NEW w \in roots PROVE \E i \in DOMAIN order : W(i) = w
    OBVIOUS
  <2>1. Mount("bind", w.root) \in Range(order) /\ Mount("bind", w.root).at = w.root
    BY <1>2, <1>7, <1>8
  <2>2. PICK i \in DOMAIN order : order[i].at = w.root
    BY <2>1 DEF Range
  <2>3. W(i) \in roots /\ W(i).root = w.root
    BY <1>9, <2>2
  <2> HIDE DEF W
  <2>4. W(i) = w
    BY <1>2, <2>3
  <2> QED
    BY <2>4
<1>11. \A w \in roots : OwnMounts(pol, w) \in Seq(AnyMount)
  BY OwnMountsShow
<1> HIDE DEF W, roots
<1>12. DOMAIN order = 1..Len(order) /\ Len(order) \in Nat
  BY <1>8
<1>13. lists \in Seq(Seq(AnyMount)) /\ Len(lists) = Len(order)
  <2>1. \A i \in 1..Len(order) : OwnMounts(pol, W(i)) \in Seq(AnyMount)
    BY <1>9, <1>11, <1>12
  <2>2. lists \in [1..Len(order) -> Seq(AnyMount)]
    BY <1>12, <2>1
  <2> HIDE DEF lists
  <2> QED
    BY <1>12, <2>2
<1>14. \A i \in DOMAIN order : lists[i] = OwnMounts(pol, W(i))
  OBVIOUS
<1> HIDE DEF lists, all
<1>15. /\ all \in Seq(AnyMount)
       /\ \A m : m \in Range(all) <=> \E i \in DOMAIN order : m \in Range(lists[i])
       /\ Covers(all, p) =>
            \E k \in DOMAIN order :
              /\ Covers(lists[k], p) /\ Seen(all, p) = Seen(lists[k], p)
              /\ \A j \in DOMAIN order : j > k => ~Covers(lists[j], p)
  BY <1>1, <1>12, <1>13, SeenFlat
<1>16. \A m : m \in Range(all) <=> \E w \in roots : m \in Range(OwnMounts(pol, w))
  BY <1>9, <1>10, <1>14, <1>15
<1>17. ASSUME Covers(all, p)
       PROVE  \E w \in roots :
                /\ Covers(OwnMounts(pol, w), p) /\ Seen(all, p) = Seen(OwnMounts(pol, w), p)
                /\ \A v \in roots : Covers(OwnMounts(pol, v), p) => Len(v.root) <= Len(w.root)
  <2>1. PICK k \in DOMAIN order :
          /\ Covers(lists[k], p) /\ Seen(all, p) = Seen(lists[k], p)
          /\ \A j \in DOMAIN order : j > k => ~Covers(lists[j], p)
    BY <1>15, <1>17
  <2>2. ASSUME NEW v \in roots, Covers(OwnMounts(pol, v), p)
        PROVE  Len(v.root) <= Len(W(k).root)
    <3>1. PICK j \in DOMAIN order : W(j) = v
      BY <1>10
    <3>2. ~(j > k)
      BY <1>14, <2>1, <2>2, <3>1
    <3>3. j <= k
      BY <1>12, <3>2
    <3>4. Len(order[j].at) <= Len(order[k].at)
      BY <1>8, <3>3
    <3> QED
      BY <1>9, <3>1, <3>4
  <2>3. W(k) \in roots /\ lists[k] = OwnMounts(pol, W(k))
    BY <1>9, <1>14
  <2> QED
    BY <2>1, <2>2, <2>3
<1> QED
  BY <1>15, <1>16, <1>17 DEF all, roots, paths

\* The read-only base shows the readable roots that exist.
LEMMA BaseShows ==
  ASSUME host \in Hosts, NEW pol \in [kind : Kinds, entries : Seq(AllEntries)],
         NEW p \in Seq(Names)
  PROVE  /\ Base(pol) \in Seq(AnyMount) /\ \A m \in Range(Base(pol)) : m.op = "ro"
         /\ Covers(Base(pol), p) =>
              HasFullRead(pol) \/ \E r \in ReadableRoots(pol) : IsPrefix(r, p)
         /\ Exists(p) /\ (HasFullRead(pol) \/ \E r \in ReadableRoots(pol) : IsPrefix(r, p)) =>
              Covers(Base(pol), p)
<1> DEFINE readable == ReadableRoots(pol)
           there == {x \in readable : Exists(x)}
           mounts == {Mount("ro", r) : r \in there}
<1>1. readable \in SUBSET {e.at : e \in Resolved(pol)} /\ readable \in SUBSET Seq(Names)
  <2>1. readable \in SUBSET {e.at : e \in Resolved(pol)}
    BY DEF ReadableRoots
  <2>2. \A e \in Resolved(pol) : e.at \in Seq(Names)
    BY ResolvedTypes DEF ResolvedEntries
  <2> QED
    BY <2>1, <2>2
<1>2. IsPrefix(Root, p)
  BY PrefixFacts
<1>3. CASE HasFullRead(pol) \/ Root \in readable
  <2>1. Base(pol) = <<Mount("ro", Root)>>
    BY <1>3 DEF Base
  <2>2. Mount("ro", Root) \in AnyMount
    BY DEF Mount, AnyMount, Root
  <2> DEFINE m == Mount("ro", Root)
  <2>3. m.op = "ro" /\ m.at = Root
    BY DEF Mount
  <2> HIDE DEF m
  <2>4. DOMAIN <<m>> = {1} /\ <<m>>[1] = m /\ Range(<<m>>) = {m}
    <3>1. DOMAIN <<m>> = {1} /\ <<m>>[1] = m
      OBVIOUS
    <3> QED
      BY <3>1 DEF Range
  <2>5. <<m>> \in Seq(AnyMount)
    BY <2>2 DEF m
  <2>6. Covers(<<m>>, p)
    BY <1>2, <2>3, <2>4 DEF Covers
  <2>7. Base(pol) = <<m>>
    BY <2>1 DEF m
  <2>8. HasFullRead(pol) \/ \E r \in readable : IsPrefix(r, p)
    BY <1>2, <1>3
  <2> QED
    BY <2>3, <2>4, <2>5, <2>6, <2>7, <2>8
<1>4. CASE ~(HasFullRead(pol) \/ Root \in readable)
  <2>1. Base(pol) = ByDepth(mounts)
    BY <1>4 DEF Base
  <2>2. mounts \in SUBSET AnyMount
    BY <1>1 DEF Mount, AnyMount
  <2>3. IsFiniteSet(mounts)
    <3>1. there \in SUBSET {e.at : e \in Resolved(pol)}
      BY <1>1
    <3>2. IsFiniteSet(there)
      BY <3>1, ResolvedFinite, FS_Subset
    <3> DEFINE b == [r \in there |-> Mount("ro", r)]
    <3>3. mounts = {b[r] : r \in there} /\ DOMAIN b = there
      OBVIOUS
    <3> HIDE DEF b, there, mounts
    <3> QED
      BY <3>2, <3>3, ImageFinite
  <2>4. Base(pol) \in Seq(AnyMount) /\ Range(Base(pol)) = mounts
    BY <2>1, <2>2, <2>3, DepthOrder
  <2>5. Covers(Base(pol), p) <=> \E m \in mounts : IsPrefix(m.at, p)
    BY <2>4, SeenMember
  <2>6. \A r : Mount("ro", r).at = r /\ Mount("ro", r).op = "ro"
    BY DEF Mount
  <2>7. Covers(Base(pol), p) <=> \E r \in there : IsPrefix(r, p)
    BY <2>5, <2>6
  <2>8. ASSUME Exists(p), NEW r \in readable, IsPrefix(r, p) PROVE r \in there
    BY <1>1, <2>8, AboveExists
  <2> QED
    BY <1>4, <2>4, <2>6, <2>7, <2>8
<1> QED
  BY <1>3, <1>4

\* What is denied outside the writable roots
LEMMA DeniedShow ==
  ASSUME host \in Hosts, NEW pol \in [kind : Kinds, entries : Seq(AllEntries)],
         ~HasFullWrite(pol), NEW paths \in SUBSET UnreadableRoots(pol), NEW p \in Seq(Names)
  PROVE  LET hidden == AllUnreadable(paths, RootPaths(MountedRoots(pol)))
         IN /\ hidden \in Seq(AnyMount)
            /\ \A m \in Range(hidden) :
                 /\ m.op \in {"hide", "mask"}
                 /\ m.op = "hide" => m.at \in paths
                 /\ \E x \in paths : m \in UnreadableMounts(x, RootPaths(MountedRoots(pol)))
            /\ Covers(hidden, p) => Seen(hidden, p) \in {"hide", "mask"}
            /\ Covers(hidden, p) /\ Exists(p) =>
                 Seen(hidden, p) = "hide" /\ \E x \in paths : IsPrefix(x, p)
            /\ Exists(p) /\ (\E x \in paths : IsPrefix(x, p)) => Covers(hidden, p)
<1> DEFINE allowed == RootPaths(MountedRoots(pol))
           hidden == AllUnreadable(paths, allowed)
<1>1. /\ allowed \subseteq Seq(Names) /\ \A x \in allowed : Exists(x)
      /\ pol.kind = "restricted"
  BY MountedPaths DEF HasFullWrite
<1>2. /\ paths \in SUBSET Seq(Names) /\ IsFiniteSet(paths)
      /\ \A x \in paths : x \in Seq(Names) /\ x # Root
  BY <1>1, DeniedPaths, FS_Subset
<1> HIDE DEF allowed
<1>3. /\ hidden \in Seq(AnyMount)
      /\ \A m : m \in Range(hidden) <=> \E x \in paths : m \in UnreadableMounts(x, allowed)
  BY <1>1, <1>2, UnreadableListed
<1> HIDE DEF hidden
<1>4. ASSUME NEW x \in paths, NEW m \in UnreadableMounts(x, allowed)
      PROVE  /\ m.op \in {"hide", "mask"} /\ IsPrefix(m.at, x) /\ m.at \in Seq(Names)
             /\ Exists(m.at) => m.at = x /\ m.op = "hide"
             /\ m.op = "hide" => m.at = x
  <2>1. m \in AnyMount
    BY <1>1, <1>2, PathMounts
  <2>2. /\ IsPrefix(m.at, x) /\ (Exists(m.at) => m.at = x /\ m.op = "hide")
        /\ ~Exists(m.at) => m.op = "mask"
    BY <1>1, <1>2, PathMounts
  <2> QED
    BY <2>1, <2>2 DEF AnyMount
<1>5. /\ Covers(hidden, p) <=> \E m \in Range(hidden) : IsPrefix(m.at, p)
      /\ Covers(hidden, p) => \E m \in Range(hidden) : IsPrefix(m.at, p) /\ Seen(hidden, p) = m.op
  BY <1>3, SeenMember
<1>6. \A m \in Range(hidden) :
        /\ m.op \in {"hide", "mask"} /\ (m.op = "hide" => m.at \in paths)
        /\ m.at \in Seq(Names)
        /\ \E x \in paths : m \in UnreadableMounts(x, allowed)
        /\ Exists(m.at) => m.op = "hide"
  BY <1>3, <1>4
<1>7. ASSUME Covers(hidden, p), Exists(p)
      PROVE  Seen(hidden, p) = "hide" /\ \E x \in paths : IsPrefix(x, p)
  <2>1. PICK m \in Range(hidden) : IsPrefix(m.at, p) /\ Seen(hidden, p) = m.op
    BY <1>5, <1>7
  <2>2. Exists(m.at)
    BY <1>6, <1>7, <2>1, AboveExists
  <2> QED
    BY <1>6, <2>1, <2>2
<1>8. ASSUME Exists(p), NEW x \in paths, IsPrefix(x, p) PROVE Covers(hidden, p)
  <2>1. Exists(x)
    BY <1>2, <1>8, AboveExists
  <2>2. UnreadableMounts(x, allowed) = {Mount("hide", x)} /\ Mount("hide", x).at = x
    BY <1>1, <1>2, <2>1, PathMounts DEF Mount
  <2> QED
    BY <1>3, <1>5, <1>8, <2>2
<1> QED
  BY <1>3, <1>5, <1>6, <1>7, <1>8 DEF allowed, hidden

\* The four parts of the plan, the later over the earlier
LEMMA MountsShow ==
  ASSUME host \in Hosts, NEW pol \in [kind : Kinds, entries : Seq(AllEntries)],
         ~HasFullWrite(pol), NEW p \in Seq(Names)
  PROVE  LET allowed == RootPaths(MountedRoots(pol))
             denied == UnreadableRoots(pol)
             above == AllUnreadable(DeniedAbove(denied, allowed), allowed)
             beside == AllUnreadable(DeniedBeside(denied, allowed), allowed)
             roots == AllRoots(pol, denied, allowed)
             all == Mounts(pol)
         IN /\ all \in Seq(AnyMount)
            /\ Range(all) = ((Range(Base(pol)) \cup Range(above)) \cup Range(roots))
                               \cup Range(beside)
            /\ Covers(all, p) <=> \/ Covers(Base(pol), p) \/ Covers(above, p)
                                  \/ Covers(roots, p) \/ Covers(beside, p)
            /\ Covers(beside, p) => Seen(all, p) = Seen(beside, p)
            /\ ~Covers(beside, p) /\ Covers(roots, p) => Seen(all, p) = Seen(roots, p)
            /\ ~Covers(beside, p) /\ ~Covers(roots, p) /\ Covers(above, p) =>
                 Seen(all, p) = Seen(above, p)
            /\ ~Covers(beside, p) /\ ~Covers(roots, p) /\ ~Covers(above, p) =>
                 Seen(all, p) = Seen(Base(pol), p)
<1> DEFINE allowed == RootPaths(MountedRoots(pol))
           denied == UnreadableRoots(pol)
           b == Base(pol)
           above == AllUnreadable(DeniedAbove(denied, allowed), allowed)
           beside == AllUnreadable(DeniedBeside(denied, allowed), allowed)
           roots == AllRoots(pol, denied, allowed)
           all == Mounts(pol)
           ba == b \o above
           bar == ba \o roots
<1>1. all = bar \o beside
  BY DEF Mounts, FilesystemMounts
<1>2. /\ DeniedAbove(denied, allowed) \in SUBSET denied
      /\ DeniedBeside(denied, allowed) \in SUBSET denied
  BY DEF DeniedAbove, DeniedBeside
<1>3. above \in Seq(AnyMount) /\ beside \in Seq(AnyMount)
  BY <1>2, DeniedShow
<1>4. b \in Seq(AnyMount) /\ roots \in Seq(AnyMount)
  BY BaseShows, RootsShow
<1> HIDE DEF b, above, beside, roots, all
<1>5. /\ ba \in Seq(AnyMount) /\ Range(ba) = Range(b) \cup Range(above)
      /\ Covers(ba, p) <=> Covers(b, p) \/ Covers(above, p)
      /\ Covers(above, p) => Seen(ba, p) = Seen(above, p)
      /\ ~Covers(above, p) => Seen(ba, p) = Seen(b, p)
  BY <1>3, <1>4, SeenConcat, ConcatRange
<1> HIDE DEF ba
<1>6. /\ bar \in Seq(AnyMount) /\ Range(bar) = Range(ba) \cup Range(roots)
      /\ Covers(bar, p) <=> Covers(ba, p) \/ Covers(roots, p)
      /\ Covers(roots, p) => Seen(bar, p) = Seen(roots, p)
      /\ ~Covers(roots, p) => Seen(bar, p) = Seen(ba, p)
  BY <1>4, <1>5, SeenConcat, ConcatRange
<1> HIDE DEF bar
<1>7. /\ all \in Seq(AnyMount) /\ Range(all) = Range(bar) \cup Range(beside)
      /\ Covers(all, p) <=> Covers(bar, p) \/ Covers(beside, p)
      /\ Covers(beside, p) => Seen(all, p) = Seen(beside, p)
      /\ ~Covers(beside, p) => Seen(all, p) = Seen(bar, p)
  BY <1>1, <1>3, <1>6, SeenConcat, ConcatRange
<1> QED
  BY <1>5, <1>6, <1>7 DEF all, b, above, beside, roots, allowed, denied

\* The single mount where the policy allows everything
LEMMA FullMounts ==
  ASSUME NEW pol, HasFullWrite(pol), NEW p \in Seq(Names)
  PROVE  Seen(Mounts(pol), p) = "bind"
<1> DEFINE m == Mount("bind", Root)
<1>1. m.op = "bind" /\ IsPrefix(m.at, p) /\ m \in AnyMount
  BY PrefixFacts DEF Mount, AnyMount, Root
<1>2. Mounts(pol) = <<m>>
  BY DEF Mounts
<1> HIDE DEF m
<1>3. DOMAIN <<m>> = {1} /\ <<m>>[1] = m /\ <<m>> \in Seq(AnyMount)
  BY <1>1
<1>4. \A j \in DOMAIN <<m>> : ~(j > 1)
  BY <1>3
<1>5. Seen(<<m>>, p) = <<m>>[1].op
  BY <1>1, <1>3, <1>4, SeenLast
<1> QED
  BY <1>1, <1>2, <1>3, <1>5

-----------------------------------------------------------------------------
(* The plan grants no more                                                  *)

\* A path that the mounts leave writable is below a writable root, the deepest one,
\* in which nothing read-only or denied is above the path.
LEMMA BoundByRoot ==
  ASSUME host \in Hosts, NEW pol \in [kind : Kinds, entries : Seq(AllEntries)],
         ~HasFullWrite(pol), NEW p \in Seq(Names), Writes(Mounts(pol), p)
  PROVE  \E w \in MountedRoots(pol) :
           /\ IsPrefix(w.root, p)
           /\ \A v \in MountedRoots(pol) : IsPrefix(v.root, p) => Len(v.root) <= Len(w.root)
           /\ \A x \in ReadOnlyOf(pol, w) \cup UnreadableRoots(pol) :
                ~(IsPrefix(w.root, x) /\ IsPrefix(x, p))
<1> DEFINE allowed == RootPaths(MountedRoots(pol))
           denied == UnreadableRoots(pol)
           above == AllUnreadable(DeniedAbove(denied, allowed), allowed)
           beside == AllUnreadable(DeniedBeside(denied, allowed), allowed)
           roots == AllRoots(pol, denied, allowed)
           all == Mounts(pol)
<1>1. Seen(all, p) = "bind"
  BY DEF Writes
<1>2. /\ all \in Seq(AnyMount)
      /\ Covers(all, p) <=> \/ Covers(Base(pol), p) \/ Covers(above, p)
                            \/ Covers(roots, p) \/ Covers(beside, p)
      /\ Covers(beside, p) => Seen(all, p) = Seen(beside, p)
      /\ ~Covers(beside, p) /\ Covers(roots, p) => Seen(all, p) = Seen(roots, p)
      /\ ~Covers(beside, p) /\ ~Covers(roots, p) /\ Covers(above, p) =>
           Seen(all, p) = Seen(above, p)
      /\ ~Covers(beside, p) /\ ~Covers(roots, p) /\ ~Covers(above, p) =>
           Seen(all, p) = Seen(Base(pol), p)
  BY MountsShow
<1>3. Covers(all, p)
  BY <1>1, <1>2, SeenLast
<1>4. /\ DeniedAbove(denied, allowed) \in SUBSET denied
      /\ DeniedBeside(denied, allowed) \in SUBSET denied
  BY DEF DeniedAbove, DeniedBeside
<1>5. /\ Covers(above, p) => Seen(above, p) \in {"hide", "mask"}
      /\ Covers(beside, p) => Seen(beside, p) \in {"hide", "mask"}
  BY <1>4, DeniedShow
<1>6. Covers(Base(pol), p) => Seen(Base(pol), p) = "ro"
  BY BaseShows, SeenMember
<1> HIDE DEF all, above, beside, roots
<1>7. Covers(roots, p) /\ Seen(roots, p) = "bind"
  BY <1>1, <1>2, <1>3, <1>5, <1>6
<1>8. PICK w \in MountedRoots(pol) :
        /\ Covers(OwnMounts(pol, w), p) /\ Seen(roots, p) = Seen(OwnMounts(pol, w), p)
        /\ \A v \in MountedRoots(pol) :
             Covers(OwnMounts(pol, v), p) => Len(v.root) <= Len(w.root)
  BY <1>7, RootsShow DEF roots
<1>9. \A v \in MountedRoots(pol) : IsPrefix(v.root, p) => Covers(OwnMounts(pol, v), p)
  BY OwnMountsShow
<1>10. /\ IsPrefix(w.root, p)
       /\ \A x \in ReadOnlyOf(pol, w) \cup UnreadableRoots(pol) :
            ~(IsPrefix(w.root, x) /\ IsPrefix(x, p))
  BY <1>7, <1>8, OwnMountsShow
<1> QED
  BY <1>8, <1>9, <1>10

\* What a writable root leaves writable although the policy refuses it is a missing
\* path that is watched, below a root that is skipped, or missing metadata of a
\* project that is not itself a writable root.
LEMMA WritesNoMore ==
  ASSUME host \in Hosts, NEW pol \in [kind : Kinds, entries : Seq(AllEntries)],
         ~HasFullWrite(pol), NEW p \in Seq(Names), Writes(Mounts(pol), p),
         \A w \in WritableRoots(pol) : IsPrefix(w.root, p) => Exists(w.root),
         \A x \in Watched(pol) : ~IsPrefix(x, p),
         \A x \in MissingAutoMetadata(pol) : IsPrefix(x, p) =>
           Cwd \in RootPaths(WritableRoots(pol))
  PROVE  CanWrite(pol, p)
<1> SUFFICES ASSUME ~CanWrite(pol, p) PROVE FALSE
  OBVIOUS
<1>1. pol.kind = "restricted"
  BY DEF HasFullWrite
<1>2. PICK w \in MountedRoots(pol) :
           /\ IsPrefix(w.root, p)
           /\ \A v \in MountedRoots(pol) : IsPrefix(v.root, p) => Len(v.root) <= Len(w.root)
           /\ \A x \in ReadOnlyOf(pol, w) \cup UnreadableRoots(pol) :
                ~(IsPrefix(w.root, x) /\ IsPrefix(x, p))
  BY BoundByRoot
<1>3. w \in WritableRoots(pol) /\ w.root \in Seq(Names) /\ Len(w.root) \in Nat
  BY MountedPaths
<1>4. \A v \in WritableRoots(pol) : v.root \in Seq(Names) /\ Len(v.root) \in Nat
  <2>1. \A v \in WritableRoots(pol) : v.root \in Seq(Names)
    BY WritableRootsAre
  <2> QED
    BY <2>1
<1>5. \A v \in WritableRoots(pol) : IsPrefix(v.root, p) => Len(v.root) <= Len(w.root)
  BY <1>2, MountedPaths
<1>6. /\ w.readOnly = (Range(DefaultReadOnly(w.root, w.root = Cwd))
                          \ {e.at : e \in Resolved(pol)}) \cup Carveouts(pol, w.root)
      /\ w.names = {n \in MetaNames : ~CanWrite(pol, Append(w.root, n))}
  BY <1>3, RootExcludes
<1>7. \A n \in MetaNames : n \in Names
  BY PolicyAssumption DEF PolicyAssumption, MetaNames
<1>8. \A x \in ReadOnlyOf(pol, w) : IsPrefix(w.root, x) => ~IsPrefix(x, p)
  BY <1>2
<1>9. p # w.root => p[Len(w.root) + 1] \notin w.names
  <2> SUFFICES ASSUME p # w.root, NEW n \in w.names, n = p[Len(w.root) + 1] PROVE FALSE
    OBVIOUS
  <2> DEFINE q == Append(w.root, n)
  <2>1. n \in MetaNames /\ n \in Names
    BY <1>6, <1>7
  <2>2. IsPrefix(w.root, q) /\ IsPrefix(q, p)
    BY <1>2, <1>3, <2>1, Appended
  <2>3. q \notin ReadOnlyOf(pol, w)
    BY <1>8, <2>2
  <2>4. LeavesMissingGit(w.root, n)
    <3> SUFFICES ASSUME ~LeavesMissingGit(w.root, n) PROVE q \in ReadOnlyOf(pol, w)
      BY <2>3
    <3> QED
      BY DEF ReadOnlyOf
  <2>5. ~Exists(q)
    <3>1. n = Git /\ ~Exists(Append(w.root, Git))
      BY <2>4 DEF LeavesMissingGit
    <3> QED
      BY <3>1
  <2>6. q \in ProtectedCreate(w, ReadOnlyOf(pol, w))
    BY <2>3, <2>5 DEF ProtectedCreate
  <2>7. q \in Watched(pol)
    BY <2>6 DEF Watched
  <2> QED
    BY <2>2, <2>7
<1>10. \A r \in Carveouts(pol, w.root) : ~IsPrefix(r, p)
  <2> SUFFICES ASSUME NEW r \in Carveouts(pol, w.root), IsPrefix(r, p) PROVE FALSE
    OBVIOUS
  <2>1. IsPrefix(w.root, r) /\ w.root # r /\ ~CanWrite(pol, r) /\ r \in Seq(Names)
    BY ResolvedTypes DEF Carveouts, IsStrictPrefix, ResolvedEntries
  <2>2. r \notin UnreadableRoots(pol)
    BY <1>2, <2>1
  <2>3. r \notin ReadOnlyOf(pol, w)
    BY <1>8, <2>1
  <2>4. r \in w.readOnly
    BY <1>6
  <2>5. r \in MissingAutoMetadata(pol)
    BY <2>2, <2>3, <2>4 DEF ReadOnlyOf
  <2>6. PICK n \in MetaNames : r = Append(Cwd, n)
    BY <2>5, MissingMetadata
  <2>7. Cwd \in Seq(Names) /\ Len(Cwd) \in Nat /\ n \in Names
    BY <1>7, PolicyAssumption DEF PolicyAssumption
  <2>8. PICK v \in WritableRoots(pol) : v.root = Cwd
    BY <2>5 DEF RootPaths
  <2>9. IsPrefix(Cwd, r) /\ Len(r) = Len(Cwd) + 1
    BY <2>6, <2>7, Appended
  <2>10. IsPrefix(Cwd, p)
    BY <2>1, <2>7, <2>9, PrefixOrder
  <2>11. Len(Cwd) <= Len(w.root)
    BY <1>5, <2>8, <2>10
  <2>12. Len(w.root) \in 0..Len(r) /\ Len(w.root) # Len(r)
    BY <1>3, <2>1, PrefixFacts, PrefixSelf
  <2>13. Len(w.root) = Len(Cwd)
    BY <1>3, <2>7, <2>9, <2>11, <2>12
  <2>14. IsPrefix(w.root, Cwd)
    <3>1. Len(w.root) <= Len(Cwd)
      BY <2>7, <2>13
    <3> QED
      BY <1>3, <2>1, <2>7, <2>9, <3>1, PrefixOrder
  <2>15. w.root = Cwd
    BY <1>3, <2>7, <2>13, <2>14, PrefixSelf
  <2>16. r = Append(w.root, n)
    BY <2>6, <2>15
  <2>17. n \in w.names
    BY <1>6, <2>1, <2>16
  <2>18. p # w.root /\ p[Len(w.root) + 1] = n
    BY <1>3, <2>7, <2>16, Appended
  <2> QED
    BY <1>9, <2>17, <2>18
<1>11. PICK v \in WritableRoots(pol) : IsPrefix(v.root, p) /\ Len(w.root) < Len(v.root)
  BY <1>1, <1>2, <1>3, <1>9, <1>10, RootRefuses
<1> QED
  BY <1>3, <1>4, <1>5, <1>11

\* A path that exists and cannot be read is hidden: the entry that decides it is
\* below all roots over the path, so that its hide comes after them.
LEMMA ReadsNoMore ==
  ASSUME host \in Hosts, NEW pol \in [kind : Kinds, entries : Seq(AllEntries)],
         ~HasFullWrite(pol), NEW p \in Seq(Names), Exists(p), ~UnderGitDir(p),
         Reads(Mounts(pol), p)
  PROVE  CanRead(pol, p)
<1> SUFFICES ASSUME ~CanRead(pol, p) PROVE FALSE
  OBVIOUS
<1> DEFINE allowed == RootPaths(MountedRoots(pol))
           denied == UnreadableRoots(pol)
           above == AllUnreadable(DeniedAbove(denied, allowed), allowed)
           beside == AllUnreadable(DeniedBeside(denied, allowed), allowed)
           roots == AllRoots(pol, denied, allowed)
           all == Mounts(pol)
<1>1. Seen(all, p) \in {"bind", "ro", "mask"} /\ pol.kind = "restricted" /\ ~HasFullRead(pol)
  BY FullReadMeansAll DEF Reads, HasFullWrite
<1>2. /\ all \in Seq(AnyMount)
      /\ Covers(all, p) <=> \/ Covers(Base(pol), p) \/ Covers(above, p)
                            \/ Covers(roots, p) \/ Covers(beside, p)
      /\ Covers(beside, p) => Seen(all, p) = Seen(beside, p)
      /\ ~Covers(beside, p) /\ Covers(roots, p) => Seen(all, p) = Seen(roots, p)
      /\ ~Covers(beside, p) /\ ~Covers(roots, p) /\ Covers(above, p) =>
           Seen(all, p) = Seen(above, p)
      /\ ~Covers(beside, p) /\ ~Covers(roots, p) /\ ~Covers(above, p) =>
           Seen(all, p) = Seen(Base(pol), p)
  BY MountsShow
<1>3. /\ DeniedAbove(denied, allowed) \in SUBSET denied
      /\ DeniedBeside(denied, allowed) \in SUBSET denied
  BY DEF DeniedAbove, DeniedBeside
<1>4. /\ Covers(above, p) => Seen(above, p) = "hide"
      /\ Covers(beside, p) => Seen(beside, p) = "hide"
      /\ (\E x \in DeniedAbove(denied, allowed) : IsPrefix(x, p)) => Covers(above, p)
      /\ (\E x \in DeniedBeside(denied, allowed) : IsPrefix(x, p)) => Covers(beside, p)
  BY <1>3, DeniedShow
<1>5. Covers(Base(pol), p) => \E r \in ReadableRoots(pol) : IsPrefix(r, p)
  BY <1>1, BaseShows
<1>6. Covers(roots, p) =>
        \E w \in MountedRoots(pol) :
          /\ Covers(OwnMounts(pol, w), p) /\ Seen(roots, p) = Seen(OwnMounts(pol, w), p)
          /\ \A v \in MountedRoots(pol) :
               Covers(OwnMounts(pol, v), p) => Len(v.root) <= Len(w.root)
  BY RootsShow
<1>7. Covers(all, p)
  BY <1>1, <1>2, SeenLast
<1> HIDE DEF all, above, beside, roots
<1>8. ~Covers(beside, p)
  BY <1>1, <1>2, <1>4
<1>9. Covers(roots, p) \/ (Covers(Base(pol), p) /\ ~Covers(above, p))
  BY <1>1, <1>2, <1>4, <1>7, <1>8
<1>10. \A w \in MountedRoots(pol) : Covers(OwnMounts(pol, w), p) => IsPrefix(w.root, p)
  BY OwnMountsShow
\* Some root is over the path, so some entry is.
<1>11. PICK c : c \in Covering(pol, p) /\ (Covers(roots, p) \/ c.access # "none")
  <2>1. CASE Covers(roots, p)
    <3>1. PICK w \in MountedRoots(pol) : IsPrefix(w.root, p)
      BY <1>6, <1>10, <2>1
    <3>2. [at |-> w.root, access |-> "write"] \in Resolved(pol)
      BY MountedPaths, WritableRootsAre
    <3> QED
      BY <2>1, <3>1, <3>2 DEF Covering
  <2>2. CASE Covers(Base(pol), p)
    <3>1. PICK r \in ReadableRoots(pol) : IsPrefix(r, p)
      BY <1>5, <2>2
    <3>2. PICK f \in Resolved(pol) : f.at = r /\ f.access # "none"
      BY <1>1, <3>1 DEF ReadableRoots
    <3> QED
      BY <3>1, <3>2 DEF Covering
  <2> QED
    BY <1>9, <2>1, <2>2
<1>12. PICK e \in Covering(pol, p) :
         /\ e \in Resolved(pol) /\ e.at \in Seq(Names) /\ e.access \in Accesses
         /\ IsPrefix(e.at, p) /\ Len(e.at) \in 0..Len(p)
         /\ ResolveAccess(pol, p) = e.access /\ ResolveAccess(pol, e.at) = e.access
         /\ \A f \in Covering(pol, p) : /\ ~Outranks(f, e) /\ f.at \in Seq(Names)
                                        /\ Len(f.at) \in 0..Len(e.at)
  BY <1>1, <1>11, DecidingEntry
<1> DEFINE x == e.at
<1>13. e.access = "none" /\ ~CanRead(pol, x) /\ x \in Seq(Names) /\ IsPrefix(x, p)
  BY <1>12 DEF CanRead
\* Whatever can be read and is the path of an entry is above the denial.
<1>14. ASSUME NEW f \in Resolved(pol), IsPrefix(f.at, p), CanRead(pol, f.at)
       PROVE  IsPrefix(f.at, x) /\ f.at # x /\ x # Root
  <2>1. f \in Covering(pol, p)
    BY <1>14 DEF Covering
  <2>2. f.at \in Seq(Names) /\ Len(f.at) \in 0..Len(x)
    BY <1>12, <2>1
  <2>3. IsPrefix(f.at, x)
    BY <1>13, <1>14, <2>2, PrefixOrder
  <2>4. f.at # x
    BY <1>13, <1>14
  <2>5. Len(f.at) # Len(x)
    BY <1>13, <2>2, <2>3, <2>4, PrefixSelf
  <2>6. Len(Root) = 0
    BY DEF Root
  <2> QED
    BY <2>2, <2>3, <2>4, <2>5, <2>6
<1>15. \A w \in MountedRoots(pol) : IsPrefix(w.root, p) => IsPrefix(w.root, x) /\ x # Root
  <2> SUFFICES ASSUME NEW w \in MountedRoots(pol), IsPrefix(w.root, p)
               PROVE  IsPrefix(w.root, x) /\ x # Root
    OBVIOUS
  <2> DEFINE g == [at |-> w.root, access |-> "write"]
  <2>1. g \in Resolved(pol) /\ CanWrite(pol, w.root) /\ g.at = w.root
    BY MountedPaths, WritableRootsAre
  <2>2. CanRead(pol, w.root)
    BY <2>1 DEF CanWrite, CanRead
  <2> HIDE DEF g, x
  <2> QED
    BY <1>14, <2>1, <2>2
<1>16. x # Root
  <2>1. CASE Covers(roots, p)
    BY <1>6, <1>10, <1>15, <2>1
  <2>2. CASE Covers(Base(pol), p)
    <3>1. PICK r \in ReadableRoots(pol) : IsPrefix(r, p)
      BY <1>5, <2>2
    <3>2. PICK f \in Resolved(pol) : f.at = r /\ CanRead(pol, f.at)
      BY <1>1, <3>1 DEF ReadableRoots
    <3> HIDE DEF x
    <3> QED
      BY <1>14, <3>1, <3>2
  <2> QED
    BY <1>9, <2>1, <2>2
<1>17. x \in denied
  BY <1>1, <1>12, <1>13, <1>16, DeniedPaths
<1> HIDE DEF x
<1>18. CASE Covers(roots, p)
  <2>1. PICK w \in MountedRoots(pol) :
          Covers(OwnMounts(pol, w), p) /\ Seen(roots, p) = Seen(OwnMounts(pol, w), p)
    BY <1>6, <1>18
  <2>2. IsPrefix(w.root, x)
    BY <1>10, <1>15, <2>1
  <2>3. Seen(OwnMounts(pol, w), p) = "hide"
    BY <1>13, <1>17, <2>2, OwnMountsShow
  <2> QED
    BY <1>1, <1>2, <1>8, <1>18, <2>1, <2>3
<1>19. CASE ~Covers(roots, p)
  <2>1. ~Under(x, allowed)
    <3> SUFFICES ASSUME NEW r \in allowed, IsPrefix(r, x) PROVE FALSE
      BY DEF Under
    <3>1. PICK w \in MountedRoots(pol) : w.root = r
      BY DEF RootPaths
    <3>2. r \in Seq(Names)
      BY MountedPaths
    <3>3. IsPrefix(r, p)
      BY <1>13, <3>2, PrefixOrder
    <3>4. Covers(OwnMounts(pol, w), p)
      BY <3>1, <3>3, OwnMountsShow
    <3>5. PICK m \in Range(OwnMounts(pol, w)) : IsPrefix(m.at, p)
      BY <3>4, OwnMountsShow, SeenMember
    <3>6. roots \in Seq(AnyMount) /\ m \in Range(roots)
      BY <3>5, RootsShow DEF roots
    <3> QED
      BY <1>19, <3>5, <3>6, SeenMember
  <2>2. x \in DeniedAbove(denied, allowed) \/ x \in DeniedBeside(denied, allowed)
    BY <1>17, <2>1 DEF DeniedBeside
  <2>3. Covers(above, p) \/ Covers(beside, p)
    BY <1>4, <1>13, <2>2
  <2> QED
    BY <1>8, <1>9, <1>19, <2>3
<1> QED
  BY <1>18, <1>19

\* What the runs check of reachable policies, for every instance: bubblewrap's
\* mounts let the command write nothing that the policy refuses and read nothing
\* that it hides, but for the exceptions that the property names (the mount order
\* of create_filesystem_args).
THEOREM PlanNeverGrantsMore == Spec => []PlanGrantsNoMore
<1>1. TypeOK => PlanGrantsNoMore
  <2> SUFFICES ASSUME TypeOK PROVE PlanGrantsNoMore
    OBVIOUS
  <2>1. policy \in [kind : Kinds, entries : Seq(AllEntries)] /\ host \in Hosts
    BY DEF TypeOK
  <2> DEFINE mounts == Mounts(policy)
             roots == RootPaths(WritableRoots(policy))
             skipped == {r \in roots : ~Exists(r)}
             unmasked == IF Cwd \in roots THEN {} ELSE MissingAutoMetadata(policy)
             open == Watched(policy) \cup skipped \cup unmasked
  <2>2. ASSUME NEW p \in Tree, Writes(mounts, p), ~Under(p, open),
               ~(HasFullWrite(policy) /\ UnderMissingTmp(p))
        PROVE  CanWrite(policy, p)
    <3>1. p \in Seq(Names)
      BY PolicyAssumption DEF PolicyAssumption
    <3>2. CASE HasFullWrite(policy)
      BY <2>1, <2>2, <3>1, <3>2, FullWriteMeansAll
    <3>3. CASE ~HasFullWrite(policy)
      <4>1. \A x \in Watched(policy) \cup skipped \cup unmasked : ~IsPrefix(x, p)
        BY <2>2 DEF Under
      <4>2. \A w \in WritableRoots(policy) : IsPrefix(w.root, p) => Exists(w.root)
        <5> SUFFICES ASSUME NEW w \in WritableRoots(policy), ~Exists(w.root)
                     PROVE  ~IsPrefix(w.root, p)
          OBVIOUS
        <5>1. w.root \in skipped
          BY DEF RootPaths
        <5> QED
          BY <4>1, <5>1
      <4>3. \A x \in MissingAutoMetadata(policy) : IsPrefix(x, p) => Cwd \in roots
        BY <4>1
      <4>4. \A x \in Watched(policy) : ~IsPrefix(x, p)
        BY <4>1
      <4> QED
        BY <2>1, <2>2, <3>1, <3>3, <4>2, <4>3, <4>4, WritesNoMore
    <3> QED
      BY <3>2, <3>3
  <2>3. ASSUME NEW p \in Tree, Reads(mounts, p), Exists(p), ~UnderGitDir(p)
        PROVE  CanRead(policy, p)
    <3>1. p \in Seq(Names)
      BY PolicyAssumption DEF PolicyAssumption
    <3> QED
      BY <2>1, <2>3, <3>1, FullWriteReadsAll, ReadsNoMore
  <2> HIDE DEF open
  <2> QED
    BY <2>2, <2>3 DEF PlanGrantsNoMore, open
<1> QED
  BY <1>1, TypeCorrect, PTL

-----------------------------------------------------------------------------
(* The plan grants no less                                                  *)

\* A path that exists and that the policy allows to be written is shown by the root
\* of the entry that decides it: no deeper root has a mount over the path.
LEMMA WritesNoLess ==
  ASSUME host \in Hosts, NEW pol \in [kind : Kinds, entries : Seq(AllEntries)],
         ~HasFullWrite(pol), NEW p \in Seq(Names), Exists(p), CanWrite(pol, p),
         ~OnlyRootsProtect(p)
  PROVE  Writes(Mounts(pol), p)
<1> DEFINE allowed == RootPaths(MountedRoots(pol))
           denied == UnreadableRoots(pol)
           beside == AllUnreadable(DeniedBeside(denied, allowed), allowed)
           roots == AllRoots(pol, denied, allowed)
<1>1. pol.kind = "restricted" /\ ~UnderGitDir(p)
  BY DEF HasFullWrite, OnlyRootsProtect
<1>2. PICK w \in WritableRoots(pol) :
           /\ IsPathWritable(w, p)
           /\ \A v \in WritableRoots(pol) : IsPrefix(v.root, p) => Len(v.root) <= Len(w.root)
  BY <1>1, DecidingRootAllows
<1>3. /\ IsPrefix(w.root, p) /\ \A r \in w.readOnly : ~IsPrefix(r, p)
      /\ p = w.root \/ p[Len(w.root) + 1] \notin w.names
  BY <1>2 DEF IsPathWritable
<1>4. w.root \in Seq(Names) /\ CanWrite(pol, w.root) /\ Len(w.root) \in Nat
  <2>1. w.root \in Seq(Names) /\ CanWrite(pol, w.root)
    BY WritableRootsAre
  <2> QED
    BY <2>1
<1>5. w \in MountedRoots(pol) /\ w.root \in allowed
  <2>1. Exists(w.root)
    BY <1>3, <1>4, AboveExists
  <2>2. w \in MountedRoots(pol)
    BY <2>1, MountedPaths
  <2> QED
    BY <2>2, MountedPaths
<1>6. /\ Carveouts(pol, w.root) \subseteq w.readOnly
      /\ w.names = {n \in MetaNames : ~CanWrite(pol, Append(w.root, n))}
  BY RootExcludes
\* Nothing denied is between the root and the path.
<1>7. ASSUME NEW x \in denied, IsPrefix(w.root, x), IsPrefix(x, p) PROVE FALSE
  <2>1. ~CanRead(pol, x) /\ \E e \in Resolved(pol) : e.at = x /\ e.access = "none"
    BY <1>1, DeniedPaths
  <2>2. ~CanWrite(pol, x)
    BY <2>1 DEF CanRead, CanWrite
  <2>3. x # w.root
    BY <1>4, <2>2
  <2>4. x \in Carveouts(pol, w.root)
    BY <1>7, <2>1, <2>2, <2>3 DEF Carveouts, IsStrictPrefix
  <2> QED
    BY <1>3, <1>6, <1>7, <2>4
<1>8. ASSUME NEW x \in ReadOnlyOf(pol, w), IsPrefix(x, p) PROVE FALSE
  <2>1. x \in w.readOnly \/ \E n \in w.names : x = Append(w.root, n)
    BY <1>5, ReadOnlyPathsAre
  <2>2. PICK n \in w.names : x = Append(w.root, n)
    BY <1>3, <1>8, <2>1
  <2>3. n \in Names
    BY <1>6, PolicyAssumption DEF PolicyAssumption, MetaNames
  <2>4. p # w.root /\ p[Len(w.root) + 1] = n
    BY <1>4, <1>8, <2>2, <2>3, Appended
  <2> QED
    BY <1>3, <2>2, <2>4
<1>9. Seen(OwnMounts(pol, w), p) = "bind" /\ Covers(OwnMounts(pol, w), p)
  BY <1>3, <1>5, <1>7, <1>8, OwnMountsShow
<1>10. Covers(roots, p) /\ roots \in Seq(AnyMount)
  <2>1. PICK m \in Range(OwnMounts(pol, w)) : IsPrefix(m.at, p)
    BY <1>5, <1>9, OwnMountsShow, SeenMember
  <2>2. roots \in Seq(AnyMount) /\ m \in Range(roots)
    BY <1>5, <2>1, RootsShow
  <2> HIDE DEF roots
  <2> QED
    BY <2>1, <2>2, SeenMember
<1>11. PICK v \in MountedRoots(pol) :
         /\ Covers(OwnMounts(pol, v), p) /\ Seen(roots, p) = Seen(OwnMounts(pol, v), p)
         /\ \A u \in MountedRoots(pol) :
              Covers(OwnMounts(pol, u), p) => Len(u.root) <= Len(v.root)
  BY <1>10, RootsShow
<1>12. v = w
  <2>1. IsPrefix(v.root, p) /\ v.root \in Seq(Names) /\ v \in WritableRoots(pol)
    BY <1>1, <1>11, OwnMountsShow, MountedPaths
  <2>2. Len(w.root) <= Len(v.root) /\ Len(v.root) <= Len(w.root) /\ Len(v.root) \in Nat
    BY <1>2, <1>5, <1>9, <1>11, <2>1
  <2>3. Len(v.root) = Len(w.root)
    BY <1>4, <2>2
  <2>4. IsPrefix(v.root, w.root)
    BY <1>3, <1>4, <2>1, <2>2, PrefixOrder
  <2>5. v.root = w.root
    BY <1>4, <2>1, <2>3, <2>4, PrefixSelf
  <2> QED
    BY <1>5, <2>5, MountedPaths
<1>13. Seen(roots, p) = "bind"
  BY <1>9, <1>11, <1>12
<1>14. ~Covers(beside, p)
  <2> SUFFICES ASSUME NEW x \in DeniedBeside(denied, allowed), IsPrefix(x, p) PROVE FALSE
    <3>1. DeniedBeside(denied, allowed) \in SUBSET denied
      BY DEF DeniedBeside
    <3>2. Covers(beside, p) => \E x \in DeniedBeside(denied, allowed) : IsPrefix(x, p)
      BY <3>1, DeniedShow
    <3> QED
      BY <3>2
  <2>1. /\ x \in denied /\ ~Under(x, allowed)
        /\ \A r \in allowed : ~IsPrefix(x, r)
    BY DEF DeniedBeside, DeniedAbove
  <2>2. x \in Seq(Names) /\ Len(x) \in Nat
    <3>1. x \in Seq(Names)
      BY <1>1, <2>1, DeniedPaths
    <3> QED
      BY <3>1
  <2>3. IsPrefix(w.root, x) \/ IsPrefix(x, w.root)
    <3>1. Len(w.root) <= Len(x) \/ Len(x) <= Len(w.root)
      BY <1>4, <2>2
    <3> QED
      BY <1>3, <1>4, <2>2, <3>1, PrefixOrder
  <2> QED
    BY <1>5, <2>1, <2>3 DEF Under
<1>15. Seen(Mounts(pol), p) = Seen(roots, p)
  BY <1>10, <1>14, MountsShow
<1> QED
  BY <1>13, <1>15 DEF Writes

\* A path that exists and that can be read is shown, unless it is below a denied one.
LEMMA ReadsNoLess ==
  ASSUME host \in Hosts, NEW pol \in [kind : Kinds, entries : Seq(AllEntries)],
         ~HasFullWrite(pol), NEW p \in Seq(Names), Exists(p), CanRead(pol, p),
         ~Under(p, UnreadableRoots(pol))
  PROVE  Reads(Mounts(pol), p)
<1> DEFINE allowed == RootPaths(MountedRoots(pol))
           denied == UnreadableRoots(pol)
           above == AllUnreadable(DeniedAbove(denied, allowed), allowed)
           beside == AllUnreadable(DeniedBeside(denied, allowed), allowed)
           roots == AllRoots(pol, denied, allowed)
           all == Mounts(pol)
<1>1. pol.kind = "restricted"
  BY DEF HasFullWrite
<1>2. /\ all \in Seq(AnyMount)
      /\ Range(all) = ((Range(Base(pol)) \cup Range(above)) \cup Range(roots)) \cup Range(beside)
      /\ Covers(Base(pol), p) => Covers(all, p)
  BY MountsShow
<1>3. /\ DeniedAbove(denied, allowed) \in SUBSET denied
      /\ DeniedBeside(denied, allowed) \in SUBSET denied
  BY DEF DeniedAbove, DeniedBeside
<1>4. \A m \in Range(above) \cup Range(beside) : m.op = "hide" => m.at \in denied
  BY <1>3, DeniedShow
<1>5. \A m \in Range(roots) : m.op = "hide" => m.at \in denied
  <2> SUFFICES ASSUME NEW m \in Range(roots), m.op = "hide" PROVE m.at \in denied
    OBVIOUS
  <2>1. PICK w \in MountedRoots(pol) : m \in Range(OwnMounts(pol, w))
    BY RootsShow
  <2> QED
    BY <2>1, OwnMountsShow
<1>6. \A m \in Range(Base(pol)) : m.op = "ro"
  BY BaseShows
<1> HIDE DEF all, above, beside, roots
<1>7. \A m \in Range(all) : m.op = "hide" => m.at \in denied
  BY <1>2, <1>4, <1>5, <1>6
<1>8. HasFullRead(pol) \/ \E r \in ReadableRoots(pol) : IsPrefix(r, p)
  <2> SUFFICES ASSUME ~HasFullRead(pol) PROVE \E r \in ReadableRoots(pol) : IsPrefix(r, p)
    OBVIOUS
  <2>1. PICK c : c \in Covering(pol, p)
    BY <1>1 DEF CanRead, ResolveAccess, Covering
  <2>2. PICK e \in Covering(pol, p) :
          /\ e \in Resolved(pol) /\ IsPrefix(e.at, p)
          /\ ResolveAccess(pol, p) = e.access /\ ResolveAccess(pol, e.at) = e.access
    BY <1>1, <2>1, DecidingEntry
  <2>3. e.access # "none" /\ CanRead(pol, e.at)
    BY <2>2 DEF CanRead
  <2>4. e.at \in ReadableRoots(pol)
    BY <2>2, <2>3 DEF ReadableRoots
  <2> QED
    BY <2>2, <2>4
<1>9. Covers(all, p)
  BY <1>2, <1>8, BaseShows
<1>10. PICK m \in Range(all) : IsPrefix(m.at, p) /\ Seen(all, p) = m.op
  BY <1>2, <1>9, SeenMember
<1>11. m.op # "hide"
  BY <1>7, <1>10 DEF Under
<1>12. m.op \in {"bind", "ro", "mask", "hide"}
  <2>1. m \in AnyMount
    BY <1>2 DEF Range
  <2> QED
    BY <2>1 DEF AnyMount
<1> QED
  BY <1>10, <1>11, <1>12 DEF Reads, all

\* What the runs check of reachable policies, for every instance: the mounts show
\* the command everything that exists and that the policy grants, except what is
\* below a denied path and what only the defaults of a root protect.
THEOREM PlanNeverGrantsLess == Spec => []PlanGrantsNoLess
<1>1. TypeOK => PlanGrantsNoLess
  <2> SUFFICES ASSUME TypeOK PROVE PlanGrantsNoLess
    OBVIOUS
  <2>1. policy \in [kind : Kinds, entries : Seq(AllEntries)] /\ host \in Hosts
    BY DEF TypeOK
  <2>2. ASSUME NEW p \in Tree, Exists(p)
        PROVE  /\ CanWrite(policy, p) => Writes(Mounts(policy), p) \/ OnlyRootsProtect(p)
               /\ CanRead(policy, p) =>
                    Reads(Mounts(policy), p) \/ Under(p, UnreadableRoots(policy))
    <3>1. p \in Seq(Names)
      BY PolicyAssumption DEF PolicyAssumption
    <3>2. CASE HasFullWrite(policy)
      BY <3>1, <3>2, FullMounts DEF Writes, Reads
    <3>3. CASE ~HasFullWrite(policy)
      BY <2>1, <2>2, <3>1, <3>3, WritesNoLess, ReadsNoLess
    <3> QED
      BY <3>2, <3>3
  <2> QED
    BY <2>2 DEF PlanGrantsNoLess
<1> QED
  BY <1>1, TypeCorrect, PTL

-----------------------------------------------------------------------------
(* What the monitor watches is not mounted                                  *)

\* A missing component that is metadata of an existing root is the first missing one.
LEMMA FirstBelowRoot ==
  ASSUME host \in Hosts, NEW r \in Seq(Names), Exists(r), NEW n \in Names,
         ~Exists(Append(r, n))
  PROVE  FirstMissing(Append(r, n)) = Append(r, n)
<1> DEFINE x == Append(r, n)
           q == FirstMissing(x)
<1>1. x \in Seq(Names) /\ IsPrefix(r, x) /\ x # Root /\ Len(x) = Len(r) + 1
  BY Appended
<1> HIDE DEF x
<1>2. q \in Seq(Names) /\ IsPrefix(q, x) /\ Len(r) < Len(q)
  <2>1. ~Exists(x)
    BY DEF x
  <2> QED
    BY <1>1, <2>1, FirstMissingIs
<1>3. Len(q) \in 0..Len(x) /\ Len(r) \in Nat
  BY <1>1, <1>2, PrefixFacts
<1>4. Len(q) = Len(x)
  BY <1>1, <1>2, <1>3
<1>5. q = x
  BY <1>1, <1>2, <1>4, PrefixSelf
<1> QED
  BY <1>5 DEF x

\* A mount point that bubblewrap creates is not watched, unless an entry denies it or
\* says something about a path below it.
LEMMA WatchedNotMounted ==
  ASSUME host \in Hosts, NEW pol \in [kind : Kinds, entries : Seq(AllEntries)],
         NEW p \in Watched(pol) \cap Synthetic(Mounts(pol))
  PROVE  \E e \in Resolved(pol) : IsStrictPrefix(p, e.at) \/ (e.at = p /\ e.access = "none")
<1> DEFINE allowed == RootPaths(MountedRoots(pol))
           denied == UnreadableRoots(pol)
           above == AllUnreadable(DeniedAbove(denied, allowed), allowed)
           beside == AllUnreadable(DeniedBeside(denied, allowed), allowed)
           roots == AllRoots(pol, denied, allowed)
<1>1. PICK w \in MountedRoots(pol) : p \in ProtectedCreate(w, ReadOnlyOf(pol, w))
  BY DEF Watched
<1>2. PICK n \in w.names : p = Append(w.root, n) /\ p \notin ReadOnlyOf(pol, w) /\ ~Exists(p)
  BY <1>1 DEF ProtectedCreate
<1>3. ~HasFullWrite(pol)
  BY <1>1 DEF MountedRoots, WritableRoots
<1>4. pol.kind = "restricted"
  BY <1>3 DEF HasFullWrite
<1>5. /\ w \in WritableRoots(pol) /\ w.root \in Seq(Names) /\ Exists(w.root)
      /\ \A v \in MountedRoots(pol) : /\ v.root \in Seq(Names) /\ Exists(v.root)
                                      /\ v \in WritableRoots(pol)
                                      /\ v.root = w.root => v = w
  BY <1>3, MountedPaths
<1>6. /\ w.readOnly = (Range(DefaultReadOnly(w.root, w.root = Cwd))
                          \ {e.at : e \in Resolved(pol)}) \cup Carveouts(pol, w.root)
      /\ w.names = {m \in MetaNames : ~CanWrite(pol, Append(w.root, m))}
  BY <1>3, <1>5, RootExcludes
<1>7. n \in MetaNames /\ ~CanWrite(pol, p) /\ \A m \in MetaNames : m \in Names
  BY <1>2, <1>6, PolicyAssumption DEF PolicyAssumption, MetaNames
<1>8. /\ p \in Seq(Names) /\ IsPrefix(w.root, p) /\ w.root # p /\ Len(p) = Len(w.root) + 1
      /\ p # Root
  BY <1>2, <1>5, <1>7, Appended
<1>9. PICK m \in Range(Mounts(pol)) : m.op = "mask" /\ m.at = p
  BY DEF Synthetic
<1>10. /\ allowed \subseteq Seq(Names) /\ \A x \in allowed : Exists(x)
  BY <1>3, MountedPaths
<1>11. \/ \E x \in denied : m \in UnreadableMounts(x, allowed)
       \/ \E v \in MountedRoots(pol) :
            \E x \in ReadOnlyOf(pol, v) : m \in ReadOnlyMounts(x, allowed)
  <2>1. Range(Mounts(pol)) = ((Range(Base(pol)) \cup Range(above)) \cup Range(roots))
                                \cup Range(beside)
    BY <1>3, <1>8, MountsShow
  <2>2. m \notin Range(Base(pol))
    BY <1>8, <1>9, BaseShows
  <2>3. /\ DeniedAbove(denied, allowed) \in SUBSET denied
        /\ DeniedBeside(denied, allowed) \in SUBSET denied
    BY DEF DeniedAbove, DeniedBeside
  <2>4. CASE m \in Range(above) \cup Range(beside)
    <3>1. m \in Range(above) => \E x \in denied : m \in UnreadableMounts(x, allowed)
      BY <1>3, <1>8, <2>3, DeniedShow
    <3>2. m \in Range(beside) => \E x \in denied : m \in UnreadableMounts(x, allowed)
      BY <1>3, <1>8, <2>3, DeniedShow
    <3> QED
      BY <2>4, <3>1, <3>2
  <2>5. CASE m \in Range(roots)
    <3>1. PICK v \in MountedRoots(pol) : m \in Range(OwnMounts(pol, v))
      BY <1>3, <1>8, <2>5, RootsShow
    <3>2. m # Mount("bind", v.root)
      BY <1>9 DEF Mount
    <3>3. \/ \E x \in ReadOnlyOf(pol, v) : m \in ReadOnlyMounts(x, allowed)
          \/ \E x \in {y \in denied : IsPrefix(v.root, y)} : m \in UnreadableMounts(x, allowed)
      BY <1>3, <3>1, <3>2, OwnMountsAre
    <3> QED
      BY <3>3
  <2> HIDE DEF above, beside, roots
  <2> QED
    BY <1>9, <2>1, <2>2, <2>4, <2>5
<1> HIDE DEF above, beside, roots
<1>12. CASE \E x \in denied : m \in UnreadableMounts(x, allowed)
  <2>1. PICK x \in denied : m \in UnreadableMounts(x, allowed)
    BY <1>12
  <2>2. /\ x \in Seq(Names) /\ x # Root
        /\ \E e \in Resolved(pol) : e.at = x /\ e.access = "none"
    BY <1>4, DeniedPaths
  <2>3. IsPrefix(p, x)
    BY <1>9, <1>10, <2>1, <2>2, PathMounts
  <2> QED
    BY <2>2, <2>3 DEF IsStrictPrefix
<1>13. CASE \E v \in MountedRoots(pol) : \E x \in ReadOnlyOf(pol, v) :
              m \in ReadOnlyMounts(x, allowed)
  <2>1. PICK v \in MountedRoots(pol) : \E y \in ReadOnlyOf(pol, v) :
               m \in ReadOnlyMounts(y, allowed)
    BY <1>13
  <2>2. PICK x \in ReadOnlyOf(pol, v) : m \in ReadOnlyMounts(x, allowed)
    BY <2>1
  <2>3. /\ x \in Seq(Names) /\ (Exists(x) \/ x # Root)
        /\ \/ x = GitDir /\ Exists(x)
           \/ /\ IsPrefix(v.root, x) /\ v.root # x
              /\ \/ \E k \in MetaNames : x = Append(v.root, k)
                 \/ x \in Carveouts(pol, v.root)
        /\ x \in v.readOnly \/ \E k \in v.names : x = Append(v.root, k)
    BY <1>3, <2>2, ReadOnlyPathsAre
  <2>4. IsPrefix(p, x) /\ p = FirstMissing(x) /\ ~Exists(x)
    <3>1. /\ IsPrefix(m.at, x)
          /\ ~Exists(m.at) => m.at = FirstMissing(x) /\ ~Exists(x)
      <4> HIDE DEF allowed
      <4> QED
        BY <1>10, <2>2, <2>3, PathMounts
    <3> QED
      BY <1>2, <1>9, <3>1
  <2>5. CASE \E k \in MetaNames : x = Append(v.root, k)
    <3>1. PICK k \in MetaNames : x = Append(v.root, k)
      BY <2>5
    <3>2. p = x
      BY <1>5, <1>7, <2>4, <3>1, FirstBelowRoot
    <3>3. IsPrefix(v.root, p) /\ Len(p) = Len(v.root) + 1
      BY <1>5, <1>7, <3>1, <3>2, Appended
    <3>4. Len(v.root) = Len(w.root)
      BY <1>5, <1>8, <3>3
    <3>5. IsPrefix(v.root, w.root)
      <4>1. Len(v.root) <= Len(w.root)
        BY <1>5, <3>4
      <4> QED
        BY <1>5, <1>8, <3>3, <4>1, PrefixOrder
    <3>6. v = w
      BY <1>5, <3>4, <3>5, PrefixSelf
    <3> QED
      BY <1>2, <2>2, <3>2, <3>6
  <2>6. CASE x \in Carveouts(pol, v.root)
    <3>1. PICK e \in Resolved(pol) : e.at = x /\ e.access # "write"
      BY <2>6 DEF Carveouts
    <3>2. CASE p # x
      BY <2>4, <3>1, <3>2 DEF IsStrictPrefix
    <3>3. CASE p = x
      <4>1. p \in Carveouts(pol, w.root)
        BY <1>7, <1>8, <3>1, <3>3 DEF Carveouts, IsStrictPrefix
      <4>2. p \in w.readOnly
        BY <1>6, <4>1
      <4>3. p \in UnreadableRoots(pol) \/ p \in MissingAutoMetadata(pol)
        BY <1>2, <4>2 DEF ReadOnlyOf
      <4>4. CASE p \in UnreadableRoots(pol)
        BY <1>4, <4>4, DeniedPaths
      <4>5. CASE p \notin UnreadableRoots(pol) /\ p \in MissingAutoMetadata(pol)
        <5>1. PICK k \in v.names : x = Append(v.root, k)
          BY <2>2, <3>3, <4>5 DEF ReadOnlyOf
        <5>2. v.names = {j \in MetaNames : ~CanWrite(pol, Append(v.root, j))}
          BY <1>3, <1>5, RootExcludes
        <5>3. \E j \in MetaNames : x = Append(v.root, j)
          BY <5>1, <5>2
        <5> QED
          BY <2>5, <5>3
      <4> QED
        BY <4>3, <4>4, <4>5
    <3> QED
      BY <3>2, <3>3
  <2> QED
    BY <2>3, <2>4, <2>5, <2>6
<1> QED
  BY <1>11, <1>12, <1>13

\* What the runs check of reachable policies, for every instance: the monitor does
\* not take a mount point that bubblewrap creates for a violation, unless an entry
\* denies that path or speaks of one below it.
THEOREM WatchedAlwaysDisjoint == Spec => []TargetsDisjoint
<1>1. TypeOK => TargetsDisjoint
  <2> SUFFICES ASSUME TypeOK PROVE TargetsDisjoint
    OBVIOUS
  <2>1. policy \in [kind : Kinds, entries : Seq(AllEntries)] /\ host \in Hosts
    BY DEF TypeOK
  <2> QED
    BY <2>1, WatchedNotMounted DEF TargetsDisjoint
<1> QED
  BY <1>1, TypeCorrect, PTL

-----------------------------------------------------------------------------
(* The Seatbelt rules                                                       *)

\* The union of the read rules allows what the policy lets a command read: the root
\* of the deciding entry allows the path, and a denial that decides a path below a
\* readable root is excluded from that root.
LEMMA ReadRulesMatch ==
  ASSUME NEW pol \in [kind : Kinds, entries : Seq(AllEntries)], NEW p \in Seq(Names)
  PROVE  Allowed(ReadRules(pol), p) <=> CanRead(pol, p)
<1>1. CASE HasFullRead(pol)
  <2>1. CanRead(pol, p)
    BY <1>1, FullReadMeansAll
  <2>2. UnreadableRoots(pol) = {}
    <3> SUFFICES ASSUME NEW e \in Resolved(pol), ~CanRead(pol, e.at) PROVE FALSE
      BY DEF UnreadableRoots
    <3>1. e.at \in Seq(Names)
      BY ResolvedTypes DEF ResolvedEntries
    <3> QED
      BY <1>1, <3>1, FullReadMeansAll
  <2> DEFINE rule == AccessRoot(Root, {}, {})
  <2>3. Allows(rule, p)
    BY PrefixFacts DEF Allows, AccessRoot, Under, HasName
  <2>4. ReadRules(pol) = {rule}
    BY <1>1, <2>2 DEF ReadRules
  <2> HIDE DEF rule
  <2> QED
    BY <2>1, <2>3, <2>4 DEF Allowed
<1>2. CASE ~HasFullRead(pol)
  <2> DEFINE rule(r) == AccessRoot(r, {u \in UnreadableRoots(pol) : IsPrefix(r, u)}, {})
  <2>1. pol.kind = "restricted"
    BY <1>2 DEF HasFullRead
  <2>2. ReadRules(pol) = {rule(r) : r \in ReadableRoots(pol)}
    BY <1>2 DEF ReadRules
  <2>3. \A r : Allows(rule(r), p) <=>
                 /\ IsPrefix(r, p)
                 /\ \A u \in UnreadableRoots(pol) : IsPrefix(r, u) => ~IsPrefix(u, p)
    BY DEF Allows, AccessRoot, Under, HasName
  <2>4. Allowed(ReadRules(pol), p) <=> \E r \in ReadableRoots(pol) : Allows(rule(r), p)
    BY <2>2 DEF Allowed
  <2> HIDE DEF rule
  <2>5. ASSUME CanRead(pol, p)
        PROVE  \E r \in ReadableRoots(pol) : Allows(rule(r), p)
    <3>1. PICK c : c \in Covering(pol, p)
      BY <2>1, <2>5 DEF CanRead, ResolveAccess, Covering
    <3>2. PICK e \in Covering(pol, p) :
            /\ e \in Resolved(pol) /\ e.at \in Seq(Names) /\ e.access \in Accesses
            /\ IsPrefix(e.at, p) /\ Len(e.at) \in 0..Len(p)
            /\ ResolveAccess(pol, p) = e.access /\ ResolveAccess(pol, e.at) = e.access
            /\ \A f \in Covering(pol, p) : /\ ~Outranks(f, e) /\ f.at \in Seq(Names)
                                           /\ Len(f.at) \in 0..Len(e.at)
      BY <2>1, <3>1, DecidingEntry
    <3>3. e.access # "none" /\ CanRead(pol, e.at)
      BY <2>5, <3>2 DEF CanRead
    <3>4. e.at \in ReadableRoots(pol)
      BY <1>2, <3>2, <3>3 DEF ReadableRoots
    <3>5. ASSUME NEW u \in UnreadableRoots(pol), IsPrefix(e.at, u), IsPrefix(u, p)
          PROVE  FALSE
      <4>1. PICK f \in Resolved(pol) : f.at = u /\ ~CanRead(pol, u)
        BY <2>1 DEF UnreadableRoots
      <4>2. f \in Covering(pol, p) /\ u \in Seq(Names)
        BY <3>2, <3>5, <4>1 DEF Covering
      <4>3. Len(u) = Len(e.at)
        <5>1. Len(u) \in 0..Len(e.at) /\ Len(e.at) \in 0..Len(u)
          BY <3>2, <3>5, <4>1, <4>2, PrefixFacts
        <5> QED
          BY <5>1
      <4>4. e.at = u
        BY <3>2, <3>5, <4>2, <4>3, PrefixSelf
      <4> QED
        BY <3>3, <4>1, <4>4
    <3> QED
      BY <2>3, <3>2, <3>4, <3>5
  <2>6. ASSUME NEW r \in ReadableRoots(pol), Allows(rule(r), p), ~CanRead(pol, p)
        PROVE  FALSE
    <3>1. IsPrefix(r, p) /\ \A u \in UnreadableRoots(pol) : IsPrefix(r, u) => ~IsPrefix(u, p)
      BY <2>3, <2>6
    <3>2. PICK c \in Resolved(pol) : c.at = r /\ CanRead(pol, r)
      BY <1>2 DEF ReadableRoots
    <3>3. c \in Covering(pol, p) /\ r \in Seq(Names)
      BY <3>1, <3>2, ResolvedTypes DEF Covering, ResolvedEntries
    <3>4. PICK e \in Covering(pol, p) :
            /\ e \in Resolved(pol) /\ e.at \in Seq(Names) /\ e.access \in Accesses
            /\ IsPrefix(e.at, p) /\ Len(e.at) \in 0..Len(p)
            /\ ResolveAccess(pol, p) = e.access /\ ResolveAccess(pol, e.at) = e.access
            /\ \A f \in Covering(pol, p) : /\ ~Outranks(f, e) /\ f.at \in Seq(Names)
                                           /\ Len(f.at) \in 0..Len(e.at)
      BY <2>1, <3>3, DecidingEntry
    <3>5. e.access = "none" /\ ~CanRead(pol, e.at)
      BY <2>6, <3>4 DEF CanRead
    <3>6. Len(r) \in 0..Len(e.at) /\ Len(e.at) \in Nat
      BY <3>2, <3>3, <3>4
    <3>7. IsPrefix(r, e.at)
      BY <3>1, <3>3, <3>4, <3>6, PrefixOrder
    <3>8. e.at # Root
      <4> SUFFICES ASSUME e.at = Root PROVE FALSE
        OBVIOUS
      <4>1. Len(r) = Len(e.at)
        BY <3>6 DEF Root
      <4>2. r = e.at
        BY <3>3, <3>4, <3>7, <4>1, PrefixSelf
      <4> QED
        BY <3>2, <3>5, <4>2
    <3>9. e.at \in UnreadableRoots(pol)
      BY <2>1, <3>4, <3>5, <3>8 DEF UnreadableRoots
    <3> QED
      BY <3>1, <3>4, <3>7, <3>9
  <2> QED
    BY <2>4, <2>5, <2>6
<1> QED
  BY <1>1, <1>2

\* A write rule is a writable root: it excludes what is read-only below the root,
\* and the names that the root protects.
LEMMA RuleIsRoot ==
  ASSUME NEW pol \in [kind : Kinds, entries : Seq(AllEntries)], ~HasFullWrite(pol),
         NEW w \in WritableRoots(pol), NEW p \in Seq(Names)
  PROVE  Allows(AccessRoot(w.root, w.readOnly, ProtectedNames(pol, w)), p) <=>
           IsPathWritable(w, p)
<1>1. w = WritableRoot(pol, w.root) /\ w.root \in Seq(Names)
  BY WritableRootsAre
<1>2. w.names = {n \in MetaNames : ~CanWrite(pol, Append(w.root, n))}
  <2> DEFINE x == w.root
  <2>1. WritableRoot(pol, x).names = {n \in MetaNames : ~CanWrite(pol, Append(x, n))}
    BY WritableRootsAre
  <2>2. w = WritableRoot(pol, x)
    BY <1>1
  <2> HIDE DEF x
  <2>3. w.names = {n \in MetaNames : ~CanWrite(pol, Append(x, n))}
    BY <2>1, <2>2
  <2> QED
    BY <2>3 DEF x
<1>3. ProtectedNames(pol, w) = w.names
  BY <1>2 DEF ProtectedNames
<1>4. IsPrefix(w.root, p) => (p = w.root <=> ~(Len(p) > Len(w.root)))
  <2> SUFFICES ASSUME IsPrefix(w.root, p) PROVE p = w.root <=> ~(Len(p) > Len(w.root))
    OBVIOUS
  <2>1. Len(w.root) \in 0..Len(p) /\ Len(p) \in Nat
    BY <1>1, PrefixFacts
  <2>2. Len(w.root) = Len(p) => w.root = p
    BY <1>1, PrefixSelf
  <2> QED
    BY <2>1, <2>2
<1> QED
  BY <1>3, <1>4 DEF Allows, AccessRoot, Under, HasName, IsPathWritable

\* What Seatbelt is told matches the decisions of every reachable policy
\* (create_seatbelt_command_args against can_read_path_with_cwd and
\* can_write_path_with_cwd), but for the three exceptions the property names.
THEOREM SeatbeltAlwaysMatches == Spec => []SeatbeltMatchesPolicy
<1>1. ASSUME TypeOK, NEW p \in Tree
      PROVE  /\ Allowed(ReadRules(policy), p) <=> CanRead(policy, p)
             /\ Allowed(WriteRules(policy), p) =>
                  \/ CanWrite(policy, p) \/ InnerMetadata(p)
                  \/ HasFullWrite(policy) /\ UnderMissingTmp(p)
             /\ CanWrite(policy, p) => Allowed(WriteRules(policy), p) \/ OnlyRootsProtect(p)
  <2>1. policy \in [kind : Kinds, entries : Seq(AllEntries)] /\ p \in Seq(Names)
    BY <1>1, PolicyAssumption DEF TypeOK, PolicyAssumption
  <2>2. CASE HasFullWrite(policy)
    <3>1. UnreadableRoots(policy) = {}
      <4> SUFFICES ASSUME NEW e \in Resolved(policy), ~CanRead(policy, e.at) PROVE FALSE
        BY DEF UnreadableRoots
      <4>1. e.at \in Seq(Names)
        BY <2>1, ResolvedTypes DEF ResolvedEntries
      <4> QED
        BY <2>1, <2>2, <4>1, FullWriteReadsAll
    <3> DEFINE rule == AccessRoot(Root, {}, {})
    <3>2. Allows(rule, p)
      BY <2>1, PrefixFacts DEF Allows, AccessRoot, Under, HasName
    <3>3. WriteRules(policy) = {rule}
      BY <2>2, <3>1 DEF WriteRules
    <3> HIDE DEF rule
    <3> QED
      BY <2>1, <2>2, <3>2, <3>3, ReadRulesMatch, FullWriteMeansAll DEF Allowed
  <2>3. CASE ~HasFullWrite(policy)
    <3> DEFINE rule(w) == AccessRoot(w.root, w.readOnly, ProtectedNames(policy, w))
    <3>1. WriteRules(policy) = {rule(w) : w \in WritableRoots(policy)}
      BY <2>3 DEF WriteRules
    <3>2. \A w \in WritableRoots(policy) : Allows(rule(w), p) <=> IsPathWritable(w, p)
      BY <2>1, <2>3, RuleIsRoot
    <3> HIDE DEF rule
    <3>3. Allowed(WriteRules(policy), p) <=> \E w \in WritableRoots(policy) : IsPathWritable(w, p)
      BY <3>1, <3>2 DEF Allowed
    <3>4. policy.kind = "restricted"
      BY <2>3 DEF HasFullWrite
    <3>5. ASSUME NEW w \in WritableRoots(policy), IsPathWritable(w, p), ~CanWrite(policy, p)
          PROVE  InnerMetadata(p)
      <4>1. PICK v \in WritableRoots(policy) :
              /\ IsStrictPrefix(w.root, v.root) /\ IsPrefix(v.root, p)
              /\ Len(v.root) \in 0..(Len(p) - 1) /\ p[Len(v.root) + 1] \in MetaNames
        BY <2>1, <2>3, <3>4, <3>5, RootAllowsOnly
      <4>2. Len(p) > Len(v.root)
        BY <2>1, <4>1
      <4> QED
        BY <4>1, <4>2 DEF InnerMetadata, HasName
    <3>6. ASSUME CanWrite(policy, p), ~OnlyRootsProtect(p)
          PROVE  \E w \in WritableRoots(policy) : IsPathWritable(w, p)
      BY <2>1, <2>3, <3>4, <3>6, DecidingRootAllows
    <3> QED
      BY <2>1, <3>3, <3>5, <3>6, ReadRulesMatch
  <2> QED
    BY <2>2, <2>3
<1>2. TypeOK => SeatbeltMatchesPolicy
  BY <1>1 DEF SeatbeltMatchesPolicy
<1> QED
  BY <1>2, TypeCorrect, PTL

-----------------------------------------------------------------------------
(* The older SandboxPolicy                                                  *)

\* The roots of the older policy (get_writable_roots_with_cwd of SandboxPolicy)
OlderRoots(leg) ==
  Range(leg.roots) \cup {Cwd}
    \cup (IF leg.slashTmp /\ IsDir(SlashTmp) THEN {SlashTmp} ELSE {})
    \cup (IF leg.tmpdir THEN {TmpDir} \ {NoPath} ELSE {})

\* The runtime form has the workspace entries, and reads of the defaults of roots.
LEMMA RuntimeEntries ==
  ASSUME NEW leg, leg.type = "workspace", leg.roots \in Seq(Seq(Names))
  PROVE  /\ LegacyRuntime(leg) \in [kind : Kinds, entries : Seq(AllEntries)]
         /\ LegacyRuntime(leg).kind = "restricted"
         /\ Range(WorkspaceEntries(leg)) \subseteq EntriesOf(LegacyRuntime(leg))
         /\ \A e \in EntriesOf(LegacyRuntime(leg)) :
              \/ e \in Range(WorkspaceEntries(leg))
              \/ \E r \in OlderRoots(leg) : \E x \in Range(DefaultReadOnly(r, r = Cwd)) :
                   e = PathEntry(x, "read")
<1> DEFINE base == WorkspaceEntries(leg)
           own == ReadOnlyPaths(DefaultReadOnly(Cwd, TRUE))
           some == AppendReadOnly(base, own)
           all == AppendDefaults(some, leg.roots)
<1>1. base \in Seq(AllEntries)
  BY WorkspaceEntriesTyped
<1>2. Cwd \in Seq(Names) /\ \A r \in Range(leg.roots) : r \in Seq(Names)
  BY PolicyAssumption DEF PolicyAssumption, Range
<1>3. /\ own \in Seq(AllEntries)
      /\ Range(own) = {PathEntry(x, "read") : x \in Range(DefaultReadOnly(Cwd, TRUE))}
  <2>1. TRUE \in BOOLEAN
    OBVIOUS
  <2>2. DefaultReadOnly(Cwd, TRUE) \in Seq(Seq(Names))
    BY <1>2, <2>1, DefaultReadOnlyFacts
  <2> QED
    BY <2>2, ReadOnlyPathsFacts
<1>4. LegacyRuntime(leg) = Restricted(all)
  BY DEF LegacyRuntime, WithDefaults
<1> HIDE DEF base, own
<1>5. /\ some \in Seq(AllEntries) /\ Range(base) \subseteq Range(some)
      /\ Range(some) \subseteq Range(base) \cup Range(own)
  BY <1>1, <1>3, AppendReadOnlyFacts
<1> HIDE DEF some
<1>6. /\ all \in Seq(AllEntries) /\ Range(some) \subseteq Range(all)
      /\ Range(all) \subseteq Range(some) \cup RootDefaults(leg.roots)
  BY <1>5, AppendDefaultsFacts
<1> HIDE DEF all
<1>7. /\ LegacyRuntime(leg) \in [kind : Kinds, entries : Seq(AllEntries)]
      /\ LegacyRuntime(leg).kind = "restricted" /\ LegacyRuntime(leg).entries = all
  BY <1>4, <1>6, Constructed DEF Policies
<1>8. EntriesOf(LegacyRuntime(leg)) = Range(all)
  BY <1>7 DEF EntriesOf
<1>9. ASSUME NEW e \in Range(own)
      PROVE  \E r \in OlderRoots(leg) : \E x \in Range(DefaultReadOnly(r, r = Cwd)) :
               e = PathEntry(x, "read")
  <2>1. PICK x \in Range(DefaultReadOnly(Cwd, TRUE)) : e = PathEntry(x, "read")
    BY <1>3, <1>9
  <2>2. Cwd \in OlderRoots(leg) /\ (Cwd = Cwd) = TRUE
    BY DEF OlderRoots
  <2>3. x \in Range(DefaultReadOnly(Cwd, Cwd = Cwd))
    BY <2>1, <2>2
  <2> QED
    BY <2>1, <2>2, <2>3, Zenon
<1>10. ASSUME NEW e \in RootDefaults(leg.roots)
       PROVE  \E r \in OlderRoots(leg) : \E x \in Range(DefaultReadOnly(r, r = Cwd)) :
                e = PathEntry(x, "read")
  <2>1. PICK r \in Range(leg.roots) : \E x \in Range(DefaultReadOnly(r, FALSE)) :
               e = PathEntry(x, "read")
    BY <1>10 DEF RootDefaults
  <2>2. PICK x \in Range(DefaultReadOnly(r, FALSE)) : e = PathEntry(x, "read")
    BY <2>1
  <2>3. r \in Seq(Names) /\ r \in OlderRoots(leg)
    BY <1>2 DEF OlderRoots
  <2>4. x \in Range(DefaultReadOnly(r, r = Cwd))
    <3> DEFINE protect == r = Cwd
    <3>1. protect \in BOOLEAN /\ FALSE \in BOOLEAN
      OBVIOUS
    <3> HIDE DEF protect
    <3>2. x \in Range(DefaultReadOnly(r, protect))
      BY <2>2, <2>3, <3>1, DefaultReadOnlyFacts
    <3> QED
      BY <3>2 DEF protect
  <2> QED
    BY <2>2, <2>3, <2>4
<1> QED
  BY <1>5, <1>6, <1>7, <1>8, <1>9, <1>10 DEF base

\* The write entries of the runtime form are those of the older policy's roots.
LEMMA RuntimeResolves ==
  ASSUME NEW leg, leg.type = "workspace", leg.roots \in Seq(Seq(Names))
  PROVE  /\ DenyEntries(LegacyRuntime(leg)) = {}
         /\ \A r : r \in OlderRoots(leg) =>
              r \in Seq(Names) /\ [at |-> r, access |-> "write"] \in Resolved(LegacyRuntime(leg))
         /\ \A e \in Resolved(LegacyRuntime(leg)) :
              \/ e.access = "write" /\ e.at \in OlderRoots(leg)
              \/ /\ e.access = "read"
                 /\ e.at = Root \/ \E r \in OlderRoots(leg) :
                                     e.at \in Range(DefaultReadOnly(r, r = Cwd))
<1> DEFINE run == LegacyRuntime(leg)
           ws == WorkspaceEntries(leg)
<1>1. /\ Range(ws) \subseteq EntriesOf(run)
      /\ \A e \in EntriesOf(run) :
           \/ e \in Range(ws)
           \/ \E r \in OlderRoots(leg) : \E x \in Range(DefaultReadOnly(r, r = Cwd)) :
                e = PathEntry(x, "read")
  BY RuntimeEntries
<1>2. \A e : e \in Range(ws) <=>
           \/ e = Entry("root", <<>>, "read") \/ e = Entry("project", <<>>, "write")
           \/ leg.slashTmp /\ e = Entry("slash_tmp", <<>>, "write")
           \/ leg.tmpdir /\ e = Entry("tmpdir", <<>>, "write")
           \/ \E r \in Range(leg.roots) : e = PathEntry(r, "write")
  BY WorkspaceEntriesAre
<1> HIDE DEF run, ws
<1>3. /\ ResolveEntry(Entry("root", <<>>, "read")) = Root
      /\ ResolveEntry(Entry("project", <<>>, "write")) = Cwd
      /\ ResolveEntry(Entry("slash_tmp", <<>>, "write")) =
           IF IsDir(SlashTmp) THEN SlashTmp ELSE NoPath
      /\ ResolveEntry(Entry("tmpdir", <<>>, "write")) = TmpDir
      /\ \A x : \A y : ResolveEntry(PathEntry(x, y)) = x
  <2>1. Cwd \o <<>> = Cwd
    BY PolicyAssumption DEF PolicyAssumption
  <2> QED
    BY <2>1 DEF ResolveEntry, Entry, PathEntry
<1>4. \A type, at, access : /\ Entry(type, at, access).access = access
                            /\ PathEntry(at, access).access = access
  BY DEF Entry, PathEntry
<1>5. /\ Cwd \in Seq(Names) /\ SlashTmp \in Seq(Names) /\ NoPath \notin Seq(Names)
      /\ TmpDir # NoPath => TmpDir \in Seq(Names)
      /\ \A r \in Range(leg.roots) : r \in Seq(Names)
  BY PolicyAssumption DEF PolicyAssumption, Range
<1>6. ASSUME NEW r \in OlderRoots(leg)
      PROVE  r \in Seq(Names) /\ [at |-> r, access |-> "write"] \in Resolved(run)
  <2>1. \E e \in Range(ws) : e.access = "write" /\ ResolveEntry(e) = r /\ r \in Seq(Names)
    <3>1. CASE r \in Range(leg.roots)
      BY <1>2, <1>3, <1>4, <1>5, <3>1
    <3>2. CASE r = Cwd
      BY <1>2, <1>3, <1>4, <1>5, <3>2
    <3>3. CASE leg.slashTmp /\ IsDir(SlashTmp) /\ r = SlashTmp
      BY <1>2, <1>3, <1>4, <1>5, <3>3
    <3>4. CASE leg.tmpdir /\ r = TmpDir /\ TmpDir # NoPath
      BY <1>2, <1>3, <1>4, <1>5, <3>4
    <3> QED
      BY <3>1, <3>2, <3>3, <3>4 DEF OlderRoots
  <2> QED
    BY <1>1, <1>5, <2>1 DEF Resolved
<1>7. ASSUME NEW o \in EntriesOf(run), ResolveEntry(o) # NoPath
      PROVE  \/ o.access = "write" /\ ResolveEntry(o) \in OlderRoots(leg)
             \/ /\ o.access = "read"
                /\ \/ ResolveEntry(o) = Root
                   \/ \E r \in OlderRoots(leg) :
                        ResolveEntry(o) \in Range(DefaultReadOnly(r, r = Cwd))
  <2>1. CASE o = Entry("root", <<>>, "read")
    BY <1>3, <1>4, <2>1
  <2>2. CASE o = Entry("project", <<>>, "write")
    BY <1>3, <1>4, <2>2 DEF OlderRoots
  <2>3. CASE leg.slashTmp /\ o = Entry("slash_tmp", <<>>, "write")
    BY <1>3, <1>4, <1>7, <2>3 DEF OlderRoots
  <2>4. CASE leg.tmpdir /\ o = Entry("tmpdir", <<>>, "write")
    BY <1>3, <1>4, <1>7, <2>4 DEF OlderRoots
  <2>5. CASE \E r \in Range(leg.roots) : o = PathEntry(r, "write")
    BY <1>3, <1>4, <2>5 DEF OlderRoots
  <2>6. CASE \E r \in OlderRoots(leg) : \E x \in Range(DefaultReadOnly(r, r = Cwd)) :
               o = PathEntry(x, "read")
    BY <1>3, <1>4, <2>6
  <2> QED
    BY <1>1, <1>2, <2>1, <2>2, <2>3, <2>4, <2>5, <2>6
<1>8. DenyEntries(run) = {}
  <2>1. \A e \in EntriesOf(run) : e.access \in {"read", "write"}
    BY <1>1, <1>2, <1>4
  <2> QED
    BY <2>1 DEF DenyEntries
<1> QED
  BY <1>6, <1>7, <1>8 DEF Resolved, run

\* The runtime form has the same roots as the older policy.
LEMMA RuntimeRoots ==
  ASSUME NEW leg, leg.type = "workspace", leg.roots \in Seq(Seq(Names)),
         ~HasFullWrite(LegacyRuntime(leg))
  PROVE  /\ \A r \in OlderRoots(leg) :
              WritableRoot(LegacyRuntime(leg), r) \in WritableRoots(LegacyRuntime(leg))
         /\ \A w \in WritableRoots(LegacyRuntime(leg)) :
              /\ w.root \in OlderRoots(leg) /\ w.root \in Seq(Names)
              /\ w = WritableRoot(LegacyRuntime(leg), w.root)
         /\ \A r : WritableRoot(LegacyRuntime(leg), r).root = r
         /\ \A l \in LegacyWritableRoots(leg) :
              /\ l.root \in OlderRoots(leg) /\ l.names = {}
              /\ l.readOnly = Range(DefaultReadOnly(l.root, l.root = Cwd))
         /\ \A r \in OlderRoots(leg) : \E l \in LegacyWritableRoots(leg) : l.root = r
<1> DEFINE run == LegacyRuntime(leg)
           L(r) == [root |-> r, names |-> {}, readOnly |-> Range(DefaultReadOnly(r, r = Cwd))]
<1>1. run \in [kind : Kinds, entries : Seq(AllEntries)] /\ run.kind = "restricted"
  BY RuntimeEntries
<1>2. /\ DenyEntries(run) = {}
      /\ \A r : r \in OlderRoots(leg) =>
           r \in Seq(Names) /\ [at |-> r, access |-> "write"] \in Resolved(run)
      /\ \A e \in Resolved(run) : e.access = "write" => e.at \in OlderRoots(leg)
  BY RuntimeResolves
<1>3. LegacyWritableRoots(leg) = {L(r) : r \in OlderRoots(leg)}
  BY DEF LegacyWritableRoots, OlderRoots
<1>4. \A r : /\ L(r).root = r /\ L(r).names = {}
             /\ L(r).readOnly = Range(DefaultReadOnly(r, r = Cwd))
  OBVIOUS
<1> HIDE DEF L
<1>5. ~HasFullWrite(run)
  OBVIOUS
<1> HIDE DEF run
<1>6. ASSUME NEW r \in OlderRoots(leg) PROVE WritableRoot(run, r) \in WritableRoots(run)
  <2> DEFINE grant == [at |-> r, access |-> "write"]
  <2>1. CanWrite(run, r)
    BY <1>1, <1>2, WriteEntryTakesEffect
  <2>2. grant \in Resolved(run) /\ grant.at = r /\ grant.access = "write"
    BY <1>2
  <2> HIDE DEF grant
  <2> QED
    BY <1>1, <1>5, <2>1, <2>2, WritableRootsAre
<1>7. ASSUME NEW w \in WritableRoots(run)
      PROVE  w.root \in OlderRoots(leg) /\ w.root \in Seq(Names) /\ w = WritableRoot(run, w.root)
  <2>1. /\ w = WritableRoot(run, w.root) /\ w.root \in Seq(Names)
        /\ [at |-> w.root, access |-> "write"] \in Resolved(run)
    BY <1>1, <1>5, WritableRootsAre
  <2> QED
    BY <1>2, <2>1
<1>8. \A r : WritableRoot(run, r).root = r
  BY DEF WritableRoot
<1>9. \A l \in LegacyWritableRoots(leg) :
        /\ l.root \in OlderRoots(leg) /\ l.names = {}
        /\ l.readOnly = Range(DefaultReadOnly(l.root, l.root = Cwd))
  BY <1>3, <1>4
<1>10. \A r \in OlderRoots(leg) : \E l \in LegacyWritableRoots(leg) : l.root = r
  BY <1>3, <1>4
<1> QED
  BY <1>6, <1>7, <1>8, <1>9, <1>10 DEF run

\* An entry for a path that can be written means that a write entry for it decides.
LEMMA ExplicitDecides ==
  ASSUME NEW pol \in [kind : Kinds, entries : Seq(AllEntries)], pol.kind = "restricted",
         NEW x \in Seq(Names), NEW e \in Resolved(pol), e.at = x, CanWrite(pol, x)
  PROVE  \E d \in Resolved(pol) : d.at = x /\ d.access = "write"
<1>1. e \in Covering(pol, x)
  BY PrefixSelf DEF Covering
<1>2. PICK d \in Covering(pol, x) :
        /\ d \in Resolved(pol) /\ d.at \in Seq(Names) /\ d.access \in Accesses
        /\ IsPrefix(d.at, x) /\ Len(d.at) \in 0..Len(x)
        /\ ResolveAccess(pol, x) = d.access /\ ResolveAccess(pol, d.at) = d.access
        /\ \A f \in Covering(pol, x) : /\ ~Outranks(f, d) /\ f.at \in Seq(Names)
                                       /\ Len(f.at) \in 0..Len(d.at)
  BY <1>1, DecidingEntry
<1>3. Len(x) \in 0..Len(d.at)
  BY <1>1, <1>2
<1>4. Len(d.at) = Len(x)
  BY <1>2, <1>3
<1> QED
  BY <1>2, <1>4, PrefixSelf DEF CanWrite

\* The deepest root over p in the older policy allows what that of the runtime form
\* allows: what the one carves out, the other does too, but for what a .git file
\* points to.  A protected name of the runtime form is among the defaults of the older
\* policy's root, or direct enforcement would be needed.
LEMMA OlderRootsMatch ==
  ASSUME NEW leg, leg.type = "workspace", leg.roots \in Seq(Seq(Names)),
         ~HasFullWrite(LegacyRuntime(leg)),
         ~NamesNeedDirect(LegacyRuntime(leg), leg),
         NEW p \in Seq(Names), ~OnlyRootsProtect(p)
  PROVE  RootsAllowWrite(LegacyWritableRoots(leg), p)
           <=> RootsAllowWrite(WritableRoots(LegacyRuntime(leg)), p)
<1> DEFINE run == LegacyRuntime(leg)
           W == WritableRoots(run)
           L == LegacyWritableRoots(leg)
           R == OlderRoots(leg)
           def(r) == Range(DefaultReadOnly(r, r = Cwd))
<1>1. run \in [kind : Kinds, entries : Seq(AllEntries)] /\ run.kind = "restricted"
  BY RuntimeEntries
<1>2. /\ \A r \in R : /\ r \in Seq(Names)
                      /\ [at |-> r, access |-> "write"] \in Resolved(run)
      /\ \A e \in Resolved(run) :
           \/ e.access = "write" /\ e.at \in R
           \/ e.access = "read" /\ (e.at = Root \/ \E r \in R : e.at \in def(r))
  BY RuntimeResolves
<1>3. /\ \A r \in R : \E w \in W : w.root = r
      /\ \A w \in W : w.root \in R
      /\ \A l \in L : l.root \in R /\ l.names = {} /\ l.readOnly = def(l.root)
      /\ \A r \in R : \E l \in L : l.root = r
  BY RuntimeRoots
<1>4. \A w \in W : /\ w.readOnly = (def(w.root) \ {e.at : e \in Resolved(run)})
                                     \cup Carveouts(run, w.root)
                   /\ w.names = {n \in MetaNames : ~CanWrite(run, Append(w.root, n))}
  BY <1>1, RootExcludes
<1>5. \A r \in R : \A x \in def(r) :
        \/ x = GitDir /\ GitDir \in Seq(Names)
        \/ \E n \in MetaNames : x = Append(r, n)
  <2> SUFFICES ASSUME NEW r \in R, NEW x \in def(r)
               PROVE  \/ x = GitDir /\ GitDir \in Seq(Names)
                      \/ \E n \in MetaNames : x = Append(r, n)
    OBVIOUS
  <2> DEFINE protect == r = Cwd
  <2>1. r \in Seq(Names) /\ protect \in BOOLEAN
    BY <1>2
  <2>2. x \in Range(DefaultReadOnly(r, protect))
    OBVIOUS
  <2> HIDE DEF protect, def
  <2>3. \/ x = GitDir /\ Exists(GitDir)
        \/ x = Append(r, Git) \/ x = Append(r, Agents) \/ x = Append(r, Codex)
    BY <2>1, <2>2, DefaultReadOnlyFacts
  <2>4. Exists(GitDir) => GitDir \in Seq(Names)
    BY PolicyAssumption DEF PolicyAssumption, Exists, HostKind
  <2> QED
    BY <2>3, <2>4 DEF MetaNames
<1>6. GitDir \in Seq(Names) => ~IsPrefix(GitDir, p)
  BY PolicyAssumption DEF OnlyRootsProtect, UnderGitDir, PolicyAssumption
<1>7. ~NamesNeedDirect(run, leg)
  OBVIOUS
<1> DEFINE Deepest(r) == IsPrefix(r, p) /\ \A s \in R : IsPrefix(s, p) => Len(s) <= Len(r)
<1> HIDE DEF run, W, L, R, def
<1>8. MetaNames \subseteq Names
  BY PolicyAssumption DEF PolicyAssumption, MetaNames
<1>9. ASSUME NEW r \in R, Deepest(r), NEW w \in W, w.root = r, NEW l \in L, l.root = r,
             IsPathWritable(l, p)
      PROVE  IsPathWritable(w, p)
  <2>1. r \in Seq(Names) /\ IsPrefix(r, p) /\ \A x \in def(r) : ~IsPrefix(x, p)
    <3>1. l.readOnly = def(r)
      BY <1>3, <1>9
    <3>2. IsPrefix(l.root, p) /\ \A x \in l.readOnly : ~IsPrefix(x, p)
      BY <1>9 DEF IsPathWritable
    <3>3. r \in Seq(Names)
      BY <1>2
    <3> QED
      BY <1>9, <3>1, <3>2, <3>3
  <2>2. ASSUME NEW x \in Carveouts(run, r), IsPrefix(x, p) PROVE FALSE
    <3>1. PICK e \in Resolved(run) : e.at = x /\ e.access # "write" /\ IsStrictPrefix(r, x)
      BY DEF Carveouts
    <3>2. IsPrefix(r, x) /\ r # x
      BY <3>1 DEF IsStrictPrefix
    <3>3. x # Root
      <4> SUFFICES ASSUME x = Root PROVE FALSE
        OBVIOUS
      <4>1. Root \in Seq(Names) /\ Len(Root) = 0
        BY DEF Root
      <4>2. IsPrefix(Root, r) /\ IsPrefix(r, Root)
        BY <2>1, <3>2, PrefixFacts
      <4>3. Len(r) \in 0..Len(Root)
        BY <2>1, <4>1, <4>2, PrefixFacts
      <4>4. Len(r) = Len(Root)
        BY <4>1, <4>3
      <4> QED
        BY <2>1, <3>2, <4>1, <4>2, <4>4, PrefixSelf
    <3>4. PICK s \in R : x \in def(s)
      BY <1>2, <3>1, <3>3
    <3>5. CASE x = GitDir /\ GitDir \in Seq(Names)
      BY <1>6, <2>2, <3>5
    <3>6. CASE \E n \in MetaNames : x = Append(s, n)
      <4>1. PICK n \in MetaNames : x = Append(s, n)
        BY <3>6
      <4>2. s \in Seq(Names) /\ n \in Names
        BY <1>2, <1>8
      <4>3. x \in Seq(Names) /\ Len(x) = Len(s) + 1 /\ IsPrefix(s, p)
        BY <2>2, <4>1, <4>2, Appended
      <4>4. Len(s) <= Len(r)
        BY <1>9, <4>3 DEF Deepest
      <4>5. Len(r) \in 0..Len(x) /\ Len(r) # Len(x)
        BY <2>1, <3>2, <4>3, PrefixFacts, PrefixSelf
      <4>6. Len(s) = Len(r)
        BY <4>2, <4>3, <4>4, <4>5
      <4>7. IsPrefix(s, r)
        BY <2>1, <4>2, <4>3, <4>4, PrefixOrder
      <4>8. s = r
        BY <2>1, <4>2, <4>6, <4>7, PrefixSelf
      <4> QED
        BY <2>1, <2>2, <3>4, <4>8
    <3> QED
      BY <1>5, <3>4, <3>5, <3>6
  <2>3. ASSUME p # r, p[Len(r) + 1] \in w.names PROVE FALSE
    <3>1. PICK k \in L : k.root = w.root /\ Append(w.root, p[Len(r) + 1]) \in k.readOnly
      BY <1>7, <2>3 DEF NamesNeedDirect, W, L
    <3>2. Append(r, p[Len(r) + 1]) \in def(r)
      BY <1>3, <1>9, <3>1
    <3>3. IsPrefix(Append(r, p[Len(r) + 1]), p)
      BY <2>1, <2>3, Appended
    <3> QED
      BY <2>1, <3>2, <3>3
  <2>4. \A x \in w.readOnly : ~IsPrefix(x, p)
    BY <1>4, <1>9, <2>1, <2>2
  <2> QED
    BY <1>9, <2>1, <2>3, <2>4 DEF IsPathWritable
<1>10. ASSUME NEW r \in R, Deepest(r), NEW w \in W, w.root = r, NEW l \in L, l.root = r,
              IsPathWritable(w, p)
       PROVE  IsPathWritable(l, p)
  <2>1. /\ r \in Seq(Names) /\ IsPrefix(r, p) /\ \A x \in w.readOnly : ~IsPrefix(x, p)
        /\ p = r \/ p[Len(r) + 1] \notin w.names
    BY <1>2, <1>10 DEF IsPathWritable
  <2>2. ASSUME NEW x \in def(r), IsPrefix(x, p) PROVE FALSE
    <3>1. CASE x = GitDir /\ GitDir \in Seq(Names)
      BY <1>6, <2>2, <3>1
    <3>2. CASE \E n \in MetaNames : x = Append(r, n)
      <4>1. PICK n \in MetaNames : x = Append(r, n)
        BY <3>2
      <4>2. /\ x \in Seq(Names) /\ Len(x) = Len(r) + 1 /\ p # r /\ p[Len(r) + 1] = n
        BY <1>8, <2>1, <2>2, <4>1, Appended
      <4>3. CanWrite(run, x)
        BY <1>4, <1>10, <2>1, <4>1, <4>2
      <4>4. PICK e \in Resolved(run) : e.at = x
        BY <1>4, <1>10, <2>1, <2>2
      <4>5. \E d \in Resolved(run) : d.at = x /\ d.access = "write"
        BY <1>1, <4>2, <4>3, <4>4, ExplicitDecides
      <4>6. x \in R
        BY <1>2, <4>5
      <4>7. Len(x) <= Len(r) /\ Len(r) \in Nat
        BY <1>10, <2>1, <2>2, <4>6 DEF Deepest
      <4> QED
        BY <4>2, <4>7
    <3> QED
      BY <1>5, <3>1, <3>2
  <2> QED
    BY <1>3, <1>10, <2>1, <2>2 DEF IsPathWritable
<1>11. /\ RootsAllowWrite(L, p) <=> \E l \in L : IsPathWritable(l, p) /\ Deepest(l.root)
       /\ RootsAllowWrite(W, p) <=> \E w \in W : IsPathWritable(w, p) /\ Deepest(w.root)
  <2>1. \A v : IsPathWritable(v, p) => IsPrefix(v.root, p)
    BY DEF IsPathWritable
  <2>2. \A r : (\A v \in L : IsPrefix(v.root, p) => Len(v.root) <= Len(r))
                <=> (\A s \in R : IsPrefix(s, p) => Len(s) <= Len(r))
    BY <1>3
  <2>3. \A r : (\A v \in W : IsPrefix(v.root, p) => Len(v.root) <= Len(r))
                <=> (\A s \in R : IsPrefix(s, p) => Len(s) <= Len(r))
    BY <1>3
  <2> QED
    BY <2>1, <2>2, <2>3 DEF RootsAllowWrite, Deepest
<1> HIDE DEF Deepest
<1>12. ASSUME RootsAllowWrite(L, p) PROVE RootsAllowWrite(W, p)
  <2>1. PICK l \in L : IsPathWritable(l, p) /\ Deepest(l.root)
    BY <1>11, <1>12
  <2>2. PICK w \in W : w.root = l.root
    BY <1>3
  <2> QED
    BY <1>3, <1>9, <1>11, <2>1, <2>2
<1>13. ASSUME RootsAllowWrite(W, p) PROVE RootsAllowWrite(L, p)
  <2>1. PICK w \in W : IsPathWritable(w, p) /\ Deepest(w.root)
    BY <1>11, <1>13
  <2>2. PICK l \in L : l.root = w.root
    BY <1>3
  <2> QED
    BY <1>3, <1>10, <1>11, <2>1, <2>2
<1> QED
  BY <1>12, <1>13 DEF W, L, run

\* What to_legacy_sandbox_policy makes, where direct enforcement is not needed
LEMMA OlderPolicyMade ==
  ASSUME NEW pol \in [kind : Kinds, entries : Seq(AllEntries)], NEW network \in BOOLEAN,
         ~NeedsDirect(pol, network)
  PROVE  LET leg == ToLegacy(pol, network)
         IN /\ HasFullWrite(pol) => leg.type \in {"full", "external"}
            /\ ~HasFullWrite(pol) => leg.type \in {"read", "workspace"}
            /\ leg.type = "workspace" => leg.roots \in Seq(Seq(Names))
<1> DEFINE leg == ToLegacy(pol, network)
           roots == WorkspaceRoots(pol.entries)
<1>1. \A type : Legacy(type).type = type
  BY DEF Legacy
<1>2. \A rs, s, t : /\ WorkspaceWrite(rs, s, t).type = "workspace"
                    /\ WorkspaceWrite(rs, s, t).roots = rs
  BY DEF WorkspaceWrite
<1>3. roots \in Seq(Seq(Names))
  <2>1. pol.entries \in Seq(AllEntries)
    OBVIOUS
  <2> QED
    BY <2>1, WorkspaceRootsTyped
<1>4. \/ leg = Legacy("external") /\ (pol.kind = "external" \/ HasFullWrite(pol))
      \/ leg = Legacy("full") /\ HasFullWrite(pol)
      \/ ~HasFullWrite(pol) /\ \E s, t : leg = WorkspaceWrite(roots, s, t)
      \/ ~HasFullWrite(pol) /\ (leg = Legacy("error") \/ leg = Legacy("read"))
  BY DEF ToLegacy
<1> HIDE DEF roots
<1>5. pol.kind # "restricted" => HasFullWrite(pol)
  BY DEF HasFullWrite
<1>6. pol.kind = "restricted" => leg.type # "error"
  BY DEF NeedsDirect
<1> HIDE DEF leg
<1>7. /\ HasFullWrite(pol) => leg.type \in {"full", "external"}
      /\ ~HasFullWrite(pol) => leg.type \in {"read", "workspace"}
      /\ leg.type = "workspace" => leg.roots \in Seq(Seq(Names))
  <2>1. CASE leg = Legacy("external") /\ (pol.kind = "external" \/ HasFullWrite(pol))
    BY <1>1, <1>5, <2>1
  <2>2. CASE leg = Legacy("full") /\ HasFullWrite(pol)
    BY <1>1, <2>2
  <2>3. CASE ~HasFullWrite(pol) /\ \E s, t : leg = WorkspaceWrite(roots, s, t)
    BY <1>2, <1>3, <2>3
  <2>4. CASE ~HasFullWrite(pol) /\ (leg = Legacy("error") \/ leg = Legacy("read"))
    BY <1>1, <1>5, <1>6, <2>4
  <2> QED
    BY <1>4, <2>1, <2>2, <2>3, <2>4
<1> QED
  BY <1>7 DEF leg

\* The older policy, its runtime form and its roots decide as the policy does, unless
\* direct enforcement is needed: the writable roots are the same by the comparison of
\* signatures, and roots determine the decisions of both policies.
LEMMA OlderPolicyDecides ==
  ASSUME NEW pol \in [kind : Kinds, entries : Seq(AllEntries)], NEW network \in BOOLEAN,
         ~NeedsDirect(pol, network), NEW p \in Seq(Names), ~UnderMissingTmp(p)
  PROVE  LET leg == ToLegacy(pol, network)
             runtime == LegacyRuntime(leg)
         IN /\ CanRead(pol, p) <=> CanRead(runtime, p)
            /\ OnlyRootsProtect(p) \/
                 /\ CanWrite(pol, p) <=> CanWrite(runtime, p)
                 /\ leg.type = "workspace" =>
                      (CanWrite(pol, p) <=> RootsAllowWrite(LegacyWritableRoots(leg), p))
<1> DEFINE leg == ToLegacy(pol, network)
           run == LegacyRuntime(leg)
           Matches == /\ CanRead(pol, p) <=> CanRead(run, p)
                      /\ OnlyRootsProtect(p) \/
                           /\ CanWrite(pol, p) <=> CanWrite(run, p)
                           /\ leg.type = "workspace" =>
                                (CanWrite(pol, p) <=> RootsAllowWrite(LegacyWritableRoots(leg), p))
<1>1. /\ HasFullWrite(pol) => leg.type \in {"full", "external"}
      /\ ~HasFullWrite(pol) => leg.type \in {"read", "workspace"}
      /\ leg.type = "workspace" => leg.roots \in Seq(Seq(Names))
  BY OlderPolicyMade
<1>2. pol.kind = "restricted" => ~NamesNeedDirect(pol, leg) /\ Signature(pol) = Signature(run)
  BY DEF NeedsDirect
<1> HIDE DEF leg
<1>3. CASE HasFullWrite(pol)
  <2>1. run \in {Unrestricted, External}
    BY <1>1, <1>3 DEF LegacyRuntime, FromLegacy
  <2>2. run.kind # "restricted"
    BY <2>1, Constructed
  <2> HIDE DEF run
  <2>3. CanRead(run, p) /\ CanWrite(run, p)
    BY <2>2 DEF CanRead, CanWrite, ResolveAccess, HasFullWrite
  <2>4. CanRead(pol, p)
    BY <1>3, FullWriteReadsAll
  <2>5. CanWrite(pol, p)
    BY <1>3, FullWriteMeansAll
  <2>6. leg.type # "workspace"
    BY <1>1, <1>3
  <2>7. Matches
    BY <2>3, <2>4, <2>5, <2>6
  <2> QED
    BY <2>7 DEF leg, run
<1>4. CASE ~HasFullWrite(pol)
  <2>1. pol.kind = "restricted"
    BY <1>4 DEF HasFullWrite
  <2>2. run \in [kind : Kinds, entries : Seq(AllEntries)]
    <3>1. CASE leg.type = "workspace"
      BY <1>1, <3>1, RuntimeEntries
    <3>2. CASE leg.type = "read"
      <4>1. run = Restricted(<<Entry("root", <<>>, "read")>>)
        BY <3>2 DEF LegacyRuntime, FromLegacy
      <4>2. <<Entry("root", <<>>, "read")>> \in Seq(AllEntries)
        <5>1. Entry("root", <<>>, "read") \in AllEntries
          BY OwnEntries
        <5> QED
          BY <5>1
      <4> HIDE DEF run
      <4>3. run \in Policies
        BY <4>1, <4>2, Constructed, Zenon
      <4> QED
        BY <4>3 DEF Policies
    <3> QED
      BY <1>1, <1>4, <3>1, <3>2
  <2> HIDE DEF run
  <2>3. Signature(pol) = Signature(run)
    BY <1>2, <2>1
  <2>4. /\ HasFullRead(pol) = HasFullRead(run) /\ HasFullWrite(pol) = HasFullWrite(run)
        /\ ReadableRoots(pol) = ReadableRoots(run) /\ WritableRoots(pol) = WritableRoots(run)
        /\ UnreadableRoots(pol) = UnreadableRoots(run)
    <3>1. \A x : /\ Signature(x).fullRead = HasFullRead(x)
                 /\ Signature(x).fullWrite = HasFullWrite(x)
                 /\ Signature(x).readable = ReadableRoots(x)
                 /\ Signature(x).writable = WritableRoots(x)
                 /\ Signature(x).unreadable = UnreadableRoots(x)
      BY DEF Signature
    <3> QED
      BY <2>3, <3>1
  <2>5. ReadRules(pol) = ReadRules(run)
    BY <2>4 DEF ReadRules
  <2>6. CanRead(pol, p) <=> CanRead(run, p)
    BY <2>2, <2>5, ReadRulesMatch
  <2>7. ~HasFullWrite(run)
    BY <1>4, <2>4
  <2>8. \/ OnlyRootsProtect(p)
        \/ /\ CanWrite(pol, p) <=> RootsAllowWrite(WritableRoots(pol), p)
           /\ CanWrite(run, p) <=> RootsAllowWrite(WritableRoots(run), p)
    BY <1>4, <2>2, <2>7, RootsMatch
  <2>9. ASSUME leg.type = "workspace", ~OnlyRootsProtect(p)
        PROVE  RootsAllowWrite(LegacyWritableRoots(leg), p)
                 <=> RootsAllowWrite(WritableRoots(run), p)
    <3>1. ~NamesNeedDirect(run, leg)
      BY <1>2, <2>1, <2>4 DEF NamesNeedDirect
    <3> QED
      BY <1>1, <2>7, <2>9, <3>1, OlderRootsMatch DEF run
  <2>10. Matches
    BY <2>4, <2>6, <2>8, <2>9
  <2> QED
    BY <2>10 DEF leg, run
<1> QED
  BY <1>3, <1>4

\* Wherever needs_direct_runtime_enforcement says no, every reachable policy is enforced
\* the same by the older policy that stands for it, but for what only the defaults of a
\* root protect.
THEOREM OlderAlwaysEnforcesTheSame == Spec => []LegacyEnforcesTheSame
<1>1. TypeOK => LegacyEnforcesTheSame
  <2> SUFFICES ASSUME TypeOK PROVE LegacyEnforcesTheSame
    OBVIOUS
  <2>1. /\ policy \in [kind : Kinds, entries : Seq(AllEntries)]
        /\ \A p \in Tree : p \in Seq(Names)
    BY PolicyAssumption DEF TypeOK, PolicyAssumption
  <2> QED
    BY <2>1, OlderPolicyDecides DEF LegacyEnforcesTheSame
<1> QED
  BY <1>1, TypeCorrect, PTL

==============================================================================
