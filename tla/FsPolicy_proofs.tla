---------------------------- MODULE FsPolicy_proofs ----------------------------
(***************************************************************************)
(* Proofs about the decisions of a policy, for every set of paths and       *)
(* entries.                                                                 *)
(*                                                                         *)
(* A decision is a CHOOSE among the entries that cover a path, so it means   *)
(* something only when one of them outranks all others or ties: Strongest   *)
(* proves that, and the theorems about single decisions rest on it.         *)
(***************************************************************************)
EXTENDS FsPolicy, WellFoundedInduction, TLAPS

\* What resolve_entry_path makes of an entry
ResolvedEntries == [at : Seq(Names), access : Accesses]

\* The entries that cover p: what resolve_access_with_cwd chooses from
Covering(pol, p) == {e \in Resolved(pol) : IsPrefix(e.at, p)}

\* A set of natural numbers has a least one.
LEMMA LeastNatural ==
  ASSUME NEW T \in SUBSET Nat, T # {}
  PROVE  \E m \in T : \A k \in T : m <= k
<1>1. \E m \in T : \A k \in T : ~(<<k, m>> \in OpToRel(<, Nat))
  BY NatLessThanWellFounded, WFMin, Zenon
<1>2. PICK m \in T : \A k \in T : ~(<<k, m>> \in OpToRel(<, Nat))
  BY <1>1
<1>3. \A k \in T : ~(k < m)
  BY <1>2 DEF OpToRel
<1>4. m \in Nat /\ \A k \in T : k \in Nat
  OBVIOUS
<1>5. \A k \in T : m <= k
  BY <1>3, <1>4
<1> QED
  BY <1>5

-----------------------------------------------------------------------------
(* Lists that are pushed to, one entry after another                        *)

\* Induction over the positions of a list, on the set of those where it holds.
LEMMA ListInduction ==
  ASSUME NEW N \in Nat, NEW Good, 0 \in Good, \A n \in 1..N : n - 1 \in Good => n \in Good
  PROVE  \A n \in 0..N : n \in Good
<1> DEFINE bad == (0..N) \ Good
<1> SUFFICES ASSUME bad # {} PROVE FALSE
  OBVIOUS
<1>1. PICK m \in bad : \A k \in bad : m <= k
  <2>1. bad \in SUBSET Nat
    OBVIOUS
  <2> HIDE DEF bad
  <2> QED
    BY <2>1, LeastNatural
<1>2. m \in 1..N
  BY <1>1
<1>3. m - 1 \in 0..N /\ ~(m <= m - 1)
  BY <1>2
<1>4. m - 1 \in Good
  BY <1>1, <1>3
<1> QED
  BY <1>1, <1>2, <1>4

\* step[n] makes the n-th value of a recursive definition from the one before it;
\* f is what they make of the positions of a list.
Steps(N, V) == [1..N -> [V -> V]]
Follows(f, N, V, base, step) ==
  /\ f \in [0..N -> V]
  /\ f[0] = base
  /\ \A i \in 1..N : f[i] = step[i][f[i - 1]]

\* A recursive definition over the positions of a list defines a function.
LEMMA Recursion ==
  ASSUME NEW N \in Nat, NEW V, NEW base \in V, NEW step \in Steps(N, V)
  PROVE  \E f : Follows(f, N, V, base, step)
<1>1. step \in [1..N -> [V -> V]]
  BY DEF Steps
<1> DEFINE Upto(n, f) == f[0] = base /\ \A i \in 1..n : f[i] = step[i][f[i - 1]]
           Good == {n \in 0..N : \E f \in [0..n -> V] : Upto(n, f)}
<1>2. 0 \in Good
  <2> DEFINE f == [i \in 0..0 |-> base]
  <2>1. f \in [0..0 -> V] /\ f[0] = base /\ 1..0 = {} /\ 0 \in 0..N
    OBVIOUS
  <2> HIDE DEF f
  <2> QED
    BY <2>1
<1>3. ASSUME NEW n \in 1..N, n - 1 \in Good
      PROVE  n \in Good
  <2>1. PICK f \in [0..(n - 1) -> V] : Upto(n - 1, f)
    BY <1>3
  <2> DEFINE g == [i \in 0..n |-> IF i = n THEN step[n][f[n - 1]] ELSE f[i]]
  <2>2. n - 1 \in 0..(n - 1) /\ n \in 0..N /\ 0 \in 0..(n - 1) /\ n # 0
    OBVIOUS
  <2>3. \A i \in 0..n : i = n \/ i \in 0..(n - 1)
    OBVIOUS
  <2>4. step[n][f[n - 1]] \in V
    BY <1>1, <2>2
  <2>5. g \in [0..n -> V]
    BY <2>3, <2>4
  <2>6. g[0] = base
    BY <2>1, <2>2
  <2>7. ASSUME NEW i \in 1..n PROVE g[i] = step[i][g[i - 1]]
    <3>1. i \in 0..n /\ i - 1 \in 0..n /\ i - 1 # n /\ (i = n \/ i \in 1..(n - 1))
      OBVIOUS
    <3>2. g[i - 1] = f[i - 1]
      BY <3>1
    <3>3. CASE i = n
      BY <3>1, <3>2, <3>3
    <3>4. CASE i \in 1..(n - 1)
      <4>1. i # n
        BY <3>4
      <4>2. g[i] = f[i]
        BY <3>1, <4>1
      <4> QED
        BY <2>1, <3>2, <3>4, <4>2
    <3> QED
      BY <3>1, <3>3, <3>4
  <2> HIDE DEF g
  <2>8. Upto(n, g)
    BY <2>6, <2>7
  <2> QED
    BY <2>2, <2>5, <2>8
<1> HIDE DEF Good
<1>4. N \in Good
  <2>1. N \in 0..N
    OBVIOUS
  <2> QED
    BY <1>2, <1>3, <2>1, ListInduction
<1> QED
  BY <1>4 DEF Good, Follows

\* What one more entry adds to a list.
LEMMA AppendRange ==
  ASSUME NEW S, NEW s \in Seq(S), NEW e \in S
  PROVE  Append(s, e) \in Seq(S) /\ Range(Append(s, e)) = Range(s) \cup {e}
<1>1. /\ DOMAIN Append(s, e) = 1..(Len(s) + 1) /\ DOMAIN s = 1..Len(s)
      /\ Len(s) \in Nat /\ Append(s, e)[Len(s) + 1] = e
      /\ \A n \in 1..Len(s) : Append(s, e)[n] = s[n]
  OBVIOUS
<1>2. \A n : n \in 1..(Len(s) + 1) <=> n \in 1..Len(s) \/ n = Len(s) + 1
  BY <1>1
<1>3. Range(Append(s, e)) \subseteq Range(s) \cup {e}
  BY <1>1, <1>2, Zenon DEF Range
<1>4. Range(s) \subseteq Range(Append(s, e)) /\ e \in Range(Append(s, e))
  BY <1>1, <1>2, Zenon DEF Range
<1>5. Append(s, e) \in Seq(S)
  OBVIOUS
<1> QED
  BY <1>3, <1>4, <1>5

\* What two lists hold together.
LEMMA ConcatRange ==
  ASSUME NEW S, NEW s \in Seq(S), NEW t \in Seq(S)
  PROVE  s \o t \in Seq(S) /\ Range(s \o t) = Range(s) \cup Range(t)
<1>1. /\ DOMAIN (s \o t) = 1..(Len(s) + Len(t)) /\ DOMAIN s = 1..Len(s) /\ DOMAIN t = 1..Len(t)
      /\ Len(s) \in Nat /\ Len(t) \in Nat
      /\ \A n \in 1..Len(s) : (s \o t)[n] = s[n]
      /\ \A n \in 1..Len(t) : (s \o t)[Len(s) + n] = t[n]
  OBVIOUS
<1>2. ASSUME NEW n \in 1..(Len(s) + Len(t)) PROVE (s \o t)[n] \in Range(s) \cup Range(t)
  <2>1. n \in 1..Len(s) \/ \E m \in 1..Len(t) : n = Len(s) + m
    <3>1. ASSUME ~(n \in 1..Len(s)) PROVE n - Len(s) \in 1..Len(t) /\ n = Len(s) + (n - Len(s))
      BY <1>1, <3>1
    <3> QED
      BY <3>1
  <2> QED
    BY <1>1, <2>1 DEF Range
<1>3. ASSUME NEW n \in 1..Len(s) PROVE s[n] \in Range(s \o t)
  <2>1. n \in 1..(Len(s) + Len(t))
    BY <1>1
  <2> QED
    BY <1>1, <2>1 DEF Range
<1>4. ASSUME NEW n \in 1..Len(t) PROVE t[n] \in Range(s \o t)
  <2>1. Len(s) + n \in 1..(Len(s) + Len(t))
    BY <1>1
  <2> QED
    BY <1>1, <2>1 DEF Range
<1>5. s \o t \in Seq(S)
  OBVIOUS
<1>6. Range(s \o t) \subseteq Range(s) \cup Range(t)
  BY <1>1, <1>2 DEF Range
<1>7. Range(s) \subseteq Range(s \o t) /\ Range(t) \subseteq Range(s \o t)
  BY <1>1, <1>3, <1>4 DEF Range
<1> QED
  BY <1>5, <1>6, <1>7

-----------------------------------------------------------------------------
(* Decisions                                                                *)

\* The root is a prefix of every path, and a prefix is no longer than the path.
LEMMA PrefixFacts ==
  ASSUME NEW p \in Seq(Names)
  PROVE  /\ IsPrefix(Root, p)
         /\ \A q \in Seq(Names) : IsPrefix(q, p) => Len(q) \in 0..Len(p)
<1>1. IsPrefix(Root, p)
  <2>1. Len(Root) = 0 /\ Len(p) \in Nat
    BY DEF Root
  <2>2. SubSeq(Root, 1, 0) = << >> /\ SubSeq(p, 1, 0) = << >>
    BY SMT DEF Root
  <2> QED
    BY <2>1, <2>2 DEF IsPrefix
<1>2. \A q \in Seq(Names) : IsPrefix(q, p) => Len(q) \in 0..Len(p)
  BY DEF IsPrefix
<1> QED
  BY <1>1, <1>2

\* Whatever is resolved is a path with an access mode.
LEMMA ResolvedTypes ==
  ASSUME NEW pol \in [kind : Kinds, entries : Seq(AllEntries)]
  PROVE  /\ EntriesOf(pol) \subseteq AllEntries
         /\ Resolved(pol) \subseteq ResolvedEntries
<1>1. EntriesOf(pol) \subseteq AllEntries
  BY DEF EntriesOf, Range
<1>2. \A e \in AllEntries : ResolveEntry(e) # NoPath => ResolveEntry(e) \in Seq(Names)
  <2> SUFFICES ASSUME NEW e \in AllEntries, ResolveEntry(e) # NoPath
               PROVE  ResolveEntry(e) \in Seq(Names)
    OBVIOUS
  <2>1. e.at \in Seq(Names) /\ Root \in Seq(Names)
    BY DEF AllEntries, Root
  <2>2. Cwd \in Seq(Names) /\ SlashTmp \in Seq(Names)
        /\ (TmpDir \in Seq(Names) \/ TmpDir = NoPath)
    BY PolicyAssumption DEF PolicyAssumption
  <2>3. Cwd \o e.at \in Seq(Names)
    BY <2>1, <2>2
  <2>4. ResolveEntry(e) \in {e.at, Root, Cwd \o e.at, TmpDir, SlashTmp, NoPath}
    BY DEF ResolveEntry
  <2> QED
    BY <2>1, <2>2, <2>3, <2>4
<1>3. \A e \in AllEntries : e.access \in Accesses
  BY DEF AllEntries
<1> QED
  BY <1>1, <1>2, <1>3 DEF Resolved, ResolvedEntries

\* The measure of Strongest decreases where an entry outranks another.
LEMMA Measure ==
  ASSUME NEW n \in Nat, NEW a \in 0..n, NEW b \in 0..n, NEW x \in 0..2, NEW y \in 0..2,
         3 * (n - a) + (2 - x) <= 3 * (n - b) + (2 - y)
  PROVE  ~(b > a \/ (b = a /\ y > x))
OBVIOUS

\* Some covering entry is outranked by none, so that the CHOOSE of
\* resolve_access_with_cwd has something to choose: the longest paths are bounded
\* by the length of p, and the access modes are ordered.
LEMMA Strongest ==
  ASSUME NEW p \in Seq(Names), NEW S \in SUBSET ResolvedEntries, S # {},
         \A e \in S : IsPrefix(e.at, p)
  PROVE  \E e \in S : \A f \in S : ~Outranks(f, e)
<1> DEFINE weakness(e) == 3 * (Len(p) - Len(e.at)) + (2 - Rank[e.access])
           W == {weakness(e) : e \in S}
<1>1. \A e \in S : Len(e.at) \in 0..Len(p) /\ Rank[e.access] \in 0..2
  <2>1. \A e \in S : e.at \in Seq(Names) /\ e.access \in Accesses
    BY DEF ResolvedEntries
  <2>2. \A y \in Accesses : Rank[y] \in 0..2
    BY DEF Accesses, Rank
  <2>3. \A e \in S : Len(e.at) \in 0..Len(p)
    BY <2>1, PrefixFacts
  <2> QED
    BY <2>1, <2>2, <2>3
<1>2. Len(p) \in Nat
  OBVIOUS
<1>3. \A e \in S : weakness(e) \in Nat
  BY <1>1, <1>2
<1>4. PICK m \in W : \A k \in W : m <= k
  <2>1. W \in SUBSET Nat /\ W # {}
    BY <1>3
  <2> QED
    BY <2>1, LeastNatural
<1>5. PICK e \in S : m = weakness(e)
  BY <1>4
<1>6. \A f \in S : weakness(e) <= weakness(f)
  BY <1>4, <1>5
<1>7. \A f \in S : ~Outranks(f, e)
  <2> SUFFICES ASSUME NEW f \in S, Outranks(f, e) PROVE FALSE
    OBVIOUS
  <2>1. /\ Len(e.at) \in 0..Len(p) /\ Rank[e.access] \in 0..2
        /\ Len(f.at) \in 0..Len(p) /\ Rank[f.access] \in 0..2
    BY <1>1
  <2>2. 3 * (Len(p) - Len(e.at)) + (2 - Rank[e.access])
          <= 3 * (Len(p) - Len(f.at)) + (2 - Rank[f.access])
    BY <1>6
  <2>3. \/ Len(f.at) > Len(e.at)
        \/ Len(f.at) = Len(e.at) /\ Rank[f.access] > Rank[e.access]
    BY DEF Outranks
  <2> QED
    BY <1>2, <2>1, <2>2, <2>3, Measure
<1> QED
  BY <1>7

\* resolve_access_with_cwd returns the access of an entry that covers the path and
\* that no covering entry outranks, whatever else is in the policy.
THEOREM DecisionIsStrongest ==
  ASSUME NEW pol \in [kind : Kinds, entries : Seq(AllEntries)], pol.kind = "restricted",
         NEW p \in Seq(Names), Covering(pol, p) # {}
  PROVE  \E e \in Covering(pol, p) :
           /\ ResolveAccess(pol, p) = e.access
           /\ \A f \in Covering(pol, p) : ~Outranks(f, e)
<1> DEFINE C == Covering(pol, p)
           strongest(e) == \A f \in C : ~Outranks(f, e)
           choice == CHOOSE e \in C : strongest(e)
<1>1. C \in SUBSET ResolvedEntries /\ \A e \in C : IsPrefix(e.at, p)
  BY ResolvedTypes DEF Covering
<1>2. \E e \in C : strongest(e)
  BY <1>1, Strongest
<1>3. choice \in C /\ strongest(choice)
  BY <1>2
<1>4. ResolveAccess(pol, p) = choice.access
  BY DEF ResolveAccess, Covering
<1> QED
  BY <1>3, <1>4

\* A denial holds for every path below it that no entry at or below the denied
\* path's own depth says more about: nothing at the same path can undo it.
THEOREM DenialWins ==
  ASSUME NEW pol \in [kind : Kinds, entries : Seq(AllEntries)], pol.kind = "restricted",
         NEW p \in Seq(Names), NEW d \in Covering(pol, p), d.access = "none",
         \A e \in Covering(pol, p) : Len(e.at) <= Len(d.at)
  PROVE  ~CanRead(pol, p)
<1>1. PICK e \in Covering(pol, p) :
        /\ ResolveAccess(pol, p) = e.access
        /\ \A f \in Covering(pol, p) : ~Outranks(f, e)
  BY DecisionIsStrongest
<1>2. e \in ResolvedEntries /\ d \in ResolvedEntries
  BY ResolvedTypes DEF Covering
<1>3. Len(e.at) \in Nat /\ Len(d.at) \in Nat
  BY <1>2 DEF ResolvedEntries
<1>4. Len(e.at) = Len(d.at) /\ ~(Rank[d.access] > Rank[e.access])
  BY <1>1, <1>3 DEF Outranks
<1>5. e.access = "none"
  BY <1>2, <1>4 DEF ResolvedEntries, Accesses, Rank
<1> QED
  BY <1>1, <1>5 DEF CanRead

\* Entries that share a target resolve to the same path, unless one of them is
\* :slash_tmp and /tmp is no directory.
LEMMA SharedTargets ==
  ASSUME NEW a \in AllEntries, NEW b \in AllEntries, SharesTarget(a, b),
         ResolveEntry(b) # NoPath
  PROVE  \/ ResolveEntry(a) = ResolveEntry(b)
         \/ ResolveEntry(b) = SlashTmp /\ ~IsDir(SlashTmp)
<1>1. CASE a.type = b.type /\ a.at = b.at
  BY <1>1 DEF ResolveEntry
<1>2. CASE a.type = "path" /\ b.type = "root" /\ a.at = Root
  BY <1>2 DEF ResolveEntry
<1>3. CASE a.type = "path" /\ b.type = "slash_tmp" /\ a.at = SlashTmp
  BY <1>3 DEF ResolveEntry
<1>4. CASE b.type = "path" /\ a.type = "root" /\ b.at = Root
  BY <1>4 DEF ResolveEntry
<1>5. CASE b.type = "path" /\ a.type = "slash_tmp" /\ b.at = SlashTmp
  BY <1>5 DEF ResolveEntry
<1> QED
  BY <1>1, <1>2, <1>3, <1>4, <1>5 DEF SharesTarget

\* An entry for the root of the file system covers every path.
LEMMA RootCovers ==
  ASSUME NEW pol \in [kind : Kinds, entries : Seq(AllEntries)],
         NEW r \in EntriesOf(pol), r.type = "root", NEW p \in Seq(Names)
  PROVE  [at |-> Root, access |-> r.access] \in Covering(pol, p)
<1>1. r \in AllEntries /\ ResolveEntry(r) = Root
  BY ResolvedTypes DEF ResolveEntry
<1>2. Root \in Seq(Names)
  BY DEF Root
<1>3. ResolveEntry(r) # NoPath
  BY <1>1, <1>2, PolicyAssumption DEF PolicyAssumption
<1>4. [at |-> Root, access |-> r.access] \in Resolved(pol)
  BY <1>1, <1>3 DEF Resolved
<1> QED
  BY <1>4, PrefixFacts DEF Covering

\* Where all of the disk can be read, no path is hidden: only a denial could hide
\* one, and there is none (has_full_disk_read_access).
THEOREM FullReadMeansAll ==
  ASSUME NEW pol \in [kind : Kinds, entries : Seq(AllEntries)], HasFullRead(pol),
         NEW p \in Seq(Names)
  PROVE  CanRead(pol, p)
<1>1. CASE pol.kind # "restricted"
  BY <1>1 DEF CanRead, ResolveAccess
<1>2. CASE pol.kind = "restricted"
  <2>1. PICK r \in EntriesOf(pol) : r.type = "root"
    BY <1>2 DEF HasFullRead, HasRootAccess
  <2>2. Covering(pol, p) # {}
    BY <2>1, RootCovers
  <2>3. PICK e \in Covering(pol, p) : ResolveAccess(pol, p) = e.access
    BY <1>2, <2>2, DecisionIsStrongest
  <2>4. DenyEntries(pol) = {}
    BY <1>2 DEF HasFullRead, HasDeniedRead
  <2>5. PICK o \in EntriesOf(pol) : o.access = e.access
    BY <2>3 DEF Covering, Resolved
  <2>6. e.access # "none"
    BY <2>4, <2>5 DEF DenyEntries
  <2> QED
    BY <2>3, <2>6 DEF CanRead
<1> QED
  BY <1>1, <1>2

\* Where all of the disk can be written, no path is refused, but for a /tmp that is
\* no directory: an entry that could refuse one narrows the writes, unless a
\* write entry of the same target outranks it (has_write_narrowing_entries).
THEOREM FullWriteMeansAll ==
  ASSUME NEW pol \in [kind : Kinds, entries : Seq(AllEntries)], HasFullWrite(pol),
         NEW p \in Seq(Names)
  PROVE  CanWrite(pol, p) \/ UnderMissingTmp(p)
<1>1. CASE pol.kind # "restricted"
  BY <1>1 DEF CanWrite, ResolveAccess
<1>2. CASE pol.kind = "restricted"
  <2> SUFFICES ASSUME ResolveAccess(pol, p) # "write" PROVE UnderMissingTmp(p)
    BY DEF CanWrite
  <2>1. PICK r \in EntriesOf(pol) : r.type = "root" /\ r.access = "write"
    BY <1>2 DEF HasFullWrite, HasRootAccess
  <2> DEFINE root == [at |-> Root, access |-> "write"]
  <2>2. root \in Covering(pol, p)
    BY <2>1, RootCovers
  <2>3. PICK e \in Covering(pol, p) :
          /\ ResolveAccess(pol, p) = e.access
          /\ \A f \in Covering(pol, p) : ~Outranks(f, e)
    BY <1>2, <2>2, DecisionIsStrongest
  <2>4. PICK o \in EntriesOf(pol) :
          ResolveEntry(o) # NoPath /\ e = [at |-> ResolveEntry(o), access |-> o.access]
    BY <2>3 DEF Covering, Resolved
  <2>5. /\ e \in ResolvedEntries /\ o \in AllEntries /\ o.access # "write"
        /\ o.access \in {"read", "none"} /\ e.access = o.access /\ e.at = ResolveEntry(o)
    BY <2>3, <2>4, ResolvedTypes DEF Covering, AllEntries, Accesses, Rank
  <2>6. ~NarrowsWrites(pol)
    BY <1>2 DEF HasFullWrite
  <2>7. o.type \notin {"glob", "minimal"}
    BY <2>4 DEF ResolveEntry
  <2>8. o.type # "root"
    <3> SUFFICES ASSUME o.type = "root" PROVE FALSE
      OBVIOUS
    <3>1. o.access = "read" /\ e.at = Root
      BY <2>5, <2>6 DEF NarrowsWrites, ResolveEntry
    <3>2. Outranks(root, e)
      BY <2>5, <3>1 DEF Outranks, Rank, Root
    <3> QED
      BY <2>2, <2>3, <3>2
  <2>9. WriteOverrides(pol, o)
    BY <2>5, <2>6, <2>7, <2>8 DEF NarrowsWrites
  <2>10. PICK c \in EntriesOf(pol) :
           c.access = "write" /\ Rank[c.access] > Rank[o.access] /\ SharesTarget(c, o)
    BY <2>9 DEF WriteOverrides
  <2>11. c \in AllEntries
    BY ResolvedTypes
  <2>12. CASE ResolveEntry(o) = SlashTmp /\ ~IsDir(SlashTmp)
    BY <2>3, <2>5, <2>12 DEF UnderMissingTmp, Covering
  <2>13. CASE ResolveEntry(c) = ResolveEntry(o)
    <3> DEFINE w == [at |-> ResolveEntry(c), access |-> c.access]
    <3>1. w \in Covering(pol, p)
      BY <2>3, <2>4, <2>13 DEF Covering, Resolved
    <3>2. Outranks(w, e)
      BY <2>5, <2>10, <2>13 DEF Outranks, ResolvedEntries
    <3> QED
      BY <2>3, <3>1, <3>2
  <2> QED
    BY <2>4, <2>5, <2>10, <2>11, <2>12, <2>13, SharedTargets
<1> QED
  BY <1>1, <1>2

-----------------------------------------------------------------------------
(* Granting roots                                                           *)

\* A policy with one more path entry
Granted(pol, x, access) == [pol EXCEPT !.entries = Append(@, PathEntry(x, access))]

\* One more path entry adds exactly its path and its access to what is resolved.
LEMMA GrantResolves ==
  ASSUME NEW pol \in [kind : Kinds, entries : Seq(AllEntries)], NEW x \in Seq(Names),
         NEW access \in Accesses
  PROVE  /\ Granted(pol, x, access) \in [kind : Kinds, entries : Seq(AllEntries)]
         /\ Granted(pol, x, access).kind = pol.kind
         /\ EntriesOf(Granted(pol, x, access)) = EntriesOf(pol) \cup {PathEntry(x, access)}
         /\ Resolved(Granted(pol, x, access)) =
              Resolved(pol) \cup {[at |-> x, access |-> access]}
<1> DEFINE e == PathEntry(x, access)
           new == Granted(pol, x, access)
<1>1. e \in AllEntries
  BY DEF PathEntry, Entry, AllEntries, PathTypes
<1>2. new \in [kind : Kinds, entries : Seq(AllEntries)] /\ new.kind = pol.kind
  BY <1>1 DEF Granted
<1>3. EntriesOf(new) = EntriesOf(pol) \cup {e}
  <2>1. new.entries = Append(pol.entries, e) /\ pol.entries \in Seq(AllEntries)
    BY DEF Granted
  <2>2. Range(Append(pol.entries, e)) = Range(pol.entries) \cup {e}
    BY <1>1, <2>1, AppendRange
  <2> QED
    BY <2>1, <2>2 DEF EntriesOf
<1>4. ResolveEntry(e) = x /\ x # NoPath /\ e.access = access
  BY PolicyAssumption DEF PolicyAssumption, ResolveEntry, PathEntry, Entry
<1>5. Resolved(new) = Resolved(pol) \cup {[at |-> x, access |-> access]}
  BY <1>3, <1>4, Zenon DEF Resolved
<1> QED
  BY <1>2, <1>3, <1>5

\* A path covers itself, and a prefix of full length is the path.
LEMMA PrefixSelf ==
  ASSUME NEW p \in Seq(Names), NEW q \in Seq(Names)
  PROVE  /\ IsPrefix(p, p)
         /\ IsPrefix(q, p) /\ Len(q) = Len(p) => q = p
         /\ \A k \in 0..Len(p) : IsPrefix(SubSeq(p, 1, k), p)
<1>1. SubSeq(p, 1, Len(p)) = p /\ SubSeq(q, 1, Len(q)) = q
  OBVIOUS
<1>2. \A k \in 0..Len(p) :
        Len(SubSeq(p, 1, k)) = k /\ SubSeq(SubSeq(p, 1, k), 1, k) = SubSeq(p, 1, k)
  OBVIOUS
<1>3. IsPrefix(p, p)
  BY DEF IsPrefix
<1>4. IsPrefix(q, p) /\ Len(q) = Len(p) => q = p
  BY <1>1 DEF IsPrefix
<1>5. \A k \in 0..Len(p) : IsPrefix(SubSeq(p, 1, k), p)
  BY <1>2 DEF IsPrefix
<1> QED
  BY <1>3, <1>4, <1>5

\* The write entries of a policy that have p inside their metadata
Protectors(pol, p) ==
  {i \in DOMAIN pol.entries :
     /\ pol.entries[i].access = "write" /\ ResolveEntry(pol.entries[i]) # NoPath
     /\ IsStrictPrefix(ResolveEntry(pol.entries[i]), p)
     /\ p[Len(ResolveEntry(pol.entries[i])) + 1] \in MetaNames}

\* metadata_child_of_writable_root: the metadata directory, below the path of the
\* first such entry, is p or above it.
LEMMA MetadataChildIsAbove ==
  ASSUME NEW pol \in [kind : Kinds, entries : Seq(AllEntries)], NEW p \in Seq(Names)
  PROVE  IF Protectors(pol, p) = {} THEN MetadataChild(pol, p) = NoPath
         ELSE \E i \in Protectors(pol, p) :
                /\ \A j \in Protectors(pol, p) : i <= j
                /\ Len(ResolveEntry(pol.entries[i])) + 1 \in 1..Len(p)
                /\ MetadataChild(pol, p) = SubSeq(p, 1, Len(ResolveEntry(pol.entries[i])) + 1)
<1> DEFINE at(i) == ResolveEntry(pol.entries[i])
           over == Protectors(pol, p)
           first == CHOOSE i \in over : \A j \in over : i <= j
<1>1. MetadataChild(pol, p) =
        IF over = {} THEN NoPath ELSE SubSeq(p, 1, Len(at(first)) + 1)
  BY DEF MetadataChild, Protectors
<1>2. ASSUME over # {}
      PROVE  /\ first \in over
             /\ \A j \in over : first <= j
             /\ Len(at(first)) + 1 \in 1..Len(p)
  <2>1. over \in SUBSET Nat
    BY DEF Protectors
  <2>2. \E i \in over : \A j \in over : i <= j
    BY <1>2, <2>1, LeastNatural
  <2>3. first \in over /\ \A j \in over : first <= j
    BY <2>2
  <2>4. at(first) \in Seq(Names) /\ IsPrefix(at(first), p) /\ at(first) # p
    <3>1. pol.entries[first] \in EntriesOf(pol) /\ at(first) # NoPath
      BY <2>3 DEF Protectors, EntriesOf, Range
    <3>2. [at |-> at(first), access |-> pol.entries[first].access] \in Resolved(pol)
      BY <3>1 DEF Resolved
    <3>3. at(first) \in Seq(Names)
      BY <3>2, ResolvedTypes DEF ResolvedEntries
    <3> QED
      BY <2>3, <3>3 DEF Protectors, IsStrictPrefix
  <2>5. Len(at(first)) \in 0..Len(p) /\ Len(at(first)) # Len(p)
    BY <2>4, PrefixFacts, PrefixSelf
  <2> QED
    BY <2>3, <2>5
<1> QED
  BY <1>1, <1>2

\* A write entry for a path makes it writable, whatever else the policy says, unless
\* the same path is denied.
LEMMA WriteEntryTakesEffect ==
  ASSUME NEW pol \in [kind : Kinds, entries : Seq(AllEntries)], pol.kind = "restricted",
         NEW x \in Seq(Names), [at |-> x, access |-> "write"] \in Resolved(pol)
  PROVE  \/ CanWrite(pol, x)
         \/ \E e \in DenyEntries(pol) : ResolveEntry(e) = x
<1> DEFINE grant == [at |-> x, access |-> "write"]
<1>1. grant \in Covering(pol, x)
  BY PrefixSelf DEF Covering
<1>2. PICK e \in Covering(pol, x) : ResolveAccess(pol, x) = e.access /\ ~Outranks(grant, e)
  BY <1>1, DecisionIsStrongest
<1>3. e.at = x /\ e.access \in {"write", "none"}
  <2>1. e \in ResolvedEntries
    BY ResolvedTypes DEF Covering
  <2>2. e.at \in Seq(Names) /\ e.access \in {"read", "write", "none"} /\ IsPrefix(e.at, x)
    BY <1>2, <2>1 DEF ResolvedEntries, Covering, Accesses, Rank
  <2>3. Len(e.at) \in 0..Len(x) /\ Len(x) \in Nat
    BY <2>2, PrefixFacts
  <2>4. Len(e.at) = Len(x) /\ e.access # "read"
    BY <1>2, <2>2, <2>3 DEF Outranks, Rank
  <2> QED
    BY <2>2, <2>4, PrefixSelf
<1>4. CASE e.access = "none"
  <2>1. PICK o \in EntriesOf(pol) :
          ResolveEntry(o) # NoPath /\ e = [at |-> ResolveEntry(o), access |-> o.access]
    BY DEF Resolved, Covering
  <2> QED
    BY <1>3, <1>4, <2>1 DEF DenyEntries
<1>5. CASE e.access = "write"
  <2>1. ASSUME MetadataChild(pol, x) # NoPath
        PROVE  ExplicitWrite(pol, MetadataChild(pol, x), x)
    <3>1. PICK k \in 1..Len(x) : MetadataChild(pol, x) = SubSeq(x, 1, k)
      BY <2>1, MetadataChildIsAbove
    <3>2. IsPrefix(SubSeq(x, 1, k), x) /\ IsPrefix(x, x)
      BY PrefixSelf
    <3>3. grant \in Resolved(pol) /\ grant.access = "write" /\ grant.at = x
      OBVIOUS
    <3>4. IsPrefix(MetadataChild(pol, x), x)
      BY <3>1, <3>2
    <3> HIDE DEF grant
    <3> QED
      BY <3>2, <3>3, <3>4, Zenon DEF ExplicitWrite
  <2>2. ~MetadataWriteDenied(pol, x)
    BY <2>1 DEF MetadataWriteDenied
  <2> QED
    BY <1>2, <1>5, <2>2 DEF CanWrite
<1> QED
  BY <1>3, <1>4, <1>5

\* A root that is made writable is writable afterwards, whatever else the policy
\* says, unless the same path is denied (with_additional_writable_roots).
THEOREM WritableRootTakesEffect ==
  ASSUME NEW pol \in [kind : Kinds, entries : Seq(AllEntries)], NEW x \in Seq(Names)
  PROVE  \/ CanWrite(WithWritableRoot(pol, x), x)
         \/ \E e \in DenyEntries(pol) : ResolveEntry(e) = x
<1> DEFINE new == Granted(pol, x, "write")
<1>1. CASE CanWrite(pol, x)
  BY <1>1 DEF WithWritableRoot
<1>2. CASE ~CanWrite(pol, x)
  <2>1. pol.kind = "restricted" /\ WithWritableRoot(pol, x) = new
    BY <1>2 DEF CanWrite, ResolveAccess, HasFullWrite, WithWritableRoot, Granted
  <2>2. "write" \in Accesses /\ PathEntry(x, "write").access = "write"
    BY DEF Accesses, Rank, PathEntry, Entry
  <2>3. /\ new \in [kind : Kinds, entries : Seq(AllEntries)] /\ new.kind = "restricted"
        /\ EntriesOf(new) = EntriesOf(pol) \cup {PathEntry(x, "write")}
        /\ [at |-> x, access |-> "write"] \in Resolved(new)
    BY <2>1, <2>2, GrantResolves
  <2> HIDE DEF new
  <2>4. DenyEntries(new) = DenyEntries(pol)
    BY <2>2, <2>3 DEF DenyEntries
  <2> QED
    BY <2>1, <2>3, <2>4, WriteEntryTakesEffect
<1> QED
  BY <1>1, <1>2

\* Prefixes of one path are prefixes of each other, and agree with the path.
LEMMA PrefixOrder ==
  ASSUME NEW p \in Seq(Names), NEW q \in Seq(Names), NEW r \in Seq(Names)
  PROVE  /\ IsPrefix(q, p) /\ IsPrefix(r, p) /\ Len(q) <= Len(r) => IsPrefix(q, r)
         /\ IsPrefix(q, r) /\ IsPrefix(r, p) => IsPrefix(q, p)
         /\ IsPrefix(q, p) => \A i \in 1..Len(q) : q[i] = p[i]
<1>1. ASSUME IsPrefix(q, p), NEW i \in 1..Len(q)
      PROVE  q[i] = p[i]
  <2>1. SubSeq(q, 1, Len(q)) = SubSeq(p, 1, Len(q)) /\ Len(q) <= Len(p)
    BY <1>1 DEF IsPrefix
  <2>2. SubSeq(q, 1, Len(q))[i] = q[i] /\ SubSeq(p, 1, Len(q))[i] = p[i]
    BY <2>1
  <2> QED
    BY <2>1, <2>2
<1>2. \A a, b \in Seq(Names) :
        Len(a) <= Len(b) /\ (\A i \in 1..Len(a) : a[i] = b[i]) => IsPrefix(a, b)
  <2> SUFFICES ASSUME NEW a \in Seq(Names), NEW b \in Seq(Names), Len(a) <= Len(b),
                      \A i \in 1..Len(a) : a[i] = b[i]
               PROVE  SubSeq(a, 1, Len(a)) = SubSeq(b, 1, Len(a))
    BY DEF IsPrefix
  <2> QED
    OBVIOUS
<1>3. ASSUME IsPrefix(q, p), IsPrefix(r, p), Len(q) <= Len(r)
      PROVE  IsPrefix(q, r)
  <2>1. \A i \in 1..Len(r) : r[i] = p[i]
    <3> SUFFICES ASSUME NEW i \in 1..Len(r) PROVE r[i] = p[i]
      OBVIOUS
    <3>1. SubSeq(r, 1, Len(r)) = SubSeq(p, 1, Len(r)) /\ Len(r) <= Len(p)
      BY <1>3 DEF IsPrefix
    <3>2. SubSeq(r, 1, Len(r))[i] = r[i] /\ SubSeq(p, 1, Len(r))[i] = p[i]
      BY <3>1
    <3> QED
      BY <3>1, <3>2
  <2>2. \A i \in 1..Len(q) : q[i] = p[i] /\ i \in 1..Len(r)
    BY <1>1, <1>3
  <2> QED
    BY <1>2, <1>3, <2>1, <2>2
<1>4. ASSUME IsPrefix(q, r), IsPrefix(r, p)
      PROVE  IsPrefix(q, p)
  <2>1. Len(q) <= Len(r) /\ Len(r) <= Len(p)
    BY <1>4 DEF IsPrefix
  <2>2. \A i \in 1..Len(q) : i \in 1..Len(r) /\ i \in 1..Len(p)
    BY <2>1
  <2>3. /\ SubSeq(q, 1, Len(q)) = SubSeq(r, 1, Len(q))
        /\ SubSeq(r, 1, Len(r)) = SubSeq(p, 1, Len(r))
    BY <1>4 DEF IsPrefix
  <2>4. \A i \in 1..Len(q) : q[i] = r[i] /\ r[i] = p[i]
    <3> SUFFICES ASSUME NEW i \in 1..Len(q) PROVE q[i] = r[i] /\ r[i] = p[i]
      OBVIOUS
    <3>1. SubSeq(q, 1, Len(q))[i] = q[i] /\ SubSeq(r, 1, Len(q))[i] = r[i]
      BY <2>1, <2>2
    <3>2. SubSeq(r, 1, Len(r))[i] = r[i] /\ SubSeq(p, 1, Len(r))[i] = p[i]
      BY <2>1, <2>2
    <3> QED
      BY <2>3, <3>1, <3>2
  <2> QED
    BY <1>2, <2>1, <2>4
<1> QED
  BY <1>1, <1>3, <1>4

\* Two entries of which neither outranks the other agree.
LEMMA Ties ==
  ASSUME NEW e \in ResolvedEntries, NEW f \in ResolvedEntries,
         ~Outranks(e, f), ~Outranks(f, e)
  PROVE  Len(e.at) = Len(f.at) /\ e.access = f.access
<1>1. /\ Len(e.at) \in Nat /\ Len(f.at) \in Nat
      /\ e.access \in Accesses /\ f.access \in Accesses
  BY DEF ResolvedEntries
<1>2. Accesses = {"read", "write", "none"}
      /\ Rank["read"] = 0 /\ Rank["write"] = 1 /\ Rank["none"] = 2
  BY DEF Accesses, Rank
<1> QED
  BY <1>1, <1>2 DEF Outranks

\* The decision about p is the decision about x, if an entry that decides p reaches
\* no further down than x, above p.
LEMMA SameDecisionAbove ==
  ASSUME NEW pol \in [kind : Kinds, entries : Seq(AllEntries)], pol.kind = "restricted",
         NEW p \in Seq(Names), NEW x \in Seq(Names), IsPrefix(x, p),
         NEW e \in Covering(pol, p), \A f \in Covering(pol, p) : ~Outranks(f, e),
         Len(e.at) <= Len(x)
  PROVE  ResolveAccess(pol, x) = e.access
<1>1. \A f \in Covering(pol, x) : f \in Covering(pol, p) /\ f \in ResolvedEntries
  <2> SUFFICES ASSUME NEW f \in Covering(pol, x)
               PROVE  f \in Covering(pol, p) /\ f \in ResolvedEntries
    OBVIOUS
  <2>1. f \in Resolved(pol) /\ f \in ResolvedEntries /\ IsPrefix(f.at, x)
    BY ResolvedTypes DEF Covering
  <2>2. f.at \in Seq(Names)
    BY <2>1 DEF ResolvedEntries
  <2> QED
    BY <2>1, <2>2, PrefixOrder DEF Covering
<1>2. e \in Covering(pol, x)
  <2>1. e \in Resolved(pol) /\ e \in ResolvedEntries /\ IsPrefix(e.at, p)
    BY ResolvedTypes DEF Covering
  <2>2. e.at \in Seq(Names)
    BY <2>1 DEF ResolvedEntries
  <2>3. IsPrefix(e.at, x)
    BY <2>1, <2>2, PrefixOrder
  <2> QED
    BY <2>1, <2>3 DEF Covering
<1>3. PICK g \in Covering(pol, x) :
        /\ ResolveAccess(pol, x) = g.access
        /\ \A f \in Covering(pol, x) : ~Outranks(f, g)
  BY <1>2, DecisionIsStrongest
<1>4. ~Outranks(g, e) /\ ~Outranks(e, g)
  BY <1>1, <1>2, <1>3
<1> QED
  BY <1>1, <1>2, <1>3, <1>4, Ties

\* After a grant for x, the decision about a path is what it was, or it is the
\* grant; and the grant decides only below x, where nothing deeper did.
LEMMA DecisionAfterGrant ==
  ASSUME NEW pol \in [kind : Kinds, entries : Seq(AllEntries)], pol.kind = "restricted",
         NEW x \in Seq(Names), NEW access \in Accesses, NEW p \in Seq(Names),
         CanRead(pol, p)
  PROVE  \E e \in Covering(pol, p) :
           /\ ResolveAccess(pol, p) = e.access
           /\ \A f \in Covering(pol, p) : ~Outranks(f, e)
           /\ \/ ResolveAccess(Granted(pol, x, access), p) = e.access
              \/ /\ ResolveAccess(Granted(pol, x, access), p) = access
                 /\ IsPrefix(x, p) /\ Len(e.at) <= Len(x)
<1> DEFINE new == Granted(pol, x, access)
           grant == [at |-> x, access |-> access]
<1>1. Covering(pol, p) # {}
  BY DEF CanRead, ResolveAccess, Covering
<1>2. PICK e \in Covering(pol, p) :
        /\ ResolveAccess(pol, p) = e.access
        /\ \A f \in Covering(pol, p) : ~Outranks(f, e)
  BY <1>1, DecisionIsStrongest
<1>3. /\ new \in [kind : Kinds, entries : Seq(AllEntries)] /\ new.kind = "restricted"
      /\ Resolved(new) = Resolved(pol) \cup {grant}
  BY GrantResolves
<1>4. /\ Covering(pol, p) \subseteq Covering(new, p)
      /\ \A f \in Covering(new, p) : f \in Covering(pol, p) \/ (f = grant /\ IsPrefix(x, p))
  BY <1>3 DEF Covering
<1>5. PICK g \in Covering(new, p) :
        /\ ResolveAccess(new, p) = g.access
        /\ \A f \in Covering(new, p) : ~Outranks(f, g)
  BY <1>1, <1>3, <1>4, DecisionIsStrongest
<1>6. e \in ResolvedEntries /\ g \in ResolvedEntries /\ ~Outranks(e, g)
  BY <1>3, <1>4, <1>5, ResolvedTypes DEF Covering
<1>7. CASE g \in Covering(pol, p)
  BY <1>2, <1>5, <1>6, <1>7, Ties
<1>8. CASE g = grant /\ IsPrefix(x, p)
  <2>1. Len(e.at) \in Nat /\ Len(x) \in Nat
    BY <1>6 DEF ResolvedEntries
  <2>2. g.access = access /\ g.at = x
    BY <1>8
  <2>3. Len(e.at) <= Len(x)
    BY <1>6, <2>1, <2>2 DEF Outranks
  <2> QED
    BY <1>2, <1>5, <1>8, <2>2, <2>3
<1> QED
  BY <1>4, <1>5, <1>7, <1>8

\* A grant is the last entry of the list: it protects metadata only where no
\* entry did, or after those that do.
LEMMA ProtectorsAfterGrant ==
  ASSUME NEW pol \in [kind : Kinds, entries : Seq(AllEntries)], NEW x \in Seq(Names),
         NEW access \in Accesses, NEW p \in Seq(Names)
  PROVE  /\ \A i \in Protectors(pol, p) :
              /\ i \in Protectors(Granted(pol, x, access), p)
              /\ Granted(pol, x, access).entries[i] = pol.entries[i]
              /\ i \in Nat /\ i <= Len(pol.entries)
         /\ \A i \in Protectors(Granted(pol, x, access), p) :
              \/ i \in Protectors(pol, p)
              \/ /\ access = "write" /\ i > Len(pol.entries)
                 /\ ResolveEntry(Granted(pol, x, access).entries[i]) = x
                 /\ IsStrictPrefix(x, p) /\ p[Len(x) + 1] \in MetaNames
<1> DEFINE es == pol.entries
           e == PathEntry(x, access)
           new == Granted(pol, x, access)
<1>1. e \in AllEntries /\ e.access = access /\ ResolveEntry(e) = x
  BY DEF PathEntry, Entry, AllEntries, PathTypes, ResolveEntry
<1>2. /\ DOMAIN new.entries = 1..(Len(es) + 1) /\ DOMAIN es = 1..Len(es) /\ Len(es) \in Nat
      /\ new.entries[Len(es) + 1] = e
      /\ \A i \in 1..Len(es) : new.entries[i] = es[i]
  <2>1. new.entries = Append(es, e) /\ es \in Seq(AllEntries)
    BY DEF Granted
  <2> HIDE DEF es, e, new
  <2> QED
    BY <1>1, <2>1
<1> HIDE DEF new
<1>3. ASSUME NEW i \in Protectors(pol, p)
      PROVE  /\ i \in Protectors(new, p) /\ new.entries[i] = es[i]
             /\ i \in Nat /\ i <= Len(es)
  <2>1. i \in 1..Len(es)
    BY <1>2 DEF Protectors
  <2>2. i \in DOMAIN new.entries /\ new.entries[i] = es[i] /\ i \in Nat /\ i <= Len(es)
    BY <1>2, <2>1
  <2> QED
    BY <2>2 DEF Protectors
<1>4. ASSUME NEW i \in Protectors(new, p), i \notin Protectors(pol, p)
      PROVE  /\ access = "write" /\ i > Len(es) /\ ResolveEntry(new.entries[i]) = x
             /\ IsStrictPrefix(x, p) /\ p[Len(x) + 1] \in MetaNames
  <2>1. i \in 1..(Len(es) + 1)
    BY <1>2 DEF Protectors
  <2>2. CASE i \in 1..Len(es)
    <3>1. i \in DOMAIN es /\ new.entries[i] = es[i]
      BY <1>2, <2>2
    <3> QED
      BY <1>4, <3>1 DEF Protectors
  <2>3. CASE i = Len(es) + 1
    BY <1>1, <1>2, <2>3 DEF Protectors
  <2> QED
    BY <1>2, <2>1, <2>2, <2>3
<1> QED
  BY <1>3, <1>4 DEF new

\* Metadata that may be written stays so, except where a write grant is the first
\* to protect it.
LEMMA MetadataAfterGrant ==
  ASSUME NEW pol \in [kind : Kinds, entries : Seq(AllEntries)], pol.kind = "restricted",
         NEW x \in Seq(Names), NEW access \in Accesses, NEW p \in Seq(Names),
         ~MetadataWriteDenied(pol, p), MetadataWriteDenied(Granted(pol, x, access), p)
  PROVE  /\ access = "write" /\ Protectors(pol, p) = {}
         /\ IsStrictPrefix(x, p) /\ p[Len(x) + 1] \in MetaNames
         /\ Len(x) + 1 \in 1..Len(p)
         /\ ~ExplicitWrite(Granted(pol, x, access), SubSeq(p, 1, Len(x) + 1), p)
<1> DEFINE new == Granted(pol, x, access)
<1>1. /\ new \in [kind : Kinds, entries : Seq(AllEntries)] /\ new.kind = "restricted"
      /\ Resolved(pol) \subseteq Resolved(new)
  BY GrantResolves
<1> HIDE DEF new
<1>2. MetadataChild(new, p) # NoPath /\ ~ExplicitWrite(new, MetadataChild(new, p), p)
  BY DEF MetadataWriteDenied, new
<1>3. PICK i \in Protectors(new, p) :
        /\ \A j \in Protectors(new, p) : i <= j
        /\ Len(ResolveEntry(new.entries[i])) + 1 \in 1..Len(p)
        /\ MetadataChild(new, p) = SubSeq(p, 1, Len(ResolveEntry(new.entries[i])) + 1)
  BY <1>1, <1>2, MetadataChildIsAbove
<1>4. \A j \in Protectors(new, p) : j \in Nat
  <2>1. DOMAIN new.entries = 1..Len(new.entries) /\ Len(new.entries) \in Nat
    BY <1>1
  <2> QED
    BY <2>1 DEF Protectors
<1>5. Protectors(pol, p) = {}
  <2> SUFFICES ASSUME Protectors(pol, p) # {} PROVE FALSE
    OBVIOUS
  <2>1. PICK k \in Protectors(pol, p) :
          /\ \A j \in Protectors(pol, p) : k <= j
          /\ Len(ResolveEntry(pol.entries[k])) + 1 \in 1..Len(p)
          /\ MetadataChild(pol, p) = SubSeq(p, 1, Len(ResolveEntry(pol.entries[k])) + 1)
    BY MetadataChildIsAbove
  <2>2. /\ k \in Protectors(new, p) /\ new.entries[k] = pol.entries[k]
        /\ k \in Nat /\ k <= Len(pol.entries) /\ Len(pol.entries) \in Nat
    BY ProtectorsAfterGrant DEF new
  <2>3. i \in Protectors(pol, p)
    <3>1. i <= k /\ i \in Nat
      BY <1>3, <1>4, <2>2
    <3>2. ~(i > Len(pol.entries))
      BY <2>2, <3>1
    <3> QED
      BY <3>2, ProtectorsAfterGrant DEF new
  <2>4. i = k
    <3>1. i <= k /\ k <= i /\ i \in Nat /\ k \in Nat
      BY <1>3, <1>4, <2>1, <2>2, <2>3
    <3> QED
      BY <3>1
  <2>5. MetadataChild(pol, p) = MetadataChild(new, p)
    BY <1>3, <2>1, <2>2, <2>4
  <2>6. ExplicitWrite(pol, MetadataChild(pol, p), p)
    BY <1>2, <2>5 DEF MetadataWriteDenied
  <2> QED
    BY <1>1, <1>2, <2>5, <2>6 DEF ExplicitWrite
<1>6. /\ access = "write" /\ ResolveEntry(new.entries[i]) = x
      /\ IsStrictPrefix(x, p) /\ p[Len(x) + 1] \in MetaNames
  BY <1>3, <1>5, ProtectorsAfterGrant DEF new
<1> QED
  BY <1>2, <1>3, <1>5, <1>6 DEF new

\* What protects the metadata above x protects it below x too.
LEMMA ProtectorsBelow ==
  ASSUME NEW pol \in [kind : Kinds, entries : Seq(AllEntries)],
         NEW x \in Seq(Names), NEW p \in Seq(Names), IsPrefix(x, p)
  PROVE  Protectors(pol, x) \subseteq Protectors(pol, p)
<1> SUFFICES ASSUME NEW i \in Protectors(pol, x) PROVE i \in Protectors(pol, p)
  OBVIOUS
<1> DEFINE at == ResolveEntry(pol.entries[i])
<1>1. at \in Seq(Names) /\ IsPrefix(at, x) /\ at # x
  <2>1. pol.entries[i] \in EntriesOf(pol) /\ at # NoPath
    BY DEF Protectors, EntriesOf, Range
  <2>2. [at |-> at, access |-> pol.entries[i].access] \in Resolved(pol)
    BY <2>1 DEF Resolved
  <2> QED
    BY <2>2, ResolvedTypes DEF ResolvedEntries, Protectors, IsStrictPrefix
<1>2. /\ Len(at) \in 0..Len(x) /\ Len(at) # Len(x) /\ Len(x) \in 0..Len(p)
      /\ Len(at) + 1 \in 1..Len(x)
  <2>1. Len(at) \in 0..Len(x) /\ Len(at) # Len(x) /\ Len(x) \in 0..Len(p)
    BY <1>1, PrefixFacts, PrefixSelf
  <2> QED
    BY <2>1
<1>3. IsPrefix(at, p) /\ at # p /\ p[Len(at) + 1] = x[Len(at) + 1]
  <2> HIDE DEF at
  <2> QED
    BY <1>1, <1>2, PrefixOrder
<1> QED
  BY <1>3 DEF Protectors, IsStrictPrefix

\* Where all of the disk can be written nothing is denied: a denial of a path
\* narrows the writes, and no write entry outranks it.
LEMMA FullWriteReadsAll ==
  ASSUME NEW pol \in [kind : Kinds, entries : Seq(AllEntries)], HasFullWrite(pol),
         NEW p \in Seq(Names)
  PROVE  CanRead(pol, p)
<1>1. CASE pol.kind # "restricted"
  BY <1>1 DEF CanRead, ResolveAccess
<1>2. CASE pol.kind = "restricted"
  <2>1. PICK r \in EntriesOf(pol) : r.type = "root" /\ r.access = "write"
    BY <1>2 DEF HasFullWrite, HasRootAccess
  <2>2. PICK e \in Covering(pol, p) : ResolveAccess(pol, p) = e.access
    BY <1>2, <2>1, RootCovers, DecisionIsStrongest
  <2>3. PICK o \in EntriesOf(pol) : ResolveEntry(o) # NoPath /\ e.access = o.access
    BY <2>2 DEF Covering, Resolved
  <2>4. o.type \notin {"glob", "minimal"}
    BY <2>3 DEF ResolveEntry
  <2>5. ASSUME o.access = "none" PROVE FALSE
    <3>1. WriteOverrides(pol, o)
      BY <1>2, <2>4, <2>5 DEF HasFullWrite, NarrowsWrites
    <3> QED
      BY <2>5, <3>1 DEF WriteOverrides, Rank
  <2> QED
    BY <2>2, <2>3, <2>5 DEF CanRead
<1> QED
  BY <1>1, <1>2

\* A write entry more leaves full write access as it is.
LEMMA FullWriteAfterGrant ==
  ASSUME NEW pol \in [kind : Kinds, entries : Seq(AllEntries)], NEW x \in Seq(Names),
         HasFullWrite(pol)
  PROVE  HasFullWrite(Granted(pol, x, "write"))
<1> DEFINE new == Granted(pol, x, "write")
<1>1. /\ new.kind = pol.kind
      /\ EntriesOf(new) = EntriesOf(pol) \cup {PathEntry(x, "write")}
  <2>1. "write" \in Accesses
    BY DEF Accesses, Rank
  <2> QED
    BY <2>1, GrantResolves
<1>2. PathEntry(x, "write").access = "write"
  BY DEF PathEntry, Entry
<1> HIDE DEF new
<1>3. HasRootAccess(pol, {"write"}) => HasRootAccess(new, {"write"})
  BY <1>1 DEF HasRootAccess
<1>4. \A e \in EntriesOf(pol) : WriteOverrides(pol, e) => WriteOverrides(new, e)
  BY <1>1 DEF WriteOverrides
<1>5. NarrowsWrites(new) => NarrowsWrites(pol)
  BY <1>1, <1>2, <1>4 DEF NarrowsWrites
<1> QED
  BY <1>1, <1>3, <1>5 DEF HasFullWrite, new

\* Granting a writable root takes no access away, neither by its precedence nor by
\* the metadata protection it brings (with_additional_writable_roots): metadata
\* below the new root that could be written had a write entry of its own, or the
\* root was writable already and nothing is granted.
THEOREM WritableRootOnlyAdds ==
  ASSUME NEW pol \in [kind : Kinds, entries : Seq(AllEntries)], NEW x \in Seq(Names),
         NEW p \in Seq(Names)
  PROVE  /\ CanRead(pol, p) => CanRead(WithWritableRoot(pol, x), p)
         /\ CanWrite(pol, p) => CanWrite(WithWritableRoot(pol, x), p)
<1> DEFINE new == Granted(pol, x, "write")
<1>1. CASE CanWrite(pol, x)
  BY <1>1 DEF WithWritableRoot
<1>2. CASE ~CanWrite(pol, x)
  <2>1. pol.kind = "restricted" /\ WithWritableRoot(pol, x) = new
    BY <1>2 DEF CanWrite, ResolveAccess, HasFullWrite, WithWritableRoot, Granted
  <2>2. "write" \in Accesses
    BY DEF Accesses, Rank
  <2>3. CanRead(pol, p) => CanRead(new, p)
    BY <2>1, <2>2, DecisionAfterGrant DEF CanRead
  <2>4. ASSUME CanWrite(pol, p) PROVE CanWrite(new, p)
    <3>1. CanRead(pol, p) /\ ResolveAccess(pol, p) = "write"
      BY <2>4 DEF CanRead, CanWrite
    <3>2. PICK e \in Covering(pol, p) :
            /\ e.access = "write" /\ \A f \in Covering(pol, p) : ~Outranks(f, e)
            /\ ResolveAccess(new, p) = "write"
      BY <2>1, <2>2, <3>1, DecisionAfterGrant
    <3>3. CASE HasFullWrite(pol)
      BY <3>2, <3>3, FullWriteAfterGrant DEF CanWrite
    <3>4. CASE ~HasFullWrite(pol)
      <4> SUFFICES ASSUME MetadataWriteDenied(new, p) PROVE FALSE
        BY <3>2 DEF CanWrite
      <4>1. ~MetadataWriteDenied(pol, p)
        BY <2>4, <3>4 DEF CanWrite
      <4>2. /\ Protectors(pol, p) = {} /\ IsPrefix(x, p) /\ Len(x) + 1 \in 1..Len(p)
            /\ ~ExplicitWrite(new, SubSeq(p, 1, Len(x) + 1), p)
        BY <2>1, <2>2, <4>1, MetadataAfterGrant DEF IsStrictPrefix
      <4>3. e \in Resolved(new) /\ e.at \in Seq(Names) /\ IsPrefix(e.at, p)
        BY <2>2, <3>2, GrantResolves, ResolvedTypes DEF Covering, ResolvedEntries
      <4>4. CASE Len(e.at) <= Len(x)
        <5>1. ResolveAccess(pol, x) = "write"
          BY <2>1, <3>2, <4>2, <4>4, SameDecisionAbove
        <5>2. MetadataChild(pol, x) # NoPath
          BY <1>2, <5>1 DEF CanWrite, MetadataWriteDenied
        <5>3. Protectors(pol, x) # {}
          BY <5>2, MetadataChildIsAbove
        <5> QED
          BY <4>2, <5>3, ProtectorsBelow
      <4>5. CASE ~(Len(e.at) <= Len(x))
        <5> DEFINE m == SubSeq(p, 1, Len(x) + 1)
        <5>1. /\ m \in Seq(Names) /\ Len(m) = Len(x) + 1 /\ IsPrefix(m, p)
              /\ Len(e.at) \in Nat /\ Len(x) \in Nat
          BY <4>2, <4>3, PrefixSelf
        <5>2. IsPrefix(m, e.at)
          <6> HIDE DEF m
          <6>1. Len(m) <= Len(e.at)
            BY <4>5, <5>1
          <6> QED
            BY <4>3, <5>1, <6>1, PrefixOrder
        <5> QED
          BY <3>2, <4>2, <4>3, <5>2 DEF ExplicitWrite
      <4> QED
        BY <4>4, <4>5
    <3> QED
      BY <3>3, <3>4
  <2> QED
    BY <2>1, <2>3, <2>4
<1> QED
  BY <1>1, <1>2

\* Granting a readable root takes no access away (with_additional_readable_roots):
\* the read entry decides only where nothing could be read.
THEOREM ReadableRootOnlyAdds ==
  ASSUME NEW pol \in [kind : Kinds, entries : Seq(AllEntries)], NEW x \in Seq(Names),
         NEW p \in Seq(Names)
  PROVE  /\ CanRead(pol, p) => CanRead(WithReadableRoot(pol, x), p)
         /\ CanWrite(pol, p) => CanWrite(WithReadableRoot(pol, x), p)
<1> DEFINE new == Granted(pol, x, "read")
<1>1. CASE HasFullRead(pol) \/ CanRead(pol, x)
  BY <1>1 DEF WithReadableRoot
<1>2. CASE ~HasFullRead(pol) /\ ~CanRead(pol, x)
  <2>1. pol.kind = "restricted" /\ WithReadableRoot(pol, x) = new
    BY <1>2 DEF HasFullRead, WithReadableRoot, Granted
  <2>2. "read" \in Accesses
    BY DEF Accesses, Rank
  <2>3. CanRead(pol, p) => CanRead(new, p)
    BY <2>1, <2>2, DecisionAfterGrant DEF CanRead
  <2>4. ASSUME CanWrite(pol, p) PROVE CanWrite(new, p)
    <3>1. CanRead(pol, p) /\ ResolveAccess(pol, p) = "write"
      BY <2>4 DEF CanRead, CanWrite
    <3>2. PICK e \in Covering(pol, p) :
            /\ e.access = "write" /\ \A f \in Covering(pol, p) : ~Outranks(f, e)
            /\ \/ ResolveAccess(new, p) = "write"
               \/ IsPrefix(x, p) /\ Len(e.at) <= Len(x)
      BY <2>1, <2>2, <3>1, DecisionAfterGrant
    <3>3. ResolveAccess(new, p) = "write"
      <4> SUFFICES ASSUME IsPrefix(x, p), Len(e.at) <= Len(x) PROVE FALSE
        BY <3>2
      <4>1. ResolveAccess(pol, x) = "write"
        BY <2>1, <3>2, SameDecisionAbove
      <4> QED
        BY <1>2, <4>1 DEF CanRead
    <3>4. ~MetadataWriteDenied(pol, p)
      BY <1>2, <2>4, FullWriteReadsAll DEF CanWrite
    <3>5. ~MetadataWriteDenied(new, p)
      BY <2>1, <2>2, <3>4, MetadataAfterGrant
    <3> QED
      BY <3>3, <3>5 DEF CanWrite
  <2> QED
    BY <2>1, <2>3, <2>4
<1> QED
  BY <1>1, <1>2

-----------------------------------------------------------------------------
(* The operations                                                           *)

\* A list that each step leaves as it is or pushes something of `from` to
LEMMA PushedLists ==
  ASSUME NEW N \in Nat, NEW h, NEW base \in Seq(AllEntries), NEW from, h[0] = base,
         \A n \in 1..N : h[n - 1] \in Seq(AllEntries) =>
           /\ h[n] \in Seq(AllEntries)
           /\ Range(h[n - 1]) \subseteq Range(h[n])
           /\ Range(h[n]) \subseteq Range(h[n - 1]) \cup from
  PROVE  \A n \in 0..N : /\ h[n] \in Seq(AllEntries)
                         /\ Range(base) \subseteq Range(h[n])
                         /\ Range(h[n]) \subseteq Range(base) \cup from
<1> DEFINE Good == {n \in 0..N : /\ h[n] \in Seq(AllEntries)
                                 /\ Range(base) \subseteq Range(h[n])
                                 /\ Range(h[n]) \subseteq Range(base) \cup from}
<1>1. 0 \in Good
  <2>1. 0 \in 0..N
    OBVIOUS
  <2> QED
    BY <2>1
<1>2. ASSUME NEW n \in 1..N, n - 1 \in Good PROVE n \in Good
  <2>1. n \in 0..N
    OBVIOUS
  <2> QED
    BY <1>2, <2>1
<1> HIDE DEF Good
<1>3. \A n \in 0..N : n \in Good
  BY <1>1, <1>2, ListInduction
<1> QED
  BY <1>3 DEF Good

\* append_default_read_only_entry_if_no_explicit_rule, for a list of them: nothing
\* is lost, and nothing but what is given is added.
LEMMA AppendReadOnlyFacts ==
  ASSUME NEW entries \in Seq(AllEntries), NEW new \in Seq(AllEntries)
  PROVE  /\ AppendReadOnly(entries, new) \in Seq(AllEntries)
         /\ Range(entries) \subseteq Range(AppendReadOnly(entries, new))
         /\ Range(AppendReadOnly(entries, new)) \subseteq Range(entries) \cup Range(new)
<1> DEFINE N == Len(new)
           V == Seq(AllEntries)
           next(es, n) == IF \E f \in Range(es) : SharesTarget(f, new[n])
                            THEN es ELSE Append(es, new[n])
           is(h) == h = [n \in 0..N |-> IF n = 0 THEN entries ELSE next(h[n - 1], n)]
           pushed == CHOOSE h : is(h)
<1>1. AppendReadOnly(entries, new) = pushed[N]
  BY Zenon DEF AppendReadOnly
<1>2. N \in Nat /\ \A n \in 1..N : new[n] \in AllEntries /\ new[n] \in Range(new)
  BY DEF Range
<1>3. ASSUME NEW n \in 1..N, NEW es \in V
      PROVE  /\ next(es, n) \in V /\ Range(es) \subseteq Range(next(es, n))
             /\ Range(next(es, n)) \subseteq Range(es) \cup Range(new)
  <2>1. Append(es, new[n]) \in V /\ Range(Append(es, new[n])) = Range(es) \cup {new[n]}
    BY <1>2, AppendRange
  <2> QED
    BY <1>2, <2>1
<1> HIDE DEF N, next
<1>4. \E h : is(h)
  <2> DEFINE step == [n \in 1..N |-> [es \in V |-> next(es, n)]]
  <2>1. step \in Steps(N, V)
    BY <1>3 DEF Steps
  <2>2. PICK f : Follows(f, N, V, entries, step)
    <3> HIDE DEF step
    <3> QED
      BY <1>2, <2>1, Recursion
  <2>3. \A n \in 1..N : n - 1 \in 0..N /\ f[n - 1] \in V
    BY <1>2, <2>2 DEF Follows
  <2>4. \A n \in 1..N : f[n] = next(f[n - 1], n)
    BY <2>2, <2>3 DEF Follows
  <2>5. \A n \in 0..N : n = 0 \/ n \in 1..N
    OBVIOUS
  <2>6. f = [n \in 0..N |-> IF n = 0 THEN entries ELSE next(f[n - 1], n)]
    BY <2>2, <2>4, <2>5 DEF Follows
  <2> QED
    BY <2>6
<1>5. is(pushed)
  BY <1>4
<1>6. pushed[0] = entries /\ \A n \in 1..N : pushed[n] = next(pushed[n - 1], n)
  <2>1. 0 \in 0..N /\ \A n \in 1..N : n \in 0..N /\ n # 0
    BY <1>2
  <2> HIDE DEF pushed
  <2> QED
    BY <1>5, <2>1
<1> HIDE DEF pushed
<1>7. \A n \in 1..N : pushed[n - 1] \in Seq(AllEntries) =>
        /\ pushed[n] \in Seq(AllEntries)
        /\ Range(pushed[n - 1]) \subseteq Range(pushed[n])
        /\ Range(pushed[n]) \subseteq Range(pushed[n - 1]) \cup Range(new)
  BY <1>3, <1>6
<1>8. \A n \in 0..N : /\ pushed[n] \in Seq(AllEntries)
                      /\ Range(entries) \subseteq Range(pushed[n])
                      /\ Range(pushed[n]) \subseteq Range(entries) \cup Range(new)
  BY <1>2, <1>6, <1>7, PushedLists
<1>9. N \in 0..N
  BY <1>2
<1> QED
  BY <1>1, <1>8, <1>9

\* The denials of a list, pushed to another one: nothing is lost, all denials are
\* there, and nothing else is added (preserve_deny_read_restrictions_from).
LEMMA AppendDenialsFacts ==
  ASSUME NEW entries \in Seq(AllEntries), NEW existing \in Seq(AllEntries)
  PROVE  /\ AppendDenials(entries, existing) \in Seq(AllEntries)
         /\ Range(AppendDenials(entries, existing)) =
              Range(entries) \cup {e \in Range(existing) : e.access = "none"}
<1> DEFINE N == Len(existing)
           V == Seq(AllEntries)
           denied == {e \in Range(existing) : e.access = "none"}
           next(es, n) == IF existing[n].access # "none" \/ existing[n] \in Range(es)
                            THEN es ELSE Append(es, existing[n])
           is(h) == h = [n \in 0..N |-> IF n = 0 THEN entries ELSE next(h[n - 1], n)]
           pushed == CHOOSE h : is(h)
<1>1. AppendDenials(entries, existing) = pushed[N]
  BY Zenon DEF AppendDenials
<1>2. N \in Nat /\ \A n \in 1..N : existing[n] \in AllEntries /\ existing[n] \in Range(existing)
  BY DEF Range
<1>3. ASSUME NEW n \in 1..N, NEW es \in V
      PROVE  /\ next(es, n) \in V /\ Range(es) \subseteq Range(next(es, n))
             /\ Range(next(es, n)) \subseteq Range(es) \cup denied
             /\ existing[n].access = "none" => existing[n] \in Range(next(es, n))
  <2>1. Append(es, existing[n]) \in V
        /\ Range(Append(es, existing[n])) = Range(es) \cup {existing[n]}
    BY <1>2, AppendRange
  <2> QED
    BY <1>2, <2>1
<1>4. \A e \in denied : \E n \in 1..N : e = existing[n]
  <2>1. DOMAIN existing = 1..N
    OBVIOUS
  <2> QED
    BY <2>1 DEF Range
<1> HIDE DEF N, next, denied
<1>5. \E h : is(h)
  <2> DEFINE step == [n \in 1..N |-> [es \in V |-> next(es, n)]]
  <2>1. step \in Steps(N, V)
    BY <1>3 DEF Steps
  <2>2. PICK f : Follows(f, N, V, entries, step)
    <3> HIDE DEF step
    <3> QED
      BY <1>2, <2>1, Recursion
  <2>3. \A n \in 1..N : n - 1 \in 0..N /\ f[n - 1] \in V
    BY <1>2, <2>2 DEF Follows
  <2>4. \A n \in 1..N : f[n] = next(f[n - 1], n)
    BY <2>2, <2>3 DEF Follows
  <2>5. \A n \in 0..N : n = 0 \/ n \in 1..N
    OBVIOUS
  <2>6. f = [n \in 0..N |-> IF n = 0 THEN entries ELSE next(f[n - 1], n)]
    BY <2>2, <2>4, <2>5 DEF Follows
  <2> QED
    BY <2>6
<1>6. is(pushed)
  BY <1>5
<1>7. pushed[0] = entries /\ \A n \in 1..N : pushed[n] = next(pushed[n - 1], n)
  <2>1. 0 \in 0..N /\ \A n \in 1..N : n \in 0..N /\ n # 0
    BY <1>2
  <2> HIDE DEF pushed
  <2> QED
    BY <1>6, <2>1
<1> HIDE DEF pushed
<1>8. \A n \in 1..N : pushed[n - 1] \in Seq(AllEntries) =>
        /\ pushed[n] \in Seq(AllEntries)
        /\ Range(pushed[n - 1]) \subseteq Range(pushed[n])
        /\ Range(pushed[n]) \subseteq Range(pushed[n - 1]) \cup denied
  BY <1>3, <1>7
<1>9. \A n \in 0..N : /\ pushed[n] \in Seq(AllEntries)
                      /\ Range(entries) \subseteq Range(pushed[n])
                      /\ Range(pushed[n]) \subseteq Range(entries) \cup denied
  BY <1>2, <1>7, <1>8, PushedLists
<1>10. \A n \in 0..N : \A i \in 1..n :
        existing[i].access = "none" => existing[i] \in Range(pushed[n])
  <2> DEFINE Good == {n \in 0..N : \A i \in 1..n :
                        existing[i].access = "none" => existing[i] \in Range(pushed[n])}
  <2>1. 0 \in Good
    BY <1>2
  <2>2. ASSUME NEW n \in 1..N, n - 1 \in Good PROVE n \in Good
    <3>1. n \in 0..N /\ n - 1 \in 0..N /\ \A i \in 1..n : i = n \/ i \in 1..(n - 1)
      BY <1>2
    <3>2. /\ Range(pushed[n - 1]) \subseteq Range(pushed[n])
          /\ existing[n].access = "none" => existing[n] \in Range(pushed[n])
      BY <1>3, <1>7, <1>9, <3>1
    <3>3. \A i \in 1..(n - 1) :
            existing[i].access = "none" => existing[i] \in Range(pushed[n])
      BY <2>2, <3>2
    <3> QED
      BY <3>1, <3>2, <3>3
  <2> HIDE DEF Good
  <2>3. \A n \in 0..N : n \in Good
    BY <1>2, <2>1, <2>2, ListInduction
  <2> QED
    BY <2>3 DEF Good
<1>11. N \in 0..N
  BY <1>2
<1>12. denied \subseteq Range(pushed[N])
  BY <1>10, <1>4, <1>11 DEF denied
<1> QED
  BY <1>1, <1>9, <1>11, <1>12 DEF denied

\* default_read_only_subpaths_for_writable_root, as a set.
LEMMA DefaultReadOnlyFacts ==
  ASSUME NEW root \in Seq(Names), NEW protect \in BOOLEAN
  PROVE  /\ DefaultReadOnly(root, protect) \in Seq(Seq(Names))
         /\ \A x : x \in Range(DefaultReadOnly(root, protect)) <=>
              \/ /\ x = GitDir /\ GitDir # Append(root, Git) /\ Exists(GitDir)
                 /\ HostKind(Append(root, Git)) = "file"
              \/ x = Append(root, Git) /\ Exists(x)
              \/ x = Append(root, Agents) /\ IsDir(x)
              \/ x = Append(root, Codex) /\ (protect \/ IsDir(x))
<1> DEFINE git == Append(root, Git)
           agents == Append(root, Agents)
           codex == Append(root, Codex)
           pointsTo == HostKind(git) = "file" /\ GitDir # git /\ Exists(GitDir)
           a == IF pointsTo THEN <<GitDir>> ELSE <<>>
           b == IF Exists(git) THEN <<git>> ELSE <<>>
           c == IF IsDir(agents) THEN <<agents>> ELSE <<>>
           d == IF protect \/ IsDir(codex) THEN <<codex>> ELSE <<>>
<1>1. git \in Seq(Names) /\ agents \in Seq(Names) /\ codex \in Seq(Names)
  BY PolicyAssumption DEF PolicyAssumption
<1>2. Exists(GitDir) => GitDir \in Seq(Names)
  BY PolicyAssumption DEF PolicyAssumption, Exists, HostKind
<1> HIDE DEF git, agents, codex
<1>3. \A S : \A x \in S : <<x>> \in Seq(S) /\ Range(<<x>>) = {x}
  <2> SUFFICES ASSUME NEW S, NEW x \in S PROVE <<x>> \in Seq(S) /\ Range(<<x>>) = {x}
    OBVIOUS
  <2>1. DOMAIN <<x>> = 1..1 /\ <<x>>[1] = x /\ 1..1 = {1}
    OBVIOUS
  <2> QED
    BY <2>1 DEF Range
<1>4. << >> \in Seq(Seq(Names)) /\ Range(<< >>) = {}
  BY DEF Range
<1>5. a \in Seq(Seq(Names)) /\ \A x : x \in Range(a) <=> x = GitDir /\ pointsTo
  BY <1>2, <1>3, <1>4
<1>6. b \in Seq(Seq(Names)) /\ \A x : x \in Range(b) <=> x = git /\ Exists(git)
  BY <1>1, <1>3, <1>4
<1>7. c \in Seq(Seq(Names)) /\ \A x : x \in Range(c) <=> x = agents /\ IsDir(agents)
  BY <1>1, <1>3, <1>4
<1>8. d \in Seq(Seq(Names)) /\ \A x : x \in Range(d) <=> x = codex /\ (protect \/ IsDir(codex))
  BY <1>1, <1>3, <1>4
<1> DEFINE ab == a \o b
           abc == ab \o c
           abcd == abc \o d
<1>9. DefaultReadOnly(root, protect) = abcd
  BY DEF DefaultReadOnly, git, agents, codex
<1> HIDE DEF a, b, c, d
<1>10. ab \in Seq(Seq(Names)) /\ Range(ab) = Range(a) \cup Range(b)
  BY <1>5, <1>6, ConcatRange
<1> HIDE DEF ab
<1>11. abc \in Seq(Seq(Names)) /\ Range(abc) = Range(ab) \cup Range(c)
  BY <1>7, <1>10, ConcatRange
<1> HIDE DEF abc
<1>12. abcd \in Seq(Seq(Names)) /\ Range(abcd) = Range(abc) \cup Range(d)
  BY <1>8, <1>11, ConcatRange
<1> HIDE DEF abcd
<1>13. \A x : x \in Range(DefaultReadOnly(root, protect)) <=>
         \/ x = GitDir /\ pointsTo
         \/ x = git /\ Exists(git)
         \/ x = agents /\ IsDir(agents)
         \/ x = codex /\ (protect \/ IsDir(codex))
  BY <1>5, <1>6, <1>7, <1>8, <1>9, <1>10, <1>11, <1>12, Zenon
<1>14. DefaultReadOnly(root, protect) \in Seq(Seq(Names))
  BY <1>9, <1>12
<1> HIDE DEF pointsTo
<1>15. pointsTo <=> HostKind(git) = "file" /\ GitDir # git /\ Exists(GitDir)
  BY DEF pointsTo
<1>16. \A x : x \in Range(DefaultReadOnly(root, protect)) <=>
         \/ x = GitDir /\ GitDir # git /\ Exists(GitDir) /\ HostKind(git) = "file"
         \/ x = git /\ Exists(x)
         \/ x = agents /\ IsDir(x)
         \/ x = codex /\ (protect \/ IsDir(x))
  BY <1>13, <1>15
<1> QED
  BY <1>14, <1>16, Zenon DEF git, agents, codex

\* Path entries for a list of paths
LEMMA ReadOnlyPathsFacts ==
  ASSUME NEW paths \in Seq(Seq(Names))
  PROVE  /\ ReadOnlyPaths(paths) \in Seq(AllEntries)
         /\ Range(ReadOnlyPaths(paths)) = {PathEntry(x, "read") : x \in Range(paths)}
<1>1. /\ DOMAIN paths = 1..Len(paths) /\ Len(paths) \in Nat
      /\ \A i \in 1..Len(paths) : paths[i] \in Seq(Names)
  OBVIOUS
<1>2. \A x \in Seq(Names) : PathEntry(x, "read") \in AllEntries
  BY DEF PathEntry, Entry, AllEntries, PathTypes, Accesses, Rank
<1> DEFINE ro == [i \in DOMAIN paths |-> PathEntry(paths[i], "read")]
<1>3. ro \in [1..Len(paths) -> AllEntries]
  BY <1>1, <1>2
<1>4. ro \in Seq(AllEntries)
  BY <1>1, <1>3
<1>5. ReadOnlyPaths(paths) = ro /\ DOMAIN ro = DOMAIN paths
  BY DEF ReadOnlyPaths
<1>6. Range(ro) = {PathEntry(x, "read") : x \in Range(paths)}
  BY <1>5, Zenon DEF Range
<1> QED
  BY <1>4, <1>5, <1>6

\* The defaults of a list of roots, as entries
RootDefaults(roots) ==
  {PathEntry(x, "read") : x \in UNION {Range(DefaultReadOnly(r, FALSE)) : r \in Range(roots)}}

\* The same for the defaults of a list of roots, one root after the other.
LEMMA AppendDefaultsFacts ==
  ASSUME NEW entries \in Seq(AllEntries), NEW roots \in Seq(Seq(Names))
  PROVE  /\ AppendDefaults(entries, roots) \in Seq(AllEntries)
         /\ Range(entries) \subseteq Range(AppendDefaults(entries, roots))
         /\ Range(AppendDefaults(entries, roots)) \subseteq Range(entries) \cup RootDefaults(roots)
<1> DEFINE N == Len(roots)
           V == Seq(AllEntries)
           next(es, n) == AppendReadOnly(es, ReadOnlyPaths(DefaultReadOnly(roots[n], FALSE)))
           is(h) == h = [n \in 0..N |-> IF n = 0 THEN entries ELSE next(h[n - 1], n)]
           pushed == CHOOSE h : is(h)
<1>1. AppendDefaults(entries, roots) = pushed[N]
  BY Zenon DEF AppendDefaults
<1>2. N \in Nat /\ \A n \in 1..N : roots[n] \in Seq(Names) /\ roots[n] \in Range(roots)
  BY DEF Range
<1>3. ASSUME NEW n \in 1..N, NEW es \in V
      PROVE  /\ next(es, n) \in V /\ Range(es) \subseteq Range(next(es, n))
             /\ Range(next(es, n)) \subseteq Range(es) \cup RootDefaults(roots)
  <2> DEFINE new == ReadOnlyPaths(DefaultReadOnly(roots[n], FALSE))
  <2>1. /\ new \in Seq(AllEntries)
        /\ Range(new) = {PathEntry(x, "read") : x \in Range(DefaultReadOnly(roots[n], FALSE))}
    BY <1>2, DefaultReadOnlyFacts, ReadOnlyPathsFacts
  <2>2. Range(new) \subseteq RootDefaults(roots)
    BY <1>2, <2>1 DEF RootDefaults
  <2> HIDE DEF new
  <2>3. /\ AppendReadOnly(es, new) \in V /\ Range(es) \subseteq Range(AppendReadOnly(es, new))
        /\ Range(AppendReadOnly(es, new)) \subseteq Range(es) \cup Range(new)
    BY <2>1, AppendReadOnlyFacts
  <2> QED
    BY <2>2, <2>3 DEF new
<1> HIDE DEF N, next
<1>4. \E h : is(h)
  <2> DEFINE step == [n \in 1..N |-> [es \in V |-> next(es, n)]]
  <2>1. step \in Steps(N, V)
    BY <1>3 DEF Steps
  <2>2. PICK f : Follows(f, N, V, entries, step)
    <3> HIDE DEF step
    <3> QED
      BY <1>2, <2>1, Recursion
  <2>3. \A n \in 1..N : n - 1 \in 0..N /\ f[n - 1] \in V
    BY <1>2, <2>2 DEF Follows
  <2>4. \A n \in 1..N : f[n] = next(f[n - 1], n)
    BY <2>2, <2>3 DEF Follows
  <2>5. \A n \in 0..N : n = 0 \/ n \in 1..N
    OBVIOUS
  <2>6. f = [n \in 0..N |-> IF n = 0 THEN entries ELSE next(f[n - 1], n)]
    BY <2>2, <2>4, <2>5 DEF Follows
  <2> QED
    BY <2>6
<1>5. is(pushed)
  BY <1>4
<1>6. pushed[0] = entries /\ \A n \in 1..N : pushed[n] = next(pushed[n - 1], n)
  <2>1. 0 \in 0..N /\ \A n \in 1..N : n \in 0..N /\ n # 0
    BY <1>2
  <2> HIDE DEF pushed
  <2> QED
    BY <1>5, <2>1
<1> HIDE DEF pushed
<1>7. \A n \in 1..N : pushed[n - 1] \in Seq(AllEntries) =>
        /\ pushed[n] \in Seq(AllEntries)
        /\ Range(pushed[n - 1]) \subseteq Range(pushed[n])
        /\ Range(pushed[n]) \subseteq Range(pushed[n - 1]) \cup RootDefaults(roots)
  BY <1>3, <1>6
<1>8. \A n \in 0..N : /\ pushed[n] \in Seq(AllEntries)
                      /\ Range(entries) \subseteq Range(pushed[n])
                      /\ Range(pushed[n]) \subseteq Range(entries) \cup RootDefaults(roots)
  BY <1>2, <1>6, <1>7, PushedLists
<1>9. N \in 0..N
  BY <1>2
<1> QED
  BY <1>1, <1>8, <1>9

-----------------------------------------------------------------------------
(* Types                                                                    *)

\* The policies there are: only a restricted one has entries.
Policies ==
  {pol \in [kind : Kinds, entries : Seq(AllEntries)] :
     pol.kind # "restricted" => pol.entries = <<>>}

\* What the constructors of a policy make
LEMMA Constructed ==
  /\ \A entries \in Seq(AllEntries) :
       Restricted(entries) \in Policies /\ Restricted(entries).kind = "restricted"
                                       /\ Restricted(entries).entries = entries
  /\ Unrestricted \in Policies /\ Unrestricted.kind = "unrestricted"
  /\ External \in Policies /\ External.kind = "external"
<1>1. << >> \in Seq(AllEntries)
  OBVIOUS
<1> QED
  BY <1>1 DEF Restricted, Unrestricted, External, Policies, Kinds

\* The entries that the code itself writes
LEMMA OwnEntries ==
  /\ \A x \in Seq(Names), access \in Accesses : PathEntry(x, access) \in AllEntries
  /\ \A type \in {"root", "project", "slash_tmp", "tmpdir"}, access \in Accesses :
       Entry(type, <<>>, access) \in AllEntries
  /\ \A n \in MetaNames : Entry("project", <<n>>, "read") \in AllEntries
  /\ "read" \in Accesses /\ "write" \in Accesses /\ "none" \in Accesses
<1>1. << >> \in Seq(Names) /\ \A n \in MetaNames : <<n>> \in Seq(Names)
  BY PolicyAssumption DEF PolicyAssumption, MetaNames
<1> QED
  BY <1>1 DEF PathEntry, Entry, AllEntries, PathTypes, Accesses, Rank

\* The roots of the older policies that callers select are paths.
LEMMA LegacyRoots ==
  ASSUME NEW leg \in LegacyPolicies, leg.type = "workspace"
  PROVE  leg.roots \in Seq(Seq(Names))
<1> DEFINE W == {WorkspaceWrite(rs, slashTmp, TRUE) :
                   rs \in {<<>>} \cup {<<p>> : p \in Requests}, slashTmp \in BOOLEAN}
<1>1. leg \in W
  <2>1. ASSUME NEW t \in {"full", "external", "read"} PROVE leg # Legacy(t)
    BY DEF Legacy
  <2>2. LegacyPolicies = {Legacy(t) : t \in {"full", "external", "read"}} \cup W
    BY DEF LegacyPolicies
  <2> HIDE DEF W
  <2> QED
    BY <2>1, <2>2
<1>2. leg.roots \in {<<>>} \cup {<<p>> : p \in Requests}
  BY <1>1 DEF WorkspaceWrite
<1>3. \A p \in Requests : p \in Seq(Names)
  BY PolicyAssumption DEF PolicyAssumption
<1>4. << >> \in Seq(Seq(Names)) /\ \A p \in Seq(Names) : <<p>> \in Seq(Seq(Names))
  OBVIOUS
<1> QED
  BY <1>2, <1>3, <1>4

\* The list that workspace_write starts from
LEMMA WorkspaceEntriesTyped ==
  ASSUME NEW leg, leg.roots \in Seq(Seq(Names))
  PROVE  WorkspaceEntries(leg) \in Seq(AllEntries)
<1> DEFINE a == <<Entry("root", <<>>, "read"), Entry("project", <<>>, "write")>>
           b == IF leg.slashTmp THEN <<Entry("slash_tmp", <<>>, "write")>> ELSE <<>>
           c == IF leg.tmpdir THEN <<Entry("tmpdir", <<>>, "write")>> ELSE <<>>
           d == [i \in DOMAIN leg.roots |-> PathEntry(leg.roots[i], "write")]
<1>1. a \in Seq(AllEntries) /\ b \in Seq(AllEntries) /\ c \in Seq(AllEntries)
  <2>1. \A e, f \in AllEntries : <<e, f>> \in Seq(AllEntries) /\ <<e>> \in Seq(AllEntries)
    OBVIOUS
  <2>2. << >> \in Seq(AllEntries)
    OBVIOUS
  <2>3. /\ Entry("root", <<>>, "read") \in AllEntries
        /\ Entry("project", <<>>, "write") \in AllEntries
        /\ Entry("slash_tmp", <<>>, "write") \in AllEntries
        /\ Entry("tmpdir", <<>>, "write") \in AllEntries
    BY OwnEntries
  <2> QED
    BY <2>1, <2>2, <2>3, Zenon
<1>2. d \in Seq(AllEntries)
  <2>1. /\ DOMAIN leg.roots = 1..Len(leg.roots) /\ Len(leg.roots) \in Nat
        /\ \A i \in 1..Len(leg.roots) : leg.roots[i] \in Seq(Names)
    OBVIOUS
  <2>2. \A i \in 1..Len(leg.roots) : PathEntry(leg.roots[i], "write") \in AllEntries
    BY <2>1, OwnEntries
  <2>3. d \in [1..Len(leg.roots) -> AllEntries]
    BY <2>1, <2>2
  <2> QED
    BY <2>1, <2>3
<1>3. WorkspaceEntries(leg) = a \o b \o c \o d
  BY DEF WorkspaceEntries
<1> HIDE DEF a, b, c, d
<1>4. a \o b \o c \o d \in Seq(AllEntries)
  BY <1>1, <1>2
<1> QED
  BY <1>3, <1>4

\* The entries of the older policy's runtime form before its defaults are added
LEMMA WorkspaceEntriesAre ==
  ASSUME NEW leg, leg.roots \in Seq(Seq(Names))
  PROVE  \A e : e \in Range(WorkspaceEntries(leg)) <=>
           \/ e = Entry("root", <<>>, "read") \/ e = Entry("project", <<>>, "write")
           \/ leg.slashTmp /\ e = Entry("slash_tmp", <<>>, "write")
           \/ leg.tmpdir /\ e = Entry("tmpdir", <<>>, "write")
           \/ \E r \in Range(leg.roots) : e = PathEntry(r, "write")
<1> DEFINE A == AllEntries
           ro == Entry("root", <<>>, "read")
           pr == Entry("project", <<>>, "write")
           st == Entry("slash_tmp", <<>>, "write")
           td == Entry("tmpdir", <<>>, "write")
           a == <<ro, pr>>
           b == IF leg.slashTmp THEN <<st>> ELSE <<>>
           c == IF leg.tmpdir THEN <<td>> ELSE <<>>
           d == [i \in DOMAIN leg.roots |-> PathEntry(leg.roots[i], "write")]
           ab == a \o b
           abc == ab \o c
           abcd == abc \o d
<1>1. WorkspaceEntries(leg) = abcd
  BY DEF WorkspaceEntries
<1>2. ro \in A /\ pr \in A /\ st \in A /\ td \in A
  BY OwnEntries
<1> HIDE DEF A, ro, pr, st, td
<1>3. << >> \in Seq(A) /\ Range(<< >>) = {}
  BY DEF Range
<1>4. \A x \in A : <<x>> \in Seq(A) /\ Range(<<x>>) = {x}
  <2> SUFFICES ASSUME NEW x \in A PROVE <<x>> \in Seq(A) /\ Range(<<x>>) = {x}
    OBVIOUS
  <2>1. DOMAIN <<x>> = 1..1 /\ <<x>>[1] = x /\ 1..1 = {1}
    OBVIOUS
  <2> QED
    BY <2>1 DEF Range
<1>5. a \in Seq(A) /\ \A e : e \in Range(a) <=> e = ro \/ e = pr
  <2>1. a \in Seq(A) /\ DOMAIN a = 1..2 /\ a[1] = ro /\ a[2] = pr /\ 1..2 = {1, 2}
    BY <1>2
  <2> QED
    BY <2>1 DEF Range
<1>6. b \in Seq(A) /\ \A e : e \in Range(b) <=> leg.slashTmp /\ e = st
  BY <1>2, <1>3, <1>4
<1>7. c \in Seq(A) /\ \A e : e \in Range(c) <=> leg.tmpdir /\ e = td
  BY <1>2, <1>3, <1>4
<1>8. /\ d \in Seq(A)
      /\ \A e : e \in Range(d) <=> \E r \in Range(leg.roots) : e = PathEntry(r, "write")
  <2>1. /\ DOMAIN leg.roots = 1..Len(leg.roots) /\ Len(leg.roots) \in Nat
        /\ \A i \in 1..Len(leg.roots) : leg.roots[i] \in Seq(Names)
    OBVIOUS
  <2>2. \A i \in 1..Len(leg.roots) : PathEntry(leg.roots[i], "write") \in A
    BY <2>1, OwnEntries DEF A
  <2>3. d \in [1..Len(leg.roots) -> A] /\ DOMAIN d = DOMAIN leg.roots
    BY <2>1, <2>2
  <2>4. d \in Seq(A)
    BY <2>1, <2>3
  <2>5. \A e : e \in Range(d) <=> \E i \in DOMAIN leg.roots : e = PathEntry(leg.roots[i], "write")
    BY <2>3, Zenon DEF Range
  <2>6. Range(leg.roots) = {leg.roots[i] : i \in DOMAIN leg.roots}
    BY DEF Range
  <2> QED
    BY <2>4, <2>5, <2>6
<1> HIDE DEF a, b, c, d
<1>9. ab \in Seq(A) /\ Range(ab) = Range(a) \cup Range(b)
  BY <1>5, <1>6, ConcatRange
<1> HIDE DEF ab
<1>10. abc \in Seq(A) /\ Range(abc) = Range(ab) \cup Range(c)
  BY <1>7, <1>9, ConcatRange
<1> HIDE DEF abc
<1>11. abcd \in Seq(A) /\ Range(abcd) = Range(abc) \cup Range(d)
  BY <1>8, <1>10, ConcatRange
<1> HIDE DEF abcd
<1> QED
  BY <1>1, <1>5, <1>6, <1>7, <1>8, <1>9, <1>10, <1>11, Zenon DEF ro, pr, st, td

\* The roots that to_legacy_sandbox_policy collects are paths.
LEMMA WorkspaceRootsTyped ==
  ASSUME NEW entries \in Seq(AllEntries)
  PROVE  WorkspaceRoots(entries) \in Seq(Seq(Names))
<1> DEFINE N == Len(entries)
           V == Seq(Seq(Names))
           next(rs, n) ==
             IF /\ entries[n].access = "write" /\ entries[n].type \in {"path", "project"}
                /\ ~NamesCwd(entries[n])
                /\ ResolveEntry(entries[n]) \notin Range(rs)
               THEN Append(rs, ResolveEntry(entries[n])) ELSE rs
           is(h) == h = [n \in 0..N |-> IF n = 0 THEN <<>> ELSE next(h[n - 1], n)]
           pushed == CHOOSE h : is(h)
<1>1. WorkspaceRoots(entries) = pushed[N]
  BY Zenon DEF WorkspaceRoots
<1>2. N \in Nat /\ \A n \in 1..N : entries[n] \in AllEntries
  OBVIOUS
<1>3. ASSUME NEW n \in 1..N, NEW rs \in V PROVE next(rs, n) \in V
  <2>1. CASE entries[n].type \in {"path", "project"}
    <3>1. entries[n].at \in Seq(Names) /\ Cwd \in Seq(Names)
      BY <1>2, PolicyAssumption DEF AllEntries, PolicyAssumption
    <3>2. ResolveEntry(entries[n]) \in {entries[n].at, Cwd \o entries[n].at}
      BY <2>1 DEF ResolveEntry
    <3>3. Cwd \o entries[n].at \in Seq(Names)
      BY <3>1
    <3>4. ResolveEntry(entries[n]) \in Seq(Names)
      BY <3>1, <3>2, <3>3, Zenon
    <3>5. Append(rs, ResolveEntry(entries[n])) \in V
      BY <3>4
    <3> QED
      BY <3>5
  <2> QED
    BY <2>1
<1> HIDE DEF N, next
<1>4. \E h : is(h)
  <2> DEFINE step == [n \in 1..N |-> [rs \in V |-> next(rs, n)]]
  <2>1. step \in Steps(N, V)
    BY <1>3 DEF Steps
  <2>2. PICK f : Follows(f, N, V, <<>>, step)
    <3>1. <<>> \in V
      OBVIOUS
    <3> HIDE DEF step
    <3> QED
      BY <1>2, <2>1, <3>1, Recursion
  <2>3. \A n \in 1..N : n - 1 \in 0..N /\ f[n - 1] \in V
    BY <1>2, <2>2 DEF Follows
  <2>4. \A n \in 1..N : f[n] = next(f[n - 1], n)
    BY <2>2, <2>3 DEF Follows
  <2>5. \A n \in 0..N : n = 0 \/ n \in 1..N
    OBVIOUS
  <2>6. f = [n \in 0..N |-> IF n = 0 THEN <<>> ELSE next(f[n - 1], n)]
    BY <2>2, <2>4, <2>5 DEF Follows
  <2> QED
    BY <2>6
<1>5. is(pushed)
  BY <1>4
<1>6. pushed[0] = <<>> /\ \A n \in 1..N : pushed[n] = next(pushed[n - 1], n)
  <2>1. 0 \in 0..N /\ \A n \in 1..N : n \in 0..N /\ n # 0
    BY <1>2
  <2> HIDE DEF pushed
  <2> QED
    BY <1>5, <2>1
<1> HIDE DEF pushed
<1> DEFINE Good == {n \in 0..N : pushed[n] \in V}
<1>7. 0 \in Good
  <2>1. <<>> \in V /\ 0 \in 0..N
    BY <1>2
  <2> QED
    BY <1>6, <2>1
<1>8. ASSUME NEW n \in 1..N, n - 1 \in Good PROVE n \in Good
  <2>1. n \in 0..N /\ pushed[n] = next(pushed[n - 1], n)
    BY <1>2, <1>6
  <2> QED
    BY <1>3, <1>8, <2>1
<1> HIDE DEF Good
<1>9. N \in Good
  <2>1. N \in 0..N
    BY <1>2
  <2> QED
    BY <1>2, <1>7, <1>8, <2>1, ListInduction
<1> QED
  BY <1>1, <1>9 DEF Good

\* What an older policy becomes
LEMMA FromLegacyTyped ==
  ASSUME NEW leg \in LegacyPolicies
  PROVE  FromLegacy(leg) \in Policies /\ FromLegacyForCwd(leg) \in Policies
<1>1. leg.type \in {"full", "external", "read", "workspace"}
  BY DEF LegacyPolicies, Legacy, WorkspaceWrite
<1>2. CASE leg.type = "full"
  BY <1>2, Constructed DEF FromLegacy, FromLegacyForCwd
<1>3. CASE leg.type = "external"
  BY <1>3, Constructed DEF FromLegacy, FromLegacyForCwd
<1>4. CASE leg.type = "read"
  <2>1. <<Entry("root", <<>>, "read")>> \in Seq(AllEntries)
    <3>1. Entry("root", <<>>, "read") \in AllEntries
      BY OwnEntries
    <3> QED
      BY <3>1
  <2>2. Restricted(<<Entry("root", <<>>, "read")>>) \in Policies
    BY <2>1, Constructed, Zenon
  <2> QED
    BY <1>4, <2>2 DEF FromLegacy, FromLegacyForCwd
<1>5. CASE leg.type = "workspace"
  <2> DEFINE symbolic == <<Entry("project", <<Git>>, "read"), Entry("project", <<Agents>>, "read"),
                           Entry("project", <<Codex>>, "read")>>
             some == AppendReadOnly(WorkspaceEntries(leg), symbolic)
             all == AppendDefaults(some, leg.roots)
             own == ReadOnlyPaths(DefaultReadOnly(Cwd, TRUE))
             more == AppendReadOnly(all, own)
  <2>1. leg.roots \in Seq(Seq(Names)) /\ WorkspaceEntries(leg) \in Seq(AllEntries)
    BY <1>5, LegacyRoots, WorkspaceEntriesTyped
  <2>2. symbolic \in Seq(AllEntries)
    <3>1. /\ Entry("project", <<Git>>, "read") \in AllEntries
          /\ Entry("project", <<Agents>>, "read") \in AllEntries
          /\ Entry("project", <<Codex>>, "read") \in AllEntries
      BY OwnEntries DEF MetaNames
    <3>2. \A e, f, g \in AllEntries : <<e, f, g>> \in Seq(AllEntries)
      OBVIOUS
    <3> QED
      BY <3>1, <3>2, Zenon
  <2> HIDE DEF symbolic
  <2>3. some \in Seq(AllEntries)
    BY <2>1, <2>2, AppendReadOnlyFacts
  <2> HIDE DEF some
  <2>4. all \in Seq(AllEntries)
    BY <2>1, <2>3, AppendDefaultsFacts
  <2>5. FromLegacy(leg) = Restricted(all)
    BY <1>5 DEF FromLegacy, some, symbolic
  <2>6. own \in Seq(AllEntries)
    <3>1. Cwd \in Seq(Names) /\ TRUE \in BOOLEAN
      BY PolicyAssumption DEF PolicyAssumption
    <3>2. DefaultReadOnly(Cwd, TRUE) \in Seq(Seq(Names))
      BY <3>1, DefaultReadOnlyFacts
    <3> QED
      BY <3>2, ReadOnlyPathsFacts
  <2> HIDE DEF all, own
  <2>7. more \in Seq(AllEntries)
    BY <2>4, <2>6, AppendReadOnlyFacts
  <2> HIDE DEF more
  <2>8. AppendDefaults(more, leg.roots) \in Seq(AllEntries)
    BY <2>1, <2>7, AppendDefaultsFacts
  <2>9. FromLegacy(leg).entries = all
    BY <2>4, <2>5, Constructed
  <2>10. FromLegacyForCwd(leg) = Restricted(AppendDefaults(more, leg.roots))
    BY <1>5, <2>9 DEF FromLegacyForCwd, WithDefaults, more, own
  <2> QED
    BY <2>4, <2>5, <2>8, <2>10, Constructed
<1> QED
  BY <1>1, <1>2, <1>3, <1>4, <1>5

\* from_legacy_sandbox_policy_preserving_deny_entries and
\* preserve_deny_read_restrictions_from: a restricted result has all denials.
LEMMA DenialsKept ==
  ASSUME NEW pol \in Policies, NEW new \in Policies,
         NEW leg \in LegacyPolicies, NEW made \in {PreserveDenies(new, pol),
                                                   FromLegacyKeepingDenies(leg, pol)}
  PROVE  /\ made \in Policies
         /\ made.kind = "restricted" => DenyEntries(pol) \subseteq DenyEntries(made)
<1> DEFINE deny(entries) == AppendDenials(entries, pol.entries)
<1>1. pol.entries \in Seq(AllEntries)
  BY DEF Policies
<1>2. ASSUME NEW base \in Policies
      PROVE  /\ Restricted(deny(base.entries)) \in Policies
             /\ DenyEntries(pol) \subseteq DenyEntries(Restricted(deny(base.entries)))
  <2>1. base.entries \in Seq(AllEntries)
    BY DEF Policies
  <2>2. /\ deny(base.entries) \in Seq(AllEntries)
        /\ {e \in Range(pol.entries) : e.access = "none"} \subseteq Range(deny(base.entries))
    BY <1>1, <2>1, AppendDenialsFacts
  <2>3. /\ Restricted(deny(base.entries)) \in Policies
        /\ Restricted(deny(base.entries)).entries = deny(base.entries)
    BY <2>2, Constructed
  <2> QED
    BY <2>2, <2>3 DEF DenyEntries, EntriesOf
<1> HIDE DEF deny
<1>3. CASE made = PreserveDenies(new, pol)
  <2> DEFINE base == IF new.kind = "unrestricted" /\ DenyEntries(pol) # {}
                       THEN Restricted(<<Entry("root", <<>>, "write")>>) ELSE new
  <2>1. base \in Policies
    <3>1. Entry("root", <<>>, "write") \in AllEntries
      BY OwnEntries
    <3>2. <<Entry("root", <<>>, "write")>> \in Seq(AllEntries)
      BY <3>1
    <3> QED
      BY <3>2, Constructed
  <2>2. made = IF base.kind # "restricted" THEN base ELSE Restricted(deny(base.entries))
    BY <1>3 DEF PreserveDenies, deny
  <2> HIDE DEF base
  <2> QED
    BY <1>2, <2>1, <2>2
<1>4. CASE made = FromLegacyKeepingDenies(leg, pol)
  <2> DEFINE base == FromLegacyForCwd(leg)
  <2>1. base \in Policies
    BY FromLegacyTyped
  <2>2. made = IF base.kind # "restricted" THEN base ELSE Restricted(deny(base.entries))
    BY <1>4 DEF FromLegacyKeepingDenies, deny
  <2> HIDE DEF base
  <2> QED
    BY <1>2, <2>1, <2>2
<1> QED
  BY <1>3, <1>4

\* with_additional_legacy_workspace_writable_roots: every entry stays, the write
\* entry is there, and what is added besides only reads.
LEMMA LegacyRootEntries ==
  ASSUME NEW pol \in Policies, pol.kind = "restricted", NEW x \in Seq(Names)
  PROVE  /\ WithLegacyRoot(pol, x) \in Policies
         /\ WithLegacyRoot(pol, x).kind = "restricted"
         /\ EntriesOf(pol) \cup {PathEntry(x, "write")} \subseteq EntriesOf(WithLegacyRoot(pol, x))
         /\ DenyEntries(WithLegacyRoot(pol, x)) = DenyEntries(pol)
<1> DEFINE grant == PathEntry(x, "write")
           writes == IF grant \in EntriesOf(pol) THEN pol.entries ELSE Append(pol.entries, grant)
           new == ReadOnlyPaths(DefaultReadOnly(x, FALSE))
           all == AppendReadOnly(writes, new)
<1>1. pol.entries \in Seq(AllEntries) /\ grant \in AllEntries /\ grant.access = "write"
  BY OwnEntries DEF Policies, PathEntry, Entry
<1>2. writes \in Seq(AllEntries) /\ Range(writes) = EntriesOf(pol) \cup {grant}
  <2>1. Append(pol.entries, grant) \in Seq(AllEntries)
        /\ Range(Append(pol.entries, grant)) = Range(pol.entries) \cup {grant}
    BY <1>1, AppendRange
  <2> QED
    BY <1>1, <2>1 DEF EntriesOf
<1>3. DefaultReadOnly(x, FALSE) \in Seq(Seq(Names))
  BY DefaultReadOnlyFacts
<1>4. new \in Seq(AllEntries) /\ \A e \in Range(new) : e.access = "read"
  <2>1. new \in Seq(AllEntries)
        /\ Range(new) = {PathEntry(y, "read") : y \in Range(DefaultReadOnly(x, FALSE))}
    BY <1>3, ReadOnlyPathsFacts
  <2>2. \A y : PathEntry(y, "read").access = "read"
    BY DEF PathEntry, Entry
  <2> HIDE DEF new
  <2> QED
    BY <2>1, <2>2
<1>5. WithLegacyRoot(pol, x) = Restricted(all)
  BY DEF WithLegacyRoot
<1> HIDE DEF writes, new, grant
<1>6. /\ all \in Seq(AllEntries) /\ Range(writes) \subseteq Range(all)
      /\ Range(all) \subseteq Range(writes) \cup Range(new)
  BY <1>2, <1>4, AppendReadOnlyFacts
<1> HIDE DEF all
<1>7. /\ Restricted(all) \in Policies /\ Restricted(all).kind = "restricted"
      /\ Restricted(all).entries = all
  BY <1>6, Constructed
<1> QED
  BY <1>1, <1>2, <1>4, <1>5, <1>6, <1>7 DEF EntriesOf, DenyEntries, grant

\* materialize_project_roots_with_cwd: every entry keeps its place, its path and
\* its access.
LEMMA MaterializedEntries ==
  ASSUME NEW pol \in Policies
  PROVE  /\ Materialized(pol) \in Policies
         /\ Materialized(pol).kind = pol.kind
         /\ \A e \in EntriesOf(pol) : \E f \in EntriesOf(Materialized(pol)) :
              f.access = e.access /\ (ResolveEntry(e) # NoPath => ResolveEntry(f) = ResolveEntry(e))
<1> DEFINE turn(e) == IF e.type = "project" THEN PathEntry(ResolveEntry(e), e.access) ELSE e
           turned == [i \in DOMAIN pol.entries |-> turn(pol.entries[i])]
<1>1. /\ pol \in [kind : Kinds, entries : Seq(AllEntries)] /\ pol.entries \in Seq(AllEntries)
      /\ DOMAIN pol.entries = 1..Len(pol.entries) /\ Len(pol.entries) \in Nat
  BY DEF Policies
<1>2. ASSUME NEW e \in AllEntries
      PROVE  /\ turn(e) \in AllEntries /\ turn(e).access = e.access
             /\ ResolveEntry(turn(e)) = ResolveEntry(e)
  <2>1. CASE e.type = "project"
    <3>1. ResolveEntry(e) = Cwd \o e.at /\ Cwd \in Seq(Names)
      BY <2>1, PolicyAssumption DEF ResolveEntry, PolicyAssumption
    <3>2. ResolveEntry(e) \in Seq(Names) /\ e.access \in Accesses
      BY <3>1 DEF AllEntries
    <3>3. turn(e) \in AllEntries
      BY <2>1, <3>2, OwnEntries
    <3>4. turn(e).type = "path" /\ turn(e).at = ResolveEntry(e) /\ turn(e).access = e.access
      BY <2>1 DEF PathEntry, Entry
    <3> HIDE DEF turn
    <3>5. ResolveEntry(turn(e)) = turn(e).at
      BY <3>4 DEF ResolveEntry
    <3> QED
      BY <3>3, <3>4, <3>5
  <2> QED
    BY <2>1
<1> HIDE DEF turn
<1>3. \A i \in 1..Len(pol.entries) : pol.entries[i] \in AllEntries
  BY <1>1
<1>4. turned \in Seq(AllEntries)
  <2>1. turned \in [1..Len(pol.entries) -> AllEntries]
    BY <1>1, <1>2, <1>3
  <2> QED
    BY <1>1, <2>1
<1>5. Materialized(pol) = [pol EXCEPT !.entries = turned]
  BY DEF Materialized, turn
<1>6. pol.kind # "restricted" => turned = << >>
  <2> SUFFICES ASSUME pol.kind # "restricted" PROVE turned = << >>
    OBVIOUS
  <2>1. DOMAIN pol.entries = {}
    BY DEF Policies
  <2> QED
    BY <2>1
<1>7. ASSUME NEW e \in EntriesOf(pol)
      PROVE  \E f \in Range(turned) : f.access = e.access /\ ResolveEntry(f) = ResolveEntry(e)
  <2>1. PICK i \in 1..Len(pol.entries) : e = pol.entries[i]
    BY <1>1 DEF EntriesOf, Range
  <2>2. turned[i] = turn(e) /\ turned[i] \in Range(turned)
    BY <1>1, <2>1 DEF Range
  <2> QED
    BY <1>2, <1>3, <2>1, <2>2
<1> HIDE DEF turned
<1>8. Materialized(pol) \in Policies /\ Materialized(pol).kind = pol.kind
      /\ Materialized(pol).entries = turned
  BY <1>1, <1>4, <1>5, <1>6 DEF Policies
<1> QED
  BY <1>7, <1>8 DEF EntriesOf

-----------------------------------------------------------------------------
(* Roots and decisions                                                      *)

\* What a writable root is: a path with a write entry that can be written.
LEMMA WritableRootsAre ==
  ASSUME NEW pol \in [kind : Kinds, entries : Seq(AllEntries)], ~HasFullWrite(pol)
  PROVE  /\ \A w \in WritableRoots(pol) :
              /\ w = WritableRoot(pol, w.root) /\ w.root \in Seq(Names)
              /\ [at |-> w.root, access |-> "write"] \in Resolved(pol) /\ CanWrite(pol, w.root)
         /\ \A e \in Resolved(pol) : e.access = "write" /\ CanWrite(pol, e.at) =>
              WritableRoot(pol, e.at) \in WritableRoots(pol)
         /\ \A x : /\ WritableRoot(pol, x).root = x
                  /\ WritableRoot(pol, x).names = {n \in MetaNames : ~CanWrite(pol, Append(x, n))}
                  /\ WritableRoot(pol, x).readOnly =
                       (Range(DefaultReadOnly(x, x = Cwd)) \ {e.at : e \in Resolved(pol)})
                         \cup Carveouts(pol, x)
<1> DEFINE chosen == {e \in Resolved(pol) : e.access = "write" /\ CanWrite(pol, e.at)}
<1>1. WritableRoots(pol) = {WritableRoot(pol, e.at) : e \in chosen}
  BY DEF WritableRoots
<1>2. \A x : /\ WritableRoot(pol, x).root = x
            /\ WritableRoot(pol, x).names = {n \in MetaNames : ~CanWrite(pol, Append(x, n))}
            /\ WritableRoot(pol, x).readOnly =
                 (Range(DefaultReadOnly(x, x = Cwd)) \ {e.at : e \in Resolved(pol)})
                   \cup Carveouts(pol, x)
  BY DEF WritableRoot
<1>3. \A e \in chosen : e.at \in Seq(Names) /\ e = [at |-> e.at, access |-> "write"]
  BY ResolvedTypes DEF ResolvedEntries
<1>4. ASSUME NEW w \in WritableRoots(pol)
      PROVE  /\ w = WritableRoot(pol, w.root) /\ w.root \in Seq(Names)
             /\ [at |-> w.root, access |-> "write"] \in Resolved(pol) /\ CanWrite(pol, w.root)
  <2>1. PICK e \in chosen : w = WritableRoot(pol, e.at)
    BY <1>1
  <2>2. w.root = e.at
    BY <1>2, <2>1
  <2> QED
    BY <1>3, <2>1, <2>2
<1> QED
  BY <1>1, <1>2, <1>4

\* The entry that decides a path that can be read, and how deep entries over it are
LEMMA DecidingEntry ==
  ASSUME NEW pol \in [kind : Kinds, entries : Seq(AllEntries)], pol.kind = "restricted",
         NEW p \in Seq(Names), NEW c \in Covering(pol, p)
  PROVE  \E e \in Covering(pol, p) :
           /\ e \in Resolved(pol) /\ e.at \in Seq(Names) /\ e.access \in Accesses
           /\ IsPrefix(e.at, p) /\ Len(e.at) \in 0..Len(p)
           /\ ResolveAccess(pol, p) = e.access /\ ResolveAccess(pol, e.at) = e.access
           /\ \A f \in Covering(pol, p) : /\ ~Outranks(f, e) /\ f.at \in Seq(Names)
                                          /\ Len(f.at) \in 0..Len(e.at)
<1>1. PICK e \in Covering(pol, p) :
        /\ ResolveAccess(pol, p) = e.access
        /\ \A f \in Covering(pol, p) : ~Outranks(f, e)
  BY DecisionIsStrongest
<1>2. \A f \in Covering(pol, p) : /\ f \in Resolved(pol) /\ f.at \in Seq(Names)
                                 /\ f.access \in Accesses /\ IsPrefix(f.at, p)
  BY ResolvedTypes DEF Covering, ResolvedEntries
<1>3. \A f \in Covering(pol, p) : Len(f.at) \in Nat
  BY <1>2
<1>4. \A f \in Covering(pol, p) : Len(f.at) \in 0..Len(e.at)
  BY <1>1, <1>3 DEF Outranks
<1>5. Len(e.at) \in 0..Len(p)
  BY <1>2, PrefixFacts
<1>6. ResolveAccess(pol, e.at) = e.access
  <2>1. Len(e.at) <= Len(e.at)
    BY <1>3
  <2> QED
    BY <1>1, <1>2, <2>1, SameDecisionAbove
<1> QED
  BY <1>1, <1>2, <1>4, <1>5, <1>6

\* A path below a writable root that is neither carved out of it nor has one of its
\* protected names can be written, except metadata that only a root below it
\* protects: entries that refuse something below the root are carved out of it, and
\* the metadata that its own entry protects is among its names.
LEMMA RootRefuses ==
  ASSUME NEW pol \in [kind : Kinds, entries : Seq(AllEntries)], pol.kind = "restricted",
         ~HasFullWrite(pol), NEW w \in WritableRoots(pol), NEW p \in Seq(Names),
         IsPrefix(w.root, p), \A r \in Carveouts(pol, w.root) : ~IsPrefix(r, p),
         p = w.root \/ p[Len(w.root) + 1] \notin w.names
  PROVE  \/ CanWrite(pol, p)
         \/ \E v \in WritableRoots(pol) :
              /\ IsStrictPrefix(w.root, v.root) /\ IsPrefix(v.root, p)
              /\ Len(v.root) \in 0..(Len(p) - 1) /\ Len(w.root) < Len(v.root)
              /\ p[Len(v.root) + 1] \in MetaNames
<1> DEFINE x == w.root
           grant == [at |-> x, access |-> "write"]
<1>1. /\ w = WritableRoot(pol, x) /\ x \in Seq(Names) /\ grant \in Resolved(pol)
      /\ CanWrite(pol, x)
  BY WritableRootsAre
<1>2. /\ IsPrefix(x, p) /\ \A r \in Carveouts(pol, x) : ~IsPrefix(r, p)
      /\ p = x \/ p[Len(x) + 1] \notin w.names
  OBVIOUS
<1>3. w.names = {n \in MetaNames : ~CanWrite(pol, Append(x, n))}
  <2>1. WritableRoot(pol, x).names = {n \in MetaNames : ~CanWrite(pol, Append(x, n))}
    BY WritableRootsAre
  <2> HIDE DEF x
  <2> QED
    BY <1>1, <2>1
<1> HIDE DEF x
<1>4. \A f \in Resolved(pol) :
        f.access # "write" /\ ~CanWrite(pol, f.at) /\ IsStrictPrefix(x, f.at) => ~IsPrefix(f.at, p)
  BY <1>2 DEF Carveouts
<1>5. grant \in Covering(pol, p)
  BY <1>1, <1>2 DEF Covering
<1>6. Len(x) \in 0..Len(p) /\ Len(p) \in Nat
  BY <1>1, <1>2, PrefixFacts
<1>7. ResolveAccess(pol, p) = "write"
  <2>1. PICK e \in Covering(pol, p) :
          /\ e \in Resolved(pol) /\ e.at \in Seq(Names) /\ e.access \in Accesses
          /\ IsPrefix(e.at, p) /\ Len(e.at) \in 0..Len(p)
          /\ ResolveAccess(pol, p) = e.access /\ ResolveAccess(pol, e.at) = e.access
          /\ \A f \in Covering(pol, p) : /\ ~Outranks(f, e) /\ f.at \in Seq(Names)
                                         /\ Len(f.at) \in 0..Len(e.at)
    BY <1>5, DecidingEntry
  <2> SUFFICES ASSUME e.access # "write" PROVE FALSE
    BY <2>1
  <2>2. Len(x) \in 0..Len(e.at)
    BY <1>5, <2>1
  <2>3. IsPrefix(x, e.at)
    BY <1>1, <1>2, <2>1, <2>2, PrefixOrder
  <2>4. ~CanWrite(pol, e.at)
    BY <2>1 DEF CanWrite
  <2>5. x # e.at
    BY <1>1, <2>4
  <2> QED
    BY <1>4, <2>1, <2>3, <2>4, <2>5 DEF IsStrictPrefix
<1> SUFFICES ASSUME MetadataWriteDenied(pol, p)
             PROVE  \E v \in WritableRoots(pol) :
                      /\ IsStrictPrefix(x, v.root) /\ IsPrefix(v.root, p)
                      /\ Len(v.root) \in 0..(Len(p) - 1) /\ Len(x) < Len(v.root)
                      /\ p[Len(v.root) + 1] \in MetaNames
  BY <1>7 DEF CanWrite, x
<1>8. MetadataChild(pol, p) # NoPath /\ ~ExplicitWrite(pol, MetadataChild(pol, p), p)
  BY DEF MetadataWriteDenied
<1>9. PICK i \in Protectors(pol, p) :
        /\ \A j \in Protectors(pol, p) : i <= j
        /\ Len(ResolveEntry(pol.entries[i])) + 1 \in 1..Len(p)
        /\ MetadataChild(pol, p) = SubSeq(p, 1, Len(ResolveEntry(pol.entries[i])) + 1)
  BY <1>8, MetadataChildIsAbove
<1> DEFINE y == ResolveEntry(pol.entries[i])
           m == SubSeq(p, 1, Len(y) + 1)
<1>10. /\ [at |-> y, access |-> "write"] \in Resolved(pol) /\ y \in Seq(Names)
       /\ IsPrefix(y, p) /\ y # p /\ p[Len(y) + 1] \in MetaNames
  <2>1. pol.entries[i] \in EntriesOf(pol) /\ y # NoPath /\ pol.entries[i].access = "write"
    BY DEF Protectors, EntriesOf, Range
  <2>2. [at |-> y, access |-> "write"] \in Resolved(pol)
    BY <2>1 DEF Resolved
  <2>3. y \in Seq(Names)
    BY <2>2, ResolvedTypes DEF ResolvedEntries
  <2> QED
    BY <2>2, <2>3 DEF Protectors, IsStrictPrefix
<1>11. Len(y) + 1 \in 1..Len(p) /\ MetadataChild(pol, p) = m
  BY <1>9
<1> HIDE DEF y
<1>12. Len(y) \in 0..(Len(p) - 1) /\ Len(y) \in Nat
  BY <1>6, <1>10, <1>11
<1>13. /\ m \in Seq(Names) /\ Len(m) = Len(y) + 1 /\ IsPrefix(m, p)
  BY <1>11, PrefixSelf
<1>14. \A f \in Resolved(pol) : f.access = "write" /\ IsPrefix(f.at, p) => ~IsPrefix(m, f.at)
  BY <1>8, <1>11 DEF ExplicitWrite
<1>15. ~IsPrefix(m, x)
  BY <1>1, <1>2, <1>14
<1>16. Len(x) <= Len(y)
  <2> SUFFICES ASSUME ~(Len(x) <= Len(y)) PROVE FALSE
    OBVIOUS
  <2>1. Len(m) <= Len(x)
    BY <1>6, <1>12, <1>13
  <2> HIDE DEF m
  <2> QED
    BY <1>1, <1>2, <1>13, <1>15, <2>1, PrefixOrder
<1>17. IsPrefix(x, y)
  BY <1>1, <1>2, <1>10, <1>16, PrefixOrder
<1>18. x # y
  <2> SUFFICES ASSUME x = y PROVE FALSE
    OBVIOUS
  <2> DEFINE n == p[Len(x) + 1]
  <2>1. p # x /\ n \in MetaNames /\ n \notin w.names
    BY <1>2, <1>10
  <2>2. m = Append(x, n)
    <3>1. \A k \in 1..Len(x) : x[k] = p[k]
      BY <1>1, <1>2, PrefixOrder
    <3>2. Len(x) + 1 \in 1..Len(p) /\ Len(x) \in Nat
      BY <1>6, <1>11
    <3> QED
      BY <1>1, <3>1, <3>2
  <2>3. CanWrite(pol, m)
    BY <1>3, <2>1, <2>2
  <2> HIDE DEF m
  <2>4. i \in Protectors(pol, m)
    <3>1. IsPrefix(y, m)
      BY <1>10, <1>12, <1>13, PrefixOrder
    <3>2. y # m
      BY <1>12, <1>13
    <3>3. m[Len(y) + 1] = p[Len(y) + 1]
      BY <1>12, <1>13, PrefixOrder
    <3> QED
      BY <1>10, <3>1, <3>2, <3>3 DEF Protectors, IsStrictPrefix, y
  <2>5. Protectors(pol, m) \subseteq Protectors(pol, p)
    BY <1>13, ProtectorsBelow
  <2>6. PICK j \in Protectors(pol, m) :
          /\ \A k \in Protectors(pol, m) : j <= k
          /\ MetadataChild(pol, m) = SubSeq(m, 1, Len(ResolveEntry(pol.entries[j])) + 1)
    BY <1>13, <2>4, MetadataChildIsAbove
  <2>7. j = i
    <3>1. i <= j /\ j <= i
      BY <1>9, <2>4, <2>5, <2>6
    <3>2. i \in Nat /\ j \in Nat
      BY DEF Protectors
    <3> QED
      BY <3>1, <3>2
  <2>8. MetadataChild(pol, m) = m
    <3>1. SubSeq(m, 1, Len(m)) = m
      BY <1>13
    <3> QED
      BY <1>13, <2>6, <2>7, <3>1 DEF y
  <2>9. ~ExplicitWrite(pol, m, m)
    <3> SUFFICES ASSUME NEW f \in Resolved(pol), f.access = "write", IsPrefix(f.at, m),
                        IsPrefix(m, f.at)
                 PROVE  FALSE
      BY DEF ExplicitWrite
    <3>1. f.at \in Seq(Names)
      BY ResolvedTypes DEF ResolvedEntries
    <3>2. IsPrefix(f.at, p)
      BY <1>13, <3>1, PrefixOrder
    <3> QED
      BY <1>14, <3>2
  <2>10. m # NoPath
    BY <1>13, PolicyAssumption DEF PolicyAssumption
  <2> QED
    BY <2>3, <2>8, <2>9, <2>10 DEF CanWrite, MetadataWriteDenied
<1>19. CanWrite(pol, y)
  <2> SUFFICES ASSUME ~CanWrite(pol, y) PROVE FALSE
    OBVIOUS
  <2>1. PICK d \in DenyEntries(pol) : ResolveEntry(d) = y
    BY <1>10, WriteEntryTakesEffect
  <2>2. d \in EntriesOf(pol) /\ d.access = "none" /\ y # NoPath
    BY <1>10, <2>1, PolicyAssumption DEF DenyEntries, PolicyAssumption
  <2>3. [at |-> y, access |-> "none"] \in Resolved(pol)
    BY <2>1, <2>2 DEF Resolved
  <2> QED
    BY <1>4, <1>10, <1>17, <1>18, <2>3 DEF IsStrictPrefix
<1>20. WritableRoot(pol, y) \in WritableRoots(pol) /\ WritableRoot(pol, y).root = y
  BY <1>10, <1>19, WritableRootsAre
<1>21. Len(x) < Len(y)
  <2>1. Len(x) # Len(y)
    BY <1>1, <1>10, <1>17, <1>18, PrefixSelf
  <2> QED
    BY <1>6, <1>12, <1>16, <2>1
<1> QED
  BY <1>10, <1>12, <1>17, <1>18, <1>20, <1>21 DEF IsStrictPrefix

\* What is carved out of a writable root is read-only in it, and its names are those
\* of the metadata that cannot be written.
LEMMA RootExcludes ==
  ASSUME NEW pol \in [kind : Kinds, entries : Seq(AllEntries)], ~HasFullWrite(pol),
         NEW w \in WritableRoots(pol)
  PROVE  /\ w.readOnly = (Range(DefaultReadOnly(w.root, w.root = Cwd))
                             \ {e.at : e \in Resolved(pol)}) \cup Carveouts(pol, w.root)
         /\ w.names = {n \in MetaNames : ~CanWrite(pol, Append(w.root, n))}
<1> DEFINE x == w.root
<1>1. /\ WritableRoot(pol, x).readOnly = (Range(DefaultReadOnly(x, x = Cwd))
                             \ {e.at : e \in Resolved(pol)}) \cup Carveouts(pol, x)
      /\ WritableRoot(pol, x).names = {n \in MetaNames : ~CanWrite(pol, Append(x, n))}
  BY WritableRootsAre
<1>2. w = WritableRoot(pol, x)
  BY WritableRootsAre
<1> HIDE DEF x
<1>3. /\ w.readOnly = (Range(DefaultReadOnly(x, x = Cwd))
                             \ {e.at : e \in Resolved(pol)}) \cup Carveouts(pol, x)
      /\ w.names = {n \in MetaNames : ~CanWrite(pol, Append(x, n))}
  BY <1>1, <1>2
<1> QED
  BY <1>3 DEF x

\* A writable root allows nothing that the policy refuses, except what only a root
\* below it protects.
LEMMA RootAllowsOnly ==
  ASSUME NEW pol \in [kind : Kinds, entries : Seq(AllEntries)], pol.kind = "restricted",
         ~HasFullWrite(pol), NEW w \in WritableRoots(pol), NEW p \in Seq(Names),
         IsPathWritable(w, p)
  PROVE  \/ CanWrite(pol, p)
         \/ \E v \in WritableRoots(pol) :
              /\ IsStrictPrefix(w.root, v.root) /\ IsPrefix(v.root, p)
              /\ Len(v.root) \in 0..(Len(p) - 1) /\ Len(w.root) < Len(v.root)
              /\ p[Len(v.root) + 1] \in MetaNames
<1>1. /\ IsPrefix(w.root, p) /\ \A r \in w.readOnly : ~IsPrefix(r, p)
      /\ p = w.root \/ p[Len(w.root) + 1] \notin w.names
  BY DEF IsPathWritable
<1>2. Carveouts(pol, w.root) \subseteq w.readOnly
  BY RootExcludes
<1> QED
  BY <1>1, <1>2, RootRefuses

\* What the policy allows, the root of the deciding entry allows, unless it is what
\* only roots protect: no entry below that root can refuse the path, and metadata
\* that the decision allows lies below metadata already.
LEMMA DecidingRootAllows ==
  ASSUME NEW pol \in [kind : Kinds, entries : Seq(AllEntries)], pol.kind = "restricted",
         ~HasFullWrite(pol), NEW p \in Seq(Names), CanWrite(pol, p), ~OnlyRootsProtect(p)
  PROVE  \E w \in WritableRoots(pol) :
           /\ IsPathWritable(w, p)
           /\ \A v \in WritableRoots(pol) : IsPrefix(v.root, p) => Len(v.root) <= Len(w.root)
<1>1. ResolveAccess(pol, p) = "write" /\ ~MetadataWriteDenied(pol, p)
  BY DEF CanWrite
<1>2. PICK c : c \in Covering(pol, p)
  BY <1>1 DEF ResolveAccess, Covering
<1>3. PICK e \in Covering(pol, p) :
        /\ e \in Resolved(pol) /\ e.at \in Seq(Names) /\ e.access \in Accesses
        /\ IsPrefix(e.at, p) /\ Len(e.at) \in 0..Len(p)
        /\ ResolveAccess(pol, p) = e.access /\ ResolveAccess(pol, e.at) = e.access
        /\ \A f \in Covering(pol, p) : /\ ~Outranks(f, e) /\ f.at \in Seq(Names)
                                       /\ Len(f.at) \in 0..Len(e.at)
  BY <1>2, DecidingEntry
<1> DEFINE x == e.at
           w == WritableRoot(pol, x)
<1>4. e.access = "write" /\ x \in Seq(Names) /\ IsPrefix(x, p) /\ Len(x) \in 0..Len(p)
  BY <1>1, <1>3
<1>5. \A f \in Resolved(pol) : IsPrefix(f.at, p) => Len(f.at) \in 0..Len(x)
  BY <1>3 DEF Covering
<1>6. CanWrite(pol, x)
  <2> SUFFICES ASSUME ~CanWrite(pol, x) PROVE FALSE
    OBVIOUS
  <2>1. [at |-> x, access |-> "write"] \in Resolved(pol)
    BY <1>3, <1>4 DEF Resolved
  <2>2. PICK d \in DenyEntries(pol) : ResolveEntry(d) = x
    BY <1>4, <2>1, WriteEntryTakesEffect
  <2>3. [at |-> x, access |-> "none"] \in Resolved(pol)
    <3>1. d \in EntriesOf(pol) /\ d.access = "none" /\ x # NoPath
      BY <1>4, PolicyAssumption DEF DenyEntries, PolicyAssumption
    <3> QED
      BY <2>2, <3>1 DEF Resolved
  <2>4. [at |-> x, access |-> "none"] \in Covering(pol, p)
    BY <1>4, <2>3 DEF Covering
  <2> QED
    BY <1>3, <1>4, <2>4 DEF Outranks, Rank
<1>7. /\ w \in WritableRoots(pol) /\ w.root = x
      /\ w.names = {n \in MetaNames : ~CanWrite(pol, Append(x, n))}
      /\ w.readOnly = (Range(DefaultReadOnly(x, x = Cwd)) \ {f.at : f \in Resolved(pol)})
                         \cup Carveouts(pol, x)
  BY <1>3, <1>4, <1>6, WritableRootsAre
<1> HIDE DEF x, w
<1>8. Len(x) \in Nat /\ Len(p) \in Nat
  BY <1>4
<1>9. \A v \in WritableRoots(pol) : IsPrefix(v.root, p) => Len(v.root) <= Len(x)
  <2> SUFFICES ASSUME NEW v \in WritableRoots(pol), IsPrefix(v.root, p)
               PROVE  Len(v.root) <= Len(x)
    OBVIOUS
  <2>1. [at |-> v.root, access |-> "write"] \in Resolved(pol)
    BY WritableRootsAre
  <2>2. Len(v.root) \in 0..Len(x)
    BY <1>5, <2>1
  <2> QED
    BY <1>8, <2>2
<1>10. ASSUME p # x, p[Len(x) + 1] \in MetaNames
       PROVE  FALSE
  <2>1. IsStrictPrefix(x, p) /\ Len(x) + 1 \in 1..Len(p)
    <3>1. Len(x) # Len(p)
      BY <1>4, <1>10, PrefixSelf
    <3> QED
      BY <1>4, <1>8, <1>10, <3>1 DEF IsStrictPrefix
  <2>2. Protectors(pol, p) # {}
    <3>1. PICK o \in EntriesOf(pol) :
            ResolveEntry(o) # NoPath /\ e = [at |-> ResolveEntry(o), access |-> o.access]
      BY <1>3 DEF Resolved
    <3>2. PICK i \in DOMAIN pol.entries : pol.entries[i] = o
      BY DEF EntriesOf, Range
    <3>3. ResolveEntry(pol.entries[i]) = x /\ pol.entries[i].access = "write" /\ x # NoPath
      BY <1>4, <3>1, <3>2 DEF x
    <3>4. i \in Protectors(pol, p)
      BY <1>10, <2>1, <3>3 DEF Protectors
    <3> QED
      BY <3>4
  <2>3. PICK i \in Protectors(pol, p) :
          /\ Len(ResolveEntry(pol.entries[i])) + 1 \in 1..Len(p)
          /\ MetadataChild(pol, p) = SubSeq(p, 1, Len(ResolveEntry(pol.entries[i])) + 1)
    BY <2>2, MetadataChildIsAbove
  <2> DEFINE k == Len(ResolveEntry(pol.entries[i])) + 1
             m == SubSeq(p, 1, k)
  <2>4. k \in 1..Len(p) /\ MetadataChild(pol, p) = m /\ p[k] \in MetaNames
    BY <2>3 DEF Protectors
  <2> HIDE DEF k
  <2>5. m \in Seq(Names) /\ Len(m) = k
    BY <2>4
  <2>6. m # NoPath
    BY <2>5, PolicyAssumption DEF PolicyAssumption
  <2>7. PICK g \in Resolved(pol) : IsPrefix(g.at, p) /\ IsPrefix(m, g.at)
    BY <1>1, <2>4, <2>6 DEF MetadataWriteDenied, ExplicitWrite
  <2>8. g.at \in Seq(Names)
    BY ResolvedTypes DEF ResolvedEntries
  <2>9. Len(m) \in 0..Len(g.at) /\ Len(g.at) \in 0..Len(x)
    BY <1>5, <2>5, <2>7, <2>8, PrefixFacts
  <2>10. k < Len(x) + 1
    BY <1>8, <2>4, <2>5, <2>9
  <2>11. k \in DOMAIN p /\ Len(x) + 1 \in DOMAIN p
    BY <2>1, <2>4
  <2> QED
    BY <1>10, <2>4, <2>10, <2>11 DEF OnlyRootsProtect, MetadataInMetadata
<1>11. p = x \/ p[Len(x) + 1] \notin w.names
  BY <1>7, <1>10
<1>12. ASSUME NEW r \in w.readOnly, IsPrefix(r, p)
       PROVE  FALSE
  <2>1. CASE r \in Carveouts(pol, x)
    <3>1. PICK f \in Resolved(pol) : f.at = r /\ IsStrictPrefix(x, f.at)
      BY <2>1 DEF Carveouts
    <3>2. f.at \in Seq(Names)
      BY ResolvedTypes DEF ResolvedEntries
    <3>3. IsPrefix(x, f.at) /\ x # f.at
      BY <3>1 DEF IsStrictPrefix
    <3>4. Len(x) \in 0..Len(f.at) /\ Len(x) # Len(f.at)
      BY <1>4, <3>2, <3>3, PrefixFacts, PrefixSelf
    <3>5. Len(f.at) \in 0..Len(x)
      BY <1>5, <1>12, <3>1
    <3> QED
      BY <1>8, <3>4, <3>5
  <2>2. CASE r \in Range(DefaultReadOnly(x, x = Cwd))
    <3>1. (x = Cwd) \in BOOLEAN
      OBVIOUS
    <3>2. (r = GitDir /\ Exists(GitDir)) \/ \E n \in MetaNames : r = Append(x, n)
      BY <1>4, <2>2, <3>1, DefaultReadOnlyFacts DEF MetaNames
    <3>3. CASE r = GitDir /\ Exists(GitDir)
      <4>1. GitDir # NoPath
        BY <3>3, PolicyAssumption DEF PolicyAssumption, Exists, HostKind
      <4> QED
        BY <1>12, <3>3, <4>1 DEF OnlyRootsProtect, UnderGitDir
    <3>4. CASE \E n \in MetaNames : r = Append(x, n)
      <4>1. PICK n \in MetaNames : r = Append(x, n)
        BY <3>4
      <4>2. n \in Names
        BY PolicyAssumption DEF MetaNames, PolicyAssumption
      <4>3. r \in Seq(Names) /\ Len(r) = Len(x) + 1 /\ r[Len(x) + 1] = n
        BY <1>4, <4>1, <4>2
      <4>4. Len(x) + 1 \in 1..Len(r)
        BY <1>8, <4>3
      <4>5. Len(r) \in 0..Len(p) /\ r[Len(x) + 1] = p[Len(x) + 1]
        BY <1>12, <4>3, <4>4, PrefixFacts, PrefixOrder
      <4>6. p # x
        BY <1>8, <4>3, <4>5
      <4> QED
        BY <1>10, <4>3, <4>5, <4>6
    <3> QED
      BY <3>2, <3>3, <3>4
  <2> QED
    BY <1>7, <1>12, <2>1, <2>2
<1>13. IsPathWritable(w, p)
  BY <1>4, <1>7, <1>11, <1>12 DEF IsPathWritable
<1> QED
  BY <1>7, <1>9, <1>13

\* The deepest root over a path allows what the policy allows there.
LEMMA RootsMatch ==
  ASSUME NEW pol \in [kind : Kinds, entries : Seq(AllEntries)], ~HasFullWrite(pol),
         NEW p \in Seq(Names)
  PROVE  /\ RootsAllowWrite(WritableRoots(pol), p) => CanWrite(pol, p)
         /\ CanWrite(pol, p) => RootsAllowWrite(WritableRoots(pol), p) \/ OnlyRootsProtect(p)
<1>1. pol.kind = "restricted"
  BY DEF HasFullWrite
<1>2. ASSUME RootsAllowWrite(WritableRoots(pol), p), ~CanWrite(pol, p)
      PROVE  FALSE
  <2>1. PICK w \in WritableRoots(pol) :
          /\ IsPathWritable(w, p)
          /\ \A v \in WritableRoots(pol) : IsPrefix(v.root, p) => Len(v.root) <= Len(w.root)
    BY <1>2 DEF RootsAllowWrite
  <2>2. PICK v \in WritableRoots(pol) : IsPrefix(v.root, p) /\ Len(w.root) < Len(v.root)
    BY <1>1, <1>2, <2>1, RootAllowsOnly
  <2>3. Len(v.root) \in Nat /\ Len(w.root) \in Nat
    <3>1. v.root \in Seq(Names) /\ w.root \in Seq(Names)
      BY WritableRootsAre
    <3> QED
      BY <3>1
  <2> QED
    BY <2>1, <2>2, <2>3
<1>3. ASSUME CanWrite(pol, p), ~OnlyRootsProtect(p)
      PROVE  RootsAllowWrite(WritableRoots(pol), p)
  BY <1>1, <1>3, DecidingRootAllows DEF RootsAllowWrite
<1> QED
  BY <1>2, <1>3

-----------------------------------------------------------------------------
(* The reachable policies                                                   *)

\* with_additional_readable_roots and with_additional_writable_roots keep the kind of
\* the policy and its denials.
LEMMA GrantedPolicy ==
  ASSUME NEW pol \in Policies, NEW x \in Seq(Names), NEW made \in {WithReadableRoot(pol, x),
                                                                   WithWritableRoot(pol, x)}
  PROVE  made \in Policies /\ made.kind = pol.kind /\ DenyEntries(pol) \subseteq DenyEntries(made)
<1>1. pol \in [kind : Kinds, entries : Seq(AllEntries)]
  BY DEF Policies
<1>2. \/ made = pol
      \/ pol.kind = "restricted" /\ \E access \in Accesses : made = Granted(pol, x, access)
  <2>1. "read" \in Accesses /\ "write" \in Accesses
    BY OwnEntries
  <2>2. made = WithReadableRoot(pol, x) \/ made = WithWritableRoot(pol, x)
    OBVIOUS
  <2>3. made = WithReadableRoot(pol, x) =>
          made = pol \/ (pol.kind = "restricted" /\ made = Granted(pol, x, "read"))
    BY DEF WithReadableRoot, HasFullRead, Granted
  <2>4. made = WithWritableRoot(pol, x) =>
          made = pol \/ (pol.kind = "restricted" /\ made = Granted(pol, x, "write"))
    BY DEF WithWritableRoot, CanWrite, ResolveAccess, HasFullWrite, Granted
  <2> QED
    BY <2>1, <2>2, <2>3, <2>4
<1>3. ASSUME NEW access \in Accesses, pol.kind = "restricted", made = Granted(pol, x, access)
      PROVE  /\ made \in Policies /\ made.kind = pol.kind
             /\ DenyEntries(pol) \subseteq DenyEntries(made)
  <2>1. /\ made \in [kind : Kinds, entries : Seq(AllEntries)] /\ made.kind = pol.kind
        /\ EntriesOf(made) = EntriesOf(pol) \cup {PathEntry(x, access)}
    BY <1>1, <1>3, GrantResolves
  <2> QED
    BY <1>3, <2>1 DEF Policies, DenyEntries
<1> QED
  BY <1>2, <1>3

\* Every operation makes a policy of the current one.
LEMMA StepMakesPolicy ==
  ASSUME policy \in Policies, Next
  PROVE  /\ policy' \in Policies /\ host' = host
         /\ steps < MaxSteps /\ steps' = steps + 1
         /\ policy'.kind = "restricted" =>
              \A e \in DenyEntries(policy) : ResolveEntry(e) # NoPath =>
                \E f \in DenyEntries(policy') : ResolveEntry(f) = ResolveEntry(e)
<1> DEFINE Fine ==
             /\ policy' \in Policies
             /\ policy'.kind = "restricted" =>
                  \A e \in DenyEntries(policy) : ResolveEntry(e) # NoPath =>
                    \E f \in DenyEntries(policy') : ResolveEntry(f) = ResolveEntry(e)
           Framed == host' = host /\ steps < MaxSteps /\ steps' = steps + 1
<1>1. \A x \in Requests : x \in Seq(Names)
  BY PolicyAssumption DEF PolicyAssumption
<1>2. ASSUME NEW e \in Entries, Configure(e) PROVE Fine /\ Framed
  <2>1. e \in AllEntries /\ policy.entries \in Seq(AllEntries)
    BY EntriesAssumption DEF Policies
  <2>2. /\ Append(policy.entries, e) \in Seq(AllEntries)
        /\ Range(Append(policy.entries, e)) = Range(policy.entries) \cup {e}
    BY <2>1, AppendRange
  <2>3. policy' = Restricted(Append(policy.entries, e)) /\ Framed
    BY <1>2 DEF Configure, Becomes
  <2>4. policy' \in Policies /\ policy'.entries = Append(policy.entries, e)
    BY <2>2, <2>3, Constructed
  <2> QED
    BY <2>2, <2>3, <2>4 DEF DenyEntries, EntriesOf
<1>3. ASSUME NEW x \in Requests, AddReadableRoot(x) PROVE Fine /\ Framed
  <2>1. policy' = WithReadableRoot(policy, x) /\ Framed
    BY <1>3 DEF AddReadableRoot, Becomes
  <2>2. policy' \in Policies /\ DenyEntries(policy) \subseteq DenyEntries(policy')
    BY <1>1, <2>1, GrantedPolicy
  <2> QED
    BY <2>1, <2>2
<1>4. ASSUME NEW x \in Requests, AddWritableRoot(x) PROVE Fine /\ Framed
  <2>1. policy' = WithWritableRoot(policy, x) /\ Framed
    BY <1>4 DEF AddWritableRoot, Becomes
  <2>2. policy' \in Policies /\ DenyEntries(policy) \subseteq DenyEntries(policy')
    BY <1>1, <2>1, GrantedPolicy
  <2> QED
    BY <2>1, <2>2
<1>5. ASSUME NEW x \in Requests, AddLegacyRoot(x) PROVE Fine /\ Framed
  <2>1. policy' = WithLegacyRoot(policy, x) /\ Framed
    BY <1>5 DEF AddLegacyRoot, Becomes
  <2>2. CASE policy.kind # "restricted"
    BY <2>1, <2>2 DEF WithLegacyRoot
  <2>3. CASE policy.kind = "restricted"
    <3>1. policy' \in Policies /\ DenyEntries(policy') = DenyEntries(policy)
      BY <1>1, <2>1, <2>3, LegacyRootEntries
    <3> QED
      BY <2>1, <3>1
  <2> QED
    BY <2>2, <2>3
<1>6. ASSUME MaterializeProjectRoots PROVE Fine /\ Framed
  <2>1. policy' = Materialized(policy) /\ Framed
    BY <1>6 DEF MaterializeProjectRoots, Becomes
  <2>2. /\ policy' \in Policies
        /\ \A e \in EntriesOf(policy) : \E f \in EntriesOf(policy') :
             f.access = e.access /\ (ResolveEntry(e) # NoPath => ResolveEntry(f) = ResolveEntry(e))
    BY <2>1, MaterializedEntries
  <2> QED
    BY <2>1, <2>2 DEF DenyEntries
<1>7. ASSUME NEW new \in Replacements, ReplaceKeepingDenies(new) PROVE Fine /\ Framed
  <2>1. policy' = PreserveDenies(new, policy) /\ Framed
    BY <1>7 DEF ReplaceKeepingDenies, Becomes
  <2>2. new \in Policies
    BY FromLegacyTyped, Constructed DEF Replacements
  <2>3. Legacy("full") \in LegacyPolicies
    BY DEF LegacyPolicies
  <2>4. /\ policy' \in Policies
        /\ policy'.kind = "restricted" => DenyEntries(policy) \subseteq DenyEntries(policy')
    BY <2>1, <2>2, <2>3, DenialsKept
  <2> QED
    BY <2>1, <2>4
<1>8. ASSUME NEW leg \in LegacyPolicies, SelectLegacyPolicy(leg) PROVE Fine /\ Framed
  <2>1. policy' = FromLegacyKeepingDenies(leg, policy) /\ Framed
    BY <1>8 DEF SelectLegacyPolicy, Becomes
  <2>2. Unrestricted \in Policies
    BY Constructed
  <2>3. /\ policy' \in Policies
        /\ policy'.kind = "restricted" => DenyEntries(policy) \subseteq DenyEntries(policy')
    BY <2>1, <2>2, DenialsKept
  <2> QED
    BY <2>1, <2>3
<1> HIDE DEF Fine, Framed
<1>9. Fine /\ Framed
  BY <1>2, <1>3, <1>4, <1>5, <1>6, <1>7, <1>8 DEF Next
<1> QED
  BY <1>9 DEF Fine, Framed

\* Every policy that the operations reach is one: its entries are entries, and only
\* a restricted one has any (FileSystemSandboxPolicy and what changes it).
THEOREM TypeCorrect == Spec => []TypeOK
<1>1. TypeOK <=> host \in Hosts /\ policy \in Policies /\ steps \in 0..MaxSteps
  BY DEF TypeOK, Policies
<1>2. MaxSteps \in Nat
  BY PolicyAssumption DEF PolicyAssumption
<1>3. Init => TypeOK
  <2> SUFFICES ASSUME Init PROVE TypeOK
    OBVIOUS
  <2>1. << >> \in Seq(AllEntries) /\ <<Entry("root", <<>>, "read")>> \in Seq(AllEntries)
    <3>1. Entry("root", <<>>, "read") \in AllEntries
      BY OwnEntries
    <3> QED
      BY <3>1
  <2>2. policy \in Policies
    BY <2>1, Constructed, Zenon DEF Init
  <2> QED
    BY <1>1, <1>2, <2>2 DEF Init
<1>4. TypeOK /\ [Next]_vars => TypeOK'
  <2> SUFFICES ASSUME TypeOK, [Next]_vars PROVE TypeOK'
    OBVIOUS
  <2>1. CASE Next
    <3>1. policy' \in Policies /\ host' = host /\ steps < MaxSteps /\ steps' = steps + 1
      BY <1>1, <2>1, StepMakesPolicy
    <3> QED
      BY <1>1, <1>2, <3>1 DEF TypeOK, Policies
  <2>2. CASE UNCHANGED vars
    BY <2>2 DEF TypeOK, vars
  <2> QED
    BY <2>1, <2>2
<1> QED
  BY <1>3, <1>4, PTL DEF Spec

\* What the runs check of reachable policies, for every instance: where the policy
\* says that all of the disk can be read or written, no single path is refused
\* (has_full_disk_read_access, has_full_disk_write_access).
THEOREM FullMeansAllHolds == Spec => []FullMeansAll
<1>1. TypeOK => FullMeansAll
  <2> SUFFICES ASSUME TypeOK PROVE FullMeansAll
    OBVIOUS
  <2>1. policy \in [kind : Kinds, entries : Seq(AllEntries)]
    BY DEF TypeOK
  <2>2. Tree \subseteq Seq(Names)
    BY PolicyAssumption DEF PolicyAssumption
  <2> QED
    BY <2>1, <2>2, FullReadMeansAll, FullWriteMeansAll DEF FullMeansAll
<1> QED
  BY <1>1, TypeCorrect, PTL

\* A denied path cannot be read, whatever else the policy grants.
LEMMA DeniedPath ==
  ASSUME NEW pol \in Policies, pol.kind = "restricted", NEW d \in DenyEntries(pol),
         ResolveEntry(d) # NoPath
  PROVE  ~CanRead(pol, ResolveEntry(d))
<1> DEFINE x == ResolveEntry(d)
           r == [at |-> x, access |-> d.access]
<1>1. pol \in [kind : Kinds, entries : Seq(AllEntries)]
  BY DEF Policies
<1>2. d \in EntriesOf(pol) /\ d.access = "none"
  BY DEF DenyEntries
<1>3. r \in Resolved(pol) /\ r.at = x /\ r.access = "none"
  BY <1>2 DEF Resolved
<1>4. x \in Seq(Names)
  BY <1>1, <1>3, ResolvedTypes DEF ResolvedEntries
<1> HIDE DEF x, r
<1>5. r \in Covering(pol, x)
  BY <1>3, <1>4, PrefixSelf DEF Covering
<1>6. \A e \in Covering(pol, x) : Len(e.at) <= Len(r.at)
  <2> SUFFICES ASSUME NEW e \in Covering(pol, x) PROVE Len(e.at) <= Len(r.at)
    OBVIOUS
  <2>1. e.at \in Seq(Names) /\ IsPrefix(e.at, x)
    BY <1>1, ResolvedTypes DEF Covering, ResolvedEntries
  <2>2. Len(e.at) \in 0..Len(x) /\ Len(x) \in Nat
    BY <1>4, <2>1, PrefixFacts
  <2> QED
    BY <1>3, <2>2
<1>7. ~CanRead(pol, x)
  BY <1>1, <1>3, <1>4, <1>5, <1>6, DenialWins
<1> QED
  BY <1>7 DEF x

\* Denials outlive every operation (preserve_deny_read_restrictions_from and the
\* others): each keeps the entry, or one for the same path, and it decides there.
THEOREM DenialsSurvive == Spec => DeniesSurvive
<1>1. TypeOK /\ TypeOK' /\ [Next]_vars =>
        [policy'.kind = "restricted" =>
           \A e \in DenyEntries(policy) :
             ResolveEntry(e) # NoPath => ~CanRead(policy', ResolveEntry(e))]_vars
  <2> SUFFICES ASSUME TypeOK, TypeOK', Next, policy'.kind = "restricted",
                      NEW e \in DenyEntries(policy), ResolveEntry(e) # NoPath
               PROVE  ~CanRead(policy', ResolveEntry(e))
    OBVIOUS
  <2>1. policy \in Policies /\ policy' \in Policies
    BY DEF TypeOK, Policies
  <2>2. PICK f \in DenyEntries(policy') : ResolveEntry(f) = ResolveEntry(e)
    BY <2>1, StepMakesPolicy
  <2> QED
    BY <2>1, <2>2, DeniedPath
<1> QED
  BY <1>1, TypeCorrect, PTL DEF Spec, DeniesSurvive

\* Granting a root takes nothing away, be it read or written, now or by the metadata
\* protection that a new writable root brings (with_additional_readable_roots,
\* with_additional_writable_roots).
THEOREM GrantsOnlyAddHolds == Spec => GrantsOnlyAdd
<1>1. TypeOK =>
        [(\E x \in Requests : AddReadableRoot(x) \/ AddWritableRoot(x)) =>
           \A p \in Tree : /\ CanRead(policy, p) => CanRead(policy', p)
                           /\ CanWrite(policy, p) => CanWrite(policy', p)]_vars
  <2> SUFFICES ASSUME TypeOK, NEW x \in Requests, AddReadableRoot(x) \/ AddWritableRoot(x),
                      NEW p \in Tree
               PROVE  /\ CanRead(policy, p) => CanRead(policy', p)
                      /\ CanWrite(policy, p) => CanWrite(policy', p)
    OBVIOUS
  <2>1. /\ policy \in [kind : Kinds, entries : Seq(AllEntries)]
        /\ x \in Seq(Names) /\ p \in Seq(Names)
    BY PolicyAssumption DEF TypeOK, PolicyAssumption
  <2>2. \/ policy' = WithReadableRoot(policy, x)
        \/ policy' = WithWritableRoot(policy, x)
    BY DEF AddReadableRoot, AddWritableRoot, Becomes
  <2> QED
    BY <2>1, <2>2, ReadableRootOnlyAdds, WritableRootOnlyAdds
<1> QED
  BY <1>1, TypeCorrect, PTL DEF GrantsOnlyAdd

\* A granted root is writable afterwards, by whichever of the two operations it was
\* granted, unless the same path is denied (with_additional_writable_roots,
\* with_additional_legacy_workspace_writable_roots).
THEOREM GrantsAlwaysTakeEffect == Spec => GrantsTakeEffect
<1>1. TypeOK =>
        [\A x \in Requests :
           AddWritableRoot(x) \/ AddLegacyRoot(x) =>
             \/ CanWrite(policy', x)
             \/ \E e \in DenyEntries(policy) : ResolveEntry(e) = x]_vars
  <2> SUFFICES ASSUME TypeOK, NEW x \in Requests, AddWritableRoot(x) \/ AddLegacyRoot(x)
               PROVE  \/ CanWrite(policy', x)
                      \/ \E e \in DenyEntries(policy) : ResolveEntry(e) = x
    OBVIOUS
  <2>1. /\ policy \in [kind : Kinds, entries : Seq(AllEntries)] /\ policy \in Policies
        /\ x \in Seq(Names)
    BY PolicyAssumption DEF TypeOK, Policies, PolicyAssumption
  <2>2. CASE AddWritableRoot(x)
    <3>1. policy' = WithWritableRoot(policy, x)
      BY <2>2 DEF AddWritableRoot, Becomes
    <3> QED
      BY <2>1, <3>1, WritableRootTakesEffect
  <2>3. CASE AddLegacyRoot(x)
    <3>1. policy' = WithLegacyRoot(policy, x)
      BY <2>3 DEF AddLegacyRoot, Becomes
    <3>2. CASE policy.kind # "restricted"
      BY <3>1, <3>2 DEF WithLegacyRoot, CanWrite, ResolveAccess, HasFullWrite
    <3>3. CASE policy.kind = "restricted"
      <4>1. /\ policy' \in Policies /\ policy'.kind = "restricted"
            /\ PathEntry(x, "write") \in EntriesOf(policy')
            /\ DenyEntries(policy') = DenyEntries(policy)
        BY <2>1, <3>1, <3>3, LegacyRootEntries
      <4>2. [at |-> x, access |-> "write"] \in Resolved(policy')
        <5>1. /\ ResolveEntry(PathEntry(x, "write")) = x /\ x # NoPath
              /\ PathEntry(x, "write").access = "write"
          BY <2>1, PolicyAssumption DEF PolicyAssumption, ResolveEntry, PathEntry, Entry
        <5> QED
          BY <4>1, <5>1, Zenon DEF Resolved
      <4>3. policy' \in [kind : Kinds, entries : Seq(AllEntries)]
        BY <4>1 DEF Policies
      <4> QED
        BY <2>1, <4>1, <4>2, <4>3, WriteEntryTakesEffect
    <3> QED
      BY <3>2, <3>3
  <2> QED
    BY <2>2, <2>3
<1> QED
  BY <1>1, TypeCorrect, PTL DEF GrantsTakeEffect

\* The writable roots that the sandboxes are told allow exactly the writes that the
\* policy allows, however entries are nested, except what only the defaults of a
\* root protect (get_writable_roots_with_cwd against can_write_path_with_cwd).
THEOREM RootsAlwaysMatch == Spec => []RootsMatchDecisions
<1>1. TypeOK => RootsMatchDecisions
  <2> SUFFICES ASSUME TypeOK PROVE RootsMatchDecisions
    OBVIOUS
  <2>1. policy \in [kind : Kinds, entries : Seq(AllEntries)]
    BY DEF TypeOK
  <2>2. Tree \subseteq Seq(Names)
    BY PolicyAssumption DEF PolicyAssumption
  <2> QED
    BY <2>1, <2>2, RootsMatch DEF RootsMatchDecisions
<1> QED
  BY <1>1, TypeCorrect, PTL

==============================================================================
