------------------------ MODULE DesignSessionProofs ------------------------
(***************************************************************************)
(* Theorems about DesignSession, for every catalogue of boards and parts,  *)
(* every document the model reads and every sequence of calls.             *)
(***************************************************************************)
EXTENDS DesignSession, FiniteSetTheorems, SequenceTheorems, TLAPS

-----------------------------------------------------------------------------
(* Numbers.                                                                *)

LEMMA LeastIsIn ==
    ASSUME NEW S \in SUBSET Nat, S # {}
    PROVE  Least(S) \in S /\ \A y \in S : Least(S) <= y
<1> DEFINE upTo == {0..n : n \in S}
<1>1. upTo \subseteq FiniteSubsetsOf(Nat)
  <2>1. ASSUME NEW n \in S PROVE IsFiniteSet(0..n) /\ 0..n \subseteq Nat
    BY FS_Interval
  <2> QED BY <2>1 DEF FiniteSubsetsOf
<1>2. PICK s \in upTo : \A r \in upTo : ~(<<r, s>> \in StrictSubsetOrdering(Nat))
  <2>1. upTo # {} OBVIOUS
  <2>2. IsWellFoundedOn(StrictSubsetOrdering(Nat), FiniteSubsetsOf(Nat))
    BY FS_StrictSubsetOrderingWellFounded
  <2> HIDE DEF upTo
  <2> QED BY <1>1, <2>1, <2>2, WFMin
<1>3. PICK x \in S : s = 0..x BY <1>2
<1>4. ASSUME NEW y \in S PROVE x <= y
  <2> SUFFICES ASSUME y < x PROVE FALSE OBVIOUS
  <2>1. 0..y \subseteq s /\ 0..y # s /\ s \subseteq Nat BY <1>3
  <2>2. 0..y \in upTo OBVIOUS
  <2>3. <<0..y, s>> \in StrictSubsetOrdering(Nat)
    BY <2>1 DEF StrictSubsetOrdering
  <2> QED BY <1>2, <2>2, <2>3
<1> QED BY <1>4 DEF Least

\* A set of numbers that has 0, and with each number the next, has them all.
LEMMA Climbs ==
    ASSUME NEW N \in Nat, NEW S, 0 \in S, \A n \in 1..N : n - 1 \in S => n \in S
    PROVE  0..N \subseteq S
<1> SUFFICES ASSUME (0..N) \ S # {} PROVE FALSE OBVIOUS
<1> DEFINE n == Least((0..N) \ S)
<1>1. n \in (0..N) \ S /\ \A m \in (0..N) \ S : n <= m BY LeastIsIn
<1> HIDE DEF n
<1>2. n \in 1..N /\ n - 1 \in (0..N) BY <1>1
<1>3. n - 1 \in S BY <1>1, <1>2
<1> QED BY <1>1, <1>2, <1>3

LEMMA PastTheEnd ==
    ASSUME NEW m \in Nat, NEW n \in Nat
    PROVE  /\ \A i \in 1..m : i \in 1..(m + n)
           /\ \A k \in 1..n : m + k \in 1..(m + n)
OBVIOUS

LEMMA GreatestIsIn ==
    ASSUME NEW N \in Nat, NEW S \in SUBSET (1..N), S # {}
    PROVE  \E x \in S : \A y \in S : y <= x
<1> DEFINE below == {N - y : y \in S}
<1>1. below \in SUBSET Nat /\ below # {}
  <2>1. ASSUME NEW y \in S PROVE N - y \in Nat OBVIOUS
  <2>2. below # {} OBVIOUS
  <2> QED BY <2>1, <2>2
<1>2. Least(below) \in below /\ \A z \in below : Least(below) <= z
  <2> HIDE DEF below
  <2> QED BY <1>1, LeastIsIn
<1>3. PICK x \in S : Least(below) = N - x BY <1>2
<1>4. \A y \in S : N - x <= N - y BY <1>2, <1>3
<1> QED BY <1>4

-----------------------------------------------------------------------------
(* Sequences, whatever is in them.                                         *)

LEMMA MakesSeq ==
    ASSUME NEW n \in Nat, NEW s, s = [k \in 1..n |-> s[k]]
    PROVE  IsSeq(s) /\ Len(s) = n /\ DOMAIN s = 1..n
<1> DEFINE S == {s[k] : k \in 1..n}
<1>1. s \in [1..n -> S] OBVIOUS
<1>2. s \in Seq(S) BY <1>1, SeqDef
<1>3. Len(s) \in Nat /\ DOMAIN s = 1..Len(s) BY <1>2, LenProperties
<1>4. Len(s) = n BY <1>3
<1> QED BY <1>3, <1>4 DEF IsSeq

LEMMA SeqFacts ==
    ASSUME NEW s, IsSeq(s)
    PROVE  /\ Len(s) \in Nat /\ DOMAIN s = 1..Len(s)
           /\ s \in Seq({s[k] : k \in 1..Len(s)})
<1> DEFINE S == {s[k] : k \in 1..Len(s)}
<1>1. Len(s) \in Nat /\ s = [k \in 1..Len(s) |-> s[k]] BY DEF IsSeq
<1>2. DOMAIN s = 1..Len(s) BY <1>1
<1>3. s \in [1..Len(s) -> S] BY <1>1
<1>4. s \in Seq(S) BY <1>1, <1>3, SeqDef
<1> QED BY <1>1, <1>2, <1>4

LEMMA AppendFacts ==
    ASSUME NEW s, NEW e, IsSeq(s)
    PROVE  /\ IsSeq(Append(s, e)) /\ Len(Append(s, e)) = Len(s) + 1
           /\ DOMAIN Append(s, e) = 1..(Len(s) + 1)
           /\ \A k \in 1..Len(s) : Append(s, e)[k] = s[k]
           /\ Append(s, e)[Len(s) + 1] = e
<1> DEFINE S == {s[k] : k \in 1..Len(s)} \cup {e}
           t == Append(s, e)
<1>1. Len(s) \in Nat /\ s \in Seq(S)
  <2>1. Len(s) \in Nat /\ s \in Seq({s[k] : k \in 1..Len(s)}) BY SeqFacts
  <2> QED BY <2>1, SeqMonotonic
<1>2. t \in Seq(S) /\ Len(t) = Len(s) + 1 BY <1>1
<1>3. t = [k \in 1..(Len(s) + 1) |-> t[k]]
  <2> HIDE DEF t
  <2>1. t \in [1..Len(t) -> S] BY <1>2, LenProperties
  <2> QED BY <1>2, <2>1
<1>4. (\A k \in 1..Len(s) : t[k] = s[k]) /\ t[Len(s) + 1] = e BY <1>1
<1> HIDE DEF t
<1>5. IsSeq(t) /\ DOMAIN t = 1..(Len(s) + 1)
  <2>1. Len(s) + 1 \in Nat BY <1>1
  <2> QED BY <2>1, <1>3, MakesSeq
<1> QED BY <1>2, <1>4, <1>5 DEF t

LEMMA ConcatFacts ==
    ASSUME NEW s, NEW r, IsSeq(s), IsSeq(r)
    PROVE  /\ IsSeq(s \o r) /\ Len(s \o r) = Len(s) + Len(r)
           /\ DOMAIN (s \o r) = 1..(Len(s) + Len(r))
           /\ \A k \in 1..Len(s) : (s \o r)[k] = s[k]
           /\ \A k \in 1..Len(r) : (s \o r)[Len(s) + k] = r[k]
<1> DEFINE S == {s[k] : k \in 1..Len(s)} \cup {r[k] : k \in 1..Len(r)}
           t == s \o r
<1>1. Len(s) \in Nat /\ Len(r) \in Nat /\ s \in Seq(S) /\ r \in Seq(S)
  <2>1. Len(s) \in Nat /\ s \in Seq({s[k] : k \in 1..Len(s)}) BY SeqFacts
  <2>2. Len(r) \in Nat /\ r \in Seq({r[k] : k \in 1..Len(r)}) BY SeqFacts
  <2> QED BY <2>1, <2>2, SeqMonotonic
<1>2. /\ t \in Seq(S) /\ Len(t) = Len(s) + Len(r)
      /\ \A i \in 1..(Len(s) + Len(r)) : t[i] = IF i <= Len(s) THEN s[i] ELSE r[i - Len(s)]
  BY <1>1, ConcatProperties
<1> HIDE DEF t
<1>3. t = [k \in 1..(Len(s) + Len(r)) |-> t[k]]
  BY <1>1, <1>2
<1>4. IsSeq(t) /\ DOMAIN t = 1..(Len(s) + Len(r))
  <2>1. Len(s) + Len(r) \in Nat BY <1>1
  <2> QED BY <2>1, <1>3, MakesSeq
<1>5. \A k \in 1..Len(s) : t[k] = s[k] BY <1>1, <1>2
<1>6. \A k \in 1..Len(r) : t[Len(s) + k] = r[k]
  <2> SUFFICES ASSUME NEW k \in 1..Len(r) PROVE t[Len(s) + k] = r[k] OBVIOUS
  <2>1. Len(s) + k \in 1..(Len(s) + Len(r)) /\ ~(Len(s) + k <= Len(s))
        /\ (Len(s) + k) - Len(s) = k BY <1>1
  <2> QED BY <1>2, <2>1
<1> QED BY <1>2, <1>4, <1>5, <1>6 DEF t

\* What is in two sequences put together comes from one of them.
LEMMA ConcatFrom ==
    ASSUME NEW s, NEW r, IsSeq(s), IsSeq(r)
    PROVE  /\ IsSeq(s \o r)
           /\ \A k \in DOMAIN s : k \in DOMAIN (s \o r) /\ (s \o r)[k] = s[k]
           /\ \A k \in DOMAIN r : Len(s) + k \in DOMAIN (s \o r) /\ (s \o r)[Len(s) + k] = r[k]
           /\ \A i \in DOMAIN (s \o r) : \/ i \in DOMAIN s /\ (s \o r)[i] = s[i]
                                         \/ \E k \in DOMAIN r : /\ i = Len(s) + k
                                                                /\ (s \o r)[i] = r[k]
<1> DEFINE m == Len(s)
           n == Len(r)
           t == s \o r
<1>1. m \in Nat /\ DOMAIN s = 1..m /\ n \in Nat /\ DOMAIN r = 1..n BY SeqFacts
<1>2. /\ IsSeq(t) /\ DOMAIN t = 1..(m + n)
      /\ \A k \in 1..m : t[k] = s[k]
      /\ \A k \in 1..n : t[m + k] = r[k]
  BY ConcatFacts
<1> HIDE DEF t, m, n
<1>3. ASSUME NEW i \in DOMAIN t
      PROVE  \/ i \in DOMAIN s /\ t[i] = s[i]
             \/ \E k \in DOMAIN r : i = m + k /\ t[i] = r[k]
  <2>1. CASE i \in 1..m BY <1>1, <1>2, <2>1
  <2>2. CASE i \notin 1..m
    <3>1. i - m \in 1..n /\ i = m + (i - m) BY <1>1, <1>2, <2>2
    <3> QED BY <1>1, <1>2, <3>1
  <2> QED BY <2>1, <2>2
<1>4. /\ \A k \in DOMAIN s : k \in DOMAIN t /\ t[k] = s[k]
      /\ \A k \in DOMAIN r : m + k \in DOMAIN t /\ t[m + k] = r[k]
  BY <1>1, <1>2, PastTheEnd
<1> QED BY <1>2, <1>3, <1>4 DEF t, m

\* Each place in a set of them has a rank, and each rank a place.
LEMMA Ranks ==
    ASSUME NEW n \in Nat, NEW at \in SUBSET (1..n),
           NEW f, f = [i \in at |-> Cardinality({j \in at : j < i})]
    PROVE  /\ IsFiniteSet(at) /\ Cardinality(at) \in Nat
           /\ f \in Injection(at, 0..(Cardinality(at) - 1))
           /\ f \in Surjection(at, 0..(Cardinality(at) - 1))
<1> DEFINE Below(i) == {j \in at : j < i}
           N == Cardinality(at)
<1>1. IsFiniteSet(at) /\ N \in Nat
  <2>1. IsFiniteSet(1..n) BY FS_Interval
  <2> QED BY <2>1, FS_Subset, FS_CardinalityType
<1>2. ASSUME NEW i \in at PROVE /\ IsFiniteSet(Below(i)) /\ Cardinality(Below(i)) \in Nat
                                /\ Cardinality(Below(i)) < N
  <2>1. Below(i) \in SUBSET at /\ Below(i) # at BY <1>1
  <2>2. IsFiniteSet(Below(i)) /\ Cardinality(Below(i)) <= N /\ N # Cardinality(Below(i))
    BY <1>1, <2>1, FS_Subset
  <2>3. Cardinality(Below(i)) \in Nat BY <2>2, FS_CardinalityType
  <2> QED BY <1>1, <2>2, <2>3
<1>3. ASSUME NEW i \in at, NEW j \in at, i < j
      PROVE  Cardinality(Below(i)) # Cardinality(Below(j))
  <2>1. i \in Nat /\ j \in Nat /\ at \subseteq Nat OBVIOUS
  <2>2. Below(i) \in SUBSET Below(j)
    <3>1. ASSUME NEW k \in Below(i) PROVE k \in at /\ k < j BY <1>3, <2>1
    <3> QED BY <3>1
  <2>4. i \in Below(j) BY <1>3
  <2>5. i \notin Below(i) BY <2>1
  <2>3. IsFiniteSet(Below(j)) BY <1>2
  <2> HIDE DEF Below
  <2> QED BY <2>2, <2>3, <2>4, <2>5, FS_Subset
<1>4. f \in Injection(at, 0..(N - 1))
  <2>1. f \in [at -> 0..(N - 1)]
    <3>1. ASSUME NEW i \in at PROVE f[i] \in 0..(N - 1)
      <4>1. f[i] = Cardinality(Below(i)) OBVIOUS
      <4> QED BY <4>1, <1>2, <1>1
    <3> QED BY <3>1
  <2>2. ASSUME NEW i \in at, NEW j \in at, f[i] = f[j] PROVE i = j
    <3>1. f[i] = Cardinality(Below(i)) /\ f[j] = Cardinality(Below(j)) OBVIOUS
    <3>2. ~(i < j) BY <3>1, <2>2, <1>3
    <3>3. ~(j < i) BY <3>1, <2>2, <1>3
    <3> QED BY <3>2, <3>3
  <2>3. DOMAIN f = at OBVIOUS
  <2> QED BY <2>1, <2>2, <2>3 DEF Injection, IsInjective
<1>5. IsFiniteSet(0..(N - 1)) /\ Cardinality(0..(N - 1)) = N BY <1>1, FS_Interval
<1>6. f \in Surjection(at, 0..(N - 1)) BY <1>4, <1>5, FS_Injection
<1> QED BY <1>1, <1>4, <1>6

\* What a selection of a sequence is: each of its places comes from one of the
\* given ones, no two from the same, and none is left out.
LEMMA PickedFacts ==
    ASSUME NEW s, NEW n \in Nat, NEW at \in SUBSET (1..n)
    PROVE  /\ IsSeq(Picked(s, at)) /\ Len(Picked(s, at)) = Cardinality(at)
           /\ IsFiniteSet(at) /\ Cardinality(at) \in Nat
           /\ \A k \in DOMAIN Picked(s, at) : \E i \in at : Picked(s, at)[k] = s[i]
           /\ \A i \in at : \E k \in DOMAIN Picked(s, at) : Picked(s, at)[k] = s[i]
<1> DEFINE f == [i \in at |-> Cardinality({j \in at : j < i})]
           N == Cardinality(at)
           t == Picked(s, at)
           From(k) == CHOOSE i \in at : Cardinality({j \in at : j < i}) = k - 1
<1>1. /\ IsFiniteSet(at) /\ N \in Nat
      /\ f \in Injection(at, 0..(N - 1)) /\ f \in Surjection(at, 0..(N - 1))
  BY Ranks
<1>2. t = [k \in 1..N |-> s[From(k)]] BY DEF Picked
<1>3. ASSUME NEW k \in 1..N PROVE From(k) \in at /\ f[From(k)] = k - 1
  <2>1. k - 1 \in 0..(N - 1) BY <1>1
  <2>2. PICK i \in at : f[i] = k - 1 BY <1>1, <2>1 DEF Surjection
  <2>3. Cardinality({j \in at : j < i}) = k - 1 BY <2>2
  <2>4. From(k) \in at /\ Cardinality({j \in at : j < From(k)}) = k - 1 BY <2>3
  <2> HIDE DEF From
  <2> QED BY <2>4
<1>4. ASSUME NEW i \in at PROVE \E k \in 1..N : From(k) = i
  <2>1. f[i] \in 0..(N - 1) BY <1>1 DEF Injection
  <2>2. f[i] + 1 \in 1..N /\ (f[i] + 1) - 1 = f[i] BY <1>1, <2>1
  <2>3. From(f[i] + 1) \in at /\ f[From(f[i] + 1)] = f[i] BY <1>3, <2>2
  <2> HIDE DEF From, f
  <2>4. IsInjective(f) /\ DOMAIN f = at BY <1>1 DEF Injection
  <2>5. From(f[i] + 1) = i BY <2>3, <2>4 DEF IsInjective
  <2> QED BY <2>2, <2>5
<1> HIDE DEF From, f, t
<1>5. t = [k \in 1..N |-> t[k]] BY <1>2
<1>6. IsSeq(t) /\ Len(t) = N /\ DOMAIN t = 1..N BY <1>1, <1>5, MakesSeq
<1>7. \A k \in 1..N : t[k] = s[From(k)] BY <1>2
<1> QED BY <1>1, <1>3, <1>4, <1>6, <1>7 DEF t

\* Of a sequence of which all is kept, nothing is lost.
LEMMA PickedAll ==
    ASSUME NEW s, IsSeq(s)
    PROVE  Picked(s, DOMAIN s) = s
<1>1. Len(s) \in Nat /\ s = [k \in 1..Len(s) |-> s[k]] /\ DOMAIN s = 1..Len(s)
  BY DEF IsSeq
<1> DEFINE n == Len(s)
           From(k) == CHOOSE i \in 1..n : Cardinality({j \in 1..n : j < i}) = k - 1
<1>2. ASSUME NEW i \in 1..n PROVE Cardinality({j \in 1..n : j < i}) = i - 1
  <2>1. {j \in 1..n : j < i} = 1..(i - 1) BY <1>1
  <2>2. Cardinality(1..(i - 1)) = i - 1 BY FS_Interval
  <2> QED BY <2>1, <2>2
<1>3. Cardinality(1..n) = n BY <1>1, FS_Interval
<1>4. ASSUME NEW k \in 1..n PROVE From(k) = k
  <2>1. Cardinality({j \in 1..n : j < k}) = k - 1 BY <1>2
  <2>2. From(k) \in 1..n /\ Cardinality({j \in 1..n : j < From(k)}) = k - 1 BY <2>1
  <2> HIDE DEF From
  <2>3. From(k) - 1 = k - 1 BY <2>2, <1>2
  <2> QED BY <2>2, <2>3
<1>5. Picked(s, 1..n) = [k \in 1..n |-> s[From(k)]] BY <1>3 DEF Picked
<1>6. [k \in 1..n |-> s[From(k)]] = [k \in 1..n |-> s[k]]
  <2> HIDE DEF From
  <2> QED BY <1>4
<1> QED BY <1>1, <1>5, <1>6

-----------------------------------------------------------------------------
(* The least of the ids a sequence's members have, and fresh ids.          *)

LEMMA IdsAreFinite ==
    ASSUME NEW things, IsSeq(things)
    PROVE  /\ IsFiniteSet(Ids(things)) /\ Cardinality(Ids(things)) \in Nat
           /\ Cardinality(Ids(things)) <= Len(things)
<1> DEFINE n == Len(things)
           f == [k \in 1..n |-> things[k].id]
<1>1. n \in Nat /\ DOMAIN things = 1..n BY SeqFacts
<1>2. f \in Surjection(1..n, Ids(things))
  <2>1. f \in [1..n -> Ids(things)]
    <3>1. \A k \in 1..n : things[k].id \in Ids(things) BY <1>1 DEF Ids
    <3> QED BY <3>1
  <2>2. ASSUME NEW id \in Ids(things) PROVE \E k \in 1..n : f[k] = id BY <1>1 DEF Ids
  <2> HIDE DEF f
  <2> QED BY <2>1, <2>2 DEF Surjection
<1>3. IsFiniteSet(1..n) /\ Cardinality(1..n) = n
  <2> HIDE DEF f, n
  <2> QED BY <1>1, FS_Interval
<1>4. IsFiniteSet(Ids(things)) /\ Cardinality(Ids(things)) <= n
  BY <1>2, <1>3, FS_Surjection
<1> QED BY <1>4, FS_CardinalityType

\* NextId finds a number nobody has, no further than there are ids.
LEMMA NextIdIsFree ==
    ASSUME NEW stem, NEW used, IsFiniteSet(used), NEW from \in Nat
    PROVE  /\ NextId(stem, used, from) \notin used
           /\ Number(NextId(stem, used, from)) \in from..(from + Cardinality(used))
           /\ Stem(NextId(stem, used, from)) = stem
<1> DEFINE N == Cardinality(used)
           free == {n \in from..(from + N) : <<stem, n>> \notin used}
<1>1. N \in Nat BY FS_CardinalityType
<1>2. free # {}
  <2> SUFFICES ASSUME free = {} PROVE FALSE OBVIOUS
  <2> DEFINE f == [n \in from..(from + N) |-> <<stem, n>>]
  <2>1. f \in Injection(from..(from + N), used) BY <1>1 DEF Injection, IsInjective
  <2>2. Cardinality(from..(from + N)) = N + 1 BY <1>1, FS_Interval
  <2>3. Cardinality(from..(from + N)) <= N BY <2>1, FS_Injection
  <2> QED BY <1>1, <2>2, <2>3
<1>3. free \in SUBSET Nat BY <1>1
<1>4. Least(free) \in free
  <2> HIDE DEF free
  <2> QED BY <1>2, <1>3, LeastIsIn
<1>5. NextId(stem, used, from) = <<stem, Least(free)>> BY DEF NextId
<1> QED BY <1>4, <1>5 DEF Stem, Number

-----------------------------------------------------------------------------
(* The pin solver, on a document the model reads.                          *)

LEMMA LockRunsAre ==
    ASSUME NEW d, Len(d.conns) \in Nat
    PROVE  /\ LockRuns(d)[0] = Start(d)
           /\ \A n \in 1..Len(d.conns) : LockRuns(d)[n] = LockAt(d, LockRuns(d)[n - 1], n)
<1> DEFINE N == Len(d.conns)
           Fits(g, n) == g = [k \in 0..n |-> IF k = 0 THEN Start(d) ELSE LockAt(d, g[k - 1], k)]
           fit == {n \in 0..N : \E g : Fits(g, n)}
<1>1. 0 \in fit
  <2> DEFINE h == [k \in 0..0 |-> Start(d)]
  <2>1. Fits(h, 0) OBVIOUS
  <2> HIDE DEF Fits, h
  <2> QED BY <2>1
<1>2. ASSUME NEW n \in 1..N, n - 1 \in fit PROVE n \in fit
  <2>1. PICK g : Fits(g, n - 1) BY <1>2
  <2> DEFINE h == [k \in 0..n |-> IF k = n THEN LockAt(d, g[n - 1], n) ELSE g[k]]
  <2>2. Fits(h, n) BY <2>1
  <2> HIDE DEF Fits, h
  <2> QED BY <2>2
<1>3. N \in fit
  <2> HIDE DEF fit
  <2>1. 0..N \subseteq fit BY <1>1, <1>2, Climbs
  <2> QED BY <2>1
<1>4. Fits(LockRuns(d), N) BY <1>3 DEF LockRuns
<1> DEFINE runs == LockRuns(d)
<1>5. runs = [k \in 0..N |-> IF k = 0 THEN Start(d) ELSE LockAt(d, runs[k - 1], k)] BY <1>4
<1> HIDE DEF runs
<1>6. runs[0] = Start(d) BY <1>5
<1>7. ASSUME NEW n \in 1..N PROVE runs[n] = LockAt(d, runs[n - 1], n) BY <1>5
<1> QED BY <1>6, <1>7 DEF runs

LEMMA SolveRunsAre ==
    ASSUME NEW d, Len(d.conns) \in Nat
    PROVE  /\ SolveRuns(d)[0] = LockRuns(d)[Len(d.conns)]
           /\ \A n \in 1..Len(d.conns) : SolveRuns(d)[n] = SolveAt(d, SolveRuns(d)[n - 1], n)
<1> DEFINE N == Len(d.conns)
           first == LockRuns(d)[N]
           Fits(g, n) == g = [k \in 0..n |-> IF k = 0 THEN first ELSE SolveAt(d, g[k - 1], k)]
           fit == {n \in 0..N : \E g : Fits(g, n)}
<1>1. 0 \in fit
  <2> DEFINE h == [k \in 0..0 |-> first]
  <2>1. Fits(h, 0) OBVIOUS
  <2> HIDE DEF Fits, h, first
  <2> QED BY <2>1
<1>2. ASSUME NEW n \in 1..N, n - 1 \in fit PROVE n \in fit
  <2>1. PICK g : Fits(g, n - 1) BY <1>2
  <2> DEFINE h == [k \in 0..n |-> IF k = n THEN SolveAt(d, g[n - 1], n) ELSE g[k]]
  <2>2. Fits(h, n) BY <2>1
  <2> HIDE DEF Fits, h, first
  <2> QED BY <2>2
<1>3. N \in fit
  <2> HIDE DEF fit
  <2>1. 0..N \subseteq fit BY <1>1, <1>2, Climbs
  <2> QED BY <2>1
<1>4. Fits(SolveRuns(d), N) BY <1>3 DEF SolveRuns
<1> DEFINE runs == SolveRuns(d)
<1>5. runs = [k \in 0..N |-> IF k = 0 THEN first ELSE SolveAt(d, runs[k - 1], k)] BY <1>4
<1> HIDE DEF runs
<1>6. runs[0] = first BY <1>5
<1>7. ASSUME NEW n \in 1..N PROVE runs[n] = SolveAt(d, runs[n - 1], n) BY <1>5
<1> QED BY <1>6, <1>7 DEF runs

\* A target the solver may leave where c had one: what was bound stays, the kind
\* stays, and a bus is one of the design's.
Follows(d, c, e) ==
    /\ e = [comp |-> c.comp, role |-> c.role, target |-> e.target]
    /\ e.target.kind = c.target.kind
    /\ Unbound(c.target) \/ e.target = c.target
    /\ e.target = c.target \/ e.target.kind # "bus" \/ e.target.to \in Ids(d.buses)
FollowAll(d, conns) ==
    /\ IsSeq(conns) /\ Len(conns) = Len(d.conns)
    /\ \A i \in DOMAIN d.conns : Follows(d, d.conns[i], conns[i])
RunFollows(d, run) == "conns" \in DOMAIN run /\ FollowAll(d, run.conns)

LEMMA BindFollows ==
    ASSUME NEW d, IsDocument(d), NEW run, RunFollows(d, run), NEW i \in DOMAIN d.conns,
           NEW target, target.kind = run.conns[i].target.kind,
           Unbound(run.conns[i].target), target.kind # "bus" \/ target.to \in Ids(d.buses),
           NEW whom
    PROVE  RunFollows(d, Bind(run, i, target, whom))
<1> DEFINE new == Bind(run, i, target, whom)
<1>1. /\ Len(d.conns) \in Nat /\ DOMAIN d.conns = 1..Len(d.conns)
      /\ IsSeq(run.conns) /\ Len(run.conns) = Len(d.conns) /\ "conns" \in DOMAIN run
      /\ \A j \in DOMAIN d.conns : Follows(d, d.conns[j], run.conns[j])
  BY SeqFacts DEF IsDocument, RunFollows, FollowAll
<1>2. DOMAIN run.conns = 1..Len(d.conns) BY <1>1, SeqFacts
<1>3. /\ "conns" \in DOMAIN new
      /\ new.conns = [run.conns EXCEPT ![i].target = target]
  BY <1>1 DEF Bind
<1>4. new.conns = [j \in 1..Len(d.conns) |-> new.conns[j]] BY <1>2, <1>3
<1>5. IsSeq(new.conns) /\ Len(new.conns) = Len(d.conns) BY <1>1, <1>4, MakesSeq
<1>6. ASSUME NEW j \in DOMAIN d.conns, j # i PROVE new.conns[j] = run.conns[j]
  BY <1>1, <1>2, <1>3, <1>6
<1>7. Follows(d, d.conns[i], new.conns[i])
  <2>1. Follows(d, d.conns[i], run.conns[i]) BY <1>1
  <2>2. new.conns[i] = [run.conns[i] EXCEPT !.target = target] BY <1>1, <1>2, <1>3
  <2>3. new.conns[i] = [comp |-> d.conns[i].comp, role |-> d.conns[i].role, target |-> target]
    BY <2>1, <2>2 DEF Follows
  <2>4. Unbound(d.conns[i].target) BY <2>1 DEF Follows
  <2> HIDE DEF new
  <2> QED BY <2>1, <2>3, <2>4 DEF Follows
<1> HIDE DEF new
<1>8. \A j \in DOMAIN d.conns : Follows(d, d.conns[j], new.conns[j]) BY <1>1, <1>6, <1>7
<1> QED BY <1>3, <1>5, <1>8 DEF new, RunFollows, FollowAll

LEMMA LockFollows ==
    ASSUME NEW d, IsDocument(d), NEW run, RunFollows(d, run), NEW i \in DOMAIN d.conns
    PROVE  RunFollows(d, LockAt(d, run, i))
<1> DEFINE c == run.conns[i]
           reserved == [run EXCEPT !.used = @ \cup {LockOf(d, c)}]
<1>1. RunFollows(d, reserved) /\ reserved.conns = run.conns
  BY DEF RunFollows
<1>2. CASE ~IsLocked(d, c) \/ c.target.kind # "gpio" BY <1>2 DEF LockAt
<1>3. CASE IsLocked(d, c) /\ c.target.kind = "gpio" /\ c.target.to # None
  BY <1>1, <1>3 DEF LockAt
<1>4. CASE IsLocked(d, c) /\ c.target.kind = "gpio" /\ c.target.to = None
  <2> DEFINE target == Target("gpio", LockOf(d, c))
  <2>1. LockAt(d, run, i) = Bind(reserved, i, target, "lock") BY <1>4 DEF LockAt
  <2>2. target.kind = "gpio" BY DEF Target
  <2>3. Unbound(c.target) BY <1>4 DEF Unbound
  <2> HIDE DEF target, reserved
  <2> QED BY <1>1, <1>4, <2>1, <2>2, <2>3, BindFollows
<1> QED BY <1>2, <1>3, <1>4

LEMMA SolveFollows ==
    ASSUME NEW d, IsDocument(d), NEW run, RunFollows(d, run), NEW i \in DOMAIN d.conns
    PROVE  RunFollows(d, SolveAt(d, run, i))
<1> DEFINE c == run.conns[i]
           libPin == PinOf(d, c)
<1> USE DEF Target, ExpanderTarget
<1>1. CASE ~Unbound(c.target) \/ ~HasPin(d, c) BY <1>1 DEF SolveAt
<1> SUFFICES ASSUME Unbound(c.target), HasPin(d, c) PROVE RunFollows(d, SolveAt(d, run, i))
  BY <1>1
<1>2. CASE c.target.kind = "gpio"
  <2>1. SolveAt(d, run, i) = SolveGpio(d, run, i) BY <1>2 DEF SolveAt
  <2> DEFINE free == Suitable(Board(d), libPin) \ run.used
             p == Best(Board(d), libPin, free)
             taken == [run EXCEPT !.used = @ \cup {p}]
             target == Target("gpio", p)
  <2>2. RunFollows(d, taken) /\ taken.conns = run.conns BY DEF RunFollows
  <2>3. target.kind = c.target.kind /\ target.kind # "bus" BY <1>2
  <2>4. SolveGpio(d, run, i) = IF free = {} THEN run ELSE Bind(taken, i, target, "solver")
    BY DEF SolveGpio
  <2> HIDE DEF free, p, taken, target
  <2>5. RunFollows(d, Bind(taken, i, target, "solver")) BY <2>2, <2>3, BindFollows
  <2> QED BY <2>1, <2>4, <2>5
<1>3. CASE c.target.kind = "bus"
  <2>1. SolveAt(d, run, i) = SolveBus(d, run, i) BY <1>3 DEF SolveAt
  <2> DEFINE options == {b \in DOMAIN d.buses : d.buses[b].type = BusTypeOf(libPin.kind)}
             target == Target("bus", d.buses[Least(options)].id)
  <2>2. ASSUME options # {} PROVE target.to \in Ids(d.buses)
    <3>1. DOMAIN d.buses \subseteq Nat
      <4>1. IsSeq(d.buses) BY DEF IsDocument
      <4> QED BY <4>1, SeqFacts
    <3>2. Least(options) \in options
      <4>1. options \in SUBSET Nat /\ options # {} BY <2>2, <3>1
      <4> HIDE DEF options
      <4> QED BY <4>1, LeastIsIn
    <3> QED BY <3>2 DEF Ids
  <2>3. target.kind = c.target.kind BY <1>3
  <2>4. SolveBus(d, run, i) = IF options = {} THEN run ELSE Bind(run, i, target, "solver")
    BY DEF SolveBus
  <2> HIDE DEF options, target
  <2>5. options # {} => RunFollows(d, Bind(run, i, target, "solver"))
    BY <2>2, <2>3, BindFollows
  <2> QED BY <2>1, <2>4, <2>5
<1>4. CASE c.target.kind = "expander_pin"
  <2>1. SolveAt(d, run, i) = SolveExpander(d, run, i) BY <1>4 DEF SolveAt
  <2> DEFINE open == {e \in DOMAIN d.comps :
                        d.comps[e].lib \in DOMAIN Parts /\ FreeOn(d, run, e) # {}}
             id == d.comps[Least(open)].id
             n == Least(FreeOn(d, run, Least(open)))
             taken == [run EXCEPT !.usedEx = @ \cup {<<id, n>>}]
             target == ExpanderTarget(id, n)
  <2>2. RunFollows(d, taken) /\ taken.conns = run.conns BY DEF RunFollows
  <2>3. target.kind = c.target.kind /\ target.kind # "bus" BY <1>4
  <2>4. SolveExpander(d, run, i) = IF open = {} THEN run ELSE Bind(taken, i, target, "solver")
    BY DEF SolveExpander
  <2> HIDE DEF open, id, n, taken, target
  <2>5. RunFollows(d, Bind(taken, i, target, "solver")) BY <2>2, <2>3, BindFollows
  <2> QED BY <2>1, <2>4, <2>5
<1>5. CASE c.target.kind = "component"
  <2>1. SolveAt(d, run, i) = SolveComponent(d, run, i) BY <1>5 DEF SolveAt
  <2> DEFINE wanted == libPin.parent
             options == {e \in DOMAIN d.comps : d.comps[e].lib = wanted /\ d.comps[e].id # c.comp}
             target == Target("component", d.comps[Least(options)].id)
  <2>2. target.kind = c.target.kind /\ target.kind # "bus" BY <1>5
  <2>3. SolveComponent(d, run, i) =
          IF wanted = None \/ options = {} THEN run ELSE Bind(run, i, target, "solver")
    BY DEF SolveComponent
  <2> HIDE DEF wanted, options, target
  <2>4. RunFollows(d, Bind(run, i, target, "solver")) BY <2>2, BindFollows
  <2> QED BY <2>1, <2>3, <2>4
<1> QED BY <1>2, <1>3, <1>4, <1>5 DEF Unbound

\* What solve_pins leaves of a document's connections.
LEMMA SolvedFollow ==
    ASSUME NEW d, IsDocument(d)
    PROVE  FollowAll(d, Solve(d).conns)
<1> DEFINE N == Len(d.conns)
           locked == {n \in 0..N : RunFollows(d, LockRuns(d)[n])}
           solved == {n \in 0..N : RunFollows(d, SolveRuns(d)[n])}
<1>1. /\ N \in Nat /\ DOMAIN d.conns = 1..N /\ IsSeq(d.conns)
      /\ \A i \in DOMAIN d.conns : IsConn(d.conns[i])
  BY SeqFacts DEF IsDocument
<1>2. RunFollows(d, Start(d))
  <2>1. \A i \in DOMAIN d.conns : Follows(d, d.conns[i], d.conns[i])
    BY <1>1 DEF IsConn, Follows
  <2>2. "conns" \in DOMAIN Start(d) /\ Start(d).conns = d.conns BY DEF Start
  <2> QED BY <1>1, <2>1, <2>2 DEF RunFollows, FollowAll
<1>3. N \in locked
  <2>1. 0 \in locked BY <1>1, <1>2, LockRunsAre
  <2>2. ASSUME NEW n \in 1..N, n - 1 \in locked PROVE n \in locked
    <3>1. n \in DOMAIN d.conns /\ RunFollows(d, LockRuns(d)[n - 1]) BY <1>1, <2>2
    <3>2. RunFollows(d, LockAt(d, LockRuns(d)[n - 1], n)) BY <3>1, LockFollows
    <3>3. RunFollows(d, LockRuns(d)[n]) BY <1>1, <3>2, LockRunsAre
    <3> QED BY <3>3
  <2> HIDE DEF locked
  <2>3. 0..N \subseteq locked BY <1>1, <2>1, <2>2, Climbs
  <2> QED BY <1>1, <2>3
<1>4. N \in solved
  <2>1. 0 \in solved BY <1>1, <1>3, SolveRunsAre
  <2>2. ASSUME NEW n \in 1..N, n - 1 \in solved PROVE n \in solved
    <3>1. n \in DOMAIN d.conns /\ RunFollows(d, SolveRuns(d)[n - 1]) BY <1>1, <2>2
    <3>2. RunFollows(d, SolveAt(d, SolveRuns(d)[n - 1], n)) BY <3>1, SolveFollows
    <3>3. RunFollows(d, SolveRuns(d)[n]) BY <1>1, <3>2, SolveRunsAre
    <3> QED BY <3>3
  <2> HIDE DEF solved
  <2>3. 0..N \subseteq solved BY <1>1, <2>1, <2>2, Climbs
  <2> QED BY <1>1, <2>3
<1>5. RunFollows(d, Solve(d)) BY <1>2, <1>4 DEF Solve
<1> QED BY <1>5 DEF RunFollows

-----------------------------------------------------------------------------
(* Documents, and what the tools leave alone of one.                       *)

\* All but its components, its buses and its connections.
SameRest(d, e) ==
    /\ e = [field \in DOMAIN d |-> e[field]]
    /\ \A field \in DOMAIN d \ {"comps", "buses", "conns"} : e[field] = d[field]

LEMMA StillDocument ==
    ASSUME NEW d, IsDocument(d), NEW e, SameRest(d, e),
           IsSeq(e.comps), \A c \in DOMAIN e.comps : IsComp(e.comps[c]),
           IsSeq(e.buses), \A b \in DOMAIN e.buses : IsBus(e.buses[b]),
           IsSeq(e.conns), \A i \in DOMAIN e.conns : IsConn(e.conns[i])
    PROVE  IsDocument(e) /\ e.board = d.board /\ e.automations = d.automations
<1>1. DOMAIN e = DOMAIN d /\ e = [field \in DOMAIN e |-> e[field]] BY DEF SameRest
<1>2. {"board", "flash", "revision", "comps", "buses", "conns", "strict", "overrides",
       "automations"} \subseteq DOMAIN d BY DEF IsDocument
<1>3. e.board = d.board /\ e.automations = d.automations BY <1>2 DEF SameRest
<1> QED BY <1>1, <1>2, <1>3 DEF IsDocument

LEMMA SameRestTwice ==
    ASSUME NEW d, NEW e, NEW f, SameRest(d, e), SameRest(e, f)
    PROVE  SameRest(d, f)
BY DEF SameRest

\* The facts of a document that most proofs start from.
LEMMA DocumentFacts ==
    ASSUME NEW d, IsDocument(d)
    PROVE  /\ {"comps", "buses", "conns"} \subseteq DOMAIN d /\ SameRest(d, d)
           /\ Len(d.comps) \in Nat /\ DOMAIN d.comps = 1..Len(d.comps) /\ IsSeq(d.comps)
           /\ Len(d.buses) \in Nat /\ DOMAIN d.buses = 1..Len(d.buses) /\ IsSeq(d.buses)
           /\ Len(d.conns) \in Nat /\ DOMAIN d.conns = 1..Len(d.conns) /\ IsSeq(d.conns)
           /\ \A c \in DOMAIN d.comps : IsComp(d.comps[c])
           /\ \A b \in DOMAIN d.buses : IsBus(d.buses[b])
           /\ \A i \in DOMAIN d.conns : IsConn(d.conns[i])
BY SeqFacts DEF IsDocument, SameRest

LEMMA NewConns ==
    ASSUME NEW d, IsDocument(d), NEW conns, IsSeq(conns), \A i \in DOMAIN conns : IsConn(conns[i])
    PROVE  LET e == [d EXCEPT !.conns = conns] IN
             /\ SameRest(d, e) /\ IsDocument(e) /\ e.conns = conns
             /\ e.comps = d.comps /\ e.buses = d.buses
<1> DEFINE e == [d EXCEPT !.conns = conns]
<1>1. /\ SameRest(d, e) /\ e.conns = conns /\ e.comps = d.comps /\ e.buses = d.buses
  BY DocumentFacts DEF SameRest
<1> HIDE DEF e
<1> QED BY <1>1, DocumentFacts, StillDocument DEF e

LEMMA NewComps ==
    ASSUME NEW d, IsDocument(d), NEW comps, IsSeq(comps), \A c \in DOMAIN comps : IsComp(comps[c])
    PROVE  LET e == [d EXCEPT !.comps = comps] IN
             /\ SameRest(d, e) /\ IsDocument(e) /\ e.comps = comps
             /\ e.conns = d.conns /\ e.buses = d.buses
<1> DEFINE e == [d EXCEPT !.comps = comps]
<1>1. /\ SameRest(d, e) /\ e.comps = comps /\ e.conns = d.conns /\ e.buses = d.buses
  BY DocumentFacts DEF SameRest
<1> HIDE DEF e
<1> QED BY <1>1, DocumentFacts, StillDocument DEF e

LEMMA NewBuses ==
    ASSUME NEW d, IsDocument(d), NEW buses, IsSeq(buses), \A b \in DOMAIN buses : IsBus(buses[b])
    PROVE  LET e == [d EXCEPT !.buses = buses] IN
             /\ SameRest(d, e) /\ IsDocument(e) /\ e.buses = buses
             /\ e.conns = d.conns /\ e.comps = d.comps
<1> DEFINE e == [d EXCEPT !.buses = buses]
<1>1. /\ SameRest(d, e) /\ e.buses = buses /\ e.conns = d.conns /\ e.comps = d.comps
  BY DocumentFacts DEF SameRest
<1> HIDE DEF e
<1> QED BY <1>1, DocumentFacts, StillDocument DEF e

-----------------------------------------------------------------------------
(* References: ids stay apart, and what is referred to is there.           *)

Typed(buses) == \A b \in DOMAIN buses : buses[b].type \in DOMAIN BusStem
BusesWhole(buses) == IdsApart(buses) /\ Typed(buses) /\ Ids(buses) \cap ReservedBusIds = {}
Whole(d) == IdsApart(d.comps) /\ BusesWhole(d.buses)
\* What referred to what there is still does, and what is new refers so.
Linked(d, e) ==
    /\ \A i \in DOMAIN d.conns :
          i \in DOMAIN e.conns /\ (Refers(d, d.conns[i]) => Refers(e, e.conns[i]))
    /\ \A i \in DOMAIN e.conns \ DOMAIN d.conns : Refers(e, e.conns[i])

LEMMA LinkedTwice ==
    ASSUME NEW d, NEW e, NEW f, Linked(d, e), Linked(e, f)
    PROVE  Linked(d, f)
BY DEF Linked

\* Ids that are apart are as many as the things.
LEMMA ApartCounts ==
    ASSUME NEW things, IsSeq(things), IdsApart(things)
    PROVE  Cardinality(Ids(things)) = Len(things)
<1> DEFINE n == Len(things)
           f == [k \in 1..n |-> things[k].id]
<1>1. n \in Nat /\ DOMAIN things = 1..n BY SeqFacts
<1>2. f \in Bijection(1..n, Ids(things))
  <2>1. \A k \in 1..n : f[k] = things[k].id /\ f[k] \in Ids(things) BY <1>1 DEF Ids
  <2>2. f \in [1..n -> Ids(things)] BY <2>1
  <2>3. \A j, k \in 1..n : f[j] = f[k] => j = k BY <1>1, <2>1 DEF IdsApart
  <2>4. \A id \in Ids(things) : \E k \in 1..n : f[k] = id BY <1>1 DEF Ids
  <2>5. f \in Injection(1..n, Ids(things))
    <3> HIDE DEF f
    <3> QED BY <2>2, <2>3 DEF Injection, IsInjective
  <2>6. f \in Surjection(1..n, Ids(things))
    <3> HIDE DEF f
    <3> QED BY <2>2, <2>4 DEF Surjection
  <2> QED BY <2>5, <2>6 DEF Bijection
<1>3. IsFiniteSet(1..n) /\ Cardinality(1..n) = n
  <2> HIDE DEF f, n
  <2> QED BY <1>1, FS_Interval
<1>4. Cardinality(1..n) = Cardinality(Ids(things))
  <2> DEFINE all == Ids(things)
  <2>1. ExistsBijection(1..n, all) BY <1>2 DEF ExistsBijection
  <2> HIDE DEF n, all
  <2>2. Cardinality(1..n) = Cardinality(all) BY <2>1, <1>3, FS_Bijection
  <2> QED BY <2>2 DEF all
<1> HIDE DEF f, n
<1>5. Cardinality(Ids(things)) = n BY <1>3, <1>4
<1> QED BY <1>5 DEF n

\* One more with an id of its own.
LEMMA OneMoreApart ==
    ASSUME NEW s, IsSeq(s), IdsApart(s), NEW t, IsSeq(t), Len(t) = Len(s) + 1,
           \A k \in DOMAIN s : t[k] = s[k], t[Len(s) + 1].id \notin Ids(s)
    PROVE  IdsApart(t) /\ Ids(t) = Ids(s) \cup {t[Len(s) + 1].id}
<1> DEFINE n == Len(s) + 1
<1>1. /\ \A k \in DOMAIN t : k \in DOMAIN s \/ k = n
      /\ \A k \in DOMAIN s : k \in DOMAIN t /\ k # n
      /\ n \in DOMAIN t
  <2>1. /\ Len(s) \in Nat /\ DOMAIN s = 1..Len(s) /\ DOMAIN t = 1..n BY SeqFacts
  <2> QED BY <2>1
<1>2. /\ \A k \in DOMAIN s : t[k] = s[k]
      /\ t[n].id \notin Ids(s) /\ \A k \in DOMAIN s : s[k].id # t[n].id
  BY DEF Ids
<1> HIDE DEF n
<1>3. IdsApart(t)
  <2> SUFFICES ASSUME NEW j \in DOMAIN t, NEW k \in DOMAIN t, t[j].id = t[k].id PROVE j = k
    BY DEF IdsApart
  <2>1. CASE j = n \/ k = n BY <1>1, <1>2, <2>1
  <2>2. CASE j # n /\ k # n BY <1>1, <1>2, <2>2 DEF IdsApart
  <2> QED BY <2>1, <2>2
<1>4. Ids(t) = Ids(s) \cup {t[n].id} BY <1>1, <1>2 DEF Ids
<1> QED BY <1>3, <1>4 DEF n

\* What is picked from a sequence comes from places of its own.
LEMMA PickedApart ==
    ASSUME NEW s, IsSeq(s), IdsApart(s), NEW at \in SUBSET DOMAIN s
    PROVE  IdsApart(Picked(s, at))
<1> DEFINE n == Len(s)
           t == Picked(s, at)
           From(k) == CHOOSE i \in at : Cardinality({j \in at : j < i}) = k - 1
           f == [i \in at |-> Cardinality({j \in at : j < i})]
           N == Cardinality(at)
<1>1. n \in Nat /\ DOMAIN s = 1..n BY SeqFacts
<1>2. N \in Nat /\ f \in Surjection(at, 0..(N - 1)) BY <1>1, Ranks
<1>3. t = [k \in 1..N |-> s[From(k)]] BY DEF Picked
<1>4. ASSUME NEW k \in 1..N PROVE From(k) \in at /\ f[From(k)] = k - 1
  <2>1. k - 1 \in 0..(N - 1) BY <1>2
  <2>2. PICK i \in at : f[i] = k - 1 BY <1>2, <2>1 DEF Surjection
  <2>3. Cardinality({j \in at : j < i}) = k - 1 BY <2>2
  <2>4. From(k) \in at /\ Cardinality({j \in at : j < From(k)}) = k - 1 BY <2>3
  <2> HIDE DEF From
  <2> QED BY <2>4
<1> HIDE DEF From, f
<1>5. DOMAIN t = 1..N /\ \A k \in 1..N : t[k] = s[From(k)] BY <1>3
<1> HIDE DEF t
<1> SUFFICES ASSUME NEW j \in 1..N, NEW k \in 1..N, t[j].id = t[k].id PROVE j = k
  BY <1>5 DEF IdsApart, t
<1>6. From(j) = From(k) BY <1>4, <1>5 DEF IdsApart
<1>7. j - 1 = k - 1
  <2>1. f[From(j)] = j - 1 /\ f[From(k)] = k - 1 BY <1>4
  <2> QED BY <1>6, <2>1
<1> QED BY <1>2, <1>7

LEMMA ConcatApart ==
    ASSUME NEW s, NEW r, IsSeq(s), IsSeq(r), IdsApart(s), IdsApart(r),
           Ids(s) \cap Ids(r) = {}
    PROVE  IdsApart(s \o r) /\ Ids(s \o r) = Ids(s) \cup Ids(r)
<1> DEFINE m == Len(s)
           t == s \o r
<1>1. /\ \A k \in DOMAIN s : k \in DOMAIN t /\ t[k] = s[k]
      /\ \A k \in DOMAIN r : m + k \in DOMAIN t /\ t[m + k] = r[k]
      /\ \A i \in DOMAIN t : \/ i \in DOMAIN s /\ t[i] = s[i]
                             \/ \E k \in DOMAIN r : i = m + k /\ t[i] = r[k]
  <2>1. IsSeq(s) /\ IsSeq(r) OBVIOUS
  <2> QED BY ONLY <2>1, ConcatFrom
<1> HIDE DEF t, m
<1>2. /\ \A k \in DOMAIN s : s[k].id \in Ids(s)
      /\ \A k \in DOMAIN r : r[k].id \in Ids(r)
  BY DEF Ids
<1>3. IdsApart(t)
  <2> SUFFICES ASSUME NEW i \in DOMAIN t, NEW j \in DOMAIN t, t[i].id = t[j].id PROVE i = j
    BY DEF IdsApart
  <2>1. CASE i \in DOMAIN s /\ t[i] = s[i]
    <3>1. t[j].id \notin Ids(r) BY <1>2, <2>1
    <3>2. j \in DOMAIN s /\ t[j] = s[j] BY <1>1, <1>2, <3>1
    <3> QED BY <2>1, <3>2 DEF IdsApart
  <2>2. CASE \E k \in DOMAIN r : i = m + k /\ t[i] = r[k]
    <3>1. t[j].id \notin Ids(s) BY <1>2, <2>2
    <3>2. \E k \in DOMAIN r : j = m + k /\ t[j] = r[k] BY <1>1, <1>2, <3>1
    <3> QED BY <2>2, <3>2 DEF IdsApart
  <2> QED BY <1>1, <2>1, <2>2
<1>4. Ids(t) = Ids(s) \cup Ids(r)
  <2>1. Ids(t) \subseteq Ids(s) \cup Ids(r)
    <3> SUFFICES ASSUME NEW i \in DOMAIN t PROVE t[i].id \in Ids(s) \cup Ids(r) BY DEF Ids
    <3> QED BY <1>1, <1>2
  <2>2. Ids(s) \cup Ids(r) \subseteq Ids(t) BY <1>1 DEF Ids
  <2> QED BY <2>1, <2>2
<1> QED BY <1>3, <1>4 DEF t

-----------------------------------------------------------------------------
(* Seeding a part.                                                         *)

\* What the target of a new part's pin is, before anything is solved.
Seeds(buses, libPin, target) ==
    /\ target.kind \in {"rail", "net", "bus", "gpio"}
    /\ BusTypeOf(libPin.kind) # None => target.kind = "bus"
    /\ libPin.kind \notin {"power", "ground", "passthrough"} /\ BusTypeOf(libPin.kind) = None
       => target.kind = "gpio"
    /\ target.kind = "bus" => target.to = None \/ target.to \in Ids(buses)

LEMMA DefaultSeeds ==
    ASSUME NEW buses, IsSeq(buses), NEW rails, NEW part, NEW libPin
    PROVE  Seeds(buses, libPin, DefaultTarget(buses, rails, part, libPin))
<1> DEFINE kind == libPin.kind
           match == {b \in DOMAIN buses : buses[b].type = BusTypeOf(kind)}
           bus == IF match = {} THEN None ELSE buses[Least(match)].id
           t == DefaultTarget(buses, rails, part, libPin)
<1>1. bus = None \/ bus \in Ids(buses)
  <2> SUFFICES ASSUME match # {} PROVE buses[Least(match)].id \in Ids(buses) OBVIOUS
  <2>1. DOMAIN buses \subseteq Nat
    <3>1. Len(buses) \in Nat /\ DOMAIN buses = 1..Len(buses) BY SeqFacts
    <3> QED BY <3>1
  <2>2. match \in SUBSET Nat BY <2>1
  <2>3. Least(match) \in match
    <3> HIDE DEF match
    <3> QED BY <2>2, LeastIsIn
  <2> QED BY <2>3 DEF Ids
<1>2. CASE kind = "power"
  <2>2. BusTypeOf(kind) = None BY <1>2 DEF BusTypeOf
  <2>1. t = Target("rail", SupplyRail(rails, part)) BY <1>2, <2>2 DEF DefaultTarget
  <2> QED BY <1>2, <2>1, <2>2 DEF Seeds, Target
<1>3. CASE kind = "ground"
  <2>2. BusTypeOf(kind) = None BY <1>3 DEF BusTypeOf
  <2>1. t = Target("rail", GroundRail(rails)) BY <1>3, <2>2 DEF DefaultTarget
  <2> QED BY <1>3, <2>1, <2>2 DEF Seeds, Target
<1>4. CASE kind = "passthrough"
  <2>2. BusTypeOf(kind) = None BY <1>4 DEF BusTypeOf
  <2>1. t = Target("net", None) BY <1>4, <2>2 DEF DefaultTarget
  <2> QED BY <1>4, <2>1, <2>2 DEF Seeds, Target
<1>5. CASE kind \notin {"power", "ground", "passthrough"} /\ BusTypeOf(kind) # None
  <2>1. t = Target("bus", bus) BY <1>5 DEF DefaultTarget
  <2> HIDE DEF bus
  <2> QED BY <1>1, <1>5, <2>1 DEF Seeds, Target
<1>6. CASE kind \notin {"power", "ground", "passthrough"} /\ BusTypeOf(kind) = None
  <2>1. t = Target("gpio", None) BY <1>6 DEF DefaultTarget
  <2> QED BY <1>6, <2>1 DEF Seeds, Target
<1> QED BY <1>2, <1>3, <1>4, <1>5, <1>6

\* A set that is made a sequence has each of its members once.
LEMMA SetToSeqIs ==
    ASSUME NEW S, IsFiniteSet(S)
    PROVE  /\ DOMAIN SetToSeq(S) = 1..Cardinality(S) /\ Cardinality(S) \in Nat
           /\ \A k \in DOMAIN SetToSeq(S) : SetToSeq(S)[k] \in S
           /\ \A j, k \in DOMAIN SetToSeq(S) : SetToSeq(S)[j] = SetToSeq(S)[k] => j = k
<1> DEFINE n == Cardinality(S)
           f == SetToSeq(S)
<1>1. n \in Nat /\ ExistsBijection(1..n, S) BY FS_CardinalityType
<1>2. PICK g : g \in Bijection(1..n, S) BY <1>1 DEF ExistsBijection
<1>3. g \in [1..n -> S] /\ IsInjective(g) BY <1>2 DEF Bijection, Injection
<1>4. f \in [1..n -> S] /\ IsInjective(f) BY <1>3 DEF SetToSeq
<1> HIDE DEF f, n
<1>5. /\ DOMAIN f = 1..n /\ \A k \in 1..n : f[k] \in S
      /\ \A j, k \in DOMAIN f : f[j] = f[k] => j = k
  BY <1>4 DEF IsInjective
<1> QED BY <1>1, <1>5 DEF f, n

LEMMA BusTypes ==
    ASSUME NEW kind
    PROVE  BusTypeOf(kind) \in {"i2c", "spi", "i2s", "uart", "1wire"} \cup {None}
BY DEF BusTypeOf

\* The buses that are prepared come after the others, with ids of their own.
LEMMA PreparedBuses ==
    ASSUME NEW d, IsDocument(d), NEW part, IsSeq(part.pins)
    PROVE  LET e == PrepareBuses(d, part) IN
             /\ SameRest(d, e) /\ IsDocument(e)
             /\ e.comps = d.comps /\ e.conns = d.conns
             /\ \A b \in DOMAIN d.buses : b \in DOMAIN e.buses /\ e.buses[b] = d.buses[b]
             /\ BusesWhole(d.buses) => BusesWhole(e.buses)
<1> DEFINE some == {"i2c", "spi", "i2s", "uart", "1wire"}
           lacking == NeededBusTypes(part) \ {d.buses[b].type : b \in DOMAIN d.buses}
           old == Ids(d.buses)
           pins(type) == DefaultPins(Board(d), type)
           bus(type) == [id |-> NextId(type, old, 1), type |-> type, pins |-> pins(type)]
           new == SetToSeq(lacking)
           more == [k \in DOMAIN new |-> bus(new[k])]
           buses == d.buses \o more
           e == [d EXCEPT !.buses = buses]
<1>1. PrepareBuses(d, part) = e BY DEF PrepareBuses
<1>2. IsFiniteSet(lacking) /\ lacking \subseteq some
  <2>1. lacking \in SUBSET some BY BusTypes DEF NeededBusTypes
  <2>2. IsFiniteSet(some)
    <3>1. IsFiniteSet({}) BY FS_EmptySet
    <3>2. IsFiniteSet({} \cup {"i2c"}) BY <3>1, FS_AddElement
    <3>3. IsFiniteSet(({} \cup {"i2c"}) \cup {"spi"}) BY <3>2, FS_AddElement
    <3>4. IsFiniteSet((({} \cup {"i2c"}) \cup {"spi"}) \cup {"i2s"}) BY <3>3, FS_AddElement
    <3>5. IsFiniteSet(((({} \cup {"i2c"}) \cup {"spi"}) \cup {"i2s"}) \cup {"uart"})
      BY <3>4, FS_AddElement
    <3>6. IsFiniteSet((((({} \cup {"i2c"}) \cup {"spi"}) \cup {"i2s"}) \cup {"uart"}) \cup {"1wire"})
      BY <3>5, FS_AddElement
    <3>7. some = (((({} \cup {"i2c"}) \cup {"spi"}) \cup {"i2s"}) \cup {"uart"}) \cup {"1wire"}
      OBVIOUS
    <3> QED BY <3>6, <3>7
  <2> HIDE DEF some, lacking
  <2> QED BY <2>1, <2>2, FS_Subset
<1> HIDE DEF lacking
<1>3. /\ DOMAIN new = 1..Cardinality(lacking) /\ Cardinality(lacking) \in Nat
      /\ \A k \in DOMAIN new : new[k] \in lacking
      /\ \A j, k \in DOMAIN new : new[j] = new[k] => j = k
  BY <1>2, SetToSeqIs
<1> HIDE DEF new, pins
<1>4. ASSUME NEW type \in lacking
      PROVE  /\ IsBus(bus(type)) /\ bus(type).type = type /\ type \in DOMAIN BusStem
             /\ Stem(bus(type).id) = type /\ bus(type).id \notin old \cup ReservedBusIds
  <2>1. NextId(type, old, 1) \notin old /\ Stem(NextId(type, old, 1)) = type
    <3>1. IsFiniteSet(old) BY DocumentFacts, IdsAreFinite
    <3> HIDE DEF old
    <3> QED BY <3>1, NextIdIsFree
  <2>2. type \in DOMAIN BusStem BY <1>2 DEF BusStem
  <2>3. type # "uart#" /\ type # "spi#" BY <1>2
  <2>4. \A r \in ReservedBusIds : Stem(r) \in {"uart#", "spi#"} BY DEF ReservedBusIds, Stem
  <2> QED BY <2>1, <2>2, <2>3, <2>4 DEF IsBus
<1>5. /\ IsSeq(more) /\ DOMAIN more = DOMAIN new /\ \A k \in DOMAIN new : more[k] = bus(new[k])
  <2>1. DOMAIN more = DOMAIN new /\ \A k \in DOMAIN new : more[k] = bus(new[k]) OBVIOUS
  <2>2. more = [k \in 1..Cardinality(lacking) |-> more[k]] BY <1>3
  <2> HIDE DEF more, bus
  <2>3. IsSeq(more) BY <1>3, <2>2, MakesSeq
  <2> QED BY <2>1, <2>3
<1> HIDE DEF more, bus
<1>6. IsSeq(d.buses) /\ \A b \in DOMAIN d.buses : IsBus(d.buses[b]) BY DocumentFacts
<1>7. /\ IsSeq(buses) /\ \A b \in DOMAIN d.buses : b \in DOMAIN buses /\ buses[b] = d.buses[b]
      /\ \A b \in DOMAIN buses : \/ b \in DOMAIN d.buses /\ buses[b] = d.buses[b]
                                 \/ \E k \in DOMAIN more : /\ b = Len(d.buses) + k
                                                           /\ buses[b] = more[k]
  BY ONLY <1>5, <1>6, ConcatFrom
<1>8. \A b \in DOMAIN buses : IsBus(buses[b]) BY <1>3, <1>4, <1>5, <1>6, <1>7
<1>9. /\ SameRest(d, e) /\ IsDocument(e) /\ e.buses = buses
      /\ e.conns = d.conns /\ e.comps = d.comps
  <2> HIDE DEF buses
  <2> QED BY <1>7, <1>8, NewBuses
<1>10. ASSUME BusesWhole(d.buses) PROVE BusesWhole(buses)
  <2>1. IdsApart(more)
    <3> SUFFICES ASSUME NEW j \in DOMAIN more, NEW k \in DOMAIN more, more[j].id = more[k].id
                 PROVE  j = k
      BY DEF IdsApart
    <3>1. new[j] = new[k] BY <1>3, <1>4, <1>5
    <3> QED BY <1>3, <1>5, <3>1
  <2>2. Ids(more) \cap (old \cup ReservedBusIds) = {} BY <1>3, <1>4, <1>5 DEF Ids
  <2>3. IdsApart(buses) /\ Ids(buses) = old \cup Ids(more)
    <3>1. IdsApart(d.buses) BY <1>10 DEF BusesWhole
    <3> QED BY <1>5, <1>6, <2>1, <2>2, <3>1, ConcatApart
  <2>4. \A b \in DOMAIN buses : buses[b].type \in DOMAIN BusStem
    <3>1. \A k \in DOMAIN more : more[k].type \in DOMAIN BusStem BY <1>3, <1>4, <1>5
    <3>2. \A b \in DOMAIN d.buses : d.buses[b].type \in DOMAIN BusStem
      BY <1>10 DEF BusesWhole, Typed
    <3> QED BY <1>7, <3>1, <3>2
  <2> HIDE DEF buses
  <2> QED BY <1>10, <2>2, <2>3, <2>4 DEF BusesWhole, Typed
<1> HIDE DEF e, buses
<1> QED BY <1>1, <1>7, <1>9, <1>10

\* A new part's connections come after the others.
LEMMA SeededConns ==
    ASSUME NEW d, IsDocument(d), NEW id, NEW part, IsSeq(part.pins)
    PROVE  LET e == SeedConnections(d, id, part) IN
             /\ SameRest(d, e) /\ IsDocument(e)
             /\ e.comps = d.comps /\ e.buses = d.buses
             /\ Len(e.conns) = Len(d.conns) + Len(part.pins)
             /\ \A i \in DOMAIN d.conns : e.conns[i] = d.conns[i]
             /\ \A k \in DOMAIN part.pins :
                   LET c == e.conns[Len(d.conns) + k] IN
                     /\ c.comp = id /\ c.role = part.pins[k].role
                     /\ Seeds(d.buses, part.pins[k], c.target)
<1> DEFINE rails == IF d.board \in DOMAIN Boards THEN Board(d).rails ELSE <<>>
           n == Len(part.pins)
           target(k) == DefaultTarget(d.buses, rails, part, part.pins[k])
           more == [k \in DOMAIN part.pins |-> [comp |-> id, role |-> part.pins[k].role,
                                              target |-> target(k)]]
           conns == d.conns \o more
<1>1. n \in Nat /\ DOMAIN part.pins = 1..n BY SeqFacts
<1>2. ASSUME NEW k \in 1..n
      PROVE  /\ IsConn(more[k]) /\ more[k].comp = id /\ more[k].role = part.pins[k].role
             /\ Seeds(d.buses, part.pins[k], more[k].target)
  <2>1. Seeds(d.buses, part.pins[k], target(k)) BY DefaultSeeds, DocumentFacts
  <2> HIDE DEF target
  <2> QED BY <1>1, <2>1 DEF IsConn
<1>3. IsSeq(more) /\ Len(more) = n /\ DOMAIN more = 1..n
  <2> HIDE DEF target
  <2>1. more = [k \in 1..n |-> more[k]] BY <1>1
  <2> HIDE DEF more
  <2> QED BY <1>1, <2>1, MakesSeq
<1>4. SeedConnections(d, id, part) = [d EXCEPT !.conns = conns] BY DEF SeedConnections
<1> HIDE DEF more
<1>10. /\ IsSeq(d.conns) /\ Len(d.conns) \in Nat /\ DOMAIN d.conns = 1..Len(d.conns)
       /\ \A i \in DOMAIN d.conns : IsConn(d.conns[i])
  BY DocumentFacts
<1>5. /\ IsSeq(conns) /\ Len(conns) = Len(d.conns) + n
      /\ DOMAIN conns = 1..(Len(d.conns) + n)
      /\ \A i \in 1..Len(d.conns) : conns[i] = d.conns[i]
      /\ \A k \in 1..n : conns[Len(d.conns) + k] = more[k]
  <2> HIDE DEF n
  <2>1. /\ IsSeq(conns) /\ Len(conns) = Len(d.conns) + Len(more)
        /\ DOMAIN conns = 1..(Len(d.conns) + Len(more))
        /\ \A i \in 1..Len(d.conns) : conns[i] = d.conns[i]
        /\ \A k \in 1..Len(more) : conns[Len(d.conns) + k] = more[k]
    <3>1. IsSeq(more) /\ IsSeq(d.conns) BY <1>3, <1>10
    <3> QED BY ONLY <3>1, ConcatFacts
  <2> QED BY <1>3, <2>1
<1> HIDE DEF conns
<1>6. ASSUME NEW i \in DOMAIN conns PROVE IsConn(conns[i])
  <2> HIDE DEF n
  <2>1. i \in 1..(Len(d.conns) + n) /\ Len(d.conns) \in Nat /\ n \in Nat BY <1>1, <1>5, <1>10
  <2>2. CASE i <= Len(d.conns)
    <3>1. i \in 1..Len(d.conns) BY <2>1, <2>2
    <3> QED BY <3>1, <1>5, <1>10
  <2>3. CASE ~(i <= Len(d.conns))
    <3>1. i - Len(d.conns) \in 1..n /\ i = Len(d.conns) + (i - Len(d.conns))
      BY <2>1, <2>3
    <3> QED BY <3>1, <1>2, <1>5
  <2> QED BY <2>2, <2>3
<1>7. LET e == [d EXCEPT !.conns = conns] IN
         /\ SameRest(d, e) /\ IsDocument(e) /\ e.conns = conns
         /\ e.comps = d.comps /\ e.buses = d.buses
  BY <1>5, <1>6, NewConns
<1>8. \A i \in DOMAIN d.conns : conns[i] = d.conns[i] BY <1>5, DocumentFacts
<1>9. \A k \in DOMAIN part.pins :
         LET c == conns[Len(d.conns) + k] IN
           /\ c.comp = id /\ c.role = part.pins[k].role
           /\ Seeds(d.buses, part.pins[k], c.target)
  <2> HIDE DEF n
  <2>1. TAKE k \in DOMAIN part.pins
  <2>2. k \in 1..n BY <1>1
  <2>3. conns[Len(d.conns) + k] = more[k] BY ONLY <1>5, <2>2
  <2>4. /\ more[k].comp = id /\ more[k].role = part.pins[k].role
        /\ Seeds(d.buses, part.pins[k], more[k].target)
    BY ONLY <1>2, <2>2
  <2> QED BY ONLY <2>3, <2>4
<1> QED BY <1>4, <1>5, <1>7, <1>8, <1>9

LEMMA RenamedFacts ==
    ASSUME NEW d, IsDocument(d), NEW old, NEW new
    PROVE  LET e == Rename(d, old, new) IN
             /\ SameRest(d, e) /\ IsDocument(e) /\ e.buses = d.buses
             /\ Len(e.comps) = Len(d.comps)
             /\ \A c \in DOMAIN d.comps :
                   e.comps[c] = IF d.comps[c].id = old THEN [d.comps[c] EXCEPT !.id = new]
                                ELSE d.comps[c]
             /\ Len(e.conns) = Len(d.conns)
             /\ \A i \in DOMAIN d.conns :
                   e.conns[i] = IF d.conns[i].comp = old THEN [d.conns[i] EXCEPT !.comp = new]
                                ELSE d.conns[i]
<1> DEFINE comps == [c \in DOMAIN d.comps |-> IF d.comps[c].id = old
                                             THEN [d.comps[c] EXCEPT !.id = new] ELSE d.comps[c]]
           conns == [i \in DOMAIN d.conns |-> IF d.conns[i].comp = old
                                             THEN [d.conns[i] EXCEPT !.comp = new] ELSE d.conns[i]]
           half == [d EXCEPT !.comps = comps]
           e == [half EXCEPT !.conns = conns]
<1>1. Rename(d, old, new) = e
  <2>1. half.conns = d.conns BY DocumentFacts
  <2> QED BY <2>1, DocumentFacts DEF Rename
<1>2. /\ IsSeq(comps) /\ Len(comps) = Len(d.comps) /\ DOMAIN comps = DOMAIN d.comps
      /\ \A c \in DOMAIN comps : IsComp(comps[c])
  <2>1. comps = [c \in 1..Len(d.comps) |-> comps[c]] BY DocumentFacts
  <2>2. ASSUME NEW c \in DOMAIN comps PROVE IsComp(comps[c])
    <3>1. IsComp(d.comps[c]) BY DocumentFacts
    <3>2. \/ comps[c] = d.comps[c]
          \/ comps[c] = [id |-> new, lib |-> d.comps[c].lib, locks |-> d.comps[c].locks,
                         params |-> d.comps[c].params, show |-> d.comps[c].show]
      BY <3>1 DEF IsComp
    <3> HIDE DEF comps
    <3> QED BY <3>1, <3>2 DEF IsComp
  <2>3. DOMAIN comps = DOMAIN d.comps OBVIOUS
  <2> HIDE DEF comps
  <2>4. IsSeq(comps) /\ Len(comps) = Len(d.comps) BY <2>1, DocumentFacts, MakesSeq
  <2> QED BY <2>2, <2>3, <2>4
<1>3. /\ IsSeq(conns) /\ Len(conns) = Len(d.conns) /\ DOMAIN conns = DOMAIN d.conns
      /\ \A i \in DOMAIN conns : IsConn(conns[i])
  <2>1. conns = [c \in 1..Len(d.conns) |-> conns[c]] BY DocumentFacts
  <2>2. ASSUME NEW i \in DOMAIN conns PROVE IsConn(conns[i])
    <3>1. IsConn(d.conns[i]) BY DocumentFacts
    <3>2. \/ conns[i] = d.conns[i]
          \/ conns[i] = [comp |-> new, role |-> d.conns[i].role, target |-> d.conns[i].target]
      BY <3>1 DEF IsConn
    <3> HIDE DEF conns
    <3> QED BY <3>1, <3>2 DEF IsConn
  <2>3. DOMAIN conns = DOMAIN d.conns OBVIOUS
  <2> HIDE DEF conns
  <2>4. IsSeq(conns) /\ Len(conns) = Len(d.conns) BY <2>1, DocumentFacts, MakesSeq
  <2> QED BY <2>2, <2>3, <2>4
<1>4. /\ \A c \in DOMAIN d.comps :
            comps[c] = IF d.comps[c].id = old THEN [d.comps[c] EXCEPT !.id = new] ELSE d.comps[c]
      /\ \A i \in DOMAIN d.conns :
            conns[i] = IF d.conns[i].comp = old THEN [d.conns[i] EXCEPT !.comp = new]
                       ELSE d.conns[i]
  OBVIOUS
<1> HIDE DEF comps, conns
<1>5. /\ SameRest(d, half) /\ IsDocument(half) /\ half.comps = comps
      /\ half.conns = d.conns /\ half.buses = d.buses
  BY <1>2, NewComps
<1> HIDE DEF half
<1>6. /\ SameRest(half, e) /\ IsDocument(e) /\ e.conns = conns
      /\ e.comps = half.comps /\ e.buses = half.buses
  BY <1>3, <1>5, NewConns
<1>7. SameRest(d, e) BY <1>5, <1>6, SameRestTwice
<1> HIDE DEF e
<1> QED BY <1>1, <1>2, <1>3, <1>4, <1>5, <1>6, <1>7

\* A design s is d with a part put into it, under an id nothing else has: what d
\* had is where it was, connections of no component apart.
Seeded(d, s, id, lib) ==
    /\ SameRest(d, s) /\ IsDocument(s) /\ id \notin Ids(d.comps)
    /\ Len(s.comps) = Len(d.comps) + 1
    /\ \A c \in DOMAIN d.comps : s.comps[c] = d.comps[c]
    /\ s.comps[Len(d.comps) + 1].id = id /\ s.comps[Len(d.comps) + 1].lib = lib
    /\ \A b \in DOMAIN d.buses : b \in DOMAIN s.buses /\ s.buses[b] = d.buses[b]
    /\ BusesWhole(d.buses) => BusesWhole(s.buses)
    /\ Len(s.conns) = Len(d.conns) + Len(Parts[lib].pins)
    /\ \A i \in DOMAIN d.conns :
          /\ s.conns[i].target = d.conns[i].target /\ s.conns[i].role = d.conns[i].role
          /\ s.conns[i].comp \in {d.conns[i].comp, id}
          /\ d.conns[i].comp \in Ids(d.comps) => s.conns[i].comp = d.conns[i].comp
    /\ \A k \in DOMAIN Parts[lib].pins :
          LET c == s.conns[Len(d.conns) + k] IN
            /\ c.comp = id /\ c.role = Parts[lib].pins[k].role
            /\ Seeds(s.buses, Parts[lib].pins[k], c.target)

LEMMA SeedPartSeeds ==
    ASSUME NEW d, IsDocument(d), NEW lib \in DOMAIN Parts, NEW hint
    PROVE  LET s == SeedPart(d, lib, hint) IN Seeded(d, s.design, s.id, lib)
<1> DEFINE part == Parts[lib]
           used == Ids(d.comps)
           id == IF hint # None /\ hint \notin used THEN hint ELSE NextId(lib, used, 1)
           new == [id |-> id, lib |-> lib, locks |-> <<>>, params |-> {}, show |-> <<>>]
           comps == Append(d.comps, new)
           placed == [d EXCEPT !.comps = comps]
           prepared == IF d.board \in DOMAIN Boards THEN PrepareBuses(placed, part) ELSE placed
           seeded == SeedConnections(prepared, id, part)
           other == NextId(Stem(id), used, 1)
           renamed == Rename(seeded, id, other)
           s == SeedPart(d, lib, hint)
<1>1. s = IF id \in Integrations /\ Refuses(seeded, id)
          THEN [design |-> renamed, id |-> other] ELSE [design |-> seeded, id |-> id]
  BY DEF SeedPart
<1>2. id \notin used /\ other \notin used
  <2>1. IsFiniteSet(used) BY DocumentFacts, IdsAreFinite
  <2> HIDE DEF used
  <2> QED BY <2>1, NextIdIsFree
<1>3. IsSeq(part.pins) BY SessionAssumption
<1> HIDE DEF id, other
<1>4. /\ IsSeq(comps) /\ Len(comps) = Len(d.comps) + 1 /\ DOMAIN comps = 1..(Len(d.comps) + 1)
      /\ \A c \in DOMAIN d.comps : c \in DOMAIN comps /\ comps[c] = d.comps[c]
      /\ comps[Len(d.comps) + 1].id = id /\ comps[Len(d.comps) + 1].lib = lib
      /\ \A c \in DOMAIN comps : IsComp(comps[c])
  <2>1. /\ IsSeq(d.comps) /\ Len(d.comps) \in Nat /\ DOMAIN d.comps = 1..Len(d.comps)
        /\ \A c \in DOMAIN d.comps : IsComp(d.comps[c])
    BY DocumentFacts
  <2>2. IsComp(new) /\ new.id = id /\ new.lib = lib BY DEF IsComp
  <2> HIDE DEF new
  <2>3. /\ IsSeq(comps) /\ Len(comps) = Len(d.comps) + 1 /\ DOMAIN comps = 1..(Len(d.comps) + 1)
        /\ \A c \in 1..Len(d.comps) : comps[c] = d.comps[c]
        /\ comps[Len(d.comps) + 1] = new
    BY <2>1, AppendFacts
  <2> HIDE DEF comps
  <2>4. ASSUME NEW c \in DOMAIN comps PROVE IsComp(comps[c])
    <3>1. c \in 1..Len(d.comps) \/ c = Len(d.comps) + 1 BY <2>1, <2>3
    <3> QED BY <3>1, <2>1, <2>2, <2>3
  <2> QED BY <2>1, <2>2, <2>3, <2>4
<1> HIDE DEF comps
<1>5. /\ SameRest(d, placed) /\ IsDocument(placed) /\ placed.comps = comps
      /\ placed.conns = d.conns /\ placed.buses = d.buses
  BY <1>4, NewComps
<1> HIDE DEF placed
<1>6. /\ SameRest(d, prepared) /\ IsDocument(prepared) /\ prepared.comps = comps
      /\ prepared.conns = d.conns
      /\ \A b \in DOMAIN d.buses : b \in DOMAIN prepared.buses
                                   /\ prepared.buses[b] = d.buses[b]
      /\ BusesWhole(d.buses) => BusesWhole(prepared.buses)
  <2>1. CASE d.board \in DOMAIN Boards
    <3> DEFINE e == PrepareBuses(placed, part)
    <3>1. prepared = e BY <2>1
    <3>2. /\ SameRest(placed, e) /\ IsDocument(e) /\ e.comps = placed.comps
          /\ e.conns = placed.conns
          /\ \A b \in DOMAIN placed.buses : b \in DOMAIN e.buses /\ e.buses[b] = placed.buses[b]
          /\ BusesWhole(placed.buses) => BusesWhole(e.buses)
      BY <1>3, <1>5, PreparedBuses
    <3> HIDE DEF e, prepared
    <3> QED BY <1>5, <3>1, <3>2, SameRestTwice
  <2>2. CASE d.board \notin DOMAIN Boards BY <1>5, <2>2
  <2> QED BY <2>1, <2>2
<1> HIDE DEF prepared
<1>7. /\ SameRest(prepared, seeded) /\ IsDocument(seeded)
      /\ seeded.comps = comps /\ seeded.buses = prepared.buses
      /\ Len(seeded.conns) = Len(d.conns) + Len(part.pins)
      /\ \A i \in DOMAIN d.conns : seeded.conns[i] = d.conns[i]
      /\ \A k \in DOMAIN part.pins :
            LET c == seeded.conns[Len(d.conns) + k] IN
              /\ c.comp = id /\ c.role = part.pins[k].role
              /\ Seeds(seeded.buses, part.pins[k], c.target)
  <2> HIDE DEF part
  <2>1. /\ SameRest(prepared, seeded) /\ IsDocument(seeded)
        /\ seeded.comps = prepared.comps /\ seeded.buses = prepared.buses
        /\ Len(seeded.conns) = Len(prepared.conns) + Len(part.pins)
        /\ \A i \in DOMAIN prepared.conns : seeded.conns[i] = prepared.conns[i]
        /\ \A k \in DOMAIN part.pins :
              LET c == seeded.conns[Len(prepared.conns) + k] IN
                /\ c.comp = id /\ c.role = part.pins[k].role
                /\ Seeds(prepared.buses, part.pins[k], c.target)
    <3>1. IsDocument(prepared) BY <1>6
    <3> QED BY <1>3, <3>1, SeededConns
  <2> HIDE DEF seeded
  <2> QED BY <1>6, <2>1
<1> HIDE DEF seeded
<1>8. Seeded(d, seeded, id, lib)
  <2>1. SameRest(d, seeded) BY <1>6, <1>7, SameRestTwice
  <2> QED BY <1>2, <1>4, <1>6, <1>7, <2>1 DEF Seeded
<1>9. Seeded(d, renamed, other, lib)
  <2>1. /\ SameRest(seeded, renamed) /\ IsDocument(renamed) /\ renamed.buses = seeded.buses
        /\ Len(renamed.comps) = Len(seeded.comps)
        /\ \A c \in DOMAIN seeded.comps :
              renamed.comps[c] = IF seeded.comps[c].id = id
                                 THEN [seeded.comps[c] EXCEPT !.id = other] ELSE seeded.comps[c]
        /\ Len(renamed.conns) = Len(seeded.conns)
        /\ \A i \in DOMAIN seeded.conns :
              renamed.conns[i] = IF seeded.conns[i].comp = id
                                 THEN [seeded.conns[i] EXCEPT !.comp = other] ELSE seeded.conns[i]
    <3>1. IsDocument(seeded) BY <1>7
    <3> QED BY <3>1, RenamedFacts
  <2> HIDE DEF renamed
  <2>2. SameRest(d, renamed) BY <1>6, <1>7, <2>1, SameRestTwice
  <2>3. /\ Len(d.comps) \in Nat /\ DOMAIN d.comps = 1..Len(d.comps)
        /\ Len(d.conns) \in Nat /\ DOMAIN d.conns = 1..Len(d.conns)
        /\ Len(part.pins) \in Nat /\ DOMAIN part.pins = 1..Len(part.pins)
        /\ DOMAIN seeded.comps = 1..(Len(d.comps) + 1)
        /\ DOMAIN seeded.conns = 1..(Len(d.conns) + Len(part.pins))
        /\ \A i \in DOMAIN d.conns : i \in DOMAIN seeded.conns
        /\ \A k \in DOMAIN part.pins : Len(d.conns) + k \in DOMAIN seeded.conns
    <3> HIDE DEF part
    <3>1. Len(d.comps) \in Nat /\ DOMAIN d.comps = 1..Len(d.comps) BY DocumentFacts
    <3>2. Len(d.conns) \in Nat /\ DOMAIN d.conns = 1..Len(d.conns) BY DocumentFacts
    <3>3. Len(part.pins) \in Nat /\ DOMAIN part.pins = 1..Len(part.pins) BY <1>3, SeqFacts
    <3>4. DOMAIN seeded.conns = 1..Len(seeded.conns) BY <1>7, DocumentFacts
    <3>5. DOMAIN seeded.conns = 1..(Len(d.conns) + Len(part.pins)) BY <1>7, <3>4
    <3>6. DOMAIN seeded.comps = 1..(Len(d.comps) + 1) BY <1>4, <1>7
    <3> DEFINE m == Len(d.conns)
               n == Len(part.pins)
    <3>9. m \in Nat /\ n \in Nat BY <3>2, <3>3
    <3> HIDE DEF m, n
    <3>10. /\ \A i \in 1..m : i \in 1..(m + n)
           /\ \A k \in 1..n : m + k \in 1..(m + n)
      BY <3>9, PastTheEnd
    <3>11. /\ DOMAIN d.conns = 1..m /\ DOMAIN part.pins = 1..n
           /\ DOMAIN seeded.conns = 1..(m + n)
      BY <3>2, <3>3, <3>5 DEF m, n
    <3>7. ASSUME NEW k \in DOMAIN part.pins PROVE Len(d.conns) + k \in DOMAIN seeded.conns
      <4>1. m + k \in DOMAIN seeded.conns BY <3>10, <3>11
      <4> QED BY <4>1 DEF m
    <3>8. ASSUME NEW i \in DOMAIN d.conns PROVE i \in DOMAIN seeded.conns
      BY <3>10, <3>11
    <3> QED BY <3>1, <3>2, <3>3, <3>5, <3>6, <3>7, <3>8
  <2>4. ASSUME NEW c \in DOMAIN d.comps PROVE renamed.comps[c] = d.comps[c]
    <3>1. c \in DOMAIN seeded.comps BY <2>3
    <3>2. seeded.comps[c] = d.comps[c] BY <1>4, <1>7
    <3>3. d.comps[c].id # id BY <1>2 DEF Ids
    <3> QED BY <2>1, <3>1, <3>2, <3>3
  <2>5. LET c == renamed.comps[Len(d.comps) + 1] IN c.id = other /\ c.lib = lib
    <3> DEFINE k == Len(d.comps) + 1
    <3>1. k \in DOMAIN seeded.comps BY <2>3
    <3>2. seeded.comps[k].id = id /\ seeded.comps[k].lib = lib BY <1>4, <1>7
    <3>3. IsComp(seeded.comps[k]) BY <1>7, <3>1, DocumentFacts
    <3> HIDE DEF k
    <3>4. renamed.comps[k] = [seeded.comps[k] EXCEPT !.id = other] BY <2>1, <3>1, <3>2
    <3>5. renamed.comps[k].id = other /\ renamed.comps[k].lib = lib
      BY <3>2, <3>3, <3>4 DEF IsComp
    <3> QED BY <3>5 DEF k
  <2>6. ASSUME NEW i \in DOMAIN d.conns
        PROVE  /\ renamed.conns[i].target = d.conns[i].target
               /\ renamed.conns[i].role = d.conns[i].role
               /\ renamed.conns[i].comp \in {d.conns[i].comp, other}
               /\ d.conns[i].comp \in used => renamed.conns[i].comp = d.conns[i].comp
    <3>1. i \in DOMAIN seeded.conns BY <2>3
    <3>2. seeded.conns[i] = d.conns[i] /\ IsConn(d.conns[i]) BY <1>7, DocumentFacts
    <3>3. d.conns[i].comp \in used => d.conns[i].comp # id BY <1>2
    <3>4. CASE d.conns[i].comp # id
      <4>1. renamed.conns[i] = d.conns[i] BY <2>1, <3>1, <3>2, <3>4
      <4> QED BY <4>1
    <3>5. CASE d.conns[i].comp = id
      <4>1. renamed.conns[i] = [d.conns[i] EXCEPT !.comp = other] BY <2>1, <3>1, <3>2, <3>5
      <4>2. /\ renamed.conns[i].target = d.conns[i].target
            /\ renamed.conns[i].role = d.conns[i].role
            /\ renamed.conns[i].comp = other
        BY <3>2, <4>1 DEF IsConn
      <4> QED BY <3>3, <3>5, <4>2
    <3> QED BY <3>4, <3>5
  <2>7. ASSUME NEW k \in DOMAIN part.pins
        PROVE  LET c == renamed.conns[Len(d.conns) + k] IN
                 /\ c.comp = other /\ c.role = part.pins[k].role
                 /\ Seeds(renamed.buses, part.pins[k], c.target)
    <3> DEFINE i == Len(d.conns) + k
    <3>1. i \in DOMAIN seeded.conns BY <2>3
    <3>2. /\ seeded.conns[i].comp = id /\ seeded.conns[i].role = part.pins[k].role
          /\ Seeds(seeded.buses, part.pins[k], seeded.conns[i].target)
      BY <1>7
    <3>3. IsConn(seeded.conns[i]) BY <1>7, <3>1, DocumentFacts
    <3> HIDE DEF i
    <3>4. renamed.conns[i] = [seeded.conns[i] EXCEPT !.comp = other] BY <2>1, <3>1, <3>2
    <3>5. /\ renamed.conns[i].comp = other /\ renamed.conns[i].role = seeded.conns[i].role
          /\ renamed.conns[i].target = seeded.conns[i].target
      BY <3>3, <3>4 DEF IsConn
    <3>6. LET c == renamed.conns[i] IN
            /\ c.comp = other /\ c.role = part.pins[k].role
            /\ Seeds(renamed.buses, part.pins[k], c.target)
      BY <2>1, <3>2, <3>5
    <3> QED BY <3>6 DEF i
  <2> HIDE DEF seeded
  <2>8. Len(renamed.comps) = Len(d.comps) + 1 /\ Len(renamed.conns) = Len(d.conns) + Len(part.pins)
    BY <1>4, <1>7, <2>1
  <2>9. /\ \A b \in DOMAIN d.buses : b \in DOMAIN renamed.buses /\ renamed.buses[b] = d.buses[b]
        /\ BusesWhole(d.buses) => BusesWhole(renamed.buses)
    BY <1>6, <1>7, <2>1
  <2> QED BY <1>2, <2>1, <2>2, <2>4, <2>5, <2>6, <2>7, <2>8, <2>9 DEF Seeded
<1> HIDE DEF renamed, s
<1> QED BY <1>1, <1>8, <1>9 DEF s

\* Of a larger design, too: what was bound to something stays so.
Grown(d, e, id, lib) ==
    /\ SameRest(d, e) /\ IsDocument(e) /\ id \notin Ids(d.comps)
    /\ Len(e.comps) = Len(d.comps) + 1
    /\ \A c \in DOMAIN d.comps : e.comps[c] = d.comps[c]
    /\ e.comps[Len(d.comps) + 1].id = id /\ e.comps[Len(d.comps) + 1].lib = lib
    /\ Ids(d.buses) \subseteq Ids(e.buses)
    /\ Len(e.conns) = Len(d.conns) + Len(Parts[lib].pins)
    /\ \A i \in DOMAIN d.conns :
          /\ e.conns[i].role = d.conns[i].role
          /\ e.conns[i].comp \in {d.conns[i].comp, id}
          /\ d.conns[i].comp \in Ids(d.comps) =>
               /\ e.conns[i].comp = d.conns[i].comp
               /\ e.conns[i].target.kind = d.conns[i].target.kind
               /\ d.conns[i].target.kind # "bus" \/ d.conns[i].target.to \in Ids(d.buses)
                  => e.conns[i].target = d.conns[i].target
    /\ \A k \in DOMAIN Parts[lib].pins :
          LET c == e.conns[Len(d.conns) + k] IN
            c.comp = id /\ c.role = Parts[lib].pins[k].role

\* What dropping buses leaves: those there were before, and of a connection all but
\* a bus that is gone.
LEMMA DropFacts ==
    ASSUME NEW s, IsDocument(s), NEW before
    PROVE  LET t == DropEmptyBuses(s, before) IN
             /\ SameRest(s, t) /\ IsDocument(t) /\ t.comps = s.comps
             /\ Ids(s.buses) \cap before \subseteq Ids(t.buses)
             /\ \A b \in DOMAIN t.buses : \E e \in DOMAIN s.buses : t.buses[b] = s.buses[e]
             /\ IdsApart(s.buses) => IdsApart(t.buses)
             /\ Len(t.conns) = Len(s.conns)
             /\ \A i \in DOMAIN s.conns :
                   LET was == s.conns[i].target
                       is == t.conns[i].target
                   IN /\ t.conns[i].comp = s.conns[i].comp /\ t.conns[i].role = s.conns[i].role
                      /\ \/ /\ is = was
                            /\ was.kind = "bus" /\ was.to \in Ids(s.buses) => was.to \in Ids(t.buses)
                         \/ is = Target("bus", None) /\ was.kind = "bus" /\ was.to \notin before
<1> DEFINE empty == {s.buses[b].id : b \in {e \in DOMAIN s.buses :
                       s.buses[e].id \notin before /\ MissingPins(s.buses[e]) # {}}}
           on(c) == c.target.kind = "bus" /\ c.target.to \in empty
           kept == {b \in DOMAIN s.buses : s.buses[b].id \notin empty}
           buses == Picked(s.buses, kept)
           conns == [i \in DOMAIN s.conns |->
                       IF on(s.conns[i]) THEN [s.conns[i] EXCEPT !.target = Target("bus", None)]
                       ELSE s.conns[i]]
           half == [s EXCEPT !.buses = buses]
           t == [half EXCEPT !.conns = conns]
<1>1. DropEmptyBuses(s, before) = t
  <2>1. half.conns = s.conns BY DEF IsDocument
  <2> QED BY <2>1 DEF DropEmptyBuses
<1>2. empty \cap before = {} OBVIOUS
<1> HIDE DEF empty
<1>3. /\ DOMAIN s.buses = 1..Len(s.buses) /\ Len(s.buses) \in Nat /\ IsSeq(s.buses)
      /\ DOMAIN s.conns = 1..Len(s.conns) /\ Len(s.conns) \in Nat
      /\ \A b \in DOMAIN s.buses : IsBus(s.buses[b])
      /\ \A i \in DOMAIN s.conns : IsConn(s.conns[i])
  BY DocumentFacts
<1>4. /\ IsSeq(buses)
      /\ \A k \in DOMAIN buses : \E b \in kept : buses[k] = s.buses[b]
      /\ \A b \in kept : \E k \in DOMAIN buses : buses[k] = s.buses[b]
      /\ IdsApart(s.buses) => IdsApart(buses)
  <2>1. kept \in SUBSET (1..Len(s.buses)) /\ kept \in SUBSET DOMAIN s.buses BY <1>3
  <2> HIDE DEF kept
  <2>2. IdsApart(s.buses) => IdsApart(buses) BY <1>3, <2>1, PickedApart
  <2> HIDE DEF buses
  <2> QED BY <1>3, <2>1, <2>2, PickedFacts DEF buses
<1>5. \A k \in DOMAIN buses : IsBus(buses[k]) /\ \E b \in DOMAIN s.buses : buses[k] = s.buses[b]
  <2> HIDE DEF buses
  <2> QED BY <1>3, <1>4
<1>6. Ids(buses) = Ids(s.buses) \ empty
  <2> HIDE DEF buses
  <2> QED BY <1>4 DEF Ids
<1>7. /\ IsSeq(conns) /\ Len(conns) = Len(s.conns)
      /\ \A i \in DOMAIN conns : IsConn(conns[i])
  <2>1. ASSUME NEW i \in DOMAIN s.conns PROVE IsConn(conns[i])
    <3>1. IsConn(s.conns[i]) BY <1>3
    <3>2. \/ conns[i] = s.conns[i]
          \/ conns[i] = [comp |-> s.conns[i].comp, role |-> s.conns[i].role,
                         target |-> Target("bus", None)]
      BY <3>1 DEF IsConn
    <3> HIDE DEF conns
    <3> QED BY <3>1, <3>2 DEF IsConn
  <2>2. conns = [i \in 1..Len(s.conns) |-> conns[i]] /\ DOMAIN conns = DOMAIN s.conns BY <1>3
  <2> HIDE DEF conns
  <2> QED BY <1>3, <2>1, <2>2, MakesSeq
<1>8. ASSUME NEW i \in DOMAIN s.conns
      PROVE  /\ conns[i].comp = s.conns[i].comp /\ conns[i].role = s.conns[i].role
             /\ conns[i].target = IF on(s.conns[i]) THEN Target("bus", None)
                                  ELSE s.conns[i].target
  <2>1. IsConn(s.conns[i]) BY <1>3
  <2>2. CASE on(s.conns[i])
    <3>1. conns[i] = [s.conns[i] EXCEPT !.target = Target("bus", None)] BY <2>2
    <3> HIDE DEF conns
    <3> QED BY <2>1, <2>2, <3>1 DEF IsConn
  <2>3. CASE ~on(s.conns[i]) BY <2>3
  <2> QED BY <2>2, <2>3
<1> HIDE DEF conns, buses
<1>9. /\ SameRest(s, half) /\ IsDocument(half) /\ half.buses = buses
      /\ half.conns = s.conns /\ half.comps = s.comps
  BY <1>4, <1>5, NewBuses
<1> HIDE DEF half
<1>10. /\ SameRest(half, t) /\ IsDocument(t) /\ t.conns = conns
       /\ t.comps = half.comps /\ t.buses = half.buses
  BY <1>7, <1>9, NewConns
<1> HIDE DEF t
<1>11. SameRest(s, t) BY <1>9, <1>10, SameRestTwice
<1>12. ASSUME NEW i \in DOMAIN s.conns
       PROVE  LET was == s.conns[i].target
                  is == t.conns[i].target
              IN \/ /\ is = was
                    /\ was.kind = "bus" /\ was.to \in Ids(s.buses) => was.to \in Ids(t.buses)
                 \/ is = Target("bus", None) /\ was.kind = "bus" /\ was.to \notin before
  <2>1. t.conns = conns /\ t.buses = buses BY <1>9, <1>10
  <2>2. CASE on(s.conns[i]) BY <1>2, <1>8, <2>1, <2>2
  <2>3. CASE ~on(s.conns[i]) BY <1>6, <1>8, <2>1, <2>3
  <2> QED BY <2>2, <2>3
<1>13. Ids(s.buses) \cap before \subseteq Ids(t.buses) BY <1>2, <1>6, <1>9, <1>10
<1> QED BY <1>1, <1>4, <1>5, <1>7, <1>8, <1>9, <1>10, <1>11, <1>12, <1>13
LEMMA DropGrows ==
    ASSUME NEW d, IsDocument(d), NEW lib \in DOMAIN Parts, NEW s, NEW id, Seeded(d, s, id, lib)
    PROVE  LET t == DropEmptyBuses(s, Ids(d.buses)) IN
             /\ Grown(d, t, id, lib) /\ t.comps = s.comps
             /\ \A b \in DOMAIN t.buses : \E e \in DOMAIN s.buses : t.buses[b] = s.buses[e]
             /\ \A k \in DOMAIN Parts[lib].pins :
                   Seeds(t.buses, Parts[lib].pins[k], t.conns[Len(d.conns) + k].target)
<1> DEFINE before == Ids(d.buses)
           t == DropEmptyBuses(s, before)
           n == Len(d.conns)
           pins == Parts[lib].pins
<1>1. IsDocument(s) BY DEF Seeded
<1>2. /\ SameRest(s, t) /\ IsDocument(t) /\ t.comps = s.comps
      /\ Ids(s.buses) \cap before \subseteq Ids(t.buses)
      /\ \A b \in DOMAIN t.buses : \E e \in DOMAIN s.buses : t.buses[b] = s.buses[e]
      /\ Len(t.conns) = Len(s.conns)
      /\ \A i \in DOMAIN s.conns :
            LET was == s.conns[i].target
                is == t.conns[i].target
            IN /\ t.conns[i].comp = s.conns[i].comp /\ t.conns[i].role = s.conns[i].role
               /\ \/ /\ is = was
                     /\ was.kind = "bus" /\ was.to \in Ids(s.buses) => was.to \in Ids(t.buses)
                  \/ is = Target("bus", None) /\ was.kind = "bus" /\ was.to \notin before
  BY <1>1, DropFacts
<1> HIDE DEF t
<1>3. before \subseteq Ids(t.buses)
  <2>1. before \subseteq Ids(s.buses) BY DEF Seeded, Ids
  <2> QED BY <1>2, <2>1
<1>4. SameRest(d, t)
  <2>1. SameRest(d, s) BY DEF Seeded
  <2> QED BY <1>2, <2>1, SameRestTwice
<1>5. /\ \A i \in DOMAIN d.conns : i \in DOMAIN s.conns
      /\ \A k \in DOMAIN pins : n + k \in DOMAIN s.conns
  <2> HIDE DEF pins
  <2>1. IsSeq(pins) BY SessionAssumption DEF pins
  <2>2. /\ n \in Nat /\ DOMAIN d.conns = 1..n /\ Len(pins) \in Nat /\ DOMAIN pins = 1..Len(pins)
    BY <2>1, DocumentFacts, SeqFacts
  <2>3. DOMAIN s.conns = 1..(n + Len(pins)) BY <1>1, DocumentFacts DEF Seeded, pins
  <2> HIDE DEF n
  <2> QED BY <2>2, <2>3, PastTheEnd
<1>6. ASSUME NEW i \in DOMAIN d.conns
      PROVE  /\ t.conns[i].role = d.conns[i].role
             /\ t.conns[i].comp \in {d.conns[i].comp, id}
             /\ d.conns[i].comp \in Ids(d.comps) =>
                  /\ t.conns[i].comp = d.conns[i].comp
                  /\ t.conns[i].target.kind = d.conns[i].target.kind
                  /\ d.conns[i].target.kind # "bus" \/ d.conns[i].target.to \in Ids(d.buses)
                     => t.conns[i].target = d.conns[i].target
  <2>1. /\ s.conns[i].target = d.conns[i].target /\ s.conns[i].role = d.conns[i].role
        /\ s.conns[i].comp \in {d.conns[i].comp, id}
        /\ d.conns[i].comp \in Ids(d.comps) => s.conns[i].comp = d.conns[i].comp
    BY DEF Seeded
  <2> QED BY <1>2, <1>5, <2>1 DEF Target
<1>7. ASSUME NEW k \in DOMAIN pins
      PROVE  /\ t.conns[n + k].comp = id /\ t.conns[n + k].role = pins[k].role
             /\ Seeds(t.buses, pins[k], t.conns[n + k].target)
  <2> DEFINE i == n + k
  <2>1. /\ s.conns[i].comp = id /\ s.conns[i].role = pins[k].role
        /\ Seeds(s.buses, pins[k], s.conns[i].target)
    BY DEF Seeded
  <2>2. i \in DOMAIN s.conns BY <1>5
  <2> HIDE DEF i, pins
  <2>3. t.conns[i].comp = id /\ t.conns[i].role = pins[k].role BY <1>2, <2>1, <2>2
  <2>4. Seeds(t.buses, pins[k], t.conns[i].target) BY <1>2, <2>1, <2>2 DEF Seeds, Target
  <2> QED BY <2>3, <2>4 DEF i
<1>8. Grown(d, t, id, lib)
  <2>1. Len(t.conns) = Len(d.conns) + Len(pins) BY <1>2 DEF Seeded
  <2> QED BY <1>2, <1>3, <1>4, <1>6, <1>7, <2>1 DEF Seeded, Grown
<1> QED BY <1>2, <1>7, <1>8 DEF t

\* add_component grows the design; of what was solved, each of the new part's pins
\* has what the last of its role has.
LEMMA AddGrows ==
    ASSUME NEW d, IsDocument(d), NEW lib \in DOMAIN Parts, NEW hint
    PROVE  LET a == AddComponent(d, lib, hint)
               t == SeedTrimmed(d, lib, hint)
               e == a.design
           IN /\ Grown(d, e, a.id, lib) /\ a.id = t.id
              /\ e.comps = t.design.comps /\ e.buses = t.design.buses
              /\ \A i \in DOMAIN t.design.conns :
                    t.design.conns[i].comp # a.id => e.conns[i] = t.design.conns[i]
              /\ \A k \in DOMAIN Parts[lib].pins :
                    \E j \in DOMAIN e.conns :
                       /\ e.conns[j].comp = a.id
                       /\ e.conns[j].role = Parts[lib].pins[k].role
                       /\ Len(d.conns) + k <= j
                       /\ Follows(t.design, t.design.conns[j],
                                  [t.design.conns[j] EXCEPT
                                     !.target = e.conns[Len(d.conns) + k].target])
<1> DEFINE t == SeedTrimmed(d, lib, hint)
           td == t.design
           id == t.id
           solved == Solve(td).conns
           FinalOne(role) == CHOOSE i \in DOMAIN solved :
                           /\ solved[i].comp = id /\ solved[i].role = role
                           /\ \A j \in DOMAIN solved :
                                 solved[j].comp = id /\ solved[j].role = role => j <= i
           conns == [i \in DOMAIN td.conns |->
                       IF td.conns[i].comp # id THEN td.conns[i]
                       ELSE [td.conns[i] EXCEPT !.target = solved[FinalOne(td.conns[i].role)].target]]
           e == [td EXCEPT !.conns = conns]
           pins == Parts[lib].pins
           n == Len(d.conns)
<1>1. AddComponent(d, lib, hint) = [design |-> e, id |-> id]
  <2> HIDE DEF t
  <2> QED BY DEF AddComponent, t
<1>2. /\ Grown(d, td, id, lib)
      /\ \A k \in DOMAIN pins : Seeds(td.buses, pins[k], td.conns[n + k].target)
  <2> DEFINE s == SeedPart(d, lib, hint)
  <2>1. Seeded(d, s.design, s.id, lib) BY SeedPartSeeds
  <2>2. t = [design |-> DropEmptyBuses(s.design, Ids(d.buses)), id |-> s.id] BY DEF SeedTrimmed
  <2> HIDE DEF s, t
  <2> QED BY <2>1, <2>2, DropGrows
<1> HIDE DEF t
<1>3. IsDocument(td) BY <1>2 DEF Grown
<1>4. /\ DOMAIN td.conns = 1..Len(td.conns) /\ Len(td.conns) \in Nat
      /\ \A i \in DOMAIN td.conns : IsConn(td.conns[i])
  BY <1>3, DocumentFacts
<1>5. /\ IsSeq(solved) /\ Len(solved) = Len(td.conns) /\ DOMAIN solved = DOMAIN td.conns
      /\ \A i \in DOMAIN td.conns : Follows(td, td.conns[i], solved[i])
  <2>1. FollowAll(td, solved) BY <1>3, SolvedFollow
  <2> HIDE DEF solved
  <2>2. IsSeq(solved) /\ Len(solved) = Len(td.conns) BY <2>1 DEF FollowAll
  <2>3. DOMAIN solved = 1..Len(solved) BY <2>2, SeqFacts
  <2> QED BY <1>4, <2>1, <2>2, <2>3 DEF FollowAll
<1> HIDE DEF solved
<1>6. ASSUME NEW i \in DOMAIN td.conns, td.conns[i].comp = id
      PROVE  LET j == FinalOne(td.conns[i].role) IN
               /\ j \in DOMAIN td.conns /\ td.conns[j].comp = id
               /\ td.conns[j].role = td.conns[i].role /\ i <= j
  <2> DEFINE role == td.conns[i].role
             those == {j \in DOMAIN solved : solved[j].comp = id /\ solved[j].role = role}
  <2>1. ASSUME NEW j \in DOMAIN td.conns
        PROVE  solved[j].comp = td.conns[j].comp /\ solved[j].role = td.conns[j].role
    <3>1. Follows(td, td.conns[j], solved[j]) BY <1>5
    <3> HIDE DEF td, id
    <3> QED BY <3>1 DEF Follows
  <2>2. i \in those BY <1>5, <1>6, <2>1
  <2>3. those \in SUBSET (1..Len(td.conns)) BY <1>4, <1>5
  <2>4. \E x \in those : \A y \in those : y <= x
    <3> HIDE DEF those
    <3> QED BY <1>4, <2>2, <2>3, GreatestIsIn
  <2>5. /\ FinalOne(role) \in DOMAIN solved /\ solved[FinalOne(role)].comp = id
        /\ solved[FinalOne(role)].role = role /\ i <= FinalOne(role)
    <3>1. PICK x \in DOMAIN solved :
            /\ solved[x].comp = id /\ solved[x].role = role
            /\ \A j \in DOMAIN solved :
                  solved[j].comp = id /\ solved[j].role = role => j <= x
      BY <2>4
    <3>2. solved[i].comp = id /\ solved[i].role = role /\ i \in DOMAIN solved BY <2>2
    <3> HIDE DEF role
    <3> QED BY <3>1, <3>2
  <2> HIDE DEF FinalOne, role
  <2> QED BY <1>5, <2>1, <2>5 DEF role
<1> HIDE DEF FinalOne
<1>7. ASSUME NEW i \in DOMAIN td.conns
      PROVE  /\ IsConn(conns[i]) /\ conns[i].comp = td.conns[i].comp
             /\ conns[i].role = td.conns[i].role
             /\ conns[i].target = IF td.conns[i].comp # id THEN td.conns[i].target
                                  ELSE solved[FinalOne(td.conns[i].role)].target
  <2>1. IsConn(td.conns[i]) BY <1>4
  <2>2. conns[i] = [comp |-> td.conns[i].comp, role |-> td.conns[i].role,
                    target |-> IF td.conns[i].comp # id THEN td.conns[i].target
                               ELSE solved[FinalOne(td.conns[i].role)].target]
    BY <2>1 DEF IsConn
  <2> HIDE DEF conns
  <2> QED BY <2>2 DEF IsConn
<1>8. /\ IsSeq(conns) /\ Len(conns) = Len(td.conns) /\ DOMAIN conns = DOMAIN td.conns
  <2>1. conns = [i \in 1..Len(td.conns) |-> conns[i]] /\ DOMAIN conns = DOMAIN td.conns BY <1>4
  <2> HIDE DEF conns
  <2> QED BY <1>4, <2>1, MakesSeq
<1> HIDE DEF conns
<1>9. /\ SameRest(td, e) /\ IsDocument(e) /\ e.conns = conns
      /\ e.comps = td.comps /\ e.buses = td.buses
  BY <1>3, <1>7, <1>8, NewConns
<1> HIDE DEF e
<1>10. /\ \A i \in DOMAIN d.conns : i \in DOMAIN td.conns
       /\ \A k \in DOMAIN pins : n + k \in DOMAIN td.conns
  <2> HIDE DEF pins
  <2>1. IsSeq(pins) BY SessionAssumption DEF pins
  <2>2. /\ n \in Nat /\ DOMAIN d.conns = 1..n /\ Len(pins) \in Nat /\ DOMAIN pins = 1..Len(pins)
    BY <2>1, DocumentFacts, SeqFacts
  <2>3. DOMAIN td.conns = 1..(n + Len(pins)) BY <1>2, <1>4 DEF Grown, pins
  <2> HIDE DEF n
  <2> QED BY <2>2, <2>3, PastTheEnd
<1>11. ASSUME NEW i \in DOMAIN d.conns
       PROVE  /\ e.conns[i].role = d.conns[i].role
              /\ e.conns[i].comp \in {d.conns[i].comp, id}
              /\ d.conns[i].comp \in Ids(d.comps) =>
                   /\ e.conns[i].comp = d.conns[i].comp
                   /\ e.conns[i].target.kind = d.conns[i].target.kind
                   /\ d.conns[i].target.kind # "bus" \/ d.conns[i].target.to \in Ids(d.buses)
                      => e.conns[i].target = d.conns[i].target
  <2>1. /\ td.conns[i].role = d.conns[i].role
        /\ td.conns[i].comp \in {d.conns[i].comp, id}
        /\ d.conns[i].comp \in Ids(d.comps) =>
              /\ td.conns[i].comp = d.conns[i].comp
              /\ td.conns[i].target.kind = d.conns[i].target.kind
              /\ d.conns[i].target.kind # "bus" \/ d.conns[i].target.to \in Ids(d.buses)
                 => td.conns[i].target = d.conns[i].target
        /\ id \notin Ids(d.comps)
    BY <1>2 DEF Grown
  <2> QED BY <1>7, <1>9, <1>10, <2>1
<1>12. ASSUME NEW k \in DOMAIN pins
       PROVE  /\ e.conns[n + k].comp = id /\ e.conns[n + k].role = pins[k].role
              /\ \E j \in DOMAIN e.conns :
                    /\ e.conns[j].comp = id /\ e.conns[j].role = pins[k].role
                    /\ n + k <= j
                    /\ Follows(td, td.conns[j],
                               [td.conns[j] EXCEPT !.target = e.conns[n + k].target])
  <2> DEFINE i == n + k
             j == FinalOne(td.conns[i].role)
  <2>1. i \in DOMAIN td.conns BY <1>10
  <2>2. td.conns[i].comp = id /\ td.conns[i].role = pins[k].role BY <1>2 DEF Grown
  <2> HIDE DEF i, pins
  <2>3. e.conns[i].comp = id /\ e.conns[i].role = pins[k].role BY <1>7, <1>9, <2>1, <2>2
  <2>4. e.conns[i].target = solved[j].target BY <1>7, <1>9, <2>1, <2>2
  <2>5. /\ j \in DOMAIN td.conns /\ td.conns[j].comp = id
        /\ td.conns[j].role = td.conns[i].role /\ i <= j
    BY <1>6, <2>1, <2>2
  <2> HIDE DEF j
  <2>6. j \in DOMAIN e.conns /\ e.conns[j].comp = id /\ e.conns[j].role = pins[k].role
    BY <1>7, <1>8, <1>9, <2>2, <2>5
  <2>7. Follows(td, td.conns[j], solved[j]) /\ IsConn(td.conns[j]) BY <1>4, <1>5, <2>5
  <2>8. Follows(td, td.conns[j], [td.conns[j] EXCEPT !.target = solved[j].target])
    <3>1. solved[j] = [td.conns[j] EXCEPT !.target = solved[j].target]
      BY <2>7 DEF Follows, IsConn
    <3> QED BY <2>7, <3>1
  <2>9. Follows(td, td.conns[j], [td.conns[j] EXCEPT !.target = e.conns[i].target])
    BY <2>4, <2>8
  <2>10. i <= j BY <2>5
  <2> QED BY <2>3, <2>6, <2>9, <2>10 DEF i
<1>13. Grown(d, e, id, lib)
  <2>1. SameRest(d, e) BY <1>2, <1>9, SameRestTwice DEF Grown
  <2>2. Len(e.conns) = Len(d.conns) + Len(pins) BY <1>2, <1>8, <1>9 DEF Grown
  <2> QED BY <1>2, <1>9, <1>11, <1>12, <2>1, <2>2 DEF Grown
<1>14. ASSUME NEW i \in DOMAIN td.conns, td.conns[i].comp # id PROVE e.conns[i] = td.conns[i]
  <2>1. IsConn(e.conns[i]) /\ IsConn(td.conns[i]) BY <1>4, <1>7, <1>9
  <2> QED BY <1>7, <1>9, <1>14, <2>1 DEF IsConn
<1> QED BY <1>1, <1>9, <1>12, <1>13, <1>14 DEF t

-----------------------------------------------------------------------------
(* What the other tools do to a document.                                  *)

\* The connections of a design are where they were, and lead where they led.
Unmoved(d, e) ==
    /\ IsDocument(e)
    /\ \A i \in DOMAIN d.conns : i \in DOMAIN e.conns /\ e.conns[i].target = d.conns[i].target

LEMMA SeedPartUnmoved ==
    ASSUME NEW d, IsDocument(d), NEW lib \in DOMAIN Parts, NEW hint
    PROVE  Unmoved(d, SeedPart(d, lib, hint).design)
<1> DEFINE s == SeedPart(d, lib, hint)
           pins == Parts[lib].pins
           n == Len(d.conns)
<1>1. Seeded(d, s.design, s.id, lib) BY SeedPartSeeds
<1> HIDE DEF s, pins
<1>2. IsSeq(pins) BY SessionAssumption DEF pins
<1>3. IsDocument(s.design) /\ Len(s.design.conns) = n + Len(pins) BY <1>1 DEF Seeded, pins
<1>4. /\ n \in Nat /\ DOMAIN d.conns = 1..n /\ Len(pins) \in Nat
      /\ DOMAIN s.design.conns = 1..(n + Len(pins))
  BY <1>2, <1>3, DocumentFacts, SeqFacts
<1>5. \A i \in DOMAIN d.conns : i \in DOMAIN s.design.conns
  <2> HIDE DEF n
  <2> QED BY <1>4, PastTheEnd
<1>6. \A i \in DOMAIN d.conns : s.design.conns[i].target = d.conns[i].target
  BY <1>1 DEF Seeded
<1> QED BY <1>3, <1>5, <1>6 DEF Unmoved, s

LEMMA InsertRunsAre ==
    ASSUME NEW d, NEW members, Len(members) \in Nat
    PROVE  /\ InsertRuns(d, members)[0] = d
           /\ \A n \in 1..Len(members) :
                 InsertRuns(d, members)[n] =
                    SeedPart(InsertRuns(d, members)[n - 1], members[n].lib, members[n].hint).design
<1> DEFINE N == Len(members)
           After(g, n) == SeedPart(g, members[n].lib, members[n].hint).design
           Fits(g, n) == g = [k \in 0..n |-> IF k = 0 THEN d ELSE After(g[k - 1], k)]
           fit == {n \in 0..N : \E g : Fits(g, n)}
<1>1. 0 \in fit
  <2> DEFINE h == [k \in 0..0 |-> d]
  <2>1. Fits(h, 0) OBVIOUS
  <2> HIDE DEF Fits, h
  <2> QED BY <2>1
<1>2. ASSUME NEW n \in 1..N, n - 1 \in fit PROVE n \in fit
  <2>1. PICK g : Fits(g, n - 1) BY <1>2
  <2> DEFINE h == [k \in 0..n |-> IF k = n THEN After(g[n - 1], n) ELSE g[k]]
  <2>2. Fits(h, n)
    <3> HIDE DEF After
    <3> QED BY <2>1
  <2> HIDE DEF Fits, h
  <2> QED BY <2>2
<1>3. N \in fit
  <2> HIDE DEF fit
  <2>1. 0..N \subseteq fit BY <1>1, <1>2, Climbs
  <2> QED BY <2>1
<1>4. Fits(InsertRuns(d, members), N) BY <1>3 DEF InsertRuns
<1> DEFINE runs == InsertRuns(d, members)
<1>5. runs = [k \in 0..N |-> IF k = 0 THEN d ELSE After(runs[k - 1], k)] BY <1>4
<1> HIDE DEF runs, After
<1>6. runs[0] = d BY <1>5
<1>7. ASSUME NEW n \in 1..N PROVE runs[n] = After(runs[n - 1], n) BY <1>5
<1> QED BY <1>6, <1>7 DEF runs, After

LEMMA InsertUnmoved ==
    ASSUME NEW d, IsDocument(d), NEW members \in Modules
    PROVE  Unmoved(d, InsertModule(d, members))
<1> DEFINE N == Len(members)
           runs == InsertRuns(d, members)
           fine == {n \in 0..N : Unmoved(d, runs[n])}
<1>1. /\ IsSeq(members) /\ N \in Nat /\ DOMAIN members = 1..N
      /\ \A k \in DOMAIN members : members[k].lib \in DOMAIN Parts
  BY SessionAssumption, SeqFacts
<1>2. /\ runs[0] = d
      /\ \A n \in 1..N : runs[n] = SeedPart(runs[n - 1], members[n].lib, members[n].hint).design
  BY <1>1, InsertRunsAre
<1>3. InsertModule(d, members) = runs[N] BY DEF InsertModule
<1> HIDE DEF runs
<1>4. 0 \in fine BY <1>1, <1>2 DEF Unmoved
<1>5. ASSUME NEW n \in 1..N, n - 1 \in fine PROVE n \in fine
  <2> DEFINE e == runs[n - 1]
  <2>1. Unmoved(d, e) BY <1>5
  <2>2. members[n].lib \in DOMAIN Parts BY <1>1
  <2>3. runs[n] = SeedPart(e, members[n].lib, members[n].hint).design BY <1>2
  <2> HIDE DEF e
  <2>4. IsDocument(e) BY <2>1 DEF Unmoved
  <2>5. Unmoved(e, runs[n]) BY <2>2, <2>3, <2>4, SeedPartUnmoved
  <2>6. Unmoved(d, runs[n]) BY <2>1, <2>5 DEF Unmoved
  <2>7. n \in 0..N BY <1>1
  <2> QED BY <2>6, <2>7
<1>6. 0..N \subseteq fine
  <2> HIDE DEF fine
  <2> QED BY <1>1, <1>4, <1>5, Climbs
<1> QED BY <1>1, <1>3, <1>6

\* set_board, set_strict and set_part_override leave parts, buses and connections.
LEMMA FieldUnmoved ==
    ASSUME NEW d, IsDocument(d), NEW e, e = [field \in DOMAIN d |-> e[field]],
           e.comps = d.comps, e.buses = d.buses, e.conns = d.conns,
           e.automations = d.automations
    PROVE  Unmoved(d, e)
BY DEF IsDocument, Unmoved

\* Tuples are sequences of that length.
LEMMA TuplesAre ==
    ASSUME NEW a, NEW b, NEW c, NEW e
    PROVE  IsSeq(<<>>) /\ IsSeq(<<a>>) /\ IsSeq(<<a, b>>) /\ IsSeq(<<a, b, c>>) /\ IsSeq(<<a, b, c, e>>)
<1>1. IsSeq(<<>>) BY DEF IsSeq
<1>2. IsSeq(<<a>>) BY DEF IsSeq
<1>3. IsSeq(<<a, b>>) BY DEF IsSeq
<1>4. IsSeq(<<a, b, c>>) BY DEF IsSeq
<1>5. IsSeq(<<a, b, c, e>>) BY DEF IsSeq
<1> QED BY <1>1, <1>2, <1>3, <1>4, <1>5

\* A handler names its roles in order.
LEMMA HandlersList ==
    ASSUME NEW p, IsHandled(p)
    PROVE  IsSeq(HandlerOf(p).lines) /\ IsSeq(HandlerOf(p).pins)
<1> DEFINE Lists(h) == IsSeq(h.lines) /\ IsSeq(h.pins)
<1>1. CASE p.key \in Microphones
  <2>1. HandlerOf(p) = Microphone(p.pins) BY <1>1 DEF HandlerOf
  <2>2. IsSeq(Microphone(p.pins).lines) BY TuplesAre DEF Microphone, Handler
  <2>3. IsSeq(Microphone(p.pins).pins)
    <3>1. CASE "data" \in DOMAIN p.pins BY <3>1, TuplesAre DEF Microphone, Handler
    <3>2. CASE "data" \notin DOMAIN p.pins BY <3>2, TuplesAre DEF Microphone, Handler
    <3> QED BY <3>1, <3>2
  <2> QED BY <2>1, <2>2, <2>3
<1>2. CASE p.key \notin Microphones
  <2>1. HandlerOf(p) = Handlers[p.key] /\ p.key \in DOMAIN Handlers
    BY <1>2 DEF HandlerOf, IsHandled
  <2>2. ASSUME NEW id, NEW lib, NEW role PROVE Lists(OnPin(id, lib, role))
    BY TuplesAre DEF OnPin, Handler
  <2>3. ASSUME NEW id, NEW lib, NEW supply, NEW needs, NEW bus, NEW lines, NEW pins,
               IsSeq(lines), IsSeq(pins)
        PROVE  Lists(Handler(id, lib, supply, needs, bus, lines, pins))
    BY <2>3 DEF Handler
  <2>4. Lists(Handlers.button) /\ Lists(Handlers.boot_button) /\ Lists(Handlers.led)
        /\ Lists(Handlers.ir_tx) /\ Lists(Handlers.battery_adc)
    <3> HIDE DEF Lists
    <3> QED BY <2>2 DEF Handlers
  <2>5. Lists(Handlers.led_)
    <3> DEFINE on == OnPin("onboard_led", "esp32_rmt_led_strip", "DIN")
    <3>1. Lists(on) BY <2>2
    <3>2. Handlers.led_ = [on EXCEPT !.supply = "5V"] BY DEF Handlers
    <3>3. [on EXCEPT !.supply = "5V"].lines = on.lines /\ [on EXCEPT !.supply = "5V"].pins = on.pins
      BY DEF OnPin, Handler
    <3> HIDE DEF on
    <3> QED BY <3>1, <3>2, <3>3
  <2>6. Lists(Handlers.oled_ssd1306) /\ Lists(Handlers.imu_mpu6886) /\ Lists(Handlers.gps_)
    <3> HIDE DEF Lists
    <3> QED BY <2>3, TuplesAre DEF Handlers
  <2>7. Lists(Handlers.lora_sx1276) /\ Lists(Handlers.display_st7789)
    <3> HIDE DEF Lists
    <3> QED BY <2>3, TuplesAre DEF Handlers
  <2>8. DOMAIN Handlers = {"button", "boot_button", "led", "led_", "ir_tx", "battery_adc",
                           "oled_ssd1306", "imu_mpu6886", "lora_sx1276", "display_st7789", "gps_"}
    BY DEF Handlers
  <2> HIDE DEF Lists
  <2>9. Lists(Handlers[p.key]) BY <2>1, <2>4, <2>5, <2>6, <2>7, <2>8
  <2>10. Lists(HandlerOf(p)) BY <2>1, <2>9
  <2> QED BY <2>10 DEF Lists
<1> QED BY <1>1, <1>2

\* Its wires are the part's, and those of its lines are on the bus.
IsWire(h, bus, c) ==
    /\ IsConn(c) /\ c.comp = h.id
    /\ c.target.kind = "bus" => c.target.to = bus.id /\ DOMAIN h.lines # {}

LEMMA WiresAre ==
    ASSUME NEW h, NEW bus, NEW pins, IsSeq(h.lines), IsSeq(h.pins)
    PROVE  /\ IsSeq(HandlerWires(h, bus, pins))
           /\ \A i \in DOMAIN HandlerWires(h, bus, pins) : IsWire(h, bus, HandlerWires(h, bus, pins)[i])
<1> DEFINE some == {k \in DOMAIN h.pins : h.pins[k][2] \in DOMAIN pins}
           there == Picked(h.pins, some)
           power == IF h.supply = None THEN <<>>
                    ELSE <<Wire(h.id, "VCC", "rail", <<h.supply, 0>>),
                           Wire(h.id, "GND", "rail", <<"GND", 0>>)>>
           onBus == [k \in DOMAIN h.lines |-> Wire(h.id, h.lines[k], "bus", bus.id)]
           onPin == [k \in DOMAIN there |-> Wire(h.id, there[k][1], "gpio", pins[there[k][2]])]
           All(s) == IsSeq(s) /\ \A i \in DOMAIN s : IsWire(h, bus, s[i])
<1>1. ASSUME NEW role, NEW kind, NEW to,
             kind = "bus" => to = bus.id /\ DOMAIN h.lines # {}
      PROVE  IsWire(h, bus, Wire(h.id, role, kind, to))
  BY <1>1 DEF Wire, Target, IsWire, IsConn
<1>2. All(power)
  <2>1. CASE h.supply = None
    <3>1. power = <<>> BY <2>1
    <3>2. DOMAIN power = {} BY <3>1
    <3>3. IsSeq(power) BY <3>1, TuplesAre
    <3> HIDE DEF power
    <3> QED BY <3>2, <3>3
  <2>2. CASE h.supply # None
    <3> DEFINE vcc == Wire(h.id, "VCC", "rail", <<h.supply, 0>>)
               gnd == Wire(h.id, "GND", "rail", <<"GND", 0>>)
    <3>1. IsWire(h, bus, vcc) /\ IsWire(h, bus, gnd) BY <1>1
    <3>2. power = <<vcc, gnd>> BY <2>2
    <3> HIDE DEF vcc, gnd
    <3>3. IsSeq(<<vcc, gnd>>) BY TuplesAre
    <3>4. \A i \in DOMAIN <<vcc, gnd>> : IsWire(h, bus, <<vcc, gnd>>[i]) BY <3>1
    <3> HIDE DEF power
    <3> QED BY <3>2, <3>3, <3>4
  <2> QED BY <2>1, <2>2
<1>3. All(onBus)
  <2>1. Len(h.lines) \in Nat /\ DOMAIN h.lines = 1..Len(h.lines) BY SeqFacts
  <2>2. onBus = [k \in 1..Len(h.lines) |-> onBus[k]] BY <2>1
  <2>3. \A k \in DOMAIN onBus : /\ onBus[k] = Wire(h.id, h.lines[k], "bus", bus.id)
                                /\ k \in DOMAIN h.lines
    OBVIOUS
  <2> HIDE DEF onBus
  <2>4. IsSeq(onBus) BY <2>1, <2>2, MakesSeq
  <2>5. \A k \in DOMAIN onBus : IsWire(h, bus, onBus[k]) BY <1>1, <2>3
  <2> QED BY <2>4, <2>5
<1>4. All(onPin)
  <2>1. Len(h.pins) \in Nat /\ DOMAIN h.pins = 1..Len(h.pins) BY SeqFacts
  <2>2. some \in SUBSET (1..Len(h.pins)) BY <2>1
  <2> HIDE DEF some
  <2>3. IsSeq(there) BY <2>1, <2>2, PickedFacts
  <2> HIDE DEF there
  <2>4. Len(there) \in Nat /\ DOMAIN there = 1..Len(there) BY <2>3, SeqFacts
  <2>5. onPin = [k \in 1..Len(there) |-> onPin[k]] BY <2>4
  <2>6. \A k \in DOMAIN onPin : onPin[k] = Wire(h.id, there[k][1], "gpio", pins[there[k][2]])
    OBVIOUS
  <2> HIDE DEF onPin
  <2>7. IsSeq(onPin) BY <2>4, <2>5, MakesSeq
  <2> QED BY <1>1, <2>6, <2>7
<1>5. HandlerWires(h, bus, pins) = power \o onBus \o onPin BY DEF HandlerWires
<1> HIDE DEF power, onBus, onPin
<1>6. ASSUME NEW s, NEW r, All(s), All(r) PROVE All(s \o r)
  <2>1. /\ IsSeq(s \o r) /\ DOMAIN (s \o r) = 1..(Len(s) + Len(r))
        /\ \A k \in 1..Len(s) : (s \o r)[k] = s[k]
        /\ \A k \in 1..Len(r) : (s \o r)[Len(s) + k] = r[k]
    BY <1>6, ConcatFacts
  <2>2. /\ Len(s) \in Nat /\ DOMAIN s = 1..Len(s) /\ Len(r) \in Nat /\ DOMAIN r = 1..Len(r)
    BY <1>6, SeqFacts
  <2>3. ASSUME NEW i \in 1..(Len(s) + Len(r)) PROVE IsWire(h, bus, (s \o r)[i])
    <3>1. CASE i \in 1..Len(s) BY <1>6, <2>1, <2>2, <3>1
    <3>2. CASE i \notin 1..Len(s)
      <4>1. i - Len(s) \in 1..Len(r) /\ Len(s) + (i - Len(s)) = i BY <2>2, <3>2
      <4> QED BY <1>6, <2>1, <2>2, <4>1
    <3> QED BY <3>1, <3>2
  <2> QED BY <2>1, <2>3
<1>7. All(power \o onBus) BY <1>2, <1>3, <1>6
<1>8. All((power \o onBus) \o onPin)
  <2> DEFINE front == power \o onBus
  <2> HIDE DEF front, All
  <2>1. All(front) BY <1>7 DEF front
  <2>2. All(front \o onPin) BY <1>4, <1>6, <2>1
  <2> QED BY <2>2 DEF front
<1> QED BY <1>5, <1>8

\* A bus, a part and connections more are a document still.
LEMMA PeripheralUnmoved ==
    ASSUME NEW d, IsDocument(d), NEW p
    PROVE  Unmoved(d, SeedPeripheral(d, p))
<1> DEFINE h == HandlerOf(p)
           bus == PeripheralBus(Board(d), p, h.bus)
           Told(s) == [s EXCEPT !.warnings = @ \cup {Unmappable(p.key)}]
           bused == IF h.bus = None \/ bus.id \in Ids(d.buses) THEN d
                    ELSE [d EXCEPT !.buses = Append(@, bus)]
           more == HandlerWires(h, bus, p.pins)
           comps == Append(bused.comps, Bare(h.id, h.lib))
           conns == bused.conns \o more
           full == [bused EXCEPT !.comps = Append(@, Bare(h.id, h.lib)), !.conns = @ \o more]
<1>1. ASSUME NEW s, IsDocument(s) PROVE Unmoved(s, Told(s))
  <2> DEFINE t == Told(s)
  <2>1. t = [field \in DOMAIN s |-> t[field]] OBVIOUS
  <2>2. t.comps = s.comps /\ t.buses = s.buses /\ t.conns = s.conns
        /\ t.automations = s.automations
    BY DEF IsDocument
  <2> HIDE DEF t
  <2> QED BY <1>1, <2>1, <2>2, FieldUnmoved DEF t
<1>2. Unmoved(d, bused) /\ bused.conns = d.conns
  <2>1. Unmoved(d, d) BY DEF Unmoved
  <2>2. Unmoved(d, [d EXCEPT !.buses = Append(@, bus)])
        /\ [d EXCEPT !.buses = Append(@, bus)].conns = d.conns
    <3>1. IsBus(bus) BY DEF PeripheralBus, IsBus
    <3> HIDE DEF bus
    <3> DEFINE buses == Append(d.buses, bus)
    <3>2. /\ Len(d.buses) \in Nat /\ DOMAIN d.buses = 1..Len(d.buses) /\ IsSeq(d.buses)
          /\ \A b \in DOMAIN d.buses : IsBus(d.buses[b])
      BY DocumentFacts
    <3>3. /\ IsSeq(buses) /\ DOMAIN buses = 1..(Len(d.buses) + 1)
          /\ \A b \in 1..Len(d.buses) : buses[b] = d.buses[b]
          /\ buses[Len(d.buses) + 1] = bus
      BY <3>2, AppendFacts
    <3> HIDE DEF buses
    <3>4. ASSUME NEW b \in DOMAIN buses PROVE IsBus(buses[b])
      <4>1. b \in 1..Len(d.buses) \/ b = Len(d.buses) + 1 BY <3>2, <3>3
      <4> QED BY <3>1, <3>2, <3>3, <4>1
    <3> DEFINE e == [d EXCEPT !.buses = buses]
    <3>5. IsDocument(e) /\ e.conns = d.conns BY <3>3, <3>4, NewBuses
    <3>6. e = [d EXCEPT !.buses = Append(@, bus)] BY DEF buses
    <3> HIDE DEF e
    <3> QED BY <3>5, <3>6 DEF Unmoved
  <2> HIDE DEF bus
  <2> QED BY <2>1, <2>2
<1> HIDE DEF bused
<1>3. IsDocument(bused) BY <1>2 DEF Unmoved
<1>4. ASSUME IsHandled(p) PROVE Unmoved(bused, full)
  <2>1. IsSeq(more) /\ \A i \in DOMAIN more : IsConn(more[i])
    <3>1. IsSeq(h.lines) /\ IsSeq(h.pins) BY <1>4, HandlersList
    <3> HIDE DEF h, bus
    <3> QED BY <3>1, WiresAre DEF IsWire
  <2> HIDE DEF more
  <2>2. IsComp(Bare(h.id, h.lib)) BY DEF Bare, IsComp
  <2> DEFINE part == Bare(h.id, h.lib)
             m == Len(bused.comps)
             n == Len(bused.conns)
  <2> HIDE DEF part
  <2>3. /\ m \in Nat /\ DOMAIN bused.comps = 1..m /\ IsSeq(bused.comps)
        /\ n \in Nat /\ DOMAIN bused.conns = 1..n /\ IsSeq(bused.conns)
        /\ \A c \in DOMAIN bused.comps : IsComp(bused.comps[c])
        /\ \A i \in DOMAIN bused.conns : IsConn(bused.conns[i])
    BY <1>3, DocumentFacts
  <2> DEFINE parts == Append(bused.comps, part)
  <2>4. /\ IsSeq(parts) /\ DOMAIN parts = 1..(m + 1)
        /\ \A c \in 1..m : parts[c] = bused.comps[c] /\ parts[m + 1] = part
    BY <2>3, AppendFacts
  <2>4a. parts[m + 1] = part BY <2>3, AppendFacts
  <2> HIDE DEF parts
  <2>5. ASSUME NEW c \in DOMAIN parts PROVE IsComp(parts[c])
    <3>1. c \in 1..m \/ c = m + 1 BY <2>3, <2>4
    <3> QED BY <2>2, <2>3, <2>4, <2>4a, <3>1 DEF part
  <2> DEFINE wires == bused.conns \o more
  <2>6. /\ IsSeq(wires) /\ DOMAIN wires = 1..(n + Len(more))
        /\ \A k \in 1..n : wires[k] = bused.conns[k]
        /\ \A k \in 1..Len(more) : wires[n + k] = more[k]
    BY <2>1, <2>3, ConcatFacts
  <2>7. Len(more) \in Nat /\ DOMAIN more = 1..Len(more) BY <2>1, SeqFacts
  <2> HIDE DEF wires
  <2>8. ASSUME NEW i \in DOMAIN wires PROVE IsConn(wires[i])
    <3> HIDE DEF n
    <3>1. CASE i \in 1..n BY <2>3, <2>6, <3>1
    <3>2. CASE i \notin 1..n
      <4>1. i - n \in 1..Len(more) /\ n + (i - n) = i BY <2>3, <2>6, <2>7, <3>2
      <4> QED BY <2>1, <2>6, <2>7, <4>1
    <3> QED BY <3>1, <3>2
  <2> DEFINE grown == [bused EXCEPT !.comps = parts]
  <2>9. IsDocument(grown) /\ grown.comps = parts /\ grown.conns = bused.conns
    BY <1>3, <2>4, <2>5, NewComps
  <2>10. full = [grown EXCEPT !.conns = wires]
    <3> HIDE DEF n, m
    <3> QED BY <1>3 DEF IsDocument, parts, wires, part
  <2> HIDE DEF grown, full
  <2>11. IsDocument(full) /\ full.conns = wires
    <3> DEFINE e == [grown EXCEPT !.conns = wires]
    <3>1. IsDocument(e) /\ e.conns = wires BY <2>6, <2>8, <2>9, NewConns
    <3> HIDE DEF e
    <3> QED BY <2>10, <3>1 DEF e
  <2>12. \A i \in DOMAIN bused.conns :
            i \in DOMAIN wires /\ wires[i].target = bused.conns[i].target
    <3> HIDE DEF n
    <3>1. \A i \in 1..n : i \in 1..(n + Len(more)) BY <2>3, <2>7, PastTheEnd
    <3> QED BY <2>3, <2>6, <3>1
  <2> QED BY <2>11, <2>12 DEF Unmoved
<1>5. \/ SeedPeripheral(d, p) = Told(d)
      \/ SeedPeripheral(d, p) = Told(bused)
      \/ IsHandled(p) /\ SeedPeripheral(d, p) = full
  <2> DEFINE wired == [bused EXCEPT !.comps = Append(@, Bare(h.id, h.lib)),
                                    !.conns = @ \o HandlerWires(h, bus, p.pins)]
  <2>1. SeedPeripheral(d, p) =
           IF ~IsHandled(p) THEN Told(d)
           ELSE IF ~(h.needs \subseteq DOMAIN p.pins) THEN Told(d)
           ELSE IF h.bus # None /\ bus.pins = <<>> THEN Told(d)
           ELSE IF h.lib \notin DOMAIN Parts THEN Told(bused)
           ELSE wired
    BY DEF SeedPeripheral, bused
  <2>2. wired = full OBVIOUS
  <2> HIDE DEF wired, full, Told, h, bus
  <2> QED BY <2>1, <2>2
<1> HIDE DEF full, Told
<1>6. Unmoved(d, Told(d)) BY <1>1
<1>7. Unmoved(d, Told(bused))
  <2>1. Unmoved(bused, Told(bused)) BY <1>1, <1>3
  <2> QED BY <1>2, <2>1 DEF Unmoved
<1>8. IsHandled(p) => Unmoved(d, full) BY <1>2, <1>4 DEF Unmoved
<1> QED BY <1>5, <1>6, <1>7, <1>8

\* Whatever is soldered onto the board, seeding it leaves a document.
LEMMA OnboardUnmoved ==
    ASSUME NEW d, IsDocument(d), IsSeq(Peripherals(d.board))
    PROVE  Unmoved(d, SeedOnboard(d))
<1> DEFINE those == Peripherals(d.board)
           N == Len(those)
           Fits(g, n) == g = [k \in 0..n |-> IF k = 0 THEN d ELSE SeedPeripheral(g[k - 1], those[k])]
           fit == {n \in 0..N : \E g : Fits(g, n)}
           runs == CHOOSE g : Fits(g, N)
<1>0. N \in Nat BY SeqFacts
<1> HIDE DEF those
<1>1. 0 \in fit
  <2> DEFINE g == [k \in 0..0 |-> d]
  <2>1. Fits(g, 0) OBVIOUS
  <2> HIDE DEF Fits, g
  <2> QED BY <1>0, <2>1
<1>2. ASSUME NEW n \in 1..N, n - 1 \in fit PROVE n \in fit
  <2>1. PICK g : Fits(g, n - 1) BY <1>2
  <2> DEFINE f == [k \in 0..n |-> IF k = n THEN SeedPeripheral(g[n - 1], those[n]) ELSE g[k]]
  <2>2. Fits(f, n) BY <2>1
  <2> HIDE DEF Fits, f
  <2> QED BY <1>0, <2>2
<1>3. N \in fit
  <2> HIDE DEF fit
  <2>1. 0..N \subseteq fit BY <1>0, <1>1, <1>2, Climbs
  <2> QED BY <1>0, <2>1
<1>4. Fits(runs, N) BY <1>3
<1>5. SeedOnboard(d) = runs[N] BY DEF SeedOnboard, those
<1> HIDE DEF runs
<1>6. runs[0] = d /\ \A n \in 1..N : runs[n] = SeedPeripheral(runs[n - 1], those[n])
  BY <1>0, <1>4
<1> DEFINE fine == {n \in 0..N : Unmoved(d, runs[n])}
<1>7. 0 \in fine BY <1>0, <1>6 DEF Unmoved
<1>8. ASSUME NEW n \in 1..N, n - 1 \in fine PROVE n \in fine
  <2> DEFINE e == runs[n - 1]
  <2>1. Unmoved(d, e) BY <1>8
  <2>2. runs[n] = SeedPeripheral(e, those[n]) BY <1>6
  <2> HIDE DEF e
  <2>3. Unmoved(e, runs[n])
    <3>1. IsDocument(e) BY <2>1 DEF Unmoved
    <3> QED BY <2>2, <3>1, PeripheralUnmoved
  <2>4. Unmoved(d, runs[n]) BY <2>1, <2>3 DEF Unmoved
  <2>5. n \in 0..N BY <1>0
  <2> QED BY <2>4, <2>5
<1>9. 0..N \subseteq fine
  <2> HIDE DEF fine
  <2> QED BY <1>0, <1>7, <1>8, Climbs
<1> QED BY <1>0, <1>5, <1>9

LEMMA SetParamUnmoved ==
    ASSUME NEW d, IsDocument(d), NEW id \in Ids(d.comps), NEW key, NEW present
    PROVE  Unmoved(d, SetParam(d, id, key, present))
<1> DEFINE those == {e \in DOMAIN d.comps : d.comps[e].id = id}
           c == Least(those)
           params == IF present THEN d.comps[c].params \cup {key} ELSE d.comps[c].params \ {key}
           comps == [d.comps EXCEPT ![c].params = params]
           e == [d EXCEPT !.comps = comps]
<1>1. SetParam(d, id, key, present) = e BY DEF SetParam
<1>2. /\ Len(d.comps) \in Nat /\ DOMAIN d.comps = 1..Len(d.comps)
      /\ \A k \in DOMAIN d.comps : IsComp(d.comps[k])
  BY DocumentFacts
<1> HIDE DEF c, params
<1>3. ASSUME NEW k \in DOMAIN d.comps PROVE IsComp(comps[k])
  <2>1. IsComp(d.comps[k]) BY <1>2
  <2>2. \/ comps[k] = d.comps[k]
        \/ comps[k] = [id |-> d.comps[k].id, lib |-> d.comps[k].lib, locks |-> d.comps[k].locks,
                       params |-> params, show |-> d.comps[k].show]
    BY <2>1 DEF IsComp
  <2> HIDE DEF comps
  <2> QED BY <2>1, <2>2 DEF IsComp
<1>4. comps = [k \in 1..Len(d.comps) |-> comps[k]] BY <1>2
<1> HIDE DEF comps
<1>5. IsSeq(comps) /\ DOMAIN comps = DOMAIN d.comps BY <1>2, <1>4, MakesSeq
<1>6. IsDocument(e) /\ e.conns = d.conns BY <1>3, <1>5, NewComps
<1> HIDE DEF e
<1> QED BY <1>1, <1>6 DEF Unmoved

\* remove_component leaves a document.
LEMMA RemovedIsDocument ==
    ASSUME NEW d, IsDocument(d), NEW id
    PROVE  IsDocument(RemoveComponent(d, id))
<1> DEFINE at == {c \in DOMAIN d.comps : d.comps[c].id # id}
           on == {i \in DOMAIN d.conns : d.conns[i].comp # id}
           comps == Picked(d.comps, at)
           conns == Picked(d.conns, on)
           half == [d EXCEPT !.comps = comps]
           e == [half EXCEPT !.conns = conns]
<1>1. RemoveComponent(d, id) = e
  <2>1. half.conns = d.conns BY DocumentFacts
  <2> QED BY <2>1 DEF RemoveComponent
<1>2. /\ Len(d.comps) \in Nat /\ DOMAIN d.comps = 1..Len(d.comps)
      /\ Len(d.conns) \in Nat /\ DOMAIN d.conns = 1..Len(d.conns)
      /\ \A c \in DOMAIN d.comps : IsComp(d.comps[c])
      /\ \A i \in DOMAIN d.conns : IsConn(d.conns[i])
  BY DocumentFacts
<1>3. at \in SUBSET (1..Len(d.comps)) /\ on \in SUBSET (1..Len(d.conns)) BY <1>2
<1>4. at \subseteq DOMAIN d.comps /\ on \subseteq DOMAIN d.conns OBVIOUS
<1> HIDE DEF at, on
<1>5. IsSeq(comps) /\ \A k \in DOMAIN comps : \E c \in at : comps[k] = d.comps[c]
  BY <1>2, <1>3, PickedFacts
<1>6. IsSeq(conns) /\ \A k \in DOMAIN conns : \E i \in on : conns[k] = d.conns[i]
  BY <1>2, <1>3, PickedFacts
<1> HIDE DEF comps, conns
<1>7. \A k \in DOMAIN comps : IsComp(comps[k]) BY <1>2, <1>4, <1>5
<1>8. \A k \in DOMAIN conns : IsConn(conns[k]) BY <1>2, <1>4, <1>6
<1>9. IsDocument(half) BY <1>5, <1>7, NewComps
<1> HIDE DEF half
<1>10. IsDocument(e) BY <1>6, <1>8, <1>9, NewConns
<1> QED BY <1>1, <1>10

\* set_connection moves the connection it is given, if it moves one.
LEMMA SetConnectionMoves ==
    ASSUME NEW d, IsDocument(d), NEW comp, NEW role, NEW target
    PROVE  LET e == SetConnection(d, comp, role, target) IN
             /\ IsDocument(e)
             /\ \A i \in DOMAIN d.conns :
                   /\ i \in DOMAIN e.conns
                   /\ d.conns[i].comp = comp \/ e.conns[i].target = d.conns[i].target
<1> DEFINE those == {i \in DOMAIN d.conns : d.conns[i].comp = comp /\ d.conns[i].role = role}
           new == [comp |-> comp, role |-> role, target |-> target]
           longer == Append(d.conns, new)
           first == Least(those)
           moved == [d.conns EXCEPT ![first].target = target]
           e == SetConnection(d, comp, role, target)
<1>1. /\ Len(d.conns) \in Nat /\ DOMAIN d.conns = 1..Len(d.conns) /\ IsSeq(d.conns)
      /\ \A i \in DOMAIN d.conns : IsConn(d.conns[i])
  BY DocumentFacts
<1>2. CASE those = {}
  <2>1. e = [d EXCEPT !.conns = longer] BY <1>2 DEF SetConnection
  <2>2. IsConn(new) BY DEF IsConn
  <2> HIDE DEF new, e
  <2>3. /\ IsSeq(longer) /\ DOMAIN longer = 1..(Len(d.conns) + 1)
        /\ \A k \in 1..Len(d.conns) : longer[k] = d.conns[k]
        /\ longer[Len(d.conns) + 1] = new
    BY <1>1, AppendFacts
  <2> HIDE DEF longer
  <2>4. ASSUME NEW i \in DOMAIN longer PROVE IsConn(longer[i])
    <3>1. i \in 1..Len(d.conns) \/ i = Len(d.conns) + 1 BY <1>1, <2>3
    <3> QED BY <3>1, <1>1, <2>2, <2>3
  <2>5. IsDocument(e) /\ e.conns = longer BY <2>1, <2>3, <2>4, NewConns
  <2>6. \A i \in DOMAIN d.conns : i \in DOMAIN longer BY <1>1, <2>3
  <2> QED BY <1>1, <2>3, <2>5, <2>6 DEF e
<1>3. CASE those # {}
  <2>1. e = [d EXCEPT !.conns = moved]
    <3>1. e = [d EXCEPT !.conns[first].target = target] BY <1>3 DEF SetConnection
    <3> HIDE DEF e, first
    <3> QED BY <3>1
  <2>2. first \in those
    <3>1. those \in SUBSET Nat BY <1>1
    <3> HIDE DEF those
    <3> QED BY <1>3, <3>1, LeastIsIn
  <2>3. first \in DOMAIN d.conns /\ d.conns[first].comp = comp
    <3> HIDE DEF first
    <3> QED BY <2>2
  <2> HIDE DEF first, e
  <2>4. ASSUME NEW i \in DOMAIN d.conns
        PROVE  IsConn(moved[i]) /\ (i = first \/ moved[i] = d.conns[i])
    <3>1. IsConn(d.conns[i]) BY <1>1
    <3>2. \/ moved[i] = d.conns[i]
          \/ /\ i = first
             /\ moved[i] = [comp |-> d.conns[i].comp, role |-> d.conns[i].role, target |-> target]
      BY <3>1 DEF IsConn
    <3> HIDE DEF moved
    <3> QED BY <3>1, <3>2 DEF IsConn
  <2>5. moved = [i \in 1..Len(d.conns) |-> moved[i]] BY <1>1
  <2> HIDE DEF moved
  <2>6. IsSeq(moved) /\ DOMAIN moved = DOMAIN d.conns BY <1>1, <2>5, MakesSeq
  <2>7. IsDocument(e) /\ e.conns = moved BY <2>1, <2>4, <2>6, NewConns
  <2> QED BY <2>3, <2>4, <2>6, <2>7 DEF e
<1> QED BY <1>2, <1>3

LEMMA AddBusUnmoved ==
    ASSUME NEW d, IsDocument(d), NEW id, NEW type, NEW pins
    PROVE  Unmoved(d, [d EXCEPT !.buses = Append(@, NewBus(d, id, type, pins))])
<1> DEFINE bus == NewBus(d, id, type, pins)
           buses == Append(d.buses, bus)
           e == [d EXCEPT !.buses = buses]
<1>1. IsBus(bus) BY DEF NewBus, IsBus
<1> HIDE DEF bus
<1>2. /\ Len(d.buses) \in Nat /\ DOMAIN d.buses = 1..Len(d.buses) /\ IsSeq(d.buses)
      /\ \A b \in DOMAIN d.buses : IsBus(d.buses[b])
  BY DocumentFacts
<1>3. /\ IsSeq(buses) /\ DOMAIN buses = 1..(Len(d.buses) + 1)
      /\ \A b \in 1..Len(d.buses) : buses[b] = d.buses[b]
      /\ buses[Len(d.buses) + 1] = bus
  BY <1>2, AppendFacts
<1> HIDE DEF buses
<1>4. ASSUME NEW b \in DOMAIN buses PROVE IsBus(buses[b])
  <2>1. b \in 1..Len(d.buses) \/ b = Len(d.buses) + 1 BY <1>2, <1>3
  <2> QED BY <2>1, <1>1, <1>2, <1>3
<1>5. IsDocument(e) /\ e.conns = d.conns BY <1>3, <1>4, NewBuses
<1>6. e = [d EXCEPT !.buses = Append(@, bus)] BY DEF buses
<1> HIDE DEF e
<1> QED BY <1>5, <1>6 DEF Unmoved, bus

\* solve_pins moves what was unbound alone.
LEMMA SolveMoves ==
    ASSUME NEW d, IsDocument(d)
    PROVE  LET e == [d EXCEPT !.conns = Solve(d).conns] IN
             /\ IsDocument(e)
             /\ \A i \in DOMAIN d.conns :
                   /\ i \in DOMAIN e.conns
                   /\ Unbound(d.conns[i].target) \/ e.conns[i].target = d.conns[i].target
<1> DEFINE conns == Solve(d).conns
           e == [d EXCEPT !.conns = conns]
<1>1. FollowAll(d, conns) BY SolvedFollow
<1> HIDE DEF conns
<1>2. /\ IsSeq(conns) /\ Len(conns) = Len(d.conns) /\ Len(d.conns) \in Nat
      /\ DOMAIN d.conns = 1..Len(d.conns) /\ DOMAIN conns = 1..Len(conns)
      /\ \A i \in DOMAIN d.conns : Follows(d, d.conns[i], conns[i])
  BY <1>1, DocumentFacts, SeqFacts DEF FollowAll
<1>3. ASSUME NEW i \in DOMAIN conns PROVE IsConn(conns[i])
  <2>1. Follows(d, d.conns[i], conns[i]) BY <1>2
  <2> QED BY <2>1 DEF Follows, IsConn
<1>4. IsDocument(e) /\ e.conns = conns BY <1>2, <1>3, NewConns
<1>5. \A i \in DOMAIN d.conns : i \in DOMAIN conns BY <1>2
<1>6. \A i \in DOMAIN d.conns : Unbound(d.conns[i].target) \/ conns[i].target = d.conns[i].target
  BY <1>2 DEF Follows
<1> HIDE DEF e
<1> QED BY <1>4, <1>5, <1>6 DEF conns, e

\* Renaming leaves a document, whatever the new names are.
LEMMA RenamesLeaveDocument ==
    ASSUME NEW d, IsDocument(d), NEW renames
    PROVE  IsDocument(ApplyRenames(d, renames))
<1> DEFINE to(id) == IF id \in DOMAIN renames THEN renames[id] ELSE id
           carries == {"bus", "expander_pin", "component", "net"}
           comps == [c \in DOMAIN d.comps |-> [d.comps[c] EXCEPT !.id = to(@)]]
           buses == [b \in DOMAIN d.buses |-> [d.buses[b] EXCEPT !.id = to(@)]]
           Moved(t) == IF t.kind \in carries
                       THEN [kind |-> t.kind, to |-> to(t.to), number |-> t.number] ELSE t
           conns == [i \in DOMAIN d.conns |-> [comp |-> to(d.conns[i].comp),
                                              role |-> d.conns[i].role,
                                              target |-> Moved(d.conns[i].target)]]
           Told(things) == [k \in DOMAIN things |-> [things[k] EXCEPT !.comp = to(@)]]
           New(a) == [id |-> a.id, trigger |-> [a.trigger EXCEPT !.comp = to(@)],
                      conditions |-> Told(a.conditions), actions |-> Told(a.actions)]
           autos == {New(a) : a \in d.automations}
           e == ApplyRenames(d, renames)
<1>1. e = [d EXCEPT !.comps = comps, !.buses = buses, !.conns = conns, !.automations = autos]
  BY DEF ApplyRenames
<1>2. /\ Len(d.comps) \in Nat /\ DOMAIN d.comps = 1..Len(d.comps)
      /\ Len(d.buses) \in Nat /\ DOMAIN d.buses = 1..Len(d.buses)
      /\ Len(d.conns) \in Nat /\ DOMAIN d.conns = 1..Len(d.conns)
      /\ \A c \in DOMAIN d.comps : IsComp(d.comps[c])
      /\ \A b \in DOMAIN d.buses : IsBus(d.buses[b])
  BY DocumentFacts
<1> HIDE DEF to
<1>3. IsSeq(comps) /\ \A c \in DOMAIN comps : IsComp(comps[c])
  <2>1. ASSUME NEW c \in DOMAIN comps PROVE IsComp(comps[c])
    <3>1. IsComp(d.comps[c]) BY <1>2
    <3>2. comps[c] = [id |-> to(d.comps[c].id), lib |-> d.comps[c].lib, locks |-> d.comps[c].locks,
                      params |-> d.comps[c].params, show |-> d.comps[c].show]
      BY <3>1 DEF IsComp
    <3> HIDE DEF comps
    <3> QED BY <3>2 DEF IsComp
  <2>2. comps = [c \in 1..Len(d.comps) |-> comps[c]] BY <1>2
  <2> HIDE DEF comps
  <2> QED BY <1>2, <2>1, <2>2, MakesSeq
<1>4. IsSeq(buses) /\ \A b \in DOMAIN buses : IsBus(buses[b])
  <2>1. ASSUME NEW b \in DOMAIN buses PROVE IsBus(buses[b])
    <3>1. IsBus(d.buses[b]) BY <1>2
    <3>2. buses[b] = [id |-> to(d.buses[b].id), type |-> d.buses[b].type, pins |-> d.buses[b].pins]
      BY <3>1 DEF IsBus
    <3> HIDE DEF buses
    <3> QED BY <3>2 DEF IsBus
  <2>2. buses = [b \in 1..Len(d.buses) |-> buses[b]] BY <1>2
  <2> HIDE DEF buses
  <2> QED BY <1>2, <2>1, <2>2, MakesSeq
<1>5. IsSeq(conns) /\ \A i \in DOMAIN conns : IsConn(conns[i])
  <2> HIDE DEF Moved
  <2>1. \A i \in DOMAIN conns : IsConn(conns[i]) BY DEF IsConn
  <2>2. conns = [i \in 1..Len(d.conns) |-> conns[i]] BY <1>2
  <2> HIDE DEF conns
  <2> QED BY <1>2, <2>1, <2>2, MakesSeq
<1>6. ASSUME NEW things, IsSeq(things) PROVE IsSeq(Told(things))
  <2>1. Len(things) \in Nat /\ DOMAIN things = 1..Len(things) BY <1>6, SeqFacts
  <2>2. Told(things) = [k \in 1..Len(things) |-> Told(things)[k]] BY <2>1
  <2> HIDE DEF Told
  <2> QED BY <2>1, <2>2, MakesSeq
<1> HIDE DEF Told
<1>7. ASSUME NEW a \in autos PROVE IsAutomation(a)
  <2>1. PICK b \in d.automations : a = New(b) OBVIOUS
  <2>2. IsAutomation(b) BY DEF IsDocument
  <2>3. /\ a = [id |-> b.id, trigger |-> a.trigger, conditions |-> Told(b.conditions),
                actions |-> Told(b.actions)]
    BY <2>1, <2>2 DEF IsAutomation
  <2>4. IsSeq(Told(b.conditions)) /\ IsSeq(Told(b.actions)) BY <1>6, <2>2 DEF IsAutomation
  <2> HIDE DEF New
  <2>5. a.conditions = Told(b.conditions) /\ a.actions = Told(b.actions) /\ a.id = b.id BY <2>3
  <2> QED BY <2>3, <2>4, <2>5 DEF IsAutomation
<1> HIDE DEF comps, buses, conns, autos
<1>8. /\ DOMAIN e = DOMAIN d /\ e = [field \in DOMAIN e |-> e[field]]
      /\ e.comps = comps /\ e.buses = buses /\ e.conns = conns /\ e.automations = autos
  <2> HIDE DEF e
  <2> QED BY <1>1 DEF IsDocument
<1> HIDE DEF e
<1> QED BY <1>3, <1>4, <1>5, <1>7, <1>8 DEF IsDocument, e

LEMMA RepairedIsDocument ==
    ASSUME NEW d, IsDocument(d)
    PROVE  IsDocument(Repaired(d))
<1>1. IsDocument(RenameReserved(d)) BY RenamesLeaveDocument DEF RenameReserved
<1> DEFINE r == RenameReserved(d)
<1> HIDE DEF r
<1>2. IsDocument(r) BY <1>1 DEF r
<1>3. IsDocument(RenameIntegrationNames(r))
  BY <1>2, RenamesLeaveDocument DEF RenameIntegrationNames
<1> QED BY <1>3 DEF Repaired, r

-----------------------------------------------------------------------------
(* A design that renders still does with a part added.                     *)

LEMMA GrownComps ==
    ASSUME NEW d, IsDocument(d), NEW lib \in DOMAIN Parts, NEW e, NEW id, Grown(d, e, id, lib)
    PROVE  LET n == Len(d.comps) + 1 IN
             /\ DOMAIN e.comps = DOMAIN d.comps \cup {n} /\ n \notin DOMAIN d.comps
             /\ \A c \in DOMAIN d.comps : e.comps[c].id # id
             /\ Ids(e.comps) = Ids(d.comps) \cup {id}
             /\ Named(e.comps, id) = e.comps[n] /\ PartOf(e, id) = Parts[lib]
<1> DEFINE n == Len(d.comps) + 1
<1>1. /\ Len(d.comps) \in Nat /\ DOMAIN d.comps = 1..Len(d.comps) BY DocumentFacts
<1>2. DOMAIN e.comps = 1..n
  <2>1. IsDocument(e) /\ Len(e.comps) = n BY DEF Grown
  <2> QED BY <2>1, DocumentFacts
<1>3. /\ DOMAIN e.comps = DOMAIN d.comps \cup {n} /\ n \notin DOMAIN d.comps BY <1>1, <1>2
<1>4. /\ \A c \in DOMAIN d.comps : e.comps[c] = d.comps[c]
      /\ e.comps[n].id = id /\ e.comps[n].lib = lib /\ id \notin Ids(d.comps)
  BY DEF Grown
<1> HIDE DEF n
<1>5. ASSUME NEW c \in DOMAIN d.comps PROVE e.comps[c].id # id BY <1>4 DEF Ids
<1>6. Ids(e.comps) = Ids(d.comps) \cup {id} BY <1>3, <1>4 DEF Ids
<1>7. Named(e.comps, id) = e.comps[n]
  <2> DEFINE Is(c) == /\ e.comps[c].id = id
                      /\ \A b \in DOMAIN e.comps : e.comps[b].id = id => b <= c
             k == CHOOSE c \in DOMAIN e.comps : Is(c)
  <2>1. n \in DOMAIN e.comps /\ n <= n BY <1>1, <1>3 DEF n
  <2>2. \A c \in DOMAIN e.comps : e.comps[c].id = id => c = n BY <1>3, <1>5
  <2>3. Is(n) BY <1>4, <2>1, <2>2
  <2>4. k \in DOMAIN e.comps /\ Is(k) BY <2>1, <2>3
  <2>5. k = n BY <2>2, <2>4
  <2> QED BY <2>5 DEF Named
<1> QED BY <1>3, <1>4, <1>5, <1>6, <1>7 DEF PartOf, n

\* The connections of a grown design: the old ones, and one for each of the pins.
LEMMA GrownConns ==
    ASSUME NEW d, IsDocument(d), NEW lib \in DOMAIN Parts, NEW e, NEW id, Grown(d, e, id, lib)
    PROVE  /\ \A i \in DOMAIN d.conns : i \in DOMAIN e.conns
           /\ \A k \in DOMAIN Parts[lib].pins : Len(d.conns) + k \in DOMAIN e.conns
           /\ \A i \in DOMAIN e.conns \ DOMAIN d.conns :
                 \E k \in DOMAIN Parts[lib].pins : i = Len(d.conns) + k
<1> DEFINE n == Len(d.conns)
           pins == Parts[lib].pins
           m == Len(pins)
<1> HIDE DEF pins
<1>1. IsSeq(pins) BY SessionAssumption DEF pins
<1>2. n \in Nat /\ DOMAIN d.conns = 1..n /\ m \in Nat /\ DOMAIN pins = 1..m
  BY <1>1, DocumentFacts, SeqFacts
<1>3. DOMAIN e.conns = 1..(n + m)
  <2>1. IsDocument(e) /\ Len(e.conns) = n + m BY DEF Grown, pins
  <2> QED BY <2>1, DocumentFacts
<1> HIDE DEF n, m
<1>4. ASSUME NEW i \in DOMAIN e.conns \ DOMAIN d.conns PROVE \E k \in DOMAIN pins : i = n + k
  <2>1. i \in 1..(n + m) /\ i \notin 1..n BY <1>2, <1>3
  <2>2. i - n \in 1..m /\ i = n + (i - n) BY <1>2, <2>1
  <2> QED BY <1>2, <2>2
<1> QED BY <1>2, <1>3, <1>4, PastTheEnd DEF n, pins

\* What a component of d that renders reads, it still has.
LEMMA OldStillRenders ==
    ASSUME NEW d, IsDocument(d), NEW lib \in DOMAIN Parts, NEW e, NEW id, Grown(d, e, id, lib),
           NEW c \in DOMAIN d.comps, ComponentRenders(d, d.comps[c])
    PROVE  ComponentRenders(e, d.comps[c])
<1> DEFINE own == d.comps[c].id
           reads == Parts[d.comps[c].lib].reads
<1>1. own \in Ids(d.comps) /\ own # id BY DEF Ids, Grown
<1>2. Ids(d.comps) \subseteq Ids(e.comps) /\ Ids(d.buses) \subseteq Ids(e.buses)
  <2>1. Ids(e.comps) = Ids(d.comps) \cup {id} BY GrownComps
  <2>2. Ids(d.buses) \subseteq Ids(e.buses) BY DEF Grown
  <2> QED BY <2>1, <2>2
<1>3. ASSUME NEW i \in ConnsOf(d, own)
      PROVE  /\ i \in ConnsOf(e, own) /\ e.conns[i].role = d.conns[i].role
             /\ e.conns[i].target.kind = d.conns[i].target.kind
             /\ d.conns[i].target.kind # "bus" \/ d.conns[i].target.to \in Ids(d.buses)
                => e.conns[i].target = d.conns[i].target
  <2>1. i \in DOMAIN d.conns /\ d.conns[i].comp = own BY DEF ConnsOf
  <2>2. i \in DOMAIN e.conns BY <2>1, GrownConns
  <2> QED BY <1>1, <2>1, <2>2 DEF ConnsOf, Grown
<1>4. ASSUME NEW i \in ConnsOf(e, own) PROVE i \in ConnsOf(d, own)
  <2>1. i \in DOMAIN e.conns /\ e.conns[i].comp = own BY DEF ConnsOf
  <2>2. i \in DOMAIN d.conns
    <3> SUFFICES ASSUME i \notin DOMAIN d.conns PROVE FALSE OBVIOUS
    <3>1. PICK k \in DOMAIN Parts[lib].pins : i = Len(d.conns) + k BY <2>1, GrownConns
    <3>2. e.conns[Len(d.conns) + k].comp = id BY <3>1 DEF Grown
    <3> QED BY <1>1, <2>1, <3>1, <3>2
  <2>3. e.conns[i].comp \in {d.conns[i].comp, id} BY <2>2 DEF Grown
  <2> QED BY <1>1, <2>1, <2>2, <2>3 DEF ConnsOf
<1> HIDE DEF own, reads
<1>5. /\ \A i \in ConnsOf(d, own) :
            d.conns[i].target.kind = "expander_pin" => d.conns[i].target.to \in Ids(d.comps)
      /\ "bus" \in reads => LeadsTo(d, own, "bus", d.buses) # {}
      /\ "parent" \in reads => LeadsTo(d, own, "component", d.comps) # {}
      /\ reads \ {"bus", "parent"} \subseteq PinnedRoles(d, own)
  BY DEF ComponentRenders, own, reads
<1>6. ASSUME NEW i \in ConnsOf(e, own), e.conns[i].target.kind = "expander_pin"
      PROVE  e.conns[i].target.to \in Ids(e.comps)
  <2>1. i \in ConnsOf(d, own) BY <1>4
  <2>2. d.conns[i].target.kind = "expander_pin" BY <1>3, <1>6, <2>1
  <2>3. e.conns[i].target = d.conns[i].target BY <1>3, <2>1, <2>2
  <2> QED BY <1>2, <1>5, <2>1, <2>2, <2>3
<1>7. "bus" \in reads => LeadsTo(e, own, "bus", e.buses) # {}
  <2> SUFFICES ASSUME "bus" \in reads PROVE LeadsTo(e, own, "bus", e.buses) # {} OBVIOUS
  <2>1. PICK i \in ConnsOf(d, own) :
          d.conns[i].target.kind = "bus" /\ d.conns[i].target.to \in Ids(d.buses)
    BY <1>5 DEF LeadsTo
  <2>2. i \in ConnsOf(e, own) /\ e.conns[i].target = d.conns[i].target BY <1>3, <2>1
  <2> QED BY <1>2, <2>1, <2>2 DEF LeadsTo
<1>8. "parent" \in reads => LeadsTo(e, own, "component", e.comps) # {}
  <2> SUFFICES ASSUME "parent" \in reads PROVE LeadsTo(e, own, "component", e.comps) # {} OBVIOUS
  <2>1. PICK i \in ConnsOf(d, own) :
          d.conns[i].target.kind = "component" /\ d.conns[i].target.to \in Ids(d.comps)
    BY <1>5 DEF LeadsTo
  <2>2. i \in ConnsOf(e, own) /\ e.conns[i].target = d.conns[i].target BY <1>3, <2>1
  <2> QED BY <1>2, <2>1, <2>2 DEF LeadsTo
<1>9. PinnedRoles(d, own) \subseteq PinnedRoles(e, own)
  <2> SUFFICES ASSUME NEW role \in PinnedRoles(d, own) PROVE role \in PinnedRoles(e, own)
    OBVIOUS
  <2>1. PICK i \in ConnsOf(d, own) :
          d.conns[i].target.kind \in {"gpio", "expander_pin"} /\ role = d.conns[i].role
    BY DEF PinnedRoles
  <2>2. /\ i \in ConnsOf(e, own) /\ e.conns[i].target.kind = d.conns[i].target.kind
        /\ e.conns[i].role = role
    BY <1>3, <2>1
  <2> QED BY <2>1, <2>2 DEF PinnedRoles
<1> QED BY <1>5, <1>6, <1>7, <1>8, <1>9 DEF ComponentRenders, own, reads

\* Where no two of a part's pins have a role in common, and no connection was left
\* under its id, each of its connections is what the pin's kind asks for.
LEMMA AddSeeds ==
    ASSUME NEW d, IsDocument(d), NEW lib \in DOMAIN Parts, NEW hint,
           \A k, e \in DOMAIN Parts[lib].pins :
              Parts[lib].pins[k].role = Parts[lib].pins[e].role => k = e,
           LET a == AddComponent(d, lib, hint) IN
             \A i \in ConnsOf(a.design, a.id) : i \notin DOMAIN d.conns
    PROVE  LET e == AddComponent(d, lib, hint).design IN
             \A k \in DOMAIN Parts[lib].pins :
                Seeds(e.buses, Parts[lib].pins[k], e.conns[Len(d.conns) + k].target)
<1> DEFINE a == AddComponent(d, lib, hint)
           e == a.design
           id == a.id
           t == SeedTrimmed(d, lib, hint)
           td == t.design
           pins == Parts[lib].pins
           n == Len(d.conns)
<1>1. /\ Grown(d, e, id, lib) /\ id = t.id /\ e.comps = td.comps /\ e.buses = td.buses
      /\ \A k \in DOMAIN pins :
            \E j \in DOMAIN e.conns :
               /\ e.conns[j].comp = id /\ e.conns[j].role = pins[k].role
               /\ Follows(td, td.conns[j], [td.conns[j] EXCEPT !.target = e.conns[n + k].target])
  BY AddGrows
<1>2. /\ Grown(d, td, id, lib)
      /\ \A k \in DOMAIN pins : Seeds(td.buses, pins[k], td.conns[n + k].target)
  <2> DEFINE s == SeedPart(d, lib, hint)
  <2>1. Seeded(d, s.design, s.id, lib) BY SeedPartSeeds
  <2>2. t = [design |-> DropEmptyBuses(s.design, Ids(d.buses)), id |-> s.id] BY DEF SeedTrimmed
  <2> HIDE DEF s, t
  <2> QED BY <1>1, <2>1, <2>2, DropGrows
<1>3. \A i \in ConnsOf(e, id) : i \notin DOMAIN d.conns OBVIOUS
<1> HIDE DEF a, t
<1> SUFFICES ASSUME NEW k \in DOMAIN pins PROVE Seeds(e.buses, pins[k], e.conns[n + k].target)
  BY DEF a
<1>4. PICK j \in DOMAIN e.conns :
        /\ e.conns[j].comp = id /\ e.conns[j].role = pins[k].role
        /\ Follows(td, td.conns[j], [td.conns[j] EXCEPT !.target = e.conns[n + k].target])
  BY <1>1
<1>5. j = n + k
  <2>1. j \notin DOMAIN d.conns BY <1>3, <1>4 DEF ConnsOf
  <2>2. PICK m \in DOMAIN pins : j = n + m BY <1>1, <2>1, GrownConns
  <2>3. e.conns[n + m].role = pins[m].role BY <1>1 DEF Grown
  <2>4. m = k BY <1>4, <2>2, <2>3
  <2> QED BY <2>2, <2>4
<1> DEFINE c == td.conns[n + k]
           target == e.conns[n + k].target
<1>6. Follows(td, c, [c EXCEPT !.target = target]) BY <1>4, <1>5
<1>7. IsConn(c)
  <2>1. IsDocument(td) BY <1>2 DEF Grown
  <2> HIDE DEF td
  <2>2. n + k \in DOMAIN td.conns BY <1>2, GrownConns
  <2> QED BY <2>1, <2>2, DocumentFacts DEF c
<1>8. Seeds(td.buses, pins[k], c.target) BY <1>2
<1> HIDE DEF c, target
<1>9. [c EXCEPT !.target = target].target = target BY <1>7 DEF IsConn
<1>10. /\ target.kind = c.target.kind
       /\ target = c.target \/ target.kind # "bus" \/ target.to \in Ids(td.buses)
  BY <1>6, <1>9 DEF Follows
<1>11. Seeds(td.buses, pins[k], target) BY <1>8, <1>10 DEF Seeds
<1> QED BY <1>1, <1>11 DEF target

\* A part that brings all its template asks for renders, once its pins are bound.
LEMMA NewRenders ==
    ASSUME NEW d, IsDocument(d), NEW lib \in DOMAIN Parts, NEW e, NEW id, Grown(d, e, id, lib),
           BringsAll(Parts[lib]),
           \A k \in DOMAIN Parts[lib].pins :
              Seeds(e.buses, Parts[lib].pins[k], e.conns[Len(d.conns) + k].target),
           \A i \in ConnsOf(e, id) : i \notin DOMAIN d.conns /\ ~Unbound(e.conns[i].target)
    PROVE  ComponentRenders(e, e.comps[Len(d.comps) + 1])
<1> DEFINE n == Len(d.conns)
           pins == Parts[lib].pins
           reads == Parts[lib].reads
           comp == e.comps[Len(d.comps) + 1]
<1>1. comp.id = id /\ comp.lib = lib BY DEF Grown
<1>2. ASSUME NEW k \in DOMAIN pins
      PROVE  /\ n + k \in ConnsOf(e, id) /\ e.conns[n + k].role = pins[k].role
             /\ ~Unbound(e.conns[n + k].target)
  <2>1. n + k \in DOMAIN e.conns BY GrownConns
  <2>2. e.conns[n + k].comp = id /\ e.conns[n + k].role = pins[k].role BY DEF Grown
  <2>3. n + k \in ConnsOf(e, id) BY <2>1, <2>2 DEF ConnsOf
  <2> QED BY <2>2, <2>3
<1> HIDE DEF comp
<1>3. ASSUME NEW i \in ConnsOf(e, id) PROVE e.conns[i].target.kind # "expander_pin"
  <2>1. i \in DOMAIN e.conns \ DOMAIN d.conns BY DEF ConnsOf
  <2>2. PICK k \in DOMAIN pins : i = n + k BY <2>1, GrownConns
  <2>3. Seeds(e.buses, pins[k], e.conns[i].target) BY <2>2
  <2> QED BY <2>3 DEF Seeds
<1>4. ASSUME "bus" \in reads PROVE LeadsTo(e, id, "bus", e.buses) # {}
  <2>1. NeededBusTypes(Parts[lib]) # {} BY <1>4 DEF BringsAll
  <2>2. PICK k \in DOMAIN pins : BusTypeOf(pins[k].kind) # None BY <2>1 DEF NeededBusTypes
  <2> DEFINE target == e.conns[n + k].target
  <2>3. Seeds(e.buses, pins[k], target) OBVIOUS
  <2>4. n + k \in ConnsOf(e, id) /\ ~Unbound(target) BY <1>2
  <2> HIDE DEF target
  <2>5. target.kind = "bus" BY <2>2, <2>3 DEF Seeds
  <2>6. target.to # None BY <2>4, <2>5 DEF Unbound
  <2>7. target.to \in Ids(e.buses) BY <2>3, <2>5, <2>6 DEF Seeds
  <2> QED BY <2>4, <2>5, <2>7 DEF LeadsTo, target
<1>5. "parent" \notin reads BY DEF BringsAll
<1>6. reads \ {"bus", "parent"} \subseteq PinnedRoles(e, id)
  <2> SUFFICES ASSUME NEW role \in reads, role # "bus" PROVE role \in PinnedRoles(e, id)
    OBVIOUS
  <2>1. role \in PinRoles(Parts[lib]) BY DEF BringsAll
  <2>2. PICK k \in DOMAIN pins :
          /\ role = pins[k].role /\ pins[k].kind \notin {"power", "ground", "passthrough"}
          /\ BusTypeOf(pins[k].kind) = None
    BY <2>1 DEF PinRoles
  <2>3. Seeds(e.buses, pins[k], e.conns[n + k].target) OBVIOUS
  <2>4. e.conns[n + k].target.kind = "gpio" BY <2>2, <2>3 DEF Seeds
  <2>5. n + k \in ConnsOf(e, id) /\ e.conns[n + k].role = role BY <1>2, <2>2
  <2> HIDE DEF n, pins
  <2> QED BY <2>4, <2>5 DEF PinnedRoles
<1> HIDE DEF n, pins
<1> QED BY <1>1, <1>3, <1>4, <1>5, <1>6 DEF ComponentRenders, comp, reads

LEMMA AddRenders ==
    ASSUME NEW d, IsDocument(d), Renders(d), NEW lib \in DOMAIN Parts, NEW hint,
           BringsAll(Parts[lib]),
           LET a == AddComponent(d, lib, hint) IN
             \A i \in ConnsOf(a.design, a.id) :
                i \notin DOMAIN d.conns /\ ~Unbound(a.design.conns[i].target)
    PROVE  Renders(AddComponent(d, lib, hint).design)
<1> DEFINE a == AddComponent(d, lib, hint)
           e == a.design
           id == a.id
           new == Len(d.comps) + 1
<1>1. Grown(d, e, id, lib) BY AddGrows
<1>2. \A i \in ConnsOf(e, id) : i \notin DOMAIN d.conns /\ ~Unbound(e.conns[i].target)
  OBVIOUS
<1>3. \A k \in DOMAIN Parts[lib].pins :
         Seeds(e.buses, Parts[lib].pins[k], e.conns[Len(d.conns) + k].target)
  <2>1. \A k, b \in DOMAIN Parts[lib].pins :
           Parts[lib].pins[k].role = Parts[lib].pins[b].role => k = b
    BY DEF BringsAll, RolesApart
  <2>2. \A i \in ConnsOf(e, id) : i \notin DOMAIN d.conns BY <1>2
  <2> QED BY <2>1, <2>2, AddSeeds
<1> HIDE DEF a
<1>4. ComponentRenders(e, e.comps[new]) BY <1>1, <1>2, <1>3, NewRenders
<1>5. e.board \in DOMAIN Boards
  <2>1. e.board = d.board BY <1>1 DEF Grown, SameRest, IsDocument
  <2> QED BY <2>1 DEF Renders
<1>6. /\ DOMAIN e.comps = DOMAIN d.comps \cup {new}
      /\ \A c \in DOMAIN d.comps : e.comps[c] = d.comps[c]
      /\ e.comps[new].lib = lib
  <2>1. DOMAIN e.comps = DOMAIN d.comps \cup {new} BY <1>1, GrownComps
  <2>2. (\A c \in DOMAIN d.comps : e.comps[c] = d.comps[c]) /\ e.comps[new].lib = lib
    BY <1>1 DEF Grown
  <2> QED BY <2>1, <2>2
<1> HIDE DEF new
<1>7. \A c \in DOMAIN e.comps : e.comps[c].lib \in DOMAIN Parts BY <1>6 DEF Renders
<1>8. ASSUME NEW c \in Templated(e) PROVE ComponentRenders(e, e.comps[c])
  <2>1. c \in DOMAIN e.comps /\ Parts[e.comps[c].lib].template BY DEF Templated
  <2>2. CASE c = new BY <1>4, <2>2
  <2>3. CASE c \in DOMAIN d.comps
    <3>1. c \in Templated(d) BY <1>6, <2>1, <2>3 DEF Templated
    <3>2. ComponentRenders(d, d.comps[c]) BY <3>1 DEF Renders
    <3>3. ComponentRenders(e, d.comps[c]) BY <1>1, <2>3, <3>2, OldStillRenders
    <3> QED BY <1>6, <2>3, <3>3
  <2> QED BY <1>6, <2>1, <2>2, <2>3
<1> QED BY <1>5, <1>7, <1>8 DEF Renders, a

-----------------------------------------------------------------------------
(* The id of a new part.                                                   *)

\* With the same components and fewer buses there are no more conflicts.
LEMMA FewerConflicts ==
    ASSUME NEW s, NEW e, e.comps = s.comps,
           \A b \in DOMAIN e.buses : \E k \in DOMAIN s.buses : e.buses[b] = s.buses[k]
    PROVE  IdConflicts(e) \subseteq IdConflicts(s)
<1>1. Ids(e.buses) \subseteq Ids(s.buses) BY DEF Ids
<1>2. Templated(e) = Templated(s) BY DEF Templated
<1>3. Loaded(e) \subseteq Loaded(s)
  <2>1. {BusIntegration(e.buses[b].type) : b \in DOMAIN e.buses} \subseteq
           {BusIntegration(s.buses[b].type) : b \in DOMAIN s.buses}
    <3>1. ASSUME NEW b \in DOMAIN e.buses
          PROVE  BusIntegration(e.buses[b].type) \in
                    {BusIntegration(s.buses[k].type) : k \in DOMAIN s.buses}
      <4>1. PICK k \in DOMAIN s.buses : e.buses[b] = s.buses[k] OBVIOUS
      <4> QED BY <4>1
    <3> QED BY <3>1
  <2> QED BY <1>2, <2>1 DEF Loaded
<1>4. EmittedIds(e) \subseteq EmittedIds(s)
  <2>1. {e.buses[b].id : b \in {k \in DOMAIN e.buses : e.buses[k].type # "i2s"}} \subseteq
           {s.buses[b].id : b \in {k \in DOMAIN s.buses : s.buses[k].type # "i2s"}}
    <3>1. ASSUME NEW b \in DOMAIN e.buses, e.buses[b].type # "i2s"
          PROVE  e.buses[b].id \in
                    {s.buses[k].id : k \in {j \in DOMAIN s.buses : s.buses[j].type # "i2s"}}
      <4>1. PICK k \in DOMAIN s.buses : e.buses[b] = s.buses[k] OBVIOUS
      <4> QED BY <3>1, <4>1
    <3> QED BY <3>1
  <2> QED BY <1>2, <2>1 DEF EmittedIds
<1> QED BY <1>1, <1>3, <1>4 DEF IdConflicts

LEMMA SeedPartAccepts ==
    ASSUME NEW d, IsDocument(d), NEW lib, NEW hint, Len(d.comps) < MaxParts
    PROVE  LET s == SeedPart(d, lib, hint) IN
             s.id \in Integrations => s.id \notin IdConflicts(s.design)
<1> DEFINE used == Ids(d.comps)
           id == IF hint # None /\ hint \notin used THEN hint ELSE NextId(lib, used, 1)
           new == [id |-> id, lib |-> lib, locks |-> <<>>, params |-> {}, show |-> <<>>]
           placed == [d EXCEPT !.comps = Append(@, new)]
           seeded == SeedConnections(IF d.board \in DOMAIN Boards
                                     THEN PrepareBuses(placed, Parts[lib]) ELSE placed,
                                     id, Parts[lib])
           other == NextId(Stem(id), used, 1)
           s == SeedPart(d, lib, hint)
<1>1. s = IF id \in Integrations /\ Refuses(seeded, id)
          THEN [design |-> Rename(seeded, id, other), id |-> other]
          ELSE [design |-> seeded, id |-> id]
  BY DEF SeedPart
<1>2. other \notin Integrations
  <2>1. /\ IsFiniteSet(used) /\ Cardinality(used) \in Nat /\ Cardinality(used) <= Len(d.comps)
        /\ Len(d.comps) \in Nat /\ MaxParts \in Nat
    BY DocumentFacts, IdsAreFinite, SessionAssumption
  <2> HIDE DEF used, id
  <2>2. Number(other) \in 1..(1 + Cardinality(used)) BY <2>1, NextIdIsFree
  <2>3. Number(other) \in 1..MaxParts
    <3> HIDE DEF other
    <3> QED BY <2>1, <2>2
  <2> QED BY <2>3, SessionAssumption
<1> HIDE DEF id, seeded, other, s
<1> SUFFICES ASSUME s.id \in Integrations PROVE s.id \notin IdConflicts(s.design) BY DEF s
<1>3. s.design = seeded /\ s.id = id /\ ~Refuses(seeded, id) BY <1>1, <1>2
<1> QED BY <1>3 DEF Refuses

LEMMA AddAccepts ==
    ASSUME NEW d, IsDocument(d), NEW lib \in DOMAIN Parts, NEW hint, Len(d.comps) < MaxParts
    PROVE  LET a == AddComponent(d, lib, hint) IN a.id \notin IdConflicts(a.design) \cap Integrations
<1> DEFINE a == AddComponent(d, lib, hint)
           t == SeedTrimmed(d, lib, hint)
           s == SeedPart(d, lib, hint)
<1>1. a.id = t.id /\ a.design.comps = t.design.comps /\ a.design.buses = t.design.buses
  BY AddGrows
<1>2. t = [design |-> DropEmptyBuses(s.design, Ids(d.buses)), id |-> s.id] BY DEF SeedTrimmed
<1>3. Seeded(d, s.design, s.id, lib) BY SeedPartSeeds
<1>4. s.id \in Integrations => s.id \notin IdConflicts(s.design) BY SeedPartAccepts
<1> HIDE DEF a, t, s
<1>5. /\ t.design.comps = s.design.comps
      /\ \A b \in DOMAIN t.design.buses :
            \E k \in DOMAIN s.design.buses : t.design.buses[b] = s.design.buses[k]
  BY <1>2, <1>3, DropGrows
<1>6. IdConflicts(a.design) \subseteq IdConflicts(s.design)
  <2> DEFINE ad == a.design
             sd == s.design
  <2>1. /\ ad.comps = sd.comps
        /\ \A b \in DOMAIN ad.buses : \E k \in DOMAIN sd.buses : ad.buses[b] = sd.buses[k]
    BY <1>1, <1>5
  <2> HIDE DEF ad, sd
  <2>2. IdConflicts(ad) \subseteq IdConflicts(sd) BY <2>1, FewerConflicts
  <2> QED BY <2>2 DEF ad, sd
<1>7. a.id = s.id BY <1>1, <1>2
<1> QED BY <1>4, <1>6, <1>7 DEF a

-----------------------------------------------------------------------------
(* The session.                                                            *)

\* What the session's invariant is: the document is one the model reads.
DocumentRead == IsDocument(design)

THEOREM InitReads == Init => DocumentRead
<1> SUFFICES ASSUME Init PROVE IsDocument(design) BY DEF DocumentRead
<1>1. PICK d \in Documents : design = Repaired(d) BY DEF Init
<1>2. IsDocument(d) BY SessionAssumption
<1> QED BY <1>1, <1>2, RepairedIsDocument

LEMMA UnmovedStep ==
    ASSUME DocumentRead, Unmoved(design, design'), NEW tool, NEW part, Called(tool, part),
           tool # "add_component"
    PROVE  DocumentRead' /\ MovesAsAsked /\ KeepsRendering /\ AcceptsNewId
<1>1. call'.tool # "add_component" BY DEF Called
<1>2. DocumentRead' BY DEF Unmoved, DocumentRead
<1>3. MovesAsAsked BY DEF Unmoved, MovesAsAsked
<1> QED BY <1>1, <1>2, <1>3 DEF KeepsRendering, AcceptsNewId

LEMMA AddStep ==
    ASSUME DocumentRead, NEW lib \in DOMAIN Parts, NEW hint, RunAddComponent(lib, hint)
    PROVE  DocumentRead' /\ MovesAsAsked /\ KeepsRendering /\ AcceptsNewId
<1> DEFINE a == AddComponent(design, lib, hint)
<1>1. /\ design' = a.design /\ call'.tool = "add_component" /\ call'.part = a.id
      /\ Len(design.comps) < MaxParts /\ IsDocument(design)
  BY DEF RunAddComponent, Called, DocumentRead
<1>2. Grown(design, a.design, a.id, lib) BY <1>1, AddGrows
<1>3. a.id \notin IdConflicts(a.design) \cap Integrations BY <1>1, AddAccepts
<1>4. /\ Renders(design) /\ BringsAll(Parts[lib])
      /\ \A i \in ConnsOf(a.design, a.id) :
            i \notin DOMAIN design.conns /\ ~Unbound(a.design.conns[i].target)
      => Renders(a.design)
  BY <1>1, AddRenders
<1> HIDE DEF a
<1> DEFINE ad == a.design
           id == a.id
<1> HIDE DEF ad, id
<1>5. PartOf(ad, id) = Parts[lib] BY <1>1, <1>2, GrownComps DEF ad, id
<1>6. DocumentRead' BY <1>1, <1>2 DEF DocumentRead, Grown
<1>7. MovesAsAsked
  <2> SUFFICES ASSUME NEW i \in DOMAIN design.conns,
                      design.conns[i].comp \in Ids(design.comps),
                      ~(design.conns[i].target.kind = "bus"
                        /\ design.conns[i].target.to \notin Ids(design.buses))
               PROVE  design'.conns[i].target = design.conns[i].target
    BY <1>1 DEF MovesAsAsked
  <2> QED BY <1>1, <1>2 DEF Grown
<1>8. KeepsRendering BY <1>1, <1>4, <1>5 DEF KeepsRendering, ad, id
<1>9. AcceptsNewId BY <1>1, <1>3 DEF AcceptsNewId
<1> QED BY <1>6, <1>7, <1>8, <1>9

LEMMA SessionStep ==
    ASSUME DocumentRead, Next
    PROVE  DocumentRead' /\ MovesAsAsked /\ KeepsRendering /\ AcceptsNewId
<1> DEFINE Goal == DocumentRead' /\ MovesAsAsked /\ KeepsRendering /\ AcceptsNewId
<1> HIDE DEF Goal
<1>d. IsDocument(design) BY DEF DocumentRead
<1>1. ASSUME NEW board, NEW revision, RunSetBoard(board, revision) PROVE Goal
  <2>1. Called("set_board", None) /\ design' = SetBoard(design, board, revision)
    BY <1>1 DEF RunSetBoard
  <2>2. /\ design' = [field \in DOMAIN design |-> design'[field]]
        /\ design'.comps = design.comps /\ design'.buses = design.buses
        /\ design'.conns = design.conns /\ design'.automations = design.automations
    BY <1>d, <2>1 DEF SetBoard, IsDocument
  <2>3. Unmoved(design, design') BY <1>d, <2>2, FieldUnmoved
  <2> QED BY <2>1, <2>3, UnmovedStep DEF Goal
<1>2. ASSUME NEW lib \in DOMAIN Parts, NEW hint, RunAddComponent(lib, hint) PROVE Goal
  BY <1>2, AddStep DEF Goal
<1>0. ASSUME RunSeedOnboard PROVE Goal
  <2>1. Called("seed_onboard", None) /\ design' = SeedOnboard(design)
    BY <1>0 DEF RunSeedOnboard
  <2>2. IsSeq(Peripherals(design.board)) BY SessionAssumption, TuplesAre DEF Peripherals
  <2>3. Unmoved(design, design') BY <1>d, <2>1, <2>2, OnboardUnmoved
  <2> QED BY <2>1, <2>3, UnmovedStep DEF Goal
<1>3. ASSUME NEW members \in Modules, RunInsertModule(members) PROVE Goal
  <2>1. Called("insert_module", None) /\ design' = InsertModule(design, members)
    BY <1>3 DEF RunInsertModule
  <2>2. Unmoved(design, design') BY <1>d, <2>1, InsertUnmoved
  <2> QED BY <2>1, <2>2, UnmovedStep DEF Goal
<1>4. ASSUME NEW id, RunRemoveComponent(id) PROVE Goal
  <2>1. call'.tool = "remove_component" /\ design' = RemoveComponent(design, id)
    BY <1>4 DEF RunRemoveComponent, Called
  <2>2. DocumentRead' BY <1>d, <2>1, RemovedIsDocument DEF DocumentRead
  <2> QED BY <2>1, <2>2 DEF Goal, MovesAsAsked, KeepsRendering, AcceptsNewId
<1>5. ASSUME NEW id \in Ids(design.comps), NEW key, NEW present, RunSetParam(id, key, present)
      PROVE  Goal
  <2>1. Called("set_param", id) /\ design' = SetParam(design, id, key, present)
    BY <1>5 DEF RunSetParam
  <2>2. Unmoved(design, design') BY <1>d, <2>1, SetParamUnmoved
  <2> QED BY <2>1, <2>2, UnmovedStep DEF Goal
<1>6. ASSUME NEW id, NEW part, NEW mpn, RunSetPartOverride(id, part, mpn) PROVE Goal
  <2>1. Called("set_part_override", id) /\ design' = SetPartOverride(design, id, part, mpn)
    BY <1>6 DEF RunSetPartOverride
  <2> DEFINE overrides == IF mpn = None THEN [k \in DOMAIN design.overrides \ {<<id, part>>} |->
                                                 design.overrides[k]]
                          ELSE <<id, part>> :> mpn @@ design.overrides
  <2>2. design' = [design EXCEPT !.overrides = overrides] BY <2>1 DEF SetPartOverride
  <2> HIDE DEF overrides
  <2>3. /\ design' = [field \in DOMAIN design |-> design'[field]]
        /\ design'.comps = design.comps /\ design'.buses = design.buses
        /\ design'.conns = design.conns /\ design'.automations = design.automations
    BY <1>d, <2>2 DEF IsDocument
  <2>4. Unmoved(design, design') BY <1>d, <2>3, FieldUnmoved
  <2> QED BY <2>1, <2>4, UnmovedStep DEF Goal
<1>7. ASSUME NEW comp, NEW role, NEW target, RunSetConnection(comp, role, target) PROVE Goal
  <2>1. /\ call'.tool = "set_connection" /\ call'.part = comp
        /\ design' = SetConnection(design, comp, role, target)
    BY <1>7 DEF RunSetConnection, Called
  <2>2. /\ IsDocument(design')
        /\ \A i \in DOMAIN design.conns :
              design.conns[i].comp = comp \/ design'.conns[i].target = design.conns[i].target
    BY <1>d, <2>1, SetConnectionMoves
  <2>3. MovesAsAsked BY <2>1, <2>2 DEF MovesAsAsked
  <2> QED BY <2>1, <2>2, <2>3 DEF Goal, DocumentRead, KeepsRendering, AcceptsNewId
<1>8. ASSUME NEW enabled, RunSetStrict(enabled) PROVE Goal
  <2>1. Called("set_strict", None) /\ design' = [design EXCEPT !.strict = enabled]
    BY <1>8 DEF RunSetStrict
  <2>2. /\ design' = [field \in DOMAIN design |-> design'[field]]
        /\ design'.comps = design.comps /\ design'.buses = design.buses
        /\ design'.conns = design.conns /\ design'.automations = design.automations
    BY <1>d, <2>1 DEF IsDocument
  <2>3. Unmoved(design, design') BY <1>d, <2>2, FieldUnmoved
  <2> QED BY <2>1, <2>3, UnmovedStep DEF Goal
<1>9. ASSUME NEW id, NEW type, NEW pins, RunAddBus(id, type, pins) PROVE Goal
  <2>1. /\ Called("add_bus", None)
        /\ design' = [design EXCEPT !.buses = Append(@, NewBus(design, id, type, pins))]
    BY <1>9 DEF RunAddBus
  <2>2. Unmoved(design, design') BY <1>d, <2>1, AddBusUnmoved
  <2> QED BY <2>1, <2>2, UnmovedStep DEF Goal
<1>10. ASSUME RunSolvePins PROVE Goal
  <2>1. /\ call'.tool = "solve_pins"
        /\ design' = [design EXCEPT !.conns = Solve(design).conns]
    BY <1>10 DEF RunSolvePins, Called
  <2>2. /\ IsDocument(design')
        /\ \A i \in DOMAIN design.conns :
              Unbound(design.conns[i].target) \/ design'.conns[i].target = design.conns[i].target
    BY <1>d, <2>1, SolveMoves
  <2>3. MovesAsAsked BY <2>1, <2>2 DEF MovesAsAsked
  <2> QED BY <2>1, <2>2, <2>3 DEF Goal, DocumentRead, KeepsRendering, AcceptsNewId
<1>11. ASSUME Reload PROVE Goal
  <2>1. call'.tool = "load" /\ design' = Repaired(design) BY <1>11 DEF Reload, Called
  <2>2. DocumentRead' BY <1>d, <2>1, RepairedIsDocument DEF DocumentRead
  <2> QED BY <2>1, <2>2 DEF Goal, MovesAsAsked, KeepsRendering, AcceptsNewId
<1>12. Goal
  <2>1. ASSUME NEW lib \in Offered, NEW hint, RunAddComponent(lib, hint) PROVE Goal
    BY <1>2, <2>1, SessionAssumption
  <2> QED BY <1>0, <1>1, <1>3, <1>4, <1>5, <1>6, <1>7, <1>8, <1>9, <1>10, <1>11, <2>1 DEF Next
<1> QED BY <1>12 DEF Goal

\* The document stays one the model reads, whatever tools are called on it and
\* however often it is loaded (agent/tools.py, migrate.py).
THEOREM DocumentStaysRead == Spec => []DocumentRead
<1>1. ASSUME DocumentRead, [Next]_vars PROVE DocumentRead'
  <2>1. CASE Next BY <1>1, <2>1, SessionStep
  <2>2. CASE UNCHANGED vars BY <1>1, <2>2 DEF vars, DocumentRead
  <2> QED BY <1>1, <2>1, <2>2
<1> QED BY <1>1, InitReads, PTL DEF Spec

\* A connection leads elsewhere only after a tool that was asked to move it
\* (agent/tools.py, csp/pin_solver.py), a part whose template asks for no more than
\* its pins bring leaves a design that renders one that does (designs/seed.py), and
\* the id it gets is none that ESPHome refuses (_esphome_refuses).
THEOREM ToolsKeep == Spec => ToolsKeepTheDesign
<1>1. ASSUME DocumentRead, [Next]_vars
      PROVE  [MovesAsAsked]_vars /\ [KeepsRendering]_vars /\ [AcceptsNewId]_vars
  <2>1. CASE Next BY <1>1, <2>1, SessionStep
  <2>2. CASE UNCHANGED vars BY <2>2
  <2> QED BY <1>1, <2>1, <2>2
<1>2. Spec => [][MovesAsAsked]_vars BY <1>1, DocumentStaysRead, PTL DEF Spec
<1>3. Spec => [][KeepsRendering]_vars BY <1>1, DocumentStaysRead, PTL DEF Spec
<1>4. Spec => [][AcceptsNewId]_vars BY <1>1, DocumentStaysRead, PTL DEF Spec
<1> QED BY <1>2, <1>3, <1>4
        DEF ToolsKeepTheDesign, NothingMovesUnasked, AddKeepsRendering, NewIdAccepted

-----------------------------------------------------------------------------
(* Ids stay apart, and what refers to something still does.                *)

\* A part is put into a design under an id of its own, and refers to its buses.
LEMMA SeededWhole ==
    ASSUME NEW d, IsDocument(d), Whole(d), NEW lib \in DOMAIN Parts, NEW s, NEW id,
           Seeded(d, s, id, lib)
    PROVE  Whole(s) /\ Linked(d, s) /\ Ids(d.buses) \subseteq Ids(s.buses)
<1> DEFINE n == Len(d.conns)
           pins == Parts[lib].pins
<1>1. IsDocument(s) BY DEF Seeded
<1>2. IdsApart(s.comps) /\ Ids(s.comps) = Ids(d.comps) \cup {id}
  <2>1. /\ IsSeq(d.comps) /\ IsSeq(s.comps) /\ Len(s.comps) = Len(d.comps) + 1
        /\ IdsApart(d.comps) /\ \A c \in DOMAIN d.comps : s.comps[c] = d.comps[c]
        /\ s.comps[Len(d.comps) + 1].id = id /\ id \notin Ids(d.comps)
    BY <1>1, DocumentFacts DEF Seeded, Whole
  <2> QED BY ONLY <2>1, OneMoreApart
<1>3. BusesWhole(s.buses) BY DEF Seeded, Whole
<1>4. Ids(d.buses) \subseteq Ids(s.buses) BY DEF Seeded, Ids
<1>5. \A i \in DOMAIN s.conns : i \in DOMAIN d.conns \/ \E k \in DOMAIN pins : i = n + k
  <2> HIDE DEF pins
  <2>1. IsSeq(pins) BY SessionAssumption DEF pins
  <2>2. /\ n \in Nat /\ DOMAIN d.conns = 1..n /\ Len(pins) \in Nat /\ DOMAIN pins = 1..Len(pins)
    BY <2>1, DocumentFacts, SeqFacts
  <2>3. DOMAIN s.conns = 1..(n + Len(pins)) BY <1>1, DocumentFacts DEF Seeded, pins
  <2> HIDE DEF n
  <2> SUFFICES ASSUME NEW i \in 1..(n + Len(pins)), i \notin 1..n
               PROVE  \E k \in DOMAIN pins : i = n + k
    BY <2>2, <2>3
  <2>4. i - n \in 1..Len(pins) /\ i = n + (i - n) BY <2>2
  <2> QED BY <2>2, <2>4
<1>6. \A i \in DOMAIN d.conns : i \in DOMAIN s.conns
  <2> HIDE DEF pins
  <2>1. IsSeq(pins) BY SessionAssumption DEF pins
  <2>2. /\ n \in Nat /\ DOMAIN d.conns = 1..n /\ Len(pins) \in Nat
    BY <2>1, DocumentFacts, SeqFacts
  <2>3. DOMAIN s.conns = 1..(n + Len(pins)) BY <1>1, DocumentFacts DEF Seeded, pins
  <2> HIDE DEF n
  <2> QED BY <2>2, <2>3, PastTheEnd
<1>7. ASSUME NEW i \in DOMAIN d.conns, Refers(d, d.conns[i]) PROVE Refers(s, s.conns[i])
  <2>1. /\ s.conns[i].target = d.conns[i].target
        /\ d.conns[i].comp \in Ids(d.comps) => s.conns[i].comp = d.conns[i].comp
    BY DEF Seeded
  <2> QED BY <1>2, <1>4, <1>7, <2>1 DEF Refers
<1>8. ASSUME NEW k \in DOMAIN pins PROVE Refers(s, s.conns[n + k])
  <2>1. s.conns[n + k].comp = id /\ Seeds(s.buses, pins[k], s.conns[n + k].target) BY DEF Seeded
  <2> QED BY <1>2, <2>1 DEF Refers, Seeds
<1> HIDE DEF n, pins
<1> QED BY <1>2, <1>3, <1>4, <1>5, <1>6, <1>7, <1>8 DEF Whole, Linked

\* insert_module does so for each of its members.
LEMMA InsertWhole ==
    ASSUME NEW d, IsDocument(d), Whole(d), NEW members \in Modules
    PROVE  Whole(InsertModule(d, members)) /\ Linked(d, InsertModule(d, members))
<1> DEFINE N == Len(members)
           runs == InsertRuns(d, members)
           Fine(e) == IsDocument(e) /\ Whole(e) /\ Linked(d, e)
           fine == {n \in 0..N : Fine(runs[n])}
<1>1. /\ IsSeq(members) /\ N \in Nat /\ DOMAIN members = 1..N
      /\ \A k \in DOMAIN members : members[k].lib \in DOMAIN Parts
  BY SessionAssumption, SeqFacts
<1>2. /\ runs[0] = d
      /\ \A n \in 1..N : runs[n] = SeedPart(runs[n - 1], members[n].lib, members[n].hint).design
  BY <1>1, InsertRunsAre
<1>3. InsertModule(d, members) = runs[N] BY DEF InsertModule
<1> HIDE DEF runs
<1>4. 0 \in fine BY <1>1, <1>2 DEF Linked
<1>5. ASSUME NEW n \in 1..N, n - 1 \in fine PROVE n \in fine
  <2> DEFINE e == runs[n - 1]
             s == SeedPart(e, members[n].lib, members[n].hint)
  <2>1. Fine(e) BY <1>5
  <2>2. members[n].lib \in DOMAIN Parts BY <1>1
  <2>3. runs[n] = s.design BY <1>2
  <2>4. n \in 0..N BY <1>1
  <2> HIDE DEF e
  <2>5. Seeded(e, s.design, s.id, members[n].lib) BY <2>1, <2>2, SeedPartSeeds
  <2> HIDE DEF s
  <2>6. Whole(s.design) /\ Linked(e, s.design) /\ IsDocument(s.design)
    BY <2>1, <2>2, <2>5, SeededWhole DEF Seeded
  <2>7. Linked(d, s.design) BY <2>1, <2>6, LinkedTwice
  <2> QED BY <2>3, <2>4, <2>6, <2>7
<1>6. 0..N \subseteq fine
  <2> HIDE DEF fine
  <2> QED BY <1>1, <1>4, <1>5, Climbs
<1> QED BY <1>1, <1>3, <1>6

\* What was on a bus that is dropped again refers to none.
LEMMA DropWhole ==
    ASSUME NEW s, IsDocument(s), Whole(s), NEW before
    PROVE  Whole(DropEmptyBuses(s, before)) /\ Linked(s, DropEmptyBuses(s, before))
<1> DEFINE t == DropEmptyBuses(s, before)
<1>1. /\ IsDocument(t) /\ t.comps = s.comps
      /\ \A b \in DOMAIN t.buses : \E e \in DOMAIN s.buses : t.buses[b] = s.buses[e]
      /\ IdsApart(s.buses) => IdsApart(t.buses)
      /\ Len(t.conns) = Len(s.conns)
      /\ \A i \in DOMAIN s.conns :
            LET was == s.conns[i].target
                is == t.conns[i].target
            IN /\ t.conns[i].comp = s.conns[i].comp
               /\ \/ /\ is = was
                     /\ was.kind = "bus" /\ was.to \in Ids(s.buses) => was.to \in Ids(t.buses)
                  \/ is = Target("bus", None)
  BY DropFacts
<1> HIDE DEF t
<1>2. DOMAIN t.conns = DOMAIN s.conns
  <2>1. DOMAIN t.conns = 1..Len(t.conns) /\ DOMAIN s.conns = 1..Len(s.conns)
    BY <1>1, DocumentFacts
  <2> QED BY <1>1, <2>1
<1>3. BusesWhole(t.buses)
  <2>1. Ids(t.buses) \subseteq Ids(s.buses) BY <1>1 DEF Ids
  <2>2. Typed(t.buses) BY <1>1 DEF Typed, Whole, BusesWhole
  <2> QED BY <1>1, <2>1, <2>2 DEF Whole, BusesWhole
<1>4. ASSUME NEW i \in DOMAIN s.conns, Refers(s, s.conns[i]) PROVE Refers(t, t.conns[i])
  BY <1>1, <1>4 DEF Refers, Target
<1> QED BY <1>1, <1>2, <1>3, <1>4 DEF Whole, Linked, t

\* add_component seeds, drops and solves.
LEMMA AddWhole ==
    ASSUME NEW d, IsDocument(d), Whole(d), NEW lib \in DOMAIN Parts, NEW hint
    PROVE  LET e == AddComponent(d, lib, hint).design IN Whole(e) /\ Linked(d, e)
<1> DEFINE s == SeedPart(d, lib, hint)
           t == SeedTrimmed(d, lib, hint)
           td == t.design
           a == AddComponent(d, lib, hint)
           e == a.design
           id == a.id
           n == Len(d.conns)
           pins == Parts[lib].pins
<1>1. Whole(td) /\ Linked(d, td) /\ Grown(d, td, id, lib)
  <2>1. Seeded(d, s.design, s.id, lib) BY SeedPartSeeds
  <2>2. t = [design |-> DropEmptyBuses(s.design, Ids(d.buses)), id |-> s.id] BY DEF SeedTrimmed
  <2>3. id = t.id BY AddGrows
  <2> HIDE DEF s, t, id
  <2>4. Grown(d, td, id, lib) BY <2>1, <2>2, <2>3, DropGrows
  <2>5. Whole(s.design) /\ Linked(d, s.design) /\ IsDocument(s.design)
    BY <2>1, SeededWhole DEF Seeded
  <2>6. Whole(td) /\ Linked(s.design, td) BY <2>2, <2>5, DropWhole
  <2> QED BY <2>4, <2>5, <2>6, LinkedTwice
<1>2. /\ Grown(d, e, id, lib) /\ e.comps = td.comps /\ e.buses = td.buses
      /\ \A i \in DOMAIN td.conns : td.conns[i].comp # id => e.conns[i] = td.conns[i]
      /\ \A k \in DOMAIN pins :
            \E j \in DOMAIN e.conns :
               /\ n + k <= j
               /\ Follows(td, td.conns[j], [td.conns[j] EXCEPT !.target = e.conns[n + k].target])
  BY AddGrows
<1> HIDE DEF t, a, e, td, id
<1>3. /\ n \in Nat /\ DOMAIN d.conns = 1..n
      /\ DOMAIN e.conns = DOMAIN td.conns /\ IsDocument(td)
      /\ \A k \in DOMAIN pins : k \in Nat \ {0}
  <2>1. IsDocument(e) /\ IsDocument(td) /\ Len(e.conns) = Len(td.conns) BY <1>1, <1>2 DEF Grown
  <2>2. DOMAIN e.conns = 1..Len(e.conns) /\ DOMAIN td.conns = 1..Len(td.conns)
    BY <2>1, DocumentFacts
  <2>3. IsSeq(pins) BY SessionAssumption
  <2>4. DOMAIN pins = 1..Len(pins) /\ Len(pins) \in Nat BY <2>3, SeqFacts
  <2>5. n \in Nat /\ DOMAIN d.conns = 1..n BY DocumentFacts
  <2> HIDE DEF pins, n
  <2> QED BY <2>1, <2>2, <2>4, <2>5
<1>4. \A i \in DOMAIN d.conns : i \in DOMAIN e.conns BY <1>1, <1>3 DEF Linked
<1>5. Whole(e) BY <1>1, <1>2 DEF Whole
<1>6. \A c : Refers(e, c) <=> Refers(td, c) BY <1>2 DEF Refers
<1>7. ASSUME NEW i \in DOMAIN d.conns, Refers(d, d.conns[i]) PROVE Refers(e, e.conns[i])
  <2>1. Refers(td, td.conns[i]) /\ i \in DOMAIN td.conns BY <1>1, <1>7 DEF Linked
  <2>2. d.conns[i].comp \in Ids(d.comps) BY <1>7 DEF Refers
  <2>3. td.conns[i].comp # id BY <1>1, <2>2 DEF Grown
  <2> QED BY <1>2, <1>6, <2>1, <2>3
<1>8. ASSUME NEW k \in DOMAIN pins PROVE Refers(e, e.conns[n + k])
  <2> DEFINE target == e.conns[n + k].target
  <2>1. PICK j \in DOMAIN e.conns :
           /\ n + k <= j /\ Follows(td, td.conns[j], [td.conns[j] EXCEPT !.target = target])
    BY <1>2
  <2>2. j \in DOMAIN td.conns /\ IsConn(td.conns[j]) BY <1>3, <2>1, DocumentFacts
  <2>3. j \notin DOMAIN d.conns
    <3>1. n \in Nat /\ k \in Nat \ {0} /\ DOMAIN d.conns = 1..n BY <1>3
    <3>2. j \in Nat
      <4>1. DOMAIN td.conns = 1..Len(td.conns) BY <1>3, DocumentFacts
      <4> QED BY <2>2, <4>1
    <3> HIDE DEF n
    <3> QED BY <2>1, <3>1, <3>2
  <2>4. Refers(td, td.conns[j]) BY <1>1, <2>2, <2>3 DEF Linked
  <2>5. \/ target = td.conns[j].target
        \/ target.kind # "bus" \/ target.to \in Ids(td.buses)
    <3> HIDE DEF target
    <3>1. [td.conns[j] EXCEPT !.target = target].target = target BY <2>2 DEF IsConn
    <3> QED BY <2>1, <3>1 DEF Follows
  <2>6. e.conns[n + k].comp \in Ids(e.comps)
    <3>1. e.conns[n + k].comp = id BY <1>2 DEF Grown
    <3>2. id \in Ids(e.comps) BY <1>2, GrownComps
    <3> QED BY <3>1, <3>2
  <2>7. target.kind = "bus" => target.to \in Ids(e.buses) \cup {None}
    <3> HIDE DEF target
    <3> QED BY <1>2, <2>4, <2>5 DEF Refers
  <2> QED BY <2>6, <2>7 DEF Refers
<1>9. \A i \in DOMAIN e.conns \ DOMAIN d.conns : \E k \in DOMAIN pins : i = n + k
  BY <1>2, GrownConns
<1> HIDE DEF n, pins
<1>10. \A i \in DOMAIN e.conns \ DOMAIN d.conns : Refers(e, e.conns[i]) BY <1>8, <1>9
<1>11. Linked(d, e) BY <1>4, <1>7, <1>10 DEF Linked
<1> QED BY <1>5, <1>11 DEF e, a

\* Buses, parts and connections that stay refer as they did.
LEMMA FieldWhole ==
    ASSUME NEW d, Whole(d), NEW e, e.comps = d.comps, e.buses = d.buses, e.conns = d.conns
    PROVE  Whole(e) /\ Linked(d, e)
BY DEF Whole, Linked, Refers

LEMMA SetParamWhole ==
    ASSUME NEW d, IsDocument(d), Whole(d), NEW id, NEW key, NEW present
    PROVE  LET e == SetParam(d, id, key, present) IN
             Whole(e) /\ Linked(d, e) /\ e.conns = d.conns
<1> DEFINE c == Least({e \in DOMAIN d.comps : d.comps[e].id = id})
           params == IF present THEN d.comps[c].params \cup {key} ELSE d.comps[c].params \ {key}
           comps == [d.comps EXCEPT ![c].params = params]
           e == [d EXCEPT !.comps = comps]
<1>1. SetParam(d, id, key, present) = e BY DEF SetParam
<1> HIDE DEF c, params
<1>2. DOMAIN comps = DOMAIN d.comps /\ \A k \in DOMAIN d.comps : comps[k].id = d.comps[k].id
  <2>1. \A k \in DOMAIN d.comps : IsComp(d.comps[k]) BY DocumentFacts
  <2>2. ASSUME NEW k \in DOMAIN d.comps PROVE comps[k].id = d.comps[k].id
    <3>1. \/ comps[k] = d.comps[k]
          \/ comps[k] = [d.comps[k] EXCEPT !.params = params]
      OBVIOUS
    <3> HIDE DEF comps
    <3> QED BY <2>1, <3>1 DEF IsComp
  <2> QED BY <2>2
<1> HIDE DEF comps
<1>3. e.comps = comps /\ e.buses = d.buses /\ e.conns = d.conns BY DocumentFacts
<1> HIDE DEF e
<1>4. IdsApart(e.comps) BY <1>2, <1>3 DEF IdsApart, Whole
<1>5. Ids(e.comps) = Ids(d.comps) BY <1>2, <1>3 DEF Ids
<1>6. Whole(e) BY <1>3, <1>4 DEF Whole
<1>7. Linked(d, e) BY <1>3, <1>5 DEF Linked, Refers
<1> QED BY <1>1, <1>3, <1>6, <1>7

LEMMA AddBusWhole ==
    ASSUME NEW d, IsDocument(d), Whole(d), NEW bus, IsBus(bus),
           bus.id \notin ReservedBusIds \cup Ids(d.buses), bus.type \in DOMAIN BusStem
    PROVE  LET e == [d EXCEPT !.buses = Append(@, bus)] IN
             Whole(e) /\ Linked(d, e) /\ e.conns = d.conns
<1> DEFINE buses == Append(d.buses, bus)
           e == [d EXCEPT !.buses = buses]
<1>1. /\ IsSeq(d.buses) /\ Len(d.buses) \in Nat /\ DOMAIN d.buses = 1..Len(d.buses) BY DocumentFacts
<1>2. /\ IsSeq(buses) /\ Len(buses) = Len(d.buses) + 1 /\ DOMAIN buses = 1..(Len(d.buses) + 1)
      /\ \A k \in 1..Len(d.buses) : buses[k] = d.buses[k]
      /\ buses[Len(d.buses) + 1] = bus
  BY ONLY <1>1, AppendFacts
<1> HIDE DEF buses
<1>3. bus.id \notin ReservedBusIds \cup Ids(d.buses) OBVIOUS
<1>4. IdsApart(buses) /\ Ids(buses) = Ids(d.buses) \cup {bus.id}
  <2>1. /\ IdsApart(d.buses) /\ \A k \in DOMAIN d.buses : buses[k] = d.buses[k]
        /\ buses[Len(d.buses) + 1].id \notin Ids(d.buses)
    BY <1>1, <1>2, <1>3 DEF Whole, BusesWhole
  <2>2. IdsApart(buses) /\ Ids(buses) = Ids(d.buses) \cup {buses[Len(d.buses) + 1].id}
    BY ONLY <1>1, <1>2, <2>1, OneMoreApart
  <2> QED BY <1>2, <2>2
<1>5. Typed(buses)
  <2> SUFFICES ASSUME NEW k \in DOMAIN buses PROVE buses[k].type \in DOMAIN BusStem BY DEF Typed
  <2>1. k \in 1..Len(d.buses) \/ k = Len(d.buses) + 1 BY <1>1, <1>2
  <2> QED BY <1>1, <1>2, <2>1 DEF Typed, Whole, BusesWhole
<1>6. e.comps = d.comps /\ e.buses = buses /\ e.conns = d.conns BY DocumentFacts
<1>7. e = [d EXCEPT !.buses = Append(@, bus)] BY DEF buses
<1> HIDE DEF e
<1>8. Whole(e) BY <1>3, <1>4, <1>5, <1>6 DEF Whole, BusesWhole
<1>9. Linked(d, e) BY <1>4, <1>6 DEF Linked, Refers
<1> QED BY <1>6, <1>7, <1>8, <1>9

\* solve_pins refers to buses there are.
LEMMA SolveWhole ==
    ASSUME NEW d, IsDocument(d), Whole(d)
    PROVE  LET e == [d EXCEPT !.conns = Solve(d).conns] IN
             /\ Whole(e) /\ Linked(d, e)
             /\ \A i \in DOMAIN d.conns : Key(e.conns[i]) = Key(d.conns[i])
<1> DEFINE conns == Solve(d).conns
           e == [d EXCEPT !.conns = conns]
<1>1. FollowAll(d, conns) BY SolvedFollow
<1> HIDE DEF conns
<1>2. /\ DOMAIN conns = DOMAIN d.conns
      /\ \A i \in DOMAIN d.conns : Follows(d, d.conns[i], conns[i])
  BY <1>1, DocumentFacts, SeqFacts DEF FollowAll
<1>3. e.comps = d.comps /\ e.buses = d.buses /\ e.conns = conns BY DocumentFacts
<1> HIDE DEF e
<1>4. Whole(e) BY <1>3 DEF Whole
<1>5. ASSUME NEW i \in DOMAIN d.conns
      PROVE  /\ Key(conns[i]) = Key(d.conns[i])
             /\ Refers(d, d.conns[i]) => Refers(d, conns[i])
  <2>1. Follows(d, d.conns[i], conns[i]) BY <1>2
  <2>2. /\ conns[i].comp = d.conns[i].comp /\ conns[i].role = d.conns[i].role
        /\ \/ conns[i].target = d.conns[i].target
           \/ conns[i].target.kind # "bus" \/ conns[i].target.to \in Ids(d.buses)
    BY <2>1 DEF Follows
  <2> QED BY <2>2 DEF Refers, Key
<1>6. Linked(d, e) BY <1>2, <1>3, <1>5 DEF Linked, Refers
<1> QED BY <1>3, <1>4, <1>5, <1>6 DEF e, conns

-----------------------------------------------------------------------------
(* The repairs: new names are apart from the old ones and from each other. *)

Renaming(acc, thing, new) ==
    [taken |-> acc.taken \cup {new}, map |-> Put(acc.map, thing.id, new)]

LEMMA RenamesAre ==
    ASSUME NEW things, Len(things) \in Nat, NEW which, NEW stem, NEW from, NEW start
    PROVE  \E runs :
              /\ runs[0] = start
              /\ \A n \in 1..Len(things) :
                    runs[n] = IF things[n].id \notin which THEN runs[n - 1]
                              ELSE Renaming(runs[n - 1], things[n],
                                            NextId(stem[n], runs[n - 1].taken, from))
              /\ RenameAll(things, which, stem, from, start) = runs[Len(things)]
<1> DEFINE N == Len(things)
           After(acc, n) == IF things[n].id \notin which THEN acc
                            ELSE Renaming(acc, things[n], NextId(stem[n], acc.taken, from))
           Fits(g, n) == g = [k \in 0..n |-> IF k = 0 THEN start ELSE After(g[k - 1], k)]
           fit == {n \in 0..N : \E g : Fits(g, n)}
           runs == CHOOSE g : Fits(g, N)
<1>1. RenameAll(things, which, stem, from, start) = runs[N] BY DEF RenameAll, Renaming
<1> HIDE DEF After
<1>2. 0 \in fit
  <2> DEFINE h == [k \in 0..0 |-> start]
  <2>1. Fits(h, 0) OBVIOUS
  <2> HIDE DEF Fits, h
  <2> QED BY <2>1
<1>3. ASSUME NEW n \in 1..N, n - 1 \in fit PROVE n \in fit
  <2>1. PICK g : Fits(g, n - 1) BY <1>3
  <2> DEFINE h == [k \in 0..n |-> IF k = n THEN After(g[n - 1], n) ELSE g[k]]
  <2>2. Fits(h, n) BY <2>1
  <2> HIDE DEF Fits, h
  <2> QED BY <2>2
<1>4. N \in fit
  <2> HIDE DEF fit
  <2>1. 0..N \subseteq fit BY <1>2, <1>3, Climbs
  <2> QED BY <2>1
<1>5. Fits(runs, N) BY <1>4
<1> HIDE DEF runs
<1>6. runs[0] = start BY <1>5
<1>7. ASSUME NEW n \in 1..N PROVE runs[n] = After(runs[n - 1], n) BY <1>5
<1> QED BY <1>1, <1>6, <1>7 DEF After

\* The new names given so far, beside the old ones.
Sound(acc, old) ==
    /\ IsFiniteSet(acc.taken) /\ old \subseteq acc.taken
    /\ \A id \in DOMAIN acc.map : acc.map[id] \in acc.taken \ old
    /\ \A j, k \in DOMAIN acc.map : acc.map[j] = acc.map[k] => j = k

LEMMA OneMoreName ==
    ASSUME NEW acc, NEW old, Sound(acc, old), NEW thing, NEW new, new \notin acc.taken
    PROVE  Sound(Renaming(acc, thing, new), old)
<1> DEFINE more == Renaming(acc, thing, new)
           map == Put(acc.map, thing.id, new)
<1>1. more.taken = acc.taken \cup {new} /\ more.map = map BY DEF Renaming
<1>2. /\ DOMAIN map = {thing.id} \cup DOMAIN acc.map
      /\ map[thing.id] = new
      /\ \A k \in DOMAIN acc.map : k # thing.id => map[k] = acc.map[k]
  <2> DEFINE f == acc.map
             key == thing.id
  <2> HIDE DEF f, key
  <2>1. /\ DOMAIN Put(f, key, new) = {key} \cup DOMAIN f
        /\ Put(f, key, new)[key] = new
        /\ \A k \in DOMAIN f : k # key => Put(f, key, new)[k] = f[k]
    BY DEF Put
  <2> QED BY <2>1 DEF f, key
<1> HIDE DEF more, map
<1>3. IsFiniteSet(more.taken) /\ old \subseteq more.taken
  BY <1>1, FS_AddElement DEF Sound
<1>4. \A id \in DOMAIN map : map[id] \in more.taken \ old
  BY <1>1, <1>2 DEF Sound
<1>5. ASSUME NEW j \in DOMAIN map, NEW k \in DOMAIN map, map[j] = map[k] PROVE j = k
  BY <1>2, <1>5 DEF Sound
<1> QED BY <1>1, <1>3, <1>4, <1>5 DEF Sound, more

\* Who has a name of those to change gets a new one, on a stem of the list.
NamesGiven(things, which, stem, start, old, acc) ==
    /\ Sound(acc, old)
    /\ DOMAIN acc.map \subseteq DOMAIN start.map \cup (which \cap Ids(things))
    /\ \A k \in DOMAIN things : things[k].id \in which =>
          /\ things[k].id \in DOMAIN acc.map
          /\ \E j \in DOMAIN things : Stem(acc.map[things[k].id]) = stem[j]
LEMMA RenameSound ==
    ASSUME NEW things, IsSeq(things), NEW which, NEW stem, NEW from \in Nat, NEW start, NEW old,
           Sound(start, old)
    PROVE  NamesGiven(things, which, stem, start, old, RenameAll(things, which, stem, from, start))
<1> DEFINE N == Len(things)
           Given(acc, k) == things[k].id \in which =>
                   /\ things[k].id \in DOMAIN acc.map
                   /\ \E j \in DOMAIN things : Stem(acc.map[things[k].id]) = stem[j]
           Fine(acc, n) ==
             /\ Sound(acc, old)
             /\ DOMAIN acc.map \subseteq DOMAIN start.map \cup (which \cap Ids(things))
             /\ \A k \in 1..n : Given(acc, k)
<1>1. N \in Nat /\ DOMAIN things = 1..N BY SeqFacts
<1>2. PICK runs :
         /\ runs[0] = start
         /\ \A n \in 1..N :
               runs[n] = IF things[n].id \notin which THEN runs[n - 1]
                         ELSE Renaming(runs[n - 1], things[n],
                                       NextId(stem[n], runs[n - 1].taken, from))
         /\ RenameAll(things, which, stem, from, start) = runs[N]
  BY <1>1, RenamesAre
<1> DEFINE fine == {n \in 0..N : Fine(runs[n], n)}
<1>3. 0 \in fine BY <1>1, <1>2
<1>4. ASSUME NEW n \in 1..N, n - 1 \in fine PROVE n \in fine
  <2> DEFINE acc == runs[n - 1]
             new == NextId(stem[n], acc.taken, from)
             more == Renaming(acc, things[n], new)
             id == things[n].id
  <2>1. Fine(acc, n - 1) /\ n \in 0..N BY <1>1, <1>4
  <2>2. runs[n] = IF id \notin which THEN acc ELSE more BY <1>2
  <2>3. \A k \in 1..n : k \in 1..(n - 1) \/ k = n BY <1>1
  <2> HIDE DEF acc
  <2>4. CASE id \notin which
    <3>1. runs[n] = acc BY <2>2, <2>4
    <3>2. Given(acc, n) BY <2>4
    <3> HIDE DEF Given
    <3>3. Fine(acc, n) BY <2>1, <2>3, <3>2
    <3> QED BY <2>1, <3>1, <3>3
  <2>5. CASE id \in which
    <3>1. runs[n] = more BY <2>2, <2>5
    <3>2. new \notin acc.taken /\ Stem(new) = stem[n] BY <2>1, NextIdIsFree DEF Sound
    <3> HIDE DEF new
    <3>3. Sound(more, old) BY <2>1, <3>2, OneMoreName
    <3>4. /\ DOMAIN more.map = {id} \cup DOMAIN acc.map
          /\ more.map[id] = new
          /\ \A k \in DOMAIN acc.map : k # id => more.map[k] = acc.map[k]
      <4>1. more.map = Put(acc.map, id, new) BY DEF Renaming
      <4> DEFINE f == acc.map
      <4> HIDE DEF f, id, more
      <4>2. /\ DOMAIN Put(f, id, new) = {id} \cup DOMAIN f
            /\ Put(f, id, new)[id] = new
            /\ \A k \in DOMAIN f : k # id => Put(f, id, new)[k] = f[k]
        BY DEF Put
      <4> QED BY <4>1, <4>2 DEF f
    <3> HIDE DEF more
    <3>5. n \in DOMAIN things /\ id \in Ids(things) BY <1>1 DEF Ids
    <3>6. DOMAIN more.map \subseteq DOMAIN start.map \cup (which \cap Ids(things))
      BY <2>1, <2>5, <3>4, <3>5
    <3>7. ASSUME NEW k \in 1..n PROVE Given(more, k)
      <4>1. CASE things[k].id = id BY <3>2, <3>4, <3>5, <4>1
      <4>2. CASE things[k].id # id
        <5>1. Given(acc, k) BY <2>1, <2>3, <4>2
        <5> QED BY <3>4, <4>2, <5>1
      <4> QED BY <4>1, <4>2
    <3> HIDE DEF Given
    <3>8. Fine(more, n) BY <3>3, <3>6, <3>7
    <3> QED BY <2>1, <3>1, <3>8
  <2> QED BY <2>4, <2>5
<1>5. N \in fine
  <2> HIDE DEF fine
  <2>1. 0..N \subseteq fine BY <1>1, <1>3, <1>4, Climbs
  <2> QED BY <1>1, <2>1
<1>6. Fine(runs[N], N) BY <1>5
<1> HIDE DEF Given
<1> DEFINE acc == RenameAll(things, which, stem, from, start)
<1>7. acc = runs[N] BY <1>2
<1> HIDE DEF acc
<1>8. Fine(acc, N) BY <1>6, <1>7
<1> QED BY <1>1, <1>8 DEF acc, Given, NamesGiven

NewName(renames, id) == IF id \in DOMAIN renames THEN renames[id] ELSE id

\* New names beside the old ones keep apart what was.
LEMMA NamesApart ==
    ASSUME NEW acc, NEW old, Sound(acc, old), NEW x \in old, NEW y \in old,
           NewName(acc.map, x) = NewName(acc.map, y)
    PROVE  x = y
BY DEF Sound, NewName

\* One map renames parts and buses and what refers to them.
LEMMA RenamedWhole ==
    ASSUME NEW d, IsDocument(d), NEW renames,
           IdsApart(d.comps), IdsApart(d.buses), Typed(d.buses),
           \A x, y \in Ids(d.comps) : NewName(renames, x) = NewName(renames, y) => x = y,
           \A x, y \in Ids(d.buses) : NewName(renames, x) = NewName(renames, y) => x = y,
           \A x \in Ids(d.buses) : NewName(renames, x) \notin ReservedBusIds,
           None \in DOMAIN renames => None \in Ids(d.buses)
    PROVE  Whole(ApplyRenames(d, renames)) /\ Linked(d, ApplyRenames(d, renames))
<1> DEFINE To(id) == NewName(renames, id)
           carries == {"bus", "expander_pin", "component", "net"}
           comps == [c \in DOMAIN d.comps |-> [d.comps[c] EXCEPT !.id = To(@)]]
           buses == [b \in DOMAIN d.buses |-> [d.buses[b] EXCEPT !.id = To(@)]]
           Moved(t) == IF t.kind \in carries
                       THEN [kind |-> t.kind, to |-> To(t.to), number |-> t.number] ELSE t
           conns == [i \in DOMAIN d.conns |-> [comp |-> To(d.conns[i].comp),
                                              role |-> d.conns[i].role,
                                              target |-> Moved(d.conns[i].target)]]
           e == ApplyRenames(d, renames)
<1>1. e.comps = comps /\ e.buses = buses /\ e.conns = conns
  <2> DEFINE Told(things) == [k \in DOMAIN things |-> [things[k] EXCEPT !.comp = To(@)]]
             New(a) == [id |-> a.id, trigger |-> [a.trigger EXCEPT !.comp = To(@)],
                        conditions |-> Told(a.conditions), actions |-> Told(a.actions)]
             autos == {New(a) : a \in d.automations}
  <2>1. e = [d EXCEPT !.comps = comps, !.buses = buses, !.conns = conns, !.automations = autos]
    BY DEF ApplyRenames, NewName
  <2> HIDE DEF comps, buses, conns, autos, e
  <2> QED BY <2>1, DocumentFacts DEF IsDocument
<1> HIDE DEF e, To
<1>2. DOMAIN comps = DOMAIN d.comps /\ \A c \in DOMAIN d.comps : comps[c].id = To(d.comps[c].id)
  <2>1. ASSUME NEW c \in DOMAIN d.comps PROVE comps[c].id = To(d.comps[c].id)
    <3>1. IsComp(d.comps[c]) BY DocumentFacts
    <3> QED BY <3>1 DEF IsComp
  <2> QED BY <2>1
<1>3. /\ DOMAIN buses = DOMAIN d.buses
      /\ \A b \in DOMAIN d.buses : /\ buses[b].id = To(d.buses[b].id)
                                   /\ buses[b].type = d.buses[b].type
  <2>1. ASSUME NEW b \in DOMAIN d.buses
        PROVE  buses[b].id = To(d.buses[b].id) /\ buses[b].type = d.buses[b].type
    <3>1. IsBus(d.buses[b]) BY DocumentFacts
    <3> QED BY <3>1 DEF IsBus
  <2> QED BY <2>1
<1>4. /\ DOMAIN conns = DOMAIN d.conns
      /\ \A i \in DOMAIN d.conns : /\ conns[i].comp = To(d.conns[i].comp)
                                   /\ conns[i].target = Moved(d.conns[i].target)
  OBVIOUS
<1> HIDE DEF comps, buses, conns
<1>5. IdsApart(comps)
  <2> SUFFICES ASSUME NEW j \in DOMAIN comps, NEW k \in DOMAIN comps, comps[j].id = comps[k].id
               PROVE  j = k
    BY DEF IdsApart
  <2>1. d.comps[j].id \in Ids(d.comps) /\ d.comps[k].id \in Ids(d.comps) BY <1>2 DEF Ids
  <2>2. d.comps[j].id = d.comps[k].id BY <1>2, <2>1 DEF To
  <2> QED BY <1>2, <2>2 DEF IdsApart
<1>6. IdsApart(buses)
  <2> SUFFICES ASSUME NEW j \in DOMAIN buses, NEW k \in DOMAIN buses, buses[j].id = buses[k].id
               PROVE  j = k
    BY DEF IdsApart
  <2>1. d.buses[j].id \in Ids(d.buses) /\ d.buses[k].id \in Ids(d.buses) BY <1>3 DEF Ids
  <2>2. d.buses[j].id = d.buses[k].id BY <1>3, <2>1 DEF To
  <2> QED BY <1>3, <2>2 DEF IdsApart
<1>7. Typed(buses) BY <1>3 DEF Typed
<1>8. Ids(buses) \cap ReservedBusIds = {}
  <2> SUFFICES ASSUME NEW b \in DOMAIN buses PROVE buses[b].id \notin ReservedBusIds BY DEF Ids
  <2>1. d.buses[b].id \in Ids(d.buses) BY <1>3 DEF Ids
  <2> QED BY <1>3, <2>1 DEF To
<1>9. Whole(e) BY <1>1, <1>5, <1>6, <1>7, <1>8 DEF Whole, BusesWhole
<1>10. /\ \A x \in Ids(d.comps) : To(x) \in Ids(comps)
       /\ \A x \in Ids(d.buses) : To(x) \in Ids(buses)
  BY <1>2, <1>3 DEF Ids
<1>11. ASSUME NEW i \in DOMAIN d.conns, Refers(d, d.conns[i]) PROVE Refers(e, e.conns[i])
  <2> DEFINE was == d.conns[i].target
             is == conns[i].target
  <2>1. conns[i].comp \in Ids(comps) BY <1>4, <1>10, <1>11 DEF Refers
  <2>2. ASSUME is.kind = "bus" PROVE is.to \in Ids(buses) \cup {None}
    <3>0. is = Moved(was) BY <1>4
    <3> HIDE DEF is, was
    <3>1. was.kind = "bus" BY <2>2, <3>0
    <3>2. is.to = To(was.to) BY <3>0, <3>1
    <3>3. was.to \in Ids(d.buses) \cup {None} BY <1>11, <3>1 DEF Refers, was
    <3>4. was.to \in Ids(d.buses) \/ To(was.to) = None BY <3>3 DEF To, NewName
    <3> QED BY <1>10, <3>2, <3>4
  <2> QED BY <1>1, <2>1, <2>2 DEF Refers
<1>12. Linked(d, e) BY <1>1, <1>4, <1>11 DEF Linked
<1> QED BY <1>9, <1>12 DEF e

\* No generated name of a bus is one that ESPHome reserves.
LEMMA StemsAreFree ==
    ASSUME NEW type \in DOMAIN BusStem, NEW id, Stem(id) = BusStem[type]
    PROVE  id \notin ReservedBusIds
<1>1. BusStem[type] \in {"uart_bus", "spi_bus", "i2c#", "1wire#", "i2s#"} BY DEF BusStem
<1>2. \A r \in ReservedBusIds : Stem(r) \in {"uart#", "spi#"} BY DEF ReservedBusIds, Stem
<1> QED BY <1>1, <1>2

LEMMA ReservedWhole ==
    ASSUME NEW d, IsDocument(d), IdsApart(d.comps), IdsApart(d.buses), Typed(d.buses),
           Ids(d.comps) \cap Ids(d.buses) \cap ReservedBusIds = {}
    PROVE  /\ IsDocument(RenameReserved(d))
           /\ Whole(RenameReserved(d)) /\ Linked(d, RenameReserved(d))
<1> DEFINE start == [taken |-> Ids(d.buses), map |-> <<>>]
           stem == [b \in DOMAIN d.buses |-> BusStem[d.buses[b].type]]
           acc == RenameAll(d.buses, ReservedBusIds, stem, 0, start)
           ids == Ids(d.buses)
<1>0. RenameReserved(d) = ApplyRenames(d, acc.map) BY DEF RenameReserved, RenameBuses
<1>1. IsSeq(d.buses) BY DocumentFacts
<1>2. Sound(start, ids) /\ DOMAIN start.map = {}
  <2>1. IsFiniteSet(ids) BY <1>1, IdsAreFinite
  <2>2. start.taken = ids /\ DOMAIN start.map = {} OBVIOUS
  <2> HIDE DEF start, ids
  <2> QED BY <2>1, <2>2 DEF Sound
<1> HIDE DEF start, stem
<1>3. /\ Sound(acc, ids)
      /\ DOMAIN acc.map \subseteq DOMAIN start.map \cup (ReservedBusIds \cap ids)
      /\ \A k \in DOMAIN d.buses : d.buses[k].id \in ReservedBusIds =>
            /\ d.buses[k].id \in DOMAIN acc.map
            /\ \E j \in DOMAIN d.buses : Stem(acc.map[d.buses[k].id]) = stem[j]
  <2>1. NamesGiven(d.buses, ReservedBusIds, stem, start, ids, acc)
    BY <1>1, <1>2, RenameSound
  <2> HIDE DEF acc
  <2> QED BY <2>1 DEF NamesGiven
<1> HIDE DEF acc
<1> DEFINE renames == acc.map
           To(id) == NewName(renames, id)
<1>4. ASSUME NEW x \in Ids(d.comps) PROVE To(x) = x
  <2>1. x \notin DOMAIN renames BY <1>2, <1>3
  <2> QED BY <2>1 DEF NewName
<1>5. \A x, y \in ids : To(x) = To(y) => x = y
  <2> HIDE DEF ids
  <2> QED BY <1>3, NamesApart
<1>6. ASSUME NEW x \in ids PROVE To(x) \notin ReservedBusIds
  <2>1. CASE x \in ReservedBusIds
    <3>1. PICK k \in DOMAIN d.buses : x = d.buses[k].id BY DEF Ids
    <3>2. x \in DOMAIN renames /\ \E j \in DOMAIN d.buses : Stem(renames[x]) = stem[j]
      BY <1>3, <2>1, <3>1
    <3>3. PICK j \in DOMAIN d.buses : Stem(renames[x]) = stem[j] BY <3>2
    <3>4. stem[j] = BusStem[d.buses[j].type] /\ d.buses[j].type \in DOMAIN BusStem BY DEF stem, Typed
    <3>5. To(x) = renames[x] BY <3>2 DEF NewName
    <3> HIDE DEF renames, To
    <3> QED BY <3>3, <3>4, <3>5, StemsAreFree
  <2>2. CASE x \notin ReservedBusIds
    <3>1. x \notin DOMAIN renames BY <1>2, <1>3, <2>2
    <3> QED BY <2>2, <3>1 DEF NewName
  <2> QED BY <2>1, <2>2
<1>7. None \in DOMAIN renames => None \in Ids(d.buses) BY <1>2, <1>3
<1> HIDE DEF renames
<1>8. \A x, y \in Ids(d.comps) : To(x) = To(y) => x = y BY <1>4
<1>9. Whole(ApplyRenames(d, renames)) /\ Linked(d, ApplyRenames(d, renames))
  BY <1>5, <1>6, <1>7, <1>8, RenamedWhole
<1> QED BY <1>0, <1>9, RenamesLeaveDocument DEF renames

LEMMA IntegrationWhole ==
    ASSUME NEW d, IsDocument(d), Whole(d)
    PROVE  Whole(RenameIntegrationNames(d)) /\ Linked(d, RenameIntegrationNames(d))
<1> DEFINE bad == IdConflicts(d)
           old == Ids(d.comps) \cup Ids(d.buses)
           start == [taken |-> old, map |-> <<>>]
           stem == [b \in DOMAIN d.buses |-> BusStem[d.buses[b].type]]
           first == [c \in DOMAIN d.comps |-> Stem(d.comps[c].id)]
           comps == RenameAll(d.comps, bad, first, 1, start)
           acc == RenameAll(d.buses, bad, stem, 0, comps)
<1>0. RenameIntegrationNames(d) = IF Renders(d) THEN ApplyRenames(d, acc.map) ELSE d
  BY DEF RenameIntegrationNames, RenameBuses, RenameComps
<1>1. IsSeq(d.buses) /\ IsSeq(d.comps) BY DocumentFacts
<1>2. Sound(start, old) /\ DOMAIN start.map = {}
  <2>1. IsFiniteSet(old) BY <1>1, IdsAreFinite, FS_Union
  <2>2. start.taken = old /\ DOMAIN start.map = {} OBVIOUS
  <2> HIDE DEF start, old
  <2> QED BY <2>1, <2>2 DEF Sound
<1> HIDE DEF start, stem, first, bad
<1>3. /\ Sound(comps, old)
      /\ DOMAIN comps.map \subseteq DOMAIN start.map \cup (bad \cap Ids(d.comps))
  <2>1. NamesGiven(d.comps, bad, first, start, old, comps) BY <1>1, <1>2, RenameSound
  <2> HIDE DEF comps
  <2> QED BY <2>1 DEF NamesGiven
<1> HIDE DEF comps
<1>4. /\ Sound(acc, old)
      /\ DOMAIN acc.map \subseteq DOMAIN comps.map \cup (bad \cap Ids(d.buses))
      /\ \A k \in DOMAIN d.buses : d.buses[k].id \in bad =>
            /\ d.buses[k].id \in DOMAIN acc.map
            /\ \E j \in DOMAIN d.buses : Stem(acc.map[d.buses[k].id]) = stem[j]
  <2>1. NamesGiven(d.buses, bad, stem, comps, old, acc) BY <1>1, <1>3, RenameSound
  <2> HIDE DEF acc
  <2> QED BY <2>1 DEF NamesGiven
<1> HIDE DEF acc
<1>5. DOMAIN acc.map \subseteq bad BY <1>2, <1>3, <1>4
<1>6. ASSUME Renders(d) PROVE None \notin bad
  <2>1. None \notin Loaded(d)
    <3>1. None \notin {<<"esphome", 0>>, <<"logger", 0>>}
                      \cup {BusIntegration(type) : type \in DOMAIN BusStem}
      BY SessionAssumption
    <3>2. None \notin {BusIntegration(d.buses[b].type) : b \in DOMAIN d.buses}
      BY <3>1 DEF Whole, BusesWhole, Typed
    <3>3. \A c \in Templated(d) : None \notin Parts[d.comps[c].lib].loads
      <4>1. \A c \in Templated(d) : d.comps[c].lib \in DOMAIN Parts
        BY <1>6 DEF Renders, Templated
      <4> QED BY <4>1, SessionAssumption
    <3> QED BY <3>1, <3>2, <3>3 DEF Loaded
  <2> QED BY <2>1 DEF IdConflicts, bad
<1> DEFINE renames == acc.map
           To(id) == NewName(renames, id)
<1>7. \A x, y \in old : To(x) = To(y) => x = y
  <2> HIDE DEF old
  <2> QED BY <1>4, NamesApart
<1>8. ASSUME NEW x \in Ids(d.buses) PROVE To(x) \notin ReservedBusIds
  <2>0. x \notin ReservedBusIds /\ Typed(d.buses) BY DEF Whole, BusesWhole
  <2>1. CASE x \in bad
    <3>1. PICK k \in DOMAIN d.buses : x = d.buses[k].id BY DEF Ids
    <3>2. x \in DOMAIN renames /\ \E j \in DOMAIN d.buses : Stem(renames[x]) = stem[j]
      BY <1>4, <2>1, <3>1
    <3>3. PICK j \in DOMAIN d.buses : Stem(renames[x]) = stem[j] BY <3>2
    <3>4. stem[j] = BusStem[d.buses[j].type] /\ d.buses[j].type \in DOMAIN BusStem
      BY <2>0 DEF stem, Typed
    <3>5. To(x) = renames[x] BY <3>2 DEF NewName
    <3> HIDE DEF renames, To
    <3> QED BY <3>3, <3>4, <3>5, StemsAreFree
  <2>2. CASE x \notin bad
    <3>1. x \notin DOMAIN renames BY <1>5, <2>2
    <3> QED BY <2>0, <3>1 DEF NewName
  <2> QED BY <2>1, <2>2
<1>9. Renders(d) => None \notin DOMAIN renames BY <1>5, <1>6
<1> HIDE DEF renames
<1>10. ASSUME Renders(d)
       PROVE  Whole(ApplyRenames(d, renames)) /\ Linked(d, ApplyRenames(d, renames))
  <2>1. IdsApart(d.comps) /\ IdsApart(d.buses) /\ Typed(d.buses) BY DEF Whole, BusesWhole
  <2>2. /\ \A x, y \in Ids(d.comps) : To(x) = To(y) => x = y
        /\ \A x, y \in Ids(d.buses) : To(x) = To(y) => x = y
    BY <1>7
  <2> QED BY <1>8, <1>9, <1>10, <2>1, <2>2, RenamedWhole
<1>11. Whole(d) /\ Linked(d, d) BY DEF Linked
<1> QED BY <1>0, <1>10, <1>11 DEF renames

\* A load repairs what breaks the references of none.
LEMMA RepairedWhole ==
    ASSUME NEW d, IsDocument(d), IdsApart(d.comps), IdsApart(d.buses), Typed(d.buses),
           Ids(d.comps) \cap Ids(d.buses) \cap ReservedBusIds = {}
    PROVE  Whole(Repaired(d)) /\ Linked(d, Repaired(d))
<1> DEFINE r == RenameReserved(d)
<1>1. IsDocument(r) /\ Whole(r) /\ Linked(d, r) BY ReservedWhole
<1>2. Repaired(d) = RenameIntegrationNames(r) BY DEF Repaired
<1> HIDE DEF r
<1> DEFINE e == RenameIntegrationNames(r)
<1>3. Whole(e) /\ Linked(r, e) BY <1>1, IntegrationWhole
<1> HIDE DEF e
<1>4. Linked(d, e) BY <1>1, <1>3, LinkedTwice
<1> QED BY <1>2, <1>3, <1>4 DEF e

LEMMA RemovedWhole ==
    ASSUME NEW d, IsDocument(d), Whole(d), NEW id
    PROVE  LET e == RemoveComponent(d, id) IN
             /\ Whole(e)
             /\ \A k \in DOMAIN e.conns : \E i \in DOMAIN d.conns :
                   /\ e.conns[k] = d.conns[i] /\ d.conns[i].comp # id
                   /\ Refers(d, d.conns[i]) => Refers(e, e.conns[k])
<1> DEFINE at == {c \in DOMAIN d.comps : d.comps[c].id # id}
           on == {i \in DOMAIN d.conns : d.conns[i].comp # id}
           comps == Picked(d.comps, at)
           conns == Picked(d.conns, on)
           e == RemoveComponent(d, id)
<1>1. e.comps = comps /\ e.conns = conns /\ e.buses = d.buses
  <2>1. e = [d EXCEPT !.comps = comps, !.conns = conns] BY DEF RemoveComponent
  <2> HIDE DEF comps, conns, e
  <2> QED BY <2>1, DocumentFacts
<1> HIDE DEF e
<1>2. /\ Len(d.comps) \in Nat /\ DOMAIN d.comps = 1..Len(d.comps) /\ IsSeq(d.comps)
      /\ Len(d.conns) \in Nat /\ DOMAIN d.conns = 1..Len(d.conns)
  BY DocumentFacts
<1>3. at \in SUBSET (1..Len(d.comps)) /\ on \in SUBSET (1..Len(d.conns)) BY <1>2
<1>4. /\ at \in SUBSET DOMAIN d.comps
      /\ \A c \in DOMAIN d.comps : d.comps[c].id # id => c \in at
      /\ \A i \in on : i \in DOMAIN d.conns /\ d.conns[i].comp # id
  OBVIOUS
<1> HIDE DEF at, on
<1>5. /\ IdsApart(comps)
      /\ \A c \in at : \E k \in DOMAIN comps : comps[k] = d.comps[c]
  BY <1>2, <1>3, <1>4, PickedApart, PickedFacts DEF Whole
<1>6. \A k \in DOMAIN conns : \E i \in on : conns[k] = d.conns[i]
  BY <1>2, <1>3, PickedFacts
<1> HIDE DEF comps, conns
<1>7. \A x \in Ids(d.comps) : x # id => x \in Ids(comps) BY <1>4, <1>5 DEF Ids
<1>8. Whole(e) BY <1>1, <1>5 DEF Whole
<1>9. ASSUME NEW k \in DOMAIN conns
      PROVE  \E i \in DOMAIN d.conns :
                /\ conns[k] = d.conns[i] /\ d.conns[i].comp # id
                /\ Refers(d, d.conns[i]) => Refers(e, conns[k])
  <2>1. PICK i \in on : conns[k] = d.conns[i] BY <1>6
  <2>2. i \in DOMAIN d.conns /\ d.conns[i].comp # id BY <1>4
  <2>3. Refers(d, d.conns[i]) => Refers(e, conns[k]) BY <1>1, <1>7, <2>1, <2>2 DEF Refers
  <2> QED BY <2>1, <2>2, <2>3
<1> QED BY <1>1, <1>8, <1>9 DEF e

LEMMA SetConnectionWhole ==
    ASSUME NEW d, IsDocument(d), Whole(d), NEW comp, NEW role, NEW target
    PROVE  LET e == SetConnection(d, comp, role, target) IN
             /\ Whole(e)
             /\ \A c : Refers(e, c) <=> Refers(d, c)
             /\ \A i \in DOMAIN e.conns :
                   \/ Key(e.conns[i]) = <<comp, role>>
                   \/ i \in DOMAIN d.conns /\ e.conns[i] = d.conns[i]
<1> DEFINE those == {i \in DOMAIN d.conns : d.conns[i].comp = comp /\ d.conns[i].role = role}
           new == [comp |-> comp, role |-> role, target |-> target]
           longer == Append(d.conns, new)
           first == Least(those)
           moved == [d.conns EXCEPT ![first].target = target]
           e == SetConnection(d, comp, role, target)
           Right(conns) ==
              \A i \in DOMAIN conns :
                 Key(conns[i]) = <<comp, role>> \/ (i \in DOMAIN d.conns /\ conns[i] = d.conns[i])
<1>1. /\ Len(d.conns) \in Nat /\ DOMAIN d.conns = 1..Len(d.conns) /\ IsSeq(d.conns)
      /\ \A i \in DOMAIN d.conns : IsConn(d.conns[i])
  BY DocumentFacts
<1>2. ASSUME those = {}
      PROVE  Right(longer) /\ e = [d EXCEPT !.conns = longer]
  <2>1. e = [d EXCEPT !.conns = longer] BY <1>2 DEF SetConnection
  <2>2. Key(new) = <<comp, role>> BY DEF Key
  <2> HIDE DEF new, e
  <2>3. /\ DOMAIN longer = 1..(Len(d.conns) + 1)
        /\ \A k \in 1..Len(d.conns) : longer[k] = d.conns[k]
        /\ longer[Len(d.conns) + 1] = new
    BY <1>1, AppendFacts
  <2> HIDE DEF longer
  <2>4. \A i \in DOMAIN longer : i \in DOMAIN d.conns \/ i = Len(d.conns) + 1 BY <1>1, <2>3
  <2>5. ASSUME NEW i \in DOMAIN longer
        PROVE  Key(longer[i]) = <<comp, role>> \/ (i \in DOMAIN d.conns /\ longer[i] = d.conns[i])
    <3>1. CASE i \in DOMAIN d.conns BY <1>1, <2>3, <3>1
    <3>2. CASE i = Len(d.conns) + 1
      <4>1. longer[i] = new BY <2>3, <3>2
      <4> QED BY <2>2, <4>1
    <3> QED BY <2>4, <3>1, <3>2
  <2>6. Right(longer) BY <2>5
  <2> QED BY <2>1, <2>6
<1>3. ASSUME those # {}
      PROVE  Right(moved) /\ e = [d EXCEPT !.conns = moved]
  <2>1. e = [d EXCEPT !.conns = moved]
    <3>1. e = [d EXCEPT !.conns[first].target = target] BY <1>3 DEF SetConnection
    <3> HIDE DEF e, first
    <3> QED BY <3>1
  <2>2. first \in those
    <3>1. those \in SUBSET Nat BY <1>1
    <3> HIDE DEF those
    <3> QED BY <1>3, <3>1, LeastIsIn
  <2>3. first \in DOMAIN d.conns /\ d.conns[first].comp = comp /\ d.conns[first].role = role
    <3> HIDE DEF first
    <3> QED BY <2>2
  <2> HIDE DEF first, e
  <2>4. ASSUME NEW i \in DOMAIN d.conns
        PROVE  Key(moved[i]) = <<comp, role>> \/ moved[i] = d.conns[i]
    <3>1. IsConn(d.conns[i]) BY <1>1
    <3>2. \/ moved[i] = d.conns[i]
          \/ /\ i = first
             /\ moved[i] = [comp |-> d.conns[i].comp, role |-> d.conns[i].role, target |-> target]
      BY <3>1 DEF IsConn
    <3> HIDE DEF moved
    <3> QED BY <2>3, <3>2 DEF Key
  <2>5. DOMAIN moved = DOMAIN d.conns OBVIOUS
  <2> HIDE DEF moved
  <2>6. Right(moved) BY <2>4, <2>5
  <2> QED BY <2>1, <2>6
<1> HIDE DEF those, longer, moved, e, Right
<1>4. \E conns : Right(conns) /\ e = [d EXCEPT !.conns = conns]
  <2>1. CASE those = {} BY <1>2, <2>1
  <2>2. CASE those # {} BY <1>3, <2>2
  <2> QED BY <2>1, <2>2
<1>4a. PICK conns : Right(conns) /\ e = [d EXCEPT !.conns = conns] BY <1>4
<1>5. e.comps = d.comps /\ e.buses = d.buses /\ e.conns = conns BY <1>4a, DocumentFacts
<1>6. Right(e.conns) BY <1>4a, <1>5
<1>7. Whole(e) BY <1>5 DEF Whole
<1>8. \A c : Refers(e, c) <=> Refers(d, c) BY <1>5 DEF Refers
<1> QED BY <1>6, <1>7, <1>8 DEF e, Right

\* What a handler calls its part tells what the peripheral is handled as; and
\* one that has lines has a bus.
HandledOf ==
    [onboard_button |-> "button", onboard_led |-> "led", onboard_ir |-> "ir_tx",
     onboard_battery |-> "battery_adc", onboard_oled |-> "oled_ssd1306",
     onboard_imu |-> "imu_mpu6886", onboard_lora |-> "lora_sx1276",
     onboard_display |-> "display_st7789", onboard_gps |-> "gps_", onboard_mic |-> "pdm_mic"]

LEMMA HandlersNamed ==
    ASSUME NEW p, IsHandled(p)
    PROVE  /\ HandledAs(p.key) = HandledOf[HandlerOf(p).id[1]]
           /\ \/ HandlerOf(p).bus \in DOMAIN BusStem
              \/ HandlerOf(p).bus = None /\ DOMAIN HandlerOf(p).lines = {}
<1> DEFINE Right(key, h) ==
             /\ HandledAs(key) = HandledOf[h.id[1]]
             /\ (h.bus \in DOMAIN BusStem) \/ (h.bus = None /\ DOMAIN h.lines = {})
<1>0. /\ DOMAIN BusStem = {"i2c", "spi", "uart", "1wire", "i2s"} BY DEF BusStem
<1>1. CASE p.key \in Microphones
  <2>1. HandlerOf(p) = Microphone(p.pins) BY <1>1 DEF HandlerOf
  <2>2. HandledAs(p.key) = "pdm_mic" BY <1>1 DEF Microphones, HandledAs
  <2>3. /\ Microphone(p.pins).id = <<"onboard_mic", 0>>
        /\ Microphone(p.pins).bus = None /\ Microphone(p.pins).lines = <<>>
    BY DEF Microphone, Handler
  <2> QED BY <2>1, <2>2, <2>3 DEF HandledOf
<1>2. CASE p.key \notin Microphones
  <2>1. HandlerOf(p) = Handlers[p.key] /\ p.key \in DOMAIN Handlers
    BY <1>2 DEF HandlerOf, IsHandled
  <2>2. ASSUME NEW id, NEW lib, NEW role
        PROVE  LET h == OnPin(id, lib, role) IN
                 h.id[1] = id /\ h.bus = None /\ DOMAIN h.lines = {}
    BY DEF OnPin, Handler
  <2>3. ASSUME NEW id, NEW lib, NEW supply, NEW needs, NEW bus, NEW lines, NEW pins
        PROVE  LET h == Handler(id, lib, supply, needs, bus, lines, pins) IN
                 h.id[1] = id /\ h.bus = bus
    BY DEF Handler
  <2>4. /\ Handlers.button = OnPin("onboard_button", "gpio_input", "IN")
        /\ Handlers.boot_button = OnPin("onboard_button", "gpio_input", "IN")
        /\ Handlers.led = OnPin("onboard_led", "gpio_output", "OUT")
        /\ Handlers.ir_tx = OnPin("onboard_ir", "remote_transmitter", "IR")
        /\ Handlers.battery_adc = OnPin("onboard_battery", "adc", "IN")
    BY DEF Handlers
  <2>5. /\ Right("button", Handlers.button) /\ Right("boot_button", Handlers.boot_button)
        /\ Right("led", Handlers.led)
        /\ Right("ir_tx", Handlers.ir_tx) /\ Right("battery_adc", Handlers.battery_adc)
    BY <2>2, <2>4 DEF HandledAs, HandledOf
  <2>6. Right("led_", Handlers.led_)
    <3> DEFINE on == OnPin("onboard_led", "esp32_rmt_led_strip", "DIN")
    <3>1. on.id[1] = "onboard_led" /\ on.bus = None /\ DOMAIN on.lines = {} BY <2>2
    <3>2. Handlers.led_ = [on EXCEPT !.supply = "5V"] BY DEF Handlers
    <3>3. /\ [on EXCEPT !.supply = "5V"].lines = on.lines /\ [on EXCEPT !.supply = "5V"].bus = on.bus
          /\ [on EXCEPT !.supply = "5V"].id = on.id
      BY DEF OnPin, Handler
    <3> HIDE DEF on
    <3> QED BY <3>1, <3>2, <3>3 DEF HandledAs, HandledOf
  <2>7. Right("oled_ssd1306", Handlers.oled_ssd1306) /\ Right("imu_mpu6886", Handlers.imu_mpu6886)
    <3>1. Handlers.oled_ssd1306.id[1] = "onboard_oled" /\ Handlers.oled_ssd1306.bus = "i2c"
      BY <2>3 DEF Handlers
    <3>2. Handlers.imu_mpu6886.id[1] = "onboard_imu" /\ Handlers.imu_mpu6886.bus = "i2c"
      BY <2>3 DEF Handlers
    <3> QED BY <1>0, <3>1, <3>2 DEF HandledAs, HandledOf
  <2>8. /\ Right("lora_sx1276", Handlers.lora_sx1276) /\ Right("display_st7789", Handlers.display_st7789)
        /\ Right("gps_", Handlers.gps_)
    <3>1. Handlers.lora_sx1276.id[1] = "onboard_lora" /\ Handlers.lora_sx1276.bus = "spi"
      BY <2>3 DEF Handlers
    <3>2. Handlers.display_st7789.id[1] = "onboard_display" /\ Handlers.display_st7789.bus = "spi"
      BY <2>3 DEF Handlers
    <3>3. Handlers.gps_.id[1] = "onboard_gps" /\ Handlers.gps_.bus = "uart" BY <2>3 DEF Handlers
    <3> QED BY <1>0, <3>1, <3>2, <3>3 DEF HandledAs, HandledOf
  <2>9. DOMAIN Handlers = {"button", "boot_button", "led", "led_", "ir_tx", "battery_adc",
                           "oled_ssd1306", "imu_mpu6886", "lora_sx1276", "display_st7789", "gps_"}
    BY DEF Handlers
  <2> HIDE DEF Right
  <2>10. Right(p.key, Handlers[p.key]) BY <2>1, <2>5, <2>6, <2>7, <2>8, <2>9
  <2>11. Right(p.key, HandlerOf(p)) BY <2>1, <2>10
  <2> QED BY <2>11 DEF Right
<1> QED BY <1>1, <1>2

\* One peripheral: its part is put in under its handler's name, on its bus.
LEMMA PeripheralWhole ==
    ASSUME NEW d, IsDocument(d), Whole(d), NEW p,
           IsHandled(p) => HandlerOf(p).id \notin Ids(d.comps)
    PROVE  LET e == SeedPeripheral(d, p) IN
             /\ IsDocument(e) /\ Whole(e) /\ Linked(d, e)
             /\ \A id \in Ids(e.comps) : id \in Ids(d.comps) \/ (IsHandled(p) /\ id = HandlerOf(p).id)
<1> DEFINE h == HandlerOf(p)
           bus == PeripheralBus(Board(d), p, h.bus)
           Told(s) == [s EXCEPT !.warnings = @ \cup {Unmappable(p.key)}]
           bused == IF h.bus = None \/ bus.id \in Ids(d.buses) THEN d
                    ELSE [d EXCEPT !.buses = Append(@, bus)]
           more == HandlerWires(h, bus, p.pins)
           part == Bare(h.id, h.lib)
           full == [bused EXCEPT !.comps = Append(@, part), !.conns = @ \o more]
           e == SeedPeripheral(d, p)
           Goal == /\ IsDocument(e) /\ Whole(e) /\ Linked(d, e)
                   /\ \A id \in Ids(e.comps) :
                         id \in Ids(d.comps) \/ (IsHandled(p) /\ id = HandlerOf(p).id)
<1>0. IsDocument(e) BY PeripheralUnmoved DEF Unmoved
<1>1. \/ e = Told(d)
      \/ IsHandled(p) /\ e = Told(bused)
      \/ IsHandled(p) /\ e = full
  <2>1. SeedPeripheral(d, p) =
           IF ~IsHandled(p) THEN Told(d)
           ELSE IF ~(h.needs \subseteq DOMAIN p.pins) THEN Told(d)
           ELSE IF h.bus # None /\ bus.pins = <<>> THEN Told(d)
           ELSE IF h.lib \notin DOMAIN Parts THEN Told(bused)
           ELSE full
    BY DEF SeedPeripheral
  <2> HIDE DEF full, Told, h, bus, bused
  <2> QED BY <2>1
<1> HIDE DEF e
<1>2. ASSUME NEW s, IsDocument(s), Whole(s)
      PROVE  Whole(Told(s)) /\ Linked(s, Told(s)) /\ Told(s).comps = s.comps
  <2> DEFINE t == Told(s)
  <2>1. t.comps = s.comps /\ t.buses = s.buses /\ t.conns = s.conns BY <1>2 DEF IsDocument
  <2> HIDE DEF t
  <2>2. Whole(t) /\ Linked(s, t) BY <1>2, <2>1, FieldWhole
  <2> QED BY <2>1, <2>2 DEF t
<1>3. ASSUME e = Told(d) PROVE Goal
  <2> HIDE DEF Told
  <2> QED BY <1>0, <1>2, <1>3
<1>4. ASSUME IsHandled(p)
      PROVE  /\ IsDocument(bused) /\ Whole(bused) /\ Linked(d, bused)
             /\ bused.comps = d.comps /\ bused.conns = d.conns
             /\ DOMAIN h.lines # {} => bus.id \in Ids(bused.buses)
  <2>1. \/ h.bus \in DOMAIN BusStem
        \/ h.bus = None /\ DOMAIN h.lines = {}
    BY <1>4, HandlersNamed
  <2> HIDE DEF h
  <2>2. CASE h.bus = None \/ bus.id \in Ids(d.buses)
    <3>1. bused = d BY <2>2
    <3>2. Linked(d, d) BY DEF Linked
    <3>3. DOMAIN h.lines # {} => bus.id \in Ids(d.buses)
      <4>1. None \notin DOMAIN BusStem BY SessionAssumption
      <4> HIDE DEF bus
      <4> QED BY <2>1, <2>2, <4>1
    <3> HIDE DEF bused, bus
    <3> QED BY <3>1, <3>2, <3>3
  <2>3. CASE ~(h.bus = None \/ bus.id \in Ids(d.buses))
    <3>1. h.bus \in DOMAIN BusStem BY <2>1, <2>3
    <3>2. IsBus(bus) /\ bus.type \in DOMAIN BusStem /\ bus.id \notin ReservedBusIds
      <4>1. IsBus(bus) BY DEF PeripheralBus, IsBus
      <4>2. DOMAIN BusStem = {"i2c", "spi", "uart", "1wire", "i2s"} BY DEF BusStem
      <4>3. CASE p.key = "gps_"
        <5>1. bus.type = "uart" /\ bus.id = <<"gps_uart", 0>> BY <4>3 DEF PeripheralBus
        <5>2. <<"gps_uart", 0>> \notin ReservedBusIds BY DEF ReservedBusIds
        <5> HIDE DEF bus
        <5> QED BY <4>1, <4>2, <5>1, <5>2
      <4>4. CASE p.key # "gps_" /\ p.key = "imu_mpu6886" /\ {"sda", "scl"} \subseteq DOMAIN p.pins
        <5>1. bus.type = "i2c" /\ bus.id = <<"i2c_imu", 0>> BY <4>4 DEF PeripheralBus
        <5>2. <<"i2c_imu", 0>> \notin ReservedBusIds BY DEF ReservedBusIds
        <5> HIDE DEF bus
        <5> QED BY <4>1, <4>2, <5>1, <5>2
      <4>5. CASE p.key # "gps_" /\ ~(p.key = "imu_mpu6886" /\ {"sda", "scl"} \subseteq DOMAIN p.pins)
        <5>1. bus.type = h.bus /\ bus.id = <<BusStem[h.bus], 0>> BY <4>5 DEF PeripheralBus
        <5>2. Stem(bus.id) = BusStem[h.bus] BY <5>1 DEF Stem
        <5> HIDE DEF bus
        <5>3. bus.id \notin ReservedBusIds BY <3>1, <5>2, StemsAreFree
        <5> QED BY <3>1, <4>1, <5>1, <5>3
      <4> QED BY <4>3, <4>4, <4>5
    <3> DEFINE b == [d EXCEPT !.buses = Append(@, bus)]
    <3>3. bused = b BY <2>3
    <3>4. bus.id \notin Ids(d.buses) BY <2>3
    <3> HIDE DEF bus
    <3>5. Whole(b) /\ Linked(d, b) /\ b.conns = d.conns BY <3>2, <3>4, AddBusWhole
    <3>6. b.comps = d.comps /\ b.buses = Append(d.buses, bus) BY DocumentFacts
    <3>7. IsDocument(b) /\ bus.id \in Ids(Append(d.buses, bus))
      <4> DEFINE buses == Append(d.buses, bus)
      <4>1. /\ Len(d.buses) \in Nat /\ DOMAIN d.buses = 1..Len(d.buses) /\ IsSeq(d.buses)
            /\ \A k \in DOMAIN d.buses : IsBus(d.buses[k])
        BY DocumentFacts
      <4>2. /\ IsSeq(buses) /\ DOMAIN buses = 1..(Len(d.buses) + 1)
            /\ \A k \in 1..Len(d.buses) : buses[k] = d.buses[k]
            /\ buses[Len(d.buses) + 1] = bus
        BY <4>1, AppendFacts
      <4>3. b = [d EXCEPT !.buses = buses] OBVIOUS
      <4> HIDE DEF buses, b
      <4>4. ASSUME NEW k \in DOMAIN buses PROVE IsBus(buses[k])
        <5>1. k \in 1..Len(d.buses) \/ k = Len(d.buses) + 1 BY <4>1, <4>2
        <5> QED BY <3>2, <4>1, <4>2, <5>1
      <4>5. IsDocument(b) BY <4>2, <4>3, <4>4, NewBuses
      <4>6. Len(d.buses) + 1 \in DOMAIN buses BY <4>1, <4>2
      <4>7. bus.id \in Ids(buses) BY <4>2, <4>6 DEF Ids
      <4> QED BY <4>5, <4>7 DEF buses
    <3> HIDE DEF b, bused
    <3> QED BY <3>3, <3>5, <3>6, <3>7
  <2> HIDE DEF bused, bus
  <2> QED BY <2>2, <2>3
<1> HIDE DEF bused
<1>5. ASSUME IsHandled(p), e = Told(bused) PROVE Goal
  <2> HIDE DEF Told
  <2>1. Whole(e) /\ Linked(bused, e) /\ e.comps = d.comps BY <1>2, <1>4, <1>5
  <2>2. Linked(d, e) BY <1>4, <1>5, <2>1, LinkedTwice
  <2> QED BY <1>0, <2>1, <2>2
<1>6. ASSUME IsHandled(p), e = full PROVE Goal
  <2>1. /\ IsSeq(d.comps) /\ Len(d.comps) \in Nat /\ DOMAIN d.comps = 1..Len(d.comps)
        /\ IsSeq(d.conns) /\ IdsApart(d.comps) /\ BusesWhole(bused.buses)
    BY <1>4, <1>6, DocumentFacts DEF Whole
  <2> DEFINE comps == Append(d.comps, part)
             conns == d.conns \o more
  <2>2. e.comps = comps /\ e.conns = conns /\ e.buses = bused.buses
    <3>1. {"comps", "buses", "conns"} \subseteq DOMAIN bused BY <1>4, <1>6, DocumentFacts
    <3> HIDE DEF more, part
    <3>2. /\ e.comps = Append(bused.comps, part) /\ e.conns = bused.conns \o more
          /\ e.buses = bused.buses
      BY <1>6, <3>1
    <3> QED BY <1>4, <1>6, <3>2
  <2>3. part.id = h.id BY DEF Bare
  <2>4. /\ IsSeq(more)
        /\ \A i \in DOMAIN more : IsWire(h, bus, more[i])
    <3>1. IsSeq(h.lines) /\ IsSeq(h.pins) BY <1>6, HandlersList
    <3> HIDE DEF h, bus
    <3> QED BY <3>1, WiresAre
  <2> HIDE DEF more, part, full
  <2>5. IdsApart(comps) /\ Ids(comps) = Ids(d.comps) \cup {h.id}
    <3>1. /\ IsSeq(comps) /\ Len(comps) = Len(d.comps) + 1
          /\ \A k \in DOMAIN d.comps : comps[k] = d.comps[k]
          /\ comps[Len(d.comps) + 1] = part
      BY <2>1, AppendFacts
    <3> HIDE DEF comps
    <3>2. h.id \notin Ids(d.comps) BY <1>6
    <3> HIDE DEF h
    <3>3. comps[Len(d.comps) + 1].id \notin Ids(d.comps) BY <2>3, <3>1, <3>2
    <3>4. IdsApart(comps) /\ Ids(comps) = Ids(d.comps) \cup {comps[Len(d.comps) + 1].id}
      BY ONLY <2>1, <3>1, <3>3, OneMoreApart
    <3> QED BY <2>3, <3>1, <3>4
  <2>6. /\ \A k \in DOMAIN d.conns : k \in DOMAIN conns /\ conns[k] = d.conns[k]
        /\ \A i \in DOMAIN conns : i \in DOMAIN d.conns \/ \E k \in DOMAIN more : conns[i] = more[k]
    <3> DEFINE m == Len(d.conns)
               n == Len(more)
    <3>1. m \in Nat /\ DOMAIN d.conns = 1..m /\ n \in Nat /\ DOMAIN more = 1..n
      BY <2>1, <2>4, SeqFacts
    <3>2. DOMAIN conns = 1..(m + n) BY <2>1, <2>4, ConcatFacts
    <3>3. \A k \in 1..m : conns[k] = d.conns[k] BY <2>1, <2>4, ConcatFacts
    <3>4. \A k \in 1..n : conns[m + k] = more[k] BY <2>1, <2>4, ConcatFacts
    <3> HIDE DEF m, n, conns
    <3>5. ASSUME NEW i \in DOMAIN conns, i \notin DOMAIN d.conns
          PROVE  \E k \in DOMAIN more : conns[i] = more[k]
      <4>1. i - m \in 1..n /\ i = m + (i - m) BY <3>1, <3>2, <3>5
      <4> QED BY <3>1, <3>4, <4>1
    <3>6. \A k \in DOMAIN d.conns : k \in DOMAIN conns /\ conns[k] = d.conns[k]
      BY <3>1, <3>2, <3>3, PastTheEnd
    <3> QED BY <3>5, <3>6
  <2> HIDE DEF comps, conns
  <2>7. Whole(e) BY <2>1, <2>2, <2>5 DEF Whole
  <2>8. ASSUME NEW i \in DOMAIN d.conns, Refers(d, d.conns[i]) PROVE Refers(e, e.conns[i])
    <3>1. Refers(bused, d.conns[i]) BY <1>4, <1>6, <2>8 DEF Linked
    <3> QED BY <1>4, <1>6, <2>2, <2>5, <2>6, <3>1 DEF Refers
  <2>9. ASSUME NEW k \in DOMAIN more PROVE Refers(e, more[k])
    <3>1. more[k].comp = h.id /\ more[k].comp \in Ids(e.comps) BY <2>2, <2>4, <2>5 DEF IsWire
    <3>2. more[k].target.kind = "bus" => more[k].target.to \in Ids(e.buses)
      BY <1>4, <1>6, <2>2, <2>4 DEF IsWire
    <3> QED BY <3>1, <3>2 DEF Refers
  <2>10. Linked(d, e)
    <3>1. \A i \in DOMAIN d.conns : i \in DOMAIN e.conns BY <2>2, <2>6
    <3>2. \A i \in DOMAIN e.conns \ DOMAIN d.conns : Refers(e, e.conns[i]) BY <2>2, <2>6, <2>9
    <3> QED BY <2>8, <3>1, <3>2 DEF Linked
  <2> QED BY <1>0, <1>6, <2>2, <2>5, <2>7, <2>10
<1> HIDE DEF Told, full, Goal
<1>7. Goal BY <1>1, <1>3, <1>5, <1>6
<1> QED BY <1>7 DEF Goal, e

\* The part a peripheral of the board becomes.
PartsOf(those, n) == {HandlerOf(those[k]).id : k \in {m \in 1..n : IsHandled(those[m])}}

\* A board's peripherals are put in one by one, each under a name of its own.
LEMMA OnboardWhole ==
    ASSUME NEW d, IsDocument(d), d.comps = <<>>, d.buses = <<>>,
           IsSeq(Peripherals(d.board))
    PROVE  Whole(SeedOnboard(d)) /\ Linked(d, SeedOnboard(d))
<1> DEFINE those == Peripherals(d.board)
           N == Len(those)
           Fits(g, n) == g = [k \in 0..n |-> IF k = 0 THEN d ELSE SeedPeripheral(g[k - 1], those[k])]
           fit == {n \in 0..N : \E g : Fits(g, n)}
           runs == CHOOSE g : Fits(g, N)
<1>0. N \in Nat /\ DOMAIN those = 1..N BY SeqFacts
<1>a. \A j, k \in DOMAIN those : HandledAs(those[j].key) = HandledAs(those[k].key) => j = k
  <2>1. CASE d.board \in DOMAIN Onboard BY <2>1, OnboardAssumption DEF Peripherals
  <2>2. CASE d.board \notin DOMAIN Onboard
    <3>1. those = <<>> BY <2>2 DEF Peripherals
    <3> QED BY <3>1
  <2> QED BY <2>1, <2>2
<1> HIDE DEF those
<1>1. 0 \in fit
  <2> DEFINE g == [k \in 0..0 |-> d]
  <2>1. Fits(g, 0) OBVIOUS
  <2> HIDE DEF Fits, g
  <2> QED BY <1>0, <2>1
<1>2. ASSUME NEW n \in 1..N, n - 1 \in fit PROVE n \in fit
  <2>1. PICK g : Fits(g, n - 1) BY <1>2
  <2> DEFINE f == [k \in 0..n |-> IF k = n THEN SeedPeripheral(g[n - 1], those[n]) ELSE g[k]]
  <2>2. Fits(f, n) BY <2>1
  <2> HIDE DEF Fits, f
  <2> QED BY <1>0, <2>2
<1>3. N \in fit
  <2> HIDE DEF fit
  <2>1. 0..N \subseteq fit BY <1>0, <1>1, <1>2, Climbs
  <2> QED BY <1>0, <2>1
<1>4. Fits(runs, N) BY <1>3
<1>5. SeedOnboard(d) = runs[N] BY DEF SeedOnboard, those
<1> HIDE DEF runs
<1>6. runs[0] = d /\ \A n \in 1..N : runs[n] = SeedPeripheral(runs[n - 1], those[n])
  BY <1>0, <1>4
<1> DEFINE Fine(e, n) == /\ IsDocument(e) /\ Whole(e) /\ Linked(d, e)
                         /\ Ids(e.comps) \subseteq PartsOf(those, n)
           fine == {n \in 0..N : Fine(runs[n], n)}
<1>7. Fine(d, 0)
  <2>1. Ids(d.comps) = {} /\ Ids(d.buses) = {} BY DEF Ids
  <2>2. Whole(d) BY <2>1 DEF Whole, BusesWhole, Typed, IdsApart
  <2>3. Linked(d, d) BY DEF Linked
  <2> QED BY <2>1, <2>2, <2>3
<1>8. ASSUME NEW n \in 1..N, NEW e, Fine(e, n - 1)
      PROVE  Fine(SeedPeripheral(e, those[n]), n)
  <2> DEFINE p == those[n]
             f == SeedPeripheral(e, p)
  <2>1. IsHandled(p) => HandlerOf(p).id \notin Ids(e.comps)
    <3> SUFFICES ASSUME IsHandled(p), HandlerOf(p).id \in Ids(e.comps) PROVE FALSE
      OBVIOUS
    <3>1. PICK k \in 1..(n - 1) : IsHandled(those[k]) /\ HandlerOf(those[k]).id = HandlerOf(p).id
      BY <1>8 DEF PartsOf
    <3>2. HandledAs(those[k].key) = HandledAs(p.key) BY <3>1, HandlersNamed
    <3>3. k \in DOMAIN those /\ n \in DOMAIN those /\ k # n BY <1>0
    <3> QED BY <1>a, <3>2, <3>3
  <2> HIDE DEF p
  <2>2. /\ IsDocument(f) /\ Whole(f) /\ Linked(e, f)
        /\ \A id \in Ids(f.comps) : id \in Ids(e.comps) \/ (IsHandled(p) /\ id = HandlerOf(p).id)
    BY <1>8, <2>1, PeripheralWhole
  <2> HIDE DEF f
  <2>3. Linked(d, f) BY <1>8, <2>2, LinkedTwice
  <2>4. PartsOf(those, n - 1) \subseteq PartsOf(those, n) BY DEF PartsOf
  <2>5. IsHandled(p) => HandlerOf(p).id \in PartsOf(those, n) BY DEF PartsOf, p
  <2>6. Ids(f.comps) \subseteq PartsOf(those, n) BY <1>8, <2>2, <2>4, <2>5
  <2> QED BY <2>2, <2>3, <2>6 DEF f, p
<1> HIDE DEF Fine
<1>9. 0 \in fine BY <1>0, <1>6, <1>7
<1>10. ASSUME NEW n \in 1..N, n - 1 \in fine PROVE n \in fine
  <2>1. Fine(runs[n - 1], n - 1) /\ runs[n] = SeedPeripheral(runs[n - 1], those[n])
    BY <1>6, <1>10
  <2>2. Fine(runs[n], n) BY <1>8, <2>1
  <2>3. n \in 0..N BY <1>0
  <2> QED BY <2>2, <2>3
<1>11. 0..N \subseteq fine
  <2> HIDE DEF fine
  <2> QED BY <1>0, <1>9, <1>10, Climbs
<1>12. Fine(runs[N], N) BY <1>0, <1>11
<1> QED BY <1>5, <1>12 DEF Fine

-----------------------------------------------------------------------------
(* The session keeps its references.                                       *)

\* But for what was set by hand, every reference holds.
RefsKept ==
    /\ Whole(design)
    /\ \A i \in DOMAIN design.conns : ~ByHand(i) => Refers(design, design.conns[i])

LEMMA LinkedKeeps ==
    ASSUME RefsKept, Whole(design'), Linked(design, design'),
           \A i \in DOMAIN design.conns : ByHand(i) => Key(design'.conns[i]) \in hand'
    PROVE  RefsKept'
<1>1. ASSUME NEW i \in DOMAIN design'.conns, Key(design'.conns[i]) \notin hand'
      PROVE  Refers(design', design'.conns[i])
  <2>1. CASE i \in DOMAIN design.conns
    <3>1. ~ByHand(i) BY <1>1, <2>1
    <3>2. Refers(design, design.conns[i]) BY <2>1, <3>1 DEF RefsKept
    <3> QED BY <2>1, <3>2 DEF Linked
  <2>2. CASE i \notin DOMAIN design.conns BY <1>1, <2>2 DEF Linked
  <2> QED BY <2>1, <2>2
<1> QED BY <1>1 DEF RefsKept, ByHand

\* Where the connections keep their names, so do those set by hand.
LEMMA SameNamesKeep ==
    ASSUME RefsKept, Whole(design'), Linked(design, design'), hand' = hand,
           \A i \in DOMAIN design.conns : Key(design'.conns[i]) = Key(design.conns[i])
    PROVE  RefsKept'
BY LinkedKeeps DEF ByHand

LEMMA FollowedKeeps ==
    ASSUME RefsKept, Whole(design'), Linked(design, design'), Followed
    PROVE  RefsKept'
<1>1. \A i \in DOMAIN design.conns : ByHand(i) => Key(design'.conns[i]) \in hand' BY DEF Followed
<1> QED BY <1>1, LinkedKeeps

\* A field of the document that holds no part, no bus and no connection.
LEMMA FieldKeeps ==
    ASSUME RefsKept, hand' = hand, design'.comps = design.comps,
           design'.buses = design.buses, design'.conns = design.conns
    PROVE  RefsKept'
<1>1. Whole(design') /\ Linked(design, design')
  <2> DEFINE d == design
             e == design'
  <2>1. Whole(d) BY DEF RefsKept
  <2>2. e.comps = d.comps /\ e.buses = d.buses /\ e.conns = d.conns OBVIOUS
  <2> HIDE DEF d, e
  <2>3. Whole(e) /\ Linked(d, e) BY <2>1, <2>2, FieldWhole
  <2> QED BY <2>3 DEF d, e
<1> QED BY <1>1, SameNamesKeep

LEMMA StartsWhole == Init => RefsKept
<1> SUFFICES ASSUME Init PROVE RefsKept OBVIOUS
<1>1. PICK d \in Documents : design = Repaired(d) BY DEF Init
<1>2. /\ IsDocument(d) /\ IdsApart(d.comps) /\ IdsApart(d.buses) /\ Typed(d.buses)
      /\ Ids(d.comps) \cap Ids(d.buses) \cap ReservedBusIds = {}
      /\ \A i \in DOMAIN d.conns : Refers(d, d.conns[i])
  BY SessionAssumption, DocumentsAssumption DEF Typed
<1>3. Whole(design) /\ Linked(d, design) BY <1>1, <1>2, RepairedWhole
<1> QED BY <1>2, <1>3 DEF RefsKept, Linked

LEMMA RefsStep ==
    ASSUME DocumentRead, RefsKept, Next
    PROVE  RefsKept'
<1>d. IsDocument(design) /\ Whole(design) BY DEF DocumentRead, RefsKept
<1>1. ASSUME NEW board, NEW revision, RunSetBoard(board, revision) PROVE RefsKept'
  <2>1. design' = SetBoard(design, board, revision) /\ hand' = hand BY <1>1 DEF RunSetBoard
  <2>2. /\ design'.comps = design.comps /\ design'.buses = design.buses
        /\ design'.conns = design.conns
    BY <1>d, <2>1 DEF SetBoard, IsDocument
  <2> QED BY <2>1, <2>2, FieldKeeps
<1>2. ASSUME NEW lib \in DOMAIN Parts, NEW hint, RunAddComponent(lib, hint) PROVE RefsKept'
  <2>1. design' = AddComponent(design, lib, hint).design /\ Followed BY <1>2 DEF RunAddComponent
  <2>2. Whole(design') /\ Linked(design, design') BY <1>d, <2>1, AddWhole
  <2> QED BY <2>1, <2>2, FollowedKeeps
<1>3. ASSUME RunSeedOnboard PROVE RefsKept'
  <2>1. /\ design' = SeedOnboard(design) /\ design.conns = <<>>
        /\ design.comps = <<>> /\ design.buses = <<>>
    BY <1>3 DEF RunSeedOnboard
  <2>2. IsSeq(Peripherals(design.board)) BY SessionAssumption, TuplesAre DEF Peripherals
  <2>3. Whole(design') /\ Linked(design, design') BY <1>d, <2>1, <2>2, OnboardWhole
  <2>4. \A i \in DOMAIN design.conns : FALSE BY <2>1
  <2> QED BY <2>3, <2>4, LinkedKeeps
<1>4. ASSUME NEW members \in Modules, RunInsertModule(members) PROVE RefsKept'
  <2>1. design' = InsertModule(design, members) /\ Followed BY <1>4 DEF RunInsertModule
  <2>2. Whole(design') /\ Linked(design, design') BY <1>d, <2>1, InsertWhole
  <2> QED BY <2>1, <2>2, FollowedKeeps
<1>5. ASSUME NEW id, RunRemoveComponent(id) PROVE RefsKept'
  <2>1. design' = RemoveComponent(design, id) /\ hand' = {k \in hand : k[1] # id}
    BY <1>5 DEF RunRemoveComponent
  <2>2. /\ Whole(design')
        /\ \A k \in DOMAIN design'.conns : \E i \in DOMAIN design.conns :
              /\ design'.conns[k] = design.conns[i] /\ design.conns[i].comp # id
              /\ Refers(design, design.conns[i]) => Refers(design', design'.conns[k])
    BY <1>d, <2>1, RemovedWhole
  <2>3. ASSUME NEW k \in DOMAIN design'.conns, Key(design'.conns[k]) \notin hand'
        PROVE  Refers(design', design'.conns[k])
    <3>1. PICK i \in DOMAIN design.conns :
             /\ design'.conns[k] = design.conns[i] /\ design.conns[i].comp # id
             /\ Refers(design, design.conns[i]) => Refers(design', design'.conns[k])
      BY <2>2
    <3>2. Key(design.conns[i])[1] = design.conns[i].comp BY DEF Key
    <3>3. Key(design.conns[i]) \notin hand BY <2>1, <2>3, <3>1, <3>2
    <3> QED BY <3>1, <3>3 DEF RefsKept, ByHand
  <2> QED BY <2>2, <2>3 DEF RefsKept, ByHand
<1>6. ASSUME NEW id, NEW key, NEW present, RunSetParam(id, key, present) PROVE RefsKept'
  <2>1. design' = SetParam(design, id, key, present) /\ hand' = hand BY <1>6 DEF RunSetParam
  <2>2. Whole(design') /\ Linked(design, design') /\ design'.conns = design.conns
    BY <1>d, <2>1, SetParamWhole
  <2> QED BY <2>1, <2>2, SameNamesKeep
<1>7. ASSUME NEW id, NEW part, NEW mpn, RunSetPartOverride(id, part, mpn) PROVE RefsKept'
  <2>1. design' = SetPartOverride(design, id, part, mpn) /\ hand' = hand
    BY <1>7 DEF RunSetPartOverride
  <2> DEFINE overrides == IF mpn = None THEN [k \in DOMAIN design.overrides \ {<<id, part>>} |->
                                                 design.overrides[k]]
                          ELSE <<id, part>> :> mpn @@ design.overrides
  <2>2. design' = [design EXCEPT !.overrides = overrides] BY <2>1 DEF SetPartOverride
  <2> HIDE DEF overrides
  <2>3. /\ design'.comps = design.comps /\ design'.buses = design.buses
        /\ design'.conns = design.conns
    BY <1>d, <2>2 DEF IsDocument
  <2> QED BY <2>1, <2>3, FieldKeeps
<1>8. ASSUME NEW comp, NEW role, NEW target, RunSetConnection(comp, role, target) PROVE RefsKept'
  <2>1. /\ design' = SetConnection(design, comp, role, target)
        /\ hand' = hand \cup {<<comp, role>>}
    BY <1>8 DEF RunSetConnection
  <2>2. /\ Whole(design')
        /\ \A c : Refers(design', c) <=> Refers(design, c)
        /\ \A i \in DOMAIN design'.conns :
              \/ Key(design'.conns[i]) = <<comp, role>>
              \/ i \in DOMAIN design.conns /\ design'.conns[i] = design.conns[i]
    BY <1>d, <2>1, SetConnectionWhole
  <2>3. ASSUME NEW i \in DOMAIN design'.conns, Key(design'.conns[i]) \notin hand'
        PROVE  Refers(design', design'.conns[i])
    <3>1. i \in DOMAIN design.conns /\ design'.conns[i] = design.conns[i] BY <2>1, <2>2, <2>3
    <3>2. Key(design.conns[i]) \notin hand BY <2>1, <2>3, <3>1
    <3>3. Refers(design, design.conns[i]) BY <3>1, <3>2 DEF RefsKept, ByHand
    <3> QED BY <2>2, <3>1, <3>3
  <2> QED BY <2>2, <2>3 DEF RefsKept, ByHand
<1>9. ASSUME NEW enabled, RunSetStrict(enabled) PROVE RefsKept'
  <2>1. design' = [design EXCEPT !.strict = enabled] /\ hand' = hand BY <1>9 DEF RunSetStrict
  <2>2. /\ design'.comps = design.comps /\ design'.buses = design.buses
        /\ design'.conns = design.conns
    BY <1>d, <2>1 DEF IsDocument
  <2> QED BY <2>1, <2>2, FieldKeeps
<1>10. ASSUME NEW id, NEW pins, RunAddBus(id, "i2c", pins) PROVE RefsKept'
  <2> DEFINE bus == NewBus(design, id, "i2c", pins)
  <2>1. /\ CanAddBus(design, bus) /\ hand' = hand
        /\ design' = [design EXCEPT !.buses = Append(@, bus)]
    BY <1>10 DEF RunAddBus
  <2>2. IsBus(bus) /\ bus.type = "i2c" BY DEF NewBus, IsBus
  <2>3. "i2c" \in DOMAIN BusStem BY DEF BusStem
  <2> HIDE DEF bus
  <2>4. bus.id \notin ReservedBusIds \cup Ids(design.buses) BY <2>1 DEF CanAddBus
  <2>5. Whole(design') /\ Linked(design, design') /\ design'.conns = design.conns
    BY <1>d, <2>1, <2>2, <2>3, <2>4, AddBusWhole
  <2> QED BY <2>1, <2>5, SameNamesKeep
<1>11. ASSUME RunSolvePins PROVE RefsKept'
  <2>1. design' = [design EXCEPT !.conns = Solve(design).conns] /\ hand' = hand
    BY <1>11 DEF RunSolvePins
  <2>2. /\ Whole(design') /\ Linked(design, design')
        /\ \A i \in DOMAIN design.conns : Key(design'.conns[i]) = Key(design.conns[i])
    BY <1>d, <2>1, SolveWhole
  <2> QED BY <2>1, <2>2, SameNamesKeep
<1>12. ASSUME Reload PROVE RefsKept'
  <2>1. design' = Repaired(design) /\ Followed BY <1>12 DEF Reload
  <2>2. Whole(design') /\ Linked(design, design')
    BY <1>d, <2>1, RepairedWhole DEF Whole, BusesWhole
  <2> QED BY <2>1, <2>2, FollowedKeeps
<1>13. ASSUME NEW lib \in Offered, NEW hint, RunAddComponent(lib, hint) PROVE RefsKept'
  BY <1>2, <1>13, SessionAssumption
<1> QED BY <1>1, <1>3, <1>4, <1>5, <1>6, <1>7, <1>8, <1>9, <1>10, <1>11, <1>12, <1>13 DEF Next

\* Two parts or two buses never come to one id, and but for what was set by hand
\* every connection has its component and every bus target its bus: whatever tools
\* are called (agent/tools.py), however often the document is loaded and repaired
\* (migrate.py), and whatever the board it is seeded from has on it (designs/seed.py).
THEOREM ReferencesKept == Spec => []ReferencesHold
<1>1. ASSUME DocumentRead, RefsKept, [Next]_vars PROVE RefsKept'
  <2>1. CASE Next BY <1>1, <2>1, RefsStep
  <2>2. CASE UNCHANGED vars BY <1>1, <2>2 DEF vars, RefsKept, ByHand
  <2> QED BY <1>1, <2>1, <2>2
<1>2. DocumentRead /\ RefsKept => ReferencesHold
  <2> SUFFICES ASSUME DocumentRead, RefsKept PROVE ReferencesHold OBVIOUS
  <2>1. /\ IsSeq(design.comps) /\ IdsApart(design.comps)
        /\ IsSeq(design.buses) /\ IdsApart(design.buses)
    BY DocumentFacts DEF DocumentRead, RefsKept, Whole, BusesWhole
  <2>2. /\ Cardinality(Ids(design.comps)) = Len(design.comps)
        /\ Cardinality(Ids(design.buses)) = Len(design.buses)
    BY <2>1, ApartCounts
  <2> QED BY <2>2 DEF ReferencesHold, RefsKept, Refers
<1> QED BY <1>1, <1>2, StartsWhole, DocumentStaysRead, PTL DEF Spec

-----------------------------------------------------------------------------
(* What the check of a drafted part promises the tools.                    *)

\* How the pins of a part under test are wired says what they are.
LEMMA TriedPins ==
    ASSUME NEW lib \in DOMAIN Parts, NEW i \in DOMAIN SyntheticDesign(lib, TRUE).conns
    PROVE  LET c == SyntheticDesign(lib, TRUE).conns[i]
               pins == Parts[lib].pins
           IN /\ c.target.kind \in {"gpio", "rail", "bus"}
              /\ \E k \in DOMAIN pins :
                    /\ c.role = pins[k].role
                    /\ c.target.kind = "gpio" => pins[k].kind \in SignalKinds
                    /\ c.target.kind = "bus" => BusTypeOf(pins[k].kind) # None
<1> DEFINE part == Parts[lib]
           pins == part.pins
           at == {k \in DOMAIN pins : IsTried(pins[k])}
           wired == [k \in DOMAIN pins |->
                       [comp |-> Dut, role |-> pins[k].role, target |-> TriedTarget(part, k, TRUE)]]
           conns == SyntheticDesign(lib, TRUE).conns
<1>1. conns = Picked(wired, at) BY DEF SyntheticDesign, DraftDesign
<1>2. Len(pins) \in Nat /\ DOMAIN pins = 1..Len(pins) BY SessionAssumption, SeqFacts
<1>3. at \in SUBSET (1..Len(pins)) BY <1>2
<1>4. ASSUME NEW k \in at PROVE wired[k] = [comp |-> Dut, role |-> pins[k].role,
                                              target |-> TriedTarget(part, k, TRUE)]
  OBVIOUS
<1>5. ASSUME NEW k \in at PROVE IsTried(pins[k]) /\ k \in DOMAIN pins OBVIOUS
<1>i. i \in DOMAIN conns OBVIOUS
<1> HIDE DEF conns, wired, at
<1>6. PICK k \in at : conns[i] = wired[k]
  <2>1. \A e \in DOMAIN Picked(wired, at) : \E k \in at : Picked(wired, at)[e] = wired[k]
    <3> HIDE DEF pins
    <3> QED BY ONLY <1>2, <1>3, PickedFacts
  <2> QED BY <1>1, <1>i, <2>1
<1>7. conns[i].role = pins[k].role /\ conns[i].target = TriedTarget(part, k, TRUE)
  <2>1. conns[i] = [comp |-> Dut, role |-> pins[k].role, target |-> TriedTarget(part, k, TRUE)]
    BY <1>4, <1>6
  <2> HIDE DEF pins, part
  <2> QED BY <2>1
<1> DEFINE kind == pins[k].kind
           t == TriedTarget(part, k, TRUE)
<1>8. TriedOnPin(pins[k], TRUE) <=> kind \in SignalKinds BY DEF TriedOnPin
<1>9. kind \in SignalKinds \cup {"power", "ground"} \/ BusTypeOf(kind) # None
  BY <1>5 DEF IsTried
<1>10. /\ t.kind \in {"gpio", "rail", "bus"}
       /\ t.kind = "gpio" => kind \in SignalKinds
       /\ t.kind = "bus" => BusTypeOf(kind) # None
  <2>1. CASE kind \in SignalKinds
    <3> DEFINE to == PlainPins(Boards[CheckBoard])[
                        Cardinality({e \in 1..k : TriedOnPin(part.pins[e], TRUE)})]
    <3>0. TriedOnPin(pins[k], TRUE) /\ kind \notin {"power", "ground"}
      BY <1>8, <2>1 DEF SignalKinds
    <3>1. t = Target("gpio", to) BY <3>0, Zenon DEF TriedTarget
    <3> HIDE DEF t, to
    <3>2. t.kind = "gpio" BY <3>1 DEF Target
    <3> QED BY <2>1, <3>2
  <2>2. CASE kind \in {"power", "ground"}
    <3>1. kind \notin SignalKinds BY <2>2 DEF SignalKinds
    <3>2. t.kind = "rail" BY <1>8, <2>2, <3>1 DEF TriedTarget, Target
    <3> QED BY <3>2
  <2>3. CASE kind \notin SignalKinds \cup {"power", "ground"}
    <3>1. t.kind = "bus" BY <1>8, <2>3 DEF TriedTarget, Target
    <3> QED BY <1>9, <2>3, <3>1
  <2> QED BY <2>1, <2>2, <2>3
<1> HIDE DEF t
<1>11. conns[i].target = t BY <1>7 DEF t
<1> QED BY <1>5, <1>7, <1>10, <1>11 DEF conns

\* A part that renders on the buses it is tried on brings all its template reads
\* (library/check.py): add_component keeps a design with it rendering, by ToolsKeep.
THEOREM CheckedParts == CheckedPartsBring
<1> SUFFICES ASSUME NEW lib \in DOMAIN Parts, DraftRenders(lib, TRUE), RolesApart(Parts[lib])
             PROVE  BringsAll(Parts[lib])
  BY DEF CheckedPartsBring
<1> DEFINE part == Parts[lib]
           d == SyntheticDesign(lib, TRUE)
           reads == part.reads
           Comes(i, k) == /\ d.conns[i].role = part.pins[k].role
                          /\ d.conns[i].target.kind = "gpio" => part.pins[k].kind \in SignalKinds
                          /\ d.conns[i].target.kind = "bus" => BusTypeOf(part.pins[k].kind) # None
<1>1. d.comps[1].id = Dut /\ d.comps[1].lib = lib BY DEF SyntheticDesign, DraftDesign, Bare
<1>2. \A i \in DOMAIN d.conns : /\ d.conns[i].target.kind \in {"gpio", "rail", "bus"}
                                 /\ \E k \in DOMAIN part.pins : Comes(i, k)
  BY TriedPins
<1>3. ComponentRenders(d, d.comps[1]) BY DEF DraftRenders
<1> HIDE DEF d
<1>4. /\ "bus" \in reads => LeadsTo(d, Dut, "bus", d.buses) # {}
      /\ "parent" \in reads => LeadsTo(d, Dut, "component", d.comps) # {}
      /\ reads \ {"bus", "parent"} \subseteq PinnedRoles(d, Dut)
  BY <1>1, <1>3 DEF ComponentRenders
<1>5. "parent" \notin reads BY <1>2, <1>4 DEF LeadsTo, ConnsOf
<1>6. ASSUME "bus" \in reads PROVE NeededBusTypes(part) # {}
  <2>1. PICK i \in DOMAIN d.conns : d.conns[i].target.kind = "bus"
    BY <1>4, <1>6 DEF LeadsTo, ConnsOf
  <2>2. PICK k \in DOMAIN part.pins : BusTypeOf(part.pins[k].kind) # None BY <1>2, <2>1
  <2> QED BY <2>2 DEF NeededBusTypes
<1>7. ASSUME NEW role \in reads, role # "bus" PROVE role \in PinRoles(part)
  <2>1. role \in PinnedRoles(d, Dut) BY <1>4, <1>5, <1>7
  <2>2. PICK i \in DOMAIN d.conns :
          d.conns[i].role = role /\ d.conns[i].target.kind \in {"gpio", "expander_pin"}
    BY <2>1 DEF PinnedRoles, ConnsOf
  <2>3. d.conns[i].target.kind = "gpio" BY <1>2, <2>2
  <2>4. PICK k \in DOMAIN part.pins : Comes(i, k) BY <1>2
  <2> DEFINE kind == part.pins[k].kind
  <2>5. part.pins[k].role = role /\ kind \in SignalKinds BY <2>2, <2>3, <2>4
  <2>6. kind \notin {"power", "ground", "passthrough"} /\ BusTypeOf(kind) = None
    BY <2>5 DEF SignalKinds, BusTypeOf
  <2> QED BY <2>5, <2>6 DEF PinRoles
<1> QED BY <1>5, <1>6, <1>7 DEF BringsAll

-----------------------------------------------------------------------------
(* What is left out of a render, and its warnings.                         *)

\* In a design that renders every component is one the library knows.
LEMMA RenderedIsKnown ==
    ASSUME NEW d, IsDocument(d), Renders(d), NEW id \in Ids(d.comps)
    PROVE  Known(d, id)
<1> DEFINE those == {c \in DOMAIN d.comps : d.comps[c].id = id}
           Is(c) == d.comps[c].id = id /\ \A e \in DOMAIN d.comps : d.comps[e].id = id => e <= c
           k == CHOOSE c \in DOMAIN d.comps : Is(c)
<1>1. Len(d.comps) \in Nat /\ DOMAIN d.comps = 1..Len(d.comps) BY DocumentFacts
<1>2. those # {} /\ those \in SUBSET (1..Len(d.comps)) BY <1>1 DEF Ids
<1>3. PICK x \in those : \A y \in those : y <= x
  <2> HIDE DEF those
  <2> QED BY <1>1, <1>2, GreatestIsIn
<1>4. x \in DOMAIN d.comps /\ Is(x) BY <1>3
<1>5. k \in DOMAIN d.comps BY <1>4
<1>6. Named(d.comps, id) = d.comps[k] BY DEF Named
<1> HIDE DEF k
<1> QED BY <1>5, <1>6 DEF Known, Renders

\* A reference nothing is said of serves.
LEMMA QuietServes ==
    ASSUME NEW d, IsDocument(d), Renders(d), NEW comp, NEW serves, Reference(d, comp, serves) = {}
    PROVE  Capable(d, comp) /\ serves
<1>1. comp \in Ids(d.comps) BY DEF Reference
<1>2. Known(d, comp) BY <1>1, RenderedIsKnown
<1> QED BY <1>1, <1>2 DEF Reference, Capable

LEMMA QuietIsLowered ==
    ASSUME NEW d, IsDocument(d), Renders(d), NEW a \in d.automations,
           AutomationWarnings(d, a) = {}, a.actions # <<>>
    PROVE  \E l \in Lowered(d) :
              l.id = a.id /\ l.actions = a.actions /\ l.conditions = a.conditions
<1>1. IsSeq(a.actions) /\ IsSeq(a.conditions) BY DEF IsDocument, IsAutomation
<1>2. Triggers(d, a.trigger)
  <2>1. Reference(d, a.trigger.comp, Triggers(d, a.trigger)) = {}
    BY DEF AutomationWarnings, TriggerWarnings
  <2> QED BY <2>1, QuietServes
<1>3. ASSUME NEW i \in DOMAIN a.conditions PROVE Holds(d, a.conditions[i])
  <2> DEFINE c == a.conditions[i]
  <2>1. c \in ToSet(a.conditions) BY DEF ToSet
  <2>2. Reference(d, c.comp, Holds(d, c)) = {}
    BY <2>1 DEF AutomationWarnings, ConditionWarnings
  <2> HIDE DEF c
  <2> QED BY <2>2, QuietServes DEF c
<1>4. ASSUME NEW i \in DOMAIN a.actions PROVE Acts(d, a.actions[i])
  <2> DEFINE does == a.actions[i]
  <2>1. does \in ToSet(a.actions) BY DEF ToSet
  <2> DEFINE accepts == does.action \in PartOf(d, does.comp).cap.accepts
  <2> HIDE DEF does, accepts
  <2>2. ActionWarnings(d, does) = {} BY <2>1 DEF AutomationWarnings
  <2>5. Reference(d, does.comp, accepts) = {} BY <2>2 DEF ActionWarnings, accepts
  <2>6. Capable(d, does.comp) /\ accepts BY <2>5, QuietServes
  <2>3. Capable(d, does.comp) /\ does.action \in PartOf(d, does.comp).cap.accepts
    BY <2>6 DEF accepts
  <2>7. ~(Capable(d, does.comp) /\ does.song = "unknown") BY <2>2 DEF ActionWarnings
  <2>4. Acts(d, does) BY <2>3, <2>7 DEF Acts
  <2> QED BY <2>4 DEF does
<1>5. \E i \in DOMAIN a.actions : Acts(d, a.actions[i])
  <2>1. Len(a.actions) \in Nat /\ DOMAIN a.actions = 1..Len(a.actions)
        /\ a.actions \in Seq({a.actions[k] : k \in 1..Len(a.actions)})
    BY <1>1, SeqFacts
  <2>2. Len(a.actions) # 0 BY <2>1, EmptySeq
  <2>3. 1 \in DOMAIN a.actions BY <2>1, <2>2
  <2> QED BY <1>4, <2>3
<1> DEFINE l == [id |-> a.id, at |-> a.trigger.comp,
                 actions |-> Picked(a.actions, {i \in DOMAIN a.actions : Acts(d, a.actions[i])}),
                 conditions |-> Picked(a.conditions,
                                       {i \in DOMAIN a.conditions : Holds(d, a.conditions[i])}),
                 range |-> a.trigger.bounds]
<1>6. l \in Lowered(d) BY <1>2, <1>5 DEF Lowered
<1>7. /\ {i \in DOMAIN a.actions : Acts(d, a.actions[i])} = DOMAIN a.actions
      /\ {i \in DOMAIN a.conditions : Holds(d, a.conditions[i])} = DOMAIN a.conditions
  BY <1>3, <1>4
<1>8. l.id = a.id /\ l.actions = a.actions /\ l.conditions = a.conditions
  BY <1>1, <1>7, PickedAll
<1> HIDE DEF l
<1> QED BY <1>6, <1>8

LEMMA DocumentWarns ==
    ASSUME DocumentRead
    PROVE  DroppedIsWarned
<1> SUFFICES ASSUME Renders(design) PROVE DroppedIsWarned BY DEF DroppedIsWarned
<1>1. IsDocument(design) BY DEF DocumentRead
<1>2. ASSUME NEW a \in design.automations, AutomationWarnings(design, a) = {}, a.actions # <<>>
      PROVE  \E l \in {m \in Lowered(design) : m.id = a.id} :
                l.actions = a.actions /\ l.conditions = a.conditions
  <2>1. PICK l \in Lowered(design) :
          l.id = a.id /\ l.actions = a.actions /\ l.conditions = a.conditions
    BY <1>1, <1>2, QuietIsLowered
  <2> QED BY <2>1
<1>3. ASSUME NEW c \in Shows(design) \ Drawn(design),
             "lambda" \notin design.comps[c].params
      PROVE  ShowWarnings(design, c) # {}
  <2>1. Parts[design.comps[c].lib].dialect \notin Dialects BY <1>3 DEF Drawn
  <2> QED BY <2>1 DEF ShowWarnings
<1> QED BY <1>2, <1>3 DEF DroppedIsWarned

\* In a design that renders, what the generator leaves out of an automation that
\* does anything, or of a display, has a warning (yaml_gen.py, intent.py).
THEOREM DroppedWarned == Spec => []DroppedIsWarned
<1>1. Spec => [](DocumentRead => DroppedIsWarned) BY DocumentWarns, PTL
<1> QED BY <1>1, DocumentStaysRead, PTL

-----------------------------------------------------------------------------
(* What the validate tool and set_board promise.                           *)

\* What a board outlives: warnings that are of it, and not of the design on it.
OfTheBoard == {"flash_size_override_ignored", "flash_size_override_above_board",
               "board_revision_unknown"}

\* None of what is said of automations and displays is of the board.
LEMMA BlocksTell ==
    ASSUME NEW d, NEW a, NEW c
    PROVE  AutomationWarnings(d, a) \cap OfTheBoard = {} /\ ShowWarnings(d, c) \cap OfTheBoard = {}
<1>1. ASSUME NEW comp, NEW serves PROVE Reference(d, comp, serves) \cap OfTheBoard = {}
  BY DEF Reference, OfTheBoard
<1>2. TriggerWarnings(d, a.trigger) \cap OfTheBoard = {}
  <2> DEFINE serves == Triggers(d, a.trigger)
  <2> HIDE DEF serves
  <2>1. Reference(d, a.trigger.comp, serves) \cap OfTheBoard = {} BY <1>1
  <2>2. "automation_bounds_require_value_range" \notin OfTheBoard
        /\ "automation_value_range_needs_bounds" \notin OfTheBoard
    BY DEF OfTheBoard
  <2> HIDE DEF OfTheBoard
  <2> QED BY <2>1, <2>2 DEF TriggerWarnings, serves
<1>3. ASSUME NEW h PROVE ConditionWarnings(d, h) \cap OfTheBoard = {}
  <2> DEFINE serves == Holds(d, h)
  <2> HIDE DEF serves
  <2>1. Reference(d, h.comp, serves) \cap OfTheBoard = {} BY <1>1
  <2> QED BY <2>1 DEF ConditionWarnings, serves
<1>4. ASSUME NEW act PROVE ActionWarnings(d, act) \cap OfTheBoard = {}
  <2> DEFINE serves == act.action \in PartOf(d, act.comp).cap.accepts
  <2> HIDE DEF serves
  <2>1. Reference(d, act.comp, serves) \cap OfTheBoard = {} BY <1>1
  <2>2. "automation_unknown_song" \notin OfTheBoard
        /\ "automation_play_needs_song" \notin OfTheBoard
    BY DEF OfTheBoard
  <2> HIDE DEF OfTheBoard
  <2> QED BY <2>1, <2>2 DEF ActionWarnings, serves
<1>5. AutomationWarnings(d, a) \cap OfTheBoard = {}
  <2> HIDE DEF OfTheBoard
  <2> QED BY <1>2, <1>3, <1>4, Zenon DEF AutomationWarnings
<1>6. ShowWarnings(d, c) \cap OfTheBoard = {}
  BY Zenon DEF ShowWarnings, OfTheBoard
<1> QED BY <1>5, <1>6

\* Right after set_board nothing is said of the flash or of the revision.
LEMMA BoardIsTheDesigns ==
    ASSUME NEW d, IsDocument(d), NEW board \in DOMAIN Boards,
           NEW revision \in Boards[board].revisions \cup {None}
    PROVE  Validation(SetBoard(d, board, revision)) \cap OfTheBoard = {}
<1> DEFINE e == SetBoard(d, board, revision)
<1>1. e.board = board /\ e.flash = None /\ e.revision = revision
  BY DEF SetBoard, IsDocument
<1> HIDE DEF e
<1>2. FlashWarnings(e) = {} BY <1>1 DEF FlashWarnings
<1>3. RevisionWarnings(e) \cap OfTheBoard = {}
  BY <1>1 DEF RevisionWarnings, Board, OfTheBoard
<1>4. ASSUME NEW key PROVE OverrideWarning(e, key) \notin OfTheBoard
  BY DEF OverrideWarning, OfTheBoard
<1>5. ASSUME NEW c PROVE NetWarnings(e, c) \cap OfTheBoard = {}
  BY DEF NetWarnings, OfTheBoard
<1>6. "id_is_integration_name" \notin OfTheBoard BY DEF OfTheBoard
<1> HIDE DEF OfTheBoard
<1>7. BoardValidation(e) \cap OfTheBoard = {}
  BY <1>2, <1>3, <1>4, <1>5, <1>6, Zenon DEF BoardValidation
<1>8. Validation(e) \cap OfTheBoard = {} BY <1>7, BlocksTell, Zenon DEF Validation
<1> QED BY <1>8 DEF e

\* What the validate tool finds ok, the API renders.
LEMMA OkRenders ==
    ASSUME NEW d, ValidateTool(d).ok
    PROVE  /\ RenderAnswers(d)
           /\ \/ LorawanRenders(d, <<"uptime">>)
              \/ "board_revision_unknown" \in ValidateTool(d).said
<1>1. Renders(d)
  <2> SUFFICES ASSUME ~Renders(d) PROVE FALSE OBVIOUS
  <2> QED BY DEF ValidateTool
<1>2. d.strict => StrictBlockers(d) = {}
  <2> DEFINE fine == d.strict => StrictBlockers(d) = {}
             said == BoardValidation(d)
  <2>1. ValidateTool(d) = [ok |-> fine, said |-> said] BY <1>1 DEF ValidateTool
  <2> HIDE DEF fine, said
  <2>2. ValidateTool(d).ok = fine BY <2>1
  <2> QED BY <2>2 DEF fine
<1>3. ValidateTool(d).said = BoardValidation(d) BY <1>1 DEF ValidateTool
<1>4. "board_revision_unknown" \notin RevisionWarnings(d) => LorawanRenders(d, <<"uptime">>)
  BY <1>1 DEF Renders, RevisionWarnings, LorawanRenders
<1>5. RevisionWarnings(d) \subseteq BoardValidation(d) BY Zenon DEF BoardValidation
<1> QED BY <1>1, <1>2, <1>3, <1>4, <1>5 DEF RenderAnswers

\* What the validate tool finds ok the API renders, with a LoRaWAN block too where
\* it says nothing of the revision; and set_board leaves nothing of the board
\* before (agent/tools.py).
THEOREM ToolsTold == Spec => []ToolsTell
<1> DEFINE Left == call.tool = "set_board" => Validation(design) \cap OfTheBoard = {}
<1>1. Init => Left BY DEF Init
<1>2. ASSUME DocumentRead, Left, [Next]_vars PROVE Left'
  <2>1. CASE UNCHANGED vars
    <3>1. design' = design /\ call' = call BY <2>1 DEF vars
    <3> QED BY <1>2, <3>1
  <2>2. ASSUME NEW board \in Stocked, NEW revision \in Boards[board].revisions \cup {None},
               RunSetBoard(board, revision)
        PROVE  Left'
    <3>1. design' = SetBoard(design, board, revision) /\ IsDocument(design)
      BY <1>2, <2>2 DEF RunSetBoard, DocumentRead
    <3>2. board \in DOMAIN Boards BY SessionAssumption
    <3> QED BY <3>1, <3>2, BoardIsTheDesigns
  <2>3. CASE Next
    <3>1. \/ \E board \in Stocked : \E revision \in Boards[board].revisions \cup {None} :
                RunSetBoard(board, revision)
          \/ call'.tool # "set_board"
      BY <2>3 DEF Next, Called, RunSeedOnboard, RunAddComponent, RunInsertModule,
                  RunRemoveComponent, RunSetParam, RunSetPartOverride, RunSetConnection,
                  RunSetStrict, RunAddBus, RunSolvePins, Reload
    <3> QED BY <2>2, <3>1
  <2> QED BY <1>2, <2>1, <2>3
<1>3. Left => ToolsTell BY OkRenders DEF ToolsTell, OfTheBoard
<1> HIDE DEF Left
<1>4. Spec => []Left BY <1>1, <1>2, DocumentStaysRead, PTL DEF Spec
<1> QED BY <1>3, <1>4, PTL

-----------------------------------------------------------------------------
(* The Python programs: no part is lost without a word.                    *)

\* The order the parts are written in has each part, those that hang on a hub
\* after all others.
LEMMA OrderHasAll ==
    ASSUME NEW d, IsDocument(d)
    PROVE  \E M \in Nat :
             /\ Len(InOrder(d)) \in Nat /\ DOMAIN InOrder(d) = 1..Len(InOrder(d))
             /\ M <= Len(InOrder(d))
             /\ \A k \in DOMAIN InOrder(d) :
                   /\ k <= M <=> InOrder(d)[k].id \notin Hung(d)
                   /\ \E c \in DOMAIN d.comps : InOrder(d)[k] = d.comps[c]
             /\ \A c \in DOMAIN d.comps : \E k \in DOMAIN InOrder(d) : InOrder(d)[k] = d.comps[c]
<1> DEFINE n == Len(d.comps)
           free == {c \in DOMAIN d.comps : d.comps[c].id \notin Hung(d)}
           held == {c \in DOMAIN d.comps : d.comps[c].id \in Hung(d)}
           fore == Picked(d.comps, free)
           rear == Picked(d.comps, held)
           M == Len(fore)
           R == Len(rear)
           order == InOrder(d)
<1>1. n \in Nat /\ DOMAIN d.comps = 1..n BY DocumentFacts
<1>2. free \in SUBSET (1..n) /\ held \in SUBSET (1..n) BY <1>1
<1>3. /\ \A c \in free : c \in DOMAIN d.comps /\ d.comps[c].id \notin Hung(d)
      /\ \A c \in held : c \in DOMAIN d.comps /\ d.comps[c].id \in Hung(d)
      /\ \A c \in DOMAIN d.comps : c \in free \/ c \in held
  OBVIOUS
<1>4. order = fore \o rear BY DEF InOrder
<1> HIDE DEF free, held
<1>5. /\ IsSeq(fore)
      /\ \A k \in DOMAIN fore : \E i \in free : fore[k] = d.comps[i]
      /\ \A i \in free : \E k \in DOMAIN fore : fore[k] = d.comps[i]
  <2> HIDE DEF n
  <2> QED BY ONLY <1>1, <1>2, PickedFacts DEF fore
<1>6. /\ IsSeq(rear)
      /\ \A k \in DOMAIN rear : \E i \in held : rear[k] = d.comps[i]
      /\ \A i \in held : \E k \in DOMAIN rear : rear[k] = d.comps[i]
  <2> HIDE DEF n
  <2> QED BY ONLY <1>1, <1>2, PickedFacts DEF rear
<1> HIDE DEF fore, rear, order
<1>7. M \in Nat /\ DOMAIN fore = 1..M /\ R \in Nat /\ DOMAIN rear = 1..R
  BY <1>5, <1>6, SeqFacts
<1>8. /\ IsSeq(order) /\ Len(order) = M + R /\ DOMAIN order = 1..(M + R)
      /\ \A k \in 1..M : order[k] = fore[k]
      /\ \A k \in 1..R : order[M + k] = rear[k]
  BY <1>4, <1>5, <1>6, ConcatFacts
<1> HIDE DEF M, R
<1>9. ASSUME NEW k \in DOMAIN order
      PROVE  /\ k <= M <=> order[k].id \notin Hung(d)
             /\ \E c \in DOMAIN d.comps : order[k] = d.comps[c]
  <2>1. CASE k <= M
    <3>1. k \in 1..M BY <1>7, <1>8, <2>1
    <3>2. PICK i \in free : order[k] = d.comps[i] BY <1>5, <1>7, <1>8, <3>1
    <3> QED BY <1>3, <2>1, <3>2
  <2>2. CASE ~(k <= M)
    <3>1. k - M \in 1..R /\ M + (k - M) = k BY <1>7, <1>8, <2>2
    <3>2. order[k] = rear[k - M] BY <1>8, <3>1
    <3>3. PICK i \in held : order[k] = d.comps[i] BY <1>6, <1>7, <3>1, <3>2
    <3> QED BY <1>3, <2>2, <3>3
  <2> QED BY <2>1, <2>2
<1>10. ASSUME NEW c \in DOMAIN d.comps PROVE \E k \in DOMAIN order : order[k] = d.comps[c]
  <2>1. CASE c \in free
    <3>1. PICK k \in 1..M : fore[k] = d.comps[c] BY <1>5, <1>7, <2>1
    <3>2. k \in 1..(M + R) BY <1>7, PastTheEnd
    <3> QED BY <1>8, <3>1, <3>2
  <2>2. CASE c \in held
    <3>1. PICK k \in 1..R : rear[k] = d.comps[c] BY <1>6, <1>7, <2>2
    <3>2. M + k \in 1..(M + R) BY <1>7, PastTheEnd
    <3> QED BY <1>8, <3>1, <3>2
  <2> QED BY <1>3, <2>1, <2>2
<1>11. M \in Nat /\ Len(order) \in Nat /\ DOMAIN order = 1..Len(order) /\ M <= Len(order)
  BY <1>7, <1>8
<1> QED BY <1>9, <1>10, <1>11 DEF order

LEMMA CodeRunsAre ==
    ASSUME NEW d, NEW lang, Len(InOrder(d)) \in Nat
    PROVE  /\ CodeRuns(d, lang)[0] = [done |-> <<>>, said |-> {}]
           /\ \A n \in 1..Len(InOrder(d)) :
                 CodeRuns(d, lang)[n] = WriteIn(d, lang, CodeRuns(d, lang)[n - 1], InOrder(d)[n])
<1> DEFINE order == InOrder(d)
           N == Len(order)
           first == [done |-> <<>>, said |-> {}]
           Fits(g, n) == g = [k \in 0..n |-> IF k = 0 THEN first
                                             ELSE WriteIn(d, lang, g[k - 1], order[k])]
           fit == {n \in 0..N : \E g : Fits(g, n)}
<1> HIDE DEF order, first
<1>0. N \in Nat BY DEF order
<1>1. 0 \in fit
  <2> DEFINE h == [k \in 0..0 |-> first]
  <2>1. Fits(h, 0) OBVIOUS
  <2> HIDE DEF Fits, h, first
  <2> QED BY <2>1
<1>2. ASSUME NEW n \in 1..N, n - 1 \in fit PROVE n \in fit
  <2>1. PICK g : Fits(g, n - 1) BY <1>2
  <2> DEFINE h == [k \in 0..n |-> IF k = n THEN WriteIn(d, lang, g[n - 1], order[n]) ELSE g[k]]
  <2>2. Fits(h, n) BY <1>0, <2>1
  <2> HIDE DEF Fits, h, first
  <2> QED BY <2>2
<1>3. N \in fit
  <2> HIDE DEF fit
  <2>1. 0..N \subseteq fit BY <1>0, <1>1, <1>2, Climbs
  <2> QED BY <2>1
<1>4. Fits(CodeRuns(d, lang), N) BY <1>3 DEF CodeRuns, order, first
<1> DEFINE runs == CodeRuns(d, lang)
<1>5. runs = [k \in 0..N |-> IF k = 0 THEN first ELSE WriteIn(d, lang, runs[k - 1], order[k])]
  BY <1>4
<1> HIDE DEF runs
<1>6. runs[0] = first BY <1>0, <1>5
<1>7. ASSUME NEW n \in 1..N PROVE runs[n] = WriteIn(d, lang, runs[n - 1], order[n]) BY <1>0, <1>5
<1> QED BY <1>6, <1>7 DEF runs, order, first

\* What a component's connections to a hub and a bus are goes by its id.
LEMMA ByItsId ==
    ASSUME NEW d, NEW c, NEW e, c.id = e.id
    PROVE  HubOf(d, c) = HubOf(d, e) /\ BusOf(d, c) = BusOf(d, e)
BY DEF HubOf, BusOf, HubConns, BusConns

\* Every id written has the hub of its part before it.
HubsFirst(d, done) ==
    \A k \in DOMAIN done : \A c \in DOMAIN d.comps :
       d.comps[c].id = done[k] /\ HubOf(d, d.comps[c]) # None =>
          \E e \in 1..(k - 1) : done[e] = HubOf(d, d.comps[c])

\* The program after the n-th of its parts.
Upto(d, lang, n) ==
    LET order == InOrder(d)
        runs == CodeRuns(d, lang)
        r == runs[n]
    IN /\ r = [done |-> r.done, said |-> r.said] /\ IsSeq(r.done)
       /\ \A k \in 1..n : order[k].id \in ToSet(r.done) \cup r.said
       /\ \A k \in 1..n : Enters(d, lang, order[k], ToSet(runs[k - 1].done)) =>
                             order[k].id \in ToSet(r.done)
       /\ \A m \in 0..n : ToSet(runs[m].done) \subseteq ToSet(r.done)
       /\ \A x \in ToSet(r.done) : \E j \in 1..n : order[j].id = x /\ x \in ToSet(runs[j].done)
       /\ HubsFirst(d, r.done)

LEMMA ToSetFacts ==
    ASSUME NEW s, IsSeq(s)
    PROVE  /\ ToSet(s) = {s[k] : k \in 1..Len(s)}
           /\ \A e : ToSet(Append(s, e)) = ToSet(s) \cup {e}
<1>1. ToSet(s) = {s[k] : k \in 1..Len(s)} BY SeqFacts DEF ToSet
<1>2. ASSUME NEW e PROVE ToSet(Append(s, e)) = ToSet(s) \cup {e}
  <2> DEFINE t == Append(s, e)
  <2>1. /\ Len(s) \in Nat /\ DOMAIN t = 1..(Len(s) + 1)
        /\ \A k \in 1..Len(s) : t[k] = s[k]
        /\ t[Len(s) + 1] = e
    BY AppendFacts, SeqFacts
  <2> HIDE DEF t
  <2>2. ASSUME NEW x \in ToSet(t) PROVE x \in ToSet(s) \cup {e}
    <3>1. PICK k \in 1..(Len(s) + 1) : x = t[k] BY <2>1, <2>2 DEF ToSet
    <3>2. k \in 1..Len(s) \/ k = Len(s) + 1 BY <2>1
    <3> QED BY <1>1, <2>1, <3>1, <3>2
  <2>3. ASSUME NEW x \in ToSet(s) \cup {e} PROVE x \in ToSet(t)
    <3>1. \/ \E k \in 1..Len(s) : x = s[k]
          \/ x = e
      BY <1>1, <2>3
    <3>2. (\A k \in 1..Len(s) : k \in DOMAIN t) /\ Len(s) + 1 \in DOMAIN t BY <2>1
    <3> QED BY <2>1, <3>1, <3>2 DEF ToSet
  <2> QED BY <2>2, <2>3 DEF t
<1> QED BY <1>1, <1>2

LEMMA UptoGrows ==
    ASSUME NEW d, IsDocument(d), NEW lang, NEW n \in 1..Len(InOrder(d)), Upto(d, lang, n - 1)
    PROVE  Upto(d, lang, n)
<1> DEFINE order == InOrder(d)
           runs == CodeRuns(d, lang)
           was == runs[n - 1]
           r == runs[n]
           c == order[n]
           enters == Enters(d, lang, c, ToSet(was.done))
<1> HIDE DEF order, runs
<1>0. Len(order) \in Nat /\ DOMAIN order = 1..Len(order) /\ n \in Nat /\ n - 1 \in Nat
      /\ n \in 1..Len(order)
  <2>1. Len(InOrder(d)) \in Nat /\ DOMAIN InOrder(d) = 1..Len(InOrder(d)) BY OrderHasAll
  <2> QED BY <2>1 DEF order
<1>1. r = WriteIn(d, lang, was, c)
  <2>1. Len(InOrder(d)) \in Nat BY <1>0 DEF order
  <2>2. \A m \in 1..Len(InOrder(d)) :
           CodeRuns(d, lang)[m] = WriteIn(d, lang, CodeRuns(d, lang)[m - 1], InOrder(d)[m])
    BY <2>1, CodeRunsAre
  <2> QED BY <2>2 DEF order, runs
<1>2. /\ was = [done |-> was.done, said |-> was.said] /\ IsSeq(was.done)
      /\ \A k \in 1..(n - 1) : order[k].id \in ToSet(was.done) \cup was.said
      /\ \A k \in 1..(n - 1) : Enters(d, lang, order[k], ToSet(runs[k - 1].done)) =>
                                 order[k].id \in ToSet(was.done)
      /\ \A m \in 0..(n - 1) : ToSet(runs[m].done) \subseteq ToSet(was.done)
      /\ \A x \in ToSet(was.done) :
            \E j \in 1..(n - 1) : order[j].id = x /\ x \in ToSet(runs[j].done)
      /\ HubsFirst(d, was.done)
  BY DEF Upto, order, runs
<1>3. \A k \in 1..n : k \in 1..(n - 1) \/ k = n BY <1>0
<1>4. \A m \in 0..n : m \in 0..(n - 1) \/ m = n BY <1>0
<1>5. \A j \in 1..(n - 1) : j \in 1..n BY <1>0
<1>6. n \in 1..n BY <1>0
<1> HIDE DEF was, r
<1>7. /\ r = [done |-> r.done, said |-> r.said] /\ IsSeq(r.done)
      /\ ToSet(was.done) \subseteq ToSet(r.done) /\ was.said \subseteq r.said
      /\ c.id \in ToSet(r.done) \cup r.said
      /\ enters => c.id \in ToSet(r.done)
      /\ \A x \in ToSet(r.done) : x \in ToSet(was.done) \/ x = c.id
  <2>1. CASE enters
    <3>1. r = [was EXCEPT !.done = Append(was.done, c.id)] BY <1>1, <2>1 DEF WriteIn
    <3>2. r = [done |-> Append(was.done, c.id), said |-> was.said] BY <1>2, <3>1
    <3>3. r.done = Append(was.done, c.id) /\ r.said = was.said BY <3>2
    <3>4. IsSeq(r.done) BY <1>2, <3>3, AppendFacts
    <3>5. ToSet(r.done) = ToSet(was.done) \cup {c.id} BY <1>2, <3>3, ToSetFacts
    <3> HIDE DEF enters
    <3> QED BY <3>2, <3>3, <3>4, <3>5
  <2>2. CASE ~enters
    <3>1. r = [was EXCEPT !.said = was.said \cup {c.id}] BY <1>1, <2>2 DEF WriteIn
    <3>2. r = [done |-> was.done, said |-> was.said \cup {c.id}] BY <1>2, <3>1
    <3>3. r.done = was.done /\ r.said = was.said \cup {c.id} BY <3>2
    <3> HIDE DEF enters
    <3> QED BY <1>2, <2>2, <3>2, <3>3
  <2> HIDE DEF enters
  <2> QED BY <2>1, <2>2
<1>8. HubsFirst(d, r.done)
  <2>1. CASE ~enters
    <3>1. r = [was EXCEPT !.said = was.said \cup {c.id}] BY <1>1, <2>1 DEF WriteIn
    <3>2. r.done = was.done BY <1>2, <3>1
    <3> QED BY <1>2, <3>2
  <2>2. CASE enters
    <3>1. r = [was EXCEPT !.done = Append(was.done, c.id)] BY <1>1, <2>2 DEF WriteIn
    <3>2. r.done = Append(was.done, c.id) BY <1>2, <3>1
    <3> DEFINE done == was.done
               L == Len(done)
    <3> HIDE DEF done
    <3>3. /\ L \in Nat /\ DOMAIN done = 1..L
          /\ DOMAIN r.done = 1..(L + 1)
          /\ \A k \in 1..L : r.done[k] = done[k]
          /\ r.done[L + 1] = c.id
      BY <1>2, <3>2, AppendFacts, SeqFacts DEF done
    <3>4. HubOf(d, c) # None => HubOf(d, c) \in ToSet(done)
      BY <2>2 DEF Enters, HubStands, done
    <3> SUFFICES ASSUME NEW k \in 1..(L + 1), NEW e \in DOMAIN d.comps,
                        d.comps[e].id = r.done[k], HubOf(d, d.comps[e]) # None
                 PROVE  \E i \in 1..(k - 1) : r.done[i] = HubOf(d, d.comps[e])
      BY <3>3 DEF HubsFirst
    <3> DEFINE hub == HubOf(d, d.comps[e])
    <3>5. CASE k \in 1..L
      <4>1. d.comps[e].id = done[k] BY <3>3, <3>5
      <4>2. HubsFirst(d, done) BY <1>2 DEF done
      <4>3. PICK i \in 1..(k - 1) : done[i] = hub BY <3>3, <3>5, <4>1, <4>2 DEF HubsFirst
      <4>4. i \in 1..L BY <3>3, <3>5
      <4> HIDE DEF hub
      <4>5. r.done[i] = hub BY <3>3, <4>3, <4>4
      <4> QED BY <4>5 DEF hub
    <3>6. CASE k = L + 1
      <4>1. d.comps[e].id = c.id BY <3>3, <3>6
      <4>2. hub = HubOf(d, c) BY <4>1, ByItsId
      <4>3. hub \in ToSet(done) BY <3>4, <4>2
      <4> HIDE DEF hub
      <4>4. PICK i \in 1..L : done[i] = hub BY <3>3, <4>3 DEF ToSet
      <4>5. r.done[i] = hub /\ i \in 1..(k - 1) BY <3>3, <3>6, <4>4
      <4> QED BY <4>5 DEF hub
    <3>7. k \in 1..L \/ k = L + 1 BY <3>3
    <3> QED BY <3>5, <3>6, <3>7
  <2> QED BY <2>1, <2>2
<1> HIDE DEF c, enters
<1>9. \A k \in 1..n : order[k].id \in ToSet(r.done) \cup r.said
  BY <1>2, <1>3, <1>7 DEF c
<1>10. \A k \in 1..n : Enters(d, lang, order[k], ToSet(runs[k - 1].done)) =>
                          order[k].id \in ToSet(r.done)
  BY <1>2, <1>3, <1>7 DEF c, enters, was
<1>11. \A m \in 0..n : ToSet(runs[m].done) \subseteq ToSet(r.done)
  BY <1>2, <1>4, <1>7 DEF r
<1>12. \A x \in ToSet(r.done) : \E j \in 1..n : order[j].id = x /\ x \in ToSet(runs[j].done)
  <2> SUFFICES ASSUME NEW x \in ToSet(r.done)
               PROVE  \E j \in 1..n : order[j].id = x /\ x \in ToSet(runs[j].done)
    OBVIOUS
  <2>1. CASE x \in ToSet(was.done) BY <1>2, <1>5, <2>1
  <2>2. CASE x = c.id BY <1>6, <2>2 DEF c, r
  <2> QED BY <1>7, <2>1, <2>2
<1> QED BY <1>7, <1>8, <1>9, <1>10, <1>11, <1>12 DEF Upto, r, runs, order

LEMMA WholeCode ==
    ASSUME NEW d, IsDocument(d), NEW lang
    PROVE  \A n \in 0..Len(InOrder(d)) : Upto(d, lang, n)
<1> DEFINE N == Len(InOrder(d))
           S == {n \in 0..N : Upto(d, lang, n)}
<1>1. N \in Nat BY OrderHasAll
<1>2. 0 \in S
  <2>0. CodeRuns(d, lang)[0] = [done |-> <<>>, said |-> {}]
    <3>1. Len(InOrder(d)) \in Nat BY <1>1
    <3> QED BY ONLY <3>1, CodeRunsAre
  <2> DEFINE r == CodeRuns(d, lang)[0]
  <2>1. r = [done |-> <<>>, said |-> {}] BY <2>0
  <2>2. IsSeq(r.done) /\ r.done = <<>>
    <3> HIDE DEF r
    <3>1. r.done = <<>> BY <2>1
    <3>2. IsSeq(<<>>) BY TuplesAre
    <3> QED BY <3>1, <3>2
  <2>3. ToSet(r.done) = {} BY <2>2 DEF ToSet
  <2>4. HubsFirst(d, r.done) BY <2>2 DEF HubsFirst
  <2>5. r = [done |-> r.done, said |-> r.said] BY <2>1
  <2>6. 1..0 = {} /\ \A m \in 0..0 : m = 0 OBVIOUS
  <2>7. \A m \in 0..0 : ToSet(CodeRuns(d, lang)[m].done) \subseteq ToSet(r.done) BY <2>6
  <2> HIDE DEF r
  <2>8. Upto(d, lang, 0) BY <2>2, <2>3, <2>4, <2>5, <2>6, <2>7 DEF Upto, r
  <2> QED BY <1>1, <2>8
<1>3. ASSUME NEW n \in 1..N, n - 1 \in S PROVE n \in S
  <2>1. Upto(d, lang, n) BY <1>3, UptoGrows
  <2> HIDE DEF N
  <2> QED BY <1>1, <2>1
<1>4. 0..N \subseteq S
  <2> HIDE DEF S, N
  <2> QED BY <1>1, <1>2, <1>3, Climbs
<1> HIDE DEF N
<1> QED BY <1>1, <1>4 DEF N

\* Of a Python program, for whatever parts and connections: every part is written
\* or said to be skipped, its hub before it, and with the object of its bus; and no
\* part is skipped for a hub that is written after all, but where the hub hangs on
\* another itself (generate/micropython_gen.py, circuitpython_gen.py).
LEMMA CodeIsSound ==
    ASSUME NEW d, IsDocument(d), None \notin Ids(d.buses), NEW lang
    PROVE  LET code == Code(d, lang) IN CodeSound(d, lang, code, Made(d, code))
<1> DEFINE order == InOrder(d)
           runs == CodeRuns(d, lang)
           N == Len(order)
           code == Code(d, lang)
           done == ToSet(code.done)
<1> HIDE DEF order, runs
<1>1. /\ N \in Nat /\ DOMAIN order = 1..N
      /\ \A c \in DOMAIN d.comps : \E k \in DOMAIN order : order[k] = d.comps[c]
  BY OrderHasAll DEF order
<1>2. PICK M \in Nat : \A k \in DOMAIN order : k <= M <=> order[k].id \notin Hung(d)
  BY OrderHasAll DEF order
<1>3. code = runs[N] BY DEF Code, runs, order
<1> HIDE DEF N, code
<1>4. /\ \A k \in 1..N : order[k].id \in ToSet(code.done) \cup code.said
      /\ \A k \in 1..N : Enters(d, lang, order[k], ToSet(runs[k - 1].done)) =>
                             order[k].id \in ToSet(code.done)
      /\ \A m \in 0..N : ToSet(runs[m].done) \subseteq ToSet(code.done)
      /\ \A x \in ToSet(code.done) : \E j \in 1..N : order[j].id = x /\ x \in ToSet(runs[j].done)
      /\ HubsFirst(d, code.done)
  <2>0. N \in 0..N BY <1>1
  <2>1. Upto(d, lang, N) BY <2>0, WholeCode DEF N, order
  <2> QED BY <1>3, <2>1 DEF Upto, order, runs
<1>5. ASSUME NEW k \in 1..N, NEW m \in 0..k PROVE ToSet(runs[m].done) \subseteq ToSet(runs[k].done)
  <2>1. k \in 0..N BY <1>1
  <2>2. Upto(d, lang, k) BY <2>1, WholeCode DEF N, order
  <2> QED BY <2>2 DEF Upto, runs
<1>6. ASSUME NEW c \in DOMAIN d.comps
      PROVE  LET id == d.comps[c].id
                 hub == HubOf(d, d.comps[c])
             IN /\ id \in done \cup code.said
                /\ \A k \in DOMAIN code.done :
                      code.done[k] = id /\ hub # None => \E e \in 1..(k - 1) : code.done[e] = hub
                /\ id \in done /\ BusOf(d, d.comps[c]) \in Objects(d) =>
                      BusOf(d, d.comps[c]) \in Made(d, code)
                /\ hub \notin Hung(d) /\ Enters(d, lang, d.comps[c], done) => id \in done
  <2> DEFINE part == d.comps[c]
             hub == HubOf(d, part)
  <2>1. PICK k \in 1..N : order[k] = part BY <1>1
  <2>2. part.id \in done \cup code.said BY <1>4, <2>1
  <2>3. \A i \in DOMAIN code.done :
           code.done[i] = part.id /\ hub # None => \E e \in 1..(i - 1) : code.done[e] = hub
    BY <1>4 DEF HubsFirst
  <2>4. ASSUME part.id \in done, BusOf(d, part) \in Objects(d)
        PROVE  BusOf(d, part) \in Made(d, code)
    <3> DEFINE on == BusConns(d, part)
    <3>1. Objects(d) \subseteq Ids(d.buses) BY DEF Objects, Ids
    <3>2. on # {} /\ BusOf(d, part) = d.conns[Final(on)].target.to BY <2>4, <3>1 DEF BusOf
    <3>3. on \in SUBSET (1..Len(d.conns)) /\ Len(d.conns) \in Nat
      BY DocumentFacts DEF BusConns
    <3> HIDE DEF on
    <3>4. \E x \in on : \A y \in on : y <= x BY <3>2, <3>3, GreatestIsIn
    <3>5. Final(on) \in on BY <3>4 DEF Final
    <3>6. BusOf(d, part) \in {d.conns[i].target.to : i \in BusConns(d, d.comps[c])}
      BY <3>2, <3>5 DEF on
    <3>7. c \in {e \in DOMAIN d.comps : d.comps[e].id \in ToSet(code.done)} BY <2>4
    <3>8. BusOf(d, part) \in UsedBuses(d, code) BY <3>6, <3>7, Zenon DEF UsedBuses
    <3> QED BY <2>4, <3>8 DEF Made
  <2>5. ASSUME hub \notin Hung(d), Enters(d, lang, part, done)
        PROVE  part.id \in done
    <3> DEFINE before == ToSet(runs[k - 1].done)
    <3>1. HubStands(d, part, before)
      <4>1. CASE hub = None BY <2>5, <4>1 DEF Enters, HubStands
      <4>2. CASE hub # None
        <5>1. hub \in done BY <2>5, <4>2 DEF Enters, HubStands
        <5>2. PICK j \in 1..N : order[j].id = hub /\ hub \in ToSet(runs[j].done)
          BY <1>4, <5>1
        <5>3. j <= M BY <1>1, <1>2, <2>5, <5>2
        <5>4. part.id \in Hung(d)
          <6>1. HubConns(d, part) # {} BY <4>2 DEF HubOf
          <6> QED BY <6>1 DEF HubConns, Hung
        <5>5. ~(k <= M) BY <1>1, <1>2, <2>1, <5>4
        <5>6. k - 1 \in 1..N /\ j \in 0..(k - 1) BY <1>1, <5>3, <5>5
        <5>7. hub \in before BY <1>5, <5>2, <5>6
        <5> QED BY <4>2, <5>7 DEF HubStands
      <4> QED BY <4>1, <4>2
    <3>2. Enters(d, lang, part, before) BY <2>5, <3>1 DEF Enters
    <3> QED BY <1>4, <2>1, <3>2
  <2> QED BY <2>2, <2>3, <2>4, <2>5
<1> QED BY <1>6 DEF CodeSound, code

\* The MicroPython and CircuitPython programs write every part or say it is
\* skipped, a part's hub before it, the object of its bus with it, and skip none
\* whose hub is written (micropython_gen.py, circuitpython_gen.py), of whatever
\* document: None, which stands for no bus, is the name of none.
THEOREM ProgramsTell == \A d : IsDocument(d) /\ None \notin Ids(d.buses) => CodeTells(d)
<1> SUFFICES ASSUME NEW d, IsDocument(d), None \notin Ids(d.buses) PROVE CodeTells(d)
  OBVIOUS
<1>1. LET code == Code(d, "micropython") IN CodeSound(d, "micropython", code, Made(d, code))
  BY CodeIsSound
<1>2. LET code == Code(d, "circuitpython") IN CodeSound(d, "circuitpython", code, Made(d, code))
  BY CodeIsSound
<1> QED BY <1>1, <1>2 DEF CodeTells, MicroCode, MicroBuses, CircuitCode, CircuitBuses

-----------------------------------------------------------------------------
(* WLED: no part is lost without a word.                                   *)

LEMMA CfgRunsAre ==
    ASSUME NEW d, Len(d.comps) \in Nat
    PROVE  /\ CfgRuns(d)[0] = NewCfg
           /\ \A n \in 1..Len(d.comps) :
                 CfgRuns(d)[n] = PlaceInCfg(d, CfgRuns(d)[n - 1], d.comps[n])
<1> DEFINE N == Len(d.comps)
           first == NewCfg
           Fits(g, n) == g = [k \in 0..n |-> IF k = 0 THEN first
                                             ELSE PlaceInCfg(d, g[k - 1], d.comps[k])]
           fit == {n \in 0..N : \E g : Fits(g, n)}
<1> HIDE DEF first
<1>1. 0 \in fit
  <2> DEFINE h == [k \in 0..0 |-> first]
  <2>1. Fits(h, 0) OBVIOUS
  <2> HIDE DEF Fits, h
  <2> QED BY <2>1
<1>2. ASSUME NEW n \in 1..N, n - 1 \in fit PROVE n \in fit
  <2>1. PICK g : Fits(g, n - 1) BY <1>2
  <2> DEFINE h == [k \in 0..n |-> IF k = n THEN PlaceInCfg(d, g[n - 1], d.comps[n]) ELSE g[k]]
  <2>2. Fits(h, n) BY <2>1
  <2> HIDE DEF Fits, h
  <2> QED BY <2>2
<1>3. N \in fit
  <2> HIDE DEF fit
  <2>1. 0..N \subseteq fit BY <1>1, <1>2, Climbs
  <2> QED BY <2>1
<1>4. Fits(CfgRuns(d), N) BY <1>3 DEF CfgRuns, first
<1> DEFINE runs == CfgRuns(d)
<1>5. runs = [k \in 0..N |-> IF k = 0 THEN first ELSE PlaceInCfg(d, runs[k - 1], d.comps[k])]
  BY <1>4
<1> HIDE DEF runs
<1>6. runs[0] = first BY <1>5
<1>7. ASSUME NEW n \in 1..N PROVE runs[n] = PlaceInCfg(d, runs[n - 1], d.comps[n]) BY <1>5
<1> QED BY <1>6, <1>7 DEF runs, first

LEMMA OverrideRunsAre ==
    ASSUME NEW d, Len(d.comps) \in Nat
    PROVE  /\ OverrideRuns(d)[0] = [flags |-> <<>>, said |-> {}]
           /\ \A n \in 1..Len(d.comps) :
                 OverrideRuns(d)[n] = CompileIn(d, OverrideRuns(d)[n - 1], d.comps[n])
<1> DEFINE N == Len(d.comps)
           first == [flags |-> <<>>, said |-> {}]
           Fits(g, n) == g = [k \in 0..n |-> IF k = 0 THEN first
                                             ELSE CompileIn(d, g[k - 1], d.comps[k])]
           fit == {n \in 0..N : \E g : Fits(g, n)}
<1> HIDE DEF first
<1>1. 0 \in fit
  <2> DEFINE h == [k \in 0..0 |-> first]
  <2>1. Fits(h, 0) OBVIOUS
  <2> HIDE DEF Fits, h
  <2> QED BY <2>1
<1>2. ASSUME NEW n \in 1..N, n - 1 \in fit PROVE n \in fit
  <2>1. PICK g : Fits(g, n - 1) BY <1>2
  <2> DEFINE h == [k \in 0..n |-> IF k = n THEN CompileIn(d, g[n - 1], d.comps[n]) ELSE g[k]]
  <2>2. Fits(h, n) BY <2>1
  <2> HIDE DEF Fits, h
  <2> QED BY <2>2
<1>3. N \in fit
  <2> HIDE DEF fit
  <2>1. 0..N \subseteq fit BY <1>1, <1>2, Climbs
  <2> QED BY <2>1
<1>4. Fits(OverrideRuns(d), N) BY <1>3 DEF OverrideRuns, first
<1> DEFINE runs == OverrideRuns(d)
<1>5. runs = [k \in 0..N |-> IF k = 0 THEN first ELSE CompileIn(d, runs[k - 1], d.comps[k])]
  BY <1>4
<1> HIDE DEF runs
<1>6. runs[0] = first BY <1>5
<1>7. ASSUME NEW n \in 1..N PROVE runs[n] = CompileIn(d, runs[n - 1], d.comps[n]) BY <1>5
<1> QED BY <1>6, <1>7 DEF runs, first

IsUsermod(c) == BlocksOf(c).wled # None /\ BlocksOf(c).wled.kind = "usermod"
IsCfg(cfg) ==
    /\ cfg = [led |-> cfg.led, btn |-> cfg.btn, ir |-> cfg.ir, relay |-> cfg.relay,
              um |-> cfg.um, said |-> cfg.said]
    /\ IsSeq(cfg.led) /\ IsSeq(cfg.btn)

\* A part placed in cfg.json moves no other out of it.
LEMMA Places ==
    ASSUME NEW d, NEW cfg, IsCfg(cfg), NEW c, c.id # None
    PROVE  LET next == PlaceInCfg(d, cfg, c) IN
             /\ IsCfg(next)
             /\ InCfg(cfg) \subseteq InCfg(next) \cup {None} /\ cfg.said \subseteq next.said
             /\ c.id \in InCfg(next) \cup next.said \/ IsUsermod(c)
<1> DEFINE next == PlaceInCfg(d, cfg, c)
           told == [cfg EXCEPT !.said = @ \cup {c.id}]
           block == BlocksOf(c).wled
           In(s) == ToSet(s.led) \cup ToSet(s.btn) \cup {s.ir, s.relay}
                    \cup {s.um[name] : name \in DOMAIN s.um}
           Goal(s) == /\ IsCfg(s) /\ InCfg(cfg) \subseteq InCfg(s) \cup {None}
                      /\ cfg.said \subseteq s.said
                      /\ c.id \in InCfg(s) \cup s.said \/ IsUsermod(c)
<1>1. told = [led |-> cfg.led, btn |-> cfg.btn, ir |-> cfg.ir, relay |-> cfg.relay,
              um |-> cfg.um, said |-> cfg.said \cup {c.id}]
  BY DEF IsCfg
<1>2. Goal(told)
  <2>1. /\ told.led = cfg.led /\ told.btn = cfg.btn /\ told.ir = cfg.ir
        /\ told.relay = cfg.relay /\ told.um = cfg.um /\ told.said = cfg.said \cup {c.id}
    BY <1>1
  <2>2. IsCfg(told) BY <1>1, <2>1 DEF IsCfg
  <2> HIDE DEF told
  <2>3. InCfg(told) = InCfg(cfg) BY <2>1 DEF InCfg
  <2> QED BY <2>1, <2>2, <2>3
<1>3. CASE block = None \/ ~IsWired(d, c, ToSet(block.pins))
  BY <1>2, <1>3, Zenon DEF PlaceInCfg
<1>4. CASE block # None /\ IsWired(d, c, ToSet(block.pins))
  <2> DEFINE kind == block.kind
  <2>1. c.lib \in DOMAIN Blocks BY <1>4 DEF BlocksOf, NoBlocks
  <2>2. kind \in {"led", "button", "ir", "relay", "usermod"}
    BY <1>4, <2>1, BlocksAssumption DEF BlocksOf
  <2>3. next = CASE kind = "led" ->
                      IF Len(cfg.led) >= MaxOutputs[ChipOf(d)] THEN told
                      ELSE [cfg EXCEPT !.led = Append(@, c.id)]
                 [] kind = "button" ->
                      IF Len(cfg.btn) >= MaxButtons(ChipOf(d)) THEN told
                      ELSE [cfg EXCEPT !.btn = Append(@, c.id)]
                 [] kind = "ir" ->
                      IF cfg.ir # None THEN told ELSE [told EXCEPT !.ir = c.id]
                 [] kind = "relay" ->
                      IF cfg.relay # None THEN told ELSE [cfg EXCEPT !.relay = c.id]
                 [] kind = "usermod" /\ block.um # None ->
                      IF block.um \in DOMAIN cfg.um THEN told
                      ELSE [cfg EXCEPT !.um = Put(@, block.um, c.id)]
                 [] OTHER -> cfg
    BY <1>4, Zenon DEF PlaceInCfg
  <2> HIDE DEF next, told, kind
  <2>4. CASE kind = "led"
    <3> DEFINE more == Append(cfg.led, c.id)
               new == [cfg EXCEPT !.led = more]
    <3>1. next = told \/ next = new BY <2>3, <2>4
    <3> HIDE DEF more
    <3>2. new = [led |-> more, btn |-> cfg.btn, ir |-> cfg.ir,
                 relay |-> cfg.relay, um |-> cfg.um, said |-> cfg.said]
      BY DEF IsCfg
    <3> HIDE DEF new
    <3>3. /\ new.led = more /\ new.btn = cfg.btn /\ new.ir = cfg.ir
          /\ new.relay = cfg.relay /\ new.um = cfg.um /\ new.said = cfg.said
      BY <3>2
    <3>4. IsSeq(new.led) /\ ToSet(new.led) = ToSet(cfg.led) \cup {c.id}
      <4>1. IsSeq(cfg.led) BY DEF IsCfg
      <4>2. ToSet(Append(cfg.led, c.id)) = ToSet(cfg.led) \cup {c.id} BY <4>1, ToSetFacts
      <4>3. IsSeq(Append(cfg.led, c.id)) BY <4>1, AppendFacts
      <4> QED BY <3>3, <4>2, <4>3 DEF more
    <3>5. IsCfg(new) BY <3>2, <3>3, <3>4 DEF IsCfg
    <3>6. Goal(new) BY <3>3, <3>4, <3>5 DEF InCfg
    <3> HIDE DEF Goal
    <3>7. Goal(next) BY <1>2, <3>1, <3>6
    <3> QED BY <3>7 DEF Goal, next
  <2>5. CASE kind = "button"
    <3> DEFINE more == Append(cfg.btn, c.id)
               new == [cfg EXCEPT !.btn = more]
    <3>1. next = told \/ next = new BY <2>3, <2>5
    <3> HIDE DEF more
    <3>2. new = [led |-> cfg.led, btn |-> more, ir |-> cfg.ir,
                 relay |-> cfg.relay, um |-> cfg.um, said |-> cfg.said]
      BY DEF IsCfg
    <3> HIDE DEF new
    <3>3. /\ new.btn = more /\ new.led = cfg.led /\ new.ir = cfg.ir
          /\ new.relay = cfg.relay /\ new.um = cfg.um /\ new.said = cfg.said
      BY <3>2
    <3>4. IsSeq(new.btn) /\ ToSet(new.btn) = ToSet(cfg.btn) \cup {c.id}
      <4>1. IsSeq(cfg.btn) BY DEF IsCfg
      <4>2. ToSet(Append(cfg.btn, c.id)) = ToSet(cfg.btn) \cup {c.id} BY <4>1, ToSetFacts
      <4>3. IsSeq(Append(cfg.btn, c.id)) BY <4>1, AppendFacts
      <4> QED BY <3>3, <4>2, <4>3 DEF more
    <3>5. IsCfg(new) BY <3>2, <3>3, <3>4 DEF IsCfg
    <3>6. Goal(new) BY <3>3, <3>4, <3>5 DEF InCfg
    <3> HIDE DEF Goal
    <3>7. Goal(next) BY <1>2, <3>1, <3>6
    <3> QED BY <3>7 DEF Goal, next
  <2>6. CASE kind = "ir"
    <3> DEFINE new == [told EXCEPT !.ir = c.id]
    <3>1. next = told \/ (next = new /\ cfg.ir = None) BY <2>3, <2>6
    <3>2. new = [led |-> cfg.led, btn |-> cfg.btn, ir |-> c.id, relay |-> cfg.relay,
                 um |-> cfg.um, said |-> cfg.said \cup {c.id}]
      BY <1>1
    <3> HIDE DEF new
    <3>3. /\ new.led = cfg.led /\ new.btn = cfg.btn /\ new.ir = c.id
          /\ new.relay = cfg.relay /\ new.um = cfg.um /\ new.said = cfg.said \cup {c.id}
      BY <3>2
    <3>5. IsCfg(new) BY <3>2, <3>3 DEF IsCfg
    <3>6. cfg.ir = None => Goal(new) BY <3>3, <3>5 DEF InCfg
    <3> HIDE DEF Goal
    <3>7. Goal(next) BY <1>2, <3>1, <3>6
    <3> QED BY <3>7 DEF Goal, next
  <2>7. CASE kind = "relay"
    <3> DEFINE new == [cfg EXCEPT !.relay = c.id]
    <3>1. next = told \/ (next = new /\ cfg.relay = None) BY <2>3, <2>7
    <3>2. new = [led |-> cfg.led, btn |-> cfg.btn, ir |-> cfg.ir, relay |-> c.id,
                 um |-> cfg.um, said |-> cfg.said]
      BY DEF IsCfg
    <3> HIDE DEF new
    <3>3. /\ new.led = cfg.led /\ new.btn = cfg.btn /\ new.ir = cfg.ir
          /\ new.relay = c.id /\ new.um = cfg.um /\ new.said = cfg.said
      BY <3>2
    <3>5. IsCfg(new) BY <3>2, <3>3 DEF IsCfg
    <3>6. cfg.relay = None => Goal(new) BY <3>3, <3>5 DEF InCfg
    <3> HIDE DEF Goal
    <3>7. Goal(next) BY <1>2, <3>1, <3>6
    <3> QED BY <3>7 DEF Goal, next
  <2>8. CASE kind = "usermod"
    <3> DEFINE um == Put(cfg.um, block.um, c.id)
               new == [cfg EXCEPT !.um = um]
    <3>0. IsUsermod(c) BY <1>4, <2>8 DEF IsUsermod, kind
    <3>1. \/ next = told \/ next = cfg
          \/ next = new /\ block.um \notin DOMAIN cfg.um
      BY <2>3, <2>8
    <3>2. /\ DOMAIN um = {block.um} \cup DOMAIN cfg.um
          /\ block.um \notin DOMAIN cfg.um => \A name \in DOMAIN cfg.um : um[name] = cfg.um[name]
      BY DEF Put
    <3> HIDE DEF um
    <3>3. new = [led |-> cfg.led, btn |-> cfg.btn, ir |-> cfg.ir, relay |-> cfg.relay,
                 um |-> um, said |-> cfg.said]
      BY DEF IsCfg
    <3> HIDE DEF new
    <3>4. /\ new.led = cfg.led /\ new.btn = cfg.btn /\ new.ir = cfg.ir
          /\ new.relay = cfg.relay /\ new.um = um /\ new.said = cfg.said
      BY <3>3
    <3>5. IsCfg(new) BY <3>3, <3>4 DEF IsCfg
    <3>6. block.um \notin DOMAIN cfg.um =>
             {cfg.um[name] : name \in DOMAIN cfg.um} \subseteq {um[name] : name \in DOMAIN um}
      BY <3>2
    <3>7. block.um \notin DOMAIN cfg.um => InCfg(cfg) \subseteq InCfg(new)
      BY <3>4, <3>6 DEF InCfg
    <3>8. block.um \notin DOMAIN cfg.um => Goal(new) BY <3>0, <3>4, <3>5, <3>7
    <3>9. Goal(cfg) BY <3>0
    <3> HIDE DEF Goal
    <3>10. Goal(next) BY <1>2, <3>1, <3>8, <3>9
    <3> QED BY <3>10 DEF Goal, next
  <2> QED BY <2>2, <2>4, <2>5, <2>6, <2>7, <2>8
<1> QED BY <1>3, <1>4

CfgUpto(d, n) ==
    LET cfg == CfgRuns(d)[n] IN
    /\ IsCfg(cfg)
    /\ \A k \in 1..n : d.comps[k].id \in InCfg(cfg) \cup cfg.said \/ IsUsermod(d.comps[k])

LEMMA CfgHasAll ==
    ASSUME NEW d, IsDocument(d), None \notin Ids(d.comps)
    PROVE  CfgUpto(d, Len(d.comps))
<1> DEFINE N == Len(d.comps)
           S == {n \in 0..N : CfgUpto(d, n)}
<1>1. N \in Nat /\ DOMAIN d.comps = 1..N BY DocumentFacts
<1>2. 0 \in S
  <2> DEFINE r == CfgRuns(d)[0]
  <2>1. r = NewCfg BY <1>1, CfgRunsAre
  <2>2. r = [led |-> <<>>, btn |-> <<>>, ir |-> None, relay |-> None, um |-> <<>>, said |-> {}]
    BY <2>1 DEF NewCfg
  <2> HIDE DEF r
  <2>3. IsSeq(<<>>) BY TuplesAre
  <2>4. IsCfg(r) BY <2>2, <2>3 DEF IsCfg
  <2>5. 1..0 = {} OBVIOUS
  <2>6. CfgUpto(d, 0) BY <2>4, <2>5 DEF CfgUpto, r
  <2> HIDE DEF N
  <2> QED BY <1>1, <2>6
<1>3. ASSUME NEW n \in 1..N, n - 1 \in S PROVE n \in S
  <2> DEFINE was == CfgRuns(d)[n - 1]
             r == CfgRuns(d)[n]
             c == d.comps[n]
  <2>1. r = PlaceInCfg(d, was, c) BY <1>1, CfgRunsAre
  <2>2. CfgUpto(d, n - 1) BY <1>3
  <2>3. /\ IsCfg(was)
        /\ \A k \in 1..(n - 1) : d.comps[k].id \in InCfg(was) \cup was.said \/ IsUsermod(d.comps[k])
    BY <2>2 DEF CfgUpto
  <2> HIDE DEF was, r
  <2>4. \A k \in 1..N : d.comps[k].id # None BY <1>1 DEF Ids
  <2>5. n \in Nat /\ c.id # None BY <1>1, <2>4
  <2> HIDE DEF c
  <2>6. /\ IsCfg(r)
        /\ InCfg(was) \subseteq InCfg(r) \cup {None} /\ was.said \subseteq r.said
        /\ c.id \in InCfg(r) \cup r.said \/ IsUsermod(c)
    BY <2>1, <2>3, <2>5, Places
  <2>7. ASSUME NEW k \in 1..n
        PROVE  d.comps[k].id \in InCfg(r) \cup r.said \/ IsUsermod(d.comps[k])
    <3>1. k \in 1..(n - 1) \/ k = n BY <2>5
    <3>2. k \in 1..N BY <1>1, <2>5
    <3> QED BY <2>3, <2>4, <2>6, <3>1, <3>2 DEF c
  <2>8. CfgUpto(d, n) BY <2>6, <2>7 DEF CfgUpto, r
  <2> HIDE DEF N
  <2> QED BY <1>1, <2>8
<1>4. 0..N \subseteq S
  <2> HIDE DEF S, N
  <2> QED BY <1>1, <1>2, <1>3, Climbs
<1>5. N \in 0..N
  <2> HIDE DEF S, N
  <2> QED BY <1>1
<1> HIDE DEF N
<1> QED BY <1>4, <1>5 DEF N

\* A usermod that is compiled in stays so.
OverrideUpto(d, n) ==
    LET build == OverrideRuns(d)[n] IN
    /\ build = [flags |-> build.flags, said |-> build.said]
    /\ \A k \in 1..n : IsUsermod(d.comps[k]) =>
          /\ d.comps[k].id \in CompiledIn(build) \cup build.said
          /\ DOMAIN build.flags # {}

LEMMA Compiles ==
    ASSUME NEW d, NEW build, build = [flags |-> build.flags, said |-> build.said], NEW c
    PROVE  LET next == CompileIn(d, build, c) IN
             /\ next = [flags |-> next.flags, said |-> next.said]
             /\ CompiledIn(build) \subseteq CompiledIn(next) /\ build.said \subseteq next.said
             /\ DOMAIN build.flags \subseteq DOMAIN next.flags
             /\ IsUsermod(c) => /\ c.id \in CompiledIn(next) \cup next.said
                                /\ DOMAIN next.flags # {}
<1> DEFINE next == CompileIn(d, build, c)
           block == BlocksOf(c).wled
           more == Put(build.flags, block.define, c.id)
           told == [flags |-> build.flags, said |-> build.said \cup {c.id}]
           once == [flags |-> more, said |-> build.said]
           both == [flags |-> more, said |-> build.said \cup {c.id}]
<1>1. IsUsermod(c) <=> ~(block = None \/ block.kind # "usermod") BY DEF IsUsermod
<1>2. CASE ~IsUsermod(c)
  <2>1. next = build BY <1>1, <1>2, Zenon DEF CompileIn
  <2> QED BY <1>2, <2>1
<1>3. CASE IsUsermod(c)
  <2>1. /\ told = [build EXCEPT !.said = @ \cup {c.id}]
        /\ once = [build EXCEPT !.flags = Put(@, block.define, c.id)]
        /\ both = [told EXCEPT !.flags = Put(@, block.define, c.id)]
    <3> HIDE DEF block
    <3>1. /\ told.flags = build.flags BY DEF told
    <3> QED BY <3>1
  <2>2. next = IF block.define \in DOMAIN build.flags THEN told
               ELSE IF IsWired(d, c, block.defines) THEN once ELSE both
    BY <1>1, <1>3, <2>1, Zenon DEF CompileIn
  <2>3. /\ DOMAIN more = {block.define} \cup DOMAIN build.flags
        /\ more[block.define] = c.id
        /\ \A f \in DOMAIN build.flags : f # block.define => more[f] = build.flags[f]
    BY DEF Put
  <2> HIDE DEF more, next, block
  <2>4. CASE block.define \in DOMAIN build.flags
    <3>1. next = told BY <2>2, <2>4
    <3>2. next.flags = build.flags /\ next.said = build.said \cup {c.id} BY <3>1
    <3> QED BY <2>4, <3>1, <3>2 DEF CompiledIn, next
  <2>5. CASE block.define \notin DOMAIN build.flags
    <3>1. next = once \/ next = both BY <2>2, <2>5
    <3>2. next.flags = more /\ build.said \subseteq next.said
          /\ next = [flags |-> next.flags, said |-> next.said]
      BY <3>1
    <3>3. CompiledIn(build) \subseteq CompiledIn(next) /\ c.id \in CompiledIn(next)
      BY <2>3, <2>5, <3>2 DEF CompiledIn
    <3> QED BY <2>3, <3>2, <3>3 DEF next
  <2> QED BY <2>4, <2>5
<1> QED BY <1>2, <1>3

LEMMA OverrideHasAll ==
    ASSUME NEW d, IsDocument(d)
    PROVE  OverrideUpto(d, Len(d.comps))
<1> DEFINE N == Len(d.comps)
           S == {n \in 0..N : OverrideUpto(d, n)}
<1>1. N \in Nat /\ DOMAIN d.comps = 1..N BY DocumentFacts
<1>2. 0 \in S
  <2> DEFINE r == OverrideRuns(d)[0]
  <2>1. r = [flags |-> <<>>, said |-> {}] BY <1>1, OverrideRunsAre
  <2> HIDE DEF r
  <2>2. r = [flags |-> r.flags, said |-> r.said] BY <2>1
  <2>3. 1..0 = {} OBVIOUS
  <2>4. OverrideUpto(d, 0) BY <2>2, <2>3 DEF OverrideUpto, r
  <2> HIDE DEF N
  <2> QED BY <1>1, <2>4
<1>3. ASSUME NEW n \in 1..N, n - 1 \in S PROVE n \in S
  <2> DEFINE was == OverrideRuns(d)[n - 1]
             r == OverrideRuns(d)[n]
             c == d.comps[n]
  <2>1. r = CompileIn(d, was, c) BY <1>1, OverrideRunsAre
  <2>2. OverrideUpto(d, n - 1) BY <1>3
  <2>3. /\ was = [flags |-> was.flags, said |-> was.said]
        /\ \A k \in 1..(n - 1) : IsUsermod(d.comps[k]) =>
              /\ d.comps[k].id \in CompiledIn(was) \cup was.said
              /\ DOMAIN was.flags # {}
    BY <2>2 DEF OverrideUpto
  <2> HIDE DEF was, r, c
  <2>4. /\ r = [flags |-> r.flags, said |-> r.said]
        /\ CompiledIn(was) \subseteq CompiledIn(r) /\ was.said \subseteq r.said
        /\ DOMAIN was.flags \subseteq DOMAIN r.flags
        /\ IsUsermod(c) => /\ c.id \in CompiledIn(r) \cup r.said
                           /\ DOMAIN r.flags # {}
    <3>1. was = [flags |-> was.flags, said |-> was.said] BY <2>3
    <3> QED BY ONLY <2>1, <3>1, Compiles
  <2>5. ASSUME NEW k \in 1..n, IsUsermod(d.comps[k])
        PROVE  d.comps[k].id \in CompiledIn(r) \cup r.said /\ DOMAIN r.flags # {}
    <3>1. k \in 1..(n - 1) \/ k = n BY <1>1
    <3> QED BY <2>3, <2>4, <2>5, <3>1 DEF c
  <2>6. OverrideUpto(d, n) BY <2>4, <2>5 DEF OverrideUpto, r
  <2> HIDE DEF N
  <2> QED BY <1>1, <2>6
<1>4. 0..N \subseteq S
  <2> HIDE DEF S, N
  <2> QED BY <1>1, <1>2, <1>3, Climbs
<1>5. N \in 0..N
  <2> HIDE DEF S, N
  <2> QED BY <1>1
<1> HIDE DEF N
<1> QED BY <1>4, <1>5 DEF N

\* Every part is in cfg.json or compiled in, or one of the two names it; with
\* nothing to compile in, cfg.json alone does (targets/wled.py).
LEMMA WledIsTold ==
    ASSUME NEW d, IsDocument(d), None \notin Ids(d.comps)
    PROVE  WledTells(d)
<1> SUFFICES ASSUME HasImage(d), NEW c \in DOMAIN d.comps
             PROVE  LET id == d.comps[c].id IN
                    /\ id \in InCfg(Cfg(d)) \cup CompiledIn(Override(d)) \cup WledWarnings(d)
                    /\ ~WledBuilds(d) => id \in InCfg(Cfg(d)) \cup Cfg(d).said
  BY DEF WledTells, InWled
<1> DEFINE id == d.comps[c].id
           cfg == Cfg(d)
           build == Override(d)
<1>1. c \in 1..Len(d.comps) BY DocumentFacts
<1>2. id \in InCfg(cfg) \cup cfg.said \/ IsUsermod(d.comps[c])
  <2>1. CfgUpto(d, Len(d.comps)) BY CfgHasAll
  <2> QED BY <1>1, <2>1 DEF CfgUpto, Cfg
<1>3. IsUsermod(d.comps[c]) =>
         id \in CompiledIn(build) \cup build.said /\ DOMAIN build.flags # {}
  <2>1. OverrideUpto(d, Len(d.comps)) BY OverrideHasAll
  <2> QED BY <1>1, <2>1 DEF OverrideUpto, Override
<1>4. WledWarnings(d) = cfg.said \cup build.said BY DEF WledWarnings
<1>5. ~WledBuilds(d) => DOMAIN build.flags = {} BY DEF WledBuilds
<1> HIDE DEF id, cfg, build
<1> QED BY <1>2, <1>3, <1>4, <1>5 DEF id, cfg, build

\* Of whatever document, WLED's cfg.json or build has every part, or one of the
\* two names it among its warnings; and where nothing is to be compiled in,
\* cfg.json alone does (targets/wled.py).
THEOREM WledTold == \A d : IsDocument(d) /\ None \notin Ids(d.comps) => WledTells(d)
<1> QED BY WledIsTold

\* So in every session, of the design the tools leave (agent/tools.py).
THEOREM PartsAreTold ==
    Spec => [](None \notin Ids(design.comps) \cup Ids(design.buses) =>
                  CodeTells(design) /\ WledTells(design))
<1> DEFINE Told == None \notin Ids(design.comps) \cup Ids(design.buses) =>
                      CodeTells(design) /\ WledTells(design)
<1>1. DocumentRead => Told BY ProgramsTell, WledTold DEF DocumentRead
<1> HIDE DEF Told
<1>2. Spec => []Told BY <1>1, DocumentStaysRead, PTL
<1> QED BY <1>2 DEF Told
=============================================================================
