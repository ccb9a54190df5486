--------------------------- MODULE DeliveryProofs ---------------------------
(***************************************************************************)
(* That delivery keeps to its properties: what normalize_intervals returns *)
(* for every finite set of intervals, the byte ledger of a Free download   *)
(* for any number of responses and any file size, and the content requests *)
(* and browser grants of a download for any number of them.                *)
(*                                                                         *)
(* The union is defined by recursion over a set.  Its proof is an          *)
(* induction in the form of a least counterexample (LeastNumber): take the *)
(* smallest set for which the recursion goes wrong and remove its last     *)
(* interval.                                                               *)
(***************************************************************************)
EXTENDS MCDelivery, CommerceProofs

-----------------------------------------------------------------------------
(* The union of intervals *)

Pairs == Nat \X Nat

\* The last interval of a set in Python's order, and one turn of the recursion.
Latest(rest) == CHOOSE iv \in rest : \A jv \in rest : Before(jv, iv)
Turn(g, rest) ==
    IF rest = {} THEN <<>> ELSE MergeStep(g[rest \ {Latest(rest)}], Latest(rest))
Kept(ivs) == {iv \in ivs : iv[2] > iv[1]}

\* normalize_intervals by its turns.
LEMMA Recursion ==
    ASSUME NEW ivs
    PROVE  NormalizeIntervals(ivs) = (CHOOSE f : f = [rest \in SUBSET Kept(ivs) |-> Turn(f, rest)])[Kept(ivs)]
BY DEF NormalizeIntervals, Turn, Latest, Kept

\* A finite set of intervals has a last one in the order Python sorts by.
LEMMA LatestExists ==
    ASSUME NEW S \in SUBSET Pairs, IsFiniteSet(S), S # {}
    PROVE  Latest(S) \in S /\ \A jv \in S : Before(jv, Latest(S))
<1> DEFINE Has(rest) == \E iv \in rest : \A jv \in rest : Before(jv, iv)
           T == {n \in Nat : \E rest \in SUBSET Pairs : IsFiniteSet(rest) /\ rest # {} /\ Cardinality(rest) = n /\ ~ Has(rest)}
<1>1. T = {}
  <2> SUFFICES ASSUME T # {} PROVE FALSE
      OBVIOUS
  <2>1. PICK n \in T : \A k \in T : n <= k
    <3>1. T \in SUBSET Nat
        OBVIOUS
    <3> QED BY <3>1, LeastNumber
  <2>2. PICK rest \in SUBSET Pairs : IsFiniteSet(rest) /\ rest # {} /\ Cardinality(rest) = n /\ ~ Has(rest)
      BY <2>1
  <2>3. PICK x \in rest : TRUE
      BY <2>2
  <2> DEFINE less == rest \ {x}
  <2>4. IsFiniteSet(less) /\ Cardinality(less) = n - 1 /\ n - 1 \in Nat
    <3>1. IsFiniteSet(less) /\ Cardinality(less) = Cardinality(rest) - 1
        BY <2>2, <2>3, FS_RemoveElement
    <3>2. Cardinality(less) \in Nat
        BY <3>1, FS_CardinalityType
    <3> QED BY <2>2, <3>1, <3>2
  <2>5. less = {} \/ Has(less)
    <3>1. n - 1 \notin T
        BY <2>1, <2>4
    <3>2. less \in SUBSET Pairs
        OBVIOUS
    <3> HIDE DEF less, Has
    <3> QED BY <2>4, <3>1, <3>2
  <2>6. Before(x, x)
      BY DEF Before, Pairs
  <2>7. CASE less = {}
    <3>1. \A jv \in rest : jv = x
        BY <2>7
    <3> QED BY <2>2, <2>3, <2>6, <3>1
  <2>8. CASE Has(less)
    <3>1. PICK iv \in less : \A jv \in less : Before(jv, iv)
        BY <2>8
    <3>2. CASE Before(x, iv)
      <4>1. \A jv \in rest : Before(jv, iv)
          BY <3>1, <3>2
      <4> QED BY <4>1, <3>1, <2>2
    <3>3. CASE ~ Before(x, iv)
      <4>1. Before(iv, x)
          BY <3>3 DEF Before, Pairs
      <4>2. \A jv \in less : Before(jv, x)
          BY <3>1, <4>1 DEF Before, Pairs
      <4>3. \A jv \in rest : Before(jv, x)
          BY <4>2, <2>6
      <4> QED BY <4>3, <2>3, <2>2
    <3> QED BY <3>2, <3>3
  <2> QED BY <2>5, <2>7, <2>8
<1>2. Has(S)
  <2>1. Cardinality(S) \in Nat
      BY FS_CardinalityType
  <2> HIDE DEF Has
  <2> QED BY <1>1, <2>1
<1> QED BY <1>2 DEF Latest

\* The recursion defines a function on every subset of a finite set.
LEMMA RecursionIsSound ==
    ASSUME NEW kept \in SUBSET Pairs, IsFiniteSet(kept)
    PROVE  \E f : f = [rest \in SUBSET kept |-> Turn(f, rest)]
<1> DEFINE D(n) == {r \in SUBSET kept : Cardinality(r) <= n}
           Has(n) == \E g : g = [rest \in D(n) |-> Turn(g, rest)]
           T == {n \in Nat : ~ Has(n)}
<1>1. \A r \in SUBSET kept : IsFiniteSet(r) /\ Cardinality(r) \in Nat /\ Cardinality(r) <= Cardinality(kept)
    BY FS_Subset, FS_CardinalityType
<1>2. T = {}
  <2> SUFFICES ASSUME T # {} PROVE FALSE
      OBVIOUS
  <2>1. PICK n \in T : \A k \in T : n <= k
    <3>1. T \in SUBSET Nat
        OBVIOUS
    <3> HIDE DEF T
    <3> QED BY <3>1, LeastNumber
  <2>2. CASE n = 0
    <3>1. \A r \in D(0) : r = {}
      <4>1. \A r \in D(0) : IsFiniteSet(r) /\ Cardinality(r) = 0
          BY <1>1
      <4> QED BY <4>1, FS_EmptySet
    <3> DEFINE g == [rest \in D(0) |-> <<>>]
    <3>2. \A rest \in D(0) : Turn(g, rest) = <<>>
        BY <3>1 DEF Turn
    <3>3. g = [rest \in D(0) |-> Turn(g, rest)]
        BY <3>2, Zenon
    <3> QED BY <2>1, <2>2, <3>3
  <2>3. CASE n # 0
    <3> n \in Nat
        OBVIOUS
    <3>0. n - 1 \in Nat /\ ~ (n <= n - 1)
        BY <2>3
    <3>1. n - 1 \in Nat /\ n - 1 \notin T
      <4> HIDE DEF T
      <4> QED BY <2>1, <3>0
    <3>2. Has(n - 1)
        BY <3>1
    <3>3. PICK g : g = [rest \in D(n - 1) |-> Turn(g, rest)]
        BY <3>2
    <3> DEFINE h == [rest \in D(n) |-> Turn(g, rest)]
    <3>4. ASSUME NEW rest \in D(n) PROVE Turn(h, rest) = Turn(g, rest)
      <4>1. CASE rest = {}
          BY <4>1 DEF Turn
      <4>2. CASE rest # {}
        <5> DEFINE r == rest \ {Latest(rest)}
        <5>1. Latest(rest) \in rest
            BY <1>1, <4>2, LatestExists
        <5>2. Cardinality(r) = Cardinality(rest) - 1 /\ Cardinality(r) \in Nat
            BY <1>1, <5>1, FS_RemoveElement
        <5>3. r \in D(n) /\ r \in D(n - 1)
            BY <1>1, <5>2, <3>1
        <5>4. h[r] = Turn(g, r)
            BY <5>3
        <5>5. g[r] = Turn(g, r)
            BY <5>3, <3>3
        <5> QED BY <4>2, <5>4, <5>5 DEF Turn
      <4> QED BY <4>1, <4>2
    <3>5. h = [rest \in D(n) |-> Turn(h, rest)]
        BY <3>4, Zenon
    <3> QED BY <2>1, <3>5
  <2> QED BY <2>2, <2>3
<1>3. Has(Cardinality(kept))
  <2>1. Cardinality(kept) \in Nat
      BY FS_CardinalityType
  <2> HIDE DEF Has
  <2> QED BY <1>2, <2>1
<1>4. D(Cardinality(kept)) = SUBSET kept
    BY <1>1
<1> QED BY <1>3, <1>4
\* What is known of the union of a set of intervals: it is a sequence of non-empty
\* intervals in order, with a gap between any two, over the same bytes.
Canonical(m, ivs) ==
    /\ m \in Seq(Pairs)
    /\ \A i \in 1..Len(m) : m[i][1] < m[i][2]
    /\ \A i, j \in 1..Len(m) : i < j => m[i][2] < m[j][1]
    /\ BytesOf(ToSet(m)) = BytesOf(ivs)
    /\ m # <<>> => \E iv \in ivs : m[Len(m)][1] = iv[1]

\* When a byte is one of a set of intervals, and of a sequence of them.
LEMMA ByteOf ==
    ASSUME NEW ivs \in SUBSET Pairs, NEW x
    PROVE  x \in BytesOf(ivs) <=> x \in Nat /\ \E iv \in ivs : iv[1] <= x /\ x < iv[2]
<1>1. \A iv \in Pairs : x \in Bytes(iv) <=> x \in Nat /\ iv[1] <= x /\ x < iv[2]
    BY DEF Bytes, Pairs
<1> QED BY <1>1 DEF BytesOf

\* The bytes of a sequence of intervals.
LEMMA ByteOfSeq ==
    ASSUME NEW m \in Seq(Pairs), NEW x
    PROVE  x \in BytesOf(ToSet(m)) <=> x \in Nat /\ \E i \in 1..Len(m) : m[i][1] <= x /\ x < m[i][2]
<1>1. ToSet(m) = {m[i] : i \in 1..Len(m)} /\ \A i \in 1..Len(m) : m[i] \in Pairs
    BY DEF ToSet
<1>2. ToSet(m) \in SUBSET Pairs
    BY <1>1
<1> QED BY <1>1, <1>2, ByteOf

\* One turn: merging an interval that sorts last keeps the union canonical.
LEMMA MergeIsCanonical ==
    ASSUME NEW ivs \in SUBSET Pairs, NEW iv \in Pairs, NEW m, Canonical(m, ivs), iv[1] < iv[2],
           \A jv \in ivs : Before(jv, iv)
    PROVE  Canonical(MergeStep(m, iv), ivs \cup {iv})
<1> DEFINE n == MergeStep(m, iv)
           all == ivs \cup {iv}
<1>1. all \in SUBSET Pairs /\ m \in Seq(Pairs) /\ Len(m) \in Nat
    BY DEF Canonical
<1>2. \A i \in 1..Len(m) : m[i] \in Pairs /\ m[i][1] \in Nat /\ m[i][2] \in Nat
    BY <1>1 DEF Pairs
<1>3. iv[1] \in Nat /\ iv[2] \in Nat
    BY DEF Pairs
<1>4. m # <<>> => Len(m) >= 1 /\ m[Len(m)][1] <= iv[1]
  <2> SUFFICES ASSUME m # <<>> PROVE Len(m) >= 1 /\ m[Len(m)][1] <= iv[1]
      OBVIOUS
  <2>1. Len(m) >= 1
      BY <1>1
  <2>2. PICK jv \in ivs : m[Len(m)][1] = jv[1]
      BY DEF Canonical
  <2>3. jv[1] <= iv[1]
      BY DEF Before, Pairs
  <2> QED BY <2>1, <2>2, <2>3
<1>5. Last(m) = m[Len(m)]
    BY DEF Last
<1>6. CASE m = <<>> \/ iv[1] > m[Len(m)][2]
  <2>1. n = Append(m, iv)
      BY <1>5, <1>6 DEF MergeStep
  <2>2. n \in Seq(Pairs) /\ Len(n) = Len(m) + 1 /\ n[Len(m) + 1] = iv /\ (\A i \in 1..Len(m) : n[i] = m[i])
      BY <1>1, <2>1
  <2>3. \A i \in 1..Len(m) : m[i][2] < iv[1]
    <3> SUFFICES ASSUME NEW i \in 1..Len(m) PROVE m[i][2] < iv[1]
        OBVIOUS
    <3>1. Len(m) >= 1 /\ Len(m) \in 1..Len(m) /\ m # <<>> /\ i <= Len(m)
        BY <1>1
    <3>2. i = Len(m) \/ m[i][2] < m[Len(m)][1]
        BY <3>1 DEF Canonical
    <3> QED BY <1>2, <1>3, <1>6, <3>1, <3>2, <1>4
  <2>4. \A i \in 1..Len(n) : n[i][1] < n[i][2]
      BY <1>1, <2>2 DEF Canonical
  <2>5. \A i, j \in 1..Len(n) : i < j => n[i][2] < n[j][1]
    <3> SUFFICES ASSUME NEW i \in 1..Len(n), NEW j \in 1..Len(n), i < j PROVE n[i][2] < n[j][1]
        OBVIOUS
    <3>1. i \in 1..Len(m) /\ n[i] = m[i] /\ ((j \in 1..Len(m) /\ n[j] = m[j]) \/ n[j] = iv)
        BY <1>1, <2>2
    <3> QED BY <3>1, <2>3 DEF Canonical
  <2>6. ASSUME NEW x PROVE x \in BytesOf(ToSet(n)) <=> x \in BytesOf(all)
    <3>1. x \in BytesOf(ToSet(n)) <=> x \in Nat /\ \E i \in 1..Len(n) : n[i][1] <= x /\ x < n[i][2]
        BY <2>2, ByteOfSeq
    <3>2. x \in BytesOf(ToSet(m)) <=> x \in Nat /\ \E i \in 1..Len(m) : m[i][1] <= x /\ x < m[i][2]
        BY <1>1, ByteOfSeq
    <3>3. x \in BytesOf(all) <=> x \in Nat /\ \E jv \in all : jv[1] <= x /\ x < jv[2]
        BY <1>1, ByteOf
    <3>4. x \in BytesOf(ivs) <=> x \in Nat /\ \E jv \in ivs : jv[1] <= x /\ x < jv[2]
        BY ByteOf
    <3>5. (\E i \in 1..Len(n) : n[i][1] <= x /\ x < n[i][2]) <=>
             (iv[1] <= x /\ x < iv[2]) \/ (\E i \in 1..Len(m) : m[i][1] <= x /\ x < m[i][2])
        BY <1>1, <2>2
    <3> HIDE DEF n
    <3> QED BY <3>1, <3>2, <3>3, <3>4, <3>5 DEF Canonical
  <2>7. BytesOf(ToSet(n)) = BytesOf(all)
      BY <2>6
  <2>8. \E jv \in all : n[Len(n)][1] = jv[1]
      BY <2>2
  <2> HIDE DEF n, all
  <2> QED BY <2>2, <2>4, <2>5, <2>7, <2>8 DEF Canonical, n, all
<1>7. CASE ~ (m = <<>> \/ iv[1] > m[Len(m)][2])
  <2> DEFINE k == Len(m)
             e == IF iv[2] > m[k][2] THEN iv[2] ELSE m[k][2]
  <2>1. k >= 1 /\ k \in 1..Len(m) /\ m[k][1] <= iv[1] /\ iv[1] <= m[k][2] /\ k \in Nat
      BY <1>1, <1>2, <1>3, <1>4, <1>7
  <2>2. e \in Nat /\ iv[2] <= e /\ m[k][2] <= e /\ (e = iv[2] \/ e = m[k][2])
      BY <1>2, <1>3, <2>1
  <2>3. n = [m EXCEPT ![k] = <<m[k][1], e>>]
      BY <1>5, <1>7 DEF MergeStep
  <2> HIDE DEF e
  <2>4. <<m[k][1], e>> \in Pairs
      BY <1>2, <2>1, <2>2 DEF Pairs
  <2>5. n \in Seq(Pairs) /\ Len(n) = k /\ n[k] = <<m[k][1], e>> /\ \A i \in 1..k : i # k => n[i] = m[i]
      BY <1>1, <2>1, <2>3, <2>4
  <2> HIDE DEF n
  <2>6. n[k][1] = m[k][1] /\ n[k][2] = e
      BY <2>5
  <2>7. \A i \in 1..Len(n) : n[i][1] < n[i][2]
    <3>1. n[k][1] < n[k][2]
        BY <1>2, <1>3, <2>1, <2>2, <2>6
    <3> QED BY <2>1, <2>5, <3>1 DEF Canonical
  <2>8. \A i, j \in 1..Len(n) : i < j => n[i][2] < n[j][1]
    <3> SUFFICES ASSUME NEW i \in 1..k, NEW j \in 1..k, i < j PROVE n[i][2] < n[j][1]
        BY <2>5
    <3>1. i # k /\ n[i] = m[i] /\ n[j][1] = m[j][1]
        BY <2>1, <2>5, <2>6
    <3> QED BY <3>1 DEF Canonical
  <2>9. ASSUME NEW x PROVE x \in BytesOf(ToSet(n)) <=> x \in BytesOf(all)
    <3>1. x \in BytesOf(ToSet(n)) <=> x \in Nat /\ \E i \in 1..k : n[i][1] <= x /\ x < n[i][2]
        BY <2>5, ByteOfSeq
    <3>2. x \in BytesOf(ToSet(m)) <=> x \in Nat /\ \E i \in 1..k : m[i][1] <= x /\ x < m[i][2]
        BY <1>1, ByteOfSeq
    <3>3. x \in BytesOf(all) <=> x \in Nat /\ \E jv \in all : jv[1] <= x /\ x < jv[2]
        BY <1>1, ByteOf
    <3>4. x \in BytesOf(ivs) <=> x \in Nat /\ \E jv \in ivs : jv[1] <= x /\ x < jv[2]
        BY ByteOf
    <3>5. x \in Nat => (n[k][1] <= x /\ x < n[k][2] <=> (m[k][1] <= x /\ x < m[k][2]) \/ (iv[1] <= x /\ x < iv[2]))
        BY <1>2, <1>3, <2>1, <2>2, <2>6
    <3>6. x \in Nat => ((\E i \in 1..k : n[i][1] <= x /\ x < n[i][2]) <=>
             (iv[1] <= x /\ x < iv[2]) \/ (\E i \in 1..k : m[i][1] <= x /\ x < m[i][2]))
        BY <2>1, <2>5, <3>5
    <3> QED BY <3>1, <3>2, <3>3, <3>4, <3>6 DEF Canonical
  <2>10. BytesOf(ToSet(n)) = BytesOf(all)
      BY <2>9
  <2>11. \E jv \in all : n[Len(n)][1] = jv[1]
      BY <2>5, <2>6, <2>1 DEF Canonical
  <2> QED BY <2>5, <2>7, <2>8, <2>10, <2>11 DEF Canonical, n
<1> QED BY <1>6, <1>7
\* The union of any finite set of intervals is canonical.
LEMMA NormalizeIsCanonical ==
    ASSUME NEW ivs \in SUBSET Pairs, IsFiniteSet(ivs)
    PROVE  Canonical(NormalizeIntervals(ivs), ivs)
<1> DEFINE kept == Kept(ivs)
<1>1. kept \in SUBSET Pairs /\ IsFiniteSet(kept) /\ \A iv \in kept : iv[1] < iv[2]
  <2>1. kept \in SUBSET ivs
      BY DEF Kept
  <2>2. \A iv \in kept : iv[1] < iv[2]
      BY <2>1 DEF Kept, Pairs
  <2> QED BY <2>1, <2>2, FS_Subset
<1> HIDE DEF kept
<1> DEFINE f == CHOOSE g : g = [rest \in SUBSET kept |-> Turn(g, rest)]
<1>2. f = [rest \in SUBSET kept |-> Turn(f, rest)]
    BY <1>1, RecursionIsSound
<1>3. NormalizeIntervals(ivs) = f[kept]
    BY Recursion DEF kept
<1> HIDE DEF f
<1>4. \A r \in SUBSET kept : IsFiniteSet(r) /\ Cardinality(r) \in Nat /\ r \in SUBSET Pairs
    BY <1>1, FS_Subset, FS_CardinalityType
<1> DEFINE T == {n \in Nat : \E r \in SUBSET kept : Cardinality(r) = n /\ ~ Canonical(f[r], r)}
<1>5. T = {}
  <2> SUFFICES ASSUME T # {} PROVE FALSE
      OBVIOUS
  <2>1. PICK n \in T : \A k \in T : n <= k
    <3>1. T \in SUBSET Nat
        OBVIOUS
    <3> HIDE DEF T
    <3> QED BY <3>1, LeastNumber
  <2>2. PICK r \in SUBSET kept : Cardinality(r) = n /\ ~ Canonical(f[r], r)
      BY <2>1
  <2>3. f[r] = Turn(f, r)
      BY <1>2
  <2>4. CASE r = {}
    <3>1. f[r] = <<>>
        BY <2>3, <2>4 DEF Turn
    <3>2. BytesOf(ToSet(<<>>)) = {} /\ BytesOf({}) = {}
      <4>1. ToSet(<<>>) = {}
          BY DEF ToSet
      <4>2. BytesOf({}) = {}
          BY DEF BytesOf
      <4> QED BY <4>1, <4>2
    <3>3. Canonical(<<>>, {})
      <4>1. <<>> \in Seq(Pairs) /\ Len(<<>>) = 0 /\ 1..0 = {}
          OBVIOUS
      <4> QED BY <3>2, <4>1, Zenon DEF Canonical
    <3> QED BY <2>2, <2>4, <3>1, <3>3
  <2>5. CASE r # {}
    <3> DEFINE last == Latest(r)
               less == r \ {last}
    <3>1. last \in r /\ \A jv \in r : Before(jv, last)
        BY <1>4, <2>5, LatestExists
    <3>2. f[r] = MergeStep(f[less], last)
        BY <2>3, <2>5 DEF Turn
    <3>3. Cardinality(less) = n - 1 /\ Cardinality(less) \in Nat /\ less \in SUBSET kept /\ less \in SUBSET Pairs
        BY <1>4, <2>2, <3>1, FS_RemoveElement
    <3> HIDE DEF last
    <3> n \in Nat
        OBVIOUS
    <3>4. Canonical(f[less], less)
      <4>1. Cardinality(less) \notin T
        <5> HIDE DEF T
        <5> QED BY <2>1, <3>3
      <4> HIDE DEF less
      <4> QED BY <4>1, <3>3
    <3>5. last \in Pairs /\ last[1] < last[2] /\ \A jv \in less : Before(jv, last)
        BY <1>1, <1>4, <3>1
    <3>6. r = less \cup {last}
        BY <3>1
    <3>7. Canonical(MergeStep(f[less], last), less \cup {last})
      <4> HIDE DEF less
      <4> QED BY <3>3, <3>4, <3>5, MergeIsCanonical
    <3> HIDE DEF less
    <3> QED BY <2>2, <3>2, <3>6, <3>7
  <2> QED BY <2>4, <2>5
<1>6. Canonical(f[kept], kept)
    BY <1>4, <1>5
<1>7. BytesOf(kept) = BytesOf(ivs)
  <2>1. ASSUME NEW x PROVE x \in BytesOf(kept) <=> x \in BytesOf(ivs)
    <3>1. x \in BytesOf(ivs) <=> x \in Nat /\ \E jv \in ivs : jv[1] <= x /\ x < jv[2]
        BY ByteOf
    <3>2. x \in BytesOf(kept) <=> x \in Nat /\ \E jv \in kept : jv[1] <= x /\ x < jv[2]
        BY <1>1, ByteOf
    <3>3. \A jv \in ivs : x \in Nat /\ jv[1] <= x /\ x < jv[2] => jv \in kept
        BY DEF kept, Kept, Pairs
    <3>4. kept \subseteq ivs
        BY DEF kept, Kept
    <3> QED BY <3>1, <3>2, <3>3, <3>4
  <2> QED BY <2>1
<1>8. kept \subseteq ivs
    BY DEF kept, Kept
<1> QED BY <1>3, <1>6, <1>7, <1>8 DEF Canonical

\* Complete delivery is the one interval that _consume_if_complete compares with.
LEMMA CompleteIsOneInterval ==
    ASSUME NEW ivs \in SUBSET Pairs, IsFiniteSet(ivs), NEW size \in Nat \ {0}
    PROVE  NormalizeIntervals(ivs) = <<<<0, size>>>> <=> BytesOf(ivs) = 0..(size - 1)
<1> DEFINE m == NormalizeIntervals(ivs)
<1>1. Canonical(m, ivs)
    BY NormalizeIsCanonical
<1> HIDE DEF m
<1>2. m \in Seq(Pairs) /\ Len(m) \in Nat /\ \A i \in 1..Len(m) : m[i] \in Pairs /\ m[i][1] \in Nat /\ m[i][2] \in Nat /\ m[i][1] < m[i][2]
    BY <1>1 DEF Canonical, Pairs
<1>3. \A x : x \in BytesOf(ivs) <=> x \in Nat /\ \E i \in 1..Len(m) : m[i][1] <= x /\ x < m[i][2]
    BY <1>1, <1>2, ByteOfSeq DEF Canonical
<1>4. ASSUME m = <<<<0, size>>>> PROVE BytesOf(ivs) = 0..(size - 1)
  <2>1. Len(m) = 1 /\ m[1][1] = 0 /\ m[1][2] = size
      BY <1>4
  <2>2. \A x : x \in BytesOf(ivs) <=> x \in 0..(size - 1)
      BY <2>1, <1>3
  <2> QED BY <2>2
<1>5. ASSUME BytesOf(ivs) = 0..(size - 1) PROVE m = <<<<0, size>>>>
  <2>1. PICK k \in 1..Len(m) : m[k][1] <= 0 /\ 0 < m[k][2]
    <3>1. 0 \in BytesOf(ivs)
        BY <1>5
    <3>2. \E k \in 1..Len(m) : m[k][1] <= 0 /\ 0 < m[k][2]
        BY <3>1, <1>3
    <3> QED BY <3>2
  <2>2. m[k][2] = size
    <3>1. m[k][2] - 1 \in BytesOf(ivs)
      <4> DEFINE x == m[k][2] - 1
      <4>1. x \in Nat /\ m[k][1] <= x /\ x < m[k][2]
          BY <1>2, <2>1
      <4> HIDE DEF x
      <4>2. x \in BytesOf(ivs)
          BY <1>3, <4>1
      <4> QED BY <4>2 DEF x
    <3>2. m[k][2] <= size
        BY <3>1, <1>2, <1>5
    <3>3. CASE m[k][2] < size
      <4>1. m[k][2] \in BytesOf(ivs)
          BY <3>3, <1>2, <1>5
      <4>2. PICK j \in 1..Len(m) : m[j][1] <= m[k][2] /\ m[k][2] < m[j][2]
          BY <4>1, <1>3
      <4>3. j # k /\ (j < k \/ k < j)
          BY <4>2, <1>2
      <4>4. j < k => m[j][2] < m[k][1]
          BY <1>1 DEF Canonical
      <4>5. k < j => m[k][2] < m[j][1]
          BY <1>1 DEF Canonical
      <4> QED BY <1>2, <2>1, <4>2, <4>3, <4>4, <4>5
    <3> QED BY <3>2, <3>3, <1>2
  <2>3. m[k][1] = 0 /\ m[k] = <<0, size>>
      BY <1>2, <2>1, <2>2 DEF Pairs
  <2>4. \A j \in 1..Len(m) : j = k
    <3> SUFFICES ASSUME NEW j \in 1..Len(m), j # k PROVE FALSE
        OBVIOUS
    <3>1. m[j][1] \in 0..(size - 1)
      <4>1. m[j][1] \in Nat /\ m[j][1] <= m[j][1] /\ m[j][1] < m[j][2]
          BY <1>2
      <4>2. m[j][1] \in BytesOf(ivs)
          BY <1>3, <4>1
      <4> QED BY <1>5, <4>2
    <3>2. j < k => m[j][2] < m[k][1]
        BY <1>1 DEF Canonical
    <3>3. k < j => m[k][2] < m[j][1]
        BY <1>1 DEF Canonical
    <3> QED BY <1>2, <2>3, <2>2, <3>1, <3>2, <3>3
  <2>5. Len(m) = 1 /\ k = 1
    <3>1. k \in 1..Len(m) /\ 1 \in 1..Len(m) /\ Len(m) \in 1..Len(m)
        BY <1>2
    <3> QED BY <2>4, <3>1
  <2>6. m[1] = <<0, size>>
      BY <2>3, <2>5
  <2>7. m = [i \in 1..1 |-> m[i]]
      BY <1>2, <2>5
  <2>8. <<<<0, size>>>> = [i \in 1..1 |-> <<0, size>>]
      OBVIOUS
  <2>9. \A i \in 1..1 : m[i] = <<0, size>>
      BY <2>6
  <2> QED BY <2>7, <2>8, <2>9, Zenon
<1> QED BY <1>4, <1>5 DEF m

-----------------------------------------------------------------------------
(* The ledger *)

Spans == (0..Size) \X (0..Size)

\* The bytes that a ledger row vouches for; a row that is not active has none.
RowBytes(a) == active[a].start..(active[a].served - 1)

\* A row belongs to a response that has begun.  While the response lasts, what it has
\* handed out since the start of its range lies between what was recorded and its end.
RowOK(a) ==
    IsActive(a) =>
      /\ stream[a].pc # "idle"
      /\ active[a].lease \in Nat /\ active[a].lease <= clock + LeaseTicks
      /\ stream[a].pc \in {"sending", "finalizing"} =>
           /\ active[a].served <= stream[a].at /\ stream[a].at <= active[a].end
           /\ stream[a].end = active[a].end
           /\ active[a].start..(stream[a].at - 1) \subseteq sent

LedgerInv ==
    /\ TypeOK
    /\ \A a \in Responses : RowOK(a)
    /\ LedgerIsHonest
    /\ SlotFollowsTheLedger

\* A bounded set of numbers has a greatest one.
LEMMA GreatestNumber ==
    ASSUME NEW T, T \in SUBSET Nat, T # {}, NEW u \in Nat, \A x \in T : x <= u
    PROVE  \E m \in T : \A y \in T : y <= m
<1> DEFINE U == {v \in Nat : \A x \in T : x <= v}
<1>1. U \in SUBSET Nat /\ U # {}
    OBVIOUS
<1>2. PICK m \in U : \A v \in U : m <= v
  <2> HIDE DEF U
  <2> QED BY <1>1, LeastNumber
<1>3. m \in Nat /\ \A x \in T : x <= m
    OBVIOUS
<1>4. m \in T
  <2> SUFFICES ASSUME m \notin T PROVE FALSE
      OBVIOUS
  <2>1. \A x \in T : x <= m - 1
    <3>1. \A x \in T : x \in Nat /\ x # m /\ x <= m
        BY <1>3
    <3> QED BY <1>3, <3>1
  <2>2. m - 1 \in Nat
    <3>1. PICK x \in T : x \in Nat /\ x <= m - 1
        BY <2>1
    <3> QED BY <1>3, <3>1
  <2>3. m - 1 \in U
      BY <2>1, <2>2
  <2> HIDE DEF U
  <2> QED BY <1>2, <1>3, <2>3
<1> QED BY <1>3, <1>4

\* max() of a bounded set of numbers.
LEMMA LargestIs ==
    ASSUME NEW T, T \in SUBSET Nat, T # {}, NEW u \in Nat, \A x \in T : x <= u
    PROVE  Largest(T) \in T /\ \A y \in T : y <= Largest(T)
BY GreatestNumber DEF Largest

\* The intervals of one file are finitely many.
LEMMA SpansAreFinite ==
    ASSUME NEW S \in SUBSET Spans
    PROVE  IsFiniteSet(S) /\ S \in SUBSET Pairs
<1>1. IsFiniteSet(0..Size)
    BY LedgerAssumption, FS_Interval
<1>2. IsFiniteSet(Spans)
    BY <1>1, FS_Product DEF Spans
<1>3. Spans \subseteq Pairs
    BY LedgerAssumption DEF Spans, Pairs
<1> QED BY <1>2, <1>3, FS_Subset

\* Compaction keeps the bytes and the file's bounds.
LEMMA CompactedIsExact ==
    ASSUME NEW S \in SUBSET Spans
    PROVE  Compacted(S) \in SUBSET Spans /\ BytesOf(Compacted(S)) = BytesOf(S)
<1> DEFINE m == NormalizeIntervals(S)
<1>1. Canonical(m, S)
    BY SpansAreFinite, NormalizeIsCanonical
<1> HIDE DEF m
<1>2. m \in Seq(Pairs) /\ BytesOf(ToSet(m)) = BytesOf(S)
    BY <1>1 DEF Canonical
<1>3. ASSUME NEW iv \in ToSet(m) PROVE iv \in Spans
  <2>1. PICK i \in 1..Len(m) : iv = m[i]
      BY <1>2 DEF ToSet
  <2>2. iv \in Pairs /\ iv[1] \in Nat /\ iv[2] \in Nat /\ iv[1] < iv[2] /\ iv = <<iv[1], iv[2]>>
      BY <1>1, <1>2, <2>1 DEF Canonical, Pairs
  <2> DEFINE x == iv[2] - 1
  <2>3. x \in Nat /\ iv[1] <= x /\ x < iv[2]
      BY <2>2
  <2>4. x \in BytesOf(S)
    <3> HIDE DEF x
    <3> QED BY <1>2, <2>1, <2>3, ByteOfSeq
  <2>5. PICK jv \in S : jv[1] <= x /\ x < jv[2]
    <3> HIDE DEF x
    <3> QED BY <2>4, SpansAreFinite, ByteOf
  <2>6. jv[2] \in 0..Size
      BY DEF Spans
  <2>7. iv[2] <= Size /\ iv[1] <= Size
      BY <2>2, <2>5, <2>6, LedgerAssumption
  <2> QED BY <2>2, <2>7, LedgerAssumption DEF Spans
<1> QED BY <1>2, <1>3 DEF Compacted, m

\* _consume_if_complete asks whether every byte of the file is covered.
LEMMA CompleteIsAllBytes ==
    ASSUME NEW S \in SUBSET Spans
    PROVE  Complete(NormalizeIntervals(S)) <=> BytesOf(S) = 0..(Size - 1)
BY SpansAreFinite, CompleteIsOneInterval, LedgerAssumption DEF Complete

\* The bytes of two sets of intervals.
LEMMA BytesOfUnion ==
    ASSUME NEW A, NEW B
    PROVE  BytesOf(A \cup B) = BytesOf(A) \cup BytesOf(B)
BY DEF BytesOf

\* What a set of rows adds to the ledger.
LEMMA EvidenceIs ==
    ASSUME TypeOK, NEW rows \in SUBSET Responses
    PROVE  /\ Evidence(rows) \in SUBSET Spans
           /\ BytesOf(Evidence(rows)) = UNION {RowBytes(a) : a \in rows}
<1>1. \A a \in rows : active[a].start \in 0..Size /\ active[a].served \in 0..Size /\ Served(active[a]) \in Spans
    BY DEF TypeOK, Attempts, Served, Spans
<1>2. Evidence(rows) \in SUBSET Spans
    BY <1>1 DEF Evidence
<1>3. ASSUME NEW x PROVE x \in BytesOf(Evidence(rows)) <=> \E a \in rows : x \in RowBytes(a)
  <2>1. x \in BytesOf(Evidence(rows)) <=> x \in Nat /\ \E iv \in Evidence(rows) : iv[1] <= x /\ x < iv[2]
      BY <1>2, SpansAreFinite, ByteOf
  <2>2. ASSUME x \in BytesOf(Evidence(rows)) PROVE \E a \in rows : x \in RowBytes(a)
    <3>1. PICK iv \in Evidence(rows) : x \in Nat /\ iv[1] <= x /\ x < iv[2]
        BY <2>1, <2>2
    <3>2. PICK a \in rows : iv = <<active[a].start, active[a].served>>
        BY <3>1 DEF Evidence, Served
    <3>3. x \in RowBytes(a)
        BY <1>1, <3>1, <3>2, LedgerAssumption DEF RowBytes
    <3> QED BY <3>3
  <2>3. ASSUME NEW a \in rows, x \in RowBytes(a) PROVE x \in BytesOf(Evidence(rows))
    <3>1. x \in Nat /\ active[a].start <= x /\ x < active[a].served /\ active[a].served > active[a].start
        BY <1>1, <2>3, LedgerAssumption DEF RowBytes
    <3>2. <<active[a].start, active[a].served>> \in Evidence(rows)
        BY <3>1 DEF Evidence, Served
    <3> QED BY <2>1, <3>1, <3>2
  <2> QED BY <2>2, <2>3
<1> QED BY <1>2, <1>3

\* What is covered: the closed intervals and what each active row has served.
LEMMA CoveredIs ==
    ASSUME TypeOK
    PROVE  Covered = BytesOf(closed) \cup UNION {RowBytes(a) : a \in Responses}
<1>1. \A a \in Responses : ~ IsActive(a) => RowBytes(a) = {}
    BY DEF IsActive, None, RowBytes
<1>2. UNION {RowBytes(a) : a \in ActiveRows} = UNION {RowBytes(a) : a \in Responses}
    BY <1>1 DEF ActiveRows
<1>3. ActiveRows \in SUBSET Responses
    BY DEF ActiveRows
<1>4. BytesOf(Evidence(ActiveRows)) = UNION {RowBytes(a) : a \in ActiveRows}
    BY <1>3, EvidenceIs
<1>5. Covered = BytesOf(closed) \cup BytesOf(Evidence(ActiveRows))
    BY BytesOfUnion DEF Covered
<1> QED BY <1>2, <1>4, <1>5

LedgerBytes == BytesOf(closed) \cup UNION {RowBytes(a) : a \in Responses}

\* The same, with its name, in a state and in the next.
LEMMA CoveredState == TypeOK => Covered = LedgerBytes
BY CoveredIs DEF LedgerBytes

LEMMA CoveredNext == TypeOK' => Covered' = LedgerBytes'
<1>1. (TypeOK => Covered = LedgerBytes)'
    BY CoveredState, PTL
<1> QED BY <1>1

\* Rows are closed and their bytes go to the closed intervals: nothing is lost or won.
LEMMA CoveredStays ==
    ASSUME TypeOK, TypeOK', NEW gone \in SUBSET Responses,
           BytesOf(closed') = BytesOf(closed) \cup UNION {RowBytes(a) : a \in gone},
           \A b \in Responses : RowBytes(b)' = IF b \in gone THEN {} ELSE RowBytes(b)
    PROVE  Covered' = Covered
<1>1. Covered = LedgerBytes /\ Covered' = LedgerBytes'
    BY CoveredState, CoveredNext
<1>2. ASSUME NEW x PROVE x \in LedgerBytes' <=> x \in LedgerBytes
  <2>1. x \in LedgerBytes <=> x \in BytesOf(closed) \/ \E b \in Responses : x \in RowBytes(b)
      BY DEF LedgerBytes
  <2>2. x \in LedgerBytes' <=> x \in BytesOf(closed') \/ \E b \in Responses : x \in RowBytes(b)'
      BY DEF LedgerBytes
  <2>3. x \in BytesOf(closed') <=> x \in BytesOf(closed) \/ \E b \in gone : x \in RowBytes(b)
      OBVIOUS
  <2>4. (\E b \in Responses : x \in RowBytes(b)') <=> \E b \in Responses : b \notin gone /\ x \in RowBytes(b)
      OBVIOUS
  <2>5. (\E b \in Responses : x \in RowBytes(b)) <=>
           (\E b \in gone : x \in RowBytes(b)) \/ (\E b \in Responses : b \notin gone /\ x \in RowBytes(b))
      OBVIOUS
  <2> QED BY <2>1, <2>2, <2>3, <2>4, <2>5
<1> QED BY <1>1, <1>2

\* A step that leaves the ledger alone covers the same bytes.
LEMMA SameLedger == UNCHANGED <<active, closed>> => Covered' = Covered
BY DEF Covered, Evidence, ActiveRows, IsActive, Served

StepOK == LedgerInv' /\ Covered \subseteq Covered'

\* The empty ledger.
LEMMA LedgerStarts == Init => LedgerInv
<1> SUFFICES ASSUME Init PROVE LedgerInv
    OBVIOUS
<1>1. TypeOK
  <2>1. None \in Attempts /\ None.served \in None.start..None.end
      BY LedgerAssumption DEF None, Attempts
  <2>2. active \in [Responses -> Attempts] /\ \A a \in Responses : active[a].served \in active[a].start..active[a].end
    <3>1. active = [a \in Responses |-> None]
        BY DEF Init
    <3> QED BY <2>1, <3>1
  <2>3. stream \in [Responses -> [pc : {"idle", "sending", "finalizing", "done"}, end : 0..Size, at : 0..Size]]
      BY LedgerAssumption DEF Init, Closed
  <2> QED BY <2>2, <2>3, LedgerAssumption DEF TypeOK, Init
<1>2. \A a \in Responses : ~ IsActive(a)
    BY DEF Init, IsActive
<1>3. Covered = {}
    <2>1. \A a \in Responses : RowBytes(a) = {}
        BY DEF Init, RowBytes, None
    <2>2. BytesOf(closed) = {}
        BY DEF Init, BytesOf
    <2> QED BY <1>1, <2>1, <2>2, CoveredIs
<1>4. 0 \in 0..(Size - 1)
    BY LedgerAssumption
<1>5. LedgerIsHonest
    BY <1>3 DEF LedgerIsHonest, Init
<1>6. FullCoverageIsCharged
    BY <1>3, <1>4 DEF FullCoverageIsCharged
<1>7. ReservationOutlivesLeases
    BY <1>2, LedgerAssumption DEF ReservationOutlivesLeases, ActiveRows, Init
<1> QED BY <1>1, <1>2, <1>5, <1>6, <1>7 DEF LedgerInv, RowOK, SlotFollowsTheLedger

\* Time.
LEMMA TickOK == ASSUME LedgerInv, Tick PROVE StepOK
<1>1. TypeOK'
    BY LedgerAssumption DEF LedgerInv, TypeOK, Tick
<1>2. Covered' = Covered
    BY SameLedger DEF Tick
<1>3. \A a \in Responses : RowOK(a)'
    BY LedgerAssumption DEF LedgerInv, TypeOK, RowOK, IsActive, Tick
<1>4. LedgerIsHonest' /\ FullCoverageIsCharged'
    BY <1>2 DEF LedgerInv, LedgerIsHonest, SlotFollowsTheLedger, FullCoverageIsCharged, Tick
<1>5. ReservationOutlivesLeases'
    BY DEF LedgerInv, SlotFollowsTheLedger, ReservationOutlivesLeases, ActiveRows, IsActive, Tick
<1> QED BY <1>1, <1>2, <1>3, <1>4, <1>5 DEF StepOK, LedgerInv, SlotFollowsTheLedger

\* A chunk handed to the client.
LEMMA SendOK == ASSUME LedgerInv, NEW a \in Responses, Send(a) PROVE StepOK
<1> DEFINE n == stream[a].at + 1
<1>1. stream[a].at \in 0..Size /\ stream[a].end \in 0..Size /\ stream[a].at < stream[a].end
    BY DEF LedgerInv, TypeOK, Send
<1>2. n \in 0..Size /\ stream[a].at \in 0..(Size - 1)
    BY <1>1, LedgerAssumption
<1>3. stream' = [stream EXCEPT ![a].at = n]
    BY DEF Send
<1> HIDE DEF n
<1>4. TypeOK'
  <2>1. stream' \in [Responses -> [pc : {"idle", "sending", "finalizing", "done"}, end : 0..Size, at : 0..Size]]
      BY <1>2, <1>3 DEF LedgerInv, TypeOK
  <2>2. sent' \in SUBSET (0..(Size - 1))
      BY <1>2 DEF Send, LedgerInv, TypeOK
  <2> QED BY <2>1, <2>2 DEF LedgerInv, TypeOK, Send
<1>5. Covered' = Covered
    BY SameLedger DEF Send
<1>6. \A b \in Responses : RowOK(b)'
  <2>1. ASSUME NEW b \in Responses, b # a PROVE RowOK(b)'
    <3>1. stream'[b] = stream[b] /\ active' = active /\ clock' = clock /\ sent \subseteq sent'
        BY <1>3, <2>1 DEF LedgerInv, TypeOK, Send
    <3> QED BY <3>1 DEF LedgerInv, RowOK, IsActive
  <2>2. RowOK(a)'
    <3>1. stream'[a].at = n /\ stream'[a].end = stream[a].end /\ stream'[a].pc = stream[a].pc /\ active' = active /\ clock' = clock
        BY <1>3 DEF LedgerInv, TypeOK, Send
    <3>2. IsActive(a) => active[a].start..(n - 1) \subseteq sent' /\ active[a].served <= n /\ n <= active[a].end
        <4>1. n = stream[a].at + 1
            BY DEF n
        <4>2. active[a] \in Attempts
            BY DEF LedgerInv, TypeOK
        <4>3. sent' = sent \cup {stream[a].at} /\ stream[a].pc = "sending"
            BY DEF Send
        <4> QED BY <1>1, <4>1, <4>2, <4>3 DEF LedgerInv, RowOK, Attempts
    <3> QED BY <3>1, <3>2 DEF LedgerInv, RowOK, IsActive, Send
  <2> QED BY <2>1, <2>2
<1>7. LedgerIsHonest' /\ FullCoverageIsCharged'
    BY <1>5 DEF LedgerInv, LedgerIsHonest, SlotFollowsTheLedger, FullCoverageIsCharged, Send
<1>8. ReservationOutlivesLeases'
    BY DEF LedgerInv, SlotFollowsTheLedger, ReservationOutlivesLeases, ActiveRows, IsActive, Send
<1> QED BY <1>4, <1>5, <1>6, <1>7, <1>8 DEF StepOK, LedgerInv, SlotFollowsTheLedger

\* The generator ends, complete or not.
LEMMA StreamEndsOK == ASSUME LedgerInv, NEW a \in Responses, StreamEnds(a) PROVE StepOK
<1>1. sent \subseteq sent' /\ sent' \in SUBSET (0..(Size - 1))
  <2>1. PICK at \in {stream[a].at, stream[a].at + 1} : at <= stream[a].end /\ sent' = sent \cup stream[a].at..(at - 1)
      BY DEF StreamEnds
  <2>2. stream[a].at \in 0..Size /\ stream[a].end \in 0..Size
      BY DEF LedgerInv, TypeOK
  <2>3. stream[a].at..(at - 1) \subseteq 0..(Size - 1)
      BY <2>1, <2>2, LedgerAssumption
  <2> QED BY <2>1, <2>3 DEF LedgerInv, TypeOK
<1>2. \A b \in Responses : stream'[b].at = stream[b].at /\ stream'[b].end = stream[b].end
                        /\ stream'[b].pc \in {stream[b].pc, "finalizing"}
                        /\ (stream'[b].pc # stream[b].pc => stream[b].pc = "sending")
    BY DEF LedgerInv, TypeOK, StreamEnds
<1>3. TypeOK'
    BY <1>1 DEF LedgerInv, TypeOK, StreamEnds
<1>4. Covered' = Covered
    BY SameLedger DEF StreamEnds
<1>5. \A b \in Responses : RowOK(b)'
  <2> SUFFICES ASSUME NEW b \in Responses PROVE RowOK(b)'
      OBVIOUS
  <2>1. active' = active /\ clock' = clock
      BY DEF StreamEnds
  <2> QED BY <1>1, <1>2, <2>1 DEF LedgerInv, RowOK, IsActive
<1>6. LedgerIsHonest' /\ FullCoverageIsCharged'
    BY <1>1, <1>4 DEF LedgerInv, LedgerIsHonest, SlotFollowsTheLedger, FullCoverageIsCharged, StreamEnds
<1>7. ReservationOutlivesLeases'
    BY DEF LedgerInv, SlotFollowsTheLedger, ReservationOutlivesLeases, ActiveRows, IsActive, StreamEnds
<1> QED BY <1>3, <1>4, <1>5, <1>6, <1>7 DEF StepOK, LedgerInv, SlotFollowsTheLedger

\* The last write of a response is lost.
LEMMA FinalizeFailsOK == ASSUME LedgerInv, NEW a \in Responses, FinalizeFails(a) PROVE StepOK
<1>1. Closed("done") \in [pc : {"idle", "sending", "finalizing", "done"}, end : 0..Size, at : 0..Size]
    BY LedgerAssumption DEF Closed
<1>2. stream'[a].pc = "done" /\ \A b \in Responses : b # a => stream'[b] = stream[b]
    BY DEF LedgerInv, TypeOK, FinalizeFails, Closed
<1>3. TypeOK'
    BY <1>1 DEF LedgerInv, TypeOK, FinalizeFails
<1>4. Covered' = Covered
    BY SameLedger DEF FinalizeFails
<1>5. \A b \in Responses : RowOK(b)'
  <2> SUFFICES ASSUME NEW b \in Responses PROVE RowOK(b)'
      OBVIOUS
  <2>1. active' = active /\ clock' = clock /\ sent' = sent
      BY DEF FinalizeFails
  <2> QED BY <1>2, <2>1 DEF LedgerInv, RowOK, IsActive
<1>6. LedgerIsHonest' /\ FullCoverageIsCharged'
    BY <1>4 DEF LedgerInv, LedgerIsHonest, SlotFollowsTheLedger, FullCoverageIsCharged, FinalizeFails
<1>7. ReservationOutlivesLeases'
    BY DEF LedgerInv, SlotFollowsTheLedger, ReservationOutlivesLeases, ActiveRows, IsActive, FinalizeFails
<1> QED BY <1>3, <1>4, <1>5, <1>6, <1>7 DEF StepOK, LedgerInv, SlotFollowsTheLedger

\* What _consume_if_complete compares is the set of bytes.
LEMMA CoverageIs ==
    ASSUME TypeOK, NEW rows \in SUBSET Responses, NEW ivs \in SUBSET Spans
    PROVE  Complete(Coverage(rows, ivs)) <=> BytesOf(ivs) \cup UNION {RowBytes(a) : a \in rows} = 0..(Size - 1)
<1>1. ivs \cup Evidence(rows) \in SUBSET Spans
    BY EvidenceIs
<1>2. BytesOf(ivs \cup Evidence(rows)) = BytesOf(ivs) \cup UNION {RowBytes(a) : a \in rows}
    BY EvidenceIs, BytesOfUnion
<1> QED BY <1>1, <1>2, CompleteIsAllBytes DEF Coverage

\* The rows _close_stale closes are active rows.
LEMMA StaleIs == StaleRows \in SUBSET Responses /\ StaleRows \subseteq ActiveRows /\ ActiveRows \in SUBSET Responses
BY DEF StaleRows, ActiveRows

\* Closing stale rows, with and without compaction, keeps what was recorded.
LEMMA ClosedStale ==
    ASSUME LedgerInv
    PROVE  /\ closed \cup Evidence(StaleRows) \in SUBSET Spans
           /\ BytesOf(closed \cup Evidence(StaleRows)) = BytesOf(closed) \cup UNION {RowBytes(a) : a \in StaleRows}
<1>1. TypeOK /\ closed \in SUBSET Spans
    BY DEF LedgerInv, TypeOK, Spans
<1>2. Evidence(StaleRows) \in SUBSET Spans /\ BytesOf(Evidence(StaleRows)) = UNION {RowBytes(a) : a \in StaleRows}
    BY <1>1, StaleIs, EvidenceIs
<1> QED BY <1>1, <1>2, BytesOfUnion

\* Closing and compacting the stale rows keeps what they served.
LEMMA ReconciledIs ==
    ASSUME LedgerInv
    PROVE  /\ Reconciled \in SUBSET Spans
           /\ BytesOf(Reconciled) = BytesOf(closed) \cup UNION {RowBytes(a) : a \in StaleRows}
BY ClosedStale, CompactedIsExact DEF Reconciled

\* The coverage that is computed from the rows which stay is all that is covered.
LEMMA RestIsCovered ==
    ASSUME LedgerInv, NEW ivs \in SUBSET Spans,
           BytesOf(ivs) = BytesOf(closed) \cup UNION {RowBytes(a) : a \in StaleRows}
    PROVE  Complete(Coverage(ActiveRows \ StaleRows, ivs)) <=> Covered = 0..(Size - 1)
<1>1. TypeOK
    BY DEF LedgerInv
<1>2. Complete(Coverage(ActiveRows \ StaleRows, ivs)) <=>
         BytesOf(ivs) \cup UNION {RowBytes(a) : a \in ActiveRows \ StaleRows} = 0..(Size - 1)
    BY <1>1, StaleIs, CoverageIs
<1>3. (UNION {RowBytes(a) : a \in StaleRows}) \cup (UNION {RowBytes(a) : a \in ActiveRows \ StaleRows})
         = UNION {RowBytes(a) : a \in ActiveRows}
    BY StaleIs
<1>4. Covered = BytesOf(closed) \cup UNION {RowBytes(a) : a \in ActiveRows}
    BY <1>1, StaleIs, EvidenceIs, BytesOfUnion DEF Covered
<1> QED BY <1>2, <1>3, <1>4

\* What is not stale is live.
LEMMA LiveIs == ASSUME LedgerInv PROVE LiveRows = ActiveRows \ StaleRows
<1>1. \A a \in ActiveRows : active[a].lease \in Int /\ clock \in Int
    BY DEF LedgerInv, TypeOK, Attempts, ActiveRows
<1> QED BY <1>1 DEF LiveRows, StaleRows, Stale, ActiveRows

\* The common part of the passes that close the stale rows.
LEMMA DroppedOK ==
    ASSUME LedgerInv, DropStale, closed' \in SUBSET Spans,
           BytesOf(closed') = BytesOf(closed) \cup UNION {RowBytes(a) : a \in StaleRows},
           UNCHANGED <<clock, reservation, stream, sent>>,
           job' \in {"ready", "expired"}, slot' \in {"reserved", "consumed", "released", "expired"}
    PROVE  /\ TypeOK' /\ Covered' = Covered
           /\ \A a \in Responses : RowOK(a)'
           /\ ActiveRows' \subseteq ActiveRows /\ \A a \in ActiveRows' : active'[a] = active[a]
<1>1. \A b \in Responses : active'[b] = IF b \in StaleRows THEN None ELSE active[b]
    BY DEF DropStale
<1>2. None \in Attempts /\ None.served \in None.start..None.end
    BY LedgerAssumption DEF None, Attempts
<1>3. TypeOK'
  <2>1. active' \in [Responses -> Attempts]
      BY <1>2 DEF DropStale, LedgerInv, TypeOK
  <2>2. \A a \in Responses : active'[a].served \in active'[a].start..active'[a].end
      BY <1>1, <1>2 DEF LedgerInv, TypeOK
  <2> QED BY <2>1, <2>2 DEF LedgerInv, TypeOK, Spans
<1>4. Covered' = Covered
  <2>1. None.start..(None.served - 1) = {}
      BY DEF None
  <2>2. \A b \in Responses : RowBytes(b)' = IF b \in StaleRows THEN {} ELSE RowBytes(b)
      BY <1>1, <2>1 DEF RowBytes
  <2> QED BY <1>3, <2>2, CoveredStays, StaleIs DEF LedgerInv
<1>5. \A b \in Responses : IsActive(b)' => IsActive(b) /\ active'[b] = active[b]
    BY <1>1 DEF IsActive
<1>6. \A a \in Responses : RowOK(a)'
    BY <1>5 DEF LedgerInv, RowOK
<1> QED BY <1>3, <1>4, <1>5, <1>6 DEF ActiveRows

\* The reconciliation pass.
LEMMA ReconcileOK == ASSUME LedgerInv, Reconcile PROVE StepOK
<1> DEFINE full == Complete(Coverage(ActiveRows \ StaleRows, Reconciled))
<1>1. full <=> Covered = 0..(Size - 1)
    BY ReconciledIs, RestIsCovered
<1>2. ~ full /\ slot' = "reserved" /\ job' = "ready" /\ slot = "reserved" /\ job = "ready"
    BY <1>1 DEF LedgerInv, SlotFollowsTheLedger, FullCoverageIsCharged, Reconcile, ConsumeIfComplete
<1>3. /\ TypeOK' /\ Covered' = Covered
      /\ \A a \in Responses : RowOK(a)'
      /\ ActiveRows' \subseteq ActiveRows /\ \A a \in ActiveRows' : active'[a] = active[a]
    BY <1>2, ReconciledIs, DroppedOK DEF Reconcile
<1>4. LedgerIsHonest' /\ FullCoverageIsCharged'
    BY <1>1, <1>2, <1>3 DEF LedgerInv, LedgerIsHonest, FullCoverageIsCharged, Reconcile
<1>5. ReservationOutlivesLeases'
    BY <1>2, <1>3 DEF LedgerInv, SlotFollowsTheLedger, ReservationOutlivesLeases, Reconcile
<1> QED BY <1>3, <1>4, <1>5 DEF StepOK, LedgerInv, SlotFollowsTheLedger

\* The expiry of the job.
LEMMA ExpireOK == ASSUME LedgerInv, Expire PROVE StepOK
<1>1. CASE slot = "reserved"
  <2>1. slot' \in {"consumed", "expired"} /\ job' = "expired" /\ DropStale /\ closed' = Reconciled /\ UNCHANGED <<clock, reservation, stream, sent>>
      BY <1>1 DEF Expire
  <2>2. /\ TypeOK' /\ Covered' = Covered
        /\ \A a \in Responses : RowOK(a)'
      BY <2>1, ReconciledIs, DroppedOK
  <2>3. slot' = "consumed" => Covered = 0..(Size - 1)
      BY <1>1, ReconciledIs, RestIsCovered, LiveIs DEF Expire
  <2>4. LedgerIsHonest'
      BY <2>1, <2>2, <2>3 DEF LedgerInv, LedgerIsHonest
  <2> QED BY <2>1, <2>2, <2>4 DEF StepOK, LedgerInv, SlotFollowsTheLedger, FullCoverageIsCharged, ReservationOutlivesLeases
<1>2. CASE slot # "reserved"
  <2>1. job' = "expired" /\ UNCHANGED <<slot, active, closed, clock, reservation, stream, sent>>
      BY <1>2 DEF Expire
  <2>2. Covered' = Covered
      BY <2>1, SameLedger
  <2>3. TypeOK' /\ \A a \in Responses : RowOK(a)'
      BY <2>1 DEF LedgerInv, TypeOK, RowOK, IsActive
  <2> QED BY <1>2, <2>1, <2>2, <2>3 DEF StepOK, LedgerInv, LedgerIsHonest, SlotFollowsTheLedger, FullCoverageIsCharged, ReservationOutlivesLeases
<1> QED BY <1>1, <1>2

\* The promotion of the job.
LEMMA PromoteOK == ASSUME LedgerInv, Promote PROVE StepOK
<1>1. slot' \in {"consumed", "released"} /\ job' = "ready" /\ DropStale /\ closed' = closed \cup Evidence(StaleRows) /\ UNCHANGED <<clock, reservation, stream, sent>>
    BY DEF Promote
<1>2. /\ TypeOK' /\ Covered' = Covered
      /\ \A a \in Responses : RowOK(a)'
    BY <1>1, ClosedStale, DroppedOK
<1>3. slot' = "consumed" => Covered = 0..(Size - 1)
  <2>1. ActiveRows \ StaleRows = {}
      BY LiveIs DEF Promote
  <2>2. slot' = "consumed" => Complete(Coverage({}, closed \cup Evidence(StaleRows)))
      BY <1>1 DEF Promote
  <2> QED BY <2>1, <2>2, ClosedStale, RestIsCovered
<1>4. LedgerIsHonest'
    BY <1>1, <1>2, <1>3 DEF LedgerInv, LedgerIsHonest
<1> QED BY <1>1, <1>2, <1>4 DEF StepOK, LedgerInv, SlotFollowsTheLedger, FullCoverageIsCharged, ReservationOutlivesLeases
\* A response records what it has observed, in its row or as a closed interval.
LEMMA Observed ==
    ASSUME LedgerInv, TypeOK', NEW a \in Responses, IsActive(a), stream[a].pc \in {"sending", "finalizing"},
           \A b \in Responses : b # a => active'[b] = active[b],
           BytesOf(closed') \cup RowBytes(a)' = BytesOf(closed) \cup active[a].start..(stream[a].at - 1)
    PROVE  /\ Covered \subseteq Covered' /\ Covered' \subseteq sent
           /\ Covered' = BytesOf(closed) \cup active[a].start..(stream[a].at - 1) \cup UNION {RowBytes(b) : b \in ActiveRows \ {a}}
<1> DEFINE seen == active[a].start..(stream[a].at - 1)
<1>1. \A b \in Responses : b # a => RowBytes(b)' = RowBytes(b)
    BY DEF RowBytes
<1>2. RowBytes(a) \subseteq seen /\ seen \subseteq sent
    BY DEF LedgerInv, TypeOK, Attempts, RowOK, RowBytes
<1>3. Covered = LedgerBytes /\ Covered' = LedgerBytes'
    BY CoveredState, CoveredNext DEF LedgerInv
<1>4. LedgerBytes \subseteq sent
    BY <1>3 DEF LedgerInv, LedgerIsHonest
<1>5. \A b \in Responses : ~ IsActive(b) => RowBytes(b) = {}
    BY DEF IsActive, None, RowBytes
<1> HIDE DEF seen
<1>6. ASSUME NEW x PROVE x \in LedgerBytes' <=> x \in BytesOf(closed) \/ x \in seen \/ \E b \in ActiveRows \ {a} : x \in RowBytes(b)
  <2>1. x \in LedgerBytes' <=> x \in BytesOf(closed') \/ \E b \in Responses : x \in RowBytes(b)'
      BY DEF LedgerBytes
  <2>2. (\E b \in Responses : x \in RowBytes(b)') <=> x \in RowBytes(a)' \/ \E b \in ActiveRows \ {a} : x \in RowBytes(b)
      BY <1>1, <1>5 DEF ActiveRows
  <2>3. x \in BytesOf(closed') \/ x \in RowBytes(a)' <=> x \in BytesOf(closed) \/ x \in seen
      BY DEF seen
  <2> QED BY <2>1, <2>2, <2>3
<1>7. ASSUME NEW x PROVE x \in LedgerBytes <=> x \in BytesOf(closed) \/ x \in RowBytes(a) \/ \E b \in ActiveRows \ {a} : x \in RowBytes(b)
  <2>1. x \in LedgerBytes <=> x \in BytesOf(closed) \/ \E b \in Responses : x \in RowBytes(b)
      BY DEF LedgerBytes
  <2>2. (\E b \in Responses : x \in RowBytes(b)) <=> x \in RowBytes(a) \/ \E b \in ActiveRows \ {a} : x \in RowBytes(b)
      BY <1>5 DEF ActiveRows
  <2> QED BY <2>1, <2>2
<1>8. LedgerBytes \subseteq LedgerBytes' /\ LedgerBytes' \subseteq sent
    BY <1>2, <1>4, <1>6, <1>7
<1>9. LedgerBytes' = BytesOf(closed) \cup seen \cup UNION {RowBytes(b) : b \in ActiveRows \ {a}}
    BY <1>6
<1> QED BY <1>3, <1>8, <1>9 DEF seen

\* max() of two numbers.
LEMMA LargerOfTwo ==
    ASSUME NEW x \in Nat, NEW y \in Nat
    PROVE  Largest({x, y}) \in Nat /\ x <= Largest({x, y}) /\ y <= Largest({x, y})
<1>1. \A z \in {x, y} : z <= x + y /\ z \in Nat
    OBVIOUS
<1>2. {x, y} \in SUBSET Nat /\ {x, y} # {} /\ x + y \in Nat
    OBVIOUS
<1>3. Largest({x, y}) \in {x, y} /\ \A z \in {x, y} : z <= Largest({x, y})
    BY <1>1, <1>2, LargestIs
<1> QED BY <1>3

\* A checkpoint moves the served end of its row forward, never back.
LEMMA CheckpointOK == ASSUME LedgerInv, NEW a \in Responses, Checkpoint(a) PROVE StepOK
<1> DEFINE lease == clock + LeaseTicks
           at == stream[a].at
           seen == active[a].start..(at - 1)
           span == <<active[a].start, at>>
<1>1. clock \in Nat /\ lease \in Nat /\ lease \in Int /\ at \in 0..Size /\ reservation \in Nat
    BY LedgerAssumption DEF LedgerInv, TypeOK
<1>2. active[a] \in Attempts /\ active[a].start \in 0..Size /\ active[a].served \in 0..Size /\ active[a].end \in 0..Size
    BY DEF LedgerInv, TypeOK, Attempts
<1>3. IsActive(a) /\ stream[a].pc = "sending" /\ at > active[a].served /\ at <= active[a].end /\ active[a].start <= active[a].served
    BY <1>2 DEF LedgerInv, TypeOK, RowOK, Checkpoint
<1>4. active' = [active EXCEPT ![a].served = at, ![a].lease = lease]
    BY DEF Checkpoint
<1> HIDE DEF lease, at
<1>5. /\ active' \in [Responses -> Attempts]
      /\ active'[a].start = active[a].start /\ active'[a].end = active[a].end
      /\ active'[a].served = at /\ active'[a].lease = lease
      /\ \A b \in Responses : b # a => active'[b] = active[b]
  <2>1. [active[a] EXCEPT !.served = at, !.lease = lease] \in Attempts
      BY <1>1, <1>2 DEF Attempts
  <2> QED BY <1>1, <1>2, <1>4, <2>1 DEF LedgerInv, TypeOK, Attempts
<1>6. reservation' \in Nat /\ (slot = "reserved" => reservation <= reservation' /\ lease <= reservation')
    BY <1>1, LargerOfTwo DEF Checkpoint, lease
<1>7. slot' \in {slot, "consumed"} /\ UNCHANGED <<clock, job, closed, stream, sent>> /\ job = "ready" /\ slot \in {"reserved", "consumed"}
    BY DEF Checkpoint
<1>8. TypeOK'
  <2>1. \A b \in Responses : active'[b].served \in active'[b].start..active'[b].end
    <3>1. active'[a].served \in active'[a].start..active'[a].end
        BY <1>1, <1>2, <1>3, <1>5
    <3> QED BY <1>5, <3>1 DEF LedgerInv, TypeOK
  <2> QED BY <1>5, <1>6, <1>7, <2>1 DEF LedgerInv, TypeOK
<1>9. RowBytes(a)' = seen
    BY <1>5 DEF RowBytes
<1>10. BytesOf(closed') \cup RowBytes(a)' = BytesOf(closed) \cup seen
    BY <1>7, <1>9
<1>11. /\ Covered \subseteq Covered' /\ Covered' \subseteq sent
       /\ Covered' = BytesOf(closed) \cup seen \cup UNION {RowBytes(b) : b \in ActiveRows \ {a}}
    BY <1>3, <1>5, <1>8, <1>10, Observed DEF at
<1>12. Complete(Coverage(ActiveRows \ {a}, closed \cup {span})) <=> Covered' = 0..(Size - 1)
  <2>1. span \in Spans /\ closed \in SUBSET Spans /\ TypeOK /\ span[1] = active[a].start /\ span[2] = at
      BY <1>1, <1>2 DEF LedgerInv, TypeOK, Spans
  <2>2. BytesOf({span}) = seen
      BY <2>1 DEF BytesOf, Bytes
  <2> HIDE DEF span
  <2>3. closed \cup {span} \in SUBSET Spans /\ BytesOf(closed \cup {span}) = BytesOf(closed) \cup seen
      BY <2>1, <2>2, BytesOfUnion
  <2>4. ActiveRows \ {a} \in SUBSET Responses
      BY StaleIs
  <2> QED BY <1>11, <2>1, <2>3, <2>4, CoverageIs
<1>13. slot' = IF slot = "reserved" /\ Covered' = 0..(Size - 1) THEN "consumed" ELSE slot
  <2>1. slot' = IF slot = "reserved" /\ Complete(Coverage(ActiveRows \ {a}, closed \cup {span})) THEN "consumed" ELSE slot
      BY DEF Checkpoint, at
  <2> HIDE DEF span
  <2> QED BY <1>12, <2>1
<1>14. LedgerIsHonest'
    BY <1>7, <1>11, <1>13 DEF LedgerInv, LedgerIsHonest
<1>15. FullCoverageIsCharged'
    BY <1>7, <1>13 DEF FullCoverageIsCharged
<1>16. lease # -1 /\ lease <= clock + LeaseTicks
    BY <1>1 DEF lease
<1>17. \A b \in Responses : RowOK(b)'
  <2>1. RowOK(a)'
    <3>1. stream[a].end = active[a].end /\ seen \subseteq sent
        BY <1>3 DEF LedgerInv, RowOK, at
    <3> QED BY <1>1, <1>3, <1>5, <1>7, <1>16, <3>1 DEF RowOK, at
  <2> QED BY <2>1, <1>5, <1>7 DEF LedgerInv, RowOK, IsActive
<1>18. ReservationOutlivesLeases'
  <2> SUFFICES ASSUME slot' = "reserved" PROVE reservation' >= TtlTicks /\ \A b \in ActiveRows' : active'[b].lease <= reservation'
      BY DEF ReservationOutlivesLeases
  <2>1. slot = "reserved" /\ reservation >= TtlTicks /\ (\A b \in ActiveRows : active[b].lease <= reservation)
      BY <1>13 DEF LedgerInv, SlotFollowsTheLedger, ReservationOutlivesLeases
  <2>2. reservation' >= TtlTicks
      BY <1>1, <1>6, <2>1, LedgerAssumption
  <2>3. ASSUME NEW b \in ActiveRows' PROVE active'[b].lease <= reservation'
    <3>1. b \in Responses /\ (b # a => b \in ActiveRows /\ active'[b].lease = active[b].lease /\ active[b].lease \in Int)
        BY <1>5 DEF ActiveRows, IsActive, LedgerInv, TypeOK, Attempts
    <3> QED BY <1>1, <1>5, <1>6, <2>1, <3>1
  <2> QED BY <2>2, <2>3
<1> QED BY <1>8, <1>11, <1>14, <1>15, <1>17, <1>18 DEF StepOK, LedgerInv, SlotFollowsTheLedger

\* The end of an attempt: its row is closed, and a covered file is charged.
LEMMA FinalizeOK == ASSUME LedgerInv, NEW a \in Responses, Finalize(a) PROVE StepOK
<1> DEFINE at == stream[a].at
           seen == active[a].start..(at - 1)
           kept == {iv \in {<<active[a].start, at>>} : iv[2] > iv[1]}
           ivs == closed \cup kept
           rest == ActiveRows \ {a}
<1>1. TypeOK /\ closed \in SUBSET Spans /\ at \in 0..Size /\ active[a].start \in 0..Size /\ reservation \in Nat
    BY DEF LedgerInv, TypeOK, Attempts, Spans
<1>2. IsActive(a) /\ stream[a].pc = "finalizing" /\ job = "ready" /\ slot \in {"reserved", "consumed"}
    BY DEF Finalize
<1>3. kept \in SUBSET Spans /\ BytesOf(kept) = seen
  <2>1. <<active[a].start, at>> \in Spans
      BY <1>1 DEF Spans
  <2>2. CASE at > active[a].start
    <3>1. kept = {<<active[a].start, at>>}
        BY <2>2
    <3> QED BY <2>1, <3>1 DEF BytesOf, Bytes
  <2>3. CASE ~ (at > active[a].start)
    <3>1. kept = {} /\ seen = {}
        BY <1>1, <2>3
    <3> HIDE DEF kept, seen
    <3> QED BY <3>1 DEF BytesOf
  <2> QED BY <2>2, <2>3
<1>4. closed' = Compacted(ivs) /\ active' = [active EXCEPT ![a] = None] /\ stream' = [stream EXCEPT ![a] = Closed("done")]
      /\ UNCHANGED <<clock, job, sent>>
    BY DEF Finalize
<1>5. slot' = IF slot = "reserved" /\ Complete(Coverage(rest, Compacted(ivs))) THEN "consumed" ELSE slot
    BY DEF Finalize, ConsumeIfComplete
<1>6. reservation' = IF slot' = "reserved" THEN ReservationAfter(rest) ELSE reservation
    BY DEF Finalize
<1> HIDE DEF at, kept
<1>7. closed' \in SUBSET Spans /\ BytesOf(closed') = BytesOf(closed) \cup seen
    BY <1>1, <1>3, <1>4, CompactedIsExact, BytesOfUnion
<1>8. /\ active' \in [Responses -> Attempts] /\ active'[a] = None
      /\ \A b \in Responses : b # a => active'[b] = active[b]
      /\ \A b \in Responses : active'[b].served \in active'[b].start..active'[b].end
  <2>1. None \in Attempts /\ None.served \in None.start..None.end
      BY LedgerAssumption DEF None, Attempts
  <2> QED BY <1>4, <2>1 DEF LedgerInv, TypeOK
<1>9. /\ stream' \in [Responses -> [pc : {"idle", "sending", "finalizing", "done"}, end : 0..Size, at : 0..Size]]
      /\ \A b \in Responses : b # a => stream'[b] = stream[b]
  <2>1. Closed("done") \in [pc : {"idle", "sending", "finalizing", "done"}, end : 0..Size, at : 0..Size]
      BY LedgerAssumption DEF Closed
  <2> QED BY <1>4, <2>1 DEF LedgerInv, TypeOK
<1>10. rest \in SUBSET Responses /\ \A b \in rest : active[b].lease \in Nat /\ active[b].lease <= clock + LeaseTicks
    BY DEF LedgerInv, RowOK, ActiveRows
<1>11. /\ ReservationAfter(rest) \in Nat /\ TtlTicks <= ReservationAfter(rest)
       /\ \A b \in rest : active[b].lease <= ReservationAfter(rest)
  <2> DEFINE T == {TtlTicks} \cup {active[b].lease : b \in rest}
             u == TtlTicks + clock + LeaseTicks
  <2>1. clock \in Nat /\ u \in Nat
      BY LedgerAssumption DEF LedgerInv, TypeOK
  <2>2. T \in SUBSET Nat /\ TtlTicks \in T /\ \A x \in T : x <= u
      BY <1>10, <2>1, LedgerAssumption
  <2>3. \A b \in rest : active[b].lease \in T
      OBVIOUS
  <2> HIDE DEF T, u, rest
  <2>4. Largest(T) \in T /\ \A y \in T : y <= Largest(T)
      BY <2>1, <2>2, LargestIs
  <2>5. ReservationAfter(rest) = Largest(T)
      BY DEF ReservationAfter, T
  <2> QED BY <2>2, <2>3, <2>4, <2>5
<1>12. TypeOK'
    BY <1>2, <1>4, <1>5, <1>6, <1>7, <1>8, <1>9, <1>11 DEF LedgerInv, TypeOK, Spans
<1>13. BytesOf(closed') \cup RowBytes(a)' = BytesOf(closed) \cup seen
  <2>1. RowBytes(a)' = {}
      BY <1>8 DEF RowBytes, None
  <2> QED BY <1>7, <2>1
<1>14. /\ Covered \subseteq Covered' /\ Covered' \subseteq sent
       /\ Covered' = BytesOf(closed) \cup seen \cup UNION {RowBytes(b) : b \in rest}
    BY <1>2, <1>8, <1>12, <1>13, Observed DEF at
<1>15. Complete(Coverage(rest, closed')) <=> Covered' = 0..(Size - 1)
    BY <1>1, <1>7, <1>10, <1>14, CoverageIs
<1>16. slot' = IF slot = "reserved" /\ Covered' = 0..(Size - 1) THEN "consumed" ELSE slot
    BY <1>4, <1>5, <1>15
<1>17. LedgerIsHonest' /\ FullCoverageIsCharged'
    BY <1>4, <1>14, <1>16 DEF LedgerInv, LedgerIsHonest, FullCoverageIsCharged
<1>18. \A b \in Responses : RowOK(b)'
    BY <1>4, <1>8, <1>9 DEF LedgerInv, RowOK, IsActive
<1>19. ReservationOutlivesLeases'
  <2>1. \A b \in ActiveRows' : b \in rest /\ active'[b] = active[b]
      BY <1>8 DEF ActiveRows, IsActive
  <2>2. TtlTicks \in Nat
      BY LedgerAssumption
  <2> QED BY <1>6, <1>11, <2>1, <2>2 DEF ReservationOutlivesLeases
<1> QED BY <1>12, <1>14, <1>17, <1>18, <1>19 DEF StepOK, LedgerInv, SlotFollowsTheLedger

\* A new attempt, after the stale rows were closed and the limits looked at.
LEMMA BeginOK ==
    ASSUME LedgerInv, NEW a \in Responses, NEW start \in 0..(Size - 1), NEW end \in (start + 1)..Size, Begin(a, start, end)
    PROVE  StepOK
<1> DEFINE lease == clock + LeaseTicks
           fresh == [start |-> start, end |-> end, served |-> start, lease |-> lease]
           union == Compacted(closed \cup Evidence(StaleRows))
<1>1. /\ stream[a].pc = "idle" /\ job = "ready" /\ slot = "reserved"
      /\ active' = [b \in Responses |-> IF b = a THEN fresh ELSE IF b \in StaleRows THEN None ELSE active[b]]
      /\ closed' = union
      /\ reservation' = Largest({reservation, fresh.lease})
      /\ stream' = [stream EXCEPT ![a] = [pc |-> "sending", end |-> end, at |-> start]]
      /\ UNCHANGED <<clock, job, slot, sent>>
    BY DEF Begin, StaleRows
<1>2. clock \in Nat /\ lease \in Nat /\ reservation \in Nat /\ start \in 0..Size /\ end \in 0..Size /\ start <= end
    BY LedgerAssumption DEF LedgerInv, TypeOK
<1>3. lease # -1 /\ lease <= clock + LeaseTicks
    BY <1>2
<1> HIDE DEF lease
<1>4. fresh \in Attempts /\ fresh.served \in fresh.start..fresh.end /\ fresh # None
    BY <1>2, <1>3 DEF Attempts, None
<1>5. None \in Attempts /\ None.served \in None.start..None.end
    BY LedgerAssumption DEF None, Attempts
<1>6. ~ IsActive(a)
    BY <1>1 DEF LedgerInv, RowOK
<1>7. union \in SUBSET Spans /\ BytesOf(union) = BytesOf(closed) \cup UNION {RowBytes(b) : b \in StaleRows}
    BY ClosedStale, CompactedIsExact
<1>8. reservation' \in Nat /\ reservation <= reservation' /\ lease <= reservation'
    BY <1>1, <1>2, LargerOfTwo
<1>9. stream' \in [Responses -> [pc : {"idle", "sending", "finalizing", "done"}, end : 0..Size, at : 0..Size]]
      /\ stream'[a] = [pc |-> "sending", end |-> end, at |-> start]
      /\ \A b \in Responses : b # a => stream'[b] = stream[b]
    BY <1>1, <1>2 DEF LedgerInv, TypeOK
<1> HIDE DEF union, fresh
<1>10. /\ active' \in [Responses -> Attempts]
       /\ \A b \in Responses : active'[b].served \in active'[b].start..active'[b].end
       /\ active'[a] = fresh
       /\ \A b \in Responses : b # a => active'[b] = IF b \in StaleRows THEN None ELSE active[b]
    BY <1>1, <1>4, <1>5 DEF LedgerInv, TypeOK
<1>11. TypeOK'
    BY <1>1, <1>7, <1>8, <1>9, <1>10 DEF LedgerInv, TypeOK, Spans
<1>12. Covered' = Covered
  <2>1. None.start..(None.served - 1) = {}
      BY DEF None
  <2>2. fresh.start..(fresh.served - 1) = {}
      BY <1>2 DEF fresh
  <2>3. a \notin StaleRows /\ active[a] = None
      BY <1>6, StaleIs DEF ActiveRows, IsActive
  <2>4. \A b \in Responses : RowBytes(b)' = IF b \in StaleRows THEN {} ELSE RowBytes(b)
      BY <1>10, <2>1, <2>2, <2>3 DEF RowBytes
  <2> QED BY <1>1, <1>7, <1>11, <2>4, CoveredStays, StaleIs DEF LedgerInv
<1>13. LedgerIsHonest' /\ FullCoverageIsCharged'
    BY <1>1, <1>12 DEF LedgerInv, LedgerIsHonest, SlotFollowsTheLedger, FullCoverageIsCharged
<1>14. \A b \in Responses : RowOK(b)'
  <2>1. ASSUME NEW b \in Responses, b # a PROVE RowOK(b)'
    <3>1. IsActive(b)' => IsActive(b) /\ active'[b] = active[b]
        BY <1>10, <2>1 DEF IsActive
    <3> QED BY <1>1, <1>9, <2>1, <3>1 DEF LedgerInv, RowOK
  <2>2. RowOK(a)'
    <3>1. start..(start - 1) = {}
        BY <1>2
    <3> QED BY <1>1, <1>2, <1>3, <1>9, <1>10, <3>1 DEF RowOK, fresh
  <2> QED BY <2>1, <2>2
<1>15. ReservationOutlivesLeases'
  <2>1. reservation >= TtlTicks /\ (\A b \in ActiveRows : active[b].lease <= reservation)
      BY <1>1 DEF LedgerInv, SlotFollowsTheLedger, ReservationOutlivesLeases
  <2>2. reservation' >= TtlTicks
      BY <1>2, <1>8, <2>1, LedgerAssumption
  <2>3. ASSUME NEW b \in ActiveRows' PROVE active'[b].lease <= reservation'
    <3>1. b \in Responses /\ active'[b] # None
        BY DEF ActiveRows, IsActive
    <3>2. CASE b = a
        BY <1>8, <1>10, <3>2 DEF fresh
    <3>3. CASE b # a
      <4>1. active'[b] = active[b] /\ b \in ActiveRows /\ active[b].lease \in Int
          BY <1>10, <3>1, <3>3 DEF ActiveRows, IsActive, LedgerInv, TypeOK, Attempts
      <4> QED BY <1>2, <1>8, <2>1, <4>1
    <3> QED BY <3>2, <3>3
  <2> QED BY <2>2, <2>3 DEF ReservationOutlivesLeases
<1> QED BY <1>11, <1>12, <1>13, <1>14, <1>15 DEF StepOK, LedgerInv, SlotFollowsTheLedger

\* Every step of the ledger.
LEMMA LedgerKeeps == ASSUME LedgerInv, [Next]_vars PROVE StepOK
<1>1. CASE UNCHANGED vars
  <2>1. Covered' = Covered
      BY <1>1, SameLedger DEF vars
  <2>2. TypeOK' /\ \A a \in Responses : RowOK(a)'
      BY <1>1 DEF vars, LedgerInv, TypeOK, RowOK, IsActive
  <2>3. LedgerIsHonest' /\ SlotFollowsTheLedger'
      BY <1>1, <2>1 DEF vars, LedgerInv, LedgerIsHonest, SlotFollowsTheLedger, FullCoverageIsCharged,
                        ReservationOutlivesLeases, ActiveRows, IsActive
  <2> QED BY <2>1, <2>2, <2>3 DEF StepOK, LedgerInv
<1>2. ASSUME NEW a \in Responses, ResponseStep(a) PROVE StepOK
    BY <1>2, BeginOK, SendOK, CheckpointOK, StreamEndsOK, FinalizeOK, FinalizeFailsOK DEF ResponseStep
<1> QED BY <1>1, <1>2, TickOK, ReconcileOK, ExpireOK, PromoteOK DEF Next

\* What the ledger keeps through every interleaving of responses, checkpoints, passes and
\* lost writes: its types, the order of the columns of a row, and the two properties below.
THEOREM LedgerInvariance == Spec => []LedgerInv
<1>1. ASSUME LedgerInv, [Next]_vars PROVE LedgerInv'
    BY <1>1, LedgerKeeps DEF StepOK
<1> QED BY <1>1, LedgerStarts, PTL DEF Spec

\* LedgerIsHonest: begin, checkpoint, finalize and the closing of stale rows never record a byte
\* that was not handed to the client.
THEOREM HonestLedger == Spec => []LedgerIsHonest
<1>1. LedgerInv => LedgerIsHonest
    BY DEF LedgerInv
<1> QED BY <1>1, LedgerInvariance, PTL

\* SlotFollowsTheLedger: complete coverage is charged by the step that completes it, and the
\* reservation outlives every lease.
THEOREM ChargedLedger == Spec => []SlotFollowsTheLedger
<1>1. LedgerInv => SlotFollowsTheLedger
    BY DEF LedgerInv
<1> QED BY <1>1, LedgerInvariance, PTL

\* CoverageNeverShrinks, the part of BooksAreKept about the ledger: closing, compacting and
\* expiring rows forgets no byte that was recorded.
THEOREM RecordsStay == Spec => CoverageNeverShrinks
<1>1. ASSUME LedgerInv, [Next]_vars PROVE Covered \subseteq Covered'
    BY <1>1, LedgerKeeps DEF StepOK
<1> QED BY <1>1, LedgerInvariance, PTL DEF Spec, CoverageNeverShrinks

-----------------------------------------------------------------------------
(* The content requests *)

Requested == Headers(FileSize + 1)

RequestRecords ==
    [pc : Pcs, key : Grants \cup {Bearer}, policy : Policies \cup {"none"}, permit : BOOLEAN, fds : SUBSET {"dir", "media"},
     header : Requested, at : Nat, end : Nat, deadline : Nat, last : Nat]

\* Where a handler has a permit, and where it has the artifact open.
Holding == Pcs \ {"idle", "waiting", "done"}
Opened == {"open", "begun", "returned", "paced", "sending", "dropped"}

\* What a handler holds follows from where it is; the range it serves is the one its
\* header asks for; the deadline of a chunk that was read lies after the last chunk,
\* where there is a pacer.
RequestOK(q) ==
    /\ q \in RequestRecords
    /\ q.permit <=> q.pc \in Holding
    /\ q.fds = IF q.pc \in {"walked", "checked"} THEN {"dir"} ELSE IF q.pc \in Opened THEN {"media"} ELSE {}
    /\ q.pc = "checked" \/ q.pc \in Opened => artifact.manifest = "agrees"
    /\ q.pc \in Opened => artifact.media = "whole"
    /\ q.pc \in {"begun", "returned"} => q.at..(q.end - 1) = Asked(q.header, FileSize) /\ q.at < q.end
    /\ q.last <= now
    /\ q.pc = "paced" /\ q.policy = "throttled" => q.last < q.deadline

Holders == {r \in Requests : requests[r].permit}

\* A promoted download holds no reservation.
JobOK ==
    /\ life \in {"ready", "expired"} /\ policy \in Policies /\ entry \in EntryStates
    /\ policy = "premium" => entry # "reserved"

AccessInv ==
    /\ now \in 0..MaxClock
    /\ JobOK /\ disk \subseteq Files /\ artifact \in Artifacts
    /\ grants \in [Grants -> {NoGrant} \cup GrantRows]
    /\ permits \in Nat
    /\ requests \in [Requests -> RequestRecords]
    /\ \A r \in Requests : RequestOK(requests[r])
    /\ IsFiniteSet(Holders) /\ permits + Cardinality(Holders) = Concurrency
    /\ IsFiniteSet(ActiveGrants) /\ GrantsAreBounded

\* What the invariant says of a state.
LEMMA ResponsesFollow == AccessInv => ResponsesAreSound /\ AccessTypeOK
<1> SUFFICES ASSUME AccessInv PROVE ResponsesAreSound /\ AccessTypeOK
    OBVIOUS
<1>1. NothingIsLeaked
  <2>1. permits + Cardinality({r \in Requests : requests[r].permit}) = Concurrency
      BY DEF AccessInv, Holders
  <2>2. ASSUME NEW r \in Requests
        PROVE  /\ requests[r].pc = "done" => ~ requests[r].permit /\ requests[r].fds = {}
               /\ "dir" \in requests[r].fds => requests[r].pc \in Reading
      BY DEF AccessInv, RequestOK, Holding, Opened, Reading
  <2> QED BY <2>1, <2>2 DEF NothingIsLeaked
<1>2. OnlyTheArtifactIsOpened
    BY DEF AccessInv, RequestOK, OnlyTheArtifactIsOpened
<1>3. ResponseIsTheRange
    BY DEF AccessInv, RequestOK, ResponseIsTheRange
<1>4. AccessTypeOK
  <2>1. Cardinality(Holders) \in Nat
      BY FS_CardinalityType DEF AccessInv
  <2>2. permits \in 0..Concurrency
      BY <2>1, AccessAssumption DEF AccessInv
  <2> QED BY <2>2 DEF AccessInv, JobOK, AccessTypeOK, RequestRecords
<1> QED BY <1>1, <1>2, <1>3, <1>4 DEF ResponsesAreSound

\* parse_single_byte_range selects the positions that RFC 9110 means, or refuses.
LEMMA RangeIsWhatIsAsked ==
    ASSUME NEW size \in Nat \ {0}, NEW n \in Nat, NEW h \in Headers(n),
           ParseRange(h, size).kind \notin {"unsatisfiable", "refused"}
    PROVE  LET iv == Selected(ParseRange(h, size), size)
           IN  iv[1] \in Nat /\ iv[2] \in Nat /\ iv[1] < iv[2] /\ iv[1]..(iv[2] - 1) = Asked(h, size)
<1>1. CASE h \in [form : {"absent", "malformed"}]
    BY <1>1 DEF ParseRange, Selected, Asked, Whole, Refused
<1>2. CASE h \in [form : {"suffix"}, length : 0..n]
  <2>1. h.form = "suffix" /\ h.length \in Nat /\ h.length # 0
      BY <1>2 DEF ParseRange, Unsatisfiable
  <2> DEFINE s == IF h.length > size THEN 0 ELSE size - h.length
  <2>2. ParseRange(h, size) = ByteRange(s, size)
      BY <2>1 DEF ParseRange
  <2>3. Selected(ParseRange(h, size), size) = <<s, size>>
      BY <2>2 DEF Selected, ByteRange
  <2>4. s \in Nat /\ s < size
      BY <2>1
  <2>5. Asked(h, size) = {p \in 0..(size - 1) : size - p <= h.length}
      BY <2>1 DEF Asked
  <2>6. s..(size - 1) = {p \in 0..(size - 1) : size - p <= h.length}
      BY <2>1, <2>4
  <2> HIDE DEF s
  <2> QED BY <2>3, <2>4, <2>5, <2>6
<1>3. CASE h \in [form : {"from"}, start : 0..n]
  <2>1. h.form = "from" /\ h.start \in Nat /\ h.start < size
      BY <1>3 DEF ParseRange, Unsatisfiable
  <2>2. Selected(ParseRange(h, size), size) = <<h.start, size>>
      BY <2>1 DEF ParseRange, Selected, ByteRange
  <2>3. Asked(h, size) = {p \in 0..(size - 1) : h.start <= p}
      BY <2>1 DEF Asked
  <2>4. h.start..(size - 1) = {p \in 0..(size - 1) : h.start <= p}
      BY <2>1
  <2> QED BY <2>1, <2>2, <2>3, <2>4
<1>4. CASE h \in [form : {"between"}, start : 0..n, last : 0..n]
  <2>1. h.form = "between" /\ h.start \in Nat /\ h.last \in Nat
      BY <1>4
  <2>2. h.start < size /\ h.start <= h.last
      BY <2>1 DEF ParseRange, Unsatisfiable, Refused
  <2> DEFINE e == EndAfter(h.last, size)
  <2>3. Selected(ParseRange(h, size), size) = <<h.start, e>>
      BY <2>1, <2>2 DEF ParseRange, Selected, ByteRange
  <2>4. e \in Nat /\ h.start < e /\ e <= size /\ e <= h.last + 1 /\ (e = size \/ e = h.last + 1)
      BY <2>1, <2>2 DEF EndAfter, Least
  <2>5. Asked(h, size) = {p \in 0..(size - 1) : h.start <= p /\ p <= h.last}
      BY <2>1 DEF Asked
  <2> HIDE DEF e
  <2>6. h.start..(e - 1) = {p \in 0..(size - 1) : h.start <= p /\ p <= h.last}
      BY <2>1, <2>4
  <2> QED BY <2>1, <2>3, <2>4, <2>5, <2>6
<1> QED BY <1>1, <1>2, <1>3, <1>4 DEF Headers

\* A request that has not begun, or was refused.
LEMMA NewRequestOK ==
    ASSUME now \in Nat
    PROVE  RequestOK(NewRequest) /\ RequestOK([NewRequest EXCEPT !.pc = "done"])
<1>1. [form |-> "absent"] \in Requested
    BY DEF Requested, Headers
<1>2. NewRequest \in RequestRecords
    BY <1>1 DEF NewRequest, RequestRecords, Pcs
<1>3. RequestOK(NewRequest)
    BY <1>2 DEF RequestOK, NewRequest, Holding, Opened, Pcs
<1> DEFINE d == [NewRequest EXCEPT !.pc = "done"]
<1>4. d \in RequestRecords /\ d.pc = "done" /\ d.permit = FALSE /\ d.fds = {} /\ d.last = 0
    BY <1>2 DEF NewRequest, RequestRecords, Pcs
<1> HIDE DEF d
<1>5. RequestOK(d)
    BY <1>4 DEF RequestOK, Holding, Opened, Pcs
<1> QED BY <1>3, <1>5 DEF d

\* The first state.
LEMMA AccessStarts == AccessInit => AccessInv
<1> SUFFICES ASSUME AccessInit PROVE AccessInv
    OBVIOUS
<1>1. now = 0 /\ now \in 0..MaxClock /\ permits = Concurrency /\ Concurrency \in Nat /\ MaxGrants \in Nat
    BY AccessAssumption DEF AccessInit
<1>2. requests \in [Requests -> RequestRecords] /\ \A r \in Requests : RequestOK(requests[r]) /\ requests[r].permit = FALSE
  <2>1. RequestOK(NewRequest) /\ NewRequest.permit = FALSE
      BY <1>1, NewRequestOK DEF NewRequest
  <2> QED BY <2>1 DEF AccessInit, RequestOK
<1>3. Holders = {}
    BY <1>2 DEF Holders
<1>4. ActiveGrants = {}
    BY DEF AccessInit, ActiveGrants, LiveAt, NoGrant
<1>5. IsFiniteSet({}) /\ Cardinality({}) = 0
    BY FS_EmptySet
<1>6. JobOK
    BY DEF AccessInit, JobOK, Policies, EntryStates
<1> QED BY <1>1, <1>2, <1>3, <1>4, <1>5, <1>6 DEF AccessInit, AccessInv, GrantsAreBounded

\* A handler takes a step: it is all right afterwards and the semaphore counts right.
LEMMA RequestMoves ==
    ASSUME AccessInv, NEW r \in Requests, NEW q, RequestOK(q), requests' = [requests EXCEPT ![r] = q],
           permits' = permits + (IF requests[r].permit THEN 1 ELSE 0) - (IF q.permit THEN 1 ELSE 0),
           q.permit /\ ~ requests[r].permit => permits > 0,
           UNCHANGED <<now, jobVars, disk, artifact, grants>>
    PROVE  AccessInv'
<1>1. q \in RequestRecords /\ q.permit \in BOOLEAN /\ requests[r].permit \in BOOLEAN /\ permits \in Nat
    BY DEF RequestOK, RequestRecords, AccessInv
<1>2. requests' \in [Requests -> RequestRecords] /\ requests'[r] = q /\ \A p \in Requests : p # r => requests'[p] = requests[p]
    BY <1>1 DEF AccessInv
<1>3. \A p \in Requests : RequestOK(requests'[p])
    BY <1>2 DEF AccessInv
<1>4. \A p \in Requests : RequestOK(requests[p])'
    BY <1>3 DEF RequestOK
<1>5. Cardinality(Holders) \in Nat /\ IsFiniteSet(Holders) /\ permits + Cardinality(Holders) = Concurrency
    BY FS_CardinalityType DEF AccessInv
<1>6. IsFiniteSet(Holders') /\ permits' + Cardinality(Holders') = Concurrency /\ permits' \in Nat
  <2>1. CASE q.permit = requests[r].permit
    <3>1. Holders' = Holders
        BY <1>2, <2>1 DEF Holders
    <3>2. permits' = permits
        BY <1>1, <2>1
    <3> QED BY <1>1, <1>5, <3>1, <3>2
  <2>2. CASE q.permit = TRUE /\ requests[r].permit = FALSE
    <3>1. Holders' = Holders \cup {r} /\ r \notin Holders
        BY <1>2, <2>2 DEF Holders
    <3>2. permits' = permits - 1 /\ permits > 0
        BY <1>1, <2>2
    <3>3. IsFiniteSet(Holders') /\ Cardinality(Holders') = Cardinality(Holders) + 1
        BY <1>5, <3>1, FS_AddElement
    <3> QED BY <1>1, <1>5, <3>2, <3>3, AccessAssumption
  <2>3. CASE q.permit = FALSE /\ requests[r].permit = TRUE
    <3>1. Holders' = Holders \ {r} /\ r \in Holders
        BY <1>2, <2>3 DEF Holders
    <3>2. permits' = permits + 1
        BY <1>1, <2>3
    <3>3. IsFiniteSet(Holders') /\ Cardinality(Holders') = Cardinality(Holders) - 1
        BY <1>5, <3>1, FS_RemoveElement
    <3> QED BY <1>1, <1>5, <3>2, <3>3, AccessAssumption
  <2> QED BY <1>1, <2>1, <2>2, <2>3
<1>7. IsFiniteSet(ActiveGrants') /\ GrantsAreBounded'
  <2>1. ActiveGrants' = ActiveGrants
      BY DEF ActiveGrants, LiveAt
  <2> QED BY <2>1 DEF AccessInv, GrantsAreBounded
<1>8. JobOK'
    BY DEF AccessInv, JobOK, jobVars
<1> QED BY <1>2, <1>4, <1>6, <1>7, <1>8 DEF AccessInv

\* Every exit before the response is returned, and the last one.
LEMMA CleanupKeeps ==
    ASSUME AccessInv, NEW r \in Requests, requests[r].pc \notin {"walked", "checked"}, Cleanup(r),
           UNCHANGED <<now, jobVars, disk, artifact, grants>>
    PROVE  AccessInv'
<1> DEFINE fds == requests[r].fds \ {"media"}
           q == [NewRequest EXCEPT !.pc = "done", !.fds = fds]
<1>1. fds = {} /\ requests[r].permit \in BOOLEAN /\ now \in Nat
    BY DEF AccessInv, RequestOK, RequestRecords
<1>2. requests' = [requests EXCEPT ![r] = q]
    BY DEF Cleanup, Set
<1> HIDE DEF fds
<1>3. NewRequest \in RequestRecords
    BY <1>1, NewRequestOK DEF RequestOK
<1>4. q \in RequestRecords
    BY <1>1, <1>3 DEF RequestRecords, Pcs
<1>5. q.permit = FALSE
    BY Zenon DEF NewRequest
<1>6. q.pc = "done" /\ q.fds = {} /\ q.last = 0
    BY <1>1, <1>3 DEF RequestRecords, NewRequest
<1> HIDE DEF q
<1>7. RequestOK(q)
    BY <1>1, <1>4, <1>5, <1>6 DEF RequestOK, Holding, Opened, Pcs
<1>8. permits' = permits + (IF requests[r].permit THEN 1 ELSE 0) - (IF q.permit THEN 1 ELSE 0)
    BY <1>5 DEF Cleanup, AccessInv
<1> QED BY <1>2, <1>5, <1>7, <1>8, RequestMoves

\* A handler goes on with what it holds.
LEMMA HandlerGoesOn ==
    ASSUME AccessInv, NEW r \in Requests, NEW q, RequestOK(q), Set(r, q), q.permit = requests[r].permit,
           UNCHANGED <<now, jobVars, disk, artifact, grants, permits>>
    PROVE  AccessInv'
<1>1. permits \in Nat /\ q.permit \in BOOLEAN
    BY DEF AccessInv, RequestOK, RequestRecords
<1>2. permits' = permits + (IF requests[r].permit THEN 1 ELSE 0) - (IF q.permit THEN 1 ELSE 0)
    BY <1>1
<1> QED BY <1>2, RequestMoves DEF Set

\* The steps of a handler, each with what it takes or gives back.
LEMMA ArriveKeeps == ASSUME AccessInv, NEW r \in Requests, NEW key \in Grants \cup {Bearer}, Arrive(r, key) PROVE AccessInv'
<1> DEFINE q == [requests[r] EXCEPT !.pc = "waiting", !.key = key]
<1>1. requests[r] \in RequestRecords /\ RequestOK(requests[r]) /\ requests[r].pc = "idle"
    BY DEF AccessInv, Arrive
<1>2. q \in RequestRecords /\ q.pc = "waiting" /\ q.permit = requests[r].permit /\ q.fds = requests[r].fds
      /\ q.last = requests[r].last
    BY <1>1 DEF RequestRecords, Pcs
<1>3. Set(r, q) /\ UNCHANGED <<now, jobVars, disk, artifact, grants, permits>>
    BY DEF Arrive
<1> HIDE DEF q
<1>4. RequestOK(q)
    BY <1>1, <1>2 DEF RequestOK, Holding, Opened, Pcs
<1> QED BY <1>2, <1>3, <1>4, HandlerGoesOn

LEMMA AcquireKeeps == ASSUME AccessInv, NEW r \in Requests, Acquire(r) PROVE AccessInv'
<1>1. CASE Authorized(requests[r].key) /\ Set(r, [requests[r] EXCEPT !.pc = "authorized", !.permit = TRUE, !.policy = policy]) /\ permits' = permits - 1
  <2> DEFINE q == [requests[r] EXCEPT !.pc = "authorized", !.permit = TRUE, !.policy = policy]
  <2>1. requests[r] \in RequestRecords /\ RequestOK(requests[r]) /\ requests[r].pc = "waiting" /\ permits > 0 /\ permits \in Nat
        /\ policy \in Policies
      BY DEF AccessInv, JobOK, Acquire
  <2>2. q.permit = TRUE
      BY <2>1, Zenon DEF RequestRecords
  <2>3. q \in RequestRecords /\ q.pc = "authorized" /\ q.fds = requests[r].fds /\ q.last = requests[r].last
      BY <2>1 DEF RequestRecords, Pcs
  <2>4. requests' = [requests EXCEPT ![r] = q] /\ UNCHANGED <<now, jobVars, disk, artifact, grants>>
      BY <1>1 DEF Acquire, Set
  <2> HIDE DEF q
  <2>5. RequestOK(q)
      BY <2>1, <2>2, <2>3 DEF RequestOK, Holding, Opened, Pcs
  <2>6. requests[r].permit = FALSE
      BY <2>1 DEF RequestOK, RequestRecords, Holding
  <2>7. permits' = permits + (IF requests[r].permit THEN 1 ELSE 0) - (IF q.permit THEN 1 ELSE 0)
      BY <1>1, <2>1, <2>2, <2>6
  <2> QED BY <2>1, <2>4, <2>5, <2>7, RequestMoves
<1>2. CASE Cleanup(r)
    BY <1>2, CleanupKeeps DEF Acquire
<1> QED BY <1>1, <1>2 DEF Acquire

LEMMA RefuseKeeps ==
    ASSUME AccessInv, NEW r \in Requests, requests[r].pc \in {"authorized", "walked", "checked"}, Refuse(r),
           UNCHANGED <<now, jobVars, disk, artifact, grants, permits>>
    PROVE  AccessInv'
<1> DEFINE q == [requests[r] EXCEPT !.pc = "failed", !.fds = {}]
<1>1. requests[r] \in RequestRecords /\ RequestOK(requests[r])
    BY DEF AccessInv
<1>2. q \in RequestRecords /\ q.pc = "failed" /\ q.permit = requests[r].permit /\ q.fds = {} /\ q.last = requests[r].last
    BY <1>1 DEF RequestRecords, Pcs
<1>3. Set(r, q)
    BY DEF Refuse
<1> HIDE DEF q
<1>4. RequestOK(q)
    BY <1>1, <1>2 DEF RequestOK, Holding, Opened, Pcs
<1> QED BY <1>2, <1>3, <1>4, HandlerGoesOn

LEMMA WalkKeeps == ASSUME AccessInv, NEW r \in Requests, Walk(r) PROVE AccessInv'
<1>1. CASE "dir" \in disk
  <2> DEFINE q == [requests[r] EXCEPT !.pc = "walked", !.fds = {"dir"}]
  <2>1. requests[r] \in RequestRecords /\ RequestOK(requests[r]) /\ requests[r].pc = "authorized"
      BY DEF AccessInv, Walk
  <2>2. q \in RequestRecords /\ q.pc = "walked" /\ q.permit = requests[r].permit /\ q.fds = {"dir"} /\ q.last = requests[r].last
      BY <2>1 DEF RequestRecords, Pcs
  <2>3. Set(r, q) /\ UNCHANGED <<now, jobVars, disk, artifact, grants, permits>>
      BY <1>1 DEF Walk
  <2> HIDE DEF q
  <2>4. RequestOK(q)
      BY <2>1, <2>2 DEF RequestOK, Holding, Opened, Pcs
  <2> QED BY <2>2, <2>3, <2>4, HandlerGoesOn
<1>2. CASE "dir" \notin disk
    BY <1>2, RefuseKeeps DEF Walk
<1> QED BY <1>1, <1>2

LEMMA CheckManifestKeeps == ASSUME AccessInv, NEW r \in Requests, CheckManifest(r) PROVE AccessInv'
<1>1. CASE "manifest" \in disk /\ artifact.manifest # "broken" /\ Coherent
  <2> DEFINE q == [requests[r] EXCEPT !.pc = "checked"]
  <2>1. requests[r] \in RequestRecords /\ RequestOK(requests[r]) /\ requests[r].pc = "walked"
      BY DEF AccessInv, CheckManifest
  <2>2. q \in RequestRecords /\ q.pc = "checked" /\ q.permit = requests[r].permit /\ q.fds = requests[r].fds /\ q.last = requests[r].last
      BY <2>1 DEF RequestRecords, Pcs
  <2>3. Set(r, q) /\ UNCHANGED <<now, jobVars, disk, artifact, grants, permits>>
      BY <1>1 DEF CheckManifest, Move
  <2> HIDE DEF q
  <2>4. RequestOK(q)
      BY <1>1, <2>1, <2>2 DEF RequestOK, Holding, Opened, Pcs, Coherent
  <2> QED BY <2>2, <2>3, <2>4, HandlerGoesOn
<1>2. CASE ~ ("manifest" \in disk /\ artifact.manifest # "broken" /\ Coherent)
    BY <1>2, RefuseKeeps DEF CheckManifest
<1> QED BY <1>1, <1>2

LEMMA OpenMediaKeeps == ASSUME AccessInv, NEW r \in Requests, OpenMedia(r) PROVE AccessInv'
<1>1. CASE "media" \in disk /\ artifact.media = "whole"
  <2> DEFINE q == [requests[r] EXCEPT !.pc = "open", !.fds = {"media"}]
  <2>1. requests[r] \in RequestRecords /\ RequestOK(requests[r]) /\ requests[r].pc = "checked"
      BY DEF AccessInv, OpenMedia
  <2>2. q \in RequestRecords /\ q.pc = "open" /\ q.permit = requests[r].permit /\ q.fds = {"media"} /\ q.last = requests[r].last
      BY <2>1 DEF RequestRecords, Pcs
  <2>3. Set(r, q) /\ UNCHANGED <<now, jobVars, disk, artifact, grants, permits>>
      BY <1>1 DEF OpenMedia
  <2> HIDE DEF q
  <2>4. RequestOK(q)
      BY <1>1, <2>1, <2>2 DEF RequestOK, Holding, Opened, Pcs
  <2> QED BY <2>2, <2>3, <2>4, HandlerGoesOn
<1>2. CASE ~ ("media" \in disk /\ artifact.media = "whole")
    BY <1>2, RefuseKeeps DEF OpenMedia
<1> QED BY <1>1, <1>2

\* The range is parsed and the stream begins.
LEMMA BeginStreamKeeps == ASSUME AccessInv, NEW r \in Requests, NEW h \in Requested, BeginStream(r, h) PROVE AccessInv'
<1> DEFINE range == ParseRange(h, FileSize)
           iv == Selected(range, FileSize)
           s == iv[1]
           e == iv[2]
<1>1. CASE range.kind \notin {"unsatisfiable", "refused"} /\ Begun(r)
  <2> DEFINE q == [requests[r] EXCEPT !.pc = "begun", !.header = h, !.at = s, !.end = e]
  <2>1. requests[r] \in RequestRecords /\ RequestOK(requests[r]) /\ requests[r].pc = "open"
      BY DEF AccessInv, BeginStream
  <2>2. s \in Nat /\ e \in Nat /\ s < e /\ s..(e - 1) = Asked(h, FileSize)
    <3>1. FileSize \in Nat \ {0} /\ FileSize + 1 \in Nat /\ h \in Headers(FileSize + 1)
        BY AccessAssumption DEF Requested
    <3> QED BY <1>1, <3>1, RangeIsWhatIsAsked
  <2>3. Set(r, q) /\ UNCHANGED <<now, jobVars, disk, artifact, grants, permits>>
      BY <1>1 DEF BeginStream
  <2> HIDE DEF s, e
  <2>4. q \in RequestRecords /\ q.pc = "begun" /\ q.permit = requests[r].permit /\ q.fds = requests[r].fds
        /\ q.last = requests[r].last /\ q.at = s /\ q.end = e /\ q.header = h
      BY <2>1, <2>2 DEF RequestRecords, Pcs
  <2> HIDE DEF q
  <2>5. RequestOK(q)
      BY <2>1, <2>2, <2>4 DEF RequestOK, Holding, Opened, Pcs
  <2> QED BY <2>3, <2>4, <2>5, HandlerGoesOn
<1>2. CASE ~ (range.kind \notin {"unsatisfiable", "refused"} /\ Begun(r))
  <2>1. Cleanup(r) /\ requests[r].pc = "open" /\ UNCHANGED <<now, jobVars, disk, artifact, grants>>
      BY <1>2 DEF BeginStream
  <2> QED BY <2>1, CleanupKeeps
<1> QED BY <1>1, <1>2

LEMMA HeadOnlyKeeps == ASSUME AccessInv, NEW r \in Requests, HeadOnly(r) PROVE AccessInv'
BY CleanupKeeps DEF HeadOnly

LEMMA CancelKeeps == ASSUME AccessInv, NEW r \in Requests, Cancel(r) PROVE AccessInv'
BY CleanupKeeps DEF Cancel

LEMMA FinishKeeps == ASSUME AccessInv, NEW r \in Requests, Finish(r) PROVE AccessInv'
BY CleanupKeeps DEF Finish

\* The response is returned, or dropped before it was iterated.
LEMMA ReturnKeeps ==
    ASSUME AccessInv, NEW r \in Requests, Return(r) \/ Drop(r) PROVE AccessInv'
<1> PICK pc \in {"returned", "dropped"} : Move(r, pc) /\ requests[r].pc = IF pc = "returned" THEN "begun" ELSE "returned"
    BY DEF Return, Drop
<1> DEFINE q == [requests[r] EXCEPT !.pc = pc]
<1>1. requests[r] \in RequestRecords /\ RequestOK(requests[r])
    BY DEF AccessInv
<1>2. q \in RequestRecords /\ q.pc = pc /\ q.permit = requests[r].permit /\ q.fds = requests[r].fds
      /\ q.last = requests[r].last /\ q.at = requests[r].at /\ q.end = requests[r].end /\ q.header = requests[r].header
    BY <1>1 DEF RequestRecords, Pcs
<1>3. Set(r, q) /\ UNCHANGED <<now, jobVars, disk, artifact, grants, permits>>
    BY DEF Return, Drop, Move
<1> HIDE DEF q
<1>4. RequestOK(q)
    BY <1>1, <1>2 DEF RequestOK, Holding, Opened, Pcs
<1> QED BY <1>2, <1>3, <1>4, HandlerGoesOn

\* The pacing of a stream: the deadline lies after the last chunk.
LEMMA PaceKeeps == ASSUME AccessInv, NEW r \in Requests, Pace(r) PROVE AccessInv'
<1> DEFINE d == Paced(requests[r])
           q == [requests[r] EXCEPT !.pc = "paced", !.deadline = d, !.header = NewRequest.header, !.key = Bearer]
<1>1. requests[r] \in RequestRecords /\ RequestOK(requests[r]) /\ requests[r].pc \in {"returned", "sending"} /\ now \in Nat
    BY DEF AccessInv, Pace
<1>2. d \in Nat /\ (requests[r].policy = "throttled" => now < d)
    BY <1>1 DEF Paced, RequestRecords
<1>3. Set(r, q) /\ UNCHANGED <<now, jobVars, disk, artifact, grants, permits>>
    BY DEF Pace
<1> HIDE DEF d
<1>4. NewRequest.header \in Requested
    BY <1>1, NewRequestOK DEF RequestOK, RequestRecords
<1>5. q \in RequestRecords /\ q.pc = "paced" /\ q.permit = requests[r].permit /\ q.fds = requests[r].fds
      /\ q.last = requests[r].last /\ q.deadline = d /\ q.policy = requests[r].policy
    BY <1>1, <1>2, <1>4 DEF RequestRecords, Pcs
<1> HIDE DEF q
<1>6. q.last <= now /\ (q.policy = "throttled" => q.last < q.deadline)
    BY <1>1, <1>2, <1>5 DEF RequestOK, RequestRecords
<1>7. RequestOK(q)
    BY <1>1, <1>5, <1>6 DEF RequestOK, Holding, Opened, Pcs
<1> QED BY <1>3, <1>5, <1>7, HandlerGoesOn

LEMMA YieldKeeps == ASSUME AccessInv, NEW r \in Requests, Yield(r) PROVE AccessInv'
<1> DEFINE n == requests[r].at + 1
           q == [requests[r] EXCEPT !.pc = "sending", !.at = n, !.last = now]
<1>1. requests[r] \in RequestRecords /\ RequestOK(requests[r]) /\ requests[r].pc = "paced" /\ now \in Nat
    BY DEF AccessInv, Yield
<1>2. n \in Nat
    BY <1>1 DEF RequestRecords
<1>3. Set(r, q) /\ UNCHANGED <<now, jobVars, disk, artifact, grants, permits>>
    BY DEF Yield
<1> HIDE DEF n
<1>4. q \in RequestRecords /\ q.pc = "sending" /\ q.permit = requests[r].permit /\ q.fds = requests[r].fds /\ q.last = now
    BY <1>1, <1>2 DEF RequestRecords, Pcs
<1> HIDE DEF q
<1>5. RequestOK(q)
    BY <1>1, <1>4 DEF RequestOK, Holding, Opened, Pcs
<1> QED BY <1>3, <1>4, <1>5, HandlerGoesOn

LEMMA EndStreamKeeps == ASSUME AccessInv, NEW r \in Requests, EndStream(r) PROVE AccessInv'
<1> DEFINE q == [NewRequest EXCEPT !.pc = "finalizing", !.permit = TRUE]
<1>1. requests[r] \in RequestRecords /\ RequestOK(requests[r]) /\ requests[r].pc \in {"paced", "sending"} /\ now \in Nat
    BY DEF AccessInv, EndStream
<1>2. NewRequest \in RequestRecords
    BY <1>1, NewRequestOK DEF RequestOK
<1>3. Set(r, q) /\ UNCHANGED <<now, jobVars, disk, artifact, grants, permits>>
    BY DEF EndStream
<1>4. q.permit = TRUE
    BY Zenon DEF NewRequest
<1>5. q \in RequestRecords /\ q.pc = "finalizing"
    BY <1>2 DEF RequestRecords, Pcs
<1>6. q.fds = {} /\ q.last = 0
    BY <1>2 DEF RequestRecords, NewRequest
<1>7. requests[r].permit = TRUE
    BY <1>1 DEF RequestOK, RequestRecords, Holding, Pcs
<1> HIDE DEF q
<1>8. RequestOK(q)
    BY <1>1, <1>4, <1>5, <1>6 DEF RequestOK, Holding, Opened, Pcs
<1> QED BY <1>3, <1>4, <1>7, <1>8, HandlerGoesOn

\* Every step of a handler.
LEMMA RequestKeeps == ASSUME AccessInv, NEW r \in Requests, RequestStep(r) PROVE AccessInv'
BY ArriveKeeps, AcquireKeeps, WalkKeeps, CheckManifestKeeps, OpenMediaKeeps, HeadOnlyKeeps, BeginStreamKeeps,
   ReturnKeeps, PaceKeeps, YieldKeeps, EndStreamKeeps, FinishKeeps, CancelKeeps DEF RequestStep, Requested
-----------------------------------------------------------------------------
(* The grants of a download *)

\* Time, the job and the grants change; the handlers do not.
LEMMA AroundRequests ==
    ASSUME AccessInv, UNCHANGED <<artifact, permits, requests>>,
           now' \in 0..MaxClock, now <= now', JobOK', disk' \subseteq Files,
           grants' \in [Grants -> {NoGrant} \cup GrantRows],
           IsFiniteSet(ActiveGrants'), Cardinality(ActiveGrants') <= MaxGrants
    PROVE  AccessInv'
<1>1. \A r \in Requests : RequestOK(requests[r])'
  <2> SUFFICES ASSUME NEW r \in Requests PROVE RequestOK(requests[r])'
      OBVIOUS
  <2>1. requests[r].last \in Nat /\ now \in Nat /\ now' \in Nat /\ requests[r].last <= now
      BY DEF AccessInv, RequestOK, RequestRecords
  <2>2. requests[r].last <= now'
      BY <2>1
  <2> QED BY <2>2 DEF AccessInv, RequestOK
<1>2. Holders' = Holders
    BY DEF Holders
<1> QED BY <1>1, <1>2 DEF AccessInv, GrantsAreBounded

\* A step that leaves the job alone.
LEMMA SameJob == ASSUME AccessInv, UNCHANGED jobVars PROVE JobOK'
BY DEF AccessInv, JobOK, jobVars

\* A step after which fewer grants are active.
LEMMA FewerGrants ==
    ASSUME AccessInv, ActiveGrants' \subseteq ActiveGrants
    PROVE  IsFiniteSet(ActiveGrants') /\ Cardinality(ActiveGrants') <= MaxGrants
<1>1. IsFiniteSet(ActiveGrants) /\ Cardinality(ActiveGrants) <= MaxGrants
    BY DEF AccessInv, GrantsAreBounded
<1>2. IsFiniteSet(ActiveGrants') /\ Cardinality(ActiveGrants') <= Cardinality(ActiveGrants)
    BY <1>1, FS_Subset
<1>3. Cardinality(ActiveGrants') \in Nat /\ Cardinality(ActiveGrants) \in Nat /\ MaxGrants \in Nat
    BY <1>1, <1>2, FS_CardinalityType, AccessAssumption
<1> QED BY <1>1, <1>2, <1>3

\* What a revocation makes of a row.
LEMMA RevokedIs ==
    ASSUME AccessInv, NEW S \in SUBSET Grants, \A g \in S : grants[g] # NoGrant
    PROVE  /\ Revoked(S) \in [Grants -> {NoGrant} \cup GrantRows]
           /\ \A g \in S : Revoked(S)[g].state = "revoked"
           /\ \A g \in Grants : g \notin S => Revoked(S)[g] = grants[g]
<1>1. \A g \in S : grants[g] \in GrantRows
    BY DEF AccessInv
<1>2. \A g \in S : [grants[g] EXCEPT !.state = "revoked"] \in GrantRows /\ [grants[g] EXCEPT !.state = "revoked"].state = "revoked"
    BY <1>1 DEF GrantRows
<1> QED BY <1>2 DEF Revoked, AccessInv

\* An active grant has a row.
LEMMA ActiveAreRows == AccessInv => \A g \in ActiveGrants : g \in Grants /\ grants[g] # NoGrant
BY DEF ActiveGrants, LiveAt, NoGrant

\* Time: grants lapse.
LEMMA ClockKeeps == ASSUME AccessInv, Clock PROVE AccessInv'
<1>1. now \in Nat /\ now' = now + 1 /\ now' \in 0..MaxClock /\ now <= now'
    BY AccessAssumption DEF AccessInv, Clock
<1>2. ActiveGrants' \subseteq ActiveGrants
  <2> SUFFICES ASSUME NEW g \in ActiveGrants' PROVE g \in ActiveGrants
      OBVIOUS
  <2>1. g \in Grants /\ grants' = grants /\ grants[g].state = "active" /\ grants[g].expires > now'
      BY DEF ActiveGrants, LiveAt, Clock
  <2>2. grants[g] # NoGrant
      BY <2>1 DEF NoGrant
  <2>3. grants[g].expires \in Nat
      BY <2>1, <2>2 DEF AccessInv, GrantRows
  <2> QED BY <1>1, <2>1, <2>3 DEF ActiveGrants, LiveAt
<1> QED BY <1>1, <1>2, FewerGrants, SameJob, AroundRequests DEF Clock, AccessInv

\* A new grant: as many of the oldest are revoked as make room for it.
LEMMA IssueKeeps == ASSUME AccessInv, NEW g \in Grants, Issue(g) PROVE AccessInv'
<1> DEFINE A == ActiveGrants
           n == IF Overflow > 0 THEN Overflow ELSE 0
           new == [state |-> "active", created |-> now, expires |-> Least(now + GrantTTL, JobTTL)]
<1>1. PICK evicted \in Oldest(A, n) : grants' = [Revoked(evicted) EXCEPT ![g] = new]
    BY DEF Issue
<1>2. evicted \in SUBSET A /\ Cardinality(evicted) = n
    BY <1>1 DEF Oldest
<1>3. IsFiniteSet(A) /\ Cardinality(A) \in Nat /\ Cardinality(A) <= MaxGrants /\ MaxGrants \in Nat \ {0}
    BY FS_CardinalityType, AccessAssumption DEF AccessInv, GrantsAreBounded
<1>4. new \in GrantRows
  <2>1. now \in Nat /\ Least(now + GrantTTL, JobTTL) \in Nat
      BY AccessAssumption DEF AccessInv, Least
  <2> QED BY <2>1 DEF GrantRows
<1> HIDE DEF new
<1>5. evicted \in SUBSET Grants /\ \A x \in evicted : grants[x] # NoGrant
    BY <1>2, ActiveAreRows DEF ActiveGrants
<1>6. /\ Revoked(evicted) \in [Grants -> {NoGrant} \cup GrantRows]
      /\ \A x \in evicted : Revoked(evicted)[x].state = "revoked"
      /\ \A x \in Grants : x \notin evicted => Revoked(evicted)[x] = grants[x]
    BY <1>5, RevokedIs
<1>7. grants' \in [Grants -> {NoGrant} \cup GrantRows] /\ \A x \in Grants : x # g => grants'[x] = Revoked(evicted)[x]
    BY <1>1, <1>4, <1>6
<1>8. now' = now
    BY DEF Issue
<1>9. ActiveGrants' \subseteq (A \ evicted) \cup {g}
  <2> SUFFICES ASSUME NEW x \in ActiveGrants', x # g PROVE x \in A /\ x \notin evicted
      OBVIOUS
  <2>1. x \in Grants /\ grants'[x].state = "active" /\ grants'[x].expires > now /\ grants'[x] = Revoked(evicted)[x]
      BY <1>7, <1>8 DEF ActiveGrants, LiveAt
  <2>2. x \notin evicted
      BY <1>6, <2>1
  <2> QED BY <1>6, <2>1, <2>2 DEF ActiveGrants, LiveAt
<1>11. Cardinality(A) - n <= MaxGrants - 1
  <2>1. Overflow = Cardinality(A) - (MaxGrants - 1)
      BY DEF Overflow
  <2>2. CASE Overflow > 0
      BY <1>3, <2>1, <2>2
  <2>3. CASE ~ (Overflow > 0)
      BY <1>3, <2>1, <2>3
  <2> QED BY <2>2, <2>3
<1> HIDE DEF n, A
<1>10. IsFiniteSet(A \ evicted) /\ Cardinality(A \ evicted) = Cardinality(A) - n
  <2>1. A \cap evicted = evicted
      BY <1>2
  <2>2. IsFiniteSet(A \ evicted) /\ Cardinality(A \ evicted) = Cardinality(A) - Cardinality(A \cap evicted)
      BY <1>3, FS_Difference
  <2> QED BY <1>2, <2>1, <2>2
<1>12. IsFiniteSet((A \ evicted) \cup {g}) /\ Cardinality((A \ evicted) \cup {g}) <= Cardinality(A \ evicted) + 1
      /\ Cardinality(A \ evicted) \in Nat
  <2> DEFINE R == A \ evicted
  <2> HIDE DEF R
  <2>1. IsFiniteSet(R)
      BY <1>10 DEF R
  <2>2. IsFiniteSet(R \cup {g}) /\ Cardinality(R) \in Nat
        /\ (Cardinality(R \cup {g}) = Cardinality(R) \/ Cardinality(R \cup {g}) = Cardinality(R) + 1)
      BY <2>1, FS_AddElement, FS_CardinalityType
  <2>3. Cardinality(R \cup {g}) <= Cardinality(R) + 1
      BY <2>2
  <2> QED BY <2>2, <2>3 DEF R
<1>13. IsFiniteSet(ActiveGrants') /\ Cardinality(ActiveGrants') <= Cardinality((A \ evicted) \cup {g})
    BY <1>9, <1>12, FS_Subset
<1>14. Cardinality(ActiveGrants') \in Nat /\ Cardinality((A \ evicted) \cup {g}) \in Nat
    BY <1>12, <1>13, FS_CardinalityType
<1>15. Cardinality(ActiveGrants') <= MaxGrants
    BY <1>3, <1>10, <1>11, <1>12, <1>13, <1>14
<1> QED BY <1>7, <1>13, <1>15, SameJob, AroundRequests DEF Issue, AccessInv

\* Every grant that is live at some time is revoked.
LEMMA RevocationKeeps ==
    ASSUME AccessInv, NEW t, grants' = Revoked({g \in Grants : LiveAt(g, t)}), JobOK',
           UNCHANGED <<now, disk, artifact, permits, requests>>
    PROVE  AccessInv'
<1> DEFINE S == {g \in Grants : LiveAt(g, t)}
<1>1. S \in SUBSET Grants /\ \A g \in S : grants[g] # NoGrant
    BY DEF LiveAt, NoGrant
<1>2. grants' = Revoked(S)
    OBVIOUS
<1> HIDE DEF S
<1>3. /\ grants' \in [Grants -> {NoGrant} \cup GrantRows]
      /\ \A g \in S : grants'[g].state = "revoked"
      /\ \A g \in Grants : g \notin S => grants'[g] = grants[g]
    BY <1>1, <1>2, RevokedIs
<1>4. ActiveGrants' \subseteq ActiveGrants
    BY <1>3 DEF ActiveGrants, LiveAt
<1> QED BY <1>3, <1>4, FewerGrants, AroundRequests DEF AccessInv

\* The job's own steps.
LEMMA UpgradeJobKeeps == ASSUME AccessInv, UpgradeJob PROVE AccessInv'
<1>1. JobOK'
    BY DEF UpgradeJob, JobOK, AccessInv, Policies, EntryStates
<1>2. UNCHANGED <<now, disk, artifact, permits, requests>>
    BY DEF UpgradeJob
<1>3. ASSUME NEW t, grants' = Revoked({g \in Grants : LiveAt(g, t)}) PROVE AccessInv'
    BY <1>1, <1>2, <1>3, RevocationKeeps
<1>4. \E t : grants' = Revoked({g \in Grants : LiveAt(g, t)})
    BY DEF UpgradeJob
<1> QED BY <1>3, <1>4

LEMMA ChargeKeeps == ASSUME AccessInv, Charge PROVE AccessInv'
<1>1. ActiveGrants' \subseteq ActiveGrants
    BY DEF ActiveGrants, LiveAt, Charge
<1>2. JobOK'
    BY DEF Charge, JobOK, AccessInv, EntryStates
<1> QED BY <1>1, <1>2, FewerGrants, AroundRequests DEF Charge, AccessInv

LEMMA ExpireJobKeeps == ASSUME AccessInv, ExpireJob PROVE AccessInv'
<1>1. grants' = Revoked({g \in Grants : LiveAt(g, now)})
    BY DEF ExpireJob, ActiveGrants
<1>2. JobOK'
    BY DEF ExpireJob, JobOK, AccessInv, EntryStates
<1> QED BY <1>1, <1>2, RevocationKeeps DEF ExpireJob

\* The retention of grants.
LEMMA DeleteGrantsKeeps == ASSUME AccessInv, DeleteGrants PROVE AccessInv'
<1>1. grants' \in [Grants -> {NoGrant} \cup GrantRows] /\ \A g \in Grants : grants'[g] \in {grants[g], NoGrant}
    BY DEF DeleteGrants, AccessInv
<1>2. ActiveGrants' \subseteq ActiveGrants
    BY <1>1 DEF ActiveGrants, LiveAt, NoGrant, DeleteGrants
<1> QED BY <1>1, <1>2, FewerGrants, SameJob, AroundRequests DEF DeleteGrants, AccessInv

\* The deletion of the artifact, one file at a time.
LEMMA DeleteEntryKeeps == ASSUME AccessInv, NEW f \in Files, DeleteEntry(f) PROVE AccessInv'
<1>1. ActiveGrants' \subseteq ActiveGrants
    BY DEF ActiveGrants, LiveAt, DeleteEntry
<1> QED BY <1>1, FewerGrants, SameJob, AroundRequests DEF DeleteEntry, AccessInv

\* Every step.
LEMMA AccessKeeps == ASSUME AccessInv, [AccessNext]_accessVars PROVE AccessInv'
<1>1. CASE UNCHANGED accessVars
  <2>1. UNCHANGED <<now, disk, artifact, grants, permits, requests>> /\ JobOK'
      BY <1>1, SameJob DEF accessVars
  <2>2. ActiveGrants' \subseteq ActiveGrants
      BY <2>1 DEF ActiveGrants, LiveAt
  <2> QED BY <2>1, <2>2, FewerGrants, AroundRequests DEF AccessInv
<1>2. CASE AccessNext
    BY <1>2, ClockKeeps, IssueKeeps, UpgradeJobKeeps, ChargeKeeps, ExpireJobKeeps, DeleteGrantsKeeps, DeleteEntryKeeps, RequestKeeps
       DEF AccessNext
<1> QED BY <1>1, <1>2

-----------------------------------------------------------------------------
(* What a step may do to a response *)

\* A step moves one request at most.
LEMMA RequestsApart ==
    ASSUME AccessInv, AccessNext, NEW r \in Requests
    PROVE  requests'[r] = requests[r] \/ RequestStep(r)
<1>1. ASSUME NEW p \in Requests, RequestStep(p), p # r PROVE requests'[r] = requests[r]
    BY <1>1 DEF RequestStep, Arrive, Acquire, Walk, CheckManifest, OpenMedia, HeadOnly, BeginStream, Return, Pace, Yield,
                EndStream, Finish, Cancel, Drop, Cleanup, Refuse, Move, Set, AccessInv
<1> QED BY <1>1 DEF AccessNext, Clock, Issue, UpgradeJob, Charge, DeleteGrants, ExpireJob, DeleteEntry

\* What has to hold when an accounted response starts.
MayBegin(r) ==
    /\ life = "ready" /\ now < JobTTL
    /\ requests[r].key \in Grants => requests[r].key \in ActiveGrants
    /\ policy = "premium" => entry = "consumed"

\* What a step of a request may do.
LEMMA StepIsAllowed ==
    ASSUME AccessInv, [AccessNext]_accessVars, NEW r \in Requests
    PROVE  /\ requests[r].pc = "open" /\ requests'[r].pc = "begun" /\ Accounted(r) => MayBegin(r)
           /\ requests'[r].at > requests[r].at /\ requests[r].last > 0 /\ requests[r].pc = "paced"
                 /\ requests[r].policy = "throttled" =>
                requests'[r].last > requests[r].last
<1>1. requests[r] \in RequestRecords /\ RequestOK(requests[r]) /\ now \in Nat /\ requests[r].at \in Nat
    BY DEF AccessInv, RequestRecords
<1>2. CASE requests'[r] = requests[r]
    BY <1>1, <1>2
<1>3. CASE RequestStep(r) /\ requests[r].pc = "open"
  <2>1. requests'[r].pc = "begun" => Begun(r)
    <3>1. CASE Cleanup(r)
      <4>1. requests'[r] = [NewRequest EXCEPT !.pc = "done", !.fds = requests[r].fds \ {"media"}]
          BY <3>1 DEF Cleanup, Set, AccessInv
      <4>2. requests'[r].pc = "done"
          BY <4>1 DEF NewRequest
      <4> QED BY <4>2
    <3> QED BY <1>3, <3>1 DEF RequestStep, Arrive, Acquire, Walk, CheckManifest, OpenMedia, HeadOnly, BeginStream, Return,
                              Pace, Yield, EndStream, Finish, Cancel, Drop
  <2>2. Begun(r) /\ Accounted(r) => MayBegin(r)
    <3> SUFFICES ASSUME Begun(r), Accounted(r) PROVE MayBegin(r)
        OBVIOUS
    <3>1. Authorized(requests[r].key) /\ entry \in {"reserved", "consumed"}
        BY DEF Begun, Revalidated
    <3>2. policy = "premium" => entry = "consumed"
        BY <3>1 DEF AccessInv, JobOK
    <3> QED BY <3>1, <3>2, AccessAssumption DEF MayBegin, Authorized, ActiveGrants
  <2> QED BY <1>3, <2>1, <2>2
<1>4. CASE RequestStep(r) /\ requests[r].pc = "paced"
  <2>1. Yield(r) \/ EndStream(r)
      BY <1>4 DEF RequestStep, Arrive, Acquire, Walk, CheckManifest, OpenMedia, HeadOnly, BeginStream, Return,
                  Pace, Finish, Cancel, Drop
  <2>2. CASE Yield(r)
    <3>1. requests'[r].last = now
        BY <1>1, <2>2 DEF Yield, Set, AccessInv, RequestRecords
    <3>2. requests[r].policy = "throttled" => requests[r].last < now
        BY <1>1, <1>4, <2>2 DEF Yield, RequestOK, RequestRecords
    <3> QED BY <1>1, <1>4, <3>1, <3>2 DEF RequestRecords
  <2>3. CASE EndStream(r)
    <3>1. requests'[r].at = 0
        BY <2>3 DEF EndStream, Set, AccessInv, NewRequest
    <3> QED BY <1>1, <1>4, <3>1
  <2> QED BY <2>1, <2>2, <2>3
<1> QED BY <1>2, <1>3, <1>4, RequestsApart DEF accessVars

\* What a handler holds follows from where it is, for every interleaving of requests, grants and
\* the deletion of the artifact.
THEOREM AccessInvariance == AccessSpec => []AccessInv
<1>1. ASSUME AccessInv, [AccessNext]_accessVars PROVE AccessInv'
    BY <1>1, AccessKeeps
<1> QED BY <1>1, AccessStarts, PTL DEF AccessSpec

\* ResponsesAreSound: every permit and descriptor is given back on every path out of the handler,
\* only the published artifact is opened, and the response is the range that was asked for.
THEOREM SoundResponses == AccessSpec => []ResponsesAreSound
<1>1. AccessInv => ResponsesAreSound
    BY ResponsesFollow
<1> QED BY <1>1, AccessInvariance, PTL

\* DeliveryIsAllowed: no response that is booked starts with a revoked grant, after the expiry of
\* the job or against a reservation that was given back, whatever came between its authorization
\* and begin; and the chunks of a throttled stream are spaced by its rate.
THEOREM AllowedDelivery == AccessSpec => DeliveryIsAllowed
<1>1. ASSUME AccessInv, [AccessNext]_accessVars
      PROVE  /\ \A r \in Requests :
                  requests[r].pc = "open" /\ requests'[r].pc = "begun" /\ Accounted(r) => MayBegin(r)
             /\ \A r \in Requests :
                  requests'[r].at > requests[r].at /\ requests[r].last > 0 /\ requests[r].pc = "paced"
                      /\ requests[r].policy = "throttled" =>
                     requests'[r].last > requests[r].last
    BY <1>1, StepIsAllowed
<1> QED BY <1>1, AccessInvariance, PTL DEF AccessSpec, DeliveryIsAllowed, RevokedStartsNothing, ChunksAreSpaced, MayBegin

-----------------------------------------------------------------------------
(* All parts *)

\* Every step of the checked specification is a step or a stutter of each part.
LEMMA PartSteps == MCNext => [Next]_vars /\ [AccessNext]_accessVars /\ [CommerceNext]_commerceVars
BY DEF MCNext, Ledger, Access, Accounts, AddInterval

\* A stutter of the whole is a stutter of each part.
LEMMA PartStutters ==
    UNCHANGED allVars => UNCHANGED vars /\ UNCHANGED accessVars /\ UNCHANGED commerceVars /\ UNCHANGED intervals
BY DEF allVars

\* The whole is each of its parts.
LEMMA PartSpecs == MCSpec => Spec /\ AccessSpec /\ CommerceSpec
<1>1. MCInit => Init /\ AccessInit /\ CommerceInit
    BY DEF MCInit
<1>2. [MCNext]_allVars => [Next]_vars /\ [AccessNext]_accessVars /\ [CommerceNext]_commerceVars
    BY PartSteps, PartStutters
<1> QED BY <1>1, <1>2, PTL DEF MCSpec, Spec, AccessSpec, CommerceSpec

IntervalsInv == intervals \in SUBSET Pairs /\ IsFiniteSet(intervals)

\* The intervals put to the union are finitely many pairs of numbers.
LEMMA IntervalsInvariance == MCSpec => []IntervalsInv
<1>1. MCInit => IntervalsInv
    BY FS_EmptySet DEF MCInit, IntervalsInv
<1>2. ASSUME IntervalsInv, AddInterval PROVE IntervalsInv'
  <2>1. PICK s \in 0..LastByte : \E e \in s..LastByte : intervals' = intervals \cup {<<s, e>>}
      BY <1>2 DEF AddInterval
  <2>2. PICK e \in s..LastByte : intervals' = intervals \cup {<<s, e>>}
      BY <2>1
  <2>3. <<s, e>> \in Pairs
      BY UnionAssumption DEF Pairs
  <2> QED BY <1>2, <2>2, <2>3, FS_AddElement DEF IntervalsInv
<1>3. IntervalsInv /\ [MCNext]_allVars => IntervalsInv'
    BY <1>2 DEF MCNext, Ledger, Access, Accounts, allVars, IntervalsInv
<1> QED BY <1>1, <1>3, PTL DEF MCSpec

\* UnionIsCanonical: normalize_intervals loses no byte, adds none, and leaves no two
\* intervals that touch, whatever set of intervals the attempts of a download left.
THEOREM CanonicalUnion == MCSpec => []UnionIsCanonical
<1>1. IntervalsInv => UnionIsCanonical
    BY NormalizeIsCanonical DEF IntervalsInv, Canonical, UnionIsCanonical, UnionIsExact, UnionIsMaximal
<1> QED BY <1>1, IntervalsInvariance, PTL

\* LimitsAreKept: issue_grant revokes the oldest grants before it adds one, admit_locked counts
\* reservations before it adds one, and the published reset_at is the moment a slot is free.
THEOREM KeptLimits == MCSpec => []LimitsAreKept
<1>1. LedgerInv /\ AccessInv /\ CommerceInv => LimitsAreKept
    BY ResponsesFollow, CommerceFollows, ResetFollows DEF LedgerInv, AccessInv, CommerceInv, LimitsAreKept
<1> QED BY <1>1, PartSpecs, LedgerInvariance, AccessInvariance, CommerceInvariance, PTL

\* BooksAreKept: what the ledger recorded, what the window counts and what was paid stays
\* recorded through every closing, compaction, reconciliation and retention pass.
THEOREM KeptBooks == MCSpec => BooksAreKept
BY PartSpecs, RecordsStay, AccountsAreKept, PTL DEF BooksAreKept
=============================================================================
