------------------------- MODULE PrefillWaveProofs -------------------------
(***************************************************************************)
(* What the grouping of a wave returns, for every wave: groups that        *)
(* together hold each row once, of legal shape, whose extra pages fit; and *)
(* that therefore no reserve() of a wave raises, for every wave, every     *)
(* list of buckets and every number of free pages.                         *)
(***************************************************************************)
EXTENDS PrefillWave, FiniteSetTheorems, TLAPS

-----------------------------------------------------------------------------
(* Induction over the naturals, for a set in place of a predicate. *)

LEMMA LeastElement ==
  ASSUME NEW T \in SUBSET Nat, T # {}
  PROVE  \E x \in T : \A y \in T : x <= y
  <1>1. IsWellFoundedOn({ss \in Nat \X Nat : ss[1] < ss[2]}, Nat)
    BY NatLessThanWellFounded DEF OpToRel
  <1>2. PICK x \in T : \A y \in T : ~ (<<y, x>> \in {ss \in Nat \X Nat : ss[1] < ss[2]})
    BY <1>1, WFMin
  <1>3. \A y \in T : y \in Nat
    OBVIOUS
  <1>4. \A y \in T : ~ (y < x)
    BY <1>2, <1>3
  <1>5. QED
    BY <1>3, <1>4

LEMMA SetInduction ==
  ASSUME NEW S, 0 \in S, \A n \in Nat : n \in S => n + 1 \in S
  PROVE  Nat \subseteq S
  <1> SUFFICES ASSUME Nat \ S # {} PROVE FALSE
    OBVIOUS
  <1>1. PICK x \in Nat \ S : \A y \in Nat \ S : x <= y
    BY LeastElement
  <1>2. x # 0 /\ x - 1 \in Nat /\ x - 1 \in S
    BY <1>1
  <1>3. x - 1 + 1 \in S
    BY <1>2
  <1> QED
    BY <1>1, <1>3

LEMMA LeastOf ==
  ASSUME NEW T \in SUBSET Nat, T # {}
  PROVE  Min(T) \in T /\ \A y \in T : Min(T) <= y
  BY LeastElement DEF Min

\* A nonempty set of naturals with an upper bound has a greatest element.
LEMMA GreatestOf ==
  ASSUME NEW T \in SUBSET Nat, T # {}, NEW n \in Nat, \A y \in T : y <= n
  PROVE  Max(T) \in T /\ \A y \in T : y <= Max(T)
  <1> DEFINE U == {n - y : y \in T}
  <1>0. \A y \in T : y \in Nat /\ n - y \in Nat
    OBVIOUS
  <1>1. U \in SUBSET Nat /\ U # {}
    BY <1>0
  <1>2. PICK u \in U : \A y \in U : u <= y
    BY <1>1, LeastElement
  <1>3. PICK x \in T : u = n - x
    BY <1>2
  <1>4. \A y \in T : y <= x
    BY <1>0, <1>2, <1>3
  <1>5. QED
    BY <1>3, <1>4 DEF Max

-----------------------------------------------------------------------------
(* Subsequence(s, I) lists the positions of I once each, in order. *)

LEMMA RankFacts ==
  ASSUME NEW I \in SUBSET Nat, IsFiniteSet(I), NEW i \in I
  PROVE  /\ Cardinality({j \in I : j <= i}) \in 1..Cardinality(I)
         /\ \A k \in I : k < i =>
              Cardinality({j \in I : j <= k}) < Cardinality({j \in I : j <= i})
  <1> DEFINE Upto(k) == {j \in I : j <= k}
  <1>0. \A k \in I : k \in Nat
    OBVIOUS
  <1>1. \A k \in I : /\ IsFiniteSet(Upto(k)) /\ Cardinality(Upto(k)) \in Nat
                     /\ Cardinality(Upto(k)) <= Cardinality(I)
    BY FS_Subset, FS_CardinalityType
  <1>2. Cardinality(I) \in Nat
    BY FS_CardinalityType
  <1>3. Cardinality(Upto(i)) # 0
    BY <1>1, FS_EmptySet
  <1>4. ASSUME NEW k \in I, k < i
        PROVE  Cardinality(Upto(k)) < Cardinality(Upto(i))
    <2>1. i \in Nat /\ k \in Nat
      BY <1>0
    <2>2. \A j \in I : j <= k => j <= i
      BY <1>0, <1>4, <2>1
    <2>3. Upto(k) \subseteq Upto(i)
      BY <2>2
    <2>4. i \in Upto(i) /\ i \notin Upto(k)
      BY <1>4, <2>1
    <2>5. QED
      BY <1>1, <2>3, <2>4, FS_Subset
  <1>5. QED
    BY <1>1, <1>2, <1>3, <1>4

LEMMA NthFacts ==
  ASSUME NEW I \in SUBSET Nat, IsFiniteSet(I)
  PROVE  /\ Cardinality(I) \in Nat
         /\ \A k \in 1..Cardinality(I) : Nth(I, k) \in I
         /\ \A k, l \in 1..Cardinality(I) : k < l => Nth(I, k) < Nth(I, l)
         /\ \A i \in I : \E k \in 1..Cardinality(I) : Nth(I, k) = i
  <1> DEFINE Rank(i) == Cardinality({j \in I : j <= i})
             n == Cardinality(I)
             rank == [i \in I |-> Rank(i)]
  <1>0. \A k \in I : k \in Nat
    OBVIOUS
  <1>1. n \in Nat
    BY FS_CardinalityType
  <1>2. \A i \in I : Rank(i) \in 1..n
    BY RankFacts
  <1>3. \A i, k \in I : k < i => Rank(k) < Rank(i)
    BY RankFacts
  <1> HIDE DEF Rank, n
  <1>4. \A i, k \in I : Rank(k) = Rank(i) => k = i
    BY <1>0, <1>1, <1>2, <1>3
  <1>5. rank \in Injection(I, 1..n)
    BY <1>2, <1>4 DEF Injection, IsInjective
  <1>6. IsFiniteSet(1..n) /\ Cardinality(1..n) = n
    BY <1>1, FS_Interval
  <1>7. rank \in Surjection(I, 1..n)
    BY <1>5, <1>6, FS_Injection DEF n
  <1>8. \A k \in 1..n : \E i \in I : Rank(i) = k
    BY <1>7 DEF Surjection
  <1>9. \A k \in 1..n : Nth(I, k) \in I /\ Rank(Nth(I, k)) = k
    BY <1>8 DEF Nth, Rank
  <1>10. \A k, l \in 1..n : k < l => Nth(I, k) < Nth(I, l)
    <2> SUFFICES ASSUME NEW k \in 1..n, NEW l \in 1..n, k < l
                 PROVE  Nth(I, k) < Nth(I, l)
      OBVIOUS
    <2>1. Nth(I, k) \in Nat /\ Nth(I, l) \in Nat
      BY <1>0, <1>9
    <2>2. Nth(I, l) < Nth(I, k) => Rank(Nth(I, l)) < Rank(Nth(I, k))
      BY <1>3, <1>9
    <2>3. /\ Rank(Nth(I, k)) = k /\ Rank(Nth(I, l)) = l
          /\ k \in Nat /\ l \in Nat /\ ~ l < k /\ l # k
      BY <1>1, <1>9
    <2>4. QED
      BY <2>1, <2>2, <2>3
  <1>11. \A i \in I : Nth(I, Rank(i)) = i
    BY <1>2, <1>4, <1>9
  <1>12. QED
    BY <1>1, <1>2, <1>9, <1>10, <1>11 DEF n

\* What Subsequence(s, I) is: the elements of s at the positions of I, each once, in order.
\* The k-th element of t is the one at h[k], the k-th position of I in s.
ListsInOrder(h, t, s, I) ==
  /\ \A k \in 1..Cardinality(I) : t[k] = s[h[k]]
  /\ \A k, l \in 1..Cardinality(I) : k < l => h[k] < h[l]
  /\ \A i \in I : \E k \in 1..Cardinality(I) : h[k] = i

LEMMA SubsequenceFacts ==
  ASSUME NEW S, NEW s \in Seq(S), NEW I \in SUBSET DOMAIN s
  PROVE  /\ Subsequence(s, I) \in Seq(S)
         /\ Len(Subsequence(s, I)) = Cardinality(I)
         /\ \E h \in [1..Cardinality(I) -> I] : ListsInOrder(h, Subsequence(s, I), s, I)
  <1> DEFINE n == Cardinality(I)
             h == [k \in 1..n |-> Nth(I, k)]
  <1>1. IsFiniteSet(I) /\ I \in SUBSET Nat
    BY FS_Interval, FS_Subset
  <1>2. /\ n \in Nat
        /\ \A k \in 1..n : Nth(I, k) \in I
        /\ \A k, l \in 1..n : k < l => Nth(I, k) < Nth(I, l)
        /\ \A i \in I : \E k \in 1..n : Nth(I, k) = i
    BY <1>1, NthFacts
  <1> HIDE DEF n
  <1>3. Subsequence(s, I) = [k \in 1..n |-> s[Nth(I, k)]]
    BY DEF Subsequence, n
  <1>4. \A k \in 1..n : s[Nth(I, k)] \in S
    BY <1>2
  <1>5. Subsequence(s, I) \in Seq(S) /\ Len(Subsequence(s, I)) = n
    BY <1>2, <1>3, <1>4
  <1>6. /\ h \in [1..n -> I]
        /\ \A k \in 1..n : Subsequence(s, I)[k] = s[h[k]]
        /\ \A k, l \in 1..n : k < l => h[k] < h[l]
        /\ \A i \in I : \E k \in 1..n : h[k] = i
    BY <1>2, <1>3
  <1>7. h \in [1..Cardinality(I) -> I] /\ ListsInOrder(h, Subsequence(s, I), s, I)
    BY <1>6 DEF n, ListsInOrder
  <1> HIDE DEF h
  <1>8. QED
    BY <1>5, <1>7 DEF n

LEMMA SubsequenceRange ==
  ASSUME NEW S, NEW s \in Seq(S), NEW I \in SUBSET DOMAIN s
  PROVE  /\ Subsequence(s, I) \in Seq(S)
         /\ Range(Subsequence(s, I)) = {s[i] : i \in I}
         /\ IsInjective(s) => IsInjective(Subsequence(s, I))
         /\ Subsequence(s, I) = << >> <=> I = {}
  <1> DEFINE n == Cardinality(I)
             t == Subsequence(s, I)
  <1>1. t \in Seq(S) /\ Len(t) = n
    BY SubsequenceFacts
  <1>2. PICK h \in [1..n -> I] :
              /\ \A k \in 1..n : t[k] = s[h[k]]
              /\ \A k, l \in 1..n : k < l => h[k] < h[l]
              /\ \A i \in I : \E k \in 1..n : h[k] = i
    <2>1. PICK h \in [1..Cardinality(I) -> I] : ListsInOrder(h, Subsequence(s, I), s, I)
      BY SubsequenceFacts
    <2> QED BY <2>1 DEF ListsInOrder
  <1>3. IsFiniteSet(I)
    BY FS_Interval, FS_Subset
  <1>4. n \in Nat /\ (n = 0 <=> I = {})
    BY <1>3, FS_CardinalityType, FS_EmptySet
  <1> HIDE DEF n, t
  <1>5. Range(t) = {s[i] : i \in I}
    <2>1. \A x \in Range(t) : \E i \in I : x = s[i]
      BY <1>1, <1>2 DEF Range
    <2>2. \A i \in I : s[i] \in Range(t)
      BY <1>1, <1>2 DEF Range
    <2>3. QED
      BY <2>1, <2>2
  <1>6. ASSUME IsInjective(s)
        PROVE  IsInjective(t)
    <2>1. \A k, l \in 1..n : k # l => h[k] # h[l]
      <3>1. \A k, l \in 1..n : h[k] \in Nat /\ h[l] \in Nat
        OBVIOUS
      <3>2. QED
        BY <1>2, <1>4, <3>1
    <2>2. \A k, l \in 1..n : t[k] = t[l] => k = l
      <3>1. \A k, l \in 1..n : h[k] \in DOMAIN s /\ h[l] \in DOMAIN s
        OBVIOUS
      <3>2. QED
        BY <1>2, <1>6, <2>1, <3>1 DEF IsInjective
    <2>3. QED
      BY <1>1, <2>2 DEF IsInjective
  <1>7. t = << >> <=> I = {}
    BY <1>1, <1>4
  <1>8. QED
    BY <1>1, <1>5, <1>6, <1>7 DEF t

-----------------------------------------------------------------------------
(* The rows grouped by a key: the classes of equal keys, none of them empty. *)

\* The groups of by hold the rows of one key each, key[g].
KeyedBy(rows, keys, by, key) ==
  /\ \A g \in DOMAIN by : \A row \in Range(by[g]) :
       \E i \in DOMAIN rows : keys[i] = key[g] /\ row = rows[i]
  /\ \A g \in DOMAIN by, i \in DOMAIN rows : keys[i] = key[g] => rows[i] \in Range(by[g])
  /\ \A g, h \in DOMAIN by : g # h => key[g] # key[h]
  /\ \A i \in DOMAIN rows : \E g \in DOMAIN by : key[g] = keys[i]

LEMMA GroupsByFacts ==
  ASSUME NEW S, NEW rows \in Seq(S), IsInjective(rows), NEW keys
  PROVE  /\ GroupsBy(rows, keys) \in Seq(Seq(S))
         /\ \A g \in DOMAIN GroupsBy(rows, keys) :
              GroupsBy(rows, keys)[g] # << >> /\ IsInjective(GroupsBy(rows, keys)[g])
         /\ \E key : KeyedBy(rows, keys, GroupsBy(rows, keys), key)
  <1> DEFINE by == GroupsBy(rows, keys)
             class(k) == {i \in DOMAIN rows : keys[i] = k}
             firsts == {i \in DOMAIN rows : \A j \in 1..i - 1 : keys[j] # keys[i]}
             n == Cardinality(firsts)
             key == [g \in 1..n |-> keys[Nth(firsts, g)]]
  <1>1. IsFiniteSet(firsts) /\ firsts \in SUBSET Nat /\ DOMAIN rows = 1..Len(rows)
    <2>1. firsts \in SUBSET (1..Len(rows)) /\ DOMAIN rows = 1..Len(rows)
      OBVIOUS
    <2>2. QED
      BY <2>1, FS_Interval, FS_Subset
  <1>2. /\ n \in Nat
        /\ \A k \in 1..n : Nth(firsts, k) \in firsts
        /\ \A k, l \in 1..n : k < l => Nth(firsts, k) < Nth(firsts, l)
        /\ \A i \in firsts : \E k \in 1..n : Nth(firsts, k) = i
    BY <1>1, NthFacts
  <1>3. \A i \in firsts : i \in DOMAIN rows /\ i \in Nat /\ \A j \in 1..i - 1 : keys[j] # keys[i]
    BY <1>1
  <1>4. \A i \in DOMAIN rows : \E f \in firsts : keys[f] = keys[i]
    <2> SUFFICES ASSUME NEW i \in DOMAIN rows
                 PROVE  \E f \in firsts : keys[f] = keys[i]
      OBVIOUS
    <2>1. class(keys[i]) \in SUBSET Nat /\ class(keys[i]) # {}
      BY <1>1
    <2>2. PICK f \in class(keys[i]) : \A y \in class(keys[i]) : f <= y
      BY <2>1, LeastElement
    <2>3. f \in DOMAIN rows /\ keys[f] = keys[i] /\ f \in 1..Len(rows)
      BY <1>1
    <2>4. \A j \in 1..f - 1 : keys[j] # keys[f]
      <3> SUFFICES ASSUME NEW j \in 1..f - 1, keys[j] = keys[f]
                   PROVE  FALSE
        OBVIOUS
      <3>1. j \in DOMAIN rows /\ j < f
        BY <1>1, <2>3
      <3>2. j \in class(keys[i])
        BY <2>3, <3>1
      <3>3. f <= j /\ j \in Nat /\ f \in Nat
        BY <2>2, <2>3, <3>2
      <3>4. QED
        BY <3>1, <3>3
    <2>5. QED
      BY <2>3, <2>4
  <1>5. by = [g \in 1..n |-> Subsequence(rows, class(key[g]))]
    BY <1>2 DEF GroupsBy
  <1> HIDE DEF n, firsts, by
  <1>6. \A g \in 1..n : key[g] \in {keys[i] : i \in DOMAIN rows} /\ class(key[g]) # {}
    BY <1>2, <1>3
  <1>7. \A g, h \in 1..n : g # h => key[g] # key[h]
    <2>1. ASSUME NEW g \in 1..n, NEW h \in 1..n, g < h
          PROVE  key[g] # key[h]
      <3>1. /\ Nth(firsts, g) < Nth(firsts, h) /\ Nth(firsts, g) \in DOMAIN rows
            /\ Nth(firsts, h) \in firsts
        BY <1>2, <1>3, <2>1
      <3>2. Nth(firsts, g) \in 1..Nth(firsts, h) - 1
        <4>1. Nth(firsts, g) \in 1..Len(rows) /\ Nth(firsts, h) \in Nat
          BY <1>1, <1>3, <3>1
        <4>2. QED
          BY <3>1, <4>1
      <3>3. QED
        BY <1>3, <3>1, <3>2
    <2>2. QED
      BY <1>2, <2>1
  <1>8. \A i \in DOMAIN rows : \E g \in 1..n : key[g] = keys[i]
    BY <1>2, <1>4
  <1> HIDE DEF key
  <1>9. \A g \in 1..n : /\ by[g] = Subsequence(rows, class(key[g])) /\ by[g] \in Seq(S)
                        /\ Range(by[g]) = {rows[i] : i \in class(key[g])}
                        /\ IsInjective(by[g]) /\ by[g] # << >>
    <2> SUFFICES ASSUME NEW g \in 1..n
                 PROVE  /\ by[g] = Subsequence(rows, class(key[g])) /\ by[g] \in Seq(S)
                        /\ Range(by[g]) = {rows[i] : i \in class(key[g])}
                        /\ IsInjective(by[g]) /\ by[g] # << >>
      OBVIOUS
    <2>1. by[g] = Subsequence(rows, class(key[g])) /\ class(key[g]) \in SUBSET DOMAIN rows
      BY <1>5
    <2>2. class(key[g]) # {}
      BY <1>6
    <2> HIDE DEF class
    <2>3. QED
      BY <2>1, <2>2, SubsequenceRange
  <1>10. by \in Seq(Seq(S)) /\ DOMAIN by = 1..n
    BY <1>2, <1>5, <1>9
  <1>11. QED
    <2>1. /\ by \in Seq(Seq(S))
          /\ \A g \in DOMAIN by : by[g] # << >> /\ IsInjective(by[g])
      BY <1>9, <1>10
    <2>2. \A g \in DOMAIN by : \A row \in Range(by[g]) :
            \E i \in DOMAIN rows : keys[i] = key[g] /\ row = rows[i]
      <3> SUFFICES ASSUME NEW g \in DOMAIN by, NEW row \in Range(by[g])
                   PROVE  \E i \in DOMAIN rows : keys[i] = key[g] /\ row = rows[i]
        OBVIOUS
      <3>1. row \in {rows[i] : i \in class(key[g])}
        BY <1>9, <1>10
      <3>2. QED
        BY <3>1
    <2>3. \A g \in DOMAIN by, i \in DOMAIN rows : keys[i] = key[g] => rows[i] \in Range(by[g])
      BY <1>9, <1>10
    <2>4. KeyedBy(rows, keys, by, key)
      BY <1>7, <1>8, <1>10, <2>2, <2>3 DEF KeyedBy
    <2>5. QED
      BY <2>1, <2>4 DEF by

-----------------------------------------------------------------------------
(* A grouping of a set of rows: nonempty groups of legal shape that hold each
   row once. *)

\* A row of an admitted wave: its table holds its prompt, and max_seq does.
Legal(row) == Ceil(row.shared + row.suffix) <= row.pages /\ row.shared + row.suffix <= MaxSeq

GroupSet == [rows : Seq(RowSet), len : Nat, padded : BOOLEAN]

Disjoint(A, B) == A \cap B = {}

ShapeOf(g) ==
  \A row \in Range(g.rows) :
    /\ row.shared + g.len <= MaxSeq
    /\ IF g.padded THEN row.suffix <= g.len ELSE row.suffix = g.len

Grouping(R, gs) ==
  /\ gs \in Seq(GroupSet)
  /\ \A g \in DOMAIN gs : /\ gs[g].rows # << >> /\ IsInjective(gs[g].rows)
                          /\ Range(gs[g].rows) \subseteq R /\ ShapeOf(gs[g])
  /\ \A x \in R : \E g \in DOMAIN gs : x \in Range(gs[g].rows)
  /\ \A g, h \in DOMAIN gs : g # h => Range(gs[g].rows) \cap Range(gs[h].rows) = {}

\* Everything a plan lacks.
LackingAll(gs) == UNION {Lacking(gs[g].rows, gs[g].len) : g \in DOMAIN gs}

LEMMA CeilType == \A n \in Nat : Ceil(n) \in Nat
  BY GroupsAssumption DEF Ceil

LEMMA CeilMonotone == \A m, n \in Nat : m <= n => Ceil(m) <= Ceil(n)
  BY GroupsAssumption DEF Ceil

\* A group that is not padded needs no page beyond the tables.
LEMMA ExactLacksNothing ==
  ASSUME NEW g \in GroupSet, ~g.padded, ShapeOf(g), \A row \in Range(g.rows) : Legal(row)
  PROVE  Lacking(g.rows, g.len) = {}
  <1> SUFFICES ASSUME NEW row \in Range(g.rows)
               PROVE  row.pages + 1 .. Ceil(row.shared + g.len) = {}
    BY DEF Lacking
  <1>1. row \in RowSet
    BY DEF GroupSet, Range
  <1>2. row.suffix = g.len /\ Ceil(row.shared + row.suffix) <= row.pages
    BY DEF ShapeOf, Legal
  <1>3. Ceil(row.shared + row.suffix) \in Nat /\ row.pages \in Nat
    BY <1>1, CeilType DEF RowSet
  <1>4. QED
    BY <1>2, <1>3

\* exact_groups: one group per suffix length.
LEMMA ExactGrouping ==
  ASSUME NEW rows \in Seq(RowSet), IsInjective(rows), \A row \in Range(rows) : Legal(row)
  PROVE  /\ Grouping(Range(rows), ExactGroups(rows))
         /\ \A g \in DOMAIN ExactGroups(rows) : ~ExactGroups(rows)[g].padded
         /\ LackingAll(ExactGroups(rows)) = {}
  <1> DEFINE keys == [i \in DOMAIN rows |-> rows[i].suffix]
             by == GroupsBy(rows, keys)
             gs == ExactGroups(rows)
  <1>1. \A i \in DOMAIN rows : rows[i] \in RowSet /\ rows[i] \in Range(rows) /\ keys[i] = rows[i].suffix
    BY DEF Range
  <1>2. gs = [g \in DOMAIN by |-> [rows |-> by[g], len |-> Head(by[g]).suffix, padded |-> FALSE]]
    BY DEF ExactGroups
  <1> HIDE DEF keys, gs
  <1>3. /\ by \in Seq(Seq(RowSet))
        /\ \A g \in DOMAIN by : by[g] # << >> /\ IsInjective(by[g])
    BY GroupsByFacts
  <1>4. PICK key : KeyedBy(rows, keys, by, key)
    BY GroupsByFacts
  <1> HIDE DEF by
  <1>5. \A g \in DOMAIN by : \A row \in Range(by[g]) :
           row \in RowSet /\ row \in Range(rows) /\ row.suffix = key[g]
    <2> SUFFICES ASSUME NEW g \in DOMAIN by, NEW row \in Range(by[g])
                 PROVE  row \in RowSet /\ row \in Range(rows) /\ row.suffix = key[g]
      OBVIOUS
    <2>1. PICK i \in DOMAIN rows : keys[i] = key[g] /\ row = rows[i]
      BY <1>4 DEF KeyedBy
    <2>2. QED
      BY <1>1, <2>1
  <1>6. \A g \in DOMAIN by : /\ by[g] \in Seq(RowSet) /\ Head(by[g]) \in Range(by[g])
                             /\ Head(by[g]).suffix = key[g] /\ key[g] \in Nat
    <2> SUFFICES ASSUME NEW g \in DOMAIN by
                 PROVE  /\ by[g] \in Seq(RowSet) /\ Head(by[g]) \in Range(by[g])
                        /\ Head(by[g]).suffix = key[g] /\ key[g] \in Nat
      OBVIOUS
    <2>1. by[g] \in Seq(RowSet) /\ by[g] # << >>
      BY <1>3
    <2>2. Head(by[g]) \in Range(by[g])
      BY <2>1 DEF Range
    <2>3. QED
      BY <1>5, <2>1, <2>2 DEF RowSet
  <1>7. gs \in Seq(GroupSet) /\ DOMAIN gs = DOMAIN by
        /\ \A g \in DOMAIN gs : gs[g].rows = by[g] /\ gs[g].len = key[g] /\ gs[g].padded = FALSE
    <2>1. \A g \in DOMAIN by : [rows |-> by[g], len |-> Head(by[g]).suffix, padded |-> FALSE] \in GroupSet
      BY <1>6 DEF GroupSet
    <2>2. DOMAIN by = 1..Len(by) /\ Len(by) \in Nat
      BY <1>3
    <2>3. gs \in Seq(GroupSet)
      BY <1>2, <2>1, <2>2
    <2>4. QED
      BY <1>2, <1>6, <2>3
  <1>8. \A g \in DOMAIN gs : ShapeOf(gs[g])
    BY <1>5, <1>7 DEF ShapeOf, Legal
  <1>9. \A x \in Range(rows) : \E g \in DOMAIN gs : x \in Range(gs[g].rows)
    <2> SUFFICES ASSUME NEW i \in DOMAIN rows
                 PROVE  \E g \in DOMAIN gs : rows[i] \in Range(gs[g].rows)
      BY DEF Range
    <2>1. PICK g \in DOMAIN by : key[g] = keys[i]
      BY <1>4 DEF KeyedBy
    <2>2. rows[i] \in Range(by[g])
      BY <1>4, <2>1 DEF KeyedBy
    <2>3. QED
      BY <1>7, <2>2
  <1>10. \A g, h \in DOMAIN gs : g # h => Range(gs[g].rows) \cap Range(gs[h].rows) = {}
    <2> SUFFICES ASSUME NEW g \in DOMAIN by, NEW h \in DOMAIN by, g # h,
                        NEW row \in Range(by[g]), row \in Range(by[h])
                 PROVE  FALSE
      BY <1>7
    <2>1. key[g] = key[h]
      BY <1>5
    <2>2. QED
      BY <1>4, <2>1 DEF KeyedBy
  <1>11. Grouping(Range(rows), gs)
    <2>1. \A g \in DOMAIN gs : /\ gs[g].rows # << >> /\ IsInjective(gs[g].rows)
                               /\ Range(gs[g].rows) \subseteq Range(rows) /\ ShapeOf(gs[g])
      BY <1>3, <1>5, <1>7, <1>8
    <2>2. QED
      BY <1>7, <1>9, <1>10, <2>1 DEF Grouping
  <1>12. LackingAll(gs) = {}
    <2>1. \A g \in DOMAIN gs : Lacking(gs[g].rows, gs[g].len) = {}
      <3> SUFFICES ASSUME NEW g \in DOMAIN gs
                   PROVE  Lacking(gs[g].rows, gs[g].len) = {}
        OBVIOUS
      <3>1. gs[g] \in GroupSet /\ ~gs[g].padded /\ ShapeOf(gs[g])
            /\ \A row \in Range(gs[g].rows) : Legal(row)
        BY <1>5, <1>7, <1>8
      <3>2. QED
        BY <3>1, ExactLacksNothing
    <2>2. QED
      BY <2>1 DEF LackingAll
  <1>13. QED
    BY <1>7, <1>11, <1>12 DEF gs

\* Two plans of disjoint sets of rows, one after the other.
LEMMA JoinGroupings ==
  ASSUME NEW R1, NEW gs1, Grouping(R1, gs1), NEW R2, NEW gs2, Grouping(R2, gs2), Disjoint(R1, R2)
  PROVE  /\ Grouping(R1 \cup R2, gs1 \o gs2)
         /\ \A x \in LackingAll(gs1 \o gs2) : x \in LackingAll(gs1) \/ x \in LackingAll(gs2)
  <1> DEFINE gs == gs1 \o gs2
  <1>1. gs1 \in Seq(GroupSet) /\ gs2 \in Seq(GroupSet) /\ gs \in Seq(GroupSet)
    BY DEF Grouping
  <1>2. /\ DOMAIN gs1 = 1..Len(gs1) /\ DOMAIN gs2 = 1..Len(gs2)
        /\ Len(gs1) \in Nat /\ Len(gs2) \in Nat
        /\ \A g \in DOMAIN gs : \/ g \in DOMAIN gs1 /\ gs[g] = gs1[g]
                                \/ g \notin DOMAIN gs1 /\ g - Len(gs1) \in DOMAIN gs2
                                   /\ gs[g] = gs2[g - Len(gs1)]
        /\ \A g \in DOMAIN gs1 : g \in DOMAIN gs /\ gs[g] = gs1[g]
        /\ \A g \in DOMAIN gs2 : g + Len(gs1) \in DOMAIN gs /\ gs[g + Len(gs1)] = gs2[g]
        /\ DOMAIN gs \subseteq Nat
    BY <1>1
  <1> HIDE DEF gs
  <1>3. \A g \in DOMAIN gs : /\ gs[g].rows # << >> /\ IsInjective(gs[g].rows)
                             /\ Range(gs[g].rows) \subseteq R1 \cup R2 /\ ShapeOf(gs[g])
    BY <1>2 DEF Grouping
  <1>4. \A x \in R1 \cup R2 : \E g \in DOMAIN gs : x \in Range(gs[g].rows)
    <2>1. ASSUME NEW x \in R1
          PROVE  \E g \in DOMAIN gs : x \in Range(gs[g].rows)
      <3>1. PICK g \in DOMAIN gs1 : x \in Range(gs1[g].rows)
        BY DEF Grouping
      <3>2. QED
        BY <1>2, <3>1
    <2>2. ASSUME NEW x \in R2
          PROVE  \E g \in DOMAIN gs : x \in Range(gs[g].rows)
      <3>1. PICK g \in DOMAIN gs2 : x \in Range(gs2[g].rows)
        BY DEF Grouping
      <3>2. QED
        BY <1>2, <3>1
    <2>3. QED
      BY <2>1, <2>2
  <1>5. \A g, h \in DOMAIN gs : g # h => Range(gs[g].rows) \cap Range(gs[h].rows) = {}
    <2> SUFFICES ASSUME NEW g \in DOMAIN gs, NEW h \in DOMAIN gs, g # h
                 PROVE  Range(gs[g].rows) \cap Range(gs[h].rows) = {}
      OBVIOUS
    <2>1. CASE g \in DOMAIN gs1 /\ h \in DOMAIN gs1
      <3>1. gs[g] = gs1[g] /\ gs[h] = gs1[h]
        BY <1>2, <2>1
      <3>2. QED
        BY <2>1, <3>1 DEF Grouping
    <2>2. CASE g \notin DOMAIN gs1 /\ h \notin DOMAIN gs1
      <3>1. /\ g - Len(gs1) \in DOMAIN gs2 /\ gs[g] = gs2[g - Len(gs1)]
            /\ h - Len(gs1) \in DOMAIN gs2 /\ gs[h] = gs2[h - Len(gs1)]
        BY <1>2, <2>2
      <3>2. g - Len(gs1) # h - Len(gs1)
        BY <1>2
      <3>3. QED
        BY <3>1, <3>2 DEF Grouping
    <2>3. CASE g \in DOMAIN gs1 /\ h \notin DOMAIN gs1
      <3>1. /\ gs[g] = gs1[g] /\ h - Len(gs1) \in DOMAIN gs2 /\ gs[h] = gs2[h - Len(gs1)]
        BY <1>2, <2>3
      <3>2. Range(gs[g].rows) \subseteq R1 /\ Range(gs[h].rows) \subseteq R2
        BY <2>3, <3>1 DEF Grouping
      <3>3. QED
        BY <3>2 DEF Disjoint
    <2>4. CASE g \notin DOMAIN gs1 /\ h \in DOMAIN gs1
      <3>1. /\ gs[h] = gs1[h] /\ g - Len(gs1) \in DOMAIN gs2 /\ gs[g] = gs2[g - Len(gs1)]
        BY <1>2, <2>4
      <3>2. Range(gs[h].rows) \subseteq R1 /\ Range(gs[g].rows) \subseteq R2
        BY <2>4, <3>1 DEF Grouping
      <3>3. QED
        BY <3>2 DEF Disjoint
    <2>5. QED
      BY <2>1, <2>2, <2>3, <2>4
  <1>6. Grouping(R1 \cup R2, gs)
    BY <1>1, <1>3, <1>4, <1>5 DEF Grouping, gs
  <1>7. \A x \in LackingAll(gs) : x \in LackingAll(gs1) \/ x \in LackingAll(gs2)
    BY <1>2 DEF LackingAll
  <1>8. QED
    BY <1>6, <1>7 DEF gs

-----------------------------------------------------------------------------
(* Flattening. *)

Flattens(ss, n, f) == f = [i \in 1..n |-> IF i = 1 THEN ss[i] ELSE f[i - 1] \o ss[i]]

\* FlattenSeq appends the sequences one after the other.
LEMMA FlattenRec ==
  ASSUME NEW S, NEW ss \in Seq(Seq(S)), ss # << >>
  PROVE  \E f \in [1..Len(ss) -> Seq(S)] :
           /\ f[1] = ss[1]
           /\ \A i \in 1..Len(ss) - 1 : f[i + 1] = f[i] \o ss[i + 1]
           /\ FlattenSeq(ss) = f[Len(ss)]
  <1> DEFINE flatten == CHOOSE f : f = [i \in 1..Len(ss) |-> IF i = 1 THEN ss[i] ELSE f[i - 1] \o ss[i]]
             Defined == {n \in Nat : n <= Len(ss) => \E f : Flattens(ss, n, f)}
  <1>1. Len(ss) \in Nat \ {0} /\ \A i \in 1..Len(ss) : ss[i] \in Seq(S)
    OBVIOUS
  <1>2. 0 \in Defined
    <2>1. Flattens(ss, 0, [i \in 1..0 |-> << >>])
      BY DEF Flattens
    <2>2. QED
      BY <2>1
  <1>3. ASSUME NEW n \in Nat, n \in Defined
        PROVE  n + 1 \in Defined
    <2>1. SUFFICES ASSUME n + 1 <= Len(ss)
                   PROVE  \E f : Flattens(ss, n + 1, f)
      OBVIOUS
    <2>2. n <= Len(ss)
      BY <1>1, <2>1
    <2>3. PICK f : Flattens(ss, n, f)
      BY <1>3, <2>2
    <2> DEFINE g == [i \in 1..n + 1 |->
                       IF i = n + 1 THEN IF i = 1 THEN ss[i] ELSE f[i - 1] \o ss[i] ELSE f[i]]
    <2>4. \A i \in 1..n : f[i] = IF i = 1 THEN ss[i] ELSE f[i - 1] \o ss[i]
      BY <2>3 DEF Flattens
    <2>5. \A i \in 1..n + 1 : g[i] = IF i = 1 THEN ss[i] ELSE g[i - 1] \o ss[i]
      <3> SUFFICES ASSUME NEW i \in 1..n + 1
                   PROVE  g[i] = IF i = 1 THEN ss[i] ELSE g[i - 1] \o ss[i]
        OBVIOUS
      <3>1. i # 1 => i - 1 \in 1..n /\ g[i - 1] = f[i - 1]
        OBVIOUS
      <3>2. CASE i = n + 1
        BY <3>1, <3>2
      <3>3. CASE i # n + 1
        BY <2>4, <3>1, <3>3
      <3>4. QED
        BY <3>2, <3>3
    <2>6. g = [i \in 1..n + 1 |-> g[i]]
      OBVIOUS
    <2> HIDE DEF g
    <2>7. Flattens(ss, n + 1, g)
      BY <2>5, <2>6 DEF Flattens
    <2>8. QED
      BY <2>7
  <1>4. Nat \subseteq Defined
    <2> HIDE DEF Defined
    <2>1. QED
      BY <1>2, <1>3, SetInduction
  <1>5. Flattens(ss, Len(ss), flatten)
    <2>1. \E f : Flattens(ss, Len(ss), f)
      BY <1>1, <1>4
    <2>2. QED
      BY <2>1, Zenon DEF Flattens
  <1>6. FlattenSeq(ss) = flatten[Len(ss)]
    BY <1>1 DEF FlattenSeq
  <1> HIDE DEF flatten
  <1>7. /\ flatten[1] = ss[1]
        /\ \A i \in 1..Len(ss) - 1 : flatten[i + 1] = flatten[i] \o ss[i + 1]
    <2>1. \A i \in 1..Len(ss) : flatten[i] = IF i = 1 THEN ss[i] ELSE flatten[i - 1] \o ss[i]
      BY <1>5 DEF Flattens
    <2>2. ASSUME NEW i \in 1..Len(ss) - 1
          PROVE  flatten[i + 1] = flatten[i] \o ss[i + 1]
      <3>1. i + 1 \in 1..Len(ss) /\ i + 1 # 1 /\ (i + 1) - 1 = i
        BY <1>1
      <3>2. flatten[i + 1] = flatten[(i + 1) - 1] \o ss[i + 1]
        BY <2>1, <3>1
      <3>3. QED
        BY <3>1, <3>2
    <2>3. flatten[1] = ss[1]
      BY <1>1, <2>1
    <2>4. QED
      BY <2>2, <2>3
  <1> DEFINE Typed == {n \in Nat : n \in 1..Len(ss) => flatten[n] \in Seq(S)}
  <1>8. 0 \in Typed
    OBVIOUS
  <1>9. ASSUME NEW n \in Nat, n \in Typed
        PROVE  n + 1 \in Typed
    <2> SUFFICES ASSUME n + 1 \in 1..Len(ss)
                 PROVE  flatten[n + 1] \in Seq(S)
      OBVIOUS
    <2>1. CASE n = 0
      BY <1>1, <1>7, <2>1
    <2>2. CASE n # 0
      <3>1. n \in 1..Len(ss) /\ n \in 1..Len(ss) - 1 /\ n + 1 \in 1..Len(ss)
        BY <1>1, <2>2
      <3>2. flatten[n] \in Seq(S) /\ ss[n + 1] \in Seq(S)
        BY <1>1, <1>9, <3>1
      <3>3. flatten[n + 1] = flatten[n] \o ss[n + 1]
        BY <1>7, <3>1
      <3>4. QED
        BY <3>2, <3>3
    <2>3. QED
      BY <2>1, <2>2
  <1>10. Nat \subseteq Typed
    <2> HIDE DEF Typed
    <2>1. QED
      BY <1>8, <1>9, SetInduction
  <1>11. flatten \in [1..Len(ss) -> Seq(S)]
    <2>1. flatten = [i \in 1..Len(ss) |-> flatten[i]]
      BY <1>5 DEF Flattens
    <2>2. \A i \in 1..Len(ss) : flatten[i] \in Seq(S)
      BY <1>1, <1>10
    <2>3. QED
      BY <2>1, <2>2
  <1>12. QED
    BY <1>6, <1>7, <1>11

\* The plans of disjoint sets of rows, flattened, are a plan of all of them.
LEMMA FlattenGroupings ==
  ASSUME NEW ss \in Seq(Seq(GroupSet)), ss # << >>, NEW R,
         \A i \in DOMAIN ss : Grouping(R[i], ss[i]),
         \A i, j \in DOMAIN ss : i # j => R[i] \cap R[j] = {}
  PROVE  Grouping(UNION {R[i] : i \in DOMAIN ss}, FlattenSeq(ss))
  <1>1. PICK f \in [1..Len(ss) -> Seq(GroupSet)] :
           /\ f[1] = ss[1]
           /\ \A i \in 1..Len(ss) - 1 : f[i + 1] = f[i] \o ss[i + 1]
           /\ FlattenSeq(ss) = f[Len(ss)]
    BY FlattenRec
  <1>2. Len(ss) \in Nat \ {0} /\ DOMAIN ss = 1..Len(ss)
    OBVIOUS
  <1> DEFINE Upto(n) == UNION {R[i] : i \in 1..n}
             Good == {n \in Nat : n \in 1..Len(ss) => Grouping(Upto(n), f[n])}
  <1>3. 0 \in Good
    OBVIOUS
  <1>4. ASSUME NEW n \in Nat, n \in Good
        PROVE  n + 1 \in Good
    <2> SUFFICES ASSUME n + 1 \in 1..Len(ss)
                 PROVE  Grouping(Upto(n + 1), f[n + 1])
      OBVIOUS
    <2>1. CASE n = 0
      <3>1. Upto(1) = R[1] /\ 1..1 = {1}
        <4>1. 1..1 = {1}
          OBVIOUS
        <4>2. QED
          BY <4>1
      <3>2. 1 \in DOMAIN ss
        BY <1>2
      <3>3. n + 1 = 1 /\ Grouping(R[1], ss[1]) /\ f[1] = ss[1]
        BY <1>1, <2>1, <3>2
      <3> HIDE DEF Upto
      <3>4. QED
        BY <3>1, <3>3
    <2>2. CASE n # 0
      <3>1. n \in 1..Len(ss) /\ n \in 1..Len(ss) - 1 /\ n + 1 \in 1..Len(ss)
        BY <1>2, <2>2
      <3>2. Grouping(Upto(n), f[n])
        BY <1>4, <3>1
      <3>3. Grouping(R[n + 1], ss[n + 1]) /\ f[n + 1] = f[n] \o ss[n + 1]
        BY <1>1, <1>2, <3>1
      <3>4. Disjoint(Upto(n), R[n + 1])
        <4>1. \A i \in 1..n : i \in DOMAIN ss /\ i # n + 1
          BY <1>2, <3>1
        <4>2. n + 1 \in DOMAIN ss
          BY <1>2
        <4>3. QED
          BY <4>1, <4>2 DEF Disjoint
      <3>5. 1..n + 1 = (1..n) \cup {n + 1}
        BY <3>1
      <3>6. Upto(n + 1) = Upto(n) \cup R[n + 1]
        BY <3>5
      <3> HIDE DEF Upto
      <3>7. Grouping(Upto(n) \cup R[n + 1], f[n] \o ss[n + 1])
        <4> DEFINE A == Upto(n)
                   x == f[n]
                   B == R[n + 1]
                   y == ss[n + 1]
        <4>1. Grouping(A, x) /\ Grouping(B, y) /\ Disjoint(A, B)
          BY <3>2, <3>3, <3>4
        <4> HIDE DEF A, B, x, y
        <4>2. Grouping(A \cup B, x \o y)
          BY <4>1, JoinGroupings
        <4>3. QED
          BY <4>2 DEF A, B, x, y
      <3>8. QED
        BY <3>3, <3>6, <3>7
    <2>3. QED
      BY <2>1, <2>2
  <1>5. Nat \subseteq Good
    <2> HIDE DEF Good
    <2>1. QED
      BY <1>3, <1>4, SetInduction
  <1>6. Grouping(Upto(Len(ss)), f[Len(ss)])
    <2> HIDE DEF Upto
    <2>1. Len(ss) \in Good
      BY <1>2, <1>5
    <2>2. QED
      BY <1>2, <2>1
  <1>7. QED
    BY <1>1, <1>2, <1>6

-----------------------------------------------------------------------------
(* The plans of _shared_prefix_prefill_groups and of step. *)

\* One group for all the rows, padded to len.
LEMMA PaddedGrouping ==
  ASSUME NEW rows \in Seq(RowSet), IsInjective(rows), rows # << >>, NEW len \in Nat, NEW free \in Nat,
         CanPad(rows, len, free)
  PROVE  /\ Grouping(Range(rows), <<[rows |-> rows, len |-> len, padded |-> TRUE]>>)
         /\ Cardinality(LackingAll(<<[rows |-> rows, len |-> len, padded |-> TRUE]>>)) <= free
  <1> DEFINE g == [rows |-> rows, len |-> len, padded |-> TRUE]
  <1>1. g \in GroupSet /\ ShapeOf(g) /\ g.rows = rows /\ g.len = len
    BY DEF GroupSet, ShapeOf, CanPad
  <1>2. ExtraPages(rows, len) <= free
    BY DEF CanPad
  <1> HIDE DEF g
  <1>3. <<g>> \in Seq(GroupSet) /\ DOMAIN <<g>> = {1} /\ <<g>>[1] = g
    BY <1>1
  <1>4. Grouping(Range(rows), <<g>>)
    BY <1>1, <1>3 DEF Grouping
  <1>5. LackingAll(<<g>>) = Lacking(rows, len)
    BY <1>1, <1>3 DEF LackingAll
  <1>6. QED
    BY <1>2, <1>4, <1>5 DEF ExtraPages, g

LEMMA BucketType == \A n \in Nat : Bucket(n) \in Nat /\ n <= Bucket(n)
  <1> SUFFICES ASSUME NEW n \in Nat
               PROVE  Bucket(n) \in Nat /\ n <= Bucket(n)
    OBVIOUS
  <1> DEFINE fits == {i \in DOMAIN SuffixBuckets : n <= SuffixBuckets[i]}
  <1>1. CASE fits = {}
    BY <1>1 DEF Bucket
  <1>2. CASE fits # {}
    <2>1. fits \in SUBSET Nat /\ \A i \in DOMAIN SuffixBuckets : SuffixBuckets[i] \in Nat
      BY GroupsAssumption
    <2>2. Min(fits) \in fits
      BY <1>2, <2>1, LeastOf
    <2>3. Bucket(n) = SuffixBuckets[Min(fits)]
      BY <1>2 DEF Bucket
    <2>4. QED
      BY <2>1, <2>2, <2>3
  <1>3. QED
    BY <1>1, <1>2

LEMMA ImageFinite ==
  ASSUME NEW f, IsFiniteSet(DOMAIN f)
  PROVE  IsFiniteSet(Range(f))
  <1> DEFINE g == [x \in DOMAIN f |-> f[x]]
  <1>1. g \in Surjection(DOMAIN f, Range(f))
    BY DEF Surjection, Range
  <1>2. QED
    BY <1>1, FS_Surjection

LEMMA LackingFinite ==
  ASSUME NEW rows \in Seq(RowSet), NEW len \in Nat
  PROVE  IsFiniteSet(Lacking(rows, len))
  <1> DEFINE Of(row) == {row.rid} \X (row.pages + 1 .. Ceil(row.shared + len))
             f == [i \in DOMAIN rows |-> Of(rows[i])]
  <1>1. IsFiniteSet(DOMAIN f)
    BY FS_Interval
  <1>2. IsFiniteSet(Range(f))
    BY <1>1, ImageFinite
  <1>3. \A T \in Range(f) : IsFiniteSet(T)
    <2> SUFFICES ASSUME NEW i \in DOMAIN rows
                 PROVE  IsFiniteSet(Of(rows[i]))
      BY DEF Range
    <2>1. rows[i] \in RowSet
      OBVIOUS
    <2>2. rows[i].pages + 1 \in Int /\ Ceil(rows[i].shared + len) \in Int
      <3>1. rows[i].pages \in Nat /\ rows[i].shared + len \in Nat
        BY <2>1 DEF RowSet
      <3>2. Ceil(rows[i].shared + len) \in Nat
        BY <3>1, CeilType
      <3>3. QED
        BY <3>1, <3>2
    <2>3. IsFiniteSet(rows[i].pages + 1 .. Ceil(rows[i].shared + len)) /\ IsFiniteSet({rows[i].rid})
      BY <2>2, FS_Interval, FS_Singleton
    <2>4. QED
      BY <2>3, FS_Product
  <1>4. Lacking(rows, len) = UNION Range(f)
    BY DEF Lacking, Range
  <1> HIDE DEF f
  <1>5. QED
    BY <1>2, <1>3, <1>4, FS_UNION

LEMMA LackingAllFinite ==
  ASSUME NEW gs \in Seq(GroupSet)
  PROVE  IsFiniteSet(LackingAll(gs))
  <1> DEFINE f == [g \in DOMAIN gs |-> Lacking(gs[g].rows, gs[g].len)]
  <1>1. IsFiniteSet(DOMAIN f)
    BY FS_Interval
  <1>2. IsFiniteSet(Range(f))
    BY <1>1, ImageFinite
  <1>3. \A T \in Range(f) : IsFiniteSet(T)
    <2> SUFFICES ASSUME NEW g \in DOMAIN gs
                 PROVE  IsFiniteSet(Lacking(gs[g].rows, gs[g].len))
      BY DEF Range
    <2>1. gs[g] \in GroupSet
      OBVIOUS
    <2>2. gs[g].rows \in Seq(RowSet) /\ gs[g].len \in Nat
      BY <2>1 DEF GroupSet
    <2>3. QED
      BY <2>2, LackingFinite
  <1>4. LackingAll(gs) = UNION Range(f)
    BY DEF LackingAll, Range
  <1> HIDE DEF f
  <1>5. QED
    BY <1>2, <1>3, <1>4, FS_UNION

\* The rows of one bucket.
LEMMA BucketGrouping ==
  ASSUME NEW rows \in Seq(RowSet), IsInjective(rows), rows # << >>, NEW free \in Nat,
         \A row \in Range(rows) : Legal(row)
  PROVE  Grouping(Range(rows), BucketGroup(rows, free))
  <1> DEFINE b == Bucket(Head(rows).suffix)
  <1>1. b \in Nat
    <2>1. Head(rows) \in RowSet
      OBVIOUS
    <2>2. Head(rows).suffix \in Nat
      BY <2>1 DEF RowSet
    <2>3. QED
      BY <2>2, BucketType
  <1> HIDE DEF b
  <1>2. CASE Len(rows) > 1 /\ CanPad(rows, b, free)
    <2>1. BucketGroup(rows, free) = <<[rows |-> rows, len |-> b, padded |-> TRUE]>>
      BY <1>2 DEF BucketGroup, b
    <2>2. QED
      BY <1>1, <1>2, <2>1, PaddedGrouping
  <1>3. CASE ~ (Len(rows) > 1 /\ CanPad(rows, b, free))
    <2>1. BucketGroup(rows, free) = ExactGroups(rows)
      BY <1>3 DEF BucketGroup, b
    <2>2. QED
      BY <2>1, ExactGrouping
  <1>4. QED
    BY <1>2, <1>3

\* A plan lacks what its padded groups lack.
LEMMA PaddedLack ==
  ASSUME NEW R, NEW gs, Grouping(R, gs), \A row \in R : Legal(row)
  PROVE  LackingAll(gs) = UNION {Lacking(g.rows, g.len) : g \in {g \in Range(gs) : g.padded}}
  <1>1. \A g \in DOMAIN gs : ~gs[g].padded => Lacking(gs[g].rows, gs[g].len) = {}
    <2> SUFFICES ASSUME NEW g \in DOMAIN gs, ~gs[g].padded
                 PROVE  Lacking(gs[g].rows, gs[g].len) = {}
      OBVIOUS
    <2>1. gs[g] \in GroupSet /\ ShapeOf(gs[g]) /\ \A row \in Range(gs[g].rows) : Legal(row)
      BY DEF Grouping
    <2>2. QED
      BY <2>1, ExactLacksNothing
  <1>2. \A x \in LackingAll(gs) : \E g \in Range(gs) : g.padded /\ x \in Lacking(g.rows, g.len)
    BY <1>1 DEF LackingAll, Range
  <1>3. \A g \in Range(gs) : \A x \in Lacking(g.rows, g.len) : x \in LackingAll(gs)
    BY DEF LackingAll, Range
  <1>4. QED
    BY <1>2, <1>3

LEMMA BucketedGrouping ==
  ASSUME NEW rows \in Seq(RowSet), IsInjective(rows), rows # << >>, NEW free \in Nat,
         \A row \in Range(rows) : Legal(row)
  PROVE  /\ Grouping(Range(rows), Bucketed(rows, free))
         /\ Cardinality(LackingAll(Bucketed(rows, free))) <= free
  <1> DEFINE keys == [i \in DOMAIN rows |-> Bucket(rows[i].suffix)]
             by == GroupsBy(rows, keys)
             ss == [g \in DOMAIN by |-> BucketGroup(by[g], free)]
             grouped == FlattenSeq(ss)
             padded == {g \in Range(grouped) : g.padded}
             paddedExtra == Cardinality(UNION {Lacking(g.rows, g.len) : g \in padded})
             R == [g \in DOMAIN by |-> Range(by[g])]
  <1>1. Bucketed(rows, free) = IF Len(by) <= 1 \/ paddedExtra > free THEN ExactGroups(rows) ELSE grouped
    BY DEF Bucketed
  <1> HIDE DEF keys
  <1>2. /\ by \in Seq(Seq(RowSet))
        /\ \A g \in DOMAIN by : by[g] # << >> /\ IsInjective(by[g])
    BY GroupsByFacts
  <1>3. PICK key : KeyedBy(rows, keys, by, key)
    BY GroupsByFacts
  <1> HIDE DEF by
  <1>4. \A g \in DOMAIN by : Range(by[g]) \subseteq Range(rows)
    <2>1. \A g \in DOMAIN by : \A row \in Range(by[g]) : \E i \in DOMAIN rows : row = rows[i]
      BY <1>3 DEF KeyedBy
    <2>2. \A i \in DOMAIN rows : rows[i] \in Range(rows)
      BY DEF Range
    <2>3. QED
      BY <2>1, <2>2
  <1>5. \A g \in DOMAIN by : by[g] \in Seq(RowSet) /\ Grouping(Range(by[g]), BucketGroup(by[g], free))
    <2> SUFFICES ASSUME NEW g \in DOMAIN by
                 PROVE  by[g] \in Seq(RowSet) /\ Grouping(Range(by[g]), BucketGroup(by[g], free))
      OBVIOUS
    <2>1. /\ by[g] \in Seq(RowSet) /\ by[g] # << >> /\ IsInjective(by[g])
          /\ \A row \in Range(by[g]) : Legal(row)
      BY <1>2, <1>4
    <2>2. QED
      BY <2>1, BucketGrouping
  <1>6. /\ ss \in Seq(Seq(GroupSet)) /\ DOMAIN ss = DOMAIN by /\ Len(ss) = Len(by)
        /\ \A i \in DOMAIN ss : ss[i] = BucketGroup(by[i], free)
    <2>1. \A g \in DOMAIN by : BucketGroup(by[g], free) \in Seq(GroupSet)
      BY <1>5 DEF Grouping
    <2>2. DOMAIN by = 1..Len(by) /\ Len(by) \in Nat
      BY <1>2
    <2>3. QED
      BY <2>1, <2>2
  <1>7. \A i, j \in DOMAIN by : i # j => Range(by[i]) \cap Range(by[j]) = {}
    <2> SUFFICES ASSUME NEW g \in DOMAIN by, NEW h \in DOMAIN by, g # h,
                        NEW row \in Range(by[g]), row \in Range(by[h])
                 PROVE  FALSE
      OBVIOUS
    <2>1. PICK i \in DOMAIN rows : keys[i] = key[g] /\ row = rows[i]
      BY <1>3 DEF KeyedBy
    <2>2. PICK j \in DOMAIN rows : keys[j] = key[h] /\ row = rows[j]
      BY <1>3 DEF KeyedBy
    <2>3. i = j
      BY <2>1, <2>2 DEF IsInjective
    <2>4. QED
      BY <1>3, <2>1, <2>2, <2>3 DEF KeyedBy
  <1>8. UNION {R[i] : i \in DOMAIN by} = Range(rows)
    <2>1. \A x \in Range(rows) : \E g \in DOMAIN by : x \in Range(by[g])
      <3> SUFFICES ASSUME NEW i \in DOMAIN rows
                   PROVE  \E g \in DOMAIN by : rows[i] \in Range(by[g])
        BY DEF Range
      <3>1. PICK g \in DOMAIN by : key[g] = keys[i]
        BY <1>3 DEF KeyedBy
      <3>2. QED
        BY <1>3, <3>1 DEF KeyedBy
    <2>2. QED
      BY <1>4, <2>1
  <1>9. /\ \A i \in DOMAIN ss : Grouping(R[i], ss[i])
        /\ \A i, j \in DOMAIN ss : i # j => R[i] \cap R[j] = {}
    BY <1>5, <1>6, <1>7
  <1> HIDE DEF ss, R
  <1>10. CASE Len(by) <= 1 \/ paddedExtra > free
    <2>1. Bucketed(rows, free) = ExactGroups(rows)
      BY <1>1, <1>10
    <2>2. /\ Grouping(Range(rows), ExactGroups(rows))
          /\ LackingAll(ExactGroups(rows)) = {}
      BY ExactGrouping
    <2>3. QED
      BY <2>1, <2>2, FS_EmptySet
  <1>11. CASE ~ (Len(by) <= 1 \/ paddedExtra > free)
    <2>1. Bucketed(rows, free) = grouped
      BY <1>1, <1>11
    <2>2. ss # << >>
      BY <1>2, <1>6, <1>11
    <2>3. Grouping(UNION {R[i] : i \in DOMAIN ss}, FlattenSeq(ss))
      BY <1>6, <1>9, <2>2, FlattenGroupings
    <2>4. Grouping(Range(rows), grouped)
      BY <1>6, <1>8, <2>3
    <2>5. LackingAll(grouped) = UNION {Lacking(g.rows, g.len) : g \in padded}
      BY <2>4, PaddedLack
    <2>6. Cardinality(LackingAll(grouped)) \in Nat
      BY <2>4, LackingAllFinite, FS_CardinalityType DEF Grouping
    <2>7. QED
      BY <1>11, <2>1, <2>4, <2>5, <2>6
  <1>12. QED
    BY <1>10, <1>11

LEMMA SharedGrouping ==
  ASSUME NEW rows \in Seq(RowSet), IsInjective(rows), NEW free \in Nat,
         NEW pad \in BOOLEAN, NEW bucketed \in BOOLEAN, NEW graph \in BOOLEAN,
         \A row \in Range(rows) : Legal(row)
  PROVE  /\ Grouping(Range(rows), SharedGroups(rows, free, pad, bucketed, graph))
         /\ Cardinality(LackingAll(SharedGroups(rows, free, pad, bucketed, graph))) <= free
  <1> DEFINE lens == {row.suffix : row \in Range(rows)}
             len == IF graph THEN Bucket(Max(lens)) ELSE Max(lens)
             gs == SharedGroups(rows, free, pad, bucketed, graph)
  <1>1. /\ Grouping(Range(rows), ExactGroups(rows))
        /\ Cardinality(LackingAll(ExactGroups(rows))) <= free
    <2>1. LackingAll(ExactGroups(rows)) = {} /\ Grouping(Range(rows), ExactGroups(rows))
      BY ExactGrouping
    <2>2. QED
      BY <2>1, FS_EmptySet
  <1>2. gs = IF Cardinality(lens) <= 1 \/ ~pad THEN ExactGroups(rows)
             ELSE IF CanPad(rows, len, free) THEN <<[rows |-> rows, len |-> len, padded |-> TRUE]>>
             ELSE IF bucketed THEN Bucketed(rows, free) ELSE ExactGroups(rows)
    BY DEF SharedGroups
  <1>3. CASE Cardinality(lens) <= 1 \/ ~pad
    BY <1>1, <1>2, <1>3
  <1>4. CASE ~ (Cardinality(lens) <= 1 \/ ~pad)
    <2>1. lens # {}
      <3>1. SUFFICES ASSUME lens = {}
                     PROVE  FALSE
        OBVIOUS
      <3> HIDE DEF lens
      <3>2. Cardinality(lens) = 0
        BY <3>1, FS_EmptySet
      <3>3. QED
        BY <1>4, <3>2
    <2>2. rows # << >>
      BY <2>1 DEF Range
    <2>3. lens \in SUBSET Nat /\ \A y \in lens : y <= MaxSeq
      <3> SUFFICES ASSUME NEW row \in Range(rows)
                   PROVE  row.suffix \in Nat /\ row.suffix <= MaxSeq
        OBVIOUS
      <3>1. row \in RowSet /\ Legal(row)
        BY DEF Range
      <3>2. QED
        BY <3>1, GroupsAssumption DEF RowSet, Legal
    <2>4. Max(lens) \in Nat
      BY <2>1, <2>3, GreatestOf, GroupsAssumption
    <2>5. len \in Nat
      BY <2>4, BucketType
    <2> HIDE DEF len
    <2>6. CASE CanPad(rows, len, free)
      BY <1>2, <1>4, <2>2, <2>5, <2>6, PaddedGrouping
    <2>7. CASE ~CanPad(rows, len, free)
      BY <1>1, <1>2, <1>4, <2>2, <2>7, BucketedGrouping
    <2>8. QED
      BY <2>6, <2>7
  <1>5. QED
    BY <1>3, <1>4

\* The plan of a wave: every row in one group of legal shape, and the pages all the
\* groups together need beyond the tables are free.
THEOREM WaveGrouping ==
  ASSUME NEW rows \in Seq(RowSet), IsInjective(rows), NEW free \in Nat,
         NEW pad \in BOOLEAN, NEW bucketed \in BOOLEAN, NEW graph \in BOOLEAN,
         \A row \in Range(rows) : Legal(row)
  PROVE  /\ Grouping(Range(rows), WaveGroups(rows, free, pad, bucketed, graph))
         /\ Cardinality(LackingAll(WaveGroups(rows, free, pad, bucketed, graph))) <= free
  <1> DEFINE I == {i \in DOMAIN rows : rows[i].shared > 0}
             J == {i \in DOMAIN rows : rows[i].shared = 0}
             shared == Subsequence(rows, I)
             plain == Subsequence(rows, J)
             gs1 == SharedGroups(shared, free, pad, bucketed, graph)
             gs2 == ExactGroups(plain)
  <1>1. I \in SUBSET DOMAIN rows /\ J \in SUBSET DOMAIN rows
    OBVIOUS
  <1>2. \A i \in DOMAIN rows : i \in I \/ i \in J
    <2> SUFFICES ASSUME NEW i \in DOMAIN rows
                 PROVE  rows[i].shared > 0 \/ rows[i].shared = 0
      OBVIOUS
    <2>1. rows[i] \in RowSet
      OBVIOUS
    <2>2. rows[i].shared \in Nat
      BY <2>1 DEF RowSet
    <2>3. QED
      BY <2>2
  <1>3. \A i \in I, j \in J : i # j
    OBVIOUS
  <1> HIDE DEF I, J
  <1>4. /\ shared \in Seq(RowSet) /\ IsInjective(shared) /\ Range(shared) = {rows[i] : i \in I}
        /\ plain \in Seq(RowSet) /\ IsInjective(plain) /\ Range(plain) = {rows[i] : i \in J}
    BY <1>1, SubsequenceRange
  <1>5. WaveGroups(rows, free, pad, bucketed, graph) = gs1 \o gs2
    BY DEF WaveGroups, I, J
  <1> HIDE DEF shared, plain
  <1>6. /\ \A row \in Range(shared) : Legal(row)
        /\ \A row \in Range(plain) : Legal(row)
    BY <1>1, <1>4 DEF Range
  <1>7. Disjoint(Range(shared), Range(plain))
    BY <1>1, <1>3, <1>4 DEF Disjoint, IsInjective
  <1>8. Range(shared) \cup Range(plain) = Range(rows)
    <2>1. \A x \in Range(rows) : x \in Range(shared) \/ x \in Range(plain)
      BY <1>2, <1>4 DEF Range
    <2>2. \A x \in Range(shared) \cup Range(plain) : x \in Range(rows)
      BY <1>1, <1>4 DEF Range
    <2>3. QED
      BY <2>1, <2>2
  <1>9. Grouping(Range(shared), gs1) /\ Cardinality(LackingAll(gs1)) <= free
    BY <1>4, <1>6, SharedGrouping
  <1>10. Grouping(Range(plain), gs2) /\ LackingAll(gs2) = {}
    BY <1>4, <1>6, ExactGrouping
  <1> HIDE DEF gs1, gs2
  <1>11. Grouping(Range(shared) \cup Range(plain), gs1 \o gs2)
    BY <1>7, <1>9, <1>10, JoinGroupings
  <1>12. \A x \in LackingAll(gs1 \o gs2) : x \in LackingAll(gs1) \/ x \in LackingAll(gs2)
    BY <1>7, <1>9, <1>10, JoinGroupings
  <1>13. LackingAll(gs1 \o gs2) \in SUBSET LackingAll(gs1)
    BY <1>10, <1>12
  <1>14. IsFiniteSet(LackingAll(gs1))
    BY <1>9, LackingAllFinite DEF Grouping
  <1>15. /\ Cardinality(LackingAll(gs1)) \in Nat
         /\ Cardinality(LackingAll(gs1 \o gs2)) \in Nat
         /\ Cardinality(LackingAll(gs1 \o gs2)) <= Cardinality(LackingAll(gs1))
    BY <1>13, <1>14, FS_Subset, FS_CardinalityType
  <1>16. Cardinality(LackingAll(gs1 \o gs2)) <= free
    BY <1>9, <1>15
  <1>17. Grouping(Range(rows), gs1 \o gs2)
    BY <1>8, <1>11
  <1>18. QED
    BY <1>5, <1>16, <1>17

-----------------------------------------------------------------------------
(* Running a plan group by group. *)

RidsUnique(R) == \A x, y \in R : x.rid = y.rid => x = y

\* Without its first group a plan lacks what it lacked but for that group's pages.
LEMMA TailGrouping ==
  ASSUME NEW R \in SUBSET RowSet, NEW gs, Grouping(R, gs), gs # << >>, RidsUnique(R)
  PROVE  /\ Head(gs) \in GroupSet /\ Range(Head(gs).rows) \subseteq R
         /\ Grouping(R \ Range(Head(gs).rows), Tail(gs))
         /\ LackingAll(gs) = Lacking(Head(gs).rows, Head(gs).len) \cup LackingAll(Tail(gs))
         /\ Lacking(Head(gs).rows, Head(gs).len) \cap LackingAll(Tail(gs)) = {}
  <1> DEFINE h == Head(gs)
             t == Tail(gs)
  <1>1. gs \in Seq(GroupSet) /\ Len(gs) \in Nat \ {0} /\ 1 \in DOMAIN gs
    BY DEF Grouping
  <1>2. /\ h = gs[1] /\ h \in GroupSet /\ t \in Seq(GroupSet)
        /\ DOMAIN t = 1..Len(gs) - 1 /\ DOMAIN gs = 1..Len(gs)
        /\ \A g \in DOMAIN t : g + 1 \in DOMAIN gs /\ t[g] = gs[g + 1] /\ g + 1 # 1 /\ g \in Nat
    BY <1>1
  <1>3. \A g \in DOMAIN gs : g = 1 \/ \E i \in DOMAIN t : g = i + 1
    <2> SUFFICES ASSUME NEW g \in 1..Len(gs), g # 1
                 PROVE  g - 1 \in DOMAIN t /\ g = (g - 1) + 1
      BY <1>2
    <2>1. QED
      BY <1>1, <1>2
  <1> HIDE DEF h, t
  <1>4. Range(h.rows) \subseteq R
    BY <1>1, <1>2 DEF Grouping
  <1>5. Grouping(R \ Range(h.rows), t)
    <2>1. \A g \in DOMAIN t : /\ t[g].rows # << >> /\ IsInjective(t[g].rows)
                              /\ Range(t[g].rows) \subseteq R \ Range(h.rows) /\ ShapeOf(t[g])
      <3> SUFFICES ASSUME NEW g \in DOMAIN t
                   PROVE  /\ t[g].rows # << >> /\ IsInjective(t[g].rows)
                          /\ Range(t[g].rows) \subseteq R \ Range(h.rows) /\ ShapeOf(t[g])
        OBVIOUS
      <3>1. g + 1 \in DOMAIN gs /\ t[g] = gs[g + 1] /\ g + 1 # 1
        BY <1>2
      <3>2. Range(gs[g + 1].rows) \cap Range(gs[1].rows) = {}
        BY <1>1, <3>1 DEF Grouping
      <3>3. QED
        BY <1>2, <3>1, <3>2 DEF Grouping
    <2>2. \A x \in R \ Range(h.rows) : \E g \in DOMAIN t : x \in Range(t[g].rows)
      <3> SUFFICES ASSUME NEW x \in R \ Range(h.rows)
                   PROVE  \E g \in DOMAIN t : x \in Range(t[g].rows)
        OBVIOUS
      <3>1. PICK g \in DOMAIN gs : x \in Range(gs[g].rows)
        BY DEF Grouping
      <3>2. g # 1
        BY <1>2, <3>1
      <3>3. QED
        BY <1>2, <1>3, <3>1, <3>2
    <2>3. \A g, i \in DOMAIN t : g # i => Range(t[g].rows) \cap Range(t[i].rows) = {}
      <3> SUFFICES ASSUME NEW g \in DOMAIN t, NEW i \in DOMAIN t, g # i
                   PROVE  Range(t[g].rows) \cap Range(t[i].rows) = {}
        OBVIOUS
      <3>1. /\ g + 1 \in DOMAIN gs /\ t[g] = gs[g + 1] /\ g \in Nat
            /\ i + 1 \in DOMAIN gs /\ t[i] = gs[i + 1] /\ i \in Nat
        BY <1>2
      <3>2. g + 1 # i + 1
        BY <3>1
      <3>3. QED
        BY <3>1, <3>2 DEF Grouping
    <2>4. QED
      BY <1>2, <2>1, <2>2, <2>3 DEF Grouping
  <1>6. LackingAll(gs) = Lacking(h.rows, h.len) \cup LackingAll(t)
    <2>1. \A x \in LackingAll(gs) : x \in Lacking(h.rows, h.len) \/ x \in LackingAll(t)
      <3> SUFFICES ASSUME NEW g \in DOMAIN gs, NEW x \in Lacking(gs[g].rows, gs[g].len)
                   PROVE  x \in Lacking(h.rows, h.len) \/ x \in LackingAll(t)
        BY DEF LackingAll
      <3>1. CASE g = 1
        BY <1>2, <3>1
      <3>2. CASE g # 1
        <4>1. PICK i \in DOMAIN t : g = i + 1
          BY <1>3, <3>2
        <4>2. t[i] = gs[g]
          BY <1>2, <4>1
        <4>3. QED
          BY <4>2 DEF LackingAll
      <3>3. QED
        BY <3>1, <3>2
    <2>2. \A x \in Lacking(h.rows, h.len) : x \in LackingAll(gs)
      BY <1>1, <1>2 DEF LackingAll
    <2>3. \A x \in LackingAll(t) : x \in LackingAll(gs)
      BY <1>2 DEF LackingAll
    <2>4. QED
      BY <2>1, <2>2, <2>3
  <1>7. Lacking(h.rows, h.len) \cap LackingAll(t) = {}
    <2> SUFFICES ASSUME NEW p \in Lacking(h.rows, h.len), p \in LackingAll(t)
                 PROVE  FALSE
      OBVIOUS
    <2>1. PICK x \in Range(h.rows) : p \in {x.rid} \X (x.pages + 1 .. Ceil(x.shared + h.len))
      BY DEF Lacking
    <2>2. PICK g \in DOMAIN t : p \in Lacking(t[g].rows, t[g].len)
      BY DEF LackingAll
    <2>3. PICK y \in Range(t[g].rows) : p \in {y.rid} \X (y.pages + 1 .. Ceil(y.shared + t[g].len))
      BY <2>2 DEF Lacking
    <2>4. x.rid = y.rid
      BY <2>1, <2>3
    <2>5. y \in R \ Range(h.rows)
      BY <1>5 DEF Grouping
    <2>6. QED
      BY <1>4, <2>4, <2>5 DEF RidsUnique
  <1>8. QED
    BY <1>2, <1>4, <1>5, <1>6, <1>7 DEF h, t

-----------------------------------------------------------------------------
(* Sequences without repetition. *)

LEMMA ConcatRange ==
  ASSUME NEW S, NEW s \in Seq(S), NEW t \in Seq(S)
  PROVE  /\ s \o t \in Seq(S) /\ Range(s \o t) = Range(s) \cup Range(t)
         /\ IsInjective(s) /\ IsInjective(t) /\ Range(s) \cap Range(t) = {} => IsInjective(s \o t)
  <1> DEFINE u == s \o t
  <1>1. /\ u \in Seq(S) /\ Len(u) = Len(s) + Len(t) /\ Len(s) \in Nat /\ Len(t) \in Nat
        /\ DOMAIN s = 1..Len(s) /\ DOMAIN t = 1..Len(t) /\ DOMAIN u = 1..Len(u)
        /\ \A i \in DOMAIN u : \/ i \in DOMAIN s /\ u[i] = s[i]
                               \/ i \notin DOMAIN s /\ i - Len(s) \in DOMAIN t /\ u[i] = t[i - Len(s)]
        /\ \A i \in DOMAIN s : i \in DOMAIN u /\ u[i] = s[i]
        /\ \A i \in DOMAIN t : i + Len(s) \in DOMAIN u /\ u[i + Len(s)] = t[i]
    OBVIOUS
  <1> HIDE DEF u
  <1>2. \A x \in Range(u) : x \in Range(s) \/ x \in Range(t)
    BY <1>1 DEF Range
  <1>3. \A x \in Range(s) : x \in Range(u)
    BY <1>1 DEF Range
  <1>4. \A x \in Range(t) : x \in Range(u)
    BY <1>1 DEF Range
  <1>5. ASSUME IsInjective(s), IsInjective(t), Range(s) \cap Range(t) = {}
        PROVE  IsInjective(u)
    <2> SUFFICES ASSUME NEW i \in DOMAIN u, NEW j \in DOMAIN u, u[i] = u[j]
                 PROVE  i = j
      BY DEF IsInjective
    <2>1. CASE i \in DOMAIN s /\ j \in DOMAIN s
      BY <1>1, <1>5, <2>1 DEF IsInjective
    <2>2. CASE i \notin DOMAIN s /\ j \notin DOMAIN s
      <3>1. /\ i - Len(s) \in DOMAIN t /\ j - Len(s) \in DOMAIN t
            /\ t[i - Len(s)] = t[j - Len(s)]
        BY <1>1, <2>2
      <3>2. i - Len(s) = j - Len(s)
        BY <1>5, <3>1 DEF IsInjective
      <3>3. QED
        BY <1>1, <3>2
    <2>3. CASE i \in DOMAIN s /\ j \notin DOMAIN s
      <3>1. u[i] \in Range(s) /\ u[j] \in Range(t)
        BY <1>1, <2>3 DEF Range
      <3>2. QED
        BY <1>5, <3>1
    <2>4. CASE i \notin DOMAIN s /\ j \in DOMAIN s
      <3>1. u[j] \in Range(s) /\ u[i] \in Range(t)
        BY <1>1, <2>4 DEF Range
      <3>2. QED
        BY <1>5, <3>1
    <2>5. QED
      BY <2>1, <2>2, <2>3, <2>4
  <1>6. QED
    BY <1>1, <1>2, <1>3, <1>4, <1>5 DEF u

\* A sequence without repetition is as long as its range is large.
LEMMA InjectiveLen ==
  ASSUME NEW S, NEW s \in Seq(S), IsInjective(s)
  PROVE  IsFiniteSet(Range(s)) /\ Cardinality(Range(s)) = Len(s)
  <1> DEFINE f == [i \in 1..Len(s) |-> s[i]]
  <1>1. f \in Injection(1..Len(s), Range(s)) /\ f \in Surjection(1..Len(s), Range(s))
    BY DEF Injection, Surjection, IsInjective, Range
  <1>2. IsFiniteSet(1..Len(s)) /\ Cardinality(1..Len(s)) = Len(s)
    <2>1. Len(s) \in Nat
      OBVIOUS
    <2>2. QED
      BY <2>1, FS_Interval
  <1>3. ExistsBijection(1..Len(s), Range(s))
    BY <1>1 DEF ExistsBijection, Bijection
  <1>4. QED
    BY <1>2, <1>3, FS_Bijection

LEMMA FlattenPartition ==
  ASSUME NEW S, NEW ss \in Seq(Seq(S)), ss # << >>,
         \A i \in DOMAIN ss : IsInjective(ss[i]),
         \A i, j \in DOMAIN ss : i # j => Range(ss[i]) \cap Range(ss[j]) = {}
  PROVE  /\ FlattenSeq(ss) \in Seq(S) /\ IsInjective(FlattenSeq(ss))
         /\ Range(FlattenSeq(ss)) = UNION {Range(ss[i]) : i \in DOMAIN ss}
  <1>1. PICK f \in [1..Len(ss) -> Seq(S)] :
           /\ f[1] = ss[1]
           /\ \A i \in 1..Len(ss) - 1 : f[i + 1] = f[i] \o ss[i + 1]
           /\ FlattenSeq(ss) = f[Len(ss)]
    BY FlattenRec
  <1>2. Len(ss) \in Nat \ {0} /\ DOMAIN ss = 1..Len(ss) /\ \A i \in DOMAIN ss : ss[i] \in Seq(S)
    OBVIOUS
  <1> DEFINE Upto(n) == UNION {Range(ss[i]) : i \in 1..n}
             Good == {n \in Nat : n \in 1..Len(ss) => IsInjective(f[n]) /\ Range(f[n]) = Upto(n)}
  <1>3. 0 \in Good
    OBVIOUS
  <1>4. ASSUME NEW n \in Nat, n \in Good
        PROVE  n + 1 \in Good
    <2> SUFFICES ASSUME n + 1 \in 1..Len(ss)
                 PROVE  IsInjective(f[n + 1]) /\ Range(f[n + 1]) = Upto(n + 1)
      OBVIOUS
    <2>1. CASE n = 0
      <3>1. Upto(1) = Range(ss[1])
        <4>1. 1..1 = {1}
          OBVIOUS
        <4>2. QED
          BY <4>1
      <3>2. 1 \in DOMAIN ss
        BY <1>2
      <3>3. n + 1 = 1 /\ IsInjective(ss[1]) /\ f[1] = ss[1]
        BY <1>1, <2>1, <3>2
      <3> HIDE DEF Upto
      <3>4. QED
        BY <3>1, <3>3
    <2>2. CASE n # 0
      <3>1. n \in 1..Len(ss) /\ n \in 1..Len(ss) - 1 /\ n + 1 \in 1..Len(ss)
        BY <1>2, <2>2
      <3>2. IsInjective(f[n]) /\ Range(f[n]) = Upto(n)
        BY <1>4, <3>1
      <3>3. IsInjective(ss[n + 1]) /\ f[n + 1] = f[n] \o ss[n + 1] /\ f[n] \in Seq(S) /\ ss[n + 1] \in Seq(S)
        BY <1>1, <1>2, <3>1
      <3>4. Upto(n) \cap Range(ss[n + 1]) = {}
        <4>1. \A i \in 1..n : i \in DOMAIN ss /\ i # n + 1
          BY <1>2, <3>1
        <4>2. n + 1 \in DOMAIN ss
          BY <1>2
        <4>3. QED
          BY <4>1, <4>2
      <3>5. 1..n + 1 = (1..n) \cup {n + 1}
        BY <3>1
      <3>6. Upto(n + 1) = Upto(n) \cup Range(ss[n + 1])
        BY <3>5
      <3> HIDE DEF Upto
      <3>7. Range(f[n + 1]) = Upto(n + 1)
        <4>1. Range(f[n] \o ss[n + 1]) = Range(f[n]) \cup Range(ss[n + 1])
          BY <3>3, ConcatRange
        <4>2. QED
          BY <3>2, <3>3, <3>6, <4>1
      <3>8. IsInjective(f[n + 1])
        BY <3>2, <3>3, <3>4, ConcatRange
      <3>9. QED
        BY <3>7, <3>8
    <2>3. QED
      BY <2>1, <2>2
  <1>5. Nat \subseteq Good
    <2> HIDE DEF Good
    <2>1. QED
      BY <1>3, <1>4, SetInduction
  <1>6. IsInjective(f[Len(ss)]) /\ Range(f[Len(ss)]) = Upto(Len(ss))
    <2> HIDE DEF Upto
    <2>1. Len(ss) \in Good
      BY <1>2, <1>5
    <2>2. QED
      BY <1>2, <2>1
  <1>7. f[Len(ss)] \in Seq(S)
    BY <1>2
  <1>8. Upto(Len(ss)) = UNION {Range(ss[i]) : i \in DOMAIN ss}
    BY <1>2
  <1> HIDE DEF Upto
  <1>9. QED
    BY <1>1, <1>6, <1>7, <1>8

-----------------------------------------------------------------------------
(* The wave that is driven through its plan. *)

\* What is left of the plan is a plan of some rows of the wave, and the pages it
\* still lacks are free.
WaveInv ==
  /\ waveRows \in Waves /\ waveFree \in Nat
  /\ \E R \in SUBSET Range(waveRows) : Grouping(R, waveGroups)
  /\ Cardinality(LackingAll(waveGroups)) <= waveFree
  /\ wavePc # "raised"

LEMMA WaveFacts ==
  ASSUME NEW w \in Waves
  PROVE  /\ w \in Seq(RowSet) /\ IsInjective(w) /\ RidsUnique(Range(w))
         /\ Range(w) \subseteq RowSet /\ \A row \in Range(w) : Legal(row)
  <1>1. w \in Seq(RowSet) /\ \A i, j \in DOMAIN w : w[i].rid = w[j].rid => i = j
    BY WaveAssumption
  <1>2. IsInjective(w) /\ RidsUnique(Range(w)) /\ Range(w) \subseteq RowSet
    BY <1>1 DEF IsInjective, RidsUnique, Range
  <1>3. \A row \in Range(w) : Legal(row)
    BY WaveAssumption DEF Legal
  <1>4. QED
    BY <1>1, <1>2, <1>3

LEMMA PlanFacts ==
  ASSUME WaveInv, Plan
  PROVE  /\ Grouping(Range(waveRows), waveGroups')
         /\ Cardinality(LackingAll(waveGroups')) <= waveFree
  <1>1. PICK pad \in BOOLEAN, bucketed \in BOOLEAN, graph \in BOOLEAN :
           waveGroups' = WaveGroups(waveRows, waveFree, pad, bucketed, graph)
    BY DEF Plan
  <1>2. waveRows \in Seq(RowSet) /\ IsInjective(waveRows) /\ waveFree \in Nat /\ \A row \in Range(waveRows) : Legal(row)
    BY WaveFacts DEF WaveInv
  <1>3. QED
    BY <1>1, <1>2, WaveGrouping

\* The groups not yet run are a grouping of rows of the wave whose missing pages are
\* free: reserving for one group leaves enough for the others.
THEOREM WaveSafety == WaveSpec => []WaveInv
  <1>1. WaveInit => WaveInv
    <2> SUFFICES ASSUME WaveInit PROVE WaveInv
      OBVIOUS
    <2>1. Grouping({}, << >>)
      BY DEF Grouping
    <2>2. LackingAll(<< >>) = {}
      BY DEF LackingAll
    <2>3. Cardinality(LackingAll(waveGroups)) = 0
      BY <2>2, FS_EmptySet DEF WaveInit
    <2>4. waveFree \in Nat
      BY WaveAssumption DEF WaveInit
    <2>5. QED
      BY <2>1, <2>3, <2>4 DEF WaveInit, WaveInv
  <1>2. WaveInv /\ [WaveNext]_waveVars => WaveInv'
    <2> SUFFICES ASSUME WaveInv, [WaveNext]_waveVars
                 PROVE  WaveInv'
      OBVIOUS
    <2>1. CASE Plan
      <3>1. Grouping(Range(waveRows), waveGroups') /\ Cardinality(LackingAll(waveGroups')) <= waveFree
        BY <2>1, PlanFacts
      <3>2. waveRows' = waveRows /\ waveFree' = waveFree /\ wavePc' = "prefill"
        BY <2>1 DEF Plan
      <3>3. QED
        BY <3>1, <3>2 DEF WaveInv
    <2>2. CASE PrefillGroup
      <3>1. PICK R \in SUBSET Range(waveRows) : Grouping(R, waveGroups)
        BY DEF WaveInv
      <3>2. RidsUnique(R) /\ R \in SUBSET RowSet /\ waveGroups # << >>
        BY <2>2, WaveFacts DEF WaveInv, PrefillGroup, RidsUnique
      <3> DEFINE head == Lacking(Head(waveGroups).rows, Head(waveGroups).len)
                 rest == LackingAll(Tail(waveGroups))
      <3>3. /\ Grouping(R \ Range(Head(waveGroups).rows), Tail(waveGroups))
            /\ LackingAll(waveGroups) = head \cup rest /\ head \cap rest = {}
        BY <3>1, <3>2, TailGrouping
      <3>4. IsFiniteSet(LackingAll(waveGroups))
        BY <3>1, LackingAllFinite DEF Grouping
      <3> HIDE DEF head, rest
      <3>5. IsFiniteSet(head) /\ IsFiniteSet(rest)
        BY <3>3, <3>4, FS_Subset
      <3>6. /\ Cardinality(head) \in Nat /\ Cardinality(rest) \in Nat
            /\ Cardinality(LackingAll(waveGroups)) = Cardinality(head) + Cardinality(rest)
        <4>1. Cardinality(head \cap rest) = 0
          BY <3>3, FS_EmptySet
        <4>2. Cardinality(head) \in Nat /\ Cardinality(rest) \in Nat
          BY <3>5, FS_CardinalityType
        <4>3. Cardinality(head \cup rest) = Cardinality(head) + Cardinality(rest) - Cardinality(head \cap rest)
          BY <3>5, FS_Union
        <4>4. QED
          BY <3>3, <4>1, <4>2, <4>3
      <3>7. Cardinality(head) + Cardinality(rest) <= waveFree /\ waveFree \in Nat
        BY <3>6 DEF WaveInv
      <3>8. /\ waveFree' = waveFree - Cardinality(head) /\ waveGroups' = Tail(waveGroups)
            /\ UNCHANGED <<wavePc, waveRows>>
        BY <2>2, <3>6, <3>7 DEF PrefillGroup, ExtraPages, head
      <3>9. waveFree' \in Nat /\ Cardinality(LackingAll(waveGroups')) <= waveFree'
        BY <3>6, <3>7, <3>8 DEF rest
      <3>10. (R \ Range(Head(waveGroups).rows)) \in SUBSET Range(waveRows)
        BY <3>1
      <3>11. QED
        BY <3>3, <3>8, <3>9, <3>10 DEF WaveInv
    <2>3. CASE UNCHANGED waveVars
      BY <2>3 DEF WaveInv, waveVars
    <2>4. QED
      BY <2>1, <2>2, <2>3 DEF WaveNext
  <1>3. QED
    BY <1>1, <1>2, PTL DEF WaveSpec

\* Planning against the pages that are free when the wave is planned is enough: the
\* reserve() calls of its padded groups never run out of pages.
THEOREM WaveNeverRaises == WaveSpec => []WaveReservesFit
  <1>1. WaveInv => WaveReservesFit
    BY DEF WaveInv, WaveReservesFit
  <1>2. QED
    BY <1>1, WaveSafety, PTL

\* One forward pass has one length that suits all its rows, below max_seq.
THEOREM GroupsHaveShape == WaveSpec => []GroupShape
  <1>1. WaveInv => GroupShape
    BY DEF WaveInv, GroupShape, Grouping, ShapeOf
  <1>2. QED
    BY <1>1, WaveSafety, PTL

\* The plan of a wave is a partition of it: no admitted request is left out of the
\* prefill and none is prefilled twice.
THEOREM WaveIsPartitioned == WaveSpec => WavePartitioned
  <1> DEFINE A == wavePc = "plan" => Len(StillPlanned') = Len(waveRows) /\ Range(StillPlanned') = Range(waveRows)
  <1>1. WaveInv /\ [WaveNext]_waveVars => [A]_waveVars
    <2> SUFFICES ASSUME WaveInv, WaveNext, wavePc = "plan"
                 PROVE  Len(StillPlanned') = Len(waveRows) /\ Range(StillPlanned') = Range(waveRows)
      OBVIOUS
    <2>1. Plan
      BY DEF WaveNext, PrefillGroup
    <2>2. Grouping(Range(waveRows), waveGroups')
      BY <2>1, PlanFacts
    <2> DEFINE ss == [g \in DOMAIN waveGroups' |-> waveGroups'[g].rows]
    <2>3. StillPlanned' = FlattenSeq(ss)
      BY DEF StillPlanned
    <2>4. waveRows \in Seq(RowSet) /\ IsInjective(waveRows)
      BY WaveFacts DEF WaveInv
    <2>5. /\ waveGroups' \in Seq(GroupSet) /\ DOMAIN waveGroups' = 1..Len(waveGroups') /\ Len(waveGroups') \in Nat
          /\ \A g \in DOMAIN waveGroups' : waveGroups'[g].rows \in Seq(RowSet)
      <3>1. waveGroups' \in Seq(GroupSet)
        BY <2>2 DEF Grouping
      <3>2. \A g \in DOMAIN waveGroups' : waveGroups'[g] \in GroupSet
        BY <3>1
      <3>3. QED
        BY <3>1, <3>2 DEF GroupSet
    <2>6. ss \in Seq(Seq(RowSet)) /\ DOMAIN ss = DOMAIN waveGroups' /\ Len(ss) = Len(waveGroups')
      BY <2>5
    <2>7. /\ \A g \in DOMAIN ss : ss[g] = waveGroups'[g].rows /\ IsInjective(ss[g]) /\ Range(ss[g]) \subseteq Range(waveRows)
          /\ \A g, h \in DOMAIN ss : g # h => Range(ss[g]) \cap Range(ss[h]) = {}
          /\ \A x \in Range(waveRows) : \E g \in DOMAIN ss : x \in Range(ss[g])
      BY <2>2 DEF Grouping
    <2> HIDE DEF ss
    <2>8. CASE ss = << >>
      <3>1. Range(waveRows) = {}
        BY <2>7, <2>8
      <3>2. waveRows = << >>
        <4>1. SUFFICES ASSUME waveRows # << >>
                       PROVE  FALSE
          OBVIOUS
        <4>2. Len(waveRows) \in Nat /\ Len(waveRows) >= 1 /\ DOMAIN waveRows = 1..Len(waveRows)
          BY <2>4, <4>1
        <4>3. 1 \in DOMAIN waveRows
          BY <4>2
        <4>4. waveRows[1] \in Range(waveRows)
          BY <4>3 DEF Range
        <4>5. QED
          BY <3>1, <4>4
      <3>3. StillPlanned' = << >>
        BY <2>3, <2>8 DEF FlattenSeq
      <3>4. QED
        BY <3>2, <3>3
    <2>9. CASE ss # << >>
      <3>1. /\ FlattenSeq(ss) \in Seq(RowSet) /\ IsInjective(FlattenSeq(ss))
            /\ Range(FlattenSeq(ss)) = UNION {Range(ss[i]) : i \in DOMAIN ss}
        BY <2>6, <2>7, <2>9, FlattenPartition
      <3>2. Range(FlattenSeq(ss)) = Range(waveRows)
        BY <2>7, <3>1
      <3>3. Len(FlattenSeq(ss)) = Cardinality(Range(FlattenSeq(ss)))
        BY <3>1, InjectiveLen
      <3>4. Len(waveRows) = Cardinality(Range(waveRows))
        BY <2>4, InjectiveLen
      <3>5. QED
        BY <2>3, <3>2, <3>3, <3>4
    <2>10. QED
      BY <2>8, <2>9
  <1>2. QED
    BY <1>1, WaveSafety, PTL DEF WaveSpec, WavePartitioned

=============================================================================
